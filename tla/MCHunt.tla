------------------------------- MODULE MCHunt -------------------------------
(***************************************************************************)
(* A registry of three rows over two nodes for the hunt runs.              *)
(***************************************************************************)
EXTENDS HuntCampaign

CONSTANTS o1, n1, n2

\* A family that asks for the scope and needs no evidence, and one that takes any
\* node and asks for an edge of it.
MCRegistry ==
    <<[family |-> "authz", on |-> {n1}, in_scope |-> TRUE, absent |-> FALSE,
       needs |-> FALSE, tier |-> "V3", mapped |-> TRUE],
      [family |-> "host", on |-> {n2}, in_scope |-> FALSE, absent |-> FALSE,
       needs |-> TRUE, tier |-> "V3", mapped |-> TRUE]>>

\* Two ends of what score_cell gives, success from -20 to 20, exploration 0 or 5 and
\* freshness from 0 to 24: a lead one short of the ten points of a hypothesis, and the
\* longest lead there is, of the other cell.
MCStandings ==
    {[f \in Families |-> [n \in Nodes |-> IF f = "authz" THEN 9 ELSE 0]],
     [f \in Families |-> [n \in Nodes |-> IF f = "authz" THEN -20 ELSE 44]]}
=============================================================================
