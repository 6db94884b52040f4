----------------------------- MODULE MCDiscovery -----------------------------
(***************************************************************************)
(* A site of two or three pages for the discovery runs.                    *)
(***************************************************************************)
EXTENDS DiscoveryFrontier

CONSTANTS r1, r2

\* "/" holds a link to "/a" and two controls that look alike; "/a" a link out of
\* the envelope and a form.
MCControlsOf == [p \in Paths |-> CASE p = "/"  -> {"next", "twin"}
                                   [] p = "/a" -> {"out"}]
MCLeadsTo    == [c \in Controls |-> CASE c = "next" -> "/a"
                                      [] c = "twin" -> "/"
                                      [] c = "out"  -> Outside]
MCRequests   == [p \in Paths |-> IF p = "/" THEN {"GET"} ELSE {"POST"}]
MCSessionOf  == [i \in Identities |-> "session"]

\* The same site with its one link.
MCOneLink    == [p \in Paths |-> IF p = "/" THEN {"next"} ELSE {}]
MCNoRequests == [p \in Paths |-> {}]

Symmetry == Permutations(Runners)
=============================================================================
