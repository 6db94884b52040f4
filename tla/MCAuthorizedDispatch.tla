-------------------------- MODULE MCAuthorizedDispatch --------------------------
(***************************************************************************)
(* Whether Core allows a plan, and how one controller dispatches what it   *)
(* allows.  The two share no state here, so a behaviour is of one of them. *)
(*                                                                         *)
(* Authorization is about one Worker capability whose action spans levels  *)
(* 1..3, one integration of level 0, and claims that are truthful,         *)
(* understate or overstate the risk, or name what no catalogue holds.      *)
(***************************************************************************)
EXTENDS AuthorizationDrift, MCExperimentDispatch

VARIABLE part

MCCatalogue ==
    MCWorkerRegistry @@
    [http |-> [executor |-> "WORKER", version |-> 1, fingerprint |-> "f",
               actions |-> [send |-> [minimum |-> 1, maximum |-> 3]]]]

Claim(capability, action, minimum, effective) ==
    [capability |-> capability, action |-> action, version |-> 1, fingerprint |-> "f",
     authoritative_minimum |-> minimum, effective |-> effective]

MCViews ==
    {Missing, Claim("strix", "ping", 0, 0), Claim("http", "send", 0, 1),
     Claim("http", "send", 1, 0), Claim("unknown", "send", 1, 1)}
    \cup {Claim("http", "send", 1, level) : level \in 1..3}
    \cup {[Claim("http", "send", 1, 2) EXCEPT !.fingerprint = "g"]}

OneOfEach == [budget |-> "b", max |-> [f \in BudgetFields |-> 1]]

\* The plan that stands still while experiments are dispatched.
Unclaimed ==
    [capability |-> Missing, level |-> 0, source |-> Missing,
     scope |-> [matched |-> {}, ambiguous |-> FALSE], issued |-> OneOfEach,
     usage |-> [f \in BudgetFields |-> 0], requested_budget |-> OneOfEach.budget,
     subject |-> PlanSubject, approval |-> Missing]

ControlInit ==
    /\ part \in {"authorization", "dispatch"}
    /\ Init
    /\ DriftInit
    /\ part = "dispatch" => request = Unclaimed

Authorize == part = "authorization" /\ DriftNext /\ UNCHANGED <<part, vars>>

Dispatch == part = "dispatch" /\ Next /\ UNCHANGED <<part, driftVars>>

ControlSpec == ControlInit /\ [][Authorize \/ Dispatch]_<<part, vars, driftVars>>
=============================================================================
