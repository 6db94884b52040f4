------------------------------- MODULE MCHttp -------------------------------
(***************************************************************************)
(* Two processes and eight experiments: two logins of the same session, and *)
(* transactions with it that name its own identity, another one, another    *)
(* run and another origin; a differential probe and a workflow probe.       *)
(***************************************************************************)
EXTENDS HttpExperiments, TLC

CONSTANTS p1, p2, MaxSessionWork

P(capability, run, identity, session, origin) ==
    [capability |-> capability, run |-> run, identity |-> identity, planIdentity |-> identity,
     session |-> session, origin |-> origin, target |-> "o1", inScope |-> TRUE,
     outside |-> {}, mode |-> "vulnerable"]

Transaction(run, identity, origin) == P("http.transaction", run, identity, "s", origin)

Login == P("http.authentication", "run1", "a", "s", "o1")

MCPlan ==
    [login |-> Login,
     login_again |-> Login,
     read |-> Transaction("run1", "a", "o1"),
     read_as_other |-> Transaction("run1", "b", "o1"),
     read_in_other_run |-> Transaction("run2", "a", "o1"),
     read_elsewhere |-> Transaction("run1", "a", "o2"),
     differential |-> P("http.authorization.differential", "run1", "a", None, "o1"),
     transition |-> P("http.state_transition", "run1", "a", None, "o1")]

MCOriginOf == [i \in {"a", "b"} |-> "o1"]

StartedBy(e) ==
    {a[2] : a \in AttemptsOf(e)} \cup {p \in Processes : ~Idle(p) /\ call[p].attempt[1] = e}

Started == {e \in Experiments : StartedBy(e) # {} \/ e \in blocked}

Quiet(accounts, workflow) ==
    /\ accounts => ~target.reader /\ "reads" \notin target.flaws
    /\ workflow => /\ ~target.delegated /\ target.state = "DRAFT"
                   /\ "approvals" \notin target.flaws

\* Bound: one probe, or MaxSessionWork of the experiments that have to do with a
\* session.  They share nothing, and each leaves quiet what it does not look at;
\* reads do not disturb each other, so one process is enough for the differential.
Bounded ==
    \/ Started = {}
    \/ Started = {"differential"} /\ Quiet(FALSE, TRUE)
       /\ Cardinality(StartedBy("differential")) = 1
    \/ Started = {"transition"} /\ Quiet(TRUE, FALSE)
    \/ /\ Started \cap {"differential", "transition"} = {}
       /\ Cardinality(Started) <= MaxSessionWork /\ Quiet(TRUE, TRUE)

Symmetry == Permutations(Processes)
=============================================================================
