------------------------ MODULE MCResearchSelection ------------------------
(***************************************************************************)
(* Two object contexts and a workflow context.  The reproduction of "own"   *)
(* is what "other" probes; the run may already have a hypothesis about any  *)
(* object.                                                                 *)
(***************************************************************************)
EXTENDS ResearchSelection

MCFamilyOf == [k \in Contexts |-> IF k = "flow" THEN Workflow ELSE Object]
MCActorOf == [k \in Contexts |-> IF k = "other" THEN "b" ELSE "a"]
MCResourceOf == [k \in Contexts |-> IF k = "flow" THEN "document" ELSE "account"]
MCVerifierOf ==
    [k \in Contexts |-> IF k = "own" THEN [actor |-> "b", resource |-> "account"] ELSE Null]

MCPauseAfter == {Null, 2}

\* The run's own hypotheses are none, one about any object, one of an unknown family
\* beside one about "own", or one of each family.
MCExisting ==
    LET of(family, origin) == [family |-> family, origin |-> origin] IN
    {[h \in {} |-> Null],
     [h \in {"h1"} |-> of(Object, Null)],
     [h \in {"h1", "h2"} |-> IF h = "h1" THEN of("UNKNOWN", Null) ELSE of(Object, "own")],
     [h \in {"h1", "h2"} |-> IF h = "h1" THEN of(Object, "own") ELSE of(Workflow, "flow")]}

\* With a hypothesis about each context there is more to ask than can be explored.
Bounded == DOMAIN hypothesis = Contexts => Len(probes) <= 2
=============================================================================
