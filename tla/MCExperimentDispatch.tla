------------------------ MODULE MCExperimentDispatch ------------------------
(* Instantiates ExperimentDispatch: experiment e1 asks for a browser page at  *)
(* level 1, every other experiment for a level 0 echo; a caller passes a plan *)
(* that Core allows, refuses, wants reviewed, or whose inputs it rejects.     *)
EXTENDS ExperimentDispatch, TLC

CONSTANTS e1, MaxRequests, MaxToolCalls, MaxPerWindow, Window

MCWorkerRegistry ==
    [browser |-> [executor |-> "WORKER", version |-> 1, fingerprint |-> "f",
                  actions |-> [observe |-> [minimum |-> 1, maximum |-> 1]]],
     echo    |-> [executor |-> "WORKER", version |-> 1, fingerprint |-> "f",
                  actions |-> [observe |-> [minimum |-> 0, maximum |-> 0]]]]

MCIntegrationAllowlist == [entry \in {<<"strix", "ping">>} |-> [minimum |-> 0, maximum |-> 0]]

MCLevel == [e \in Experiments |-> IF e = e1 THEN 1 ELSE 0]

MCCapability ==
    [e \in Experiments |->
        [capability |-> IF e = e1 THEN "browser" ELSE "echo", action |-> "observe",
         version |-> 1, fingerprint |-> "f",
         authoritative_minimum |-> MCLevel[e], effective |-> MCLevel[e]]]

MCBrowserPage == {e1} \cap Experiments

Plain == [scope |-> [matched |-> {"ALLOW"}, ambiguous |-> FALSE], approval |-> Missing,
          http |-> "accepted", session |-> "accepted"]

MCCommands ==
    {Plain, [Plain EXCEPT !.scope.ambiguous = TRUE], [Plain EXCEPT !.http = "rejected"],
     [Plain EXCEPT !.session = "refused"]}

MCIssued ==
    [budget |-> "b",
     max |-> [f \in BudgetFields |-> CASE f = "requests"   -> MaxRequests
                                       [] f = "tool_calls" -> MaxToolCalls
                                       [] OTHER            -> 1]]

MCRateLimit == [max_requests |-> MaxPerWindow, window |-> Window]

Symmetry == Permutations(Requests) \cup Permutations(Controllers)

\* Without a rate limit nothing that is checked depends on the clock.
TimelessInit == RateLimit = Missing /\ Init

TimelessSpec == TimelessInit /\ [][Acting]_vars /\ CallsFair
=============================================================================
