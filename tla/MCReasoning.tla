------------------------------ MODULE MCReasoning ------------------------------
(***************************************************************************)
(* The reasoning of two runs of a program, and the routing of a reasoning  *)
(* role, which shares no state with it.                                    *)
(***************************************************************************)
EXTENDS HypothesisReasoning

-----------------------------------------------------------------------------
(* Reasoning: what a live API may answer.  Run r1 may be given every       *)
(* answer, r2 only good ones.                                              *)

Adapter == [sdk |-> TRUE, credential |-> TRUE, model |-> "priced"]

Said(keys, claim, references, capability) ==
    [keys |-> keys, complete |-> TRUE, claim |-> claim, references |-> references,
     capability |-> capability, novelty |-> "N4", alternatives |-> 1]

Response(value) ==
    [exception |-> None, text |-> [is |-> "object", value |-> value], model |-> "priced",
     tokens |-> [in |-> 1, out |-> 1]]

Failure(class) ==
    [exception |-> [class |-> class, code |-> None, status |-> None, words |-> {}],
     text |-> None, model |-> None, tokens |-> None]

\* A port that tells the budget what it used; no port of the repository does.
Reported(result) ==
    IF result.error # None THEN result
    ELSE [result EXCEPT !.prompt = result.telemetry.in,
                        !.completion = result.telemetry.out, !.telemetry = None]

Live(response) == CompleteByApi(Adapter, response)

Own(r) == {Id(r, "obs", 0)}
Good(r) == Response(Said({}, "claim", Own(r), "diagnostic.echo"))

Proposals(r) ==
    {[Response(Said({"authority"}, "claim", Own(r), "diagnostic.echo"))
        EXCEPT !.tokens = [in |-> 2, out |-> 1]],
     [Response(Said({}, "policy", Own(r), "diagnostic.echo"))
        EXCEPT !.tokens = [in |-> 1, out |-> 3]],
     Response(Said({}, "claim", Own("r2"), "diagnostic.echo")),
     Response(Said({}, "claim", {Id(r, "hyp", 1), Id(r, "neg", 1)}, "diagnostic.echo")),
     Response(Said({}, "claim", Own(r), "http.transaction")),
     Failure("rate")}

Challenges ==
    {Response([Said({}, "claim", {}, None) EXCEPT !.alternatives = 0]),
     Response(Said({"unknown"}, "claim", {}, None)), Failure("policy")}

MCGeneratorResults ==
    [r \in ResearchRuns |->
        {Reported(Live(p)) : p \in {Good(r)} \cup IF r = "r1" THEN Proposals(r) ELSE {}}]
MCFalsifierResults ==
    [r \in ResearchRuns |->
        {Reported(Live(p)) : p \in {Good(r)} \cup IF r = "r1" THEN Challenges ELSE {}}]

MCPrices == [m \in {"priced"} |-> [in |-> 2, out |-> 3]]
MCPolicies == {None, [limit |-> None], [limit |-> 3]}
MCMaxCalls == [r \in ResearchRuns |-> IF r = "r1" THEN 4 ELSE 2]
MCContextBudget == [observations |-> 1, hypotheses |-> 1, negatives |-> 1, characters |-> 1]
MCMaxCrashes == [r \in ResearchRuns |-> IF r = "r1" THEN 1 ELSE 0]
MCUnderWay == {{"r1"}, ResearchRuns}

\* Two runs side by side are explored under a limit, without a crash, for good answers
\* only, and four calls of the two.
Bounded ==
    \/ row["r2"].state = "COMPLETED" /\ row["r2"].stop = None
    \/ /\ Len(paid) <= 4 /\ crashes["r1"] = 0 /\ policy \notin {None, [limit |-> None]}
       /\ \A r \in ResearchRuns : ctl[r].result \in {None, Reported(Live(Good(r)))}

-----------------------------------------------------------------------------
(* Routing among three APIs and a command line, as they are found.         *)

Process(stdout) == [Supervised EXCEPT !.stdout = stdout]

\* Whether the third API has its credential, and what the command line's diagnostic gives.
Environment(credential, diagnostic) ==
    [api |-> [a \in LiveAdapters |->
                 [Adapter EXCEPT !.credential = a # "anthropic" \/ credential]],
     codex |-> <<[id |-> "cli", model |-> "m"]>>,
     machine |-> [path |-> TRUE, version |-> Process(<<Text>>), login |-> Process(<<Text>>),
                  exec |-> [m \in {"m"} |->
                               Process(<<Text, Outer([is |-> "object", value |-> diagnostic])>>)]],
     local |-> None, external |-> None, strix |-> [healthy |-> FALSE, installed |-> FALSE]]

Candidate(available, id, identity, price, quality) ==
    [identity |-> [identity EXCEPT !.price = price],
     available |-> id \in available, authenticated |-> TRUE, structured |-> TRUE,
     capabilities |-> IF identity.class = Agent THEN {StructuredOutput} ELSE {},
     side_effects |-> {}, local |-> FALSE, prohibited |-> FALSE, strix |-> FALSE,
     quality |-> quality]

Rich == AvailableModelConfigurations(
            DiscoverConfiguredRuntimes(Environment(TRUE, "diagnostic"), TRUE))
Poor == AvailableModelConfigurations(
            DiscoverConfiguredRuntimes(Environment(FALSE, "other"), TRUE))

\* Three APIs, all four in another order, the command line alone.
Lists(available) ==
    LET api(id, price, quality) ==
            Candidate(available, id, ApiIdentity(id, id), price, quality)
        openai == api("openai", Cheap, [key |-> 0, latency |-> 1, cost |-> None])
        gemini == api("gemini", Cheap, [key |-> 0, latency |-> None, cost |-> 2])
        anthropic == api("anthropic", Expensive, None)
        cli == Candidate(available, "cli",
                         CliIdentity([id |-> "cli", model |-> "m"], "codex", "version"), Cheap,
                         [key |-> 1, latency |-> None, cost |-> None])
    IN {<<openai, gemini, anthropic>>, <<anthropic, cli, gemini, openai>>, <<cli>>}

CandidateLists == Lists(Rich) \cup Lists(Poor)

Request(candidates, task) ==
    [candidates |-> candidates, class |-> Inference, structured |-> TRUE, local |-> FALSE,
     allow_agent |-> FALSE, prohibited |-> {}, preference |-> <<>>, ask_on_tie |-> FALSE,
     attempted |-> {}, attempts |-> 0, fallbacks |-> 0, max_attempts |-> 3,
     max_fallbacks |-> 1, task |-> task, escalation |-> FALSE]

MCRoutingRequests ==
    {[Request(candidates, task) EXCEPT
        !.class = class, !.allow_agent = class = Agent, !.preference = ties.preference,
        !.ask_on_tie = ties.ask, !.max_fallbacks = fallbacks] :
        candidates \in CandidateLists, class \in {Inference, Agent},
        ties \in {[preference |-> <<>>, ask |-> TRUE], [preference |-> <<>>, ask |-> FALSE],
                  [preference |-> <<"gemini", "openai">>, ask |-> TRUE]},
        task \in {"generator", "finding_proposal_qa", "monitoring"}, fallbacks \in 0..2}

\* A step without a request, and one whose request no runtime fits.
MCStepRequests == {None, Request(<<>>, "generator")}

-----------------------------------------------------------------------------
Init == ReasoningInit /\ RoutingInit

Unstarted ==
    /\ policy = None /\ reserved = {} /\ ctl["r1"] = Idle
    /\ row["r1"].state = "READY" /\ row["r2"].state = "COMPLETED"

Reason == routing = None /\ ReasoningNext /\ UNCHANGED routingVars

\* A request is routed before the run that is alone gets under way, if at all.
Route == Unstarted /\ RoutingNext /\ UNCHANGED reasoningVars

Spec == Init /\ [][Reason \/ Route]_<<reasoningVars, routingVars>>
=============================================================================
