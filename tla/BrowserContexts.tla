-------------------------- MODULE BrowserContexts --------------------------
(***************************************************************************)
(* The browser worker's side of a browser.page request: the contexts of    *)
(* one worker process (PlaywrightChromiumEngine, and InMemoryBrowserEngine *)
(* of the unit tests, which take the same decisions) and the checks of     *)
(* execute_browser_page before one is used.                                *)
(*                                                                         *)
(* A browser is the sequence of its contexts in the order they were made,  *)
(* which is the order of the dictionary _evict_oldest_runtime takes its    *)
(* first key from.  A context shows a page (at), whose snapshot fingerprint *)
(* is the page: documents that change under their snapshot are left out.   *)
(***************************************************************************)
EXTENDS Integers, Sequences, FiniteSets

CONSTANTS
    Paths,          \* the pages of the target
    Controls,       \* their controls, by signature
    ControlsOf,     \* [Paths -> SUBSET Controls]
    LeadsTo,        \* [Controls -> Paths \cup {Outside}]: where a click leads
    MaxContexts     \* max_active_contexts

Outside == "outside"    \* a target the network envelope does not allow

ASSUME SiteAssumption ==
    /\ Outside \notin Paths
    /\ ControlsOf \in [Paths -> SUBSET Controls]
    /\ LeadsTo \in [Controls -> Paths \cup {Outside}]
    /\ MaxContexts \in Nat \ {0}

\* What the worker answers: status, the context and its page.
Answer(status, ctx) == [status |-> status, ref |-> ctx.ref, at |-> ctx.at]

Refused == Answer("FAILED", [ref |-> 0, at |-> Outside])

-----------------------------------------------------------------------------

\* _evict_oldest_runtime, of a browser that is full.
Evict(browser) == IF Len(browser) >= MaxContexts THEN Tail(browser) ELSE browser

\* _acquire without a lease key: a new context bound to the request.
Opened(browser, ref, who, session, path) ==
    Append(Evict(browser),
           [ref |-> ref, who |-> who, session |-> session, at |-> path, frozen |-> FALSE])

\* observe without a lease, then _goto: a new context in every case.  outcome
\* is what the target does with the load: REAUTH is a popup or a frame that leaves
\* the envelope (a redirect answers the same and does not freeze the context; the
\* runner forgets it either way), FAILED a timeout or a failed navigation.
Observe(browser, ref, who, session, path, outcome) ==
    LET opened == Opened(browser, ref, who, session, path)
        n      == Len(opened)
    IN [browser |-> [opened EXCEPT ![n].frozen = (outcome = "REAUTH")],
        answer  |-> Answer(outcome, opened[n])]

\* _require_lease and lease_binding_matches, and the snapshot test of _interact
\* and interact, which compare the request with the engine's last snapshot.
Lease(browser, request) ==
    {i \in DOMAIN browser : /\ browser[i].ref = request.ref
                            /\ browser[i].who = request.who
                            /\ browser[i].session = request.session
                            /\ ~browser[i].frozen}

Fresh(ctx, request) == ctx.at = request.at

\* interact: refused, or a click on the request's control that, by outcome, leaves
\* the page for where it leads, or leaves it unchanged.
Interact(browser, request, outcome) ==
    LET leased == {i \in Lease(browser, request) : Fresh(browser[i], request)}
    IN IF leased = {}
       THEN [browser |-> browser, answer |-> Refused]
       ELSE LET i     == CHOOSE k \in leased : TRUE
                there == LeadsTo[request.control]
            IN CASE outcome = "OBSERVED" /\ there # Outside ->
                      LET next == [browser[i] EXCEPT !.at = there]
                      IN [browser |-> [browser EXCEPT ![i] = next],
                          answer  |-> Answer("OBSERVED", next)]
                 [] outcome # "FAILED" /\ there = Outside ->
                      [browser |-> [browser EXCEPT ![i].frozen = TRUE],
                       answer  |-> Answer("REAUTH", browser[i])]
                 [] OTHER -> [browser |-> browser, answer |-> Answer("FAILED", browser[i])]
=============================================================================
