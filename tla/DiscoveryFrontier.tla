-------------------------- MODULE DiscoveryFrontier --------------------------
(***************************************************************************)
(* SurfaceDiscoveryRunner: run_cycle claims one frontier item, plans and   *)
(* runs one experiment for it on the browser worker, and projects what was *)
(* observed into facts and new frontier items.  Several controllers may    *)
(* cycle on the same research run; each has its own browser worker and     *)
(* keeps in memory which pages of it it has seen (_live_pages).            *)
(*                                                                         *)
(* An item is its dedupe identity, UNIQUE in the run; its state is the     *)
(* last event of its log, whose (frontier_id, sequence) is UNIQUE.  A      *)
(* transaction that reads, computes and writes is a look and a commit:     *)
(* the UNIQUE constraints make the commit fail when another transaction    *)
(* has inserted what this one is about to insert.                          *)
(***************************************************************************)
EXTENDS BrowserContexts, FiniteSetsExt, SequencesExt

CONSTANTS
    Runners,
    Seed,                   \* normalized_path of the run's configuration
    Identities,             \* configured identities, the anonymous one excluded
    SessionOf,              \* session_context_by_identity
    Requests,               \* [Paths -> SUBSET requests a page makes]
    SideEffect,             \* requests whose method is not GET, HEAD or OPTIONS
    Refusable,              \* requests the compiled scope does not allow
    Ambiguous,              \* controls another control of the page looks like
    MaxDiscoveryCycles, MaxFrontierItems, MaxBrowserActions, MaxHttpTransactions,
    MaxPerRouteRevisit, MaxIdentityVariants,
    MaxFaults               \* bound on failures, crashes and lost workers

Anonymous == "anonymous"
NoSession == "none"

ASSUME RunAssumption ==
    /\ Seed \in Paths
    /\ Anonymous \notin Identities
    /\ DOMAIN SessionOf \subseteq Identities /\ NoSession \notin Range(SessionOf)
    /\ Ambiguous \subseteq Controls
    /\ {MaxDiscoveryCycles, MaxFrontierItems, MaxBrowserActions, MaxHttpTransactions,
        MaxPerRouteRevisit, MaxIdentityVariants, MaxFaults} \subseteq Nat
    /\ IsFiniteSet(Identities)
    /\ \A p \in Paths : IsFiniteSet(ControlsOf[p]) /\ IsFiniteSet(Requests[p])

VARIABLES
    log,        \* frontier_event: [item -> its events, by sequence]
    session,    \* frontier_item.session_context_id
    exps,       \* experiments of the run with their attempt and result
    receipts,   \* discovery_projection_receipt, by experiment
    projected,  \* [experiment -> commits that projected its observation]
    orch,       \* the run: RUNNING, or the reason it stopped for
    runner,     \* the controllers
    live,       \* their _live_pages
    browser,    \* their browser workers
    faults

db   == <<log, session, exps, receipts, projected, orch>>
vars == <<db, runner, live, browser, faults>>

-----------------------------------------------------------------------------
Item(goal, path, who, what, nth) ==
    [goal |-> goal, path |-> path, who |-> who, what |-> what, nth |-> nth]

Inspect(path, who, nth)      == Item("INSPECT_PATH", path, who, "none", nth)
Variant(who)                 == Item("OBSERVE_UNDER_IDENTITY", Seed, who, "none", 0)
Click(path, who, control)    == Item("INSPECT_CONTROL", path, who, control, 0)
Request(path, request)       == Item("CHARACTERIZE_HTTP_OPERATION", path, Anonymous, request, 0)
Resolve(path, who)           == Item("RESOLVE_TRANSITION_RESULT", path, who, "none", 0)

IsBrowser(item) == item.goal # "CHARACTERIZE_HTTP_OPERATION"

\* GOAL_PRIORITY and budget_class: what select_eligible_frontier ranks by.  The
\* order within a rank, by the text of the dedupe identity, is left open.
GoalRank(goal) ==
    CASE goal = "INSPECT_PATH" -> 0
      [] goal = "OBSERVE_UNDER_IDENTITY" -> 2
      [] goal = "CHARACTERIZE_HTTP_OPERATION" -> 3
      [] goal = "INSPECT_CONTROL" -> 4
      [] goal = "RESOLVE_TRANSITION_RESULT" -> 5

BudgetClass(item) ==
    IF item.goal = "INSPECT_CONTROL" \/ item.what \in SideEffect THEN 1 ELSE 0

Rank(item) == 10 * BudgetClass(item) + GoalRank(item.goal)

Event(kind)     == [kind |-> kind, generation |-> 0]
Created         == <<Event("CREATED"), Event("ELIGIBLE")>>
State(events)   == Last(events).kind
Selections(events) == {k \in DOMAIN events : events[k].kind = "SELECTED"}

\* LEGAL_TRANSITIONS.
LegalTransitions ==
    [CREATED |-> {"ELIGIBLE", "BLOCKED_SCOPE", "BLOCKED_AUTH", "BLOCKED_BUDGET",
                  "SUPERSEDED"},
     ELIGIBLE |-> {"SELECTED", "BLOCKED_SCOPE", "BLOCKED_AUTH", "BLOCKED_BUDGET",
                   "SUPERSEDED", "NO_NEW_INFORMATION"},
     SELECTED |-> {"OBSERVED", "NO_NEW_INFORMATION", "FAILED_TRANSIENT", "FAILED_TERMINAL",
                   "AWAITING_REAUTHORIZATION", "BLOCKED_SCOPE", "BLOCKED_AUTH",
                   "BLOCKED_BUDGET", "SUPERSEDED"},
     FAILED_TRANSIENT |-> {"ELIGIBLE", "FAILED_TERMINAL", "SUPERSEDED"},
     AWAITING_REAUTHORIZATION |-> {"ELIGIBLE", "BLOCKED_AUTH", "SUPERSEDED"},
     NO_NEW_INFORMATION |-> {"ELIGIBLE", "SUPERSEDED"},
     OBSERVED |-> {"SUPERSEDED"}, BLOCKED_SCOPE |-> {"SUPERSEDED"},
     BLOCKED_AUTH |-> {"ELIGIBLE", "SUPERSEDED"}, BLOCKED_BUDGET |-> {"SUPERSEDED"},
     FAILED_TERMINAL |-> {"SUPERSEDED"}, SUPERSEDED |-> {}]

Legal(from, to) == to \in LegalTransitions[from]

-----------------------------------------------------------------------------
Idle == [pc |-> "idle", item |-> Inspect(Seed, Anonymous, 0), exp |-> 0, todo |-> {},
         fresh |-> {}, next |-> "NONE"]

Init ==
    /\ log = [i \in {} |-> <<>>]
    /\ session = [i \in {} |-> NoSession]
    /\ exps = <<>>
    /\ receipts = {}
    /\ projected = <<>>
    /\ orch = "RUNNING"
    /\ runner = [r \in Runners |-> Idle]
    /\ live = [r \in Runners |-> {}]
    /\ browser = [r \in Runners |-> <<>>]
    /\ faults = 0

Goto(r, pc) == runner' = [runner EXCEPT ![r].pc = pc]

\* rows with the same value for each of new.
Inserted(rows, new, value) ==
    [i \in DOMAIN rows \cup new |-> IF i \in new THEN value ELSE rows[i]]

Appended(rows, item, kinds) ==
    [rows EXCEPT ![item] = @ \o [k \in DOMAIN kinds |-> Event(kinds[k])]]

\* ensure_started and _seed: the seed page anonymously, and under the first
\* max_identity_variants identities.
SeedItems(variants) == {Inspect(Seed, Anonymous, 0)} \cup {Variant(i) : i \in variants}

Start(r) ==
    /\ runner[r].pc = "idle" /\ DOMAIN log = {}
    /\ \E variants \in SUBSET Identities :
         /\ Cardinality(variants) = Min({MaxIdentityVariants, Cardinality(Identities)})
         /\ LET items == SeedItems(variants)
            IN /\ log' = [i \in items |-> Created]
               /\ session' = [i \in items |-> IF i.who \in DOMAIN SessionOf
                                              THEN SessionOf[i.who] ELSE NoSession]
    /\ UNCHANGED <<exps, receipts, projected, orch, runner, live, browser, faults>>

-----------------------------------------------------------------------------
HasResult(e)  == exps[e].status \in {"OBSERVED", "REAUTH", "FAILED"}
Unprojected   == {e \in DOMAIN exps : exps[e].status \in {"OBSERVED", "REAUTH"}} \ receipts
OpenAttempts  == {e \in DOMAIN exps : exps[e].status \in {"DISPATCHING", "UNKNOWN"}}
IsPage(e)     == exps[e].status = "OBSERVED" /\ IsBrowser(exps[e].item)

\* _workflow_binding: a PAGE_STATE fact of the page a click led to, from an
\* observation projected before.
PageKnown(e, todo) ==
    \E d \in receipts \cup {d \in todo : d < e} : IsPage(d) /\ exps[d].at = exps[e].at

\* project_observation_view: the items one observed page proposes, attributed to
\* the identity of the experiment's plan.  An http.transaction and a control
\* event propose none.
Proposed(e, todo) ==
    IF ~IsPage(e) THEN {}
    ELSE LET at == exps[e].at
             who == exps[e].item.who
         IN {Click(at, who, c) : c \in ControlsOf[at]}
            \cup {Request(at, q) : q \in Requests[at]}
            \cup (IF exps[e].item.goal = "INSPECT_CONTROL" /\ ~PageKnown(e, todo)
                  THEN {Resolve(at, who)} ELSE {})

\* The items reconcile_missing_projections adds for todo: those whose dedupe
\* identity is new.
Proposals(todo) == (UNION {Proposed(e, todo) : e \in todo}) \ DOMAIN log

\* Mutant: the receipts and items of another transaction are not in the way.
NoConflict(r) == FALSE

\* ingest_control_event_from_worker_result and reconcile_missing_projections, in
\* the transaction that computed todo and fresh: a receipt or an item another
\* transaction has inserted meanwhile breaks a UNIQUE constraint.
Conflict(r) ==
    \/ runner[r].todo \cap receipts # {}
    \/ runner[r].fresh \cap DOMAIN log # {}

WithFresh(r) == Inserted(log, runner[r].fresh, Created)

\* rows is the log with them and with the event of this transaction.
Project(r, rows) ==
    /\ log' = rows
    /\ session' = Inserted(session, runner[r].fresh, NoSession)
    /\ receipts' = receipts \cup runner[r].todo
    /\ projected' = [e \in DOMAIN projected |->
                       projected[e] + IF e \in runner[r].todo THEN 1 ELSE 0]

\* _bound_stop_reason over the run's rows, items being its frontier.
BoundStop(items) ==
    LET results(capability) ==
          Cardinality({e \in DOMAIN exps : HasResult(e) /\ IsBrowser(exps[e].item) = capability})
    IN CASE Len(exps) >= MaxDiscoveryCycles -> "MAX_DISCOVERY_CYCLES"
         [] Cardinality(items) >= MaxFrontierItems -> "MAX_FRONTIER_ITEMS"
         [] results(TRUE) >= MaxBrowserActions -> "MAX_BROWSER_ACTIONS"
         [] results(FALSE) >= MaxHttpTransactions -> "MAX_HTTP_TRANSACTIONS"
         [] OTHER -> "NONE"

\* select_eligible_frontier: an ELIGIBLE item of the lowest rank.
Selectable(fresh) ==
    LET eligible == fresh \cup {i \in DOMAIN log : State(log[i]) = "ELIGIBLE"}
        lowest   == Min({Rank(i) : i \in eligible})
    IN {i \in eligible : Rank(i) = lowest}

\* _complete_cycle and _stop of the controller write the state of the whole row.
EndCycle(r, reason) ==
    /\ orch' = IF reason = "NONE" THEN "RUNNING" ELSE reason
    /\ runner' = [runner EXCEPT ![r] = Idle]

Abort(r) == runner' = [runner EXCEPT ![r] = Idle]

\* Mutant: the run waits for the attempt instead.
WaitInDoubt(r) == FALSE

\* _step_surface_discovery: an attempt in doubt stops the run.
StopInDoubt(r) ==
    /\ runner[r].pc = "idle" /\ DOMAIN log # {} /\ orch = "RUNNING"
    /\ OpenAttempts # {}
    /\ orch' = "OPERATIONAL_FAILURE"
    /\ UNCHANGED <<log, session, exps, receipts, projected, runner, live, browser, faults>>

\* The first transaction of run_cycle up to its choice: what to project, whether a
\* bound stops the run, and the item to claim.
Look(r) ==
    /\ runner[r].pc = "idle" /\ DOMAIN log # {} /\ orch = "RUNNING"
    /\ OpenAttempts = {}
    /\ LET todo  == Unprojected
           fresh == Proposals(todo)
           stop  == BoundStop(DOMAIN log \cup fresh)
           tx    == [runner[r] EXCEPT !.pc = "looked", !.todo = todo, !.fresh = fresh]
       IN IF stop # "NONE"
          THEN runner' = [runner EXCEPT ![r] = [tx EXCEPT !.next = stop]]
          ELSE IF Selectable(fresh) = {}
          THEN runner' = [runner EXCEPT ![r] = [tx EXCEPT !.next = "NO_ELIGIBLE_FRONTIER"]]
          ELSE \E i \in Selectable(fresh) : runner' = [runner EXCEPT ![r] = [tx EXCEPT !.item = i]]
    /\ UNCHANGED <<db, live, browser, faults>>

Selected(events) ==
    Append(events, [kind |-> "SELECTED", generation |-> Cardinality(Selections(events)) + 1])

\* Mutant: claim_frontier_selected trusts what the transaction read before the lock.
ClaimableUnlocked(r, after) == TRUE

\* claim_frontier_selected under the lock of the item.
Claimable(r, after) == Legal(State(after[runner[r].item]), "SELECTED")

\* Its end: the projections and the claim are committed together, or nothing is.
Claim(r) ==
    /\ runner[r].pc = "looked" /\ runner[r].next = "NONE"
    /\ LET after == WithFresh(r)
           item  == runner[r].item
       IN IF Conflict(r) \/ ~Claimable(r, after)
          THEN Abort(r) /\ UNCHANGED db
          ELSE /\ Project(r, [after EXCEPT ![item] = Selected(@)])
               /\ Goto(r, "claimed")
               /\ UNCHANGED <<exps, orch>>
    /\ UNCHANGED <<live, browser, faults>>

\* Mutant: a bound stops the run before anything is projected.
StopUnprojected(r) ==
    /\ runner[r].pc = "looked" /\ runner[r].next # "NONE"
    /\ EndCycle(r, runner[r].next)
    /\ UNCHANGED <<log, session, exps, receipts, projected, live, browser, faults>>

\* The same transaction when there is nothing to claim.
Close(r) ==
    /\ runner[r].pc = "looked" /\ runner[r].next # "NONE"
    /\ IF Conflict(r)
       THEN Abort(r) /\ UNCHANGED db
       ELSE /\ Project(r, WithFresh(r))
            /\ EndCycle(r, runner[r].next)
            /\ UNCHANGED exps
    /\ UNCHANGED <<live, browser, faults>>

-----------------------------------------------------------------------------
LivePage(r, item) == {p \in live[r] : p.at = item.path /\ p.who = item.who}

\* compile_frontier_plan, ReobserveRequired: the page is not in memory, or two of
\* its controls answer the signature (resolve_control_ref).
MustReobserve(r, item) ==
    /\ item.goal = "INSPECT_CONTROL"
    /\ LivePage(r, item) = {} \/ item.what \in Ambiguous

\* _reobserve: one more visit of the route while its visits are below
\* max_per_route_revisit, under a signature with their number; the item waits
\* behind it.
Revisit(item) ==
    LET visits == {i \in DOMAIN log : /\ i.goal = "INSPECT_PATH"
                                      /\ i.who = item.who /\ i.path = item.path}
        again  == Inspect(item.path, item.who, Cardinality(visits))
    IN IF Cardinality(visits) >= MaxPerRouteRevisit \/ again \in DOMAIN log
       THEN log' = Appended(log, item, <<"NO_NEW_INFORMATION">>) /\ UNCHANGED session
       ELSE /\ log' = Inserted(Appended(log, item, <<"FAILED_TRANSIENT", "ELIGIBLE">>),
                              {again}, Created)
            /\ session' = Inserted(session, {again}, session[item])

Reobserve(r) ==
    /\ runner[r].pc = "claimed" /\ MustReobserve(r, runner[r].item)
    /\ Revisit(runner[r].item)
    /\ EndCycle(r, "NONE")
    /\ UNCHANGED <<exps, receipts, projected, live, browser, faults>>

\* authorize_http_transaction_plan refuses the plan.
Block(r) ==
    /\ runner[r].pc = "claimed" /\ runner[r].item.what \in Refusable
    /\ log' = Appended(log, runner[r].item, <<"BLOCKED_SCOPE">>)
    /\ EndCycle(r, "CORE_BLOCKED")
    /\ UNCHANGED <<session, exps, receipts, projected, live, browser, faults>>

\* PreparePlannedExperiment: the plan is fixed, its page reference included.
Prepare(r) ==
    LET item == runner[r].item
        ref  == IF item.goal = "INSPECT_CONTROL"
                THEN (CHOOSE p \in LivePage(r, item) : TRUE).ref ELSE 0
    IN /\ runner[r].pc = "claimed"
       /\ ~MustReobserve(r, item) /\ item.what \notin Refusable
       /\ exps' = Append(exps, [item |-> item, session |-> session[item], ref |-> ref,
                                status |-> "PLANNED", at |-> Outside])
       /\ projected' = Append(projected, 0)
       /\ runner' = [runner EXCEPT ![r].pc = "prepared", ![r].exp = Len(exps) + 1]
       /\ UNCHANGED <<log, session, receipts, orch, live, browser, faults>>

-----------------------------------------------------------------------------
Fault == faults < MaxFaults /\ faults' = faults + 1

\* ExecutePlannedExperiment up to the durable DISPATCHING attempt, or a refusal.
Dispatch(r) ==
    /\ runner[r].pc = "prepared"
    /\ \/ /\ exps' = [exps EXCEPT ![runner[r].exp].status = "DISPATCHING"]
          /\ Goto(r, "dispatched")
          /\ UNCHANGED faults
       \/ /\ Fault
          /\ exps' = [exps EXCEPT ![runner[r].exp].status = "DENIED"]
          /\ Goto(r, "returned")
    /\ UNCHANGED <<log, session, receipts, projected, orch, live, browser>>

\* The worker's request for experiment e, from its plan.
RequestOf(e) ==
    [ref |-> exps[e].ref, who |-> exps[e].item.who, session |-> exps[e].session,
     at |-> exps[e].item.path, control |-> exps[e].item.what]

\* What the worker may answer to it, with what its contexts become.
Answers(contexts, e) ==
    CASE exps[e].item.goal = "INSPECT_CONTROL" ->
           {Interact(contexts, RequestOf(e), outcome) : outcome \in {"OBSERVED", "FAILED"}}
      [] exps[e].item.goal = "CHARACTERIZE_HTTP_OPERATION" ->
           {[browser |-> contexts,
             answer |-> [Refused EXCEPT !.status = outcome, !.at = exps[e].item.path]] :
              outcome \in {"OBSERVED", "FAILED"}}
      [] OTHER ->
           {Observe(contexts, e, exps[e].item.who, exps[e].session, exps[e].item.path, outcome) :
              outcome \in {"OBSERVED", "REAUTH", "FAILED"}}

\* The worker's effect on the target and its result with the observation made of it.
Work(r) ==
    LET e == runner[r].exp
    IN /\ runner[r].pc = "dispatched"
       /\ \E a \in Answers(browser[r], e) :
            /\ exps' = [exps EXCEPT ![e].status = a.answer.status, ![e].at = a.answer.at,
                                    ![e].ref = a.answer.ref]
            /\ browser' = [browser EXCEPT ![r] = a.browser]
            /\ IF a.answer.status = "OBSERVED" \/ a.answer = Refused
                  \/ (exps[e].item.goal = "INSPECT_CONTROL" /\ a.answer.status = "REAUTH")
               THEN UNCHANGED faults ELSE Fault
       /\ Goto(r, "returned")
       /\ UNCHANGED <<log, session, receipts, projected, orch, live>>

\* No answer: the adapter kills the worker, and the attempt is in doubt.
Lose(r) ==
    /\ runner[r].pc = "dispatched" /\ Fault
    /\ exps' = [exps EXCEPT ![runner[r].exp].status = "UNKNOWN"]
    /\ browser' = [browser EXCEPT ![r] = <<>>]
    /\ EndCycle(r, "OPERATIONAL_FAILURE")
    /\ UNCHANGED <<log, session, receipts, projected, live>>

\* The last transaction of run_cycle, up to what it will project.
ReadBack(r) ==
    /\ runner[r].pc = "returned"
    /\ runner' = [runner EXCEPT ![r].pc = "ending", ![r].todo = Unprojected,
                                ![r].fresh = Proposals(Unprojected)]
    /\ UNCHANGED <<db, live, browser, faults>>

Outcome(e) ==
    CASE exps[e].status = "OBSERVED" -> <<"OBSERVED">>
      [] exps[e].status = "REAUTH"   -> <<"AWAITING_REAUTHORIZATION">>
      [] OTHER -> <<>>

\* Mutant: a page that replaces another in its context is added beside it.
RememberBeside(pages, e) ==
    pages \cup {[at |-> exps[e].at, who |-> exps[e].item.who, ref |-> exps[e].ref]}

\* _remember_live_page: the page replaces every page of its context, and the one
\* under its key.
Remember(pages, e) ==
    LET page == [at |-> exps[e].at, who |-> exps[e].item.who, ref |-> exps[e].ref]
    IN {p \in pages : p.ref # page.ref /\ (p.at # page.at \/ p.who # page.who)} \cup {page}

\* _drop_live_pages: all pages of the identity.
Forget(pages, e) == {p \in pages : p.who # exps[e].item.who}

LiveAfter(pages, e) ==
    IF exps[e].status = "OBSERVED"
    THEN IF IsPage(e) THEN Remember(pages, e) ELSE pages
    ELSE IF IsBrowser(exps[e].item) THEN Forget(pages, e) ELSE pages

\* Its commit.  Only an observation or a reauthorization gives the item an event:
\* after any other result it stays SELECTED.
Finish(r) ==
    /\ runner[r].pc = "ending"
    /\ LET e == runner[r].exp
       IN IF Conflict(r)
          THEN Abort(r) /\ UNCHANGED <<db, live>>
          ELSE /\ Project(r, Appended(WithFresh(r), runner[r].item, Outcome(e)))
               /\ live' = [live EXCEPT ![r] = LiveAfter(@, e)]
               /\ EndCycle(r, BoundStop(DOMAIN log \cup runner[r].fresh))
               /\ UNCHANGED exps
    /\ UNCHANGED <<browser, faults>>

-----------------------------------------------------------------------------
\* A controller dies with its worker; another takes its place and knows no page.
Crash(r) ==
    /\ Fault
    /\ runner' = [runner EXCEPT ![r] = Idle]
    /\ live' = [live EXCEPT ![r] = {}]
    /\ browser' = [browser EXCEPT ![r] = <<>>]
    /\ UNCHANGED <<db>>

\* The worker process alone dies between requests: _ensure_process starts another.
LoseWorker(r) ==
    /\ runner[r].pc # "dispatched" /\ browser[r] # <<>> /\ Fault
    /\ browser' = [browser EXCEPT ![r] = <<>>]
    /\ UNCHANGED <<db, runner, live>>

Step(r) ==
    \/ Start(r) \/ StopInDoubt(r) \/ Look(r) \/ Claim(r) \/ Close(r)
    \/ Reobserve(r) \/ Block(r) \/ Prepare(r) \/ Dispatch(r) \/ Work(r)
    \/ ReadBack(r) \/ Finish(r)

Next == \E r \in Runners : Step(r) \/ Lose(r) \/ Crash(r) \/ LoseWorker(r)

Spec == Init /\ [][Next]_vars

\* run_bounded calls step() again until the run has stopped, and a dead controller
\* is started again.
FairSpec == Spec /\ \A r \in Runners : WF_vars(Step(r))

-----------------------------------------------------------------------------

\* No history of an item breaks LEGAL_TRANSITIONS, though run_cycle appends its
\* events without asking legal_frontier_transition and controllers race.
LogLegal ==
    \A i \in DOMAIN log :
        /\ log[i][1].kind = "CREATED"
        /\ \A k \in 2..Len(log[i]) : Legal(log[i][k - 1].kind, log[i][k].kind)

\* An item is worked on by one controller at a time and an experiment is made
\* only for a claim no earlier experiment was made for: projecting again what a
\* dead controller left does not send its request again.
Working(r) == runner[r].pc \in {"claimed", "prepared", "dispatched", "returned", "ending"}

ClaimRunsOnce ==
    /\ \A r, q \in Runners :
         r # q /\ Working(r) /\ Working(q) => runner[r].item # runner[q].item
    /\ \A i \in DOMAIN log :
         Cardinality({e \in DOMAIN exps : exps[e].item = i}) <= Cardinality(Selections(log[i]))

\* Between cycles, what a controller remembers of a context its worker still has
\* and would use is what that context shows: no click goes to a page the context
\* has left, whatever the worker has evicted, navigated, frozen or lost.
RememberedPageIsShown ==
    \A r \in Runners : runner[r].pc \notin {"returned", "ending"} =>
        \A p \in live[r] : \A i \in DOMAIN browser[r] :
            browser[r][i].ref = p.ref =>
                /\ ~browser[r][i].frozen
                /\ browser[r][i].at = p.at
                /\ browser[r][i].who = p.who

\* An observation is projected in one commit at most, and never before the items
\* it proposes are there with it.
ProjectedOnce ==
    \A e \in DOMAIN exps :
        /\ projected[e] = IF e \in receipts THEN 1 ELSE 0
        /\ e \in receipts => Proposed(e, {}) \ {Resolve(exps[e].at, exps[e].item.who)}
                                \subseteq DOMAIN log

\* Crash after TX A and before TX B: what was observed is projected in the end.
EveryObservationProjected ==
    \A e \in 1..MaxDiscoveryCycles :
        (e \in DOMAIN exps /\ exps[e].status \in {"OBSERVED", "REAUTH"}) ~> (e \in receipts)

\* The cycles come to an end: items are seen again only so often.
DiscoveryStops == <>[](orch # "RUNNING")
=============================================================================
