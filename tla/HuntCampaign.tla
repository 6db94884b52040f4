---------------------------- MODULE HuntCampaign ----------------------------
(***************************************************************************)
(* The hunt: RunHuntScheduler recommends cells of the coverage-debt matrix, *)
(* RunHuntCycle writes a hypothesis for each and takes it through the tiers *)
(* V1, V2 and V3, the last of which puts an active experiment in a queue    *)
(* that ApproveHuntV3Queue releases after a human decision.  The circuit    *)
(* breaker judges a family by the tier events of its hypotheses.            *)
(*                                                                         *)
(* An operator calls the two use cases one after the other, each time with *)
(* the attack-surface graph as it is then.  Generation is one transaction, *)
(* every validation another; an exception ends the cycle where it is.      *)
(***************************************************************************)
EXTENDS Integers, Sequences, FiniteSets, FiniteSetsExt, SequencesExt

CONSTANTS
    Operators,
    Nodes,          \* canonical keys of the graph
    Who,            \* identity ids
    Registry,       \* list_enabled: the rows of hunter_family, by id and version
    Standings,      \* the bonuses the cells may have, of success, exploration and freshness
    TopN,           \* top_n
    MinimumSample,  \* minimum_sample of the circuit breaker
    MaxHypotheses,  \* bound on hypotheses no UNTESTED cell asked for
    MaxInterruptions  \* bound on operators that die or whose cycle raises

ANONYMOUS == "ANONYMOUS"

Families == {Registry[k].family : k \in DOMAIN Registry}

\* A row: the nodes whose kind it targets, whether it asks for IN_SCOPE, whether a
\* node must have no edge of its kind (precondition) or one (evidence), its tier,
\* and whether its name has a capability.
ASSUME HuntAssumption ==
    /\ Registry \in Seq([family: Families, on: SUBSET Nodes, in_scope: BOOLEAN,
                         absent: BOOLEAN, needs: BOOLEAN, tier: {"V1", "V2", "V3"},
                         mapped: BOOLEAN])
    /\ IsFiniteSet(Nodes) /\ IsFiniteSet(Who)
    /\ Standings \subseteq [Families -> [Nodes -> Int]] /\ Standings # {}
    /\ {TopN, MinimumSample, MaxHypotheses, MaxInterruptions} \subseteq Nat

VARIABLES
    graph,      \* the facts projected so far: scope and identities of nodes, edges
    hyps,       \* hypotheses of the run with their tier events
    queue,      \* hunt_v3_queue
    approval,   \* recorded human decision on each queue item
    breaker,    \* last circuit-breaker action of each family
    standing,   \* the bonuses of the cells of each family and node
    operator,
    interruptions

huntVars == <<graph, hyps, queue, approval, breaker, standing, operator, interruptions>>

NoFacts ==
    [scope |-> [n \in Nodes |-> "ABSENT"], who |-> [n \in Nodes |-> {}], edge |-> {}]

Unoccupied == [pc |-> "idle", schedule |-> <<>>, graph |-> NoFacts, todo |-> <<>>]

HuntInit ==
    /\ graph = NoFacts
    /\ hyps = <<>>
    /\ queue = <<>>
    /\ approval = <<>>
    /\ breaker = [f \in Families |-> "NONE"]
    /\ standing \in Standings
    /\ operator = [o \in Operators |-> Unoccupied]
    /\ interruptions = 0

-----------------------------------------------------------------------------
(* The graph.  Observation only adds to it.                                *)

\* rebuild_attack_surface_graph, _add_node: OUT_OF_SCOPE wins, IN_SCOPE replaces
\* UNKNOWN.
Merged(old, new) ==
    CASE old = "ABSENT" \/ new = "OUT_OF_SCOPE" -> new
      [] old = "UNKNOWN" /\ new = "IN_SCOPE" -> new
      [] OTHER -> old

\* A fact of node n seen under who; sensors say whether it is in scope.
Observe(n, scope, who) ==
    /\ graph' = [graph EXCEPT !.scope[n] = Merged(@, scope), !.who[n] = @ \cup {who}]
    /\ UNCHANGED <<hyps, queue, approval, breaker, standing, operator, interruptions>>

Connect(n) ==
    /\ graph.scope[n] # "ABSENT"
    /\ graph' = [graph EXCEPT !.edge = @ \cup {n}]
    /\ UNCHANGED <<hyps, queue, approval, breaker, standing, operator, interruptions>>

InGraph(g) == {n \in Nodes : g.scope[n] # "ABSENT"}

\* _identity_ids_for_node.
IdentitiesOf(g, n) == IF g.who[n] = {} THEN {ANONYMOUS} ELSE g.who[n]

\* families_for_node.
Applies(g, n, row) ==
    /\ n \in row.on
    /\ row.in_scope => g.scope[n] = "IN_SCOPE"
    /\ row.absent => n \notin g.edge

-----------------------------------------------------------------------------
(* Coverage debt.                                                          *)

\* _TIER_PASS_EVENTS.
TierPassEvents ==
    [HYPOTHESIS_TIER_V1_PASSED |-> "V1_PASSED", HYPOTHESIS_TIER_V2_PASSED |-> "V2_PASSED",
     HYPOTHESIS_TIER_V3_QUEUED |-> "V3_QUEUED"]

Tiers == <<"UNTESTED", "HYPOTHESIZED", "V1_PASSED", "V2_PASSED", "V3_QUEUED">>

\* _highest_tier_from_events and _tier_to_state of a hypothesis; COVERED has no
\* event.
TierState(h) ==
    LET passed == {TierPassEvents[e] : e \in hyps[h].events \cap DOMAIN TierPassEvents}
    IN Tiers[Max({2} \cup {k \in DOMAIN Tiers : Tiers[k] \in passed})]

\* compute_coverage_debt: the cells of the nodes in scope.  Those of other nodes are
\* NOT_APPLICABLE and never recommended.
Cells(g) ==
    {[node |-> n, who |-> w, row |-> k] :
        n \in {m \in InGraph(g) : g.scope[m] = "IN_SCOPE"}, w \in Who \cup {ANONYMOUS},
        k \in DOMAIN Registry}

DebtCells(g) ==
    {c \in Cells(g) : c.who \in IdentitiesOf(g, c.node) /\ Applies(g, c.node, Registry[c.row])}

Of(h, c) ==
    /\ hyps[h].node = c.node /\ hyps[h].who = c.who
    /\ hyps[h].family = Registry[c.row].family

HypothesesOf(c) == {h \in DOMAIN hyps : Of(h, c)}

\* Of several hypotheses of a cell the one whose random id sorts last counts.
CellStates(c) ==
    IF HypothesesOf(c) = {} THEN {"UNTESTED"} ELSE {TierState(h) : h \in HypothesesOf(c)}

-----------------------------------------------------------------------------
(* RunHuntScheduler.                                                       *)

\* Mutant: a hypothesis makes a cell more urgent.
StateWeightReversed(state) == 10 * Max({k \in DOMAIN Tiers : Tiers[k] = state})

\* STATE_WEIGHT.
StateWeight(state) == 60 - 10 * Max({k \in DOMAIN Tiers : Tiers[k] = state})

\* score_cell; exhausted is the daily model budget's.
Score(c, state, exhausted) ==
    StateWeight(state) + standing[Registry[c.row].family][c.node]
    + (IF ~exhausted THEN 0
       ELSE IF state \in {"V2_PASSED", "V3_QUEUED"} THEN -20 ELSE 5)

\* schedule, the first TopN; the order of equal scores, by text, is left open.
Recommendations(states, exhausted) ==
    LET score == [c \in DOMAIN states |-> Score(c, states[c], exhausted)]
        n     == Min({TopN, Cardinality(DOMAIN states)})
    IN {s \in [1..n -> DOMAIN states] :
          /\ \A i, j \in 1..n : i < j => s[i] # s[j] /\ score[s[i]] >= score[s[j]]
          /\ \A c \in DOMAIN states \ {s[i] : i \in 1..n} :
                \A i \in 1..n : score[s[i]] >= score[c]}

Untested(schedule) == \E i \in DOMAIN schedule : HypothesesOf(schedule[i]) = {}

\* Its transaction only writes an audit row.
Recommend(o) ==
    /\ operator[o].pc = "idle"
    /\ \E states \in [DebtCells(graph) -> UNION {CellStates(c) : c \in DebtCells(graph)}],
          exhausted \in BOOLEAN :
         /\ \A c \in DOMAIN states : states[c] \in CellStates(c)
         /\ \E s \in Recommendations(states, exhausted) :
              /\ s # <<>> /\ (Untested(s) \/ Len(hyps) < MaxHypotheses)
              /\ operator' = [operator EXCEPT ![o].pc = "scheduled", ![o].schedule = s]
    /\ UNCHANGED <<graph, hyps, queue, approval, breaker, standing, interruptions>>

-----------------------------------------------------------------------------
(* RunHuntCycle.                                                           *)

RowsOf(family) == {k \in DOMAIN Registry : Registry[k].family = family}

\* _generate_from_schedule: the cells whose node is still in the graph, and the last
\* row of their family.
Scheduled(schedule, g) ==
    LET known == {k \in DOMAIN schedule : schedule[k].node \in InGraph(g)}
        nth(i) == CHOOSE k \in known : Cardinality({j \in known : j <= k}) = i
    IN [i \in 1..Cardinality(known) |->
          [node |-> schedule[nth(i)].node, who |-> schedule[nth(i)].who,
           row |-> Max(RowsOf(Registry[schedule[nth(i)].row].family))]]

\* _generate_from_graph: every identity of every node the row applies to, a node
\* having no more of them than MAX_IDENTITIES_PER_NODE.
FromGraph(g) ==
    SetToSeq({c \in [node: InGraph(g), who: Who \cup {ANONYMOUS}, row: DOMAIN Registry] :
                /\ Applies(g, c.node, Registry[c.row])
                /\ c.who \in IdentitiesOf(g, c.node)})

\* GenerateHuntHypotheses, one transaction: all hypotheses of the cycle, or none when
\* a claim template cannot be rendered (an Interrupt).
Generate(o, targets) ==
    /\ hyps' = hyps \o [i \in DOMAIN targets |->
                          [node |-> targets[i].node, who |-> targets[i].who,
                           family |-> Registry[targets[i].row].family, events |-> {}]]
    /\ operator' = [operator EXCEPT
                      ![o] = [pc |-> IF targets = <<>> THEN "idle" ELSE "validating",
                              schedule |-> <<>>, graph |-> graph,
                              todo |-> [i \in DOMAIN targets |-> Len(hyps) + i]]]

CycleOfSchedule(o) ==
    /\ operator[o].pc = "scheduled"
    /\ Generate(o, Scheduled(operator[o].schedule, graph))
    /\ UNCHANGED <<graph, queue, approval, breaker, standing, interruptions>>

CycleOfGraph(o) ==
    /\ operator[o].pc = "idle" /\ FromGraph(graph) # <<>>
    /\ Len(hyps) + Len(FromGraph(graph)) <= MaxHypotheses
    /\ Generate(o, FromGraph(graph))
    /\ UNCHANGED <<graph, queue, approval, breaker, standing, interruptions>>

\* RunHuntCycle takes the first row of the family, and the graph of its command.
RowOf(h) == Registry[Min(RowsOf(hyps[h].family))]

PassesV1(g, h) == Applies(g, hyps[h].node, RowOf(h))

\* Mutant: passive evidence is not looked at.
PassesV2Unseen(g, h) == TRUE

\* _v2_passive_check.
PassesV2(g, h) == RowOf(h).needs => hyps[h].node \in g.edge

\* _enqueue_v3 raises for a node out of scope or a family without a capability.
Enqueues(g, h) ==
    g.scope[hyps[h].node] = "IN_SCOPE" /\ RowOf(h).mapped

Events(g, h) ==
    IF ~PassesV1(g, h) THEN {"HUNT_TIER_V1_REJECTED"}
    ELSE {"HUNT_TIER_V1_PASSED"} \cup
         IF ~PassesV2(g, h) THEN {"HUNT_TIER_V2_REJECTED"}
         ELSE {"HUNT_TIER_V2_PASSED"} \cup
              IF RowOf(h).tier = "V3" THEN {"HUNT_TIER_V3_QUEUED"} ELSE {}

NextHypothesis(o) ==
    operator' = [operator EXCEPT
                   ![o] = IF Len(operator[o].todo) = 1 THEN Unoccupied
                          ELSE [operator[o] EXCEPT !.todo = Tail(@)]]

\* ValidateHuntTiers: its events and its queue item are one transaction, which the
\* exception rolls back together with the rest of the cycle.
Validate(o) ==
    /\ operator[o].pc = "validating"
    /\ LET h      == Head(operator[o].todo)
           g      == operator[o].graph
           events == Events(g, h)
           queued == "HUNT_TIER_V3_QUEUED" \in events
       IN IF queued /\ ~Enqueues(g, h)
          THEN /\ operator' = [operator EXCEPT ![o] = Unoccupied]
               /\ UNCHANGED <<hyps, queue, approval>>
          ELSE /\ hyps' = [hyps EXCEPT ![h].events = @ \cup events]
               /\ IF queued
                  THEN /\ queue' = Append(queue, [hyp |-> h, state |-> "PENDING"])
                       /\ approval' = Append(approval, "NONE")
                  ELSE UNCHANGED <<queue, approval>>
               /\ NextHypothesis(o)
    /\ UNCHANGED <<graph, breaker, standing, interruptions>>

Interrupt(o) ==
    /\ operator[o].pc # "idle" /\ interruptions < MaxInterruptions
    /\ operator' = [operator EXCEPT ![o] = Unoccupied]
    /\ interruptions' = interruptions + 1
    /\ UNCHANGED <<graph, hyps, queue, approval, breaker, standing>>

\* _build_family_stats and _build_freshness_by_node read what assessments and the age
\* of the nodes have become.
Reassess(s) ==
    /\ standing' = s
    /\ UNCHANGED <<graph, hyps, queue, approval, breaker, operator, interruptions>>

-----------------------------------------------------------------------------
(* The queue and the circuit breaker.                                      *)

\* A human decision on an item's subject, which is unique.
Decide(q, verdict) ==
    /\ approval[q] = "NONE"
    /\ approval' = [approval EXCEPT ![q] = verdict]
    /\ UNCHANGED <<graph, hyps, queue, breaker, standing, operator, interruptions>>

\* evaluate_recorded_approval.
Authorizes(q) == approval[q] = "APPROVED"

\* ApproveHuntV3Queue; a refusal only writes an audit row.
Approve(q) ==
    /\ queue[q].state = "PENDING" /\ Authorizes(q)
    /\ queue' = [queue EXCEPT ![q].state = "APPROVED"]
    /\ UNCHANGED <<graph, hyps, approval, breaker, standing, operator, interruptions>>

Validated(f) == {h \in DOMAIN hyps : hyps[h].family = f /\ hyps[h].events # {}}

Rejecting == {"HUNT_TIER_V1_REJECTED", "HUNT_TIER_V2_REJECTED"}

RejectedHypotheses(f) == {h \in Validated(f) : hyps[h].events \cap Rejecting # {}}

\* Mutant: a queued experiment counts as a bad outcome.
LatestOutcomesWithQueued(h) ==
    IF "HUNT_TIER_V3_QUEUED" \in hyps[h].events THEN {"REJECTED"}
    ELSE IF hyps[h].events \cap Rejecting = {} THEN {"PASSED"} ELSE {"REJECTED"}

\* The outcome of the latest event of a hypothesis that is not QUEUED.  The events of
\* one validation have one occurred_at, and their random ids decide between them.
LatestOutcomes(h) ==
    {IF e \in Rejecting THEN "REJECTED" ELSE "PASSED" :
        e \in hyps[h].events \ {"HUNT_TIER_V3_QUEUED"}}

\* evaluate_family_circuit_breaker with bad_outcome_threshold 0.60.
Throttles(rejected, total) == total >= MinimumSample /\ 10 * rejected >= 6 * total

\* EvaluateFamilyCircuitBreaker.
EvaluateFamily(f) ==
    /\ \E outcome \in [Validated(f) -> {"PASSED", "REJECTED"}] :
         /\ \A h \in Validated(f) : outcome[h] \in LatestOutcomes(h)
         /\ LET rejected == Cardinality({h \in Validated(f) : outcome[h] = "REJECTED"})
            IN breaker' = [breaker EXCEPT
                             ![f] = IF Throttles(rejected, Cardinality(Validated(f)))
                                    THEN "THROTTLE" ELSE "ALLOW"]
    /\ UNCHANGED <<graph, hyps, queue, approval, standing, operator, interruptions>>

Work(o) == Recommend(o) \/ CycleOfSchedule(o) \/ Validate(o)

HuntNext ==
    \/ \E o \in Operators : Work(o) \/ CycleOfGraph(o) \/ Interrupt(o)
    \/ \E n \in Nodes, scope \in {"UNKNOWN", "IN_SCOPE", "OUT_OF_SCOPE"}, w \in Who :
          Observe(n, scope, w)
    \/ \E n \in Nodes : Connect(n)
    \/ \E q \in DOMAIN queue : Approve(q) \/ \E v \in {"APPROVED", "REJECTED"} : Decide(q, v)
    \/ \E f \in Families : EvaluateFamily(f)
    \/ \E s \in Standings \ {standing} : Reassess(s)

HuntSpec == HuntInit /\ [][HuntNext]_huntVars

\* An operator goes on asking for a schedule and running the cycle it gives.
FairHuntSpec == HuntSpec /\ \A o \in Operators : WF_huntVars(Work(o))

-----------------------------------------------------------------------------
\* An active experiment is in the queue for a hypothesis that passed V1 and V2, of a
\* family of tier V3, once; and is released by an approval only.  A cycle that
\* dies or raises leaves neither an item without its events nor events without
\* their item.
QueueIsBacked ==
    /\ \A q \in DOMAIN queue :
         LET h == queue[q].hyp IN
         /\ {"HUNT_TIER_V1_PASSED", "HUNT_TIER_V2_PASSED", "HUNT_TIER_V3_QUEUED"}
              \subseteq hyps[h].events
         /\ RowOf(h).needs => hyps[h].node \in graph.edge
         /\ queue[q].state = "APPROVED" => approval[q] = "APPROVED"
    /\ \A h \in DOMAIN hyps :
         Cardinality({q \in DOMAIN queue : queue[q].hyp = h})
           = IF "HUNT_TIER_V3_QUEUED" \in hyps[h].events THEN 1 ELSE 0

\* A family is throttled for rejections it really had, in whatever order the ids of
\* one validation's events sort.
ThrottledForRejections ==
    [][\A f \in Families :
         breaker'[f] = "THROTTLE" /\ breaker[f] # "THROTTLE"
           => Throttles(Cardinality(RejectedHypotheses(f)), Cardinality(Validated(f)))]_huntVars

\* The rivals of cell c whose bonuses lead by the ten points that an UNTESTED cell is
\* ahead of a HYPOTHESIZED one: they may outrank c though they have been tried.
RivalsAhead(c) ==
    {d \in DebtCells(graph) :
        standing[Registry[d.row].family][d.node] >= standing[Registry[c.row].family][c.node] + 10}

\* A cell of the matrix waits for its first hypothesis for ever only behind bonuses:
\* either it gets one, or it is no debt any more, or again and again as many rivals
\* as are recommended at a time (TopN) lead it by ten points or more.  Those it is
\* behind by less are recommended again and again, but not before it.
EveryCellHypothesized ==
    \A k \in DOMAIN Registry : \A n \in Registry[k].on, w \in Who :
        LET c == [node |-> n, who |-> w, row |-> k] IN
        []<>(HypothesesOf(c) # {} \/ c \notin DebtCells(graph)
             \/ Cardinality(RivalsAhead(c)) >= TopN)
=============================================================================
