----------------------- MODULE DiscoveryFrontierProofs -----------------------
(***************************************************************************)
(* What the frontier of a run keeps for any number of controllers, faults  *)
(* and items: no item has an illegal history, no claim is worked on twice, *)
(* and no observation is projected twice or without what it proposes.  For *)
(* one controller, the page a browser remembers is also the page it shows. *)
(***************************************************************************)
EXTENDS DiscoveryFrontier, FiniteSetTheorems, SequenceTheorems, TLAPS

-----------------------------------------------------------------------------
(* Types.                                                                  *)

Goals  == {"INSPECT_PATH", "OBSERVE_UNDER_IDENTITY", "INSPECT_CONTROL",
           "CHARACTERIZE_HTTP_OPERATION", "RESOLVE_TRANSITION_RESULT"}
Users  == Identities \cup {Anonymous}
Places == Paths \cup {Outside}
Whats  == {"none"} \cup Controls \cup UNION {Requests[p] : p \in Paths}
Sessions == Range(SessionOf) \cup {NoSession}

Items == {i \in [goal: Goals, path: Paths, who: Users, what: Whats, nth: Nat] :
            i.goal = "INSPECT_CONTROL" => i.what \in Controls}

\* What one transaction inserts.
ItemSets == {f \in SUBSET Items : IsFiniteSet(f)}

EventKinds == {"CREATED", "ELIGIBLE", "SELECTED", "OBSERVED", "NO_NEW_INFORMATION",
               "FAILED_TRANSIENT", "FAILED_TERMINAL", "AWAITING_REAUTHORIZATION",
               "BLOCKED_SCOPE", "BLOCKED_AUTH", "BLOCKED_BUDGET", "SUPERSEDED"}
Events     == [kind: EventKinds, generation: Nat]

Statuses == {"PLANNED", "DISPATCHING", "DENIED", "UNKNOWN", "OBSERVED", "REAUTH", "FAILED"}
Attempts == [item: Items, session: Sessions, ref: Nat, status: Statuses, at: Places]

Reasons == {"NONE", "NO_ELIGIBLE_FRONTIER", "MAX_DISCOVERY_CYCLES", "MAX_FRONTIER_ITEMS",
            "MAX_BROWSER_ACTIONS", "MAX_HTTP_TRANSACTIONS"}

RunPcs == {"prepared", "dispatched", "returned", "ending"}

Txs      == [pc: {"idle", "looked", "claimed"} \cup RunPcs, item: Items, exp: Nat,
             todo: SUBSET Nat, fresh: ItemSets, next: Reasons]
Pages    == [at: Places, who: Users, ref: Nat]
Contexts == [ref: Nat, who: Users, session: Sessions, at: Places, frozen: BOOLEAN]

TypeOK ==
    /\ DOMAIN log \in ItemSets /\ log \in [DOMAIN log -> Seq(Events)]
    /\ session \in [DOMAIN log -> Sessions]
    /\ exps \in Seq(Attempts)
    /\ receipts \subseteq DOMAIN exps
    /\ projected \in [DOMAIN exps -> Nat] /\ projected \in Seq(Nat)
    /\ runner \in [Runners -> Txs]
    /\ live \in [Runners -> SUBSET Pages]
    /\ browser \in [Runners -> Seq(Contexts)]

-----------------------------------------------------------------------------
(* The invariant.                                                          *)

MadeFor(i) == {e \in DOMAIN exps : exps[e].item = i}

\* A history starts with CREATED, and each event may follow the one before.
LegalHistory(events) ==
    /\ events # <<>> /\ events[1].kind = "CREATED"
    /\ \A k \in 2..Len(events) : Legal(events[k - 1].kind, events[k].kind)

Histories == \A i \in DOMAIN log : LegalHistory(log[i])

\* A claim stands until its controller gives it up, so no other can claim.
ClaimStands ==
    \A r \in Runners : Working(r) =>
        runner[r].item \in DOMAIN log /\ State(log[runner[r].item]) = "SELECTED"

ClaimsApart ==
    \A r, q \in Runners : r # q /\ Working(r) /\ Working(q) => runner[r].item # runner[q].item

\* What is to be claimed is an item, or will be one with this transaction.
ChoiceExists ==
    \A r \in Runners : runner[r].pc = "looked" /\ runner[r].next = "NONE" =>
        runner[r].item \in runner[r].fresh \cup DOMAIN log

\* Each experiment has a claim of its own, and a fresh claim has none yet.
Claimed ==
    /\ \A e \in DOMAIN exps : exps[e].item \in DOMAIN log
    /\ \A i \in DOMAIN log : Cardinality(MadeFor(i)) <= Cardinality(Selections(log[i]))
    /\ \A r \in Runners : runner[r].pc = "claimed" =>
          Cardinality(MadeFor(runner[r].item)) < Cardinality(Selections(log[runner[r].item]))

\* The experiment a controller is at is that of its claim, and is still open.
OwnExperiment ==
    \A r \in Runners : runner[r].pc \in RunPcs =>
        /\ runner[r].exp \in DOMAIN exps /\ exps[runner[r].exp].item = runner[r].item
        /\ runner[r].pc = "prepared" => exps[runner[r].exp].status = "PLANNED"
        /\ runner[r].pc = "dispatched" => exps[runner[r].exp].status = "DISPATCHING"

PlacesObserved == \A e \in DOMAIN exps : exps[e].status = "OBSERVED" => exps[e].at \in Paths

\* Only what has its answer is projected; an answer does not change.
Answered(e) == e \in DOMAIN exps /\ exps[e].status \in {"OBSERVED", "REAUTH"}

ProjectsAnswers ==
    /\ \A e \in receipts : Answered(e)
    /\ \A r \in Runners : runner[r].pc \in {"looked", "ending"} =>
          \A e \in runner[r].todo : Answered(e)

\* What an observation proposes whatever else was observed.
MustBeThere(e) ==
    IF ~IsPage(e) THEN {}
    ELSE {Click(exps[e].at, exps[e].item.who, c) : c \in ControlsOf[exps[e].at]}
         \cup {Request(exps[e].at, q) : q \in Requests[exps[e].at]}

ProposalsThere ==
    /\ \A e \in receipts : MustBeThere(e) \subseteq DOMAIN log
    /\ \A r \in Runners : runner[r].pc \in {"looked", "ending"} =>
          \A e \in runner[r].todo : MustBeThere(e) \subseteq runner[r].fresh \cup DOMAIN log

CountedOnce == \A e \in DOMAIN exps : projected[e] = IF e \in receipts THEN 1 ELSE 0

Inv ==
    /\ TypeOK
    /\ Histories /\ ClaimStands /\ ClaimsApart /\ ChoiceExists /\ Claimed
    /\ OwnExperiment /\ PlacesObserved /\ ProjectsAnswers /\ ProposalsThere /\ CountedOnce

-----------------------------------------------------------------------------
(* Lemmas about items and histories.                                       *)

LEMMA ItemTypes ==
    /\ \A path \in Paths, who \in Users, n \in Nat : Inspect(path, who, n) \in Items
    /\ \A who \in Users : Variant(who) \in Items
    /\ \A path \in Paths, who \in Users : Resolve(path, who) \in Items
    /\ \A path \in Paths, who \in Users, c \in Controls : Click(path, who, c) \in Items
    /\ \A path \in Paths : \A q \in Requests[path] : Request(path, q) \in Items
BY RunAssumption DEF Items, Inspect, Variant, Resolve, Click, Request, Item, Goals, Users, Whats

\* The history every item starts with.
LEMMA CreatedHistory ==
    Created \in Seq(Events) /\ LegalHistory(Created) /\ State(Created) = "ELIGIBLE"
<1>1. Event("CREATED") \in Events /\ Event("ELIGIBLE") \in Events
  BY DEF Event, Events, EventKinds
<1>2. Created \in Seq(Events) /\ Len(Created) = 2 /\ Created[1] = Event("CREATED")
      /\ Created[2] = Event("ELIGIBLE")
  BY <1>1 DEF Created
<1>3. \A k \in 2..Len(Created) : k = 2
  BY <1>2
<1> QED
  BY SMTT(30), <1>2, <1>3 DEF LegalHistory, State, Last, Event, Legal, LegalTransitions

\* The selections of a history are finitely many, and a longer one has no fewer.
LEMMA SelectionsGrow ==
    ASSUME NEW events \in Seq(Events), NEW more \in Seq(Events), Len(events) <= Len(more),
           \A k \in 1..Len(events) : more[k] = events[k]
    PROVE  /\ Cardinality(Selections(events)) \in Nat /\ Cardinality(Selections(more)) \in Nat
           /\ Cardinality(Selections(events)) <= Cardinality(Selections(more))
           /\ (\E k \in 1..Len(more) : k > Len(events) /\ more[k].kind = "SELECTED") =>
                 Cardinality(Selections(events)) < Cardinality(Selections(more))
<1>1. Len(events) \in Nat /\ Len(more) \in Nat
      /\ DOMAIN events = 1..Len(events) /\ DOMAIN more = 1..Len(more)
  OBVIOUS
<1>2. IsFiniteSet(1..Len(more))
  BY <1>1, FS_Interval
<1>3. Selections(more) \subseteq 1..Len(more) /\ Selections(events) \subseteq Selections(more)
  BY <1>1 DEF Selections
<1>4. IsFiniteSet(Selections(more))
  BY <1>2, <1>3, FS_Subset
<1>5. IsFiniteSet(Selections(events)) /\ Cardinality(Selections(events)) <= Cardinality(Selections(more))
  BY <1>3, <1>4, FS_Subset
<1>6. Cardinality(Selections(events)) \in Nat /\ Cardinality(Selections(more)) \in Nat
  BY <1>4, <1>5, FS_CardinalityType
<1>7. ASSUME NEW k \in 1..Len(more), k > Len(events), more[k].kind = "SELECTED"
      PROVE  Cardinality(Selections(events)) < Cardinality(Selections(more))
  <2>1. k \in Selections(more) /\ k \notin Selections(events)
    BY <1>1, <1>7 DEF Selections
  <2>2. Selections(events) # Selections(more)
    BY <2>1
  <2> QED
    BY <1>3, <1>4, <1>5, <1>6, <2>2, FS_Subset
<1> QED
  BY <1>5, <1>6, <1>7

\* An event that may follow the last one leaves the history legal.
LEMMA EventAppended ==
    ASSUME NEW events \in Seq(Events), LegalHistory(events), NEW e \in Events,
           Legal(State(events), e.kind)
    PROVE  /\ Append(events, e) \in Seq(Events) /\ LegalHistory(Append(events, e))
           /\ State(Append(events, e)) = e.kind
           /\ Cardinality(Selections(events)) \in Nat
           /\ Cardinality(Selections(Append(events, e))) \in Nat
           /\ Cardinality(Selections(events)) <= Cardinality(Selections(Append(events, e)))
           /\ e.kind = "SELECTED" =>
                 Cardinality(Selections(events)) < Cardinality(Selections(Append(events, e)))
<1> DEFINE more == Append(events, e)
<1>1. /\ more \in Seq(Events) /\ Len(more) = Len(events) + 1 /\ Len(events) \in Nat
      /\ more[Len(events) + 1] = e
      /\ \A k \in 1..Len(events) : more[k] = events[k]
      /\ Len(events) >= 1
  BY AppendProperties, EmptySeq DEF LegalHistory
<1> HIDE DEF more
<1>2. LegalHistory(more)
  <2>1. more # <<>> /\ more[1].kind = "CREATED"
    BY <1>1 DEF LegalHistory
  <2>2. ASSUME NEW k \in 2..Len(more) PROVE Legal(more[k - 1].kind, more[k].kind)
    <3>1. CASE k \in 2..Len(events)
      BY <1>1, <3>1 DEF LegalHistory
    <3>2. CASE k = Len(events) + 1
      BY <1>1, <3>2 DEF State, Last
    <3> QED
      BY <1>1, <3>1, <3>2
  <2> QED
    BY <2>1, <2>2 DEF LegalHistory
<1>3. State(more) = e.kind
  BY <1>1 DEF State, Last
<1>4. /\ Cardinality(Selections(events)) \in Nat /\ Cardinality(Selections(more)) \in Nat
      /\ Cardinality(Selections(events)) <= Cardinality(Selections(more))
      /\ (\E k \in 1..Len(more) : k > Len(events) /\ more[k].kind = "SELECTED") =>
            Cardinality(Selections(events)) < Cardinality(Selections(more))
  BY <1>1, SelectionsGrow
<1>5. Len(events) + 1 \in 1..Len(more) /\ Len(events) + 1 > Len(events)
  BY <1>1
<1> QED
  BY <1>1, <1>2, <1>3, <1>4, <1>5 DEF more

\* What a transaction appends to the history of an item, event by event.
LEMMA KindsAppended ==
    ASSUME NEW events \in Seq(Events)
    PROVE  /\ events \o [k \in DOMAIN <<>> |-> Event(<<>>[k])] = events
           /\ \A a \in EventKinds :
                 events \o [k \in DOMAIN <<a>> |-> Event(<<a>>[k])] = Append(events, Event(a))
           /\ \A a, b \in EventKinds :
                 events \o [k \in DOMAIN <<a, b>> |-> Event(<<a, b>>[k])]
                    = Append(Append(events, Event(a)), Event(b))
<1>1. [k \in DOMAIN <<>> |-> Event(<<>>[k])] = <<>>
  OBVIOUS
<1>2. ASSUME NEW a \in EventKinds
      PROVE  [k \in DOMAIN <<a>> |-> Event(<<a>>[k])] = <<Event(a)>>
  OBVIOUS
<1>3. ASSUME NEW a \in EventKinds, NEW b \in EventKinds
      PROVE  [k \in DOMAIN <<a, b>> |-> Event(<<a, b>>[k])] = <<Event(a), Event(b)>>
  OBVIOUS
<1>4. \A a \in EventKinds : Event(a) \in Events
  BY DEF Event, Events
<1>5. \A x \in Events : events \o <<x>> = Append(events, x)
  OBVIOUS
<1>6. \A x, y \in Events : events \o <<x, y>> = Append(Append(events, x), y)
  OBVIOUS
<1> QED
  BY <1>1, <1>2, <1>3, <1>4, <1>5, <1>6

-----------------------------------------------------------------------------
(* Lemmas about the steps.                                                 *)

\* A step adds items, and events to the items it owns.
LogGrows(own) ==
    /\ DOMAIN log \subseteq DOMAIN log' /\ DOMAIN log' \in ItemSets
    /\ log' \in [DOMAIN log' -> Seq(Events)]
    /\ session' \in [DOMAIN log' -> Sessions]
    /\ Histories'
    /\ \A i \in DOMAIN log \ own : log'[i] = log[i]
    /\ \A i \in DOMAIN log' : Cardinality(Selections(log'[i])) \in Nat
    /\ \A i \in DOMAIN log : Cardinality(Selections(log[i])) <= Cardinality(Selections(log'[i]))

\* Counting the selections of one history, which a step that adds none keeps.
LEMMA SelectionsCount ==
    ASSUME NEW events \in Seq(Events)
    PROVE  Cardinality(Selections(events)) \in Nat
           /\ Cardinality(Selections(events)) <= Cardinality(Selections(events))
BY SelectionsGrow

LEMMA LogExtended ==
    ASSUME TypeOK, Histories, NEW fresh \in ItemSets, fresh \cap DOMAIN log = {},
           NEW own \in SUBSET (DOMAIN log \cup fresh),
           NEW new \in Seq(Events), LegalHistory(new),
           \A i \in own \cap DOMAIN log :
               Cardinality(Selections(log[i])) <= Cardinality(Selections(new)),
           log' = [i \in DOMAIN log \cup fresh |-> IF i \in own THEN new
                                                    ELSE IF i \in fresh THEN Created ELSE log[i]],
           session' \in [DOMAIN log \cup fresh -> Sessions]
    PROVE  LogGrows(own) /\ DOMAIN log' = DOMAIN log \cup fresh /\ \A i \in own : log'[i] = new
<1>1. DOMAIN log' = DOMAIN log \cup fresh
  OBVIOUS
<1>2. /\ \A i \in own : log'[i] = new
      /\ \A i \in fresh \ own : log'[i] = Created
      /\ \A i \in DOMAIN log \ own : log'[i] = log[i]
  OBVIOUS
<1>3. \A i \in DOMAIN log : log[i] \in Seq(Events) /\ LegalHistory(log[i])
  BY DEF TypeOK, Histories
<1>4. \A i \in DOMAIN log' : log'[i] \in Seq(Events) /\ LegalHistory(log'[i])
  BY <1>1, <1>2, <1>3, CreatedHistory
<1>5. log' \in [DOMAIN log' -> Seq(Events)]
  BY <1>1, <1>4
<1>6. \A i \in DOMAIN log' : Cardinality(Selections(log'[i])) \in Nat
  BY <1>4, SelectionsCount
<1>7. ASSUME NEW i \in DOMAIN log
      PROVE  Cardinality(Selections(log[i])) <= Cardinality(Selections(log'[i]))
  BY <1>2, <1>3, SelectionsCount
<1>8. DOMAIN log' \in ItemSets
  <2>1. IsFiniteSet(DOMAIN log) /\ IsFiniteSet(fresh) /\ DOMAIN log \cup fresh \subseteq Items
    BY DEF TypeOK, ItemSets
  <2>2. IsFiniteSet(DOMAIN log \cup fresh)
    BY <2>1, FS_Union
  <2> QED
    BY <1>1, <2>1, <2>2 DEF ItemSets
<1> QED
  BY <1>1, <1>2, <1>4, <1>5, <1>6, <1>7, <1>8 DEF LogGrows, Histories

\* No experiment is made for an item that is new.
LEMMA MadeForNew ==
    ASSUME Inv, NEW i, i \notin DOMAIN log
    PROVE  MadeFor(i) = {} /\ Cardinality(MadeFor(i)) = 0
<1>1. MadeFor(i) = {}
  BY DEF Inv, Claimed, MadeFor
<1> QED
  BY <1>1, FS_EmptySet

\* A controller ends its cycle, or has claimed: it leaves the others alone.
LEMMA LogStep ==
    ASSUME Inv, NEW r \in Runners, NEW own, LogGrows(own), exps' = exps,
           receipts' \subseteq DOMAIN exps, projected' \in Seq(Nat),
           projected' \in [DOMAIN exps -> Nat], CountedOnce',
           \A e \in receipts' : Answered(e) /\ MustBeThere(e) \subseteq DOMAIN log',
           live' \in [Runners -> SUBSET Pages], browser' \in [Runners -> Seq(Contexts)],
           runner' \in [Runners -> Txs],
           \A q \in Runners \ {r} : runner'[q] = runner[q]
                                    /\ (Working(q) => runner[q].item \notin own),
           \/ runner'[r].pc = "idle"
           \/ /\ runner'[r].pc = "claimed"
              /\ runner'[r].item \in DOMAIN log' /\ State(log'[runner'[r].item]) = "SELECTED"
              /\ \A q \in Runners \ {r} : Working(q) => runner[q].item # runner'[r].item
              /\ Cardinality(MadeFor(runner'[r].item))
                    < Cardinality(Selections(log'[runner'[r].item]))
    PROVE  Inv'
<1>1. /\ DOMAIN log \subseteq DOMAIN log' /\ Histories'
      /\ \A i \in DOMAIN log \ own : log'[i] = log[i]
      /\ \A i \in DOMAIN log' : Cardinality(Selections(log'[i])) \in Nat
      /\ \A i \in DOMAIN log :
            Cardinality(Selections(log[i])) <= Cardinality(Selections(log'[i]))
  BY DEF LogGrows
<1>2. TypeOK'
  BY DEF Inv, TypeOK, LogGrows
<1>3. ClaimStands'
  <2> SUFFICES ASSUME NEW q \in Runners, Working(q)'
               PROVE  /\ runner'[q].item \in DOMAIN log'
                      /\ State(log'[runner'[q].item]) = "SELECTED"
    BY DEF ClaimStands
  <2>1. CASE q = r
    BY <2>1 DEF Working
  <2>2. CASE q # r
    <3>1. Working(q) /\ runner'[q] = runner[q] /\ runner[q].item \notin own
      BY <2>2 DEF Working
    <3>2. runner[q].item \in DOMAIN log /\ State(log[runner[q].item]) = "SELECTED"
      BY <3>1 DEF Inv, ClaimStands
    <3>3. log'[runner[q].item] = log[runner[q].item] /\ runner[q].item \in DOMAIN log'
      BY <1>1, <3>1, <3>2
    <3> QED
      BY <3>1, <3>2, <3>3
  <2> QED
    BY <2>1, <2>2
<1>4. ClaimsApart'
  BY ZenonT(30) DEF Inv, ClaimsApart, Working, RunPcs
<1>5. ChoiceExists'
  BY <1>1 DEF Inv, ChoiceExists
<1>6. \A i : MadeFor(i)' = MadeFor(i)
  BY DEF MadeFor
<1>7. \A i \in DOMAIN log : Cardinality(MadeFor(i)) \in Nat /\ Cardinality(Selections(log[i])) \in Nat
  <2> SUFFICES ASSUME NEW i \in DOMAIN log
               PROVE  Cardinality(MadeFor(i)) \in Nat /\ Cardinality(Selections(log[i])) \in Nat
    OBVIOUS
  <2>1. IsFiniteSet(DOMAIN exps)
    <3>1. DOMAIN exps = 1..Len(exps) /\ Len(exps) \in Nat
      BY DEF Inv, TypeOK
    <3> QED
      BY <3>1, FS_Interval
  <2>2. IsFiniteSet(MadeFor(i))
    BY <2>1, FS_Subset DEF MadeFor
  <2>3. log[i] \in Seq(Events)
    BY DEF Inv, TypeOK
  <2> QED
    BY <2>2, <2>3, FS_CardinalityType, SelectionsCount
<1>8. Claimed'
  <2>1. \A e \in DOMAIN exps' : exps'[e].item \in DOMAIN log'
    BY <1>1 DEF Inv, Claimed
  <2>2. ASSUME NEW i \in DOMAIN log'
        PROVE  Cardinality(MadeFor(i)) <= Cardinality(Selections(log'[i]))
    <3>1. CASE i \in DOMAIN log
      BY <1>1, <1>7, <3>1 DEF Inv, Claimed
    <3>2. CASE i \notin DOMAIN log
      BY <1>1, <3>2, MadeForNew
    <3> QED
      BY <3>1, <3>2
  <2>3. ASSUME NEW q \in Runners, runner'[q].pc = "claimed"
        PROVE  Cardinality(MadeFor(runner'[q].item)) < Cardinality(Selections(log'[runner'[q].item]))
    <3>1. CASE q = r
      BY <2>3, <3>1
    <3>2. CASE q # r
      <4>1. Working(q) /\ runner'[q] = runner[q] /\ runner[q].item \in DOMAIN log \ own
        BY <2>3, <3>2 DEF Inv, ClaimStands, Working
      <4> QED
        BY <1>1, <2>3, <4>1 DEF Inv, Claimed
    <3> QED
      BY <3>1, <3>2
  <2> QED
    BY <1>6, <2>1, <2>2, <2>3 DEF Claimed
<1>9. OwnExperiment' /\ PlacesObserved'
  BY DEF Inv, OwnExperiment, PlacesObserved, RunPcs
<1>10. \A e : MustBeThere(e)' = MustBeThere(e) /\ Answered(e)' = Answered(e)
  BY DEF MustBeThere, Answered, IsPage
<1>11. ProjectsAnswers'
  BY <1>10 DEF Inv, ProjectsAnswers
<1>12. ProposalsThere'
  <2>1. \A q \in Runners : runner'[q].pc \in {"looked", "ending"} => q # r
    OBVIOUS
  <2> QED
    BY <1>1, <1>10, <2>1 DEF Inv, ProposalsThere
<1> QED
  BY <1>1, <1>2, <1>3, <1>4, <1>5, <1>8, <1>9, <1>11, <1>12 DEF Inv

-----------------------------------------------------------------------------
(* The steps that leave the rows alone, and those of one experiment.       *)

\* A page proposes finitely many items.
LEMMA PageFinite ==
    ASSUME NEW at \in Paths, NEW who
    PROVE  /\ IsFiniteSet({Click(at, who, c) : c \in ControlsOf[at]})
           /\ IsFiniteSet({Request(at, q) : q \in Requests[at]})
<1> DEFINE controls == ControlsOf[at]
           clicks == {Click(at, who, c) : c \in controls}
           needed == Requests[at]
           requests == {Request(at, q) : q \in needed}
<1>1. IsFiniteSet(controls) /\ IsFiniteSet(needed)
  BY RunAssumption
<1> HIDE DEF controls, needed
<1>2. [c \in controls |-> Click(at, who, c)] \in Surjection(controls, clicks)
  BY DEF Surjection
<1>3. [q \in needed |-> Request(at, q)] \in Surjection(needed, requests)
  BY DEF Surjection
<1>4. IsFiniteSet(clicks) /\ IsFiniteSet(requests)
  BY <1>1, <1>2, <1>3, FS_Surjection
<1> QED
  BY <1>4 DEF controls, needed

\* What an observed page proposes is an item, and is there with what the
\* transaction inserts.
LEMMA ProposalsComplete ==
    ASSUME Inv, NEW todo \in SUBSET DOMAIN exps
    PROVE  /\ Proposals(todo) \in ItemSets
           /\ \A e \in todo : MustBeThere(e) \subseteq Proposals(todo) \cup DOMAIN log
<1>1. ASSUME NEW e \in todo
      PROVE  Proposed(e, todo) \in ItemSets /\ MustBeThere(e) \subseteq Proposed(e, todo)
  <2>1. CASE ~IsPage(e)
    BY <2>1, FS_EmptySet DEF Proposed, MustBeThere, ItemSets
  <2>2. CASE IsPage(e)
    <3>1. exps[e] \in Attempts
      BY DEF Inv, TypeOK
    <3>2. exps[e].at \in Paths /\ exps[e].item.who \in Users
      BY <2>2, <3>1 DEF Inv, PlacesObserved, IsPage, Attempts, Items
    <3>3. ControlsOf[exps[e].at] \subseteq Controls
      BY <3>2, SiteAssumption
    <3> DEFINE clicks == {Click(exps[e].at, exps[e].item.who, c) : c \in ControlsOf[exps[e].at]}
               requests == {Request(exps[e].at, q) : q \in Requests[exps[e].at]}
               resolve == {Resolve(exps[e].at, exps[e].item.who)}
    <3>4. clicks \subseteq Items /\ requests \subseteq Items /\ resolve \subseteq Items
      BY <3>2, <3>3, ItemTypes
    <3>5. IsFiniteSet(clicks) /\ IsFiniteSet(requests) /\ IsFiniteSet(resolve)
      <4> DEFINE at == exps[e].at
                 who == exps[e].item.who
      <4>1. at \in Paths
        BY <3>2
      <4> HIDE DEF at, who
      <4>2. /\ IsFiniteSet({Click(at, who, c) : c \in ControlsOf[at]})
            /\ IsFiniteSet({Request(at, q) : q \in Requests[at]})
        BY <4>1, PageFinite
      <4> QED
        BY <4>2, FS_Singleton DEF at, who
    <3>6. Proposed(e, todo) \in {clicks \cup requests, (clicks \cup requests) \cup resolve}
      BY <2>2 DEF Proposed
    <3>7. MustBeThere(e) = clicks \cup requests
      BY <2>2 DEF MustBeThere
    <3> HIDE DEF clicks, requests, resolve
    <3>8. IsFiniteSet(clicks \cup requests)
      BY <3>5, FS_Union
    <3>9. IsFiniteSet((clicks \cup requests) \cup resolve)
      BY <3>5, <3>8, FS_Union
    <3> QED
      BY <3>4, <3>6, <3>7, <3>8, <3>9 DEF ItemSets
  <2> QED
    BY <2>1, <2>2
<1> DEFINE sets == {Proposed(e, todo) : e \in todo}
<1>2. IsFiniteSet(todo)
  <2>1. DOMAIN exps = 1..Len(exps) /\ Len(exps) \in Nat
    BY DEF Inv, TypeOK
  <2>2. IsFiniteSet(DOMAIN exps)
    BY <2>1, FS_Interval
  <2> QED
    BY <2>2, FS_Subset
<1>3. IsFiniteSet(sets)
  <2>1. [e \in todo |-> Proposed(e, todo)] \in Surjection(todo, sets)
    BY DEF Surjection
  <2> QED
    BY <1>2, <2>1, FS_Surjection
<1>4. \A s \in sets : IsFiniteSet(s) /\ s \subseteq Items
  BY <1>1 DEF ItemSets
<1>5. IsFiniteSet(UNION sets) /\ UNION sets \subseteq Items
  <2> HIDE DEF sets
  <2> QED
    BY <1>3, <1>4, FS_UNION
<1>6. Proposals(todo) = (UNION sets) \ DOMAIN log
  BY DEF Proposals
<1>7. Proposals(todo) \in ItemSets
  <2> HIDE DEF sets
  <2> QED
    BY <1>5, <1>6, FS_Difference DEF ItemSets
<1> QED
  BY <1>1, <1>6, <1>7

\* What is unprojected has its answer.
LEMMA UnprojectedAnswered ==
    Unprojected \subseteq DOMAIN exps /\ \A e \in Unprojected : Answered(e)
BY DEF Unprojected, Answered

\* What a transaction reads before it commits.
Prepares(r) ==
    /\ runner'[r].todo \subseteq DOMAIN exps
    /\ \A e \in runner'[r].todo :
          Answered(e) /\ MustBeThere(e) \subseteq runner'[r].fresh \cup DOMAIN log

\* A controller looks, or gives up: no row changes.
LEMMA RunnerStep ==
    ASSUME Inv, NEW r \in Runners, UNCHANGED <<log, session, exps, receipts, projected>>,
           live' \in [Runners -> SUBSET Pages], browser' \in [Runners -> Seq(Contexts)],
           runner' \in [Runners -> Txs], \A q \in Runners \ {r} : runner'[q] = runner[q],
           \/ runner'[r].pc = "idle"
           \/ runner'[r] = runner[r]
           \/ /\ runner'[r].pc = "looked" /\ Prepares(r)
              /\ runner'[r].next = "NONE" => runner'[r].item \in runner'[r].fresh \cup DOMAIN log
           \/ /\ runner[r].pc = "returned" /\ runner'[r].pc = "ending" /\ Prepares(r)
              /\ runner'[r].item = runner[r].item /\ runner'[r].exp = runner[r].exp
    PROVE  Inv'
<1>1. \A q \in Runners : Working(q)' => Working(q) /\ runner'[q].item = runner[q].item
  BY DEF Working
<1>2. TypeOK'
  BY DEF Inv, TypeOK
<1>3. Histories' /\ PlacesObserved' /\ CountedOnce'
  BY DEF Inv, Histories, PlacesObserved, CountedOnce
<1>4. ClaimStands'
  BY <1>1 DEF Inv, ClaimStands
<1>5. ClaimsApart'
  BY <1>1 DEF Inv, ClaimsApart
<1>6. ChoiceExists'
  BY DEF Inv, ChoiceExists
<1>7. \A i : MadeFor(i)' = MadeFor(i)
  BY DEF MadeFor
<1>8. \A q \in Runners : runner'[q].pc = "claimed" => runner'[q] = runner[q]
  OBVIOUS
<1>9. Claimed'
  BY <1>7, <1>8 DEF Inv, Claimed
<1>10. \A q \in Runners : runner'[q].pc \in RunPcs =>
          /\ runner[q].pc \in RunPcs /\ runner'[q].item = runner[q].item
          /\ runner'[q].exp = runner[q].exp
          /\ runner'[q].pc \in {"prepared", "dispatched"} => runner'[q].pc = runner[q].pc
  BY DEF RunPcs
<1>11. OwnExperiment'
  BY <1>10 DEF Inv, OwnExperiment
<1>12. \A e : MustBeThere(e)' = MustBeThere(e) /\ Answered(e)' = Answered(e)
  BY DEF MustBeThere, Answered, IsPage
<1>13. \A q \in Runners : runner'[q].pc \in {"looked", "ending"} =>
          \A e \in runner'[q].todo :
             Answered(e) /\ MustBeThere(e) \subseteq runner'[q].fresh \cup DOMAIN log
  <2> SUFFICES ASSUME NEW q \in Runners, runner'[q].pc \in {"looked", "ending"},
                      NEW e \in runner'[q].todo
               PROVE  Answered(e) /\ MustBeThere(e) \subseteq runner'[q].fresh \cup DOMAIN log
    OBVIOUS
  <2>1. CASE q = r /\ Prepares(r)
    BY <2>1 DEF Prepares
  <2>2. CASE runner'[q] = runner[q]
    BY <2>2 DEF Inv, ProjectsAnswers, ProposalsThere
  <2> QED
    BY <2>1, <2>2
<1>14. ProjectsAnswers' /\ ProposalsThere'
  BY <1>12, <1>13 DEF Inv, ProjectsAnswers, ProposalsThere
<1> QED
  BY <1>2, <1>3, <1>4, <1>5, <1>6, <1>9, <1>11, <1>14 DEF Inv

\* The attempt of a controller at work changes; it had no answer yet.
LEMMA AttemptStep ==
    ASSUME Inv, NEW r \in Runners, runner[r].pc \in {"prepared", "dispatched"},
           NEW new \in Attempts, new.item = exps[runner[r].exp].item,
           new.status = "OBSERVED" => new.at \in Paths,
           exps' = [exps EXCEPT ![runner[r].exp] = new],
           UNCHANGED <<log, session, receipts, projected, live>>,
           browser' \in [Runners -> Seq(Contexts)],
           runner' \in [Runners -> Txs], \A q \in Runners \ {r} : runner'[q] = runner[q],
           \/ runner'[r].pc = "idle"
           \/ /\ \/ runner'[r].pc = "dispatched" /\ new.status = "DISPATCHING"
                 \/ runner'[r].pc = "returned"
              /\ runner'[r].item = runner[r].item /\ runner'[r].exp = runner[r].exp
    PROVE  Inv'
<1> DEFINE own == runner[r].exp
<1>1. own \in DOMAIN exps /\ exps[own].item = runner[r].item /\ ~Answered(own)
  BY DEF Inv, OwnExperiment, RunPcs, Answered
<1> HIDE DEF own
<1>2. /\ DOMAIN exps' = DOMAIN exps /\ exps' \in Seq(Attempts)
      /\ exps'[own] = new /\ \A e \in DOMAIN exps \ {own} : exps'[e] = exps[e]
  <2>1. exps \in Seq(Attempts)
    BY DEF Inv, TypeOK
  <2> QED
    BY <1>1, <2>1 DEF own
<1>3. \A e \in DOMAIN exps : exps'[e].item = exps[e].item
  BY <1>2 DEF own
<1>4. \A e \in DOMAIN exps \ {own} :
         MustBeThere(e)' = MustBeThere(e) /\ Answered(e)' = Answered(e)
  <2> SUFFICES ASSUME NEW e \in DOMAIN exps \ {own}
               PROVE  MustBeThere(e)' = MustBeThere(e) /\ Answered(e)' = Answered(e)
    OBVIOUS
  <2>1. exps'[e] = exps[e] /\ e \in DOMAIN exps' /\ e \in DOMAIN exps
    BY <1>2
  <2>2. Answered(e)' = Answered(e)
    BY <2>1 DEF Answered
  <2>3. IsPage(e)' = IsPage(e)
    BY <2>1 DEF IsPage
  <2>4. MustBeThere(e)' = MustBeThere(e)
    BY <2>1, <2>3 DEF MustBeThere
  <2> QED
    BY <2>2, <2>4
<1>5. \A q \in Runners : Working(q)' => Working(q) /\ runner'[q].item = runner[q].item
  BY DEF Working
<1>6. TypeOK'
  BY <1>2 DEF Inv, TypeOK
<1>7. Histories' /\ CountedOnce'
  BY <1>2 DEF Inv, Histories, CountedOnce
<1>8. PlacesObserved'
  BY <1>2 DEF Inv, PlacesObserved
<1>9. ClaimStands' /\ ClaimsApart'
  BY <1>5 DEF Inv, ClaimStands, ClaimsApart
<1>10. ChoiceExists'
  BY DEF Inv, ChoiceExists
<1>11. \A i : MadeFor(i)' = MadeFor(i)
  BY <1>2, <1>3 DEF MadeFor
<1>12. Claimed'
  <2>1. \A q \in Runners : runner'[q].pc = "claimed" => runner'[q] = runner[q]
    OBVIOUS
  <2> QED
    BY <1>2, <1>3, <1>11, <2>1 DEF Inv, Claimed
<1>13. OwnExperiment'
  <2> SUFFICES ASSUME NEW q \in Runners, runner'[q].pc \in RunPcs
               PROVE  /\ runner'[q].exp \in DOMAIN exps'
                      /\ exps'[runner'[q].exp].item = runner'[q].item
                      /\ runner'[q].pc = "prepared" => exps'[runner'[q].exp].status = "PLANNED"
                      /\ runner'[q].pc = "dispatched" => exps'[runner'[q].exp].status = "DISPATCHING"
    BY DEF OwnExperiment
  <2>1. CASE q = r
    BY <1>1, <1>2, <1>3, <2>1 DEF RunPcs, own
  <2>2. CASE q # r
    <3>1. runner'[q] = runner[q] /\ runner[q].pc \in RunPcs
      BY <2>2
    <3>2. runner[q].item # runner[r].item
      BY <2>2, <3>1 DEF Inv, ClaimsApart, Working, RunPcs
    <3>3. /\ runner[q].exp \in DOMAIN exps /\ exps[runner[q].exp].item = runner[q].item
          /\ runner[q].pc = "prepared" => exps[runner[q].exp].status = "PLANNED"
          /\ runner[q].pc = "dispatched" => exps[runner[q].exp].status = "DISPATCHING"
      BY <3>1 DEF Inv, OwnExperiment
    <3>4. runner[q].exp # own
      BY <1>1, <3>2, <3>3
    <3> QED
      BY <1>2, <3>1, <3>3, <3>4
  <2> QED
    BY <2>1, <2>2
<1>14. \A q \in Runners : runner'[q].pc \in {"looked", "ending"} => runner'[q] = runner[q]
  OBVIOUS
<1>15. ProjectsAnswers' /\ ProposalsThere'
  <2>1. receipts \subseteq DOMAIN exps \ {own}
    BY <1>1 DEF Inv, TypeOK, ProjectsAnswers
  <2>2. \A q \in Runners : runner[q].pc \in {"looked", "ending"} =>
           runner[q].todo \subseteq DOMAIN exps \ {own}
    BY <1>1 DEF Inv, ProjectsAnswers, Answered
  <2>3. ProjectsAnswers'
    BY <1>4, <1>14, <2>1, <2>2 DEF Inv, ProjectsAnswers
  <2>4. \A e \in receipts : MustBeThere(e)' \subseteq DOMAIN log'
    BY <1>4, <2>1 DEF Inv, ProposalsThere
  <2>5. ASSUME NEW q \in Runners, runner'[q].pc \in {"looked", "ending"}, NEW e \in runner'[q].todo
        PROVE  MustBeThere(e)' \subseteq runner'[q].fresh \cup DOMAIN log'
    <3>1. runner'[q] = runner[q] /\ e \in DOMAIN exps \ {own}
      BY <1>14, <2>2, <2>5
    <3> QED
      BY <1>4, <2>5, <3>1 DEF Inv, ProposalsThere
  <2> QED
    BY <2>3, <2>4, <2>5 DEF ProposalsThere
<1> QED
  BY <1>6, <1>7, <1>8, <1>9, <1>10, <1>12, <1>13, <1>15 DEF Inv

-----------------------------------------------------------------------------
(* What the worker answers.                                                *)

LEMMA ObserveTypes ==
    ASSUME NEW contexts \in Seq(Contexts), NEW ref \in Nat, NEW who \in Users,
           NEW carried \in Sessions, NEW path \in Paths,
           NEW outcome \in {"OBSERVED", "REAUTH", "FAILED"}
    PROVE  LET a == Observe(contexts, ref, who, carried, path, outcome)
           IN /\ a.browser \in Seq(Contexts)
              /\ a.answer = [status |-> outcome, ref |-> ref, at |-> path]
<1> DEFINE kept == Evict(contexts)
           ctx == [ref |-> ref, who |-> who, session |-> carried, at |-> path, frozen |-> FALSE]
           opened == Append(kept, ctx)
           n == Len(opened)
           next == [opened EXCEPT ![n].frozen = (outcome = "REAUTH")]
<1>1. kept \in Seq(Contexts)
  <2>1. CASE Len(contexts) >= MaxContexts
    <3>1. contexts # <<>>
      BY <2>1, SiteAssumption
    <3> QED
      BY <2>1, <3>1 DEF Evict
  <2>2. CASE ~(Len(contexts) >= MaxContexts)
    BY <2>2 DEF Evict
  <2> QED
    BY <2>1, <2>2
<1>2. ctx \in Contexts
  BY DEF Contexts, Places
<1> HIDE DEF kept, ctx
<1>3. /\ opened \in Seq(Contexts) /\ n = Len(kept) + 1 /\ n \in 1..Len(opened)
      /\ opened[n] = ctx
  BY <1>1, <1>2
<1> HIDE DEF opened, n
<1>4. ctx.ref = ref /\ ctx.at = path
  BY DEF ctx
<1>5. [ctx EXCEPT !.frozen = (outcome = "REAUTH")] \in Contexts
  BY <1>2 DEF Contexts
<1>6. next = [opened EXCEPT ![n] = [ctx EXCEPT !.frozen = (outcome = "REAUTH")]]
  BY <1>3
<1>7. next \in Seq(Contexts)
  BY <1>3, <1>5, <1>6
<1> HIDE DEF next
<1>8. Observe(contexts, ref, who, carried, path, outcome)
        = [browser |-> next, answer |-> Answer(outcome, opened[n])]
  BY DEF Observe, Opened, next, opened, n, kept, ctx
<1> QED
  BY <1>3, <1>4, <1>7, <1>8 DEF Answer

LEMMA InteractTypes ==
    ASSUME NEW contexts \in Seq(Contexts), NEW request, request.control \in Controls,
           NEW outcome
    PROVE  LET a == Interact(contexts, request, outcome)
           IN /\ a.browser \in Seq(Contexts)
              /\ a.answer.status \in {"OBSERVED", "REAUTH", "FAILED"}
              /\ a.answer.at \in Places /\ a.answer.ref \in Nat
              /\ a.answer.status = "OBSERVED" => a.answer.at \in Paths
<1> DEFINE leased == {i \in Lease(contexts, request) : Fresh(contexts[i], request)}
           there == LeadsTo[request.control]
           a == Interact(contexts, request, outcome)
<1>1. CASE leased = {}
  <2>1. a = [browser |-> contexts, answer |-> Refused]
    BY <1>1 DEF Interact
  <2> QED
    BY <2>1 DEF Refused, Answer, Places
<1>2. CASE leased # {}
  <2> DEFINE i == CHOOSE k \in leased : TRUE
             next == [contexts[i] EXCEPT !.at = there]
             cold == [contexts[i] EXCEPT !.frozen = TRUE]
  <2>1. i \in DOMAIN contexts /\ contexts[i] \in Contexts
    BY <1>2 DEF Lease
  <2>2. there \in Places
    BY SiteAssumption DEF Places
  <2>3. a = CASE outcome = "OBSERVED" /\ there # Outside ->
                   [browser |-> [contexts EXCEPT ![i] = next], answer |-> Answer("OBSERVED", next)]
              [] outcome # "FAILED" /\ there = Outside ->
                   [browser |-> [contexts EXCEPT ![i].frozen = TRUE],
                    answer |-> Answer("REAUTH", contexts[i])]
              [] OTHER -> [browser |-> contexts, answer |-> Answer("FAILED", contexts[i])]
    BY <1>2 DEF Interact
  <2> HIDE DEF i, there, leased, a
  <2>4. next \in Contexts /\ next.at = there /\ next.ref \in Nat
    BY <2>1, <2>2 DEF Contexts
  <2>5. cold \in Contexts
    BY <2>1 DEF Contexts
  <2>6. [contexts EXCEPT ![i].frozen = TRUE] = [contexts EXCEPT ![i] = cold]
    BY <2>1
  <2>7. contexts[i].at \in Places /\ contexts[i].ref \in Nat
    BY <2>1 DEF Contexts
  <2> HIDE DEF next, cold
  <2>8. [contexts EXCEPT ![i] = next] \in Seq(Contexts)
        /\ [contexts EXCEPT ![i] = cold] \in Seq(Contexts)
    BY <2>1, <2>4, <2>5
  <2>9. CASE outcome = "OBSERVED" /\ there # Outside
    <3>1. a = [browser |-> [contexts EXCEPT ![i] = next], answer |-> Answer("OBSERVED", next)]
      BY <2>3, <2>9
    <3> QED
      BY <2>2, <2>4, <2>8, <2>9, <3>1 DEF Answer, a, Places
  <2>10. CASE outcome # "FAILED" /\ there = Outside
    <3>1. a = [browser |-> [contexts EXCEPT ![i] = cold], answer |-> Answer("REAUTH", contexts[i])]
      BY <2>3, <2>6, <2>10
    <3> QED
      BY <2>7, <2>8, <3>1 DEF Answer, a
  <2>11. CASE /\ ~(outcome = "OBSERVED" /\ there # Outside)
              /\ ~(outcome # "FAILED" /\ there = Outside)
    <3>1. a = [browser |-> contexts, answer |-> Answer("FAILED", contexts[i])]
      BY <2>3, <2>11
    <3> QED
      BY <2>7, <3>1 DEF Answer, a
  <2> QED
    BY <2>9, <2>10, <2>11
<1> QED
  BY <1>1, <1>2

LEMMA AnswersTypes ==
    ASSUME Inv, NEW contexts \in Seq(Contexts), NEW e \in DOMAIN exps,
           NEW a \in Answers(contexts, e)
    PROVE  /\ a.browser \in Seq(Contexts)
           /\ a.answer.status \in {"OBSERVED", "REAUTH", "FAILED"}
           /\ a.answer.at \in Places /\ a.answer.ref \in Nat
           /\ a.answer.status = "OBSERVED" => a.answer.at \in Paths
<1>1. /\ exps[e] \in Attempts /\ e \in Nat
  BY DEF Inv, TypeOK
<1>2. /\ exps[e].item \in Items /\ exps[e].session \in Sessions
  BY <1>1 DEF Attempts
<1>3. /\ exps[e].item.who \in Users /\ exps[e].item.path \in Paths
      /\ exps[e].item.goal = "INSPECT_CONTROL" => exps[e].item.what \in Controls
  BY <1>2 DEF Items
<1>4. CASE exps[e].item.goal = "INSPECT_CONTROL"
  <2>1. PICK outcome \in {"OBSERVED", "FAILED"} : a = Interact(contexts, RequestOf(e), outcome)
    BY <1>4 DEF Answers
  <2>2. RequestOf(e).control \in Controls
    BY <1>3, <1>4 DEF RequestOf
  <2> QED
    BY <2>1, <2>2, InteractTypes
<1>5. CASE exps[e].item.goal = "CHARACTERIZE_HTTP_OPERATION"
  <2>1. PICK outcome \in {"OBSERVED", "FAILED"} :
           a = [browser |-> contexts,
                answer |-> [Refused EXCEPT !.status = outcome, !.at = exps[e].item.path]]
    BY <1>5 DEF Answers
  <2>2. /\ a.browser = contexts /\ a.answer.status = outcome
        /\ a.answer.at = exps[e].item.path /\ a.answer.ref = 0
    BY <2>1 DEF Refused, Answer
  <2> QED
    BY <1>3, <2>2 DEF Places
<1>6. CASE exps[e].item.goal \notin {"INSPECT_CONTROL", "CHARACTERIZE_HTTP_OPERATION"}
  <2>1. PICK outcome \in {"OBSERVED", "REAUTH", "FAILED"} :
           a = Observe(contexts, e, exps[e].item.who, exps[e].session, exps[e].item.path, outcome)
    BY <1>6 DEF Answers
  <2>2. /\ a.browser \in Seq(Contexts)
        /\ a.answer = [status |-> outcome, ref |-> e, at |-> exps[e].item.path]
    BY ZenonT(30), <1>1, <1>2, <1>3, <2>1, ObserveTypes
  <2> QED
    BY <1>1, <1>3, <2>2 DEF Places
<1> QED
  BY <1>4, <1>5, <1>6

-----------------------------------------------------------------------------
(* The steps of the specification.                                         *)

\* What is there already stays projected once.
LEMMA ReceiptsStand ==
    ASSUME Inv, UNCHANGED <<exps, receipts, projected>>, DOMAIN log \subseteq DOMAIN log'
    PROVE  /\ receipts' \subseteq DOMAIN exps
           /\ projected' \in Seq(Nat) /\ projected' \in [DOMAIN exps -> Nat] /\ CountedOnce'
           /\ \A e \in receipts' : Answered(e) /\ MustBeThere(e) \subseteq DOMAIN log'
<1>1. \A e \in receipts : Answered(e) /\ MustBeThere(e) \subseteq DOMAIN log
  BY DEF Inv, ProjectsAnswers, ProposalsThere
<1> QED
  BY <1>1 DEF Inv, TypeOK, CountedOnce

LEMMA StartStep ==
    ASSUME Inv, NEW r \in Runners, Start(r)
    PROVE  Inv'
<1>1. PICK variants \in SUBSET Identities :
         /\ log' = [i \in SeedItems(variants) |-> Created]
         /\ session' = [i \in SeedItems(variants) |-> IF i.who \in DOMAIN SessionOf
                                                      THEN SessionOf[i.who] ELSE NoSession]
  BY DEF Start
<1>2. runner[r].pc = "idle" /\ DOMAIN log = {}
      /\ UNCHANGED <<exps, receipts, projected, orch, runner, live, browser, faults>>
  BY DEF Start
<1>3. SeedItems(variants) \in ItemSets
  <2>1. SeedItems(variants) \subseteq Items
    BY ItemTypes, RunAssumption DEF SeedItems, Users
  <2>2. IsFiniteSet(variants)
    BY RunAssumption, FS_Subset
  <2>3. [i \in variants |-> Variant(i)] \in Surjection(variants, {Variant(i) : i \in variants})
    BY DEF Surjection
  <2>4. IsFiniteSet({Variant(i) : i \in variants}) /\ IsFiniteSet({Inspect(Seed, Anonymous, 0)})
    BY <2>2, <2>3, FS_Surjection, FS_Singleton
  <2>5. IsFiniteSet(SeedItems(variants))
    BY <2>4, FS_Union DEF SeedItems
  <2> QED
    BY <2>1, <2>5 DEF ItemSets
<1>4. \A x \in DOMAIN SessionOf : SessionOf[x] \in Sessions
  BY DEF Sessions, Range
<1>5. session' \in [DOMAIN log \cup SeedItems(variants) -> Sessions]
  BY <1>1, <1>2, <1>4 DEF Sessions
<1>6. LogGrows({}) /\ DOMAIN log' = DOMAIN log \cup SeedItems(variants)
  <2> DEFINE fresh == SeedItems(variants)
  <2> HIDE DEF fresh
  <2>1. log' = [i \in DOMAIN log \cup fresh |-> IF i \in {} THEN Created
                                                ELSE IF i \in fresh THEN Created ELSE log[i]]
    BY <1>1, <1>2 DEF fresh
  <2>2. fresh \in ItemSets /\ fresh \cap DOMAIN log = {} /\ session' \in [DOMAIN log \cup fresh -> Sessions]
    BY <1>2, <1>3, <1>5 DEF fresh
  <2>3. Created \in Seq(Events) /\ LegalHistory(Created) /\ TypeOK /\ Histories
    BY CreatedHistory DEF Inv
  <2>4. LogGrows({}) /\ DOMAIN log' = DOMAIN log \cup fresh
    BY <2>1, <2>2, <2>3, LogExtended
  <2> QED
    BY <2>4 DEF fresh
<1>7. /\ receipts' \subseteq DOMAIN exps
      /\ projected' \in Seq(Nat) /\ projected' \in [DOMAIN exps -> Nat] /\ CountedOnce'
      /\ \A e \in receipts' : Answered(e) /\ MustBeThere(e) \subseteq DOMAIN log'
  BY <1>2, <1>6, ReceiptsStand
<1>8. /\ live' \in [Runners -> SUBSET Pages] /\ browser' \in [Runners -> Seq(Contexts)]
      /\ runner' \in [Runners -> Txs]
  BY <1>2 DEF Inv, TypeOK
<1> QED
  BY <1>2, <1>6, <1>7, <1>8, LogStep

\* Idle is a state of a controller.
LEMMA IdleType == Idle \in Txs /\ Idle.pc = "idle"
<1>1. Inspect(Seed, Anonymous, 0) \in Items
  BY ItemTypes, RunAssumption DEF Users
<1>2. "NONE" \in Reasons /\ 0 \in Nat /\ {} \in SUBSET Nat /\ {} \in ItemSets
  BY FS_EmptySet DEF Reasons, ItemSets
<1> DEFINE i == Inspect(Seed, Anonymous, 0)
<1> HIDE DEF i
<1>3. Idle = [pc |-> "idle", item |-> i, exp |-> 0, todo |-> {}, fresh |-> {}, next |-> "NONE"]
  BY DEF Idle, i
<1> QED
  BY <1>1, <1>2, <1>3 DEF Txs, i

LEMMA EndsCycle ==
    ASSUME Inv, NEW r \in Runners, runner' = [runner EXCEPT ![r] = Idle]
    PROVE  /\ runner' \in [Runners -> Txs] /\ runner'[r].pc = "idle"
           /\ \A q \in Runners \ {r} : runner'[q] = runner[q]
BY IdleType DEF Inv, TypeOK

LEMMA QuietSteps ==
    ASSUME Inv, NEW r \in Runners, StopInDoubt(r) \/ Crash(r) \/ LoseWorker(r)
    PROVE  Inv'
<1>1. /\ runner \in [Runners -> Txs] /\ live \in [Runners -> SUBSET Pages]
      /\ browser \in [Runners -> Seq(Contexts)]
  BY DEF Inv, TypeOK
<1>2. /\ UNCHANGED <<log, session, exps, receipts, projected>>
      /\ live' \in [Runners -> SUBSET Pages] /\ browser' \in [Runners -> Seq(Contexts)]
  <2>1. UNCHANGED <<log, session, exps, receipts, projected>>
    BY DEF StopInDoubt, Crash, LoseWorker, db
  <2>2. live' = live \/ live' = [live EXCEPT ![r] = {}]
    BY DEF StopInDoubt, Crash, LoseWorker
  <2>3. browser' = browser \/ browser' = [browser EXCEPT ![r] = <<>>]
    BY DEF StopInDoubt, Crash, LoseWorker
  <2>4. live' \in [Runners -> SUBSET Pages]
    BY <1>1, <2>2
  <2>5. <<>> \in Seq(Contexts)
    OBVIOUS
  <2>6. browser' \in [Runners -> Seq(Contexts)]
    BY <1>1, <2>3, <2>5
  <2> QED
    BY <2>1, <2>4, <2>6
<1>3. runner' = runner \/ runner' = [runner EXCEPT ![r] = Idle]
  BY DEF StopInDoubt, Crash, LoseWorker
<1>4. CASE runner' = runner
  BY <1>1, <1>2, <1>4, RunnerStep
<1>5. CASE runner' = [runner EXCEPT ![r] = Idle]
  BY <1>2, <1>5, EndsCycle, RunnerStep
<1> QED
  BY <1>3, <1>4, <1>5

LEMMA SelectableThere ==
    ASSUME NEW fresh, NEW i \in Selectable(fresh)
    PROVE  i \in fresh \cup DOMAIN log
BY DEF Selectable

LEMMA BoundStopType ==
    ASSUME NEW items
    PROVE  BoundStop(items) \in Reasons
<1> DEFINE a == Len(exps) >= MaxDiscoveryCycles
           b == Cardinality(items) >= MaxFrontierItems
           c == Cardinality({e \in DOMAIN exps : HasResult(e) /\ IsBrowser(exps[e].item) = TRUE})
                   >= MaxBrowserActions
           d == Cardinality({e \in DOMAIN exps : HasResult(e) /\ IsBrowser(exps[e].item) = FALSE})
                   >= MaxHttpTransactions
<1>1. BoundStop(items) = CASE a -> "MAX_DISCOVERY_CYCLES"
                           [] b -> "MAX_FRONTIER_ITEMS"
                           [] c -> "MAX_BROWSER_ACTIONS"
                           [] d -> "MAX_HTTP_TRANSACTIONS"
                           [] OTHER -> "NONE"
  BY DEF BoundStop
<1> HIDE DEF a, b, c, d
<1> QED
  BY <1>1 DEF Reasons

LEMMA LookStep ==
    ASSUME Inv, NEW r \in Runners, Look(r)
    PROVE  Inv'
<1> DEFINE todo == Unprojected
           fresh == Proposals(todo)
           stop == BoundStop(DOMAIN log \cup fresh)
           tx == [runner[r] EXCEPT !.pc = "looked", !.todo = todo, !.fresh = fresh]
<1>1. /\ todo \subseteq DOMAIN exps /\ fresh \in ItemSets
      /\ \A e \in todo : Answered(e) /\ MustBeThere(e) \subseteq fresh \cup DOMAIN log
  BY UnprojectedAnswered, ProposalsComplete
<1>2. todo \subseteq Nat
  BY <1>1 DEF Inv, TypeOK
<1>3. UNCHANGED <<log, session, exps, receipts, projected, live, browser>>
  BY DEF Look, db
<1>4. runner[r].pc = "idle" /\ runner[r].next \in Reasons
  BY DEF Look, Inv, TypeOK, Txs
<1>5. \/ runner' = [runner EXCEPT ![r] = [tx EXCEPT !.next = stop]] /\ stop # "NONE"
      \/ runner' = [runner EXCEPT ![r] = [tx EXCEPT !.next = "NO_ELIGIBLE_FRONTIER"]]
      \/ \E i \in Selectable(fresh) : runner' = [runner EXCEPT ![r] = [tx EXCEPT !.item = i]]
  BY DEF Look
<1>6. stop \in Reasons
  BY BoundStopType
<1> HIDE DEF todo, fresh, stop, tx
<1>7. tx \in Txs /\ tx.pc = "looked" /\ tx.todo = todo /\ tx.fresh = fresh
  BY <1>1, <1>2 DEF tx, Inv, TypeOK, Txs
<1> DEFINE Looked(new) == /\ runner' = [runner EXCEPT ![r] = new]
                          /\ new.pc = "looked" /\ new.todo = todo /\ new.fresh = fresh
                          /\ new.next = "NONE" => new.item \in fresh \cup DOMAIN log
<1>8. \E new \in Txs : Looked(new)
  <2>1. ASSUME NEW s \in Reasons, s # "NONE", runner' = [runner EXCEPT ![r] = [tx EXCEPT !.next = s]]
        PROVE  \E new \in Txs : Looked(new)
    <3>1. [tx EXCEPT !.next = s] \in Txs
      BY <1>7 DEF Txs
    <3>2. /\ [tx EXCEPT !.next = s].pc = tx.pc /\ [tx EXCEPT !.next = s].todo = tx.todo
          /\ [tx EXCEPT !.next = s].fresh = tx.fresh /\ [tx EXCEPT !.next = s].next = s
      BY <1>7 DEF Txs
    <3> QED
      BY <1>7, <2>1, <3>1, <3>2
  <2>2. ASSUME NEW i \in Selectable(fresh), runner' = [runner EXCEPT ![r] = [tx EXCEPT !.item = i]]
        PROVE  \E new \in Txs : Looked(new)
    <3>1. i \in fresh \cup DOMAIN log
      BY SelectableThere
    <3>2. i \in Items
      BY <1>1, <3>1 DEF Inv, TypeOK, ItemSets
    <3>3. [tx EXCEPT !.item = i] \in Txs
      BY <1>7, <3>2 DEF Txs
    <3>4. /\ [tx EXCEPT !.item = i].pc = tx.pc /\ [tx EXCEPT !.item = i].todo = tx.todo
          /\ [tx EXCEPT !.item = i].fresh = tx.fresh /\ [tx EXCEPT !.item = i].item = i
      BY <1>7 DEF Txs
    <3> QED
      BY <1>7, <2>2, <3>1, <3>3, <3>4
  <2>3. "NO_ELIGIBLE_FRONTIER" \in Reasons
    BY DEF Reasons
  <2> HIDE DEF Looked
  <2> QED
    BY <1>5, <1>6, <2>1, <2>2, <2>3
<1> HIDE DEF Looked
<1>81. PICK new \in Txs : Looked(new)
  BY <1>8
<1>9. runner' \in [Runners -> Txs] /\ runner'[r] = new /\ \A q \in Runners \ {r} : runner'[q] = runner[q]
  BY <1>81 DEF Inv, TypeOK, Looked
<1>10. Prepares(r)
  BY <1>1, <1>81, <1>9 DEF Prepares, Looked
<1>11. /\ live' \in [Runners -> SUBSET Pages] /\ browser' \in [Runners -> Seq(Contexts)]
  BY <1>3 DEF Inv, TypeOK
<1> QED
  BY <1>3, <1>81, <1>9, <1>10, <1>11, RunnerStep DEF Looked

LEMMA ReadBackStep ==
    ASSUME Inv, NEW r \in Runners, ReadBack(r)
    PROVE  Inv'
<1> DEFINE new == [runner[r] EXCEPT !.pc = "ending", !.todo = Unprojected,
                                    !.fresh = Proposals(Unprojected)]
<1>1. /\ Unprojected \subseteq DOMAIN exps /\ Proposals(Unprojected) \in ItemSets
      /\ \A e \in Unprojected :
            Answered(e) /\ MustBeThere(e) \subseteq Proposals(Unprojected) \cup DOMAIN log
  BY UnprojectedAnswered, ProposalsComplete
<1>2. Unprojected \subseteq Nat
  BY <1>1 DEF Inv, TypeOK
<1>3. /\ runner[r].pc = "returned" /\ runner \in [Runners -> Txs] /\ runner' = [runner EXCEPT ![r] = new]
      /\ UNCHANGED <<log, session, exps, receipts, projected, live, browser>>
  BY DEF ReadBack, db, Inv, TypeOK
<1>4. new \in Txs /\ new.pc = "ending" /\ new.todo = Unprojected
      /\ new.fresh = Proposals(Unprojected)
      /\ new.item = runner[r].item /\ new.exp = runner[r].exp
  BY <1>1, <1>2, <1>3 DEF Txs, RunPcs
<1> HIDE DEF new
<1>5. runner' \in [Runners -> Txs] /\ runner'[r] = new /\ \A q \in Runners \ {r} : runner'[q] = runner[q]
  BY <1>3, <1>4
<1>6. Prepares(r)
  BY <1>1, <1>4, <1>5 DEF Prepares
<1>7. /\ live' \in [Runners -> SUBSET Pages] /\ browser' \in [Runners -> Seq(Contexts)]
  BY <1>3 DEF Inv, TypeOK
<1> QED
  BY <1>3, <1>4, <1>5, <1>6, <1>7, RunnerStep

\* What a transaction projects, when it does not conflict with another one.
LEMMA ProjectStep ==
    ASSUME Inv, NEW r \in Runners, runner[r].pc \in {"looked", "ending"}, ~Conflict(r),
           NEW rows, Project(r, rows), exps' = exps
    PROVE  /\ runner[r].fresh \in ItemSets /\ runner[r].fresh \cap DOMAIN log = {}
           /\ session' \in [DOMAIN log \cup runner[r].fresh -> Sessions]
           /\ receipts' \subseteq DOMAIN exps
           /\ projected' \in Seq(Nat) /\ projected' \in [DOMAIN exps -> Nat] /\ CountedOnce'
           /\ \A e \in receipts' : Answered(e)
                 /\ MustBeThere(e) \subseteq DOMAIN log \cup runner[r].fresh
<1> DEFINE todo == runner[r].todo
           fresh == runner[r].fresh
<1>1. fresh \in ItemSets /\ fresh \cap DOMAIN log = {} /\ todo \cap receipts = {}
  BY DEF Inv, TypeOK, Txs, Conflict
<1>2. \A e \in todo : Answered(e) /\ MustBeThere(e) \subseteq fresh \cup DOMAIN log
  BY DEF Inv, ProjectsAnswers, ProposalsThere
<1>3. \A e \in receipts : Answered(e) /\ MustBeThere(e) \subseteq DOMAIN log
  BY DEF Inv, ProjectsAnswers, ProposalsThere
<1>4. /\ session' = Inserted(session, fresh, NoSession)
      /\ receipts' = receipts \cup todo
      /\ projected' = [e \in DOMAIN projected |-> projected[e] + IF e \in todo THEN 1 ELSE 0]
  BY DEF Project
<1> HIDE DEF todo, fresh
<1>5. session' \in [DOMAIN log \cup fresh -> Sessions]
  <2>1. session \in [DOMAIN log -> Sessions] /\ NoSession \in Sessions
    BY DEF Inv, TypeOK, Sessions
  <2> QED
    BY <1>4, <2>1 DEF Inserted
<1>6. receipts' \subseteq DOMAIN exps
  BY <1>2, <1>4 DEF Inv, TypeOK, Answered
<1>7. DOMAIN projected = DOMAIN exps /\ DOMAIN exps = 1..Len(exps) /\ Len(exps) \in Nat
      /\ \A e \in DOMAIN exps : projected[e] \in Nat
  BY DEF Inv, TypeOK
<1>8. projected' \in [DOMAIN exps -> Nat]
  BY <1>4, <1>7
<1>9. projected' \in Seq(Nat)
  BY <1>7, <1>8
<1>10. CountedOnce'
  <2>1. \A e \in DOMAIN exps : projected'[e] = IF e \in receipts' THEN 1 ELSE 0
    <3> SUFFICES ASSUME NEW e \in DOMAIN exps
                 PROVE  projected'[e] = IF e \in receipts' THEN 1 ELSE 0
      OBVIOUS
    <3>1. projected[e] = IF e \in receipts THEN 1 ELSE 0
      BY DEF Inv, CountedOnce
    <3> QED
      BY <1>1, <1>4, <1>7, <3>1
  <2> QED
    BY <2>1 DEF CountedOnce
<1> QED
  BY <1>1, <1>2, <1>3, <1>4, <1>5, <1>6, <1>8, <1>9, <1>10 DEF todo, fresh

LEMMA WithFreshIs ==
    ASSUME NEW r
    PROVE  WithFresh(r) = [i \in DOMAIN log \cup runner[r].fresh |->
                             IF i \in runner[r].fresh THEN Created ELSE log[i]]
BY DEF WithFresh, Inserted

\* Who works on an item holds a claim that is not another's to take.
LEMMA OthersApart ==
    ASSUME Inv, NEW r \in Runners, Working(r), NEW q \in Runners \ {r}, Working(q)
    PROVE  runner[q].item # runner[r].item
BY DEF Inv, ClaimsApart

LEMMA ClaimStep ==
    ASSUME Inv, NEW r \in Runners, Claim(r)
    PROVE  Inv'
<1> DEFINE item == runner[r].item
           fresh == runner[r].fresh
           after == WithFresh(r)
<1>1. /\ runner[r].pc = "looked" /\ runner[r].next = "NONE"
      /\ UNCHANGED <<live, browser>>
  BY DEF Claim
<1>2. /\ live' \in [Runners -> SUBSET Pages] /\ browser' \in [Runners -> Seq(Contexts)]
      /\ runner \in [Runners -> Txs]
  BY <1>1 DEF Inv, TypeOK
<1>3. CASE Conflict(r) \/ ~Claimable(r, after)
  <2>1. runner' = [runner EXCEPT ![r] = Idle] /\ UNCHANGED <<log, session, exps, receipts, projected>>
    BY <1>3 DEF Claim, Abort, db
  <2> QED
    BY <1>2, <2>1, EndsCycle, RunnerStep
<1>4. CASE ~Conflict(r) /\ Claimable(r, after)
  <2>1. /\ Project(r, [after EXCEPT ![item] = Selected(@)])
        /\ runner' = [runner EXCEPT ![r].pc = "claimed"] /\ exps' = exps
    BY <1>4 DEF Claim, Goto
  <2>2. after = [i \in DOMAIN log \cup fresh |-> IF i \in fresh THEN Created ELSE log[i]]
    BY WithFreshIs
  <2>3. /\ fresh \in ItemSets /\ fresh \cap DOMAIN log = {}
        /\ session' \in [DOMAIN log \cup fresh -> Sessions]
        /\ receipts' \subseteq DOMAIN exps
        /\ projected' \in Seq(Nat) /\ projected' \in [DOMAIN exps -> Nat] /\ CountedOnce'
        /\ \A e \in receipts' : Answered(e) /\ MustBeThere(e) \subseteq DOMAIN log \cup fresh
    BY <1>1, <1>4, <2>1, ProjectStep
  <2>4. log' = [after EXCEPT ![item] = Selected(@)] /\ item \in fresh \cup DOMAIN log
    BY <1>1, <2>1 DEF Project, Inv, ChoiceExists
  <2>5. Legal(State(after[item]), "SELECTED")
    BY <1>4 DEF Claimable
  <2> HIDE DEF item, fresh, after
  <2>6. /\ after[item] \in Seq(Events) /\ LegalHistory(after[item])
        /\ item \in DOMAIN log => after[item] = log[item]
    BY <2>2, <2>3, <2>4, CreatedHistory DEF Inv, TypeOK, Histories
  <2> DEFINE new == Selected(after[item])
             event == [kind |-> "SELECTED",
                       generation |-> Cardinality(Selections(after[item])) + 1]
  <2>7. new = Append(after[item], event)
    BY DEF Selected
  <2>8. event \in Events /\ event.kind = "SELECTED"
    <3>1. Cardinality(Selections(after[item])) \in Nat
      BY <2>6, SelectionsCount
    <3> QED
      BY <3>1 DEF Events, EventKinds
  <2> HIDE DEF new, event
  <2>9. /\ new \in Seq(Events) /\ LegalHistory(new) /\ State(new) = "SELECTED"
        /\ Cardinality(Selections(after[item])) \in Nat
        /\ Cardinality(Selections(new)) \in Nat
        /\ Cardinality(Selections(after[item])) < Cardinality(Selections(new))
    BY <2>5, <2>6, <2>7, <2>8, EventAppended
  <2>10. log' = [i \in DOMAIN log \cup fresh |-> IF i \in {item} THEN new
                                                  ELSE IF i \in fresh THEN Created ELSE log[i]]
    BY <2>2, <2>4 DEF new
  <2>11. \A i \in {item} \cap DOMAIN log : Cardinality(Selections(log[i])) <= Cardinality(Selections(new))
    <3> SUFFICES ASSUME item \in DOMAIN log
                 PROVE  Cardinality(Selections(log[item])) <= Cardinality(Selections(new))
      OBVIOUS
    <3>1. log[item] = after[item]
      BY <2>6
    <3> QED
      BY <2>9, <3>1
  <2>12. LogGrows({item}) /\ DOMAIN log' = DOMAIN log \cup fresh /\ log'[item] = new
    <3>1. TypeOK /\ Histories /\ {item} \in SUBSET (DOMAIN log \cup fresh)
      BY <2>4 DEF Inv
    <3> HIDE DEF Inv
    <3>2. /\ LogGrows({item}) /\ DOMAIN log' = DOMAIN log \cup fresh
          /\ \A i \in {item} : log'[i] = new
      BY ONLY <3>1, <2>3, <2>9, <2>10, <2>11, LogExtended
    <3> QED
      BY <3>2
  <2>13. /\ runner' \in [Runners -> Txs] /\ runner'[r].pc = "claimed" /\ runner'[r].item = item
         /\ \A q \in Runners \ {r} : runner'[q] = runner[q]
    <3>1. [runner[r] EXCEPT !.pc = "claimed"] \in Txs
      BY <1>2 DEF Txs
    <3>2. runner[r] \in Txs
      BY <1>2
    <3>3. /\ [runner[r] EXCEPT !.pc = "claimed"].pc = "claimed"
          /\ [runner[r] EXCEPT !.pc = "claimed"].item = item
      BY <3>2 DEF Txs, item
    <3> QED
      BY <1>2, <2>1, <3>1, <3>3
  <2>14. ASSUME NEW q \in Runners \ {r}, Working(q)
         PROVE  runner[q].item # item
    <3>1. runner[q].item \in DOMAIN log /\ State(log[runner[q].item]) = "SELECTED"
      BY <2>14 DEF Inv, ClaimStands
    <3>2. ~Legal("SELECTED", "SELECTED")
      BY DEF Legal, LegalTransitions
    <3> QED
      BY <2>5, <2>6, <3>1, <3>2
  <2>15. Cardinality(MadeFor(item)) < Cardinality(Selections(new))
    <3>1. CASE item \in DOMAIN log
      <4>1. Cardinality(MadeFor(item)) <= Cardinality(Selections(after[item]))
        BY <2>6, <3>1 DEF Inv, Claimed
      <4>2. Cardinality(MadeFor(item)) \in Nat
        <5>1. DOMAIN exps = 1..Len(exps) /\ Len(exps) \in Nat
          BY DEF Inv, TypeOK
        <5>2. IsFiniteSet(MadeFor(item))
          <6>1. IsFiniteSet(DOMAIN exps) /\ MadeFor(item) \subseteq DOMAIN exps
            BY <5>1, FS_Interval DEF MadeFor
          <6> QED
            BY <6>1, FS_Subset
        <5> QED
          BY <5>2, FS_CardinalityType
      <4> QED
        BY <2>9, <4>1, <4>2
    <3>2. CASE item \notin DOMAIN log
      BY <2>9, <3>2, MadeForNew
    <3> QED
      BY <3>1, <3>2
  <2> QED
    BY <1>2, <2>1, <2>3, <2>4, <2>9, <2>12, <2>13, <2>14, <2>15, LogStep
<1> QED
  BY <1>3, <1>4

LEMMA CloseStep ==
    ASSUME Inv, NEW r \in Runners, Close(r)
    PROVE  Inv'
<1> DEFINE fresh == runner[r].fresh
<1>1. runner[r].pc = "looked" /\ UNCHANGED <<live, browser>>
      /\ runner' = [runner EXCEPT ![r] = Idle]
  BY DEF Close, Abort, EndCycle
<1>2. /\ live' \in [Runners -> SUBSET Pages] /\ browser' \in [Runners -> Seq(Contexts)]
  BY <1>1 DEF Inv, TypeOK
<1>3. CASE Conflict(r)
  <2>1. UNCHANGED <<log, session, exps, receipts, projected>>
    BY <1>3 DEF Close, db
  <2> QED
    BY <1>1, <1>2, <2>1, EndsCycle, RunnerStep
<1>4. CASE ~Conflict(r)
  <2>1. Project(r, WithFresh(r)) /\ exps' = exps
    BY <1>4 DEF Close
  <2>2. log' = [i \in DOMAIN log \cup fresh |-> IF i \in {} THEN Created
                                                 ELSE IF i \in fresh THEN Created ELSE log[i]]
    BY <2>1, WithFreshIs DEF Project
  <2>3. /\ fresh \in ItemSets /\ fresh \cap DOMAIN log = {}
        /\ session' \in [DOMAIN log \cup fresh -> Sessions]
        /\ receipts' \subseteq DOMAIN exps
        /\ projected' \in Seq(Nat) /\ projected' \in [DOMAIN exps -> Nat] /\ CountedOnce'
        /\ \A e \in receipts' : Answered(e) /\ MustBeThere(e) \subseteq DOMAIN log \cup fresh
    BY <1>1, <1>4, <2>1, ProjectStep
  <2> HIDE DEF fresh
  <2>4. LogGrows({}) /\ DOMAIN log' = DOMAIN log \cup fresh
    BY <2>2, <2>3, CreatedHistory, LogExtended DEF Inv
  <2> QED
    BY <1>1, <1>2, <2>1, <2>3, <2>4, EndsCycle, LogStep
<1> QED
  BY <1>3, <1>4

\* Events a controller gives the item of its claim, when it ends its cycle, with
\* the items it inserts.
LEMMA ItemEnds ==
    ASSUME Inv, NEW r \in Runners, Working(r), exps' = exps,
           NEW fresh \in ItemSets, fresh \cap DOMAIN log = {},
           NEW new \in Seq(Events), LegalHistory(new),
           Cardinality(Selections(log[runner[r].item])) <= Cardinality(Selections(new)),
           log' = Inserted([log EXCEPT ![runner[r].item] = new], fresh, Created),
           session' \in [DOMAIN log \cup fresh -> Sessions],
           receipts' \subseteq DOMAIN exps,
           projected' \in Seq(Nat), projected' \in [DOMAIN exps -> Nat], CountedOnce',
           \A e \in receipts' : Answered(e) /\ MustBeThere(e) \subseteq DOMAIN log \cup fresh,
           live' \in [Runners -> SUBSET Pages], browser' = browser,
           runner' = [runner EXCEPT ![r] = Idle]
    PROVE  Inv'
<1> DEFINE item == runner[r].item
<1>1. item \in DOMAIN log
  BY DEF Inv, ClaimStands
<1>2. log' = [i \in DOMAIN log \cup fresh |-> IF i \in fresh THEN Created
                                               ELSE [log EXCEPT ![item] = new][i]]
  BY DEF Inserted
<1> HIDE DEF item
<1>3. log' = [i \in DOMAIN log \cup fresh |-> IF i \in {item} THEN new
                                               ELSE IF i \in fresh THEN Created ELSE log[i]]
  BY <1>1, <1>2
<1>4. \A i \in {item} \cap DOMAIN log : Cardinality(Selections(log[i])) <= Cardinality(Selections(new))
  BY DEF item
<1>5. LogGrows({item}) /\ DOMAIN log' = DOMAIN log \cup fresh
  <2>1. TypeOK /\ Histories /\ {item} \in SUBSET (DOMAIN log \cup fresh)
    BY <1>1 DEF Inv
  <2> QED
    BY <1>3, <1>4, <2>1, LogExtended
<1>6. browser' \in [Runners -> Seq(Contexts)]
  BY DEF Inv, TypeOK
<1>7. \A q \in Runners \ {r} : Working(q) => runner[q].item \notin {item}
  BY OthersApart DEF item
<1>8. /\ runner' \in [Runners -> Txs] /\ runner'[r].pc = "idle"
      /\ \A q \in Runners \ {r} : runner'[q] = runner[q]
  BY EndsCycle
<1> QED
  BY <1>5, <1>6, <1>7, <1>8, LogStep

\* The item of a claim may be given every event that may follow SELECTED.
LEMMA ClaimEvents ==
    ASSUME Inv, NEW r \in Runners, Working(r), NEW kind \in EventKinds, Legal("SELECTED", kind)
    PROVE  LET old == log[runner[r].item]
               new == Append(old, Event(kind))
           IN /\ new \in Seq(Events) /\ LegalHistory(new) /\ State(new) = kind
              /\ Cardinality(Selections(old)) \in Nat /\ Cardinality(Selections(new)) \in Nat
              /\ Cardinality(Selections(old)) <= Cardinality(Selections(new))
<1>1. /\ log[runner[r].item] \in Seq(Events) /\ LegalHistory(log[runner[r].item])
      /\ State(log[runner[r].item]) = "SELECTED"
  BY DEF Inv, ClaimStands, TypeOK, Histories
<1>2. Event(kind) \in Events /\ Event(kind).kind = kind
  BY DEF Event, Events
<1> QED
  BY <1>1, <1>2, EventAppended

LEMMA AppendedKinds ==
    ASSUME Inv, NEW r \in Runners, Working(r), NEW rows, DOMAIN log \subseteq DOMAIN rows,
           rows[runner[r].item] = log[runner[r].item]
    PROVE  LET item == runner[r].item
               old  == log[item]
           IN /\ Appended(rows, item, <<>>) = [rows EXCEPT ![item] = old]
              /\ \A a \in EventKinds :
                    Appended(rows, item, <<a>>) = [rows EXCEPT ![item] = Append(old, Event(a))]
              /\ \A a, b \in EventKinds :
                    Appended(rows, item, <<a, b>>)
                       = [rows EXCEPT ![item] = Append(Append(old, Event(a)), Event(b))]
<1> DEFINE item == runner[r].item
           old == log[item]
<1>1. item \in DOMAIN log /\ old \in Seq(Events)
  BY DEF Inv, ClaimStands, TypeOK
<1>2. rows[item] = old
  OBVIOUS
<1> HIDE DEF item, old
<1>3. /\ old \o [k \in DOMAIN <<>> |-> Event(<<>>[k])] = old
      /\ \A a \in EventKinds :
            old \o [k \in DOMAIN <<a>> |-> Event(<<a>>[k])] = Append(old, Event(a))
      /\ \A a, b \in EventKinds :
            old \o [k \in DOMAIN <<a, b>> |-> Event(<<a, b>>[k])]
               = Append(Append(old, Event(a)), Event(b))
  BY <1>1, KindsAppended
<1>4. Appended(rows, item, <<>>) = [rows EXCEPT ![item] = old]
  BY <1>2, <1>3 DEF Appended
<1>5. \A a \in EventKinds :
         Appended(rows, item, <<a>>) = [rows EXCEPT ![item] = Append(old, Event(a))]
  BY <1>2, <1>3 DEF Appended
<1>6. \A a, b \in EventKinds :
         Appended(rows, item, <<a, b>>)
            = [rows EXCEPT ![item] = Append(Append(old, Event(a)), Event(b))]
  BY <1>2, <1>3 DEF Appended
<1> QED
  BY <1>4, <1>5, <1>6 DEF item, old

LEMMA BlockStep ==
    ASSUME Inv, NEW r \in Runners, Block(r)
    PROVE  Inv'
<1> DEFINE item == runner[r].item
           new == Append(log[item], Event("BLOCKED_SCOPE"))
<1>1. /\ Working(r) /\ log' = Appended(log, item, <<"BLOCKED_SCOPE">>)
      /\ runner' = [runner EXCEPT ![r] = Idle]
      /\ UNCHANGED <<session, exps, receipts, projected, live, browser>>
  BY DEF Block, Working, EndCycle
<1>2. "BLOCKED_SCOPE" \in EventKinds /\ Legal("SELECTED", "BLOCKED_SCOPE")
  BY DEF EventKinds, Legal, LegalTransitions
<1>3. log' = [log EXCEPT ![item] = new]
  <2>1. \A a \in EventKinds :
           Appended(log, item, <<a>>) = [log EXCEPT ![item] = Append(log[item], Event(a))]
    BY <1>1, AppendedKinds
  <2> QED
    BY <1>1, <1>2, <2>1
<1>4. /\ new \in Seq(Events) /\ LegalHistory(new)
      /\ Cardinality(Selections(log[item])) <= Cardinality(Selections(new))
  BY <1>1, <1>2, ClaimEvents
<1> HIDE DEF new
<1>5. log' = Inserted([log EXCEPT ![item] = new], {}, Created) /\ {} \in ItemSets
  BY <1>3, FS_EmptySet DEF Inserted, ItemSets
<1>6. DOMAIN log' = DOMAIN log
  BY <1>3
<1>7. /\ receipts' \subseteq DOMAIN exps
      /\ projected' \in Seq(Nat) /\ projected' \in [DOMAIN exps -> Nat] /\ CountedOnce'
      /\ \A e \in receipts' : Answered(e) /\ MustBeThere(e) \subseteq DOMAIN log \cup {}
  BY <1>1, <1>6, ReceiptsStand
<1>8. /\ session' \in [DOMAIN log \cup {} -> Sessions] /\ live' \in [Runners -> SUBSET Pages]
  BY <1>1 DEF Inv, TypeOK
<1> QED
  BY <1>1, <1>4, <1>5, <1>7, <1>8, ItemEnds

LEMMA ReobserveStep ==
    ASSUME Inv, NEW r \in Runners, Reobserve(r)
    PROVE  Inv'
<1> DEFINE item == runner[r].item
           visits == {i \in DOMAIN log : /\ i.goal = "INSPECT_PATH"
                                         /\ i.who = item.who /\ i.path = item.path}
           again == Inspect(item.path, item.who, Cardinality(visits))
           known == Append(log[item], Event("NO_NEW_INFORMATION"))
           failed == Append(log[item], Event("FAILED_TRANSIENT"))
           waiting == Append(failed, Event("ELIGIBLE"))
<1>1. /\ Working(r) /\ runner' = [runner EXCEPT ![r] = Idle] /\ Revisit(item)
      /\ UNCHANGED <<exps, receipts, projected, live, browser>>
  BY DEF Reobserve, Working, EndCycle
<1>2. item \in DOMAIN log /\ item \in Items
  BY <1>1 DEF Inv, ClaimStands, TypeOK, ItemSets
<1>3. /\ session \in [DOMAIN log -> Sessions] /\ live' \in [Runners -> SUBSET Pages]
      /\ DOMAIN log \in ItemSets
  BY <1>1 DEF Inv, TypeOK
<1>4. /\ {"NO_NEW_INFORMATION", "FAILED_TRANSIENT", "ELIGIBLE"} \subseteq EventKinds
      /\ Legal("SELECTED", "NO_NEW_INFORMATION") /\ Legal("SELECTED", "FAILED_TRANSIENT")
      /\ Legal("FAILED_TRANSIENT", "ELIGIBLE")
  BY DEF EventKinds, Legal, LegalTransitions
<1>5. \/ log' = Appended(log, item, <<"NO_NEW_INFORMATION">>) /\ UNCHANGED session
      \/ /\ again \notin DOMAIN log
         /\ log' = Inserted(Appended(log, item, <<"FAILED_TRANSIENT", "ELIGIBLE">>),
                            {again}, Created)
         /\ session' = Inserted(session, {again}, session[item])
  BY <1>1 DEF Revisit
<1>6. /\ Appended(log, item, <<"NO_NEW_INFORMATION">>) = [log EXCEPT ![item] = known]
      /\ Appended(log, item, <<"FAILED_TRANSIENT", "ELIGIBLE">>) = [log EXCEPT ![item] = waiting]
  <2>1. /\ \A a \in EventKinds :
              Appended(log, item, <<a>>) = [log EXCEPT ![item] = Append(log[item], Event(a))]
        /\ \A a, b \in EventKinds :
              Appended(log, item, <<a, b>>)
                 = [log EXCEPT ![item] = Append(Append(log[item], Event(a)), Event(b))]
    BY <1>1, AppendedKinds
  <2> QED
    BY <1>4, <2>1
<1>7. /\ known \in Seq(Events) /\ LegalHistory(known)
      /\ Cardinality(Selections(log[item])) <= Cardinality(Selections(known))
  BY <1>1, <1>4, ClaimEvents
<1>8. /\ waiting \in Seq(Events) /\ LegalHistory(waiting)
      /\ Cardinality(Selections(log[item])) <= Cardinality(Selections(waiting))
  <2>1. /\ failed \in Seq(Events) /\ LegalHistory(failed) /\ State(failed) = "FAILED_TRANSIENT"
        /\ Cardinality(Selections(log[item])) \in Nat /\ Cardinality(Selections(failed)) \in Nat
        /\ Cardinality(Selections(log[item])) <= Cardinality(Selections(failed))
    BY <1>1, <1>4, ClaimEvents
  <2>2. Event("ELIGIBLE") \in Events /\ Event("ELIGIBLE").kind = "ELIGIBLE"
    BY <1>4 DEF Event, Events
  <2> HIDE DEF failed
  <2>3. /\ waiting \in Seq(Events) /\ LegalHistory(waiting)
        /\ Cardinality(Selections(waiting)) \in Nat
        /\ Cardinality(Selections(failed)) <= Cardinality(Selections(waiting))
    BY <1>4, <2>1, <2>2, EventAppended
  <2> HIDE DEF waiting
  <2> QED
    BY <2>1, <2>3
<1>9. again \in Items
  <2>1. IsFiniteSet(DOMAIN log) /\ visits \subseteq DOMAIN log
    BY <1>3 DEF ItemSets
  <2>2. Cardinality(visits) \in Nat
    BY <2>1, FS_Subset, FS_CardinalityType
  <2>3. item.path \in Paths /\ item.who \in Users
    BY <1>2 DEF Items
  <2> QED
    BY <2>2, <2>3, ItemTypes
<1> HIDE DEF item, again, known, waiting, failed, visits
<1>10. DOMAIN log \subseteq DOMAIN log'
  BY <1>5, <1>6 DEF Inserted
<1>11. /\ receipts' \subseteq DOMAIN exps
       /\ projected' \in Seq(Nat) /\ projected' \in [DOMAIN exps -> Nat] /\ CountedOnce'
  BY <1>1, <1>10, ReceiptsStand
<1>12. \A e \in receipts' : Answered(e) /\ MustBeThere(e) \subseteq DOMAIN log
  BY <1>1 DEF Inv, ProjectsAnswers, ProposalsThere
<1>13. CASE log' = Appended(log, item, <<"NO_NEW_INFORMATION">>) /\ UNCHANGED session
  <2>1. log' = Inserted([log EXCEPT ![item] = known], {}, Created) /\ {} \in ItemSets
    BY <1>6, <1>13, FS_EmptySet DEF Inserted, ItemSets
  <2>2. \A e \in receipts' : Answered(e) /\ MustBeThere(e) \subseteq DOMAIN log \cup {}
    BY <1>12
  <2>3. session' \in [DOMAIN log \cup {} -> Sessions]
    BY <1>3, <1>13
  <2> QED
    BY <1>1, <1>3, <1>7, <1>11, <2>1, <2>2, <2>3, ItemEnds DEF item
<1>14. CASE /\ again \notin DOMAIN log
            /\ log' = Inserted(Appended(log, item, <<"FAILED_TRANSIENT", "ELIGIBLE">>),
                               {again}, Created)
            /\ session' = Inserted(session, {again}, session[item])
  <2>1. {again} \in ItemSets /\ {again} \cap DOMAIN log = {}
    BY <1>9, <1>14, FS_Singleton DEF ItemSets
  <2>2. log' = Inserted([log EXCEPT ![item] = waiting], {again}, Created)
    BY <1>6, <1>14
  <2>3. session' \in [DOMAIN log \cup {again} -> Sessions]
    BY <1>2, <1>3, <1>14 DEF Inserted
  <2>4. \A e \in receipts' : Answered(e) /\ MustBeThere(e) \subseteq DOMAIN log \cup {again}
    BY <1>12
  <2> QED
    BY <1>1, <1>3, <1>8, <1>11, <2>1, <2>2, <2>3, <2>4, ItemEnds DEF item
<1> QED
  BY <1>5, <1>13, <1>14

\* The pages a controller remembers.
LEMMA LiveAfterType ==
    ASSUME Inv, NEW pages \in SUBSET Pages, NEW e \in DOMAIN exps
    PROVE  LiveAfter(pages, e) \in SUBSET Pages
<1>1. exps[e] \in Attempts
  BY DEF Inv, TypeOK
<1>2. [at |-> exps[e].at, who |-> exps[e].item.who, ref |-> exps[e].ref] \in Pages
  BY <1>1 DEF Attempts, Items, Pages
<1> QED
  BY <1>2 DEF LiveAfter, Remember, Forget

LEMMA FinishStep ==
    ASSUME Inv, NEW r \in Runners, Finish(r)
    PROVE  Inv'
<1> DEFINE e == runner[r].exp
           item == runner[r].item
           fresh == runner[r].fresh
           after == WithFresh(r)
           old == log[item]
<1>1. /\ runner[r].pc = "ending" /\ Working(r) /\ browser' = browser
      /\ runner' = [runner EXCEPT ![r] = Idle]
  BY DEF Finish, Abort, EndCycle, Working
<1>2. /\ live \in [Runners -> SUBSET Pages] /\ browser' \in [Runners -> Seq(Contexts)]
      /\ e \in DOMAIN exps /\ item \in DOMAIN log
  BY <1>1 DEF Inv, TypeOK, OwnExperiment, RunPcs, ClaimStands
<1>3. CASE Conflict(r)
  <2>1. UNCHANGED <<log, session, exps, receipts, projected, live>>
    BY <1>3 DEF Finish, db
  <2> QED
    BY <1>1, <1>2, <2>1, EndsCycle, RunnerStep
<1>4. CASE ~Conflict(r)
  <2>1. /\ Project(r, Appended(after, item, Outcome(e))) /\ exps' = exps
        /\ live' = [live EXCEPT ![r] = LiveAfter(@, e)]
    BY <1>4 DEF Finish
  <2>2. /\ fresh \in ItemSets /\ fresh \cap DOMAIN log = {}
        /\ session' \in [DOMAIN log \cup fresh -> Sessions]
        /\ receipts' \subseteq DOMAIN exps
        /\ projected' \in Seq(Nat) /\ projected' \in [DOMAIN exps -> Nat] /\ CountedOnce'
        /\ \A d \in receipts' : Answered(d) /\ MustBeThere(d) \subseteq DOMAIN log \cup fresh
    BY <1>1, <1>4, <2>1, ProjectStep
  <2>3. live' \in [Runners -> SUBSET Pages]
    BY <1>2, <2>1, LiveAfterType
  <2>4. log' = Appended(after, item, Outcome(e))
    BY <2>1 DEF Project
  <2>5. after = Inserted(log, fresh, Created)
    BY DEF WithFresh
  <2>6. DOMAIN log \subseteq DOMAIN after /\ after[item] = old
    BY <1>2, <2>2, <2>5 DEF Inserted
  <2>7. /\ "OBSERVED" \in EventKinds /\ Legal("SELECTED", "OBSERVED")
        /\ "AWAITING_REAUTHORIZATION" \in EventKinds
        /\ Legal("SELECTED", "AWAITING_REAUTHORIZATION")
    BY DEF EventKinds, Legal, LegalTransitions
  <2>8. /\ old \in Seq(Events) /\ LegalHistory(old)
        /\ Cardinality(Selections(old)) <= Cardinality(Selections(old))
    BY <1>2, SelectionsCount DEF Inv, TypeOK, Histories
  <2>9. \A new : [after EXCEPT ![item] = new]
                   = Inserted([log EXCEPT ![item] = new], fresh, Created)
    <3> HIDE DEF item, fresh, after
    <3> QED
      BY <1>2, <2>2, <2>5 DEF Inserted
  <2> DEFINE Ended(new) == /\ LegalHistory(new)
                           /\ Cardinality(Selections(old)) <= Cardinality(Selections(new))
                           /\ log' = [after EXCEPT ![item] = new]
  <2>10. \E new \in Seq(Events) : Ended(new)
    <3>1. /\ Appended(after, item, <<>>) = [after EXCEPT ![item] = old]
          /\ \A a \in EventKinds :
                Appended(after, item, <<a>>) = [after EXCEPT ![item] = Append(old, Event(a))]
      BY <1>1, <2>6, AppendedKinds
    <3>2. Outcome(e) \in {<<"OBSERVED">>, <<"AWAITING_REAUTHORIZATION">>, <<>>}
      BY DEF Outcome
    <3> HIDE DEF e, after
    <3>3. CASE Outcome(e) = <<>>
      BY <2>4, <2>8, <3>1, <3>3
    <3>4. ASSUME NEW a \in EventKinds, Legal("SELECTED", a), Outcome(e) = <<a>>
          PROVE  \E new \in Seq(Events) : Ended(new)
      <4>1. /\ Append(old, Event(a)) \in Seq(Events) /\ LegalHistory(Append(old, Event(a)))
            /\ Cardinality(Selections(old)) <= Cardinality(Selections(Append(old, Event(a))))
        BY <1>1, <3>4, ClaimEvents
      <4>2. log' = [after EXCEPT ![item] = Append(old, Event(a))]
        BY <2>4, <3>1, <3>4
      <4> QED
        BY <4>1, <4>2
    <3> QED
      BY <2>7, <3>2, <3>3, <3>4
  <2>11. PICK new \in Seq(Events) : Ended(new)
    BY <2>10
  <2>12. log' = Inserted([log EXCEPT ![item] = new], fresh, Created)
    BY <2>9, <2>11
  <2> QED
    BY <1>1, <2>1, <2>2, <2>3, <2>11, <2>12, ItemEnds
<1> QED
  BY <1>3, <1>4

\* A controller at work is at its own experiment, which another never changes.
LEMMA PrepareStep ==
    ASSUME Inv, NEW r \in Runners, Prepare(r)
    PROVE  Inv'
<1> PICK item : item = runner[r].item
  OBVIOUS
<1> DEFINE ref == IF item.goal = "INSPECT_CONTROL"
                  THEN (CHOOSE p \in LivePage(r, item) : TRUE).ref ELSE 0
           new == [item |-> item, session |-> session[item], ref |-> ref,
                   status |-> "PLANNED", at |-> Outside]
           n == Len(exps) + 1
           tx == [runner[r] EXCEPT !.pc = "prepared", !.exp = n]
<1>1. /\ runner[r].pc = "claimed" /\ Working(r) /\ ~MustReobserve(r, item)
      /\ exps' = Append(exps, new) /\ projected' = Append(projected, 0)
      /\ UNCHANGED <<log, session, receipts, live, browser>>
  BY DEF Prepare, Working
<1>2. /\ exps \in Seq(Attempts) /\ Len(exps) \in Nat /\ DOMAIN exps = 1..Len(exps)
      /\ projected \in Seq(Nat) /\ DOMAIN projected = DOMAIN exps
      /\ runner \in [Runners -> Txs] /\ receipts \subseteq DOMAIN exps
      /\ live \in [Runners -> SUBSET Pages]
  BY DEF Inv, TypeOK
<1>3. runner' = [runner EXCEPT ![r] = tx]
  BY <1>2 DEF Prepare
<1>4. item \in DOMAIN log /\ item \in Items /\ session[item] \in Sessions
  BY <1>1 DEF Inv, ClaimStands, TypeOK, ItemSets
<1>5. ref \in Nat
  <2>1. CASE item.goal = "INSPECT_CONTROL"
    <3>1. LivePage(r, item) # {}
      BY <1>1, <2>1 DEF MustReobserve
    <3>2. (CHOOSE p \in LivePage(r, item) : TRUE) \in Pages
      BY <1>2, <3>1 DEF LivePage
    <3> QED
      BY <2>1, <3>2 DEF Pages
  <2>2. CASE item.goal # "INSPECT_CONTROL"
    BY <2>2
  <2> QED
    BY <2>1, <2>2
<1> HIDE DEF ref
<1>6. new \in Attempts /\ new.item = item /\ new.status = "PLANNED"
  BY <1>4, <1>5 DEF Attempts, Statuses, Places
<1> HIDE DEF new
<1>71. n \in Nat
  BY <1>2
<1> HIDE DEF n
<1>7. /\ tx \in Txs /\ tx.pc = "prepared" /\ tx.exp = n /\ tx.item = item
  BY <1>2, <1>71 DEF Txs, RunPcs
<1> HIDE DEF tx
<1>8. /\ n \in Nat /\ n \notin DOMAIN exps /\ DOMAIN exps' = DOMAIN exps \cup {n}
      /\ exps' \in Seq(Attempts) /\ exps'[n] = new
      /\ \A e \in DOMAIN exps : exps'[e] = exps[e]
  BY <1>1, <1>2, <1>6 DEF n
<1>9. /\ projected' \in Seq(Nat) /\ DOMAIN projected' = DOMAIN exps' /\ projected'[n] = 0
      /\ \A e \in DOMAIN exps : projected'[e] = projected[e]
  BY <1>1, <1>2, <1>8 DEF n
<1>10. /\ runner' \in [Runners -> Txs] /\ runner'[r] = tx
       /\ \A q \in Runners \ {r} : runner'[q] = runner[q]
  BY <1>2, <1>3, <1>7
<1>11. \A q \in Runners : Working(q)' => Working(q) /\ runner'[q].item = runner[q].item
  BY <1>1, <1>7, <1>10 DEF Working
<1>12. TypeOK'
  <2>1. projected' \in [DOMAIN exps' -> Nat]
    BY <1>9
  <2> QED
    BY <1>1, <1>2, <1>8, <1>9, <1>10, <2>1 DEF Inv, TypeOK
<1>13. Histories'
  BY <1>1 DEF Inv, Histories
<1>14. ClaimStands' /\ ClaimsApart'
  BY <1>1, <1>11 DEF Inv, ClaimStands, ClaimsApart
<1>15. ChoiceExists'
  BY <1>1, <1>7, <1>10 DEF Inv, ChoiceExists
<1>16. \A i : i # item => MadeFor(i)' = MadeFor(i)
  BY <1>6, <1>8 DEF MadeFor
<1>161. exps'[n].item = item
  BY <1>6, <1>8
<1>17. MadeFor(item)' = MadeFor(item) \cup {n} /\ n \notin MadeFor(item)
  BY <1>8, <1>161 DEF MadeFor
<1>18. Cardinality(MadeFor(item)') = Cardinality(MadeFor(item)) + 1
       /\ Cardinality(MadeFor(item)) \in Nat
  <2>1. IsFiniteSet(DOMAIN exps) /\ MadeFor(item) \subseteq DOMAIN exps
    BY <1>2, FS_Interval DEF MadeFor
  <2>2. IsFiniteSet(MadeFor(item))
    BY <2>1, FS_Subset
  <2> QED
    BY <1>17, <2>2, FS_AddElement, FS_CardinalityType
<1>19. Claimed'
  <2>1. \A e \in DOMAIN exps' : exps'[e].item \in DOMAIN log'
    BY <1>1, <1>4, <1>6, <1>8 DEF Inv, Claimed
  <2>2. Cardinality(Selections(log[item])) \in Nat
    BY <1>4, SelectionsCount DEF Inv, TypeOK
  <2>3. Cardinality(MadeFor(item)) < Cardinality(Selections(log[item]))
    BY <1>1 DEF Inv, Claimed
  <2>4. ASSUME NEW i \in DOMAIN log
        PROVE  Cardinality(MadeFor(i)') <= Cardinality(Selections(log[i]))
    <3>1. CASE i = item
      BY <1>18, <2>2, <2>3, <3>1
    <3>2. CASE i # item
      BY <1>16, <3>2 DEF Inv, Claimed
    <3> QED
      BY <3>1, <3>2
  <2>5. ASSUME NEW q \in Runners, runner'[q].pc = "claimed", NEW i, i = runner'[q].item
        PROVE  Cardinality(MadeFor(i)') < Cardinality(Selections(log[i]))
    <3>1. q # r
      BY <1>7, <1>10, <2>5
    <3>2. runner'[q] = runner[q] /\ Working(q)
      BY <1>10, <2>5, <3>1 DEF Working
    <3>3. i # item
      BY <1>1, <2>5, <3>1, <3>2, OthersApart
    <3>4. Cardinality(MadeFor(i)) < Cardinality(Selections(log[i]))
      BY <2>5, <3>2 DEF Inv, Claimed
    <3> QED
      BY <1>16, <3>3, <3>4
  <2>6. \A i \in DOMAIN log' : Cardinality(MadeFor(i)') <= Cardinality(Selections(log'[i]))
    BY <1>1, <2>4
  <2>7. \A q \in Runners : runner'[q].pc = "claimed" =>
           \A i : i = runner'[q].item => Cardinality(MadeFor(i)') < Cardinality(Selections(log'[i]))
    BY <1>1, <2>5
  <2> QED
    BY <2>1, <2>6, <2>7 DEF Claimed
<1>20. OwnExperiment'
  BY <1>6, <1>7, <1>8, <1>10 DEF Inv, OwnExperiment, RunPcs
<1>21. PlacesObserved'
  BY <1>6, <1>8 DEF Inv, PlacesObserved
<1>22. \A e \in DOMAIN exps : MustBeThere(e)' = MustBeThere(e) /\ Answered(e)' = Answered(e)
  <2> SUFFICES ASSUME NEW e \in DOMAIN exps
               PROVE  MustBeThere(e)' = MustBeThere(e) /\ Answered(e)' = Answered(e)
    OBVIOUS
  <2>1. exps'[e] = exps[e] /\ e \in DOMAIN exps'
    BY <1>8
  <2>2. Answered(e)' = Answered(e)
    BY <2>1 DEF Answered
  <2>3. IsPage(e)' = IsPage(e)
    BY <2>1 DEF IsPage
  <2>4. MustBeThere(e)' = MustBeThere(e)
    BY <2>1, <2>3 DEF MustBeThere
  <2> QED
    BY <2>2, <2>4
<1>23. \A q \in Runners : runner'[q].pc \in {"looked", "ending"} => runner'[q] = runner[q]
  BY <1>7, <1>10
<1>24. ProjectsAnswers'
  <2>1. \A q \in Runners : runner[q].pc \in {"looked", "ending"} => runner[q].todo \subseteq DOMAIN exps
    BY DEF Inv, ProjectsAnswers, Answered
  <2> QED
    BY <1>1, <1>2, <1>22, <1>23, <2>1 DEF Inv, ProjectsAnswers
<1>25. ProposalsThere'
  <2>1. \A q \in Runners : runner[q].pc \in {"looked", "ending"} => runner[q].todo \subseteq DOMAIN exps
    BY DEF Inv, ProjectsAnswers, Answered
  <2> QED
    BY <1>1, <1>2, <1>22, <1>23, <2>1 DEF Inv, ProposalsThere
<1>26. CountedOnce'
  BY <1>1, <1>2, <1>8, <1>9 DEF Inv, CountedOnce
<1> QED
  BY <1>12, <1>13, <1>14, <1>15, <1>19, <1>20, <1>21, <1>24, <1>25, <1>26 DEF Inv

LEMMA WorkSteps ==
    ASSUME Inv, NEW r \in Runners, Dispatch(r) \/ Work(r) \/ Lose(r)
    PROVE  Inv'
<1> DEFINE e == runner[r].exp
<1>1. /\ runner[r].pc \in {"prepared", "dispatched"} /\ e \in DOMAIN exps
      /\ UNCHANGED <<log, session, receipts, projected, live>>
  BY DEF Dispatch, Work, Lose, Inv, OwnExperiment, RunPcs
<1>2. /\ exps \in Seq(Attempts) /\ exps[e] \in Attempts /\ runner \in [Runners -> Txs]
      /\ browser \in [Runners -> Seq(Contexts)]
  BY <1>1 DEF Inv, TypeOK
<1>3. ASSUME NEW pc \in RunPcs, runner' = [runner EXCEPT ![r].pc = pc]
      PROVE  /\ runner' \in [Runners -> Txs] /\ \A q \in Runners \ {r} : runner'[q] = runner[q]
             /\ runner'[r].pc = pc /\ runner'[r].item = runner[r].item /\ runner'[r].exp = e
  <2>1. [runner[r] EXCEPT !.pc = pc] \in Txs
    BY <1>2 DEF Txs
  <2>2. /\ [runner[r] EXCEPT !.pc = pc].pc = pc
        /\ [runner[r] EXCEPT !.pc = pc].item = runner[r].item
        /\ [runner[r] EXCEPT !.pc = pc].exp = runner[r].exp
    BY <1>2 DEF Txs
  <2>3. runner' = [runner EXCEPT ![r] = [runner[r] EXCEPT !.pc = pc]]
    BY <1>2, <1>3
  <2> QED
    BY <1>2, <2>1, <2>2, <2>3
<1>4. ASSUME NEW s \in Statuses \ {"OBSERVED"}
      PROVE  /\ [exps[e] EXCEPT !.status = s] \in Attempts
             /\ [exps[e] EXCEPT !.status = s].status = s
             /\ [exps[e] EXCEPT !.status = s].item = exps[e].item
             /\ [exps EXCEPT ![e].status = s] = [exps EXCEPT ![e] = [exps[e] EXCEPT !.status = s]]
  BY <1>1, <1>2 DEF Attempts
<1>5. {"DISPATCHING", "DENIED", "UNKNOWN"} \subseteq Statuses \ {"OBSERVED"}
  BY DEF Statuses
<1>6. CASE Dispatch(r)
  <2>1. browser' = browser
    BY <1>6 DEF Dispatch
  <2>2. \/ /\ exps' = [exps EXCEPT ![e].status = "DISPATCHING"]
           /\ runner' = [runner EXCEPT ![r].pc = "dispatched"]
        \/ /\ exps' = [exps EXCEPT ![e].status = "DENIED"]
           /\ runner' = [runner EXCEPT ![r].pc = "returned"]
    BY <1>6 DEF Dispatch, Goto
  <2> HIDE DEF e
  <2>3. PICK s \in {"DISPATCHING", "DENIED"}, pc \in {"dispatched", "returned"} :
           /\ exps' = [exps EXCEPT ![e].status = s] /\ runner' = [runner EXCEPT ![r].pc = pc]
           /\ pc = "dispatched" => s = "DISPATCHING"
    BY <2>2
  <2> DEFINE new == [exps[e] EXCEPT !.status = s]
  <2>4. /\ new \in Attempts /\ new.item = exps[e].item /\ new.status = s
        /\ exps' = [exps EXCEPT ![e] = new] /\ new.status # "OBSERVED"
    BY <1>4, <1>5, <2>3
  <2> HIDE DEF new
  <2>5. /\ runner' \in [Runners -> Txs] /\ \A q \in Runners \ {r} : runner'[q] = runner[q]
        /\ runner'[r].pc = pc /\ runner'[r].item = runner[r].item /\ runner'[r].exp = e
    BY <1>3, <2>3 DEF RunPcs
  <2>6. \/ runner'[r].pc = "dispatched" /\ new.status = "DISPATCHING"
        \/ runner'[r].pc = "returned"
    BY <2>3, <2>4, <2>5
  <2> QED
    BY <1>1, <1>2, <2>1, <2>4, <2>5, <2>6, AttemptStep DEF e
<1>7. CASE Work(r)
  <2>1. PICK a \in Answers(browser[r], e) :
           /\ exps' = [exps EXCEPT ![e].status = a.answer.status, ![e].at = a.answer.at,
                                   ![e].ref = a.answer.ref]
           /\ browser' = [browser EXCEPT ![r] = a.browser]
    BY <1>7 DEF Work
  <2>2. runner' = [runner EXCEPT ![r].pc = "returned"]
    BY <1>7 DEF Work, Goto
  <2>3. /\ a.browser \in Seq(Contexts)
        /\ a.answer.status \in {"OBSERVED", "REAUTH", "FAILED"}
        /\ a.answer.at \in Places /\ a.answer.ref \in Nat
        /\ a.answer.status = "OBSERVED" => a.answer.at \in Paths
    BY <1>1, <1>2, AnswersTypes
  <2> HIDE DEF e
  <2> DEFINE new == [exps[e] EXCEPT !.status = a.answer.status, !.at = a.answer.at,
                                    !.ref = a.answer.ref]
  <2>4. exps' = [exps EXCEPT ![e] = new]
    BY <1>1, <1>2, <2>1
  <2>5. a.answer.status \in Statuses
    BY <2>3 DEF Statuses
  <2>6. /\ new \in Attempts /\ new.item = exps[e].item
        /\ new.status = "OBSERVED" => new.at \in Paths
    BY <1>2, <2>3, <2>5 DEF Attempts
  <2> HIDE DEF new
  <2>7. browser' \in [Runners -> Seq(Contexts)]
    BY <1>2, <2>1, <2>3
  <2>8. /\ runner' \in [Runners -> Txs] /\ \A q \in Runners \ {r} : runner'[q] = runner[q]
        /\ runner'[r].pc = "returned" /\ runner'[r].item = runner[r].item /\ runner'[r].exp = e
    BY <1>3, <2>2 DEF RunPcs
  <2> QED
    BY <1>1, <2>4, <2>6, <2>7, <2>8, AttemptStep DEF e
<1>8. CASE Lose(r)
  <2>1. /\ exps' = [exps EXCEPT ![e].status = "UNKNOWN"]
        /\ browser' = [browser EXCEPT ![r] = <<>>] /\ runner' = [runner EXCEPT ![r] = Idle]
    BY <1>8 DEF Lose, EndCycle
  <2> HIDE DEF e
  <2> DEFINE new == [exps[e] EXCEPT !.status = "UNKNOWN"]
  <2>2. /\ new \in Attempts /\ new.item = exps[e].item /\ new.status # "OBSERVED"
        /\ exps' = [exps EXCEPT ![e] = new]
    BY <1>4, <1>5, <2>1
  <2> HIDE DEF new
  <2>3. <<>> \in Seq(Contexts)
    OBVIOUS
  <2>4. browser' \in [Runners -> Seq(Contexts)]
    BY <1>2, <2>1, <2>3
  <2>5. /\ runner' \in [Runners -> Txs] /\ runner'[r].pc = "idle"
        /\ \A q \in Runners \ {r} : runner'[q] = runner[q]
    BY <2>1, EndsCycle
  <2> QED
    BY <1>1, <2>2, <2>4, <2>5, AttemptStep DEF e
<1> QED
  BY <1>6, <1>7, <1>8

-----------------------------------------------------------------------------
(* The theorems.                                                           *)

LEMMA InitInv == Init => Inv
<1> SUFFICES ASSUME Init PROVE Inv
  OBVIOUS
<1>1. /\ DOMAIN log = {} /\ DOMAIN session = {} /\ exps = <<>> /\ receipts = {} /\ projected = <<>>
      /\ runner = [r \in Runners |-> Idle] /\ live = [r \in Runners |-> {}]
      /\ browser = [r \in Runners |-> <<>>]
      /\ log = [i \in {} |-> <<>>] /\ session = [i \in {} |-> NoSession]
  BY DEF Init
<1>2. \A r \in Runners : runner[r].pc = "idle" /\ ~Working(r)
  BY <1>1, IdleType DEF Working
<1>3. DOMAIN exps = {} /\ <<>> \in Seq(Contexts) /\ <<>> \in Seq(Attempts) /\ <<>> \in Seq(Nat)
  BY <1>1
<1>4. runner \in [Runners -> Txs]
  BY <1>1, IdleType
<1>5. TypeOK
  <2>1. DOMAIN log \in ItemSets
    BY <1>1, FS_EmptySet DEF ItemSets
  <2>2. log \in [DOMAIN log -> Seq(Events)] /\ session \in [DOMAIN log -> Sessions]
    BY <1>1
  <2>3. projected \in [DOMAIN exps -> Nat]
    BY <1>1, <1>3
  <2> QED
    BY <1>1, <1>3, <1>4, <2>1, <2>2, <2>3 DEF TypeOK
<1>6. Histories /\ ClaimStands /\ ClaimsApart /\ ChoiceExists
  BY <1>1, <1>2 DEF Histories, ClaimStands, ClaimsApart, ChoiceExists
<1>7. Claimed /\ OwnExperiment /\ PlacesObserved
  BY <1>1, <1>2, <1>3 DEF Claimed, OwnExperiment, PlacesObserved, RunPcs
<1>8. ProjectsAnswers /\ ProposalsThere /\ CountedOnce
  BY <1>1, <1>2, <1>3 DEF ProjectsAnswers, ProposalsThere, CountedOnce
<1> QED
  BY <1>5, <1>6, <1>7, <1>8 DEF Inv

LEMMA NextInv ==
    ASSUME Inv, [Next]_vars
    PROVE  Inv'
<1>1. CASE Next
  <2>1. PICK r \in Runners : Step(r) \/ Lose(r) \/ Crash(r) \/ LoseWorker(r)
    BY <1>1 DEF Next
  <2> QED
    BY <2>1, StartStep, QuietSteps, LookStep, ClaimStep, CloseStep, ReobserveStep, BlockStep,
       PrepareStep, WorkSteps, ReadBackStep, FinishStep DEF Step
<1>2. CASE UNCHANGED vars
  <2>1. UNCHANGED <<log, session, exps, receipts, projected, runner, live, browser>>
    BY <1>2 DEF vars, db
  <2>2. \A i : MadeFor(i)' = MadeFor(i)
    BY <2>1 DEF MadeFor
  <2>3. \A e : MustBeThere(e)' = MustBeThere(e) /\ Answered(e)' = Answered(e)
    BY <2>1 DEF MustBeThere, Answered, IsPage
  <2>4. \A r \in Runners : Working(r)' = Working(r)
    BY <2>1 DEF Working
  <2>5. TypeOK' /\ Histories' /\ ClaimStands' /\ ClaimsApart' /\ ChoiceExists'
    BY <2>1, <2>4 DEF Inv, TypeOK, Histories, ClaimStands, ClaimsApart, ChoiceExists
  <2>6. Claimed' /\ OwnExperiment' /\ PlacesObserved' /\ CountedOnce'
    BY <2>1, <2>2 DEF Inv, Claimed, OwnExperiment, PlacesObserved, CountedOnce
  <2>7. ProjectsAnswers' /\ ProposalsThere'
    BY <2>1, <2>3 DEF Inv, ProjectsAnswers, ProposalsThere
  <2> QED
    BY <2>5, <2>6, <2>7 DEF Inv
<1> QED
  BY <1>1, <1>2

THEOREM InvariantHolds == Spec => []Inv
BY InitInv, NextInv, PTL DEF Spec

\* Controllers race for the items of a run and run_cycle appends without asking
\* legal_frontier_transition, yet no history breaks LEGAL_TRANSITIONS.
THEOREM LogTheorem == Spec => []LogLegal
<1>1. Inv => LogLegal
  BY DEF Inv, Histories, LegalHistory, LogLegal
<1> QED
  BY <1>1, InvariantHolds, PTL

\* claim_frontier_selected: two controllers never work on one item, and there are
\* never more experiments for an item than claims of it, however many controllers
\* die and are replaced.
THEOREM ClaimTheorem == Spec => []ClaimRunsOnce
<1>1. Inv => ClaimRunsOnce
  BY DEF Inv, ClaimsApart, Claimed, MadeFor, ClaimRunsOnce
<1> QED
  BY <1>1, InvariantHolds, PTL

\* reconcile_missing_projections: an observation is projected by one commit, and
\* with it come the items it proposes.
THEOREM ProjectionTheorem == Spec => []ProjectedOnce
<1>1. Inv => ProjectedOnce
  <2> SUFFICES ASSUME Inv, NEW e \in DOMAIN exps
               PROVE  /\ projected[e] = IF e \in receipts THEN 1 ELSE 0
                      /\ e \in receipts =>
                            Proposed(e, {}) \ {Resolve(exps[e].at, exps[e].item.who)}
                               \subseteq DOMAIN log
    BY DEF ProjectedOnce
  <2>1. Proposed(e, {}) \ {Resolve(exps[e].at, exps[e].item.who)} \subseteq MustBeThere(e)
    BY DEF Proposed, MustBeThere
  <2> QED
    BY <2>1 DEF Inv, CountedOnce, ProposalsThere
<1> QED
  BY <1>1, InvariantHolds, PTL

-----------------------------------------------------------------------------
(* Remembered pages: their invariant, controller by controller.            *)

Shows(context, page) ==
    ~context.frozen /\ context.at = page.at /\ context.who = page.who

Shown(pages, contexts) ==
    \A p \in pages : \A i \in DOMAIN contexts : contexts[i].ref = p.ref => Shows(contexts[i], p)

RefsApart(contexts) ==
    \A i, j \in DOMAIN contexts : contexts[i].ref = contexts[j].ref => i = j

RefsOf(contexts) == {contexts[i].ref : i \in DOMAIN contexts}

Unused(ref, pages, contexts) ==
    ref \notin RefsOf(contexts) /\ \A p \in pages : p.ref # ref

\* What the controller remembers, or will once its cycle has ended.
Memory(r) ==
    IF runner[r].pc \in {"returned", "ending"} THEN LiveAfter(live[r], runner[r].exp) ELSE live[r]

\* The reference the next context will get.
Reserved(r) == IF runner[r].pc \in {"prepared", "dispatched"} THEN {runner[r].exp} ELSE {}

RefsMade(r) ==
    /\ \A i \in DOMAIN browser[r] : browser[r][i].ref \in DOMAIN exps \ Reserved(r)
    /\ \A p \in live[r] : p.ref \in DOMAIN exps \ Reserved(r)
    /\ runner[r].pc \in {"returned", "ending"} /\ IsPage(runner[r].exp) =>
          exps[runner[r].exp].ref \in DOMAIN exps

PagesKept(r) ==
    /\ Shown(Memory(r), browser[r]) /\ RefsApart(browser[r]) /\ RefsMade(r)
    /\ runner[r].pc = "ending" => ~Conflict(r)

\* What a controller remembers after an answer about item.
Remembered(pages, item, answer) ==
    IF answer.status = "OBSERVED" /\ IsBrowser(item)
    THEN {p \in pages : p.ref # answer.ref /\ (p.at # answer.at \/ p.who # item.who)}
         \cup {[at |-> answer.at, who |-> item.who, ref |-> answer.ref]}
    ELSE IF answer.status # "OBSERVED" /\ IsBrowser(item)
    THEN {p \in pages : p.who # item.who}
    ELSE pages

-----------------------------------------------------------------------------
(* Remembered pages: what the worker's answers do to them.                 *)

\* A page loaded under a new reference.
LEMMA ObserveShows ==
    ASSUME NEW contexts \in Seq(Contexts), NEW ref \in Nat, NEW item, IsBrowser(item),
           item.who \in Users, NEW carried \in Sessions, NEW path \in Paths,
           NEW outcome \in {"OBSERVED", "REAUTH", "FAILED"},
           NEW pages, RefsApart(contexts), Shown(pages, contexts),
           Unused(ref, pages, contexts)
    PROVE  LET a == Observe(contexts, ref, item.who, carried, path, outcome)
           IN /\ RefsApart(a.browser) /\ Shown(Remembered(pages, item, a.answer), a.browser)
              /\ \A i \in DOMAIN a.browser :
                    a.browser[i].ref \in RefsOf(contexts) \cup {ref}
              /\ a.answer.ref = ref
<1> DEFINE kept == Evict(contexts)
           ctx == [ref |-> ref, who |-> item.who, session |-> carried, at |-> path, frozen |-> FALSE]
           new == [ctx EXCEPT !.frozen = (outcome = "REAUTH")]
           opened == Append(kept, ctx)
           n == Len(opened)
           next == [opened EXCEPT ![n].frozen = (outcome = "REAUTH")]
           answer == Answer(outcome, opened[n])
           after == Remembered(pages, item, answer)
<1>1. PICK s \in {0, 1} :
         /\ Len(kept) \in Nat /\ kept \in Seq(Contexts)
         /\ \A i \in 1 .. Len(kept) : i + s \in DOMAIN contexts /\ kept[i] = contexts[i + s]
  <2>1. CASE Len(contexts) >= MaxContexts
    <3>1. contexts # <<>> /\ kept = Tail(contexts)
      BY <2>1, SiteAssumption DEF Evict
    <3>2. \A i \in 1 .. Len(kept) : i + 1 \in DOMAIN contexts /\ kept[i] = contexts[i + 1]
      BY <3>1
    <3> QED
      BY <3>1, <3>2
  <2>2. CASE ~(Len(contexts) >= MaxContexts)
    <3>1. kept = contexts
      BY <2>2 DEF Evict
    <3> QED
      BY <3>1
  <2> QED
    BY <2>1, <2>2
<1>2. /\ ctx.ref = ref /\ ctx.at = path
      /\ new.ref = ref /\ new.at = path /\ new.who = item.who /\ new.frozen = (outcome = "REAUTH")
  OBVIOUS
<1>3. ctx \in Contexts
  BY DEF Contexts, Places
<1>4. new = [ctx EXCEPT !.frozen = (outcome = "REAUTH")]
  OBVIOUS
<1> HIDE DEF kept, ctx, new
<1>5. /\ n = Len(kept) + 1 /\ DOMAIN next = 1 .. n /\ opened[n] = ctx
      /\ next[n] = new /\ \A i \in 1 .. Len(kept) : next[i] = kept[i]
  <2>1. /\ n = Len(kept) + 1 /\ DOMAIN opened = 1 .. n /\ opened[n] = ctx
        /\ n \in Nat /\ \A i \in 1 .. Len(kept) : opened[i] = kept[i]
    BY <1>1, <1>3
  <2> HIDE DEF opened, n
  <2> QED
    BY <1>1, <1>4, <2>1
<1>6. Observe(contexts, ref, item.who, carried, path, outcome)
        = [browser |-> next, answer |-> answer]
  BY DEF Observe, Opened, kept, ctx
<1>7. answer.status = outcome /\ answer.ref = ref /\ answer.at = path
  BY <1>2, <1>5 DEF Answer
<1> HIDE DEF new, opened, n, next, answer
<1>8. \A i \in DOMAIN next :
         \/ i = n /\ next[i] = new
         \/ i \in 1 .. Len(kept) /\ i + s \in DOMAIN contexts /\ next[i] = contexts[i + s]
  BY <1>1, <1>5
<1>9. \A i \in DOMAIN next : i # n => next[i].ref # ref
  BY <1>8 DEF Unused, RefsOf
<1>10. RefsApart(next)
  <2> SUFFICES ASSUME NEW i \in DOMAIN next, NEW j \in DOMAIN next, next[i].ref = next[j].ref
               PROVE  i = j
    BY DEF RefsApart
  <2>1. CASE i = n \/ j = n
    BY <1>2, <1>5, <1>9, <2>1
  <2>2. CASE i # n /\ j # n
    BY <1>1, <1>8, <2>2 DEF RefsApart
  <2> QED
    BY <2>1, <2>2
<1>11. \A p \in after : (p \in pages /\ p.ref # ref)
                       \/ (outcome = "OBSERVED" /\ p.ref = ref /\ p.at = path /\ p.who = item.who)
  BY <1>7 DEF Remembered, Unused
<1>12. Shown(after, next)
  <2> SUFFICES ASSUME NEW p \in after, NEW i \in DOMAIN next, next[i].ref = p.ref
               PROVE  Shows(next[i], p)
    BY DEF Shown
  <2>1. CASE i = n /\ next[i] = new
    <3>1. p.ref = ref
      BY <1>2, <2>1
    <3>2. outcome = "OBSERVED" /\ p.at = path /\ p.who = item.who
      BY <1>11, <3>1
    <3> QED
      BY <1>2, <2>1, <3>2 DEF Shows
  <2>2. CASE i + s \in DOMAIN contexts /\ next[i] = contexts[i + s]
    <3>1. p.ref # ref
      BY <2>2 DEF Unused, RefsOf
    <3> QED
      BY <1>11, <2>2, <3>1 DEF Shown
  <2> QED
    BY <1>8, <2>1, <2>2
<1>13. \A i \in DOMAIN next : next[i].ref \in RefsOf(contexts) \cup {ref}
  BY <1>2, <1>8 DEF RefsOf
<1> QED
  BY <1>6, <1>7, <1>10, <1>12, <1>13

\* A click, which leaves its context on another page, freezes it, or changes nothing.
LEMMA InteractShows ==
    ASSUME NEW contexts \in Seq(Contexts), NEW request, request.control \in Controls,
           NEW item, IsBrowser(item), request.who = item.who, NEW outcome,
           NEW pages, RefsApart(contexts), Shown(pages, contexts)
    PROVE  LET a == Interact(contexts, request, outcome)
           IN /\ RefsApart(a.browser) /\ Shown(Remembered(pages, item, a.answer), a.browser)
              /\ \A i \in DOMAIN a.browser :
                    a.browser[i].ref \in RefsOf(contexts)
              /\ a.answer.status = "OBSERVED" =>
                    a.answer.ref \in RefsOf(contexts)
<1> DEFINE leased == {i \in Lease(contexts, request) : Fresh(contexts[i], request)}
           there == LeadsTo[request.control]
           a == Interact(contexts, request, outcome)
           after == Remembered(pages, item, a.answer)
<1>1. ASSUME a.browser = contexts, a.answer.status = "FAILED"
      PROVE  /\ RefsApart(a.browser) /\ Shown(after, a.browser)
             /\ \A i \in DOMAIN a.browser :
                   a.browser[i].ref \in RefsOf(contexts)
             /\ a.answer.status # "OBSERVED"
  <2> HIDE DEF a
  <2>1. after \subseteq pages
    BY <1>1 DEF Remembered
  <2> QED
    BY <1>1, <2>1 DEF Shown, RefsOf
<1>2. CASE leased = {}
  <2>1. a = [browser |-> contexts, answer |-> Refused]
    BY <1>2 DEF Interact
  <2>2. a.browser = contexts /\ a.answer.status = "FAILED"
    BY <2>1 DEF Refused, Answer
  <2> QED
    BY <1>1, <2>2
<1>3. CASE leased # {}
  <2> DEFINE k == CHOOSE i \in leased : TRUE
             next == [contexts[k] EXCEPT !.at = there]
             cold == [contexts[k] EXCEPT !.frozen = TRUE]
  <2>1. /\ k \in DOMAIN contexts /\ contexts[k] \in Contexts
        /\ contexts[k].who = item.who /\ ~contexts[k].frozen
    BY <1>3 DEF Lease
  <2>2. a = CASE outcome = "OBSERVED" /\ there # Outside ->
                   [browser |-> [contexts EXCEPT ![k] = next], answer |-> Answer("OBSERVED", next)]
              [] outcome # "FAILED" /\ there = Outside ->
                   [browser |-> [contexts EXCEPT ![k].frozen = TRUE],
                    answer |-> Answer("REAUTH", contexts[k])]
              [] OTHER -> [browser |-> contexts, answer |-> Answer("FAILED", contexts[k])]
    BY <1>3 DEF Interact
  <2>3. there \in Places
    BY SiteAssumption DEF Places
  <2> HIDE DEF k, there, leased, a
  <2>4. /\ next.at = there /\ next.ref = contexts[k].ref /\ next.who = item.who /\ ~next.frozen
        /\ cold.ref = contexts[k].ref
    BY <2>1 DEF Contexts
  <2>5. [contexts EXCEPT ![k].frozen = TRUE] = [contexts EXCEPT ![k] = cold]
    BY <2>1
  <2> HIDE DEF next, cold
  <2>6. ASSUME NEW new, new.ref = contexts[k].ref, a.browser = [contexts EXCEPT ![k] = new]
        PROVE  /\ RefsApart(a.browser) /\ DOMAIN a.browser = DOMAIN contexts
               /\ a.browser[k] = new /\ \A i \in DOMAIN contexts \ {k} : a.browser[i] = contexts[i]
               /\ \A i \in DOMAIN a.browser : a.browser[i].ref = contexts[i].ref
    <3>1. /\ DOMAIN a.browser = DOMAIN contexts
          /\ a.browser[k] = new /\ \A i \in DOMAIN contexts \ {k} : a.browser[i] = contexts[i]
      BY <2>1, <2>6
    <3>2. \A i \in DOMAIN a.browser : a.browser[i].ref = contexts[i].ref
      BY <2>6, <3>1
    <3> QED
      BY <3>1, <3>2 DEF RefsApart
  <2>7. CASE outcome = "OBSERVED" /\ there # Outside
    <3>1. a = [browser |-> [contexts EXCEPT ![k] = next], answer |-> Answer("OBSERVED", next)]
      BY <2>2, <2>7
    <3>2. /\ a.browser = [contexts EXCEPT ![k] = next] /\ a.answer.status = "OBSERVED"
          /\ a.answer.ref = contexts[k].ref /\ a.answer.at = there
      BY <2>4, <3>1 DEF Answer
    <3>3. /\ RefsApart(a.browser) /\ DOMAIN a.browser = DOMAIN contexts
          /\ a.browser[k] = next /\ \A i \in DOMAIN contexts \ {k} : a.browser[i] = contexts[i]
          /\ \A i \in DOMAIN a.browser : a.browser[i].ref = contexts[i].ref
      BY <2>4, <2>6, <3>2
    <3>4. \A p \in after : (p \in pages /\ p.ref # contexts[k].ref)
                            \/ (p.ref = contexts[k].ref /\ p.at = there /\ p.who = item.who)
      BY <3>2 DEF Remembered
    <3>5. Shown(after, a.browser)
      <4> SUFFICES ASSUME NEW p \in after, NEW i \in DOMAIN contexts, a.browser[i].ref = p.ref
                   PROVE  Shows(a.browser[i], p)
        BY <3>3 DEF Shown
      <4>1. CASE i = k
        BY <2>4, <3>3, <3>4, <4>1 DEF Shows
      <4>2. CASE i # k
        <5>1. a.browser[i] = contexts[i] /\ contexts[i].ref # contexts[k].ref
          BY <2>1, <3>3, <4>2 DEF RefsApart
        <5> QED
          BY <3>4, <5>1 DEF Shown
      <4> QED
        BY <4>1, <4>2
    <3> QED
      BY <2>1, <3>2, <3>3, <3>5 DEF a, RefsOf
  <2>8. CASE outcome # "FAILED" /\ there = Outside
    <3>1. a = [browser |-> [contexts EXCEPT ![k] = cold], answer |-> Answer("REAUTH", contexts[k])]
      BY <2>2, <2>5, <2>8
    <3>2. a.browser = [contexts EXCEPT ![k] = cold] /\ a.answer.status = "REAUTH"
      BY <3>1 DEF Answer
    <3>3. /\ RefsApart(a.browser) /\ DOMAIN a.browser = DOMAIN contexts
          /\ \A i \in DOMAIN contexts \ {k} : a.browser[i] = contexts[i]
          /\ \A i \in DOMAIN a.browser : a.browser[i].ref = contexts[i].ref
      BY <2>4, <2>6, <3>2
    <3>4. \A p \in after : p \in pages /\ p.who # item.who
      BY <3>2 DEF Remembered
    <3>5. Shown(after, a.browser)
      <4> SUFFICES ASSUME NEW p \in after, NEW i \in DOMAIN contexts, a.browser[i].ref = p.ref
                   PROVE  Shows(a.browser[i], p)
        BY <3>3 DEF Shown
      <4>1. Shows(contexts[i], p)
        BY <3>3, <3>4 DEF Shown
      <4>2. i # k
        BY <2>1, <3>4, <4>1 DEF Shows
      <4> QED
        BY <3>3, <4>1, <4>2
    <3> QED
      BY <2>1, <3>2, <3>3, <3>5 DEF a, RefsOf
  <2>9. CASE /\ ~(outcome = "OBSERVED" /\ there # Outside)
             /\ ~(outcome # "FAILED" /\ there = Outside)
    <3>1. a = [browser |-> contexts, answer |-> Answer("FAILED", contexts[k])]
      BY <2>2, <2>9
    <3>2. a.browser = contexts /\ a.answer.status = "FAILED"
      BY <3>1 DEF Answer
    <3> QED
      BY <1>1, <3>2 DEF a
  <2> QED
    BY <2>7, <2>8, <2>9
<1> QED
  BY <1>2, <1>3

\* Any answer to the request for experiment e, whose reference no context has yet.
LEMMA AnswersShow ==
    ASSUME Inv, NEW contexts \in Seq(Contexts), NEW e \in DOMAIN exps,
           NEW a \in Answers(contexts, e), NEW pages, RefsApart(contexts), Shown(pages, contexts),
           Unused(e, pages, contexts)
    PROVE  /\ RefsApart(a.browser) /\ Shown(Remembered(pages, exps[e].item, a.answer), a.browser)
           /\ \A i \in DOMAIN a.browser :
                 a.browser[i].ref \in RefsOf(contexts) \cup {e}
           /\ a.answer.status = "OBSERVED" /\ IsBrowser(exps[e].item) =>
                 a.answer.ref \in RefsOf(contexts) \cup {e}
<1>1. exps[e] \in Attempts /\ e \in Nat
  BY DEF Inv, TypeOK
<1>2. exps[e].item \in Items /\ exps[e].session \in Sessions
  BY <1>1 DEF Attempts
<1>3. /\ exps[e].item.who \in Users /\ exps[e].item.path \in Paths
      /\ exps[e].item.goal = "INSPECT_CONTROL" => exps[e].item.what \in Controls
  BY <1>2 DEF Items
<1>4. CASE exps[e].item.goal = "INSPECT_CONTROL"
  <2>1. PICK outcome \in {"OBSERVED", "FAILED"} : a = Interact(contexts, RequestOf(e), outcome)
    BY <1>4 DEF Answers
  <2>2. RequestOf(e).control \in Controls /\ RequestOf(e).who = exps[e].item.who
    BY <1>3, <1>4 DEF RequestOf
  <2>3. IsBrowser(exps[e].item)
    BY <1>4 DEF IsBrowser
  <2> HIDE DEF RequestOf
  <2> QED
    BY <2>1, <2>2, <2>3, InteractShows
<1>5. CASE exps[e].item.goal = "CHARACTERIZE_HTTP_OPERATION"
  <2>1. PICK outcome \in {"OBSERVED", "FAILED"} :
           a = [browser |-> contexts,
                answer |-> [Refused EXCEPT !.status = outcome, !.at = exps[e].item.path]]
    BY <1>5 DEF Answers
  <2>2. a.browser = contexts /\ ~IsBrowser(exps[e].item)
    BY <1>5, <2>1 DEF IsBrowser
  <2>3. Remembered(pages, exps[e].item, a.answer) = pages
    BY <2>2 DEF Remembered
  <2> QED
    BY <2>2, <2>3 DEF RefsOf
<1>6. CASE exps[e].item.goal \notin {"INSPECT_CONTROL", "CHARACTERIZE_HTTP_OPERATION"}
  <2>1. PICK outcome \in {"OBSERVED", "REAUTH", "FAILED"} :
           a = Observe(contexts, e, exps[e].item.who, exps[e].session, exps[e].item.path, outcome)
    BY <1>6 DEF Answers
  <2>2. IsBrowser(exps[e].item)
    BY <1>6 DEF IsBrowser
  <2> DEFINE item == exps[e].item
             carried == exps[e].session
             path == exps[e].item.path
             b == Observe(contexts, e, item.who, carried, path, outcome)
  <2>3. /\ IsBrowser(item) /\ item.who \in Users /\ carried \in Sessions /\ path \in Paths
        /\ a = b
    BY <1>2, <1>3, <2>1, <2>2
  <2> HIDE DEF item, carried, path
  <2>4. /\ RefsApart(b.browser) /\ Shown(Remembered(pages, item, b.answer), b.browser)
        /\ \A i \in DOMAIN b.browser :
              b.browser[i].ref \in RefsOf(contexts) \cup {e}
        /\ b.answer.ref = e
    <3>1. outcome \in {"OBSERVED", "REAUTH", "FAILED"} /\ e \in Nat
      BY <1>1, <2>1
    <3>2. RefsApart(b.browser)
      BY <2>3, <3>1, ObserveShows
    <3>3. Shown(Remembered(pages, item, b.answer), b.browser)
      BY <2>3, <3>1, ObserveShows
    <3>4. b.answer.ref = e
      BY <2>3, <3>1, ObserveShows
    <3>5. \A i \in DOMAIN b.browser : b.browser[i].ref \in RefsOf(contexts) \cup {e}
      BY <2>3, <3>1, ObserveShows
    <3> QED
      BY <3>2, <3>3, <3>4, <3>5
  <2> QED
    BY <2>3, <2>4 DEF item
<1> QED
  BY <1>4, <1>5, <1>6

-----------------------------------------------------------------------------
(* Remembered pages: the steps of a run with one controller.               *)

\* Between cycles nothing new is remembered, and the worker at most lost its contexts.
LEMMA PagesQuiet ==
    ASSUME Inv, NEW r \in Runners, PagesKept(r), runner[r].pc \notin {"returned", "ending"},
           runner'[r].pc \notin RunPcs, live'[r] = live[r], DOMAIN exps \subseteq DOMAIN exps',
           browser'[r] = browser[r] \/ browser'[r] = <<>>
    PROVE  PagesKept(r)'
<1>1. Memory(r)' = live[r] /\ Memory(r) = live[r] /\ Reserved(r)' = {}
  BY DEF Memory, Reserved, RunPcs
<1>2. browser'[r] = browser[r] \/ DOMAIN browser'[r] = {}
  OBVIOUS
<1>3. Shown(Memory(r), browser[r])' /\ RefsApart(browser[r])'
  BY <1>1, <1>2 DEF PagesKept, Shown, RefsApart
<1>4. RefsMade(r)'
  BY <1>1, <1>2 DEF PagesKept, RefsMade, RunPcs
<1> QED
  BY <1>3, <1>4 DEF PagesKept, RunPcs

\* A controller that starts again remembers nothing and has no context.
LEMMA PagesFresh ==
    ASSUME Inv, NEW r \in Runners, live'[r] = {}, browser'[r] = <<>>, runner'[r].pc = "idle"
    PROVE  PagesKept(r)'
<1>1. Memory(r)' = {} /\ DOMAIN browser'[r] = {}
  BY DEF Memory
<1> QED
  BY <1>1 DEF PagesKept, Shown, RefsApart, RefsMade

LEMMA PagesPrepare ==
    ASSUME Inv, NEW r \in Runners, PagesKept(r), Prepare(r)
    PROVE  PagesKept(r)'
<1>1. PICK new : exps' = Append(exps, new)
  BY DEF Prepare
<1>2. /\ runner[r].pc = "claimed" /\ live' = live /\ browser' = browser
      /\ runner' = [runner EXCEPT ![r].pc = "prepared", ![r].exp = Len(exps) + 1]
  BY DEF Prepare
<1>3. exps \in Seq(Attempts) /\ runner[r] \in Txs /\ DOMAIN runner = Runners
  BY DEF Inv, TypeOK
<1>4. runner'[r].pc = "prepared" /\ runner'[r].exp = Len(exps) + 1
  BY <1>2, <1>3 DEF Txs
<1>5. DOMAIN exps = 1 .. Len(exps) /\ DOMAIN exps' = 1 .. (Len(exps) + 1) /\ Len(exps) \in Nat
  BY <1>1, <1>3
<1>6. /\ Memory(r)' = Memory(r) /\ Memory(r) = live[r]
      /\ Reserved(r)' = {Len(exps) + 1} /\ Reserved(r) = {}
  BY <1>2, <1>4 DEF Memory, Reserved
<1>7. RefsMade(r)'
  BY <1>2, <1>4, <1>5, <1>6 DEF PagesKept, RefsMade
<1> QED
  BY <1>2, <1>4, <1>6, <1>7 DEF PagesKept

LEMMA PagesDispatch ==
    ASSUME Inv, NEW r \in Runners, PagesKept(r), Dispatch(r)
    PROVE  PagesKept(r)'
<1> DEFINE e == runner[r].exp
<1>1. /\ runner[r].pc = "prepared" /\ e \in DOMAIN exps /\ live' = live /\ browser' = browser
      /\ runner[r] \in Txs /\ DOMAIN runner = Runners /\ exps[e] \in Attempts
  BY DEF Dispatch, Inv, TypeOK, OwnExperiment, RunPcs
<1>2. PICK s \in {"DISPATCHING", "DENIED"}, pc \in {"dispatched", "returned"} :
         /\ exps' = [exps EXCEPT ![e].status = s] /\ runner' = [runner EXCEPT ![r].pc = pc]
         /\ pc = "returned" => s = "DENIED"
  BY DEF Dispatch, Goto
<1>3. /\ runner'[r].pc = pc /\ runner'[r].exp = e
      /\ DOMAIN exps' = DOMAIN exps /\ exps'[e].status = s
  BY <1>1, <1>2 DEF Txs, Attempts
<1>4. Memory(r) = live[r] /\ Reserved(r) = {e} /\ e' = e
  BY <1>1, <1>3 DEF Memory, Reserved
<1> HIDE DEF e
<1>5. Memory(r)' \subseteq live[r]
  <2>1. CASE pc = "dispatched"
    BY <1>1, <1>3, <2>1 DEF Memory
  <2>2. CASE pc = "returned"
    <3>1. exps'[e].status = "DENIED" /\ Memory(r)' = LiveAfter(live[r], e)'
      BY <1>1, <1>2, <1>3, <1>4, <2>2 DEF Memory, e
    <3>2. LiveAfter(live[r], e)' \subseteq live[r]
      BY <1>1, <1>4, <3>1 DEF LiveAfter, Forget
    <3> QED
      BY <3>1, <3>2
  <2> QED
    BY <2>1, <2>2
<1>6. Shown(Memory(r), browser[r])' /\ RefsApart(browser[r])'
  BY <1>1, <1>4, <1>5 DEF PagesKept, Shown
<1>7. Reserved(r)' \subseteq {e}
  BY <1>3 DEF Reserved
<1>8. runner'[r].pc \in {"returned", "ending"} => ~IsPage(runner[r].exp)'
  BY <1>2, <1>3 DEF IsPage
<1>9. RefsMade(r)'
  BY <1>1, <1>3, <1>4, <1>7, <1>8 DEF PagesKept, RefsMade
<1> QED
  BY <1>3, <1>6, <1>9 DEF PagesKept

LEMMA PagesWork ==
    ASSUME Inv, NEW r \in Runners, PagesKept(r), Work(r)
    PROVE  PagesKept(r)'
<1> DEFINE e == runner[r].exp
<1>1. /\ runner[r].pc = "dispatched" /\ e \in DOMAIN exps /\ live' = live
      /\ runner[r] \in Txs /\ DOMAIN runner = Runners /\ exps[e] \in Attempts
      /\ browser[r] \in Seq(Contexts) /\ DOMAIN browser = Runners
  BY DEF Work, Inv, TypeOK, OwnExperiment, RunPcs
<1>2. PICK a \in Answers(browser[r], e) :
         /\ exps' = [exps EXCEPT ![e].status = a.answer.status, ![e].at = a.answer.at,
                                 ![e].ref = a.answer.ref]
         /\ browser' = [browser EXCEPT ![r] = a.browser]
  BY DEF Work
<1>3. runner' = [runner EXCEPT ![r].pc = "returned"]
  BY DEF Work, Goto
<1>4. Memory(r) = live[r] /\ Reserved(r) = {e}
  BY <1>1 DEF Memory, Reserved
<1>5. Unused(e, live[r], browser[r]) /\ RefsApart(browser[r]) /\ Shown(live[r], browser[r])
  BY <1>4 DEF PagesKept, RefsMade, Unused, RefsOf
<1> HIDE DEF e
<1>6. /\ RefsApart(a.browser) /\ Shown(Remembered(live[r], exps[e].item, a.answer), a.browser)
      /\ \A i \in DOMAIN a.browser : a.browser[i].ref \in RefsOf(browser[r]) \cup {e}
      /\ a.answer.status = "OBSERVED" /\ IsBrowser(exps[e].item) =>
            a.answer.ref \in RefsOf(browser[r]) \cup {e}
  BY <1>1, <1>5, AnswersShow
<1>7. /\ DOMAIN exps' = DOMAIN exps /\ exps'[e].item = exps[e].item
      /\ exps'[e].status = a.answer.status /\ exps'[e].at = a.answer.at
      /\ exps'[e].ref = a.answer.ref
  BY <1>1, <1>2 DEF Attempts
<1>8. runner'[r].pc = "returned" /\ runner'[r].exp = e /\ e' = e
      /\ browser'[r] = a.browser
  BY <1>1, <1>2, <1>3 DEF Txs, e
<1>9. Memory(r)' = Remembered(live[r], exps[e].item, a.answer)
  <2>1. Memory(r)' = LiveAfter(live[r], e)'
    BY <1>1, <1>8 DEF Memory, e
  <2>2. IsPage(e)' <=> a.answer.status = "OBSERVED" /\ IsBrowser(exps[e].item)
    BY <1>7, <1>8 DEF IsPage
  <2> QED
    BY <1>1, <1>7, <1>8, <2>1, <2>2 DEF LiveAfter, Remember, Forget, Remembered
<1>10. RefsOf(browser[r]) \cup {e} \subseteq DOMAIN exps
  BY <1>1, <1>4 DEF PagesKept, RefsMade, RefsOf
<1>11. Reserved(r)' = {} /\ (IsPage(runner[r].exp)' => a.answer.ref \in RefsOf(browser[r]) \cup {e})
  BY <1>6, <1>7, <1>8 DEF Reserved, IsPage
<1>12. RefsMade(r)'
  BY <1>1, <1>4, <1>6, <1>7, <1>8, <1>10, <1>11 DEF PagesKept, RefsMade
<1> QED
  BY <1>6, <1>8, <1>9, <1>12 DEF PagesKept

\* The last transaction of a cycle finds what it read: no other controller writes.
LEMMA PagesReadBack ==
    ASSUME Inv, NEW r \in Runners, PagesKept(r), ReadBack(r)
    PROVE  PagesKept(r)'
<1>1. /\ runner[r].pc = "returned" /\ UNCHANGED <<log, exps, receipts, live, browser>>
      /\ runner' = [runner EXCEPT ![r].pc = "ending", ![r].todo = Unprojected,
                                  ![r].fresh = Proposals(Unprojected)]
      /\ runner[r] \in Txs /\ DOMAIN runner = Runners
  BY DEF ReadBack, db, Inv, TypeOK
<1>2. /\ runner'[r].pc = "ending" /\ runner'[r].exp = runner[r].exp
      /\ runner'[r].todo = Unprojected /\ runner'[r].fresh = Proposals(Unprojected)
  BY <1>1 DEF Txs
<1>3. ~Conflict(r)'
  BY <1>1, <1>2 DEF Conflict, Unprojected, Proposals
<1>4. IsPage(runner[r].exp)' = IsPage(runner[r].exp)
  BY <1>1, <1>2 DEF IsPage
<1>5. Memory(r)' = Memory(r)
  BY <1>1, <1>2, <1>4 DEF Memory, LiveAfter, Remember, Forget
<1>6. RefsMade(r)'
  BY <1>1, <1>2, <1>4 DEF PagesKept, RefsMade, Reserved
<1> QED
  BY <1>1, <1>3, <1>5, <1>6 DEF PagesKept

LEMMA PagesFinish ==
    ASSUME Inv, NEW r \in Runners, PagesKept(r), Finish(r)
    PROVE  PagesKept(r)'
<1> DEFINE e == runner[r].exp
<1>1. /\ runner[r].pc = "ending" /\ ~Conflict(r) /\ e \in DOMAIN exps
      /\ DOMAIN live = Runners /\ DOMAIN runner = Runners
  BY DEF Finish, PagesKept, Inv, TypeOK, OwnExperiment, RunPcs
<1>2. /\ live' = [live EXCEPT ![r] = LiveAfter(@, e)] /\ exps' = exps /\ browser' = browser
      /\ runner' = [runner EXCEPT ![r] = Idle]
  BY <1>1 DEF Finish, EndCycle
<1>3. runner'[r].pc = "idle" /\ live'[r] = Memory(r)
  BY <1>1, <1>2, IdleType DEF Memory
<1>4. Memory(r)' = Memory(r) /\ Reserved(r)' = {} /\ Reserved(r) = {}
  BY <1>1, <1>3 DEF Memory, Reserved
<1>5. \A p \in Memory(r) : p \in live[r] \/ (IsPage(e) /\ p.ref = exps[e].ref)
  BY <1>1 DEF Memory, LiveAfter, Remember, Forget
<1>6. RefsMade(r)'
  BY <1>1, <1>2, <1>3, <1>4, <1>5 DEF PagesKept, RefsMade
<1> QED
  BY <1>2, <1>3, <1>4, <1>6 DEF PagesKept

LEMMA PagesStep ==
    ASSUME Inv, [Next]_vars, NEW r \in Runners, \A q \in Runners : q = r, PagesKept(r)
    PROVE  PagesKept(r)'
<1>1. /\ runner \in [Runners -> Txs] /\ DOMAIN live = Runners /\ DOMAIN browser = Runners
  BY DEF Inv, TypeOK
<1>2. Idle.pc = "idle"
  BY IdleType
<1>3. CASE Start(r) \/ StopInDoubt(r)
  BY <1>3, PagesQuiet DEF Start, StopInDoubt, RunPcs
<1>4. CASE Look(r)
  <2>1. runner[r].pc = "idle" /\ UNCHANGED <<exps, live, browser>>
    BY <1>4 DEF Look, db
  <2>2. PICK tx : tx.pc = "looked" /\ runner' = [runner EXCEPT ![r] = tx]
    <3> DEFINE todo == Unprojected
               fresh == Proposals(todo)
               base == [runner[r] EXCEPT !.pc = "looked", !.todo = todo, !.fresh = fresh]
    <3>1. \/ \E reason : runner' = [runner EXCEPT ![r] = [base EXCEPT !.next = reason]]
          \/ \E i : runner' = [runner EXCEPT ![r] = [base EXCEPT !.item = i]]
      BY <1>4 DEF Look
    <3>2. runner[r] \in Txs
      BY <1>1
    <3> HIDE DEF todo, fresh
    <3>3. \A x : [base EXCEPT !.next = x].pc = "looked" /\ [base EXCEPT !.item = x].pc = "looked"
      BY <3>2 DEF Txs
    <3> HIDE DEF base
    <3> QED
      BY <3>1, <3>3
  <2>3. runner'[r].pc = "looked"
    BY <1>1, <2>2
  <2> QED
    BY <2>1, <2>3, PagesQuiet DEF RunPcs
<1>5. CASE Claim(r)
  <2>1. runner[r].pc = "looked" /\ UNCHANGED <<exps, live, browser>>
    BY <1>5 DEF Claim, Abort, db
  <2>2. runner' = [runner EXCEPT ![r] = Idle] \/ runner' = [runner EXCEPT ![r].pc = "claimed"]
    BY <1>5 DEF Claim, Abort, Goto
  <2>3. runner'[r].pc \in {"idle", "claimed"}
    BY <1>1, <1>2, <2>2 DEF Txs
  <2> QED
    BY <2>1, <2>3, PagesQuiet DEF RunPcs
<1>6. CASE Close(r) \/ Reobserve(r) \/ Block(r) \/ Lose(r)
  <2>1. runner[r].pc \in {"looked", "claimed", "dispatched"} /\ live' = live
    BY <1>6 DEF Close, Reobserve, Block, Lose
  <2>2. browser' = browser \/ browser' = [browser EXCEPT ![r] = <<>>]
    BY <1>6 DEF Close, Reobserve, Block, Lose
  <2>3. runner' = [runner EXCEPT ![r] = Idle]
    BY <1>6 DEF Close, Reobserve, Block, Lose, EndCycle, Abort
  <2>4. exps' = exps \/ \E x : exps' = [exps EXCEPT ![runner[r].exp].status = x]
    BY <1>6 DEF Close, Reobserve, Block, Lose, db
  <2>5. /\ runner'[r].pc = "idle" /\ DOMAIN exps' = DOMAIN exps
        /\ browser'[r] = browser[r] \/ browser'[r] = <<>>
    BY <1>1, <1>2, <2>2, <2>3, <2>4
  <2> QED
    BY <2>1, <2>5, PagesQuiet DEF RunPcs
<1>7. CASE Crash(r)
  <2>1. live'[r] = {} /\ browser'[r] = <<>> /\ runner'[r].pc = "idle"
    BY <1>1, <1>2, <1>7 DEF Crash
  <2> QED
    BY <2>1, PagesFresh
<1>8. CASE LoseWorker(r)
  <2>1. /\ UNCHANGED <<log, exps, receipts, runner, live>> /\ browser'[r] = <<>>
    BY <1>1, <1>8 DEF LoseWorker, db
  <2>2. Conflict(r)' = Conflict(r) /\ DOMAIN browser'[r] = {} /\ Reserved(r)' = Reserved(r)
    BY <2>1 DEF Conflict, Reserved
  <2>3. IsPage(runner[r].exp)' = IsPage(runner[r].exp)
    BY <2>1 DEF IsPage
  <2> QED
    BY <2>1, <2>2, <2>3 DEF PagesKept, Shown, RefsApart, RefsMade
<1>9. CASE UNCHANGED vars
  <2>1. UNCHANGED <<log, exps, receipts, runner, live, browser>>
    BY <1>9 DEF vars, db
  <2>2. /\ Conflict(r)' = Conflict(r) /\ Reserved(r)' = Reserved(r)
        /\ IsPage(runner[r].exp)' = IsPage(runner[r].exp)
    BY <2>1 DEF Conflict, Reserved, IsPage
  <2>3. Memory(r)' = Memory(r)
    BY <2>1, <2>2 DEF Memory, LiveAfter, Remember, Forget
  <2> QED
    BY <2>1, <2>2, <2>3 DEF PagesKept, RefsMade
<1>10. CASE Next
  <2>1. Step(r) \/ Lose(r) \/ Crash(r) \/ LoseWorker(r)
    BY <1>10 DEF Next
  <2> QED
    BY <2>1, <1>3, <1>4, <1>5, <1>6, <1>7, <1>8, PagesPrepare, PagesDispatch, PagesWork,
       PagesReadBack, PagesFinish DEF Step
<1> QED
  BY <1>9, <1>10

\* Where one controller runs the discovery of a run, no click goes to a page its
\* context has left, whatever the worker evicts, navigates, freezes or loses
\* (_remember_live_page, _drop_live_pages, _evict_oldest_runtime).  With two, a
\* commit that conflicts leaves the memory behind the worker.
THEOREM RememberedPageTheorem ==
    ASSUME NEW r \in Runners, \A q \in Runners : q = r
    PROVE  Spec => []RememberedPageIsShown
<1>1. Init => PagesKept(r)
  <2> SUFFICES ASSUME Init PROVE PagesKept(r)
    OBVIOUS
  <2>1. runner[r].pc = "idle" /\ live[r] = {} /\ DOMAIN browser[r] = {}
    BY IdleType DEF Init
  <2> QED
    BY <2>1 DEF PagesKept, Shown, RefsApart, RefsMade, Memory
<1>2. Inv /\ PagesKept(r) /\ [Next]_vars => PagesKept(r)'
  BY PagesStep
<1>3. PagesKept(r) => RememberedPageIsShown
  <2>1. \A q \in Runners : q = r
    OBVIOUS
  <2> QED
    BY <2>1 DEF PagesKept, Shown, Shows, Memory, RememberedPageIsShown
<1> QED
  BY <1>1, <1>2, <1>3, InvariantHolds, PTL DEF Spec
=============================================================================
