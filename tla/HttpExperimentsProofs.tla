----------------------- MODULE HttpExperimentsProofs -----------------------
(***************************************************************************)
(* Login sessions and probes, for any processes, plans and targets: the     *)
(* credentials of a session are sent at most once, a cookie goes where it   *)
(* came from, and a missing check is concluded only where one was missing.  *)
(***************************************************************************)
EXTENDS HttpExperiments, TLAPS

-----------------------------------------------------------------------------
(* Types, as far as the theorems need them.                                *)

Pcs == {"idle", "authorizing", "authorized", "loaded", "running", "answered", "recorded",
        "ingesting"}
Rows == {[run |-> Plan[e].run, identity |-> Plan[e].identity, origin |-> Plan[e].origin,
          state |-> state] : e \in Experiments, state \in SessionState}
Cookies == {CookieFor(Plan[e]) : e \in Experiments}
Secrets == {None, "password"} \cup Cookies

Requests == UNION {{Planned(Plan[e])[i] : i \in 1 .. Len(Planned(Plan[e]))} : e \in Experiments}
Keys == {"login", "transaction", "owner_request", "cross_object_request", "secure_control",
         "unauthenticated_control", "pre_state_request", "control_request",
         "transition_request", "post_state_request"}
Targets == [reader: BOOLEAN, delegated: BOOLEAN, state: {"DRAFT", "UNDER_REVIEW", "APPROVED"},
            approvedBy: {None, "a", "reviewer"}, flaws: SUBSET {"reads", "approvals"}]
Responses == {Response(t, r) : t \in Targets, r \in Requests}
             \cup [status: {200, 401}, cookie: {None} \cup Cookies]
             \cup [status: {200, 401, 403}]
AnswerSets == UNION {[K -> Responses] : K \in SUBSET Keys}

Calls == [pc: Pcs, attempt: AttemptIds \cup {None}, envelope: BOOLEAN, secret: Secrets,
          step: 1 .. 5, answers: AnswerSets,
          status: ResultStatuses \cup {None, ""},
          seen: {None, "ACTIVE", "FAILED", "EXPIRED"}]

TypeOK ==
    /\ attempts \in [AttemptIds -> {"NONE", "AUTHORIZED", "DISPATCHING", "ENDED"}]
    /\ sessions \in [SessionIds -> Rows \cup {None}]
    /\ secrets \in [Processes -> [SessionIds -> {None} \cup Cookies]]
    /\ call \in [Processes -> Calls]
    /\ target \in Targets
    /\ logins \in [SessionIds -> Nat]

-----------------------------------------------------------------------------
(* The invariant.                                                          *)

LogsIn(plan) == plan.capability = "http.authentication"

\* A call that may still send the credentials of session s.
MaySend(c, s) ==
    /\ c.pc \in {"authorized", "loaded", "running"} /\ c.envelope
    /\ LogsIn(PlanOf(c.attempt)) /\ PlanOf(c.attempt).session = s /\ c.step = 1

\* The row of a login has what its plan says of it.
RowMatches(plan) ==
    /\ sessions[plan.session] # None
    /\ sessions[plan.session].run = plan.run
    /\ sessions[plan.session].identity = plan.identity
    /\ sessions[plan.session].origin = plan.origin

CookieOf(s) ==
    [session |-> s, run |-> sessions[s].run, identity |-> sessions[s].identity,
     origin |-> sessions[s].origin]

\* Before its row there is nobody who logs in; afterwards at most one who has not yet.
Logins ==
    /\ LoginSentOnce
    /\ \A s \in SessionIds : sessions[s] = None => logins[s] = 0
    /\ \A s \in SessionIds, p \in Processes :
          MaySend(call[p], s) =>
            /\ logins[s] = 0 /\ sessions[s] # None
            /\ \A q \in Processes : MaySend(call[q], s) => q = p

\* An attempt to log in has the row it inserted, and so has whoever takes it up.
LoginRows ==
    \A a \in AttemptIds : attempts[a] # "NONE" /\ LogsIn(PlanOf(a)) =>
        sessions[PlanOf(a).session] # None

\* Only an authorization of its own gives a call the envelope; it has an attempt then.
Authorized(c) ==
    IF c.pc \in {"idle", "authorizing"} THEN ~c.envelope ELSE attempts[c.attempt] # "NONE"

\* What a call has read and resolved belongs to its plan.
Matches(c) ==
    LET plan == PlanOf(c.attempt) IN
    /\ c.attempt \in AttemptIds
    /\ c.pc \in {"authorizing", "authorized", "loaded"} => c.step = 1 /\ DOMAIN c.answers = {}
    /\ LogsIn(plan) /\ c.envelope => RowMatches(plan)
    /\ LogsIn(plan) => c.step = 1 \/ "login" \in DOMAIN c.answers
    /\ LogsIn(plan) /\ "login" \in DOMAIN c.answers =>
          c.envelope /\ c.answers["login"].cookie \in {None, CookieFor(plan)}
    /\ c.pc \in {"answered", "recorded", "ingesting"} /\ c.status = "SUCCEEDED" =>
          c.step > Len(Planned(plan))
    /\ plan.capability = "http.transaction" => c.secret \in {None, CookieFor(plan)}
    /\ c.pc = "ingesting" /\ c.seen # None =>
          plan.session \in SessionIds /\ sessions[plan.session] # None

CallsMatch ==
    \A p \in Processes : Authorized(call[p]) /\ (call[p].pc # "idle" => Matches(call[p]))

\* The cookies of a process are those of the rows.
SecretsMatch ==
    \A p \in Processes, s \in SessionIds :
        secrets[p][s] # None => sessions[s] # None /\ secrets[p][s] = CookieOf(s)

Inv ==
    /\ TypeOK /\ Logins /\ LoginRows /\ CallsMatch /\ SecretsMatch
    /\ CookieOfItsOwn

-----------------------------------------------------------------------------
(* Lemmas.                                                                 *)

LEMMA PlanIs ==
    ASSUME NEW a \in AttemptIds
    PROVE  /\ a[1] \in Experiments /\ PlanOf(a) = Plan[a[1]]
           /\ PlanOf(a).capability \in HTTP_SCOPE_CAPABILITIES
           /\ PlanOf(a).session # None => PlanOf(a).session \in SessionIds
           /\ LogsIn(PlanOf(a)) => PlanOf(a).session # None
           /\ CookieFor(PlanOf(a)) \in Cookies
<1>1. a[1] \in Experiments /\ PlanOf(a) = Plan[a[1]]
  BY DEF AttemptIds, PlanOf
<1>2. /\ Plan[a[1]].capability \in HTTP_SCOPE_CAPABILITIES
      /\ Plan[a[1]].capability = "http.authentication" => Plan[a[1]].session # None
  BY <1>1, HttpAssumption
<1> QED
  BY <1>1, <1>2 DEF LogsIn, SessionIds, Cookies

LEMMA NoCallIs ==
    /\ NoCall \in Calls /\ NoCall.pc = "idle" /\ NoCall.step = 1 /\ DOMAIN NoCall.answers = {}
    /\ ~NoCall.envelope /\ NoCall.secret = None
<1>1. <<>> \in AnswerSets
  <2>1. <<>> \in [{} -> Responses]
    OBVIOUS
  <2> QED
    BY <2>1 DEF AnswerSets
<1>2. DOMAIN <<>> = {}
  OBVIOUS
<1> QED
  BY <1>1, <1>2 DEF NoCall, Calls, Pcs, Secrets, ResultStatuses

\* Rows of sessions keep what they say, but for their state.
SameRows ==
    /\ sessions' \in [SessionIds -> Rows \cup {None}]
    /\ \A s \in SessionIds :
          /\ sessions'[s] = None <=> sessions[s] = None
          /\ sessions[s] # None => /\ sessions'[s].run = sessions[s].run
                                   /\ sessions'[s].identity = sessions[s].identity
                                   /\ sessions'[s].origin = sessions[s].origin

SameAttempts ==
    /\ attempts' \in [AttemptIds -> {"NONE", "AUTHORIZED", "DISPATCHING", "ENDED"}]
    /\ \A a \in AttemptIds : attempts'[a] = "NONE" <=> attempts[a] = "NONE"

\* What a call may become without sending credentials.
Follows(old, new) ==
    \/ new = old
    \/ /\ Authorized(new)
       /\ new.pc # "idle" => Matches(new)
       /\ \A s \in SessionIds : MaySend(new, s) => MaySend(old, s)

LEMMA RowsMatch ==
    ASSUME SameRows, NEW plan, plan.session \in SessionIds, RowMatches(plan)
    PROVE  RowMatches(plan)'
BY DEF SameRows, RowMatches

LEMMA StillMatches ==
    ASSUME SameRows, NEW c, Matches(c)
    PROVE  Matches(c)'
<1>1. LogsIn(PlanOf(c.attempt)) => PlanOf(c.attempt).session \in SessionIds
  BY PlanIs DEF Matches
<1>2. LogsIn(PlanOf(c.attempt)) /\ c.envelope => RowMatches(PlanOf(c.attempt))'
  BY <1>1, RowsMatch DEF Matches
<1>3. c.pc = "ingesting" /\ c.seen # None =>
        /\ PlanOf(c.attempt).session \in SessionIds
        /\ sessions'[PlanOf(c.attempt).session] # None
  BY DEF Matches, SameRows
<1> QED
  BY <1>2, <1>3 DEF Matches

LEMMA StillAuthorized ==
    ASSUME SameAttempts, NEW c, Authorized(c), c.pc # "idle" => c.attempt \in AttemptIds
    PROVE  Authorized(c)'
BY DEF Authorized, SameAttempts

\* A step that neither inserts a session nor sends credentials.
LEMMA StepKeeps ==
    ASSUME Inv, SameRows, SameAttempts, logins' = logins, target' \in Targets,
           call' \in [Processes -> Calls],
           \A p \in Processes : Follows(call[p], call'[p]),
           secrets' \in [Processes -> [SessionIds -> {None} \cup Cookies]],
           \A p \in Processes, s \in SessionIds :
              secrets'[p][s] # None => sessions[s] # None /\ secrets'[p][s] = CookieOf(s),
           CookieOfItsOwn'
    PROVE  Inv'
<1>1. TypeOK'
  BY DEF Inv, TypeOK, SameRows, SameAttempts
<1>2. Logins'
  <2>1. ASSUME NEW p \in Processes, NEW s \in SessionIds, MaySend(call'[p], s)
        PROVE  MaySend(call[p], s)
    BY <2>1 DEF Follows
  <2>2. \A s \in SessionIds : sessions'[s] = None <=> sessions[s] = None
    BY DEF SameRows
  <2>3. LoginSentOnce'
    BY DEF Inv, Logins, LoginSentOnce
  <2>4. \A s \in SessionIds : sessions'[s] = None => logins'[s] = 0
    BY <2>2 DEF Inv, Logins
  <2>5. \A s \in SessionIds, p \in Processes :
          MaySend(call'[p], s) =>
            /\ logins'[s] = 0 /\ sessions'[s] # None
            /\ \A q \in Processes : MaySend(call'[q], s) => q = p
    BY <2>1, <2>2 DEF Inv, Logins
  <2> QED
    BY <2>3, <2>4, <2>5 DEF Logins, MaySend, LogsIn
<1>3. LoginRows'
  <2> SUFFICES ASSUME NEW a \in AttemptIds, attempts'[a] # "NONE", LogsIn(PlanOf(a))
               PROVE  sessions'[PlanOf(a).session] # None
    BY DEF LoginRows, LogsIn
  <2> QED
    BY PlanIs DEF SameRows, SameAttempts, Inv, LoginRows
<1>4. CallsMatch'
  <2> SUFFICES ASSUME NEW p \in Processes, NEW c, c = call'[p]
               PROVE  Authorized(c)' /\ (c.pc # "idle" => Matches(c)')
    BY DEF CallsMatch, Authorized, Matches, LogsIn, RowMatches
  <2>1. Authorized(c) /\ (c.pc # "idle" => Matches(c))
    BY DEF Follows, Inv, CallsMatch
  <2>2. c.pc # "idle" => c.attempt \in AttemptIds
    BY <2>1 DEF Matches
  <2> QED
    BY <2>1, <2>2, StillMatches, StillAuthorized
<1>5. SecretsMatch'
  <2>1. ASSUME NEW s \in SessionIds, sessions[s] # None
        PROVE  sessions'[s] # None /\ CookieOf(s)' = CookieOf(s)
    BY <2>1 DEF SameRows, CookieOf
  <2>2. \A p \in Processes, s \in SessionIds :
          secrets'[p][s] # None => sessions'[s] # None /\ secrets'[p][s] = CookieOf(s)'
    BY <2>1
  <2> QED
    BY <2>2 DEF SecretsMatch, CookieOf
<1> QED
  BY <1>1, <1>2, <1>3, <1>4, <1>5 DEF Inv

LEMMA SameRowsIs == TypeOK /\ UNCHANGED sessions => SameRows
BY DEF TypeOK, SameRows

LEMMA SameAttemptsIs == TypeOK /\ UNCHANGED attempts => SameAttempts
BY DEF TypeOK, SameAttempts

\* Only a call, and the states of attempts, change.
LEMMA CallStep ==
    ASSUME Inv, NEW p \in Processes, NEW c \in Calls, call' = [call EXCEPT ![p] = c],
           Follows(call[p], c), SameAttempts, UNCHANGED <<sessions, secrets, logins, carried>>,
           target' \in Targets
    PROVE  Inv'
<1>1. call' \in [Processes -> Calls]
  BY DEF Inv, TypeOK
<1>2. \A q \in Processes : Follows(call[q], call'[q])
  <2>1. call \in [Processes -> Calls]
    BY DEF Inv, TypeOK
  <2> QED
    BY <2>1 DEF Follows
<1>3. SameRows
  BY SameRowsIs DEF Inv
<1>4. secrets' \in [Processes -> [SessionIds -> {None} \cup Cookies]]
  BY DEF Inv, TypeOK
<1>5. \A q \in Processes, s \in SessionIds :
        secrets'[q][s] # None => sessions[s] # None /\ secrets'[q][s] = CookieOf(s)
  BY DEF Inv, SecretsMatch
<1>6. CookieOfItsOwn'
  BY DEF Inv, CookieOfItsOwn
<1> QED
  BY <1>1, <1>2, <1>3, <1>4, <1>5, <1>6, StepKeeps

LEMMA NoCallFollows == \A old : Follows(old, NoCall)
BY NoCallIs DEF Follows, Authorized, MaySend

\* A call ends.
LEMMA ReturnStep ==
    ASSUME Inv, NEW p \in Processes, Return(p), SameAttempts,
           UNCHANGED <<sessions, secrets, logins, carried, target>>
    PROVE  Inv'
<1>1. call' = [call EXCEPT ![p] = NoCall] /\ target' \in Targets
  BY DEF Return, Go, Inv, TypeOK
<1> QED
  BY <1>1, NoCallFollows, NoCallIs, CallStep

-----------------------------------------------------------------------------
(* The steps that only move a call.                                        *)

LEMMA CallIs ==
    ASSUME Inv, NEW p \in Processes
    PROVE  /\ call[p] \in Calls /\ Authorized(call[p])
           /\ call[p].pc # "idle" => Matches(call[p]) /\ call[p].attempt \in AttemptIds
BY DEF Inv, TypeOK, CallsMatch, Matches

Started == Pcs \ {"idle", "authorizing"}

LEMMA AttemptMoves ==
    ASSUME Inv, NEW p \in Processes, call[p].pc \in Started,
           NEW state \in {"AUTHORIZED", "DISPATCHING", "ENDED"},
           attempts' = [attempts EXCEPT ![call[p].attempt] = state]
    PROVE  SameAttempts
<1>1. call[p].attempt \in AttemptIds /\ attempts[call[p].attempt] # "NONE"
  BY CallIs DEF Authorized, Started
<1> QED
  BY <1>1 DEF Inv, TypeOK, SameAttempts

LEMMA ReturnSteps ==
    ASSUME Inv, NEW p \in Processes,
           \/ RejectInput(p) \/ DenyExecution(p) \/ InsertConflicts(p) \/ DenyDispatch(p)
           \/ LoseWorker(p) \/ LoseOutcome(p) \/ AlreadyIngested(p) \/ RollBackIngest(p)
    PROVE  Inv'
<1>1. Return(p)
  BY DEF RejectInput, DenyExecution, InsertConflicts, DenyDispatch, LoseWorker, LoseOutcome,
         AlreadyIngested, RollBackIngest
<1>2. UNCHANGED <<sessions, secrets, logins, carried, target>>
  BY DEF RejectInput, DenyExecution, InsertConflicts, DenyDispatch, LoseWorker, LoseOutcome,
         AlreadyIngested, RollBackIngest, rows, world
<1>3. SameAttempts
  <2>1. CASE LoseWorker(p)
    BY <2>1, AttemptMoves DEF LoseWorker, At, Started, Pcs
  <2>2. CASE ~LoseWorker(p)
    <3>1. UNCHANGED attempts
      BY <2>2 DEF RejectInput, DenyExecution, InsertConflicts, DenyDispatch, LoseOutcome,
                  AlreadyIngested, RollBackIngest, rows
    <3> QED
      BY <3>1, SameAttemptsIs DEF Inv
  <2> QED
    BY <2>1, <2>2
<1> QED
  BY <1>1, <1>2, <1>3, ReturnStep

LEMMA StartStep ==
    ASSUME Inv, NEW p \in Processes,
           \/ \E e \in Experiments : StartExecute(p, e)
           \/ \E a \in AttemptIds : ResumeAuthorized(p, a)
    PROVE  Inv'
<1>1. /\ UNCHANGED <<attempts, sessions, secrets, logins, carried, target>>
      /\ \E pc \in {"authorizing", "authorized"}, a \in AttemptIds :
           /\ pc = "authorized" => attempts[a] # "NONE"
           /\ call' = [call EXCEPT ![p] = [NoCall EXCEPT !.pc = pc, !.attempt = a]]
  <2>1. CASE \E e \in Experiments : StartExecute(p, e)
    <3>1. PICK e \in Experiments : StartExecute(p, e)
      BY <2>1
    <3>2. <<e, p>> \in AttemptIds
      BY DEF AttemptIds
    <3> QED
      BY <3>1, <3>2 DEF StartExecute, Go, rows, world
  <2>2. CASE \E a \in AttemptIds : ResumeAuthorized(p, a)
    <3>1. PICK a \in AttemptIds : ResumeAuthorized(p, a)
      BY <2>2
    <3> QED
      BY <3>1 DEF ResumeAuthorized, Go, rows, world
  <2> QED
    BY <2>1, <2>2
<1>2. PICK pc \in {"authorizing", "authorized"}, a \in AttemptIds :
        /\ pc = "authorized" => attempts[a] # "NONE"
        /\ call' = [call EXCEPT ![p] = [NoCall EXCEPT !.pc = pc, !.attempt = a]]
  BY <1>1
<1> DEFINE c == [NoCall EXCEPT !.pc = pc, !.attempt = a]
<1>3. /\ c \in Calls /\ c.pc = pc /\ c.attempt = a /\ c.step = 1 /\ DOMAIN c.answers = {}
      /\ ~c.envelope /\ c.secret = None
  BY NoCallIs DEF Calls, Pcs
<1> HIDE DEF c
<1>4. Follows(call[p], c)
  <2>1. Authorized(c)
    BY <1>2, <1>3 DEF Authorized
  <2>2. Matches(c)
    BY <1>2, <1>3 DEF Matches
  <2> QED
    BY <1>3, <2>1, <2>2 DEF Follows, MaySend
<1>5. SameAttempts /\ target' \in Targets
  BY <1>1, SameAttemptsIs DEF Inv, TypeOK
<1> QED
  BY <1>1, <1>2, <1>3, <1>4, <1>5, CallStep DEF c

\* A call goes on, with what it has read.
LEMMA Moves ==
    ASSUME NEW old \in Calls, Authorized(old), Matches(old), old.pc \in Started,
           NEW pc \in Started,
           NEW status \in ResultStatuses \cup {None, ""},
           NEW seen \in {None, "ACTIVE", "FAILED", "EXPIRED"},
           pc \in {"authorized", "loaded", "running"} => old.pc \in {"authorized", "loaded", "running"},
           pc \in {"authorized", "loaded"} => old.pc \in {"authorized", "loaded"},
           pc \in {"answered", "recorded", "ingesting"} /\ status = "SUCCEEDED" =>
              old.step > Len(Planned(PlanOf(old.attempt))),
           pc = "ingesting" /\ seen # None =>
              /\ PlanOf(old.attempt).session \in SessionIds
              /\ sessions[PlanOf(old.attempt).session] # None
    PROVE  LET new == [old EXCEPT !.pc = pc, !.status = status, !.seen = seen]
           IN new \in Calls /\ Follows(old, new)
<1> DEFINE new == [old EXCEPT !.pc = pc, !.status = status, !.seen = seen]
<1>1. /\ new \in Calls /\ new.pc = pc /\ new.status = status /\ new.attempt = old.attempt
      /\ new.envelope = old.envelope /\ new.secret = old.secret /\ new.step = old.step
      /\ new.answers = old.answers /\ new.seen = seen
  BY DEF Calls, Started, Pcs
<1> HIDE DEF new
<1>2. Authorized(new)
  BY <1>1 DEF Authorized, Started
<1>3. Matches(new)
  BY <1>1 DEF Matches, Started
<1>4. \A s \in SessionIds : MaySend(new, s) => MaySend(old, s)
  BY <1>1 DEF MaySend
<1> QED
  BY <1>1, <1>2, <1>3, <1>4 DEF Follows, new

LEMMA MoveStep ==
    ASSUME Inv, NEW p \in Processes, SameAttempts,
           UNCHANGED <<sessions, secrets, logins, carried, target>>,
           call[p].pc \in Started, NEW pc \in Started \ {"ingesting"},
           NEW status \in ResultStatuses \cup {None, ""},
           pc \in {"authorized", "loaded", "running"} =>
              call[p].pc \in {"authorized", "loaded", "running"},
           pc \in {"authorized", "loaded"} => call[p].pc \in {"authorized", "loaded"},
           pc \in {"answered", "recorded", "ingesting"} /\ status = "SUCCEEDED" =>
              call[p].step > Len(Planned(PlanOf(call[p].attempt))),
           call' = [call EXCEPT ![p] = [call[p] EXCEPT !.pc = pc, !.status = status]]
    PROVE  Inv'
<1> DEFINE old == call[p]
           seen == old.seen
           new == [old EXCEPT !.pc = pc, !.status = status, !.seen = seen]
<1>1. old \in Calls /\ Authorized(old) /\ Matches(old)
  BY CallIs DEF Started
<1>2. seen \in {None, "ACTIVE", "FAILED", "EXPIRED"}
  BY <1>1 DEF Calls
<1>3. [call[p] EXCEPT !.pc = pc, !.status = status] = new
  BY <1>1 DEF Calls
<1> HIDE DEF seen
<1>4. new \in Calls /\ Follows(old, new)
  BY <1>1, <1>2, Moves
<1>5. target' \in Targets
  BY DEF Inv, TypeOK
<1> QED
  BY <1>3, <1>4, <1>5, CallStep

LEMMA PlannedIs ==
    ASSUME NEW a \in AttemptIds
    PROVE  /\ Len(Planned(PlanOf(a))) \in {1, 4}
           /\ LogsIn(PlanOf(a)) => Len(Planned(PlanOf(a))) = 1
           /\ \A i \in 1 .. Len(Planned(PlanOf(a))) :
                /\ Planned(PlanOf(a))[i] \in Requests /\ Planned(PlanOf(a))[i].key \in Keys
                /\ Planned(PlanOf(a))[i].key = "login" => LogsIn(PlanOf(a)) /\ i = 1
                /\ LogsIn(PlanOf(a)) => Planned(PlanOf(a))[i].key = "login"
                /\ Planned(PlanOf(a))[i].key = "transaction" =>
                     PlanOf(a).capability = "http.transaction"
<1> DEFINE plan == PlanOf(a)
           planned == Planned(plan)
<1>1. a[1] \in Experiments /\ plan = Plan[a[1]] /\ plan.capability \in HTTP_SCOPE_CAPABILITIES
  BY PlanIs
<1>2. \A i \in 1 .. Len(planned) : planned[i] \in Requests
  BY <1>1 DEF Requests
<1> HIDE DEF plan
<1>3. CASE plan.capability = "http.authentication"
  <2>1. planned = <<Request("login", "POST", "login")>>
    BY <1>3 DEF Planned
  <2>2. Len(planned) = 1 /\ planned[1].key = "login"
    BY <2>1 DEF Request
  <2>3. \A i \in 1 .. Len(planned) : i = 1
    BY <2>2
  <2> QED
    BY <1>2, <1>3, <2>2, <2>3 DEF LogsIn, Keys, plan
<1>4. CASE plan.capability = "http.transaction"
  <2>1. planned = <<Request("transaction", "GET", "page")>>
    BY <1>4 DEF Planned
  <2>2. Len(planned) = 1 /\ planned[1].key = "transaction"
    BY <2>1 DEF Request
  <2>3. \A i \in 1 .. Len(planned) : i = 1
    BY <2>2
  <2> QED
    BY <1>2, <1>4, <2>2, <2>3 DEF LogsIn, Keys, plan
<1>5. CASE plan.capability = "http.authorization.differential"
  <2>1. planned = PlannedDifferential(plan.mode)
    BY <1>5 DEF Planned
  <2>2. /\ Len(planned) = 4 /\ planned[1].key = "owner_request"
        /\ planned[2].key = "cross_object_request" /\ planned[3].key = "secure_control"
        /\ planned[4].key = "unauthenticated_control"
    BY <2>1 DEF PlannedDifferential, Request
  <2>3. \A i \in 1 .. Len(planned) : i \in {1, 2, 3, 4}
    BY <2>2
  <2>4. \A i \in 1 .. Len(planned) :
          planned[i].key \in Keys /\ planned[i].key \notin {"login", "transaction"}
    BY <2>2, <2>3 DEF Keys
  <2> QED
    BY <1>2, <1>5, <2>2, <2>4 DEF LogsIn, plan
<1>6. CASE plan.capability = "http.state_transition"
  <2>1. planned = PlannedTransition
    BY <1>6 DEF Planned
  <2>2. /\ Len(planned) = 4 /\ planned[1].key = "pre_state_request"
        /\ planned[2].key = "control_request" /\ planned[3].key = "transition_request"
        /\ planned[4].key = "post_state_request"
    BY <2>1 DEF PlannedTransition, Request
  <2>3. \A i \in 1 .. Len(planned) : i \in {1, 2, 3, 4}
    BY <2>2
  <2>4. \A i \in 1 .. Len(planned) :
          planned[i].key \in Keys /\ planned[i].key \notin {"login", "transaction"}
    BY <2>2, <2>3 DEF Keys
  <2> QED
    BY <1>2, <1>6, <2>2, <2>4 DEF LogsIn, plan
<1> QED
  BY <1>1, <1>3, <1>4, <1>5, <1>6 DEF HTTP_SCOPE_CAPABILITIES

LEMMA MoveSteps ==
    ASSUME Inv, NEW p \in Processes,
           \/ LoadAttempt(p) \/ CommitDispatch(p) \/ RefuseRequest(p) \/ LoseRequest(p)
           \/ Succeed(p) \/ RecordOutcome(p)
    PROVE  Inv'
<1>1. UNCHANGED <<sessions, secrets, logins, carried, target>>
  BY DEF LoadAttempt, CommitDispatch, RefuseRequest, LoseRequest, Succeed, RecordOutcome, rows, world
<1>2. call[p].pc \in Started
  BY DEF LoadAttempt, CommitDispatch, RefuseRequest, LoseRequest, Succeed, RecordOutcome,
         Running, At, Started, Pcs
<1>3. call[p] \in Calls /\ Matches(call[p]) /\ call[p].attempt \in AttemptIds
  BY <1>2, CallIs DEF Started
<1>4. CASE LoadAttempt(p) \/ CommitDispatch(p) \/ RecordOutcome(p)
  <2>1. SameAttempts
    <3>1. CASE LoadAttempt(p)
      BY <3>1, SameAttemptsIs DEF LoadAttempt, rows, Inv
    <3>2. CASE CommitDispatch(p)
      BY <1>2, <3>2, AttemptMoves DEF CommitDispatch
    <3>3. CASE RecordOutcome(p)
      BY <1>2, <3>3, AttemptMoves DEF RecordOutcome
    <3> QED
      BY <1>4, <3>1, <3>2, <3>3
  <2>2. CASE Return(p)
    BY <1>1, <2>1, <2>2, ReturnStep
  <2>3. CASE ~Return(p)
    <3>1. \E pc \in {"loaded", "running", "recorded"} :
             /\ call' = [call EXCEPT ![p] = [call[p] EXCEPT !.pc = pc]]
             /\ pc = "loaded" => call[p].pc = "authorized"
             /\ pc = "running" => call[p].pc = "loaded"
             /\ pc = "recorded" => call[p].pc = "answered"
      BY <1>4, <2>3 DEF LoadAttempt, CommitDispatch, RecordOutcome, At, Go
    <3>2. PICK pc \in {"loaded", "running", "recorded"} :
             /\ call' = [call EXCEPT ![p] = [call[p] EXCEPT !.pc = pc]]
             /\ pc = "loaded" => call[p].pc = "authorized"
             /\ pc = "running" => call[p].pc = "loaded"
             /\ pc = "recorded" => call[p].pc = "answered"
      BY <3>1
    <3> DEFINE status == call[p].status
    <3>3. status \in ResultStatuses \cup {None, ""}
      BY <1>3 DEF Calls
    <3>4. [call[p] EXCEPT !.pc = pc] = [call[p] EXCEPT !.pc = pc, !.status = status]
      BY <1>3 DEF Calls
    <3>5. pc = "recorded" /\ status = "SUCCEEDED" =>
            call[p].step > Len(Planned(PlanOf(call[p].attempt)))
      BY <1>3, <3>2 DEF Matches
    <3> HIDE DEF status
    <3>6. call' = [call EXCEPT ![p] = [call[p] EXCEPT !.pc = pc, !.status = status]]
      BY <3>2, <3>4
    <3>7. pc \in Started \ {"ingesting"}
      BY DEF Started, Pcs
    <3> QED
      BY <1>1, <1>2, <2>1, <3>2, <3>3, <3>5, <3>6, <3>7, MoveStep
  <2> QED
    BY <2>2, <2>3
<1>5. CASE RefuseRequest(p) \/ LoseRequest(p) \/ Succeed(p)
  <2>1. SameAttempts
    BY <1>5, SameAttemptsIs DEF RefuseRequest, LoseRequest, Succeed, rows, Inv
  <2>2. \E status \in ResultStatuses \cup {None, ""} :
          /\ Ends(p, status)
          /\ status = "SUCCEEDED" => call[p].step > Len(Planned(PlanOf(call[p].attempt)))
    <3>1. CASE RefuseRequest(p)
      <4>1. Refused(p) \in {"EXECUTION_FAILED", "BLOCKED", ""}
        BY DEF Refused, RefusedStatus
      <4> QED
        BY <3>1, <4>1 DEF RefuseRequest, ResultStatuses
    <3>2. CASE LoseRequest(p)
      <4>1. FailedStatus("broken") = "EXECUTION_FAILED"
        BY DEF FailedStatus
      <4> QED
        BY <3>2, <4>1 DEF LoseRequest, ResultStatuses
    <3>3. CASE Succeed(p)
      <4>1. ~(call[p].step <= Len(Planned(PlanOf(call[p].attempt))))
        BY <3>3 DEF Succeed, Running
      <4>2. call[p].step \in 1 .. 5 /\ Len(Planned(PlanOf(call[p].attempt))) \in {1, 4}
        BY <1>3, PlannedIs DEF Calls
      <4>3. call[p].step > Len(Planned(PlanOf(call[p].attempt)))
        BY <4>1, <4>2
      <4> QED
        BY <3>3, <4>3 DEF Succeed, ResultStatuses
    <3> QED
      BY <1>5, <3>1, <3>2, <3>3
  <2>3. PICK status \in ResultStatuses \cup {None, ""} :
          /\ Ends(p, status)
          /\ status = "SUCCEEDED" => call[p].step > Len(Planned(PlanOf(call[p].attempt)))
    BY <2>2
  <2>4. "answered" \in Started \ {"ingesting"}
    BY DEF Started, Pcs
  <2>5. call' = [call EXCEPT ![p] = [call[p] EXCEPT !.pc = "answered", !.status = status]]
    BY <2>3 DEF Ends, Go
  <2> QED
    BY <1>1, <1>2, <2>1, <2>3, <2>4, <2>5, MoveStep
<1> QED
  BY <1>4, <1>5

-----------------------------------------------------------------------------
(* Authorization inserts the row of a login, and resolves the secret.      *)

\* The row a process binds an existing session by, and its cookie, agree.
LEMMA SecretBound ==
    ASSUME Inv, NEW p \in Processes, call[p].pc = "authorizing",
           Binding(p, PlanOf(call[p].attempt)) = "accepted",
           PlanOf(call[p].attempt).capability = "http.transaction"
    PROVE  SecretOf(p, PlanOf(call[p].attempt)) \in {None, CookieFor(PlanOf(call[p].attempt))}
<1> DEFINE plan == PlanOf(call[p].attempt)
<1>1. plan.session # None => plan.session \in SessionIds
  BY CallIs, PlanIs
<1> HIDE DEF plan
<1>2. CASE plan.session = None
  BY <1>2 DEF SecretOf, plan
<1>3. CASE plan.session # None
  <2> DEFINE s == plan.session
  <2>1. BindExistingSession(plan, sessions[s], secrets[p][s]) = "accepted"
    BY <1>3 DEF Binding, BindIdentitySession, RowOf, SecretOf, plan
  <2>2. /\ sessions[s].identity = plan.identity /\ sessions[s].run = plan.run
        /\ sessions[s].origin = plan.origin /\ secrets[p][s] # None
    BY <2>1 DEF BindExistingSession
  <2>3. secrets[p][s] = CookieOf(s)
    BY <1>1, <1>3, <2>2 DEF Inv, SecretsMatch
  <2>4. CookieOf(s) = CookieFor(plan)
    BY <2>2 DEF CookieOf, CookieFor
  <2> QED
    BY <1>3, <2>3, <2>4 DEF SecretOf, plan
<1> QED
  BY <1>2, <1>3 DEF plan

LEMMA AllowStep ==
    ASSUME Inv, NEW p \in Processes, AllowExecution(p)
    PROVE  Inv'
<1> DEFINE old == call[p]
           a == old.attempt
           plan == PlanOf(a)
           secret == ResolvedSecret(p, plan)
           new == [old EXCEPT !.pc = "authorized", !.envelope = TRUE, !.secret = secret]
<1>1. /\ old.pc = "authorizing" /\ Binding(p, plan) = "accepted" /\ ~SessionConflict(plan)
      /\ attempts' = [attempts EXCEPT ![a] = "AUTHORIZED"] /\ sessions' = InsertedSessions(plan)
      /\ call' = [call EXCEPT ![p] = new]
      /\ UNCHANGED <<secrets, target, logins, carried>>
  BY DEF AllowExecution, Allowed, At, Go, world
<1>2. old \in Calls /\ a \in AttemptIds /\ Matches(old) /\ ~old.envelope
  BY <1>1, CallIs DEF Authorized
<1>3. /\ plan.session # None => plan.session \in SessionIds
      /\ LogsIn(plan) => plan.session \in SessionIds
      /\ CookieFor(plan) \in Cookies
  BY <1>2, PlanIs
<1>4. secret \in Secrets /\ (plan.capability = "http.transaction" => secret \in {None, CookieFor(plan)})
  <2>1. CASE plan.capability = "http.transaction"
    <3>1. SecretOf(p, plan) \in {None, CookieFor(plan)}
      BY <1>1, <2>1, SecretBound
    <3>2. secret = SecretOf(p, plan)
      BY <2>1 DEF ResolvedSecret
    <3> QED
      BY <1>3, <3>1, <3>2 DEF Secrets
  <2>2. CASE plan.capability # "http.transaction"
    BY <2>2 DEF ResolvedSecret, Secrets
  <2> QED
    BY <2>1, <2>2
<1> DEFINE row == AuthenticatingRow(plan)
<1>5. row \in Rows /\ row # None /\ row.run = plan.run /\ row.identity = plan.identity
      /\ row.origin = plan.origin
  <2>1. a[1] \in Experiments /\ plan = Plan[a[1]]
    BY <1>2, PlanIs
  <2>2. "AUTHENTICATING" \in SessionState
    BY DEF SessionState
  <2> QED
    BY <2>1, <2>2, HttpAssumption DEF AuthenticatingRow, Rows
<1>6. sessions \in [SessionIds -> Rows \cup {None}]
  BY DEF Inv, TypeOK
<1>7. /\ LogsIn(plan) => /\ sessions[plan.session] = None
                         /\ sessions' = [sessions EXCEPT ![plan.session] = row]
      /\ ~LogsIn(plan) => sessions' = sessions
  BY <1>1 DEF InsertedSessions, SessionConflict, LogsIn
<1> HIDE DEF row, secret
<1>8. /\ sessions' \in [SessionIds -> Rows \cup {None}]
      /\ \A s \in SessionIds : sessions[s] # None => sessions'[s] = sessions[s]
      /\ LogsIn(plan) => sessions'[plan.session] = row
      /\ \A s \in SessionIds : sessions'[s] # sessions[s] => LogsIn(plan) /\ s = plan.session
  BY <1>3, <1>5, <1>6, <1>7
<1>9. /\ new \in Calls /\ new.pc = "authorized" /\ new.envelope /\ new.secret = secret
      /\ new.attempt = a /\ new.step = old.step /\ new.answers = old.answers
  BY <1>2, <1>4 DEF Calls, Pcs
<1>10. call \in [Processes -> Calls]
  BY DEF Inv, TypeOK
<1> HIDE DEF new, plan, a
<1>11. /\ call' \in [Processes -> Calls] /\ call'[p] = new
       /\ \A q \in Processes \ {p} : call'[q] = call[q]
  BY <1>1, <1>9, <1>10
<1>12. /\ attempts' \in [AttemptIds -> {"NONE", "AUTHORIZED", "DISPATCHING", "ENDED"}]
       /\ attempts'[a] # "NONE" /\ \A b \in AttemptIds : attempts[b] # "NONE" => attempts'[b] # "NONE"
       /\ \A b \in AttemptIds : attempts'[b] # attempts[b] => b = a
  BY <1>1, <1>2 DEF Inv, TypeOK
<1>13. TypeOK'
  BY <1>1, <1>8, <1>11, <1>12 DEF Inv, TypeOK
<1>14. Logins'
  <2>1. \A s \in SessionIds, q \in Processes :
          MaySend(call[q], s) => logins[s] = 0 /\ sessions[s] # None
            /\ \A r \in Processes : MaySend(call[r], s) => r = q
    BY DEF Inv, Logins
  <2>2. \A s \in SessionIds : MaySend(new, s) => LogsIn(plan) /\ s = plan.session
    BY <1>9 DEF MaySend, plan, a
  <2>3. \A s \in SessionIds : sessions[s] = None => logins[s] = 0
    BY DEF Inv, Logins
  <2>4. ASSUME NEW s \in SessionIds, MaySend(new, s)
        PROVE  logins[s] = 0 /\ sessions[s] = None /\ sessions'[s] # None
    BY <1>5, <1>7, <1>8, <2>2, <2>3, <2>4
  <2>5. \A s \in SessionIds, q \in Processes :
          MaySend(call'[q], s) =>
            /\ logins'[s] = 0 /\ sessions'[s] # None
            /\ \A r \in Processes : MaySend(call'[r], s) => r = q
    <3> SUFFICES ASSUME NEW s \in SessionIds, NEW q \in Processes, MaySend(call'[q], s)
                 PROVE  /\ logins'[s] = 0 /\ sessions'[s] # None
                        /\ \A r \in Processes : MaySend(call'[r], s) => r = q
      OBVIOUS
    <3>1. CASE q = p
      BY <1>1, <1>11, <2>1, <2>4, <3>1
    <3>2. CASE q # p
      BY <1>1, <1>8, <1>11, <2>1, <2>4, <3>2
    <3> QED
      BY <3>1, <3>2
  <2>6. \A s \in SessionIds : sessions'[s] = None => logins'[s] = 0
    BY <1>1, <1>8, <2>3
  <2>7. LoginSentOnce'
    BY <1>1 DEF Inv, Logins, LoginSentOnce
  <2> QED
    BY <2>5, <2>6, <2>7 DEF Logins, MaySend, LogsIn
<1>15. LoginRows'
  <2> SUFFICES ASSUME NEW b \in AttemptIds, attempts'[b] # "NONE", LogsIn(PlanOf(b))
               PROVE  sessions'[PlanOf(b).session] # None
    BY DEF LoginRows, LogsIn
  <2>1. CASE b = a
    BY <1>5, <1>8, <2>1 DEF plan
  <2>2. CASE b # a
    <3>1. PlanOf(b).session \in SessionIds
      BY PlanIs
    <3>2. sessions[PlanOf(b).session] # None
      BY <1>12, <2>2 DEF Inv, LoginRows
    <3> QED
      BY <1>8, <3>1, <3>2
  <2> QED
    BY <2>1, <2>2
<1>16. CallsMatch'
  <2>1. \A s \in SessionIds : sessions[s] # None => sessions'[s] = sessions[s]
    BY <1>8
  <2> SUFFICES ASSUME NEW q \in Processes, NEW c, c = call'[q]
               PROVE  Authorized(c)' /\ (c.pc # "idle" => Matches(c)')
    BY DEF CallsMatch, Authorized, Matches, LogsIn, RowMatches
  <2>2. CASE q = p
    <3>1. c = new
      BY <1>11, <2>2
    <3>2. Authorized(c)'
      BY <1>9, <1>12, <3>1 DEF Authorized
    <3>3. PlanOf(c.attempt) = plan /\ c.attempt = a
      BY <1>9, <3>1 DEF plan
    <3>4. LogsIn(PlanOf(c.attempt)) => RowMatches(PlanOf(c.attempt))'
      BY <1>5, <1>8, <3>3 DEF RowMatches
    <3>5. c.step = 1 /\ DOMAIN c.answers = {}
      BY <1>1, <1>2, <1>9, <3>1 DEF Matches
    <3>6. Matches(c)'
      BY <1>2, <1>4, <1>9, <3>1, <3>3, <3>4, <3>5 DEF Matches
    <3> QED
      BY <3>2, <3>6
  <2>3. CASE q # p
    <3>1. c = call[q] /\ Authorized(c) /\ (c.pc # "idle" => Matches(c) /\ c.attempt \in AttemptIds)
      BY <1>11, <2>3, CallIs
    <3>2. Authorized(c)'
      BY <1>12, <3>1 DEF Authorized
    <3>3. ASSUME c.pc # "idle"
          PROVE  Matches(c)'
      <4>1. Matches(c) /\ c.attempt \in AttemptIds
        BY <3>1, <3>3
      <4>2. LogsIn(PlanOf(c.attempt)) => PlanOf(c.attempt).session \in SessionIds
        BY <4>1, PlanIs
      <4>3. LogsIn(PlanOf(c.attempt)) /\ c.envelope => RowMatches(PlanOf(c.attempt))'
        BY <2>1, <4>1, <4>2 DEF Matches, RowMatches
      <4>4. c.pc = "ingesting" /\ c.seen # None =>
              /\ PlanOf(c.attempt).session \in SessionIds
              /\ sessions'[PlanOf(c.attempt).session] # None
        BY <2>1, <4>1 DEF Matches
      <4> QED
        BY <4>1, <4>3, <4>4 DEF Matches
    <3> QED
      BY <3>2, <3>3
  <2> QED
    BY <2>2, <2>3
<1>17. SecretsMatch'
  <2>1. ASSUME NEW s \in SessionIds, sessions[s] # None
        PROVE  sessions'[s] # None /\ CookieOf(s)' = CookieOf(s)
    BY <1>8, <2>1 DEF CookieOf
  <2>2. \A q \in Processes, s \in SessionIds :
          secrets'[q][s] # None => sessions'[s] # None /\ secrets'[q][s] = CookieOf(s)'
    BY <1>1, <2>1 DEF Inv, SecretsMatch
  <2> QED
    BY <2>2 DEF SecretsMatch, CookieOf
<1>18. CookieOfItsOwn'
  BY <1>1 DEF Inv, CookieOfItsOwn
<1> QED
  BY <1>13, <1>14, <1>15, <1>16, <1>17, <1>18 DEF Inv

-----------------------------------------------------------------------------
(* The requests of the worker.                                             *)

LEMMA RunningIs ==
    ASSUME Inv, NEW p \in Processes, Running(p)
    PROVE  /\ call[p].pc = "running" /\ call[p] \in Calls /\ Matches(call[p])
           /\ Authorized(call[p]) /\ call[p].attempt \in AttemptIds
           /\ call[p].step \in 1 .. Len(Planned(PlanOf(call[p].attempt))) /\ call[p].step \in 1 .. 4
           /\ Current(p) \in Requests /\ Current(p).key \in Keys
           /\ Current(p).key = "login" => LogsIn(PlanOf(call[p].attempt)) /\ call[p].step = 1
           /\ LogsIn(PlanOf(call[p].attempt)) => Current(p).key = "login"
           /\ Current(p).key = "transaction" =>
                PlanOf(call[p].attempt).capability = "http.transaction"
<1>1. call[p].pc = "running"
  BY DEF Running, At
<1>2. call[p] \in Calls /\ Matches(call[p]) /\ Authorized(call[p]) /\ call[p].attempt \in AttemptIds
  BY <1>1, CallIs
<1>3. /\ call[p].step \in 1 .. 5 /\ Len(Planned(PlanOf(call[p].attempt))) \in {1, 4}
      /\ call[p].step <= Len(Planned(PlanOf(call[p].attempt)))
  BY <1>2, PlannedIs DEF Calls, Running
<1>4. /\ call[p].step \in 1 .. Len(Planned(PlanOf(call[p].attempt))) /\ call[p].step \in 1 .. 4
  <2> DEFINE n == Len(Planned(PlanOf(call[p].attempt)))
             step == call[p].step
  <2>1. step \in 1 .. 5 /\ n \in {1, 4} /\ step <= n
    BY <1>3
  <2> HIDE DEF n, step
  <2>2. step \in 1 .. n /\ step \in 1 .. 4
    BY <2>1
  <2> QED
    BY <2>2 DEF n, step
<1>5. Current(p) = Planned(PlanOf(call[p].attempt))[call[p].step]
  BY DEF Current
<1> QED
  BY <1>1, <1>2, <1>4, <1>5, PlannedIs

\* After a request: the call has its response, or an end that is no success.
LEMMA ReadsStep ==
    ASSUME Inv, NEW p \in Processes, Running(p), NEW answer \in Answers,
           NEW response \in Responses, Reads(p, answer, response),
           LogsIn(PlanOf(call[p].attempt)) =>
              call[p].envelope /\ response.cookie \in {None, CookieFor(PlanOf(call[p].attempt))}
    PROVE  \E c \in Calls :
              /\ call' = [call EXCEPT ![p] = c]
              /\ Authorized(c) /\ Matches(c) /\ c.pc # "idle"
              /\ \A s \in SessionIds : ~MaySend(c, s)
<1> DEFINE old == call[p]
           plan == PlanOf(old.attempt)
<1>1. /\ old.pc = "running" /\ old \in Calls /\ Matches(old) /\ Authorized(old)
      /\ old.attempt \in AttemptIds /\ old.step \in 1 .. 4 /\ Current(p).key \in Keys
      /\ LogsIn(plan) => Current(p).key = "login"
      /\ Current(p).key = "login" => LogsIn(plan)
  BY RunningIs
<1>2. CASE answer # "read"
  <2> DEFINE status == FailedStatus(answer)
             c == [old EXCEPT !.pc = "answered", !.status = status]
  <2>1. status \in ResultStatuses /\ status # "SUCCEEDED"
    BY <1>2 DEF FailedStatus, Answers, ResultStatuses
  <2>2. call' = [call EXCEPT ![p] = c]
    BY <1>2 DEF Reads, Ends, Go
  <2> HIDE DEF status
  <2>3. /\ c \in Calls /\ c.pc = "answered" /\ c.status = status /\ c.attempt = old.attempt
        /\ c.envelope = old.envelope /\ c.secret = old.secret /\ c.step = old.step
        /\ c.answers = old.answers
    BY <1>1, <2>1 DEF Calls, Pcs
  <2> HIDE DEF c
  <2>4. Authorized(c) /\ Matches(c)
    BY <1>1, <2>1, <2>3 DEF Authorized, Matches
  <2> QED
    BY <2>2, <2>3, <2>4 DEF MaySend
<1>3. CASE answer = "read"
  <2> DEFINE key == Current(p).key
             answers == Read(old.answers, key, response)
             n == old.step + 1
             c == [old EXCEPT !.step = n, !.answers = answers]
  <2>1. n \in 2 .. 5 /\ n # 1
    BY <1>1
  <2>2. call' = [call EXCEPT ![p] = c]
    <3>1. [old EXCEPT !.step = @ + 1, !.answers = Read(@, key, response)] = c
      BY <1>1 DEF Calls
    <3> QED
      BY <1>3, <3>1 DEF Reads, Go
  <2>3. key \in Keys /\ (LogsIn(plan) <=> key = "login")
    BY <1>1
  <2> HIDE DEF key, n
  <2>4. /\ answers \in AnswerSets /\ DOMAIN answers = DOMAIN old.answers \cup {key}
        /\ answers[key] = response
        /\ \A k \in DOMAIN old.answers : k # key => answers[k] = old.answers[k]
    <3>1. PICK K \in SUBSET Keys : old.answers \in [K -> Responses]
      BY <1>1 DEF Calls, AnswerSets
    <3>2. answers = [k \in K \cup {key} |-> IF k = key THEN response ELSE old.answers[k]]
      BY <3>1 DEF Read
    <3>3. answers \in [K \cup {key} -> Responses] /\ K \cup {key} \in SUBSET Keys
      BY <2>3, <3>1, <3>2
    <3>4. answers \in AnswerSets
      BY <3>3 DEF AnswerSets
    <3> QED
      BY <3>1, <3>2, <3>4
  <2> HIDE DEF answers
  <2>5. n \in 1 .. 5
    BY <2>1
  <2>6. /\ c \in Calls /\ c.pc = "running" /\ c.status = old.status /\ c.attempt = old.attempt
        /\ c.envelope = old.envelope /\ c.secret = old.secret /\ c.step = n
        /\ c.answers = answers
    BY <1>1, <2>4, <2>5 DEF Calls
  <2> HIDE DEF c, old
  <2>7. PlanOf(c.attempt) = plan
    BY <2>6
  <2>8. LogsIn(plan) => /\ "login" \in DOMAIN c.answers /\ c.envelope
                        /\ c.answers["login"].cookie \in {None, CookieFor(plan)}
    BY <2>3, <2>4, <2>6 DEF old
  <2> HIDE DEF plan
  <2>9. Matches(c)
    BY <1>1, <2>6, <2>7, <2>8 DEF Matches, plan
  <2>10. Authorized(c)
    BY <1>1, <2>6 DEF Authorized
  <2>11. \A s \in SessionIds : ~MaySend(c, s)
    BY <2>1, <2>6 DEF MaySend
  <2> QED
    BY <2>2, <2>6, <2>9, <2>10, <2>11
<1> QED
  BY <1>2, <1>3

\* A refused request is not sent: what is sent has the envelope.
LEMMA SentWithEnvelope ==
    ASSUME NEW p \in Processes, Refused(p) = "", call[p].envelope \in BOOLEAN
    PROVE  call[p].envelope
BY DEF Refused, RefusedStatus

LEMMA SendLoginStep ==
    ASSUME Inv, NEW p \in Processes, SendLogin(p)
    PROVE  Inv'
<1> DEFINE old == call[p]
           plan == PlanOf(old.attempt)
           s0 == plan.session
<1>1. Running(p) /\ Refused(p) = "" /\ Current(p).key = "login"
  BY DEF SendLogin
<1>2. /\ old.pc = "running" /\ old \in Calls /\ old.attempt \in AttemptIds /\ LogsIn(plan)
      /\ old.step = 1
  BY <1>1, RunningIs
<1>3. old.envelope
  BY <1>1, <1>2, SentWithEnvelope DEF Calls
<1>4. /\ s0 \in SessionIds /\ CookieFor(plan) \in Cookies
  BY <1>2, PlanIs
<1>5. MaySend(old, s0)
  BY <1>2, <1>3 DEF MaySend
<1>6. /\ UNCHANGED <<attempts, sessions, secrets, target, carried>>
      /\ logins' = [logins EXCEPT ![s0] = @ + 1]
  BY DEF SendLogin, rows
<1>7. PICK accepted \in BOOLEAN, answer \in Answers :
        Reads(p, answer, IF accepted THEN [status |-> 200, cookie |-> CookieFor(plan)]
                         ELSE [status |-> 401, cookie |-> None])
  <2>1. \E accepted \in BOOLEAN, answer \in Answers :
          /\ answer = "redirect" => ~accepted
          /\ live' = IF accepted THEN live \cup {CookieFor(plan)} ELSE live
          /\ Reads(p, answer, IF accepted THEN [status |-> 200, cookie |-> CookieFor(plan)]
                              ELSE [status |-> 401, cookie |-> None])
    BY Zenon DEF SendLogin
  <2> QED
    BY <2>1
<1> DEFINE response == IF accepted THEN [status |-> 200, cookie |-> CookieFor(plan)]
                       ELSE [status |-> 401, cookie |-> None]
<1>8. response \in Responses /\ response.cookie \in {None, CookieFor(plan)}
  BY <1>4 DEF Responses
<1> HIDE DEF response
<1>9. PICK c \in Calls :
        /\ call' = [call EXCEPT ![p] = c]
        /\ Authorized(c) /\ Matches(c) /\ c.pc # "idle" /\ \A s \in SessionIds : ~MaySend(c, s)
  <2>1. Reads(p, answer, response)
    BY <1>7 DEF response
  <2> QED
    BY <1>1, <1>3, <1>8, <2>1, ReadsStep
<1>10. call \in [Processes -> Calls] /\ logins \in [SessionIds -> Nat]
  BY DEF Inv, TypeOK
<1> HIDE DEF s0, plan, old
<1>11. /\ call' \in [Processes -> Calls] /\ call'[p] = c
       /\ \A q \in Processes \ {p} : call'[q] = call[q]
  BY <1>9, <1>10
<1>12. logins[s0] = 0 /\ sessions[s0] # None /\ \A q \in Processes : MaySend(call[q], s0) => q = p
  BY <1>4, <1>5 DEF Inv, Logins, old
<1>13. /\ logins' \in [SessionIds -> Nat] /\ logins'[s0] = 1
       /\ \A s \in SessionIds \ {s0} : logins'[s] = logins[s]
  BY <1>4, <1>6, <1>10, <1>12
<1>14. TypeOK'
  BY <1>6, <1>11, <1>13 DEF Inv, TypeOK
<1>15. Logins'
  <2>1. \A s \in SessionIds : logins'[s] <= 1
    <3> SUFFICES ASSUME NEW s \in SessionIds
                 PROVE  logins'[s] <= 1
      OBVIOUS
    <3>1. CASE s = s0
      BY <1>13, <3>1
    <3>2. CASE s # s0
      BY <1>13, <3>2 DEF Inv, Logins, LoginSentOnce
    <3> QED
      BY <3>1, <3>2
  <2>2. \A s \in SessionIds : sessions'[s] = None => logins'[s] = 0
    BY <1>6, <1>12, <1>13 DEF Inv, Logins
  <2>3. \A s \in SessionIds, q \in Processes :
          MaySend(call'[q], s) =>
            /\ logins'[s] = 0 /\ sessions'[s] # None
            /\ \A r \in Processes : MaySend(call'[r], s) => r = q
    <3> SUFFICES ASSUME NEW s \in SessionIds, NEW q \in Processes, MaySend(call'[q], s)
                 PROVE  /\ logins'[s] = 0 /\ sessions'[s] # None
                        /\ \A r \in Processes : MaySend(call'[r], s) => r = q
      OBVIOUS
    <3>1. q # p /\ MaySend(call[q], s)
      BY <1>9, <1>11
    <3>2. s # s0
      BY <1>12, <3>1
    <3>3. /\ logins[s] = 0 /\ sessions[s] # None
          /\ \A r \in Processes : MaySend(call[r], s) => r = q
      BY <3>1 DEF Inv, Logins
    <3> QED
      BY <1>6, <1>9, <1>11, <1>13, <3>2, <3>3
  <2> QED
    BY <2>1, <2>2, <2>3 DEF Logins, LoginSentOnce, MaySend, LogsIn
<1>16. LoginRows'
  BY <1>6 DEF Inv, LoginRows, LogsIn
<1>17. CallsMatch'
  <2> SUFFICES ASSUME NEW q \in Processes, NEW d, d = call'[q]
               PROVE  Authorized(d)' /\ (d.pc # "idle" => Matches(d)')
    BY DEF CallsMatch, Authorized, Matches, LogsIn, RowMatches
  <2>1. Authorized(d) /\ (d.pc # "idle" => Matches(d) /\ d.attempt \in AttemptIds)
    BY <1>9, <1>11, CallIs DEF Matches
  <2>2. SameRows /\ SameAttempts
    BY <1>6, SameRowsIs, SameAttemptsIs DEF Inv
  <2> QED
    BY <2>1, <2>2, StillMatches, StillAuthorized
<1>18. SecretsMatch'
  BY <1>6 DEF Inv, SecretsMatch, CookieOf
<1>19. CookieOfItsOwn'
  BY <1>6 DEF Inv, CookieOfItsOwn
<1> QED
  BY <1>14, <1>15, <1>16, <1>17, <1>18, <1>19 DEF Inv

LEMMA SendStep ==
    ASSUME Inv, NEW p \in Processes, SendTransaction(p) \/ SendProbe(p)
    PROVE  Inv'
<1> DEFINE old == call[p]
           plan == PlanOf(old.attempt)
<1>1. Running(p) /\ Current(p).key # "login"
  BY DEF SendTransaction, SendProbe
<1>2. /\ old \in Calls /\ Matches(old) /\ Authorized(old) /\ old.attempt \in AttemptIds
      /\ ~LogsIn(plan) /\ Current(p) \in Requests
      /\ Current(p).key = "transaction" => plan.capability = "http.transaction"
  BY <1>1, RunningIs
<1>3. UNCHANGED <<attempts, sessions, secrets, logins>>
  BY DEF SendTransaction, SendProbe, rows
<1>4. \E answer \in Answers, response \in Responses : Reads(p, answer, response)
  <2>1. CASE SendTransaction(p)
    <3>1. PICK answer \in Answers, status \in IF old.secret \in live THEN {200, 403} ELSE {401} :
            Reads(p, answer, [status |-> status])
      BY <2>1, Zenon DEF SendTransaction
    <3>2. [status |-> status] \in Responses
      <4>1. status \in {200, 401, 403}
        OBVIOUS
      <4> QED
        BY <4>1 DEF Responses
    <3> QED
      BY <3>1, <3>2
  <2>2. CASE SendProbe(p)
    <3>1. Response(target, Current(p)) \in Responses
      BY <1>2 DEF Responses, Inv, TypeOK
    <3> QED
      BY <2>2, <3>1 DEF SendProbe
  <2> QED
    BY <2>1, <2>2
<1>5. PICK c \in Calls :
        /\ call' = [call EXCEPT ![p] = c]
        /\ Authorized(c) /\ Matches(c) /\ c.pc # "idle" /\ \A s \in SessionIds : ~MaySend(c, s)
  BY <1>1, <1>2, <1>4, ReadsStep
<1>6. target' \in Targets
  <2>1. target \in Targets
    BY DEF Inv, TypeOK
  <2>2. CASE SendTransaction(p)
    BY <2>1, <2>2 DEF SendTransaction
  <2>3. CASE SendProbe(p)
    <3>1. AfterRequest(target, Current(p)) \in Targets
      BY <2>1 DEF AfterRequest, Targets
    <3> QED
      BY <2>1, <2>3, <3>1 DEF SendProbe
  <2> QED
    BY <2>2, <2>3
<1>7. CookieOfItsOwn'
  <2>1. CASE SendTransaction(p)
    <3>1. carried' = carried \cup {<<old.attempt[1], old.secret>>}
      BY <2>1 DEF SendTransaction
    <3>2. old.secret \in {None, CookieFor(Plan[old.attempt[1]])}
      <4>1. plan.capability = "http.transaction"
        BY <1>2, <2>1 DEF SendTransaction
      <4> QED
        BY <1>2, <4>1 DEF Matches, PlanOf
    <3> QED
      BY <3>1, <3>2 DEF Inv, CookieOfItsOwn
  <2>2. CASE SendProbe(p)
    BY <2>2 DEF SendProbe, Inv, CookieOfItsOwn
  <2> QED
    BY <2>1, <2>2
<1>8. call' \in [Processes -> Calls] /\ \A q \in Processes : Follows(call[q], call'[q])
  <2>1. call \in [Processes -> Calls]
    BY DEF Inv, TypeOK
  <2>2. Follows(call[p], c)
    BY <1>5 DEF Follows
  <2> QED
    BY <1>5, <2>1, <2>2 DEF Follows
<1>9. SameRows /\ SameAttempts
  BY <1>3, SameRowsIs, SameAttemptsIs DEF Inv
<1>10. secrets' \in [Processes -> [SessionIds -> {None} \cup Cookies]]
  BY <1>3 DEF Inv, TypeOK
<1>11. \A q \in Processes, s \in SessionIds :
         secrets'[q][s] # None => sessions[s] # None /\ secrets'[q][s] = CookieOf(s)
  BY <1>3 DEF Inv, SecretsMatch
<1> QED
  BY <1>3, <1>6, <1>7, <1>8, <1>9, <1>10, <1>11, StepKeeps

-----------------------------------------------------------------------------
(* Ingestion.                                                              *)

\* What ingestion makes of a session that exists; ACTIVE has the cookie of its login.
LEMMA NewStateIs ==
    ASSUME Inv, NEW p \in Processes, call[p].pc = "recorded",
           NewSessionState(p) # None
    PROVE  /\ NewSessionState(p) \in {"ACTIVE", "FAILED", "EXPIRED"}
           /\ PlanOf(call[p].attempt).session \in SessionIds
           /\ sessions[PlanOf(call[p].attempt).session] # None
           /\ NewSessionState(p) = "ACTIVE" =>
                /\ EphemeralCookie(PlanOf(call[p].attempt), call[p].answers) \in Cookies
                /\ EphemeralCookie(PlanOf(call[p].attempt), call[p].answers)
                     = CookieOf(PlanOf(call[p].attempt).session)
<1> DEFINE c == call[p]
           plan == PlanOf(c.attempt)
           state == NewSessionState(p)
<1>1. Matches(c) /\ c.attempt \in AttemptIds /\ attempts[c.attempt] # "NONE"
  BY CallIs DEF Authorized
<1>2. /\ plan.session # None => plan.session \in SessionIds
      /\ LogsIn(plan) => plan.session \in SessionIds
      /\ plan.capability \in HTTP_SCOPE_CAPABILITIES
  BY <1>1, PlanIs
<1>3. CASE LogsIn(plan)
  <2>1. state = CapturedState(p)
    BY <1>3 DEF NewSessionState, LogsIn
  <2>2. sessions[plan.session] # None
    BY <1>1, <1>3 DEF Inv, LoginRows
  <2>3. ASSUME state = "ACTIVE"
        PROVE  /\ EphemeralCookie(plan, c.answers) \in Cookies
               /\ EphemeralCookie(plan, c.answers) = CookieOf(plan.session)
    <3>1. c.status = "SUCCEEDED" /\ EphemeralCookie(plan, c.answers) # None
      BY <2>1, <2>3 DEF CapturedState
    <3>2. c.step > Len(Planned(plan)) /\ Len(Planned(plan)) = 1
      BY <1>1, <1>3, <3>1, PlannedIs DEF Matches
    <3>3. c.step # 1
      BY <3>2
    <3>4. /\ c.envelope /\ c.answers["login"].cookie \in {None, CookieFor(plan)}
          /\ RowMatches(plan)
      BY <1>1, <1>3, <3>3 DEF Matches
    <3>5. EphemeralCookie(plan, c.answers) = CookieFor(plan)
      BY <3>1, <3>4 DEF EphemeralCookie
    <3> QED
      BY <1>1, <3>4, <3>5, PlanIs DEF RowMatches, CookieOf, CookieFor
  <2> QED
    BY <1>2, <1>3, <2>1, <2>2, <2>3 DEF CapturedState
<1>4. CASE ~LogsIn(plan)
  <2>1. /\ state = "EXPIRED" /\ plan.session # None /\ Unauthenticated(p)
    BY <1>4 DEF NewSessionState, LogsIn
  <2> QED
    BY <1>2, <2>1 DEF Unauthenticated
<1> QED
  BY <1>3, <1>4

LEMMA BeginIngestStep ==
    ASSUME Inv, NEW p \in Processes, BeginIngest(p)
    PROVE  Inv'
<1> DEFINE old == call[p]
           plan == PlanOf(old.attempt)
           state == NewSessionState(p)
           status == old.status
           new == [old EXCEPT !.pc = "ingesting", !.status = status, !.seen = state]
<1>1. /\ old.pc = "recorded" /\ secrets' = SecretsAfter(p, state)
      /\ call' = [call EXCEPT ![p] = [old EXCEPT !.pc = "ingesting", !.seen = state]]
      /\ UNCHANGED <<attempts, sessions, target, logins, carried>>
  BY DEF BeginIngest, At, Go, rows, world
<1>2. old \in Calls /\ Authorized(old) /\ Matches(old)
  BY <1>1, CallIs
<1>3. state # None => /\ state \in {"ACTIVE", "FAILED", "EXPIRED"}
                      /\ plan.session \in SessionIds /\ sessions[plan.session] # None
                      /\ state = "ACTIVE" =>
                           /\ EphemeralCookie(plan, old.answers) \in Cookies
                           /\ EphemeralCookie(plan, old.answers) = CookieOf(plan.session)
  BY <1>1, NewStateIs
<1>4. state \in {None, "ACTIVE", "FAILED", "EXPIRED"}
  BY <1>3
<1>5. None \notin {"ACTIVE", "EXPIRED"}
  BY HttpAssumption DEF SessionState
<1> HIDE DEF state
<1>6. [old EXCEPT !.pc = "ingesting", !.seen = state] = new
  BY <1>2 DEF Calls
<1>7. new \in Calls /\ Follows(old, new)
  <2>1. "ingesting" \in Started /\ old.pc \in Started
    BY <1>1 DEF Started, Pcs
  <2>2. status \in ResultStatuses \cup {None, ""}
    BY <1>2 DEF Calls
  <2>3. status = "SUCCEEDED" => old.step > Len(Planned(PlanOf(old.attempt)))
    BY <1>1, <1>2 DEF Matches
  <2> HIDE DEF status
  <2> QED
    BY <1>2, <1>3, <1>4, <2>1, <2>2, <2>3, Moves
<1> HIDE DEF new
<1>8. call' \in [Processes -> Calls] /\ \A q \in Processes : Follows(call[q], call'[q])
  <2>1. call \in [Processes -> Calls]
    BY DEF Inv, TypeOK
  <2> QED
    BY <1>1, <1>6, <1>7, <2>1 DEF Follows
<1>9. /\ secrets \in [Processes -> [SessionIds -> {None} \cup Cookies]]
      /\ \A q \in Processes, s \in SessionIds :
            secrets[q][s] # None => sessions[s] # None /\ secrets[q][s] = CookieOf(s)
  BY DEF Inv, TypeOK, SecretsMatch
<1>10. /\ secrets' \in [Processes -> [SessionIds -> {None} \cup Cookies]]
       /\ \A q \in Processes, s \in SessionIds :
            secrets'[q][s] # None => sessions[s] # None /\ secrets'[q][s] = CookieOf(s)
  <2> DEFINE cookie == EphemeralCookie(plan, old.answers)
             session == plan.session
  <2>1. state # None => session \in SessionIds /\ sessions[session] # None
    BY <1>3
  <2>2. state = "ACTIVE" => cookie \in Cookies /\ cookie = CookieOf(session)
    BY <1>3, <1>5
  <2> HIDE DEF cookie, session
  <2>3. CASE state = "ACTIVE"
    <3>1. secrets' = [secrets EXCEPT ![p][session] = cookie]
      BY <1>1, <2>3 DEF SecretsAfter, cookie, session
    <3> QED
      BY <1>5, <1>9, <2>1, <2>2, <2>3, <3>1
  <2>4. CASE state = "EXPIRED"
    <3>1. secrets' = [secrets EXCEPT ![p][session] = None]
      BY <1>1, <2>4 DEF SecretsAfter, session
    <3> QED
      BY <1>5, <1>9, <2>1, <2>4, <3>1
  <2>5. CASE state \notin {"ACTIVE", "EXPIRED"}
    BY <1>1, <1>9, <2>5 DEF SecretsAfter
  <2> QED
    BY <2>3, <2>4, <2>5
<1>11. SameRows /\ SameAttempts
  BY <1>1, SameRowsIs, SameAttemptsIs DEF Inv
<1>12. target' \in Targets /\ CookieOfItsOwn'
  BY <1>1 DEF Inv, TypeOK, CookieOfItsOwn
<1> QED
  BY <1>1, <1>8, <1>10, <1>11, <1>12, StepKeeps

\* Only the state of a session changes.
LEMMA StateStep ==
    ASSUME Inv, NEW s0 \in SessionIds, sessions[s0] # None, NEW state \in SessionState,
           sessions' = [sessions EXCEPT ![s0].state = state]
    PROVE  SameRows
<1> DEFINE row == sessions[s0]
           new == [row EXCEPT !.state = state]
<1>1. sessions \in [SessionIds -> Rows \cup {None}] /\ row \in Rows
  BY DEF Inv, TypeOK
<1>2. PICK e \in Experiments, was \in SessionState :
        row = [run |-> Plan[e].run, identity |-> Plan[e].identity, origin |-> Plan[e].origin,
               state |-> was]
  BY <1>1 DEF Rows
<1> DEFINE r == [run |-> Plan[e].run, identity |-> Plan[e].identity, origin |-> Plan[e].origin,
                 state |-> state]
<1>3. new = r
  BY <1>2
<1>4. r \in Rows /\ r # None
  BY HttpAssumption DEF Rows
<1>5. new.run = row.run /\ new.identity = row.identity /\ new.origin = row.origin
  BY <1>2, <1>3
<1>6. sessions' = [sessions EXCEPT ![s0] = new]
  BY <1>1
<1> HIDE DEF new, r
<1>7. new \in Rows /\ new # None
  BY <1>3, <1>4
<1> HIDE DEF row
<1>8. /\ sessions' \in [SessionIds -> Rows \cup {None}] /\ sessions'[s0] = new
      /\ \A s \in SessionIds \ {s0} : sessions'[s] = sessions[s]
  BY <1>1, <1>6, <1>7
<1> QED
  BY <1>5, <1>7, <1>8 DEF SameRows, row

LEMMA CommitIngestStep ==
    ASSUME Inv, NEW p \in Processes, CommitIngest(p)
    PROVE  Inv'
<1> DEFINE old == call[p]
           s0 == PlanOf(old.attempt).session
           seen == old.seen
<1>1. /\ old.pc = "ingesting" /\ call' = [call EXCEPT ![p] = NoCall]
      /\ sessions' = SessionsAfter(PlanOf(old.attempt), seen)
      /\ UNCHANGED <<attempts, secrets, target, logins, carried>>
  BY DEF CommitIngest, At, Go, Return, world
<1>2. /\ seen \in {None} \cup SessionState
      /\ seen # None => s0 \in SessionIds /\ sessions[s0] # None
  BY <1>1, CallIs DEF Calls, SessionState, Matches
<1>3. sessions \in [SessionIds -> Rows \cup {None}]
  BY DEF Inv, TypeOK
<1>4. SameRows
  <2>1. CASE seen = None
    BY <1>1, <2>1, SameRowsIs DEF SessionsAfter, Inv
  <2>2. CASE seen # None
    <3>1. sessions' = [sessions EXCEPT ![s0].state = seen]
      BY <1>1, <2>2 DEF SessionsAfter
    <3> HIDE DEF s0, seen
    <3> QED
      BY <1>2, <2>2, <3>1, StateStep
  <2> QED
    BY <2>1, <2>2
<1>5. call' \in [Processes -> Calls] /\ \A q \in Processes : Follows(call[q], call'[q])
  <2>1. call \in [Processes -> Calls]
    BY DEF Inv, TypeOK
  <2> QED
    BY <1>1, <2>1, NoCallIs, NoCallFollows DEF Follows
<1>6. SameAttempts /\ target' \in Targets /\ CookieOfItsOwn'
  BY <1>1, SameAttemptsIs DEF Inv, TypeOK, CookieOfItsOwn
<1>7. /\ secrets' \in [Processes -> [SessionIds -> {None} \cup Cookies]]
      /\ \A q \in Processes, s \in SessionIds :
            secrets'[q][s] # None => sessions[s] # None /\ secrets'[q][s] = CookieOf(s)
  BY <1>1 DEF Inv, TypeOK, SecretsMatch
<1> QED
  BY <1>1, <1>4, <1>5, <1>6, <1>7, StepKeeps

-----------------------------------------------------------------------------
(* What else happens.                                                      *)

\* A secret that is deleted leaves the others as they were.
LEMMA Forgets ==
    ASSUME Inv, secrets' \in [Processes -> [SessionIds -> {None} \cup Cookies]],
           \A q \in Processes, s \in SessionIds : secrets'[q][s] \in {None, secrets[q][s]}
    PROVE  \A q \in Processes, s \in SessionIds :
              secrets'[q][s] # None => sessions[s] # None /\ secrets'[q][s] = CookieOf(s)
BY DEF Inv, SecretsMatch

LEMMA CallsStay ==
    ASSUME Inv, UNCHANGED call
    PROVE  call' \in [Processes -> Calls] /\ \A q \in Processes : Follows(call[q], call'[q])
BY DEF Inv, TypeOK, Follows

LEMMA RevokeStep ==
    ASSUME Inv, NEW p \in Processes, NEW s0 \in SessionIds, RevokeSession(p, s0)
    PROVE  Inv'
<1>1. /\ sessions[s0] # None /\ sessions' = [sessions EXCEPT ![s0].state = "REVOKED"]
      /\ secrets' = [secrets EXCEPT ![p][s0] = None]
      /\ UNCHANGED <<attempts, call, target, logins, carried>>
  BY DEF RevokeSession, world
<1>2. "REVOKED" \in SessionState
  BY DEF SessionState
<1>3. SameRows
  BY <1>1, <1>2, StateStep
<1>4. secrets \in [Processes -> [SessionIds -> {None} \cup Cookies]]
  BY DEF Inv, TypeOK
<1>5. /\ secrets' \in [Processes -> [SessionIds -> {None} \cup Cookies]]
      /\ \A q \in Processes, s \in SessionIds : secrets'[q][s] \in {None, secrets[q][s]}
  BY <1>1, <1>4
<1>6. SameAttempts /\ target' \in Targets /\ CookieOfItsOwn'
  BY <1>1, SameAttemptsIs DEF Inv, TypeOK, CookieOfItsOwn
<1> QED
  BY <1>1, <1>3, <1>5, <1>6, Forgets, CallsStay, StepKeeps

LEMMA CrashStep ==
    ASSUME Inv, NEW p \in Processes, Crash(p)
    PROVE  Inv'
<1>1. /\ secrets' = [secrets EXCEPT ![p] = [s \in SessionIds |-> None]]
      /\ call' = [call EXCEPT ![p] = NoCall]
      /\ UNCHANGED <<attempts, sessions, target, logins, carried>>
  BY DEF Crash, Return, Go, rows
<1>2. secrets \in [Processes -> [SessionIds -> {None} \cup Cookies]]
  BY DEF Inv, TypeOK
<1>3. /\ secrets' \in [Processes -> [SessionIds -> {None} \cup Cookies]]
      /\ \A q \in Processes, s \in SessionIds : secrets'[q][s] \in {None, secrets[q][s]}
  BY <1>1, <1>2
<1>4. call' \in [Processes -> Calls] /\ \A q \in Processes : Follows(call[q], call'[q])
  <2>1. call \in [Processes -> Calls]
    BY DEF Inv, TypeOK
  <2> QED
    BY <1>1, <2>1, NoCallIs, NoCallFollows DEF Follows
<1>5. SameRows /\ SameAttempts /\ target' \in Targets /\ CookieOfItsOwn'
  BY <1>1, SameRowsIs, SameAttemptsIs DEF Inv, TypeOK, CookieOfItsOwn
<1> QED
  BY <1>1, <1>3, <1>4, <1>5, Forgets, StepKeeps

\* What others do at the target, and steps that change nothing here.
LEMMA WorldStep ==
    ASSUME Inv, UNCHANGED <<attempts, sessions, secrets, call, logins, carried>>,
           target' \in Targets
    PROVE  Inv'
<1>1. SameRows /\ SameAttempts /\ CookieOfItsOwn'
  BY SameRowsIs, SameAttemptsIs DEF Inv, CookieOfItsOwn
<1>2. /\ secrets' \in [Processes -> [SessionIds -> {None} \cup Cookies]]
      /\ \A q \in Processes, s \in SessionIds : secrets'[q][s] \in {None, secrets[q][s]}
  BY DEF Inv, TypeOK
<1> QED
  BY <1>1, <1>2, Forgets, CallsStay, StepKeeps

LEMMA OtherSteps ==
    ASSUME Inv, EndSession \/ ChangeReader \/ ChangeDelegate \/ MoveWorkflow
    PROVE  Inv'
<1>1. UNCHANGED <<attempts, sessions, secrets, call, logins, carried>>
  BY DEF EndSession, ChangeReader, ChangeDelegate, MoveWorkflow, rows
<1>2. target \in Targets
  BY DEF Inv, TypeOK
<1>3. target' \in Targets
  <2>1. CASE EndSession
    BY <1>2, <2>1 DEF EndSession
  <2>2. CASE ChangeReader
    BY <1>2, <2>2 DEF ChangeReader, Targets
  <2>3. CASE ChangeDelegate
    BY <1>2, <2>3 DEF ChangeDelegate, Targets
  <2>4. CASE MoveWorkflow
    BY <1>2, <2>4 DEF MoveWorkflow, Targets
  <2> QED
    BY <2>1, <2>2, <2>3, <2>4
<1> QED
  BY <1>1, <1>3, WorldStep

-----------------------------------------------------------------------------
(* The theorems.                                                           *)

LEMMA InitInv == Init => Inv
<1> SUFFICES ASSUME Init PROVE Inv
  OBVIOUS
<1>1. call \in [Processes -> Calls]
  BY NoCallIs DEF Init
<1>2. target \in Targets
  BY DEF Init, Targets
<1>3. TypeOK
  BY <1>1, <1>2 DEF Init, TypeOK
<1>4. \A p \in Processes : call[p] = NoCall
  BY DEF Init
<1>5. \A p \in Processes, s \in SessionIds : ~MaySend(call[p], s)
  BY <1>4, NoCallIs DEF MaySend
<1>6. Logins
  BY <1>5 DEF Init, Logins, LoginSentOnce
<1>7. LoginRows
  BY DEF Init, LoginRows
<1>8. CallsMatch
  BY <1>4, NoCallIs DEF CallsMatch, Authorized
<1>9. SecretsMatch
  BY DEF Init, SecretsMatch
<1> QED
  BY <1>3, <1>6, <1>7, <1>8, <1>9 DEF Inv, Init, CookieOfItsOwn

LEMMA NextInv == Inv /\ [Next]_vars => Inv'
<1> SUFFICES ASSUME Inv, [Next]_vars PROVE Inv'
  OBVIOUS
<1>1. ASSUME NEW p \in Processes,
             \/ \E e \in Experiments : StartExecute(p, e)
             \/ \E a \in AttemptIds : ResumeAuthorized(p, a)
      PROVE  Inv'
  BY <1>1, StartStep
<1>2. ASSUME NEW p \in Processes, AllowExecution(p)
      PROVE  Inv'
  BY <1>2, AllowStep
<1>3. ASSUME NEW p \in Processes,
             \/ RejectInput(p) \/ DenyExecution(p) \/ InsertConflicts(p) \/ DenyDispatch(p)
             \/ LoseWorker(p) \/ LoseOutcome(p) \/ AlreadyIngested(p) \/ RollBackIngest(p)
      PROVE  Inv'
  BY <1>3, ReturnSteps
<1>4. ASSUME NEW p \in Processes,
             \/ LoadAttempt(p) \/ CommitDispatch(p) \/ RefuseRequest(p) \/ LoseRequest(p)
             \/ Succeed(p) \/ RecordOutcome(p)
      PROVE  Inv'
  BY <1>4, MoveSteps
<1>5. ASSUME NEW p \in Processes, SendLogin(p)
      PROVE  Inv'
  BY <1>5, SendLoginStep
<1>6. ASSUME NEW p \in Processes, SendTransaction(p) \/ SendProbe(p)
      PROVE  Inv'
  BY <1>6, SendStep
<1>7. ASSUME NEW p \in Processes, BeginIngest(p)
      PROVE  Inv'
  BY <1>7, BeginIngestStep
<1>8. ASSUME NEW p \in Processes, CommitIngest(p)
      PROVE  Inv'
  BY <1>8, CommitIngestStep
<1>9. ASSUME NEW p \in Processes, NEW s \in SessionIds, RevokeSession(p, s)
      PROVE  Inv'
  BY <1>9, RevokeStep
<1>10. ASSUME NEW p \in Processes, Crash(p)
       PROVE  Inv'
  BY <1>10, CrashStep
<1>11. CASE EndSession \/ ChangeReader \/ ChangeDelegate \/ MoveWorkflow
  BY <1>11, OtherSteps
<1>12. CASE UNCHANGED vars
  <2>1. target' \in Targets /\ UNCHANGED <<attempts, sessions, secrets, call, logins, carried>>
    BY <1>12 DEF vars, rows, world, Inv, TypeOK
  <2> QED
    BY <2>1, WorldStep
<1> QED
  BY <1>1, <1>2, <1>3, <1>4, <1>5, <1>6, <1>7, <1>8, <1>9, <1>10, <1>11, <1>12 DEF Next

\* The rows, what the calls have read, and the secrets of the processes agree.
THEOREM InvariantHolds == Spec => []Inv
BY InitInv, NextInv, PTL DEF Spec

\* Whatever the plans, however many controllers race through authorize, dispatch and
\* resume, and wherever they crash: the target gets the credentials of a session once.
THEOREM LoginTheorem == Spec => []LoginSentOnce
<1>1. Inv => LoginSentOnce
  BY DEF Inv, Logins
<1> QED
  BY <1>1, InvariantHolds, PTL

\* Whatever is captured, expired, revoked or rolled back meanwhile: the cookie of a
\* request is one its own identity, run, session and origin was given.
THEOREM CookieTheorem == Spec => []CookieOfItsOwn
<1>1. Inv => CookieOfItsOwn
  BY DEF Inv
<1> QED
  BY <1>1, InvariantHolds, PTL

-----------------------------------------------------------------------------
(* A missing check is only concluded where one was missing.                *)

\* A workflow is approved by somebody.
TargetHonest == target \in Targets /\ (target.state # "APPROVED" => target.approvedBy = None)

Innocent(c) == c.attempt \notin breached \cup meddled

\* Who reads the account of another was granted it, as the answer says, or breached.
CrossRead(c) ==
    LET cross == c.answers["cross_object_request"] IN
    PlanOf(c.attempt).capability = "http.authorization.differential" /\ c.step > 2 =>
        /\ "cross_object_request" \in DOMAIN c.answers
        /\ cross.status = 200 => "a" \in cross.readers \/ c.attempt \in breached

\* A probe that read a pending workflow, without a delegation: until it has read it
\* back nothing was delegated, so only the flaw approves, and that is its breach.
PendingRead(c) ==
    LET pre == c.answers["pre_state_request"]  post == c.answers["post_state_request"] IN
    pre.state \in {"DRAFT", "UNDER_REVIEW"} /\ "a" \notin pre.delegated_reviewers /\ Innocent(c) =>
        /\ c.pc = "running" /\ c.step <= 4 =>
              ~target.delegated /\ (target.approvedBy = "a" => "approvals" \in target.flaws)
        /\ c.step >= 4 => "approvals" \notin target.flaws
        /\ c.step = 5 => post.approved_by # "a"

TransitionRead(c) ==
    PlanOf(c.attempt).capability = "http.state_transition" /\ c.step > 1 =>
        "pre_state_request" \in DOMAIN c.answers /\ PendingRead(c)

Groundings ==
    /\ TargetHonest
    /\ results = [a \in AttemptIds |-> results[a]]
    /\ \A p \in Processes : call[p].pc # "idle" => CrossRead(call[p]) /\ TransitionRead(call[p])
    /\ AccusationsGrounded

\* Calls that have read no more than they had; a call of no probe reads nothing of these.
ReadNoMore(old, new) ==
    \/ new.pc = "idle" \/ new.step = 1
    \/ PlanOf(new.attempt).capability \notin {"http.authorization.differential", "http.state_transition"}
    \/ /\ old.pc # "idle" /\ new.attempt = old.attempt /\ new.step = old.step
       /\ new.answers = old.answers
       /\ new.pc = "running" => old.pc = "running"

\* What may happen at the target between the reads of an innocent attempt.
WorldGoesOn ==
    /\ breached \subseteq breached' /\ meddled \subseteq meddled'
    /\ target' \in Targets /\ (target'.state # "APPROVED" => target'.approvedBy = None)
    /\ target'.flaws = target.flaws
    /\ \A p \in Processes :
          /\ call[p].pc = "running" /\ call[p].step \in 2 .. 4
          /\ call[p].attempt \notin meddled' /\ ~target.delegated
          => /\ ~target'.delegated
             /\ target'.approvedBy = "a" => target.approvedBy = "a" \/ "approvals" \in target.flaws

LEMMA StillGrounded ==
    ASSUME Inv, Groundings, WorldGoesOn, NEW p \in Processes, NEW c, c = call'[p],
           c.pc # "idle", ReadNoMore(call[p], c)
    PROVE  CrossRead(c)' /\ TransitionRead(c)'
<1>1. CASE c.step = 1 \/ PlanOf(c.attempt).capability
                           \notin {"http.authorization.differential", "http.state_transition"}
  <2>1. ~(1 > 2) /\ ~(1 > 1)
    OBVIOUS
  <2> QED
    BY <1>1, <2>1 DEF CrossRead, TransitionRead
<1>2. CASE ~(c.step = 1 \/ PlanOf(c.attempt).capability
                           \notin {"http.authorization.differential", "http.state_transition"})
  <2> DEFINE old == call[p]
  <2>1. /\ old.pc # "idle" /\ c.attempt = old.attempt /\ c.step = old.step
        /\ c.answers = old.answers /\ (c.pc = "running" => old.pc = "running")
    BY <1>2 DEF ReadNoMore
  <2>2. CrossRead(old) /\ TransitionRead(old)
    BY <2>1 DEF Groundings
  <2>3. old.step \in 1 .. 5
    BY DEF Inv, TypeOK, Calls
  <2>4. /\ breached \subseteq breached' /\ meddled \subseteq meddled'
        /\ target'.flaws = target.flaws
        /\ /\ old.pc = "running" /\ old.step \in 2 .. 4
           /\ old.attempt \notin meddled' /\ ~target.delegated
           => /\ ~target'.delegated
              /\ target'.approvedBy = "a" => target.approvedBy = "a" \/ "approvals" \in target.flaws
    BY DEF WorldGoesOn
  <2> HIDE DEF old
  <2>5. CrossRead(c)'
    BY <2>1, <2>2, <2>4 DEF CrossRead
  <2>6. TransitionRead(c)'
    <3> SUFFICES ASSUME PlanOf(c.attempt).capability = "http.state_transition", c.step > 1
                 PROVE  "pre_state_request" \in DOMAIN c.answers /\ PendingRead(c)'
      BY DEF TransitionRead
    <3>1. "pre_state_request" \in DOMAIN c.answers /\ PendingRead(old)
      BY <2>1, <2>2 DEF TransitionRead
    <3>2. Innocent(c)' => Innocent(old) /\ old.attempt \notin meddled'
      BY <2>1, <2>4 DEF Innocent
    <3>3. c.step <= 4 => old.step \in 2 .. 4 /\ old.step <= 4
      BY <2>1, <2>3
    <3>4. PendingRead(c)'
      BY <2>1, <2>4, <3>1, <3>2, <3>3 DEF PendingRead
    <3> QED
      BY <3>1, <3>4
  <2> QED
    BY <2>5, <2>6
<1> QED
  BY <1>1, <1>2

\* A step that reads nothing and keeps the results.
LEMMA QuietStep ==
    ASSUME Inv, Groundings, WorldGoesOn, UNCHANGED results,
           \A p \in Processes : ReadNoMore(call[p], call'[p])
    PROVE  Groundings'
<1>1. TargetHonest'
  BY DEF WorldGoesOn, TargetHonest
<1>2. ASSUME NEW p \in Processes, NEW c, c = call'[p], c.pc # "idle"
      PROVE  CrossRead(c)' /\ TransitionRead(c)'
  BY <1>2, StillGrounded
<1>3. \A p \in Processes : call'[p].pc # "idle" => CrossRead(call[p])' /\ TransitionRead(call[p])'
  BY <1>2 DEF CrossRead, TransitionRead, PendingRead, Innocent
<1>4. breached \subseteq breached' /\ meddled \subseteq meddled' /\ AccusationsGrounded
  BY DEF Groundings, WorldGoesOn
<1>5. AccusationsGrounded'
  BY <1>4 DEF AccusationsGrounded, Concludes
<1> QED
  BY <1>1, <1>3, <1>5 DEF Groundings

LEMMA WorldRests ==
    ASSUME Inv, Groundings, UNCHANGED <<target, breached, meddled>>
    PROVE  WorldGoesOn
BY DEF Groundings, TargetHonest, WorldGoesOn

\* Steps of a call that leave the target alone, except for the insertion of a result.
LEMMA QuietCallSteps ==
    ASSUME Inv, Groundings, NEW p \in Processes, NEW c,
           call' = [call EXCEPT ![p] = c], ReadNoMore(call[p], c),
           UNCHANGED <<results, target, breached, meddled>>
    PROVE  Groundings'
<1>1. call \in [Processes -> Calls]
  BY DEF Inv, TypeOK
<1>2. \A q \in Processes : q # p => call'[q] = call[q]
  BY <1>1
<1>3. \A q \in Processes : ReadNoMore(call[q], call'[q])
  <2> SUFFICES ASSUME NEW q \in Processes
               PROVE  ReadNoMore(call[q], call'[q])
    OBVIOUS
  <2>1. CASE q = p
    BY <1>1, <2>1
  <2>2. CASE q # p
    <3>1. call'[q] = call[q]
      BY <1>2, <2>2
    <3> QED
      BY <3>1 DEF ReadNoMore
  <2> QED
    BY <2>1, <2>2
<1> QED
  BY <1>3, WorldRests, QuietStep

LEMMA EndsReadNoMore ==
    ASSUME NEW old \in Calls, NEW pc, NEW status, old.pc # "idle", pc # "running"
    PROVE  ReadNoMore(old, [old EXCEPT !.pc = pc, !.status = status])
BY DEF ReadNoMore, Calls

LEMMA GroundedMoves ==
    ASSUME Inv, Groundings, NEW p \in Processes,
           \/ \E e \in Experiments : StartExecute(p, e)
           \/ \E a \in AttemptIds : ResumeAuthorized(p, a)
           \/ RejectInput(p) \/ DenyExecution(p) \/ InsertConflicts(p) \/ DenyDispatch(p)
           \/ LoseWorker(p) \/ LoseOutcome(p) \/ AlreadyIngested(p) \/ RollBackIngest(p)
           \/ LoadAttempt(p) \/ CommitDispatch(p) \/ RefuseRequest(p) \/ LoseRequest(p)
           \/ Succeed(p) \/ RecordOutcome(p) \/ AllowExecution(p) \/ BeginIngest(p)
    PROVE  Groundings'
<1>1. UNCHANGED <<results, target, breached, meddled>>
  BY DEF StartExecute, ResumeAuthorized, RejectInput, DenyExecution, InsertConflicts, DenyDispatch,
         LoseWorker, LoseOutcome, AlreadyIngested, RollBackIngest, LoadAttempt, CommitDispatch,
         RefuseRequest, LoseRequest, Succeed, RecordOutcome, AllowExecution, BeginIngest, rows, world
<1>2. call[p] \in Calls /\ (call[p].pc # "idle" => Matches(call[p]))
  BY CallIs
<1>3. \E c : call' = [call EXCEPT ![p] = c] /\ ReadNoMore(call[p], c)
  <2>1. CASE Return(p)
    BY <2>1, NoCallIs DEF Return, Go, ReadNoMore
  <2>2. CASE \/ \E e \in Experiments : StartExecute(p, e)
             \/ \E a \in AttemptIds : ResumeAuthorized(p, a)
    <3>1. PICK pc, a : call' = [call EXCEPT ![p] = [NoCall EXCEPT !.pc = pc, !.attempt = a]]
      BY <2>2 DEF StartExecute, ResumeAuthorized, Go
    <3>2. [NoCall EXCEPT !.pc = pc, !.attempt = a].step = 1
      BY DEF NoCall
    <3> QED
      BY <3>1, <3>2 DEF ReadNoMore
  <2>3. CASE LoadAttempt(p) \/ CommitDispatch(p) \/ AllowExecution(p)
    <3>1. call[p].step = 1
      BY <1>2, <2>3 DEF LoadAttempt, CommitDispatch, AllowExecution, Allowed, At, Matches
    <3>2. CASE LoadAttempt(p) \/ CommitDispatch(p)
      <4>1. CASE ~Return(p)
        <5>1. PICK pc \in Pcs : call' = [call EXCEPT ![p] = [call[p] EXCEPT !.pc = pc]]
          BY <3>2, <4>1 DEF LoadAttempt, CommitDispatch, Go, Pcs
        <5>2. [call[p] EXCEPT !.pc = pc].step = 1
          BY <1>2, <3>1 DEF Calls
        <5> QED
          BY <5>1, <5>2 DEF ReadNoMore
      <4> QED
        BY <2>1, <4>1
    <3>3. CASE AllowExecution(p)
      <4> DEFINE secret == ResolvedSecret(p, PlanOf(call[p].attempt))
                 c == [call[p] EXCEPT !.pc = "authorized", !.envelope = TRUE, !.secret = secret]
      <4>1. call' = [call EXCEPT ![p] = c]
        BY <3>3 DEF AllowExecution, Go
      <4> HIDE DEF secret
      <4>2. c.step = 1
        BY <1>2, <3>1 DEF Calls
      <4> QED
        BY <4>1, <4>2 DEF ReadNoMore
    <3> QED
      BY <2>3, <3>2, <3>3
  <2>4. CASE RefuseRequest(p) \/ LoseRequest(p) \/ Succeed(p)
    <3>1. \E status : call' = [call EXCEPT ![p] = [call[p] EXCEPT !.pc = "answered", !.status = status]]
      BY <2>4 DEF RefuseRequest, LoseRequest, Succeed, Ends, Go
    <3>2. call[p].pc # "idle"
      BY <2>4 DEF RefuseRequest, LoseRequest, Succeed, Running, At
    <3> QED
      BY <1>2, <3>1, <3>2, EndsReadNoMore
  <2>5. CASE RecordOutcome(p)
    <3>1. call' = [call EXCEPT ![p] = [call[p] EXCEPT !.pc = "recorded"]] /\ call[p].pc = "answered"
      BY <2>5 DEF RecordOutcome, Go, At
    <3>2. ReadNoMore(call[p], [call[p] EXCEPT !.pc = "recorded"])
      BY <1>2, <3>1 DEF ReadNoMore, Calls
    <3> QED
      BY <3>1, <3>2
  <2>6. CASE BeginIngest(p)
    <3> DEFINE state == NewSessionState(p)
    <3>1. /\ call' = [call EXCEPT ![p] = [call[p] EXCEPT !.pc = "ingesting", !.seen = state]]
          /\ call[p].pc = "recorded"
      BY <2>6 DEF BeginIngest, Go, At
    <3> HIDE DEF state
    <3>2. ReadNoMore(call[p], [call[p] EXCEPT !.pc = "ingesting", !.seen = state])
      BY <1>2, <3>1 DEF ReadNoMore, Calls
    <3> QED
      BY <3>1, <3>2
  <2>7. \/ Return(p)
        \/ \E e \in Experiments : StartExecute(p, e)
        \/ \E a \in AttemptIds : ResumeAuthorized(p, a)
        \/ LoadAttempt(p) \/ CommitDispatch(p) \/ RefuseRequest(p) \/ LoseRequest(p)
        \/ Succeed(p) \/ RecordOutcome(p) \/ AllowExecution(p) \/ BeginIngest(p)
    BY DEF RejectInput, DenyExecution, InsertConflicts, DenyDispatch, LoseWorker, LoseOutcome,
           AlreadyIngested, RollBackIngest
  <2> QED
    BY <2>1, <2>2, <2>3, <2>4, <2>5, <2>6, <2>7
<1> QED
  BY <1>1, <1>3, QuietCallSteps

\* What else happens, at the target and elsewhere.
LEMMA GroundedWorld ==
    ASSUME Inv, Groundings,
           \/ UNCHANGED vars \/ EndSession \/ ChangeReader \/ ChangeDelegate \/ MoveWorkflow
           \/ \E p \in Processes, s \in SessionIds : RevokeSession(p, s)
    PROVE  Groundings'
<1>1. UNCHANGED <<results, call>>
  BY DEF vars, rows, EndSession, ChangeReader, ChangeDelegate, MoveWorkflow, RevokeSession
<1>2. target \in Targets /\ (target.state # "APPROVED" => target.approvedBy = None)
  BY DEF Groundings, TargetHonest
<1>3. WorldGoesOn
  <2>1. CASE \/ UNCHANGED vars \/ EndSession
             \/ \E p \in Processes, s \in SessionIds : RevokeSession(p, s)
    BY <2>1, WorldRests DEF vars, world, EndSession, RevokeSession
  <2>2. CASE ChangeReader
    BY <1>2, <2>2 DEF ChangeReader, Targets, WorldGoesOn
  <2>3. CASE ChangeDelegate
    <3>1. target' = [target EXCEPT !.delegated = ~@] /\ breached' = breached
      BY <2>3 DEF ChangeDelegate
    <3>2. /\ target' \in Targets /\ target'.state = target.state
          /\ target'.approvedBy = target.approvedBy /\ target'.flaws = target.flaws
      BY <1>2, <3>1 DEF Targets
    <3>3. meddled \subseteq meddled'
      BY <2>3 DEF ChangeDelegate
    <3>4. ASSUME NEW p \in Processes, call[p].pc = "running", call[p].step \in 2 .. 4,
                 ~target.delegated
          PROVE  call[p].attempt \in meddled'
      BY <2>3, <3>4 DEF ChangeDelegate, BetweenTheReads, At
    <3> QED
      BY <1>2, <3>1, <3>2, <3>3, <3>4 DEF WorldGoesOn
  <2>4. CASE MoveWorkflow
    <3>1. UNCHANGED <<breached, meddled>>
      BY <2>4 DEF MoveWorkflow
    <3>2. /\ target' \in Targets /\ target'.flaws = target.flaws
          /\ target'.delegated = target.delegated
          /\ target'.state # "APPROVED" => target'.approvedBy = None
          /\ target'.approvedBy = "a" => target.approvedBy = "a"
      BY <1>2, <2>4 DEF MoveWorkflow, Targets
    <3> QED
      BY <3>1, <3>2 DEF WorldGoesOn
  <2> QED
    BY <2>1, <2>2, <2>3, <2>4
<1>4. \A p \in Processes : ReadNoMore(call[p], call'[p])
  BY <1>1 DEF ReadNoMore
<1> QED
  BY <1>1, <1>3, <1>4, QuietStep

LEMMA GroundedCrash ==
    ASSUME Inv, Groundings, NEW p \in Processes, Crash(p)
    PROVE  Groundings'
<1>1. /\ call' = [call EXCEPT ![p] = NoCall] /\ UNCHANGED <<results, target, breached, meddled>>
  BY DEF Crash, Return, Go, rows
<1>2. ReadNoMore(call[p], NoCall)
  BY NoCallIs DEF ReadNoMore
<1> QED
  BY <1>1, <1>2, QuietCallSteps

\* The requests of the probes, in their order.
LEMMA ProbeRequests ==
    ASSUME NEW a \in AttemptIds, NEW i \in 1 .. Len(Planned(PlanOf(a))), NEW request,
           request = Planned(PlanOf(a))[i]
    PROVE  /\ request.key \in {"login", "transaction"} <=>
                PlanOf(a).capability \in {"http.authentication", "http.transaction"}
           /\ PlanOf(a).capability = "http.authorization.differential" =>
                /\ request.area \in {"vulnerable", "secure_only", "secure"} /\ request.method = "GET"
                /\ request.key = "cross_object_request" <=> i = 2
           /\ PlanOf(a).capability = "http.state_transition" =>
                \/ i = 1 /\ request = Request("pre_state_request", "GET", "workflow")
                \/ i = 2 /\ request = Request("control_request", "POST", "control")
                \/ i = 3 /\ request = Request("transition_request", "POST", "workflow")
                \/ i = 4 /\ request = Request("post_state_request", "GET", "workflow")
<1> DEFINE plan == PlanOf(a)
           planned == Planned(plan)
<1>1. /\ plan.capability \in HTTP_SCOPE_CAPABILITIES
      /\ plan.mode \in {"vulnerable", "secure_only"}
  BY PlanIs, HttpAssumption
<1> HIDE DEF plan
<1>2. CASE plan.capability = "http.authentication"
  <2>1. planned = <<Request("login", "POST", "login")>>
    BY <1>2 DEF Planned
  <2>2. i = 1 /\ planned[1].key = "login"
    BY <2>1 DEF Request, plan
  <2> QED
    BY <1>2, <2>2 DEF plan
<1>3. CASE plan.capability = "http.transaction"
  <2>1. planned = <<Request("transaction", "GET", "page")>>
    BY <1>3 DEF Planned
  <2>2. i = 1 /\ planned[1].key = "transaction"
    BY <2>1 DEF Request, plan
  <2> QED
    BY <1>3, <2>2 DEF plan
<1>4. CASE plan.capability = "http.authorization.differential"
  <2>1. planned = PlannedDifferential(plan.mode)
    BY <1>4 DEF Planned
  <2>2. /\ planned[1] = Request("owner_request", "GET", plan.mode)
        /\ planned[2] = Request("cross_object_request", "GET", plan.mode)
        /\ planned[3] = Request("secure_control", "GET", "secure")
        /\ planned[4] = Request("unauthenticated_control", "GET", plan.mode)
        /\ Len(planned) = 4
    BY <2>1 DEF PlannedDifferential
  <2>3. i \in {1, 2, 3, 4}
    BY <2>2 DEF plan
  <2>4. /\ request.area \in {"vulnerable", "secure_only", "secure"} /\ request.method = "GET"
        /\ request.key \notin {"login", "transaction"}
        /\ request.key = "cross_object_request" <=> i = 2
    BY <1>1, <2>2, <2>3 DEF Request, plan
  <2> QED
    BY <1>4, <2>4 DEF plan
<1>5. CASE plan.capability = "http.state_transition"
  <2>1. planned = PlannedTransition
    BY <1>5 DEF Planned
  <2>2. /\ planned[1] = Request("pre_state_request", "GET", "workflow")
        /\ planned[2] = Request("control_request", "POST", "control")
        /\ planned[3] = Request("transition_request", "POST", "workflow")
        /\ planned[4] = Request("post_state_request", "GET", "workflow")
        /\ Len(planned) = 4
    BY <2>1 DEF PlannedTransition
  <2>3. i \in {1, 2, 3, 4}
    BY <2>2 DEF plan
  <2>4. request.key \notin {"login", "transaction"}
    BY <2>2, <2>3 DEF Request, plan
  <2> QED
    BY <1>5, <2>2, <2>3, <2>4 DEF plan
<1> QED
  BY <1>1, <1>2, <1>3, <1>4, <1>5 DEF HTTP_SCOPE_CAPABILITIES, plan

\* What Reads makes of a call.
LEMMA ReadsMakes ==
    ASSUME Inv, NEW p \in Processes, Running(p), NEW answer, NEW response,
           Reads(p, answer, response)
    PROVE  \E c :
              /\ call' = [call EXCEPT ![p] = c] /\ c.attempt = call[p].attempt
              /\ \/ answer # "read" /\ ReadNoMore(call[p], c)
                 \/ /\ answer = "read" /\ c.pc = "running" /\ c.step = call[p].step + 1
                    /\ c.answers = Read(call[p].answers, Current(p).key, response)
<1>1. call[p] \in Calls /\ call[p].pc = "running"
  BY RunningIs
<1>2. CASE answer # "read"
  <2> DEFINE status == FailedStatus(answer)
             c == [call[p] EXCEPT !.pc = "answered", !.status = status]
  <2>1. call' = [call EXCEPT ![p] = c]
    BY <1>2 DEF Reads, Ends, Go
  <2> HIDE DEF status
  <2>2. ReadNoMore(call[p], c) /\ c.attempt = call[p].attempt
    BY <1>1, EndsReadNoMore DEF Calls
  <2> QED
    BY <1>2, <2>1, <2>2
<1>3. CASE answer = "read"
  <2> DEFINE n == call[p].step + 1
             answers == Read(call[p].answers, Current(p).key, response)
             c == [call[p] EXCEPT !.step = n, !.answers = answers]
  <2>1. call' = [call EXCEPT ![p] = c]
    <3>1. [call[p] EXCEPT !.step = @ + 1, !.answers = Read(@, Current(p).key, response)] = c
      BY <1>1 DEF Calls
    <3> QED
      BY <1>3, <3>1 DEF Reads, Go
  <2> HIDE DEF n, answers
  <2>2. c.pc = "running" /\ c.attempt = call[p].attempt /\ c.step = n /\ c.answers = answers
    BY <1>1 DEF Calls
  <2> QED
    BY <1>3, <2>1, <2>2 DEF n, answers
<1> QED
  BY <1>2, <1>3

LEMMA CurrentIs ==
    ASSUME Inv, NEW p \in Processes, Running(p)
    PROVE  /\ call[p].attempt \in AttemptIds
           /\ call[p].step \in 1 .. Len(Planned(PlanOf(call[p].attempt)))
           /\ Current(p) = Planned(PlanOf(call[p].attempt))[call[p].step]
BY RunningIs DEF Current

LEMMA GroundedSends ==
    ASSUME Inv, Groundings, NEW p \in Processes, SendLogin(p) \/ SendTransaction(p)
    PROVE  Groundings'
<1>1. Running(p) /\ Current(p).key \in {"login", "transaction"}
  BY DEF SendLogin, SendTransaction
<1>2. PlanOf(call[p].attempt).capability \in {"http.authentication", "http.transaction"}
  BY <1>1, CurrentIs, ProbeRequests
<1>3. \E answer, response : Reads(p, answer, response)
  <2>1. CASE SendLogin(p)
    <3>1. \E accepted \in BOOLEAN, answer \in Answers :
            /\ answer = "redirect" => ~accepted
            /\ live' = IF accepted THEN live \cup {CookieFor(PlanOf(call[p].attempt))} ELSE live
            /\ Reads(p, answer,
                  IF accepted THEN [status |-> 200, cookie |-> CookieFor(PlanOf(call[p].attempt))]
                  ELSE [status |-> 401, cookie |-> None])
      BY <2>1, Zenon DEF SendLogin
    <3> QED
      BY <3>1
  <2>2. CASE SendTransaction(p)
    <3>1. \E answer \in Answers, status \in IF call[p].secret \in live THEN {200, 403} ELSE {401} :
            Reads(p, answer, [status |-> status])
      BY <2>2, Zenon DEF SendTransaction
    <3> QED
      BY <3>1
  <2> QED
    BY <2>1, <2>2
<1>4. PICK c : call' = [call EXCEPT ![p] = c] /\ c.attempt = call[p].attempt
  BY <1>1, <1>3, ReadsMakes
<1>5. ReadNoMore(call[p], c)
  BY <1>2, <1>4 DEF ReadNoMore
<1>6. UNCHANGED <<results, target, breached, meddled>>
  BY DEF SendLogin, SendTransaction, rows
<1> QED
  BY <1>4, <1>5, <1>6, QuietCallSteps

\* A request of a probe changes the workflow of an undelegated actor only by the flaw.
LEMMA RequestGoesOn ==
    ASSUME Groundings, NEW request, target' \in {target, AfterRequest(target, request)},
           breached \subseteq breached', UNCHANGED meddled
    PROVE  /\ WorldGoesOn
           /\ ~target.delegated =>
                /\ ~target'.delegated
                /\ target'.approvedBy = "a" => target.approvedBy = "a" \/ "approvals" \in target.flaws
<1>1. target \in Targets /\ (target.state # "APPROVED" => target.approvedBy = None)
  BY DEF Groundings, TargetHonest
<1>2. CASE target' = target
  BY <1>1, <1>2 DEF WorldGoesOn
<1>3. CASE target' # target
  <2>1. /\ target' = [target EXCEPT !.state = "APPROVED", !.approvedBy = "a"]
        /\ TransitionStatus(target, request) = 200
    BY <1>3 DEF AfterRequest
  <2>2. /\ target' \in Targets /\ target'.state = "APPROVED" /\ target'.flaws = target.flaws
        /\ target'.delegated = target.delegated
    BY <1>1, <2>1 DEF Targets
  <2>3. ~target.delegated => "approvals" \in target.flaws
    BY <2>1 DEF TransitionStatus, PolicyStatus
  <2> QED
    BY <2>2, <2>3 DEF WorldGoesOn
<1> QED
  BY <1>2, <1>3

\* The response to the differential probe's request for the other account.
LEMMA CrossGranted ==
    ASSUME NEW request, request.key = "cross_object_request",
           request.area \in {"vulnerable", "secure_only", "secure"},
           Response(target, request).status = 200, ~Breaches(target, request)
    PROVE  "a" \in Response(target, request).readers
<1>1. Response(target, request) = AccountResponse(target, request)
  BY DEF Response
<1>2. target.reader
  BY <1>1 DEF Breaches
<1>3. CASE request.area = "vulnerable" /\ ReadsThrough(target)
  <2>1. AccountResponse(target, request) = Account(Cross, target)
    BY <1>3 DEF AccountResponse
  <2> QED
    BY <1>1, <1>2, <2>1 DEF Account
<1>4. CASE ~(request.area = "vulnerable" /\ ReadsThrough(target))
  <2>1. AccountResponse(target, request) = Refusal(403)
    BY <1>4 DEF AccountResponse
  <2> QED
    BY <1>1, <2>1 DEF Refusal
<1> QED
  BY <1>3, <1>4

\* A probe has read one answer more.
LEMMA ProbeReads ==
    ASSUME Inv, Groundings, NEW p \in Processes, SendProbe(p), NEW c,
           c.attempt = call[p].attempt, c.pc = "running", c.step = call[p].step + 1,
           c.answers = Read(call[p].answers, Current(p).key, Response(target, Current(p))),
           target' = AfterRequest(target, Current(p)),
           breached' = IF Breaches(target, Current(p)) THEN breached \cup {call[p].attempt}
                       ELSE breached
    PROVE  CrossRead(c)' /\ TransitionRead(c)'
<1> DEFINE old == call[p]
           request == Current(p)
           response == Response(target, request)
           capability == PlanOf(old.attempt).capability
<1>1. Running(p) /\ UNCHANGED meddled
  BY DEF SendProbe
<1>2. /\ old.attempt \in AttemptIds /\ old.step \in 1 .. Len(Planned(PlanOf(old.attempt)))
      /\ request = Planned(PlanOf(old.attempt))[old.step]
  BY <1>1, CurrentIs
<1>3. /\ old.pc = "running" /\ old \in Calls /\ old.step \in 1 .. 4
  BY <1>1, RunningIs
<1>4. CrossRead(old) /\ TransitionRead(old)
  BY <1>3 DEF Groundings
<1>5. /\ capability = "http.authorization.differential" =>
           /\ request.area \in {"vulnerable", "secure_only", "secure"} /\ request.method = "GET"
           /\ request.key = "cross_object_request" <=> old.step = 2
      /\ capability = "http.state_transition" =>
           \/ old.step = 1 /\ request = Request("pre_state_request", "GET", "workflow")
           \/ old.step = 2 /\ request = Request("control_request", "POST", "control")
           \/ old.step = 3 /\ request = Request("transition_request", "POST", "workflow")
           \/ old.step = 4 /\ request = Request("post_state_request", "GET", "workflow")
  BY <1>2, ProbeRequests
<1>6. /\ DOMAIN c.answers = DOMAIN old.answers \cup {request.key}
      /\ c.answers[request.key] = response
      /\ \A k \in DOMAIN old.answers : k # request.key => c.answers[k] = old.answers[k]
  BY DEF Read
<1>7. breached \subseteq breached' /\ (Breaches(target, request) => old.attempt \in breached')
  OBVIOUS
<1>8. target \in Targets /\ (target.state # "APPROVED" => target.approvedBy = None)
  BY DEF Groundings, TargetHonest
<1>9. /\ target'.flaws = target.flaws
      /\ ~target.delegated =>
           /\ ~target'.delegated
           /\ target'.approvedBy = "a" => target.approvedBy = "a" \/ "approvals" \in target.flaws
  BY <1>1, <1>7, RequestGoesOn DEF WorldGoesOn
<1>10. /\ c.step = 2 <=> old.step = 1
       /\ c.step = 5 <=> old.step = 4
       /\ c.step > 1 /\ (c.step > 2 <=> old.step # 1) /\ (c.step <= 4 <=> old.step # 4)
       /\ (c.step >= 4 <=> old.step \in {3, 4}) /\ old.step <= 4
       /\ (old.step # 1 => old.step > 1) /\ (old.step \notin {1, 2} => old.step > 2)
       /\ (old.step >= 4 <=> old.step = 4)
  <2> DEFINE n == old.step
             m == c.step
  <2>1. n \in 1 .. 4 /\ m = n + 1
    BY <1>3
  <2> HIDE DEF n, m
  <2>2. /\ m = 2 <=> n = 1
        /\ m = 5 <=> n = 4
        /\ m > 1 /\ (m > 2 <=> n # 1) /\ (m <= 4 <=> n # 4)
        /\ (m >= 4 <=> n \in {3, 4}) /\ n <= 4
        /\ (n # 1 => n > 1) /\ (n \notin {1, 2} => n > 2) /\ (n >= 4 <=> n = 4)
    BY <2>1
  <2> QED
    BY <2>2 DEF n, m
<1> HIDE DEF old
<1>11. CrossRead(c)'
  <2> SUFFICES ASSUME capability = "http.authorization.differential", c.step > 2
               PROVE  /\ "cross_object_request" \in DOMAIN c.answers
                      /\ c.answers["cross_object_request"].status = 200 =>
                           \/ "a" \in c.answers["cross_object_request"].readers
                           \/ c.attempt \in breached'
    BY DEF CrossRead, old
  <2>1. CASE old.step = 2
    <3>1. request.key = "cross_object_request"
      BY <1>5, <2>1
    <3>2. response.status = 200 /\ ~Breaches(target, request) => "a" \in response.readers
      BY <1>5, <3>1, CrossGranted
    <3> QED
      BY <1>6, <1>7, <3>1, <3>2 DEF old
  <2>2. CASE old.step # 2
    <3>1. request.key # "cross_object_request" /\ old.step > 2
      BY <1>5, <1>10, <2>2
    <3>2. /\ "cross_object_request" \in DOMAIN old.answers
          /\ old.answers["cross_object_request"].status = 200 =>
               \/ "a" \in old.answers["cross_object_request"].readers
               \/ old.attempt \in breached
      BY <1>4, <3>1 DEF CrossRead
    <3> QED
      BY <1>6, <1>7, <3>1, <3>2 DEF old
  <2> QED
    BY <2>1, <2>2
<1>12. TransitionRead(c)'
  <2> DEFINE pre == c.answers["pre_state_request"]
             post == c.answers["post_state_request"]
  <2> SUFFICES ASSUME capability = "http.state_transition"
               PROVE  "pre_state_request" \in DOMAIN c.answers /\ PendingRead(c)'
    BY DEF TransitionRead, old
  <2>1. request.area \in {"workflow", "control"}
    BY <1>5 DEF Request
  <2>2. response = WorkflowResponse(target, request)
    BY <2>1 DEF Response
  <2>3. /\ response.state = target.state /\ response.approved_by = target.approvedBy
        /\ "a" \in response.delegated_reviewers <=> target.delegated
    BY <1>8, <2>2 DEF WorkflowResponse, Record
  <2>4. Innocent(c)' => Innocent(old) /\ ~Breaches(target, request)
    BY <1>1, <1>7 DEF Innocent, old
  <2>5. CASE old.step = 1
    <3>1. request.key = "pre_state_request" /\ request.method = "GET"
      BY <1>5, <2>5 DEF Request
    <3>2. target' = target
      BY <3>1 DEF AfterRequest
    <3>3. pre = response /\ "pre_state_request" \in DOMAIN c.answers
      BY <1>6, <3>1
    <3>4. None # "a"
      BY HttpAssumption
    <3>5. c.step = 2 /\ ~(c.step >= 4) /\ c.step # 5
      BY <1>10, <2>5
    <3> HIDE DEF pre, response
    <3>6. pre.state \in {"DRAFT", "UNDER_REVIEW"} /\ "a" \notin pre.delegated_reviewers =>
            ~target.delegated /\ target.approvedBy # "a"
      BY <1>8, <2>3, <3>3, <3>4
    <3> QED
      BY <3>2, <3>3, <3>5, <3>6 DEF PendingRead, pre
  <2>6. CASE old.step # 1
    <3>1. request.key # "pre_state_request"
      BY <1>5, <2>6 DEF Request
    <3>2. "pre_state_request" \in DOMAIN old.answers /\ PendingRead(old)
      BY <1>4, <1>10, <2>6 DEF TransitionRead
    <3>3. pre = old.answers["pre_state_request"] /\ "pre_state_request" \in DOMAIN c.answers
      BY <1>6, <3>1, <3>2
    <3> HIDE DEF pre, response
    <3> SUFFICES ASSUME pre.state \in {"DRAFT", "UNDER_REVIEW"}, "a" \notin pre.delegated_reviewers,
                        Innocent(c)'
                 PROVE  /\ c.step <= 4 => ~target'.delegated
                                          /\ (target'.approvedBy = "a" => "approvals" \in target'.flaws)
                        /\ c.step >= 4 => "approvals" \notin target'.flaws
                        /\ c.step = 5 => post.approved_by # "a"
      BY <3>3 DEF PendingRead, pre, post
    <3>4. /\ ~target.delegated /\ (target.approvedBy = "a" => "approvals" \in target.flaws)
          /\ old.step = 4 => "approvals" \notin target.flaws
      BY <1>3, <1>10, <2>4, <3>2, <3>3 DEF PendingRead, old
    <3>5. old.step = 3 => "approvals" \notin target.flaws
      <4> SUFFICES ASSUME old.step = 3, "approvals" \in target.flaws
                   PROVE  Breaches(target, request)
        BY <2>4
      <4>1. request.key = "transition_request" /\ request.area = "workflow"
        BY <1>5 DEF Request
      <4>2. TransitionStatus(target, request) = 200
        BY <4>1 DEF TransitionStatus
      <4>3. PolicyStatus(target) # 200
        BY <3>4 DEF PolicyStatus
      <4> QED
        BY <4>1, <4>2, <4>3 DEF Breaches
    <3>6. old.step = 4 => post.approved_by # "a"
      <4> SUFFICES ASSUME old.step = 4
                   PROVE  post.approved_by # "a"
        OBVIOUS
      <4>1. request.key = "post_state_request"
        BY <1>5 DEF Request
      <4>2. post = response
        BY <1>6, <4>1 DEF response
      <4> QED
        BY <2>3, <3>4, <4>2
    <3> QED
      BY <1>9, <1>10, <3>4, <3>5, <3>6
  <2> QED
    BY <2>5, <2>6
<1> QED
  BY <1>11, <1>12

LEMMA GroundedProbe ==
    ASSUME Inv, Groundings, NEW p \in Processes, SendProbe(p)
    PROVE  Groundings'
<1>1. Running(p) /\ UNCHANGED <<results, meddled>>
  BY DEF SendProbe, rows
<1>2. PICK answer \in Answers :
        /\ Reads(p, answer, Response(target, Current(p)))
        /\ IF answer = "redirect" THEN UNCHANGED <<target, breached>>
           ELSE /\ target' = AfterRequest(target, Current(p))
                /\ breached' = IF Breaches(target, Current(p))
                               THEN breached \cup {call[p].attempt} ELSE breached
  BY Zenon DEF SendProbe
<1>3. target' \in {target, AfterRequest(target, Current(p))} /\ breached \subseteq breached'
  BY <1>2
<1>4. WorldGoesOn
  BY <1>1, <1>3, RequestGoesOn
<1>5. PICK c :
        /\ call' = [call EXCEPT ![p] = c] /\ c.attempt = call[p].attempt
        /\ \/ answer # "read" /\ ReadNoMore(call[p], c)
           \/ /\ answer = "read" /\ c.pc = "running" /\ c.step = call[p].step + 1
              /\ c.answers = Read(call[p].answers, Current(p).key, Response(target, Current(p)))
  BY <1>1, <1>2, ReadsMakes
<1>6. call \in [Processes -> Calls]
  BY DEF Inv, TypeOK
<1>7. call'[p] = c /\ \A q \in Processes : q # p => call'[q] = call[q]
  BY <1>5, <1>6
<1>8. ASSUME NEW q \in Processes, NEW d, d = call'[q], d.pc # "idle"
      PROVE  CrossRead(d)' /\ TransitionRead(d)'
  <2>1. CASE ReadNoMore(call[q], d)
    BY <1>4, <1>8, <2>1, StillGrounded
  <2>2. CASE ~ReadNoMore(call[q], d)
    <3>1. q = p /\ d = c
      BY <1>7, <1>8, <2>2 DEF ReadNoMore
    <3>2. /\ answer = "read" /\ c.pc = "running" /\ c.step = call[p].step + 1
          /\ c.answers = Read(call[p].answers, Current(p).key, Response(target, Current(p)))
      BY <1>5, <2>2, <3>1
    <3>3. /\ target' = AfterRequest(target, Current(p))
          /\ breached' = IF Breaches(target, Current(p)) THEN breached \cup {call[p].attempt}
                         ELSE breached
      BY <1>2, <3>2
    <3>4. CrossRead(c)' /\ TransitionRead(c)'
      BY <1>5, <3>2, <3>3, ProbeReads
    <3> QED
      BY <3>1, <3>4
  <2> QED
    BY <2>1, <2>2
<1>9. \A q \in Processes : call'[q].pc # "idle" => CrossRead(call[q])' /\ TransitionRead(call[q])'
  BY <1>8 DEF CrossRead, TransitionRead, PendingRead, Innocent
<1>10. TargetHonest'
  BY <1>4 DEF WorldGoesOn, TargetHonest
<1>11. breached \subseteq breached' /\ meddled \subseteq meddled' /\ AccusationsGrounded
  BY <1>4 DEF Groundings, WorldGoesOn
<1>12. AccusationsGrounded'
  BY <1>1, <1>11 DEF AccusationsGrounded, Concludes
<1> QED
  BY <1>1, <1>9, <1>10, <1>12 DEF Groundings

\* What the evaluators conclude a missing check from.
LEMMA DifferentialConcludes ==
    ASSUME NEW raw, Verdict("http.authorization.differential",
                            Normalize("http.authorization.differential", raw), None)
                      = "CONSISTENT_WITH_PREDICTION"
    PROVE  raw.cross_object_request.status = 200 /\ "a" \notin raw.cross_object_request.readers
<1> DEFINE observed == NormalizeDifferential(raw)
<1>1. /\ observed.cross_status = raw.cross_object_request.status
      /\ observed.cross_readers = raw.cross_object_request.readers
  BY DEF NormalizeDifferential
<1>2. Normalize("http.authorization.differential", raw) = observed
  BY DEF Normalize
<1> HIDE DEF observed
<1>3. DifferentialVerdict(observed, None) = "CONSISTENT_WITH_PREDICTION"
  BY <1>2 DEF Verdict, Absence
<1>4. observed.cross_status = 200 /\ "a" \notin observed.cross_readers
  BY <1>3 DEF DifferentialVerdict, GrantedToActor
<1> QED
  BY <1>1, <1>4

LEMMA TransitionConcludes ==
    ASSUME NEW raw, Verdict("http.state_transition", Normalize("http.state_transition", raw), None)
                      = "CONSISTENT_WITH_PREDICTION"
    PROVE  /\ raw.pre_state_request.state \in {"DRAFT", "UNDER_REVIEW"}
           /\ "a" \notin raw.pre_state_request.delegated_reviewers
           /\ raw.post_state_request.approved_by = "a"
<1> DEFINE observed == NormalizeTransition(raw)
<1>1. /\ observed.pre_state = raw.pre_state_request.state
      /\ observed.delegated_reviewers = raw.pre_state_request.delegated_reviewers
      /\ observed.approved_by = raw.post_state_request.approved_by
  BY DEF NormalizeTransition
<1>2. Normalize("http.state_transition", raw) = observed
  BY DEF Normalize
<1> HIDE DEF observed
<1>3. TransitionVerdict(observed, None) = "CONSISTENT_WITH_PREDICTION"
  BY <1>2 DEF Verdict, Absence
<1>4. ViolatesWorkflow(observed) /\ BecameApproved(observed)
  BY <1>3 DEF TransitionVerdict
<1> QED
  BY <1>1, <1>4 DEF ViolatesWorkflow, Delegated, BecameApproved

\* The result of a probe that is ingested accuses nobody wrongly.
LEMMA ProbeAccuses ==
    ASSUME Inv, Groundings, NEW p \in Processes, call[p].pc = "ingesting",
           call[p].status = "SUCCEEDED",
           NEW capability \in {"http.authorization.differential", "http.state_transition"},
           PlanOf(call[p].attempt).capability = capability,
           Verdict(capability, Normalize(capability, call[p].answers), None)
             = "CONSISTENT_WITH_PREDICTION"
    PROVE  call[p].attempt \in breached \cup meddled
<1> DEFINE c == call[p]
<1>1. c \in Calls /\ Matches(c) /\ c.attempt \in AttemptIds /\ CrossRead(c) /\ TransitionRead(c)
  BY CallIs DEF Groundings
<1>2. Len(Planned(PlanOf(c.attempt))) = 4
  <2>1. CASE capability = "http.authorization.differential"
    BY <2>1 DEF Planned, PlannedDifferential
  <2>2. CASE capability = "http.state_transition"
    BY <2>2 DEF Planned, PlannedTransition
  <2> QED
    BY <2>1, <2>2
<1>3. c.step > 4 /\ c.step \in 1 .. 5
  BY <1>1, <1>2 DEF Matches, Calls
<1> HIDE DEF c
<1>4. c.step = 5 /\ c.step > 2 /\ c.step > 1 /\ c.step >= 4
  BY <1>3
<1>5. CASE capability = "http.authorization.differential"
  <2>1. /\ c.answers.cross_object_request.status = 200
        /\ "a" \notin c.answers.cross_object_request.readers
    BY <1>5, DifferentialConcludes DEF c
  <2> QED
    BY <1>1, <1>4, <1>5, <2>1 DEF CrossRead, c
<1>6. CASE capability = "http.state_transition"
  <2>1. /\ c.answers.pre_state_request.state \in {"DRAFT", "UNDER_REVIEW"}
        /\ "a" \notin c.answers.pre_state_request.delegated_reviewers
        /\ c.answers.post_state_request.approved_by = "a"
    BY <1>6, TransitionConcludes DEF c
  <2>2. PendingRead(c)
    BY <1>1, <1>4, <1>6 DEF TransitionRead, c
  <2>3. ~Innocent(c)
    BY <1>4, <2>1, <2>2 DEF PendingRead
  <2> QED
    BY <2>3 DEF Innocent, c
<1> QED
  BY <1>5, <1>6

LEMMA GroundedCommit ==
    ASSUME Inv, Groundings, NEW p \in Processes, CommitIngest(p)
    PROVE  Groundings'
<1> DEFINE c == call[p]
           a0 == c.attempt
           plan == PlanOf(a0)
           result == ResultOf(p)
<1>1. /\ c.pc = "ingesting" /\ results' = [results EXCEPT ![a0] = result]
      /\ call' = [call EXCEPT ![p] = NoCall] /\ UNCHANGED <<target, breached, meddled>>
  BY DEF CommitIngest, At, Return, Go, world
<1>2. result.status = c.status
      /\ (c.status = "SUCCEEDED" => result.raw = RawResult(plan, c.answers))
  BY DEF ResultOf
<1>3. results = [a \in AttemptIds |-> results[a]] /\ c.attempt \in AttemptIds
  BY <1>1, CallIs DEF Groundings
<1> HIDE DEF result
<1>4. /\ results' = [a \in AttemptIds |-> results'[a]] /\ results'[a0] = result
      /\ \A a \in AttemptIds : a # a0 => results'[a] = results[a]
  BY <1>1, <1>3
<1>5. TargetHonest' /\ WorldGoesOn
  BY <1>1, WorldRests DEF Groundings, TargetHonest
<1>6. ASSUME NEW q \in Processes, NEW d, d = call'[q], d.pc # "idle"
      PROVE  CrossRead(d)' /\ TransitionRead(d)'
  <2>1. call \in [Processes -> Calls]
    BY DEF Inv, TypeOK
  <2>2. ReadNoMore(call[q], d)
    BY <1>1, <1>6, <2>1, NoCallIs DEF ReadNoMore
  <2> QED
    BY <1>5, <1>6, <2>2, StillGrounded
<1>7. \A q \in Processes : call'[q].pc # "idle" => CrossRead(call[q])' /\ TransitionRead(call[q])'
  BY <1>6 DEF CrossRead, TransitionRead, PendingRead, Innocent
<1>8. AccusationsGrounded'
  <2> SUFFICES ASSUME NEW a \in AttemptIds, NEW capability,
                      capability = PlanOf(a).capability,
                      results'[a] # None, results'[a].status = "SUCCEEDED",
                      capability \in {"http.authorization.differential", "http.state_transition"},
                      Verdict(capability, Normalize(capability, results'[a].raw), None)
                        = "CONSISTENT_WITH_PREDICTION"
               PROVE  a \in breached \cup meddled
    BY <1>1 DEF AccusationsGrounded, Concludes
  <2>1. CASE a = a0
    <3>1. c.status = "SUCCEEDED" /\ result.raw = RawResult(plan, c.answers)
      BY <1>2, <1>4, <2>1
    <3>2. RawResult(plan, c.answers) = c.answers
      BY <2>1 DEF RawResult
    <3> QED
      BY <1>1, <1>4, <2>1, <3>1, <3>2, ProbeAccuses
  <2>2. CASE a # a0
    BY <1>4, <2>2 DEF Groundings, AccusationsGrounded, Concludes
  <2> QED
    BY <2>1, <2>2
<1> QED
  BY <1>4, <1>5, <1>7, <1>8 DEF Groundings

LEMMA InitGroundings == Init => Groundings
<1> SUFFICES ASSUME Init PROVE Groundings
  OBVIOUS
<1>1. TargetHonest
  BY DEF Init, TargetHonest, Targets
<1>2. \A p \in Processes : call[p].pc = "idle"
  BY NoCallIs DEF Init
<1> QED
  BY <1>1, <1>2 DEF Init, Groundings, AccusationsGrounded

LEMMA NextGroundings == Inv /\ Groundings /\ [Next]_vars => Groundings'
<1> SUFFICES ASSUME Inv, Groundings, [Next]_vars PROVE Groundings'
  OBVIOUS
<1>1. ASSUME NEW p \in Processes,
             \/ \E e \in Experiments : StartExecute(p, e)
             \/ \E a \in AttemptIds : ResumeAuthorized(p, a)
             \/ RejectInput(p) \/ DenyExecution(p) \/ InsertConflicts(p) \/ DenyDispatch(p)
             \/ LoseWorker(p) \/ LoseOutcome(p) \/ AlreadyIngested(p) \/ RollBackIngest(p)
             \/ LoadAttempt(p) \/ CommitDispatch(p) \/ RefuseRequest(p) \/ LoseRequest(p)
             \/ Succeed(p) \/ RecordOutcome(p) \/ AllowExecution(p) \/ BeginIngest(p)
      PROVE  Groundings'
  BY <1>1, GroundedMoves
<1>2. ASSUME NEW p \in Processes, SendLogin(p) \/ SendTransaction(p)
      PROVE  Groundings'
  BY <1>2, GroundedSends
<1>3. ASSUME NEW p \in Processes, SendProbe(p)
      PROVE  Groundings'
  BY <1>3, GroundedProbe
<1>4. ASSUME NEW p \in Processes, CommitIngest(p)
      PROVE  Groundings'
  BY <1>4, GroundedCommit
<1>5. ASSUME NEW p \in Processes, Crash(p)
      PROVE  Groundings'
  BY <1>5, GroundedCrash
<1>6. CASE \/ UNCHANGED vars \/ EndSession \/ ChangeReader \/ ChangeDelegate \/ MoveWorkflow
           \/ \E p \in Processes, s \in SessionIds : RevokeSession(p, s)
  BY <1>6, GroundedWorld
<1> QED
  BY <1>1, <1>2, <1>3, <1>4, <1>5, <1>6 DEF Next

\* Whoever else approves, is granted or withdrawn what, and with whichever probes of
\* other attempts in between: a concluded missing check was missing, or a delegation
\* landed between the reads of the probe.
THEOREM AccusationsTheorem == Spec => []AccusationsGrounded
<1>1. Groundings => AccusationsGrounded
  BY DEF Groundings
<1>2. Spec => []Groundings
  BY InitGroundings, NextGroundings, InvariantHolds, PTL DEF Spec
<1> QED
  BY <1>1, <1>2, PTL
=============================================================================
