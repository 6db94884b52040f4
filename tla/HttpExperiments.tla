--------------------------- MODULE HttpExperiments ---------------------------
(***************************************************************************)
(* The life of an HTTP experiment and of the login sessions: Core binds a   *)
(* plan to an identity and a session, a one-shot worker sends the planned   *)
(* requests to a target that others use meanwhile, and ingestion keeps the  *)
(* cookie in the memory of the process and the state of the session in      *)
(* PostgreSQL.  Processes share the rows, never the secrets.                *)
(*                                                                         *)
(* The dispatch protocol is ExperimentDispatch's: of its attempt states     *)
(* this module tells AUTHORIZED, DISPATCHING and ENDED apart, and a ledger  *)
(* that refuses is a choice.  expires_at of a session is never set by any   *)
(* code and is left out.                                                    *)
(***************************************************************************)
EXTENDS HttpWorkers, FiniteSets

CONSTANTS
    Processes,
    Experiments,
    Plan,          \* experiment -> its plan, and the identity of the command
    Identities,    \* configured identities
    OriginOf,      \* identity -> origin of the target it is configured for
    MaxChanges     \* bound on what others do at the target

SessionState == {"NEW", "AUTHENTICATING", "ACTIVE", "EXPIRED", "REVOKED", "FAILED"}

\* A plan has one of the four capabilities and a mode of its worker, a login names
\* its session, and None is not a state, an actor or a row of a session.
ASSUME HttpAssumption ==
    /\ \A e \in Experiments :
          /\ Plan[e].capability \in HTTP_SCOPE_CAPABILITIES
          /\ Plan[e].capability = "http.authentication" => Plan[e].session # None
          /\ Plan[e].mode \in {"vulnerable", "secure_only"}
    /\ None \notin SessionState \cup {"a"}
    /\ \A e \in Experiments, state \in SessionState :
          None # [run |-> Plan[e].run, identity |-> Plan[e].identity,
                  origin |-> Plan[e].origin, state |-> state]

NoCall ==
    [pc |-> "idle", attempt |-> None, envelope |-> FALSE, secret |-> None,
     step |-> 1, answers |-> <<>>, status |-> None, seen |-> None]

VARIABLES
    attempts,      \* <<experiment, process that authorized it>> -> state
    blocked,       \* experiments with a terminal denial
    sessions,      \* session -> row of session_context, or None
    results,       \* attempt -> its worker_result row, or None
    secrets,       \* process -> session -> cookie in its InMemorySecretStore, or None
    call,          \* process -> its execute() in progress
    target,        \* accounts and workflow of the target
    live,          \* cookies the target honours
    logins,        \* session -> how many logins for it the target received
    carried,       \* <<experiment, cookie>> of the requests it received
    breached,      \* attempts the target let do what nobody granted
    meddled,       \* attempts during whose probe an approval was delegated
    changes        \* what others did at the target, and crashes

rows == <<attempts, blocked, sessions, results>>
world == <<target, live, logins, carried, breached, meddled, changes>>
vars == <<rows, secrets, call, world>>

SessionIds == {Plan[e].session : e \in Experiments} \ {None}

AttemptIds == Experiments \X Processes

PlanOf(a) == Plan[a[1]]

Init ==
    /\ attempts = [a \in AttemptIds |-> "NONE"]
    /\ blocked = {}
    /\ sessions = [s \in SessionIds |-> None]
    /\ results = [a \in AttemptIds |-> None]
    /\ secrets = [p \in Processes |-> [s \in SessionIds |-> None]]
    /\ call = [p \in Processes |-> NoCall]
    /\ target \in [reader : BOOLEAN, delegated : {FALSE}, state : {"DRAFT", "UNDER_REVIEW"},
                   approvedBy : {None}, flaws : SUBSET {"reads", "approvals"}]
    /\ live = {}
    /\ logins = [s \in SessionIds |-> 0]
    /\ carried = {}
    /\ breached = {}
    /\ meddled = {}
    /\ changes = 0

Idle(p) == call[p].pc = "idle"

At(p, pc) == call[p].pc = pc

Go(p, changed) == call' = [call EXCEPT ![p] = changed]

Return(p) == Go(p, NoCall)

-----------------------------------------------------------------------------
(* Authorization.                                                          *)

AttemptsOf(e) == {a \in AttemptIds : a[1] = e /\ attempts[a] # "NONE"}

\* _fail_closed_existing and the list of attempts, before any row is locked.
StartExecute(p, e) ==
    /\ Idle(p)
    /\ AttemptsOf(e) = {} /\ e \notin blocked
    /\ Go(p, [NoCall EXCEPT !.pc = "authorizing", !.attempt = <<e, p>>])
    /\ UNCHANGED <<rows, secrets, world>>

\* Each binding is "accepted", "rejected" (the caller's input) or "denied".
BindLogin(plan) ==
    IF /\ plan.identity \in Identities
       /\ plan.identity = plan.planIdentity
       /\ OriginOf[plan.identity] = plan.target
    THEN "accepted" ELSE "rejected"

\* Mutant: the session of any identity will do.
BindsAnyIdentity(plan, row, secret) ==
    IF plan.identity = None \/ row = None \/ row.run # plan.run THEN "rejected"
    ELSE IF row.origin # plan.origin \/ row.state # "ACTIVE" THEN "denied"
    ELSE IF secret = None THEN "rejected"
    ELSE "accepted"

BindExistingSession(plan, row, secret) ==
    IF \/ plan.identity \notin Identities
       \/ row = None
       \/ row.identity # plan.identity
       \/ row.run # plan.run
       \/ OriginOf[plan.identity] # plan.target
    THEN "rejected"
    ELSE IF row.origin # plan.origin \/ row.state # "ACTIVE" THEN "denied"
    ELSE IF secret = None THEN "rejected"
    ELSE "accepted"

BindIdentitySession(plan, row, secret) ==
    CASE plan.capability = "http.authentication" -> BindLogin(plan)
      [] plan.capability = "http.transaction" /\ plan.session # None ->
            BindExistingSession(plan, row, secret)
      [] OTHER -> "accepted"

RowOf(plan) == IF plan.session = None THEN None ELSE sessions[plan.session]

SecretOf(p, plan) == IF plan.session = None THEN None ELSE secrets[p][plan.session]

Binding(p, plan) == BindIdentitySession(plan, RowOf(plan), SecretOf(p, plan))

\* The caller's input is rejected: rolled back, the experiment stays planned.
RejectInput(p) ==
    /\ At(p, "authorizing")
    /\ Binding(p, PlanOf(call[p].attempt)) = "rejected"
    /\ Return(p)
    /\ UNCHANGED <<rows, secrets, world>>

DenyExecution(p) ==
    LET plan == PlanOf(call[p].attempt)  bound == Binding(p, plan) IN
    /\ At(p, "authorizing")
    /\ bound # "rejected"
    /\ ~plan.inScope \/ bound = "denied"
    /\ blocked' = blocked \cup {call[p].attempt[1]}
    /\ Return(p)
    /\ UNCHANGED <<attempts, sessions, results, secrets, world>>

AuthenticatingRow(plan) ==
    [run |-> plan.run, identity |-> plan.identity, origin |-> plan.origin,
     state |-> "AUTHENTICATING"]

\* Mutant: a second login may reuse the row of the first.
NoConflict(plan) == FALSE

\* The primary key of session_context.
SessionConflict(plan) ==
    plan.capability = "http.authentication" /\ sessions[plan.session] # None

InsertedSessions(plan) ==
    IF plan.capability = "http.authentication"
    THEN [sessions EXCEPT ![plan.session] = AuthenticatingRow(plan)] ELSE sessions

\* The password resolves from the environment; a session's cookie from memory.
ResolvedSecret(p, plan) ==
    IF plan.capability = "http.authentication" THEN "password"
    ELSE IF plan.capability = "http.transaction" THEN SecretOf(p, plan)
    ELSE None

Allowed(p) ==
    LET plan == PlanOf(call[p].attempt) IN
    /\ At(p, "authorizing")
    /\ plan.inScope /\ Binding(p, plan) = "accepted"

AllowExecution(p) ==
    LET a == call[p].attempt  plan == PlanOf(a) IN
    /\ Allowed(p)
    /\ ~SessionConflict(plan)
    /\ attempts' = [attempts EXCEPT ![a] = "AUTHORIZED"]
    /\ sessions' = InsertedSessions(plan)
    /\ Go(p, [call[p] EXCEPT !.pc = "authorized", !.envelope = TRUE,
                             !.secret = ResolvedSecret(p, plan)])
    /\ UNCHANGED <<blocked, results, secrets, world>>

InsertConflicts(p) ==
    /\ Allowed(p)
    /\ SessionConflict(PlanOf(call[p].attempt))
    /\ Return(p)
    /\ UNCHANGED <<rows, secrets, world>>

-----------------------------------------------------------------------------
(* Dispatch.                                                               *)

\* A controller takes up an attempt it finds AUTHORIZED: the request it builds
\* has neither the envelope nor the secrets of the authorization.
ResumeAuthorized(p, a) ==
    /\ Idle(p)
    /\ attempts[a] = "AUTHORIZED"
    /\ \A b \in AttemptIds : PlanOf(b).run = PlanOf(a).run => attempts[b] # "DISPATCHING"
    /\ Go(p, [NoCall EXCEPT !.pc = "authorized", !.attempt = a])
    /\ UNCHANGED <<rows, secrets, world>>

LoadAttempt(p) ==
    /\ At(p, "authorized")
    /\ IF attempts[call[p].attempt] = "AUTHORIZED"
       THEN Go(p, [call[p] EXCEPT !.pc = "loaded"]) ELSE Return(p)
    /\ UNCHANGED <<rows, secrets, world>>

CommitDispatch(p) ==
    /\ At(p, "loaded")
    /\ attempts' = [attempts EXCEPT ![call[p].attempt] = "DISPATCHING"]
    /\ Go(p, [call[p] EXCEPT !.pc = "running"])
    /\ UNCHANGED <<blocked, sessions, results, secrets, world>>

\* The ledger refuses: rolled back, the attempt stays AUTHORIZED.
DenyDispatch(p) ==
    /\ At(p, "loaded")
    /\ Return(p)
    /\ UNCHANGED <<rows, secrets, world>>
-----------------------------------------------------------------------------
(* The worker.                                                             *)

Current(p) == Planned(PlanOf(call[p].attempt))[call[p].step]

Refused(p) ==
    RefusedStatus(PlanOf(call[p].attempt), call[p].envelope, call[p].secret, Current(p))

Running(p) == At(p, "running") /\ call[p].step <= Len(Planned(PlanOf(call[p].attempt)))

Ends(p, status) == Go(p, [call[p] EXCEPT !.pc = "answered", !.status = status])

RefuseRequest(p) ==
    /\ Running(p) /\ Refused(p) # ""
    /\ Ends(p, Refused(p))
    /\ UNCHANGED <<rows, secrets, world>>

\* The responses read so far, with one more.
Read(answers, key, response) ==
    [k \in DOMAIN answers \cup {key} |-> IF k = key THEN response ELSE answers[k]]

\* What is left of a request that was answered: the next one, or the result.
Reads(p, answer, response) ==
    IF answer # "read" THEN Ends(p, FailedStatus(answer))
    ELSE Go(p, [call[p] EXCEPT !.step = @ + 1,
                    !.answers = Read(@, Current(p).key, response)])

\* The connection breaks before the target sees the request.
LoseRequest(p) ==
    /\ Running(p) /\ Refused(p) = ""
    /\ Ends(p, FailedStatus("broken"))
    /\ UNCHANGED <<rows, secrets, world>>

CookieFor(plan) ==
    [session |-> plan.session, run |-> plan.run, identity |-> plan.identity,
     origin |-> plan.origin]

\* accepted: the target takes the password and opens a session.
SendLogin(p) ==
    LET plan == PlanOf(call[p].attempt) IN
    /\ Running(p) /\ Refused(p) = "" /\ Current(p).key = "login"
    /\ logins' = [logins EXCEPT ![plan.session] = @ + 1]
    /\ \E accepted \in BOOLEAN, answer \in Answers :
          /\ answer = "redirect" => ~accepted
          /\ live' = IF accepted THEN live \cup {CookieFor(plan)} ELSE live
          /\ Reads(p, answer, IF accepted THEN [status |-> 200, cookie |-> CookieFor(plan)]
                              ELSE [status |-> 401, cookie |-> None])
    /\ UNCHANGED <<rows, secrets, target, carried, breached, meddled, changes>>

\* A page that needs a session answers 401 without one it honours; 403 is a
\* page this user may not see.
SendTransaction(p) ==
    LET cookie == call[p].secret IN
    /\ Running(p) /\ Refused(p) = "" /\ Current(p).key = "transaction"
    /\ carried' = carried \cup {<<call[p].attempt[1], cookie>>}
    /\ \E answer \in Answers, status \in IF cookie \in live THEN {200, 403} ELSE {401} :
          Reads(p, answer, [status |-> status])
    /\ UNCHANGED <<rows, secrets, target, live, logins, breached, meddled, changes>>

\* A redirect is answered instead of what was asked for.
SendProbe(p) ==
    LET a == call[p].attempt  request == Current(p) IN
    /\ Running(p) /\ Refused(p) = "" /\ request.key \notin {"login", "transaction"}
    /\ \E answer \in Answers :
          /\ Reads(p, answer, Response(target, request))
          /\ IF answer = "redirect" THEN UNCHANGED <<target, breached>>
             ELSE /\ target' = AfterRequest(target, request)
                  /\ breached' = IF Breaches(target, request) THEN breached \cup {a} ELSE breached
    /\ UNCHANGED <<rows, secrets, live, logins, carried, meddled, changes>>

Succeed(p) ==
    /\ At(p, "running") /\ ~Running(p)
    /\ Ends(p, "SUCCEEDED")
    /\ UNCHANGED <<rows, secrets, world>>

\* The adapter's deadline passes, or the worker dies or writes no valid result:
\* there is no WorkerResult, whatever the worker had sent.
LoseWorker(p) ==
    /\ At(p, "running")
    /\ attempts' = [attempts EXCEPT ![call[p].attempt] = "ENDED"]
    /\ Return(p)
    /\ UNCHANGED <<blocked, sessions, results, secrets, world>>

-----------------------------------------------------------------------------
(* Recording and ingestion.                                                *)

RecordOutcome(p) ==
    /\ At(p, "answered")
    /\ attempts' = [attempts EXCEPT ![call[p].attempt] = "ENDED"]
    /\ Go(p, [call[p] EXCEPT !.pc = "recorded"])
    /\ UNCHANGED <<blocked, sessions, results, secrets, world>>

\* The outcome cannot be committed: the attempt stays DISPATCHING, and the
\* result is not ingested.
LoseOutcome(p) ==
    /\ At(p, "answered")
    /\ Return(p)
    /\ UNCHANGED <<rows, secrets, world>>

ResultOf(p) ==
    LET plan == PlanOf(call[p].attempt) IN
    [status |-> call[p].status,
     raw |-> IF call[p].status = "SUCCEEDED" THEN RawResult(plan, call[p].answers) ELSE None]

Ingested(a) == results[a] # None

AlreadyIngested(p) ==
    /\ At(p, "recorded") /\ Ingested(call[p].attempt)
    /\ Return(p)
    /\ UNCHANGED <<rows, secrets, world>>

\* What capture_login_result makes of the session of a login.
CapturedState(p) ==
    LET plan == PlanOf(call[p].attempt) IN
    IF call[p].status = "SUCCEEDED" /\ EphemeralCookie(plan, call[p].answers) # None
    THEN "ACTIVE" ELSE "FAILED"

\* What expire_session_on_unauthenticated_response makes of the one it used.
Unauthenticated(p) ==
    /\ call[p].status = "SUCCEEDED"
    /\ ResultOf(p).raw.status_code \in {401, 403}
    /\ sessions[PlanOf(call[p].attempt).session] # None
    /\ sessions[PlanOf(call[p].attempt).session].state = "ACTIVE"

\* The state ingestion is about to give the session of the plan, or None.
NewSessionState(p) ==
    LET plan == PlanOf(call[p].attempt) IN
    CASE plan.capability = "http.authentication" ->
            IF call[p].status = "REAUTHORIZATION_REQUIRED" THEN None ELSE CapturedState(p)
      [] plan.capability = "http.transaction" /\ plan.session # None ->
            IF Unauthenticated(p) THEN "EXPIRED" ELSE None
      [] OTHER -> None

\* The cookie is put into memory, or deleted from it, before the commit.
SecretsAfter(p, state) ==
    LET plan == PlanOf(call[p].attempt) IN
    CASE state = "ACTIVE" ->
            [secrets EXCEPT ![p][plan.session] = EphemeralCookie(plan, call[p].answers)]
      [] state = "EXPIRED" -> [secrets EXCEPT ![p][plan.session] = None]
      [] OTHER -> secrets

\* Inserts the result, whose request id is unique: another process with the
\* same attempt waits for this transaction.
BeginIngest(p) ==
    LET a == call[p].attempt  state == NewSessionState(p) IN
    /\ At(p, "recorded") /\ ~Ingested(a)
    /\ \A q \in Processes \ {p} : ~(At(q, "ingesting") /\ call[q].attempt = a)
    /\ secrets' = SecretsAfter(p, state)
    /\ Go(p, [call[p] EXCEPT !.pc = "ingesting", !.seen = state])
    /\ UNCHANGED <<rows, world>>

SessionsAfter(plan, state) ==
    IF state = None THEN sessions ELSE [sessions EXCEPT ![plan.session].state = state]

CommitIngest(p) ==
    LET a == call[p].attempt IN
    /\ At(p, "ingesting")
    /\ results' = [results EXCEPT ![a] = ResultOf(p)]
    /\ sessions' = SessionsAfter(PlanOf(a), call[p].seen)
    /\ Return(p)
    /\ UNCHANGED <<attempts, blocked, secrets, world>>

\* A statement of the transaction fails: the memory is not rolled back.
RollBackIngest(p) ==
    /\ At(p, "ingesting")
    /\ Return(p)
    /\ UNCHANGED <<rows, secrets, world>>

-----------------------------------------------------------------------------
(* What else happens.                                                      *)

RevokeSession(p, s) ==
    /\ sessions[s] # None
    /\ sessions' = [sessions EXCEPT ![s].state = "REVOKED"]
    /\ secrets' = [secrets EXCEPT ![p][s] = None]
    /\ UNCHANGED <<attempts, blocked, results, call, world>>

Change == changes < MaxChanges /\ changes' = changes + 1

\* The process dies, and its worker with it.
Crash(p) ==
    /\ Change
    /\ secrets' = [secrets EXCEPT ![p] = [s \in SessionIds |-> None]]
    /\ Return(p)
    /\ UNCHANGED <<rows, target, live, logins, carried, breached, meddled>>

EndSession ==
    /\ Change
    /\ \E c \in live : live' = live \ {c}
    /\ UNCHANGED <<rows, secrets, call, target, logins, carried, breached, meddled>>

ChangeReader ==
    /\ Change
    /\ target' = [target EXCEPT !.reader = ~@]
    /\ UNCHANGED <<rows, secrets, call, live, logins, carried, breached, meddled>>

\* Attempts that have read the workflow's state and not yet read it back.
BetweenTheReads ==
    {call[p].attempt : p \in {q \in Processes : At(q, "running") /\ call[q].step \in 2 .. 4}}

ChangeDelegate ==
    /\ Change
    /\ target' = [target EXCEPT !.delegated = ~@]
    /\ meddled' = IF target.delegated THEN meddled ELSE meddled \cup BetweenTheReads
    /\ UNCHANGED <<rows, secrets, call, live, logins, carried, breached>>

MoveWorkflow ==
    /\ Change
    /\ \/ /\ target.state = "DRAFT"
          /\ target' = [target EXCEPT !.state = "UNDER_REVIEW"]
       \/ /\ target.state = "UNDER_REVIEW"
          /\ target' = [target EXCEPT !.state = "APPROVED", !.approvedBy = "reviewer"]
    /\ UNCHANGED <<rows, secrets, call, live, logins, carried, breached, meddled>>

Next ==
    \/ \E p \in Processes :
          \/ \E e \in Experiments : StartExecute(p, e)
          \/ RejectInput(p) \/ DenyExecution(p) \/ AllowExecution(p) \/ InsertConflicts(p)
          \/ \E a \in AttemptIds : ResumeAuthorized(p, a)
          \/ LoadAttempt(p) \/ CommitDispatch(p) \/ DenyDispatch(p)
          \/ RefuseRequest(p) \/ LoseRequest(p) \/ Succeed(p) \/ LoseWorker(p)
          \/ SendLogin(p) \/ SendTransaction(p) \/ SendProbe(p)
          \/ RecordOutcome(p) \/ LoseOutcome(p) \/ AlreadyIngested(p)
          \/ BeginIngest(p) \/ CommitIngest(p) \/ RollBackIngest(p)
          \/ \E s \in SessionIds : RevokeSession(p, s)
          \/ Crash(p)
    \/ EndSession \/ ChangeReader \/ ChangeDelegate \/ MoveWorkflow

Spec == Init /\ [][Next]_vars

-----------------------------------------------------------------------------
(* Properties.                                                             *)

\* The target receives a session's credentials at most once: whatever controllers
\* race through authorize, dispatch and resume after crashes, the login is sent
\* by the process that inserted the session row, in the invocation it authorized.
LoginSentOnce == \A s \in SessionIds : logins[s] <= 1

\* A request carries the cookie that a login of its own identity, research run,
\* session and origin was given (bind_identity_session, the secret store).
CookieOfItsOwn ==
    \A x \in carried : x[2] # None => x[2] = CookieFor(Plan[x[1]])

\* What the observation of an attempt would make the evaluators conclude.
Concludes(a) ==
    LET capability == PlanOf(a).capability IN
    Verdict(capability, Normalize(capability, results[a].raw), None)

\* An observation that shows a missing check comes from an answer in which the
\* target did let the actor do what it was not granted, though accounts, grants and
\* workflow change between the requests of a probe.  The one exception is
\* a delegation that lands after the probe read the grants and before it read the
\* state back: the evaluator believes the grants it read, whoever then approved.
AccusationsGrounded ==
    \A a \in AttemptIds :
        /\ results[a] # None /\ results[a].status = "SUCCEEDED"
        /\ PlanOf(a).capability \in {"http.authorization.differential", "http.state_transition"}
        /\ Concludes(a) = "CONSISTENT_WITH_PREDICTION"
        => a \in breached \cup meddled
=============================================================================
