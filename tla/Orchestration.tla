--------------------------- MODULE Orchestration ---------------------------
(***************************************************************************)
(* AutonomousResearchController: one process takes a research run through  *)
(* cycles of select, propose, plan, authorize, execute and evaluate, by    *)
(* repeated calls of step().  An operator pauses, resumes and cancels the  *)
(* run from another process.                                               *)
(*                                                                         *)
(* The research_orchestration row is saved whole, by its primary key and   *)
(* without a version test.  ctl.cur is the copy a step read (`current`);   *)
(* every checkpoint replaces some fields of the copy and writes it all.    *)
(***************************************************************************)
EXTENDS Integers, Sequences, FiniteSets

CONSTANTS
    MaxCycles, MaxExperiments, MaxModelCalls, MaxWorkerInvocations,
    AllowRepeat,          \* allow_repeated_control_experiments
    MaxOperatorCalls,     \* bound on pause, resume and cancel
    MaxCrashes,           \* bound on crashes of the controller
    MaxDenials,           \* bound on dispatches the ledger refuses
    MaxReplays            \* bound on the count of calls made under one id

ASSUME BoundsAssumption ==
    /\ {MaxCycles, MaxExperiments, MaxModelCalls, MaxWorkerInvocations} \subseteq Nat
    /\ {MaxOperatorCalls, MaxCrashes, MaxReplays, MaxDenials} \subseteq Nat
    /\ AllowRepeat \in BOOLEAN

VARIABLES
    row,        \* research_orchestration
    cycles,     \* research_cycle.cycle_number, UNIQUE with the run
    hyps,       \* number of hypotheses of the run: their ids are 1..hyps
    exps,       \* experiments of the run and the attempt each may have
    charged,    \* MODEL_CALL rows of budget_consumption, by request id
    calls,      \* how often the model was called under each request id
    drawn,      \* active cycle ids drawn from new_opaque_id
    late,       \* max_elapsed_ms has passed
    denials,    \* dispatches refused: another run spent the issued budget
    ctl,        \* the controller process
    op,         \* the operator's transaction
    crashes

tables == <<row, cycles, hyps, exps, charged, drawn>>
vars   == <<tables, calls, late, denials, ctl, op, crashes>>

None == 0      \* a nullable id that is NULL

OrchestrationStates ==
    {"READY", "RUNNING", "PAUSED", "WAITING_HUMAN", "BLOCKED", "BUDGET_EXHAUSTED",
     "COMPLETED", "FAILED_OPERATIONAL"}

StepReturns ==
    {"COMPLETED", "BUDGET_EXHAUSTED", "FAILED_OPERATIONAL", "BLOCKED", "WAITING_HUMAN",
     "PAUSED"}

Phases ==
    {"CYCLE_READY", "OPPORTUNITY_SELECTED", "HYPOTHESIS_ADMITTED", "EXPERIMENT_PLANNED",
     "AUTHORIZATION_REQUESTED", "ATTEMPT_AUTHORIZED", "DISPATCHING",
     "WORKER_RESULT_RECORDED", "TRANSITION_A_COMPLETE", "ASSESSMENT_COMPLETE",
     "CYCLE_COMPLETE"}

Roles == {"GENERATOR", "FALSIFIER"}

\* orchestration_state_for_stop.
StateForStop(reason) ==
    CASE reason = "BUDGET_EXHAUSTED"     -> "BUDGET_EXHAUSTED"
      [] reason = "REQUIRE_HUMAN_REVIEW" -> "WAITING_HUMAN"
      [] reason = "OPERATIONAL_FAILURE"  -> "FAILED_OPERATIONAL"
      [] reason \in {"CORE_BLOCKED", "CONTENT_POLICY_BLOCKED"} -> "BLOCKED"
      [] reason \in {"MAX_CYCLES_REACHED", "MAX_DURATION_REACHED", "CANCELLED",
                     "COMPLETED_NO_MORE_OPPORTUNITIES"} -> "COMPLETED"

\* stop_reason_for_runtime_outcome: how a model call that fails stops the run.
\* CONTENT_POLICY_BLOCKED stands for every reason that leaves the run BLOCKED.
RuntimeStops == {"CONTENT_POLICY_BLOCKED", "CANCELLED", "OPERATIONAL_FAILURE"}

StopReasons ==
    RuntimeStops \cup {"BUDGET_EXHAUSTED", "REQUIRE_HUMAN_REVIEW", "CORE_BLOCKED",
                       "MAX_CYCLES_REACHED", "MAX_DURATION_REACHED",
                       "COMPLETED_NO_MORE_OPPORTUNITIES"}

InitialRow ==
    [state |-> IF MaxCycles = 0 THEN "COMPLETED" ELSE "READY",
     reason |-> IF MaxCycles = 0 THEN "MAX_CYCLES_REACHED" ELSE "NONE",
     phase |-> "CYCLE_READY", cycle |-> 0, hyp |-> None, exp |-> None, id |-> None]

\* What _complete_cycle is asked to write; phase "KEEP" leaves the default.
Continue == [reason |-> "NONE", increment |-> FALSE, phase |-> "KEEP"]
Stop(reason) == [Continue EXCEPT !.reason = reason]

Idle == [pc |-> "idle", cur |-> InitialRow, path |-> "none", exp |-> None, id |-> None,
         fin |-> Continue]

NoCall == [pc |-> "idle", cur |-> InitialRow, call |-> "none", count |-> 0]

Init ==
    /\ row = InitialRow
    /\ cycles = {}
    /\ hyps = 0
    /\ exps = <<>>
    /\ charged = {}
    /\ calls = [i \in {} |-> 0]
    /\ drawn = 0
    /\ late = FALSE
    /\ denials = 0
    /\ ctl = Idle
    /\ op = NoCall
    /\ crashes = 0

-----------------------------------------------------------------------------
Goto(pc) == ctl' = [ctl EXCEPT !.pc = pc]

\* The step is over but for _complete_cycle, which writes fin over the copy.
Close(fin) == ctl' = [ctl EXCEPT !.pc = "close", !.fin = fin]

\* _checkpoint, and the persist hooks: the copy with changes becomes the row.
Save(cur, pc) == row' = cur /\ ctl' = [ctl EXCEPT !.cur = cur, !.pc = pc]

At(cur, phase) == [cur EXCEPT !.state = "RUNNING", !.phase = phase]

InDoubt(e)  == exps[e].state = "DISPATCHING"
UnknownOpen == \E e \in DOMAIN exps : InDoubt(e)
Authorized  == {e \in DOMAIN exps : exps[e].state = "AUTHORIZED"}
Dispatched  == {e \in DOMAIN exps : exps[e].charged}

\* Mutant: an elapsed run is not stopped.
BoundsWithoutTime(cur) ==
    IF cur.cycle >= MaxCycles THEN "MAX_CYCLES_REACHED"
    ELSE IF Len(exps) >= MaxExperiments THEN "BUDGET_EXHAUSTED"
    ELSE IF Cardinality(charged) >= MaxModelCalls THEN "BUDGET_EXHAUSTED"
    ELSE IF Cardinality(Dispatched) >= MaxWorkerInvocations THEN "BUDGET_EXHAUSTED"
    ELSE "NONE"

\* check_orchestration_bounds over _usage; "NONE" is BoundCheck.allowed.
CheckBounds(cur) ==
    IF cur.cycle >= MaxCycles THEN "MAX_CYCLES_REACHED"
    ELSE IF late THEN "MAX_DURATION_REACHED"
    ELSE IF Len(exps) >= MaxExperiments THEN "BUDGET_EXHAUSTED"
    ELSE IF Cardinality(charged) >= MaxModelCalls THEN "BUDGET_EXHAUSTED"
    ELSE IF Cardinality(Dispatched) >= MaxWorkerInvocations THEN "BUDGET_EXHAUSTED"
    ELSE "NONE"

-----------------------------------------------------------------------------
(* step: what the durable row says is to be done next.                     *)

\* Mutant: DISPATCHING is looked for in the row only.
EntryTrustsPhase(cur) ==
    IF cur.phase = "DISPATCHING" THEN "in_doubt"
    ELSE IF Authorized # {} THEN "dispatch"
    ELSE IF cur.phase = "HYPOTHESIS_ADMITTED" /\ cur.hyp # None THEN "admitted"
    ELSE IF cur.phase = "OPPORTUNITY_SELECTED" /\ hyps > 0 THEN "adopt"
    ELSE IF cur.phase \in {"EXPERIMENT_PLANNED", "AUTHORIZATION_REQUESTED",
                           "ATTEMPT_AUTHORIZED"} /\ cur.exp # None THEN "execute"
    ELSE IF cur.phase \in {"WORKER_RESULT_RECORDED", "TRANSITION_A_COMPLETE",
                           "ASSESSMENT_COMPLETE"} /\ cur.exp # None THEN "after_worker"
    ELSE IF CheckBounds(cur) # "NONE" THEN "bounds"
    ELSE "new_cycle"

Entry(cur) ==
    IF cur.phase = "DISPATCHING" \/ UnknownOpen THEN "in_doubt"
    ELSE IF Authorized # {} THEN "dispatch"
    ELSE IF cur.phase = "HYPOTHESIS_ADMITTED" /\ cur.hyp # None THEN "admitted"
    ELSE IF cur.phase = "OPPORTUNITY_SELECTED" /\ hyps > 0 THEN "adopt"
    ELSE IF cur.phase \in {"EXPERIMENT_PLANNED", "AUTHORIZATION_REQUESTED",
                           "ATTEMPT_AUTHORIZED"} /\ cur.exp # None THEN "execute"
    ELSE IF cur.phase \in {"WORKER_RESULT_RECORDED", "TRANSITION_A_COMPLETE",
                           "ASSESSMENT_COMPLETE"} /\ cur.exp # None THEN "after_worker"
    ELSE IF CheckBounds(cur) # "NONE" THEN "bounds"
    ELSE "new_cycle"

StepPaths == [in_doubt |-> "none", bounds |-> "none", dispatch |-> "authorized",
              admitted |-> "resume", adopt |-> "resume", execute |-> "resume",
              after_worker |-> "after", new_cycle |-> "main"]

Step ==
    LET entry == Entry(row)
        copy  == [Idle EXCEPT !.cur = row, !.path = StepPaths[entry]]
    IN
    /\ ctl.pc = "idle"
    /\ row.state \notin StepReturns
    /\ ctl' = CASE entry = "in_doubt" ->
                     [copy EXCEPT !.pc = "close", !.fin = Stop("OPERATIONAL_FAILURE")]
                [] entry = "bounds" ->
                     [copy EXCEPT !.pc = "close", !.fin = Stop(CheckBounds(row))]
                [] entry = "dispatch" ->
                     [copy EXCEPT !.pc = "dispatch",
                                  !.exp = CHOOSE e \in Authorized : TRUE]
                [] entry = "execute" -> [copy EXCEPT !.pc = "execute", !.exp = row.exp]
                [] entry = "after_worker" ->
                     [copy EXCEPT !.exp = row.exp,
                                  !.pc = IF row.phase = "ASSESSMENT_COMPLETE"
                                         THEN "finish" ELSE "assess"]
                [] OTHER -> [copy EXCEPT !.pc = entry]
    /\ UNCHANGED <<tables, calls, late, denials, op, crashes>>

\* OPPORTUNITY_SELECTED and the run has a hypothesis: last_hypothesis_id, which
\* an earlier cycle may have left, or else the latest of the run.
AdoptHypothesis ==
    LET h == IF ctl.cur.hyp # None THEN ctl.cur.hyp ELSE hyps IN
    /\ ctl.pc = "adopt"
    /\ Save([At(ctl.cur, "HYPOTHESIS_ADMITTED") EXCEPT !.hyp = h], "admitted")
    /\ UNCHANGED <<cycles, hyps, exps, charged, drawn, calls, late, denials, op, crashes>>

ExperimentsOf(h) == {e \in DOMAIN exps : exps[e].hyp = h}

Planned(h) == [hyp |-> h, state |-> "PLANNED", charged |-> FALSE, runs |-> 0,
               assessed |-> FALSE]

\* Mutant: the experiment of a hypothesis is not looked up.
ResumeWithNewExperiment ==
    LET e == Len(exps) + 1 IN
    /\ ctl.pc = "admitted"
    /\ exps' = Append(exps, Planned(ctl.cur.hyp))
    /\ row' = [At(ctl.cur, "EXPERIMENT_PLANNED") EXCEPT !.exp = e]
    /\ ctl' = [ctl EXCEPT !.cur = row', !.exp = e, !.pc = "execute"]
    /\ UNCHANGED <<cycles, hyps, charged, drawn, calls, late, denials, op, crashes>>

\* _resume_admitted_hypothesis: the experiment of the row, the hypothesis's
\* latest, or a new diagnostic one, planned with the row in one transaction.
\* A new plan leaves the state of the copy; _checkpoint sets RUNNING.
ResumeHypothesis ==
    LET h == ctl.cur.hyp
        known == IF ctl.cur.exp # None THEN {ctl.cur.exp} ELSE ExperimentsOf(h)
        e == IF known = {} THEN Len(exps) + 1 ELSE CHOOSE m \in known : \A n \in known : n <= m
        saved == [ctl.cur EXCEPT !.phase = "EXPERIMENT_PLANNED", !.exp = e]
    IN
    /\ ctl.pc = "admitted"
    /\ IF known = {}
       THEN exps' = Append(exps, Planned(h)) /\ row' = saved
       ELSE UNCHANGED exps /\ row' = [saved EXCEPT !.state = "RUNNING"]
    /\ ctl' = [ctl EXCEPT !.cur = row', !.exp = e, !.pc = "execute"]
    /\ UNCHANGED <<cycles, hyps, charged, drawn, calls, late, denials, op, crashes>>

-----------------------------------------------------------------------------
(* A new cycle: selection, the two model calls, the plan.                  *)

\* A cycle that crashed between the selection and its hypothesis selects no
\* second opportunity.
MarkRunning ==
    /\ ctl.pc = "new_cycle"
    /\ row' = [ctl.cur EXCEPT !.state = "RUNNING"]
    /\ Goto(IF ctl.cur.phase = "OPPORTUNITY_SELECTED" THEN "reload_selected" ELSE "reload")
    /\ UNCHANGED <<cycles, hyps, exps, charged, drawn, calls, late, denials, op, crashes>>

Reload ==
    /\ ctl.pc = "reload"
    /\ ctl' = [ctl EXCEPT !.cur = row, !.pc = "select"]
    /\ UNCHANGED <<tables, calls, late, denials, op, crashes>>

\* The cycle id is the active one of the row, or a fresh one.
CycleId == IF row.id = None THEN drawn + 1 ELSE row.id

ReloadSelected ==
    /\ ctl.pc = "reload_selected"
    /\ drawn' = IF row.id = None THEN drawn + 1 ELSE drawn
    /\ ctl' = [ctl EXCEPT !.cur = row, !.id = CycleId, !.pc = "GENERATOR"]
    /\ UNCHANGED <<row, cycles, hyps, exps, charged, calls, late, denials, op, crashes>>

Route ==
    /\ ctl.pc = "select"
    /\ Close(Stop("CONTENT_POLICY_BLOCKED"))
    /\ UNCHANGED <<tables, calls, late, denials, op, crashes>>

\* next_cycle_action, after the selection has stored what it found.
NextCycleStop(selected) ==
    IF CheckBounds(ctl.cur) # "NONE" THEN CheckBounds(ctl.cur)
    ELSE IF selected \/ hyps = 0 \/ AllowRepeat THEN "NONE"
    ELSE "COMPLETED_NO_MORE_OPPORTUNITIES"

SelectStops ==
    /\ ctl.pc = "select"
    /\ \E selected \in BOOLEAN :
          /\ NextCycleStop(selected) # "NONE"
          /\ Close(Stop(NextCycleStop(selected)))
    /\ UNCHANGED <<tables, calls, late, denials, op, crashes>>

SelectOpportunity ==
    LET fresh == ctl.cur.id = None
        id    == IF fresh THEN drawn + 1 ELSE ctl.cur.id
    IN
    /\ ctl.pc = "select"
    /\ \E selected \in BOOLEAN : NextCycleStop(selected) = "NONE"
    /\ drawn' = IF fresh THEN drawn + 1 ELSE drawn
    /\ row' = [At(ctl.cur, "OPPORTUNITY_SELECTED") EXCEPT !.id = id]
    /\ ctl' = [ctl EXCEPT !.cur = row', !.id = id, !.pc = "GENERATOR"]
    /\ UNCHANGED <<cycles, hyps, exps, charged, calls, late, denials, op, crashes>>

CallId == <<ctl.id, ctl.pc>>
Calling == [GENERATOR |-> "call_GENERATOR", FALSIFIER |-> "call_FALSIFIER"]

\* BudgetEnforcedModelPort.complete up to the call: a request id the ledger
\* already has is neither counted nor refused.
ReserveCall ==
    /\ ctl.pc \in Roles
    /\ CallId \in charged \/ Cardinality(charged) < MaxModelCalls
    /\ charged' = charged \cup {CallId}
    /\ Goto(Calling[ctl.pc])
    /\ UNCHANGED <<row, cycles, hyps, exps, drawn, calls, late, denials, op, crashes>>

\* The daily budget of the program is checked first, and may be spent by others.
ModelBudgetDenied ==
    /\ ctl.pc \in Roles
    /\ Close(Stop("BUDGET_EXHAUSTED"))
    /\ UNCHANGED <<tables, calls, late, denials, op, crashes>>

Calls(id) == IF id \in DOMAIN calls THEN calls[id] ELSE 0

\* The provider answers: the step goes on, the run stops, or the hypothesis is
\* not admitted and the cycle ends without being counted.
CallModel ==
    /\ \E role \in Roles :
          LET id == <<ctl.id, role>>
              n  == IF Calls(id) < MaxReplays THEN Calls(id) + 1 ELSE MaxReplays
          IN
          /\ ctl.pc = Calling[role]
          /\ calls' = [i \in DOMAIN calls \cup {id} |-> IF i = id THEN n ELSE calls[i]]
          /\ \/ Goto(IF role = "GENERATOR" THEN "FALSIFIER" ELSE "admit")
             \/ \E reason \in RuntimeStops : Close(Stop(reason))
             \/ Close([Continue EXCEPT !.phase = "CYCLE_COMPLETE"])
    /\ UNCHANGED <<tables, late, denials, op, crashes>>

\* The hypothesis and HYPOTHESIS_ADMITTED commit together.
AdmitHypothesis ==
    /\ ctl.pc = "admit"
    /\ hyps' = hyps + 1
    /\ Save([At(ctl.cur, "HYPOTHESIS_ADMITTED") EXCEPT !.hyp = hyps + 1, !.id = ctl.id], "plan")
    /\ UNCHANGED <<cycles, exps, charged, drawn, calls, late, denials, op, crashes>>

ExceedCeiling ==
    /\ ctl.pc = "plan"
    /\ Close(Stop("CORE_BLOCKED"))
    /\ UNCHANGED <<tables, calls, late, denials, op, crashes>>

PlanExperiment ==
    LET e == Len(exps) + 1 IN
    /\ ctl.pc = "plan"
    /\ exps' = Append(exps, Planned(ctl.cur.hyp))
    /\ row' = [ctl.cur EXCEPT !.phase = "EXPERIMENT_PLANNED", !.exp = e]
    /\ ctl' = [ctl EXCEPT !.cur = row', !.exp = e, !.pc = "request"]
    /\ UNCHANGED <<cycles, hyps, charged, drawn, calls, late, denials, op, crashes>>

RequestAuthorization ==
    /\ ctl.pc = "request"
    /\ Save(At(ctl.cur, "AUTHORIZATION_REQUESTED"), "execute")
    /\ UNCHANGED <<cycles, hyps, exps, charged, drawn, calls, late, denials, op, crashes>>

-----------------------------------------------------------------------------
(* ExecutePlannedExperiment, as its caller sees it: see ExperimentDispatch *)
(* for what is inside each of these steps.                                 *)

SetExperiment(e, state) == exps' = [exps EXCEPT ![e].state = state]

\* What the controller does with a ResearchLoopStatus.
AfterLoop(status) ==
    CASE ctl.path = "authorized" ->
            Close([Continue EXCEPT !.increment = TRUE, !.phase = "CYCLE_COMPLETE"])
      [] ctl.path # "authorized" /\ status = "DISPATCH_DENIED" -> Close(Stop("CORE_BLOCKED"))
      [] ctl.path # "authorized" /\ status = "HUMAN_REVIEW_REQUIRED" ->
            Close(Stop("REQUIRE_HUMAN_REVIEW"))
      [] ctl.path = "main" /\ status = "RESULT" -> Goto("result")
      [] ctl.path = "main" /\ status \in {"INPUT_REJECTED", "REAUTHORIZATION_REQUIRED"} ->
            Goto("finish")
      [] ctl.path = "resume" /\ status = "REAUTHORIZATION_REQUIRED" -> Goto("finish")
      [] ctl.path = "resume" /\ status \in {"RESULT", "INPUT_REJECTED", "ALREADY_TERMINAL"} ->
            Goto("assess")

\* _fail_closed_existing: whatever has an attempt, or ended, is not run again.
Undecided == {"PLANNED", "AUTHORIZATION_CHECK"}

ExecuteExisting ==
    /\ ctl.pc = "execute"
    /\ exps[ctl.exp].state \notin Undecided
    /\ AfterLoop(IF exps[ctl.exp].state = "REAUTHORIZATION_REQUIRED"
                 THEN "REAUTHORIZATION_REQUIRED" ELSE "ALREADY_TERMINAL")
    /\ UNCHANGED <<tables, calls, late, denials, op, crashes>>

\* Mutant: an experiment that ran is authorized again.
AuthorizeAgain ==
    /\ ctl.pc = "execute"
    /\ SetExperiment(ctl.exp, "AUTHORIZED")
    /\ Save([At(ctl.cur, "ATTEMPT_AUTHORIZED") EXCEPT !.exp = ctl.exp], "dispatch")
    /\ UNCHANGED <<cycles, hyps, charged, drawn, calls, late, denials, op, crashes>>

Authorize ==
    /\ ctl.pc = "execute"
    /\ exps[ctl.exp].state \in Undecided
    /\ SetExperiment(ctl.exp, "AUTHORIZED")
    /\ Save([At(ctl.cur, "ATTEMPT_AUTHORIZED") EXCEPT !.exp = ctl.exp], "dispatch")
    /\ UNCHANGED <<cycles, hyps, charged, drawn, calls, late, denials, op, crashes>>

RefuseExecution ==
    /\ ctl.pc = "execute"
    /\ exps[ctl.exp].state \in Undecided
    /\ \/ SetExperiment(ctl.exp, "BLOCKED") /\ AfterLoop("DISPATCH_DENIED")
       \/ SetExperiment(ctl.exp, "AUTHORIZATION_CHECK") /\ AfterLoop("HUMAN_REVIEW_REQUIRED")
       \/ UNCHANGED exps /\ AfterLoop("INPUT_REJECTED")
    /\ UNCHANGED <<row, cycles, hyps, charged, drawn, calls, late, denials, op, crashes>>

\* The ledger is append-only: once it refuses a dispatch, it refuses them all.
Dispatch ==
    /\ ctl.pc = "dispatch"
    /\ denials = 0
    /\ exps' = [exps EXCEPT ![ctl.exp].state = "DISPATCHING", ![ctl.exp].charged = TRUE]
    /\ Goto("invoke")
    /\ UNCHANGED <<row, cycles, hyps, charged, drawn, calls, late, denials, op, crashes>>

\* insert_within_allowance refuses: the attempt is rolled back to AUTHORIZED.
DenyDispatch ==
    /\ ctl.pc = "dispatch"
    /\ denials < MaxDenials
    /\ denials' = denials + 1
    /\ AfterLoop("DISPATCH_DENIED")
    /\ UNCHANGED <<tables, calls, late, op, crashes>>

Invoke ==
    /\ ctl.pc = "invoke"
    /\ exps' = [exps EXCEPT ![ctl.exp].runs = @ + 1]
    /\ Goto("record")
    /\ UNCHANGED <<row, cycles, hyps, charged, drawn, calls, late, denials, op, crashes>>

\* A result that cannot be stored leaves the attempt DISPATCHING, and the loop
\* reports a failed invocation.
RecordOutcome ==
    /\ ctl.pc = "record"
    /\ \/ SetExperiment(ctl.exp, "FINISHED") /\ AfterLoop("RESULT")
       \/ SetExperiment(ctl.exp, "REAUTHORIZATION_REQUIRED")
          /\ AfterLoop("REAUTHORIZATION_REQUIRED")
       \/ SetExperiment(ctl.exp, "BUDGET_EXHAUSTED") /\ AfterLoop("DISPATCH_DENIED")
       \/ UNCHANGED exps /\ AfterLoop("RESULT")
    /\ UNCHANGED <<row, cycles, hyps, charged, drawn, calls, late, denials, op, crashes>>

-----------------------------------------------------------------------------
(* The checkpoints after the worker, and the end of the cycle.             *)

CheckpointResult ==
    /\ ctl.pc = "result"
    /\ Save(At(ctl.cur, "WORKER_RESULT_RECORDED"), "transition")
    /\ UNCHANGED <<cycles, hyps, exps, charged, drawn, calls, late, denials, op, crashes>>

CheckpointTransition ==
    /\ ctl.pc = "transition"
    /\ Save(At(ctl.cur, "TRANSITION_A_COMPLETE"), "assess")
    /\ UNCHANGED <<cycles, hyps, exps, charged, drawn, calls, late, denials, op, crashes>>

\* EvaluateExperimentFeedback: stored once for an experiment.
Assess ==
    /\ ctl.pc = "assess"
    /\ exps' = [exps EXCEPT ![ctl.exp].assessed = TRUE]
    /\ Goto(IF ctl.path = "resume" THEN "finish" ELSE "assessed")
    /\ UNCHANGED <<row, cycles, hyps, charged, drawn, calls, late, denials, op, crashes>>

CheckpointAssessment ==
    /\ ctl.pc = "assessed"
    /\ Save(At(ctl.cur, "ASSESSMENT_COMPLETE"), "finish")
    /\ UNCHANGED <<cycles, hyps, exps, charged, drawn, calls, late, denials, op, crashes>>

FinishCycle ==
    /\ ctl.pc = "finish"
    /\ Close([reason    |-> IF ctl.cur.cycle + 1 >= MaxCycles THEN "MAX_CYCLES_REACHED"
                            ELSE "NONE",
              increment |-> TRUE, phase |-> "CYCLE_COMPLETE"])
    /\ UNCHANGED <<tables, calls, late, denials, op, crashes>>

Counted == ctl.fin.increment \/ ctl.fin.reason # "NONE"
CycleNumber == ctl.cur.cycle + (IF Counted THEN 1 ELSE 0)

ClosedRow ==
    [ctl.cur EXCEPT
        !.state  = IF ctl.fin.reason = "NONE" THEN "READY" ELSE StateForStop(ctl.fin.reason),
        !.reason = IF ctl.fin.reason = "NONE" THEN @ ELSE ctl.fin.reason,
        !.phase  = IF ctl.fin.phase = "KEEP" /\ ~Counted THEN @ ELSE "CYCLE_COMPLETE",
        !.cycle  = CycleNumber,
        !.exp    = IF ctl.exp = None THEN @ ELSE ctl.exp,
        !.hyp    = IF ctl.path # "authorized" THEN @ ELSE exps[ctl.exp].hyp]

CompleteCycle ==
    /\ ctl.pc = "close"
    /\ ~(Counted /\ CycleNumber \in cycles)
    /\ row' = ClosedRow
    /\ cycles' = IF Counted THEN cycles \cup {CycleNumber} ELSE cycles
    /\ ctl' = Idle
    /\ UNCHANGED <<hyps, exps, charged, drawn, calls, late, denials, op, crashes>>

\* uq_research_cycle_run_number: the number is taken, the transaction rolls back
\* and step raises.
CompleteCycleConflicts ==
    /\ ctl.pc = "close"
    /\ Counted /\ CycleNumber \in cycles
    /\ ctl' = Idle
    /\ UNCHANGED <<tables, calls, late, denials, op, crashes>>

-----------------------------------------------------------------------------
(* The operator, time and crashes.                                         *)

OperatorCalls == {"pause", "resume", "cancel"}

\* The row is read without FOR UPDATE; the write of the same transaction comes
\* later.  pause and cancel look at no state.
OperatorReads ==
    /\ op.pc = "idle"
    /\ op.count < MaxOperatorCalls
    /\ \E call \in OperatorCalls :
          /\ call = "resume" => row.state = "PAUSED"
          /\ op' = [pc |-> "write", cur |-> row, call |-> call, count |-> op.count + 1]
    /\ UNCHANGED <<tables, calls, late, denials, ctl, crashes>>

OperatorRow ==
    CASE op.call = "pause"  -> [op.cur EXCEPT !.state = "PAUSED", !.reason = "OPERATOR_PAUSED"]
      [] op.call = "resume" -> [op.cur EXCEPT !.state = "READY", !.reason = "NONE"]
      [] op.call = "cancel" ->
            [op.cur EXCEPT !.state = "COMPLETED", !.reason = "OPERATOR_CANCELLED"]

OperatorWrites ==
    /\ op.pc = "write"
    /\ row' = OperatorRow
    /\ op' = [op EXCEPT !.pc = "idle", !.cur = InitialRow]
    /\ UNCHANGED <<cycles, hyps, exps, charged, drawn, calls, late, denials, ctl, crashes>>

TimePasses ==
    /\ ~late
    /\ late' = TRUE
    /\ UNCHANGED <<tables, calls, denials, ctl, op, crashes>>

\* The process dies or a step raises: what was committed stays.
Crash ==
    /\ ctl.pc # "idle"
    /\ crashes < MaxCrashes
    /\ crashes' = crashes + 1
    /\ ctl' = Idle
    /\ UNCHANGED <<tables, calls, late, denials, op>>

ControllerStep ==
    \/ Step \/ AdoptHypothesis \/ ResumeHypothesis
    \/ MarkRunning \/ Reload \/ ReloadSelected \/ Route \/ SelectStops \/ SelectOpportunity
    \/ ReserveCall \/ ModelBudgetDenied \/ CallModel \/ AdmitHypothesis
    \/ ExceedCeiling \/ PlanExperiment \/ RequestAuthorization
    \/ ExecuteExisting \/ Authorize \/ RefuseExecution \/ Dispatch \/ DenyDispatch \/ Invoke \/ RecordOutcome
    \/ CheckpointResult \/ CheckpointTransition \/ Assess \/ CheckpointAssessment
    \/ FinishCycle \/ CompleteCycle \/ CompleteCycleConflicts

Next ==
    \/ ControllerStep
    \/ OperatorReads \/ OperatorWrites
    \/ TimePasses
    \/ Crash

Spec == Init /\ [][Next]_vars

\* The fairness is the caller's: whoever drives a run goes on calling step (or
\* run_bounded, which ticks max_cycles times and returns) until it is stopped.  The
\* clock runs.
FairSpec == Spec /\ WF_vars(ControllerStep) /\ WF_vars(TimePasses)

-----------------------------------------------------------------------------

(***************************************************************************)
(* "Do not auto-retry UNKNOWN_OUTCOME": while the outcome of an attempt is *)
(* in doubt, whether its controller crashed, its result could not be       *)
(* stored, or an operator wrote the row back meanwhile, no other           *)
(* experiment of the run reaches a worker.                                 *)
(***************************************************************************)
NoWorkWhileInDoubt ==
    [][\A e \in DOMAIN exps :
          exps'[e].runs > exps[e].runs =>
              \A d \in DOMAIN exps \ {e} : ~InDoubt(d)]_vars

(***************************************************************************)
(* "Do not blindly repeat side-effectful work": an experiment reaches a    *)
(* worker at most once, whatever phase a crash or an operator left in the  *)
(* row, and however stale the experiment id is that a step resumes.  And   *)
(* max_experiments is a hard limit, though a resumed cycle creates its     *)
(* experiment without looking at the bounds, as long as no operator writes *)
(* the row: a stale copy can bring back a hypothesis that was given up.    *)
(***************************************************************************)
ExperimentRunsOnce ==
    /\ \A e \in DOMAIN exps : exps[e].runs <= 1
    /\ op.count = 0 => Len(exps) <= MaxExperiments

(***************************************************************************)
(* "Do not unbounded-loop": a run that is ticked, and with which no        *)
(* operator interferes and whose budget no one else spends, comes to a     *)
(* stop, through crashes, resumed work and unadmitted hypotheses.          *)
(***************************************************************************)
RunStops == <>(row.state \in StepReturns \/ op.count > 0 \/ denials > 0)
=============================================================================
