------------------------- MODULE OrchestrationProofs -------------------------
(***************************************************************************)
(* What the controller keeps for every bound, however often it crashes and *)
(* whatever an operator writes back: no experiment reaches a worker twice, *)
(* none does while another is in doubt, and without an operator the limit  *)
(* on experiments holds.                                                   *)
(***************************************************************************)
EXTENDS Orchestration, FiniteSetTheorems, SequenceTheorems, TLAPS

-----------------------------------------------------------------------------
(* Types.                                                                  *)

MaybeReason == StopReasons \cup {"NONE", "OPERATOR_PAUSED", "OPERATOR_CANCELLED"}

Rows == [state: OrchestrationStates, reason: MaybeReason, phase: Phases, cycle: Nat,
         hyp: Nat, exp: Nat, id: Nat]

\* Where a step stands, by what may still come.
NewCyclePcs == {"new_cycle", "reload", "reload_selected", "select", "GENERATOR",
                "call_GENERATOR", "FALSIFIER", "call_FALSIFIER", "admit", "plan"}
ResumePcs   == {"adopt", "admitted"}
RunPcs      == {"execute", "dispatch", "invoke", "record"}
AfterPcs    == {"result", "transition", "assess", "assessed", "finish", "close"}
PCs         == {"idle", "request"} \cup NewCyclePcs \cup ResumePcs \cup RunPcs \cup AfterPcs

Fins == [reason: StopReasons \cup {"NONE"}, increment: BOOLEAN,
         phase: {"KEEP", "CYCLE_COMPLETE"}]

Ctls == [pc: PCs, cur: Rows, path: {"none", "authorized", "resume", "after", "main"},
         exp: Nat, id: Nat, fin: Fins]

Ops == [pc: {"idle", "write"}, cur: Rows, call: OperatorCalls \cup {"none"}, count: Nat]

ExperimentStates == Undecided \cup {"AUTHORIZED", "DISPATCHING", "FINISHED", "BLOCKED",
                                    "REAUTHORIZATION_REQUIRED", "BUDGET_EXHAUSTED"}

ExperimentRows == [hyp: Nat, state: ExperimentStates, charged: BOOLEAN, runs: Nat,
                   assessed: BOOLEAN]

TypeOK ==
    /\ row \in Rows /\ ctl \in Ctls /\ op \in Ops
    /\ hyps \in Nat /\ drawn \in Nat
    /\ exps \in Seq(ExperimentRows)

-----------------------------------------------------------------------------
(* The invariant.                                                          *)

\* Every copy of the row names an experiment that exists, or none.
ExperimentsExist ==
    /\ {row.exp, ctl.cur.exp, op.cur.exp, ctl.exp} \subseteq 0..Len(exps)
    /\ ctl.pc \in {"request"} \cup RunPcs \/ ctl.path = "authorized" => ctl.exp # None

\* What has not been dispatched has not run, and nothing has run twice.
RunsByState ==
    \A e \in DOMAIN exps :
        /\ exps[e].state \in Undecided \cup {"AUTHORIZED"} => exps[e].runs = 0
        /\ exps[e].runs <= 1

\* What the step relies on of the experiment it works on.
StateOfPc ==
    /\ ctl.pc \in NewCyclePcs \cup {"request"} => ctl.path = "main"
    /\ ctl.pc \in ResumePcs => ctl.path = "resume"
    /\ ctl.pc = "execute" => ctl.path \in {"main", "resume"}
    /\ ctl.pc \in RunPcs => ctl.path \in {"main", "resume", "authorized"}
    /\ ctl.pc = "request" \/ (ctl.pc = "execute" /\ ctl.path = "main") =>
          exps[ctl.exp].state = "PLANNED"
    /\ ctl.pc = "dispatch" => exps[ctl.exp].state = "AUTHORIZED"
    /\ ctl.pc = "invoke" => InDoubt(ctl.exp) /\ exps[ctl.exp].runs = 0
    /\ ctl.pc = "record" => InDoubt(ctl.exp)

\* A step that may still reach a worker found no experiment in doubt.
NoOtherInDoubt ==
    /\ ctl.pc \in NewCyclePcs \cup ResumePcs \cup {"request", "execute", "dispatch"} =>
          \A d \in DOMAIN exps : ~InDoubt(d)
    /\ ctl.pc = "invoke" => \A d \in DOMAIN exps \ {ctl.exp} : ~InDoubt(d)

\* A cycle that is to create an experiment saw room for it, and with no operator
\* the row is the step's own, so a crash does not lose what it saw.
RoomForOne ==
    /\ ctl.pc \in NewCyclePcs => Len(exps) < MaxExperiments
    /\ op.pc = "write" => op.count > 0 /\ op.call \in OperatorCalls
    /\ op.count = 0 =>
          /\ Len(exps) <= MaxExperiments
          /\ ctl.pc # "idle" => /\ ctl.cur.phase = row.phase
                                /\ ctl.cur.exp = row.exp
                                /\ ctl.cur.hyp = row.hyp
          /\ row.phase \in {"OPPORTUNITY_SELECTED", "HYPOTHESIS_ADMITTED"} /\ row.exp = None =>
                Len(exps) < MaxExperiments

ResumeMatchesRow ==
    /\ ctl.pc = "adopt" => ctl.cur.phase = "OPPORTUNITY_SELECTED"
    /\ ctl.pc = "admitted" => ctl.cur.phase = "HYPOTHESIS_ADMITTED"

Inv ==
    /\ TypeOK
    /\ ExperimentsExist
    /\ RunsByState
    /\ StateOfPc
    /\ NoOtherInDoubt
    /\ RoomForOne
    /\ ResumeMatchesRow

-----------------------------------------------------------------------------
(* Lemmas about the operators.                                             *)

\* A set of experiments has a latest one.
LEMMA HasMaximum ==
    ASSUME NEW n \in Nat, NEW K \in SUBSET (1..n), K # {}
    PROVE  \E m \in K : \A k \in K : k <= m
<1> DEFINE Covering == {m \in 1..n : K \subseteq 1..m}
           T        == {1..m : m \in Covering}
<1>1. IsFiniteSet(1..n)
  BY FS_Interval
<1>2. IsWellFoundedOn(StrictSubsetOrdering(1..n), SUBSET (1..n))
  BY <1>1, FS_FiniteSubsetsOfFinite, FS_StrictSubsetOrderingWellFounded
<1>3. n \in Covering
  <2>1. n \in 1..n
    <3>1. PICK k \in K : TRUE
      OBVIOUS
    <3> QED
      BY <3>1
  <2> QED
    BY <2>1
<1>4. T \subseteq SUBSET (1..n) /\ T # {}
  BY <1>3
<1>5. PICK x \in T : \A y \in T : <<y, x>> \notin StrictSubsetOrdering(1..n)
  <2> HIDE DEF T
  <2> QED
    BY <1>2, <1>4, WFMin
<1>6. PICK m \in Covering : x = 1..m
  OBVIOUS
<1>7. m \in K
  <2> SUFFICES ASSUME m \notin K PROVE FALSE
    OBVIOUS
  <2>1. K \subseteq 1..(m - 1) /\ m - 1 \in 1..n
    <3>1. m \in 1..n /\ K \subseteq 1..m
      BY <1>6
    <3>2. \A k \in K : k \in 1..(m - 1)
      <4> SUFFICES ASSUME NEW k \in K PROVE k \in 1..(m - 1)
        OBVIOUS
      <4>1. k \in 1..m /\ k # m
        BY <3>1
      <4> QED
        BY <3>1, <4>1
    <3>3. PICK k \in K : k \in 1..(m - 1)
      BY <3>2
    <3>4. m - 1 \in 1..n
      <4> HIDE DEF Covering
      <4> QED
        BY <3>1, <3>3
    <3> QED
      BY <3>2, <3>4
  <2>2. m - 1 \in Covering /\ 1..(m - 1) \in T
    BY <2>1
  <2>3. 1..(m - 1) \subseteq 1..m /\ 1..(m - 1) # 1..m
    <3>1. m \in 1..m /\ m \notin 1..(m - 1)
      OBVIOUS
    <3> QED
      BY <3>1
  <2>4. <<1..(m - 1), x>> \in StrictSubsetOrdering(1..n)
    BY <1>4, <1>6, <2>2, <2>3 DEF StrictSubsetOrdering
  <2> QED
    BY <1>5, <2>2, <2>4
<1> QED
  BY <1>6, <1>7

\* orchestration_state_for_stop gives every reason a step stops for a state.
LEMMA StopState == \A reason \in StopReasons : StateForStop(reason) \in OrchestrationStates
BY DEF StopReasons, RuntimeStops, StateForStop, OrchestrationStates

\* check_orchestration_bounds answers with a reason to stop, or allows the step
\* and there is room for another experiment.
LEMMA BoundsReason ==
    ASSUME NEW cur
    PROVE  /\ CheckBounds(cur) \in StopReasons \cup {"NONE"}
           /\ CheckBounds(cur) = "NONE" => ~(Len(exps) >= MaxExperiments)
BY DEF CheckBounds, StopReasons, RuntimeStops

\* Closing a step, and going on, keep everything else of the controller.
LEMMA CloseKeeps ==
    ASSUME NEW fin \in Fins, ctl \in Ctls, Close(fin)
    PROVE  /\ ctl' \in Ctls /\ ctl'.pc = "close"
           /\ ctl'.cur = ctl.cur /\ ctl'.exp = ctl.exp /\ ctl'.path = ctl.path
BY DEF Close, Ctls, PCs, AfterPcs

LEMMA GotoKeeps ==
    ASSUME NEW pc \in PCs, ctl \in Ctls, Goto(pc)
    PROVE  /\ ctl' \in Ctls /\ ctl'.pc = pc
           /\ ctl'.cur = ctl.cur /\ ctl'.exp = ctl.exp /\ ctl'.path = ctl.path
BY DEF Goto, Ctls

\* What a step is closed with is a stop reason, or the end of the cycle.
LEMMA FinTypes ==
    /\ \A reason \in StopReasons \cup {"NONE"} : Stop(reason) \in Fins
    /\ [Continue EXCEPT !.phase = "CYCLE_COMPLETE"] \in Fins
    /\ [Continue EXCEPT !.increment = TRUE, !.phase = "CYCLE_COMPLETE"] \in Fins
BY DEF Stop, Continue, Fins

\* What the controller does with a loop status it can meet on its path.
LEMMA AfterLoopGoes ==
    ASSUME NEW status, ctl \in Ctls, ctl.path \in {"main", "resume", "authorized"},
           AfterLoop(status),
           \/ ctl.path = "authorized"
           \/ status \in {"DISPATCH_DENIED", "HUMAN_REVIEW_REQUIRED", "RESULT",
                          "REAUTHORIZATION_REQUIRED", "INPUT_REJECTED"}
           \/ ctl.path = "resume" /\ status = "ALREADY_TERMINAL"
    PROVE  /\ ctl' \in Ctls
           /\ ctl'.pc \in {"close", "result", "finish", "assess"}
           /\ ctl'.cur = ctl.cur /\ ctl'.exp = ctl.exp /\ ctl'.path = ctl.path
<1>1. \/ \E fin \in Fins : Close(fin)
      \/ \E pc \in {"result", "finish", "assess"} : Goto(pc)
  <2>1. {"CORE_BLOCKED", "REQUIRE_HUMAN_REVIEW"} \subseteq StopReasons
    BY DEF StopReasons
  <2>2. CASE ctl.path = "authorized"
    BY <2>2, FinTypes DEF AfterLoop
  <2>3. CASE ctl.path # "authorized"
    <3>1. CASE status = "DISPATCH_DENIED"
      BY <2>1, <2>3, <3>1, FinTypes DEF AfterLoop
    <3>2. CASE status = "HUMAN_REVIEW_REQUIRED"
      BY <2>1, <2>3, <3>2, FinTypes DEF AfterLoop
    <3>3. CASE status \in {"RESULT", "REAUTHORIZATION_REQUIRED", "INPUT_REJECTED", "ALREADY_TERMINAL"}
      BY <2>3, <3>3 DEF AfterLoop
    <3> QED
      BY <2>3, <3>1, <3>2, <3>3
  <2> QED
    BY <2>2, <2>3
<1>2. {"close", "result", "finish", "assess"} \subseteq PCs
  BY DEF PCs, AfterPcs
<1> QED
  BY <1>1, <1>2, CloseKeeps, GotoKeeps

-----------------------------------------------------------------------------
(* Lemmas about the steps.                                                 *)

\* One experiment changes: the others, and how many there are, stay.
LEMMA OneExperimentChanges ==
    ASSUME NEW e \in DOMAIN exps, NEW x \in ExperimentRows,
           exps \in Seq(ExperimentRows), exps' = [exps EXCEPT ![e] = x]
    PROVE  /\ exps' \in Seq(ExperimentRows) /\ Len(exps') = Len(exps)
           /\ DOMAIN exps' = DOMAIN exps /\ exps'[e] = x
           /\ \A d \in DOMAIN exps \ {e} : exps'[d] = exps[d]
BY ExceptSeq

\* An experiment is planned: it is the last one, and the others stay.
LEMMA ExperimentPlanned ==
    ASSUME NEW h \in Nat, exps \in Seq(ExperimentRows), exps' = Append(exps, Planned(h))
    PROVE  /\ exps' \in Seq(ExperimentRows) /\ Len(exps') = Len(exps) + 1
           /\ DOMAIN exps = 1..Len(exps) /\ DOMAIN exps' = 1..(Len(exps) + 1)
           /\ exps'[Len(exps) + 1] = Planned(h)
           /\ \A d \in DOMAIN exps : exps'[d] = exps[d]
<1>1. Planned(h) \in ExperimentRows
  BY DEF Planned, ExperimentRows, ExperimentStates, Undecided
<1> QED
  BY <1>1, AppendProperties

\* Once nothing is left to run, only the rows and the copies matter.
LEMMA NothingLeftToRun ==
    ASSUME TypeOK', ExperimentsExist', RunsByState', RoomForOne',
           ctl'.pc \in AfterPcs \cup {"idle"}
    PROVE  Inv'
BY DEF Inv, StateOfPc, NoOtherInDoubt, ResumeMatchesRow, AfterPcs, RunPcs, ResumePcs,
       NewCyclePcs

\* A step that stops there, and changes no row.
LEMMA StepEnds ==
    ASSUME Inv, UNCHANGED <<row, hyps, exps, drawn, op>>,
           ctl' \in Ctls, ctl'.pc \in AfterPcs \cup {"idle"}, ctl'.exp \in 0..Len(exps),
           ctl'.path = "authorized" => ctl'.exp # None,
           \/ ctl'.cur = row
           \/ ctl'.cur = ctl.cur /\ ctl.pc # "idle"
           \/ ctl'.cur.exp = None /\ ctl'.pc = "idle"
    PROVE  Inv'
<1>1. TypeOK' /\ RunsByState'
  BY DEF Inv, TypeOK, RunsByState
<1>2. ExperimentsExist'
  <2>1. Len(exps) \in Nat
    BY DEF Inv, TypeOK
  <2> QED
    BY <2>1 DEF Inv, ExperimentsExist, RunPcs, AfterPcs, None
<1>3. RoomForOne'
  BY DEF Inv, RoomForOne, AfterPcs, NewCyclePcs
<1> QED
  BY <1>1, <1>2, <1>3, NothingLeftToRun

\* A loop status that only ends the work on the experiment.
LEMMA LoopEnds ==
    ASSUME Inv, NEW status,
           UNCHANGED <<row, hyps, drawn, op>>,
           exps' \in Seq(ExperimentRows), Len(exps') = Len(exps), RunsByState',
           ctl.pc \in RunPcs, AfterLoop(status),
           \/ ctl.path = "authorized"
           \/ status \in {"DISPATCH_DENIED", "HUMAN_REVIEW_REQUIRED", "RESULT",
                          "REAUTHORIZATION_REQUIRED", "INPUT_REJECTED"}
           \/ ctl.path = "resume" /\ status = "ALREADY_TERMINAL"
    PROVE  Inv'
<1>1. ctl \in Ctls /\ ctl.path \in {"main", "resume", "authorized"} /\ ctl.pc # "idle"
  BY DEF Inv, TypeOK, StateOfPc, RunPcs
<1>2. /\ ctl' \in Ctls /\ ctl'.pc \in AfterPcs
      /\ ctl'.cur = ctl.cur /\ ctl'.exp = ctl.exp
  BY <1>1, AfterLoopGoes DEF AfterPcs
<1>3. TypeOK'
  BY <1>2 DEF Inv, TypeOK
<1>4. ExperimentsExist'
  BY <1>2 DEF Inv, ExperimentsExist, RunPcs, AfterPcs
<1>5. RoomForOne'
  BY <1>1, <1>2 DEF Inv, RoomForOne, AfterPcs, NewCyclePcs
<1> QED
  BY <1>2, <1>3, <1>4, <1>5, NothingLeftToRun

\* A checkpoint: a copy that keeps its ids becomes the row.
LEMMA CheckpointEnds ==
    ASSUME Inv, NEW phase \in {"WORKER_RESULT_RECORDED", "TRANSITION_A_COMPLETE",
                               "ASSESSMENT_COMPLETE"},
           NEW pc \in AfterPcs, ctl.pc # "idle",
           Save(At(ctl.cur, phase), pc), UNCHANGED <<hyps, exps, drawn, op>>
    PROVE  Inv'
<1>1. At(ctl.cur, phase) \in Rows /\ At(ctl.cur, phase).exp = ctl.cur.exp
  BY DEF At, Inv, TypeOK, Ctls, Rows, Phases, OrchestrationStates
<1>2. ctl' \in Ctls /\ ctl'.pc = pc /\ ctl'.cur = row' /\ ctl'.exp = ctl.exp
  BY <1>1 DEF Save, Inv, TypeOK, Ctls, PCs
<1>3. TypeOK' /\ RunsByState'
  BY <1>1, <1>2 DEF Inv, TypeOK, RunsByState, Save
<1>4. ExperimentsExist'
  BY <1>1, <1>2 DEF Inv, ExperimentsExist, RunPcs, AfterPcs, Save
<1>5. row'.phase = phase
  BY DEF Save, At, Inv, TypeOK, Ctls, Rows
<1>6. RoomForOne'
  BY <1>2, <1>5 DEF Inv, RoomForOne, AfterPcs, NewCyclePcs
<1> QED
  BY <1>2, <1>3, <1>4, <1>6, NothingLeftToRun

-----------------------------------------------------------------------------
(* Every step keeps the invariant.                                         *)

LEMMA InitInv == Init => Inv
<1> SUFFICES ASSUME Init PROVE Inv
  OBVIOUS
<1>1. InitialRow \in Rows /\ InitialRow.exp = None /\ InitialRow.phase = "CYCLE_READY"
  BY BoundsAssumption DEF InitialRow, Rows, OrchestrationStates, MaybeReason, StopReasons,
     Phases, None
<1>2. Idle \in Ctls /\ Idle.pc = "idle" /\ Idle.cur = InitialRow /\ Idle.exp = None
      /\ Idle.path = "none"
  BY <1>1 DEF Idle, Ctls, PCs, Fins, Continue, None
<1>3. NoCall \in Ops /\ NoCall.cur = InitialRow /\ NoCall.pc = "idle"
  BY <1>1 DEF NoCall, Ops
<1>4. exps = <<>> /\ Len(exps) = 0 /\ exps \in Seq(ExperimentRows)
  BY DEF Init
<1>5. TypeOK
  BY <1>1, <1>2, <1>3, <1>4 DEF Init, TypeOK
<1>6. ExperimentsExist
  BY <1>1, <1>2, <1>3, <1>4 DEF Init, ExperimentsExist, None, RunPcs
<1>7. RunsByState /\ StateOfPc /\ NoOtherInDoubt /\ ResumeMatchesRow
  BY <1>2, <1>4 DEF Init, RunsByState, StateOfPc, NoOtherInDoubt, ResumeMatchesRow,
     NewCyclePcs, ResumePcs, RunPcs
<1>8. RoomForOne
  BY <1>1, <1>2, <1>3, <1>4, BoundsAssumption DEF Init, RoomForOne, NewCyclePcs
<1> QED
  BY <1>5, <1>6, <1>7, <1>8 DEF Inv

\* Steps that only stop, or only look at a finished experiment.
LEMMA EndingSteps ==
    ASSUME Inv,
           \/ Route \/ SelectStops \/ ModelBudgetDenied \/ ExceedCeiling \/ FinishCycle
           \/ CompleteCycleConflicts \/ Crash
    PROVE  Inv'
<1>1. ctl \in Ctls /\ ctl.exp \in 0..Len(exps) /\ Len(exps) \in Nat
      /\ (ctl.path = "authorized" => ctl.exp # None)
  BY DEF Inv, TypeOK, ExperimentsExist
<1>2. CASE \E fin \in Fins : Close(fin) /\ UNCHANGED <<tables, op>> /\ ctl.pc # "idle"
  BY <1>1, <1>2, CloseKeeps, StepEnds DEF tables, AfterPcs
<1>3. CASE ctl' = Idle /\ UNCHANGED <<tables, op>>
  <2>1. Idle \in Ctls /\ Idle.pc = "idle" /\ Idle.exp = None /\ Idle.cur.exp = None
        /\ Idle.path = "none"
    BY BoundsAssumption DEF Idle, Ctls, PCs, Fins, Continue, InitialRow, Rows,
       OrchestrationStates, MaybeReason, StopReasons, Phases, None
  <2> QED
    BY <1>1, <1>3, <2>1, StepEnds DEF tables, None
<1>4. CASE Route
  BY <1>2, <1>4, FinTypes DEF Route, StopReasons, RuntimeStops
<1>5. CASE SelectStops
  <2>1. PICK selected \in BOOLEAN : NextCycleStop(selected) # "NONE"
                                    /\ Close(Stop(NextCycleStop(selected)))
    BY <1>5 DEF SelectStops
  <2>2. NextCycleStop(selected) \in StopReasons
    BY <2>1, BoundsReason DEF NextCycleStop, StopReasons
  <2> QED
    BY <1>2, <1>5, <2>1, <2>2, FinTypes DEF SelectStops
<1>6. CASE ModelBudgetDenied
  BY <1>2, <1>6, FinTypes DEF ModelBudgetDenied, StopReasons, Roles
<1>7. CASE ExceedCeiling
  BY <1>2, <1>7, FinTypes DEF ExceedCeiling, StopReasons
<1>8. CASE FinishCycle
  <2> DEFINE fin == [reason |-> IF ctl.cur.cycle + 1 >= MaxCycles THEN "MAX_CYCLES_REACHED"
                                ELSE "NONE",
                     increment |-> TRUE, phase |-> "CYCLE_COMPLETE"]
  <2>1. fin \in Fins
    BY DEF Fins, StopReasons
  <2> QED
    BY <1>2, <1>8, <2>1 DEF FinishCycle
<1>9. CASE CompleteCycleConflicts
  BY <1>3, <1>9 DEF CompleteCycleConflicts
<1>10. CASE Crash
  BY <1>3, <1>10 DEF Crash
<1> QED
  BY <1>4, <1>5, <1>6, <1>7, <1>8, <1>9, <1>10

\* A step of a new cycle that is to go on: the cycle has its room, and no
\* experiment is in doubt, for as long as no experiment changes.
LEMMA CycleGoesOn ==
    ASSUME Inv, UNCHANGED <<exps, op>>, hyps' \in Nat, drawn' \in Nat,
           ctl.pc \in NewCyclePcs, ctl'.pc \in NewCyclePcs,
           ctl' \in Ctls, ctl'.path = ctl.path, ctl'.exp = ctl.exp,
           row' \in Rows, row'.exp \in {row.exp, ctl.cur.exp},
           \/ ctl'.cur = row'
           \/ /\ ctl'.cur = ctl.cur
              /\ row'.phase \in {row.phase, ctl.cur.phase}
              /\ row'.hyp \in {row.hyp, ctl.cur.hyp}
    PROVE  Inv'
<1>1. TypeOK' /\ RunsByState'
  BY DEF Inv, TypeOK, RunsByState
<1>2. ExperimentsExist'
  BY DEF Inv, ExperimentsExist, RunPcs, NewCyclePcs
<1>3. StateOfPc'
  BY DEF Inv, StateOfPc, RunPcs, NewCyclePcs, ResumePcs
<1>4. NoOtherInDoubt'
  BY DEF Inv, NoOtherInDoubt, RunPcs, NewCyclePcs, ResumePcs, InDoubt
<1>5. RoomForOne'
  <2>1. Len(exps) \in Nat /\ Len(exps) < MaxExperiments /\ MaxExperiments \in Nat
    BY BoundsAssumption DEF Inv, TypeOK, RoomForOne
  <2>2. op.count = 0 => row.phase = ctl.cur.phase /\ row.exp = ctl.cur.exp
                        /\ row.hyp = ctl.cur.hyp
    BY DEF Inv, RoomForOne, NewCyclePcs
  <2> QED
    BY <2>1, <2>2 DEF Inv, RoomForOne
<1>6. ResumeMatchesRow'
  BY DEF ResumeMatchesRow, NewCyclePcs
<1> QED
  BY <1>1, <1>2, <1>3, <1>4, <1>5, <1>6 DEF Inv

\* Selection, the model calls and the admission.
LEMMA NewCycleSteps ==
    ASSUME Inv,
           \/ MarkRunning \/ Reload \/ ReloadSelected \/ SelectOpportunity
           \/ ReserveCall \/ CallModel \/ AdmitHypothesis
    PROVE  Inv'
<1> USE DEF tables
<1>1. /\ ctl \in Ctls /\ ctl.exp \in 0..Len(exps) /\ Len(exps) \in Nat
      /\ row \in Rows /\ hyps \in Nat /\ drawn \in Nat /\ ctl.cur \in Rows /\ ctl.id \in Nat
      /\ (ctl.path = "authorized" => ctl.exp # None)
  BY DEF Inv, TypeOK, ExperimentsExist, Ctls
<1>2. CASE MarkRunning
  <2>1. row' \in Rows /\ row'.exp = ctl.cur.exp /\ row'.phase = ctl.cur.phase
        /\ row'.hyp = ctl.cur.hyp
    BY <1>1, <1>2 DEF MarkRunning, Rows, OrchestrationStates
  <2>2. ctl' \in Ctls /\ ctl'.pc \in NewCyclePcs /\ ctl'.path = ctl.path
        /\ ctl'.exp = ctl.exp /\ ctl'.cur = ctl.cur
    BY <1>1, <1>2 DEF MarkRunning, Goto, Ctls, PCs, NewCyclePcs
  <2>3. ctl.pc \in NewCyclePcs
    BY <1>2 DEF MarkRunning, NewCyclePcs
  <2> QED
    BY <1>1, <1>2, <2>1, <2>2, <2>3, CycleGoesOn DEF MarkRunning
<1>3. CASE Reload
  <2>1. ctl' \in Ctls /\ ctl'.pc \in NewCyclePcs /\ ctl'.path = ctl.path
        /\ ctl'.exp = ctl.exp /\ ctl'.cur = row' /\ ctl.pc \in NewCyclePcs
    BY <1>1, <1>3 DEF Reload, Ctls, PCs, NewCyclePcs
  <2> QED
    BY <1>1, <1>3, <2>1, CycleGoesOn DEF Reload
<1>4. CASE ReloadSelected
  <2>1. CycleId \in Nat /\ drawn' \in Nat
    BY <1>1, <1>4 DEF CycleId, ReloadSelected, Rows
  <2>2. ctl' \in Ctls /\ ctl'.pc \in NewCyclePcs /\ ctl'.path = ctl.path
        /\ ctl'.exp = ctl.exp /\ ctl'.cur = row' /\ ctl.pc \in NewCyclePcs
    BY <1>1, <1>4, <2>1 DEF ReloadSelected, Ctls, PCs, NewCyclePcs
  <2> QED
    BY <1>1, <1>4, <2>1, <2>2, CycleGoesOn DEF ReloadSelected
<1>5. CASE SelectOpportunity
  <2> DEFINE id == IF ctl.cur.id = None THEN drawn + 1 ELSE ctl.cur.id
  <2>1. id \in Nat /\ drawn' \in Nat
    BY <1>1, <1>5 DEF SelectOpportunity, Rows
  <2>2. row' = [At(ctl.cur, "OPPORTUNITY_SELECTED") EXCEPT !.id = id]
        /\ ctl' = [ctl EXCEPT !.cur = row', !.id = id, !.pc = "GENERATOR"]
        /\ ctl.pc = "select"
    BY <1>5 DEF SelectOpportunity
  <2> HIDE DEF id
  <2>3. row' \in Rows /\ row'.exp = ctl.cur.exp
    BY <1>1, <2>1, <2>2 DEF At, Rows, Phases, OrchestrationStates
  <2>4. ctl' \in Ctls /\ ctl'.pc \in NewCyclePcs /\ ctl'.path = ctl.path
        /\ ctl'.exp = ctl.exp /\ ctl'.cur = row' /\ ctl.pc \in NewCyclePcs
    BY <1>1, <2>1, <2>2, <2>3 DEF Ctls, PCs, NewCyclePcs
  <2> QED
    BY <1>1, <1>5, <2>1, <2>3, <2>4, CycleGoesOn DEF SelectOpportunity
<1>6. CASE ReserveCall
  <2>1. Calling[ctl.pc] \in NewCyclePcs \cap PCs /\ ctl.pc \in NewCyclePcs
    BY <1>6 DEF ReserveCall, Calling, NewCyclePcs, PCs, Roles
  <2>2. ctl' \in Ctls /\ ctl'.pc = Calling[ctl.pc] /\ ctl'.path = ctl.path
        /\ ctl'.exp = ctl.exp /\ ctl'.cur = ctl.cur
    BY <1>1, <1>6, <2>1, GotoKeeps DEF ReserveCall
  <2> QED
    BY <1>1, <1>6, <2>1, <2>2, CycleGoesOn DEF ReserveCall
<1>7. CASE CallModel
  <2>1. PICK role \in Roles : 
          /\ ctl.pc = Calling[role]
          /\ \/ Goto(IF role = "GENERATOR" THEN "FALSIFIER" ELSE "admit")
             \/ \E reason \in RuntimeStops : Close(Stop(reason))
             \/ Close([Continue EXCEPT !.phase = "CYCLE_COMPLETE"])
    BY <1>7 DEF CallModel
  <2>2. ctl.pc \in NewCyclePcs /\ ctl.pc # "idle"
    BY <2>1 DEF Calling, NewCyclePcs, Roles
  <2>3. CASE \E fin \in Fins : Close(fin)
    BY <1>1, <1>7, <2>2, <2>3, CloseKeeps, StepEnds DEF CallModel, AfterPcs
  <2>4. CASE \E pc \in {"FALSIFIER", "admit"} : Goto(pc)
    <3>1. {"FALSIFIER", "admit"} \subseteq NewCyclePcs \cap PCs
      BY DEF NewCyclePcs, PCs
    <3> QED
      BY <1>1, <1>7, <2>2, <2>4, <3>1, GotoKeeps, CycleGoesOn DEF CallModel
  <2> QED
    BY <2>1, <2>3, <2>4, FinTypes DEF StopReasons
<1>8. CASE AdmitHypothesis
  <2> DEFINE h == hyps + 1
  <2>1. row' = [At(ctl.cur, "HYPOTHESIS_ADMITTED") EXCEPT !.hyp = h, !.id = ctl.id]
        /\ ctl' = [ctl EXCEPT !.cur = row', !.pc = "plan"]
        /\ ctl.pc = "admit"
    BY <1>8 DEF AdmitHypothesis, Save
  <2>2. row' \in Rows /\ row'.exp = ctl.cur.exp
    <3>1. h \in Nat
      BY <1>1
    <3> HIDE DEF h
    <3> QED
      BY <1>1, <2>1, <3>1 DEF At, Rows, Phases, OrchestrationStates
  <2>3. ctl' \in Ctls /\ ctl'.pc \in NewCyclePcs /\ ctl'.path = ctl.path
        /\ ctl'.exp = ctl.exp /\ ctl'.cur = row' /\ ctl.pc \in NewCyclePcs
    BY <1>1, <2>1, <2>2 DEF Ctls, PCs, NewCyclePcs
  <2> QED
    <3>1. hyps' \in Nat
      BY <1>1, <1>8 DEF AdmitHypothesis
    <3> QED
      BY <1>1, <1>8, <2>2, <2>3, <3>1, CycleGoesOn DEF AdmitHypothesis
<1> QED
  BY <1>2, <1>3, <1>4, <1>5, <1>6, <1>7, <1>8

\* A step that works on an experiment changes its record only, and the copy
\* becomes the row or both stay.
LEMMA WorkGoesOn ==
    ASSUME Inv, UNCHANGED <<hyps, drawn, op>>,
           exps' \in Seq(ExperimentRows), Len(exps') = Len(exps),
           ctl.pc \in {"request"} \cup RunPcs, ctl'.pc \in RunPcs,
           ctl' \in Ctls, ctl'.path = ctl.path, ctl'.exp = ctl.exp,
           \/ ctl'.cur = ctl.cur /\ row' = row
           \/ /\ ctl'.cur = row' /\ row' \in Rows /\ row'.exp \in {ctl.cur.exp, ctl.exp}
              /\ row'.phase \in {"AUTHORIZATION_REQUESTED", "ATTEMPT_AUTHORIZED"},
           RunsByState', NoOtherInDoubt',
           ctl'.pc = "execute" /\ ctl'.path = "main" => exps'[ctl'.exp].state = "PLANNED",
           ctl'.pc = "dispatch" => exps'[ctl'.exp].state = "AUTHORIZED",
           ctl'.pc = "invoke" => exps'[ctl'.exp].state = "DISPATCHING" /\ exps'[ctl'.exp].runs = 0,
           ctl'.pc = "record" => exps'[ctl'.exp].state = "DISPATCHING",
           ctl'.pc = "execute" => ctl.path \in {"main", "resume"}
    PROVE  Inv'
<1>1. TypeOK'
  BY DEF Inv, TypeOK
<1>2. ExperimentsExist'
  <2>1. ctl.exp \in 0..Len(exps) /\ ctl.exp # None
    BY DEF Inv, ExperimentsExist
  <2> QED
    BY <2>1 DEF Inv, ExperimentsExist
<1>3. StateOfPc'
  BY DEF Inv, StateOfPc, RunPcs, NewCyclePcs, ResumePcs, InDoubt
<1>4. RoomForOne'
  BY DEF Inv, RoomForOne, NewCyclePcs, RunPcs
<1>5. ResumeMatchesRow'
  BY DEF ResumeMatchesRow, RunPcs
<1> QED
  BY <1>1, <1>2, <1>3, <1>4, <1>5 DEF Inv

\* The experiment a step works on is one of the run's.
LEMMA WorkedOn ==
    ASSUME Inv, ctl.pc \in {"request"} \cup RunPcs
    PROVE  /\ exps \in Seq(ExperimentRows) /\ DOMAIN exps = 1..Len(exps) /\ Len(exps) \in Nat
           /\ ctl.exp \in DOMAIN exps /\ exps[ctl.exp] \in ExperimentRows
           /\ ctl \in Ctls /\ ctl.cur \in Rows /\ ctl.pc # "idle"
<1>1. exps \in Seq(ExperimentRows) /\ ctl \in Ctls /\ ctl.cur \in Rows /\ DOMAIN exps = 1..Len(exps)
      /\ Len(exps) \in Nat
  BY DEF Inv, TypeOK, Ctls
<1>2. ctl.exp \in 0..Len(exps) /\ ctl.exp # 0
  BY DEF Inv, ExperimentsExist, None
<1>3. ctl.exp \in 1..Len(exps)
  BY <1>1, <1>2
<1>4. exps[ctl.exp] \in ExperimentRows
  BY <1>1, <1>3, ElementOfSeq
<1> QED
  BY <1>1, <1>3, <1>4 DEF RunPcs

\* The request of the authorization, and what ExecutePlannedExperiment does up
\* to the worker's answer.
LEMMA RunSteps ==
    ASSUME Inv,
           RequestAuthorization \/ Authorize \/ Dispatch \/ Invoke
    PROVE  Inv'
<1>1. ctl.pc \in {"request"} \cup RunPcs
  BY DEF RequestAuthorization, Authorize, Dispatch, Invoke, RunPcs
<1>2. /\ exps \in Seq(ExperimentRows) /\ DOMAIN exps = 1..Len(exps)
      /\ ctl.exp \in DOMAIN exps /\ exps[ctl.exp] \in ExperimentRows
      /\ ctl \in Ctls /\ ctl.cur \in Rows
  BY <1>1, WorkedOn
<1>3. CASE RequestAuthorization
  <2>1. At(ctl.cur, "AUTHORIZATION_REQUESTED") \in Rows
        /\ At(ctl.cur, "AUTHORIZATION_REQUESTED").exp = ctl.cur.exp
        /\ At(ctl.cur, "AUTHORIZATION_REQUESTED").phase = "AUTHORIZATION_REQUESTED"
    BY <1>2 DEF At, Rows, Phases, OrchestrationStates
  <2>2. ctl' \in Ctls /\ ctl'.pc = "execute" /\ ctl'.path = ctl.path /\ ctl'.exp = ctl.exp
        /\ ctl'.cur = row' /\ row' = At(ctl.cur, "AUTHORIZATION_REQUESTED")
        /\ exps' = exps /\ ctl.path = "main" /\ exps[ctl.exp].state = "PLANNED"
    BY <1>2, <1>3, <2>1 DEF RequestAuthorization, Save, Ctls, PCs, RunPcs, Inv, StateOfPc
  <2>3. RunsByState' /\ NoOtherInDoubt'
    BY <1>3, <2>2 DEF Inv, RunsByState, NoOtherInDoubt, RequestAuthorization, InDoubt, RunPcs
  <2> QED
    BY <1>1, <1>2, <1>3, <2>1, <2>2, <2>3, WorkGoesOn DEF RequestAuthorization, RunPcs
<1>4. CASE Authorize
  <2> DEFINE x == [exps[ctl.exp] EXCEPT !.state = "AUTHORIZED"]
  <2>1. x \in ExperimentRows /\ x.state = "AUTHORIZED" /\ x.runs = exps[ctl.exp].runs
    BY <1>2 DEF ExperimentRows, ExperimentStates
  <2>2. exps' = [exps EXCEPT ![ctl.exp] = x]
    BY <1>4 DEF Authorize, SetExperiment
  <2> HIDE DEF x
  <2>3. /\ exps' \in Seq(ExperimentRows) /\ Len(exps') = Len(exps)
        /\ DOMAIN exps' = DOMAIN exps /\ exps'[ctl.exp] = x
        /\ \A d \in DOMAIN exps \ {ctl.exp} : exps'[d] = exps[d]
    BY <1>2, <2>1, <2>2, OneExperimentChanges
  <2> DEFINE saved == [At(ctl.cur, "ATTEMPT_AUTHORIZED") EXCEPT !.exp = ctl.exp]
  <2>4. saved \in Rows /\ saved.exp = ctl.exp /\ saved.phase = "ATTEMPT_AUTHORIZED"
    BY <1>2 DEF At, Rows, Phases, OrchestrationStates, Ctls
  <2>5. row' = saved /\ ctl' = [ctl EXCEPT !.cur = saved, !.pc = "dispatch"]
    BY <1>4 DEF Authorize, Save
  <2> HIDE DEF saved
  <2>6. ctl' \in Ctls /\ ctl'.pc = "dispatch" /\ ctl'.path = ctl.path /\ ctl'.exp = ctl.exp
        /\ ctl'.cur = row' /\ row' = saved
    BY <1>2, <2>4, <2>5 DEF Ctls, PCs, RunPcs
  <2>7. exps[ctl.exp].runs = 0
    BY <1>2, <1>4 DEF Inv, RunsByState, Authorize
  <2>8. RunsByState'
    BY <2>1, <2>3, <2>7 DEF Inv, RunsByState
  <2>9. NoOtherInDoubt'
    BY <1>4, <2>1, <2>3, <2>6 DEF Inv, NoOtherInDoubt, InDoubt, Authorize
  <2> QED
    BY <1>1, <1>2, <1>4, <2>1, <2>3, <2>4, <2>6, <2>8, <2>9, WorkGoesOn DEF Authorize, RunPcs
<1>5. CASE Dispatch
  <2> DEFINE x == [exps[ctl.exp] EXCEPT !.state = "DISPATCHING", !.charged = TRUE]
  <2>1. x \in ExperimentRows /\ x.state = "DISPATCHING" /\ x.runs = exps[ctl.exp].runs
    BY <1>2 DEF ExperimentRows, ExperimentStates
  <2>2. exps' = [exps EXCEPT ![ctl.exp] = x]
    BY <1>2, <1>5 DEF Dispatch, ExperimentRows
  <2> HIDE DEF x
  <2>3. /\ exps' \in Seq(ExperimentRows) /\ Len(exps') = Len(exps)
        /\ DOMAIN exps' = DOMAIN exps /\ exps'[ctl.exp] = x
        /\ \A d \in DOMAIN exps \ {ctl.exp} : exps'[d] = exps[d]
    BY <1>2, <2>1, <2>2, OneExperimentChanges
  <2>4. ctl' \in Ctls /\ ctl'.pc = "invoke" /\ ctl'.path = ctl.path /\ ctl'.exp = ctl.exp
        /\ ctl'.cur = ctl.cur
    BY <1>2, <1>5, GotoKeeps DEF Dispatch, PCs, RunPcs
  <2>5. exps[ctl.exp].runs = 0
    BY <1>2, <1>5 DEF Inv, RunsByState, StateOfPc, Dispatch
  <2>6. RunsByState'
    BY <2>1, <2>3, <2>5 DEF Inv, RunsByState
  <2>7. NoOtherInDoubt'
    BY <1>5, <2>3, <2>4 DEF Inv, NoOtherInDoubt, InDoubt, Dispatch, NewCyclePcs, ResumePcs
  <2> QED
    BY <1>1, <1>2, <1>5, <2>1, <2>3, <2>4, <2>5, <2>6, <2>7, WorkGoesOn
       DEF Dispatch, RunPcs
<1>6. CASE Invoke
  <2> DEFINE x == [exps[ctl.exp] EXCEPT !.runs = @ + 1]
  <2>1. exps[ctl.exp].runs = 0 /\ exps[ctl.exp].state = "DISPATCHING"
    BY <1>6 DEF Inv, StateOfPc, Invoke, InDoubt
  <2>2. x \in ExperimentRows /\ x.state = "DISPATCHING" /\ x.runs = 1
    BY <1>2, <2>1 DEF ExperimentRows, ExperimentStates
  <2>3. exps' = [exps EXCEPT ![ctl.exp] = x]
    BY <1>6 DEF Invoke
  <2> HIDE DEF x
  <2>4. /\ exps' \in Seq(ExperimentRows) /\ Len(exps') = Len(exps)
        /\ DOMAIN exps' = DOMAIN exps /\ exps'[ctl.exp] = x
        /\ \A d \in DOMAIN exps \ {ctl.exp} : exps'[d] = exps[d]
    BY <1>2, <2>2, <2>3, OneExperimentChanges
  <2>5. ctl' \in Ctls /\ ctl'.pc = "record" /\ ctl'.path = ctl.path /\ ctl'.exp = ctl.exp
        /\ ctl'.cur = ctl.cur
    BY <1>2, <1>6, GotoKeeps DEF Invoke, PCs, RunPcs
  <2>6. RunsByState'
    BY <2>2, <2>4 DEF Inv, RunsByState, Undecided
  <2>7. NoOtherInDoubt'
    BY <2>5 DEF NoOtherInDoubt, NewCyclePcs, ResumePcs
  <2> QED
    BY <1>1, <1>2, <1>6, <2>2, <2>4, <2>5, <2>6, <2>7, WorkGoesOn
       DEF Invoke, RunPcs
<1> QED
  BY <1>3, <1>4, <1>5, <1>6

\* ExecutePlannedExperiment ends: whatever it answers, the step only finishes,
\* and the experiment is not in a state from which it could run again.
LEMMA LoopSteps ==
    ASSUME Inv,
           ExecuteExisting \/ RefuseExecution \/ DenyDispatch \/ RecordOutcome
    PROVE  Inv'
<1> USE DEF tables
<1>1. ctl.pc \in RunPcs
  BY DEF ExecuteExisting, RefuseExecution, DenyDispatch, RecordOutcome, RunPcs
<1>2. /\ exps \in Seq(ExperimentRows) /\ DOMAIN exps = 1..Len(exps)
      /\ ctl.exp \in DOMAIN exps /\ exps[ctl.exp] \in ExperimentRows
      /\ RunsByState
  BY <1>1, WorkedOn DEF Inv
<1>3. ASSUME NEW state \in ExperimentStates, SetExperiment(ctl.exp, state),
             state \in Undecided => exps[ctl.exp].state \in Undecided
      PROVE  exps' \in Seq(ExperimentRows) /\ Len(exps') = Len(exps)
             /\ (state # "AUTHORIZED" => RunsByState')
  <2> DEFINE x == [exps[ctl.exp] EXCEPT !.state = state]
  <2>1. x \in ExperimentRows /\ x.state = state /\ x.runs = exps[ctl.exp].runs
    BY <1>2 DEF ExperimentRows
  <2>2. exps' = [exps EXCEPT ![ctl.exp] = x]
    BY <1>3 DEF SetExperiment
  <2> HIDE DEF x
  <2>3. /\ exps' \in Seq(ExperimentRows) /\ Len(exps') = Len(exps)
        /\ DOMAIN exps' = DOMAIN exps /\ exps'[ctl.exp] = x
        /\ \A d \in DOMAIN exps \ {ctl.exp} : exps'[d] = exps[d]
    BY <1>2, <2>1, <2>2, OneExperimentChanges
  <2>4. state # "AUTHORIZED" => RunsByState'
    BY <1>2, <1>3, <2>1, <2>3 DEF RunsByState
  <2> QED
    BY <2>3, <2>4
<1>4. exps' = exps => exps' \in Seq(ExperimentRows) /\ Len(exps') = Len(exps) /\ RunsByState'
  BY <1>2 DEF RunsByState
<1>5. CASE ExecuteExisting
  <2>1. ctl.path = "resume"
    BY <1>5 DEF Inv, StateOfPc, ExecuteExisting, Undecided
  <2> QED
    BY <1>1, <1>4, <1>5, <2>1, LoopEnds DEF ExecuteExisting
<1>6. CASE RefuseExecution
  <2>1. CASE SetExperiment(ctl.exp, "BLOCKED") /\ AfterLoop("DISPATCH_DENIED")
    BY <1>1, <1>3, <1>6, <2>1, LoopEnds DEF RefuseExecution, ExperimentStates, Undecided
  <2>2. CASE SetExperiment(ctl.exp, "AUTHORIZATION_CHECK") /\ AfterLoop("HUMAN_REVIEW_REQUIRED")
    BY <1>1, <1>3, <1>6, <2>2, LoopEnds DEF RefuseExecution, ExperimentStates, Undecided
  <2>3. CASE UNCHANGED exps /\ AfterLoop("INPUT_REJECTED")
    BY <1>1, <1>4, <1>6, <2>3, LoopEnds DEF RefuseExecution
  <2> QED
    BY <1>6, <2>1, <2>2, <2>3 DEF RefuseExecution
<1>7. CASE DenyDispatch
  BY <1>1, <1>4, <1>7, LoopEnds DEF DenyDispatch
<1>8. CASE RecordOutcome
  <2>1. CASE SetExperiment(ctl.exp, "FINISHED") /\ AfterLoop("RESULT")
    BY <1>1, <1>3, <1>8, <2>1, LoopEnds DEF RecordOutcome, ExperimentStates, Undecided
  <2>2. CASE SetExperiment(ctl.exp, "REAUTHORIZATION_REQUIRED")
             /\ AfterLoop("REAUTHORIZATION_REQUIRED")
    BY <1>1, <1>3, <1>8, <2>2, LoopEnds DEF RecordOutcome, ExperimentStates, Undecided
  <2>3. CASE SetExperiment(ctl.exp, "BUDGET_EXHAUSTED") /\ AfterLoop("DISPATCH_DENIED")
    BY <1>1, <1>3, <1>8, <2>3, LoopEnds DEF RecordOutcome, ExperimentStates, Undecided
  <2>4. CASE UNCHANGED exps /\ AfterLoop("RESULT")
    BY <1>1, <1>4, <1>8, <2>4, LoopEnds DEF RecordOutcome
  <2> QED
    BY <1>8, <2>1, <2>2, <2>3, <2>4 DEF RecordOutcome
<1> QED
  BY <1>5, <1>6, <1>7, <1>8

\* The checkpoints after the worker.
LEMMA CheckpointSteps ==
    ASSUME Inv, CheckpointResult \/ CheckpointTransition \/ CheckpointAssessment
    PROVE  Inv'
<1>1. CASE CheckpointResult
  BY <1>1, CheckpointEnds DEF CheckpointResult, AfterPcs
<1>2. CASE CheckpointTransition
  BY <1>2, CheckpointEnds DEF CheckpointTransition, AfterPcs
<1>3. CASE CheckpointAssessment
  BY <1>3, CheckpointEnds DEF CheckpointAssessment, AfterPcs
<1> QED
  BY <1>1, <1>2, <1>3

\* The assessment marks the experiment, if the stale id of the step names one.
LEMMA AssessStep ==
    ASSUME Inv, Assess
    PROVE  Inv'
<1>1. /\ exps \in Seq(ExperimentRows) /\ DOMAIN exps = 1..Len(exps) /\ Len(exps) \in Nat
      /\ ctl \in Ctls /\ ctl.exp \in 0..Len(exps)
  BY DEF Inv, TypeOK, ExperimentsExist
<1>2. exps' \in Seq(ExperimentRows) /\ Len(exps') = Len(exps) /\ RunsByState'
  <2>1. CASE ctl.exp \in DOMAIN exps
    <3> DEFINE x == [exps[ctl.exp] EXCEPT !.assessed = TRUE]
    <3>1. exps[ctl.exp] \in ExperimentRows
      BY <1>1, <2>1, ElementOfSeq
    <3>2. x \in ExperimentRows /\ x.state = exps[ctl.exp].state /\ x.runs = exps[ctl.exp].runs
      BY <3>1 DEF ExperimentRows
    <3>3. exps' = [exps EXCEPT ![ctl.exp] = x]
      BY DEF Assess
    <3> HIDE DEF x
    <3>4. /\ exps' \in Seq(ExperimentRows) /\ Len(exps') = Len(exps)
          /\ DOMAIN exps' = DOMAIN exps /\ exps'[ctl.exp] = x
          /\ \A d \in DOMAIN exps \ {ctl.exp} : exps'[d] = exps[d]
      BY <1>1, <2>1, <3>2, <3>3, OneExperimentChanges
    <3>5. RunsByState'
      BY <2>1, <3>2, <3>4 DEF Inv, RunsByState
    <3> QED
      BY <3>4, <3>5
  <2>2. CASE ctl.exp \notin DOMAIN exps
    <3>1. exps' = exps
      BY <1>1, <2>2 DEF Assess
    <3> QED
      BY <1>1, <3>1 DEF Inv, RunsByState
  <2> QED
    BY <2>1, <2>2
<1>3. /\ ctl' \in Ctls /\ ctl'.pc \in AfterPcs
      /\ ctl'.cur = ctl.cur /\ ctl'.exp = ctl.exp /\ ctl'.path = ctl.path
  BY <1>1, GotoKeeps DEF Assess, PCs, AfterPcs
<1>4. TypeOK' /\ ExperimentsExist'
  BY <1>2, <1>3 DEF Inv, TypeOK, ExperimentsExist, Assess, RunPcs, AfterPcs
<1>5. RoomForOne'
  BY <1>2, <1>3 DEF Inv, RoomForOne, AfterPcs, NewCyclePcs, Assess
<1> QED
  BY <1>2, <1>3, <1>4, <1>5, NothingLeftToRun

\* _complete_cycle: the row is the copy with what the step ended with.
LEMMA CompleteCycleStep ==
    ASSUME Inv, CompleteCycle
    PROVE  Inv'
<1>1. /\ exps \in Seq(ExperimentRows) /\ DOMAIN exps = 1..Len(exps) /\ Len(exps) \in Nat
      /\ ctl \in Ctls /\ ctl.exp \in 0..Len(exps) /\ ctl.cur \in Rows /\ ctl.fin \in Fins
      /\ ctl.cur.exp \in 0..Len(exps) /\ ctl.pc = "close"
  BY DEF Inv, TypeOK, ExperimentsExist, Ctls, CompleteCycle
<1>2. ctl' \in Ctls /\ ctl'.pc = "idle" /\ ctl'.exp = None /\ ctl'.cur.exp = None
      /\ ctl'.path = "none"
  BY BoundsAssumption DEF CompleteCycle, Idle, Ctls, PCs, Fins, Continue, InitialRow, Rows,
     OrchestrationStates, MaybeReason, StopReasons, Phases, None
<1>3. row' \in Rows /\ row'.exp \in {ctl.cur.exp, ctl.exp}
      /\ (row'.phase = "CYCLE_COMPLETE" \/ row'.phase = ctl.cur.phase)
      /\ (row'.exp = None => ctl.cur.exp = None)
  <2> DEFINE state  == IF ctl.fin.reason = "NONE" THEN "READY" ELSE StateForStop(ctl.fin.reason)
             reason == IF ctl.fin.reason = "NONE" THEN ctl.cur.reason ELSE ctl.fin.reason
             phase  == IF ctl.fin.phase = "KEEP" /\ ~Counted THEN ctl.cur.phase
                       ELSE "CYCLE_COMPLETE"
             exp    == IF ctl.exp = None THEN ctl.cur.exp ELSE ctl.exp
             hyp    == IF ctl.path # "authorized" THEN ctl.cur.hyp ELSE exps[ctl.exp].hyp
  <2>1. state \in OrchestrationStates
    BY <1>1, StopState DEF Fins, OrchestrationStates
  <2>2. reason \in MaybeReason
    BY <1>1 DEF Fins, Rows, MaybeReason
  <2>3. phase \in Phases /\ phase \in {"CYCLE_COMPLETE", ctl.cur.phase}
    BY <1>1 DEF Rows, Phases
  <2>4. CycleNumber \in Nat
    BY <1>1 DEF CycleNumber, Rows
  <2>5. exp \in Nat /\ exp \in {ctl.cur.exp, ctl.exp} /\ (exp = None => ctl.cur.exp = None)
    BY <1>1 DEF Rows, Ctls
  <2>6. row' = [ctl.cur EXCEPT !.state = state, !.reason = reason, !.phase = phase,
                               !.cycle = CycleNumber, !.exp = exp, !.hyp = hyp]
    BY DEF CompleteCycle, ClosedRow
  <2>7. hyp \in Nat
    <3>1. ctl.path = "authorized" => ctl.exp \in DOMAIN exps
      BY <1>1 DEF Inv, ExperimentsExist, None
    <3>2. ctl.path = "authorized" => exps[ctl.exp] \in ExperimentRows
      BY <1>1, <3>1, ElementOfSeq
    <3> QED
      BY <1>1, <3>2 DEF Rows, ExperimentRows
  <2> HIDE DEF state, reason, phase, exp, hyp
  <2> QED
    BY <1>1, <2>1, <2>2, <2>3, <2>4, <2>5, <2>6, <2>7 DEF Rows
<1>4. TypeOK' /\ RunsByState'
  BY <1>2, <1>3 DEF Inv, TypeOK, RunsByState, CompleteCycle
<1>5. ExperimentsExist'
  BY <1>1, <1>2, <1>3 DEF Inv, ExperimentsExist, RunPcs, None, CompleteCycle
<1>6. RoomForOne'
  BY <1>1, <1>2, <1>3 DEF Inv, RoomForOne, NewCyclePcs, CompleteCycle
<1> QED
  BY <1>2, <1>4, <1>5, <1>6, NothingLeftToRun

\* An experiment is created with the row, where there is room for it.
LEMMA ExperimentCreated ==
    ASSUME Inv, UNCHANGED <<hyps, drawn, op>>, NEW h \in Nat,
           exps' = Append(exps, Planned(h)), op.count = 0 => Len(exps) < MaxExperiments,
           row' \in Rows, row'.exp = Len(exps) + 1, row'.phase = "EXPERIMENT_PLANNED",
           ctl' \in Ctls, ctl'.cur = row', ctl'.exp = Len(exps) + 1,
           \/ ctl.pc = "plan" /\ ctl'.pc = "request" /\ ctl'.path = "main"
           \/ ctl.pc = "admitted" /\ ctl'.pc = "execute" /\ ctl'.path = "resume"
    PROVE  Inv'
<1>1. Len(exps) \in Nat /\ MaxExperiments \in Nat /\ exps \in Seq(ExperimentRows)
  BY BoundsAssumption DEF Inv, TypeOK
<1>2. /\ exps' \in Seq(ExperimentRows) /\ Len(exps') = Len(exps) + 1
      /\ DOMAIN exps = 1..Len(exps) /\ DOMAIN exps' = 1..(Len(exps) + 1)
      /\ exps'[Len(exps) + 1] = Planned(h)
      /\ \A d \in DOMAIN exps : exps'[d] = exps[d]
  BY <1>1, ExperimentPlanned
<1>3. Planned(h).state = "PLANNED" /\ Planned(h).runs = 0
  BY DEF Planned
<1>4. \A d \in DOMAIN exps' : d \in DOMAIN exps \/ d = Len(exps) + 1
  BY <1>1, <1>2
<1>5. TypeOK'
  BY <1>2 DEF Inv, TypeOK
<1>6. ExperimentsExist'
  BY <1>1, <1>2 DEF Inv, ExperimentsExist, None
<1>7. RunsByState'
  BY <1>2, <1>3, <1>4 DEF Inv, RunsByState
<1>8. StateOfPc'
  BY <1>2, <1>3 DEF StateOfPc, NewCyclePcs, ResumePcs, RunPcs
<1>9. NoOtherInDoubt'
  <2>1. \A d \in DOMAIN exps : exps[d].state # "DISPATCHING"
    BY DEF Inv, NoOtherInDoubt, NewCyclePcs, ResumePcs, InDoubt
  <2> QED
    BY <1>2, <1>3, <1>4, <2>1 DEF NoOtherInDoubt, InDoubt
<1>10. RoomForOne'
  BY <1>1, <1>2 DEF Inv, RoomForOne, NewCyclePcs
<1>11. ResumeMatchesRow'
  BY DEF ResumeMatchesRow
<1> QED
  BY <1>5, <1>6, <1>7, <1>8, <1>9, <1>10, <1>11 DEF Inv

\* A new cycle plans the experiment of its hypothesis.
LEMMA PlanStep ==
    ASSUME Inv, PlanExperiment
    PROVE  Inv'
<1> DEFINE e == Len(exps) + 1
<1>1. ctl \in Ctls /\ ctl.cur \in Rows /\ ctl.cur.hyp \in Nat /\ e \in Nat /\ ctl.path = "main"
      /\ ctl.pc = "plan" /\ Len(exps) < MaxExperiments
  BY DEF Inv, TypeOK, Ctls, Rows, PlanExperiment, StateOfPc, RoomForOne, NewCyclePcs
<1>2. row' = [ctl.cur EXCEPT !.phase = "EXPERIMENT_PLANNED", !.exp = e]
      /\ ctl' = [ctl EXCEPT !.cur = row', !.exp = e, !.pc = "request"]
  BY DEF PlanExperiment
<1> HIDE DEF e
<1>3. row' \in Rows /\ row'.exp = e /\ row'.phase = "EXPERIMENT_PLANNED"
  BY <1>1, <1>2 DEF Rows, Phases
<1>4. ctl' \in Ctls /\ ctl'.cur = row' /\ ctl'.exp = e /\ ctl'.pc = "request" /\ ctl'.path = "main"
  BY <1>1, <1>2, <1>3 DEF Ctls, PCs
<1> QED
  BY <1>1, <1>3, <1>4, ExperimentCreated DEF PlanExperiment, e

\* OPPORTUNITY_SELECTED goes on with a hypothesis the run has.
LEMMA AdoptStep ==
    ASSUME Inv, AdoptHypothesis
    PROVE  Inv'
<1> DEFINE h == IF ctl.cur.hyp # None THEN ctl.cur.hyp ELSE hyps
<1>1. ctl \in Ctls /\ ctl.cur \in Rows /\ h \in Nat /\ ctl.path = "resume"
      /\ ctl.pc = "adopt" /\ ctl.cur.phase = "OPPORTUNITY_SELECTED"
  BY DEF Inv, TypeOK, Ctls, Rows, AdoptHypothesis, StateOfPc, ResumeMatchesRow, ResumePcs
<1>2. row' = [At(ctl.cur, "HYPOTHESIS_ADMITTED") EXCEPT !.hyp = h]
      /\ ctl' = [ctl EXCEPT !.cur = row', !.pc = "admitted"]
      /\ UNCHANGED <<hyps, exps, drawn, op>>
  BY DEF AdoptHypothesis, Save
<1> HIDE DEF h
<1>3. row' \in Rows /\ row'.exp = ctl.cur.exp /\ row'.phase = "HYPOTHESIS_ADMITTED"
  BY <1>1, <1>2 DEF At, Rows, Phases, OrchestrationStates
<1>4. ctl' \in Ctls /\ ctl'.cur = row' /\ ctl'.exp = ctl.exp /\ ctl'.pc = "admitted"
      /\ ctl'.path = "resume"
  BY <1>1, <1>2, <1>3 DEF Ctls, PCs, ResumePcs
<1>5. TypeOK' /\ RunsByState' /\ ResumeMatchesRow'
  BY <1>2, <1>3, <1>4 DEF Inv, TypeOK, RunsByState, ResumeMatchesRow
<1>6. ExperimentsExist'
  BY <1>2, <1>3, <1>4 DEF Inv, ExperimentsExist, RunPcs
<1>7. StateOfPc' /\ NoOtherInDoubt'
  BY <1>1, <1>2, <1>4 DEF Inv, StateOfPc, NoOtherInDoubt, InDoubt, NewCyclePcs, ResumePcs, RunPcs
<1>8. RoomForOne'
  BY <1>1, <1>2, <1>3, <1>4 DEF Inv, RoomForOne, NewCyclePcs
<1> QED
  BY <1>5, <1>6, <1>7, <1>8 DEF Inv

\* An admitted hypothesis goes on with the experiment it has, or gets one.
LEMMA ResumeStep ==
    ASSUME Inv, ResumeHypothesis
    PROVE  Inv'
<1> DEFINE h     == ctl.cur.hyp
           known == IF ctl.cur.exp # None THEN {ctl.cur.exp} ELSE ExperimentsOf(h)
           e     == IF known = {} THEN Len(exps) + 1
                    ELSE CHOOSE m \in known : \A n \in known : n <= m
           saved == [ctl.cur EXCEPT !.phase = "EXPERIMENT_PLANNED", !.exp = e]
<1>1. ctl \in Ctls /\ ctl.cur \in Rows /\ h \in Nat /\ ctl.path = "resume"
      /\ ctl.pc = "admitted" /\ ctl.cur.phase = "HYPOTHESIS_ADMITTED"
      /\ ctl.cur.exp \in 0..Len(exps) /\ Len(exps) \in Nat /\ DOMAIN exps = 1..Len(exps)
  BY DEF Inv, TypeOK, Ctls, Rows, ResumeHypothesis, StateOfPc, ResumeMatchesRow, ResumePcs,
     ExperimentsExist
<1>2. known \in SUBSET (1..Len(exps))
  BY <1>1 DEF ExperimentsOf, None
<1>3. /\ IF known = {}
         THEN exps' = Append(exps, Planned(h)) /\ row' = saved
         ELSE UNCHANGED exps /\ row' = [saved EXCEPT !.state = "RUNNING"]
      /\ ctl' = [ctl EXCEPT !.cur = row', !.exp = e, !.pc = "execute"]
      /\ UNCHANGED <<hyps, drawn, op>>
  BY DEF ResumeHypothesis
<1>4. known = {} => e = Len(exps) + 1 /\ ctl.cur.exp = None
  OBVIOUS
<1>5. known # {} => e \in 1..Len(exps)
  <2> HIDE DEF known
  <2> SUFFICES ASSUME known # {} PROVE e \in known
    BY <1>2
  <2>1. \E m \in known : \A n \in known : n <= m
    BY <1>1, <1>2, HasMaximum
  <2> QED
    BY <2>1
<1> HIDE DEF known, e
<1>6. e \in Nat /\ e # None
  BY <1>1, <1>4, <1>5 DEF None
<1>7. saved \in Rows /\ saved.exp = e /\ saved.phase = "EXPERIMENT_PLANNED"
  BY <1>1, <1>6 DEF Rows, Phases
<1>8. row' \in Rows /\ row'.exp = e /\ row'.phase = "EXPERIMENT_PLANNED"
  BY <1>3, <1>7 DEF Rows, OrchestrationStates
<1> HIDE DEF saved
<1>9. ctl' \in Ctls /\ ctl'.cur = row' /\ ctl'.exp = e /\ ctl'.pc = "execute"
      /\ ctl'.path = "resume"
  BY <1>1, <1>3, <1>6, <1>8 DEF Ctls, PCs, RunPcs
<1>10. CASE known = {}
  <2>1. op.count = 0 => Len(exps) < MaxExperiments
    BY <1>1, <1>4, <1>10 DEF Inv, RoomForOne
  <2> QED
    BY <1>1, <1>3, <1>4, <1>8, <1>9, <1>10, <2>1, ExperimentCreated
<1>11. CASE known # {}
  <2>1. exps' = exps /\ e \in 1..Len(exps)
    BY <1>3, <1>5, <1>11
  <2>2. TypeOK' /\ RunsByState' /\ ResumeMatchesRow'
    BY <1>3, <1>8, <1>9, <2>1 DEF Inv, TypeOK, RunsByState, ResumeMatchesRow
  <2>3. ExperimentsExist'
    <3>1. e \in 0..Len(exps)
      BY <1>1, <2>1
    <3>2. op' = op
      BY <1>3
    <3> QED
      BY <1>6, <1>8, <1>9, <2>1, <3>1, <3>2 DEF Inv, ExperimentsExist
  <2>4. StateOfPc' /\ NoOtherInDoubt'
    BY <1>1, <1>9, <2>1 DEF Inv, StateOfPc, NoOtherInDoubt, InDoubt, NewCyclePcs, ResumePcs,
       RunPcs
  <2>5. RoomForOne'
    BY <1>1, <1>3, <1>8, <1>9, <2>1 DEF Inv, RoomForOne, NewCyclePcs
  <2> QED
    BY <2>2, <2>3, <2>4, <2>5 DEF Inv
<1> QED
  BY <1>10, <1>11

\* A step starts from the row alone, with what the row says is to be done.
LEMMA StepStep ==
    ASSUME Inv, Step
    PROVE  Inv'
<1> DEFINE entry == Entry(row)
           copy  == [Idle EXCEPT !.cur = row, !.path = StepPaths[entry]]
<1> USE DEF tables
<1>1. /\ row \in Rows /\ row.exp \in 0..Len(exps) /\ Len(exps) \in Nat
      /\ DOMAIN exps = 1..Len(exps)
  BY DEF Inv, TypeOK, ExperimentsExist
<1>2. UNCHANGED <<row, hyps, exps, drawn, op>>
  BY DEF Step
<1>3. /\ entry \in {"in_doubt", "bounds"} =>
             \E reason \in StopReasons :
                ctl' = [copy EXCEPT !.pc = "close", !.fin = Stop(reason)]
      /\ entry = "dispatch" =>
             ctl' = [copy EXCEPT !.pc = "dispatch", !.exp = CHOOSE e \in Authorized : TRUE]
      /\ entry = "execute" => ctl' = [copy EXCEPT !.pc = "execute", !.exp = row.exp]
      /\ entry = "after_worker" =>
             \E pc \in {"finish", "assess"} : ctl' = [copy EXCEPT !.exp = row.exp, !.pc = pc]
      /\ entry \in {"admitted", "adopt", "new_cycle"} => ctl' = [copy EXCEPT !.pc = entry]
  <2>1. entry = "bounds" => CheckBounds(row) \in StopReasons
    BY BoundsReason DEF Entry
  <2>2. "OPERATIONAL_FAILURE" \in StopReasons
    BY DEF StopReasons, RuntimeStops
  <2> HIDE DEF copy
  <2>3. ctl' = CASE entry = "in_doubt" ->
                     [copy EXCEPT !.pc = "close", !.fin = Stop("OPERATIONAL_FAILURE")]
                [] entry = "bounds" ->
                     [copy EXCEPT !.pc = "close", !.fin = Stop(CheckBounds(row))]
                [] entry = "dispatch" ->
                     [copy EXCEPT !.pc = "dispatch",
                                  !.exp = CHOOSE e \in Authorized : TRUE]
                [] entry = "execute" -> [copy EXCEPT !.pc = "execute", !.exp = row.exp]
                [] entry = "after_worker" ->
                     [copy EXCEPT !.exp = row.exp,
                                  !.pc = IF row.phase = "ASSESSMENT_COMPLETE"
                                         THEN "finish" ELSE "assess"]
                [] OTHER -> [copy EXCEPT !.pc = entry]
    BY DEF Step, copy
  <2> HIDE DEF entry
  <2> QED
    BY <2>1, <2>2, <2>3
<1>4. entry \in {"in_doubt", "bounds", "dispatch", "execute", "after_worker", "admitted",
                "adopt", "new_cycle"}
  BY DEF Entry
<1>5. \/ entry = "in_doubt" \/ entry = "bounds" \/ entry = "after_worker"
      \/ entry = "dispatch" /\ ~UnknownOpen /\ Authorized # {}
      \/ entry = "execute" /\ ~UnknownOpen /\ row.exp # None
      \/ entry = "admitted" /\ ~UnknownOpen /\ row.phase = "HYPOTHESIS_ADMITTED"
      \/ entry = "adopt" /\ ~UnknownOpen /\ row.phase = "OPPORTUNITY_SELECTED"
      \/ entry = "new_cycle" /\ ~UnknownOpen /\ ~(Len(exps) >= MaxExperiments)
  BY BoundsReason DEF Entry
<1> HIDE DEF entry
<1>6. /\ StepPaths[entry] \in {"none", "authorized", "resume", "after", "main"}
      /\ entry \in {"in_doubt", "bounds"} => StepPaths[entry] = "none"
      /\ entry = "dispatch" => StepPaths[entry] = "authorized"
      /\ entry \in {"execute", "admitted", "adopt"} => StepPaths[entry] = "resume"
      /\ entry = "after_worker" => StepPaths[entry] = "after"
      /\ entry = "new_cycle" => StepPaths[entry] = "main"
  BY <1>4 DEF StepPaths
<1>7. Continue \in Fins
  BY DEF Continue, Fins
<1>8. copy \in Ctls /\ copy.cur = row /\ copy.path = StepPaths[entry] /\ copy.exp = None
  <2> DEFINE path == StepPaths[entry]
  <2>1. path \in {"none", "authorized", "resume", "after", "main"}
    BY <1>6
  <2> HIDE DEF path
  <2>2. Idle \in Ctls /\ Idle.exp = None
    BY BoundsAssumption DEF Idle, Ctls, PCs, Fins, Continue, InitialRow, Rows,
       OrchestrationStates, MaybeReason, StopReasons, Phases, None
  <2>3. copy = [Idle EXCEPT !.cur = row, !.path = path]
    BY DEF path
  <2> HIDE DEF copy
  <2>4. copy \in Ctls /\ copy.cur = row /\ copy.path = path /\ copy.exp = None
    BY <1>1, <2>1, <2>2, <2>3 DEF Ctls
  <2> QED
    BY <2>4 DEF path
<1> HIDE DEF copy
<1>9. ASSUME NEW reason \in StopReasons,
             ctl' = [copy EXCEPT !.pc = "close", !.fin = Stop(reason)],
             entry \in {"in_doubt", "bounds"}
      PROVE  Inv'
  <2>1. Stop(reason) \in Fins
    BY FinTypes
  <2>2. ctl' \in Ctls /\ ctl'.pc \in AfterPcs /\ ctl'.cur = row /\ ctl'.exp = None
        /\ ctl'.path = "none"
    BY <1>9, <1>6, <1>8, <2>1 DEF Ctls, PCs, AfterPcs
  <2> QED
    BY <1>1, <1>2, <2>2, StepEnds DEF None
<1>10. CASE entry = "after_worker"
  <2>1. PICK pc \in {"finish", "assess"} : ctl' = [copy EXCEPT !.exp = row.exp, !.pc = pc]
    BY <1>3, <1>10
  <2>2. ctl' \in Ctls /\ ctl'.pc \in AfterPcs /\ ctl'.cur = row /\ ctl'.exp = row.exp
        /\ ctl'.path = "after"
    BY <1>1, <1>10, <1>6, <1>8, <2>1 DEF Ctls, PCs, AfterPcs, Rows
  <2> QED
    BY <1>1, <1>2, <2>2, StepEnds
<1>11. ASSUME ctl' \in Ctls, ctl'.cur = row, ctl'.exp \in 0..Len(exps), ~UnknownOpen,
             \/ ctl'.pc = "dispatch" /\ ctl'.path = "authorized" /\ ctl'.exp \in Authorized
             \/ ctl'.pc = "execute" /\ ctl'.path = "resume" /\ ctl'.exp # None
             \/ ctl'.pc = "admitted" /\ ctl'.path = "resume" /\ row.phase = "HYPOTHESIS_ADMITTED"
             \/ ctl'.pc = "adopt" /\ ctl'.path = "resume" /\ row.phase = "OPPORTUNITY_SELECTED"
             \/ ctl'.pc = "new_cycle" /\ ctl'.path = "main" /\ Len(exps) < MaxExperiments
      PROVE  Inv'
  <2>1. TypeOK' /\ RunsByState'
    BY <1>2, <1>11 DEF Inv, TypeOK, RunsByState
  <2>2. ExperimentsExist'
    BY <1>1, <1>2, <1>11 DEF Inv, ExperimentsExist, RunPcs, Authorized, None
  <2>3. StateOfPc'
    BY <1>2, <1>11 DEF StateOfPc, NewCyclePcs, ResumePcs, RunPcs, Authorized
  <2>4. NoOtherInDoubt'
    BY <1>2, <1>11 DEF NoOtherInDoubt, UnknownOpen, InDoubt
  <2>5. RoomForOne'
    BY <1>2, <1>11 DEF Inv, RoomForOne, NewCyclePcs
  <2>6. ResumeMatchesRow'
    BY <1>11 DEF ResumeMatchesRow
  <2> QED
    BY <2>1, <2>2, <2>3, <2>4, <2>5, <2>6 DEF Inv
<1>12. CASE entry = "dispatch"
  <2> DEFINE e == CHOOSE e \in Authorized : TRUE
  <2>1. e \in Authorized /\ ~UnknownOpen
    BY <1>5, <1>12
  <2>2. e \in 0..Len(exps) /\ e \in Nat
    BY <1>1, <2>1 DEF Authorized
  <2>3. ctl' = [copy EXCEPT !.pc = "dispatch", !.exp = e]
    BY <1>3, <1>12
  <2> HIDE DEF e
  <2>4. ctl' \in Ctls /\ ctl'.cur = row /\ ctl'.exp = e /\ ctl'.pc = "dispatch"
        /\ ctl'.path = "authorized"
    BY <1>12, <1>6, <1>8, <2>2, <2>3 DEF Ctls, PCs, RunPcs
  <2> QED
    BY <1>11, <2>1, <2>2, <2>4
<1>13. CASE entry = "execute"
  <2>1. ctl' \in Ctls /\ ctl'.cur = row /\ ctl'.exp = row.exp /\ ctl'.pc = "execute"
        /\ ctl'.path = "resume"
    BY <1>1, <1>3, <1>13, <1>6, <1>8 DEF Ctls, PCs, RunPcs, Rows
  <2> QED
    BY <1>1, <1>5, <1>11, <1>13, <2>1
<1>14. CASE entry \in {"admitted", "adopt", "new_cycle"}
  <2>1. ctl' \in Ctls /\ ctl'.cur = row /\ ctl'.exp = None /\ ctl'.pc = entry
        /\ ctl'.path = StepPaths[entry]
    BY <1>3, <1>14, <1>8 DEF Ctls, PCs, NewCyclePcs, ResumePcs
  <2>2. ~(Len(exps) >= MaxExperiments) => Len(exps) < MaxExperiments
    BY <1>1, BoundsAssumption
  <2> QED
    BY <1>1, <1>5, <1>11, <1>14, <1>6, <2>1, <2>2 DEF None
<1> QED
  BY <1>3, <1>5, <1>9, <1>10, <1>12, <1>13, <1>14

\* An operator writes back the copy it read, and time passes: neither touches the
\* experiments or the controller.
LEMMA OtherSteps ==
    ASSUME Inv, OperatorReads \/ OperatorWrites \/ TimePasses
    PROVE  Inv'
<1> USE DEF tables
<1>1. CASE OperatorReads
  <2>1. PICK call \in OperatorCalls :
           op' = [pc |-> "write", cur |-> row, call |-> call, count |-> op.count + 1]
    BY <1>1 DEF OperatorReads
  <2>2. op.count \in Nat /\ row \in Rows
    BY DEF Inv, TypeOK, Ops
  <2>3. op' \in Ops /\ op'.cur = row /\ op'.count > 0 /\ op'.call \in OperatorCalls
    BY <2>1, <2>2 DEF Ops
  <2>4. TypeOK' /\ RunsByState' /\ ResumeMatchesRow'
    BY <1>1, <2>3 DEF Inv, TypeOK, RunsByState, ResumeMatchesRow, OperatorReads
  <2>5. ExperimentsExist'
    BY <1>1, <2>3 DEF Inv, ExperimentsExist, OperatorReads
  <2>6. StateOfPc' /\ NoOtherInDoubt'
    BY <1>1 DEF Inv, StateOfPc, NoOtherInDoubt, InDoubt, OperatorReads
  <2>7. RoomForOne'
    BY <1>1, <2>2, <2>3 DEF Inv, RoomForOne, OperatorReads
  <2> QED
    BY <2>4, <2>5, <2>6, <2>7 DEF Inv
<1>2. CASE OperatorWrites
  <2>1. op \in Ops /\ op.cur \in Rows /\ op.count \in Nat /\ op.count > 0 /\ row' = OperatorRow
    BY <1>2 DEF Inv, TypeOK, Ops, RoomForOne, OperatorWrites
  <2>2. op.call \in OperatorCalls => row' \in Rows /\ row'.exp = op.cur.exp
    BY <2>1 DEF OperatorRow, OperatorCalls, Rows, OrchestrationStates, MaybeReason
  <2>3. op.call \in OperatorCalls
    BY <1>2 DEF Inv, RoomForOne, OperatorWrites
  <2>4. InitialRow \in Rows /\ InitialRow.exp = None
    BY BoundsAssumption DEF InitialRow, Rows, OrchestrationStates, MaybeReason, StopReasons,
       Phases, None
  <2>5. op' \in Ops /\ op'.cur = InitialRow /\ op'.count = op.count /\ op'.pc = "idle"
    BY <1>2, <2>1, <2>4 DEF Ops, OperatorWrites
  <2>6. TypeOK' /\ RunsByState' /\ ResumeMatchesRow'
    BY <1>2, <2>2, <2>3, <2>5 DEF Inv, TypeOK, RunsByState, ResumeMatchesRow, OperatorWrites
  <2>7. ExperimentsExist'
    BY <1>2, <2>2, <2>3, <2>4, <2>5 DEF Inv, TypeOK, ExperimentsExist, OperatorWrites, None
  <2>8. StateOfPc' /\ NoOtherInDoubt'
    BY <1>2 DEF Inv, StateOfPc, NoOtherInDoubt, InDoubt, OperatorWrites
  <2>9. RoomForOne'
    BY <1>2, <2>1, <2>5 DEF Inv, RoomForOne, OperatorWrites
  <2> QED
    BY <2>5, <2>6, <2>7, <2>8, <2>9 DEF Inv
<1>3. CASE TimePasses
  BY <1>3 DEF TimePasses, Inv, TypeOK, ExperimentsExist, RunsByState, StateOfPc,
     NoOtherInDoubt, InDoubt, RoomForOne, ResumeMatchesRow
<1> QED
  BY <1>1, <1>2, <1>3

LEMMA NextInv == Inv /\ [Next]_vars => Inv'
<1> SUFFICES ASSUME Inv, [Next]_vars PROVE Inv'
  OBVIOUS
<1>1. CASE Step
  BY <1>1, StepStep
<1>2. CASE AdoptHypothesis \/ ResumeHypothesis \/ PlanExperiment
  BY <1>2, AdoptStep, ResumeStep, PlanStep
<1>3. CASE \/ MarkRunning \/ Reload \/ ReloadSelected \/ SelectOpportunity
           \/ ReserveCall \/ CallModel \/ AdmitHypothesis
  BY <1>3, NewCycleSteps
<1>4. CASE \/ Route \/ SelectStops \/ ModelBudgetDenied \/ ExceedCeiling \/ FinishCycle
           \/ CompleteCycleConflicts \/ Crash
  BY <1>4, EndingSteps
<1>5. CASE RequestAuthorization \/ Authorize \/ Dispatch \/ Invoke
  BY <1>5, RunSteps
<1>6. CASE ExecuteExisting \/ RefuseExecution \/ DenyDispatch \/ RecordOutcome
  BY <1>6, LoopSteps
<1>7. CASE CheckpointResult \/ CheckpointTransition \/ CheckpointAssessment \/ Assess
  BY <1>7, CheckpointSteps, AssessStep
<1>8. CASE CompleteCycle
  BY <1>8, CompleteCycleStep
<1>9. CASE OperatorReads \/ OperatorWrites \/ TimePasses
  BY <1>9, OtherSteps
<1>10. CASE UNCHANGED vars
  BY <1>10 DEF vars, tables, Inv, TypeOK, ExperimentsExist, RunsByState, StateOfPc,
     NoOtherInDoubt, InDoubt, RoomForOne, ResumeMatchesRow
<1> QED
  BY <1>1, <1>2, <1>3, <1>4, <1>5, <1>6, <1>7, <1>8, <1>9, <1>10 DEF Next, ControllerStep

THEOREM InvariantHolds == Spec => []Inv
<1>1. Init => Inv
  BY InitInv
<1>2. Inv /\ [Next]_vars => Inv'
  BY NextInv
<1> QED
  BY <1>1, <1>2, PTL DEF Spec

(***************************************************************************)
(* "Do not blindly repeat side-effectful work", for every number of        *)
(* crashes and operator calls: an experiment reaches a worker at most once *)
(* and, where no operator writes, a run has no more experiments than its   *)
(* max_experiments.                                                        *)
(***************************************************************************)
THEOREM RunsOnceTheorem == Spec => []ExperimentRunsOnce
<1>1. Inv => ExperimentRunsOnce
  BY DEF Inv, RunsByState, RoomForOne, ExperimentRunsOnce
<1> QED
  BY <1>1, InvariantHolds, PTL

-----------------------------------------------------------------------------
(* What a step may not do.                                                 *)

\* No step but the call of the worker counts a run.
LEMMA OnlyInvokeRuns ==
    ASSUME Inv, [Next]_vars, ~Invoke, NEW e \in DOMAIN exps
    PROVE  exps'[e].runs = exps[e].runs
<1> USE DEF tables
<1>1. exps \in Seq(ExperimentRows) /\ exps[e] \in ExperimentRows
  BY ElementOfSeq DEF Inv, TypeOK
<1>2. exps' = exps => exps'[e].runs = exps[e].runs
  OBVIOUS
<1>3. ASSUME NEW h \in Nat, exps' = Append(exps, Planned(h))
      PROVE  exps'[e].runs = exps[e].runs
  BY <1>1, <1>3, ExperimentPlanned
<1>4. ASSUME NEW d, NEW state, exps' = [exps EXCEPT ![d].state = state]
      PROVE  exps'[e].runs = exps[e].runs
  BY <1>1, <1>4 DEF ExperimentRows
<1>5. CASE ResumeHypothesis \/ PlanExperiment
  <2>1. ctl.cur.hyp \in Nat
    BY DEF Inv, TypeOK, Ctls, Rows
  <2> QED
    BY <1>2, <1>3, <1>5, <2>1 DEF ResumeHypothesis, PlanExperiment
<1>6. CASE Authorize \/ RefuseExecution \/ RecordOutcome
  BY <1>2, <1>4, <1>6 DEF Authorize, RefuseExecution, RecordOutcome, SetExperiment
<1>7. CASE Dispatch
  BY <1>1, <1>7 DEF Dispatch, ExperimentRows
<1>8. CASE Assess
  BY <1>1, <1>8 DEF Assess, ExperimentRows
<1>9. CASE \/ Step \/ AdoptHypothesis \/ MarkRunning \/ Reload \/ ReloadSelected \/ Route
           \/ SelectStops \/ SelectOpportunity \/ ReserveCall \/ ModelBudgetDenied \/ CallModel
           \/ AdmitHypothesis \/ ExceedCeiling \/ RequestAuthorization \/ ExecuteExisting
           \/ DenyDispatch \/ CheckpointResult \/ CheckpointTransition \/ CheckpointAssessment
           \/ FinishCycle \/ CompleteCycle \/ CompleteCycleConflicts \/ OperatorReads
           \/ OperatorWrites \/ TimePasses \/ Crash
  <2>1. exps' = exps
    BY <1>9 DEF Step, AdoptHypothesis, MarkRunning, Reload, ReloadSelected, Route,
       SelectStops, SelectOpportunity, ReserveCall, ModelBudgetDenied, CallModel,
       AdmitHypothesis, ExceedCeiling, RequestAuthorization, ExecuteExisting, DenyDispatch,
       CheckpointResult, CheckpointTransition, CheckpointAssessment, FinishCycle,
       CompleteCycle, CompleteCycleConflicts, OperatorReads, OperatorWrites, TimePasses, Crash
  <2> QED
    BY <1>2, <2>1
<1>10. CASE UNCHANGED vars
  BY <1>2, <1>10 DEF vars
<1> QED
  BY <1>5, <1>6, <1>7, <1>8, <1>9, <1>10 DEF Next, ControllerStep

(***************************************************************************)
(* "Do not auto-retry UNKNOWN_OUTCOME": an experiment reaches a worker     *)
(* only while no other one is in doubt, whatever crashed in between and    *)
(* whatever the operator wrote back.                                       *)
(***************************************************************************)
THEOREM InDoubtTheorem == Spec => NoWorkWhileInDoubt
<1> DEFINE Quiet == \A e \in DOMAIN exps :
                       exps'[e].runs > exps[e].runs => \A d \in DOMAIN exps \ {e} : ~InDoubt(d)
<1>1. Inv /\ [Next]_vars => Quiet
  <2> SUFFICES ASSUME Inv, [Next]_vars, NEW e \in DOMAIN exps,
                      exps'[e].runs > exps[e].runs
               PROVE  \A d \in DOMAIN exps \ {e} : ~InDoubt(d)
    OBVIOUS
  <2>1. exps[e] \in ExperimentRows /\ exps[e].runs \in Nat
    <3>1. exps \in Seq(ExperimentRows)
      BY DEF Inv, TypeOK
    <3>2. exps[e] \in ExperimentRows
      BY <3>1, ElementOfSeq
    <3> QED
      BY <3>2 DEF ExperimentRows
  <2>2. Invoke
    BY <2>1, OnlyInvokeRuns
  <2>3. e = ctl.exp
    <3>1. e # ctl.exp => exps'[e] = exps[e]
      BY <2>2 DEF Invoke, Inv, TypeOK
    <3> QED
      BY <2>1, <3>1
  <2> QED
    BY <2>2, <2>3 DEF Invoke, Inv, NoOtherInDoubt
<1>2. Inv /\ [Next]_vars => [Quiet]_vars
  BY <1>1
<1> QED
  BY <1>2, InvariantHolds, PTL DEF Spec, NoWorkWhileInDoubt
=============================================================================
