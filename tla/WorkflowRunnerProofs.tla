------------------------ MODULE WorkflowRunnerProofs ------------------------
(***************************************************************************)
(* What holds of executions that follow each other on one store, resumed or *)
(* not, through crashes, aborts and edited workflows, for any number of     *)
(* them.                                                                    *)
(***************************************************************************)
EXTENDS WorkflowRunner, WorkflowEngineProofs

(***************************************************************************)
(* Type correctness: what a row holds is what an execution may start from.  *)
(* The workflow in execution has always been validated, also when a row of  *)
(* another one is resumed with it, and what is launched are steps of it.    *)
(***************************************************************************)
Valid == {w \in Workflows : validate(w)}

RunnerInv == RunnerTypeOK /\ PermitInv /\ BatchKept /\ wf \in Valid

LEMMA FinalCheckpointType ==
  ASSUME TypeOK, ReturnedOk PROVE final_checkpoint \in Checkpoint
  BY DEF TypeOK, ReturnedOk, final_checkpoint, Checkpoint

(* What execute is started from: that much a row and a fresh start share.   *)
Start ==
  [step_states : [StepId -> StepState], attempts : [StepId -> Nat],
   output : [Step -> Output], variables : Values,
   completed_agents : 0 .. MaxCount, failed_agents : 0 .. MaxCount]

StartOf(from) ==
  [step_states |-> from.step_states, attempts |-> from.attempts, output |-> from.output,
   variables |-> from.variables, completed_agents |-> from.completed_agents,
   failed_agents |-> from.failed_agents]

LEMMA RowIsStart == \A cp \in Checkpoint : StartOf(cp) \in Start
  BY DEF Checkpoint, Start, StartOf

LEMMA FreshIsStart == \A w : StartOf(Fresh(w)) \in Start
<1> TAKE w
<1>1. FreshStates(w) \in [StepId -> StepState]
  BY DEF FreshStates, StepState
<1>2. 0 \in 0 .. MaxCount
  BY EngineAssumption
<1> QED
  BY <1>1, <1>2, OutputType DEF Fresh, StartOf, Start

LEMMA BeginType ==
  ASSUME NEW w \in Workflows, NEW from, StartOf(from) \in Start, RunnerInv, Begin(w, from)
  PROVE  /\ TypeInv' /\ BatchKept' /\ wf' \in Valid
         /\ call' \in Call /\ runs' <= MaxRuns /\ store' = store
<1> USE EngineAssumption, RunnerAssumption
<1>1. Unset \in Values
  BY OutputType
<1>2. shared' \in Values
  BY <1>1 DEF Begin, RunnerInv, RunnerTypeOK, TypeOK
<1>3. runs' \in Nat /\ runs' <= MaxRuns
  BY DEF Begin, RunnerInv, RunnerTypeOK, TypeOK
<1>4. wf' \in Workflow /\ wf' \in Valid
  BY DEF Begin, Valid
<1>5. /\ phase' \in Phase /\ result' \in Result
      /\ agent' \in [Step -> AgentStatus]
      /\ prompt' \in [Step -> Values]
      /\ launches' \in [Step -> 0 .. MaxCount]
  BY <1>1 DEF Begin, Phase, Result, AgentStatus
<1>6. /\ step_states' \in [StepId -> StepState] /\ attempts' \in [StepId -> Nat]
      /\ output' \in [Step -> Output] /\ variables' \in Values
      /\ completed_agents' \in 0 .. MaxCount /\ failed_agents' \in 0 .. MaxCount
  BY DEF Begin, StartOf, Start
<1>7. BatchKept'
  BY DEF Begin, BatchKept, BatchSteps, Launching
<1> QED
  BY <1>2, <1>3, <1>4, <1>5, <1>6, <1>7 DEF Begin, TypeInv, TypeOK, PermitInv, Call

LEMMA BatchKeptInit == Init => BatchKept
  BY DEF Init, BatchKept, BatchSteps, Launching

LEMMA BatchKeptUnchanged == BatchKept /\ UNCHANGED vars => BatchKept'
  BY DEF vars, stateVars, loopVars, BatchKept, BatchSteps, Launching, DependenciesMet,
     NoFallbacks, FallbackTarget

LEMMA RunnerTypeInit == RunnerInit => RunnerInv
<1> SUFFICES ASSUME RunnerInit PROVE RunnerInv
  OBVIOUS
<1>1. TypeInv /\ BatchKept
  BY TypeInit, BatchKeptInit DEF RunnerInit
<1>2. wf \in Valid /\ runs = 1
  BY DEF RunnerInit, Init, Valid
<1> QED
  BY <1>1, <1>2, RunnerAssumption
  DEF RunnerInit, RunnerInv, RunnerTypeOK, TypeInv, Call, Option

LEMMA RunnerTypeNext == RunnerInv /\ [RunnerNext]_allVars => RunnerInv'
<1> SUFFICES ASSUME RunnerInv, [RunnerNext]_allVars PROVE RunnerInv'
  OBVIOUS
<1>t. TypeInv /\ TypeOK /\ BatchKept /\ wf \in Valid
  BY DEF RunnerInv, RunnerTypeOK, TypeInv
<1>1. CASE Execute
  <2>1. TypeInv' /\ BatchKept'
    BY <1>1, <1>t, TypeNext, BatchKeptNext DEF Execute, Next
  <2>2. UNCHANGED <<call, store, origin, runs, wf>>
    <3>1. runs' = runs
      BY <1>1 DEF Execute, ExecuteNext, EngineStep, ScanReady, ScanFinish, ScanStuck, Acquire,
         Spawn, SpawnError, AgentExit, Collect, CollectSuccess, CollectRetry, CollectSkip,
         CollectAbort, CollectFallback, CollectFail, Collected
    <3> QED
      BY <1>1, <3>1, WorkflowStays DEF Execute, runnerVars
  <2> QED
    BY <1>t, <2>1, <2>2 DEF RunnerInv, RunnerTypeOK, TypeInv, Option
<1>2. ASSUME UNCHANGED vars, call' \in Call,
             store' = store \/ (ReturnedOk /\ store' = store \cup {final_checkpoint}),
             UNCHANGED origin
      PROVE  RunnerInv'
  <2>1. TypeInv' /\ BatchKept' /\ wf' = wf /\ runs' = runs
    BY <1>2, <1>t, TypeNext, BatchKeptUnchanged DEF vars
  <2>2. \A cp \in store' : cp \in Checkpoint
    BY <1>2, <1>t, FinalCheckpointType DEF RunnerInv, RunnerTypeOK
  <2>3. origin' \in Option(store')
    BY <1>2 DEF RunnerInv, RunnerTypeOK, Option
  <2> QED
    BY <1>2, <1>t, <2>1, <2>2, <2>3 DEF RunnerInv, RunnerTypeOK, TypeInv
<1>3. CASE SaveCheckpoint \/ SaveFails \/ ReturnErr \/ Crash \/ Idle \/ UNCHANGED allVars
  <2>1. call' \in Call
    BY <1>3 DEF SaveCheckpoint, SaveFails, ReturnErr, Crash, Idle, allVars, runnerVars, Call,
       RunnerInv, RunnerTypeOK
  <2>2. CASE SaveCheckpoint
    BY <2>1, <2>2, <1>2 DEF SaveCheckpoint
  <2>3. CASE SaveFails \/ ReturnErr \/ Crash
    BY <2>1, <2>3, <1>2 DEF SaveFails, ReturnErr, Crash
  <2>4. CASE Idle \/ UNCHANGED allVars
    BY <2>1, <2>4, <1>2 DEF Idle, allVars, runnerVars
  <2> QED
    BY <1>3, <2>2, <2>3, <2>4
<1>4. ASSUME NEW w \in Workflows, Run(w) PROVE RunnerInv'
  <2>1. Begin(w, Fresh(w)) /\ origin' = {}
    BY <1>4 DEF Run
  <2>2. /\ TypeInv' /\ BatchKept' /\ wf' \in Valid
        /\ call' \in Call /\ runs' <= MaxRuns /\ store' = store
    BY <2>1, FreshIsStart, BeginType
  <2> QED
    BY <2>1, <2>2 DEF RunnerInv, RunnerTypeOK, TypeInv, Option
<1>5. ASSUME NEW w \in Workflows, NEW cp \in store, Resume(w, cp) PROVE RunnerInv'
  <2>1. Begin(w, cp) /\ origin' = {cp} /\ StartOf(cp) \in Start
    BY <1>5, RowIsStart DEF Resume, RunnerInv, RunnerTypeOK
  <2>2. /\ TypeInv' /\ BatchKept' /\ wf' \in Valid
        /\ call' \in Call /\ runs' <= MaxRuns /\ store' = store
    BY <2>1, BeginType
  <2> QED
    BY <2>1, <2>2 DEF RunnerInv, RunnerTypeOK, TypeInv, Option
<1> QED
  BY <1>1, <1>3, <1>4, <1>5 DEF RunnerNext

(* Every variable keeps its type through any number of executions: what the *)
(* store holds is always something that an execution can start from.        *)
THEOREM RunnerTypeCorrect == RunnerSpec => []RunnerTypeOK
<1>1. RunnerInv => RunnerTypeOK
  BY DEF RunnerInv
<1> QED
  BY <1>1, RunnerTypeInit, RunnerTypeNext, PTL DEF RunnerSpec

(***************************************************************************)
(* Work that was resumed from is out of reach of the execution: it is       *)
(* neither ready nor in a batch, and only a fallback could change that.     *)
(***************************************************************************)
OutOfReach(s) ==
  step_states[s] = "Completed" /\ s \notin ready /\ s \notin handles /\ launches[s] = 0

KeptInv ==
  \A cp \in origin : \A s \in Step :
    cp.step_states[s] = "Completed" /\ s \notin FallbackTarget(wf) => OutOfReach(s)

LEMMA StaysOutOfReach ==
  ASSUME TypeOK, BatchSteps, ExecuteNext, NEW s \in Step, s \notin FallbackTarget(wf),
         OutOfReach(s)
  PROVE  OutOfReach(s)' /\ wf' = wf
<1> USE StepIsId DEF OutOfReach
<1>1. CASE ScanReady
  BY <1>1 DEF ScanReady, find_ready_steps, stateVars, launchVars
<1>2. CASE ScanFinish \/ ScanStuck \/ Acquire
  BY <1>2 DEF ScanFinish, ScanStuck, Acquire, stateVars, launchVars
<1>3. ASSUME NEW t \in Step, Spawn(t) \/ SpawnError(t) PROVE OutOfReach(s)' /\ wf' = wf
  <2>1. t # s
    BY <1>3 DEF Spawn, SpawnError, IsFirst
  <2> QED
    BY <1>3, <2>1 DEF Spawn, SpawnError, TypeOK
<1>4. ASSUME NEW t \in Step, AgentExit(t) PROVE OutOfReach(s)' /\ wf' = wf
  BY <1>4 DEF AgentExit, stateVars, launchVars
<1>5. ASSUME NEW t \in Step, Collect(t) PROVE OutOfReach(s)' /\ wf' = wf
  <2>1. t # s /\ t \in Steps(wf)
    BY <1>5 DEF Collect, CollectSuccess, CollectRetry, CollectSkip, CollectAbort, CollectFallback,
       CollectFail, CollectOf, IsFirst, BatchSteps
  <2>2. ready' = ready /\ launches' = launches /\ handles' \subseteq handles /\ wf' = wf
    BY <1>5 DEF Collect, CollectSuccess, CollectRetry, CollectSkip, CollectAbort, CollectFallback,
       CollectFail, Collected, launchVars
  <2>3. step_states'[s] = step_states[s]
    <3>1. CASE CollectFallback(t)
      <4>1. OnFailure(wf, t).step_id # s
        BY <2>1, <3>1, TargetIsFallback DEF CollectFallback, TypeOK
      <4> QED
        BY <2>1, <3>1, <4>1 DEF CollectFallback, TypeOK
    <3>2. CASE ~ CollectFallback(t)
      BY <1>5, <2>1, <3>2 DEF Collect, CollectSuccess, CollectRetry, CollectSkip, CollectAbort,
         CollectFail, Failing, TypeOK
    <3> QED
      BY <3>1, <3>2
  <2> QED
    BY <2>2, <2>3
<1> QED
  BY <1>1, <1>2, <1>3, <1>4, <1>5 DEF ExecuteNext, EngineStep

LEMMA KeptNext == RunnerInv /\ KeptInv /\ [RunnerNext]_allVars => KeptInv'
<1> SUFFICES ASSUME RunnerInv, KeptInv, [RunnerNext]_allVars PROVE KeptInv'
  OBVIOUS
<1>t. TypeOK /\ BatchSteps
  BY DEF RunnerInv, RunnerTypeOK, BatchKept
<1>1. CASE Execute
  <2> SUFFICES ASSUME NEW cp \in origin', NEW s \in Step, cp.step_states[s] = "Completed",
                      s \notin FallbackTarget(wf)'
               PROVE  OutOfReach(s)'
    BY DEF KeptInv
  <2>1. ExecuteNext /\ cp \in origin
    BY <1>1 DEF Execute, runnerVars
  <2>2. wf' = wf
    BY <2>1, WorkflowStays
  <2>3. s \notin FallbackTarget(wf)
    BY <2>2 DEF FallbackTarget
  <2>4. OutOfReach(s)
    BY <2>1, <2>3 DEF KeptInv
  <2> QED
    BY <1>t, <2>1, <2>3, <2>4, StaysOutOfReach
<1>2. CASE SaveCheckpoint \/ SaveFails \/ ReturnErr \/ Crash \/ Idle \/ UNCHANGED allVars
  <2>1. UNCHANGED <<wf, step_states, ready, handles, launches, origin>>
    BY <1>2 DEF SaveCheckpoint, SaveFails, ReturnErr, Crash, Idle, allVars, runnerVars, vars,
       stateVars, launchVars
  <2> QED
    BY <2>1 DEF KeptInv, OutOfReach, FallbackTarget
<1>3. ASSUME NEW w \in Workflows, Run(w) PROVE KeptInv'
  BY <1>3 DEF Run, KeptInv
<1>4. ASSUME NEW w \in Workflows, NEW cp \in store, Resume(w, cp) PROVE KeptInv'
  <2>1. /\ origin' = {cp} /\ step_states' = cp.step_states
        /\ ready' = {} /\ handles' = {} /\ launches' = [s \in Step |-> 0]
    BY <1>4 DEF Resume, Begin
  <2> QED
    BY <2>1 DEF KeptInv, OutOfReach
<1> QED
  BY <1>1, <1>2, <1>3, <1>4 DEF RunnerNext

(* A resumed execution never starts a step again that its checkpoint shows  *)
(* Completed, unless the step is a fallback, whatever workflow it was       *)
(* resumed with and however many executions the row has been through.       *)
THEOREM ResumeAlwaysKeepsWork == RunnerSpec => []ResumeKeepsWork
<1>1. RunnerInit => KeptInv
  BY DEF RunnerInit, KeptInv
<1>2. KeptInv => ResumeKeepsWork
  BY DEF KeptInv, OutOfReach, ResumeKeepsWork
<1> QED
  BY <1>1, <1>2, RunnerTypeInit, RunnerTypeNext, KeptNext, PTL DEF RunnerSpec

(***************************************************************************)
(* What a row claims comes from what execute looked at when it returned: it *)
(* found nothing ready among the steps, and every entry terminal.           *)
(***************************************************************************)
Claim(w, verdict, states) ==
  IF verdict = "Completed"
  THEN /\ \A id \in StepId : states[id] \in {"Absent", "Completed", "Skipped"}
       /\ \A s \in Steps(w) : states[s] = "Absent" => HeldUp(w, states, s)
  ELSE \E id \in StepId : states[id] = "Failed"

ExecutionInv == ReturnedOk => Claim(wf, result, step_states)

RowInv ==
  /\ ExecutionInv
  /\ \A cp \in store : Claim(cp.workflow, cp.workflow_state, cp.step_states)

LEMMA FinishClaims ==
  ASSUME TypeOK, ScanFinish
  PROVE  Claim(wf, result, step_states)'
<1>1. step_states' = step_states /\ result' = final_state /\ AllTerminal /\ wf' = wf
  BY DEF ScanFinish, Return, stateVars
<1>2. CASE \E id \in StepId : step_states[id] = "Failed"
  <2>1. result' = "Failed"
    BY <1>1, <1>2 DEF final_state
  <2> QED
    BY <1>1, <1>2, <2>1 DEF Claim
<1>3. CASE ~ \E id \in StepId : step_states[id] = "Failed"
  <2>1. \A id \in StepId : step_states[id] \in {"Absent", "Completed", "Skipped"}
    BY <1>1, <1>3 DEF AllTerminal, Entries, is_terminal
  <2>2. ASSUME NEW s \in Steps(wf), step_states[s] = "Absent" PROVE HeldUp(wf, step_states, s)
    BY <2>2 DEF ScanFinish, NothingReady, find_ready_steps, DependenciesMet, HeldUp
  <2>3. result' = "Completed"
    BY <1>1, <1>3 DEF final_state
  <2> QED
    BY <1>1, <2>1, <2>2, <2>3 DEF Claim, HeldUp
<1> QED
  BY <1>2, <1>3

LEMMA ExecutionNext == TypeOK /\ ExecutionInv /\ ExecuteNext => ExecutionInv'
<1> SUFFICES ASSUME TypeOK, ExecutionInv, ExecuteNext PROVE ExecutionInv'
  OBVIOUS
<1> USE StepIsId DEF ExecutionInv
<1>1. CASE ScanFinish
  BY <1>1, FinishClaims
<1>2. CASE ScanReady \/ ScanStuck \/ Acquire
  BY <1>2 DEF ScanReady, ScanStuck, NothingReady, Acquire, Return, loopVars, ReturnedOk
<1>3. ASSUME NEW s \in Step, Spawn(s) \/ SpawnError(s) PROVE ExecutionInv'
  BY <1>3 DEF Spawn, SpawnError, Return, ReturnedOk
<1>4. ASSUME NEW s \in Step, AgentExit(s) PROVE ExecutionInv'
  BY <1>4 DEF AgentExit, loopVars, stateVars, ReturnedOk, Claim, HeldUp
<1>5. ASSUME NEW s \in Step, CollectAbort(s) PROVE ExecutionInv'
  <2>1. step_states' = [step_states EXCEPT ![s] = "Failed"] /\ result' = "Aborted"
    BY <1>5 DEF CollectAbort, Failing, Return
  <2>2. step_states'[s] = "Failed" /\ s \in StepId
    BY <2>1 DEF TypeOK
  <2> QED
    BY <2>1, <2>2 DEF Claim
<1>6. ASSUME NEW s \in Step, Collect(s), ~ CollectAbort(s) PROVE ExecutionInv'
  <2>1. ~ ReturnedOk'
    BY <1>6 DEF Collect, CollectSuccess, CollectRetry, CollectSkip, CollectFallback, CollectFail,
       Collected, ReturnedOk
  <2> QED
    BY <2>1
<1> QED
  BY <1>1, <1>2, <1>3, <1>4, <1>5, <1>6 DEF ExecuteNext, EngineStep

LEMMA RowInit == RunnerInit => RowInv
  BY DEF RunnerInit, Init, RowInv, ExecutionInv, ReturnedOk

LEMMA RowNext == RunnerInv /\ RowInv /\ [RunnerNext]_allVars => RowInv'
<1> SUFFICES ASSUME RunnerInv, RowInv, [RunnerNext]_allVars PROVE RowInv'
  OBVIOUS
<1>t. TypeOK
  BY DEF RunnerInv, RunnerTypeOK
<1>1. CASE Execute
  <2>1. ExecutionInv'
    BY <1>1, <1>t, ExecutionNext DEF Execute, RowInv
  <2> QED
    BY <1>1, <2>1 DEF Execute, runnerVars, RowInv
<1>2. ASSUME UNCHANGED vars, store' = store PROVE RowInv'
  BY <1>2 DEF vars, loopVars, stateVars, RowInv, ExecutionInv, ReturnedOk, Claim, HeldUp
<1>3. CASE SaveFails \/ ReturnErr \/ Crash \/ Idle \/ UNCHANGED allVars
  BY <1>2, <1>3 DEF SaveFails, ReturnErr, Crash, Idle, allVars, runnerVars
<1>4. CASE SaveCheckpoint
  <2>1. /\ ReturnedOk /\ UNCHANGED vars
        /\ store' = store \cup {final_checkpoint}
    BY <1>4 DEF SaveCheckpoint
  <2>2. /\ final_checkpoint.step_states = step_states
        /\ final_checkpoint.workflow_state = result
        /\ final_checkpoint.workflow = wf
    BY DEF final_checkpoint
  <2>3. ExecutionInv'
    BY <2>1 DEF vars, loopVars, stateVars, RowInv, ExecutionInv, ReturnedOk, Claim, HeldUp
  <2>4. Claim(wf, result, step_states)
    BY <2>1 DEF RowInv, ExecutionInv
  <2> QED
    BY <2>1, <2>2, <2>3, <2>4 DEF RowInv
<1>5. ASSUME NEW w \in Workflows, Run(w) PROVE RowInv'
  BY <1>5 DEF Run, Begin, RowInv, ExecutionInv, ReturnedOk
<1>6. ASSUME NEW w \in Workflows, NEW cp \in store, Resume(w, cp) PROVE RowInv'
  BY <1>6 DEF Resume, Begin, RowInv, ExecutionInv, ReturnedOk
<1> QED
  BY <1>1, <1>3, <1>4, <1>5, <1>6 DEF RunnerNext

(* Through any number of executions and resumes, with workflows that lose   *)
(* steps and gain others in between: a Completed row holds no step that     *)
(* failed or waits, and lacks the entry of a step only if a dependency of   *)
(* that step is not satisfied; Failed and Aborted rows hold a failed one.   *)
THEOREM StoredVerdictsAlwaysHold == RunnerSpec => []StoredVerdictsHold
<1>1. RowInv => StoredVerdictsHold
  BY DEF RowInv, Claim, StoredVerdictsHold
<1> QED
  BY <1>1, RunnerTypeInit, RunnerTypeNext, RowInit, RowNext, PTL DEF RunnerSpec

(***************************************************************************)
(* What execute guarantees still holds when it starts from a row.  For      *)
(* these proofs a step of the runner is one of five things.                 *)
(***************************************************************************)
LEMMA RunnerCases ==
  ASSUME [RunnerNext]_allVars
  PROVE  \/ ExecuteNext /\ store' = store
         \/ UNCHANGED vars /\ store' = store
         \/ UNCHANGED vars /\ ReturnedOk /\ store' = store \cup {final_checkpoint}
         \/ \E w \in Workflows : Run(w)
         \/ \E w \in Workflows, cp \in store : Resume(w, cp)
  BY DEF RunnerNext, Execute, SaveCheckpoint, SaveFails, ReturnErr, Crash, Idle, allVars, runnerVars

(* Deadlock.  Begin validates the workflow again, whatever the row holds.   *)
LEMMA RunnerDeadlockNext ==
  RunnerInv /\ DeadlockInv /\ [RunnerNext]_allVars => DeadlockInv'
<1> SUFFICES ASSUME RunnerInv, DeadlockInv, [RunnerNext]_allVars PROVE DeadlockInv'
  OBVIOUS
<1>1. CASE ExecuteNext
  BY <1>1, DeadlockNext DEF RunnerInv, RunnerTypeOK
<1>2. CASE UNCHANGED vars
  BY <1>2 DEF vars, stateVars, loopVars, DeadlockInv, DeadlockVerdictJustified, Unreachable
<1>3. ASSUME NEW w \in Workflows, NEW from, Begin(w, from) PROVE DeadlockInv'
  <2>1. wf' = w /\ validate(w) /\ result' = "none"
    BY <1>3 DEF Begin
  <2>2. ~ Cyclic(wf') /\ KnownDependencies(wf')
    BY <2>1, ValidIsAcyclic
  <2> QED
    BY <2>1, <2>2 DEF DeadlockInv, DeadlockVerdictJustified
<1> QED
  BY <1>1, <1>2, <1>3, RunnerCases DEF Run, Resume

(* "Deadlocked" is the truth in resumed executions too, whatever workflow   *)
(* the row came from and whatever workflow it is resumed with.              *)
THEOREM ResumedDeadlockJustified == RunnerSpec => []DeadlockVerdictJustified
<1>1. RunnerInit => DeadlockInv
  BY ValidIsAcyclic DEF RunnerInit, Init, DeadlockInv, DeadlockVerdictJustified
<1>2. DeadlockInv => DeadlockVerdictJustified
  BY DEF DeadlockInv
<1> QED
  BY <1>1, <1>2, RunnerTypeInit, RunnerTypeNext, RunnerDeadlockNext, PTL DEF RunnerSpec

(***************************************************************************)
(* The counters, when no workflow that is ever used has a fallback: one     *)
(* that resets a counted step would leave a row that counts it twice.       *)
(***************************************************************************)
NobodyFallsBack == \A w \in Workflows : FallbackTarget(w) = {}

Counted(cp) ==
  /\ cp.completed_agents = HowMany(cp.step_states, {"Completed"})
  /\ cp.failed_agents = HowMany(cp.step_states, {"Failed", "Skipped"})

CountInv ==
  /\ MetricsInv
  /\ \A cp \in store : Counted(cp) /\ WellFilled(cp.step_states)

LEMMA MetricsInvUnchanged == MetricsInv /\ UNCHANGED vars => MetricsInv'
  BY DEF vars, stateVars, loopVars, metricVars, MetricsInv, MetricsMatchStates, WellFilled,
     BatchKept, BatchSteps, Launching, DependenciesMet, NoFallbacks, FallbackTarget, InState

LEMMA CountNext ==
  ASSUME NobodyFallsBack, RunnerInv, CountInv, [RunnerNext]_allVars
  PROVE  CountInv'
<1>1. CASE ExecuteNext /\ store' = store
  BY <1>1, MetricsNext DEF RunnerInv, RunnerTypeOK, CountInv
<1>2. CASE UNCHANGED vars /\ store' = store
  BY <1>2, MetricsInvUnchanged DEF vars, CountInv
<1>3. CASE UNCHANGED vars /\ ReturnedOk /\ store' = store \cup {final_checkpoint}
  <2>1. Counted(final_checkpoint)
    BY DEF NobodyFallsBack, RunnerInv, Valid, CountInv, MetricsInv, MetricsMatchStates, Counted,
       HowMany, InState, final_checkpoint
  <2>2. WellFilled(final_checkpoint.step_states)
    BY DEF CountInv, MetricsInv, final_checkpoint
  <2> QED
    BY <1>3, <2>1, <2>2, MetricsInvUnchanged DEF vars, CountInv
<1>4. ASSUME NEW w \in Workflows, NEW from, Begin(w, from), WellFilled(from.step_states),
             Counted(from)
      PROVE  CountInv'
  <2>1. MetricsMatchStates'
    BY <1>4 DEF Begin, Counted, MetricsMatchStates, InState, HowMany
  <2>2. BatchKept' /\ store' = store
    BY <1>4 DEF Begin, BatchKept, BatchSteps, Launching
  <2>3. WellFilled(step_states)'
    BY <1>4 DEF Begin, WellFilled
  <2> QED
    BY <2>1, <2>2, <2>3 DEF CountInv, MetricsInv
<1>5. ASSUME NEW w \in Workflows, Run(w) PROVE CountInv'
  <2>1. Counted(Fresh(w))
    <3>1. /\ {id \in StepId : FreshStates(w)[id] \in {"Completed"}} = {}
          /\ {id \in StepId : FreshStates(w)[id] \in {"Failed", "Skipped"}} = {}
      BY DEF FreshStates
    <3> QED
      BY <3>1, FS_EmptySet DEF Counted, Fresh, HowMany
  <2>2. WellFilled(Fresh(w).step_states)
    BY FreshIsWellFilled DEF Fresh
  <2> QED
    BY <1>4, <1>5, <2>1, <2>2 DEF Run
<1>6. ASSUME NEW w \in Workflows, NEW cp \in store, Resume(w, cp) PROVE CountInv'
  BY <1>4, <1>6 DEF CountInv, Resume
<1> QED
  BY <1>1, <1>2, <1>3, <1>5, <1>6, RunnerCases

(* The metrics go on agreeing with the states of the steps through rows and *)
(* resumes, as long as no workflow in use has a fallback.                   *)
THEOREM ResumedMetricsMatch ==
  ASSUME NobodyFallsBack
  PROVE  RunnerSpec => []MetricsMatchStates
<1>1. RunnerInit => CountInv
  <2> SUFFICES ASSUME RunnerInit PROVE CountInv
    OBVIOUS
  <2>1. InState({"Completed"}) = {} /\ InState({"Failed", "Skipped"}) = {}
    BY DEF RunnerInit, Init, FreshStates, InState
  <2> QED
    BY <2>1, FreshIsWellFilled, FS_EmptySet
    DEF RunnerInit, Init, CountInv, MetricsInv, BatchKept, BatchSteps, Launching,
        MetricsMatchStates
<1>2. RunnerInv /\ CountInv /\ [RunnerNext]_allVars => CountInv'
  BY CountNext
<1>3. CountInv => MetricsMatchStates
  BY DEF CountInv, MetricsInv
<1> QED
  BY <1>1, <1>2, <1>3, RunnerTypeInit, RunnerTypeNext, PTL DEF RunnerSpec

(***************************************************************************)
(* Outputs.  The variables of an execution, and those of a row, hold what   *)
(* each Completed step has completed with, if no other step of any workflow *)
(* writes the same variable.  The shared context does so only for what was  *)
(* launched in this execution: the rest may come from another one.          *)
(***************************************************************************)
Shown(states, values, outs) ==
  \A d \in Step, v \in Var : SoleWriter(d, v) /\ states[d] = "Completed" =>
    values[v] = outs[d] /\ outs[d] # NoOutput

PassedInv ==
  /\ Shown(step_states, variables, output)
  /\ \A d \in Step, v \in Var :
       SoleWriter(d, v) /\ step_states[d] = "Completed" /\ launches[d] > 0 => Held(d, v)
  /\ \A cp \in store : Shown(cp.step_states, cp.variables, cp.output)

LEMMA PassedNext == RunnerInv /\ PassedInv /\ [RunnerNext]_allVars => PassedInv'
<1> SUFFICES ASSUME RunnerInv, PassedInv, [RunnerNext]_allVars PROVE PassedInv'
  OBVIOUS
<1>t. TypeOK /\ BatchSteps /\ wf \in Workflows
  BY DEF RunnerInv, RunnerTypeOK, BatchKept, Valid
<1>1. CASE ExecuteNext /\ store' = store
  <2>1. ASSUME NEW d \in Step, NEW v \in Var, SoleWriter(d, v), step_states'[d] = "Completed"
        PROVE  /\ variables'[v] = output'[d] /\ output'[d] # NoOutput
               /\ launches'[d] > 0 => Held(d, v)'
    <3>1. \A t \in Steps(wf) : v \in wf.output_var[t] <=> t = d
      BY <1>t, <2>1 DEF SoleWriter
    <3>2. \/ Held(d, v)' /\ variables'[v] = output'[d]
          \/ /\ step_states[d] = "Completed" /\ launches'[d] = launches[d]
             /\ output'[d] = output[d]
             /\ shared'[v] = shared[v] /\ variables'[v] = variables[v]
      BY <1>t, <1>1, <2>1, <3>1, OutputKept
    <3>3. step_states[d] = "Completed" =>
            /\ variables[v] = output[d] /\ output[d] # NoOutput
            /\ launches[d] > 0 => Held(d, v)
      BY <2>1 DEF PassedInv, Shown
    <3> QED
      BY <3>2, <3>3 DEF Held
  <2> QED
    BY <1>1, <2>1 DEF PassedInv, Shown
<1>2. CASE UNCHANGED vars /\ (store' = store \/ store' = store \cup {final_checkpoint})
  BY <1>2 DEF vars, stateVars, dataVars, launchVars, PassedInv, Shown, Held, final_checkpoint
<1>3. ASSUME NEW w \in Workflows, NEW from, Begin(w, from),
             Shown(from.step_states, from.variables, from.output)
      PROVE  PassedInv'
  <2>1. /\ step_states' = from.step_states /\ variables' = from.variables
        /\ output' = from.output /\ store' = store
        /\ \A d \in Step : launches'[d] = 0
    BY <1>3 DEF Begin
  <2> QED
    BY <1>3, <2>1 DEF PassedInv, Shown
<1>4. ASSUME NEW w \in Workflows, Run(w) PROVE PassedInv'
  <2>1. Shown(Fresh(w).step_states, Fresh(w).variables, Fresh(w).output)
    BY StepIsId DEF Shown, Fresh, FreshStates
  <2> QED
    BY <1>3, <1>4, <2>1 DEF Run
<1>5. ASSUME NEW w \in Workflows, NEW cp \in store, Resume(w, cp) PROVE PassedInv'
  BY <1>3, <1>5 DEF PassedInv, Resume
<1> QED
  BY <1>1, <1>2, <1>4, <1>5, RunnerCases

(* Through rows, resumes and edits an agent is sent the very output that    *)
(* each step it depends on for its success has completed with, provided no  *)
(* other step of any workflow in use writes the variable, and the step was  *)
(* launched in this execution or the shared context holds nothing for it.   *)
THEOREM ResumedOutputSeen == RunnerSpec => ResumeSeesOutput
<1>1. RunnerInit => PassedInv
  BY StepIsId DEF RunnerInit, Init, FreshStates, PassedInv, Shown
<1>2. RunnerInv /\ PassedInv /\ [RunnerNext]_allVars =>
        [\A s \in handles' \ handles :
           \A d \in wf.depends_on[s] : d.condition = "Success" =>
             \A v \in wf.output_var[d.step_id] :
               /\ SoleWriter(d.step_id, v)
               /\ launches[d.step_id] > 0 \/ shared[v] = NoOutput
               => Sees(s, d.step_id, v)]_allVars
  <2> SUFFICES ASSUME RunnerInv, PassedInv, RunnerNext, NEW s \in handles' \ handles,
                      NEW d \in wf.depends_on[s], d.condition = "Success",
                      NEW v \in wf.output_var[d.step_id], SoleWriter(d.step_id, v),
                      launches[d.step_id] > 0 \/ shared[v] = NoOutput
               PROVE  Sees(s, d.step_id, v)
    OBVIOUS
  <2>t. TypeOK /\ BatchKept /\ wf \in Valid
    BY DEF RunnerInv, RunnerTypeOK
  <2>1. Spawn(s)
    <3>1. ~ (\E w \in Workflows : Run(w)) /\ ~ (\E w \in Workflows, cp \in store : Resume(w, cp))
      BY DEF Run, Resume, Begin
    <3>2. [Next]_vars
      BY <3>1, RunnerCases DEF Next
    <3> QED
      BY <3>2, NewHandle
  <2>2. /\ s \in Step /\ s \in Steps(wf)
        /\ DependenciesMet(wf, step_states, s)
    BY <2>t, <2>1 DEF Spawn, IsFirst, BatchKept, BatchSteps, Launching, TypeOK
  <2>3. step_states[d.step_id] = "Completed"
    BY <2>2 DEF DependenciesMet, Satisfied
  <2>4. d.step_id \in Step
    BY <2>2, <2>t, DependencyType DEF TypeOK
  <2>5. v \in Var
    BY <2>t, <2>4, OutputVarType DEF TypeOK
  <2>6. /\ variables[v] = output[d.step_id] /\ output[d.step_id] # NoOutput
        /\ launches[d.step_id] > 0 => Held(d.step_id, v)
    BY <2>3, <2>4, <2>5 DEF PassedInv, Shown
  <2>7. prompt'[s][v] = IF shared[v] # NoOutput THEN shared[v] ELSE variables[v]
    BY <2>1, <2>2, <2>t, <2>5, PromptOfSpawn
  <2> QED
    BY <2>6, <2>7 DEF Sees, Held
<1> QED
  BY <1>1, <1>2, RunnerTypeInit, RunnerTypeNext, PassedNext, PTL DEF RunnerSpec, ResumeSeesOutput

==============================================================================
