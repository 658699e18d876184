------------------------ MODULE WorkflowEngineProofs ------------------------
(***************************************************************************)
(* What holds of execute for every number of steps, every set of workflows  *)
(* and every number of permits.                                             *)
(***************************************************************************)
EXTENDS WorkflowEngine, DataInduction

(***************************************************************************)
(* Type correctness.  That the number of free permits stays in range needs  *)
(* to know where the loop holds one.                                        *)
(***************************************************************************)
PermitInv ==
  permits = IF phase = "spawn" THEN MaxConcurrency - 1 ELSE MaxConcurrency

TypeInv == TypeOK /\ PermitInv

(* normalize leaves an action that names a step id if it is a fallback: a   *)
(* wrapped fallback has the id it wraps.                                    *)
LEMMA NormalizeTarget ==
  ASSUME NEW f \in FailureAction, normalize(f).kind = "fallback"
  PROVE  normalize(f).step_id \in StepId
<1>1. CASE f.kind # "wrapped"
  <2>1. f.kind = "fallback"
    BY <1>1 DEF normalize
  <2>2. f \in [kind : {"fallback"}, step_id : StepId]
    BY <2>1 DEF FailureAction, NoAction, Skip, Abort
  <2> QED
    BY <1>1, <2>2 DEF normalize
<1>2. CASE f.kind = "wrapped"
  <2>1. f \in [kind : {"wrapped"}, retry : Option(Nat), fallback : Option(StepId)]
    BY <1>2 DEF FailureAction, NoAction, Skip, Abort
  <2>2. f.retry = {} /\ f.fallback # {}
    BY <1>2 DEF normalize, Retry, Skip
  <2>3. normalize(f).step_id = (CHOOSE id \in f.fallback : TRUE)
    BY <1>2, <2>2 DEF normalize, Fallback
  <2>4. f.fallback \subseteq StepId
    BY <2>1 DEF Option
  <2>5. \E id \in f.fallback : TRUE
    BY <2>2
  <2>6. (CHOOSE id \in f.fallback : TRUE) \in f.fallback
    BY <2>5
  <2> QED
    BY <2>3, <2>4, <2>6
<1> QED
  BY <1>1, <1>2

(* A normalized fallback is determined by the id it names.                  *)
LEMMA NormalizeFallback ==
  ASSUME NEW f \in FailureAction, normalize(f).kind = "fallback"
  PROVE  normalize(f) = Fallback(normalize(f).step_id)
<1>1. CASE f.kind # "wrapped"
  <2>1. f.kind = "fallback"
    BY <1>1 DEF normalize
  <2>2. f \in [kind : {"fallback"}, step_id : StepId]
    BY <2>1 DEF FailureAction, NoAction, Skip, Abort
  <2> QED
    BY <1>1, <2>2 DEF normalize, Fallback
<1>2. CASE f.kind = "wrapped"
  <2>1. normalize(f) = Fallback(CHOOSE id \in f.fallback : TRUE)
    BY <1>2 DEF normalize, Retry, Skip
  <2> QED
    BY <2>1 DEF Fallback
<1> QED
  BY <1>1, <1>2

LEMMA FallbackTargetType ==
  ASSUME wf \in Workflow, NEW s \in Step, OnFailure(wf, s).kind = "fallback"
  PROVE  OnFailure(wf, s).step_id \in StepId
<1>1. wf.on_failure[s] \in FailureAction
  BY DEF Workflow
<1> QED
  BY <1>1, NormalizeTarget DEF OnFailure

LEMMA StepIsId == Step \subseteq StepId /\ NoStep \in StepId /\ NoStep \notin Step
  BY WorkflowDefAssumption DEF Step, StepId, NoStep

LEMMA StepsType ==
  ASSUME NEW w \in Workflow PROVE Steps(w) \subseteq Step
<1>1. w.steps \in Seq(Step)
  BY DEF Workflow
<1> QED
  BY <1>1 DEF Steps

LEMMA ReadyType ==
  ASSUME NEW w \in Workflow, NEW states
  PROVE  find_ready_steps(w, states) \subseteq Steps(w) /\ find_ready_steps(w, states) \subseteq Step
  BY StepsType DEF find_ready_steps

LEMMA OutputType ==
  /\ NoOutput \in Output /\ Unset \in Values
  /\ TypeOK => \A s \in Step : result_output(s) \in Output
<1>1. NoOutput \in Output
  BY StepIsId, EngineAssumption DEF NoOutput, Output
<1>2. ASSUME TypeOK, NEW s \in Step PROVE result_output(s) \in Output
  BY <1>2, StepIsId DEF TypeOK, result_output, Output
<1> QED
  BY <1>1, <1>2 DEF Unset, Values

LEMMA StoredType ==
  ASSUME TypeOK, NEW s \in Step, NEW values \in Values PROVE Stored(values, s) \in Values
  BY OutputType DEF Stored, Values

LEMMA TypeInit == Init => TypeInv
<1> SUFFICES ASSUME Init PROVE TypeInv
  OBVIOUS
<1> USE EngineAssumption, StepIsId
<1>1. wf \in Workflow
  BY DEF Init
<1>2. step_states \in [StepId -> StepState]
  BY DEF Init, FreshStates, StepState
<1>3. /\ output \in [Step -> Output]
      /\ variables \in Values /\ shared \in Values /\ prompt \in [Step -> Values]
  BY OutputType DEF Init
<1> QED
  BY <1>1, <1>2, <1>3 DEF Init, TypeInv, TypeOK, PermitInv, Phase, Result, AgentStatus

LEMMA BumpType == \A n \in 0 .. MaxCount : Bump(n) \in 0 .. MaxCount
  BY EngineAssumption DEF Bump

LEMMA AttemptsType ==
  ASSUME TypeOK, NEW s \in Step PROVE current_attempts(s) + 1 \in Nat
  BY StepIsId DEF TypeOK, current_attempts

LEMMA TypeNext == TypeInv /\ [Next]_vars => TypeInv'
<1> SUFFICES ASSUME TypeInv, [Next]_vars PROVE TypeInv'
  OBVIOUS
<1> USE EngineAssumption, StepIsId
<1>t. TypeOK /\ PermitInv
  BY DEF TypeInv
<1>1. CASE ScanReady
  <2>1. ready' \in SUBSET Step
    BY <1>t, <1>1, ReadyType DEF ScanReady, TypeOK
  <2> QED
    BY <1>t, <1>1, <2>1 DEF ScanReady, TypeInv, TypeOK, PermitInv, Phase,
       stateVars, dataVars, metricVars, launchVars
<1>2. CASE ScanFinish
  BY <1>t, <1>2 DEF ScanFinish, NothingReady, Return, final_state, TypeInv, TypeOK, PermitInv,
     Phase, Result, stateVars, dataVars, metricVars, launchVars
<1>3. CASE ScanStuck
  BY <1>t, <1>3 DEF ScanStuck, NothingReady, Return, loopVars, TypeInv, TypeOK, PermitInv,
     Phase, Result, stateVars, dataVars, metricVars, launchVars
<1>6. CASE Acquire
  BY <1>t, <1>6 DEF Acquire, TypeInv, TypeOK, PermitInv, Phase, stateVars, dataVars, metricVars
<1>7. ASSUME NEW s \in Step, Spawn(s) PROVE TypeInv'
  <2>1. all_vars \in Values
    BY <1>t DEF TypeOK, all_vars, Values
  <2>2. prompt' \in [Step -> Values]
    BY <1>t, <1>7, <2>1 DEF TypeOK, Spawn
  <2>3. launches' \in [Step -> 0 .. MaxCount]
    BY <1>t, <1>7, BumpType DEF TypeOK, Spawn
  <2>4. /\ step_states' \in [StepId -> StepState]
        /\ agent' \in [Step -> AgentStatus]
    BY <1>t, <1>7 DEF TypeOK, Spawn, StepState, AgentStatus
  <2>5. permits' = MaxConcurrency /\ phase' \in Phase /\ phase' # "spawn"
    BY <1>t, <1>7 DEF TypeOK, PermitInv, Spawn, Phase
  <2> QED
    BY <1>t, <1>7, <2>2, <2>3, <2>4, <2>5
    DEF TypeInv, TypeOK, PermitInv, Spawn, dataVars, metricVars
<1>8. ASSUME NEW s \in Step, SpawnError(s) PROVE TypeInv'
  BY <1>t, <1>8 DEF SpawnError, Return, TypeInv, TypeOK, PermitInv, Phase, Result, StepState,
     dataVars, metricVars
<1>9. ASSUME NEW s \in Step, AgentExit(s) PROVE TypeInv'
  BY <1>t, <1>9 DEF AgentExit, TypeInv, TypeOK, PermitInv, AgentStatus,
     loopVars, stateVars, dataVars, metricVars, launchVars
<1>10. ASSUME NEW s \in Step, Collect(s) PROVE TypeInv'
  <2> USE BumpType, AttemptsType, <1>t
  <2>1. CASE CollectSuccess(s)
    <3>1. variables' \in Values /\ shared' \in Values
      BY <2>1, StoredType DEF CollectSuccess, TypeOK
    <3>2. output' \in [Step -> Output]
      BY <2>1, OutputType DEF CollectSuccess, TypeOK
    <3> QED
      BY <2>1, <3>1, <3>2 DEF CollectSuccess, CollectOf, Collected, TypeInv, TypeOK, PermitInv,
         Phase, StepState, AgentStatus, launchVars
  <2>2. CASE CollectRetry(s)
    BY <2>2 DEF CollectRetry, CollectOf, Collected, TypeInv, TypeOK, PermitInv,
       Phase, StepState, AgentStatus, dataVars, metricVars, launchVars
  <2>3. CASE CollectSkip(s)
    BY <2>3 DEF CollectSkip, CollectOf, Collected, TypeInv, TypeOK, PermitInv,
       Phase, StepState, AgentStatus, dataVars, launchVars
  <2>4. CASE CollectAbort(s)
    BY <2>4 DEF CollectAbort, CollectOf, Failing, Return, TypeInv, TypeOK, PermitInv,
       Phase, Result, StepState, AgentStatus, dataVars, launchVars
  <2>5. CASE CollectFallback(s)
    <3>1. OnFailure(wf, s).step_id \in StepId
      BY <2>5, FallbackTargetType DEF TypeOK, CollectFallback
    <3>2. step_states' \in [StepId -> StepState]
      BY <2>5, <3>1 DEF TypeOK, CollectFallback, StepState
    <3> QED
      BY <2>5, <3>2 DEF CollectFallback, CollectOf, Collected, TypeInv, TypeOK, PermitInv,
         Phase, AgentStatus, dataVars, launchVars
  <2>6. CASE CollectFail(s)
    BY <2>6 DEF CollectFail, CollectOf, Collected, Failing, TypeInv, TypeOK, PermitInv,
       Phase, StepState, AgentStatus, dataVars, launchVars
  <2> QED
    BY <1>10, <2>1, <2>2, <2>3, <2>4, <2>5, <2>6 DEF Collect
<1>11. CASE UNCHANGED vars
  BY <1>t, <1>11 DEF vars, TypeInv, TypeOK, PermitInv, loopVars, stateVars, dataVars, metricVars,
     launchVars
<1> QED
  BY <1>1, <1>2, <1>3, <1>6, <1>7, <1>8, <1>9, <1>10, <1>11
  DEF Next, ExecuteNext, EngineStep, Done

(* Every variable of execute keeps its type; the semaphore never holds more *)
(* permits than it was made with.                                           *)
THEOREM TypeCorrect == Spec => []TypeOK
<1>1. TypeInv => TypeOK
  BY DEF TypeInv
<1> QED
  BY <1>1, TypeInit, TypeNext, PTL DEF Spec

(***************************************************************************)
(* validate.  check_no_cycles visits the steps by recursion on the set of   *)
(* those visited.  A function that satisfies the recursive equation exists, *)
(* it returns a set that is closed, and never a step of a cycle: so Kahn's  *)
(* algorithm accepts the graphs without cycles and no others.               *)
(***************************************************************************)

(* The steps that become free once those of V are visited.                  *)
Front(w, V) == {s \in Steps(w) \ V : DependsOn(w, s) \subseteq V}

VisitEquation(w, k) ==
  k = [V \in SUBSET Steps(w) |-> IF Front(w, V) = {} THEN V ELSE k[V \cup Front(w, V)]]

(* The equation has a solution: V is mapped to the steps that are in every  *)
(* closed set around V.                                                     *)
LEMMA VisitExists == \A w : \E k : VisitEquation(w, k)
<1> TAKE w
<1> DEFINE Closed(V) == {C \in SUBSET Steps(w) : V \subseteq C /\ Front(w, C) = {}}
           k == [V \in SUBSET Steps(w) |-> {s \in Steps(w) : \A C \in Closed(V) : s \in C}]
<1>1. ASSUME NEW V \in SUBSET Steps(w), Front(w, V) = {} PROVE k[V] = V
  <2>1. V \in Closed(V)
    BY <1>1
  <2> QED
    BY <2>1
<1>2. ASSUME NEW V \in SUBSET Steps(w) PROVE k[V] = k[V \cup Front(w, V)]
  <2>1. V \cup Front(w, V) \in SUBSET Steps(w)
    BY DEF Front
  <2>2. Closed(V) = Closed(V \cup Front(w, V))
    BY DEF Front
  <2> QED
    BY <2>1, <2>2
<1> HIDE DEF k
<1>3. k = [V \in SUBSET Steps(w) |-> IF Front(w, V) = {} THEN V ELSE k[V \cup Front(w, V)]]
  <2>1. k = [V \in SUBSET Steps(w) |-> k[V]]
    BY DEF k
  <2> QED
    BY <1>1, <1>2, <2>1
<1> QED
  BY <1>3 DEF VisitEquation

LEMMA VisitIsFunction ==
  \A w : \E k : VisitEquation(w, k) /\ visited_from(w) = k[{}]
<1> TAKE w
<1>1. VisitEquation(w, CHOOSE k : VisitEquation(w, k))
  BY VisitExists
<1>2. visited_from(w) = (CHOOSE k : VisitEquation(w, k))[{}]
  BY DEF visited_from, VisitEquation, Front
<1> QED
  BY <1>1, <1>2

(* What is said of the steps of a workflow holds of a finite set.           *)
LEMMA StepFinite == IsFiniteSet(Step) /\ Cardinality(Step) = NumSteps
  BY WorkflowDefAssumption, FS_Interval DEF Step

(* The visited steps are closed, and have no step of a set in which every   *)
(* step depends on another one.                                             *)
LEMMA VisitedIsClosed ==
  ASSUME NEW w \in Workflow, NEW S \in SUBSET Steps(w), \A s \in S : DependsOn(w, s) \cap S # {}
  PROVE  /\ visited_from(w) \in SUBSET Steps(w)
         /\ Front(w, visited_from(w)) = {}
         /\ visited_from(w) \cap S = {}
<1>1. PICK k : VisitEquation(w, k) /\ visited_from(w) = k[{}]
  BY VisitIsFunction
<1> DEFINE F == {V \in SUBSET Steps(w) : k[V] = k[{}] /\ V \cap S = {}}
<1>2. F \in SUBSET (SUBSET Steps(w)) /\ F # {}
  OBVIOUS
<1>f. IsFiniteSet(Steps(w))
  BY StepsType, StepFinite, FS_Subset
<1>3. PICK M \in F : \A V \in F : M \subseteq V => V = M
  <2> HIDE DEF F
  <2> QED
    BY <1>2, <1>f, MaximalSet
<1>4. Front(w, M) = {}
  <2> SUFFICES ASSUME Front(w, M) # {} PROVE FALSE
    OBVIOUS
  <2>1. k[M \cup Front(w, M)] = k[M]
    BY <1>1 DEF VisitEquation
  <2>2. M \cup Front(w, M) \in F
    BY <2>1 DEF Front
  <2>3. M \cup Front(w, M) = M
    BY <1>3, <2>2
  <2> QED
    BY <2>3 DEF Front
<1>5. k[M] = M
  BY <1>1, <1>4 DEF VisitEquation
<1> QED
  BY <1>1, <1>4, <1>5

LEMMA VisitsAllUnlessCyclic ==
  ASSUME NEW w \in Workflow, KnownDependencies(w) PROVE check_no_cycles(w) <=> ~ Cyclic(w)
<1>1. ASSUME Cyclic(w) PROVE ~ check_no_cycles(w)
  <2>1. PICK S \in SUBSET Steps(w) : S # {} /\ \A s \in S : DependsOn(w, s) \cap S # {}
    BY <1>1 DEF Cyclic
  <2>2. visited_from(w) \cap S = {}
    BY <2>1, VisitedIsClosed
  <2> QED
    BY <2>1, <2>2 DEF check_no_cycles
<1>2. ASSUME ~ check_no_cycles(w) PROVE Cyclic(w)
  <2> DEFINE S == Steps(w) \ visited_from(w)
  <2>1. visited_from(w) \in SUBSET Steps(w) /\ Front(w, visited_from(w)) = {}
    BY VisitedIsClosed, {} \in SUBSET Steps(w)
  <2>2. S # {}
    BY <1>2, <2>1 DEF check_no_cycles
  <2>3. ASSUME NEW s \in S PROVE DependsOn(w, s) \cap S # {}
    <3>1. DependsOn(w, s) \subseteq Steps(w)
      BY DEF KnownDependencies
    <3>2. ~ (DependsOn(w, s) \subseteq visited_from(w))
      BY <2>1 DEF Front
    <3> QED
      BY <3>1, <3>2
  <2> QED
    BY <2>2, <2>3 DEF Cyclic
<1> QED
  BY <1>1, <1>2

(* For every workflow, of any number of steps, validate refuses it exactly  *)
(* when an id is there twice, a dependency or a plain fallback names no     *)
(* step, or its dependencies are cyclic.                                    *)
THEOREM ValidateIsExact == ValidationExact
<1>1. ASSUME NEW w \in Workflows, KnownDependencies(w) PROVE check_no_cycles(w) <=> ~ Cyclic(w)
  BY <1>1, EngineAssumption, VisitsAllUnlessCyclic
<1> QED
  BY <1>1 DEF ValidationExact, validate

(***************************************************************************)
(* The batch invariant.  What is in `ready` still waits and has its         *)
(* dependencies met; what is Running, or has an agent, is in `handles`; and *)
(* a step in `handles` is Running unless an earlier failure of the same     *)
(* batch has named it as fallback.                                          *)
(***************************************************************************)
Launching == phase \in {"launch", "spawn"}

BatchSteps == ready \subseteq Steps(wf) /\ handles \subseteq Steps(wf)

BatchInv ==
  /\ ~ Launching /\ phase # "returned" => ready = {}
  /\ phase = "scan" => handles = {}
  /\ Launching => \A s \in ready :
       /\ step_states[s] \in {"Pending", "Absent"}
       /\ DependenciesMet(wf, step_states, s)
  /\ phase # "returned" => \A s \in Step :
       /\ step_states[s] = "Running" => s \in handles
       /\ agent[s] # "idle" => s \in handles
  /\ \A s \in handles :
       \/ step_states[s] = "Running"
       \/ step_states[s] = "Pending" /\ s \in FallbackTarget(wf)
  /\ Launching => \A s \in handles : step_states[s] = "Running"
  /\ step_states[NoStep] # "Running"

(* The steps that were started, counting those still to be collected.       *)
Started == {s \in Step : step_states[s] \in {"Running", "Completed", "Failed", "Skipped"}}

DependenciesInv ==
  \A s \in Started \cup handles : \A d \in wf.depends_on[s] :
    d.step_id \notin FallbackTarget(wf) =>
      Satisfied(d.condition, step_states[d.step_id])

IInv == TypeOK /\ BatchSteps /\ BatchInv /\ DependenciesInv

LEMMA SatisfiedIsTerminal ==
  \A c, st : Satisfied(c, st) => is_terminal(st)
  BY DEF Satisfied, is_terminal

LEMMA DependencyType ==
  ASSUME wf \in Workflow, NEW s \in Step, NEW d \in wf.depends_on[s]
  PROVE  d.step_id \in Step
<1>1. wf.depends_on[s] \in SUBSET StepDependency
  BY DEF Workflow
<1> QED
  BY <1>1 DEF StepDependency

(* The step a fallback names is one of the fallback targets.               *)
LEMMA TargetIsFallback ==
  ASSUME wf \in Workflow, NEW s \in Steps(wf), OnFailure(wf, s).kind = "fallback"
  PROVE  OnFailure(wf, s).step_id \in FallbackTarget(wf)
<1>0. s \in Step
  BY StepsType
<1>1. OnFailure(wf, s).step_id \in StepId
  BY <1>0, FallbackTargetType
<1>2. OnFailure(wf, s) = Fallback(OnFailure(wf, s).step_id)
  BY <1>0, NormalizeFallback DEF OnFailure, Workflow
<1> QED
  BY <1>1, <1>2 DEF FallbackTarget

(* Only steps of the workflow are launched, and only those are collected.   *)
LEMMA BatchStepsNext ==
  ASSUME TypeOK, BatchSteps, [Next]_vars PROVE BatchSteps'
<1>1. CASE ScanReady
  BY <1>1, ReadyType DEF ScanReady, BatchSteps, TypeOK
<1>2. ASSUME NEW s \in Step, Spawn(s) PROVE BatchSteps'
  BY <1>2 DEF Spawn, IsFirst, BatchSteps
<1>3. CASE ~ ScanReady /\ ~ \E s \in Step : Spawn(s)
  <2>1. wf' = wf /\ ready' \subseteq ready /\ handles' \subseteq handles
    BY <1>3 DEF Next, ExecuteNext, EngineStep, Done, ScanFinish, ScanStuck, Acquire, SpawnError,
       AgentExit, Collect, CollectSuccess, CollectRetry, CollectSkip, CollectAbort,
       CollectFallback, CollectFail, Collected, vars
  <2> QED
    BY <2>1 DEF BatchSteps
<1> QED
  BY <1>1, <1>2, <1>3

LEMMA InvInit == Init => IInv
<1> SUFFICES ASSUME Init PROVE IInv
  OBVIOUS
<1>1. TypeOK
  BY TypeInit DEF TypeInv
<1>2. \A id \in StepId : step_states[id] \in {"Absent", "Pending"}
  BY DEF Init, FreshStates
<1>3. BatchSteps /\ BatchInv
  BY <1>2, StepIsId DEF Init, BatchSteps, BatchInv, Launching
<1>4. DependenciesInv
  BY <1>2, StepIsId DEF Init, DependenciesInv, Started
<1> QED
  BY <1>1, <1>3, <1>4 DEF IInv

(* A step that leaves no more than a step states change to what it was, or  *)
(* that touches none, keeps DependenciesInv if it starts nothing new.       *)
LEMMA DependenciesKept ==
  ASSUME DependenciesInv, wf' = wf, step_states' = step_states,
         handles' \subseteq handles
  PROVE  DependenciesInv'
  BY DEF DependenciesInv, Started, FallbackTarget

(* The only step that changes its state waits or runs, and is not reset     *)
(* unless it is a fallback: whoever was started does not depend on it.      *)
LEMMA DependenciesStable ==
  ASSUME TypeOK, DependenciesInv, wf' = wf,
         NEW s \in Step, ~ is_terminal(step_states[s]),
         \A id \in StepId \ {s} :
            step_states'[id] = step_states[id] \/ id \in FallbackTarget(wf),
         NEW t \in Started \cup handles, NEW d \in wf.depends_on[t],
         d.step_id \notin FallbackTarget(wf)
  PROVE  /\ Satisfied(d.condition, step_states'[d.step_id])
         /\ d.step_id # s
<1>1. t \in Step
  BY DEF Started, TypeOK
<1>2. d.step_id \in StepId
  BY <1>1, DependencyType, StepIsId DEF TypeOK
<1>3. Satisfied(d.condition, step_states[d.step_id])
  BY DEF DependenciesInv
<1>4. d.step_id # s
  BY <1>3, SatisfiedIsTerminal
<1> QED
  BY <1>2, <1>3, <1>4

LEMMA SpawnKeepsDependencies ==
  ASSUME IInv, NEW s \in Step, phase = "spawn", s \in ready, wf' = wf,
         step_states' = [step_states EXCEPT ![s] = "Running"],
         handles' \subseteq handles \cup {s}
  PROVE  DependenciesInv'
<1> USE DEF IInv
<1>1. ~ is_terminal(step_states[s]) /\ DependenciesMet(wf, step_states, s)
  BY DEF BatchInv, Launching, is_terminal
<1>2. \A id \in StepId \ {s} : step_states'[id] = step_states[id]
  BY DEF TypeOK
<1> SUFFICES ASSUME NEW t \in Started' \cup handles', NEW d \in wf.depends_on[t],
                    d.step_id \notin FallbackTarget(wf)
             PROVE  Satisfied(d.condition, step_states'[d.step_id])
  BY DEF DependenciesInv, FallbackTarget
<1>3. CASE t \in Started \cup handles
  BY <1>1, <1>2, <1>3, DependenciesStable
<1>4. CASE t \notin Started \cup handles
  <2>1. t = s
    BY <1>2, <1>4, StepIsId DEF Started
  <2>2. Satisfied(d.condition, step_states[d.step_id])
    BY <1>1, <2>1 DEF DependenciesMet
  <2>3. d.step_id # s /\ d.step_id \in StepId
    BY <1>1, <2>1, <2>2, SatisfiedIsTerminal, DependencyType, StepIsId DEF TypeOK
  <2> QED
    BY <1>2, <2>2, <2>3
<1> QED
  BY <1>3, <1>4

LEMMA CollectKeepsDependencies ==
  ASSUME IInv, NEW s \in handles, wf' = wf, step_states' \in [StepId -> StepState],
         \A id \in StepId \ {s} :
            \/ step_states'[id] = step_states[id]
            \/ id \in FallbackTarget(wf) /\ step_states'[id] = "Pending",
         handles' \subseteq handles \ {s}
  PROVE  DependenciesInv'
<1> USE DEF IInv
<1>0. s \in Step
  BY DEF TypeOK
<1>1. ~ is_terminal(step_states[s])
  BY DEF BatchInv, is_terminal
<1> SUFFICES ASSUME NEW t \in Started' \cup handles', NEW d \in wf.depends_on[t],
                    d.step_id \notin FallbackTarget(wf)
             PROVE  Satisfied(d.condition, step_states'[d.step_id])
  BY DEF DependenciesInv, FallbackTarget
<1>2. t \in Started \cup handles
  BY <1>0, StepIsId DEF Started
<1> QED
  BY <1>0, <1>1, <1>2, DependenciesStable

LEMMA BatchNext == IInv /\ TypeOK' /\ [Next]_vars => BatchInv'
<1> SUFFICES ASSUME IInv, TypeOK', [Next]_vars PROVE BatchInv'
  OBVIOUS
<1> USE StepIsId
<1>i. TypeOK /\ BatchSteps /\ BatchInv
  BY DEF IInv
<1>1. CASE ScanReady
  BY <1>i, <1>1 DEF ScanReady, BatchInv, Launching, find_ready_steps, stateVars
<1>2. CASE ScanFinish
  BY <1>i, <1>2 DEF ScanFinish, NothingReady, Return, BatchInv, Launching, stateVars
<1>3. CASE ScanStuck
  BY <1>i, <1>3 DEF ScanStuck, NothingReady, Return, loopVars, BatchInv, Launching, stateVars
<1>6. CASE Acquire
  BY <1>i, <1>6 DEF Acquire, BatchInv, Launching, stateVars
<1>7. ASSUME NEW s \in Step, Spawn(s) PROVE BatchInv'
  <2>1. s \in ready /\ phase = "spawn" /\ wf' = wf
    BY <1>7 DEF Spawn, IsFirst
  <2>2. step_states[s] \in {"Pending", "Absent"}
    BY <1>i, <2>1 DEF BatchInv, Launching
  <2>3. \A id \in StepId : step_states'[id] = IF id = s THEN "Running" ELSE step_states[id]
    BY <1>i, <1>7 DEF Spawn, TypeOK
  <2>4. \A t \in Step : agent'[t] = IF t = s THEN "running" ELSE agent[t]
    BY <1>i, <1>7 DEF Spawn, TypeOK
  <2>5. ASSUME NEW t \in ready' PROVE DependenciesMet(wf, step_states', t)
    <3>1. t \in ready /\ t \in Step /\ DependenciesMet(wf, step_states, t)
      BY <1>i, <1>7, <2>1, <2>5 DEF Spawn, BatchInv, Launching, TypeOK
    <3> SUFFICES ASSUME NEW d \in wf.depends_on[t]
                 PROVE  Satisfied(d.condition, step_states'[d.step_id])
      BY DEF DependenciesMet
    <3>2. Satisfied(d.condition, step_states[d.step_id])
      BY <3>1 DEF DependenciesMet
    <3>3. d.step_id \in StepId /\ d.step_id # s
      BY <1>i, <2>2, <3>1, <3>2, DependencyType, SatisfiedIsTerminal
      DEF TypeOK, is_terminal
    <3> QED
      BY <2>3, <3>2, <3>3
  <2>6. phase' = (IF ready = {s} THEN "collect" ELSE "launch") /\ ready' = ready \ {s}
        /\ handles' = handles \cup {s}
    BY <1>7 DEF Spawn
  <2> QED
    BY <1>i, <2>1, <2>3, <2>4, <2>5, <2>6 DEF BatchInv, Launching, TypeOK
<1>8. ASSUME NEW s \in Step, SpawnError(s) PROVE BatchInv'
  BY <1>i, <1>8 DEF SpawnError, Return, BatchInv, Launching, TypeOK
<1>9. ASSUME NEW s \in Step, AgentExit(s) PROVE BatchInv'
  <2>1. \A t \in Step : agent'[t] # "idle" => agent[t] # "idle"
    BY <1>i, <1>9 DEF AgentExit, TypeOK
  <2> QED
    BY <1>i, <1>9, <2>1 DEF AgentExit, loopVars, stateVars, BatchInv, Launching
<1>10. ASSUME NEW s \in Step, Collect(s) PROVE BatchInv'
  <2>1. phase = "collect" /\ s \in handles /\ ready = {} /\ wf' = wf
    BY <1>i, <1>10 DEF Collect, CollectSuccess, CollectRetry, CollectSkip, CollectAbort,
       CollectFallback, CollectFail, CollectOf, Collected, IsFirst, BatchInv, Launching
  <2>2. CASE CollectAbort(s)
    BY <1>i, <2>1, <2>2
    DEF CollectAbort, Return, Failing, BatchInv, Launching, TypeOK
  <2>3. ASSUME Collected(s), step_states'[s] # "Running",
               \A id \in StepId \ {s} :
                 \/ step_states'[id] = step_states[id]
                 \/ id \in FallbackTarget(wf) /\ step_states'[id] = "Pending"
        PROVE  BatchInv'
    <3>1. handles' = handles \ {s} /\ ready' = {}
          /\ phase' = IF handles = {s} THEN "scan" ELSE "collect"
      BY <2>1, <2>3 DEF Collected
    <3>2. \A t \in Step : agent'[t] # "idle" => t # s /\ agent[t] # "idle"
      BY <1>i, <2>3 DEF Collected, TypeOK
    <3>3. \A t \in Step : step_states'[t] = "Running" => t # s /\ step_states[t] = "Running"
      BY <2>3
    <3>4. \A t \in handles' : \/ step_states'[t] = "Running"
                              \/ step_states'[t] = "Pending" /\ t \in FallbackTarget(wf)
      BY <1>i, <2>3, <3>1 DEF BatchInv, TypeOK
    <3>5. step_states'[NoStep] # "Running"
      BY <1>i, <2>3 DEF BatchInv
    <3> QED
      BY <1>i, <2>1, <3>1, <3>2, <3>3, <3>4, <3>5
      DEF BatchInv, Launching, FallbackTarget
  <2>4. CASE CollectSuccess(s)
    BY <1>i, <2>3, <2>4 DEF CollectSuccess, TypeOK
  <2>5. CASE CollectRetry(s)
    BY <1>i, <2>3, <2>5 DEF CollectRetry, TypeOK
  <2>6. CASE CollectSkip(s)
    BY <1>i, <2>3, <2>6 DEF CollectSkip, TypeOK
  <2>7. CASE CollectFail(s)
    BY <1>i, <2>3, <2>7 DEF CollectFail, Failing, TypeOK
  <2>8. CASE CollectFallback(s)
    <3>1. OnFailure(wf, s).step_id \in FallbackTarget(wf)
      BY <1>i, <2>1, <2>8, TargetIsFallback DEF CollectFallback, TypeOK, BatchSteps
    <3> QED
      BY <1>i, <2>3, <2>8, <3>1 DEF CollectFallback, TypeOK
  <2> QED
    BY <1>10, <2>2, <2>4, <2>5, <2>6, <2>7, <2>8 DEF Collect
<1>11. CASE UNCHANGED vars
  BY <1>i, <1>11 DEF vars, loopVars, stateVars, BatchInv, Launching
<1> QED
  BY <1>1, <1>2, <1>3, <1>6, <1>7, <1>8, <1>9, <1>10, <1>11
  DEF Next, ExecuteNext, EngineStep, Done

LEMMA DependenciesNext == IInv /\ TypeOK' /\ [Next]_vars => DependenciesInv'
<1> SUFFICES ASSUME IInv, TypeOK', [Next]_vars PROVE DependenciesInv'
  OBVIOUS
<1> USE StepIsId
<1>i. TypeOK /\ BatchSteps /\ BatchInv /\ DependenciesInv
  BY DEF IInv
<1>1. CASE ScanReady \/ ScanFinish \/ ScanStuck \/ Acquire
           \/ UNCHANGED vars \/ \E s \in Step : AgentExit(s)
  <2>1. wf' = wf /\ step_states' = step_states /\ handles' = handles
    BY <1>1 DEF ScanReady, ScanFinish, ScanStuck, Acquire, AgentExit, vars,
       stateVars
  <2> QED
    BY <1>i, <2>1, DependenciesKept
<1>2. ASSUME NEW s \in Step, Spawn(s) \/ SpawnError(s) PROVE DependenciesInv'
  <2>1. s \in ready /\ phase = "spawn" /\ wf' = wf
        /\ step_states' = [step_states EXCEPT ![s] = "Running"]
        /\ handles' \subseteq handles \cup {s}
    BY <1>2 DEF Spawn, SpawnError, IsFirst
  <2> QED
    BY <2>1, SpawnKeepsDependencies
<1>3. ASSUME NEW s \in Step, Collect(s) PROVE DependenciesInv'
  <2>1. s \in handles /\ wf' = wf /\ handles' \subseteq handles \ {s}
    BY <1>3 DEF Collect, CollectSuccess, CollectRetry, CollectSkip, CollectAbort,
       CollectFallback, CollectFail, CollectOf, Collected, IsFirst
  <2>2. \A id \in StepId \ {s} :
          \/ step_states'[id] = step_states[id]
          \/ id \in FallbackTarget(wf) /\ step_states'[id] = "Pending"
    <3>1. CASE CollectFallback(s)
      <4>1. OnFailure(wf, s).step_id \in FallbackTarget(wf)
        BY <1>i, <2>1, <3>1, TargetIsFallback DEF CollectFallback, TypeOK, BatchSteps
      <4> QED
        BY <1>i, <3>1, <4>1 DEF CollectFallback, TypeOK
    <3>2. CASE ~ CollectFallback(s)
      BY <1>i, <1>3, <3>2 DEF Collect, CollectSuccess, CollectRetry, CollectSkip,
         CollectAbort, CollectFail, Failing, TypeOK
    <3> QED
      BY <3>1, <3>2
  <2>3. step_states' \in [StepId -> StepState]
    BY DEF TypeOK
  <2> QED
    BY <2>1, <2>2, <2>3, CollectKeepsDependencies
<1> QED
  BY <1>1, <1>2, <1>3 DEF Next, ExecuteNext, EngineStep, Done

LEMMA Invariance == Spec => [](TypeInv /\ IInv)
<1>1. Init => TypeInv /\ IInv
  BY TypeInit, InvInit
<1>2. TypeInv /\ IInv /\ [Next]_vars => (TypeInv /\ IInv)'
  <2>1. TypeInv /\ [Next]_vars => TypeInv' /\ TypeOK'
    BY TypeNext DEF TypeInv
  <2> QED
    BY <2>1, BatchStepsNext, BatchNext, DependenciesNext DEF IInv
<1> QED
  BY <1>1, <1>2, PTL DEF Spec

(* Between two batches nothing runs: no step is Running and no agent lives  *)
(* when execute looks for ready steps, so it never polls (dag.rs:81).      *)
THEOREM BatchBarrier == Spec => []NothingRunsBetweenBatches
<1>1. IInv => NothingRunsBetweenBatches
  BY StepIsId, WorkflowDefAssumption
  DEF IInv, BatchInv, NothingRunsBetweenBatches, Step, StepId, NoStep
<1> QED
  BY <1>1, Invariance, PTL

(* A started step finds its dependencies satisfied, then and ever after,    *)
(* but for those on a fallback step.                                        *)
THEOREM DependenciesAlwaysRespected == Spec => []DependenciesRespected
<1>1. IInv => DependenciesRespected
  BY StepsType DEF IInv, TypeOK, DependenciesInv, Started, DependenciesRespected
<1> QED
  BY <1>1, Invariance, PTL

(* The outcome of a step that is nobody's fallback never changes.           *)
THEOREM OutcomesAreFinal == Spec => TerminalIsFinal
<1>1. IInv /\ [Next]_vars =>
        [\A s \in Step : is_terminal(step_states[s]) /\ s \notin FallbackTarget(wf)
            => step_states'[s] = step_states[s]]_vars
  <2> SUFFICES ASSUME IInv, Next,
                      NEW s \in Step, is_terminal(step_states[s]), s \notin FallbackTarget(wf)
               PROVE  step_states'[s] = step_states[s]
    OBVIOUS
  <2>i. TypeOK /\ BatchSteps /\ BatchInv
    BY DEF IInv
  <2>1. s \notin handles
    BY <2>i DEF BatchInv, is_terminal
  <2>2. Launching => s \notin ready
    BY <2>i DEF BatchInv, is_terminal
  <2>3. CASE \E t \in Step : Spawn(t) \/ SpawnError(t)
    <3> PICK t \in Step : Spawn(t) \/ SpawnError(t)
      BY <2>3
    <3>1. t # s /\ step_states' = [step_states EXCEPT ![t] = "Running"]
      BY <2>2 DEF Spawn, SpawnError, IsFirst, Launching
    <3> QED
      BY <2>i, <3>1, StepIsId DEF TypeOK
  <2>4. CASE \E t \in Step : Collect(t)
    <3> PICK t \in Step : Collect(t)
      BY <2>4
    <3>1. t # s
      BY <2>1 DEF Collect, CollectSuccess, CollectRetry, CollectSkip, CollectAbort,
         CollectFallback, CollectFail, CollectOf, IsFirst
    <3>2. CASE CollectFallback(t)
      <4>1. OnFailure(wf, t).step_id # s
        BY <2>i, <3>2, TargetIsFallback DEF CollectFallback, CollectOf, IsFirst, TypeOK, BatchSteps
      <4> QED
        BY <2>i, <3>1, <3>2, <4>1, StepIsId DEF CollectFallback, TypeOK
    <3>3. CASE ~ CollectFallback(t)
      BY <2>i, <3>1, <3>3, StepIsId DEF Collect, CollectSuccess, CollectRetry, CollectSkip,
         CollectAbort, CollectFail, Failing, TypeOK
    <3> QED
      BY <3>2, <3>3
  <2>5. CASE ~ (\E t \in Step : Spawn(t) \/ SpawnError(t) \/ Collect(t))
    BY <2>5 DEF Next, ExecuteNext, EngineStep, Done, ScanReady, ScanFinish, ScanStuck,
       Acquire, AgentExit, vars, stateVars
  <2> QED
    BY <2>3, <2>4, <2>5
<1> QED
  BY <1>1, Invariance, PTL DEF Spec, TerminalIsFinal

(* A step that waits and is not in the batch goes on waiting or is started, *)
(* whoever fails, and falls back on it, in the meantime.                    *)
THEOREM PendingAlwaysPickedUp == Spec => PendingIsPickedUp
<1>1. TypeOK /\ [Next]_vars =>
        [\A s \in Step : step_states[s] = "Pending" /\ s \notin handles
            => step_states'[s] \in {"Pending", "Running"}]_vars
  <2> SUFFICES ASSUME TypeOK, Next, NEW s \in Step, step_states[s] = "Pending", s \notin handles
               PROVE  step_states'[s] \in {"Pending", "Running"}
    OBVIOUS
  <2>1. ASSUME NEW t \in Step, Spawn(t) \/ SpawnError(t)
        PROVE  step_states'[s] \in {"Pending", "Running"}
    BY <2>1, StepIsId DEF Spawn, SpawnError, TypeOK
  <2>2. ASSUME NEW t \in Step, Collect(t) PROVE step_states'[s] \in {"Pending", "Running"}
    <3>1. t # s
      BY <2>2 DEF Collect, CollectSuccess, CollectRetry, CollectSkip, CollectAbort,
         CollectFallback, CollectFail, CollectOf, IsFirst
    <3> QED
      BY <2>2, <3>1, StepIsId DEF Collect, CollectSuccess, CollectRetry, CollectSkip,
         CollectAbort, CollectFallback, CollectFail, Failing, TypeOK
  <2>3. CASE ~ (\E t \in Step : Spawn(t) \/ SpawnError(t) \/ Collect(t))
    BY <2>3 DEF Next, ExecuteNext, EngineStep, Done, ScanReady, ScanFinish, ScanStuck,
       Acquire, AgentExit, vars, stateVars
  <2> QED
    BY <2>1, <2>2, <2>3
<1> QED
  BY <1>1, TypeCorrect, PTL DEF Spec, PendingIsPickedUp

(***************************************************************************)
(* Outputs.  While a step is Completed the shared map holds its output,     *)
(* unless somebody else writes the same variable; and a step that is        *)
(* launched has its dependencies Completed (BatchInv).                      *)
(***************************************************************************)
Held(d, v) == shared[v] # NoOutput /\ shared[v] = output[d]

SharedInv ==
  /\ KnownDependencies(wf)
  /\ \A d \in Steps(wf) : step_states[d] = "Completed" =>
       \A v \in wf.output_var[d] : OnlyWriter(d, v) => Held(d, v)

LEMMA OutputVarType ==
  ASSUME wf \in Workflow, NEW s \in Step PROVE wf.output_var[s] \subseteq Var
  BY DEF Workflow, Option

LEMMA OutputIsSome == \A s \in Step : result_output(s) # NoOutput
  BY StepIsId DEF result_output, NoOutput

(* A variable only d writes: it changes when d succeeds, and then both maps *)
(* hold what d has completed with.                                          *)
LEMMA OutputKept ==
  ASSUME TypeOK, BatchSteps, ExecuteNext,
         NEW d \in Step, step_states'[d] = "Completed", NEW v \in Var,
         \A t \in Steps(wf) : v \in wf.output_var[t] <=> t = d
  PROVE  \/ Held(d, v)' /\ variables'[v] = output'[d]
         \/ /\ step_states[d] = "Completed" /\ launches'[d] = launches[d]
            /\ output'[d] = output[d]
            /\ shared'[v] = shared[v] /\ variables'[v] = variables[v]
<1> USE StepIsId
<1>1. ASSUME NEW s \in Step, Spawn(s) \/ SpawnError(s)
      PROVE  /\ step_states[d] = "Completed" /\ launches'[d] = launches[d]
             /\ UNCHANGED <<output, shared, variables>>
  <2>1. step_states' = [step_states EXCEPT ![s] = "Running"]
    BY <1>1 DEF Spawn, SpawnError
  <2>2. d # s /\ step_states[d] = "Completed"
    BY <2>1 DEF TypeOK
  <2> QED
    BY <1>1, <2>2 DEF Spawn, SpawnError, dataVars, TypeOK
<1>2. ASSUME NEW s \in Step, CollectSuccess(s), d = s
      PROVE  Held(d, v)' /\ variables'[v] = output'[d]
  <2>1. s \in Steps(wf) /\ v \in wf.output_var[s]
    BY <1>2 DEF CollectSuccess, CollectOf, IsFirst, BatchSteps
  <2>2. /\ shared'[v] = result_output(s) /\ variables'[v] = result_output(s)
        /\ output'[s] = result_output(s)
    BY <1>2, <2>1 DEF CollectSuccess, Stored, TypeOK
  <2> QED
    BY <1>2, <2>2, OutputIsSome DEF Held
<1>3. ASSUME NEW s \in Step, CollectSuccess(s), d # s
      PROVE  /\ step_states[d] = "Completed" /\ launches'[d] = launches[d]
             /\ output'[d] = output[d]
             /\ shared'[v] = shared[v] /\ variables'[v] = variables[v]
  <2>1. s \in Steps(wf) /\ v \notin wf.output_var[s]
    BY <1>3 DEF CollectSuccess, CollectOf, IsFirst, BatchSteps
  <2>2. shared'[v] = shared[v] /\ variables'[v] = variables[v]
    BY <1>3, <2>1 DEF CollectSuccess, Stored
  <2> QED
    BY <1>3, <2>2 DEF CollectSuccess, Collected, launchVars, TypeOK
<1>4. ASSUME NEW s \in Step, Collect(s), ~ CollectSuccess(s)
      PROVE  step_states[d] = "Completed" /\ UNCHANGED <<launches, output, shared, variables>>
  <2>1. UNCHANGED <<launches, output, shared, variables>>
    BY <1>4 DEF Collect, CollectRetry, CollectSkip, CollectAbort, CollectFallback, CollectFail,
       Failing, Collected, dataVars, launchVars
  <2>2. step_states[d] = "Completed"
    BY <1>4 DEF Collect, CollectRetry, CollectSkip, CollectAbort,
       CollectFallback, CollectFail, Failing, TypeOK
  <2> QED
    BY <2>1, <2>2
<1>5. CASE ~ \E s \in Step : Spawn(s) \/ SpawnError(s) \/ Collect(s)
  BY <1>5 DEF ExecuteNext, EngineStep, ScanReady, ScanFinish, ScanStuck, Acquire, AgentExit,
     stateVars, dataVars, launchVars
<1> QED
  BY <1>1, <1>2, <1>3, <1>4, <1>5 DEF Held

LEMMA WorkflowStays == ExecuteNext => wf' = wf
  BY DEF ExecuteNext, EngineStep, ScanReady, ScanFinish, ScanStuck, Acquire, Spawn, SpawnError,
     AgentExit, Collect, CollectSuccess, CollectRetry, CollectSkip, CollectAbort,
     CollectFallback, CollectFail, Collected

LEMMA SharedNext == IInv /\ SharedInv /\ [Next]_vars => SharedInv'
<1> SUFFICES ASSUME IInv, SharedInv, [Next]_vars PROVE SharedInv'
  OBVIOUS
<1>1. CASE UNCHANGED vars
  BY <1>1 DEF vars, stateVars, dataVars, SharedInv, Held, OnlyWriter
<1>2. CASE ExecuteNext
  <2>1. wf' = wf
    BY <1>2, WorkflowStays
  <2> SUFFICES ASSUME NEW d \in Steps(wf), step_states'[d] = "Completed",
                      NEW v \in wf.output_var[d], OnlyWriter(d, v)
               PROVE  Held(d, v)'
    BY <2>1 DEF SharedInv, OnlyWriter
  <2>2. d \in Step /\ v \in Var
    BY StepsType, OutputVarType DEF IInv, TypeOK
  <2>3. \A t \in Steps(wf) : v \in wf.output_var[t] <=> t = d
    BY DEF OnlyWriter
  <2>4. \/ Held(d, v)'
        \/ step_states[d] = "Completed" /\ output'[d] = output[d] /\ shared'[v] = shared[v]
    BY <1>2, <2>2, <2>3, OutputKept DEF IInv
  <2>5. step_states[d] = "Completed" => Held(d, v)
    BY DEF SharedInv
  <2> QED
    BY <2>4, <2>5 DEF Held
<1> QED
  BY <1>1, <1>2 DEF Next, Done

(* Who is new among the handles was launched in this very step.             *)
LEMMA NewHandle ==
  ASSUME [Next]_vars, NEW s \in handles' \ handles
  PROVE  Spawn(s)
<1>1. PICK t \in Step : Spawn(t)
  BY DEF Next, ExecuteNext, EngineStep, Done, ScanReady, ScanFinish, ScanStuck, Acquire,
     SpawnError, AgentExit, Collect, CollectSuccess, CollectRetry, CollectSkip, CollectAbort,
     CollectFallback, CollectFail, Collected, vars
<1>2. s = t
  BY <1>1 DEF Spawn
<1> QED
  BY <1>1, <1>2

(* What the prompt of a step that is launched is made of.                   *)
LEMMA PromptOfSpawn ==
  ASSUME TypeOK, NEW s \in Step, Spawn(s), NEW v \in Var
  PROVE  /\ prompt'[s][v] = (IF shared[v] # NoOutput THEN shared[v] ELSE variables[v])
         /\ step_states[s] \in StepState
  BY StepIsId DEF Spawn, all_vars, TypeOK

(* In an execution that starts fresh, an agent is sent the very output that *)
(* each step it depends on for its success has completed with, if that step *)
(* alone writes the variable.                                               *)
THEOREM OutputAlwaysSeen == Spec => DownstreamSeesOutput
<1>1. Init => SharedInv
  <2> SUFFICES ASSUME Init PROVE SharedInv
    OBVIOUS
  <2>1. wf \in Workflow /\ KnownDependencies(wf)
    BY EngineAssumption DEF Init, validate
  <2>2. \A d \in Steps(wf) : step_states[d] = "Pending"
    BY <2>1, StepsType, StepIsId DEF Init, FreshStates
  <2> QED
    BY <2>1, <2>2 DEF SharedInv
<1>2. IInv /\ SharedInv /\ [Next]_vars =>
        [\A s \in handles' \ handles :
           \A d \in wf.depends_on[s] : d.condition = "Success" =>
             \A v \in wf.output_var[d.step_id] :
               OnlyWriter(d.step_id, v) => Sees(s, d.step_id, v)]_vars
  <2> SUFFICES ASSUME IInv, SharedInv, [Next]_vars, NEW s \in handles' \ handles,
                      NEW d \in wf.depends_on[s], d.condition = "Success",
                      NEW v \in wf.output_var[d.step_id], OnlyWriter(d.step_id, v)
               PROVE  Sees(s, d.step_id, v)
    OBVIOUS
  <2>t. TypeOK /\ BatchSteps /\ BatchInv
    BY DEF IInv
  <2>1. Spawn(s)
    BY NewHandle
  <2>2. /\ s \in ready /\ s \in Step /\ s \in Steps(wf)
        /\ DependenciesMet(wf, step_states, s)
    BY <2>t, <2>1 DEF Spawn, IsFirst, BatchSteps, BatchInv, Launching, TypeOK
  <2>3. step_states[d.step_id] = "Completed"
    BY <2>2 DEF DependenciesMet, Satisfied
  <2>4. d.step_id \in Steps(wf) /\ d.step_id \in Step
    BY <2>2, <2>t, StepsType DEF SharedInv, KnownDependencies, DependsOn, TypeOK
  <2>5. Held(d.step_id, v)
    BY <2>3, <2>4 DEF SharedInv
  <2>6. v \in Var
    BY <2>t, <2>4, OutputVarType DEF TypeOK
  <2>7. prompt'[s][v] = shared[v]
    BY <2>1, <2>2, <2>t, <2>5, <2>6, PromptOfSpawn DEF Held
  <2> QED
    BY <2>5, <2>7 DEF Sees, Held
<1> QED
  BY <1>1, <1>2, Invariance, SharedNext, PTL DEF Spec, DownstreamSeesOutput

(***************************************************************************)
(* Refinement: execute implements WorkflowLife.                             *)
(***************************************************************************)
VerdictInv == phase = "returned" <=> result # "none"

LEMMA VerdictNext == TypeOK /\ VerdictInv /\ [Next]_vars => VerdictInv'
<1> SUFFICES ASSUME TypeOK, VerdictInv, [Next]_vars PROVE VerdictInv'
  OBVIOUS
<1>1. CASE \E s \in Step : Collect(s)
  <2> PICK s \in Step : Collect(s)
    BY <1>1
  <2> QED
    BY DEF Collect, CollectSuccess, CollectRetry, CollectSkip, CollectAbort, CollectFallback,
       CollectFail, CollectOf, Collected, Return, VerdictInv
<1>2. CASE ~ \E s \in Step : Collect(s)
  BY <1>2 DEF Next, ExecuteNext, EngineStep, Done, ScanReady, ScanFinish, ScanStuck,
     NothingReady, Acquire, Spawn, SpawnError, AgentExit, Return, final_state, vars,
     loopVars, VerdictInv
<1> QED
  BY <1>1, <1>2

(* WorkflowLife speaks of the same steps, conditions and policies.          *)
LEMMA SameWords ==
  /\ Life!Step = Step /\ Life!StepId = StepId /\ Life!NoStep = NoStep
  /\ Life!Abort = Abort
  /\ \A w : Life!Steps(w) = Steps(w)
  /\ \A w, s : Life!OnFailure(w, s) = OnFailure(w, s)
  /\ \A c, st : Life!Satisfied(c, st) <=> Satisfied(c, st)
  /\ \A st : Life!is_terminal(st) <=> is_terminal(st)
<1>1. \A f : Life!normalize(f) = normalize(f)
  BY DEF normalize, Retry, Fallback, Skip,
     Life!normalize, Life!Retry, Life!Fallback, Life!Skip
<1> QED
  BY <1>1 DEF Steps, Life!Steps, Step, StepId, NoStep, Abort, OnFailure, Satisfied, is_terminal,
     Life!Step, Life!StepId, Life!NoStep, Life!Abort, Life!OnFailure, Life!Satisfied,
     Life!is_terminal

LEMMA EndRefines ==
  ASSUME IInv, VerdictInv, ScanFinish \/ ScanStuck
  PROVE  Life!End \/ UNCHANGED Life!lifeVars
<1> USE SameWords
<1>1. handles = {} /\ handles' = {} /\ wf' = wf /\ step_states' = step_states
  BY DEF IInv, BatchInv, ScanFinish, ScanStuck, NothingReady, stateVars
<1>2. Life!Open
  BY DEF Life!Open, VerdictInv, ScanFinish, ScanStuck, NothingReady
<1>3. \A s \in Step : ~ Life!MayStart(s)
  BY DEF Life!MayStart, ScanFinish, ScanStuck, NothingReady, find_ready_steps, DependenciesMet
<1>4. CASE ScanFinish
  BY <1>1, <1>2, <1>3, <1>4 DEF Life!End, ScanFinish, AllTerminal, Entries, Return, final_state
<1>5. CASE ScanStuck /\ ~ AnyRunning
  BY <1>1, <1>2, <1>3, <1>5 DEF Life!End, ScanStuck, AllTerminal, Entries, Return
<1>6. CASE ScanStuck /\ AnyRunning
  BY <1>1, <1>6 DEF ScanStuck, loopVars, Life!lifeVars
<1> QED
  BY <1>4, <1>5, <1>6

LEMMA SpawnRefines ==
  ASSUME IInv, VerdictInv, NEW s \in Step
  PROVE  /\ Spawn(s) => Life!Start(s)
         /\ SpawnError(s) => Life!GiveUp(s)
<1> USE SameWords
<1> SUFFICES ASSUME Spawn(s) \/ SpawnError(s)
             PROVE  Life!Open /\ Life!MayStart(s)
  BY DEF Spawn, SpawnError, Return, Life!Start, Life!GiveUp
<1>1. phase = "spawn" /\ s \in ready
  BY DEF Spawn, SpawnError, IsFirst
<1>2. /\ step_states[s] \in {"Pending", "Absent"}
      /\ DependenciesMet(wf, step_states, s)
      /\ s \notin handles /\ s \in Steps(wf)
  BY <1>1 DEF IInv, BatchSteps, BatchInv, Launching
<1> QED
  BY <1>1, <1>2 DEF Life!Open, Life!MayStart, DependenciesMet, VerdictInv

LEMMA CollectRefines ==
  ASSUME IInv, VerdictInv, NEW s \in Step, Collect(s)
  PROVE  Life!Succeed(s) \/ Life!Fail(s)
<1> USE SameWords
<1>1. Life!Open /\ s \in handles /\ wf' = wf
  BY DEF Life!Open, VerdictInv, Collect, CollectSuccess, CollectRetry, CollectSkip,
     CollectAbort, CollectFallback, CollectFail, CollectOf, Collected, IsFirst
<1>2. CASE CollectSuccess(s)
  BY <1>1, <1>2 DEF CollectSuccess, Collected, Life!Succeed
<1>3. CASE CollectRetry(s) \/ (CollectFail(s) /\ OnFailure(wf, s).kind = "retry")
  <2>1. OnFailure(wf, s).kind = "retry" /\ OnFailure(wf, s) # Abort
    BY <1>3 DEF CollectRetry, MayRetry, Abort
  <2>2. Life!Outcome(OnFailure(wf, s)) = {"Pending", "Failed"}
    BY <2>1 DEF Life!Outcome
  <2>3. Life!Reset(s) = step_states
    BY <2>1 DEF Life!Reset
  <2> QED
    BY <1>1, <1>3, <2>1, <2>2, <2>3
    DEF CollectRetry, CollectFail, Collected, Failing, Life!Fail
<1>4. CASE CollectSkip(s)
  <2>1. OnFailure(wf, s).kind = "skip" /\ OnFailure(wf, s) # Abort
    BY <1>4 DEF CollectSkip, Skip, Abort
  <2>2. Life!Outcome(OnFailure(wf, s)) = {"Skipped"} /\ Life!Reset(s) = step_states
    BY <2>1 DEF Life!Outcome, Life!Reset
  <2> QED
    BY <1>1, <1>4, <2>1, <2>2 DEF CollectSkip, Collected, Life!Fail
<1>5. CASE CollectAbort(s)
  <2>1. OnFailure(wf, s) = Abort /\ OnFailure(wf, s).kind = "abort"
    BY <1>5 DEF CollectAbort, Abort
  <2>2. Life!Outcome(OnFailure(wf, s)) = {"Failed"} /\ Life!Reset(s) = step_states
    BY <2>1 DEF Life!Outcome, Life!Reset
  <2> QED
    BY <1>1, <1>5, <2>1, <2>2 DEF CollectAbort, Failing, Return, Life!Fail
<1>6. CASE CollectFallback(s)
  <2>1. OnFailure(wf, s).kind = "fallback" /\ OnFailure(wf, s) # Abort
    BY <1>6 DEF CollectFallback, Abort
  <2>2. Life!Outcome(OnFailure(wf, s)) = {"Failed"}
    BY <2>1 DEF Life!Outcome
  <2>3. Life!Reset(s) = [step_states EXCEPT ![OnFailure(wf, s).step_id] = "Pending"]
    BY <2>1 DEF Life!Reset
  <2>4. step_states' = [Life!Reset(s) EXCEPT ![s] = "Failed"]
    BY <1>6, <2>3 DEF CollectFallback
  <2> QED
    BY <1>1, <1>6, <2>1, <2>2, <2>4 DEF CollectFallback, Collected, Life!Fail
<1>7. CASE CollectFail(s) /\ OnFailure(wf, s) = NoAction
  <2>1. OnFailure(wf, s).kind = "none" /\ OnFailure(wf, s) # Abort
    BY <1>7 DEF NoAction, Abort
  <2>2. Life!Outcome(OnFailure(wf, s)) = {"Failed"} /\ Life!Reset(s) = step_states
    BY <2>1 DEF Life!Outcome, Life!Reset
  <2> QED
    BY <1>1, <1>7, <2>1, <2>2 DEF CollectFail, Collected, Failing, Life!Fail
<1> QED
  BY <1>2, <1>3, <1>4, <1>5, <1>6, <1>7 DEF Collect, CollectFail

(* execute, with its batches, permits and agents, only does what            *)
(* WorkflowLife allows: each of its steps is a step there or changes        *)
(* nothing that can be seen there.                                          *)
THEOREM ExecuteImplementsLife == Spec => ImplementsLife
<1> USE SameWords
<1>1. Init => VerdictInv /\ Life!LifeInit
  BY DEF Init, VerdictInv, Life!LifeInit, FreshStates
<1>2. IInv /\ VerdictInv /\ [Next]_vars => [Life!LifeStep]_Life!lifeVars
  <2> SUFFICES ASSUME IInv, VerdictInv, [Next]_vars
               PROVE  Life!LifeStep \/ UNCHANGED Life!lifeVars
    OBVIOUS
  <2>1. CASE ScanFinish \/ ScanStuck
    BY <2>1, EndRefines DEF Life!LifeStep
  <2>2. ASSUME NEW s \in Step, Spawn(s) \/ SpawnError(s) PROVE Life!LifeStep
    BY <2>2, SpawnRefines DEF Life!LifeStep
  <2>3. ASSUME NEW s \in Step, Collect(s) PROVE Life!LifeStep
    BY <2>3, CollectRefines DEF Life!LifeStep
  <2>4. CASE ScanReady \/ Acquire \/ UNCHANGED vars \/ \E s \in Step : AgentExit(s)
    BY <2>4 DEF ScanReady, Acquire, AgentExit, vars, stateVars, loopVars, Life!lifeVars
  <2> QED
    BY <2>1, <2>2, <2>3, <2>4 DEF Next, ExecuteNext, EngineStep, Done
<1>3. Spec => []VerdictInv
  <2>1. IInv /\ VerdictInv /\ [Next]_vars => VerdictInv'
    BY VerdictNext DEF IInv
  <2> QED
    BY <1>1, <2>1, Invariance, PTL DEF Spec
<1> QED
  BY <1>1, <1>2, <1>3, Invariance, PTL DEF Spec, ImplementsLife, Life!LifeSpec

(***************************************************************************)
(* The map of states.  The entry of the id that no step ever has, which a   *)
(* fallback may create, is never more than Pending.                         *)
(***************************************************************************)
WellFilled(states) == states[NoStep] \in {"Absent", "Pending"}

LEMMA StepOrNone == \A id \in StepId : id \in Step \/ id = NoStep
  BY WorkflowDefAssumption DEF Step, StepId, NoStep

LEMMA FreshIsWellFilled == \A w : WellFilled(FreshStates(w))
  BY StepIsId DEF WellFilled, FreshStates

LEMMA WellFilledNext ==
  ASSUME TypeOK, WellFilled(step_states), ExecuteNext
  PROVE  WellFilled(step_states)'
<1> USE StepIsId
<1>1. CASE UNCHANGED step_states
  BY <1>1 DEF WellFilled
<1>2. CASE ScanReady \/ ScanFinish \/ ScanStuck \/ Acquire \/ \E s \in Step : AgentExit(s)
  BY <1>1, <1>2 DEF ScanReady, ScanFinish, ScanStuck, Acquire, AgentExit, stateVars
<1>3. ASSUME NEW s \in Step, Spawn(s) \/ SpawnError(s) PROVE WellFilled(step_states)'
  BY <1>3 DEF Spawn, SpawnError, TypeOK, WellFilled
<1>4. ASSUME NEW s \in Step, CollectFallback(s) PROVE WellFilled(step_states)'
  <2>1. OnFailure(wf, s).step_id \in StepId
    BY <1>4, FallbackTargetType DEF TypeOK, CollectFallback
  <2> QED
    BY <1>4, <2>1 DEF CollectFallback, TypeOK, WellFilled
<1>5. ASSUME NEW s \in Step, Collect(s), ~ CollectFallback(s) PROVE WellFilled(step_states)'
  BY <1>5 DEF Collect, CollectSuccess, CollectRetry, CollectSkip, CollectAbort, CollectFail,
     Failing, TypeOK, WellFilled
<1> QED
  BY <1>2, <1>3, <1>4, <1>5 DEF ExecuteNext, EngineStep

(***************************************************************************)
(* Deadlock.  Among the steps that wait one waits for none of them, as      *)
(* there is no cycle; it is not ready and nothing runs, so that it waits    *)
(* for a step that ended with the wrong outcome.                            *)
(***************************************************************************)
DeadlockInv ==
  /\ ~ Cyclic(wf) /\ KnownDependencies(wf)
  /\ DeadlockVerdictJustified
  /\ result # "none" => phase = "returned"

LEMMA StuckIsJustified ==
  ASSUME TypeOK, DeadlockInv, NothingReady, ~ AllTerminal, ~ AnyRunning,
         \A id \in StepId \ Steps(wf) : step_states[id] # "Pending"
  PROVE  \E s \in Steps(wf) : Unreachable(s)
<1> DEFINE P == {s \in Steps(wf) : step_states[s] \in {"Pending", "Absent"}}
<1>1. P # {}
  <2>1. PICK id \in Entries : ~ is_terminal(step_states[id])
    BY DEF AllTerminal
  <2>2. id \in StepId /\ step_states[id] = "Pending"
    BY <2>1 DEF Entries, is_terminal, AnyRunning, TypeOK, StepState
  <2>3. id \in Steps(wf)
    BY <2>2
  <2> QED
    BY <2>2, <2>3
<1>2. PICK s \in P : DependsOn(wf, s) \cap P = {}
  BY <1>1 DEF DeadlockInv, Cyclic
<1>3. PICK d \in wf.depends_on[s] : ~ Satisfied(d.condition, step_states[d.step_id])
  BY DEF NothingReady, find_ready_steps, DependenciesMet
<1>4. d.step_id \in Steps(wf) /\ d.step_id \notin P /\ d.step_id \in StepId
  BY <1>2, StepsType, StepIsId DEF TypeOK, DependsOn, DeadlockInv, KnownDependencies
<1>5. is_terminal(step_states[d.step_id])
  BY <1>4 DEF is_terminal, AnyRunning, TypeOK, StepState
<1> QED
  BY <1>3, <1>5 DEF Unreachable

LEMMA DeadlockNext == TypeOK /\ DeadlockInv /\ ExecuteNext => DeadlockInv'
<1> SUFFICES ASSUME TypeOK, DeadlockInv, ExecuteNext PROVE DeadlockInv'
  OBVIOUS
<1>2. wf' = wf
  BY WorkflowStays
<1>3. ~ Cyclic(wf') /\ KnownDependencies(wf')
  BY <1>2 DEF DeadlockInv
<1>4. CASE ScanStuck /\ ~ AnyRunning
  <2>1. DeadlockVerdictJustified
    BY DEF DeadlockInv
  <2>2. \/ \E s \in Steps(wf) : Unreachable(s)
        \/ \E id \in StepId \ Steps(wf) : step_states[id] = "Pending"
    BY <1>4, StuckIsJustified DEF ScanStuck
  <2>3. step_states' = step_states /\ phase' = "returned"
    BY <1>4 DEF ScanStuck, stateVars, Return
  <2> QED
    BY <1>2, <1>3, <2>2, <2>3 DEF DeadlockInv, DeadlockVerdictJustified, Unreachable
<1>5. ASSUME NEW s \in Step, AgentExit(s) PROVE DeadlockInv'
  BY <1>5, <1>2, <1>3 DEF AgentExit, stateVars, loopVars, DeadlockInv,
     DeadlockVerdictJustified, Unreachable
<1>6. CASE ~ (ScanStuck /\ ~ AnyRunning) /\ ~ \E s \in Step : AgentExit(s)
  <2>1. phase # "returned"
    BY <1>6 DEF ExecuteNext, EngineStep, ScanReady, ScanFinish, ScanStuck, NothingReady, Acquire,
       Spawn, SpawnError, Collect, CollectSuccess, CollectRetry, CollectSkip, CollectAbort,
       CollectFallback, CollectFail, CollectOf
  <2>2. result = "none"
    BY <2>1 DEF DeadlockInv
  <2>3. /\ result' # "Deadlocked"
        /\ result' # "none" => phase' = "returned"
    <3>1. CASE ScanReady \/ ScanFinish \/ ScanStuck \/ Acquire
      BY <1>6, <2>2, <3>1 DEF ScanReady, ScanFinish, ScanStuck, Acquire, Return, final_state,
         loopVars
    <3>2. ASSUME NEW s \in Step, Spawn(s) \/ SpawnError(s) \/ CollectAbort(s)
          PROVE  result' # "Deadlocked" /\ (result' # "none" => phase' = "returned")
      BY <2>2, <3>2 DEF Spawn, SpawnError, CollectAbort, Return
    <3>3. ASSUME NEW s \in Step, Collect(s), ~ CollectAbort(s)
          PROVE  result' = "none"
      BY <2>2, <3>3 DEF Collect, CollectSuccess, CollectRetry, CollectSkip, CollectFallback,
         CollectFail, Collected
    <3> QED
      BY <1>6, <3>1, <3>2, <3>3 DEF ExecuteNext, EngineStep
  <2> QED
    BY <1>3, <2>3 DEF DeadlockInv, DeadlockVerdictJustified
<1> QED
  BY <1>4, <1>5, <1>6

LEMMA ValidIsAcyclic ==
  ASSUME NEW w \in Workflows, validate(w) PROVE ~ Cyclic(w) /\ KnownDependencies(w)
  BY EngineAssumption, VisitsAllUnlessCyclic DEF validate

(* When execute says "Deadlocked" a step waits for a dependency that ended  *)
(* with the wrong outcome, or a fallback has left an entry for an id that   *)
(* no step of the workflow has: for every workflow that validate accepts.   *)
THEOREM DeadlockAlwaysJustified == Spec => []DeadlockVerdictJustified
<1>1. Init => DeadlockInv
  BY ValidIsAcyclic DEF Init, DeadlockInv, DeadlockVerdictJustified
<1>2. TypeOK /\ DeadlockInv /\ [Next]_vars => DeadlockInv'
  <2>1. DeadlockInv /\ UNCHANGED vars => DeadlockInv'
    BY DEF vars, stateVars, loopVars, DeadlockInv, DeadlockVerdictJustified, Unreachable
  <2> QED
    BY <2>1, DeadlockNext DEF Next, Done
<1>3. DeadlockInv => DeadlockVerdictJustified
  BY DEF DeadlockInv
<1> QED
  BY <1>1, <1>2, <1>3, TypeCorrect, PTL DEF Spec

(***************************************************************************)
(* The counters.  Without fallbacks a step leaves the batch exactly when it *)
(* ends, so that each end is counted once; and there are no more of them    *)
(* than steps, so that the bound on the counters is never met.              *)
(***************************************************************************)
NoFallbacks == FallbackTarget(wf) = {}

BatchKept ==
  /\ BatchSteps
  /\ Launching => \A s \in ready :
       step_states[s] \in {"Pending", "Absent"} /\ DependenciesMet(wf, step_states, s)
  /\ NoFallbacks => \A s \in handles : step_states[s] = "Running"

MetricsInv ==
  /\ WellFilled(step_states)
  /\ BatchKept
  /\ MetricsMatchStates

HowMany(states, S) == Cardinality({id \in StepId : states[id] \in S})

LEMMA StepIdFinite == IsFiniteSet(StepId)
  BY WorkflowDefAssumption, FS_Interval DEF StepId

(* A step that enters a set of final states is one more in it, and all the  *)
(* others together are fewer than the counters can count.                   *)
LEMMA OneMoreInState ==
  ASSUME NEW states, NEW s \in Step,
         NEW new, \A id \in StepId \ {s} : new[id] = states[id],
         NEW S, states[s] \notin S, states[NoStep] \notin S
  PROVE  /\ new[s] \in S => HowMany(new, S) = Bump(HowMany(states, S))
         /\ new[s] \notin S => HowMany(new, S) = HowMany(states, S)
<1> USE StepIsId
<1> DEFINE In(f) == {id \in StepId : f[id] \in S}
<1>1. CASE new[s] \notin S
  <2>1. In(new) = In(states)
    BY <1>1
  <2> QED
    BY <1>1, <2>1 DEF HowMany
<1>2. CASE new[s] \in S
  <2>1. In(new) = In(states) \cup {s} /\ s \notin In(states)
    BY <1>2
  <2>2. In(states) \subseteq Step \ {s}
    BY StepOrNone
  <2>3. IsFiniteSet(Step \ {s}) /\ Cardinality(Step \ {s}) = NumSteps - 1
    BY StepFinite, FS_RemoveElement
  <2>4. IsFiniteSet(In(states)) /\ Cardinality(In(states)) <= NumSteps - 1
    BY <2>2, <2>3, FS_Subset
  <2>5. Cardinality(In(states)) < MaxCount
    BY <2>4, FS_CardinalityType, WorkflowDefAssumption, EngineAssumption
  <2>6. Cardinality(In(states) \cup {s}) = Cardinality(In(states)) + 1
    BY <2>1, <2>4, FS_AddElement
  <2> QED
    BY <1>2, <2>1, <2>5, <2>6 DEF HowMany, Bump
<1> QED
  BY <1>1, <1>2

LEMMA BatchKeptNext ==
  ASSUME TypeOK, BatchKept, ExecuteNext
  PROVE  BatchKept'
<1> USE StepIsId
<1>1. wf' = wf
  BY WorkflowStays
<1>2. NoFallbacks' = NoFallbacks
  BY <1>1 DEF NoFallbacks, FallbackTarget
<1>b. BatchSteps'
  BY BatchStepsNext DEF BatchKept, Next
<1>3. CASE ScanReady
  BY <1>b, <1>1, <1>2, <1>3 DEF ScanReady, find_ready_steps, stateVars, BatchKept, DependenciesMet
<1>4. CASE ScanFinish \/ ScanStuck \/ Acquire
  BY <1>b, <1>1, <1>2, <1>4 DEF ScanFinish, ScanStuck, Acquire, NothingReady, Return, stateVars, loopVars,
     BatchKept, Launching, DependenciesMet
<1>5. ASSUME NEW s \in Step, AgentExit(s) PROVE BatchKept'
  BY <1>b, <1>1, <1>2, <1>5 DEF AgentExit, stateVars, loopVars, BatchKept, Launching, DependenciesMet
<1>6. ASSUME NEW s \in Step, SpawnError(s) PROVE BatchKept'
  BY <1>b, <1>6 DEF SpawnError, Return, BatchKept, Launching
<1>7. ASSUME NEW s \in Step, Spawn(s) PROVE BatchKept'
  <2>1. /\ step_states' = [step_states EXCEPT ![s] = "Running"]
        /\ ready' = ready \ {s} /\ handles' = handles \cup {s}
        /\ Launching /\ s \in ready
    BY <1>7 DEF Spawn, IsFirst, Launching
  <2>2. ~ is_terminal(step_states[s])
    BY <2>1 DEF BatchKept, is_terminal
  <2>3. ASSUME NEW t \in ready' PROVE DependenciesMet(wf, step_states', t)
    <3>1. t \in Step /\ DependenciesMet(wf, step_states, t)
      BY <2>1 DEF BatchKept, TypeOK
    <3> SUFFICES ASSUME NEW d \in wf.depends_on[t]
                 PROVE  Satisfied(d.condition, step_states'[d.step_id])
      BY DEF DependenciesMet
    <3>2. Satisfied(d.condition, step_states[d.step_id]) /\ d.step_id \in StepId
      BY <3>1, DependencyType DEF DependenciesMet, TypeOK
    <3>3. d.step_id # s
      BY <2>2, <3>2, SatisfiedIsTerminal
    <3> QED
      BY <2>1, <3>2, <3>3 DEF TypeOK
  <2>4. \A t \in ready' : step_states'[t] \in {"Pending", "Absent"}
    BY <2>1 DEF BatchKept, TypeOK
  <2>5. NoFallbacks => \A t \in handles' : step_states'[t] = "Running"
    BY <2>1 DEF BatchKept, TypeOK
  <2> QED
    BY <1>b, <1>1, <1>2, <2>3, <2>4, <2>5 DEF BatchKept
<1>8. ASSUME NEW s \in Step, CollectFallback(s) PROVE BatchKept'
  <2>1. ~ NoFallbacks
    BY <1>8, TargetIsFallback DEF CollectFallback, CollectOf, IsFirst, NoFallbacks, TypeOK,
       BatchKept, BatchSteps
  <2>2. ~ Launching'
    BY <1>8 DEF CollectFallback, Collected, Launching
  <2> QED
    BY <1>b, <1>2, <2>1, <2>2 DEF BatchKept
<1>9. ASSUME NEW s \in Step, Collect(s), ~ CollectFallback(s) PROVE BatchKept'
  <2>1. ~ Launching' /\ handles' \subseteq handles \ {s}
    BY <1>9 DEF Collect, CollectSuccess, CollectRetry, CollectSkip, CollectAbort, CollectFail,
       Collected, Return, Launching
  <2>2. \A t \in Step \ {s} : step_states'[t] = step_states[t]
    BY <1>9 DEF Collect, CollectSuccess, CollectRetry, CollectSkip, CollectAbort, CollectFail,
       Failing, TypeOK
  <2>3. handles' \subseteq Step \ {s}
    BY <2>1 DEF TypeOK
  <2> QED
    BY <1>b, <1>2, <2>1, <2>2, <2>3 DEF BatchKept
<1> QED
  BY <1>3, <1>4, <1>5, <1>6, <1>7, <1>8, <1>9 DEF ExecuteNext, EngineStep

(* A change of one step that waited or ran, with the counters going along.  *)
LEMMA StepCounted ==
  ASSUME TypeOK, WellFilled(step_states), MetricsMatchStates, wf' = wf,
         NEW s \in Step, ~ is_terminal(step_states[s]),
         NEW st, step_states' = [step_states EXCEPT ![s] = st],
         completed_agents' = IF st = "Completed" THEN Bump(completed_agents) ELSE completed_agents,
         failed_agents' = IF st \in {"Failed", "Skipped"} THEN Bump(failed_agents)
                                                          ELSE failed_agents
  PROVE  MetricsMatchStates'
<1> SUFFICES ASSUME NoFallbacks
             PROVE  /\ completed_agents' = HowMany(step_states', {"Completed"})
                    /\ failed_agents' = HowMany(step_states', {"Failed", "Skipped"})
  BY DEF MetricsMatchStates, NoFallbacks, FallbackTarget, HowMany, InState
<1>1. /\ completed_agents = HowMany(step_states, {"Completed"})
      /\ failed_agents = HowMany(step_states, {"Failed", "Skipped"})
  BY DEF MetricsMatchStates, NoFallbacks, HowMany, InState
<1>2. step_states'[s] = st /\ \A id \in StepId \ {s} : step_states'[id] = step_states[id]
  BY StepIsId DEF TypeOK
<1>3. completed_agents' = HowMany(step_states', {"Completed"})
  <2> DEFINE S == {"Completed"}
  <2>1. step_states[s] \notin S /\ step_states[NoStep] \notin S
    BY DEF is_terminal, WellFilled
  <2>2. /\ completed_agents' = IF st \in S THEN Bump(completed_agents) ELSE completed_agents
        /\ completed_agents = HowMany(step_states, S)
    BY <1>1
  <2> HIDE DEF S
  <2>3. HowMany(step_states', S)
          = IF st \in S THEN Bump(HowMany(step_states, S)) ELSE HowMany(step_states, S)
    <3>1. /\ step_states'[s] \in S => HowMany(step_states', S) = Bump(HowMany(step_states, S))
          /\ step_states'[s] \notin S => HowMany(step_states', S) = HowMany(step_states, S)
      BY ONLY <1>2, <2>1, OneMoreInState, s \in Step
    <3> QED
      BY <1>2, <3>1
  <2> QED
    BY <2>2, <2>3 DEF S
<1>4. failed_agents' = HowMany(step_states', {"Failed", "Skipped"})
  <2> DEFINE S == {"Failed", "Skipped"}
  <2>1. step_states[s] \notin S /\ step_states[NoStep] \notin S
    BY DEF is_terminal, WellFilled
  <2>2. /\ failed_agents' = IF st \in S THEN Bump(failed_agents) ELSE failed_agents
        /\ failed_agents = HowMany(step_states, S)
    BY <1>1
  <2> HIDE DEF S
  <2>3. HowMany(step_states', S)
          = IF st \in S THEN Bump(HowMany(step_states, S)) ELSE HowMany(step_states, S)
    <3>1. /\ step_states'[s] \in S => HowMany(step_states', S) = Bump(HowMany(step_states, S))
          /\ step_states'[s] \notin S => HowMany(step_states', S) = HowMany(step_states, S)
      BY ONLY <1>2, <2>1, OneMoreInState, s \in Step
    <3> QED
      BY <1>2, <3>1
  <2> QED
    BY <2>2, <2>3 DEF S
<1> QED
  BY <1>3, <1>4

LEMMA MetricsNext == TypeOK /\ MetricsInv /\ ExecuteNext => MetricsInv'
<1> SUFFICES ASSUME TypeOK, MetricsInv, ExecuteNext PROVE MetricsInv'
  OBVIOUS
<1>1. WellFilled(step_states)' /\ BatchKept'
  BY WellFilledNext, BatchKeptNext DEF MetricsInv
<1>2. wf' = wf
  BY WorkflowStays
<1>3. MetricsMatchStates'
  <2>1. CASE UNCHANGED <<step_states, metricVars>>
    BY <1>2, <2>1 DEF metricVars, MetricsInv, MetricsMatchStates, InState, FallbackTarget
  <2>2. CASE ScanReady \/ ScanFinish \/ ScanStuck \/ Acquire \/ \E s \in Step : AgentExit(s)
    BY <2>1, <2>2 DEF ScanReady, ScanFinish, ScanStuck, Acquire, AgentExit, stateVars
  <2>3. ASSUME NEW s \in Step, Spawn(s) \/ SpawnError(s) PROVE MetricsMatchStates'
    <3>1. ~ is_terminal(step_states[s])
      BY <2>3 DEF Spawn, SpawnError, IsFirst, MetricsInv, BatchKept, Launching, is_terminal
    <3> QED
      BY <1>2, <2>3, <3>1, StepCounted DEF Spawn, SpawnError, metricVars, MetricsInv
  <2>4. ASSUME NEW s \in Step, Collect(s) PROVE MetricsMatchStates'
    <3> SUFFICES ASSUME NoFallbacks PROVE MetricsMatchStates'
      BY <1>2 DEF MetricsMatchStates, NoFallbacks, FallbackTarget
    <3>1. ~ CollectFallback(s)
      BY TargetIsFallback DEF CollectFallback, CollectOf, IsFirst, NoFallbacks, TypeOK,
         MetricsInv, BatchKept, BatchSteps
    <3>2. ~ is_terminal(step_states[s])
      BY <2>4 DEF Collect, CollectSuccess, CollectRetry, CollectSkip, CollectAbort, CollectFallback,
         CollectFail, CollectOf, IsFirst, MetricsInv, BatchKept, is_terminal
    <3>3. CASE CollectSuccess(s)
      BY <1>2, <3>2, <3>3, StepCounted DEF CollectSuccess, MetricsInv
    <3>4. CASE CollectRetry(s)
      BY <1>2, <3>2, <3>4, StepCounted DEF CollectRetry, metricVars, MetricsInv
    <3>5. CASE CollectSkip(s)
      BY <1>2, <3>2, <3>5, StepCounted DEF CollectSkip, MetricsInv
    <3>6. CASE CollectAbort(s) \/ CollectFail(s)
      BY <1>2, <3>2, <3>6, StepCounted DEF CollectAbort, CollectFail, Failing, MetricsInv
    <3> QED
      BY <2>4, <3>1, <3>3, <3>4, <3>5, <3>6 DEF Collect
  <2> QED
    BY <2>2, <2>3, <2>4 DEF ExecuteNext, EngineStep
<1> QED
  BY <1>1, <1>3 DEF MetricsInv

(* Without fallbacks the metrics of the result agree with the states of the *)
(* steps, however often steps are retried and wherever execute stops.       *)
THEOREM MetricsAlwaysMatch == Spec => []MetricsMatchStates
<1>1. Init => MetricsInv
  <2> SUFFICES ASSUME Init PROVE MetricsInv
    OBVIOUS
  <2>1. InState({"Completed"}) = {} /\ InState({"Failed", "Skipped"}) = {}
    BY DEF Init, FreshStates, InState
  <2> QED
    BY <2>1, FreshIsWellFilled, FS_EmptySet
    DEF Init, MetricsInv, BatchKept, BatchSteps, Launching, MetricsMatchStates
<1>2. TypeOK /\ MetricsInv /\ [Next]_vars => MetricsInv'
  <2>1. MetricsInv /\ UNCHANGED vars => MetricsInv'
    BY DEF vars, stateVars, loopVars, metricVars, MetricsInv, MetricsMatchStates, WellFilled,
       BatchKept, BatchSteps, Launching, DependenciesMet, NoFallbacks, FallbackTarget, InState
  <2> QED
    BY <2>1, MetricsNext DEF Next, Done
<1>3. MetricsInv => MetricsMatchStates
  BY DEF MetricsInv
<1> QED
  BY <1>1, <1>2, <1>3, TypeCorrect, PTL DEF Spec

==============================================================================
