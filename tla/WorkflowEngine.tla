--------------------------- MODULE WorkflowEngine ---------------------------
(***************************************************************************)
(* ra-engine/src/dag.rs: `execute`, the loop that drives one workflow, with *)
(* the parts of the scheduler and of the agent manager it calls.            *)
(*                                                                          *)
(* One iteration of the loop computes the ready steps, launches them one by *)
(* one in the order of workflow.steps, then waits for their agents one by   *)
(* one in the same order.  Agents run concurrently with all of that and     *)
(* with each other: AgentExit may happen at any moment after the launch.    *)
(*                                                                          *)
(* Data: an output is represented by where it comes from, the step, the     *)
(* execution and the launch, so that two outputs of one step differ.        *)
(***************************************************************************)
EXTENDS WorkflowDef

CONSTANTS
  Workflows,        \* the workflows that may be run
  MaxConcurrency,   \* the permits of the scheduler's semaphore
  MaxCount          \* bound on the counters that only grow, launches included

ASSUME EngineAssumption ==
  /\ Workflows \subseteq Workflow
  /\ MaxConcurrency \in Nat
  /\ MaxCount \in Nat
  /\ NumSteps <= MaxCount

VARIABLES
  wf,                \* the workflow in execution
  runs,              \* history: the number of this execution
  phase,             \* where execute stands
  result,            \* what execute returned
  step_states,       \* step_states
  attempts,          \* the attempts carried by StepState::Failed
  output,            \* the output carried by StepState::Completed
  ready,             \* the steps of `ready` still to launch in this iteration
  handles,           \* the steps of `handles` still to collect
  agent,             \* the agent of each step, as its event channel shows it
  permits,           \* free permits of the semaphore
  variables,         \* variables
  shared,            \* context_manager.shared
  prompt,            \* all_vars at the launch of each step
  completed_agents,  \* metrics.completed_agents
  failed_agents,     \* metrics.failed_agents
  launches           \* history: how often each step was launched

loopVars   == <<phase, result>>
stateVars  == <<step_states, attempts, output>>
dataVars   == <<variables, shared>>
metricVars == <<completed_agents, failed_agents>>
launchVars == <<permits, prompt, launches>>
vars == <<wf, runs, loopVars, stateVars, ready, handles, agent, dataVars, metricVars,
          launchVars>>

Phase == {"scan", "launch", "spawn", "collect", "returned"}
Result == {"none", "Completed", "Failed", "Aborted", "Deadlocked", "SpawnFailed"}
AgentStatus == {"idle", "running", "succeeded", "failed"}

Output == [step : StepId, run : Nat, launch : 0 .. MaxCount]
NoOutput == [step |-> NoStep, run |-> 0, launch |-> 0]
Values == [Var -> Output]
Unset == [v \in Var |-> NoOutput]

Bump(n) == IF n < MaxCount THEN n + 1 ELSE n

(***************************************************************************)
(* find_ready_steps, and the step the `for` loops take next.                *)
(***************************************************************************)
DependenciesMet(w, states, s) ==
  \A d \in w.depends_on[s] : Satisfied(d.condition, states[d.step_id])

(* Slip: one satisfied dependency is enough.                                *)
Slip_find_ready_any(w, states) ==
  {s \in Steps(w) : /\ states[s] \in {"Pending", "Absent"}
                    /\ \/ w.depends_on[s] = {}
                       \/ \E d \in w.depends_on[s] :
                            Satisfied(d.condition, states[d.step_id])}

(* Slip: a Failed step that has a policy is taken up again.                 *)
Slip_find_ready_failed(w, states) ==
  {s \in Steps(w) : /\ \/ states[s] \in {"Pending", "Absent"}
                       \/ states[s] = "Failed" /\ w.on_failure[s] # NoAction
                    /\ DependenciesMet(w, states, s)}

find_ready_steps(w, states) ==
  {s \in Steps(w) : /\ states[s] \in {"Pending", "Absent"}
                    /\ DependenciesMet(w, states, s)}

IsFirst(s, S) ==
  /\ s \in S
  /\ \E i \in DOMAIN wf.steps :
        wf.steps[i] = s /\ \A j \in 1 .. i - 1 : wf.steps[j] \notin S

(***************************************************************************)
(* execute without a checkpoint.                                            *)
(***************************************************************************)
FreshStates(w) == [id \in StepId |-> IF id \in Steps(w) THEN "Pending" ELSE "Absent"]

Init ==
  /\ wf \in {w \in Workflows : validate(w)}
  /\ runs = 1
  /\ phase = "scan"
  /\ result = "none"
  /\ step_states = FreshStates(wf)
  /\ attempts = [id \in StepId |-> 0]
  /\ output = [s \in Step |-> NoOutput]
  /\ ready = {}
  /\ handles = {}
  /\ agent = [s \in Step |-> "idle"]
  /\ permits = MaxConcurrency
  /\ variables = Unset
  /\ shared = Unset
  /\ prompt = [s \in Step |-> Unset]
  /\ completed_agents = 0
  /\ failed_agents = 0
  /\ launches = [s \in Step |-> 0]

(***************************************************************************)
(* The head of the loop: launch what is ready; with nothing ready, stop if  *)
(* everything is over or stuck, or look again while something runs.         *)
(***************************************************************************)
Entries == {id \in StepId : step_states[id] # "Absent"}
AllTerminal == \A id \in Entries : is_terminal(step_states[id])
AnyRunning == \E id \in StepId : step_states[id] = "Running"

(* Slip: all instead of any.                                                *)
Slip_final_state ==
  IF \A id \in Entries : step_states[id] = "Failed" THEN "Failed" ELSE "Completed"

final_state ==
  IF \E id \in StepId : step_states[id] = "Failed" THEN "Failed" ELSE "Completed"

Return(r) == phase' = "returned" /\ result' = r

NothingReady == phase = "scan" /\ find_ready_steps(wf, step_states) = {}

ScanReady ==
  /\ phase = "scan"
  /\ find_ready_steps(wf, step_states) # {}
  /\ ready' = find_ready_steps(wf, step_states)
  /\ phase' = "launch"
  /\ UNCHANGED <<wf, runs, result, stateVars, handles, agent, dataVars, metricVars,
                 launchVars>>

ScanFinish ==
  /\ NothingReady
  /\ AllTerminal
  /\ Return(final_state)
  /\ UNCHANGED <<wf, runs, stateVars, ready, handles, agent, dataVars, metricVars,
                 launchVars>>

(* Slip: execute waits without looking for a running step.                  *)
Slip_ScanStuck ==
  /\ NothingReady
  /\ ~ AllTerminal
  /\ UNCHANGED vars

(* With a step Running execute sleeps for a moment and looks again: nothing *)
(* has changed then, except what others have done in the meantime.          *)
ScanStuck ==
  /\ NothingReady
  /\ ~ AllTerminal
  /\ IF AnyRunning THEN UNCHANGED loopVars ELSE Return("Deadlocked")
  /\ UNCHANGED <<wf, runs, stateVars, ready, handles, agent, dataVars, metricVars,
                 launchVars>>

(***************************************************************************)
(* One turn of the launch loop: take a permit, mark the step Running, spawn *)
(* its agent.  The permit is a local of the loop body, so it is given back  *)
(* when the turn ends, while the agent goes on.                             *)
(***************************************************************************)
(* Slip: the permit is given back by the loop but never taken.              *)
Slip_Acquire ==
  /\ phase = "launch"
  /\ permits > 0
  /\ phase' = "spawn"
  /\ UNCHANGED <<wf, runs, result, stateVars, ready, handles, agent, dataVars,
                 metricVars, launchVars>>

Acquire ==
  /\ phase = "launch"
  /\ permits > 0
  /\ permits' = permits - 1
  /\ phase' = "spawn"
  /\ UNCHANGED <<wf, runs, result, stateVars, ready, handles, agent, dataVars,
                 metricVars, prompt, launches>>

all_vars == [v \in Var |-> IF shared[v] # NoOutput THEN shared[v] ELSE variables[v]]

Spawn(s) ==
  /\ phase = "spawn"
  /\ IsFirst(s, ready)
  /\ prompt' = [prompt EXCEPT ![s] = all_vars]
  /\ step_states' = [step_states EXCEPT ![s] = "Running"]
  /\ agent' = [agent EXCEPT ![s] = "running"]
  /\ launches' = [launches EXCEPT ![s] = Bump(@)]
  /\ handles' = handles \cup {s}
  /\ ready' = ready \ {s}
  /\ phase' = IF ready = {s} THEN "collect" ELSE "launch"
  /\ permits' = permits + 1
  /\ UNCHANGED <<wf, runs, result, attempts, output, dataVars, metricVars>>

(* spawn_agent failed (no binary, bad directory): `?` leaves execute with   *)
(* the step marked Running and the agents of this batch on their own.       *)
SpawnError(s) ==
  /\ phase = "spawn"
  /\ IsFirst(s, ready)
  /\ step_states' = [step_states EXCEPT ![s] = "Running"]
  /\ Return("SpawnFailed")
  /\ permits' = permits + 1
  /\ ready' = {}
  /\ handles' = {}
  /\ UNCHANGED <<wf, runs, attempts, output, agent, dataVars, metricVars, prompt,
                 launches>>

(* The agent's process ends and its event channel closes; it succeeded when *)
(* its last result event was not an error.                                  *)
AgentExit(s) ==
  /\ agent[s] = "running"
  /\ \E outcome \in {"succeeded", "failed"} :
        agent' = [agent EXCEPT ![s] = outcome]
  /\ UNCHANGED <<wf, runs, loopVars, stateVars, ready, handles, dataVars, metricVars,
                 launchVars>>

(***************************************************************************)
(* The collect loop: the first handle whose turn it is, once its channel is *)
(* closed.                                                                  *)
(***************************************************************************)
current_attempts(s) == IF step_states[s] = "Failed" THEN attempts[s] ELSE 0

(* Slip: the main loop goes on after the first agent that ends.             *)
Slip_Collected(s) ==
  /\ handles' = handles \ {s}
  /\ agent' = [agent EXCEPT ![s] = "idle"]
  /\ phase' = "scan"
  /\ UNCHANGED <<wf, runs, result, ready, launchVars>>

(* The step's final event was read: its handle is gone, and the loop goes   *)
(* on to the next handle or back to the head of the main loop.              *)
Collected(s) ==
  /\ handles' = handles \ {s}
  /\ agent' = [agent EXCEPT ![s] = "idle"]
  /\ phase' = IF handles = {s} THEN "scan" ELSE "collect"
  /\ UNCHANGED <<wf, runs, result, ready, launchVars>>

CollectOf(s, outcome) ==
  /\ phase = "collect"
  /\ IsFirst(s, handles)
  /\ agent[s] = outcome

Failing(s) ==
  /\ step_states' = [step_states EXCEPT ![s] = "Failed"]
  /\ attempts' = [attempts EXCEPT ![s] = current_attempts(s) + 1]
  /\ failed_agents' = Bump(failed_agents)
  /\ UNCHANGED <<output, dataVars, completed_agents>>

result_output(s) == [step |-> s, run |-> runs, launch |-> launches[s]]

Stored(values, s) ==
  [v \in Var |-> IF v \in wf.output_var[s] THEN result_output(s) ELSE values[v]]

CollectSuccess(s) ==
  /\ CollectOf(s, "succeeded")
  /\ Collected(s)
  /\ variables' = Stored(variables, s)
  /\ shared' = Stored(shared, s)
  /\ step_states' = [step_states EXCEPT ![s] = "Completed"]
  /\ output' = [output EXCEPT ![s] = result_output(s)]
  /\ completed_agents' = Bump(completed_agents)
  /\ UNCHANGED <<attempts, failed_agents>>

MayRetry(s) ==
  /\ OnFailure(wf, s).kind = "retry"
  /\ current_attempts(s) < OnFailure(wf, s).max_attempts

(* Slip: a failure that is retried is counted as well.                      *)
Slip_CollectRetry(s) ==
  /\ CollectOf(s, "failed")
  /\ MayRetry(s)
  /\ Collected(s)
  /\ step_states' = [step_states EXCEPT ![s] = "Pending"]
  /\ failed_agents' = Bump(failed_agents)
  /\ UNCHANGED <<attempts, output, dataVars, completed_agents>>

CollectRetry(s) ==
  /\ CollectOf(s, "failed")
  /\ MayRetry(s)
  /\ Collected(s)
  /\ step_states' = [step_states EXCEPT ![s] = "Pending"]
  /\ UNCHANGED <<attempts, output, dataVars, metricVars>>

CollectSkip(s) ==
  /\ CollectOf(s, "failed")
  /\ OnFailure(wf, s) = Skip
  /\ Collected(s)
  /\ step_states' = [step_states EXCEPT ![s] = "Skipped"]
  /\ failed_agents' = Bump(failed_agents)
  /\ UNCHANGED <<attempts, output, dataVars, completed_agents>>

(* execute returns in the middle of the collect loop: the handles after s   *)
(* are dropped, their steps stay Running and their agents stay alive.       *)
CollectAbort(s) ==
  /\ CollectOf(s, "failed")
  /\ OnFailure(wf, s) = Abort
  /\ Failing(s)
  /\ Return("Aborted")
  /\ handles' = {}
  /\ agent' = [agent EXCEPT ![s] = "idle"]
  /\ UNCHANGED <<wf, runs, ready, launchVars>>

(* First the fallback step is made Pending, then s Failed: a step that is   *)
(* its own fallback ends up Failed.                                         *)
CollectFallback(s) ==
  /\ CollectOf(s, "failed")
  /\ OnFailure(wf, s).kind = "fallback"
  /\ Collected(s)
  /\ step_states' = [step_states EXCEPT ![OnFailure(wf, s).step_id] = "Pending",
                                        ![s] = "Failed"]
  /\ attempts' = [attempts EXCEPT ![s] = current_attempts(s) + 1]
  /\ failed_agents' = Bump(failed_agents)
  /\ UNCHANGED <<output, dataVars, completed_agents>>

CollectFail(s) ==
  /\ CollectOf(s, "failed")
  /\ \/ OnFailure(wf, s) = NoAction
     \/ OnFailure(wf, s).kind = "retry" /\ ~ MayRetry(s)
  /\ Collected(s)
  /\ Failing(s)

Collect(s) ==
  \/ CollectSuccess(s)
  \/ CollectRetry(s)
  \/ CollectSkip(s)
  \/ CollectAbort(s)
  \/ CollectFallback(s)
  \/ CollectFail(s)

(* What the task that runs execute does, apart from a spawn that fails.     *)
EngineStep ==
  \/ ScanReady
  \/ ScanFinish
  \/ ScanStuck
  \/ Acquire
  \/ \E s \in Step : Spawn(s) \/ Collect(s)

ExecuteNext ==
  \/ EngineStep
  \/ \E s \in Step : SpawnError(s) \/ AgentExit(s)

(* The workflow is over and so are all agents it started.                   *)
Done ==
  /\ phase = "returned"
  /\ \A s \in Step : agent[s] # "running"
  /\ UNCHANGED vars

Next == ExecuteNext \/ Done

Spec == Init /\ [][Next]_vars

(* tokio keeps polling the task of execute, and every agent process ends    *)
(* some day: nothing in the code limits how long it takes.                  *)
Fairness ==
  /\ WF_vars(EngineStep)
  /\ \A s \in Step : WF_vars(AgentExit(s))

FairSpec == Spec /\ Fairness

(***************************************************************************)
(*                              PROPERTIES                                  *)
(***************************************************************************)

(* Every variable keeps its type. *)
TypeOK ==
  /\ wf \in Workflow
  /\ runs \in Nat
  /\ phase \in Phase
  /\ result \in Result
  /\ step_states \in [StepId -> StepState]
  /\ attempts \in [StepId -> Nat]
  /\ output \in [Step -> Output]
  /\ ready \in SUBSET Step
  /\ handles \in SUBSET Step
  /\ agent \in [Step -> AgentStatus]
  /\ permits \in 0 .. MaxConcurrency
  /\ variables \in Values
  /\ shared \in Values
  /\ prompt \in [Step -> Values]
  /\ completed_agents \in 0 .. MaxCount
  /\ failed_agents \in 0 .. MaxCount
  /\ launches \in [Step -> 0 .. MaxCount]

(* When execute looks for ready steps no step is Running and no agent is    *)
(* alive: everything launched in an iteration was collected in it, and the  *)
(* branch that polls is dead code in a fresh execution.                     *)
NothingRunsBetweenBatches ==
  phase = "scan" =>
    /\ \A id \in StepId : step_states[id] # "Running"
    /\ \A s \in Step : agent[s] = "idle"

(* A step that was started finds the dependencies it was started for still  *)
(* satisfied, whatever happened since: the ready list computed before the   *)
(* launches and the batch that is collected later never go stale.  Steps    *)
(* that are somebody's fallback are the exception, they may be reset.       *)
DependenciesRespected ==
  \A s \in Steps(wf) : step_states[s] \in {"Running", "Completed", "Failed", "Skipped"} =>
    \A d \in wf.depends_on[s] :
      d.step_id \notin FallbackTarget(wf) =>
        Satisfied(d.condition, step_states[d.step_id])

(* Without fallbacks every step is counted once, under what it ended as:    *)
(* the metrics of the result agree with its step states.                    *)
InState(S) == {id \in StepId : step_states[id] \in S}

MetricsMatchStates ==
  FallbackTarget(wf) = {} =>
    /\ completed_agents = Cardinality(InState({"Completed"}))
    /\ failed_agents = Cardinality(InState({"Failed", "Skipped"}))

(* validate lets through every workflow whose ids are unique, whose         *)
(* dependencies and plain fallbacks name steps and whose dependencies have  *)
(* no cycle, which is a set of steps each of which waits for another one of *)
(* the set; and it lets through nothing else.                               *)
Cyclic(w) ==
  \E S \in SUBSET Steps(w) : S # {} /\ \A s \in S : DependsOn(w, s) \cap S # {}

ValidationExact ==
  \A w \in Workflows :
    validate(w) <=> UniqueIds(w) /\ KnownDependencies(w) /\ KnownTargets(w) /\ ~ Cyclic(w)

(* "Deadlocked" is the truth: some step waits for a dependency that ended   *)
(* with the wrong outcome, or an id that names no step of the workflow is   *)
(* waited for.  (Every chain of waiting steps ends in such a step: validate *)
(* refused the cycles.)                                                     *)
Unreachable(s) ==
  /\ step_states[s] \in {"Pending", "Absent"}
  /\ \E d \in wf.depends_on[s] :
        /\ is_terminal(step_states[d.step_id])
        /\ ~ Satisfied(d.condition, step_states[d.step_id])

DeadlockVerdictJustified ==
  result = "Deadlocked" =>
    \/ \E s \in Steps(wf) : Unreachable(s)
    \/ \E id \in StepId \ Steps(wf) : step_states[id] = "Pending"

(* The prompt of a step is resolved after the output of every step it       *)
(* depends on with condition Success was stored: if that step is the only   *)
(* one that writes the variable, the agent is sent the very output that     *)
(* step has completed with, neither the bare placeholder nor the output of  *)
(* an earlier launch or execution.                                          *)
OnlyWriter(s, v) == \A t \in Steps(wf) : v \in wf.output_var[t] <=> t = s

Sees(s, d, v) == prompt'[s][v] # NoOutput /\ prompt'[s][v] = output[d]

DownstreamSeesOutput ==
  [][\A s \in handles' \ handles :
       \A d \in wf.depends_on[s] : d.condition = "Success" =>
         \A v \in wf.output_var[d.step_id] :
           OnlyWriter(d.step_id, v) => Sees(s, d.step_id, v)]_vars

(* The outcome of a step is final, unless the step is somebody's fallback.  *)
TerminalIsFinal ==
  [][\A s \in Step : is_terminal(step_states[s]) /\ s \notin FallbackTarget(wf)
        => step_states'[s] = step_states[s]]_vars

(* A step that is Pending, first or again, gets picked up: the next it is   *)
(* is Running.  Only a fallback step that was launched in the same batch as *)
(* the step it stands in for loses the reset to its own outcome.  This is a *)
(* part of ImplementsLife.                                                  *)
PendingIsPickedUp ==
  [][\A s \in Step : step_states[s] = "Pending" /\ s \notin handles
        => step_states'[s] \in {"Pending", "Running"}]_vars

(* execute returns.  Retries and circular fallbacks may go on forever, and  *)
(* without a permit nothing starts.                                         *)
FallbackCycle(w) ==
  LET calls(S) == {id \in StepId : \E s \in S : OnFailure(w, s) = Fallback(id)}
  IN  \E S \in SUBSET Steps(w) : S # {} /\ S \subseteq calls(S)

RetryFree(w) == \A s \in Steps(w) : OnFailure(w, s).kind # "retry"

Terminates ==
  MaxConcurrency > 0 /\ RetryFree(wf) /\ ~ FallbackCycle(wf)
    => <>(phase = "returned")

(* Seen through step_states, handles and result, execute is one of the      *)
(* executions WorkflowLife allows: its batches start nothing whose          *)
(* dependencies do not hold at that very moment, decide every started step  *)
(* once and by its policy, and end with the verdict the states call for.    *)
(* With a permit to be had it also keeps going as long as anything can be   *)
(* done.                                                                    *)
Life == INSTANCE WorkflowLife
          WITH state <- step_states, busy <- handles, verdict <- result

ImplementsLife == Life!LifeSpec

KeepsGoing == MaxConcurrency > 0 => Life!LifeProgress

(***************************************************************************)
(* What the documentation says and the code does not do.                    *)
(***************************************************************************)

(* `retry: max_attempts: n` means at most n retries after the first run.    *)
RetryBounded ==
  \A s \in Steps(wf) : OnFailure(wf, s).kind = "retry" =>
    launches[s] <= 1 + OnFailure(wf, s).max_attempts

(* `max_concurrency` is the largest number of agents alive at a time.       *)
ConcurrencyRespected ==
  Cardinality({s \in Step : agent[s] = "running"}) <= MaxConcurrency

(* `abort` stops the entire workflow: no agent of it goes on.               *)
AbortStopsEverything ==
  result = "Aborted" => \A s \in Step : agent[s] # "running"

==============================================================================
