--------------------------- MODULE WorkflowRunner ---------------------------
(***************************************************************************)
(* ra-engine/src/runner.rs: one execution after another on the same         *)
(* checkpoint store.  run_workflow validates, executes and, when execute    *)
(* returned Ok, saves one final checkpoint; resume starts execute from a    *)
(* stored one; the process may die at any moment and be started again.      *)
(*                                                                          *)
(* The checkpoint table (ra-store/src/checkpoint_store.rs) is a set: ids    *)
(* are fresh, and a save inserts one row in one statement.  A workflow may  *)
(* be edited between two executions: steps may change, move, come and go.   *)
(***************************************************************************)
EXTENDS WorkflowEngine

CONSTANT MaxRuns   \* bound on the number of executions

ASSUME RunnerAssumption == MaxRuns \in Nat \ {0}

VARIABLES
  call,     \* where run_workflow stands, or how it ended
  store,    \* the checkpoints saved
  origin    \* the checkpoint the execution was started from, if any

runnerVars == <<call, store, origin>>
allVars == <<vars, runnerVars>>

Call == {"executing", "ok", "err", "dead"}

Checkpoint ==
  [workflow : Workflow,
   workflow_state : {"Completed", "Failed", "Aborted"},
   step_states : [StepId -> StepState],
   attempts : [StepId -> Nat],
   output : [Step -> Output],
   variables : Values,
   completed_agents : 0 .. MaxCount,
   failed_agents : 0 .. MaxCount]

(* The checkpoint execute builds when it returns.  Its workflow stands for  *)
(* workflow_id, which nothing looks at when an execution is resumed.        *)
final_checkpoint ==
  [workflow |-> wf, workflow_state |-> result, step_states |-> step_states,
   attempts |-> attempts, output |-> output, variables |-> variables,
   completed_agents |-> completed_agents, failed_agents |-> failed_agents]

RunnerInit ==
  /\ Init
  /\ call = "executing"
  /\ store = {}
  /\ origin = {}

Execute ==
  /\ call = "executing"
  /\ ExecuteNext
  /\ UNCHANGED runnerVars

(* execute returned Ok; the save may fail, and then so does the call.       *)
ReturnedOk == phase = "returned" /\ result \in {"Completed", "Failed", "Aborted"}

SaveCheckpoint ==
  /\ call = "executing"
  /\ ReturnedOk
  /\ store' = store \cup {final_checkpoint}
  /\ call' = "ok"
  /\ UNCHANGED <<vars, origin>>

SaveFails ==
  /\ call = "executing"
  /\ ReturnedOk
  /\ call' = "err"
  /\ UNCHANGED <<vars, store, origin>>

(* execute returned Err: `?` skips the save.                                *)
ReturnErr ==
  /\ call = "executing"
  /\ phase = "returned"
  /\ ~ ReturnedOk
  /\ call' = "err"
  /\ UNCHANGED <<vars, store, origin>>

(* The process dies: only the store survives.                               *)
Crash ==
  /\ call = "executing"
  /\ call' = "dead"
  /\ UNCHANGED <<vars, store, origin>>

(* A new execution of workflow w from what is given.  The runner may be a   *)
(* new one, or the same, whose shared context still holds what earlier      *)
(* executions wrote.  Agents of earlier executions have no reader any more. *)
Begin(w, from) ==
  /\ call # "executing"
  /\ runs < MaxRuns
  /\ validate(w)
  /\ wf' = w
  /\ step_states' = from.step_states
  /\ attempts' = from.attempts
  /\ output' = from.output
  /\ variables' = from.variables
  /\ completed_agents' = from.completed_agents
  /\ failed_agents' = from.failed_agents
  /\ shared' \in {Unset} \cup (IF call = "dead" THEN {} ELSE {shared})
  /\ phase' = "scan"
  /\ result' = "none"
  /\ ready' = {}
  /\ handles' = {}
  /\ agent' = [s \in Step |-> "idle"]
  /\ permits' = MaxConcurrency
  /\ prompt' = [s \in Step |-> Unset]
  /\ launches' = [s \in Step |-> 0]
  /\ call' = "executing"
  /\ runs' = runs + 1
  /\ UNCHANGED store

(* `ra run`, with --from-checkpoint too: the command drops the id.          *)
Fresh(w) ==
  [step_states |-> FreshStates(w), attempts |-> [id \in StepId |-> 0],
   output |-> [s \in Step |-> NoOutput], variables |-> Unset,
   completed_agents |-> 0, failed_agents |-> 0]

Run(w) ==
  /\ Begin(w, Fresh(w))
  /\ origin' = {}

(* Slip: the metrics of the checkpoint are not taken over.                  *)
Slip_Resume(w, cp) ==
  /\ Begin(w, [cp EXCEPT !.completed_agents = 0, !.failed_agents = 0])
  /\ origin' = {cp}

(* Slip: everything is reset but the variables and the metrics.             *)
Slip_Resume_states(w, cp) ==
  /\ Begin(w, [cp EXCEPT !.step_states = FreshStates(w)])
  /\ origin' = {cp}

(* Slip: the variables are left to the shared context.                      *)
Slip_Resume_variables(w, cp) ==
  /\ Begin(w, [cp EXCEPT !.variables = Unset])
  /\ origin' = {cp}

(* The map of states is taken over as it is: it may lack entries for steps  *)
(* of w, and have some for others.  Nothing compares w with the workflow    *)
(* the checkpoint came from.                                                *)
Resume(w, cp) ==
  /\ Begin(w, cp)
  /\ origin' = {cp}

(* Nothing is started any more: the user walks away.                        *)
Idle ==
  /\ call # "executing"
  /\ UNCHANGED allVars

RunnerNext ==
  \/ Execute
  \/ SaveCheckpoint
  \/ SaveFails
  \/ ReturnErr
  \/ Crash
  \/ \E w \in Workflows : Run(w)
  \/ \E w \in Workflows, cp \in store : Resume(w, cp)
  \/ Idle

RunnerSpec == RunnerInit /\ [][RunnerNext]_allVars

(* As for execute alone; a crash, a resume or a failing save never has to   *)
(* happen, and a user who resumes always resumes.                           *)
RunnerFairness ==
  /\ WF_allVars(call = "executing" /\ EngineStep /\ UNCHANGED runnerVars)
  /\ \A s \in Step :
       WF_allVars(call = "executing" /\ AgentExit(s) /\ UNCHANGED runnerVars)

FairRunnerSpec == RunnerSpec /\ RunnerFairness

(***************************************************************************)
(*                              PROPERTIES                                  *)
(***************************************************************************)

(* Every variable of the runner keeps its type. *)
RunnerTypeOK ==
  /\ TypeOK
  /\ call \in Call
  /\ \A cp \in store : cp \in Checkpoint
  /\ origin \in Option(store)
  /\ runs <= MaxRuns

(* Work that is in the checkpoint is not done again: in an execution that   *)
(* was resumed, no step that was Completed in the checkpoint is launched,   *)
(* except a fallback step.                                                  *)
ResumeKeepsWork ==
  \A cp \in origin : \A s \in Step :
    cp.step_states[s] = "Completed" /\ s \notin FallbackTarget(wf) => launches[s] = 0

(* A stored verdict fits the states in its row, whatever workflows the row  *)
(* went through: a Completed row hides no step that failed or waits, and    *)
(* has no step without an entry but those held up by a dependency that      *)
(* ended otherwise; Failed and Aborted rows hold a failed one.              *)
HeldUp(w, states, s) ==
  \E d \in w.depends_on[s] : ~ Satisfied(d.condition, states[d.step_id])

StoredVerdictsHold ==
  \A cp \in store :
    IF cp.workflow_state = "Completed"
    THEN /\ \A id \in StepId : cp.step_states[id] \in {"Absent", "Completed", "Skipped"}
         /\ \A s \in Steps(cp.workflow) :
              cp.step_states[s] = "Absent" => HeldUp(cp.workflow, cp.step_states, s)
    ELSE \E id \in StepId : cp.step_states[id] = "Failed"

(* DownstreamSeesOutput through rows and resumes: an agent is sent what the *)
(* steps it depends on have completed with, be it in this execution or in   *)
(* one of those the row came from, if no edit ever lets another step write  *)
(* the variable.  Only for a step that completed before the resume the      *)
(* shared context of the runner comes first, with what another execution    *)
(* may have left in it.                                                     *)
SoleWriter(s, v) == \A w \in Workflows : \A t \in Steps(w) : v \in w.output_var[t] <=> t = s

ResumeSeesOutput ==
  [][\A s \in handles' \ handles :
       \A d \in wf.depends_on[s] : d.condition = "Success" =>
         \A v \in wf.output_var[d.step_id] :
           /\ SoleWriter(d.step_id, v)
           /\ launches[d.step_id] > 0 \/ shared[v] = NoOutput
           => Sees(s, d.step_id, v)]_allVars

(* A resumed execution returns if its checkpoint holds no step Running; an  *)
(* abort may leave some, and nothing ever ends them.                        *)
NoneRunning(cp) == \A id \in StepId : cp.step_states[id] # "Running"

ResumeReturns ==
  (call = "executing" /\ \E cp \in origin : NoneRunning(cp))
    ~> (call # "executing" \/ phase = "returned")

==============================================================================
