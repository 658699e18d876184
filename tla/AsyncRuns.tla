----------------------------- MODULE AsyncRuns ------------------------------
(***************************************************************************)
(* ra-mcp/src/handler.rs `run_agents_async` with ra-core/src/run.rs: one    *)
(* run of several agents in the background, and the RunState that clients   *)
(* poll while it goes on.  (Runs share nothing but the map they are kept    *)
(* in, so one of them is enough.)                                           *)
(*                                                                          *)
(* Every definition gets a task of its own; a semaphore made for the run    *)
(* limits how many of them have an agent; the tasks write the RunState      *)
(* under its lock, each write being one action here.                        *)
(***************************************************************************)
EXTENDS Naturals, FiniteSets

CONSTANTS
  Agent,            \* the definitions in the "agents" array
  Name,             \* the names clients may give them
  MaxConcurrency    \* permits of the run's semaphore

ASSUME AsyncAssumption ==
  /\ IsFiniteSet(Agent)
  /\ MaxConcurrency \in Nat

VARIABLES
  named,      \* the name each definition has
  launcher,   \* the background task: spawning, joining, done
  task,       \* where the task of each definition stands
  outcome,    \* how the agent of each definition ended
  agents,     \* RunState.agents: the state under each name
  output,     \* RunState.agents: whose output is under each name, if any
  status,     \* RunState.status
  permits     \* free permits of the semaphore

vars == <<named, launcher, task, outcome, agents, output, status, permits>>

TaskState == {"defined", "spawned", "waiting", "working", "answered", "recorded", "finished"}
Outcome == {"none", "success", "error_result", "no_result"}
AgentState == {"Absent", "Pending", "Running", "Completed", "Failed"}
RunStatus == {"Running", "Completed", "Failed", "PartiallyCompleted"}

(* RunState::new and one entry for every name: definitions with the same    *)
(* name share it.                                                           *)
Init ==
  /\ named \in [Agent -> Name]
  /\ launcher = "spawning"
  /\ task = [a \in Agent |-> "defined"]
  /\ outcome = [a \in Agent |-> "none"]
  /\ agents = [n \in Name |-> IF \E a \in Agent : named[a] = n THEN "Pending" ELSE "Absent"]
  /\ output = [n \in Name |-> {}]
  /\ status = "Running"
  /\ permits = MaxConcurrency

(***************************************************************************)
(* RunState::update_status, as the status it leaves.                        *)
(***************************************************************************)
Entries(ag) == {n \in Name : ag[n] # "Absent"}

(* Slip: an agent that failed is not over.                                  *)
Slip_is_terminal(st) == st = "Completed"

is_terminal(st) == st \in {"Completed", "Failed"}

(* Slip: the run is over as soon as an agent is.                            *)
Slip_update_status(ag, old) ==
  IF \A n \in Entries(ag) : ~ is_terminal(ag[n]) THEN old
  ELSE IF \A n \in Entries(ag) : ag[n] = "Failed" THEN "Failed"
  ELSE IF \E n \in Entries(ag) : ag[n] = "Failed" THEN "PartiallyCompleted"
  ELSE "Completed"

update_status(ag, old) ==
  IF Entries(ag) = {} \/ \E n \in Entries(ag) : ~ is_terminal(ag[n]) THEN old
  ELSE IF \A n \in Entries(ag) : ag[n] = "Failed" THEN "Failed"
  ELSE IF \E n \in Entries(ag) : ag[n] = "Failed" THEN "PartiallyCompleted"
  ELSE "Completed"

(***************************************************************************)
(* The background task starts the others and then waits for all of them.    *)
(* Which definition comes first does not matter: any may be named anything. *)
(***************************************************************************)
SpawnTask(a) ==
  /\ launcher = "spawning"
  /\ task[a] = "defined"
  /\ task' = [task EXCEPT ![a] = "spawned"]
  /\ UNCHANGED <<named, launcher, outcome, agents, output, status, permits>>

StartJoining ==
  /\ launcher = "spawning"
  /\ \A a \in Agent : task[a] # "defined"
  /\ launcher' = "joining"
  /\ UNCHANGED <<named, task, outcome, agents, output, status, permits>>

FinalUpdate ==
  /\ launcher = "joining"
  /\ \A a \in Agent : task[a] = "finished"
  /\ launcher' = "done"
  /\ status' = update_status(agents, status)
  /\ UNCHANGED <<named, task, outcome, agents, output, permits>>

(***************************************************************************)
(* The task of definition a.                                                *)
(***************************************************************************)
MarkRunning(a) ==
  /\ task[a] = "spawned"
  /\ task' = [task EXCEPT ![a] = "waiting"]
  /\ agents' = [agents EXCEPT ![named[a]] = "Running"]
  /\ UNCHANGED <<named, launcher, outcome, output, status, permits>>

(* Slip: the permit is a temporary and is given back at once.               *)
Slip_AcquirePermit(a) ==
  /\ task[a] = "waiting"
  /\ permits > 0
  /\ task' = [task EXCEPT ![a] = "working"]
  /\ UNCHANGED <<named, launcher, outcome, agents, output, status, permits>>

AcquirePermit(a) ==
  /\ task[a] = "waiting"
  /\ permits > 0
  /\ permits' = permits - 1
  /\ task' = [task EXCEPT ![a] = "working"]
  /\ UNCHANGED <<named, launcher, outcome, agents, output, status>>

(* run_single_agent ends: with the agent's last result, be it an error, or  *)
(* with an Err when there was none.                                         *)
AgentEnds(a) ==
  /\ task[a] = "working"
  /\ task' = [task EXCEPT ![a] = "answered"]
  /\ \E o \in Outcome \ {"none"} : outcome' = [outcome EXCEPT ![a] = o]
  /\ UNCHANGED <<named, launcher, agents, output, status, permits>>

RecordedState(o) == IF o = "no_result" THEN "Failed" ELSE "Completed"

Record(a) ==
  /\ task[a] = "answered"
  /\ task' = [task EXCEPT ![a] = "recorded"]
  /\ agents' = [agents EXCEPT ![named[a]] = RecordedState(outcome[a])]
  /\ output' = IF outcome[a] = "no_result" THEN output
               ELSE [output EXCEPT ![named[a]] = {a}]
  /\ status' = update_status(agents', status)
  /\ UNCHANGED <<named, launcher, outcome, permits>>

Release(a) ==
  /\ task[a] = "recorded"
  /\ task' = [task EXCEPT ![a] = "finished"]
  /\ permits' = permits + 1
  /\ UNCHANGED <<named, launcher, outcome, agents, output, status>>

TaskStep(a) ==
  \/ SpawnTask(a)
  \/ MarkRunning(a)
  \/ AcquirePermit(a)
  \/ AgentEnds(a)
  \/ Record(a)
  \/ Release(a)

Done == launcher = "done" /\ UNCHANGED vars

Next ==
  \/ StartJoining
  \/ FinalUpdate
  \/ \E a \in Agent : TaskStep(a)
  \/ Done

Spec == Init /\ [][Next]_vars

(* tokio polls every task, its semaphore is fair, and agents end some day.  *)
Fairness ==
  /\ WF_vars(StartJoining)
  /\ WF_vars(FinalUpdate)
  /\ \A a \in Agent :
       /\ WF_vars(SpawnTask(a))
       /\ WF_vars(MarkRunning(a))
       /\ SF_vars(AcquirePermit(a))
       /\ WF_vars(AgentEnds(a))
       /\ WF_vars(Record(a))
       /\ WF_vars(Release(a))

FairSpec == Spec /\ Fairness

(***************************************************************************)
(*                              PROPERTIES                                  *)
(***************************************************************************)

(* Every variable keeps its type. *)
TypeOK ==
  /\ named \in [Agent -> Name]
  /\ launcher \in {"spawning", "joining", "done"}
  /\ task \in [Agent -> TaskState]
  /\ outcome \in [Agent -> Outcome]
  /\ agents \in [Name -> AgentState]
  /\ output \in [Name -> SUBSET Agent]
  /\ status \in RunStatus
  /\ permits \in 0 .. MaxConcurrency

(* A status other than Running is the truth about all agents of the run,    *)
(* those it has not spawned included: everyone's end is recorded, and the   *)
(* status is Completed, Failed or PartiallyCompleted according to whether   *)
(* none, all or some of them ended without a result; and everyone's result  *)
(* is there to be fetched.                                                  *)
DistinctNames == \A a, b \in Agent : named[a] = named[b] => a = b

Ended(a) == task[a] \in {"recorded", "finished"}
FailedAgents == {a \in Agent : outcome[a] = "no_result"}
Verdict == IF FailedAgents = Agent THEN "Failed"
           ELSE IF FailedAgents # {} THEN "PartiallyCompleted"
           ELSE "Completed"

HonestStatus ==
  status # "Running" =>
    /\ \A a \in Agent : Ended(a)
    /\ status = Verdict
    /\ \A a \in Agent : outcome[a] # "no_result" => output[named[a]] = {a}

StatusIsHonest == DistinctNames => HonestStatus

(* A client that saw the run over never sees it change again.               *)
StatusIsFinal == [][DistinctNames /\ status # "Running" => status' = status]_vars

(* No more agents than permits at a time, however tasks are scheduled.      *)
Holding == {a \in Agent : task[a] \in {"working", "answered", "recorded"}}
LimitRespected == Cardinality(Holding) <= MaxConcurrency

(* A client that polls sees the run end, if it has an agent and a permit.   *)
RunEnds == Agent # {} /\ MaxConcurrency > 0 => <>(status # "Running")

(***************************************************************************)
(* What the documentation says and the code does not do.                    *)
(***************************************************************************)

(* "Check if all agents are done": also when two agents have one name.      *)
DoneMeansAllDone == status # "Running" => \A a \in Agent : Ended(a)

==============================================================================
