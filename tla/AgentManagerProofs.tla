------------------------- MODULE AgentManagerProofs -------------------------
(***************************************************************************)
(* What holds of the agent manager for any number of agents, any number of  *)
(* lines, and kills at any moment.                                          *)
(***************************************************************************)
EXTENDS AgentManager, TLAPS

(***************************************************************************)
(* One agent.  The parts say, in this order: what comes before the start;   *)
(* how the process, its exit and the result of run go together; what was    *)
(* announced; how many events there may be; what the closed channel says;   *)
(* and the registry.                                                        *)
(***************************************************************************)
Before(a) ==
  spawner[a] \in {"called", "announced", "failed"} =>
    /\ child[a] = "none" /\ exit[a] = "none" /\ result[a] = "none"
    /\ runner[a] = "none" /\ forwarder[a] = "none"
    /\ announced[a] \in {"none", "Running"}

Dead(a) == child[a] \in {"exited", "killed"}

ExitInv(a) ==
  /\ Dead(a) <=> exit[a] # "none"
  /\ result[a] \in {"zero", "nonzero"} => child[a] = "exited" /\ exit[a] = result[a]
  /\ result[a] = "signal" => Dead(a) \/ a \in unkilled
  /\ runner[a] \in {"none", "reading", "waiting"} <=> result[a] = "none"

EndInv(a) ==
  /\ announced[a] \notin {"none", "Running"} =>
       result[a] # "none" /\ announced[a] = EndState(result[a])
  /\ runner[a] \in {"reading", "waiting"} => spawner[a] \in {"started", "returned"}

EventInv(a) ==
  /\ forwarded[a] <= sent[a]
  /\ runner[a] \in {"none", "reading"} => sent[a] <= read[a]
  /\ runner[a] = "waiting" => sent[a] <= read[a] + 1

ClosedInv(a) ==
  forwarder[a] = "closed" =>
    forwarded[a] = sent[a] /\ runner[a] \in {"announcing", "removing", "done"}

RegistryInv(a) ==
  spawner[a] = "returned" /\ runner[a] \in {"reading", "waiting", "announcing"}
    => a \in agents

AgentInv(a) ==
  Before(a) /\ ExitInv(a) /\ EndInv(a) /\ EventInv(a) /\ ClosedInv(a) /\ RegistryInv(a)

ManagerInv == TypeOK /\ \A a \in Agent : AgentInv(a)

LEMMA ManagerInit == Init => ManagerInv
  BY ManagerAssumption
  DEF Init, ManagerInv, TypeOK, AgentInv, Before, Dead, ExitInv, EndInv, EventInv, ClosedInv,
      RegistryInv

LEMMA ChildKeeps ==
  ASSUME ManagerInv, NEW a \in Agent, Child(a) PROVE ManagerInv'
<1> USE ManagerAssumption
    DEF ManagerInv, TypeOK, AgentInv, Before, Dead, ExitInv, EndInv, EventInv, ClosedInv,
        RegistryInv, runnerVars, forwardVars, managerVars
<1>1. CASE ChildWrites(a)
  BY <1>1 DEF ChildWrites
<1>2. CASE ChildCloses(a)
  BY <1>2 DEF ChildCloses, Goto
<1>3. CASE ChildExits(a)
  BY <1>3 DEF ChildExits
<1> QED
  BY <1>1, <1>2, <1>3 DEF Child

LEMMA SpawnerKeeps ==
  ASSUME ManagerInv, NEW a \in Agent, Spawner(a) PROVE ManagerInv'
<1> USE ManagerAssumption
    DEF ManagerInv, TypeOK, AgentInv, Before, Dead, ExitInv, EndInv, EventInv, ClosedInv,
        RegistryInv, processVars, runnerVars, forwardVars
<1>1. CASE AnnounceRunning(a)
  BY <1>1 DEF AnnounceRunning, Goto
<1>2. CASE SpawnFails(a)
  BY <1>2 DEF SpawnFails, Goto
<1>3. CASE Start(a)
  BY <1>3 DEF Start, Goto
<1>4. CASE Register(a)
  BY <1>4 DEF Register, Goto
<1> QED
  BY <1>1, <1>2, <1>3, <1>4 DEF Spawner

LEMMA RunnerKeeps ==
  ASSUME ManagerInv, NEW a \in Agent, Runner(a) PROVE ManagerInv'
<1> USE ManagerAssumption
    DEF ManagerInv, TypeOK, AgentInv, Before, Dead, ExitInv, EndInv, EventInv, ClosedInv,
        RegistryInv, processVars, forwardVars, managerVars
<1>1. CASE ReadLine(a)
  BY <1>1 DEF ReadLine
<1>2. CASE ReadEnd(a)
  BY <1>2 DEF ReadEnd, Goto
<1>3. CASE ReadError(a)
  BY <1>3 DEF ReadError, Goto
<1>4. CASE Cancel(a)
  BY <1>4 DEF Cancel, kill, Goto
<1>5. CASE Wait(a)
  BY <1>5 DEF Wait, Goto
<1>6. CASE WaitFails(a)
  BY <1>6 DEF WaitFails, Goto
<1>7. CASE AnnounceEnd(a)
  BY <1>7 DEF AnnounceEnd, Goto, EndState
<1>8. CASE Remove(a)
  BY <1>8 DEF Remove, Goto
<1> QED
  BY <1>1, <1>2, <1>3, <1>4, <1>5, <1>6, <1>7, <1>8 DEF Runner

LEMMA ForwarderKeeps ==
  ASSUME ManagerInv, NEW a \in Agent, Forwarder(a) PROVE ManagerInv'
<1> USE ManagerAssumption
    DEF ManagerInv, TypeOK, AgentInv, Before, Dead, ExitInv, EndInv, EventInv, ClosedInv,
        RegistryInv, processVars, runnerVars, managerVars
<1>1. CASE Forward(a)
  BY <1>1 DEF Forward
<1>2. CASE CloseChannel(a)
  BY <1>2 DEF CloseChannel, Goto
<1> QED
  BY <1>1, <1>2 DEF Forwarder

LEMMA ManagerNext == ManagerInv /\ [Next]_vars => ManagerInv'
<1> SUFFICES ASSUME ManagerInv, [Next]_vars PROVE ManagerInv'
  OBVIOUS
<1>1. ASSUME NEW a \in Agent, Child(a) \/ Spawner(a) \/ Runner(a) \/ Forwarder(a)
      PROVE  ManagerInv'
  BY <1>1, ChildKeeps, SpawnerKeeps, RunnerKeeps, ForwarderKeeps
<1>2. ASSUME NEW killed \in SUBSET agents, cancelled' = cancelled \cup killed,
             UNCHANGED <<processVars, runnerVars, forwardVars, spawner, agents, announced>>
      PROVE  ManagerInv'
  BY <1>2 DEF ManagerInv, TypeOK, AgentInv, Before, Dead, ExitInv, EndInv, EventInv, ClosedInv,
     RegistryInv, processVars, runnerVars, forwardVars
<1>3. ASSUME NEW a \in Agent, kill_agent(a) PROVE ManagerInv'
  BY <1>3, <1>2 DEF kill_agent
<1>4. CASE kill_all
  BY <1>4, <1>2 DEF kill_all
<1>5. CASE UNCHANGED vars
  BY <1>5 DEF vars, ManagerInv, TypeOK, AgentInv, Before, Dead, ExitInv, EndInv, EventInv, ClosedInv,
     RegistryInv, processVars, runnerVars, forwardVars, managerVars
<1> QED
  BY <1>1, <1>3, <1>4, <1>5 DEF Next, Done

(* Every variable keeps its type, and no agent has more events than lines   *)
(* and the two that end it.                                                 *)
THEOREM ManagerTypeCorrect == Spec => []TypeOK
<1>1. ManagerInv => TypeOK
  BY DEF ManagerInv
<1> QED
  BY <1>1, ManagerInit, ManagerNext, PTL DEF Spec

(* A closed channel has delivered every event there was and will be.        *)
THEOREM CloseAlwaysComplete == Spec => []CloseMeansComplete
<1>1. ManagerInv => CloseMeansComplete
  BY DEF ManagerInv, AgentInv, ClosedInv, CloseMeansComplete
<1> QED
  BY <1>1, ManagerInit, ManagerNext, PTL DEF Spec

(* Whoever is announced as Completed or Failed has a process that ended so  *)
(* by itself, and whoever is announced as Killed has none any more, unless  *)
(* the system refused to kill it: on every path out of ClaudeProcess::run   *)
(* that announces an end, with kills at any moment, failing ones included.  *)
THEOREM NeverOrphans == Spec => []NoOrphans
<1>1. ASSUME ManagerInv, NEW a \in Agent
      PROVE  /\ announced[a] \in {"Completed", "Failed"} =>
                  child[a] = "exited" /\ announced[a] = EndState(exit[a])
             /\ announced[a] = "Killed" /\ a \notin unkilled => Dead(a)
  <2>1. AgentInv(a) /\ result[a] \in {"none", "zero", "nonzero", "signal", "error"}
    BY <1>1 DEF ManagerInv, TypeOK
  <2>2. announced[a] \in {"Completed", "Failed"} => result[a] \in {"zero", "nonzero"}
    BY <2>1 DEF AgentInv, EndInv, EndState
  <2>3. announced[a] = "Killed" => result[a] = "signal"
    BY <2>1 DEF AgentInv, EndInv, EndState
  <2> QED
    BY <2>1, <2>2, <2>3 DEF AgentInv, ExitInv, EndInv
<1>2. ManagerInv => NoOrphans
  BY <1>1 DEF NoOrphans, Dead
<1> QED
  BY <1>2, ManagerInit, ManagerNext, PTL DEF Spec

(* From the return of spawn_agent to the announcement of its end every      *)
(* agent can be reached by a kill.                                          *)
THEOREM RegistryAlwaysReaches == Spec => []RegistryReachesLive
<1>1. ManagerInv => RegistryReachesLive
  BY DEF ManagerInv, AgentInv, RegistryInv, RegistryReachesLive
<1> QED
  BY <1>1, ManagerInit, ManagerNext, PTL DEF Spec

==============================================================================
