---------------------------- MODULE AgentManager ----------------------------
(***************************************************************************)
(* ra-engine/src/agent_manager.rs with ra-engine/src/process.rs: for every  *)
(* agent a claude process, the task that reads its output (the runner), the *)
(* task that passes its events on (the forwarder), and the registry of live *)
(* agents that kill_agent and kill_all work on.                             *)
(*                                                                          *)
(* Pipes and channels are FIFO and lose nothing, so what is in them is told *)
(* by counting what went in and what came out.  A line and the events it    *)
(* gives rise to count as one.                                              *)
(***************************************************************************)
EXTENDS Naturals

CONSTANTS
  Agent,      \* the agents given to spawn_agent
  MaxLines    \* bound on the lines an agent prints

ASSUME ManagerAssumption == MaxLines \in Nat

VARIABLES
  spawner,     \* where the call of spawn_agent stands
  child,       \* the process
  exit,        \* how the process ended
  written,     \* lines the process has printed
  read,        \* lines the runner has read
  runner,      \* where the runner task stands
  result,      \* what ClaudeProcess::run returned
  sent,        \* events given to the forwarder
  forwarded,   \* events passed on to the caller and to the broadcast channel
  forwarder,   \* the forwarder task; the caller's channel closes with it
  announced,   \* the state of the agent the broadcast channel was last told
  agents,      \* the registry
  cancelled,   \* agents whose token is cancelled
  unkilled     \* history: agents whose kill failed

processVars == <<child, exit, written, unkilled>>
runnerVars  == <<read, runner, result, sent>>
forwardVars == <<forwarded, forwarder>>
managerVars == <<spawner, agents, cancelled>>
vars == <<processVars, runnerVars, forwardVars, managerVars, announced>>

Init ==
  /\ spawner = [a \in Agent |-> "called"]
  /\ child = [a \in Agent |-> "none"]
  /\ exit = [a \in Agent |-> "none"]
  /\ written = [a \in Agent |-> 0]
  /\ read = [a \in Agent |-> 0]
  /\ runner = [a \in Agent |-> "none"]
  /\ sent = [a \in Agent |-> 0]
  /\ forwarded = [a \in Agent |-> 0]
  /\ forwarder = [a \in Agent |-> "none"]
  /\ announced = [a \in Agent |-> "none"]
  /\ agents = {}
  /\ cancelled = {}
  /\ result = [a \in Agent |-> "none"]
  /\ unkilled = {}

Goto(x, a, from, to) == x[a] = from /\ x' = [x EXCEPT ![a] = to]

(***************************************************************************)
(* spawn_agent: tell everybody that the agent runs, start its process and   *)
(* the two tasks, and only then enter it in the registry.                   *)
(***************************************************************************)
AnnounceRunning(a) ==
  /\ Goto(spawner, a, "called", "announced")
  /\ announced' = [announced EXCEPT ![a] = "Running"]
  /\ UNCHANGED <<processVars, runnerVars, forwardVars, agents, cancelled>>

SpawnFails(a) ==
  /\ Goto(spawner, a, "announced", "failed")
  /\ UNCHANGED <<processVars, runnerVars, forwardVars, agents, cancelled, announced>>

Start(a) ==
  /\ Goto(spawner, a, "announced", "started")
  /\ child' = [child EXCEPT ![a] = "running"]
  /\ runner' = [runner EXCEPT ![a] = "reading"]
  /\ forwarder' = [forwarder EXCEPT ![a] = "open"]
  /\ UNCHANGED <<exit, written, unkilled, read, result, sent, forwarded, agents,
                 cancelled, announced>>

Register(a) ==
  /\ Goto(spawner, a, "started", "returned")
  /\ agents' = agents \cup {a}
  /\ UNCHANGED <<processVars, runnerVars, forwardVars, cancelled, announced>>

(***************************************************************************)
(* The claude process: it prints lines, may close its standard output while *)
(* it lives on, and exits.  It may also hang: its standard error is a pipe  *)
(* that nobody reads.                                                       *)
(***************************************************************************)
ChildWrites(a) ==
  /\ child[a] = "running"
  /\ written[a] < MaxLines
  /\ written' = [written EXCEPT ![a] = @ + 1]
  /\ UNCHANGED <<child, exit, unkilled, runnerVars, forwardVars, managerVars, announced>>

ChildCloses(a) ==
  /\ Goto(child, a, "running", "closed")
  /\ UNCHANGED <<exit, written, unkilled, runnerVars, forwardVars, managerVars, announced>>

ChildExits(a) ==
  /\ child[a] \in {"running", "closed"}
  /\ child' = [child EXCEPT ![a] = "exited"]
  /\ \E code \in {"zero", "nonzero", "signal"} : exit' = [exit EXCEPT ![a] = code]
  /\ UNCHANGED <<written, unkilled, runnerVars, forwardVars, managerVars, announced>>

(***************************************************************************)
(* The runner: ClaudeProcess::run, then the end of the agent.               *)
(***************************************************************************)

(* A line is read; one that does not parse gives no event.                  *)
ReadLine(a) ==
  /\ runner[a] = "reading"
  /\ read[a] < written[a]
  /\ read' = [read EXCEPT ![a] = @ + 1]
  /\ sent' \in {sent, [sent EXCEPT ![a] = @ + 1]}
  /\ UNCHANGED <<processVars, runner, result, forwardVars, managerVars, announced>>

(* Slip: the agent is taken out of the registry before its child is waited for. *)
Slip_ReadEnd(a) ==
  /\ Goto(runner, a, "reading", "waiting")
  /\ child[a] # "running"
  /\ read[a] = written[a]
  /\ agents' = agents \ {a}
  /\ UNCHANGED <<processVars, read, result, sent, forwardVars, spawner, cancelled, announced>>

ReadEnd(a) ==
  /\ Goto(runner, a, "reading", "waiting")
  /\ child[a] # "running"
  /\ read[a] = written[a]
  /\ UNCHANGED <<processVars, read, result, sent, forwardVars, managerVars, announced>>

ReadError(a) ==
  /\ Goto(runner, a, "reading", "waiting")
  /\ sent' = [sent EXCEPT ![a] = @ + 1]
  /\ UNCHANGED <<processVars, read, result, forwardVars, managerVars, announced>>

(* child.kill() sends the signal and waits for the process.  It may fail,   *)
(* and the process goes on.                                                 *)
kill(a) ==
  /\ \/ /\ child' = [child EXCEPT ![a] = IF @ = "exited" THEN @ ELSE "killed"]
        /\ exit' = [exit EXCEPT ![a] = IF child[a] = "exited" THEN @ ELSE "signal"]
        /\ UNCHANGED unkilled
     \/ /\ unkilled' = unkilled \cup {a}
        /\ UNCHANGED <<child, exit>>
  /\ UNCHANGED written

(* Slip: the token is looked at when a line comes in.                       *)
Slip_Cancel(a) ==
  /\ Goto(runner, a, "reading", "announcing")
  /\ a \in cancelled
  /\ read[a] < written[a]
  /\ kill(a)
  /\ result' = [result EXCEPT ![a] = "signal"]
  /\ UNCHANGED <<read, sent, forwardVars, managerVars, announced>>

(* Slip: the loop is left without killing the child.                        *)
Slip_Cancel_only(a) ==
  /\ Goto(runner, a, "reading", "announcing")
  /\ a \in cancelled
  /\ result' = [result EXCEPT ![a] = "signal"]
  /\ UNCHANGED <<processVars, read, sent, forwardVars, managerVars, announced>>

(* The token is cancelled: kill the child and return -1, whatever became of *)
(* the kill.  What the child printed and was not read is lost, and there is *)
(* no ProcessExited event.                                                  *)
Cancel(a) ==
  /\ Goto(runner, a, "reading", "announcing")
  /\ a \in cancelled
  /\ kill(a)
  /\ result' = [result EXCEPT ![a] = "signal"]
  /\ UNCHANGED <<read, sent, forwardVars, managerVars, announced>>

(* After the end of its output the child is waited for, come what may.      *)
Wait(a) ==
  /\ Goto(runner, a, "waiting", "announcing")
  /\ child[a] = "exited"
  /\ result' = [result EXCEPT ![a] = exit[a]]
  /\ sent' = [sent EXCEPT ![a] = @ + 1]
  /\ UNCHANGED <<processVars, read, forwardVars, managerVars, announced>>

(* Waiting for the child may fail: run ends with an Err.                    *)
WaitFails(a) ==
  /\ Goto(runner, a, "waiting", "announcing")
  /\ result' = [result EXCEPT ![a] = "error"]
  /\ UNCHANGED <<processVars, read, sent, forwardVars, managerVars, announced>>

(* A child without an exit code and a cancelled one both count as killed.   *)
(* After an Err an error is announced, and no state.                        *)
EndState(code) ==
  CASE code = "zero" -> "Completed" [] code = "nonzero" -> "Failed"
    [] code = "signal" -> "Killed"  [] code = "error" -> "Error"

AnnounceEnd(a) ==
  /\ Goto(runner, a, "announcing", "removing")
  /\ announced' = [announced EXCEPT ![a] = EndState(result[a])]
  /\ UNCHANGED <<processVars, read, result, sent, forwardVars, managerVars>>

Remove(a) ==
  /\ Goto(runner, a, "removing", "done")
  /\ agents' = agents \ {a}
  /\ UNCHANGED <<processVars, read, result, sent, forwardVars, spawner, cancelled, announced>>

(***************************************************************************)
(* The forwarder: it ends when the runner has dropped its sender and the    *)
(* channel is empty.                                                        *)
(***************************************************************************)
(* Slip: the forwarder does not wait for events.                            *)
Slip_Forward(a) ==
  /\ forwarder[a] = "open"
  /\ forwarded' = [forwarded EXCEPT ![a] = @ + 1]
  /\ UNCHANGED <<processVars, runnerVars, forwarder, managerVars, announced>>

Forward(a) ==
  /\ forwarder[a] = "open"
  /\ forwarded[a] < sent[a]
  /\ forwarded' = [forwarded EXCEPT ![a] = @ + 1]
  /\ UNCHANGED <<processVars, runnerVars, forwarder, managerVars, announced>>

(* Slip: the forwarder ends with the process.                               *)
Slip_CloseChannel(a) ==
  /\ Goto(forwarder, a, "open", "closed")
  /\ runner[a] \in {"announcing", "removing", "done"}
  /\ UNCHANGED <<processVars, runnerVars, forwarded, managerVars, announced>>

CloseChannel(a) ==
  /\ Goto(forwarder, a, "open", "closed")
  /\ runner[a] \in {"announcing", "removing", "done"}
  /\ forwarded[a] = sent[a]
  /\ UNCHANGED <<processVars, runnerVars, forwarded, managerVars, announced>>

(***************************************************************************)
(* kill_agent and kill_all.                                                 *)
(***************************************************************************)
kill_agent(a) ==
  /\ a \in agents
  /\ cancelled' = cancelled \cup {a}
  /\ UNCHANGED <<processVars, runnerVars, forwardVars, spawner, agents, announced>>

kill_all ==
  /\ agents # {}
  /\ cancelled' = cancelled \cup agents
  /\ UNCHANGED <<processVars, runnerVars, forwardVars, spawner, agents, announced>>

Child(a) == ChildWrites(a) \/ ChildCloses(a) \/ ChildExits(a)
Spawner(a) == AnnounceRunning(a) \/ SpawnFails(a) \/ Start(a) \/ Register(a)
Runner(a) ==
  \/ ReadLine(a)
  \/ ReadEnd(a)
  \/ ReadError(a)
  \/ Cancel(a)
  \/ Wait(a)
  \/ WaitFails(a)
  \/ AnnounceEnd(a)
  \/ Remove(a)
Forwarder(a) == Forward(a) \/ CloseChannel(a)

(* Nothing needs to happen any more, though agents may still be killed.     *)
Done ==
  /\ \A a \in Agent : spawner[a] = "failed" \/ (runner[a] = "done" /\ spawner[a] = "returned"
                                                 /\ forwarder[a] = "closed")
  /\ UNCHANGED vars

Next ==
  \/ \E a \in Agent : Child(a) \/ Spawner(a) \/ Runner(a) \/ Forwarder(a) \/ kill_agent(a)
  \/ kill_all
  \/ Done

Spec == Init /\ [][Next]_vars

(* The tasks are polled, and the select in the runner does not always take  *)
(* the same side.  Reading never has to fail, and the claude process owes   *)
(* us nothing.                                                              *)
Fairness ==
  \A a \in Agent :
    /\ WF_vars(Spawner(a))
    /\ WF_vars(ReadLine(a) \/ ReadEnd(a) \/ Wait(a) \/ AnnounceEnd(a) \/ Remove(a))
    /\ SF_vars(Cancel(a))
    /\ WF_vars(Forwarder(a))

FairSpec == Spec /\ Fairness

(***************************************************************************)
(*                              PROPERTIES                                  *)
(***************************************************************************)

(* Every variable keeps its type, and the counters their order. *)
TypeOK ==
  /\ spawner \in [Agent -> {"called", "announced", "started", "returned", "failed"}]
  /\ child \in [Agent -> {"none", "running", "closed", "exited", "killed"}]
  /\ exit \in [Agent -> {"none", "zero", "nonzero", "signal"}]
  /\ written \in [Agent -> 0 .. MaxLines]
  /\ read \in [Agent -> 0 .. MaxLines]
  /\ runner \in [Agent -> {"none", "reading", "waiting", "announcing", "removing", "done"}]
  /\ result \in [Agent -> {"none", "zero", "nonzero", "signal", "error"}]
  /\ sent \in [Agent -> 0 .. MaxLines + 2]
  /\ forwarded \in [Agent -> 0 .. MaxLines + 2]
  /\ forwarder \in [Agent -> {"none", "open", "closed"}]
  /\ announced \in [Agent -> {"none", "Running", "Completed", "Failed", "Killed", "Error"}]
  /\ agents \subseteq Agent
  /\ cancelled \subseteq Agent
  /\ unkilled \subseteq cancelled

(* When the caller sees the channel close it has seen every event, and no   *)
(* other will come: execute may judge the step by what it has read.         *)
CloseMeansComplete ==
  \A a \in Agent : forwarder[a] = "closed" =>
    /\ forwarded[a] = sent[a]
    /\ runner[a] \notin {"reading", "waiting"}

(* No process outlives the announcement of its agent's end, but one that    *)
(* could not be killed; and an agent is announced as Completed or Failed    *)
(* only if its process ended so by itself.  (When waiting for the process   *)
(* fails an error is announced and no end.)                                 *)
NoOrphans ==
  \A a \in Agent :
    /\ announced[a] \in {"Completed", "Failed"} =>
         child[a] = "exited" /\ announced[a] = EndState(exit[a])
    /\ announced[a] = "Killed" /\ a \notin unkilled =>
         child[a] \in {"exited", "killed"}

(* The registry misses no agent that kill_agent and kill_all should reach:  *)
(* from the return of spawn_agent to the end of the agent it is in there.   *)
RegistryReachesLive ==
  \A a \in Agent :
    spawner[a] = "returned" /\ runner[a] \in {"reading", "waiting", "announcing"}
      => a \in agents

(* Killing an agent that is being read, hanging or not, ends it, unless the *)
(* end of its output comes first or reading fails.                          *)
KillEndsReading ==
  \A a \in Agent :
    (a \in cancelled /\ runner[a] = "reading")
      ~> (runner[a] = "done" \/ runner[a] = "waiting")

==============================================================================
