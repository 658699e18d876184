----------------------------- MODULE Broadcaster -----------------------------
(***************************************************************************)
(* How the events of the agents leave the MCP server: the broadcast channel *)
(* of ra-mcp/src/main.rs, the two tasks of ra-mcp/src/ipc_broadcaster.rs,   *)
(* and the socket of each client.                                           *)
(*                                                                          *)
(* Two kinds of agents send.  The agent of a workflow step is spawned on    *)
(* the global channel: its start and its end are announced there by the     *)
(* tasks of ra-engine/src/agent_manager.rs.  An ad-hoc agent                *)
(* (runner.rs: run_single_agent) has a channel of its own for those, and    *)
(* only the events of its process are passed on to the global one.          *)
(***************************************************************************)
EXTENDS Naturals, Sequences, FiniteSets, SequencesExt

CONSTANTS
  StepAgents,   \* the agents of workflow steps
  SingleAgents, \* the agents of run_single_agent
  Output,       \* the events of each agent's process, in order
  Ends,         \* the ways an agent of a step may end
  Clients,      \* the connections that may be made to the socket
  Setups,       \* what of all this is there in one execution
  Capacity,     \* the capacity of the broadcast channel, 1024 in the code
  SocketSize    \* the lines that fit between a write and the client's read

Agents == StepAgents \cup SingleAgents
OutputKind == {"line", "quiet", "metrics", "exited"}
EndKind == {"Completed", "Failed", "Killed", "error"}
EventKind == OutputKind \cup EndKind \cup {"running"}

ASSUME BroadcasterAssumption ==
  /\ StepAgents \cap SingleAgents = {}
  /\ Output \in [Agents -> Seq(OutputKind)]
  /\ Ends \subseteq EndKind /\ Ends # {}
  /\ \A s \in Setups : s.agents \subseteq Agents /\ s.clients \subseteq Clients
  /\ Capacity \in Nat \ {0}
  /\ SocketSize \in Nat \ {0}

VARIABLES
  setup,       \* the agents, the clients and the user of this execution
  started,     \* the agents that were spawned
  forwarded,   \* how many events of its process were passed on, per agent
  ended,       \* the agents whose end was announced
  overtaken,   \* history: those whose end was announced before their events
  sent,        \* history: how many events were sent on the channel
  event_rx,    \* what the broadcaster has still to receive
  lagged,      \* the channel dropped something it had not received
  bc,          \* where the forwarding task stands
  line,        \* the event it writes to the clients
  pos,         \* the client it writes to
  clients,     \* clients: the accepted streams
  disconnected,\* disconnected: indices of streams that failed
  backlog,     \* connections the accept task has not taken yet
  conn,        \* each connection as its client sees it
  sock         \* what was written to a client and not read by it

agentVars == <<setup, started, forwarded, ended, overtaken>>
channelVars == <<sent, event_rx, lagged>>
taskVars == <<bc, line, pos, disconnected>>
clientVars == <<backlog, conn>>
serverVars == <<agentVars, channelVars, taskVars, clients, clientVars, sock>>

NoEvent == [n |-> 0, agent |-> "none", kind |-> "none"]

BroadcasterInit ==
  /\ setup \in Setups
  /\ started = {}
  /\ forwarded = [a \in Agents |-> 0]
  /\ ended = {}
  /\ overtaken = {}
  /\ sent = 0
  /\ event_rx = <<>>
  /\ lagged = FALSE
  /\ bc = "recv"
  /\ line = NoEvent
  /\ pos = 0
  /\ clients = <<>>
  /\ disconnected = <<>>
  /\ backlog = {}
  /\ conn = [c \in Clients |-> "out"]
  /\ sock = [c \in Clients |-> <<>>]

(***************************************************************************)
(* broadcast::Sender::send.  A full channel forgets its oldest event and    *)
(* the receiver learns that it lagged.  Without a receiver nothing happens. *)
(***************************************************************************)
Send(a, kind) ==
  LET event == [n |-> sent + 1, agent |-> a, kind |-> kind]
      all == Append(event_rx, event)
  IN  /\ sent' = sent + 1
      /\ IF bc = "ended"
         THEN UNCHANGED <<event_rx, lagged>>
         ELSE IF Len(event_rx) < Capacity
         THEN event_rx' = all /\ UNCHANGED lagged
         ELSE event_rx' = Tail(all) /\ lagged' = TRUE

(* spawn_agent announces the start of a step's agent.                       *)
SpawnStep(a) ==
  /\ a \in (StepAgents \cap setup.agents) \ started
  /\ started' = started \cup {a}
  /\ Send(a, "running")
  /\ UNCHANGED <<setup, forwarded, ended, overtaken, taskVars, clients, clientVars, sock>>

(* run_single_agent: the start is announced on a channel of its own.        *)
SpawnSingle(a) ==
  /\ a \in (SingleAgents \cap setup.agents) \ started
  /\ started' = started \cup {a}
  /\ UNCHANGED <<setup, forwarded, ended, overtaken, channelVars, taskVars, clients,
                 clientVars, sock>>

(* The forwarder task, or the loop of run_single_agent, passes on the next  *)
(* event of the process.                                                    *)
Forward(a) ==
  /\ a \in started
  /\ forwarded[a] < Len(Output[a])
  /\ forwarded' = [forwarded EXCEPT ![a] = @ + 1]
  /\ Send(a, Output[a][forwarded[a] + 1])
  /\ UNCHANGED <<setup, started, ended, overtaken, taskVars, clients, clientVars, sock>>

(* The runner task announces the end once the process is gone.  It is not   *)
(* the task that forwards, which may be behind by any number of events.     *)
Announce(a) ==
  /\ a \in (StepAgents \cap started) \ ended
  /\ ended' = ended \cup {a}
  /\ overtaken' = IF forwarded[a] < Len(Output[a]) THEN overtaken \cup {a} ELSE overtaken
  /\ \E kind \in Ends : Send(a, kind)
  /\ UNCHANGED <<setup, started, forwarded, taskVars, clients, clientVars, sock>>

(***************************************************************************)
(* The forwarding task of IpcBroadcaster::start: receive, take the lock of  *)
(* the client list, write to one client after the other, forget those that  *)
(* failed, give the lock back.                                              *)
(***************************************************************************)
(* Slip: a lag is skipped, and the loop goes on with what is left.          *)
Slip_Receive ==
  /\ bc = "recv"
  /\ event_rx # <<>>
  /\ line' = Head(event_rx)
  /\ event_rx' = Tail(event_rx)
  /\ pos' = 1
  /\ disconnected' = <<>>
  /\ lagged' = FALSE
  /\ bc' = "writing"
  /\ UNCHANGED <<agentVars, sent, clients, clientVars, sock>>

Receive ==
  /\ bc = "recv"
  /\ ~ lagged
  /\ event_rx # <<>>
  /\ line' = Head(event_rx)
  /\ event_rx' = Tail(event_rx)
  /\ pos' = 1
  /\ disconnected' = <<>>
  /\ bc' = "writing"
  /\ UNCHANGED <<agentVars, sent, lagged, clients, clientVars, sock>>

(* `while let Ok` ends with the first Lagged: the receiver is gone, the     *)
(* clients stay connected.                                                  *)
ReceiveLagged ==
  /\ bc = "recv"
  /\ lagged
  /\ bc' = "ended"
  /\ event_rx' = <<>>
  /\ UNCHANGED <<agentVars, sent, lagged, line, pos, disconnected, clients,
                 clientVars, sock>>

(* What a client gets of an event, after both conversions: AgentEvent to    *)
(* IpcEvent keeps the text of a message as it is printed, which is never    *)
(* empty, so an assistant message without text comes out as one with text.  *)
over_ipc(event) ==
  [event EXCEPT !.kind = IF @ = "quiet" THEN "line" ELSE @]

(* Slip: a failing write is not remembered, and the client stays; nothing   *)
(* of the rest is written either.                                           *)
Slip_WriteTo(c) ==
  /\ bc = "writing"
  /\ pos <= Len(clients)
  /\ clients[pos] = c
  /\ \/ /\ conn[c] = "gone"
        /\ pos' = Len(clients) + 1
        /\ UNCHANGED <<disconnected, sock>>
     \/ /\ conn[c] = "up"
        /\ Len(sock[c]) < SocketSize
        /\ pos' = pos + 1
        /\ sock' = [sock EXCEPT ![c] = Append(@, over_ipc(line))]
        /\ UNCHANGED disconnected
  /\ UNCHANGED <<agentVars, channelVars, bc, line, clients, clientVars>>

(* write_all to the client at pos: an error if it closed its end, and a     *)
(* wait, with the lock held, as long as nothing more fits.                  *)
WriteTo(c) ==
  /\ bc = "writing"
  /\ pos <= Len(clients)
  /\ clients[pos] = c
  /\ pos' = pos + 1
  /\ \/ /\ conn[c] = "gone"
        /\ disconnected' = Append(disconnected, pos)
        /\ UNCHANGED sock
     \/ /\ conn[c] = "up"
        /\ Len(sock[c]) < SocketSize
        /\ sock' = [sock EXCEPT ![c] = Append(@, over_ipc(line))]
        /\ UNCHANGED disconnected
  /\ UNCHANGED <<agentVars, channelVars, bc, line, clients, clientVars>>

(* Vec::remove for each of the indices, in the order given.                 *)
RemoveEach(list, indices) ==
  LET left[k \in 0 .. Len(indices)] ==
        IF k = 0 THEN list ELSE RemoveAt(left[k - 1], indices[k])
  IN  left[Len(indices)]

(* Slip: the indices are removed in the order they were found in, and a     *)
(* remove out of bounds would panic; what is there is removed.              *)
Slip_EndWrite ==
  /\ bc = "writing"
  /\ pos > Len(clients)
  /\ clients' = FoldLeft(LAMBDA l, i : IF i <= Len(l) THEN RemoveAt(l, i) ELSE l,
                         clients, disconnected)
  /\ bc' = "recv"
  /\ line' = NoEvent
  /\ pos' = 0
  /\ disconnected' = <<>>
  /\ UNCHANGED <<agentVars, channelVars, clientVars, sock>>

EndWrite ==
  /\ bc = "writing"
  /\ pos > Len(clients)
  /\ clients' = RemoveEach(clients, Reverse(disconnected))
  /\ bc' = "recv"
  /\ line' = NoEvent
  /\ pos' = 0
  /\ disconnected' = <<>>
  /\ UNCHANGED <<agentVars, channelVars, clientVars, sock>>

BroadcasterTask ==
  \/ Receive
  \/ ReceiveLagged
  \/ \E c \in Clients : WriteTo(c)
  \/ EndWrite

(* Whether client c could be pushed to the list: the lock is free.          *)
Acceptable(c) == c \in backlog /\ bc # "writing"

(* A client hangs up.                                                       *)
HangUp(c) ==
  /\ conn' = [conn EXCEPT ![c] = "gone"]
  /\ sock' = [sock EXCEPT ![c] = <<>>]

Producers ==
  \E a \in Agents : SpawnStep(a) \/ SpawnSingle(a) \/ Forward(a) \/ Announce(a)

(***************************************************************************)
(*                              PROPERTIES                                  *)
(***************************************************************************)
Event == [n : Nat, agent : Agents, kind : EventKind]

BroadcasterTypeOK ==
  /\ setup \in Setups
  /\ started \subseteq Agents
  /\ forwarded \in [Agents -> Nat]
  /\ ended \subseteq StepAgents /\ overtaken \subseteq ended
  /\ sent \in Nat
  /\ event_rx \in Seq(Event) /\ Len(event_rx) <= Capacity
  /\ lagged \in BOOLEAN
  /\ bc \in {"recv", "writing", "ended"}
  /\ line \in Event \cup {NoEvent}
  /\ pos \in 0 .. Len(clients) + 1
  /\ clients \in Seq(Clients) /\ IsInjective(clients)
  /\ disconnected \in Seq(1 .. Len(clients))
  /\ backlog \subseteq Clients
  /\ conn \in [Clients -> {"out", "up", "gone"}]
  /\ sock \in [Clients -> Seq(Event)]
  /\ \A c \in Clients : Len(sock[c]) <= SocketSize

==============================================================================
