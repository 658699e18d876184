------------------------------ MODULE Dashboard ------------------------------
(***************************************************************************)
(* A dashboard on the event stream of the server: the reader task of        *)
(* ra-observe/src/ipc_client.rs, the collector of metrics_collector.rs and  *)
(* the screen of dashboard.rs, composed with the server of Broadcaster.     *)
(*                                                                          *)
(* Dashboards share nothing but the server, so one of them is followed      *)
(* from the socket to the screen; of the others, the peers, it matters      *)
(* only when they connect, read and hang up.  The cost of an agent is 1,    *)
(* and it is known from its first metrics event on.                         *)
(***************************************************************************)
EXTENDS Broadcaster

CONSTANTS
  Watched,         \* the client whose dashboard is followed
  FeedCapacity,    \* the capacity of the client's own channel, 512 in the code
  MAX_LOG_ENTRIES  \* 500 in the code

ASSUME DashboardAssumption ==
  /\ Watched \in Clients
  /\ FeedCapacity \in Nat \ {0}
  /\ MAX_LOG_ENTRIES \in Nat

VARIABLES
  feed,             \* what the collector has still to receive
  feed_lagged,      \* the channel dropped something it had not received
  collector,        \* the collector's task
  agent_metrics,    \* agent_metrics: the agents with an entry
  workflow_metrics, \* workflow_metrics
  event_log,        \* event_log.len()
  last,             \* history: the number of the last event handled
  seen,             \* history: the agents whose end was handled
  tab, log_scroll, selected_agent,  \* DashboardState
  data,             \* the lengths in the snapshot that is on the screen
  taking            \* the next snapshot is being taken

Peers == Clients \ {Watched}
feedVars == <<feed, feed_lagged>>
collectorVars == <<agent_metrics, workflow_metrics, event_log, last, seen>>
screenVars == <<tab, log_scroll, selected_agent, data, taking>>
dashVars == <<feedVars, collector, collectorVars, screenVars>>
vars == <<serverVars, dashVars>>

NoMetrics == [completed |-> 0, failed |-> 0, cost |-> 0]

Init ==
  /\ BroadcasterInit
  /\ feed = <<>>
  /\ feed_lagged = FALSE
  /\ collector = "running"
  /\ agent_metrics = {}
  /\ workflow_metrics = NoMetrics
  /\ event_log = 0
  /\ last = 0
  /\ seen = {}
  /\ tab = "Overview"
  /\ log_scroll = 0
  /\ selected_agent = 0
  /\ data = [agents |-> 0, events |-> 0]
  /\ taking = FALSE

ServerStep ==
  /\ Producers \/ BroadcasterTask
  /\ UNCHANGED dashVars

Connect(c) ==
  /\ c \in setup.clients
  /\ conn[c] = "out"
  /\ conn' = [conn EXCEPT ![c] = "up"]
  /\ backlog' = backlog \cup {c}
  /\ UNCHANGED <<agentVars, channelVars, taskVars, clients, sock, dashVars>>

(* The number of the last event the forwarding task took.                   *)
taken == IF event_rx = <<>> THEN sent ELSE Head(event_rx).n - 1

(* The accept task: what is sent to the list of clients from now on is what *)
(* this client gets.                                                        *)
Accept(c) ==
  /\ Acceptable(c)
  /\ backlog' = backlog \ {c}
  /\ clients' = Append(clients, c)
  /\ last' = IF c = Watched THEN taken ELSE last
  /\ UNCHANGED <<agentVars, channelVars, taskVars, conn, sock, feedVars, collector,
                 agent_metrics, workflow_metrics, event_log, seen, screenVars>>

PeerRead(c) ==
  /\ c \in Peers
  /\ sock[c] # <<>>
  /\ sock' = [sock EXCEPT ![c] = Tail(@)]
  /\ UNCHANGED <<agentVars, channelVars, taskVars, clients, clientVars, dashVars>>

PeerQuit(c) ==
  /\ c \in Peers
  /\ conn[c] = "up"
  /\ HangUp(c)
  /\ UNCHANGED <<agentVars, channelVars, taskVars, clients, backlog, dashVars>>

(***************************************************************************)
(* The reader task: one line from the socket into the collector's channel.  *)
(* It never waits for the collector.                                        *)
(***************************************************************************)
ReadLine ==
  /\ conn[Watched] = "up"
  /\ sock[Watched] # <<>>
  /\ sock' = [sock EXCEPT ![Watched] = Tail(@)]
  /\ LET all == Append(feed, Head(sock[Watched]))
     IN  IF collector = "ended"
         THEN UNCHANGED feedVars
         ELSE IF Len(feed) < FeedCapacity
         THEN feed' = all /\ UNCHANGED feed_lagged
         ELSE feed' = Tail(all) /\ feed_lagged' = TRUE
  /\ UNCHANGED <<agentVars, channelVars, taskVars, clients, clientVars, collector,
                 collectorVars, screenVars>>

(***************************************************************************)
(* MetricsCollector::handle_event.                                          *)
(***************************************************************************)
is_terminal(kind) == kind \in {"Completed", "Failed", "Killed"}

(* What ends up in the log: everything but metrics and messages without     *)
(* text.                                                                    *)
is_logged(kind) == kind \notin {"metrics", "quiet"}

(* Slip: the log is cut back before the entry is added, not after.          *)
Slip_push_log(len) == IF len > MAX_LOG_ENTRIES THEN MAX_LOG_ENTRIES + 1 ELSE len + 1

push_log(len) == IF len < MAX_LOG_ENTRIES THEN len + 1 ELSE MAX_LOG_ENTRIES

(* Slip: an agent's cost is added when it is heard of, and again at the end.*)
Slip_totals(e) ==
  [completed |-> workflow_metrics.completed + (IF e.kind = "Completed" THEN 1 ELSE 0),
   failed    |-> workflow_metrics.failed + (IF e.kind = "Failed" THEN 1 ELSE 0),
   cost      |-> workflow_metrics.cost +
                   (IF \/ is_terminal(e.kind) /\ e.agent \in agent_metrics
                       \/ e.kind = "metrics" /\ e.agent \notin agent_metrics
                    THEN 1 ELSE 0)]

(* The end of an agent adds what is known of its cost at that moment.       *)
totals(e) ==
  [completed |-> workflow_metrics.completed + (IF e.kind = "Completed" THEN 1 ELSE 0),
   failed    |-> workflow_metrics.failed + (IF e.kind = "Failed" THEN 1 ELSE 0),
   cost      |-> workflow_metrics.cost +
                   (IF is_terminal(e.kind) /\ e.agent \in agent_metrics
                    THEN 1 ELSE 0)]

handle_event ==
  /\ conn[Watched] = "up"
  /\ collector = "running"
  /\ ~ feed_lagged
  /\ feed # <<>>
  /\ feed' = Tail(feed)
  /\ LET e == Head(feed)
     IN  /\ agent_metrics' = IF e.kind = "metrics" THEN agent_metrics \cup {e.agent}
                             ELSE agent_metrics
         /\ workflow_metrics' = totals(e)
         /\ event_log' = IF is_logged(e.kind) THEN push_log(event_log) ELSE event_log
         /\ last' = e.n
         /\ seen' = IF is_terminal(e.kind) THEN seen \cup {e.agent} ELSE seen
  /\ UNCHANGED <<serverVars, feed_lagged, collector, screenVars>>

(* Slip: a Lagged is passed over and the loop goes on.                      *)
Slip_CollectorLagged ==
  /\ conn[Watched] = "up"
  /\ collector = "running"
  /\ feed_lagged
  /\ feed_lagged' = FALSE
  /\ UNCHANGED <<serverVars, feed, collector, collectorVars, screenVars>>

(* The collector's loop ends with the first Lagged as well.                 *)
CollectorLagged ==
  /\ conn[Watched] = "up"
  /\ collector = "running"
  /\ feed_lagged
  /\ collector' = "ended"
  /\ feed' = <<>>
  /\ UNCHANGED <<serverVars, feed_lagged, collectorVars, screenVars>>

(***************************************************************************)
(* run_dashboard: a snapshot is taken and drawn, then a key is waited for   *)
(* for a while; a key is interpreted with the snapshot on the screen, which *)
(* may be old by then, and the loop takes the next snapshot.  That reads    *)
(* the table first and the log later, and the collector may go on in        *)
(* between.  (The totals, read between the two, are for show only.)         *)
(***************************************************************************)
Snapshot ==
  /\ data' = [data EXCEPT !.agents = Cardinality(agent_metrics)]
  /\ taking' = TRUE

SnapshotLog ==
  /\ taking
  /\ data' = [data EXCEPT !.events = event_log]
  /\ taking' = FALSE
  /\ UNCHANGED <<serverVars, feedVars, collector, collectorVars, tab, log_scroll,
                 selected_agent>>

saturating_sub(a, b) == IF a < b THEN 0 ELSE a - b

Pressed(key) ==
  /\ key \in setup.keys
  /\ conn[Watched] = "up"
  /\ ~ taking

Quit ==
  /\ Pressed("q")
  /\ HangUp(Watched)
  /\ UNCHANGED <<agentVars, channelVars, taskVars, clients, backlog, dashVars>>

SwitchTab ==
  /\ Pressed("tab")
  /\ tab' = IF tab = "Overview" THEN "EventLog" ELSE "Overview"
  /\ Snapshot
  /\ UNCHANGED <<serverVars, feedVars, collector, collectorVars, log_scroll, selected_agent>>

(* Slip: the end of the list is compared with the cursor, not the line      *)
(* after it.                                                                *)
Slip_Down ==
  /\ Pressed("j")
  /\ IF tab = "EventLog"
     THEN /\ log_scroll' = IF log_scroll < data.events THEN log_scroll + 1 ELSE log_scroll
          /\ UNCHANGED selected_agent
     ELSE /\ selected_agent' = IF selected_agent < data.agents
                               THEN selected_agent + 1 ELSE selected_agent
          /\ UNCHANGED log_scroll
  /\ Snapshot
  /\ UNCHANGED <<serverVars, feedVars, collector, collectorVars, tab>>

Down ==
  /\ Pressed("j")
  /\ IF tab = "EventLog"
     THEN /\ log_scroll' = IF log_scroll + 1 < data.events THEN log_scroll + 1
                           ELSE log_scroll
          /\ UNCHANGED selected_agent
     ELSE /\ selected_agent' = IF selected_agent + 1 < data.agents
                               THEN selected_agent + 1 ELSE selected_agent
          /\ UNCHANGED log_scroll
  /\ Snapshot
  /\ UNCHANGED <<serverVars, feedVars, collector, collectorVars, tab>>

Up ==
  /\ Pressed("k")
  /\ IF tab = "EventLog"
     THEN log_scroll' = saturating_sub(log_scroll, 1) /\ UNCHANGED selected_agent
     ELSE selected_agent' = saturating_sub(selected_agent, 1) /\ UNCHANGED log_scroll
  /\ Snapshot
  /\ UNCHANGED <<serverVars, feedVars, collector, collectorVars, tab>>

(* `G` jumps to the oldest event, in the log only; `g` to the newest.       *)
JumpEnd ==
  /\ Pressed("G")
  /\ log_scroll' = IF tab = "EventLog" THEN saturating_sub(data.events, 1) ELSE log_scroll
  /\ Snapshot
  /\ UNCHANGED <<serverVars, feedVars, collector, collectorVars, tab, selected_agent>>

JumpTop ==
  /\ Pressed("g")
  /\ log_scroll' = 0
  /\ Snapshot
  /\ UNCHANGED <<serverVars, feedVars, collector, collectorVars, tab, selected_agent>>

Redraw ==
  /\ setup.keys # {}
  /\ conn[Watched] = "up"
  /\ ~ taking
  /\ Snapshot
  /\ UNCHANGED <<serverVars, feedVars, collector, collectorVars, tab, log_scroll,
                 selected_agent>>

Screen == SwitchTab \/ Down \/ Up \/ JumpEnd \/ JumpTop \/ Redraw \/ SnapshotLog

Next ==
  \/ ServerStep
  \/ \E c \in Clients : Connect(c) \/ Accept(c) \/ PeerRead(c) \/ PeerQuit(c)
  \/ ReadLine
  \/ handle_event
  \/ CollectorLagged
  \/ Quit
  \/ Screen

Spec == Init /\ [][Next]_vars

(* The two tasks of the server, and the reader and the collector of the     *)
(* dashboard, are polled; nobody has to connect, read, quit or press keys.  *)
Fairness ==
  /\ WF_vars(BroadcasterTask /\ UNCHANGED dashVars)
  /\ \A c \in Clients : SF_vars(Accept(c))
  /\ WF_vars(ReadLine)
  /\ WF_vars(handle_event)
  /\ WF_vars(CollectorLagged)

FairSpec == Spec /\ Fairness

(***************************************************************************)
(*                              PROPERTIES                                  *)
(***************************************************************************)

(* Every variable keeps its type.                                           *)
TypeOK ==
  /\ BroadcasterTypeOK
  /\ feed \in Seq(Event) /\ Len(feed) <= FeedCapacity
  /\ feed_lagged \in BOOLEAN
  /\ collector \in {"running", "ended"}
  /\ agent_metrics \subseteq Agents
  /\ workflow_metrics \in [completed : Nat, failed : Nat, cost : Nat]
  /\ event_log \in 0 .. MAX_LOG_ENTRIES
  /\ last \in 0 .. sent
  /\ seen \subseteq StepAgents
  /\ tab \in {"Overview", "EventLog"}
  /\ log_scroll \in Nat /\ selected_agent \in Nat
  /\ data \in [agents : Nat, events : Nat]
  /\ taking \in BOOLEAN

(* From the moment it is on the list of clients a dashboard handles every   *)
(* event, in the order of the broadcast channel, until it falls silent for  *)
(* good: overload at either channel loses the rest, never the middle.       *)
NoGaps ==
  [][last' # last /\ Watched \notin backlog => last' = last + 1]_vars

(* What the dashboard gets is a part of the stream without holes that ends  *)
(* once and for good, whichever of the two channels, the sockets and the    *)
(* list of clients in between is overloaded, left or full.                  *)
Arrived == last + Len(feed) + Len(sock[Watched])

Waiting == bc = "writing" /\ \E i \in pos .. Len(clients) : clients[i] = Watched

Ahead == IF Waiting THEN Arrived + 1 ELSE Arrived

Listed == conn[Watched] # "out" /\ Watched \notin backlog

Deaf == conn[Watched] = "gone" \/ feed_lagged

Whole == Listed => ~ (Deaf \/ lagged \/ bc = "ended")

Limit ==
  IF Whole THEN sent
  ELSE IF Deaf THEN last
  ELSE Ahead

Stream == INSTANCE EventStream
            WITH handled <- last, joined <- Listed, whole <- Whole, limit <- Limit

ImplementsStream == Stream!StreamSpec

(* The totals in the header against the table of agents: an ended agent is  *)
(* counted once, its cost is counted at most once and only if the table has *)
(* it, and it is missing only where the end of the agent overtook its last  *)
(* events on the way through the agent manager.                             *)
TotalsMatchTable ==
  /\ workflow_metrics.completed + workflow_metrics.failed <= Cardinality(seen)
  /\ workflow_metrics.cost <= Cardinality(seen \cap agent_metrics)
  /\ workflow_metrics.cost >= Cardinality((seen \cap agent_metrics) \ overtaken)

(* Whoever is connected and was accepted stays on the list of clients,      *)
(* whatever other clients do.                                               *)
NobodyElseDropped ==
  \A c \in Clients : conn[c] = "up" /\ c \notin backlog =>
    \E i \in 1 .. Len(clients) : clients[i] = c

(* The cursor stays on a line of the log, and on a row of the table, or at  *)
(* the top while there is none.                                             *)
CursorInRange ==
  /\ log_scroll <= saturating_sub(event_log, 1)
  /\ selected_agent <= saturating_sub(Cardinality(agent_metrics), 1)

(* A dashboard that is on the list and keeps up gets all there is: a client *)
(* that went away does not stop the others, and one that does not read      *)
(* stops them only for as long as it does not.                              *)
Stuck ==
  /\ bc = "writing"
  /\ pos <= Len(clients)
  /\ clients[pos] \in Peers
  /\ conn[clients[pos]] = "up"
  /\ Len(sock[clients[pos]]) = SocketSize

Served ==
  /\ conn[Watched] = "up" /\ Watched \notin backlog
  /\ ~ lagged /\ ~ feed_lagged

Delivered ==
  <>[]Served /\ []<>~Stuck => <>[](last = sent)

==============================================================================
