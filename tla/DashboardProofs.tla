--------------------------- MODULE DashboardProofs --------------------------
(***************************************************************************)
(* What holds of the dashboard for any number of agents and events, any     *)
(* capacity of the channels, and keys pressed at any moment.                *)
(***************************************************************************)
EXTENDS Dashboard, DataInduction

(***************************************************************************)
(* Keys are interpreted with the snapshot on the screen, which may be old.  *)
(* It is never ahead of the collector, and what the collector holds never   *)
(* gets less: the log is cut back to its limit only once it has reached it. *)
(***************************************************************************)
rows == Cardinality(agent_metrics)

SnapshotInv ==
  /\ IsFiniteSet(agent_metrics)
  /\ event_log \in Nat /\ event_log <= MAX_LOG_ENTRIES
  /\ log_scroll \in Nat /\ selected_agent \in Nat
  /\ data \in [agents : Nat, events : Nat]
  /\ taking \in BOOLEAN
  /\ data.events <= event_log /\ data.agents <= rows

CursorInv == SnapshotInv /\ CursorInRange

LEMMA RowsType == IsFiniteSet(agent_metrics) => rows \in Nat
  BY FS_CardinalityType DEF rows

LEMMA CursorInit == Init => CursorInv
<1> SUFFICES ASSUME Init PROVE CursorInv
  OBVIOUS
<1>1. IsFiniteSet(agent_metrics) /\ rows = 0
  BY FS_EmptySet DEF Init, rows
<1>2. /\ event_log = 0 /\ log_scroll = 0 /\ selected_agent = 0
      /\ data = [agents |-> 0, events |-> 0] /\ taking = FALSE
  BY DEF Init
<1>3. SnapshotInv
  <2>1. taking \in BOOLEAN
    BY <1>2
  <2>2. /\ event_log \in Nat /\ event_log <= MAX_LOG_ENTRIES
        /\ log_scroll \in Nat /\ selected_agent \in Nat
    BY <1>2, DashboardAssumption
  <2>3. data \in [agents : Nat, events : Nat] /\ data.events <= event_log /\ data.agents <= rows
    <3> HIDE DEF rows
    <3> QED
      BY <1>1, <1>2
  <2> QED
    BY <1>1, <2>1, <2>2, <2>3 DEF SnapshotInv
<1>4. CursorInRange
  <2> HIDE DEF rows
  <2>1. log_scroll <= saturating_sub(event_log, 1) /\ selected_agent <= saturating_sub(rows, 1)
    BY <1>1, <1>2 DEF saturating_sub
  <2> QED
    BY <2>1 DEF CursorInRange, rows
<1> QED
  BY <1>3, <1>4 DEF CursorInv

LEMMA MoreRoom ==
  ASSUME NEW cursor \in Nat, NEW m \in Nat, NEW n \in Nat, m <= n,
         cursor <= saturating_sub(m, 1)
  PROVE  cursor <= saturating_sub(n, 1)
  BY DEF saturating_sub

(* The table and the log of the collector only grow.                        *)
LEMMA CollectorGrows ==
  ASSUME SnapshotInv, handle_event
  PROVE  /\ IsFiniteSet(agent_metrics)' /\ rows' \in Nat /\ rows <= rows'
         /\ event_log' \in Nat /\ event_log <= event_log' /\ event_log' <= MAX_LOG_ENTRIES
<1>1. IsFiniteSet(agent_metrics) /\ rows \in Nat
  BY RowsType DEF SnapshotInv
<1>2. PICK a : agent_metrics' = agent_metrics \cup {a} \/ agent_metrics' = agent_metrics
  BY DEF handle_event
<1>3. IsFiniteSet(agent_metrics)' /\ rows' \in Nat /\ rows <= rows'
  <2>1. /\ IsFiniteSet(agent_metrics \cup {a})
        /\ Cardinality(agent_metrics \cup {a}) \in {rows, rows + 1}
    BY <1>1, FS_AddElement DEF rows
  <2>2. /\ IsFiniteSet(agent_metrics')
        /\ Cardinality(agent_metrics') \in {rows, rows + 1}
    BY <1>1, <1>2, <2>1 DEF rows
  <2> QED
    BY <1>1, <2>2 DEF rows
<1>4. event_log' \in {event_log, push_log(event_log)}
  BY DEF handle_event
<1>5. event_log' \in Nat /\ event_log <= event_log' /\ event_log' <= MAX_LOG_ENTRIES
  BY <1>4, DashboardAssumption DEF push_log, SnapshotInv
<1> QED
  BY <1>3, <1>5

(* A key moves a cursor within what is on the screen.                       *)
LEMMA ScreenKeepsCursor ==
  ASSUME CursorInv, Screen PROVE CursorInv'
<1>1. IsFiniteSet(agent_metrics) /\ rows \in Nat
  BY RowsType DEF CursorInv, SnapshotInv
<1>2. UNCHANGED <<agent_metrics, event_log>>
  BY DEF Screen, SwitchTab, Down, Up, JumpEnd, JumpTop, Redraw, SnapshotLog, collectorVars
<1>3. rows' = rows
  BY <1>2 DEF rows
<1>4. /\ log_scroll' \in Nat /\ log_scroll' <= saturating_sub(event_log, 1)
      /\ selected_agent' \in Nat /\ selected_agent' <= saturating_sub(rows, 1)
  <2> USE <1>1 DEF CursorInv, SnapshotInv, CursorInRange, saturating_sub
  <2>0. selected_agent <= saturating_sub(rows, 1)
    BY DEF rows
  <2>1. CASE SwitchTab \/ Redraw \/ SnapshotLog
    BY <2>0, <2>1 DEF SwitchTab, Redraw, SnapshotLog
  <2>2. CASE Down
    BY <2>0, <2>2 DEF Down
  <2>3. CASE Up
    BY <2>0, <2>3 DEF Up
  <2>4. CASE JumpEnd \/ JumpTop
    BY <2>0, <2>4 DEF JumpEnd, JumpTop
  <2> QED
    BY <2>1, <2>2, <2>3, <2>4 DEF Screen
<1>5. /\ data' \in [agents : Nat, events : Nat] /\ taking' \in BOOLEAN
      /\ data'.events <= event_log /\ data'.agents <= rows
  <2>1. Snapshot \/ SnapshotLog
    BY DEF Screen, SwitchTab, Down, Up, JumpEnd, JumpTop, Redraw
  <2>2. /\ data \in [agents : Nat, events : Nat] /\ event_log \in Nat
        /\ data.events <= event_log /\ data.agents <= rows
    BY DEF CursorInv, SnapshotInv
  <2>3. CASE Snapshot
    <3>1. data' = [data EXCEPT !.agents = rows]
      BY <2>3 DEF Snapshot, rows
    <3>2. taking' \in BOOLEAN
      BY <2>3 DEF Snapshot
    <3>3. /\ data' \in [agents : Nat, events : Nat]
          /\ data'.events <= event_log /\ data'.agents <= rows
      BY <1>1, <2>2, <3>1
    <3> QED
      BY <3>2, <3>3
  <2>4. CASE SnapshotLog
    <3>1. data' = [data EXCEPT !.events = event_log]
      BY <2>4 DEF SnapshotLog
    <3>2. taking' \in BOOLEAN
      BY <2>4 DEF SnapshotLog
    <3>3. /\ data' \in [agents : Nat, events : Nat]
          /\ data'.events <= event_log /\ data'.agents <= rows
      BY <1>1, <2>2, <3>1
    <3> QED
      BY <3>2, <3>3
  <2> QED
    BY <2>1, <2>3, <2>4
<1> QED
  BY <1>1, <1>2, <1>3, <1>4, <1>5 DEF CursorInv, SnapshotInv, CursorInRange, rows

LEMMA CursorNext == CursorInv /\ [Next]_vars => CursorInv'
<1> SUFFICES ASSUME CursorInv, [Next]_vars PROVE CursorInv'
  OBVIOUS
<1>1. ASSUME UNCHANGED <<agent_metrics, event_log, screenVars>> PROVE CursorInv'
  BY <1>1 DEF screenVars, CursorInv, SnapshotInv, CursorInRange, rows
<1>2. CASE ServerStep \/ UNCHANGED vars
  BY <1>1, <1>2 DEF ServerStep, vars, dashVars, collectorVars
<1>3. ASSUME NEW c \in Clients, Connect(c) \/ Accept(c) \/ PeerRead(c) \/ PeerQuit(c)
      PROVE  CursorInv'
  BY <1>1, <1>3 DEF Connect, Accept, PeerRead, PeerQuit, dashVars, collectorVars
<1>4. CASE ReadLine \/ CollectorLagged \/ Quit
  BY <1>1, <1>4 DEF ReadLine, CollectorLagged, Quit, dashVars, collectorVars
<1>5. CASE handle_event
  <2>1. UNCHANGED screenVars
    BY <1>5 DEF handle_event
  <2>2. /\ IsFiniteSet(agent_metrics)' /\ rows' \in Nat /\ rows <= rows'
        /\ event_log' \in Nat /\ event_log <= event_log' /\ event_log' <= MAX_LOG_ENTRIES
    BY <1>5, CollectorGrows DEF CursorInv
  <2>3. rows \in Nat
    BY RowsType DEF CursorInv, SnapshotInv
  <2>4. SnapshotInv'
    BY <2>1, <2>2, <2>3 DEF screenVars, CursorInv, SnapshotInv
  <2>5. selected_agent <= saturating_sub(rows, 1)
    BY DEF CursorInv, CursorInRange, rows
  <2>6. selected_agent <= saturating_sub(rows', 1)
    BY <2>2, <2>3, <2>5, MoreRoom DEF CursorInv, SnapshotInv
  <2>7. log_scroll <= saturating_sub(event_log', 1)
    BY <2>2, MoreRoom DEF CursorInv, SnapshotInv, CursorInRange
  <2>8. log_scroll' = log_scroll /\ selected_agent' = selected_agent
    BY <2>1 DEF screenVars
  <2>9. CursorInRange'
    BY <2>6, <2>7, <2>8 DEF CursorInRange, rows
  <2> QED
    BY <2>4, <2>9 DEF CursorInv
<1>6. CASE Screen
  BY <1>6, ScreenKeepsCursor
<1> QED
  BY <1>2, <1>3, <1>4, <1>5, <1>6 DEF Next

(* The cursors of the dashboard stay on a line of the log and a row of the  *)
(* table, though keys are interpreted with a snapshot that may be old.      *)
THEOREM CursorAlwaysInRange == Spec => []CursorInRange
<1>1. CursorInv => CursorInRange
  BY DEF CursorInv
<1> QED
  BY <1>1, CursorInit, CursorNext, PTL DEF Spec

(***************************************************************************)
(* The list of clients.  Vec::remove for each of a falling row of indices   *)
(* takes away just what stood there, and no index is ever out of bounds.    *)
(***************************************************************************)
LEMMA RemoveOne ==
  ASSUME NEW T, NEW s \in Seq(T), NEW i \in 1 .. Len(s)
  PROVE  /\ RemoveAt(s, i) \in Seq(T) /\ Len(RemoveAt(s, i)) = Len(s) - 1
         /\ \A j \in 1 .. Len(s) - 1 : RemoveAt(s, i)[j] = IF j < i THEN s[j] ELSE s[j + 1]
<1> DEFINE l == SubSeq(s, 1, i - 1)
           r == SubSeq(s, i + 1, Len(s))
<1>1. l \in Seq(T) /\ Len(l) = i - 1 /\ \A j \in 1 .. i - 1 : l[j] = s[j]
  OBVIOUS
<1>2. /\ r \in Seq(T) /\ Len(r) = Len(s) - i
      /\ \A j \in 1 .. Len(s) - i : r[j] = s[i + j]
  OBVIOUS
<1> HIDE DEF l, r
<1>3. /\ l \o r \in Seq(T) /\ Len(l \o r) = Len(s) - 1
      /\ \A j \in 1 .. Len(s) - 1 : (l \o r)[j] = IF j < i THEN s[j] ELSE s[j + 1]
  <2>1. l \o r \in Seq(T) /\ Len(l \o r) = Len(s) - 1
    <3>0. l \in Seq(T) /\ r \in Seq(T)
      BY <1>1, <1>2
    <3>1. Len(l \o r) = Len(l) + Len(r)
      BY ONLY <3>0
    <3>2. l \o r \in Seq(T)
      BY ONLY <3>0
    <3> QED
      BY <1>1, <1>2, <3>1, <3>2
  <2>2. ASSUME NEW j \in 1 .. Len(s) - 1 PROVE (l \o r)[j] = IF j < i THEN s[j] ELSE s[j + 1]
    <3>1. (l \o r)[j] = IF j <= Len(l) THEN l[j] ELSE r[j - Len(l)]
      BY <1>1, <1>2
    <3>2. CASE j < i
      BY <1>1, <3>1, <3>2
    <3>3. CASE ~ (j < i)
      <4>1. j - Len(l) \in 1 .. Len(s) - i /\ i + (j - Len(l)) = j + 1 /\ ~ (j <= Len(l))
        BY <1>1, <3>3
      <4> QED
        BY <1>2, <3>1, <3>3, <4>1
    <3> QED
      BY <3>2, <3>3
  <2> QED
    BY <2>1, <2>2
<1> QED
  BY <1>3 DEF RemoveAt, l, r

LEMMA RemoveOneElement ==
  ASSUME NEW T, NEW s \in Seq(T), IsInjective(s), NEW i \in 1 .. Len(s)
  PROVE  IsInjective(RemoveAt(s, i)) /\ ToSet(RemoveAt(s, i)) = ToSet(s) \ {s[i]}
<1> DEFINE t == RemoveAt(s, i)
<1>1. /\ t \in Seq(T) /\ Len(t) = Len(s) - 1
      /\ \A j \in 1 .. Len(s) - 1 : t[j] = IF j < i THEN s[j] ELSE s[j + 1]
  BY RemoveOne
<1> HIDE DEF t
<1>2. \A j, k \in 1 .. Len(s) : s[j] = s[k] => j = k
  BY DEF IsInjective
<1>3. \A j, k \in 1 .. Len(t) : t[j] = t[k] => j = k
  BY <1>1, <1>2
<1>4. IsInjective(t)
  BY <1>1, <1>3 DEF IsInjective
<1>5. ASSUME NEW j \in 1 .. Len(t) PROVE t[j] \in ToSet(s) \ {s[i]}
  <2>1. PICK k \in 1 .. Len(s) : t[j] = s[k] /\ k # i
    <3>1. /\ j \in 1 .. Len(s) /\ j + 1 \in 1 .. Len(s)
          /\ t[j] = IF j < i THEN s[j] ELSE s[j + 1]
      BY <1>1
    <3>2. CASE j < i
      BY <3>1, <3>2
    <3>3. CASE ~ (j < i)
      BY <3>1, <3>3
    <3> QED
      BY <3>2, <3>3
  <2> QED
    BY <1>2, <2>1 DEF ToSet
<1>6. ASSUME NEW k \in 1 .. Len(s), k # i PROVE \E j \in 1 .. Len(t) : t[j] = s[k]
  <2>1. CASE k < i
    BY <1>1, <1>6, <2>1
  <2>2. CASE k > i
    <3>1. /\ k - 1 \in 1 .. Len(t) /\ ~ (k - 1 < i) /\ (k - 1) + 1 = k
          /\ k - 1 \in 1 .. Len(s) - 1
      BY <1>1, <1>6, <2>2
    <3> QED
      BY <1>1, <3>1
  <2> QED
    BY <1>6, <2>1, <2>2
<1>7. ToSet(t) = ToSet(s) \ {s[i]}
  <2>1. ToSet(t) \subseteq ToSet(s) \ {s[i]}
    BY <1>1, <1>5 DEF ToSet
  <2>2. ASSUME NEW x \in ToSet(s) \ {s[i]} PROVE x \in ToSet(t)
    <3>1. PICK k \in 1 .. Len(s) : x = s[k] /\ k # i
      BY DEF ToSet
    <3>2. PICK j \in 1 .. Len(t) : t[j] = s[k]
      BY <1>6, <3>1
    <3> QED
      BY <1>1, <3>1, <3>2 DEF ToSet
  <2> QED
    BY <2>1, <2>2
<1> QED
  BY <1>4, <1>7 DEF t

Falling(down, list) ==
  /\ list \in Seq(Clients) /\ IsInjective(list)
  /\ down \in Seq(1 .. Len(list))
  /\ \A i \in 1 .. Len(down) : \A j \in 1 .. Len(down) : i < j => down[j] < down[i]

LeftOf(left, list, down) ==
  left = [k \in 0 .. Len(down) |-> IF k = 0 THEN list ELSE RemoveAt(left[k - 1], down[k])]

(* After k removals: what is up to the next index has not been touched.     *)
Removed(l, list, down, k) ==
  /\ l \in Seq(Clients) /\ IsInjective(l)
  /\ ToSet(l) = ToSet(list) \ {list[down[i]] : i \in 1 .. k}
  /\ k < Len(down) => /\ down[k + 1] <= Len(l)
                      /\ \A j \in 1 .. down[k + 1] : l[j] = list[j]

LEMMA RemovedNext ==
  ASSUME NEW list, NEW down, Falling(down, list), NEW k \in Nat, k < Len(down),
         NEW l, Removed(l, list, down, k)
  PROVE  /\ down[k + 1] \in 1 .. Len(l)
         /\ Removed(RemoveAt(l, down[k + 1]), list, down, k + 1)
<1> DEFINE e == down[k + 1]
           t == RemoveAt(l, e)
<1>1. /\ list \in Seq(Clients) /\ l \in Seq(Clients) /\ IsInjective(l)
      /\ k + 1 \in 1 .. Len(down) /\ Len(down) \in Nat
  BY DEF Falling, Removed
<1>2. e \in 1 .. Len(list) /\ e \in 1 .. Len(l) /\ l[e] = list[e]
  BY <1>1 DEF Falling, Removed
<1>3. /\ t \in Seq(Clients) /\ Len(t) = Len(l) - 1
      /\ \A j \in 1 .. Len(l) - 1 : t[j] = IF j < e THEN l[j] ELSE l[j + 1]
  <2> HIDE DEF e
  <2> QED
    BY <1>1, <1>2, RemoveOne
<1>4. IsInjective(t) /\ ToSet(t) = ToSet(l) \ {l[e]}
  <2> HIDE DEF e
  <2> QED
    BY <1>1, <1>2, RemoveOneElement
<1> HIDE DEF t
<1>5. ToSet(t) = ToSet(list) \ {list[down[i]] : i \in 1 .. k + 1}
  <2>1. ToSet(l) = ToSet(list) \ {list[down[i]] : i \in 1 .. k}
    BY DEF Removed
  <2>2. {list[down[i]] : i \in 1 .. k + 1} = {list[down[i]] : i \in 1 .. k} \cup {list[e]}
    <3>1. 1 .. k + 1 = (1 .. k) \cup {k + 1}
      OBVIOUS
    <3> QED
      BY <3>1
  <2> QED
    BY <1>2, <1>4, <2>1, <2>2
<1>6. ASSUME k + 1 < Len(down)
      PROVE  /\ down[(k + 1) + 1] <= Len(t)
             /\ \A j \in 1 .. down[(k + 1) + 1] : t[j] = list[j]
  <2>1. (k + 1) + 1 \in 1 .. Len(down)
    BY <1>1, <1>6
  <2>2. /\ down[(k + 1) + 1] < e /\ down[(k + 1) + 1] \in 1 .. Len(list)
    BY <1>1, <2>1 DEF Falling
  <2>3. \A j \in 1 .. e : l[j] = list[j]
    BY DEF Removed
  <2> DEFINE d == down[(k + 1) + 1]
  <2> HIDE DEF e, d
  <2>4. d < e /\ d \in Nat /\ e \in Nat /\ Len(l) \in Nat /\ e <= Len(l)
    BY <1>1, <1>2, <2>2 DEF d
  <2>5. d <= Len(t)
    BY <1>3, <2>4
  <2>6. ASSUME NEW j \in 1 .. d PROVE t[j] = list[j]
    <3>1. j \in 1 .. Len(l) - 1 /\ j < e /\ j \in 1 .. e
      BY <2>4
    <3> QED
      BY <1>3, <2>3, <3>1
  <2> QED
    BY <2>5, <2>6 DEF d
<1> QED
  BY <1>2, <1>3, <1>4, <1>5, <1>6 DEF Removed, t

(* Any function that removes as long as the index is in bounds.             *)
LEMMA RemovedAll ==
  ASSUME NEW list, NEW down, Falling(down, list), NEW left, left[0] = list,
         \A k \in 1 .. Len(down) : down[k] \in 1 .. Len(left[k - 1]) =>
                                     left[k] = RemoveAt(left[k - 1], down[k])
  PROVE  \A k \in 0 .. Len(down) : Removed(left[k], list, down, k)
<1> DEFINE S == {k \in Nat : k <= Len(down) => Removed(left[k], list, down, k)}
<1>n. Len(down) \in Nat
  BY DEF Falling
<1>1. 0 \in S
  <2>1. {list[down[i]] : i \in 1 .. 0} = {}
    OBVIOUS
  <2>2. 0 < Len(down) => down[0 + 1] \in 1 .. Len(list)
    BY DEF Falling
  <2>3. ToSet(list) = ToSet(list) \ {list[down[i]] : i \in 1 .. 0}
    BY <2>1
  <2>4. Removed(list, list, down, 0)
    BY <2>2, <2>3 DEF Removed, Falling
  <2> QED
    BY <2>4
<1>2. ASSUME NEW k \in Nat, k \in S PROVE k + 1 \in S
  <2> SUFFICES ASSUME k + 1 <= Len(down) PROVE Removed(left[k + 1], list, down, k + 1)
    OBVIOUS
  <2>1. Removed(left[k], list, down, k) /\ k < Len(down)
    BY <1>2, <1>n
  <2>2. /\ down[k + 1] \in 1 .. Len(left[k])
        /\ Removed(RemoveAt(left[k], down[k + 1]), list, down, k + 1)
    BY <2>1, RemovedNext
  <2>3. k + 1 \in 1 .. Len(down) /\ (k + 1) - 1 = k
    BY <1>n
  <2>4. left[k + 1] = RemoveAt(left[k], down[k + 1])
    BY <2>2, <2>3
  <2> QED
    BY <2>2, <2>4
<1> HIDE DEF S
<1>3. Nat \subseteq S
  BY <1>1, <1>2, NumberInduction
<1>4. ASSUME NEW k \in 0 .. Len(down) PROVE Removed(left[k], list, down, k)
  <2>1. k \in S /\ k <= Len(down)
    BY <1>3, <1>n
  <2> QED
    BY <2>1 DEF S
<1> QED
  BY <1>4

LEMMA LeftExists ==
  ASSUME NEW list, NEW down, Falling(down, list)
  PROVE  \E left : LeftOf(left, list, down)
<1> DEFINE step == [x \in (1 .. Len(down)) \X Seq(Clients) |->
                      IF down[x[1]] \in 1 .. Len(x[2]) THEN RemoveAt(x[2], down[x[1]]) ELSE x[2]]
<1>n. Len(down) \in Nat /\ list \in Seq(Clients)
  BY DEF Falling
<1>1. step \in [(1 .. Len(down)) \X Seq(Clients) -> Seq(Clients)]
  <2>1. ASSUME NEW x \in (1 .. Len(down)) \X Seq(Clients)
        PROVE  (IF down[x[1]] \in 1 .. Len(x[2]) THEN RemoveAt(x[2], down[x[1]]) ELSE x[2])
                 \in Seq(Clients)
    <3>1. x[2] \in Seq(Clients)
      OBVIOUS
    <3>2. down[x[1]] \in 1 .. Len(x[2]) => RemoveAt(x[2], down[x[1]]) \in Seq(Clients)
      BY <3>1, RemoveOne
    <3> QED
      BY <3>1, <3>2
  <2> QED
    BY <2>1
<1>2. PICK left \in [0 .. Len(down) -> Seq(Clients)] : Follows(left, Len(down), list, step)
  <2> HIDE DEF step
  <2> QED
    BY <1>n, <1>1, RecursionExists
<1>3. left[0] = list
  <2>1. 0 \in 0 .. Len(down)
    BY <1>n
  <2> QED
    BY <1>2, <2>1 DEF Follows
<1>4. ASSUME NEW k \in 1 .. Len(down)
      PROVE  left[k] = IF down[k] \in 1 .. Len(left[k - 1]) THEN RemoveAt(left[k - 1], down[k])
                       ELSE left[k - 1]
  <2>1. k \in 0 .. Len(down) /\ k # 0 /\ k - 1 \in 0 .. Len(down)
    BY <1>n
  <2>2. left[k] = step[<<k, left[k - 1]>>]
    <3> HIDE DEF step
    <3> QED
      BY <1>2, <2>1 DEF Follows
  <2>3. <<k, left[k - 1]>> \in (1 .. Len(down)) \X Seq(Clients)
    BY <2>1
  <2> QED
    BY <2>2, <2>3
<1> HIDE DEF step
<1>5. \A k \in 0 .. Len(down) : Removed(left[k], list, down, k)
  BY <1>3, <1>4, RemovedAll
<1>6. ASSUME NEW k \in 1 .. Len(down) PROVE left[k] = RemoveAt(left[k - 1], down[k])
  <2>1. k - 1 \in 0 .. Len(down) /\ k - 1 \in Nat /\ k - 1 < Len(down) /\ (k - 1) + 1 = k
    BY <1>n
  <2>2. Removed(left[k - 1], list, down, k - 1)
    BY <1>5, <2>1
  <2>3. down[(k - 1) + 1] \in 1 .. Len(left[k - 1])
    BY <2>1, <2>2, RemovedNext
  <2>4. down[k] \in 1 .. Len(left[k - 1])
    BY <2>1, <2>3
  <2> QED
    BY <1>4, <2>4
<1>7. \A k \in 0 .. Len(down) :
        left[k] = IF k = 0 THEN list ELSE RemoveAt(left[k - 1], down[k])
  BY <1>3, <1>6
<1>8. LeftOf(left, list, down)
  BY <1>2, <1>7 DEF LeftOf
<1> QED
  BY <1>8

LEMMA RemoveEachFalling ==
  ASSUME NEW list, NEW down, Falling(down, list)
  PROVE  LET l == RemoveEach(list, down)
         IN  /\ l \in Seq(Clients) /\ IsInjective(l)
             /\ ToSet(l) = ToSet(list) \ {list[down[i]] : i \in 1 .. Len(down)}
<1> DEFINE left == CHOOSE left : LeftOf(left, list, down)
<1>n. Len(down) \in Nat
  BY DEF Falling
<1>1. LeftOf(left, list, down)
  BY LeftExists
<1>2. RemoveEach(list, down) = left[Len(down)]
  BY DEF RemoveEach, LeftOf
<1> HIDE DEF left
<1>3. left[0] = list
  <2>1. 0 \in 0 .. Len(down)
    BY <1>n
  <2> QED
    BY <1>1, <2>1 DEF LeftOf
<1>4. ASSUME NEW k \in 1 .. Len(down) PROVE left[k] = RemoveAt(left[k - 1], down[k])
  <2>1. k \in 0 .. Len(down) /\ k # 0
    BY <1>n
  <2> QED
    BY <1>1, <2>1 DEF LeftOf
<1>5. Len(down) \in 0 .. Len(down)
  BY <1>n
<1>6. Removed(left[Len(down)], list, down, Len(down))
  BY <1>3, <1>4, <1>5, RemovedAll
<1> QED
  BY <1>2, <1>6 DEF Removed

(***************************************************************************)
(* Who is on the list.  A connection goes from the backlog to the list, and *)
(* leaves it only after a write to it failed, hence after it was gone.      *)
(***************************************************************************)
OnList(c) == c \in ToSet(clients)

ListType ==
  /\ clients \in Seq(Clients) /\ IsInjective(clients)
  /\ conn \in [Clients -> {"out", "up", "gone"}]
  /\ backlog \subseteq Clients

WriterInv ==
  /\ bc \in {"recv", "writing", "ended"}
  /\ pos \in 0 .. Len(clients) + 1
  /\ bc = "writing" => pos > 0
  /\ disconnected \in Seq(1 .. Len(clients))
  /\ \A i \in 1 .. Len(disconnected) :
       disconnected[i] < pos /\ conn[clients[disconnected[i]]] = "gone"
  /\ \A i \in 1 .. Len(disconnected) : \A j \in 1 .. Len(disconnected) :
       i < j => disconnected[i] < disconnected[j]

MemberInv ==
  \A c \in Clients :
    /\ conn[c] = "out" => ~ OnList(c) /\ c \notin backlog
    /\ c \in backlog => ~ OnList(c)
    /\ conn[c] = "up" => c \in backlog \/ OnList(c)

ListInv == ListType /\ WriterInv /\ MemberInv

LEMMA ListInit == Init => ListInv
<1> SUFFICES ASSUME Init PROVE ListInv
  OBVIOUS
<1>1. /\ clients = <<>> /\ disconnected = <<>> /\ pos = 0 /\ bc = "recv" /\ backlog = {}
      /\ conn = [c \in Clients |-> "out"]
  BY DEF Init, BroadcasterInit
<1>2. ToSet(<<>>) = {} /\ IsInjective(<<>>)
  BY DEF ToSet, IsInjective
<1> QED
  BY <1>1, <1>2 DEF ListInv, ListType, WriterInv, MemberInv, OnList

(* A connection that changes its state, and is not put back to "out".       *)
LEMMA ConnNext ==
  ASSUME ListInv, NEW c \in Clients, NEW state \in {"up", "gone"},
         conn' = [conn EXCEPT ![c] = state],
         state = "up" => conn[c] = "out" /\ backlog' = backlog \cup {c},
         state = "gone" => backlog' = backlog /\ conn[c] = "up",
         UNCHANGED <<clients, bc, pos, disconnected>>
  PROVE  ListInv'
<1>1. ListType'
  BY DEF ListInv, ListType
<1>2. \A d \in Clients : conn'[d] = IF d = c THEN state ELSE conn[d]
  BY DEF ListInv, ListType
<1>3. WriterInv'
  <2>1. ASSUME NEW i \in 1 .. Len(disconnected)
        PROVE  conn'[clients[disconnected[i]]] = "gone"
    <3>1. clients[disconnected[i]] \in Clients
      BY DEF ListInv, ListType, WriterInv
    <3>2. conn[clients[disconnected[i]]] = "gone"
      BY DEF ListInv, WriterInv
    <3> QED
      BY <1>2, <3>1, <3>2
  <2> QED
    BY <2>1 DEF ListInv, WriterInv
<1>4. MemberInv'
  <2>1. \A d \in Clients : OnList(d)' <=> OnList(d)
    BY DEF OnList
  <2> QED
    BY <1>2, <2>1 DEF ListInv, MemberInv
<1> QED
  BY <1>1, <1>3, <1>4 DEF ListInv

LEMMA ToSetAppend ==
  ASSUME NEW T, NEW s \in Seq(T), NEW e \in T
  PROVE  /\ Append(s, e) \in Seq(T) /\ Len(Append(s, e)) = Len(s) + 1
         /\ Append(s, e)[Len(s) + 1] = e
         /\ \A i \in 1 .. Len(s) : Append(s, e)[i] = s[i]
         /\ ToSet(Append(s, e)) = ToSet(s) \cup {e}
<1>1. /\ Append(s, e) \in Seq(T) /\ Len(Append(s, e)) = Len(s) + 1
      /\ Append(s, e)[Len(s) + 1] = e /\ Len(s) \in Nat
      /\ \A i \in 1 .. Len(s) : Append(s, e)[i] = s[i]
  OBVIOUS
<1> DEFINE t == Append(s, e)
<1> HIDE DEF t
<1>2. ToSet(t) = ToSet(s) \cup {e}
  <2>1. DOMAIN t = (1 .. Len(s)) \cup {Len(s) + 1} /\ DOMAIN s = 1 .. Len(s)
    BY <1>1 DEF t
  <2>2. t[Len(s) + 1] = e /\ \A i \in 1 .. Len(s) : t[i] = s[i]
    BY <1>1 DEF t
  <2> QED
    BY <2>1, <2>2 DEF ToSet
<1> QED
  BY <1>1, <1>2 DEF t

LEMMA AcceptList == ASSUME ListInv, NEW c \in Clients, Accept(c) PROVE ListInv'
<1>1. /\ c \in backlog /\ bc # "writing" /\ backlog' = backlog \ {c}
      /\ clients' = Append(clients, c) /\ UNCHANGED <<bc, pos, disconnected, conn>>
  BY DEF Accept, Acceptable, taskVars
<1>2. clients \in Seq(Clients) /\ ~ OnList(c)
  BY <1>1 DEF ListInv, ListType, MemberInv
<1>3. /\ clients' \in Seq(Clients) /\ Len(clients') = Len(clients) + 1
      /\ clients'[Len(clients) + 1] = c
      /\ \A i \in 1 .. Len(clients) : clients'[i] = clients[i]
      /\ ToSet(clients') = ToSet(clients) \cup {c}
  BY <1>1, <1>2, ToSetAppend
<1>4. IsInjective(clients')
  <2>1. \A i \in 1 .. Len(clients) : clients[i] # c
    BY <1>2 DEF OnList, ToSet
  <2>2. \A i, j \in 1 .. Len(clients) : clients[i] = clients[j] => i = j
    BY DEF ListInv, ListType, IsInjective
  <2>3. DOMAIN clients' = (1 .. Len(clients)) \cup {Len(clients) + 1}
    BY <1>2, <1>3
  <2> QED
    BY <1>3, <2>1, <2>2, <2>3 DEF IsInjective
<1>5. WriterInv'
  <2>1. Len(clients) \in Nat
    BY <1>2
  <2>2. disconnected \in Seq(1 .. Len(clients))
    BY DEF ListInv, WriterInv
  <2>3. 1 .. Len(clients) \subseteq 1 .. Len(clients')
    BY <1>3, <2>1
  <2>4. disconnected \in Seq(1 .. Len(clients'))
    <3>1. \A i \in 1 .. Len(disconnected) : disconnected[i] \in 1 .. Len(clients')
      BY <2>2, <2>3
    <3>2. /\ Len(disconnected) \in Nat /\ DOMAIN disconnected = 1 .. Len(disconnected)
          /\ disconnected = [i \in 1 .. Len(disconnected) |-> disconnected[i]]
      BY <2>2
    <3> QED
      BY <3>1, <3>2
  <2>5. \A i \in 1 .. Len(disconnected) :
          clients'[disconnected[i]] = clients[disconnected[i]]
    BY <1>3, <2>2
  <2>6. pos \in 0 .. Len(clients') + 1
    BY <1>3, <2>1 DEF ListInv, WriterInv
  <2> QED
    BY <1>1, <2>4, <2>5, <2>6 DEF ListInv, WriterInv
<1>6. MemberInv'
  BY <1>1, <1>3 DEF ListInv, MemberInv, OnList
<1> QED
  BY <1>1, <1>3, <1>4, <1>5, <1>6 DEF ListInv, ListType

LEMMA WriteList == ASSUME ListInv, NEW c \in Clients, WriteTo(c) PROVE ListInv'
<1>1. /\ bc = "writing" /\ pos <= Len(clients) /\ clients[pos] = c /\ pos' = pos + 1
      /\ UNCHANGED <<clients, conn, backlog, bc>>
  BY DEF WriteTo, clientVars
<1>2. /\ pos \in 1 .. Len(clients) /\ disconnected \in Seq(1 .. Len(clients))
      /\ Len(clients) \in Nat
  BY <1>1 DEF ListInv, WriterInv, ListType
<1>3. WriterInv'
  <2>1. CASE disconnected' = disconnected
    BY <1>1, <1>2, <2>1 DEF ListInv, WriterInv
  <2>2. CASE conn[c] = "gone" /\ disconnected' = Append(disconnected, pos)
    <3> DEFINE n == Len(disconnected)
    <3>1. /\ disconnected' \in Seq(1 .. Len(clients)) /\ Len(disconnected') = n + 1
          /\ disconnected'[n + 1] = pos /\ n \in Nat
          /\ \A i \in 1 .. n : disconnected'[i] = disconnected[i]
      BY <1>2, <2>2
    <3>2. \A i \in 1 .. n : disconnected[i] < pos /\ conn[clients[disconnected[i]]] = "gone"
      BY DEF ListInv, WriterInv
    <3>3. \A i \in 1 .. n + 1 : i \in 1 .. n \/ i = n + 1
      BY <3>1
    <3>4. \A i \in 1 .. n : disconnected[i] \in 1 .. Len(clients)
      BY <1>2
    <3>5. \A i \in 1 .. n : \A j \in 1 .. n : i < j => disconnected[i] < disconnected[j]
      BY DEF ListInv, WriterInv
    <3> HIDE DEF n
    <3>6. \A i \in 1 .. n + 1 :
            disconnected'[i] < pos + 1 /\ conn[clients[disconnected'[i]]] = "gone"
      BY <1>1, <1>2, <2>2, <3>1, <3>2, <3>3, <3>4
    <3>7. \A i \in 1 .. n + 1 : \A j \in 1 .. n + 1 : i < j => disconnected'[i] < disconnected'[j]
      <4> SUFFICES ASSUME NEW i \in 1 .. n + 1, NEW j \in 1 .. n + 1, i < j
                   PROVE  disconnected'[i] < disconnected'[j]
        OBVIOUS
      <4>1. i \in 1 .. n
        BY <3>1
      <4>2. CASE j \in 1 .. n
        BY <3>1, <3>5, <4>1, <4>2
      <4>3. CASE j = n + 1
        BY <3>1, <3>2, <4>1, <4>3
      <4> QED
        BY <3>3, <4>2, <4>3
    <3> QED
      BY <1>1, <1>2, <3>1, <3>6, <3>7 DEF ListInv, WriterInv
  <2> QED
    BY <2>1, <2>2 DEF WriteTo
<1> QED
  BY <1>1, <1>3 DEF ListInv, ListType, MemberInv, OnList

(* The lock is given back: those that failed are gone, and nobody else.     *)
LEMMA EndWriteList == ASSUME ListInv, EndWrite PROVE ListInv'
<1> DEFINE down == Reverse(disconnected)
           n == Len(disconnected)
<1>1. /\ clients' = RemoveEach(clients, down) /\ bc' = "recv" /\ pos' = 0
      /\ disconnected' = <<>> /\ UNCHANGED <<conn, backlog>>
  BY DEF EndWrite, clientVars
<1>2. disconnected \in Seq(1 .. Len(clients)) /\ n \in Nat
  BY DEF ListInv, WriterInv
<1>3. /\ down \in Seq(1 .. Len(clients)) /\ Len(down) = n
      /\ \A i \in 1 .. n : down[i] = disconnected[n - i + 1] /\ n - i + 1 \in 1 .. n
  <2>1. down = [i \in 1 .. n |-> disconnected[(n - i) + 1]]
    BY DEF Reverse
  <2>2. \A i \in 1 .. n : (n - i) + 1 \in 1 .. n
    BY <1>2
  <2> HIDE DEF down, n
  <2>3. \A i \in 1 .. n : disconnected[(n - i) + 1] \in 1 .. Len(clients)
    BY <1>2, <2>2 DEF n
  <2> QED
    BY <1>2, <2>1, <2>2, <2>3
<1>4. Falling(down, clients)
  <2>1. ASSUME NEW i \in 1 .. n, NEW j \in 1 .. n, i < j PROVE down[j] < down[i]
    <3>1. n - j + 1 \in 1 .. n /\ n - i + 1 \in 1 .. n /\ n - j + 1 < n - i + 1
      BY <1>2, <2>1
    <3>2. disconnected[n - j + 1] < disconnected[n - i + 1]
      <4> HIDE DEF n
      <4>1. \A a \in 1 .. n : \A b \in 1 .. n : a < b => disconnected[a] < disconnected[b]
        BY DEF ListInv, WriterInv, n
      <4> QED
        BY <3>1, <4>1
    <3> HIDE DEF down, n
    <3> QED
      BY <1>3, <3>2
  <2> HIDE DEF down
  <2> QED
    BY <1>3, <2>1 DEF Falling, ListInv, ListType
<1>5. {clients[down[i]] : i \in 1 .. Len(down)} \subseteq {c \in Clients : conn[c] = "gone"}
  <2>1. ASSUME NEW i \in 1 .. n PROVE clients[down[i]] \in Clients /\ conn[clients[down[i]]] = "gone"
    <3>1. down[i] = disconnected[n - i + 1] /\ n - i + 1 \in 1 .. n
      BY <1>3
    <3> HIDE DEF down, n
    <3>2. conn[clients[disconnected[n - i + 1]]] = "gone"
      BY <3>1 DEF ListInv, WriterInv, n
    <3>3. clients[disconnected[n - i + 1]] \in Clients
      BY <1>2, <3>1 DEF ListInv, ListType, n
    <3> QED
      BY <3>1, <3>2, <3>3
  <2> HIDE DEF down, n
  <2> QED
    BY <1>3, <2>1
<1> HIDE DEF down, n
<1>6. /\ clients' \in Seq(Clients) /\ IsInjective(clients')
      /\ ToSet(clients') = ToSet(clients) \ {clients[down[i]] : i \in 1 .. Len(down)}
  BY <1>1, <1>4, RemoveEachFalling
<1>7. WriterInv'
  <2>1. Len(clients') \in Nat
    BY <1>6
  <2> QED
    BY <1>1, <2>1 DEF WriterInv
<1>8. MemberInv'
  BY <1>1, <1>5, <1>6 DEF ListInv, MemberInv, OnList
<1> QED
  BY <1>1, <1>6, <1>7, <1>8 DEF ListInv, ListType

LEMMA ListNext == ListInv /\ [Next]_vars => ListInv'
<1> SUFFICES ASSUME ListInv, [Next]_vars PROVE ListInv'
  OBVIOUS
<1>1. CASE UNCHANGED <<clients, conn, backlog, bc, pos, disconnected>>
  BY <1>1 DEF ListInv, ListType, WriterInv, MemberInv, OnList
<1>2. CASE Receive \/ ReceiveLagged
  <2>1. UNCHANGED <<clients, conn, backlog>> /\ bc' \in {"writing", "ended"}
    BY <1>2 DEF Receive, ReceiveLagged, clientVars
  <2>2. \/ pos' = 1 /\ disconnected' = <<>>
        \/ UNCHANGED <<pos, disconnected>> /\ bc' = "ended"
    BY <1>2 DEF Receive, ReceiveLagged
  <2>3. Len(clients) \in Nat
    BY DEF ListInv, ListType
  <2>4. ASSUME pos' = 1, disconnected' = <<>> PROVE WriterInv'
    BY <2>1, <2>3, <2>4 DEF WriterInv
  <2>5. ASSUME UNCHANGED <<pos, disconnected>>, bc' = "ended" PROVE WriterInv'
    BY <2>1, <2>5 DEF ListInv, WriterInv
  <2> QED
    BY <2>1, <2>2, <2>4, <2>5 DEF ListInv, ListType, MemberInv, OnList
<1>3. ASSUME NEW c \in Clients, WriteTo(c) PROVE ListInv'
  BY <1>3, WriteList
<1>4. CASE EndWrite
  BY <1>4, EndWriteList
<1>5. ASSUME NEW c \in Clients, Connect(c) PROVE ListInv'
  BY <1>5, ConnNext DEF Connect, taskVars
<1>6. ASSUME NEW c \in Clients, Accept(c) PROVE ListInv'
  BY <1>6, AcceptList
<1>7. ASSUME NEW c \in Clients, PeerQuit(c) PROVE ListInv'
  BY <1>7, ConnNext DEF PeerQuit, HangUp, taskVars
<1>8. CASE Quit
  BY <1>8, ConnNext, DashboardAssumption DEF Quit, Pressed, HangUp, taskVars
<1>9. CASE Producers
  BY <1>1, <1>9 DEF Producers, SpawnStep, SpawnSingle, Forward, Announce, taskVars, clientVars
<1>10. ASSUME NEW c \in Clients, PeerRead(c) PROVE ListInv'
  BY <1>1, <1>10 DEF PeerRead, taskVars, clientVars
<1>11. CASE ReadLine \/ handle_event \/ CollectorLagged \/ Screen \/ UNCHANGED vars
  BY <1>1, <1>11 DEF ReadLine, handle_event, CollectorLagged, Screen, SwitchTab, Down, Up, JumpEnd,
     JumpTop, Redraw, SnapshotLog, serverVars, taskVars, clientVars, vars
<1> QED
  BY <1>2, <1>3, <1>4, <1>5, <1>6, <1>7, <1>8, <1>9, <1>10, <1>11
  DEF Next, ServerStep, BroadcasterTask

(* A client that went away takes nobody else off the list with it.          *)
THEOREM NobodyElseEverDropped == Spec => []NobodyElseDropped
<1>1. ListInv => NobodyElseDropped
  BY DEF ListInv, ListType, MemberInv, OnList, ToSet, NobodyElseDropped
<1> QED
  BY <1>1, ListInit, ListNext, PTL DEF Spec

(***************************************************************************)
(* The queues.  A full one forgets its oldest element for the new one.      *)
(***************************************************************************)
LEMMA TailType ==
  ASSUME NEW T, NEW s \in Seq(T), s # <<>>
  PROVE  /\ Head(s) \in T /\ Head(s) = s[1] /\ Head(s) \in ToSet(s)
         /\ Len(s) \in Nat \ {0}
         /\ Tail(s) \in Seq(T) /\ Len(Tail(s)) = Len(s) - 1
         /\ \A i \in 1 .. Len(s) - 1 : Tail(s)[i] = s[i + 1]
         /\ ToSet(Tail(s)) \subseteq ToSet(s)
<1>1. Len(s) \in Nat \ {0} /\ 1 \in DOMAIN s /\ Head(s) = s[1] /\ Head(s) \in T
  OBVIOUS
<1>2. /\ Tail(s) \in Seq(T) /\ Len(Tail(s)) = Len(s) - 1
      /\ \A i \in 1 .. Len(s) - 1 : Tail(s)[i] = s[i + 1]
  OBVIOUS
<1>3. Head(s) \in ToSet(s)
  BY <1>1 DEF ToSet
<1> DEFINE t == Tail(s)
<1> HIDE DEF t
<1>4. ToSet(t) \subseteq ToSet(s)
  <2>1. DOMAIN t = 1 .. Len(s) - 1 /\ DOMAIN s = 1 .. Len(s)
    BY <1>1, <1>2 DEF t
  <2>2. \A i \in 1 .. Len(s) - 1 : t[i] = s[i + 1] /\ i + 1 \in 1 .. Len(s)
    BY <1>1, <1>2 DEF t
  <2> QED
    BY <2>1, <2>2 DEF ToSet
<1> QED
  BY <1>1, <1>2, <1>3, <1>4 DEF t

LEMMA PushType ==
  ASSUME NEW T, NEW s \in Seq(T), NEW e \in T
  PROVE  /\ Tail(Append(s, e)) \in Seq(T) /\ Len(Tail(Append(s, e))) = Len(s)
         /\ \A i \in 1 .. Len(s) :
              Tail(Append(s, e))[i] = IF i = Len(s) THEN e ELSE s[i + 1]
         /\ ToSet(Tail(Append(s, e))) \subseteq ToSet(s) \cup {e}
<1> DEFINE t == Append(s, e)
<1>1. /\ t \in Seq(T) /\ Len(t) = Len(s) + 1 /\ t[Len(s) + 1] = e
      /\ \A i \in 1 .. Len(s) : t[i] = s[i]
      /\ ToSet(t) = ToSet(s) \cup {e} /\ Len(s) \in Nat
  BY ToSetAppend
<1> HIDE DEF t
<1>2. t # <<>>
  BY <1>1
<1>3. /\ Tail(t) \in Seq(T) /\ Len(Tail(t)) = Len(t) - 1
      /\ \A i \in 1 .. Len(t) - 1 : Tail(t)[i] = t[i + 1]
      /\ ToSet(Tail(t)) \subseteq ToSet(t)
  BY <1>1, <1>2, TailType
<1>4. ASSUME NEW i \in 1 .. Len(s) PROVE Tail(t)[i] = IF i = Len(s) THEN e ELSE s[i + 1]
  <2>1. Tail(t)[i] = t[i + 1]
    BY <1>1, <1>3
  <2>2. CASE i = Len(s)
    BY <1>1, <2>1, <2>2
  <2>3. CASE i # Len(s)
    <3>1. i + 1 \in 1 .. Len(s)
      BY <1>1, <2>3
    <3> QED
      BY <1>1, <2>1, <2>3, <3>1
  <2> QED
    BY <2>2, <2>3
<1> QED
  BY <1>1, <1>3, <1>4 DEF t

(***************************************************************************)
(* Types.                                                                   *)
(***************************************************************************)
AgentType ==
  /\ setup \in Setups
  /\ started \subseteq Agents
  /\ forwarded \in [Agents -> Nat]
  /\ ended \subseteq StepAgents /\ overtaken \subseteq ended
  /\ sent \in Nat

QueueType ==
  /\ event_rx \in Seq(Event) /\ Len(event_rx) <= Capacity /\ lagged \in BOOLEAN
  /\ sock \in [Clients -> Seq(Event)] /\ \A c \in Clients : Len(sock[c]) <= SocketSize
  /\ feed \in Seq(Event) /\ Len(feed) <= FeedCapacity /\ feed_lagged \in BOOLEAN
  /\ collector \in {"running", "ended"}

LineType ==
  /\ line \in Event \cup {NoEvent}
  /\ bc = "writing" => line \in Event

TableType ==
  /\ agent_metrics \subseteq Agents
  /\ workflow_metrics \in [completed : Nat, failed : Nat, cost : Nat]
  /\ tab \in {"Overview", "EventLog"}

StreamType == AgentType /\ QueueType /\ LineType /\ TableType

LEMMA StreamTypeInit == Init => StreamType
<1> SUFFICES ASSUME Init PROVE StreamType
  OBVIOUS
<1>1. AgentType
  BY DEF Init, BroadcasterInit, AgentType
<1>2. QueueType
  <2>1. <<>> \in Seq(Event) /\ Len(<<>>) = 0
    OBVIOUS
  <2>2. /\ event_rx = <<>> /\ feed = <<>> /\ lagged = FALSE /\ feed_lagged = FALSE
        /\ sock = [c \in Clients |-> <<>>] /\ collector = "running"
    BY DEF Init, BroadcasterInit
  <2>3. sock \in [Clients -> Seq(Event)] /\ \A c \in Clients : sock[c] = <<>>
    BY <2>1, <2>2
  <2>4. 0 <= Capacity /\ 0 <= SocketSize /\ 0 <= FeedCapacity
    BY BroadcasterAssumption, DashboardAssumption
  <2>5. event_rx \in Seq(Event) /\ Len(event_rx) <= Capacity /\ lagged \in BOOLEAN
    BY <2>1, <2>2, <2>4
  <2>6. \A c \in Clients : Len(sock[c]) <= SocketSize
    BY <2>1, <2>3, <2>4
  <2>7. feed \in Seq(Event) /\ Len(feed) <= FeedCapacity /\ feed_lagged \in BOOLEAN
    BY <2>1, <2>2, <2>4
  <2> QED
    BY <2>2, <2>3, <2>5, <2>6, <2>7 DEF QueueType
<1>3. LineType
  BY DEF Init, BroadcasterInit, LineType
<1>4. TableType
  BY DEF Init, TableType, NoMetrics
<1> QED
  BY <1>1, <1>2, <1>3, <1>4 DEF StreamType

New(a, kind) == [n |-> sent + 1, agent |-> a, kind |-> kind]

(* What a call of send does to the channel.                                 *)
LEMMA SendType ==
  ASSUME StreamType, NEW a \in Agents, NEW kind \in EventKind, Send(a, kind)
  PROVE  /\ sent' = sent + 1 /\ New(a, kind) \in Event
         /\ event_rx' \in Seq(Event) /\ Len(event_rx') <= Capacity /\ lagged' \in BOOLEAN
         /\ ToSet(event_rx') \subseteq ToSet(event_rx) \cup {New(a, kind)}
<1> DEFINE new == New(a, kind)
<1>1. new \in Event /\ sent' = sent + 1
  BY DEF New, Event, Send, StreamType, AgentType
<1>2. /\ event_rx \in Seq(Event) /\ Len(event_rx) <= Capacity /\ lagged \in BOOLEAN
      /\ Len(event_rx) \in Nat
  BY DEF StreamType, QueueType
<1>3. \/ UNCHANGED <<event_rx, lagged>>
      \/ event_rx' = Append(event_rx, new) /\ Len(event_rx) < Capacity /\ UNCHANGED lagged
      \/ event_rx' = Tail(Append(event_rx, new)) /\ lagged' = TRUE
  BY DEF Send, New
<1> HIDE DEF new
<1>4. /\ Append(event_rx, new) \in Seq(Event)
      /\ Len(Append(event_rx, new)) = Len(event_rx) + 1
      /\ ToSet(Append(event_rx, new)) = ToSet(event_rx) \cup {new}
  BY <1>1, <1>2, ToSetAppend
<1>5. /\ Tail(Append(event_rx, new)) \in Seq(Event)
      /\ Len(Tail(Append(event_rx, new))) = Len(event_rx)
      /\ ToSet(Tail(Append(event_rx, new))) \subseteq ToSet(event_rx) \cup {new}
  BY <1>1, <1>2, PushType
<1>6. Capacity \in Nat
  BY BroadcasterAssumption
<1>7. CASE UNCHANGED <<event_rx, lagged>>
  BY <1>1, <1>2, <1>7 DEF new
<1>8. CASE event_rx' = Append(event_rx, new) /\ Len(event_rx) < Capacity /\ UNCHANGED lagged
  BY <1>1, <1>2, <1>4, <1>6, <1>8 DEF new
<1>9. CASE event_rx' = Tail(Append(event_rx, new)) /\ lagged' = TRUE
  BY <1>1, <1>2, <1>5, <1>9 DEF new
<1> QED
  BY <1>3, <1>7, <1>8, <1>9

(* What one of the producers does: it sends one event, or none.             *)
ProducerStep(a) == SpawnStep(a) \/ SpawnSingle(a) \/ Forward(a) \/ Announce(a)

LEMMA ProducerSends ==
  ASSUME StreamType, NEW a \in Agents, ProducerStep(a)
  PROVE  /\ UNCHANGED <<setup, taskVars, clients, clientVars, sock>>
         /\ \/ /\ UNCHANGED <<channelVars, forwarded, ended, overtaken>>
            \/ \E kind \in EventKind :
                 /\ Send(a, kind)
                 /\ \/ /\ kind = "running" /\ a \in StepAgents /\ a \notin started
                       /\ UNCHANGED <<forwarded, ended, overtaken>>
                    \/ /\ kind \in OutputKind /\ a \in started /\ forwarded[a] < Len(Output[a])
                       /\ forwarded' = [forwarded EXCEPT ![a] = @ + 1]
                       /\ UNCHANGED <<ended, overtaken>>
                    \/ /\ kind \in EndKind /\ a \in (StepAgents \cap started) \ ended
                       /\ ended' = ended \cup {a} /\ UNCHANGED forwarded
                       /\ overtaken' = IF forwarded[a] < Len(Output[a]) THEN overtaken \cup {a}
                                       ELSE overtaken
         /\ started \subseteq started' /\ started' \subseteq Agents
<1>k. EndKind \subseteq EventKind /\ OutputKind \subseteq EventKind /\ "running" \in EventKind
  BY DEF EventKind
<1>s. started \subseteq Agents
  BY DEF StreamType, AgentType
<1>1. CASE SpawnStep(a)
  BY <1>1, <1>k, <1>s DEF SpawnStep
<1>2. CASE SpawnSingle(a)
  BY <1>2, <1>s DEF SpawnSingle
<1>3. CASE Forward(a)
  <2>1. Output[a] \in Seq(OutputKind) /\ forwarded[a] \in Nat
    BY BroadcasterAssumption DEF StreamType, AgentType
  <2>2. forwarded[a] < Len(Output[a])
    BY <1>3 DEF Forward
  <2>3. Output[a][forwarded[a] + 1] \in OutputKind
    <3>1. forwarded[a] + 1 \in 1 .. Len(Output[a])
      BY <2>1, <2>2
    <3> QED
      BY <2>1, <3>1
  <2> QED
    BY <1>3, <1>k, <1>s, <2>2, <2>3 DEF Forward
<1>4. CASE Announce(a)
  <2>1. Ends \subseteq EndKind
    BY BroadcasterAssumption
  <2> QED
    BY <1>4, <1>k, <1>s, <2>1 DEF Announce
<1> QED
  BY <1>1, <1>2, <1>3, <1>4 DEF ProducerStep

LEMMA OverIpc ==
  ASSUME NEW e \in Event
  PROVE  /\ over_ipc(e) \in Event /\ over_ipc(e).n = e.n /\ over_ipc(e).agent = e.agent
         /\ over_ipc(e).kind \in EndKind <=> e.kind \in EndKind
         /\ over_ipc(e).kind = IF e.kind = "quiet" THEN "line" ELSE e.kind
  BY DEF over_ipc, Event, EventKind, OutputKind, EndKind

(* What the collector's end of the socket does.                             *)
LEMMA ReadLineFeed ==
  ASSUME StreamType, ReadLine
  PROVE  /\ feed' \in Seq(Event) /\ Len(feed') <= FeedCapacity /\ feed_lagged' \in BOOLEAN
         /\ sock' \in [Clients -> Seq(Event)] /\ \A c \in Clients : Len(sock'[c]) <= SocketSize
         /\ ToSet(sock'[Watched]) \subseteq ToSet(sock[Watched])
         /\ ToSet(feed') \subseteq ToSet(feed) \cup ToSet(sock[Watched])
<1> DEFINE s == sock[Watched]
           e == Head(s)
<1>1. /\ s # <<>> /\ sock' = [sock EXCEPT ![Watched] = Tail(s)]
      /\ \/ UNCHANGED feedVars
         \/ feed' = Append(feed, e) /\ Len(feed) < FeedCapacity /\ UNCHANGED feed_lagged
         \/ feed' = Tail(Append(feed, e)) /\ feed_lagged' = TRUE
  BY DEF ReadLine
<1>2. /\ s \in Seq(Event) /\ Len(s) <= SocketSize /\ Len(s) \in Nat
      /\ feed \in Seq(Event) /\ Len(feed) \in Nat /\ Len(feed) <= FeedCapacity
      /\ feed_lagged \in BOOLEAN /\ Watched \in Clients
      /\ FeedCapacity \in Nat /\ SocketSize \in Nat
  BY BroadcasterAssumption, DashboardAssumption DEF StreamType, QueueType
<1> HIDE DEF s
<1>3. /\ e \in Event /\ e \in ToSet(s) /\ Tail(s) \in Seq(Event) /\ Len(Tail(s)) = Len(s) - 1
      /\ ToSet(Tail(s)) \subseteq ToSet(s)
  BY <1>1, <1>2, TailType
<1> HIDE DEF e
<1>4. /\ Append(feed, e) \in Seq(Event) /\ Len(Append(feed, e)) = Len(feed) + 1
      /\ ToSet(Append(feed, e)) = ToSet(feed) \cup {e}
  BY <1>2, <1>3, ToSetAppend
<1>5. /\ Tail(Append(feed, e)) \in Seq(Event) /\ Len(Tail(Append(feed, e))) = Len(feed)
      /\ ToSet(Tail(Append(feed, e))) \subseteq ToSet(feed) \cup {e}
  BY <1>2, <1>3, PushType
<1>6. /\ sock' \in [Clients -> Seq(Event)] /\ \A c \in Clients : Len(sock'[c]) <= SocketSize
      /\ sock'[Watched] = Tail(s)
  BY <1>1, <1>2, <1>3 DEF StreamType, QueueType, s
<1>7. CASE UNCHANGED feedVars
  BY <1>2, <1>3, <1>6, <1>7 DEF feedVars, s
<1>8. CASE feed' = Append(feed, e) /\ Len(feed) < FeedCapacity /\ UNCHANGED feed_lagged
  BY <1>2, <1>3, <1>4, <1>6, <1>8 DEF s
<1>9. CASE feed' = Tail(Append(feed, e)) /\ feed_lagged' = TRUE
  BY <1>2, <1>3, <1>5, <1>6, <1>9 DEF s
<1> QED
  BY <1>1, <1>7, <1>8, <1>9 DEF e, s

(* What goes on at the socket of a client.                                  *)
LEMMA SockNext ==
  ASSUME QueueType, NEW c \in Clients, NEW s \in Seq(Event), Len(s) <= SocketSize,
         sock' = [sock EXCEPT ![c] = s]
  PROVE  sock' \in [Clients -> Seq(Event)] /\ \A d \in Clients : Len(sock'[d]) <= SocketSize
  BY DEF QueueType

LEMMA StreamTypeNext == StreamType /\ [Next]_vars => StreamType'
<1> SUFFICES ASSUME StreamType, [Next]_vars PROVE StreamType'
  OBVIOUS
<1>t. AgentType /\ QueueType /\ LineType /\ TableType
  BY DEF StreamType
<1>a. UNCHANGED agentVars /\ UNCHANGED sent => AgentType'
  BY <1>t DEF agentVars, AgentType
<1>q. UNCHANGED <<event_rx, lagged, sock, feed, feed_lagged, collector>> => QueueType'
  BY <1>t DEF QueueType
<1>l. UNCHANGED <<bc, line>> => LineType'
  BY <1>t DEF LineType
<1>b. UNCHANGED <<agent_metrics, workflow_metrics, tab>> => TableType'
  BY <1>t DEF TableType
<1>n. Capacity \in Nat /\ SocketSize \in Nat /\ FeedCapacity \in Nat
  BY BroadcasterAssumption, DashboardAssumption
<1>0. Watched \in Clients
  BY DashboardAssumption
<1>1. ASSUME NEW a \in Agents, ProducerStep(a), UNCHANGED dashVars PROVE StreamType'
  <2>1. LineType' /\ TableType'
    BY <1>1, <1>b, <1>l, ProducerSends DEF taskVars, dashVars, collectorVars, screenVars
  <2>2. AgentType'
    <3>1. /\ UNCHANGED setup /\ started' \subseteq Agents
          /\ \/ UNCHANGED <<sent, forwarded, ended, overtaken>>
             \/ sent' = sent + 1 /\ UNCHANGED <<forwarded, ended, overtaken>>
             \/ /\ sent' = sent + 1 /\ forwarded' = [forwarded EXCEPT ![a] = @ + 1]
                /\ UNCHANGED <<ended, overtaken>>
             \/ /\ sent' = sent + 1 /\ a \in StepAgents /\ ended' = ended \cup {a}
                /\ overtaken' \subseteq overtaken \cup {a} /\ UNCHANGED forwarded
      BY <1>1, ProducerSends DEF Send, channelVars
    <3> QED
      BY <1>t, <3>1 DEF AgentType
  <2>3. QueueType'
    <3>1. /\ UNCHANGED sock
          /\ UNCHANGED channelVars \/ \E kind \in EventKind : Send(a, kind)
      BY <1>1, ProducerSends
    <3>2. event_rx' \in Seq(Event) /\ Len(event_rx') <= Capacity /\ lagged' \in BOOLEAN
      BY <1>t, <3>1, SendType DEF channelVars, QueueType
    <3> QED
      BY <1>1, <1>t, <3>1, <3>2 DEF QueueType, dashVars, feedVars
  <2> QED
    BY <2>1, <2>2, <2>3 DEF StreamType
<1>2. CASE Receive /\ UNCHANGED dashVars
  <2>1. event_rx \in Seq(Event) /\ event_rx # <<>>
    BY <1>2, <1>t DEF Receive, QueueType
  <2>2. /\ Head(event_rx) \in Event /\ Len(event_rx) \in Nat
        /\ Tail(event_rx) \in Seq(Event) /\ Len(Tail(event_rx)) = Len(event_rx) - 1
    BY <2>1, TailType
  <2>3. LineType'
    BY <1>2, <2>2 DEF Receive, LineType
  <2>4. QueueType'
    BY <1>2, <1>n, <1>t, <2>2 DEF Receive, QueueType, dashVars, feedVars
  <2> QED
    BY <1>2, <1>a, <1>b, <2>3, <2>4
    DEF Receive, StreamType, dashVars, collectorVars, screenVars
<1>3. CASE ReceiveLagged /\ UNCHANGED dashVars
  <2>1. <<>> \in Seq(Event) /\ Len(<<>>) = 0
    OBVIOUS
  <2>2. QueueType'
    BY <1>3, <1>n, <1>t, <2>1 DEF ReceiveLagged, QueueType, dashVars, feedVars
  <2>3. LineType'
    BY <1>3, <1>t DEF ReceiveLagged, LineType
  <2> QED
    BY <1>3, <1>a, <1>b, <2>2, <2>3
    DEF ReceiveLagged, StreamType, dashVars, collectorVars, screenVars
<1>4. ASSUME NEW c \in Clients, WriteTo(c), UNCHANGED dashVars PROVE StreamType'
  <2>1. over_ipc(line) \in Event
    BY <1>4, <1>t, OverIpc DEF WriteTo, LineType
  <2>2. sock' \in [Clients -> Seq(Event)] /\ \A d \in Clients : Len(sock'[d]) <= SocketSize
    <3>1. CASE UNCHANGED sock
      BY <1>t, <3>1 DEF QueueType
    <3>2. CASE Len(sock[c]) < SocketSize /\ sock' = [sock EXCEPT ![c] = Append(@, over_ipc(line))]
      <4>1. sock[c] \in Seq(Event) /\ Len(sock[c]) \in Nat
        BY <1>t DEF QueueType
      <4>2. /\ Append(sock[c], over_ipc(line)) \in Seq(Event)
            /\ Len(Append(sock[c], over_ipc(line))) = Len(sock[c]) + 1
        BY <2>1, <4>1, ToSetAppend
      <4>3. Len(Append(sock[c], over_ipc(line))) <= SocketSize
        BY <1>n, <3>2, <4>1, <4>2
      <4> QED
        BY <1>t, <3>2, <4>2, <4>3, SockNext
    <3> QED
      BY <1>4, <3>1, <3>2 DEF WriteTo
  <2>3. QueueType'
    BY <1>4, <1>t, <2>2 DEF WriteTo, channelVars, dashVars, feedVars, QueueType
  <2> QED
    BY <1>4, <1>a, <1>b, <1>l, <2>3
    DEF WriteTo, StreamType, channelVars, dashVars, collectorVars, screenVars
<1>5. CASE EndWrite /\ UNCHANGED dashVars
  <2>1. LineType'
    BY <1>5 DEF EndWrite, LineType
  <2> QED
    BY <1>5, <1>a, <1>b, <1>q, <2>1
    DEF EndWrite, StreamType, channelVars, dashVars, feedVars, collectorVars, screenVars
<1>6. ASSUME NEW c \in Clients, Connect(c) \/ Accept(c) PROVE StreamType'
  BY <1>6, <1>a, <1>b, <1>l, <1>q
  DEF Connect, Accept, StreamType, channelVars, taskVars, dashVars, feedVars, collectorVars,
      screenVars
<1>7. ASSUME NEW c \in Clients, PeerRead(c) PROVE StreamType'
  <2>1. sock[c] \in Seq(Event) /\ sock[c] # <<>> /\ Len(sock[c]) <= SocketSize
    BY <1>7, <1>t DEF PeerRead, QueueType
  <2>2. /\ Tail(sock[c]) \in Seq(Event) /\ Len(Tail(sock[c])) = Len(sock[c]) - 1
        /\ Len(sock[c]) \in Nat
    BY <2>1, TailType
  <2>3. Len(Tail(sock[c])) <= SocketSize
    BY <1>n, <2>1, <2>2
  <2>4. sock' = [sock EXCEPT ![c] = Tail(sock[c])]
    BY <1>7 DEF PeerRead
  <2>5. sock' \in [Clients -> Seq(Event)] /\ \A d \in Clients : Len(sock'[d]) <= SocketSize
    BY <1>t, <2>2, <2>3, <2>4, SockNext
  <2>6. QueueType'
    BY <1>7, <1>t, <2>5 DEF PeerRead, channelVars, dashVars, feedVars, QueueType
  <2> QED
    BY <1>7, <1>a, <1>b, <1>l, <2>6
    DEF PeerRead, StreamType, channelVars, taskVars, dashVars, collectorVars, screenVars
<1>8. ASSUME NEW c \in Clients, HangUp(c), UNCHANGED <<agentVars, channelVars, taskVars, dashVars>>
      PROVE  StreamType'
  <2>1. <<>> \in Seq(Event) /\ Len(<<>>) = 0 /\ 0 <= SocketSize
    BY <1>n
  <2>2. sock' \in [Clients -> Seq(Event)] /\ \A d \in Clients : Len(sock'[d]) <= SocketSize
    BY <1>8, <1>t, <2>1, SockNext DEF HangUp
  <2>3. QueueType'
    BY <1>8, <1>t, <2>2 DEF channelVars, dashVars, feedVars, QueueType
  <2> QED
    BY <1>8, <1>a, <1>b, <1>l, <2>3
    DEF StreamType, channelVars, taskVars, dashVars, collectorVars, screenVars
<1>9. CASE ReadLine
  <2>1. QueueType'
    BY <1>9, <1>t, ReadLineFeed DEF ReadLine, QueueType, channelVars
  <2> QED
    BY <1>9, <1>a, <1>b, <1>l, <2>1
    DEF ReadLine, StreamType, channelVars, taskVars, collectorVars, screenVars
<1>10. CASE handle_event
  <2>1. feed \in Seq(Event) /\ feed # <<>>
    BY <1>10, <1>t DEF handle_event, QueueType
  <2>2. /\ Head(feed) \in Event /\ Len(feed) \in Nat
        /\ Tail(feed) \in Seq(Event) /\ Len(Tail(feed)) = Len(feed) - 1
    BY <2>1, TailType
  <2>3. QueueType'
    BY <1>10, <1>n, <1>t, <2>2
    DEF handle_event, QueueType, serverVars, channelVars
  <2>4. TableType'
    <3>1. /\ agent_metrics' = IF Head(feed).kind = "metrics"
                              THEN agent_metrics \cup {Head(feed).agent} ELSE agent_metrics
          /\ workflow_metrics' = totals(Head(feed)) /\ tab' = tab
      BY <1>10 DEF handle_event, screenVars
    <3>2. Head(feed).agent \in Agents
      BY <2>2 DEF Event
    <3>3. totals(Head(feed)) \in [completed : Nat, failed : Nat, cost : Nat]
      BY <1>t DEF totals, TableType
    <3> QED
      BY <1>t, <3>1, <3>2, <3>3 DEF TableType
  <2> QED
    BY <1>10, <1>a, <1>l, <2>3, <2>4
    DEF handle_event, StreamType, serverVars, channelVars, taskVars
<1>11. CASE CollectorLagged
  <2>1. <<>> \in Seq(Event) /\ Len(<<>>) = 0
    OBVIOUS
  <2>2. QueueType'
    BY <1>11, <1>n, <1>t, <2>1 DEF CollectorLagged, QueueType, serverVars, channelVars
  <2> QED
    BY <1>11, <1>a, <1>b, <1>l, <2>2
    DEF CollectorLagged, StreamType, serverVars, channelVars, taskVars, collectorVars, screenVars
<1>12. CASE Screen
  <2>1. /\ UNCHANGED <<serverVars, feedVars, collector, collectorVars>>
        /\ tab' \in {"Overview", "EventLog"}
    BY <1>12, <1>t
    DEF Screen, SwitchTab, Down, Up, JumpEnd, JumpTop, Redraw, SnapshotLog, TableType
  <2>2. TableType'
    BY <1>t, <2>1 DEF TableType, collectorVars
  <2> QED
    BY <1>a, <1>l, <1>q, <2>1, <2>2
    DEF StreamType, serverVars, channelVars, taskVars, feedVars
<1>13. CASE UNCHANGED vars
  BY <1>13, <1>a, <1>b, <1>l, <1>q
  DEF vars, StreamType, serverVars, channelVars, taskVars, dashVars, feedVars, collectorVars,
      screenVars
<1> QED
  BY <1>0, <1>1, <1>2, <1>3, <1>4, <1>5, <1>6, <1>7, <1>8, <1>9, <1>10, <1>11, <1>12, <1>13
  DEF Next, ServerStep, Producers, ProducerStep, BroadcasterTask, PeerQuit, Quit

(***************************************************************************)
(* The numbering.  From the moment it is on the list, what the followed     *)
(* dashboard has not handled yet is numbered without a gap: the channel of  *)
(* its collector, then its socket, then the line that is still to be        *)
(* written to it, then the broadcast channel.  An overflow of either        *)
(* channel breaks the numbering only behind the end of what is handled.     *)
(***************************************************************************)
Newcomer == conn[Watched] = "out" \/ Watched \in backlog

QuietInv ==
  /\ Newcomer => feed = <<>> /\ sock[Watched] = <<>> /\ ~ feed_lagged /\ seen = {}
  /\ collector = "ended" => feed_lagged

LEMMA QuietInit == Init => QuietInv
  BY DashboardAssumption DEF Init, BroadcasterInit, QuietInv

LEMMA QuietNext == StreamType /\ ListInv /\ QuietInv /\ [Next]_vars => QuietInv'
<1> SUFFICES ASSUME StreamType, ListInv, QuietInv, [Next]_vars PROVE QuietInv'
  OBVIOUS
<1>t. /\ Watched \in Clients /\ sock \in [Clients -> Seq(Event)]
      /\ conn \in [Clients -> {"out", "up", "gone"}] /\ collector \in {"running", "ended"}
      /\ feed_lagged \in BOOLEAN
  BY DashboardAssumption DEF StreamType, QueueType, ListInv, ListType
<1>1. ASSUME UNCHANGED <<feed, feed_lagged, seen, collector>>, sock'[Watched] = sock[Watched],
             Newcomer' => Newcomer
      PROVE  QuietInv'
  BY <1>1 DEF QuietInv
<1>2. ASSUME UNCHANGED <<feed, feed_lagged, seen, collector, sock, conn, backlog>> PROVE QuietInv'
  BY <1>1, <1>2 DEF Newcomer
<1>3. CASE Producers /\ UNCHANGED dashVars
  BY <1>2, <1>3 DEF Producers, SpawnStep, SpawnSingle, Forward, Announce, clientVars, dashVars,
     feedVars, collectorVars
<1>4. CASE (Receive \/ ReceiveLagged \/ EndWrite) /\ UNCHANGED dashVars
  BY <1>2, <1>4 DEF Receive, ReceiveLagged, EndWrite, clientVars, dashVars, feedVars, collectorVars
<1>5. ASSUME NEW c \in Clients, WriteTo(c), UNCHANGED dashVars PROVE QuietInv'
  <2>1. UNCHANGED <<feed, feed_lagged, seen, collector, conn, backlog>>
    BY <1>5 DEF WriteTo, clientVars, dashVars, feedVars, collectorVars
  <2>2. CASE c # Watched
    <3>1. sock'[Watched] = sock[Watched]
      BY <1>5, <1>t, <2>2 DEF WriteTo
    <3> QED
      BY <1>1, <2>1, <3>1 DEF Newcomer
  <2>3. CASE c = Watched
    <3>1. OnList(Watched)
      <4>1. /\ pos \in DOMAIN clients /\ clients[pos] = Watched
        BY <1>5, <2>3 DEF WriteTo, ListInv, WriterInv, ListType
      <4> QED
        BY <4>1 DEF OnList, ToSet
    <3>2. ~ Newcomer
      BY <1>t, <3>1 DEF ListInv, MemberInv, Newcomer
    <3> QED
      BY <2>1, <3>2 DEF QuietInv, Newcomer
  <2> QED
    BY <2>2, <2>3
<1>6. ASSUME NEW c \in Clients, Connect(c) PROVE QuietInv'
  <2>1. /\ UNCHANGED <<feed, feed_lagged, seen, collector, sock>>
        /\ conn[c] = "out" /\ conn' = [conn EXCEPT ![c] = "up"] /\ backlog' = backlog \cup {c}
    BY <1>6 DEF Connect, dashVars, feedVars, collectorVars
  <2>2. Newcomer' => Newcomer
    BY <1>t, <2>1 DEF Newcomer
  <2> QED
    BY <1>1, <2>1, <2>2
<1>7. ASSUME NEW c \in Clients, Accept(c) PROVE QuietInv'
  BY <1>1, <1>7 DEF Accept, feedVars, Newcomer
<1>8. ASSUME NEW c \in Clients, PeerRead(c) \/ PeerQuit(c) PROVE QuietInv'
  <2>1. /\ UNCHANGED <<feed, feed_lagged, seen, collector, backlog>> /\ c # Watched
        /\ UNCHANGED conn \/ conn' = [conn EXCEPT ![c] = "gone"]
        /\ sock' = [sock EXCEPT ![c] = Tail(@)] \/ sock' = [sock EXCEPT ![c] = <<>>]
    BY <1>8 DEF PeerRead, PeerQuit, HangUp, Peers, clientVars, dashVars, feedVars, collectorVars
  <2>2. sock'[Watched] = sock[Watched] /\ conn'[Watched] = conn[Watched]
    BY <1>t, <2>1
  <2> QED
    BY <1>1, <2>1, <2>2 DEF Newcomer
<1>9. CASE Quit
  <2>1. /\ UNCHANGED <<feed, feed_lagged, seen, collector, backlog>>
        /\ conn' = [conn EXCEPT ![Watched] = "gone"] /\ sock' = [sock EXCEPT ![Watched] = <<>>]
    BY <1>9 DEF Quit, HangUp, dashVars, feedVars, collectorVars
  <2>2. sock'[Watched] = <<>> /\ (Newcomer' => Newcomer)
    BY <1>t, <2>1 DEF Newcomer
  <2> QED
    BY <2>1, <2>2 DEF QuietInv
<1>10. CASE ReadLine
  <2>1. ~ Newcomer /\ UNCHANGED <<conn, backlog, collector>>
        /\ (collector = "ended" => UNCHANGED feed_lagged)
    BY <1>10, <1>t DEF ReadLine, QuietInv, Newcomer, clientVars, feedVars
  <2> QED
    BY <1>t, <2>1 DEF QuietInv, Newcomer
<1>11. CASE handle_event
  <2>1. ~ Newcomer /\ UNCHANGED <<conn, backlog, collector, feed_lagged>>
    BY <1>11 DEF handle_event, QuietInv, serverVars, clientVars
  <2> QED
    BY <2>1 DEF QuietInv, Newcomer
<1>12. CASE CollectorLagged
  <2>1. ~ Newcomer /\ UNCHANGED <<conn, backlog, feed_lagged>> /\ feed_lagged
    BY <1>12 DEF CollectorLagged, QuietInv, serverVars, clientVars
  <2> QED
    BY <2>1 DEF QuietInv, Newcomer
<1>13. CASE Screen \/ UNCHANGED vars
  BY <1>2, <1>13 DEF Screen, SwitchTab, Down, Up, JumpEnd, JumpTop, Redraw, SnapshotLog, vars,
     serverVars,
     clientVars, dashVars, feedVars, collectorVars
<1> QED
  BY <1>3, <1>4, <1>5, <1>6, <1>7, <1>8, <1>9, <1>10, <1>11, <1>12, <1>13
  DEF Next, ServerStep, BroadcasterTask

(* The broadcast channel holds the last events that were sent.              *)
Received == sent - Len(event_rx)

RxInv ==
  /\ Len(event_rx) <= sent
  /\ bc = "ended" => event_rx = <<>>
  /\ \A i \in 1 .. Len(event_rx) : event_rx[i].n = Received + i
  /\ bc = "writing" /\ ~ lagged => line.n = Received

LEMMA RxInit == Init => RxInv
  BY DEF Init, BroadcasterInit, RxInv, Received

LEMMA SendRx ==
  ASSUME StreamType, RxInv, NEW a \in Agents, NEW kind \in EventKind, Send(a, kind),
         UNCHANGED <<bc, line>>
  PROVE  RxInv' /\ (bc # "ended" /\ ~ lagged' => ~ lagged /\ Received' = Received)
<1> DEFINE new == New(a, kind)
           n == Len(event_rx)
<1>1. /\ new \in Event /\ new.n = sent + 1 /\ sent' = sent + 1 /\ sent \in Nat
      /\ event_rx \in Seq(Event) /\ n \in Nat /\ n <= sent /\ Received \in Nat
  <2>1. new \in Event /\ sent' = sent + 1
    BY SendType
  <2>2. new.n = sent + 1
    BY DEF New
  <2>3. /\ sent \in Nat /\ event_rx \in Seq(Event) /\ n \in Nat /\ n <= sent
    BY DEF StreamType, AgentType, QueueType, RxInv
  <2>4. Received \in Nat
    BY <2>3 DEF Received
  <2> QED
    BY <2>1, <2>2, <2>3, <2>4
<1>2. \/ bc = "ended" /\ UNCHANGED <<event_rx, lagged>>
      \/ bc # "ended" /\ event_rx' = Append(event_rx, new) /\ UNCHANGED lagged
      \/ bc # "ended" /\ event_rx' = Tail(Append(event_rx, new)) /\ lagged' = TRUE
  BY DEF Send, New
<1> HIDE DEF new
<1>3. CASE bc = "ended" /\ UNCHANGED <<event_rx, lagged>>
  <2>1. event_rx' = <<>> /\ bc' = "ended"
    BY <1>3 DEF RxInv
  <2> QED
    BY <1>1, <1>3, <2>1 DEF RxInv, Received
<1>4. CASE bc # "ended" /\ event_rx' = Append(event_rx, new) /\ UNCHANGED lagged
  <2>1. /\ Len(event_rx') = n + 1 /\ event_rx'[n + 1] = new
        /\ \A i \in 1 .. n : event_rx'[i] = event_rx[i]
    BY <1>1, <1>4, ToSetAppend
  <2>2. Received' = Received
    BY <1>1, <2>1 DEF Received
  <2>3. \A i \in 1 .. n : event_rx[i].n = Received + i
    BY DEF RxInv
  <2>4. new.n = Received + (n + 1)
    BY <1>1 DEF Received
  <2> HIDE DEF n
  <2>5. \A i \in 1 .. n + 1 : i \in 1 .. n \/ i = n + 1
    BY <1>1
  <2>6. \A i \in 1 .. Len(event_rx') : event_rx'[i].n = Received' + i
    BY <2>1, <2>2, <2>3, <2>4, <2>5
  <2>7. Len(event_rx') <= sent'
    BY <1>1, <2>1
  <2> QED
    BY <1>4, <2>2, <2>6, <2>7 DEF RxInv
<1>5. CASE bc # "ended" /\ event_rx' = Tail(Append(event_rx, new)) /\ lagged' = TRUE
  <2>1. /\ Len(event_rx') = n
        /\ \A i \in 1 .. n : event_rx'[i] = IF i = n THEN new ELSE event_rx[i + 1]
    BY <1>1, <1>5, PushType
  <2>2. Received' = Received + 1
    BY <1>1, <2>1 DEF Received
  <2>3. \A i \in 1 .. n : event_rx[i].n = Received + i
    BY DEF RxInv
  <2>4. new.n = (Received + 1) + n
    BY <1>1 DEF Received
  <2> HIDE DEF n
  <2>5. ASSUME NEW i \in 1 .. n PROVE event_rx'[i].n = (Received + 1) + i
    <3>1. CASE i = n
      BY <2>1, <2>4, <3>1
    <3>2. CASE i # n
      <4>1. i + 1 \in 1 .. n
        BY <1>1, <3>2
      <4> QED
        BY <1>1, <2>1, <2>3, <3>2, <4>1
    <3> QED
      BY <3>1, <3>2
  <2>6. Len(event_rx') <= sent'
    BY <1>1, <2>1
  <2> QED
    BY <1>5, <2>1, <2>2, <2>5, <2>6 DEF RxInv
<1> QED
  BY <1>2, <1>3, <1>4, <1>5

LEMMA RxNext == StreamType /\ RxInv /\ [Next]_vars => RxInv'
<1> SUFFICES ASSUME StreamType, RxInv, [Next]_vars PROVE RxInv'
  OBVIOUS
<1>1. CASE UNCHANGED <<sent, event_rx, bc, lagged, line>>
  BY <1>1 DEF RxInv, Received
<1>2. ASSUME NEW a \in Agents, ProducerStep(a) PROVE RxInv'
  <2>1. /\ UNCHANGED <<bc, line>>
        /\ UNCHANGED channelVars \/ \E kind \in EventKind : Send(a, kind)
    BY <1>2, ProducerSends DEF taskVars
  <2>2. CASE UNCHANGED channelVars
    BY <1>1, <2>1, <2>2 DEF channelVars
  <2> QED
    BY <2>1, <2>2, SendRx
<1>3. CASE Receive
  <2>1. /\ event_rx \in Seq(Event) /\ event_rx # <<>> /\ line' = Head(event_rx) /\ ~ lagged
        /\ event_rx' = Tail(event_rx) /\ UNCHANGED <<sent, lagged>> /\ bc' = "writing"
    BY <1>3 DEF Receive, StreamType, QueueType
  <2>2. /\ Head(event_rx) = event_rx[1] /\ Len(event_rx) \in Nat \ {0}
        /\ Len(event_rx') = Len(event_rx) - 1
        /\ \A i \in 1 .. Len(event_rx) - 1 : event_rx'[i] = event_rx[i + 1]
    BY <2>1, TailType
  <2>3. sent \in Nat /\ Len(event_rx) <= sent /\ Received \in Nat
    BY <2>2 DEF StreamType, AgentType, RxInv, Received
  <2>4. Received' = Received + 1
    BY <2>1, <2>2, <2>3 DEF Received
  <2>5. \A i \in 1 .. Len(event_rx) : event_rx[i].n = Received + i
    BY DEF RxInv
  <2>6. line'.n = Received'
    <3>1. 1 \in 1 .. Len(event_rx)
      BY <2>2
    <3> QED
      BY <2>1, <2>2, <2>4, <2>5, <3>1
  <2>7. ASSUME NEW i \in 1 .. Len(event_rx') PROVE event_rx'[i].n = Received' + i
    <3>1. i \in 1 .. Len(event_rx) - 1 /\ i + 1 \in 1 .. Len(event_rx)
      BY <2>2
    <3> QED
      BY <2>2, <2>3, <2>4, <2>5, <3>1
  <2>8. Len(event_rx') <= sent'
    BY <2>1, <2>2, <2>3
  <2> QED
    BY <2>1, <2>6, <2>7, <2>8 DEF RxInv
<1>4. CASE ReceiveLagged
  <2>1. event_rx' = <<>> /\ sent' = sent /\ bc' = "ended" /\ sent \in Nat
    BY <1>4 DEF ReceiveLagged, StreamType, AgentType
  <2> QED
    BY <2>1 DEF RxInv
<1>5. ASSUME NEW c \in Clients, WriteTo(c) PROVE RxInv'
  BY <1>1, <1>5 DEF WriteTo, channelVars
<1>6. CASE EndWrite
  <2>1. UNCHANGED <<sent, event_rx, lagged>> /\ bc' = "recv"
    BY <1>6 DEF EndWrite, channelVars
  <2> QED
    BY <2>1 DEF RxInv, Received
<1>7. ASSUME NEW c \in Clients, Connect(c) \/ Accept(c) \/ PeerRead(c) \/ PeerQuit(c) PROVE RxInv'
  BY <1>1, <1>7 DEF Connect, Accept, PeerRead, PeerQuit, channelVars, taskVars
<1>8. CASE ReadLine \/ handle_event \/ CollectorLagged \/ Quit \/ Screen \/ UNCHANGED vars
  BY <1>1, <1>8 DEF ReadLine, handle_event, CollectorLagged, Quit, Screen, SwitchTab, Down, Up,
     JumpEnd, JumpTop, Redraw, SnapshotLog, vars, serverVars, channelVars, taskVars
<1> QED
  BY <1>2, <1>3, <1>4, <1>5, <1>6, <1>7, <1>8
  DEF Next, ServerStep, Producers, ProducerStep, BroadcasterTask

Following == conn[Watched] = "up" /\ Watched \notin backlog /\ ~ feed_lagged
InOrder(s, n) == \A i \in 1 .. Len(s) : s[i].n = n + i

FollowInv ==
  /\ last \in Nat
  /\ Following =>
       /\ InOrder(feed, last)
       /\ InOrder(sock[Watched], last + Len(feed))
       /\ bc = "writing" => line.n = IF Waiting THEN Arrived + 1 ELSE Arrived
       /\ bc = "recv" /\ ~ lagged => Received = Arrived

LEMMA FollowInit == Init => FollowInv
<1> SUFFICES ASSUME Init PROVE FollowInv
  OBVIOUS
<1>1. last = 0 /\ conn[Watched] = "out"
  BY DashboardAssumption DEF Init, BroadcasterInit
<1> QED
  BY <1>1 DEF FollowInv, Following

LEMMA TailInOrder ==
  ASSUME NEW s \in Seq(Event), s # <<>>, NEW n \in Nat, InOrder(s, n)
  PROVE  Head(s).n = n + 1 /\ InOrder(Tail(s), n + 1)
<1>1. /\ Head(s) = s[1] /\ Len(s) \in Nat \ {0} /\ Len(Tail(s)) = Len(s) - 1
      /\ \A i \in 1 .. Len(s) - 1 : Tail(s)[i] = s[i + 1]
  BY TailType
<1>2. \A i \in 1 .. Len(s) : s[i].n = n + i
  BY DEF InOrder
<1>3. 1 \in 1 .. Len(s)
  BY <1>1
<1>4. ASSUME NEW i \in 1 .. Len(Tail(s)) PROVE Tail(s)[i].n = (n + 1) + i
  <2>1. i \in 1 .. Len(s) - 1 /\ i + 1 \in 1 .. Len(s)
    BY <1>1
  <2>2. Tail(s)[i] = s[i + 1] /\ s[i + 1].n = n + (i + 1)
    BY <1>1, <1>2, <2>1
  <2>3. n + (i + 1) = (n + 1) + i
    BY <2>1
  <2> QED
    BY <2>2, <2>3
<1> QED
  BY <1>1, <1>2, <1>3, <1>4 DEF InOrder

LEMMA AppendInOrder ==
  ASSUME NEW s \in Seq(Event), NEW n \in Nat, InOrder(s, n), NEW e \in Event, e.n = n + Len(s) + 1
  PROVE  InOrder(Append(s, e), n)
<1>1. /\ Len(Append(s, e)) = Len(s) + 1 /\ Append(s, e)[Len(s) + 1] = e /\ Len(s) \in Nat
      /\ \A i \in 1 .. Len(s) : Append(s, e)[i] = s[i]
  BY ToSetAppend
<1>2. \A i \in 1 .. Len(s) : s[i].n = n + i
  BY DEF InOrder
<1>3. ASSUME NEW i \in 1 .. Len(s) + 1 PROVE Append(s, e)[i].n = n + i
  <2>1. CASE i \in 1 .. Len(s)
    BY <1>1, <1>2, <2>1
  <2>2. CASE i = Len(s) + 1
    BY <1>1, <2>2
  <2> QED
    BY <1>1, <2>1, <2>2
<1> QED
  BY <1>1, <1>3 DEF InOrder

(* Nothing that the followed dashboard can see happens.                     *)
LEMMA FollowUnseen ==
  ASSUME StreamType, ListInv, FollowInv, UNCHANGED <<feed, last>>,
         sock'[Watched] = sock[Watched], Following' => Following,
         bc' = "writing" =>
           \/ bc = "writing" /\ line' = line /\ (Waiting' <=> Waiting)
           \/ Following /\ Waiting' /\ line'.n = Arrived + 1,
         Following /\ bc' = "recv" /\ ~ lagged' => Received' = Arrived
  PROVE  FollowInv'
<1>1. Arrived' = Arrived
  BY DEF Arrived
<1>2. last' \in Nat
  BY DEF FollowInv
<1>3. ASSUME Following'
      PROVE  /\ InOrder(feed', last') /\ InOrder(sock'[Watched], last' + Len(feed'))
             /\ bc' = "writing" => line'.n = IF Waiting' THEN Arrived' + 1 ELSE Arrived'
             /\ bc' = "recv" /\ ~ lagged' => Received' = Arrived'
  <2>1. Following
    BY <1>3
  <2>2. InOrder(feed, last) /\ InOrder(sock[Watched], last + Len(feed))
    BY <2>1 DEF FollowInv
  <2>3. bc = "writing" => line.n = IF Waiting THEN Arrived + 1 ELSE Arrived
    BY <2>1 DEF FollowInv
  <2> QED
    BY <1>1, <2>1, <2>2, <2>3
<1> QED
  BY <1>2, <1>3 DEF FollowInv

LEMMA FollowWrite ==
  ASSUME StreamType, ListInv, FollowInv, NEW c \in Clients, WriteTo(c), UNCHANGED dashVars
  PROVE  FollowInv'
<1>1. /\ bc = "writing" /\ bc' = "writing" /\ line' = line /\ pos' = pos + 1
      /\ UNCHANGED <<clients, conn, backlog, feed, feed_lagged, last>>
      /\ pos <= Len(clients) /\ clients[pos] = c
  BY DEF WriteTo, clientVars, dashVars, feedVars, collectorVars
<1>2. /\ pos \in 1 .. Len(clients) /\ Len(clients) \in Nat
      /\ \A i, j \in 1 .. Len(clients) : clients[i] = clients[j] => i = j
      /\ Watched \in Clients /\ sock \in [Clients -> Seq(Event)] /\ line \in Event
      /\ feed \in Seq(Event)
  BY <1>1, DashboardAssumption
  DEF StreamType, QueueType, LineType, ListInv, ListType, WriterInv, IsInjective
<1>3. Following' <=> Following
  BY <1>1 DEF Following
<1>4. CASE c # Watched
  <2>1. sock'[Watched] = sock[Watched]
    BY <1>2, <1>4 DEF WriteTo
  <2>2. Waiting' <=> Waiting
    <3>1. \A i \in pos .. Len(clients) : i = pos \/ i \in pos + 1 .. Len(clients)
      BY <1>2
    <3>2. pos + 1 .. Len(clients) \subseteq pos .. Len(clients)
      BY <1>2
    <3> QED
      BY <1>1, <1>4, <3>1, <3>2 DEF Waiting
  <2> QED
    BY <1>1, <1>3, <2>1, <2>2, FollowUnseen
<1>5. CASE c = Watched /\ ~ Following
  <2>1. ~ Following' /\ last' \in Nat
    BY <1>1, <1>3, <1>5 DEF FollowInv
  <2> QED
    BY <2>1 DEF FollowInv
<1>6. CASE c = Watched /\ Following
  <2> DEFINE s == sock[Watched]
             e == over_ipc(line)
  <2>1. sock' = [sock EXCEPT ![Watched] = Append(s, e)]
    BY <1>6 DEF WriteTo, Following
  <2>2. Waiting /\ ~ Waiting'
    <3>1. pos \in pos .. Len(clients)
      BY <1>2
    <3>2. \A i \in pos + 1 .. Len(clients) : i \in 1 .. Len(clients) /\ i # pos
      BY <1>2
    <3> QED
      BY <1>1, <1>2, <1>6, <3>1, <3>2 DEF Waiting
  <2>3. /\ InOrder(feed, last) /\ InOrder(s, last + Len(feed)) /\ line.n = Arrived + 1
        /\ last \in Nat
    BY <1>1, <1>6, <2>2 DEF FollowInv
  <2>4. s \in Seq(Event) /\ e \in Event /\ e.n = line.n
    BY <1>2, OverIpc
  <2>5. sock'[Watched] = Append(s, e)
    BY <1>2, <2>1
  <2> HIDE DEF e
  <2>6. Len(feed) \in Nat /\ Len(s) \in Nat /\ last + Len(feed) \in Nat
    BY <1>2, <2>3, <2>4
  <2>7. e.n = (last + Len(feed)) + Len(s) + 1
    BY <2>3, <2>4, <2>6 DEF Arrived
  <2>8. InOrder(sock'[Watched], last + Len(feed))
    BY <2>3, <2>4, <2>5, <2>6, <2>7, AppendInOrder
  <2>9. line.n = Arrived'
    <3>1. Len(Append(s, e)) = Len(s) + 1
      BY <2>4, ToSetAppend
    <3>2. Arrived' = last + Len(feed) + Len(Append(s, e))
      BY <1>1, <2>5 DEF Arrived
    <3> HIDE DEF s
    <3>3. Arrived = last + Len(feed) + Len(s)
      BY DEF Arrived, s
    <3> QED
      BY <2>3, <2>6, <3>1, <3>2, <3>3
  <2> QED
    BY <1>1, <2>2, <2>3, <2>8, <2>9 DEF FollowInv
<1> QED
  BY <1>4, <1>5, <1>6

LEMMA FollowReadLine ==
  ASSUME StreamType, ListInv, QuietInv, FollowInv, ReadLine PROVE FollowInv'
<1> DEFINE s == sock[Watched]
           e == Head(s)
<1>1. /\ UNCHANGED <<bc, line, pos, clients, conn, backlog, lagged, sent, event_rx, last, collector>>
      /\ s # <<>> /\ sock' = [sock EXCEPT ![Watched] = Tail(s)]
  BY DEF ReadLine, channelVars, taskVars, clientVars, collectorVars
<1>2. /\ s \in Seq(Event) /\ feed \in Seq(Event) /\ last \in Nat /\ Len(feed) \in Nat
      /\ Watched \in Clients /\ sock \in [Clients -> Seq(Event)]
  BY DashboardAssumption DEF StreamType, QueueType, FollowInv
<1>3. CASE ~ Following'
  BY <1>1, <1>3 DEF FollowInv
<1>4. CASE Following'
  <2>1. feed' = Append(feed, e) /\ Following
    <3>1. \/ UNCHANGED feedVars /\ collector = "ended"
          \/ feed' = Append(feed, e) /\ UNCHANGED feed_lagged
          \/ feed_lagged' = TRUE
      BY DEF ReadLine
    <3>2. ~ feed_lagged'
      BY <1>4 DEF Following
    <3>3. CASE UNCHANGED feedVars /\ collector = "ended"
      BY <3>2, <3>3 DEF QuietInv, feedVars
    <3>4. CASE feed' = Append(feed, e) /\ UNCHANGED feed_lagged
      BY <1>1, <1>4, <3>4 DEF Following
    <3> QED
      BY <3>1, <3>2, <3>3, <3>4
  <2>2. InOrder(feed, last) /\ InOrder(s, last + Len(feed))
    BY <2>1 DEF FollowInv
  <2>3. sock'[Watched] = Tail(s)
    BY <1>1, <1>2
  <2> HIDE DEF s
  <2>4. e.n = last + Len(feed) + 1 /\ InOrder(Tail(s), (last + Len(feed)) + 1)
    BY <1>1, <1>2, <2>2, TailInOrder
  <2>5. e \in Event /\ Len(s) \in Nat \ {0} /\ Len(Tail(s)) = Len(s) - 1
    BY <1>1, <1>2, TailType
  <2> HIDE DEF e
  <2>6. InOrder(feed', last) /\ Len(feed') = Len(feed) + 1
    BY <1>2, <2>1, <2>2, <2>4, <2>5, AppendInOrder, ToSetAppend
  <2>7. InOrder(sock'[Watched], last + Len(feed'))
    <3>1. last + Len(feed') = (last + Len(feed)) + 1
      BY <1>2, <2>6
    <3> QED
      BY <2>3, <2>4, <3>1
  <2>8. Arrived' = Arrived
    BY <1>1, <1>2, <2>3, <2>5, <2>6 DEF Arrived, s
  <2>9. (Waiting' <=> Waiting) /\ Received' = Received
    BY <1>1 DEF Waiting, Received
  <2> QED
    BY <1>1, <2>1, <2>6, <2>7, <2>8, <2>9 DEF FollowInv
<1> QED
  BY <1>3, <1>4

(* The collector handles the event that is next.                            *)
LEMMA HandlesNext ==
  ASSUME StreamType, QuietInv, FollowInv, handle_event
  PROVE  /\ Following /\ feed \in Seq(Event) /\ feed # <<>> /\ last \in Nat
         /\ Head(feed).n = last + 1 /\ last' = last + 1
         /\ InOrder(Tail(feed), last + 1)
<1>1. /\ conn[Watched] = "up" /\ ~ feed_lagged /\ feed # <<>> /\ last' = Head(feed).n
      /\ feed \in Seq(Event) /\ last \in Nat
  BY DEF handle_event, StreamType, QueueType, FollowInv
<1>2. Following
  BY <1>1 DEF QuietInv, Newcomer, Following
<1>3. InOrder(feed, last)
  BY <1>2 DEF FollowInv
<1> QED
  BY <1>1, <1>2, <1>3, TailInOrder

LEMMA FollowHandle ==
  ASSUME StreamType, ListInv, QuietInv, FollowInv, handle_event PROVE FollowInv'
<1>1. /\ Following /\ feed \in Seq(Event) /\ feed # <<>> /\ last \in Nat
      /\ last' = last + 1 /\ InOrder(Tail(feed), last + 1)
  BY HandlesNext
<1>2. feed' = Tail(feed) /\ UNCHANGED <<serverVars, feed_lagged>>
  BY DEF handle_event
<1>3. /\ UNCHANGED <<bc, line, pos, clients, conn, backlog, lagged, sent, event_rx, sock>>
  BY <1>2 DEF serverVars, channelVars, taskVars, clientVars
<1>4. Len(feed) \in Nat \ {0} /\ Len(feed') = Len(feed) - 1
  BY <1>1, <1>2, TailType
<1>5. last' + Len(feed') = last + Len(feed)
  BY <1>1, <1>4
<1>6. Arrived' = Arrived /\ (Waiting' <=> Waiting) /\ Received' = Received
  BY <1>3, <1>5 DEF Arrived, Waiting, Received
<1>7. InOrder(sock[Watched], last + Len(feed))
  BY <1>1 DEF FollowInv
<1> QED
  BY <1>1, <1>2, <1>3, <1>5, <1>6, <1>7 DEF FollowInv

(* It is put on the list where the forwarding task stands.                  *)
LEMMA FollowAccept ==
  ASSUME StreamType, ListInv, QuietInv, RxInv, FollowInv, NEW c \in Clients, Accept(c)
  PROVE  FollowInv'
<1>1. /\ c \in backlog /\ bc # "writing" /\ backlog' = backlog \ {c}
      /\ UNCHANGED <<bc, line, pos, conn, lagged, sent, event_rx, sock, feed, feed_lagged>>
      /\ last' = IF c = Watched THEN taken ELSE last
  BY DEF Accept, Acceptable, channelVars, taskVars, feedVars
<1>2. Received' = Received
  BY <1>1 DEF Received
<1>3. CASE c # Watched
  <2>1. Following' <=> Following
    BY <1>1, <1>3 DEF Following
  <2>2. Following /\ bc = "recv" /\ ~ lagged => Received = Arrived
    BY DEF FollowInv
  <2> QED
    BY <1>1, <1>2, <1>3, <2>1, <2>2, FollowUnseen
<1>4. CASE c = Watched
  <2>1. feed = <<>> /\ sock[Watched] = <<>>
    BY <1>1, <1>4 DEF QuietInv, Newcomer
  <2>2. taken = Received /\ Received \in Nat
    <3>1. /\ event_rx \in Seq(Event) /\ sent \in Nat /\ Len(event_rx) <= sent
          /\ Len(event_rx) \in Nat /\ InOrder(event_rx, Received)
      BY DEF StreamType, AgentType, QueueType, RxInv, InOrder
    <3>2. Received \in Nat
      BY <3>1 DEF Received
    <3>3. CASE event_rx = <<>>
      BY <3>1, <3>3 DEF taken, Received
    <3>4. CASE event_rx # <<>>
      <4>1. Head(event_rx).n = Received + 1
        BY <3>1, <3>2, <3>4, TailInOrder
      <4> QED
        BY <3>2, <3>4, <4>1 DEF taken
    <3> QED
      BY <3>2, <3>3, <3>4
  <2>3. last' = Received /\ Len(feed') = 0 /\ Len(sock'[Watched]) = 0
    BY <1>1, <1>4, <2>1, <2>2
  <2>4. Arrived' = Received'
    BY <1>2, <2>2, <2>3 DEF Arrived
  <2> QED
    BY <1>1, <2>2, <2>3, <2>4 DEF FollowInv, InOrder
<1> QED
  BY <1>3, <1>4

LEMMA FollowNext ==
  StreamType /\ ListInv /\ QuietInv /\ RxInv /\ FollowInv /\ [Next]_vars => FollowInv'
<1> SUFFICES ASSUME StreamType, ListInv, QuietInv, RxInv, FollowInv, [Next]_vars PROVE FollowInv'
  OBVIOUS
<1>t. /\ Watched \in Clients /\ sock \in [Clients -> Seq(Event)] /\ last \in Nat
      /\ conn \in [Clients -> {"out", "up", "gone"}] /\ feed \in Seq(Event)
  BY DashboardAssumption DEF StreamType, QueueType, ListInv, ListType, FollowInv
<1>r. Following /\ bc = "recv" /\ ~ lagged => Received = Arrived
  BY DEF FollowInv
<1>u. ASSUME UNCHANGED <<bc, line, pos, clients, lagged, sent, event_rx, feed, last>>,
             sock'[Watched] = sock[Watched], Following' => Following
      PROVE  FollowInv'
  <2>1. (Waiting' <=> Waiting) /\ Received' = Received
    BY <1>u DEF Waiting, Received
  <2> QED
    BY <1>u, <1>r, <2>1, FollowUnseen
<1>1. ASSUME NEW a \in Agents, ProducerStep(a), UNCHANGED dashVars PROVE FollowInv'
  <2>1. /\ UNCHANGED <<bc, line, pos, clients, conn, backlog, sock, feed, feed_lagged, last>>
        /\ UNCHANGED channelVars \/ \E kind \in EventKind : Send(a, kind)
    BY <1>1, ProducerSends DEF taskVars, clientVars, dashVars, feedVars, collectorVars
  <2>2. CASE UNCHANGED channelVars
    BY <1>u, <2>1, <2>2 DEF channelVars, Following
  <2>3. CASE \E kind \in EventKind : Send(a, kind)
    <3>1. bc # "ended" /\ ~ lagged' => ~ lagged /\ Received' = Received
      BY <2>1, <2>3, SendRx
    <3>2. (Waiting' <=> Waiting) /\ (Following' <=> Following)
      BY <2>1 DEF Waiting, Following
    <3> QED
      BY <1>r, <2>1, <3>1, <3>2, FollowUnseen
  <2> QED
    BY <2>1, <2>2, <2>3
<1>2. CASE Receive /\ UNCHANGED dashVars
  <2>1. /\ bc = "recv" /\ ~ lagged /\ event_rx # <<>> /\ line' = Head(event_rx)
        /\ pos' = 1 /\ bc' = "writing"
        /\ UNCHANGED <<clients, conn, backlog, sock, feed, feed_lagged, last>>
    BY <1>2 DEF Receive, clientVars, dashVars, feedVars, collectorVars
  <2>2. Following' <=> Following
    BY <2>1 DEF Following
  <2>3. ASSUME Following PROVE Waiting' /\ line'.n = Arrived + 1
    <3>1. OnList(Watched) /\ clients \in Seq(Clients)
      BY <1>t, <2>3 DEF ListInv, ListType, MemberInv, Following
    <3>2. \E i \in 1 .. Len(clients) : clients[i] = Watched
      BY <3>1 DEF OnList, ToSet
    <3>3. event_rx \in Seq(Event) /\ Received \in Nat /\ InOrder(event_rx, Received)
      BY DEF StreamType, AgentType, QueueType, RxInv, Received, InOrder
    <3>4. Head(event_rx).n = Received + 1
      BY <2>1, <3>3, TailInOrder
    <3> QED
      BY <1>r, <2>1, <2>3, <3>2, <3>4 DEF Waiting
  <2>4. CASE Following
    BY <2>1, <2>2, <2>3, <2>4, FollowUnseen
  <2>5. CASE ~ Following
    BY <1>t, <2>1, <2>2, <2>5 DEF FollowInv
  <2> QED
    BY <2>4, <2>5
<1>3. CASE ReceiveLagged /\ UNCHANGED dashVars
  <2>1. bc' = "ended" /\ UNCHANGED <<conn, backlog, sock, feed, feed_lagged, last>>
    BY <1>3 DEF ReceiveLagged, clientVars, dashVars, feedVars, collectorVars
  <2> QED
    BY <2>1, FollowUnseen DEF Following
<1>4. ASSUME NEW c \in Clients, WriteTo(c), UNCHANGED dashVars PROVE FollowInv'
  BY <1>4, FollowWrite
<1>5. CASE EndWrite /\ UNCHANGED dashVars
  <2>1. /\ bc = "writing" /\ pos > Len(clients) /\ bc' = "recv"
        /\ UNCHANGED <<lagged, sent, event_rx, conn, backlog, sock, feed, feed_lagged, last>>
    BY <1>5 DEF EndWrite, channelVars, clientVars, dashVars, feedVars, collectorVars
  <2>2. ~ Waiting
    <3>1. pos \in Nat /\ Len(clients) \in Nat
      BY DEF ListInv, ListType, WriterInv
    <3>2. pos .. Len(clients) = {}
      BY <2>1, <3>1
    <3> QED
      BY <3>2 DEF Waiting
  <2>3. Following /\ ~ lagged => Received = Arrived
    BY <2>1, <2>2 DEF FollowInv, RxInv
  <2>4. Received' = Received /\ (Following' <=> Following)
    BY <2>1 DEF Received, Following
  <2> QED
    BY <2>1, <2>3, <2>4, FollowUnseen
<1>6. ASSUME NEW c \in Clients, Connect(c) PROVE FollowInv'
  <2>1. Following' => Following
    BY <1>6, <1>t DEF Connect, Following, dashVars, feedVars
  <2> QED
    BY <1>6, <1>u, <2>1 DEF Connect, channelVars, taskVars, dashVars, feedVars, collectorVars
<1>7. ASSUME NEW c \in Clients, Accept(c) PROVE FollowInv'
  BY <1>7, FollowAccept
<1>8. ASSUME NEW c \in Clients, PeerRead(c) \/ PeerQuit(c) PROVE FollowInv'
  <2>1. /\ c # Watched
        /\ UNCHANGED <<bc, line, pos, clients, lagged, sent, event_rx, feed, feed_lagged, last, backlog>>
        /\ UNCHANGED conn \/ conn' = [conn EXCEPT ![c] = "gone"]
        /\ sock' = [sock EXCEPT ![c] = Tail(@)] \/ sock' = [sock EXCEPT ![c] = <<>>]
    BY <1>8 DEF PeerRead, PeerQuit, HangUp, Peers, channelVars, taskVars, clientVars, dashVars,
       feedVars, collectorVars
  <2>2. sock'[Watched] = sock[Watched] /\ conn'[Watched] = conn[Watched]
    BY <1>t, <2>1
  <2> QED
    BY <1>u, <2>1, <2>2 DEF Following
<1>9. CASE Quit
  <2>1. conn'[Watched] = "gone" /\ last' = last
    BY <1>9, <1>t DEF Quit, HangUp, dashVars, collectorVars
  <2> QED
    BY <1>t, <2>1 DEF FollowInv, Following
<1>10. CASE ReadLine
  BY <1>10, FollowReadLine
<1>11. CASE handle_event
  BY <1>11, FollowHandle
<1>12. CASE CollectorLagged
  <2>1. feed_lagged' /\ last' = last
    BY <1>12 DEF CollectorLagged, collectorVars
  <2> QED
    BY <1>t, <2>1 DEF FollowInv, Following
<1>13. CASE Screen \/ UNCHANGED vars
  BY <1>13, <1>u DEF Screen, SwitchTab, Down, Up, JumpEnd, JumpTop, Redraw, SnapshotLog, vars,
     serverVars,
     channelVars, taskVars, clientVars, dashVars, feedVars, collectorVars, Following
<1> QED
  BY <1>1, <1>2, <1>3, <1>4, <1>5, <1>6, <1>7, <1>8, <1>9, <1>10, <1>11, <1>12, <1>13
  DEF Next, ServerStep, Producers, ProducerStep, BroadcasterTask

StreamInv == StreamType /\ ListInv /\ QuietInv /\ RxInv /\ FollowInv

LEMMA StreamInit == Init => StreamInv
  BY StreamTypeInit, ListInit, QuietInit, RxInit, FollowInit DEF StreamInv

LEMMA StreamNext == StreamInv /\ [Next]_vars => StreamInv'
  BY StreamTypeNext, ListNext, QuietNext, RxNext, FollowNext DEF StreamInv

(* A dashboard that is on the list handles every event in order and misses  *)
(* none in the middle, whatever overflows.                                  *)
THEOREM NeverGaps == Spec => NoGaps
<1>1. ASSUME StreamInv, [Next]_vars, last' # last, Watched \notin backlog PROVE last' = last + 1
  <2>1. CASE handle_event
    BY <1>1, <2>1, HandlesNext DEF StreamInv
  <2>2. ASSUME NEW c \in Clients, Accept(c) PROVE FALSE
    BY <1>1, <2>2 DEF Accept, Acceptable
  <2>3. CASE UNCHANGED last
    BY <1>1, <2>3
  <2> QED
    BY <1>1, <2>1, <2>2, <2>3
    DEF Next, ServerStep, Connect, PeerRead, PeerQuit, ReadLine, CollectorLagged, Quit, Screen,
        SwitchTab, Down, Up, JumpEnd, JumpTop, Redraw, SnapshotLog, vars, dashVars, collectorVars
<1>2. StreamInv /\ [Next]_vars =>
        [last' # last /\ Watched \notin backlog => last' = last + 1]_vars
  BY <1>1
<1> QED
  BY <1>2, StreamInit, StreamNext, PTL DEF Spec, NoGaps

(***************************************************************************)
(* What is on its way to the followed dashboard, or was lost to it.  Every  *)
(* end is announced once, and nothing of an agent comes behind its end,     *)
(* unless the end has overtaken it.                                         *)
(***************************************************************************)
Pipe == ToSet(event_rx) \cup (IF bc = "writing" THEN {line} ELSE {})
          \cup ToSet(sock[Watched]) \cup ToSet(feed)

Known(e) == e.n <= sent /\ (e.kind \in EndKind => e.agent \in ended)

(* What comes of an agent of which one knows that it has ended.             *)
Late(e, f) ==
  e.agent = f.agent /\ f.kind \in EndKind =>
    /\ e.kind \in EndKind => e.n = f.n
    /\ e.agent \notin overtaken => e.n <= f.n

Handled(e) ==
  e.agent \in seen /\ (e.kind \in EndKind \/ e.agent \notin overtaken) => e.n <= last

EndInv ==
  /\ \A a \in ended \ overtaken : ~ (forwarded[a] < Len(Output[a]))
  /\ seen \subseteq ended /\ ended \subseteq started
  /\ last <= sent

PipeInv ==
  /\ EndInv
  /\ \A e \in Pipe : Known(e) /\ Handled(e)
  /\ \A e \in Pipe : \A f \in Pipe : Late(e, f)

LEMMA PipeInit == Init => PipeInv
<1> SUFFICES ASSUME Init PROVE PipeInv
  OBVIOUS
<1>1. /\ event_rx = <<>> /\ bc = "recv" /\ feed = <<>> /\ sock[Watched] = <<>>
      /\ ended = {} /\ seen = {} /\ last = 0 /\ sent = 0
  BY DashboardAssumption DEF Init, BroadcasterInit
<1>2. ToSet(<<>>) = {}
  BY DEF ToSet
<1>3. Pipe = {}
  BY <1>1, <1>2 DEF Pipe
<1> QED
  BY <1>1, <1>3 DEF PipeInv, EndInv

LEMMA PipeEvents ==
  ASSUME StreamType PROVE \A e \in Pipe : e \in Event /\ e.n \in Nat /\ e.agent \in Agents
<1>1. /\ event_rx \in Seq(Event) /\ sock[Watched] \in Seq(Event) /\ feed \in Seq(Event)
      /\ bc = "writing" => line \in Event
  BY DashboardAssumption DEF StreamType, QueueType, LineType
<1>2. ASSUME NEW s \in Seq(Event) PROVE ToSet(s) \subseteq Event
  BY DEF ToSet
<1>3. Pipe \subseteq Event
  BY <1>1, <1>2 DEF Pipe
<1>4. \A e \in Event : e.n \in Nat /\ e.agent \in Agents
  BY DEF Event
<1> QED
  BY <1>3, <1>4

Alike(e, f) ==
  e.n = f.n /\ e.agent = f.agent /\ (e.kind \in EndKind <=> f.kind \in EndKind)

(* Events move on, are copied for a client, or get lost.                    *)
LEMMA PipeKeeps ==
  ASSUME PipeInv, \A e \in Pipe' : \E f \in Pipe : Alike(e, f),
         UNCHANGED <<started, forwarded, ended, overtaken, sent, seen>>,
         last' = last \/ (seen = {} /\ last' <= sent)
  PROVE  PipeInv'
<1>1. EndInv'
  BY DEF PipeInv, EndInv
<1>2. \A e \in Pipe' : Known(e)' /\ Handled(e)'
  BY DEF PipeInv, Known, Handled, Alike
<1>3. ASSUME NEW e \in Pipe', NEW f \in Pipe' PROVE Late(e, f)'
  <2>1. PICK d \in Pipe : Alike(e, d)
    OBVIOUS
  <2>2. PICK g \in Pipe : Alike(f, g)
    OBVIOUS
  <2>3. Late(d, g)
    BY DEF PipeInv
  <2> QED
    BY <2>1, <2>2, <2>3 DEF Late, Alike
<1> QED
  BY <1>1, <1>2, <1>3 DEF PipeInv

LEMMA PipeSmaller ==
  ASSUME PipeInv, Pipe' \subseteq Pipe,
         UNCHANGED <<started, forwarded, ended, overtaken, sent, seen, last>>
  PROVE  PipeInv'
<1>1. \A e \in Pipe' : \E f \in Pipe : Alike(e, f)
  BY DEF Alike
<1> QED
  BY <1>1, PipeKeeps

LEMMA PipeSend ==
  ASSUME StreamInv, PipeInv, NEW a \in Agents, ProducerStep(a), UNCHANGED dashVars
  PROVE  PipeInv'
<1>s. StreamType /\ last \in Nat
  BY DEF StreamInv, FollowInv
<1>1. /\ UNCHANGED <<bc, line, sock, feed, seen, last>> /\ started \subseteq started'
  BY <1>s, ProducerSends DEF taskVars, dashVars, feedVars, collectorVars
<1>2. CASE UNCHANGED <<channelVars, forwarded, ended, overtaken>>
  <2>1. Pipe' = Pipe
    BY <1>1, <1>2 DEF Pipe, channelVars
  <2> QED
    BY <1>1, <1>2, <2>1 DEF PipeInv, EndInv, Known, Handled, Late, channelVars
<1>3. ASSUME NEW kind \in EventKind, Send(a, kind),
             \/ /\ kind = "running" /\ a \in StepAgents /\ a \notin started
                /\ UNCHANGED <<forwarded, ended, overtaken>>
             \/ /\ kind \in OutputKind /\ a \in started /\ forwarded[a] < Len(Output[a])
                /\ forwarded' = [forwarded EXCEPT ![a] = @ + 1]
                /\ UNCHANGED <<ended, overtaken>>
             \/ /\ kind \in EndKind /\ a \in (StepAgents \cap started) \ ended
                /\ ended' = ended \cup {a} /\ UNCHANGED forwarded
                /\ overtaken' = IF forwarded[a] < Len(Output[a]) THEN overtaken \cup {a}
                                ELSE overtaken
      PROVE  PipeInv'
  <2> DEFINE new == New(a, kind)
  <2>1. sent' = sent + 1 /\ ToSet(event_rx') \subseteq ToSet(event_rx) \cup {new}
    BY <1>s, <1>3, SendType
  <2>2. new.n = sent + 1 /\ new.agent = a /\ new.kind = kind
    BY DEF New
  <2> HIDE DEF new
  <2>3. Pipe' \subseteq Pipe \cup {new}
    BY <1>1, <2>1 DEF Pipe
  <2>4. \A e \in Pipe : e.n \in Nat /\ e.n <= sent /\ (e.kind \in EndKind => e.agent \in ended)
    BY <1>s, PipeEvents DEF PipeInv, Known
  <2>6. ended \subseteq ended' /\ overtaken \subseteq overtaken' /\ ended' \subseteq started'
    BY <1>1, <1>3 DEF PipeInv, EndInv
  <2>7. EndInv'
    <3>1. \A b \in ended' \ overtaken' : ~ (forwarded'[b] < Len(Output[b]))
      <4>1. \A b \in ended \ overtaken : ~ (forwarded[b] < Len(Output[b]))
        BY DEF PipeInv, EndInv
      <4>2. forwarded \in [Agents -> Nat] /\ ended \subseteq StepAgents /\ StepAgents \subseteq Agents
        BY <1>s DEF StreamType, AgentType, Agents
      <4> QED
        BY <1>3, <4>1, <4>2
    <3>2. last <= sent'
      <4>1. last <= sent
        BY DEF PipeInv, EndInv
      <4>2. sent \in Nat
        BY <1>s DEF StreamType, AgentType
      <4> QED
        BY <1>s, <2>1, <4>1, <4>2
    <3> QED
      BY <1>1, <2>6, <3>1, <3>2 DEF PipeInv, EndInv
  <2>8. /\ kind \in EndKind => a \in ended' /\ a \notin ended
        /\ a \in ended => a \in overtaken /\ kind \notin EndKind
    <3>1. a \in ended => a \in started
      BY DEF PipeInv, EndInv
    <3>2. a \in ended \ overtaken => ~ (forwarded[a] < Len(Output[a]))
      BY DEF PipeInv, EndInv
    <3>3. "running" \notin EndKind /\ OutputKind \cap EndKind = {}
      BY DEF EndKind, OutputKind
    <3> QED
      BY <1>3, <3>1, <3>2, <3>3
  <2>9. ASSUME NEW e \in Pipe \cup {new} PROVE Known(e)' /\ Handled(e)'
    <3>1. CASE e \in Pipe
      <4>1. e.n <= sent'
        BY <1>s, <2>1, <2>4, <3>1 DEF StreamType, AgentType
      <4>2. Handled(e)
        BY <3>1 DEF PipeInv
      <4> QED
        BY <1>1, <2>4, <2>6, <3>1, <4>1, <4>2 DEF Known, Handled
    <3>2. CASE e = new
      <4>1. e.n <= sent'
        BY <1>s, <2>1, <2>2, <3>2 DEF StreamType, AgentType
      <4>2. a \in seen => a \in overtaken' /\ kind \notin EndKind
        BY <2>6, <2>8 DEF PipeInv, EndInv
      <4> QED
        BY <1>1, <2>2, <2>8, <3>2, <4>1, <4>2 DEF Known, Handled
    <3> QED
      BY <3>1, <3>2
  <2>10. ASSUME NEW e \in Pipe \cup {new}, NEW f \in Pipe \cup {new} PROVE Late(e, f)'
    <3>1. CASE e \in Pipe /\ f \in Pipe
      <4>1. Late(e, f)
        BY <3>1 DEF PipeInv
      <4> QED
        BY <2>6, <4>1 DEF Late
    <3>2. CASE e = new /\ f = new
      BY <1>s, <2>1, <2>2, <3>2 DEF Late, StreamType, AgentType
    <3>3. CASE e \in Pipe /\ f = new
      <4>1. e.n <= f.n
        BY <1>s, <2>2, <2>4, <3>3 DEF StreamType, AgentType
      <4>2. e.agent = a /\ kind \in EndKind => e.kind \notin EndKind
        BY <2>4, <2>8, <3>3
      <4> QED
        BY <2>2, <3>3, <4>1, <4>2 DEF Late
    <3>4. CASE e = new /\ f \in Pipe
      <4>1. f.agent = a /\ f.kind \in EndKind => a \in overtaken' /\ kind \notin EndKind
        BY <2>4, <2>6, <2>8, <3>4
      <4> QED
        BY <2>2, <3>4, <4>1 DEF Late
    <3> QED
      BY <3>1, <3>2, <3>3, <3>4
  <2> QED
    BY <2>3, <2>7, <2>9, <2>10 DEF PipeInv
<1> QED
  BY <1>s, <1>2, <1>3, ProducerSends

(* Both ends of what the collector takes: the end of an agent is new to it, *)
(* and whatever else it gets of an agent that has ended was overtaken.      *)
LEMMA HandledIsNew ==
  ASSUME StreamInv, PipeInv, handle_event
  PROVE  LET e == Head(feed)
         IN  /\ e \in Pipe /\ e.n = last + 1 /\ last \in Nat /\ e \in Event
             /\ e.kind \in EndKind => e.agent \notin seen
             /\ e.agent \in seen => e.agent \in overtaken
<1> DEFINE e == Head(feed)
<1>1. feed \in Seq(Event) /\ feed # <<>> /\ e.n = last + 1 /\ last \in Nat
  BY HandlesNext DEF StreamInv
<1>2. e \in ToSet(feed) /\ e \in Event
  BY <1>1, TailType
<1> HIDE DEF e
<1>3. e \in Pipe
  BY <1>2 DEF Pipe
<1>4. Handled(e)
  BY <1>3 DEF PipeInv
<1>5. ~ (e.n <= last)
  BY <1>1
<1> QED
  BY <1>1, <1>2, <1>3, <1>4, <1>5 DEF Handled, e

LEMMA PipeHandle ==
  ASSUME StreamInv, PipeInv, handle_event PROVE PipeInv'
<1> DEFINE e == Head(feed)
<1>1. /\ e \in Pipe /\ e.n = last + 1 /\ last \in Nat
  BY HandledIsNew
<1>2. /\ UNCHANGED <<event_rx, bc, line, sock, started, forwarded, ended, overtaken, sent>>
      /\ feed' = Tail(feed) /\ last' = e.n
      /\ seen' = IF is_terminal(e.kind) THEN seen \cup {e.agent} ELSE seen
  BY DEF handle_event, serverVars, channelVars, taskVars, agentVars
<1>3. Pipe' \subseteq Pipe
  <2>1. feed \in Seq(Event) /\ feed # <<>>
    BY HandlesNext DEF StreamInv
  <2>2. ToSet(feed') \subseteq ToSet(feed)
    BY <1>2, <2>1, TailType
  <2> QED
    BY <1>2, <2>2 DEF Pipe
<1> HIDE DEF e
<1>4. is_terminal(e.kind) => e.kind \in EndKind
  BY DEF is_terminal, EndKind
<1>5. Known(e) /\ \A d \in Pipe : Late(d, e)
  BY <1>1 DEF PipeInv
<1>6. EndInv'
  BY <1>1, <1>2, <1>4, <1>5 DEF PipeInv, EndInv, Known
<1>7. ASSUME NEW d \in Pipe PROVE Known(d)' /\ Handled(d)'
  <2>1. Known(d) /\ Handled(d) /\ Late(d, e) /\ d.n \in Nat
    BY <1>5, PipeEvents DEF PipeInv, StreamInv
  <2>2. Handled(d)'
    <3> SUFFICES ASSUME d.agent \in seen', d.kind \in EndKind \/ d.agent \notin overtaken
                 PROVE  d.n <= last'
      BY <1>2 DEF Handled
    <3>1. CASE d.agent \in seen
      <4>1. d.n <= last
        BY <2>1, <3>1 DEF Handled
      <4> QED
        BY <1>1, <1>2, <2>1, <4>1
    <3>2. CASE d.agent \notin seen
      <4>1. d.agent = e.agent /\ e.kind \in EndKind
        BY <1>2, <1>4, <3>2
      <4>2. d.n = e.n \/ d.n <= e.n
        BY <2>1, <4>1 DEF Late
      <4> QED
        BY <1>1, <1>2, <2>1, <4>2
    <3> QED
      BY <3>1, <3>2
  <2> QED
    BY <1>2, <2>1, <2>2 DEF Known
<1>8. \A d \in Pipe : \A f \in Pipe : Late(d, f)'
  BY <1>2 DEF PipeInv, Late
<1> QED
  BY <1>3, <1>6, <1>7, <1>8 DEF PipeInv

LEMMA PipeNext == StreamInv /\ PipeInv /\ [Next]_vars => PipeInv'
<1> SUFFICES ASSUME StreamInv, PipeInv, [Next]_vars PROVE PipeInv'
  OBVIOUS
<1>s. StreamType /\ ListInv /\ QuietInv /\ RxInv
  BY DEF StreamInv
<1>t. /\ Watched \in Clients /\ sock \in [Clients -> Seq(Event)] /\ event_rx \in Seq(Event)
      /\ ToSet(<<>>) = {}
  BY <1>s, DashboardAssumption DEF StreamType, QueueType, ToSet
<1>1. ASSUME NEW a \in Agents, ProducerStep(a), UNCHANGED dashVars PROVE PipeInv'
  BY <1>1, PipeSend
<1>2. CASE (Receive \/ ReceiveLagged \/ EndWrite) /\ UNCHANGED dashVars
  <2>1. UNCHANGED <<started, forwarded, ended, overtaken, sent, seen, last, sock, feed>>
    BY <1>2 DEF Receive, ReceiveLagged, EndWrite, agentVars, channelVars, dashVars, feedVars,
       collectorVars
  <2>2. Pipe' \subseteq Pipe
    <3>1. CASE Receive
      <4>1. event_rx # <<>> /\ line' = Head(event_rx) /\ event_rx' = Tail(event_rx)
        BY <3>1 DEF Receive
      <4>2. line' \in ToSet(event_rx) /\ ToSet(event_rx') \subseteq ToSet(event_rx)
        BY <1>t, <4>1, TailType
      <4> QED
        BY <2>1, <4>2 DEF Pipe
    <3>2. CASE ReceiveLagged
      BY <1>t, <2>1, <3>2 DEF ReceiveLagged, Pipe
    <3>3. CASE EndWrite
      BY <2>1, <3>3 DEF EndWrite, Pipe, channelVars
    <3> QED
      BY <1>2, <3>1, <3>2, <3>3
  <2> QED
    BY <2>1, <2>2, PipeSmaller
<1>3. ASSUME NEW c \in Clients, WriteTo(c), UNCHANGED dashVars PROVE PipeInv'
  <2>1. /\ UNCHANGED <<started, forwarded, ended, overtaken, sent, seen, last, feed, event_rx, bc, line>>
        /\ bc = "writing"
        /\ UNCHANGED sock \/ sock' = [sock EXCEPT ![c] = Append(@, over_ipc(line))]
    BY <1>3 DEF WriteTo, agentVars, channelVars, dashVars, feedVars, collectorVars
  <2>2. line \in Event /\ line \in Pipe
    BY <1>s, <2>1 DEF StreamType, LineType, Pipe
  <2>3. over_ipc(line) \in Event /\ Alike(over_ipc(line), line)
    BY <2>2, OverIpc DEF Alike
  <2>4. ToSet(sock'[Watched]) \subseteq ToSet(sock[Watched]) \cup {over_ipc(line)}
    <3>1. sock[Watched] \in Seq(Event)
      BY <1>t
    <3>2. ToSet(Append(sock[Watched], over_ipc(line))) = ToSet(sock[Watched]) \cup {over_ipc(line)}
      BY <2>3, <3>1, ToSetAppend
    <3>3. sock'[Watched] = sock[Watched] \/ sock'[Watched] = Append(sock[Watched], over_ipc(line))
      BY <1>t, <2>1
    <3> QED
      BY <3>2, <3>3
  <2>5. Pipe' \subseteq Pipe \cup {over_ipc(line)}
    BY <2>1, <2>4 DEF Pipe
  <2>6. \A e \in Pipe' : \E f \in Pipe : Alike(e, f)
    <3>1. \A e : Alike(e, e)
      BY DEF Alike
    <3> QED
      BY <2>2, <2>3, <2>5, <3>1
  <2> QED
    BY <2>1, <2>6, PipeKeeps
<1>4. ASSUME NEW c \in Clients, Connect(c) PROVE PipeInv'
  <2>1. /\ UNCHANGED <<started, forwarded, ended, overtaken, sent, seen, last>>
        /\ UNCHANGED <<feed, event_rx, bc, line, sock>>
    BY <1>4 DEF Connect, agentVars, channelVars, taskVars, dashVars, feedVars, collectorVars
  <2> QED
    BY <2>1, PipeSmaller DEF Pipe
<1>5. ASSUME NEW c \in Clients, Accept(c) PROVE PipeInv'
  <2>1. /\ UNCHANGED <<started, forwarded, ended, overtaken, sent, seen>>
        /\ UNCHANGED <<feed, event_rx, bc, line, sock>>
        /\ last' = IF c = Watched THEN taken ELSE last
        /\ c \in backlog
    BY <1>5 DEF Accept, Acceptable, agentVars, channelVars, taskVars, feedVars
  <2>2. \A e \in Pipe' : \E f \in Pipe : Alike(e, f)
    BY <2>1 DEF Pipe, Alike
  <2>3. c = Watched => seen = {} /\ last' <= sent
    <3> SUFFICES ASSUME c = Watched PROVE seen = {} /\ taken <= sent
      BY <2>1
    <3>1. seen = {}
      BY <1>s, <2>1 DEF QuietInv, Newcomer
    <3>2. sent \in Nat
      BY <1>s DEF StreamType, AgentType
    <3>3. CASE event_rx = <<>>
      BY <3>1, <3>2, <3>3 DEF taken
    <3>4. CASE event_rx # <<>>
      <4>1. Head(event_rx) \in Pipe
        BY <1>t, <3>4, TailType DEF Pipe
      <4>2. Head(event_rx).n \in Nat /\ Head(event_rx).n <= sent
        BY <1>s, <4>1, PipeEvents DEF PipeInv, Known
      <4> QED
        BY <3>1, <3>2, <3>4, <4>2 DEF taken
    <3> QED
      BY <3>1, <3>3, <3>4
  <2> QED
    BY <2>1, <2>2, <2>3, PipeKeeps
<1>6. ASSUME NEW c \in Clients, PeerRead(c) \/ PeerQuit(c) PROVE PipeInv'
  <2>1. /\ UNCHANGED <<started, forwarded, ended, overtaken, sent, seen, last>>
        /\ UNCHANGED <<feed, event_rx, bc, line>> /\ c # Watched
        /\ sock' = [sock EXCEPT ![c] = Tail(@)] \/ sock' = [sock EXCEPT ![c] = <<>>]
    BY <1>6 DEF PeerRead, PeerQuit, HangUp, Peers, agentVars, channelVars, taskVars, dashVars,
       feedVars, collectorVars
  <2>2. sock'[Watched] = sock[Watched]
    BY <1>t, <2>1
  <2> QED
    BY <2>1, <2>2, PipeSmaller DEF Pipe
<1>7. CASE Quit
  <2>1. /\ UNCHANGED <<started, forwarded, ended, overtaken, sent, seen, last>>
        /\ UNCHANGED <<feed, event_rx, bc, line>> /\ sock' = [sock EXCEPT ![Watched] = <<>>]
    BY <1>7 DEF Quit, HangUp, agentVars, channelVars, taskVars, dashVars, feedVars, collectorVars
  <2>2. ToSet(sock'[Watched]) = {}
    BY <1>t, <2>1
  <2> QED
    BY <2>1, <2>2, PipeSmaller DEF Pipe
<1>8. CASE ReadLine
  <2>1. /\ UNCHANGED <<started, forwarded, ended, overtaken, sent, seen, last>>
        /\ UNCHANGED <<event_rx, bc, line>>
    BY <1>8 DEF ReadLine, agentVars, channelVars, taskVars, collectorVars
  <2>2. /\ ToSet(sock'[Watched]) \subseteq ToSet(sock[Watched])
        /\ ToSet(feed') \subseteq ToSet(feed) \cup ToSet(sock[Watched])
    BY <1>8, <1>s, ReadLineFeed
  <2> QED
    BY <2>1, <2>2, PipeSmaller DEF Pipe
<1>9. CASE handle_event
  BY <1>9, PipeHandle
<1>10. CASE CollectorLagged
  <2>1. /\ UNCHANGED <<started, forwarded, ended, overtaken, sent, seen, last>>
        /\ UNCHANGED <<event_rx, bc, line, sock>> /\ feed' = <<>>
    BY <1>10 DEF CollectorLagged, serverVars, agentVars, channelVars, taskVars, collectorVars
  <2> QED
    BY <1>t, <2>1, PipeSmaller DEF Pipe
<1>11. CASE Screen \/ UNCHANGED vars
  <2>1. /\ UNCHANGED <<started, forwarded, ended, overtaken, sent, seen, last>>
        /\ UNCHANGED <<feed, event_rx, bc, line, sock>>
    BY <1>11 DEF Screen, SwitchTab, Down, Up, JumpEnd, JumpTop, Redraw, SnapshotLog, vars,
     serverVars,
       agentVars, channelVars, taskVars, dashVars, feedVars, collectorVars
  <2> QED
    BY <2>1, PipeSmaller DEF Pipe
<1> QED
  BY <1>1, <1>2, <1>3, <1>4, <1>5, <1>6, <1>7, <1>8, <1>9, <1>10, <1>11
  DEF Next, ServerStep, Producers, ProducerStep, BroadcasterTask

(***************************************************************************)
(* The totals of the header and the table of agents.                        *)
(***************************************************************************)
counted == seen \cap agent_metrics

TotalsInv ==
  /\ IsFiniteSet(seen) /\ IsFiniteSet(agent_metrics)
  /\ TotalsMatchTable

LEMMA TotalsInit == Init => TotalsInv
<1> SUFFICES ASSUME Init PROVE TotalsInv
  OBVIOUS
<1>1. seen = {} /\ agent_metrics = {} /\ workflow_metrics = NoMetrics
  BY DEF Init
<1>2. (seen \cap agent_metrics) = {} /\ ((seen \cap agent_metrics) \ overtaken) = {}
  BY <1>1
<1>3. IsFiniteSet({}) /\ Cardinality({}) = 0
  BY FS_EmptySet
<1>4. TotalsMatchTable
  BY <1>1, <1>2, <1>3 DEF TotalsMatchTable, NoMetrics
<1> QED
  BY <1>1, <1>3, <1>4 DEF TotalsInv

(* One more member, or none.                                                *)
LEMMA OneMore ==
  ASSUME NEW S, IsFiniteSet(S), NEW a, NEW T, T \subseteq S \cup {a}, S \subseteq T
  PROVE  /\ IsFiniteSet(T) /\ Cardinality(S) \in Nat
         /\ Cardinality(T) = IF a \in T \ S THEN Cardinality(S) + 1 ELSE Cardinality(S)
<1>1. /\ Cardinality(S) \in Nat /\ IsFiniteSet(S \cup {a})
      /\ Cardinality(S \cup {a}) = IF a \in S THEN Cardinality(S) ELSE Cardinality(S) + 1
  BY FS_AddElement, FS_CardinalityType
<1>2. T = IF a \in T \ S THEN S \cup {a} ELSE S
  OBVIOUS
<1> QED
  BY <1>1, <1>2

LEMMA TotalsHandle ==
  ASSUME StreamInv, PipeInv, TotalsInv, handle_event PROVE TotalsInv'
<1> DEFINE e == Head(feed)
           a == e.agent
           w == workflow_metrics
           lost == counted \ overtaken
<1>1. /\ e \in Event
      /\ e.kind \in EndKind => a \notin seen
      /\ a \in seen => a \in overtaken
  BY HandledIsNew
<1>2. /\ agent_metrics' = IF e.kind = "metrics" THEN agent_metrics \cup {a} ELSE agent_metrics
      /\ w' = totals(e) /\ overtaken' = overtaken
      /\ seen' = IF is_terminal(e.kind) THEN seen \cup {a} ELSE seen
  BY DEF handle_event, serverVars, agentVars
<1>3. w \in [completed : Nat, failed : Nat, cost : Nat]
  BY DEF StreamInv, StreamType, TableType
<1>4. /\ IsFiniteSet(seen) /\ IsFiniteSet(agent_metrics)
      /\ w.completed + w.failed <= Cardinality(seen)
      /\ w.cost <= Cardinality(counted) /\ w.cost >= Cardinality(lost)
  BY DEF TotalsInv, TotalsMatchTable, counted
<1>5. IsFiniteSet(counted) /\ IsFiniteSet(lost)
  <2>1. counted \subseteq seen /\ lost \subseteq seen
    BY DEF counted
  <2> QED
    BY <1>4, <2>1, FS_Subset
<1> HIDE DEF e, a, w, lost
<1>6. seen \subseteq seen' /\ seen' \subseteq seen \cup {a}
  BY <1>2 DEF is_terminal
<1>7. agent_metrics \subseteq agent_metrics' /\ agent_metrics' \subseteq agent_metrics \cup {a}
  BY <1>2
<1>8. counted \subseteq counted' /\ counted' \subseteq counted \cup {a}
  BY <1>6, <1>7 DEF counted
<1>9. lost \subseteq lost' /\ lost' \subseteq lost \cup {a}
  BY <1>2, <1>8 DEF lost
<1>10. /\ IsFiniteSet(seen') /\ Cardinality(seen) \in Nat
       /\ Cardinality(seen') = IF a \in seen' \ seen THEN Cardinality(seen) + 1
                               ELSE Cardinality(seen)
  BY <1>4, <1>6, OneMore
<1>11. /\ Cardinality(counted) \in Nat
       /\ Cardinality(counted') = IF a \in counted' \ counted THEN Cardinality(counted) + 1
                                  ELSE Cardinality(counted)
  BY <1>5, <1>8, OneMore
<1>12. /\ Cardinality(lost) \in Nat
       /\ Cardinality(lost') = IF a \in lost' \ lost THEN Cardinality(lost) + 1
                               ELSE Cardinality(lost)
  BY <1>5, <1>9, OneMore
<1>13. IsFiniteSet(agent_metrics')
  BY <1>4, <1>7, OneMore
<1>14. is_terminal(e.kind) => a \in seen' \ seen
  BY <1>1, <1>2 DEF is_terminal, EndKind, a, e
<1>15. w'.completed + w'.failed <= Cardinality(seen')
  <2>1. /\ w'.completed + w'.failed = w.completed + w.failed + 1 /\ is_terminal(e.kind)
        \/ w'.completed + w'.failed = w.completed + w.failed
    BY <1>2, <1>3 DEF totals, is_terminal, w
  <2>2. w'.completed \in Nat /\ w'.failed \in Nat
    BY <1>2, <1>3 DEF totals, w
  <2> QED
    BY <1>3, <1>4, <1>10, <1>14, <2>1, <2>2
<1>16. w'.cost = IF is_terminal(e.kind) /\ a \in agent_metrics THEN w.cost + 1 ELSE w.cost
  BY <1>2, <1>3 DEF totals, w, a
<1>17. is_terminal(e.kind) => (a \in agent_metrics <=> a \in counted' \ counted)
  BY <1>2, <1>14 DEF counted, is_terminal
<1>18. a \in lost' \ lost => is_terminal(e.kind) /\ a \in agent_metrics
  <2> SUFFICES ASSUME a \in lost' \ lost PROVE is_terminal(e.kind) /\ a \in agent_metrics
    OBVIOUS
  <2>1. a \in seen' /\ a \in agent_metrics' /\ a \notin overtaken
    BY <1>2 DEF lost, counted
  <2>2. a \notin seen
    BY <1>1, <2>1 DEF a, e
  <2>3. is_terminal(e.kind)
    BY <1>2, <2>1, <2>2
  <2> QED
    BY <1>2, <2>1, <2>3 DEF is_terminal
<1>19. w'.cost <= Cardinality(counted')
  BY <1>3, <1>4, <1>11, <1>16, <1>17
<1>20. w'.cost >= Cardinality(lost')
  BY <1>3, <1>4, <1>12, <1>16, <1>18
<1> QED
  BY <1>10, <1>13, <1>15, <1>19, <1>20 DEF TotalsInv, TotalsMatchTable, counted, lost, w

(* An end that overtakes the last events of its agent only takes away from  *)
(* what has to be in the total.                                             *)
LEMMA TotalsOvertaken ==
  ASSUME TotalsInv, overtaken \subseteq overtaken', workflow_metrics.cost \in Nat,
         UNCHANGED <<seen, agent_metrics, workflow_metrics>>
  PROVE  TotalsInv'
<1> DEFINE less == (seen \cap agent_metrics) \ overtaken'
           more == (seen \cap agent_metrics) \ overtaken
<1>1. less \subseteq more /\ more \subseteq seen /\ IsFiniteSet(seen)
  BY DEF TotalsInv
<1> HIDE DEF less, more
<1>2. IsFiniteSet(more)
  BY <1>1, FS_Subset
<1>3. Cardinality(less) <= Cardinality(more) /\ Cardinality(less) \in Nat /\ Cardinality(more) \in Nat
  BY <1>1, <1>2, FS_Subset, FS_CardinalityType
<1>4. workflow_metrics.cost >= Cardinality(more)
  BY DEF TotalsInv, TotalsMatchTable, more
<1>5. workflow_metrics.cost >= Cardinality(less)
  BY <1>3, <1>4
<1> QED
  BY <1>5 DEF TotalsInv, TotalsMatchTable, less

LEMMA TotalsNext == StreamInv /\ PipeInv /\ TotalsInv /\ [Next]_vars => TotalsInv'
<1> SUFFICES ASSUME StreamInv, PipeInv, TotalsInv, [Next]_vars PROVE TotalsInv'
  OBVIOUS
<1>s. StreamType /\ workflow_metrics.cost \in Nat
  BY DEF StreamInv, StreamType, TableType
<1>1. CASE handle_event
  BY <1>1, TotalsHandle
<1>2. ASSUME NEW a \in Agents, ProducerStep(a), UNCHANGED dashVars PROVE TotalsInv'
  <2>1. overtaken \subseteq overtaken'
    BY <1>s, <1>2, ProducerSends
  <2>2. UNCHANGED <<seen, agent_metrics, workflow_metrics>>
    BY <1>2 DEF dashVars, collectorVars
  <2> QED
    BY <1>s, <2>1, <2>2, TotalsOvertaken
<1>3. CASE UNCHANGED <<agentVars, agent_metrics, workflow_metrics, seen>>
  <2>1. overtaken \subseteq overtaken'
    BY <1>3 DEF agentVars
  <2> QED
    BY <1>s, <1>3, <2>1, TotalsOvertaken
<1>4. CASE BroadcasterTask /\ UNCHANGED dashVars
  BY <1>3, <1>4 DEF BroadcasterTask, Receive, ReceiveLagged, WriteTo, EndWrite, dashVars,
     collectorVars
<1>5. CASE \E c \in Clients : Connect(c) \/ Accept(c) \/ PeerRead(c) \/ PeerQuit(c)
  BY <1>3, <1>5 DEF Connect, Accept, PeerRead, PeerQuit, dashVars, collectorVars
<1>6. CASE ReadLine \/ CollectorLagged \/ Quit
  BY <1>3, <1>6 DEF ReadLine, CollectorLagged, Quit, dashVars, collectorVars, serverVars
<1>7. CASE Screen \/ UNCHANGED vars
  BY <1>3, <1>7 DEF Screen, SwitchTab, Down, Up, JumpEnd, JumpTop, Redraw, SnapshotLog, vars,
     serverVars,
     dashVars, collectorVars
<1> QED
  BY <1>1, <1>2, <1>4, <1>5, <1>6, <1>7 DEF Next, ServerStep, Producers, ProducerStep

(* All that is known of a state of the server and the followed dashboard.   *)
DashboardInv == StreamInv /\ PipeInv /\ TotalsInv /\ CursorInv

LEMMA DashboardInit == Init => DashboardInv
  BY StreamInit, PipeInit, TotalsInit, CursorInit DEF DashboardInv

LEMMA DashboardNext == DashboardInv /\ [Next]_vars => DashboardInv'
  BY StreamNext, PipeNext, TotalsNext, CursorNext DEF DashboardInv

(* The totals in the header agree with the table of agents: every ended     *)
(* agent is counted once, its cost at most once, and a cost is missing only *)
(* where the end overtook the last events.                                  *)
THEOREM TotalsAlwaysMatch == Spec => []TotalsMatchTable
<1>1. DashboardInv => TotalsMatchTable
  BY DEF DashboardInv, TotalsInv
<1> QED
  BY <1>1, DashboardInit, DashboardNext, PTL DEF Spec

(* Every variable of the server and the dashboard keeps its type; no queue  *)
(* gets longer than its capacity, and what was handled was sent.            *)
THEOREM TypesAlwaysOK == Spec => []TypeOK
<1>1. ASSUME DashboardInv PROVE TypeOK
  <2>1. StreamType /\ ListInv /\ EndInv /\ CursorInv /\ last \in Nat
    BY <1>1 DEF DashboardInv, StreamInv, FollowInv, PipeInv
  <2>2. BroadcasterTypeOK
    BY <2>1 DEF BroadcasterTypeOK, StreamType, AgentType, QueueType, LineType, ListInv, ListType,
       WriterInv
  <2>3. last \in 0 .. sent /\ seen \subseteq StepAgents
    BY <2>1 DEF EndInv, StreamType, AgentType
  <2>4. event_log \in 0 .. MAX_LOG_ENTRIES
    BY <2>1, DashboardAssumption DEF CursorInv, SnapshotInv
  <2> QED
    BY <2>1, <2>2, <2>3, <2>4
    DEF TypeOK, StreamType, QueueType, TableType, CursorInv, SnapshotInv
<1> QED
  BY <1>1, DashboardInit, DashboardNext, PTL DEF Spec

(***************************************************************************)
(* The abstract stream.  What was sent to the followed dashboard and is on  *)
(* its way lies between what was handled and what was sent.                 *)
(***************************************************************************)
LEMMA LastOfRow ==
  ASSUME NEW s \in Seq(Event), NEW n \in Nat, InOrder(s, n), s # <<>>
  PROVE  \E e \in ToSet(s) : e.n = n + Len(s)
<1>1. Len(s) \in 1 .. Len(s) /\ DOMAIN s = 1 .. Len(s)
  OBVIOUS
<1>2. s[Len(s)] \in ToSet(s) /\ s[Len(s)].n = n + Len(s)
  BY <1>1 DEF ToSet, InOrder
<1> QED
  BY <1>2

LEMMA AheadSent ==
  ASSUME StreamInv, PipeInv, Following
  PROVE  /\ Arrived \in Nat /\ Ahead \in Nat /\ last + Len(feed) <= Ahead /\ Ahead <= sent
         /\ bc = "writing" => Ahead = line.n
<1>1. /\ feed \in Seq(Event) /\ sock[Watched] \in Seq(Event) /\ last \in Nat /\ sent \in Nat
      /\ bc = "writing" => line \in Event
  BY DashboardAssumption DEF StreamInv, StreamType, AgentType, QueueType, LineType, FollowInv
<1>2. Len(feed) \in Nat /\ Len(sock[Watched]) \in Nat
  BY <1>1
<1>3. InOrder(feed, last) /\ InOrder(sock[Watched], last + Len(feed))
  BY DEF StreamInv, FollowInv
<1>4. \A e \in Pipe : e.n <= sent
  BY DEF PipeInv, Known
<1>5. Arrived \in Nat /\ last + Len(feed) <= Arrived
  <2>1. \A k, m, n \in Nat : k + m + n \in Nat /\ k + m <= k + m + n
    OBVIOUS
  <2>2. last \in Nat
    BY <1>1
  <2>3. last + Len(feed) + Len(sock[Watched]) \in Nat
        /\ last + Len(feed) <= last + Len(feed) + Len(sock[Watched])
    BY ONLY <1>2, <2>1, <2>2
  <2> QED
    BY <2>3 DEF Arrived
<1>6. Arrived <= sent
  <2>1. CASE sock[Watched] # <<>>
    <3>1. last + Len(feed) \in Nat
      BY <1>1, <1>2
    <3>2. PICK e \in ToSet(sock[Watched]) : e.n = (last + Len(feed)) + Len(sock[Watched])
      BY <1>1, <1>3, <2>1, <3>1, LastOfRow
    <3>3. e.n <= sent
      BY <1>4 DEF Pipe
    <3> QED
      BY <1>1, <1>2, <3>2, <3>3 DEF Arrived
  <2>2. CASE sock[Watched] = <<>> /\ feed # <<>>
    <3>1. PICK e \in ToSet(feed) : e.n = last + Len(feed)
      BY <1>1, <1>3, <2>2, LastOfRow
    <3>2. e.n <= sent
      BY <1>4 DEF Pipe
    <3>3. Len(sock[Watched]) = 0
      BY <2>2
    <3> QED
      BY <1>1, <1>2, <3>1, <3>2, <3>3 DEF Arrived
  <2>3. CASE sock[Watched] = <<>> /\ feed = <<>>
    <3>1. last <= sent
      BY DEF PipeInv, EndInv
    <3>2. Len(sock[Watched]) = 0 /\ Len(feed) = 0
      BY <2>3
    <3> QED
      BY <1>1, <3>1, <3>2 DEF Arrived
  <2> QED
    BY <2>1, <2>2, <2>3
<1>7. ASSUME bc = "writing" PROVE Ahead = line.n /\ Ahead <= sent
  <2>1. Ahead = line.n
    BY <1>7 DEF StreamInv, FollowInv, Ahead
  <2>2. line \in Pipe
    BY <1>7 DEF Pipe
  <2> QED
    BY <1>4, <2>1, <2>2
<1>8. bc # "writing" => Ahead = Arrived
  BY DEF Ahead, Waiting
<1>9. Ahead \in Nat /\ Arrived <= Ahead
  BY <1>5 DEF Ahead
<1> QED
  BY <1>1, <1>2, <1>5, <1>6, <1>7, <1>8, <1>9

LEMMA ListedFollows ==
  ASSUME StreamInv PROVE Following <=> Listed /\ ~ Deaf
  BY DashboardAssumption DEF StreamInv, ListInv, ListType, Following, Listed, Deaf

LEMMA LimitAhead ==
  ASSUME StreamInv, PipeInv
  PROVE  /\ last \in Nat /\ sent \in Nat /\ Limit \in Nat
         /\ last <= Limit /\ Limit <= sent /\ last <= sent
         /\ Following => Ahead \in Nat /\ last <= Ahead /\ Ahead <= Limit
<1>1. last \in Nat /\ sent \in Nat /\ last <= sent /\ Len(feed) \in Nat
  BY DEF StreamInv, StreamType, AgentType, QueueType, FollowInv, PipeInv, EndInv
<1>2. Following => Ahead \in Nat /\ last <= Ahead /\ Ahead <= sent
  BY <1>1, AheadSent
<1>3. CASE Whole
  BY <1>1, <1>2, <1>3 DEF Limit
<1>4. CASE ~ Whole /\ Deaf
  BY <1>1, <1>4, ListedFollows DEF Limit
<1>5. CASE ~ Whole /\ ~ Deaf
  <2>1. Following /\ Limit = Ahead
    BY <1>5, ListedFollows DEF Whole, Limit
  <2> QED
    BY <1>1, <1>2, <2>1
<1> QED
  BY <1>3, <1>4, <1>5

(* Nothing that can be seen in the stream happens.                          *)
LEMMA StreamStays ==
  ASSUME UNCHANGED <<sent, last>>, Listed' <=> Listed,
         Listed => (Deaf' <=> Deaf),
         Listed /\ ~ Deaf => (lagged' \/ bc' = "ended" <=> lagged \/ bc = "ended"),
         Listed /\ ~ Deaf /\ (lagged \/ bc = "ended") => Ahead' = Ahead
  PROVE  UNCHANGED Stream!streamVars
<1>1. Whole' <=> Whole
  BY DEF Whole
<1>2. Limit' = Limit
  BY <1>1 DEF Whole, Limit
<1> QED
  BY <1>1, <1>2 DEF Stream!streamVars

(* Something is lost, with or without an event that is sent.                *)
LEMMA StreamCut ==
  ASSUME StreamInv, PipeInv, Listed, Listed', ~ Whole', last' = last,
         sent' = sent \/ sent' = sent + 1,
         Deaf' \/ (Following /\ Ahead' = Ahead)
  PROVE  Stream!CutOff
<1>1. Limit' \in last .. Limit
  <2>1. CASE Deaf'
    <3>1. Limit' = last
      BY <2>1 DEF Limit
    <3> QED
      BY <3>1, LimitAhead
  <2>2. CASE ~ Deaf'
    <3>1. Limit' = Ahead /\ Following
      BY <2>2 DEF Limit
    <3> QED
      BY <3>1, LimitAhead
  <2> QED
    BY <2>1, <2>2
<1> QED
  BY <1>1 DEF Stream!CutOff

LEMMA ServerRefines ==
  ASSUME StreamInv, PipeInv, StreamInv', PipeInv', ServerStep
  PROVE  Stream!StreamNext \/ UNCHANGED Stream!streamVars
<1>t. UNCHANGED <<feed, feed_lagged, last>> /\ (Following <=> Listed /\ ~ Deaf)
  BY ListedFollows DEF ServerStep, dashVars, feedVars, collectorVars
<1>1. ASSUME NEW a \in Agents, ProducerStep(a)
      PROVE  Stream!StreamNext \/ UNCHANGED Stream!streamVars
  <2>1. /\ UNCHANGED <<bc, line, pos, clients, conn, backlog, sock>>
        /\ UNCHANGED channelVars \/ \E kind \in EventKind : Send(a, kind)
    BY <1>1, ProducerSends DEF StreamInv, taskVars, clientVars
  <2>2. (Listed' <=> Listed) /\ (Deaf' <=> Deaf) /\ Ahead' = Ahead
    BY <1>t, <2>1 DEF Listed, Deaf, Ahead, Arrived, Waiting
  <2>3. CASE UNCHANGED channelVars
    BY <1>t, <2>1, <2>2, <2>3, StreamStays DEF channelVars
  <2>4. ASSUME NEW kind \in EventKind, Send(a, kind) PROVE Stream!StreamNext
    <3>1. sent' = sent + 1
      BY <2>4 DEF Send
    <3>2. bc # "ended" /\ ~ lagged' => ~ lagged
      BY <2>1, <2>4, SendRx DEF StreamInv
    <3>3. CASE Whole'
      <4>1. Whole
        BY <2>1, <2>2, <3>2, <3>3 DEF Whole
      <4>2. Limit' = sent'
        BY <3>3 DEF Limit
      <4>3. Listed' = Listed
        BY <2>1 DEF Listed
      <4>4. Whole' = Whole
        <5>1. Whole \in BOOLEAN /\ Whole' \in BOOLEAN
          BY DEF Whole
        <5> QED
          BY ONLY <3>3, <4>1, <5>1
      <4>5. Stream!Publish
        BY <1>t, <3>1, <4>1, <4>2, <4>3, <4>4 DEF Stream!Publish
      <4> QED
        BY <4>5 DEF Stream!StreamNext
    <3>4. CASE ~ Whole'
      <4>1. Listed /\ Listed'
        BY <2>2, <3>4 DEF Whole
      <4> QED
        BY <1>t, <2>2, <3>1, <3>4, <4>1, StreamCut DEF Stream!StreamNext
    <3> QED
      BY <3>3, <3>4
  <2> QED
    BY <2>1, <2>3, <2>4
<1>2. CASE BroadcasterTask
  <2>1. UNCHANGED <<conn, backlog, sent, lagged>>
    BY <1>2 DEF BroadcasterTask, Receive, ReceiveLagged, WriteTo, EndWrite, clientVars, channelVars
  <2>2. (Listed' <=> Listed) /\ (Deaf' <=> Deaf) /\ (Following' <=> Following)
    BY <1>t, <2>1 DEF Listed, Deaf, Following
  <2>3. CASE Receive
    BY <1>t, <2>1, <2>2, <2>3, StreamStays DEF Receive
  <2>4. CASE ReceiveLagged
    <3>1. Ahead' = Ahead
      BY <1>t, <2>4 DEF ReceiveLagged, Ahead, Waiting, Arrived
    <3> QED
      BY <1>t, <2>1, <2>2, <2>4, <3>1, StreamStays DEF ReceiveLagged
  <2>5. ASSUME NEW c \in Clients, WriteTo(c) PROVE UNCHANGED Stream!streamVars
    <3>1. bc = "writing" /\ bc' = "writing" /\ line' = line
      BY <2>5 DEF WriteTo
    <3>2. Following => Ahead = line.n
      BY <3>1, AheadSent
    <3>3. Following' => Ahead' = line'.n
      BY <3>1 DEF StreamInv, FollowInv, Ahead
    <3>4. Listed /\ ~ Deaf => Ahead' = Ahead
      BY <1>t, <2>2, <3>1, <3>2, <3>3
    <3> QED
      BY <1>t, <2>1, <2>2, <3>1, <3>4, StreamStays
  <2>6. CASE EndWrite
    <3>1. ~ Waiting /\ ~ Waiting'
      <4>1. pos \in Nat /\ Len(clients) \in Nat
        BY DEF StreamInv, ListInv, ListType, WriterInv
      <4>2. pos .. Len(clients) = {}
        BY <2>6, <4>1 DEF EndWrite
      <4> QED
        BY <2>6, <4>2 DEF EndWrite, Waiting
    <3>2. Ahead' = Ahead
      BY <1>t, <2>6, <3>1 DEF EndWrite, Ahead, Arrived
    <3> QED
      BY <1>t, <2>1, <2>2, <2>6, <3>2, StreamStays DEF EndWrite
  <2> QED
    BY <1>2, <2>3, <2>4, <2>5, <2>6 DEF BroadcasterTask
<1> QED
  BY <1>1, <1>2 DEF ServerStep, Producers, ProducerStep

LEMMA AcceptRefines ==
  ASSUME StreamInv, PipeInv, StreamInv', PipeInv', NEW c \in Clients, Accept(c)
  PROVE  Stream!StreamNext \/ UNCHANGED Stream!streamVars
<1>1. /\ c \in backlog /\ bc # "writing" /\ backlog' = backlog \ {c}
      /\ UNCHANGED <<bc, conn, lagged, sent, sock, feed, feed_lagged>>
      /\ last' = IF c = Watched THEN taken ELSE last
  BY DEF Accept, Acceptable, channelVars, taskVars, feedVars
<1>2. ~ Waiting /\ ~ Waiting' /\ (Deaf' <=> Deaf)
  BY <1>1 DEF Waiting, Deaf
<1>3. CASE c # Watched
  <2>1. (Listed' <=> Listed) /\ Ahead' = Ahead
    BY <1>1, <1>2, <1>3 DEF Listed, Ahead, Arrived
  <2> QED
    BY <1>1, <1>2, <1>3, <2>1, StreamStays
<1>4. CASE c = Watched
  <2>1. ~ Listed /\ Listed'
    BY <1>1, <1>4 DEF Listed, StreamInv, ListInv, MemberInv
  <2>2. Len(feed') = 0 /\ Len(sock'[Watched]) = 0
    BY <1>1, <1>4 DEF StreamInv, QuietInv, Newcomer
  <2>3. last' \in 0 .. sent /\ last' \in Nat
    <3>1. last' \in Nat /\ sent' \in Nat /\ last' <= sent'
      BY LimitAhead, <1>4 DEF StreamInv, StreamType, AgentType, FollowInv, PipeInv, EndInv
    <3> QED
      BY <1>1, <3>1
  <2>4. Ahead' = last'
    <3>1. Ahead' = Arrived'
      BY <1>2 DEF Ahead
    <3>2. Arrived' = last' + 0 + 0
      BY <2>2 DEF Arrived
    <3>3. \A n \in Nat : n + 0 + 0 = n
      OBVIOUS
    <3>4. last' + 0 + 0 = last'
      BY <2>3, <3>3
    <3> QED
      BY <3>1, <3>2, <3>4
  <2>5. Whole' => Limit' = sent
    BY <1>1 DEF Limit
  <2>6. ~ Whole' => Limit' = last'
    BY <2>4 DEF Limit
  <2>7. Stream!Join
    BY <1>1, <2>1, <2>3, <2>5, <2>6 DEF Stream!Join
  <2> QED
    BY <2>7 DEF Stream!StreamNext
<1> QED
  BY <1>3, <1>4

LEMMA HandleRefines ==
  ASSUME StreamInv, PipeInv, StreamInv', PipeInv', handle_event
  PROVE  Stream!StreamNext
<1>1. /\ Following /\ feed \in Seq(Event) /\ feed # <<>> /\ last \in Nat /\ last' = last + 1
      /\ Head(feed).n = last + 1
  BY HandlesNext DEF StreamInv
<1>2. /\ feed' = Tail(feed)
      /\ UNCHANGED <<bc, line, pos, clients, conn, backlog, lagged, sent, sock, feed_lagged>>
  BY DEF handle_event, serverVars, channelVars, taskVars, clientVars
<1>3. Len(feed) \in Nat \ {0} /\ Len(feed') = Len(feed) - 1 /\ Len(sock[Watched]) \in Nat
  BY <1>1, <1>2, TailType, DashboardAssumption DEF StreamInv, StreamType, QueueType
<1>4. Listed /\ ~ Deaf
  BY <1>1, ListedFollows
<1>5. (Listed' <=> Listed) /\ (Deaf' <=> Deaf) /\ (Whole' <=> Whole) /\ (Waiting' <=> Waiting)
  BY <1>2 DEF Listed, Deaf, Whole, Waiting
<1>6. last' + Len(feed') = last + Len(feed)
  BY <1>1, <1>3
<1>7. Arrived' = Arrived
  BY <1>2, <1>6 DEF Arrived
<1>8. Limit' = Limit
  BY <1>2, <1>4, <1>5, <1>7 DEF Limit, Ahead
<1>9. last < Limit
  <2>1. CASE Whole
    <3>1. last + 1 <= sent
      BY <1>1, HandledIsNew DEF PipeInv, Known
    <3>2. sent \in Nat
      BY LimitAhead
    <3> QED
      BY <1>1, <2>1, <3>1, <3>2 DEF Limit
  <2>2. CASE ~ Whole
    <3>1. Limit = Ahead
      BY <1>4, <2>2 DEF Limit
    <3>2. Ahead \in Nat /\ last + Len(feed) <= Ahead
      BY <1>1, AheadSent
    <3> QED
      BY <1>1, <1>3, <3>1, <3>2
  <2> QED
    BY <2>1, <2>2
<1>10. Stream!Handle
  <2>1. Listed' = Listed
    BY <1>2 DEF Listed
  <2>2. Whole' = Whole
    BY <1>2 DEF Whole, Listed, Deaf
  <2> QED
    BY <1>1, <1>2, <1>4, <1>8, <1>9, <2>1, <2>2 DEF Stream!Handle
<1> QED
  BY <1>10 DEF Stream!StreamNext

LEMMA ReadRefines ==
  ASSUME StreamInv, PipeInv, StreamInv', PipeInv', ReadLine
  PROVE  Stream!StreamNext \/ UNCHANGED Stream!streamVars
<1> DEFINE s == sock[Watched]
           e == Head(s)
<1>1. /\ UNCHANGED <<bc, line, pos, clients, conn, backlog, lagged, sent, last>>
      /\ conn[Watched] = "up" /\ s # <<>> /\ sock' = [sock EXCEPT ![Watched] = Tail(s)]
      /\ \/ UNCHANGED feedVars /\ collector = "ended"
         \/ feed' = Append(feed, e) /\ UNCHANGED feed_lagged
         \/ feed_lagged' = TRUE
  BY DEF ReadLine, channelVars, taskVars, clientVars, collectorVars
<1>2. /\ Listed /\ Listed' /\ (Following <=> ~ Deaf)
  BY <1>1, ListedFollows DEF StreamInv, QuietInv, Newcomer, Listed
<1>3. CASE feed_lagged'
  <2>1. Deaf' /\ ~ Whole'
    BY <1>2, <1>3 DEF Deaf, Whole
  <2> QED
    BY <1>1, <1>2, <2>1, StreamCut DEF Stream!StreamNext
<1>4. CASE ~ feed_lagged' /\ feed_lagged
  BY <1>1, <1>4 DEF StreamInv, StreamType, QueueType, feedVars
<1>5. CASE ~ feed_lagged' /\ ~ feed_lagged
  <2>1. feed' = Append(feed, e)
    BY <1>1, <1>5 DEF StreamInv, QuietInv
  <2>2. /\ s \in Seq(Event) /\ feed \in Seq(Event) /\ last \in Nat /\ sock'[Watched] = Tail(s)
    BY <1>1, DashboardAssumption DEF StreamInv, StreamType, QueueType, FollowInv
  <2> HIDE DEF s
  <2>3. e \in Event /\ Len(s) \in Nat \ {0} /\ Len(Tail(s)) = Len(s) - 1
    BY <1>1, <2>2, TailType
  <2> HIDE DEF e
  <2>4. Len(feed) \in Nat /\ Len(feed') = Len(feed) + 1
    BY <2>1, <2>2, <2>3, ToSetAppend
  <2>5. Arrived' = Arrived
    <3>1. Arrived' = last + Len(feed') + Len(Tail(s))
      BY <1>1, <2>2 DEF Arrived
    <3>2. Arrived = last + Len(feed) + Len(s)
      BY DEF Arrived, s
    <3> QED
      BY ONLY <2>2, <2>3, <2>4, <3>1, <3>2
  <2>6. Ahead' = Ahead /\ (Deaf' <=> Deaf)
    BY <1>1, <1>5, <2>5 DEF Ahead, Waiting, Deaf
  <2> QED
    BY <1>1, <1>2, <2>6, StreamStays
<1> QED
  BY <1>3, <1>4, <1>5

LEMMA StepRefines ==
  ASSUME StreamInv, PipeInv, StreamInv', PipeInv', [Next]_vars
  PROVE  Stream!StreamNext \/ UNCHANGED Stream!streamVars
<1>t. /\ Watched \in Clients /\ sock \in [Clients -> Seq(Event)]
      /\ conn \in [Clients -> {"out", "up", "gone"}]
  BY DashboardAssumption DEF StreamInv, StreamType, QueueType, ListInv, ListType
<1>u. ASSUME UNCHANGED <<bc, pos, clients, lagged, sent, feed_lagged, last>>,
             Listed' <=> Listed, conn'[Watched] = conn[Watched],
             feed_lagged \/ (feed' = feed /\ sock'[Watched] = sock[Watched])
      PROVE  UNCHANGED Stream!streamVars
  <2>1. Deaf' <=> Deaf
    BY <1>u DEF Deaf
  <2>2. ~ Deaf => Ahead' = Ahead
    BY <1>u DEF Deaf, Ahead, Arrived, Waiting
  <2> QED
    BY <1>u, <2>1, <2>2, StreamStays
<1>1. CASE ServerStep
  BY <1>1, ServerRefines
<1>2. ASSUME NEW c \in Clients, Accept(c)
      PROVE  Stream!StreamNext \/ UNCHANGED Stream!streamVars
  BY <1>2, AcceptRefines
<1>3. ASSUME NEW c \in Clients, Connect(c) PROVE UNCHANGED Stream!streamVars
  <2>1. /\ conn' = [conn EXCEPT ![c] = "up"] /\ backlog' = backlog \cup {c} /\ conn[c] = "out"
        /\ UNCHANGED <<bc, pos, clients, lagged, sent, feed, feed_lagged, last, sock>>
    BY <1>3 DEF Connect, channelVars, taskVars, dashVars, feedVars, collectorVars
  <2>2. CASE c # Watched
    BY <1>t, <1>u, <2>1, <2>2 DEF Listed
  <2>3. CASE c = Watched
    <3>1. ~ Listed /\ ~ Listed'
      BY <1>t, <2>1, <2>3 DEF Listed
    <3> QED
      BY <2>1, <3>1, StreamStays
  <2> QED
    BY <2>2, <2>3
<1>4. ASSUME NEW c \in Clients, PeerRead(c) \/ PeerQuit(c) PROVE UNCHANGED Stream!streamVars
  <2>1. /\ c # Watched
        /\ UNCHANGED <<bc, pos, clients, lagged, sent, feed, feed_lagged, last, backlog>>
        /\ UNCHANGED conn \/ conn' = [conn EXCEPT ![c] = "gone"]
        /\ sock' = [sock EXCEPT ![c] = Tail(@)] \/ sock' = [sock EXCEPT ![c] = <<>>]
    BY <1>4 DEF PeerRead, PeerQuit, HangUp, Peers, channelVars, taskVars, clientVars, dashVars,
       feedVars, collectorVars
  <2>2. sock'[Watched] = sock[Watched] /\ conn'[Watched] = conn[Watched]
    BY <1>t, <2>1
  <2> QED
    BY <1>u, <2>1, <2>2 DEF Listed
<1>5. CASE ReadLine
  BY <1>5, ReadRefines
<1>6. CASE handle_event
  BY <1>6, HandleRefines
<1>7. CASE CollectorLagged
  BY <1>7, <1>u DEF CollectorLagged, serverVars, channelVars, taskVars, clientVars,
     collectorVars, Listed
<1>8. CASE Quit
  <2>1. /\ conn'[Watched] = "gone" /\ conn[Watched] = "up"
        /\ UNCHANGED <<bc, lagged, sent, feed, feed_lagged, last, backlog>>
    BY <1>8, <1>t DEF Quit, Pressed, HangUp, channelVars, taskVars, dashVars, feedVars,
       collectorVars
  <2>2. (Listed' <=> Listed) /\ Deaf'
    BY <2>1 DEF Listed, Deaf
  <2>3. CASE Listed
    <3>1. ~ Whole'
      BY <2>2, <2>3 DEF Whole
    <3> QED
      BY <2>1, <2>2, <2>3, <3>1, StreamCut DEF Stream!StreamNext
  <2>4. CASE ~ Listed
    BY <2>1, <2>2, <2>4, StreamStays
  <2> QED
    BY <2>3, <2>4
<1>9. CASE Screen \/ UNCHANGED vars
  BY <1>9, <1>u DEF Screen, SwitchTab, Down, Up, JumpEnd, JumpTop, Redraw, SnapshotLog, vars,
     serverVars,
     channelVars, taskVars, clientVars, dashVars, feedVars, collectorVars, Listed
<1> QED
  BY <1>1, <1>2, <1>3, <1>4, <1>5, <1>6, <1>7, <1>8, <1>9 DEF Next

(* What a dashboard handles is a part of the stream of events without holes *)
(* that is cut off once and for good: whatever happens at the two channels, *)
(* the sockets and the list of clients, EventStream allows it.              *)
THEOREM DashboardImplementsStream == Spec => ImplementsStream
<1>1. Init => Stream!StreamInit
  <2> SUFFICES ASSUME Init PROVE Stream!StreamInit
    OBVIOUS
  <2>1. sent = 0 /\ last = 0 /\ conn[Watched] = "out"
    BY DashboardAssumption DEF Init, BroadcasterInit
  <2>2. ~ Listed /\ Whole
    BY <2>1 DEF Listed, Whole
  <2> QED
    BY <2>1, <2>2 DEF Stream!StreamInit, Limit
<1>2. DashboardInv /\ DashboardInv' /\ [Next]_vars => [Stream!StreamNext]_Stream!streamVars
  BY StepRefines DEF DashboardInv
<1> QED
  BY <1>1, <1>2, DashboardInit, DashboardNext, PTL DEF Spec, ImplementsStream, Stream!StreamSpec

=============================================================================
