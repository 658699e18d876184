--------------------------- MODULE SchedulerProofs --------------------------
(***************************************************************************)
(* What holds of acquire for any number of callers, permits and             *)
(* notifications.                                                           *)
(***************************************************************************)
EXTENDS Scheduler, DataInduction

(***************************************************************************)
(* The permits: those that are free and those that are held make up all.    *)
(***************************************************************************)
PermitInv ==
  /\ pc \in [Client -> Location]
  /\ backoff_until \subseteq Nat
  /\ permits \in Nat
  /\ permits + Cardinality(Holders) = MaxConcurrency

LEMMA HoldersFinite ==
  IsFiniteSet(Holders) /\ Cardinality(Holders) \in Nat
<1>1. Holders \subseteq Client
  BY DEF Holders
<1> QED
  BY <1>1, SchedulerAssumption, FS_Subset, FS_CardinalityType

LEMMA PermitInit == Init => PermitInv
<1> SUFFICES ASSUME Init PROVE PermitInv
  OBVIOUS
<1>1. Holders = {}
  BY DEF Init, Holders
<1> QED
  BY <1>1, SchedulerAssumption, FS_EmptySet DEF Init, PermitInv, Location

(* A caller that moves between two places where it holds nothing, or        *)
(* between two where it holds a permit, leaves the holders as they are.     *)
LEMMA MoveKeepsHolders ==
  ASSUME PermitInv, NEW c \in Client, NEW from \in Location, NEW to \in Location,
         Goto(c, from, to),
         from \in {"recording", "holding"} <=> to \in {"recording", "holding"}
  PROVE  pc' \in [Client -> Location] /\ Holders' = Holders
<1>1. pc' = [pc EXCEPT ![c] = to] /\ pc[c] = from
  BY DEF Goto
<1>2. pc' \in [Client -> Location]
  BY <1>1 DEF PermitInv
<1>3. \A d \in Client : pc'[d] = IF d = c THEN to ELSE pc[d]
  BY <1>1 DEF PermitInv
<1>4. \A d \in Client : pc'[d] \in {"recording", "holding"} <=>
                        pc[d] \in {"recording", "holding"}
  BY <1>1, <1>3
<1> QED
  BY <1>2, <1>4 DEF Holders

LEMMA BackoffNext ==
  ASSUME backoff_until \subseteq Nat, [Next]_vars
  PROVE  backoff_until' \subseteq Nat
<1>1. CASE Tick
  BY <1>1 DEF Tick, Less
<1>2. ASSUME NEW ms \in 0 .. MaxBackoff, Notify(ms) PROVE backoff_until' \subseteq Nat
  BY <1>2, SchedulerAssumption DEF Notify
<1>3. ASSUME NEW c \in Client, Call(c) \/ AcquireStep(c) \/ Release(c)
      PROVE  backoff_until' \subseteq Nat
  BY <1>3 DEF Call, AcquireStep, Release, BackOff, NoBackoff, BackedOff, ClearBackoff, Throttle,
     PassRate, Throttled, TakePermit, RecordRequest
<1>4. CASE UNCHANGED vars
  BY <1>4 DEF vars
<1> QED
  BY <1>1, <1>2, <1>3, <1>4 DEF Next

LEMMA PermitNext == PermitInv /\ [Next]_vars => PermitInv'
<1> SUFFICES ASSUME PermitInv, [Next]_vars PROVE PermitInv'
  OBVIOUS
<1>b. backoff_until' \subseteq Nat
  BY BackoffNext DEF PermitInv
<1>f. IsFiniteSet(Holders) /\ Cardinality(Holders) \in Nat
  BY HoldersFinite
<1>1. CASE UNCHANGED <<pc, permits>>
  BY <1>1, <1>b DEF PermitInv, Holders
<1>2. ASSUME NEW c \in Client, Call(c) \/ BackOff(c) \/ NoBackoff(c) \/ BackedOff(c)
                                 \/ ClearBackoff(c) \/ Throttle(c) \/ PassRate(c)
                                 \/ Throttled(c) \/ RecordRequest(c)
      PROVE  PermitInv'
  <2>1. PICK from \in Location, to \in Location :
          /\ Goto(c, from, to)
          /\ from \in {"recording", "holding"} <=> to \in {"recording", "holding"}
    BY <1>2 DEF Call, BackOff, NoBackoff, BackedOff, ClearBackoff, Throttle, PassRate, Throttled,
       RecordRequest, Location
  <2>2. pc' \in [Client -> Location] /\ Holders' = Holders
    BY <2>1, MoveKeepsHolders
  <2>3. permits' = permits
    BY <1>2 DEF Call, BackOff, NoBackoff, BackedOff, ClearBackoff, Throttle, PassRate, Throttled,
       RecordRequest
  <2> QED
    BY <2>2, <2>3, <1>b DEF PermitInv
<1>3. ASSUME NEW c \in Client, TakePermit(c) PROVE PermitInv'
  <2>1. /\ pc' = [pc EXCEPT ![c] = "recording"]
        /\ pc[c] = "semaphore"
        /\ permits > 0 /\ permits' = permits - 1
    BY <1>3 DEF TakePermit, Goto
  <2>2. Holders' = Holders \cup {c} /\ c \notin Holders
    BY <2>1 DEF PermitInv, Holders
  <2>3. Cardinality(Holders') = Cardinality(Holders) + 1
    BY <2>2, <1>f, FS_AddElement
  <2>4. pc' \in [Client -> Location]
    BY <2>1 DEF PermitInv, Location
  <2> QED
    BY <2>1, <2>3, <2>4, <1>b, <1>f, SchedulerAssumption DEF PermitInv
<1>4. ASSUME NEW c \in Client, Release(c) PROVE PermitInv'
  <2>1. /\ pc' = [pc EXCEPT ![c] = "idle"]
        /\ pc[c] = "holding"
        /\ permits' = permits + 1
    BY <1>4 DEF Release, Goto
  <2>2. Holders' = Holders \ {c} /\ c \in Holders
    BY <2>1 DEF PermitInv, Holders
  <2>3. Cardinality(Holders') = Cardinality(Holders) - 1
    BY <2>2, <1>f, FS_RemoveElement
  <2>4. pc' \in [Client -> Location]
    BY <2>1 DEF PermitInv, Location
  <2> QED
    BY <2>1, <2>3, <2>4, <1>b, <1>f, SchedulerAssumption DEF PermitInv
<1> QED
  BY <1>1, <1>2, <1>3, <1>4 DEF Next, AcquireStep, Tick, Notify, vars

(* There are never more holders of a permit than the semaphore was made     *)
(* with, for any number of callers, with or without backpressure.           *)
THEOREM ConcurrencyAlwaysLimited == Spec => []ConcurrencyLimited
<1>1. PermitInv => ConcurrencyLimited
  BY HoldersFinite, SchedulerAssumption DEF PermitInv, ConcurrencyLimited
<1> QED
  BY <1>1, PermitInit, PermitNext, PTL DEF Spec

(* No step of any caller forgets a backpressure deadline that lies ahead.   *)
THEOREM BackpressureAlwaysKept == Spec => BackpressureKept
<1>1. ASSUME PermitInv, [Next]_vars, NEW left \in backoff_until, left > 0
      PROVE  backoff_until' # {}
  <2>1. CASE Tick
    BY <1>1, <2>1 DEF Tick
  <2>2. ASSUME NEW ms \in 0 .. MaxBackoff, Notify(ms) PROVE backoff_until' # {}
    BY <2>2 DEF Notify
  <2>3. ASSUME NEW c \in Client, ClearBackoff(c) PROVE backoff_until' # {}
    <3>1. left \in backoff_until'
      BY <1>1, <2>3 DEF ClearBackoff, PermitInv
    <3> QED
      BY <3>1
  <2>4. CASE UNCHANGED backoff_until
    BY <1>1, <2>4
  <2> QED
    BY <1>1, <2>1, <2>2, <2>3, <2>4
    DEF Next, vars, Call, AcquireStep, Release, BackOff, NoBackoff, BackedOff, Throttle, PassRate,
        Throttled, TakePermit, RecordRequest
<1>2. PermitInv /\ [Next]_vars =>
        [(\E left \in backoff_until : left > 0) => backoff_until' # {}]_vars
  BY <1>1
<1> QED
  BY <1>2, PermitInit, PermitNext, PTL DEF Spec, BackpressureKept

(***************************************************************************)
(* What Recent returns.  It is defined along the list, so that the function *)
(* it is defined with is shown to exist first; all the rest follows from    *)
(* what it makes of the empty list and of a list with one more request.     *)
(***************************************************************************)
Ages == Seq(Nat)

KeptOf(ages, kept) ==
  kept = [i \in 0 .. Len(ages) |->
            IF i = 0 THEN <<>>
            ELSE IF ages[i] < Window THEN Append(kept[i - 1], ages[i]) ELSE kept[i - 1]]

Keep(ages) ==
  [x \in (1 .. Len(ages)) \X Ages |->
     IF ages[x[1]] < Window THEN Append(x[2], ages[x[1]]) ELSE x[2]]

LEMMA KeepType == ASSUME NEW ages \in Ages PROVE Keep(ages) \in [(1 .. Len(ages)) \X Ages -> Ages]
<1>1. ASSUME NEW x \in (1 .. Len(ages)) \X Ages
      PROVE  (IF ages[x[1]] < Window THEN Append(x[2], ages[x[1]]) ELSE x[2]) \in Ages
  <2>1. x[2] \in Ages /\ ages[x[1]] \in Nat
    BY DEF Ages
  <2> QED
    BY <2>1 DEF Ages
<1> QED
  BY <1>1 DEF Keep

(* The equation in the form that the lemmas about recursion have.           *)
LEMMA KeptForm ==
  ASSUME NEW ages \in Ages, NEW kept \in [0 .. Len(ages) -> Ages]
  PROVE  KeptOf(ages, kept) <=> Follows(kept, Len(ages), <<>>, Keep(ages))
<1>1. ASSUME NEW i \in 0 .. Len(ages), i # 0
      PROVE  Keep(ages)[<<i, kept[i - 1]>>]
               = IF ages[i] < Window THEN Append(kept[i - 1], ages[i]) ELSE kept[i - 1]
  <2>1. i - 1 \in 0 .. Len(ages) /\ i \in 1 .. Len(ages)
    BY <1>1 DEF Ages
  <2>2. <<i, kept[i - 1]>> \in (1 .. Len(ages)) \X Ages
    BY <2>1
  <2> QED
    BY <2>2 DEF Keep
<1> QED
  BY <1>1 DEF KeptOf, Follows

LEMMA KeptType ==
  ASSUME NEW ages \in Ages, NEW kept, KeptOf(ages, kept)
  PROVE  kept \in [0 .. Len(ages) -> Ages]
<1> DEFINE S == {i \in Nat : i <= Len(ages) => kept[i] \in Ages}
<1>1. 0 \in S
  <2>1. 0 \in 0 .. Len(ages)
    BY DEF Ages
  <2> QED
    BY <2>1 DEF KeptOf, Ages
<1>2. ASSUME NEW i \in Nat, i \in S PROVE i + 1 \in S
  <2> SUFFICES ASSUME i + 1 <= Len(ages) PROVE kept[i + 1] \in Ages
    OBVIOUS
  <2>1. /\ kept[i] \in Ages /\ ages[i + 1] \in Nat
        /\ i + 1 \in 0 .. Len(ages) /\ i + 1 # 0 /\ (i + 1) - 1 = i
    BY <1>2 DEF Ages
  <2>2. kept[i + 1] = IF ages[i + 1] < Window THEN Append(kept[i], ages[i + 1]) ELSE kept[i]
    BY <2>1 DEF KeptOf
  <2> QED
    BY <2>1, <2>2 DEF Ages
<1> HIDE DEF S
<1>3. Nat \subseteq S
  BY <1>1, <1>2, NumberInduction
<1>4. ASSUME NEW i \in 0 .. Len(ages) PROVE kept[i] \in Ages
  <2>1. i \in S /\ i <= Len(ages)
    BY <1>3 DEF Ages
  <2> QED
    BY <2>1 DEF S
<1> QED
  BY <1>4 DEF KeptOf

LEMMA RecentIsKept ==
  ASSUME NEW ages \in Ages
  PROVE  \E kept \in [0 .. Len(ages) -> Ages] :
           KeptOf(ages, kept) /\ Recent(ages) = kept[Len(ages)]
<1> DEFINE kept == CHOOSE k : KeptOf(ages, k)
<1>1. KeptOf(ages, kept)
  <2>1. <<>> \in Ages /\ Len(ages) \in Nat
    BY DEF Ages
  <2>2. \E k \in [0 .. Len(ages) -> Ages] : Follows(k, Len(ages), <<>>, Keep(ages))
    BY <2>1, KeepType, RecursionExists
  <2>3. \E k \in [0 .. Len(ages) -> Ages] : KeptOf(ages, k)
    BY <2>2, KeptForm
  <2> QED
    BY <2>3
<1>2. Recent(ages) = kept[Len(ages)]
  BY DEF Recent, KeptOf
<1> HIDE DEF kept
<1> QED
  BY <1>1, <1>2, KeptType

LEMMA RecentOfNone == Recent(<<>>) = <<>>
<1>0. <<>> \in Ages
  BY DEF Ages
<1>1. PICK kept : KeptOf(<<>>, kept) /\ Recent(<<>>) = kept[Len(<<>>)]
  BY <1>0, RecentIsKept
<1>2. 0 \in 0 .. Len(<<>>) /\ Len(<<>>) = 0
  OBVIOUS
<1> QED
  BY <1>1, <1>2 DEF KeptOf

LEMMA RecentOfMore ==
  ASSUME NEW ages \in Ages, NEW age \in Nat
  PROVE  Recent(Append(ages, age)) = IF age < Window THEN Append(Recent(ages), age) ELSE Recent(ages)
<1> DEFINE more == Append(ages, age)
           n == Len(ages)
<1>0. /\ more \in Ages /\ Len(more) = n + 1 /\ n \in Nat
      /\ more[n + 1] = age /\ \A i \in 1 .. n : more[i] = ages[i]
  BY DEF Ages
<1>1. PICK f \in [0 .. n -> Ages] : KeptOf(ages, f) /\ Recent(ages) = f[n]
  BY RecentIsKept
<1>2. PICK g \in [0 .. n + 1 -> Ages] : KeptOf(more, g) /\ Recent(more) = g[n + 1]
  <2> HIDE DEF more
  <2> QED
    BY <1>0, RecentIsKept
<1> HIDE DEF more
<1>3. g[n + 1] = IF age < Window THEN Append(g[n], age) ELSE g[n]
  <2>1. n + 1 \in 0 .. Len(more) /\ n + 1 # 0 /\ (n + 1) - 1 = n
    BY <1>0
  <2> QED
    BY <1>0, <1>2, <2>1 DEF KeptOf
<1>4. g[n] = f[n]
  <2> DEFINE S == {i \in Nat : i <= n => g[i] = f[i]}
  <2>1. 0 \in S
    <3>1. 0 \in 0 .. n /\ 0 \in 0 .. Len(more)
      BY <1>0
    <3> QED
      BY <1>1, <1>2, <3>1 DEF KeptOf
  <2>2. ASSUME NEW i \in Nat, i \in S PROVE i + 1 \in S
    <3> SUFFICES ASSUME i + 1 <= n PROVE g[i + 1] = f[i + 1]
      OBVIOUS
    <3>1. g[i] = f[i]
      BY <1>0, <2>2
    <3>2. /\ i + 1 \in 0 .. n /\ i + 1 \in 0 .. Len(more) /\ i + 1 # 0 /\ (i + 1) - 1 = i
          /\ more[i + 1] = ages[i + 1]
      BY <1>0
    <3>3. f[i + 1] = IF ages[i + 1] < Window THEN Append(f[i], ages[i + 1]) ELSE f[i]
      BY <1>1, <3>2 DEF KeptOf
    <3>4. g[i + 1] = IF more[i + 1] < Window THEN Append(g[i], more[i + 1]) ELSE g[i]
      BY <1>2, <3>2 DEF KeptOf
    <3> QED
      BY <3>1, <3>2, <3>3, <3>4
  <2> HIDE DEF S
  <2>3. n \in S
    BY <1>0, <2>1, <2>2, NumberInduction
  <2> QED
    BY <1>0, <2>3 DEF S
<1> QED
  BY <1>1, <1>2, <1>3, <1>4 DEF more

LEMMA RecentType ==
  ASSUME NEW ages \in Ages PROVE Recent(ages) \in Ages /\ Len(Recent(ages)) <= Len(ages)
<1> DEFINE S == {a \in Ages : Recent(a) \in Ages /\ Len(Recent(a)) <= Len(a)}
<1>1. <<>> \in S
  <2>1. <<>> \in Ages /\ Len(<<>>) <= Len(<<>>)
    BY DEF Ages
  <2> QED
    BY <2>1, RecentOfNone
<1>2. ASSUME NEW a \in Ages, NEW age \in Nat, a \in S PROVE Append(a, age) \in S
  <2>1. Append(a, age) \in Ages /\ Len(Append(a, age)) = Len(a) + 1 /\ Len(a) \in Nat
    BY DEF Ages
  <2>2. Append(Recent(a), age) \in Ages /\ Len(Append(Recent(a), age)) = Len(Recent(a)) + 1
    BY <1>2 DEF Ages
  <2>3. Len(Recent(a)) \in Nat
    BY <1>2 DEF Ages
  <2>4. Recent(Append(a, age)) = IF age < Window THEN Append(Recent(a), age) ELSE Recent(a)
    BY RecentOfMore
  <2> HIDE DEF S
  <2>5. Recent(Append(a, age)) \in Ages
    BY <1>2, <2>2, <2>4 DEF S
  <2>6. Len(Recent(Append(a, age))) <= Len(a) + 1
    <3>1. Len(Recent(a)) <= Len(a)
      BY <1>2 DEF S
    <3>2. CASE age < Window
      BY <2>1, <2>2, <2>3, <2>4, <3>1, <3>2
    <3>3. CASE ~ (age < Window)
      BY <2>1, <2>3, <2>4, <3>1, <3>3
    <3> QED
      BY <3>2, <3>3
  <2> QED
    BY <2>1, <2>5, <2>6 DEF S
<1> HIDE DEF S
<1>3. Ages \subseteq S
  BY <1>1, <1>2, SequenceInduction DEF Ages
<1> QED
  BY <1>3 DEF S

LEMMA RecentTwice == ASSUME NEW ages \in Ages PROVE Recent(Recent(ages)) = Recent(ages)
<1> DEFINE S == {a \in Ages : Recent(Recent(a)) = Recent(a)}
<1>1. <<>> \in S
  BY RecentOfNone DEF Ages
<1>2. ASSUME NEW a \in Ages, NEW age \in Nat, a \in S PROVE Append(a, age) \in S
  <2>1. Append(a, age) \in Ages /\ Recent(a) \in Ages
    BY RecentType DEF Ages
  <2>2. CASE age < Window
    <3>1. Recent(Append(a, age)) = Append(Recent(a), age)
      BY <2>2, RecentOfMore
    <3>2. Recent(Append(Recent(a), age)) = Append(Recent(Recent(a)), age)
      BY <2>1, <2>2, RecentOfMore
    <3> QED
      BY <1>2, <2>1, <3>1, <3>2
  <2>3. CASE ~ (age < Window)
    <3>1. Recent(Append(a, age)) = Recent(a)
      BY <2>3, RecentOfMore
    <3> QED
      BY <1>2, <2>1, <3>1
  <2> QED
    BY <2>2, <2>3
<1> HIDE DEF S
<1>3. Ages \subseteq S
  BY <1>1, <1>2, SequenceInduction DEF Ages
<1> QED
  BY <1>3 DEF S

OlderAge(age) == IF age < Window THEN age + 1 ELSE Window

LEMMA OlderType == ASSUME NEW ages \in Ages PROVE Older(ages) \in Ages
<1>1. \A i \in 1 .. Len(ages) : ages[i] \in Nat
  BY DEF Ages
<1>2. Older(ages) = [i \in 1 .. Len(ages) |-> OlderAge(ages[i])]
  BY DEF Older, OlderAge, Ages
<1>3. \A i \in 1 .. Len(ages) : OlderAge(ages[i]) \in Nat
  BY <1>1, SchedulerAssumption DEF OlderAge
<1>4. Len(ages) \in Nat
  BY DEF Ages
<1> QED
  BY <1>2, <1>3, <1>4 DEF Ages

LEMMA OlderOfMore ==
  ASSUME NEW ages \in Ages, NEW age \in Nat
  PROVE  Older(Append(ages, age)) = Append(Older(ages), OlderAge(age))
<1> DEFINE n == Len(ages)
<1>1. /\ n \in Nat /\ DOMAIN Append(ages, age) = 1 .. n + 1 /\ DOMAIN ages = 1 .. n
      /\ Append(ages, age)[n + 1] = age
      /\ \A i \in 1 .. n : Append(ages, age)[i] = ages[i]
  BY DEF Ages
<1>2. Older(Append(ages, age))
        = [i \in 1 .. n + 1 |-> IF i = n + 1 THEN OlderAge(age) ELSE OlderAge(ages[i])]
  BY <1>1 DEF Older, OlderAge
<1>3. Older(ages) = [i \in 1 .. n |-> OlderAge(ages[i])]
  BY <1>1 DEF Older, OlderAge
<1>4. Older(ages) \in Ages /\ Len(Older(ages)) = n /\ OlderAge(age) \in Nat
  BY <1>1, <1>3, OlderType, SchedulerAssumption DEF Ages, OlderAge
<1>5. Older(Append(ages, age)) \in Ages
  <2>1. Append(ages, age) \in Ages
    BY DEF Ages
  <2> QED
    BY <2>1, OlderType
<1> DEFINE o == Older(ages)
           x == OlderAge(age)
           more == Older(Append(ages, age))
<1>6. /\ o \in Seq(Nat) /\ more \in Seq(Nat) /\ x \in Nat /\ n \in Nat
      /\ Len(o) = n /\ Len(more) = n + 1
      /\ more[n + 1] = x /\ \A i \in 1 .. n : more[i] = o[i]
  <2>1. Len(more) = n + 1
    BY <1>1, <1>2
  <2>2. more[n + 1] = x /\ \A i \in 1 .. n : more[i] = o[i]
    BY <1>1, <1>2, <1>3
  <2> QED
    BY <1>1, <1>4, <1>5, <2>1, <2>2 DEF Ages
<1> HIDE DEF o, x, n, more
<1>7. more = Append(o, x)
  BY <1>6
<1> QED
  BY <1>7 DEF o, x, more

(* A request that has left the window never comes back.                     *)
LEMMA RecentOfOlder ==
  ASSUME NEW ages \in Ages PROVE Recent(Older(Recent(ages))) = Recent(Older(ages))
<1> DEFINE S == {a \in Ages : Recent(Older(Recent(a))) = Recent(Older(a))}
<1>1. <<>> \in S
  BY RecentOfNone DEF Ages
<1>2. ASSUME NEW a \in Ages, NEW age \in Nat, a \in S PROVE Append(a, age) \in S
  <2>1. /\ Append(a, age) \in Ages /\ Recent(a) \in Ages
        /\ Older(a) \in Ages /\ Older(Recent(a)) \in Ages
        /\ OlderAge(age) \in Nat
    BY RecentType, OlderType, SchedulerAssumption DEF Ages, OlderAge
  <2>2. Recent(Older(Append(a, age)))
          = IF OlderAge(age) < Window THEN Append(Recent(Older(a)), OlderAge(age))
            ELSE Recent(Older(a))
    <3>1. Older(Append(a, age)) = Append(Older(a), OlderAge(age))
      BY OlderOfMore
    <3> QED
      BY <2>1, <3>1, RecentOfMore
  <2>3. CASE age < Window
    <3>1. Recent(Append(a, age)) = Append(Recent(a), age)
      BY <2>3, RecentOfMore
    <3>2. Older(Append(Recent(a), age)) = Append(Older(Recent(a)), OlderAge(age))
      BY <2>1, OlderOfMore
    <3>3. Recent(Append(Older(Recent(a)), OlderAge(age)))
            = IF OlderAge(age) < Window THEN Append(Recent(Older(Recent(a))), OlderAge(age))
              ELSE Recent(Older(Recent(a)))
      BY <2>1, RecentOfMore
    <3> QED
      BY <1>2, <2>1, <2>2, <3>1, <3>2, <3>3
  <2>4. CASE ~ (age < Window)
    <3>1. Recent(Append(a, age)) = Recent(a)
      BY <2>4, RecentOfMore
    <3>2. ~ (OlderAge(age) < Window)
      BY <2>4, SchedulerAssumption DEF OlderAge
    <3> QED
      BY <1>2, <2>1, <2>2, <3>1, <3>2
  <2> QED
    BY <2>3, <2>4
<1> HIDE DEF S
<1>3. Ages \subseteq S
  BY <1>1, <1>2, SequenceInduction DEF Ages
<1> QED
  BY <1>3 DEF S

(***************************************************************************)
(* The window.  What the scheduler remembers is, but for what has left the  *)
(* window, what happened in it.                                             *)
(***************************************************************************)
WindowInv ==
  /\ recent_requests \in Ages
  /\ requests \in Ages
  /\ NothingForgotten

LEMMA WindowNext == WindowInv /\ [Next]_vars => WindowInv'
<1> SUFFICES ASSUME WindowInv, [Next]_vars PROVE WindowInv'
  OBVIOUS
<1>t. recent_requests \in Ages /\ requests \in Ages /\ Recent(recent_requests) = requests
  BY DEF WindowInv, NothingForgotten
<1>1. CASE UNCHANGED <<recent_requests, requests>>
  BY <1>1 DEF WindowInv, NothingForgotten
<1>2. CASE Tick
  <2>1. recent_requests' = Older(recent_requests) /\ requests' = Recent(Older(requests))
    BY <1>2 DEF Tick
  <2>2. recent_requests' \in Ages /\ requests' \in Ages
    BY <1>t, <2>1, OlderType, RecentType
  <2>3. Recent(Older(recent_requests)) = Recent(Older(requests))
    BY <1>t, RecentOfOlder
  <2> QED
    BY <2>1, <2>2, <2>3 DEF WindowInv, NothingForgotten
<1>3. ASSUME NEW c \in Client, Throttle(c) \/ PassRate(c) PROVE WindowInv'
  <2>1. recent_requests' = Recent(recent_requests) /\ requests' = requests
    BY <1>3 DEF Throttle, PassRate
  <2>2. Recent(recent_requests) \in Ages /\ Recent(Recent(recent_requests)) = Recent(recent_requests)
    BY <1>t, RecentType, RecentTwice
  <2> QED
    BY <1>t, <2>1, <2>2 DEF WindowInv, NothingForgotten
<1>4. ASSUME NEW c \in Client, RecordRequest(c) PROVE WindowInv'
  <2>1. /\ recent_requests' = Append(recent_requests, 0)
        /\ requests' = Append(requests, 0)
    BY <1>4 DEF RecordRequest
  <2>2. recent_requests' \in Ages /\ requests' \in Ages
    BY <1>t, <2>1 DEF Ages
  <2>3. Recent(Append(recent_requests, 0)) = Append(Recent(recent_requests), 0)
    BY <1>t, RecentOfMore, SchedulerAssumption
  <2> QED
    BY <1>t, <2>1, <2>2, <2>3 DEF WindowInv, NothingForgotten
<1> QED
  BY <1>1, <1>2, <1>3, <1>4 DEF Next, AcquireStep, Notify, vars, Call, BackOff, NoBackoff, BackedOff,
     ClearBackoff, Throttled, TakePermit, Release

LEMMA WindowInit == Init => WindowInv
  BY RecentOfNone DEF Init, WindowInv, NothingForgotten, Ages

(* Cleaning the list forgets nothing that still counts, however many tasks  *)
(* clean, read and extend it in turn and however time passes in between.    *)
THEOREM NeverForgets == Spec => []NothingForgotten
<1>1. WindowInv => NothingForgotten
  BY DEF WindowInv
<1> QED
  BY <1>1, WindowInit, WindowNext, PTL DEF Spec

(***************************************************************************)
(* The overshoot.  A caller between the check of the window and the record  *)
(* of its request counts as a request already: when the last one passed the *)
(* check the window was not full, and no more than all callers were there.  *)
(***************************************************************************)
Unrecorded == {c \in Client : pc[c] \in {"semaphore", "recording"}}

OvershootInv == Len(requests) + Cardinality(Unrecorded) < Limit + Cardinality(Client)

LEMMA UnrecordedFinite ==
  ASSUME NEW S \in SUBSET Client
  PROVE  /\ IsFiniteSet(S) /\ Cardinality(S) \in Nat /\ Cardinality(Client) \in Nat
         /\ Cardinality(S) <= Cardinality(Client)
  BY SchedulerAssumption, FS_Subset, FS_CardinalityType

LEMMA OvershootInit == Init => OvershootInv
<1> SUFFICES ASSUME Init PROVE OvershootInv
  OBVIOUS
<1>1. Unrecorded = {} /\ Len(requests) = 0
  BY DEF Init, Unrecorded
<1>2. Cardinality(Unrecorded) = 0 /\ Cardinality(Client) \in Nat
  BY <1>1, FS_EmptySet, UnrecordedFinite
<1>3. Limit \in Nat \ {0}
  BY SchedulerAssumption DEF Limit
<1> QED
  BY <1>1, <1>2, <1>3 DEF OvershootInv

LEMMA OvershootNext ==
  PermitInv /\ WindowInv /\ OvershootInv /\ [Next]_vars => OvershootInv'
<1> SUFFICES ASSUME PermitInv, WindowInv, OvershootInv, [Next]_vars PROVE OvershootInv'
  OBVIOUS
<1>t. /\ pc \in [Client -> Location] /\ recent_requests \in Ages /\ requests \in Ages
      /\ Recent(recent_requests) = requests
  BY DEF PermitInv, WindowInv, NothingForgotten
<1>u. /\ IsFiniteSet(Unrecorded) /\ Cardinality(Unrecorded) \in Nat
      /\ Cardinality(Client) \in Nat /\ Limit \in Nat \ {0} /\ Len(requests) \in Nat
  <2>1. Unrecorded \in SUBSET Client
    BY DEF Unrecorded
  <2>2. Limit \in Nat \ {0} /\ Len(requests) \in Nat
    BY <1>t, SchedulerAssumption DEF Limit, Ages
  <2> QED
    BY <2>1, <2>2, UnrecordedFinite
<1>1. ASSUME Unrecorded' = Unrecorded, requests' = requests PROVE OvershootInv'
  BY <1>1 DEF OvershootInv, Limit
<1>2. CASE Tick
  <2>1. Unrecorded' = Unrecorded
    BY <1>2 DEF Tick, Unrecorded
  <2>2. Len(requests') <= Len(requests) /\ Len(requests') \in Nat
    <3>1. Older(requests) \in Ages /\ Len(Older(requests)) = Len(requests)
      BY <1>t, OlderType, <1>u DEF Older, Ages
    <3>2. Recent(Older(requests)) \in Ages /\ Len(Recent(Older(requests))) <= Len(requests)
      BY <3>1, RecentType
    <3> QED
      BY <1>2, <3>2 DEF Tick, Ages
  <2> QED
    BY <1>u, <2>1, <2>2 DEF OvershootInv, Limit
<1>3. ASSUME NEW c \in Client, PassRate(c) PROVE OvershootInv'
  <2>1. requests' = requests /\ ~ WindowFull(requests)
    BY <1>3, <1>t DEF PassRate
  <2>2. Len(requests) < Limit
    BY <1>t, <1>u, <2>1, SchedulerAssumption DEF WindowFull, Limit, Ages
  <2>3. Unrecorded' \in SUBSET Client
    BY DEF Unrecorded
  <2>4. Cardinality(Unrecorded') \in Nat /\ Cardinality(Unrecorded') <= Cardinality(Client)
    BY <2>3, UnrecordedFinite
  <2> QED
    BY <1>u, <2>1, <2>2, <2>4 DEF OvershootInv, Limit
<1>4. ASSUME NEW c \in Client, RecordRequest(c) PROVE OvershootInv'
  <2>1. /\ pc[c] = "recording" /\ pc' = [pc EXCEPT ![c] = "holding"]
        /\ requests' = Append(requests, 0)
    BY <1>4 DEF RecordRequest, Goto
  <2>2. c \in Unrecorded /\ Unrecorded' = Unrecorded \ {c}
    BY <1>t, <2>1 DEF Unrecorded
  <2>3. Cardinality(Unrecorded') = Cardinality(Unrecorded) - 1
    BY <1>u, <2>2, FS_RemoveElement
  <2>4. Len(requests') = Len(requests) + 1
    BY <1>t, <2>1 DEF Ages
  <2> QED
    BY <1>u, <2>3, <2>4 DEF OvershootInv, Limit
<1>5. ASSUME NEW c \in Client, Call(c) \/ BackOff(c) \/ NoBackoff(c) \/ BackedOff(c)
                                 \/ ClearBackoff(c) \/ Throttle(c) \/ Throttled(c)
                                 \/ TakePermit(c) \/ Release(c)
      PROVE  OvershootInv'
  <2>1. PICK from \in Location, to \in Location :
          /\ Goto(c, from, to)
          /\ from \in {"semaphore", "recording"} <=> to \in {"semaphore", "recording"}
    BY <1>5 DEF Call, BackOff, NoBackoff, BackedOff, ClearBackoff, Throttle, Throttled,
       TakePermit, Release, Location
  <2>2. \A d \in Client : pc'[d] = IF d = c THEN to ELSE pc[d]
    BY <1>t, <2>1 DEF Goto
  <2>3. Unrecorded' = Unrecorded
    BY <2>1, <2>2 DEF Unrecorded, Goto
  <2>4. requests' = requests
    BY <1>5 DEF Call, BackOff, NoBackoff, BackedOff, ClearBackoff, Throttle, Throttled,
       TakePermit, Release
  <2> QED
    BY <1>1, <2>3, <2>4
<1>6. CASE UNCHANGED <<pc, requests>>
  BY <1>1, <1>6 DEF Unrecorded
<1> QED
  BY <1>2, <1>3, <1>4, <1>5, <1>6 DEF Next, AcquireStep, Notify, vars

(* However many callers race between the check of the window and the record *)
(* of their requests, the window overflows by less than one request each.   *)
THEOREM OvershootAlwaysBounded == Spec => []OvershootBounded
<1>1. PermitInv /\ WindowInv /\ OvershootInv => OvershootBounded
  <2> SUFFICES ASSUME WindowInv, OvershootInv PROVE OvershootBounded
    OBVIOUS
  <2>1. Unrecorded \in SUBSET Client
    BY DEF Unrecorded
  <2>2. /\ Cardinality(Unrecorded) \in Nat /\ Cardinality(Client) \in Nat
        /\ Len(requests) \in Nat /\ Limit \in Nat
    BY <2>1, UnrecordedFinite, SchedulerAssumption DEF WindowInv, Ages, Limit
  <2> QED
    BY <2>2 DEF OvershootInv, OvershootBounded
<1> QED
  BY <1>1, PermitInit, PermitNext, WindowInit, WindowNext, OvershootInit, OvershootNext, PTL DEF Spec

==============================================================================
