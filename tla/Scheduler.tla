----------------------------- MODULE Scheduler ------------------------------
(***************************************************************************)
(* ra-engine/src/scheduler.rs: PriorityScheduler, used by several tasks at  *)
(* once through an Arc.  `acquire` waits for backpressure, then for the     *)
(* rate limit, then for a permit, and records the request only at the end;  *)
(* each passage through a lock is one action.                               *)
(*                                                                          *)
(* Time is relative: a timestamp is kept as its age, a deadline as the time *)
(* left, and Tick lets one unit pass.  Ages stop at Window and times left   *)
(* at 0, so time needs no bound.                                            *)
(***************************************************************************)
EXTENDS Naturals, Sequences, FiniteSets

CONSTANTS
  Client,            \* the tasks that call acquire
  MaxConcurrency,    \* permits of the semaphore
  Window,            \* the 60 seconds of the sliding window
  rpm_limit,         \* config.requests_per_minute
  MaxBackoff,        \* bound on retry_after_ms
  MaxNotify          \* bound on the number of notifications

ASSUME SchedulerAssumption ==
  /\ IsFiniteSet(Client)
  /\ MaxConcurrency \in Nat
  /\ Window \in Nat \ {0}
  /\ rpm_limit \in Nat
  /\ MaxBackoff \in Nat
  /\ MaxNotify \in Nat

VARIABLES
  pc,                \* where each client is in acquire: a Location
  timer,             \* what is left of each client's sleep: a number
  backoff_until,     \* time left to RateState.backoff_until, {} for None
  recent_requests,   \* ages of RateState.recent_requests, oldest first
  requests,          \* history: ages of all requests of the last Window
  permits,           \* free permits: 0 .. MaxConcurrency
  notified           \* number of notifications so far

vars == <<pc, timer, backoff_until, recent_requests, requests, permits, notified>>

Location == {"idle", "backpressure", "backing_off", "clearing", "rate", "rate_limited",
             "semaphore", "recording", "holding"}

Init ==
  /\ pc = [c \in Client |-> "idle"]
  /\ timer = [c \in Client |-> 0]
  /\ backoff_until = {}
  /\ recent_requests = <<>>
  /\ requests = <<>>
  /\ permits = MaxConcurrency
  /\ notified = 0

Goto(c, from, to) ==
  /\ pc[c] = from
  /\ pc' = [pc EXCEPT ![c] = to]

Less(t) == IF t = 0 THEN 0 ELSE t - 1
Older(ages) == [i \in DOMAIN ages |-> IF ages[i] < Window THEN ages[i] + 1 ELSE Window]

(* recent_requests.retain(|&t| now.duration_since(t) < window)              *)
Recent(ages) ==
  LET kept[i \in 0 .. Len(ages)] ==
        IF i = 0 THEN <<>>
        ELSE IF ages[i] < Window THEN Append(kept[i - 1], ages[i]) ELSE kept[i - 1]
  IN  kept[Len(ages)]

Tick ==
  /\ timer' = [c \in Client |-> Less(timer[c])]
  /\ backoff_until' = {Less(t) : t \in backoff_until}
  /\ recent_requests' = Older(recent_requests)
  /\ requests' = Recent(Older(requests))
  /\ UNCHANGED <<pc, permits, notified>>

(* notify_rate_limited: the last call decides, be its deadline nearer.      *)
Notify(retry_after_ms) ==
  /\ notified < MaxNotify
  /\ notified' = notified + 1
  /\ backoff_until' = {retry_after_ms}
  /\ UNCHANGED <<pc, timer, recent_requests, requests, permits>>

(***************************************************************************)
(* acquire, step by step.                                                   *)
(***************************************************************************)
Call(c) ==
  /\ Goto(c, "idle", "backpressure")
  /\ UNCHANGED <<timer, backoff_until, recent_requests, requests, permits, notified>>

(* wait_backpressure: look at the deadline; sleep it out and look again.    *)
BackOff(c) ==
  /\ Goto(c, "backpressure", "backing_off")
  /\ \E left \in backoff_until : left > 0 /\ timer' = [timer EXCEPT ![c] = left]
  /\ UNCHANGED <<backoff_until, recent_requests, requests, permits, notified>>

NoBackoff(c) ==
  /\ Goto(c, "backpressure", "clearing")
  /\ \A left \in backoff_until : left = 0
  /\ UNCHANGED <<timer, backoff_until, recent_requests, requests, permits, notified>>

BackedOff(c) ==
  /\ timer[c] = 0
  /\ Goto(c, "backing_off", "backpressure")
  /\ UNCHANGED <<timer, backoff_until, recent_requests, requests, permits, notified>>

(* Slip: it is not looked at whether the deadline is a new one.             *)
Slip_ClearBackoff(c) ==
  /\ Goto(c, "clearing", "rate")
  /\ backoff_until' = {}
  /\ UNCHANGED <<timer, recent_requests, requests, permits, notified>>

ClearBackoff(c) ==
  /\ Goto(c, "clearing", "rate")
  /\ backoff_until' = backoff_until \ {0}
  /\ UNCHANGED <<timer, recent_requests, requests, permits, notified>>

(* wait_rate_limit: forget what left the window; if it is full, sleep until *)
(* its oldest request leaves it.  A limit of 0 is full with nothing in it,  *)
(* and then there is nothing to wait for.                                   *)
WindowFull(ages) == Len(ages) >= rpm_limit /\ ages # <<>>

Throttle(c) ==
  /\ Goto(c, "rate", "rate_limited")
  /\ recent_requests' = Recent(recent_requests)
  /\ WindowFull(recent_requests')
  /\ timer' = [timer EXCEPT ![c] = Window - Head(recent_requests')]
  /\ UNCHANGED <<backoff_until, requests, permits, notified>>

(* Slip: the oldest request in the window is forgotten with the others.     *)
Slip_PassRate(c) ==
  /\ Goto(c, "rate", "semaphore")
  /\ ~ WindowFull(Recent(recent_requests))
  /\ recent_requests' = IF Recent(recent_requests) = <<>> THEN <<>>
                        ELSE Tail(Recent(recent_requests))
  /\ UNCHANGED <<timer, backoff_until, requests, permits, notified>>

PassRate(c) ==
  /\ Goto(c, "rate", "semaphore")
  /\ recent_requests' = Recent(recent_requests)
  /\ ~ WindowFull(recent_requests')
  /\ UNCHANGED <<timer, backoff_until, requests, permits, notified>>

(* Slip: after the sleep the window is not looked at again.                 *)
Slip_Throttled(c) ==
  /\ timer[c] = 0
  /\ Goto(c, "rate_limited", "semaphore")
  /\ UNCHANGED <<timer, backoff_until, recent_requests, requests, permits, notified>>

Throttled(c) ==
  /\ timer[c] = 0
  /\ Goto(c, "rate_limited", "rate")
  /\ UNCHANGED <<timer, backoff_until, recent_requests, requests, permits, notified>>

TakePermit(c) ==
  /\ Goto(c, "semaphore", "recording")
  /\ permits > 0
  /\ permits' = permits - 1
  /\ UNCHANGED <<timer, backoff_until, recent_requests, requests, notified>>

(* acquire returns.                                                         *)
RecordRequest(c) ==
  /\ Goto(c, "recording", "holding")
  /\ recent_requests' = Append(recent_requests, 0)
  /\ requests' = Append(requests, 0)
  /\ UNCHANGED <<timer, backoff_until, permits, notified>>

(* Slip: the permit is given back twice, by hand and by its drop.           *)
Slip_Release(c) ==
  /\ Goto(c, "holding", "idle")
  /\ permits' = permits + 2
  /\ UNCHANGED <<timer, backoff_until, recent_requests, requests, notified>>

(* Slip: the guard is forgotten instead of dropped.                         *)
Slip_Release_never(c) ==
  /\ Goto(c, "holding", "idle")
  /\ UNCHANGED <<timer, backoff_until, recent_requests, requests, permits, notified>>

(* The guard is dropped.                                                    *)
Release(c) ==
  /\ Goto(c, "holding", "idle")
  /\ permits' = permits + 1
  /\ UNCHANGED <<timer, backoff_until, recent_requests, requests, notified>>

AcquireStep(c) ==
  \/ BackOff(c)
  \/ NoBackoff(c)
  \/ BackedOff(c)
  \/ ClearBackoff(c)
  \/ Throttle(c)
  \/ PassRate(c)
  \/ Throttled(c)
  \/ TakePermit(c)
  \/ RecordRequest(c)

Next ==
  \/ Tick
  \/ \E ms \in 0 .. MaxBackoff : Notify(ms)
  \/ \E c \in Client : Call(c) \/ AcquireStep(c) \/ Release(c)

Spec == Init /\ [][Next]_vars

(* Time passes, tokio polls every task, the semaphore is fair, and who      *)
(* holds a permit drops it some day.                                        *)
Fairness ==
  /\ WF_vars(Tick)
  /\ \A c \in Client :
       /\ WF_vars(AcquireStep(c))
       /\ SF_vars(TakePermit(c))
       /\ WF_vars(Release(c))

FairSpec == Spec /\ Fairness

(***************************************************************************)
(*                              PROPERTIES                                  *)
(***************************************************************************)

(* The permits given out never exceed those there are.                      *)
Holders == {c \in Client : pc[c] \in {"recording", "holding"}}
ConcurrencyLimited == Cardinality(Holders) <= MaxConcurrency

(* The check and the record of a request are apart, so that with several    *)
(* clients the window may overflow, but by less than one request each.  A   *)
(* single client respects the limit exactly.  (A limit of 0 is worth 1.)    *)
Limit == IF rpm_limit = 0 THEN 1 ELSE rpm_limit
OvershootBounded == Len(requests) < Limit + Cardinality(Client)

(* What was forgotten had left the window: the scheduler's own list never   *)
(* knows less than happened in the last Window.                             *)
NothingForgotten == Recent(recent_requests) = requests

(* A deadline that lies ahead is never forgotten, though a client that saw  *)
(* an older one expire clears it under a lock it has let go in between.     *)
BackpressureKept ==
  [][(\E left \in backoff_until : left > 0) => backoff_until' # {}]_vars

(* A call of acquire returns, once its competitors have stopped calling.    *)
AcquireReturns ==
  MaxConcurrency > 0 =>
    \A c \in Client :
      <>[](\A d \in Client \ {c} : pc[d] = "idle")
        => (pc[c] = "backpressure" ~> pc[c] = "holding")

==============================================================================
