----------------------------- MODULE EventStream -----------------------------
(***************************************************************************)
(* What a dashboard may rely on: a numbered stream, of which it gets all    *)
(* from some point on, in order, until the stream is cut off.  Then some of *)
(* what was sent may still arrive, and nothing ever after that.  Dashboard  *)
(* is shown to implement this: a channel, a list of clients, a socket and   *)
(* another channel, each of which may be full, add no behaviour.            *)
(***************************************************************************)
EXTENDS Naturals

VARIABLES
  sent,     \* the number of the last event
  handled,  \* the number of the last event that was handled
  joined,   \* the dashboard takes part
  whole,    \* the stream is not cut off
  limit     \* the last event that can be handled yet

streamVars == <<sent, handled, joined, whole, limit>>

StreamInit ==
  /\ sent = 0
  /\ handled = 0
  /\ joined = FALSE
  /\ whole = TRUE
  /\ limit = 0

Publish ==
  /\ whole
  /\ sent' = sent + 1
  /\ limit' = sent'
  /\ UNCHANGED <<handled, joined, whole>>

(* It may join a stream that is cut off already.                            *)
Join ==
  /\ ~ joined
  /\ joined' = TRUE
  /\ handled' \in 0 .. sent
  /\ \/ whole' = TRUE /\ limit' = sent
     \/ whole' = FALSE /\ limit' = handled'
  /\ UNCHANGED sent

Handle ==
  /\ joined
  /\ handled < limit
  /\ handled' = handled + 1
  /\ UNCHANGED <<sent, joined, whole, limit>>

(* Something is lost, the event that is being sent or one that was sent     *)
(* before, and all that comes later with it.  Nothing puts it together      *)
(* again.                                                                   *)
CutOff ==
  /\ joined
  /\ sent' \in {sent, sent + 1}
  /\ whole' = FALSE
  /\ limit' \in handled .. limit
  /\ UNCHANGED <<handled, joined>>

StreamNext == Publish \/ Join \/ Handle \/ CutOff

StreamSpec == StreamInit /\ [][StreamNext]_streamVars

==============================================================================
