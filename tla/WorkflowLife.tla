---------------------------- MODULE WorkflowLife ----------------------------
(***************************************************************************)
(* What executing a workflow means, without batches, permits, agents or     *)
(* data: any step may start once its dependencies hold, a step that was     *)
(* started is decided once, as its policy says, and the end comes when      *)
(* nothing is left to do.  WorkflowEngine is shown to implement this: that  *)
(* execute computes a list, launches it, and collects it in a fixed order   *)
(* before it looks again adds no behaviour.                                 *)
(***************************************************************************)
EXTENDS WorkflowDef

VARIABLES
  wf,       \* the workflow
  state,    \* the state of each step
  busy,     \* the steps that were started and are not decided yet
  verdict   \* how the execution ended, "none" before

lifeVars == <<wf, state, busy, verdict>>

Open == verdict = "none"

MayStart(s) ==
  /\ s \in Steps(wf)
  /\ s \notin busy
  /\ state[s] \in {"Pending", "Absent"}
  /\ \A d \in wf.depends_on[s] : Satisfied(d.condition, state[d.step_id])

LifeInit ==
  /\ state = [id \in StepId |-> IF id \in Steps(wf) THEN "Pending" ELSE "Absent"]
  /\ busy = {}
  /\ verdict = "none"

Start(s) ==
  /\ Open
  /\ MayStart(s)
  /\ state' = [state EXCEPT ![s] = "Running"]
  /\ busy' = busy \cup {s}
  /\ UNCHANGED <<wf, verdict>>

(* The agent of s could not be started; everything is given up.             *)
GiveUp(s) ==
  /\ Open
  /\ MayStart(s)
  /\ state' = [state EXCEPT ![s] = "Running"]
  /\ busy' = {}
  /\ verdict' = "SpawnFailed"
  /\ UNCHANGED wf

Succeed(s) ==
  /\ Open
  /\ s \in busy
  /\ state' = [state EXCEPT ![s] = "Completed"]
  /\ busy' = busy \ {s}
  /\ UNCHANGED <<wf, verdict>>

(* What a failure makes of the step whose policy is f.                      *)
Outcome(f) ==
  IF f.kind = "retry" THEN {"Pending", "Failed"}
  ELSE IF f.kind = "skip" THEN {"Skipped"}
  ELSE {"Failed"}

(* A fallback resets the step it names, whatever that step is doing.        *)
Reset(s) ==
  IF OnFailure(wf, s).kind = "fallback"
  THEN [state EXCEPT ![OnFailure(wf, s).step_id] = "Pending"]
  ELSE state

Fail(s) ==
  /\ Open
  /\ s \in busy
  /\ \E o \in Outcome(OnFailure(wf, s)) : state' = [Reset(s) EXCEPT ![s] = o]
  /\ IF OnFailure(wf, s) = Abort
     THEN busy' = {} /\ verdict' = "Aborted"
     ELSE busy' = busy \ {s} /\ UNCHANGED verdict
  /\ UNCHANGED wf

(* Nothing works and nothing may start.                                     *)
End ==
  /\ Open
  /\ busy = {}
  /\ \A s \in Step : ~ MayStart(s)
  /\ verdict' = IF \E id \in StepId : state[id] # "Absent" /\ ~ is_terminal(state[id])
                THEN "Deadlocked"
                ELSE IF \E id \in StepId : state[id] = "Failed" THEN "Failed"
                ELSE "Completed"
  /\ UNCHANGED <<wf, state, busy>>

LifeStep ==
  \/ \E s \in Step : Start(s) \/ GiveUp(s) \/ Succeed(s) \/ Fail(s)
  \/ End

LifeSpec == LifeInit /\ [][LifeStep]_lifeVars

(* Of whatever is possible something happens, until there is a verdict.     *)
LifeProgress == WF_lifeVars(LifeStep)

LiveLifeSpec == LifeSpec /\ LifeProgress
=============================================================================
