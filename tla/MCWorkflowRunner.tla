-------------------------- MODULE MCWorkflowRunner --------------------------
(***************************************************************************)
(* Small workflows for WorkflowRunner, few enough for a user to edit one    *)
(* into another between two executions, and to do so twice.                 *)
(***************************************************************************)
EXTENDS WorkflowRunner

(* The last step waits for the first, whose output it is sent.              *)
On(t, c) == {[step_id |-> t, condition |-> c]}

Wf(l, c, f) ==
  [steps |-> l,
   depends_on |-> [s \in Step |-> IF s = NumSteps THEN On(1, c) ELSE {}],
   on_failure |-> f,
   output_var |-> [s \in Step |-> IF s = 1 THEN {"x"} ELSE {}]]

Skips == [s \in Step |-> Skip]
Aborts == [s \in Step |-> Abort]

(* Executions that an abort may cut short in the middle of a batch, by any  *)
(* step or by the second one alone; a workflow that goes on to its end; and *)
(* two that lack the second step or the last, and have the others in        *)
(* another order.                                                           *)
Edited ==
  {Wf(<<1, 2, 3>>, "Success", Aborts),
   Wf(<<1, 2, 3>>, "Always", [Skips EXCEPT ![2] = Abort]),
   Wf(<<1, 2, 3>>, "Success", Skips),
   Wf(<<3, 1>>, "Success", Skips),
   Wf(<<2, 1>>, "Success", Skips)}

X == {"x"}
==============================================================================
