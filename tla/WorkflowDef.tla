----------------------------- MODULE WorkflowDef -----------------------------
(***************************************************************************)
(* The workflow a user writes (ra-core/src/workflow.rs) and the states its  *)
(* steps go through (ra-core/src/checkpoint.rs).                            *)
(*                                                                          *)
(* Step is the set of ids a step may have, and NoStep an id string that no  *)
(* step ever has.  A workflow has the steps of its vector, in whose order   *)
(* the engine launches and collects them; two workflows need not have the   *)
(* same ones.  What a workflow says of a step is kept by id, and means      *)
(* nothing for the ids it has no step of.                                   *)
(*                                                                          *)
(* Definitions named Slip_... are variants of the definition that follows   *)
(* them with a plausible bug; nothing refers to them.  They are there to be *)
(* put in its place, to see that the properties tell the two apart.         *)
(***************************************************************************)
EXTENDS Naturals, FiniteSets, Sequences

CONSTANTS
  NumSteps,   \* how many ids steps may have
  Var         \* the names used as output_var

ASSUME WorkflowDefAssumption == NumSteps \in Nat

NoStep == 0
Step == 1 .. NumSteps
StepId == 0 .. NumSteps

DependencyCondition == {"Success", "Failure", "Always"}
StepDependency == [step_id : Step, condition : DependencyCondition]

(* An Option<T> is a set with at most one element. *)
Option(T) == {o \in SUBSET T : \A x, y \in o : x = y}

(***************************************************************************)
(* FailureAction, with "none" for a step without on_failure.  The untagged  *)
(* wrapper holds an optional retry and an optional fallback.                *)
(***************************************************************************)
NoAction == [kind |-> "none"]
Skip == [kind |-> "skip"]
Abort == [kind |-> "abort"]
Retry(n) == [kind |-> "retry", max_attempts |-> n]
Fallback(id) == [kind |-> "fallback", step_id |-> id]
Wrapped(r, f) == [kind |-> "wrapped", retry |-> r, fallback |-> f]

FailureAction ==
  {NoAction, Skip, Abort}
    \cup [kind : {"retry"}, max_attempts : Nat]
    \cup [kind : {"fallback"}, step_id : StepId]
    \cup [kind : {"wrapped"}, retry : Option(Nat), fallback : Option(StepId)]

(* What a wrapped action stands for: retry wins over fallback, and a       *)
(* wrapper with neither is a skip.                                         *)
normalize(f) ==
  IF f.kind # "wrapped" THEN f
  ELSE IF f.retry # {} THEN Retry(CHOOSE n \in f.retry : TRUE)
  ELSE IF f.fallback # {} THEN Fallback(CHOOSE id \in f.fallback : TRUE)
  ELSE Skip

Workflow ==
  [steps : Seq(Step),
   depends_on : [Step -> SUBSET StepDependency],
   on_failure : [Step -> FailureAction],
   output_var : [Step -> Option(Var)]]

Steps(w) == {w.steps[i] : i \in DOMAIN w.steps}

OnFailure(w, s) == normalize(w.on_failure[s])

(***************************************************************************)
(* Workflow::validate.  Only an unwrapped Fallback has its target checked.  *)
(* check_no_cycles is Kahn's algorithm: a step is visited once all it       *)
(* depends on has been; any pick order gives the same set, and the workflow *)
(* is rejected unless every step gets visited.                              *)
(***************************************************************************)
DependsOn(w, s) == {d.step_id : d \in w.depends_on[s]}

visited_from(w) ==
  LET kahn[V \in SUBSET Steps(w)] ==
        LET queue == {s \in Steps(w) \ V : DependsOn(w, s) \subseteq V}
        IN  IF queue = {} THEN V ELSE kahn[V \cup queue]
  IN  kahn[{}]

check_no_cycles(w) == visited_from(w) = Steps(w)

UniqueIds(w) == \A i, j \in DOMAIN w.steps : w.steps[i] = w.steps[j] => i = j

KnownDependencies(w) == \A s \in Steps(w) : DependsOn(w, s) \subseteq Steps(w)

KnownTargets(w) ==
  \A s \in Steps(w) :
    w.on_failure[s].kind = "fallback" => w.on_failure[s].step_id \in Steps(w)

(* Slip: the call of check_no_cycles is missing.                            *)
Slip_validate(w) == UniqueIds(w) /\ KnownDependencies(w) /\ KnownTargets(w)

validate(w) ==
  /\ UniqueIds(w)
  /\ KnownDependencies(w)
  /\ KnownTargets(w)
  /\ check_no_cycles(w)

(***************************************************************************)
(* StepState.  "Absent" is an id with no entry in the map: one that is not  *)
(* a step of the workflow, or a step that the checkpoint the execution was  *)
(* started from does not know.  The engine keeps the payloads, the output   *)
(* of Completed and the attempts of Failed, in maps of their own.           *)
(***************************************************************************)
StepState == {"Absent", "Pending", "Running", "Completed", "Failed", "Skipped"}

is_terminal(st) == st \in {"Completed", "Failed", "Skipped"}

(* Slip: any end of a step satisfies a dependency on its success.           *)
Slip_Satisfied(condition, st) ==
  \/ condition \in {"Success", "Always"} /\ is_terminal(st)
  \/ condition = "Failure" /\ st = "Failed"

(* One dependency against the state of the step it names. *)
Satisfied(condition, st) ==
  \/ condition = "Success" /\ st = "Completed"
  \/ condition = "Failure" /\ st = "Failed"
  \/ condition = "Always"  /\ is_terminal(st)

(* Steps another step names as its fallback. *)
FallbackTarget(w) ==
  {id \in StepId : \E s \in Steps(w) : OnFailure(w, s) = Fallback(id)}

==============================================================================
