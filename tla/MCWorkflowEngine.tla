-------------------------- MODULE MCWorkflowEngine --------------------------
(***************************************************************************)
(* Families of three-step workflows for TLC.  A run starts from every valid *)
(* workflow of its family, so one run answers a question for all of them.   *)
(***************************************************************************)
EXTENDS WorkflowEngine

Listed(l, g, f, o) == [steps |-> l, depends_on |-> g, on_failure |-> f, output_var |-> o]
WithGraph(g, f, o) == Listed(<<1, 2, 3>>, g, f, o)

(* depends_on with at most one dependency between two steps: of the step    *)
(* ranked higher on the one ranked lower, under the condition in label.     *)
Ranks == {r \in [Step -> Step] : \A s, t \in Step : r[s] = r[t] => s = t}
Pairs == {{s, t} : s, t \in Step}

Dag(rank, label) ==
  [s \in Step |->
     {[step_id |-> t, condition |-> label[{s, t}]] :
        t \in {u \in Step : rank[u] < rank[s] /\ label[{s, u}] # "no"}}]

Dags(conditions) ==
  {Dag(r, l) : r \in Ranks, l \in [{p \in Pairs : Cardinality(p) = 2}
                                      -> conditions \cup {"no"}]}

(* Any depends_on of which each step names another at most once, cycles and *)
(* self-dependencies included.                                              *)
Graphs(conditions) ==
  [Step -> {{[step_id |-> t, condition |-> c] : t \in T} :
              T \in SUBSET Step, c \in conditions}]

(* The first two steps write a variable each.                               *)
Outputs == [s \in Step |-> IF s = 1 THEN {"x"} ELSE IF s = 2 THEN {"y"} ELSE {}]

Family(graphs, actions) ==
  {WithGraph(g, f, Outputs) : g \in graphs, f \in [Step -> actions]}

(* Every dependency graph with every condition, and the policies that need  *)
(* no other step.                                                           *)
AllGraphs ==
  Family(Dags(DependencyCondition), {NoAction, Skip})
    \cup
  Family(Dags({"Success"}), {NoAction, Skip, Abort})

(* Retries, fallbacks and wrapped actions, some of which never end.         *)
Policies ==
  Family(Dags({"Success"}), {NoAction, Retry(1), Fallback(2)})
    \cup
  Family(Dags({"Failure"}), {Retry(1), Fallback(2)})
    \cup
  Family(Dags({"Success"}), {Fallback(1), Fallback(3), Wrapped({1}, {2}), Wrapped({}, {})})

(* Graphs that validate has to look at: cyclic ones too, and fallbacks to   *)
(* an id that names no step.                                                *)
AnyGraphs ==
  Family(Graphs({"Success", "Failure"}), {Skip})
    \cup
  Family(Dags({"Always"}), {NoAction, Wrapped({}, {NoStep})})

(* Lists of steps in another order, that lack one (on which others depend   *)
(* and fall back all the same) or have one twice.                           *)
Lists == {<<3, 2, 1>>, <<2, 1>>, <<1, 2, 1>>}

AnyLists ==
  {Listed(l, g, [s \in Step |-> a], Outputs) :
     l \in Lists, g \in Graphs({"Success"}), a \in {Skip, Fallback(3), Wrapped({}, {3})}}

Everything == AllGraphs \cup Policies \cup AnyGraphs \cup AnyLists

(* Small families for the counterexamples.                                  *)
Independent(actions) ==
  {WithGraph([s \in Step |-> {}], f, Outputs) : f \in [Step -> actions]}

Chain(actions) ==
  {WithGraph([s \in Step |->
                IF s = 1 THEN {}
                ELSE {[step_id |-> s - 1, condition |-> "Success"]}], f, Outputs) :
     f \in [Step -> actions]}

Retrying == Chain({Retry(1)})
Parallel == Independent({NoAction, Abort})

XY == {"x", "y"}
==============================================================================
