--------------------------- MODULE AsyncRunsProofs --------------------------
(***************************************************************************)
(* What holds of run_agents_async for any number of definitions and any     *)
(* number of permits.                                                       *)
(***************************************************************************)
EXTENDS AsyncRuns, FiniteSetTheorems, TLAPS

(***************************************************************************)
(* The permits: those that are free and those that are held make up all.    *)
(***************************************************************************)
PermitInv == permits + Cardinality(Holding) = MaxConcurrency

TypeInv == TypeOK /\ PermitInv

LEMMA HoldingFinite ==
  IsFiniteSet(Holding) /\ Cardinality(Holding) \in Nat
<1>1. Holding \subseteq Agent
  BY DEF Holding
<1> QED
  BY <1>1, AsyncAssumption, FS_Subset, FS_CardinalityType

LEMMA TypeInit == Init => TypeInv
<1> SUFFICES ASSUME Init PROVE TypeInv
  OBVIOUS
<1>1. TypeOK
  BY AsyncAssumption
  DEF Init, TypeOK, TaskState, Outcome, AgentState, RunStatus
<1>2. Holding = {}
  BY DEF Init, Holding
<1>3. PermitInv
  BY <1>2, AsyncAssumption, FS_EmptySet DEF Init, PermitInv
<1> QED
  BY <1>1, <1>3 DEF TypeInv

LEMMA UpdateStatusType ==
  ASSUME NEW ag, NEW st \in RunStatus PROVE update_status(ag, st) \in RunStatus
  BY DEF update_status, RunStatus

LEMMA TypeNext == TypeInv /\ [Next]_vars => TypeInv'
<1> SUFFICES ASSUME TypeInv, [Next]_vars PROVE TypeInv'
  OBVIOUS
<1> USE AsyncAssumption
<1>t. TypeOK /\ permits + Cardinality(Holding) = MaxConcurrency
  BY DEF TypeInv, PermitInv
<1>f. Cardinality(Holding) \in Nat /\ IsFiniteSet(Holding)
  BY HoldingFinite
<1>1. CASE StartJoining \/ UNCHANGED vars
  BY <1>t, <1>1 DEF StartJoining, vars, TypeInv, TypeOK, PermitInv, Holding
<1>2. CASE FinalUpdate
  BY <1>t, <1>2, UpdateStatusType DEF FinalUpdate, TypeInv, TypeOK, PermitInv, Holding
<1>3. ASSUME NEW a \in Agent, SpawnTask(a) PROVE TypeInv'
  <2>1. task' \in [Agent -> TaskState] /\ Holding' = Holding
    BY <1>t, <1>3 DEF SpawnTask, TypeOK, TaskState, Holding
  <2> QED
    BY <1>t, <1>3, <2>1 DEF SpawnTask, TypeInv, TypeOK, PermitInv
<1>4. ASSUME NEW a \in Agent, MarkRunning(a) PROVE TypeInv'
  <2>1. task' \in [Agent -> TaskState] /\ Holding' = Holding
    BY <1>t, <1>4 DEF MarkRunning, TypeOK, TaskState, Holding
  <2>2. agents' \in [Name -> AgentState]
    BY <1>t, <1>4 DEF MarkRunning, TypeOK, AgentState
  <2> QED
    BY <1>t, <1>4, <2>1, <2>2 DEF MarkRunning, TypeInv, TypeOK, PermitInv
<1>5. ASSUME NEW a \in Agent, AcquirePermit(a) PROVE TypeInv'
  <2>1. task' \in [Agent -> TaskState]
        /\ Holding' = Holding \cup {a} /\ a \notin Holding
    BY <1>t, <1>5 DEF AcquirePermit, TypeOK, TaskState, Holding
  <2>2. Cardinality(Holding') = Cardinality(Holding) + 1
    BY <1>f, <2>1, FS_AddElement
  <2> QED
    BY <1>t, <1>f, <1>5, <2>1, <2>2 DEF AcquirePermit, TypeInv, TypeOK, PermitInv
<1>6. ASSUME NEW a \in Agent, AgentEnds(a) PROVE TypeInv'
  <2>1. task' \in [Agent -> TaskState] /\ Holding' = Holding
    BY <1>t, <1>6 DEF AgentEnds, TypeOK, TaskState, Holding
  <2>2. outcome' \in [Agent -> Outcome]
    BY <1>t, <1>6 DEF AgentEnds, TypeOK
  <2> QED
    BY <1>t, <1>6, <2>1, <2>2 DEF AgentEnds, TypeInv, TypeOK, PermitInv
<1>7. ASSUME NEW a \in Agent, Record(a) PROVE TypeInv'
  <2>1. task' \in [Agent -> TaskState] /\ Holding' = Holding
    BY <1>t, <1>7 DEF Record, TypeOK, TaskState, Holding
  <2>2. agents' \in [Name -> AgentState]
    BY <1>t, <1>7 DEF Record, RecordedState, TypeOK, AgentState
  <2>3. output' \in [Name -> SUBSET Agent]
    BY <1>t, <1>7 DEF Record, TypeOK
  <2>4. status' \in RunStatus
    BY <1>t, <1>7, UpdateStatusType DEF Record, TypeOK
  <2> QED
    BY <1>t, <1>7, <2>1, <2>2, <2>3, <2>4 DEF Record, TypeInv, TypeOK, PermitInv
<1>8. ASSUME NEW a \in Agent, Release(a) PROVE TypeInv'
  <2>1. task' \in [Agent -> TaskState]
        /\ Holding' = Holding \ {a} /\ a \in Holding
    BY <1>t, <1>8 DEF Release, TypeOK, TaskState, Holding
  <2>2. Cardinality(Holding') = Cardinality(Holding) - 1 /\ Cardinality(Holding') \in Nat
    BY <1>f, <2>1, FS_RemoveElement, FS_CardinalityType
  <2> QED
    BY <1>t, <1>f, <1>8, <2>1, <2>2 DEF Release, TypeInv, TypeOK, PermitInv
<1> QED
  BY <1>1, <1>2, <1>3, <1>4, <1>5, <1>6, <1>7, <1>8 DEF Next, TaskStep, Done

LEMMA TypeInvariant == Spec => []TypeInv
  BY TypeInit, TypeNext, PTL DEF Spec

(* Every variable of a run keeps its type. *)
THEOREM AsyncTypeCorrect == Spec => []TypeOK
<1>1. TypeInv => TypeOK
  BY DEF TypeInv
<1> QED
  BY <1>1, TypeInvariant, PTL

(* A run never has more agents at work than max_concurrency allows.         *)
THEOREM LimitAlwaysRespected == Spec => []LimitRespected
<1>1. TypeInv => LimitRespected
  BY HoldingFinite, AsyncAssumption DEF TypeInv, TypeOK, PermitInv, LimitRespected
<1> QED
  BY <1>1, TypeInvariant, PTL

(***************************************************************************)
(* The status.  With a name of its own every definition is alone in writing *)
(* its entry, so the entry tells how far its task is; and the status        *)
(* changes only when all entries are terminal.                              *)
(***************************************************************************)
EntryInv ==
  /\ \A a \in Agent :
       agents[named[a]] = CASE task[a] \in {"defined", "spawned"} -> "Pending"
                            [] task[a] \in {"waiting", "working", "answered"} -> "Running"
                            [] OTHER -> RecordedState(outcome[a])
  /\ \A n \in Name : agents[n] # "Absent" <=> \E a \in Agent : named[a] = n
  /\ \A a \in Agent :
       outcome[a] = "none" <=> task[a] \in {"defined", "spawned", "waiting", "working"}
  /\ \A a \in Agent :
       Ended(a) /\ outcome[a] # "no_result" => output[named[a]] = {a}

StatusInv == TypeOK /\ (DistinctNames => EntryInv /\ HonestStatus)

(* What update_status leaves when every entry tells its agent's state.      *)
LEMMA UpdateStatusHonest ==
  ASSUME TypeOK', EntryInv', status' = update_status(agents', status),
         status # "Running" => (\A a \in Agent : Ended(a)') /\ status = Verdict'
  PROVE  HonestStatus'
<1>1. \A n \in Entries(agents') : \E a \in Agent : named'[a] = n
  BY DEF Entries, EntryInv
<1>2. \A a \in Agent : named'[a] \in Entries(agents')
  BY DEF Entries, EntryInv, TypeOK
<1>3. \A a \in Agent : is_terminal(agents'[named'[a]]) <=> Ended(a)'
  BY DEF EntryInv, TypeOK, is_terminal, Ended, TaskState, RecordedState
<1>4. \A a \in Agent : Ended(a)' =>
         (agents'[named'[a]] = "Failed" <=> outcome'[a] = "no_result")
  BY DEF EntryInv, TypeOK, Ended, TaskState, RecordedState
<1>o. (\A a \in Agent : Ended(a)')
        => \A a \in Agent : outcome'[a] # "no_result" => output'[named'[a]] = {a}
  BY DEF EntryInv
<1>5. CASE Entries(agents') = {} \/ \E n \in Entries(agents') : ~ is_terminal(agents'[n])
  BY <1>o, <1>5 DEF update_status, HonestStatus
<1>6. CASE Entries(agents') # {} /\ \A n \in Entries(agents') : is_terminal(agents'[n])
  <2>1. \A a \in Agent : Ended(a)'
    BY <1>2, <1>3, <1>6
  <2>2. (\A n \in Entries(agents') : agents'[n] = "Failed") <=> FailedAgents' = Agent
    BY <1>1, <1>2, <1>4, <2>1 DEF FailedAgents
  <2>3. (\E n \in Entries(agents') : agents'[n] = "Failed") <=> FailedAgents' # {}
    BY <1>1, <1>2, <1>4, <2>1 DEF FailedAgents
  <2>4. status' = Verdict'
    BY <1>6, <2>2, <2>3 DEF update_status, Verdict
  <2> QED
    BY <1>o, <2>1, <2>4 DEF HonestStatus
<1> QED
  BY <1>5, <1>6

LEMMA StatusInit == Init => StatusInv
<1> SUFFICES ASSUME Init PROVE StatusInv
  OBVIOUS
<1>1. TypeOK
  BY TypeInit DEF TypeInv
<1>2. EntryInv
  BY DEF Init, EntryInv, Ended
<1>3. HonestStatus
  BY DEF Init, HonestStatus
<1> QED
  BY <1>1, <1>2, <1>3 DEF StatusInv

(* A task that moves on, and writes the entry it should, keeps EntryInv.    *)
LEMMA EntryStep ==
  ASSUME TypeOK, TypeOK', DistinctNames, EntryInv, NEW a \in Agent, TaskStep(a)
  PROVE  EntryInv'
<1>1. named' = named
  BY DEF TaskStep, SpawnTask, MarkRunning, AcquirePermit, AgentEnds, Record, Release
<1>2. \A b \in Agent \ {a} : named[b] # named[a] /\ task'[b] = task[b] /\ outcome'[b] = outcome[b]
  BY DEF TypeOK, DistinctNames, TaskStep, SpawnTask, MarkRunning, AcquirePermit, AgentEnds,
     Record, Release
<1>3. \A n \in Name \ {named[a]} : agents'[n] = agents[n]
  BY DEF TypeOK, TaskStep, SpawnTask, MarkRunning, AcquirePermit, AgentEnds, Record, Release
<1>4. named[a] \in Name /\ \A b \in Agent : named[b] \in Name
  BY DEF TypeOK
<1>5. agents'[named[a]] = CASE task'[a] \in {"defined", "spawned"} -> "Pending"
                            [] task'[a] \in {"waiting", "working", "answered"} -> "Running"
                            [] OTHER -> RecordedState(outcome'[a])
  <2>1. CASE SpawnTask(a) \/ AcquirePermit(a) \/ AgentEnds(a) \/ Release(a)
    BY <2>1 DEF SpawnTask, AcquirePermit, AgentEnds, Release, TypeOK, EntryInv
  <2>2. CASE MarkRunning(a)
    BY <1>4, <2>2 DEF MarkRunning, TypeOK
  <2>3. CASE Record(a)
    BY <1>4, <2>3 DEF Record, TypeOK
  <2> QED
    BY <2>1, <2>2, <2>3 DEF TaskStep
<1>6. agents'[named[a]] # "Absent"
  BY <1>5 DEF TypeOK, TaskState, RecordedState
<1>7. outcome'[a] = "none" <=> task'[a] \in {"defined", "spawned", "waiting", "working"}
  <2>1. CASE AgentEnds(a)
    BY <2>1 DEF AgentEnds, TypeOK, Outcome
  <2>2. CASE SpawnTask(a) \/ MarkRunning(a) \/ AcquirePermit(a) \/ Record(a) \/ Release(a)
    BY <2>2 DEF SpawnTask, MarkRunning, AcquirePermit, Record, Release, TypeOK, EntryInv
  <2> QED
    BY <2>1, <2>2 DEF TaskStep
<1>8. \A b \in Agent :
        agents'[named'[b]] = CASE task'[b] \in {"defined", "spawned"} -> "Pending"
                               [] task'[b] \in {"waiting", "working", "answered"} -> "Running"
                               [] OTHER -> RecordedState(outcome'[b])
  <2> SUFFICES ASSUME NEW b \in Agent, b # a
               PROVE agents'[named[b]] = CASE task[b] \in {"defined", "spawned"} -> "Pending"
                               [] task[b] \in {"waiting", "working", "answered"} -> "Running"
                               [] OTHER -> RecordedState(outcome[b])
    BY <1>1, <1>2, <1>5
  <2>1. agents'[named[b]] = agents[named[b]]
    BY <1>2, <1>3, <1>4
  <2> QED
    BY <2>1 DEF EntryInv
<1>9. \A b \in Agent :
        Ended(b)' /\ outcome'[b] # "no_result" => output'[named'[b]] = {b}
  <2>1. CASE Record(a)
    <3>1. outcome'[a] # "no_result" => output'[named'[a]] = {a}
      BY <1>1, <1>4, <2>1 DEF Record, TypeOK
    <3>2. \A b \in Agent \ {a} : output'[named'[b]] = output[named[b]]
      BY <1>1, <1>2, <1>4, <2>1 DEF Record, TypeOK
    <3> QED
      BY <1>2, <3>1, <3>2 DEF EntryInv, Ended
  <2>2. CASE ~ Record(a)
    <3>1. output' = output
      BY <2>2 DEF TaskStep, SpawnTask, MarkRunning, AcquirePermit, AgentEnds, Release
    <3>2. Ended(a)' => Ended(a) /\ outcome'[a] = outcome[a]
      BY <2>2 DEF TaskStep, SpawnTask, MarkRunning, AcquirePermit, AgentEnds, Release, Ended, TypeOK
    <3> QED
      BY <1>1, <1>2, <3>1, <3>2 DEF EntryInv, Ended
  <2> QED
    BY <2>1, <2>2
<1> QED
  BY <1>1, <1>2, <1>3, <1>4, <1>6, <1>7, <1>8, <1>9 DEF EntryInv

LEMMA StatusNext == StatusInv /\ TypeOK' /\ [Next]_vars => StatusInv'
<1> SUFFICES ASSUME StatusInv, TypeOK', [Next]_vars, DistinctNames'
             PROVE  EntryInv' /\ HonestStatus'
  BY DEF StatusInv
<1>n. named' = named
  BY DEF Next, StartJoining, FinalUpdate, TaskStep, SpawnTask, MarkRunning, AcquirePermit,
     AgentEnds, Record, Release, Done, vars
<1>i. TypeOK /\ DistinctNames /\ EntryInv /\ HonestStatus
  BY <1>n DEF StatusInv, DistinctNames
<1>1. CASE StartJoining \/ UNCHANGED vars
  BY <1>i, <1>1 DEF StartJoining, vars, EntryInv, HonestStatus, Ended, Verdict, FailedAgents
<1>2. CASE FinalUpdate
  <2>1. EntryInv'
    BY <1>i, <1>2 DEF FinalUpdate, EntryInv, Ended
  <2>2. status # "Running" => (\A a \in Agent : Ended(a)') /\ status = Verdict'
    BY <1>i, <1>2 DEF FinalUpdate, HonestStatus, Ended, Verdict, FailedAgents
  <2>3. status' = update_status(agents', status)
    BY <1>2 DEF FinalUpdate
  <2> QED
    BY <2>1, <2>2, <2>3, UpdateStatusHonest
<1>3. ASSUME NEW a \in Agent, TaskStep(a) PROVE EntryInv' /\ HonestStatus'
  <2>1. EntryInv'
    BY <1>i, <1>3, EntryStep
  <2>2. CASE Record(a)
    <3>1. status = "Running"
      BY <1>i, <2>2 DEF Record, HonestStatus, Ended
    <3>2. status' = update_status(agents', status)
      BY <2>2 DEF Record
    <3> QED
      BY <2>1, <3>1, <3>2, UpdateStatusHonest
  <2>3. CASE ~ Record(a)
    <3>1. status' = status
      BY <1>3, <2>3 DEF TaskStep, SpawnTask, MarkRunning, AcquirePermit, AgentEnds, Release
    <3>2. status # "Running" => ~ AgentEnds(a) /\ (\A b \in Agent : Ended(b)')
      BY <1>i, <1>3, <2>3 DEF HonestStatus, Ended, TypeOK, TaskStep, SpawnTask, MarkRunning,
         AcquirePermit, AgentEnds, Release
    <3>3. status # "Running" => outcome' = outcome
      BY <1>3, <2>3, <3>2 DEF TaskStep, SpawnTask, MarkRunning, AcquirePermit, Release
    <3>4. CASE status = "Running"
      BY <2>1, <3>1, <3>4 DEF HonestStatus
    <3>5. CASE status # "Running"
      <4>1. status' = Verdict'
        BY <1>i, <3>1, <3>3, <3>5 DEF HonestStatus, Verdict, FailedAgents
      <4>2. \A b \in Agent : outcome'[b] # "no_result" => output'[named'[b]] = {b}
        BY <2>1, <3>2, <3>5 DEF EntryInv
      <4> QED
        BY <2>1, <3>2, <3>5, <4>1, <4>2 DEF HonestStatus
    <3> QED
      BY <3>4, <3>5
  <2> QED
    BY <2>1, <2>2, <2>3
<1> QED
  BY <1>1, <1>2, <1>3 DEF Next, Done

LEMMA StatusInvariant == Spec => []StatusInv
<1>1. TypeInv => TypeOK
  BY DEF TypeInv
<1> QED
  BY <1>1, StatusInit, StatusNext, TypeInvariant, PTL DEF Spec

(* With distinct names, a status other than Running is reported only when   *)
(* the end of every agent is recorded, and it says how they ended.          *)
THEOREM StatusAlwaysHonest == Spec => []StatusIsHonest
<1>1. StatusInv => StatusIsHonest
  BY DEF StatusInv, StatusIsHonest
<1> QED
  BY <1>1, StatusInvariant, PTL

(* With distinct names, the status a run ends with is never revised.        *)
THEOREM StatusStaysFinal == Spec => StatusIsFinal
<1>1. StatusInv /\ StatusInv' /\ [Next]_vars
        => [DistinctNames /\ status # "Running" => status' = status]_vars
  <2> SUFFICES ASSUME StatusInv, StatusInv', Next, DistinctNames, status # "Running"
               PROVE  status' = status
    OBVIOUS
  <2>1. named' = named
    BY DEF Next, StartJoining, FinalUpdate, TaskStep, SpawnTask, MarkRunning, AcquirePermit,
       AgentEnds, Record, Release, Done, vars
  <2>2. (\A a \in Agent : Ended(a)) /\ HonestStatus /\ HonestStatus'
    BY <2>1 DEF StatusInv, DistinctNames, HonestStatus
  <2>3. CASE FinalUpdate
    <3>1. Verdict' = Verdict
      BY <2>3 DEF FinalUpdate, Verdict, FailedAgents
    <3>2. status' # "Running"
      BY <2>3 DEF FinalUpdate, update_status
    <3> QED
      BY <2>2, <3>1, <3>2 DEF HonestStatus
  <2>4. CASE ~ FinalUpdate
    BY <2>2, <2>4 DEF Next, StartJoining, TaskStep, SpawnTask, MarkRunning, AcquirePermit,
       AgentEnds, Record, Release, Done, vars, Ended
  <2> QED
    BY <2>3, <2>4
<1> QED
  BY <1>1, StatusInvariant, PTL DEF Spec, StatusIsFinal

==============================================================================
