------------------------------ MODULE HomeProofs -----------------------------
(***************************************************************************)
(* What holds of the shared home directory for any number of servers and    *)
(* commands, however often they are started and wherever they die.          *)
(***************************************************************************)
EXTENDS Home, TLAPS

ProcState == {"down", "opening", "migrating", "serving", "exiting"}

Full == schema = Tables \cup Indices

(***************************************************************************)
(* The database.  A migration that is at statement i has made, itself or    *)
(* through another process, whatever comes before i; nothing is ever taken  *)
(* away; and the version is set by a migration that is at its end.          *)
(***************************************************************************)
Made(p) == \A i \in 1 .. 6 : i < stmt[p] => Migration[i] \in schema

SchemaType ==
  /\ proc \in [Process -> ProcState]
  /\ stmt \in [Process -> 1 .. 7]
  /\ db \in [Process -> {"none", "open", "failed"}]
  /\ schema \subseteq Tables \cup Indices
  /\ version \in {0, 1}

SchemaInv ==
  /\ SchemaType
  /\ SchemaComplete
  /\ \A p \in Process : Made(p) /\ (proc[p] # "migrating" => stmt[p] = 1)

LEMMA MigrationStatements ==
  /\ Len(Migration) = 7
  /\ Migration[7] = "user_version"
  /\ \A i \in 1 .. 6 : Migration[i] \in Tables \cup Indices
  /\ \A x \in Tables \cup Indices : \E i \in 1 .. 6 : Migration[i] = x
  /\ "user_version" \notin Tables \cup Indices
<1>1. /\ Len(Migration) = 7
      /\ Migration[7] = "user_version"
  BY DEF Migration
<1>2. /\ Migration[1] = "executions"
      /\ Migration[2] = "checkpoints"
      /\ Migration[3] = "agent_logs"
      /\ Migration[4] = "idx_checkpoints_workflow"
      /\ Migration[5] = "idx_agent_logs_execution"
      /\ Migration[6] = "idx_agent_logs_agent"
  BY DEF Migration
<1>3. \A i \in 1 .. 6 : Migration[i] \in Tables \cup Indices
  BY <1>2 DEF Tables, Indices
<1>4. \A x \in Tables \cup Indices : \E i \in 1 .. 6 : Migration[i] = x
  BY <1>2 DEF Tables, Indices
<1> QED
  BY <1>1, <1>3, <1>4 DEF Tables, Indices

(* A migration at its last statement finds everything in place.             *)
LEMMA MadeAll ==
  ASSUME SchemaType, NEW p \in Process, Made(p), stmt[p] = 7
  PROVE  Full
<1>1. \A i \in 1 .. 6 : Migration[i] \in schema
  BY DEF Made
<1> QED
  BY <1>1, MigrationStatements DEF SchemaType, Full

LEMMA SchemaInit == Init => SchemaInv
<1> SUFFICES ASSUME Init PROVE SchemaInv
  OBVIOUS
<1>1. SchemaType
  BY DEF Init, SchemaType, ProcState
<1>2. SchemaComplete
  BY DEF Init, SchemaComplete
<1>3. \A p \in Process : Made(p) /\ stmt[p] = 1
  BY DEF Init, Made
<1> QED
  BY <1>1, <1>2, <1>3 DEF SchemaInv

LEMMA ExecuteSchema ==
  ASSUME SchemaInv, NEW p \in Process, Execute(p)
  PROVE  SchemaInv'
<1> USE DEF SchemaInv, SchemaType
<1>i. stmt[p] \in 1 .. 7 /\ (stmt[p] # 7 => stmt[p] \in 1 .. 6)
  OBVIOUS
<1>1. schema \subseteq schema'
  BY DEF Execute
<1>2. schema' \subseteq Tables \cup Indices
  BY <1>i, MigrationStatements DEF Execute
<1>3. /\ proc' \in [Process -> ProcState]
      /\ stmt' \in [Process -> 1 .. 7]
      /\ db' \in [Process -> {"none", "open", "failed"}]
  BY <1>i, MigrationStatements DEF Execute, ProcState
<1>4. stmt[p] = 7 => Full
  BY MadeAll
<1>5. SchemaComplete'
  <2>1. CASE stmt[p] = 7
    BY <2>1, <1>1, <1>2, <1>4 DEF Full, SchemaComplete
  <2>2. CASE stmt[p] # 7
    <3>1. version' = version /\ db' = db
      BY <1>i, <2>2, MigrationStatements DEF Execute
    <3> QED
      BY <3>1, <1>1, <1>2 DEF SchemaComplete
  <2> QED
    BY <2>1, <2>2
<1>6. ASSUME NEW q \in Process PROVE Made(q)' /\ (proc'[q] # "migrating" => stmt'[q] = 1)
  <2>1. CASE q # p
    BY <1>1, <2>1 DEF Execute, Made
  <2>2. CASE q = p /\ stmt[p] = 7
    BY <2>2, MigrationStatements DEF Execute, Made
  <2>3. CASE q = p /\ stmt[p] # 7
    <3>1. /\ stmt'[p] = stmt[p] + 1
          /\ proc'[p] = "migrating"
          /\ Migration[stmt[p]] \in schema'
      BY <1>i, <2>3, MigrationStatements DEF Execute
    <3>2. \A i \in 1 .. 6 : i < stmt[p] + 1 => i < stmt[p] \/ i = stmt[p]
      BY <1>i
    <3> QED
      BY <1>1, <2>3, <3>1, <3>2 DEF Made
  <2> QED
    BY <2>1, <2>2, <2>3
<1>7. version' \in {0, 1}
  BY DEF Execute
<1> QED
  BY <1>2, <1>3, <1>5, <1>6, <1>7

LEMMA SchemaNext == SchemaInv /\ [Next]_vars => SchemaInv'
<1> SUFFICES ASSUME SchemaInv, [Next]_vars PROVE SchemaInv'
  OBVIOUS
<1>1. CASE UNCHANGED vars
  BY <1>1 DEF vars, dbVars, SchemaInv, SchemaType, SchemaComplete, Made
<1>2. ASSUME NEW s \in Servers, ServerStep(s) PROVE SchemaInv'
  <2>1. UNCHANGED <<proc, dbVars>>
    BY <1>2 DEF ServerStep, Bind, AcceptError, SaveBegin, SaveEnd, SaveFails
  <2> QED
    BY <2>1 DEF dbVars, SchemaInv, SchemaType, SchemaComplete, Made
<1>3. ASSUME NEW p \in Process, ProcessStep(p) PROVE SchemaInv'
  <2>1. CASE Start(p)
    BY <2>1 DEF Start, Up, dbVars, SchemaInv, SchemaType, SchemaComplete, Made, ProcState
  <2>2. CASE ReadVersion(p)
    <3>1. ~ (version < 1) => schema = Tables \cup Indices
      BY DEF SchemaInv, SchemaType, SchemaComplete
    <3>2. UNCHANGED <<stmt, schema, version>>
      BY <2>2 DEF ReadVersion
    <3>3. /\ proc' \in [Process -> ProcState]
          /\ db' \in [Process -> {"none", "open", "failed"}]
          /\ \A q \in Process : db'[q] = "open" => db[q] = "open" \/ ~ (version < 1)
          /\ \A q \in Process : proc'[q] # "migrating" => proc[q] # "migrating"
      BY <2>2 DEF ReadVersion, SchemaInv, SchemaType, ProcState
    <3> QED
      BY <3>1, <3>2, <3>3 DEF SchemaInv, SchemaType, SchemaComplete, Made
  <2>3. CASE Execute(p)
    BY <2>3, ExecuteSchema
  <2>4. CASE OpenFails(p)
    BY <2>4 DEF OpenFails, dbVars, SchemaInv, SchemaType, SchemaComplete, Made, ProcState
  <2>5. CASE Exit(p)
    BY <2>5 DEF Exit, dbVars, SchemaInv, SchemaType, SchemaComplete, Made, ProcState
  <2>6. CASE Gone(p)
    BY <2>6 DEF Gone, SchemaInv, SchemaType, SchemaComplete, Made, ProcState
  <2> QED
    BY <1>3, <2>1, <2>2, <2>3, <2>4, <2>5, <2>6 DEF ProcessStep
<1> QED
  BY <1>1, <1>2, <1>3 DEF Next

(* A database that counts as migrated, and every database that is open, has *)
(* all its tables and indices, for any number of processes that migrate it  *)
(* at the same time, die in the middle or fail.                             *)
THEOREM SchemaAlwaysComplete == Spec => []SchemaComplete
<1>1. SchemaInv => SchemaComplete
  BY DEF SchemaInv
<1> QED
  BY <1>1, SchemaInit, SchemaNext, PTL DEF Spec

(***************************************************************************)
(* The socket.  As long as a server is alone nobody else touches the file:  *)
(* it is missing until the server's accept task has made it, and leads to   *)
(* that server afterwards.                                                  *)
(***************************************************************************)
Running == {"opening", "migrating", "serving"}

AloneInv ==
  /\ proc \in [Process -> ProcState]
  /\ accept \in [Servers -> {"none", "starting", "listening", "failed", "broken"}]
  /\ alone \in [Servers -> BOOLEAN]
  /\ \A s \in Servers : alone[s] =>
       /\ proc[s] # "down"
       /\ \A t \in Servers \ {s} : proc[t] = "down"
       /\ proc[s] \in Running => CASE accept[s] = "starting" -> path = "none"
                                   [] accept[s] = "listening" -> path = s
                                   [] OTHER -> accept[s] # "failed"

LEMMA AloneInit == Init => AloneInv
  BY DEF Init, AloneInv, ProcState

LEMMA AloneNext == AloneInv /\ [Next]_vars => AloneInv'
<1> SUFFICES ASSUME AloneInv, [Next]_vars PROVE AloneInv'
  OBVIOUS
<1> USE HomeAssumption DEF Process
<1>1. CASE UNCHANGED vars
  BY <1>1 DEF vars, socketVars, AloneInv
<1>2. ASSUME NEW s \in Servers, ServerStep(s) PROVE AloneInv'
  <2>1. CASE Bind(s)
    BY <2>1 DEF Bind, Up, AloneInv
  <2>2. CASE AcceptError(s)
    BY <2>2 DEF AcceptError, Up, AloneInv
  <2>3. CASE UNCHANGED <<proc, socketVars>>
    BY <2>3 DEF socketVars, AloneInv
  <2> QED
    BY <1>2, <2>1, <2>2, <2>3 DEF ServerStep, SaveBegin, SaveEnd, SaveFails
<1>3. ASSUME NEW p \in Process, Start(p) PROVE AloneInv'
  <2>1. CASE p \in Servers
    <3>1. /\ proc' = [proc EXCEPT ![p] = "opening"]
          /\ accept' = [accept EXCEPT ![p] = "starting"]
          /\ path' = "none"
      BY <1>3, <2>1 DEF Start, socket_removed
    <3>2. alone' = [s \in Servers |-> IF s = p THEN \A t \in Servers : proc[t] = "down"
                                      ELSE alone[s] /\ proc[s] = "down"]
      BY <1>3, <2>1 DEF Start, Up
    <3>3. \A s \in Servers : alone'[s] => s = p
      BY <3>2 DEF AloneInv
    <3>4. alone'[p] => \A t \in Servers \ {p} : proc'[t] = "down"
      BY <2>1, <3>1, <3>2 DEF AloneInv
    <3>5. alone' \in [Servers -> BOOLEAN]
      BY <3>2 DEF AloneInv
    <3> QED
      BY <2>1, <3>1, <3>3, <3>4, <3>5 DEF AloneInv, ProcState
  <2>2. CASE p \notin Servers
    BY <1>3, <2>2 DEF Start, Up, socketVars, AloneInv, ProcState, Running
  <2> QED
    BY <2>1, <2>2
<1>4. ASSUME NEW p \in Process, ReadVersion(p) \/ Execute(p) \/ OpenFails(p) PROVE AloneInv'
  <2>1. /\ UNCHANGED socketVars
        /\ proc' \in [Process -> ProcState]
        /\ proc[p] \in Running
        /\ \A q \in Process \ {p} : proc'[q] = proc[q]
    BY <1>4 DEF ReadVersion, Execute, OpenFails, AloneInv, ProcState, Running
  <2>2. p \in Servers => proc'[p] \in Running
    BY <1>4, <2>1 DEF ReadVersion, Execute, OpenFails, AloneInv, Running
  <2>3. ASSUME NEW s \in Servers, alone[s]
        PROVE  /\ proc'[s] # "down"
               /\ \A t \in Servers \ {s} : proc'[t] = "down"
               /\ proc'[s] \in Running => proc[s] \in Running
    <3>1. CASE p \in Servers
      <4>1. p = s
        BY <2>1, <2>3, <3>1 DEF AloneInv, Running
      <4> QED
        BY <2>1, <2>2, <2>3, <4>1 DEF AloneInv, Running
    <3>2. CASE p \notin Servers
      BY <2>1, <2>3, <3>2 DEF AloneInv
    <3> QED
      BY <3>1, <3>2
  <2> QED
    BY <2>1, <2>3 DEF AloneInv, socketVars
<1>5. ASSUME NEW p \in Process, Exit(p) PROVE AloneInv'
  BY <1>5 DEF Exit, AloneInv, ProcState, Running
<1>6. ASSUME NEW p \in Process, Gone(p) PROVE AloneInv'
  <2>1. CASE p \in Servers
    BY <1>6, <2>1 DEF Gone, Up, AloneInv, ProcState
  <2>2. CASE p \notin Servers
    BY <1>6, <2>2 DEF Gone, Up, AloneInv, ProcState
  <2> QED
    BY <2>1, <2>2
<1> QED
  BY <1>1, <1>2, <1>3, <1>4, <1>5, <1>6 DEF Next, ProcessStep

(* A server that has been the only one since its start has its socket file, *)
(* once its accept task has run, whatever earlier servers left there, and   *)
(* wherever they died.                                                      *)
THEOREM AloneAlwaysReachable == Spec => []AloneIsReachable
<1>1. AloneInv => AloneIsReachable
  BY DEF AloneInv, AloneIsReachable, Running
<1> QED
  BY <1>1, AloneInit, AloneNext, PTL DEF Spec

(***************************************************************************)
(* The templates.  Whoever writes to the file of a name settles in the same *)
(* step what the last save of that name came to, so that the file holds the *)
(* text of a request that was kept, or what its description made of it; and *)
(* what is run is the first file that can be read.                          *)
(***************************************************************************)
Broken(r) == <<r[2], r[3]>> \in Breaks

Holds(k, c) == k # <<>> => k \in Request /\ (~ Broken(k) => c = k[2])

SavedInv ==
  /\ job \in [Servers -> {<<>>} \cup Request]
  /\ saved \in [Name -> Content]
  /\ kept \in [Name -> {<<>>} \cup Request]
  /\ \A n \in Name : Holds(kept[n], saved[n])

LEMMA SavedInit == Init => SavedInv
  BY DEF Init, SavedInv, Content, Holds

(* One step writes one name, and what it writes is kept or not.             *)
LEMMA WriteSaved ==
  ASSUME SavedInv, NEW n \in Name, NEW c \in Content, NEW k \in {<<>>} \cup Request,
         Holds(k, c),
         saved' = [saved EXCEPT ![n] = c], kept' = [kept EXCEPT ![n] = k]
  PROVE  /\ saved' \in [Name -> Content] /\ kept' \in [Name -> {<<>>} \cup Request]
         /\ \A m \in Name : Holds(kept'[m], saved'[m])
<1>1. \A m \in Name : Holds(kept[m], saved[m])
  BY DEF SavedInv
<1>2. \A m \in Name : m = n \/ (kept'[m] = kept[m] /\ saved'[m] = saved[m])
  BY DEF SavedInv
<1>3. kept'[n] = k /\ saved'[n] = c
  BY DEF SavedInv
<1>4. \A m \in Name : Holds(kept'[m], saved'[m])
  BY <1>1, <1>2, <1>3
<1> QED
  BY <1>4 DEF SavedInv

(* A request is a name, a text and a description.                           *)
LEMMA RequestParts ==
  ASSUME NEW r \in Request
  PROVE  r # <<>> /\ r[1] \in Name /\ r[2] \in Text /\ r[3] \in Description
  BY DEF Request

(* What is written is the text of the request, unless that was broken.      *)
LEMMA Written ==
  ASSUME NEW r \in Request, NEW c \in final_yaml(r[2], r[3])
  PROVE  c \in Content /\ Holds(r, c)
  BY RequestParts DEF final_yaml, Content, Holds, Broken

LEMMA SavedNext == SavedInv /\ [Next]_vars => SavedInv'
<1> SUFFICES ASSUME SavedInv, [Next]_vars PROVE SavedInv'
  OBVIOUS
<1>0. Holds(<<>>, "empty") /\ \A c : Holds(<<>>, c)
  BY DEF Holds
<1>1. ASSUME NEW s \in Servers, ServerStep(s) PROVE SavedInv'
  <2>1. ASSUME NEW n \in Name, NEW t \in Text, NEW d \in Description, SaveBegin(s, n, t, d)
        PROVE  SavedInv'
    <3>1. /\ saved' = [saved EXCEPT ![n] = "empty"] /\ kept' = [kept EXCEPT ![n] = <<>>]
          /\ job' = [job EXCEPT ![s] = <<n, t, d>>]
      BY <2>1 DEF SaveBegin
    <3>2. job' \in [Servers -> {<<>>} \cup Request]
      <4>1. <<n, t, d>> \in Request
        BY DEF Request
      <4> QED
        BY <3>1, <4>1 DEF SavedInv
    <3>3. "empty" \in Content
      BY DEF Content
    <3> QED
      BY <1>0, <3>1, <3>2, <3>3, WriteSaved DEF SavedInv
  <2>2. CASE SaveEnd(s)
    <3> DEFINE r == job[s]
               k == IF saved[r[1]] = "empty" /\ Alone(s, r[1]) THEN r ELSE <<>>
               mixed == IF saved[r[1]] = "empty" THEN {} ELSE {"torn", "garbled"}
    <3>1. r \in Request
      BY <2>2 DEF SaveEnd, SavedInv
    <3>2. PICK c \in final_yaml(r[2], r[3]) \cup mixed :
            saved' = [saved EXCEPT ![r[1]] = c] /\ kept' = [kept EXCEPT ![r[1]] = k]
      BY <2>2 DEF SaveEnd
    <3>3. c \in Content /\ Holds(k, c)
      <4>1. CASE c \in final_yaml(r[2], r[3])
        BY <1>0, <3>1, <4>1, Written
      <4>2. CASE c \in mixed
        <5>1. k = <<>> /\ c \in Content
          BY <4>2 DEF Content
        <5> QED
          BY <1>0, <5>1
      <4> QED
        BY <3>2, <4>1, <4>2
    <3>4. job' \in [Servers -> {<<>>} \cup Request]
      BY <2>2 DEF SaveEnd, SavedInv
    <3>5. r[1] \in Name /\ k \in {<<>>} \cup Request
      BY <3>1, RequestParts
    <3> HIDE DEF r, k
    <3> QED
      BY <3>2, <3>3, <3>4, <3>5, WriteSaved DEF SavedInv
  <2>3. CASE SaveFails(s)
    <3>1. job[s][1] \in Name
      <4>1. job[s] \in Request
        BY <2>3 DEF SaveFails, SavedInv
      <4> QED
        BY <4>1, RequestParts
    <3>2. PICK c \in {"empty", "torn", "garbled"} :
            /\ saved' = [saved EXCEPT ![job[s][1]] = c]
            /\ kept' = [kept EXCEPT ![job[s][1]] = <<>>]
      BY <2>3 DEF SaveFails
    <3>3. c \in Content
      BY <3>2 DEF Content
    <3>4. job' \in [Servers -> {<<>>} \cup Request]
      BY <2>3 DEF SaveFails, SavedInv
    <3> QED
      BY <1>0, <3>1, <3>2, <3>3, <3>4, WriteSaved DEF SavedInv
  <2>4. CASE UNCHANGED templateVars
    BY <2>4 DEF templateVars, SavedInv
  <2> QED
    BY <1>1, <2>1, <2>2, <2>3, <2>4 DEF ServerStep, Bind, AcceptError
<1>2. ASSUME NEW p \in Process, Gone(p) PROVE SavedInv'
  BY <1>2 DEF Gone, SavedInv
<1>3. CASE UNCHANGED templateVars
  BY <1>3 DEF templateVars, SavedInv
<1> QED
  BY <1>1, <1>2, <1>3 DEF Next, ProcessStep, Start, ReadVersion, Execute, OpenFails, Exit, vars

(* The first of the four files that can be read is the one that is loaded.  *)
LEMMA FirstReadable ==
  ASSUME NEW s \in Servers, NEW n \in Name, n \notin Embedded,
         NEW i \in 1 .. 4, parses(candidates(s, n)[i]),
         \A j \in 1 .. 4 : j < i => ~ parses(candidates(s, n)[j])
  PROVE  load_template(s, n) = candidates(s, n)[i]
<1> DEFINE readable == {j \in 1 .. 4 : parses(candidates(s, n)[j])}
<1>1. i \in readable /\ \A j \in readable : i <= j
  OBVIOUS
<1>2. i = CHOOSE j \in readable : \A k \in readable : j <= k
  <2> HIDE DEF readable
  <2>1. \A j \in readable : (\A k \in readable : j <= k) => j = i
    <3>1. readable \subseteq 1 .. 4
      BY DEF readable
    <3> QED
      BY <1>1, <3>1
  <2> QED
    BY <1>1, <2>1
<1> QED
  BY <1>1, <1>2 DEF load_template

(* What save_workflow has kept is what the name runs, with the text of its  *)
(* request, for every server that has nothing of that name in front of it,  *)
(* whoever else writes, fails or dies, if its description does not break    *)
(* the text.                                                                *)
THEOREM SavedIsAlwaysRun == Spec => []SavedIsRun
<1>1. SavedInv => SavedIsRun
  <2> SUFFICES ASSUME SavedInv, NEW s \in Servers, NEW n \in Name,
                      kept[n] # <<>>, <<kept[n][2], kept[n][3]>> \notin Breaks,
                      ~ Shadowed(s, n)
               PROVE  RunsAsSaved(s, n)
    BY DEF SavedIsRun
  <2> DEFINE f == candidates(s, n)
  <2>1. /\ f[1] = setup.shelf.local_yaml[s][n] /\ f[2] = setup.shelf.local_yml[s][n]
        /\ f[3] = saved[n]
    BY DEF candidates
  <2>2. kept[n][2] \in Text /\ saved[n] = kept[n][2]
    <3>1. kept[n] \in Request /\ saved[n] = kept[n][2]
      BY DEF SavedInv, Holds, Broken
    <3> QED
      BY <3>1, RequestParts
  <2>3. n \notin Embedded /\ ~ parses(f[1]) /\ ~ parses(f[2]) /\ parses(f[3])
    BY <2>1, <2>2 DEF Shadowed, parses
  <2>4. \A j \in 1 .. 4 : j < 3 => j = 1 \/ j = 2
    OBVIOUS
  <2> HIDE DEF f
  <2>5. load_template(s, n) = f[3]
    BY <2>3, <2>4, FirstReadable DEF f
  <2> QED
    BY <2>1, <2>2, <2>5 DEF RunsAsSaved, run_template, resolves
<1> QED
  BY <1>1, SavedInit, SavedNext, PTL DEF Spec

==============================================================================
