-------------------------------- MODULE Home --------------------------------
(***************************************************************************)
(* The processes that share the directory ~/.ra: MCP servers, one for every *)
(* Claude Code session (ra-mcp/src/main.rs), and `ra run` and `ra history`  *)
(* commands (ra-cli).  Nothing coordinates them but the file system.  They  *)
(* share the socket (ipc_broadcaster.rs), the SQLite file (ra-store/db.rs)  *)
(* and the saved templates (handler.rs), and may die between any two steps. *)
(***************************************************************************)
EXTENDS Naturals, Sequences

CONSTANTS
  Servers,    \* MCP server processes
  Commands,   \* ra run and ra history processes
  Name,       \* template names that save_workflow accepts
  Embedded,   \* those of the templates compiled into the server
  Text,       \* texts that validate as a workflow
  Breaks,     \* the texts with the descriptions that break them when put in
  Required,   \* the parameters a text requires and gives no default for
  Shelves,    \* the template files that are not written by a server
  Setups,     \* what takes place in one execution
  MaxStarts   \* bound on how often a process is started

Process == Servers \cup Commands

(* What may be in a file.  Empty is what fs::write makes of it first; torn  *)
(* and garbled are the result of writes that were cut or mixed, with and    *)
(* without being YAML.                                                      *)
Content == Text \cup {"absent", "empty", "torn", "garbled"}

(* The description of a save request: none, one that can stand between      *)
(* double quotes as it is, or one with a quote or a backslash in it.        *)
Description == {"none", "plain", "quoting"}
Request == Name \X Text \X Description

ASSUME HomeAssumption ==
  /\ Servers \cap Commands = {}
  /\ Text \cap {"absent", "empty", "torn", "garbled"} = {}
  /\ Breaks \subseteq Text \X (Description \ {"none"})
  /\ \A h \in Shelves :
       h \in [local_yaml : [Servers -> [Name -> Content]],
              local_yml : [Servers -> [Name -> Content]],
              home_yml : [Name -> Content]]
  /\ \A u \in Setups : u \in [processes : SUBSET Process, saves : SUBSET Request,
                              shelf : Shelves, migrated : BOOLEAN]
  /\ MaxStarts \in Nat

VARIABLES
  setup,    \* which processes there are, what they save, what was there before
  starts,   \* how many processes were started so far
  proc,     \* down, opening (the database), migrating, serving, exiting
  accept,   \* the accept task: none, starting, listening, failed, broken
  path,     \* the socket file: none, the server it leads to, or stale
  db,       \* Handler::db: none, open, failed
  stmt,     \* the statement of the migration that is next
  schema,   \* the tables and indices in the database file
  version,  \* its user_version
  saved,    \* ~/.ra/templates/<name>.yaml
  job,      \* what a server is writing: <<>>, or the request
  kept,     \* history: the last request to save a name, if it came through
            \* on its own
  alone     \* history: no other server was up since this one was started

socketVars == <<accept, path, alone>>
dbVars == <<db, stmt, schema, version>>
templateVars == <<saved, job, kept>>
vars == <<setup, starts, proc, socketVars, dbVars, templateVars>>

Tables == {"executions", "checkpoints", "agent_logs"}
Indices == {"idx_checkpoints_workflow", "idx_agent_logs_execution", "idx_agent_logs_agent"}

(* Either nothing was there before, or the database of an earlier session.  *)
Init ==
  /\ setup \in Setups
  /\ starts = 0
  /\ proc = [p \in Process |-> "down"]
  /\ accept = [s \in Servers |-> "none"]
  /\ path = "none"
  /\ db = [p \in Process |-> "none"]
  /\ stmt = [p \in Process |-> 1]
  /\ schema = IF setup.migrated THEN Tables \cup Indices ELSE {}
  /\ version = IF setup.migrated THEN 1 ELSE 0
  /\ saved = [n \in Name |-> "absent"]
  /\ job = [s \in Servers |-> <<>>]
  /\ kept = [n \in Name |-> <<>>]
  /\ alone = [s \in Servers |-> FALSE]

Up(p) == proc[p] # "down"

(***************************************************************************)
(* The start of a process.  A server removes whatever is at the path of the *)
(* socket and leaves the rest to its accept task, which may be late.        *)
(***************************************************************************)
(* Slip: the file that is there is left there.                              *)
Slip_socket_removed == path

socket_removed == "none"

Start(p) ==
  /\ p \in setup.processes
  /\ ~ Up(p)
  /\ starts < MaxStarts
  /\ starts' = starts + 1
  /\ proc' = [proc EXCEPT ![p] = "opening"]
  /\ IF p \in Servers
     THEN /\ path' = socket_removed
          /\ accept' = [accept EXCEPT ![p] = "starting"]
          /\ alone' = [s \in Servers |->
                         IF s = p THEN \A t \in Servers : ~ Up(t)
                         ELSE alone[s] /\ ~ Up(s)]
     ELSE UNCHANGED socketVars
  /\ UNCHANGED <<setup, dbVars, templateVars>>

(* UnixListener::bind, which fails if there is a file of that name.         *)
Bind(s) ==
  /\ Up(s)
  /\ accept[s] = "starting"
  /\ IF path = "none"
     THEN /\ path' = s
          /\ accept' = [accept EXCEPT ![s] = "listening"]
     ELSE /\ accept' = [accept EXCEPT ![s] = "failed"]
          /\ UNCHANGED path
  /\ UNCHANGED <<setup, starts, proc, alone, dbVars, templateVars>>

(* listener.accept fails: the loop ends, and the file leads nowhere.        *)
AcceptError(s) ==
  /\ Up(s)
  /\ accept[s] = "listening"
  /\ accept' = [accept EXCEPT ![s] = "broken"]
  /\ path' = IF path = s THEN "stale" ELSE path
  /\ UNCHANGED <<setup, starts, proc, alone, dbVars, templateVars>>

(***************************************************************************)
(* Database::open: a fresh file has user_version 0, and then the statements *)
(* of the migration are executed one after the other, each of them a        *)
(* transaction of its own.  Without a database a server goes on, with db    *)
(* None; a command ends.                                                    *)
(***************************************************************************)
(* Slip: the version is set first.                                          *)
Slip_Migration ==
  <<"user_version", "executions", "checkpoints", "agent_logs", "idx_checkpoints_workflow",
    "idx_agent_logs_execution", "idx_agent_logs_agent">>

Migration ==
  <<"executions", "checkpoints", "agent_logs", "idx_checkpoints_workflow",
    "idx_agent_logs_execution", "idx_agent_logs_agent", "user_version">>

ReadVersion(p) ==
  /\ proc[p] = "opening"
  /\ IF version < 1
     THEN /\ proc' = [proc EXCEPT ![p] = "migrating"]
          /\ UNCHANGED db
     ELSE /\ proc' = [proc EXCEPT ![p] = "serving"]
          /\ db' = [db EXCEPT ![p] = "open"]
  /\ UNCHANGED <<setup, starts, socketVars, stmt, schema, version, templateVars>>

(* CREATE ... IF NOT EXISTS, or the PRAGMA at the end.                      *)
Execute(p) ==
  /\ proc[p] = "migrating"
  /\ LET statement == Migration[stmt[p]]
     IN  IF statement = "user_version"
         THEN version' = 1 /\ UNCHANGED schema
         ELSE schema' = schema \cup {statement} /\ UNCHANGED version
  /\ IF stmt[p] = Len(Migration)
     THEN /\ proc' = [proc EXCEPT ![p] = "serving"]
          /\ db' = [db EXCEPT ![p] = "open"]
          /\ stmt' = [stmt EXCEPT ![p] = 1]
     ELSE /\ stmt' = [stmt EXCEPT ![p] = @ + 1]
          /\ UNCHANGED <<proc, db>>
  /\ UNCHANGED <<setup, starts, socketVars, templateVars>>

(* A statement fails: the disk is full, or another process has the file     *)
(* locked for too long.                                                     *)
OpenFails(p) ==
  /\ proc[p] \in {"opening", "migrating"}
  /\ db' = [db EXCEPT ![p] = "failed"]
  /\ proc' = [proc EXCEPT ![p] = IF p \in Servers THEN "serving" ELSE "exiting"]
  /\ stmt' = [stmt EXCEPT ![p] = 1]
  /\ UNCHANGED <<setup, starts, socketVars, schema, version, templateVars>>

(***************************************************************************)
(* save_workflow: the text of the request is validated, the file is made,   *)
(* or emptied, and then written.  What is written is not the text but       *)
(* final_yaml: if the text has no description and has its name in quotes    *)
(* somewhere, the description of the request is put in behind that, between *)
(* quotes and as it is.  What that does not break stays the text it is: the *)
(* description is no part of what is run.  Requests of one server come one  *)
(* at a time.                                                               *)
(***************************************************************************)
final_yaml(t, d) == IF <<t, d>> \in Breaks THEN {"torn", "garbled"} ELSE {t}

Alone(s, n) == \A t \in Servers \ {s} : job[t] = <<>> \/ job[t][1] # n

SaveBegin(s, n, t, d) ==
  /\ <<n, t, d>> \in setup.saves
  /\ proc[s] = "serving"
  /\ job[s] = <<>>
  /\ job' = [job EXCEPT ![s] = <<n, t, d>>]
  /\ saved' = [saved EXCEPT ![n] = "empty"]
  /\ kept' = [kept EXCEPT ![n] = <<>>]
  /\ UNCHANGED <<setup, starts, proc, socketVars, dbVars>>

(* Onto an empty file goes final_yaml; onto what somebody else has written  *)
(* meanwhile, final_yaml or, if it is the shorter one, a mix of both.       *)
SaveEnd(s) ==
  /\ proc[s] = "serving"
  /\ job[s] # <<>>
  /\ LET n == job[s][1]
         written == final_yaml(job[s][2], job[s][3])
     IN  \E c \in written \cup (IF saved[n] = "empty" THEN {} ELSE {"torn", "garbled"}) :
           /\ saved' = [saved EXCEPT ![n] = c]
           /\ kept' = [kept EXCEPT ![n] = IF saved[n] = "empty" /\ Alone(s, n)
                                          THEN job[s] ELSE <<>>]
  /\ job' = [job EXCEPT ![s] = <<>>]
  /\ UNCHANGED <<setup, starts, proc, socketVars, dbVars>>

(* The write fails in the middle.                                           *)
SaveFails(s) ==
  /\ proc[s] = "serving"
  /\ job[s] # <<>>
  /\ \E c \in {"empty", "torn", "garbled"} : saved' = [saved EXCEPT ![job[s][1]] = c]
  /\ kept' = [kept EXCEPT ![job[s][1]] = <<>>]
  /\ job' = [job EXCEPT ![s] = <<>>]
  /\ UNCHANGED <<setup, starts, proc, socketVars, dbVars>>

(***************************************************************************)
(* The end of a process.  A server whose input has ended drops its          *)
(* IpcBroadcaster, which removes the socket file, whoever it leads to; the  *)
(* accept task lives a little longer.                                       *)
(***************************************************************************)
Exit(p) ==
  /\ proc[p] = "serving"
  /\ proc' = [proc EXCEPT ![p] = "exiting"]
  /\ IF p \in Servers
     THEN /\ job[p] = <<>>
          /\ path' = "none"
     ELSE UNCHANGED path
  /\ UNCHANGED <<setup, starts, accept, alone, dbVars, templateVars>>

(* The process is gone, after its exit or before; its listener with it.     *)
Gone(p) ==
  /\ Up(p)
  /\ proc' = [proc EXCEPT ![p] = "down"]
  /\ db' = [db EXCEPT ![p] = "none"]
  /\ IF p \in Servers
     THEN /\ accept' = [accept EXCEPT ![p] = "none"]
          /\ path' = IF path = p THEN "stale" ELSE path
          /\ job' = [job EXCEPT ![p] = <<>>]
          /\ alone' = [alone EXCEPT ![p] = FALSE]
     ELSE UNCHANGED <<accept, path, alone, job>>
  /\ stmt' = [stmt EXCEPT ![p] = 1]
  /\ UNCHANGED <<setup, starts, schema, version, saved, kept>>

ServerStep(s) ==
  \/ Bind(s)
  \/ AcceptError(s)
  \/ \E n \in Name, t \in Text, d \in Description : SaveBegin(s, n, t, d)
  \/ SaveEnd(s)
  \/ SaveFails(s)

ProcessStep(p) ==
  \/ Start(p)
  \/ ReadVersion(p)
  \/ Execute(p)
  \/ OpenFails(p)
  \/ Exit(p)
  \/ Gone(p)

Next ==
  \/ \E s \in Servers : ServerStep(s)
  \/ \E p \in Process : ProcessStep(p)

Spec == Init /\ [][Next]_vars

(***************************************************************************)
(* load_template and run_template: they read only, in one go as far as the  *)
(* files go.                                                                *)
(***************************************************************************)
parses(c) == c \in Text \cup {"empty", "torn"}

(* Slip: .yml is looked for first.                                          *)
Slip_candidates(s, n) ==
  LET h == setup.shelf
  IN  <<h.local_yml[s][n], h.local_yaml[s][n], h.home_yml[n], saved[n]>>

(* ./templates before ~/.ra/templates, and .yaml before .yml.               *)
candidates(s, n) ==
  LET h == setup.shelf
  IN  <<h.local_yaml[s][n], h.local_yml[s][n], saved[n], h.home_yml[n]>>

(* The embedded templates win; a file that is no YAML is passed over.       *)
load_template(s, n) ==
  IF n \in Embedded THEN "embedded"
  ELSE LET files == candidates(s, n)
           readable == {i \in 1 .. 4 : parses(files[i])}
       IN  IF readable = {} THEN "absent"
           ELSE files[CHOOSE i \in readable : \A j \in readable : i <= j]

(* Template::resolve fails for a required parameter without a value.        *)
resolves(content, given) == Required[content] \subseteq given

(* What is run for a request with the given parameters, if it resolves and  *)
(* is a workflow.                                                           *)
run_template(s, n, given) ==
  LET content == load_template(s, n)
  IN  IF content \in Text /\ resolves(content, given) THEN content
      ELSE IF content = "embedded" THEN "embedded"
      ELSE "error"

(***************************************************************************)
(*                              PROPERTIES                                  *)
(***************************************************************************)

(* A database that counts as migrated, and every database a process works   *)
(* with, has all its tables and indices, whatever crashed or failed in the  *)
(* middle of a migration and however migrations overlapped: db.rs never     *)
(* looks at the tables, only at the version.                                *)
SchemaComplete ==
  /\ version = 1 => schema = Tables \cup Indices
  /\ \A p \in Process : db[p] = "open" => schema = Tables \cup Indices

(* A server that has been the only one since its start is found by          *)
(* dashboards as soon as its accept task has done its part, whatever        *)
(* earlier servers left behind, crashed ones included.                      *)
AloneIsReachable ==
  \A s \in Servers :
    alone[s] /\ proc[s] \in {"opening", "migrating", "serving"}
             /\ accept[s] \in {"listening", "failed"}
      => path = s

(* What was saved is what its name runs, as long as nobody writes it again, *)
(* for every server that has no template of that name compiled in or in its *)
(* working directory: whatever crashed, failed or overlapped before, and    *)
(* unless the request had a description that broke the text.                *)
Shadowed(s, n) ==
  \/ n \in Embedded
  \/ parses(setup.shelf.local_yaml[s][n])
  \/ parses(setup.shelf.local_yml[s][n])

RunsAsSaved(s, n) == run_template(s, n, Required[kept[n][2]]) = kept[n][2]

SavedIsRun ==
  \A s \in Servers, n \in Name :
    /\ kept[n] # <<>>
    /\ <<kept[n][2], kept[n][3]>> \notin Breaks
    /\ ~ Shadowed(s, n)
    => RunsAsSaved(s, n)

(***************************************************************************)
(* What a comment says and the code does not do.                           *)
(***************************************************************************)

(* "Remove stale socket file": a file that is removed led to no server that *)
(* is still listening.                                                      *)
Listening(s) ==
  accept[s] = "listening" /\ proc[s] \in {"opening", "migrating", "serving"}

OnlyStaleRemoved ==
  [][\A s \in Servers : path = s /\ Listening(s) /\ path' # s => ~ Listening(s)']_vars

==============================================================================
