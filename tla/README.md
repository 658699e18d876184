# TLA+ models of RA, the parallel agent runner

RA runs Claude Code agents as child processes: as workflows (a DAG of steps
with failure policies, checkpoints and resume) and as ad-hoc runs started by
an MCP client, in the foreground or in the background. This directory holds
TLA+ modules for the parts of it that are concurrent or that decide something,
configurations that check them with TLC, and proofs checked by TLAPS.

`src/...` below is the repository; crate names are those under `src/crates/`.

## 1. The system

| component | source | state | operations |
|---|---|---|---|
| workflow definition | `ra-core/src/workflow.rs`, `checkpoint.rs` | steps, dependencies with a condition, failure actions | `normalize`, `validate`, `check_no_cycles` |
| DAG engine | `ra-engine/src/dag.rs` | `step_states`, `variables`, `metrics`, the handles of one batch | `execute`: scan, launch, collect, return |
| runner and checkpoints | `ra-engine/src/runner.rs`, `ra-store/src/checkpoint_store.rs` | the checkpoint table, the shared context | `run_workflow`, `resume`, the final `save` |
| scheduler | `ra-engine/src/scheduler.rs` | semaphore, sliding window of requests, backpressure deadline | `acquire`, `notify_rate_limited`, drop of the guard |
| agent manager and process | `ra-engine/src/agent_manager.rs`, `process.rs` | registry of agents, one process and two tasks per agent, two channels | `spawn_agent`, `ClaudeProcess::run`, `kill_agent`, `kill_all` |
| asynchronous runs | `ra-mcp/src/handler.rs`, `ra-core/src/run.rs` | one `RunState` per run in a shared map | `run_agents_async`, `update_status`, the polling tools |
| MCP server | `ra-mcp/src/main.rs`, `server.rs`, `handler.rs` | a process for each Claude Code session | start, one request after the other, end of input |
| broadcaster | `ra-mcp/src/ipc_broadcaster.rs`, `ra-core/src/ipc.rs` | the socket file, the list of connected clients | start, accept, forward an event to all clients, drop |
| dashboard | `ra-observe/src/ipc_client.rs`, `metrics_collector.rs`, `dashboard.rs` | table of agents, totals, event log, cursors | read, `handle_event`, snapshot, keys |
| database | `ra-store/src/db.rs` | tables, indices, `user_version` of a file all processes share | `open`, `migrate` |
| templates | `ra-mcp/src/handler.rs`, `ra-core/src/template.rs` | files in two directories, and those compiled in | `save_workflow`, `discover_templates`, `load_template`, `run_template` |
| history | `ra-store/src/history_store.rs` | SQL tables | single statements |
| context budgets, configuration, command line | `ra-engine/src/context.rs`, `ra-core`, `ra-cli` | values | parsing, substitution, printing |

**How they interact.** The MCP server (or the command line) makes a
`WorkflowRunner`, which owns a scheduler, an agent manager and a context.
`execute` calls `scheduler.acquire` and `agent_manager.spawn_agent` for each
ready step and gets a channel of events back; the channel is fed by the
forwarder task, which is fed by the runner task, which reads the process.
Both tasks also send on a broadcast channel; the broadcaster writes what it
receives there to the sockets of all dashboards, each of which feeds a
collector through a channel of its own.
`run_agents_async` uses neither the engine nor the scheduler: it has a
semaphore of its own and one agent manager per agent
(`runner::run_single_agent`), and writes the `RunState` its clients poll.
Every session has a server process of its own; these, and the commands, share
one directory: the socket, the database, the saved templates.

**What is hard.** Agents end in any order while `execute` works through lists
it computed earlier; a failure is handled in the middle of a batch; a
checkpoint is written only at the end and taken over, states and all, by a
resume with a workflow that may have changed, lost steps or gained some, on a
runner whose shared context may remember another execution; the scheduler lets its lock go
between looking and acting; the end of an agent passes through two tasks and
two channels while a kill may come at any time, or before the agent is in the
registry; several tasks write one status that somebody is polling; a slow or vanished
dashboard is in the way of the others; channels overflow; processes that know
nothing of each other use one socket path, migrate one database and write one
template, and die in the middle. Nothing
limits how long an agent takes. PROJECT.json lists each such place with its
line under `hazards`.

**What makes each component correct.**

- *Definition*: an accepted workflow has no cycle and waits for steps it has, so that every wait ends in
  a step that can run or in one whose outcome is the wrong one.
- *Engine*: nothing of a batch survives it; a step runs only when its
  dependencies hold, and they go on holding; outcomes are final; what was
  reset is picked up; prompts contain the outputs they depend on; counters
  agree with states; verdicts are true; it returns.
- *Runner*: a resume keeps work, data and counters; stored rows are true, for
  the workflow that was executed; the output a step is sent is the one its
  dependency ended with, not one of another execution.
- *Scheduler*: permits are conserved, the window forgets nothing too early and
  overflows by less than one request per caller, no deadline ahead is lost,
  calls return.
- *Manager*: a closed channel means that all events were delivered; what is
  announced of an agent's end is what became of its process; the registry reaches live agents; kills take effect.
- *Broadcaster and dashboard*: the stream has no holes, whoever keeps up gets
  all of it, nobody is dropped for somebody else, totals agree with the table,
  cursors stay on lines that exist.
- *Shared directory*: an open database is complete, a server that is alone can
  be found, a template that was saved is what is run, description and all.
- *Asynchronous runs*: a reported end is the truth about everyone, it is
  final, and it comes.

## 2. The modules

| module | models | composed of |
|---|---|---|
| `WorkflowDef` | `workflow.rs`, `StepState` | |
| `WorkflowLife` | what `execute` promises of the life of its steps | extends `WorkflowDef` |
| `WorkflowEngine` | `dag.rs` | extends `WorkflowDef`, instantiates `WorkflowLife` for the refinement |
| `WorkflowRunner` | `runner.rs` on a checkpoint store | extends `WorkflowEngine`: every execution is one of the engine's |
| `AsyncRuns` | `run_agents_async`, `RunState` | |
| `Scheduler` | `scheduler.rs` | |
| `AgentManager` | `agent_manager.rs`, `process.rs` | |
| `Broadcaster` | the broadcast channel, what is sent on it, `ipc_broadcaster.rs`, the sockets | |
| `EventStream` | what a dashboard may rely on of the events it is shown | |
| `Dashboard` | `ipc_client.rs`, `metrics_collector.rs`, `dashboard.rs` | extends `Broadcaster`: server and dashboards together; instantiates `EventStream` for the refinement |
| `Home` | processes that share `~/.ra`: `main.rs`, the socket file, `db.rs`, saved templates | |
| `MC...` | families of workflows, small sets of agents, clients, names and files for TLC | |
| `DataInduction` | induction over numbers, sequences and finite sets, for the proofs | |
| `...Proofs` | theorems | extend the module they are about, and `TLAPS` or `DataInduction` |

Definitions carry the names of the source where they have one
(`find_ready_steps`, `step_states`, `update_status`, ...). PROJECT.json maps
each definition to its lines. `Slip_X` is the definition `X` with a plausible
mistake; nothing refers to it. Each property is paired in PROJECT.json with
such a slip that it catches. What a loop of the source computes from a list is
written as a recursive function (`Recent` and `RemoveEach` of the position in
the list, `visited_from` of what was visited), which the proofs can reason
about.

**WorkflowDef.** `Step` is the set of ids that steps may have. A workflow has
the steps of its vector, `Steps(w)`, in whose order the engine launches and
collects; two workflows need not have the same ones, and a list may name one
twice or depend on one it lacks, which `validate` has to refuse. The id 0
stands for a string that no step is ever called; like the id of a step the
workflow lacks, it can get in through a wrapped fallback (the YAML shorthand),
whose target is not validated. `StepState` has `Absent` for an id without an
entry in the map. `Option` values are sets of at most one element.

**WorkflowLife.** The abstract specification: a step that waits, with its
dependencies satisfied at that moment, may start; started steps are decided in
any order, each once, by the rules of its policy; when nothing works and
nothing may start there is a verdict. There is no loop, no batch, no permit
and no agent in it. `WorkflowEngine!Life` maps `state` to `step_states`,
`busy` to `handles` and `verdict` to `result`.

**WorkflowEngine.** `phase` is the program counter of `execute`: `scan` at the
head of the loop, `launch` and `spawn` before and after the permit of one step, `collect` in the second loop, `returned`.
One action is one stretch between two awaits: `ScanReady`, `ScanFinish`,
`ScanStuck`, `Acquire`, `Spawn`, `SpawnError`, and one
`Collect...` action for each branch of the failure handling. `AgentExit` is
the agent's process and may come at any time. An output is represented by
where it comes from, the step, the execution and the launch, so that two
outputs of one step are different values; `output` is what `StepState::Completed`
carries, and `all_vars` lets the shared context win over the variables, as
`extend` does (`dag.rs:95`). `prompt` records what the variables were at each
launch; the sleep of the polling branch is
`ScanStuck` leaving everything as it is; `launches` and `runs` count launches and
executions and are history variables. The scheduler appears as its semaphore alone: the waits for
rate and backpressure only delay `Acquire`.

**WorkflowRunner.** Adds the checkpoint table (a set: ids are fresh and a save
is one statement), the row an execution started from, and the actions around
`execute`: `SaveCheckpoint`, `SaveFails`, `ReturnErr`, `Crash`, `Run`,
`Resume`. A new execution may have any valid workflow, as nothing compares it
with the one the row came from: steps may have been changed, moved, added or
removed. A resume takes the row's map of states as it is, so that added steps
have no entry (`Absent`, which `find_ready_steps` takes for waiting and
`all_terminal` does not see) and removed ones keep theirs. It may happen on the
same runner, whose shared context survives, or on a new one.

**AsyncRuns.** `task` is the program counter of each definition's task,
`launcher` that of the background task. The RunState is `agents`, `output` and
`status`; each block under the lock is one action. Names are chosen freely in
`Init`, so that definitions may share one.

**Scheduler.** `pc` is where each caller is in `acquire`; each passage through
the lock is one action. Timestamps are ages and deadlines are times left, so
time needs no bound: `Tick` makes everything one unit older, and ages stop at
the size of the window. `requests` is a history variable with the ages of the
requests that really happened. In today's program `execute` is the only
caller, one at a time per execution, and nobody calls `notify_rate_limited`;
the scheduler sits in an `Arc` behind an async lock and `run_workflow` takes
`&self`, so several callers are what its interface allows, and what its unit
tests do.

**AgentManager.** Four processes per agent (the call of `spawn_agent`, the
child, the runner task, the forwarder task) and the registry. Pipes and
channels are FIFO and lose nothing, so each is represented by the number of
lines or events that went in and came out. The child owes nothing: it may
print, close its output and stay, exit, or hang. `exit` is how it ended,
`result` what `run` returned, which need not agree: `kill` may fail, its error
is thrown away (`process.rs:114`) and the agent counts as killed all the same.
`unkilled` is a history variable with the agents of whom that is true.

**Broadcaster, Dashboard.** Events are numbered in the order of the broadcast
channel. Agents of steps announce their start and end on that channel, ad-hoc
agents only pass on what their processes print; `overtaken` records whose end
was announced before its last events. `bc` is the program counter of the
forwarding task, which holds the lock of the client list while it is
`writing`; `WriteTo` waits while nothing more fits in a client's socket. Both
bounded channels drop their oldest event when full and let the receiver know.
One dashboard, `Watched`, is followed through its reader, collector and
screen; the others are peers that connect, read and hang up. `data` is the
snapshot on the screen, which the next key is interpreted with. It is taken in
two steps, the table first and the log later (`Snapshot`, `SnapshotLog`), with
the collector at work in between; a key is read when it is complete. The totals
of the header, read between the two, are not part of it, as no key looks at
them: header and table on the screen may belong to different moments.

**EventStream.** The abstract specification of what lies between the agents
and the collector: events are numbered, a dashboard joins somewhere and handles
all from there on, in order; at some moment the stream may be cut off, by the
event that is sent just then or behind one that was sent before, and stays so.
In `Dashboard` the stream is cut off when a queue drops something the followed
client has not got, when a task that passes events on has ended, or when the
client quits (`Whole`). `limit` is the last event that can still get there:
all that was sent while the stream is whole, what is in the feed, in the socket
and in the hands of the writing task (`Ahead`) once the broadcast channel has
lagged, and nothing more once the client's own channel has.

**Home.** `proc` is where a process stands (opening the database, migrating,
serving, exiting), `accept` where the accept task of a server does, `path`
what the socket file leads to, `stmt` the statement of the migration that is
next. A save empties the file and then writes it. What it writes is `final_yaml`,
not the text that was validated: the request's description is put into that
(`handler.rs:914`). `Breaks` says which texts which descriptions break; what
comes of those may or may not be YAML, and is not the workflow. Other
descriptions change nothing of what is run. A process may be gone at any
moment (`Gone`), a statement, a write or an accept may fail. `alone` and
`kept` are history variables. The operators `load_template` and `run_template`
read the files as the handler does; `discover_templates` only lists and is left
out.

## 3. The runs

| run | instance | states |
|---|---|---|
| `engine` | up to 3 steps, 1 permit; all workflows of `Everything` | 401 000 |
| `runner` | up to 3 steps, 3 executions; workflows of `Edited` | 615 000 |
| `async` | 3 agents, 3 names, 2 permits | 146 000 |
| `scheduler` | 3 callers, 2 permits, limit 2 in a window of 2 | 67 000 |
| `manager` | 1 agent, up to 3 lines | 10 800 |
| `observe` | 1 step agent, 1 ad-hoc agent, 3 clients, channels of 2 and 1 | 289 000 |
| `home` | 2 servers, 1 command, 4 starts, 3 texts, 2 names | 489 000 |
| `engine_retry_unbounded`, `engine_concurrency`, `engine_abort`, `async_same_name`, `ipc_socket` | counterexamples | |

**engine.** One run starts from every valid workflow of a family, so it
answers for all of them: all acyclic graphs over three steps in any rank order
with all three conditions, with plain failures and skips; success graphs with
aborts; retries and fallbacks, circular and self-referring ones, wrapped ones;
and families of arbitrary graphs, cycles and self-dependencies included, and of
lists of steps in another order, with a step missing or twice, that `validate`
has to sort out. Three steps are enough for a batch of two with a
dependent, for a chain with a branch, and for every pair of (failing step,
fallback step, bystander). One permit is enough because a permit is never held
for longer than one turn of the loop (`PermitInv`, proved). `MaxCount` caps the
history and metric counters at 3; a counter reaches it only by retries and
fallbacks, and the properties on counters exclude those with fallbacks, while
a retry changes no metric.

- `NothingRunsBetweenBatches`: at each scan everything that was launched has
  been collected. It follows that the polling branch (`dag.rs:80`) is never
  taken in a fresh execution.
- `DependenciesRespected`: whatever a step was started for stays true.
  Exception: dependencies on steps that are somebody's fallback, which may be
  reset.
- `MetricsMatchStates`, `DownstreamSeesOutput`, `DeadlockVerdictJustified`:
  counters against states, prompts against outputs (an agent is sent the very
  output its dependency has completed with, not an older one), the deadlock
  verdict against the states it was given for. The last excepts entries of ids
  that are no step, which a wrapped fallback makes (`workflow.rs:172`).
- `TerminalIsFinal`: what a step of the engine may never do to an outcome.
- `Terminates`: `execute` returns if some permit exists, no policy is a retry
  (see the finding) and no fallbacks form a cycle.
- `ImplementsLife`, `KeepsGoing`: the refinement. Seen through the mapping,
  every execution is one that `WorkflowLife` allows (`PendingIsPickedUp`, what
  becomes of a step that waits, is a part of that and a theorem of its own);
  and with a permit it goes on as long as `WorkflowLife` could.

**runner.** Executions that an abort cuts in the middle are the interesting
ones for a resume, as others end with every step decided: two of the workflows
of `Edited` have three steps, the last depending on the first, and abort. A
third has the same steps and goes on to its end, and two lack the second or the
last step and have the others in another order. Each execution may have any of
the five, so that a row is resumed with steps it does not know and without
steps it does. Three executions are what it takes for the shared context to
differ from a row that is resumed: run, run again on the same runner, resume
the first; and for a row that went through two edits.

- `ResumeKeepsWork`, `MetricsMatchStates`: nothing of a row is lost by a
  resume.
- `StoredVerdictsHold`: a row is true, whatever it went through. A Completed row
  has no entry of a step that failed or waits, and lacks the entry of a step of
  its workflow only if that step is held up by the outcome of another. The
  exception is needed: see below.
- `ResumeSeesOutput`: an agent is sent the very output its dependency has
  completed with, if no workflow in use lets another step write the variable
  (`SoleWriter`), and if the dependency was launched in this execution or the
  shared context holds nothing for it. In the case left out, a step that
  completed before the resume and a shared context with something in it, the
  shared value is sent, the right one or not.
- `ResumeReturns`: a resume from a row without Running steps returns. Rows with
  Running steps exist after an abort, and a resume from one of those polls for
  ever at `dag.rs:80`.

**async.** Every assignment of names to three definitions. The properties are
conditional on distinct names where the code needs them to be.

**scheduler.** Two permits for three callers let them queue; a limit of two
requests in a window of two lets the window overflow and empty again; one
notification can come at any time. `OvershootBounded`: fewer than limit +
callers requests in any window. `AcquireReturns` needs the competitors to
stop: the code re-checks the window after each sleep and promises nobody a
turn.

**manager.** One agent: agents share nothing but the registry, every action
touches the variables of one agent only, and `kill_all` restricted to one
agent is `kill_agent`. Three lines are enough to have one printed and unread,
one read and not forwarded, and one forwarded. `NoOrphans` relates the
announcement to the process: Completed and Failed mean that the child ended by
itself in that way, Killed that it is dead, unless its kill failed. An end with
an error announces neither, and nothing is said of it. `KillEndsReading` ends at the
end of the output, after which the child is waited for outside of the select.

**observe.** Three set-ups, which keep the instance small: one agent and three
clients, two of them peers that block and hang up; two agents of both kinds
and two clients; two agents, one client, and a user who presses every key.
A channel of two events and a feed of one overflow with the four or more
events an agent sends, and a socket of one line blocks at once; the log is cut
at two. `NoGaps`: from its acceptance on the dashboard handles every event in
turn until it handles none any more. `ImplementsStream`: two channels, the
list of clients and the socket in a row behave like one stream that can be cut
off once. On top of `NoGaps` it says that a loss is for good: what can still be
handled is settled when the stream is cut off, only ever gets less, and nothing
that is sent later is part of it. `TotalsMatchTable`: the collector's totals and table agree,
but for agents whose end overtook their events. `NobodyElseDropped`: removal
by index hits those that failed. `CursorInRange`: cursors against what there
is, not what was on the screen. `Delivered`: a dashboard that stays, with no
lag at either channel, gets all that is sent, if no peer blocks the task for
ever.

**home.** The first set-up is about the socket and a fresh database, with two
servers and a command; the others about templates that two sessions save, with
`.yml` files of the user's behind the saved ones and with files of a project
in front of them. Four starts are enough for a crash of each of two servers
and their restart. `SchemaComplete`: whatever died in a migration, and however
several overlapped, an open database has all its tables. `AloneIsReachable`:
a crash never keeps a later server from its socket. `SavedIsRun`: what was
saved, and not written by somebody else at the same time, is what is loaded,
unless a file or an embedded template shadows it, or the request had a
description that broke the text. One of the texts is broken by a
description with a quote, the others (which have a description of their own)
by none, and requests come with harmless descriptions and without any, too.

**Counterexamples.** Each shows a place where the code does not do what its
documentation or comments say: retries are not counted, `max_concurrency`
does not limit a workflow, abort leaves agents running, equal names end a
run early, and a starting server removes the socket of a live one. The findings in PROJECT.json quote both sides.

**Fairness.** Weak fairness of each task stands for tokio polling it. Tokio's
semaphores serve waiters in order, which is the strong fairness of
`AcquirePermit` and `TakePermit`. An agent of `WorkflowEngine` and `AsyncRuns`
ends some day (`AgentExit`, `AgentEnds`): the code sets no limit, so liveness
there is relative to it. In `AgentManager` nothing of the kind is assumed of
the child. `Cancel` is strongly fair because the select polls its branches in
random order. Saving, crashing, resuming and killing never have to happen.
In `Dashboard` the tasks of the server, the reader and the collector are
polled; `Accept` is strongly fair, as tokio's lock serves its waiters in order
while the forwarding task takes it again and again. Agents, peers and the user
owe nothing. `Home` states safety only, and no fairness.

Deadlock checking is on in all runs but three: the final states are named
(`Done`, `Idle`) and everything else must be able to move. In `observe`,
`home` and `ipc_socket` it is off, since everybody may have hung up or ended.

The properties of a run are those worth their time. The types of
`WorkflowRunner` (`RunnerTypeOK`) are proved and not checked again; `Scheduler`
and `Home` state theirs in the comments of their variables, and in their
proofs as far as these need them.

**Seen while modelling, and not kept as runs.** Each follows from one line of
the code; the models contain them all.

- A process that dies during an execution, a spawn that fails and a deadlock
  leave no checkpoint: `save` is called once, after an Ok.
- Failed and Skipped steps of a row stay what they are: resuming a failed
  execution returns at once.
- A failed or skipped step strands the dependents that need its success, and
  the whole execution then ends as deadlocked and unsaved, although `skip` is
  documented as "mark as skipped, continue" (`src/README.md:255`).
- A resume with a workflow that has a step more than its row does not miss that
  step if all entries of the row are terminal: in a row without a failure, where
  the step it waits for the success of was skipped, the execution is Completed
  and saved so, though a step of the workflow never ran (`dag.rs:66`).
- A row that is resumed on a runner on which the workflow has run again in the
  meantime: the shared context wins over the row (`dag.rs:95`), and a dependent
  is sent the output of that later run, not the one in its row.
- `ra resume` prints a hint and `ra run` ignores `--from-checkpoint`.
- An agent of an asynchronous run is shown as Running while it still waits for
  its permit, and an agent whose result is an error as Completed.
- An agent that ends before `spawn_agent` has entered it in the registry stays
  in it; a kill between the start and the entry does not find it.
- Unread output is lost on a kill, and the end of an agent may be announced on
  the broadcast channel before its last events: a dashboard then leaves their
  cost out of its total for good.
- After a lag the broadcaster, or a dashboard's collector, has ended without a
  word: clients stay connected and keys keep working, but nothing changes.
- The start and end of an ad-hoc agent are never sent to dashboards, so it is
  in the table but never in the totals; nothing ever sets `total_agents`.
- An assistant message without text is logged as raw JSON once it has passed
  through IPC; a spawn that fails leaves the agent announced as running.
- Nobody calls `save_execution`: `ra_history`, `ra_metrics` and `ra history`
  (`src/README.md:105` ff.) are always empty. The ids of workflows and
  checkpoints are never shown, so that the checkpoint tools have nothing to be
  asked for.
- `save_workflow` puts the description, unescaped, into the text after it has
  validated it (`handler.rs:917`). With a quote or a backslash in it the file
  may be no YAML any more: "You can now run it" is the answer, and the name runs
  nothing, or a `.yml` file behind it.
- A saved template with the name of an embedded or a local one is answered
  with "You can now run it", and the other one is run. A template torn by a
  crash is passed over if it is no YAML, and hides a `.yml` file if it is.
- A kill that fails is announced as one that worked.
- The next backpressure notification replaces the deadline of the one before,
  also by a nearer one (`scheduler.rs:72`).
- `handler.rs:339` cuts a snippet at byte 200, which may be inside of a
  character.

## 4. The proofs

All for arbitrary constants within the named assumptions
(`WorkflowDefAssumption`, `EngineAssumption`, `RunnerAssumption`,
`AsyncAssumption`, `SchedulerAssumption`, `ManagerAssumption`,
`HomeAssumption`, `DashboardAssumption`): any number of steps, executions,
agents, callers, processes and clients, any workflows, names and capacities.
Every run evaluates the assumptions of its module.

**WorkflowEngineProofs.**

- `TypeCorrect`: `Spec => []TypeOK`. That `permits` stays in range is not
  inductive alone; `PermitInv` adds that a permit is out exactly in phase
  `spawn`. The fallback id of a normalized action has to be an id
  (`NormalizeTarget`), which is the only fact about data it needs.
- `BatchBarrier`, `DependenciesAlwaysRespected`: from
  `IInv == TypeOK /\ BatchInv /\ DependenciesInv`. `BatchInv` ties the phase,
  the two lists and the states together: what is in `ready` still waits with
  its dependencies met, what runs or has an agent is in `handles`, and a step
  in `handles` is Running unless a failure collected before it has reset it as
  a fallback. `DependenciesInv` extends the property to the steps in
  `handles`, because a step that was reset may be collected afterwards and be
  started again in the sense of the property. The step from one state to the
  next rests on one observation: the only steps that change their state are
  waiting, or being collected, hence not terminal, hence nobody's satisfied
  dependency; or they are fallback targets, which are excepted.
- `OutcomesAreFinal`, `PendingAlwaysPickedUp`: action by action, the first
  from the same invariant, the second from the types alone.
- `OutputAlwaysSeen`: `SharedInv` says that the shared map holds what every
  Completed step that is the only writer of its variable has completed with
  (`Held`); `BatchInv` that a launched step has its dependencies Completed at
  that moment. `OutputKept`, which the runner shares, is the argument for one
  step: such a variable changes only when its writer succeeds, and then so do
  both maps and the output in the step's state.
- `MetricsAlwaysMatch`: without fallbacks a step that is in `ready` waits and
  one that is in `handles` is Running (`BatchKept`), so each is counted at its
  end and at no other time; and as fewer than all the steps have ended before,
  the counters never meet `MaxCount` (`OneMoreInState`).
- `ValidateIsExact`: `validate` accepts a workflow exactly when its ids are
  unique, its dependencies and plain fallbacks name steps of it, and nothing is
  cyclic. Kahn's count reaches all steps exactly when no set of
  steps has each of its members wait for another one (`Cyclic`). `VisitExists`
  gives the function that the recursion of `visited_from` defines; a largest
  set of visited steps that touches no cycle exists, and nothing outside of it
  is free (`VisitedIsClosed`). `ValidationExact` is a formula about constants
  and no state can change it, so no run lists it; TLC confirms it on the
  families of `MCWorkflowEngine` when it is named there as an invariant.
- `DeadlockAlwaysJustified`: `DeadlockInv` says that the workflow in execution
  is acyclic and waits for steps it has, since `validate` has accepted it. So one of the waiting steps
  waits for none of them; it is not ready and nothing runs, so it waits for a
  step that ended with the wrong outcome (`StuckIsJustified`).
- `ExecuteImplementsLife`: initial states map to initial states, and every
  step to a step of `WorkflowLife` or a stutter. A launch needs `BatchInv`
  (the dependencies hold now, not only when the list was made), the verdict
  needs `VerdictInv` (there is one exactly when execute has returned).

**WorkflowRunnerProofs**, for executions that follow each other, with crashes,
failing saves, resumes and edited workflows.

- `RunnerTypeCorrect`: what the store holds is always something that an
  execution can start from (`FinalCheckpointType`, `BeginType`), and the
  workflow in execution has been validated (`RunnerInv`).
- `ResumeAlwaysKeepsWork`: work that was resumed from is `OutOfReach`, which
  is Completed, in neither list and never launched; no action but a fallback
  on that very step can change one of the four. `BatchInv` is not available
  here: an aborted row holds Running steps that are in no batch. What is left
  of it is `BatchKept`.
- `StoredVerdictsAlwaysHold`: what execute looks at when it returns is the map
  of states, and what it leaves in there is what the row claims (`Claim`). A
  step without an entry is not seen by `all_terminal`, but `find_ready_steps`
  takes it for waiting; as nothing was ready at the end, one of its
  dependencies was not satisfied (`FinishClaims`). Nothing is assumed of how
  the steps of the row and of the workflow go together.
- `ResumedDeadlockJustified`: the argument of the engine needs nothing of how
  an execution began but the validation, so it holds for every row.
- `ResumedMetricsMatch` assumes `NobodyFallsBack`: no workflow that is ever
  used has a fallback. A fallback that resets a counted step leaves a row
  that counts the step twice, and `MetricsMatchStates` excepts only the
  fallbacks of the current workflow; an edit that drops them would resume
  from a row that was wrong already. The instance of the run has the
  hypothesis.
- `ResumedOutputSeen`: `PassedInv` says that the variables of the execution and
  of every row hold what their Completed steps have completed with (`Shown`),
  and that the shared context does for what was launched in this execution.
  The condition that only one step writes the variable, in all workflows in
  use, is part of the property, as is the condition on the shared context.

**SchedulerProofs.**

- `ConcurrencyAlwaysLimited` from
  `permits + Cardinality(Holders) = MaxConcurrency`; `BackpressureAlwaysKept`
  action by action.
- `NeverForgets`: `WindowInv`. What is left of a list after cleaning is shown
  by induction on the list: cleaning twice is cleaning once, cleaning goes
  with appending a request of now, and a request that has left the window
  never comes back as time goes on (`RecentOfOlder`).
- `OvershootAlwaysBounded`: the requests within the window and the callers
  between the check and the record (`Unrecorded`) together stay below limit +
  callers: the last one to pass the check found the window not full, and
  before that there were at most all the other callers on their way. Time only takes
  requests away.

**AgentManagerProofs.** One invariant per agent (`AgentInv`): nothing exists
before the start, an exit code goes with a dead process, what `run` returned
agrees with it unless a kill or a wait has failed (`ExitInv`), what is announced
is what was returned (`EndInv`), events never outnumber lines but for the two that end an agent, the closed channel is
drained. `ManagerTypeCorrect`, `CloseAlwaysComplete`, `NeverOrphans` and
`RegistryAlwaysReaches` follow, for any number of agents where the run has one.

**AsyncRunsProofs.**

- `AsyncTypeCorrect`, `LimitAlwaysRespected`: from
  `permits + Cardinality(Holding) = MaxConcurrency`.
- `StatusAlwaysHonest`, `StatusStaysFinal`: `EntryInv` says that with distinct
  names each entry tells exactly how far its task is; `UpdateStatusHonest`
  then shows that `update_status` computes the verdict of all outcomes, and
  changes nothing before everyone has ended.

**HomeProofs.** `SchemaAlwaysComplete`: whoever is at statement i of the
migration finds all before it made, by itself or by others (`Made`), since
nothing is ever taken away. `AloneAlwaysReachable`: nobody else touches the
path of a server that is alone (`AloneInv`). `SavedIsAlwaysRun`: the file of a
kept name holds the text of the request that was kept, unless its description
has broken it (`Holds`), since any write that starts ends the keeping first
(`SavedInv`); the rest is what `load_template` returns for such a
state, which is the first readable candidate, wherever the directories differ.

**DashboardProofs**, for the server and the followed dashboard together.

- `CursorAlwaysInRange`: neither part of the snapshot, read at different
  moments, is ever ahead of the collector, and the table and the log never shrink, the log because it is cut
  only at its limit (`SnapshotInv`, `CollectorGrows`).
- `NobodyElseEverDropped`: the indices collected during a write rise, each
  belongs to a connection that is gone, and a gone connection never comes back
  (`WriterInv`). Taken away from the last to the first, each removal leaves the
  positions before it alone, so exactly the marked ones are removed and no
  index is ever out of bounds (`RemovedAll`, `RemoveEachFalling`, by induction on the number
  of removals). A client is in the backlog or on the list from its connection
  until it is gone (`MemberInv`).
- `NeverGaps`: `RxInv` says that the broadcast queue holds the last events that
  were sent, in a row, so that `Received` is the number of the last one taken
  out. `FollowInv` says the same of the followed client: its feed and its
  socket hold a row that starts after `last`, and that row ends where the
  forwarding task stands, one earlier while the line is still to be written
  to it. A queue that drops something breaks the row, but sets its flag, and
  whoever finds the flag ends. `QuietInv` has a client start with nothing in its
  socket or feed.
- `DashboardImplementsStream`: the initial states are `StreamInit`, and every
  step is a step of `EventStream` or leaves the five mapped values alone, by
  cases over the actions (`StepRefines`). The row of `FollowInv` ends at
  `Ahead`, which is never beyond what was sent (`AheadSent`), so what can still
  be handled lies between `last` and `Limit` (`LimitAhead`). Passing a line on
  moves it within that row and changes none of the values; a send that drops
  an event, a lag of the feed and a quit are `CutOff`; a client that is
  accepted with an empty socket and feed is `Join`.
- `TotalsAlwaysMatch`: `PipeInv` is about everything that is on its way to the
  collector: the end of an agent is in there once, nothing of the agent is
  behind it unless it was overtaken, and what was handled is not in there any
  more. So the end of an agent is new to the collector, and what it gets of an agent
  that has ended comes of an overtaken one (`HandledIsNew`); the three sets of
  the property then grow by at most the one agent of the event.
- `TypesAlwaysOK`: the types, capacities and index bounds, from the same
  invariants. That a handled event was sent, and a handled end announced, is
  part of `PipeInv`.

**DataInduction.** The library's induction theorems take an operator, which
the provers cannot instantiate. Here the predicate is a set: what holds of the
empty sequence, and of a sequence with one more element when it holds of the
sequence, holds of all, because a least counterexample is impossible
(`SequenceInduction`, from `LeastNumber`). `RecursionExists` gives the function
that a recursive definition chooses, step by step, so that its equation may be
used.

**Only model-checked**: liveness (`Terminates`, `KeepsGoing`, `ResumeReturns`,
`RunEnds`, `AcquireReturns`, `KillEndsReading`, `Delivered`), which is out of
the prover's reach. Every invariant, every action property and both refinements of the passing
runs are theorems; in the runner, that of `MetricsMatchStates` under the
hypothesis named above.

## 5. Not modelled

- The protocol of the MCP server: JSON, and the descriptions of its tools. It
  reads, handles and answers one request at a time, so its handlers do not
  interleave; what runs on is what `run_agents_async` starts.
- The synchronous `run_agents`: `AsyncRuns` without the polled state.
- The history store and the tools that read it: nothing writes its tables.
  `list` and `latest` of the checkpoint store: single queries for ids that
  nobody learns.
- Text: prompts and their substitution, the substitution in templates, JSON
  lines, tool output, drawing.
- Token budgets: registered by the engine, never updated or checked by it.
- `topological_order`: used for display only.
- Configuration, errors, export and tracing: data, formatting and set-up.

## 6. What could come next

1. Pure operators: `resolve_variables` and `Template::resolve`, whose result
   depends on the order of the substitutions when one value contains the
   placeholder of another; `check_no_cycles` as the machine it is, against the
   definition of acyclicity.
2. Proofs: `ResumeSeesOutput` across an edit that moves a variable to another
   step, on a runner that is made anew; an abstract counterpart of `AsyncRuns`, a set of
   agents that end and a verdict about all of them.
3. The only checkpoint of an execution is saved when it is over: a model of
   the window in between would need a property that the code does not have.
