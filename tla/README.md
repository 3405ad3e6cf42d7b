# Verification of coc2

coc2 is a control plane for a fleet of hosts: a server (Go, SQLite) to which
agents keep a WebSocket connection, and operators who ask for shell tasks and
file transfers over HTTP.  This directory holds TLA+ models of its core, the TLC
configurations that check them on small instances, and TLAPS proofs about them.
`PROJECT.json` maps every definition to the source lines it models.

## 1. Inventory

| Part | Source | State | Operations | Module |
|---|---|---|---|---|
| Hub and sessions | `server/hub.go`, `server/client.go` | `clients` map; per connection: send queue, `done`, `sendClosed`, the read loop | register, replay of the backlog, dispatch, cancel, unregister | `TaskDispatch` |
| Task rows | `server/store.go` | tables `tasks`, `task_results`, `agents.online` | AddTask, MarkDispatched, SaveResult, CancelTask, PendingTasks, ReadyQueuedTasks, MarkTaskTimedOut, ResetOnlineAgents | `TaskDispatch` |
| Release and reap loop | `server/reaper.go` | one goroutine, its tickers, timer and wake-up channel | arm, sweep of deferred rows, reaping of overdue tasks and transfers | `ReleaseLoop`, `TaskDispatch`, `TransferRecord` |
| Agent executor | `agent/client.go` | `running`, `results`, the connection | read a dispatch, admit, run, cache, answer, cancel | `TaskDispatch` |
| Chunk assembler | `common/chunk.go` | `nextSeq`, `pending` | Write, flush, Resume, Finish | `ChunkAssembler` |
| Transfer records | `server/transfer.go` | `transfers` map, status, audit row, cancel channel | put, update, settle, cancel, two reapers | `TransferRecord` |
| Upload | `server/transfer.go`, `agent/client.go` | the pump; the agent's open uploads and `.part` file | start, resume, chunks, done, cancel | `Upload` |
| Download | same, `common/resume.go` | the record's open file; the agent's sendFile | start, acknowledge, chunks, done, cancel | `Download` |
| Plugin manager, JavaScript pool | `server/plugins.go`, `server/plugin_javascript.go` | hook slots, runtimes idle and built, interrupt flags | Trigger, Decide, run, acquire, release | `PluginHooks` |
| Plugin event store | `server/plugin_event.go` | `byID`, `order`, `bytes` | add, allow, get, two evictions | `PluginEvents` |
| Executable plugins | `server/plugin_legacy.go` | none of their own | one process per hook | not modelled |
| Operation log | `server/oplog.go` | table `oplog` | append for a request, a plugin's decision, an agent's result | `AuditTrail`, `Console` |
| Retention | `server/retention.go` | the audit tables | one prune per day and per start | `AuditTrail` |
| Groups | `server/store.go`, `cli/write.go` | `groups`, `group_members` | upsert, read, resolution; edits by the CLI | `GroupTable`, `Console` |
| Operator plane | `server/hub.go`, `cli/client.go`, `cli/write.go` | one goroutine per request, one process per invocation | authenticate, resolve targets, plugin veto, batch, cancel; run --wait | `Console` |
| Metrics, protocol frames, configuration, TLS | the rest | little or none | encode, print, read files | not modelled |

How they interact.  An operator's request is a goroutine of its own that writes
a row and then looks the agent's session up.  Each session is a read loop and a
write loop joined by a bounded channel.  One goroutine releases deferred rows
and reaps.  On the agent one goroutine reads frames, and every task and every
download has a goroutine.  They share the rows (one SQLite connection: a
statement is atomic, two are not), the `clients` and `transfers` maps (each
under a mutex that is released before the next statement or send), and the
connection.

Hard behaviour, and where it is looked at (the list with lines is `hazards` in
`PROJECT.json`):

- state read, lock or statement ended, state written: CancelTask, requeueTasks,
  unregister, the agent's cache-then-running check, getTransfer-then-lock,
  release-then-stop of a plugin runtime;
- store-then-look against enter-then-read: an inline dispatch races with a
  registration, and a row must not fall between them;
- the same task handed over twice, by the request, the backlog and the sweep;
- server or agent dying between a send and its record;
- chunks out of order, twice, or never; a `.part` file left by anybody;
- a cancel against the end of what it cancels; reapers against late answers;
- slots and runtimes lost on an error path; scripts that do not return;
- moments compared as text, one timer for all rows, a sweep that waits for a
  full queue, a wake-up that may be lost;
- two operators who edit a group or name it while it is edited; a client that
  gives up while the server works on; an effect whose audit row is lost; a prune
  between the read and the write of a cancel;
- limits met exactly: send queue, pending chunks, task limit, bytes of events.

## 2. Modules

| Module | About |
|---|---|
| `TaskDispatch` | tasks from the request to a terminal row |
| `TaskLedger` | the abstract promise of the task table, which `TaskDispatch` implements |
| `TaskDispatchProofs` | TLAPS: types and safety of `TaskDispatch`, and the refinement |
| `ReleaseLoop`, `ReleaseLoopProofs` | the scheduler of deferred rows, in time; TLAPS |
| `ChunkAssembler`, `ChunkAssemblerProofs` | reordering of chunks; TLAPS |
| `TransferRecord` | the life of a transfer's record, both directions |
| `TransferLink` | EXTENDS it with the connection, cancel frames, the session's reader and the server's restart |
| `Upload`, `Download` | EXTEND `TransferLink` with one direction each |
| `TransferProofs`, `UploadProofs`, `DownloadProofs` | TLAPS: what the operations on records do; each direction |
| `PluginHooks` | plugin calls |
| `PluginEvents` | the plugin event store |
| `PluginProofs` | TLAPS: both |
| `AuditTrail` | task rows, results, operation log and retention over days |
| `GroupTable` | agent groups |
| `Console`, `ConsoleProofs` | EXTENDS both with the CLI and the operator handlers; TLAPS |
| `MC...` | constants for TLC |

`Upload` and `Download` compose three parties, the service's records and
reapers, the link, and the agent, by extending the same two modules, so the
statements about records are the same definitions in both.  `Console` composes
the client, the handlers, the groups and the audit tables.  In each module a
definition whose comment begins with "Mutant:" is a plausible wrong version of
the definition that follows; none is used by a specification.

The three views of a task fit together so: `TaskDispatch` has every statement
and frame in the life of a row but lets a sweep run at any time; `ReleaseLoop`
has the time of the sweep and takes a send for granted; `Console` has what is
before the row exists and after it is settled, and lets an open row move as the
ledger does.

### TaskDispatch

A step is a database statement or transaction, a section under a mutex, or a
channel operation.  The sessions' program counter `spc` follows readLoop:
`hello` (dialed), `retire` (the slot is taken, the predecessor not yet closed),
`load`, `deliver`/`mark` (the backlog, one row at a time), `requeue` (a send
failed), `serve`, `exit`/`offline` (unregister, before and after the unlock),
`gone`.  Requests (`hpc`) follow createTask, dispatchOrQueue and CancelTask with
its read and its write apart; the scheduler (`rpc`) follows dispatchReadyTasks
and reapTimedOutTasks.  The agent's reader looks in the cache in one step and
admits in the next, because the two checks take different locks.

Abstractions: a release moment is a countdown and a dispatch stamp an age.
hello_ack is not kept (the agent only logs it).  UpsertAgent and the read of the
backlog are one step, as are SetAgentOnline(false) and the close of the
connection.  Timer, wake-up and tickers of the loop let a sweep run at any time
(`ReleaseLoop` has them), and a moment has come when the store finds it come.
A batch is several independent creates; the plugin veto before them is in
`Console`.  Heartbeats and acknowledgements are `Touch`.  Database
errors and the token are left out; Shutdown is a crash of the server.  Rows of
equal priority come in any order.  A connection has the send queue and the socket
as one bounded sequence per direction; a frame is lost when either side hangs up.

### TaskLedger

Five variables: the row, its verdict, who gave it, which tasks are released, how
often a command was started.  Nothing starts or is dispatched before its
release; a row becomes terminal together with its verdict; an agent's verdict is
taken by an open row only and needs a command that was started, unless it is a
refusal; the reaper times out what was dispatched and cancels what was to be
canceled.  `Return` (a requeue) and `Cancel` have no guard on the row's state:
that is the weakness the code has, and `TerminalLeftOnlyByStaleWrite` says that
these two alone have it.  The mapping in `TaskDispatch` (`Ledger`) is on state
variables only, without history: `released` is what exists with `due` at 0.

### ReleaseLoop

Moments are numbers; `Text` is their place in the order of the RFC3339Nano texts
that SQLite compares, with two digits of base 2, where a dropped trailing zero
sorts last in its second.  `OnTimer`, `OnWake` and `OnTick` are the cases of
reapLoop's select, `SweepRow` one row of dispatchReadyTasks, `Rearm` the rest of
arm, which uses the clock reading from before the sweep.  The loop is prompt:
the clock moves only while it waits in select or for a full queue, which ends
with the agent reading on or the writer's deadline.  The other tickers of the
loop and the state of a row after its send are left out.

### ChunkAssembler

`Write` up to its first disk write, `Flush` per buffered chunk, `Finish`.  The
sender may send any chunk at any time, again too; any disk write may fail, and
the caller then gives up, as both callers do.

### TransferRecord, TransferLink, Upload, Download

The record has a status in memory and one in the audit row; `live` are those in
the map.  Deadlines are not counted: a reaper may find any record overdue, which
covers every timing.  A settle and the removal from the map are one step; a
lookup is a step apart only in the session's reader, which may hold one frame
(with its record) of a connection that is gone meanwhile.  A file is a sequence
of chunks and is its own checksum.  All transfers of an instance use one agent
and one path, so that they share the `.part` file; an open file follows its
inode through the rename.  Chunks of one connection arrive in order (one
goroutine sends them); any order is the business of `ChunkAssembler`.  Rename and
comparison of the checksum are one step, and so are the two reaper passes of a
tick.  The remote file does not change.  A restart of
the server forgets the map, the pumps and the reader and leaves the audit rows and
the files; the agent keeps what it has and dials again.

### PluginHooks, PluginEvents

A call takes a hook slot, a runtime (idle, or a new one below the limit), arms
the interrupt, runs, releases, and then stops the interrupt or waits for it, in
the code's order.  In a new runtime the module's top level runs first (`load`), with
no interrupt armed.  Whether the plugin is disabled is looked at once, before the
wait for a runtime.  The engine is external: an interrupted runtime ends the
script that runs, or the next one, until ClearInterrupt.  What a script does, a
hook or a top level, is a choice, including never returning.  Order among those who wait on a channel is
not kept.  The result of a notification is ignored, as the code does.  In
`PluginEvents` `add` reads the clock in a step before the one under the lock,
ids are model values and lookups are by plugin or operator.

### AuditTrail, GroupTable, Console

An invocation (`cli`) is a process: `run` with its selector and `--yes` rules,
`--wait` polling task by task, `tasks cancel`, `groups create`, and `groups add`
and `groups remove`, which read the group (row and members by two statements)
and post the edited list.  A request (`srv`) goes through requireOperatorAuth,
the handler (`work`, then `create` for the targets of a batch, in sorted order, or
`write` for the second half of a cancel) and oplogMiddleware (`audit`).  The
answer may reach the client before the log row is written.  Faults, of which a
behaviour has a given number, are a failing write or query for groups, a log row
that cannot be inserted, a
plugin that fails open, a late result, a client's timeout, a failed prune, and a
crash.  `ever`, `stable`, `began`, `won` and `unlogged` record the past for the
properties and influence nothing.

Abstractions: time is in days and a row has the day it was written.  The ref
column holds `RefCap` ids, and any of them, or none (an answer longer than what
the middleware captures).  Agents selected by tag count as named, and no id is
given twice on a command line (the code would count it twice and ask for
`--yes`).  Other reads of the database do not fail; a poll fails when the task is
gone or the budget ends.
The plugin's decision is a choice (`PluginHooks` has how it is made).  The prune
of transfer_audit is left out.

## 3. Runs

`CHECK_DEADLOCK FALSE` stands everywhere: once the budget of connections,
requests and faults is spent, a quiet system rightly stops.

| Run | Instance | Shows |
|---|---|---|
| `reconnect` | 1 deferrable task, 2 connections, 1 request, one fault of any kind: link, writer, agent or server restart | `TypeOK`; `NoStrandedTask`: no immediately available row is left queued at a serving session with nobody to send it; `DispatchedStamped`, `NoEarlyRelease`, `AgentVerdictEarned` |
| `cancel` | 1 task, 2 requests, a cancel, a writer that may fail, reaper on, fair | `TerminalHasResult`; `ImplementsLedger`; `TerminalLeftOnlyByStaleWrite`; `WatchedIsLeft`: the reaper backs every stamped row |
| `backlog` | 2 deferrable tasks of different priority, agent limit 1, one writer failure or one pruned result | `NoStrandedTask` with several rows: order, partial replay, requeue, refusal |
| `release` | 2 deferred rows for 2 agents, moments in two seconds of 4 units, clock of 14, backstop 4, a queue full for up to 2, one stall, disconnect or restart, fair | `TypeOK`; `ReleasedInTime`: no row outlives its second while the loop sleeps (after a fault: the backstop); `EarlyBySameSecond`; `EveryReleaseComes` |
| `chunks` | 8 chunks, 1 on disk, buffer 3 | `DiskIsPrefix`, `FinishedIsWhole`, `BufferBounded`, `AllSentAllWritten` |
| `upload` | 5 left-over `.part` files; 1 upload with 2 cancels and 1 failing file operation, or 2 uploads to one path; 2 connections, server restarts, fair | `TypeOK`, `SuccessMeansDelivered`, `ChunksInOrder`, `SettledLeftOnlyByPump`, `LiveIsLeft` |
| `download` | the same for downloads, the second after the first has ended | `TypeOK`, `SuccessMeansIntact`, `SettledLeftOnlyByHandler`, `LiveIsLeft` |
| `hooks` | 2 plugins, 1 decision, 2 notifications, 2 slots, 1 runtime each, 1 load error, fair | `ResourcesExact` (types, slots, pool), `DecisionIsHeard`, `EveryCallEnds` |
| `events` | 4 events of sizes 1, 2, 2, 4 in 3 bytes, TTL 1, clock to 3 | `StoreExact`, `NotEvictedEarly`, `ExpiredGone` |
| `console` | 2 agents, 2 groups, nine episodes of up to 3 invocations, up to 2 days with retention of 1, up to 1 fault | `TypeOK`; `TargetsOfTheTime`; `UndoesOnlyUnseen`; `EffectsTraced`; `DeniedStaysOut`; `ExitCodesEarned`; `OrphanOnlyByLateCancel` |
| `v_double_run` | 1 task, 1 connection, no fault | violates `AtMostOneExecution` |
| `v_download_overlap` | 2 downloads to one path at once | violates `VerifiedStays` |

Why the bounds are enough to be interesting.  Two connections are an old and a
new session of one agent; a third would repeat the second.  One task suffices
where the races are about one row; two are needed for order, partial replay and
the limit, and `backlog` has them.  Two requests are a dispatch and a cancel of
the same row.  A queue of one frame makes every second send wait.  Two chunks
let a transfer be interrupted in its middle, and the two sources share their
first chunk, so that a resumed file can be right by accident up to there.  The
eight chunks of `chunks` exceed the buffer of three in both directions.
The moments of `release` take every
order of two texts within a second and across two, and the clock leaves room for
a stall and two backstops after the last.  The episodes of `console` and of the
transfers (`Episodes`) are alternatives of one run: each has the actors and faults
of one kind of race, since all of them at once repeat each other.  In `console` an
agent is moved from one group to the other while a run names both; an add, a
remove and a create overlap; a create breaks a constraint; a run that is waited
for is canceled, pruned, refused or cut off; a request has no token.
Connections (and requests) are symmetric; symmetry is used in runs without
temporal properties only.  What a run's bounds leave out (several faults at
once, more tasks) the theorems cover for the properties that are proved.

### What the two violations show

- `AtMostOneExecution`.  hub.go:846-849 says that a task which the request and the
  backlog both hand over costs nothing, because "the agent answers a
  retransmission from its running set or result cache rather than executing it
  twice".  The agent looks in the cache (miss: the task runs), the task ends and
  leaves the running set, the agent looks there (miss), and the command runs again.
- `VerifiedStays`.  README.md:288 of the repository treats one target path as one task, and the agent aborts
  the earlier of two uploads to a path.  Two downloads to a path share the `.part`
  file on the server: the first renames it, and the second's next chunk goes into
  the file whose checksum was just verified.

### Other claims of the sources that the code does not keep

These are stated in the modules beside the properties above, and TLC refutes
each within the named run's constants (put the name in place of the run's
properties, without the symmetry); they are seeds for fixes, after which they
can join the runs.

| Definition | Run | The claim | What happens |
|---|---|---|---|
| `TerminalNeverLeft` | `cancel` | store.go:704 "the states a task can never leave" | CancelTask writes without looking at the state again: `success` becomes `canceled` |
| `CancelIsFinalized` | `cancel` | README.md:243, the reaper finalizes `cancel_requested` | a cancel lands on a row that requeueTasks has written back without a stamp; the reaper skips it until the next start |
| `ServingIsOnline` | `reconnect` | hub.go:938-941 "must not clear the live session's flag" | the flag is cleared after the unlock, over the new session's; a heartbeat repairs it |
| `CanceledNeverStarts` | `upload` | transfer.go:196-198 "can never observe start-after-cancel" | the grace reaper settles the cancel while the file is hashed, and the pump tests for `cancel_requested` only |
| `CancelNeverDangles` | `upload` | transfer.go:809-811 "can never dangle in a non-terminal state forever" | `waiting_remote` is written over a settled cancel |
| `CanceledStaysCanceled` | `download` | transfer.go:365-368 "must not resurrect a canceled transfer" | an acknowledgement looked up before the settle sets `running` |
| `AimsAhead` | `release` | reaper.go:63-68 "only ever sleeps toward genuinely future work" | a row whose text sorts after the clock's is due but not ready: the timer is set to zero and the loop spins until the texts agree, less than a second |
| `OnlyOwnInterrupt` | `hooks` | plugin_javascript.go:219-221 "must have returned before the runtime is reused" | release comes before the deferred wait |
| `GarbageIsReported` | `hooks` | plugins.go:311-314, the failure of a plugin that "returns garbage" is "returned in Decision ... silently allowing is the one outcome that is not allowed"; docs/plugin-refactor.md:299, an unknown value is allow plus audit | the next plugin's allow overwrites `last` (plugins.go:415), the caller gets a plain allow and audits nothing (hub.go:1003) |
| `EveryCallIsBounded` | `hooks` | limits.go:21-24, PluginHookTimeout bounds a hook, which would otherwise pin a goroutine forever; plugins.go:360 "One deadline covers the whole chain" | a new runtime runs the module's top level (plugin_javascript.go:422) before the AfterFunc is armed (223) and without a context: one that does not return keeps its hook slot, its runtime and, for a decision, the request |
| `AnyDenyDenies` | `hooks` | plugins/README.md:92, any one deny denies | the first plugin fails, Decide allows, the second is not asked |

The passing properties are stated so that they say what the code does keep in
these cases: `TerminalLeftOnlyByStaleWrite`, `SettledLeftOnlyByPump` and
`SettledLeftOnlyByHandler` name the only writes that leave a terminal status,
and any further one would be a violation.  In the same way `UndoesOnlyUnseen`
allows the lost update of two group edits and nothing worse, `EffectsTraced` lists
the cases in which an effect is not named in the operation log,
`EarlyBySameSecond` bounds what the order of the texts can do, `DecisionIsHeard`
lets an unknown answer be hidden by a later plugin's plain allow and by nothing
else, and `EveryCallEnds` lets a call stay in its module's top level while every
other call still ends.

## 4. Fairness

- `TaskDispatch`: time passes; a session's own steps, the steps of a sweep and of
  a reap pass are taken once they can be (goroutines are scheduled); a full queue
  that nobody drains ends in the writer's deadline.  A pass of the reaper is
  strongly fair: its ticker stays ready until received, and `select` chooses
  among ready cases at random.  Nothing is assumed of agents, operators or the
  network.
- Transfers: goroutines of server and agent run, the session reads, a broken
  connection is dialed again while the bound allows, frames that arrive are
  handled; the reaper's pass over stalled records is strongly fair, as above.
- Release loop: the goroutine takes its steps, time passes, a request that has
  stored its row nudges, and a full queue is drained or its session ends (the
  writer's deadline).  Agents that are down need not come back.
- Plugins: Go code runs, contexts expire, timers fire, an interrupt stops a
  script.  Scripts have no fairness, neither hooks nor the top level of a module;
  hence the exception in `EveryCallEnds`, a call that stays in `load`.

## 5. Proofs

All for any agents, tasks, connections, requests, limits and faults.

`TaskDispatchProofs`, from the named assumptions of `TaskDispatch`:

- `TypeCorrect`: `TypeOK` is inductive.  Its second half is not typing but that a
  goroutine at a given point holds what it is about to use; without it, sends and
  marks have no type.  One lemma per kind of process.
- `StoreStep` (lemma): every step writes the store by one of the store's
  statements or not at all.  From it follow `ResultsAgree` (a terminal row agrees
  with its result), `StampsKept` (a dispatched row has its stamp, which needs that
  a stamp is cleared only with the state), and the action property
  `TerminalReopening`.
- `SpreadHonoured`: `NoEarlyRelease` says that a task ahead of its moment is not
  on the wire and has not run.  It is not inductive, for somebody may have it in
  hand; `HeldBack` adds that nobody has (no backlog, request, sweep, agent), and
  that its row still carries the release time, which is what the two queries test.
- `VerdictsEarned`: `AgentVerdictEarned` is about rows; `Earned` follows the verdict
  back over the wire and the cache to the goroutine that ran the command.
- `NothingStranded`: `NoStrandedTask` is about an agent whose session serves, so its
  invariant has to follow a row through every hand.  `Handed` says that a row to be
  sent at once, whose agent's slot in the hub holds an open session past the reading
  of its backlog, is in a session's backlog, or in the hands of a request: one that
  is yet to look the slot up or to mark the row, or is about to send it to that very
  session (a send to any other may fail).  For this a slot must hold a session of its
  agent that has registered, and a session must have no backlog before it has read it.
- `LedgerImplemented`: `Spec => ImplementsLedger`.  Lemmas say what each statement of
  the store is to the ledger (a stutter, Dispatch, Return, Settles, Submit); then
  each process has one lemma.  Nothing new is needed for sessions, sweeps and
  agents: that what they have in hand is released is `HeldBack`, that a verdict on
  the wire stands for a command is `Earned`.  For the operator's cancel, whose second
  half writes without looking, `CancelsARow` is added: a request that cancels has
  read a row, and rows do not go away.

`ChunkAssemblerProofs`: `AssemblerInvariant` proves `Inv`: types, the disk is a
prefix, what is buffered is ahead of the disk, at its own place and within the
limit.  From it `PartIsPrefix`, `AcceptedIsWhole`, `MemoryBounded`,
`EveryOrderWorks` (when all chunks were accepted, nothing remains in the buffer: a
smallest buffered number would be the next one) and `DuplicatesRejected`.

`ReleaseLoopProofs`, from `ReleaseAssumption` (any base of the fraction, any
backstop).  Texts of different seconds sort as the seconds do; with that,
`SweepInSecond`, about the rows a sweep has in hand, makes `NeverBeforeItsSecond`
inductive.  `NoReleaseForgotten` is about the loop asleep, so what covers a row must be
carried through the loop's run: `TimerCovers` (without a fault: the row is in the
running arm, or after its clock reading, or the timer fires in its second at the
latest, or a wake-up is pending) and `TickCovers` (always: a row whose second was over
at the last tick is in the running sweep, or the tick is still to be served).  That
the timer aims at the row with the least text and yet serves every row is the heart
of it: a row with a later text is of the same second or a later one.

`TransferProofs` says once what put, update, settle, cancel and the reapers do to a
record; both directions cite it.  The files, the `.part` files found and the other
transfers to the path are arbitrary (`UploadAssumption`, `DownloadAssumption`: sources
and left-over files are files, and `None` is not one).

- `UploadProofs`: `Delivered` needs only that a verdict of success, from the agent's
  rename to the row, is about a file that arrived (`SuccessEarned`).  `InOrder` needs
  `Flow`: a start frame and its answer exist once, on the way there, on the way back,
  with the handler or in the channel (`OneStart`); until the pump has the answer it
  has sent nothing, and the answer is what the agent waits for (`Offset`); chunks
  travel on the pump's own connection only, ascending, without a gap between what
  the agent waits for and the pump's position (`InStep`).  `OnlyPumpLeaves` is an action
  property, from `TypeOK`.
- `DownloadProofs`: `Intact` and `OnlyHandlersLeave`, with overlapping downloads or
  without.  Its `TypeCorrect` is not only typing: a write goes through an open file
  that exists (`OpenExists`), under whatever name it has by then.

`PluginProofs`, for `PluginHooks` from `HooksAssumption` (limits of at least 1, as limits.go
has them; finitely many calls): `NothingLeaks` counts.  Each action moves one call, and a
lemma per kind of move says what this does to the cardinality of the running hooks
and of a plugin's users; `OnRuntime`, a script that runs has a runtime, is what
makes the pool inductive.  `OnlyWhatWasSaid` needs `Heard`: the plugins before the
one a decision is at answered without a veto or an exception, and a run that failed
had a reason (`Answered`: a throw, a disabled plugin or an interrupt).

For `PluginEvents` from `StoreAssumption` (a body has at least one byte; any limit, TTL and
clock).  The inductive invariant is `StoreInv`: besides the exact byte count and
`NotEvictedEarly` itself, the queue is a suffix of what was ever stored, no id was
stored twice, every body in the map is in the queue (`Queued`), and a stored event
has a clock reading that is not in the future (`Stamped`).  That the queue is a suffix
is what makes `NotEvictedEarly` inductive: when an id is at the front of the queue,
what the sweep has to fit is the part of "it and all that was stored after it" that
is still in the map.

- The byte count is a sum over a set, which the library defines by a recursive
  function on subsets that takes out an arbitrary element.  `InductiveSet` is
  induction over numbers for a set instead of an operator, from the least number
  outside of it; by it the recursion has a solution on a finite set (`FoldExists`),
  only one (`FoldsAgree`), and whichever element is taken first, the sum is the same
  (`BytesTurn`, `BytesAdd`).  Then sums of disjoint sets add up, and a part is at most
  the whole (`BytesUnion`, `BytesPart`).
- `OverCapTakes` and `ExpiredPrefixTakes` say what the two sweeps take: the fewest ids after
  which the rest fits, and the longest front of ids that are gone or expired.
- `StoreIsExact`: `add` gives back exactly what it evicts and ends within the limit, since
  in the worst case it empties the map; a lookup that drops an expired body leaves its id
  in the queue, and later sweeps give back nothing for it.
- `NothingEvictedEarly`: the sweep for expired bodies takes one only if its time was up at
  the clock reading of the call, which is not after now; the sweep over the limit takes one
  only if it and the bodies behind it do not fit.
- `ExpiredFreed`: the sweep stops at a body in the map that has not expired, and every
  body behind it whose clock did not cross another's has a stamp at least as late.

`ConsoleProofs`, from `ConsoleAssumption` (finitely many agents, ordered as numbers so that a
batch has a next target; a cap on the ids of a log row of at least 1; command lines
that the client accepts, `AskOK`), `NoneAssumption` and the retention's.  One invariant,
`Inv`, kept by every action (`Invariance`):

- `Progress` and `Shares`: what a request has at each point of its handler; every target
  is still to come, has a task or was refused, and never two of these.
- `RowsOK`: a row is not older than its batch, so retention takes a row only when the
  batch is old; a success is remembered in `won`.  `ClientOK` is then about a client that
  polls: what it no longer awaits was won, or it will not exit with 0.
- `Traces` and `DenialKept`: the row of the log is at least as young as the effect (or
  lost), which the plain statement `EffectsTraced` does not say and needs: retention
  removes both by age.
- `Resolving`: while the groups are looked up, the memberships of now are among those
  seen since the request came, and those that lasted are memberships of now; a
  member that stayed is a target or in a group that is left over.

From it `TypeCorrect`, `TargetsAreMembers`, `DeniedTasks`, `ExitCodes`, `LogIsComplete` and the
action properties `EditsUndoOnlyUnseen` and `OrphansAreLateCancels`; the last needs only the
types and `Progress`, since a pass deletes results by what is left of the tasks.

Only model-checked:

- all liveness (`WatchedIsLeft`, `LiveIsLeft`, `EveryCallEnds`, `EveryReleaseComes`),
  which is outside the proof system.

`VerifiedStays` of `Download`, which overlapping downloads violate in `v_download_overlap`,
is no theorem without overlap either.  With sources `<<a>>` and `<<a, b>>` and two
connections TLC finds a behaviour in which the handler of a superseded session
holds the verdict on the first download, a reaper settles that, the second
download starts on the new connection and opens the `.part` file, and the late
verdict renames it: the second's next chunk is written into the target.

## 6. Not modelled

- Executable plugins: a process per hook, with nothing shared but the hook slots
  that `PluginHooks` has.
- Metrics: reports are stored as they come.
- Protocol frames and the generated protobuf code: stateless conversion.
- Of the CLI: reads, the transfer commands, flags, schema and output.
- Of the operation log: summaries, the actor, refusals of agents, the query.
- Peer credentials, TLS, configuration, logging, entry points.

`components` in `PROJECT.json` gives the status of each.

## 7. Plan

Done: the dispatch core and its refinement of the ledger, the release loop, the
assembler, transfers in both directions, plugin calls and the operator plane with
groups, operation log and retention, and the event store, all with proofs.

Next, in this order:

1. Shorter proofs: the lemmas that `UploadProofs` and `DownloadProofs` share belong in
   `TransferProofs`.
2. Two agents in `backlog`, once a cheaper view of the agent exists.
