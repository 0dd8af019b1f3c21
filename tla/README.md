# Box-Agent: a TLA+ model of the agent runtime

Box-Agent is a Python agent runtime: a host (the CLI, an ACP client, an SDK
program) prompts a session, a kernel loop asks a model, runs the tools that the
model calls, and reports events; every message is kept in a session log from which
an interrupted session is repaired and continued. These modules model the part of it
that is hard to get right by testing: what is on the disk when something happens, what a
crash leaves, and what tasks that run at the same time do to each other.

All sources below are under `src/box_agent/`; documents under `src/docs/` are
quoted as `docs/...`.

Contents: 1 inventory, 2 modules, 3 bounds, 4 what the runs check, 5 fairness,
6 proofs, 7 observations, 8 plan, 9 what is not modelled.

## 1. Inventory

| Component | State it keeps | Operations | Hard behaviour |
|---|---|---|---|
| Session log (`session_log.py`) | the JSONL file, its buffer, the Surface (the message list that replay gives), the writer lock | append, flush, append_unlogged_messages, replace_surface, replay, repair_interrupted_turn, prepare_resume, close | a crash at any record; a flush that fails; the repair of calls whose outcome is unknown |
| Turn and step driver (`agent.py`, `kernel/loop.py`) | the in-memory message list, turn and step position, cancellation | prompt, step, model response, tool step, compaction, end, cancel, abort | memory and log must agree at every boundary, on every way out |
| Tool messages (`kernel/tool_messages.py`) | none of its own | record_call, flush_calls, commit_result, the two cleaning passes | every call answered once, in what the provider sees |
| Tool engine (`tools/engine/`) | results of a step | serial and parallel invocation, skip, refuse, duplicate | write-ahead before side effects |
| Tool scheduler (`tools/engine/scheduler.py`) | the tasks of a batch, their event queue, two semaphores, the deadline | invoke_parallel, cancel, time out, drain, clean up | tools that ignore a cancellation, late results, semaphores freed by what was cancelled |
| Permission chain, broker, grants (`tools/engine/execution.py`, `run_control.py`, `tools/permissions.py`) | pending prompts with their futures, fallback tasks, grants | negotiate, respond, use_result_only, cancel | late, double and missing answers; a cancellation after an approval |
| Run control (`run_control.py`) | state, resume gate, cancelled flag | pause, resume, cancel, checkpoint | lost wake-ups; pause and resume around a checkpoint |
| Run event channel (`run_events.py`) | a bounded queue, sequence numbers, one lock, one asyncio.Event | publish, get, interrupt, close | a consumer that stops reading; several publishers |
| Run handle (`agent_run.py`) | runner task, result future, collector, drain task | events, result, send, publish, request_cancel, aclose | the run ends exactly once with the right result, whatever happens to its tasks |
| Injection (`injections.py`) | the queue, receipts per id, unfinished count | submit, cancel, apply_next, begin_run, end_run | retries, cancellation while an item is prepared, a history edit in between |
| Session history (`session_history.py`) | a view of the log | revise, effective_events | stale revisions, views of a torn compaction |
| Agent session and service (`agent_session.py`, `agent_service.py`) | who owns the run, how far its close is, the session's lock | run_events, start, aclose | closing from inside, from outside, twice, and while a run begins |
| Plugin host (`plugins/host.py`, `plugins/runtime.py`) | instances cached per scope, live records, rollbacks left over | activate, open_run, close_run, dispose_session, close | rollback of a half activated set; disposers that raise or are interrupted |
| MCP registry (`tools/mcp_loader.py`) | connections and the tasks that own them, epochs, definitions, credentials, the tool catalog | cold load, reconnect, disconnect, reconcile, credential change | all of them on one server at the same time; a transport that does not close |
| Browser pool (`tools/playwright_session_pool.py`) | one client per session key, their use counts, three locks, the reaper | lease, create, evict, warm up, switch mode, close one, reap, close all | the limit over awaits; a cancellation at any of them; a close while everybody works |
| Budgets, loop guards (`tools/engine/budget.py`, `loop_guards.py`) | counters per run | reserve, charge, guard | counters shared by parallel calls and sub-agents |
| Sub-agents, task registry (`tools/sub_agent_tool.py`, `task_registry.py`) | child runs | start, join, cancel | child events beside the parent's |
| Model clients (`llm/`, `retry.py`) | none that survives a request | generate, retry | an external service |
| Hooks, memory, todo, plan and goal tools, ACP and CLI adapters, skills, individual tools, viewers | see the notes in `PROJECT.json` | | |

How they interact. The host calls `AgentService.start`, which reserves the
`AgentSession` and makes an `AgentRunHandle` whose runner task iterates
`AgentSession.run_events`, which opens the run's plugins and iterates
`Agent.run_events`, which iterates `run_agent_loop`: one task, a stack of async
generators. The loop calls the tool engine; the engine's parallel batch runs
tools in tasks of their own. The runner publishes each event into the run's
channel; the host (or a private drain) reads it. The host acts beside the runner:
it pauses, resumes, cancels, injects messages, answers prompts, closes. Below the
tools are two services that outlive a run and are shared by all sessions: the MCP
registry and the browser pool. The plugin host is shared by all sessions of a runtime.
Everything runs on one asyncio event loop, so tasks interleave at awaits and nowhere
else; hence one action of a module is what a task does between two awaits. The session
log is written synchronously by the runner, into a buffer that `flush` brings to the disk
with fsync.

What makes each component correct is stated as the properties of section 4; what is hard
to test in each, line by line, is the list of hazards in `PROJECT.json`.

## 2. Modules

| Module | Models |
|---|---|
| `SessionLog` | the log as data: records, the Surface that replay gives, replacement, append_unlogged_messages, the repair, the two cleaning passes. Pure operators, no RECURSIVE. |
| `DurableTurn` | a session over its log: turns, steps, tool calls, compaction, cancellation, failing flushes, crashes, resume. EXTENDS `SessionLog`. |
| `DispatchContract` | what a tool may expect, in 30 lines: recorded on the disk, then entered, and a crash takes neither back. `DurableTurn` implements it. |
| `ToolScheduler` | one parallel batch: its tasks, semaphores, time limit, cancellation, grace period. |
| `Injections` | the injection manager, the runs that take from it, and a host that retries, cancels and edits. |
| `RunControl`, `RunChannel` | the control gate and the event channel of one run: their state and operations, without a specification of their own. |
| `RunHandle` | composes the two with the runner, a side publisher, the consumer and the host. |
| `PermissionBroker` | the prompts of one run, their fallback tasks and the grants. |
| `AgentSession` | one session, its runs, the callers of `start`, and two callers of `aclose`: the session's host and the runtime. |
| `PluginHost` | the plugin host with several sessions over it and the shutdown of the runtime. |
| `McpRegistry` | the connections to MCP servers and everybody who works on them. |
| `BrowserPool` | the browser clients of all sessions. |
| `DurableTurnProofs` (with the lemmas about `SessionLog`), `RunHandleProofs` (`RunHandle` and `PermissionBroker`), `InjectionsProofs`, `McpRegistryProofs`, `ToolSchedulerProofs`, `AgentSessionProofs`, `PluginHostProofs`, `BrowserPoolProofs` | lemmas and theorems. |
| `MC...` | instances for TLC. |

### DurableTurn and SessionLog

`events` is the whole log as the process sees it, `durable` how much of it is on the disk,
`live` the message list in memory. A record carries its type, and for a surface message the
message with `op` (append, or replace from the start); `surface` in a record is the Surface
after it. The code folds the log whenever it replays; the model keeps the fold's value with
each record. `ReplayedSurface` is the fold itself, a recursive function over the records, and
`SurfaceIsReplayAlways` proves that the two always agree. `stage` is where each call of the step is
(declared, recorded, entered, done, answered...), `pc` where the driver is. `Flushed` is
append and flush: it may fail, and then the log is closed as the code does; a process
killed inside a handler is a failed flush followed by `Crash`. A turn begins in two steps:
`AddUserMessage` flushes the message of the user, and takes it back from memory when that fails,
then `StartTurn` writes turn/start, which is flushed with the first step. `BeginStep` may follow an
answer whose step has not ended, as when a message is injected during the completion checks. Between
the cancellation check and the tool the code awaits other checks (see `ToolScheduler`); they
touch nothing that this module has, so that `Invoke` is one step here.

`Crash` keeps the durable records and, of the rest, nothing or everything
(`TornWrites = FALSE`), or any prefix (`TornWrites = TRUE`). The first is a
process that is killed while its 8 KB buffer has not spilled; the second a spilled buffer or a
machine that loses power. `Resume` is `open` with its repair.

Left out: the text of messages, images, hook and audit records, goal, todo, plan and skill
records, history revisions, the writer lock. A provider never reuses a call id
(`asked`).

### ToolScheduler

`task` is where the task of each call is: ready, holding the slot of the batch
(`slot`), awaiting the checks of `invoke_tool_once` (`checking`: the capability gates and the
chat references, after which nobody asks again whether the run is cancelled), running the tool,
or ended in one of five ways. `entered` and `came` remember whose tool was invoked, and whose
had returned before the batch reported. A task that was told to cancel is in
`asked`, and in `cancelling` until the CancelledError is delivered; a tool
may swallow it, return late, or never. `at` is the batch: polling (`loop`), suspended
at a yield, draining the queue of events, in the grace period, reporting, in the
`finally`. `expired` is the deadline and `isCancelled` the run's cancellation, which the
batch sees when it polls. `Abandon` is the consumer closing the generator, or being
cancelled, at any await. The results themselves are the ways a task can end.

Left out: `invoke_serial` (its `finally` waits for a cancelled tool without limit) and the
serial tool with events, whose one task is a batch of one without semaphores.

### Injections

A run that the SDK hosts: the manager is the session's own queue. Each accepted submission gets a
number, which only properties read. `Accept` is `submit` with its lookup in the history; a duplicate
or a conflicting retry changes nothing and is a stutter. `Take`, then `Adopt`, `Withdrawn`, `CommitFails` or
`PrepareFails` are the two halves of `aapply_next` around its await. `Revise` is a history
edit, `Restart` a new process over the same log. The lookup finds what is in the log: no
compaction of that log was torn by a crash (see section 7).

### RunControl, RunChannel, RunHandle

`asyncio.Event.set()` wakes every task that waits at that moment, for good, even if the
event is cleared before it runs: so the channel's event is the set `asleep` of tasks that
wait, and the gate's is the flag `gateWoken`. A publisher that waits for capacity holds the
lock: `pending` is its envelope. The side publisher is the permission prompt of a sub-agent
that a parallel batch runs in its own task; its failure to deliver cancels the runner
(`SideFails`). `killed` is a `task.cancel()` that is not delivered yet. The agent's generator
is a task that yields events, ends, raises, or waits in a checkpoint; it does not
swallow a CancelledError, and its DoneEvent is its last event. The DoneEvent has one of the
four `Verdicts` to which the collector maps its `stop_reason`, whether the run was cancelled
or not; one without a `stop_reason` sets no result and is an event like any other. Serialization errors are
the same path as an event that is too large (`Refused`).

### PermissionBroker

Its specification is named `BrokerSpec`, and none of its names is one of `RunHandle`'s.
One request per `negotiate()`, with a fresh id. `stage` is the await it stands at; `fallback` the task
that calls the host's callback. The host answers when it has seen the prompt, as often as
it likes. A grant is the pair of the request and its lifetime; whether GrantStore accepts the path
of a request is not modelled (a refusal of the store is a denial), nor is a broker without a
store, which only approves one-shot safety requests.

### AgentSession

`stage` is where the runner of the current handle is, from the task that has not begun to the two
closes at the end of `run_events`. `runTask`, `driving`, `finished` and `external` are
the fields `_active_run_task`, `_run_driving`, `_active_run_finished` and
`_external_run_cleanup`; `stream` is the agent's generator and `held` the plugins' run.
`closer[c]` is the await at which an `aclose()` stands: its lock, the handle, the run's end,
the stream, the plugins, the process resources; the `"runtime"` closer enters
through the runtime's lock and closes the session from there, so that a session that
owns its runtime and the runtime close each other (`EnterRuntime`). `Prepare` and `StartPrepared`
are the two halves of `start()` around the await that reads the input. Only runs
driven by a handle are modelled.

### PluginHost

A record is a plugin and the session whose activation made it. `live` holds the records in the order
of creation, `cached` those in the process and session caches, `pending` the rollbacks of a
run that were interrupted, `blocked` the sessions whose close was. The host serializes its
operations under a lock, so `op` is the one in flight, with what it still has to create
(`plan`) or dispose (`todo`) and what it made. Factories fail (`FactoryFails`), give an instance
that is refused (`Invalid`), and disposers raise or are interrupted: the two differ, for an
interrupted disposer is called again, one that raised is not. `Only` is the list
comprehension by which the host keeps or picks some of its records in their order; what is
disposed is that list reversed (`Latest`).

### McpRegistry

A connection is a record with the configuration and the version of the credential it was built
from, and the phase of its owner's task. `epoch` is who may publish for a server; an
operation that finds itself replaced closes what it opened. `task[w]` is where a reconnect, a
disconnect or a reconcile stands, `loader` the cold load, which waits for all servers and
then publishes one by one. `Started` ends an attempt to connect well or badly; a wait for a
close ends by its timeout though the owner goes on (`NotDropped`, `StillOpen`, `Abandoned`).
`broken` is a transport whose close raised. `EditSource` and `SetCredential` are the world.

### BrowserPool

`clients` are the registered clients with their use count, `contexts` how many browser contexts
exist per session: the two differ while a client is opened and when its transport ends.
`holder`, `session[k]` and `firstCall` are the condition, the locks per session and the
lock of first calls. `pc` follows one caller through `_lease`, `_create`, `_warm_up`,
`_discard_terminated`, `set_browser_mode` and `_close_session`; it may be cancelled at
each await. The reaper and `close_all(final=True)` run beside the callers. Left out:
`invalidate()` and a `close_all()` that is not final, which the program does not
call, and so the generation numbers.

## 3. Bounds

| Run | Bounds | Distinct states |
|---|---|---|
| `durable_turn` | 2 calls, 2 turns of 1 step, 1 compaction, 1 crash, 1 failed flush, all-or-nothing crashes | 165,081 |
| `durable_turn_live` | 2 calls, 1 turn of 2 steps, 1 crash, 1 failed flush, torn crashes | 26,882 |
| `not_started_after_torn_compaction` | 2 calls, 1 turn of 2 steps, 1 compaction, torn crashes | stops at the counterexample |
| `tool_scheduler` | 3 calls of which 2 are web searches, 2 slots, 1 search at a time, a time limit, 1 event | 601,633 |
| `injections` | 3 ids, 2 contents, 3 submissions, 2 runs, 1 edit, 1 restart, 1 failure | 305,808 |
| `run_handle` | channel of 2 events and 3 bytes, events of 1, 2 or 4 bytes, 2 events and a DoneEvent with any verdict, 1 prompt, 2 pauses | 236,512 |
| `permission_broker` | 2 requests, one of which offers no grant for the session | 24,696 |
| `agent_session` | 2 starters, 2 closers, an owned runtime, 3 runs, 3 faults | 18,036 |
| `owned_runtime_not_retried` | 1 closer, 1 run, 1 fault | stops at the counterexample |
| `plugin_host` | 2 sessions, 1 process, 1 session and 2 run plugins, 2 interrupted disposers | 32,151 |
| `mcp_registry` | 1 server with 1 configuration, 1 caller beside the reconcile and the cold load, 2 connections, 1 credential change | 359,508 |
| `browser_pool` | 2 callers, 2 sessions, 1 client, 2 modes | 465,118 |

Two calls are the smallest batch with one call answered and one not; two turns are enough for a
turn over what a repaired one left; two steps with compaction and two turns together exceed a
million states, hence two runs. Three calls fill both semaphores of a batch and leave one that
waits for each. Three injections are needed to see that cancelling one keeps the
order of two others. A channel of two events is full while another publisher arrives, and an
event of 4 bytes is one that never fits. Two pauses are needed to pause again
between a wake-up and the checkpoint that it woke. Three faults let both closes of a session be
interrupted and one be tried again. Two sessions share the process plugin; two run plugins
are what a rollback can stop between, and two interruptions hit a rollback and the close after it.
All hazards of the MCP registry are those of several operations on one server; they share
nothing between servers but the cold load. With one client two sessions already compete for it; the
theorems of section 6 hold for every limit. Sessions may stop once the bounds are used up,
and a host need not call anything, so deadlock is not checked; the liveness properties
say what must go on.

## 4. What the runs check

`durable_turn`
- `HonestNotStarted`: the repair says TOOL_NOT_STARTED only of a call that was never entered.
- `RequestWellFormed`: a request to the provider has every call answered, and no answer without a call; it is on the disk, and the log replays to it.
- `IdleIsDurable`: an idle session has everything on the disk and no open turn, and its log replays to the messages in memory.
- `DurableNeverLost`: no step, a crash included, changes what was flushed.
- `ImplementsContract`: refinement of `DispatchContract`.

`durable_turn_live`, when a crash may keep any prefix
- `WriteAhead`: a tool that was entered has its tool/call record on the disk.
- `TurnEnds`: every turn ends; `Recovers`: a crashed session can be prompted again.

`tool_scheduler`
- `NothingStartsLate`: no tool is invoked once the batch has stopped, timed out or been left, though semaphores are released just then; and a call that waits for its turn when the run is cancelled is never invoked. One that awaits its checks at that moment may be, until the batch next polls: the code looks at the cancellation before the checks only.
- `ReportIsTrue`: a call is reported with a result exactly when its tool had returned it, also after cancel(); the report stays true of the others whatever their tasks do later; and an error that ends the run is never hidden in one.
- `BatchEnds`: a batch with a time limit ends whatever its tools do, and everything left behind was told to stop.

`injections`
- `OnceInOrder`: no accepted message is twice in the conversation, whatever is retried and whatever a restart forgets, and messages reach it in the order of their acceptance.
- `CancelHonoured`: what was withdrawn (by a cancel or an edit) is never injected later.
- `ReceiptsTruthful`: receipts, the queue, the count that `join` waits for and the conversation agree.
- `Settles`: nothing stays pending after its run.

`run_handle`
- `InOrder`: the consumer gets consecutive sequence numbers though publishers overlap; the channel keeps its limits.
- `PausedStandsStill`: a run that a host sees paused stands still.
- `SettledOnce`: a result is settled once; it says completed or waiting for the user only when the DoneEvent that says so is out; and what a published DoneEvent says, only an error of the run takes back, never a cancellation.
- `RunEnds`: nobody waits for ever, unless the host leaves the run paused.

`permission_broker`
- `GrantIsTheHosts`, `CancelStands`: grants are the host's, and none after a cancellation.
- `NothingStillAsks`: a request that is over leaves no callback behind that still asks.
- `Settles`: in a result-only or cancelled run every request ends.

`agent_session`
- `ClosedByOne`: the stream and the plugins of a run are closed by one task, and nobody drives the stream meanwhile.
- `ClosedIsQuiet`: when `aclose()` has returned nothing of a run is left, and none begins, not even the run of a `start()` that was waiting for its input.
- `HandleStands`: a handle is replaced only when its run is over.
- `ClosersReturn`: every `aclose()` returns or raises, though the session and its runtime close each other.

`plugin_host`
- `RunsFirst`: no instance is disposed under a run's resource that was built on it.
- `ClosedIsEmpty`: a session that reports to be closed left nothing.
- `OneInstance`: an instance is not built twice on the same cache.
- `ShutdownEmpties`: whatever raised or was interrupted, closing again empties the host.

`mcp_registry`
- `CatalogLive`: what the catalog shows is the one live connection of the server.
- `NoOrphan`: every connection that runs is registered, or somebody is about to publish or close it.
- `FreshWhenPublished`: what is published was built with the definition and the credential of that moment.
- `RevokedIsDown`: when a reconcile answers that a server is gone, nothing of it is up or on its way.
- `RefreshEnds`: no server is marked as refreshing for ever, and the cold load ends, though transports may never close.

`browser_pool`
- `WithinLimit`: at most `max_clients` contexts exist, those being opened and torn down included, and none without an owner.
- `InUseStays`: a client in use is not closed by anybody but its user or the final close.
- `Settled`: after the final close nothing is left and nothing comes back.
- `CloseAllEnds`: the final close ends.

Two runs expect a violation, each of a sentence in the documents.
- `not_started_after_torn_compaction`: `replace_surface` writes one record per message. A crash that tears a compaction apart leaves the assistant message without the result of its call, and the repair declares a call that ran TOOL_NOT_STARTED (`docs/SESSION_LOG_FORMAT_CN.md:981-982` reserves that for calls without a tool/call record). `HonestNotStarted` and `ImplementsContract` therefore hold only without torn writes; `WriteAhead` holds with them.
- `owned_runtime_not_retried`: a session closes the runtime it owns only if nobody has begun to (`agent_session.py:484`). After an interrupted close the runtime stays half closed, and the next `aclose()` of the session skips it and returns (`docs/AGENT_SESSION.md:99-100` says that what was interrupted remains for it).

## 5. Fairness

Every fairness condition is weak, and stands for the event loop that runs what is ready, or a timer that fires.

- `DurableTurn`: the process runs its loop and its tools, and is restarted after a crash (`Resume`). Tools return. Crashes, failures and cancellations are not fair.
- `ToolScheduler`: the batch polls, its timers fire, its consumer asks for the next event. Nothing makes a tool return or heed a cancellation.
- `Injections`: a run goes on (`Boundary`, `Take`, `Adopt`) and ends. The host is not fair.
- `RunHandle`: the event loop runs every ready task, timers fire, the private drain reads. Nothing makes a host resume a run or a consumer of `events()` read on, so `RunEnds` exempts a run that is left paused.
- `PermissionBroker`: ready tasks run; publishing a prompt ends (the drain reads, or the timeout fires); the host's callback returns or lets itself be cancelled, with an answer or without. That it returns is what `docs/design/shared-runtime/T3.md` asks of a host.
- `AgentSession`: ready tasks run, and the closes that plugins and streams implement end. Nothing makes a run end by itself: the closers have to.
- `PluginHost`: the operation in flight goes on, runs end, and whoever shuts the runtime down closes its sessions and calls again what raised (as `docs/AGENT_SESSION.md:99` tells hosts to); disposers are interrupted a bounded number of times.
- `McpRegistry`: connecting ends by its timeout, and so does every wait for a close. That a transport ever closes is not assumed.
- `BrowserPool`: each await of the pool ends by a timeout of its own (connecting, the cleanup of tabs, the warm-up, the call). A free lock is taken by somebody; no fairness among the waiters is needed, because a closed pool opens nothing.

## 6. Proofs

The proofs hold for every value of the constants: any number of calls, tasks, sessions and runs, any limits. The modules state their assumptions on constants by name (bounds are natural numbers, sets of actors that are counted are finite, the names of the pool's own tasks are not those of callers).

`DurableTurnProofs` begins with the operators on logs of `SessionLog`: they return logs, and each of them only ever continues the log it is given (`ContinuesAppend`, `ReplaceSurfaceContinues`, `RepairedContinues`...); what each does to the open turn, to the pending calls and to the messages; and what holds of every prefix of its log, since a crash may leave that. The theorems:
- `TypeCorrect`: `Spec => []TypeOK`, one lemma per group of actions.
- `FlushedIsForever` (`DurableNeverLost`): every step continues the log, and a crash keeps at least the durable part; hence no flushed record changes.
- `RecordedBeforeEntered`: `WriteAhead` is not inductive, for it says nothing of a call that is about to be entered. `IInv` adds that a call that is ready has its record in the log, and that the log is flushed wherever the driver can enter a call. The parallel batch is the interesting case: its records are written one by one and flushed together, so `ReadyRecorded` asks for a record on the disk where calls are entered (`pc = "tools"`) and only for one in the log while the batch is being written (`pc = "batch"`).
- `WriteAheadHolds`: from `IInv`.
- `TurnsAreBuilt`, then `IdleIsDurableAlways` (`IdleIsDurable`) and `SurfaceIsReplayAlways`: `IdleInv` says that the log carries the live message list, except between turn/start and the first step, where the list is being mended; that it is well built (each record's Surface follows from the one before); and that a turn always has messages, the user's first. The last is needed because a replacement writes one record per message: an empty list would write none, and leave the old Surface in the log.
- `CallsAreTracked`: `CallInv` relates the calls of the step (`stage`), the calls the list still waits for, the calls the log has pending, and the ids that were used. It holds for every kind of crash.
- `LogMayEndHere`, then `NotStartedIsTrue` (`HonestNotStarted`), `RequestsAreWellFormed` (`RequestWellFormed`): what a repair does depends on where the crash cut the log. `CutInv` says that the log as it stands, and as far as it was flushed, both end at a good place: if a turn is open there, what its log has pending is what the Surface waits for, with its tool/call record where the repair looks for it, and the messages ask and answer in order and tell the truth. `HonestCall` is the truth: a call that is said not to have started was used up without a record and without being entered.
- `ContractIsKept` (`ImplementsContract`): each step maps to a step of `DispatchContract` or to a stutter.
- The last four assume `TornWrites = FALSE`. Torn writes make them false, as the run `not_started_after_torn_compaction` shows. The assumption has a configuration that the runs check, and it is the crash of a process whose buffer has not spilled. The other theorems hold for both.

`RunHandleProofs`
- `AlwaysInOrder` (`InOrder`): a publisher that waits for room holds the next number and waits alone, because `publish()` keeps its lock over the wait.
- `AlwaysPausedStandsStill` (`PausedStandsStill`): the control's state and its gate agree in every state, and a run that is paused is at its gate, or over; the property is inductive with the types.
- `AlwaysSettledOnce` (`SettledOnce`): `SettleInv` says what is settled, collected and published at each place of the runner: while it is under way the collected result is the verdict of the DoneEvent that was published, and there is one at most.
- The last part is about the broker that a run owns: the module extends `PermissionBroker` too. The two models share no state, and each part is about its own specification. `HostDecides`, `NoGrantAfterCancel`, `NobodyAsksAfterwards` (`GrantIsTheHosts`, `CancelStands`, `NothingStillAsks`): `BrokerInv` adds to `GrantIsTheHosts` that an approval in a future is the host's, and that a granted request has left `negotiate()`'s wait, so that no later response can replace its answer; a callback is alive only while its request is at an await that ends it.

`InjectionsProofs`
- `AlwaysOnceInOrder`, `AlwaysCancelHonoured`, `AlwaysReceiptsTruthful` (`OnceInOrder`, `CancelHonoured`, `ReceiptsTruthful`): an item is queued, being prepared, or in the log. The invariant orders the three places by the numbers of the submissions, keeps their ids apart, and ties receipts and withdrawals to them. `cancel()` empties and refills the queue; what it keeps is a recursive function (`Kept`), about which the first part proves that it is the queue without the item, in the same order.

`McpRegistryProofs`: one inductive invariant, `Inv`, for all of `CatalogIsLive`, `NobodyIsOrphaned`, `PublishedIsFresh` and `RevocationHolds` (`CatalogLive`, `NoOrphan`, `FreshWhenPublished`, `RevokedIsDown`). TLC found it to hold on the run of the registry, and in long random behaviours with two servers, four connections and two callers, before it was proved. Its parts:
- a connection is in one pair of hands (`Exclusive`), and what those hands are doing says in which phase it can be (`HandsOK`, `Phased`);
- `Turn`: whoever still has the epoch of a server and may publish finds nothing registered there. This is why a host's disconnect needs no lock: it takes the epoch, and a reconnect that is overtaken gives up at its next step;
- `Fresh`: whoever still has the epoch works with the definition and the credential of the moment, since a change of either takes the epoch away;
- `LockOK`, `Quiet`: who is inside the lock holds it, and while a revocation waits nothing of its server is up in the registry, since only reconnects publish and they are locked out.
- The module assumes that the owners of epochs can be told from each other and from none, as the integers of the code can.

`ToolSchedulerProofs`
- `TypeCorrect`, `WaitersAreDoomed`: `SchedulerInv` says that in a batch that has stopped each task that still waits for a semaphore or for its checks has an undelivered cancellation, so that the slot it is given is of no use to it.
- `NoneStartsLate` (`NothingStartsLate`): its first part follows from that, its second from `KeptOut`, which no step leaves.
- `ReportsAreTrue` (`ReportIsTrue`), by `ReportInv`: before the report nothing is said of a call and `came` is what has returned; a batch that will not wait has told all its unfinished tasks to stop; and what is said of a call is what its task ended with, or that it had not.

`AgentSessionProofs`
- `FlagsAgree`: `SessionInv`, the agreement of the session's flags with where its runner and its closers are; each conjunct is a flag that some check trusts. TLC checked it before it was proved.
- `OneTaskCloses`, `ClosedStaysQuiet`, `HandlesStand` (`ClosedByOne`, `ClosedIsQuiet`, `HandleStands`).

`PluginHostProofs`: one inductive invariant, `Inv` (`EveryRecordIsOwned`), for all three properties: `InstancesAreOne`, `RunsAreFirst`, `ClosedLeavesNothing` (`OneInstance`, `RunsFirst`, `ClosedIsEmpty`). TLC found it to hold on the run of the host, and with two plugins of each scope, before it was proved. None of the three is inductive, since each depends on who may still dispose or create what. The parts of the invariant:
- `Owned`, `Books`: each run record belongs to its run, to what a failed run left to its session, or to the activation in flight, and what is left to a session blocks its next run. Hence a run opens only when no run record of its session is live, and the new ones cannot repeat an old one;
- `Members`: what can be live at each stage of a session. A record of the session stays cached from the end of its activation until it is disposed, so that the close finds it;
- `Providers`: a session that is prepared or open, or has a run record left, has every provider in the caches, and none of them is of the activation in flight. A run's activation therefore creates run records only, and its rollback takes no provider away;
- `Activating`, `Making`: what an activation has made is what it has done of its plan;
- `Disposals`, `Targets`: what each disposal is after, and that it gets all of it unless a disposer is interrupted. This is what lets the session be reported as closed: a disposer that raises is recorded and done with, an interrupted one leaves its record.
- `Only` is a recursive function; `OnlyOf` proves what it returns: the elements of the list that are in the set, none repeated if the list repeats none.

`BrowserPoolProofs`
- `ConditionGuards`: `PoolInv`. Two locks carry the pool. Whoever opens or closes a client holds the condition until the client is registered or gone, so the count that was read when it was taken still stands; and the session lock keeps two tasks from working for one key, so that the key for which a client is opened has none.
- `LimitHolds` (`WithinLimit`): each context belongs to a registered client or to the one being opened, of which there is at most one while the registry is not full. This is the one place where cardinalities are counted.
- `ClosedForGood` (`Settled`): the final close takes the condition once more when the registry is empty, so nobody is opening; and a closed pool opens nothing.
- `UsersAreLeftAlone` (`InUseStays`): `Counted` says that the use count of a client is the number of its users, one or none, since a user holds the session lock; who closes to make room, or reaps, looks at the count under the condition.

Recursion and induction. The theorem of induction takes a predicate as its parameter, which the provers do not instantiate. The proofs about the three recursive functions, `Kept`, `Only` and `ReplayedSurface`, therefore argue with sets of natural numbers: induction over a set (`SetInduction`) or the least counterexample (`LeastNumber`), both from the well-foundedness of `<`, after a construction of the function that meets the recursive equation (`RecursionExists`; for `ReplayedSurface`, the Surfaces that the records carry).

Only model-checked: all liveness, since the prover has no fairness and no ENABLED: that turns, runs, batches, prompts, refreshes, closes and shutdowns end. Every safety property that a passing run checks, invariant or action property, is also proved. The `TypeOK` of a module says what its variables range over; it is not a run's property.

## 7. Observations

Met while modelling, without a run of their own: either they need a part that is not modelled, or they are choices rather than errors.

Session log and history
- With torn writes, a cancelled step that removed its assistant message by a replacement, and lost its turn/end, makes the repair answer the removed calls (`session_log.py:1424`), and a half-written replacement is neither the old nor the new Surface (`session_log.py:1129`); `docs/SESSION_RECOVERY_HANDOFF_V2_CN.md:397` and `:525-528` say otherwise. `DurableTurn` shows both with `TornWrites = TRUE`.
- `history_messages` (`session_log.py:1024-1038`) hides every message after a compaction/summary until the compaction/end. The repair closes no compaction, so after a crash between the two all later messages stay hidden; a retried injection id is then not found after a restart (`injections.py:140`), though `docs/ACP_PROTOCOL_CATALOG_MAIN_CN.md:219` and `:223` promise that it is recognised.

Permissions
- In a result-only run, cancelling the broker cancels the fallback task that `negotiate()` awaits (`run_control.py:186-188`), so the caller sees a CancelledError where a run with an event consumer sees a denial. Both end the request without a grant.

Session and plugins
- `start()` with user input awaits between its ownership check and the reservation; a session closed meanwhile still gives out a handle, whose run fails at once (`agent_service.py:115`, `docs/AGENT_SESSION.md:173`).
- When a disposer raises in the cleanup of a run, `_run` stays set though nothing is left, and the session refuses every later run; `docs/AGENT_SESSION.md:101` calls such a failure terminal for the callback, not for the session.
- A session or process record whose rollback is interrupted stays only in `_live_records`, until `host.close()`; `_dispose_records` goes on to the dependencies of a record whose disposer was interrupted. `RunsFirst` is about run records, for which the code takes care.

MCP
- The comment at `mcp_loader.py:1554-1555` says that no replacement starts beside a connection that is being cleaned up; after a disconnect whose wait ran out (2069-2077) a reconnect (2968) does. Hence `CatalogLive` counts registered connections.
- A connection whose close raised once keeps its server from being connected again; after a credential change that superseded a reconnect the status may stay "connected" although nothing is; a reconnect of a disabled server sets "disabled" without dropping a live connection.

Browser pool
- A wait for room that runs out raises without looking again (`playwright_session_pool.py:384`), and a cancelled warm-up lets go of its client without a notification: BROWSER_SESSION_LIMIT is then reported though an idle client could be evicted; `docs/DEVELOPMENT_GUIDE.md:160` says that it means every context is busy.
- `close()` forgets the session's mode before it waits for the condition (603). Cancelled there, it leaves a client in the other mode, recorded as the default.

## 8. Plan

Done: the log and the turn, the parallel batch, injection, the run handle, permissions, the session's ownership and close, the plugin host, the MCP registry, the browser pool.

Next modules, in this order:
1. `SessionHistory`: revisions, `effective_events`, and `history_messages` over a torn compaction, composed with `Injections`.
2. The permission chain with its retry limit; the budgets that parallel calls share.
3. The writer lock: two processes that open one session.
4. `invoke_serial` and the serial event tool, beside `ToolScheduler`.
5. `McpRegistry`: `cleanup_mcp_connections`, scoped updates, the cancellation of a reconnect.

Next proofs: what the next modules promise. Of the present ones no safety property is left.

## 9. Not modelled, and why

The repository has some 139,000 lines in 398 implementation files. Most of them hold no concurrent or persistent state of the runtime: the ACP and CLI adapters translate between protocols and the runtime's calls; the Jupyter, shell, office and computer-use tools drive external programs; the memory system is text retrieval; viewers and skills are presentation and data. What they compute is string, number and file processing, for which unit tests are the better check, and there is no protocol in it for TLC to explore. The modelled components are the ones where tasks share state or a crash matters, and they are a small share of the lines.

Model clients and MCP servers are external: only what they may answer is modelled. The path and shell analysis of permissions and the token arithmetic of compaction are string and number processing with direct unit tests. Hooks, todo, plan and goal records keep no state that the components above depend on. Of the MCP registry, the preparation of computer-use servers, the deferral of user credentials, scoped updates and the cancellation of a reconnect are left out; of the browser pool, `invalidate()` and a close that is not final. `PROJECT.json` has the reason for each component.
