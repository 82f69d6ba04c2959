# Formal models of the agent runtime

TLA+ models, TLC configurations and TLAPS proofs for the parts of this
repository whose correctness depends on the order in which things happen: the
driver of an agent and the agent's own life, the scheduler of its tool calls,
the path of session events through the write controller to the file, the way a
stored session comes back, what a crash may leave of it, and background tasks.
Paths below are relative to the repository.

Run `tlc -config X.cfg M` for a row of the table of runs, and `tlapm M.tla` for
each of the eight `...Proofs` modules.

## 1. Inventory

The runtime is a plugin system. Everything below runs in one JavaScript
process: one job at a time, but a job calls event listeners synchronously in
the middle of its work, and every `await` lets all other code run.

| Component | State it keeps | Operations | Interacts with | What is hard | What makes it correct |
|---|---|---|---|---|---|
| Agent driver, `packages/core/agent-loop/src/agent.ts` | `phase` (idle, maintenance, running with abort controller, turn, step, wake latch), locals of `turn()` and `step()` | `send`, `followup`, `steer`, `inject`, `cancel`, `runMaintenance`, `whenIdle`, the loop `kick`/`turn`/`preStep`/`step` | appends to the session; listeners decide pre-step, request, retry, rewrites and stopping; runs the scheduler | listeners re-enter `send` and `cancel` inside appends and notifications; a cancel in any await; wakes that arrive too late to be claimed | one driver; a cancelled turn says so and sends no request; no waking message is left behind |
| Inbox, `packages/core/agent/src/inbox.ts` | two ordered lists, mirrored by durable splices | `splice`, `append`, `replace`, `remove`, `clear`, `claim`, replay | the driver claims, everybody inserts | notifications between the parts of one operation | a message is claimed, discarded or pending, exactly one of them |
| Tool scheduler, `packages/core/agent-loop/src/tool-calls.ts` | cursors, slots, in-flight map, failure and abort flags of one group | `executeToolCalls`, `runGroup`, `commitReady`, `startCall`, `fillPool` | the tool registry prepares, dispatches and finalizes; the log records calls and results | results in any order, modes that change, cancel and failure while others run | results in model order, barriers, pool bound, every call answered |
| Session log, `packages/core/session/src/index.ts` | event list, projections, attachments | `append`, `truncate`, attach, detach, seed | publishes every event to listeners | appends are not reentrant; detach inside a publication | the log is a sequence of gap-free `seq` |
| Write controller, `packages/session/session-persistence/src/write-behind.ts` | pending queue, timer, active write, barrier, two flags | `enqueue`, `flush`, `cancelAutomaticWait`, the deadline, `startWrite`, `drainBarrier` | the coordinator appends its batches | deadline, failing write, flush and new events around the same microtask | nothing lost, repeated, reordered or stranded |
| Persistence coordinator, `.../coordinator.ts` | per id: cursor, owner, preparations, serialization chain; per live session: initialization and controller | `append`, `load`, `resume`, `truncateStored`, create, flush, retirement, adoption | backends; the session registry | initialization against live events, rewind against the controller, two sessions with one id | the stored log is a prefix of the live one |
| Preparations, `.../preparations.ts` | one entry per id with a phase (loading, ready, committing, reserved), its reservation and waiters, in LRU order | `inspect`, `reserve`, `attach`, `discard`, `release`, `invalidate`, `discardReady`, `assertWritable`, `takeReady` | the coordinator's prepare, load, inspect, append and publication | the log may change between the read, the reservation and the publication; entries go while others wait for them | a reserved Session is the stored log; nobody waits for ever |
| Checkpoint policy, `packages/session/session-checkpoint-policy` | none | listeners of `llm/stream`, `tools/execute`, `agent/pre-step` | `sessions.flush` before the effect | a crash at any point | what has taken effect outside is in the durable log |
| Lifecycle, `packages/core/agent-loop/src/index.ts` with the registries of `core/agent` and `core/session` | per attempt a fused abort signal, a memoized `dispose`, an effect on the owner's fiber; the factory's live agents and wrappers; one entry per id in each registry | `create`, `createAgent`, `resume`, handle `dispose`, unload of the owner and of the factory | prepares a Session, constructs the driver, enters and announces | several owners dispose while setup runs; a store that answers too late; two attempts on one id | a loser leaves nothing, a winner stays registered, every teardown ends |
| Log repair, `packages/core/session/src/repair.ts` | none | `interruptedTurnClosers` | the coordinator's load | any prefix of a log may be found after a crash | every open turn, step and call is closed once |
| Tool pipeline, `packages/core/tools` | registered tools and policies | prepare, dispatch, finalize, reload | the scheduler; guards, approval | reload and timeout between prepare and dispatch | a call runs under the definition that admitted it |
| Retry, `packages/llm/llm-retry` | durable attempts of a request | `agent/request-error` listener | the driver | cancel or crash during the delay | attempts stay within the policy |
| Log file, `packages/session/session-persistence-jsonl/src/index.ts` | the file, its size before a write, the coordinator's cursor and `materialized` | `appendBatch` (`materialize`, `appendLines`, `rollbackAppend`), `loadStored`, `commitRepair` | the coordinator's `create`, `append`, `prepare` | a failure or a crash between write, sync, close, link and directory sync | what was acknowledged is never lost; the file always loads; the cursor is the file's |
| Tasks, `packages/tasks/tasks-local`, `tool-tasks` | one record per task: status, `reported`, waiters; the owners' cleanups | `start`, `settle`, `wait`, `read`, `kill`, owner cleanup, `disposeAll`, the notice | producers, `task_output` calls under the tool registry's abort check, the agents' scopes | settlement, timeout, abort and teardown of the same task around one microtask | every outcome is told once; no task outlives its owner |
| Schedule, goal, subagents, workflow, compaction, approval | their own registries, partly durable | see `PROJECT.json` | wake agents through `send` and maintenance | late results, cancellation of the owner, restart | completion is reported once |
| Everything else (UI, client, host, adapters, files, processes, search, boot) | — | — | — | input and output | not in scope of these models |

`PROJECT.json` lists every package group under `components`, and every spot of
the modelled code that a test would hardly reach under `hazards`.

## 2. Modules

| Module | Models | State and actions |
|---|---|---|
| `AgentLoop` | `agent.ts` and the inbox operations it uses | `phase`, `abortReason`, `wakeRequested`, `turn`, `step` are the fields of `Phase`; `turnEnds`, `target`, `flow`, `reply` are locals; `pc` is the place in `turn()`/`step()` where control can be lost; `nextStep`, `nextTurn` the inbox |
| `ToolScheduler` | `tool-calls.ts` | the locals of `runGroup()` under their own names, with indices counted over the whole step; `calls`, `results` are the log |
| `ToolResults` | the promise of one step about its log (abstract) | `ToolScheduler` implements it by `recorded <- Len(calls)`, `answered <- Len(results)` |
| `WriteBehind` | `write-behind.ts` and the coordinator around one live session | the controller's fields; `timeouts` counts the timers that will really fire; `store`, `cursor` are the durable log and the coordinator's idea of it |
| `DurableLog` | the promise of persistence about one session (abstract) | `WriteBehind` implements it by `log <- 0..admitted-1`, `durable <- store` |
| `Rewind` | `truncateStored()` and `Session.truncate()` as the terminal UI calls them, composed with `WriteBehind` | adds `rewind` and `cut`; the session is otherwise quiet |
| `Preparations` | the pool of `preparations.ts` with the coordinator's `prepare`, `load`, `inspect`, `append`, `commitPrepared`, `adopt`, `attachPrepared`, `retire` | `entry` and `order` are the pool's Map, `chain` the promise chain of each id with the await its head is at, `states` the coordinator's cursors and owners; one record of `call` per caller |
| `CrashRecovery` | `repair.ts`, the log rules of `invariant.ts`, the checkpoint policy, and the events that driver and scheduler append | `log` is `Session.events`, `stored` its durable length, `mode` the process, `closers` what `commitRepair` still has to write |
| `JsonlLog` | the jsonl file of one session under the coordinator's `createCore`, `appendCore`, `commitPrepared` | `file` is its frames and `synced` how many a power loss keeps; `cursor`, `materialized` are `SessionState`; `op` is the append or repair and the file operation it is at |
| `AgentLifecycle` | `FactoryOwnership`, `prepare`, `create`, `createAgent`, `resume`, `dispose` of `agent-loop/src/index.ts`, the entries of both registries, the unload of a fiber | `step` is where an attempt is, `teardown` and `byOwner` the memoized `dispose(ownerTriggered)`, `follow` the effect on the owner's fiber, `tracked` the factory's `liveAgents` |
| `Tasks` | `tasks-local`, the tools and the notice listener of `tool-tasks`, the abort check of `dispatchToolBody` | `status`, `reported`, `waiters` are the record's fields, `call` where a `task_output` call is, `settling` the task whose listeners run |
| `ToolSchedulerProofs` | theorems about `ToolScheduler` | `IInv` and its parts |
| `WriteBehindProofs` | theorems about `WriteBehind` | `Ownership`, `Durability` and their parts; the refinement of `DurableLog` |
| `PreparationsProofs` | theorems about `Preparations` | `PoolInv` and its parts; what a step leaves to those it is not about |
| `AgentLoopProofs` | theorems about `AgentLoop` | `WakeInv` and its parts; `RevokedInv` |
| `JsonlLogProofs` | theorems about `JsonlLog` | `LogInv` and its parts |
| `CrashRecoveryProofs` | theorems about `CrashRecovery` | `RecoveryInv` and its parts; what an event does to a log that the repair can close |
| `TasksProofs` | theorems about `Tasks` | `ScopeInv`, `TellInv` |
| `AgentLifecycleProofs` | theorems about `AgentLifecycle` | `LifeInv`, `FactoryInv` |
| `MC...` | instances for TLC | none: the configurations give the constants their values |

### The call stack in AgentLoop

A listener runs in the middle of the operation that notifies it and may call
the agent again. `stack` holds the operations that are suspended in one of
their own notifications, innermost first. `send` is two steps (insert and
publish; then wake), `cancel` up to three (clear next-step, clear next-turn,
drop the latch and fire the signal), `kick`'s finally two (publish idle;
replay). While the driver runs synchronously its frame is on the stack; at an
`await` it is not, and the await is resumed only with an empty stack. Inside
`session.append` any call that would write the inbox throws, so it is
disabled there; `cancel` with an empty inbox is not.

A listener of the first discards of a `cancel` may send to the idle agent, which
starts a driver that claims from the inbox before the rest of it is discarded
and before the signal fires. The history `revoked` keeps what a `cancel` found
pending and has not discarded yet; `CancelTakesBack` says that none of it is ever
part of a step.

Returning from an awaited async function takes microtasks too, in which other
code runs: `decided`, `built`, `rewritten`, `stepReturned`, `betweenTurns` and
`exiting` are these places. `AbortIsReported` names the one where an abort goes
unseen: a rejected or empty decision that `preStep()` has already returned ends
the turn as `blocked` or `completed`. `ToolScheduler` has the same gaps after a
call was prepared (`StartReturns`) and after a round of commits (`CommitEnds`):
an outcome or an abort may arrive in them.

Left to chance: what listeners decide, whether an awaited call fails, what the
model answers, whether a retry is granted. Left out: contents of messages and
requests, and the failure of an append itself. The causes `parent` and `hook`
behave as `user` does.

### Microtasks in WriteBehind

A settled promise runs its reactions in later microtasks, so the end of a
write is three steps (`WriteStored` or `WriteFails`, `WriteFinally`, then
`ContinueAutomatic` or `DrainBarrier`), and producers and flushers run between
them. A timeout does not (`Quiet`). The backend is a transaction: a write that
rejects stored nothing. `JsonlLog` shows when the jsonl backend keeps this: a
failed write or sync is rolled back; a `close()` that rejects after the sync, a
rollback that fails and a directory that cannot be synced do not.

### Callers, the chain and the pool in Preparations

One caller makes one call, and a Session is identified with the caller that was
handed it. An operation on the chain moves from one of its awaits to the next,
and every other id, caller and signal may act between them. A stored log is its
revision, its length and whether it needs repair. `on` is the code's test that
the entry a caller started from is still the pool's. A read that fails is
possible at every await. Aborts are modelled where `observeQueuedAbort` stands:
a wait is given up at once, queued work is cut, started work runs to its end.

Another process may write a log that this coordinator does not track
(`ForeignWrite`): the persistence README excludes concurrent writers of one
session, but a log may have been written before it is opened here. A failed
retirement keeps its state with its owner, so the next `prepare` of that id is
rejected; the same README documents it. Creating a new session, listing,
`readFrom` and hot reload are left out.

### Crashes in CrashRecovery

A call is named by its turn, its step and its place in the answer. The driver
and the scheduler are reduced to the order in which they append and to the
barriers they pass; their own control is in `AgentLoop` and `ToolScheduler`.
A crash keeps any prefix of the log that is at least the durable one: the
outstanding write may have reached the disk in part. `Store` takes everything
appended so far, because a batch takes the whole queue; what is appended while
it is written waits for the next. `ran` and `asked` survive crashes: they are
what the outside world has seen. The policy guards
tool bodies and model requests alike; a runtime that does not mount it has no
such promise, as its README says.

### Files, faults and power in JsonlLog

A frame is one durable batch. With Zstandard frames and with plain lines alike,
a torn frame still yields its complete records, so a piece of a frame keeps any
number of its events. `PowerFails` keeps what was synced and any prefix of the
rest; a frame that was cut off without a sync may come back (`doubt`). `botched`
records a failure after which the code gives the session up: a `close()` after
the sync, a failed rollback, a failed sync of the directory. The properties
exclude it, and say nothing of the session until a new process loads the file.

`FsyncCommitsNames` is the one assumption about the file system: syncing a new
file makes its name durable, as ext4, xfs and btrfs do. Without it
`AckedSurvives` fails: a process that dies between `link()` and the sync of the
directory leaves a log that the next process loads and appends to, and nothing
ever syncs its name. The bytes of header and events, SQLite, Windows,
`deleteFrom` and listing are left out.

### Owners and fibers in AgentLifecycle

All attempts use one id, so that they compete for both registries. A fiber that
unloads runs each of its effects a microtask later and waits for what they
return (`Fiber._unload`), so an effect may run before or after any other step of
the unload. `prepare()` registers the teardown with the factory and with the
owner, then constructs the driver, which runs listeners (`createScope`); they may
abort, unload or throw. `Prepare` is this whole synchronous call: it constructs
(`Constructs`), or it fails (`ConstructionFails`), begins the teardown and rejects
the attempt without awaiting it. That attempt, and a synchronous `create()` that
fails, end as `thrown`: over for their caller while the teardown is still
tracked. `rejected` is an attempt that registered nothing, or whose rollback was
awaited. `dispose()` is three awaits: the driver comes to rest, its scope
unwinds, the owner's effect is unregistered. A setup may settle or fail at any
time; a listener of the announcements may throw, and may abort.
Startup agents of the configuration, forks and the tree of agents are left out.

### The registry under task_output

`settle()` calls its listeners between the record of the outcome and the release
of the waits: `settling` names the task meanwhile, and only an abort, which a
listener may fire, can happen. A call is over only after the abort check of the
tool registry, because that check decides what the model sees. `deaf` names
tasks that settle while `tool-tasks` is not loaded: the registry promises a
notice only to listeners that are there. The order of an agent's own teardown
(cancel, drain, scope) is that of `agent-loop/src/index.ts`.

## 3. Runs

| Run | Configuration | Shows |
|---|---|---|
| `agent_turns` | `AgentLoop_turns.cfg` | `LatchHonoured`, `NoSilentPark`: no waking message is left behind when the agent rests, except where the code accepts it; `OneDriver`; `AbortIsSeen`: a cancel in any await or listener is reported and no request leaves after it; `CancelTakesBack`: what a cancel finds pending is never part of a step; under fairness `CancelConverges`, `OwedWakeServed` |
| `agent_disposal` | `AgentLoop_disposal.cfg` | violation: a disposed cancel after a user cancel does not keep a wake from being latched |
| `tools_step` | `ToolScheduler_step.cfg` | every call answered, barriers, `GroupDiscipline` (cancel and failure start nothing more, nothing stays uncommitted), refinement of `ToolResults`, and termination under fairness |
| `write_durable` | `WriteBehind_durable.cfg` | `FlushIsDurable`, `BatchContinues` (a batch continues the stored log), `NoStrandedEvent`, refinement of `DurableLog`; every event becomes durable without an explicit flush, unless a failure pauses the automatic path |
| `rewind_stored` | `Rewind_stored.cfg` | violation: events that wait in the controller are stored after the rewind that removed them |
| `prepare_calls` | `Preparations_calls.cfg` | `ReservedIsCurrent`: what a caller holds is the repaired log at its stored revision; `NeverRefused`: its publication is not rejected; `OneHolder`; `AppendContinues`; with a second id that competes for the one slot `PoolBounded` and `NoOrphanWaiter`; `CallsSettle` under fairness |
| `crash_safety` | `CrashRecovery_safety.cfg` | `RepairIsValid` and `AnsweredInOrder` for whatever a crash leaves, also in the middle of a repair; `NeverRetryWhatRan` and `RequestsAreLogged`: the barriers of the checkpoint policy are early enough |
| `jsonl_append` | `JsonlLog_append.cfg` | `AckedSurvives`: an append that resolved survives process death and power loss at any step; `CursorIsStored`: the file loads and the cursor is right after failed and rolled-back appends; `EverythingStored`: a refused batch is stored in the end |
| `lifecycle_teardown` | `AgentLifecycle_teardown.cfg` | `RejectedLeavesNothing`: a failed attempt leaves nothing, or a teardown that is about to remove it; `PublishedIsRegistered`, `FactoryQuiescent`; `TeardownsEnd` under fairness, even if the store never answers |
| `lifecycle_owner` | `AgentLifecycle_owner.cfg` | violation: an owner that unloads does not wait for a teardown that its handle's `dispose()` began, in a factory that stays active |
| `tasks_notice` | `Tasks_notice.cfg` | `OutcomeIsTold`: no order of events swallows an outcome inside the registry; `FirstOutcomeStands`, `TeardownLeavesNothing`; `WaitsAndTeardownsEnd` under fairness, also with cancels that throw |
| `tasks_suppressed` | `Tasks_suppressed.cfg` | violation: an outcome whose notice a wait suppressed is thrown away with its aborted call |

Two exceptions are part of `NoSilentPark`, and are recorded in the history
variable `parked`: a message sent in the few microtasks between the
`hasPending` check and the idle status (the code's notes accept this window),
and one sent by a listener of the discards of a cancel, which the same cancel
then overtakes. Under disposal nobody runs what is pending.

### Bounds

| Bound | Value | Why it is enough |
|---|---|---|
| `NMessages` | 3 (2 for the disposal) | one in the turn, one parked or latched, one that races; each message is sent once, so turns are finite too. Messages are named in the order in which they are sent, which loses nothing: their names mean nothing |
| `MaxSteps` | 2 (1) | the second step shows stickiness and steering; later steps repeat it |
| `MaxDepth` | 3 (2) | a send inside a cancel inside a driver notification |
| `NCalls`, `MaxParallel` | 4, 2 | a full pool, a barrier behind it and a call left over; the proofs cover every value |
| `MaxEvents`, `Callers` of `WriteBehind` | 4, 2 | a failed batch, its successor, an event during the barrier and one after it; one caller opens and one joins |
| `Callers` of `Preparations` | 3 | one holds, one waits or inspects, one invalidates by an append |
| `Ids`, `Home`, `Capacity` | 2, 1 | calls conflict on one id, `Home`; the second is only inspected, which is enough to evict |
| `MaxForeign` | 1 | one rewrite makes a source stale; the coordinator retries as often as it is rewritten |
| `MaxTurns`, `MaxSteps`, `MaxCalls` of `CrashRecovery` | 2, 2 in all, 2 | a crash in a second turn and in a second step; two calls in flight, one ahead of the other; the proofs cover every value |
| `MaxCrashes` of `CrashRecovery` | 2 | the second may cut the repair of the first, or lose the resumed turn; the proofs cover every number |
| `MaxEvents`, `MaxFaults`, `MaxCrashes` of `JsonlLog` | 5, 3, 3 | a first batch, a torn one, its repair and a successor; a failed write with a failed retry; a crash, one in its repair, one after |
| `Attempts`, `Owners` | 2, 1 | two compete for the id; the proofs cover every number |
| `Tasks`, `Agents`, `Calls`, `Ends` | 2, 1, 1, one outcome | one task obeys and one throws in the same teardown; which outcome a producer reports decides nothing; the proofs cover every number |

Deadlock is checked where the system goes on forever. A scheduler ends its
step, a rewound session is quiet, callers of `Preparations` make one call each,
sessions, attempts and tasks run out, so those configurations switch the check
off.

### Fairness

- Synchronous code and microtasks run on; the event loop guarantees it.
- An awaited call settles, and so does a maintenance task: tools and providers
  are expected to obey the abort signal, and the code itself waits for them
  without a timeout. `AgentLifecycle` assumes it only of a driver that was
  cancelled, neither of the store nor of a setup that was not aborted.
- Initialization, backend writes and file operations settle, timers fire.
- `AgentLoop` and `Preparations` state one weak fairness: something that can go
  on does (and whoever holds a prepared Session publishes or releases it, by
  `using` in the lifecycle code). Which of several goes first stays open. An
  adversarial order of microtasks could let two *prepares* with one slot evict
  each other's entry for ever; the second id of `prepare_calls` is inspected
  only.
- A batch that was refused is tried again (`JsonlLog`): the write controller
  keeps it in front of the queue for the next event or flush.
- A producer whose `cancel()` returned settles: the contract of `TaskHooks`. The
  code says that a teardown may stall on one that does not.
- Nobody has to send, cancel, flush, call, unload or settle in favour of the
  driver; a request may be retried forever unless it is cancelled, so no run
  claims that a turn ends by itself.

Liveness is mostly of the form `[]<>P`: what may begin again must again and
again be over. Where each operation happens at most once (`CallsSettle`,
`TeardownsEnd`, `WaitsAndTeardownsEnd`) this says that each one ends.

## 4. Proofs

| Module | Properties of the runs it proves for every value of the constants | Also |
|---|---|---|
| `ToolSchedulerProofs` | `EveryCallAnswered`, `ExclusiveAlone`, `FailureIsClean`, `GroupDiscipline`, `ImplementsContract` | order of the log, pool bound |
| `WriteBehindProofs` | `NoStrandedEvent`, `FlushIsDurable`, `BatchContinues`, `ImplementsDurableLog` | one timeout, one write |
| `PreparationsProofs` | `ReservedIsCurrent`, `NeverRefused`, `OneHolder`, `AppendContinues`, `NoOrphanWaiter`, `PoolBounded` | `PoolInv` |
| `AgentLoopProofs` | `LatchHonoured`, `NoSilentPark`, `OneDriver`, `CancelTakesBack`, `AbortIsSeen` | `WakeInv` |
| `JsonlLogProofs` | `AckedSurvives`, `CursorIsStored` | `LogInv` |
| `CrashRecoveryProofs` | `RepairIsValid`, `AnsweredInOrder`, `NeverRetryWhatRan`, `RequestsAreLogged` | `RecoveryInv` |
| `TasksProofs` | `OutcomeIsTold`, `FirstOutcomeStands`, `TeardownLeavesNothing` | |
| `AgentLifecycleProofs` | `RejectedLeavesNothing`, `PublishedIsRegistered`, `FactoryQuiescent` | |

Each module also proves the types of its component. Every theorem follows the
same argument: an inductive invariant, one lemma or step per action, and the
property from the invariant. The invariants were checked by TLC on the instances
of the runs before they were proved.

### ToolScheduler

`ToolSchedulerProofs` proves, for every number of calls and every pool size,
each safety property that `tools_step` checks, the order of the log
(`LogInModelOrder`), the pool bound (`PoolIsBounded`), that a group leaves no
settled call uncommitted (`GroupLeavesNothing`), and that `ToolScheduler`
implements `ToolResults`. The only assumption is
`SchedulerAssumption` (both constants are positive).

None of the invariants is inductive alone. `IInv` joins the type invariant
with

- `CursorInv`: `committed <= started`, and `nextToStart` is the next call
  except while a call is being prepared;
- `GroupInv`: what is in flight lies in the group and was started under the
  group's mode;
- `SlotInv`: a started and uncommitted call is in flight or has its outcome in
  its slot, unless a failure was recorded; once `commitReady()` has returned, a
  call that could be committed is still in the in-flight map, so the next round
  of the race commits it;
- `FlagInv`: while the pool is filled the local abort flag is up to date and no
  failure is recorded;
- `LogInv`: the log is as long as the cursors say;
- `PoolInv`: the bound, with room for the call being prepared.

`Step` has one case per action and one leaf per part of `IInv`. An empty pool
with uncommitted calls is refuted by `SlotInv`, which is why the `throw` for
uncommitted calls is unreachable (`GroupLeavesNothing`) and why a group that
was aborted can skip from `started` on.

### WriteBehind

`WriteBehindProofs` proves, for any number of callers of `flush` and any bound
on the events, that the timer field names the only armed timeout
(`TimeoutsTracked`), that queued events always have an owner (`EventsOwned`) and
that no write starts over another (`WritesAlone`). The only assumption is
`EventsAssumption` (the session has at least one event). `NoStrandedEvent` is
not inductive: an active write owns the queue only if its end leads to another
write. `OwnedInv` therefore demands that a deadline has expired meanwhile, which
in turn is what makes `ContinueAutomatic` start the successor. `StageInv` ties
the stage of the active write to the barrier (a barrier that resumes finds no
active write, a foreground write belongs to a barrier) and `TimerInv` says that
a timer runs only for queued events outside a barrier and outside the pause.
Together with the types these are `Ownership`, which TLC also confirms.

What is stored is a second invariant, `Durability`, proved from `Ownership`:
the batch being written and the queue behind it are consecutive and end with
the last event of the session (`QueueInv`), the store is a prefix of the session
that reaches up to the first event still held in memory (`StoreInv`; it may
reach further, because the seed of a new session may contain the very event
that is being published), and nobody waits for more than was admitted
(`WantInv`). From it follow `FlushesAreDurable`, `BatchesContinue` and
`Implementation`: every step of `WriteBehind` is a step of `DurableLog` or
stutters. The proof had to know what is cut from a batch that overlaps the
seed: `FreshIsSuffix` shows it to be the rest from the cursor on.

### Preparations

`PreparationsProofs` proves, for any set of ids and callers and every capacity,
the six safety properties of `prepare_calls`. Its assumptions are those of the
model: the cache has room for one (`CapacityPositive`), the id that is called is
one of the ids (`HomeIsStored`), and nobody is no caller (`NoOneIsNoCaller`).
`PoolInv` says of every reachable state:

- `CallerInv`: what the place of a caller says about the entry it started from.
  A caller that waits for a reservation still has its entry, and it is taken;
  one that holds a reservation holds the source it was handed;
- `OwnerInv`: one caller at most commits or holds an entry;
- `ChainInv`: only the head of a chain has started; each operation has one
  caller (a load may have many), who is at the place that awaits it and is in
  no other operation; a commit works on its caller's source, and if that caller
  has lost the entry the log has moved on since (`CommitOk`); a write that has
  passed the first check runs while nothing is reserved (`WriteOk`);
- `LoadInv`: a loading entry belongs to the last load of its chain, which knows
  everybody who waits for it;
- `LogInv`: a tracked log is clean and its cursor is its length; the source of
  an entry is the log, or of an older revision; and of a *secured* id the source
  is the log and its state has no owner. An id is secured from the end of its
  commit to the end of its reservation: that nothing may write in this time is
  the heart of `ReservationIsCurrent` and `PublicationSucceeds`;
- `LiveInv`: who is live or draining owns the state.

The pool's methods touch many callers at once: a step on one id frees or wakes
callers of another when an entry is evicted. `Effect(G, R, A)` states what any
such step does to the callers: the entries of `G` go, those of `R` are settled,
and only the callers of `A` move on their own. `Outsiders` shows that `CallerOk`
survives it for everybody else, `Kept` that an operation in a chain is still
right, and each action then only has to answer for its own caller and its own
operation (`LogKept`, `ChainPopped`, `HeadMoves`, `HeadAnswers`).

The proof found two definitions of the model that said less than they seemed
to: a `CASE` with overlapping arms leaves its value open where two of them hold
(`Retired`, `Answers`). They are conditionals now, as the code is.

### AgentLoop

`AgentLoopProofs` proves, for any number of messages and steps and any depth of
listeners, every safety and action property of `agent_turns`. `WakeInv` is:

- `StackInv`: the driver's frame is on the stack once, exactly when the driver
  runs synchronously;
- `SentInv`: what is pending, waking or owed was sent;
- `LatchInv`: a latch belongs to an activity; only disposal aborts as disposed;
- `OwedInv`: while an owed message is pending something will serve it: the
  latch, or a suspended `send` or `finally` that is going to find the agent idle;
- `ParkInv`: when the driver can claim no more, a waking message that is still
  pending is served in the same way, or is one of the accepted exceptions.

Most steps of the driver move `pc` and leave the messages alone; `DriverMoves`
states what these have in common, and `MovesKeep` deals with all of them.
`CancelIsSeen` is about the step that ends a turn; `TurnEndings` lists the places
it can start from.

`CancelledInputNeverRuns` (`CancelTakesBack`) adds `RevokedInv`: what is revoked
and still pending has a suspended `clear()` to discard it, and once a proposal
has claimed some of it the signal has fired, or the frame of the cancel that is
going to fire it is still on the stack. A step is entered only at an await, with
an empty stack, and on a clear signal, so nothing revoked can be part of it.

### JsonlLog

`JsonlLogProofs` proves `AckedSurvives` and `CursorIsStored` for any number of
events, faults and crashes, under `FsyncCommitsNames` (section 2: without it the
first is false). The invariant is `LogInv`: the types, and, unless a failure
made the code give up the session (`botched`),

- `FileInv`: frames follow one another, only the last may be torn, a frame that
  may come back continues the file, and what was acknowledged is in frames that
  a power failure keeps;
- `StageInv`: where each operation stands between write, sync and close, and
  that what a rollback goes back to is whole;
- `CursorInv`: between operations the cursor is the end of the file, and during
  one it is where the batch begins.

`SurvivorsKeep` is the lemma about crashes: whatever is left of a file, no
acknowledged event is missing.

### CrashRecovery

`CrashRecoveryProofs` proves the four properties of `crash_safety` for any
number of turns, steps, calls and crashes; the only assumption is that the
bounds are numbers (`BoundsAreNat`). `RecoveryInv` says that

- every prefix of the log is `Coherent` (`Sound`): a crash may leave any of them;
- the driver stands where the log says (`Stands`), and of the calls of its step
  the first r are committed and the others are those the repair would answer
  (`Calling`, `Progress`);
- what `commitRepair` has still to write is what a repair of the log as it is
  now would write, so a repair that is cut is taken up where it was left;
- what was entered is recorded, and what was asked is logged, in the durable
  part (`RanRecorded`, `RequestsAreLogged`).

A log is `Coherent` when the pass of `repair.ts` and the rules of `invariant.ts`
agree on it: the same turn and step, a pending call that counts as started is
one the rules wait for, one that does not was never recorded, and the results of
the open step are those of its first r calls, in order, after the message.
`OnTurnStart`, `OnCall`, `OnResult` and their like show that each event the
driver or the scheduler appends keeps this; `ClosesCall`, `ClosesStep` and
`ClosesTurn` that each event the repair makes up keeps it and leaves the rest of
the closers to be written; and `RepairIsWhole` that all of them together close
the log.

`Scanned` and `Trace` run over an arbitrary log. They are recursive functions of
the number of events read: `ScanExists` and `ScanUnique` show that there is one
such function for each log, and `ScannedAppend` that an appended event is one
more step of it, which is all the rest relies on. The inductions are over sets of
numbers (`Induct`): a set that holds 0 and the successor of each of its
members is `Nat`, as a smallest number outside it shows.

### Tasks and AgentLifecycle

`TasksProofs` proves, for any number of tasks, owners and calls, that every
outcome is told (`Told`), that the first outcome stands (`FirstOutcome`) and that
teardowns leave nothing (`NothingLeft`). `AgentLifecycleProofs` proves, for any
number of attempts and owners, that a failed attempt leaves nothing but what a
teardown is about to remove (`NothingLeft`), that a published agent stays registered (`Registered`) and that
a disposed factory is quiescent (`Quiescent`). Their assumptions only separate
the value that stands for nobody from the others. Their invariants say who is
still responsible for each thing that must not be lost: a live task of an agent
on its way out is either awaited by the teardown or its owner's cleanup is still
attached; a waiter is counted exactly while its call can still hand the outcome
out; a tracked lifecycle is torn down or its attempt goes on, and a factory that
disposes awaits every attempt that was waiting then.

### What is only model-checked

- All liveness: `CancelConverges`, `OwedWakeServed`, `Terminates`,
  `EventuallyDurable`, `CallsSettle`, `EverythingStored`, `TeardownsEnd`,
  `WaitsAndTeardownsEnd`. Fairness and ENABLED are out of reach of this prover.
- The runs that expect a violation: a counterexample needs no proof.

## 5. What the models found

1. `wakeDriver()` tests `signal.reason`, but the first abort reason stays. A
   user cancel followed by disposal lets a later wake start the driver again
   while `dispose()` waits (`agent_disposal`).
2. `truncateStored()` neither waits for nor discards what the write controller
   holds, so rewound events can be stored again (`rewind_stored`).
3. A wait that was counted at settlement suppresses the completion notice of its
   task and returns the outcome even when its call was aborted meanwhile; the
   tool registry then replaces the result by `ABORTED`. The agent, alive after a
   cancelled turn, hears nothing of the task (`tasks_suppressed`).
4. The effect of an owner's fiber returns at once when a teardown has begun, so
   an owner that unloads after its handle's `dispose()` does not wait for it
   (`lifecycle_owner`). Returning the memoized promise there would deadlock a
   teardown that runs this effect itself: the mutant of `TeardownsEnd`.

Also met while modelling, and too plain for a run: `cancel()` of an idle agent
clears its inbox (agent.ts:137), although `packages/core/agent/README.md:69`
calls an idle cancellation a no-op.

## 6. Plan

In this order; each item names the abstract specification or theorem it is for.

1. `Inbox`: splice normalisation on bounded numbers, and replay of the durable
   splices against the live lists (refinement of two plain queues).
2. The rest of the coordinator: the takeover of a fresh live session
   (`onCreated`) and of ownerless state, hot reload, `deleteFrom` and rewinds to
   before the first event.
3. `ToolPipeline`, `LlmRetry`, `UserApproval`, `Schedule`,
   `GoalSession`, `Subagent`, `Compact`: one module each, as listeners of the
   driver or owners of work.
4. Proofs: that `WriteBehind` and `JsonlLog` together give `CrashRecovery` its
   `stored`, as a refinement.
