# A TLA+ verification of jupynvim

jupynvim shows and runs Jupyter notebooks in Neovim. A Lua frontend
(`src/lua/jupynvim`) talks over a pipe to a Rust backend (`src/core/src`), which
owns the notebook sessions and their kernels; a native library
(`src/core/native/src`), loaded into Neovim itself, runs long computations on a
pool of worker threads. This directory models the parts of the three programs in
which order, failure and concurrency decide what is right, checks them with TLC on
small instances, and proves the safety of ten of them, and that the pool implements its
specification, with TLAPS for every value of the constants.

## 1. Inventory

| Component | State | Operations | Where |
|---|---|---|---|
| Native worker pool (`native/src/pool.rs`, `wake.rs`) | lock-free inbox, priority lanes, running jobs, idle/woken counters and their mirrors, completions, wake socket and its coalescing flag | submit, cancel, poll, close; a worker's loop | `WorkerPool`, `JobService` |
| Native job context (`lua/jupynvim/native.lua`) | pending callbacks with their anchored inputs, scheduled flag, nested pumps, graveyard | submit, cancel, pump, finish, close | `NativeContext` |
| Job kinds, C ABI, panics (`native/src/{jobs,abi,panic,lib}.rs`) | none shared | dispatch, checks | not modelled |
| Math grammar, palette | none | pure functions | not modelled |
| Kernel guard and process life (`core/src/guard.rs`, `kernel.rs`) | the guard's pipe, pid and set of groups, respawn window, `finishing`; per kernel its process, its `killed` flag, who holds it; the guard's own set | start, register, unregister, guard exit, finish; spawn, abort, exit, kill, drop; serve | `KernelGuard` |
| Kernel launch and wire (`kernel.rs`, `connfile.rs`) | attempt, ports, sockets, connection file, deadline | launch, launch_once, bring_up, abort, classify | `KernelLaunch` |
| Session kernel lifecycle (`core/src/rpc/exec.rs`, `rpc/notebook.rs`, `session.rs`) | kernel slot with its lock, kernel generation, comm sender, event pumps and exit tasks | start, stop, restart, close, execute, complete, inspect; events, exit | `SessionKernel` |
| Cell events and run states (`session.rs`, `lua/.../notebook/init.lua`, `init.lua`) | per cell: submissions, run, badge, epoch; outputs, count, deferred clear, times; both sides of the wire | run, run all, stop, restart, start, clear; apply_event, apply_cell_event, retire, release | `CellRuns` |
| Widget store (`core/src/widgets.rs`, `rpc/widget.rs`) | models, updates in flight and held, expected echoes, links, output captures and their cadence | update, custom, echo, idle, timeout, flush, link copies, reset | `WidgetStore` |
| Runtime directories (`core/src/connfile.rs`) | the backend dir, its lock file and kernel dirs; `EXITING`, `MAKING`, `held` | create, recreate, publish, kernel dir, sweep, guard's removal, exit | `RuntimeDirs` |
| Notebook files and saves (`notebook.rs`, `writes.rs`, `init.lua`) | buffer and `modified`, cells, views, file, the gate of running writes | :w, replace_cells, save, exit | `NotebookSave` |
| Remote searches (`core/src/rpc/search.rs`, `lua/.../remote/pick.lua`) | search epoch, permit, walk, channel, batch; the picker's `current` and its task | search_stream, search, walk, drain, picker | `RemoteSearch` |
| Remote terminals (`core/src/rpc/proc.rs`, `lua/.../remote/term.lua`) | process table, reader threads; terminals by id, events stashed for ids not known yet | proc_spawn, reader, proc_kill; open, handler, flush, wipe | `RemoteTerminals` |
| RPC server, files, LSP bridge (`rpc/*.rs`, `main.rs`) | sessions table, file watchers, LSP servers | one task per request; exit | dispatch and exit are in the models above; files, watchers and the LSP bridge are not modelled |
| Lua RPC client, backend connection (`lua/.../rpc.lua`, `backend/connect.lua`) | clients by alias, `M.client`, callbacks by id, what is scheduled on the main loop; deploy record, verified aliases | spawn, call, dispatch, exit, stop; _ensure_client, client_for, connect, disconnect, use_job | `BackendClients` |
| Kernel specs, graphics, rendering, language servers, installation, health | - | - | not modelled: reads, layout, user interface, I/O |

How they interact. A key press in the frontend becomes a request; the backend
runs each request as a task of its own (only widget messages are handled in
arrival order), so two requests of one session interleave at every `await`. All
the backend says goes to the frontend through one queue. A kernel's events reach it
through a pump, a task per kernel, and its exit through another task. Every kernel leads a process
group of its own, whose id the backend tells a *guard*: a second process that reads
a pipe and, when the pipe ends, kills what is registered and removes the backend's
runtime dir. The native library is called from Neovim's main thread; its workers report
through a socket whose read end the event loop watches.

What is hard about them:

* interleaving: a submit that takes no lock against workers about to sleep;
  requests of one session at their awaits; a removal of a dir against its being
  made; a callback that waits, in which another pump runs;
* ordering: the wake flag against the completion queue; an answer against the
  events before and after it; the two channels of a kernel; a signal to a group
  against its leader's reaping; events of a process whose id is not known yet;
* crash: the backend, the guard or another backend that sweeps killed between any two steps;
* partial failure: a wake that cannot be written, a pipe to a dead guard, a port
  another program took, a save that fails half-way;
* timeouts and retries: an update in flight released by its timer while its idle is on
  its way; a `:w` given up and carried out all the same; a start's attempts;
* liveness: a lock held across a kill, a condition variable, a batch that leaves
  completions behind, a search that waits for the permit of a superseded one.

What makes each correct: the pool runs each job at most once and reports it exactly
once, loses no wakeup and starts by priority; a callback runs at most once and its input is
anchored while a worker may read it; the guard's set is the backend's, no
kernel outlives the backend, and a signal meant for a kernel reaches no other group;
a start that succeeds talks to its own kernel and a failed one leaves nothing;
a session's dead kernel is silent and forgotten, its running kernel is heard and
owned, and every request is answered; a cell's badge says what the kernel does with
it, and what is shown is what is saved; the store and the kernel agree on every widget once nothing is
in flight; a live backend keeps its dir and a dead one leaves none; a buffer that counts
as saved is in the file; the newest search is shown whole; a terminal shows
all its process wrote and its end. `PROJECT.json`
lists every hazard at its line with the properties that cover it.

## 2. The modules

Each module stands for one component; the parts of the environment it needs (a
kernel, the operating system, other programs, the user) are modelled from how the code
uses them. Constants that switch a behaviour of the environment off are named in
section 3 with what happens when they are not.

### JobService (abstract) and WorkerPool

`JobService` is what the pool promises, without threads: a job is new, queued, running, withdrawn,
ended or dropped; completions are collected in order; a close drops what is queued.
`WorkerPool` has one action per step between two points where another thread can be seen: taking the
mutex `q`, an atomic access, a condition variable's wait or notify, a write to the
socket. `pc` holds every thread's place, `owner` the mutex.

| Code | Actions |
|---|---|
| `worker_loop` | `Exit` or `TakeInbox`, `Move` per node, then `Pop`, or `Raise` (the idle count and its mirror), `LookAgain` or `Wait`; `Unwait`, `TakeUpWake`; `Notify`; `Run`, `Unregister`, `Publish`, `Signal`, `Write` |
| `submit` | `BeginSubmit`, `Push`, `ReadParked`, `ReadWaking`, `ClaimWake`, `Notify` |
| `cancel` | `BeginCancel`, `Move`, `CancelQueued` (then `Publish`, `Signal`, `Write`) or `CancelOther` |
| `close` | `BeginClose`, `DropQueued`, `NotifyAll`, `CloseWake` |
| `poll`, pump | `ReadWake`, `StartPump`, `Reset`, `Drain` |

The stack of nodes is a sequence, newest first; a compare-and-swap that is retried is
one step. Memory is sequentially consistent: the accesses whose order matters are
`SeqCst` in the code or made under `q`.

### NativeContext

`native.lua`'s context over the pool by what it promises (`Lib == INSTANCE JobService`), with its
wake as a flag and a byte.

| Code | Actions |
|---|---|
| `worker_loop`, `Wake::signal` | `Work`, `Complete` |
| `Ctx:submit`, `Ctx:cancel`, `Ctx:close` | `Submit`, `Cancel`, `CloseContext` |
| the reader of the wake, `_schedule` | `ReadByte`, `StartPump` |
| `_pump`, `_finish` | `Poll`, `FinishRecord`, `EndPump`, `Yield` |
| a callback | any of the above but `_pump`'s own steps, and `Return` |

`pumps` is the stack of pumps: a callback may wait (`vim.wait`), and the event loop then
runs a scheduled pump inside the first. Each pump has an array of its own.

### BackendClients

The editor's side of its backends: their processes as libuv shows them, the calls made of them, where
each is registered, and the record that says a remote has the binary.

| Code | Actions |
|---|---|
| `_ensure_client`, `client_for`, `_nb_client` with the call that follows | `Need`: a call on the registered backend, or `SpawnClient` (with `Verify` for a remote) and the call |
| `Image.attach` in `spawn_client`, and the assignment after it | `AttachAgain`, `AttachEnds` |
| code that kept its client over a wait | `CallKept` |
| `connect` with a master, `disconnect`, `use_job` | `Reconnect`, `Disconnect`, `UseJob` |
| `_dispatch` of a response, the exit callback | `Dispatch`, `ExitSeen` |
| what they schedule | `RunCallback`, `RunExit` (the calls in flight fail, then `on_exit`) |
| the machine | `BackendAnswers`, `BackendEnds`, `BinaryGone` |

`exited` is `dead` and the end of `job`; `left` says that `on_exit` has run, which is later. `attaches`
is the stack of attaches that wait, since what runs inside a wait may spawn and wait itself. A
backend's `word` says on what its spawn rested, `trust` which spawns share one verify.

### KernelGuard

The functions on guard.rs's `STATE` hold its lock, so `StartGuard`, `RegisterIn`,
`UnregisterIn`, `OnGuardExit` and `Finish` are one step each; a write to a live guard
waits for room in its pipe (`PipeSize` writes) and a write to a dead one drops the pipe. A
kernel start is followed by its task (`task`: spawn, register, then abort or
watch_exit) and by whoever holds the `Kernel` (`keeper`: kill, then drop, or drop alone). The
operating system is modelled from its use: a group's id is free once its leader is
reaped and its other processes are gone; another program may then get it
(`OtherStarts`), unless the behaviour `recycles` none; `struck` records a signal that reached a
group it was not meant for. The guard processes read their pipe (`GuardReads`), see
its end, kill what they know, or die. `BackendCrashes` is always possible;
`BackendEnds` follows `Finish`, after which other tasks still run for a while, as they
do in `main` until the runtime is shut down. It is assumed that a thread between a spawn and its
registration, or between swapping `killed` and the signal, gets past them within the 200 ms the shutdown
waits: no `await` divides those steps.

### KernelLaunch

One call of `launch`, what the bring-up is in `KernelGuard` and `SessionKernel` in one step. `pc`
is the place in `launch_once`; a port is named by its role, as the ports of an attempt
are distinct and new.

| Code | Actions |
|---|---|
| before the spawn | `NewKernelDir`, `ChoosePorts`, `WriteConnection`, `Spawn`, `FailsEarly` |
| `bring_up` | `ReadWrittenBack` or `Probe`; `Connect`, `ConnectFails`; `AskKernelInfo`, `KernelInfo`; `SeesExit`, `Late` at any wait |
| `abort`, `classify`, the loop of `launch` | `AbortKill`, `AbortUnregister`, `Drain`, `Retry`, `GiveUp` |
| the kernel | `KernelBindsPort`, `KernelRefused`, `KernelWritesBack` (in two steps), `KernelCrashes` |
| other programs | `OtherTakes`, `OtherLeaves`, `TimeWaitEnds` |

### SessionKernel

A call is a task with a `pc`; a kernel is named after the call that started it.

| Code | Actions |
|---|---|
| dispatch, answer | `Call`, `Answer` |
| `stop_kernel`, first half of `restart_kernel`, `close` | `ClearSender`, `Take`, `KillEnds`, `UnsendWidgets` (not for close) |
| `start_kernel`, second half of `restart_kernel` | `Launch` or `LaunchFails`; `FillSlot`, or `BeginReplace` and `Replace`; `InstallSender`; `SpawnTasks` |
| `execute`, `complete`, `inspect` | `Execute`; `Ask`, `AskEnds` |
| `pump_event` | `CellEvent` |
| `kernel_exited` | `ExitIsTheirs`, or `ExitIsOurs` and `WatchUnsends` |

The slot's asynchronous lock is `writer` and `readers`; a section that does not await is a
single step. A generation is named after the kernel it was made for (`None` after a stop
or an exit), since the code compares generations for equality only. `gone` is what
the frontend was told by an answer or by "exited".

### CellRuns

Both sides of the wire: the editor's counts and badges, the requests as tasks, the
kernel's two channels, the backend's record of each cell, and the one queue back.

| Code | Actions |
|---|---|
| `run_cell`, `run_chain`, `stop_kernel`, `restart_kernel`, `start_kernel`, `clear_cell_output` (Lua) | `RunCell`, `RunAll` and `SendNext`, `Stop`, `Restart`, `Start`, `Clear` |
| `mark_queued`, `unqueue`, `take_run`, `release_pending`, `clear_badge`, `retire` | `Queued`, `Unqueued`, `Taken`, `Released`, `Cleared`, `Retire` |
| the requests' handlers | `Execute`, `TakeKernel`, `Killed`, `StartKernel`, `Launched`, `ClearCell` |
| `pump_event`, `apply_event` | `PumpIopub`, `PumpShell`, by `Applied` and `Note` |
| `kernel_exited` | `KernelExited` |
| `apply_cell_event`, the callbacks, `_handle_kernel_event` | `CellEvent` (`State`, `Shown`), `Answered`, `Exited` |

A run is named after its request, and so are the outputs, counts and times it leaves. The lifecycle of
the kernel's process is as `SessionKernel` shows it to be: a step for each of its outcomes.

### WidgetStore

The store's lock is taken for a call and let go before its effects run (`fx`, per
task), so effects of two tasks interleave. `ApplyLink` and `Propagate` make the copies
along links one at a time under the lock (`holder`).

| Code | Actions |
|---|---|
| `widget_pre` and the store's handling of comm messages, echoes, idles, outputs | `CommOpen`, `CommClose`, `LinkOpen`, `LinkClose`, `KernelUpdate`, `CaptureUpdate`, `KernelEcho`, `Idle`, `RouteOutput`, `RouteClear`, `UpdateDisplay`, `StaleEvent` |
| `frontend_update`, `frontend_custom`, `execute` | `FrontendUpdate`, `FrontendCustom`, `Execute` |
| `queue_for_kernel`, `send_update`, `release`, `paced_flush`, `send_outputs` | `QueueForKernel`, `SendUpdate`, `Release`, `PacedFlush`, `Emit` |
| `run_widget_effects` and its timers | `RunEffect`, `CheckFires`, `TimerFires`, with the time `Age` and `CadenceEnds` |
| a change of kernel | `Unsend`, `Reset`, `Start` |

A value is a set of pieces, so that a capture's appended output and a slider's value are both
values. The kernel is ipywidgets as the store meets it: it echoes an update, may change
the value in answer, and all of that comes before the idle.

### RuntimeDirs

One backend's dir, its lock file, its two kinds of makers and its four kinds of removers,
one system call at a time. Names, dirs and lock files are numbers, used in order, so
that a file that was removed and made again is another file.

| Code | Actions |
|---|---|
| `runtime`, `BackendDir::create`, `publish` | `Begin`, `Make`, `Mkdir`, `OpenDir`, `MakeLock`, `Flock`, `Verify`, `Publish`, `Dropped`, `StartGuard` |
| `new_kernel_dir`, `kernel_dir_if_held`, `recreate` | `Check`, `KernelDirIfHeld`, `MakeKernelDir`, `TryAgain`, `Recreate`, `Remake`, `Rest` |
| `remove_locked_at`, `rmdir_same` | `Clear`, `Unlink`, `Rmdir`, `Release`, `ClearAll` |
| `take_lock_at`, `dead_without_lock` | `OpenLock`, `CreateLock`, `TryLock` |
| `sweep_stale_at` | `Look`, `Stat`, `Age`, `SweepEnds` |
| `remove_backend_dir_waiting` | `GuardWakes`, `GuardLooks`, `GuardGivesUp` |
| `shutdown`, `exit_runtime`, `BackendDir::remove` | `ExitBegins`, `ExitFlags`, `ExitRemoves` |

### NotebookSave

| Code | Actions |
|---|---|
| `_save`, `call_sync` | `WriteCommand`, `Replaced`, `Saved`, `Refused`, `TimesOut` |
| `replace_cells` | `ReplaceCells` |
| `save`, `write_to`, `write_with_metadata` | `Save` (the gate), `ReadRoots`, `ExportSaved`, `ReadNotebook`, `Open`, `Write`, `End` |
| `apply_event`, `clear_outputs` | `Output` |
| the exit | `ExitBegins`, `CloseGate`, `GateIdle`, `GateTimesOut`, `Ends` |

A notebook's contents are a version of its cells, the views they show and the views whose state is saved.

`MCBackend` puts `KernelLaunch` and `NotebookSave` together: they share nothing, so a behaviour is one
of the two, chosen at its start (`subject`).

### RemoteSearch, RemoteTerminals

| Code | Actions |
|---|---|
| `live_finder`, the picker's task and handler | `Ask`, `Leave`, `Hear`, `Show`; `AskOnce` |
| `search_stream`, `search` | `Refuse`, `TakeEpoch`, `Begin`, `Visit`, `Match`, `Push`, `WalkEnds` |
| the drainer | `Drain`, `Tick`, `Finish` |
| `M.open`, the handler of `proc_event`, `BufWipeout` | `Open`, `GiveUp`, `TermHear`, `Register`, `Wipe` |
| `proc_spawn`, its reader, `proc_kill` | `Spawn`, `Read`, `Eof`, `Reap`, `Send`, `Kill` |
| the process | `ProcExits`, `ProcDetaches` |

Matches are counted, a file is its number of hits; output is a sequence of numbered chunks.

`MCEditor` puts `RemoteSearch`, `RemoteTerminals`, `NativeContext` and `BackendClients` together as
what Neovim's main loop has on its hands. They share no state, so a behaviour is one of them,
chosen at its start (`subject`): every behaviour of each is there, the product is not. The backends
are three subjects: two local ones with four calls (`local`); two of a remote that are
stopped, replaced and lost (`remote`); three of a remote one after the other, of which the first may
answer and whose binary may go (`record`).

## 3. The runs

| Run | Instance | Shows |
|---|---|---|
| `pool_safety` | 2 workers, 2 callers, 2 jobs, 1 lane, batch 1, spurious wakeups, failing writes | `PoolInv`, `WorkConserving`: no worker sleeps on a job; `WakeInv`; `CloseTellsRunning`; `ServiceSpec`: the pool implements `JobService` |
| `pool_live` | 1 worker, 1 caller, 2 jobs, 2 lanes, batch 1, spurious wakeups, fair | `StartsInOrder`, `EveryJobIsCollected`, `CloseEndsWorkers` |
| `kernel_guard` | 2 kernels, one without an exit thread, 2 ids, with and without reuse, 2 guards, 1 write per pipe, 1 respawn | `GuardInv`, `GuardKnows`, `TaskStrikesItsOwn`, `NothingOutlives` |
| `session` | 3 calls: one starts or restarts, one starts or ends, one stops or uses; fair | `SessionInv`, `SlotIsHeard`, `RunsOnNoGoneKernel`, `ExitToldIsUnasked`, `NoEventOnceGone`, `CallsAreAnswered`, `ExitedLeavesSlot` |
| `session_sender` | 2 calls, start and stop | violation of `SenderIsCurrent` (section 6) |
| `cells` | 2 cells, 3 requests of any kind, 4 requests and prints, deaths | `CellInv`, `CellsSettle`, `PendingIsOwed`, `MirrorAgrees` |
| `cells_again` | 2 cells, runs and stops, a cell run again before its stop is answered | violation of `CellsSettle` (section 6) |
| `widgets` | 2 sliders, 1 Output widget, 1 link, 1 capture, 1 change of kernel, 3 steps of user and kernel | `StoreInv`, `QuietAgrees`, `EchoKeepsNewer` |
| `runtime_dirs` | 2 kernel starts, the exit, the guard, 1 sweep; 2 names, 3 dirs, 3 lock files, with and without working locks; 1 cleaning; crashes | `DirInv`, `LiveDirSpared` |
| `backend` | a start of 3 attempts, both port modes, 2 ports taken in each attempt, failures, fair; or 2 `:w`, 2 edits, 3 outputs, 1 view, 3 rounds, timeouts, failing writes, an exit | `LaunchInv`, `StartedIsOurs`, `LaunchEnds`; `SaveInv`, `SavedIsWritten` |
| `editor` | 2 searches over 2 files with 2 threads; or 2 terminals of 2 chunks; or 3 jobs, batch 2; or 2 to 3 backends and 2 to 4 calls; fair | `EditorInv`; `SpinnerStops`; `TerminalsEnd`; `ContextInv`, `CallbacksRun`; `RecordGivesWay`, `CallsEnd` |
| `backend_twice` | 3 local backends, 5 calls, attaches that wait | violation of `LocalIsOne` (section 6) |

An invariant named `...Inv` is the conjunction of a type invariant and of the small
invariants that hold the component together:

| Invariant | Parts |
|---|---|
| `PoolInv`, `WakeInv` | `TypeOK`, `WakesBacked`: a claimed wake has a worker to take it up; `PendingIsTrue`: the coalescing flag is never stale, `CompletionAnnounced`: no completion waits unannounced |
| `GuardInv`, `GuardKnows`, `NothingOutlives` | `TypeOK`, `GroupEndsWithLeader`; `GuardKnowsGroups`, `AliveIsRegisteredFresh`; `NoneOutlivesExit`, `GuardStopsAll` |
| `LaunchInv` | `LaunchTypeOK`, `FailedLeavesNothing`, `TakenIsRetried` |
| `SessionInv` | `TypeOK`, `UpIsOwned`: every running kernel is the session's or on its way there |
| `CellInv` | `TypeOK`, `BadgesTrue`, `RunsAreTimed` |
| `StoreInv` | `TypeOK`, `HeldWillGo`, `CapturesWillGo`, `LiveIsOpen` |
| `DirInv` | `TypeOK`, `ExitLeavesNothing`, `GuardLeavesNothing` |
| `SaveInv` | `SaveTypeOK`, `NoneCutShort`, `ViewsHaveState`: the widget state in the file is that of the views of its cells |
| `EditorInv` | `SearchInv`: `SearchTypeOK`, `NoneTooMany`, `NewestIsWhole`; `TerminalInv`: `TermTypeOK`, `EndShowsAll`; `ClientInv`: `ClientTypeOK`, `RemoteIsRouted`: a running remote backend is where its alias goes, `CalledBackOnce` |
| `TerminalsEnd` | `EndIsTold`, `WipedIsKilled` |
| `ContextInv` | `ContextTypeOK`, `InputsAreAnchored`, `CalledOnce` |

**Why the bounds are enough.** Two workers are the least that can steal each other's
wake, two callers the least that push at once; a batch of one makes every poll full; the proofs
remove the bounds. Two kernels and two ids let an id be given to the
other kernel or to another program; two guards and one respawn let a guard die, be
replaced by either of the two paths, and the limit be reached; a pipe of one write lets a
writer wait. Three attempts reach the third, which is the first with held ports; two thefts
take both a port that is probed and one that is not. Three calls let two overlap a third;
the first and the second are the two sides of each race for the slot, the third is what
meets them, and the proofs cover any number and kind. Two requests of a cell with a stop, a
restart or a death between them, and a print on either side of a `clear_output`, are within three requests and
four steps. Two linked sliders and an Output widget have each kind of update in flight and held
behind another; the change of kernel meets late events of the old one. Two names let a first
try be lost; three lock files let a dir be made, removed and made again under a remover. Three changes reach `write_to`'s last round.
With one match of room in the channel and two in a batch, a search of two matches out of three hits blocks its
walk, fills a batch and is cut at its limit; three early events fill the stash.
Three jobs and a batch of two make a full poll, a short one and a pump inside another.
Two backends of a remote let the exit of one meet the registration of the other; three let a spawn rest on
the record after two that did and died, and after one that died and one that was replaced; two attaches, one
inside the other, are within four calls. Each subject of `MCEditor` keeps the calls to what its question needs (`Few`, `Record`).

**What restricts the instances.** `session` lets each call be of the kinds named in
`Asked` of `MCSessionKernel`. `widgets` opens at most two of the three models in one behaviour
(`MCInit`: the third is a saved, dead one), and its state constraint
`OneWhenReplaced` leaves out a change of kernel after two models were opened. `cells` has the
editor's and the kernel's queues bounded where they are filled (`MaxUnread`, `MaxUnseen`): a full
queue delays who fills it. In `editor` the first terminal writes nothing (section 6 says what becomes
of what it writes early).

**Symmetry and views.** `WorkerSymmetry`, `GidSymmetry` and the symmetry of `MCRuntimeDirs` permute
sets whose members no definition tells apart. `Read` of `MCRuntimeDirs` is the state
without what a start or a removal kept of a step that is over: no guard and no property reads it.
Runs with liveness use neither.

**Constants that keep the environment within bounds.** A `TRUE` (`FALSE` for `Stalls`) in
the runs names an assumption on what the code cannot control. Where it is dropped:

| Constant | Assumes | Without it |
|---|---|---|
| `InOrder` (`CellRuns`) | tasks of two requests come to the session in the order asked | the run of a cell asked for before a stop may be sent to the next kernel |
| `OneStart` | nobody asks for a kernel while one starts or runs | `StartSparesKernel` fails: a start kills the kernel it finds |
| `Patient` | a cell is not run again before its stop is answered | `CellsSettle` fails (`cells_again`) |
| `Prompt` (`RuntimeDirs`) | a remover that took a dir is done before the dir is made again, which rests some milliseconds in between, and before it is 60 s old | `ClearedIsUnused` fails |
| `Stalls` | a dir is not 60 s old before its lock file is made | `LiveDirSpared` fails |
| `Fifo` (`NotebookSave`) | two saves come to the notebook in the order asked | `SavedIsWritten` fails |
| `OthersStay` (`KernelLaunch`) | a program that took a port keeps it during the start | `StartedIsOurs` fails: a socket may stay with a program that is gone |
| `AttachWaits` (`BackendClients`) | `TRUE` is an editor without a terminal UI, the harder case | without it no attach waits, and `LocalIsOne` holds |
| `AsksInOrder`, `Pickers` = 1 (`RemoteSearch`) | two searches take their epochs as asked; one picker per connection | `NewestIsWhole`, `SpinnerStops` fail |
| `ChunksInOrder`, `Stash` (`RemoteTerminals`) | the tasks of one reader send in the order made; fewer early events than the stash holds | `EndShowsAll`, `TerminalsEnd` fail |

The runtime has several threads and promises no order of its tasks, so what `InOrder`, `Fifo`, `AsksInOrder`
and `ChunksInOrder` assume is likely, not sure. `Crashes`, `LockKinds`, `Timeouts`, `Failures`, `Deaths`, `Spurious` and
`WriteErrors` switch faults that the runs have on.

`CHECK_DEADLOCK FALSE` is set where the system comes to rest: the backend is gone and its
kernels with it, all calls are answered, the start has ended, the bounded user has asked
all he may. The pool's runs check for deadlock.

## 4. Fairness

`WorkerPool`: strong fairness of each worker's and each caller's steps (a thread that finds the
mutex free infinitely often gets it: the operating system schedules threads, and
parking mutexes let waiters in) and of the event loop. What a caller *begins* is never
forced, nor is a spurious wakeup. `SessionKernel`: weak fairness of each task (the runtime
polls every task that is ready) and of the end of a process that was sent SIGKILL; a kernel
is never forced to exit by itself, to reply, or to send an event. As the calls are bounded,
weak fairness suffices for the lock; the code's lock is fair besides. `KernelLaunch`: weak
fairness of the launching task, of the reader of stderr, and of the deadline, which is a timer; neither the
kernel nor another program owes anything. `RemoteSearch`: weak fairness of the walk's
threads, the drainers, the requests' tasks and the editor; a user need not ask or leave.
`RemoteTerminals`: the same for readers, tasks and the editor; no process need exit and no
buffer be wiped. `NativeContext`: workers work, the event loop reads the wake and runs
what is scheduled, and a callback returns; nobody need submit, cancel or close.
`BackendClients`: the main loop and libuv go on, also inside a wait; a backend answers what it has read or
ends, and ends when it is told to or cannot be run; nobody need call, spawn or stop. The end of an attach's
wait is not forced.

## 5. What is proved

The proofs are in modules of their own, for every value of the constants that the named assumptions allow:
any number of workers, calls, kernels, guards, requests, jobs, ports, and bounds of any size.

| Module | Theorems | Properties |
|---|---|---|
| `WorkerPool_proofs` | `PoolIsSound`, `NoWorkerSleepsOnAJob`, `WakesAreHeard`, `TypeCorrect` and parts | `PoolInv`, `WorkConserving`, `WakeInv` |
| | `CloseTellsAll`, `PlacesInvariant`, `PoolImplementsService`, `EndsOnce` | `CloseTellsRunning`, `ServiceSpec` |
| `SessionKernel_proofs` | `SessionIsSound`, `GoneKernelsAreSilent`, `SlotsKernelIsHeard`, `NoOrphan`, `RunsGoToLaterKernels`, `ExitsAreToldOnce`, `TypeCorrect` | `SessionInv` and its parts |
| `KernelGuard_proofs` | `KernelGroupsEnd`, `GuardKnowsWhatRuns`, `TasksStrikeTheirOwn`, `NothingIsLeft` | `GuardInv`, `GuardKnows`, `TaskStrikesItsOwn`, `NothingOutlives` |
| `Backend_proofs` | `AttemptsLeaveNothing`, `WrittenBackIsOurs`; under `OthersStay` `RefusedIsTriedAgain`, `StartedKernelIsOurs` | `LaunchInv`, `StartedIsOurs` |
| | `SavesAreWhole`; under `Fifo` `SavedBufferIsInTheFile` | `SaveInv`, `SavedIsWritten` |
| `RuntimeDirs_proofs` | under `Prompt`, `~Stalls` and, where sweeps may be killed, one sweeper: `LiveDirsAreSpared` | `LiveDirSpared` |
| `CellRuns_proofs` | `EditorShowsWhatIsSaved`, `BadgesAreTrue`, `EndsAreRecorded`, `RunsAreTyped`; `PendingIsExact` | `MirrorAgrees`, `CellInv` and its parts; the second half of `PendingIsOwed` |
| | under `InOrder`, `OneStart` and `Patient` `PendingIsKept`, `CellsComeToRest` | `PendingIsOwed`, `CellsSettle` |
| `WidgetStore_proofs` | `StoreHolds`; under `NoOutEnds` `EchoHolds`, `QuietHolds` | `StoreInv`; `EchoKeepsNewer`, `QuietAgrees` |
| `Editor_proofs` | `ContextIsSound`, `BackendsStayRouted`, `MissedRecordGivesWay` | `ContextInv`, `ClientInv`, `RecordGivesWay` |

*WorkerPool.* The invariant `IInv` adds to `TypeOK` what the mutex
protects: who is at which step holds it (`LockInv`); how many notifies a thread owes
(`NotifyInv`); that a thread with a job in hand has one (`HandInv`); what `idle` and `woken` count and that the
mirrors agree (`CountInv`); where detached nodes may be (`MovingInv`). `WorkConserving` is not
inductive without `WakesBacked`: a submit is allowed not to notify when every idle worker has a wake
claimed, so somebody must be on the way for each claim. The notifies are counted as
promises, a set of pairs, and the claim never exceeds its cardinality. `PendingIsTrue` and
`CompletionAnnounced` are inductive together with `IInv`.

*The pool implements JobService*. `PlaceInv` partitions the submitted jobs by
where they are (`Where`: on their way to the inbox, in it, in the batch, in a lane, with a worker, withdrawn, ended),
each there once; the service's state of a job is a function of its place and of `open`.
With it every step of the pool moves at most one job one place on, which is a step of the service, or is a stutter; a close
drops what is in the first places at once. `ClosingInv`, that nobody moves or takes a job once the pool is closed, is what a close needs.

*JobService.* No job has two completions, and a job has one exactly when it
ended, for any batch: `EndsOnce`, of the pool by way of the service it implements. `EachJobEndsOnce` with the service's `TypeOK` is inductive
as it stands: the completions collected and those
not collected are one sequence that only `Complete` lengthens, and a poll moves the boundary.
The caller may therefore free what a job reads when it collects the job's completion.

*SessionKernel*, from `CallAssumption` alone.
`IInv` says who holds the slot's lock and that nothing else has the slot or moves the generation meanwhile
(`LockInv`); that a kernel in the slot went in by its own start (`SlotInv`); and, the heart of it,
that a kernel once taken or told to be gone is in the slot no more, is not of the current
generation, and its start is past the only step that could bring it back (`GoneInv`). The silence of
gone kernels is then the generation check of `pump_event`.

*KernelGuard.* `KernelSide` relates a kernel's task, its keeper and `killed` to its process and its group:
a group's id is its kernel's while the leader is not reaped or a member runs (`GroupIsHeld`), and whoever swapped `killed` still
owes the signal while something runs (`KilledOnce`), so after `finish` began whatever runs was just spawned or is about to be
struck (`FinishStops`). `GuardSide`: the guard that the pipe leads to knows the
backend's set but for the lines it has not read (`GuardKnowsGroups`), and reaches the pipe's end only after the backend.
They meet in the backend's set. The ids may be given again (`recycles`); the parts that fail then say `~recycles`.

*KernelLaunch.* `Phases` says what there is at each step, `WrittenIsBound` that a kernel writes
its ports back after it bound them all, `Sockets` and `Causes` what the sockets lead to and why a kernel exited. Where the kernel
binds its own ports no assumption on other programs is needed (`WrittenBackIsOurs`); where they are reserved and given up,
`OthersStay` is.

*NotebookSave.* `SavesAreWhole` holds in any order of the requests: `ViewsHaveState` rests on a count, that
every round of an export that is not the last saw the views change once more (`SeesChanges`), and `NoneCutShort` on the gate's
(`Gate`). Under `Fifo`, `InOrder` says what a wait's answer will mean: no replacement of the cells is then outstanding.

*RuntimeDirs.* `LiveDirsAreSpared` covers any number of starts, sweeps, dirs and lock files, with locks that work or do not.
Until the exit one start makes the dir, under `MAKING` and later under the mutex of `held` (`MakersInv`), and makes a dir
that is nobody else's (`NewInv`). A dir only ever has one lock file, and a sweep clears it only with that one (`SweepsInv`,
`LocksInv`). That rests on `ReasonsInv`: a dir that has a name is the held one, is being made or is being removed, so none gets
old, and the dir that is made again is new. A sweep killed between the unlinking of a lock file and the `rmdir` breaks
this: the dir is used again with a second lock file. A second sweep that had opened the first one then locks it and clears the live dir;
TLC shows the case with one start, two sweepers, a `Cleaner` and `Crashes`. Hence the hypothesis.

*CellRuns*, whatever the user asks and in any order of the requests. `TypeInv` adds to `TypeOK` that what is on its way is of requests that
were made, and that a "run all" has one request under way at a time, whose cell the chain still has. For `MirrorAgrees`
`Leads` relates front and back through the wire: there is a row of copies, from the one the editor shows to the one the backend has,
of which each is what the next message makes of the one before. A message sent lengthens the row and one handled drops its first. `NotesTell`
is the step: the note on an event, which says whether an output clears first, does to the editor's copy what the event does to the backend's.
`TimedInv` says that each run that began is on or has its idle unread behind its `execute_input`, while its kernel is the
session's; `KernelInv` that a kernel once gone does not come back.
The badges are proved while the notebook's first kernel lives: `Calm` says that then there were only runs and clears, and
no refusal. `Debt` is `Owed` with a name for each place a submission can be in; each step moves one submission from one place
to the next or takes it off together with the editor's count, which needs only how the cardinality of a set of places changes at the end or the head of
a sequence (`PlacesCount`, `PlacesShift`). That the count goes down once per run, at its busy and not at its execute_input, needs
`Leading`: along the wire and then the unread events the signs of a cell's runs lead from the run state the editor shows to
the one the kernel is in, every busy coming at rest. The badge is then a function of the run state and the count (`Badge`).

What becomes of a cell across stops, restarts, starts and deaths is `SettleInv`, under the three assumptions of the run (section 3);
`cells_again` shows that `Patient` is needed. `OrderInv` and `StartInv` say what the order of the requests gives: a stop or a restart lies
between the runs of two epochs, and a kernel is started where there is none. `RetireInv` is what the
epochs are for: until the last stop is answered the editor is retiring, and then no event of an older run is on the wire, because
the answer to a stop follows all the stopped kernel said; `PatientInv` makes the cells of before count nothing meanwhile.
Two things are then said of the runs of the current epoch alone. `PathInv`: their signs on the wire, then the unread ones of the
kernel the session has, lead from the run state the editor shows to rest or to the cell the kernel is at, where an exit ends whatever
runs; they lead to rest where a stop is yet to be taken or no kernel is left. `CountInv`: unless the editor has still to hear of a death and no stop is about to clear the counts, the count of a cell is at most the number of its submissions
still to be told of (`Owing`: not sent, in the kernel's queue, its busy unread or on the wire, refused), a set of requests,
so a step that takes one off takes off the count with it or leaves a larger set. Once nothing is on its way the path is empty and so is `Owing`. The order of requests,
the single answer (`AnswerInv`) and the cell a "run all" is at (`HeadInv`) are what the release at a refusal, a stop or an exit rests on.

*WidgetStore*, for any number of models, attributes, links and kernels, and whatever the kernel's code says.
`Core` has the types of the store, of a task's effects and of what is on the two channels, with `HoldInv` (an update in flight
has its timer, or the task that starts it; what is held back is held back behind one) and `CaptureInv` (the same of the
captures and their cadence). A call is proved in the parts it is made of: `EmitResult`, `SendResult`, `PacedResult` say what
`send_outputs`, `send_update` and `paced_flush` leave, whatever was changed before. `OpenInv` is for `LiveIsOpen`: what is connected, and
what an event on its way opens, the kernel has, or its close comes later on the same channel; no
event is of a kernel younger than the session's.

`EchoKeepsNewer` and `QuietAgrees` are proved where no link copies what an Output widget shows (`NoOutEnds`, which the run's link satisfies): else
one model would have two messages in flight that do not wait for one another, an update and a flush. `MessageInv` is what is known of the messages:
no two that wait have a model's number, no number is reused or has timed out before it was sent (`Single`, `NumberInv`, `ApartInv`);
what waits to be sent for a connected model is the one in flight (`FlightsInv`), so all that went to the kernel before it has a lower number, and
echoes, shell channel and what waits are in the order of their numbers (`OrderInv`); what carries an attribute has at most
the number that is expected (`ExpectInv`); a model is opened once, and nothing is sent to it before (`OnceInv`), so no message of an
older kernel is taken for a new one. What a call does to the messages is said once (`Makes`, `Expects`, `Captures`, `Holds`), for each part of a call,
and `StepKept` goes from there to the invariant. An echo with the expected number is then the last one that carries the attribute (`EchoLast`).

For `QuietAgrees` `LastInv` adds what the two sides will come to. `LatestInv`: while a change of a connected model is on its
way to the kernel, the change with the number that is expected is. `AgreeInv` says of every model the kernel has and the store connects, or is about to,
that for each attribute either a change is still held, captured or on its way to the kernel, or the store will have the kernel's
value once it has taken in the events before it: the value of the last event that counts (`Counts`: an open, an update, or an echo
with the expected number, of the session's kernel), else the one it has (`Agrees`). An event taken or said keeps this (`AgreesTail`, `AgreesCat`,
`AgreesNew`); a call of the store makes a change that is ahead, and a kernel that handles the last change on its way answers with the echo that is expected
(`HeadLast`, `ReplyCounts`). The echo of an older change does not count, and a newer one is then still ahead. With nothing on its way no change
is ahead and no event counts.

*NativeContext.* A callback is called once at most and inputs stay
anchored, with pumps nested to any depth and a close at any time. `ContextIInv` adds that a job that was never
submitted has no entry and no call (`NewIsUntouched`), that what waits to be collected or dispatched is of jobs that have
ended (`CompletedEnded`, `RecordsEnded`), and that entries are in the graveyard only after a close, and then nowhere
else (`BuriedAtClose`). An entry that a record finds is therefore of an open context and was never called.

*BackendClients.* `Named` (every reference is to a backend, request or job that is there), `History` (what is known of a
backend from how it ended) and `CallsInv` (a call that waits is in no callback that is scheduled) make
`CalledBackOnce` inductive; `RecordGivesWay` needs `MissIsHeeded`, that the record stays gone after a miss until
a later backend of the remote is probed or heard.

The proofs have one lemma per action or per conjunct, with a case for each of the others, and a last step
that is temporal (PTL). The inductive invariants were model-checked before they were proved.

Only model-checked: the order of starts (`StartsInOrder`), `DirInv` of `RuntimeDirs`,
and all of `RemoteSearch` and `RemoteTerminals`. Beyond the prover: liveness under fairness and
`ENABLED`; and RECURSIVE operators, which these modules do not use. The provers take no induction over data either, but the least
place where a claim would fail serves as one (`Least`, `KeptIs` in `WidgetStore_proofs`).

## 6. Where code and comments differ

With a run:

* `notebook/init.lua:826-831` says that until a stop is answered "the state events of the cells submitted before it are not
  applied". The test at line 890 goes by the epoch the cell was last submitted in. A cell run again between a stop
  and its answer has the new epoch, so the stopped kernel's busy for the old run is applied
  to it, and it stays busy for good (`cells_again`).
* `connect.lua:601-603` speaks of the one local backend, "spawned when it is not running", and line 543 of
  a notebook that opens while `Image.attach` waits. A backend that dies in that wait and is replaced
  inside it is assigned to `M.client` again when the wait is over (597, 719): the next operation
  spawns another, and the one in between runs on where no call reaches it (`backend_twice`).
  It needs an editor without a terminal UI, where alone the attach waits.
* `widgets.rs:179`: `comm_tx` is "The current kernel's sender; None without a kernel". A stop that runs
  between a start's filling of the slot and its installing of the sender leaves the dead kernel's sender
  installed (`session_sender`); widget requests are then accepted in a session without a kernel.

Without a run of its own; the definition named is violated under the constants given:

| Where | What | Definition and constants |
|---|---|---|
| `kernel.rs:952-954` against 966, 969 | "so the guard never signals a group id that may be reused": the process is reaped, which frees the id, before it is unregistered | `WatchedIdIsNotReused`: 1 kernel, 1 id, `Recycling` {TRUE} |
| `kernel.rs:935-937` against 942 | "each step happens once, so after kill() this does nothing": the drop unregisters the id again; a kernel started since with the same id loses its registration | `DropAfterKillDoesNothing`: 2 kernels, 1 id, `Recycling` {TRUE} |
| `widgets.rs:33-34` | copies "stop at the first value that agrees": in a ring of three one-way links with two attributes of one widget the limit stops them | `CopiesSettle` under `RingSpec` of `MCWidgetStore` |
| `session.rs:27` | a cell's end may be that of the run before: its reply is read after the next run's execute_input | `EndIsOfItsRun`, `cells` |
| `exec.rs` (`start_kernel`) | a second start kills the running kernel, which the editor prevents only by what it has seen so far | `StartSparesKernel`, `OneStart` FALSE |
| `connfile.rs` (`remove_locked_at`) | "no backend can use the dir any more": what is cleared after the lock file was unlinked may be a dir made again | `ClearedIsUnused`, `Prompt` FALSE, `Crashes` FALSE, `Files` 21..24 |
| `connfile.rs:1480-1482` | where locks do not work the pid in the dir's name decides | `LiveDirSpared`, `DirInv` hold there too: `LockKinds` has both |
| `pick.lua:361-366` against 353-358 | the one handler of `search_event` closes over the first picker's `current`; a second live picker on the connection hears nothing and its spinner never stops | `SpinnerStops`, `Pickers` 2 |
| `term.lua:581` against 588-589 | "stash so the first prompt isn't lost": the handler that stashes is installed after the first terminal of a connection is registered, so its early events are dropped | the exception `i # hook` of `EndShowsAll` and `EndIsTold` |
| `proc.rs:91` | the reader waits for the child with the child's lock held: a process that closed its terminal and lives on is out of a kill's reach | `WipedIsKilled` speaks of the terminal for this reason |
| `notebook.rs` (`write_with_metadata`) | the file is cut and written in place: a failed write, or two at once, leave it cut or mixed | the exceptions of `SavedIsWritten` |

Seen while modelling, without a definition: `exec.rs:196-198` says a drop does not kill the
kernel, which it does since `Drop for Kernel`; a close while a start is in flight leaves the kernel in the
slot of a session that is in no table, where it runs until the backend exits and the guard's `finish`
stops it; `kill_group_once` sets the flag before it signals, so a killer held up in between may
signal after the other killer let the process be reaped (`KernelGuard` models it; the
properties speak of the owner's signal); in `remote/lsp.lua` an entry of `servers` outlives its server, so
buffers opened after the server's exit wait in `pending_bufs` for good.

## 7. What is not modelled

In the modelled components: job data and its lifetime beyond the completion that frees
it, `call` and `call_raw`, which run a job on the caller's thread; a last line the guard reads half; the
backend's `shutdown_kernels`, whose kills `KernelGuard` has as any holder's; kernels that cannot be killed (in an
uninterruptible sleep); `interrupt_kernel`, which changes
no state of the session; the picking and installing of a kernel spec before a launch; mime bundles,
display updates across cells, the raw stdout of a kernel process and edits of the cell list; widget
buffers, which travel with the values, and a comm for an unknown target, which is closed at once; the choice and the ownership
checks of the runtime root and the files of older versions in it; the JSON of notebooks, frames and signatures, which are conversions;
the upload of a binary step by step, the login terminal, transports of the user's own, and the deadline of a `call_sync`,
after which the answer that comes is ignored; `proc_stdin`, `proc_resize` and `run_cmd`, which pass bytes on; windows, sizes and key maps.

The components marked so in section 1: the job kinds, the math grammar and the palette are
pure functions over long inputs, with tables of several thousand lines and floating point, checked by
golden files; the installation, kernel specs, health and graphics read or write the disk or the screen in one sequence;
the language server's and the file watchers' bridges pass messages on. About half of the Rust lines are tests and tables,
which nothing here stands for.

## 8. Plan

1. `DirInv` in `RuntimeDirs_proofs`.
2. The safety of `RemoteSearch` (`NoneTooMany`, then `NewestIsWhole`) by a minimal counterexample in place of the induction.
3. The LSP bridge: servers, their start in flight, buffers that wait for it.
