# omavroom: a TLA+ model of the seat pool

omavroom is a daemon that lends virtual machines ("seats") to coding agents. An
agent queues a request, is given a seat and a lease, runs commands and desktop
operations on it, and gives it back: the manager fetches its work, passes it
through a gate, pushes it, and destroys the VM. The daemon survives crashes with
one SQLite file; everything else (VMs, overlays, guests) lives in libvirt.

This directory models the parts of the program that decide who gets which VM, when a
VM and the work on it may be destroyed, and what the processes around the pool (daemon,
clients, MCP server, GUI) may do to each other. It holds TLA+ modules, TLC
configurations, and TLAPS proofs. `PROJECT.json` is the index: components, runs,
the map from definitions to source lines, findings, hazards and theorems.

Check one run with `tlc -config Leases.cfg MCScheduler.tla` and the proofs of one
module with `tlapm SchedulerProofs.tla`.

## 1. Inventory

| component | source | state it keeps | operations that change it |
|---|---|---|---|
| state store | `state.py` | tables `seats`, `queue`, `leases`, `events` | row inserts and updates in `BEGIN IMMEDIATE` transactions |
| scheduler | `manager/scheduler.py` | nothing durable of its own: override and prewarm suspension in memory | submit, cancel, the methods of `pump`, `reconcile`, reset, export, release, retry, discard, heartbeat, begin/finish work |
| manager worker | `manager/__init__.py` | queue of pending jobs, tick lock, handles, builds | `tick` (pump, then drain the jobs), start, stop, waiting for a handle |
| libvirt provisioner | `manager/libvirt_provisioner.py` | domains, overlays, staging directories, addresses, image files | create, start/wait, stop, destroy, reset, list, attach, fetch/push, image builds, desktop operations |
| build tracker | `manager/provisioner.py` | records and their order | start, append, finish, prune |
| lock registry | `manager/locks.py` | one lock per seat and per repository | seat, repo, seat-then-repo, bounded acquisition |
| exec tracker and engine | `manager/execs.py`, `manager/exec_engine.py` | exec records per seat, workers, cancel events | start, launch, run, finish, kill, cancel a seat, idle hook, shutdown |
| daemon and job registry | `daemon.py` | socket, connections, jobs and their history | bind, accept, dispatch, submit, prune, stop |
| client | `client.py` | one connection | call with one retry, wait for a job or a request |
| MCP server | `mcp/server.py` | set of seats to beat | track, forget, beat, ensure a daemon |
| configuration | `config.py` | the TOML file | read, write, `NetworkConfig.allocate` |
| images | `images.py`, `version.py` | names, recipe hashes, versions | lookups |
| pool view | `poolview.py` | the previous slot assignment | `assign_slots` |
| GUI | `gui/` | capture deadlines, VNC sessions | plan captures, start and stop sessions |
| CLI, TUI, scaffold | `cli/`, `tui/`, `scaffold.py` | none | printing, argument parsing, file templates |

How they interact. Clients (CLI, TUI, GUI, MCP server) talk to the daemon over a
Unix socket, one thread per connection. Short calls (submit, heartbeat, exec
start, screenshot, status) run on that thread. Long ones become daemon jobs: the
job thread hands a closure to the manager and waits. The manager has **one worker
thread**. Under the tick lock it calls `Scheduler.pump()`, then runs the queued
closures until there are none, for ever. Pump and closures alternate SQLite
transactions with provisioner calls that take seconds to minutes, so connection
threads, execs and the host change the state between any two of their steps.
`reconcile` (on start, or as a job) takes the same tick lock. The exec engine calls
back into the scheduler (`begin_work`, `finish_work`) from exec threads.

What is hard: the interleaving above; crashes between any two steps, with only the
tables to recover from; provisioner calls that fail before, in the middle, or after
they took effect; a host whose VMs stop or vanish and whose probes fail; leases that
lapse while the worker is busy; retries with backoff; and rows whose meaning depends
on intent columns (`pending_action`, `pending_export`, `export_repo`) that several
operations write.

What makes each component correct:

- store/scheduler: a claim, its lease and its seat agree; no VM is handed to a second
  agent; requests are claimed in order; capacity holds; work that was to be exported
  or preserved is not destroyed before; every transient seat settles or is reported.
- worker: jobs run once, in order, between pumps; a job's failure stops neither.
- exec engine: a killed exec never runs after it was reported killed; a seat is busy
  exactly while execs run on it; caps hold; teardown does not wait for execs.
- lock registry: seat-then-repo order is never reversed; a bounded wait never blocks.
- job registry and build tracker: pending work is never dropped, history is bounded.
- client and daemon: one daemon per socket; a call is executed at most once or the
  caller is told.
- heartbeats: a seat an agent still uses keeps its lease.
- machines: a seat that is ready has an identity, a key and an address of its own.
- images: who is told an image is there can use it; nobody waits for a build that ended.
- exports: the remote only moves forward, to what the gate approved; ok means landed.
- settings: no update is lost.
- live view: the two threads agree which seat streams, and the enlarged seat is always
  shown.

## 2. Modules

| module | what it is | models |
|---|---|---|
| `SeatStore` | tables, queries and row updates | `state.py` |
| `Scheduler` | the state machine of the pool | `manager/scheduler.py`, the tick and start of `manager/__init__.py`, the provisioner calls of `manager/libvirt_provisioner.py` it makes |
| `Reservations` | what the pool promises: FIFO claims of unused seats, a lease and its request that end together | abstract |
| `ExecEngine` | execs as interleaving threads over an abstract seat state | `manager/exec_engine.py`, `manager/execs.py`, the exec hooks, release and reset of `manager/__init__.py` |
| `Jobs` | the job registry, its worker, the manager's handles, tick and stop | `daemon.py` (`JobRegistry`, `shutdown`), `manager/__init__.py` (`_submit`, `_wait_for_handle`, `tick`, `stop`) |
| `Daemon` | several daemon processes and launchers on one socket path | `daemon.py` (`bind`, `start`, `serve_forever`, `shutdown`, `run_daemon`), `mcp/server.py` (`ensure_daemon_client`) |
| `Rpc` | one client shared by threads, its connections and their handlers | `client.py`, the connection handling of `daemon.py` |
| `Heartbeats` | tools, heartbeat thread and the leases of the daemon | `mcp/server.py` (`HeartbeatMonitor`, `OmavroomTools`) |
| `LiveView` | the GUI thread, the capture thread and the VNC streams | `gui/backend.py`, `gui/capture.py`, `gui/frames.py` |
| `Machines` | domain, overlay, metadata file, host key and address of seats | `manager/libvirt_provisioner.py`, `config.py` (`NetworkConfig.allocate`) |
| `Images` | the image registry, image files, builds and their tracker | `manager/__init__.py`, `manager/provisioner.py` (`BuildTracker`), `config.py`, `manager/libvirt_provisioner.py` (`build_image`) |
| `Export` | the export of a task branch under a guest that goes on | `manager/libvirt_provisioner.py` (`prepare_repo`, `fetch_bundle`, `push`), `manager/scheduler.py` (`_export_locked`, `ExportGate`) |
| `Settings` | writers of the configuration file | `config.py` (`update_config`, `set_config_values`), `daemon.py` (`_set_config_values`) |
| `Calls`, `Landings`, `Updates` | what `Rpc`, `Export` and `Settings` promise: calls of one server that executes each at most once; one approved tip that lands or not; changes of one document that take effect at once | abstract |
| `MCScheduler`, `MCExecEngine` | instances for TLC | |
| `MCService` | `Daemon` and `Jobs` | |
| `MCClients` | `Heartbeats`, `Rpc` and `LiveView` | |
| `MCStorage` | `Export`, `Machines`, `Images` and `Settings` | |
| `SchedulerProofs` | type correctness of the scheduler; the reservation invariant, `Scheduler` implements `Reservations` | |
| `RecoveryProofs` | what the scheduler owes the VMs, the work on them, its capacity and interrupted rows | |
| `StorageProofs` | theorems about `Machines`, `Images` and `Settings`, and about `MCStorage` | |
| `ClientsProofs` | theorems about `Heartbeats`, `Rpc` and `LiveView`, and about `MCClients` | |
| `DaemonProofs` | theorems about `Daemon`, and about `MCService` | |
| `ExecProofs`, `ExportProofs`, `JobsProofs` | theorems about the module of that name | |

`Scheduler` composes `SeatStore`. Four modules are shown to implement an abstract
specification, by TLC and by proof: `Scheduler` implements `Reservations`, `Rpc` implements
`Calls`, `Export` implements `Landings`, `Settings` implements `Updates`. `MCService`,
`MCClients` and `MCStorage` hold components that share no variable: a behaviour is about
one of them, chosen by `part`, and the others stay in their initial states. Where two
components of the code do meet, one module has both sides: daemon and launcher
(`Daemon`), client and handler (`Rpc`), MCP server and lease (`Heartbeats`), registry and
manager (`Jobs`), guest and export (`Export`), exec thread and release (`ExecEngine`).

### State of `Scheduler` and the code

- `seat`, `request`, `lease`: the tables. A seat row keeps the columns decisions are
  taken on: state, whether `vm_name` is recorded, image, export intent
  (`export_repo`), `pending_action`, `pending_export`, `pending_request_status`,
  provisioning attempts. Ids go up and are never reused, so `MaxSeatRows` and
  `MaxRequests` bound how long a history is explored. A lease is created in the
  transaction that claims its request, so `lease` is indexed by request.
- `vm`: the libvirt domain named after each seat: none, off, running. `vm` and the
  row are separate on purpose, they disagree after crashes and failures.
- `work` and `wish` are history variables: what is on the overlay, and what the last
  decision about it was. `work = "lost"` marks unpushed work that was destroyed after
  a decision to export or preserve it. No action of the code reads them.
- `phase`, `todo`, `op`: the worker's program counter. `phase` is the method of the
  pump (or reconcile pass, or job drain) it is in, `todo` the seats that method's
  first read selected and it has not visited yet, `op` the operation between two of
  its transactions or provisioner calls (its step, seat, request, what follows a
  teardown, the status to close with). A crash erases all three.
- `seen`: the `list_vms()` result `reconcile` works from.
- `suspended`: the in-memory prewarm suspension.

Each transaction is one action and each provisioner call is one action (a reset is
two: rebuild and reboot). Examples: `_release_seat_locked` is `BeginRelease`, then
`Export`, `Hold` or `StopVm`, `DestroyVm`, `Close`; `_assign_idle` is `PickIdle` and
`AssignIdle`, because the code reads in one transaction and claims in another;
`_do_provision` is `Provision`, `Create`, `Boot`, `Provisioned` or `ProvisionFailed`.
The steps of other threads (`Submit`, `Heartbeat`, `BeginWork`, `FinishWork`,
`ClearPrewarmBackoff`), of the host (`LeaseLapses`, `VmStops`, `VmVanishes`) and
`Crash` interleave between any two of them. Jobs are closures over an id that read
nothing before they run, so the queue of pending jobs is not kept: while the worker
drains, any job in `JobKinds` may be next.

Constant `Faults` names what may fail: `create`, `boot`, `reset`, `export`,
`teardown` are provisioner calls, each failing before or after its effect; `probe`
and `list` are a libvirt that does not answer; `vmstop` and `vmvanish` are the host.

### State of `ExecEngine` and the code

- `record`, `history`, `born`: the tracker's `_execs`. `history` is the set of records
  kept for a seat, `record` the state of each, `born` how many records were made before
  it: the insertion order of the dictionary, which decides what eviction drops and in
  which order a release cancels.
- `workers`, `cancel`, `down`: the engine's `_workers`, the cancel events, `_shutdown`.
- `holder`: the thread that holds `_state_lock`. The tracker's lock and `_lock` only
  protect single steps.
- `pc`: where each `exec_start` is, first its connection thread, then its worker.
  `client`: a kill, finish, release, reset or discard, with the ids it still has to
  mark and the job it will queue.
- `seat`: the rows as `start` reads them and the hooks write them. Release and reset
  jobs are two steps here (`JobBegins`, `JobEnds`); `Scheduler` has their details, and
  has the hooks as `BeginWork` and `FinishWork` by themselves.
- `told` (kills that returned) and `rebuilt` (seats a reset made ready) are history
  variables.

The tracker's and the engine's critical sections are one action each; what `start`
does under `_state_lock` is several, because kills and finishes take only the
tracker's lock and fall in between. The class docstring (`exec_engine.py:93`) says the
hooks are called while holding no engine lock; the code calls them under
`_state_lock`, on purpose by the comment at `:123`, and the model follows the code.

### State of the other modules and the code

- `Jobs`. `kind`, `state`, `retained` are `JobRegistry`'s jobs and which of them it still
  has (pruning follows their numbers); `queue` is all that was put in its queue, with the
  sentinel of `stop`, and `taken` how much of it was taken. A handler registers a job
  under the lock and queues it after (`entering`), so jobs may be queued in another order
  than they were registered. `jobAt` and
  `jobNow` are its worker. `pending` and `done` are the manager's queue of handles,
  `tick` the tick lock, `tickAt` and `tickJob` what its holder does, `workerAt` the
  manager's worker, `main` how far `shutdown` has come. A job is a lifecycle operation
  (a handle is queued, and the job thread waits for it or ticks itself when the
  manager is not running), a reconcile (under the tick lock) or a build. `ran` counts
  executions. Job ids start again after a restart: `base` is how many jobs earlier
  daemons had, `held` and `seen` what a client was told.
- `Daemon`. `pc` is the main thread of each process; the stages of `bind` (look, probe,
  unlink, bind, set the mode, listen) are separate steps because another process may act in
  between. Any number of processes start, stop and die at the same time, and the first
  may find a file of one that died before (`OldFile`).
  `path` is the process whose socket the file names, `listening` and `bound` its socket
  and `_bound`, `stopped` the `_stop` event, `active` whether its manager may act. A
  signal runs `request_stop` between two steps; a crash leaves the file. `undisputed` is a
  history variable: the daemons that began to listen on their own path while no other process
  could still unlink it (`Claims`) and no other manager acted.
- `Rpc`. `conns` is every connection with both of its ends: what is in flight to the
  handler, what the handler works on, what it answered, and how each end was closed
  (a close with unread data resets the peer, another one is an end of file). `holder`,
  `step`, `attempt` and `cur` are `DaemonClient.call` under its lock; `stage` the daemon.
- `Heartbeats`. `tracked` is `HeartbeatMonitor._seats`. Each thread has seats to beat, the
  answer it holds and has not applied yet, and the tool it runs. `age` counts ticks
  since a renewal, `since` ticks since the background thread woke; one tick is longer than a
  round of beats. `kept` is a history variable: seats this server has renewed and not let
  go. `CloseLease` is every end of a lease that is not the heartbeat's: a teardown job, an
  operator, the ceiling `lease_timeout_s`.
- `LiveView`. `gui` is what `WallBackend` keeps (the last wall, the focused slot, the live
  mode, the target of the stream, what was told to the worker), `worker` what `PollWorker`
  and its planner keep, `session` the VNC sessions, `toWorker` and `toGui` the queued Qt
  signals in their order. Seats are called `Desktops` there. `_sync_focus` ends in `_sync_live`, so both are one action.
- `Machines`. `domain`, `overlay` (the guest's identity and boot mode), `meta`
  (`seat.json`) and `pinned` (`known_hosts`) outlive the daemon; `call`, `vm` and `stale`
  are where the tick thread is in a provisioner call and the copy of the metadata it
  holds. Every step may be the last of its call. The guest identity a boot generates
  is a number that is never used again.
- `Images`. `disk` and `mem` are the configuration file and its copy, `file` the golden
  images, `records` and `listed` the `BuildTracker`; `jobs` and `job` the job thread,
  `client` the connection threads, where `image_ensure` plans and `image_rm` removes (check,
  unregister, unlink, forget: four steps, and no lock). A write of the configuration file may
  fail, which the code logs and passes over (`Persist`); a conversion that fails, or that the
  daemon dies in, may leave a half file (`Torn`). `spoiled` is a history variable: the images
  whose entry need not tell of their file.
- `Export`. A history is a sequence of commits beyond the merge base, each with what its
  change means to the gate. `quarantine` is `refs/omavroom/<branch>`, `at` where the export
  is, `sha` and `bundle` the tip the guest named and the tip of the bundle it made
  later. `told` is a history variable: the history last reported as exported.
- `Settings`. `onDisk`, `inMemory`, the write lock, and per thread the change it makes and
  the document it read. The write is two steps, `Truncate` and `WriteFile`, because
  `write_text` opens the file, which empties it, before it writes; an empty file loads as
  the defaults. A daemon may be killed between them only when `WriteTears` is true.

### Abstractions

- One seat type. Loops and counts of the scheduler are per type.
- Time is only "is this lease stale", "is the backoff over", "is the TTL over", each
  a nondeterministic choice (`HeldTtl = FALSE` is the default `held_ttl_s = 0`), except in
  `Heartbeats`, where cadence and timeout are counted in ticks.
- Admission below the static bound: `Refusals = TRUE` lets the free-RAM check or the
  `deny` override refuse at any moment; the arithmetic itself is not modelled.
- A malformed `updated_at`, which `_reap_errors` quarantines by closing the row, is
  left out: nothing in the program writes one.
- Events, logs, messages and wire formats are left out. A frame is either read whole or
  not at all; a message too large or malformed is not modelled.
- Execs: output, exit codes and timeouts are left out (a command may return at any
  moment), and so is the join at the end of `shutdown`.
- A recipe is its set of packages: base image and post commands are left out, like a
  build's own VM except for its address.
- The window in which the configuration file is empty is in `Settings`; `Images` treats the
  write as one step, which happens or fails. A file that was written in part is not modelled,
  only an empty one.
- Launchers and daemons run on one path, in a directory they may write.
- The gate is about one thing a test would not reach: it looks at the changes of a
  branch as a whole. Size, authorship and other checks only refuse, which `Fail` does.

## 3. Runs

Sizes are distinct states.

| run | instance | shows |
|---|---|---|
| `Leases` (`MCScheduler`, 580 k) | 3 rows, 3 requests, 2 places, no prewarm; release, reset, cancel; create and export fail | `TypeOK`, `ReservationInv` (the invariant that is proved), `WithinCapacity`, refinement of `Reservations` |
| `Recovery` (`MCScheduler`, 340 k) | 1 row, 1 request, prewarm floor 1, 1 retry, every job, every provisioner call and `list_vms` fail, 2 crashes | `NoDecidedWorkLost` on a host that keeps its VMs running |
| `Restarts` (`MCScheduler`, 75 k) | 1 row, 1 request, every job and `reconcile`, a failing host, TTL, 2 crashes | `NothingStuckSilently`, `UsableSeatHasVm`, `OnlyCondemnedVmsDestroyed` |
| `Liveness` (`MCScheduler`, 83 k) | 3 rows, 1 request, 2 images, 1 place, floor 1; boots fail, VMs stop, 1 crash; fair worker | `TransientSettles`, `DeadLeaseReclaimed`, `FailedSeatClosed`, `HeadServed` |
| `Execs` (`MCExecEngine`, 3.6 M) | 1 seat, 2 execs, 2 client requests, history of 1, a shutdown; clients alike, and calls with their ids | `TypeOK`, `KillReachesWorker`, `BusyIffRunning`, `RunningIsServed`, `NeverRunsAfterKill` |
| `Service` (`MCService`, 199 k) | 2 daemons and 1 launcher, a file of a dead process or none; 2 clients with a job each, a registry of 1, 1 restart | types, `UndisputedIsReachable`, `UndisputedActsAlone`, `StaleSocketRecovered`, `StopObeyed`; `RunsOnceInOrder`, `HistoryBounded`, `JobsFinish` |
| `Clients` (`MCClients`, 383 k) | 1 seat, 2 tools, interval 2, timeout 6, 1 lost beat in a row, a server that dies; 2 callers, 1 served connection, 1 restart; 2 slots, 2 seats, 3 events | types, `KeptAlive`, `TrackedStays`; `CallPromise` (refinement of `Calls`), `ShutdownUnblocks`; `OnlyTargetStreams`, `FocusedIsShown` |
| `Storage` (`MCStorage`, 753 k) | 1 exporter, 3 commits, at most 2 exported; 2 seats and a build VM on 2 addresses; 2 images, one of them a seat type's, 1 package, 2 clients, 3 calls, 1 build record; 2 editors, 2 edits; 1 crash each | types, `OkMeansLanded`, `ExportPromise` (refinement of `Landings`); `OwnIdentity`, `DistinctAddresses`; `SatisfiedIsUsable`, `StatusIsLive`; `UpdatePromise` (refinement of `Updates`) |
| `StoppedVmLosesWork`, `DiscardExports`, `ReleaseCancels`, `Amended` | one violated property each | section 4 |

Why the bounds are enough to be interesting. One row is enough for recovery: the
operations on different seats share only the worker, the queue and capacity. Two
crashes let the recovery itself be interrupted. Three requests for two places let a
seat's end race the next claim and the admission after it; three rows let a row be
replaced twice. Two execs are enough for every pair of threads that share a seat; the
concurrency caps, which are read and acted on under one lock, are not reached by two.
Two daemons and a dead one's file are enough for two that find it together, and for one that
leaves while the other takes over; two jobs and a
registry of one for an eviction while the other is pending, and a restart for a client that
polls an id of the daemon before. Two callers share one client lock, so one may have
timed out or be blocked while the other goes on, and one served connection makes the
second wait in the backlog. An interval of 2 and a timeout of 6 is the smallest pair
in which a lost beat must be made good. Two slots and two seats are a focus that moves;
three events (clicks, seats that come and go, daemon calls that fail) are a focus that
leaves and comes back while answers of the first visit are under way. Three calls on two
images are a build, an ensure that uses the image and a removal in between, or three builds that
share one build record. Every name
of `Machines` hashes to the last address, so that the search wraps around. Three
commits are two of the agent's and one of somebody else's. What depends on no bound is
proved (section 5).

`HeadServed` excuses an instance whose rows are used up (`InState({"absent"}) = {}`):
ids are never reused, so a bounded instance runs out of them and the program does not.
It also excuses a busy seat nobody leases: an exec on a prewarm seat (`begin_work`
asks for no lease) keeps it from being evicted.

Deadlock is checked in the runs of `MCScheduler` and `MCExecEngine`: the worker can
always go on, and the threads of `Execs` that have not finished can always take a step
(`Rest` lets the instance stop only when none is left), so nobody waits for `_state_lock`
for ever. It is off in `Service`, `Clients` and `Storage`, where the bounded instances do
end: all daemons have exited, every call was made, the budgets of commits and edits are
spent. There, waiting for ever would violate `JobsFinish`, `StopObeyed`,
`StaleSocketRecovered`, `ShutdownUnblocks` or `FocusedIsShown`.

Four constants leave out something the code lets happen. `BuildsAlone = TRUE`: no image is
built while seats have addresses (`DistinctAddresses` is about seats only and needs it not;
`BuildAddressIsOwn`, which no run checks, is false without it). `OwnSeatsOnly = TRUE`: an agent
names only seats it was given; `TrackedStays` needs it and says so. `LateAnswerFails = FALSE`:
an endpoint resolves as long as its seat streams; `OnlyTargetStreams` needs it and says so.
`WriteTears = FALSE`: the daemon is not killed inside `write_text`; `UpdatePromise` needs it.
Section 4 says what happens without them. In `Daemon` and `Images` nothing is kept apart; their
properties name what they do not promise instead: a daemon that had a rival when it began to listen,
a signal before `start()` has cleared its event, and an image that is spoiled.

### Fairness

`Scheduler`: `FairSpec` adds `WF_vars(WorkerNext)`: the worker thread loops for ever
(`Manager._worker` catches everything) and every step of it is either a transaction,
a provisioner call with a timeout, or a local computation. Nothing is assumed of
clients, agents or the host, and nothing of the job drain: jobs in `JobNext` are not
fair, and the weak fairness is of the worker's *next step*, whatever it is. The
drain is left when no job is taken, which `Advance` may always do; a daemon whose
clients submit jobs faster than they run keeps the pump from running, and no
liveness property here holds of that daemon. Crashes are bounded, so eventually the
daemon stays up. `HeadServed` is checked without the RAM check and the override
(`Refusals = FALSE`), which may refuse for ever.

`Jobs`: weak fairness of the thread in a tick and of a handler that has registered a job,
strong fairness of the two workers, because each waits for the tick lock the other one
takes again and again; the lock is free for `tick_s` after every tick, so a waiting thread
gets it.

`Daemon`: weak fairness of the main thread of every process that runs. No signal, crash,
launcher or start is fair.

`Rpc`: weak fairness of the client's own step (connect, send, read what is there). The
daemon may never answer, and the timeout, which is fair in reality, is not assumed:
`ShutdownUnblocks` holds without it.

`Heartbeats`: time passes, the background thread wakes when its interval is over, and a
beat that was begun ends, in an answer or a failure (the client's timeout).

`LiveView`: both event loops turn, the wall's timer fires, the GUI's frame timer fires,
and a session that connects or streams gets a frame or fails. Fairness of the composed
runs is that of each module in the behaviours about it.

## 4. Findings

Each is a run with `expect: violation`; `PROJECT.json` quotes the line that is
contradicted.

- `StoppedVmLosesWork`: an interrupted release whose VM is found stopped is finalized
  as if exported; the work is destroyed.
- `DiscardExports`: `force_discard` keeps the intent of the failed release; a crash
  inside it revives the export.
- `ReleaseCancels`: an exec registered between `cancel_seat` and the release job is
  not cancelled. A command ends with its VM; a bookkeeping exec stays `running` on a
  seat that is off and counts against `exec.max_concurrent_total`.
- `Amended`: a refused export leaves its commit in the quarantine ref. The agent amends
  it, as the refusal asks for, and the fetch of the amended branch is refused for ever:
  the ref is not forced and nothing deletes it.

More disagreements, each with the instance that shows it; the properties are in the
modules and no run of `PROJECT.json` checks them. Give them to TLC in the run of their
component (`Service`, `Clients` or `Storage` when the table names none) with the change;
a property of a module that run instantiates needs a definition like the others at the
end of its MC module.

| property | change | what happens |
|---|---|---|
| `Scheduler!WithinCapacity` | `Leases` with 2 rows, 1 request, 1 place, floor 1, 1 retry, faults `boot`, no jobs | a failed prewarm row is retried `error -> queued` without admission: `max_seats + 1` seats occupy |
| `Scheduler!WithinCapacity` | `Leases` with job `discard` | `force_discard` of a row that is off already puts it back to `releasing`, which occupies a place nobody asked admission for |
| `Scheduler!NoDecidedWorkLost` | `StoppedVmLosesWork` with faults `probe`, `list` | while libvirt does not answer, `attach` says "absent" instead of failing, with the same result for a VM that runs |
| `Scheduler!UnrecoveredSurfaced` | `Restarts` with floor 1, 1 retry, jobs `reset`, `discard`, fault `vmvanish` | `pending_action = "reset"` survives the prewarm retry of an error row; a later interrupted discard of it is neither resumed nor reported |
| `Scheduler!HeldUntilReleased` | `Restarts` with job `reset` only | `reset_seat` accepts a held seat and rebuilds its preserved VM |
| `Daemon!OneManager` | as `Service` | two daemons probe the same dead socket, and the slower one unlinks the faster one's; a daemon that leaves unlinks the path of the one that took over, and its manager may act until it has exited (`daemon.py:5-6` says "the single process authorized to touch libvirt/QEMU") |
| `Daemon!StopObeyed` without `pc[d] # "armed"` | as `Service` | a signal before `start()` sets an event that `start()` clears; the daemon goes on |
| `Jobs!PollIsOwn` | as `Service` | job ids are counted from one in every daemon: a client that polls across a restart is told of another client's job |
| `Heartbeats!TimeoutMeansDead` | `MayDie = FALSE` | a request that is claimed while its agent neither polls nor names the seat is tracked by nobody, and its lease lapses although the server lives |
| `Heartbeats!TrackedStays` | `OwnSeatsOnly = FALSE` | a tool that names a seat before its claim applies "not found" after it |
| `LiveView!OnlyTargetStreams` | `LateAnswerFails = TRUE`, `MaxEvents = 4` | an endpoint asked for twice fails the second time: the target is dropped and the session of the first answer goes on (`gui/backend.py:617`) |
| `Images!LiveImageKept` | as `Storage` | `remove_image` checks, unregisters and unlinks in three steps; a seat made in between loses its image |
| `Images!SatisfiedIsUsable` without `spoiled` | as `Storage` | an ensure in between is told of an image that goes away; the write that should unregister an image fails, the image is unlinked all the same, and a restart finds it registered; a crash in the conversion of an image that is registered already leaves its registration on a broken file |
| `Images!ViewIsDefined` | as `Storage` | a name built twice is twice in the order; pruning one entry drops the record and `view()` looks it up for the other |
| `Machines!BuildAddressIsOwn` | `BuildsAlone = FALSE` | the address of a build VM is in no metadata file, so a seat may be given it |
| `Settings!UpdatePromise` | `WriteTears = TRUE` | `write_text` empties the file before it writes: a daemon killed in between loses every setting, and the next one starts with the defaults (`config.py:1569` says "Atomically mutate the raw config document and persist it") |
| `Settings!ReadsAgree` | as `Storage` | two changes are written to the file in one order and applied in memory in the other (`daemon.py:894-897` says reads agree) |

The passing runs of the same properties exclude exactly the cause: `Recovery` has no
VMs that stop and no failing probe, so no `StoppedVmLosesWork`; `Leases` has no
prewarm floor and no forced discard. `Restarts` checks the weaker `NothingStuckSilently`,
without a failing `list_vms` and without a prewarm floor. In `Execs`, `BusyIffRunning`
excuses the seats a reset made ready again, on which an exec that raced the reset may still
be running: the same cause as `ReleaseCancels`.

## 5. Proofs

All theorems hold for any number of rows, requests, images, processes, threads, seats
and commits. The assumptions are those named in the modules (naturals,
`DefaultImage \in Images`, model values that differ) and the ones stated in a theorem.

`SchedulerProofs!TypeInvariant`: `Spec => []TypeOK`. `TypeOK` is inductive: one lemma
per group of actions.

`SchedulerProofs!ReservationInvariant`: `Spec => []ReservationInv`. The properties
wanted are `ClaimedIffLeased`, `LeasedSeatLives` and `SeatServesOneRequest`. They are
not inductive: a release that keeps its request's status (an eviction) would strand a
claimed request unless no lease is there, a reset would hand out a used seat unless
`_reservation_live` is read with the lease, and a pump method acts on a snapshot read
many steps earlier. The strengthening says why the code is right:
`ServedSeatIsLeased` (a usable seat that ever served is leased now), `IdsGoUp`,
`PickedIsHead` (the request picked for an idle seat is still the head when claimed,
although the claim does not check it: only the worker claims or cancels),
`OperationOwnsRow` (nobody else moves the row an operation works on),
`SnapshotStands` (what a method selected a seat for still holds at the seat's turn)
and `PendingReleaseStands` (a recorded release that keeps its request's status belongs to
an unleased seat, so resuming it after a crash strands nobody). The proof shows that
every action preserves the conjuncts it can disturb.

`SchedulerProofs!ReservationsRefinement`: `Spec => Promise`. The refinement maps a
request's status, its seat and whether its lease is active; every step of the
scheduler is a step of `Reservations` or stutters on it. `ReservationInv` supplies the
guards (the head is the head, the seat is unused, lease and request close together).

`RecoveryProofs` describes each action of `Scheduler` once, by its effect on the fields
the invariants read (one `...Effect` lemma per action, `StepCases` for all of them). An
operation, a turn of a pump method and a job work on one seat `s`, so each invariant `X`
has a local form `XAt(s)`: what the step must leave true of `s` for `X` to hold of the
whole state (`XLocal`). Lemmas named `XWithin`, `XTurn`, `XJob` show that form for the steps of
an operation, the turns and the jobs; `XElsewhere` is about everything else (other
threads, the host, crashes).

- `RowsNameTheirVm`: `Spec => []UsableSeatHasVm`, on any host. The invariant `Named` adds
  that a row about to be held still names its VM, that rows not inserted have none, that
  what reconcile takes for an orphan is condemned (a VM is listed as an orphan when no
  row names it, and a row that lives does), and that what a failed resume discards is in
  error.
- `DestroysOnlyCondemned`: `Spec => OnlyCondemnedVmsDestroyed`, on any host. `Named` and
  `OperationOwnsRow` fix the state of the row in each step that removes a VM.
- `DecidedWorkIsKept`: `Spec => []NoDecidedWorkLost`, assuming `SteadyHost` (no domain
  stops by itself, and the state of one that exists can be read). The invariant `WorkSafe`
  adds that unpushed work is on a running VM its row names, that no operation that would
  delete it is under way, that a recorded release of it has an export or a stasis, and
  that reconcile's own teardowns are of rows with nothing left to keep. VMs may vanish and
  any other call may fail. Without the hypothesis the theorem is false:
  `StoppedVmLosesWork` is the run, and section 4 has the failing probe.
- `WithinBound`: `Spec => []WithinCapacity`, assuming `NoPrewarm` (`MinSeats = 0`, the
  default) and `NoForcedDiscard`. Rows in error are not counted by `WithinCapacity`, but a
  retry, a failed reset or an interrupted release may bring one back without asking
  admission. The invariant `Bounded` therefore counts them too: rows in use or in error
  never exceed `max_seats`, because every row in error is reaped (`ErrorsReaped`) before the
  pump reaches admission, and no method in between lets one fail (`NothingFails`). That
  holds of rows made for a request only, hence `Served`. Section 4 has a counterexample
  for each hypothesis.
- `NothingIsStuck`: `Spec => []NothingStuckSilently`, assuming `NoPrewarm` and `ListsVms`
  (libvirt lists its domains when the daemon starts). The invariant `Surfaced` says where every
  transient row is (`Placed`): in the hands of the operation under way, still to be
  visited by a later pass of reconcile, or settled. `ResetsEnd` says that the mark
  of a reset outlives it only on a row that lost its VM, `HoldKeepsRelease` that a stasis
  keeps its recorded release until it is reached. Section 4 has
  the trace with a prewarm floor.

`ExecProofs`: `Spec => []TypeOK` (`EngineTypes`), `[]BusyIffRunning` (`SeatFollowsExecs`),
`[]RunningIsServed` (`RunningHasWorker`), `[]KillReachesWorker` (`KillIsHeard`) and
`NeverRunsAfterKill` (`KilledNeverRuns`). The invariant `Inv` relates the place of a thread to
its record (`Stages`), the records to the history that keeps them (`Kept`: eviction drops
only what has ended), and the lock to its holder (`Locked`). `FlagFollows` says why the
busy flag is right although it is written after the count: a busy seat has a running exec
or a thread that will look (`BusyHasReason`); if an exec ends while its start still holds
the lock, whoever ended it will look later (`EndIsSeen`); nothing runs on a seat whose flag is
about to be cleared (`IdleIsIdle`). `KillInv` is about the worker table: an entry stays until
its own worker takes it out (`Registered`), and who signals has marked the record first
(`Killed`). The last three theorems assume `FreshIds`, that no exec id is used twice: with
`mcp/server.py`, which draws a random id per call (`_new_exec_id`), that is so. The
daemon takes any id from its clients, and the clean-up of an evicted record's worker
would then drop the entry of the one that reuses its id.

`JobsProofs`: `JobsSpec => []RunsOnceInOrder` (`JobsRunOnce`) and `[]HistoryBounded`
(`HistoryStaysBounded`). The invariant `JobsInv` follows a job from its handler to its end:
what a handler is about to queue is new (`EnteringIsFresh`), it is queued once
(`QueuedOnce`), what the worker has not taken has not run (`RestIsFresh`), and what it has
taken has run, but for the job at hand (`TakenHasRun`). The job at hand runs once because
the manager has one handle at most, queued, in a tick, or done (`OneHandle`), and its
thread ends the wait only when it is done (`RunIsKnown`). The bound on the history rests on
`OldestCount`: the `n` oldest of a finite set of numbers are `n` of them, so pruning that
leaves a finished job has removed enough.

`DaemonProofs!OneManagerActs` and `ServiceIsKept`: `Spec => []UndisputedActsAlone` and
`Spec => []UndisputedIsReachable`, with no hypothesis: any number of processes start, stop, race
each other and die. The invariant says of a daemon that began without a rival, and was not
told to stop, that it rules (`Rules`): the path is its own, it listens, no other process is past the
probe that would refuse it, and no other manager acts. It is inductive because a process that
starts meets a live listener at its probe, or a file at its `bind`, and because a daemon that
unlinks on its way out has bound the path before, so it would have been a rival. What the theorems do
not promise is that a daemon begins without a rival: two starts that find the same dead file, and
a start while another daemon leaves, have no such owner (section 4). `Spec => []TypeOK` is
`DaemonTypes`.

`ClientsProofs`, about `Heartbeats`: `Spec => TrackedStays` (`LiveLeaseStaysTracked`),
assuming `OwnSeatsOnly`. A discard stops the tracking when its call succeeds, whether or not the
lease has ended. The invariant: every seat the server tracks or is about to beat
was given to the agent (`KnownIsGiven`), and an answer "not found" that waits to be applied
is about a lease that has ended and will not come back (`NotFoundIsFinal`).

`Spec => []KeptAlive` (`KeptLeasesLive`), assuming `EnoughBeats`: `(MaxMissed + 1) * Cadence
< Timeout`, the cadence leaves room for the beats that may be lost in a row and one more. It
is an assumption about the network, not about the code: with the defaults of `LeasesConfig`
(60 s, 300 s) it allows three lost beats; with an interval configured above half the timeout
the cadence is half the timeout, and no beat may be lost. The invariant `KeptInv` bounds the
age of a kept lease by what is `Allowed`: one cadence for every beat lost in a row, and the
time since the last round, or a whole cadence while the seat waits in this round. Losing a
beat moves a cadence from the second part to the first; a tick adds one to both sides.

`ClientsProofs`, about `Rpc`: `RpcSpec => []CallsAreExact` (`CallsStayExact`) and the types
(`CallTypes`), with no hypothesis. `CallsInv` says of every connection that it carries one
id at a time (`CarriesOne`); of the one in use, that it carries the id of the call that
waits, unexecuted while it is on its way there and executed once when the answer is on its
way back, and that a connection found reset has left it unread (`CarriesCall`), which is why
the retry is safe; and of every id a handler may still execute, that it was not
executed and belongs to a call that is over, or to the one that waits for it, and that no call
has two of them (`PendingIsNew`), which is why a request that timed out cannot run again
nor answer a later call. Steps that execute nothing and only lose or move what a
connection carries are one relation, `Follows`, that keeps the invariant (`FollowsKeeps`).

`ClientsProofs!CallsAreServed`: `RpcSpec => CallPromise`. The refinement maps the callers that
hold the client or have an outcome to the calls made, the counts of executions to those of
the one server, and the outcomes to what is told. `CallsInv` supplies the guards: what a
handler executes was made and has not run, and an answer that is read is one of a call
that ran. `CallsAreExact` is what the promise says of a single state.

`ClientsProofs`, about `LiveView`: `LiveSpec => []SuppressedIsShown` (`StillsFollowStream`)
and the types (`LiveTypes`), with no hypothesis, and `LiveSpec => []OnlyTargetStreams`
(`StreamFollowsTarget`), assuming `~LateAnswerFails`, which section 4 shows to be needed.
`ViewsAgree` in the invariant `LiveInv` says that the signals queued for the worker lead from
what it keeps to what the GUI shows. The prover cannot evaluate the fold in `Suppressed`
by induction, so the invariant speaks of a path of views instead (`Leads`): a path grows by
a signal at its end when the GUI emits one (`LeadsOn`) and loses its first step when the
worker takes one (`LeadsRest`). That a path ends where the fold does (`SuppressedIs`) is
one induction over the length of the queue, done once with the library's well-founded
order on finite sets (`UpTo`). `FailuresAreTrue` says that a failed endpoint on its way
to the GUI is about a seat that has no stream and will have none when the answer
arrives: giving that seat up leaves no session behind.

`ExportProofs!LandedStays` and `ExportsStaySafe`: `Spec => []OkMeansLanded` and
`Spec => ExportsAreSafe`. The invariant: from the gate on, the quarantine and later the
history to be pushed are the ones that were named and approved (`Gated`), what is on the
remote passes the gate, and every reported history is a prefix of it. The lemmas are
about prefixes: they are reflexive, transitive and kept by a commit on top, and a harmless
commit on top does not change the verdict of the gate. The types are `ExportTypes`.

`ExportProofs!ExportsLand`: `Spec => ExportPromise`. The refinement maps the place of the
export to a stage: nothing is under way until the tip is read, then it is offered,
approved by the gate, and sent. What makes `Export` a step-by-step implementation is `Gated`:
the tip that was named when the guest could still move its branch is the one that is
bundled, fetched, checked, pushed and reported. `ExportsAreSafe` is what the promise says of
a step of the remote.

`StorageProofs`, about `Machines`: `MachinesSpec => []OwnIdentity` (`IdentityIsOwn`) and
`[]DistinctAddresses` (`AddressesDiffer`), with no hypothesis on what fails or crashes. In
the invariant `MachinesInv`, generated identities are in one overlay each
(`IdentitiesDiffer`), a usable seat is the one of no call (`UsableIsWhole`), and `CallIsAt`
says what the call in hand has done to its seat. The address chosen is free one step later
because only the tick thread chooses (`AddressInHand`); that `allocate` ends at a free one
rests on `LeastOf`, a least number exists in a set of them, and holds for any hash of the
names. `GenerationsCounted` bounds the generations by the identities.

`StorageProofs`, about `Images`: `ImagesSpec => []SatisfiedIsUsable` (`AnswersAreUsable`)
and `ImagesSpec => StatusIsLive` (`StatusStaysLive`), with no hypothesis but
`ImagesAssumption`. The invariant `ImagesInv` says of every image that is not spoiled that it is
`Sound`: what the file and the memory record of it is installed in it (memory may lag only while
the removal that will drop it is under way), what the job thread will register is what it
installed, and who is about to bind or answer has a whole image with what was asked for. It adds
that the job thread is on the image it planned (`JobIsOn`), and that a call that binds still has
the target it planned, although others bind in between (`BindsWhatItPlanned`: a project's binding
is never moved to another image). An image may leave `spoiled` only when neither an entry, nor a file,
nor a call is left of it, and then it is sound for want of anything to be wrong (`ForgottenIsSound`);
it stays sound while a removal deletes it, because a call that uses it then spoils it
(`NobodyUsesTheDeleted`). For `StatusIsLive`, `TrackedIsListed` says that pruning finds every record
in the order, and `PrunedFacts` that the newest record survives when its name is in the order
once, however small `MaxRecords` is: a record is dropped by the call that makes it, when its name
was listed before, or by a later build, and builds run one at a time. The instance of `Storage`
drops records of other names; the call that drops its own record takes four builds, one more than
the run has, and is the reason for the exception in `StatusStep`.

`StorageProofs`, about `Settings`: `SettingsSpec => UpdatePromise` (`UpdatesAreAtomic`),
assuming `WriteTears = FALSE`, which section 4 shows to be needed. The refinement maps the
document to what the file has, or had before the write under way emptied it (`Content`),
and what is pending to the change of each thread that has not written (`Asked`): a change
takes effect when it is written. The invariant `SettingsInv`: the lock is held from a
thread's read to the end of its write (`LockHeld`), so what it read is what the file still
has (`ReadIsFresh`), and what it writes was found valid (`FlushIsValid`). The types are
`SettingsTypes`.

The composed specifications, which the runs `Service`, `Clients` and `Storage` check, have
theorems of their own: a step of one component is a step of every other one that leaves it
alone (`ServiceParts`, `ClientsParts`, `StorageParts`), so the invariants hold side by side.
`ServiceTypes`, `ClientsTypes` and `StorageTypes` state the types of all variables (`MCService!ServiceTypeOK`,
`MCClients!ClientsTypeOK`, `MCStorage!StorageTypeOK`); `ServiceIsSafe`, `ClientsAreSafe` and `StorageIsSafe` the safety
invariants together, each under the hypotheses of its component; `ClientsKeepPromises` and
`StorageKeepsPromises` the refinements and `TrackedStays`.

Every safety property of the passing runs is a theorem, under the hypotheses above. Out of
the prover's reach and left to TLC: the liveness properties.

## 6. Not modelled

- Lock registry: operations are atomic or hold their seat's lock in the models. Only the
  manager's tick takes a repository lock, inside a seat lock, and connection threads give
  a seat lock up after a timeout, so there is no cycle of waits to look for.
- Image registry (`images.py`, `version.py`): names, hashes and version strings, no state.
- Pool view, CLI, TUI, scaffolding: formatting, argument parsing and file templates; nothing
  reads their result back.
- The fake provisioner: a test double.
- GUI layout, text, operator dialogs and the decoding of the RFB protocol.
- Guest shell commands, XML templates, TOML parsing, staging of files, screenshots and
  input: they keep no state the pool's correctness rests on.

## 7. Plan

Done: the pool (`SeatStore`, `Scheduler`, `Reservations`), execs, the job registry, the
daemon's socket, the client's calls, heartbeats, the live view, machines, images, exports
and settings, with their runs; the abstract specifications of the pool, calls, exports and settings;
proofs about every component and about their compositions.

Next, most important first:

1. The export step of `Scheduler` shown to implement `Landings`, as `Export` does: it needs
   the tip in the state of the scheduler, which keeps only whether work was pushed.
2. Several seat types and the arithmetic of dynamic admission in `Scheduler`.
3. The reuse of an exec id after its record was evicted, where the first worker's
   clean-up meets the second's entry.
