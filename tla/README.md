# Succinix, specified

TLA+ modules for Succinix, a terminal and execution engine that lives in a browser page. The page boots a
WebContainer, starts a Node daemon in it (the *host*), and lets users, plugins and other sessions run commands,
interactive shells and services through that daemon. Page and daemon share nothing but the container's file system, and
the container dies with the page: what survives a reload is what IndexedDB holds. Paths below are relative to
`src/src/` unless they say otherwise.

## 1. Inventory

| Component | State it keeps | Operations | Talks to |
|---|---|---|---|
| RPC channel, page side (`engine/client.ts`, `rpc-v2.ts`) | per WebContainer: epoch (boot nonce and request prefix), `prepared`, `paused`, a normal and a priority queue, the delivery in progress; per caller: active ids | `exec`, `request`, `pingDirect`, `interruptDirect`, `prepareHostEpoch`, `takeHostEpoch`, `resumeHostDelivery`, `requestHostShutdown` | `/cmd.json` (one slot), `ack-*.json`, `result-*.json` |
| Host poll loops (`engine/host/main.ts`, `rpc.ts`) | epoch read once at start, processed ids (4096), busy flag | normal loop, priority loop, acknowledgement, result, pruning, exit | the same files; dispatch |
| Boot, retry, respawn (`engine/index.ts`, `terminal-executor.ts`, `boot-steps.ts`, `host-restart.ts`, `app/watchdog.ts`) | the process handle, the epoch being booted | boot with retries, stop, respawn, dispose | channel, epoch file, `wc.spawn` |
| Interactive terminal, page (`terminal/transport.ts`) | nonce, input queue, sequence numbers, last output shown | `open`, `sendData`, poll, ack, fence, `renewBootNonce`, `dispose` | mailbox directory: `open.json`, `in-*`, `out-*`, `ack.json` |
| Interactive terminal, host (`engine/host/terminal.ts`, `terminal-mailbox-host.ts`) | sessions, their device with an output budget | scan, open, replace, expire, flush | the same directory, terminal hub |
| Terminal hub (`engine/terminal-hub.ts`) | device, pending output and input, batch gate | attach, write, `runBatch`, input queueing | Lifo shell |
| Page-level host manager and service life cycle (`plugin/host-manager.ts`, `service-lifecycle.ts`) | state, generation, process; container state, `shutdownDone` | attach, boot, detach, stop, restart of fibers | channel, executor |
| Instances and host service (`instance`, `plugin/host-instance-manager.ts`, `host-service*.ts`) | map of instances, ports, sessions | ensure, restart, release | host manager, persistence, services |
| Processes (`engine/host-procs.ts`, `host/spawn.ts`, `host/process-world.ts`) | process table, timers, public pids, foreground run | register, finish, kill, expire, prune | child processes |
| Python daemon client (`engine/python-daemon-client.ts`) | child, ready promise, pending commands | start, exec, kill | child process |
| Command dispatch (`engine/host/run.ts`, `engine/host-route.ts`, `tokenize.ts`) | sessions' working directories | routing of a line to a runtime | all runtimes |
| Snapshots (`persist/context.ts`, `binary-v2.ts`, `restore-staging.ts`, `app/auto-snapshot.ts`) | dirty mark, status, cleared flag, in-flight save; generations in IndexedDB; timers | save, force, clear, load, flush, stop | container export and mount, watcher, IndexedDB |
| Session log (`persist/session-segments.ts`, `plugin/persistence-service.ts`) | manifest in memory and on disk, segment files, reservations | create, append, prepare, load, list, compact | container files, forced snapshot |
| Files (`plugin/fs-service.ts`, `fs-mutations.ts`) | a lock per target | read, edit, write atomically | container files |
| Services and userland (`services`, `engine/host/service-world.ts`, `userland`) | unit files, enablement, templates | start, stop, restart, enable, remove | Lifo service manager, ports |
| Contexts (`engine/host/run.ts`, `process-world.ts`) | the promise of each instance's sandbox, its terminal, its public pids | ensure, attach, run, reset, exit, `ps`, `kill` | lane, hub, userland |
| Session state (`engine/host/config.ts`, `workspace-world.ts`) | directory, environment and workspace of each instance | `cd`, `export`, `setCwd`, `workspace`, the 250 ms timer | files in the container, the page's environment writer |
| Language runtimes (`python-assets.ts`, `python-daemon`, `ruby*.ts`, `host/wasi.ts`) | injected files, the daemon, pip's manifest, one request and one marker of Ruby, a worker | inject, run, answer, install | page's asset bridge, child processes |
| Control bridge (`engine/host/control.ts`, `browser-control-bridge.ts`) | a request and a response file per request | ask, poll, carry out, answer, remove | page |
| Userland and packages (`userland`, `pkg`, `package-world.ts`) | registrations, the published file, what is applied; the package manifest | register, publish, sync; install, remove, upgrade | shell of each sandbox, Lifo, npm |
| Application (`host/plugins/container.ts`, `terminal/boot.ts`, `boot-steps.ts`, `log.ts`) | the start's promise, the steps, the system log | start, restore, retry, reset; log, clear | everything above |
| Git, editors (`git-world.ts`, `editors.ts`) | one command; one buffer | clone, fetch, push, cancel; keys, resize, save | libraries, files |
| Project world, schemas, plugins' wiring, UI, self test | templates, tables and views | - | the components above |

What is hard here: the page runs many callers on one thread, each await a point where another may run; the daemon is a
second process that shares only files with it, polls them, and may die between any two file operations; the slot of the
channel holds one request; a daemon and its replacement may overlap; a tab may be suspended for minutes; a snapshot is
taken while programs write and while a session's log is half-way through an append; and a page may be closed at any
instant. Instances share the host, the page's ports and the persistence contexts, and come and go while their parts still await
something. `PROJECT.json` lists the forty hazards that matter most, each at the line where it bites, with the properties that watch it.

What makes each part correct: the channel executes a command at most once, never in a daemon of another epoch, and
settles every caller within its budget; the terminal delivers keystrokes and output in order, once, to the session they
were meant for; the host manager never leaves two daemons alive nor says *ready* of one that cannot be reached; a snapshot
that is current is whole, a clear is final, and no write is forgotten by the saver; an acknowledged event of a session is
never lost, rewritten or hidden from a reader; a process that runs is known under its pid and ends; a runtime reported ready is whole; an
instance has one world, one engine and one view of its ports; a write to a guarded file replaces the version it names; what was
acknowledged (a service enabled, a package installed, a directory changed) is still there after a restart; and a command that is over
stays over.

## 2. Modules

| Module | Models | State and actions against the code |
|---|---|---|
| `RequestLifecycle` | abstract: what the channel promises one caller | `caller`, `runs`, `void`; submit, run, settle |
| `RpcChannel` | the channel, both poll loops, boot/respawn/dispose | `ch` is the `Channel` record, `delivery` the pump, `cmdFile`, `acks`, `results`, `epochFile` the files, `loop` the two poll loops of each process, `driver` the executor. `PumpDeliveries`, `WriteCommand`, `TakeAck`, `RejectDelivery`, `Accepted` are the awaits of `pumpDeliveries`; `Compare` and `Unlink` the two halves of `removeIfSame` |
| `RpcChannelProofs` | theorems about types, commands, slot and fence of the channel, and the refinement of the life cycle of a request | section 5 |
| `TerminalMailbox` | one terminal session, both ends of its mailbox | `cl`, `opening`, `renewing`, `drain`, `acking` are the page's fields and its suspended async calls; `host.pc` and `host.names` the scanner inside one poll; `ses`, `term` the session and its device |
| `HostManager` | attach, boot, shutdown of the page-level manager under the service | `mgr` is the manager, `svc` the service's view, `call[c]` where each caller's await stands, `ch` the channel reduced to epoch, `prepared` and `paused` |
| `Snapshots` | the context, the binary store, restore and the auto snapshot controller | `job` is the save in flight (each await of `doSaveV2` and `binary.save` a `pc`), `wipe` a clear, `load` a restore, `auto` the controller's timers and flags, `chunks`/`manifests`/`pointer` the three IndexedDB stores |
| `SessionLog` | one session's manifest and segments behind the provider | `disk` is the container, `mem` the manifest in memory (changed in place by `append`, before anything is written), `op` the operation that `serialize` lets run, `list` a listing beside it, `image` the container as the last snapshot saw it |
| `TerminalHub` | one instance's terminal hub | `device`, `pendingOutput`, `pendingInput`, `pendingSubmitted`, `interactive` are its fields, `tail` and `turn` the chain of batches; `FlushSubmitted` is the microtask that follows a prompt |
| `ExecutionContexts` | the sandbox of an instance and its public pids | `phase[w]` is where the creation or the end of world w stands, `current` the map's entry, `taken` and `laneOwner` the command on the lane, `pidOf` and `listed` the projection that `ps` shows |
| `HostProcesses` | the process table | `child` is the object in memory with its timers, `table` maps a pid to it, `current` the foreground run; the system gives a pid away again after `Exit` |
| `PythonRuntime` | assets, client, daemon and pip | `call` where each command stands in the page or the host, `client` the daemon in use and the pending ids, `proc[d]` each daemon with its pipes, `site` and `manifest` what pip left on disk |
| `RubyRuntime` | the hand-over of the runtime | `request` and `marker` the two files, `cmd` the host's commands, `load` and `batch` the page's |
| `WasiRuntime` | one program in a worker | `run` the command, `thread` the worker and its messages, `stdout` what was passed on |
| `GitWorld` | git over an external library | `command[c]` the operation, its step, what it sent |
| `Editors` | vi and nano | `buffered` keys of a chunk, `orphans` reads left under way by a resize |
| `BrowserControl` | control requests | `requestFile`, `response` the files, `bridge` the page's poll with its list of names, `host` the waiting commands |
| `Commands` | a command through telemetry, runtime and executor | `cmd[c].pc` its await, `queue` and `lane` the channel below, `announced` the events |
| `SessionState` | directory, environment, workspaces | `session` and `shellState` the two directories, `env`, `envFile`, `posted` the way of the environment to the page, `pointer` and `dirs` the workspaces |
| `Paths` | the three names of a file | operators translated from `host-route.ts`; the state only walks through all paths |
| `UserlandRegistry` | registration to shell | `writing` and `mailbox` the publication, `sync` the updates, `applied`, `release` what the sandbox has |
| `Packages` | two package sources and the manifest | `payload` what is there, `manifest` what is recorded, `job[a]` the page, the shell and the reconciliation |
| `Services` | systemctl, bridge, client | `order[u]` where a command stands, `claim` and `owns` the port, `gate` the readiness wait, `marker` and `saved` the enablement |
| `Instances` | map, engines, ports | `view` the map, `engine` each engine with its hooks, `op[c]` the callers' awaits, `expected`, `ready` the ports |
| `TerminalSessions` | agents' terminals | `terminal[s]` a spawn and what became of it, `record` the registry, `cleanup[k]` a disposal |
| `FileService` | guarded writes to one target | `queueTail`'s `tail` the lock, `edit[e]` a call, `temp` its temporary file, `byShell` what a command of the world wrote |
| `AppBoot` | the start of the application and the reset | `at[r]` the awaits of the start and of each reset, `disk` and `snapshot` the files that matter, `watching` auto-snapshot |
| `TerminalBoot` | `createTerminalBoot` | `pc` the step, `bootStep`/`bootTotal` the counter of the progress line, `spawned`/`killed` the hosts |
| `SystemLog` | `log.ts` | `chain` the promises, `before` what a turn has read, `clearing` the clear |
| `HostRuntimes` | composition for TLC: Python, processes, hub, Ruby | a behaviour is one of the component in `focus` |
| `Parts` | composition for TLC: the other seventeen | the same |
| `HostManagerProofs` | theorems about the manager's boots | section 5 |
| `SnapshotsProofs` | theorems about the generations of a snapshot, and about the writes it covers | section 5 |
| `SessionLogProofs` | what the folds of the session log compute; the stored log, prepared sessions, whole sessions and listings | section 5 |
| `MailboxProofs` | the order of a terminal session's input and of its output | section 5 |
| `HostRuntimesProofs` | Python's answers and daemon, Ruby's files, the table of processes, a terminal's output and input | section 5 |
| `HostPartsProofs` | of `Parts` the execution contexts, packages, userland registry, services, and the commands that are over: WASI, git, browser requests, the executor | section 5 |
| `PartsProofs` | of `Parts` the agents' terminals, instances, the system log and the two boots | section 5 |

`HostManager` composes with `RpcChannel` through the channel record, restated at the granularity the manager works on.
`Snapshots` and `SessionLog` meet in the image of the container: `Snapshots` shows that a generation comes back whole or not
at all, which is what `SessionLog`'s `Crash` relies on when it brings back one earlier state of all files at once.

### Abstractions that hold throughout

- A name, a command, a payload is a small number or a member of a set; a file's contents are the record the code parses
  out of it. A write through a temporary file and a rename is one step.
- Timers may fire at any moment while they are armed. The page's file operations on one container take effect in the order
  they are issued; promises of different calls interleave freely.
- Bounds are constants named `Max...`; they limit how often something happens, never what an action does.
- `HostRuntimes` and `Parts` put components beside each other that share no variable. Their steps commute, and every property of
  them speaks of one component, so it is enough to look at each alone: `focus` names the component that takes all the steps of a
  behaviour, the others stay as they began. Each component is a specification of its own (`Spec`) and can be checked alone.
- Each module states one type invariant and its properties. Some modules end with operators that a comment marks as mutants of a
  definition: plausible bugs of that definition, under which TLC refutes the property or the conjunct that the comment names.

### Per module

- `RpcChannel`: an epoch stands for the nonce and the prefix drawn with it; a process that is killed before it reads its epoch is taken never
  to start; `KillLag` says whether `kill()` returns before a running host has stopped, `AllowReboot` whether a disposed
  executor boots again. Malformed requests, which the page never writes, and the watchdog's ping counting are left out.
- `TerminalMailbox`: frames without data (resize, focus, clear, heartbeat) are left out and the host's byte budget is counted in
  frames. A write fails only because its directory was removed. `Expire` may happen at any time, which
  over-approximates the TTL. `Only(id)` restricts three properties to sessions that are the only one of their nonce (see 6).
- `HostManager`: the page calls `WebContainer.boot()` once, so only attach mode is modelled; callers are numbered in the order of
  arrival; `WaitForAll` is the discipline that no boot begins while a shutdown runs.
- `Snapshots`: a file's version is the number of the write that made it, so a dedup signature is a set of such pairs, in the worst case blind to an edit
  that keeps the size; programs write once the controller is attached; one restore runs at a time; clears, saves asked
  for, restores, failures and reloads share one bound.
- `SessionLog`: a turn is two events, so an odd log is one with an open turn. Loads and preparations may come at any time, also
  for a session that is live, because the application builds the provider without `isLive` (`plugin/host-service.ts:108`).
  Torn segment files, which only something outside the code can produce (every write is a rename), the legacy store and the cache of
  inspections are left out. `compact` has no caller in the application; it is modelled as the public operation it is.
- `PythonRuntime`: a daemon is known by the number of its spawn; exit codes and what is printed are left out. Two commands, two daemons and
  one fault: a daemon is killed while its replacement serves.
- `RubyRuntime`: one request file and one marker, as in the code; two commands that ask for the runtime.
- `HostProcesses`: a child exits before it closes, its pid may be given away in between; two children over two pids, one entry kept.
- `TerminalHub`: Lifo's shell is external; the reactions of a promise run before the next event. Three inputs, two chunks of output, two batches, room
  for two.
- `ExecutionContexts`: the lane runs one command at a time; three worlds (one replaced twice), four commands, one process.
- `SessionState`: four changes over two workspaces and two values, one restart of the host.
- `BrowserControl`: two requests, valid for one tick of three.
- `WasiRuntime`: a program writes up to three pieces of output. `GitWorld`: isomorphic-git is external, of which the code uses that an
  aborted request rejects; two commands and one failure. `Editors`: a buffer is the number of its changes, without the cursor's arithmetic; three
  keys, two changes, one resize.
- `Paths`: all paths of up to five segments.
- `UserlandRegistry`: a published snapshot is a set of registrations; four changes, four updates.
- `Packages`: one package, two operations beside the reconciliation of the start.
- `Services`: the units of an instance, with the Lifo service manager external; two units, three commands over all of them, two events of ports,
  one lost request.
- `Instances`: two ids that want one port, three engines, two callers. With `Overlap = FALSE` a caller waits for the others; section 6 says
  what happens otherwise.
- `TerminalSessions`: two owners and the service itself, two spawns, one terminal that ignores its signal.
- `FileService`: two edits, one write of a command in the world between any two of their steps, one failing step.
- `Commands`: two calls, one listener that throws.
- `AppBoot`: one reset, two tries, a reload and a fault at any step. `TerminalBoot`: three attempts to boot, three probes, two services. `SystemLog`: five lines of
  which two are kept, one failing read.

## 3. Runs

| Run | Question | Bounds, and why they suffice |
|---|---|---|
| `rpc_epochs` | Does a command ever run twice, or in a host of another epoch; does the slot lose a request; does the host that is up share the page's epoch? | two epochs, three requests, late kills and reboots allowed: enough for an old request in the slot, a retry, and a second host |
| `rpc_life` | Does every request settle, once, and never through a dead host; does the channel implement `RequestLifecycle`? | two epochs, two requests of two instances, blank commands and interrupts: both lanes, the identity check and both ways out of a delivery |
| `mailbox_input` | Do keystrokes reach the shell in order, each once? | two keystrokes, three frame numbers (a failed batch burns some), two nonces, hosts and sessions, expiry |
| `mailbox_output` | Is output kept until seen, shown in order, shown in the end? | two chunks, a budget of two, three sessions, two nonces and hosts |
| `host_manager` | Does a boot keep its epoch, is a ready host reachable, do orphans die? | three callers that attach, shut down or both, two retries, two processes |
| `snapshots` | Is the current generation whole, does a clear erase what was in flight, is every write saved? | two files, two chunks, two writes, a clear, any two of save, restore, failure, reload |
| `session_log` | Are acknowledged events kept and never rewritten, is the log one run of seqs, do listings and preparations see it whole? | five events, batches of up to three over segments of two (so one append touches three files), a compaction, two loads, a fault, a reload |
| `host_runtimes` | Does every Python command get its own answer, is a runtime that is ready whole, is a running process listed and every run answered, does the terminal keep its order and let its input go? | section 2; each component has a fault or a replacement in the middle of a second request |
| `parts` | What do the other seventeen parts keep through their races, failures and restarts? | section 2; units of services are interchangeable, hence the symmetry |
| `mailbox_dead_host`, `snapshot_clear`, `hub_overlap` | refute what a comment says | as small as the counterexample allows |

The passing runs check:

- `AtMostOnce`, `NoCommandCrossesRestart`: a retry, an acknowledgement given again, a request left in the slot or found there by a
  second host never begins a command twice or in another epoch.
- `UpHostSharesEpoch`: through boot retries and failed respawns, the host that is up reads the epoch the page uses.
- `NoSilentOverwrite`: two lanes, several instances and the direct pings share one slot; a request is replaced there only when its
  caller knows what became of it.
- `OldHostNeverConsumes`, `OldHostNeverSettles`, `ImplementsLifecycle`, `EveryRequestSettles`: the shutdown fence, the identity of results,
  the refinement of `RequestLifecycle`, and the termination of every call.
- `InputInOrder`, `OutputKeptUntilSeen`, `OutputShownInOrder`, `OutputIsShown`: the terminal, across failed batches, fences, renewals,
  expiry and replaced hosts.
- `BootOwnsChannel`, `ReadyHostIsReachable`, `OrphansDie`: the generations of the host manager.
- `ActiveIsWhole`, `InFlightIsErased`, `NothingForgotten`, `EveryWriteIsSaved`: saves, clears, crashes and the two timers.
- `AckedIsKept`, `SessionIsWhole`, `NothingIsRewritten`, `ListerSeesAcked`, `PreparedIsCurrent`: the session log.
- `AnswersAreOwn`, `ReadyIsWhole`: a late answer of a killed daemon, pip cut short, a Ruby injection interrupted.
- `ProcessesKept`: a reused pid, an expiry or a forced kill that fires late.
- `HubKept`: output order through devices that refuse and change; no input held back for a batch is dropped.
- `HostGoesOn`: the four of the host as they come to an end: a daemon that ends before it says READY, a child that ignores its signal or leaves its pipe open, input held back,
  a batch that gives up.
- `ContextsKept`: one world of an instance at a time through creation, reset and exit; a public pid never comes to mean another process.
- `UserlandKept`: what the manifest lists is there; the published snapshot is the latest; a shell is never released by an update that was overtaken.
- `ServicesKept`: a start that is reported has listened, a start that failed holds no port and no process, an acknowledged enablement is saved.
- `KnownIsLive`: what the page knows of an instance is the engine that lives.
- `TerminalsKept`: a disposed owner has no terminal; a terminal that is open counts as activity of its owner; names are distinct.
- `SessionKept`: directory, environment and workspace outlive the host, a workspace in use is not removed; the three names of a path agree and stay inside.
- `OverIsOver`: a command that was answered, cancelled or timed out does nothing any more, and is announced once.
- `EditsAreKept`: a guarded write replaces exactly the version it names; keys reach an editor once, in order.
- `BootKept`: a start brings back the snapshot, a reset nothing; the host a boot returns is the only one.
- `LogKept`: lines in order, none dropped by another, and a clear that nothing disturbs empties the log.

The composite properties of `HostRuntimes` and `Parts` are conjunctions of named properties of their components, one clause per component; the
comments above them say which code each clause is about. The type invariants of `TerminalMailbox`, `HostManager`, `Snapshots` and
`SessionLog` hold on the same instances and are not listed, since nothing but a wrong model breaks them.

Each has a mutant in `PROJECT.json`, a plausible bug in the code it speaks of, under which TLC refutes it. Deadlock is not checked in
any run: every instance stops when its bounds are used up, and a page with nobody typing is idle by design.

## 4. Fairness

Only what the code schedules by itself is fair: promise continuations, timers that are armed, poll intervals. `RpcChannel` is fair to the
page's delivery, to the polling of results, and to the driver's own steps (the watchdog tries a failed respawn again); nothing is
assumed of the host, whose death and silence are what the time limits are for. `TerminalMailbox` is fair to both pollers and to an `open()`
in flight; nobody has to type, and a session may end. `HostManager` is fair to the steps that follow an await; a probe
ends by its deadline only while pings are delivered, because the code examines the deadline between pings. `Snapshots` is fair to the watcher,
the timers, and the steps of a save, a clear and a restore; storage may fail at any of them, within the bound.
`HostRuntimes` is fair to each component's own steps: in `PythonRuntime` the injection of the assets, the sending of a command and its time limit, the events of a
daemon's output and exit, and the end of its loading, one way or the other; in `HostProcesses` the close of a child whose output nobody holds, the armed timers and the confirmation of
a spawn; in `TerminalHub` the microtasks, the end of the batch that runs and the time limit of the wait. No property of `Parts` needs fairness.

## 5. Proofs

`RpcChannelProofs` proves, for every number of epochs, requests, commands and instances, from the four named assumptions on the
constants of `RpcChannel` only:

- `TypeCorrect`: `Spec => []TypeOK`. `TypeOK` alone is not inductive: what may lie in a queue, in a delivery or in a loop depends on the `pc`,
  so `TypeInv` adds `Shape` (`PreparedType`, `LoopShape`).
- `ExecutedAtMostOnce` and `EpochsAreFenced`: from `HostInv`. A command begun is in the processed set of the process of its epoch (`StartedInv`); a process that
  is up has read exactly its own epoch (`UpInv`), since the driver writes the epoch file before it spawns (`EpochFileInv`) and no other process starts
  in between (`StartingInv`). The guard of `Begin` then excludes a second start and a foreign epoch, whatever lies in the slot. The
  argument covers late kills, reboots and crashes between any two file operations. Steps that touch none of the variables involved are dealt
  with at once (`Untouched`).
- `SlotIsNotLost`: `Spec => NoSilentOverwrite`, from `SlotInv`: ids are numbered in the order of submission (`NumberedInv`), a queued id is one
  that was given out (`LaneInv`), and the only unsettled request that was ever written is the one in delivery (`DeliveryInv`). So whatever is
  in the slot when the next request is written belongs to a caller that was acknowledged or told of the failure.

It goes on with the fence:

- `HostSharesThePagesEpoch`: `Spec => []UpHostSharesEpoch`. The driver's epoch is the page's unless a fence has prepared the next one, and the process it
  has up was spawned for it (`EpochInv`, `ProcInv`); only a stop of that host, awaited by the driver, prepares while it is up.
- `OldHostsNeverConsume` and `OldHostsNeverSettle`, for `~KillLag`. Once the driver is past a host, that host is dead (`AliveInv`), every host that runs is of the
  page's epoch or the channel is paused with the next one prepared (`BehindInv`, `PauseInv`), at most one exit request is on its way (`ExitInv`), and what
  a loop has read of the slot and a refusal lying in a result file are of an epoch no later than their reader's or writer's (`LoopInv`, `StaleInv`). With `KillLag`
  both are refuted (section 6).

Last it proves `ChannelImplementsLifecycle`: `Spec => ImplementsLifecycle`, the channel refines `RequestLifecycle`. A request that has been submitted and not
settled is in exactly one place, one position of one lane or the delivery (`PlaceInv`), so a step that settles it is the only one that can; what has been acknowledged, processed or
answered was begun, and what was begun was written (`RunInv`). With those two and `HostInv`, every action of the page, the host and the driver is a step of the life cycle or a
stutter: a submission, one settlement with its outcome (`SettleImplements`), the beginning of one command (`BeginImplements`), or the settlements of a whole fence at once (`FenceImplements`).

`HostManagerProofs` proves, for any number of callers, retries and processes, under `WaitForAll`, `BootKeepsItsEpoch` (`Spec => []BootOwnsChannel`) and `ReadyMeansReachable`
(`Spec => []ReadyHostIsReachable`), from one invariant: while a shutdown may fence the channel the manager is disposed (`FenceInv`), so no boot is current; boots have distinct
generations and epochs (`GenInv`, `EpochInv`); once the current boot has written its epoch nobody is about to write an older one
(`FileInv`); a process belongs to the boot that spawned it (`SpawnedInv`, `ProcInv`), and the one of the current boot, or of a ready manager, lives and has or will
read the page's epoch (`LiveInv`, `ReadyInv`). Without `WaitForAll` the first part fails, and TLC shows how.

`SnapshotsProofs` proves `PointerNamesWholeGenerations`: `Spec /\ []OneClearAtATime => []ActiveIsWhole`, for any number of files, chunks, saves, failures and reloads. A
clear keeps new saves from reaching the store, and waits for the old one (`ClearInv`); a save writes a generation newer than both the pointer
names, so it overwrites no chunk of them (`FreshInv`); it has stored every chunk and the manifest before it moves the pointer (`StoredInv`). The assumption
says that two clears do not overlap; where they do, the property fails (section 6). `ClearsEraseWhatWasInFlight` (`Spec /\ []OneClearAtATime => []InFlightIsErased`) goes on from the same invariant:
clears begin in order, a save that reads or writes the store beside a clear began after that clear, since the clear waited for the ones before it, and a manifest remembers how many
clears had begun when its save did; so once a clear has completed the pointer names a generation of a later save, or none.
`WritesAreNotForgotten` (under the same condition, and where the container can watch the tree) says that a write no completed save covers is known to the watcher, a timer, a save or
a clear, unless a save has failed or the controller was stopped. That alone is not inductive, for two reasons. A completed save also forgets that an earlier one failed, so what was written
since its export must be known without that excuse (`SinceInv`); and a save that nobody forced may find the signature unchanged and store nothing, so only a forced one, or an export of all
that was written, counts as knowing (`UnsavedInv`). `SettlesKnows` is the lemma that carries it: what is scheduled when a save settles is still scheduled, or is the next forced save.

`MailboxProofs` proves `InputKeepsItsOrder`: `Spec => []InputInOrder`, for any number of keystrokes, frames, sessions, hosts and renewals, from the assumptions on the
constants of `TerminalMailbox`. First what each action does to the input is stated once (`OpenDoes` to `HostStartsDoes`), and the rest argues from those lemmas alone. `MailInv` says
whose the files are: all frames and `open.json` carry the page's nonce, a fence leaves none and fails the batch in flight, and frames that came after the host
listed the directory are numbered behind the listed ones. The order follows from `FlowInv`: what the page's session got, the frames it has not taken, the batch
in flight, the queue and the items behind an `open()` are in the order they were typed, wherever a failed batch is put back; a dispose frame has no place in it. That nothing
is left out is `LostInv`: as long as the nonce has had no session yet (`Virgin`), or has its only one, each item queued under it was taken, or is in a frame or in the queue, or is
behind a dispose frame, which ends the session before the item's turn. So when a frame is taken, whatever came before it was taken too.

The way back is `OutputIsKept` (`Spec => []OutputKeptUntilSeen`) and `OutputIsInOrder` (`Spec => OutputShownInOrder`), from `OutputInv`, which adds `OutInv` to `MailInv`. An acknowledgement, be it
under way in the page, in `open.json`, in its file or with the host, never exceeds what the page has counted, and a fence leaves none (`AckInv`), so the host removes only frames that were shown. A frame carries
the nonce of the session that wrote it, and nonces only go up (`PlaceInv`), so the frames of a session that was replaced are recognised. What the page has counted is what the user has
seen of the session of its nonce (`SeenInv`), and a chunk it has not counted is in its file (`KeptInv`). So the next frame the page shows is the next chunk, and nothing unseen is removed.

`SessionLogProofs` proves, for every capacity of a segment, every length of a batch and any number of compactions, loads, failing writes and reloads, from the one assumption of `SessionLog`:

- `AcknowledgedIsStored` (`Spec => []AckedIsKept`) and `LogOnlyGrows` (`Spec => NothingIsRewritten`), from `StoreInv`. The manifest in memory goes on where the stored one ends (`BaseInv`); what was
  acknowledged is at the beginning of what the stored manifest names, and older than its next seq (`AckInv`); the writes that an append has left change no event that the stored manifest names, since only its last
  segment may be written, and only by a text that goes on where it ends (`WritesFit` in `WriteInv`); a compaction has copied what the manifest in memory names under a name of its own, and removes only files that the
  stored manifest does not name (`CompactInv`).
- `PreparedStaysCurrent` (`Spec => []PreparedIsCurrent`), from `ViewInv`: while a preparation is reserved no append is under way, and one of a load ends with every turn closed.
- `SessionStaysWhole` (`Spec => []SessionIsWhole`), from `WholeInv`: where no write has failed, the stored log is contiguous and counted by its manifest except inside an append, whose plan is contiguous and is counted when
  it is done. A page that comes back with a torn log can neither append nor close: its caller does not know the next seq, and a load computes another.
- `ListingIsComplete` (`Spec => []ListerSeesAcked`), from `ListInv`. What a listing has read and what it has yet to read begin with what was acknowledged when it began (`Seen`), in one of two ways. Its segments are still the
  manifest's, and those that were acknowledged are as they were (`Current`); or a compaction has passed, and each is as it was, or gone, or goes on with events that are no older than the ones acknowledged (`Passed`), so that
  what is read there breaks the run of seqs and the listing is refused.

What `Plan` and `Read` compute is proved as well, by induction: the library's induction theorems take an operator, but a well-founded order gives a least element of a set of numbers or of lengths (`SetInduction`, `SeqInduction`),
and with it `FlattenSeq` and `FoldLeft` follow their equations (`FlattenAppend`, `FoldSteps`), and the fold of append yields names, texts and writes that hold the old log and the batch behind it (`Filling`, `StartsPlan`).

`HostRuntimesProofs` needs one assumption, `RuntimesAssumption`: the bounds are numbers, pids are positive, and no command of Ruby is called as the request that is not there. Each of the four components has an
inductive invariant that its steps keep (`...Steps`), and the steps of one leave the variables of the others alone (`RuntimesStep`). It proves, of `FairSpec`, whose fairness none of them needs,

- `AnswersGoToTheirCommands`: `FairSpec => []AnswersAreOwn`. An id is given with each command handed over, so there are no more ids than such commands (`IdsAreGiven`), whatever child is killed: the counter goes on. A line in
  the pipes of any daemon, also of one that was replaced, has an id that no other pending command has (`LinesAreOwn`). That the commands a daemon has waited with are numbered apart when it becomes ready rests on a lemma
  about the places in their order (`PlacesAreDistinct`).
- `ReadyRuntimesAreWhole`: `FairSpec => ReadyIsWhole`. A daemon that becomes ready has just dropped from its list and from the disk what is not whole (`ReadyListsWhole`); for Ruby a marker, a load that is done and a command that
  returned stand for a complete installation (`ReadyIsComplete`), although they are seen at different awaits.
- `ProcessesAreListed`: `FairSpec => []ProcessesKept`. A process that runs has the row of its pid and an entry that says so, a row carries its process's pid, and only an ended entry is ever due to be forgotten (`ListedWell`). Every handler but the
  two that start a process tames what is there: no entry comes to life, no pid changes (`Tamer`), so the invariant is about start, prune and expiry alone.
- `HubIsKept`: `FairSpec => HubKept`, with its action property. What was shown comes before what is pending, both in the order of writing, and until the budget is exceeded every chunk is in one of the two (`OutputKept`, `AllIsThere`,
  carried over a device that takes a part by `TakenStays`); the pieces of input held back fit the room and leave only for the shell (`HubInput`, `HeldStep`).

The theorems about `Parts` need its one assumption, `BoundsAssumption`: the bounds are numbers, the log holds at least one line, a host is waited for at least once, no reset is called as the start, and no command is
called as the temporary file that is not there. Each part has an inductive invariant that its own steps keep (`...Step`); a step of `Parts` is one of the part or leaves the part's variables
alone (`...InFocus`, `...Stay`), so the invariant holds whatever is in focus.

`HostPartsProofs` proves

- `ContextsAreKept`: `Spec => []ContextsKept`, for any number of worlds, commands and processes. Until the host exits, the world in the map is the only one alive and the command in the lane is at
  work in it (`LaneHasWorld`); public pids are given out in order, each to a process of that world, and `ps` has shown them (`PidsAreShown`), so a listed pid cannot come to mean a newcomer. That one
  projection numbers its processes apart rests on a lemma about the ranks of a finite set (`RanksAreDistinct`). The exit, after which the property says less, is part of the invariant.
- `UserlandIsKept`: `Spec => []UserlandKept`. That a recorded package is there is inductive with the types of the jobs (`PackagesInv`); for the registry, the snapshot being written while no other
  publication is due is the registry, and an update has read a release that was there (`UserlandInv`).
- `ServicesAreKept`: `Spec => []ServicesKept`, for any units. For each unit: the `pc` of its command says which verb it has and what it has tried (`OrderIsInLine`); an open port was heard of, a gate is of a port the
  bridge owns, and what a start has waited for has come (`PortsAreInLine`); a marker is set before the snapshot is taken and stays (`MarkIsInLine`).

- `CommandsAreOver`: `Spec => OverIsOver`, nine invariants and three action properties over four parts. Only a WASI program that waits has a timer or a listener that could
  settle it, and it has no answer before (`WasiInv`); what the git library still does is a step of the command's operation, and a success has made them all (`GitRecordKept`; the steps of every operation
  are counted in `StepsOfGit`); a request of the browser that was carried out is in the hands of whoever removes its file, and one whose command has timed out has expired for the bridge as well
  (`RequestKept`); a call has neither answer nor finish event before it is done, and, once the signal of `exec` has fired, no answer but one that says so (`CallKept`).

`PartsProofs` proves

- `TerminalsAreKept`: `Spec => []TerminalsKept`. What is open in the execution world is on its way to the registry, or in it and not closed (`OpenIsHeld`); names are apart from their reservation on
  (`ReservedNames`); a disposal waits for every spawn of its owner that is under way and then for every terminal that is open (`DisposalWaits`).
- `KnownInstancesAreLive`: `~Overlap => (Spec => []KnownIsLive)`. One call works on an id at a time and a shutdown alone (`CallsAreAlone`), so what a call has found still holds at its next step
  (`CallsAreCurrent`), and an id that no call is taking away is known by a live engine that hears of its ports (`StaysLive`). With overlapping calls for one id TLC refutes the property.
- `LogIsKept`: `Spec => LogKept`, with its action property. The calls in the chain are in their order and later than every line of the file (`ChainIsLater`); what the first of them has read is still the
  file, or nothing, or the file has been emptied since (`ReadIsFresh`), so what it writes keeps every line that is there but for the cut (`WrittenFile`).
- `BootIsKept`: `Spec => BootKept`. Of `TerminalBoot`: before each new host the one before it was killed, so that those killed are all but the last (`ProcessesAreOld`), and the counter of the line stands where the steps still to come begin,
  however often the host was tried (`StepsAhead`). Of `AppBoot`: resets come after the start (`ResetsFollowStart`) and one at a time (`OneReset`); after a restore that went well what the snapshot has of the user is on the disk, and the
  later steps leave it (`WorkIsBack`); while a reset runs in which nothing has failed no command writes, and what it has cleared and removed stays so (`ResetIsClean`).

Model-checked only: liveness (outside the prover's reach, as is ENABLED), and of `Parts` `EditsAreKept` (the editors and the guarded writes) and `SessionKept` (the session's directory and environment, and the paths), which are about what a
fold computes of a text or a path: induction over data, of which only the equations the session log needed were derived. No module declares a recursive operator.

## 6. Where the code and its documents differ

Three runs end in a counterexample and are the findings of `PROJECT.json`:

- `mailbox_dead_host`: a replacement host opens the dead host's mailbox under its old nonce and feeds the input meant for it to a new shell, before
  the page renews the nonce (`app/watchdog.ts:128`).
- `snapshot_clear`: the cleared flag is read after the tree was collected; a save that was collecting all through a clear writes the snapshot back
  (`persist/context.ts:343` against the comment at `:322`).
- `hub_overlap`: the prompt resolves the wait of a batch and queues the flush of the next submitted line, which runs first; the batch
  does not look again, and both run (`engine/terminal-hub.ts:232` against the comment at `:99`).

### Stated in the modules and refuted by TLC, not kept as runs

| Property | Place | What happens |
|---|---|---|
| `RpcChannel!UnlinkOnlyProcessed` | `engine/host/main.ts:134` | `removeIfSame` reads the slot and unlinks it in two file operations; a request renamed into place between them is deleted unprocessed. Its caller gets no acknowledgement and fails by its time limit |
| `HostManager!BootOwnsChannel`, `WaitForAll = FALSE` | `plugin/service-lifecycle.ts:47` | a second `shutdownNow` returns while the first still waits; the boot that follows loses its epoch to the first one's fence |
| `SessionLog!TailsAreCrashSafe` | `persist/session-segments.ts:218` | a snapshot between the write of a segment and that of the manifest comes back as a log with more events than its manifest counts: it can be read, but not closed nor appended to |
| `HostProcesses!RunNeverHangs` | `engine/host/spawn.ts:142` against `:140` | the time limit does nothing once the child has exited; while a descendant holds its output `close` does not come, and the run is never answered |
| `Instances!KnownIsWatched` | `persist/context.ts:95` against `:142` | binding the container again returns at once when it is the same one, so the context of an instance that was released and comes again has no watcher |
| `TerminalSessions!SuccessIsQuiescence` | `plugin/terminal-backend.ts:178` against `docs/contracts/dsh-0.1.0-rc.6/dsh-terminal/README.md:18` | a close that failed has set `closed` before; the retry returns at once and reports a terminal as closed that is stuck |
| `UserlandRegistry!NothingElse` | `engine/host/run.ts:164` against `tests/userland.test.ts:44` | `previousRelease` is read before an await; of two updates one releases what the other has released, and the commands of the third stay |
| `SessionState!SetCwdStays` | `engine/host/ps-kill.ts:120` against `:101-102` | the next tick of the 250 ms timer takes the old directory of the shell for the session's |
| `SystemLog!ClearedStaysCleared` | `log.ts:94` against `:92` | a line whose turn began while the clear waited writes the old lines back |
| `Snapshots!ActiveIsWhole`, two clears at once | `persist/context.ts:323-343` | the clears share one flag: the end of the first lets a save start over at generation 1, whose chunks the second deletes after the pointer names them |

### Observations

Met while modelling; where a module states the property, its name is given.

- Channel. After `dispose()` the page-wide channel stays paused, and a boot on the same WebContainer never resumes it (`engine/terminal-executor.ts:88`): with
  `AllowReboot = TRUE` in `RpcLife.cfg`, `EveryRequestSettles` fails. With `KillLag = TRUE` in that file `OldHostNeverConsumes` and
  `OldHostNeverSettles` fail: the fence assumes a kill that takes effect at once. A blank command's result carries no instance
  (`engine/host/run.ts:325`), so a client of another instance rejects it. `main.ts:34` and `client.ts:421` say that a node run returns at once;
  the dispatch awaits it (`run.ts:350`).
- Mailbox. `NoReplayIntoNewEpoch` fails: a write in flight fails because the fence removed the directory, and its catch refills the queue the fence has emptied (`terminal/transport.ts:310`).
  `AcknowledgedOutputIsFreed` fails: `ack.json` is read and unlinked in two calls, and a newer acknowledgement between them is lost until
  the next one (`terminal-mailbox-host.ts:138`). A session that expires and reopens under the same nonce starts its output at 1 again while the page stands at frame k; this is why three
  properties speak of `Only(id)`.
- Host manager. A shutdown during a readiness probe pauses the channel, and `boot()` never settles (`engine/index.ts:274`; `AttachSettles` fails). A superseded boot's rejection sets the container
  state to *unattached* under a host that is ready (`service-lifecycle.ts:179`; `ServiceStateIsHonest` fails). The daemon of a superseded boot may read
  its successor's epoch and take requests beside it until it is killed (`NoTwinHost` fails; `OrphansDie` bounds it).
- Snapshots. `InventoryIsExact` fails: the inventory is listed before the export is taken, so a file created or removed in between makes a
  generation whose restore is refused (`context.ts:165` against `binary-v2.ts:25`). With `HasWatch = FALSE`, `NothingForgotten` and
  `EveryWriteIsSaved` fail: the fallback timer returns at once for a context that has `onDirty` (`auto-snapshot.ts:61` against
  `context.ts:142`). A failed automatic save clears the dirty mark and is not tried again, and an unforced save after it may report *clean* with a write unsaved.
  Chunks of generations that left the pointer are never deleted. A quota check counts the old generation with the new one.
- Session log. A manifest write that fails leaves `nextSeq` advanced in memory, so the caller's retry of the same batch is refused. A batch
  over several segments that fails half-way is appended again as a whole by the retry, after which the log is refused as
  non-contiguous. A load of a live session closes its open turn, against `docs/contracts/dsh-0.1.0-rc.6/dsh-session-persistence/README.md:17`,
  since the provider is never told which sessions are live.
- Python. `python` without arguments, `pip install`, `help` and `uninstall` do not reset the captured output (`python-daemon/loader.ts:53` says every command does). The exit event of
  a daemon that was killed settles the commands of its replacement as failed (`python-daemon-client.ts:92`), the timer of an old command may kill a replacement that still loads, and a command hangs whose
  daemon ends without a word (`:108`, which `HostGoesOn` excepts). The fast path of the assets looks at one file only.
- Ruby and control. The completion of one request for the Ruby runtime removes the request of a second command, which then waits its full time. The answer to a request whose command
  has timed out is a file nobody removes; a second bridge beside the first could carry a request out twice.
- Processes. Between a child's exit and its close the system may give its pid away: an interrupt or the kill of a time limit then signals the newcomer.
- Hub. Lines held back for a batch are delivered before lines submitted earlier; a fragment without a line end at the head of the queue stalls it; keys
  typed behind a queued submission overtake it.
- Contexts. The catch of a creation deletes the map's entry without looking whose it is (`run.ts:261`). `ps` and `kill` during a host's exit may mix two worlds. A reset leaves an attached terminal
  without a shell. The timer may save the old world's directory after a reset, and a late request for the environment may bring its file back.
- Session state. A page that has missed a later environment request keeps the older environment; values with line ends break the file; a directory that was removed is not looked at
  before a spawn; `setCwd` takes directories outside the workspace; a switch of workspace changes pointer and directory before the forced snapshot whose failure makes the command fail.
- Boot of the application. A snapshot taken between the two removals of a reset brings the old state root back. A failed first restore goes on with fresh
  files, which the next automatic snapshot puts in the place of the kept ones; the failure of the second restore ends the start. A failed start leaves its bridges running, and its
  promise is kept. Any failed read counts as a missing file. The progress line counts a step beyond its total.
- Userland and packages. While a declared package is missing each tick starts another install, and every run awaits it or fails with it. A damaged registry makes every command of
  Lifo fail. `removePackage` takes a `lifo list` that failed for an empty one; an install beside a removal can leave a payload unrecorded; a publication that failed is not retried.
- Instances. Two concurrent `ensureInstance` of one id build two engines (`Overlap = TRUE` refutes `KnownIsLive`); a second release deletes an instance that was ensured anew without disposing
  it; an ensure during a release returns the view that is being disposed; an ensure that ends during `clearInstances` is dropped undisposed.
- Services. Two units may claim one template port; a start of a gated unit that already runs waits 60 s and then stops it; an SDK restart that fails keeps the page's claim; a stop
  that fails still releases the port. The page's `db` command lets two instances claim one port (`db.ts:120` checks, `:149` claims, with an await between).
- Files. `editText` replaces by a string in which `$&` and `$1` are interpreted; a command that writes between the check of the version and the rename is overwritten (`FileService` states its
  properties about writes that go through the service); a failed first request for the directory keeps the fallback root for good.
- Agent terminals. The set of disposed owners is never cleared, and the shutdown of the service disposes the terminals for good, although the host can boot again; a cleanup error
  that the registry handles is never thrown by the backend.
- Commands. An abort while another request is in the channel never reaches its own run; one that comes after the run has ended interrupts the next; SIGTERM of an interactive terminal interrupts
  whichever run has the lane; every error is reported as a time-out; a listener that throws has the event published twice.
- Log. A read that fails counts as an empty file, and the lines before it are gone.
- WASI and git. An abort before the listener is there is not seen; output that arrives after the result is lost. The git command after a cancelled one runs beside its writes, and
  `checkout -b` leaves the branch when the checkout fails.
- Editors. `:q` on a changed buffer ends vi with exit code 1 and drops the changes; the read that was under way when the editor ends takes the shell's next input.

## 7. Not modelled, and the plan

Done, in this order: the channel and its proofs; the terminal mailbox and the proofs of the order of its input and output; the host manager and its proofs; the snapshots and their proofs; the session log and its proofs; the fence of the
channel and its refinement of the life cycle; the runtimes, processes and the hub of the host (`HostRuntimes`); worlds, session state, userland, packages, services,
instances, files, terminals, boots, log, git, WASI, editors, browser control and commands (`Parts`), and the proofs about thirteen of its parts and about the four of `HostRuntimes`.

Left for later, in order of what it would add:

1. Theorems: the editors, the guarded writes and the session's directory of `Parts`, whose folds yield to the same induction as the session log's.
2. The composition of `TerminalMailbox` with `TerminalHub`: the session device with its budget is in the first, the hub's devices in the second, and each takes the
   other as a device that accepts, refuses or leaves.
3. Adding and removing units, the reconfiguration of the host service.

Left out for good: rendering, themes and wiring (`host/plugins`, `main.ts`, `boot-ui.ts`, most of `plugin`'s schemas and types), which keep no
protocol state; `project-world.ts`, which writes template files once; the page's commands `db`, `env`, `settings`, `workspace` and `project`, which the application exports but no longer
dispatches; the tokenizer and the parsing of arguments; the legacy text store and the legacy session store, which the application does not select; the interpreters, Lifo and isomorphic-git,
third-party code; the self test.
