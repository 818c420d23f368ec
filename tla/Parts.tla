---------------------------------- MODULE Parts ----------------------------------
(***************************************************************************)
(* Parts of the page and of the host that share no variable with each      *)
(* other.  What they share in the program is the file system, where each   *)
(* has files of its own, and the host's channel (RpcChannel), of which     *)
(* each sees its own requests only: their steps commute.  So a behaviour   *)
(* is one of the part in focus, and the others stay as they were.          *)
(***************************************************************************)
EXTENDS Naturals, FiniteSets, TLC

CONSTANTS
    MaxWorld, MaxContextCommand, MaxProcess, AnyPackage, InLifo, MaxJob, Name, Pkg, MaxChange, MaxSync, Unit, MaxEvent,
    MaxServiceCommand, MaxLost, Workspace, Value, MaxRestart, Segment, MaxLength, Piece, MaxPiece, MaxGitCommand,
    MaxTrouble, Kind, MaxKey, MaxEdit, MaxResize, ControlRequest, ControlTimeout, MaxTime, Id, Port, MaxEngine, AnyCall,
    Overlap, Edit,
    MaxShell, MaxBroken, Owner, Spawn, Service, MaxStuck, AnyReset, BootTry, MaxReload, MaxFault, MaxBootAttempts,
    MaxReadyAttempts, MaxAutostart, MaxLog, MaxLines, MaxMiss, MaxThrow

\* The bounds are numbers, a host is waited for at least once, and nothing is called as what is not there: no command as
\* the temporary file, no reset as the start.
ASSUME BoundsAssumption ==
    /\ MaxWorld \in Nat /\ MaxContextCommand \in Nat /\ MaxProcess \in Nat
    /\ MaxJob \in Nat /\ MaxChange \in Nat /\ MaxSync \in Nat /\ MaxEvent \in Nat /\ MaxLog \in Nat
    /\ MaxLines \in Nat \ {0} /\ MaxPiece \in Nat /\ MaxTrouble \in Nat /\ MaxGitCommand \in Nat
    /\ MaxTime \in Nat /\ ControlTimeout \in Nat /\ MaxThrow \in Nat
    /\ MaxReadyAttempts \in Nat \ {0} /\ MaxAutostart \in Nat /\ "start" \notin AnyReset
    /\ "no snapshot" \notin Name \union {Pkg}

VARIABLES
    focus,
    phase, currentWorld, doomed, laneOwner, taken, held, controller, terminalOf, processOf, nextPid, pidOf, listed,
    exiting,
    payload, packageJson, job, jobs,
    registry, registrations, publishes, writing, mailbox, shellCommands, release, spent, sync, applied,
    appliedSignature, fetched,
    process, heard, generation, open, claim, owns, gate, install, marker, saved, order, given, lost,
    dirs, pointer, cwdFile, session, shellState, env, envSignature, envFile, posted, sessionChanges, restarts, last,
    path, shellPath,
    run, thread, stdout, abortedRun,
    command, requests, trouble,
    editor, input, buffered, orphans, count, size,
    now, host, expires, requestFile, response, bridge, runs,
    view, rows, engine, hooks, expected, ready, watched, bound, serviceUp, op,
    file, temp, queueTail, edit, byShell, broken,
    terminal, record, cleanup, stuck,
    user, disk, snapshot, at, tries, reloads, faults, starting, live, watching, restored, dirtied,
    pc, attempt, bootStep, bootTotal, services, injected, spawned, killed, up, hostProc,
    logFile, logged, chain, before, clearing, missed,
    cmd, queue, lane, hit, announced, thrown

Contexts == INSTANCE ExecutionContexts WITH
    current <- currentWorld, lane <- laneOwner, device <- terminalOf,
    proc <- processOf, MaxCommand <- MaxContextCommand
PackageWorld == INSTANCE Packages WITH
    manifest <- packageJson,
    Package <- AnyPackage
Userland == INSTANCE UserlandRegistry WITH
    changes <- registrations, shell <- shellCommands, signature <- appliedSignature
ServiceWorld == INSTANCE Services WITH
    MaxCommand <- MaxServiceCommand
Session == INSTANCE SessionState WITH
    changes <- sessionChanges, shell <- shellState, signature <- envSignature
Views == INSTANCE Paths WITH
    shell <- shellPath
Wasi == INSTANCE WasiRuntime
Git == INSTANCE GitWorld WITH
    MaxCommand <- MaxGitCommand
Editor == INSTANCE Editors
Control == INSTANCE BrowserControl WITH
    Request <- ControlRequest, Timeout <- ControlTimeout
InstanceMap == INSTANCE Instances WITH
    watching <- watched, up <- serviceUp,
    Call <- AnyCall
Files == INSTANCE FileService WITH
    tail <- queueTail
Terminals == INSTANCE TerminalSessions
App == INSTANCE AppBoot WITH
    Reset <- AnyReset
Boot == INSTANCE TerminalBoot
Log == INSTANCE SystemLog
CommandQueue == INSTANCE Commands WITH
    Call <- AnyCall

contextsVars == <<phase, currentWorld, doomed, laneOwner, taken, held, controller, terminalOf, processOf, nextPid,
                   pidOf, listed, exiting>>
packagesVars == <<payload, packageJson, job, jobs>>
userlandVars == <<registry, registrations, publishes, writing, mailbox, shellCommands, release, spent, sync, applied,
                   appliedSignature, fetched>>
servicesVars == <<process, heard, generation, open, claim, owns, gate, install, marker, saved, order, given, lost>>
sessionVars == <<dirs, pointer, cwdFile, session, shellState, env, envSignature, envFile, posted, sessionChanges,
                  restarts, last>>
pathsVars == <<path, shellPath>>
wasiVars == <<run, thread, stdout, abortedRun>>
gitVars == <<command, requests, trouble>>
editorsVars == <<editor, input, buffered, orphans, count, size>>
controlVars == <<now, host, expires, requestFile, response, bridge, runs>>
instancesVars == <<view, rows, engine, hooks, expected, ready, watched, bound, serviceUp, op>>
filesVars == <<file, temp, queueTail, edit, byShell, broken>>
terminalsVars == <<terminal, record, cleanup, stuck>>
appVars == <<user, disk, snapshot, at, tries, reloads, faults, starting, live, watching, restored, dirtied>>
bootVars == <<pc, attempt, bootStep, bootTotal, services, injected, spawned, killed, up, hostProc>>
logVars == <<logFile, logged, chain, before, clearing, missed>>
commandsVars == <<cmd, queue, lane, hit, announced, thrown>>
allVars == <<focus, contextsVars, packagesVars, userlandVars, servicesVars, sessionVars, pathsVars, wasiVars, gitVars,
             editorsVars, controlVars, instancesVars, filesVars, terminalsVars, appVars, bootVars, logVars, commandsVars>>

Still(f) ==
    /\ IF f = "contexts" THEN TRUE ELSE UNCHANGED contextsVars
    /\ IF f = "packages" THEN TRUE ELSE UNCHANGED packagesVars
    /\ IF f = "userland" THEN TRUE ELSE UNCHANGED userlandVars
    /\ IF f = "services" THEN TRUE ELSE UNCHANGED servicesVars
    /\ IF f = "session" THEN TRUE ELSE UNCHANGED sessionVars
    /\ IF f = "paths" THEN TRUE ELSE UNCHANGED pathsVars
    /\ IF f = "wasi" THEN TRUE ELSE UNCHANGED wasiVars
    /\ IF f = "git" THEN TRUE ELSE UNCHANGED gitVars
    /\ IF f = "editors" THEN TRUE ELSE UNCHANGED editorsVars
    /\ IF f = "control" THEN TRUE ELSE UNCHANGED controlVars
    /\ IF f = "instances" THEN TRUE ELSE UNCHANGED instancesVars
    /\ IF f = "files" THEN TRUE ELSE UNCHANGED filesVars
    /\ IF f = "terminals" THEN TRUE ELSE UNCHANGED terminalsVars
    /\ IF f = "app" THEN TRUE ELSE UNCHANGED appVars
    /\ IF f = "boot" THEN TRUE ELSE UNCHANGED bootVars
    /\ IF f = "log" THEN TRUE ELSE UNCHANGED logVars
    /\ IF f = "commands" THEN TRUE ELSE UNCHANGED commandsVars

\* A part that is not in focus has one initial state.
Init ==
    /\ focus \in {"contexts", "packages", "userland", "services", "session", "paths", "wasi", "git", "editors",
                  "control", "instances", "files", "terminals", "app", "boot", "log", "commands"}
    /\ Contexts!Init /\ PackageWorld!Init /\ Userland!Init /\ ServiceWorld!Init
    /\ Session!Init /\ Views!Init /\ Wasi!Init /\ Git!Init
    /\ Editor!Init /\ Control!Init /\ InstanceMap!Init /\ Files!Init
    /\ Terminals!Init /\ App!Init /\ Boot!Init /\ Log!Init
    /\ CommandQueue!Init
    /\ focus # "editors" => editor.kind = CHOOSE k \in Kind : TRUE
    /\ focus # "files" => file = Files!Absent
    /\ focus # "app" => ~user
    /\ focus # "boot" => services = 0
    /\ focus # "commands" => \A c \in AnyCall : cmd[c].kind = "exec"

Next ==
    /\ UNCHANGED focus
    /\ \/ focus = "contexts" /\ Contexts!Next /\ Still("contexts")
       \/ focus = "packages" /\ PackageWorld!Next /\ Still("packages")
       \/ focus = "userland" /\ Userland!Next /\ Still("userland")
       \/ focus = "services" /\ ServiceWorld!Next /\ Still("services")
       \/ focus = "session" /\ Session!Next /\ Still("session")
       \/ focus = "paths" /\ Views!Next /\ Still("paths")
       \/ focus = "wasi" /\ Wasi!Next /\ Still("wasi")
       \/ focus = "git" /\ Git!Next /\ Still("git")
       \/ focus = "editors" /\ Editor!Next /\ Still("editors")
       \/ focus = "control" /\ Control!Next /\ Still("control")
       \/ focus = "instances" /\ InstanceMap!Next /\ Still("instances")
       \/ focus = "files" /\ Files!Next /\ Still("files")
       \/ focus = "terminals" /\ Terminals!Next /\ Still("terminals")
       \/ focus = "app" /\ App!Next /\ Still("app")
       \/ focus = "boot" /\ Boot!Next /\ Still("boot")
       \/ focus = "log" /\ Log!Next /\ Still("log")
       \/ focus = "commands" /\ CommandQueue!Next /\ Still("commands")

Spec == Init /\ [][Next]_allVars

\* Units of services are alike, and no other part knows them.
UnitSymmetry == Permutations(Unit)

-----------------------------------------------------------------------------
(* Properties: what each part keeps, its types where it states them.       *)

\* One world of an instance is alive, and a public pid never comes to mean another process (run.ts:210, process-world.ts:76).
ContextsKept == Contexts!TypeOK /\ Contexts!OneWorld /\ Contexts!PidMeansOne

\* What the manifest lists is installed; a published registry is the latest; what a sandbox has applied is registered, and
\* no command of the shell is released by an update that another one has overtaken (manifest.ts:1, userland-service.ts:22,
\* run.ts:161).
UserlandKept ==
    /\ PackageWorld!TypeOK /\ PackageWorld!RecordedIsThere
    /\ Userland!TypeOK /\ Userland!PublishedIsLatest /\ Userland!AppliedIsRegistered

\* A service that is reported as started has listened since, one that failed leaves nothing, an enablement that was
\* acknowledged is in the snapshot (service-command-bridge.ts:55, service-world.ts:284).
ServicesKept == ServiceWorld!StartedHasListened /\ ServiceWorld!FailedLeavesNothing /\ ServiceWorld!EnabledIsSaved

\* The session's directory, environment and workspace outlive the host, and a path means the same to the shell, the file
\* system and the browser (run.ts:89, container.ts:232, host-route.ts:64).
SessionKept ==
    /\ [](Session!DirectoryIsKept /\ Session!EnvironmentIsLatest /\ Views!ViewsAgree /\ Views!StaysInWorkspace)
    /\ Session!CurrentIsThere

\* A command that is over stays over: an answered WASI program runs no more, a cancelled git command sends nothing and is
\* not reported as done, an aborted command is told so once, a browser request runs at most once and not after its command
\* (wasi.ts:123, git-world.ts:105, terminal-executor.ts:98, browser-control-bridge.ts:109).
OverIsOver ==
    /\ [](/\ Wasi!TypeOK /\ Wasi!AnsweredIsOver
          /\ Git!TypeOK /\ Git!SuccessIsWhole
          /\ CommandQueue!TypeOK /\ CommandQueue!AbortedIsTold /\ CommandQueue!AnnouncedOnce
          /\ Control!TypeOK /\ Control!AtMostOnce)
    /\ Wasi!AnswerStands /\ Git!CancelledSendsNothing /\ Control!NeverAfterTheCommand

\* An edit gets to the text it was made for: keys reach the editor in their order and an unmodified buffer is on the disk;
\* a guarded write replaces the version it names, returns the one it made, and leaves nothing behind (editors.ts:52,
\* fs-mutations.ts:82, fs-service.ts:285).
EditsAreKept ==
    /\ [](Editor!TypeOK /\ Editor!KeysInOrder /\ Editor!UnmodifiedIsSaved /\ Files!NothingLeftBehind)
    /\ Files!GuardedReplacesItsVersion /\ Files!ReturnedVersionHolds

\* What the page knows of an instance is the engine that is alive (host-instance-manager.ts:67, ports.ts:74).
KnownIsLive == InstanceMap!KnownIsLive

\* A disposed owner has no terminal left, an open one counts as activity, names are distinct (terminal-service.ts:291).
TerminalsKept == Terminals!DisposedOwnsNothing /\ Terminals!OpenIsActivity /\ Terminals!NamesAreDistinct

\* A start brings back what the snapshot holds, a reset brings back nothing, and the host that a boot returns is the only
\* one, at the end of as many steps as it announced (container.ts:92, instance/index.ts:258, boot-steps.ts:201).
BootKept ==
    /\ App!WorkReturns /\ App!ResetForgets
    /\ [](Boot!ReturnedHostIsTheOnlyOne /\ Boot!StepsAddUp)

\* Lines of the log are in their order, none is dropped by another, and a clear that nothing disturbs empties it
\* (log.ts:69, log.ts:94).
LogKept == [](Log!TypeOK /\ Log!LinesInOrder /\ Log!QuietClearEmpties) /\ Log!NothingDropped
=============================================================================
