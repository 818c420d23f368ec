-------------------------------- MODULE AppBoot --------------------------------
(***************************************************************************)
(* The start of the page's application (host/plugins/container.ts): the     *)
(* container, the instance and its snapshot, the application's steps        *)
(* (boot-steps.ts), and, for an instance other than the default one, the    *)
(* reset that runs those steps again (instance/index.ts).                   *)
(*                                                                         *)
(* A file of the instance is absent, has what the boot writes ("seed") or   *)
(* what the user made of it ("mine").  A reload of the page begins with an  *)
(* empty container; the snapshot outlives it.                               *)
(***************************************************************************)
EXTENDS Naturals, FiniteSets

CONSTANTS
    Reset,      \* the resets that the page may be asked for
    BootTry,    \* bootRetries: how often the container is tried
    MaxReload,  \* bound: reloads of the page
    MaxFault    \* bound: operations that fail

VARIABLES
    user,       \* the page is opened with ?user=, for an instance of that name
    disk,       \* the files of the container
    snapshot,   \* what the browser keeps of them, or Nothing
    at,         \* per run of the steps ("start" or a reset): its next step
    tries, reloads, faults,
    starting,   \* start() has made its promise
    live,       \* the terminal has a shell: files are written at any time
    watching,   \* the automatic snapshot is on
    restored,   \* history: a snapshot was there and no restore of it has failed
    dirtied     \* history: a snapshot was taken after the reset's clear

bootVars == <<user, disk, snapshot, at, tries, reloads, faults, starting, live, watching,
              restored, dirtied>>
history == <<restored, dirtied>>

File == {"pointer", "home", "cwd", "motd"}
StateRoot == {"cwd", "motd"}             \* below /workspace/.succinix-<id>
Nothing == [f \in File |-> "unsaved"]
Run == {"start"} \cup Reset

\* What the instance's snapshot covers: all, or what is below /workspace.
Covered == IF user THEN File \ {"pointer"} ELSE File

Init ==
    /\ user \in BOOLEAN
    /\ disk = [f \in File |-> "none"] /\ snapshot = Nothing
    /\ at = [r \in Run |-> "off"] /\ tries = 0 /\ reloads = 0 /\ faults = 0
    /\ starting = FALSE /\ live = FALSE /\ watching = FALSE
    /\ restored = TRUE /\ dirtied = FALSE

Step(r, from, to) == at[r] = from /\ at' = [at EXCEPT ![r] = to]
Fault == faults < MaxFault /\ faults' = faults + 1

\* start() of the application; every further call has the same promise, also
\* when the environment has been refused.
Start ==
    /\ ~starting /\ starting' = TRUE
    /\ \/ Step("start", "off", "container") \/ Step("start", "off", "refused")
    /\ UNCHANGED <<user, disk, snapshot, tries, reloads, faults, live, watching, history>>

\* ServiceLifecycle.boot: WebContainer.boot is tried bootRetries times, then the
\* host is brought up (HostManager).
Container ==
    /\ \/ Step("start", "container", "instance") /\ UNCHANGED <<tries, faults>>
       \/ /\ Fault /\ tries' = tries + 1
          /\ Step("start", "container", IF tries' < BootTry THEN "container" ELSE "failed")
    /\ UNCHANGED <<user, disk, snapshot, reloads, starting, live, watching, history>>

Loaded == [f \in File |-> IF snapshot[f] \in {"unsaved", "none"} THEN disk[f] ELSE snapshot[f]]

\* createSuccinixInstance: the snapshot is put back; if that fails the
\* instance goes on with the files there are.
Restore ==
    /\ Step("start", "instance", "workspace")
    /\ \/ disk' = Loaded /\ UNCHANGED <<faults, restored>>
       \/ Fault /\ UNCHANGED disk /\ restored' = FALSE
    /\ UNCHANGED <<user, snapshot, tries, reloads, starting, live, watching, dirtied>>

\* A step that makes a file unless it is there; what fails is noted in the log.
Seed(r, f, from, to) ==
    /\ Step(r, from, to)
    /\ \/ disk' = [disk EXCEPT ![f] = IF @ = "none" THEN "seed" ELSE @] /\ UNCHANGED faults
       \/ Fault /\ UNCHANGED disk
    /\ UNCHANGED <<user, snapshot, tries, reloads, starting, live, watching, history>>

\* (mutant: the default workspace is set at every boot)
InitWorkspaceAlways(r) ==
    /\ Step(r, "workspace", "home")
    /\ disk' = [disk EXCEPT !["pointer"] = "seed"]
    /\ UNCHANGED <<user, snapshot, tries, reloads, faults, starting, live, watching, history>>

\* The configuration is read, and /ws/.current is made if it is not there.
InitWorkspace(r) == Seed(r, "pointer", "workspace", "home")

\* The home of a user, and the directory its session begins in.
EnsureUserHome(r) == user /\ Seed(r, "home", "home", "cwd")
SeedCwd(r) == Seed(r, "cwd", "cwd", "motd")
NoHome(r) ==
    /\ ~user /\ Step(r, "home", "motd")
    /\ UNCHANGED <<user, disk, snapshot, tries, reloads, faults, starting, live, watching, history>>

EnsureMotd(r) == Seed(r, "motd", "motd", "proof")

\* The file that shows the file system is shared is the one step that may not
\* fail; then the services start, and what fails of them is logged.
LastSteps(r) ==
    /\ at[r] = "proof"
    /\ \/ /\ at' = [at EXCEPT ![r] = IF r = "start" THEN "again" ELSE "session"]
          /\ UNCHANGED faults
       \/ Fault /\ at' = [at EXCEPT ![r] = "failed"]
    /\ UNCHANGED <<user, disk, snapshot, tries, reloads, starting, live, watching, history>>

\* The start of a user's instance puts its snapshot back once more; that this
\* fails ends the start.
RestoreAgain ==
    /\ \/ /\ Step("start", "again", "attach")
          /\ disk' = (IF user THEN Loaded ELSE disk) /\ UNCHANGED faults
       \/ user /\ Fault /\ Step("start", "again", "failed") /\ UNCHANGED disk
    /\ UNCHANGED <<user, snapshot, tries, reloads, starting, live, watching, history>>

\* The terminal's session and the bridges for runtimes and control requests.
OpenSession ==
    /\ Step("start", "attach", "tests") /\ live' = TRUE
    /\ UNCHANGED <<user, disk, snapshot, tries, reloads, faults, starting, watching, history>>

\* The commands, the tests, the banner; last the automatic snapshot and the
\* watchdog.  What throws ends in the error page.
Attach ==
    /\ \/ Step("start", "tests", "ended") /\ watching' = TRUE /\ UNCHANGED faults
       \/ Fault /\ Step("start", "tests", "failed") /\ UNCHANGED watching
    /\ UNCHANGED <<user, disk, snapshot, tries, reloads, starting, live, history>>

\* After a reset the terminal opens its session anew.
RenewSession(r) ==
    /\ Step(r, "session", "ended") /\ live' = TRUE
    /\ UNCHANGED <<user, disk, snapshot, tries, reloads, faults, starting, watching, history>>

Ready == at["start"] = "ended"
Resetting == \E r \in Reset: at[r] \notin {"off", "ended", "failed"}

\* A command writes a file; between a reset and the new session there is none.
Write(f) ==
    /\ live /\ disk[f] # "mine"
    /\ disk' = [disk EXCEPT ![f] = "mine"]
    /\ UNCHANGED <<user, snapshot, at, tries, reloads, faults, starting, live, watching, history>>

\* persist.save: by the automatic snapshot, the flush of a hidden page, a command.
Save ==
    /\ Ready /\ watching
    /\ snapshot' = [f \in File |-> IF f \in Covered THEN disk[f] ELSE "unsaved"]
    /\ dirtied' = TRUE
    /\ UNCHANGED <<user, disk, at, tries, reloads, faults, starting, live, watching, restored>>

\* The page is loaded again, at any time: all but the snapshot begins anew.
Reload ==
    /\ reloads < MaxReload /\ reloads' = reloads + 1
    /\ disk' = [f \in File |-> "none"] /\ at' = [r \in Run |-> "off"]
    /\ tries' = 0 /\ starting' = FALSE /\ live' = FALSE /\ watching' = FALSE
    /\ restored' = TRUE /\ dirtied' = FALSE
    /\ UNCHANGED <<user, snapshot, faults>>

\* Instance.restart, for a user's instance; one reset at a time here.  The host
\* ends the instance's processes and sessions, or cannot be reached.
ResetHost(r) ==
    /\ user /\ Ready /\ watching /\ ~Resetting /\ Step(r, "off", "clear")
    /\ \/ live' = FALSE /\ UNCHANGED faults
       \/ Fault /\ UNCHANGED live
    /\ UNCHANGED <<user, disk, snapshot, tries, reloads, starting, watching, history>>

\* (mutant: the snapshot is kept)
ClearNothing(r) ==
    /\ Step(r, "clear", "remove") /\ dirtied' = FALSE
    /\ UNCHANGED <<user, disk, snapshot, tries, reloads, faults, starting, live, watching, restored>>

\* The ports are released and the snapshot is cleared.
Clear(r) ==
    /\ Step(r, "clear", "remove")
    /\ snapshot' = Nothing /\ dirtied' = FALSE
    /\ UNCHANGED <<user, disk, tries, reloads, faults, starting, live, watching, restored>>

\* The state root is removed, as far as that goes, and the steps run again.
RemoveRoot(r) ==
    /\ Step(r, "remove", "workspace")
    /\ \/ /\ disk' = [f \in File |-> IF f \in StateRoot THEN "none" ELSE disk[f]]
          /\ UNCHANGED faults
       \/ Fault /\ UNCHANGED disk
    /\ UNCHANGED <<user, snapshot, tries, reloads, starting, live, watching, history>>

Steps(r) ==
    \/ InitWorkspace(r) \/ EnsureUserHome(r) \/ SeedCwd(r) \/ NoHome(r)
    \/ EnsureMotd(r) \/ LastSteps(r) \/ RenewSession(r)

\* onInstanceStop: the automatic snapshot ends and the instance with it.
Stop ==
    /\ Ready /\ watching /\ ~Resetting
    /\ watching' = FALSE /\ live' = FALSE
    /\ UNCHANGED <<user, disk, snapshot, at, tries, reloads, faults, starting, history>>

Next ==
    \/ Start \/ Container \/ Restore \/ RestoreAgain \/ OpenSession
    \/ Attach \/ Save \/ Reload \/ Stop
    \/ \E f \in File: Write(f)
    \/ \E r \in Run: Steps(r)
    \/ \E r \in Reset: ResetHost(r) \/ Clear(r) \/ RemoveRoot(r)

Spec == Init /\ [][Next]_bootVars

-------------------------------------------------------------------------------
\* When the start has ended and its restore went well, every file the user had in
\* the snapshot is there as it was saved: no step of the boot has put its default
\* in the place of the workspace, the directory or the banner of before.
WorkReturns ==
    [][at["start"] # "ended" /\ at'["start"] = "ended" /\ restored =>
         \A f \in File: snapshot[f] = "mine" => disk'[f] = "mine"]_bootVars

\* When a reset has ended in which nothing failed and no snapshot was taken since
\* its clear, nothing of the user's state root is left, in the container or in
\* what the next page will restore.
ResetForgets ==
    [][\A r \in Reset: at[r] # "ended" /\ at'[r] = "ended" /\ faults = 0 /\ ~dirtied =>
         \A f \in StateRoot: disk'[f] # "mine" /\ snapshot'[f] # "mine"]_bootVars
=============================================================================
