------------------------------ MODULE SessionState ------------------------------
(***************************************************************************)
(* What the host keeps of one instance's session (engine/host/config.ts,    *)
(* run.ts, workspace-world.ts): the directory real processes start in, the  *)
(* environment, and the workspaces.  The shell of the instance has its own  *)
(* directory and environment; a command that ends and a timer carry them    *)
(* over, and the page writes the environment file once more, when it comes  *)
(* to the request the host has put for it.                                  *)
(***************************************************************************)
EXTENDS Naturals, Sequences, SequencesExt, FiniteSets

CONSTANTS
    Workspace,    \* the names of workspaces, with "main"
    MaxChange,    \* bound: changes made in the shell or by requests
    Value,        \* values of the environment a shell may set
    MaxRestart    \* bound: host restarts

VARIABLES
    dirs,         \* the workspaces that are there
    pointer,      \* /workspace/ws/.current, or None
    cwdFile,      \* etc/succinix.cwd of the instance, or None
    session,      \* sessionCwdByInstance, or None
    shell,        \* the directory of the sandbox, or None without a sandbox
    env,          \* the environment of the sandbox
    signature,    \* contextStateSignatures, or None
    envFile,      \* etc/succinix.env, or None
    posted,       \* requests for the page to write the environment, oldest first
    changes, restarts,
    last          \* history: what the last step was

sessionVars == <<dirs, pointer, cwdFile, session, shell, env, signature, envFile, posted,
                 changes, restarts, last>>
environment == <<env, signature, envFile, posted>>

None == "none"
Private == "private"        \* a directory only the sandbox has
Plain == "plain"            \* the environment a sandbox begins with
Home == "/workspace"        \* where an instance begins
Shared == {Home} \cup Workspace

Init ==
    /\ dirs = {} /\ pointer = None /\ cwdFile = None /\ session = None
    /\ shell = None /\ env = Plain /\ signature = None /\ envFile = None /\ posted = <<>>
    /\ changes = 0 /\ restarts = 0 /\ last = "none"

Exists(d) == d \in {Home, Private} \cup dirs

\* loadSessionCwd: what was kept, if it is still a directory.
Kept == IF cwdFile \in {Home} \cup dirs THEN cwdFile ELSE Home

\* getSessionCwd reads the file once.
SessionCwd == IF session = None THEN Kept ELSE session

\* (mutant: the directory is kept in the host's memory alone)
SetSessionCwdOnly(d) == session' = d /\ UNCHANGED cwdFile

SetSessionCwd(d) == session' = d /\ cwdFile' = d

Change == changes < MaxChange /\ changes' = changes + 1

\* The directory of the shell becomes that of the session, unless it is private.
FollowShell(d) ==
    IF d \in Shared THEN SetSessionCwd(d) ELSE session' = SessionCwd /\ UNCHANGED cwdFile

\* syncContextState: a changed environment goes into the file, and, but for the
\* first time, to the page.
SyncEnv(value) ==
    IF signature = value THEN UNCHANGED <<signature, envFile, posted>>
    ELSE /\ signature' = value /\ envFile' = value
         /\ posted' = IF signature = None THEN posted ELSE Append(posted, value)

Sync(d, value) == FollowShell(d) /\ SyncEnv(value)

\* getSandboxContext: the sandbox begins in the session's directory, with the
\* environment that was kept.
Create ==
    /\ shell = None /\ shell' = SessionCwd
    /\ env' = (IF envFile = None THEN Plain ELSE envFile)
    /\ Sync(shell', env') /\ last' = "create"
    /\ UNCHANGED <<dirs, pointer, changes, restarts>>

\* cd or env in the interactive shell: only the sandbox knows at first.
TypeCd(d) ==
    /\ shell # None /\ Change /\ Exists(d) /\ d # shell /\ shell' = d /\ last' = "shell"
    /\ UNCHANGED <<dirs, pointer, cwdFile, session, environment, restarts>>
TypeEnv(value) ==
    /\ shell # None /\ Change /\ value # env /\ env' = value /\ last' = "shell"
    /\ UNCHANGED <<dirs, pointer, cwdFile, session, shell, signature, envFile, posted, restarts>>

\* A batch command: it may have gone elsewhere, and when it succeeds its answer
\* names the session's directory.
RunCd(d) ==
    /\ shell # None /\ Change /\ Exists(d)
    /\ shell' = d /\ Sync(d, env) /\ last' = "run"
    /\ UNCHANGED <<dirs, pointer, env, restarts>>

\* The timer of 250 ms.
Tick ==
    /\ shell # None /\ Sync(shell, env) /\ last' = "tick"
    /\ UNCHANGED <<dirs, pointer, shell, env, changes, restarts>>

\* The setCwd request of a client.
SetCwd(d) ==
    /\ Change /\ d \in {Home} \cup dirs /\ SetSessionCwd(d) /\ last' = "setCwd"
    /\ UNCHANGED <<dirs, pointer, shell, environment, restarts>>

\* A real process is started with the environment of the file (mergedEnv).
ProcessEnv == IF envFile = None THEN Plain ELSE envFile

\* ensure and readCurrent, at the beginning of every workspace command.
Ensured == dirs \cup {"main"}
Current == IF pointer \in Ensured THEN pointer ELSE "main"

WorkspaceCommand(newDirs, newPointer) ==
    /\ shell # None /\ Change /\ dirs' = newDirs /\ pointer' = newPointer
    /\ last' = "workspace" /\ UNCHANGED <<env, signature, envFile, posted, restarts>>

CreateWorkspace(w) ==
    /\ w \notin Ensured /\ WorkspaceCommand(Ensured \cup {w}, Current)
    /\ UNCHANGED <<cwdFile, session, shell>>

\* The pointer, the shell and the session; then the page is asked for a snapshot,
\* and that it cannot be had fails the command that has switched.
Switch(w) ==
    /\ w \in Ensured /\ WorkspaceCommand(Ensured, w)
    /\ shell' = w /\ SetSessionCwd(w)

\* (mutant: the current workspace can be removed)
RemoveAny(w) ==
    /\ w \in Ensured \ {"main"} /\ WorkspaceCommand(Ensured \ {w}, Current)
    /\ UNCHANGED <<cwdFile, session, shell>>

\* Not main, not the current one, and with --yes.
RemoveWorkspace(w) ==
    /\ w \in Ensured \ {"main", Current} /\ WorkspaceCommand(Ensured \ {w}, Current)
    /\ UNCHANGED <<cwdFile, session, shell>>

\* (mutant: the page takes any of the requests)
PageWritesAny ==
    /\ \E i \in DOMAIN posted: envFile' = posted[i] /\ posted' = RemoveAt(posted, i)
    /\ last' = "page"
    /\ UNCHANGED <<dirs, pointer, cwdFile, session, shell, env, signature, changes, restarts>>

\* The page takes the requests in the order of their names, which is that of time;
\* here it comes to each before it expires.
PageWrites ==
    /\ posted # <<>> /\ envFile' = Head(posted) /\ posted' = Tail(posted)
    /\ last' = "page"
    /\ UNCHANGED <<dirs, pointer, cwdFile, session, shell, env, signature, changes, restarts>>

\* The host is killed and comes back: the files are all that is left (here with no
\* request on its way to the page).
Restart ==
    /\ posted = <<>> /\ restarts < MaxRestart /\ restarts' = restarts + 1
    /\ session' = None /\ shell' = None /\ env' = Plain /\ signature' = None
    /\ last' = "restart"
    /\ UNCHANGED <<dirs, pointer, cwdFile, envFile, posted, changes>>

Next ==
    \/ Create \/ Tick \/ PageWrites \/ Restart
    \/ \E d \in Shared \cup {Private}: TypeCd(d) \/ RunCd(d) \/ SetCwd(d)
    \/ \E value \in Value \cup {Plain}: TypeEnv(value)
    \/ \E w \in Workspace: CreateWorkspace(w) \/ Switch(w) \/ RemoveWorkspace(w)

Spec == Init /\ [][Next]_sessionVars

-------------------------------------------------------------------------------
\* A host that comes back starts where the session was: no directory that was
\* reported or synchronized is known to the host's memory alone.
DirectoryIsKept == session # None /\ Exists(session) => cwdFile = session \/ session = Home

\* When the page has worked off what was posted, the file has the environment the
\* host has seen last: no earlier one comes back over it.
EnvironmentIsLatest == posted = <<>> /\ signature # None => ProcessEnv = signature

\* Whatever was switched and removed, after a workspace command the pointer names
\* a workspace that is there.
CurrentIsThere == [][last' = "workspace" => pointer' \in dirs']_sessionVars

\* The directory a client has set (setCwd: "set the session's directory
\* explicitly") is the session's until a command changes it.
SetCwdStays ==
    [][last = "setCwd" /\ last' = "tick" => session' = session]_sessionVars
=============================================================================
