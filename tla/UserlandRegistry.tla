--------------------------- MODULE UserlandRegistry ---------------------------
(***************************************************************************)
(* What plugins declare for the shell (src/userland): the page keeps a     *)
(* registry and publishes a snapshot of it as a file (userland-service.ts),*)
(* the host finds the file different from what it applied last and updates *)
(* the running sandbox (syncSandboxUserland, engine/host/userland.ts).     *)
(* A snapshot is the set of what it declares; Pkg stands for a package     *)
(* source, everything else for a command.                                  *)
(***************************************************************************)
EXTENDS Naturals, FiniteSets

CONSTANTS
    Name, Pkg,      \* commands, and a package
    MaxChange,      \* registrations and releases
    MaxSync         \* updates of the sandbox that find something new

VARIABLES
    registry,       \* what is declared now
    changes,
    publishes,      \* publications that were asked for and have not begun
    writing,        \* the snapshot in the temporary file
    mailbox,        \* the published snapshot
    shell,          \* the commands registered in the sandbox
    release,        \* context.releaseUserland: the update that made it, 0 for none
    spent,          \* the releases that were called
    sync,           \* the updates that are not over: their snapshot and the release they read
    applied,        \* the snapshot of each update that was applied
    signature,      \* context.userlandSignature
    fetched         \* the payload of the package is there

userlandVars == <<registry, changes, publishes, writing, mailbox, shell, release, spent, sync, applied, signature, fetched>>

Item == Name \cup {Pkg}
No == {"no snapshot"}

TypeOK ==
    /\ registry \subseteq Item /\ shell \subseteq Name /\ spent \subseteq 1..MaxSync
    /\ changes \in 0..MaxChange /\ publishes \in Nat /\ release \in 0..MaxSync
    /\ \A u \in 1..MaxSync : sync[u] \in {"unused", "installing", "over"}
    /\ fetched \in BOOLEAN

Init ==
    /\ registry = {} /\ changes = 0 /\ publishes = 0 /\ writing = No /\ mailbox = {}
    /\ shell = {} /\ release = 0 /\ spent = {} /\ signature = {} /\ fetched = FALSE
    /\ sync = [u \in 1..MaxSync |-> "unused"] /\ applied = [u \in 1..MaxSync |-> [snapshot |-> {}, release |-> 0]]

hostVars == <<shell, release, spent, sync, applied, signature, fetched>>

-----------------------------------------------------------------------------
(* The page.                                                               *)

\* registerCommand and registerPackage refuse a name that is there; a release works once. Either publishes.
Change(i) ==
    /\ changes < MaxChange
    /\ changes' = changes + 1
    /\ registry' = IF i \in registry THEN registry \ {i} ELSE registry \cup {i}
    /\ publishes' = publishes + 1
    /\ UNCHANGED <<writing, mailbox, hostVars>>

\* (mutant: a publication asked for while one is written is left out)
SnapshotCoalesced ==
    /\ publishes > 0
    /\ publishes' = publishes - 1
    /\ writing' = IF writing = No THEN registry ELSE writing
    /\ UNCHANGED <<registry, changes, mailbox, hostVars>>

\* publish: after the publication before it, with the registry of that moment; a temporary file is written ...
Snapshot ==
    /\ publishes > 0 /\ writing = No
    /\ publishes' = publishes - 1
    /\ writing' = registry
    /\ UNCHANGED <<registry, changes, mailbox, hostVars>>

\* ... and renamed.
Rename ==
    /\ writing # No
    /\ mailbox' = writing
    /\ writing' = No
    /\ UNCHANGED <<registry, changes, publishes, hostVars>>

-----------------------------------------------------------------------------
(* The host.                                                               *)

Commands(snapshot) == snapshot \cap Name

\* releaseUserland of an update: the names it registered, once.
Released(u, names) == IF u = 0 \/ u \in spent THEN names ELSE names \ Commands(applied[u].snapshot)

\* (mutant: the old registrations are released after the new ones are made)
ApplyFirst(u, snapshot, previous) == shell' = Released(previous, shell \cup Commands(snapshot))

\* The end of syncSandboxUserland: the release that was read before the packages were reconciled is called, everything
\* of the snapshot is registered.
Apply(u, snapshot, previous) == shell' = Released(previous, shell) \cup Commands(snapshot)

Update(u, snapshot, previous) ==
    /\ Apply(u, snapshot, previous)
    /\ spent' = spent \cup ({previous} \ {0})
    /\ release' = u
    /\ signature' = snapshot
    /\ sync' = [sync EXCEPT ![u] = "over"]

\* The timer, a run or the creation of the sandbox finds a snapshot that is not the one applied. With nothing to fetch
\* the update is made at once; otherwise the package is installed first, and others may find the same meanwhile.
Sync(u) ==
    /\ sync[u] = "unused" /\ \A v \in 1..MaxSync : v < u => sync[v] # "unused"
    /\ mailbox # signature
    /\ applied' = [applied EXCEPT ![u] = [snapshot |-> mailbox, release |-> release]]
    /\ IF Pkg \in mailbox /\ ~fetched
         THEN sync' = [sync EXCEPT ![u] = "installing"] /\ UNCHANGED <<shell, release, spent, signature>>
         ELSE Update(u, mailbox, release)
    /\ UNCHANGED <<registry, changes, publishes, writing, mailbox, fetched>>

\* The package is there: the update goes on.
Installed(u) ==
    /\ sync[u] = "installing"
    /\ fetched' = TRUE
    /\ Update(u, applied[u].snapshot, applied[u].release)
    /\ UNCHANGED <<registry, changes, publishes, writing, mailbox, applied>>

\* It cannot be installed: nothing was touched, and the next round tries again.
InstallFails(u) ==
    /\ sync[u] = "installing"
    /\ sync' = [sync EXCEPT ![u] = "over"]
    /\ UNCHANGED <<registry, changes, publishes, writing, mailbox, shell, release, spent, applied, signature, fetched>>

-----------------------------------------------------------------------------

Next ==
    \/ \E i \in Item : Change(i)
    \/ \E u \in 1..MaxSync : Sync(u) \/ Installed(u) \/ InstallFails(u)
    \/ Snapshot \/ Rename

Spec == Init /\ [][Next]_userlandVars

-----------------------------------------------------------------------------
(* Properties.                                                             *)

\* When nothing is left to publish, the file is the registry: a snapshot never overtakes a later one.
PublishedIsLatest == publishes = 0 /\ writing = No => mailbox = registry

\* What the sandbox claims to have applied is registered, whatever updates overlapped: releasing what an earlier one
\* registered takes nothing away (run.ts:161).
AppliedIsRegistered == Commands(signature) \subseteq shell

\* Nothing else is, as the test at tests/userland.test.ts:44 has it: a command is unregistered on release. Of two updates
\* that read the same release the first that is applied is never released, and what only it declared stays.
NothingElse == mailbox = signature /\ (\A u \in 1..MaxSync : sync[u] # "installing") => shell = Commands(signature)
=============================================================================
