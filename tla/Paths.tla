--------------------------------- MODULE Paths ---------------------------------
(***************************************************************************)
(* The three names of one file (engine/host-route.ts): the path of the     *)
(* execution world, whose /workspace is the directory the host runs in,    *)
(* the path of the browser's file system, whose / is that directory, and    *)
(* the real path.  A path is the sequence of its segments.  The module      *)
(* walks: a path that is written segment by segment, and a shell that takes *)
(* each segment as a cd of its own.                                         *)
(***************************************************************************)
EXTENDS Naturals, Sequences, SequencesExt

CONSTANTS
    Segment,     \* the names a path is made of, with "..", "." and "workspace"
    MaxLength    \* bound: segments of a path

VARIABLES
    path,        \* as it was written
    shell        \* the directory of a shell that went there step by step

pathVars == <<path, shell>>

Root == <<"home", "container">>     \* process.cwd() of the host
Outside == <<"outside">>            \* null, or an error

\* canonicalizeVirtualPath
Canonical(raw) ==
    FoldLeft(LAMBDA done, part:
               IF part = "." THEN done
               ELSE IF part # ".." THEN Append(done, part)
               ELSE IF done = <<>> THEN done ELSE Front(done), <<>>, raw)

UnderWorkspace(p) == p # <<>> /\ Head(p) = "workspace"

\* (mutant: the prefix is looked for before the path is normalized)
VfsToRealRaw(p) == IF UnderWorkspace(p) THEN Root \o Tail(p) ELSE Canonical(p)

\* vfsToReal, spawnCwdFor
VfsToReal(p) ==
    LET c == Canonical(p) IN IF UnderWorkspace(c) THEN Root \o Tail(c) ELSE c

\* resolveBrowserPath, for the script that python is given
ResolveBrowserPath(p) ==
    LET c == Canonical(p) IN Root \o (IF UnderWorkspace(c) THEN Tail(c) ELSE c)

\* lifoSpawndCwd: a directory that only the execution world has is refused.
LifoSpawnCwd(cwd) == IF UnderWorkspace(cwd) THEN Root \o Tail(cwd) ELSE Outside

SessionCwdToBrowserPath(cwd) == IF UnderWorkspace(cwd) THEN Tail(cwd) ELSE <<>>

BrowserPathToLifoCwd(p) == <<"workspace">> \o Canonical(p)

LifoCwdToSessionCwd(cwd) ==
    IF cwd = <<>> THEN <<"workspace">> ELSE IF UnderWorkspace(cwd) THEN cwd ELSE Outside

\* resolveRequestCwd of a cwd that a request names: the directory it runs in.
RequestCwd(raw) ==
    LET c == Canonical(raw)
        cwd == IF c = <<>> THEN <<"workspace">> ELSE c
    IN IF UnderWorkspace(cwd) THEN VfsToReal(cwd) ELSE Outside

\* instanceStateRootFor and statePath: the same directory for the host and the page.
HostStateRoot(id) == Root \o <<"workspace", id>>
PageStateRoot(id) == <<"workspace", id>>

Init == path = <<>> /\ shell = <<>>

Next ==
    /\ Len(path) < MaxLength
    /\ \E part \in Segment:
         path' = Append(path, part) /\ shell' = Canonical(Append(shell, part))

Spec == Init /\ [][Next]_pathVars

-------------------------------------------------------------------------------
\* What a request names and what the shell reaches by its cds is one directory:
\* for a command line in the shell, a request's cwd, a process of the session,
\* and the page, which reads it under its own name.
ViewsAgree ==
    /\ shell = Canonical(path)
    /\ RequestCwd(path) # Outside =>
         /\ RequestCwd(path) = VfsToReal(LifoCwdToSessionCwd(shell))
         /\ RequestCwd(path) = Root \o SessionCwdToBrowserPath(LifoCwdToSessionCwd(shell))
    /\ LifoSpawnCwd(shell) # Outside => LifoSpawnCwd(shell) = VfsToReal(path)
    /\ VfsToReal(BrowserPathToLifoCwd(path)) = Root \o Canonical(path)

\* No number of ".." leads a process out of the shared directory, in a cwd or in
\* the path of a script; and the state of an instance has one place.
StaysInWorkspace ==
    /\ RequestCwd(path) # Outside => IsPrefix(Root, RequestCwd(path))
    /\ IsPrefix(Root, ResolveBrowserPath(path))
    /\ UnderWorkspace(Canonical(path)) => IsPrefix(Root, VfsToReal(path))
    /\ VfsToReal(BrowserPathToLifoCwd(PageStateRoot("id"))) = HostStateRoot("id")
=============================================================================
