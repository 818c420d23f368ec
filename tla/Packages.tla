------------------------------- MODULE Packages -------------------------------
(***************************************************************************)
(* Packages of two sources (src/pkg, engine/host/package-world.ts): Lifo's *)
(* own and npm's.  The page's pkg command chooses the source, Lifo's or    *)
(* npm's command moves the payload, and the host keeps a manifest of what  *)
(* it knows to be there.  The shell of a terminal and the packages that    *)
(* plugins declare use the same commands beside the page.                  *)
(***************************************************************************)
EXTENDS Naturals, FiniteSets

CONSTANTS
    Package,        \* package names
    InLifo,         \* those that Lifo's registry has
    MaxJob          \* jobs of each actor

VARIABLES
    payload,        \* what is installed, by name and source
    manifest,       \* /etc/succinix.packages.json
    job,            \* what each actor does
    jobs            \* jobs each actor has begun

packageVars == <<payload, manifest, job, jobs>>

Actor == {"page", "shell", "plugin"}
Source == {"lifo", "npm"}
Entry == Package \X Source
None == [at |-> "none", op |-> "none", name |-> CHOOSE p \in Package : TRUE, source |-> "lifo"]

TypeOK ==
    /\ payload \subseteq Entry /\ manifest \subseteq Entry
    /\ \A a \in Actor : job[a].at \in {"none", "probe", "command", "done"} /\ jobs[a] \in 0..MaxJob

Init == payload = {} /\ manifest = {} /\ job = [a \in Actor |-> None] /\ jobs = [a \in Actor |-> 0]

Of(a) == <<job[a].name, job[a].source>>

Begin(a, at, op, p, source) ==
    /\ job[a].at = "none" /\ jobs[a] < MaxJob
    /\ job' = [job EXCEPT ![a] = [at |-> at, op |-> op, name |-> p, source |-> source]]
    /\ jobs' = [jobs EXCEPT ![a] = @ + 1]
    /\ UNCHANGED <<payload, manifest>>

-----------------------------------------------------------------------------
(* The page.                                                               *)

\* installPackage and removePackage, after the name was found valid: they first have to find the source.
PkgInstall(p) == Begin("page", "probe", "install", p, "lifo")
PkgRemove(p) == Begin("page", "probe", "remove", p, "lifo")

\* detectSource: a channel that cannot be reached counts as one that does not have the package.
Detect(reached) ==
    /\ job["page"].at = "probe" /\ job["page"].op = "install"
    /\ job' = [job EXCEPT !["page"].at = "command",
                          !["page"].source = IF reached /\ job["page"].name \in InLifo THEN "lifo" ELSE "npm"]
    /\ UNCHANGED <<payload, manifest, jobs>>

\* listLifo and listNpm, merged: a package of both sources is shown as Lifo's; a channel that cannot be reached shows none.
Shown(reached) == {entry \in payload : entry[2] = "lifo" => reached}
SourceShown(p, reached) == IF <<p, "lifo">> \in Shown(reached) THEN "lifo" ELSE "npm"

\* removePackage goes by what is shown; what is not is not removed.
FindInstalled(reached) ==
    /\ job["page"].at = "probe" /\ job["page"].op = "remove"
    /\ LET p == job["page"].name
           source == SourceShown(p, reached) IN
       job' = [job EXCEPT !["page"] = IF <<p, source>> \in Shown(reached) THEN [@ EXCEPT !.at = "command", !.source = source] ELSE None]
    /\ UNCHANGED <<payload, manifest, jobs>>

-----------------------------------------------------------------------------
(* The shell of a terminal, and the packages of plugins.                   *)

\* lifo install and lifo remove (installPackageManifestTracking).
LifoCommand(op, p) == p \in InLifo /\ Begin("shell", "command", op, p, "lifo")

\* succinix pkg with npm: (manageExplicitNpm).
NpmCommand(op, p) == Begin("shell", "command", op, p, "npm")

\* reconcileRegisteredUserlandPackages: a declared package whose payload is there is only recorded.
Reconcile(p, source) ==
    /\ source = "npm" \/ p \in InLifo
    /\ Begin("plugin", IF <<p, source>> \in payload THEN "done" ELSE "command", "install", p, source)

-----------------------------------------------------------------------------
(* The commands of the host.                                               *)

\* The real command moves the payload.
CommandMoves(a) ==
    /\ job[a].at = "command"
    /\ payload' = IF job[a].op = "install" THEN payload \cup {Of(a)} ELSE payload \ {Of(a)}
    /\ job' = [job EXCEPT ![a].at = "done"]
    /\ UNCHANGED <<manifest, jobs>>

\* A command that fails leaves no trace in the manifest.
CommandFails(a) ==
    /\ job[a].at = "command"
    /\ job' = [job EXCEPT ![a] = None]
    /\ UNCHANGED <<payload, manifest, jobs>>

\* packagePayloadIntegrity: a package that is not there has no digest.
HasDigest(entry) == entry \in payload

\* (mutant: what the command said is recorded without a look at the payload)
RecordUnseen(entry) == manifest' = manifest \cup {entry}

\* updateManifestAfterLifo, recordPackageInstall.
RecordInstall(entry) == manifest' = IF HasDigest(entry) THEN manifest \cup {entry} ELSE manifest

\* recordPackageRemove.
RecordRemove(entry) == manifest' = manifest \ {entry}

CommandEnds(a) ==
    /\ job[a].at = "done"
    /\ IF job[a].op = "install" THEN RecordInstall(Of(a)) ELSE RecordRemove(Of(a))
    /\ job' = [job EXCEPT ![a] = None]
    /\ UNCHANGED <<payload, jobs>>

-----------------------------------------------------------------------------

Next ==
    \/ \E p \in Package : PkgInstall(p) \/ PkgRemove(p)
    \/ \E p \in Package, source \in Source : Reconcile(p, source)
    \/ \E p \in Package, op \in {"install", "remove"} : LifoCommand(op, p) \/ NpmCommand(op, p)
    \/ \E reached \in BOOLEAN : Detect(reached) \/ FindInstalled(reached)
    \/ \E a \in Actor : CommandMoves(a) \/ CommandFails(a) \/ CommandEnds(a)

-----------------------------------------------------------------------------
(* Properties.                                                             *)

\* doctor: the entries without payload.
Missing == {entry \in manifest : ~HasDigest(entry)}

\* What the manifest lists is installed, whoever else installs and removes at the same time (manifest.ts:1), so doctor
\* finds everything consistent; only the entry of a package that is just being removed outlives its payload for a moment.
RecordedIsThere == \A entry \in Missing : \E a \in Actor : job[a].at = "done" /\ job[a].op = "remove" /\ Of(a) = entry
=============================================================================
