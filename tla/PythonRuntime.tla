----------------------------- MODULE PythonRuntime -----------------------------
(***************************************************************************)
(* Python in a container: the page injects the runtime's files, the host   *)
(* keeps one daemon and hands it commands, the daemon answers them in      *)
(* order and keeps the packages that pip installed.                        *)
(*   page    engine/python-assets.ts, plugin/executor-runtime.ts           *)
(*   host    engine/python-daemon-client.ts, engine/host/run-python.ts     *)
(*   daemon  engine/python-daemon/{main,rpc,pip,loader}.ts                 *)
(* A daemon is known by the number of its spawn, its READY promise with    *)
(* it. What a command prints is left out, its exit code too.               *)
(***************************************************************************)
EXTENDS Naturals, Sequences, FiniteSets

CONSTANTS
    MaxCall,        \* commands submitted
    MaxDaemon,      \* daemons spawned
    Packages,       \* what pip may install
    MaxFault        \* failed downloads, failed starts and crashes

VARIABLES
    assets,         \* files of the runtime in the container, in the order of their writing
    injecting,      \* an injection is on its way
    call,           \* what became of each command
    client,         \* the fields of PythonDaemonClient
    proc,           \* the daemon processes
    site,           \* site-packages
    manifest,       \* installed.json
    faults

vars == <<assets, injecting, call, client, proc, site, manifest, faults>>

Calls == 1..MaxCall
Daemons == 1..MaxDaemon
Script == 1                 \* python-daemon.js is written first ...
Glue == 2                   \* ... then what it imports ...
Complete == 3               \* ... and what that loads

Jobs == [op : {"code"}] \cup [op : {"install", "uninstall"}, pkg : Packages]
NoJob == [op |-> "none"]
NoCall == [pc |-> "new", job |-> NoJob, ready |-> 0, id |-> 0, by |-> 0]
NoProc == [st |-> "none", ready |-> "waiting", told |-> FALSE, inbox |-> <<>>, step |-> "idle", outbox |-> <<>>, exitSeen |-> FALSE]

TypeOK ==
    /\ assets \in 0..Complete /\ injecting \in BOOLEAN
    /\ \A c \in Calls :
        /\ call[c].pc \in {"new", "injecting", "sent", "starting", "pending", "done"}
        /\ call[c].job \in Jobs \cup {NoJob}
        /\ call[c].id \in 0..MaxCall /\ call[c].by \in 0..MaxCall
    /\ client.child \in 0..MaxDaemon /\ client.ready \in 0..MaxDaemon /\ client.nextId \in 1..(MaxCall + 1)
    /\ \A d \in Daemons :
        /\ proc[d].st \in {"none", "loading", "up", "dead"}
        /\ proc[d].ready \in {"waiting", "ok", "failed"}
        /\ proc[d].step \in {"idle", "erasing", "written"}
    /\ site \in [Packages -> {"none", "partial", "whole"}]
    /\ manifest \subseteq Packages /\ faults \in 0..MaxFault

\* A new page, with the packages that a snapshot has brought back, not all of them whole.
Init ==
    /\ assets = 0 /\ injecting = FALSE
    /\ call = [c \in Calls |-> NoCall]
    /\ client = [child |-> 0, ready |-> 0, nextId |-> 1]
    /\ proc = [d \in Daemons |-> NoProc]
    /\ manifest \in SUBSET Packages /\ faults = 0
    /\ site \in [Packages -> {"none", "partial", "whole"}] /\ \A p \in Packages : site[p] = "none" <=> p \notin manifest

Fault == faults < MaxFault /\ faults' = faults + 1
Settled(by) == [NoCall EXCEPT !.pc = "done", !.by = by]
Failed == Settled(0)
Pending == {c \in Calls : call[c].pc = "pending"}

-----------------------------------------------------------------------------
(* The page.                                                               *)

\* exec: ensurePythonRuntime looks for python-daemon.js only, and joins an injection on its way.
\* A command typed at the interactive shell reaches the host without it.
Submit(c, job, typed) ==
    /\ call[c].pc = "new" /\ \A b \in Calls : b < c => call[b].pc # "new"
    /\ IF typed \/ assets >= Script
         THEN call' = [call EXCEPT ![c].pc = "sent", ![c].job = job] /\ injecting' = injecting
         ELSE call' = [call EXCEPT ![c].pc = "injecting", ![c].job = job] /\ injecting' = TRUE
    /\ UNCHANGED <<assets, client, proc, site, manifest, faults>>

Joined == {c \in Calls : call[c].pc = "injecting"}

\* doInject: one file after the other; the last one lets everybody who waits go on.
InjectNext ==
    /\ injecting
    /\ assets' = IF assets < Complete THEN assets + 1 ELSE assets
    /\ injecting' = (assets' < Complete)
    /\ call' = IF injecting' THEN call ELSE [c \in Calls |-> IF c \in Joined THEN [call[c] EXCEPT !.pc = "sent"] ELSE call[c]]
    /\ UNCHANGED <<client, proc, site, manifest, faults>>

\* A download fails: the injection ends, what is written stays.
InjectFails ==
    /\ injecting /\ Fault
    /\ injecting' = FALSE
    /\ call' = [c \in Calls |-> IF c \in Joined THEN Failed ELSE call[c]]
    /\ UNCHANGED <<assets, client, proc, site, manifest>>

-----------------------------------------------------------------------------
(* The host.                                                               *)

\* (mutant: each daemon counts its commands from one)
DisposeCountsAnew(cl, expected) ==
    IF expected # 0 /\ cl.child # expected THEN cl ELSE [cl EXCEPT !.child = 0, !.ready = 0, !.nextId = 1]

\* dispose(expected): a child that was replaced changes nothing; 0 stands for the call without an argument.
Dispose(cl, expected) ==
    IF expected # 0 /\ cl.child # expected THEN cl ELSE [cl EXCEPT !.child = 0, !.ready = 0]

\* exec after READY, for the commands that waited for it: an id, an entry among the pending ones with its timer, and a line
\* for whoever is the child by now.
WriteAll(waiting, procs) ==
    LET place(c) == Cardinality({b \in waiting : b <= c})
        nth(i) == CHOOSE c \in waiting : place(c) = i
        id(i) == client.nextId + i - 1
        lines == [i \in 1..Cardinality(waiting) |-> [id |-> id(i), call |-> nth(i), job |-> call[nth(i)].job]] IN
    /\ call' = [c \in Calls |-> IF c \in waiting
                  THEN [call[c] EXCEPT !.pc = "pending", !.ready = 0, !.id = id(place(c))] ELSE call[c]]
    /\ client' = [client EXCEPT !.nextId = @ + Cardinality(waiting)]
    /\ proc' = [d \in Daemons |->
                  IF d = client.child /\ procs[d].st # "dead" THEN [procs[d] EXCEPT !.inbox = @ \o lines] ELSE procs[d]]

\* runPython and the start of exec: without the script the command fails; a READY promise that is there is waited for.
Exec(c) ==
    /\ call[c].pc = "sent"
    /\ LET d == client.ready
           waits == [call EXCEPT ![c].pc = "starting", ![c].ready = d] IN
        \/ /\ assets < Script
           /\ call' = [call EXCEPT ![c] = Failed]
           /\ UNCHANGED <<client, proc>>
        \/ assets >= Script /\ d # 0 /\ proc[d].told /\ WriteAll({c}, proc)
        \/ /\ assets >= Script /\ d # 0 /\ ~proc[d].told
           /\ call' = waits
           /\ UNCHANGED <<client, proc>>
        \/ /\ assets >= Script /\ d = 0
           /\ \E new \in Daemons :
               /\ proc[new].st = "none" /\ \A b \in Daemons : b < new => proc[b].st # "none"
               /\ proc' = [proc EXCEPT ![new].st = "loading"]
               /\ client' = [client EXCEPT !.child = new, !.ready = new]
               /\ call' = [call EXCEPT ![c].pc = "starting", ![c].ready = new]
    /\ UNCHANGED <<assets, injecting, site, manifest, faults>>

\* The first line of a daemon settles its promise: who waits for it writes, or fails and lets the client forget its child.
ReadReady(d) ==
    /\ proc[d].ready # "waiting" /\ ~proc[d].told
    /\ LET waiting == {c \in Calls : call[c].pc = "starting" /\ call[c].ready = d} IN
        \/ proc[d].ready = "ok" /\ WriteAll(waiting, [proc EXCEPT ![d].told = TRUE])
        \/ /\ proc[d].ready = "failed"
           /\ call' = [c \in Calls |-> IF c \in waiting THEN Failed ELSE call[c]]
           /\ client' = IF waiting = {} THEN client ELSE Dispose(client, 0)
           /\ proc' = [proc EXCEPT ![d].told = TRUE]
    /\ UNCHANGED <<assets, injecting, site, manifest, faults>>

\* A killed process does nothing any more; its exit is heard of later.
Killed(d) == IF d = 0 \/ proc[d].st = "dead" THEN proc ELSE [proc EXCEPT ![d].st = "dead", ![d].inbox = <<>>, ![d].step = "idle"]

\* (mutant: the timer kills the daemon and leaves it to the exit event to settle)
TimeoutKillsOnly(c) ==
    /\ c \in Pending /\ client.child # 0
    /\ proc' = Killed(client.child)
    /\ client' = Dispose(client, client.child)
    /\ UNCHANGED <<assets, injecting, call, site, manifest, faults>>

\* The timer of a command: the command is over, and the child of the moment is killed.
Timeout(c) ==
    /\ c \in Pending
    /\ proc' = Killed(client.child)
    /\ client' = Dispose(client, client.child)
    /\ call' = [call EXCEPT ![c] = Failed]
    /\ UNCHANGED <<assets, injecting, site, manifest, faults>>

\* A line of a daemon's output: the answer to the pending command of that id, if there is one.
ReadAnswer(d) ==
    /\ proc[d].told /\ proc[d].outbox # <<>>
    /\ LET line == Head(proc[d].outbox)
           asked == {c \in Pending : call[c].id = line.id} IN
        call' = [c \in Calls |-> IF c \in asked THEN Settled(line.call) ELSE call[c]]
    /\ proc' = [proc EXCEPT ![d].outbox = Tail(@)]
    /\ UNCHANGED <<assets, injecting, client, site, manifest, faults>>

\* The exit event: every pending command is told, the ones of a newer daemon too.
ExitEvent(d) ==
    /\ proc[d].st = "dead" /\ ~proc[d].exitSeen
    /\ proc' = [proc EXCEPT ![d].exitSeen = TRUE]
    /\ client' = Dispose(client, d)
    /\ call' = [c \in Calls |-> IF c \in Pending THEN Failed ELSE call[c]]
    /\ UNCHANGED <<assets, injecting, site, manifest, faults>>

-----------------------------------------------------------------------------
(* The daemon.                                                             *)

\* restorePersisted: what is not whole is removed, from the disk and from the manifest.
Restored ==
    [p \in Packages |-> IF p \in manifest /\ site[p] # "whole" THEN "none" ELSE site[p]]

\* (mutant: a package whose directory is there counts as installed)
KeptIfPresent == {p \in manifest : site[p] # "none"}

Kept == {p \in manifest : site[p] = "whole"}

\* main: without the file it imports the process ends before it can say anything; otherwise it restores and reports READY.
Load(d) ==
    /\ proc[d].st = "loading"
    /\ \/ assets < Glue /\ proc' = [proc EXCEPT ![d].st = "dead"] /\ UNCHANGED <<site, manifest>>
       \/ /\ assets = Complete
          /\ proc' = [proc EXCEPT ![d].st = "up", ![d].ready = "ok"]
          /\ site' = Restored /\ manifest' = Kept
    /\ UNCHANGED <<assets, injecting, call, client, faults>>

\* main's catch: loadPyodide throws, for want of a file or for any other reason; the failure is reported, the process ends.
LoadFails(d) ==
    /\ proc[d].st = "loading" /\ assets >= Glue
    /\ IF assets < Complete THEN UNCHANGED faults ELSE Fault
    /\ proc' = [proc EXCEPT ![d].st = "dead", ![d].ready = "failed"]
    /\ UNCHANGED <<assets, injecting, call, client, site, manifest>>

Answer(d, line, files, listed) ==
    /\ proc' = [proc EXCEPT ![d].inbox = Tail(@), ![d].step = "idle", ![d].outbox = Append(@, line)]
    /\ site' = files /\ manifest' = listed
    /\ UNCHANGED <<assets, injecting, call, client, faults>>

Step(d, step, files) ==
    /\ proc' = [proc EXCEPT ![d].step = step]
    /\ site' = files
    /\ UNCHANGED <<assets, injecting, call, client, manifest, faults>>

\* One step of the request at the head of the chain. pip install erases what is there, lets micropip write, and
\* lists the package; pip uninstall erases and unlists. Other commands touch neither.
Serve(d) ==
    /\ proc[d].st = "up" /\ proc[d].inbox # <<>>
    /\ LET line == Head(proc[d].inbox)
           job == line.job IN
        \/ job.op = "code" /\ Answer(d, line, site, manifest)
        \/ /\ job.op \in {"install", "uninstall"} /\ proc[d].step = "idle"
           /\ Step(d, "erasing", IF job.op = "install" \/ site[job.pkg] # "none" THEN [site EXCEPT ![job.pkg] = "partial"] ELSE site)
        \/ job.op = "install" /\ proc[d].step = "erasing" /\ Step(d, "written", [site EXCEPT ![job.pkg] = "whole"])
        \/ job.op = "install" /\ proc[d].step = "written" /\ Answer(d, line, site, manifest \cup {job.pkg})
        \/ /\ job.op = "uninstall" /\ proc[d].step = "erasing"
           /\ Answer(d, line, [site EXCEPT ![job.pkg] = "none"], manifest \ {job.pkg})

\* micropip cannot fetch the package: the old one is gone, the manifest is left as it is.
InstallFails(d) ==
    /\ proc[d].st = "up" /\ proc[d].step = "erasing" /\ Fault
    /\ LET line == Head(proc[d].inbox) IN
        /\ line.job.op = "install"
        /\ proc' = [proc EXCEPT ![d].inbox = Tail(@), ![d].step = "idle", ![d].outbox = Append(@, line)]
        /\ site' = [site EXCEPT ![line.job.pkg] = "none"]
    /\ UNCHANGED <<assets, injecting, call, client, manifest>>

\* The process ends: killed by a user, or by the rejection of a command that ran out of the daemon's own time.
Crash(d) ==
    /\ proc[d].st = "up" /\ Fault
    /\ proc' = [proc EXCEPT ![d].st = "dead", ![d].inbox = <<>>, ![d].step = "idle"]
    /\ UNCHANGED <<assets, injecting, call, client, site, manifest>>

-----------------------------------------------------------------------------

Next ==
    \/ \E c \in Calls, job \in Jobs, typed \in BOOLEAN : Submit(c, job, typed)
    \/ InjectNext \/ InjectFails
    \/ \E c \in Calls : Exec(c) \/ Timeout(c)
    \/ \E d \in Daemons : ReadReady(d) \/ ReadAnswer(d) \/ ExitEvent(d) \/ Load(d) \/ LoadFails(d) \/ Serve(d) \/ InstallFails(d) \/ Crash(d)

Spec == Init /\ [][Next]_vars

\* Promises, events and timers of the page and the host come; a daemon that loads comes to an end of it. A Python program
\* may run for ever.
Fairness ==
    /\ WF_vars(InjectNext)
    /\ \A c \in Calls : WF_vars(Exec(c)) /\ WF_vars(Timeout(c))
    /\ \A d \in Daemons : WF_vars(ReadReady(d)) /\ WF_vars(ExitEvent(d)) /\ WF_vars(Load(d) \/ LoadFails(d))

FairSpec == Spec /\ Fairness

-----------------------------------------------------------------------------
(* Properties.                                                             *)

\* An answer is given to the command it answers: a daemon that was killed may still have lines on their way when its
\* successor serves (python-daemon-client.ts:74).
AnswersAreOwn == \A c \in Calls : call[c].by \in {0, c}

\* When a daemon reports READY, every package it lists can be imported, however the daemon before it was stopped in the
\* middle of pip (pip.ts:136).
ReadyMeansWhole ==
    [][\A d \in Daemons : proc'[d].ready = "ok" /\ proc[d].ready # "ok" => \A p \in manifest' : site'[p] = "whole"]_vars

\* exec has no timer before READY (python-daemon-client.ts:108): a command is settled, unless the daemon it waits for ended
\* without a word.
Mute(d) == d # 0 /\ proc[d].st = "dead" /\ proc[d].ready = "waiting"
Unsettled == {c \in Calls : call[c].pc \notin {"new", "done"} /\ ~Mute(call[c].ready)}
CommandSettles == Unsettled # {} ~> Unsettled = {}
=============================================================================
