------------------------------ MODULE RpcChannel ------------------------------
(***************************************************************************)
(* The file RPC between the page and the host daemon.                      *)
(*                                                                         *)
(*   page    one Channel per WebContainer (engine/client.ts): a normal and *)
(*           a priority queue, one delivery at a time, an epoch (the boot  *)
(*           nonce) that every restart of the host rotates                 *)
(*   files   /cmd.json (one slot), ack-<id>.json, result-<id>.json and     *)
(*           the host epoch file                                           *)
(*   host    the polling daemon (engine/host/main.ts): a normal loop and,  *)
(*           while that one is busy, a priority loop                       *)
(*   driver  the executor that boots, fences, stops, kills and respawns    *)
(*           the host (engine/terminal-executor.ts, boot-steps.ts)         *)
(*                                                                         *)
(* Every file operation is a step of its own wherever another party can    *)
(* act between two of them.  Timeouts may fire whenever their timer runs.  *)
(* An epoch stands for the boot nonce together with the request prefix,    *)
(* which the code draws afresh in the same statement.                      *)
(***************************************************************************)
EXTENDS Naturals, Sequences, FiniteSets, Functions

CONSTANTS
    MaxEpoch,    \* bound: epochs (and so host processes) of one page
    MaxSeq,      \* bound: requests submitted in one epoch
    MaxRequests, \* bound: requests submitted in all
    Commands,    \* the protocol commands the clients submit
    Instances,   \* instance ids; the clients of one page share the channel
    KillLag,     \* TRUE: kill() returns before a running host has stopped
    AllowReboot  \* TRUE: an executor may be disposed and booted again

ASSUME BoundsAssumption ==
    MaxEpoch \in Nat /\ MaxSeq \in Nat /\ MaxRequests \in Nat
ASSUME FlagsAssumption  == KillLag \in BOOLEAN /\ AllowReboot \in BOOLEAN

\* "blank" is run with an empty command; "shutdown" is the exit request that
\* requestHostShutdown sends, the only one whose acknowledgement has a callback.
AllCommands == {"run", "blank", "spawn", "ping", "interrupt", "exit", "shutdown"}
ASSUME CommandsAssumption == Commands \subseteq AllCommands \ {"shutdown"}

Default == "default"
ASSUME InstancesAssumption == Default \in Instances

Epoch   == 1..MaxEpoch
Id      == Epoch \X (1..MaxSeq)
NoId    == <<0, 0>>
EpochOf(id) == id[1]
Loops   == {"main", "priority"}

\* READONLY controls and stop requests the priority loop takes while busy.
PriorityCommands == {"ping", "interrupt", "exit", "shutdown"}

Settled == {"failed", "accepted", "reply", "stale", "foreign"}
Status  == {"unused", "queued", "acked"} \union Settled

VARIABLES
    ch,         \* [nonce, seq, prepared, paused, normal, priority]: Channel
    cmd, inst,  \* what each request id asks for, and for which instance
    status,     \* where the caller of each request stands
    delivery,   \* [id, pc]: the one delivery in progress
    sweep,      \* per rotated epoch: how far clearEpochArtifacts has come
    cmdFile,    \* the id of the request in /cmd.json, or NoId
    acks,       \* the ids that have an ack file
    results,    \* per id: "none" or the kind of its result file
    epochFile,  \* the host epoch file (0: not written yet)
    proc,       \* per process: "none", "starting", "up", "exiting", "dead"
    procEpoch,  \* the epoch each process has read, 0 before it has
    loop,       \* per process and loop: [pc, id]
    processed,  \* per process: the ids it has begun (BoundedProcessedIds)
    late,       \* per process: spawn requests inside the confirm window
    driver,     \* [pc, mode, epoch, proc, exitId]: boot/respawn/dispose
    started,    \* history: how often a handler was started for each id
    written     \* history: the ids ever written to /cmd.json

pageVars   == <<ch, cmd, inst, status, delivery, sweep>>
fileVars   == <<cmdFile, acks, results, epochFile>>
hostVars   == <<proc, procEpoch, loop, processed, late>>
historyVars == <<started, written>>
vars == <<pageVars, fileVars, hostVars, driver, historyVars>>

Idle == [pc |-> "idle", id |-> NoId]

ChannelType  == [nonce: 0..MaxEpoch, seq: 0..MaxSeq, prepared: BOOLEAN,
                 paused: BOOLEAN, normal: Seq(Id), priority: Seq(Id)]
DeliveryType == [pc: {"idle", "write", "poll", "accepted"}, id: Id \union {NoId}]
ResultKind   == {"none", "reply", "stale", "foreign"}
ProcState    == {"none", "starting", "up", "exiting", "dead"}
LoopType     == [pc: {"idle", "run", "compare", "unlink"}, id: Id \union {NoId}]
DriverType   == [pc: {"off", "exit", "stop", "write", "spawn", "up", "failed"},
                 mode: {"boot", "retry", "respawn", "dispose"},
                 epoch: 0..MaxEpoch, proc: 0..MaxEpoch, exitId: Id \union {NoId}]

TypeOK ==
    /\ ch \in ChannelType
    /\ cmd \in [Id -> AllCommands \union {"none"}]
    /\ inst \in [Id -> Instances]
    /\ status \in [Id -> Status]
    /\ delivery \in DeliveryType
    /\ sweep \in [Epoch -> {"no", "read", "unlink"}]
    /\ cmdFile \in Id \union {NoId}
    /\ acks \subseteq Id
    /\ results \in [Id -> ResultKind]
    /\ epochFile \in 0..MaxEpoch
    /\ proc \in [Epoch -> ProcState]
    /\ procEpoch \in [Epoch -> 0..MaxEpoch]
    /\ loop \in [Epoch -> [Loops -> LoopType]]
    /\ processed \in [Epoch -> SUBSET Id]
    /\ late \in [Epoch -> SUBSET Id]
    /\ driver \in DriverType
    /\ started \in [Id -> Nat]
    /\ written \subseteq Id

Init ==
    /\ ch = [nonce |-> 0, seq |-> 0, prepared |-> FALSE, paused |-> FALSE,
             normal |-> <<>>, priority |-> <<>>]
    /\ cmd = [id \in Id |-> "none"]
    /\ inst = [id \in Id |-> Default]
    /\ status = [id \in Id |-> "unused"]
    /\ delivery = Idle
    /\ sweep = [e \in Epoch |-> "no"]
    /\ cmdFile = NoId
    /\ acks = {}
    /\ results = [id \in Id |-> "none"]
    /\ epochFile = 0
    /\ proc = [p \in Epoch |-> "none"]
    /\ procEpoch = [p \in Epoch |-> 0]
    /\ loop = [p \in Epoch |-> [l \in Loops |-> Idle]]
    /\ processed = [p \in Epoch |-> {}]
    /\ late = [p \in Epoch |-> {}]
    /\ driver = [pc |-> "off", mode |-> "boot", epoch |-> 0, proc |-> 0,
                 exitId |-> NoId]
    /\ started = [id \in Id |-> 0]
    /\ written = {}

-------------------------------------------------------------------------------
(* The epoch fence of the page.                                            *)

Current(id) == EpochOf(id) = ch.nonce
Queued      == Range(ch.normal) \union Range(ch.priority)

\* Requests of exec: prepareHostEpoch hands their ids to clearEpochArtifacts.
Active(id) == status[id] \in {"queued", "acked"} /\ cmd[id] # "shutdown"

CanRotate == ch.prepared \/ ch.nonce < MaxEpoch

\* prepareHostEpoch(pause): the first call after a take rotates the epoch,
\* rejects what is queued and sends off the clean-up of the old epoch; a
\* second one only pauses.  st is the status the caller leaves otherwise, and
\* keep is FALSE in takeHostEpoch, which consumes the prepared epoch at once.
PrepareHostEpoch(pause, keep, st) ==
    IF ch.prepared
    THEN /\ ch' = [ch EXCEPT !.paused = @ \/ pause, !.prepared = keep]
         /\ status' = st
         /\ UNCHANGED <<sweep, acks, results>>
    ELSE /\ ch' = [nonce |-> ch.nonce + 1, seq |-> 0, prepared |-> keep,
                   paused |-> pause, normal |-> <<>>, priority |-> <<>>]
         /\ status' = [id \in Id |-> IF id \in Queued THEN "failed" ELSE st[id]]
         /\ sweep' = [e \in Epoch |-> IF e = ch.nonce THEN "read" ELSE sweep[e]]
         /\ acks' = {id \in acks : ~Active(id)}
         /\ results' = [id \in Id |-> IF Active(id) THEN "none" ELSE results[id]]

\* clearEpochArtifacts after its removals: read /cmd.json, and if it holds a
\* request of the old epoch, remove whatever is there by then.
SweepRead(e) ==
    /\ sweep[e] = "read"
    /\ sweep' = [sweep EXCEPT ![e] =
                    IF cmdFile # NoId /\ EpochOf(cmdFile) = e
                    THEN "unlink" ELSE "no"]
    /\ UNCHANGED <<ch, cmd, inst, status, delivery, fileVars, hostVars,
                   driver, historyVars>>

SweepUnlink(e) ==
    /\ sweep[e] = "unlink"
    /\ sweep' = [sweep EXCEPT ![e] = "no"]
    /\ cmdFile' = NoId
    /\ UNCHANGED <<ch, cmd, inst, status, delivery, acks, results, epochFile,
                   hostVars, driver, historyVars>>

-------------------------------------------------------------------------------
(* Submitting and delivering requests.                                     *)

\* The mutant: the sequence number is taken before it is advanced.
NextIdFromZero == <<ch.nonce, ch.seq>>

NextId == <<ch.nonce, ch.seq + 1>>

\* ch.delivery; the mutant forgets that a delivery is in progress.
NeverDelivering == FALSE

Delivering == delivery # Idle

\* enqueue/pingDirect/interruptDirect up to the push into a queue.
Enqueue(c, i, lane) ==
    /\ ch.seq < MaxSeq
    /\ Cardinality({id \in Id : status[id] # "unused"}) < MaxRequests
    /\ cmd' = [cmd EXCEPT ![NextId] = c]
    /\ inst' = [inst EXCEPT ![NextId] = i]
    /\ status' = [status EXCEPT ![NextId] = "queued"]
    /\ ch' = [ch EXCEPT !.seq = @ + 1,
                        !.normal = IF lane = "normal" THEN Append(@, NextId) ELSE @,
                        !.priority = IF lane = "priority" THEN Append(@, NextId) ELSE @]

Exec(c, i) ==
    /\ ch.nonce \in Epoch
    /\ Enqueue(c, i, "normal")
    /\ UNCHANGED <<delivery, sweep, fileVars, hostVars, driver, historyVars>>

\* pingDirect and interruptDirect skip the queue, unless a delivery is in
\* progress or ordinary requests wait.
Direct(c, i) ==
    /\ c \in {"ping", "interrupt"}
    /\ ch.nonce \in Epoch
    /\ ~Delivering /\ ch.normal = <<>>
    /\ Enqueue(c, i, "priority")
    /\ UNCHANGED <<delivery, sweep, fileVars, hostVars, driver, historyVars>>

\* pumpDeliveries up to its first await.
PumpDeliveries ==
    /\ ~Delivering /\ ~ch.paused
    /\ \E lane \in {"priority", "normal"} :
         LET task == Head(ch[lane]) IN
         /\ ch[lane] # <<>>
         /\ lane = "normal" => ch.priority = <<>>
         /\ ch' = [ch EXCEPT ![lane] = Tail(@)]
         /\ IF Current(task)
            THEN delivery' = [pc |-> "write", id |-> task] /\ UNCHANGED status
            ELSE /\ status' = [status EXCEPT ![task] = "failed"]
                 /\ UNCHANGED delivery
    /\ UNCHANGED <<cmd, inst, sweep, fileVars, hostVars, driver, historyVars>>

\* atomicWrite of /cmd.json: the rename takes effect, whatever the slot holds.
WriteCommand ==
    /\ delivery.pc = "write"
    /\ cmdFile' = delivery.id
    /\ written' = written \union {delivery.id}
    /\ delivery' = [delivery EXCEPT !.pc = "poll"]
    /\ UNCHANGED <<ch, cmd, inst, status, sweep, acks, results, epochFile,
                   hostVars, driver, started>>

\* The mutant: the deadline rejects the caller while the write goes on.
RejectDeliveryOnly ==
    /\ delivery.pc \in {"write", "poll"}
    /\ status' = [status EXCEPT ![delivery.id] = "failed"]
    /\ UNCHANGED <<ch, cmd, inst, delivery, sweep, fileVars, hostVars, driver,
                   historyVars>>

\* The delivery ends in a rejection: the write failed, the epoch was rotated
\* while the acknowledgement was awaited, or the caller's time is up.
RejectDelivery ==
    /\ delivery.pc \in {"write", "poll"}
    /\ status' = [status EXCEPT ![delivery.id] = "failed"]
    /\ delivery' = Idle
    /\ UNCHANGED <<ch, cmd, inst, sweep, fileVars, hostVars, driver, historyVars>>

\* The acknowledgement is read under the current epoch and removed.
TakeAck ==
    /\ delivery.pc = "poll"
    /\ delivery.id \in acks /\ Current(delivery.id)
    /\ acks' = acks \ {delivery.id}
    /\ delivery' = [delivery EXCEPT !.pc = "accepted"]
    /\ UNCHANGED <<ch, cmd, inst, status, sweep, cmdFile, results, epochFile,
                   hostVars, driver, historyVars>>

\* onAccepted and resolve: the shutdown request fences and pauses the channel
\* in the same step, before the next delivery can start.
Accepted ==
    /\ delivery.pc = "accepted"
    /\ delivery' = Idle
    /\ IF cmd[delivery.id] = "shutdown"
       THEN /\ CanRotate
            /\ PrepareHostEpoch(TRUE, TRUE,
                                [status EXCEPT ![delivery.id] = "accepted"])
       ELSE /\ status' = [status EXCEPT ![delivery.id] = "acked"]
            /\ UNCHANGED <<ch, sweep, acks, results>>
    /\ UNCHANGED <<cmd, inst, cmdFile, epochFile, hostVars, driver, historyVars>>

-------------------------------------------------------------------------------
(* Waiting for the result: doExec after the acknowledgement.               *)

\* matchesIdentity: the ids and nonces of these files always agree; a result
\* written without the instance carries the default one.
MatchesIdentity(id) == results[id] = "reply" \/ inst[id] = Default

TakeResult(id) ==
    /\ status[id] = "acked" /\ Current(id) /\ results[id] # "none"
    /\ IF MatchesIdentity(id)
       THEN /\ status' = [status EXCEPT ![id] = results[id]]
            /\ results' = [results EXCEPT ![id] = "none"]
       ELSE /\ status' = [status EXCEPT ![id] = "failed"]
            /\ UNCHANGED results
    /\ UNCHANGED <<ch, cmd, inst, delivery, sweep, cmdFile, acks, epochFile,
                   hostVars, driver, historyVars>>

\* The epoch was rotated, or the caller's time is up.
RejectResult(id) ==
    /\ status[id] = "acked"
    /\ status' = [status EXCEPT ![id] = "failed"]
    /\ UNCHANGED <<ch, cmd, inst, delivery, sweep, fileVars, hostVars, driver,
                   historyVars>>

-------------------------------------------------------------------------------
(* The host daemon.                                                        *)

\* Module start: the epoch file is read once.
HostStart(p) ==
    /\ proc[p] = "starting"
    /\ proc' = [proc EXCEPT ![p] = "up"]
    /\ procEpoch' = [procEpoch EXCEPT ![p] = epochFile]
    /\ UNCHANGED <<pageVars, fileVars, loop, processed, late, driver, historyVars>>

\* A process stops, and its memory is gone with it.  (processed and procEpoch
\* are kept for the properties: nothing reads them once a process is dead.)
Stop(p) ==
    /\ proc' = [proc EXCEPT ![p] = "dead"]
    /\ loop' = [loop EXCEPT ![p] = [l \in Loops |-> Idle]]
    /\ late' = [late EXCEPT ![p] = {}]

\* The process ends: a crash, process.exit, or a kill that takes effect.
HostExit(p) ==
    /\ proc[p] \in {"starting", "up", "exiting"}
    /\ Stop(p)
    /\ UNCHANGED <<pageVars, fileVars, procEpoch, processed, driver, historyVars>>

\* Node runs one callback at a time: a loop may act only while the other one
\* is not between the two file operations of removeIfSame.
MayRun(p, l) ==
    \A k \in Loops \ {l} : loop[p][k].pc \notin {"compare", "unlink"}

\* The normal loop polls when idle; the priority loop polls while the normal
\* one is busy, and leaves ordinary requests of its own epoch alone.
Polls(p, l) ==
    /\ proc[p] \in {"up", "exiting"} /\ loop[p][l] = Idle /\ MayRun(p, l)
    /\ cmdFile # NoId
    /\ l = "priority" =>
         /\ loop[p]["main"].pc = "run"
         /\ EpochOf(cmdFile) = procEpoch[p] => cmd[cmdFile] \in PriorityCommands

Goto(p, l, pc, id) == loop' = [loop EXCEPT ![p][l] = [pc |-> pc, id |-> id]]

\* Does the command carry the boot nonce this host read?  (mutant: any does)
AnyEpoch(p) == TRUE

SameEpoch(p) == EpochOf(cmdFile) = procEpoch[p]

\* BoundedProcessedIds.has.  (mutant: nothing is remembered)
NothingProcessed(p) == FALSE

AlreadyProcessed(p) == cmdFile \in processed[p]

\* STALE_BOOT_NONCE: a result in the request's name, and no acknowledgement.
RefuseStale(p, l) ==
    /\ Polls(p, l)
    /\ ~SameEpoch(p)
    /\ results' = [results EXCEPT ![cmdFile] = "stale"]
    /\ Goto(p, l, "compare", cmdFile)
    /\ UNCHANGED <<pageVars, cmdFile, acks, epochFile, proc, procEpoch, processed,
                   late, driver, historyVars>>

\* A request already begun is acknowledged again and not executed.
AckAgain(p, l) ==
    /\ Polls(p, l)
    /\ SameEpoch(p) /\ AlreadyProcessed(p)
    /\ acks' = acks \union {cmdFile}
    /\ Goto(p, l, "compare", cmdFile)
    /\ UNCHANGED <<pageVars, cmdFile, results, epochFile, proc, procEpoch,
                   processed, late, driver, historyVars>>

\* The request is recorded and acknowledged, and its handler starts.
Begin(p, l) ==
    /\ Polls(p, l)
    /\ SameEpoch(p) /\ ~AlreadyProcessed(p)
    /\ processed' = [processed EXCEPT ![p] = @ \union {cmdFile}]
    /\ acks' = acks \union {cmdFile}
    /\ started' = [started EXCEPT ![cmdFile] = @ + 1]
    /\ Goto(p, l, "run", cmdFile)
    /\ UNCHANGED <<pageVars, cmdFile, results, epochFile, proc, procEpoch, late,
                   driver, written>>

\* The handler returns.  It has written its result, except that spawn answers
\* when the confirm window closes, and a blank run leaves out the instance.
Finish(p, l) ==
    LET id == loop[p][l].id IN
    /\ proc[p] \in {"up", "exiting"} /\ MayRun(p, l)
    /\ loop[p][l].pc = "run"
    /\ late' = [late EXCEPT ![p] = IF cmd[id] = "spawn" THEN @ \union {id} ELSE @]
    /\ results' = [results EXCEPT ![id] =
                     CASE cmd[id] = "spawn" -> @
                       [] cmd[id] = "blank" -> "foreign"
                       [] OTHER             -> "reply"]
    /\ proc' = [proc EXCEPT ![p] = IF cmd[id] \in {"exit", "shutdown"}
                                   THEN "exiting" ELSE @]
    /\ Goto(p, l, "compare", id)
    /\ UNCHANGED <<pageVars, cmdFile, acks, epochFile, procEpoch, processed,
                   driver, historyVars>>

SpawnConfirmed(p, id) ==
    /\ proc[p] \in {"up", "exiting"} /\ id \in late[p]
    /\ \A l \in Loops : MayRun(p, l)
    /\ late' = [late EXCEPT ![p] = @ \ {id}]
    /\ results' = [results EXCEPT ![id] = "reply"]
    /\ UNCHANGED <<pageVars, cmdFile, acks, epochFile, proc, procEpoch, loop,
                   processed, driver, historyVars>>

\* removeIfSame, its read: is the request just handled still in the slot?
Compare(p, l) ==
    /\ proc[p] \in {"up", "exiting"} /\ loop[p][l].pc = "compare"
    /\ IF cmdFile = loop[p][l].id
       THEN Goto(p, l, "unlink", cmdFile)
       ELSE Goto(p, l, "idle", NoId)
    /\ UNCHANGED <<pageVars, fileVars, proc, procEpoch, processed, late, driver,
                   historyVars>>

\* removeIfSame, its unlink: removes what the slot holds now.
Unlink(p, l) ==
    /\ proc[p] \in {"up", "exiting"} /\ loop[p][l].pc = "unlink"
    /\ cmdFile' = NoId
    /\ Goto(p, l, "idle", NoId)
    /\ UNCHANGED <<pageVars, acks, results, epochFile, proc, procEpoch, processed,
                   late, driver, historyVars>>

\* pruneStaleResults: the results nobody waits for any more.
PruneStaleResults(p) ==
    /\ proc[p] \in {"up", "exiting"} /\ \A l \in Loops : MayRun(p, l)
    /\ \E id \in Id : results[id] # "none" /\ status[id] \in Settled
    /\ results' = [id \in Id |-> IF status[id] \in Settled THEN "none"
                                 ELSE results[id]]
    /\ UNCHANGED <<pageVars, cmdFile, acks, epochFile, hostVars, driver,
                   historyVars>>

-------------------------------------------------------------------------------
(* The driver: boot, retry, respawn and dispose of the host.               *)

\* hostProc.kill(), followed in the same turn by takeHostEpoch when a new host
\* is to be booted.  With KillLag a process that is already polling stops only
\* later (HostExit); one that has not begun to run never does.  (mutant: the
\* kill throws, and the exception is swallowed)
KillFails == UNCHANGED <<proc, loop, late>>

KillProc ==
    IF driver.proc = 0 \/ (KillLag /\ proc[driver.proc] # "starting")
    THEN UNCHANGED <<proc, loop, late>>
    ELSE Stop(driver.proc)

TakeHostEpoch(mode) ==
    /\ PrepareHostEpoch(FALSE, FALSE, status)
    /\ driver' = [pc |-> "write", mode |-> mode, epoch |-> ch'.nonce,
                  proc |-> 0, exitId |-> NoId]

Boot ==
    /\ driver.pc = "off" /\ CanRotate
    /\ driver.epoch = 0 \/ AllowReboot
    /\ TakeHostEpoch("boot")
    /\ UNCHANGED <<cmd, inst, delivery, cmdFile, epochFile, hostVars, historyVars>>

\* waitForHostReadyWithRetry: the boot did not become ready, so the process is
\* killed, without a fence, and booted again.
BootRetry ==
    /\ driver.pc = "up" /\ driver.mode \in {"boot", "retry"} /\ CanRotate
    /\ KillProc
    /\ TakeHostEpoch("retry")
    /\ UNCHANGED <<cmd, inst, delivery, cmdFile, epochFile, procEpoch, processed,
                   historyVars>>

\* stopHost: ask the host to exit, or fence at once when a fence is up.
StopHost(mode) ==
    /\ driver.pc = "up" /\ CanRotate
    /\ IF ch.prepared \/ ch.paused
       THEN /\ PrepareHostEpoch(TRUE, TRUE, status)
            /\ driver' = [driver EXCEPT !.pc = "stop", !.mode = mode]
            /\ UNCHANGED <<cmd, inst>>
       ELSE /\ Enqueue("shutdown", Default, "priority")
            /\ driver' = [driver EXCEPT !.pc = "exit", !.mode = mode,
                                        !.exitId = NextId]
            /\ UNCHANGED <<sweep, acks, results>>
    /\ UNCHANGED <<delivery, cmdFile, epochFile, hostVars, historyVars>>

\* requestHostShutdown settles: on failure the fence is put up here.
ShutdownSettled ==
    /\ driver.pc = "exit" /\ status[driver.exitId] \in Settled
    /\ driver' = [driver EXCEPT !.pc = "stop", !.exitId = NoId]
    /\ IF status[driver.exitId] = "accepted"
       THEN UNCHANGED <<ch, status, sweep, acks, results>>
       ELSE PrepareHostEpoch(TRUE, TRUE, status)
    /\ UNCHANGED <<cmd, inst, delivery, cmdFile, epochFile, hostVars, historyVars>>

\* The old process has exited or its five seconds are over: kill it, and go
\* on with the replacement or end the dispose.
KillHost ==
    /\ driver.pc = "stop"
    /\ KillProc
    /\ IF driver.mode = "dispose"
       THEN /\ driver' = [driver EXCEPT !.pc = "off", !.proc = 0]
            /\ UNCHANGED <<ch, status, sweep, acks, results>>
       ELSE TakeHostEpoch("respawn")
    /\ UNCHANGED <<cmd, inst, delivery, cmdFile, epochFile, procEpoch, processed,
                   historyVars>>

\* The mutant: the file is written only when it is missing, as host.js is.
WriteHostEpochOnce ==
    /\ driver.pc = "write"
    /\ epochFile' = IF epochFile = 0 THEN driver.epoch ELSE epochFile
    /\ driver' = [driver EXCEPT !.pc = "spawn"]
    /\ UNCHANGED <<pageVars, cmdFile, acks, results, hostVars, historyVars>>

WriteHostEpoch ==
    /\ driver.pc = "write"
    /\ epochFile' = driver.epoch
    /\ driver' = [driver EXCEPT !.pc = "spawn"]
    /\ UNCHANGED <<pageVars, cmdFile, acks, results, hostVars, historyVars>>

\* respawn calls resumeHostDelivery after the spawn, boot and its retry do
\* not.  (mutant: nobody does)
NeverResumes == FALSE

Resumes == driver.mode = "respawn"

\* wc.spawn.
SpawnHost ==
    /\ driver.pc = "spawn"
    /\ proc' = [proc EXCEPT ![driver.epoch] = "starting"]
    /\ driver' = [driver EXCEPT !.pc = "up", !.proc = driver.epoch]
    /\ ch' = [ch EXCEPT !.paused = @ /\ ~Resumes]
    /\ UNCHANGED <<cmd, inst, status, delivery, sweep, fileVars, procEpoch, loop,
                   processed, late, historyVars>>

\* A fetch, a file operation or the spawn throws.
BootFails ==
    /\ driver.pc \in {"write", "spawn"} /\ ch.nonce < MaxEpoch
    /\ driver' = [driver EXCEPT !.pc = "failed"]
    /\ UNCHANGED <<pageVars, fileVars, hostVars, historyVars>>

\* The watchdog's next attempt: there is no process to stop.
RespawnAfterFailure ==
    /\ driver.pc = "failed" /\ CanRotate
    /\ TakeHostEpoch("respawn")
    /\ UNCHANGED <<cmd, inst, delivery, cmdFile, epochFile, hostVars, historyVars>>

-------------------------------------------------------------------------------
Deliver == PumpDeliveries \/ WriteCommand \/ TakeAck \/ RejectDelivery \/ Accepted

Page == \/ \E c \in Commands, i \in Instances : Exec(c, i) \/ Direct(c, i)
        \/ Deliver
        \/ \E id \in Id : TakeResult(id) \/ RejectResult(id)
        \/ \E e \in Epoch : SweepRead(e) \/ SweepUnlink(e)

Host(p) == \/ HostStart(p) \/ HostExit(p) \/ PruneStaleResults(p)
           \/ \E l \in Loops : \/ RefuseStale(p, l) \/ AckAgain(p, l) \/ Begin(p, l)
                               \/ Finish(p, l) \/ Compare(p, l) \/ Unlink(p, l)
           \/ \E id \in Id : SpawnConfirmed(p, id)

Boots == KillHost \/ WriteHostEpoch \/ SpawnHost \/ RespawnAfterFailure
         \/ ShutdownSettled

Driver == \/ Boot \/ BootRetry \/ StopHost("respawn") \/ BootFails \/ Boots
          \/ AllowReboot /\ StopHost("dispose")

Next == Page \/ Driver \/ \E p \in Epoch : Host(p)

Spec == Init /\ [][Next]_vars

-------------------------------------------------------------------------------
(* Safety.                                                                 *)

\* A request is executed at most once, whatever is retried, re-acknowledged,
\* left in the slot, or found there by a second host.
AtMostOnce == \A id \in Id : started[id] <= 1

\* A command of an epoch the page has left is never begun by the replacement
\* host, even if it is still lying in /cmd.json when that host comes up.
NoCommandCrossesRestart ==
    \A p \in Epoch : \A id \in processed[p] : EpochOf(id) = p

\* A message of another host never settles a request: the refusal a host of
\* an older epoch writes is not taken for the answer.
OldHostNeverSettles == \A id \in Id : status[id] # "stale"

\* The shutdown acknowledgement fences the channel before the next command is
\* written, so the old daemon never takes a request of the new epoch.
OldHostNeverConsumes ==
    \A p \in Epoch, l \in Loops :
        loop[p][l] # Idle => EpochOf(loop[p][l].id) <= procEpoch[p]

\* The host the driver has up runs under the epoch of the page, except while
\* a stop of that very host is on its way.
UpHostSharesEpoch ==
    driver.pc = "up" /\ ~ch.prepared /\ proc[driver.proc] = "up"
        => procEpoch[driver.proc] = ch.nonce

\* /cmd.json takes one unacknowledged request at a time: a request is
\* overwritten only after it was acknowledged or its caller was told it failed.
NoSilentOverwrite ==
    [][cmdFile # NoId /\ cmdFile' \notin {NoId, cmdFile}
         => status[cmdFile] \notin {"unused", "queued"}]_vars

\* removeIfSame deletes only the request that was just processed.
UnlinkOnlyProcessed ==
    [][\A p \in Epoch, l \in Loops :
         loop[p][l].pc = "unlink" /\ loop'[p][l].pc = "idle" /\ cmdFile' = NoId
            => cmdFile \in {NoId, loop[p][l].id}]_vars

-------------------------------------------------------------------------------
(* Liveness.  The page's own steps are fair: promises and timers fire, and *)
(* the watchdog retries a failed respawn.  Nothing is assumed of the host. *)

Fairness ==
    /\ WF_vars(Deliver)
    /\ \A id \in Id : WF_vars(TakeResult(id) \/ RejectResult(id))
    /\ WF_vars(Boots)

FairSpec == Spec /\ Fairness

\* Every request is answered or rejected within its caller's budget, even if
\* the host is dead, hung or being replaced.
EveryRequestSettles ==
    \A id \in Id : status[id] = "queued" ~> status[id] \in Settled

-------------------------------------------------------------------------------
(* The channel implements the life cycle it promises each request.         *)

CallerOf(id) == CASE status[id] = "unused"              -> "idle"
                  [] status[id] \in {"queued", "acked"} -> "waiting"
                  [] status[id] = "failed"              -> "rejected"
                  [] OTHER                              -> "answered"

Lifecycle == INSTANCE RequestLifecycle WITH
    Request <- Id,
    caller  <- [id \in Id |-> CallerOf(id)],
    runs    <- started,
    void    <- {id \in Id : status[id] = "failed" /\ id \notin written}

\* Refinement: every behaviour of the channel is one of the life cycle, for
\* each request, whatever the host, its crashes and its restarts do.
ImplementsLifecycle == Lifecycle!LifecycleSpec
===============================================================================
