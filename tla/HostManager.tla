----------------------------- MODULE HostManager -----------------------------
(***************************************************************************)
(* The page-level owner of the host daemon (plugin/host-manager.ts) under  *)
(* the life cycle of the service (plugin/service-lifecycle.ts).            *)
(*                                                                         *)
(* A caller attaches the page's WebContainer, shuts the host down, or does *)
(* one after the other, which is what a fiber update that needs a restart  *)
(* does.  Callers run concurrently: every await is a step.  The channel is *)
(* RpcChannel's, reduced to the epoch, the prepared mark and the pause     *)
(* that prepareHostEpoch, takeHostEpoch and resumeHostDelivery work on.    *)
(***************************************************************************)
EXTENDS Naturals, FiniteSets

CONSTANTS
    MaxCaller, \* bound: calls of attach and shutdown, each by its own caller
    Retries,   \* bootRetries
    MaxProc,   \* bound: daemons spawned in all
    WaitForAll \* TRUE: no boot begins while any shutdown runs; FALSE: a caller
               \* that has shut down itself boots once its own call returns

ASSUME HostManagerAssumption ==
    /\ MaxCaller \in Nat /\ MaxProc \in Nat
    /\ Retries \in Nat \ {0} /\ WaitForAll \in BOOLEAN

Caller == 1..MaxCaller
Proc   == 1..MaxProc
None   == 0

VARIABLES
    svc,       \* [state, shutdownDone]: the service's view of the container
    mgr,       \* [st, gen, proc]: the HostManager
    ch,        \* [nonce, prepared, paused]: the shared channel
    epochFile, \* the epoch in the host epoch file
    proc,      \* per process: "none", "starting", "up", "dead"
    procEpoch, \* the epoch each process has read
    call       \* per caller: where its shutdown and its attach stand

vars == <<svc, mgr, ch, epochFile, proc, procEpoch, call>>

Stopping  == {"closing", "exit", "acked", "wait"}
Attaching == {"assets", "join", "write", "spawn", "spawned", "probe", "sleep"}
Pc        == {"none", "stopped", "attached", "rejected"} \union Stopping \union Attaching
State     == {"unattached", "booting", "ready", "disposed"}
MaxEpoch  == MaxCaller * (Retries + 1)

\* proc and epoch: the process a shutdown stops or an attach starts, and the
\* epoch of the exit request or of the boot; boot: the attach it has joined;
\* shut: whether this caller has called shutdown.
CallType == [pc: Pc, gen: 0..(2 * MaxCaller), attempt: 0..Retries,
             proc: Proc \union {None}, epoch: 0..MaxEpoch, boot: Caller \union {None},
             shut: BOOLEAN]

TypeOK ==
    /\ svc \in [state: State, shutdownDone: BOOLEAN]
    /\ mgr \in [st: State, gen: 0..(2 * MaxCaller), proc: Proc \union {None}]
    /\ ch \in [nonce: 0..MaxEpoch, prepared: BOOLEAN, paused: BOOLEAN]
    /\ epochFile \in 0..MaxEpoch
    /\ proc \in [Proc -> {"none", "starting", "up", "dead"}]
    /\ procEpoch \in [Proc -> 0..MaxEpoch]
    /\ call \in [Caller -> CallType]

Init ==
    /\ svc = [state |-> "unattached", shutdownDone |-> FALSE]
    /\ mgr = [st |-> "unattached", gen |-> 0, proc |-> None]
    /\ ch = [nonce |-> 0, prepared |-> FALSE, paused |-> FALSE]
    /\ epochFile = 0
    /\ proc = [p \in Proc |-> "none"]
    /\ procEpoch = [p \in Proc |-> 0]
    /\ call = [c \in Caller |-> [pc |-> "none", gen |-> 0, attempt |-> 0,
                                 proc |-> None, epoch |-> 0, boot |-> None,
                                 shut |-> FALSE]]

-------------------------------------------------------------------------------
(* The channel and the processes.                                          *)

Prepared(pause) ==
    IF ch.prepared THEN [ch EXCEPT !.paused = @ \/ pause]
    ELSE [nonce |-> ch.nonce + 1, prepared |-> TRUE, paused |-> pause]

Taken == [Prepared(FALSE) EXCEPT !.prepared = FALSE]

\* (mutant: resumeHostDelivery leaves the channel paused)
StillPaused == ch

Resumed == [ch EXCEPT !.paused = FALSE]

Alive(p) == proc[p] \in {"starting", "up"}

\* kill() of a handle; of no handle, or of a dead process, it does nothing.
Killed(p) == [q \in Proc |-> IF q = p /\ Alive(q) THEN "dead" ELSE proc[q]]

\* A daemon that answers requests of the page's epoch, if delivery is on.
Answers(p) == proc[p] = "up" /\ procEpoch[p] = ch.nonce /\ ~ch.paused

HostStarts(p) ==
    /\ proc[p] = "starting"
    /\ proc' = [proc EXCEPT ![p] = "up"]
    /\ procEpoch' = [procEpoch EXCEPT ![p] = epochFile]
    /\ UNCHANGED <<svc, mgr, ch, epochFile, call>>

-------------------------------------------------------------------------------
(* Attach.                                                                 *)

\* isCurrentBoot
Current(c) == mgr.gen = call[c].gen /\ mgr.st = "booting"

Goto(c, pc) == [call EXCEPT ![c].pc = pc]

\* The attach of c settles, and with it those that wait for its bootTask.
Settle(c, pc) ==
    /\ call' = [d \in Caller |->
                  IF d = c \/ (call[d].pc = "join" /\ call[d].boot = c)
                  THEN [call[d] EXCEPT !.pc = pc] ELSE call[d]]
    /\ svc' = [svc EXCEPT !.state = IF pc = "attached" THEN "ready" ELSE "unattached"]

\* When the callers begin to boot, an assumption on them and not in the code.
MayBegin(c) ==
    (\A d \in Caller: call[d].pc \notin Stopping) \/ (~WaitForAll /\ call[c].shut)

\* Callers are numbered as they come.
Arrives(c) == call[c].pc = "none" /\ \A d \in 1..(c - 1): call[d].pc # "none"

\* attach(): of a ready host it returns at once, otherwise it loads the assets.
Attach(c) ==
    /\ Arrives(c) \/ call[c].pc = "stopped"
    /\ MayBegin(c)
    /\ IF mgr.st = "ready"
       THEN /\ call' = Goto(c, "attached")
            /\ svc' = [svc EXCEPT !.state = "ready"]
       ELSE /\ call' = Goto(c, "assets")
            /\ svc' = [state |-> "booting", shutdownDone |-> FALSE]
    /\ UNCHANGED <<mgr, ch, epochFile, proc, procEpoch>>

AssetsFail(c) ==
    /\ call[c].pc = "assets"
    /\ Settle(c, "rejected")
    /\ UNCHANGED <<mgr, ch, epochFile, proc, procEpoch>>

\* ensureHost: the host is there, or on its way, or this attach boots it.
EnsureHost(c) ==
    /\ call[c].pc = "assets"
    /\ MayBegin(c)
    /\ CASE mgr.st = "ready" ->
              Settle(c, "attached") /\ UNCHANGED <<mgr, ch>>
         [] mgr.st = "booting" ->
              /\ \E d \in Caller:
                   /\ call[d].pc \in Attaching \ {"assets", "join"}
                   /\ call[d].gen = mgr.gen
                   /\ call' = [call EXCEPT ![c].pc = "join", ![c].boot = d]
              /\ UNCHANGED <<svc, mgr, ch>>
         [] OTHER ->
              /\ mgr' = [mgr EXCEPT !.st = "booting", !.gen = @ + 1]
              /\ ch' = Taken
              /\ call' = [call EXCEPT ![c] = [@ EXCEPT !.pc = "write", !.attempt = 1,
                                                !.gen = mgr.gen + 1, !.epoch = Taken.nonce]]
              /\ UNCHANGED svc
    /\ UNCHANGED <<epochFile, proc, procEpoch>>

\* bootEngineHost.  The container serves the page's file operations in order.
WriteEpoch(c) ==
    /\ call[c].pc = "write"
    /\ \A d \in Caller: call[d].pc = "write" => call[c].epoch <= call[d].epoch
    /\ epochFile' = call[c].epoch
    /\ call' = Goto(c, "spawn")
    /\ UNCHANGED <<svc, mgr, ch, proc, procEpoch>>

Spawn(c) ==
    /\ call[c].pc = "spawn"
    /\ LET p == Cardinality({q \in Proc: proc[q] # "none"}) + 1 IN
       /\ p \in Proc
       /\ proc' = [proc EXCEPT ![p] = "starting"]
       /\ call' = [call EXCEPT ![c].pc = "spawned", ![c].proc = p]
    /\ UNCHANGED <<svc, mgr, ch, epochFile, procEpoch>>

\* (mutants: it kills whichever host the manager has, or none)
SupersededKillsOther(c) ==
    /\ proc' = Killed(mgr.proc)
    /\ Settle(c, "rejected")
    /\ UNCHANGED mgr

SupersededKillsNone(c) ==
    /\ Settle(c, "rejected")
    /\ UNCHANGED <<mgr, proc>>

\* A boot that shutdown has superseded kills the host it has started.
Superseded(c) ==
    /\ proc' = Killed(call[c].proc)
    /\ Settle(c, "rejected")
    /\ UNCHANGED mgr

SpawnReturns(c) ==
    /\ call[c].pc = "spawned"
    /\ ch' = Resumed
    /\ \/ /\ Current(c)
          /\ mgr' = [mgr EXCEPT !.proc = call[c].proc]
          /\ call' = Goto(c, "probe")
          /\ UNCHANGED <<svc, proc>>
       \/ ~Current(c) /\ Superseded(c)
    /\ UNCHANGED <<epochFile, procEpoch>>

\* waitForHostReady returns on the first pong, whichever daemon sent it.
ProbePong(c) ==
    /\ call[c].pc = "probe"
    /\ \E p \in Proc: Answers(p)
    /\ \/ /\ Current(c)
          /\ mgr' = [mgr EXCEPT !.st = "ready"]
          /\ Settle(c, "attached")
          /\ UNCHANGED proc
       \/ ~Current(c) /\ Superseded(c)
    /\ UNCHANGED <<ch, epochFile, procEpoch>>

\* (mutant: one attempt too many)
AttemptFailsLate(c) ==
    \/ ~Current(c) /\ Settle(c, "rejected") /\ UNCHANGED <<mgr, proc>>
    \/ /\ Current(c)
       /\ proc' = Killed(mgr.proc)
       /\ mgr' = [mgr EXCEPT !.proc = None]
       /\ call' = Goto(c, IF call[c].attempt <= Retries THEN "sleep" ELSE "rejected")
       /\ UNCHANGED svc

\* The catch of the attempts: another attempt, or the last error.
AttemptFails(c) ==
    \/ /\ ~Current(c)
       /\ Settle(c, "rejected")
       /\ UNCHANGED <<mgr, proc>>
    \/ /\ Current(c)
       /\ proc' = Killed(mgr.proc)
       /\ IF call[c].attempt < Retries
          THEN /\ mgr' = [mgr EXCEPT !.proc = None]
               /\ call' = Goto(c, "sleep")
               /\ UNCHANGED svc
          ELSE /\ mgr' = [mgr EXCEPT !.proc = None, !.st = "unattached"]
               /\ Settle(c, "rejected")

\* The epoch file, the fetch of host.js or the spawn throws.
EngineFails(c) ==
    /\ call[c].pc \in {"write", "spawn"}
    /\ AttemptFails(c)
    /\ UNCHANGED <<ch, epochFile, procEpoch>>

\* The probe's deadline.  It is looked at between two pings, and a ping that is
\* queued in a paused channel does not end (see ProbeEnds).
ProbeFails(c) ==
    /\ call[c].pc = "probe"
    /\ AttemptFails(c)
    /\ UNCHANGED <<ch, epochFile, procEpoch>>

NextAttempt(c) ==
    /\ call[c].pc = "sleep"
    /\ \/ /\ Current(c)
          /\ ch' = Taken
          /\ call' = [call EXCEPT ![c].pc = "write", ![c].attempt = @ + 1,
                                  ![c].epoch = Taken.nonce, ![c].proc = None]
          /\ UNCHANGED svc
       \/ ~Current(c) /\ Settle(c, "rejected") /\ UNCHANGED ch
    /\ UNCHANGED <<mgr, epochFile, proc, procEpoch>>

-------------------------------------------------------------------------------
(* Shutdown.                                                               *)

\* shutdown(), shutdownNow(): the second call returns while the first one runs.
Shutdown(c) ==
    /\ Arrives(c)
    /\ call' = [call EXCEPT ![c].pc = IF svc.shutdownDone THEN "stopped" ELSE "closing",
                            ![c].shut = TRUE]
    /\ svc' = [svc EXCEPT !.shutdownDone = TRUE]
    /\ UNCHANGED <<mgr, ch, epochFile, proc, procEpoch>>

\* The instances are disposed of; then HostManager.shutdown: detachHost, and
\* stopHost up to its first await.  requestHostShutdown refuses at once on a
\* channel that is already fenced.
Detach(c) ==
    /\ call[c].pc = "closing"
    /\ mgr' = [st |-> "disposed", gen |-> mgr.gen + 1, proc |-> None]
    /\ IF mgr.proc = None
       THEN /\ call' = Goto(c, "stopped")
            /\ svc' = [svc EXCEPT !.state = "disposed"]
            /\ UNCHANGED ch
       ELSE /\ IF ch.prepared \/ ch.paused
               THEN /\ ch' = Prepared(TRUE)
                    /\ call' = [call EXCEPT ![c].pc = "wait", ![c].proc = mgr.proc]
               ELSE /\ call' = [call EXCEPT ![c].pc = "exit", ![c].proc = mgr.proc,
                                            ![c].epoch = ch.nonce]
                    /\ UNCHANGED ch
            /\ UNCHANGED svc
    /\ UNCHANGED <<epochFile, proc, procEpoch>>

\* A daemon of the request's epoch acknowledges it and exits.
HostTakesExit(c, p) ==
    /\ call[c].pc = "exit"
    /\ proc[p] = "up" /\ procEpoch[p] = call[c].epoch
    /\ proc' = [proc EXCEPT ![p] = "dead"]
    /\ call' = Goto(c, "acked")
    /\ UNCHANGED <<svc, mgr, ch, epochFile, procEpoch>>

\* The page sees the acknowledgement, a rotated epoch, or its timeout: each way
\* the channel is fenced, by the callback or by stopHost.
ExitSettles(c) ==
    /\ call[c].pc \in {"exit", "acked"}
    /\ ch' = Prepared(TRUE)
    /\ call' = Goto(c, "wait")
    /\ UNCHANGED <<svc, mgr, epochFile, proc, procEpoch>>

\* The process has exited or five seconds have passed: kill it.
StopEnds(c) ==
    /\ call[c].pc = "wait"
    /\ proc' = Killed(call[c].proc)
    /\ call' = Goto(c, "stopped")
    /\ svc' = [svc EXCEPT !.state = "disposed"]
    /\ UNCHANGED <<mgr, ch, epochFile, procEpoch>>

-------------------------------------------------------------------------------

Next ==
    \/ \E p \in Proc: HostStarts(p)
    \/ \E c \in Caller:
         \/ Attach(c) \/ AssetsFail(c) \/ EnsureHost(c)
         \/ WriteEpoch(c) \/ Spawn(c) \/ SpawnReturns(c)
         \/ ProbePong(c) \/ EngineFails(c) \/ ProbeFails(c) \/ NextAttempt(c)
         \/ Shutdown(c) \/ Detach(c) \/ ExitSettles(c) \/ StopEnds(c)
         \/ \E p \in Proc: HostTakesExit(c, p)

Spec == Init /\ [][Next]_vars

\* A deadline ends a probe only while pings are being delivered.
ProbeEnds(c) == (ProbePong(c) \/ ProbeFails(c)) /\ ~ch.paused

\* Promises that settle are handled, timers fire; nobody has to call.
FairSpec ==
    /\ Spec
    /\ \A p \in Proc: WF_vars(HostStarts(p))
    /\ \A c \in Caller:
         /\ WF_vars(EnsureHost(c)) /\ WF_vars(WriteEpoch(c)) /\ WF_vars(Spawn(c))
         /\ WF_vars(SpawnReturns(c)) /\ WF_vars(ProbeEnds(c)) /\ WF_vars(NextAttempt(c))
         /\ WF_vars(Detach(c)) /\ WF_vars(ExitSettles(c)) /\ WF_vars(StopEnds(c))

-------------------------------------------------------------------------------
(* Properties.                                                             *)

\* From takeHostEpoch until it settles, the epoch of the current boot is the
\* epoch of the page: a daemon started with any other would refuse its pings.
BootOwnsChannel ==
    \A c \in Caller:
        call[c].pc \in {"write", "spawn", "spawned", "probe"} /\ Current(c) =>
            /\ ch.nonce = call[c].epoch /\ ~ch.prepared
            /\ call[c].pc = "probe" => ~ch.paused

\* While the manager says ready, its host is alive, delivery is on, and the host
\* has the page's epoch, or will read it when it starts.  Shutdowns and
\* superseded boots of other callers work on the same channel; if one of them
\* rotates or pauses it, every request of the page is refused or waits for ever.
ReadyHostIsReachable ==
    mgr.st = "ready" =>
        /\ Alive(mgr.proc) /\ ~ch.paused
        /\ ch.nonce = IF proc[mgr.proc] = "up" THEN procEpoch[mgr.proc] ELSE epochFile

\* Every daemon ends that the manager does not own: one whose spawn returns
\* after the boot was superseded, one that a shutdown has detached while it was
\* probed, one that an attempt has given up.  Two daemons would both take
\* commands out of /cmd.json.
OrphansDie ==
    \A p \in Proc: Alive(p) /\ mgr.proc # p ~> mgr.proc = p \/ ~Alive(p)

\* bootNonce of a daemon and of the page: while the manager is ready, no other
\* daemon shares its epoch.
NoTwinHost ==
    mgr.st = "ready" =>
        \A p \in Proc: proc[p] = "up" /\ procEpoch[p] = ch.nonce => p = mgr.proc

\* When no call runs, the service and the manager agree on whether a host is ready.
ServiceStateIsHonest ==
    (\A c \in Caller: call[c].pc \notin Stopping \union Attaching) =>
        (svc.state = "ready" <=> mgr.st = "ready")

\* attach() settles.
AttachSettles ==
    \A c \in Caller: call[c].pc \in Attaching ~> call[c].pc \notin Attaching
===============================================================================
