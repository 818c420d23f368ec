--------------------------- MODULE TerminalMailbox ---------------------------
(***************************************************************************)
(* The mailbox of one interactive terminal session: keystrokes go from the *)
(* page to the shell in in-<seq>.json frames, output comes back in         *)
(* out-<seq>.json frames, and both sides hold on to the session through    *)
(* open.json, ack.json and the nonce the page draws.                       *)
(*                                                                         *)
(*   page  terminal/transport.ts: RpcTerminalClient                        *)
(*   host  engine/host/terminal-mailbox-host.ts: TerminalMailboxHost, one  *)
(*         timer callback of synchronous file calls, and                   *)
(*         engine/host/terminal.ts: RpcTerminal, the session's device      *)
(*                                                                         *)
(* The page's file operations take effect in the order it issues them.     *)
(* Frames that carry no data (resize, focus, clear, heartbeat) are left    *)
(* out; the byte budget of the host is counted in output frames.           *)
(***************************************************************************)
EXTENDS Naturals, Sequences, SequencesExt, FiniteSets, Functions

CONSTANTS
    MaxNonce,    \* bound: nonces the page draws
    MaxSession,  \* bound: sessions the hosts open
    MaxHost,     \* bound: host processes
    MaxItem,     \* bound: keystrokes (or pastes) the user sends
    MaxIn,       \* bound: input frames
    MaxSaid,     \* bound: chunks one session's shell writes
    Budget,      \* output chunks a device may hold: maxBufferedBytes
    MayDie,      \* TRUE: a host may be stopped or killed, and replaced
    Expires      \* TRUE: the page may fall silent for longer than the TTL

ASSUME BoundsAssumption ==
    /\ \A b \in {MaxNonce, MaxSession, MaxHost, MaxItem, MaxIn, MaxSaid} : b \in Nat
    /\ MaxNonce >= 1 /\ MaxHost >= 1 /\ Budget \in Nat \ {0}
ASSUME FlagsAssumption == MayDie \in BOOLEAN /\ Expires \in BOOLEAN

Nonce   == 1..MaxNonce
Session == 1..MaxSession
Item    == 1..MaxItem
Dispose == MaxItem + 1    \* the dispose frame
Input   == Item \union {Dispose}
Frame   == [nonce: Nonce, ack: 0..MaxSaid]
None    == [nonce |-> 0, ack |-> 0]

VARIABLES
    cl,        \* the page's end: [nonce, host, stage, running, fenced, typed, in, out, pending]
    opening,   \* open() in flight: [st, items], items the sendData calls behind it
    renewing,  \* renewBootNonce: "no", "fencing" or "opening"
    drain,     \* drainInput in flight: [nonce, batch, left, torn]
    acking,    \* the acknowledgements being written
    dir,       \* does the session's directory exist?
    openFile,  \* open.json: a Frame, or None
    ackFile,   \* ack.json: a Frame, or None
    inFiles,   \* input frames by sequence number: [nonce, item, for]
    outFiles,  \* output frames by sequence number: [nonce, session]
    host,      \* [id, up, pc, names]: the process, its poll, and the input frames
               \* its readdir has listed and it has not looked at yet
    ses,       \* the open session: [id, nonce, lastInput, lastAck], id 0 for none
    term,      \* its RpcTerminal: [said, pending, outst]
    typedAt,   \* history: the nonce under which each item was queued
    seen,      \* history: [session, chunk], the last output shown to the user
    opened,    \* history: per session its [nonce, host, first], first the host of the nonce
    log        \* history: what the shells got: [session, item, for]

pageVars == <<cl, opening, renewing, drain, acking, typedAt>>
fileVars == <<dir, openFile, ackFile, inFiles, outFiles>>
hostVars == <<host, ses, term, opened, log>>
vars == <<pageVars, fileVars, hostVars, seen>>

NoSession == [id |-> 0, nonce |-> 0, lastInput |-> 0, lastAck |-> 0]
NoDrain   == [nonce |-> 0, batch |-> <<>>, left |-> <<>>, torn |-> FALSE]
NoOpen    == [st |-> "no", items |-> <<>>]
Fresh     == [said |-> 0, pending |-> 0, outst |-> {}]

TypeOK ==
    /\ cl \in [nonce: Nonce, host: 1..MaxHost, stage: {"live", "disposing", "disposed"},
               running: BOOLEAN, fenced: BOOLEAN, typed: 0..MaxItem, in: 0..MaxIn,
               out: 0..MaxSaid, pending: Seq(Input)]
    /\ opening \in [st: {"no", "sent", "torn"}, items: Seq(Item)]
    /\ renewing \in {"no", "fencing", "opening"}
    /\ drain \in [nonce: Nonce \union {0}, batch: Seq(Input), left: Seq(Input), torn: BOOLEAN]
    /\ IsSuffix(drain.left, drain.batch)
    /\ acking \subseteq 1..MaxSaid
    /\ dir \in BOOLEAN
    /\ {openFile, ackFile} \subseteq Frame \union {None}
    /\ DOMAIN inFiles \subseteq 1..MaxIn
    /\ Range(inFiles) \subseteq [nonce: Nonce, item: Input, for: 1..MaxHost]
    /\ DOMAIN outFiles \subseteq 1..MaxSaid
    /\ Range(outFiles) \subseteq [nonce: Nonce, session: Session]
    /\ ~dir => openFile = None /\ ackFile = None /\ inFiles = <<>> /\ outFiles = <<>>
    /\ host \in [id: 1..MaxHost, up: BOOLEAN, pc: {"idle", "unlink", "inputs"},
                 names: SUBSET (1..MaxIn)]
    /\ ses \in [id: Session, nonce: Nonce, lastInput: 0..MaxIn,
                lastAck: 0..MaxSaid] \union {NoSession}
    /\ term \in [said: 0..MaxSaid, pending: 0..Budget, outst: SUBSET (1..MaxSaid)]
    /\ typedAt \in [Item -> 0..MaxNonce]
    /\ seen \in [session: 0..MaxSession, chunk: 0..MaxSaid]
    /\ opened \in Seq([nonce: Nonce, host: 1..MaxHost, first: 1..MaxHost])
    /\ log \in Seq([session: Session, item: Item, for: 1..MaxHost])

Init ==
    /\ cl = [nonce |-> 1, host |-> 1, stage |-> "live", running |-> FALSE,
             fenced |-> FALSE, typed |-> 0, in |-> 0, out |-> 0, pending |-> <<>>]
    /\ opening = NoOpen
    /\ renewing = "no"
    /\ drain = NoDrain
    /\ acking = {}
    /\ dir = FALSE
    /\ openFile = None
    /\ ackFile = None
    /\ inFiles = <<>>
    /\ outFiles = <<>>
    /\ host = [id |-> 1, up |-> TRUE, pc |-> "idle", names |-> {}]
    /\ ses = NoSession
    /\ term = Fresh
    /\ typedAt = [k \in Item |-> 0]
    /\ seen = [session |-> 0, chunk |-> 0]
    /\ opened = <<>>
    /\ log = <<>>

Draining == drain # NoDrain

\* rm -r of the session's directory, by either side.  The file operations the
\* page has in flight lose their temporary files and fail.
RemoveMailbox ==
    /\ dir' = FALSE
    /\ openFile' = None
    /\ ackFile' = None
    /\ inFiles' = <<>>
    /\ outFiles' = <<>>
    /\ opening' = IF opening.st = "no" THEN opening ELSE [opening EXCEPT !.st = "torn"]
    /\ drain' = [drain EXCEPT !.torn = Draining]
    /\ acking' = {}

-------------------------------------------------------------------------------
(* The page.                                                               *)

Usable == cl.stage # "disposed" /\ ~cl.fenced

\* open(), up to its write: the directory is created.  A second caller joins
\* the open in flight.
StartOpen(items) ==
    IF opening.st = "no"
    THEN opening' = [st |-> "sent", items |-> items] /\ dir' = TRUE
    ELSE opening' = [opening EXCEPT !.items = @ \o items] /\ UNCHANGED dir

\* open() and reconnect(): a session may be opened at any time.
Open ==
    /\ Usable /\ opening.st = "no"
    /\ StartOpen(<<>>)
    /\ UNCHANGED <<cl, renewing, drain, acking, typedAt, openFile, ackFile, inFiles,
                   outFiles, hostVars, seen>>

\* sendData always opens first.
SendData ==
    /\ Usable /\ cl.typed < MaxItem
    /\ cl' = [cl EXCEPT !.typed = @ + 1]
    /\ StartOpen(<<cl.typed + 1>>)
    /\ UNCHANGED <<renewing, drain, acking, typedAt, openFile, ackFile, inFiles,
                   outFiles, hostVars, seen>>

\* open.json is in place, polling starts, and the input behind it is queued.
Opened ==
    /\ opening.st = "sent" /\ dir
    /\ opening' = NoOpen
    /\ openFile' = [nonce |-> cl.nonce, ack |-> cl.out]
    /\ renewing' = IF renewing = "opening" THEN "no" ELSE renewing
    /\ LET queued == IF cl.stage = "disposed" THEN <<>> ELSE opening.items IN
       /\ cl' = [cl EXCEPT !.running = TRUE, !.pending = @ \o queued]
       /\ typedAt' = [k \in Item |-> IF k \in Range(queued) THEN cl.nonce ELSE typedAt[k]]
    /\ UNCHANGED <<drain, acking, dir, ackFile, inFiles, outFiles, hostVars, seen>>

\* The directory was removed under it: open rejects, and so do the sendData
\* calls behind it and a renewBootNonce that joined it.
OpenRejected ==
    /\ opening.st = "torn"
    /\ opening' = NoOpen
    /\ renewing' = IF renewing = "opening" THEN "no" ELSE renewing
    /\ UNCHANGED <<cl, drain, acking, typedAt, fileVars, hostVars, seen>>

\* drainInput takes a batch off the queue, as much as fits a frame's limit.
DrainStart ==
    /\ ~Draining /\ cl.running /\ Usable
    /\ \E n \in 1..Len(cl.pending) :
         LET batch == SubSeq(cl.pending, 1, n) IN
         /\ drain' = [nonce |-> cl.nonce, batch |-> batch, left |-> batch,
                      torn |-> FALSE]
         /\ cl' = [cl EXCEPT !.pending = SubSeq(@, n + 1, Len(@))]
    /\ UNCHANGED <<opening, renewing, acking, typedAt, fileVars, hostVars, seen>>

\* The next frame of the batch is renamed into place.
WriteInput ==
    /\ Draining /\ dir /\ ~drain.torn /\ cl.in < MaxIn
    /\ inFiles' = [s \in DOMAIN inFiles \union {cl.in + 1} |->
                     IF s = cl.in + 1
                     THEN [nonce |-> drain.nonce, item |-> Head(drain.left), for |-> host.id]
                     ELSE inFiles[s]]
    /\ cl' = [cl EXCEPT !.in = @ + 1]
    /\ drain' = IF Len(drain.left) = 1 THEN NoDrain ELSE [drain EXCEPT !.left = Tail(@)]
    /\ UNCHANGED <<opening, renewing, acking, typedAt, dir, openFile, ackFile, outFiles,
                   hostVars, seen>>

\* What the queue holds after a failed batch.  (mutant: the batch goes last)
BatchLast == cl.pending \o drain.batch

BatchBack == drain.batch \o cl.pending

\* A write fails, as the directory is gone or was removed under it.  The whole
\* batch goes back to the queue, and flushInput rejects.
WriteInputFails ==
    /\ Draining /\ (~dir \/ drain.torn) /\ cl.in < MaxIn
    /\ cl' = [cl EXCEPT !.in = @ + 1, !.pending = BatchBack,
                        !.stage = IF @ = "disposing" THEN "live" ELSE @]
    /\ drain' = NoDrain
    /\ UNCHANGED <<opening, renewing, acking, typedAt, fileVars, hostVars, seen>>

\* renewBootNonce, once a replacement host is up, and fence: what is queued is
\* dropped and the mailbox removed.
RenewStart ==
    /\ Usable /\ renewing = "no"
    /\ host.up /\ cl.host < host.id /\ cl.nonce < MaxNonce
    /\ renewing' = "fencing"
    /\ cl' = [cl EXCEPT !.host = host.id, !.fenced = TRUE, !.running = FALSE,
                        !.pending = <<>>]
    /\ RemoveMailbox
    /\ UNCHANGED <<typedAt, hostVars, seen>>

\* The output sequence a renewed session starts from.  (mutant: it is kept)
KeptOutput == cl.out

RenewedOutput == 0

\* The fence is up: take the new nonce and open again.
RenewSwitch ==
    /\ renewing = "fencing"
    /\ cl' = [cl EXCEPT !.nonce = @ + 1, !.out = RenewedOutput, !.fenced = FALSE]
    /\ IF cl.stage = "disposed"
       THEN renewing' = "no" /\ UNCHANGED <<opening, dir>>
       ELSE renewing' = "opening" /\ StartOpen(<<>>)
    /\ UNCHANGED <<drain, acking, typedAt, openFile, ackFile, inFiles, outFiles,
                   hostVars, seen>>

\* dispose() drops what is queued and flushes a dispose frame; fenced, it has
\* nothing to flush.
DisposeStart ==
    /\ cl.stage = "live"
    /\ cl' = [cl EXCEPT !.stage = "disposing",
                        !.pending = IF ~cl.running /\ opening.st = "no" THEN @
                                    ELSE IF cl.fenced THEN <<>> ELSE <<Dispose>>]
    /\ UNCHANGED <<opening, renewing, drain, acking, typedAt, fileVars, hostVars, seen>>

DisposeEnd ==
    /\ cl.stage = "disposing" /\ ~Draining
    /\ cl.pending = <<>> \/ (~cl.running /\ opening.st = "no")
    /\ cl' = [cl EXCEPT !.stage = "disposed", !.running = FALSE]
    /\ UNCHANGED <<opening, renewing, drain, acking, typedAt, fileVars, hostVars, seen>>

Polling == cl.running /\ cl.stage # "disposed"

\* poll(): frames of another identity and frames already shown are removed.
\* (mutant: the identity is not looked at)
AnyFrame(s) == TRUE

OurFrame(s) == outFiles[s].nonce = cl.nonce

PollDrop(s) ==
    /\ Polling /\ s \in DOMAIN outFiles
    /\ ~OurFrame(s) \/ s <= cl.out
    /\ outFiles' = Restrict(outFiles, DOMAIN outFiles \ {s})
    /\ UNCHANGED <<pageVars, dir, openFile, ackFile, inFiles, hostVars, seen>>

\* The next frame is shown to the user; one behind a gap waits.
PollShow ==
    LET s == cl.out + 1 IN
    /\ Polling /\ s \in DOMAIN outFiles /\ OurFrame(s)
    /\ cl' = [cl EXCEPT !.out = s]
    /\ acking' = acking \union {s}
    /\ seen' = [session |-> outFiles[s].session, chunk |-> s]
    /\ UNCHANGED <<opening, renewing, drain, typedAt, fileVars, hostVars>>

\* Each open starts a poll of its own, so the acknowledgements of two polls
\* may reach ack.json in either order.
WriteAck ==
    /\ \E s \in acking :
         /\ ackFile' = [nonce |-> cl.nonce, ack |-> s]
         /\ acking' = acking \ {s}
    /\ UNCHANGED <<cl, opening, renewing, drain, typedAt, dir, openFile, inFiles,
                   outFiles, hostVars, seen>>

-------------------------------------------------------------------------------
(* The host.  A poll is readdir, open.json, ack.json, then the input frames *)
(* and a flush, all in one timer callback; the page acts between its file   *)
(* calls.  (Two reads in a row are one step.)                               *)

Idle    == host.up /\ host.pc = "idle"
Serving == ses # NoSession

\* The frames the acknowledgement leaves: applyAck, RpcTerminal.acknowledge.
Unacked(ack) == Restrict(outFiles, {s \in DOMAIN outFiles : s > ack})

\* openSession: another nonce gets a session and a device of its own.
NewSession == openFile # None /\ openFile.nonce # ses.nonce

\* openSession and the read of ack.json: both may raise the acknowledgement.
PollSession ==
    LET next == IF NewSession
                THEN [id |-> Len(opened) + 1, nonce |-> openFile.nonce,
                      lastInput |-> 0, lastAck |-> openFile.ack]
                ELSE [ses EXCEPT !.lastAck = Max({@, openFile.ack})]
        acked == ackFile # None /\ ackFile.nonce = next.nonce
        ack == IF acked THEN Max({next.lastAck, ackFile.ack}) ELSE next.lastAck
        apply == acked \/ (~NewSession /\ ack > ses.lastAck)
    IN
    /\ Idle /\ dir /\ (openFile # None \/ Serving)
    /\ NewSession => Len(opened) < MaxSession
    /\ host' = [host EXCEPT !.pc = IF acked THEN "unlink" ELSE "inputs",
                            !.names = DOMAIN inFiles]
    /\ ses' = [next EXCEPT !.lastAck = ack]
    /\ opened' = IF NewSession
                 THEN Append(opened, [nonce |-> next.nonce, host |-> host.id,
                                      first |-> cl.host])
                 ELSE opened
    /\ term' = CASE NewSession -> Fresh
                 [] ~NewSession /\ apply -> [term EXCEPT !.outst = {s \in @ : s > ack}]
                 [] OTHER      -> term
    /\ outFiles' = IF apply THEN Unacked(ack) ELSE outFiles
    /\ UNCHANGED <<pageVars, dir, openFile, ackFile, inFiles, log, seen>>

\* unlinkQuiet(ack.json): whatever acknowledgement is there by now.
UnlinkAck ==
    /\ host.up /\ host.pc = "unlink"
    /\ ackFile' = None
    /\ host' = [host EXCEPT !.pc = "inputs"]
    /\ UNCHANGED <<pageVars, dir, openFile, inFiles, outFiles, ses, term,
                   opened, log, seen>>

\* Is this frame for the session, and not taken yet?  (mutant: any nonce is)
AnyNonce(frame, s) == s > ses.lastInput

ForSession(frame, s) == frame.nonce = ses.nonce /\ s > ses.lastInput

\* closeSession: the device is disposed and the directory removed.
CloseSession ==
    /\ ses' = NoSession
    /\ term' = Fresh
    /\ RemoveMailbox

\* The frame s is removed, taken or not.
DropInput(s) ==
    /\ inFiles' = Restrict(inFiles, DOMAIN inFiles \ {s})
    /\ host' = [host EXCEPT !.names = @ \ {s}]
    /\ UNCHANGED <<term, dir, openFile, ackFile, outFiles, opening, drain, acking>>

\* applyInputs takes the frames that were listed in the order of their numbers.
ApplyInput ==
    /\ host.up /\ host.pc = "inputs" /\ host.names # {}
    /\ LET s == Min(host.names)
           taken == s \in DOMAIN inFiles /\ ForSession(inFiles[s], s)
       IN
       \/ /\ ~taken
          /\ DropInput(s) /\ UNCHANGED <<ses, log>>
       \/ /\ taken /\ inFiles[s].item = Dispose
          /\ CloseSession
          /\ host' = [host EXCEPT !.pc = "idle", !.names = {}]
          /\ UNCHANGED log
       \/ /\ taken /\ inFiles[s].item # Dispose
          /\ DropInput(s)
          /\ ses' = [ses EXCEPT !.lastInput = s]
          /\ log' = Append(log, [session |-> ses.id, item |-> inFiles[s].item,
                                for |-> inFiles[s].for])
    /\ UNCHANGED <<cl, renewing, typedAt, opened, seen>>

\* The next output frame of the session.
OutFrames(s) == [t \in DOMAIN outFiles \union {s} |->
                   IF t = s THEN [nonce |-> ses.nonce, session |-> ses.id] ELSE outFiles[t]]

NextChunk == [said |-> term.said + 1, pending |-> term.pending - 1,
              outst |-> term.outst \union {term.said + 1}]

\* flush writes the next chunk of a device's output as a frame, and creates
\* the directory where it is missing.  (mutant: it relies on the directory)
FlushNoMkdir ==
    IF term.pending = 0 THEN UNCHANGED <<term, dir, outFiles>>
    ELSE term' = NextChunk /\ outFiles' = OutFrames(term.said + 1) /\ UNCHANGED dir

Flush ==
    IF term.pending = 0 THEN UNCHANGED <<term, dir, outFiles>>
    ELSE term' = NextChunk /\ outFiles' = OutFrames(term.said + 1) /\ dir' = TRUE

PollEnd ==
    /\ host.up /\ host.pc = "inputs" /\ host.names = {}
    /\ Flush
    /\ host' = [host EXCEPT !.pc = "idle"]
    /\ UNCHANGED <<pageVars, openFile, ackFile, inFiles, ses, opened, log, seen>>

\* The device's own flush timer.
FlushTimer ==
    /\ Idle /\ Serving /\ term.pending > 0
    /\ Flush
    /\ UNCHANGED <<pageVars, openFile, ackFile, inFiles, host, ses, opened, log,
                   seen>>

\* RpcTerminal.write: refused while the budget is taken.
Buffered == term.pending + Cardinality(term.outst)

ShellWrites ==
    /\ Idle /\ Serving
    /\ Buffered < Budget
    /\ term.said + term.pending < MaxSaid
    /\ term' = [term EXCEPT !.pending = @ + 1]
    /\ UNCHANGED <<pageVars, fileVars, host, ses, opened, log, seen>>

\* The page has been silent for longer than the TTL (a suspended tab): the
\* session is closed, or a directory without a session is removed.
Expire ==
    /\ Expires /\ Idle /\ dir
    /\ ~NewSession /\ (Serving \/ openFile = None)
    /\ CloseSession
    /\ UNCHANGED <<cl, renewing, typedAt, host, opened, log, seen>>

\* The process is gone: killed, or (Orderly) after shutdownExecutionWorld,
\* which closes the sessions and removes all mailboxes.
HostDies ==
    /\ MayDie /\ host.up
    /\ host' = [host EXCEPT !.up = FALSE, !.pc = "idle", !.names = {}]
    /\ ses' = NoSession
    /\ term' = Fresh
    /\ UNCHANGED <<pageVars, fileVars, opened, log, seen>>

HostStops ==
    /\ MayDie /\ Idle
    /\ host' = [host EXCEPT !.up = FALSE]
    /\ CloseSession
    /\ UNCHANGED <<cl, renewing, typedAt, opened, log, seen>>

HostStarts ==
    /\ ~host.up /\ host.id < MaxHost
    /\ host' = [id |-> host.id + 1, up |-> TRUE, pc |-> "idle", names |-> {}]
    /\ UNCHANGED <<pageVars, fileVars, ses, term, opened, log, seen>>

-------------------------------------------------------------------------------
Poll  == PollShow \/ (\E s \in 1..MaxSaid : PollDrop(s)) \/ WriteAck
Drain == DrainStart \/ WriteInput \/ WriteInputFails
Page == \/ Open \/ SendData \/ Opened \/ OpenRejected
        \/ Drain \/ Poll \/ RenewStart \/ RenewSwitch \/ DisposeStart \/ DisposeEnd
HostPoll == PollSession \/ UnlinkAck \/ ApplyInput \/ PollEnd
Host == \/ HostPoll \/ FlushTimer \/ ShellWrites \/ Expire
        \/ HostDies \/ HostStops \/ HostStarts

Next == Page \/ Host

Spec == Init /\ [][Next]_vars

-------------------------------------------------------------------------------
(* Safety.                                                                 *)

\* The only session a nonce has had, with the host it was drawn for: none was
\* lost to the end of a host or to the TTL.
Only(id) ==
    /\ opened[id].host = opened[id].first
    /\ \A i \in DOMAIN opened : opened[i].nonce = opened[id].nonce => i = id

\* The shell gets the keystrokes of a session in the order they were typed,
\* each once and none left out, whatever batch failed and was queued again.
InputInOrder ==
    \A i \in DOMAIN log :
        LET id == log[i].session
            before == {log[j].item : j \in {j \in 1..(i - 1) : log[j].session = id}}
        IN
        /\ \A k \in before : k < log[i].item
        /\ Only(id) => \A k \in Item :
               k < log[i].item /\ typedAt[k] = opened[id].nonce
               /\ typedAt[log[i].item] = typedAt[k] => k \in before

\* What the user sees of a session is what its shell wrote, from the first
\* chunk on, in order and without repetition, and nothing once it is replaced.
OutputShownInOrder ==
    [][seen' # seen /\ Only(seen'.session) =>
         /\ seen'.session >= seen.session
         /\ seen'.chunk = IF seen'.session = seen.session THEN seen.chunk + 1 ELSE 1]_vars

Shown(id, s) == seen.session = id /\ s <= seen.chunk

\* Until the user has seen it, output of the page's session is on the disk:
\* neither side removes a frame on a stale acknowledgement.
OutputKeptUntilSeen ==
    Serving /\ ses.nonce = cl.nonce /\ ~cl.fenced /\ Only(ses.id)
        => \A s \in 1..term.said :
             \/ Shown(ses.id, s)
             \/ s \in DOMAIN outFiles /\ outFiles[s].session = ses.id

\* A frame written for a host that died is not consumed by its replacement.
DeadHostInputFailsClosed ==
    \A i \in DOMAIN log : opened[log[i].session].host = log[i].for

\* Input of an epoch is not replayed into the next one.
NoReplayIntoNewEpoch ==
    \A i \in DOMAIN log : typedAt[log[i].item] = opened[log[i].session].nonce

-------------------------------------------------------------------------------
(* Liveness.  Both sides poll on timers; heartbeats retry a failed drain.   *)

Fairness ==
    /\ WF_vars(Opened \/ OpenRejected)
    /\ WF_vars(Drain)
    /\ WF_vars(Poll)
    /\ WF_vars(RenewSwitch)
    /\ WF_vars(HostPoll)

FairSpec == Spec /\ Fairness

Unseen ==
    /\ Serving /\ Only(ses.id) /\ ses.nonce = cl.nonce /\ Polling
    /\ term.said > 0 /\ ~Shown(ses.id, term.said)

\* The page catches up with its session's output, unless the session ends.
OutputIsShown == Unseen ~> ~Unseen

\* The budget of output the page has acknowledged is given back.
AcknowledgedOutputIsFreed ==
    \A s \in 1..MaxSaid :
        Serving /\ Polling /\ ses.nonce = cl.nonce /\ Shown(ses.id, s)
            ~> s \notin term.outst
===============================================================================
