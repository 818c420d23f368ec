---------------------------- MODULE TerminalSessions ----------------------------
(***************************************************************************)
(* The terminals of agents: the registry of the page                        *)
(* (plugin/terminal-service.ts) over the backend that opens them in the     *)
(* execution world (plugin/terminal-backend.ts).  A spawn is pending until  *)
(* its terminal is published or taken back; the disposal of an owner, or of *)
(* the service, aborts the pending spawns, waits for them, and closes what  *)
(* is published.  A close that fails leaves the terminal stuck.             *)
(***************************************************************************)
EXTENDS Naturals, FiniteSets

CONSTANTS
    Owner, Name,
    Spawn,    \* the spawns, in any order
    Service,  \* the disposal of everything, beside those of the owners
    MaxStuck  \* bound: closes that fail

VARIABLES
    terminal, \* per spawn: "none", "open", "stuck" or "closed" in the execution world
    record,   \* per spawn: how far it is, whose it is, and how it is closed
    cleanup,  \* per owner, and of the service: the disposal
    stuck     \* closes that have failed

sessionsVars == <<terminal, record, cleanup, stuck>>

None == "none"

New == [pc |-> "none", owner |-> None, name |-> None, aborted |-> FALSE,
        closed |-> FALSE, closing |-> FALSE]

Init ==
    /\ terminal = [s \in Spawn |-> "none"] /\ record = [s \in Spawn |-> New]
    /\ cleanup = [k \in Owner \union {Service} |-> [pc |-> "none", wait |-> {}, bad |-> FALSE]]
    /\ stuck = 0

At(s, pcs) == record[s].pc \in pcs
Running    == {"open", "quiet", "returned", "undo", "rollback"}
Pending(s) == At(s, Running \union {"held"})
Of(k)      == {s \in Spawn: record[s].pc # "none" /\ k \in {record[s].owner, Service}}

IsLiveOwner(o) == cleanup[o].pc = "none"
Disposing      == cleanup[Service].pc # "none"

HasOwnerActivity(o) == \E s \in Of(o): Pending(s) \/ At(s, {"published"})

Goto(s, pc) == record' = [record EXCEPT ![s].pc = pc]

\* (mutant: only published names are taken)
FreeOfPublished(o, name) ==
    ~\E s \in Of(o): record[s].name = name /\ At(s, {"published"})

\* reserveName: of a published terminal, or of a spawn that is pending.
IsFree(o, name) ==
    ~\E s \in Of(o): record[s].name = name /\ At(s, Running \union {"published"})

Begin(s, o, name) ==
    /\ At(s, {"none"}) /\ ~Disposing /\ IsLiveOwner(o)
    /\ name # None => IsFree(o, name)
    /\ record' = [record EXCEPT ![s] = [New EXCEPT !.pc = "open", !.owner = o, !.name = name]]
    /\ UNCHANGED <<terminal, cleanup, stuck>>

\* The caller's signal; the one of the reservation is Disposal.
Abort(s) ==
    /\ At(s, Running) /\ ~record[s].aborted
    /\ record' = [record EXCEPT ![s].aborted = TRUE]
    /\ UNCHANGED <<terminal, cleanup, stuck>>

\* The backend opens the terminal, or cannot.
Open(s) ==
    /\ At(s, {"open"})
    /\ \/ terminal' = [terminal EXCEPT ![s] = "open"] /\ Goto(s, "quiet")
       \/ UNCHANGED terminal /\ Goto(s, "ended")
    /\ UNCHANGED <<cleanup, stuck>>

\* Its first output has come, or not: what was aborted is undone by the backend.
Quiet(s) ==
    /\ At(s, {"quiet"})
    /\ Goto(s, IF record[s].aborted THEN "undo" ELSE "returned")
    /\ UNCHANGED <<terminal, cleanup, stuck>>

\* session.close() of the execution world.
Closes(s) == terminal' = [terminal EXCEPT ![s] = "closed"] /\ UNCHANGED stuck
Sticks(s) == /\ stuck < MaxStuck /\ stuck' = stuck + 1
             /\ terminal' = [terminal EXCEPT ![s] = "stuck"]

\* The error of a close that fails takes the place of the abort, and does not
\* say that the cleanup has failed.
Undo(s) ==
    /\ At(s, {"undo"}) /\ Goto(s, "ended")
    /\ Closes(s) \/ Sticks(s)
    /\ UNCHANGED cleanup

Publish(s) ==
    /\ At(s, {"returned"})
    /\ Goto(s, IF record[s].aborted \/ Disposing \/ ~IsLiveOwner(record[s].owner)
               THEN "rollback" ELSE "published")
    /\ UNCHANGED <<terminal, cleanup, stuck>>

\* A rollback that fails keeps the spawn pending until a disposal has reported it.
Rollback(s) ==
    /\ At(s, {"rollback"})
    /\ \/ Closes(s) /\ Goto(s, "ended")
       \/ Sticks(s) /\ Goto(s, "held")
    /\ UNCHANGED cleanup

Closing(s) == At(s, {"published"}) /\ record[s].closing

\* kill: a close that already runs is shared.
Kill(s) ==
    /\ At(s, {"published"}) /\ ~record[s].closing
    /\ record' = [record EXCEPT ![s].closing = TRUE]
    /\ UNCHANGED <<terminal, cleanup, stuck>>

Settled(s, bad) ==
    cleanup' = [k \in DOMAIN cleanup |->
        IF cleanup[k].pc = "close" /\ s \in cleanup[k].wait
        THEN [cleanup[k] EXCEPT !.wait = @ \ {s}, !.bad = @ \/ bad] ELSE cleanup[k]]

\* The backend's session closes once: a second close does nothing.
CloseEnds(s) ==
    /\ Closing(s)
    /\ IF record[s].closed THEN UNCHANGED <<terminal, stuck>> ELSE Closes(s)
    /\ record' = [record EXCEPT ![s].pc = "ended", ![s].closing = FALSE, ![s].closed = TRUE]
    /\ Settled(s, FALSE)

\* The record stays, for another try.
CloseFails(s) ==
    /\ Closing(s) /\ ~record[s].closed /\ Sticks(s)
    /\ record' = [record EXCEPT ![s].closing = FALSE, ![s].closed = TRUE]
    /\ Settled(s, TRUE)

-------------------------------------------------------------------------------
(* unregisterAgent and dispose of the service: abortAndClose.              *)

Disposal(k) ==
    /\ cleanup[k].pc = "none"
    /\ LET pending == {s \in Of(k): Pending(s)}
       IN  /\ cleanup' = [cleanup EXCEPT ![k].pc = "abort", ![k].wait = pending]
           /\ record' = [s \in Spawn |->
                IF s \in pending THEN [record[s] EXCEPT !.aborted = TRUE] ELSE record[s]]
    /\ UNCHANGED <<terminal, stuck>>

\* What is published is closed, or a close that runs is joined; the failures
\* of pending spawns are reported, and forgotten.
CloseRecords(k) ==
    LET held      == {s \in cleanup[k].wait: At(s, {"held", "reported"})}
        published == {s \in Of(k): At(s, {"published"})}
    IN  /\ cleanup' = [cleanup EXCEPT ![k] =
             [pc |-> "close", wait |-> published, bad |-> held # {}]]
        /\ record' = [s \in Spawn |->
             IF s \in held THEN [record[s] EXCEPT !.pc = "reported"]
             ELSE IF s \in published THEN [record[s] EXCEPT !.closing = TRUE] ELSE record[s]]
        /\ UNCHANGED <<terminal, stuck>>

\* (mutant: the pending spawns are aborted, and not waited for)
AbortedAtOnce(k) == cleanup[k].pc = "abort" /\ CloseRecords(k)

\* abortPendingSpawns has waited for every spawn it has aborted.
Aborted(k) ==
    /\ cleanup[k].pc = "abort" /\ \A s \in cleanup[k].wait: ~At(s, Running)
    /\ CloseRecords(k)

DisposalEnds(k) ==
    /\ cleanup[k].pc = "close" /\ cleanup[k].wait = {}
    /\ cleanup' = [cleanup EXCEPT ![k].pc = IF cleanup[k].bad THEN "failed" ELSE "done"]
    /\ UNCHANGED <<terminal, record, stuck>>

Next ==
    \/ \E s \in Spawn:
         \/ \E o \in Owner, name \in Name \union {None}: Begin(s, o, name)
         \/ Abort(s) \/ Open(s) \/ Quiet(s) \/ Undo(s) \/ Publish(s) \/ Rollback(s)
         \/ Kill(s) \/ CloseEnds(s) \/ CloseFails(s)
    \/ \E k \in Owner \union {Service}: Disposal(k) \/ Aborted(k) \/ DisposalEnds(k)

Spec == Init /\ [][Next]_sessionsVars

-------------------------------------------------------------------------------
Over(k) == cleanup[k].pc \in {"done", "failed"}

\* When a disposal has ended, even with a failure, no terminal of its owner is
\* left open that nobody has tried to close, however it overlapped with spawns,
\* kills and the disposal of the service.
DisposedOwnsNothing ==
    \A k \in Owner \union {Service}: Over(k) => \A s \in Of(k): terminal[s] # "open"

\* An owner with an open terminal has activity, from the setup to the close.
OpenIsActivity ==
    \A s \in Spawn: terminal[s] = "open" => HasOwnerActivity(record[s].owner)

\* The names of an owner's terminals are distinct.
NamesAreDistinct ==
    \A s, t \in Spawn:
        /\ s # t /\ record[s].owner = record[t].owner /\ record[s].name = record[t].name
        /\ At(s, {"published"}) /\ At(t, {"published"})
        => record[s].name = None

\* docs/contracts dsh-terminal/README.md:18: kill and disposal succeed only
\* when what they close is closed.
SuccessIsQuiescence ==
    \A k \in Owner \union {Service}: cleanup[k].pc = "done" => \A s \in Of(k): terminal[s] # "stuck"
=============================================================================
