----------------------------- MODULE HostProcesses -----------------------------
(***************************************************************************)
(* The real child processes of the host daemon: its process table, the     *)
(* timers that end a process or forget it, and the answers of `run` and    *)
(* `spawn`.                                                                 *)
(*   engine/host-procs.ts, engine/host/spawn.ts, engine/host/ps-kill.ts,   *)
(*   engine/host/node-runner.ts, `forward` of engine/host/real-binaries.ts *)
(* A child is the object in memory; the system knows it by a pid, which it *)
(* gives away again once the process has ended. `exit` (the process is     *)
(* gone) comes before `close` (nobody holds its output any more).          *)
(***************************************************************************)
EXTENDS Integers, FiniteSets

CONSTANTS
    MaxChild,       \* child processes started
    Pid,            \* process ids, positive numbers
    Instance,
    Default,        \* the instance that sees every process
    MaxEntries      \* MAX_ENTRIES of the process table

VARIABLES
    child,          \* the children: the process, its table entry, the request it belongs to
    table,          \* the process table, by pid
    current         \* currentRunByInstance

vars == <<child, table, current>>

Children == 1..MaxChild
None == 0
FailedPid == -1             \* the pid of a process that could not be started
NoChild ==
    [os |-> "none", pid |-> None, inst |-> None, kind |-> "none", term |-> FALSE, code |-> FALSE, held |-> FALSE, over |-> FALSE,
     entry |-> "none", force |-> FALSE, expiry |-> FALSE,
     timer |-> FALSE, grace |-> FALSE, answered |-> FALSE, doomed |-> FALSE]

TypeOK ==
    /\ \A c \in Children :
        /\ child[c].os \in {"none", "alive", "ended", "failed"}
        /\ child[c].pid \in Pid \cup {FailedPid, None} /\ child[c].inst \in Instance \cup {None}
        /\ child[c].kind \in {"none", "run", "spawn", "forward"}
        /\ child[c].entry \in {"none", "running", "exited"}
        /\ \A f \in {"term", "code", "held", "over", "force", "expiry", "timer", "grace", "answered", "doomed"} : child[c][f] \in BOOLEAN
    /\ table \in [Pid \cup {FailedPid} -> Children \cup {None}]
    /\ current \in [Instance -> Pid \cup {FailedPid, None}]

Init ==
    /\ child = [c \in Children |-> NoChild]
    /\ table = [p \in Pid \cup {FailedPid} |-> None]
    /\ current = [i \in Instance |-> None]

Alive(c) == child[c].os = "alive"

\* The batch lane of the host is busy with a run until its answer is written.
Busy == \E c \in Children : child[c].kind = "run" /\ ~child[c].answered

-----------------------------------------------------------------------------
(* The table.                                                              *)

\* removeProcess: the timers of the entry go; the row goes if it is still this entry's.
Dropped(cs, c) == [cs EXCEPT ![c].force = FALSE, ![c].expiry = FALSE]
Removed(t, cs, c) == IF t[cs[c].pid] = c THEN [t EXCEPT ![cs[c].pid] = None] ELSE t

\* prune: beyond MaxEntries the oldest of the exited entries go.
Prunable(t, cs) ==
    LET rows == {c \in Children : \E p \in DOMAIN t : t[p] = c}
        exited == {c \in rows : cs[c].entry = "exited"} IN
    {c \in exited : Cardinality({b \in exited : b < c}) + MaxEntries < Cardinality(rows)}
Prune(t, cs) ==
    /\ table' = [p \in DOMAIN t |-> IF t[p] \in Prunable(t, cs) THEN None ELSE t[p]]
    /\ child' = [c \in Children |-> IF c \in Prunable(t, cs) THEN Dropped(cs, c)[c] ELSE cs[c]]

\* finishProcess.
Finished(cs, c) ==
    IF cs[c].entry = "running" THEN [cs EXCEPT ![c].entry = "exited", ![c].force = FALSE, ![c].expiry = TRUE] ELSE cs

-----------------------------------------------------------------------------
(* Signals.                                                                *)

\* The process is gone; a descendant may still hold its output.
Ended(cs, c, code, held) == [cs EXCEPT ![c].os = "ended", ![c].code = code, ![c].held = held]

\* child.kill(signal): SIGTERM and SIGINT may be ignored.
Signalled(cs, c, signal, held) ==
    IF cs[c].os # "alive" THEN cs
    ELSE IF signal = "SIGKILL" THEN Ended(cs, c, FALSE, held) ELSE [cs EXCEPT ![c].term = TRUE]

\* killProcess(pid, forceAfterMs, signal): whatever the table has under the pid; a signal that was sent arms the timer.
Kill(cs, p, signal, force, held) ==
    LET c == table[p] IN
    IF c = None THEN cs
    ELSE IF cs[c].entry = "exited" \/ cs[c].os # "alive" THEN cs
    ELSE [Signalled(cs, c, signal, held) EXCEPT ![c].force = @ \/ (force /\ signal # "SIGKILL")]

-----------------------------------------------------------------------------
(* Answers.                                                                *)

\* settle of spawnChild and of dispatchSpawn: once, and the timers of the request go.
Settled(cs, c) == [cs EXCEPT ![c].answered = TRUE, ![c].timer = FALSE, ![c].grace = FALSE]

\* clearIf, for the run that settles.
Cleared(c) ==
    IF child[c].kind = "run" /\ ~child[c].answered /\ current[child[c].inst] = child[c].pid
    THEN [current EXCEPT ![child[c].inst] = None] ELSE current

-----------------------------------------------------------------------------
(* A process from its start to its end.                                    *)

\* spawnTracked, for a run of the batch lane, a background process, or a command of the Lifo shell. A pid that is in the
\* table already belongs to a process that has ended.
Start(c, i, kind, p) ==
    /\ child[c].os = "none" /\ \A b \in Children : b < c => child[b].os # "none"
    /\ kind \in {"run", "spawn"} => ~Busy
    /\ p # FailedPid => \A b \in Children : Alive(b) => child[b].pid # p
    /\ LET new == [NoChild EXCEPT !.os = IF p = FailedPid THEN "failed" ELSE "alive", !.pid = p, !.inst = i, !.kind = kind,
                                  !.entry = "running", !.timer = kind # "forward"]
           cs == [IF table[p] = None THEN child ELSE Dropped(child, table[p]) EXCEPT ![c] = new] IN
        Prune([table EXCEPT ![p] = c], cs)
    /\ current' = IF kind = "run" THEN [current EXCEPT ![i] = p] ELSE current

\* The process ends by itself or by a signal that it does not handle, which leaves no exit code.
Exit(c, signal, held) ==
    /\ Alive(c)
    /\ signal => child[c].term
    /\ child' = Ended(child, c, ~signal, held)
    /\ UNCHANGED <<table, current>>

\* The last holder of the output is gone.
Release(c) == child[c].held /\ child' = [child EXCEPT ![c].held = FALSE] /\ UNCHANGED <<table, current>>

\* The close event: the entry, and the answer of a run, or of a background process that failed within the window.
Close(c, failed) ==
    /\ child[c].os = "ended" /\ ~child[c].held /\ ~child[c].over
    /\ LET cs == Finished([child EXCEPT ![c].over = TRUE], c)
           settles == child[c].kind = "run" \/ (child[c].kind = "spawn" /\ failed) IN
        Prune(table, IF settles THEN Settled(cs, c) ELSE cs)
    /\ current' = Cleared(c)

\* The error event of a process that did not start; a background process has its row marked by pid.
Error(c) ==
    /\ child[c].os = "failed" /\ ~child[c].over
    /\ LET own == Finished([child EXCEPT ![c].over = TRUE], c)
           row == table[FailedPid]
           cs == IF child[c].kind = "spawn" /\ row # None THEN Finished(own, row) ELSE own IN
        Prune(table, IF child[c].kind = "forward" THEN cs ELSE Settled(cs, c))
    /\ current' = Cleared(c)

-----------------------------------------------------------------------------
(* Timers.                                                                 *)

\* (mutant: the timer relies on the close of the process it kills)
RunTimesOutNoGrace(c) ==
    /\ child[c].kind = "run" /\ child[c].timer
    /\ child' = IF child[c].code THEN [child EXCEPT ![c].timer = FALSE]
                ELSE Kill([child EXCEPT ![c].timer = FALSE], child[c].pid, "SIGTERM", TRUE, FALSE)
    /\ UNCHANGED <<table, current>>

\* The timeout of a run: nothing once there is an exit code.
RunTimesOut(c) ==
    /\ child[c].kind = "run" /\ child[c].timer
    /\ child' = IF child[c].code THEN [child EXCEPT ![c].timer = FALSE]
                ELSE Kill([child EXCEPT ![c].timer = FALSE, ![c].grace = TRUE], child[c].pid, "SIGTERM", TRUE, FALSE)
    /\ UNCHANGED <<table, current>>

\* The grace of a run that timed out is over. The forced kill comes before it.
GraceEnds(c) ==
    /\ child[c].grace /\ ~child[c].force
    /\ child' = Settled(child, c)
    /\ current' = Cleared(c)
    /\ UNCHANGED table

\* SPAWN_CONFIRM_MS: a background process that has not failed yet is reported as started.
Confirm(c) ==
    /\ child[c].kind = "spawn" /\ child[c].timer
    /\ child' = Settled(child, c)
    /\ UNCHANGED <<table, current>>

ForceFires(c, held) ==
    /\ child[c].force
    /\ LET cs == [child EXCEPT ![c].force = FALSE] IN
        child' = IF child[c].entry = "running" THEN Signalled(cs, c, "SIGKILL", held) ELSE cs
    /\ UNCHANGED <<table, current>>

\* (mutant: the row is removed by its pid)
ExpiryFiresByPid(c) ==
    /\ child[c].expiry
    /\ child' = Dropped(child, c)
    /\ table' = [table EXCEPT ![child[c].pid] = None]
    /\ UNCHANGED current

\* EXITED_PROCESS_TTL_MS.
ExpiryFires(c) ==
    /\ child[c].expiry
    /\ IF table[child[c].pid] = c
         THEN child' = Dropped(child, c) /\ table' = Removed(table, child, c)
         ELSE child' = [child EXCEPT ![c].expiry = FALSE] /\ UNCHANGED table
    /\ UNCHANGED current

-----------------------------------------------------------------------------
(* Requests that signal.                                                   *)

\* What a request of an instance may kill: the default instance every row, another one its own rows that `ps` shows; the
\* children of shell commands are internal.
Rows == {c \in Children : child[c].os # "none" /\ table[child[c].pid] = c}
Killable(i) == {c \in Rows : i = Default \/ (child[c].inst = i /\ child[c].kind # "forward")}

\* The kill command, with or without an escalation; pids that are not positive are refused.
KillCommand(i, p, signal, force, held) ==
    /\ ~Busy /\ table[p] \in Killable(i)
    /\ child' = Kill(child, p, signal, force, held)
    /\ UNCHANGED <<table, current>>

\* dispatchInterrupt, also while the lane is busy.
Interrupt(i) ==
    /\ current[i] # None
    /\ child' = Kill(child, current[i], "SIGINT", TRUE, FALSE)
    /\ UNCHANGED <<table, current>>

\* The abort of a command of the Lifo shell, until its child has closed.
Abort(c) ==
    /\ child[c].kind = "forward" /\ ~child[c].over
    /\ child' = Kill(child, child[c].pid, "SIGINT", TRUE, FALSE)
    /\ UNCHANGED <<table, current>>

\* The running rows of an instance.
Owned(i) == {c \in Children : child[c].inst = i /\ child[c].entry = "running" /\ table[child[c].pid] = c}

\* (mutant: the processes are asked, never forced)
TerminateGently(i) ==
    /\ ~Busy /\ Owned(i) # {}
    /\ child' = [c \in Children |-> IF c \in Owned(i) THEN [Kill(child, child[c].pid, "SIGTERM", FALSE, FALSE)[c] EXCEPT !.doomed = TRUE]
                                    ELSE child[c]]
    /\ current' = [current EXCEPT ![i] = None]
    /\ UNCHANGED table

\* terminateProcessesForInstance and the rest of dispatchResetInstance that is about real processes.
Terminate(i) ==
    /\ ~Busy /\ Owned(i) # {}
    /\ child' = [c \in Children |-> IF c \in Owned(i) THEN [Kill(child, child[c].pid, "SIGTERM", TRUE, FALSE)[c] EXCEPT !.doomed = TRUE]
                                    ELSE child[c]]
    /\ current' = [current EXCEPT ![i] = None]
    /\ UNCHANGED table

-----------------------------------------------------------------------------

Next ==
    \/ \E c \in Children, i \in Instance, kind \in {"run", "spawn", "forward"}, p \in Pid \cup {FailedPid} : Start(c, i, kind, p)
    \/ \E c \in Children, signal, held \in BOOLEAN : Exit(c, signal, held)
    \/ \E c \in Children, b \in BOOLEAN : Close(c, b) \/ ForceFires(c, b)
    \/ \E c \in Children : Release(c) \/ Error(c) \/ RunTimesOut(c) \/ GraceEnds(c) \/ Confirm(c) \/ ExpiryFires(c) \/ Abort(c)
    \/ \E i \in Instance :
        \/ Interrupt(i) \/ Terminate(i)
        \/ \E p \in Pid, signal \in {"SIGTERM", "SIGKILL"}, force, held \in BOOLEAN : KillCommand(i, p, signal, force, held)

Spec == Init /\ [][Next]_vars

\* The host's event loop delivers its events and timers. A process need not end, nor a descendant let go of an output.
Fairness ==
    \A c \in Children :
        /\ WF_vars(\E b \in BOOLEAN : Close(c, b)) /\ WF_vars(\E b \in BOOLEAN : ForceFires(c, b))
        /\ WF_vars(Error(c)) /\ WF_vars(RunTimesOut(c)) /\ WF_vars(GraceEnds(c)) /\ WF_vars(Confirm(c))

FairSpec == Spec /\ Fairness

-----------------------------------------------------------------------------
(* Properties.                                                             *)

\* A process that runs is in the table under its pid, whatever became of the process that had the pid before it: `ps` shows
\* it, `kill` and a reset reach it (host-procs.ts:147).
RunningIsListed == \A c \in Children : Alive(c) => table[child[c].pid] = c /\ child[c].entry = "running"

\* The answers of runs and spawns are written, whether a process ignores signals or not; but not as long as a descendant
\* holds the output of a run that has exited (spawn.ts:142). There are only so many children.
Held(c) == child[c].os = "ended" /\ child[c].code /\ child[c].held
Waiting == {c \in Children : child[c].kind \in {"run", "spawn"} /\ ~child[c].answered /\ ~Held(c)}
RequestSettles == Waiting # {} ~> Waiting = {}

\* What a reset or the shutdown of an instance found running comes to an end.
Doomed == {c \in Children : child[c].doomed /\ child[c].os = "alive"}
TerminatedEnds == Doomed # {} ~> Doomed = {}

\* The comment at spawn.ts:140: a child that hangs does not occupy the lane for ever.
RunNeverHangs == \A c \in Children : child[c].kind = "run" ~> child[c].answered
=============================================================================
