-------------------------------- MODULE WasiRuntime ------------------------------
(***************************************************************************)
(* wasi-run of the host (engine/host/wasi.ts): a WebAssembly program runs in *)
(* a worker thread and the command waits for the first of five: the          *)
(* worker's result, its error, its exit, the time limit, the abort signal.   *)
(***************************************************************************)
EXTENDS Naturals, Sequences

CONSTANTS
    Piece,      \* pieces of output of the program
    MaxPiece    \* bound: pieces written

VARIABLES
    run,        \* the command: where it is, its answer, whether it listens to the signal and has its timer
    thread,     \* the worker: its life, and the events it has still to deliver
    stdout,     \* the pieces that arrived, and the ones the command has written out, by write
    abortedRun  \* the signal has fired

wasiVars == <<run, thread, stdout, abortedRun>>

Codes == {"usage", "error", "program", "timeout", "interrupted"}
Unanswered == "none"

TypeOK ==
    /\ run \in [pc: {"new", "stdin", "waiting", "ending", "done"}, code: Codes \cup {Unanswered}, listens: BOOLEAN, timer: BOOLEAN]
    /\ thread.life \in {"none", "up", "gone"}
    /\ thread.posted \in {"none", "result", "failure"} /\ thread.event \in {"none", "error", "exit"}
    /\ stdout.sent \in 0..MaxPiece

Init ==
    /\ run = [pc |-> "new", code |-> Unanswered, listens |-> FALSE, timer |-> FALSE]
    /\ thread = [life |-> "none", posted |-> "none", event |-> "none"]
    /\ stdout = [sent |-> 0, arrived |-> <<>>, written |-> <<>>] /\ abortedRun = FALSE

\* parseArgs, realModulePath and the size of the module; and the size of the input once it has been read.
Refuse(code) ==
    /\ \/ run.pc = "new" /\ code \in {"usage", "error"}
       \/ run.pc = "stdin" /\ code = "error"
    /\ run' = [run EXCEPT !.pc = "done", !.code = code]
    /\ UNCHANGED <<thread, stdout, abortedRun>>

\* The input is read to its end; an abort meanwhile is not seen.
ReadInput ==
    /\ run.pc = "new"
    /\ run' = [run EXCEPT !.pc = "stdin"]
    /\ UNCHANGED <<thread, stdout, abortedRun>>

\* The worker is made, the timer set, the listener added: one that comes after the abort is never called.
Start ==
    /\ run.pc = "stdin"
    /\ run' = [run EXCEPT !.pc = "waiting", !.listens = TRUE, !.timer = TRUE]
    /\ thread' = [thread EXCEPT !.life = "up"]
    /\ UNCHANGED <<stdout, abortedRun>>

\* (mutant: finish does not ask whether the command is settled)
UnsettledAlways == run.pc \in {"waiting", "ending", "done"}
Unsettled == run.pc = "waiting"

\* (mutant: the command answers before the worker is stopped)
ResolveThenTerminate(code) == [pc |-> "done", code |-> code, listens |-> FALSE, timer |-> FALSE]
\* The answer is chosen, the timer and the listener go; the answer is given when the worker has been stopped.
Settle(code) == [pc |-> "ending", code |-> code, listens |-> FALSE, timer |-> FALSE]

\* finish: what has arrived of the output is written, once.
Finish(code) ==
    /\ run' = IF Unsettled THEN Settle(code) ELSE run
    /\ stdout' = IF Unsettled THEN [stdout EXCEPT !.written = Append(@, stdout.arrived)] ELSE stdout

Abort ==
    /\ ~abortedRun /\ run.pc # "done"
    /\ abortedRun' = TRUE
    /\ IF run.listens THEN Finish("interrupted") ELSE UNCHANGED <<run, stdout>>
    /\ UNCHANGED thread

Timeout ==
    /\ run.timer
    /\ Finish("timeout")
    /\ UNCHANGED <<thread, abortedRun>>

\* The program writes; the piece arrives as an event of its own, perhaps after the result.
Output ==
    /\ thread.life = "up" /\ thread.posted = "none" /\ stdout.sent < MaxPiece
    /\ stdout' = [stdout EXCEPT !.sent = @ + 1]
    /\ UNCHANGED <<run, thread, abortedRun>>

Arrives(piece) ==
    /\ thread.life = "up" /\ Len(stdout.arrived) < stdout.sent
    /\ stdout' = [stdout EXCEPT !.arrived = Append(@, piece)]
    /\ UNCHANGED <<run, thread, abortedRun>>

\* The worker's last words: the result of the program or what it threw; or the thread dies of its memory limit.
Post ==
    /\ thread.life = "up" /\ thread.posted = "none" /\ thread.event = "none"
    /\ \E what \in {"result", "failure"}: thread' = [thread EXCEPT !.posted = what]
    /\ UNCHANGED <<run, stdout, abortedRun>>

Dies ==
    /\ thread.life = "up" /\ thread.event = "none" /\ thread.posted = "none"
    /\ thread' = [thread EXCEPT !.life = "gone", !.event = "error"]
    /\ UNCHANGED <<run, stdout, abortedRun>>

Message ==
    /\ thread.posted # "none" /\ thread.event # "error" /\ run.pc \in {"waiting", "ending"}
    /\ thread' = [thread EXCEPT !.posted = "none", !.event = "exit"]
    /\ Finish(IF thread.posted = "result" THEN "program" ELSE "error")
    /\ UNCHANGED abortedRun

\* The error event, and the exit event with a code that is not 0 after it.
ErrorEvent ==
    /\ thread.event = "error" /\ run.pc # "done"
    /\ thread' = [thread EXCEPT !.event = "none"]
    /\ Finish("error")
    /\ UNCHANGED abortedRun

\* worker.terminate resolves.
Terminated ==
    /\ run.pc = "ending"
    /\ thread' = [thread EXCEPT !.life = "gone"]
    /\ run' = [run EXCEPT !.pc = "done"]
    /\ UNCHANGED <<stdout, abortedRun>>

Next ==
    \/ \E code \in Codes: Refuse(code)
    \/ ReadInput \/ Start \/ Abort \/ Timeout \/ Post \/ Dies \/ Message \/ ErrorEvent \/ Terminated
    \/ Output \/ \E piece \in Piece: Arrives(piece)

Spec == Init /\ [][Next]_wasiVars

-----------------------------------------------------------------------------

\* When the command has answered, its worker is gone and neither timer nor signal can call it again; its output has been
\* written once, whichever of the five came first and whatever came after it (wasi.ts:123).
AnsweredIsOver ==
    /\ run.pc = "done" => thread.life # "up" /\ ~run.timer /\ ~run.listens
    /\ Len(stdout.written) <= 1

\* The answer that was chosen is the one that is given.
AnswerStands == [][run.code # Unanswered => run'.code = run.code]_wasiVars
=============================================================================
