------------------------------ MODULE TerminalHub ------------------------------
(***************************************************************************)
(* The terminal of an instance's shell (engine/terminal-hub.ts): devices   *)
(* come and go, batch commands take turns with the interactive shell, and  *)
(* input waits while one of them is running.                               *)
(* The shell is Lifo's: it takes what is delivered to it and prints a      *)
(* prompt when a command is over.  Promise reactions and queued microtasks *)
(* run before the next event.                                              *)
(***************************************************************************)
EXTENDS Naturals, Sequences, FiniteSets, SequencesExt

CONSTANTS
    MaxInput,       \* pieces of input typed or pasted
    MaxOutput,      \* pieces of output written by the shell
    MaxBatch,       \* batch commands
    Room            \* maxPendingBytes, in pieces

VARIABLES
    typed,          \* the pieces of input so far
    out,            \* the pieces of output so far
    device,         \* a device is attached
    shown,          \* what devices were given
    pendingOutput, pendingInput, pendingSubmitted,
    interactive,    \* interactiveRunning
    commands,       \* lines the shell has been given and not finished
    flushQueued,    \* submittedInputFlushQueued
    tail,           \* the batches that wait for their turn, the one whose turn it is first
    turn,           \* what that one does
    over,           \* batches that are over
    got,            \* input delivered to the shell
    disposed

vars == <<typed, out, device, shown, pendingOutput, pendingInput, pendingSubmitted, interactive, commands, flushQueued,
          tail, turn, over, got, disposed>>

Inputs == 1..MaxInput
\* A key or an escape sequence; a return of its own; a whole line at once; the rest of a paste behind its last line end.
Kind == {"key", "return", "line", "rest"}
Piece == [n : Inputs, kind : Kind]
Ends(piece) == piece.kind \in {"return", "line"}

TypeOK ==
    /\ typed \in 0..MaxInput /\ out \in 0..MaxOutput
    /\ device \in BOOLEAN /\ interactive \in BOOLEAN /\ flushQueued \in BOOLEAN /\ disposed \in BOOLEAN
    /\ Range(pendingInput) \cup Range(pendingSubmitted) \cup got \subseteq Piece
    /\ turn \in {"none", "next", "waiting", "resuming", "active"}
    /\ Range(tail) \cup over \subseteq 1..MaxBatch

Init ==
    /\ typed = 0 /\ out = 0 /\ device = FALSE /\ shown = <<>> /\ pendingOutput = <<>>
    /\ pendingInput = <<>> /\ pendingSubmitted = <<>> /\ interactive = FALSE /\ commands = 0 /\ flushQueued = FALSE
    /\ tail = <<>> /\ turn = "none" /\ over = {} /\ got = {} /\ disposed = FALSE

\* Microtasks are on their way.
Settling == flushQueued \/ turn \in {"next", "resuming"}

-----------------------------------------------------------------------------
(* Input.                                                                  *)

\* deliverInput, for pieces one after the other: a line end starts an interactive command.
Deliver(pieces) ==
    /\ got' = got \cup Range(pieces)
    /\ interactive' = (interactive \/ \E i \in DOMAIN pieces : Ends(pieces[i]))
    /\ commands' = commands + Len(SelectSeq(pieces, Ends))

\* isCompleteCommandSubmission and splitCommandSubmissions.
Submission(n, kind) ==
    CASE kind = "line" -> <<[n |-> n, kind |-> "line"]>>
      [] kind = "paste" -> <<[n |-> n, kind |-> "line"], [n |-> n, kind |-> "rest"]>>
      [] OTHER -> <<>>

Typed(n, kind) == IF Submission(n, kind) # <<>> THEN Submission(n, kind) ELSE <<[n |-> n, kind |-> kind]>>

\* acceptInput. What finds no room is refused, the part of a paste before it is not.
AcceptInput(kind) ==
    /\ device /\ ~Settling /\ typed < MaxInput
    /\ typed' = typed + 1
    /\ LET submission == Submission(typed', kind)
           room == Room - Len(pendingInput) - Len(pendingSubmitted) IN
        \/ /\ turn = "active"
           /\ pendingInput' = IF Len(Typed(typed', kind)) <= room THEN pendingInput \o Typed(typed', kind) ELSE pendingInput
           /\ UNCHANGED <<pendingSubmitted, got, interactive, commands>>
        \/ /\ turn # "active" /\ interactive /\ submission # <<>>
           /\ pendingSubmitted' = pendingSubmitted \o SubSeq(submission, 1, IF Len(submission) <= room THEN Len(submission) ELSE room)
           /\ UNCHANGED <<pendingInput, got, interactive, commands>>
        \/ /\ turn # "active" /\ ~(interactive /\ submission # <<>>)
           /\ Deliver(Typed(typed', kind))
           /\ UNCHANGED <<pendingInput, pendingSubmitted>>
    /\ UNCHANGED <<out, device, shown, pendingOutput, flushQueued, tail, turn, over, disposed>>

\* The microtask of scheduleSubmittedInputFlush: one submission, if the shell is still free.
FlushSubmitted ==
    /\ flushQueued
    /\ flushQueued' = FALSE
    /\ IF disposed \/ turn = "active" \/ interactive \/ pendingSubmitted = <<>>
         THEN UNCHANGED <<pendingSubmitted, got, interactive, commands>>
         ELSE Deliver(<<Head(pendingSubmitted)>>) /\ pendingSubmitted' = Tail(pendingSubmitted)
    /\ UNCHANGED <<typed, out, device, shown, pendingOutput, pendingInput, tail, turn, over, disposed>>

-----------------------------------------------------------------------------
(* Output and devices.                                                     *)

\* write: to the device, or kept as far as there is room.
Written ==
    /\ out' = out + 1
    /\ shown' = IF device THEN Append(shown, out') ELSE shown
    /\ pendingOutput' = IF ~device /\ Len(pendingOutput) < Room THEN Append(pendingOutput, out') ELSE pendingOutput

Write == out < MaxOutput /\ ~Settling /\ ~disposed /\ Written
         /\ UNCHANGED <<typed, device, pendingInput, pendingSubmitted, interactive, commands, flushQueued, tail, turn, over, got, disposed>>

\* The prompt after a command, which observeOutput takes for the end of the interactive command: whoever waits goes on.
Prompt ==
    /\ commands > 0 /\ ~Settling /\ ~disposed
    /\ commands' = commands - 1
    /\ interactive' = FALSE
    /\ turn' = IF interactive /\ turn = "waiting" THEN "resuming" ELSE turn
    /\ flushQueued' = (interactive /\ pendingSubmitted # <<>>)
    /\ UNCHANGED <<typed, out, device, shown, pendingOutput, pendingInput, pendingSubmitted, tail, over, got, disposed>>

\* (mutant: what a device does not take is lost)
AttachDrops(taken) ==
    /\ shown' = shown \o SubSeq(pendingOutput, 1, taken)
    /\ pendingOutput' = <<>>
    /\ device' = (taken = Len(pendingOutput))

\* What was kept goes to the device; one that refuses a piece is not attached, and the piece is kept.
AttachTakes(taken) ==
    /\ shown' = shown \o SubSeq(pendingOutput, 1, taken)
    /\ pendingOutput' = SubSeq(pendingOutput, taken + 1, Len(pendingOutput))
    /\ device' = (taken = Len(pendingOutput))

Attach(taken) ==
    /\ ~disposed /\ ~Settling /\ taken \in 0..Len(pendingOutput)
    /\ AttachTakes(taken)
    /\ UNCHANGED <<typed, out, pendingInput, pendingSubmitted, interactive, commands, flushQueued, tail, turn, over, got, disposed>>

Detach ==
    /\ device /\ ~Settling
    /\ device' = FALSE
    /\ UNCHANGED <<typed, out, shown, pendingOutput, pendingInput, pendingSubmitted, interactive, commands, flushQueued, tail, turn, over, got, disposed>>

\* dispose: everything that is kept is forgotten; a batch that waits for the shell goes on.
Dispose ==
    /\ ~disposed /\ ~Settling
    /\ disposed' = TRUE /\ device' = FALSE
    /\ pendingOutput' = <<>> /\ pendingInput' = <<>> /\ pendingSubmitted' = <<>>
    /\ interactive' = FALSE /\ commands' = 0
    /\ turn' = IF turn = "waiting" THEN "resuming" ELSE turn
    /\ UNCHANGED <<typed, out, shown, flushQueued, tail, over, got>>

-----------------------------------------------------------------------------
(* Batch commands.                                                         *)

\* runBatch: a batch stands behind the one before it.
RunBatch(b) ==
    /\ ~Settling /\ b \notin over \cup Range(tail) /\ \A a \in 1..MaxBatch : a < b => a \in over \cup Range(tail)
    /\ tail' = Append(tail, b)
    /\ turn' = IF tail = <<>> THEN "next" ELSE turn
    /\ UNCHANGED <<typed, out, device, shown, pendingOutput, pendingInput, pendingSubmitted, interactive, commands, flushQueued, over, got, disposed>>

\* (mutant: a batch that did not get to run does not let input go)
LetGoAfterTask ==
    /\ IF turn = "active" THEN Deliver(pendingInput) /\ pendingInput' = <<>> ELSE UNCHANGED <<got, interactive, commands, pendingInput>>
    /\ tail' = IF turn = "active" THEN Tail(tail) ELSE tail

\* (mutant: without a device the held back input is forgotten)
LetGoToDevice ==
    /\ IF disposed \/ ~device THEN UNCHANGED <<got, interactive, commands>> ELSE Deliver(pendingInput)
    /\ pendingInput' = <<>>
    /\ tail' = Tail(tail)

\* The finally of runBatch: the held back input goes to the shell, unless it is gone, and the next batch has its turn.
LetGo ==
    /\ IF disposed THEN UNCHANGED <<got, interactive, commands>> ELSE Deliver(pendingInput)
    /\ pendingInput' = <<>>
    /\ tail' = Tail(tail)

EndTurn ==
    /\ LetGo
    /\ over' = over \cup {Head(tail)}
    /\ flushQueued' = (~disposed /\ pendingSubmitted # <<>>)
    /\ turn' = IF Len(tail) = 1 THEN "none" ELSE "next"
    /\ UNCHANGED <<typed, out, device, shown, pendingOutput, pendingSubmitted, disposed>>

\* The command is over: by itself, by its own timeout or by an abort.
BatchEnds == turn = "active" /\ ~Settling /\ EndTurn

\* waitForInteractiveIdle runs out of time.
IdleTimesOut == turn = "waiting" /\ ~Settling /\ EndTurn

\* The reactions that lead from the end of the batch before, or of an interactive command, to the batch that waits: the
\* flush that was queued beside them comes first. A batch that has waited for the shell does not look again.
Resume ==
    /\ turn \in {"next", "resuming"} /\ ~flushQueued
    /\ turn' = IF turn = "next" /\ interactive THEN "waiting" ELSE "active"
    /\ UNCHANGED <<typed, out, device, shown, pendingOutput, pendingInput, pendingSubmitted, interactive, commands, flushQueued, tail, over, got, disposed>>

-----------------------------------------------------------------------------

Next ==
    \/ \E kind \in {"key", "return", "line", "paste"} : AcceptInput(kind)
    \/ \E taken \in 0..Room : Attach(taken)
    \/ \E b \in 1..MaxBatch : RunBatch(b)
    \/ FlushSubmitted \/ Write \/ Prompt \/ Detach \/ Dispose \/ BatchEnds \/ IdleTimesOut \/ Resume

Spec == Init /\ [][Next]_vars

\* Microtasks run; a batch has a timeout, and so has its wait for the shell. A command of the shell may run for ever.
Fairness == WF_vars(FlushSubmitted) /\ WF_vars(Resume) /\ WF_vars(BatchEnds) /\ WF_vars(IdleTimesOut)

FairSpec == Spec /\ Fairness

-----------------------------------------------------------------------------
(* Properties.                                                             *)

\* Devices that refuse, leave and come back show the output in the order of its writing; what is missing was refused for
\* want of room.
OutputInOrder ==
    /\ \A i, j \in DOMAIN shown : i < j => shown[i] < shown[j]
    /\ ~disposed /\ out <= Room => Range(shown) \cup Range(pendingOutput) = 1..out

\* Input that a batch holds back leaves the hub to the shell, unless the terminal is disposed of: no piece gets lost
\* (terminal-hub.ts:105) ...
HeldInputStays == [][\A p \in Range(pendingInput) : p \in Range(pendingInput') \cup got' \/ disposed']_vars

\* ... and none stays when the batch is over, also when it never got to run.
HeldInputArrives == pendingInput # <<>> ~> pendingInput = <<>>

\* Batches are over some time, however long the command at the prompt runs (there are only so many of them).
BatchIsOver == tail # <<>> ~> tail = <<>>

\* The comment at terminal-hub.ts:99: a batch command and the interactive shell of its instance are serialized.
BatchRunsAlone == turn = "active" => ~interactive
=============================================================================
