--------------------------------- MODULE Commands --------------------------------
(***************************************************************************)
(* A command on its way through the executor of the page: telemetry around  *)
(* it (plugin/service-runtime.ts), the files of its language first          *)
(* (plugin/executor-runtime.ts), then the terminal executor with its abort  *)
(* signal and its time limit (engine/terminal-executor.ts).  The channel    *)
(* below is RpcChannel's, reduced to the order of its deliveries and the    *)
(* one lane of the host.                                                    *)
(***************************************************************************)
EXTENDS Naturals, Sequences, SequencesExt

CONSTANTS
    Call,         \* the calls of exec and spawn
    MaxThrow      \* bound: listeners of an event that throw

VARIABLES
    cmd,          \* per call: where it is, whether its signal has fired, its answer
    queue,        \* requests that wait for their delivery
    lane,         \* the call whose run the host has begun, or None
    hit,          \* runs that were interrupted
    announced,    \* per call: the start and finish events published
    thrown

commandVars == <<cmd, queue, lane, hit, announced, thrown>>

None == "none"

TypeOK ==
    /\ \A c \in Call:
        /\ cmd[c].pc \in {"new", "assets", "queued", "running", "result", "done"} /\ cmd[c].kind \in {"exec", "spawn"}
        /\ cmd[c].answer \in {None, "ok", "failed", "aborted", "timeout", "rejected"}
        /\ announced[c].finish <= 2
    /\ queue \in Seq(Call) /\ lane \in Call \cup {None} /\ hit \subseteq Call

Init ==
    /\ cmd \in [Call -> [pc: {"new"}, kind: {"exec", "spawn"}, fired: {FALSE}, answer: {None}]]
    /\ queue = <<>> /\ lane = None /\ hit = {} /\ thrown = 0
    /\ announced = [c \in Call |-> [start |-> 0, finish |-> 0]]

At(c, pc) == [cmd EXCEPT ![c].pc = pc]
Throws == thrown < MaxThrow /\ thrown' = thrown + 1

\* (mutant: an event for commands that end by a throw is forgotten)
PublishResults(c, answer) == IF answer = "rejected" THEN 0 ELSE 1
\* The finish events of an answer.
Finishes(c, answer) == 1

\* The answer passes the telemetry: its event is published; when a listener throws, the error is taken for the command's own
\* and published in its turn, and the caller is rejected.
Answer(c, answer) ==
    \/ /\ cmd' = [cmd EXCEPT ![c].pc = "done", ![c].answer = answer]
       /\ announced' = [announced EXCEPT ![c].finish = @ + Finishes(c, answer)]
       /\ UNCHANGED thrown
    \/ /\ answer # "rejected" /\ Throws
       /\ cmd' = [cmd EXCEPT ![c].pc = "done", ![c].answer = "rejected"]
       /\ announced' = [announced EXCEPT ![c].finish = @ + 2]

\* (mutant: the result of the run is handed on whatever the signal says)
ResultAlone(c, answer) == answer
\* exec: once its signal has fired a call is aborted, whatever the run has come to; spawn does not look at it again.
Seen(c, answer) == IF cmd[c].kind = "exec" /\ cmd[c].fired THEN "aborted" ELSE answer

\* exec and spawn of the telemetry; a listener of the start event that throws ends the call before it has begun.
Start(c) ==
    /\ cmd[c].pc = "new"
    /\ announced' = [announced EXCEPT ![c].start = 1]
    /\ \/ cmd' = At(c, "assets") /\ UNCHANGED thrown
       \/ Throws /\ cmd' = [cmd EXCEPT ![c].pc = "done", ![c].answer = "rejected"]
    /\ UNCHANGED <<queue, lane, hit>>

\* terminal and spawn of the client: the request takes its place in the queue.
Request(c) == cmd' = At(c, "queued") /\ queue' = Append(queue, c)

\* ensureRuntimeForCommand has what it needs: the request is queued, unless the signal has fired.
Enter(c) ==
    /\ cmd[c].pc = "assets"
    /\ IF cmd[c].fired
         THEN Answer(c, "aborted") /\ UNCHANGED queue
         ELSE Request(c) /\ UNCHANGED <<announced, thrown>>
    /\ UNCHANGED <<lane, hit>>

\* The files of a language cannot be had; spawn does not ask for any.
NoRuntime(c) ==
    /\ cmd[c].pc = "assets" /\ cmd[c].kind = "exec"
    /\ Answer(c, "rejected")
    /\ UNCHANGED <<queue, lane, hit>>

\* The host takes the first request; a background process is answered by the same lane.
Deliver ==
    /\ queue # <<>> /\ lane = None
    /\ lane' = Head(queue) /\ queue' = Tail(queue)
    /\ cmd' = IF cmd[lane'].pc = "queued" THEN At(lane', "running") ELSE cmd
    /\ UNCHANGED <<hit, announced, thrown>>

\* The run ends, its result is written and the lane is free; a call that has timed out leaves its run behind.
Ends ==
    /\ lane # None
    /\ lane' = None
    /\ cmd' = IF cmd[lane].pc = "running" THEN At(lane, "result") ELSE cmd
    /\ UNCHANGED <<queue, hit, announced, thrown>>

\* The page has polled the result.
TakeResult(c) ==
    /\ cmd[c].pc = "result"
    /\ \E answer \in IF c \in hit THEN {"failed"} ELSE {"ok", "failed"}: Answer(c, Seen(c, answer))
    /\ UNCHANGED <<queue, lane, hit>>

\* The time limit of the client, for the delivery and for the result: exec answers it, spawn is rejected by it.
TimesOut(c) ==
    /\ cmd[c].pc \in {"queued", "running", "result"}
    /\ Answer(c, Seen(c, IF cmd[c].kind = "exec" THEN "timeout" ELSE "rejected"))
    /\ IF c \in ToSet(queue)
         THEN \E i \in DOMAIN queue: queue[i] = c /\ queue' = RemoveAt(queue, i)
         ELSE UNCHANGED queue
    /\ UNCHANGED <<lane, hit>>

\* interruptDirect: without a request that waits, it reaches whatever run the host has begun.
InterruptDirect == hit' = IF queue = <<>> /\ lane # None THEN hit \cup {lane} ELSE hit

\* The signal of a call; only exec listens, from its request to its answer.
Abort(c) ==
    /\ cmd[c].pc \notin {"new", "done"} /\ ~cmd[c].fired
    /\ cmd' = [cmd EXCEPT ![c].fired = TRUE]
    /\ IF cmd[c].kind = "exec" /\ cmd[c].pc # "assets" THEN InterruptDirect ELSE UNCHANGED hit
    /\ UNCHANGED <<queue, lane, announced, thrown>>

\* SIGTERM or SIGKILL for an interactive terminal takes the same way.
TerminalSignal ==
    /\ lane # None
    /\ InterruptDirect
    /\ UNCHANGED <<cmd, queue, lane, announced, thrown>>

Next ==
    \/ \E c \in Call: Start(c) \/ Enter(c) \/ NoRuntime(c) \/ TakeResult(c) \/ TimesOut(c) \/ Abort(c)
    \/ Deliver \/ Ends \/ TerminalSignal

Spec == Init /\ [][Next]_commandVars

-----------------------------------------------------------------------------

\* A call of exec whose signal fired before its answer is never reported as done or as timed out, whether the signal came
\* while it waited for its language, in the queue, during the run or after it (terminal-executor.ts:111).
AbortedIsTold == \A c \in Call: cmd[c].kind = "exec" /\ cmd[c].fired => cmd[c].answer \in {None, "aborted", "rejected"}

\* Every call that is over has been announced once, start and finish, also when it is rejected; only a listener that throws
\* makes it none or two (service-runtime.ts:70).
AnnouncedOnce ==
    \A c \in Call: cmd[c].pc = "done" => announced[c].start = 1 /\ (thrown = 0 => announced[c].finish = 1)
=============================================================================
