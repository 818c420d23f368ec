--------------------------------- MODULE GitWorld --------------------------------
(***************************************************************************)
(* The git command of the execution world (engine/host/git-world.ts) on     *)
(* isomorphic-git, an external library that is known here by the steps it   *)
(* takes: reads and writes of the repository, and HTTP requests.  A cancel  *)
(* answers a network command at once; what the library was doing goes on    *)
(* behind it, and the next command of the shell may run beside it.          *)
(***************************************************************************)
EXTENDS Naturals, Sequences, SequencesExt

CONSTANTS
    MaxCommand,  \* bound: commands typed, one after the other
    MaxTrouble   \* bound: steps that fail

VARIABLES
    command,     \* per command: what it asks, the library's steps, its answer, whether it was cancelled
    requests,    \* the HTTP requests that began, by the number of their command
    trouble

gitVars == <<command, requests, trouble>>

Git == 1..MaxCommand

\* The steps of each operation: "read" and "write" of the repository, "config" of the remote, "http".
Steps == [
    init     |-> <<"write">>,
    status   |-> <<"read", "read">>,
    diff     |-> <<"read">>,
    add      |-> <<"write", "write">>,
    commit   |-> <<"write", "read">>,
    log      |-> <<"read">>,
    branch   |-> <<"write">>,
    branches |-> <<"read", "read">>,
    checkout |-> <<"write">>,
    create   |-> <<"write", "write">>,
    clone    |-> <<"http", "http", "write">>,
    fetch    |-> <<"http", "http", "write">>,
    origin   |-> <<"config", "http", "http", "write">>]

Operations == DOMAIN Steps
Network == {"clone", "fetch", "origin"}

Unasked == [op |-> "none", step |-> 0, busy |-> FALSE, sending |-> FALSE, cancelled |-> FALSE, code |-> "none"]

TypeOK ==
    /\ \A c \in Git:
        /\ command[c].op \in Operations \cup {"none", "refused"} /\ command[c].step \in 0..4
        /\ command[c].code \in {"none", "ok", "failed", "cancelled", "usage", "remote"}
    /\ requests \in Seq(Git) /\ trouble \in 0..MaxTrouble

Init == command = [c \in Git |-> Unasked] /\ requests = <<>> /\ trouble = 0

Trouble == trouble < MaxTrouble /\ trouble' = trouble + 1
Open(c) == command[c].op # "none" /\ command[c].code = "none"
Step(c) == Steps[command[c].op][command[c].step + 1]

\* The shell runs one command at a time.
Typed(c) == command[c].op = "none" /\ \A b \in Git: b < c => command[b].code # "none"

\* usage, and validRemote of a URL that is given: nothing begins.
Refuse(c, code) ==
    /\ Typed(c)
    /\ command' = [command EXCEPT ![c].op = "refused", ![c].code = code]
    /\ UNCHANGED <<requests, trouble>>

\* runGitCommand: the library is called.
Begin(c, op) ==
    /\ Typed(c)
    /\ command' = [command EXCEPT ![c].op = op, ![c].busy = TRUE]
    /\ UNCHANGED <<requests, trouble>>

\* commandError: what the shell is told of an error.
Told(c) == IF command[c].cancelled THEN "cancelled" ELSE "failed"

\* The library has thrown: the command answers unless it has, and the library is done with it.
Thrown(c, code) ==
    command' = [command EXCEPT ![c].busy = FALSE, ![c].sending = FALSE, ![c].code = IF @ = "none" THEN code ELSE @]

\* The library has made a step; after the last one the command answers, unless it has.
Made(c) ==
    LET last == command[c].step + 1 = Len(Steps[command[c].op]) IN
    command' = [command EXCEPT ![c].step = @ + 1, ![c].busy = ~last, ![c].sending = FALSE,
                               ![c].code = IF last /\ @ = "none" THEN "ok" ELSE @]

\* A step on the repository; no signal reaches it.
Local(c) ==
    /\ command[c].busy /\ Step(c) \in {"read", "write"}
    /\ Made(c)
    /\ UNCHANGED <<requests, trouble>>

LocalFails(c) ==
    /\ command[c].busy /\ Step(c) \in {"read", "write"} /\ Trouble
    /\ Thrown(c, Told(c))
    /\ UNCHANGED requests

\* configuredRemote: the remote of the configuration is looked up and tested; without a good one the command ends. A cancel
\* that came meanwhile answers once the operation has been called.
Config(c) ==
    /\ command[c].busy /\ Step(c) = "config"
    /\ \/ command' = [command EXCEPT ![c].step = @ + 1, ![c].code = IF command[c].cancelled THEN "cancelled" ELSE @]
       \/ Thrown(c, "remote")
    /\ UNCHANGED <<requests, trouble>>

\* (mutant: the signal is handed to fetch and not looked at before)
MayAlwaysSend(c) == TRUE
\* httpWithAbort.request
MaySend(c) == ~command[c].cancelled

\* A request begins, or is refused because the command was cancelled.
Send(c) ==
    /\ command[c].busy /\ Step(c) = "http" /\ ~command[c].sending
    /\ IF MaySend(c)
         THEN command' = [command EXCEPT ![c].sending = TRUE] /\ requests' = Append(requests, c)
         ELSE Thrown(c, Told(c)) /\ UNCHANGED requests
    /\ UNCHANGED trouble

\* The answer of the server; or the signal ends the fetch, or the network does.
Answered(c) ==
    /\ command[c].busy /\ command[c].sending
    /\ \/ Made(c) /\ UNCHANGED trouble
       \/ command[c].cancelled /\ Thrown(c, Told(c)) /\ UNCHANGED trouble
       \/ Trouble /\ Thrown(c, Told(c))
    /\ UNCHANGED requests

\* (mutant: the cancel is a success of the command)
AnswersOk(c) == "ok"
\* What abortable's rejection makes of the command.
Interrupted(c) == "cancelled"

\* The signal: a network operation is answered at once (abortable), the others see it when they fail.
Cancel(c) ==
    /\ Open(c) /\ ~command[c].cancelled
    /\ command' = [command EXCEPT ![c].cancelled = TRUE,
                      ![c].code = IF command[c].op \in Network /\ Step(c) # "config" THEN Interrupted(c) ELSE @]
    /\ UNCHANGED <<requests, trouble>>

Next ==
    \E c \in Git:
        \/ \E code \in {"usage", "remote"}: Refuse(c, code)
        \/ \E op \in Operations: Begin(c, op)
        \/ Local(c) \/ LocalFails(c) \/ Config(c) \/ Send(c) \/ Answered(c) \/ Cancel(c)

Spec == Init /\ [][Next]_gitVars

-----------------------------------------------------------------------------

\* No request begins for a command that was cancelled, though the library goes on behind it and does not know
\* (git-world.ts:105).
CancelledSendsNothing == [][Len(requests') > Len(requests) => ~command[Last(requests')].cancelled]_gitVars

\* A command that answers with success has made every step it stands for: an error in the middle of several writes, or a
\* cancel, is never reported as one.
SuccessIsWhole ==
    \A c \in Git: command[c].code = "ok" => command[c].step = Len(Steps[command[c].op])
=============================================================================
