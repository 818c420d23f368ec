-------------------------------- MODULE SystemLog --------------------------------
(***************************************************************************)
(* The system log of the page (src/log.ts): lines are appended by reading   *)
(* the whole file and writing it back, one call after the other along a     *)
(* chain of promises; `log clear` waits for the chain as it is and then     *)
(* writes the empty file itself.  A line is the number of its call.         *)
(***************************************************************************)
EXTENDS Naturals, Sequences, SequencesExt

CONSTANTS
    MaxLog,    \* bound: calls of log
    MaxLines,  \* the size at which the file is cut, in lines
    MaxMiss    \* bound: file operations that fail

VARIABLES
    logFile,   \* the lines in /var/log/succinix.log
    logged,    \* calls of log so far
    chain,     \* calls that wait or are under way, in their order
    before,    \* per call under way: the file as its doLog has read it
    clearing,  \* clearLog: where it is and the calls it has waited for
    missed

logVars == <<logFile, logged, chain, before, clearing, missed>>

Unread == <<0>>
Idle == [pc |-> "idle", upto |-> 0]

TypeOK ==
    /\ logFile \in Seq(1..MaxLog) /\ Len(logFile) <= MaxLines
    /\ chain \in Seq(1..MaxLog) /\ logged \in 0..MaxLog
    /\ clearing \in [pc: {"idle", "waiting", "done"}, upto: 0..MaxLog]

Init ==
    /\ logFile = <<>> /\ logged = 0 /\ chain = <<>> /\ missed = 0
    /\ before = [n \in 1..MaxLog |-> Unread]
    /\ clearing = Idle

Fault == missed < MaxMiss /\ missed' = missed + 1

\* log: the call takes its place in the chain; nobody has to wait for it.
Log ==
    /\ logged < MaxLog
    /\ logged' = logged + 1
    /\ chain' = Append(chain, logged')
    /\ UNCHANGED <<logFile, before, clearing, missed>>

\* (mutant: doLog runs at once, beside the ones before it)
AnyInChain(n) == n \in ToSet(chain)
\* A call's doLog runs when the ones before it have ended.
Turn(n) == chain # <<>> /\ n = Head(chain)

\* doLog reads the file; one that cannot be read counts as empty.
Read(n) ==
    /\ Turn(n) /\ before[n] = Unread
    /\ \/ before' = [before EXCEPT ![n] = logFile] /\ UNCHANGED missed
       \/ Fault /\ before' = [before EXCEPT ![n] = <<>>]
    /\ UNCHANGED <<logFile, logged, chain, clearing>>

\* What is over the limit is cut off at the front, at the start of a line.
Rotated(lines) == SubSeq(lines, IF Len(lines) > MaxLines THEN Len(lines) - MaxLines + 1 ELSE 1, Len(lines))

\* doLog writes it back with its line; a failure is caught, and the chain goes on.
Write(n) ==
    /\ Turn(n) /\ before[n] # Unread
    /\ \/ logFile' = Rotated(Append(before[n], n)) /\ UNCHANGED missed
       \/ Fault /\ UNCHANGED logFile
    /\ \E i \in DOMAIN chain: chain[i] = n /\ chain' = RemoveAt(chain, i)
    /\ before' = [before EXCEPT ![n] = Unread]
    /\ UNCHANGED <<logged, clearing>>

\* clearLog: flushLogs awaits the chain that is there now.
Clear ==
    /\ clearing.pc # "waiting"
    /\ clearing' = [pc |-> "waiting", upto |-> logged]
    /\ UNCHANGED <<logFile, logged, chain, before, missed>>

\* (mutant: clear does not wait for the chain)
AlwaysFlushed(upto) == TRUE
\* flushLogs resolves: what was in the chain when it was called has ended.
Flushed(upto) == \A n \in ToSet(chain): n > upto

\* clearLog writes the empty file, beside the chain.
Empty ==
    /\ clearing.pc = "waiting" /\ Flushed(clearing.upto)
    /\ logFile' = <<>>
    /\ clearing' = [clearing EXCEPT !.pc = "done"]
    /\ UNCHANGED <<logged, chain, before, missed>>

Next == Log \/ (\E n \in 1..MaxLog: Read(n) \/ Write(n)) \/ Clear \/ Empty

Spec == Init /\ [][Next]_logVars

-----------------------------------------------------------------------------

\* The lines are in the order of their calls, whatever fails, is cut or cleared meanwhile (log.ts:18: "lines reach the disk
\* in the order of the calls").
LinesInOrder == \A i, j \in DOMAIN logFile: i < j => logFile[i] < logFile[j]

\* A line leaves the file from the front, when the file is cut, or together with every other one: by a clear or after a
\* read that failed. No append drops what another append has written.
NothingDropped ==
    [][\A n \in ToSet(logFile) \ ToSet(logFile'):
          \/ Len(logFile') <= 1
          \/ n = Head(logFile) /\ Len(logFile') = MaxLines]_logVars

\* A clear that no other call meets empties the file for good: what was on its way when it was called has been written
\* before, and nothing brings an old line back (log.ts:94). A reader waits in the same way (log.ts:84).
QuietClearEmpties == clearing.pc = "done" /\ logged = clearing.upto => logFile = <<>>

\* The comment of clearLog: serial with the chain, so that "a residual write does not bring the emptied file back"
\* (log.ts:92). Once it is over, no line of before the clear is in the file.
ClearedStaysCleared == clearing.pc = "done" => \A n \in ToSet(logFile): n > clearing.upto
=============================================================================
