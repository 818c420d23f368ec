--------------------------- MODULE HostRuntimesProofs ---------------------------
(***************************************************************************)
(* Proofs about the language runtimes, the processes and the terminal hub  *)
(* of the host: the answers and the daemon of Python, the files of Ruby,   *)
(* the table of processes, the output and the input of a terminal. Each    *)
(* has an inductive invariant of its own; the last section puts them       *)
(* together, for the steps of one leave the others alone.                  *)
(***************************************************************************)
EXTENDS HostRuntimes, TLAPS, FiniteSetTheorems, SequenceTheorems

-----------------------------------------------------------------------------
(* The Python runtime (PythonRuntime).                                     *)

Assets == 0..Python!Complete
JobOrNone == Python!Jobs \union {Python!NoJob}
CallPcs == {"new", "injecting", "sent", "starting", "pending", "done"}
CallRecord == [pc : CallPcs, job : JobOrNone, ready : 0..MaxDaemon, id : Nat, by : 0..MaxCall]
Line == [id : Nat, call : Python!Calls, job : JobOrNone]
ProcRecord == [st : {"none", "loading", "up", "dead"}, ready : {"waiting", "ok", "failed"}, told : BOOLEAN, inbox : Seq(Line),
               step : {"idle", "erasing", "written"}, outbox : Seq(Line), exitSeen : BOOLEAN]
SiteStates == {"none", "partial", "whole"}

PythonType ==
    /\ assets \in Assets /\ injectingPython \in BOOLEAN
    /\ call \in [Python!Calls -> CallRecord]
    /\ client \in [child : 0..MaxDaemon, ready : 0..MaxDaemon, nextId : Nat \ {0}]
    /\ proc \in [Python!Daemons -> ProcRecord]
    /\ site \in [Packages -> SiteStates] /\ manifest \in SUBSET Packages /\ faults \in 0..MaxFault

\* A daemon that is in the middle of pip has a request before it.
AtWork == \A d \in Python!Daemons: proc[d].step # "idle" => proc[d].inbox # <<>>

\* The commands that were handed to a daemon have had an id each, and there are no more ids than such commands.
Handed == {c \in Python!Calls: call[c].pc \in {"pending", "done"}}
IdsAreGiven ==
    /\ client.nextId <= Cardinality(Handed) + 1
    /\ \A c \in Python!Calls: call[c].id < client.nextId

LinesOf(d) == {proc[d].inbox[k] : k \in 1..Len(proc[d].inbox)} \union {proc[d].outbox[k] : k \in 1..Len(proc[d].outbox)}

\* A line is a command's own, also among the lines of a daemon that was replaced: no other command that is pending has its id.
LineIsOwn(line) ==
    /\ line.id < client.nextId
    /\ \A c \in Python!Calls: call[c].pc = "pending" /\ call[c].id = line.id => c = line.call
LinesAreOwn == \A d \in Python!Daemons: \A line \in LinesOf(d): LineIsOwn(line)

AnswerIsOwn == \A c \in Python!Calls: call[c].by \in {0, c}

PythonInv == PythonType /\ AtWork /\ IdsAreGiven /\ LinesAreOwn /\ AnswerIsOwn

\* The bounds of the commands and the daemons.
LEMMA PythonBounds == MaxCall \in Nat /\ MaxDaemon \in Nat /\ MaxFault \in Nat
BY RuntimesAssumption

\* The sizes of the module of Python are those of sets.
LEMMA SizeIsCardinality == \A S : Python!Cardinality(S) = Cardinality(S)
BY DEF Python!Cardinality, Cardinality

\* A number has its place in a finite set of numbers, and no other number has it.
LEMMA PlacesAreDistinct ==
    ASSUME NEW n \in Nat, NEW S \in SUBSET (1..n)
    PROVE  /\ Cardinality(S) \in Nat
           /\ \A l \in S : Cardinality({k \in S : k <= l}) \in 1..Cardinality(S)
           /\ \A l, m \in S : Cardinality({k \in S : k <= l}) = Cardinality({k \in S : k <= m}) => l = m
           /\ \A i \in 1..Cardinality(S) : \E l \in S : Cardinality({k \in S : k <= l}) = i
<1> DEFINE Upto(l) == {k \in S : k <= l}
           N == Cardinality(S)
<1>1. IsFiniteSet(1..n)
  BY FS_Interval
<1>2. IsFiniteSet(S) /\ N \in Nat
  BY <1>1, FS_Subset, FS_CardinalityType
<1>3. ASSUME NEW l \in S
      PROVE  IsFiniteSet(Upto(l)) /\ Cardinality(Upto(l)) \in Nat /\ Cardinality(Upto(l)) <= Cardinality(S)
  <2>1. Upto(l) \in SUBSET S
    OBVIOUS
  <2>2. QED
    BY <1>2, <2>1, FS_Subset, FS_CardinalityType
<1>4. ASSUME NEW l \in S PROVE Cardinality(Upto(l)) # 0
  <2>1. l \in Upto(l)
    OBVIOUS
  <2>2. QED
    BY <1>3, <2>1, FS_EmptySet
<1>5. ASSUME NEW l \in S, NEW m \in S, l < m PROVE Cardinality(Upto(l)) < Cardinality(Upto(m))
  <2>0. l \in Int /\ m \in Int /\ \A k \in S : k \in Int
    OBVIOUS
  <2>a. m \in Upto(m)
    OBVIOUS
  <2>b. ASSUME NEW k \in Upto(l) PROVE k \in Upto(m) /\ k # m
    <3>1. k \in S /\ k <= l /\ k \in Int
      BY <2>0
    <3>2. k <= m /\ k # m
      BY <1>5, <2>0, <3>1
    <3>3. QED
      BY <3>1, <3>2
  <2>1. m \in Upto(m) /\ Upto(l) \in SUBSET (Upto(m) \ {m})
    BY <2>a, <2>b
  <2>2. IsFiniteSet(Upto(m) \ {m}) /\ Cardinality(Upto(m) \ {m}) = Cardinality(Upto(m)) - 1
    BY <1>3, <2>1, FS_RemoveElement
  <2>3. Cardinality(Upto(l)) <= Cardinality(Upto(m) \ {m})
    BY <2>1, <2>2, FS_Subset
  <2>4. Cardinality(Upto(l)) \in Nat /\ Cardinality(Upto(m)) \in Nat
    BY <1>3
  <2>5. QED
    BY <2>2, <2>3, <2>4
<1>6. \A l, m \in S : Cardinality(Upto(l)) = Cardinality(Upto(m)) => l = m
  <2> SUFFICES ASSUME NEW l \in S, NEW m \in S, Cardinality(Upto(l)) = Cardinality(Upto(m)), l # m PROVE FALSE
    OBVIOUS
  <2>1. l < m \/ m < l
    OBVIOUS
  <2>2. Cardinality(Upto(l)) \in Nat /\ Cardinality(Upto(m)) \in Nat
    BY <1>3
  <2>3. QED
    BY <1>5, <2>1, <2>2
<1>7. \A l \in S : Cardinality(Upto(l)) \in 1..N
  BY <1>2, <1>3, <1>4
<1> DEFINE place == [l \in S |-> Cardinality(Upto(l))]
<1>8. place \in Injection(S, 1..N)
  <2> HIDE DEF N, Upto
  <2>1. place \in [S -> 1..N] /\ \A l \in S : place[l] = Cardinality(Upto(l))
    BY <1>7
  <2>2. QED
    BY <1>6, <2>1 DEF Injection, IsInjective
<1>9. IsFiniteSet(1..N) /\ Cardinality(1..N) = N
  BY <1>2, FS_Interval
<1>10. place \in Surjection(S, 1..N)
  <2> HIDE DEF place
  <2>1. QED
    BY <1>8, <1>9, FS_Injection
<1>11. \A i \in 1..N : \E l \in S : Cardinality(Upto(l)) = i
  BY <1>10 DEF Surjection
<1>12. QED
  BY <1>2, <1>6, <1>7, <1>11

\* The invariant holds of the initial states: the page knows no command and no daemon.
LEMMA PythonStart == Python!Init => PythonInv
<1> SUFFICES ASSUME Python!Init PROVE PythonInv
  OBVIOUS
<1> USE PythonBounds
<1>1. PythonType
  <2>1. Python!NoCall \in CallRecord
    BY DEF Python!NoCall, CallRecord, CallPcs, JobOrNone
  <2>2. Python!NoProc \in ProcRecord
    BY DEF Python!NoProc, ProcRecord
  <2>3. call \in [Python!Calls -> CallRecord] /\ proc \in [Python!Daemons -> ProcRecord]
    BY <2>1, <2>2 DEF Python!Init
  <2>4. client \in [child : 0..MaxDaemon, ready : 0..MaxDaemon, nextId : Nat \ {0}]
    BY DEF Python!Init
  <2>5. assets \in Assets /\ faults \in 0..MaxFault /\ site \in [Packages -> SiteStates] /\ manifest \in SUBSET Packages
    BY DEF Python!Init, Assets, Python!Complete, SiteStates
  <2>6. injectingPython \in BOOLEAN
    BY DEF Python!Init
  <2>7. QED
    BY <2>3, <2>4, <2>5, <2>6 DEF PythonType
<1>2. AtWork /\ LinesAreOwn
  BY DEF Python!Init, Python!NoProc, AtWork, LinesAreOwn, LinesOf
<1>3. IdsAreGiven
  <2>1. Handed \in SUBSET Python!Calls /\ IsFiniteSet(Python!Calls)
    BY FS_Interval DEF Handed, Python!Calls
  <2>2. Cardinality(Handed) \in Nat
    BY <2>1, FS_Subset, FS_CardinalityType
  <2>3. client.nextId = 1 /\ \A c \in Python!Calls : call[c].id = 0
    BY DEF Python!Init, Python!NoCall
  <2>4. QED
    BY <2>2, <2>3 DEF IdsAreGiven
<1>4. AnswerIsOwn
  BY DEF Python!Init, Python!NoCall, AnswerIsOwn
<1>5. QED
  BY <1>1, <1>2, <1>3, <1>4 DEF PythonInv

-----------------------------------------------------------------------------
(* What a step does with the commands and the lines.                       *)

\* No command gets an id, none that was handed over becomes another than done.
CallsStay ==
    \A c \in Python!Calls:
        /\ call'[c].id \in {0, call[c].id}
        /\ call'[c].pc = "pending" => call[c].pc = "pending" /\ call'[c].id = call[c].id
        /\ call[c].pc \in {"pending", "done"} => call'[c].pc \in {"pending", "done"}

\* No line is written by the client.
LinesStay == \A d \in Python!Daemons: LinesOf(d)' \subseteq LinesOf(d)

\* The handed over commands are finitely many.
LEMMA HandedIsFinite == IsFiniteSet(Handed) /\ Cardinality(Handed) \in Nat /\ Cardinality(Handed) <= MaxCall
<1>1. IsFiniteSet(Python!Calls) /\ Cardinality(Python!Calls) = MaxCall /\ Handed \in SUBSET Python!Calls
  BY FS_Interval, PythonBounds DEF Handed, Python!Calls
<1>2. QED
  BY <1>1, FS_Subset, FS_CardinalityType

\* The lines of a daemon are lines.
LEMMA LinesAreLines == PythonType => \A d \in Python!Daemons: \A line \in LinesOf(d): line \in Line
<1> SUFFICES ASSUME PythonType, NEW d \in Python!Daemons PROVE \A line \in LinesOf(d): line \in Line
  OBVIOUS
<1>1. proc[d].inbox \in Seq(Line) /\ proc[d].outbox \in Seq(Line)
  BY DEF PythonType, ProcRecord
<1>2. QED
  BY <1>1, ElementOfSeq DEF LinesOf

\* A step that neither gives an id nor writes a line keeps what the ids and the lines promise.
LEMMA IdsStay ==
    ASSUME PythonType, PythonType', IdsAreGiven, LinesAreOwn, client'.nextId = client.nextId, CallsStay, LinesStay
    PROVE  IdsAreGiven' /\ LinesAreOwn'
<1>1. Handed \subseteq Handed'
  BY DEF Handed, CallsStay
<1>2. IsFiniteSet(Handed') /\ Cardinality(Handed') \in Nat
  <2>1. IsFiniteSet(Python!Calls) /\ Handed' \in SUBSET Python!Calls
    BY FS_Interval, PythonBounds DEF Handed, Python!Calls
  <2>2. QED
    BY <2>1, FS_Subset, FS_CardinalityType
<1>3. Cardinality(Handed) <= Cardinality(Handed')
  BY <1>1, <1>2, FS_Subset
<1>4. client.nextId \in Nat \ {0} /\ Cardinality(Handed) \in Nat
  BY HandedIsFinite DEF PythonType
<1>5. IdsAreGiven'
  BY <1>2, <1>3, <1>4 DEF IdsAreGiven, CallsStay
<1>6. \A line : LineIsOwn(line) => LineIsOwn(line)'
  BY DEF LineIsOwn, CallsStay
<1>7. LinesAreOwn'
  BY <1>6 DEF LinesAreOwn, LinesStay
<1>8. QED
  BY <1>5, <1>7

\* The client's write to the daemon: what it gives to the commands that wait, and what it sends.
WriteMoves(waiting, procs) ==
    /\ call' \in [Python!Calls -> CallRecord]
    /\ client' = [client EXCEPT !.nextId = @ + Cardinality(waiting)] /\ Cardinality(waiting) \in Nat
    /\ \A c \in Python!Calls \ waiting: call'[c] = call[c]
    /\ \A c \in waiting: /\ call'[c].pc = "pending" /\ call'[c].by = call[c].by
                         /\ call'[c].id \in Nat /\ call'[c].id >= client.nextId /\ call'[c].id < client'.nextId
    /\ proc' \in [Python!Daemons -> ProcRecord]
    /\ \A d \in Python!Daemons:
         /\ proc'[d].step = procs[d].step /\ (proc'[d].inbox = <<>> => procs[d].inbox = <<>>)
         /\ \A line \in LinesOf(d)': line \in LinesOf(d) \/ (line.id \in Nat /\ line.id >= client.nextId /\ LineIsOwn(line)')

\* Every command that waits is pending under its own id, and each line that is written carries the id of its command.
LEMMA WriteAllMoves ==
    ASSUME PythonInv, NEW waiting \in SUBSET Python!Calls, NEW procs \in [Python!Daemons -> ProcRecord],
           \A d \in Python!Daemons: procs[d].inbox = proc[d].inbox /\ procs[d].outbox = proc[d].outbox,
           Python!WriteAll(waiting, procs)
    PROVE  WriteMoves(waiting, procs)
<1> DEFINE n == Python!Cardinality(waiting)
           place(c) == Python!Cardinality({b \in waiting : b <= c})
           nth(i) == CHOOSE c \in waiting : place(c) = i
           id(i) == client.nextId + i - 1
           lines == [i \in 1..n |-> [id |-> id(i), call |-> nth(i), job |-> call[nth(i)].job]]
<1>0. PythonType /\ IdsAreGiven /\ client.nextId \in Nat \ {0} /\ MaxCall \in Nat
  BY PythonBounds DEF PythonInv, PythonType
<1>1. /\ n \in Nat
      /\ \A c \in waiting : place(c) \in 1..n
      /\ \A b, c \in waiting : place(b) = place(c) => b = c
      /\ \A i \in 1..n : \E c \in waiting : place(c) = i
  <2>1. n = Cardinality(waiting) /\ \A c : place(c) = Cardinality({b \in waiting : b <= c})
    BY SizeIsCardinality
  <2>2. waiting \in SUBSET (1..MaxCall)
    BY DEF Python!Calls
  <2>3. /\ Cardinality(waiting) \in Nat
        /\ \A l \in waiting : Cardinality({k \in waiting : k <= l}) \in 1..Cardinality(waiting)
        /\ \A l, m \in waiting :
              Cardinality({k \in waiting : k <= l}) = Cardinality({k \in waiting : k <= m}) => l = m
        /\ \A i \in 1..Cardinality(waiting) : \E l \in waiting : Cardinality({k \in waiting : k <= l}) = i
    BY <1>0, <2>2, PlacesAreDistinct
  <2> HIDE DEF n, place
  <2>4. QED
    BY <2>1, <2>3
<1>2. /\ call' = [c \in Python!Calls |-> IF c \in waiting
                  THEN [call[c] EXCEPT !.pc = "pending", !.ready = 0, !.id = id(place(c))] ELSE call[c]]
      /\ client' = [client EXCEPT !.nextId = @ + n]
      /\ proc' = [d \in Python!Daemons |->
                  IF d = client.child /\ procs[d].st # "dead" THEN [procs[d] EXCEPT !.inbox = @ \o lines] ELSE procs[d]]
  BY Zenon DEF Python!WriteAll
<1>3. \A i \in 1..n : nth(i) \in waiting /\ place(nth(i)) = i
  <2> HIDE DEF place
  <2>1. QED
    BY <1>1
<1>4. \A i \in 1..n : id(i) \in Nat /\ id(i) >= client.nextId /\ id(i) < client.nextId + n
  BY <1>0, <1>1
<1>5. client'.nextId = client.nextId + n
  BY <1>0, <1>2 DEF PythonType
<1> HIDE DEF n, place, nth, id
<1>6. /\ call' \in [Python!Calls -> CallRecord]
      /\ \A c \in Python!Calls \ waiting: call'[c] = call[c]
      /\ \A c \in waiting: /\ call'[c].pc = "pending" /\ call'[c].by = call[c].by /\ call'[c].id = id(place(c))
  <2>1. call \in [Python!Calls -> CallRecord]
    BY <1>0 DEF PythonType
  <2>2. \A c \in waiting : id(place(c)) \in Nat
    BY <1>1, <1>4
  <2>3. "pending" \in CallPcs /\ 0 \in 0..MaxDaemon
    BY PythonBounds DEF CallPcs
  <2>4. QED
    BY <1>2, <2>1, <2>2, <2>3 DEF CallRecord
<1>7. \A c \in waiting: call'[c].id \in Nat /\ call'[c].id >= client.nextId /\ call'[c].id < client'.nextId
  BY <1>1, <1>4, <1>5, <1>6
<1>8. \A i \in 1..n : [id |-> id(i), call |-> nth(i), job |-> call[nth(i)].job] \in Line
  <2>1. \A i \in 1..n : id(i) \in Nat /\ nth(i) \in Python!Calls /\ call[nth(i)].job \in JobOrNone
    BY <1>0, <1>3, <1>4 DEF PythonType, CallRecord
  <2>2. QED
    BY <2>1 DEF Line
<1>9. /\ lines \in Seq(Line) /\ Len(lines) = n
      /\ \A i \in 1..n : lines[i].id = id(i) /\ lines[i].call = nth(i)
  <2>1. lines \in [1..n -> Line]
    BY <1>8
  <2>2. QED
    BY <1>1, <2>1
<1> HIDE DEF lines
<1>10. \A line : (\E i \in 1..n : line = lines[i]) => line.id \in Nat /\ line.id >= client.nextId /\ LineIsOwn(line)'
  <2> SUFFICES ASSUME NEW line, NEW i \in 1..n, line = lines[i]
               PROVE  line.id \in Nat /\ line.id >= client.nextId /\ LineIsOwn(line)'
    OBVIOUS
  <2>1. line.id = id(i) /\ line.call = nth(i) /\ id(i) \in Nat /\ id(i) >= client.nextId /\ id(i) < client'.nextId
    BY <1>4, <1>5, <1>9
  <2>2. ASSUME NEW c \in Python!Calls, call'[c].id = id(i) PROVE c = nth(i)
    <3>1. c \in waiting
      <4>1. c \notin waiting => call[c].id < client.nextId /\ call'[c] = call[c] /\ call[c].id \in Nat
        BY <1>0, <1>6 DEF IdsAreGiven, PythonType, CallRecord
      <4>2. QED
        BY <1>0, <2>1, <2>2, <4>1
    <3>2. id(place(c)) = id(i) /\ place(c) \in 1..n
      BY <1>1, <1>6, <2>2, <3>1
    <3>3. place(c) = i
      BY <1>0, <3>2 DEF id
    <3>4. QED
      BY <1>1, <1>3, <3>1, <3>3
  <2>3. QED
    BY <2>1, <2>2 DEF LineIsOwn
<1>11. ASSUME NEW d \in Python!Daemons
       PROVE  /\ proc'[d] \in ProcRecord
              /\ proc'[d].step = procs[d].step /\ (proc'[d].inbox = <<>> => procs[d].inbox = <<>>)
              /\ \A line \in LinesOf(d)':
                    line \in LinesOf(d) \/ (line.id \in Nat /\ line.id >= client.nextId /\ LineIsOwn(line)')
  <2> DEFINE in == procs[d].inbox
  <2>1. procs[d] \in ProcRecord /\ in \in Seq(Line) /\ in = proc[d].inbox /\ procs[d].outbox = proc[d].outbox
    BY DEF ProcRecord
  <2> HIDE DEF in
  <2>2. CASE proc'[d] = procs[d]
    BY <2>1, <2>2 DEF LinesOf, in
  <2>3. CASE proc'[d] = [procs[d] EXCEPT !.inbox = in \o lines]
    <3>1. /\ in \o lines \in Seq(Line) /\ Len(in \o lines) = Len(in) + n
          /\ Len(in) \in Nat
          /\ \A k \in 1..(Len(in) + n) : (in \o lines)[k] = IF k <= Len(in) THEN in[k] ELSE lines[k - Len(in)]
      BY <1>9, <2>1, ConcatProperties, LenProperties
    <3>2. /\ proc'[d] \in ProcRecord /\ proc'[d].step = procs[d].step /\ proc'[d].inbox = in \o lines
          /\ proc'[d].outbox = proc[d].outbox
      BY <2>1, <2>3, <3>1 DEF ProcRecord
    <3>3. in \o lines = <<>> => in = <<>>
      BY <1>9, <2>1, ConcatEqualIffEmpty
    <3>4. ASSUME NEW line \in LinesOf(d)'
          PROVE  line \in LinesOf(d) \/ (line.id \in Nat /\ line.id >= client.nextId /\ LineIsOwn(line)')
      <4>1. CASE line \in {proc[d].outbox[k] : k \in 1..Len(proc[d].outbox)}
        BY <4>1 DEF LinesOf
      <4>2. CASE line \in {(in \o lines)[k] : k \in 1..Len(in \o lines)}
        <5>1. PICK k \in 1..(Len(in) + n) : line = (in \o lines)[k]
          BY <3>1, <4>2
        <5>2. CASE k <= Len(in)
          <6>1. k \in 1..Len(in) /\ line = in[k]
            BY <3>1, <5>1, <5>2
          <6>2. QED
            BY <2>1, <6>1 DEF LinesOf
        <5>3. CASE ~(k <= Len(in))
          <6>1. k - Len(in) \in 1..n /\ line = lines[k - Len(in)]
            BY <1>1, <3>1, <5>1, <5>3
          <6>2. QED
            BY <1>10, <6>1
        <5>4. QED
          BY <5>2, <5>3
      <4>3. QED
        BY <3>2, <3>4, <4>1, <4>2 DEF LinesOf
    <3>5. QED
      BY <3>2, <3>3, <3>4 DEF in
  <2>4. QED
    BY <1>2, <2>2, <2>3 DEF in
<1>12. proc' \in [Python!Daemons -> ProcRecord]
  BY <1>2, <1>11
<1>13. n = Cardinality(waiting)
  BY SizeIsCardinality DEF n
<1>14. QED
  BY <1>1, <1>2, <1>6, <1>7, <1>11, <1>12, <1>13 DEF WriteMoves

\* A write keeps the invariant, whichever commands wait for it.
LEMMA WriteKeeps ==
    ASSUME PythonInv, NEW waiting \in SUBSET Python!Calls, \A c \in waiting: c \notin Handed,
           NEW procs \in [Python!Daemons -> ProcRecord],
           \A d \in Python!Daemons: /\ procs[d].inbox = proc[d].inbox /\ procs[d].outbox = proc[d].outbox
                                    /\ procs[d].step = proc[d].step,
           Python!WriteAll(waiting, procs), UNCHANGED <<assets, injectingPython, site, manifest, faults>>
    PROVE  PythonInv'
<1>1. WriteMoves(waiting, procs)
  BY WriteAllMoves
<1>2. PythonType /\ AtWork /\ IdsAreGiven /\ LinesAreOwn /\ AnswerIsOwn
  BY DEF PythonInv
<1>3. /\ client \in [child : 0..MaxDaemon, ready : 0..MaxDaemon, nextId : Nat \ {0}]
      /\ Cardinality(waiting) \in Nat /\ client' = [client EXCEPT !.nextId = @ + Cardinality(waiting)]
  BY <1>1, <1>2 DEF PythonType, WriteMoves
<1>4. /\ client' \in [child : 0..MaxDaemon, ready : 0..MaxDaemon, nextId : Nat \ {0}]
      /\ client'.nextId = client.nextId + Cardinality(waiting) /\ client.nextId \in Nat
  BY <1>3
<1>5. PythonType'
  BY <1>1, <1>2, <1>4 DEF PythonType, WriteMoves
<1>6. AtWork'
  BY <1>1, <1>2 DEF AtWork, WriteMoves
<1>7. IdsAreGiven'
  <2>1. Handed' = Handed \union waiting
    BY <1>1 DEF Handed, WriteMoves
  <2>2. IsFiniteSet(Handed) /\ Cardinality(Handed) \in Nat
    BY HandedIsFinite
  <2>3. IsFiniteSet(waiting)
    <3>1. IsFiniteSet(Python!Calls)
      BY FS_Interval, PythonBounds DEF Python!Calls
    <3>2. QED
      BY <3>1, FS_Subset
  <2>4. Handed \cap waiting = {}
    OBVIOUS
  <2>5. Cardinality(Handed') = Cardinality(Handed) + Cardinality(waiting)
    <3>1. Cardinality(Handed \union waiting) = Cardinality(Handed) + Cardinality(waiting) - Cardinality(Handed \cap waiting)
      BY <2>2, <2>3, FS_Union
    <3>2. Cardinality(Handed \cap waiting) = 0
      BY <2>4, FS_EmptySet
    <3>3. QED
      BY <1>3, <2>1, <2>2, <3>1, <3>2
  <2>6. client'.nextId <= Cardinality(Handed') + 1
    BY <1>2, <1>3, <1>4, <2>2, <2>5 DEF IdsAreGiven
  <2>7. \A c \in Python!Calls: call'[c].id < client'.nextId
    <3> SUFFICES ASSUME NEW c \in Python!Calls PROVE call'[c].id < client'.nextId
      OBVIOUS
    <3>1. CASE c \in waiting
      BY <1>1, <3>1 DEF WriteMoves
    <3>2. CASE c \notin waiting
      <4>1. call'[c] = call[c] /\ call[c].id < client.nextId /\ call[c].id \in Nat
        BY <1>1, <1>2, <3>2 DEF WriteMoves, IdsAreGiven, PythonType, CallRecord
      <4>2. QED
        BY <1>3, <1>4, <4>1
    <3>3. QED
      BY <3>1, <3>2
  <2>8. QED
    BY <2>6, <2>7 DEF IdsAreGiven
<1>8. LinesAreOwn'
  <2> SUFFICES ASSUME NEW d \in Python!Daemons, NEW line \in LinesOf(d)' PROVE LineIsOwn(line)'
    BY DEF LinesAreOwn
  <2>1. CASE line \in LinesOf(d)
    <3>1. LineIsOwn(line) /\ line.id \in Nat
      BY <1>2, <2>1, LinesAreLines DEF LinesAreOwn, Line
    <3>2. line.id < client'.nextId
      BY <1>3, <1>4, <3>1 DEF LineIsOwn
    <3>3. ASSUME NEW c \in Python!Calls, call'[c].pc = "pending", call'[c].id = line.id PROVE c = line.call
      <4>1. c \notin waiting
        BY <1>1, <1>4, <3>1, <3>3 DEF WriteMoves, LineIsOwn
      <4>2. QED
        BY <1>1, <3>1, <3>3, <4>1 DEF WriteMoves, LineIsOwn
    <3>4. QED
      BY <3>2, <3>3 DEF LineIsOwn
  <2>2. QED
    BY <1>1, <2>1 DEF WriteMoves
<1>9. AnswerIsOwn'
  BY <1>1, <1>2 DEF AnswerIsOwn, WriteMoves
<1>10. QED
  BY <1>5, <1>6, <1>7, <1>8, <1>9 DEF PythonInv

\* A step that neither gives an id nor writes a line keeps the invariant, with what it does to types and answers.
LEMMA PythonStays ==
    ASSUME PythonInv, PythonType', AtWork', client'.nextId = client.nextId, CallsStay, LinesStay, AnswerIsOwn'
    PROVE  PythonInv'
<1>1. PythonType /\ IdsAreGiven /\ LinesAreOwn
  BY DEF PythonInv
<1>2. IdsAreGiven' /\ LinesAreOwn'
  BY <1>1, IdsStay
<1>3. QED
  BY <1>2 DEF PythonInv

\* A command that is settled has the answer it was given, and no id any more.
LEMMA SettledIsDone ==
    ASSUME NEW by \in 0..MaxCall
    PROVE  /\ Python!Settled(by) \in CallRecord
           /\ Python!Settled(by).pc = "done" /\ Python!Settled(by).id = 0 /\ Python!Settled(by).by = by
<1>1. Python!NoCall \in CallRecord /\ Python!NoCall.id = 0
  BY PythonBounds DEF Python!NoCall, CallRecord, CallPcs, JobOrNone
<1>2. Python!NoCall = [pc |-> "new", job |-> Python!NoJob, ready |-> 0, id |-> 0, by |-> 0]
  BY DEF Python!NoCall
<1>3. Python!Settled(by) = [Python!NoCall EXCEPT !.pc = "done", !.by = by]
  BY DEF Python!Settled
<1>4. QED
  BY <1>1, <1>2, <1>3 DEF CallRecord, CallPcs

\* Commands that fail keep what the calls promise.
LEMMA FailuresStay ==
    ASSUME PythonInv, NEW S,
           call' = [c \in Python!Calls |-> IF c \in S THEN Python!Failed ELSE call[c]]
    PROVE  call' \in [Python!Calls -> CallRecord] /\ CallsStay /\ AnswerIsOwn'
<1>1. call \in [Python!Calls -> CallRecord] /\ AnswerIsOwn
  BY DEF PythonInv, PythonType
<1>2. /\ Python!Failed \in CallRecord /\ Python!Failed.pc = "done" /\ Python!Failed.id = 0 /\ Python!Failed.by = 0
  <2>1. 0 \in 0..MaxCall
    BY PythonBounds
  <2>2. QED
    BY <2>1, SettledIsDone DEF Python!Failed
<1>3. \A c \in Python!Calls: call'[c] = IF c \in S THEN Python!Failed ELSE call[c]
  OBVIOUS
<1>4. call' \in [Python!Calls -> CallRecord]
  BY <1>1, <1>2
<1>5. CallsStay
  BY <1>2, <1>3 DEF CallsStay
<1>6. AnswerIsOwn'
  BY <1>1, <1>2, <1>3 DEF AnswerIsOwn
<1>7. QED
  BY <1>4, <1>5, <1>6

\* A step of one daemon that leaves its lines, or takes some away.
LEMMA DaemonStays ==
    ASSUME PythonInv, NEW d \in Python!Daemons, NEW new \in ProcRecord,
           \A line \in LinesOf(d)': line \in LinesOf(d),
           proc' = [proc EXCEPT ![d] = new], new.step # "idle" => new.inbox # <<>>
    PROVE  proc' \in [Python!Daemons -> ProcRecord] /\ AtWork' /\ LinesStay
<1>1. proc \in [Python!Daemons -> ProcRecord] /\ AtWork
  BY DEF PythonInv, PythonType
<1>2. proc' \in [Python!Daemons -> ProcRecord]
  BY <1>1
<1>3. AtWork'
  BY <1>1 DEF AtWork
<1>4. \A b \in Python!Daemons : b # d => LinesOf(b)' = LinesOf(b)
  BY <1>1 DEF LinesOf
<1>5. LinesStay
  BY <1>4 DEF LinesStay
<1>6. QED
  BY <1>2, <1>3, <1>5

\* The client that forgets its child counts on.
LEMMA DisposeCountsOn ==
    ASSUME PythonInv, NEW expected
    PROVE  /\ Python!Dispose(client, expected) \in [child : 0..MaxDaemon, ready : 0..MaxDaemon, nextId : Nat \ {0}]
           /\ Python!Dispose(client, expected).nextId = client.nextId
<1>1. client \in [child : 0..MaxDaemon, ready : 0..MaxDaemon, nextId : Nat \ {0}] /\ 0 \in 0..MaxDaemon
  BY PythonBounds DEF PythonInv, PythonType
<1>2. Python!Dispose(client, expected) = client \/ Python!Dispose(client, expected) = [client EXCEPT !.child = 0, !.ready = 0]
  BY DEF Python!Dispose
<1>3. QED
  BY <1>1, <1>2

\* Where nothing happens to commands, lines or client, the types decide.
LEMMA PythonQuiet ==
    ASSUME PythonInv, PythonType', UNCHANGED client, UNCHANGED call, AtWork', LinesStay
    PROVE  PythonInv'
<1>1. CallsStay
  BY DEF CallsStay
<1>2. AnswerIsOwn'
  BY DEF AnswerIsOwn, PythonInv
<1>3. QED
  BY <1>1, <1>2, PythonStays

-----------------------------------------------------------------------------
(* The steps of the page.                                                  *)

LEMMA SubmitKeeps ==
    ASSUME PythonInv, NEW c \in Python!Calls, NEW job \in Python!Jobs, NEW atShell \in BOOLEAN, Python!Submit(c, job, atShell)
    PROVE  PythonInv'
<1>1. PythonType /\ AtWork /\ AnswerIsOwn
  BY DEF PythonInv
<1>2. call \in [Python!Calls -> CallRecord] /\ call[c].pc = "new"
  BY <1>1 DEF PythonType, Python!Submit
<1>3. UNCHANGED <<assets, client, proc, site, manifest, faults>>
  BY DEF Python!Submit
<1>4. PICK pc \in {"sent", "injecting"} : call' = [call EXCEPT ![c].pc = pc, ![c].job = job]
  BY DEF Python!Submit
<1>5. injectingPython' \in BOOLEAN
  BY <1>1 DEF Python!Submit, PythonType
<1>6. call'[c] = [call[c] EXCEPT !.pc = pc, !.job = job] /\ \A b \in Python!Calls : b # c => call'[b] = call[b]
  BY <1>2, <1>4
<1>7. call'[c].pc = pc /\ call'[c].id = call[c].id /\ call'[c].by = call[c].by /\ call'[c] \in CallRecord
  <2>1. call[c] \in CallRecord /\ job \in JobOrNone /\ pc \in CallPcs
    BY <1>2 DEF JobOrNone, CallPcs
  <2>2. QED
    BY <1>6, <2>1 DEF CallRecord
<1>8. call' \in [Python!Calls -> CallRecord]
  BY <1>2, <1>4, <1>7
<1>9. PythonType'
  BY <1>1, <1>3, <1>5, <1>8 DEF PythonType
<1>10. CallsStay
  BY <1>2, <1>6, <1>7 DEF CallsStay
<1>11. AnswerIsOwn'
  BY <1>1, <1>6, <1>7 DEF AnswerIsOwn
<1>12. AtWork' /\ LinesStay
  BY <1>1, <1>3 DEF AtWork, LinesStay, LinesOf
<1>13. QED
  BY <1>3, <1>9, <1>10, <1>11, <1>12, PythonStays

LEMMA InjectNextKeeps ==
    ASSUME PythonInv, Python!InjectNext
    PROVE  PythonInv'
<1>1. PythonType /\ AtWork /\ AnswerIsOwn
  BY DEF PythonInv
<1>2. UNCHANGED <<client, proc, site, manifest, faults>>
  BY DEF Python!InjectNext
<1>3. assets' \in Assets
  BY <1>1 DEF Python!InjectNext, PythonType, Assets, Python!Complete
<1>4. injectingPython' \in BOOLEAN
  BY DEF Python!InjectNext
<1>5. \/ call' = call
      \/ call' = [c \in Python!Calls |-> IF c \in Python!Joined THEN [call[c] EXCEPT !.pc = "sent"] ELSE call[c]]
  BY DEF Python!InjectNext
<1>6. ASSUME NEW c \in Python!Calls
      PROVE  /\ call'[c] \in CallRecord /\ call'[c].id = call[c].id /\ call'[c].by = call[c].by
             /\ call'[c].pc = call[c].pc \/ (call[c].pc = "injecting" /\ call'[c].pc = "sent")
  <2>1. call[c] \in CallRecord /\ "sent" \in CallPcs
    BY <1>1 DEF PythonType, CallPcs
  <2>2. call'[c] = call[c] \/ (call'[c] = [call[c] EXCEPT !.pc = "sent"] /\ call[c].pc = "injecting")
    BY <1>5 DEF Python!Joined
  <2>3. QED
    BY <2>1, <2>2 DEF CallRecord
<1>7. call' \in [Python!Calls -> CallRecord]
  BY <1>1, <1>5, <1>6 DEF PythonType
<1>8. PythonType'
  BY <1>1, <1>2, <1>3, <1>4, <1>7 DEF PythonType
<1>9. CallsStay
  BY <1>6 DEF CallsStay
<1>10. AnswerIsOwn'
  BY <1>1, <1>6 DEF AnswerIsOwn
<1>11. AtWork' /\ LinesStay
  BY <1>1, <1>2 DEF AtWork, LinesStay, LinesOf
<1>12. QED
  BY <1>2, <1>8, <1>9, <1>10, <1>11, PythonStays

LEMMA InjectFailsKeeps ==
    ASSUME PythonInv, Python!InjectFails
    PROVE  PythonInv'
<1>1. PythonType /\ AtWork
  BY DEF PythonInv
<1>2. UNCHANGED <<assets, client, proc, site, manifest>> /\ injectingPython' = FALSE
  BY DEF Python!InjectFails
<1>3. faults' \in 0..MaxFault
  BY <1>1, PythonBounds DEF Python!InjectFails, Python!Fault, PythonType
<1>4. call' = [c \in Python!Calls |-> IF c \in Python!Joined THEN Python!Failed ELSE call[c]]
  BY DEF Python!InjectFails
<1>5. call' \in [Python!Calls -> CallRecord] /\ CallsStay /\ AnswerIsOwn'
  BY <1>4, FailuresStay
<1>6. PythonType'
  BY <1>1, <1>2, <1>3, <1>5 DEF PythonType
<1>7. AtWork' /\ LinesStay
  BY <1>1, <1>2 DEF AtWork, LinesStay, LinesOf
<1>8. QED
  BY <1>2, <1>5, <1>6, <1>7, PythonStays

-----------------------------------------------------------------------------
(* The steps of the host.                                                  *)

LEMMA ExecKeeps ==
    ASSUME PythonInv, NEW c \in Python!Calls, Python!Exec(c)
    PROVE  PythonInv'
<1>1. PythonType /\ AtWork /\ AnswerIsOwn /\ LinesAreOwn
  BY DEF PythonInv
<1>2. /\ call \in [Python!Calls -> CallRecord] /\ call[c].pc = "sent" /\ proc \in [Python!Daemons -> ProcRecord]
      /\ client \in [child : 0..MaxDaemon, ready : 0..MaxDaemon, nextId : Nat \ {0}] /\ client.ready \in 0..MaxDaemon
  BY <1>1 DEF PythonType, Python!Exec
<1>3. UNCHANGED <<assets, injectingPython, site, manifest, faults>>
  BY DEF Python!Exec
<1>4. ASSUME NEW d \in 0..MaxDaemon, call' = [call EXCEPT ![c].pc = "starting", ![c].ready = d]
      PROVE  call' \in [Python!Calls -> CallRecord] /\ CallsStay /\ AnswerIsOwn'
  <2>1. call'[c] = [call[c] EXCEPT !.pc = "starting", !.ready = d] /\ \A b \in Python!Calls : b # c => call'[b] = call[b]
    BY <1>2, <1>4
  <2>2. call'[c].pc = "starting" /\ call'[c].id = call[c].id /\ call'[c].by = call[c].by /\ call'[c] \in CallRecord
    <3>1. call[c] \in CallRecord /\ "starting" \in CallPcs
      BY <1>2 DEF CallPcs
    <3>2. QED
      BY <2>1, <3>1 DEF CallRecord
  <2>3. call' \in [Python!Calls -> CallRecord]
    BY <1>2, <1>4, <2>2
  <2>4. CallsStay
    BY <1>2, <2>1, <2>2 DEF CallsStay
  <2>5. AnswerIsOwn'
    BY <1>1, <2>1, <2>2 DEF AnswerIsOwn
  <2>6. QED
    BY <2>3, <2>4, <2>5
<1>5. CASE call' = [call EXCEPT ![c] = Python!Failed] /\ UNCHANGED <<client, proc>>
  <2>1. call' = [b \in Python!Calls |-> IF b \in {c} THEN Python!Failed ELSE call[b]]
    BY <1>2, <1>5
  <2>2. call' \in [Python!Calls -> CallRecord] /\ CallsStay /\ AnswerIsOwn'
    BY <2>1, FailuresStay
  <2>3. PythonType'
    BY <1>1, <1>3, <1>5, <2>2 DEF PythonType
  <2>4. AtWork' /\ LinesStay
    BY <1>1, <1>5 DEF AtWork, LinesStay, LinesOf
  <2>5. QED
    BY <1>5, <2>2, <2>3, <2>4, PythonStays
<1>6. CASE Python!WriteAll({c}, proc)
  <2>1. {c} \in SUBSET Python!Calls /\ \A b \in {c} : b \notin Handed
    BY <1>2 DEF Handed
  <2>2. QED
    BY <1>2, <1>3, <1>6, <2>1, WriteKeeps
<1>7. CASE /\ call' = [call EXCEPT ![c].pc = "starting", ![c].ready = client.ready]
           /\ UNCHANGED <<client, proc>>
  <2>1. call' \in [Python!Calls -> CallRecord] /\ CallsStay /\ AnswerIsOwn'
    BY <1>2, <1>4, <1>7
  <2>2. PythonType'
    BY <1>1, <1>3, <1>7, <2>1 DEF PythonType
  <2>3. AtWork' /\ LinesStay
    BY <1>1, <1>7 DEF AtWork, LinesStay, LinesOf
  <2>4. QED
    BY <1>7, <2>1, <2>2, <2>3, PythonStays
<1>8. ASSUME NEW new \in Python!Daemons,
             proc' = [proc EXCEPT ![new].st = "loading"],
             client' = [client EXCEPT !.child = new, !.ready = new],
             call' = [call EXCEPT ![c].pc = "starting", ![c].ready = new]
      PROVE  PythonInv'
  <2>1. new \in 0..MaxDaemon
    BY PythonBounds DEF Python!Daemons
  <2>2. call' \in [Python!Calls -> CallRecord] /\ CallsStay /\ AnswerIsOwn'
    BY <1>4, <1>8, <2>1
  <2>3. client' \in [child : 0..MaxDaemon, ready : 0..MaxDaemon, nextId : Nat \ {0}] /\ client'.nextId = client.nextId
    BY <1>2, <1>8, <2>1
  <2>4. /\ [proc[new] EXCEPT !.st = "loading"] \in ProcRecord
        /\ proc' = [proc EXCEPT ![new] = [proc[new] EXCEPT !.st = "loading"]]
    BY <1>2, <1>8 DEF ProcRecord
  <2>5. /\ [proc[new] EXCEPT !.st = "loading"].step = proc[new].step
        /\ [proc[new] EXCEPT !.st = "loading"].inbox = proc[new].inbox
        /\ [proc[new] EXCEPT !.st = "loading"].outbox = proc[new].outbox
    BY <1>2 DEF ProcRecord
  <2>6. LinesOf(new)' = LinesOf(new)
    BY <1>2, <2>4, <2>5 DEF LinesOf
  <2>7. proc' \in [Python!Daemons -> ProcRecord] /\ AtWork' /\ LinesStay
    BY <1>1, <2>4, <2>5, <2>6, DaemonStays DEF AtWork
  <2>8. PythonType'
    BY <1>1, <1>3, <2>2, <2>3, <2>7 DEF PythonType
  <2>9. QED
    BY <2>2, <2>3, <2>7, <2>8, PythonStays
<1>9. \/ call' = [call EXCEPT ![c] = Python!Failed] /\ UNCHANGED <<client, proc>>
      \/ Python!WriteAll({c}, proc)
      \/ call' = [call EXCEPT ![c].pc = "starting", ![c].ready = client.ready] /\ UNCHANGED <<client, proc>>
      \/ \E new \in Python!Daemons : /\ proc' = [proc EXCEPT ![new].st = "loading"]
                                     /\ client' = [client EXCEPT !.child = new, !.ready = new]
                                     /\ call' = [call EXCEPT ![c].pc = "starting", ![c].ready = new]
  BY Zenon DEF Python!Exec
<1>10. QED
  BY <1>5, <1>6, <1>7, <1>8, <1>9

LEMMA ReadReadyKeeps ==
    ASSUME PythonInv, NEW d \in Python!Daemons, Python!ReadReady(d)
    PROVE  PythonInv'
<1> DEFINE waiting == {c \in Python!Calls : call[c].pc = "starting" /\ call[c].ready = d}
           told == [proc EXCEPT ![d].told = TRUE]
<1>1. PythonType /\ AtWork
  BY DEF PythonInv
<1>2. proc \in [Python!Daemons -> ProcRecord]
  BY <1>1 DEF PythonType
<1>3. UNCHANGED <<assets, injectingPython, site, manifest, faults>>
  BY DEF Python!ReadReady
<1>4. /\ [proc[d] EXCEPT !.told = TRUE] \in ProcRecord /\ told = [proc EXCEPT ![d] = [proc[d] EXCEPT !.told = TRUE]]
      /\ [proc[d] EXCEPT !.told = TRUE].step = proc[d].step
      /\ [proc[d] EXCEPT !.told = TRUE].inbox = proc[d].inbox
      /\ [proc[d] EXCEPT !.told = TRUE].outbox = proc[d].outbox
  BY <1>2 DEF ProcRecord
<1>5. told \in [Python!Daemons -> ProcRecord]
  BY <1>2, <1>4
<1>6. CASE Python!WriteAll(waiting, told)
  <2>1. waiting \in SUBSET Python!Calls /\ \A c \in waiting : c \notin Handed
    BY DEF Handed
  <2>2. \A b \in Python!Daemons : /\ told[b].inbox = proc[b].inbox /\ told[b].outbox = proc[b].outbox
                                  /\ told[b].step = proc[b].step
    BY <1>2, <1>4
  <2> HIDE DEF waiting, told
  <2>3. QED
    BY <1>3, <1>5, <1>6, <2>1, <2>2, WriteKeeps
<1>7. CASE /\ call' = [c \in Python!Calls |-> IF c \in waiting THEN Python!Failed ELSE call[c]]
           /\ client' = IF waiting = {} THEN client ELSE Python!Dispose(client, 0)
           /\ proc' = told
  <2>1. call' \in [Python!Calls -> CallRecord] /\ CallsStay /\ AnswerIsOwn'
    <3> HIDE DEF waiting
    <3>1. QED
      BY <1>7, FailuresStay
  <2>2. client' \in [child : 0..MaxDaemon, ready : 0..MaxDaemon, nextId : Nat \ {0}] /\ client'.nextId = client.nextId
    <3>1. client \in [child : 0..MaxDaemon, ready : 0..MaxDaemon, nextId : Nat \ {0}]
      BY <1>1 DEF PythonType
    <3>2. client' = client \/ client' = Python!Dispose(client, 0)
      BY <1>7
    <3>3. QED
      BY <3>1, <3>2, DisposeCountsOn
  <2>3. LinesOf(d)' = LinesOf(d)
    BY <1>2, <1>4, <1>7 DEF LinesOf
  <2>4. proc' \in [Python!Daemons -> ProcRecord] /\ AtWork' /\ LinesStay
    BY <1>1, <1>4, <1>7, <2>3, DaemonStays DEF AtWork
  <2>5. PythonType'
    BY <1>1, <1>3, <2>1, <2>2, <2>4 DEF PythonType
  <2>6. QED
    BY <2>1, <2>2, <2>4, <2>5, PythonStays
<1>8. \/ Python!WriteAll(waiting, told)
      \/ /\ call' = [c \in Python!Calls |-> IF c \in waiting THEN Python!Failed ELSE call[c]]
         /\ client' = IF waiting = {} THEN client ELSE Python!Dispose(client, 0)
         /\ proc' = told
  BY Zenon DEF Python!ReadReady
<1>9. QED
  BY <1>6, <1>7, <1>8

\* A daemon that is killed loses what it was to do.
LEMMA KilledStays ==
    ASSUME PythonInv, NEW d \in 0..MaxDaemon, proc' = Python!Killed(d)
    PROVE  proc' \in [Python!Daemons -> ProcRecord] /\ AtWork' /\ LinesStay
<1>1. PythonType /\ AtWork /\ proc \in [Python!Daemons -> ProcRecord]
  BY DEF PythonInv, PythonType
<1>2. CASE proc' = proc
  BY <1>1, <1>2 DEF AtWork, LinesStay, LinesOf
<1>3. CASE d # 0 /\ proc' = [proc EXCEPT ![d].st = "dead", ![d].inbox = <<>>, ![d].step = "idle"]
  <2> DEFINE new == [proc[d] EXCEPT !.st = "dead", !.inbox = <<>>, !.step = "idle"]
  <2>1. d \in Python!Daemons
    BY <1>3, PythonBounds DEF Python!Daemons
  <2>2. /\ new \in ProcRecord /\ new.step = "idle" /\ new.inbox = <<>> /\ new.outbox = proc[d].outbox
        /\ proc' = [proc EXCEPT ![d] = new]
    <3>1. proc[d] \in ProcRecord /\ <<>> \in Seq(Line)
      BY <1>1, <2>1
    <3>2. QED
      BY <1>1, <1>3, <2>1, <3>1 DEF ProcRecord
  <2>3. proc'[d] = new
    BY <1>1, <2>1, <2>2
  <2> HIDE DEF new
  <2>4. \A line \in LinesOf(d)' : line \in LinesOf(d)
    BY <2>2, <2>3 DEF LinesOf
  <2>5. QED
    BY <2>1, <2>2, <2>4, DaemonStays
<1>4. QED
  BY <1>2, <1>3 DEF Python!Killed

LEMMA TimeoutKeeps ==
    ASSUME PythonInv, NEW c \in Python!Calls, Python!Timeout(c)
    PROVE  PythonInv'
<1>1. PythonType /\ call \in [Python!Calls -> CallRecord] /\ client.child \in 0..MaxDaemon
  BY DEF PythonInv, PythonType
<1>2. UNCHANGED <<assets, injectingPython, site, manifest, faults>>
  BY DEF Python!Timeout
<1>3. proc' \in [Python!Daemons -> ProcRecord] /\ AtWork' /\ LinesStay
  <2>1. proc' = Python!Killed(client.child)
    BY DEF Python!Timeout
  <2>2. QED
    BY <1>1, <2>1, KilledStays
<1>4. client' \in [child : 0..MaxDaemon, ready : 0..MaxDaemon, nextId : Nat \ {0}] /\ client'.nextId = client.nextId
  <2>1. client' = Python!Dispose(client, client.child)
    BY DEF Python!Timeout
  <2>2. QED
    BY <2>1, DisposeCountsOn
<1>5. call' \in [Python!Calls -> CallRecord] /\ CallsStay /\ AnswerIsOwn'
  <2>1. call' = [b \in Python!Calls |-> IF b \in {c} THEN Python!Failed ELSE call[b]]
    BY <1>1 DEF Python!Timeout
  <2>2. QED
    BY <2>1, FailuresStay
<1>6. PythonType'
  BY <1>1, <1>2, <1>3, <1>4, <1>5 DEF PythonType
<1>7. QED
  BY <1>3, <1>4, <1>5, <1>6, PythonStays

LEMMA ExitEventKeeps ==
    ASSUME PythonInv, NEW d \in Python!Daemons, Python!ExitEvent(d)
    PROVE  PythonInv'
<1>1. PythonType /\ AtWork /\ proc \in [Python!Daemons -> ProcRecord]
  BY DEF PythonInv, PythonType
<1>2. UNCHANGED <<assets, injectingPython, site, manifest, faults>>
  BY DEF Python!ExitEvent
<1>3. client' \in [child : 0..MaxDaemon, ready : 0..MaxDaemon, nextId : Nat \ {0}] /\ client'.nextId = client.nextId
  <2>1. client' = Python!Dispose(client, d)
    BY DEF Python!ExitEvent
  <2>2. QED
    BY <2>1, DisposeCountsOn
<1>4. call' \in [Python!Calls -> CallRecord] /\ CallsStay /\ AnswerIsOwn'
  <2>1. call' = [c \in Python!Calls |-> IF c \in Python!Pending THEN Python!Failed ELSE call[c]]
    BY DEF Python!ExitEvent
  <2>2. QED
    BY <2>1, FailuresStay
<1>5. proc' \in [Python!Daemons -> ProcRecord] /\ AtWork' /\ LinesStay
  <2>1. proc' = [proc EXCEPT ![d].exitSeen = TRUE]
    BY DEF Python!ExitEvent
  <2>2. /\ [proc[d] EXCEPT !.exitSeen = TRUE] \in ProcRecord /\ proc' = [proc EXCEPT ![d] = [proc[d] EXCEPT !.exitSeen = TRUE]]
        /\ [proc[d] EXCEPT !.exitSeen = TRUE].step = proc[d].step
        /\ [proc[d] EXCEPT !.exitSeen = TRUE].inbox = proc[d].inbox
        /\ [proc[d] EXCEPT !.exitSeen = TRUE].outbox = proc[d].outbox
    BY <1>1, <2>1 DEF ProcRecord
  <2>3. LinesOf(d)' = LinesOf(d)
    BY <1>1, <2>2 DEF LinesOf
  <2>4. QED
    BY <1>1, <2>2, <2>3, DaemonStays DEF AtWork
<1>6. PythonType'
  BY <1>1, <1>2, <1>3, <1>4, <1>5 DEF PythonType
<1>7. QED
  BY <1>3, <1>4, <1>5, <1>6, PythonStays

\* A line of an output is read: the command that it answers, if it waits, is the line's own.
LEMMA ReadAnswerKeeps ==
    ASSUME PythonInv, NEW d \in Python!Daemons, Python!ReadAnswer(d)
    PROVE  PythonInv'
<1> DEFINE line == Head(proc[d].outbox)
           asked == {c \in Python!Pending : call[c].id = line.id}
           new == [proc[d] EXCEPT !.outbox = Tail(@)]
<1>1. PythonType /\ AtWork /\ AnswerIsOwn /\ LinesAreOwn /\ proc \in [Python!Daemons -> ProcRecord] /\ call \in [Python!Calls -> CallRecord]
  BY DEF PythonInv, PythonType
<1>2. UNCHANGED <<assets, injectingPython, client, site, manifest, faults>> /\ proc[d].outbox # <<>>
  BY DEF Python!ReadAnswer
<1>3. /\ call' = [c \in Python!Calls |-> IF c \in asked THEN Python!Settled(line.call) ELSE call[c]]
      /\ proc' = [proc EXCEPT ![d].outbox = Tail(@)]
  BY Zenon DEF Python!ReadAnswer
<1>4. proc[d].outbox \in Seq(Line) /\ proc[d].inbox \in Seq(Line)
  BY <1>1 DEF ProcRecord
<1>5. line \in Line /\ line \in LinesOf(d)
  <2>1. Len(proc[d].outbox) \in Nat \ {0} /\ line = proc[d].outbox[1]
    BY <1>2, <1>4
  <2>2. 1 \in 1..Len(proc[d].outbox)
    BY <2>1
  <2>3. line \in LinesOf(d)
    BY <2>1, <2>2 DEF LinesOf
  <2>4. QED
    BY <1>1, <2>3, LinesAreLines
<1>6. line.call \in Python!Calls /\ line.call \in 0..MaxCall
  BY <1>5, PythonBounds DEF Line, Python!Calls
<1>7. /\ Python!Settled(line.call) \in CallRecord
      /\ Python!Settled(line.call).pc = "done" /\ Python!Settled(line.call).id = 0 /\ Python!Settled(line.call).by = line.call
  <2> HIDE DEF line
  <2>1. QED
    BY <1>6, SettledIsDone
<1>8. LineIsOwn(line)
  BY <1>1, <1>5 DEF LinesAreOwn
<1>9. \A c \in asked : c = line.call /\ call[c].pc = "pending"
  BY <1>8 DEF LineIsOwn, Python!Pending
<1>10. \A c \in Python!Calls : call'[c] = IF c \in asked THEN Python!Settled(line.call) ELSE call[c]
  BY <1>3
<1> HIDE DEF line, asked
<1>11. call' \in [Python!Calls -> CallRecord]
  BY <1>1, <1>3, <1>7
<1>12. CallsStay
  BY <1>7, <1>10 DEF CallsStay
<1>13. AnswerIsOwn'
  BY <1>1, <1>7, <1>9, <1>10 DEF AnswerIsOwn
<1>14. /\ new \in ProcRecord /\ proc' = [proc EXCEPT ![d] = new]
       /\ new.step = proc[d].step /\ new.inbox = proc[d].inbox /\ new.outbox = Tail(proc[d].outbox)
  <2>1. Tail(proc[d].outbox) \in Seq(Line)
    BY <1>2, <1>4
  <2>2. QED
    BY <1>1, <1>3, <2>1 DEF ProcRecord
<1>15. \A l \in LinesOf(d)' : l \in LinesOf(d)
  <2> HIDE DEF new
  <2>1. proc'[d] = new
    BY <1>1, <1>14
  <2>2. /\ Len(Tail(proc[d].outbox)) = Len(proc[d].outbox) - 1 /\ Len(proc[d].outbox) \in Nat
        /\ \A k \in 1..Len(Tail(proc[d].outbox)) : Tail(proc[d].outbox)[k] = proc[d].outbox[k + 1]
    BY <1>2, <1>4
  <2>3. \A k \in 1..Len(Tail(proc[d].outbox)) : k + 1 \in 1..Len(proc[d].outbox)
    BY <2>2
  <2>4. ASSUME NEW l \in {proc'[d].outbox[k] : k \in 1..Len(proc'[d].outbox)} PROVE l \in LinesOf(d)
    <3>1. PICK k \in 1..Len(Tail(proc[d].outbox)) : l = Tail(proc[d].outbox)[k]
      BY <1>14, <2>1
    <3>2. k + 1 \in 1..Len(proc[d].outbox) /\ l = proc[d].outbox[k + 1]
      BY <2>2, <2>3, <3>1
    <3>3. QED
      BY <3>2 DEF LinesOf
  <2>5. proc'[d].inbox = proc[d].inbox
    BY <1>14, <2>1
  <2>6. QED
    BY <2>4, <2>5 DEF LinesOf
<1>16. proc' \in [Python!Daemons -> ProcRecord] /\ AtWork' /\ LinesStay
  <2> HIDE DEF new
  <2>1. QED
    BY <1>1, <1>14, <1>15, DaemonStays DEF AtWork
<1>17. PythonType'
  BY <1>1, <1>2, <1>11, <1>16 DEF PythonType
<1>18. QED
  BY <1>2, <1>12, <1>13, <1>16, <1>17, PythonStays

-----------------------------------------------------------------------------
(* The steps of the daemon.                                                *)

\* What a daemon does beside its lines.
LEMMA DaemonMoves ==
    ASSUME PythonInv, NEW d \in Python!Daemons, NEW new \in ProcRecord, proc' = [proc EXCEPT ![d] = new],
           new.outbox = proc[d].outbox, new.inbox = proc[d].inbox, new.step # "idle" => new.inbox # <<>>,
           UNCHANGED <<assets, injectingPython, call, client>>,
           faults' \in 0..MaxFault, site' \in [Packages -> SiteStates], manifest' \in SUBSET Packages
    PROVE  PythonInv'
<1>1. PythonType /\ proc \in [Python!Daemons -> ProcRecord]
  BY DEF PythonInv, PythonType
<1>2. LinesOf(d)' = LinesOf(d)
  BY <1>1 DEF LinesOf
<1>3. proc' \in [Python!Daemons -> ProcRecord] /\ AtWork' /\ LinesStay
  BY <1>2, DaemonStays
<1>4. PythonType'
  BY <1>1, <1>3 DEF PythonType
<1>5. QED
  BY <1>3, <1>4, PythonQuiet

\* A request that is over: its line goes from what the daemon is to do to what it has to say.
LEMMA AnswerMoves ==
    ASSUME PythonInv, NEW d \in Python!Daemons, proc[d].inbox # <<>>,
           proc' = [proc EXCEPT ![d].inbox = Tail(@), ![d].step = "idle", ![d].outbox = Append(@, Head(proc[d].inbox))],
           UNCHANGED <<assets, injectingPython, call, client>>,
           faults' \in 0..MaxFault, site' \in [Packages -> SiteStates], manifest' \in SUBSET Packages
    PROVE  PythonInv'
<1> DEFINE in == proc[d].inbox
           outs == proc[d].outbox
           line == Head(in)
           new == [proc[d] EXCEPT !.inbox = Tail(in), !.step = "idle", !.outbox = Append(outs, line)]
<1>1. PythonType /\ proc \in [Python!Daemons -> ProcRecord] /\ in \in Seq(Line) /\ outs \in Seq(Line) /\ in # <<>>
  BY DEF PythonInv, PythonType, ProcRecord
<1>2. /\ line \in Line /\ Tail(in) \in Seq(Line) /\ line = in[1] /\ Len(in) \in Nat \ {0}
      /\ Len(Tail(in)) = Len(in) - 1 /\ \A k \in 1..Len(Tail(in)) : Tail(in)[k] = in[k + 1]
  <2> HIDE DEF in
  <2>1. QED
    BY <1>1
<1>3. /\ Append(outs, line) \in Seq(Line) /\ Len(Append(outs, line)) = Len(outs) + 1 /\ Len(outs) \in Nat
      /\ \A k \in 1..Len(outs) : Append(outs, line)[k] = outs[k]
      /\ Append(outs, line)[Len(outs) + 1] = line
  <2> HIDE DEF outs, line
  <2>1. QED
    BY <1>1, <1>2
<1>4. /\ new \in ProcRecord /\ new.step = "idle" /\ new.inbox = Tail(in) /\ new.outbox = Append(outs, line)
      /\ proc' = [proc EXCEPT ![d] = new]
  <2>1. proc' = [proc EXCEPT ![d] = new]
    BY <1>1
  <2>2. proc[d] \in ProcRecord
    BY <1>1
  <2> HIDE DEF in, outs, line
  <2>3. QED
    BY <1>2, <1>3, <2>1, <2>2 DEF ProcRecord
<1>5. \A l \in LinesOf(d)' : l \in LinesOf(d)
  <2> HIDE DEF new
  <2>1. proc'[d] = new
    BY <1>1, <1>4
  <2>2. LinesOf(d)' = {Tail(in)[k] : k \in 1..Len(Tail(in))} \union {Append(outs, line)[k] : k \in 1..Len(Append(outs, line))}
    <3>1. proc'[d].inbox = Tail(in) /\ proc'[d].outbox = Append(outs, line)
      BY <1>4, <2>1
    <3> HIDE DEF in, outs, line
    <3>2. QED
      BY <3>1 DEF LinesOf
  <2>3. LinesOf(d) = {in[k] : k \in 1..Len(in)} \union {outs[k] : k \in 1..Len(outs)}
    BY DEF LinesOf
  <2> HIDE DEF in, outs, line
  <2>4. ASSUME NEW k \in 1..Len(Tail(in)) PROVE Tail(in)[k] \in LinesOf(d)
    <3>1. k + 1 \in 1..Len(in) /\ Tail(in)[k] = in[k + 1]
      BY <1>2
    <3>2. QED
      BY <2>3, <3>1
  <2>5. ASSUME NEW k \in 1..Len(Append(outs, line)) PROVE Append(outs, line)[k] \in LinesOf(d)
    <3>1. CASE k \in 1..Len(outs)
      BY <1>3, <2>3, <3>1
    <3>2. CASE k = Len(outs) + 1
      <4>1. 1 \in 1..Len(in)
        BY <1>2
      <4>2. QED
        BY <1>2, <1>3, <2>3, <3>2, <4>1
    <3>3. QED
      BY <1>3, <3>1, <3>2
  <2>6. QED
    BY <2>2, <2>4, <2>5
<1>6. proc' \in [Python!Daemons -> ProcRecord] /\ AtWork' /\ LinesStay
  <2> HIDE DEF new
  <2>1. QED
    BY <1>4, <1>5, DaemonStays
<1>7. PythonType'
  BY <1>1, <1>6 DEF PythonType
<1>8. QED
  BY <1>6, <1>7, PythonQuiet

LEMMA LoadKeeps ==
    ASSUME PythonInv, NEW d \in Python!Daemons, Python!Load(d)
    PROVE  PythonInv'
<1>1. PythonType /\ AtWork /\ proc \in [Python!Daemons -> ProcRecord]
  BY DEF PythonInv, PythonType
<1>2. UNCHANGED <<assets, injectingPython, call, client, faults>>
  BY DEF Python!Load
<1>3. faults' \in 0..MaxFault
  BY <1>1, <1>2 DEF PythonType
<1>4. site' \in [Packages -> SiteStates] /\ manifest' \in SUBSET Packages
  <2>1. site \in [Packages -> SiteStates] /\ manifest \in SUBSET Packages
    BY <1>1 DEF PythonType
  <2>2. \A p \in Packages : (IF p \in manifest /\ site[p] # "whole" THEN "none" ELSE site[p]) \in SiteStates
    BY <2>1 DEF SiteStates
  <2>3. Python!Restored \in [Packages -> SiteStates] /\ Python!Kept \in SUBSET Packages
    BY <2>1, <2>2 DEF Python!Restored, Python!Kept
  <2>4. QED
    BY <2>1, <2>3 DEF Python!Load
<1>5. PICK st \in {"dead", "up"}, ready \in {proc[d].ready, "ok"} :
        proc' = [proc EXCEPT ![d] = [proc[d] EXCEPT !.st = st, !.ready = ready]]
  <2>1. CASE proc' = [proc EXCEPT ![d].st = "dead"]
    <3>1. proc' = [proc EXCEPT ![d] = [proc[d] EXCEPT !.st = "dead", !.ready = proc[d].ready]]
      BY <1>1, <2>1 DEF ProcRecord
    <3>2. QED
      BY <3>1
  <2>2. CASE proc' = [proc EXCEPT ![d].st = "up", ![d].ready = "ok"]
    <3>1. proc' = [proc EXCEPT ![d] = [proc[d] EXCEPT !.st = "up", !.ready = "ok"]]
      BY <1>1, <2>2 DEF ProcRecord
    <3>2. QED
      BY <3>1
  <2>3. QED
    BY <2>1, <2>2 DEF Python!Load
<1> DEFINE new == [proc[d] EXCEPT !.st = st, !.ready = ready]
<1>6. new \in ProcRecord /\ new.outbox = proc[d].outbox /\ new.inbox = proc[d].inbox /\ new.step = proc[d].step
  <2>1. proc[d] \in ProcRecord
    BY <1>1
  <2>2. QED
    BY <2>1 DEF ProcRecord
<1>7. new.step # "idle" => new.inbox # <<>>
  BY <1>1, <1>6 DEF AtWork
<1> HIDE DEF new
<1>8. proc' = [proc EXCEPT ![d] = new]
  BY <1>5 DEF new
<1>9. QED
  BY <1>2, <1>3, <1>4, <1>6, <1>7, <1>8, DaemonMoves

LEMMA LoadFailsKeeps ==
    ASSUME PythonInv, NEW d \in Python!Daemons, Python!LoadFails(d)
    PROVE  PythonInv'
<1>1. PythonType /\ AtWork /\ proc \in [Python!Daemons -> ProcRecord]
  BY DEF PythonInv, PythonType
<1>2. UNCHANGED <<assets, injectingPython, call, client, site, manifest>>
  BY DEF Python!LoadFails
<1>3. faults' \in 0..MaxFault
  <2>1. faults' = faults \/ (faults < MaxFault /\ faults' = faults + 1)
    BY DEF Python!LoadFails, Python!Fault
  <2>2. QED
    BY <1>1, <2>1, PythonBounds DEF PythonType
<1>4. site' \in [Packages -> SiteStates] /\ manifest' \in SUBSET Packages
  BY <1>1, <1>2 DEF PythonType
<1> DEFINE new == [proc[d] EXCEPT !.st = "dead", !.ready = "failed"]
<1>5. /\ new \in ProcRecord /\ new.outbox = proc[d].outbox /\ new.inbox = proc[d].inbox /\ new.step = proc[d].step
      /\ proc' = [proc EXCEPT ![d] = new]
  <2>1. proc[d] \in ProcRecord /\ proc' = [proc EXCEPT ![d].st = "dead", ![d].ready = "failed"]
    BY <1>1 DEF Python!LoadFails
  <2>2. QED
    BY <1>1, <2>1 DEF ProcRecord
<1>6. new.step # "idle" => new.inbox # <<>>
  BY <1>1, <1>5 DEF AtWork
<1> HIDE DEF new
<1>7. QED
  BY <1>2, <1>3, <1>4, <1>5, <1>6, DaemonMoves

LEMMA ServeKeeps ==
    ASSUME PythonInv, NEW d \in Python!Daemons, Python!Serve(d)
    PROVE  PythonInv'
<1> DEFINE line == Head(proc[d].inbox)
           job == line.job
<1>1. /\ PythonType /\ AtWork /\ proc \in [Python!Daemons -> ProcRecord] /\ faults \in 0..MaxFault
      /\ site \in [Packages -> SiteStates] /\ manifest \in SUBSET Packages
  BY DEF PythonInv, PythonType
<1>2. proc[d].inbox # <<>> /\ proc[d].inbox \in Seq(Line)
  BY <1>1 DEF Python!Serve, ProcRecord
<1>3. line \in Line
  BY <1>2
<1>4. job.op \in {"install", "uninstall"} => job.pkg \in Packages
  BY <1>3 DEF Line, JobOrNone, Python!Jobs, Python!NoJob
<1>5. ASSUME NEW files \in [Packages -> SiteStates], NEW listed \in SUBSET Packages, Python!Answer(d, line, files, listed)
      PROVE  PythonInv'
  <2>1. /\ proc' = [proc EXCEPT ![d].inbox = Tail(@), ![d].step = "idle", ![d].outbox = Append(@, Head(proc[d].inbox))]
        /\ site' = files /\ manifest' = listed /\ UNCHANGED <<assets, injectingPython, call, client, faults>>
    BY <1>5 DEF Python!Answer
  <2>2. faults' \in 0..MaxFault
    BY <1>1, <2>1
  <2>3. QED
    BY <1>2, <2>1, <2>2, AnswerMoves
<1>6. ASSUME NEW step \in {"erasing", "written"}, NEW files \in [Packages -> SiteStates], Python!Step(d, step, files)
      PROVE  PythonInv'
  <2> DEFINE new == [proc[d] EXCEPT !.step = step]
  <2>1. /\ proc' = [proc EXCEPT ![d].step = step] /\ site' = files
        /\ UNCHANGED <<assets, injectingPython, call, client, manifest, faults>>
    BY <1>6 DEF Python!Step
  <2>2. /\ new \in ProcRecord /\ new.outbox = proc[d].outbox /\ new.inbox = proc[d].inbox
        /\ proc' = [proc EXCEPT ![d] = new]
    <3>1. proc[d] \in ProcRecord
      BY <1>1
    <3>2. QED
      BY <1>1, <2>1, <3>1 DEF ProcRecord
  <2>3. faults' \in 0..MaxFault /\ manifest' \in SUBSET Packages
    BY <1>1, <2>1
  <2> HIDE DEF new
  <2>4. QED
    BY <1>2, <2>1, <2>2, <2>3, DaemonMoves
<1> HIDE DEF line, job
<1>7. \/ Python!Answer(d, line, site, manifest)
      \/ \E files \in {site, [site EXCEPT ![job.pkg] = "partial"]} : Python!Step(d, "erasing", files)
      \/ Python!Step(d, "written", [site EXCEPT ![job.pkg] = "whole"])
      \/ job.op = "install" /\ Python!Answer(d, line, site, manifest \cup {job.pkg})
      \/ Python!Answer(d, line, [site EXCEPT ![job.pkg] = "none"], manifest \ {job.pkg})
  BY DEF Python!Serve, line, job
<1>8. \A state \in SiteStates : [site EXCEPT ![job.pkg] = state] \in [Packages -> SiteStates]
  BY <1>1
<1>9. {"none", "partial", "whole"} \subseteq SiteStates
  BY DEF SiteStates
<1>10. CASE Python!Answer(d, line, site, manifest)
  BY <1>1, <1>5, <1>10
<1>11. CASE \E files \in {site, [site EXCEPT ![job.pkg] = "partial"]} : Python!Step(d, "erasing", files)
  <2>1. PICK files \in {site, [site EXCEPT ![job.pkg] = "partial"]} : Python!Step(d, "erasing", files)
    BY <1>11
  <2>2. files \in [Packages -> SiteStates]
    BY <1>1, <1>8, <1>9
  <2>3. QED
    BY <1>6, <2>1, <2>2
<1>12. CASE Python!Step(d, "written", [site EXCEPT ![job.pkg] = "whole"])
  <2>1. [site EXCEPT ![job.pkg] = "whole"] \in [Packages -> SiteStates]
    BY <1>8, <1>9
  <2>2. QED
    BY <1>6, <1>12, <2>1
<1>13. CASE job.op = "install" /\ Python!Answer(d, line, site, manifest \cup {job.pkg})
  <2>1. manifest \cup {job.pkg} \in SUBSET Packages
    BY <1>1, <1>4, <1>13
  <2>2. QED
    BY <1>1, <1>5, <1>13, <2>1
<1>14. CASE Python!Answer(d, line, [site EXCEPT ![job.pkg] = "none"], manifest \ {job.pkg})
  <2>1. manifest \ {job.pkg} \in SUBSET Packages /\ [site EXCEPT ![job.pkg] = "none"] \in [Packages -> SiteStates]
    BY <1>1, <1>8, <1>9
  <2>2. QED
    BY <1>5, <1>14, <2>1
<1>15. QED
  BY <1>7, <1>10, <1>11, <1>12, <1>13, <1>14

LEMMA InstallFailsKeeps ==
    ASSUME PythonInv, NEW d \in Python!Daemons, Python!InstallFails(d)
    PROVE  PythonInv'
<1>1. /\ PythonType /\ AtWork /\ faults \in 0..MaxFault
      /\ site \in [Packages -> SiteStates] /\ manifest \in SUBSET Packages
  BY DEF PythonInv, PythonType
<1>2. proc[d].inbox # <<>>
  BY <1>1 DEF AtWork, Python!InstallFails
<1>3. /\ proc' = [proc EXCEPT ![d].inbox = Tail(@), ![d].step = "idle", ![d].outbox = Append(@, Head(proc[d].inbox))]
      /\ UNCHANGED <<assets, injectingPython, call, client>> /\ manifest' = manifest
  BY DEF Python!InstallFails
<1>4. faults' \in 0..MaxFault
  BY <1>1, PythonBounds DEF Python!InstallFails, Python!Fault
<1>5. site' \in [Packages -> SiteStates]
  BY <1>1 DEF Python!InstallFails, SiteStates
<1>6. QED
  BY <1>1, <1>2, <1>3, <1>4, <1>5, AnswerMoves

LEMMA CrashKeeps ==
    ASSUME PythonInv, NEW d \in Python!Daemons, Python!Crash(d)
    PROVE  PythonInv'
<1>1. PythonType
  BY DEF PythonInv
<1>2. UNCHANGED <<assets, injectingPython, call, client, site, manifest>>
  BY DEF Python!Crash
<1>3. faults' \in 0..MaxFault
  BY <1>1, PythonBounds DEF Python!Crash, Python!Fault, PythonType
<1>4. d \in 0..MaxDaemon /\ proc' = Python!Killed(d)
  BY PythonBounds DEF Python!Crash, Python!Killed, Python!Daemons
<1>5. proc' \in [Python!Daemons -> ProcRecord] /\ AtWork' /\ LinesStay
  BY <1>4, KilledStays
<1>6. PythonType'
  BY <1>1, <1>2, <1>3, <1>5 DEF PythonType
<1>7. QED
  BY <1>2, <1>5, <1>6, PythonQuiet

\* Every step of Python keeps the invariant.
LEMMA PythonSteps == PythonInv /\ Python!Next => PythonInv'
<1> SUFFICES ASSUME PythonInv, Python!Next PROVE PythonInv'
  OBVIOUS
<1>1. ASSUME NEW c \in Python!Calls, NEW job \in Python!Jobs, NEW atShell \in BOOLEAN, Python!Submit(c, job, atShell)
      PROVE  PythonInv'
  BY <1>1, SubmitKeeps
<1>2. CASE Python!InjectNext
  BY <1>2, InjectNextKeeps
<1>3. CASE Python!InjectFails
  BY <1>3, InjectFailsKeeps
<1>4. ASSUME NEW c \in Python!Calls, Python!Exec(c) \/ Python!Timeout(c) PROVE PythonInv'
  BY <1>4, ExecKeeps, TimeoutKeeps
<1>5. ASSUME NEW d \in Python!Daemons,
             \/ Python!ReadReady(d) \/ Python!ReadAnswer(d) \/ Python!ExitEvent(d) \/ Python!Load(d)
             \/ Python!LoadFails(d) \/ Python!Serve(d) \/ Python!InstallFails(d) \/ Python!Crash(d)
      PROVE  PythonInv'
  BY <1>5, ReadReadyKeeps, ReadAnswerKeeps, ExitEventKeeps, LoadKeeps, LoadFailsKeeps, ServeKeeps, InstallFailsKeeps, CrashKeeps
<1>6. QED
  BY <1>1, <1>2, <1>3, <1>4, <1>5 DEF Python!Next

\* A daemon says READY only when it has read what is installed: what is not whole is gone from the list.
LEMMA ReadyListsWhole ==
    ASSUME PythonInv, Python!Next, NEW d \in Python!Daemons, proc'[d].ready = "ok", proc[d].ready # "ok"
    PROVE  \A p \in manifest' : site'[p] = "whole"
<1>1. PythonType /\ proc \in [Python!Daemons -> ProcRecord] /\ site \in [Packages -> SiteStates] /\ manifest \in SUBSET Packages
  BY DEF PythonInv, PythonType
<1>2. ASSUME NEW b \in Python!Daemons, Python!Load(b) PROVE \A p \in manifest' : site'[p] = "whole"
  <2>1. CASE proc' = [proc EXCEPT ![b].st = "dead"]
    BY <1>1, <2>1 DEF ProcRecord
  <2>2. CASE site' = Python!Restored /\ manifest' = Python!Kept
    BY <1>1, <2>2 DEF Python!Restored, Python!Kept
  <2>3. QED
    BY <1>2, <2>1, <2>2 DEF Python!Load
<1>3. ASSUME \A b \in Python!Daemons : proc'[b].ready = proc[b].ready PROVE FALSE
  BY <1>3
<1>4. ASSUME NEW b \in Python!Daemons, NEW new, new.ready \in {proc[b].ready, "failed"}, proc' = [proc EXCEPT ![b] = new]
       PROVE  FALSE
  BY <1>1, <1>4
<1>5. ASSUME NEW waiting, NEW procs \in [Python!Daemons -> ProcRecord], \A b \in Python!Daemons : procs[b].ready = proc[b].ready,
             Python!WriteAll(waiting, procs)
      PROVE  FALSE
  <2>1. PICK lines : proc' = [b \in Python!Daemons |-> IF b = client.child /\ procs[b].st # "dead"
                                                       THEN [procs[b] EXCEPT !.inbox = @ \o lines] ELSE procs[b]]
    BY <1>5, Zenon DEF Python!WriteAll
  <2>2. \A b \in Python!Daemons : proc'[b].ready = procs[b].ready
    BY <1>5, <2>1 DEF ProcRecord
  <2>3. QED
    BY <1>3, <1>5, <2>2
<1>6. ASSUME NEW c \in Python!Calls, Python!Exec(c) PROVE FALSE
  <2>1. CASE Python!WriteAll({c}, proc)
    BY <1>1, <1>5, <2>1
  <2>2. ASSUME NEW new \in Python!Daemons, proc' = [proc EXCEPT ![new].st = "loading"] PROVE FALSE
    <3>1. /\ proc' = [proc EXCEPT ![new] = [proc[new] EXCEPT !.st = "loading"]]
          /\ [proc[new] EXCEPT !.st = "loading"].ready = proc[new].ready
      BY <1>1, <2>2 DEF ProcRecord
    <3>2. QED
      BY <1>4, <3>1
  <2>3. proc' # proc
    BY <1>3
  <2>4. QED
    BY <1>6, <2>1, <2>2, <2>3, Zenon DEF Python!Exec
<1>7. ASSUME NEW b \in Python!Daemons, Python!ReadReady(b) PROVE FALSE
  <2> DEFINE told == [proc EXCEPT ![b].told = TRUE]
  <2>1. told \in [Python!Daemons -> ProcRecord] /\ \A a \in Python!Daemons : told[a].ready = proc[a].ready
    BY <1>1 DEF ProcRecord
  <2>2. proc' = told \/ \E waiting : Python!WriteAll(waiting, told)
    BY <1>7, Zenon DEF Python!ReadReady
  <2> HIDE DEF told
  <2>3. CASE \E waiting : Python!WriteAll(waiting, told)
    BY <1>5, <2>1, <2>3
  <2>4. CASE proc' = told
    BY <1>3, <2>1, <2>4
  <2>5. QED
    BY <2>2, <2>3, <2>4
<1>8. \A e \in 0..MaxDaemon : proc' = Python!Killed(e) => FALSE
  BY <1>1, <1>3 DEF Python!Killed, ProcRecord
<1>9. ASSUME NEW c \in Python!Calls, Python!Timeout(c) PROVE FALSE
  <2>1. client.child \in 0..MaxDaemon /\ proc' = Python!Killed(client.child)
    BY <1>1, <1>9 DEF PythonType, Python!Timeout
  <2>2. QED
    BY <1>8, <2>1
<1>10. ASSUME NEW b \in Python!Daemons, Python!Crash(b) PROVE FALSE
  <2>1. b \in 0..MaxDaemon /\ proc' = Python!Killed(b)
    BY <1>10, PythonBounds DEF Python!Crash, Python!Killed, Python!Daemons
  <2>2. QED
    BY <1>8, <2>1
<1>11. ASSUME NEW b \in Python!Daemons, Python!ReadAnswer(b) \/ Python!ExitEvent(b) PROVE FALSE
  <2>1. \/ proc' = [proc EXCEPT ![b].outbox = Tail(@)]
        \/ proc' = [proc EXCEPT ![b].exitSeen = TRUE]
    BY <1>11 DEF Python!ReadAnswer, Python!ExitEvent
  <2>2. proc'[b].ready = proc[b].ready /\ \A a \in Python!Daemons \ {b} : proc'[a] = proc[a]
    BY <1>1, <2>1 DEF ProcRecord
  <2>3. QED
    BY <1>3, <2>2
<1>12. ASSUME NEW b \in Python!Daemons, Python!LoadFails(b) PROVE FALSE
  <2>1. proc' = [proc EXCEPT ![b] = [proc[b] EXCEPT !.st = "dead", !.ready = "failed"]]
    BY <1>1, <1>12 DEF Python!LoadFails, ProcRecord
  <2>2. [proc[b] EXCEPT !.st = "dead", !.ready = "failed"].ready = "failed"
    BY <1>1 DEF ProcRecord
  <2>3. QED
    BY <1>4, <2>1, <2>2
<1>13. ASSUME NEW b \in Python!Daemons, Python!Serve(b) \/ Python!InstallFails(b) PROVE FALSE
  <2>1. \/ \E step : proc' = [proc EXCEPT ![b].step = step]
        \/ \E line : proc' = [proc EXCEPT ![b].inbox = Tail(@), ![b].step = "idle", ![b].outbox = Append(@, line)]
    BY <1>13 DEF Python!Serve, Python!InstallFails, Python!Answer, Python!Step
  <2>2. proc'[b].ready = proc[b].ready /\ \A a \in Python!Daemons \ {b} : proc'[a] = proc[a]
    <3>1. CASE \E step : proc' = [proc EXCEPT ![b].step = step]
      BY <1>1, <3>1 DEF ProcRecord
    <3>2. ASSUME NEW line,
                 proc' = [proc EXCEPT ![b].inbox = Tail(@), ![b].step = "idle", ![b].outbox = Append(@, line)]
          PROVE  proc'[b].ready = proc[b].ready /\ \A a \in Python!Daemons \ {b} : proc'[a] = proc[a]
      BY <1>1, <3>2 DEF ProcRecord
    <3>3. QED
      BY <2>1, <3>1, <3>2
  <2>3. QED
    BY <1>3, <2>2
<1>14. ASSUME proc' = proc PROVE FALSE
  BY <1>14
<1>15. \/ \E c \in Python!Calls, job \in Python!Jobs, atShell \in BOOLEAN : Python!Submit(c, job, atShell)
       \/ Python!InjectNext \/ Python!InjectFails
       \/ \E c \in Python!Calls : Python!Exec(c) \/ Python!Timeout(c)
       \/ \E b \in Python!Daemons : \/ Python!ReadReady(b) \/ Python!ReadAnswer(b) \/ Python!ExitEvent(b) \/ Python!Load(b)
                                    \/ Python!LoadFails(b) \/ Python!Serve(b) \/ Python!InstallFails(b) \/ Python!Crash(b)
  BY DEF Python!Next
<1>16. ASSUME NEW c \in Python!Calls, NEW job \in Python!Jobs, NEW atShell \in BOOLEAN, Python!Submit(c, job, atShell) PROVE FALSE
  BY <1>14, <1>16 DEF Python!Submit
<1>17. ASSUME Python!InjectNext \/ Python!InjectFails PROVE FALSE
  BY <1>14, <1>17 DEF Python!InjectNext, Python!InjectFails
<1>18. QED
  BY <1>2, <1>6, <1>7, <1>9, <1>10, <1>11, <1>12, <1>13, <1>15, <1>16, <1>17

\* What the invariant says of the types and the answers.
LEMMA AnswersFollow == PythonInv => AnswersAreOwn
<1> SUFFICES ASSUME PythonInv PROVE Python!TypeOK /\ Python!AnswersAreOwn
  BY DEF AnswersAreOwn
<1>1. PythonType /\ IdsAreGiven /\ AnswerIsOwn
  BY DEF PythonInv
<1>2. client.nextId \in 1..(MaxCall + 1) /\ \A c \in Python!Calls : call[c].id \in 0..MaxCall
  <2>1. client.nextId \in Nat \ {0} /\ \A c \in Python!Calls : call[c].id \in Nat
    BY <1>1 DEF PythonType, CallRecord
  <2>2. Cardinality(Handed) \in Nat /\ Cardinality(Handed) <= MaxCall /\ MaxCall \in Nat
    BY HandedIsFinite, PythonBounds
  <2>3. QED
    BY <1>1, <2>1, <2>2 DEF IdsAreGiven
<1>3. \A c \in Python!Calls :
        /\ call[c].pc \in {"new", "injecting", "sent", "starting", "pending", "done"}
        /\ call[c].job \in Python!Jobs \cup {Python!NoJob} /\ call[c].by \in 0..MaxCall
  BY <1>1 DEF PythonType, CallRecord, CallPcs, JobOrNone
<1>4. \A d \in Python!Daemons :
        /\ proc[d].st \in {"none", "loading", "up", "dead"}
        /\ proc[d].ready \in {"waiting", "ok", "failed"}
        /\ proc[d].step \in {"idle", "erasing", "written"}
  BY <1>1 DEF PythonType, ProcRecord
<1>5. client.child \in 0..MaxDaemon /\ client.ready \in 0..MaxDaemon
  BY <1>1 DEF PythonType
<1>6. Python!TypeOK
  BY <1>1, <1>2, <1>3, <1>4, <1>5 DEF Python!TypeOK, PythonType, Assets, SiteStates
<1>7. QED
  BY <1>1, <1>6 DEF Python!AnswersAreOwn, AnswerIsOwn

-----------------------------------------------------------------------------
(* The Ruby runtime (RubyRuntime).                                         *)

Requested == Command \cup {Ruby!None}
LoadSteps == {"idle", "ready", "error", "ensure", "inject", "done", "threw", "marked"}
RubyType == Ruby!TypeOK /\ load \in [pc : LoadSteps, id : Requested]

\* A marker that says ready, a load that is done and a command that returns all stand for an installation that is complete.
ReadyIsComplete ==
    /\ marker["ready"] # Ruby!None => asset = Ruby!Complete
    /\ load.pc = "done" => asset = Ruby!Complete

RubyInv == RubyType /\ ReadyIsComplete /\ Ruby!ReturnedIsWhole

LEMMA RubyStart == Ruby!Init => RubyInv
<1> SUFFICES ASSUME Ruby!Init PROVE RubyInv
  OBVIOUS
<1>1. Ruby!TypeOK
  BY RuntimesAssumption DEF Ruby!Init, Ruby!TypeOK, Ruby!NoLoad, Ruby!Complete
<1>2. load \in [pc : LoadSteps, id : Requested]
  BY DEF Ruby!Init, Ruby!NoLoad, LoadSteps, Requested
<1>3. ReadyIsComplete /\ Ruby!ReturnedIsWhole
  BY DEF Ruby!Init, Ruby!NoLoad, ReadyIsComplete, Ruby!ReturnedIsWhole
<1>4. QED
  BY <1>1, <1>2, <1>3 DEF RubyInv, RubyType

\* What the invariant is made of, one conjunct each.
RubyTypes ==
    /\ asset \in 0..3 /\ request \in Requested /\ marker \in [{"ready", "error"} -> Requested]
    /\ cmd \in [Command -> {"new", "asked", "waiting", "returned", "runs", "failed"}]
    /\ load \in [pc : LoadSteps, id : Requested]
    /\ batch \in {"new", "waiting", "over"} /\ injectingRuby \in 0..3 /\ fault \in 0..MaxFault

LEMMA RubyIsTyped == RubyType <=> RubyTypes
BY DEF RubyType, RubyTypes, Ruby!TypeOK, Ruby!Complete, Requested, LoadSteps

\* A request of a command ends: its markers and its request go, the others stay.
LEMMA CleanedStays ==
    ASSUME RubyTypes, NEW c \in Command, Ruby!Cleaned(c)
    PROVE  /\ request' \in Requested /\ marker' \in [{"ready", "error"} -> Requested]
           /\ marker'["ready"] \in {marker["ready"], Ruby!None}
<1>1. request \in Requested /\ marker \in [{"ready", "error"} -> Requested] /\ Ruby!None \in Requested
  BY DEF RubyTypes, Requested
<1>2. request' \in Requested
  BY <1>1 DEF Ruby!Cleaned
<1>3. marker' = [k \in {"ready", "error"} |-> IF marker[k] = c THEN Ruby!None ELSE marker[k]]
  BY DEF Ruby!Cleaned
<1>4. QED
  BY <1>1, <1>2, <1>3

LEMMA RubySteps == RubyInv /\ Ruby!Next => RubyInv'
<1> SUFFICES ASSUME RubyInv, Ruby!Next PROVE RubyInv'
  OBVIOUS
<1>1. RubyTypes /\ ReadyIsComplete /\ Ruby!ReturnedIsWhole /\ MaxFault \in Nat
  BY RubyIsTyped, PythonBounds DEF RubyInv
<1>2. SUFFICES RubyTypes' /\ ReadyIsComplete' /\ Ruby!ReturnedIsWhole'
  BY RubyIsTyped, PTL DEF RubyInv
<1>3. ASSUME NEW c \in Command, Ruby!Start(c) \/ Ruby!Run(c) PROVE RubyTypes' /\ ReadyIsComplete' /\ Ruby!ReturnedIsWhole'
  <2>1. UNCHANGED <<asset, request, marker, load, batch, injectingRuby, fault>>
    BY <1>3 DEF Ruby!Start, Ruby!Run
  <2>2. PICK next \in {"runs", "asked", "failed"} : cmd' = [cmd EXCEPT ![c] = next]
    BY <1>3 DEF Ruby!Start, Ruby!Run
  <2>3. QED
    BY <1>1, <2>1, <2>2 DEF RubyTypes, ReadyIsComplete, Ruby!ReturnedIsWhole
<1>4. ASSUME NEW c \in Command, Ruby!Ask(c) PROVE RubyTypes' /\ ReadyIsComplete' /\ Ruby!ReturnedIsWhole'
  <2>1. marker' \in [{"ready", "error"} -> Requested] /\ marker'["ready"] = Ruby!None /\ request' \in Requested
    BY <1>4 DEF Ruby!Ask, Requested
  <2>2. UNCHANGED <<asset, load, batch, injectingRuby, fault>> /\ cmd' = [cmd EXCEPT ![c] = "waiting"]
    BY <1>4 DEF Ruby!Ask
  <2>3. QED
    BY <1>1, <2>1, <2>2 DEF RubyTypes, ReadyIsComplete, Ruby!ReturnedIsWhole
<1>5. ASSUME NEW c \in Command, Ruby!Look(c) \/ Ruby!GiveUp(c) PROVE RubyTypes' /\ ReadyIsComplete' /\ Ruby!ReturnedIsWhole'
  <2>1. UNCHANGED <<asset, load, batch, injectingRuby, fault>> /\ Ruby!Cleaned(c)
    BY <1>5 DEF Ruby!Look, Ruby!GiveUp
  <2>2. /\ request' \in Requested /\ marker' \in [{"ready", "error"} -> Requested]
        /\ marker'["ready"] \in {marker["ready"], Ruby!None}
    BY <1>1, <2>1, CleanedStays
  <2>3. PICK next \in {"returned", "failed"} : cmd' = [cmd EXCEPT ![c] = next] /\ (next = "returned" => marker["ready"] = c)
    BY <1>5 DEF Ruby!Look, Ruby!GiveUp
  <2>4. next = "returned" => asset = Ruby!Complete
    BY <1>1, <2>3, RuntimesAssumption DEF ReadyIsComplete, Ruby!None
  <2>5. QED
    BY <1>1, <2>1, <2>2, <2>3, <2>4 DEF RubyTypes, ReadyIsComplete, Ruby!ReturnedIsWhole
<1>6. CASE Ruby!Poll
  <2>1. UNCHANGED <<asset, request, marker, cmd, batch, injectingRuby, fault>> /\ load' = [pc |-> "ready", id |-> request]
    BY <1>6 DEF Ruby!Poll
  <2>2. load' \in [pc : LoadSteps, id : Requested] /\ load'.pc = "ready"
    BY <1>1, <2>1 DEF RubyTypes, LoadSteps
  <2>3. QED
    BY <1>1, <2>1, <2>2 DEF RubyTypes, ReadyIsComplete, Ruby!ReturnedIsWhole
<1>7. ASSUME NEW k \in {"ready", "error"}, NEW next \in {"error", "ensure"}, Ruby!Clear(k, next)
      PROVE  RubyTypes' /\ ReadyIsComplete' /\ Ruby!ReturnedIsWhole'
  <2>1. /\ UNCHANGED <<asset, request, cmd, batch, injectingRuby, fault>>
        /\ marker' = [marker EXCEPT ![k] = Ruby!None] /\ load' = [load EXCEPT !.pc = next]
    BY <1>7 DEF Ruby!Clear
  <2>2. load' \in [pc : LoadSteps, id : Requested] /\ load'.pc = next
    BY <1>1, <2>1 DEF RubyTypes, LoadSteps
  <2>3. marker' \in [{"ready", "error"} -> Requested] /\ marker'["ready"] \in {marker["ready"], Ruby!None}
    BY <1>1, <2>1 DEF RubyTypes, Requested
  <2>4. QED
    BY <1>1, <2>1, <2>2, <2>3 DEF RubyTypes, ReadyIsComplete, Ruby!ReturnedIsWhole
<1>8. CASE Ruby!Ensure \/ Ruby!EnsureBatch
  <2>1. UNCHANGED <<asset, request, marker, cmd, fault>> /\ injectingRuby' \in {1, injectingRuby}
    BY <1>8 DEF Ruby!Ensure, Ruby!EnsureBatch
  <2>2. batch' \in {batch, "over", "waiting"}
    BY <1>8 DEF Ruby!Ensure, Ruby!EnsureBatch
  <2>3. \/ load' = load
        \/ \E pc \in {"done", "inject"} : load' = [load EXCEPT !.pc = pc] /\ (pc = "done" => asset = Ruby!Complete)
    BY <1>8 DEF Ruby!Ensure, Ruby!EnsureBatch, Ruby!Installed
  <2>4. load' \in [pc : LoadSteps, id : Requested] /\ (load'.pc = "done" => asset = Ruby!Complete)
    BY <1>1, <2>3 DEF RubyTypes, LoadSteps, ReadyIsComplete
  <2>5. QED
    BY <1>1, <2>1, <2>2, <2>4 DEF RubyTypes, ReadyIsComplete, Ruby!ReturnedIsWhole
<1>9. ASSUME NEW pc \in {"done", "threw"}, Ruby!Ended(pc)
      PROVE  /\ injectingRuby' = 0 /\ batch' \in {batch, "over"}
             /\ load' \in [pc : LoadSteps, id : Requested] /\ (load'.pc = "done" => load.pc = "done" \/ pc = "done")
  BY <1>1, <1>9 DEF Ruby!Ended, RubyTypes, LoadSteps
<1>10. CASE Ruby!InjectFile
  <2>1. UNCHANGED <<request, marker, cmd, fault>> /\ asset' \in 0..3 /\ (asset = 3 => asset' = 3)
    BY <1>1, <1>10 DEF Ruby!InjectFile, RubyTypes
  <2>2. CASE injectingRuby = 3
    <3>1. asset' = 3 /\ Ruby!Ended("done")
      BY <1>1, <1>10, <2>2 DEF Ruby!InjectFile, RubyTypes, Ruby!Complete
    <3>2. /\ injectingRuby' = 0 /\ batch' \in {batch, "over"} /\ load' \in [pc : LoadSteps, id : Requested]
      BY <1>9, <3>1
    <3>3. QED
      BY <1>1, <2>1, <3>1, <3>2 DEF RubyTypes, ReadyIsComplete, Ruby!ReturnedIsWhole, Ruby!Complete
  <2>3. CASE injectingRuby # 3
    <3>1. UNCHANGED <<load, batch>> /\ injectingRuby' \in 0..3
      BY <1>1, <1>10, <2>3 DEF Ruby!InjectFile, RubyTypes, Ruby!Complete
    <3>2. QED
      BY <1>1, <2>1, <3>1 DEF RubyTypes, ReadyIsComplete, Ruby!ReturnedIsWhole, Ruby!Complete
  <2>4. QED
    BY <2>2, <2>3
<1>11. CASE Ruby!InjectFails
  <2>1. UNCHANGED <<asset, request, marker, cmd>> /\ fault' \in 0..MaxFault /\ Ruby!Ended("threw")
    BY <1>1, <1>11 DEF Ruby!InjectFails, RubyTypes
  <2>2. /\ injectingRuby' = 0 /\ batch' \in {batch, "over"}
        /\ load' \in [pc : LoadSteps, id : Requested] /\ (load'.pc = "done" => load.pc = "done")
    BY <1>9, <2>1
  <2>3. QED
    BY <1>1, <2>1, <2>2 DEF RubyTypes, ReadyIsComplete, Ruby!ReturnedIsWhole
<1>12. CASE Ruby!Mark
  <2>1. UNCHANGED <<asset, request, cmd, batch, injectingRuby, fault>> /\ load' = [load EXCEPT !.pc = "marked"]
    BY <1>12 DEF Ruby!Mark
  <2>2. PICK k \in {"ready", "error"} : /\ marker' = [marker EXCEPT ![k] = load.id]
                                        /\ k = "ready" => load.pc = "done"
    BY <1>12 DEF Ruby!Mark
  <2>3. load' \in [pc : LoadSteps, id : Requested] /\ load'.pc = "marked" /\ load.id \in Requested
    BY <1>1, <2>1 DEF RubyTypes, LoadSteps
  <2>4. marker' \in [{"ready", "error"} -> Requested] /\ (marker'["ready"] # Ruby!None => asset = Ruby!Complete)
    BY <1>1, <2>2, <2>3 DEF RubyTypes, ReadyIsComplete
  <2>5. QED
    BY <1>1, <2>1, <2>3, <2>4 DEF RubyTypes, ReadyIsComplete, Ruby!ReturnedIsWhole
<1>13. CASE Ruby!Finish
  <2>1. UNCHANGED <<asset, marker, cmd, batch, injectingRuby, fault>> /\ request' = Ruby!None /\ load' = Ruby!NoLoad
    BY <1>13 DEF Ruby!Finish
  <2>2. load' \in [pc : LoadSteps, id : Requested] /\ load'.pc = "idle" /\ request' \in Requested
    BY <2>1 DEF Ruby!NoLoad, LoadSteps, Requested
  <2>3. QED
    BY <1>1, <2>1, <2>2 DEF RubyTypes, ReadyIsComplete, Ruby!ReturnedIsWhole
<1>14. QED
  BY <1>3, <1>4, <1>5, <1>6, <1>7, <1>8, <1>10, <1>11, <1>12, <1>13 DEF Ruby!Next

-----------------------------------------------------------------------------
(* The processes of the host (HostProcesses).                              *)

Pids == Pid \cup {Processes!FailedPid}
Os == {"none", "alive", "ended", "failed"}
ChildRecord ==
    [os : Os, pid : Pids \cup {Processes!None}, inst : Instance \cup {Processes!None}, kind : {"none", "run", "spawn", "forward"},
     term : BOOLEAN, code : BOOLEAN, held : BOOLEAN, over : BOOLEAN,
     entry : {"none", "running", "exited"}, force : BOOLEAN, expiry : BOOLEAN,
     timer : BOOLEAN, grace : BOOLEAN, answered : BOOLEAN, doomed : BOOLEAN]
ChildTable == [Processes!Children -> ChildRecord]
Rows == [Pids -> Processes!Children \cup {Processes!None}]

\* A process that runs has the row of its pid and an entry that says so; a row carries the pid of its process; only an entry
\* that has ended is ever forgotten; and what has not started has no pid.
ListedWell(cs, t) ==
    \A c \in Processes!Children :
        /\ cs[c].os = "alive" => cs[c].pid \in Pid /\ t[cs[c].pid] = c /\ cs[c].entry = "running"
        /\ \A p \in Pids : t[p] = c => cs[c].pid = p
        /\ cs[c].expiry => cs[c].entry = "exited"
        /\ cs[c].os = "none" <=> cs[c].pid = Processes!None
        /\ cs[c].os = "none" => cs[c].entry = "none" /\ cs[c].kind = "none"

ProcessesGood(cs, t) == cs \in ChildTable /\ t \in Rows /\ ListedWell(cs, t)
ProcessesInv == ProcessesGood(child, table) /\ current \in [Instance -> Pids \cup {Processes!None}]

\* The pids of processes, of those that did not start and of those that are not there are different.
LEMMA PidsDiffer ==
    /\ Processes!None \notin Pids /\ Processes!FailedPid \notin Pid /\ Processes!None = 0
    /\ MaxChild \in Nat /\ Processes!None \notin Processes!Children
<1>1. Pid \subseteq Nat \ {0} /\ MaxChild \in Nat
  BY RuntimesAssumption
<1>2. Processes!FailedPid \notin Nat /\ Processes!None = 0
  BY DEF Processes!FailedPid, Processes!None
<1>3. Processes!None \notin Pids /\ Processes!FailedPid \notin Pid
  <2>1. 0 # Processes!FailedPid
    BY <1>2
  <2>2. 0 \notin Pid /\ Processes!FailedPid \notin Pid
    BY <1>1, <1>2
  <2>3. QED
    BY <1>2, <2>1, <2>2 DEF Pids
<1>4. 0 \notin Processes!Children
  BY <1>1 DEF Processes!Children
<1>5. QED
  BY <1>1, <1>2, <1>3, <1>4

LEMMA ProcessesStart == Processes!Init => ProcessesInv
<1> SUFFICES ASSUME Processes!Init PROVE ProcessesInv
  OBVIOUS
<1>1. Processes!NoChild \in ChildRecord
  BY DEF Processes!NoChild, ChildRecord, Os
<1>2. child \in ChildTable /\ table \in Rows /\ current \in [Instance -> Pids \cup {Processes!None}]
  BY <1>1 DEF Processes!Init, ChildTable, Rows, Pids
<1>3. \A c \in Processes!Children : child[c].os = "none" /\ child[c].pid = Processes!None /\ child[c].entry = "none" /\ child[c].kind = "none" /\ ~child[c].expiry
  BY DEF Processes!Init, Processes!NoChild
<1>4. \A p \in Pids : table[p] = Processes!None
  BY DEF Processes!Init, Pids
<1>5. ListedWell(child, table)
  BY <1>3, <1>4, PidsDiffer DEF ListedWell
<1>6. QED
  BY <1>2, <1>5 DEF ProcessesInv, ProcessesGood

-----------------------------------------------------------------------------
(* What may happen to the children while the table stays.                  *)

\* Flags change, and a process may end.
Tamer(cs, ds) ==
    /\ ds \in ChildTable
    /\ \A c \in Processes!Children :
        /\ ds[c].pid = cs[c].pid /\ ds[c].entry = cs[c].entry /\ ds[c].kind = cs[c].kind
        /\ ds[c].expiry => cs[c].expiry
        /\ ds[c].os = cs[c].os \/ (cs[c].os = "alive" /\ ds[c].os = "ended")

LEMMA TamerKeeps ==
    ASSUME NEW cs, NEW ds, NEW t, ProcessesGood(cs, t), Tamer(cs, ds)
    PROVE  ProcessesGood(ds, t)
BY DEF ProcessesGood, Tamer, ListedWell

LEMMA TamerOfTamer ==
    ASSUME NEW cs, NEW ds, NEW es, Tamer(cs, ds), Tamer(ds, es)
    PROVE  Tamer(cs, es)
BY DEF Tamer

LEMMA TamerOfItself == \A cs \in ChildTable : Tamer(cs, cs)
BY DEF Tamer

\* One child for another one that is like it.
LEMMA TamerOfOne ==
    ASSUME NEW cs \in ChildTable, NEW c, NEW new,
           c \in Processes!Children =>
              /\ new \in ChildRecord /\ new.pid = cs[c].pid /\ new.entry = cs[c].entry /\ new.kind = cs[c].kind
              /\ new.expiry => cs[c].expiry
              /\ new.os = cs[c].os \/ (cs[c].os = "alive" /\ new.os = "ended")
    PROVE  Tamer(cs, [cs EXCEPT ![c] = new])
BY DEF Tamer, ChildTable

LEMMA EndedIsTamer ==
    ASSUME NEW cs \in ChildTable, NEW c \in Processes!Children, cs[c].os = "alive", NEW code \in BOOLEAN, NEW held \in BOOLEAN
    PROVE  Tamer(cs, Processes!Ended(cs, c, code, held))
<1> DEFINE new == [cs[c] EXCEPT !.os = "ended", !.code = code, !.held = held]
<1>1. cs[c] \in ChildRecord
  BY DEF ChildTable
<1>2. new \in ChildRecord /\ new.pid = cs[c].pid /\ new.entry = cs[c].entry /\ new.kind = cs[c].kind /\ new.expiry = cs[c].expiry /\ new.os = "ended"
  BY <1>1 DEF ChildRecord, Os
<1>3. Processes!Ended(cs, c, code, held) = [cs EXCEPT ![c] = new]
  BY DEF Processes!Ended, ChildTable
<1> HIDE DEF new
<1>4. Tamer(cs, [cs EXCEPT ![c] = new])
  BY <1>2, TamerOfOne
<1>5. QED
  BY <1>3, <1>4

LEMMA SignalledIsTamer ==
    ASSUME NEW cs \in ChildTable, NEW c \in Processes!Children, NEW signal, NEW held \in BOOLEAN
    PROVE  Tamer(cs, Processes!Signalled(cs, c, signal, held))
<1> DEFINE new == [cs[c] EXCEPT !.term = TRUE]
<1>1. cs[c] \in ChildRecord
  BY DEF ChildTable
<1>2. new \in ChildRecord /\ new.pid = cs[c].pid /\ new.entry = cs[c].entry /\ new.kind = cs[c].kind /\ new.expiry = cs[c].expiry /\ new.os = cs[c].os
  BY <1>1 DEF ChildRecord
<1>3. [cs EXCEPT ![c].term = TRUE] = [cs EXCEPT ![c] = new]
  BY DEF ChildTable
<1> HIDE DEF new
<1>4. Tamer(cs, [cs EXCEPT ![c] = new])
  BY <1>2, TamerOfOne
<1>5. cs[c].os = "alive" => Tamer(cs, Processes!Ended(cs, c, FALSE, held))
  BY EndedIsTamer
<1>6. QED
  BY <1>3, <1>4, <1>5, TamerOfItself DEF Processes!Signalled

LEMMA SettledIsTamer ==
    ASSUME NEW cs \in ChildTable, NEW c \in Processes!Children
    PROVE  Tamer(cs, Processes!Settled(cs, c))
<1> DEFINE new == [cs[c] EXCEPT !.answered = TRUE, !.timer = FALSE, !.grace = FALSE]
<1>1. cs[c] \in ChildRecord
  BY DEF ChildTable
<1>2. new \in ChildRecord /\ new.pid = cs[c].pid /\ new.entry = cs[c].entry /\ new.kind = cs[c].kind /\ new.expiry = cs[c].expiry /\ new.os = cs[c].os
  BY <1>1 DEF ChildRecord
<1>3. Processes!Settled(cs, c) = [cs EXCEPT ![c] = new]
  BY DEF Processes!Settled, ChildTable
<1> HIDE DEF new
<1>4. Tamer(cs, [cs EXCEPT ![c] = new])
  BY <1>2, TamerOfOne
<1>5. QED
  BY <1>3, <1>4

LEMMA DroppedIsTamer ==
    ASSUME NEW cs \in ChildTable, NEW c \in Processes!Children
    PROVE  Tamer(cs, Processes!Dropped(cs, c))
<1> DEFINE new == [cs[c] EXCEPT !.force = FALSE, !.expiry = FALSE]
<1>1. cs[c] \in ChildRecord
  BY DEF ChildTable
<1>2. new \in ChildRecord /\ new.pid = cs[c].pid /\ new.entry = cs[c].entry /\ new.kind = cs[c].kind /\ ~new.expiry /\ new.os = cs[c].os
  BY <1>1 DEF ChildRecord
<1>3. Processes!Dropped(cs, c) = [cs EXCEPT ![c] = new]
  BY DEF Processes!Dropped, ChildTable
<1> HIDE DEF new
<1>4. Tamer(cs, [cs EXCEPT ![c] = new])
  BY <1>2, TamerOfOne
<1>5. QED
  BY <1>3, <1>4

\* A signal to a pid that may have no row.
LEMMA KillIsTamer ==
    ASSUME NEW cs \in ChildTable, table \in Rows, NEW p \in Pids, NEW signal, NEW force \in BOOLEAN, NEW held \in BOOLEAN
    PROVE  Tamer(cs, Processes!Kill(cs, p, signal, force, held))
<1> DEFINE c == table[p]
           ds == Processes!Signalled(cs, c, signal, held)
           armed == ds[c].force \/ (force /\ signal # "SIGKILL")
           new == [ds[c] EXCEPT !.force = armed]
<1>1. Processes!Kill(cs, p, signal, force, held) = cs \/ (c \in Processes!Children /\ Processes!Kill(cs, p, signal, force, held) = [ds EXCEPT ![c] = new])
  <2>1. c \in Processes!Children \/ c = Processes!None
    BY DEF Rows
  <2> HIDE DEF ds
  <2>2. ds = Processes!Signalled(cs, c, signal, held)
    BY DEF ds
  <2>3. [ds EXCEPT ![c].force = @ \/ (force /\ signal # "SIGKILL")] = [ds EXCEPT ![c] = new]
    OBVIOUS
  <2>4. QED
    BY <2>1, <2>2, <2>3, Zenon DEF Processes!Kill
<1>2. CASE c \in Processes!Children
  <2> HIDE DEF c
  <2>1. Tamer(cs, ds)
    BY <1>2, SignalledIsTamer
  <2> HIDE DEF ds
  <2>2. ds \in ChildTable /\ ds[c] \in ChildRecord
    BY <1>2, <2>1 DEF Tamer, ChildTable
  <2>3. armed \in BOOLEAN
    OBVIOUS
  <2> HIDE DEF armed
  <2>4. new \in ChildRecord /\ new.pid = ds[c].pid /\ new.entry = ds[c].entry /\ new.kind = ds[c].kind /\ new.expiry = ds[c].expiry /\ new.os = ds[c].os
    BY <2>2, <2>3 DEF ChildRecord
  <2> HIDE DEF new
  <2>5. Tamer(ds, [ds EXCEPT ![c] = new])
    BY <2>2, <2>4, TamerOfOne
  <2>6. QED
    BY <1>1, <2>1, <2>5, TamerOfTamer, TamerOfItself
<1>3. QED
  BY <1>1, <1>2, TamerOfItself

\* A flag of a child is set or goes.
LEMMA FlagIsTamer ==
    ASSUME NEW cs \in ChildTable, NEW c \in Processes!Children,
           NEW new \in {[cs[c] EXCEPT !.over = TRUE], [cs[c] EXCEPT !.timer = FALSE], [cs[c] EXCEPT !.timer = FALSE, !.grace = TRUE],
                        [cs[c] EXCEPT !.held = FALSE], [cs[c] EXCEPT !.force = FALSE], [cs[c] EXCEPT !.expiry = FALSE],
                        [cs[c] EXCEPT !.doomed = TRUE]}
    PROVE  Tamer(cs, [cs EXCEPT ![c] = new])
<1>1. cs[c] \in ChildRecord
  BY DEF ChildTable
<1>2. /\ new \in ChildRecord /\ new.pid = cs[c].pid /\ new.entry = cs[c].entry /\ new.kind = cs[c].kind
      /\ new.expiry => cs[c].expiry
      /\ new.os = cs[c].os
  BY <1>1 DEF ChildRecord
<1>3. QED
  BY <1>2, TamerOfOne

\* The entry of a process that has ended.
LEMMA FinishedKeeps ==
    ASSUME NEW cs, NEW t, ProcessesGood(cs, t), NEW c \in Processes!Children, cs[c].os # "alive"
    PROVE  ProcessesGood(Processes!Finished(cs, c), t)
<1> DEFINE new == [cs[c] EXCEPT !.entry = "exited", !.force = FALSE, !.expiry = TRUE]
<1>1. cs \in ChildTable /\ ListedWell(cs, t) /\ t \in Rows /\ cs[c] \in ChildRecord
  BY DEF ProcessesGood, ChildTable
<1>2. CASE cs[c].entry # "running"
  BY <1>2 DEF Processes!Finished
<1>3. CASE cs[c].entry = "running"
  <2>1. /\ new \in ChildRecord /\ new.pid = cs[c].pid /\ new.entry = "exited" /\ new.kind = cs[c].kind
        /\ new.os = cs[c].os
    BY <1>1 DEF ChildRecord
  <2>2. Processes!Finished(cs, c) = [cs EXCEPT ![c] = new]
    BY <1>1, <1>3 DEF Processes!Finished, ChildTable
  <2> HIDE DEF new
  <2>3. [cs EXCEPT ![c] = new] \in ChildTable
    BY <1>1, <2>1 DEF ChildTable
  <2>4. ListedWell([cs EXCEPT ![c] = new], t)
    <3>1. [cs EXCEPT ![c] = new][c] = new /\ \A b \in Processes!Children \ {c} : [cs EXCEPT ![c] = new][b] = cs[b]
      BY <1>1 DEF ChildTable
    <3> DEFINE ds == [cs EXCEPT ![c] = new]
    <3>2. ds[c] = new /\ \A b \in Processes!Children \ {c} : ds[b] = cs[b]
      BY <3>1
    <3> HIDE DEF ds
    <3>3. ListedWell(ds, t)
      BY <1>1, <1>3, <2>1, <3>2 DEF ListedWell
    <3>4. QED
      BY <3>3 DEF ds
  <2>5. QED
    BY <1>1, <2>2, <2>3, <2>4 DEF ProcessesGood
<1>4. QED
  BY <1>2, <1>3

\* Only rows of processes that have ended go.
LEMMA PruneKeeps ==
    ASSUME NEW cs, NEW t, ProcessesGood(cs, t), Processes!Prune(t, cs)
    PROVE  ProcessesGood(child', table')
<1> DEFINE gone == Processes!Prunable(t, cs)
<1>1. cs \in ChildTable /\ ListedWell(cs, t) /\ t \in Rows
  BY DEF ProcessesGood
<1>2. gone \subseteq {c \in Processes!Children : cs[c].entry = "exited"}
  BY DEF Processes!Prunable
<1>3. /\ table' = [p \in DOMAIN t |-> IF t[p] \in gone THEN Processes!None ELSE t[p]]
      /\ child' = [c \in Processes!Children |-> IF c \in gone THEN Processes!Dropped(cs, c)[c] ELSE cs[c]]
  BY DEF Processes!Prune
<1> HIDE DEF gone
<1>4. Tamer(cs, child')
  <2>1. \A c \in Processes!Children : Tamer(cs, Processes!Dropped(cs, c))
    BY <1>1, DroppedIsTamer
  <2>2. \A c \in Processes!Children : child'[c] = cs[c] \/ child'[c] = Processes!Dropped(cs, c)[c]
    BY <1>3
  <2>3. child' \in ChildTable
    BY <1>1, <1>3, <2>1 DEF Tamer, ChildTable
  <2>4. QED
    BY <2>1, <2>2, <2>3 DEF Tamer
<1>5. ProcessesGood(child', t)
  BY <1>4, TamerKeeps
<1>6. table' \in Rows /\ \A p \in Pids : table'[p] = t[p] \/ (t[p] \in gone /\ table'[p] = Processes!None)
  BY <1>1, <1>3 DEF Rows
<1>7. \A c \in Processes!Children : child'[c].os = "alive" => c \notin gone
  <2>1. \A c \in Processes!Children : child'[c].os = "alive" => child'[c].entry = "running"
    BY <1>5 DEF ProcessesGood, ListedWell
  <2>2. \A c \in Processes!Children : child'[c].entry = cs[c].entry
    BY <1>4 DEF Tamer
  <2>3. QED
    BY <1>2, <2>1, <2>2
<1>8. Pid \subseteq Pids
  BY DEF Pids
<1>9. ListedWell(child', table')
  <2>1. ListedWell(child', t)
    BY <1>5 DEF ProcessesGood
  <2>2. QED
    BY <1>6, <1>7, <1>8, <2>1, PidsDiffer DEF ListedWell
<1>10. QED
  BY <1>5, <1>6, <1>9 DEF ProcessesGood

\* What a step does with the current run of an instance.
LEMMA ClearedIsTyped ==
    ASSUME ProcessesInv, NEW c
    PROVE  Processes!Cleared(c) \in [Instance -> Pids \cup {Processes!None}]
BY DEF ProcessesInv, Processes!Cleared

\* A process starts under a pid that no process has that runs.
LEMMA StartKeeps ==
    ASSUME ProcessesInv, NEW c \in Processes!Children, NEW i \in Instance, NEW kind \in {"run", "spawn", "forward"}, NEW p \in Pids,
           Processes!Start(c, i, kind, p)
    PROVE  ProcessesInv'
<1> DEFINE os == IF p = Processes!FailedPid THEN "failed" ELSE "alive"
           timer == kind # "forward"
           new == [Processes!NoChild EXCEPT !.os = os, !.pid = p, !.inst = i, !.kind = kind, !.entry = "running", !.timer = timer]
           cs == IF table[p] = Processes!None THEN child ELSE Processes!Dropped(child, table[p])
           ds == [cs EXCEPT ![c] = new]
           rows == [table EXCEPT ![p] = c]
<1>1. ProcessesGood(child, table) /\ child \in ChildTable /\ table \in Rows /\ current \in [Instance -> Pids \cup {Processes!None}]
  BY DEF ProcessesInv, ProcessesGood
<1>2. /\ child[c].os = "none"
      /\ p # Processes!FailedPid => \A b \in Processes!Children : child[b].os = "alive" => child[b].pid # p
      /\ Processes!Prune(rows, ds)
      /\ current' = IF kind = "run" THEN [current EXCEPT ![i] = p] ELSE current
  BY Zenon DEF Processes!Start, Processes!Alive
<1>3. current' \in [Instance -> Pids \cup {Processes!None}]
  BY <1>1, <1>2
<1>4. Tamer(child, cs)
  <2>1. table[p] \in Processes!Children \cup {Processes!None}
    BY <1>1 DEF Rows
  <2>2. QED
    BY <1>1, <2>1, DroppedIsTamer, TamerOfItself
<1>5. ProcessesGood(cs, table)
  <2> HIDE DEF cs
  <2>1. QED
    BY <1>1, <1>4, TamerKeeps
<1>6. /\ new \in ChildRecord /\ new.pid = p /\ new.entry = "running" /\ new.os = os /\ new.expiry = FALSE
  <2>1. os \in {"alive", "failed"} /\ timer \in BOOLEAN
    OBVIOUS
  <2> HIDE DEF os, timer
  <2>2. QED
    BY <2>1 DEF Processes!NoChild, ChildRecord, Os
<1>7. (os = "alive" => p \in Pid) /\ os # "none" /\ p # Processes!None
  BY PidsDiffer DEF Pids
<1>8. cs[c].os = "none" /\ \A b \in Processes!Children : cs[b].os = "alive" => cs[b].pid # p
  <2>1. cs[c].os = "none"
    BY <1>2, <1>4 DEF Tamer
  <2>2. ASSUME NEW b \in Processes!Children, cs[b].os = "alive" PROVE cs[b].pid # p
    <3>1. child[b].os = "alive" /\ cs[b].pid = child[b].pid
      BY <1>4, <2>2 DEF Tamer
    <3>2. child[b].pid \in Pid
      BY <1>1, <3>1 DEF ProcessesGood, ListedWell
    <3>3. QED
      BY <1>2, <3>1, <3>2, PidsDiffer
  <2>3. QED
    BY <2>1, <2>2
<1> HIDE DEF os, timer, new, cs
<1>9. ds \in ChildTable /\ rows \in Rows
  BY <1>1, <1>5, <1>6 DEF ProcessesGood, ChildTable, Rows
<1>10. /\ ds[c] = new /\ \A b \in Processes!Children \ {c} : ds[b] = cs[b]
       /\ rows[p] = c /\ \A q \in Pids \ {p} : rows[q] = table[q]
  BY <1>1, <1>5 DEF ProcessesGood, ChildTable, Rows
<1>11. Pid \subseteq Pids
  BY DEF Pids
<1> HIDE DEF ds, rows
<1>12. ListedWell(cs, table)
  BY <1>5 DEF ProcessesGood
<1>13. \A q \in Pids : table[q] # c
  BY <1>8, <1>12, PidsDiffer DEF ListedWell
<1>14. ASSUME NEW b \in Processes!Children
       PROVE  /\ ds[b].os = "alive" => ds[b].pid \in Pid /\ rows[ds[b].pid] = b /\ ds[b].entry = "running"
              /\ \A q \in Pids : rows[q] = b => ds[b].pid = q
              /\ ds[b].expiry => ds[b].entry = "exited"
              /\ ds[b].os = "none" <=> ds[b].pid = Processes!None
              /\ ds[b].os = "none" => ds[b].entry = "none" /\ ds[b].kind = "none"
  <2>1. CASE b = c
    <3>1. ds[b] = new
      BY <1>10, <2>1
    <3>2. \A q \in Pids : rows[q] = b => q = p
      BY <1>10, <1>13, <2>1
    <3>3. QED
      BY <1>6, <1>7, <1>10, <2>1, <3>1, <3>2
  <2>2. CASE b # c
    <3>1. ds[b] = cs[b]
      BY <1>10, <2>2
    <3>2. \A q \in Pids : rows[q] = b => table[q] = b
      BY <1>10, <2>2
    <3>3. cs[b].os = "alive" => rows[cs[b].pid] = b
      BY <1>8, <1>10, <1>11, <1>12 DEF ListedWell
    <3>4. QED
      BY <1>12, <3>1, <3>2, <3>3 DEF ListedWell
  <2>3. QED
    BY <2>1, <2>2
<1>15. ProcessesGood(ds, rows)
  BY <1>9, <1>14 DEF ProcessesGood, ListedWell
<1>16. ProcessesGood(child', table')
  <2>1. Processes!Prune(rows, ds)
    BY <1>2 DEF ds, rows, cs, new, os, timer
  <2>2. QED
    BY <1>15, <2>1, PruneKeeps
<1>17. QED
  BY <1>3, <1>16 DEF ProcessesInv

\* A step that tames the children, and leaves the table.
LEMMA TamerStep ==
    ASSUME ProcessesInv, Tamer(child, child'), UNCHANGED table, current' \in [Instance -> Pids \cup {Processes!None}]
    PROVE  ProcessesInv'
<1>1. ProcessesGood(child', table)
  BY TamerKeeps DEF ProcessesInv
<1>2. QED
  BY <1>1 DEF ProcessesInv

\* The pid of a process that was started.
LEMMA StartedHasPid ==
    ASSUME ProcessesInv, NEW c \in Processes!Children, child[c].kind # "none" \/ child[c].entry # "none"
    PROVE  child[c].pid \in Pids
<1>1. child[c] \in ChildRecord /\ child[c].os # "none"
  BY DEF ProcessesInv, ProcessesGood, ListedWell, ChildTable
<1>2. child[c].pid \in Pids \cup {Processes!None} /\ child[c].pid # Processes!None
  BY <1>1 DEF ProcessesInv, ProcessesGood, ListedWell, ChildRecord
<1>3. QED
  BY <1>2

LEMMA ExitKeeps ==
    ASSUME ProcessesInv, NEW c \in Processes!Children, NEW signal \in BOOLEAN, NEW held \in BOOLEAN, Processes!Exit(c, signal, held)
    PROVE  ProcessesInv'
<1>1. child \in ChildTable /\ current \in [Instance -> Pids \cup {Processes!None}]
  BY DEF ProcessesInv, ProcessesGood
<1>2. child[c].os = "alive" /\ child' = Processes!Ended(child, c, ~signal, held) /\ UNCHANGED <<table, current>>
  BY DEF Processes!Exit, Processes!Alive
<1>3. Tamer(child, child')
  <2>1. ASSUME NEW code \in BOOLEAN PROVE Tamer(child, Processes!Ended(child, c, code, held))
    BY <1>1, <1>2, EndedIsTamer
  <2>2. (~signal) \in BOOLEAN
    BY Zenon
  <2>3. QED
    BY <1>2, <2>1, <2>2
<1>4. QED
  BY <1>1, <1>2, <1>3, TamerStep

LEMMA CloseKeeps ==
    ASSUME ProcessesInv, NEW c \in Processes!Children, NEW failed \in BOOLEAN, Processes!Close(c, failed)
    PROVE  ProcessesInv'
<1> DEFINE shut == [child EXCEPT ![c].over = TRUE]
           cs == Processes!Finished(shut, c)
<1>1. child \in ChildTable /\ ProcessesGood(child, table) /\ child[c].os = "ended"
  BY DEF ProcessesInv, ProcessesGood, Processes!Close
<1>2. Tamer(child, shut)
  <2>1. shut = [child EXCEPT ![c] = [child[c] EXCEPT !.over = TRUE]]
    OBVIOUS
  <2>2. Tamer(child, [child EXCEPT ![c] = [child[c] EXCEPT !.over = TRUE]])
    BY <1>1, FlagIsTamer
  <2>3. QED
    BY <2>1, <2>2
<1> HIDE DEF shut
<1>3. ProcessesGood(shut, table) /\ shut[c].os = "ended"
  BY <1>1, <1>2, TamerKeeps DEF Tamer
<1>4. ProcessesGood(cs, table)
  BY <1>3, FinishedKeeps
<1>5. Processes!Prune(table, cs) \/ Processes!Prune(table, Processes!Settled(cs, c))
  BY Zenon DEF Processes!Close, shut
<1> HIDE DEF cs
<1>6. ProcessesGood(Processes!Settled(cs, c), table)
  <2>1. Tamer(cs, Processes!Settled(cs, c))
    BY <1>4, SettledIsTamer DEF ProcessesGood
  <2>2. QED
    BY <1>4, <2>1, TamerKeeps
<1>7. ProcessesGood(child', table')
  BY <1>4, <1>5, <1>6, PruneKeeps
<1>8. current' \in [Instance -> Pids \cup {Processes!None}]
  BY ClearedIsTyped DEF Processes!Close
<1>9. QED
  BY <1>7, <1>8 DEF ProcessesInv

LEMMA ErrorKeeps ==
    ASSUME ProcessesInv, NEW c \in Processes!Children, Processes!Error(c)
    PROVE  ProcessesInv'
<1> DEFINE shut == [child EXCEPT ![c].over = TRUE]
           own == Processes!Finished(shut, c)
           row == table[Processes!FailedPid]
           marked == Processes!Finished(own, row)
<1>1. child \in ChildTable /\ ProcessesGood(child, table) /\ child[c].os = "failed" /\ table \in Rows
  BY DEF ProcessesInv, ProcessesGood, Processes!Error
<1>2. Tamer(child, shut)
  <2>1. shut = [child EXCEPT ![c] = [child[c] EXCEPT !.over = TRUE]]
    OBVIOUS
  <2>2. Tamer(child, [child EXCEPT ![c] = [child[c] EXCEPT !.over = TRUE]])
    BY <1>1, FlagIsTamer
  <2>3. QED
    BY <2>1, <2>2
<1> HIDE DEF shut
<1>3. ProcessesGood(shut, table) /\ shut[c].os = "failed"
  BY <1>1, <1>2, TamerKeeps DEF Tamer
<1>4. ProcessesGood(own, table)
  BY <1>3, FinishedKeeps
<1>5. PICK cs \in {own, marked} : (cs = marked => cs = own \/ row # Processes!None)
                                  /\ (Processes!Prune(table, cs) \/ Processes!Prune(table, Processes!Settled(cs, c)))
  BY Zenon DEF Processes!Error, shut
<1> HIDE DEF own
<1>6. ProcessesGood(cs, table)
  <2>1. CASE cs = own
    BY <1>4, <2>1
  <2>2. CASE cs = marked /\ row # Processes!None
    <3>1. Processes!FailedPid \in Pids /\ row \in Processes!Children
      BY <1>1, <2>2 DEF Pids, Rows
    <3>2. own[row].pid = Processes!FailedPid
      BY <1>4, <3>1 DEF ProcessesGood, ListedWell
    <3>3. own[row].os # "alive"
      BY <1>4, <3>1, <3>2, PidsDiffer DEF ProcessesGood, ListedWell
    <3> HIDE DEF row
    <3>4. QED
      BY <1>4, <2>2, <3>1, <3>3, FinishedKeeps
  <2>3. QED
    BY <1>5, <2>1, <2>2
<1> HIDE DEF marked
<1>7. ProcessesGood(Processes!Settled(cs, c), table)
  <2>1. Tamer(cs, Processes!Settled(cs, c))
    BY <1>6, SettledIsTamer DEF ProcessesGood
  <2>2. QED
    BY <1>6, <2>1, TamerKeeps
<1>8. ProcessesGood(child', table')
  BY <1>5, <1>6, <1>7, PruneKeeps
<1>9. current' \in [Instance -> Pids \cup {Processes!None}]
  BY ClearedIsTyped DEF Processes!Error
<1>10. QED
  BY <1>8, <1>9 DEF ProcessesInv

LEMMA ReleaseKeeps ==
    ASSUME ProcessesInv, NEW c \in Processes!Children, Processes!Release(c)
    PROVE  ProcessesInv'
<1>1. child \in ChildTable /\ current \in [Instance -> Pids \cup {Processes!None}]
  BY DEF ProcessesInv, ProcessesGood
<1>2. child' = [child EXCEPT ![c] = [child[c] EXCEPT !.held = FALSE]] /\ UNCHANGED <<table, current>>
  BY DEF Processes!Release
<1>3. Tamer(child, [child EXCEPT ![c] = [child[c] EXCEPT !.held = FALSE]])
  BY <1>1, FlagIsTamer
<1>4. QED
  BY <1>1, <1>2, <1>3, TamerStep

LEMMA RunTimesOutKeeps ==
    ASSUME ProcessesInv, NEW c \in Processes!Children, Processes!RunTimesOut(c)
    PROVE  ProcessesInv'
<1> DEFINE plain == [child[c] EXCEPT !.timer = FALSE]
           graced == [child[c] EXCEPT !.timer = FALSE, !.grace = TRUE]
           cs == [child EXCEPT ![c] = graced]
<1>1. /\ child \in ChildTable /\ table \in Rows /\ current \in [Instance -> Pids \cup {Processes!None}]
      /\ child[c].kind = "run" /\ UNCHANGED <<table, current>>
  BY DEF ProcessesInv, ProcessesGood, Processes!RunTimesOut
<1>2. child[c].pid \in Pids
  BY <1>1, StartedHasPid
<1>3. Tamer(child, [child EXCEPT ![c] = plain]) /\ Tamer(child, cs)
  BY <1>1, FlagIsTamer
<1>4. \/ child' = [child EXCEPT ![c] = plain]
      \/ child' = Processes!Kill(cs, child[c].pid, "SIGTERM", TRUE, FALSE)
  <2>1. /\ [child EXCEPT ![c].timer = FALSE] = [child EXCEPT ![c] = plain]
        /\ [child EXCEPT ![c].timer = FALSE, ![c].grace = TRUE] = cs
    BY <1>1 DEF ChildTable
  <2> HIDE DEF plain, cs
  <2>2. QED
    BY <2>1 DEF Processes!RunTimesOut
<1> HIDE DEF cs, plain
<1>5. Tamer(cs, Processes!Kill(cs, child[c].pid, "SIGTERM", TRUE, FALSE))
  <2>1. cs \in ChildTable
    BY <1>3 DEF Tamer
  <2>2. QED
    BY <1>1, <1>2, <2>1, KillIsTamer
<1>6. Tamer(child, child')
  BY <1>3, <1>4, <1>5, TamerOfTamer
<1>7. QED
  BY <1>1, <1>6, TamerStep

LEMMA SettleKeeps ==
    ASSUME ProcessesInv, NEW c \in Processes!Children, Processes!GraceEnds(c) \/ Processes!Confirm(c)
    PROVE  ProcessesInv'
<1>1. child \in ChildTable /\ current \in [Instance -> Pids \cup {Processes!None}]
  BY DEF ProcessesInv, ProcessesGood
<1>2. child' = Processes!Settled(child, c) /\ UNCHANGED table /\ current' \in {current, Processes!Cleared(c)}
  BY DEF Processes!GraceEnds, Processes!Confirm
<1>3. Tamer(child, child')
  BY <1>1, <1>2, SettledIsTamer
<1>4. current' \in [Instance -> Pids \cup {Processes!None}]
  BY <1>1, <1>2, ClearedIsTyped
<1>5. QED
  BY <1>2, <1>3, <1>4, TamerStep

LEMMA ForceFiresKeeps ==
    ASSUME ProcessesInv, NEW c \in Processes!Children, NEW held \in BOOLEAN, Processes!ForceFires(c, held)
    PROVE  ProcessesInv'
<1> DEFINE cs == [child EXCEPT ![c].force = FALSE]
<1>1. child \in ChildTable /\ current \in [Instance -> Pids \cup {Processes!None}]
  BY DEF ProcessesInv, ProcessesGood
<1>2. UNCHANGED <<table, current>> /\ (child' = cs \/ child' = Processes!Signalled(cs, c, "SIGKILL", held))
  BY Zenon DEF Processes!ForceFires
<1>3. Tamer(child, cs)
  <2>1. cs = [child EXCEPT ![c] = [child[c] EXCEPT !.force = FALSE]]
    OBVIOUS
  <2>2. Tamer(child, [child EXCEPT ![c] = [child[c] EXCEPT !.force = FALSE]])
    BY <1>1, FlagIsTamer
  <2>3. QED
    BY <2>1, <2>2
<1> HIDE DEF cs
<1>4. Tamer(cs, Processes!Signalled(cs, c, "SIGKILL", held))
  BY <1>3, SignalledIsTamer DEF Tamer
<1>5. Tamer(child, child')
  BY <1>2, <1>3, <1>4, TamerOfTamer
<1>6. QED
  BY <1>1, <1>2, <1>5, TamerStep

\* The row goes if it is still this entry's, and the entry is of a process that has ended.
LEMMA ExpiryFiresKeeps ==
    ASSUME ProcessesInv, NEW c \in Processes!Children, Processes!ExpiryFires(c)
    PROVE  ProcessesInv'
<1>1. /\ child \in ChildTable /\ ProcessesGood(child, table) /\ ListedWell(child, table) /\ table \in Rows
      /\ current \in [Instance -> Pids \cup {Processes!None}]
  BY DEF ProcessesInv, ProcessesGood
<1>2. child[c].expiry /\ UNCHANGED current
  BY DEF Processes!ExpiryFires
<1>3. CASE child' = [child EXCEPT ![c].expiry = FALSE] /\ UNCHANGED table
  <2>1. child' = [child EXCEPT ![c] = [child[c] EXCEPT !.expiry = FALSE]]
    BY <1>3
  <2>2. Tamer(child, [child EXCEPT ![c] = [child[c] EXCEPT !.expiry = FALSE]])
    BY <1>1, FlagIsTamer
  <2>3. QED
    BY <1>1, <1>2, <1>3, <2>1, <2>2, TamerStep
<1>4. CASE /\ table[child[c].pid] = c /\ child' = Processes!Dropped(child, c)
           /\ table' = [table EXCEPT ![child[c].pid] = Processes!None]
  <2>1. Tamer(child, child')
    BY <1>1, <1>4, DroppedIsTamer
  <2>2. ProcessesGood(child', table)
    BY <1>1, <2>1, TamerKeeps
  <2>3. child'[c].os # "alive"
    <3>1. child[c].os # "alive"
      BY <1>1, <1>2 DEF ListedWell
    <3>2. QED
      BY <2>1, <3>1 DEF Tamer
  <2>4. table' \in Rows
    BY <1>1, <1>4 DEF Rows
  <2>5. \A p \in Pids : table'[p] = table[p] \/ (table'[p] = Processes!None /\ p = child[c].pid)
    BY <1>1, <1>4 DEF Rows
  <2>6. ListedWell(child', table')
    <3>1. ListedWell(child', table) /\ Pid \subseteq Pids
      BY <2>2 DEF ProcessesGood, Pids
    <3>2. \A b \in Processes!Children : child'[b].os = "alive" => table'[child'[b].pid] = b
      <4> SUFFICES ASSUME NEW b \in Processes!Children, child'[b].os = "alive" PROVE table'[child'[b].pid] = b
        OBVIOUS
      <4>1. child'[b].pid \in Pids /\ table[child'[b].pid] = b
        BY <3>1 DEF ListedWell
      <4>2. child'[b].pid # child[c].pid
        BY <1>4, <2>3, <4>1
      <4>3. QED
        BY <2>5, <4>1, <4>2
    <3>3. \A b \in Processes!Children : \A p \in Pids : table'[p] = b => table[p] = b
      BY <2>5, PidsDiffer
    <3>4. QED
      BY <3>1, <3>2, <3>3 DEF ListedWell
  <2>7. QED
    BY <1>1, <1>2, <2>2, <2>4, <2>6 DEF ProcessesInv, ProcessesGood
<1>5. QED
  BY <1>3, <1>4 DEF Processes!ExpiryFires, Processes!Removed

\* What signals a pid.
LEMMA KillStep ==
    ASSUME ProcessesInv, NEW p \in Pids, NEW signal, NEW force \in BOOLEAN, NEW held \in BOOLEAN,
           child' = Processes!Kill(child, p, signal, force, held), UNCHANGED <<table, current>>
    PROVE  ProcessesInv'
<1>1. child \in ChildTable /\ table \in Rows /\ current \in [Instance -> Pids \cup {Processes!None}]
  BY DEF ProcessesInv, ProcessesGood
<1>2. Tamer(child, Processes!Kill(child, p, signal, force, held))
  BY <1>1, KillIsTamer
<1>3. QED
  BY <1>1, <1>2, TamerStep

LEMMA AbortKeeps ==
    ASSUME ProcessesInv, NEW c \in Processes!Children, Processes!Abort(c)
    PROVE  ProcessesInv'
<1>1. child[c].kind = "forward" /\ child' = Processes!Kill(child, child[c].pid, "SIGINT", TRUE, FALSE) /\ UNCHANGED <<table, current>>
  BY DEF Processes!Abort
<1>2. child[c].pid \in Pids
  BY <1>1, StartedHasPid
<1>3. QED
  BY <1>1, <1>2, KillStep

LEMMA InterruptKeeps ==
    ASSUME ProcessesInv, NEW i \in Instance, Processes!Interrupt(i)
    PROVE  ProcessesInv'
<1>1. current[i] # Processes!None /\ child' = Processes!Kill(child, current[i], "SIGINT", TRUE, FALSE) /\ UNCHANGED <<table, current>>
  BY DEF Processes!Interrupt
<1>2. current[i] \in Pids
  BY <1>1 DEF ProcessesInv
<1>3. QED
  BY <1>1, <1>2, KillStep

LEMMA KillCommandKeeps ==
    ASSUME ProcessesInv, NEW i \in Instance, NEW p \in Pid, NEW signal, NEW force \in BOOLEAN, NEW held \in BOOLEAN,
           Processes!KillCommand(i, p, signal, force, held)
    PROVE  ProcessesInv'
<1>1. child' = Processes!Kill(child, p, signal, force, held) /\ UNCHANGED <<table, current>> /\ p \in Pids
  BY DEF Processes!KillCommand, Pids
<1>2. QED
  BY <1>1, KillStep

LEMMA TerminateKeeps ==
    ASSUME ProcessesInv, NEW i \in Instance, Processes!Terminate(i)
    PROVE  ProcessesInv'
<1> DEFINE killed(c) == Processes!Kill(child, child[c].pid, "SIGTERM", TRUE, FALSE)
           new(c) == [killed(c)[c] EXCEPT !.doomed = TRUE]
<1>1. child \in ChildTable /\ table \in Rows /\ current \in [Instance -> Pids \cup {Processes!None}]
  BY DEF ProcessesInv, ProcessesGood
<1>2. /\ UNCHANGED table /\ current' = [current EXCEPT ![i] = Processes!None]
      /\ child' = [c \in Processes!Children |-> IF c \in Processes!Owned(i) THEN new(c) ELSE child[c]]
  BY Zenon DEF Processes!Terminate
<1>3. current' \in [Instance -> Pids \cup {Processes!None}]
  BY <1>1, <1>2
<1>4. ASSUME NEW c \in Processes!Owned(i) PROVE Tamer(child, [killed(c) EXCEPT ![c] = new(c)])
  <2>1. c \in Processes!Children /\ child[c].pid \in Pids
    BY StartedHasPid DEF Processes!Owned
  <2>2. Tamer(child, killed(c))
    BY <1>1, <2>1, KillIsTamer
  <2> HIDE DEF killed
  <2>3. killed(c) \in ChildTable
    BY <2>2 DEF Tamer
  <2>4. Tamer(killed(c), [killed(c) EXCEPT ![c] = new(c)])
    BY <2>1, <2>3, FlagIsTamer
  <2> HIDE DEF new
  <2>5. QED
    BY <2>2, <2>4, TamerOfTamer
<1>5. ASSUME NEW c \in Processes!Owned(i)
      PROVE  /\ new(c) \in ChildRecord /\ new(c).pid = child[c].pid /\ new(c).entry = child[c].entry /\ new(c).kind = child[c].kind
             /\ new(c).expiry => child[c].expiry
             /\ new(c).os = child[c].os \/ (child[c].os = "alive" /\ new(c).os = "ended")
  <2>1. c \in Processes!Children
    BY DEF Processes!Owned
  <2> DEFINE ds == [killed(c) EXCEPT ![c] = new(c)]
  <2>2. Tamer(child, ds)
    BY <1>4
  <2>3. ds[c] = new(c) /\ ds[c] \in ChildRecord
    <3>1. child[c].pid \in Pids
      BY <2>1, StartedHasPid DEF Processes!Owned
    <3>2. Tamer(child, killed(c))
      BY <1>1, <3>1, KillIsTamer
    <3> HIDE DEF killed, new
    <3>3. killed(c) \in ChildTable /\ ds \in ChildTable
      BY <2>2, <3>2 DEF Tamer
    <3>4. QED
      BY <2>1, <3>3 DEF ChildTable
  <2> HIDE DEF ds, new
  <2>4. QED
    BY <2>1, <2>2, <2>3 DEF Tamer
<1> HIDE DEF new
<1>6. child' \in ChildTable
  BY <1>1, <1>2, <1>5 DEF ChildTable
<1>7. \A c \in Processes!Children : child'[c] = child[c] \/ (c \in Processes!Owned(i) /\ child'[c] = new(c))
  BY <1>2
<1>8. Tamer(child, child')
  BY <1>5, <1>6, <1>7 DEF Tamer
<1>9. QED
  BY <1>2, <1>3, <1>8, TamerStep

\* Every step of the processes keeps the invariant.
LEMMA ProcessesSteps == ProcessesInv /\ Processes!Next => ProcessesInv'
<1> SUFFICES ASSUME ProcessesInv, Processes!Next PROVE ProcessesInv'
  OBVIOUS
<1>1. ASSUME NEW c \in Processes!Children, NEW i \in Instance, NEW kind \in {"run", "spawn", "forward"}, NEW p \in Pids,
             Processes!Start(c, i, kind, p)
      PROVE  ProcessesInv'
  BY <1>1, StartKeeps
<1>2. ASSUME NEW c \in Processes!Children, NEW signal \in BOOLEAN, NEW held \in BOOLEAN, Processes!Exit(c, signal, held)
      PROVE  ProcessesInv'
  BY <1>2, ExitKeeps
<1>3. ASSUME NEW c \in Processes!Children, NEW b \in BOOLEAN, Processes!Close(c, b) \/ Processes!ForceFires(c, b)
      PROVE  ProcessesInv'
  BY <1>3, CloseKeeps, ForceFiresKeeps
<1>4. ASSUME NEW c \in Processes!Children,
             \/ Processes!Release(c) \/ Processes!Error(c) \/ Processes!RunTimesOut(c) \/ Processes!GraceEnds(c)
             \/ Processes!Confirm(c) \/ Processes!ExpiryFires(c) \/ Processes!Abort(c)
      PROVE  ProcessesInv'
  BY <1>4, ReleaseKeeps, ErrorKeeps, RunTimesOutKeeps, SettleKeeps, ExpiryFiresKeeps, AbortKeeps
<1>5. ASSUME NEW i \in Instance, Processes!Interrupt(i) \/ Processes!Terminate(i) PROVE ProcessesInv'
  BY <1>5, InterruptKeeps, TerminateKeeps
<1>6. ASSUME NEW i \in Instance, NEW p \in Pid, NEW signal \in {"SIGTERM", "SIGKILL"}, NEW force \in BOOLEAN, NEW held \in BOOLEAN,
             Processes!KillCommand(i, p, signal, force, held)
      PROVE  ProcessesInv'
  BY <1>6, KillCommandKeeps
<1>7. QED
  BY <1>1, <1>2, <1>3, <1>4, <1>5, <1>6 DEF Processes!Next, Pids

\* The invariant holds what is promised of the types and the table.
LEMMA ProcessesFollow == ProcessesInv => ProcessesKept
<1> SUFFICES ASSUME ProcessesInv PROVE Processes!TypeOK /\ Processes!RunningIsListed
  BY DEF ProcessesKept
<1>1. child \in ChildTable /\ table \in Rows /\ ListedWell(child, table) /\ current \in [Instance -> Pids \cup {Processes!None}]
  BY DEF ProcessesInv, ProcessesGood
<1>2. ASSUME NEW c \in Processes!Children
      PROVE  /\ child[c].os \in {"none", "alive", "ended", "failed"}
             /\ child[c].pid \in Pid \cup {Processes!FailedPid, Processes!None} /\ child[c].inst \in Instance \cup {Processes!None}
             /\ child[c].kind \in {"none", "run", "spawn", "forward"}
             /\ child[c].entry \in {"none", "running", "exited"}
  BY <1>1 DEF ChildTable, ChildRecord, Os, Pids
<1>3. ASSUME NEW c \in Processes!Children,
             NEW f \in {"term", "code", "held", "over", "force", "expiry", "timer", "grace", "answered", "doomed"}
      PROVE  child[c][f] \in BOOLEAN
  <2>1. child[c] \in ChildRecord
    BY <1>1 DEF ChildTable
  <2>2. QED
    BY <2>1 DEF ChildRecord
<1>4. table \in [Pid \cup {Processes!FailedPid} -> Processes!Children \cup {Processes!None}]
  BY <1>1 DEF Rows, Pids
<1>5. current \in [Instance -> Pid \cup {Processes!FailedPid, Processes!None}]
  <2>1. Pids \cup {Processes!None} = Pid \cup {Processes!FailedPid, Processes!None}
    BY DEF Pids
  <2>2. QED
    BY <1>1, <2>1
<1>6. Processes!TypeOK
  BY <1>2, <1>3, <1>4, <1>5 DEF Processes!TypeOK
<1>7. Processes!RunningIsListed
  BY <1>1 DEF Processes!RunningIsListed, Processes!Alive, ListedWell
<1>8. QED
  BY <1>6, <1>7

-----------------------------------------------------------------------------
(* The terminal hub (TerminalHub).                                         *)

Turns == {"none", "next", "waiting", "resuming", "active"}
HubFlags == device \in BOOLEAN /\ interactive \in BOOLEAN /\ flushQueued \in BOOLEAN /\ disposed \in BOOLEAN
HubInput ==
    /\ typed \in 0..MaxInput
    /\ pendingInput \in Seq(Hub!Piece) /\ pendingSubmitted \in Seq(Hub!Piece) /\ got \in SUBSET Hub!Piece
    /\ Len(pendingInput) + Len(pendingSubmitted) <= Room

\* A batch has the turn only while one stands in the line.
HubBatches ==
    /\ tail \in Seq(1..MaxBatch) /\ over \in SUBSET (1..MaxBatch) /\ turn \in Turns
    /\ turn # "none" => tail # <<>>

Increasing(s) == \A i, j \in 1..Len(s) : i < j => s[i] < s[j]

\* What was shown is older than what is kept; nothing is kept beside a device; no more was kept than was written, so that
\* while there was room nothing was refused.
OutputKept(o, sh, po) ==
    /\ sh \in Seq(Nat) /\ po \in Seq(Nat) /\ Len(po) <= o
    /\ Increasing(sh) /\ Increasing(po)
    /\ \A i \in 1..Len(sh) : sh[i] \in 1..o
    /\ \A j \in 1..Len(po) : po[j] \in 1..o
    /\ \A i \in 1..Len(sh), j \in 1..Len(po) : sh[i] < po[j]
AllIsThere(o, sh, po) ==
    \A n \in 1..o : (\E i \in 1..Len(sh) : sh[i] = n) \/ (\E j \in 1..Len(po) : po[j] = n)
HubOutput ==
    /\ out \in 0..MaxOutput /\ OutputKept(out, shown, pendingOutput)
    /\ device => pendingOutput = <<>>
    /\ ~disposed /\ out <= Room => AllIsThere(out, shown, pendingOutput)

HubInv == HubFlags /\ HubInput /\ HubBatches /\ HubOutput

LEMMA HubBounds == MaxInput \in Nat /\ MaxOutput \in Nat /\ MaxBatch \in Nat /\ Room \in Nat
BY RuntimesAssumption

LEMMA HubStart == Hub!Init => HubInv
<1> SUFFICES ASSUME Hub!Init PROVE HubInv
  OBVIOUS
<1> USE HubBounds
<1>1. HubFlags
  BY DEF Hub!Init, HubFlags
<1>2. HubInput
  BY DEF Hub!Init, HubInput
<1>3. HubBatches
  BY DEF Hub!Init, HubBatches, Turns
<1>4. HubOutput
  BY DEF Hub!Init, HubOutput, OutputKept, AllIsThere, Increasing
<1>5. QED
  BY <1>1, <1>2, <1>3, <1>4 DEF HubInv

-----------------------------------------------------------------------------
(* Output.                                                                 *)

\* A number that is greater than all of a sequence, put behind it.
LEMMA LastIsLatest ==
    ASSUME NEW o \in Nat, NEW w \in Seq(Nat), Increasing(w), \A i \in 1..Len(w) : w[i] \in 1..o,
           NEW u \in Seq(Nat), Len(u) = Len(w) + 1, u[Len(w) + 1] = o + 1, \A i \in 1..Len(w) : u[i] = w[i]
    PROVE  Increasing(u) /\ \A j \in 1..Len(u) : u[j] \in 1..(o + 1)
<1>1. Len(w) \in Nat /\ \A j \in 1..Len(u) : j \in 1..Len(w) \/ j = Len(w) + 1
  OBVIOUS
<1>2. \A i \in 1..Len(w) : u[i] = w[i] /\ w[i] \in Nat /\ w[i] >= 1 /\ w[i] <= o
  OBVIOUS
<1>3. ASSUME NEW i \in 1..Len(u), NEW j \in 1..Len(u), i < j PROVE u[i] < u[j]
  <2>1. i \in 1..Len(w)
    BY <1>1, <1>3
  <2>2. CASE j \in 1..Len(w)
    <3>1. w[i] < w[j]
      BY <1>3, <2>1, <2>2 DEF Increasing
    <3>2. QED
      BY <1>2, <2>1, <2>2, <3>1
  <2>3. CASE j = Len(w) + 1
    <3>1. u[i] <= o /\ u[i] \in Nat /\ u[j] = o + 1
      BY <1>2, <2>1, <2>3
    <3>2. QED
      BY <3>1
  <2>4. QED
    BY <1>1, <2>2, <2>3
<1>4. ASSUME NEW j \in 1..Len(u) PROVE u[j] \in 1..(o + 1)
  <2>1. CASE j \in 1..Len(w)
    <3>1. u[j] \in Nat /\ u[j] >= 1 /\ u[j] <= o
      BY <1>2, <2>1
    <3>2. QED
      BY <3>1
  <2>2. CASE j = Len(w) + 1
    <3>1. u[j] = o + 1
      BY <2>2
    <3>2. QED
      BY <3>1
  <2>3. QED
    BY <1>1, <2>1, <2>2
<1>5. QED
  BY <1>3, <1>4 DEF Increasing

\* A piece of output goes to the device, or is kept as the last one.
LEMMA AppendedStays ==
    ASSUME NEW o \in Nat, NEW s, NEW t, OutputKept(o, s, t)
    PROVE  /\ OutputKept(o + 1, s, Append(t, o + 1))
           /\ AllIsThere(o, s, t) => AllIsThere(o + 1, s, Append(t, o + 1))
           /\ t = <<>> => /\ OutputKept(o + 1, Append(s, o + 1), t)
                          /\ AllIsThere(o, s, t) => AllIsThere(o + 1, Append(s, o + 1), t)
           /\ OutputKept(o + 1, s, t)
<1>1. s \in Seq(Nat) /\ t \in Seq(Nat) /\ Len(s) \in Nat /\ Len(t) \in Nat /\ o + 1 \in Nat
  BY DEF OutputKept
<1>2. /\ Append(t, o + 1) \in Seq(Nat) /\ Len(Append(t, o + 1)) = Len(t) + 1
      /\ Append(t, o + 1)[Len(t) + 1] = o + 1 /\ \A i \in 1..Len(t) : Append(t, o + 1)[i] = t[i]
  BY <1>1
<1>3. /\ Append(s, o + 1) \in Seq(Nat) /\ Len(Append(s, o + 1)) = Len(s) + 1
      /\ Append(s, o + 1)[Len(s) + 1] = o + 1 /\ \A i \in 1..Len(s) : Append(s, o + 1)[i] = s[i]
  BY <1>1
<1>4. /\ Increasing(s) /\ Increasing(t) /\ Len(t) <= o
      /\ \A i \in 1..Len(s) : s[i] \in 1..o
      /\ \A j \in 1..Len(t) : t[j] \in 1..o
      /\ \A i \in 1..Len(s), j \in 1..Len(t) : s[i] < t[j]
  BY DEF OutputKept
<1>5. OutputKept(o + 1, s, Append(t, o + 1))
  <2> DEFINE u == Append(t, o + 1)
  <2>1. u \in Seq(Nat) /\ Len(u) = Len(t) + 1 /\ u[Len(t) + 1] = o + 1 /\ \A i \in 1..Len(t) : u[i] = t[i]
    BY <1>2
  <2> HIDE DEF u
  <2>2. \A j \in 1..Len(u) : j \in 1..Len(t) \/ j = Len(t) + 1
    BY <1>1, <2>1
  <2>3. Increasing(u)
    BY <1>1, <1>4, <2>1, LastIsLatest
  <2>4. \A j \in 1..Len(u) : u[j] \in 1..(o + 1)
    BY <1>1, <1>4, <2>1, LastIsLatest
  <2>5. ASSUME NEW i \in 1..Len(s), NEW j \in 1..Len(u) PROVE s[i] < u[j]
    <3>1. CASE j \in 1..Len(t)
      BY <1>4, <2>1, <3>1
    <3>2. CASE j = Len(t) + 1
      <4>1. u[j] = o + 1 /\ s[i] \in 1..o
        BY <1>4, <2>1, <3>2
      <4>2. QED
        BY <4>1
    <3>3. QED
      BY <2>2, <3>1, <3>2
  <2>6. OutputKept(o + 1, s, u)
    BY <1>1, <1>4, <2>1, <2>3, <2>4, <2>5 DEF OutputKept
  <2>7. QED
    BY <2>6 DEF u
<1>6. AllIsThere(o, s, t) => AllIsThere(o + 1, s, Append(t, o + 1))
  <2> DEFINE u == Append(t, o + 1)
  <2>1. Len(u) = Len(t) + 1 /\ u[Len(t) + 1] = o + 1 /\ \A i \in 1..Len(t) : u[i] = t[i] /\ i \in 1..Len(u)
    BY <1>1, <1>2
  <2>2. Len(t) + 1 \in 1..Len(u)
    BY <1>1, <2>1
  <2> HIDE DEF u
  <2>3. \A n \in 1..(o + 1) : n \in 1..o \/ n = o + 1
    OBVIOUS
  <2>4. AllIsThere(o, s, t) => AllIsThere(o + 1, s, u)
    BY <2>1, <2>2, <2>3 DEF AllIsThere
  <2>5. QED
    BY <2>4 DEF u
<1>7. ASSUME t = <<>> PROVE OutputKept(o + 1, Append(s, o + 1), t) /\ (AllIsThere(o, s, t) => AllIsThere(o + 1, Append(s, o + 1), t))
  <2> DEFINE u == Append(s, o + 1)
  <2>1. u \in Seq(Nat) /\ Len(u) = Len(s) + 1 /\ u[Len(s) + 1] = o + 1 /\ \A i \in 1..Len(s) : u[i] = s[i] /\ i \in 1..Len(u)
    BY <1>1, <1>3
  <2>2. Len(s) + 1 \in 1..Len(u)
    BY <1>1, <2>1
  <2> HIDE DEF u
  <2>3. \A n \in 1..(o + 1) : n \in 1..o \/ n = o + 1
    OBVIOUS
  <2>4. \A j \in 1..Len(u) : j \in 1..Len(s) \/ j = Len(s) + 1
    BY <1>1, <2>1
  <2>5. Increasing(u)
    BY <1>1, <1>4, <2>1, LastIsLatest
  <2>6. \A j \in 1..Len(u) : u[j] \in 1..(o + 1)
    BY <1>1, <1>4, <2>1, LastIsLatest
  <2>7. Len(t) = 0
    BY <1>7
  <2>8. OutputKept(o + 1, u, t)
    BY <1>1, <1>4, <2>1, <2>5, <2>6, <2>7 DEF OutputKept
  <2>9. AllIsThere(o, s, t) => AllIsThere(o + 1, u, t)
    BY <2>1, <2>2, <2>3, <2>7 DEF AllIsThere
  <2>10. QED
    BY <2>8, <2>9 DEF u
<1>8. OutputKept(o + 1, s, t)
  BY <1>1, <1>4 DEF OutputKept
<1>9. QED
  BY <1>5, <1>6, <1>7, <1>8

\* A device takes the oldest of what was kept.
LEMMA TakenStays ==
    ASSUME NEW o \in Nat, NEW s, NEW t, OutputKept(o, s, t), NEW taken \in 0..Len(t)
    PROVE  /\ OutputKept(o, s \o SubSeq(t, 1, taken), SubSeq(t, taken + 1, Len(t)))
           /\ AllIsThere(o, s, t) => AllIsThere(o, s \o SubSeq(t, 1, taken), SubSeq(t, taken + 1, Len(t)))
           /\ taken = Len(t) => SubSeq(t, taken + 1, Len(t)) = <<>>
<1> DEFINE a == SubSeq(t, 1, taken)
           u == s \o a
           v == SubSeq(t, taken + 1, Len(t))
<1>1. s \in Seq(Nat) /\ t \in Seq(Nat) /\ Len(s) \in Nat /\ Len(t) \in Nat /\ taken \in Nat /\ taken <= Len(t)
  BY DEF OutputKept
<1>2. a \in Seq(Nat) /\ Len(a) = taken /\ \A i \in 1..taken : a[i] = t[i]
  BY <1>1, SubSeqProperties
<1>3. v \in Seq(Nat) /\ Len(v) = Len(t) - taken /\ \A i \in 1..(Len(t) - taken) : v[i] = t[taken + i]
  <2>1. taken + 1 \in 1..(Len(t) + 1) /\ Len(t) \in ((taken + 1) - 1)..Len(t)
    BY <1>1
  <2>2. v \in Seq(Nat) /\ Len(v) = Len(t) - (taken + 1) + 1 /\ \A i \in 1..(Len(t) - (taken + 1) + 1) : v[i] = t[(taken + 1) + i - 1]
    BY <1>1, <2>1, SubSeqProperties
  <2> HIDE DEF v
  <2>3. Len(t) - (taken + 1) + 1 = Len(t) - taken /\ \A i \in 1..(Len(t) - taken) : (taken + 1) + i - 1 = taken + i
    BY <1>1
  <2>4. QED
    BY <2>2, <2>3
<1> HIDE DEF a, v
<1>4. /\ u \in Seq(Nat) /\ Len(u) = Len(s) + taken
      /\ \A i \in 1..Len(s) : u[i] = s[i]
      /\ \A i \in 1..Len(u) : i > Len(s) => u[i] = t[i - Len(s)] /\ i - Len(s) \in 1..taken
  <2>1. /\ u \in Seq(Nat) /\ Len(u) = Len(s) + Len(a)
        /\ \A i \in 1..(Len(s) + Len(a)) : u[i] = IF i <= Len(s) THEN s[i] ELSE a[i - Len(s)]
    BY <1>1, <1>2, ConcatProperties
  <2> HIDE DEF u
  <2>2. \A i \in 1..Len(u) : i > Len(s) => i - Len(s) \in 1..taken /\ ~(i <= Len(s))
    BY <1>1, <1>2, <2>1
  <2>3. \A i \in 1..Len(s) : i \in 1..(Len(s) + Len(a)) /\ i <= Len(s)
    BY <1>1, <1>2
  <2>4. QED
    BY <1>2, <2>1, <2>2, <2>3
<1>5. /\ Increasing(s) /\ Increasing(t) /\ Len(t) <= o
      /\ \A i \in 1..Len(s) : s[i] \in 1..o
      /\ \A j \in 1..Len(t) : t[j] \in 1..o
      /\ \A i \in 1..Len(s), j \in 1..Len(t) : s[i] < t[j]
  BY DEF OutputKept
<1> HIDE DEF u
<1>6. \A i \in 1..Len(v) : taken + i \in 1..Len(t) /\ v[i] = t[taken + i]
  <2> SUFFICES ASSUME NEW i \in 1..Len(v) PROVE taken + i \in 1..Len(t) /\ v[i] = t[taken + i]
    OBVIOUS
  <2>1. i \in 1..(Len(t) - taken)
    BY <1>3
  <2>2. QED
    BY <1>1, <1>3, <2>1
<1>7. \A i \in 1..Len(u) : (i \in 1..Len(s) /\ u[i] = s[i]) \/ (i > Len(s) /\ i - Len(s) \in 1..Len(t) /\ i - Len(s) <= taken /\ u[i] = t[i - Len(s)])
  BY <1>1, <1>4
<1>8. Increasing(u)
  <2> SUFFICES ASSUME NEW i \in 1..Len(u), NEW j \in 1..Len(u), i < j PROVE u[i] < u[j]
    BY DEF Increasing
  <2>1. CASE j \in 1..Len(s)
    <3>1. i \in 1..Len(s)
      BY <1>1, <2>1
    <3>2. u[i] = s[i] /\ u[j] = s[j]
      BY <1>4, <2>1, <3>1
    <3>3. QED
      BY <1>5, <2>1, <3>1, <3>2 DEF Increasing
  <2>2. CASE i \in 1..Len(s) /\ j > Len(s)
    BY <1>5, <1>7, <2>2
  <2>3. CASE i > Len(s) /\ j > Len(s)
    <3>1. /\ i - Len(s) \in 1..Len(t) /\ u[i] = t[i - Len(s)] /\ j - Len(s) \in 1..Len(t) /\ u[j] = t[j - Len(s)]
      <4>1. ~(i \in 1..Len(s)) /\ ~(j \in 1..Len(s))
        BY <1>1, <2>3
      <4>2. QED
        BY <1>7, <4>1
    <3>2. i - Len(s) < j - Len(s)
      BY <1>1
    <3>3. QED
      BY <1>5, <3>1, <3>2 DEF Increasing
  <2>4. QED
    BY <1>1, <1>7, <2>1, <2>2, <2>3
<1>9. Increasing(v)
  <2> SUFFICES ASSUME NEW i \in 1..Len(v), NEW j \in 1..Len(v), i < j PROVE v[i] < v[j]
    BY DEF Increasing
  <2>1. taken + i < taken + j
    BY <1>1
  <2>2. QED
    BY <1>5, <1>6, <2>1 DEF Increasing
<1>10. \A i \in 1..Len(u) : u[i] \in 1..o
  BY <1>5, <1>7
<1>11. \A i \in 1..Len(v) : v[i] \in 1..o
  BY <1>5, <1>6
<1>12. \A i \in 1..Len(u), j \in 1..Len(v) : u[i] < v[j]
  <2> SUFFICES ASSUME NEW i \in 1..Len(u), NEW j \in 1..Len(v) PROVE u[i] < v[j]
    OBVIOUS
  <2>1. v[j] = t[taken + j] /\ taken + j \in 1..Len(t)
    BY <1>6
  <2>2. CASE i \in 1..Len(s) /\ u[i] = s[i]
    BY <1>5, <2>1, <2>2
  <2>3. CASE i - Len(s) \in 1..Len(t) /\ i - Len(s) <= taken /\ u[i] = t[i - Len(s)]
    <3>1. i - Len(s) < taken + j
      BY <1>1, <2>3
    <3>2. QED
      BY <1>5, <2>1, <2>3, <3>1 DEF Increasing
  <2>4. QED
    BY <1>7, <2>2, <2>3
<1>13. Len(v) <= o
  BY <1>1, <1>3, <1>5
<1>14. OutputKept(o, u, v)
  BY <1>3, <1>4, <1>8, <1>9, <1>10, <1>11, <1>12, <1>13 DEF OutputKept
<1>15. AllIsThere(o, s, t) => AllIsThere(o, u, v)
  <2> SUFFICES ASSUME NEW n \in 1..o, (\E i \in 1..Len(s) : s[i] = n) \/ (\E j \in 1..Len(t) : t[j] = n)
               PROVE  (\E i \in 1..Len(u) : u[i] = n) \/ (\E j \in 1..Len(v) : v[j] = n)
    BY DEF AllIsThere
  <2>1. CASE \E i \in 1..Len(s) : s[i] = n
    <3>1. \A i \in 1..Len(s) : i \in 1..Len(u)
      BY <1>1, <1>4
    <3>2. QED
      BY <1>4, <2>1, <3>1
  <2>2. ASSUME NEW j \in 1..Len(t), t[j] = n
        PROVE  (\E i \in 1..Len(u) : u[i] = n) \/ (\E k \in 1..Len(v) : v[k] = n)
    <3>1. CASE j <= taken
      <4>1. Len(s) + j \in 1..Len(u) /\ Len(s) + j > Len(s) /\ (Len(s) + j) - Len(s) = j
        <5>1. j \in Nat /\ j >= 1 /\ Len(u) = Len(s) + taken
          BY <1>1, <1>4
        <5> HIDE DEF u
        <5>2. QED
          BY <1>1, <3>1, <5>1
      <4>2. u[Len(s) + j] = n
        BY <1>4, <2>2, <4>1
      <4>3. QED
        BY <4>1, <4>2
    <3>2. CASE ~(j <= taken)
      <4>1. j - taken \in 1..Len(v) /\ taken + (j - taken) = j
        BY <1>1, <1>3, <3>2
      <4>2. v[j - taken] = n
        BY <1>6, <2>2, <4>1
      <4>3. QED
        BY <4>1, <4>2
    <3>3. QED
      BY <3>1, <3>2
  <2>3. QED
    BY <2>1, <2>2
<1>16. taken = Len(t) => v = <<>>
  <2>1. taken = Len(t) => Len(v) = 0
    BY <1>1, <1>3
  <2>2. QED
    BY <1>3, <2>1, EmptySeq
<1>17. QED
  BY <1>14, <1>15, <1>16 DEF u, a, v

-----------------------------------------------------------------------------
(* Input.                                                                  *)

\* What a step may not lose of the input that is held back.
HeldStep == \A p \in Hub!Range(pendingInput) : p \in Hub!Range(pendingInput') \cup got' \/ disposed'

\* Pieces that are delivered are the shell's.
LEMMA DeliveredIsGot ==
    ASSUME HubInv, NEW pieces \in Seq(Hub!Piece), Hub!Deliver(pieces)
    PROVE  /\ got' \in SUBSET Hub!Piece /\ interactive' \in BOOLEAN
           /\ Hub!Range(pieces) \subseteq got'
<1>1. got \in SUBSET Hub!Piece /\ interactive \in BOOLEAN
  BY DEF HubInv, HubFlags, HubInput
<1>2. got' = got \cup Hub!Range(pieces)
  BY DEF Hub!Deliver
<1>3. Hub!Range(pieces) \subseteq Hub!Piece
  <2>1. pieces \in [1..Len(pieces) -> Hub!Piece]
    BY LenProperties
  <2>2. QED
    BY <2>1 DEF Hub!Range
<1>4. interactive' \in BOOLEAN
  <2>1. interactive' = (interactive \/ \E i \in DOMAIN pieces : Hub!Ends(pieces[i]))
    BY DEF Hub!Deliver
  <2>2. QED
    BY <2>1, Zenon
<1>5. QED
  BY <1>1, <1>2, <1>3, <1>4

\* Pieces at the end of what is held back.
LEMMA HeldBackGrows ==
    ASSUME NEW s \in Seq(Hub!Piece), NEW t \in Seq(Hub!Piece)
    PROVE  /\ s \o t \in Seq(Hub!Piece) /\ Len(s \o t) = Len(s) + Len(t)
           /\ Hub!Range(s) \subseteq Hub!Range(s \o t)
<1>1. /\ s \o t \in Seq(Hub!Piece) /\ Len(s \o t) = Len(s) + Len(t) /\ Len(s) \in Nat /\ Len(t) \in Nat
      /\ \A i \in 1..(Len(s) + Len(t)) : (s \o t)[i] = IF i <= Len(s) THEN s[i] ELSE t[i - Len(s)]
  BY ConcatProperties, LenProperties
<1>2. \A i \in 1..Len(s) : i \in 1..(Len(s) + Len(t)) /\ (s \o t)[i] = s[i]
  BY <1>1
<1>3. DOMAIN s = 1..Len(s) /\ DOMAIN (s \o t) = 1..(Len(s) + Len(t))
  BY <1>1, LenProperties
<1>4. QED
  BY <1>1, <1>2, <1>3 DEF Hub!Range

\* The pieces of what is typed.
LEMMA TypedIsPieces ==
    ASSUME NEW n \in Hub!Inputs, NEW kind \in {"key", "return", "line", "paste"}
    PROVE  Hub!Submission(n, kind) \in Seq(Hub!Piece) /\ Hub!Typed(n, kind) \in Seq(Hub!Piece)
<1>1. /\ kind \in {"key", "return"} => [n |-> n, kind |-> kind] \in Hub!Piece
      /\ [n |-> n, kind |-> "line"] \in Hub!Piece /\ [n |-> n, kind |-> "rest"] \in Hub!Piece
  BY DEF Hub!Piece, Hub!Kind
<1>2. CASE kind = "line"
  <2>1. Hub!Submission(n, kind) = <<[n |-> n, kind |-> "line"]>>
    BY <1>2 DEF Hub!Submission
  <2>2. QED
    BY <1>1, <2>1 DEF Hub!Typed
<1>3. CASE kind = "paste"
  <2>1. Hub!Submission(n, kind) = <<[n |-> n, kind |-> "line"], [n |-> n, kind |-> "rest"]>>
    BY <1>3 DEF Hub!Submission
  <2>2. QED
    BY <1>1, <2>1 DEF Hub!Typed
<1>4. CASE kind \in {"key", "return"}
  <2>1. Hub!Submission(n, kind) = <<>>
    BY <1>4 DEF Hub!Submission
  <2>2. Hub!Typed(n, kind) = <<[n |-> n, kind |-> kind]>>
    BY <2>1 DEF Hub!Typed
  <2>3. QED
    BY <1>1, <1>4, <2>1, <2>2
<1>5. QED
  BY <1>2, <1>3, <1>4

\* What an accepted piece leaves alone.
LEMMA AcceptKeeps ==
    ASSUME HubInv, NEW kind \in {"key", "return", "line", "paste"}, Hub!AcceptInput(kind)
    PROVE  HubInv' /\ HeldStep
<1> DEFINE n == typed'
           submission == Hub!Submission(n, kind)
           pieces == Hub!Typed(n, kind)
           room == Room - Len(pendingInput) - Len(pendingSubmitted)
<1>1. HubFlags /\ HubInput /\ HubBatches /\ HubOutput
  BY DEF HubInv
<1>2. UNCHANGED <<out, device, shown, pendingOutput, flushQueued, tail, turn, over, disposed>>
  BY DEF Hub!AcceptInput
<1>3. typed' \in 0..MaxInput /\ n \in Hub!Inputs
  BY <1>1, HubBounds DEF Hub!AcceptInput, HubInput, Hub!Inputs
<1>4. submission \in Seq(Hub!Piece) /\ pieces \in Seq(Hub!Piece)
  BY <1>3, TypedIsPieces
<1>5. /\ pendingInput \in Seq(Hub!Piece) /\ pendingSubmitted \in Seq(Hub!Piece) /\ got \in SUBSET Hub!Piece /\ interactive \in BOOLEAN
      /\ Len(pendingInput) \in Nat /\ Len(pendingSubmitted) \in Nat /\ room \in Nat
      /\ Room = room + Len(pendingInput) + Len(pendingSubmitted)
  BY <1>1, HubBounds DEF HubInput, HubFlags
<1>6. HubBatches' /\ HubOutput'
  BY <1>1, <1>2 DEF HubBatches, HubOutput
<1>7. CASE /\ pendingInput' = IF Len(pieces) <= room THEN pendingInput \o pieces ELSE pendingInput
           /\ UNCHANGED <<pendingSubmitted, got, interactive, commands>>
  <2> HIDE DEF n, submission, pieces, room
  <2>1. /\ pendingInput \o pieces \in Seq(Hub!Piece) /\ Len(pendingInput \o pieces) = Len(pendingInput) + Len(pieces)
        /\ Hub!Range(pendingInput) \subseteq Hub!Range(pendingInput \o pieces) /\ Len(pieces) \in Nat
    BY <1>4, <1>5, HeldBackGrows, LenProperties
  <2>2. /\ pendingInput' \in Seq(Hub!Piece) /\ Len(pendingInput') + Len(pendingSubmitted') <= Room
        /\ Hub!Range(pendingInput) \subseteq Hub!Range(pendingInput')
    BY <1>5, <1>7, <2>1
  <2>3. HubInput'
    BY <1>3, <1>5, <1>7, <2>2 DEF HubInput
  <2>4. HubFlags'
    BY <1>1, <1>2, <1>7 DEF HubFlags
  <2>5. QED
    BY <1>6, <2>2, <2>3, <2>4 DEF HubInv, HeldStep
<1>8. CASE /\ pendingSubmitted' = pendingSubmitted \o SubSeq(submission, 1, IF Len(submission) <= room THEN Len(submission) ELSE room)
           /\ UNCHANGED <<pendingInput, got, interactive, commands>>
  <2> HIDE DEF n, submission, pieces, room
  <2> DEFINE k == IF Len(submission) <= room THEN Len(submission) ELSE room
             taken == SubSeq(submission, 1, k)
  <2>1. Len(submission) \in Nat /\ k \in Nat /\ k <= Len(submission) /\ k <= room
    BY <1>4, <1>5
  <2> HIDE DEF k
  <2>2. taken \in Seq(Hub!Piece) /\ Len(taken) = k
    <3>1. \A i \in 1..k : submission[i] \in Hub!Piece
      BY <1>4, <2>1
    <3>2. 1 \in Int /\ k \in Int /\ (IF 1 <= k THEN k - 1 + 1 ELSE 0) = k
      BY <2>1
    <3>3. QED
      BY <3>1, <3>2, SubSeqProperties
  <2> HIDE DEF taken
  <2>3. pendingSubmitted \o taken \in Seq(Hub!Piece) /\ Len(pendingSubmitted \o taken) = Len(pendingSubmitted) + Len(taken)
    BY <1>5, <2>2, HeldBackGrows
  <2>4. pendingSubmitted' = pendingSubmitted \o taken
    BY <1>8 DEF taken, k
  <2>5. pendingSubmitted' \in Seq(Hub!Piece) /\ Len(pendingInput') + Len(pendingSubmitted') <= Room
    BY <1>5, <1>8, <2>1, <2>2, <2>3, <2>4
  <2>6. HubInput'
    BY <1>3, <1>5, <1>8, <2>5 DEF HubInput
  <2>7. HubFlags'
    BY <1>1, <1>2, <1>8 DEF HubFlags
  <2>8. QED
    BY <1>6, <1>8, <2>6, <2>7 DEF HubInv, HeldStep
<1>9. CASE Hub!Deliver(pieces) /\ UNCHANGED <<pendingInput, pendingSubmitted>>
  <2> HIDE DEF n, submission, pieces, room
  <2>1. got' \in SUBSET Hub!Piece /\ interactive' \in BOOLEAN
    BY <1>4, <1>9, DeliveredIsGot
  <2>2. HubInput'
    BY <1>1, <1>3, <1>9, <2>1 DEF HubInput
  <2>3. HubFlags'
    BY <1>1, <1>2, <2>1 DEF HubFlags
  <2>4. QED
    BY <1>6, <1>9, <2>2, <2>3 DEF HubInv, HeldStep
<1>10. QED
  BY <1>7, <1>8, <1>9, Zenon DEF Hub!AcceptInput

LEMMA FlushKeeps ==
    ASSUME HubInv, Hub!FlushSubmitted
    PROVE  HubInv' /\ HeldStep
<1>1. HubFlags /\ HubInput /\ HubBatches /\ HubOutput
  BY DEF HubInv
<1>2. UNCHANGED <<typed, out, device, shown, pendingOutput, pendingInput, tail, turn, over, disposed>> /\ flushQueued' = FALSE
  BY DEF Hub!FlushSubmitted
<1>3. HubBatches' /\ HubOutput' /\ HeldStep
  BY <1>1, <1>2 DEF HubBatches, HubOutput, HeldStep
<1>4. CASE UNCHANGED <<pendingSubmitted, got, interactive, commands>>
  <2>1. HubInput'
    BY <1>1, <1>2, <1>4 DEF HubInput
  <2>2. HubFlags'
    BY <1>1, <1>2, <1>4 DEF HubFlags
  <2>3. QED
    BY <1>3, <2>1, <2>2 DEF HubInv
<1>5. CASE pendingSubmitted # <<>> /\ Hub!Deliver(<<Head(pendingSubmitted)>>) /\ pendingSubmitted' = Tail(pendingSubmitted)
  <2>1. /\ pendingSubmitted \in Seq(Hub!Piece) /\ Head(pendingSubmitted) \in Hub!Piece /\ Tail(pendingSubmitted) \in Seq(Hub!Piece)
        /\ Len(Tail(pendingSubmitted)) = Len(pendingSubmitted) - 1
    <3>1. pendingSubmitted \in Seq(Hub!Piece)
      BY <1>1 DEF HubInput
    <3>2. QED
      BY <1>5, <3>1, HeadTailProperties
  <2>2. <<Head(pendingSubmitted)>> \in Seq(Hub!Piece)
    BY <2>1
  <2>3. got' \in SUBSET Hub!Piece /\ interactive' \in BOOLEAN
    BY <1>5, <2>2, DeliveredIsGot
  <2>4. HubInput'
    <3>1. Len(pendingInput') + Len(pendingSubmitted') <= Room
      <4>1. Len(pendingInput) \in Nat /\ Len(pendingSubmitted) \in Nat /\ Len(pendingInput) + Len(pendingSubmitted) <= Room
        BY <1>1 DEF HubInput
      <4>2. pendingInput' = pendingInput /\ Len(pendingSubmitted') = Len(pendingSubmitted) - 1
        BY <1>2, <1>5, <2>1
      <4>3. QED
        BY <4>1, <4>2, HubBounds
    <3>2. QED
      BY <1>1, <1>2, <1>5, <2>1, <2>3, <3>1 DEF HubInput
  <2>5. HubFlags'
    BY <1>1, <1>2, <2>3 DEF HubFlags
  <2>6. QED
    BY <1>3, <2>4, <2>5 DEF HubInv
<1>6. QED
  BY <1>4, <1>5, Zenon DEF Hub!FlushSubmitted

-----------------------------------------------------------------------------
(* Devices and batches.                                                    *)

\* A step that leaves the input alone.
LEMMA InputStays ==
    ASSUME HubInv, UNCHANGED <<typed, pendingInput, pendingSubmitted, got>>
    PROVE  HubInput' /\ HeldStep
BY DEF HubInv, HubInput, HeldStep

LEMMA WriteKeepsHub ==
    ASSUME HubInv, Hub!Write
    PROVE  HubInv' /\ HeldStep
<1>1. HubFlags /\ HubInput /\ HubBatches /\ HubOutput
  BY DEF HubInv
<1>2. /\ UNCHANGED <<typed, device, pendingInput, pendingSubmitted, interactive, commands, flushQueued, tail, turn, over, got, disposed>>
      /\ out < MaxOutput /\ out' = out + 1
      /\ shown' = IF device THEN Append(shown, out') ELSE shown
      /\ pendingOutput' = IF ~device /\ Len(pendingOutput) < Room THEN Append(pendingOutput, out') ELSE pendingOutput
  BY DEF Hub!Write, Hub!Written
<1>3. HubFlags' /\ HubBatches'
  BY <1>1, <1>2 DEF HubFlags, HubBatches
<1>4. HubInput' /\ HeldStep
  BY <1>2, InputStays
<1>5. out \in Nat /\ out' \in 0..MaxOutput
  BY <1>1, <1>2, HubBounds DEF HubOutput
<1>6. OutputKept(out, shown, pendingOutput) /\ Len(pendingOutput) \in Nat /\ Len(pendingOutput) <= out
  BY <1>1 DEF HubOutput, OutputKept
<1>7. /\ OutputKept(out + 1, shown, Append(pendingOutput, out + 1))
      /\ AllIsThere(out, shown, pendingOutput) => AllIsThere(out + 1, shown, Append(pendingOutput, out + 1))
      /\ pendingOutput = <<>> => /\ OutputKept(out + 1, Append(shown, out + 1), pendingOutput)
                                 /\ AllIsThere(out, shown, pendingOutput) => AllIsThere(out + 1, Append(shown, out + 1), pendingOutput)
      /\ OutputKept(out + 1, shown, pendingOutput)
  BY <1>5, <1>6, AppendedStays
<1>8. ~disposed' /\ out' <= Room => AllIsThere(out, shown, pendingOutput) /\ Len(pendingOutput) < Room
  BY <1>1, <1>2, <1>5, <1>6, HubBounds DEF HubOutput
<1>9. HubOutput'
  <2>1. CASE device
    <3>1. pendingOutput = <<>> /\ shown' = Append(shown, out + 1) /\ pendingOutput' = pendingOutput
      BY <1>1, <1>2, <2>1 DEF HubOutput
    <3>2. QED
      BY <1>2, <1>5, <1>7, <1>8, <3>1 DEF HubOutput
  <2>2. CASE ~device /\ Len(pendingOutput) < Room
    <3>1. shown' = shown /\ pendingOutput' = Append(pendingOutput, out + 1)
      BY <1>2, <2>2
    <3>2. QED
      BY <1>2, <1>5, <1>7, <1>8, <2>2, <3>1 DEF HubOutput
  <2>3. CASE ~device /\ ~(Len(pendingOutput) < Room)
    <3>1. shown' = shown /\ pendingOutput' = pendingOutput
      BY <1>2, <2>3
    <3>2. QED
      BY <1>2, <1>5, <1>7, <1>8, <2>3, <3>1 DEF HubOutput
  <2>4. QED
    BY <2>1, <2>2, <2>3
<1>10. QED
  BY <1>3, <1>4, <1>9 DEF HubInv

LEMMA AttachKeeps ==
    ASSUME HubInv, NEW taken, Hub!Attach(taken)
    PROVE  HubInv' /\ HeldStep
<1>1. HubFlags /\ HubInput /\ HubBatches /\ HubOutput
  BY DEF HubInv
<1>2. /\ UNCHANGED <<typed, out, pendingInput, pendingSubmitted, interactive, commands, flushQueued, tail, turn, over, got, disposed>>
      /\ taken \in 0..Len(pendingOutput)
      /\ shown' = shown \o SubSeq(pendingOutput, 1, taken)
      /\ pendingOutput' = SubSeq(pendingOutput, taken + 1, Len(pendingOutput))
      /\ device' = (taken = Len(pendingOutput))
  BY DEF Hub!Attach, Hub!AttachTakes
<1>3. device' \in BOOLEAN
  BY <1>2, Zenon
<1>4. HubFlags' /\ HubBatches'
  BY <1>1, <1>2, <1>3 DEF HubFlags, HubBatches
<1>5. HubInput' /\ HeldStep
  BY <1>2, InputStays
<1>6. out \in Nat /\ OutputKept(out, shown, pendingOutput)
  BY <1>1 DEF HubOutput
<1>7. /\ OutputKept(out, shown', pendingOutput')
      /\ AllIsThere(out, shown, pendingOutput) => AllIsThere(out, shown', pendingOutput')
      /\ taken = Len(pendingOutput) => pendingOutput' = <<>>
  BY <1>2, <1>6, TakenStays
<1>8. HubOutput'
  BY <1>1, <1>2, <1>7 DEF HubOutput
<1>9. QED
  BY <1>4, <1>5, <1>8 DEF HubInv

LEMMA QuietHubKeeps ==
    ASSUME HubInv, Hub!Prompt \/ Hub!Detach \/ Hub!Resume
    PROVE  HubInv' /\ HeldStep
<1>1. HubFlags /\ HubInput /\ HubBatches /\ HubOutput
  BY DEF HubInv
<1>2. UNCHANGED <<typed, out, shown, pendingOutput, pendingInput, pendingSubmitted, tail, over, got, disposed>>
  BY DEF Hub!Prompt, Hub!Detach, Hub!Resume
<1>3. HubInput' /\ HeldStep
  BY <1>2, InputStays
<1>4. device' \in {device, FALSE}
  BY DEF Hub!Prompt, Hub!Detach, Hub!Resume
<1>5. HubFlags'
  <2>1. interactive' \in BOOLEAN /\ device' \in BOOLEAN /\ disposed' \in BOOLEAN
    BY <1>1, <1>2, <1>4 DEF HubFlags, Hub!Prompt, Hub!Detach, Hub!Resume
  <2>2. flushQueued' \in BOOLEAN
    <3>1. flushQueued' = flushQueued \/ flushQueued' = (interactive /\ pendingSubmitted # <<>>)
      BY DEF Hub!Prompt, Hub!Detach, Hub!Resume
    <3>2. (interactive /\ pendingSubmitted # <<>>) \in BOOLEAN
      BY Zenon
    <3>3. QED
      BY <1>1, <3>1, <3>2 DEF HubFlags
  <2>3. QED
    BY <2>1, <2>2 DEF HubFlags
<1>6. HubBatches'
  <2>1. turn' = turn \/ (turn # "none" /\ turn' \in {"waiting", "resuming", "active"})
    BY DEF Hub!Prompt, Hub!Detach, Hub!Resume
  <2>2. QED
    BY <1>1, <1>2, <2>1 DEF HubBatches, Turns
<1>7. device' => pendingOutput' = <<>>
  BY <1>1, <1>2, <1>4 DEF HubOutput
<1>8. /\ out' \in 0..MaxOutput /\ OutputKept(out', shown', pendingOutput')
      /\ ~disposed' /\ out' <= Room => AllIsThere(out', shown', pendingOutput')
  BY <1>1, <1>2 DEF HubOutput
<1>9. HubOutput'
  BY <1>7, <1>8 DEF HubOutput
<1>10. QED
  BY <1>3, <1>5, <1>6, <1>9 DEF HubInv

LEMMA DisposeKeeps ==
    ASSUME HubInv, Hub!Dispose
    PROVE  HubInv' /\ HeldStep
<1>1. HubFlags /\ HubInput /\ HubBatches /\ HubOutput
  BY DEF HubInv
<1>2. /\ UNCHANGED <<typed, out, shown, flushQueued, tail, over, got>>
      /\ disposed' = TRUE /\ device' = FALSE /\ pendingOutput' = <<>> /\ pendingInput' = <<>> /\ pendingSubmitted' = <<>>
      /\ interactive' = FALSE /\ turn' = IF turn = "waiting" THEN "resuming" ELSE turn
  BY DEF Hub!Dispose
<1>3. HubFlags' /\ HubBatches'
  BY <1>1, <1>2 DEF HubFlags, HubBatches, Turns
<1>4. HubInput' /\ HeldStep
  BY <1>1, <1>2, HubBounds DEF HubInput, HeldStep
<1>5. HubOutput'
  <2>1. OutputKept(out, shown, pendingOutput) /\ out \in Nat
    BY <1>1 DEF HubOutput
  <2>2. OutputKept(out, shown, <<>>)
    BY <2>1 DEF OutputKept, Increasing
  <2>3. QED
    BY <1>1, <1>2, <2>2 DEF HubOutput
<1>6. QED
  BY <1>3, <1>4, <1>5 DEF HubInv

LEMMA RunBatchKeeps ==
    ASSUME HubInv, NEW b \in 1..MaxBatch, Hub!RunBatch(b)
    PROVE  HubInv' /\ HeldStep
<1>1. HubFlags /\ HubInput /\ HubBatches /\ HubOutput
  BY DEF HubInv
<1>2. /\ UNCHANGED <<typed, out, device, shown, pendingOutput, pendingInput, pendingSubmitted, interactive, commands, flushQueued, over, got, disposed>>
      /\ tail' = Append(tail, b) /\ turn' \in {"next", turn}
  BY DEF Hub!RunBatch
<1>3. HubInput' /\ HeldStep
  BY <1>2, InputStays
<1>4. HubFlags' /\ HubOutput'
  BY <1>1, <1>2 DEF HubFlags, HubOutput
<1>5. HubBatches'
  <2>1. tail' \in Seq(1..MaxBatch) /\ tail' # <<>>
    BY <1>1, <1>2, AppendProperties DEF HubBatches
  <2>2. QED
    BY <1>1, <1>2, <2>1 DEF HubBatches, Turns
<1>6. QED
  BY <1>3, <1>4, <1>5 DEF HubInv

\* The end of a turn lets go what was held back.
LEMMA EndTurnKeeps ==
    ASSUME HubInv, Hub!BatchEnds \/ Hub!IdleTimesOut
    PROVE  HubInv' /\ HeldStep
<1>1. HubFlags /\ HubInput /\ HubBatches /\ HubOutput
  BY DEF HubInv
<1>2. Hub!EndTurn /\ turn # "none"
  BY DEF Hub!BatchEnds, Hub!IdleTimesOut
<1>3. /\ UNCHANGED <<typed, out, device, shown, pendingOutput, pendingSubmitted, disposed>>
      /\ pendingInput' = <<>> /\ tail' = Tail(tail) /\ over' = over \cup {Head(tail)}
      /\ flushQueued' = (~disposed /\ pendingSubmitted # <<>>)
      /\ turn' = IF Len(tail) = 1 THEN "none" ELSE "next"
      /\ (disposed /\ UNCHANGED <<got, interactive, commands>>) \/ Hub!Deliver(pendingInput)
  BY <1>2, Zenon DEF Hub!EndTurn, Hub!LetGo
<1>4. got' \in SUBSET Hub!Piece /\ interactive' \in BOOLEAN /\ (disposed \/ Hub!Range(pendingInput) \subseteq got')
  <2>1. pendingInput \in Seq(Hub!Piece) /\ got \in SUBSET Hub!Piece /\ interactive \in BOOLEAN
    BY <1>1 DEF HubInput, HubFlags
  <2>2. CASE Hub!Deliver(pendingInput)
    BY <2>1, <2>2, DeliveredIsGot
  <2>3. CASE disposed /\ UNCHANGED <<got, interactive, commands>>
    BY <2>1, <2>3
  <2>4. QED
    BY <1>3, <2>2, <2>3
<1>5. HubInput'
  <2>1. Len(pendingInput) \in Nat /\ Len(pendingSubmitted) \in Nat /\ Len(pendingInput) + Len(pendingSubmitted) <= Room
    BY <1>1 DEF HubInput
  <2>2. Len(pendingInput') + Len(pendingSubmitted') <= Room
    BY <1>3, <2>1, HubBounds
  <2>3. QED
    BY <1>1, <1>3, <1>4, <2>2 DEF HubInput
<1>6. HeldStep
  BY <1>3, <1>4 DEF HeldStep
<1>7. HubFlags'
  <2>1. flushQueued' \in BOOLEAN
    BY <1>3, Zenon
  <2>2. QED
    BY <1>1, <1>3, <1>4, <2>1 DEF HubFlags
<1>8. HubBatches'
  <2>1. tail \in Seq(1..MaxBatch) /\ tail # <<>> /\ over \in SUBSET (1..MaxBatch)
    BY <1>1, <1>2 DEF HubBatches
  <2>2. Head(tail) \in 1..MaxBatch /\ Tail(tail) \in Seq(1..MaxBatch) /\ Len(Tail(tail)) = Len(tail) - 1 /\ Len(tail) \in Nat \ {0}
    BY <2>1, HeadTailProperties, EmptySeq
  <2>3. turn' # "none" => tail' # <<>>
    <3>1. turn' # "none" => Len(tail') # 0
      BY <1>3, <2>2
    <3>2. QED
      BY <3>1
  <2>4. QED
    BY <1>3, <2>1, <2>2, <2>3 DEF HubBatches, Turns
<1>9. HubOutput'
  BY <1>1, <1>3 DEF HubOutput
<1>10. QED
  BY <1>5, <1>6, <1>7, <1>8, <1>9 DEF HubInv

\* Every step of the hub keeps the invariant, and what it holds back.
LEMMA HubSteps == HubInv /\ Hub!Next => HubInv' /\ HeldStep
<1> SUFFICES ASSUME HubInv, Hub!Next PROVE HubInv' /\ HeldStep
  OBVIOUS
<1>1. ASSUME NEW kind \in {"key", "return", "line", "paste"}, Hub!AcceptInput(kind) PROVE HubInv' /\ HeldStep
  BY <1>1, AcceptKeeps
<1>2. ASSUME NEW taken \in 0..Room, Hub!Attach(taken) PROVE HubInv' /\ HeldStep
  BY <1>2, AttachKeeps
<1>3. ASSUME NEW b \in 1..MaxBatch, Hub!RunBatch(b) PROVE HubInv' /\ HeldStep
  BY <1>3, RunBatchKeeps
<1>4. CASE \/ Hub!FlushSubmitted \/ Hub!Write \/ Hub!Prompt \/ Hub!Detach \/ Hub!Dispose \/ Hub!BatchEnds
           \/ Hub!IdleTimesOut \/ Hub!Resume
  BY <1>4, FlushKeeps, WriteKeepsHub, QuietHubKeeps, DisposeKeeps, EndTurnKeeps
<1>5. QED
  BY <1>1, <1>2, <1>3, <1>4 DEF Hub!Next

\* What the invariant says of the types and the order of the output.
LEMMA HubFollows == HubInv => Hub!TypeOK /\ Hub!OutputInOrder
<1> SUFFICES ASSUME HubInv PROVE Hub!TypeOK /\ Hub!OutputInOrder
  OBVIOUS
<1>1. HubFlags /\ HubInput /\ HubBatches /\ HubOutput
  BY DEF HubInv
<1>2. \A S, s : s \in Seq(S) => Hub!Range(s) \subseteq S /\ DOMAIN s = 1..Len(s)
  <2> SUFFICES ASSUME NEW S, NEW s \in Seq(S) PROVE Hub!Range(s) \subseteq S /\ DOMAIN s = 1..Len(s)
    OBVIOUS
  <2>1. s \in [1..Len(s) -> S] /\ DOMAIN s = 1..Len(s)
    BY LenProperties
  <2>2. QED
    BY <2>1 DEF Hub!Range
<1>3. /\ Hub!Range(pendingInput) \subseteq Hub!Piece /\ Hub!Range(pendingSubmitted) \subseteq Hub!Piece
      /\ Hub!Range(tail) \subseteq 1..MaxBatch
  BY <1>1, <1>2 DEF HubInput, HubBatches
<1>4. Hub!TypeOK
  <2>1. Hub!Range(pendingInput) \cup Hub!Range(pendingSubmitted) \cup got \subseteq Hub!Piece
    BY <1>1, <1>3 DEF HubInput
  <2>2. Hub!Range(tail) \cup over \subseteq 1..MaxBatch
    BY <1>1, <1>3 DEF HubBatches
  <2>3. typed \in 0..MaxInput /\ out \in 0..MaxOutput /\ turn \in {"none", "next", "waiting", "resuming", "active"}
    BY <1>1 DEF HubInput, HubOutput, HubBatches, Turns
  <2>4. device \in BOOLEAN /\ interactive \in BOOLEAN /\ flushQueued \in BOOLEAN /\ disposed \in BOOLEAN
    BY <1>1 DEF HubFlags
  <2>5. QED
    BY <2>1, <2>2, <2>3, <2>4 DEF Hub!TypeOK
<1>5. /\ shown \in Seq(Nat) /\ pendingOutput \in Seq(Nat) /\ Increasing(shown)
      /\ \A i \in 1..Len(shown) : shown[i] \in 1..out
      /\ \A j \in 1..Len(pendingOutput) : pendingOutput[j] \in 1..out
  BY <1>1 DEF HubOutput, OutputKept
<1>6. DOMAIN shown = 1..Len(shown) /\ DOMAIN pendingOutput = 1..Len(pendingOutput)
  BY <1>2, <1>5
<1>7. ~disposed /\ out <= Room => Hub!Range(shown) \cup Hub!Range(pendingOutput) = 1..out
  <2>1. Hub!Range(shown) \subseteq 1..out /\ Hub!Range(pendingOutput) \subseteq 1..out
    BY <1>5, <1>6 DEF Hub!Range
  <2>2. ~disposed /\ out <= Room => AllIsThere(out, shown, pendingOutput)
    BY <1>1 DEF HubOutput
  <2>3. AllIsThere(out, shown, pendingOutput) => 1..out \subseteq Hub!Range(shown) \cup Hub!Range(pendingOutput)
    BY <1>6 DEF AllIsThere, Hub!Range
  <2>4. QED
    BY <2>1, <2>2, <2>3
<1>8. Hub!OutputInOrder
  BY <1>5, <1>6, <1>7 DEF Hub!OutputInOrder, Increasing
<1>9. QED
  BY <1>4, <1>8

-----------------------------------------------------------------------------
(* The four together.                                                      *)

RuntimesInv == PythonInv /\ ProcessesInv /\ HubInv /\ RubyInv

\* A step that leaves the variables of a component alone leaves its invariant alone.
LEMMA PythonRests == PythonInv /\ UNCHANGED pythonVars => PythonInv'
<1> SUFFICES ASSUME PythonInv, UNCHANGED pythonVars PROVE PythonInv'
  OBVIOUS
<1>1. /\ assets' = assets /\ injectingPython' = injectingPython /\ call' = call /\ client' = client /\ proc' = proc
      /\ site' = site /\ manifest' = manifest /\ faults' = faults
  BY DEF pythonVars
<1>2. PythonType'
  BY <1>1 DEF PythonInv, PythonType
<1>3. AtWork' /\ IdsAreGiven'
  BY <1>1 DEF PythonInv, AtWork, IdsAreGiven, Handed
<1>4. LinesAreOwn'
  BY <1>1 DEF PythonInv, LinesAreOwn, LinesOf, LineIsOwn
<1>5. AnswerIsOwn'
  BY <1>1 DEF PythonInv, AnswerIsOwn
<1>6. QED
  BY <1>2, <1>3, <1>4, <1>5 DEF PythonInv

LEMMA ProcessesStay == ProcessesInv /\ UNCHANGED processVars => ProcessesInv'
BY DEF ProcessesInv, processVars

LEMMA HubStays == HubInv /\ UNCHANGED hubVars => HubInv'
<1> SUFFICES ASSUME HubInv, UNCHANGED hubVars PROVE HubInv'
  OBVIOUS
<1>1. HubFlags' /\ HubInput' /\ HubBatches'
  BY DEF HubInv, hubVars, HubFlags, HubInput, HubBatches
<1>2. HubOutput'
  BY DEF HubInv, hubVars, HubOutput
<1>3. QED
  BY <1>1, <1>2 DEF HubInv

LEMMA RubyStays == RubyInv /\ UNCHANGED rubyVars => RubyInv'
<1> SUFFICES ASSUME RubyInv, UNCHANGED rubyVars PROVE RubyInv'
  OBVIOUS
<1>1. RubyType'
  BY DEF RubyInv, rubyVars, RubyType, Ruby!TypeOK
<1>2. ReadyIsComplete'
  BY DEF RubyInv, rubyVars, ReadyIsComplete
<1>3. (Ruby!ReturnedIsWhole)'
  BY DEF RubyInv, rubyVars, Ruby!ReturnedIsWhole
<1>4. QED
  BY <1>1, <1>2, <1>3 DEF RubyInv

LEMMA RuntimesStart == Init => RuntimesInv
BY PythonStart, ProcessesStart, HubStart, RubyStart DEF Init, RuntimesInv

\* What one step of the whole does: the invariant holds after it, no input held back is lost, and a daemon that becomes ready
\* lists what is whole.
LEMMA RuntimesStep ==
    RuntimesInv /\ [Next]_vars =>
        /\ RuntimesInv'
        /\ [HeldStep]_(Hub!vars)
        /\ [\A d \in Python!Daemons : proc'[d].ready = "ok" /\ proc[d].ready # "ok" =>
                \A p \in manifest' : site'[p] = "whole"]_(Python!vars)
<1> DEFINE Listed == \A d \in Python!Daemons : proc'[d].ready = "ok" /\ proc[d].ready # "ok" =>
                          \A p \in manifest' : site'[p] = "whole"
<1> SUFFICES ASSUME RuntimesInv, [Next]_vars PROVE RuntimesInv' /\ [HeldStep]_(Hub!vars) /\ [Listed]_(Python!vars)
  OBVIOUS
<1>1. PythonInv /\ ProcessesInv /\ HubInv /\ RubyInv
  BY DEF RuntimesInv
<1>2. UNCHANGED pythonVars <=> UNCHANGED Python!vars
  BY DEF pythonVars, Python!vars
<1>3. UNCHANGED hubVars <=> UNCHANGED Hub!vars
  BY DEF hubVars, Hub!vars
<1>4. CASE PythonNext
  <2>1. Python!Next /\ UNCHANGED <<processVars, hubVars, rubyVars>>
    BY <1>4 DEF PythonNext
  <2>2. PythonInv'
    BY <1>1, <2>1, PythonSteps
  <2>3. ProcessesInv' /\ HubInv' /\ RubyInv'
    BY <1>1, <2>1, ProcessesStay, HubStays, RubyStays
  <2>4. Listed
    BY <1>1, <2>1, ReadyListsWhole
  <2>5. QED
    BY <1>3, <2>1, <2>2, <2>3, <2>4 DEF RuntimesInv
<1>5. CASE ProcessesNext
  <2>1. Processes!Next /\ UNCHANGED <<pythonVars, hubVars, rubyVars>>
    BY <1>5 DEF ProcessesNext
  <2>2. ProcessesInv'
    BY <1>1, <2>1, ProcessesSteps
  <2>3. PythonInv' /\ HubInv' /\ RubyInv'
    BY <1>1, <2>1, PythonRests, HubStays, RubyStays
  <2>4. QED
    BY <1>2, <1>3, <2>1, <2>2, <2>3 DEF RuntimesInv
<1>6. CASE HubNext
  <2>1. Hub!Next /\ UNCHANGED <<pythonVars, processVars, rubyVars>>
    BY <1>6 DEF HubNext
  <2>2. HubInv' /\ HeldStep
    BY <1>1, <2>1, HubSteps
  <2>3. PythonInv' /\ ProcessesInv' /\ RubyInv'
    BY <1>1, <2>1, PythonRests, ProcessesStay, RubyStays
  <2>4. QED
    BY <1>2, <2>1, <2>2, <2>3 DEF RuntimesInv
<1>7. CASE RubyNext
  <2>1. Ruby!Next /\ UNCHANGED <<pythonVars, processVars, hubVars>>
    BY <1>7 DEF RubyNext
  <2>2. RubyInv'
    BY <1>1, <2>1, RubySteps
  <2>3. PythonInv' /\ ProcessesInv' /\ HubInv'
    BY <1>1, <2>1, PythonRests, ProcessesStay, HubStays
  <2>4. QED
    BY <1>2, <1>3, <2>1, <2>2, <2>3 DEF RuntimesInv
<1>8. CASE UNCHANGED vars
  <2>1. UNCHANGED <<pythonVars, processVars, hubVars, rubyVars>>
    BY <1>8 DEF vars
  <2>2. PythonInv' /\ ProcessesInv' /\ HubInv' /\ RubyInv'
    BY <1>1, <2>1, PythonRests, ProcessesStay, HubStays, RubyStays
  <2>3. QED
    BY <1>2, <1>3, <2>1, <2>2 DEF RuntimesInv
<1>9. QED
  BY <1>4, <1>5, <1>6, <1>7, <1>8 DEF Next

LEMMA RuntimesKept == FairSpec => []RuntimesInv
<1>1. RuntimesInv /\ [Next]_vars => RuntimesInv'
  BY RuntimesStep
<1>2. QED
  BY <1>1, RuntimesStart, PTL DEF FairSpec

\* An answer of Python is given to the command it answers, whatever daemons die and whatever was handed over before one was
\* ready: a line carries the id of its command, and no two commands have one id (python-daemon-client.ts:74).
THEOREM AnswersGoToTheirCommands == FairSpec => []AnswersAreOwn
<1>1. RuntimesInv => AnswersAreOwn
  BY AnswersFollow DEF RuntimesInv
<1>2. QED
  BY <1>1, RuntimesKept, PTL

\* A runtime that is reported as ready is whole: a daemon of Python that becomes ready imports every package it lists, and a
\* command of Ruby that returned from its request finds all files (pip.ts:136, ruby-assets.ts:20).
THEOREM ReadyRuntimesAreWhole == FairSpec => ReadyIsWhole
<1>1. RuntimesInv => Ruby!TypeOK /\ Ruby!ReturnedIsWhole
  BY DEF RuntimesInv, RubyInv, RubyType
<1>2. RuntimesInv /\ [Next]_vars =>
          [\A d \in Python!Daemons : proc'[d].ready = "ok" /\ proc[d].ready # "ok" =>
                \A p \in manifest' : site'[p] = "whole"]_(Python!vars)
  BY RuntimesStep
<1>3. QED
  BY <1>1, <1>2, RuntimesKept, PTL DEF FairSpec, ReadyIsWhole, Python!ReadyMeansWhole

\* A process that runs is in the table under its pid, whoever had the pid before it and whatever ended meanwhile
\* (host-procs.ts:147).
THEOREM ProcessesAreListed == FairSpec => []ProcessesKept
<1>1. RuntimesInv => ProcessesKept
  BY ProcessesFollow DEF RuntimesInv
<1>2. QED
  BY <1>1, RuntimesKept, PTL

\* A terminal shows its output in the order of its writing, whatever devices come and go, and a piece of input held back for
\* a batch stays held or is delivered until the hub is disposed of (terminal-hub.ts:57, terminal-hub.ts:105).
THEOREM HubIsKept == FairSpec => HubKept
<1>1. RuntimesInv => Hub!TypeOK /\ Hub!OutputInOrder
  BY HubFollows DEF RuntimesInv
<1>2. RuntimesInv /\ [Next]_vars =>
          [\A p \in Hub!Range(pendingInput) : p \in Hub!Range(pendingInput') \cup got' \/ disposed']_(Hub!vars)
  BY RuntimesStep DEF HeldStep
<1>3. QED
  BY <1>1, <1>2, RuntimesKept, PTL DEF FairSpec, HubKept, Hub!HeldInputStays
=================================================================================
