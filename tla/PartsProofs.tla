------------------------------ MODULE PartsProofs ------------------------------
(***************************************************************************)
(* Proofs about parts of the page that Parts puts side by side: the        *)
(* terminals, the instances, the system log and the two boots.  Each part  *)
(* has its inductive invariant, kept by its own steps and by the steps of  *)
(* the others, which leave its variables alone.                            *)
(***************************************************************************)
EXTENDS Parts, TLAPS, SequenceTheorems

-----------------------------------------------------------------------------
(* The terminals of agents (TerminalSessions).                             *)

TerminalKey == Owner \union {Service}

TerminalStates == {"none", "open", "stuck", "closed"}
SpawnPcs == {"none", "open", "quiet", "returned", "undo", "rollback", "held", "published", "ended", "reported"}
CleanupPcs == {"none", "abort", "close", "done", "failed"}

SpawnRecord == [pc : SpawnPcs, owner : Owner \union {"none"}, name : Name \union {"none"}, aborted : BOOLEAN,
                closed : BOOLEAN, closing : BOOLEAN]

TerminalsType ==
    /\ terminal \in [Spawn -> TerminalStates]
    /\ record \in [Spawn -> SpawnRecord]
    /\ cleanup \in [TerminalKey -> [pc : CleanupPcs, wait : SUBSET Spawn, bad : BOOLEAN]]

\* What is open in the execution world is on its way to the registry, or in it and not closed.
OpenIsHeld ==
    \A s \in Spawn:
        /\ Terminals!At(s, {"none", "open"}) => terminal[s] = "none"
        /\ terminal[s] = "open" => /\ Terminals!At(s, {"quiet", "returned", "undo", "rollback", "published"})
                                   /\ ~record[s].closed
        /\ record[s].closed => Terminals!At(s, {"published", "ended"})

\* The names of an owner's spawns are distinct from the reservation on.
ReservedNames ==
    \A s, t \in Spawn:
        /\ s # t /\ record[s].owner = record[t].owner /\ record[s].name = record[t].name
        /\ Terminals!At(s, Terminals!Running \union {"published"})
        /\ Terminals!At(t, Terminals!Running \union {"published"})
        => record[s].name = "none"

\* A disposal that has begun waits for every spawn of its owner that is under way, and then for every terminal that is open.
DisposalWaits ==
    \A k \in TerminalKey: cleanup[k].pc # "none" => \A s \in Terminals!Of(k):
        /\ Terminals!At(s, Terminals!Running) => cleanup[k].pc = "abort" /\ s \in cleanup[k].wait
        /\ Terminals!At(s, {"published"}) /\ terminal[s] = "open" =>
              cleanup[k].pc = "abort" \/ (cleanup[k].pc = "close" /\ s \in cleanup[k].wait)

TerminalsInv == TerminalsType /\ OpenIsHeld /\ ReservedNames /\ DisposalWaits

\* The invariant holds of the initial states of the terminals.
LEMMA TerminalsStart == Terminals!Init => TerminalsInv
BY DEF Terminals!Init, TerminalsInv, TerminalsType, OpenIsHeld, ReservedNames, DisposalWaits, Terminals!At, Terminals!Of,
       Terminals!New, Terminals!None, TerminalKey, TerminalStates, SpawnPcs, CleanupPcs, SpawnRecord, Terminals!Running

\* A record of a spawn stays one when a field is set.
LEMMA SpawnRecordKept ==
    \A r \in SpawnRecord:
        /\ \A p \in SpawnPcs: [r EXCEPT !.pc = p] \in SpawnRecord
        /\ \A b \in BOOLEAN: [r EXCEPT !.aborted = b] \in SpawnRecord /\ [r EXCEPT !.closing = b] \in SpawnRecord
        /\ \A b, c \in BOOLEAN: [r EXCEPT !.closing = b, !.closed = c] \in SpawnRecord
        /\ \A p \in SpawnPcs, b, c \in BOOLEAN: [r EXCEPT !.pc = p, !.closing = b, !.closed = c] \in SpawnRecord
BY DEF SpawnRecord

\* What the end of a close, or its failure, writes to the record.
LEMMA CloseWrites ==
    TerminalsType => \A s \in Spawn:
        /\ Terminals!CloseEnds(s) =>
             /\ record'[s] = [record[s] EXCEPT !.pc = "ended", !.closing = FALSE, !.closed = TRUE]
             /\ record' = [record EXCEPT ![s] = record'[s]]
        /\ Terminals!CloseFails(s) =>
             /\ record'[s] = [record[s] EXCEPT !.closing = FALSE, !.closed = TRUE]
             /\ record' = [record EXCEPT ![s] = record'[s]]
BY DEF Terminals!CloseEnds, Terminals!CloseFails, TerminalsType

\* The end of a close, or its failure, leaves a record where there was one.
LEMMA CloseKeepsRecord ==
    ASSUME TerminalsType, NEW s \in Spawn, Terminals!CloseEnds(s) \/ Terminals!CloseFails(s)
    PROVE  record' \in [Spawn -> SpawnRecord]
<1>1. record \in [Spawn -> SpawnRecord] /\ record[s] \in SpawnRecord
  BY DEF TerminalsType
<1>2. "ended" \in SpawnPcs
  BY DEF SpawnPcs
<1>3. /\ \/ record'[s] = [record[s] EXCEPT !.pc = "ended", !.closing = FALSE, !.closed = TRUE]
         \/ record'[s] = [record[s] EXCEPT !.closing = FALSE, !.closed = TRUE]
      /\ record' = [record EXCEPT ![s] = record'[s]]
  BY CloseWrites
<1>4. record'[s] \in SpawnRecord
  BY <1>1, <1>2, <1>3, SpawnRecordKept
<1>5. QED
  BY <1>1, <1>3, <1>4

\* Every step of the terminals keeps the types.
LEMMA TerminalsTypeStep == TerminalsType /\ Terminals!Next => TerminalsType'
<1> SUFFICES ASSUME TerminalsType, Terminals!Next PROVE TerminalsType'
  OBVIOUS
<1> USE DEF TerminalsType, TerminalKey, TerminalStates, CleanupPcs
<1>a. \A s \in Spawn: record[s] \in SpawnRecord
  OBVIOUS
<1>b. ASSUME NEW s \in Spawn, NEW p \in SpawnPcs, Terminals!Goto(s, p) PROVE record' \in [Spawn -> SpawnRecord]
  BY <1>a, <1>b, SpawnRecordKept DEF Terminals!Goto
<1>1. ASSUME NEW s \in Spawn, NEW o \in Owner, NEW name \in Name \union {Terminals!None}, Terminals!Begin(s, o, name)
      PROVE  TerminalsType'
  BY <1>1 DEF Terminals!Begin, Terminals!New, Terminals!None, SpawnRecord, SpawnPcs
<1>2. ASSUME NEW s \in Spawn, Terminals!Abort(s) PROVE TerminalsType'
  BY <1>2, <1>a, SpawnRecordKept DEF Terminals!Abort
<1>3. ASSUME NEW s \in Spawn, Terminals!Open(s) PROVE TerminalsType'
  <2>1. "quiet" \in SpawnPcs /\ "ended" \in SpawnPcs
    BY DEF SpawnPcs
  <2>2. QED
    BY <1>3, <1>b, <2>1 DEF Terminals!Open
<1>4. ASSUME NEW s \in Spawn, Terminals!Quiet(s) PROVE TerminalsType'
  <2>1. "undo" \in SpawnPcs /\ "returned" \in SpawnPcs
    BY DEF SpawnPcs
  <2>2. QED
    BY <1>4, <1>b, <2>1 DEF Terminals!Quiet
<1>5. ASSUME NEW s \in Spawn, Terminals!Undo(s) PROVE TerminalsType'
  <2>1. "ended" \in SpawnPcs
    BY DEF SpawnPcs
  <2>2. QED
    BY <1>5, <1>b, <2>1 DEF Terminals!Undo, Terminals!Closes, Terminals!Sticks
<1>6. ASSUME NEW s \in Spawn, Terminals!Publish(s) PROVE TerminalsType'
  <2>1. "rollback" \in SpawnPcs /\ "published" \in SpawnPcs
    BY DEF SpawnPcs
  <2>2. QED
    BY <1>6, <1>b, <2>1 DEF Terminals!Publish
<1>7. ASSUME NEW s \in Spawn, Terminals!Rollback(s) PROVE TerminalsType'
  <2>1. "ended" \in SpawnPcs /\ "held" \in SpawnPcs
    BY DEF SpawnPcs
  <2>2. QED
    BY <1>7, <1>b, <2>1 DEF Terminals!Rollback, Terminals!Closes, Terminals!Sticks
<1>8. ASSUME NEW s \in Spawn, Terminals!Kill(s) PROVE TerminalsType'
  BY <1>8, <1>a, SpawnRecordKept DEF Terminals!Kill
<1>9. ASSUME NEW s \in Spawn, Terminals!CloseEnds(s) \/ Terminals!CloseFails(s) PROVE TerminalsType'
  <2>1. terminal' \in [Spawn -> TerminalStates]
    BY <1>9 DEF Terminals!CloseEnds, Terminals!CloseFails, Terminals!Closes, Terminals!Sticks
  <2>2. record' \in [Spawn -> SpawnRecord]
    BY <1>9, CloseKeepsRecord
  <2>3. PICK bad \in BOOLEAN : Terminals!Settled(s, bad)
    BY <1>9 DEF Terminals!CloseEnds, Terminals!CloseFails
  <2>4. cleanup' \in [TerminalKey -> [pc : CleanupPcs, wait : SUBSET Spawn, bad : BOOLEAN]]
    BY <2>3 DEF Terminals!Settled
  <2>5. QED
    BY <2>1, <2>2, <2>4
<1>10. ASSUME NEW k \in TerminalKey, Terminals!Disposal(k) PROVE TerminalsType'
  <2>1. record' \in [Spawn -> SpawnRecord]
    BY <1>10, <1>a, SpawnRecordKept DEF Terminals!Disposal
  <2>2. {s \in Terminals!Of(k) : Terminals!Pending(s)} \in SUBSET Spawn
    BY DEF Terminals!Of
  <2>3. cleanup' \in [TerminalKey -> [pc : CleanupPcs, wait : SUBSET Spawn, bad : BOOLEAN]]
    BY <1>10, <2>2 DEF Terminals!Disposal
  <2>4. QED
    BY <1>10, <2>1, <2>3 DEF Terminals!Disposal
<1>11. ASSUME NEW k \in TerminalKey, Terminals!Aborted(k) PROVE TerminalsType'
  <2>1. "reported" \in SpawnPcs
    BY DEF SpawnPcs
  <2>2. record' \in [Spawn -> SpawnRecord]
    BY <1>11, <1>a, <2>1, SpawnRecordKept DEF Terminals!Aborted, Terminals!CloseRecords
  <2>3. {s \in Terminals!Of(k) : Terminals!At(s, {"published"})} \in SUBSET Spawn
    BY DEF Terminals!Of
  <2>4. cleanup' \in [TerminalKey -> [pc : CleanupPcs, wait : SUBSET Spawn, bad : BOOLEAN]]
    BY <1>11, <2>3 DEF Terminals!Aborted, Terminals!CloseRecords
  <2>5. QED
    BY <1>11, <2>2, <2>4 DEF Terminals!Aborted, Terminals!CloseRecords
<1>12. ASSUME NEW k \in TerminalKey, Terminals!DisposalEnds(k) PROVE TerminalsType'
  BY <1>12 DEF Terminals!DisposalEnds
<1>13. QED
  BY <1>1, <1>2, <1>3, <1>4, <1>5, <1>6, <1>7, <1>8, <1>9, <1>10, <1>11, <1>12 DEF Terminals!Next

\* Every step of the terminals keeps what is open on its way, or published.
LEMMA OpenIsHeldStep == TerminalsType /\ OpenIsHeld /\ Terminals!Next => OpenIsHeld'
<1> SUFFICES ASSUME TerminalsType, OpenIsHeld, Terminals!Next PROVE OpenIsHeld'
  OBVIOUS
<1> USE DEF TerminalsType, OpenIsHeld, Terminals!At, SpawnRecord
<1>1. ASSUME NEW s \in Spawn, NEW o \in Owner, NEW name \in Name \union {Terminals!None}, Terminals!Begin(s, o, name)
      PROVE  OpenIsHeld'
  BY <1>1 DEF Terminals!Begin, Terminals!New
<1>2. ASSUME NEW s \in Spawn, Terminals!Abort(s) PROVE OpenIsHeld'
  BY <1>2 DEF Terminals!Abort
<1>3. ASSUME NEW s \in Spawn, Terminals!Open(s) PROVE OpenIsHeld'
  <2>1. CASE terminal' = [terminal EXCEPT ![s] = "open"] /\ Terminals!Goto(s, "quiet")
    BY <1>3, <2>1 DEF Terminals!Open, Terminals!Goto
  <2>2. CASE UNCHANGED terminal /\ Terminals!Goto(s, "ended")
    BY <1>3, <2>2 DEF Terminals!Open, Terminals!Goto
  <2>3. QED
    BY <1>3, <2>1, <2>2 DEF Terminals!Open
<1>4. ASSUME NEW s \in Spawn, Terminals!Quiet(s) PROVE OpenIsHeld'
  BY <1>4 DEF Terminals!Quiet, Terminals!Goto
<1>5. ASSUME NEW s \in Spawn, Terminals!Undo(s) PROVE OpenIsHeld'
  BY <1>5 DEF Terminals!Undo, Terminals!Goto, Terminals!Closes, Terminals!Sticks
<1>6. ASSUME NEW s \in Spawn, Terminals!Publish(s) PROVE OpenIsHeld'
  BY <1>6 DEF Terminals!Publish, Terminals!Goto
<1>7. ASSUME NEW s \in Spawn, Terminals!Rollback(s) PROVE OpenIsHeld'
  BY <1>7 DEF Terminals!Rollback, Terminals!Goto, Terminals!Closes, Terminals!Sticks
<1>8. ASSUME NEW s \in Spawn, Terminals!Kill(s) PROVE OpenIsHeld'
  BY <1>8 DEF Terminals!Kill
<1>9. ASSUME NEW s \in Spawn, Terminals!CloseEnds(s) PROVE OpenIsHeld'
  BY <1>9 DEF Terminals!CloseEnds, Terminals!Closes, Terminals!Closing
<1>10. ASSUME NEW s \in Spawn, Terminals!CloseFails(s) PROVE OpenIsHeld'
  BY <1>10 DEF Terminals!CloseFails, Terminals!Sticks, Terminals!Closing
<1>11. ASSUME NEW k \in TerminalKey, Terminals!Disposal(k) PROVE OpenIsHeld'
  BY <1>11 DEF Terminals!Disposal
<1>12. ASSUME NEW k \in TerminalKey, Terminals!Aborted(k) PROVE OpenIsHeld'
  BY <1>12 DEF Terminals!Aborted, Terminals!CloseRecords
<1>13. ASSUME NEW k \in TerminalKey, Terminals!DisposalEnds(k) PROVE OpenIsHeld'
  BY <1>13 DEF Terminals!DisposalEnds
<1>14. QED
  BY <1>1, <1>2, <1>3, <1>4, <1>5, <1>6, <1>7, <1>8, <1>9, <1>10, <1>11, <1>12, <1>13 DEF Terminals!Next, TerminalKey

\* Names that are reserved stay distinct: only Begin adds one, of those that are free.
LEMMA ReservedNamesStep == TerminalsType /\ ReservedNames /\ Terminals!Next => ReservedNames'
<1> SUFFICES ASSUME TerminalsType, ReservedNames, Terminals!Next PROVE ReservedNames'
  OBVIOUS
<1> DEFINE Reserves(s) == Terminals!At(s, Terminals!Running \union {"published"})
<1>1. ASSUME NEW s \in Spawn, NEW o \in Owner, NEW name \in Name \union {Terminals!None}, Terminals!Begin(s, o, name)
      PROVE  ReservedNames'
  <2> USE DEF TerminalsType, Terminals!At, SpawnRecord
  <2>1. /\ record'[s].owner = o /\ record'[s].name = name
        /\ \A t \in Spawn \ {s}: record'[t] = record[t]
    BY <1>1 DEF Terminals!Begin, Terminals!New
  <2>2. ASSUME name # "none", NEW t \in Spawn, record[t].owner = o, Reserves(t) PROVE record[t].name # name
    BY <1>1, <2>2 DEF Terminals!Begin, Terminals!IsFree, Terminals!Of, Terminals!None, Terminals!Running
  <2>3. QED
    BY <2>1, <2>2 DEF ReservedNames
<1>2. ASSUME \A s \in Spawn: /\ record'[s].owner = record[s].owner /\ record'[s].name = record[s].name
                             /\ Reserves(s)' => Reserves(s)
      PROVE  ReservedNames'
  BY <1>2 DEF ReservedNames
<1>3. CASE \E s \in Spawn: \/ Terminals!Abort(s) \/ Terminals!Open(s) \/ Terminals!Quiet(s) \/ Terminals!Undo(s)
                           \/ Terminals!Publish(s) \/ Terminals!Rollback(s) \/ Terminals!Kill(s)
  <2> USE DEF TerminalsType, Terminals!At, Terminals!Running, SpawnRecord
  <2>1. PICK s \in Spawn: \/ Terminals!Abort(s) \/ Terminals!Open(s) \/ Terminals!Quiet(s) \/ Terminals!Undo(s)
                          \/ Terminals!Publish(s) \/ Terminals!Rollback(s) \/ Terminals!Kill(s)
    BY <1>3
  <2>2. \A t \in Spawn \ {s}: record'[t] = record[t]
    BY <2>1 DEF Terminals!Abort, Terminals!Open, Terminals!Quiet, Terminals!Undo, Terminals!Publish, Terminals!Rollback,
                Terminals!Kill, Terminals!Goto
  <2>3. record'[s].owner = record[s].owner /\ record'[s].name = record[s].name
    BY <2>1 DEF Terminals!Abort, Terminals!Open, Terminals!Quiet, Terminals!Undo, Terminals!Publish, Terminals!Rollback,
                Terminals!Kill, Terminals!Goto
  <2>4. Reserves(s)
    BY <2>1 DEF Terminals!Abort, Terminals!Open, Terminals!Quiet, Terminals!Undo, Terminals!Publish, Terminals!Rollback,
                Terminals!Kill
  <2>5. QED
    BY <1>2, <2>2, <2>3, <2>4
<1>4. CASE \E s \in Spawn: Terminals!CloseEnds(s) \/ Terminals!CloseFails(s)
  <2> USE DEF TerminalsType, Terminals!At, Terminals!Running, SpawnRecord
  <2>1. PICK s \in Spawn: Terminals!CloseEnds(s) \/ Terminals!CloseFails(s)
    BY <1>4
  <2>2. \A t \in Spawn \ {s}: record'[t] = record[t]
    BY <2>1 DEF Terminals!CloseEnds, Terminals!CloseFails
  <2>3. record'[s].owner = record[s].owner /\ record'[s].name = record[s].name
    <3>1. \/ record'[s] = [record[s] EXCEPT !.pc = "ended", !.closing = FALSE, !.closed = TRUE]
          \/ record'[s] = [record[s] EXCEPT !.closing = FALSE, !.closed = TRUE]
      BY <2>1, CloseWrites
    <3>2. QED
      BY <3>1
  <2>4. Reserves(s)
    BY <2>1 DEF Terminals!CloseEnds, Terminals!CloseFails, Terminals!Closing
  <2>5. QED
    BY <1>2, <2>2, <2>3, <2>4
<1>5. CASE \E k \in TerminalKey: Terminals!Disposal(k) \/ Terminals!Aborted(k) \/ Terminals!DisposalEnds(k)
  <2> USE DEF TerminalsType, Terminals!At, Terminals!Running, SpawnRecord
  <2>1. PICK k \in TerminalKey: Terminals!Disposal(k) \/ Terminals!Aborted(k) \/ Terminals!DisposalEnds(k)
    BY <1>5
  <2>2. ASSUME NEW s \in Spawn
        PROVE  /\ record'[s].owner = record[s].owner /\ record'[s].name = record[s].name
               /\ Reserves(s)' => Reserves(s)
    <3>1. CASE Terminals!Disposal(k)
      BY <3>1 DEF Terminals!Disposal
    <3>2. CASE Terminals!Aborted(k)
      BY <3>2 DEF Terminals!Aborted, Terminals!CloseRecords
    <3>3. CASE Terminals!DisposalEnds(k)
      BY <3>3 DEF Terminals!DisposalEnds
    <3>4. QED
      BY <2>1, <3>1, <3>2, <3>3
  <2>3. QED
    BY <1>2, <2>2
<1>6. QED
  BY <1>1, <1>3, <1>4, <1>5 DEF Terminals!Next, TerminalKey

\* A disposal goes on waiting for what it has to wait for: nothing of its owner begins or is published once it has begun.
LEMMA DisposalWaitsStep == TerminalsType /\ OpenIsHeld /\ DisposalWaits /\ Terminals!Next => DisposalWaits'
<1> SUFFICES ASSUME TerminalsType, OpenIsHeld, DisposalWaits, Terminals!Next PROVE DisposalWaits'
  OBVIOUS
<1> DEFINE Runs(s) == Terminals!At(s, Terminals!Running)
           OpenOne(s) == Terminals!At(s, {"published"}) /\ terminal[s] = "open"
\* A step of one spawn that is no Begin and settles no close.
<1>1. ASSUME UNCHANGED cleanup,
             \A s \in Spawn: /\ record'[s].owner = record[s].owner
                             /\ record'[s].pc # "none" => record[s].pc # "none"
                             /\ Runs(s)' => Runs(s)
                             /\ OpenOne(s)' => \/ OpenOne(s)
                                               \/ /\ Runs(s) /\ cleanup[Service].pc = "none"
                                                  /\ cleanup[record[s].owner].pc = "none"
      PROVE  DisposalWaits'
  BY <1>1 DEF DisposalWaits, Terminals!Of, TerminalKey
<1>2. ASSUME NEW s \in Spawn, NEW o \in Owner, NEW name \in Name \union {Terminals!None}, Terminals!Begin(s, o, name)
      PROVE  DisposalWaits'
  <2> USE DEF TerminalsType, Terminals!At, SpawnRecord
  <2>1. /\ record'[s].owner = o /\ cleanup[o].pc = "none" /\ cleanup[Service].pc = "none"
        /\ \A t \in Spawn \ {s}: record'[t] = record[t]
        /\ UNCHANGED <<terminal, cleanup>>
    BY <1>2 DEF Terminals!Begin, Terminals!New, Terminals!IsLiveOwner, Terminals!Disposing
  <2>2. QED
    BY <2>1 DEF DisposalWaits, Terminals!Of, TerminalKey
<1>3. CASE \E s \in Spawn: \/ Terminals!Abort(s) \/ Terminals!Open(s) \/ Terminals!Quiet(s) \/ Terminals!Undo(s)
                           \/ Terminals!Publish(s) \/ Terminals!Rollback(s) \/ Terminals!Kill(s)
  <2> USE DEF TerminalsType, Terminals!At, Terminals!Running, SpawnRecord
  <2>1. PICK s \in Spawn: \/ Terminals!Abort(s) \/ Terminals!Open(s) \/ Terminals!Quiet(s) \/ Terminals!Undo(s)
                          \/ Terminals!Publish(s) \/ Terminals!Rollback(s) \/ Terminals!Kill(s)
    BY <1>3
  <2>2. UNCHANGED cleanup /\ \A t \in Spawn \ {s}: record'[t] = record[t] /\ terminal'[t] = terminal[t]
    BY <2>1 DEF Terminals!Abort, Terminals!Open, Terminals!Quiet, Terminals!Undo, Terminals!Publish, Terminals!Rollback,
                Terminals!Kill, Terminals!Goto, Terminals!Closes, Terminals!Sticks
  <2>3. record'[s].owner = record[s].owner /\ record[s].pc # "none"
    BY <2>1 DEF Terminals!Abort, Terminals!Open, Terminals!Quiet, Terminals!Undo, Terminals!Publish, Terminals!Rollback,
                Terminals!Kill, Terminals!Goto
  <2>4. Runs(s)' => Runs(s)
    BY <2>1 DEF Terminals!Abort, Terminals!Open, Terminals!Quiet, Terminals!Undo, Terminals!Publish, Terminals!Rollback,
                Terminals!Kill, Terminals!Goto
  <2>5. OpenOne(s)' => \/ OpenOne(s)
                       \/ Runs(s) /\ cleanup[Service].pc = "none" /\ cleanup[record[s].owner].pc = "none"
    <3>1. CASE Terminals!Publish(s)
      BY <3>1 DEF Terminals!Publish, Terminals!Goto, Terminals!Disposing, Terminals!IsLiveOwner
    <3>2. CASE Terminals!Abort(s) \/ Terminals!Kill(s)
      BY <3>2 DEF Terminals!Abort, Terminals!Kill
    <3>3. CASE Terminals!Open(s) \/ Terminals!Quiet(s) \/ Terminals!Undo(s) \/ Terminals!Rollback(s)
      <4>1. record'[s].pc # "published"
        BY <3>3 DEF Terminals!Open, Terminals!Quiet, Terminals!Undo, Terminals!Rollback, Terminals!Goto
      <4>2. QED
        BY <4>1
    <3>4. QED
      BY <2>1, <3>1, <3>2, <3>3
  <2>6. QED
    BY <1>1, <2>2, <2>3, <2>4, <2>5
<1>4. CASE \E s \in Spawn: Terminals!CloseEnds(s) \/ Terminals!CloseFails(s)
  <2>1. PICK s \in Spawn: Terminals!CloseEnds(s) \/ Terminals!CloseFails(s)
    BY <1>4
  <2>2. \A t \in Spawn \ {s}: record'[t] = record[t] /\ terminal'[t] = terminal[t]
    BY <2>1 DEF Terminals!CloseEnds, Terminals!CloseFails, Terminals!Closes, Terminals!Sticks, TerminalsType
  <2>3. record'[s].owner = record[s].owner /\ record[s].pc # "none" /\ ~Runs(s)'
    <3>1. record[s].pc = "published" /\ record[s] \in SpawnRecord
      BY <2>1 DEF Terminals!CloseEnds, Terminals!CloseFails, Terminals!Closing, Terminals!At, TerminalsType
    <3>2. \/ record'[s] = [record[s] EXCEPT !.pc = "ended", !.closing = FALSE, !.closed = TRUE]
          \/ record'[s] = [record[s] EXCEPT !.closing = FALSE, !.closed = TRUE]
      BY <2>1, CloseWrites
    <3>3. record'[s].owner = record[s].owner /\ record'[s].pc \in {"published", "ended"}
      BY <3>1, <3>2 DEF SpawnRecord
    <3>4. QED
      BY <3>1, <3>3 DEF Terminals!At, Terminals!Running
  <2>4. ~OpenOne(s)'
    <3>1. CASE Terminals!CloseEnds(s)
      BY <3>1, CloseWrites DEF Terminals!At, TerminalsType, SpawnRecord
    <3>2. CASE Terminals!CloseFails(s)
      BY <3>2 DEF Terminals!CloseFails, Terminals!Sticks, TerminalsType
    <3>3. QED
      BY <2>1, <3>1, <3>2
  <2>5. \A k \in TerminalKey:
           /\ cleanup'[k].pc = cleanup[k].pc
           /\ cleanup[k].pc = "abort" => cleanup'[k].wait = cleanup[k].wait
           /\ cleanup[k].wait \ {s} \subseteq cleanup'[k].wait
    <3>1. PICK bad \in BOOLEAN: Terminals!Settled(s, bad)
      BY <2>1 DEF Terminals!CloseEnds, Terminals!CloseFails
    <3>2. QED
      BY <3>1 DEF Terminals!Settled, TerminalsType
  <2>6. \A t \in Spawn \ {s}: (Runs(t)' <=> Runs(t)) /\ (OpenOne(t)' <=> OpenOne(t))
    BY <2>2 DEF Terminals!At
  <2>7. QED
    BY <2>2, <2>3, <2>4, <2>5, <2>6 DEF DisposalWaits, Terminals!Of, TerminalsType
<1>5. ASSUME NEW k \in TerminalKey, Terminals!Disposal(k) PROVE DisposalWaits'
  <2>1. /\ \A s \in Spawn: record'[s].owner = record[s].owner /\ record'[s].pc = record[s].pc
        /\ UNCHANGED terminal
    BY <1>5 DEF Terminals!Disposal, TerminalsType, SpawnRecord
  <2>2. /\ cleanup'[k].pc = "abort" /\ cleanup'[k].wait = {s \in Terminals!Of(k): Terminals!Pending(s)}
        /\ \A l \in TerminalKey \ {k}: cleanup'[l] = cleanup[l]
    BY <1>5 DEF Terminals!Disposal, TerminalsType
  <2>3. \A s \in Spawn: (Runs(s)' <=> Runs(s)) /\ (OpenOne(s)' <=> OpenOne(s)) /\ (Runs(s) => Terminals!Pending(s))
    BY <2>1 DEF Terminals!At, Terminals!Pending
  <2>4. \A l \in TerminalKey: Terminals!Of(l)' = Terminals!Of(l)
    BY <2>1 DEF Terminals!Of
  <2>5. \A l \in TerminalKey: \A s \in Terminals!Of(l): s \in Spawn
    BY DEF Terminals!Of
  <2>6. ASSUME NEW l \in TerminalKey, cleanup'[l].pc # "none", NEW s \in Terminals!Of(l)
        PROVE  /\ Runs(s)' => cleanup'[l].pc = "abort" /\ s \in cleanup'[l].wait
               /\ OpenOne(s)' => cleanup'[l].pc = "abort" \/ (cleanup'[l].pc = "close" /\ s \in cleanup'[l].wait)
    <3>1. CASE l = k
      BY <3>1, <2>2, <2>3, <2>5, <2>6
    <3>2. CASE l # k
      BY <3>2, <2>2, <2>3, <2>5, <2>6 DEF DisposalWaits
    <3>3. QED
      BY <3>1, <3>2
  <2>7. QED
    BY <2>4, <2>6 DEF DisposalWaits
<1>6. ASSUME NEW k \in TerminalKey, Terminals!Aborted(k) PROVE DisposalWaits'
  <2>1. /\ \A s \in Spawn: record'[s].owner = record[s].owner /\ (record'[s].pc # "none" => record[s].pc # "none")
        /\ UNCHANGED terminal
    BY <1>6 DEF Terminals!Aborted, Terminals!CloseRecords, Terminals!At, TerminalsType, SpawnRecord
  <2>2. /\ cleanup[k].pc = "abort" /\ \A s \in cleanup[k].wait: ~Runs(s)
        /\ cleanup'[k].pc = "close" /\ cleanup'[k].wait = {s \in Terminals!Of(k): Terminals!At(s, {"published"})}
        /\ \A l \in TerminalKey \ {k}: cleanup'[l] = cleanup[l]
    BY <1>6 DEF Terminals!Aborted, Terminals!CloseRecords, TerminalsType
  <2>3. \A s \in Spawn: (Runs(s)' => Runs(s)) /\ (OpenOne(s)' => OpenOne(s))
    BY <1>6, <2>1 DEF Terminals!Aborted, Terminals!CloseRecords, Terminals!At, Terminals!Running, TerminalsType, SpawnRecord
  <2>4. \A l \in TerminalKey: \A s \in Terminals!Of(l)': s \in Spawn /\ s \in Terminals!Of(l)
    BY <2>1 DEF Terminals!Of
  <2>5. QED
    BY <2>2, <2>3, <2>4 DEF DisposalWaits
<1>7. ASSUME NEW k \in TerminalKey, Terminals!DisposalEnds(k) PROVE DisposalWaits'
  <2>1. /\ cleanup[k].pc = "close" /\ cleanup[k].wait = {} /\ UNCHANGED <<terminal, record>>
        /\ \A l \in TerminalKey \ {k}: cleanup'[l] = cleanup[l]
    BY <1>7 DEF Terminals!DisposalEnds, TerminalsType
  <2>2. QED
    BY <2>1 DEF DisposalWaits, Terminals!Of, Terminals!At
<1>8. QED
  BY <1>2, <1>3, <1>4, <1>5, <1>6, <1>7 DEF Terminals!Next, TerminalKey

\* A step of the composition is a step of the terminals, or leaves them alone.
LEMMA TerminalsInFocus == [Next]_allVars => Terminals!Next \/ UNCHANGED terminalsVars
BY DEF Next, Still, allVars

\* The inductive invariant of the terminals: its types, what is open, the names, and what a disposal waits for.
LEMMA TerminalsInvariant == Spec => []TerminalsInv
<1>1. Init => TerminalsInv
  BY TerminalsStart DEF Init
<1>2. TerminalsInv /\ [Next]_allVars => TerminalsInv'
  <2> SUFFICES ASSUME TerminalsInv, [Next]_allVars PROVE TerminalsInv'
    OBVIOUS
  <2>1. CASE Terminals!Next
    BY <2>1, TerminalsTypeStep, OpenIsHeldStep, ReservedNamesStep, DisposalWaitsStep DEF TerminalsInv
  <2>2. CASE UNCHANGED terminalsVars
    BY <2>2 DEF TerminalsInv, TerminalsType, OpenIsHeld, ReservedNames, DisposalWaits, terminalsVars, Terminals!At,
                Terminals!Of
  <2>3. QED
    BY <2>1, <2>2, TerminalsInFocus
<1>3. QED
  BY <1>1, <1>2, PTL DEF Spec

\* A disposal that has ended, of an owner or of the whole service, leaves no terminal open; an owner with an open terminal
\* counts as active; the names of an owner's terminals are distinct: for every number of owners, spawns and names
\* (plugin/terminal-service.ts).
THEOREM TerminalsAreKept == Spec => []TerminalsKept
<1>1. TerminalsInv => Terminals!DisposedOwnsNothing
  BY DEF TerminalsInv, TerminalsType, OpenIsHeld, DisposalWaits, Terminals!DisposedOwnsNothing, Terminals!Over,
         Terminals!Of, Terminals!At, Terminals!Running, TerminalKey
<1>2. TerminalsInv => Terminals!OpenIsActivity
  BY DEF TerminalsInv, OpenIsHeld, Terminals!OpenIsActivity, Terminals!HasOwnerActivity, Terminals!Of, Terminals!Pending,
         Terminals!At, Terminals!Running
<1>3. TerminalsInv => Terminals!NamesAreDistinct
  BY DEF TerminalsInv, ReservedNames, Terminals!NamesAreDistinct, Terminals!At, Terminals!None
<1>4. TerminalsInv => TerminalsKept
  BY <1>1, <1>2, <1>3 DEF TerminalsKept
<1>5. QED
  BY <1>4, TerminalsInvariant, PTL

-----------------------------------------------------------------------------
(* The instances of a service (Instances), when the calls for one id do     *)
(* not overlap.                                                            *)

NoEngine == InstanceMap!None

EngineRecord == [id : Id \union {CHOOSE i \in Id : TRUE}, ports : SUBSET Port, used : BOOLEAN, disposed : BOOLEAN]
OpPcs == {"idle", "mkdir", "probe", "reset", "drop", "restart", "flush", "clear"}
OpRecord == [pc : OpPcs, id : Id \union {CHOOSE i \in Id : TRUE}, engine : InstanceMap!Engine \union {NoEngine}]

InstancesType ==
    /\ view \in [Id -> InstanceMap!Engine \union {NoEngine}]
    /\ hooks \in [Id -> InstanceMap!Engine \union {NoEngine}]
    /\ rows \in [Id -> Nat]
    /\ expected \in [Id -> SUBSET Port]
    /\ ready \in SUBSET Port
    /\ engine \in [InstanceMap!Engine -> EngineRecord]
    /\ op \in [AnyCall -> OpRecord]

\* An engine has one id: the one it is known by, and the one whose ports it hears of.
EngineHasOneId ==
    \A i \in Id:
        /\ view[i] # NoEngine => engine[view[i]].used /\ engine[view[i]].id = i
        /\ hooks[i] # NoEngine => engine[hooks[i]].used /\ engine[hooks[i]].id = i

\* An id that is not known is not listed, and claims no port.
UnknownClaimsNothing == \A i \in Id: view[i] = NoEngine => rows[i] = 0 /\ expected[i] = {}

\* One call at a time works on an id, and a shutdown works alone.
CallsAreAlone ==
    \A c, d \in AnyCall:
        c # d /\ op[c].pc # "idle" /\ op[d].pc # "idle" =>
            op[c].pc \notin {"flush", "clear"} /\ op[c].id # op[d].id

\* What a call has found still holds at its next step.
CallsAreCurrent ==
    \A c \in AnyCall:
        /\ op[c].pc \in {"mkdir", "probe", "reset", "drop", "restart"} => op[c].id \in Id
        /\ op[c].pc \in {"mkdir", "probe"} => view[op[c].id] = NoEngine
        /\ op[c].pc = "probe" =>
              /\ op[c].engine # NoEngine /\ hooks[op[c].id] = op[c].engine
              /\ ~engine[op[c].engine].disposed /\ engine[op[c].engine].ports = {}
        /\ op[c].pc \in {"reset", "drop", "restart"} =>
              op[c].engine # NoEngine /\ view[op[c].id] = op[c].engine

\* An id that no call is taking away is known by a live engine that hears of the ports.
Leaving(i) == \E c \in AnyCall: \/ op[c].pc \in {"reset", "drop"} /\ op[c].id = i
                                \/ op[c].pc \in {"flush", "clear"}
LiveView(i) ==
    /\ ~engine[view[i]].disposed /\ rows[i] = 1 /\ hooks[i] = view[i]
    /\ engine[view[i]].ports = expected[i] \intersect ready
StaysLive == \A i \in Id: view[i] # NoEngine /\ ~Leaving(i) => LiveView(i)

InstancesInv ==
    InstancesType /\ EngineHasOneId /\ UnknownClaimsNothing /\ CallsAreAlone /\ CallsAreCurrent /\ StaysLive

\* No engine has the number of none.
LEMMA EnginesAreSome == NoEngine \notin InstanceMap!Engine
BY DEF NoEngine, InstanceMap!None, InstanceMap!Engine

\* The invariant holds of the initial state.
LEMMA InstancesStart == InstanceMap!Init => InstancesInv
<1> SUFFICES ASSUME InstanceMap!Init PROVE InstancesInv
  OBVIOUS
<1>1. InstancesType
  BY DEF InstanceMap!Init, InstancesType, EngineRecord, OpRecord, OpPcs, InstanceMap!Unused, InstanceMap!Idle, NoEngine
<1>2. QED
  BY <1>1 DEF InstanceMap!Init, InstancesInv, EngineHasOneId, UnknownClaimsNothing, CallsAreAlone, CallsAreCurrent,
         StaysLive, NoEngine, InstanceMap!Idle

\* A record of an engine stays one when a field is set.
LEMMA EngineRecordKept ==
    \A r \in EngineRecord:
        /\ \A P \in SUBSET Port: [r EXCEPT !.ports = P] \in EngineRecord
        /\ \A b \in BOOLEAN: [r EXCEPT !.disposed = b] \in EngineRecord
BY DEF EngineRecord

\* The steps of the instances keep the types.
LEMMA InstancesTypeStep == InstancesType /\ CallsAreCurrent /\ InstanceMap!Next => InstancesType'
<1> SUFFICES ASSUME InstancesType, CallsAreCurrent, InstanceMap!Next PROVE InstancesType'
  OBVIOUS
<1>0. \A e \in InstanceMap!Engine: engine[e] \in EngineRecord
  BY DEF InstancesType
<1>a. ASSUME NEW c \in AnyCall, NEW i \in Id \union {CHOOSE i \in Id : TRUE}, NEW p \in OpPcs,
             NEW e \in InstanceMap!Engine \union {NoEngine}, InstanceMap!Goto(c, i, p, e)
      PROVE  op' \in [AnyCall -> OpRecord]
  <2>1. [pc |-> p, id |-> i, engine |-> e] \in OpRecord
    BY DEF OpRecord
  <2>2. QED
    BY <1>a, <2>1 DEF InstanceMap!Goto, InstancesType
<1>b. ASSUME NEW c \in AnyCall, InstanceMap!Done(c) PROVE op' \in [AnyCall -> OpRecord]
  <2>1. InstanceMap!Idle \in OpRecord
    BY DEF OpRecord, OpPcs, InstanceMap!Idle, NoEngine
  <2>2. QED
    BY <1>b, <2>1 DEF InstanceMap!Done, InstancesType
<1>c. ASSUME NEW E, InstanceMap!Disposed(E)
      PROVE  /\ engine' \in [InstanceMap!Engine -> EngineRecord]
             /\ hooks' \in [Id -> InstanceMap!Engine \union {NoEngine}]
  <2>1. \A e \in InstanceMap!Engine: [engine[e] EXCEPT !.disposed = @ \/ e \in E] \in EngineRecord
    <3> TAKE e \in InstanceMap!Engine
    <3>1. (engine[e].disposed \/ e \in E) \in BOOLEAN
      OBVIOUS
    <3>2. QED
      BY <1>0, <3>1, EngineRecordKept
  <2>2. QED
    BY <1>c, <2>1 DEF InstanceMap!Disposed, InstancesType, NoEngine
<1>d. \A c \in AnyCall: op[c].id \in Id \union {CHOOSE i \in Id : TRUE} /\ op[c].engine \in InstanceMap!Engine \union {NoEngine}
  BY DEF InstancesType, OpRecord
<1>1. ASSUME NEW c \in AnyCall, NEW i \in Id, InstanceMap!Ensure(c, i) PROVE InstancesType'
  BY <1>1, <1>a DEF InstanceMap!Ensure, InstanceMap!Build, InstancesType, OpPcs, NoEngine
<1>2. ASSUME NEW c \in AnyCall, InstanceMap!Subscribe(c) PROVE InstancesType'
  <2>1. PICK e \in InstanceMap!Engine:
           /\ engine' = [engine EXCEPT ![e] = [id |-> op[c].id, ports |-> {}, used |-> TRUE, disposed |-> FALSE]]
           /\ hooks' = [hooks EXCEPT ![op[c].id] = e]
           /\ InstanceMap!Goto(c, op[c].id, "probe", e)
    BY <1>2 DEF InstanceMap!Subscribe
  <2>2. [id |-> op[c].id, ports |-> {}, used |-> TRUE, disposed |-> FALSE] \in EngineRecord
    BY <1>d DEF EngineRecord
  <2>3. engine' \in [InstanceMap!Engine -> EngineRecord]
    BY <2>1, <2>2 DEF InstancesType
  <2>4. op' \in [AnyCall -> OpRecord]
    BY <2>1, <1>a, <1>d DEF OpPcs
  <2>5. QED
    BY <1>2, <2>1, <2>3, <2>4 DEF InstanceMap!Subscribe, InstancesType
<1>3. ASSUME NEW c \in AnyCall, InstanceMap!ProbeFails(c) PROVE InstancesType'
  BY <1>3, <1>b DEF InstanceMap!ProbeFails, InstancesType
<1>4. ASSUME NEW c \in AnyCall, InstanceMap!Register(c) PROVE InstancesType'
  <2>1. op[c].id \in Id
    BY <1>4 DEF InstanceMap!Register, CallsAreCurrent
  <2>2. QED
    BY <1>4, <1>b, <1>d, <2>1 DEF InstanceMap!Register, InstanceMap!Listed, InstancesType
<1>5. ASSUME NEW c \in AnyCall, NEW i \in Id, InstanceMap!Release(c, i) \/ InstanceMap!Restart(c, i) PROVE InstancesType'
  BY <1>5, <1>a DEF InstanceMap!Release, InstanceMap!Restart, InstancesType, OpPcs
<1>6. ASSUME NEW c \in AnyCall, InstanceMap!Dispose(c) PROVE InstancesType'
  <2>1. op' \in [AnyCall -> OpRecord]
    BY <1>6, <1>a, <1>d DEF InstanceMap!Dispose, OpPcs
  <2>2. QED
    BY <1>6, <1>c, <2>1 DEF InstanceMap!Dispose, InstancesType
<1>7. ASSUME NEW c \in AnyCall, InstanceMap!Drop(c) PROVE InstancesType'
  BY <1>7, <1>b DEF InstanceMap!Drop, InstancesType, NoEngine
<1>8. ASSUME NEW c \in AnyCall, InstanceMap!Restarted(c) PROVE InstancesType'
  <2>1. op[c].engine \in InstanceMap!Engine
    BY <1>8, <1>d DEF InstanceMap!Restarted, CallsAreCurrent
  <2>2. [engine[op[c].engine] EXCEPT !.ports = {}] \in EngineRecord
    BY <2>1, <1>0, EngineRecordKept
  <2>3. engine' \in [InstanceMap!Engine -> EngineRecord]
    BY <1>8, <2>1, <2>2 DEF InstanceMap!Restarted, InstancesType
  <2>4. QED
    BY <1>8, <1>b, <2>3 DEF InstanceMap!Restarted, InstancesType
<1>9. ASSUME NEW c \in AnyCall, InstanceMap!Shutdown(c) PROVE InstancesType'
  BY <1>9, <1>a, <1>d DEF InstanceMap!Shutdown, InstancesType, OpPcs, NoEngine
<1>10. ASSUME NEW c \in AnyCall, InstanceMap!ClearInstances(c) PROVE InstancesType'
  <2>1. op' \in [AnyCall -> OpRecord]
    BY <1>10, <1>a, <1>d DEF InstanceMap!ClearInstances, OpPcs, NoEngine
  <2>2. QED
    BY <1>10, <1>c, <2>1 DEF InstanceMap!ClearInstances, InstancesType
<1>11. ASSUME NEW c \in AnyCall, InstanceMap!Cleared(c) PROVE InstancesType'
  BY <1>11, <1>b DEF InstanceMap!Cleared, InstanceMap!ResetPorts, InstancesType, NoEngine
<1>12. CASE InstanceMap!Boot
  BY <1>12 DEF InstanceMap!Boot, InstancesType
<1>13. ASSUME NEW p \in Port, NEW b \in BOOLEAN, InstanceMap!Seen(p, b) PROVE engine' \in [InstanceMap!Engine -> EngineRecord]
  <2>1. \A e \in InstanceMap!Engine: engine'[e] = engine[e] \/ \E P \in SUBSET Port: engine'[e] = [engine[e] EXCEPT !.ports = P]
    <3> TAKE e \in InstanceMap!Engine
    <3>1. engine[e].ports \union {p} \in SUBSET Port /\ engine[e].ports \ {p} \in SUBSET Port /\ engine[e].ports \in SUBSET Port
      BY <1>0 DEF EngineRecord
    <3>2. QED
      BY <1>13, <3>1 DEF InstanceMap!Seen
  <2>2. QED
    BY <1>13, <1>0, <2>1, EngineRecordKept DEF InstanceMap!Seen
<1>14. ASSUME NEW p \in Port, InstanceMap!PortReady(p) \/ InstanceMap!PortClosed(p) PROVE InstancesType'
  BY <1>13, <1>14 DEF InstanceMap!PortReady, InstanceMap!PortClosed, InstancesType
<1>15. ASSUME NEW i \in Id, NEW P \in SUBSET Port, view[i] # NoEngine, InstanceMap!Claims(i, P)
       PROVE  /\ expected' \in [Id -> SUBSET Port] /\ engine' \in [InstanceMap!Engine -> EngineRecord]
  <2>1. [engine[view[i]] EXCEPT !.ports = P \intersect ready] \in EngineRecord
    BY <1>0, <1>15, EngineRecordKept DEF InstancesType
  <2>2. QED
    BY <1>15, <2>1 DEF InstanceMap!Claims, InstancesType
<1>16. ASSUME NEW p \in Port, NEW i \in Id, InstanceMap!Expect(i, p) \/ InstanceMap!Unexpect(i, p) PROVE InstancesType'
  <2>1. expected[i] \union {p} \in SUBSET Port /\ expected[i] \ {p} \in SUBSET Port
    BY DEF InstancesType
  <2>2. QED
    BY <1>15, <1>16, <2>1 DEF InstanceMap!Expect, InstanceMap!Unexpect, InstancesType, NoEngine
<1>17. QED
  BY <1>1, <1>2, <1>3, <1>4, <1>5, <1>6, <1>7, <1>8, <1>9, <1>10, <1>11, <1>12, <1>14, <1>16 DEF InstanceMap!Next

\* An engine stays with its id: only one that no id has used is given one.
LEMMA EngineHasOneIdStep == InstancesType /\ CallsAreCurrent /\ EngineHasOneId /\ InstanceMap!Next => EngineHasOneId'
<1> SUFFICES ASSUME InstancesType, CallsAreCurrent, EngineHasOneId, InstanceMap!Next PROVE EngineHasOneId'
  OBVIOUS
<1> DEFINE Same(e) == engine'[e].id = engine[e].id /\ engine'[e].used = engine[e].used
\* Views and hooks that a step leaves, or takes away.
<1>1. ASSUME \A e \in InstanceMap!Engine: Same(e),
             \A i \in Id: view'[i] \in {view[i], NoEngine} /\ hooks'[i] \in {hooks[i], NoEngine}
      PROVE  EngineHasOneId'
  BY <1>1 DEF EngineHasOneId, InstancesType
<1>0. \A e \in InstanceMap!Engine: engine[e] \in EngineRecord
  BY DEF InstancesType
<1>2. ASSUME NEW E, InstanceMap!Disposed(E)
      PROVE  (\A e \in InstanceMap!Engine: Same(e)) /\ (\A i \in Id: hooks'[i] \in {hooks[i], NoEngine})
  BY <1>0, <1>2 DEF InstanceMap!Disposed, EngineRecord, NoEngine
<1>3. ASSUME NEW p \in Port, NEW b \in BOOLEAN, InstanceMap!Seen(p, b) PROVE \A e \in InstanceMap!Engine: Same(e)
  <2> TAKE e \in InstanceMap!Engine
  <2>1. \/ engine'[e] = [engine[e] EXCEPT !.ports = engine[e].ports \union {p}]
        \/ engine'[e] = [engine[e] EXCEPT !.ports = engine[e].ports \ {p}]
        \/ engine'[e] = [engine[e] EXCEPT !.ports = engine[e].ports]
    BY <1>3 DEF InstanceMap!Seen
  <2>2. QED
    BY <1>0, <2>1 DEF EngineRecord
<1>4. ASSUME NEW i \in Id, NEW P, InstanceMap!Claims(i, P) PROVE \A e \in InstanceMap!Engine: Same(e)
  BY <1>0, <1>4 DEF InstanceMap!Claims, EngineRecord, InstancesType
<1>5. ASSUME NEW c \in AnyCall, NEW i \in Id, \/ InstanceMap!Ensure(c, i) \/ InstanceMap!Release(c, i)
                                             \/ InstanceMap!Restart(c, i)
      PROVE  EngineHasOneId'
  BY <1>1, <1>5 DEF InstanceMap!Ensure, InstanceMap!Release, InstanceMap!Restart
<1>6. ASSUME NEW c \in AnyCall, InstanceMap!Subscribe(c) PROVE EngineHasOneId'
  <2>1. PICK e \in InstanceMap!Engine:
           /\ ~engine[e].used
           /\ engine' = [engine EXCEPT ![e] = [id |-> op[c].id, ports |-> {}, used |-> TRUE, disposed |-> FALSE]]
           /\ hooks' = [hooks EXCEPT ![op[c].id] = e]
    BY <1>6 DEF InstanceMap!Subscribe
  <2>2. op[c].id \in Id /\ UNCHANGED view
    BY <1>6 DEF InstanceMap!Subscribe, CallsAreCurrent
  <2>3. engine'[e].used /\ engine'[e].id = op[c].id /\ \A f \in InstanceMap!Engine \ {e}: Same(f)
    BY <2>1 DEF InstancesType
  <2>4. QED
    BY <2>1, <2>2, <2>3 DEF EngineHasOneId, InstancesType
<1>7. ASSUME NEW c \in AnyCall, InstanceMap!ProbeFails(c) \/ InstanceMap!Shutdown(c) PROVE EngineHasOneId'
  BY <1>1, <1>7 DEF InstanceMap!ProbeFails, InstanceMap!Shutdown
<1>8. ASSUME NEW c \in AnyCall, InstanceMap!Register(c) PROVE EngineHasOneId'
  BY <1>8 DEF InstanceMap!Register, InstanceMap!Listed, CallsAreCurrent, EngineHasOneId, InstancesType
<1>9. ASSUME NEW c \in AnyCall, InstanceMap!Dispose(c) PROVE EngineHasOneId'
  BY <1>1, <1>2, <1>9 DEF InstanceMap!Dispose
<1>10. ASSUME NEW c \in AnyCall, InstanceMap!ClearInstances(c) PROVE EngineHasOneId'
  BY <1>1, <1>2, <1>10 DEF InstanceMap!ClearInstances
<1>11. ASSUME NEW c \in AnyCall, InstanceMap!Drop(c) \/ InstanceMap!Cleared(c) PROVE EngineHasOneId'
  BY <1>1, <1>11 DEF InstanceMap!Drop, InstanceMap!Cleared, InstanceMap!ResetPorts, InstancesType, NoEngine
<1>12. ASSUME NEW c \in AnyCall, InstanceMap!Restarted(c) PROVE EngineHasOneId'
  <2>1. \A e \in InstanceMap!Engine: Same(e)
    BY <1>0, <1>12 DEF InstanceMap!Restarted, EngineRecord, InstancesType
  <2>2. QED
    BY <1>1, <1>12, <2>1 DEF InstanceMap!Restarted
<1>13. CASE InstanceMap!Boot
  BY <1>1, <1>13 DEF InstanceMap!Boot
<1>14. ASSUME NEW p \in Port, InstanceMap!PortReady(p) \/ InstanceMap!PortClosed(p) PROVE EngineHasOneId'
  BY <1>1, <1>3, <1>14 DEF InstanceMap!PortReady, InstanceMap!PortClosed
<1>15. ASSUME NEW p \in Port, NEW i \in Id, InstanceMap!Expect(i, p) \/ InstanceMap!Unexpect(i, p) PROVE EngineHasOneId'
  BY <1>1, <1>4, <1>15 DEF InstanceMap!Expect, InstanceMap!Unexpect
<1>16. QED
  BY <1>5, <1>6, <1>7, <1>8, <1>9, <1>10, <1>11, <1>12, <1>13, <1>14, <1>15 DEF InstanceMap!Next

\* An id that is not known is not listed, and claims nothing.
LEMMA UnknownClaimsNothingStep ==
    InstancesType /\ CallsAreCurrent /\ UnknownClaimsNothing /\ InstanceMap!Next => UnknownClaimsNothing'
<1> SUFFICES ASSUME InstancesType, CallsAreCurrent, UnknownClaimsNothing, InstanceMap!Next PROVE UnknownClaimsNothing'
  OBVIOUS
<1> USE DEF UnknownClaimsNothing, InstancesType
<1>1. ASSUME UNCHANGED <<view, rows, expected>> PROVE UnknownClaimsNothing'
  BY <1>1
<1>2. ASSUME NEW c \in AnyCall,
             \/ \E i \in Id: \/ InstanceMap!Ensure(c, i) \/ InstanceMap!Release(c, i) \/ InstanceMap!Restart(c, i)
             \/ InstanceMap!Subscribe(c) \/ InstanceMap!ProbeFails(c) \/ InstanceMap!Dispose(c) \/ InstanceMap!Shutdown(c)
             \/ InstanceMap!ClearInstances(c)
      PROVE  UnknownClaimsNothing'
  BY <1>1, <1>2 DEF InstanceMap!Ensure, InstanceMap!Release, InstanceMap!Restart, InstanceMap!Subscribe,
                    InstanceMap!ProbeFails, InstanceMap!Dispose, InstanceMap!Shutdown, InstanceMap!ClearInstances
<1>3. ASSUME NEW c \in AnyCall, InstanceMap!Register(c) PROVE UnknownClaimsNothing'
  BY <1>3 DEF InstanceMap!Register, InstanceMap!Listed, CallsAreCurrent
<1>4. ASSUME NEW c \in AnyCall, InstanceMap!Drop(c) \/ InstanceMap!Cleared(c) \/ InstanceMap!Restarted(c)
      PROVE  UnknownClaimsNothing'
  BY <1>4 DEF InstanceMap!Drop, InstanceMap!Cleared, InstanceMap!ResetPorts, InstanceMap!Restarted
<1>5. CASE InstanceMap!Boot \/ \E p \in Port: InstanceMap!PortReady(p) \/ InstanceMap!PortClosed(p)
  BY <1>1, <1>5 DEF InstanceMap!Boot, InstanceMap!PortReady, InstanceMap!PortClosed
<1>6. ASSUME NEW p \in Port, NEW i \in Id, InstanceMap!Expect(i, p) \/ InstanceMap!Unexpect(i, p)
      PROVE  UnknownClaimsNothing'
  BY <1>6 DEF InstanceMap!Expect, InstanceMap!Unexpect, InstanceMap!Claims, NoEngine
<1>7. QED
  BY <1>2, <1>3, <1>4, <1>5, <1>6 DEF InstanceMap!Next

\* A call begins when no other works on its id, and a shutdown when none works at all.
LEMMA CallsAreAloneStep ==
    ~Overlap /\ InstancesType /\ CallsAreCurrent /\ CallsAreAlone /\ InstanceMap!Next => CallsAreAlone'
<1> SUFFICES ASSUME ~Overlap, InstancesType, CallsAreCurrent, CallsAreAlone, InstanceMap!Next PROVE CallsAreAlone'
  OBVIOUS
<1> DEFINE Busy(c) == op[c].pc # "idle"
           AtOnce(c) == op[c].pc \in {"flush", "clear"}
\* A call goes on, or ends.
<1>1. ASSUME NEW c \in AnyCall, \A d \in AnyCall \ {c}: op'[d] = op[d],
             Busy(c), Busy(c)' => op'[c].id = op[c].id /\ (AtOnce(c)' => AtOnce(c))
      PROVE  CallsAreAlone'
  BY <1>1 DEF CallsAreAlone
<1>2. ASSUME NEW c \in AnyCall, NEW i \in Id, InstanceMap!May(i),
             op'[c].id = i, ~AtOnce(c)', \A d \in AnyCall \ {c}: op'[d] = op[d]
      PROVE  CallsAreAlone'
  BY <1>2 DEF CallsAreAlone, InstanceMap!May, InstanceMap!Busy
<1>3. ASSUME NEW c \in AnyCall, NEW i \in Id, \/ InstanceMap!Ensure(c, i) \/ InstanceMap!Release(c, i)
                                             \/ InstanceMap!Restart(c, i)
      PROVE  CallsAreAlone'
  <2>1. op'[c].id = i /\ ~AtOnce(c)' /\ \A d \in AnyCall \ {c}: op'[d] = op[d]
    BY <1>3 DEF InstanceMap!Ensure, InstanceMap!Build, InstanceMap!Release, InstanceMap!Restart, InstanceMap!Goto,
                InstancesType
  <2>2. InstanceMap!May(i)
    BY <1>3 DEF InstanceMap!Ensure, InstanceMap!Release, InstanceMap!Restart
  <2>3. QED
    BY <1>2, <2>1, <2>2
<1>4. ASSUME NEW c \in AnyCall, \/ InstanceMap!ProbeFails(c) \/ InstanceMap!Register(c) \/ InstanceMap!Drop(c)
                                \/ InstanceMap!Restarted(c) \/ InstanceMap!Cleared(c)
      PROVE  CallsAreAlone'
  <2>1. Busy(c) /\ InstanceMap!Done(c)
    BY <1>4 DEF InstanceMap!ProbeFails, InstanceMap!Register, InstanceMap!Drop, InstanceMap!Restarted, InstanceMap!Cleared
  <2>2. ~Busy(c)'
    BY <2>1 DEF InstanceMap!Done, InstanceMap!Idle, InstancesType
  <2>3. QED
    BY <1>1, <2>1, <2>2 DEF InstanceMap!Done, InstancesType
<1>5. ASSUME NEW c \in AnyCall, \/ InstanceMap!Subscribe(c) \/ InstanceMap!Dispose(c) \/ InstanceMap!ClearInstances(c)
      PROVE  CallsAreAlone'
  <2>1. Busy(c) /\ op'[c].id = op[c].id /\ \A d \in AnyCall \ {c}: op'[d] = op[d]
    BY <1>5 DEF InstanceMap!Subscribe, InstanceMap!Dispose, InstanceMap!ClearInstances, InstanceMap!Goto, InstancesType
  <2>2. AtOnce(c)' => AtOnce(c)
    BY <1>5 DEF InstanceMap!Subscribe, InstanceMap!Dispose, InstanceMap!ClearInstances, InstanceMap!Goto, InstancesType
  <2>3. QED
    BY <1>1, <2>1, <2>2
<1>6. ASSUME NEW c \in AnyCall, InstanceMap!Shutdown(c) PROVE CallsAreAlone'
  <2>1. \A d \in AnyCall: ~Busy(d)
    <3> TAKE d \in AnyCall
    <3>1. op[d] \in OpRecord /\ ~AtOnce(d)
      BY <1>6 DEF InstanceMap!Shutdown, InstancesType
    <3>2. op[d].pc \in {"mkdir", "probe", "reset", "drop", "restart"} => InstanceMap!Busy(op[d].id) /\ op[d].id \in Id
      BY DEF InstanceMap!Busy, CallsAreCurrent
    <3>3. QED
      BY <1>6, <3>1, <3>2 DEF InstanceMap!Shutdown, InstanceMap!May, OpRecord, OpPcs
  <2>2. \A d \in AnyCall \ {c}: op'[d] = op[d]
    BY <1>6 DEF InstanceMap!Shutdown, InstanceMap!Goto, InstancesType
  <2>3. QED
    BY <2>1, <2>2 DEF CallsAreAlone
<1>7. CASE UNCHANGED op
  BY <1>7 DEF CallsAreAlone
<1>8. CASE InstanceMap!Boot \/ \E p \in Port: \/ InstanceMap!PortReady(p) \/ InstanceMap!PortClosed(p)
                                              \/ \E i \in Id: InstanceMap!Expect(i, p) \/ InstanceMap!Unexpect(i, p)
  BY <1>7, <1>8 DEF InstanceMap!Boot, InstanceMap!PortReady, InstanceMap!PortClosed, InstanceMap!Expect,
                    InstanceMap!Unexpect
<1>9. QED
  BY <1>3, <1>4, <1>5, <1>6, <1>8 DEF InstanceMap!Next

\* What a call has found holds until its next step: the others work on other ids, and a shutdown alone.
LEMMA CallsAreCurrentStep ==
    ~Overlap /\ InstancesInv /\ InstanceMap!Next => CallsAreCurrent'
<1> SUFFICES ASSUME ~Overlap, InstancesInv, InstanceMap!Next PROVE CallsAreCurrent'
  OBVIOUS
<1> USE DEF InstancesInv
<1>0. /\ NoEngine \notin InstanceMap!Engine
      /\ \A e \in InstanceMap!Engine: engine[e] \in EngineRecord
      /\ \A c \in AnyCall: op[c] \in OpRecord
  BY EnginesAreSome DEF InstancesType
<1> DEFINE Current(c) ==
              /\ op[c].pc \in {"mkdir", "probe", "reset", "drop", "restart"} => op[c].id \in Id
              /\ op[c].pc \in {"mkdir", "probe"} => view[op[c].id] = NoEngine
              /\ op[c].pc = "probe" =>
                    /\ op[c].engine # NoEngine /\ hooks[op[c].id] = op[c].engine
                    /\ ~engine[op[c].engine].disposed /\ engine[op[c].engine].ports = {}
              /\ op[c].pc \in {"reset", "drop", "restart"} => op[c].engine # NoEngine /\ view[op[c].id] = op[c].engine
           Works(c) == op[c].pc \in {"mkdir", "probe", "reset", "drop", "restart"}
           Probed(c) == ~engine[op[c].engine].disposed /\ engine[op[c].engine].ports = {}
\* A call that a step leaves alone, with its id and its engine.
<1>1. ASSUME NEW c \in AnyCall, op'[c] = op[c],
             Works(c) => view'[op[c].id] = view[op[c].id] /\ hooks'[op[c].id] = hooks[op[c].id],
             op[c].pc = "probe" => Probed(c)'
      PROVE  Current(c)'
  BY <1>1 DEF CallsAreCurrent
<1>2. ASSUME NEW c \in AnyCall, op[c].pc = "probe"
      PROVE  /\ op[c].engine \in InstanceMap!Engine /\ engine[op[c].engine].id = op[c].id /\ engine[op[c].engine].used
             /\ op[c].id \in Id /\ view[op[c].id] = NoEngine /\ hooks[op[c].id] = op[c].engine
             /\ expected[op[c].id] = {}
             /\ Probed(c)
  BY <1>0, <1>2 DEF CallsAreCurrent, EngineHasOneId, UnknownClaimsNothing, OpRecord
<1>3. ASSUME NEW c \in AnyCall, NEW i \in Id, InstanceMap!Ensure(c, i) PROVE CallsAreCurrent'
  <2>1. ASSUME NEW d \in AnyCall PROVE Current(d)'
    <3>1. CASE d = c
      BY <3>1, <1>3 DEF InstanceMap!Ensure, InstanceMap!Build, InstanceMap!Goto, InstancesType, NoEngine
    <3>2. CASE d # c
      BY <3>2, <1>1, <1>2, <1>3 DEF InstanceMap!Ensure, InstanceMap!Build, InstanceMap!Goto, InstancesType
    <3>3. QED
      BY <3>1, <3>2
  <2>2. QED
    BY <2>1 DEF CallsAreCurrent
<1>4. ASSUME NEW c \in AnyCall, NEW i \in Id, InstanceMap!Release(c, i) \/ InstanceMap!Restart(c, i) PROVE CallsAreCurrent'
  <2>1. ASSUME NEW d \in AnyCall PROVE Current(d)'
    <3>1. CASE d = c
      BY <3>1, <1>4 DEF InstanceMap!Release, InstanceMap!Restart, InstanceMap!Goto, InstancesType, NoEngine
    <3>2. CASE d # c
      BY <3>2, <1>1, <1>2, <1>4 DEF InstanceMap!Release, InstanceMap!Restart, InstanceMap!Goto, InstancesType
    <3>3. QED
      BY <3>1, <3>2
  <2>2. QED
    BY <2>1 DEF CallsAreCurrent
<1>5. ASSUME NEW c \in AnyCall, InstanceMap!Subscribe(c) PROVE CallsAreCurrent'
  <2>1. PICK e \in InstanceMap!Engine:
           /\ ~engine[e].used
           /\ engine' = [engine EXCEPT ![e] = [id |-> op[c].id, ports |-> {}, used |-> TRUE, disposed |-> FALSE]]
           /\ hooks' = [hooks EXCEPT ![op[c].id] = e]
           /\ op' = [op EXCEPT ![c] = [pc |-> "probe", id |-> op[c].id, engine |-> e]]
    BY <1>5 DEF InstanceMap!Subscribe, InstanceMap!Goto
  <2>2. op[c].pc = "mkdir" /\ op[c].id \in Id /\ view[op[c].id] = NoEngine /\ UNCHANGED view
    BY <1>5 DEF InstanceMap!Subscribe, CallsAreCurrent
  <2>3. ASSUME NEW d \in AnyCall PROVE Current(d)'
    <3>1. CASE d = c
      BY <3>1, <2>1, <2>2, <1>0 DEF InstancesType
    <3>2. CASE d # c
      <4>1. op'[d] = op[d]
        BY <3>2, <2>1 DEF InstancesType
      <4>2. Works(d) => op[d].id # op[c].id
        BY <3>2, <2>2 DEF CallsAreAlone
      <4>3. Works(d) => hooks'[op[d].id] = hooks[op[d].id]
        BY <4>2, <2>1 DEF InstancesType, CallsAreCurrent
      <4>4. op[d].pc = "probe" => Probed(d)'
        BY <4>1, <2>1, <1>2 DEF InstancesType
      <4>5. QED
        BY <1>1, <2>2, <4>1, <4>3, <4>4
    <3>3. QED
      BY <3>1, <3>2
  <2>4. QED
    BY <2>3 DEF CallsAreCurrent
\* A call that ends is idle.
<1>6. ASSUME NEW c \in AnyCall, InstanceMap!Done(c), \A d \in AnyCall \ {c}: Current(d)' PROVE CallsAreCurrent'
  <2>1. Current(c)'
    BY <1>6 DEF InstanceMap!Done, InstanceMap!Idle, InstancesType
  <2>2. QED
    BY <1>6, <2>1 DEF CallsAreCurrent
<1>7. ASSUME NEW c \in AnyCall, InstanceMap!Done(c), Works(c), UNCHANGED <<engine, hooks>>,
             \A i \in Id: i # op[c].id => view'[i] = view[i]
      PROVE  CallsAreCurrent'
  <2>1. ASSUME NEW d \in AnyCall \ {c} PROVE Current(d)'
    <3>1. op'[d] = op[d]
      BY <1>7 DEF InstanceMap!Done, InstancesType
    <3>2. Works(d) => op[d].id # op[c].id /\ op[d].id \in Id
      BY <1>7 DEF CallsAreAlone, CallsAreCurrent
    <3>3. QED
      BY <1>1, <1>2, <1>7, <3>1, <3>2
  <2>2. QED
    BY <1>6, <1>7, <2>1
<1>8. ASSUME NEW c \in AnyCall, InstanceMap!ProbeFails(c) \/ InstanceMap!Register(c) PROVE CallsAreCurrent'
  BY <1>7, <1>8 DEF InstanceMap!ProbeFails, InstanceMap!Register, InstanceMap!Listed, InstancesType
<1>9. ASSUME NEW c \in AnyCall, InstanceMap!Dispose(c) PROVE CallsAreCurrent'
  <2>1. op[c].pc = "reset" /\ op[c].id \in Id /\ view[op[c].id] = op[c].engine /\ op[c].engine \in InstanceMap!Engine
    BY <1>0, <1>9 DEF InstanceMap!Dispose, CallsAreCurrent, OpRecord
  <2>2. engine[op[c].engine].id = op[c].id
    BY <2>1, <1>0 DEF EngineHasOneId
  <2>3. op' = [op EXCEPT ![c] = [pc |-> "drop", id |-> op[c].id, engine |-> op[c].engine]] /\ UNCHANGED view
    BY <1>9 DEF InstanceMap!Dispose, InstanceMap!Goto
  <2>4. /\ \A e \in InstanceMap!Engine \ {op[c].engine}: engine'[e].disposed = engine[e].disposed /\ engine'[e].ports = engine[e].ports
        /\ \A i \in Id: hooks'[i] = hooks[i] \/ hooks[i] = op[c].engine
    BY <1>0, <1>9 DEF InstanceMap!Dispose, InstanceMap!Disposed, EngineRecord
  <2>5. ASSUME NEW d \in AnyCall PROVE Current(d)'
    <3>1. CASE d = c
      BY <3>1, <2>1, <2>3, <1>0 DEF InstancesType
    <3>2. CASE d # c
      <4>1. op'[d] = op[d]
        BY <3>2, <2>3 DEF InstancesType
      <4>2. Works(d) => op[d].id # op[c].id /\ op[d].id \in Id
        BY <3>2, <2>1 DEF CallsAreAlone, CallsAreCurrent
      <4>3. Works(d) => hooks'[op[d].id] = hooks[op[d].id]
        BY <4>2, <2>1, <2>2, <2>4, <1>0 DEF EngineHasOneId
      <4>4. op[d].pc = "probe" => op[d].engine # op[c].engine
        BY <4>2, <2>2, <1>2
      <4>5. op[d].pc = "probe" => Probed(d)'
        BY <4>1, <4>4, <2>4, <1>2
      <4>6. QED
        BY <1>1, <2>3, <4>1, <4>3, <4>5
    <3>3. QED
      BY <3>1, <3>2
  <2>6. QED
    BY <2>5 DEF CallsAreCurrent
<1>10. ASSUME NEW c \in AnyCall, InstanceMap!Drop(c) PROVE CallsAreCurrent'
  <2>1. InstanceMap!Done(c) /\ Works(c) /\ op[c].id \in Id /\ UNCHANGED engine
    BY <1>10 DEF InstanceMap!Drop, CallsAreCurrent
  <2>2. \A i \in Id: i # op[c].id => view'[i] = view[i] /\ hooks'[i] = hooks[i]
    BY <1>10, <2>1 DEF InstanceMap!Drop, InstancesType
  <2>3. ASSUME NEW d \in AnyCall \ {c} PROVE Current(d)'
    <3>1. op'[d] = op[d]
      BY <2>1 DEF InstanceMap!Done, InstancesType
    <3>2. Works(d) => op[d].id # op[c].id /\ op[d].id \in Id
      BY <2>1 DEF CallsAreAlone, CallsAreCurrent
    <3>3. QED
      BY <1>1, <1>2, <2>1, <2>2, <3>1, <3>2
  <2>4. QED
    BY <1>6, <2>1, <2>3
<1>11. ASSUME NEW c \in AnyCall, InstanceMap!Restarted(c) PROVE CallsAreCurrent'
  <2>1. /\ InstanceMap!Done(c) /\ Works(c) /\ op[c].id \in Id /\ UNCHANGED <<view, hooks>>
        /\ engine' = [engine EXCEPT ![op[c].engine].ports = {}]
    BY <1>11 DEF InstanceMap!Restarted, CallsAreCurrent
  <2>2. ASSUME NEW d \in AnyCall \ {c} PROVE Current(d)'
    <3>1. op'[d] = op[d]
      BY <2>1 DEF InstanceMap!Done, InstancesType
    <3>2. op[d].pc = "probe" => Probed(d)'
      BY <1>0, <1>2, <2>1, <3>1 DEF InstancesType, EngineRecord
    <3>3. QED
      BY <1>1, <2>1, <3>1, <3>2
  <2>3. QED
    BY <1>6, <2>1, <2>2
<1>12. ASSUME NEW c \in AnyCall, op[c].pc \in {"flush", "clear"}, NEW d \in AnyCall, d # c PROVE op[d].pc = "idle"
  BY <1>12 DEF CallsAreAlone
<1>13. ASSUME NEW c \in AnyCall, InstanceMap!Shutdown(c) PROVE CallsAreCurrent'
  <2>1. ASSUME NEW d \in AnyCall PROVE Current(d)'
    <3>1. CASE d = c
      BY <3>1, <1>13 DEF InstanceMap!Shutdown, InstanceMap!Goto, InstancesType
    <3>2. CASE d # c
      BY <3>2, <1>1, <1>2, <1>13 DEF InstanceMap!Shutdown, InstanceMap!Goto, InstancesType
    <3>3. QED
      BY <3>1, <3>2
  <2>2. QED
    BY <2>1 DEF CallsAreCurrent
<1>14. ASSUME NEW c \in AnyCall, InstanceMap!ClearInstances(c) \/ InstanceMap!Cleared(c) PROVE CallsAreCurrent'
  <2>1. /\ op[c].pc \in {"flush", "clear"} /\ \A d \in AnyCall \ {c}: op'[d] = op[d]
        /\ op'[c].pc \in {"idle", "clear"}
    BY <1>14 DEF InstanceMap!ClearInstances, InstanceMap!Cleared, InstanceMap!Goto, InstanceMap!Done, InstanceMap!Idle,
                 InstancesType
  <2>2. \A d \in AnyCall: op'[d].pc \in {"idle", "clear"}
    BY <1>12, <2>1
  <2>3. QED
    BY <2>2 DEF CallsAreCurrent
<1>15. CASE InstanceMap!Boot
  BY <1>15 DEF InstanceMap!Boot, CallsAreCurrent
<1>16. ASSUME NEW p \in Port, InstanceMap!PortReady(p) \/ InstanceMap!PortClosed(p) PROVE CallsAreCurrent'
  <2>1. UNCHANGED <<view, hooks, op>> /\ \E b \in BOOLEAN: InstanceMap!Seen(p, b)
    BY <1>16 DEF InstanceMap!PortReady, InstanceMap!PortClosed
  <2>2. ASSUME NEW d \in AnyCall, op[d].pc = "probe" PROVE Probed(d)'
    <3>1. op[d].engine \notin InstanceMap!Hearing(p)
      BY <1>0, <1>2, <2>2 DEF InstanceMap!Hearing, EngineHasOneId, NoEngine
    <3>2. engine'[op[d].engine] = [engine[op[d].engine] EXCEPT !.ports = engine[op[d].engine].ports]
      BY <1>2, <2>1, <2>2, <3>1 DEF InstanceMap!Seen
    <3>3. QED
      BY <1>0, <1>2, <2>1, <2>2, <3>2 DEF EngineRecord
  <2>3. QED
    BY <1>1, <2>1, <2>2 DEF CallsAreCurrent
<1>17. ASSUME NEW p \in Port, NEW i \in Id, InstanceMap!Expect(i, p) \/ InstanceMap!Unexpect(i, p) PROVE CallsAreCurrent'
  <2>1. view[i] # NoEngine /\ UNCHANGED <<view, hooks, op>> /\ \E P: engine' = [engine EXCEPT ![view[i]].ports = P]
    BY <1>17 DEF InstanceMap!Expect, InstanceMap!Unexpect, InstanceMap!Claims, NoEngine
  <2>2. ASSUME NEW d \in AnyCall, op[d].pc = "probe" PROVE Probed(d)'
    <3>1. op[d].engine # view[i]
      BY <1>0, <1>2, <2>1, <2>2 DEF EngineHasOneId
    <3>2. QED
      BY <1>2, <2>1, <2>2, <3>1 DEF InstancesType
  <2>3. QED
    BY <1>1, <2>1, <2>2 DEF CallsAreCurrent
<1>18. QED
  BY <1>3, <1>4, <1>5, <1>8, <1>9, <1>10, <1>11, <1>13, <1>14, <1>15, <1>16, <1>17 DEF InstanceMap!Next

\* The view of an id that no call is taking away stays live, and shows the open ports that the id claims.
LEMMA StaysLiveStep ==
    ~Overlap /\ InstancesInv /\ InstanceMap!Next => StaysLive'
<1> SUFFICES ASSUME ~Overlap, InstancesInv, InstanceMap!Next PROVE StaysLive'
  OBVIOUS
<1> USE DEF InstancesInv
<1>0. /\ NoEngine \notin InstanceMap!Engine
      /\ \A e \in InstanceMap!Engine: engine[e] \in EngineRecord
      /\ \A c \in AnyCall: op[c] \in OpRecord
  BY EnginesAreSome DEF InstancesType
\* What leaves an id, its view and its engine alone.
<1>1. ASSUME NEW i \in Id, view[i] # NoEngine, LiveView(i), UNCHANGED ready,
             view'[i] = view[i], rows'[i] = rows[i], hooks'[i] = hooks[i], expected'[i] = expected[i],
             engine'[view[i]] = engine[view[i]]
      PROVE  LiveView(i)'
  BY <1>1 DEF LiveView
<1>2. ASSUME NEW i \in Id, view[i] # NoEngine
      PROVE  view[i] \in InstanceMap!Engine /\ engine[view[i]].id = i /\ engine[view[i]].used
  BY <1>2 DEF InstancesType, EngineHasOneId
<1>3. ASSUME NEW i \in Id, view[i] # NoEngine, ~Leaving(i) PROVE LiveView(i)
  BY <1>3 DEF StaysLive
\* A call whose step does not let go of an id.
<1>4. ASSUME UNCHANGED <<view, rows, engine, hooks, expected, ready>>, \A i \in Id: view[i] # NoEngine /\ Leaving(i) => Leaving(i)'
      PROVE  StaysLive'
  BY <1>1, <1>3, <1>4 DEF StaysLive
<1>5. ASSUME NEW c \in AnyCall, NEW i \in Id, InstanceMap!Ensure(c, i) PROVE StaysLive'
  <2>1. \A j \in Id: Leaving(j) => Leaving(j)'
    BY <1>5 DEF InstanceMap!Ensure, InstanceMap!Build, InstanceMap!Goto, Leaving, InstancesType
  <2>2. QED
    BY <1>4, <1>5, <2>1 DEF InstanceMap!Ensure
<1>6. ASSUME NEW c \in AnyCall, NEW i \in Id, InstanceMap!Release(c, i) \/ InstanceMap!Restart(c, i) PROVE StaysLive'
  <2>1. \A j \in Id: Leaving(j) => Leaving(j)'
    BY <1>6 DEF InstanceMap!Release, InstanceMap!Restart, InstanceMap!Goto, Leaving, InstancesType
  <2>2. QED
    BY <1>4, <1>6, <2>1 DEF InstanceMap!Release, InstanceMap!Restart
<1>7. ASSUME NEW c \in AnyCall, InstanceMap!Subscribe(c) PROVE StaysLive'
  <2>1. PICK e \in InstanceMap!Engine:
           /\ ~engine[e].used
           /\ engine' = [engine EXCEPT ![e] = [id |-> op[c].id, ports |-> {}, used |-> TRUE, disposed |-> FALSE]]
           /\ hooks' = [hooks EXCEPT ![op[c].id] = e]
           /\ op' = [op EXCEPT ![c] = [pc |-> "probe", id |-> op[c].id, engine |-> e]]
    BY <1>7 DEF InstanceMap!Subscribe, InstanceMap!Goto
  <2>2. op[c].pc = "mkdir" /\ op[c].id \in Id /\ view[op[c].id] = NoEngine /\ UNCHANGED <<view, rows, expected, ready>>
    BY <1>7 DEF InstanceMap!Subscribe, CallsAreCurrent
  <2>3. \A j \in Id: Leaving(j) => Leaving(j)'
    BY <2>1, <2>2 DEF Leaving, InstancesType
  <2>4. ASSUME NEW j \in Id, view[j] # NoEngine, ~Leaving(j) PROVE LiveView(j)'
    <3>1. j # op[c].id /\ view[j] # e
      BY <1>2, <2>1, <2>2, <2>4
    <3>2. QED
      BY <1>1, <1>2, <1>3, <2>1, <2>2, <2>4, <3>1 DEF InstancesType
  <2>5. QED
    BY <2>2, <2>3, <2>4 DEF StaysLive
<1>8. ASSUME NEW c \in AnyCall, InstanceMap!ProbeFails(c) PROVE StaysLive'
  <2>1. \A j \in Id: Leaving(j) => Leaving(j)'
    BY <1>8 DEF InstanceMap!ProbeFails, InstanceMap!Done, Leaving, InstancesType
  <2>2. QED
    BY <1>4, <1>8, <2>1 DEF InstanceMap!ProbeFails
<1>9. ASSUME NEW c \in AnyCall, InstanceMap!Register(c) PROVE StaysLive'
  <2>0. PICK i \in Id, e \in InstanceMap!Engine: i = op[c].id /\ e = op[c].engine
    BY <1>0, <1>9 DEF InstanceMap!Register, CallsAreCurrent, OpRecord
  <2>1. /\ op[c].pc = "probe" /\ view[i] = NoEngine /\ hooks[i] = e
        /\ ~engine[e].disposed /\ engine[e].ports = {} /\ expected[i] = {} /\ rows[i] = 0
    BY <1>0, <1>9, <2>0 DEF InstanceMap!Register, CallsAreCurrent, UnknownClaimsNothing, OpRecord
  <2>2. /\ view' = [view EXCEPT ![i] = e] /\ rows' = [rows EXCEPT ![i] = rows[i] + 1]
        /\ UNCHANGED <<engine, hooks, expected, ready>>
    BY <1>9, <2>0 DEF InstanceMap!Register, InstanceMap!Listed
  <2>3. \A j \in Id: Leaving(j) => Leaving(j)'
    BY <1>9 DEF InstanceMap!Register, InstanceMap!Done, Leaving, InstancesType
  <2>4. LiveView(i)'
    BY <2>1, <2>2 DEF LiveView, InstancesType
  <2>5. ASSUME NEW j \in Id, j # i, view[j] # NoEngine, ~Leaving(j) PROVE LiveView(j)'
    BY <1>1, <1>3, <2>2, <2>5 DEF InstancesType
  <2>6. QED
    BY <2>2, <2>3, <2>4, <2>5 DEF StaysLive, InstancesType
<1>10. ASSUME NEW c \in AnyCall, InstanceMap!Dispose(c) PROVE StaysLive'
  <2>1. op[c].pc = "reset" /\ op[c].id \in Id /\ view[op[c].id] = op[c].engine /\ op[c].engine \in InstanceMap!Engine
    BY <1>0, <1>10 DEF InstanceMap!Dispose, CallsAreCurrent, OpRecord
  <2>2. engine[op[c].engine].id = op[c].id
    BY <2>1, <1>2, <1>0
  <2>3. /\ op' = [op EXCEPT ![c] = [pc |-> "drop", id |-> op[c].id, engine |-> op[c].engine]]
        /\ UNCHANGED <<view, rows, expected, ready>>
    BY <1>10 DEF InstanceMap!Dispose, InstanceMap!Goto
  <2>4. /\ \A e \in InstanceMap!Engine \ {op[c].engine}:
              engine'[e].disposed = engine[e].disposed /\ engine'[e].ports = engine[e].ports
        /\ \A i \in Id: hooks'[i] = hooks[i] \/ hooks[i] = op[c].engine
    BY <1>0, <1>10 DEF InstanceMap!Dispose, InstanceMap!Disposed, EngineRecord
  <2>5. \A j \in Id: Leaving(j) => Leaving(j)'
    BY <2>1, <2>3 DEF Leaving, InstancesType
  <2>6. Leaving(op[c].id)
    BY <2>1 DEF Leaving
  <2>7. ASSUME NEW j \in Id, view[j] # NoEngine, ~Leaving(j) PROVE LiveView(j)'
    <3>1. j # op[c].id /\ view[j] # op[c].engine /\ view[j] \in InstanceMap!Engine /\ hooks[j] = view[j]
      BY <1>2, <1>3, <2>2, <2>6, <2>7 DEF LiveView
    <3>2. QED
      BY <1>3, <2>3, <2>4, <2>7, <3>1 DEF LiveView
  <2>8. QED
    BY <2>3, <2>5, <2>7 DEF StaysLive
<1>11. ASSUME NEW c \in AnyCall, InstanceMap!Drop(c) PROVE StaysLive'
  <2>1. /\ InstanceMap!Done(c) /\ op[c].pc = "drop" /\ op[c].id \in Id /\ UNCHANGED <<engine, ready>>
        /\ view'[op[c].id] = NoEngine
        /\ \A i \in Id \ {op[c].id}: /\ view'[i] = view[i] /\ hooks'[i] = hooks[i] /\ rows'[i] = rows[i]
                                     /\ expected'[i] = expected[i]
    BY <1>11 DEF InstanceMap!Drop, CallsAreCurrent, InstancesType, NoEngine
  <2>2. \A j \in Id \ {op[c].id}: Leaving(j) => Leaving(j)'
    BY <2>1 DEF InstanceMap!Done, Leaving, InstancesType
  <2>3. ASSUME NEW j \in Id \ {op[c].id}, view[j] # NoEngine, ~Leaving(j) PROVE LiveView(j)'
    BY <1>1, <1>3, <2>1, <2>3
  <2>4. QED
    BY <2>1, <2>2, <2>3 DEF StaysLive
<1>12. ASSUME NEW c \in AnyCall, InstanceMap!Restarted(c) PROVE StaysLive'
  <2>0. PICK i \in Id: i = op[c].id
    BY <1>12 DEF InstanceMap!Restarted, CallsAreCurrent
  <2>1. /\ InstanceMap!Done(c) /\ op[c].pc = "restart" /\ view[i] = op[c].engine /\ view[i] # NoEngine
        /\ engine' = [engine EXCEPT ![view[i]].ports = {}]
        /\ expected' = [expected EXCEPT ![i] = {}] /\ UNCHANGED <<view, rows, hooks, ready>>
    BY <1>12, <2>0 DEF InstanceMap!Restarted, CallsAreCurrent
  <2>2. \A j \in Id: Leaving(j) => Leaving(j)'
    BY <2>1 DEF InstanceMap!Done, Leaving, InstancesType
  <2>3. ~Leaving(i)
    BY <2>0, <2>1 DEF Leaving, CallsAreAlone
  <2>4. LiveView(i)'
    <3>1. engine'[view[i]].ports = {} /\ engine'[view[i]].disposed = engine[view[i]].disposed
      BY <1>0, <1>2, <2>1 DEF InstancesType, EngineRecord
    <3>2. expected'[i] = {}
      BY <2>1 DEF InstancesType
    <3>3. QED
      BY <1>3, <2>1, <2>3, <3>1, <3>2 DEF LiveView
  <2>5. ASSUME NEW j \in Id, j # i, view[j] # NoEngine, ~Leaving(j) PROVE LiveView(j)'
    <3>1. view[j] # view[i]
      BY <1>2, <2>1, <2>5
    <3>2. QED
      BY <1>1, <1>2, <1>3, <2>1, <2>5, <3>1 DEF InstancesType
  <2>6. QED
    BY <2>1, <2>2, <2>4, <2>5 DEF StaysLive
<1>13. ASSUME NEW c \in AnyCall, InstanceMap!Shutdown(c) PROVE StaysLive'
  <2>1. \A j \in Id: Leaving(j)'
    BY <1>13 DEF InstanceMap!Shutdown, InstanceMap!Goto, Leaving, InstancesType
  <2>2. QED
    BY <2>1 DEF StaysLive
<1>14. ASSUME NEW c \in AnyCall, InstanceMap!ClearInstances(c) PROVE StaysLive'
  <2>1. \A j \in Id: Leaving(j)'
    BY <1>14 DEF InstanceMap!ClearInstances, InstanceMap!Goto, Leaving, InstancesType
  <2>2. QED
    BY <2>1 DEF StaysLive
<1>15. ASSUME NEW c \in AnyCall, InstanceMap!Cleared(c) PROVE StaysLive'
  BY <1>15 DEF InstanceMap!Cleared, StaysLive, NoEngine
<1>16. CASE InstanceMap!Boot
  BY <1>4, <1>16 DEF InstanceMap!Boot, Leaving
<1>17. ASSUME NEW p \in Port, InstanceMap!PortReady(p) \/ InstanceMap!PortClosed(p) PROVE StaysLive'
  <2>1. UNCHANGED <<view, hooks, op, rows, expected>>
    BY <1>17 DEF InstanceMap!PortReady, InstanceMap!PortClosed
  <2>2. ASSUME NEW i \in Id, view[i] # NoEngine, ~Leaving(i) PROVE LiveView(i)'
    <3>1. /\ ~engine[view[i]].disposed /\ rows[i] = 1 /\ hooks[i] = view[i] /\ view[i] \in InstanceMap!Engine
          /\ engine[view[i]].ports = expected[i] \intersect ready /\ engine[view[i]] \in EngineRecord
      BY <1>0, <1>2, <1>3, <2>2 DEF LiveView
    <3>2. view[i] \in InstanceMap!Hearing(p) <=> p \in expected[i]
      <4>1. p \in expected[i] => view[i] \in InstanceMap!Hearing(p)
        BY <2>2, <3>1 DEF InstanceMap!Hearing, NoEngine
      <4>2. ASSUME view[i] \in InstanceMap!Hearing(p) PROVE p \in expected[i]
        <5>1. PICK j \in Id: p \in expected[j] /\ hooks[j] = view[i]
          BY <4>2 DEF InstanceMap!Hearing
        <5>2. j = i
          BY <5>1, <2>2, <1>2 DEF EngineHasOneId
        <5>3. QED
          BY <5>1, <5>2
      <4>3. QED
        BY <4>1, <4>2
    <3>3. CASE InstanceMap!PortReady(p)
      <4>1. /\ ready' = ready \union {p}
            /\ engine'[view[i]] = [engine[view[i]] EXCEPT !.ports =
                                     IF p \notin expected[i] THEN engine[view[i]].ports ELSE engine[view[i]].ports \union {p}]
        BY <3>1, <3>2, <3>3 DEF InstanceMap!PortReady, InstanceMap!Seen
      <4>2. /\ engine'[view[i]].disposed = engine[view[i]].disposed
            /\ engine'[view[i]].ports =
                 IF p \notin expected[i] THEN engine[view[i]].ports ELSE engine[view[i]].ports \union {p}
        BY <3>1, <4>1 DEF EngineRecord
      <4>3. engine'[view[i]].ports = expected[i] \intersect ready'
        BY <3>1, <4>1, <4>2
      <4>4. QED
        BY <2>1, <3>1, <4>2, <4>3 DEF LiveView
    <3>4. CASE InstanceMap!PortClosed(p)
      <4>1. /\ ready' = ready \ {p}
            /\ engine'[view[i]] = [engine[view[i]] EXCEPT !.ports =
                                     IF p \notin expected[i] THEN engine[view[i]].ports ELSE engine[view[i]].ports \ {p}]
        BY <3>1, <3>2, <3>4 DEF InstanceMap!PortClosed, InstanceMap!Seen
      <4>2. /\ engine'[view[i]].disposed = engine[view[i]].disposed
            /\ engine'[view[i]].ports =
                 IF p \notin expected[i] THEN engine[view[i]].ports ELSE engine[view[i]].ports \ {p}
        BY <3>1, <4>1 DEF EngineRecord
      <4>3. engine'[view[i]].ports = expected[i] \intersect ready'
        BY <3>1, <4>1, <4>2
      <4>4. QED
        BY <2>1, <3>1, <4>2, <4>3 DEF LiveView
    <3>5. QED
      BY <1>17, <3>3, <3>4
  <2>3. QED
    BY <2>1, <2>2 DEF StaysLive, Leaving
<1>18. ASSUME NEW p \in Port, NEW i \in Id, InstanceMap!Expect(i, p) \/ InstanceMap!Unexpect(i, p) PROVE StaysLive'
  <2>1. PICK P: expected' = [expected EXCEPT ![i] = P] /\ engine' = [engine EXCEPT ![view[i]].ports = P \intersect ready]
    BY <1>18 DEF InstanceMap!Expect, InstanceMap!Unexpect, InstanceMap!Claims
  <2>2. view[i] # NoEngine /\ UNCHANGED <<view, hooks, op, rows, ready>>
    BY <1>18 DEF InstanceMap!Expect, InstanceMap!Unexpect, NoEngine
  <2>3. ASSUME ~Leaving(i) PROVE LiveView(i)'
    <3>1. /\ engine'[view[i]].ports = P \intersect ready /\ engine'[view[i]].disposed = engine[view[i]].disposed
          /\ expected'[i] = P
      BY <1>0, <1>2, <2>1, <2>2 DEF InstancesType, EngineRecord
    <3>2. QED
      BY <1>3, <2>2, <2>3, <3>1 DEF LiveView
  <2>4. ASSUME NEW j \in Id, j # i, view[j] # NoEngine, ~Leaving(j) PROVE LiveView(j)'
    <3>1. view[j] # view[i]
      BY <1>2, <2>2, <2>4
    <3>2. QED
      BY <1>1, <1>2, <1>3, <2>1, <2>2, <2>4, <3>1 DEF InstancesType
  <2>5. QED
    BY <2>2, <2>3, <2>4 DEF StaysLive, Leaving
<1>19. QED
  BY <1>5, <1>6, <1>7, <1>8, <1>9, <1>10, <1>11, <1>12, <1>13, <1>14, <1>15, <1>16, <1>17, <1>18 DEF InstanceMap!Next

\* A step of the composition is a step of the instances, or leaves them alone.
LEMMA InstancesInFocus == [Next]_allVars => InstanceMap!Next \/ UNCHANGED instancesVars
BY DEF Next, Still, allVars

\* The inductive invariant of the instances, when calls for one id do not overlap.
LEMMA InstancesInvariant == ~Overlap => (Spec => []InstancesInv)
<1> SUFFICES ASSUME ~Overlap PROVE Spec => []InstancesInv
  OBVIOUS
<1>1. Init => InstancesInv
  BY InstancesStart DEF Init
<1>2. InstancesInv /\ [Next]_allVars => InstancesInv'
  <2> SUFFICES ASSUME InstancesInv, [Next]_allVars PROVE InstancesInv'
    OBVIOUS
  <2>1. CASE InstanceMap!Next
    BY <2>1, InstancesTypeStep, EngineHasOneIdStep, UnknownClaimsNothingStep, CallsAreAloneStep, CallsAreCurrentStep,
       StaysLiveStep DEF InstancesInv
  <2>2. CASE UNCHANGED instancesVars
    BY <2>2 DEF InstancesInv, InstancesType, EngineHasOneId, UnknownClaimsNothing, CallsAreAlone, CallsAreCurrent,
                StaysLive, LiveView, Leaving, instancesVars
  <2>3. QED
    BY <2>1, <2>2, InstancesInFocus
<1>3. QED
  BY <1>1, <1>2, PTL DEF Spec

\* When the calls for one id do not overlap, what the page knows of an id at rest is the live engine of it, listed once,
\* which hears of the ports and shows the open ones among those the id claims (plugin/host-instance-manager.ts,
\* engine/ports.ts).
THEOREM KnownInstancesAreLive == ~Overlap => (Spec => []KnownIsLive)
<1> SUFFICES ASSUME ~Overlap PROVE Spec => []KnownIsLive
  OBVIOUS
<1>1. InstancesInv => KnownIsLive
  <2> SUFFICES ASSUME InstancesInv, NEW i \in Id, view[i] # NoEngine, ~InstanceMap!Busy(i) PROVE LiveView(i)
    BY DEF KnownIsLive, InstanceMap!KnownIsLive, LiveView, NoEngine
  <2>1. ~Leaving(i)
    BY DEF Leaving, InstanceMap!Busy
  <2>2. QED
    BY <2>1 DEF InstancesInv, StaysLive
<1>2. QED
  BY <1>1, InstancesInvariant, PTL

-----------------------------------------------------------------------------
(* The system log (SystemLog).                                             *)

Line == 1..MaxLog
Rising(q) == \A i, j \in 1..Len(q) : i < j => q[i] < q[j]
Before(q, n) == \A i \in 1..Len(q) : q[i] < n
\* What a file of the log can hold: lines in their order, no more than the limit.
FileOfLines(q) == q \in Seq(Line) /\ Rising(q) /\ Len(q) <= MaxLines

LogType ==
    /\ FileOfLines(logFile) /\ chain \in Seq(Line) /\ Rising(chain) /\ logged \in 0..MaxLog
    /\ before \in [Line -> Seq(Line) \cup {<<0>>}]
    /\ clearing \in [pc : {"idle", "waiting", "done"}, upto : 0..MaxLog]

\* The calls that wait are later than every line of the file, and earlier than the next call.
ChainIsLater ==
    /\ Before(logFile, logged + 1) /\ Before(chain, logged + 1)
    /\ \A j \in 1..Len(chain) : Before(logFile, chain[j])

\* What the first of the chain has read, n: the file as it is still, or as good as nothing, or the file has been emptied since.
ReadIsFresh ==
    \A n \in Line : before[n] # Log!Unread =>
        /\ chain # <<>> /\ n = chain[1]
        /\ FileOfLines(before[n]) /\ Before(before[n], n)
        /\ before[n] = logFile \/ before[n] = <<>> \/ logFile = <<>>

\* A clear that is over and that no call has met has left nothing.
ClearedIsEmpty ==
    /\ clearing.upto <= logged
    /\ clearing.pc = "done" /\ logged = clearing.upto => chain = <<>> /\ logFile = <<>>

LogInv == LogType /\ ChainIsLater /\ ReadIsFresh /\ ClearedIsEmpty

\* The first element of a sequence is taken off.
LEMMA RemoveFirst ==
    ASSUME NEW S, NEW q \in Seq(S), Len(q) # 0
    PROVE  /\ Log!RemoveAt(q, 1) \in Seq(S) /\ Len(Log!RemoveAt(q, 1)) = Len(q) - 1
           /\ \A i \in 1..(Len(q) - 1) : Log!RemoveAt(q, 1)[i] = q[i + 1]
<1>1. Len(q) \in Nat /\ Len(q) >= 1
  OBVIOUS
<1>2. SubSeq(q, 1, 1 - 1) = <<>>
  BY <1>1
<1>3. /\ SubSeq(q, 2, Len(q)) \in Seq(S) /\ Len(SubSeq(q, 2, Len(q))) = Len(q) - 1
      /\ \A i \in 1..(Len(q) - 1) : SubSeq(q, 2, Len(q))[i] = q[i + 1]
  <2> DEFINE r == SubSeq(q, 2, Len(q))
  <2>1. \A i \in 2..Len(q) : q[i] \in S
    BY <1>1
  <2>2. /\ r \in Seq(S) /\ Len(r) = IF 2 <= Len(q) THEN Len(q) - 2 + 1 ELSE 0
        /\ \A i \in 1..(Len(q) - 2 + 1) : r[i] = q[2 + i - 1]
    BY <1>1, <2>1, SubSeqProperties
  <2>3. \A i \in 1..(Len(q) - 1) : 2 + i - 1 = i + 1 /\ i \in 1..(Len(q) - 2 + 1)
    BY <1>1
  <2> HIDE DEF r
  <2>a. Len(r) = Len(q) - 1
    <3> DEFINE k == Len(q)
    <3>1. k \in Nat /\ k >= 1 /\ Len(r) = IF 2 <= k THEN k - 2 + 1 ELSE 0
      BY <1>1, <2>2
    <3> HIDE DEF k
    <3>2. Len(r) = k - 1
      BY <3>1
    <3>3. QED
      BY <3>2 DEF k
  <2>b. \A i \in 1..(Len(q) - 1) : r[i] = q[i + 1]
    BY <2>2, <2>3
  <2>4. r \in Seq(S) /\ Len(r) = Len(q) - 1 /\ \A i \in 1..(Len(q) - 1) : r[i] = q[i + 1]
    BY <2>2, <2>a, <2>b
  <2>5. QED
    BY <2>4 DEF r
<1>4. Log!RemoveAt(q, 1) = <<>> \o SubSeq(q, 2, Len(q))
  BY <1>2 DEF Log!RemoveAt
<1>5. Log!RemoveAt(q, 1) = SubSeq(q, 2, Len(q))
  BY <1>3, <1>4
<1>6. QED
  BY <1>3, <1>5

\* A file with one more line, cut at the limit: all of it, or all but its first line.
LEMMA CutAtLimit ==
    ASSUME NEW q, FileOfLines(q), NEW n \in Line
    PROVE  /\ Log!Rotated(Append(q, n)) \in Seq(Line)
           /\ Len(q) < MaxLines => Log!Rotated(Append(q, n)) = Append(q, n)
           /\ Len(q) = MaxLines =>
                 /\ Len(Log!Rotated(Append(q, n))) = MaxLines
                 /\ \A i \in 1..MaxLines : Log!Rotated(Append(q, n))[i] = Append(q, n)[i + 1]
<1>0. MaxLines \in Nat \ {0}
  BY BoundsAssumption
<1>1. MaxLines \in Nat /\ MaxLines >= 1
  BY <1>0
<1>2. q \in Seq(Line) /\ Len(q) \in Nat /\ Len(q) <= MaxLines
  BY DEF FileOfLines
<1>3. Append(q, n) \in Seq(Line) /\ Len(Append(q, n)) = Len(q) + 1
  BY <1>2
<1> DEFINE a == Append(q, n)
<1> HIDE DEF a
<1>4. a \in Seq(Line) /\ Len(a) = Len(q) + 1
  BY <1>3 DEF a
<1>5. CASE Len(q) < MaxLines
  <2>a. ~(Len(a) > MaxLines)
    BY <1>1, <1>2, <1>4, <1>5
  <2>1. Log!Rotated(a) = SubSeq(a, 1, Len(a))
    BY <2>a DEF Log!Rotated
  <2>2. SubSeq(a, 1, Len(a)) = a
    BY <1>4
  <2>3. QED
    BY <1>4, <1>5, <2>1, <2>2 DEF a
<1>6. CASE Len(q) = MaxLines
  <2>1. Log!Rotated(a) = SubSeq(a, 2, Len(a))
    BY <1>1, <1>2, <1>4, <1>6 DEF Log!Rotated
  <2>2. /\ SubSeq(a, 2, Len(a)) \in Seq(Line) /\ Len(SubSeq(a, 2, Len(a))) = Len(a) - 1
        /\ \A i \in 1..(Len(a) - 1) : SubSeq(a, 2, Len(a))[i] = a[i + 1]
    BY <1>2, <1>4
  <2>3. Len(a) - 1 = MaxLines
    BY <1>1, <1>4, <1>6
  <2>4. QED
    BY <1>6, <2>1, <2>2, <2>3 DEF a
<1>7. QED
  BY <1>1, <1>2, <1>5, <1>6

\* The file that a doLog writes: its lines are those it has read, from the end, and its own.
LEMMA WrittenFile ==
    ASSUME NEW q, FileOfLines(q), NEW n \in Line, Before(q, n)
    PROVE  LET f == Log!Rotated(Append(q, n)) IN
           /\ FileOfLines(f) /\ f # <<>>
           /\ \A m : Before(q, m) /\ n < m => Before(f, m)
           /\ \A i \in 1..Len(q) : \/ \E k \in 1..Len(f) : f[k] = q[i]
                                   \/ i = 1 /\ Len(f) = MaxLines
<1> DEFINE f == Log!Rotated(Append(q, n))
<1>0. MaxLines \in Nat \ {0}
  BY BoundsAssumption
<1>1. MaxLines \in Nat /\ MaxLines >= 1
  BY <1>0
<1>q. q \in Seq(Line) /\ Len(q) \in Nat /\ Len(q) <= MaxLines /\ Rising(q)
  BY DEF FileOfLines
<1>l. MaxLog \in Nat
  BY BoundsAssumption
<1>k. \A i \in 1..Len(q) : q[i] \in Line
  BY <1>q
<1>n. n \in Nat /\ \A i \in 1..Len(q) : q[i] \in Nat
  BY <1>l, <1>k DEF Line
<1>2. /\ q \in Seq(Line) /\ Len(q) \in Nat /\ Len(q) <= MaxLines /\ Rising(q) /\ n \in Nat
      /\ \A i \in 1..Len(q) : q[i] \in Nat
  BY <1>q, <1>n
<1> DEFINE a == Append(q, n)
<1>3. /\ Len(a) = Len(q) + 1 /\ a[Len(q) + 1] = n
      /\ \A i \in 1..Len(q) : a[i] = q[i]
  BY <1>2
<1>4. /\ f \in Seq(Line)
      /\ Len(q) < MaxLines => f = a
      /\ Len(q) = MaxLines => Len(f) = MaxLines /\ \A i \in 1..MaxLines : f[i] = a[i + 1]
  BY CutAtLimit
<1> HIDE DEF f, a
<1>5. \A i, j \in 1..(Len(q) + 1) : i < j => a[i] < a[j]
  <2> SUFFICES ASSUME NEW i \in 1..(Len(q) + 1), NEW j \in 1..(Len(q) + 1), i < j PROVE a[i] < a[j]
    OBVIOUS
  <2>1. i \in 1..Len(q) /\ a[i] = q[i]
    BY <1>2, <1>3
  <2>2. CASE j = Len(q) + 1
    BY <1>3, <2>1, <2>2 DEF Before
  <2>3. CASE j # Len(q) + 1
    <3>1. j \in 1..Len(q) /\ a[j] = q[j]
      BY <1>2, <1>3, <2>3
    <3>2. QED
      BY <1>2, <2>1, <3>1 DEF Rising
  <2>4. QED
    BY <2>2, <2>3
<1>6. ASSUME NEW m, Before(q, m), n < m PROVE \A i \in 1..(Len(q) + 1) : a[i] < m
  <2> SUFFICES ASSUME NEW i \in 1..(Len(q) + 1) PROVE a[i] < m
    OBVIOUS
  <2>1. CASE i = Len(q) + 1
    BY <1>3, <1>6, <2>1
  <2>2. CASE i # Len(q) + 1
    BY <1>2, <1>3, <1>6, <2>2 DEF Before
  <2>3. QED
    BY <2>1, <2>2
<1>7. CASE Len(q) < MaxLines
  <2>1. f = a /\ Len(f) = Len(q) + 1
    BY <1>3, <1>4, <1>7
  <2>2. Rising(f)
    BY <1>5, <2>1 DEF Rising
  <2>3. FileOfLines(f) /\ f # <<>>
    BY <1>1, <1>2, <1>4, <1>7, <2>1, <2>2 DEF FileOfLines
  <2>4. \A m : Before(q, m) /\ n < m => Before(f, m)
    BY <1>6, <2>1 DEF Before
  <2>5. \A i \in 1..Len(q) : i \in 1..Len(f) /\ f[i] = q[i]
    BY <1>2, <1>3, <2>1
  <2>6. QED
    BY <2>3, <2>4, <2>5 DEF f
<1>8. CASE Len(q) = MaxLines
  <2>1. Len(f) = MaxLines /\ \A i \in 1..MaxLines : f[i] = a[i + 1]
    BY <1>4, <1>8
  <2>i. \A i \in 1..MaxLines : i + 1 \in 1..(Len(q) + 1)
    BY <1>1, <1>8
  <2>2. Rising(f)
    <3> SUFFICES ASSUME NEW i \in 1..MaxLines, NEW j \in 1..MaxLines, i < j PROVE f[i] < f[j]
      BY <2>1 DEF Rising
    <3>1. i + 1 < j + 1 /\ i + 1 \in 1..(Len(q) + 1) /\ j + 1 \in 1..(Len(q) + 1)
      BY <1>1, <2>i
    <3>2. a[i + 1] < a[j + 1]
      BY <1>5, <3>1
    <3>3. QED
      BY <2>1, <3>2
  <2>3. FileOfLines(f) /\ f # <<>>
    BY <1>1, <1>4, <2>1, <2>2 DEF FileOfLines
  <2>4. \A m : Before(q, m) /\ n < m => Before(f, m)
    BY <1>6, <2>1, <2>i DEF Before
  <2>5. ASSUME NEW i \in 1..Len(q), i # 1 PROVE \E k \in 1..Len(f) : f[k] = q[i]
    <3>1. i - 1 \in 1..MaxLines /\ (i - 1) + 1 = i
      BY <1>1, <1>8, <2>5
    <3>2. f[i - 1] = q[i]
      BY <1>3, <2>1, <3>1
    <3>3. QED
      BY <2>1, <3>1, <3>2
  <2>6. QED
    BY <2>1, <2>3, <2>4, <2>5 DEF f
<1>9. QED
  BY <1>1, <1>2, <1>7, <1>8

\* The start of every part.
LEMMA LogStart == Log!Init => LogInv
<1> SUFFICES ASSUME Log!Init PROVE LogInv
  OBVIOUS
<1>0. MaxLog \in Nat /\ MaxLines \in Nat
  BY BoundsAssumption
<1>1. /\ logFile = <<>> /\ logged = 0 /\ chain = <<>> /\ before = [n \in Line |-> <<0>>]
      /\ clearing = [pc |-> "idle", upto |-> 0]
  BY DEF Log!Init, Log!Unread, Log!Idle, Line
<1>2. 0 \in 0..MaxLog
  BY <1>0
<1>3. LogType
  BY <1>0, <1>1, <1>2 DEF LogType, FileOfLines, Rising
<1>4. ChainIsLater
  BY <1>1 DEF ChainIsLater, Before
<1>5. ReadIsFresh
  BY <1>1 DEF ReadIsFresh, Log!Unread
<1>6. ClearedIsEmpty
  BY <1>1 DEF ClearedIsEmpty
<1>7. QED
  BY <1>3, <1>4, <1>5, <1>6 DEF LogInv
\* What a step of the log does not touch, as facts about its values.
LEMMA LogFacts ==
    ASSUME LogInv
    PROVE  /\ FileOfLines(logFile) /\ logFile \in Seq(Line) /\ chain \in Seq(Line) /\ Rising(chain)
           /\ logged \in 0..MaxLog /\ logged \in Nat /\ before \in [Line -> Seq(Line) \cup {<<0>>}]
           /\ clearing \in [pc : {"idle", "waiting", "done"}, upto : 0..MaxLog] /\ clearing.upto \in Nat
           /\ \A n \in Line : n \in Nat
           /\ \A i \in 1..Len(chain) : chain[i] \in Line /\ chain[i] < logged + 1
           /\ \A i \in 1..Len(logFile) : logFile[i] \in Line
<1>0. MaxLog \in Nat
  BY BoundsAssumption
<1>1. LogType /\ ChainIsLater
  BY DEF LogInv
<1>2. /\ FileOfLines(logFile) /\ chain \in Seq(Line) /\ Rising(chain)
      /\ logged \in 0..MaxLog /\ before \in [Line -> Seq(Line) \cup {<<0>>}]
      /\ clearing \in [pc : {"idle", "waiting", "done"}, upto : 0..MaxLog]
  BY <1>1 DEF LogType
<1>3. logFile \in Seq(Line)
  BY <1>2 DEF FileOfLines
<1>4. logged \in Nat /\ clearing.upto \in Nat
  BY <1>0, <1>2
<1>5. \A n \in Line : n \in Nat
  BY <1>0 DEF Line
<1>6. \A i \in 1..Len(chain) : chain[i] \in Line /\ chain[i] < logged + 1
  BY <1>1, <1>2 DEF ChainIsLater, Before
<1>7. \A i \in 1..Len(logFile) : logFile[i] \in Line
  BY <1>3
<1>8. QED
  BY <1>2, <1>3, <1>4, <1>5, <1>6, <1>7

\* A call takes its place behind the others.
LEMMA LogKeeps == LogInv /\ Log!Log => LogInv'
<1> SUFFICES ASSUME LogInv, Log!Log PROVE LogInv'
  OBVIOUS
<1>0. MaxLog \in Nat
  BY BoundsAssumption
<1>1. /\ logged < MaxLog /\ logged' = logged + 1 /\ chain' = Append(chain, logged + 1)
      /\ UNCHANGED <<logFile, before, clearing, missed>>
  BY DEF Log!Log
<1>2. /\ FileOfLines(logFile) /\ chain \in Seq(Line) /\ Rising(chain) /\ logged \in Nat
      /\ before \in [Line -> Seq(Line) \cup {<<0>>}]
      /\ clearing \in [pc : {"idle", "waiting", "done"}, upto : 0..MaxLog] /\ clearing.upto \in Nat
      /\ \A i \in 1..Len(chain) : chain[i] \in Nat /\ chain[i] < logged + 1
      /\ logFile \in Seq(Line) /\ \A i \in 1..Len(logFile) : logFile[i] \in Nat
  BY LogFacts
<1>3. ChainIsLater /\ ReadIsFresh /\ ClearedIsEmpty
  BY DEF LogInv
<1>4. logged + 1 \in Line /\ logged' \in 0..MaxLog
  BY <1>0, <1>1, <1>2 DEF Line
<1>5. /\ chain' \in Seq(Line) /\ Len(chain') = Len(chain) + 1 /\ chain'[Len(chain) + 1] = logged + 1
      /\ Len(chain) \in Nat /\ \A i \in 1..Len(chain) : chain'[i] = chain[i]
  BY <1>1, <1>2, <1>4
<1>6. \A i \in 1..Len(chain') : i \in 1..Len(chain) \/ i = Len(chain) + 1
  BY <1>5
<1>7. Rising(chain')
  <2> SUFFICES ASSUME NEW i \in 1..Len(chain'), NEW j \in 1..Len(chain'), i < j PROVE chain'[i] < chain'[j]
    BY DEF Rising
  <2>1. i \in 1..Len(chain) /\ chain'[i] = chain[i]
    BY <1>5
  <2>2. CASE j = Len(chain) + 1
    BY <1>2, <1>5, <2>1, <2>2
  <2>3. CASE j \in 1..Len(chain)
    BY <1>2, <1>5, <2>1, <2>3 DEF Rising
  <2>4. QED
    BY <1>6, <2>2, <2>3
<1>8. LogType'
  BY <1>1, <1>2, <1>4, <1>5, <1>7 DEF LogType
<1>9. ChainIsLater'
  <2>1. Before(logFile, logged + 1)
    BY <1>3 DEF ChainIsLater
  <2>2. Before(logFile, logged + 1 + 1)
    BY <1>2, <2>1 DEF Before
  <2>3. Before(chain', logged + 1 + 1)
    <3>1. ASSUME NEW i \in 1..Len(chain) PROVE chain'[i] < logged + 1 + 1
      <4>1. chain[i] \in Nat /\ chain[i] < logged + 1 /\ chain'[i] = chain[i] /\ logged \in Nat
        BY <1>2, <1>5
      <4>2. QED
        BY <4>1
    <3>2. chain'[Len(chain) + 1] < logged + 1 + 1
      BY <1>2, <1>5
    <3>3. QED
      BY <1>6, <3>1, <3>2 DEF Before
  <2>4. \A j \in 1..Len(chain') : Before(logFile, chain'[j])
    BY <1>3, <1>5, <1>6, <2>1 DEF ChainIsLater
  <2>5. QED
    BY <1>1, <2>2, <2>3, <2>4 DEF ChainIsLater
<1>10. ReadIsFresh'
  <2>1. chain # <<>> => chain' # <<>> /\ chain'[1] = chain[1]
    BY <1>2, <1>5
  <2>2. QED
    BY <1>1, <1>3, <2>1 DEF ReadIsFresh
<1>11. ClearedIsEmpty'
  <2>1. clearing.upto <= logged
    BY <1>3 DEF ClearedIsEmpty
  <2>2. clearing.upto <= logged + 1 /\ logged + 1 # clearing.upto
    BY <1>2, <2>1
  <2>3. QED
    BY <1>1, <2>2 DEF ClearedIsEmpty
<1>12. QED
  BY <1>8, <1>9, <1>10, <1>11 DEF LogInv

\* doLog reads the file, whose lines are all earlier than its own.
LEMMA ReadKeeps == \A n \in Line : LogInv /\ Log!Read(n) => LogInv'
<1> SUFFICES ASSUME NEW n \in Line, LogInv, Log!Read(n) PROVE LogInv'
  OBVIOUS
<1>m. MaxLines \in Nat \ {0}
  BY BoundsAssumption
<1>1. /\ chain # <<>> /\ n = Head(chain) /\ UNCHANGED <<logFile, logged, chain, clearing>>
      /\ \/ before' = [before EXCEPT ![n] = logFile]
         \/ before' = [before EXCEPT ![n] = <<>>]
  BY DEF Log!Read, Log!Turn
<1>2. /\ FileOfLines(logFile) /\ chain \in Seq(Line) /\ before \in [Line -> Seq(Line) \cup {<<0>>}]
      /\ logFile \in Seq(Line) /\ \A i \in 1..Len(logFile) : logFile[i] \in Nat
  BY LogFacts
<1>3. LogType /\ ChainIsLater /\ ReadIsFresh /\ ClearedIsEmpty
  BY DEF LogInv
<1>4. PICK q \in {logFile, <<>>} : before' = [before EXCEPT ![n] = q]
  BY <1>1
<1>5. n = chain[1] /\ 1 \in 1..Len(chain)
  BY <1>1, <1>2
<1>6. FileOfLines(<<>>) /\ Before(<<>>, n)
  BY <1>m DEF FileOfLines, Rising, Before
<1>7. Before(logFile, n)
  BY <1>3, <1>5 DEF ChainIsLater
<1>8. q \in Seq(Line) /\ FileOfLines(q) /\ Before(q, n)
  <2>1. FileOfLines(q) /\ Before(q, n)
    BY <1>2, <1>4, <1>6, <1>7
  <2>2. logFile \in Seq(Line) /\ <<>> \in Seq(Line)
    BY <1>2
  <2>3. QED
    BY <1>4, <2>1, <2>2
<1>9. LogType'
  BY <1>1, <1>2, <1>3, <1>4, <1>8 DEF LogType
<1>10. ReadIsFresh'
  <2> SUFFICES ASSUME NEW m \in Line, before'[m] # Log!Unread
               PROVE  /\ chain # <<>> /\ m = chain[1]
                      /\ FileOfLines(before'[m]) /\ Before(before'[m], m)
                      /\ before'[m] = logFile \/ before'[m] = <<>> \/ logFile = <<>>
    BY <1>1 DEF ReadIsFresh, FileOfLines, Before, Rising, Log!Unread
  <2>1. CASE m = n
    BY <1>1, <1>2, <1>4, <1>5, <1>8, <2>1
  <2>2. CASE m # n
    BY <1>2, <1>3, <1>4, <2>2 DEF ReadIsFresh
  <2>3. QED
    BY <2>1, <2>2
<1>11. ChainIsLater' /\ ClearedIsEmpty'
  BY <1>1, <1>3 DEF ChainIsLater, Before, ClearedIsEmpty
<1>12. QED
  BY <1>9, <1>10, <1>11 DEF LogInv

\* What a doLog does to the chain.
LEMMA ChainMoves ==
    ASSUME LogInv, NEW n \in Line, Log!Write(n)
    PROVE  /\ Len(chain) # 0 /\ n = chain[1] /\ chain' \in Seq(Line) /\ Len(chain') = Len(chain) - 1
           /\ \A i \in 1..Len(chain') : i + 1 \in 1..Len(chain) /\ chain'[i] = chain[i + 1]
<1>1. chain # <<>> /\ n = Head(chain)
  BY DEF Log!Write, Log!Turn
<1>2. /\ chain \in Seq(Line) /\ Rising(chain)
      /\ \A i \in 1..Len(chain) : chain[i] \in Nat
  BY LogFacts
<1>3. PICK i \in DOMAIN chain : chain[i] = n /\ chain' = Log!RemoveAt(chain, i)
  BY DEF Log!Write
<1>4. Len(chain) \in Nat /\ Len(chain) # 0 /\ n = chain[1] /\ i \in 1..Len(chain) /\ 1 \in 1..Len(chain)
  BY <1>1, <1>2, <1>3
<1>5. i = 1
  <2>1. i # 1 => 1 < i
    BY <1>4
  <2>2. 1 < i => chain[1] < chain[i]
    BY <1>2, <1>4 DEF Rising
  <2>3. QED
    BY <1>2, <1>3, <1>4, <2>1, <2>2
<1>6. /\ chain' \in Seq(Line) /\ Len(chain') = Len(chain) - 1
      /\ \A k \in 1..(Len(chain) - 1) : chain'[k] = chain[k + 1]
  BY <1>2, <1>3, <1>4, <1>5, RemoveFirst
<1>7. \A k \in 1..(Len(chain) - 1) : k + 1 \in 1..Len(chain)
  BY <1>4
<1>8. QED
  BY <1>4, <1>6, <1>7

\* What a doLog does to the file: as it was, or what it has read with its own line.
LEMMA FileMoves ==
    ASSUME LogInv, NEW n \in Line, Log!Write(n)
    PROVE  /\ n = chain[1] /\ FileOfLines(before[n]) /\ Before(before[n], n)
           /\ before[n] = logFile \/ before[n] = <<>> \/ logFile = <<>>
           /\ logFile' = logFile \/ logFile' = Log!Rotated(Append(before[n], n))
           /\ before' = [before EXCEPT ![n] = <<0>>] /\ UNCHANGED <<logged, clearing>>
BY DEF Log!Write, LogInv, ReadIsFresh, Log!Unread

\* doLog writes its line; the calls behind it are later.
LEMMA WriteKeeps == \A n \in Line : LogInv /\ Log!Write(n) => LogInv'
<1> SUFFICES ASSUME NEW n \in Line, LogInv, Log!Write(n) PROVE LogInv'
  OBVIOUS
<1>1. /\ n = chain[1] /\ FileOfLines(before[n]) /\ Before(before[n], n)
      /\ logFile' = logFile \/ logFile' = Log!Rotated(Append(before[n], n))
      /\ before' = [before EXCEPT ![n] = <<0>>] /\ UNCHANGED <<logged, clearing>>
  BY FileMoves
<1>2. /\ Len(chain) # 0 /\ chain' \in Seq(Line) /\ Len(chain') = Len(chain) - 1
      /\ \A i \in 1..Len(chain') : i + 1 \in 1..Len(chain) /\ chain'[i] = chain[i + 1]
  BY ChainMoves
<1>3. /\ FileOfLines(logFile) /\ chain \in Seq(Line) /\ Rising(chain) /\ logged \in Nat /\ logged \in 0..MaxLog
      /\ before \in [Line -> Seq(Line) \cup {<<0>>}] /\ n \in Nat
      /\ clearing \in [pc : {"idle", "waiting", "done"}, upto : 0..MaxLog]
      /\ \A i \in 1..Len(chain) : chain[i] \in Nat /\ chain[i] < logged + 1
  BY LogFacts
<1>4. ChainIsLater /\ ReadIsFresh /\ ClearedIsEmpty
  BY DEF LogInv
<1>5. Len(chain) \in Nat /\ 1 \in 1..Len(chain) /\ \A i \in 1..Len(chain') : 1 < i + 1 /\ i \in Nat
  BY <1>2, <1>3
<1>6. Rising(chain')
  <2> SUFFICES ASSUME NEW i \in 1..Len(chain'), NEW j \in 1..Len(chain'), i < j PROVE chain'[i] < chain'[j]
    BY DEF Rising
  <2>1. i + 1 < j + 1
    BY <1>5
  <2>2. QED
    BY <1>2, <1>3, <2>1 DEF Rising
<1>7. \A i \in 1..Len(chain') : n < chain'[i] /\ chain'[i] \in Nat
  BY <1>1, <1>2, <1>3, <1>5 DEF Rising
<1>8. /\ FileOfLines(logFile')
      /\ \A m : Before(logFile, m) /\ Before(before[n], m) /\ n < m => Before(logFile', m)
  BY <1>1, <1>3, WrittenFile
<1>9. \A m \in Nat : n < m => Before(before[n], m)
  <2>1. before[n] \in Seq(Line) /\ \A m \in Line : m \in Nat
    BY <1>1, LogFacts DEF FileOfLines
  <2>2. \A i \in 1..Len(before[n]) : before[n][i] \in Nat /\ before[n][i] < n
    BY <1>1, <2>1 DEF Before
  <2>3. QED
    BY <1>3, <2>2 DEF Before
<1>10. LogType'
  <2>1. before' \in [Line -> Seq(Line) \cup {<<0>>}]
    BY <1>1, <1>3
  <2>2. QED
    BY <1>1, <1>2, <1>3, <1>6, <1>8, <2>1 DEF LogType
<1>11. ChainIsLater'
  <2>1. Before(logFile', logged + 1)
    <3>1. n < logged + 1 /\ logged + 1 \in Nat /\ Before(logFile, logged + 1)
      BY <1>1, <1>3, <1>4, <1>5 DEF ChainIsLater
    <3>2. QED
      BY <1>8, <1>9, <3>1
  <2>2. Before(chain', logged + 1)
    BY <1>2, <1>3 DEF Before
  <2>3. ASSUME NEW j \in 1..Len(chain') PROVE Before(logFile', chain'[j])
    <3>1. n < chain'[j] /\ chain'[j] \in Nat /\ Before(logFile, chain'[j])
      BY <1>2, <1>4, <1>7 DEF ChainIsLater
    <3>2. QED
      BY <1>8, <1>9, <3>1
  <2>4. QED
    BY <1>1, <2>1, <2>2, <2>3 DEF ChainIsLater
<1>12. ReadIsFresh'
  <2>1. ASSUME NEW m \in Line PROVE before'[m] = Log!Unread
    <3>1. m = n => before'[m] = <<0>>
      BY <1>1, <1>3
    <3>2. m # n => before'[m] = before[m] /\ before[m] = Log!Unread
      BY <1>1, <1>3, <1>4 DEF ReadIsFresh
    <3>3. QED
      BY <3>1, <3>2 DEF Log!Unread
  <2>2. QED
    BY <2>1 DEF ReadIsFresh, Log!Unread
<1>13. ClearedIsEmpty'
  BY <1>1, <1>2, <1>4 DEF ClearedIsEmpty
<1>14. QED
  BY <1>10, <1>11, <1>12, <1>13 DEF LogInv

\* clearLog begins to wait.
LEMMA ClearKeeps == LogInv /\ Log!Clear => LogInv'
<1> SUFFICES ASSUME LogInv, Log!Clear PROVE LogInv'
  OBVIOUS
<1>1. clearing' = [pc |-> "waiting", upto |-> logged] /\ UNCHANGED <<logFile, logged, chain, before, missed>>
  BY DEF Log!Clear
<1>2. LogType /\ ChainIsLater /\ ReadIsFresh /\ logged \in 0..MaxLog /\ logged \in Nat
  BY LogFacts DEF LogInv
<1>3. LogType'
  BY <1>1, <1>2 DEF LogType, FileOfLines, Rising
<1>4. ChainIsLater' /\ ReadIsFresh'
  BY <1>1, <1>2 DEF ChainIsLater, ReadIsFresh, FileOfLines, Rising, Before, Log!Unread
<1>5. ClearedIsEmpty'
  BY <1>1, <1>2 DEF ClearedIsEmpty
<1>6. QED
  BY <1>3, <1>4, <1>5 DEF LogInv

\* clearLog empties the file; what no other call has met has left nothing in the chain.
LEMMA EmptyKeeps == LogInv /\ Log!Empty => LogInv'
<1> SUFFICES ASSUME LogInv, Log!Empty PROVE LogInv'
  OBVIOUS
<1>m. MaxLines \in Nat \ {0}
  BY BoundsAssumption
<1>1. /\ Log!Flushed(clearing.upto) /\ logFile' = <<>> /\ clearing' = [clearing EXCEPT !.pc = "done"]
      /\ UNCHANGED <<logged, chain, before, missed>>
  BY DEF Log!Empty
<1>2. /\ LogType /\ ChainIsLater /\ ReadIsFresh /\ ClearedIsEmpty
  BY DEF LogInv
<1>3. /\ chain \in Seq(Line) /\ logged \in Nat /\ clearing.upto \in Nat
      /\ clearing \in [pc : {"idle", "waiting", "done"}, upto : 0..MaxLog]
      /\ \A i \in 1..Len(chain) : chain[i] \in Nat /\ chain[i] < logged + 1
  BY LogFacts
<1>4. clearing'.upto = clearing.upto /\ clearing' \in [pc : {"idle", "waiting", "done"}, upto : 0..MaxLog]
  BY <1>1, <1>3
<1>5. LogType'
  <2>1. FileOfLines(<<>>)
    BY <1>m DEF FileOfLines, Rising
  <2>2. QED
    BY <1>1, <1>2, <1>4, <2>1 DEF LogType, Rising
<1>6. ChainIsLater'
  BY <1>1, <1>2 DEF ChainIsLater, Before
<1>7. ReadIsFresh'
  BY <1>1, <1>2 DEF ReadIsFresh, FileOfLines, Rising, Before, Log!Unread
<1>8. logged = clearing.upto => chain = <<>>
  <2>1. \A i \in 1..Len(chain) : chain[i] > clearing.upto
    BY <1>1, <1>3 DEF Log!Flushed, Log!ToSet
  <2>2. ASSUME logged = clearing.upto, Len(chain) # 0 PROVE FALSE
    <3>1. 1 \in 1..Len(chain)
      BY <1>3, <2>2
    <3>2. QED
      BY <1>3, <2>1, <2>2, <3>1
  <2>3. QED
    BY <1>3, <2>2
<1>9. ClearedIsEmpty'
  BY <1>1, <1>2, <1>4, <1>8 DEF ClearedIsEmpty
<1>10. QED
  BY <1>5, <1>6, <1>7, <1>9 DEF LogInv

\* Every step of the log.
LEMMA LogStep == LogInv /\ Log!Next => LogInv'
BY LogKeeps, ReadKeeps, WriteKeeps, ClearKeeps, EmptyKeeps DEF Log!Next, Line

\* An append keeps what the file holds, but for the first line at the limit, or a file that could not be read.
LEMMA WriteDrops ==
    ASSUME LogInv, NEW n \in Line, Log!Write(n), NEW m \in Log!ToSet(logFile) \ Log!ToSet(logFile')
    PROVE  Len(logFile') <= 1 \/ (m = Head(logFile) /\ Len(logFile') = MaxLines)
<1>0. MaxLines \in Nat \ {0}
  BY BoundsAssumption
<1>1. /\ FileOfLines(before[n]) /\ Before(before[n], n)
      /\ before[n] = logFile \/ before[n] = <<>> \/ logFile = <<>>
      /\ logFile' = logFile \/ logFile' = Log!Rotated(Append(before[n], n))
  BY FileMoves
<1>2. logFile \in Seq(Line)
  BY LogFacts
<1>3. PICK i \in 1..Len(logFile) : m = logFile[i]
  BY <1>2 DEF Log!ToSet
<1>4. logFile # <<>> /\ logFile' = Log!Rotated(Append(before[n], n))
  BY <1>1, <1>2, <1>3
<1>5. CASE before[n] = <<>>
  <2>1. Len(<<>>) < MaxLines
    BY <1>0
  <2>2. logFile' = Append(<<>>, n)
    BY <1>1, <1>4, <1>5, <2>1, CutAtLimit
  <2>3. Len(logFile') = 1
    BY <2>2
  <2>4. QED
    BY <2>3
<1>6. CASE before[n] = logFile
  <2>1. /\ FileOfLines(logFile') /\ logFile' # <<>>
        /\ \/ \E k \in 1..Len(logFile') : logFile'[k] = m
           \/ i = 1 /\ Len(logFile') = MaxLines
    BY <1>1, <1>3, <1>4, <1>6, WrittenFile
  <2>2. logFile' \in Seq(Line)
    BY <2>1 DEF FileOfLines
  <2>3. ~ \E k \in 1..Len(logFile') : logFile'[k] = m
    BY <2>2 DEF Log!ToSet
  <2>4. i = 1 => m = Head(logFile)
    BY <1>2, <1>3, <1>4
  <2>5. QED
    BY <2>1, <2>3, <2>4
<1>7. QED
  BY <1>1, <1>4, <1>5, <1>6

\* What leaves the file leaves it in its way, whatever the step.
LEMMA LogDrops ==
    LogInv /\ Log!Next =>
        \A m \in Log!ToSet(logFile) \ Log!ToSet(logFile') :
            Len(logFile') <= 1 \/ (m = Head(logFile) /\ Len(logFile') = MaxLines)
<1> SUFFICES ASSUME LogInv, Log!Next, NEW m \in Log!ToSet(logFile) \ Log!ToSet(logFile')
             PROVE  Len(logFile') <= 1 \/ (m = Head(logFile) /\ Len(logFile') = MaxLines)
  OBVIOUS
<1>1. CASE \E n \in Line : Log!Write(n)
  BY <1>1, WriteDrops
<1>2. CASE Log!Empty
  <2>1. logFile' = <<>>
    BY <1>2 DEF Log!Empty
  <2>2. Len(logFile') = 0
    BY <2>1
  <2>3. QED
    BY <2>2
<1>3. CASE UNCHANGED logFile
  BY <1>3 DEF Log!ToSet
<1>4. QED
  BY <1>1, <1>2, <1>3 DEF Log!Next, Log!Log, Log!Read, Log!Clear, Line

\* A step of another part changes nothing here.
LEMMA LogStay == LogInv /\ UNCHANGED logVars => LogInv'
BY DEF LogInv, LogType, ChainIsLater, ReadIsFresh, ClearedIsEmpty, FileOfLines, Rising, Before, Log!Unread, logVars

\* A step is one of the log or leaves its variables alone.
LEMMA LogInFocus == [Next]_allVars => Log!Next \/ UNCHANGED logVars
BY DEF Next, Still, allVars

\* Lines of the log are in their order, none is dropped by another, and a clear that nothing disturbs empties it
\* (log.ts:18, log.ts:94).
THEOREM LogIsKept == Spec => LogKept
<1>1. Init => LogInv
  BY LogStart DEF Init
<1>2. LogInv /\ [Next]_allVars => LogInv'
  BY LogStep, LogStay, LogInFocus
<1>3. LogInv => Log!TypeOK /\ Log!LinesInOrder /\ Log!QuietClearEmpties
  <2> SUFFICES ASSUME LogInv PROVE Log!TypeOK /\ Log!LinesInOrder /\ Log!QuietClearEmpties
    OBVIOUS
  <2>1. LogType /\ ClearedIsEmpty /\ logFile \in Seq(Line)
    BY LogFacts DEF LogInv
  <2>2. Log!TypeOK
    BY <2>1 DEF LogType, FileOfLines, Line, Log!TypeOK
  <2>3. Log!LinesInOrder
    <3>1. DOMAIN logFile = 1..Len(logFile) /\ Rising(logFile)
      BY <2>1 DEF LogType, FileOfLines
    <3>2. QED
      BY <3>1 DEF Rising, Log!LinesInOrder
  <2>4. Log!QuietClearEmpties
    BY <2>1 DEF ClearedIsEmpty, Log!QuietClearEmpties
  <2>5. QED
    BY <2>2, <2>3, <2>4
<1>4. LogInv /\ [Next]_allVars =>
          [\A n \in Log!ToSet(logFile) \ Log!ToSet(logFile') :
              \/ Len(logFile') <= 1
              \/ n = Head(logFile) /\ Len(logFile') = MaxLines]_(Log!logVars)
  BY LogDrops, LogInFocus DEF logVars, Log!logVars
<1>5. QED
  BY <1>1, <1>2, <1>3, <1>4, PTL DEF Spec, LogKept, Log!NothingDropped

-----------------------------------------------------------------------------
(* The boot of the terminal SDK (TerminalBoot).                            *)

BootType ==
    /\ attempt \in Nat \ {0} /\ bootStep \in Nat /\ bootTotal \in Nat /\ services \in Nat
    /\ injected \in BOOLEAN /\ spawned \in Nat /\ hostProc = spawned

\* Before the probe there is no process, or one; after it every process but the last was killed, and there were no more
\* than attempts.
ProcessesAreOld ==
    /\ pc \in {"container", "restore", "host"} => spawned = 0 /\ killed = {}
    /\ pc \in {"restore", "host", "workspace"} => attempt = 1
    /\ pc = "workspace" => spawned = 1 /\ killed = {}
    /\ pc \in {"probe", "kill", "respawn"} => spawned = attempt
    /\ pc = "probe" => attempt <= MaxReadyAttempts
    /\ pc \in {"kill", "respawn"} => attempt < MaxReadyAttempts
    /\ pc \in {"probe", "kill", "autostart", "done"} => killed = 1..(spawned - 1)
    /\ pc = "respawn" => killed = 1..spawned
    /\ pc \in {"autostart", "done"} => spawned <= MaxReadyAttempts

\* The steps that are still to come, at each point of the boot.
StepsAhead ==
    /\ pc \in {"container", "restore", "host"} => ~injected
    /\ pc # "container" /\ pc # "null" /\ pc # "threw" /\ pc # "autostart" /\ pc # "done" => bootTotal = 8 + services
    /\ pc = "restore" => bootStep = 1
    /\ pc = "host" => bootStep = 2
    /\ pc = "workspace" => bootStep = 5
    /\ pc \in {"probe", "kill", "respawn"} => bootStep = 7
    /\ pc \in {"autostart", "done"} => bootStep + services = bootTotal

SdkInv == BootType /\ ProcessesAreOld /\ StepsAhead

\* The invariant holds of the initial states of the boot.
LEMMA SdkStart == Boot!Init => SdkInv
<1>1. MaxAutostart \in Nat
  BY BoundsAssumption
<1> SUFFICES ASSUME Boot!Init PROVE SdkInv
  OBVIOUS
<1>2. /\ pc = "container" /\ attempt = 1 /\ bootStep = 0 /\ bootTotal = 0 /\ services \in Nat
      /\ spawned = 0 /\ killed = {} /\ hostProc = 0
  BY <1>1 DEF Boot!Init
<1>3. ~injected /\ injected \in BOOLEAN
  BY DEF Boot!Init
<1>4. QED
  BY <1>2, <1>3 DEF SdkInv, BootType, ProcessesAreOld, StepsAhead

\* Every step of the boot keeps the types.
LEMMA SdkTypeStep == BootType /\ Boot!Next => BootType'
<1> SUFFICES ASSUME BootType, Boot!Next PROVE BootType'
  OBVIOUS
<1> USE DEF BootType, Boot!Counted
<1>1. CASE Boot!ContainerFails \/ Boot!ContainerBoots \/ Boot!Restore
  BY <1>1 DEF Boot!ContainerFails, Boot!ContainerBoots, Boot!Restore
<1>2. CASE Boot!SpawnHost
  <2>1. bootStep' \in Nat
    BY <1>2 DEF Boot!SpawnHost
  <2>2. injected' \in BOOLEAN
    BY <1>2 DEF Boot!SpawnHost
  <2>3. spawned' \in Nat /\ hostProc' = spawned'
    BY <1>2 DEF Boot!SpawnHost
  <2>4. UNCHANGED <<attempt, bootTotal, services>>
    BY <1>2 DEF Boot!SpawnHost
  <2>5. QED
    BY <2>1, <2>2, <2>3, <2>4
<1>3. CASE Boot!Configure \/ Boot!HostChanges
  BY <1>3 DEF Boot!Configure, Boot!HostChanges
<1>4. CASE Boot!Pong \/ Boot!NotReady \/ Boot!Kill \/ Boot!Respawn
  BY <1>4 DEF Boot!Pong, Boot!NotReady, Boot!Kill, Boot!Respawn
<1>5. CASE Boot!Autostart \/ Boot!Done
  BY <1>5 DEF Boot!Autostart, Boot!Done
<1>6. QED
  BY <1>1, <1>2, <1>3, <1>4, <1>5 DEF Boot!Next

\* The process at hand is killed before another one is started.
LEMMA SdkProcessesStep == BootType /\ ProcessesAreOld /\ Boot!Next => ProcessesAreOld'
<1> SUFFICES ASSUME BootType, ProcessesAreOld, Boot!Next PROVE ProcessesAreOld'
  OBVIOUS
<1>m. MaxReadyAttempts \in Nat \ {0}
  BY BoundsAssumption
<1> USE DEF BootType, ProcessesAreOld
<1>0. CASE Boot!Configure
  <2>1. 1..(1 - 1) = {}
    OBVIOUS
  <2>2. pc = "workspace" /\ pc' \in {"probe", "threw"} /\ UNCHANGED <<attempt, spawned, killed>>
    BY <1>0 DEF Boot!Configure
  <2>3. attempt = 1 /\ spawned = 1 /\ killed = {} /\ 1 <= MaxReadyAttempts
    BY <2>2, <1>m
  <2>4. killed = 1..(spawned - 1)
    BY <2>1, <2>3
  <2>5. QED
    BY <2>2, <2>3, <2>4
<1>1. CASE \/ Boot!ContainerFails \/ Boot!ContainerBoots \/ Boot!Restore \/ Boot!SpawnHost
  BY <1>1, <1>m DEF Boot!ContainerFails, Boot!ContainerBoots, Boot!Restore, Boot!SpawnHost
<1>2. CASE Boot!HostChanges \/ Boot!Pong \/ Boot!NotReady \/ Boot!Autostart \/ Boot!Done
  BY <1>2, <1>m DEF Boot!HostChanges, Boot!Pong, Boot!NotReady, Boot!Autostart, Boot!Done
<1>3. CASE Boot!Kill
  <2>1. pc = "kill" /\ pc' = "respawn" /\ killed' = killed \cup {spawned}
        /\ UNCHANGED <<attempt, spawned>>
    BY <1>3 DEF Boot!Kill
  <2>2. killed = 1..(spawned - 1) /\ spawned = attempt /\ attempt < MaxReadyAttempts
    BY <2>1
  <2>3. spawned # 0
    BY <2>1
  <2>4. killed' = 1..spawned
    BY <2>1, <2>2, <2>3
  <2>5. QED
    BY <2>1, <2>2, <2>4
<1>4. CASE Boot!Respawn
  <2>1. CASE pc' = "probe" /\ attempt' = attempt + 1 /\ spawned' = spawned + 1
    <3>1. pc = "respawn" /\ UNCHANGED killed
      BY <1>4 DEF Boot!Respawn
    <3>2. (spawned + 1) - 1 = spawned
      OBVIOUS
    <3>3. QED
      BY <2>1, <3>1, <3>2, <1>m
  <2>2. CASE pc' = "threw"
    BY <2>2
  <2>3. QED
    BY <1>4, <2>1, <2>2 DEF Boot!Respawn
<1>5. QED
  BY <1>0, <1>1, <1>2, <1>3, <1>4 DEF Boot!Next

\* Every step counts as many lines as it has announced.
LEMMA SdkStepsStep == BootType /\ StepsAhead /\ Boot!Next => StepsAhead'
<1> SUFFICES ASSUME BootType, StepsAhead, Boot!Next PROVE StepsAhead'
  OBVIOUS
<1> USE DEF BootType, StepsAhead, Boot!Counted
<1>1. CASE Boot!ContainerFails \/ Boot!ContainerBoots \/ Boot!Restore
  BY <1>1 DEF Boot!ContainerFails, Boot!ContainerBoots, Boot!Restore
<1>2. CASE Boot!SpawnHost
  BY <1>2 DEF Boot!SpawnHost
<1>3. CASE Boot!Configure \/ Boot!HostChanges
  BY <1>3 DEF Boot!Configure, Boot!HostChanges
<1>4. CASE Boot!Pong \/ Boot!NotReady \/ Boot!Kill \/ Boot!Respawn
  BY <1>4 DEF Boot!Pong, Boot!NotReady, Boot!Kill, Boot!Respawn
<1>5. CASE Boot!Autostart \/ Boot!Done
  BY <1>5 DEF Boot!Autostart, Boot!Done
<1>6. QED
  BY <1>1, <1>2, <1>3, <1>4, <1>5 DEF Boot!Next

\* Every step of the boot keeps the invariant.
LEMMA SdkStep == SdkInv /\ Boot!Next => SdkInv'
BY SdkTypeStep, SdkProcessesStep, SdkStepsStep DEF SdkInv

\* A step of another part changes nothing here.
LEMMA SdkStay == SdkInv /\ UNCHANGED bootVars => SdkInv'
BY DEF SdkInv, BootType, ProcessesAreOld, StepsAhead, bootVars

\* A step is one of the boot or leaves its variables alone.
LEMMA SdkInFocus == [Next]_allVars => Boot!Next \/ UNCHANGED bootVars
BY DEF Next, Still, allVars

-----------------------------------------------------------------------------
(* The start of the page's application, and its resets (AppBoot).          *)

Content == {"none", "seed", "mine"}

\* The steps of a start between its restore and its end; those of a reset after its clear, and after the removal.
Returning == {"workspace", "home", "cwd", "motd", "proof", "again", "attach", "tests"}
Forgetting == {"workspace", "home", "cwd", "motd", "proof", "session"}
Stage == {"off", "container", "instance", "refused", "clear", "remove", "ended", "failed"} \union Returning \union Forgetting

AppType ==
    /\ at \in [App!Run -> Stage] /\ at["start"] # "session"
    /\ disk \in [App!File -> Content] /\ snapshot \in [App!File -> Content \union {"unsaved"}]
    /\ faults \in Nat

\* A reset begins after the start, which stays at its end.
ResetsFollowStart == \A r \in AnyReset: at[r] # "off" => at["start"] = "ended"

\* After a restore that went well the user's files are back, and the steps that follow leave them.
WorkIsBack ==
    at["start"] \in Returning /\ restored => \A f \in App!File: snapshot[f] = "mine" => disk[f] = "mine"

Runs(r) == at[r] \notin {"off", "ended", "failed"}
OneReset == \A r, s \in AnyReset: Runs(r) /\ Runs(s) => r = s

\* While a reset in which nothing has failed runs, no command writes; what it has cleared and removed stays so.
ResetIsClean ==
    \A r \in AnyReset:
        /\ faults = 0 /\ Runs(r) => ~live
        /\ at[r] \in Forgetting \union {"remove"} /\ ~dirtied => \A f \in App!File: snapshot[f] # "mine"
        /\ at[r] \in Forgetting /\ faults = 0 => \A f \in App!StateRoot: disk[f] # "mine"

AppInv == AppType /\ ResetsFollowStart /\ WorkIsBack /\ OneReset /\ ResetIsClean

\* The invariant holds of the initial states of the application.
LEMMA AppStart == App!Init => AppInv
BY DEF App!Init, AppInv, AppType, ResetsFollowStart, WorkIsBack, OneReset, ResetIsClean, Runs, App!Run, App!File, App!Nothing,
       Stage, Content, Returning, Forgetting, App!StateRoot

\* What a step of the boot does, of a start or of a reset: a file is made where there was none, or nothing is.
StepMoves(r) ==
    /\ UNCHANGED <<snapshot, restored, dirtied>>
    /\ at' = [at EXCEPT ![r] = at'[r]]
    /\ faults' \in Nat /\ faults' >= faults
    /\ \A f \in App!File: disk'[f] = disk[f] \/ (disk[f] = "none" /\ disk'[f] = "seed")
    /\ disk' \in [App!File -> Content]
    /\ \/ /\ at[r] \in Returning \intersect Forgetting /\ UNCHANGED live
          /\ at'[r] \in (IF r = "start" THEN Returning ELSE Forgetting) \union {"failed"}
       \/ at[r] = "session" /\ at'[r] = "ended"

\* A step that makes a file.
LEMMA SeedMoves ==
    ASSUME AppType, NEW r \in App!Run, NEW f \in App!File, NEW from \in Returning \intersect Forgetting,
           NEW to \in Returning \intersect Forgetting, App!Seed(r, f, from, to)
    PROVE  StepMoves(r)
<1>1. at' = [at EXCEPT ![r] = to] /\ at[r] = from /\ at'[r] = to
  BY DEF App!Seed, App!Step, AppType
<1>2. faults' \in Nat /\ faults' >= faults
  BY DEF App!Seed, App!Fault, AppType
<1>3. /\ disk' \in [App!File -> Content]
      /\ \A g \in App!File: disk'[g] = disk[g] \/ (disk[g] = "none" /\ disk'[g] = "seed")
  BY DEF App!Seed, AppType, Content
<1>4. UNCHANGED <<snapshot, restored, dirtied, live>>
  BY DEF App!Seed, App!history
<1>5. to \in (IF r = "start" THEN Returning ELSE Forgetting) \union {"failed"}
  OBVIOUS
<1>6. QED
  BY <1>1, <1>2, <1>3, <1>4, <1>5 DEF StepMoves

\* Every step that a start and a reset have in common moves so.
LEMMA StepsMove == ASSUME AppType, NEW r \in App!Run, App!Steps(r) PROVE StepMoves(r)
<1>1. CASE App!InitWorkspace(r)
  <2>1. "workspace" \in Returning \intersect Forgetting /\ "home" \in Returning \intersect Forgetting
        /\ "pointer" \in App!File
    BY DEF Returning, Forgetting, App!File
  <2>2. QED
    BY <1>1, <2>1, SeedMoves DEF App!InitWorkspace
<1>2. CASE App!EnsureUserHome(r)
  <2>1. "cwd" \in Returning \intersect Forgetting /\ "home" \in Returning \intersect Forgetting /\ "home" \in App!File
    BY DEF Returning, Forgetting, App!File
  <2>2. QED
    BY <1>2, <2>1, SeedMoves DEF App!EnsureUserHome
<1>3. CASE App!SeedCwd(r)
  <2>1. "cwd" \in Returning \intersect Forgetting /\ "motd" \in Returning \intersect Forgetting /\ "cwd" \in App!File
    BY DEF Returning, Forgetting, App!File
  <2>2. QED
    BY <1>3, <2>1, SeedMoves DEF App!SeedCwd
<1>4. CASE App!EnsureMotd(r)
  <2>1. "motd" \in Returning \intersect Forgetting /\ "proof" \in Returning \intersect Forgetting /\ "motd" \in App!File
    BY DEF Returning, Forgetting, App!File
  <2>2. QED
    BY <1>4, <2>1, SeedMoves DEF App!EnsureMotd
<1>5. CASE App!NoHome(r)
  BY <1>5 DEF App!NoHome, App!Step, App!history, AppType, StepMoves, Returning, Forgetting
<1>6. CASE App!LastSteps(r)
  <2>1. UNCHANGED <<snapshot, restored, dirtied, live, disk>> /\ at[r] = "proof"
    BY <1>6 DEF App!LastSteps, App!history
  <2>2. faults' \in Nat /\ faults' >= faults
    BY <1>6 DEF App!LastSteps, App!Fault, AppType
  <2>3. PICK to \in {IF r = "start" THEN "again" ELSE "session", "failed"} : at' = [at EXCEPT ![r] = to]
    BY <1>6 DEF App!LastSteps
  <2>4. at'[r] = to
    BY <2>3 DEF AppType
  <2>5. QED
    BY <2>1, <2>2, <2>3, <2>4 DEF StepMoves, AppType, Returning, Forgetting
<1>7. CASE App!RenewSession(r)
  <2>1. at' = [at EXCEPT ![r] = "ended"] /\ at[r] = "session" /\ at'[r] = "ended"
    BY <1>7 DEF App!RenewSession, App!Step, AppType
  <2>2. UNCHANGED <<snapshot, restored, dirtied, faults, disk>>
    BY <1>7 DEF App!RenewSession, App!history
  <2>3. QED
    BY <2>1, <2>2 DEF StepMoves, AppType
<1>8. QED
  BY <1>1, <1>2, <1>3, <1>4, <1>5, <1>6, <1>7 DEF App!Steps

\* The steps that a start and a reset have in common keep the invariant.
LEMMA StepsKeep == ASSUME AppInv, NEW r \in App!Run, App!Steps(r) PROVE AppInv'
<1>0. /\ AppType /\ ResetsFollowStart /\ WorkIsBack /\ OneReset /\ ResetIsClean
      /\ "start" \in App!Run /\ AnyReset \subseteq App!Run /\ "start" \notin AnyReset
  BY BoundsAssumption DEF AppInv, App!Run
<1>1. StepMoves(r)
  BY <1>0, StepsMove
<1>2. at[r] \in Stage /\ at'[r] \in Stage
  BY <1>0, <1>1 DEF AppType, StepMoves, Stage
<1>3. at'["start"] # "session" /\ (r = "start" => at'[r] \in Returning \union {"failed"} /\ at[r] \in Returning)
  BY <1>0, <1>1 DEF AppType, StepMoves, Returning
<1>4. AppType'
  BY <1>0, <1>1, <1>2, <1>3 DEF AppType, StepMoves
<1>5. \A s \in App!Run \ {r}: at'[s] = at[s]
  BY <1>0, <1>1 DEF AppType, StepMoves
<1>6. at[r] # "off" /\ at[r] # "ended" /\ at[r] # "failed" /\ at[r] \in Forgetting
  BY <1>1 DEF StepMoves, Returning, Forgetting
<1>7. r \in AnyReset \/ r = "start"
  BY DEF App!Run
<1>8. ResetsFollowStart'
  BY <1>0, <1>3, <1>5, <1>6, <1>7 DEF ResetsFollowStart, Returning
<1>9. WorkIsBack'
  <2>1. \A f \in App!File: disk[f] = "mine" => disk'[f] = "mine"
    BY <1>1 DEF StepMoves
  <2>2. at'["start"] \in Returning => at["start"] \in Returning
    BY <1>0, <1>3, <1>5
  <2>3. QED
    BY <1>1, <2>1, <2>2, <1>0 DEF WorkIsBack, StepMoves
<1>10. OneReset'
  BY <1>0, <1>5, <1>6 DEF OneReset, Runs
<1>11. CASE r = "start"
  <2>1. at["start"] # "ended"
    BY <1>3, <1>11 DEF Returning
  <2>2. \A s \in AnyReset: at'[s] = "off"
    BY <1>0, <1>5, <1>11, <2>1 DEF ResetsFollowStart
  <2>3. ResetIsClean'
    BY <2>2 DEF ResetIsClean, Runs, Forgetting
  <2>4. QED
    BY <1>4, <1>8, <1>9, <1>10, <2>3 DEF AppInv
<1>12. CASE r \in AnyReset
  <2>1. \A s \in AnyReset: Runs(s)' => s = r /\ at'[r] \in Forgetting /\ UNCHANGED live
    <3>1. Runs(r)
      BY <1>6 DEF Runs
    <3>2. \A s \in AnyReset \ {r}: ~Runs(s)
      BY <1>0, <1>12, <3>1 DEF OneReset
    <3>3. \A s \in AnyReset \ {r}: ~Runs(s)'
      BY <1>0, <1>5, <3>2 DEF Runs
    <3>4. Runs(r)' => at'[r] \in Forgetting /\ UNCHANGED live
      BY <1>0, <1>1, <1>12 DEF Runs, StepMoves
    <3>5. QED
      BY <3>3, <3>4
  <2>2. \A s \in AnyReset: at'[s] \in Forgetting \union {"remove"} => Runs(s)'
    BY DEF Runs, Forgetting
  <2>3. faults' = 0 => faults = 0
    BY <1>0, <1>1 DEF StepMoves, AppType
  <2>4. \A f \in App!File: disk'[f] = "mine" => disk[f] = "mine"
    BY <1>1 DEF StepMoves
  <2>5. /\ faults = 0 => ~live
        /\ ~dirtied => \A f \in App!File: snapshot[f] # "mine"
        /\ faults = 0 => \A f \in App!StateRoot: disk[f] # "mine"
    BY <1>0, <1>6, <1>12 DEF ResetIsClean, Runs
  <2>6. App!StateRoot \subseteq App!File
    BY DEF App!StateRoot, App!File
  <2>7. UNCHANGED <<snapshot, dirtied>>
    BY <1>1 DEF StepMoves
  <2>8. ResetIsClean'
    BY <2>1, <2>2, <2>3, <2>4, <2>5, <2>6, <2>7 DEF ResetIsClean
  <2>9. QED
    BY <1>4, <1>8, <1>9, <1>10, <2>8 DEF AppInv
<1>13. QED
  BY <1>7, <1>11, <1>12

\* While the start is under way no reset has begun: its steps have to keep the types and the user's files only.
LEMMA StartKeeps ==
    ASSUME AppInv, at["start"] # "ended", NEW to \in Stage, at' = [at EXCEPT !["start"] = to], AppType', WorkIsBack'
    PROVE  AppInv'
<1>1. /\ AppType /\ ResetsFollowStart /\ "start" \in App!Run /\ AnyReset \subseteq App!Run /\ "start" \notin AnyReset
  BY BoundsAssumption DEF AppInv, App!Run
<1>2. \A r \in AnyReset: at'[r] = "off"
  BY <1>1 DEF AppType, ResetsFollowStart
<1>3. ResetsFollowStart' /\ OneReset' /\ ResetIsClean'
  BY <1>2 DEF ResetsFollowStart, OneReset, ResetIsClean, Runs, Forgetting
<1>4. QED
  BY <1>3 DEF AppInv

\* What is put back has every file of the user as the snapshot has it.
LEMMA LoadedIsBack ==
    AppType => /\ App!Loaded \in [App!File -> Content]
               /\ \A f \in App!File: snapshot[f] = "mine" => App!Loaded[f] = "mine"
BY DEF AppType, App!Loaded, Content

\* The steps of the start that no reset has.
LEMMA StartStepsKeep ==
    AppInv /\ (App!Start \/ App!Container \/ App!Restore \/ App!RestoreAgain \/ App!OpenSession \/ App!Attach) => AppInv'
<1> SUFFICES ASSUME AppInv, App!Start \/ App!Container \/ App!Restore \/ App!RestoreAgain \/ App!OpenSession \/ App!Attach
             PROVE  AppInv'
  OBVIOUS
<1>0. AppType /\ WorkIsBack /\ "start" \in App!Run
  BY DEF AppInv, App!Run
<1>1. CASE App!Start
  <2>1. PICK to \in {"container", "refused"} : at' = [at EXCEPT !["start"] = to] /\ at["start"] = "off"
    BY <1>1 DEF App!Start, App!Step
  <2>2. UNCHANGED <<disk, snapshot, faults, restored>>
    BY <1>1 DEF App!Start, App!history
  <2>3. to \in Stage /\ to \notin Returning /\ to # "session" /\ at'["start"] = to
    BY <1>0, <2>1 DEF Stage, Returning, AppType
  <2>4. AppType' /\ WorkIsBack'
    BY <1>0, <2>1, <2>2, <2>3 DEF AppType, WorkIsBack
  <2>5. QED
    BY <2>1, <2>3, <2>4, StartKeeps
<1>2. CASE App!Container
  <2>1. PICK to \in {"instance", "container", "failed"} :
           at' = [at EXCEPT !["start"] = to] /\ at["start"] = "container"
    BY <1>2 DEF App!Container, App!Step
  <2>2. UNCHANGED <<disk, snapshot, restored>> /\ faults' \in Nat
    BY <1>0, <1>2 DEF App!Container, App!history, App!Fault, AppType
  <2>3. to \in Stage /\ to \notin Returning /\ to # "session" /\ at'["start"] = to
    BY <1>0, <2>1 DEF Stage, Returning, AppType
  <2>4. AppType' /\ WorkIsBack'
    BY <1>0, <2>1, <2>2, <2>3 DEF AppType, WorkIsBack
  <2>5. QED
    BY <2>1, <2>3, <2>4, StartKeeps
<1>3. CASE App!Restore
  <2>1. at' = [at EXCEPT !["start"] = "workspace"] /\ at["start"] = "instance" /\ UNCHANGED snapshot
    BY <1>3 DEF App!Restore, App!Step
  <2>2. \/ disk' = App!Loaded /\ UNCHANGED <<faults, restored>>
        \/ faults' = faults + 1 /\ UNCHANGED disk /\ restored' = FALSE
    BY <1>3 DEF App!Restore, App!Fault
  <2>3. "workspace" \in Stage /\ at'["start"] = "workspace"
    BY <1>0, <2>1 DEF Stage, Returning, AppType
  <2>4. disk' \in [App!File -> Content] /\ faults' \in Nat
    BY <1>0, <2>2, LoadedIsBack DEF AppType
  <2>5. AppType'
    BY <1>0, <2>1, <2>3, <2>4 DEF AppType
  <2>6. restored' => \A f \in App!File: snapshot[f] = "mine" => disk'[f] = "mine"
    BY <1>0, <2>2, LoadedIsBack
  <2>7. WorkIsBack'
    BY <2>1, <2>6 DEF WorkIsBack
  <2>8. QED
    BY <2>1, <2>3, <2>5, <2>7, StartKeeps
<1>4. CASE App!RestoreAgain
  <2>1. PICK to \in {"attach", "failed"} : at' = [at EXCEPT !["start"] = to] /\ at["start"] = "again"
    BY <1>4 DEF App!RestoreAgain, App!Step
  <2>2. UNCHANGED <<snapshot, restored>> /\ faults' \in Nat /\ (disk' = App!Loaded \/ UNCHANGED disk)
    BY <1>0, <1>4 DEF App!RestoreAgain, App!history, App!Fault, AppType
  <2>3. to \in Stage /\ to # "session" /\ at'["start"] = to /\ at["start"] \in Returning
    BY <1>0, <2>1 DEF Stage, Returning, AppType
  <2>4. disk' \in [App!File -> Content]
    BY <1>0, <2>2, LoadedIsBack DEF AppType
  <2>5. AppType'
    BY <1>0, <2>1, <2>2, <2>3, <2>4 DEF AppType
  <2>6. WorkIsBack'
    BY <1>0, <2>2, <2>3, LoadedIsBack DEF WorkIsBack
  <2>7. QED
    BY <2>1, <2>3, <2>5, <2>6, StartKeeps
<1>5. CASE App!OpenSession \/ App!Attach
  <2>1. PICK to \in {"tests", "ended", "failed"} :
           at' = [at EXCEPT !["start"] = to] /\ at["start"] \in {"attach", "tests"}
    BY <1>5 DEF App!OpenSession, App!Attach, App!Step
  <2>2. UNCHANGED <<disk, snapshot, restored>> /\ faults' \in Nat
    BY <1>0, <1>5 DEF App!OpenSession, App!Attach, App!history, App!Fault, AppType
  <2>3. to \in Stage /\ to # "session" /\ at'["start"] = to /\ at["start"] \in Returning /\ at["start"] # "ended"
    BY <1>0, <2>1 DEF Stage, Returning, AppType
  <2>4. AppType' /\ WorkIsBack'
    BY <1>0, <2>1, <2>2, <2>3 DEF AppType, WorkIsBack
  <2>5. QED
    BY <2>1, <2>3, <2>4, StartKeeps
<1>6. QED
  BY <1>1, <1>2, <1>3, <1>4, <1>5

\* A command's write, a snapshot, the stop of the instance, a reload of the page.
LEMMA PageKeeps ==
    AppInv /\ ((\E f \in App!File: App!Write(f)) \/ App!Save \/ App!Stop \/ App!Reload) => AppInv'
<1> SUFFICES ASSUME AppInv, (\E f \in App!File: App!Write(f)) \/ App!Save \/ App!Stop \/ App!Reload
             PROVE  AppInv'
  OBVIOUS
<1>0. /\ AppType /\ ResetsFollowStart /\ WorkIsBack /\ OneReset /\ ResetIsClean
      /\ "start" \in App!Run /\ AnyReset \subseteq App!Run
  BY DEF AppInv, App!Run
<1>1. ASSUME NEW f \in App!File, App!Write(f) PROVE AppInv'
  <2>1. live /\ disk' = [disk EXCEPT ![f] = "mine"] /\ UNCHANGED <<snapshot, at, faults, live, restored, dirtied>>
    BY <1>1 DEF App!Write, App!history
  <2>2. AppType'
    BY <1>0, <2>1 DEF AppType, Content
  <2>3. \A g \in App!File: disk[g] = "mine" => disk'[g] = "mine"
    BY <1>0, <2>1 DEF AppType
  <2>4. WorkIsBack'
    BY <1>0, <2>1, <2>3 DEF WorkIsBack
  <2>5. \A r \in AnyReset: at[r] \in Forgetting => Runs(r)
    BY DEF Runs, Forgetting
  <2>6. ResetIsClean'
    BY <1>0, <2>1, <2>5 DEF ResetIsClean, Runs
  <2>7. ResetsFollowStart' /\ OneReset'
    BY <1>0, <2>1 DEF ResetsFollowStart, OneReset, Runs
  <2>8. QED
    BY <2>2, <2>4, <2>6, <2>7 DEF AppInv
<1>2. CASE App!Save
  <2>1. /\ at["start"] = "ended" /\ dirtied' = TRUE /\ UNCHANGED <<disk, at, faults, live, restored>>
        /\ snapshot' = [f \in App!File |-> IF f \in App!Covered THEN disk[f] ELSE "unsaved"]
    BY <1>2 DEF App!Save, App!Ready
  <2>2. AppType'
    BY <1>0, <2>1 DEF AppType
  <2>3. WorkIsBack'
    BY <2>1 DEF WorkIsBack, Returning
  <2>4. ResetIsClean'
    BY <1>0, <2>1 DEF ResetIsClean, Runs
  <2>5. ResetsFollowStart' /\ OneReset'
    BY <1>0, <2>1 DEF ResetsFollowStart, OneReset, Runs
  <2>6. QED
    BY <2>2, <2>3, <2>4, <2>5 DEF AppInv
<1>3. CASE App!Stop
  <2>1. live' = FALSE /\ UNCHANGED <<disk, snapshot, at, faults, restored, dirtied>>
    BY <1>3 DEF App!Stop, App!history
  <2>2. AppType' /\ WorkIsBack' /\ ResetsFollowStart' /\ OneReset'
    BY <1>0, <2>1 DEF AppType, WorkIsBack, ResetsFollowStart, OneReset, Runs
  <2>3. ResetIsClean'
    BY <1>0, <2>1 DEF ResetIsClean, Runs
  <2>4. QED
    BY <2>2, <2>3 DEF AppInv
<1>4. CASE App!Reload
  <2>1. disk' = [f \in App!File |-> "none"] /\ at' = [r \in App!Run |-> "off"] /\ UNCHANGED <<snapshot, faults>>
    BY <1>4 DEF App!Reload
  <2>2. \A r \in App!Run: at'[r] = "off"
    BY <2>1
  <2>3. AppType'
    BY <1>0, <2>1, <2>2 DEF AppType, Stage, Content
  <2>4. WorkIsBack' /\ ResetsFollowStart' /\ OneReset' /\ ResetIsClean'
    BY <1>0, <2>2 DEF WorkIsBack, ResetsFollowStart, OneReset, ResetIsClean, Runs, Returning, Forgetting
  <2>5. QED
    BY <2>3, <2>4 DEF AppInv
<1>5. QED
  BY <1>1, <1>2, <1>3, <1>4

\* The steps of a reset that no start has: the host is told, the snapshot cleared, the state root removed.
LEMMA ResetKeeps ==
    ASSUME AppInv, NEW r \in AnyReset, App!ResetHost(r) \/ App!Clear(r) \/ App!RemoveRoot(r)
    PROVE  AppInv'
<1>0. /\ AppType /\ ResetsFollowStart /\ WorkIsBack /\ OneReset /\ ResetIsClean
      /\ r # "start" /\ "start" \in App!Run /\ r \in App!Run /\ AnyReset \subseteq App!Run
  BY BoundsAssumption DEF AppInv, App!Run
<1>1. PICK to \in {"clear", "remove", "workspace"} : at' = [at EXCEPT ![r] = to]
  BY DEF App!ResetHost, App!Clear, App!RemoveRoot, App!Step
<1>2. at["start"] = "ended"
  BY <1>0 DEF App!ResetHost, App!Clear, App!RemoveRoot, App!Step, App!Ready, ResetsFollowStart
<1>3. \A s \in App!Run \ {r}: at'[s] = at[s]
  BY <1>0, <1>1 DEF AppType
<1>4. at'[r] = to /\ at'["start"] = "ended"
  BY <1>0, <1>1, <1>2, <1>3 DEF AppType
<1>5. AppType'
  <2>1. disk' \in [App!File -> Content] /\ snapshot' \in [App!File -> Content \union {"unsaved"}]
    BY <1>0 DEF App!ResetHost, App!Clear, App!RemoveRoot, App!Nothing, AppType, Content
  <2>2. faults' \in Nat
    BY <1>0 DEF App!ResetHost, App!Clear, App!RemoveRoot, App!Fault, AppType
  <2>3. to \in Stage
    BY DEF Stage, Returning
  <2>4. at' \in [App!Run -> Stage]
    BY <1>0, <1>1, <2>3 DEF AppType
  <2>5. QED
    BY <1>4, <2>1, <2>2, <2>4 DEF AppType
<1>6. ResetsFollowStart' /\ WorkIsBack'
  BY <1>4 DEF ResetsFollowStart, WorkIsBack, Returning
<1>7. \A s \in AnyReset \ {r}: ~Runs(s)
  <2>1. CASE App!ResetHost(r)
    BY <2>1 DEF App!ResetHost, App!Resetting, Runs
  <2>2. CASE Runs(r)
    BY <1>0, <2>2 DEF OneReset
  <2>3. (App!Clear(r) \/ App!RemoveRoot(r)) => Runs(r)
    BY DEF App!Clear, App!RemoveRoot, App!Step, Runs
  <2>4. QED
    BY <2>1, <2>2, <2>3
<1>8. \A s \in AnyReset \ {r}: ~Runs(s)'
  BY <1>0, <1>3, <1>7 DEF Runs
<1>9. OneReset'
  BY <1>8 DEF OneReset
<1>10. \A s \in AnyReset: at'[s] \in Forgetting \union {"remove"} => Runs(s)'
  BY DEF Runs, Forgetting
<1>11. /\ faults' = 0 => ~live'
       /\ to \in Forgetting \union {"remove"} /\ ~dirtied' => \A f \in App!File: snapshot'[f] # "mine"
       /\ to \in Forgetting /\ faults' = 0 => \A f \in App!StateRoot: disk'[f] # "mine"
  <2>1. CASE App!ResetHost(r)
    <3>1. to = "clear"
      BY <1>0, <1>1, <1>4, <2>1 DEF App!ResetHost, App!Step, AppType
    <3>2. faults' = 0 => ~live'
      BY <1>0, <2>1 DEF App!ResetHost, App!Fault, AppType
    <3>3. QED
      BY <3>1, <3>2 DEF Forgetting
  <2>2. CASE App!Clear(r)
    <3>1. to = "remove" /\ at[r] = "clear"
      BY <1>0, <1>1, <1>4, <2>2 DEF App!Clear, App!Step, AppType
    <3>2. \A f \in App!File: snapshot'[f] = "unsaved"
      BY <2>2 DEF App!Clear, App!Nothing
    <3>3. faults' = 0 => ~live'
      BY <1>0, <2>2, <3>1 DEF App!Clear, ResetIsClean, Runs
    <3>4. QED
      BY <3>1, <3>2, <3>3 DEF Forgetting
  <2>3. CASE App!RemoveRoot(r)
    <3>1. to = "workspace" /\ at[r] = "remove" /\ UNCHANGED <<snapshot, dirtied, live>>
      BY <1>0, <1>1, <1>4, <2>3 DEF App!RemoveRoot, App!Step, App!history, AppType
    <3>2. \/ faults' = faults /\ \A f \in App!StateRoot: disk'[f] = "none"
          \/ faults' # 0
      BY <1>0, <2>3 DEF App!RemoveRoot, App!Fault, App!StateRoot, App!File, AppType
    <3>3. faults' = 0 => ~live
      BY <1>0, <3>1, <3>2 DEF ResetIsClean, Runs
    <3>4. ~dirtied => \A f \in App!File: snapshot[f] # "mine"
      BY <1>0, <3>1 DEF ResetIsClean
    <3>5. QED
      BY <3>1, <3>2, <3>3, <3>4
  <2>4. QED
    BY <2>1, <2>2, <2>3
<1>12. ResetIsClean'
  <2> SUFFICES ASSUME NEW s \in AnyReset
               PROVE  /\ faults' = 0 /\ Runs(s)' => ~live'
                      /\ at'[s] \in Forgetting \union {"remove"} /\ ~dirtied' => \A f \in App!File: snapshot'[f] # "mine"
                      /\ at'[s] \in Forgetting /\ faults' = 0 => \A f \in App!StateRoot: disk'[f] # "mine"
    BY DEF ResetIsClean
  <2>1. CASE s = r
    BY <1>4, <1>11, <2>1
  <2>2. CASE s # r
    BY <1>8, <1>10, <2>2
  <2>3. QED
    BY <2>1, <2>2
<1>13. QED
  BY <1>5, <1>6, <1>9, <1>12 DEF AppInv

\* Every step of the application keeps the invariant.
LEMMA AppStep == AppInv /\ App!Next => AppInv'
<1> SUFFICES ASSUME AppInv, App!Next PROVE AppInv'
  OBVIOUS
<1>1. CASE \E r \in App!Run: App!Steps(r)
  BY <1>1, StepsKeep
<1>2. CASE \E r \in AnyReset: App!ResetHost(r) \/ App!Clear(r) \/ App!RemoveRoot(r)
  BY <1>2, ResetKeeps
<1>3. QED
  BY <1>1, <1>2, StartStepsKeep, PageKeeps DEF App!Next

\* A step of another part changes nothing here.
LEMMA AppStay == AppInv /\ UNCHANGED appVars => AppInv'
BY DEF AppInv, AppType, ResetsFollowStart, WorkIsBack, OneReset, ResetIsClean, Runs, appVars

\* A step is one of the application or leaves its variables alone.
LEMMA AppInFocus == [Next]_allVars => App!Next \/ UNCHANGED appVars
BY DEF Next, Still, allVars

\* The step that ends a start changes no file.
LEMMA EndReturns ==
    ASSUME AppInv, App!Next, at["start"] # "ended", at'["start"] = "ended", restored, NEW f \in App!File, snapshot[f] = "mine"
    PROVE  disk'[f] = "mine"
<1>0. AppType /\ ResetsFollowStart /\ WorkIsBack /\ "start" \in App!Run /\ "start" \notin AnyReset
  BY BoundsAssumption DEF AppInv, App!Run
<1>1. CASE App!Attach
  <2>1. at["start"] = "tests" /\ UNCHANGED disk
    BY <1>1 DEF App!Attach, App!Step
  <2>2. QED
    BY <1>0, <2>1 DEF WorkIsBack, Returning
<1>2. ASSUME NEW r \in App!Run, App!Steps(r) PROVE FALSE
  <2>1. StepMoves(r)
    BY <1>0, <1>2, StepsMove
  <2>2. r = "start"
    BY <1>0, <2>1 DEF StepMoves, AppType
  <2>3. QED
    BY <1>0, <2>1, <2>2 DEF StepMoves, AppType, Returning
<1>3. ASSUME NEW r \in AnyReset, App!ResetHost(r) \/ App!Clear(r) \/ App!RemoveRoot(r) PROVE FALSE
  <2>1. PICK to : at' = [at EXCEPT ![r] = to]
    BY <1>3 DEF App!ResetHost, App!Clear, App!RemoveRoot, App!Step
  <2>2. QED
    BY <1>0, <2>1 DEF AppType
<1>4. CASE App!Start \/ App!Container \/ App!Restore \/ App!RestoreAgain \/ App!OpenSession
  <2>1. PICK to \in {"container", "refused", "instance", "failed", "workspace", "attach", "tests"} :
           at' = [at EXCEPT !["start"] = to]
    BY <1>4 DEF App!Start, App!Container, App!Restore, App!RestoreAgain, App!OpenSession, App!Step
  <2>2. QED
    BY <1>0, <2>1 DEF AppType
<1>5. CASE App!Save \/ App!Stop \/ \E g \in App!File: App!Write(g)
  BY <1>5 DEF App!Save, App!Stop, App!Write
<1>6. CASE App!Reload
  BY <1>0, <1>6 DEF App!Reload
<1>7. QED
  BY <1>1, <1>2, <1>3, <1>4, <1>5, <1>6 DEF App!Next

\* The step that ends a reset changes no file and no snapshot.
LEMMA EndForgets ==
    ASSUME AppInv, App!Next, NEW r \in AnyReset, at[r] # "ended", at'[r] = "ended", faults = 0, ~dirtied,
           NEW f \in App!StateRoot
    PROVE  disk'[f] # "mine" /\ snapshot'[f] # "mine"
<1>0. /\ AppType /\ ResetsFollowStart /\ ResetIsClean /\ r # "start" /\ r \in App!Run /\ "start" \in App!Run
      /\ f \in App!File
  BY BoundsAssumption DEF AppInv, App!Run, App!StateRoot, App!File
<1>1. ASSUME NEW s \in App!Run, App!Steps(s) PROVE disk'[f] # "mine" /\ snapshot'[f] # "mine"
  <2>1. StepMoves(s)
    BY <1>0, <1>1, StepsMove
  <2>2. s = r
    BY <1>0, <2>1 DEF StepMoves, AppType
  <2>3. at[r] = "session"
    BY <1>0, <2>1, <2>2 DEF StepMoves, Forgetting
  <2>4. disk[f] # "mine" /\ snapshot[f] # "mine"
    BY <1>0, <2>3 DEF ResetIsClean, Forgetting
  <2>5. QED
    BY <1>0, <2>1, <2>4 DEF StepMoves
<1>2. ASSUME NEW s \in AnyReset, App!ResetHost(s) \/ App!Clear(s) \/ App!RemoveRoot(s) PROVE FALSE
  <2>1. PICK to \in {"clear", "remove", "workspace"} : at' = [at EXCEPT ![s] = to]
    BY <1>2 DEF App!ResetHost, App!Clear, App!RemoveRoot, App!Step
  <2>2. QED
    BY <1>0, <2>1 DEF AppType
<1>3. CASE App!Start \/ App!Container \/ App!Restore \/ App!RestoreAgain \/ App!OpenSession \/ App!Attach
  <2>1. PICK to : at' = [at EXCEPT !["start"] = to]
    BY <1>3 DEF App!Start, App!Container, App!Restore, App!RestoreAgain, App!OpenSession, App!Attach, App!Step
  <2>2. QED
    BY <1>0, <2>1 DEF AppType
<1>4. CASE App!Save \/ App!Stop \/ \E g \in App!File: App!Write(g)
  BY <1>4 DEF App!Save, App!Stop, App!Write
<1>5. CASE App!Reload
  BY <1>0, <1>5 DEF App!Reload
<1>6. QED
  BY <1>1, <1>2, <1>3, <1>4, <1>5 DEF App!Next

\* A start brings back what the snapshot holds, a reset brings back nothing, and the host that a boot returns is the only
\* one, at the end of as many steps as it announced (container.ts:92, instance/index.ts:258, boot-steps.ts:201).
THEOREM BootIsKept == Spec => BootKept
<1>1. Init => AppInv /\ SdkInv
  BY AppStart, SdkStart DEF Init
<1>2. AppInv /\ [Next]_allVars => AppInv'
  BY AppStep, AppStay, AppInFocus
<1>3. SdkInv /\ [Next]_allVars => SdkInv'
  BY SdkStep, SdkStay, SdkInFocus
<1>4. SdkInv => Boot!ReturnedHostIsTheOnlyOne /\ Boot!StepsAddUp
  BY DEF SdkInv, BootType, ProcessesAreOld, StepsAhead, Boot!ReturnedHostIsTheOnlyOne, Boot!StepsAddUp
<1>5. AppInv /\ [Next]_allVars =>
          [at["start"] # "ended" /\ at'["start"] = "ended" /\ restored =>
             \A f \in App!File: snapshot[f] = "mine" => disk'[f] = "mine"]_(App!bootVars)
  BY EndReturns, AppInFocus DEF appVars, App!bootVars
<1>6. AppInv /\ [Next]_allVars =>
          [\A r \in AnyReset: at[r] # "ended" /\ at'[r] = "ended" /\ faults = 0 /\ ~dirtied =>
             \A f \in App!StateRoot: disk'[f] # "mine" /\ snapshot'[f] # "mine"]_(App!bootVars)
  BY EndForgets, AppInFocus DEF appVars, App!bootVars
<1>7. QED
  BY <1>1, <1>2, <1>3, <1>4, <1>5, <1>6, PTL DEF Spec, BootKept, App!WorkReturns, App!ResetForgets
===============================================================================
