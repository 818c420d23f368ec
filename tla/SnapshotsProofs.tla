---------------------------- MODULE SnapshotsProofs ----------------------------
(***************************************************************************)
(* What the pointer names can be restored, and comes of no save that a     *)
(* clear has erased, for any number of files, chunks and saves, wherever   *)
(* the page dies, as long as two clears do not overlap; and what programs  *)
(* write is not forgotten before a completed save covers it.               *)
(***************************************************************************)
EXTENDS Snapshots, TLAPS

\* The callers clear one at a time; with two clears at once it does not hold.
Clearing(c) == wipe[c].pc \in {"wait", "read", "delete"}

OneClearAtATime == \A c, d \in Clears : Clearing(c) /\ Clearing(d) => c = d

-------------------------------------------------------------------------------
(* Shapes.  A job is idle or has all the fields of a save; the marks of the *)
(* context and the clears are the ones the code knows.                     *)

JobFields == {"pc", "owner", "forced", "sig", "inventory", "data", "old", "gen", "at",
              "upTo", "begun", "erased"}

JobShape ==
    \/ job = Idle
    \/ /\ DOMAIN job = JobFields
       /\ job.pc \in {"collect", "list", "export", "pointer", "chunks", "manifest",
                      "verify", "commit"}
       /\ job.pc \in {"collect", "list", "export", "pointer"} => job.at = 1

CtxFields == {"dirty", "status", "cleared", "known", "sig"}
CtxShape  == DOMAIN ctx = CtxFields

WipePc    == {"none", "wait", "read", "delete", "done", "failed", "dead"}
WipeShape == wipe \in [Clears -> [pc : WipePc, todo : SUBSET Nat]]

PointerShape == pointer \in [current : Nat, lastKnownGood : Nat]

Shape == JobShape /\ CtxShape /\ WipeShape /\ PointerShape

-------------------------------------------------------------------------------
(* The invariant.  A clear keeps new saves out and waits for the old one, so *)
(* no save writes while it deletes; a save writes a generation newer than   *)
(* both the pointer names, and has all of it in the store before it commits. *)

Early == job.pc \in {"idle", "collect", "list"}

ClearInv ==
    \A c \in Clears :
        /\ Clearing(c) => ctx.cleared
        /\ wipe[c].pc \in {"read", "delete"} => Early

Stored(i) == \E e \in chunks : e.gen = job.gen /\ e.at = i /\ e.data = job.data

FreshInv ==
    job.pc \in {"chunks", "manifest", "verify", "commit"} =>
        /\ job.old = pointer
        /\ job.gen \in Nat /\ job.gen > pointer.current /\ job.gen > pointer.lastKnownGood

StoredInv ==
    /\ job.pc = "chunks" => job.at \in 1..Chunks /\ \A i \in 1..(job.at - 1) : Stored(i)
    /\ job.pc \in {"manifest", "verify", "commit"} => \A i \in 1..Chunks : Stored(i)
    /\ job.pc \in {"verify", "commit"} =>
         \E m \in manifests : m.gen = job.gen /\ m.data = job.data

SaveInv == Shape /\ ClearInv /\ FreshInv /\ StoredInv /\ ActiveIsWhole

LEMMA SaveInit == Init => SaveInv
<1> SUFFICES ASSUME Init PROVE SaveInv
  OBVIOUS
<1>1. Shape
  BY DEF Init, Shape, JobShape, CtxShape, CtxFields, NewCtx, WipeShape, WipePc,
     PointerShape, NoGen
<1> QED
  BY <1>1 DEF Init, SaveInv, ClearInv, Clearing, FreshInv, StoredInv, ActiveIsWhole,
     NoGen, Idle

\* What the store holds of other generations stays when an entry is put.
LEMMA PutKeepsOthers ==
    ASSUME NEW set, NEW entry, NEW e \in set, e.gen # entry.gen
    PROVE  e \in Put(set, entry)
BY DEF Put

LEMMA PutKeepsChunks ==
    ASSUME NEW set, NEW entry, NEW e \in set, e.at # entry.at
    PROVE  e \in Put(set, entry)
BY DEF Put

\* When a save settles, another begins at its first step, or none does.
LEMMA SettlesEarly ==
    ASSUME Shape, NEW ok, NEW settled, Settles(ok, settled),
           DOMAIN settled = CtxFields, settled.cleared = ctx.cleared
    PROVE  /\ JobShape' /\ job'.pc \in {"idle", "collect"}
           /\ CtxShape' /\ ctx'.cleared = ctx.cleared
           /\ WipeShape'
           /\ \A c \in Clears : (Clearing(c))' => Clearing(c)
<1> DEFINE mine  == job.owner = "auto" \/ (~ok /\ \E i \in DOMAIN chained : chained[i] = "auto")
           again == mine /\ auto.dirty /\ auto.state = "on" /\ auto.waiting
           queue == (IF ok THEN chained ELSE <<>>) \o (IF again THEN <<"auto">> ELSE <<>>)
<1>2. \/ job' = Idle /\ ctx' = settled
      \/ job' = NewJob(Head(queue), TRUE) /\ ctx' = [settled EXCEPT !.status = "saving"]
  BY DEF Settles
<1> HIDE DEF queue
<1>3. JobShape' /\ job'.pc \in {"idle", "collect"}
  BY <1>2 DEF JobShape, JobFields, NewJob, Idle
<1>4. CtxShape' /\ ctx'.cleared = ctx.cleared
  BY <1>2 DEF CtxShape, CtxFields
<1>5. wipe' = [c \in Clears |-> IF wipe[c].pc = "wait" THEN [wipe[c] EXCEPT !.pc = "read"] ELSE wipe[c]]
  BY DEF Settles
<1>6. WipeShape'
  BY <1>5 DEF Shape, WipeShape, WipePc
<1>7. \A c \in Clears : (Clearing(c))' => Clearing(c)
  BY <1>5 DEF Shape, WipeShape, Clearing
<1> QED
  BY <1>3, <1>4, <1>6, <1>7

\* A job at one of its first steps has nothing in the store to answer for.
LEMMA EarlyIsSafe ==
    ASSUME job'.pc \in {"idle", "collect", "list", "export", "pointer"}
    PROVE  FreshInv' /\ StoredInv'
BY DEF FreshInv, StoredInv

\* A step that leaves the store, the pointer and the job alone.
LEMMA StoreUntouched ==
    ASSUME UNCHANGED <<chunks, manifests, pointer, job, halfWiped>>,
           FreshInv, StoredInv, ActiveIsWhole
    PROVE  FreshInv' /\ StoredInv' /\ ActiveIsWhole'
BY DEF FreshInv, StoredInv, Stored, ActiveIsWhole, Whole

\* Some save or none begins; the store is left alone.
BeginsSave ==
    /\ UNCHANGED <<idb, wipe, hist>>
    /\ \/ UNCHANGED <<job, ctx>>
       \/ /\ job = Idle /\ \E owner, forced : job' = NewJob(owner, forced)
          /\ ctx' = [ctx EXCEPT !.status = "saving"]

LEMMA BeginsSaveKeeps == SaveInv /\ BeginsSave => SaveInv'
<1> SUFFICES ASSUME SaveInv, BeginsSave PROVE SaveInv'
  OBVIOUS
<1> USE DEF BeginsSave, idb, hist
<1>1. CASE UNCHANGED <<job, ctx>>
  <2>1. FreshInv' /\ StoredInv' /\ ActiveIsWhole'
    BY <1>1, StoreUntouched DEF SaveInv
  <2>2. Shape' /\ ClearInv'
    BY <1>1 DEF SaveInv, Shape, JobShape, CtxShape, WipeShape, PointerShape, ClearInv,
       Clearing, Early
  <2> QED
    BY <2>1, <2>2 DEF SaveInv
<1>2. ASSUME NEW owner, NEW forced, job = Idle, job' = NewJob(owner, forced),
             ctx' = [ctx EXCEPT !.status = "saving"]
      PROVE  SaveInv'
  <2>1. JobShape' /\ job'.pc = "collect"
    BY <1>2 DEF JobShape, JobFields, NewJob
  <2>2. CtxShape' /\ ctx'.cleared = ctx.cleared
    BY <1>2 DEF SaveInv, Shape, CtxShape, CtxFields
  <2>3. Shape'
    BY <2>1, <2>2 DEF SaveInv, Shape, WipeShape, PointerShape
  <2>4. ClearInv'
    BY <2>1, <2>2 DEF SaveInv, ClearInv, Clearing, Early
  <2>5. FreshInv' /\ StoredInv'
    BY <2>1, EarlyIsSafe
  <2>6. ActiveIsWhole'
    BY DEF SaveInv, ActiveIsWhole, Whole
  <2> QED
    BY <2>3, <2>4, <2>5, <2>6 DEF SaveInv
<1> QED
  BY <1>1, <1>2

\* A save settles without a commit.
LEMMA SettlesKeeps ==
    ASSUME SaveInv, NEW ok, NEW settled, Settles(ok, settled),
           DOMAIN settled = CtxFields, settled.cleared = ctx.cleared,
           UNCHANGED <<idb, halfWiped>>
    PROVE  SaveInv'
<1>1. /\ JobShape' /\ job'.pc \in {"idle", "collect"}
      /\ CtxShape' /\ ctx'.cleared = ctx.cleared
      /\ WipeShape' /\ \A c \in Clears : (Clearing(c))' => Clearing(c)
  BY SettlesEarly DEF SaveInv
<1>2. Shape' /\ ClearInv'
  BY <1>1 DEF SaveInv, Shape, PointerShape, ClearInv, Early, idb
<1>3. FreshInv' /\ StoredInv' /\ ActiveIsWhole'
  BY <1>1, EarlyIsSafe DEF SaveInv, ActiveIsWhole, Whole, idb
<1> QED
  BY <1>2, <1>3 DEF SaveInv

\* What the settled context may be: a status aside, the clears' flag stays.
LEMMA StatusKeepsShape ==
    ASSUME CtxShape, NEW status
    PROVE  /\ DOMAIN [ctx EXCEPT !.status = status] = CtxFields
           /\ [ctx EXCEPT !.status = status].cleared = ctx.cleared
BY DEF CtxShape, CtxFields

\* A job goes on, at a step that no clear shares.
LEMMA JobGoesOn ==
    ASSUME SaveInv, JobShape', UNCHANGED <<ctx, wipe, pointer, halfWiped>>,
           \/ Early /\ job'.pc \in {"collect", "list"}
           \/ Early /\ ~ctx.cleared
           \/ ~Early
    PROVE  Shape' /\ ClearInv'
<1>1. Shape'
  BY DEF SaveInv, Shape, CtxShape, WipeShape, PointerShape
<1>2. ClearInv'
  BY DEF SaveInv, ClearInv, Clearing, Early
<1> QED
  BY <1>1, <1>2

\* Collecting, listing and exporting.
LEMMA FirstSteps == SaveInv /\ (Collect \/ List \/ Export) => SaveInv'
<1> SUFFICES ASSUME SaveInv, Collect \/ List \/ Export PROVE SaveInv'
  OBVIOUS
<1> USE DEF idb, hist
<1>1. CASE Collect
  <2>1. /\ job' = [job EXCEPT !.pc = "list", !.sig = Present(fs)] /\ job.pc = "collect"
        /\ UNCHANGED <<ctx, wipe, chunks, manifests, pointer, halfWiped>>
    BY <1>1 DEF Collect
  <2>2. JobShape' /\ job'.pc = "list"
    BY <2>1 DEF SaveInv, Shape, JobShape, JobFields, Idle
  <2>3. Shape' /\ ClearInv' /\ FreshInv' /\ StoredInv'
    BY <2>1, <2>2, JobGoesOn, EarlyIsSafe DEF Early
  <2> QED
    BY <2>1, <2>3 DEF SaveInv, ActiveIsWhole, Whole
<1>2. CASE List /\ ~(Skips \/ ctx.cleared)
  <2>1. /\ job' = [job EXCEPT !.pc = "export", !.inventory = Present(fs)]
        /\ job.pc = "list" /\ ~ctx.cleared
        /\ UNCHANGED <<ctx, wipe, chunks, manifests, pointer, halfWiped>>
    BY <1>2 DEF List
  <2>2. JobShape' /\ job'.pc = "export"
    BY <2>1 DEF SaveInv, Shape, JobShape, JobFields, Idle
  <2>3. Shape' /\ ClearInv' /\ FreshInv' /\ StoredInv'
    BY <2>1, <2>2, JobGoesOn, EarlyIsSafe DEF Early
  <2> QED
    BY <2>1, <2>3 DEF SaveInv, ActiveIsWhole, Whole
<1>3. CASE List /\ (Skips \/ ctx.cleared)
  <2> DEFINE settled == IF Skips THEN [ctx EXCEPT !.status = "clean"] ELSE ctx
  <2>1. Settles(TRUE, settled) /\ UNCHANGED <<idb, halfWiped>>
    BY <1>3 DEF List
  <2>2. DOMAIN settled = CtxFields /\ settled.cleared = ctx.cleared
    BY StatusKeepsShape DEF SaveInv, Shape, CtxShape
  <2> HIDE DEF settled
  <2> QED
    BY <2>1, <2>2, SettlesKeeps
<1>4. CASE Export
  <2>1. /\ job' = [job EXCEPT !.pc = "pointer", !.data = fs, !.upTo = used.writes]
        /\ job.pc = "export"
        /\ UNCHANGED <<ctx, wipe, chunks, manifests, pointer, halfWiped>>
    BY <1>4 DEF Export
  <2>2. JobShape' /\ job'.pc = "pointer"
    BY <2>1 DEF SaveInv, Shape, JobShape, JobFields, Idle
  <2>3. Shape' /\ ClearInv' /\ FreshInv' /\ StoredInv'
    BY <2>1, <2>2, JobGoesOn, EarlyIsSafe DEF Early
  <2> QED
    BY <2>1, <2>3 DEF SaveInv, ActiveIsWhole, Whole
<1> QED
  BY <1>1, <1>2, <1>3, <1>4

\* Steps of programs, of the watcher, of the controller and of a restore.
Quiet ==
    /\ UNCHANGED <<idb, job, wipe, erasedUpTo, halfWiped>>
    /\ \/ UNCHANGED ctx
       \/ /\ DOMAIN ctx' = DOMAIN ctx
          /\ ctx'.cleared = ctx.cleared

LEMMA QuietKeeps == SaveInv /\ Quiet => SaveInv'
<1> SUFFICES ASSUME SaveInv, Quiet PROVE SaveInv'
  OBVIOUS
<1>1. FreshInv' /\ StoredInv' /\ ActiveIsWhole'
  BY StoreUntouched DEF SaveInv, Quiet, idb
<1>2. Shape'
  BY DEF SaveInv, Quiet, idb, Shape, JobShape, CtxShape, WipeShape, PointerShape
<1>3. ClearInv'
  BY DEF SaveInv, Quiet, ClearInv, Clearing, Early
<1> QED
  BY <1>1, <1>2, <1>3 DEF SaveInv

LEMMA LoadsAreQuiet ==
    ASSUME Shape, NEW context, Loaded(context),
           DOMAIN context = DOMAIN ctx, context.cleared = ctx.cleared
    PROVE  DOMAIN ctx' = DOMAIN ctx /\ ctx'.cleared = ctx.cleared
BY DEF Loaded

LEMMA NextCandidateIsQuiet ==
    ASSUME Shape, NEW status, NextCandidate(status)
    PROVE  UNCHANGED ctx \/ (DOMAIN ctx' = DOMAIN ctx /\ ctx'.cleared = ctx.cleared)
BY DEF NextCandidate, Loaded, Shape, CtxShape, CtxFields

LEMMA OtherStepsAreQuiet ==
    ASSUME SaveInv,
           \/ Write \/ MarkDirty \/ Stop \/ LoadStarts \/ LoadReads \/ LoadChecks
           \/ LoadMounts \/ LoadPrunes \/ LoadFails
    PROVE  Quiet
<1> USE DEF idb, hist
<1>1. CASE Write \/ Stop \/ LoadStarts \/ LoadMounts
  BY <1>1 DEF Quiet, Write, Stop, LoadStarts, LoadMounts
<1>2. CASE MarkDirty
  BY <1>2 DEF Quiet, MarkDirty, SaveInv, Shape, CtxShape, CtxFields
<1>3. CASE LoadReads
  BY <1>3 DEF Quiet, LoadReads, Loaded, SaveInv, Shape, CtxShape, CtxFields
<1>4. CASE LoadChecks
  <2>1. UNCHANGED ctx \/ (DOMAIN ctx' = DOMAIN ctx /\ ctx'.cleared = ctx.cleared)
    BY <1>4, NextCandidateIsQuiet DEF LoadChecks, SaveInv
  <2> QED
    BY <1>4, <2>1 DEF Quiet, LoadChecks
<1>5. CASE LoadPrunes
  BY <1>5 DEF Quiet, LoadPrunes, Loaded, SaveInv, Shape, CtxShape, CtxFields
<1>6. CASE LoadFails
  <2>1. UNCHANGED ctx \/ (DOMAIN ctx' = DOMAIN ctx /\ ctx'.cleared = ctx.cleared)
    BY <1>6, NextCandidateIsQuiet DEF LoadFails, SaveInv
  <2> QED
    BY <1>6, <2>1 DEF Quiet, LoadFails
<1> QED
  BY <1>1, <1>2, <1>3, <1>4, <1>5, <1>6

\* A command, a timer or the page asks for a save: one begins, or it is chained.
LEMMA AskersBeginSaves ==
    ASSUME UserSave \/ PageHides \/ Timers
    PROVE  BeginsSave
<1> USE DEF idb, hist
<1>1. CASE UserSave
  <2>1. CASE Save("user")
    BY <1>1, <2>1 DEF UserSave, Save, BeginsSave
  <2>2. CASE ~Save("user")
    BY <1>1, <2>2 DEF UserSave, BeginsSave
  <2> QED
    BY <2>1, <2>2
<1>2. ASSUME NEW a, Flush(a), UNCHANGED <<idb, wipe, hist>> PROVE BeginsSave
  BY <1>2 DEF Flush, Save, BeginsSave
<1> QED
  BY <1>1, <1>2 DEF PageHides, Timers, DebounceFires, MaxAgeFires

\* A step of the save fails.
LEMMA FailureKeeps ==
    ASSUME SaveInv, NEW status, SaveFails(status)
    PROVE  SaveInv'
<1> DEFINE settled == [ctx EXCEPT !.status = status]
<1>1. Settles(FALSE, settled) /\ UNCHANGED <<idb, halfWiped>>
  BY DEF SaveFails
<1>2. DOMAIN settled = CtxFields /\ settled.cleared = ctx.cleared
  BY StatusKeepsShape DEF SaveInv, Shape
<1> HIDE DEF settled
<1> QED
  BY <1>1, <1>2, SettlesKeeps

-------------------------------------------------------------------------------
(* The steps of a save in the store.                                       *)

\* A new generation is none of those the pointer names, so what is put under *)
\* it leaves them whole.
LEMMA PutKeepsWhole ==
    ASSUME SaveInv, job.pc \in {"chunks", "manifest"}, UNCHANGED <<pointer, halfWiped>>,
           NEW c, c.gen = job.gen, NEW m, m.gen = job.gen,
           chunks' \in {chunks, Put(chunks, c)}, manifests' \in {manifests, Put(manifests, m)}
    PROVE  ActiveIsWhole'
<1> SUFFICES ASSUME ~halfWiped, NEW g \in {pointer.current, pointer.lastKnownGood} \ {NoGen}
             PROVE  Whole(g)'
  BY DEF ActiveIsWhole
<1>1. Whole(g) /\ g # job.gen
  BY DEF SaveInv, ActiveIsWhole, FreshInv, Shape, PointerShape
<1>2. PICK k \in manifests :
        /\ k.gen = g
        /\ \A i \in 1..Chunks : \E e \in chunks : e.gen = g /\ e.at = i /\ e.data = k.data
  BY <1>1 DEF Whole
<1>3. k \in manifests'
  BY <1>1, <1>2, PutKeepsOthers
<1>4. ASSUME NEW i \in 1..Chunks PROVE \E e \in chunks' : e.gen = g /\ e.at = i /\ e.data = k.data
  <2>1. PICK e \in chunks : e.gen = g /\ e.at = i /\ e.data = k.data
    BY <1>2
  <2>2. e \in chunks'
    BY <1>1, <2>1, PutKeepsOthers
  <2> QED
    BY <2>1, <2>2
<1> QED
  BY <1>2, <1>3, <1>4 DEF Whole

LEMMA ReadPointerKeeps == SaveInv /\ ReadPointer => SaveInv'
<1> SUFFICES ASSUME SaveInv, ReadPointer PROVE SaveInv'
  OBVIOUS
<1>1. CASE OverQuota
  BY <1>1, FailureKeeps DEF ReadPointer
<1>2. CASE ~OverQuota
  <2> DEFINE gen == Max(pointer.current, pointer.lastKnownGood) + 1
  <2>1. /\ job' = [job EXCEPT !.pc = "chunks", !.old = pointer, !.gen = gen] /\ job.pc = "pointer"
        /\ UNCHANGED <<ctx, wipe, chunks, manifests, pointer, halfWiped>>
    BY <1>2 DEF ReadPointer, idb, hist
  <2>2. gen \in Nat /\ gen > pointer.current /\ gen > pointer.lastKnownGood
    BY DEF SaveInv, Shape, PointerShape, Max
  <2> HIDE DEF gen
  <2>3. /\ JobShape' /\ job'.pc = "chunks" /\ job'.old = pointer /\ job'.gen = gen
        /\ job'.at = 1
    BY <2>1 DEF SaveInv, Shape, JobShape, JobFields, Idle
  <2>4. Shape' /\ ClearInv'
    BY <2>1, <2>3, JobGoesOn DEF Early
  <2>5. FreshInv'
    BY <2>1, <2>2, <2>3 DEF FreshInv
  <2>6. StoredInv'
    BY <2>3, SnapshotsAssumption DEF StoredInv
  <2>7. ActiveIsWhole'
    BY <2>1 DEF SaveInv, ActiveIsWhole, Whole
  <2> QED
    BY <2>4, <2>5, <2>6, <2>7 DEF SaveInv
<1> QED
  BY <1>1, <1>2

LEMMA PutChunkKeeps == SaveInv /\ PutChunk => SaveInv'
<1> SUFFICES ASSUME SaveInv, PutChunk PROVE SaveInv'
  OBVIOUS
<1> DEFINE c == [gen |-> job.gen, at |-> job.at, data |-> job.data]
<1>1. /\ job.pc = "chunks" /\ chunks' = Put(chunks, c)
      /\ job' = IF job.at = Chunks THEN [job EXCEPT !.pc = "manifest"]
                ELSE [job EXCEPT !.at = job.at + 1]
      /\ UNCHANGED <<ctx, wipe, manifests, pointer, halfWiped>>
  BY DEF PutChunk, hist
<1>2. job.at \in 1..Chunks /\ \A i \in 1..(job.at - 1) : Stored(i)
  BY <1>1 DEF SaveInv, StoredInv
<1>3. /\ JobShape'
      /\ job'.gen = job.gen /\ job'.old = job.old /\ job'.data = job.data
      /\ \/ job.at = Chunks /\ job'.pc = "manifest"
         \/ job.at # Chunks /\ job'.pc = "chunks" /\ job'.at = job.at + 1
  BY <1>1 DEF SaveInv, Shape, JobShape, JobFields, Idle
<1>4. Shape' /\ ClearInv'
  BY <1>1, <1>3, JobGoesOn DEF Early
<1>5. FreshInv'
  BY <1>1, <1>3 DEF SaveInv, FreshInv
<1>6. ASSUME NEW i \in 1..job.at PROVE Stored(i)'
  <2>1. CASE i = job.at
    <3>1. c \in chunks' /\ c.gen = job.gen /\ c.at = i /\ c.data = job.data
      BY <1>1, <2>1 DEF Put
    <3> QED
      BY <1>3, <3>1 DEF Stored
  <2>2. CASE i # job.at
    <3>1. i \in 1..(job.at - 1)
      BY <1>2, <2>2
    <3>2. PICK e \in chunks : e.gen = job.gen /\ e.at = i /\ e.data = job.data
      BY <1>2, <3>1 DEF Stored
    <3>3. e \in chunks'
      BY <1>1, <2>2, <3>2, PutKeepsChunks
    <3> QED
      BY <1>3, <3>2, <3>3 DEF Stored
  <2> QED
    BY <2>1, <2>2
<1>7. StoredInv'
  BY <1>2, <1>3, <1>6, SnapshotsAssumption DEF StoredInv
<1>8. ActiveIsWhole'
  BY <1>1, PutKeepsWhole
<1> QED
  BY <1>4, <1>5, <1>7, <1>8 DEF SaveInv

LEMMA PutManifestKeeps == SaveInv /\ PutManifest => SaveInv'
<1> SUFFICES ASSUME SaveInv, PutManifest PROVE SaveInv'
  OBVIOUS
<1> DEFINE m == [gen |-> job.gen, at |-> 0, data |-> job.data, inventory |-> job.inventory,
                 begun |-> job.begun, erased |-> job.erased]
<1>1. /\ job.pc = "manifest" /\ manifests' = Put(manifests, m)
      /\ job' = [job EXCEPT !.pc = "verify"]
      /\ UNCHANGED <<ctx, wipe, chunks, pointer, halfWiped>>
  BY DEF PutManifest, hist
<1>2. /\ JobShape' /\ job'.pc = "verify"
      /\ job'.gen = job.gen /\ job'.old = job.old /\ job'.data = job.data
  BY <1>1 DEF SaveInv, Shape, JobShape, JobFields, Idle
<1>3. Shape' /\ ClearInv'
  BY <1>1, <1>2, JobGoesOn DEF Early
<1>4. FreshInv'
  BY <1>1, <1>2 DEF SaveInv, FreshInv
<1>5. m \in manifests' /\ m.gen = job.gen /\ m.data = job.data
  BY <1>1 DEF Put
<1>6. StoredInv'
  BY <1>1, <1>2, <1>5 DEF SaveInv, StoredInv, Stored
<1>7. ActiveIsWhole'
  BY <1>1, <1>5, PutKeepsWhole
<1> QED
  BY <1>3, <1>4, <1>6, <1>7 DEF SaveInv

LEMMA VerifyKeeps == SaveInv /\ Verify => SaveInv'
<1> SUFFICES ASSUME SaveInv, Verify PROVE SaveInv'
  OBVIOUS
<1>1. CASE SaveFails("corrupt")
  BY <1>1, FailureKeeps
<1>2. CASE ~SaveFails("corrupt")
  <2>1. /\ job' = [job EXCEPT !.pc = "commit"] /\ job.pc = "verify"
        /\ UNCHANGED <<ctx, wipe, chunks, manifests, pointer, halfWiped>>
    BY <1>2 DEF Verify, idb, hist
  <2>2. /\ JobShape' /\ job'.pc = "commit"
        /\ job'.gen = job.gen /\ job'.old = job.old /\ job'.data = job.data
    BY <2>1 DEF SaveInv, Shape, JobShape, JobFields, Idle
  <2>3. Shape' /\ ClearInv'
    BY <2>1, <2>2, JobGoesOn DEF Early
  <2>4. FreshInv' /\ StoredInv'
    BY <2>1, <2>2 DEF SaveInv, FreshInv, StoredInv, Stored
  <2>5. ActiveIsWhole'
    BY <2>1 DEF SaveInv, ActiveIsWhole, Whole
  <2> QED
    BY <2>3, <2>4, <2>5 DEF SaveInv
<1> QED
  BY <1>1, <1>2

\* The pointer moves to the generation just verified, and keeps the one before.
LEMMA CommitKeeps == SaveInv /\ Commit => SaveInv'
<1> SUFFICES ASSUME SaveInv, Commit PROVE SaveInv'
  OBVIOUS
<1>1. /\ job.pc = "commit" /\ Settles(TRUE, Recorded)
      /\ pointer' = [current |-> job.gen, lastKnownGood |-> job.old.current]
      /\ UNCHANGED <<chunks, manifests, halfWiped>>
  BY DEF Commit
<1>2. job.old = pointer /\ job.gen \in Nat
  BY <1>1 DEF SaveInv, FreshInv
<1>3. DOMAIN Recorded = CtxFields /\ Recorded.cleared = ctx.cleared
  BY DEF Recorded, SaveInv, Shape, CtxShape, CtxFields
<1>4. /\ JobShape' /\ job'.pc \in {"idle", "collect"}
      /\ CtxShape' /\ ctx'.cleared = ctx.cleared
      /\ WipeShape' /\ \A c \in Clears : (Clearing(c))' => Clearing(c)
  BY <1>1, <1>3, SettlesEarly DEF SaveInv
<1>5. PointerShape'
  BY <1>1, <1>2 DEF SaveInv, Shape, PointerShape
<1>6. ClearInv'
  BY <1>4 DEF SaveInv, ClearInv, Early
<1>7. FreshInv' /\ StoredInv'
  BY <1>4, EarlyIsSafe
<1>8. Whole(job.gen)
  BY <1>1 DEF SaveInv, StoredInv, Stored, Whole
<1>9. ActiveIsWhole'
  <2>1. ASSUME ~halfWiped, NEW g \in {job.gen, job.old.current} \ {NoGen} PROVE Whole(g)
    BY <1>2, <1>8, <2>1 DEF SaveInv, ActiveIsWhole
  <2> QED
    BY <1>1, <2>1 DEF ActiveIsWhole, Whole
<1> QED
  BY <1>4, <1>5, <1>6, <1>7, <1>9 DEF SaveInv, Shape

-------------------------------------------------------------------------------
(* The steps of a clear.                                                   *)

ClearStep(c) ==
    ClearStarts(c) \/ ClearReads(c) \/ ClearDeletes(c) \/ ClearEnds(c) \/ ClearFails(c)

\* A step of one clear leaves the others where they are.
LEMMA OneClearMoves ==
    ASSUME Shape, NEW c \in Clears, NEW pc \in WipePc, NEW todo \in SUBSET Nat,
           wipe' = [wipe EXCEPT ![c] = [pc |-> pc, todo |-> todo]]
    PROVE  /\ WipeShape' /\ wipe'[c].pc = pc
           /\ \A d \in Clears \ {c} : wipe'[d] = wipe[d]
BY DEF Shape, WipeShape

LEMMA ClearStartsKeeps ==
    ASSUME SaveInv, NEW c \in Clears, ClearStarts(c)
    PROVE  SaveInv'
<1> DEFINE pc == IF job = Idle THEN "read" ELSE "wait"
<1>1. /\ wipe' = [wipe EXCEPT ![c] = [pc |-> pc, todo |-> {}]]
      /\ ctx' = [ctx EXCEPT !.cleared = TRUE]
      /\ UNCHANGED <<job, chunks, manifests, pointer, halfWiped>>
  BY DEF ClearStarts, idb, hist
<1>2. pc \in WipePc /\ (pc = "read" => job.pc = "idle")
  BY DEF WipePc, Idle
<1> HIDE DEF pc
<1>3. /\ WipeShape' /\ wipe'[c].pc = pc
      /\ \A d \in Clears \ {c} : wipe'[d] = wipe[d]
  BY <1>1, <1>2 DEF SaveInv, Shape, WipeShape
<1>4. CtxShape' /\ ctx'.cleared
  BY <1>1 DEF SaveInv, Shape, CtxShape, CtxFields
<1>5. Shape'
  BY <1>1, <1>3, <1>4 DEF SaveInv, Shape, JobShape, PointerShape
<1>6. pc \in {"read", "wait"}
  BY DEF pc
<1>7. ClearInv'
  BY <1>1, <1>2, <1>3, <1>4, <1>6 DEF SaveInv, ClearInv, Early
<1>8. FreshInv' /\ StoredInv' /\ ActiveIsWhole'
  BY <1>1, StoreUntouched DEF SaveInv
<1> QED
  BY <1>5, <1>7, <1>8 DEF SaveInv

LEMMA ClearReadsKeeps ==
    ASSUME SaveInv, NEW c \in Clears, ClearReads(c)
    PROVE  SaveInv'
<1> DEFINE todo == {pointer.current, pointer.lastKnownGood} \ {NoGen}
<1>1. /\ wipe[c].pc = "read" /\ wipe' = [wipe EXCEPT ![c] = [pc |-> "delete", todo |-> todo]]
      /\ UNCHANGED <<ctx, job, chunks, manifests, pointer, halfWiped>>
  BY DEF ClearReads, idb, hist
<1>2. todo \in SUBSET Nat
  BY DEF SaveInv, Shape, PointerShape
<1> HIDE DEF todo
<1>3. /\ WipeShape' /\ wipe'[c].pc = "delete"
      /\ \A d \in Clears \ {c} : wipe'[d] = wipe[d]
  BY <1>1, <1>2, OneClearMoves DEF SaveInv, WipePc
<1>4. Shape' /\ ClearInv'
  BY <1>1, <1>3 DEF SaveInv, Shape, JobShape, CtxShape, PointerShape, ClearInv, Clearing, Early
<1>5. FreshInv' /\ StoredInv' /\ ActiveIsWhole'
  BY <1>1, StoreUntouched DEF SaveInv
<1> QED
  BY <1>4, <1>5 DEF SaveInv

\* A clear deletes only while no save is writing.
LEMMA ClearDeletesKeeps ==
    ASSUME SaveInv, NEW c \in Clears, ClearDeletes(c)
    PROVE  SaveInv'
<1>1. /\ wipe[c].pc = "delete" /\ halfWiped'
      /\ UNCHANGED <<ctx, job, pointer>>
      /\ \/ UNCHANGED wipe
         \/ \E g : wipe' = [wipe EXCEPT ![c].todo = wipe[c].todo \ {g}]
  BY DEF ClearDeletes
<1>2. /\ WipeShape'
      /\ \A d \in Clears : wipe'[d].pc = wipe[d].pc
  BY <1>1 DEF SaveInv, Shape, WipeShape
<1>3. Shape' /\ ClearInv'
  BY <1>1, <1>2 DEF SaveInv, Shape, JobShape, CtxShape, PointerShape, ClearInv, Clearing, Early
<1>4. job'.pc \in {"idle", "collect", "list"}
  BY <1>1 DEF SaveInv, ClearInv, Early
<1>5. FreshInv' /\ StoredInv' /\ ActiveIsWhole'
  BY <1>1, <1>4, EarlyIsSafe DEF ActiveIsWhole
<1> QED
  BY <1>3, <1>5 DEF SaveInv

\* Its end lets saves in again: no other clear may still need them kept out.
LEMMA ClearEndsKeeps ==
    ASSUME SaveInv, OneClearAtATime, NEW c \in Clears, ClearEnds(c)
    PROVE  SaveInv'
<1>1. /\ wipe[c].pc = "delete" /\ wipe' = [wipe EXCEPT ![c] = [pc |-> "done", todo |-> {}]]
      /\ pointer' = [current |-> NoGen, lastKnownGood |-> NoGen]
      /\ ctx' = [ctx EXCEPT !.known = FALSE, !.sig = {}, !.status = "clean", !.cleared = FALSE]
      /\ UNCHANGED <<job, chunks, manifests>>
  BY DEF ClearEnds
<1>2. /\ WipeShape' /\ wipe'[c].pc = "done"
      /\ \A d \in Clears \ {c} : wipe'[d] = wipe[d]
  BY <1>1 DEF SaveInv, Shape, WipeShape, WipePc
<1>3. \A d \in Clears : ~(Clearing(d))'
  BY <1>1, <1>2 DEF OneClearAtATime, Clearing
<1>4. Shape'
  BY <1>1, <1>2 DEF SaveInv, Shape, JobShape, CtxShape, CtxFields, PointerShape, NoGen
<1>5. ClearInv'
  BY <1>3 DEF ClearInv, Clearing
<1>6. job'.pc \in {"idle", "collect", "list"}
  BY <1>1 DEF SaveInv, ClearInv, Early
<1>7. FreshInv' /\ StoredInv' /\ ActiveIsWhole'
  BY <1>1, <1>6, EarlyIsSafe DEF ActiveIsWhole
<1> QED
  BY <1>4, <1>5, <1>7 DEF SaveInv

LEMMA ClearFailsKeeps ==
    ASSUME SaveInv, OneClearAtATime, NEW c \in Clears, ClearFails(c)
    PROVE  SaveInv'
<1>1. /\ wipe[c].pc \in {"read", "delete"}
      /\ wipe' = [wipe EXCEPT ![c] = [pc |-> "failed", todo |-> {}]]
      /\ ctx' = [ctx EXCEPT !.cleared = FALSE]
      /\ UNCHANGED <<job, chunks, manifests, pointer, halfWiped>>
  BY DEF ClearFails, idb
<1>2. /\ WipeShape' /\ wipe'[c].pc = "failed"
      /\ \A d \in Clears \ {c} : wipe'[d] = wipe[d]
  BY <1>1 DEF SaveInv, Shape, WipeShape, WipePc
<1>3. \A d \in Clears : ~(Clearing(d))'
  BY <1>1, <1>2 DEF OneClearAtATime, Clearing
<1>4. Shape'
  BY <1>1, <1>2 DEF SaveInv, Shape, JobShape, CtxShape, CtxFields, PointerShape
<1>5. ClearInv'
  BY <1>3 DEF ClearInv, Clearing
<1>6. FreshInv' /\ StoredInv' /\ ActiveIsWhole'
  BY <1>1, StoreUntouched DEF SaveInv
<1> QED
  BY <1>4, <1>5, <1>6 DEF SaveInv

\* A reload ends every save and every clear where they are.
LEMMA ReloadKeeps == SaveInv /\ Reload => SaveInv'
<1> SUFFICES ASSUME SaveInv, Reload PROVE SaveInv'
  OBVIOUS
<1>1. /\ ctx' = NewCtx /\ job' = Idle
      /\ wipe' = [c \in Clears |-> IF wipe[c].pc \in {"wait", "read", "delete"}
                                   THEN [pc |-> "dead", todo |-> {}] ELSE wipe[c]]
      /\ UNCHANGED <<chunks, manifests, pointer, halfWiped>>
  BY DEF Reload, idb
<1>2. WipeShape' /\ \A c \in Clears : ~(Clearing(c))'
  BY <1>1 DEF SaveInv, Shape, WipeShape, WipePc, Clearing
<1>3. Shape'
  BY <1>1, <1>2 DEF SaveInv, Shape, JobShape, CtxShape, CtxFields, NewCtx, PointerShape
<1>4. ClearInv'
  BY <1>2 DEF ClearInv, Clearing
<1>5. FreshInv' /\ StoredInv' /\ ActiveIsWhole'
  BY <1>1, EarlyIsSafe DEF Idle, SaveInv, ActiveIsWhole, Whole
<1> QED
  BY <1>3, <1>4, <1>5 DEF SaveInv

-------------------------------------------------------------------------------
LEMMA SaveStep == SaveInv /\ OneClearAtATime /\ [Next]_vars => SaveInv'
<1> SUFFICES ASSUME SaveInv, OneClearAtATime, [Next]_vars PROVE SaveInv'
  OBVIOUS
<1>1. CASE Write \/ MarkDirty \/ Stop \/ LoadStarts \/ LoadSteps \/ LoadFails
  BY <1>1, OtherStepsAreQuiet, QuietKeeps DEF LoadSteps
<1>2. CASE UserSave \/ PageHides \/ Timers
  BY <1>2, AskersBeginSaves, BeginsSaveKeeps
<1>3. CASE SaveSteps
  BY <1>3, FirstSteps, ReadPointerKeeps, PutChunkKeeps, PutManifestKeeps, VerifyKeeps,
     CommitKeeps DEF SaveSteps
<1>4. CASE StoreFails
  BY <1>4, FailureKeeps DEF StoreFails
<1>5. ASSUME NEW c \in Clears, ClearStep(c) PROVE SaveInv'
  BY <1>5, ClearStartsKeeps, ClearReadsKeeps, ClearDeletesKeeps, ClearEndsKeeps,
     ClearFailsKeeps DEF ClearStep
<1>6. CASE Reload
  BY <1>6, ReloadKeeps
<1>7. CASE UNCHANGED vars
  <2>1. Quiet
    BY <1>7 DEF vars, idb, hist, Quiet
  <2> QED
    BY <2>1, QuietKeeps
<1> QED
  BY <1>1, <1>2, <1>3, <1>4, <1>5, <1>6, <1>7 DEF Next, ClearSteps, ClearStep

(* Whatever the page was doing when it died, the generation the pointer names  *)
(* is whole, and so is the one kept behind it, unless a clear had begun to     *)
(* delete them: in every behaviour that clears one at a time                   *)
(* (context.ts:323, binary-v2.ts:222).                                         *)
THEOREM PointerNamesWholeGenerations == Spec /\ []OneClearAtATime => []ActiveIsWhole
<1>1. SaveInv => ActiveIsWhole
  BY DEF SaveInv
<1> QED
  BY SaveInit, SaveStep, <1>1, PTL DEF Spec

-------------------------------------------------------------------------------
(* A save remembers how many clears had begun when it did, and so does the  *)
(* manifest it writes.                                                     *)

\* Clears begin one after the other.
OrderInv ==
    /\ Begun \in 0..MaxClears
    /\ \A c \in Clears : wipe[c].pc # "none" <=> c <= Begun
    /\ erasedUpTo \in Nat /\ erasedUpTo <= Begun

\* A save that runs beside a clear began after it: the clear waited for the others.
BesideInv ==
    job.pc # "idle" =>
        /\ job.begun \in Nat /\ job.begun >= erasedUpTo
        /\ \A c \in Clears : wipe[c].pc \in {"read", "delete"} => job.begun >= c

ManifestsInv ==
    /\ \A m \in manifests : m.at = 0
    /\ \A m, n \in manifests : m.gen = n.gen => m = n

WrittenInv ==
    job.pc \in {"verify", "commit"} =>
        \E m \in manifests : m.gen = job.gen /\ m.begun = job.begun

PointedInv ==
    pointer.current # NoGen /\ ~halfWiped =>
        \E m \in manifests : m.gen = pointer.current /\ m.begun \in Nat /\ m.begun >= erasedUpTo

EraseInv == OrderInv /\ BesideInv /\ ManifestsInv /\ WrittenInv /\ PointedInv

LEMMA NewestIs ==
    ASSUME NEW k \in Nat, NEW S, S = 1..k
    PROVE  (IF S = {} THEN 0 ELSE CHOOSE c \in S : \A d \in S : d <= c) = k
<1>1. CASE k = 0
  BY <1>1
<1>2. CASE k # 0
  <2>1. k \in S /\ \A d \in S : d <= k
    BY <1>2
  <2> DEFINE top == CHOOSE c \in S : \A d \in S : d <= c
  <2>2. top \in S /\ \A d \in S : d <= top
    BY <2>1
  <2>3. top = k
    BY <2>1, <2>2
  <2> QED
    BY <2>1, <2>3
<1> QED
  BY <1>1, <1>2

LEMMA BegunIs ==
    ASSUME NEW k \in 0..MaxClears, \A c \in Clears : wipe[c].pc # "none" <=> c <= k
    PROVE  Begun = k
<1>1. MaxClears \in Nat
  BY SnapshotsAssumption
<1>2. ClearsBegun = 1..k
  BY <1>1 DEF ClearsBegun, Clears
<1> QED
  BY <1>1, <1>2, NewestIs DEF Begun

\* A step that begins no clear.
LEMMA SameClearsBegun ==
    ASSUME OrderInv, \A c \in Clears : (wipe[c].pc # "none")' <=> wipe[c].pc # "none"
    PROVE  Begun' = Begun
<1>1. ClearsBegun' = ClearsBegun
  BY DEF ClearsBegun
<1> QED
  BY <1>1 DEF Begun

LEMMA EraseInit == Init => EraseInv
<1> SUFFICES ASSUME Init PROVE EraseInv
  OBVIOUS
<1>1. MaxClears \in Nat
  BY SnapshotsAssumption
<1>2. \A c \in Clears : wipe[c].pc = "none"
  BY DEF Init
<1>3. Begun = 0
  BY <1>2 DEF Begun, ClearsBegun
<1>4. OrderInv
  BY <1>1, <1>2, <1>3 DEF OrderInv, Clears, Init
<1> QED
  BY <1>4 DEF Init, EraseInv, BesideInv, ManifestsInv, WrittenInv, PointedInv, Idle, NoGen

\* A save begins: every clear so far has begun before it.
LEMMA NewJobIsLate ==
    ASSUME SaveInv, OrderInv, NEW owner, NEW forced
    PROVE  /\ NewJob(owner, forced).pc = "collect"
           /\ NewJob(owner, forced).begun = Begun
BY DEF NewJob

\* The clears stay as they are, or go on.
LEMMA OrderKeeps ==
    ASSUME OrderInv, UNCHANGED erasedUpTo,
           \A c \in Clears : (wipe[c].pc # "none")' <=> wipe[c].pc # "none"
    PROVE  OrderInv' /\ Begun' = Begun
BY SameClearsBegun DEF OrderInv

\* A save goes on and writes no manifest.
LEMMA SaveGoesOn ==
    ASSUME EraseInv, UNCHANGED <<wipe, manifests, pointer, erasedUpTo, halfWiped>>,
           job.pc # "idle", job'.begun = job.begun, job'.gen = job.gen \/ job'.pc = "chunks",
           job'.pc \in {"verify", "commit"} => job.pc = "verify"
    PROVE  EraseInv'
<1>1. OrderInv'
  BY OrderKeeps DEF EraseInv
<1>2. BesideInv'
  BY DEF EraseInv, BesideInv
<1>3. WrittenInv'
  BY DEF EraseInv, WrittenInv
<1>4. ManifestsInv' /\ PointedInv'
  BY DEF EraseInv, ManifestsInv, PointedInv
<1> QED
  BY <1>1, <1>2, <1>3, <1>4 DEF EraseInv

LEMMA QuietErases == EraseInv /\ Quiet => EraseInv'
<1> SUFFICES ASSUME EraseInv, Quiet PROVE EraseInv'
  OBVIOUS
<1>1. UNCHANGED <<job, wipe, manifests, pointer, erasedUpTo, halfWiped>>
  BY DEF Quiet, idb
<1>2. OrderInv'
  BY <1>1, OrderKeeps DEF EraseInv
<1>3. BesideInv' /\ WrittenInv' /\ ManifestsInv' /\ PointedInv'
  BY <1>1 DEF EraseInv, BesideInv, WrittenInv, ManifestsInv, PointedInv
<1> QED
  BY <1>2, <1>3 DEF EraseInv

LEMMA BeginsSaveErases == SaveInv /\ EraseInv /\ BeginsSave => EraseInv'
<1> SUFFICES ASSUME SaveInv, EraseInv, BeginsSave PROVE EraseInv'
  OBVIOUS
<1> USE DEF BeginsSave, idb, hist
<1>1. CASE UNCHANGED <<job, ctx>>
  BY <1>1, QuietErases DEF Quiet
<1>2. ASSUME NEW owner, NEW forced, job' = NewJob(owner, forced)
      PROVE  EraseInv'
  <2>1. job'.pc = "collect" /\ job'.begun = Begun
    BY <1>2, NewJobIsLate DEF EraseInv
  <2>2. OrderInv'
    BY OrderKeeps DEF EraseInv
  <2>3. BesideInv'
    BY <2>1 DEF EraseInv, OrderInv, BesideInv
  <2>4. WrittenInv' /\ ManifestsInv' /\ PointedInv'
    BY <2>1 DEF EraseInv, WrittenInv, ManifestsInv, PointedInv
  <2> QED
    BY <2>2, <2>3, <2>4 DEF EraseInv
<1> QED
  BY <1>1, <1>2

\* A save settles; the one that starts over begins after the clears that waited.
LEMMA SettlesLate ==
    ASSUME SaveInv, OrderInv, NEW ok, NEW settled, Settles(ok, settled), UNCHANGED erasedUpTo
    PROVE  OrderInv' /\ BesideInv' /\ WrittenInv'
<1> DEFINE mine  == job.owner = "auto" \/ (~ok /\ \E i \in DOMAIN chained : chained[i] = "auto")
           again == mine /\ auto.dirty /\ auto.state = "on" /\ auto.waiting
           queue == (IF ok THEN chained ELSE <<>>) \o (IF again THEN <<"auto">> ELSE <<>>)
<1>1. job' = Idle \/ job' = NewJob(Head(queue), TRUE)
  BY DEF Settles
<1> HIDE DEF queue
<1>2. job'.pc = "idle" \/ (job'.pc = "collect" /\ job'.begun = Begun)
  BY <1>1 DEF Idle, NewJob
<1>3. wipe' = [c \in Clears |-> IF wipe[c].pc = "wait" THEN [wipe[c] EXCEPT !.pc = "read"] ELSE wipe[c]]
  BY DEF Settles
<1>4. \A c \in Clears : (wipe[c].pc # "none")' <=> wipe[c].pc # "none"
  BY <1>3 DEF SaveInv, Shape, WipeShape
<1>5. OrderInv'
  BY <1>4, OrderKeeps
<1>6. BesideInv'
  BY <1>2, <1>4 DEF OrderInv, BesideInv
<1>7. WrittenInv'
  BY <1>2 DEF WrittenInv
<1> QED
  BY <1>5, <1>6, <1>7

LEMMA SettlesErases ==
    ASSUME SaveInv, EraseInv, NEW ok, NEW settled, Settles(ok, settled),
           UNCHANGED <<idb, erasedUpTo, halfWiped>>
    PROVE  EraseInv'
<1>1. OrderInv' /\ BesideInv' /\ WrittenInv'
  BY SettlesLate DEF EraseInv
<1>2. ManifestsInv' /\ PointedInv'
  BY DEF idb, EraseInv, ManifestsInv, PointedInv
<1> QED
  BY <1>1, <1>2 DEF EraseInv

LEMMA FailureErases ==
    ASSUME SaveInv, EraseInv, NEW status, SaveFails(status)
    PROVE  EraseInv'
<1>1. /\ Settles(FALSE, [ctx EXCEPT !.status = status])
      /\ UNCHANGED <<idb, erasedUpTo, halfWiped>>
  BY DEF SaveFails
<1> QED
  BY <1>1, SettlesErases

LEMMA EarlyStepsErase == SaveInv /\ EraseInv /\ (Collect \/ List \/ Export) => EraseInv'
<1> SUFFICES ASSUME SaveInv, EraseInv, Collect \/ List \/ Export PROVE EraseInv'
  OBVIOUS
<1> USE DEF idb, hist
<1>1. CASE Collect
  <2>1. /\ job' = [job EXCEPT !.pc = "list", !.sig = Present(fs)] /\ job.pc = "collect"
        /\ UNCHANGED <<wipe, manifests, pointer, erasedUpTo, halfWiped>>
    BY <1>1 DEF Collect
  <2>2. job'.pc = "list" /\ job'.begun = job.begun /\ job'.gen = job.gen
    BY <2>1 DEF SaveInv, Shape, JobShape, JobFields, Idle
  <2> QED
    BY <2>1, <2>2, SaveGoesOn
<1>2. CASE List /\ ~(Skips \/ ctx.cleared)
  <2>1. /\ job' = [job EXCEPT !.pc = "export", !.inventory = Present(fs)] /\ job.pc = "list"
        /\ UNCHANGED <<wipe, manifests, pointer, erasedUpTo, halfWiped>>
    BY <1>2 DEF List
  <2>2. job'.pc = "export" /\ job'.begun = job.begun /\ job'.gen = job.gen
    BY <2>1 DEF SaveInv, Shape, JobShape, JobFields, Idle
  <2> QED
    BY <2>1, <2>2, SaveGoesOn
<1>3. CASE List /\ (Skips \/ ctx.cleared)
  <2>1. /\ Settles(TRUE, IF Skips THEN [ctx EXCEPT !.status = "clean"] ELSE ctx)
        /\ UNCHANGED <<idb, erasedUpTo, halfWiped>>
    BY <1>3 DEF List
  <2> QED
    BY <2>1, SettlesErases
<1>4. CASE Export
  <2>1. /\ job' = [job EXCEPT !.pc = "pointer", !.data = fs, !.upTo = used.writes] /\ job.pc = "export"
        /\ UNCHANGED <<wipe, manifests, pointer, erasedUpTo, halfWiped>>
    BY <1>4 DEF Export
  <2>2. job'.pc = "pointer" /\ job'.begun = job.begun /\ job'.gen = job.gen
    BY <2>1 DEF SaveInv, Shape, JobShape, JobFields, Idle
  <2> QED
    BY <2>1, <2>2, SaveGoesOn
<1> QED
  BY <1>1, <1>2, <1>3, <1>4

LEMMA StoreStepsErase == SaveInv /\ EraseInv /\ (ReadPointer \/ PutChunk \/ Verify) => EraseInv'
<1> SUFFICES ASSUME SaveInv, EraseInv, ReadPointer \/ PutChunk \/ Verify PROVE EraseInv'
  OBVIOUS
<1> USE DEF idb, hist
<1>1. CASE SaveFails("quota-exceeded") \/ SaveFails("corrupt")
  BY <1>1, FailureErases
<1>2. CASE ReadPointer /\ ~SaveFails("quota-exceeded")
  <2> DEFINE gen == Max(pointer.current, pointer.lastKnownGood) + 1
  <2>1. /\ job' = [job EXCEPT !.pc = "chunks", !.old = pointer, !.gen = gen] /\ job.pc = "pointer"
        /\ UNCHANGED <<wipe, manifests, pointer, erasedUpTo, halfWiped>>
    BY <1>2 DEF ReadPointer
  <2> HIDE DEF gen
  <2>2. job'.pc = "chunks" /\ job'.begun = job.begun
    BY <2>1 DEF SaveInv, Shape, JobShape, JobFields, Idle
  <2> QED
    BY <2>1, <2>2, SaveGoesOn
<1>3. CASE PutChunk
  <2>1. /\ job.pc = "chunks"
        /\ job' = IF job.at = Chunks THEN [job EXCEPT !.pc = "manifest"]
                  ELSE [job EXCEPT !.at = job.at + 1]
        /\ UNCHANGED <<wipe, manifests, pointer, erasedUpTo, halfWiped>>
    BY <1>3 DEF PutChunk
  <2>2. job'.pc \in {"chunks", "manifest"} /\ job'.begun = job.begun /\ job'.gen = job.gen
    BY <2>1 DEF SaveInv, Shape, JobShape, JobFields, Idle
  <2> QED
    BY <2>1, <2>2, SaveGoesOn
<1>4. CASE Verify /\ ~SaveFails("corrupt")
  <2>1. /\ job' = [job EXCEPT !.pc = "commit"] /\ job.pc = "verify"
        /\ UNCHANGED <<wipe, manifests, pointer, erasedUpTo, halfWiped>>
    BY <1>4 DEF Verify
  <2>2. job'.pc = "commit" /\ job'.begun = job.begun /\ job'.gen = job.gen
    BY <2>1 DEF SaveInv, Shape, JobShape, JobFields, Idle
  <2> QED
    BY <2>1, <2>2, SaveGoesOn
<1> QED
  BY <1>1, <1>2, <1>3, <1>4

\* The manifest of the new generation is the only one of it.
LEMMA PutManifestErases == SaveInv /\ EraseInv /\ PutManifest => EraseInv'
<1> SUFFICES ASSUME SaveInv, EraseInv, PutManifest PROVE EraseInv'
  OBVIOUS
<1> DEFINE m == [gen |-> job.gen, at |-> 0, data |-> job.data, inventory |-> job.inventory,
                 begun |-> job.begun, erased |-> job.erased]
<1>1. /\ job.pc = "manifest" /\ manifests' = Put(manifests, m)
      /\ job' = [job EXCEPT !.pc = "verify"]
      /\ UNCHANGED <<wipe, pointer, erasedUpTo, halfWiped>>
  BY DEF PutManifest, hist
<1>2. job'.pc = "verify" /\ job'.begun = job.begun /\ job'.gen = job.gen
  BY <1>1 DEF SaveInv, Shape, JobShape, JobFields, Idle
<1>3. m \in manifests' /\ m.gen = job.gen /\ m.at = 0 /\ m.begun = job.begun
  BY <1>1 DEF Put
<1> HIDE DEF m
<1>4. \A n \in manifests' : n = m \/ (n \in manifests /\ n.gen # job.gen)
  BY <1>1, <1>3 DEF Put, EraseInv, ManifestsInv
<1>5. OrderInv'
  BY <1>1, OrderKeeps DEF EraseInv
<1>6. BesideInv'
  BY <1>1, <1>2 DEF EraseInv, BesideInv
<1>7. ManifestsInv'
  BY <1>3, <1>4 DEF EraseInv, ManifestsInv
<1>8. WrittenInv'
  BY <1>2, <1>3 DEF WrittenInv
<1>9. PointedInv'
  <2> SUFFICES ASSUME pointer.current # NoGen, ~halfWiped
               PROVE  \E n \in manifests' : n.gen = pointer.current /\ n.begun \in Nat /\ n.begun >= erasedUpTo
    BY <1>1 DEF PointedInv
  <2>1. PICK n \in manifests : n.gen = pointer.current /\ n.begun \in Nat /\ n.begun >= erasedUpTo
    BY DEF EraseInv, PointedInv
  <2>2. n.gen # m.gen
    BY <1>1, <1>3, <2>1 DEF SaveInv, FreshInv, Shape, PointerShape
  <2>3. n \in manifests'
    BY <1>1, <2>2, PutKeepsOthers
  <2> QED
    BY <2>1, <2>3
<1> QED
  BY <1>5, <1>6, <1>7, <1>8, <1>9 DEF EraseInv

LEMMA CommitErases == SaveInv /\ EraseInv /\ Commit => EraseInv'
<1> SUFFICES ASSUME SaveInv, EraseInv, Commit PROVE EraseInv'
  OBVIOUS
<1>1. /\ job.pc = "commit" /\ Settles(TRUE, Recorded)
      /\ pointer' = [current |-> job.gen, lastKnownGood |-> job.old.current]
      /\ UNCHANGED <<manifests, erasedUpTo, halfWiped>>
  BY DEF Commit
<1>2. OrderInv' /\ BesideInv' /\ WrittenInv'
  BY <1>1, SettlesLate DEF EraseInv
<1>3. ManifestsInv'
  BY <1>1 DEF EraseInv, ManifestsInv
<1>4. PICK m \in manifests : m.gen = job.gen /\ m.begun = job.begun
  BY <1>1 DEF EraseInv, WrittenInv
<1>5. job.begun \in Nat /\ job.begun >= erasedUpTo
  BY <1>1 DEF EraseInv, BesideInv
<1>6. PointedInv'
  BY <1>1, <1>4, <1>5 DEF PointedInv
<1> QED
  BY <1>2, <1>3, <1>6 DEF EraseInv

LEMMA ClearStartsErases ==
    ASSUME SaveInv, EraseInv, NEW c \in Clears, ClearStarts(c)
    PROVE  EraseInv'
<1> DEFINE pc == IF job = Idle THEN "read" ELSE "wait"
<1>1. /\ wipe' = [wipe EXCEPT ![c] = [pc |-> pc, todo |-> {}]] /\ c = Begun + 1
      /\ UNCHANGED <<job, manifests, pointer, erasedUpTo, halfWiped>>
  BY DEF ClearStarts, idb, hist
<1>2. pc \in {"read", "wait"} /\ (job.pc # "idle" => pc = "wait")
  BY DEF Idle
<1> HIDE DEF pc
<1>3. wipe'[c].pc = pc /\ \A d \in Clears \ {c} : wipe'[d] = wipe[d]
  BY <1>1 DEF SaveInv, Shape, WipeShape
<1>4. Begun \in 0..MaxClears /\ c \in 0..MaxClears /\ MaxClears \in Nat
  BY SnapshotsAssumption DEF EraseInv, OrderInv, Clears
<1>5. \A d \in Clears : (wipe[d].pc # "none")' <=> d <= c
  BY <1>1, <1>2, <1>3, <1>4 DEF EraseInv, OrderInv, Clears
<1>6. Begun' = c
  <2>1. ClearsBegun' = 1..c
    BY <1>4, <1>5 DEF ClearsBegun, Clears
  <2>2. (IF 1..c = {} THEN 0 ELSE CHOOSE d \in 1..c : \A e \in 1..c : e <= d) = c
    BY <1>4, NewestIs
  <2> QED
    BY <2>1, <2>2, Zenon DEF Begun
<1>7. OrderInv'
  BY <1>1, <1>4, <1>5, <1>6 DEF EraseInv, OrderInv
<1>8. BesideInv'
  BY <1>1, <1>2, <1>3 DEF EraseInv, BesideInv
<1>9. WrittenInv' /\ ManifestsInv' /\ PointedInv'
  BY <1>1 DEF EraseInv, WrittenInv, ManifestsInv, PointedInv
<1> QED
  BY <1>7, <1>8, <1>9 DEF EraseInv

LEMMA ClearReadsErases ==
    ASSUME SaveInv, EraseInv, NEW c \in Clears, ClearReads(c) \/ ClearFails(c)
    PROVE  EraseInv'
<1>1. /\ wipe[c].pc \in {"read", "delete"}
      /\ \E todo : wipe' \in {[wipe EXCEPT ![c] = [pc |-> "delete", todo |-> todo]],
                              [wipe EXCEPT ![c] = [pc |-> "failed", todo |-> todo]]}
      /\ UNCHANGED <<job, manifests, pointer, erasedUpTo, halfWiped>>
  BY DEF ClearReads, ClearFails, idb, hist
<1>2. \A d \in Clears : /\ (wipe[d].pc # "none")' <=> wipe[d].pc # "none"
                        /\ (wipe[d].pc \in {"read", "delete"})' => wipe[d].pc \in {"read", "delete"}
  BY <1>1 DEF SaveInv, Shape, WipeShape
<1>3. OrderInv'
  BY <1>1, <1>2, OrderKeeps DEF EraseInv
<1>4. BesideInv'
  BY <1>1, <1>2 DEF EraseInv, BesideInv
<1>5. WrittenInv' /\ ManifestsInv' /\ PointedInv'
  BY <1>1 DEF EraseInv, WrittenInv, ManifestsInv, PointedInv
<1> QED
  BY <1>3, <1>4, <1>5 DEF EraseInv

LEMMA ClearDeletesErases ==
    ASSUME SaveInv, EraseInv, NEW c \in Clears, ClearDeletes(c)
    PROVE  EraseInv'
<1>1. /\ wipe[c].pc = "delete" /\ halfWiped'
      /\ UNCHANGED <<job, pointer, erasedUpTo>>
      /\ \/ UNCHANGED wipe
         \/ \E g : wipe' = [wipe EXCEPT ![c].todo = wipe[c].todo \ {g}]
      /\ manifests' \subseteq manifests
  BY DEF ClearDeletes
<1>2. \A d \in Clears : wipe'[d].pc = wipe[d].pc
  BY <1>1 DEF SaveInv, Shape, WipeShape
<1>3. OrderInv'
  BY <1>1, <1>2, OrderKeeps DEF EraseInv
<1>4. BesideInv'
  BY <1>1, <1>2 DEF EraseInv, BesideInv
<1>5. WrittenInv'
  BY <1>1 DEF SaveInv, ClearInv, Early, WrittenInv
<1>6. ManifestsInv' /\ PointedInv'
  BY <1>1 DEF EraseInv, ManifestsInv, PointedInv
<1> QED
  BY <1>3, <1>4, <1>5, <1>6 DEF EraseInv

\* What still runs at the end of a clear began after it.
LEMMA ClearEndsErases ==
    ASSUME SaveInv, EraseInv, NEW c \in Clears, ClearEnds(c)
    PROVE  EraseInv'
<1>1. /\ wipe[c].pc = "delete" /\ wipe' = [wipe EXCEPT ![c] = [pc |-> "done", todo |-> {}]]
      /\ pointer' = [current |-> NoGen, lastKnownGood |-> NoGen]
      /\ erasedUpTo' = Max(erasedUpTo, c)
      /\ UNCHANGED <<job, manifests>>
  BY DEF ClearEnds
<1>2. \A d \in Clears : /\ (wipe[d].pc # "none")' <=> wipe[d].pc # "none"
                        /\ (wipe[d].pc \in {"read", "delete"})' => wipe[d].pc \in {"read", "delete"}
  BY <1>1 DEF SaveInv, Shape, WipeShape
<1>3. c \in Nat /\ c <= Begun /\ Begun' = Begun
  BY <1>1, <1>2, SameClearsBegun, SnapshotsAssumption DEF EraseInv, OrderInv, Clears
<1>4. OrderInv'
  BY <1>1, <1>2, <1>3 DEF EraseInv, OrderInv, Max
<1>5. BesideInv'
  BY <1>1, <1>2, <1>3 DEF EraseInv, OrderInv, BesideInv, Max
<1>6. WrittenInv'
  BY <1>1 DEF SaveInv, ClearInv, Early, WrittenInv
<1>7. ManifestsInv' /\ PointedInv'
  BY <1>1 DEF EraseInv, ManifestsInv, PointedInv
<1> QED
  BY <1>4, <1>5, <1>6, <1>7 DEF EraseInv

LEMMA ReloadErases == SaveInv /\ EraseInv /\ Reload => EraseInv'
<1> SUFFICES ASSUME SaveInv, EraseInv, Reload PROVE EraseInv'
  OBVIOUS
<1>1. /\ job' = Idle
      /\ wipe' = [c \in Clears |-> IF wipe[c].pc \in {"wait", "read", "delete"}
                                   THEN [pc |-> "dead", todo |-> {}] ELSE wipe[c]]
      /\ UNCHANGED <<manifests, pointer, erasedUpTo, halfWiped>>
  BY DEF Reload, idb
<1>2. \A c \in Clears : (wipe[c].pc # "none")' <=> wipe[c].pc # "none"
  BY <1>1 DEF SaveInv, Shape, WipeShape
<1>3. OrderInv'
  BY <1>1, <1>2, OrderKeeps DEF EraseInv
<1>4. BesideInv' /\ WrittenInv' /\ ManifestsInv' /\ PointedInv'
  BY <1>1 DEF Idle, EraseInv, BesideInv, WrittenInv, ManifestsInv, PointedInv
<1> QED
  BY <1>3, <1>4 DEF EraseInv

LEMMA EraseStep == SaveInv /\ EraseInv /\ [Next]_vars => EraseInv'
<1> SUFFICES ASSUME SaveInv, EraseInv, [Next]_vars PROVE EraseInv'
  OBVIOUS
<1>1. CASE Write \/ MarkDirty \/ Stop \/ LoadStarts \/ LoadSteps \/ LoadFails
  BY <1>1, OtherStepsAreQuiet, QuietErases DEF LoadSteps
<1>2. CASE UserSave \/ PageHides \/ Timers
  BY <1>2, AskersBeginSaves, BeginsSaveErases
<1>3. CASE SaveSteps
  BY <1>3, EarlyStepsErase, StoreStepsErase, PutManifestErases, CommitErases DEF SaveSteps
<1>4. CASE StoreFails
  BY <1>4, FailureErases DEF StoreFails
<1>5. ASSUME NEW c \in Clears, ClearStep(c) PROVE EraseInv'
  BY <1>5, ClearStartsErases, ClearReadsErases, ClearDeletesErases, ClearEndsErases DEF ClearStep
<1>6. CASE Reload
  BY <1>6, ReloadErases
<1>7. CASE UNCHANGED vars
  <2>1. Quiet
    BY <1>7 DEF vars, idb, hist, Quiet
  <2> QED
    BY <2>1, QuietErases
<1> QED
  BY <1>1, <1>2, <1>3, <1>4, <1>5, <1>6, <1>7 DEF Next, ClearSteps, ClearStep

(* A save that was in flight when a clear began never survives that clear: in  *)
(* every behaviour that clears one at a time, the generation the pointer names *)
(* comes of a save that began after the last clear that was completed          *)
(* (context.ts:322).                                                           *)
THEOREM ClearsEraseWhatWasInFlight == Spec /\ []OneClearAtATime => []InFlightIsErased
<1>1. EraseInv => InFlightIsErased
  <2> SUFFICES ASSUME EraseInv, pointer.current # NoGen, ~halfWiped
               PROVE  Manifest(pointer.current).begun >= erasedUpTo
    BY DEF InFlightIsErased
  <2>1. PICK m \in manifests : m.gen = pointer.current /\ m.begun >= erasedUpTo
    BY DEF EraseInv, PointedInv
  <2>2. Manifest(pointer.current) = m
    BY <2>1 DEF Manifest, EraseInv, ManifestsInv
  <2> QED
    BY <2>1, <2>2
<1> QED
  BY SaveInit, SaveStep, EraseInit, EraseStep, <1>1, PTL DEF Spec

-------------------------------------------------------------------------------
(* What programs wrote and no completed save covers.  A failure is         *)
(* forgotten by the next save that completes, so what is written during a  *)
(* save must be known without it.                                          *)

AutoType == [state : {"boot", "on", "stopped"}, dirty : BOOLEAN, debounce : BOOLEAN,
             max : {"off", "armed", "fired"}, busy : BOOLEAN, waiting : BOOLEAN]

Exported == job.pc \in {"pointer", "chunks", "manifest", "verify", "commit"}

\* The watcher, a timer, or a save that waits knows.
Scheduler(a) == a.debounce \/ a.max = "armed" \/ (a.busy /\ a.dirty) \/ a.state = "stopped"
Pending == watch \/ chained # <<>> \/ Scheduler(auto) \/ ctx.cleared

LoadFields == {"pc", "boot", "todo", "before", "image"}

CountsInv ==
    /\ auto \in AutoType /\ chained \in Seq({"user", "auto"})
    /\ DOMAIN load = LoadFields /\ (load.boot => auto.state = "boot")
    /\ DOMAIN used = {"writes", "events"} /\ used.writes \in Nat
    /\ savedUpTo \in Nat /\ savedUpTo <= used.writes
    /\ Exported => job.upTo \in Nat /\ job.upTo <= used.writes
    /\ auto.debounce \/ auto.max = "armed" => auto.dirty
    /\ auto.state = "boot" => savedUpTo = used.writes /\ job = Idle

\* What was written after the export of the save in flight is known.
SinceInv == Exported /\ job.upTo < used.writes => Pending

UnsavedInv ==
    savedUpTo < used.writes =>
        \/ Pending \/ failed
        \/ job.pc \in {"collect", "list", "export"} /\ job.forced
        \/ Exported /\ job.upTo = used.writes

KnownInv == CountsInv /\ SinceInv /\ UnsavedInv

\* Nothing is written at the start.
LEMMA KnownInit == Init => KnownInv
<1> SUFFICES ASSUME Init PROVE KnownInv
  OBVIOUS
<1>1. /\ auto = NewAuto /\ chained = <<>> /\ load = NoLoad /\ used = [writes |-> 0, events |-> 0]
      /\ savedUpTo = 0 /\ job = Idle
  BY DEF Init
<1>2. job.pc = "idle"
  BY <1>1 DEF Idle
<1>3. auto \in AutoType /\ ~auto.debounce /\ auto.max = "off" /\ auto.state = "on"
  BY <1>1 DEF NewAuto, AutoType
<1>4. DOMAIN load = LoadFields /\ ~load.boot
  BY <1>1 DEF NoLoad, LoadFields
<1>5. DOMAIN used = {"writes", "events"} /\ used.writes = 0
  BY <1>1
<1>6. CountsInv
  BY <1>1, <1>2, <1>3, <1>4, <1>5 DEF CountsInv, Exported
<1>7. SinceInv /\ UnsavedInv
  BY <1>1, <1>2, <1>5 DEF SinceInv, UnsavedInv, Exported
<1> QED
  BY <1>6, <1>7 DEF KnownInv

\* What is written as an event is counted leaves the writes as they are.
LEMMA EventsCount ==
    ASSUME CountsInv, UNCHANGED used \/ used' = [used EXCEPT !.events = @ + 1]
    PROVE  DOMAIN used' = {"writes", "events"} /\ used'.writes = used.writes
BY DEF CountsInv

\* What becomes dirty is scheduled, but at boot and after the stop.
LEMMA ScheduledIs ==
    ASSUME NEW a \in AutoType
    PROVE  /\ Scheduled(a) \in AutoType /\ Scheduled(a).state = a.state
           /\ a.state = "on" => Scheduled(a).dirty /\ Scheduled(a).debounce
           /\ a.state # "on" => Scheduled(a) = a
<1>1. CASE a.state # "on"
  BY <1>1 DEF Scheduled
<1>2. CASE a.state = "on"
  <2> DEFINE max == IF a.max = "off" THEN "armed" ELSE a.max
  <2>1. max \in {"off", "armed", "fired"}
    BY DEF AutoType
  <2>2. Scheduled(a) = [a EXCEPT !.dirty = TRUE, !.debounce = TRUE, !.max = max]
    BY <1>2 DEF Scheduled
  <2> HIDE DEF max
  <2> QED
    BY <1>2, <2>1, <2>2 DEF AutoType
<1> QED
  BY <1>1, <1>2

\* A program writes, and the watcher will report it.
LEMMA WriteIsKnown == HasWatch /\ KnownInv /\ Write => KnownInv'
<1> SUFFICES ASSUME HasWatch, KnownInv, Write PROVE KnownInv'
  OBVIOUS
<1>1. /\ watch' /\ auto.state # "boot" /\ used' = [used EXCEPT !.writes = @ + 1]
      /\ UNCHANGED <<ctx, job, chained, auto, load, savedUpTo, failed>>
  BY DEF Write, hist
<1>2. DOMAIN used' = {"writes", "events"} /\ used'.writes = used.writes + 1 /\ used.writes \in Nat
  BY <1>1 DEF KnownInv, CountsInv
<1>3. Pending'
  BY <1>1 DEF Pending
<1>4. CountsInv'
  BY <1>1, <1>2 DEF KnownInv, CountsInv, Exported
<1> QED
  BY <1>3, <1>4 DEF KnownInv, SinceInv, UnsavedInv

\* The watcher reports it to the controller.
LEMMA ReportIsKnown == Shape /\ KnownInv /\ MarkDirty => KnownInv'
<1> SUFFICES ASSUME Shape, KnownInv, MarkDirty PROVE KnownInv'
  OBVIOUS
<1>1. /\ auto' = Scheduled(auto) /\ UNCHANGED <<job, chained, load, used, savedUpTo, failed>>
      /\ ctx'.cleared = ctx.cleared /\ auto \in AutoType
  BY DEF MarkDirty, hist, Shape, CtxShape, CtxFields, KnownInv, CountsInv
<1>2. /\ auto' \in AutoType /\ auto'.state = auto.state
      /\ auto.state = "on" => auto'.dirty /\ auto'.debounce
      /\ auto.state # "on" => auto' = auto
  BY <1>1, ScheduledIs
<1>3. CountsInv'
  BY <1>1, <1>2 DEF KnownInv, CountsInv, Exported
<1>4. CASE auto.state = "boot"
  BY <1>1, <1>3, <1>4 DEF KnownInv, CountsInv, SinceInv, UnsavedInv, Exported, Idle
<1>5. CASE auto.state # "boot"
  <2>1. auto.state \in {"on", "stopped"}
    BY <1>1, <1>5 DEF AutoType
  <2>2. Pending'
    BY <1>2, <2>1 DEF Pending, Scheduler
  <2> QED
    BY <1>3, <2>2 DEF KnownInv, SinceInv, UnsavedInv
<1> QED
  BY <1>4, <1>5

\* A stopped controller saves nothing more.
LEMMA StopIsKnown == KnownInv /\ Stop => KnownInv'
<1> SUFFICES ASSUME KnownInv, Stop PROVE KnownInv'
  OBVIOUS
<1>1. /\ auto' = [auto EXCEPT !.state = "stopped", !.debounce = FALSE, !.max = "off"]
      /\ auto.state = "on" /\ auto \in AutoType
      /\ UNCHANGED <<job, chained, load, used, savedUpTo>>
  BY DEF Stop, hist, KnownInv, CountsInv
<1>2. auto' \in AutoType /\ auto'.state = "stopped" /\ ~auto'.debounce /\ auto'.max = "off"
  BY <1>1 DEF AutoType
<1>3. CountsInv'
  BY <1>1, <1>2 DEF KnownInv, CountsInv, Exported
<1>4. Pending'
  BY <1>2 DEF Pending, Scheduler
<1> QED
  BY <1>3, <1>4 DEF KnownInv, SinceInv, UnsavedInv

\* A restore is over, at boot with a new controller.
LEMMA LoadedIs ==
    ASSUME CountsInv, NEW context, Loaded(context)
    PROVE  /\ DOMAIN load' = LoadFields /\ ~load'.boot
           /\ auto' = auto \/ (auto.state = "boot" /\ auto' = NewAuto)
BY DEF Loaded, CountsInv, NoLoad, LoadFields

\* What a restore does beside the saves.
Beside ==
    /\ UNCHANGED <<job, chained, failed>> /\ ctx'.cleared = ctx.cleared
    /\ DOMAIN used' = {"writes", "events"} /\ used'.writes = used.writes
    /\ savedUpTo' \in {savedUpTo, used.writes} /\ (watch' = watch \/ watch')
    /\ DOMAIN load' = LoadFields
    /\ \/ auto' = auto /\ (load'.boot => load.boot)
       \/ auto.state = "boot" /\ auto' = NewAuto /\ ~load'.boot

\* The next candidate of a restore is tried, or the restore ends: no save is touched.
LEMMA CandidateIsBeside ==
    ASSUME CountsInv, NEW status, NextCandidate(status)
    PROVE  /\ DOMAIN load' = LoadFields
           /\ \/ auto' = auto /\ (load'.boot => load.boot)
              \/ auto.state = "boot" /\ auto' = NewAuto /\ ~load'.boot
<1>1. CASE Loaded([ctx EXCEPT !.status = status])
  BY <1>1, LoadedIs
<1>2. CASE load' = [load EXCEPT !.pc = "check", !.todo = Tail(@)] /\ UNCHANGED <<ctx, auto>>
  BY <1>2 DEF CountsInv, LoadFields
<1> QED
  BY <1>1, <1>2 DEF NextCandidate

\* Every step of a restore lies beside the saves.
LEMMA LoadsAreBeside ==
    ASSUME SaveInv, KnownInv, HasWatch,
           LoadStarts \/ LoadReads \/ LoadChecks \/ LoadMounts \/ LoadPrunes \/ LoadFails
    PROVE  Beside
<1>1. ctx'.cleared = ctx.cleared /\ UNCHANGED job
  BY OtherStepsAreQuiet DEF Quiet
<1>2. CountsInv /\ DOMAIN load = LoadFields
  BY DEF KnownInv, CountsInv
<1>3. UNCHANGED <<chained, failed>>
  BY DEF LoadStarts, LoadReads, LoadChecks, LoadMounts, LoadPrunes, LoadFails, hist
<1>4. DOMAIN used' = {"writes", "events"} /\ used'.writes = used.writes
  BY <1>2, EventsCount DEF LoadStarts, LoadReads, LoadChecks, LoadMounts, LoadPrunes, LoadFails
<1>5. savedUpTo' \in {savedUpTo, used.writes} /\ (watch' = watch \/ watch')
  BY DEF LoadStarts, LoadReads, LoadChecks, LoadMounts, LoadPrunes, LoadFails, hist
<1>6. /\ DOMAIN load' = LoadFields
      /\ \/ auto' = auto /\ (load'.boot => load.boot)
         \/ auto.state = "boot" /\ auto' = NewAuto /\ ~load'.boot
  <2>1. CASE LoadStarts \/ LoadMounts
    BY <1>2, <2>1 DEF LoadStarts, LoadMounts, LoadFields
  <2>2. CASE LoadPrunes
    BY <1>2, <2>2, LoadedIs DEF LoadPrunes
  <2>3. CASE LoadFails
    BY <1>2, <2>3, CandidateIsBeside DEF LoadFails
  <2>4. CASE LoadReads
    <3>1. CASE Loaded([ctx EXCEPT !.status = "clean"])
      BY <1>2, <3>1, LoadedIs
    <3>2. CASE ~Loaded([ctx EXCEPT !.status = "clean"])
      BY <1>2, <2>4, <3>2 DEF LoadReads, LoadFields
    <3> QED
      BY <3>1, <3>2
  <2>5. CASE LoadChecks
    <3>1. CASE NextCandidate("corrupt")
      BY <1>2, <3>1, CandidateIsBeside
    <3>2. CASE ~NextCandidate("corrupt")
      BY <1>2, <2>5, <3>2 DEF LoadChecks, LoadFields
    <3> QED
      BY <3>1, <3>2
  <2> QED
    BY <2>1, <2>2, <2>3, <2>4, <2>5
<1> QED
  BY <1>1, <1>3, <1>4, <1>5, <1>6 DEF Beside

\* A restore forgets no write: what it mounts over is as it was saved.
LEMMA BesideIsKnown == KnownInv /\ Beside => KnownInv'
<1> SUFFICES ASSUME KnownInv, Beside PROVE KnownInv'
  OBVIOUS
<1>1. NewAuto \in AutoType /\ ~NewAuto.debounce /\ NewAuto.max = "off" /\ NewAuto.state = "on"
  BY DEF NewAuto, AutoType
<1>2. CountsInv'
  BY <1>1 DEF KnownInv, CountsInv, Beside, Exported
<1>3. CASE auto' = auto
  <2>1. Pending => Pending'
    BY <1>3 DEF Beside, Pending
  <2> QED
    BY <1>2, <2>1 DEF KnownInv, CountsInv, SinceInv, UnsavedInv, Beside, Exported
<1>4. CASE auto.state = "boot"
  BY <1>2, <1>4 DEF KnownInv, CountsInv, SinceInv, UnsavedInv, Beside, Exported, Idle
<1> QED
  BY <1>2, <1>3, <1>4 DEF Beside

\* A save begins, or waits behind the one in flight.
Asks ==
    /\ UNCHANGED <<watch, load, savedUpTo, failed>> /\ ctx'.cleared = ctx.cleared
    /\ DOMAIN used' = {"writes", "events"} /\ used'.writes = used.writes
    /\ auto.state # "boot"
    /\ \/ job = Idle /\ UNCHANGED chained /\ job'.pc = "collect" /\ job'.forced
       \/ job # Idle /\ UNCHANGED job /\ chained' # <<>> /\ chained' \in Seq({"user", "auto"})

\* A forced save is one.
LEMMA ForcedIs ==
    ASSUME NEW owner
    PROVE  NewJob(owner, TRUE).pc = "collect" /\ NewJob(owner, TRUE).forced = TRUE
<1>1. (TRUE \/ ctx.dirty) = TRUE
  OBVIOUS
<1> QED
  BY <1>1 DEF NewJob

\* A save that is asked for begins, or waits.
LEMMA SaveAsks ==
    ASSUME Shape, CountsInv, NEW owner \in {"user", "auto"}, Save(owner)
    PROVE  /\ ctx'.cleared = ctx.cleared
           /\ \/ job = Idle /\ UNCHANGED chained /\ job'.pc = "collect" /\ job'.forced
              \/ job # Idle /\ UNCHANGED job /\ chained' # <<>> /\ chained' \in Seq({"user", "auto"})
<1>1. CASE job = Idle
  <2>1. job' = NewJob(owner, TRUE) /\ ctx' = [ctx EXCEPT !.status = "saving"] /\ UNCHANGED chained
    BY <1>1 DEF Save
  <2>2. ctx'.cleared = ctx.cleared
    BY <2>1 DEF Shape, CtxShape, CtxFields
  <2> QED
    BY <1>1, <2>1, <2>2, ForcedIs
<1>2. CASE job # Idle
  <2> DEFINE S == {"user", "auto"}
  <2> HIDE DEF S
  <2>1. chained \in Seq(S) /\ owner \in S /\ chained' = Append(chained, owner)
    BY <1>2 DEF Save, CountsInv, S
  <2>2. chained' \in Seq(S) /\ Len(chained') = Len(chained) + 1 /\ Len(chained) \in Nat
    BY <2>1
  <2>3. chained' # <<>>
    BY <2>2
  <2> QED
    BY <1>2, <2>2, <2>3 DEF Save, S
<1> QED
  BY <1>1, <1>2

\* A save that begins covers what is written; one that waits will.
LEMMA AsksIsKnown ==
    ASSUME KnownInv, Asks, auto' \in AutoType, auto'.state = auto.state,
           auto'.debounce \/ auto'.max = "armed" => auto'.dirty
    PROVE  KnownInv'
<1>1. CountsInv'
  BY DEF KnownInv, CountsInv, Asks, Exported, Idle
<1>2. CASE job'.pc = "collect" /\ job'.forced
  BY <1>1, <1>2 DEF KnownInv, SinceInv, UnsavedInv, Exported
<1>3. CASE chained' # <<>>
  BY <1>1, <1>3 DEF KnownInv, SinceInv, UnsavedInv, Pending
<1> QED
  BY <1>2, <1>3 DEF Asks

\* The controller's flush saves, or waits for its save with what is dirty.
LEMMA FlushIsKnown ==
    ASSUME Shape, KnownInv, auto.state = "on", NEW a \in AutoType, Flush(a),
           \/ a = auto
           \/ a = [auto EXCEPT !.debounce = FALSE] /\ auto.debounce
           \/ a = [auto EXCEPT !.max = "fired"] /\ auto.max = "armed",
           UNCHANGED <<watch, load, savedUpTo, failed>>,
           DOMAIN used' = {"writes", "events"}, used'.writes = used.writes
    PROVE  KnownInv'
<1>0. /\ CountsInv /\ auto \in AutoType /\ a.state = "on" /\ a.dirty = auto.dirty /\ a.busy = auto.busy
      /\ auto.debounce \/ auto.max = "armed" => auto.dirty
      /\ a.debounce \/ a.max = "armed" => a.dirty
      /\ auto.debounce \/ auto.max = "armed" \/ (auto.busy /\ auto.dirty)
         <=> a.debounce \/ a.max = "armed" \/ (a.busy /\ a.dirty) \/ (a # auto /\ auto.dirty)
  BY DEF KnownInv, CountsInv, AutoType
<1>1. CASE a.busy
  <2>1. auto' = [a EXCEPT !.waiting = TRUE] /\ UNCHANGED <<job, chained, ctx>>
    BY <1>1 DEF Flush
  <2>2. /\ auto' \in AutoType /\ auto'.state = "on" /\ auto'.dirty = a.dirty /\ auto'.busy
        /\ auto'.debounce = a.debounce /\ auto'.max = a.max
    BY <1>0, <1>1, <2>1 DEF AutoType
  <2>3. CountsInv'
    BY <1>0, <2>1, <2>2 DEF CountsInv, Exported
  <2>4. Pending => Pending'
    BY <1>0, <1>1, <2>1, <2>2 DEF Pending, Scheduler
  <2> QED
    BY <2>1, <2>3, <2>4 DEF KnownInv, SinceInv, UnsavedInv, Exported
<1>2. CASE ~a.busy
  <2>1. /\ Save("auto")
        /\ auto' = [a EXCEPT !.dirty = FALSE, !.debounce = FALSE, !.max = "off", !.busy = TRUE]
    BY <1>2 DEF Flush
  <2>2. auto' \in AutoType /\ auto'.state = "on" /\ ~auto'.debounce /\ auto'.max = "off"
    BY <1>0, <2>1 DEF AutoType
  <2>3. Asks
    BY <1>0, <2>1, SaveAsks DEF Asks
  <2> QED
    BY <1>0, <2>2, <2>3, AsksIsKnown
<1> QED
  BY <1>1, <1>2 DEF AutoType

\* The timers and the page flush.
LEMMA TimersAreKnown == Shape /\ KnownInv /\ (Timers \/ PageHides) => KnownInv'
<1> SUFFICES ASSUME Shape, KnownInv, Timers \/ PageHides PROVE KnownInv'
  OBVIOUS
<1>1. auto \in AutoType /\ CountsInv
  BY DEF KnownInv, CountsInv
<1>2. /\ auto.state = "on" /\ UNCHANGED <<watch, load, savedUpTo, failed>>
      /\ DOMAIN used' = {"writes", "events"} /\ used'.writes = used.writes
  BY <1>1, EventsCount DEF Timers, PageHides, DebounceFires, MaxAgeFires, hist
<1>3. CASE DebounceFires
  <2> DEFINE a == [auto EXCEPT !.debounce = FALSE]
  <2>1. a \in AutoType /\ Flush(a) /\ auto.debounce
    BY <1>1, <1>3 DEF DebounceFires, AutoType
  <2> QED
    BY <1>2, <2>1, FlushIsKnown
<1>4. CASE MaxAgeFires
  <2> DEFINE a == [auto EXCEPT !.max = "fired"]
  <2>1. a \in AutoType /\ Flush(a) /\ auto.max = "armed"
    BY <1>1, <1>4 DEF MaxAgeFires, AutoType
  <2> QED
    BY <1>2, <2>1, FlushIsKnown
<1>5. CASE PageHides
  <2>1. Flush(auto)
    BY <1>5 DEF PageHides
  <2> QED
    BY <1>1, <1>2, <2>1, FlushIsKnown
<1> QED
  BY <1>3, <1>4, <1>5 DEF Timers

\* A user's save is forced, or starts only while nothing else is in flight.
LEMMA UserSaveIsKnown == Shape /\ KnownInv /\ UserSave => KnownInv'
<1> SUFFICES ASSUME Shape, KnownInv, UserSave PROVE KnownInv'
  OBVIOUS
<1>1. /\ CountsInv /\ auto.state # "boot" /\ UNCHANGED <<watch, auto, load, savedUpTo, failed>>
      /\ DOMAIN used' = {"writes", "events"} /\ used'.writes = used.writes
  BY EventsCount DEF KnownInv, CountsInv, UserSave, hist
<1>2. CASE Save("user")
  <2>1. Asks
    BY <1>1, <1>2, SaveAsks DEF Asks
  <2> QED
    BY <1>1, <2>1, AsksIsKnown DEF CountsInv
<1>3. CASE /\ job = Idle /\ \E aged \in {FALSE, ctx.known} : job' = NewJob("user", aged)
           /\ ctx' = [ctx EXCEPT !.status = "saving"] /\ UNCHANGED chained
  <2>1. job.pc = "idle" /\ job'.pc = "collect" /\ ctx'.cleared = ctx.cleared
    BY <1>3 DEF NewJob, Idle, Shape, CtxShape, CtxFields
  <2>2. CountsInv'
    BY <1>1, <1>3, <2>1 DEF CountsInv, Exported
  <2>3. Pending' = Pending
    BY <1>1, <1>3, <2>1 DEF Pending
  <2> QED
    BY <1>1, <2>1, <2>2, <2>3 DEF KnownInv, SinceInv, UnsavedInv, Exported
<1> QED
  BY <1>2, <1>3 DEF UserSave

\* A save settles: what was dirty in the controller's own save is scheduled
\* again, or saved at once.
LEMMA SettlesKnows ==
    ASSUME Shape, CountsInv, job # Idle, NEW ok \in BOOLEAN, NEW settled, Settles(ok, settled),
           DOMAIN settled = CtxFields, settled.cleared = ctx.cleared, UNCHANGED watch
    PROVE  /\ auto' \in AutoType /\ chained' \in Seq({"user", "auto"}) /\ auto'.state # "boot"
           /\ auto'.debounce \/ auto'.max = "armed" => auto'.dirty
           /\ job'.pc \in {"idle", "collect"} /\ ctx'.cleared = ctx.cleared
           /\ ok /\ Pending => Pending' \/ (job'.pc = "collect" /\ job'.forced)
<1> DEFINE mine  == job.owner = "auto" \/ (~ok /\ \E i \in DOMAIN chained : chained[i] = "auto")
           again == mine /\ auto.dirty /\ auto.state = "on" /\ auto.waiting
           last  == IF again THEN <<"auto">> ELSE <<>>
           first == IF ok THEN chained ELSE <<>>
           queue == first \o last
<1>1. /\ auto' = AutoAfter(mine)
      /\ \/ queue = <<>> /\ job' = Idle /\ ctx' = settled /\ chained' = <<>>
         \/ /\ queue # <<>> /\ job' = NewJob(Head(queue), TRUE) /\ chained' = Tail(queue)
            /\ ctx' = [settled EXCEPT !.status = "saving"]
  BY DEF Settles
<1>2. auto \in AutoType /\ auto.state # "boot" /\ mine \in BOOLEAN
  BY DEF CountsInv
<1>3. queue \in Seq({"user", "auto"}) /\ (queue = <<>> => ~again /\ (ok => chained = <<>>))
  <2> DEFINE S == {"user", "auto"}
  <2>1. "auto" \in S /\ chained \in Seq(S)
    BY DEF CountsInv
  <2> HIDE DEF S, mine
  <2>2. first \in Seq(S) /\ last \in Seq(S) /\ (again => Len(last) = 1) /\ (ok => first = chained)
    BY <2>1
  <2> HIDE DEF first, last
  <2>3. queue \in Seq(S) /\ Len(queue) = Len(first) + Len(last) /\ Len(first) \in Nat /\ Len(last) \in Nat
    BY <2>2
  <2>4. queue = <<>> => Len(first) = 0 /\ Len(last) = 0
    BY <2>3
  <2>5. queue = <<>> => first = <<>>
    BY <2>2, <2>4
  <2>6. queue = <<>> => ~again /\ (ok => chained = <<>>)
    BY <2>2, <2>4, <2>5
  <2> QED
    BY <2>3, <2>6 DEF S
<1> HIDE DEF queue
<1>4. chained' \in Seq({"user", "auto"})
  <2> DEFINE S == {"user", "auto"}
  <2> HIDE DEF S
  <2>1. queue \in Seq(S)
    BY <1>3 DEF S
  <2>2. <<>> \in Seq(S) /\ (queue # <<>> => Tail(queue) \in Seq(S))
    BY <2>1
  <2>3. chained' \in Seq(S)
    BY <1>1, <2>2
  <2> QED
    BY <2>3 DEF S
<1>5. /\ job'.pc \in {"idle", "collect"} /\ ctx'.cleared = ctx.cleared
      /\ queue # <<>> => job'.pc = "collect" /\ job'.forced
  <2>1. CASE queue = <<>>
    BY <1>1, <2>1 DEF Idle
  <2>2. CASE queue # <<>>
    <3>1. job' = NewJob(Head(queue), TRUE) /\ ctx' = [settled EXCEPT !.status = "saving"]
      BY <1>1, <2>2
    <3>2. ctx'.cleared = ctx.cleared
      BY <3>1 DEF CtxFields
    <3> QED
      BY <3>1, <3>2, ForcedIs
  <2> QED
    BY <2>1, <2>2
<1> HIDE DEF mine
<1>6. /\ auto' \in AutoType /\ auto'.state = auto.state
      /\ auto'.debounce \/ auto'.max = "armed" => auto'.dirty
      /\ ~again => (Scheduler(auto) => Scheduler(auto'))
  <2> DEFINE a == [auto EXCEPT !.busy = FALSE, !.waiting = FALSE]
  <2>1. /\ a \in AutoType /\ a.state = auto.state /\ a.dirty = auto.dirty
        /\ a.debounce = auto.debounce /\ a.max = auto.max
        /\ auto.debounce \/ auto.max = "armed" => auto.dirty
    BY <1>2 DEF AutoType, CountsInv
  <2>2. CASE ~mine
    BY <1>1, <1>2, <2>1, <2>2 DEF AutoAfter
  <2>3. CASE mine /\ (~auto.dirty \/ auto.state # "on")
    <3>1. auto' = a
      BY <1>1, <2>3 DEF AutoAfter
    <3> HIDE DEF a
    <3>2. Scheduler(auto) => Scheduler(a)
      BY <1>2, <2>1, <2>3 DEF Scheduler, AutoType
    <3> QED
      BY <2>1, <3>1, <3>2
  <2>4. CASE mine /\ auto.dirty /\ auto.state = "on" /\ auto.waiting
    <3>1. auto' = [a EXCEPT !.dirty = FALSE, !.debounce = FALSE, !.max = "off", !.busy = TRUE]
      BY <1>1, <2>4 DEF AutoAfter
    <3> HIDE DEF a
    <3>2. auto' \in AutoType /\ auto'.state = a.state /\ ~auto'.debounce /\ auto'.max = "off"
      BY <2>1, <3>1 DEF AutoType
    <3> QED
      BY <2>1, <2>4, <3>2
  <2>5. CASE mine /\ auto.dirty /\ auto.state = "on" /\ ~auto.waiting
    <3>1. auto' = Scheduled(a)
      BY <1>1, <2>5 DEF AutoAfter
    <3> HIDE DEF a
    <3>2. /\ Scheduled(a) \in AutoType /\ Scheduled(a).state = a.state
          /\ Scheduled(a).dirty /\ Scheduled(a).debounce
      BY <2>1, <2>5, ScheduledIs
    <3> QED
      BY <2>1, <3>1, <3>2 DEF Scheduler
  <2> QED
    BY <1>2, <2>2, <2>3, <2>4, <2>5 DEF AutoType
<1>7. ASSUME ok, Pending PROVE Pending' \/ (job'.pc = "collect" /\ job'.forced)
  <2>1. CASE queue = <<>>
    <3>1. ~again /\ chained = <<>>
      BY <1>3, <1>7, <2>1
    <3>2. watch \/ Scheduler(auto) \/ ctx.cleared
      BY <1>7, <3>1 DEF Pending
    <3>3. Scheduler(auto) => Scheduler(auto')
      BY <1>6, <3>1
    <3> QED
      BY <1>5, <3>2, <3>3 DEF Pending, Scheduler
  <2> QED
    BY <1>5, <2>1
<1> QED
  BY <1>2, <1>4, <1>5, <1>6, <1>7

\* A save that fails says so.
LEMMA FailureIsKnown ==
    ASSUME Shape, KnownInv, job # Idle, NEW status, SaveFails(status), UNCHANGED used \/
           used' = [used EXCEPT !.events = @ + 1]
    PROVE  KnownInv'
<1> DEFINE settled == [ctx EXCEPT !.status = status]
<1>1. /\ Settles(FALSE, settled) /\ failed' = TRUE /\ UNCHANGED <<watch, load, savedUpTo>> /\ CountsInv
      /\ DOMAIN used' = {"writes", "events"} /\ used'.writes = used.writes
  BY EventsCount DEF SaveFails, KnownInv
<1>2. DOMAIN settled = CtxFields /\ settled.cleared = ctx.cleared
  BY StatusKeepsShape DEF Shape
<1> HIDE DEF settled
<1>3. /\ auto' \in AutoType /\ chained' \in Seq({"user", "auto"}) /\ auto'.state # "boot"
      /\ auto'.debounce \/ auto'.max = "armed" => auto'.dirty
      /\ job'.pc \in {"idle", "collect"}
  BY <1>1, <1>2, SettlesKnows
<1>4. CountsInv'
  BY <1>1, <1>3 DEF KnownInv, CountsInv, Exported
<1> QED
  BY <1>1, <1>3, <1>4 DEF KnownInv, SinceInv, UnsavedInv, Exported

\* A save that settles without a commit, skipped or kept out by a clear, was
\* not the one to cover a write, or the clear will.
LEMMA ListIsKnown == Shape /\ KnownInv /\ List => KnownInv'
<1> SUFFICES ASSUME Shape, KnownInv, List PROVE KnownInv'
  OBVIOUS
<1>1. /\ CountsInv /\ job.pc = "list" /\ UNCHANGED <<watch, load, used, savedUpTo, failed>>
      /\ job # Idle /\ DOMAIN job = JobFields /\ auto.state # "boot"
  BY DEF List, hist, Idle, KnownInv, CountsInv, Shape, JobShape
<1>2. CASE ~(Skips \/ ctx.cleared)
  <2>1. /\ job' = [job EXCEPT !.pc = "export", !.inventory = Present(fs)]
        /\ UNCHANGED <<ctx, chained, auto>>
    BY <1>2 DEF List
  <2>2. job'.pc = "export" /\ job'.forced = job.forced
    BY <1>1, <2>1 DEF JobFields
  <2>3. CountsInv'
    BY <1>1, <2>1, <2>2 DEF CountsInv, Exported
  <2>4. Pending' = Pending
    BY <1>1, <2>1 DEF Pending
  <2> QED
    BY <1>1, <2>2, <2>3, <2>4 DEF KnownInv, SinceInv, UnsavedInv, Exported
<1>3. CASE Skips \/ ctx.cleared
  <2> DEFINE settled == IF Skips THEN [ctx EXCEPT !.status = "clean"] ELSE ctx
  <2>1. Settles(TRUE, settled)
    BY <1>3 DEF List
  <2>2. DOMAIN settled = CtxFields /\ settled.cleared = ctx.cleared
    BY StatusKeepsShape DEF Shape, CtxShape
  <2> HIDE DEF settled
  <2>3. /\ auto' \in AutoType /\ chained' \in Seq({"user", "auto"}) /\ auto'.state # "boot"
        /\ auto'.debounce \/ auto'.max = "armed" => auto'.dirty
        /\ job'.pc \in {"idle", "collect"}
        /\ Pending => Pending' \/ (job'.pc = "collect" /\ job'.forced)
    BY <1>1, <2>1, <2>2, SettlesKnows
  <2>4. CountsInv'
    BY <1>1, <2>3 DEF CountsInv, Exported
  <2>5. job.forced => Pending
    BY <1>3 DEF Skips, Pending
  <2> QED
    BY <1>1, <2>3, <2>4, <2>5 DEF KnownInv, SinceInv, UnsavedInv, Exported
<1> QED
  BY <1>2, <1>3

\* What the export takes is all that is written.
LEMMA ExportIsKnown == Shape /\ KnownInv /\ (Collect \/ Export) => KnownInv'
<1> SUFFICES ASSUME Shape, KnownInv, Collect \/ Export PROVE KnownInv'
  OBVIOUS
<1>1. /\ CountsInv /\ UNCHANGED <<watch, ctx, chained, auto, load, used, savedUpTo, failed>>
      /\ job # Idle /\ DOMAIN job = JobFields /\ auto.state # "boot"
      /\ used.writes \in Nat
  BY DEF Collect, Export, hist, Idle, KnownInv, CountsInv, Shape, JobShape
<1>2. Pending' = Pending
  BY <1>1 DEF Pending
<1>3. CASE Collect
  <2>1. job.pc = "collect" /\ job' = [job EXCEPT !.pc = "list", !.sig = Present(fs)]
    BY <1>3 DEF Collect
  <2>2. job'.pc = "list" /\ job'.forced = job.forced
    BY <1>1, <2>1 DEF JobFields
  <2>3. CountsInv'
    BY <1>1, <2>2 DEF CountsInv, Exported
  <2> QED
    BY <1>1, <1>2, <2>1, <2>2, <2>3 DEF KnownInv, SinceInv, UnsavedInv, Exported
<1>4. CASE Export
  <2>1. job' = [job EXCEPT !.pc = "pointer", !.data = fs, !.upTo = used.writes]
    BY <1>4 DEF Export
  <2>2. job'.pc = "pointer" /\ job'.upTo = used.writes
    BY <1>1, <2>1 DEF JobFields
  <2>3. CountsInv'
    BY <1>1, <2>2 DEF CountsInv, Exported
  <2> QED
    BY <1>1, <2>2, <2>3 DEF KnownInv, SinceInv, UnsavedInv, Exported
<1> QED
  BY <1>3, <1>4

\* The store's part of a save changes nothing that is known.
StoreGoesOn ==
    /\ Exported /\ Exported' /\ job'.upTo = job.upTo
    /\ UNCHANGED <<watch, ctx, chained, auto, load, used, savedUpTo, failed>>

\* A save that goes on in the store covers what it covered before.
LEMMA StoreIsKnown == KnownInv /\ StoreGoesOn => KnownInv'
<1> SUFFICES ASSUME KnownInv, StoreGoesOn PROVE KnownInv'
  OBVIOUS
<1>1. Pending' = Pending
  BY DEF StoreGoesOn, Pending
<1>2. CountsInv'
  BY DEF KnownInv, CountsInv, StoreGoesOn, Exported, Idle
<1>3. SinceInv'
  BY <1>1 DEF KnownInv, SinceInv, StoreGoesOn
<1>4. UnsavedInv'
  BY <1>1 DEF KnownInv, UnsavedInv, StoreGoesOn, Exported
<1> QED
  BY <1>2, <1>3, <1>4 DEF KnownInv

\* The steps in the store go on, or fail, which is remembered until a save completes.
LEMMA StoreStepsAreKnown ==
    ASSUME Shape, KnownInv, ReadPointer \/ PutChunk \/ PutManifest \/ Verify
    PROVE  KnownInv'
<1>1. Exported /\ job # Idle /\ DOMAIN job = JobFields
  BY DEF ReadPointer, PutChunk, PutManifest, Verify, Exported, Idle, Shape, JobShape
<1>2. CASE ReadPointer
  <2>1. CASE OverQuota
    BY <1>1, <1>2, <2>1, FailureIsKnown DEF ReadPointer
  <2>2. CASE ~OverQuota
    <3> DEFINE gen == Max(pointer.current, pointer.lastKnownGood) + 1
    <3>1. /\ job' = [job EXCEPT !.pc = "chunks", !.old = pointer, !.gen = gen]
          /\ UNCHANGED <<watch, ctx, chained, auto, load, used, savedUpTo, failed>>
      BY <1>2, <2>2 DEF ReadPointer, hist
    <3> HIDE DEF gen
    <3>2. StoreGoesOn
      BY <1>1, <3>1 DEF StoreGoesOn, Exported, JobFields
    <3> QED
      BY <3>2, StoreIsKnown
  <2> QED
    BY <2>1, <2>2
<1>3. CASE PutChunk
  <2>1. /\ \/ job' = [job EXCEPT !.pc = "manifest"]
           \/ job' = [job EXCEPT !.at = @ + 1]
        /\ UNCHANGED <<watch, ctx, chained, auto, load, used, savedUpTo, failed>> /\ job.pc = "chunks"
    BY <1>3 DEF PutChunk, hist
  <2>2. StoreGoesOn
    BY <1>1, <2>1 DEF StoreGoesOn, Exported, JobFields
  <2> QED
    BY <2>2, StoreIsKnown
<1>4. CASE PutManifest
  <2>1. StoreGoesOn
    BY <1>1, <1>4 DEF PutManifest, hist, StoreGoesOn, Exported, JobFields
  <2> QED
    BY <2>1, StoreIsKnown
<1>5. CASE Verify
  <2>1. CASE SaveFails("corrupt")
    BY <1>1, <1>5, <2>1, FailureIsKnown DEF Verify
  <2>2. CASE ~SaveFails("corrupt")
    <3>1. /\ job' = [job EXCEPT !.pc = "commit"]
          /\ UNCHANGED <<watch, ctx, chained, auto, load, used, savedUpTo, failed>>
      BY <1>5, <2>2 DEF Verify, hist
    <3>2. StoreGoesOn
      BY <1>1, <3>1 DEF StoreGoesOn, Exported, JobFields
    <3> QED
      BY <3>2, StoreIsKnown
  <2> QED
    BY <2>1, <2>2
<1> QED
  BY <1>2, <1>3, <1>4, <1>5

\* A save that completes covers what it exported, and forgets a failure: what
\* was written since is known without it.
LEMMA CommitIsKnown == Shape /\ KnownInv /\ Commit => KnownInv'
<1> SUFFICES ASSUME Shape, KnownInv, Commit PROVE KnownInv'
  OBVIOUS
<1>0. /\ job.pc = "commit" /\ UNCHANGED <<watch, load, used>>
      /\ savedUpTo' = Max(savedUpTo, job.upTo) /\ Settles(TRUE, Recorded)
  BY ZenonT(30) DEF Commit
<1>1. CountsInv /\ job # Idle /\ Exported
  <2>1. CountsInv
    BY DEF KnownInv
  <2>2. job # Idle /\ Exported
    BY <1>0 DEF Idle, Exported
  <2> QED
    BY <2>1, <2>2
<1>2. /\ savedUpTo \in Nat /\ job.upTo \in Nat /\ used.writes \in Nat
      /\ savedUpTo <= used.writes /\ job.upTo <= used.writes
  BY <1>1 DEF CountsInv
<1>3. savedUpTo' \in Nat /\ savedUpTo' <= used.writes /\ job.upTo <= savedUpTo'
  BY <1>0, <1>2 DEF Max
<1>4. DOMAIN Recorded = CtxFields /\ Recorded.cleared = ctx.cleared
  BY DEF Recorded, Shape, CtxShape, CtxFields
<1>5. /\ auto' \in AutoType /\ chained' \in Seq({"user", "auto"}) /\ auto'.state # "boot"
      /\ auto'.debounce \/ auto'.max = "armed" => auto'.dirty
      /\ job'.pc \in {"idle", "collect"}
      /\ Pending => Pending' \/ (job'.pc = "collect" /\ job'.forced)
  <2>1. UNCHANGED watch
    BY <1>0
  <2> QED
    BY <1>0, <1>1, <1>4, <2>1, SettlesKnows
<1>6. CountsInv'
  BY <1>0, <1>1, <1>3, <1>5 DEF CountsInv, Exported
<1>7. savedUpTo' < used'.writes => Pending
  BY <1>0, <1>1, <1>2, <1>3 DEF KnownInv, SinceInv
<1> QED
  BY <1>5, <1>6, <1>7 DEF KnownInv, SinceInv, UnsavedInv, Exported

\* A clear covers what it deletes, or has failed; its flag is up until then.
LEMMA ClearIsKnown ==
    ASSUME SaveInv, KnownInv, NEW c \in Clears, ClearStep(c)
    PROVE  KnownInv'
<1>1. /\ UNCHANGED <<watch, job, chained, auto, load>> /\ CountsInv /\ Shape
      /\ DOMAIN used' = {"writes", "events"} /\ used'.writes = used.writes
      /\ used.writes \in Nat
  BY EventsCount DEF ClearStep, ClearStarts, ClearReads, ClearDeletes, ClearEnds, ClearFails,
     KnownInv, SaveInv, CountsInv
<1>2. CASE ClearStarts(c)
  <2>1. ctx'.cleared /\ UNCHANGED savedUpTo
    BY <1>1, <1>2 DEF ClearStarts, Shape, CtxShape, CtxFields, hist
  <2>2. CountsInv' /\ Pending'
    BY <1>1, <2>1 DEF CountsInv, Exported, Pending
  <2> QED
    BY <2>2 DEF KnownInv, SinceInv, UnsavedInv
<1>3. CASE ClearReads(c) \/ ClearDeletes(c)
  <2>1. UNCHANGED <<ctx, savedUpTo, failed>>
    BY <1>3 DEF ClearReads, ClearDeletes, hist
  <2>2. CountsInv' /\ Pending' = Pending
    BY <1>1, <2>1 DEF CountsInv, Exported, Pending
  <2> QED
    BY <1>1, <2>1, <2>2 DEF KnownInv, SinceInv, UnsavedInv, Exported
<1>4. CASE ClearEnds(c) \/ ClearFails(c)
  <2>1. Early
    BY <1>4 DEF ClearEnds, ClearFails, SaveInv, ClearInv
  <2>2. savedUpTo' = used.writes \/ (failed' /\ UNCHANGED savedUpTo)
    BY <1>4 DEF ClearEnds, ClearFails
  <2>3. CountsInv'
    BY <1>1, <2>2 DEF CountsInv, Exported
  <2> QED
    BY <1>1, <2>1, <2>2, <2>3 DEF Early, KnownInv, SinceInv, UnsavedInv, Exported
<1> QED
  BY <1>2, <1>3, <1>4 DEF ClearStep

\* A reload has nothing unsaved: the container is lost with the page.
LEMMA ReloadIsKnown == KnownInv /\ Reload => KnownInv'
<1> SUFFICES ASSUME KnownInv, Reload PROVE KnownInv'
  OBVIOUS
<1>1. /\ auto' = [NewAuto EXCEPT !.state = "boot"] /\ chained' = <<>> /\ job' = Idle
      /\ load' = [NoLoad EXCEPT !.pc = "pointer", !.boot = TRUE] /\ savedUpTo' = used.writes
      /\ DOMAIN used' = {"writes", "events"} /\ used'.writes = used.writes /\ used.writes \in Nat
  BY EventsCount DEF Reload, KnownInv, CountsInv
<1>2. auto' \in AutoType /\ auto'.state = "boot" /\ ~auto'.debounce /\ auto'.max = "off"
  BY <1>1 DEF NewAuto, AutoType
<1>3. DOMAIN load' = LoadFields /\ job'.pc = "idle"
  BY <1>1 DEF NoLoad, LoadFields, Idle
<1>4. CountsInv'
  BY <1>1, <1>2, <1>3 DEF CountsInv, Exported
<1> QED
  BY <1>1, <1>3, <1>4 DEF KnownInv, SinceInv, UnsavedInv, Exported

\* No step forgets a write.
LEMMA KnownStep == HasWatch /\ SaveInv /\ KnownInv /\ [Next]_vars => KnownInv'
<1> SUFFICES ASSUME HasWatch, SaveInv, KnownInv, [Next]_vars PROVE KnownInv'
  OBVIOUS
<1>0. Shape
  BY DEF SaveInv
<1>1. CASE Write \/ MarkDirty \/ Stop
  BY <1>0, <1>1, WriteIsKnown, ReportIsKnown, StopIsKnown
<1>2. CASE LoadStarts \/ LoadSteps \/ LoadFails
  BY <1>2, LoadsAreBeside, BesideIsKnown DEF LoadSteps
<1>3. CASE UserSave \/ PageHides \/ Timers
  BY <1>0, <1>3, UserSaveIsKnown, TimersAreKnown
<1>4. CASE SaveSteps
  BY <1>0, <1>4, ListIsKnown, ExportIsKnown, StoreStepsAreKnown, CommitIsKnown DEF SaveSteps
<1>5. CASE StoreFails
  <2>1. job # Idle
    BY <1>5 DEF StoreFails, Idle
  <2> QED
    BY <1>0, <1>5, <2>1, FailureIsKnown DEF StoreFails
<1>6. ASSUME NEW c \in Clears, ClearStep(c) PROVE KnownInv'
  BY <1>6, ClearIsKnown
<1>7. CASE Reload
  BY <1>7, ReloadIsKnown
<1>8. CASE UNCHANGED vars
  <2>1. UNCHANGED <<watch, ctx, job, chained, auto, load, used, savedUpTo, failed>>
    BY <1>8 DEF vars, hist
  <2>2. CountsInv' /\ Pending' = Pending
    BY <2>1 DEF KnownInv, CountsInv, Exported, Pending
  <2> QED
    BY <2>1, <2>2 DEF KnownInv, SinceInv, UnsavedInv, Exported
<1> QED
  BY <1>1, <1>2, <1>3, <1>4, <1>5, <1>6, <1>7, <1>8 DEF Next, ClearSteps, ClearStep

(* As long as nothing fails, a write that no completed save covers is known to *)
(* somebody: the watcher, a timer, or a save that exports it; in every         *)
(* behaviour that clears one at a time, where the tree can be watched          *)
(* (auto-snapshot.ts:89, context.ts:225).                                      *)
THEOREM WritesAreNotForgotten ==
    ASSUME HasWatch
    PROVE  Spec /\ []OneClearAtATime => []NothingForgotten
<1>1. KnownInv => NothingForgotten
  BY DEF KnownInv, UnsavedInv, Pending, Scheduler, Exported, NothingForgotten, Exports, Idle
<1>2. SaveInv /\ OneClearAtATime /\ KnownInv /\ [Next]_vars => KnownInv'
  BY KnownStep
<1> QED
  BY SaveInit, SaveStep, KnownInit, <1>1, <1>2, PTL DEF Spec

===============================================================================
