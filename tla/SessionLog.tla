----------------------------- MODULE SessionLog -----------------------------
(* One session's log of events as the application keeps it: a manifest and    *)
(* segment files in the container (src/persist/session-segments.ts), behind   *)
(* the provider that creates, appends, prepares, loads and lists sessions     *)
(* (src/plugin/persistence-service.ts, persistence-jsonl-store.ts).           *)
(*                                                                            *)
(* The operations of a session run one after the other (serialize, serial),   *)
(* except that a listing runs beside them.  Every write of a file is a        *)
(* temporary file and a rename, so a file changes in one step.  The container *)
(* dies with the page: a crash brings back the image that the last snapshot   *)
(* took, at any point of an operation.                                        *)
EXTENDS Naturals, Sequences, SequencesExt

CONSTANTS
    Capacity,       \* segmentMaxEvents
    MaxSeq,         \* bound: the events of the log
    MaxBatch,       \* bound: the events of one append
    MaxCompacts,    \* bound: the compactions
    MaxLoads,       \* bound: the loads and preparations
    MaxFaults,      \* bound: the writes that fail
    MaxCrashes      \* bound: the reloads of the page

ASSUME SessionLogAssumption ==
    /\ {Capacity, MaxBatch} \subseteq Nat \ {0}
    /\ {MaxSeq, MaxCompacts, MaxLoads, MaxFaults, MaxCrashes} \subseteq Nat

VARIABLES
    disk,           \* the container: the manifest and the segment files
    mem,            \* manifestValue, the manifest the log keeps in memory
    op,             \* the operation under way
    view,           \* the events of the preparation that is reserved
    caller,         \* the owner of the session: is it live, and its next seq
    list,           \* a listing under way
    image,          \* the container as the last snapshot saw it
    used,           \* how much of the bounds is used up
    acked,          \* history: the events the caller was told are stored
    torn            \* history: the last image was taken inside an append

vars == <<disk, mem, op, view, caller, list, image, used, acked, torn>>

None == [none |-> TRUE]
Idle == [pc |-> "idle"]
NoList == [pc |-> "none"]

(* A turn is two events here: it starts at an even seq and ends at an odd one. *)
(* An event is told from another of its seq by who wrote it: the caller of one  *)
(* life of the page, or the provider that closed an interrupted turn.           *)
Provider == MaxCrashes + 1
Event(seq, by) == [seq |-> seq, by |-> by]
Segment(index) == <<"segment", index>>
Compact(n)     == <<"compact", n>>

(* readText: a file that is not there reads as nothing.                       *)
Text(file) == IF file \in DOMAIN disk.files THEN disk.files[file] ELSE <<>>
Put(file, text) ==
    [f \in DOMAIN disk.files \union {file} |-> IF f = file THEN text ELSE disk.files[f]]

Read(manifest) == FlattenSeq([i \in DOMAIN manifest.segs |-> Text(manifest.segs[i])])
Contiguous(events) == \A i \in DOMAIN events : events[i].seq = i - 1

(* readManifest: what is in memory, or else what is stored.                   *)
Manifest == IF mem # None THEN mem ELSE disk.man
Stored   == IF disk.man = None THEN <<>> ELSE Read(disk.man)

Free == op = Idle
Fails == used.faults < MaxFaults /\ used' = [used EXCEPT !.faults = @ + 1]

-----------------------------------------------------------------------------
(* create: a session is new when neither memory nor the container has it.     *)

Create ==
    /\ Free /\ Manifest = None
    /\ op' = [pc |-> "create"]
    /\ UNCHANGED <<disk, mem, view, caller, list, image, used, acked, torn>>

Created ==
    /\ op.pc = "create"
    /\ op' = Idle
    /\ \/ /\ disk' = [disk EXCEPT !.man = [segs |-> <<>>, next |-> 0]]
          /\ mem' = disk'.man
          /\ caller' = [live |-> TRUE, next |-> 0]
          /\ UNCHANGED used
       \/ Fails /\ UNCHANGED <<disk, mem, caller>>
    /\ UNCHANGED <<view, list, image, acked, torn>>

-----------------------------------------------------------------------------
(* append: one event goes into the last segment, or opens a new one when that  *)
(* is full.  A segment that was touched is written once.                       *)
Filled(plan, e) ==
    LET fresh == plan.segs = <<>> \/ Len(plan.text) >= Capacity
        segs  == IF fresh THEN Append(plan.segs, Segment(Len(plan.segs))) ELSE plan.segs
        text  == IF fresh THEN <<e>> ELSE Append(plan.text, e)
        done  == IF fresh \/ plan.writes = <<>> THEN plan.writes ELSE Front(plan.writes)
    IN [segs |-> segs, text |-> text,
        writes |-> Append(done, [file |-> Last(segs), text |-> text])]

\* (mutant: the text of the last segment is not read back)
PlanFresh(batch) ==
    FoldLeft(Filled, [segs |-> Manifest.segs, text |-> <<>>, writes |-> <<>>], batch)

Plan(batch) ==
    FoldLeft(Filled,
             [segs   |-> Manifest.segs,
              text   |-> IF Manifest.segs = <<>> THEN <<>> ELSE Text(Last(Manifest.segs)),
              writes |-> <<>>],
             batch)

(* The descriptors in memory change at once, the next seq after the writes.    *)
StartsAppend(batch, by) ==
    /\ mem' = [Manifest EXCEPT !.segs = Plan(batch).segs]
    /\ op' = [pc |-> "segments", by |-> by, batch |-> batch, writes |-> Plan(batch).writes]

\* (mutant: the first seq of a batch is not compared with the next one)
SequencedLoosely(batch) == batch # <<>>
Sequenced(batch) == batch[1].seq = Manifest.next

\* (mutant: a reserved preparation keeps nobody out)
UnreservedAlways == TRUE
Unreserved == view = None

CallerAppends ==
    /\ Free /\ caller.live /\ Unreserved
    /\ Manifest # None
    /\ \E k \in 1..MaxBatch :
          LET batch == [i \in 1..k |-> Event(caller.next + i - 1, used.crashes)] IN
          /\ caller.next + k <= MaxSeq
          /\ Sequenced(batch)
          /\ StartsAppend(batch, "caller")
    /\ UNCHANGED <<disk, view, caller, list, image, used, acked, torn>>

WriteSegment ==
    /\ op.pc = "segments"
    /\ LET w == Head(op.writes) rest == Tail(op.writes) IN
       \/ /\ disk' = [disk EXCEPT !.files = Put(w.file, w.text)]
          /\ IF rest # <<>>
             THEN op' = [op EXCEPT !.writes = rest] /\ UNCHANGED mem
             ELSE /\ op' = [pc |-> "manifest", by |-> op.by, batch |-> op.batch]
                  /\ mem' = [mem EXCEPT !.next = @ + Len(op.batch)]
          /\ UNCHANGED used
       \/ Fails /\ op' = Idle /\ UNCHANGED <<disk, mem>>
    /\ UNCHANGED <<view, caller, list, image, acked, torn>>

(* Who is told: the caller that appended, or the one whose load closed a turn. *)
Told(by, events) ==
    /\ view' = IF by = "prepare" THEN events ELSE view
    /\ caller' = IF by = "caller" \/ ~caller.live
                 THEN [live |-> TRUE, next |-> Len(events)] ELSE caller

WriteManifest ==
    /\ op.pc = "manifest"
    /\ op' = Idle
    /\ \/ /\ disk' = [disk EXCEPT !.man = mem]
          /\ Told(op.by, Read(mem))
          /\ acked' = Read(mem)
          /\ UNCHANGED used
       \/ Fails /\ UNCHANGED <<disk, view, caller, acked>>
    /\ UNCHANGED <<mem, list, image, torn>>

-----------------------------------------------------------------------------
(* load and prepare: the log is read, a turn left open is closed by an event    *)
(* of the provider, and a preparation reserves the session until it is disposed. *)

Closers(events) == IF Len(events) % 2 = 1 THEN <<Event(Len(events), Provider)>> ELSE <<>>

Loads(by) ==
    LET events == Read(Manifest) IN
    /\ Free /\ Manifest # None
    /\ used.loads < MaxLoads
    /\ by = "prepare" => view = None
    /\ Contiguous(events)
    /\ used' = [used EXCEPT !.loads = @ + 1]
    /\ \/ /\ Closers(events) = <<>>
          /\ mem' = Manifest
          /\ Told(by, events)
          /\ UNCHANGED op
       \/ /\ Closers(events) # <<>>
          /\ Sequenced(Closers(events))
          /\ StartsAppend(Closers(events), by)
          /\ UNCHANGED <<view, caller>>
    /\ UNCHANGED <<disk, list, image, acked, torn>>

Release ==
    /\ view # None
    /\ view' = None
    /\ UNCHANGED <<disk, mem, op, caller, list, image, used, acked, torn>>

-----------------------------------------------------------------------------
(* compact: everything is copied into one file of a new name, the manifest is   *)
(* switched, and then the old files are removed.                                *)

\* (mutant: the old files are removed before the switch)
CompactStepsEager ==
    <<"replace", "remove", "switch">>
CompactSteps ==
    <<"replace", "switch", "remove">>

After(pc) == LET i == CHOOSE i \in DOMAIN CompactSteps : CompactSteps[i] = pc
             IN IF i = Len(CompactSteps) THEN "idle" ELSE CompactSteps[i + 1]
Advanced == IF After(op.pc) = "idle" THEN Idle ELSE [op EXCEPT !.pc = After(op.pc)]

CompactStarts ==
    LET events == Read(Manifest) file == Compact(used.compacts) IN
    /\ Free /\ Manifest # None
    /\ used.compacts < MaxCompacts
    /\ Contiguous(events)
    /\ used' = [used EXCEPT !.compacts = @ + 1]
    /\ mem' = Manifest
    /\ op' = [pc |-> "replace", file |-> file, text |-> events, old |-> Manifest.segs,
              next |-> [Manifest EXCEPT !.segs = IF events = <<>> THEN <<>> ELSE <<file>>]]
    /\ UNCHANGED <<disk, view, caller, list, image, acked, torn>>

Replace ==
    /\ op.pc = "replace"
    /\ \/ /\ disk' = [disk EXCEPT !.files = Put(op.file, op.text)]
          /\ op' = Advanced
          /\ UNCHANGED used
       \/ Fails /\ op' = Idle /\ UNCHANGED disk
    /\ UNCHANGED <<mem, view, caller, list, image, acked, torn>>

Switch ==
    /\ op.pc = "switch"
    /\ \/ /\ disk' = [disk EXCEPT !.man = op.next]
          /\ mem' = op.next
          /\ op' = Advanced
          /\ UNCHANGED used
       \/ Fails /\ op' = Idle /\ UNCHANGED <<disk, mem>>
    /\ UNCHANGED <<view, caller, list, image, acked, torn>>

(* A file that cannot be removed is left behind.                               *)
RemoveOld ==
    /\ op.pc = "remove"
    /\ IF op.old = <<>>
       THEN op' = Advanced /\ UNCHANGED <<disk, used>>
       ELSE /\ op' = [op EXCEPT !.old = Tail(@)]
            /\ \/ /\ disk' = [disk EXCEPT !.files =
                                 [f \in DOMAIN @ \ {Head(op.old)} |-> @[f]]]
                  /\ UNCHANGED used
               \/ Fails /\ UNCHANGED disk
    /\ UNCHANGED <<mem, view, caller, list, image, acked, torn>>

-----------------------------------------------------------------------------
(* list, listSnapshots: a copy of the manifest, then one segment at a time,     *)
(* beside the operations.                                                       *)

ListStarts ==
    /\ list = NoList /\ Manifest # None
    /\ mem' = Manifest
    /\ list' = [pc |-> "reading", segs |-> Manifest.segs, got |-> <<>>, floor |-> acked]
    /\ UNCHANGED <<disk, op, view, caller, image, used, acked, torn>>

\* (mutant: a segment that is not there reads as empty, as in readRaw)
ThereOrEmpty(file) == file \notin {}
There(file) == file \in DOMAIN disk.files

ListReads ==
    /\ list.pc = "reading" /\ list.segs # <<>>
    /\ list' = IF There(Head(list.segs))
               THEN [list EXCEPT !.segs = Tail(@), !.got = @ \o Text(Head(list.segs))]
               ELSE NoList
    /\ UNCHANGED <<disk, mem, op, view, caller, image, used, acked, torn>>

ListReturns ==
    /\ list.pc = "reading" /\ list.segs = <<>>
    /\ list' = IF Contiguous(list.got) THEN [list EXCEPT !.pc = "returned"] ELSE NoList
    /\ UNCHANGED <<disk, mem, op, view, caller, image, used, acked, torn>>

ListEnds ==
    /\ list.pc = "returned"
    /\ list' = NoList
    /\ UNCHANGED <<disk, mem, op, view, caller, image, used, acked, torn>>

-----------------------------------------------------------------------------
(* The page: the snapshot of the container, and its reload from one.           *)

Snapshot ==
    /\ used.crashes < MaxCrashes
    /\ image # [disk |-> disk, acked |-> acked]
    /\ image' = [disk |-> disk, acked |-> acked]
    /\ UNCHANGED <<disk, mem, op, view, caller, list, used, acked, torn>>

Crash ==
    /\ used.crashes < MaxCrashes
    /\ used' = [used EXCEPT !.crashes = @ + 1]
    /\ disk' = image.disk
    /\ acked' = image.acked
    /\ torn' = (Stored' # image.acked)
    /\ mem' = None /\ op' = Idle /\ view' = None /\ list' = NoList
    /\ caller' = [live |-> FALSE, next |-> 0]
    /\ UNCHANGED image

-----------------------------------------------------------------------------
Init ==
    /\ disk = [man |-> None, files |-> <<>>]
    /\ mem = None
    /\ op = Idle
    /\ view = None
    /\ caller = [live |-> FALSE, next |-> 0]
    /\ list = NoList
    /\ image = [disk |-> disk, acked |-> <<>>]
    /\ used = [compacts |-> 0, loads |-> 0, faults |-> 0, crashes |-> 0]
    /\ acked = <<>>
    /\ torn = FALSE

Next ==
    \/ Create \/ Created
    \/ CallerAppends \/ WriteSegment \/ WriteManifest
    \/ Loads("load") \/ Loads("prepare") \/ Release
    \/ CompactStarts \/ Replace \/ Switch \/ RemoveOld
    \/ ListStarts \/ ListReads \/ ListReturns \/ ListEnds
    \/ Snapshot \/ Crash

Spec == Init /\ [][Next]_vars

-----------------------------------------------------------------------------
Events == [seq : Nat, by : 0..Provider]

(* Every variable has its type, and the manifest in memory counts at most the  *)
(* events that were ever written.                                              *)
TypeOK ==
    /\ disk.man # None => disk.man.next \in Nat
    /\ \A f \in DOMAIN disk.files : disk.files[f] \in Seq(Events)
    /\ op.pc \in {"idle", "create", "segments", "manifest", "replace", "switch", "remove"}
    /\ view # None => view \in Seq(Events)
    /\ acked \in Seq(Events)
    /\ list.pc \in {"none", "reading", "returned"}
    /\ mem # None => mem.next <= MaxSeq + 1

(* append resolves only when the batch is durable: an event that the caller was *)
(* told of is in a file that the stored manifest names, through compactions,    *)
(* failing writes and reloads.                                                  *)
AckedIsKept == ToSet(acked) \subseteq ToSet(Stored)

(* Between operations the log is one run of seqs from 0 that the manifest       *)
(* counts exactly, so the next append and the closers of a load are accepted,   *)
(* unless a write failed or the page came back inside an append.                *)
SessionIsWhole ==
    Free /\ disk.man # None /\ used.faults = 0 /\ ~torn =>
        /\ Contiguous(Stored)
        /\ Len(Stored) = disk.man.next
        /\ mem \in {None, disk.man}

(* A listing that returns beside appends and compactions has every event that   *)
(* was acknowledged when it began: readFrom refuses a segment that is gone.     *)
ListerSeesAcked == list.pc = "returned" => ToSet(list.floor) \subseteq ToSet(list.got)

(* While a preparation is reserved the log is the one it was made of, through   *)
(* loads and compactions: append refuses a session that is reserved.            *)
PreparedIsCurrent == view # None => Read(Manifest) = view

(* Stored events are never rewritten: a step only adds events at the end of     *)
(* what the manifest names, whatever it moves to another file.                  *)
NothingIsRewritten ==
    [][used'.crashes = used.crashes /\ used'.faults = 0 => IsPrefix(Stored, Stored')]_vars

(* The comment of append says its one write per segment keeps crash-safe tails: *)
(* between operations, after any crash, the stored log is one that a load can   *)
(* close and that the next append continues.                                    *)
TailsAreCrashSafe ==
    Free /\ disk.man # None /\ used.faults = 0 => Len(Stored) = disk.man.next
=============================================================================
