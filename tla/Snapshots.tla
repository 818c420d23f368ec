------------------------------ MODULE Snapshots ------------------------------
(* The snapshots of a workspace: the persistence context of an instance       *)
(* (src/persist/context.ts), its binary store of generations in IndexedDB     *)
(* (binary-v2.ts), the verified restore (restore-staging.ts) and the page's   *)
(* auto snapshot controller (src/app/auto-snapshot.ts).                       *)
(*                                                                            *)
(* Everything runs on the one thread of the page; an action is what happens   *)
(* between two awaits.  The container's file system is written by programs at *)
(* any time, and is lost with the page: what survives a reload is what        *)
(* IndexedDB holds.                                                           *)
EXTENDS Naturals, Sequences, FiniteSets

CONSTANTS
    Files,          \* the paths of the workspace
    Chunks,         \* how many chunks an export is cut into
    Quota,          \* maxBytes, a file counting for one byte
    HasWatch,       \* whether the container can watch the tree
    MaxWrites,      \* bound: the changes programs make
    MaxClears,      \* bound: the clears
    MaxEvents       \* bound: saves asked for, clears, restores, failures and reloads together

ASSUME SnapshotsAssumption ==
    /\ Chunks \in Nat \ {0}
    /\ {Quota, MaxWrites, MaxClears, MaxEvents} \subseteq Nat
    /\ HasWatch \in BOOLEAN

VARIABLES
    fs,             \* the container: the version of each file, 0 when it is absent
    watch,          \* a change the watcher has not reported yet
    chunks,         \* IndexedDB: snapshot-v2-chunks
    manifests,      \* IndexedDB: snapshot-v2-manifests
    pointer,        \* IndexedDB: snapshot-v2-pointers
    ctx,            \* the context: its dirty mark, status, cleared flag, last signature
    job,            \* the save in flight
    chained,        \* forced saves that wait for it, in order
    auto,           \* the auto snapshot controller
    wipe,           \* the clears
    load,           \* the restore in progress
    used,           \* how much of the bounds is used up
    savedUpTo,      \* history: the writes that need no further save
    erasedUpTo,     \* history: the newest clear that has completed
    failed,         \* history: a save or a clear has failed since the last completed save
    halfWiped       \* history: a clear has begun to delete and the pointer is still there

idb  == <<chunks, manifests, pointer>>
hist == <<savedUpTo, erasedUpTo, failed, halfWiped>>
vars == <<fs, watch, idb, ctx, job, chained, auto, wipe, load, used, hist>>

Clears == 1..MaxClears
NoGen  == 0
Empty  == [f \in Files |-> 0]
NoData == <<>>
Present(tree) == {f \in Files : tree[f] # 0}

Idle    == [pc |-> "idle"]
NoLoad  == [pc |-> "none", boot |-> FALSE, todo |-> <<>>, before |-> NoData, image |-> NoData]
NewCtx  == [dirty |-> FALSE, status |-> "clean", cleared |-> FALSE, known |-> FALSE, sig |-> {}]
NewAuto == [state |-> "on", dirty |-> FALSE, debounce |-> FALSE, max |-> "off",
            busy |-> FALSE, waiting |-> FALSE]

Manifest(g) == CHOOSE m \in manifests : m.gen = g

(* readGeneration: the manifest is there, every chunk is, and the hash agrees. *)
Whole(g) ==
    \E m \in manifests :
        /\ m.gen = g
        /\ \A i \in 1..Chunks : \E c \in chunks : c.gen = g /\ c.at = i /\ c.data = m.data

Max(a, b) == IF a > b THEN a ELSE b
ClearsBegun == {c \in Clears : wipe[c].pc # "none"}
Begun == IF ClearsBegun = {} THEN 0 ELSE CHOOSE c \in ClearsBegun : \A d \in ClearsBegun : d <= c

-----------------------------------------------------------------------------
(* Programs write, and the watcher tells the context.                         *)

Write ==
    /\ used.writes < MaxWrites
    /\ auto.state # "boot"
    /\ \E f \in Files, v \in {0, used.writes + 1} :
          /\ fs[f] # v
          /\ fs' = [fs EXCEPT ![f] = v]
    /\ used' = [used EXCEPT !.writes = @ + 1]
    /\ watch' = HasWatch
    /\ UNCHANGED <<idb, ctx, job, chained, auto, wipe, load, hist>>

(* scheduleDirty: the debounce timer starts again, the other one only once.    *)
\* (mutant: what becomes dirty during a save is not scheduled)
ScheduledWhenIdle(a) ==
    IF a.state # "on" \/ a.busy THEN a
    ELSE [a EXCEPT !.dirty = TRUE, !.debounce = TRUE, !.max = IF @ = "off" THEN "armed" ELSE @]

Scheduled(a) ==
    IF a.state # "on" THEN a
    ELSE [a EXCEPT !.dirty = TRUE, !.debounce = TRUE, !.max = IF @ = "off" THEN "armed" ELSE @]

MarkDirty ==
    /\ watch
    /\ watch' = FALSE
    /\ ctx' = [ctx EXCEPT !.dirty = TRUE, !.status = IF @ = "saving" THEN @ ELSE "dirty"]
    /\ auto' = Scheduled(auto)
    /\ UNCHANGED <<fs, idb, job, chained, wipe, load, used, hist>>

-----------------------------------------------------------------------------
(* Saving: one save is in flight at a time.                                   *)

NewJob(owner, forced) ==
    [pc |-> "collect", owner |-> owner, forced |-> forced \/ ctx.dirty, sig |-> {}, inventory |-> {},
     data |-> NoData, old |-> pointer, gen |-> NoGen, at |-> 1,
     upTo |-> 0, begun |-> Begun, erased |-> erasedUpTo]

(* save(fs, true) while one is in flight waits for it and starts over.         *)
Save(owner) ==
    IF job = Idle
    THEN /\ job' = NewJob(owner, TRUE)
         /\ ctx' = [ctx EXCEPT !.status = "saving"]
         /\ UNCHANGED chained
    ELSE /\ chained' = Append(chained, owner)
         /\ UNCHANGED <<job, ctx>>

(* A save from a command, a settings write, a session's flush or the page.    *)
UserSave ==
    /\ auto.state # "boot"
    /\ used.events < MaxEvents
    /\ used' = [used EXCEPT !.events = @ + 1]
    /\ \/ Save("user")
       \/ /\ job = Idle
          /\ \E aged \in {FALSE, ctx.known} : job' = NewJob("user", aged)
          /\ ctx' = [ctx EXCEPT !.status = "saving"]
          /\ UNCHANGED chained
    /\ UNCHANGED <<fs, watch, idb, auto, wipe, load, hist>>

(* The controller's flush.                                                    *)
Flush(a) ==
    IF a.busy
    THEN /\ auto' = [a EXCEPT !.waiting = TRUE]
         /\ UNCHANGED <<job, chained, ctx>>
    ELSE /\ auto' = [a EXCEPT !.dirty = FALSE, !.debounce = FALSE, !.max = "off", !.busy = TRUE]
         /\ Save("auto")

DebounceFires ==
    /\ auto.state = "on" /\ auto.debounce
    /\ Flush([auto EXCEPT !.debounce = FALSE])
    /\ UNCHANGED <<fs, watch, idb, wipe, load, used, hist>>

MaxAgeFires ==
    /\ auto.state = "on" /\ auto.max = "armed"
    /\ Flush([auto EXCEPT !.max = "fired"])
    /\ UNCHANGED <<fs, watch, idb, wipe, load, used, hist>>

PageHides ==
    /\ auto.state = "on"
    /\ used.events < MaxEvents
    /\ used' = [used EXCEPT !.events = @ + 1]
    /\ Flush(auto)
    /\ UNCHANGED <<fs, watch, idb, wipe, load, hist>>

Stop ==
    /\ auto.state = "on"
    /\ auto' = [auto EXCEPT !.state = "stopped", !.debounce = FALSE, !.max = "off"]
    /\ UNCHANGED <<fs, watch, idb, ctx, job, chained, wipe, load, used, hist>>

(* The controller's own save has settled: what became dirty meanwhile is       *)
(* scheduled again, or saved at once when a flush waits for it.                *)
AutoAfter(mine) ==
    IF ~mine THEN auto
    ELSE LET a == [auto EXCEPT !.busy = FALSE, !.waiting = FALSE]
         IN  IF ~auto.dirty \/ auto.state # "on" THEN a
             ELSE IF auto.waiting
                  THEN [a EXCEPT !.dirty = FALSE, !.debounce = FALSE, !.max = "off", !.busy = TRUE]
                  ELSE Scheduled(a)

(* A save settles: a failure rejects every save chained on it, a success       *)
(* starts the first of them, and the clears that waited go on.                 *)
\* (mutant: the controller is never told)
SettlesUnseen(ok, settled) ==
    /\ job' = Idle
    /\ ctx' = settled
    /\ chained' = <<>>
    /\ wipe' = [c \in Clears |-> IF wipe[c].pc = "wait" THEN [wipe[c] EXCEPT !.pc = "read"] ELSE wipe[c]]
    /\ UNCHANGED auto

\* (mutant: the saves chained on it are left behind)
SettlesAlone(ok, settled) ==
    /\ job' = Idle
    /\ ctx' = settled
    /\ wipe' = [c \in Clears |-> IF wipe[c].pc = "wait" THEN [wipe[c] EXCEPT !.pc = "read"] ELSE wipe[c]]
    /\ auto' = AutoAfter(FALSE)
    /\ UNCHANGED chained

Settles(ok, settled) ==
    LET mine  == job.owner = "auto" \/ (~ok /\ \E i \in DOMAIN chained : chained[i] = "auto")
        again == mine /\ auto.dirty /\ auto.state = "on" /\ auto.waiting
        queue == (IF ok THEN chained ELSE <<>>) \o (IF again THEN <<"auto">> ELSE <<>>)
    IN  /\ auto' = AutoAfter(mine)
        /\ wipe' = [c \in Clears |-> IF wipe[c].pc = "wait" THEN [wipe[c] EXCEPT !.pc = "read"] ELSE wipe[c]]
        /\ IF queue = <<>>
           THEN /\ job' = Idle
                /\ ctx' = settled
                /\ chained' = <<>>
           ELSE /\ job' = NewJob(Head(queue), TRUE)
                /\ ctx' = [settled EXCEPT !.status = "saving"]
                /\ chained' = Tail(queue)

Collect ==
    /\ job.pc = "collect"
    /\ job' = [job EXCEPT !.pc = "list", !.sig = Present(fs)]
    /\ UNCHANGED <<fs, watch, idb, ctx, chained, auto, wipe, load, used, hist>>

(* The inventory is listed; then the save is skipped or the export begins.     *)
Skips == ~job.forced /\ ctx.known /\ ctx.sig = {job.sig}

List ==
    /\ job.pc = "list"
    /\ IF Skips \/ ctx.cleared
       THEN Settles(TRUE, IF Skips THEN [ctx EXCEPT !.status = "clean"] ELSE ctx)
       ELSE /\ job' = [job EXCEPT !.pc = "export", !.inventory = Present(fs)]
            /\ UNCHANGED <<ctx, chained, auto, wipe>>
    /\ UNCHANGED <<fs, watch, idb, load, used, hist>>

Export ==
    /\ job.pc = "export"
    /\ job' = [job EXCEPT !.pc = "pointer", !.data = fs, !.upTo = used.writes]
    /\ UNCHANGED <<fs, watch, idb, ctx, chained, auto, wipe, load, used, hist>>

(* A failed step of the save; the controller does not try again by itself.     *)
SaveFails(status) ==
    /\ Settles(FALSE, [ctx EXCEPT !.status = status])
    /\ failed' = TRUE
    /\ UNCHANGED <<fs, watch, idb, load, savedUpTo, erasedUpTo, halfWiped>>

StoreFails ==
    /\ job.pc \in {"export", "pointer", "chunks", "manifest", "verify", "commit"}
    /\ used.events < MaxEvents
    /\ used' = [used EXCEPT !.events = @ + 1]
    /\ SaveFails("degraded")

Bytes(tree) == Cardinality(Present(tree))
OverQuota ==
    Bytes(job.data) + (IF \E m \in manifests : m.gen = pointer.current
                       THEN Bytes(Manifest(pointer.current).data) ELSE 0) > Quota

\* (mutant: the generation in use is written over)
ReadPointerReusing ==
    /\ job.pc = "pointer"
    /\ job' = [job EXCEPT !.pc = "chunks", !.old = pointer, !.gen = Max(pointer.current, 1)]
    /\ UNCHANGED <<fs, watch, idb, ctx, chained, auto, wipe, load, used, hist>>

ReadPointer ==
    /\ job.pc = "pointer"
    /\ IF OverQuota
       THEN SaveFails("quota-exceeded")
       ELSE /\ job' = [job EXCEPT !.pc = "chunks", !.old = pointer,
                                  !.gen = Max(pointer.current, pointer.lastKnownGood) + 1]
            /\ UNCHANGED <<fs, watch, idb, ctx, chained, auto, wipe, load, hist>>
    /\ UNCHANGED used

Put(set, entry) == {e \in set : ~(e.gen = entry.gen /\ e.at = entry.at)} \cup {entry}

PutChunk ==
    /\ job.pc = "chunks"
    /\ chunks' = Put(chunks, [gen |-> job.gen, at |-> job.at, data |-> job.data])
    /\ job' = IF job.at = Chunks THEN [job EXCEPT !.pc = "manifest"] ELSE [job EXCEPT !.at = @ + 1]
    /\ UNCHANGED <<fs, watch, manifests, pointer, ctx, chained, auto, wipe, load, used, hist>>

PutManifest ==
    /\ job.pc = "manifest"
    /\ manifests' = Put(manifests, [gen |-> job.gen, at |-> 0, data |-> job.data, inventory |-> job.inventory,
                                    begun |-> job.begun, erased |-> job.erased])
    /\ job' = [job EXCEPT !.pc = "verify"]
    /\ UNCHANGED <<fs, watch, chunks, pointer, ctx, chained, auto, wipe, load, used, hist>>

Verify ==
    /\ job.pc = "verify"
    /\ IF \A i \in 1..Chunks : \E c \in chunks : c.gen = job.gen /\ c.at = i /\ c.data = job.data
       THEN /\ job' = [job EXCEPT !.pc = "commit"]
            /\ UNCHANGED <<fs, watch, idb, ctx, chained, auto, wipe, load, hist>>
       ELSE SaveFails("corrupt")
    /\ UNCHANGED used

(* What the context records of a completed save: also that nothing is dirty,   *)
(* whatever was written since the export.                                      *)
Recorded == [ctx EXCEPT !.status = "saved", !.dirty = FALSE, !.known = TRUE, !.sig = {job.sig}]

(* The pointer is the last write; with it the save is done.                    *)
Commit ==
    /\ job.pc = "commit"
    /\ pointer' = [current |-> job.gen, lastKnownGood |-> job.old.current]
    /\ savedUpTo' = Max(savedUpTo, job.upTo)
    /\ Settles(TRUE, Recorded)
    /\ failed' = FALSE
    /\ UNCHANGED <<fs, watch, chunks, manifests, load, used, erasedUpTo, halfWiped>>

-----------------------------------------------------------------------------
(* Clearing: the flag keeps new saves out, the wait lets the old one finish.   *)

\* (mutant: the save in flight is not awaited)
ClearHurries(c) ==
    /\ auto.state # "boot"
    /\ c = Begun + 1
    /\ wipe' = [wipe EXCEPT ![c] = [pc |-> "read", todo |-> {}]]
    /\ ctx' = [ctx EXCEPT !.cleared = TRUE]
    /\ used.events < MaxEvents
    /\ used' = [used EXCEPT !.events = @ + 1]
    /\ UNCHANGED <<fs, watch, idb, job, chained, auto, load, hist>>

ClearStarts(c) ==
    /\ auto.state # "boot"
    /\ c = Begun + 1
    /\ wipe' = [wipe EXCEPT ![c] = [pc |-> IF job = Idle THEN "read" ELSE "wait", todo |-> {}]]
    /\ ctx' = [ctx EXCEPT !.cleared = TRUE]
    /\ used.events < MaxEvents
    /\ used' = [used EXCEPT !.events = @ + 1]
    /\ UNCHANGED <<fs, watch, idb, job, chained, auto, load, hist>>

ClearReads(c) ==
    /\ wipe[c].pc = "read"
    /\ wipe' = [wipe EXCEPT ![c] = [pc |-> "delete", todo |-> {pointer.current, pointer.lastKnownGood} \ {NoGen}]]
    /\ UNCHANGED <<fs, watch, idb, ctx, job, chained, auto, load, used, hist>>

(* One delete: the current generation first, of each its chunks in order when  *)
(* its manifest tells how many there are, then the manifest.                   *)
ClearDeletes(c) ==
    /\ wipe[c].pc = "delete" /\ wipe[c].todo # {}
    /\ LET g    == CHOOSE x \in wipe[c].todo : \A y \in wipe[c].todo : y <= x
           here == IF \E m \in manifests : m.gen = g THEN {e \in chunks : e.gen = g} ELSE {}
       IN  IF here # {}
           THEN /\ chunks' = chunks \ {CHOOSE e \in here : \A d \in here : e.at <= d.at}
                /\ UNCHANGED <<manifests, wipe>>
           ELSE /\ manifests' = {m \in manifests : m.gen # g}
                /\ wipe' = [wipe EXCEPT ![c].todo = @ \ {g}]
                /\ UNCHANGED chunks
    /\ halfWiped' = TRUE
    /\ UNCHANGED <<fs, watch, pointer, ctx, job, chained, auto, load, used, savedUpTo, erasedUpTo, failed>>

ClearEnds(c) ==
    /\ wipe[c].pc = "delete" /\ wipe[c].todo = {}
    /\ pointer' = [current |-> NoGen, lastKnownGood |-> NoGen]
    /\ wipe' = [wipe EXCEPT ![c] = [pc |-> "done", todo |-> {}]]
    /\ ctx' = [ctx EXCEPT !.known = FALSE, !.sig = {}, !.status = "clean", !.cleared = FALSE]
    /\ savedUpTo' = used.writes
    /\ erasedUpTo' = Max(erasedUpTo, c)
    /\ halfWiped' = FALSE
    /\ UNCHANGED <<fs, watch, chunks, manifests, job, chained, auto, load, used, failed>>

ClearFails(c) ==
    /\ wipe[c].pc \in {"read", "delete"}
    /\ used.events < MaxEvents
    /\ used' = [used EXCEPT !.events = @ + 1]
    /\ wipe' = [wipe EXCEPT ![c] = [pc |-> "failed", todo |-> {}]]
    /\ ctx' = [ctx EXCEPT !.cleared = FALSE]
    /\ failed' = TRUE
    /\ UNCHANGED <<fs, watch, idb, job, chained, auto, load, savedUpTo, erasedUpTo, halfWiped>>

-----------------------------------------------------------------------------
(* Restoring: the current generation, or else the last known good one, is      *)
(* verified, compared with its inventory in a staging tree, then mounted.      *)

LoadStarts ==
    /\ load.pc = "none" /\ auto.state # "boot"
    /\ used.events < MaxEvents
    /\ used' = [used EXCEPT !.events = @ + 1]
    /\ load' = [load EXCEPT !.pc = "pointer"]
    /\ UNCHANGED <<fs, watch, idb, ctx, job, chained, auto, wipe, hist>>

(* The restore is over; at boot the page goes on and starts its controller.    *)
Loaded(context) ==
    /\ load' = NoLoad
    /\ ctx' = context
    /\ auto' = IF load.boot THEN NewAuto ELSE auto

LoadReads ==
    /\ load.pc = "pointer"
    /\ IF pointer.current = NoGen
       THEN Loaded([ctx EXCEPT !.status = "clean"])
       ELSE /\ load' = [load EXCEPT !.pc = "check",
                                    !.todo = IF pointer.lastKnownGood \in {NoGen, pointer.current}
                                             THEN <<pointer.current>>
                                             ELSE <<pointer.current, pointer.lastKnownGood>>]
            /\ UNCHANGED <<ctx, auto>>
    /\ UNCHANGED <<fs, watch, idb, job, chained, wipe, used, hist>>

Imports(g) == Whole(g) /\ Manifest(g).inventory = Present(Manifest(g).data)

NextCandidate(status) ==
    IF Len(load.todo) = 1
    THEN Loaded([ctx EXCEPT !.status = status])
    ELSE /\ load' = [load EXCEPT !.pc = "check", !.todo = Tail(@)]
         /\ UNCHANGED <<ctx, auto>>

LoadChecks ==
    /\ load.pc = "check"
    /\ IF Imports(Head(load.todo))
       THEN /\ load' = [load EXCEPT !.pc = "mount", !.before = fs, !.image = Manifest(Head(load.todo)).data]
            /\ UNCHANGED <<ctx, auto>>
       ELSE NextCandidate("corrupt")
    /\ UNCHANGED <<fs, watch, idb, job, chained, wipe, used, hist>>

LoadMounts ==
    /\ load.pc = "mount"
    /\ fs' = [f \in Files |-> IF load.image[f] # 0 THEN load.image[f] ELSE fs[f]]
    /\ watch' = HasWatch
    /\ savedUpTo' = used.writes
    /\ load' = [load EXCEPT !.pc = "prune"]
    /\ UNCHANGED <<idb, ctx, job, chained, auto, wipe, used, erasedUpTo, failed, halfWiped>>

LoadPrunes ==
    /\ load.pc = "prune"
    /\ fs' = [f \in Files |-> IF load.image[f] # 0 THEN fs[f] ELSE 0]
    /\ watch' = HasWatch
    /\ Loaded([ctx EXCEPT !.known = TRUE, !.dirty = FALSE, !.status = "saved"])
    /\ UNCHANGED <<idb, job, chained, wipe, used, hist>>

(* The mount or the pruning fails: what was there before is mounted again.     *)
LoadFails ==
    /\ load.pc \in {"mount", "prune"}
    /\ used.events < MaxEvents
    /\ used' = [used EXCEPT !.events = @ + 1]
    /\ fs' = load.before
    /\ watch' = HasWatch
    /\ NextCandidate("degraded")
    /\ UNCHANGED <<idb, job, chained, wipe, hist>>

-----------------------------------------------------------------------------
(* The page is closed and opened again: only IndexedDB is left.                *)

Reload ==
    /\ used.events < MaxEvents
    /\ used' = [used EXCEPT !.events = @ + 1]
    /\ fs' = Empty
    /\ watch' = FALSE
    /\ ctx' = NewCtx
    /\ job' = Idle
    /\ chained' = <<>>
    /\ auto' = [NewAuto EXCEPT !.state = "boot"]
    /\ wipe' = [c \in Clears |-> IF wipe[c].pc \in {"wait", "read", "delete"}
                                 THEN [pc |-> "dead", todo |-> {}] ELSE wipe[c]]
    /\ load' = [NoLoad EXCEPT !.pc = "pointer", !.boot = TRUE]
    /\ savedUpTo' = used.writes
    /\ failed' = FALSE
    /\ UNCHANGED <<idb, erasedUpTo, halfWiped>>

-----------------------------------------------------------------------------
Init ==
    /\ fs = Empty
    /\ watch = FALSE
    /\ chunks = {} /\ manifests = {}
    /\ pointer = [current |-> NoGen, lastKnownGood |-> NoGen]
    /\ ctx = NewCtx
    /\ job = Idle
    /\ chained = <<>>
    /\ auto = NewAuto
    /\ wipe = [c \in Clears |-> [pc |-> "none", todo |-> {}]]
    /\ load = NoLoad
    /\ used = [writes |-> 0, events |-> 0]
    /\ savedUpTo = 0
    /\ erasedUpTo = 0
    /\ failed = FALSE
    /\ halfWiped = FALSE

SaveSteps  == Collect \/ List \/ Export \/ ReadPointer \/ PutChunk \/ PutManifest \/ Verify \/ Commit
ClearSteps == \E c \in Clears : ClearReads(c) \/ ClearDeletes(c) \/ ClearEnds(c)
LoadSteps  == LoadReads \/ LoadChecks \/ LoadMounts \/ LoadPrunes
Timers     == DebounceFires \/ MaxAgeFires

Next ==
    \/ Write \/ MarkDirty
    \/ UserSave \/ PageHides \/ Stop \/ Timers
    \/ SaveSteps \/ StoreFails
    \/ \E c \in Clears : ClearStarts(c) \/ ClearFails(c)
    \/ ClearSteps
    \/ LoadStarts \/ LoadSteps \/ LoadFails
    \/ Reload

Fairness ==
    /\ WF_vars(MarkDirty) /\ WF_vars(Timers)
    /\ WF_vars(SaveSteps) /\ WF_vars(ClearSteps) /\ WF_vars(LoadSteps)

Spec == Init /\ [][Next]_vars /\ Fairness

-----------------------------------------------------------------------------
TypeOK ==
    /\ fs \in [Files -> 0..MaxWrites]
    /\ watch \in BOOLEAN
    /\ job.pc \in {"idle", "collect", "list", "export", "pointer", "chunks", "manifest", "verify", "commit"}
    /\ job = Idle => chained = <<>>
    /\ auto.state \in {"boot", "on", "stopped"}
    /\ ctx.status \in {"clean", "dirty", "saving", "saved", "quota-exceeded", "corrupt", "degraded"}
    /\ \A c \in Clears : wipe[c].pc \in {"none", "wait", "read", "delete", "done", "failed", "dead"}
    /\ load.pc \in {"none", "pointer", "check", "mount", "prune"}
    /\ savedUpTo <= used.writes

(* Whatever the page was doing when it died, the generation the pointer names  *)
(* is whole, and so is the one kept behind it, unless a clear had begun to     *)
(* delete them.                                                                *)
ActiveIsWhole ==
    ~halfWiped =>
        \A g \in {pointer.current, pointer.lastKnownGood} \ {NoGen} : Whole(g)

(* A save that was in flight when a clear began never survives that clear.     *)
InFlightIsErased ==
    pointer.current # NoGen /\ ~halfWiped => Manifest(pointer.current).begun >= erasedUpTo

(* As long as nothing fails, a write that no completed save covers is known to *)
(* somebody: the watcher, a timer, or a save that exports it.                  *)
Exports ==
    \/ chained # <<>>
    \/ job.pc \in {"collect", "list", "export"}
    \/ job # Idle /\ job.upTo = used.writes
NothingForgotten ==
    savedUpTo < used.writes =>
        \/ watch \/ Exports
        \/ auto.debounce \/ auto.max = "armed" \/ (auto.busy /\ auto.dirty)
        \/ auto.state = "stopped" \/ ctx.cleared \/ failed

(* The context's comment on clear: the flag keeps out every save that starts   *)
(* while the snapshot is cleared, so none writes it back afterwards.            *)
ClearedStaysCleared ==
    pointer.current # NoGen => Manifest(pointer.current).erased >= erasedUpTo

(* The inventory of the current generation lists exactly its files.            *)
InventoryIsExact ==
    pointer.current # NoGen /\ ~halfWiped =>
        Manifest(pointer.current).inventory = Present(Manifest(pointer.current).data)

(* Writes are saved in the end, unless saving has failed or was stopped.       *)
EveryWriteIsSaved ==
    <>[](\/ savedUpTo = used.writes
         \/ auto.state = "stopped"
         \/ failed)
=============================================================================
