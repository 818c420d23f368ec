--------------------------- MODULE HostManagerProofs ---------------------------
(***************************************************************************)
(* A boot keeps the channel's epoch, and a host said to be ready can be     *)
(* reached, for any number of callers, attempts and processes, as long as   *)
(* no boot begins while a shutdown runs.                                    *)
(***************************************************************************)
EXTENDS HostManager, FiniteSetTheorems, TLAPS

-------------------------------------------------------------------------------
(* Types, without the bounds that TypeOK puts on counters.                  *)

CallShape == [pc: Pc, gen: Nat, attempt: Nat, proc: Proc \union {None}, epoch: Nat,
              boot: Caller \union {None}, shut: BOOLEAN]

Shape ==
    /\ mgr \in [st: State, gen: Nat, proc: Proc \union {None}]
    /\ ch \in [nonce: Nat, prepared: BOOLEAN, paused: BOOLEAN]
    /\ epochFile \in Nat
    /\ proc \in [Proc -> {"none", "starting", "up", "dead"}]
    /\ procEpoch \in [Proc -> Nat]
    /\ call \in [Caller -> CallShape]

-------------------------------------------------------------------------------
(* The invariant.                                                          *)

Booting == {"write", "spawn", "spawned", "probe", "sleep"}
Fencing == {"exit", "acked", "wait"}

Boots(c) == call[c].pc \in Booting
Owns(c)  == call[c].pc \in {"write", "spawn", "spawned", "probe"} /\ Current(c)

\* A shutdown that may fence the channel has superseded every boot, and none
\* begins before it is over.
FenceInv == \A c \in Caller : call[c].pc \in Fencing => mgr.st = "disposed"

\* One boot is current: each has its own generation.
GenInv ==
    /\ \A c \in Caller : Boots(c) => call[c].gen <= mgr.gen
    /\ \A c, d \in Caller : Boots(c) /\ Boots(d) /\ call[c].gen = call[d].gen => c = d

\* Each boot has an epoch of its own, and a prepared epoch belongs to none yet.
EpochInv ==
    /\ \A c \in Caller : Boots(c) =>
          call[c].epoch <= ch.nonce /\ (ch.prepared => call[c].epoch < ch.nonce)
    /\ \A c, d \in Caller : Boots(c) /\ Boots(d) /\ call[c].epoch = call[d].epoch => c = d

\* Once the current boot has written its epoch, no older one overwrites it.
FileInv ==
    \A c \in Caller : Owns(c) /\ call[c].pc # "write" =>
        /\ epochFile = call[c].epoch
        /\ \A d \in Caller : call[d].pc # "write"

\* Processes are spawned in order.
SpawnedInv == \E k \in 0..MaxProc : \A q \in Proc : proc[q] # "none" <=> q <= k

\* A process belongs to one boot, and to the manager while that boot probes it
\* or after it was found ready.
ProcInv ==
    /\ \A c \in Caller : call[c].pc \in {"spawned", "probe"} =>
          call[c].proc \in Proc /\ proc[call[c].proc] # "none"
    /\ \A c, d \in Caller :
          /\ call[c].pc \in {"spawned", "probe"} /\ call[d].pc \in {"spawned", "probe"}
          /\ call[c].proc = call[d].proc
          => c = d
    /\ mgr.proc # None => proc[mgr.proc] # "none"
    /\ \A c \in Caller : call[c].pc \in {"spawned", "probe"} /\ call[c].proc = mgr.proc =>
          call[c].pc = "probe" /\ Current(c)

\* The process of the current boot lives and has the page's epoch, or will.
LiveInv ==
    \A c \in Caller : Owns(c) /\ call[c].pc \in {"spawned", "probe"} =>
        /\ Alive(call[c].proc)
        /\ proc[call[c].proc] = "up" => procEpoch[call[c].proc] = ch.nonce
        /\ call[c].pc = "probe" => mgr.proc = call[c].proc

\* So does the process of a manager that is ready.
ReadyInv ==
    mgr.st = "ready" =>
        /\ mgr.proc \in Proc /\ Alive(mgr.proc)
        /\ ~ch.paused /\ ~ch.prepared
        /\ epochFile = ch.nonce /\ \A d \in Caller : call[d].pc # "write"
        /\ proc[mgr.proc] = "up" => procEpoch[mgr.proc] = ch.nonce

Inv ==
    /\ Shape /\ FenceInv /\ GenInv /\ EpochInv /\ BootOwnsChannel
    /\ FileInv /\ SpawnedInv /\ ProcInv /\ LiveInv /\ ReadyInv

LEMMA InvInit == Init => Inv
<1> SUFFICES ASSUME Init PROVE Inv
  OBVIOUS
<1>1. Shape
  BY DEF Init, Shape, CallShape, State, Pc, None
<1>2. \A c \in Caller : call[c].pc = "none"
  BY DEF Init
<1>3. SpawnedInv
  <2>1. 0 \in 0..MaxProc /\ \A q \in Proc : proc[q] # "none" <=> q <= 0
    BY HostManagerAssumption DEF Init, Proc
  <2> QED
    BY <2>1 DEF SpawnedInv
<1>4. mgr.proc = None /\ mgr.st = "unattached"
  BY DEF Init
<1> QED
  BY <1>1, <1>2, <1>3, <1>4
     DEF Inv, FenceInv, GenInv, EpochInv, BootOwnsChannel, FileInv, ProcInv, LiveInv,
         ReadyInv, Boots, Owns, Booting, Fencing

-------------------------------------------------------------------------------
(* What the helpers do.                                                    *)

\* One caller goes on, the others stay.
LEMMA GotoMoves ==
    ASSUME Shape, NEW c \in Caller, NEW pc \in Pc, call' = Goto(c, pc)
    PROVE  /\ call' \in [Caller -> CallShape]
           /\ call'[c].pc = pc /\ call'[c].gen = call[c].gen
           /\ call'[c].epoch = call[c].epoch /\ call'[c].proc = call[c].proc
           /\ \A d \in Caller \ {c} : call'[d] = call[d]
BY DEF Shape, CallShape, Goto

\* A call that settles leaves, with those that joined it.
LEMMA SettleMoves ==
    ASSUME Shape, NEW c \in Caller, NEW pc \in {"attached", "rejected"}, Settle(c, pc)
    PROVE  /\ call' \in [Caller -> CallShape]
           /\ call'[c].pc = pc
           /\ \A d \in Caller : call'[d].pc \in Booting \union Fencing =>
                 call'[d] = call[d] /\ d # c
BY DEF Shape, CallShape, Settle, Booting, Fencing, Pc, Stopping, Attaching

\* What a kill leaves.
LEMMA KillHits ==
    ASSUME Shape, NEW p, proc' = Killed(p)
    PROVE  /\ proc' \in [Proc -> {"none", "starting", "up", "dead"}]
           /\ \A q \in Proc : proc'[q] = "none" <=> proc[q] = "none"
           /\ \A q \in Proc : q # p => proc'[q] = proc[q]
BY DEF Shape, Killed, Alive

\* One boot is current.
LEMMA OneCurrent ==
    ASSUME GenInv, NEW c \in Caller, NEW d \in Caller,
           Boots(c), Boots(d), Current(c), Current(d)
    PROVE  c = d
BY DEF GenInv, Current

\* Callers leave or go on elsewhere; nobody else is concerned.
LEMMA AsideKeeps ==
    ASSUME Inv, UNCHANGED <<mgr, ch, epochFile, proc, procEpoch>>,
           call' \in [Caller -> CallShape],
           \A d \in Caller : call'[d].pc \in Booting \union Fencing => call'[d] = call[d]
    PROVE  Inv'
<1>1. Shape'
  BY DEF Inv, Shape
<1>2. FenceInv' /\ GenInv' /\ EpochInv'
  BY DEF Inv, FenceInv, GenInv, EpochInv, Boots, Booting, Fencing
<1>3. BootOwnsChannel' /\ FileInv' /\ LiveInv'
  BY DEF Inv, BootOwnsChannel, FileInv, LiveInv, Owns, Current, Alive, Booting
<1>4. SpawnedInv' /\ ReadyInv'
  BY DEF Inv, SpawnedInv, ReadyInv, Alive, Booting
<1>5. ProcInv'
  BY DEF Inv, ProcInv, Current, Booting
<1> QED
  BY <1>1, <1>2, <1>3, <1>4, <1>5 DEF Inv

-------------------------------------------------------------------------------
(* The steps.                                                              *)

LEMMA AttachKeeps ==
    ASSUME Inv, NEW c \in Caller, Attach(c) \/ AssetsFail(c) \/ Shutdown(c)
    PROVE  Inv'
<1>1. UNCHANGED <<mgr, ch, epochFile, proc, procEpoch>>
  BY DEF Attach, AssetsFail, Shutdown
<1>2. /\ call' \in [Caller -> CallShape]
      /\ \A d \in Caller : call'[d].pc \in Booting \union Fencing => call'[d] = call[d]
  <2>1. CASE Attach(c)
    BY <2>1, GotoMoves DEF Attach, Inv, Booting, Fencing, Pc, Stopping, Attaching
  <2>2. CASE AssetsFail(c)
    BY <2>2, SettleMoves DEF AssetsFail, Inv
  <2>3. CASE Shutdown(c)
    <3> DEFINE pc == IF svc.shutdownDone THEN "stopped" ELSE "closing"
               k  == Goto(c, pc)
    <3>1. call' = [k EXCEPT ![c].shut = TRUE]
      BY <2>3 DEF Shutdown, Goto
    <3>2. pc \in {"stopped", "closing"}
      OBVIOUS
    <3> HIDE DEF pc
    <3>3. /\ k \in [Caller -> CallShape] /\ k[c].pc = pc
          /\ \A d \in Caller \ {c} : k[d] = call[d]
      BY <3>2 DEF Inv, Shape, CallShape, Goto, Pc, Stopping
    <3> HIDE DEF k
    <3>4. /\ call' \in [Caller -> CallShape] /\ call'[c].pc = pc
          /\ \A d \in Caller \ {c} : call'[d] = call[d]
      BY <3>1, <3>3 DEF CallShape
    <3> QED
      BY <3>2, <3>4 DEF Booting, Fencing
  <2> QED
    BY <2>1, <2>2, <2>3
<1> QED
  BY <1>1, <1>2, AsideKeeps

\* The epoch a boot takes is newer than every other boot's.
LEMMA TakenIsNew ==
    ASSUME Inv
    PROVE  /\ Taken \in [nonce: Nat, prepared: BOOLEAN, paused: BOOLEAN]
           /\ ~Taken.prepared /\ Taken.nonce >= ch.nonce
           /\ \A c \in Caller : Boots(c) => call[c].epoch < Taken.nonce
<1>1. ch \in [nonce: Nat, prepared: BOOLEAN, paused: BOOLEAN] /\ call \in [Caller -> CallShape]
  BY DEF Inv, Shape
<1>2. /\ Prepared(FALSE) \in [nonce: Nat, prepared: BOOLEAN, paused: BOOLEAN]
      /\ Prepared(FALSE).nonce = IF ch.prepared THEN ch.nonce ELSE ch.nonce + 1
  BY <1>1 DEF Prepared
<1>3. /\ Taken \in [nonce: Nat, prepared: BOOLEAN, paused: BOOLEAN]
      /\ ~Taken.prepared /\ Taken.nonce = Prepared(FALSE).nonce
  BY <1>2 DEF Taken
<1>4. /\ ch.nonce \in Nat /\ Taken.nonce \in Nat /\ Taken.nonce >= ch.nonce
      /\ ~ch.prepared => Taken.nonce > ch.nonce
  <2>1. ch.nonce \in Nat /\ ch.prepared \in BOOLEAN
    BY <1>1
  <2>2. Taken.nonce = IF ch.prepared THEN ch.nonce ELSE ch.nonce + 1
    BY <1>2, <1>3
  <2> HIDE DEF Taken
  <2> QED
    BY <2>1, <2>2
<1>5. \A c \in Caller : Boots(c) => call[c].epoch < Taken.nonce
  <2> SUFFICES ASSUME NEW c \in Caller, Boots(c) PROVE call[c].epoch < Taken.nonce
    OBVIOUS
  <2>1. call[c].epoch \in Nat /\ call[c].epoch <= ch.nonce
        /\ (ch.prepared => call[c].epoch < ch.nonce)
    BY <1>1 DEF Inv, EpochInv, CallShape
  <2> QED
    BY <1>4, <2>1
<1> QED
  BY <1>3, <1>4, <1>5

LEMMA EnsureHostKeeps ==
    ASSUME Inv, WaitForAll, NEW c \in Caller, EnsureHost(c)
    PROVE  Inv'
<1>1. CASE mgr.st = "ready"
  <2>1. UNCHANGED <<mgr, ch, epochFile, proc, procEpoch>> /\ Settle(c, "attached")
    BY <1>1 DEF EnsureHost
  <2> QED
    BY <2>1, SettleMoves, AsideKeeps DEF Inv
<1>2. CASE mgr.st = "booting"
  <2>1. /\ UNCHANGED <<mgr, ch, epochFile, proc, procEpoch>>
        /\ \E d \in Caller : call' = [call EXCEPT ![c].pc = "join", ![c].boot = d]
    BY <1>2 DEF EnsureHost
  <2>2. /\ call' \in [Caller -> CallShape]
        /\ \A d \in Caller : call'[d].pc \in Booting \union Fencing => call'[d] = call[d]
    <3> DEFINE k == Goto(c, "join")
    <3>1. PICK d \in Caller : call' = [k EXCEPT ![c].boot = d]
      BY <2>1 DEF Goto
    <3>2. /\ k \in [Caller -> CallShape] /\ k[c].pc = "join"
          /\ \A e \in Caller \ {c} : k[e] = call[e]
      BY DEF Inv, Shape, CallShape, Goto, Pc, Attaching
    <3> HIDE DEF k
    <3>3. /\ call' \in [Caller -> CallShape] /\ call'[c].pc = "join"
          /\ \A e \in Caller \ {c} : call'[e] = call[e]
      BY <3>1, <3>2 DEF CallShape
    <3> QED
      BY <3>3 DEF Booting, Fencing
  <2> QED
    BY <2>1, <2>2, AsideKeeps
<1>3. CASE mgr.st \notin {"ready", "booting"}
  <2>1. /\ mgr' = [mgr EXCEPT !.st = "booting", !.gen = mgr.gen + 1]
        /\ ch' = Taken
        /\ call' = [call EXCEPT ![c] = [call[c] EXCEPT !.pc = "write", !.attempt = 1,
                                          !.gen = mgr.gen + 1, !.epoch = Taken.nonce]]
        /\ UNCHANGED <<epochFile, proc, procEpoch>>
        /\ call[c].pc = "assets" /\ MayBegin(c)
    BY <1>3 DEF EnsureHost
  <2>2. /\ mgr' \in [st: State, gen: Nat, proc: Proc \union {None}]
        /\ mgr'.st = "booting" /\ mgr'.gen = mgr.gen + 1 /\ mgr'.proc = mgr.proc
    <3>1. mgr' = [st |-> "booting", gen |-> mgr.gen + 1, proc |-> mgr.proc]
      BY <2>1 DEF Inv, Shape
    <3>2. mgr.gen + 1 \in Nat /\ mgr.proc \in Proc \union {None}
      BY DEF Inv, Shape
    <3> QED
      BY <3>1, <3>2 DEF State
  <2>3. /\ call' \in [Caller -> CallShape]
        /\ call'[c].pc = "write" /\ call'[c].gen = mgr.gen + 1 /\ call'[c].epoch = Taken.nonce
        /\ \A d \in Caller \ {c} : call'[d] = call[d]
    <3> DEFINE q == [call[c] EXCEPT !.pc = "write", !.attempt = 1]
               r == [q EXCEPT !.gen = mgr.gen + 1, !.epoch = Taken.nonce]
    <3>1. mgr.gen + 1 \in Nat /\ Taken.nonce \in Nat /\ call[c] \in CallShape
      BY TakenIsNew DEF Inv, Shape
    <3>2. q \in CallShape /\ q.pc = "write"
      BY <3>1 DEF CallShape, Pc, Attaching
    <3>3. call' = [call EXCEPT ![c] = r]
      BY <2>1
    <3> HIDE DEF q
    <3>4. r \in CallShape /\ r.pc = "write" /\ r.gen = mgr.gen + 1 /\ r.epoch = Taken.nonce
      BY <3>1, <3>2 DEF CallShape
    <3> HIDE DEF r
    <3> QED
      BY <3>3, <3>4 DEF Inv, Shape
  <2>4. \A d \in Caller : call[d].pc \notin Stopping
    BY <2>1 DEF MayBegin
  <2>5. Shape'
    BY <2>1, <2>2, <2>3, TakenIsNew DEF Inv, Shape
  <2>6. FenceInv'
    BY <2>3, <2>4 DEF FenceInv, Fencing, Stopping
  <2>7. GenInv'
    BY <2>2, <2>3 DEF Inv, Shape, CallShape, GenInv, Boots
  <2>8. EpochInv'
    BY <2>1, <2>3, TakenIsNew DEF Inv, Shape, CallShape, EpochInv, Boots
  <2>9. \A d \in Caller \ {c} : Boots(d) => ~(Current(d))'
    BY <2>2, <2>3 DEF Inv, Shape, CallShape, GenInv, Boots, Current
  <2>10. BootOwnsChannel' /\ FileInv' /\ LiveInv'
    BY <2>1, <2>3, <2>9, TakenIsNew DEF BootOwnsChannel, FileInv, LiveInv, Owns, Boots, Booting
  <2>11. SpawnedInv' /\ ReadyInv'
    BY <2>1, <2>2 DEF Inv, SpawnedInv, ReadyInv
  <2>12. ProcInv'
    <3>1. \A d \in Caller : call[d].pc \in {"spawned", "probe"} => call[d].proc # mgr.proc
      BY <1>3 DEF Inv, ProcInv, Current
    <3> QED
      BY <2>1, <2>2, <2>3, <3>1 DEF Inv, ProcInv
  <2> QED
    BY <2>5, <2>6, <2>7, <2>8, <2>10, <2>11, <2>12 DEF Inv
<1> QED
  BY <1>1, <1>2, <1>3

LEMMA WriteEpochKeeps ==
    ASSUME Inv, NEW c \in Caller, WriteEpoch(c)
    PROVE  Inv'
<1>1. /\ call[c].pc = "write"
      /\ \A d \in Caller : call[d].pc = "write" => call[c].epoch <= call[d].epoch
      /\ epochFile' = call[c].epoch /\ call' = Goto(c, "spawn")
      /\ UNCHANGED <<mgr, ch, proc, procEpoch>>
  BY DEF WriteEpoch
<1>2. /\ call' \in [Caller -> CallShape]
      /\ call'[c].pc = "spawn" /\ call'[c].gen = call[c].gen
      /\ call'[c].epoch = call[c].epoch /\ call'[c].proc = call[c].proc
      /\ \A d \in Caller \ {c} : call'[d] = call[d]
  BY <1>1, GotoMoves DEF Inv, Pc, Attaching
<1>3. Shape'
  BY <1>1, <1>2 DEF Inv, Shape, CallShape
<1>4. FenceInv' /\ GenInv' /\ EpochInv'
  BY <1>1, <1>2 DEF Inv, FenceInv, GenInv, EpochInv, Boots, Booting, Fencing
<1>5. BootOwnsChannel'
  BY <1>1, <1>2 DEF Inv, BootOwnsChannel, Current
<1>6. Owns(c) => \A d \in Caller \ {c} : call[d].pc # "write"
  <2> SUFFICES ASSUME Owns(c), NEW d \in Caller \ {c}, call[d].pc = "write" PROVE FALSE
    OBVIOUS
  <2>1. call[c].epoch = ch.nonce
    BY <1>1 DEF Inv, BootOwnsChannel, Owns
  <2>2. call[c].epoch <= call[d].epoch /\ call[d].epoch <= ch.nonce
    BY <1>1 DEF Inv, EpochInv, Boots, Booting
  <2>3. call[d].epoch # call[c].epoch
    BY <1>1 DEF Inv, EpochInv, Boots, Booting
  <2>4. call[d].epoch \in Nat /\ ch.nonce \in Nat
    BY DEF Inv, Shape, CallShape
  <2> QED
    BY <2>1, <2>2, <2>3, <2>4
<1>7. \A d \in Caller \ {c} : Owns(d) /\ call[d].pc # "write" => FALSE
  BY <1>1 DEF Inv, FileInv
<1>8. FileInv'
  BY <1>1, <1>2, <1>6, <1>7 DEF FileInv, Owns, Current
<1>9. SpawnedInv' /\ ProcInv'
  BY <1>1, <1>2 DEF Inv, SpawnedInv, ProcInv, Current
<1>10. LiveInv'
  BY <1>1, <1>2 DEF Inv, LiveInv, Owns, Current, Alive
<1>11. ReadyInv'
  BY <1>1 DEF Inv, ReadyInv
<1> QED
  BY <1>3, <1>4, <1>5, <1>8, <1>9, <1>10, <1>11 DEF Inv

\* The process a spawn starts has not been started before.
FirstFree == Cardinality({q \in Proc : proc[q] # "none"}) + 1

LEMMA SpawnIsFresh ==
    ASSUME SpawnedInv, FirstFree \in Proc
    PROVE  /\ proc[FirstFree] = "none" /\ FirstFree \in 0..MaxProc
           /\ \A q \in Proc : proc[q] # "none" <=> q <= FirstFree - 1
<1>1. PICK k \in 0..MaxProc : \A q \in Proc : proc[q] # "none" <=> q <= k
  BY DEF SpawnedInv
<1>2. {q \in Proc : proc[q] # "none"} = 1..k
  BY <1>1, HostManagerAssumption DEF Proc
<1>3. Cardinality(1..k) = k
  BY FS_Interval
<1>4. FirstFree = k + 1
  BY <1>2, <1>3 DEF FirstFree
<1> QED
  BY <1>1, <1>4, HostManagerAssumption DEF Proc

LEMMA SpawnKeeps ==
    ASSUME Inv, NEW c \in Caller, Spawn(c)
    PROVE  Inv'
<1> DEFINE p == FirstFree
<1>1. /\ call[c].pc = "spawn" /\ p \in Proc
      /\ proc' = [proc EXCEPT ![p] = "starting"]
      /\ call' = [call EXCEPT ![c].pc = "spawned", ![c].proc = p]
      /\ UNCHANGED <<mgr, ch, epochFile, procEpoch>>
  BY DEF Spawn, FirstFree
<1>2. /\ proc[p] = "none" /\ p \in 0..MaxProc
      /\ \A q \in Proc : proc[q] # "none" <=> q <= p - 1
  BY <1>1, SpawnIsFresh DEF Inv
<1> HIDE DEF p
<1>3. /\ call' \in [Caller -> CallShape]
      /\ call'[c].pc = "spawned" /\ call'[c].proc = p
      /\ call'[c].gen = call[c].gen /\ call'[c].epoch = call[c].epoch
      /\ \A d \in Caller \ {c} : call'[d] = call[d]
  <2> DEFINE k == Goto(c, "spawned")
  <2>1. /\ k \in [Caller -> CallShape] /\ k[c].pc = "spawned"
        /\ k[c].gen = call[c].gen /\ k[c].epoch = call[c].epoch
        /\ \A d \in Caller \ {c} : k[d] = call[d]
    BY DEF Inv, Shape, CallShape, Goto, Pc, Attaching
  <2>2. call' = [k EXCEPT ![c].proc = p]
    BY <1>1 DEF Goto
  <2>3. p \in Proc
    BY <1>1
  <2> HIDE DEF k
  <2> QED
    BY <2>1, <2>2, <2>3 DEF CallShape
<1>4. /\ proc' \in [Proc -> {"none", "starting", "up", "dead"}] /\ proc'[p] = "starting"
      /\ \A q \in Proc \ {p} : proc'[q] = proc[q]
  BY <1>1 DEF Inv, Shape
<1>5. Shape'
  BY <1>1, <1>3, <1>4 DEF Inv, Shape
<1>6. FenceInv' /\ GenInv' /\ EpochInv'
  BY <1>1, <1>3 DEF Inv, FenceInv, GenInv, EpochInv, Boots, Booting, Fencing
<1>7. BootOwnsChannel' /\ FileInv'
  BY <1>1, <1>3 DEF Inv, BootOwnsChannel, FileInv, Owns, Current
<1>8. SpawnedInv'
  <2>1. \A q \in Proc : proc'[q] # "none" <=> q <= p
    BY <1>1, <1>2, <1>4, HostManagerAssumption DEF Proc
  <2> QED
    BY <1>2, <2>1 DEF SpawnedInv
<1>9. ProcInv'
  <2>1. mgr.proc # p /\ (mgr.proc # None => mgr.proc \in Proc)
    BY <1>1, <1>2, HostManagerAssumption DEF Inv, Shape, ProcInv, Proc, None
  <2>2. \A d \in Caller : call[d].pc \in {"spawned", "probe"} => call[d].proc # p
    BY <1>2 DEF Inv, ProcInv
  <2> QED
    BY <1>1, <1>2, <1>3, <1>4, <2>1, <2>2 DEF Inv, ProcInv, Current
<1>10. LiveInv'
  <2>1. \A d \in Caller : call[d].pc \in {"spawned", "probe"} =>
           call[d].proc # p /\ call[d].proc \in Proc
    BY <1>2 DEF Inv, ProcInv
  <2> QED
    BY <1>1, <1>3, <1>4, <2>1 DEF Inv, LiveInv, Owns, Current, Alive
<1>11. ReadyInv'
  <2>1. mgr.st = "ready" => mgr.proc # p
    BY <1>2 DEF Inv, ReadyInv, Alive
  <2> QED
    BY <1>1, <1>3, <1>4, <2>1 DEF Inv, ReadyInv, Alive
<1> QED
  BY <1>5, <1>6, <1>7, <1>8, <1>9, <1>10, <1>11 DEF Inv

\* Nobody boots any more, and the manager is not ready.
LEMMA NoOwnerKeeps ==
    ASSUME Inv,
           mgr' \in [st: State, gen: Nat, proc: Proc \union {None}],
           mgr'.st # "ready", mgr'.gen >= mgr.gen, UNCHANGED mgr \/ mgr'.proc = None,
           ch' \in {ch, Prepared(TRUE)},
           proc' \in [Proc -> {"none", "starting", "up", "dead"}],
           \A q \in Proc : proc'[q] = "none" <=> proc[q] = "none",
           call' \in [Caller -> CallShape],
           \A d \in Caller : (Boots(d))' =>
               /\ Boots(d) /\ call'[d].gen = call[d].gen /\ call'[d].epoch = call[d].epoch
               /\ call'[d].pc \in {"spawned", "probe"} => call'[d] = call[d],
           \A d \in Caller : ~(Owns(d))',
           FenceInv', UNCHANGED <<epochFile, procEpoch>>
    PROVE  Inv'
<1>1. /\ ch' \in [nonce: Nat, prepared: BOOLEAN, paused: BOOLEAN]
      /\ \/ ch'.nonce = ch.nonce /\ ch'.prepared = ch.prepared
         \/ ch'.nonce = ch.nonce + 1 /\ ~ch.prepared
  <2>1. ch \in [nonce: Nat, prepared: BOOLEAN, paused: BOOLEAN]
    BY DEF Inv, Shape
  <2>2. CASE ch' = ch
    BY <2>1, <2>2
  <2>3. CASE ch' = Prepared(TRUE) /\ ch.prepared
    BY <2>1, <2>3 DEF Prepared
  <2>4. CASE ch' = Prepared(TRUE) /\ ~ch.prepared
    <3>1. ch' = [nonce |-> ch.nonce + 1, prepared |-> TRUE, paused |-> TRUE]
      BY <2>4 DEF Prepared
    <3>2. ch.nonce + 1 \in Nat
      BY <2>1
    <3>3. ch' \in [nonce: Nat, prepared: BOOLEAN, paused: BOOLEAN] /\ ch'.nonce = ch.nonce + 1
      BY <3>1, <3>2
    <3> QED
      BY <2>4, <3>3
  <2> QED
    BY <2>2, <2>3, <2>4
<1>2. Shape'
  BY <1>1 DEF Inv, Shape
<1>3. GenInv'
  BY <1>2 DEF Inv, GenInv, Shape, CallShape
<1>4. EpochInv'
  <2>1. ch.nonce \in Nat /\ \A d \in Caller : call[d].epoch \in Nat
    BY DEF Inv, Shape, CallShape
  <2>2. \A d \in Caller : Boots(d) => call[d].epoch <= ch'.nonce
                                      /\ (ch'.prepared => call[d].epoch < ch'.nonce)
    BY <1>1, <2>1 DEF Inv, EpochInv
  <2> QED
    BY <2>2 DEF Inv, EpochInv
<1>5. BootOwnsChannel' /\ FileInv' /\ LiveInv' /\ ReadyInv'
  BY DEF BootOwnsChannel, FileInv, LiveInv, ReadyInv, Owns
<1>6. SpawnedInv'
  BY DEF Inv, SpawnedInv
<1>7. ProcInv'
  <2>1. mgr'.proc # None => proc'[mgr'.proc] # "none"
    BY <1>2 DEF Inv, ProcInv, Shape
  <2>2. \A d \in Caller : call'[d].pc \in {"spawned", "probe"} =>
           call'[d] = call[d] /\ call[d].proc \in Proc /\ proc'[call[d].proc] # "none"
    BY DEF Inv, ProcInv, Boots, Booting
  <2>3. \A d \in Caller : call'[d].pc \in {"spawned", "probe"} => call'[d].proc # mgr'.proc
    <3> SUFFICES ASSUME NEW d \in Caller, call'[d].pc \in {"spawned", "probe"},
                        call'[d].proc = mgr'.proc
                 PROVE  FALSE
      OBVIOUS
    <3>1. mgr'.proc # None
      BY <2>2 DEF Proc, None
    <3>2. Current(d) /\ UNCHANGED mgr
      BY <2>2, <3>1 DEF Inv, ProcInv
    <3> QED
      BY <2>2, <3>2 DEF Owns, Current
  <2> QED
    BY <2>1, <2>2, <2>3 DEF Inv, ProcInv
<1> QED
  BY <1>2, <1>3, <1>4, <1>5, <1>6, <1>7 DEF Inv

\* A boot that goes on alone: it leaves, and kills a process nobody else has.
LEMMA LeaverKeeps ==
    ASSUME Inv, UNCHANGED <<mgr, epochFile, procEpoch>>, ch' \in {ch, Resumed},
           NEW c \in Caller, Boots(c), ~Current(c), Settle(c, "rejected"),
           UNCHANGED proc \/ (call[c].pc \in {"spawned", "probe"} /\ proc' = Killed(call[c].proc))
    PROVE  Inv'
<1>1. /\ call' \in [Caller -> CallShape]
      /\ \A d \in Caller : call'[d].pc \in Booting \union Fencing => call'[d] = call[d] /\ d # c
  BY SettleMoves DEF Inv
<1>2. /\ ch' \in [nonce: Nat, prepared: BOOLEAN, paused: BOOLEAN]
      /\ ch'.nonce = ch.nonce /\ ch'.prepared = ch.prepared
      /\ ~ch.paused => ~ch'.paused
  BY DEF Inv, Shape, Resumed
<1>3. /\ proc' \in [Proc -> {"none", "starting", "up", "dead"}]
      /\ \A q \in Proc : proc'[q] = "none" <=> proc[q] = "none"
  BY KillHits DEF Inv, Shape
<1>4. /\ mgr.proc \in Proc => proc'[mgr.proc] = proc[mgr.proc]
      /\ \A d \in Caller \ {c} : call[d].pc \in {"spawned", "probe"} =>
            proc'[call[d].proc] = proc[call[d].proc]
  <2>1. CASE UNCHANGED proc
    BY <2>1
  <2>2. CASE call[c].pc \in {"spawned", "probe"} /\ proc' = Killed(call[c].proc)
    BY <2>2, KillHits DEF Inv, ProcInv
  <2> QED
    BY <2>1, <2>2
<1>5. Shape'
  BY <1>1, <1>2, <1>3 DEF Inv, Shape
<1>6. FenceInv' /\ GenInv' /\ EpochInv'
  BY <1>1, <1>2 DEF Inv, FenceInv, GenInv, EpochInv, Boots
<1>7. BootOwnsChannel' /\ FileInv'
  BY <1>1, <1>2 DEF Inv, BootOwnsChannel, FileInv, Owns, Current, Booting
<1>8. SpawnedInv'
  BY <1>3 DEF Inv, SpawnedInv
<1>9. ProcInv'
  <2>1. mgr.proc # None => proc'[mgr.proc] # "none"
    BY <1>3 DEF Inv, Shape, ProcInv
  <2>2. \A d \in Caller : call'[d].pc \in {"spawned", "probe"} => call'[d] = call[d]
    BY <1>1 DEF Booting
  <2> QED
    BY <1>3, <2>1, <2>2 DEF Inv, ProcInv, Current
<1>10. LiveInv'
  BY <1>1, <1>2, <1>4 DEF Inv, LiveInv, Owns, Current, Alive, Booting
<1>11. ReadyInv'
  BY <1>1, <1>2, <1>4 DEF Inv, ReadyInv, Alive, Booting
<1> QED
  BY <1>5, <1>6, <1>7, <1>8, <1>9, <1>10, <1>11 DEF Inv

LEMMA SpawnReturnsKeeps ==
    ASSUME Inv, NEW c \in Caller, SpawnReturns(c)
    PROVE  Inv'
<1>1. CASE ~Current(c)
  BY <1>1, LeaverKeeps DEF SpawnReturns, Superseded, Boots, Booting
<1>2. CASE Current(c)
  <2>1. /\ call[c].pc = "spawned" /\ ch' = Resumed
        /\ mgr' = [mgr EXCEPT !.proc = call[c].proc]
        /\ call' = Goto(c, "probe")
        /\ UNCHANGED <<epochFile, proc, procEpoch>>
    BY <1>2 DEF SpawnReturns
  <2>2. /\ call' \in [Caller -> CallShape]
        /\ call'[c].pc = "probe" /\ call'[c].gen = call[c].gen
        /\ call'[c].epoch = call[c].epoch /\ call'[c].proc = call[c].proc
        /\ \A d \in Caller \ {c} : call'[d] = call[d]
    BY <2>1, GotoMoves DEF Inv, Pc, Attaching
  <2>3. /\ ch' \in [nonce: Nat, prepared: BOOLEAN, paused: BOOLEAN]
        /\ ch'.nonce = ch.nonce /\ ch'.prepared = ch.prepared /\ ~ch'.paused
    BY <2>1 DEF Inv, Shape, Resumed
  <2>4. call[c].proc \in Proc /\ proc[call[c].proc] # "none"
    BY <2>1 DEF Inv, ProcInv
  <2>5. /\ mgr' \in [st: State, gen: Nat, proc: Proc \union {None}]
        /\ mgr'.st = mgr.st /\ mgr'.gen = mgr.gen /\ mgr'.proc = call[c].proc
    BY <2>1, <2>4 DEF Inv, Shape
  <2>6. \A d \in Caller : (Current(d))' <=> Current(d)
    BY <2>2, <2>5 DEF Current
  <2>7. \A d \in Caller \ {c} : Boots(d) => ~Current(d)
    BY <1>2, <2>1, OneCurrent DEF Inv, Boots, Booting
  <2>8. Shape'
    BY <2>1, <2>2, <2>3, <2>5 DEF Inv, Shape
  <2>9. FenceInv' /\ GenInv' /\ EpochInv'
    BY <2>1, <2>2, <2>3, <2>5 DEF Inv, FenceInv, GenInv, EpochInv, Boots, Booting, Fencing
  <2>10. BootOwnsChannel' /\ FileInv'
    BY <2>1, <2>2, <2>3, <2>6 DEF Inv, BootOwnsChannel, FileInv, Owns
  <2>11. SpawnedInv'
    BY <2>1 DEF Inv, SpawnedInv
  <2>12. ProcInv'
    <3>1. \A d \in Caller \ {c} : call[d].pc \in {"spawned", "probe"} => call[d].proc # call[c].proc
      BY <2>1 DEF Inv, ProcInv
    <3> QED
      BY <1>2, <2>1, <2>2, <2>4, <2>5, <2>6, <3>1 DEF Inv, ProcInv
  <2>13. LiveInv'
    <3>1. Alive(call[c].proc) /\ (proc[call[c].proc] = "up" => procEpoch[call[c].proc] = ch.nonce)
      BY <1>2, <2>1 DEF Inv, LiveInv, Owns
    <3>2. \A d \in Caller \ {c} : ~(Owns(d))'
      BY <2>2, <2>6, <2>7 DEF Owns, Boots, Booting
    <3> QED
      BY <2>1, <2>2, <2>3, <2>5, <3>1, <3>2 DEF LiveInv, Alive
  <2>14. ReadyInv'
    BY <1>2, <2>5 DEF ReadyInv, Current
  <2> QED
    BY <2>8, <2>9, <2>10, <2>11, <2>12, <2>13, <2>14 DEF Inv
<1> QED
  BY <1>1, <1>2 DEF SpawnReturns

LEMMA ProbePongKeeps ==
    ASSUME Inv, NEW c \in Caller, ProbePong(c)
    PROVE  Inv'
<1>1. CASE ~Current(c)
  BY <1>1, LeaverKeeps DEF ProbePong, Superseded, Boots, Booting
<1>2. CASE Current(c)
  <2>1. /\ call[c].pc = "probe" /\ mgr' = [mgr EXCEPT !.st = "ready"]
        /\ Settle(c, "attached") /\ UNCHANGED <<ch, epochFile, proc, procEpoch>>
    BY <1>2 DEF ProbePong
  <2>2. /\ call' \in [Caller -> CallShape]
        /\ \A d \in Caller : call'[d].pc \in Booting \union Fencing => call'[d] = call[d] /\ d # c
    BY <2>1, SettleMoves DEF Inv
  <2>3. /\ mgr' \in [st: State, gen: Nat, proc: Proc \union {None}]
        /\ mgr'.st = "ready" /\ mgr'.gen = mgr.gen /\ mgr'.proc = mgr.proc
    BY <2>1 DEF Inv, Shape, State
  <2>4. Shape'
    BY <2>1, <2>2, <2>3 DEF Inv, Shape
  <2>5. FenceInv'
    BY <1>2, <2>2 DEF Inv, FenceInv, Current, Booting
  <2>6. GenInv' /\ EpochInv'
    BY <2>1, <2>2, <2>3 DEF Inv, GenInv, EpochInv, Boots
  <2>7. BootOwnsChannel' /\ FileInv' /\ LiveInv'
    BY <2>3 DEF BootOwnsChannel, FileInv, LiveInv, Owns, Current
  <2>8. SpawnedInv'
    BY <2>1 DEF Inv, SpawnedInv
  <2>9. ProcInv'
    <3>1. \A d \in Caller : call'[d].pc \in {"spawned", "probe"} =>
             call'[d] = call[d] /\ d # c /\ call[d].proc # mgr.proc
      BY <1>2, <2>1, <2>2, OneCurrent DEF Inv, ProcInv, Boots, Booting
    <3> QED
      BY <2>1, <2>3, <3>1 DEF Inv, ProcInv
  <2>10. ReadyInv'
    <3>1. mgr.proc = call[c].proc /\ call[c].proc \in Proc
      BY <1>2, <2>1 DEF Inv, LiveInv, ProcInv, Owns
    <3>2. /\ Alive(mgr.proc) /\ (proc[mgr.proc] = "up" => procEpoch[mgr.proc] = ch.nonce)
          /\ ~ch.paused /\ ~ch.prepared /\ epochFile = ch.nonce
          /\ \A d \in Caller : call[d].pc # "write"
      BY <1>2, <2>1, <3>1 DEF Inv, LiveInv, BootOwnsChannel, FileInv, Owns
    <3> QED
      BY <2>1, <2>2, <2>3, <3>1, <3>2 DEF ReadyInv, Alive, Booting
  <2> QED
    BY <2>4, <2>5, <2>6, <2>7, <2>8, <2>9, <2>10 DEF Inv
<1> QED
  BY <1>1, <1>2

\* An attempt that fails gives its process up, or leaves with the others.
LEMMA AttemptFailsKeeps ==
    ASSUME Inv, NEW c \in Caller, EngineFails(c) \/ ProbeFails(c)
    PROVE  Inv'
<1>1. /\ call[c].pc \in {"write", "spawn", "probe"} /\ AttemptFails(c)
      /\ UNCHANGED <<ch, epochFile, procEpoch>>
  BY DEF EngineFails, ProbeFails
<1>2. CASE ~Current(c)
  BY <1>1, <1>2, LeaverKeeps DEF AttemptFails, Boots, Booting
<1>3. CASE Current(c)
  <2>1. proc' = Killed(mgr.proc)
    BY <1>1, <1>3 DEF AttemptFails
  <2>2. /\ mgr' \in [st: State, gen: Nat, proc: Proc \union {None}]
        /\ mgr'.st \in {"booting", "unattached"} /\ mgr'.gen = mgr.gen /\ mgr'.proc = None
    <3>1. \/ mgr' = [mgr EXCEPT !.proc = None]
          \/ mgr' = [mgr EXCEPT !.proc = None, !.st = "unattached"]
      BY <1>1, <1>3 DEF AttemptFails
    <3> QED
      BY <1>3, <3>1 DEF Inv, Shape, State, Current
  <2>3. /\ call' \in [Caller -> CallShape] /\ call'[c].pc \in {"sleep", "rejected"}
        /\ call'[c].gen = call[c].gen \/ call'[c].pc = "rejected"
        /\ call'[c].epoch = call[c].epoch \/ call'[c].pc = "rejected"
        /\ \A d \in Caller \ {c} :
              call'[d].pc \in Booting \union Fencing => call'[d] = call[d]
    <3>1. CASE call' = Goto(c, "sleep")
      BY <3>1, GotoMoves DEF Inv, Pc, Attaching
    <3>2. CASE Settle(c, "rejected")
      BY <3>2, SettleMoves DEF Inv
    <3> QED
      BY <1>1, <1>3, <3>1, <3>2 DEF AttemptFails
  <2>4. \A d \in Caller : (Boots(d))' =>
           /\ Boots(d) /\ call'[d].gen = call[d].gen /\ call'[d].epoch = call[d].epoch
           /\ call'[d].pc \in {"spawned", "probe"} => call'[d] = call[d]
    BY <1>1, <2>3 DEF Boots, Booting
  <2>5. \A d \in Caller : ~(Owns(d))'
    <3>1. \A d \in Caller \ {c} : Boots(d) => ~Current(d)
      BY <1>1, <1>3, OneCurrent DEF Inv, Boots, Booting
    <3> QED
      BY <1>3, <2>2, <2>3, <3>1 DEF Owns, Boots, Booting, Current
  <2>6. FenceInv'
    BY <1>3, <2>3 DEF Inv, FenceInv, Fencing, Current
  <2>7. /\ proc' \in [Proc -> {"none", "starting", "up", "dead"}]
        /\ \A q \in Proc : proc'[q] = "none" <=> proc[q] = "none"
    BY <2>1, KillHits DEF Inv
  <2>8. mgr'.st # "ready" /\ mgr'.gen >= mgr.gen
    BY <2>2 DEF Inv, Shape
  <2> QED
    BY <1>1, <2>2, <2>3, <2>4, <2>5, <2>6, <2>7, <2>8, NoOwnerKeeps
<1> QED
  BY <1>2, <1>3

LEMMA NextAttemptKeeps ==
    ASSUME Inv, NEW c \in Caller, NextAttempt(c)
    PROVE  Inv'
<1>1. CASE ~Current(c)
  BY <1>1, LeaverKeeps DEF NextAttempt, Boots, Booting
<1>2. CASE Current(c)
  <2>1. /\ call[c].pc = "sleep" /\ ch' = Taken
        /\ call' = [call EXCEPT ![c].pc = "write", ![c].attempt = call[c].attempt + 1,
                                ![c].epoch = Taken.nonce, ![c].proc = None]
        /\ UNCHANGED <<mgr, epochFile, proc, procEpoch>>
    BY <1>2 DEF NextAttempt
  <2>2. /\ call' \in [Caller -> CallShape]
        /\ call'[c].pc = "write" /\ call'[c].gen = call[c].gen /\ call'[c].epoch = Taken.nonce
        /\ \A d \in Caller \ {c} : call'[d] = call[d]
    <3> DEFINE q == [call EXCEPT ![c].pc = "write", ![c].attempt = call[c].attempt + 1]
    <3>1. call[c].attempt + 1 \in Nat /\ Taken.nonce \in Nat /\ call[c] \in CallShape
      BY TakenIsNew DEF Inv, Shape, CallShape
    <3>2. /\ q \in [Caller -> CallShape] /\ q[c].pc = "write" /\ q[c].gen = call[c].gen
          /\ \A d \in Caller \ {c} : q[d] = call[d]
      BY <3>1 DEF Inv, Shape, CallShape, Pc, Attaching
    <3>3. call' = [q EXCEPT ![c].epoch = Taken.nonce, ![c].proc = None]
      BY <2>1
    <3> HIDE DEF q
    <3> QED
      BY <3>1, <3>2, <3>3 DEF CallShape
  <2>3. \A d \in Caller \ {c} : Boots(d) => ~Current(d)
    BY <1>2, <2>1, OneCurrent DEF Inv, Boots, Booting
  <2>4. Shape'
    BY <2>1, <2>2, TakenIsNew DEF Inv, Shape
  <2>5. FenceInv' /\ GenInv'
    BY <2>1, <2>2 DEF Inv, FenceInv, GenInv, Boots, Booting, Fencing
  <2>6. EpochInv'
    BY <2>1, <2>2, TakenIsNew DEF Inv, Shape, CallShape, EpochInv, Boots
  <2>7. \A d \in Caller : (Owns(d))' => d = c
    BY <2>1, <2>2, <2>3 DEF Owns, Current, Boots, Booting
  <2>8. BootOwnsChannel' /\ FileInv' /\ LiveInv'
    BY <2>1, <2>2, <2>7, TakenIsNew DEF BootOwnsChannel, FileInv, LiveInv, Owns
  <2>9. SpawnedInv' /\ ReadyInv'
    BY <1>2, <2>1 DEF Inv, SpawnedInv, ReadyInv, Current
  <2>10. ProcInv'
    BY <2>1, <2>2 DEF Inv, ProcInv, Current
  <2> QED
    BY <2>4, <2>5, <2>6, <2>8, <2>9, <2>10 DEF Inv
<1> QED
  BY <1>1, <1>2

\* A shutdown takes the host away from every boot.
LEMMA DetachKeeps ==
    ASSUME Inv, NEW c \in Caller, Detach(c)
    PROVE  Inv'
<1>1. /\ call[c].pc = "closing"
      /\ mgr' = [st |-> "disposed", gen |-> mgr.gen + 1, proc |-> None]
      /\ UNCHANGED <<epochFile, proc, procEpoch>>
  BY DEF Detach
<1>2. ch' \in {ch, Prepared(TRUE)}
  BY DEF Detach
<1>3. /\ call' \in [Caller -> CallShape] /\ call'[c].pc \in {"stopped", "wait", "exit"}
      /\ \A d \in Caller \ {c} : call'[d] = call[d]
  <2>1. CASE mgr.proc = None
    BY <2>1, GotoMoves DEF Detach, Inv, Pc
  <2>2. CASE mgr.proc # None /\ (ch.prepared \/ ch.paused)
    <3> DEFINE k == Goto(c, "wait")
    <3>1. call' = [k EXCEPT ![c].proc = mgr.proc]
      BY <2>2 DEF Detach, Goto
    <3>2. mgr.proc \in Proc \union {None}
      BY DEF Inv, Shape
    <3>3. /\ k \in [Caller -> CallShape] /\ k[c].pc = "wait"
          /\ \A d \in Caller \ {c} : k[d] = call[d]
      BY DEF Inv, Shape, CallShape, Goto, Pc, Stopping
    <3> HIDE DEF k
    <3> QED
      BY <3>1, <3>2, <3>3 DEF CallShape
  <2>3. CASE mgr.proc # None /\ ~(ch.prepared \/ ch.paused)
    <3> DEFINE k == Goto(c, "exit")
    <3>1. call' = [k EXCEPT ![c].proc = mgr.proc, ![c].epoch = ch.nonce]
      BY <2>3 DEF Detach, Goto
    <3>2. mgr.proc \in Proc \union {None} /\ ch.nonce \in Nat
      BY DEF Inv, Shape
    <3>3. /\ k \in [Caller -> CallShape] /\ k[c].pc = "exit"
          /\ \A d \in Caller \ {c} : k[d] = call[d]
      BY DEF Inv, Shape, CallShape, Goto, Pc, Stopping
    <3> HIDE DEF k
    <3> QED
      BY <3>1, <3>2, <3>3 DEF CallShape
  <2> QED
    BY <2>1, <2>2, <2>3
<1>4. /\ mgr' \in [st: State, gen: Nat, proc: Proc \union {None}]
      /\ mgr'.st = "disposed" /\ mgr'.gen >= mgr.gen /\ mgr'.proc = None
  BY <1>1 DEF Inv, Shape, State
<1>5. \A d \in Caller : (Boots(d))' =>
         /\ Boots(d) /\ call'[d].gen = call[d].gen /\ call'[d].epoch = call[d].epoch
         /\ call'[d].pc \in {"spawned", "probe"} => call'[d] = call[d]
  BY <1>3 DEF Boots, Booting
<1>6. (\A d \in Caller : ~(Owns(d))') /\ FenceInv'
  BY <1>4 DEF Owns, Current, FenceInv
<1>7. /\ proc' \in [Proc -> {"none", "starting", "up", "dead"}]
      /\ \A q \in Proc : proc'[q] = "none" <=> proc[q] = "none"
  BY <1>1 DEF Inv, Shape
<1> QED
  BY <1>1, <1>2, <1>3, <1>4, <1>5, <1>6, <1>7, NoOwnerKeeps

\* The steps of a shutdown that has detached the host.
LEMMA StopKeeps ==
    ASSUME Inv, NEW c \in Caller,
           ExitSettles(c) \/ StopEnds(c) \/ \E p \in Proc : HostTakesExit(c, p)
    PROVE  Inv'
<1>1. call[c].pc \in Fencing /\ UNCHANGED <<mgr, epochFile, procEpoch>>
  BY DEF ExitSettles, StopEnds, HostTakesExit, Fencing
<1>2. ch' \in {ch, Prepared(TRUE)}
  BY DEF ExitSettles, StopEnds, HostTakesExit
<1>3. \E pc \in {"acked", "wait", "stopped"} : call' = Goto(c, pc)
  BY DEF ExitSettles, StopEnds, HostTakesExit
<1>4. /\ call' \in [Caller -> CallShape] /\ call'[c].pc \in {"acked", "wait", "stopped"}
      /\ \A d \in Caller \ {c} : call'[d] = call[d]
  BY <1>3, GotoMoves DEF Inv, Pc, Stopping
<1>5. /\ proc' \in [Proc -> {"none", "starting", "up", "dead"}]
      /\ \A q \in Proc : proc'[q] = "none" <=> proc[q] = "none"
  <2>1. CASE ExitSettles(c)
    BY <2>1 DEF ExitSettles, Inv, Shape
  <2>2. CASE StopEnds(c)
    BY <2>2, KillHits DEF StopEnds, Inv
  <2>3. CASE \E p \in Proc : HostTakesExit(c, p)
    BY <2>3 DEF HostTakesExit, Inv, Shape
  <2> QED
    BY <2>1, <2>2, <2>3
<1>6. mgr.st = "disposed" /\ mgr'.st # "ready" /\ mgr'.gen >= mgr.gen
  BY <1>1 DEF Inv, FenceInv, Shape
<1>7. mgr' \in [st: State, gen: Nat, proc: Proc \union {None}]
  BY <1>1 DEF Inv, Shape
<1>8. \A d \in Caller : (Boots(d))' =>
         /\ Boots(d) /\ call'[d].gen = call[d].gen /\ call'[d].epoch = call[d].epoch
         /\ call'[d].pc \in {"spawned", "probe"} => call'[d] = call[d]
  BY <1>4 DEF Boots, Booting
<1>9. (\A d \in Caller : ~(Owns(d))') /\ FenceInv'
  BY <1>1, <1>6 DEF Owns, Current, FenceInv
<1> QED
  BY <1>1, <1>2, <1>4, <1>5, <1>6, <1>7, <1>8, <1>9, NoOwnerKeeps

\* A process reads the epoch file when it comes up.
LEMMA HostStartsKeeps ==
    ASSUME Inv, NEW p \in Proc, HostStarts(p)
    PROVE  Inv'
<1>1. /\ proc[p] = "starting" /\ proc' = [proc EXCEPT ![p] = "up"]
      /\ procEpoch' = [procEpoch EXCEPT ![p] = epochFile]
      /\ UNCHANGED <<mgr, ch, epochFile, call>>
  BY DEF HostStarts
<1>2. /\ proc' \in [Proc -> {"none", "starting", "up", "dead"}]
      /\ procEpoch' \in [Proc -> Nat]
      /\ proc'[p] = "up" /\ procEpoch'[p] = epochFile
      /\ \A q \in Proc \ {p} : proc'[q] = proc[q] /\ procEpoch'[q] = procEpoch[q]
  BY <1>1 DEF Inv, Shape
<1>3. Shape'
  BY <1>1, <1>2 DEF Inv, Shape
<1>4. FenceInv' /\ GenInv' /\ EpochInv' /\ BootOwnsChannel' /\ FileInv'
  BY <1>1 DEF Inv, FenceInv, GenInv, EpochInv, BootOwnsChannel, FileInv, Boots, Owns, Current
<1>5. SpawnedInv' /\ ProcInv'
  <2>1. \A q \in Proc : proc'[q] = "none" <=> proc[q] = "none"
    BY <1>1, <1>2
  <2>2. mgr.proc \in Proc \union {None}
    BY DEF Inv, Shape
  <2> QED
    BY <1>1, <2>1, <2>2 DEF Inv, SpawnedInv, ProcInv, Current
<1>6. LiveInv'
  <2> SUFFICES ASSUME NEW c \in Caller, Owns(c), call[c].pc \in {"spawned", "probe"}
               PROVE  /\ (Alive(call[c].proc))'
                      /\ proc'[call[c].proc] = "up" => procEpoch'[call[c].proc] = ch.nonce
                      /\ call[c].pc = "probe" => mgr.proc = call[c].proc
    BY <1>1 DEF LiveInv, Owns, Current
  <2>1. epochFile = ch.nonce /\ call[c].proc \in Proc
    BY DEF Inv, FileInv, BootOwnsChannel, ProcInv, Owns
  <2> QED
    BY <1>1, <1>2, <2>1 DEF Inv, LiveInv, Alive
<1>7. ReadyInv'
  BY <1>1, <1>2 DEF Inv, ReadyInv, Alive
<1> QED
  BY <1>3, <1>4, <1>5, <1>6, <1>7 DEF Inv

-------------------------------------------------------------------------------
LEMMA InvStep == Inv /\ WaitForAll /\ [Next]_vars => Inv'
<1> SUFFICES ASSUME Inv, WaitForAll, [Next]_vars PROVE Inv'
  OBVIOUS
<1>1. ASSUME NEW p \in Proc, HostStarts(p) PROVE Inv'
  BY <1>1, HostStartsKeeps
<1>2. ASSUME NEW c \in Caller, Attach(c) \/ AssetsFail(c) \/ Shutdown(c) PROVE Inv'
  BY <1>2, AttachKeeps
<1>3. ASSUME NEW c \in Caller,
             \/ EnsureHost(c) \/ WriteEpoch(c) \/ Spawn(c) \/ SpawnReturns(c) \/ ProbePong(c)
             \/ EngineFails(c) \/ ProbeFails(c) \/ NextAttempt(c)
      PROVE  Inv'
  BY <1>3, EnsureHostKeeps, WriteEpochKeeps, SpawnKeeps, SpawnReturnsKeeps, ProbePongKeeps,
     AttemptFailsKeeps, NextAttemptKeeps
<1>4. ASSUME NEW c \in Caller,
             Detach(c) \/ ExitSettles(c) \/ StopEnds(c) \/ \E p \in Proc : HostTakesExit(c, p)
      PROVE  Inv'
  BY <1>4, DetachKeeps, StopKeeps
<1>5. CASE UNCHANGED vars
  <2>1. UNCHANGED <<mgr, ch, epochFile, proc, procEpoch, call>> /\ call' \in [Caller -> CallShape]
    BY <1>5 DEF vars, Inv, Shape
  <2> QED
    BY <2>1, AsideKeeps
<1> QED
  BY <1>1, <1>2, <1>3, <1>4, <1>5 DEF Next

(* From takeHostEpoch until it settles, the epoch of the current boot is the    *)
(* page's, whatever other attaches and shutdowns do, if no boot begins while a  *)
(* shutdown runs (host-manager.ts:198, :243).                                   *)
THEOREM BootKeepsItsEpoch ==
    ASSUME WaitForAll
    PROVE  Spec => []BootOwnsChannel
<1>1. Inv /\ [Next]_vars => Inv'
  BY InvStep
<1>2. Inv => BootOwnsChannel
  BY DEF Inv
<1> QED
  BY InvInit, <1>1, <1>2, PTL DEF Spec

(* While the manager says ready, its host is alive, delivery is on, and the     *)
(* host has the page's epoch or will read it, although the probe takes the pong *)
(* of any daemon (host-manager.ts:198, engine/index.ts:274).                    *)
THEOREM ReadyMeansReachable ==
    ASSUME WaitForAll
    PROVE  Spec => []ReadyHostIsReachable
<1>1. Inv /\ [Next]_vars => Inv'
  BY InvStep
<1>2. Inv => ReadyHostIsReachable
  BY DEF Inv, ReadyInv, ReadyHostIsReachable, Alive
<1> QED
  BY InvInit, <1>1, <1>2, PTL DEF Spec

===============================================================================
