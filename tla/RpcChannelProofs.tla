--------------------------- MODULE RpcChannelProofs ---------------------------
(***************************************************************************)
(* Theorems about the file RPC, for every number of epochs, requests,      *)
(* commands and instances, with and without kill lag and reboot.           *)
(* First the types, the commands and the slot; then the fence: the host    *)
(* that is up shares the epoch of the page and, where kill() takes effect  *)
(* at once, an old host neither takes a request of a later epoch nor       *)
(* settles one; last the refinement of RequestLifecycle: a caller is       *)
(* settled once, an answer means that the command was begun, and a request *)
(* that was rejected before it left the page is never begun.               *)
(***************************************************************************)
EXTENDS RpcChannel, TLAPS

-------------------------------------------------------------------------------
(* Type correctness.  It needs to know which ids the program counters give *)
(* meaning to, and that the stop of a host kept an epoch for its successor. *)

\* The part of the type invariant that prepareHostEpoch touches, after it.
PreparedType ==
    /\ ch' \in ChannelType
    /\ status' \in [Id -> Status]
    /\ sweep' \in [Epoch -> {"no", "read", "unlink"}]
    /\ acks' \subseteq Id
    /\ results' \in [Id -> ResultKind]
    /\ ch'.nonce \in Epoch

LoopShape ==
    \A p \in Epoch, l \in Loops : loop[p][l].pc # "idle" => loop[p][l].id \in Id

Shape ==
    /\ delivery.pc # "idle" => delivery.id \in Id
    /\ LoopShape
    /\ driver.pc = "exit" => driver.exitId \in Id
    /\ driver.pc \in {"exit", "stop"} => CanRotate
    /\ driver.pc \in {"write", "spawn", "up", "exit", "stop"} => driver.epoch \in Epoch
    /\ ch.prepared \/ driver.pc # "off" => ch.nonce \in Epoch

TypeInv == TypeOK /\ Shape

LEMMA NoIdIsNoId == NoId \notin Id
BY BoundsAssumption DEF NoId, Id, Epoch

LEMMA TypeInit == Init => TypeInv
BY BoundsAssumption, InstancesAssumption
DEF Init, TypeInv, TypeOK, Shape, LoopShape, Idle, NoId, Status, Settled,
    ChannelType, DeliveryType, ResultKind, ProcState, LoopType, DriverType

\* What prepareHostEpoch leaves behind has the right shape.
LEMMA PrepareType ==
    ASSUME TypeInv, CanRotate,
           NEW pause \in BOOLEAN, NEW keep \in BOOLEAN, NEW st \in [Id -> Status],
           PrepareHostEpoch(pause, keep, st)
    PROVE  PreparedType /\ ch'.prepared = keep
<1>0. ch \in ChannelType /\ MaxSeq \in Nat /\ MaxEpoch \in Nat
  BY BoundsAssumption DEF TypeInv, TypeOK, ChannelType
<1>1. CASE ch.prepared
  <2>1. /\ ch' = [ch EXCEPT !.paused = @ \/ pause, !.prepared = keep]
        /\ status' = st /\ sweep' = sweep /\ acks' = acks /\ results' = results
    BY <1>1 DEF PrepareHostEpoch
  <2>2. ch' \in ChannelType
    BY <1>0, <2>1 DEF ChannelType
  <2>3. ch'.prepared = keep /\ ch'.nonce = ch.nonce
    BY <1>0, <2>1 DEF ChannelType
  <2> QED
    BY <1>1, <2>1, <2>2, <2>3 DEF TypeInv, TypeOK, Shape, PreparedType, ResultKind
<1>2. CASE ~ch.prepared
  <2>1. ch' = [nonce |-> ch.nonce + 1, seq |-> 0, prepared |-> keep,
               paused |-> pause, normal |-> <<>>, priority |-> <<>>]
    BY <1>2 DEF PrepareHostEpoch
  <2>2. ch.nonce + 1 \in 0..MaxEpoch /\ ch.nonce + 1 \in Epoch
    BY <1>0, <1>2 DEF CanRotate, ChannelType, Epoch
  <2>3. ch' \in ChannelType
    BY <1>0, <2>1, <2>2 DEF ChannelType
  <2>4. status' \in [Id -> Status]
    BY <1>2 DEF PrepareHostEpoch, Status, Settled
  <2>5. /\ sweep' \in [Epoch -> {"no", "read", "unlink"}]
        /\ acks' \subseteq Id
        /\ results' \in [Id -> ResultKind]
    BY <1>2 DEF PrepareHostEpoch, ResultKind, TypeInv, TypeOK
  <2>6. ch'.prepared = keep /\ ch'.nonce = ch.nonce + 1
    BY <2>1
  <2> QED
    BY <2>2, <2>3, <2>4, <2>5, <2>6 DEF PreparedType, ResultKind
<1> QED
  BY <1>1, <1>2

\* What enqueue touches, after it.
EnqueuedType ==
    /\ NextId \in Id
    /\ cmd' \in [Id -> AllCommands \union {"none"}]
    /\ inst' \in [Id -> Instances]
    /\ status' \in [Id -> Status]
    /\ ch' \in ChannelType
    /\ ch'.prepared = ch.prepared /\ ch'.nonce = ch.nonce

\* Submitting a request under an epoch of the page.
LEMMA EnqueueType ==
    ASSUME TypeInv, ch.nonce \in Epoch,
           NEW c \in AllCommands, NEW i \in Instances, NEW lane,
           Enqueue(c, i, lane)
    PROVE  EnqueuedType
<1>1. ch \in ChannelType /\ MaxSeq \in Nat
  BY BoundsAssumption DEF TypeInv, TypeOK, ChannelType
<1>2. ch.seq + 1 \in 1..MaxSeq
  BY <1>1 DEF Enqueue, ChannelType
<1>3. NextId \in Id
  BY <1>2 DEF NextId, Id
<1>4. /\ cmd' \in [Id -> AllCommands \union {"none"}]
      /\ inst' \in [Id -> Instances]
      /\ status' \in [Id -> Status]
  BY <1>3 DEF Enqueue, TypeInv, TypeOK, Status
<1> DEFINE normal == IF lane = "normal" THEN Append(ch.normal, NextId) ELSE ch.normal
           priority == IF lane = "priority" THEN Append(ch.priority, NextId)
                       ELSE ch.priority
<1>5. ch' = [ch EXCEPT !.seq = ch.seq + 1, !.normal = normal, !.priority = priority]
  BY DEF Enqueue
<1>6. ch.seq + 1 \in 0..MaxSeq
  BY <1>2
<1>7. normal \in Seq(Id) /\ priority \in Seq(Id)
  BY <1>1, <1>3 DEF ChannelType
<1> HIDE DEF normal, priority
<1>8. ch' \in ChannelType /\ ch'.prepared = ch.prepared /\ ch'.nonce = ch.nonce
  BY <1>1, <1>5, <1>6, <1>7 DEF ChannelType
<1> QED
  BY <1>3, <1>4, <1>8 DEF EnqueuedType

\* The same after a kill.
KilledType ==
    /\ proc' \in [Epoch -> ProcState]
    /\ late' \in [Epoch -> SUBSET Id]
    /\ loop' \in [Epoch -> [Loops -> LoopType]] /\ LoopShape'

\* A kill leaves the process table well typed and no loop in mid-request.
LEMMA KillType ==
    ASSUME TypeInv, KillProc
    PROVE  KilledType
<1>1. CASE UNCHANGED <<proc, loop, late>>
  BY <1>1 DEF KilledType, TypeInv, TypeOK, Shape, LoopShape
<1>2. CASE driver.proc # 0 /\ Stop(driver.proc)
  <2>1. driver.proc \in Epoch
    BY <1>2, BoundsAssumption DEF TypeInv, TypeOK, DriverType, Epoch
  <2>2. [l \in Loops |-> Idle] \in [Loops -> LoopType]
    BY DEF Idle, LoopType
  <2>3. loop' \in [Epoch -> [Loops -> LoopType]] /\ LoopShape'
    BY <1>2, <2>1, <2>2 DEF Stop, Idle, TypeInv, TypeOK, Shape, LoopShape
  <2> QED
    BY <1>2, <2>1, <2>3 DEF KilledType, Stop, ProcState, TypeInv, TypeOK
<1> QED
  BY <1>1, <1>2 DEF KillProc

\* The epoch that takeHostEpoch hands to the boot is one of the page's.
Taken(mode) == driver' = [pc |-> "write", mode |-> mode, epoch |-> ch'.nonce,
                          proc |-> 0, exitId |-> NoId]

LEMMA TakeType ==
    ASSUME TypeInv, CanRotate,
           NEW mode \in {"boot", "retry", "respawn", "dispose"},
           TakeHostEpoch(mode)
    PROVE  /\ PreparedType /\ ~ch'.prepared
           /\ Taken(mode) /\ driver' \in DriverType /\ driver'.epoch \in Epoch
<1>1. PrepareHostEpoch(FALSE, FALSE, status) /\ status \in [Id -> Status]
  BY DEF TakeHostEpoch, TypeInv, TypeOK
<1>2. Taken(mode)
  BY DEF TakeHostEpoch, Taken
<1>3. PreparedType /\ ch'.prepared = FALSE
  BY <1>1, PrepareType
<1>4. 0 \in 0..MaxEpoch /\ ch'.nonce \in 0..MaxEpoch
  BY <1>3, BoundsAssumption DEF PreparedType, Epoch
<1>5. driver' \in DriverType
  BY <1>2, <1>4 DEF Taken, DriverType
<1> QED
  BY <1>2, <1>3, <1>5 DEF Taken, PreparedType

LEMMA TypeNext == TypeInv /\ [Next]_vars => TypeInv'
<1> SUFFICES ASSUME TypeInv, [Next]_vars PROVE TypeInv'
  OBVIOUS
<1> USE DEF pageVars, fileVars, hostVars, historyVars
<1>1. ASSUME Boot PROVE TypeInv'
  <2>1. CanRotate /\ TakeHostEpoch("boot")
    BY <1>1 DEF Boot
  <2>2. PreparedType /\ ~ch'.prepared /\ Taken("boot") /\ driver' \in DriverType
    BY <2>1, TakeType
  <2> QED
    BY <1>1, <2>2
    DEF Boot, Taken, PreparedType, TypeInv, TypeOK, Shape, LoopShape, CanRotate
<1>2. ASSUME RespawnAfterFailure PROVE TypeInv'
  <2>1. CanRotate /\ TakeHostEpoch("respawn")
    BY <1>2 DEF RespawnAfterFailure
  <2>2. PreparedType /\ ~ch'.prepared /\ Taken("respawn") /\ driver' \in DriverType
    BY <2>1, TakeType
  <2> QED
    BY <1>2, <2>2
    DEF RespawnAfterFailure, Taken, PreparedType, TypeInv, TypeOK, Shape, LoopShape, CanRotate
<1>3. ASSUME BootRetry PROVE TypeInv'
  <2>1. CanRotate /\ KillProc /\ TakeHostEpoch("retry")
    BY <1>3 DEF BootRetry
  <2>2. PreparedType /\ ~ch'.prepared /\ Taken("retry") /\ driver' \in DriverType
    BY <2>1, TakeType
  <2>3. KilledType
    BY <2>1, KillType
  <2> QED
    BY <1>3, <2>2, <2>3
    DEF BootRetry, Taken, KilledType, PreparedType, TypeInv, TypeOK, Shape, LoopShape, CanRotate
<1>4. ASSUME StopHost("respawn") PROVE TypeInv'
  <2>1. CanRotate /\ driver.pc = "up"
    BY <1>4 DEF StopHost
  <2>2. CASE ch.prepared \/ ch.paused
    <3>1. PrepareHostEpoch(TRUE, TRUE, status) /\ status \in [Id -> Status]
      BY <1>4, <2>2 DEF StopHost, TypeInv, TypeOK
    <3>2. PreparedType /\ ch'.prepared = TRUE
      BY <2>1, <3>1, PrepareType
    <3>3. driver' = [driver EXCEPT !.pc = "stop", !.mode = "respawn"]
      BY <1>4, <2>2 DEF StopHost
    <3>4. /\ driver' \in DriverType
          /\ driver'.pc = "stop" /\ driver'.epoch = driver.epoch /\ driver.epoch \in Epoch
      BY <2>1, <3>3 DEF DriverType, TypeInv, TypeOK, Shape
    <3> QED
      BY <1>4, <2>1, <2>2, <3>2, <3>3, <3>4
      DEF StopHost, PreparedType, TypeInv, TypeOK, Shape, LoopShape, CanRotate
  <2>3. CASE ~(ch.prepared \/ ch.paused)
    <3>1. /\ Enqueue("shutdown", Default, "priority")
          /\ "shutdown" \in AllCommands /\ ch.nonce \in Epoch
      BY <1>4, <2>1, <2>3 DEF StopHost, AllCommands, TypeInv, Shape
    <3>2. EnqueuedType
      BY <3>1, EnqueueType, InstancesAssumption
    <3>3. driver' = [driver EXCEPT !.pc = "exit", !.mode = "respawn", !.exitId = NextId]
      BY <1>4, <2>3 DEF StopHost
    <3>4. driver' \in DriverType
      BY <3>2, <3>3 DEF EnqueuedType, DriverType, TypeInv, TypeOK
    <3> QED
      BY <1>4, <2>1, <2>3, <3>2, <3>3, <3>4
      DEF StopHost, EnqueuedType, TypeInv, TypeOK, Shape, LoopShape, CanRotate
  <2> QED
    BY <2>2, <2>3
<1>5. ASSUME StopHost("dispose") PROVE TypeInv'
  <2>1. CanRotate /\ driver.pc = "up"
    BY <1>5 DEF StopHost
  <2>2. CASE ch.prepared \/ ch.paused
    <3>1. PrepareHostEpoch(TRUE, TRUE, status) /\ status \in [Id -> Status]
      BY <1>5, <2>2 DEF StopHost, TypeInv, TypeOK
    <3>2. PreparedType /\ ch'.prepared = TRUE
      BY <2>1, <3>1, PrepareType
    <3>3. driver' = [driver EXCEPT !.pc = "stop", !.mode = "dispose"]
      BY <1>5, <2>2 DEF StopHost
    <3>4. /\ driver' \in DriverType
          /\ driver'.pc = "stop" /\ driver'.epoch = driver.epoch /\ driver.epoch \in Epoch
      BY <2>1, <3>3 DEF DriverType, TypeInv, TypeOK, Shape
    <3> QED
      BY <1>5, <2>1, <2>2, <3>2, <3>3, <3>4
      DEF StopHost, PreparedType, TypeInv, TypeOK, Shape, LoopShape, CanRotate
  <2>3. CASE ~(ch.prepared \/ ch.paused)
    <3>1. /\ Enqueue("shutdown", Default, "priority")
          /\ "shutdown" \in AllCommands /\ ch.nonce \in Epoch
      BY <1>5, <2>1, <2>3 DEF StopHost, AllCommands, TypeInv, Shape
    <3>2. EnqueuedType
      BY <3>1, EnqueueType, InstancesAssumption
    <3>3. driver' = [driver EXCEPT !.pc = "exit", !.mode = "dispose", !.exitId = NextId]
      BY <1>5, <2>3 DEF StopHost
    <3>4. driver' \in DriverType
      BY <3>2, <3>3 DEF EnqueuedType, DriverType, TypeInv, TypeOK
    <3> QED
      BY <1>5, <2>1, <2>3, <3>2, <3>3, <3>4
      DEF StopHost, EnqueuedType, TypeInv, TypeOK, Shape, LoopShape, CanRotate
  <2> QED
    BY <2>2, <2>3
<1>6. ASSUME ShutdownSettled PROVE TypeInv'
  <2>1. CASE status[driver.exitId] = "accepted"
    BY <1>6, <2>1
    DEF ShutdownSettled, DriverType, TypeInv, TypeOK, Shape, LoopShape, CanRotate
  <2>2. CASE status[driver.exitId] # "accepted"
    <3>1. /\ PrepareHostEpoch(TRUE, TRUE, status)
          /\ CanRotate /\ status \in [Id -> Status]
      BY <1>6, <2>2 DEF ShutdownSettled, TypeInv, TypeOK, Shape
    <3>2. PreparedType /\ ch'.prepared = TRUE
      BY <3>1, PrepareType
    <3> QED
      BY <1>6, <2>2, <3>2
      DEF ShutdownSettled, DriverType, PreparedType, TypeInv, TypeOK, Shape, LoopShape, CanRotate
  <2> QED
    BY <2>1, <2>2
<1>7. ASSUME KillHost PROVE TypeInv'
  <2>1. KillProc /\ driver.pc = "stop" /\ CanRotate
    BY <1>7 DEF KillHost, TypeInv, Shape
  <2>2. KilledType
    BY <2>1, KillType
  <2>3. CASE driver.mode = "dispose"
    <3>1. driver' = [driver EXCEPT !.pc = "off", !.proc = 0]
      BY <1>7, <2>3 DEF KillHost
    <3>2. 0 \in 0..MaxEpoch /\ driver \in DriverType
      BY BoundsAssumption DEF TypeInv, TypeOK
    <3>3. driver' \in DriverType
      BY <3>1, <3>2 DEF DriverType
    <3> QED
      BY <1>7, <2>1, <2>2, <2>3, <3>1, <3>3
      DEF KillHost, KilledType, TypeInv, TypeOK, Shape, LoopShape, CanRotate
  <2>4. CASE driver.mode # "dispose"
    <3>1. TakeHostEpoch("respawn")
      BY <1>7, <2>4 DEF KillHost
    <3>2. PreparedType /\ ~ch'.prepared /\ Taken("respawn") /\ driver' \in DriverType
      BY <2>1, <3>1, TakeType
    <3> QED
      BY <1>7, <2>2, <2>4, <3>2
      DEF KillHost, Taken, KilledType, PreparedType, TypeInv, TypeOK, Shape, LoopShape, CanRotate
  <2> QED
    BY <2>3, <2>4
<1>8. ASSUME WriteHostEpoch PROVE TypeInv'
  BY <1>8, NoIdIsNoId
  DEF WriteHostEpoch, DriverType, TypeInv, TypeOK, Shape, LoopShape, CanRotate
<1>9. ASSUME SpawnHost PROVE TypeInv'
  BY <1>9, NoIdIsNoId
  DEF SpawnHost, DriverType, ChannelType, ProcState, TypeInv, TypeOK, Shape, LoopShape, CanRotate
<1>10. ASSUME BootFails PROVE TypeInv'
  BY <1>10, NoIdIsNoId
  DEF BootFails, DriverType, TypeInv, TypeOK, Shape, LoopShape, CanRotate
<1>11. ASSUME WriteCommand PROVE TypeInv'
  BY <1>11, NoIdIsNoId
  DEF WriteCommand, DeliveryType, TypeInv, TypeOK, Shape, LoopShape, CanRotate
<1>12. ASSUME TakeAck PROVE TypeInv'
  BY <1>12, NoIdIsNoId
  DEF TakeAck, DeliveryType, TypeInv, TypeOK, Shape, LoopShape, CanRotate
<1>13. ASSUME RejectDelivery PROVE TypeInv'
  BY <1>13, NoIdIsNoId
  DEF RejectDelivery, DeliveryType, Status, Settled, Idle, TypeInv, TypeOK, Shape, LoopShape, CanRotate
<1>14. ASSUME PumpDeliveries PROVE TypeInv'
  <2>1. PICK lane \in {"priority", "normal"} :
          /\ ch[lane] # <<>>
          /\ ch' = [ch EXCEPT ![lane] = Tail(ch[lane])]
          /\ \/ /\ delivery' = [pc |-> "write", id |-> Head(ch[lane])]
                /\ UNCHANGED status
             \/ /\ status' = [status EXCEPT ![Head(ch[lane])] = "failed"]
                /\ UNCHANGED delivery
    BY <1>14, Zenon DEF PumpDeliveries
  <2>2. ch \in ChannelType
    BY DEF ChannelType, TypeInv, TypeOK
  <2>3. Head(ch[lane]) \in Id /\ Tail(ch[lane]) \in Seq(Id)
    BY <2>1, <2>2 DEF ChannelType
  <2>4. ch' \in ChannelType /\ ch'.prepared = ch.prepared /\ ch'.nonce = ch.nonce
    <3>1. CASE lane = "normal"
      <4>1. ch' = [ch EXCEPT !.normal = Tail(ch.normal)]
        BY <2>1, <3>1
      <4> QED
        BY <2>2, <2>3, <3>1, <4>1 DEF ChannelType
    <3>2. CASE lane = "priority"
      <4>1. ch' = [ch EXCEPT !.priority = Tail(ch.priority)]
        BY <2>1, <3>2
      <4> QED
        BY <2>2, <2>3, <3>2, <4>1 DEF ChannelType
    <3> QED
      BY <3>1, <3>2
  <2>5. /\ status' \in [Id -> Status]
        /\ delivery' \in DeliveryType
        /\ delivery'.pc # "idle" => delivery'.id \in Id
    <3>1. CASE UNCHANGED status /\ delivery' = [pc |-> "write", id |-> Head(ch[lane])]
      BY <2>3, <3>1 DEF DeliveryType, TypeInv, TypeOK
    <3>2. CASE /\ status' = [status EXCEPT ![Head(ch[lane])] = "failed"]
               /\ UNCHANGED delivery
      BY <2>3, <3>2 DEF Status, Settled, TypeInv, TypeOK, Shape
    <3> QED
      BY <2>1, <3>1, <3>2
  <2> QED
    BY <1>14, <2>4, <2>5
    DEF PumpDeliveries, TypeInv, TypeOK, Shape, LoopShape, CanRotate
<1>15. ASSUME Accepted PROVE TypeInv'
  <2> DEFINE st == [status EXCEPT ![delivery.id] = "accepted"]
  <2>1. delivery.id \in Id /\ delivery' = Idle
    BY <1>15 DEF Accepted, TypeInv, Shape
  <2>2. CASE cmd[delivery.id] = "shutdown"
    <3>1. CanRotate /\ PrepareHostEpoch(TRUE, TRUE, st)
      BY <1>15, <2>2 DEF Accepted
    <3>2. st \in [Id -> Status]
      BY <2>1 DEF Status, Settled, TypeInv, TypeOK
    <3> HIDE DEF st
    <3>3. PreparedType /\ ch'.prepared = TRUE
      BY <3>1, <3>2, PrepareType
    <3> QED
      BY <1>15, <2>1, <3>3
      DEF Accepted, Idle, DeliveryType, PreparedType, TypeInv, TypeOK, Shape, LoopShape, CanRotate
  <2>3. CASE cmd[delivery.id] # "shutdown"
    <3>1. /\ status' = [status EXCEPT ![delivery.id] = "acked"]
          /\ UNCHANGED <<ch, sweep, acks, results>>
          /\ UNCHANGED <<cmd, inst, cmdFile, epochFile, hostVars, driver, historyVars>>
      BY <1>15, <2>3 DEF Accepted
    <3>2. status' \in [Id -> Status]
      BY <2>1, <3>1 DEF Status, Settled, TypeInv, TypeOK
    <3>3. delivery' \in DeliveryType /\ delivery'.pc = "idle"
      BY <2>1 DEF Idle, DeliveryType
    <3> QED
      BY <3>1, <3>2, <3>3
      DEF hostVars, historyVars, TypeInv, TypeOK, Shape, LoopShape, CanRotate
  <2> QED
    BY <2>2, <2>3
<1>16. ASSUME NEW id \in Id, TakeResult(id) PROVE TypeInv'
  <2>1. results[id] \in {"reply", "stale", "foreign"}
    BY <1>16 DEF TakeResult, ResultKind, TypeInv, TypeOK
  <2>2. status' \in [Id -> Status]
    BY <1>16, <2>1 DEF TakeResult, Status, Settled, TypeInv, TypeOK
  <2>3. results' \in [Id -> ResultKind]
    BY <1>16 DEF TakeResult, ResultKind, TypeInv, TypeOK
  <2> QED
    BY <1>16, <2>2, <2>3
    DEF TakeResult, ResultKind, TypeInv, TypeOK, Shape, LoopShape, CanRotate
<1>17. ASSUME NEW id \in Id, RejectResult(id) PROVE TypeInv'
  BY <1>17, NoIdIsNoId
  DEF RejectResult, Status, Settled, TypeInv, TypeOK, Shape, LoopShape, CanRotate
<1>18. ASSUME NEW e \in Epoch, SweepRead(e) PROVE TypeInv'
  BY <1>18, NoIdIsNoId
  DEF SweepRead, TypeInv, TypeOK, Shape, LoopShape, CanRotate
<1>19. ASSUME NEW e \in Epoch, SweepUnlink(e) PROVE TypeInv'
  BY <1>19, NoIdIsNoId
  DEF SweepUnlink, TypeInv, TypeOK, Shape, LoopShape, CanRotate
<1>20. ASSUME NEW c \in Commands, NEW i \in Instances, Exec(c, i)
      PROVE  TypeInv'
  <2>1. ch.nonce \in Epoch /\ Enqueue(c, i, "normal") /\ c \in AllCommands
    BY <1>20, CommandsAssumption DEF Exec
  <2>2. EnqueuedType
    BY <2>1, EnqueueType
  <2> QED
    BY <1>20, <2>1, <2>2
    DEF Exec, EnqueuedType, TypeInv, TypeOK, Shape, LoopShape, CanRotate
<1>21. ASSUME NEW c \in Commands, NEW i \in Instances, Direct(c, i)
      PROVE  TypeInv'
  <2>1. ch.nonce \in Epoch /\ Enqueue(c, i, "priority") /\ c \in AllCommands
    BY <1>21, CommandsAssumption DEF Direct
  <2>2. EnqueuedType
    BY <2>1, EnqueueType
  <2> QED
    BY <1>21, <2>1, <2>2
    DEF Direct, EnqueuedType, TypeInv, TypeOK, Shape, LoopShape, CanRotate
<1>22. ASSUME NEW p \in Epoch, HostStart(p) PROVE TypeInv'
  BY <1>22, NoIdIsNoId
  DEF HostStart, ProcState, TypeInv, TypeOK, Shape, LoopShape, CanRotate
<1>23. ASSUME NEW p \in Epoch, HostExit(p) PROVE TypeInv'
  BY <1>23, NoIdIsNoId
  DEF HostExit, ProcState, LoopType, Stop, Idle, TypeInv, TypeOK, Shape, LoopShape, CanRotate
<1>24. ASSUME NEW p \in Epoch, PruneStaleResults(p) PROVE TypeInv'
  BY <1>24, NoIdIsNoId
  DEF PruneStaleResults, ResultKind, TypeInv, TypeOK, Shape, LoopShape, CanRotate
<1>25. ASSUME NEW p \in Epoch, NEW l \in Loops, RefuseStale(p, l)
      PROVE  TypeInv'
  BY <1>25, NoIdIsNoId
  DEF RefuseStale, Goto, Polls, LoopType, ResultKind, TypeInv, TypeOK, Shape, LoopShape, CanRotate
<1>26. ASSUME NEW p \in Epoch, NEW l \in Loops, AckAgain(p, l)
      PROVE  TypeInv'
  BY <1>26, NoIdIsNoId
  DEF AckAgain, Goto, Polls, LoopType, ResultKind, TypeInv, TypeOK, Shape, LoopShape, CanRotate
<1>27. ASSUME NEW p \in Epoch, NEW l \in Loops, Begin(p, l)
      PROVE  TypeInv'
  <2>1. cmdFile \in Id
    BY <1>27, NoIdIsNoId DEF Begin, Polls, TypeInv, TypeOK
  <2>2. loop' \in [Epoch -> [Loops -> LoopType]]
    BY <1>27, <2>1 DEF Begin, Goto, LoopType, TypeInv, TypeOK
  <2>3. LoopShape'
    BY <1>27, <2>1 DEF Begin, Goto, LoopShape, TypeInv, TypeOK, Shape
  <2>4. processed' \in [Epoch -> SUBSET Id] /\ acks' \subseteq Id /\ started' \in [Id -> Nat]
    BY <1>27, <2>1 DEF Begin, TypeInv, TypeOK
  <2> QED
    BY <1>27, <2>2, <2>3, <2>4
    DEF Begin, LoopType, TypeInv, TypeOK, Shape, CanRotate
<1>28. ASSUME NEW p \in Epoch, NEW l \in Loops, Finish(p, l)
      PROVE  TypeInv'
  BY <1>28, NoIdIsNoId
  DEF Finish, Goto, LoopType, ProcState, ResultKind, TypeInv, TypeOK, Shape, LoopShape, CanRotate
<1>29. ASSUME NEW p \in Epoch, NEW l \in Loops, Compare(p, l)
      PROVE  TypeInv'
  <2>1. PICK pc \in {"idle", "unlink"}, id \in Id \union {NoId} :
          loop' = [loop EXCEPT ![p][l] = [pc |-> pc, id |-> id]] /\ (pc # "idle" => id \in Id)
    <3>1. loop[p][l].id \in Id
      BY <1>29 DEF Compare, TypeInv, Shape, LoopShape
    <3>2. CASE cmdFile = loop[p][l].id
      BY <1>29, <3>1, <3>2 DEF Compare, Goto
    <3>3. CASE cmdFile # loop[p][l].id
      BY <1>29, <3>3 DEF Compare, Goto
    <3> QED
      BY <3>2, <3>3
  <2>2. loop' \in [Epoch -> [Loops -> LoopType]]
    BY <2>1 DEF LoopType, TypeInv, TypeOK
  <2>3. LoopShape'
    BY <2>1 DEF LoopShape, TypeInv, TypeOK, Shape
  <2> QED
    BY <1>29, <2>2, <2>3 DEF Compare, LoopType, TypeInv, TypeOK, Shape, CanRotate
<1>30. ASSUME NEW p \in Epoch, NEW l \in Loops, Unlink(p, l)
      PROVE  TypeInv'
  BY <1>30, NoIdIsNoId
  DEF Unlink, Goto, Idle, LoopType, TypeInv, TypeOK, Shape, LoopShape, CanRotate
<1>31. ASSUME NEW p \in Epoch, NEW id \in Id, SpawnConfirmed(p, id)
      PROVE  TypeInv'
  BY <1>31, NoIdIsNoId
  DEF SpawnConfirmed, ResultKind, TypeInv, TypeOK, Shape, LoopShape, CanRotate
<1>32. CASE UNCHANGED vars
  BY <1>32 DEF vars, TypeInv, TypeOK, Shape, LoopShape, CanRotate
<1> QED
  BY <1>1, <1>2, <1>3, <1>4, <1>5, <1>6, <1>7, <1>8, <1>9, <1>10, <1>11,
     <1>12, <1>13, <1>14, <1>15, <1>16, <1>17, <1>18, <1>19, <1>20, <1>21,
     <1>22, <1>23, <1>24, <1>25, <1>26, <1>27, <1>28, <1>29, <1>30, <1>31,
     <1>32
  DEF Next, Page, Deliver, Host, Driver, Boots

\* Every reachable state is well typed: queues hold ids, and every id, process and
\* delivery is in one of the states the code knows.
THEOREM TypeCorrect == Spec => []TypeOK
<1>1. TypeInv => TypeOK
  BY DEF TypeInv
<1> QED
  BY <1>1, TypeInit, TypeNext, PTL DEF Spec

-------------------------------------------------------------------------------
(* Epochs and hosts.  A process reads the epoch it was spawned for, because *)
(* the driver writes the epoch file only while no process is starting; so a *)
(* command is begun only by the process of its own epoch, and the memory of *)
(* that one process is enough to begin it once.                            *)

EpochFileInv == driver.pc = "spawn" => epochFile = driver.epoch

StartingInv ==
    \A p \in Epoch : proc[p] = "starting" =>
        /\ driver.proc = p /\ epochFile = p
        /\ driver.pc \in {"up", "exit", "stop"}

UpInv == \A p \in Epoch : proc[p] \in {"up", "exiting"} => procEpoch[p] = p

StartedInv == \A id \in Id : started[id] > 0 => id \in processed[EpochOf(id)]

HostInv ==
    /\ EpochFileInv /\ StartingInv /\ UpInv /\ StartedInv
    /\ NoCommandCrossesRestart /\ AtMostOnce

\* What HostInv speaks of.
Untouched == UNCHANGED <<driver, epochFile, proc, procEpoch, processed, started>>

LEMMA HostInit == Init => HostInv
BY DEF Init, HostInv, EpochFileInv, StartingInv, UpInv, StartedInv,
       NoCommandCrossesRestart, AtMostOnce

LEMMA UntouchedHost == HostInv /\ Untouched => HostInv'
BY DEF Untouched, HostInv, EpochFileInv, StartingInv, UpInv, StartedInv,
       NoCommandCrossesRestart, AtMostOnce

\* A kill stops the process of the driver if it has not begun to run.
LEMMA KillHostInv ==
    ASSUME TypeInv, HostInv, KillProc
    PROVE  /\ \A p \in Epoch : proc'[p] # "starting"
           /\ \A p \in Epoch : proc'[p] \in {"up", "exiting"} => procEpoch[p] = p
<1>1. CASE UNCHANGED <<proc, loop, late>> /\ driver.proc = 0
  <2>1. \A p \in Epoch : proc[p] # "starting"
    BY <1>1 DEF HostInv, StartingInv, Epoch
  <2> QED
    BY <1>1, <2>1 DEF HostInv, UpInv
<1>2. CASE UNCHANGED <<proc, loop, late>> /\ proc[driver.proc] # "starting"
  <2>1. \A p \in Epoch : proc[p] # "starting"
    BY <1>2 DEF HostInv, StartingInv
  <2> QED
    BY <1>2, <2>1 DEF HostInv, UpInv
<1>3. CASE driver.proc # 0 /\ Stop(driver.proc)
  <2>1. proc' = [proc EXCEPT ![driver.proc] = "dead"] /\ proc \in [Epoch -> ProcState]
    BY <1>3 DEF Stop, TypeInv, TypeOK
  <2> QED
    BY <2>1 DEF HostInv, StartingInv, UpInv
<1> QED
  BY <1>1, <1>2, <1>3 DEF KillProc

LEMMA HostNext == TypeInv /\ HostInv /\ [Next]_vars => HostInv'
<1> SUFFICES ASSUME TypeInv, HostInv, [Next]_vars PROVE HostInv'
  OBVIOUS
<1> USE DEF fileVars, hostVars, historyVars
<1>1. ASSUME Page PROVE HostInv'
  <2>1. Untouched
    BY <1>1 DEF Page, Deliver, Exec, Direct, PumpDeliveries, WriteCommand, TakeAck,
       RejectDelivery, Accepted, TakeResult, RejectResult, SweepRead, SweepUnlink,
       Untouched
  <2> QED
    BY <2>1, UntouchedHost
<1>2. ASSUME Boot PROVE HostInv'
  <2>1. CanRotate /\ TakeHostEpoch("boot") /\ driver.pc \in {"off", "failed"}
    BY <1>2 DEF Boot
  <2>2. driver'.pc = "write"
    BY <2>1 DEF TakeHostEpoch
  <2>3. \A p \in Epoch : proc[p] # "starting"
    BY <2>1 DEF HostInv, StartingInv
  <2> QED
    BY <1>2, <2>2, <2>3
    DEF Boot, HostInv, EpochFileInv, StartingInv, UpInv, StartedInv,
        NoCommandCrossesRestart, AtMostOnce
<1>3. ASSUME RespawnAfterFailure PROVE HostInv'
  <2>1. CanRotate /\ TakeHostEpoch("respawn") /\ driver.pc \in {"off", "failed"}
    BY <1>3 DEF RespawnAfterFailure
  <2>2. driver'.pc = "write"
    BY <2>1 DEF TakeHostEpoch
  <2>3. \A p \in Epoch : proc[p] # "starting"
    BY <2>1 DEF HostInv, StartingInv
  <2> QED
    BY <1>3, <2>2, <2>3
    DEF RespawnAfterFailure, HostInv, EpochFileInv, StartingInv, UpInv,
        StartedInv, NoCommandCrossesRestart, AtMostOnce
<1>4. ASSUME BootRetry PROVE HostInv'
  <2>1. KillProc /\ TakeHostEpoch("retry")
    BY <1>4 DEF BootRetry
  <2>2. driver'.pc = "write"
    BY <2>1 DEF TakeHostEpoch
  <2>3. /\ \A p \in Epoch : proc'[p] # "starting"
        /\ \A p \in Epoch : proc'[p] \in {"up", "exiting"} => procEpoch[p] = p
    BY <2>1, KillHostInv
  <2> QED
    BY <1>4, <2>2, <2>3
    DEF BootRetry, HostInv, EpochFileInv, StartingInv, UpInv, StartedInv,
        NoCommandCrossesRestart, AtMostOnce
<1>5. ASSUME StopHost("respawn") PROVE HostInv'
  <2>1. /\ driver'.pc \in {"exit", "stop"} /\ driver'.proc = driver.proc
        /\ UNCHANGED <<epochFile, proc, procEpoch, processed, started>>
    BY <1>5 DEF StopHost, TypeInv, TypeOK, DriverType
  <2> QED
    BY <2>1
    DEF HostInv, EpochFileInv, StartingInv, UpInv, StartedInv,
        NoCommandCrossesRestart, AtMostOnce
<1>6. ASSUME StopHost("dispose") PROVE HostInv'
  <2>1. /\ driver'.pc \in {"exit", "stop"} /\ driver'.proc = driver.proc
        /\ UNCHANGED <<epochFile, proc, procEpoch, processed, started>>
    BY <1>6 DEF StopHost, TypeInv, TypeOK, DriverType
  <2> QED
    BY <2>1
    DEF HostInv, EpochFileInv, StartingInv, UpInv, StartedInv,
        NoCommandCrossesRestart, AtMostOnce
<1>7. ASSUME ShutdownSettled PROVE HostInv'
  <2>1. /\ driver'.pc = "stop" /\ driver'.proc = driver.proc
        /\ UNCHANGED <<epochFile, proc, procEpoch, processed, started>>
    BY <1>7 DEF ShutdownSettled, TypeInv, TypeOK, DriverType
  <2> QED
    BY <2>1
    DEF HostInv, EpochFileInv, StartingInv, UpInv, StartedInv,
        NoCommandCrossesRestart, AtMostOnce
<1>8. ASSUME KillHost PROVE HostInv'
  <2>1. KillProc /\ UNCHANGED <<epochFile, procEpoch, processed, started>>
    BY <1>8 DEF KillHost
  <2>2. driver'.pc # "spawn"
    <3>1. CASE driver.mode = "dispose"
      <4>1. driver' = [driver EXCEPT !.pc = "off", !.proc = 0]
        BY <1>8, <3>1 DEF KillHost
      <4> QED
        BY <4>1 DEF TypeInv, TypeOK, DriverType
    <3>2. CASE driver.mode # "dispose"
      BY <1>8, <3>2 DEF KillHost, TakeHostEpoch
    <3> QED
      BY <3>1, <3>2
  <2>3. /\ \A p \in Epoch : proc'[p] # "starting"
        /\ \A p \in Epoch : proc'[p] \in {"up", "exiting"} => procEpoch[p] = p
    BY <2>1, KillHostInv
  <2> QED
    BY <2>1, <2>2, <2>3
    DEF HostInv, EpochFileInv, StartingInv, UpInv, StartedInv,
        NoCommandCrossesRestart, AtMostOnce
<1>9. ASSUME WriteHostEpoch PROVE HostInv'
  <2>1. \A p \in Epoch : proc[p] # "starting"
    BY <1>9 DEF WriteHostEpoch, HostInv, StartingInv
  <2>2. epochFile' = driver'.epoch
    BY <1>9 DEF WriteHostEpoch, TypeInv, TypeOK, DriverType
  <2> QED
    BY <1>9, <2>1, <2>2
    DEF WriteHostEpoch, HostInv, EpochFileInv, StartingInv, UpInv, StartedInv,
        NoCommandCrossesRestart, AtMostOnce
<1>10. ASSUME SpawnHost PROVE HostInv'
  <2>1. driver.epoch \in Epoch /\ epochFile = driver.epoch
    BY <1>10 DEF SpawnHost, TypeInv, Shape, HostInv, EpochFileInv
  <2>2. driver'.pc = "up" /\ driver'.proc = driver.epoch
    BY <1>10 DEF SpawnHost, TypeInv, TypeOK, DriverType
  <2>3. \A p \in Epoch : proc[p] # "starting"
    BY <1>10 DEF SpawnHost, HostInv, StartingInv
  <2>4. proc' = [proc EXCEPT ![driver.epoch] = "starting"] /\ proc \in [Epoch -> ProcState]
    BY <1>10 DEF SpawnHost, TypeInv, TypeOK
  <2>5. UNCHANGED <<epochFile, procEpoch, processed, started>>
    BY <1>10 DEF SpawnHost
  <2> QED
    BY <2>1, <2>2, <2>3, <2>4, <2>5
    DEF HostInv, EpochFileInv, StartingInv, UpInv, StartedInv,
        NoCommandCrossesRestart, AtMostOnce
<1>11. ASSUME BootFails PROVE HostInv'
  <2>1. driver'.pc = "failed" /\ driver.pc \in {"write", "spawn"}
    BY <1>11 DEF BootFails, TypeInv, TypeOK, DriverType
  <2>2. \A p \in Epoch : proc[p] # "starting"
    BY <2>1 DEF HostInv, StartingInv
  <2> QED
    BY <1>11, <2>1, <2>2
    DEF BootFails, HostInv, EpochFileInv, StartingInv, UpInv, StartedInv,
        NoCommandCrossesRestart, AtMostOnce
<1>12. ASSUME NEW p \in Epoch, HostStart(p) PROVE HostInv'
  <2>1. epochFile = p
    BY <1>12 DEF HostStart, HostInv, StartingInv
  <2>2. /\ proc' = [proc EXCEPT ![p] = "up"] /\ proc \in [Epoch -> ProcState]
        /\ procEpoch' = [procEpoch EXCEPT ![p] = p] /\ procEpoch \in [Epoch -> 0..MaxEpoch]
        /\ UNCHANGED <<driver, epochFile, processed, started>>
    BY <1>12, <2>1 DEF HostStart, TypeInv, TypeOK
  <2> QED
    BY <2>2
    DEF HostInv, EpochFileInv, StartingInv, UpInv, StartedInv,
        NoCommandCrossesRestart, AtMostOnce
<1>13. ASSUME NEW p \in Epoch, HostExit(p) PROVE HostInv'
  <2>1. /\ proc' = [proc EXCEPT ![p] = "dead"] /\ proc \in [Epoch -> ProcState]
        /\ UNCHANGED <<driver, epochFile, procEpoch, processed, started>>
    BY <1>13 DEF HostExit, Stop, TypeInv, TypeOK
  <2> QED
    BY <2>1
    DEF HostInv, EpochFileInv, StartingInv, UpInv, StartedInv,
        NoCommandCrossesRestart, AtMostOnce
<1>14. ASSUME NEW p \in Epoch, NEW l \in Loops, Begin(p, l)
      PROVE  HostInv'
  <2>1. cmdFile \in Id /\ EpochOf(cmdFile) = p /\ cmdFile \notin processed[p]
    BY <1>14, NoIdIsNoId
    DEF Begin, Polls, SameEpoch, AlreadyProcessed, TypeInv, TypeOK, HostInv, UpInv
  <2>2. started[cmdFile] = 0
    BY <2>1 DEF HostInv, StartedInv, TypeInv, TypeOK
  <2>3. /\ processed' = [processed EXCEPT ![p] = @ \union {cmdFile}]
        /\ processed \in [Epoch -> SUBSET Id]
        /\ started' = [started EXCEPT ![cmdFile] = 1] /\ started \in [Id -> Nat]
    BY <1>14, <2>1, <2>2 DEF Begin, TypeInv, TypeOK
  <2>4. \A q \in Epoch : processed[q] \subseteq processed'[q]
    BY <2>3
  <2>5. StartedInv'
    <3> SUFFICES ASSUME NEW id \in Id, started'[id] > 0
                 PROVE  id \in processed'[EpochOf(id)]
      BY DEF StartedInv
    <3>1. CASE id = cmdFile
      BY <2>1, <2>3, <3>1
    <3>2. CASE id # cmdFile
      <4>1. EpochOf(id) \in Epoch
        BY DEF EpochOf, Id
      <4> QED
        BY <2>3, <2>4, <3>2, <4>1 DEF HostInv, StartedInv
    <3> QED
      BY <3>1, <3>2
  <2>6. NoCommandCrossesRestart'
    BY <2>1, <2>3 DEF HostInv, NoCommandCrossesRestart
  <2>7. AtMostOnce'
    BY <2>3 DEF HostInv, AtMostOnce
  <2>8. EpochFileInv' /\ StartingInv' /\ UpInv'
    BY <1>14 DEF Begin, HostInv, EpochFileInv, StartingInv, UpInv
  <2> QED
    BY <2>5, <2>6, <2>7, <2>8 DEF HostInv
<1>15. ASSUME NEW p \in Epoch, NEW l \in Loops, Finish(p, l)
      PROVE  HostInv'
  <2>1. /\ proc \in [Epoch -> ProcState] /\ proc[p] \in {"up", "exiting"}
        /\ \/ proc' = proc
           \/ proc' = [proc EXCEPT ![p] = "exiting"]
        /\ UNCHANGED <<driver, epochFile, procEpoch, processed, started>>
    BY <1>15 DEF Finish, TypeInv, TypeOK
  <2> QED
    BY <2>1
    DEF HostInv, EpochFileInv, StartingInv, UpInv, StartedInv,
        NoCommandCrossesRestart, AtMostOnce
<1>16. ASSUME NEW p \in Epoch,
             \/ PruneStaleResults(p)
             \/ \E l \in Loops : \/ RefuseStale(p, l) \/ AckAgain(p, l)
                                \/ Compare(p, l) \/ Unlink(p, l)
             \/ \E id \in Id : SpawnConfirmed(p, id)
      PROVE  HostInv'
  <2>1. Untouched
    BY <1>16 DEF PruneStaleResults, RefuseStale, AckAgain, Compare, Unlink,
       SpawnConfirmed, Untouched
  <2> QED
    BY <2>1, UntouchedHost
<1>17. CASE UNCHANGED vars
  BY <1>17, UntouchedHost DEF vars, Untouched
<1> QED
  BY <1>1, <1>2, <1>3, <1>4, <1>5, <1>6, <1>7, <1>8, <1>9, <1>10, <1>11,
     <1>12, <1>13, <1>14, <1>15, <1>16, <1>17
  DEF Next, Host, Driver, Boots

LEMMA HostInvariant == Spec => [](TypeInv /\ HostInv)
<1>1. Init => TypeInv /\ HostInv
  BY TypeInit, HostInit
<1>2. (TypeInv /\ HostInv) /\ [Next]_vars => (TypeInv /\ HostInv)'
  BY TypeNext, HostNext
<1> QED
  BY <1>1, <1>2, PTL DEF Spec

\* No command is begun twice: not when it is acknowledged again, not when it
\* is left in the slot, and not by the host of a later epoch.
THEOREM ExecutedAtMostOnce == Spec => []AtMostOnce
<1>1. HostInv => AtMostOnce
  BY DEF HostInv
<1> QED
  BY <1>1, HostInvariant, PTL

\* No host begins a command of an epoch other than its own.
THEOREM EpochsAreFenced == Spec => []NoCommandCrossesRestart
<1>1. HostInv => NoCommandCrossesRestart
  BY DEF HostInv
<1> QED
  BY <1>1, HostInvariant, PTL

-------------------------------------------------------------------------------
(* The command slot.  Only a delivery writes it, there is one delivery at a time, *)
(* and it ends only when its request is acknowledged or its caller told, so *)
(* the request in the slot is either settled or the one being delivered.   *)

\* Ids are handed out in order, so a new request never has a used id.
NumberedInv ==
    \A id \in Id : status[id] # "unused" =>
        \/ EpochOf(id) < ch.nonce
        \/ EpochOf(id) = ch.nonce /\ id[2] <= ch.seq

LaneInv(lane) ==
    \A k \in 1..Len(ch[lane]) : status[ch[lane][k]] # "unused"

DeliveryInv ==
    /\ delivery.pc # "idle" => status[delivery.id] # "unused"
    /\ cmdFile # NoId => status[cmdFile] # "unused"
    /\ cmdFile # NoId /\ status[cmdFile] = "queued" =>
         delivery.pc \in {"poll", "accepted"} /\ delivery.id = cmdFile

SlotInv == NumberedInv /\ LaneInv("normal") /\ LaneInv("priority") /\ DeliveryInv

LEMMA SlotInit == Init => SlotInv
BY DEF Init, SlotInv, NumberedInv, LaneInv, DeliveryInv, Idle

\* A step that queues nothing, numbers nothing and writes nothing.
Settles ==
    /\ \A id \in Id : status'[id] # status[id] =>
         status[id] # "unused" /\ status'[id] \notin {"unused", "queued"}
    /\ cmdFile' \in {cmdFile, NoId}

LEMMA SettlesSlot ==
    ASSUME TypeInv, SlotInv, Settles, UNCHANGED <<ch, delivery>>
    PROVE  SlotInv'
<1>1. cmdFile \in Id \union {NoId} /\ (delivery.pc # "idle" => delivery.id \in Id)
  BY DEF TypeInv, TypeOK, Shape
<1>2. NumberedInv'
  BY DEF SlotInv, NumberedInv, Settles
<1>3. ASSUME NEW lane \in {"normal", "priority"} PROVE LaneInv(lane)'
  <2>1. \A k \in 1..Len(ch[lane]) : ch[lane][k] \in Id
    BY <1>3 DEF TypeInv, TypeOK, ChannelType
  <2> QED
    BY <1>3, <2>1 DEF SlotInv, LaneInv, Settles
<1>4. DeliveryInv'
  BY <1>1 DEF SlotInv, DeliveryInv, Settles
<1> QED
  BY <1>2, <1>3, <1>4 DEF SlotInv

\* prepareHostEpoch empties the queues, and numbers start again in an epoch
\* nobody has used.
LEMMA PrepareSlot ==
    ASSUME TypeInv, SlotInv, NEW pause \in BOOLEAN, NEW keep \in BOOLEAN,
           NEW st \in [Id -> Status], PrepareHostEpoch(pause, keep, st),
           \A id \in Id : st[id] # status[id] =>
               status[id] # "unused" /\ st[id] \notin {"unused", "queued"}
    PROVE  /\ NumberedInv' /\ LaneInv("normal")' /\ LaneInv("priority")'
           /\ \A id \in Id : status'[id] # status[id] =>
                status[id] # "unused" /\ status'[id] \notin {"unused", "queued"}
<1>1. CASE ch.prepared
  <2>0. /\ ch' = [ch EXCEPT !.paused = @ \/ pause, !.prepared = keep]
        /\ status' = st /\ ch \in ChannelType
    BY <1>1 DEF PrepareHostEpoch, TypeInv, TypeOK
  <2>1. /\ ch'.nonce = ch.nonce /\ ch'.seq = ch.seq
        /\ ch'.normal = ch.normal /\ ch'.priority = ch.priority
        /\ status' = st
    BY <2>0 DEF ChannelType
  <2>2. NumberedInv'
    BY <2>1 DEF SlotInv, NumberedInv
  <2>3. /\ \A k \in 1..Len(ch.normal) : ch.normal[k] \in Id
        /\ \A k \in 1..Len(ch.priority) : ch.priority[k] \in Id
    BY DEF TypeInv, TypeOK, ChannelType
  <2>4. LaneInv("normal")' /\ LaneInv("priority")'
    BY <2>1, <2>3 DEF SlotInv, LaneInv
  <2> QED
    BY <2>1, <2>2, <2>4
<1>2. CASE ~ch.prepared
  <2>1. /\ ch'.nonce = ch.nonce + 1 /\ ch'.normal = <<>> /\ ch'.priority = <<>>
        /\ status' = [id \in Id |-> IF id \in Queued THEN "failed" ELSE st[id]]
    BY <1>2 DEF PrepareHostEpoch
  <2>2. \A id \in Queued : id \in Id /\ status[id] # "unused"
    <3>1. ch.normal \in Seq(Id) /\ ch.priority \in Seq(Id)
      BY DEF TypeInv, TypeOK, ChannelType
    <3>2. /\ DOMAIN ch.normal = 1..Len(ch.normal)
          /\ DOMAIN ch.priority = 1..Len(ch.priority)
      BY <3>1
    <3> QED
      BY <3>1, <3>2 DEF Queued, Range, SlotInv, LaneInv
  <2>3. \A id \in Id : status'[id] # status[id] =>
           status[id] # "unused" /\ status'[id] \notin {"unused", "queued"}
    BY <2>1, <2>2
  <2>4. NumberedInv'
    <3>1. ch.nonce \in Nat /\ \A id \in Id : EpochOf(id) \in Nat
      BY BoundsAssumption DEF TypeInv, TypeOK, ChannelType, Id, Epoch, EpochOf
    <3> QED
      BY <2>1, <2>3, <3>1 DEF SlotInv, NumberedInv
  <2>5. LaneInv("normal")' /\ LaneInv("priority")'
    BY <2>1 DEF LaneInv
  <2> QED
    BY <2>3, <2>4, <2>5
<1> QED
  BY <1>1, <1>2

\* A fresh request has an id no queue, slot or delivery holds.
LEMMA EnqueueSlot ==
    ASSUME TypeInv, SlotInv, ch.nonce \in Epoch,
           NEW c \in AllCommands, NEW i \in Instances,
           NEW lane \in {"normal", "priority"}, Enqueue(c, i, lane),
           UNCHANGED <<delivery, cmdFile>>
    PROVE  SlotInv'
<1>1. NextId \in Id /\ EpochOf(NextId) = ch.nonce /\ NextId[2] = ch.seq + 1
  BY EnqueueType DEF EnqueuedType, NextId, EpochOf
<1>2. /\ ch.seq \in Nat /\ ch.nonce \in Nat
      /\ ch.normal \in Seq(Id) /\ ch.priority \in Seq(Id)
      /\ status \in [Id -> Status]
  BY BoundsAssumption DEF TypeInv, TypeOK, ChannelType
<1>3. status[NextId] = "unused"
  BY <1>1, <1>2 DEF SlotInv, NumberedInv
<1>4. /\ status' = [status EXCEPT ![NextId] = "queued"]
      /\ ch'.nonce = ch.nonce /\ ch'.seq = ch.seq + 1
      /\ ch'.normal = IF lane = "normal" THEN Append(ch.normal, NextId) ELSE ch.normal
      /\ ch'.priority = IF lane = "priority" THEN Append(ch.priority, NextId)
                        ELSE ch.priority
  BY DEF Enqueue, TypeInv, TypeOK, ChannelType
<1>5. NumberedInv'
  <2>1. \A id \in Id : EpochOf(id) \in Nat /\ id[2] \in Nat
    BY DEF Id, Epoch, EpochOf
  <2> QED
    BY <1>1, <1>2, <1>4, <2>1 DEF SlotInv, NumberedInv
<1>6. LaneInv("normal")'
  <2>1. \A k \in 1..Len(ch.normal) : ch.normal[k] \in Id /\ status[ch.normal[k]] # "unused"
    BY <1>2 DEF SlotInv, LaneInv
  <2>2. CASE lane = "normal"
    <3>1. ch'.normal = Append(ch.normal, NextId)
      BY <1>4, <2>2
    <3>2. ASSUME NEW k \in 1..Len(ch'.normal) PROVE status'[ch'.normal[k]] # "unused"
      <4>1. CASE k = Len(ch.normal) + 1
        BY <1>1, <1>2, <1>4, <3>1, <4>1
      <4>2. CASE k \in 1..Len(ch.normal)
        BY <1>1, <1>2, <1>4, <2>1, <3>1, <4>2
      <4> QED
        BY <1>1, <1>2, <3>1, <4>1, <4>2
    <3> QED
      BY <3>2 DEF LaneInv
  <2>3. CASE lane # "normal"
    BY <1>1, <1>2, <1>4, <2>1, <2>3 DEF LaneInv
  <2> QED
    BY <2>2, <2>3
<1>7. LaneInv("priority")'
  <2>1. \A k \in 1..Len(ch.priority) :
           ch.priority[k] \in Id /\ status[ch.priority[k]] # "unused"
    BY <1>2 DEF SlotInv, LaneInv
  <2>2. CASE lane = "priority"
    <3>1. ch'.priority = Append(ch.priority, NextId)
      BY <1>4, <2>2
    <3>2. ASSUME NEW k \in 1..Len(ch'.priority) PROVE status'[ch'.priority[k]] # "unused"
      <4>1. CASE k = Len(ch.priority) + 1
        BY <1>1, <1>2, <1>4, <3>1, <4>1
      <4>2. CASE k \in 1..Len(ch.priority)
        BY <1>1, <1>2, <1>4, <2>1, <3>1, <4>2
      <4> QED
        BY <1>1, <1>2, <3>1, <4>1, <4>2
    <3> QED
      BY <3>2 DEF LaneInv
  <2>3. CASE lane # "priority"
    BY <1>1, <1>2, <1>4, <2>1, <2>3 DEF LaneInv
  <2> QED
    BY <2>2, <2>3
<1>8. DeliveryInv'
  <2>1. cmdFile \in Id \union {NoId} /\ (delivery.pc # "idle" => delivery.id \in Id)
    BY DEF TypeInv, TypeOK, Shape
  <2> QED
    BY <1>1, <1>2, <1>3, <1>4, <2>1 DEF SlotInv, DeliveryInv
<1> QED
  BY <1>5, <1>6, <1>7, <1>8 DEF SlotInv

\* What a fence or a boot does to the channel keeps the slot in order.
LEMMA FencedSlot ==
    ASSUME TypeInv, SlotInv, NEW pause \in BOOLEAN, NEW keep \in BOOLEAN,
           PrepareHostEpoch(pause, keep, status), UNCHANGED <<delivery, cmdFile>>
    PROVE  SlotInv'
<1>1. status \in [Id -> Status] /\ cmdFile \in Id \union {NoId}
      /\ (delivery.pc # "idle" => delivery.id \in Id)
  BY DEF TypeInv, TypeOK, Shape
<1>2. /\ NumberedInv' /\ LaneInv("normal")' /\ LaneInv("priority")'
      /\ \A id \in Id : status'[id] # status[id] =>
           status[id] # "unused" /\ status'[id] \notin {"unused", "queued"}
  BY <1>1, PrepareSlot
<1>3. DeliveryInv'
  BY <1>1, <1>2 DEF SlotInv, DeliveryInv
<1> QED
  BY <1>2, <1>3 DEF SlotInv

LEMMA SlotNext == TypeInv /\ SlotInv /\ [Next]_vars => SlotInv'
<1> SUFFICES ASSUME TypeInv, SlotInv, [Next]_vars PROVE SlotInv'
  OBVIOUS
<1> USE DEF pageVars, fileVars, hostVars, historyVars
<1>1. ASSUME NEW c \in Commands, NEW i \in Instances, Exec(c, i) \/ Direct(c, i)
      PROVE  SlotInv'
  <2>1. PICK lane \in {"normal", "priority"} : Enqueue(c, i, lane)
    BY <1>1 DEF Exec, Direct
  <2>2. /\ ch.nonce \in Epoch /\ c \in AllCommands
        /\ UNCHANGED <<delivery, cmdFile>>
    BY <1>1, CommandsAssumption DEF Exec, Direct
  <2> QED
    BY <2>1, <2>2, EnqueueSlot
<1>2. ASSUME PumpDeliveries PROVE SlotInv'
  <2>1. PICK lane \in {"priority", "normal"} :
          /\ ch[lane] # <<>>
          /\ ch' = [ch EXCEPT ![lane] = Tail(ch[lane])]
          /\ \/ /\ delivery' = [pc |-> "write", id |-> Head(ch[lane])]
                /\ UNCHANGED status
             \/ /\ status' = [status EXCEPT ![Head(ch[lane])] = "failed"]
                /\ UNCHANGED delivery
    BY <1>2, Zenon DEF PumpDeliveries
  <2>2. /\ ch \in ChannelType /\ status \in [Id -> Status]
        /\ cmdFile \in Id \union {NoId} /\ delivery = Idle /\ UNCHANGED cmdFile
    BY <1>2 DEF PumpDeliveries, Delivering, TypeInv, TypeOK
  <2>3. ch[lane] \in Seq(Id)
    BY <2>2 DEF ChannelType
  <2>4. Head(ch[lane]) \in Id /\ status[Head(ch[lane])] # "unused"
    <3>1. LaneInv(lane) /\ 1 \in 1..Len(ch[lane]) /\ Head(ch[lane]) = ch[lane][1]
      BY <2>1, <2>3 DEF SlotInv
    <3> QED
      BY <2>1, <2>3, <3>1 DEF LaneInv
  <2>5. /\ ch'.nonce = ch.nonce /\ ch'.seq = ch.seq
        /\ ch'[lane] = Tail(ch[lane])
        /\ \A other \in {"normal", "priority"} \ {lane} : ch'[other] = ch[other]
    <3>1. CASE lane = "normal"
      BY <2>1, <2>2, <3>1 DEF ChannelType
    <3>2. CASE lane = "priority"
      BY <2>1, <2>2, <3>2 DEF ChannelType
    <3> QED
      BY <3>1, <3>2
  <2>6. \A id \in Id : (status'[id] = "unused") <=> (status[id] = "unused")
    BY <2>1, <2>2, <2>4
  <2>7. NumberedInv'
    BY <2>5, <2>6 DEF SlotInv, NumberedInv
  <2>8. ASSUME NEW other \in {"normal", "priority"} PROVE LaneInv(other)'
    <3>1. ch[other] \in Seq(Id) /\ LaneInv(other)
      BY <2>2, <2>8 DEF ChannelType, SlotInv
    <3>2. CASE other = lane
      <4>1. ch'[other] = Tail(ch[other]) /\ ch[other] # <<>>
        BY <2>1, <2>5, <3>2
      <4>2. /\ Len(ch'[other]) = Len(ch[other]) - 1
            /\ \A k \in 1..Len(ch'[other]) : ch'[other][k] = ch[other][k + 1]
        BY <3>1, <4>1
      <4>3. ASSUME NEW k \in 1..Len(ch'[other]) PROVE status'[ch'[other][k]] # "unused"
        <5>1. k + 1 \in 1..Len(ch[other])
          BY <3>1, <4>2
        <5>2. ch[other][k + 1] \in Id /\ status[ch[other][k + 1]] # "unused"
          BY <3>1, <5>1 DEF LaneInv
        <5> QED
          BY <2>6, <4>2, <5>2
      <4> QED
        BY <4>3 DEF LaneInv
    <3>3. CASE other # lane
      <4>1. ch'[other] = ch[other] /\ \A k \in 1..Len(ch[other]) : ch[other][k] \in Id
        BY <2>5, <3>1, <3>3
      <4> QED
        BY <2>6, <3>1, <4>1 DEF LaneInv
    <3> QED
      BY <3>2, <3>3
  <2>9. DeliveryInv'
    <3>1. \A id \in Id : status'[id] = "queued" => status[id] = "queued"
      BY <2>1, <2>2, <2>4
    <3>2. cmdFile = NoId \/ status[cmdFile] \notin {"queued", "unused"}
      BY <2>2 DEF SlotInv, DeliveryInv, Idle
    <3>3. delivery'.pc # "idle" => delivery'.id = Head(ch[lane])
      BY <2>1, <2>2 DEF Idle
    <3> QED
      BY <2>2, <2>4, <2>6, <3>1, <3>2, <3>3 DEF DeliveryInv
  <2> QED
    BY <2>7, <2>8, <2>9 DEF SlotInv
<1>3. ASSUME WriteCommand PROVE SlotInv'
  BY <1>3 DEF WriteCommand, SlotInv, NumberedInv, LaneInv, DeliveryInv,
     TypeInv, TypeOK, DeliveryType, Shape
<1>4. ASSUME TakeAck PROVE SlotInv'
  BY <1>4 DEF TakeAck, SlotInv, NumberedInv, LaneInv, DeliveryInv,
     TypeInv, TypeOK, DeliveryType, Shape
<1>5. ASSUME RejectDelivery \/ Accepted PROVE SlotInv'
  <2>1. /\ delivery.id \in Id /\ status[delivery.id] # "unused"
        /\ delivery' = Idle /\ UNCHANGED cmdFile
        /\ status \in [Id -> Status] /\ cmdFile \in Id \union {NoId}
    BY <1>5 DEF RejectDelivery, Accepted, SlotInv, DeliveryInv, TypeInv, TypeOK, Shape
  <2>2. PICK s \in {"failed", "accepted", "acked"} :
          LET st == [status EXCEPT ![delivery.id] = s] IN
          \/ UNCHANGED ch /\ status' = st
          \/ s = "accepted" /\ PrepareHostEpoch(TRUE, TRUE, st)
    BY <1>5 DEF RejectDelivery, Accepted
  <2> DEFINE st == [status EXCEPT ![delivery.id] = s]
  <2>3. /\ st \in [Id -> Status] /\ st[delivery.id] = s
        /\ \A id \in Id : st[id] # status[id] =>
             status[id] # "unused" /\ st[id] \notin {"unused", "queued"}
    BY <2>1 DEF Status, Settled
  <2>4. /\ NumberedInv' /\ LaneInv("normal")' /\ LaneInv("priority")'
        /\ \A id \in Id : status'[id] # status[id] =>
             status[id] # "unused" /\ status'[id] \notin {"unused", "queued"}
        /\ status'[delivery.id] # "queued"
    <3>1. CASE UNCHANGED ch /\ status' = st
      <4>1. NumberedInv'
        BY <2>3, <3>1 DEF SlotInv, NumberedInv
      <4>2. ASSUME NEW lane \in {"normal", "priority"} PROVE LaneInv(lane)'
        <5>1. \A k \in 1..Len(ch[lane]) : ch[lane][k] \in Id
          BY <4>2 DEF TypeInv, TypeOK, ChannelType
        <5> QED
          BY <2>3, <3>1, <4>2, <5>1 DEF SlotInv, LaneInv
      <4> QED
        BY <2>1, <2>3, <3>1, <4>1, <4>2
    <3>2. CASE s = "accepted" /\ PrepareHostEpoch(TRUE, TRUE, st)
      <4> HIDE DEF st
      <4>1. /\ NumberedInv' /\ LaneInv("normal")' /\ LaneInv("priority")'
            /\ \A id \in Id : status'[id] # status[id] =>
                 status[id] # "unused" /\ status'[id] \notin {"unused", "queued"}
        BY <2>3, <3>2, PrepareSlot
      <4>2. status'[delivery.id] \in {"failed", "accepted"}
        BY <2>1, <2>3, <3>2 DEF PrepareHostEpoch
      <4> QED
        BY <4>1, <4>2
    <3> QED
      BY <2>2, <3>1, <3>2
  <2>5. DeliveryInv'
    <3>1. cmdFile # NoId => status[cmdFile] # "queued" \/ delivery.id = cmdFile
      BY DEF SlotInv, DeliveryInv
    <3>2. cmdFile # NoId => status'[cmdFile] \notin {"unused", "queued"}
      BY <2>1, <2>4, <3>1 DEF SlotInv, DeliveryInv
    <3> QED
      BY <2>1, <3>2 DEF DeliveryInv, Idle
  <2> QED
    BY <2>4, <2>5 DEF SlotInv
<1>6. ASSUME \/ \E id \in Id : TakeResult(id) \/ RejectResult(id)
             \/ \E e \in Epoch : SweepRead(e) \/ SweepUnlink(e)
             \/ \E p \in Epoch : Host(p)
             \/ WriteHostEpoch \/ BootFails \/ UNCHANGED vars
      PROVE  SlotInv'
  <2>1. Settles /\ UNCHANGED <<ch, delivery>>
    <3>1. ASSUME NEW id \in Id, TakeResult(id) \/ RejectResult(id)
          PROVE  Settles /\ UNCHANGED <<ch, delivery>>
      <4>1. /\ status[id] = "acked" /\ UNCHANGED <<ch, delivery, cmdFile>>
            /\ \E s \in {"failed", "reply", "stale", "foreign"} :
                 status' = [status EXCEPT ![id] = s]
        BY <3>1 DEF TakeResult, RejectResult, TypeInv, TypeOK, ResultKind
      <4> QED
        BY <4>1 DEF Settles, TypeInv, TypeOK
    <3>2. ASSUME NEW e \in Epoch, SweepRead(e) \/ SweepUnlink(e)
          PROVE  Settles /\ UNCHANGED <<ch, delivery>>
      BY <3>2 DEF SweepRead, SweepUnlink, Settles
    <3>3. ASSUME NEW p \in Epoch, Host(p)
          PROVE  Settles /\ UNCHANGED <<ch, delivery>>
      BY <3>3 DEF Host, HostStart, HostExit, PruneStaleResults, RefuseStale,
         AckAgain, Begin, Finish, Compare, Unlink, SpawnConfirmed, Settles
    <3>4. ASSUME WriteHostEpoch \/ BootFails \/ UNCHANGED vars
          PROVE  Settles /\ UNCHANGED <<ch, delivery>>
      BY <3>4 DEF WriteHostEpoch, BootFails, vars, Settles
    <3> QED
      BY <1>6, <3>1, <3>2, <3>3, <3>4
  <2> QED
    BY <2>1, SettlesSlot
<1>7. ASSUME Boot \/ BootRetry \/ RespawnAfterFailure PROVE SlotInv'
  <2>1. PrepareHostEpoch(FALSE, FALSE, status) /\ UNCHANGED <<delivery, cmdFile>>
    BY <1>7 DEF Boot, BootRetry, RespawnAfterFailure, TakeHostEpoch
  <2> QED
    BY <2>1, FencedSlot
<1>8. ASSUME StopHost("respawn") \/ StopHost("dispose") PROVE SlotInv'
  <2>1. UNCHANGED <<delivery, cmdFile>> /\ ch.nonce \in Epoch
    BY <1>8 DEF StopHost, TypeInv, Shape
  <2>2. CASE PrepareHostEpoch(TRUE, TRUE, status)
    BY <2>1, <2>2, FencedSlot
  <2>3. CASE Enqueue("shutdown", Default, "priority")
    <3>1. "shutdown" \in AllCommands
      BY DEF AllCommands
    <3> QED
      BY <2>1, <2>3, <3>1, EnqueueSlot, InstancesAssumption
  <2> QED
    BY <1>8, <2>2, <2>3 DEF StopHost
<1>9. ASSUME ShutdownSettled \/ KillHost PROVE SlotInv'
  <2>1. UNCHANGED <<delivery, cmdFile>>
    BY <1>9 DEF ShutdownSettled, KillHost
  <2>2. CASE UNCHANGED <<ch, status>>
    <3>1. Settles
      BY <2>1, <2>2 DEF Settles
    <3> QED
      BY <2>1, <2>2, <3>1, SettlesSlot
  <2>3. CASE \E flag \in BOOLEAN : PrepareHostEpoch(flag, flag, status)
    BY <2>1, <2>3, FencedSlot
  <2> QED
    BY <1>9, <2>2, <2>3 DEF ShutdownSettled, KillHost, TakeHostEpoch
<1>10. ASSUME SpawnHost PROVE SlotInv'
  <2>1. /\ ch'.nonce = ch.nonce /\ ch'.seq = ch.seq
        /\ ch'.normal = ch.normal /\ ch'.priority = ch.priority
        /\ UNCHANGED <<status, delivery, cmdFile>>
    BY <1>10 DEF SpawnHost, TypeInv, TypeOK, ChannelType
  <2> QED
    BY <2>1 DEF SlotInv, NumberedInv, LaneInv, DeliveryInv
<1> QED
  BY <1>1, <1>2, <1>3, <1>4, <1>5, <1>6, <1>7, <1>8, <1>9, <1>10
  DEF Next, Page, Deliver, Driver, Boots

\* A request in /cmd.json is overwritten only once its caller has been told:
\* the page never takes back a command behind a caller that still waits.
THEOREM SlotIsNotLost == Spec => NoSilentOverwrite
<1>1. Init => TypeInv /\ SlotInv
  BY TypeInit, SlotInit
<1>2. (TypeInv /\ SlotInv) /\ [Next]_vars => (TypeInv /\ SlotInv)'
  BY TypeNext, SlotNext
<1>3. TypeInv /\ SlotInv /\ [Next]_vars =>
        [cmdFile # NoId /\ cmdFile' \notin {NoId, cmdFile}
           => status[cmdFile] \notin {"unused", "queued"}]_vars
  <2> SUFFICES ASSUME TypeInv, SlotInv, Next, cmdFile # NoId, cmdFile' \notin {NoId, cmdFile}
               PROVE  status[cmdFile] \notin {"unused", "queued"}
    BY DEF vars, fileVars
  <2>1. CASE Page
    <3>1. ~\E c \in Commands, i \in Instances : Exec(c, i) \/ Direct(c, i)
      BY DEF Exec, Direct, fileVars
    <3>2. ~(PumpDeliveries \/ TakeAck \/ RejectDelivery \/ Accepted)
      BY DEF PumpDeliveries, TakeAck, RejectDelivery, Accepted, fileVars
    <3>3. ~\E id \in Id : TakeResult(id) \/ RejectResult(id)
      BY DEF TakeResult, RejectResult, fileVars
    <3>4. ~\E e \in Epoch : SweepRead(e) \/ SweepUnlink(e)
      BY DEF SweepRead, SweepUnlink, fileVars
    <3>5. WriteCommand
      BY <2>1, <3>1, <3>2, <3>3, <3>4 DEF Page, Deliver
    <3> QED
      BY <3>5 DEF WriteCommand, SlotInv, DeliveryInv
  <2>2. ~Driver
    <3>1. ~(Boot \/ BootRetry \/ BootFails)
      BY DEF Boot, BootRetry, BootFails, fileVars
    <3>2. ~(StopHost("respawn") \/ StopHost("dispose"))
      BY DEF StopHost
    <3>3. ~Boots
      BY DEF Boots, KillHost, WriteHostEpoch, SpawnHost, RespawnAfterFailure,
         ShutdownSettled, fileVars
    <3> QED
      BY <3>1, <3>2, <3>3 DEF Driver
  <2>3. ASSUME NEW p \in Epoch PROVE ~Host(p)
    <3>1. ~(HostStart(p) \/ HostExit(p) \/ PruneStaleResults(p))
      BY DEF HostStart, HostExit, PruneStaleResults, fileVars
    <3>2. ~\E l \in Loops : RefuseStale(p, l) \/ AckAgain(p, l) \/ Begin(p, l)
      BY DEF RefuseStale, AckAgain, Begin
    <3>3. ~\E l \in Loops : Finish(p, l) \/ Compare(p, l) \/ Unlink(p, l)
      BY DEF Finish, Compare, Unlink, fileVars
    <3>4. ~\E id \in Id : SpawnConfirmed(p, id)
      BY DEF SpawnConfirmed
    <3> QED
      BY <3>1, <3>2, <3>3, <3>4 DEF Host
  <2> QED
    BY <2>1, <2>2, <2>3 DEF Next
<1> QED
  BY <1>1, <1>2, <1>3, PTL DEF Spec, NoSilentOverwrite

-------------------------------------------------------------------------------
(* The epoch of the driver.  It is the page's unless a fence has prepared  *)
(* the next one; the process it has up was spawned for it.                 *)

EpochInv ==
    driver.pc \in {"write", "spawn", "up", "exit", "stop"} =>
        /\ ~ch.prepared => driver.epoch = ch.nonce
        /\ driver.epoch <= ch.nonce

ProcInv ==
    /\ driver.pc \in {"up", "exit", "stop"} => driver.proc = driver.epoch
    /\ driver.pc \in {"off", "write", "spawn", "failed"} => driver.proc = 0

SharedInv == EpochInv /\ ProcInv

LEMMA SharedInit == Init => SharedInv
BY DEF Init, SharedInv, EpochInv, ProcInv

\* A fence keeps the epoch or moves it on, and leaves the next one prepared.
LEMMA FenceMovesOn ==
    ASSUME TypeInv, CanRotate, NEW st \in [Id -> Status], PrepareHostEpoch(TRUE, TRUE, st)
    PROVE  ch'.prepared /\ ch'.paused /\ ch.nonce <= ch'.nonce /\ ch'.nonce \in Nat
<1>1. ch'.prepared
  BY PrepareType
<1>2. ch \in ChannelType /\ ch.nonce \in Nat
  BY BoundsAssumption DEF TypeInv, TypeOK, ChannelType
<1>3. CASE ch.prepared
  <2> DEFINE paused == ch.paused \/ TRUE
  <2>1. ch' = [ch EXCEPT !.paused = paused, !.prepared = TRUE]
    BY <1>3 DEF PrepareHostEpoch
  <2>2. paused = TRUE
    OBVIOUS
  <2> HIDE DEF paused
  <2> QED
    BY <1>1, <1>2, <2>1, <2>2 DEF ChannelType
<1>4. CASE ~ch.prepared
  BY <1>1, <1>2, <1>4 DEF PrepareHostEpoch
<1> QED
  BY <1>3, <1>4

\* The steps of the page's lanes leave the epoch alone.
LEMMA LanesKeepEpoch ==
    ASSUME TypeInv,
           \/ PumpDeliveries
           \/ \E c \in Commands, i \in Instances : Exec(c, i) \/ Direct(c, i)
    PROVE  UNCHANGED <<ch.nonce, ch.prepared, ch.paused, driver>>
<1>1. ch \in ChannelType
  BY DEF TypeInv, TypeOK
<1>2. CASE PumpDeliveries
  <2>1. PICK lane \in {"priority", "normal"} : ch' = [ch EXCEPT ![lane] = Tail(ch[lane])]
    BY <1>2, Zenon DEF PumpDeliveries
  <2>2. CASE lane = "priority"
    BY <1>1, <1>2, <2>1, <2>2 DEF ChannelType, PumpDeliveries
  <2>3. CASE lane = "normal"
    BY <1>1, <1>2, <2>1, <2>3 DEF ChannelType, PumpDeliveries
  <2> QED
    BY <2>2, <2>3
<1>3. ASSUME NEW c \in Commands, NEW i \in Instances, Exec(c, i) \/ Direct(c, i)
      PROVE  UNCHANGED <<ch.nonce, ch.prepared, ch.paused, driver>>
  <2>1. PICK lane \in {"normal", "priority"} : Enqueue(c, i, lane) /\ UNCHANGED driver
    BY <1>3 DEF Exec, Direct
  <2> QED
    BY <1>1, <2>1 DEF Enqueue, ChannelType
<1> QED
  BY <1>2, <1>3

\* The steps that leave both the channel and the driver alone.
Elsewhere ==
    \/ WriteCommand \/ TakeAck \/ RejectDelivery
    \/ \E id \in Id : TakeResult(id) \/ RejectResult(id)
    \/ \E e \in Epoch : SweepRead(e) \/ SweepUnlink(e)
    \/ \E p \in Epoch : Host(p)
    \/ UNCHANGED vars

LEMMA ElsewhereKeeps == Elsewhere => UNCHANGED <<ch, driver, cmd>>
<1> USE DEF pageVars, fileVars, hostVars, historyVars
<1>1. WriteCommand \/ TakeAck \/ RejectDelivery => UNCHANGED <<ch, driver, cmd>>
  BY DEF WriteCommand, TakeAck, RejectDelivery
<1>2. \A id \in Id : TakeResult(id) \/ RejectResult(id) => UNCHANGED <<ch, driver, cmd>>
  BY DEF TakeResult, RejectResult
<1>3. \A e \in Epoch : SweepRead(e) \/ SweepUnlink(e) => UNCHANGED <<ch, driver, cmd>>
  BY DEF SweepRead, SweepUnlink
<1>4. \A p \in Epoch : Host(p) => UNCHANGED <<ch, driver, cmd>>
  BY DEF Host, HostStart, HostExit, PruneStaleResults, RefuseStale, AckAgain, Begin,
     Finish, Compare, Unlink, SpawnConfirmed
<1>5. UNCHANGED vars => UNCHANGED <<ch, driver, cmd>>
  BY DEF vars
<1> QED
  BY <1>1, <1>2, <1>3, <1>4, <1>5 DEF Elsewhere

\* The driver begins a boot under the epoch it takes.
Takes ==
    \/ Boot \/ BootRetry \/ RespawnAfterFailure
    \/ KillHost /\ driver.mode # "dispose"

LEMMA TakesEpoch ==
    ASSUME TypeInv, Takes
    PROVE  /\ PrepareHostEpoch(FALSE, FALSE, status)
           /\ driver'.pc = "write" /\ driver'.epoch = ch'.nonce /\ driver'.proc = 0
           /\ ~ch'.prepared /\ ch'.nonce \in Epoch /\ ch.nonce <= ch'.nonce
           /\ UNCHANGED <<delivery, cmdFile, cmd>>
<1>1. PICK mode \in {"boot", "retry", "respawn"} :
        TakeHostEpoch(mode) /\ CanRotate /\ UNCHANGED <<delivery, cmdFile, cmd>>
  BY DEF Takes, Boot, BootRetry, RespawnAfterFailure, KillHost, TypeInv, Shape
<1>2. /\ ~ch'.prepared /\ ch'.nonce \in Epoch
      /\ driver' = [pc |-> "write", mode |-> mode, epoch |-> ch'.nonce,
                    proc |-> 0, exitId |-> NoId]
  BY <1>1, TakeType DEF PreparedType, Taken
<1>3. PrepareHostEpoch(FALSE, FALSE, status)
  BY <1>1 DEF TakeHostEpoch
<1>4. ch.nonce <= ch'.nonce
  <2>1. ch \in ChannelType /\ ch.nonce \in Nat
    BY BoundsAssumption DEF TypeInv, TypeOK, ChannelType
  <2>2. CASE ch.prepared
    <3> DEFINE paused == ch.paused \/ FALSE
    <3>1. ch' = [ch EXCEPT !.paused = paused, !.prepared = FALSE]
      BY <1>3, <2>2 DEF PrepareHostEpoch
    <3> HIDE DEF paused
    <3> QED
      BY <2>1, <3>1 DEF ChannelType
  <2>3. CASE ~ch.prepared
    BY <1>3, <2>1, <2>3 DEF PrepareHostEpoch
  <2> QED
    BY <2>2, <2>3
<1> QED
  BY <1>1, <1>2, <1>3, <1>4

\* A step of the stop, by what it does to the channel.
LEMMA StopFences ==
    ASSUME TypeInv, StopHost("respawn") \/ StopHost("dispose") \/ ShutdownSettled
    PROVE  /\ driver.pc \in {"up", "exit"}
           /\ driver'.epoch = driver.epoch /\ driver'.proc = driver.proc
           /\ \/ /\ PrepareHostEpoch(TRUE, TRUE, status) /\ CanRotate
                 /\ driver'.pc = "stop" /\ UNCHANGED cmd
              \/ /\ driver.pc = "up"
                 /\ Enqueue("shutdown", Default, "priority")
                 /\ driver'.pc = "exit" /\ driver'.exitId = NextId /\ UNCHANGED results
              \/ UNCHANGED <<ch, status, cmd, results>> /\ driver'.pc = "stop"
           /\ UNCHANGED <<delivery, cmdFile, proc, procEpoch, loop>>
<1>1. driver \in DriverType
  BY DEF TypeInv, TypeOK
<1>2. CASE StopHost("respawn")
  BY <1>1, <1>2 DEF StopHost, DriverType, hostVars
<1>3. CASE StopHost("dispose")
  BY <1>1, <1>3 DEF StopHost, DriverType, hostVars
<1>4. CASE ShutdownSettled
  BY <1>1, <1>4 DEF ShutdownSettled, DriverType, hostVars, TypeInv, Shape
<1> QED
  BY <1>2, <1>3, <1>4

\* Every step is one of these.
LEMMA Steps ==
    ASSUME [Next]_vars
    PROVE  \/ Elsewhere \/ PumpDeliveries \/ Accepted
           \/ \E c \in Commands, i \in Instances : Exec(c, i) \/ Direct(c, i)
           \/ StopHost("respawn") \/ StopHost("dispose") \/ ShutdownSettled
           \/ Takes \/ (KillHost /\ driver.mode = "dispose")
           \/ WriteHostEpoch \/ SpawnHost \/ BootFails
BY DEF Next, Page, Deliver, Driver, Boots, Elsewhere, Takes

LEMMA SharedNext == TypeInv /\ SharedInv /\ [Next]_vars => SharedInv'
<1> SUFFICES ASSUME TypeInv, SharedInv, [Next]_vars PROVE SharedInv'
  OBVIOUS
<1> USE DEF SharedInv, EpochInv, ProcInv
<1>0. /\ ch \in ChannelType /\ driver \in DriverType /\ ch.nonce \in Nat
      /\ driver.epoch \in Nat
  BY BoundsAssumption DEF TypeInv, TypeOK, ChannelType, DriverType
<1>1. CASE Elsewhere
  BY <1>1, ElsewhereKeeps
<1>2. CASE PumpDeliveries \/ \E c \in Commands, i \in Instances : Exec(c, i) \/ Direct(c, i)
  BY <1>2, LanesKeepEpoch
<1>3. CASE Accepted
  <2>1. UNCHANGED driver
    BY <1>3 DEF Accepted
  <2>2. CASE cmd[delivery.id] = "shutdown"
    <3>1. [status EXCEPT ![delivery.id] = "accepted"] \in [Id -> Status]
      BY DEF TypeInv, TypeOK, Status, Settled
    <3>2. ch'.prepared /\ ch.nonce <= ch'.nonce /\ ch'.nonce \in Nat
      BY <1>3, <2>2, <3>1, FenceMovesOn DEF Accepted
    <3> QED
      BY <1>0, <2>1, <3>2
  <2>3. CASE cmd[delivery.id] # "shutdown"
    BY <1>3, <2>1, <2>3 DEF Accepted
  <2> QED
    BY <2>2, <2>3
<1>4. CASE StopHost("respawn") \/ StopHost("dispose") \/ ShutdownSettled
  <2>1. /\ driver.pc \in {"up", "exit"} /\ driver'.pc \in {"stop", "exit"}
        /\ driver'.epoch = driver.epoch /\ driver'.proc = driver.proc
    BY <1>4, StopFences
  <2>2. \/ ch'.prepared /\ ch.nonce <= ch'.nonce /\ ch'.nonce \in Nat
        \/ ch'.prepared = ch.prepared /\ ch'.nonce = ch.nonce
    <3>1. CASE PrepareHostEpoch(TRUE, TRUE, status) /\ CanRotate
      BY <3>1, FenceMovesOn DEF TypeInv, TypeOK
    <3>2. CASE Enqueue("shutdown", Default, "priority")
      BY <1>0, <3>2 DEF Enqueue, ChannelType
    <3> QED
      BY <1>4, <3>1, <3>2, StopFences
  <2> QED
    BY <1>0, <2>1, <2>2
<1>5. CASE Takes
  BY <1>5, TakesEpoch DEF Epoch
<1>6. CASE KillHost /\ driver.mode = "dispose"
  BY <1>0, <1>6 DEF KillHost, DriverType
<1>7. CASE WriteHostEpoch
  BY <1>0, <1>7 DEF WriteHostEpoch, DriverType, pageVars
<1>8. CASE SpawnHost
  BY <1>0, <1>8 DEF SpawnHost, DriverType, ChannelType
<1>9. CASE BootFails
  BY <1>0, <1>9 DEF BootFails, DriverType
<1> QED
  BY <1>1, <1>2, <1>3, <1>4, <1>5, <1>6, <1>7, <1>8, <1>9, Steps

LEMMA SharedInvariant == Spec => [](TypeInv /\ HostInv /\ SharedInv)
<1>1. Init => SharedInv
  BY SharedInit
<1>2. TypeInv /\ SharedInv /\ [Next]_vars => SharedInv'
  BY SharedNext
<1> QED
  BY <1>1, <1>2, HostInvariant, PTL DEF Spec

\* The host the driver has up answers under the epoch the page submits under,
\* whatever boots failed, were retried or replaced before.
THEOREM HostSharesThePagesEpoch == Spec => []UpHostSharesEpoch
<1>1. TypeInv /\ HostInv /\ SharedInv => UpHostSharesEpoch
  <2> SUFFICES ASSUME TypeInv, HostInv, SharedInv,
                      driver.pc = "up", ~ch.prepared, proc[driver.proc] = "up"
               PROVE  procEpoch[driver.proc] = ch.nonce
    BY DEF UpHostSharesEpoch
  <2>1. driver.proc = driver.epoch /\ driver.epoch = ch.nonce /\ driver.epoch \in Epoch
    BY DEF SharedInv, ProcInv, EpochInv, TypeInv, Shape
  <2> QED
    BY <2>1 DEF HostInv, UpInv
<1> QED
  BY <1>1, SharedInvariant, PTL

-------------------------------------------------------------------------------
(* The exit request.  There is one at a time, its caller is the driver in  *)
(* stopHost, and it is nowhere in the channel once the driver goes on: so  *)
(* no acknowledgement of it comes while a host is being booted.            *)

\* The exit request that lies in the channel is the one stopHost waits for.
Awaited(id) == driver.pc = "exit" /\ driver.exitId = id /\ status[id] = "queued"

NoneInNormal   == \A k \in 1..Len(ch.normal) : cmd[ch.normal[k]] # "shutdown"
NoneInPriority == \A k \in 1..Len(ch.priority) : cmd[ch.priority[k]] # "shutdown"
NoneDelivered  == delivery.pc # "idle" => cmd[delivery.id] # "shutdown"

NoExit == NoneInNormal /\ NoneInPriority /\ NoneDelivered

ExitInv ==
    /\ NoneInNormal
    /\ \A k \in 1..Len(ch.priority) :
         cmd[ch.priority[k]] = "shutdown" => Awaited(ch.priority[k])
    /\ \A j, k \in 1..Len(ch.priority) :
         cmd[ch.priority[j]] = "shutdown" /\ cmd[ch.priority[k]] = "shutdown" => j = k
    /\ delivery.pc # "idle" /\ cmd[delivery.id] = "shutdown" =>
         Awaited(delivery.id) /\ NoneInPriority

LEMMA ExitInit == Init => ExitInv
BY DEF Init, ExitInv, NoneInNormal, Idle

LEMMA NoExitIsExitInv == NoExit => ExitInv
BY DEF NoExit, NoneInNormal, NoneInPriority, NoneDelivered, ExitInv

\* While the driver is elsewhere, or has its answer, no exit request is left.
LEMMA ExitIsGone ==
    ASSUME ExitInv, driver.pc # "exit" \/ status[driver.exitId] # "queued"
    PROVE  NoExit
BY DEF ExitInv, NoExit, NoneInNormal, NoneInPriority, NoneDelivered, Awaited

\* The lanes stay as they are, or a fence empties them.
LanesShrink ==
    /\ ch'.normal = ch.normal \/ ch'.normal = <<>>
    /\ ch'.priority = ch.priority \/ ch'.priority = <<>>

LEMMA FenceEmpties ==
    ASSUME ch \in ChannelType, NEW pause, NEW keep, NEW st, PrepareHostEpoch(pause, keep, st)
    PROVE  LanesShrink
<1>1. CASE ch.prepared
  <2> DEFINE paused == ch.paused \/ pause
  <2>1. ch' = [ch EXCEPT !.paused = paused, !.prepared = keep]
    BY <1>1 DEF PrepareHostEpoch
  <2> HIDE DEF paused
  <2> QED
    BY <2>1 DEF ChannelType, LanesShrink
<1>2. CASE ~ch.prepared
  BY <1>2 DEF PrepareHostEpoch, LanesShrink
<1> QED
  BY <1>1, <1>2

\* Once gone, an exit request comes back only by being submitted.
LEMMA StaysGone ==
    ASSUME NoExit, LanesShrink, UNCHANGED cmd, UNCHANGED delivery \/ delivery' = Idle
    PROVE  NoExit'
BY DEF NoExit, NoneInNormal, NoneInPriority, NoneDelivered, LanesShrink, Idle

\* A step that leaves the lanes and the queued callers alone.
LEMMA ExitUntouched ==
    ASSUME ExitInv, UNCHANGED <<ch, cmd, driver>>,
           delivery'.id = delivery.id /\ (delivery'.pc # "idle" => delivery.pc # "idle"),
           driver.pc = "exit" /\ status[driver.exitId] = "queued"
             => status'[driver.exitId] = "queued"
    PROVE  ExitInv'
BY DEF ExitInv, NoneInNormal, NoneInPriority, Awaited

\* The ids of the channel are used ones.
Used(id) == id \in Id /\ status[id] # "unused"

InChannel ==
    /\ ch.normal \in Seq(Id) /\ ch.priority \in Seq(Id)
    /\ \A k \in 1..Len(ch.normal) : Used(ch.normal[k])
    /\ \A k \in 1..Len(ch.priority) : Used(ch.priority[k])
    /\ delivery.pc # "idle" => Used(delivery.id)

LEMMA ChannelIds == TypeInv /\ SlotInv => InChannel
BY DEF TypeInv, TypeOK, Shape, ChannelType, SlotInv, LaneInv, DeliveryInv, InChannel, Used

\* A request that is submitted has a fresh id, and joins the end of its lane.
LEMMA Submitted ==
    ASSUME TypeInv, SlotInv, ch.nonce \in Epoch,
           NEW c \in AllCommands, NEW i \in Instances,
           NEW lane \in {"normal", "priority"}, Enqueue(c, i, lane)
    PROVE  /\ NextId \in Id /\ status[NextId] = "unused"
           /\ cmd'[NextId] = c /\ status'[NextId] = "queued"
           /\ \A id \in Id : status[id] # "unused" =>
                cmd'[id] = cmd[id] /\ status'[id] = status[id]
           /\ \A k \in 1..Len(ch'.normal) :
                \/ k \in 1..Len(ch.normal) /\ ch'.normal[k] = ch.normal[k]
                \/ lane = "normal" /\ k = Len(ch.normal) + 1 /\ ch'.normal[k] = NextId
           /\ \A k \in 1..Len(ch'.priority) :
                \/ k \in 1..Len(ch.priority) /\ ch'.priority[k] = ch.priority[k]
                \/ lane = "priority" /\ k = Len(ch.priority) + 1 /\ ch'.priority[k] = NextId
<1>1. NextId \in Id /\ EpochOf(NextId) = ch.nonce /\ NextId[2] = ch.seq + 1
  BY EnqueueType DEF EnqueuedType, NextId, EpochOf
<1>2. /\ ch.seq \in Nat /\ ch.nonce \in Nat
      /\ ch.normal \in Seq(Id) /\ ch.priority \in Seq(Id)
      /\ status \in [Id -> Status] /\ cmd \in [Id -> AllCommands \union {"none"}]
  BY BoundsAssumption DEF TypeInv, TypeOK, ChannelType
<1>3. status[NextId] = "unused"
  BY <1>1, <1>2 DEF SlotInv, NumberedInv
<1>4. /\ cmd' = [cmd EXCEPT ![NextId] = c]
      /\ status' = [status EXCEPT ![NextId] = "queued"]
      /\ ch'.normal = IF lane = "normal" THEN Append(ch.normal, NextId) ELSE ch.normal
      /\ ch'.priority = IF lane = "priority" THEN Append(ch.priority, NextId)
                        ELSE ch.priority
  BY DEF Enqueue, TypeInv, TypeOK, ChannelType
<1>5. /\ cmd'[NextId] = c /\ status'[NextId] = "queued"
      /\ \A id \in Id : status[id] # "unused" => cmd'[id] = cmd[id] /\ status'[id] = status[id]
  BY <1>1, <1>2, <1>3, <1>4
<1>6. ASSUME NEW q \in Seq(Id)
      PROVE  \A k \in 1..Len(Append(q, NextId)) :
               \/ k \in 1..Len(q) /\ Append(q, NextId)[k] = q[k]
               \/ k = Len(q) + 1 /\ Append(q, NextId)[k] = NextId
  BY <1>1
<1>7. \A k \in 1..Len(ch'.normal) :
        \/ k \in 1..Len(ch.normal) /\ ch'.normal[k] = ch.normal[k]
        \/ lane = "normal" /\ k = Len(ch.normal) + 1 /\ ch'.normal[k] = NextId
  <2>1. CASE lane = "normal"
    BY <1>2, <1>4, <1>6, <2>1
  <2>2. CASE lane # "normal"
    BY <1>4, <2>2
  <2> QED
    BY <2>1, <2>2
<1>8. \A k \in 1..Len(ch'.priority) :
        \/ k \in 1..Len(ch.priority) /\ ch'.priority[k] = ch.priority[k]
        \/ lane = "priority" /\ k = Len(ch.priority) + 1 /\ ch'.priority[k] = NextId
  <2>1. CASE lane = "priority"
    BY <1>2, <1>4, <1>6, <2>1
  <2>2. CASE lane # "priority"
    BY <1>4, <2>2
  <2> QED
    BY <2>1, <2>2
<1> QED
  BY <1>1, <1>3, <1>5, <1>7, <1>8

\* Any other request leaves the exit request where it is.
LEMMA SubmittedOther ==
    ASSUME TypeInv, SlotInv, ExitInv, ch.nonce \in Epoch,
           NEW c \in AllCommands, NEW i \in Instances,
           NEW lane \in {"normal", "priority"}, Enqueue(c, i, lane),
           c # "shutdown", UNCHANGED <<delivery, driver>>
    PROVE  ExitInv'
<1>1. /\ NextId \in Id /\ status[NextId] = "unused" /\ cmd'[NextId] # "shutdown"
      /\ \A id \in Id : status[id] # "unused" =>
           cmd'[id] = cmd[id] /\ status'[id] = status[id]
  BY Submitted
<1>2. InChannel
  BY ChannelIds
<1>3. \A k \in 1..Len(ch'.normal) : cmd'[ch'.normal[k]] = "shutdown" =>
        k \in 1..Len(ch.normal) /\ cmd[ch.normal[k]] = "shutdown"
  BY <1>1, <1>2, Submitted DEF InChannel, Used
<1>4. \A k \in 1..Len(ch'.priority) : cmd'[ch'.priority[k]] = "shutdown" =>
        /\ k \in 1..Len(ch.priority) /\ ch'.priority[k] = ch.priority[k]
        /\ cmd[ch.priority[k]] = "shutdown"
        /\ status'[ch.priority[k]] = status[ch.priority[k]]
  BY <1>1, <1>2, Submitted DEF InChannel, Used
<1>5. delivery.pc # "idle" => /\ cmd'[delivery.id] = cmd[delivery.id]
                              /\ status'[delivery.id] = status[delivery.id]
  BY <1>1, <1>2 DEF InChannel, Used
<1> QED
  BY <1>3, <1>4, <1>5 DEF ExitInv, NoneInNormal, NoneInPriority, Awaited

\* stopHost submits its request when no other is left.
LEMMA SubmittedExit ==
    ASSUME TypeInv, SlotInv, ExitInv, ch.nonce \in Epoch,
           Enqueue("shutdown", Default, "priority"), UNCHANGED delivery,
           driver.pc # "exit", driver'.pc = "exit", driver'.exitId = NextId
    PROVE  ExitInv'
<1>0. "shutdown" \in AllCommands /\ Default \in Instances
  BY InstancesAssumption DEF AllCommands
<1>1. /\ NextId \in Id /\ status[NextId] = "unused" /\ status'[NextId] = "queued"
      /\ \A id \in Id : status[id] # "unused" =>
           cmd'[id] = cmd[id] /\ status'[id] = status[id]
  BY <1>0, Submitted
<1>2. InChannel
  BY ChannelIds
<1>3. NoExit
  BY ExitIsGone
<1>4. NoneInNormal'
  BY <1>0, <1>1, <1>2, <1>3, Submitted DEF InChannel, Used, NoExit, NoneInNormal
<1>5. \A k \in 1..Len(ch'.priority) : cmd'[ch'.priority[k]] = "shutdown" =>
        k = Len(ch.priority) + 1 /\ ch'.priority[k] = NextId
  BY <1>0, <1>1, <1>2, <1>3, Submitted DEF InChannel, Used, NoExit, NoneInPriority
<1>6. delivery.pc # "idle" => cmd'[delivery.id] # "shutdown"
  BY <1>1, <1>2, <1>3 DEF InChannel, Used, NoExit, NoneDelivered
<1> QED
  BY <1>1, <1>4, <1>5, <1>6 DEF ExitInv, Awaited

\* The pump hands the first request of a lane to the delivery, or rejects it.
LEMMA PumpedExit ==
    ASSUME TypeInv, SlotInv, ExitInv, PumpDeliveries
    PROVE  ExitInv'
<1>1. PICK lane \in {"priority", "normal"} :
        /\ ch[lane] # <<>>
        /\ lane = "normal" => ch.priority = <<>>
        /\ ch' = [ch EXCEPT ![lane] = Tail(ch[lane])]
        /\ \/ /\ delivery' = [pc |-> "write", id |-> Head(ch[lane])]
              /\ UNCHANGED status
           \/ /\ status' = [status EXCEPT ![Head(ch[lane])] = "failed"]
              /\ UNCHANGED delivery
  BY Zenon DEF PumpDeliveries
<1>2. /\ ch \in ChannelType /\ status \in [Id -> Status]
      /\ delivery = Idle /\ UNCHANGED <<cmd, driver>> /\ InChannel
  BY ChannelIds DEF PumpDeliveries, Delivering, TypeInv, TypeOK
<1>3. CASE lane = "normal"
  <2>1. /\ ch'.priority = <<>> /\ ch'.normal = Tail(ch.normal) /\ ch.normal # <<>>
        /\ ch.normal \in Seq(Id)
    BY <1>1, <1>2, <1>3 DEF ChannelType
  <2>2. /\ \A k \in 1..Len(ch'.normal) :
             k + 1 \in 1..Len(ch.normal) /\ ch'.normal[k] = ch.normal[k + 1]
        /\ Head(ch.normal) = ch.normal[1] /\ 1 \in 1..Len(ch.normal)
    BY <2>1
  <2>3. NoneInNormal' /\ cmd[Head(ch.normal)] # "shutdown"
    BY <1>2, <2>2 DEF ExitInv, NoneInNormal
  <2> QED
    BY <1>1, <1>2, <1>3, <2>1, <2>3 DEF ExitInv, Idle
<1>4. CASE lane = "priority"
  <2> DEFINE task == Head(ch.priority)
  <2>1. /\ ch'.normal = ch.normal /\ ch'.priority = Tail(ch.priority)
        /\ ch.priority # <<>> /\ ch.priority \in Seq(Id)
    BY <1>1, <1>2, <1>4 DEF ChannelType
  <2>2. /\ \A k \in 1..Len(ch'.priority) :
             /\ k \in Nat /\ k + 1 \in 1..Len(ch.priority)
             /\ ch'.priority[k] = ch.priority[k + 1]
        /\ task = ch.priority[1] /\ 1 \in 1..Len(ch.priority) /\ task \in Id
    BY <2>1
  <2>3. NoneInNormal'
    BY <1>2, <2>1 DEF ExitInv, NoneInNormal
  <2>4. \A j, k \in 1..Len(ch'.priority) :
          cmd[ch'.priority[j]] = "shutdown" /\ cmd[ch'.priority[k]] = "shutdown" => j = k
    <3>1. ASSUME NEW j \in 1..Len(ch'.priority), NEW k \in 1..Len(ch'.priority),
                 cmd[ch'.priority[j]] = "shutdown", cmd[ch'.priority[k]] = "shutdown"
          PROVE  j = k
      <4>1. /\ j + 1 \in 1..Len(ch.priority) /\ cmd[ch.priority[j + 1]] = "shutdown"
            /\ k + 1 \in 1..Len(ch.priority) /\ cmd[ch.priority[k + 1]] = "shutdown"
        BY <2>2, <3>1
      <4>2. j + 1 = k + 1
        BY <4>1 DEF ExitInv
      <4> QED
        BY <2>2, <4>2
    <3> QED
      BY <3>1
  <2>5. CASE cmd[task] = "shutdown"
    <3>1. \A k \in 1..Len(ch'.priority) : cmd[ch'.priority[k]] # "shutdown"
      <4>1. ASSUME NEW k \in 1..Len(ch'.priority), cmd[ch'.priority[k]] = "shutdown"
            PROVE  FALSE
        <5>1. k + 1 = 1 /\ k \in 1..Len(ch'.priority)
          BY <2>2, <2>5, <4>1 DEF ExitInv
        <5> QED
          BY <2>2, <5>1
      <4> QED
        BY <4>1
    <3>2. Awaited(task)
      BY <2>2, <2>5 DEF ExitInv
    <3>3. CASE delivery' = [pc |-> "write", id |-> task] /\ UNCHANGED status
      BY <1>2, <2>3, <3>1, <3>2, <3>3 DEF ExitInv, Awaited, NoneInPriority
    <3>4. CASE UNCHANGED delivery
      BY <1>2, <2>3, <3>1, <3>4 DEF ExitInv, Idle
    <3> QED
      BY <1>1, <1>4, <3>3, <3>4
  <2>6. CASE cmd[task] # "shutdown"
    <3>1. \A id \in Id : cmd[id] = "shutdown" => status'[id] = status[id]
      BY <1>1, <1>2, <1>4, <2>2, <2>6
    <3>2. \A k \in 1..Len(ch'.priority) :
            cmd[ch'.priority[k]] = "shutdown" => Awaited(ch'.priority[k])
      BY <2>2 DEF ExitInv
    <3>3. \A k \in 1..Len(ch'.priority) : ch'.priority[k] \in Id
      BY <2>1
    <3>4. delivery'.pc # "idle" => delivery'.id = task
      BY <1>1, <1>2, <1>4 DEF Idle
    <3> QED
      BY <1>2, <2>3, <2>4, <2>6, <3>1, <3>2, <3>3, <3>4 DEF ExitInv, Awaited
  <2> QED
    BY <2>5, <2>6
<1> QED
  BY <1>3, <1>4

\* A delivery ends.  If it was the exit request's, no other is left.
LEMMA DeliveredExit ==
    ASSUME TypeInv, SlotInv, ExitInv, RejectDelivery \/ Accepted
    PROVE  ExitInv'
<1>1. /\ delivery.pc # "idle" /\ delivery' = Idle /\ UNCHANGED <<cmd, driver>>
      /\ ch \in ChannelType /\ status \in [Id -> Status] /\ InChannel
  BY ChannelIds DEF RejectDelivery, Accepted, TypeInv, TypeOK
<1>2. CASE cmd[delivery.id] = "shutdown"
  <2>1. NoneInNormal /\ NoneInPriority
    BY <1>1, <1>2 DEF ExitInv
  <2>2. LanesShrink
    BY <1>1, <1>2, FenceEmpties DEF RejectDelivery, Accepted, LanesShrink
  <2>3. NoExit'
    BY <1>1, <2>1, <2>2
    DEF NoExit, NoneInNormal, NoneInPriority, NoneDelivered, LanesShrink, Idle
  <2> QED
    BY <2>3, NoExitIsExitInv DEF NoExit, NoneInNormal, NoneInPriority, NoneDelivered, ExitInv
<1>3. CASE cmd[delivery.id] # "shutdown"
  <2>1. /\ UNCHANGED ch
        /\ \E s \in {"failed", "acked"} : status' = [status EXCEPT ![delivery.id] = s]
    BY <1>1, <1>3 DEF RejectDelivery, Accepted
  <2>2. \A id \in Id : cmd[id] = "shutdown" => status'[id] = status[id]
    BY <1>1, <1>3, <2>1 DEF InChannel, Used
  <2> QED
    BY <1>1, <2>1, <2>2 DEF ExitInv, NoneInNormal, Awaited, InChannel, Used, Idle
<1> QED
  BY <1>2, <1>3

LEMMA ExitNext == TypeInv /\ SlotInv /\ ExitInv /\ [Next]_vars => ExitInv'
<1> SUFFICES ASSUME TypeInv, SlotInv, ExitInv, [Next]_vars PROVE ExitInv'
  OBVIOUS
<1>0. /\ ch \in ChannelType /\ delivery \in DeliveryType /\ status \in [Id -> Status]
      /\ driver \in DriverType
  BY DEF TypeInv, TypeOK
<1> USE DEF pageVars, fileVars, hostVars, historyVars
<1>1. CASE Elsewhere
  <2>1. UNCHANGED <<ch, cmd, driver>>
    BY <1>1, ElsewhereKeeps
  <2>2. CASE RejectDelivery
    BY <2>2, DeliveredExit
  <2>3. CASE ~RejectDelivery
    <3>1. delivery'.id = delivery.id /\ (delivery'.pc # "idle" => delivery.pc # "idle")
      BY <1>0, <1>1, <2>3 DEF Elsewhere, WriteCommand, TakeAck, TakeResult, RejectResult,
         SweepRead, SweepUnlink, Host, HostStart, HostExit, PruneStaleResults, RefuseStale,
         AckAgain, Begin, Finish, Compare, Unlink, SpawnConfirmed, vars, DeliveryType
    <3>2. \/ UNCHANGED status
          \/ \E id \in Id : /\ status[id] = "acked"
                            /\ \E s \in Status : status' = [status EXCEPT ![id] = s]
      <4>1. ASSUME NEW id \in Id, TakeResult(id) \/ RejectResult(id)
            PROVE  status[id] = "acked" /\ \E s \in Status : status' = [status EXCEPT ![id] = s]
        BY <4>1 DEF TakeResult, RejectResult, TypeInv, TypeOK, ResultKind, Status, Settled
      <4>2. CASE ~\E id \in Id : TakeResult(id) \/ RejectResult(id)
        BY <1>1, <2>3, <4>2 DEF Elsewhere, WriteCommand, TakeAck,
           SweepRead, SweepUnlink, Host, HostStart, HostExit, PruneStaleResults, RefuseStale,
           AckAgain, Begin, Finish, Compare, Unlink, SpawnConfirmed, vars
      <4> QED
        BY <4>1, <4>2
    <3>3. \A id \in Id : status[id] = "queued" => status'[id] = "queued"
      BY <1>0, <3>2
    <3>4. driver.pc = "exit" => driver.exitId \in Id
      BY DEF TypeInv, Shape
    <3> QED
      BY <2>1, <3>1, <3>3, <3>4, ExitUntouched
  <2> QED
    BY <2>2, <2>3
<1>2. CASE PumpDeliveries
  BY <1>2, PumpedExit
<1>3. CASE Accepted
  BY <1>3, DeliveredExit
<1>4. ASSUME NEW c \in Commands, NEW i \in Instances, Exec(c, i) \/ Direct(c, i)
      PROVE  ExitInv'
  <2>1. PICK lane \in {"normal", "priority"} : Enqueue(c, i, lane)
    BY <1>4 DEF Exec, Direct
  <2>2. /\ ch.nonce \in Epoch /\ c \in AllCommands /\ c # "shutdown"
        /\ UNCHANGED <<delivery, driver>>
    BY <1>4, CommandsAssumption DEF Exec, Direct
  <2> QED
    BY <2>1, <2>2, SubmittedOther
<1>5. CASE StopHost("respawn") \/ StopHost("dispose") \/ ShutdownSettled
  <2>1. ch.nonce \in Epoch /\ UNCHANGED delivery
    BY <1>5, StopFences DEF TypeInv, Shape
  <2>2. CASE Enqueue("shutdown", Default, "priority") /\ driver.pc = "up"
             /\ driver'.pc = "exit" /\ driver'.exitId = NextId
    BY <2>1, <2>2, SubmittedExit
  <2>3. CASE LanesShrink /\ UNCHANGED cmd
    <3>1. NoExit
      <4>1. driver.pc # "exit" \/ status[driver.exitId] # "queued"
        BY <1>5 DEF StopHost, ShutdownSettled, Settled
      <4> QED
        BY <4>1, ExitIsGone
    <3> QED
      BY <2>1, <2>3, <3>1, StaysGone
      DEF NoExit, NoneInNormal, NoneInPriority, NoneDelivered, ExitInv
  <2>4. (PrepareHostEpoch(TRUE, TRUE, status) \/ UNCHANGED ch) => LanesShrink
    BY <1>0, FenceEmpties DEF LanesShrink
  <2> QED
    BY <1>5, <2>2, <2>3, <2>4, StopFences
<1>6. CASE Takes \/ (KillHost /\ driver.mode = "dispose") \/ WriteHostEpoch \/ SpawnHost
           \/ BootFails
  <2>1. driver.pc # "exit"
    BY <1>6 DEF Takes, Boot, BootRetry, RespawnAfterFailure, KillHost, WriteHostEpoch,
       SpawnHost, BootFails
  <2>2. LanesShrink /\ UNCHANGED <<cmd, delivery>>
    <3>1. CASE Takes
      BY <1>0, <3>1, TakesEpoch, FenceEmpties
    <3>2. CASE ~Takes
      BY <1>0, <1>6, <3>2 DEF KillHost, WriteHostEpoch, SpawnHost, BootFails, LanesShrink,
         ChannelType
    <3> QED
      BY <3>1, <3>2
  <2>3. NoExit
    BY <2>1, ExitIsGone
  <2> QED
    BY <2>2, <2>3, StaysGone
    DEF NoExit, NoneInNormal, NoneInPriority, NoneDelivered, ExitInv
<1> QED
  BY <1>1, <1>2, <1>3, <1>4, <1>5, <1>6, Steps

-------------------------------------------------------------------------------
(* A channel whose next epoch is prepared is paused, until the driver takes *)
(* that epoch: in between no delivery starts.                              *)

PauseInv ==
    /\ ch.prepared => ch.paused
    /\ driver.pc \in {"write", "spawn"} => ~ch.prepared

LEMMA PauseInit == Init => PauseInv
BY DEF Init, PauseInv

LEMMA PauseNext == TypeInv /\ ExitInv /\ PauseInv /\ [Next]_vars => PauseInv'
<1> SUFFICES ASSUME TypeInv, ExitInv, PauseInv, [Next]_vars PROVE PauseInv'
  OBVIOUS
<1>0. ch \in ChannelType /\ driver \in DriverType
  BY DEF TypeInv, TypeOK
<1>1. CASE Elsewhere
  BY <1>1, ElsewhereKeeps DEF PauseInv
<1>2. CASE PumpDeliveries \/ \E c \in Commands, i \in Instances : Exec(c, i) \/ Direct(c, i)
  BY <1>2, LanesKeepEpoch DEF PauseInv
<1>3. CASE Accepted
  <2>1. UNCHANGED driver /\ delivery.pc # "idle"
    BY <1>3 DEF Accepted
  <2>2. CASE cmd[delivery.id] = "shutdown"
    <3>1. [status EXCEPT ![delivery.id] = "accepted"] \in [Id -> Status]
      BY DEF TypeInv, TypeOK, Status, Settled
    <3>2. ch'.prepared /\ ch'.paused
      BY <1>3, <2>2, <3>1, FenceMovesOn DEF Accepted
    <3>3. driver.pc = "exit"
      BY <2>1, <2>2 DEF ExitInv, Awaited
    <3> QED
      BY <2>1, <3>2, <3>3 DEF PauseInv
  <2>3. CASE cmd[delivery.id] # "shutdown"
    BY <1>3, <2>1, <2>3 DEF Accepted, PauseInv
  <2> QED
    BY <2>2, <2>3
<1>4. CASE StopHost("respawn") \/ StopHost("dispose") \/ ShutdownSettled
  <2>1. driver'.pc \in {"stop", "exit"}
    BY <1>4, StopFences
  <2>2. CASE PrepareHostEpoch(TRUE, TRUE, status) /\ CanRotate
    BY <2>1, <2>2, FenceMovesOn DEF PauseInv, TypeInv, TypeOK
  <2>3. CASE Enqueue("shutdown", Default, "priority")
    BY <1>0, <2>1, <2>3 DEF Enqueue, ChannelType, PauseInv
  <2>4. CASE UNCHANGED ch
    BY <2>1, <2>4 DEF PauseInv
  <2> QED
    BY <1>4, <2>2, <2>3, <2>4, StopFences
<1>5. CASE Takes
  BY <1>5, TakesEpoch DEF PauseInv
<1>6. CASE KillHost /\ driver.mode = "dispose"
  BY <1>0, <1>6 DEF KillHost, DriverType, PauseInv
<1>7. CASE WriteHostEpoch
  BY <1>0, <1>7 DEF WriteHostEpoch, DriverType, pageVars, PauseInv
<1>8. CASE SpawnHost
  <2>1. ~ch.prepared /\ ch'.prepared = ch.prepared
    BY <1>0, <1>8 DEF SpawnHost, ChannelType, PauseInv
  <2> QED
    BY <2>1 DEF PauseInv
<1>9. CASE BootFails
  BY <1>0, <1>9 DEF BootFails, DriverType, pageVars, PauseInv
<1> QED
  BY <1>1, <1>2, <1>3, <1>4, <1>5, <1>6, <1>7, <1>8, <1>9, Steps

-------------------------------------------------------------------------------
(* The fence, where kill() takes effect at once.  The only process alive is *)
(* the driver's; while it lives no request of a later epoch is delivered,  *)
(* so none of its loops holds one, and it refuses only what is behind it.  *)

Alive(p) == proc[p] \in {"starting", "up", "exiting"}

AliveInv == \A p \in Epoch : Alive(p) => driver.proc = p

Behind(p) ==
    /\ cmdFile # NoId => EpochOf(cmdFile) <= p
    /\ delivery.pc = "write" => EpochOf(delivery.id) <= p

BehindInv == \A p \in Epoch : Alive(p) => Behind(p)

LoopInv ==
    \A p \in Epoch, l \in Loops :
        loop[p][l] # Idle => proc[p] \in {"up", "exiting"} /\ EpochOf(loop[p][l].id) <= p

StaleInv == \A id \in Id : results[id] = "stale" => EpochOf(id) < ch.nonce

FenceInv == AliveInv /\ BehindInv /\ LoopInv /\ StaleInv /\ OldHostNeverSettles

LEMMA FenceInit == Init => FenceInv
BY DEF Init, FenceInv, AliveInv, Alive, BehindInv, LoopInv, StaleInv, OldHostNeverSettles

\* All that the next steps rely on.
Known == TypeInv /\ HostInv /\ SlotInv /\ SharedInv /\ ExitInv /\ PauseInv /\ FenceInv

\* The process that is alive is the one of the driver's epoch.
LEMMA AliveIsCurrent ==
    ASSUME Known, NEW p \in Epoch, Alive(p)
    PROVE  /\ driver.pc \in {"up", "exit", "stop"} /\ p = driver.epoch /\ p <= ch.nonce
           /\ ~ch.prepared => p = ch.nonce
<1>1. driver.proc = p /\ p # 0
  BY BoundsAssumption DEF Known, FenceInv, AliveInv, Epoch
<1>2. driver.pc \in {"up", "exit", "stop"}
  BY <1>1 DEF Known, SharedInv, ProcInv, TypeInv, TypeOK, DriverType
<1> QED
  BY <1>1, <1>2 DEF Known, SharedInv, ProcInv, EpochInv

\* Epochs are numbers, and no request in the channel is ahead of the page.
LEMMA NoneAhead ==
    ASSUME Known
    PROVE  /\ ch.nonce \in Nat /\ \A id \in Id : EpochOf(id) \in Nat
           /\ cmdFile # NoId => cmdFile \in Id /\ EpochOf(cmdFile) <= ch.nonce
           /\ delivery.pc # "idle" => delivery.id \in Id /\ EpochOf(delivery.id) <= ch.nonce
<1>1. ch.nonce \in Nat /\ \A id \in Id : EpochOf(id) \in Nat
  BY BoundsAssumption DEF Known, TypeInv, TypeOK, ChannelType, Id, Epoch, EpochOf
<1>2. \A id \in Id : status[id] # "unused" => EpochOf(id) <= ch.nonce
  BY <1>1 DEF Known, SlotInv, NumberedInv
<1>3. cmdFile # NoId => cmdFile \in Id /\ status[cmdFile] # "unused"
  BY DEF Known, SlotInv, DeliveryInv, TypeInv, TypeOK
<1>4. delivery.pc # "idle" => delivery.id \in Id /\ status[delivery.id] # "unused"
  BY DEF Known, SlotInv, DeliveryInv, TypeInv, Shape
<1> QED
  BY <1>1, <1>2, <1>3, <1>4

\* No refusal appears, in a file or to a caller.
NoNewRefusal ==
    \A id \in Id : /\ results'[id] = "stale" => results[id] = "stale"
                   /\ status'[id] = "stale" => status[id] = "stale"

LEMMA FenceRefusesNone ==
    ASSUME NEW pause, NEW keep, NEW st, PrepareHostEpoch(pause, keep, st),
           \A id \in Id : st[id] = "stale" => status[id] = "stale"
    PROVE  NoNewRefusal
BY DEF PrepareHostEpoch, NoNewRefusal

\* A step that neither starts nor stops a process, nor moves a loop.
LEMMA FenceUntouched ==
    ASSUME Known, NoNewRefusal, UNCHANGED <<proc, loop>>, driver'.proc = driver.proc,
           cmdFile' \in {cmdFile, NoId}, delivery'.pc = "write" => delivery' = delivery,
           ch'.nonce \in Nat, ch.nonce <= ch'.nonce
    PROVE  FenceInv'
<1>1. ch.nonce \in Nat /\ \A id \in Id : EpochOf(id) \in Nat
  BY NoneAhead
<1>2. AliveInv' /\ LoopInv'
  BY DEF Known, FenceInv, AliveInv, LoopInv, Alive
<1>3. BehindInv'
  BY DEF Known, FenceInv, BehindInv, Behind, Alive
<1>4. StaleInv' /\ OldHostNeverSettles'
  BY <1>1 DEF Known, FenceInv, StaleInv, OldHostNeverSettles, NoNewRefusal
<1> QED
  BY <1>2, <1>3, <1>4 DEF FenceInv

\* A loop that takes up the request in the slot, or lets go of one.
LEMMA LoopTakesSlot ==
    ASSUME Known, NEW p \in Epoch, NEW l \in Loops, NEW pc, NEW id,
           proc[p] \in {"up", "exiting"}, Goto(p, l, pc, id),
           \/ id = cmdFile /\ cmdFile # NoId
           \/ pc = "idle" /\ id = NoId
           \/ loop[p][l] # Idle /\ id = loop[p][l].id,
           UNCHANGED proc \/ proc' = [proc EXCEPT ![p] = "exiting"]
    PROVE  LoopInv'
<1>1. loop' = [loop EXCEPT ![p][l] = [pc |-> pc, id |-> id]]
      /\ loop \in [Epoch -> [Loops -> LoopType]] /\ proc \in [Epoch -> ProcState]
  BY DEF Goto, Known, TypeInv, TypeOK
<1>2. loop'[p][l] # Idle => EpochOf(loop'[p][l].id) <= p
  <2>1. loop'[p][l] = [pc |-> pc, id |-> id]
    BY <1>1
  <2>2. CASE id = cmdFile /\ cmdFile # NoId
    BY <2>1, <2>2 DEF Known, FenceInv, BehindInv, Behind, Alive
  <2>3. CASE pc = "idle" /\ id = NoId
    BY <2>1, <2>3 DEF Idle
  <2>4. CASE loop[p][l] # Idle /\ id = loop[p][l].id
    BY <2>1, <2>4 DEF Known, FenceInv, LoopInv
  <2> QED
    BY <2>2, <2>3, <2>4
<1>3. \A q \in Epoch, k \in Loops : <<q, k>> # <<p, l>> => loop'[q][k] = loop[q][k]
  BY <1>1
<1>4. \A q \in Epoch : proc[q] \in {"up", "exiting"} => proc'[q] \in {"up", "exiting"}
  BY <1>1
<1> QED
  BY <1>2, <1>3, <1>4 DEF Known, FenceInv, LoopInv

\* A step of a host leaves the rest of the fence alone.
LEMMA HostKeepsFence ==
    ASSUME Known, NEW p \in Epoch, Host(p)
    PROVE  FenceInv'
<1> USE DEF pageVars, fileVars, hostVars, historyVars
<1>0. /\ UNCHANGED <<ch, status, delivery, driver>> /\ cmdFile' \in {cmdFile, NoId}
      /\ ch.nonce \in Nat /\ \A id \in Id : EpochOf(id) \in Nat
  BY NoneAhead DEF Host, HostStart, HostExit, PruneStaleResults, RefuseStale,
     AckAgain, Begin, Finish, Compare, Unlink, SpawnConfirmed
<1>1. /\ proc \in [Epoch -> ProcState] /\ loop \in [Epoch -> [Loops -> LoopType]]
      /\ results \in [Id -> ResultKind]
  BY DEF Known, TypeInv, TypeOK
<1>2. \A q \in Epoch : (Alive(q))' => Alive(q)
  BY <1>1 DEF Host, HostStart, HostExit, Stop, PruneStaleResults, RefuseStale,
     AckAgain, Begin, Finish, Compare, Unlink, SpawnConfirmed, Alive
<1>3. AliveInv'
  BY <1>0, <1>2 DEF Known, FenceInv, AliveInv
<1>4. BehindInv'
  BY <1>0, <1>2 DEF Known, FenceInv, BehindInv, Behind
<1>5. OldHostNeverSettles'
  BY <1>0 DEF Known, FenceInv, OldHostNeverSettles
<1>6. StaleInv'
  <2>1. ASSUME NEW l \in Loops, RefuseStale(p, l) PROVE StaleInv'
    <3>1. /\ proc[p] \in {"up", "exiting"} /\ cmdFile # NoId /\ EpochOf(cmdFile) # procEpoch[p]
          /\ results' = [results EXCEPT ![cmdFile] = "stale"]
      BY <2>1 DEF RefuseStale, Polls, SameEpoch
    <3>2. procEpoch[p] = p /\ EpochOf(cmdFile) <= p /\ p <= ch.nonce /\ cmdFile \in Id
      BY <3>1, AliveIsCurrent, NoneAhead
      DEF Known, HostInv, UpInv, FenceInv, BehindInv, Behind, Alive
    <3>3. EpochOf(cmdFile) < ch.nonce
      BY <1>0, <3>1, <3>2 DEF Epoch
    <3> QED
      BY <1>0, <1>1, <3>1, <3>3 DEF Known, FenceInv, StaleInv
  <2>2. CASE ~\E l \in Loops : RefuseStale(p, l)
    <3>1. \A id \in Id : results'[id] = "stale" => results[id] = "stale"
      <4>1. ASSUME NEW l \in Loops, Finish(p, l)
            PROVE  \A id \in Id : results'[id] = "stale" => results[id] = "stale"
        BY <1>1, <4>1 DEF Finish
      <4>2. CASE ~\E l \in Loops : Finish(p, l)
        BY <1>1, <2>2, <4>2 DEF Host, HostStart, HostExit, PruneStaleResults, AckAgain,
           Begin, Compare, Unlink, SpawnConfirmed
      <4> QED
        BY <4>1, <4>2
    <3> QED
      BY <1>0, <3>1 DEF Known, FenceInv, StaleInv
  <2> QED
    BY <2>1, <2>2
<1>7. LoopInv'
  <2>1. CASE HostStart(p)
    BY <1>1, <2>1 DEF HostStart, Known, FenceInv, LoopInv
  <2>2. CASE HostExit(p)
    <3>1. /\ proc' = [proc EXCEPT ![p] = "dead"]
          /\ loop' = [loop EXCEPT ![p] = [k \in Loops |-> Idle]]
      BY <2>2 DEF HostExit, Stop
    <3> QED
      BY <1>1, <3>1 DEF Known, FenceInv, LoopInv
  <2>3. CASE PruneStaleResults(p) \/ \E id \in Id : SpawnConfirmed(p, id)
    BY <2>3 DEF PruneStaleResults, SpawnConfirmed, Known, FenceInv, LoopInv
  <2>4. ASSUME NEW l \in Loops, RefuseStale(p, l) \/ AckAgain(p, l) \/ Begin(p, l)
        PROVE  LoopInv'
    <3>1. PICK pc \in {"compare", "run"} :
            /\ proc[p] \in {"up", "exiting"} /\ Goto(p, l, pc, cmdFile)
            /\ cmdFile # NoId /\ UNCHANGED proc
      BY <2>4 DEF RefuseStale, AckAgain, Begin, Polls
    <3> QED
      BY <3>1, LoopTakesSlot
  <2>5. ASSUME NEW l \in Loops, Finish(p, l) PROVE LoopInv'
    <3>1. /\ proc[p] \in {"up", "exiting"} /\ Goto(p, l, "compare", loop[p][l].id)
          /\ loop[p][l] # Idle
      BY <2>5 DEF Finish, Idle
    <3>2. UNCHANGED proc \/ proc' = [proc EXCEPT ![p] = "exiting"]
      BY <1>1, <2>5 DEF Finish
    <3> QED
      BY <3>1, <3>2, LoopTakesSlot
  <2>6. ASSUME NEW l \in Loops, Compare(p, l) PROVE LoopInv'
    <3>1. /\ proc[p] \in {"up", "exiting"} /\ UNCHANGED proc
          /\ loop[p][l].pc = "compare" /\ loop[p][l] # Idle
      BY <2>6 DEF Compare, Idle
    <3>2. CASE cmdFile = loop[p][l].id
      <4>1. Goto(p, l, "unlink", loop[p][l].id)
        BY <2>6, <3>2 DEF Compare
      <4> QED
        BY <3>1, <4>1, LoopTakesSlot
    <3>3. CASE cmdFile # loop[p][l].id
      <4>1. Goto(p, l, "idle", NoId)
        BY <2>6, <3>3 DEF Compare
      <4> QED
        BY <3>1, <4>1, LoopTakesSlot
    <3> QED
      BY <3>2, <3>3
  <2>7. ASSUME NEW l \in Loops, Unlink(p, l) PROVE LoopInv'
    <3>1. proc[p] \in {"up", "exiting"} /\ UNCHANGED proc /\ Goto(p, l, "idle", NoId)
      BY <2>7 DEF Unlink
    <3> QED
      BY <3>1, LoopTakesSlot
  <2> QED
    BY <2>1, <2>2, <2>3, <2>4, <2>5, <2>6, <2>7 DEF Host
<1> QED
  BY <1>3, <1>4, <1>5, <1>6, <1>7 DEF FenceInv

\* A kill that takes effect at once leaves no process alive, and no loop.
LEMMA KillLeavesNone ==
    ASSUME Known, ~KillLag, KillProc \/ (driver.proc = 0 /\ UNCHANGED <<proc, loop>>)
    PROVE  /\ \A p \in Epoch : ~(Alive(p))'
           /\ \A p \in Epoch, l \in Loops : loop'[p][l] = Idle
<1>1. \A p \in Epoch : Alive(p) => driver.proc = p /\ p # 0
  BY BoundsAssumption DEF Known, FenceInv, AliveInv, Epoch
<1>2. \A p \in Epoch, l \in Loops : loop[p][l] # Idle => Alive(p)
  BY DEF Known, FenceInv, LoopInv, Alive
<1>3. CASE driver.proc = 0
  BY <1>1, <1>2, <1>3 DEF KillProc, Alive
<1>4. CASE driver.proc # 0
  <2>1. driver.proc \in Epoch
    BY <1>4, BoundsAssumption DEF Known, TypeInv, TypeOK, DriverType, Epoch
  <2>2. /\ proc' = [proc EXCEPT ![driver.proc] = "dead"]
        /\ loop' = [loop EXCEPT ![driver.proc] = [k \in Loops |-> Idle]]
        /\ proc \in [Epoch -> ProcState] /\ loop \in [Epoch -> [Loops -> LoopType]]
    BY <1>4 DEF KillProc, Stop, Known, TypeInv, TypeOK
  <2> QED
    BY <1>1, <1>2, <2>1, <2>2 DEF Alive
<1> QED
  BY <1>3, <1>4

\* With no process alive, only the refusals that are there must be old ones.
LEMMA NoneAliveKeeps ==
    ASSUME Known, \A p \in Epoch : ~(Alive(p))',
           \A p \in Epoch, l \in Loops : loop'[p][l] = Idle,
           NoNewRefusal, ch'.nonce \in Nat, ch.nonce <= ch'.nonce
    PROVE  FenceInv'
<1>1. ch.nonce \in Nat /\ \A id \in Id : EpochOf(id) \in Nat
  BY NoneAhead
<1>2. AliveInv' /\ BehindInv' /\ LoopInv'
  BY DEF AliveInv, BehindInv, LoopInv
<1>3. StaleInv' /\ OldHostNeverSettles'
  BY <1>1 DEF Known, FenceInv, StaleInv, OldHostNeverSettles, NoNewRefusal
<1> QED
  BY <1>2, <1>3 DEF FenceInv

LEMMA FenceNext == Known /\ ~KillLag /\ [Next]_vars => FenceInv'
<1> SUFFICES ASSUME Known, ~KillLag, [Next]_vars PROVE FenceInv'
  OBVIOUS
<1> USE DEF pageVars, fileVars, hostVars, historyVars
<1>0. /\ TypeInv /\ ch \in ChannelType /\ driver \in DriverType /\ ch.nonce \in Nat
      /\ status \in [Id -> Status] /\ results \in [Id -> ResultKind]
      /\ delivery \in DeliveryType
  BY NoneAhead DEF Known, TypeInv, TypeOK
<1>1. ASSUME NEW p \in Epoch, Host(p) PROVE FenceInv'
  BY <1>1, HostKeepsFence
<1>2. CASE WriteCommand
  <2>1. /\ delivery.pc = "write" /\ cmdFile' = delivery.id
        /\ delivery'.pc = "poll" /\ UNCHANGED <<ch, status, results, proc, loop, driver>>
    BY <1>0, <1>2 DEF WriteCommand, DeliveryType
  <2>2. BehindInv'
    BY <2>1 DEF Known, FenceInv, BehindInv, Behind, Alive
  <2> QED
    BY <2>1, <2>2
    DEF Known, FenceInv, AliveInv, Alive, LoopInv, StaleInv, OldHostNeverSettles
<1>3. CASE TakeAck \/ RejectDelivery
  <2>1. /\ UNCHANGED <<ch, results, proc, loop, driver, cmdFile>> /\ delivery'.pc # "write"
        /\ UNCHANGED status \/ status' = [status EXCEPT ![delivery.id] = "failed"]
    BY <1>0, <1>3 DEF TakeAck, RejectDelivery, DeliveryType, Idle
  <2>2. NoNewRefusal
    BY <1>0, <2>1 DEF NoNewRefusal
  <2> QED
    BY <1>0, <2>1, <2>2, FenceUntouched
<1>4. ASSUME NEW id \in Id, TakeResult(id) \/ RejectResult(id) PROVE FenceInv'
  <2>1. UNCHANGED <<ch, proc, loop, driver, cmdFile, delivery>>
    BY <1>4 DEF TakeResult, RejectResult
  <2>2. /\ UNCHANGED results \/ results' = [results EXCEPT ![id] = "none"]
        /\ \/ status' = [status EXCEPT ![id] = "failed"]
           \/ status' = [status EXCEPT ![id] = results[id]] /\ EpochOf(id) = ch.nonce
    BY <1>4 DEF TakeResult, RejectResult, Current
  <2>3. EpochOf(id) = ch.nonce => results[id] # "stale"
    BY <1>0 DEF Known, FenceInv, StaleInv
  <2>4. NoNewRefusal
    BY <1>0, <2>2, <2>3 DEF NoNewRefusal
  <2> QED
    BY <1>0, <2>1, <2>4, FenceUntouched
<1>5. ASSUME NEW e \in Epoch, SweepRead(e) \/ SweepUnlink(e) PROVE FenceInv'
  BY <1>0, <1>5, FenceUntouched DEF SweepRead, SweepUnlink, NoNewRefusal
<1>6. CASE UNCHANGED vars
  BY <1>0, <1>6, FenceUntouched DEF vars, NoNewRefusal
<1>7. CASE PumpDeliveries
  <2>1. UNCHANGED <<ch.nonce, ch.prepared, driver>>
    BY <1>0, <1>7, LanesKeepEpoch
  <2>2. ~ch.paused /\ UNCHANGED <<results, proc, loop, cmdFile>>
    BY <1>7 DEF PumpDeliveries
  <2>3. PICK task :
          \/ /\ delivery' = [pc |-> "write", id |-> task] /\ EpochOf(task) = ch.nonce
             /\ UNCHANGED status
          \/ status' = [status EXCEPT ![task] = "failed"] /\ UNCHANGED delivery
    BY <1>7, Zenon DEF PumpDeliveries, Current
  <2>4. CASE delivery' = [pc |-> "write", id |-> task] /\ EpochOf(task) = ch.nonce
             /\ UNCHANGED status
    <3>1. ~ch.prepared
      BY <2>2 DEF Known, PauseInv
    <3>2. ASSUME NEW p \in Epoch, Alive(p) PROVE EpochOf(delivery'.id) <= p
      BY <1>0, <2>4, <3>1, <3>2, AliveIsCurrent
    <3>3. BehindInv'
      BY <2>2, <2>4, <3>2 DEF Known, FenceInv, BehindInv, Behind, Alive
    <3> QED
      BY <2>1, <2>2, <2>4, <3>3
      DEF Known, FenceInv, AliveInv, Alive, LoopInv, StaleInv, OldHostNeverSettles
  <2>5. CASE status' = [status EXCEPT ![task] = "failed"] /\ UNCHANGED delivery
    <3>1. NoNewRefusal
      BY <1>0, <2>2, <2>5 DEF NoNewRefusal
    <3> QED
      BY <1>0, <2>1, <2>2, <2>5, <3>1, FenceUntouched
  <2> QED
    BY <2>3, <2>4, <2>5
<1>8. CASE Accepted
  <2>1. /\ delivery' = Idle /\ UNCHANGED <<proc, loop, driver, cmdFile>>
    BY <1>8 DEF Accepted
  <2>2. CASE cmd[delivery.id] = "shutdown"
    <3> DEFINE st == [status EXCEPT ![delivery.id] = "accepted"]
    <3>1. st \in [Id -> Status] /\ \A id \in Id : st[id] = "stale" => status[id] = "stale"
      BY <1>0 DEF Status, Settled
    <3>2. CanRotate /\ PrepareHostEpoch(TRUE, TRUE, st)
      BY <1>8, <2>2 DEF Accepted
    <3> HIDE DEF st
    <3>3. NoNewRefusal /\ ch'.nonce \in Nat /\ ch.nonce <= ch'.nonce
      BY <1>0, <3>1, <3>2, FenceMovesOn, FenceRefusesNone
    <3> QED
      BY <2>1, <3>3, FenceUntouched DEF Idle
  <2>3. CASE cmd[delivery.id] # "shutdown"
    <3>1. UNCHANGED <<ch, results>> /\ status' = [status EXCEPT ![delivery.id] = "acked"]
      BY <1>8, <2>3 DEF Accepted
    <3>2. NoNewRefusal
      BY <1>0, <3>1 DEF NoNewRefusal
    <3> QED
      BY <1>0, <2>1, <3>1, <3>2, FenceUntouched DEF Idle
  <2> QED
    BY <2>2, <2>3
<1>9. ASSUME NEW c \in Commands, NEW i \in Instances, Exec(c, i) \/ Direct(c, i)
      PROVE  FenceInv'
  <2>1. UNCHANGED <<ch.nonce, results, proc, loop, driver, cmdFile, delivery>>
    BY <1>0, <1>9, LanesKeepEpoch DEF Exec, Direct
  <2>2. status' = [status EXCEPT ![NextId] = "queued"]
    BY <1>9 DEF Exec, Direct, Enqueue
  <2>3. NoNewRefusal
    BY <1>0, <2>1, <2>2 DEF NoNewRefusal
  <2> QED
    BY <1>0, <2>1, <2>3, FenceUntouched
<1>10. CASE StopHost("respawn") \/ StopHost("dispose") \/ ShutdownSettled
  <2>1. driver'.proc = driver.proc /\ UNCHANGED <<delivery, cmdFile, proc, loop>>
    BY <1>0, <1>10, StopFences
  <2>2. NoNewRefusal /\ ch'.nonce \in Nat /\ ch.nonce <= ch'.nonce
    <3>1. CASE PrepareHostEpoch(TRUE, TRUE, status) /\ CanRotate
      BY <1>0, <3>1, FenceMovesOn, FenceRefusesNone
    <3>2. CASE Enqueue("shutdown", Default, "priority") /\ UNCHANGED results
      <4>1. status' = [status EXCEPT ![NextId] = "queued"] /\ ch'.nonce = ch.nonce
        BY <1>0, <3>2 DEF Enqueue, ChannelType
      <4> QED
        BY <1>0, <3>2, <4>1 DEF NoNewRefusal
    <3>3. CASE UNCHANGED <<ch, status, results>>
      BY <1>0, <3>3 DEF NoNewRefusal
    <3> QED
      BY <1>0, <1>10, <3>1, <3>2, <3>3, StopFences
  <2> QED
    BY <2>1, <2>2, FenceUntouched
<1>11. CASE Takes
  <2>1. /\ PrepareHostEpoch(FALSE, FALSE, status)
        /\ ch'.nonce \in Epoch /\ ch.nonce <= ch'.nonce
    BY <1>0, <1>11, TakesEpoch, Zenon
  <2>0. ch'.nonce \in Nat
    BY <2>1 DEF Epoch
  <2>2. NoNewRefusal
    BY <2>1, FenceRefusesNone
  <2>3. KillProc \/ (driver.proc = 0 /\ UNCHANGED <<proc, loop>>)
    BY <1>11 DEF Takes, Boot, BootRetry, RespawnAfterFailure, KillHost, Known, SharedInv,
       ProcInv
  <2> QED
    BY <2>0, <2>1, <2>2, <2>3, KillLeavesNone, NoneAliveKeeps
<1>12. CASE KillHost /\ driver.mode = "dispose"
  <2>1. KillProc /\ UNCHANGED <<ch, status, results>>
    BY <1>12 DEF KillHost
  <2> QED
    BY <1>0, <2>1, KillLeavesNone, NoneAliveKeeps DEF NoNewRefusal
<1>13. CASE WriteHostEpoch \/ BootFails
  <2>1. /\ driver'.proc = driver.proc
        /\ UNCHANGED <<ch, status, results, proc, loop, cmdFile, delivery>>
    BY <1>0, <1>13 DEF WriteHostEpoch, BootFails, DriverType
  <2> QED
    BY <1>0, <2>1, FenceUntouched DEF NoNewRefusal
<1>14. CASE SpawnHost
  <2>1. /\ driver.proc = 0 /\ driver.epoch \in Epoch /\ driver.epoch = ch.nonce
        /\ driver'.proc = driver.epoch /\ ch'.nonce = ch.nonce
        /\ proc' = [proc EXCEPT ![driver.epoch] = "starting"] /\ proc \in [Epoch -> ProcState]
        /\ UNCHANGED <<loop, cmdFile, delivery, results, status>>
    BY <1>0, <1>14 DEF SpawnHost, Known, SharedInv, ProcInv, EpochInv, PauseInv, TypeInv,
       TypeOK, Shape, DriverType, ChannelType
  <2>2. \A p \in Epoch : ~Alive(p)
    BY <2>1, BoundsAssumption DEF Known, FenceInv, AliveInv, Epoch
  <2>3. \A p \in Epoch : (Alive(p))' => p = driver.epoch
    BY <2>1, <2>2 DEF Alive
  <2>4. AliveInv'
    BY <2>1, <2>3 DEF AliveInv
  <2>5. BehindInv'
    BY <1>0, <2>1, <2>3, NoneAhead DEF BehindInv, Behind
  <2>6. LoopInv'
    BY <2>1, <2>2 DEF Known, FenceInv, LoopInv, Alive
  <2> QED
    BY <2>1, <2>4, <2>5, <2>6 DEF Known, FenceInv, StaleInv, OldHostNeverSettles
<1> QED
  BY <1>1, <1>2, <1>3, <1>4, <1>5, <1>6, <1>7, <1>8, <1>9, <1>10, <1>11, <1>12, <1>13,
     <1>14, Steps DEF Elsewhere

LEMMA FenceInvariant ==
    ASSUME ~KillLag
    PROVE  Spec => []Known
<1>1. Init => Known
  BY TypeInit, HostInit, SlotInit, SharedInit, ExitInit, PauseInit, FenceInit DEF Known
<1>2. Known /\ [Next]_vars => Known'
  BY TypeNext, HostNext, SlotNext, SharedNext, ExitNext, PauseNext, FenceNext DEF Known
<1> QED
  BY <1>1, <1>2, PTL DEF Spec

\* A refusal that a host of an older epoch has written is never taken for the
\* answer of a request, if the kill of a host takes effect before its successor boots.
THEOREM OldHostsNeverSettle ==
    ASSUME ~KillLag
    PROVE  Spec => []OldHostNeverSettles
<1>1. Known => OldHostNeverSettles
  BY DEF Known, FenceInv
<1> QED
  BY <1>1, FenceInvariant, PTL

\* Nor does such a host ever take up a request of a later epoch: the exit request's
\* acknowledgement pauses the channel before the next delivery.
THEOREM OldHostsNeverConsume ==
    ASSUME ~KillLag
    PROVE  Spec => []OldHostNeverConsumes
<1>1. Known => OldHostNeverConsumes
  BY DEF Known, HostInv, UpInv, FenceInv, LoopInv, OldHostNeverConsumes
<1> QED
  BY <1>1, FenceInvariant, PTL


-------------------------------------------------------------------------------
(* Who waits.  A request has one place, in a lane or in the delivery, as   *)
(* long as it is queued; what is rejected from there is still waiting.     *)

Waits(q)      == \A k \in 1..Len(q) : status[q[k]] = "queued"
Once(q)       == \A j, k \in 1..Len(q) : q[j] = q[k] => j = k
Without(q, x) == \A k \in 1..Len(q) : q[k] # x
Apart(q, r)   == \A j \in 1..Len(q), k \in 1..Len(r) : q[j] # r[k]

PlaceInv ==
    /\ Waits(ch.normal) /\ Waits(ch.priority)
    /\ Once(ch.normal) /\ Once(ch.priority) /\ Apart(ch.normal, ch.priority)
    /\ delivery.pc # "idle" =>
         /\ status[delivery.id] = "queued"
         /\ Without(ch.normal, delivery.id) /\ Without(ch.priority, delivery.id)

LEMMA PlaceInit == Init => PlaceInv
BY DEF Init, PlaceInv, Waits, Once, Without, Apart, Idle

\* What leaves a lane is not in it any more.
LEMMA TailOf ==
    ASSUME NEW S, NEW q \in Seq(S), q # <<>>, Once(q)
    PROVE  /\ Head(q) = q[1] /\ 1 \in 1..Len(q)
           /\ \A k \in 1..Len(Tail(q)) : k + 1 \in 1..Len(q) /\ Tail(q)[k] = q[k + 1]
           /\ Once(Tail(q)) /\ Without(Tail(q), Head(q))
<1>1. /\ Head(q) = q[1] /\ 1 \in 1..Len(q)
      /\ \A k \in 1..Len(Tail(q)) :
           k \in Nat /\ k + 1 \in 1..Len(q) /\ k + 1 # 1 /\ Tail(q)[k] = q[k + 1]
  OBVIOUS
<1>2. Without(Tail(q), Head(q))
  BY <1>1 DEF Once, Without
<1>3. ASSUME NEW j \in 1..Len(Tail(q)), NEW k \in 1..Len(Tail(q)), Tail(q)[j] = Tail(q)[k]
      PROVE  j = k
  <2>1. j + 1 = k + 1
    BY <1>1, <1>3 DEF Once
  <2> QED
    BY <1>1, <2>1
<1> QED
  BY <1>1, <1>2, <1>3 DEF Once

\* A step that moves nothing and settles nobody who is queued.
KeepsPlaces ==
    /\ UNCHANGED <<ch.normal, ch.priority>>
    /\ delivery'.pc # "idle" => delivery.pc # "idle" /\ delivery'.id = delivery.id
    /\ \A id \in Id : status[id] = "queued" => status'[id] = "queued"

LEMMA KeptPlaces == TypeInv /\ SlotInv /\ PlaceInv /\ KeepsPlaces => PlaceInv'
<1> SUFFICES ASSUME TypeInv, SlotInv, PlaceInv, KeepsPlaces PROVE PlaceInv'
  OBVIOUS
<1>1. InChannel
  BY ChannelIds
<1>2. Waits(ch.normal)' /\ Waits(ch.priority)'
  BY <1>1 DEF PlaceInv, KeepsPlaces, Waits, InChannel, Used
<1>3. Once(ch.normal)' /\ Once(ch.priority)' /\ Apart(ch.normal, ch.priority)'
  BY DEF PlaceInv, KeepsPlaces, Once, Apart
<1>4. delivery'.pc # "idle" =>
        /\ status'[delivery'.id] = "queued"
        /\ Without(ch.normal, delivery.id)' /\ Without(ch.priority, delivery.id)'
  BY <1>1 DEF PlaceInv, KeepsPlaces, InChannel, Used, Without
<1> QED
  BY <1>2, <1>3, <1>4 DEF PlaceInv

\* A new request joins one lane, under an id nobody has.
LEMMA SubmittedPlace ==
    ASSUME TypeInv, SlotInv, PlaceInv, ch.nonce \in Epoch,
           NEW c \in AllCommands, NEW i \in Instances,
           NEW lane \in {"normal", "priority"}, Enqueue(c, i, lane), UNCHANGED delivery
    PROVE  PlaceInv'
<1>1. /\ NextId \in Id /\ status[NextId] = "unused" /\ status'[NextId] = "queued"
      /\ \A id \in Id : status[id] # "unused" => status'[id] = status[id]
      /\ \A k \in 1..Len(ch'.normal) :
           \/ k \in 1..Len(ch.normal) /\ ch'.normal[k] = ch.normal[k]
           \/ lane = "normal" /\ k = Len(ch.normal) + 1 /\ ch'.normal[k] = NextId
      /\ \A k \in 1..Len(ch'.priority) :
           \/ k \in 1..Len(ch.priority) /\ ch'.priority[k] = ch.priority[k]
           \/ lane = "priority" /\ k = Len(ch.priority) + 1 /\ ch'.priority[k] = NextId
  BY Submitted
<1>2. InChannel
  BY ChannelIds
<1>3. /\ \A k \in 1..Len(ch.normal) : ch.normal[k] # NextId
      /\ \A k \in 1..Len(ch.priority) : ch.priority[k] # NextId
      /\ delivery.pc # "idle" => delivery.id # NextId
  BY <1>1, <1>2 DEF InChannel, Used
<1>4. Waits(ch.normal)' /\ Waits(ch.priority)'
  <2>1. \A id \in Id : status[id] = "queued" => status'[id] = "queued"
    BY <1>1
  <2>2. /\ \A k \in 1..Len(ch.normal) : status'[ch.normal[k]] = "queued"
        /\ \A k \in 1..Len(ch.priority) : status'[ch.priority[k]] = "queued"
    BY <1>2, <2>1 DEF PlaceInv, Waits, InChannel, Used
  <2>3. \A k \in 1..Len(ch'.normal) : status'[ch'.normal[k]] = "queued"
    BY <1>1, <2>2
  <2>4. \A k \in 1..Len(ch'.priority) : status'[ch'.priority[k]] = "queued"
    BY <1>1, <2>2
  <2> QED
    BY <2>3, <2>4 DEF Waits
<1>5. Once(ch.normal)'
  BY <1>1, <1>3 DEF PlaceInv, Once
<1>6. Once(ch.priority)'
  BY <1>1, <1>3 DEF PlaceInv, Once
<1>7. Apart(ch.normal, ch.priority)'
  BY <1>1, <1>3 DEF PlaceInv, Apart
<1>8. delivery.pc # "idle" =>
        /\ status'[delivery.id] = "queued"
        /\ \A k \in 1..Len(ch'.normal) : ch'.normal[k] # delivery.id
        /\ \A k \in 1..Len(ch'.priority) : ch'.priority[k] # delivery.id
  BY <1>1, <1>2, <1>3 DEF PlaceInv, Without, InChannel, Used
<1> QED
  BY <1>4, <1>5, <1>6, <1>7, <1>8 DEF PlaceInv, Without

\* The pump takes the first request out of its lane.
LEMMA PumpedPlace ==
    ASSUME TypeInv, SlotInv, PlaceInv, PumpDeliveries
    PROVE  /\ PlaceInv'
           /\ \A id \in Id : \/ status'[id] = status[id]
                             \/ status[id] = "queued" /\ status'[id] = "failed"
<1>1. PICK lane \in {"priority", "normal"} :
        /\ ch[lane] # <<>>
        /\ ch' = [ch EXCEPT ![lane] = Tail(ch[lane])]
        /\ \/ /\ delivery' = [pc |-> "write", id |-> Head(ch[lane])]
              /\ UNCHANGED status
           \/ /\ status' = [status EXCEPT ![Head(ch[lane])] = "failed"]
              /\ UNCHANGED delivery
  BY Zenon DEF PumpDeliveries
<1>2. /\ ch \in ChannelType /\ status \in [Id -> Status] /\ delivery = Idle /\ InChannel
  BY ChannelIds DEF PumpDeliveries, Delivering, TypeInv, TypeOK
<1> DEFINE task == Head(ch[lane])
<1>3. CASE lane = "normal"
  <2>1. /\ ch'.priority = ch.priority /\ ch'.normal = Tail(ch.normal) /\ ch.normal # <<>>
        /\ ch.normal \in Seq(Id) /\ task = Head(ch.normal)
    BY <1>1, <1>2, <1>3 DEF ChannelType
  <2>2. /\ task = ch.normal[1] /\ 1 \in 1..Len(ch.normal)
        /\ \A k \in 1..Len(ch'.normal) :
             k + 1 \in 1..Len(ch.normal) /\ ch'.normal[k] = ch.normal[k + 1]
        /\ Once(ch'.normal) /\ Without(ch'.normal, task)
    BY <2>1, TailOf DEF PlaceInv
  <2>3. /\ task \in Id /\ status[task] = "queued" /\ Without(ch.priority, task)
        /\ Apart(ch'.normal, ch.priority)
    BY <1>2, <2>2 DEF PlaceInv, Waits, Without, Apart, InChannel, Used
  <2>4. \A id \in Id : id # task => status'[id] = status[id]
    BY <1>1, <1>2, <2>3
  <2>5. Waits(ch.normal)' /\ Waits(ch.priority)'
    BY <1>2, <2>1, <2>2, <2>3, <2>4 DEF PlaceInv, Waits, Without, InChannel, Used
  <2>6. delivery'.pc # "idle" => delivery'.id = task /\ status'[task] = "queued"
    BY <1>1, <1>2, <2>3 DEF Idle
  <2>7. PlaceInv'
    BY <2>1, <2>2, <2>3, <2>5, <2>6 DEF PlaceInv, Once, Without, Apart
  <2> QED
    BY <1>1, <1>2, <2>3, <2>7
<1>4. CASE lane = "priority"
  <2>1. /\ ch'.normal = ch.normal /\ ch'.priority = Tail(ch.priority) /\ ch.priority # <<>>
        /\ ch.priority \in Seq(Id) /\ task = Head(ch.priority)
    BY <1>1, <1>2, <1>4 DEF ChannelType
  <2>2. /\ task = ch.priority[1] /\ 1 \in 1..Len(ch.priority)
        /\ \A k \in 1..Len(ch'.priority) :
             k + 1 \in 1..Len(ch.priority) /\ ch'.priority[k] = ch.priority[k + 1]
        /\ Once(ch'.priority) /\ Without(ch'.priority, task)
    BY <2>1, TailOf DEF PlaceInv
  <2>3. /\ task \in Id /\ status[task] = "queued" /\ Without(ch.normal, task)
        /\ Apart(ch.normal, ch'.priority)
    BY <1>2, <2>2 DEF PlaceInv, Waits, Without, Apart, InChannel, Used
  <2>4. \A id \in Id : id # task => status'[id] = status[id]
    BY <1>1, <1>2, <2>3
  <2>5. Waits(ch.normal)' /\ Waits(ch.priority)'
    BY <1>2, <2>1, <2>2, <2>3, <2>4 DEF PlaceInv, Waits, Without, InChannel, Used
  <2>6. delivery'.pc # "idle" => delivery'.id = task /\ status'[task] = "queued"
    BY <1>1, <1>2, <2>3 DEF Idle
  <2>7. PlaceInv'
    BY <2>1, <2>2, <2>3, <2>5, <2>6 DEF PlaceInv, Once, Without, Apart
  <2> QED
    BY <1>1, <1>2, <2>3, <2>7
<1> QED
  BY <1>3, <1>4

\* What prepareHostEpoch does to the lanes, whatever else its caller settles.
LEMMA PreparedLanes ==
    ASSUME TypeInv, NEW pause \in BOOLEAN, NEW keep \in BOOLEAN,
           NEW st \in [Id -> Status], PrepareHostEpoch(pause, keep, st)
    PROVE  \/ ch'.normal = ch.normal /\ ch'.priority = ch.priority /\ status' = st
           \/ /\ ch'.normal = <<>> /\ ch'.priority = <<>>
              /\ \A id \in Id : status'[id] = IF id \in Queued THEN "failed" ELSE st[id]
<1>1. ch \in ChannelType
  BY DEF TypeInv, TypeOK
<1>2. CASE ch.prepared
  <2> DEFINE paused == ch.paused \/ pause
  <2>1. ch' = [ch EXCEPT !.paused = paused, !.prepared = keep] /\ status' = st
    BY <1>2 DEF PrepareHostEpoch
  <2> HIDE DEF paused
  <2> QED
    BY <1>1, <2>1 DEF ChannelType
<1>3. CASE ~ch.prepared
  BY <1>3 DEF PrepareHostEpoch
<1> QED
  BY <1>2, <1>3

\* A queued request is one that waits in a lane, and not the one delivered.
LEMMA QueuedPlace ==
    ASSUME TypeInv, SlotInv, PlaceInv, NEW id \in Queued
    PROVE  status[id] = "queued" /\ (delivery.pc # "idle" => id # delivery.id)
<1>1. InChannel
  BY ChannelIds
<1>2. DOMAIN ch.normal = 1..Len(ch.normal) /\ DOMAIN ch.priority = 1..Len(ch.priority)
  BY <1>1 DEF InChannel
<1>3. \/ \E k \in 1..Len(ch.normal) : id = ch.normal[k]
      \/ \E k \in 1..Len(ch.priority) : id = ch.priority[k]
  BY <1>2 DEF Queued, Range
<1> QED
  BY <1>3 DEF PlaceInv, Waits, Without

\* A fence rejects what waits in the lanes and leaves the delivery alone.
LEMMA FencedPlace ==
    ASSUME TypeInv, SlotInv, PlaceInv, NEW pause \in BOOLEAN, NEW keep \in BOOLEAN,
           PrepareHostEpoch(pause, keep, status), UNCHANGED delivery
    PROVE  /\ PlaceInv'
           /\ \A id \in Id : \/ status'[id] = status[id]
                             \/ status[id] = "queued" /\ status'[id] = "failed"
<1>1. status \in [Id -> Status] /\ InChannel
  BY ChannelIds DEF TypeInv, TypeOK
<1>2. CASE ch'.normal = ch.normal /\ ch'.priority = ch.priority /\ status' = status
  <2>1. KeepsPlaces
    BY <1>2 DEF KeepsPlaces
  <2> QED
    BY <1>2, <2>1, KeptPlaces
<1>3. CASE /\ ch'.normal = <<>> /\ ch'.priority = <<>>
           /\ \A id \in Id : status'[id] = IF id \in Queued THEN "failed" ELSE status[id]
  <2>1. \A id \in Id : \/ status'[id] = status[id]
                       \/ status[id] = "queued" /\ status'[id] = "failed"
    BY <1>3, QueuedPlace
  <2>2. delivery.pc # "idle" => status'[delivery.id] = "queued"
    <3>1. delivery.pc # "idle" => delivery.id \in Id /\ delivery.id \notin Queued
      BY <1>1, QueuedPlace DEF InChannel, Used
    <3> QED
      BY <1>3, <3>1 DEF PlaceInv
  <2>3. PlaceInv'
    BY <1>3, <2>2 DEF PlaceInv, Waits, Once, Without, Apart
  <2> QED
    BY <2>1, <2>3
<1> QED
  BY <1>1, <1>2, <1>3, PreparedLanes

\* A delivery ends: its caller is rejected, or goes on to wait for the result,
\* or (the exit request) is answered, and then what is queued is rejected.
LEMMA EndedPlace ==
    ASSUME TypeInv, SlotInv, PlaceInv, RejectDelivery \/ Accepted
    PROVE  /\ PlaceInv' /\ delivery.id \in Id /\ status[delivery.id] = "queued"
           /\ status'[delivery.id] \in {"failed", "acked", "accepted"}
           /\ RejectDelivery => status'[delivery.id] = "failed"
           /\ \A id \in Id \ {delivery.id} :
                \/ status'[id] = status[id]
                \/ status[id] = "queued" /\ status'[id] = "failed"
<1>1. /\ delivery.pc # "idle" /\ delivery' = Idle
      /\ status \in [Id -> Status] /\ InChannel
  BY ChannelIds DEF RejectDelivery, Accepted, TypeInv, TypeOK
<1>2. /\ delivery.id \in Id /\ status[delivery.id] = "queued"
      /\ Without(ch.normal, delivery.id) /\ Without(ch.priority, delivery.id)
  BY <1>1 DEF PlaceInv, InChannel, Used
<1>3. ASSUME NEW s \in {"failed", "acked", "accepted"},
             status' = [status EXCEPT ![delivery.id] = s],
             ch'.normal = ch.normal, ch'.priority = ch.priority
      PROVE  /\ PlaceInv' /\ status'[delivery.id] = s
             /\ \A id \in Id \ {delivery.id} : status'[id] = status[id]
  <2>1. /\ status'[delivery.id] = s
        /\ \A id \in Id \ {delivery.id} : status'[id] = status[id]
    BY <1>1, <1>2, <1>3
  <2>2. Waits(ch.normal)' /\ Waits(ch.priority)'
    BY <1>1, <1>2, <1>3, <2>1 DEF PlaceInv, Waits, Without, InChannel, Used
  <2> QED
    BY <1>1, <1>3, <2>1, <2>2 DEF PlaceInv, Once, Apart, Idle
<1>4. CASE RejectDelivery
  BY <1>1, <1>2, <1>3, <1>4 DEF RejectDelivery
<1>5. CASE Accepted /\ cmd[delivery.id] # "shutdown"
  <2>1. ~RejectDelivery
    BY <1>5 DEF Accepted, RejectDelivery
  <2> QED
    BY <1>1, <1>2, <1>3, <1>5, <2>1 DEF Accepted
<1>6. CASE Accepted /\ cmd[delivery.id] = "shutdown"
  <2> DEFINE st == [status EXCEPT ![delivery.id] = "accepted"]
  <2>1. PrepareHostEpoch(TRUE, TRUE, st) /\ st \in [Id -> Status] /\ ~RejectDelivery
    BY <1>1, <1>2, <1>6 DEF Accepted, RejectDelivery, Status, Settled
  <2>2. delivery.id \notin Queued
    BY <1>1, QueuedPlace
  <2>3. CASE ch'.normal = ch.normal /\ ch'.priority = ch.priority /\ status' = st
    BY <1>1, <1>2, <1>3, <2>1, <2>3
  <2>4. CASE /\ ch'.normal = <<>> /\ ch'.priority = <<>>
             /\ \A id \in Id : status'[id] = IF id \in Queued THEN "failed" ELSE st[id]
    <3>1. PlaceInv'
      BY <1>1, <2>4 DEF PlaceInv, Waits, Once, Apart, Idle
    <3>2. /\ st[delivery.id] = "accepted"
          /\ \A id \in Id \ {delivery.id} : st[id] = status[id]
      BY <1>1, <1>2
    <3> HIDE DEF st
    <3> QED
      BY <1>2, <2>1, <2>2, <2>4, <3>1, <3>2, QueuedPlace
  <2> HIDE DEF st
  <2> QED
    BY <2>1, <2>3, <2>4, PreparedLanes
<1> QED
  BY <1>4, <1>5, <1>6

-------------------------------------------------------------------------------
(* What was begun.  A command is begun only from the slot, so it was sent;  *)
(* an acknowledgement, and so whoever waits for a result or has taken an   *)
(* answer, follows its beginning.                                          *)

RunInv ==
    /\ cmdFile # NoId => cmdFile \in written
    /\ \A id \in written : status[id] # "unused"
    /\ \A id \in Id : started[id] > 0 => id \in written
    /\ \A id \in acks : started[id] > 0
    /\ \A p \in Epoch : \A id \in processed[p] : started[id] > 0
    /\ delivery.pc = "accepted" => started[delivery.id] > 0
    /\ \A id \in Id : status[id] = "acked" => started[id] > 0

LEMMA RunInit == Init => RunInv
BY DEF Init, RunInv, Idle

\* A step that sends and begins nothing.
KeepsRuns ==
    /\ UNCHANGED <<written, started, processed>>
    /\ cmdFile' \in {cmdFile, NoId}
    /\ \A id \in acks' : id \in acks \/ started[id] > 0
    /\ delivery'.pc = "accepted" =>
         \/ delivery.pc = "accepted" /\ delivery'.id = delivery.id
         \/ started[delivery'.id] > 0
    /\ \A id \in Id : /\ status[id] # "unused" => status'[id] # "unused"
                      /\ status'[id] = "acked" => status[id] = "acked" \/ started[id] > 0

LEMMA KeptRuns == TypeInv /\ RunInv /\ KeepsRuns => RunInv'
<1> SUFFICES ASSUME TypeInv, RunInv, KeepsRuns PROVE RunInv'
  OBVIOUS
<1>1. written \subseteq Id
  BY DEF TypeInv, TypeOK
<1> QED
  BY <1>1 DEF RunInv, KeepsRuns

-------------------------------------------------------------------------------
(* The step of the life cycle that a step of the channel is.               *)

Waiting == {"queued", "acked"}
Answers == {"accepted", "reply", "stale", "foreign"}

\* Some callers are rejected, some answered, none of them for the second time.
CallersSettle ==
    /\ UNCHANGED started
    /\ written \subseteq written'
    /\ \A id \in written' \ written : status'[id] # "failed"
    /\ \A id \in Id :
         \/ status'[id] = status[id]
         \/ status[id] = "queued" /\ status'[id] = "acked"
         \/ status[id] \in Waiting /\ status'[id] = "failed"
         \/ status[id] \in Waiting /\ status'[id] \in Answers /\ started[id] = 1

LEMMA SettleImplements ==
    ASSUME TypeInv, RunInv, CallersSettle
    PROVE  Lifecycle!LifecycleNext
<1> DEFINE answered == {id \in Id : status[id] \in Waiting /\ status'[id] \in Answers}
           rejected == {id \in Id : status[id] \in Waiting /\ status'[id] = "failed"}
           never    == {id \in rejected : id \notin written'}
<1>1. answered \intersect rejected = {}
  BY DEF Answers
<1>2. \A id \in answered \union rejected : [r \in Id |-> CallerOf(r)][id] = "waiting"
  BY DEF CallerOf, Waiting
<1>3. \A id \in answered : started[id] = 1
  BY DEF CallersSettle, Waiting, Answers
<1>4. \A id \in Id : CallerOf(id)' = IF id \in answered THEN "answered"
                                     ELSE IF id \in rejected THEN "rejected"
                                     ELSE [r \in Id |-> CallerOf(r)][id]
  <2> SUFFICES ASSUME NEW id \in Id
               PROVE  CallerOf(id)' = IF id \in answered THEN "answered"
                                      ELSE IF id \in rejected THEN "rejected"
                                      ELSE CallerOf(id)
    OBVIOUS
  <2> QED
    BY DEF CallersSettle, CallerOf, Waiting, Answers
<1>5. never \in SUBSET {id \in rejected : started[id] = 0}
  <2>1. \A id \in rejected : id \notin written' => started[id] = 0
    BY DEF RunInv, CallersSettle, TypeInv, TypeOK
  <2> QED
    BY <2>1
<1>6. {id \in Id : status'[id] = "failed" /\ id \notin written'}
        = {id \in Id : status[id] = "failed" /\ id \notin written} \union never
  BY DEF CallersSettle, Waiting, Answers
<1> HIDE DEF answered, rejected, never
<1>7. PICK a \in SUBSET Id, r \in SUBSET Id : a = answered /\ r = rejected
  BY DEF answered, rejected
<1>8. Lifecycle!Settle(a, r)
  BY <1>1, <1>2, <1>3, <1>4, <1>5, <1>6, <1>7 DEF Lifecycle!Settle, CallersSettle
<1> QED
  BY <1>8 DEF Lifecycle!LifecycleNext

LifeInv == TypeInv /\ HostInv /\ SlotInv /\ PlaceInv /\ RunInv

\* What is to be shown of every step.
Implements == PlaceInv' /\ RunInv' /\ Lifecycle!LifecycleNext

\* A new request is submitted, and nothing else happens.
LEMMA SubmitImplements ==
    ASSUME LifeInv, ch.nonce \in Epoch,
           NEW c \in AllCommands, NEW i \in Instances,
           NEW lane \in {"normal", "priority"}, Enqueue(c, i, lane),
           UNCHANGED <<delivery, cmdFile, acks, processed, started, written>>
    PROVE  Implements
<1>1. /\ NextId \in Id /\ status[NextId] = "unused"
      /\ status' = [status EXCEPT ![NextId] = "queued"] /\ status \in [Id -> Status]
  BY Submitted DEF Enqueue, LifeInv, TypeInv, TypeOK
<1>2. PlaceInv'
  BY SubmittedPlace DEF LifeInv
<1>3. KeepsRuns
  BY <1>1 DEF KeepsRuns
<1>4. PICK r \in Id : r = NextId
  BY <1>1
<1>5. Lifecycle!Submit(r)
  <2>1. [id \in Id |-> CallerOf(id)][r] = "idle"
    BY <1>1, <1>4 DEF CallerOf
  <2>2. \A id \in Id : CallerOf(id)' = IF id = r THEN "waiting" ELSE CallerOf(id)
    BY <1>1, <1>4 DEF CallerOf
  <2>3. {id \in Id : status'[id] = "failed" /\ id \notin written'}
          = {id \in Id : status[id] = "failed" /\ id \notin written}
    BY <1>1
  <2> QED
    BY <2>1, <2>2, <2>3 DEF Lifecycle!Submit
<1> QED
  BY <1>2, <1>3, <1>5, KeptRuns DEF Implements, LifeInv, Lifecycle!LifecycleNext

\* A host begins the command in the slot: it was sent, it was not begun by
\* another host, and this one does not remember it.
LEMMA BeginImplements ==
    ASSUME LifeInv, NEW p \in Epoch, NEW l \in Loops, Begin(p, l)
    PROVE  Implements
<1>1. /\ cmdFile \in Id /\ cmdFile \in written /\ status[cmdFile] # "unused"
      /\ started \in [Id -> Nat] /\ processed \in [Epoch -> SUBSET Id]
      /\ EpochOf(cmdFile) = p /\ cmdFile \notin processed[p]
  BY DEF LifeInv, Begin, Polls, SameEpoch, AlreadyProcessed, TypeInv, TypeOK, RunInv,
     SlotInv, DeliveryInv, HostInv, UpInv
<1>2. started[cmdFile] = 0
  BY <1>1 DEF LifeInv, HostInv, StartedInv
<1>3. /\ started' = [started EXCEPT ![cmdFile] = 1]
      /\ processed' = [processed EXCEPT ![p] = processed[p] \union {cmdFile}]
      /\ acks' = acks \union {cmdFile}
      /\ UNCHANGED <<ch, status, delivery, cmdFile, written>>
  BY <1>1, <1>2 DEF Begin, pageVars
<1>4. PlaceInv'
  <2>1. KeepsPlaces
    BY <1>3 DEF KeepsPlaces
  <2> QED
    BY <2>1, KeptPlaces DEF LifeInv
<1>5. \A id \in Id : started[id] > 0 => started'[id] > 0
  BY <1>1, <1>3
<1>6. RunInv'
  <2>1. /\ \A id \in acks' : started'[id] > 0
        /\ \A q \in Epoch : \A id \in processed'[q] : started'[id] > 0
    BY <1>1, <1>3, <1>5 DEF LifeInv, RunInv, TypeInv, TypeOK
  <2>2. delivery.pc = "accepted" => delivery.id \in Id
    BY DEF LifeInv, TypeInv, Shape
  <2> QED
    BY <1>1, <1>3, <1>5, <2>1, <2>2 DEF LifeInv, RunInv
<1>7. PICK r \in Id : r = cmdFile
  BY <1>1
<1>8. Lifecycle!Run(r)
  <2>1. [id \in Id |-> CallerOf(id)][r] # "idle"
    BY <1>1, <1>7 DEF CallerOf
  <2>2. \A id \in Id : CallerOf(id)' = CallerOf(id)
    BY <1>3 DEF CallerOf
  <2>3. {id \in Id : status'[id] = "failed" /\ id \notin written'}
          = {id \in Id : status[id] = "failed" /\ id \notin written}
    BY <1>3
  <2> QED
    BY <1>1, <1>2, <1>3, <1>7, <2>1, <2>2, <2>3 DEF Lifecycle!Run
<1> QED
  BY <1>4, <1>6, <1>8 DEF Implements, Lifecycle!LifecycleNext

\* A step that moves nothing, sends nothing, and settles at most callers that
\* wait for a result.
LEMMA CalmImplements ==
    ASSUME LifeInv, KeepsPlaces, KeepsRuns, CallersSettle
    PROVE  Implements
BY KeptPlaces, KeptRuns, SettleImplements DEF LifeInv, Implements

\* The fence of a stop or a boot.
LEMMA FenceImplements ==
    ASSUME LifeInv, NEW pause \in BOOLEAN, NEW keep \in BOOLEAN,
           PrepareHostEpoch(pause, keep, status),
           UNCHANGED <<delivery, cmdFile, processed, started, written>>
    PROVE  Implements
<1>1. /\ PlaceInv'
      /\ \A id \in Id : \/ status'[id] = status[id]
                        \/ status[id] = "queued" /\ status'[id] = "failed"
  BY FencedPlace DEF LifeInv
<1>2. acks' \subseteq acks
  BY DEF PrepareHostEpoch
<1>3. KeepsRuns
  BY <1>1, <1>2 DEF KeepsRuns
<1>4. CallersSettle
  BY <1>1 DEF CallersSettle, Waiting
<1> QED
  BY <1>1, <1>3, <1>4, KeptRuns, SettleImplements DEF LifeInv, Implements

\* Steps that leave the callers, the places and the histories alone.
Aside ==
    /\ UNCHANGED <<ch.normal, ch.priority, status, delivery>>
    /\ UNCHANGED <<processed, started, written>>
    /\ cmdFile' \in {cmdFile, NoId}
    /\ \A id \in acks' : id \in acks \/ started[id] > 0

LEMMA AsideImplements == LifeInv /\ Aside => Implements
<1>1. Aside => KeepsPlaces /\ KeepsRuns /\ CallersSettle
  BY DEF Aside, KeepsPlaces, KeepsRuns, CallersSettle
<1> QED
  BY <1>1, CalmImplements

LEMMA DeliverImplements == LifeInv /\ Deliver => Implements
<1> SUFFICES ASSUME LifeInv, Deliver PROVE Implements
  OBVIOUS
<1> USE DEF fileVars, hostVars, historyVars
<1>0. /\ delivery.pc # "idle" => delivery.id \in Id
      /\ status \in [Id -> Status] /\ started \in [Id -> Nat] /\ written \subseteq Id
  BY DEF LifeInv, TypeInv, TypeOK, Shape
<1>1. CASE PumpDeliveries
  <2>1. /\ PlaceInv'
        /\ \A id \in Id : \/ status'[id] = status[id]
                          \/ status[id] = "queued" /\ status'[id] = "failed"
    BY <1>1, PumpedPlace DEF LifeInv
  <2>2. delivery'.pc # "accepted"
    BY <1>1 DEF PumpDeliveries, Delivering, Idle
  <2>3. KeepsRuns /\ CallersSettle
    BY <1>1, <2>1, <2>2 DEF PumpDeliveries, KeepsRuns, CallersSettle, Waiting
  <2> QED
    BY <2>1, <2>3, KeptRuns, SettleImplements DEF LifeInv, Implements
<1>2. CASE WriteCommand
  <2>1. /\ delivery.id \in Id /\ status[delivery.id] = "queued"
        /\ delivery'.pc = "poll" /\ delivery'.id = delivery.id
        /\ cmdFile' = delivery.id /\ written' = written \union {delivery.id}
        /\ UNCHANGED <<ch, status, acks, processed, started>>
    BY <1>0, <1>2 DEF WriteCommand, LifeInv, PlaceInv, TypeInv, TypeOK, DeliveryType
  <2>2. KeepsPlaces /\ CallersSettle
    BY <1>2, <2>1 DEF WriteCommand, KeepsPlaces, CallersSettle
  <2>3. RunInv'
    BY <1>0, <2>1 DEF LifeInv, RunInv
  <2> QED
    BY <2>2, <2>3, KeptPlaces, SettleImplements DEF LifeInv, Implements
<1>3. CASE TakeAck
  <2>1. /\ delivery.pc = "poll" /\ delivery'.id = delivery.id /\ started[delivery.id] > 0
        /\ acks' \subseteq acks
    BY <1>3 DEF TakeAck, LifeInv, RunInv, TypeInv, TypeOK, DeliveryType
  <2>2. KeepsPlaces /\ KeepsRuns /\ CallersSettle
    BY <1>3, <2>1 DEF TakeAck, KeepsPlaces, KeepsRuns, CallersSettle
  <2> QED
    BY <2>2, CalmImplements
<1>4. CASE RejectDelivery \/ Accepted
  <2>1. /\ PlaceInv' /\ delivery.id \in Id /\ status[delivery.id] = "queued"
        /\ status'[delivery.id] \in {"failed", "acked", "accepted"}
        /\ RejectDelivery => status'[delivery.id] = "failed"
        /\ \A id \in Id \ {delivery.id} :
             \/ status'[id] = status[id]
             \/ status[id] = "queued" /\ status'[id] = "failed"
    BY <1>4, EndedPlace DEF LifeInv
  <2>2. Accepted => started[delivery.id] = 1
    BY <1>0, <2>1 DEF Accepted, LifeInv, RunInv, HostInv, AtMostOnce
  <2>3. acks' \subseteq acks /\ delivery'.pc = "idle"
    BY <1>4 DEF RejectDelivery, Accepted, PrepareHostEpoch, Idle
  <2>4. KeepsRuns
    <3>1. UNCHANGED <<written, started, processed, cmdFile>>
      BY <1>4 DEF RejectDelivery, Accepted
    <3>2. \A id \in Id : /\ status[id] # "unused" => status'[id] # "unused"
                         /\ status'[id] = "acked" => status[id] = "acked" \/ started[id] > 0
      BY <1>4, <2>1, <2>2
    <3> QED
      BY <2>3, <3>1, <3>2 DEF KeepsRuns
  <2>5. CallersSettle
    BY <1>4, <2>1, <2>2 DEF RejectDelivery, Accepted, CallersSettle, Waiting, Answers
  <2> QED
    BY <2>1, <2>4, <2>5, KeptRuns, SettleImplements DEF LifeInv, Implements
<1> QED
  BY <1>1, <1>2, <1>3, <1>4 DEF Deliver

LEMMA ResultImplements ==
    ASSUME LifeInv, NEW id \in Id, TakeResult(id) \/ RejectResult(id)
    PROVE  Implements
<1> USE DEF fileVars, hostVars, historyVars
<1>1. /\ status[id] = "acked" /\ started[id] = 1
      /\ status \in [Id -> Status] /\ results \in [Id -> ResultKind]
  BY DEF TakeResult, RejectResult, LifeInv, RunInv, HostInv, AtMostOnce, TypeInv, TypeOK
<1>2. /\ status'[id] \in {"failed"} \union Answers
      /\ \A r \in Id \ {id} : status'[r] = status[r]
  BY <1>1 DEF TakeResult, RejectResult, ResultKind, Answers
<1>3. UNCHANGED <<ch, delivery, cmdFile, acks, processed, started, written>>
  BY DEF TakeResult, RejectResult
<1>4. KeepsPlaces /\ KeepsRuns /\ CallersSettle
  BY <1>1, <1>2, <1>3 DEF KeepsPlaces, KeepsRuns, CallersSettle, Waiting, Answers
<1> QED
  BY <1>4, CalmImplements

LEMMA PageImplements == LifeInv /\ Page => Implements
<1> SUFFICES ASSUME LifeInv, Page PROVE Implements
  OBVIOUS
<1> USE DEF fileVars, hostVars, historyVars
<1>1. ASSUME NEW c \in Commands, NEW i \in Instances, Exec(c, i) \/ Direct(c, i)
      PROVE  Implements
  <2>1. PICK lane \in {"normal", "priority"} : Enqueue(c, i, lane)
    BY <1>1 DEF Exec, Direct
  <2>2. /\ ch.nonce \in Epoch /\ c \in AllCommands
        /\ UNCHANGED <<delivery, cmdFile, acks, processed, started, written>>
    BY <1>1, CommandsAssumption DEF Exec, Direct
  <2> QED
    BY <2>1, <2>2, SubmitImplements
<1>2. ASSUME NEW e \in Epoch, SweepRead(e) \/ SweepUnlink(e) PROVE Implements
  <2>1. Aside
    BY <1>2 DEF SweepRead, SweepUnlink, Aside
  <2> QED
    BY <2>1, AsideImplements
<1> QED
  BY <1>1, <1>2, DeliverImplements, ResultImplements DEF Page

LEMMA HostImplements == LifeInv /\ (\E p \in Epoch : Host(p)) => Implements
<1> SUFFICES ASSUME LifeInv, NEW p \in Epoch, Host(p) PROVE Implements
  OBVIOUS
<1> USE DEF pageVars, fileVars, hostVars, historyVars
<1>1. CASE HostStart(p) \/ HostExit(p) \/ PruneStaleResults(p)
  <2>1. Aside
    BY <1>1 DEF HostStart, HostExit, PruneStaleResults, Aside
  <2> QED
    BY <2>1, AsideImplements
<1>2. ASSUME NEW l \in Loops, RefuseStale(p, l) \/ Finish(p, l) \/ Compare(p, l) \/ Unlink(p, l)
      PROVE  Implements
  <2>1. Aside
    BY <1>2 DEF RefuseStale, Finish, Compare, Unlink, Aside
  <2> QED
    BY <2>1, AsideImplements
<1>3. ASSUME NEW l \in Loops, AckAgain(p, l) PROVE Implements
  <2>1. started[cmdFile] > 0
    BY <1>3 DEF AckAgain, AlreadyProcessed, LifeInv, RunInv
  <2>2. Aside
    BY <1>3, <2>1 DEF AckAgain, Aside
  <2> QED
    BY <2>2, AsideImplements
<1>4. ASSUME NEW id \in Id, SpawnConfirmed(p, id) PROVE Implements
  <2>1. Aside
    BY <1>4 DEF SpawnConfirmed, Aside
  <2> QED
    BY <2>1, AsideImplements
<1> QED
  BY <1>1, <1>2, <1>3, <1>4, BeginImplements DEF Host

LEMMA DriverImplements == LifeInv /\ Driver => Implements
<1> SUFFICES ASSUME LifeInv, Driver PROVE Implements
  OBVIOUS
<1> USE DEF pageVars, fileVars, hostVars, historyVars
<1>0. TypeInv /\ ch \in ChannelType
  BY DEF LifeInv, TypeInv, TypeOK
<1>1. CASE Takes
  <2>1. PrepareHostEpoch(FALSE, FALSE, status)
    BY <1>0, <1>1, TakesEpoch
  <2>2. UNCHANGED <<delivery, cmdFile, processed, started, written>>
    BY <1>1 DEF Takes, Boot, BootRetry, RespawnAfterFailure, KillHost
  <2> QED
    BY <2>1, <2>2, FenceImplements
<1>2. CASE StopHost("respawn") \/ StopHost("dispose") \/ ShutdownSettled
  <2>1. UNCHANGED <<delivery, cmdFile, processed, started, written>>
    BY <1>2 DEF StopHost, ShutdownSettled
  <2>2. CASE PrepareHostEpoch(TRUE, TRUE, status)
    BY <2>1, <2>2, FenceImplements
  <2>3. CASE Enqueue("shutdown", Default, "priority") /\ UNCHANGED acks /\ ch.nonce \in Epoch
    <3>1. "shutdown" \in AllCommands /\ Default \in Instances
      BY InstancesAssumption DEF AllCommands
    <3> QED
      BY <2>1, <2>3, <3>1, SubmitImplements
  <2>4. CASE UNCHANGED <<ch, status, acks>>
    <3>1. Aside
      BY <2>1, <2>4 DEF Aside
    <3> QED
      BY <3>1, AsideImplements
  <2>5. ch.nonce \in Epoch
    BY <1>0, <1>2 DEF StopHost, ShutdownSettled, TypeInv, Shape
  <2>6. CASE StopHost("respawn") \/ StopHost("dispose")
    BY <2>2, <2>3, <2>5, <2>6 DEF StopHost
  <2>7. CASE ShutdownSettled
    BY <2>2, <2>4, <2>7 DEF ShutdownSettled
  <2> QED
    BY <1>2, <2>6, <2>7
<1>3. CASE KillHost /\ driver.mode = "dispose"
  <2>1. Aside
    BY <1>3 DEF KillHost, Aside
  <2> QED
    BY <2>1, AsideImplements
<1>4. CASE WriteHostEpoch \/ BootFails
  <2>1. Aside
    BY <1>4 DEF WriteHostEpoch, BootFails, Aside
  <2> QED
    BY <2>1, AsideImplements
<1>5. CASE SpawnHost
  <2> DEFINE paused == ch.paused /\ ~Resumes
  <2>1. ch' = [ch EXCEPT !.paused = paused]
    BY <1>5 DEF SpawnHost
  <2> HIDE DEF paused
  <2>2. UNCHANGED <<ch.normal, ch.priority>>
    BY <1>0, <2>1 DEF ChannelType
  <2>3. Aside
    BY <1>5, <2>2 DEF SpawnHost, Aside
  <2> QED
    BY <2>3, AsideImplements
<1> QED
  BY <1>1, <1>2, <1>3, <1>4, <1>5 DEF Driver, Boots, Takes

-------------------------------------------------------------------------------
LEMMA LifeInit == Init => PlaceInv /\ RunInv /\ Lifecycle!LifecycleInit
<1>1. Init => Lifecycle!LifecycleInit
  BY DEF Init, Lifecycle!LifecycleInit, CallerOf
<1> QED
  BY <1>1, PlaceInit, RunInit

\* Every step of the channel is a step of the life cycle, or none.
LEMMA LifeStep ==
    LifeInv /\ [Next]_vars =>
        PlaceInv' /\ RunInv' /\ [Lifecycle!LifecycleNext]_Lifecycle!lifecycleVars
<1> SUFFICES ASSUME LifeInv, [Next]_vars
             PROVE  PlaceInv' /\ RunInv' /\ Lifecycle!LifecycleNext
  OBVIOUS
<1>1. CASE Next
  BY <1>1, PageImplements, HostImplements, DriverImplements DEF Next, Implements
<1>2. CASE UNCHANGED vars
  <2>1. Aside
    BY <1>2 DEF vars, pageVars, fileVars, hostVars, historyVars, Aside
  <2> QED
    BY <2>1, AsideImplements DEF Implements
<1> QED
  BY <1>1, <1>2

\* Whatever the host, its crashes and its restarts do, the channel is the life
\* cycle it promises each caller: settled once, answered only if the command
\* was begun, begun once, and never begun if rejected before it was sent.
THEOREM ChannelImplementsLifecycle == Spec => ImplementsLifecycle
<1>1. Init => PlaceInv /\ RunInv /\ Lifecycle!LifecycleInit
  BY LifeInit
<1>2. /\ Init => TypeInv /\ HostInv /\ SlotInv
      /\ TypeInv /\ HostInv /\ SlotInv /\ [Next]_vars => TypeInv' /\ HostInv' /\ SlotInv'
  BY TypeInit, HostInit, SlotInit, TypeNext, HostNext, SlotNext
<1>3. /\ TypeInv /\ HostInv /\ SlotInv /\ PlaceInv /\ RunInv /\ [Next]_vars
        => PlaceInv' /\ RunInv' /\ [Lifecycle!LifecycleNext]_Lifecycle!lifecycleVars
  BY LifeStep DEF LifeInv
<1> QED
  BY <1>1, <1>2, <1>3, PTL DEF Spec, ImplementsLifecycle, Lifecycle!LifecycleSpec

===============================================================================
