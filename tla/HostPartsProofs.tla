---------------------------- MODULE HostPartsProofs ----------------------------
(***************************************************************************)
(* Proofs about parts of the host that Parts puts side by side: the        *)
(* execution contexts, the packages and the userland registry, and the     *)
(* services; and about the commands it runs, that one which is over stays  *)
(* over: WASI programs, git commands, browser requests, and the commands   *)
(* of the executor.                                                        *)
(***************************************************************************)
EXTENDS Parts, TLAPS, FiniteSetTheorems, SequenceTheorems

-----------------------------------------------------------------------------
(* The world of an instance in the host, and its public pids               *)
(* (ExecutionContexts).                                                    *)

WorldPhases == {"none", "creating", "ready", "destroyed"}
ProcessStates == {"none", "running", "exited", "gone"}
LaneRecord == [op : {"none", "run", "ps", "kill", "reset"}, at : {"none", "context", "hub", "running", "killed"},
               w : 0..MaxWorld]
ShownRecord == [pid : Nat, w : Contexts!World, l : Contexts!Local]

\* A command of the lane that has begun has a world.
ContextsType ==
    /\ phase \in [Contexts!World -> WorldPhases]
    /\ currentWorld \in 0..MaxWorld /\ doomed \subseteq Contexts!World /\ taken \in 0..MaxContextCommand
    /\ laneOwner \in LaneRecord /\ (laneOwner.at # "none" => laneOwner.w # 0)
    /\ terminalOf \in [waits : 0..MaxWorld, on : 0..MaxWorld]
    /\ processOf \in [Contexts!World -> [Contexts!Local -> ProcessStates]]
    /\ nextPid \in Nat /\ pidOf \in [Contexts!Local -> 0..nextPid] /\ listed \subseteq ShownRecord
    /\ held \in BOOLEAN /\ exiting \in BOOLEAN

\* Until the host exits, the world in the map is the only one alive, and the command in the lane is at work in it; past
\* the wait for the world, it is there.
LaneHasWorld ==
    ~exiting =>
        /\ doomed = {} /\ Contexts!OneWorld
        /\ laneOwner.at # "none" => laneOwner.w = currentWorld
        /\ laneOwner.at \in {"hub", "running", "killed"} => phase[laneOwner.w] = "ready"

\* Public pids are given out in order, one to each process of the world that is there, and ps has shown them.
PidsAreShown ==
    ~exiting =>
        /\ \A s \in listed : s.pid \in 1..nextPid
        /\ \A l \in Contexts!Local : pidOf[l] # 0 =>
              /\ currentWorld # 0 /\ phase[currentWorld] = "ready"
              /\ [pid |-> pidOf[l], w |-> currentWorld, l |-> l] \in listed
        /\ Contexts!PidMeansOne

ContextsInv == ContextsType /\ LaneHasWorld /\ PidsAreShown

-----------------------------------------------------------------------------

\* The numbers of the members of a set, in their order, are distinct: what Project adds to nextPid.
LEMMA RanksAreDistinct ==
    ASSUME NEW n \in Nat, NEW S \in SUBSET (1..n)
    PROVE  /\ Cardinality(S) \in Nat
           /\ \A l \in S : Cardinality({k \in S : k <= l}) \in 1..Cardinality(S)
           /\ \A l, m \in S : Cardinality({k \in S : k <= l}) = Cardinality({k \in S : k <= m}) => l = m
<1> DEFINE Upto(l) == {k \in S : k <= l}
<1>1. IsFiniteSet(1..n)
  BY FS_Interval
<1>2. IsFiniteSet(S)
  BY <1>1, FS_Subset
<1>3. ASSUME NEW l \in S
      PROVE  IsFiniteSet(Upto(l)) /\ Cardinality(Upto(l)) \in Nat /\ Cardinality(Upto(l)) <= Cardinality(S)
  <2>1. Upto(l) \in SUBSET S
    OBVIOUS
  <2>2. QED
    BY <1>2, <2>1, FS_Subset, FS_CardinalityType
<1>4. ASSUME NEW l \in S PROVE Cardinality(Upto(l)) # 0
  <2>1. l \in Upto(l)
    OBVIOUS
  <2>2. QED
    BY <1>3, <2>1, FS_EmptySet
<1>5. ASSUME NEW l \in S, NEW m \in S, l < m PROVE Cardinality(Upto(l)) < Cardinality(Upto(m))
  <2>0. l \in Int /\ m \in Int /\ \A k \in S : k \in Int
    OBVIOUS
  <2>a. m \in Upto(m)
    OBVIOUS
  <2>b. ASSUME NEW k \in Upto(l) PROVE k \in Upto(m) /\ k # m
    <3>1. k \in S /\ k <= l /\ k \in Int
      BY <2>0
    <3>2. k <= m /\ k # m
      BY <1>5, <2>0, <3>1
    <3>3. QED
      BY <3>1, <3>2
  <2>1. m \in Upto(m) /\ Upto(l) \in SUBSET (Upto(m) \ {m})
    BY <2>a, <2>b
  <2>2. IsFiniteSet(Upto(m) \ {m}) /\ Cardinality(Upto(m) \ {m}) = Cardinality(Upto(m)) - 1
    BY <1>3, <2>1, FS_RemoveElement
  <2>3. Cardinality(Upto(l)) <= Cardinality(Upto(m) \ {m})
    BY <2>1, <2>2, FS_Subset
  <2>4. Cardinality(Upto(l)) \in Nat /\ Cardinality(Upto(m)) \in Nat
    BY <1>3
  <2> HIDE DEF Upto
  <2>5. QED
    BY <2>2, <2>3, <2>4
<1>6. Cardinality(S) \in Nat
  BY <1>2, FS_CardinalityType
<1>7. \A l \in S : Cardinality(Upto(l)) \in 1..Cardinality(S)
  BY <1>3, <1>4, <1>6
<1>8. \A l, m \in S : l = m \/ l < m \/ m < l
  OBVIOUS
<1>9. \A l, m \in S : Cardinality(Upto(l)) = Cardinality(Upto(m)) => l = m
  BY <1>3, <1>5, <1>8
<1>10. QED
  BY <1>6, <1>7, <1>9

\* The cardinality the module speaks of is the cardinality.
LEMMA SizeIsCardinality == \A S : Contexts!Cardinality(S) = Cardinality(S)
BY DEF Contexts!Cardinality, Cardinality

\* What a view of the processes of a world, the one in the map, does to the public pids.
LEMMA ProjectKeeps ==
    ASSUME ContextsType, NEW w \in Contexts!World, Contexts!Project(w)
    PROVE  /\ nextPid' \in Nat /\ pidOf' \in [Contexts!Local -> 0..nextPid'] /\ listed' \subseteq ShownRecord
           /\ PidsAreShown /\ ~exiting /\ w = currentWorld /\ phase[w] = "ready"
              => /\ \A s \in listed' : s.pid \in 1..nextPid'
                 /\ \A l \in Contexts!Local : pidOf'[l] # 0 => [pid |-> pidOf'[l], w |-> w, l |-> l] \in listed'
                 /\ \A s, t \in listed' : s.pid = t.pid => s = t
<1> DEFINE there == {l \in Contexts!Local : processOf[w][l] \in {"running", "exited"}}
           fresh == {l \in there : pidOf[l] = 0}
           rank(l) == Cardinality({k \in fresh : k <= l})
           pid(l) == IF l \notin there THEN 0 ELSE IF l \notin fresh THEN pidOf[l] ELSE nextPid + rank(l)
           pids == [l \in Contexts!Local |-> IF l \notin there THEN 0 ELSE IF l \notin fresh THEN pidOf[l]
                                             ELSE nextPid + Contexts!Cardinality({k \in fresh : k <= l})]
           new == {[pid |-> pid(l), w |-> w, l |-> l] : l \in there}
<1>1. /\ pidOf' = [l \in Contexts!Local |-> pid(l)]
      /\ nextPid' = nextPid + Cardinality(fresh)
      /\ listed' = listed \union new
  <2>0. /\ pidOf' = pids
        /\ nextPid' = nextPid + Contexts!Cardinality(fresh)
        /\ listed' = listed \union {[pid |-> pids[l], w |-> w, l |-> l] : l \in there}
    BY Zenon DEF Contexts!Project
  <2>1. /\ pidOf' = pids
        /\ nextPid' = nextPid + Cardinality(fresh)
        /\ listed' = listed \union {[pid |-> pids[l], w |-> w, l |-> l] : l \in there}
    BY <2>0, SizeIsCardinality, Zenon
  <2>2. pids = [l \in Contexts!Local |-> pid(l)]
    BY SizeIsCardinality, Zenon
  <2>3. \A l \in there : l \in Contexts!Local
    OBVIOUS
  <2> HIDE DEF pid, there
  <2>4. \A l \in there : pids[l] = pid(l)
    BY <2>2, <2>3
  <2> HIDE DEF pids
  <2>5. {[pid |-> pids[l], w |-> w, l |-> l] : l \in there} = new
    BY <2>4
  <2>6. QED
    BY <2>1, <2>2, <2>5
<1>2. MaxProcess \in Nat
  BY BoundsAssumption
<1>3. fresh \in SUBSET (1..MaxProcess)
  BY DEF Contexts!Local
<1>4. /\ Cardinality(fresh) \in Nat
      /\ \A l \in fresh : rank(l) \in 1..Cardinality(fresh)
      /\ \A l, m \in fresh : rank(l) = rank(m) => l = m
  <2> HIDE DEF fresh
  <2>1. QED
    BY <1>2, <1>3, RanksAreDistinct
<1>5. /\ nextPid \in Nat /\ listed \subseteq ShownRecord
      /\ \A l \in Contexts!Local : pidOf[l] \in 0..nextPid
      /\ \A l \in there : l \in Contexts!Local /\ (l \notin fresh => pidOf[l] # 0)
      /\ fresh \subseteq there
  BY DEF ContextsType
<1>p. \A l \in Contexts!Local : /\ l \notin there => pid(l) = 0
                                /\ l \in there /\ l \notin fresh => pid(l) = pidOf[l]
                                /\ l \in fresh => pid(l) = nextPid + rank(l)
  OBVIOUS
<1> HIDE DEF there, fresh, rank, pid
<1>6. nextPid' \in Nat
  BY <1>1, <1>4, <1>5
<1>7. \A l \in Contexts!Local : pid(l) \in 0..nextPid'
  <2> TAKE l \in Contexts!Local
  <2>1. CASE l \notin there
    BY <1>6, <1>p, <2>1
  <2>2. CASE l \in there /\ l \notin fresh
    BY <1>1, <1>4, <1>5, <1>p, <2>2
  <2>3. CASE l \in fresh
    <3>1. rank(l) \in Nat /\ rank(l) <= Cardinality(fresh)
      BY <1>4, <2>3
    <3>2. QED
      BY <1>1, <1>4, <1>5, <1>p, <2>3, <3>1
  <2>4. QED
    BY <1>5, <2>1, <2>2, <2>3
<1>8. \A s \in new : s \in ShownRecord
  BY <1>5, <1>6, <1>7 DEF ShownRecord
<1>9. ASSUME PidsAreShown, ~exiting, w = currentWorld
      PROVE  /\ \A s \in listed' : s.pid \in 1..nextPid'
             /\ \A l \in Contexts!Local : pidOf'[l] # 0 => [pid |-> pidOf'[l], w |-> w, l |-> l] \in listed'
             /\ \A s, t \in listed' : s.pid = t.pid => s = t
  <2>1. \A s \in listed : s.pid \in 1..nextPid
    BY <1>9 DEF PidsAreShown
  <2>2. \A s, t \in listed : s.pid = t.pid => s = t
    BY <1>9 DEF PidsAreShown, Contexts!PidMeansOne
  <2>3. ASSUME NEW l \in there, l \notin fresh PROVE [pid |-> pid(l), w |-> w, l |-> l] \in listed
    BY <1>5, <1>9, <1>p, <2>3 DEF PidsAreShown
  <2>4. ASSUME NEW l \in fresh PROVE pid(l) > nextPid /\ pid(l) <= nextPid' /\ pid(l) = nextPid + rank(l)
    <3>1. rank(l) \in Nat /\ rank(l) >= 1 /\ rank(l) <= Cardinality(fresh)
      BY <1>4
    <3>2. QED
      BY <1>1, <1>4, <1>5, <1>p, <3>1
  <2>5. ASSUME NEW s \in listed'
        PROVE  s \in listed \/ \E l \in fresh : s = [pid |-> pid(l), w |-> w, l |-> l]
    BY <1>1, <2>3
  <2>6. \A l \in fresh, m \in fresh : pid(l) = pid(m) => l = m
    <3> TAKE l \in fresh, m \in fresh
    <3>1. rank(l) \in Nat /\ rank(m) \in Nat
      BY <1>4
    <3>2. QED
      BY <1>4, <1>5, <2>4, <3>1
  <2>7. \A s \in listed' : s.pid \in 1..nextPid'
    <3> TAKE s \in listed'
    <3>1. CASE s \in listed
      BY <1>1, <1>4, <1>5, <2>1, <3>1
    <3>2. CASE \E l \in fresh : s = [pid |-> pid(l), w |-> w, l |-> l]
      <4>1. PICK l \in fresh : s.pid = pid(l)
        BY <3>2
      <4>2. pid(l) \in Nat
        BY <1>5, <1>6, <1>7
      <4>3. QED
        BY <1>5, <1>6, <2>4, <4>1, <4>2
    <3>3. QED
      BY <2>5, <3>1, <3>2
  <2>8. \A s, t \in listed' : s.pid = t.pid => s = t
    <3> SUFFICES ASSUME NEW s \in listed', NEW t \in listed', s.pid = t.pid PROVE s = t
      OBVIOUS
    <3>1. CASE s \in listed /\ t \in listed
      BY <2>2, <3>1
    <3>2. ASSUME NEW u \in listed, NEW l \in fresh PROVE u.pid # pid(l)
      <4>1. u.pid \in Nat /\ u.pid <= nextPid /\ pid(l) \in Nat
        BY <1>5, <1>6, <1>7, <2>1
      <4>2. QED
        BY <1>5, <2>4, <4>1
    <3>3. CASE s \notin listed \/ t \notin listed
      <4>1. PICK l \in fresh, m \in fresh : \/ s \in listed /\ t = [pid |-> pid(m), w |-> w, l |-> m]
                                            \/ t \in listed /\ s = [pid |-> pid(l), w |-> w, l |-> l]
                                            \/ /\ s = [pid |-> pid(l), w |-> w, l |-> l]
                                               /\ t = [pid |-> pid(m), w |-> w, l |-> m]
        BY <2>5, <3>3
      <4>2. QED
        BY <2>6, <3>2, <4>1
    <3>4. QED
      BY <3>1, <3>3
  <2>9. \A l \in Contexts!Local : pidOf'[l] # 0 => [pid |-> pidOf'[l], w |-> w, l |-> l] \in listed'
    <3> TAKE l \in Contexts!Local
    <3>1. pidOf'[l] = pid(l)
      BY <1>1
    <3>2. l \in there => [pid |-> pid(l), w |-> w, l |-> l] \in listed'
      BY <1>1
    <3>3. QED
      BY <1>p, <3>1, <3>2
  <2>10. QED
    BY <2>7, <2>8, <2>9
<1>10. QED
  BY <1>1, <1>6, <1>7, <1>5, <1>8, <1>9

-----------------------------------------------------------------------------

\* What the steps leave alone: a view of the pids stays true while its world stays and is there.
LEMMA PidsStay ==
    ASSUME PidsAreShown, UNCHANGED <<nextPid, pidOf, listed, exiting, currentWorld>>,
           currentWorld # 0 /\ phase[currentWorld] = "ready" => phase'[currentWorld] = "ready"
    PROVE  PidsAreShown'
BY DEF PidsAreShown, Contexts!PidMeansOne

\* The processes of a world that is cleaned up are still processes.
LEMMA CleanedKeeps ==
    ASSUME NEW ps \in [Contexts!World -> [Contexts!Local -> ProcessStates]], NEW w \in Contexts!World
    PROVE  Contexts!Cleaned(w, ps) \in [Contexts!World -> [Contexts!Local -> ProcessStates]]
<1>1. [l \in Contexts!Local |-> IF ps[w][l] = "running" THEN "exited" ELSE ps[w][l]]
      \in [Contexts!Local -> ProcessStates]
  BY DEF ProcessStates
<1> DEFINE done == [l \in Contexts!Local |-> IF ps[w][l] = "running" THEN "exited" ELSE ps[w][l]]
<1>2. Contexts!Cleaned(w, ps) = [ps EXCEPT ![w] = done]
  BY DEF Contexts!Cleaned
<1>3. done \in [Contexts!Local -> ProcessStates]
  BY <1>1
<1> HIDE DEF done
<1>4. QED
  BY <1>2, <1>3

\* The invariant holds at first.
LEMMA ContextsStart == Contexts!Init => ContextsInv
<1> SUFFICES ASSUME Contexts!Init PROVE ContextsInv
  OBVIOUS
<1> USE DEF Contexts!Init
<1>0. MaxWorld \in Nat /\ MaxContextCommand \in Nat
  BY BoundsAssumption
<1>z. 0 \in 0..MaxWorld /\ 0 \in 0..MaxContextCommand
  BY <1>0
<1>1. phase \in [Contexts!World -> WorldPhases] /\ processOf \in [Contexts!World -> [Contexts!Local -> ProcessStates]]
  BY DEF WorldPhases, ProcessStates
<1>2. laneOwner \in LaneRecord /\ laneOwner.at = "none" /\ terminalOf \in [waits : 0..MaxWorld, on : 0..MaxWorld]
  BY <1>z DEF LaneRecord, Contexts!Free
<1>3. nextPid \in Nat /\ pidOf \in [Contexts!Local -> 0..nextPid] /\ listed = {}
  OBVIOUS
<1>4. ContextsType
  BY <1>z, <1>1, <1>2, <1>3 DEF ContextsType
<1>5. LaneHasWorld
  BY <1>2 DEF LaneHasWorld, Contexts!OneWorld
<1>6. PidsAreShown
  BY <1>3 DEF PidsAreShown, Contexts!PidMeansOne
<1>7. QED
  BY <1>4, <1>5, <1>6 DEF ContextsInv

\* Whoever needs a world gets the one in the map, or one that begins to be created and is the only one.
LEMMA EnsureKeeps ==
    ASSUME ContextsType, NEW w, Contexts!Ensure(w), UNCHANGED <<exiting, doomed>>
    PROVE  /\ w \in Contexts!World /\ w # 0 /\ currentWorld' = w
           /\ phase' \in [Contexts!World -> WorldPhases]
           /\ Contexts!OneWorld => Contexts!OneWorld'
           /\ currentWorld # 0 => UNCHANGED <<phase, currentWorld>>
<1>0. MaxWorld \in Nat
  BY BoundsAssumption
<1>1. CASE currentWorld # 0 /\ w = currentWorld /\ UNCHANGED <<phase, currentWorld>>
  BY <1>0, <1>1 DEF ContextsType, Contexts!World, Contexts!OneWorld
<1>2. CASE /\ currentWorld = 0 /\ w \in Contexts!World /\ phase[w] = "none"
           /\ phase' = [phase EXCEPT ![w] = "creating"] /\ currentWorld' = w
  <2>1. phase' \in [Contexts!World -> WorldPhases] /\ phase \in [Contexts!World -> WorldPhases]
    BY <1>2 DEF ContextsType, WorldPhases
  <2>2. w # 0
    BY <1>0, <1>2 DEF Contexts!World
  <2>3. ASSUME Contexts!OneWorld, ~exiting PROVE \A v \in Contexts!World : phase'[v] \in {"creating", "ready"} <=> v = w
    <3>1. \A v \in Contexts!World : phase[v] \notin {"creating", "ready"}
      BY <1>2, <2>3 DEF Contexts!OneWorld
    <3>2. QED
      BY <1>2, <2>1, <3>1
  <2>4. Contexts!OneWorld => Contexts!OneWorld'
    <3>1. SUFFICES ASSUME Contexts!OneWorld, ~exiting
                   PROVE {v \in Contexts!World : phase'[v] \in {"creating", "ready"}} = {w} \ {0}
      BY <1>2 DEF Contexts!OneWorld
    <3>2. QED
      BY <1>2, <2>2, <2>3, <3>1
  <2>5. QED
    BY <1>2, <2>1, <2>2, <2>4
<1>3. QED
  BY <1>1, <1>2 DEF Contexts!Ensure

\* The world in the map is alive and the only one.
LEMMA AliveIsCurrent ==
    ASSUME ContextsInv, ~exiting
    PROVE  /\ \A w \in Contexts!World : phase[w] \in {"creating", "ready"} => w = currentWorld
           /\ currentWorld # 0 => currentWorld \in Contexts!World /\ phase[currentWorld] \in {"creating", "ready"}
           /\ doomed = {}
<1>0. MaxWorld \in Nat
  BY BoundsAssumption
<1>1. {w \in Contexts!World : phase[w] \in {"creating", "ready"}} = {currentWorld} \ {0} /\ doomed = {}
  BY DEF ContextsInv, LaneHasWorld, Contexts!OneWorld
<1>2. QED
  BY <1>1

\* The command in the lane has a world.
LEMMA LaneWorld == ContextsType /\ laneOwner.at # "none" => laneOwner.w \in Contexts!World
<1>0. MaxWorld \in Nat
  BY BoundsAssumption
<1>1. ContextsType /\ laneOwner.at # "none" => laneOwner.w \in 0..MaxWorld /\ laneOwner.w # 0
  BY DEF ContextsType, LaneRecord
<1>2. QED
  BY <1>0, <1>1 DEF Contexts!World

\* The warm-up begins the creation of the first world.
LEMMA PrewarmKeeps == ContextsInv /\ Contexts!Prewarm => ContextsInv'
<1> SUFFICES ASSUME ContextsInv, Contexts!Prewarm PROVE ContextsInv'
  OBVIOUS
<1>1. /\ Contexts!Ensure(1)
      /\ UNCHANGED <<doomed, laneOwner, taken, held, controller, terminalOf, processOf, nextPid, pidOf, listed, exiting>>
  BY DEF Contexts!Prewarm, Contexts!pidVars
<1>2. /\ 1 \in Contexts!World /\ currentWorld' = 1 /\ phase' \in [Contexts!World -> WorldPhases]
      /\ Contexts!OneWorld => Contexts!OneWorld'
      /\ currentWorld # 0 => UNCHANGED <<phase, currentWorld>>
  BY <1>1, EnsureKeeps DEF ContextsInv
<1>0. MaxWorld \in Nat
  BY BoundsAssumption
<1>3. ContextsType'
  <2>1. currentWorld' \in 0..MaxWorld
    BY <1>0, <1>2 DEF Contexts!World
  <2>2. QED
    BY <1>1, <1>2, <2>1 DEF ContextsInv, ContextsType
<1>4. LaneHasWorld'
  BY <1>1, <1>2 DEF ContextsInv, ContextsType, LaneHasWorld
<1>5. PidsAreShown'
  <2>1. CASE currentWorld = 0
    BY <1>1, <2>1 DEF ContextsInv, PidsAreShown, Contexts!PidMeansOne
  <2>2. CASE currentWorld # 0
    BY <1>1, <1>2, <2>2, PidsStay DEF ContextsInv
  <2>3. QED
    BY <2>1, <2>2
<1>6. QED
  BY <1>3, <1>4, <1>5 DEF ContextsInv

\* A terminal waits for a world, which is created if there is none.
LEMMA AttachKeeps == \A w \in Contexts!World : ContextsInv /\ Contexts!Attach(w) => ContextsInv'
<1> SUFFICES ASSUME NEW w \in Contexts!World, ContextsInv, Contexts!Attach(w) PROVE ContextsInv'
  OBVIOUS
<1>1. /\ Contexts!Ensure(w) /\ terminalOf' = [terminalOf EXCEPT !.waits = w]
      /\ UNCHANGED <<doomed, laneOwner, taken, held, controller, processOf, nextPid, pidOf, listed, exiting>>
  BY DEF Contexts!Attach, Contexts!pidVars
<1>2. /\ w \in Contexts!World /\ currentWorld' = w /\ phase' \in [Contexts!World -> WorldPhases]
      /\ Contexts!OneWorld => Contexts!OneWorld'
      /\ currentWorld # 0 => UNCHANGED <<phase, currentWorld>>
  BY <1>1, EnsureKeeps DEF ContextsInv
<1>0. MaxWorld \in Nat
  BY BoundsAssumption
<1>3. ContextsType'
  <2>1. currentWorld' \in 0..MaxWorld /\ w \in 0..MaxWorld
    BY <1>0, <1>2 DEF Contexts!World
  <2>2. terminalOf' \in [waits : 0..MaxWorld, on : 0..MaxWorld]
    BY <1>1, <2>1 DEF ContextsInv, ContextsType
  <2>3. QED
    BY <1>1, <1>2, <2>1, <2>2 DEF ContextsInv, ContextsType
<1>4. LaneHasWorld'
  BY <1>1, <1>2 DEF ContextsInv, ContextsType, LaneHasWorld
<1>5. PidsAreShown'
  <2>1. CASE currentWorld = 0
    BY <1>1, <2>1 DEF ContextsInv, PidsAreShown, Contexts!PidMeansOne
  <2>2. CASE currentWorld # 0
    BY <1>1, <1>2, <2>2, PidsStay DEF ContextsInv
  <2>3. QED
    BY <2>1, <2>2
<1>6. QED
  BY <1>3, <1>4, <1>5 DEF ContextsInv

\* A creation ends; a world that was thrown away meanwhile is destroyed at once.
LEMMA CreatedKeeps == \A w \in Contexts!World : ContextsInv /\ Contexts!Created(w) => ContextsInv'
<1> SUFFICES ASSUME NEW w \in Contexts!World, ContextsInv, Contexts!Created(w) PROVE ContextsInv'
  OBVIOUS
<1>1. /\ phase[w] = "creating" /\ doomed' = doomed \ {w}
      /\ UNCHANGED <<currentWorld, laneOwner, taken, held, controller, terminalOf, nextPid, pidOf, listed, exiting>>
  BY DEF Contexts!Created, Contexts!pidVars
<1>2. \/ w \in doomed /\ phase' = [phase EXCEPT ![w] = "destroyed"] /\ processOf' = Contexts!Cleaned(w, processOf)
      \/ w \notin doomed /\ phase' = [phase EXCEPT ![w] = "ready"] /\ processOf' = processOf
  BY DEF Contexts!Created
<1>3. ContextsType'
  <2>0. /\ phase \in [Contexts!World -> WorldPhases]
        /\ processOf \in [Contexts!World -> [Contexts!Local -> ProcessStates]]
    BY DEF ContextsInv, ContextsType
  <2>1. phase' \in [Contexts!World -> WorldPhases]
    BY <1>2, <2>0 DEF WorldPhases
  <2>2. processOf' \in [Contexts!World -> [Contexts!Local -> ProcessStates]]
    BY <1>2, <2>0, CleanedKeeps
  <2>3. QED
    BY <1>1, <2>1, <2>2 DEF ContextsInv, ContextsType
<1>4. ASSUME ~exiting PROVE phase' = [phase EXCEPT ![w] = "ready"] /\ doomed' = {}
  BY <1>1, <1>2, <1>4, AliveIsCurrent
<1>5. LaneHasWorld'
  <2> SUFFICES ASSUME ~exiting
               PROVE /\ doomed' = {} /\ Contexts!OneWorld'
                     /\ laneOwner.at # "none" => laneOwner.w = currentWorld
                     /\ laneOwner.at \in {"hub", "running", "killed"} => phase'[laneOwner.w] = "ready"
    BY <1>1 DEF LaneHasWorld
  <2>0. phase \in [Contexts!World -> WorldPhases]
    BY DEF ContextsInv, ContextsType
  <2>1. \A v \in Contexts!World : phase'[v] \in {"creating", "ready"} <=> phase[v] \in {"creating", "ready"}
    BY <1>1, <1>4, <2>0
  <2>2. Contexts!OneWorld'
    BY <1>1, <2>1 DEF Contexts!OneWorld, ContextsInv, LaneHasWorld
  <2>3. laneOwner.at \in {"hub", "running", "killed"} => phase'[laneOwner.w] = "ready"
    BY <1>1, <1>4, <2>0, LaneWorld DEF ContextsInv, LaneHasWorld
  <2>4. QED
    BY <1>1, <1>4, <2>2, <2>3 DEF ContextsInv, LaneHasWorld
<1>6. PidsAreShown'
  <2>1. CASE exiting
    BY <1>1, <2>1 DEF PidsAreShown
  <2>2. CASE ~exiting
    <3>0. phase \in [Contexts!World -> WorldPhases]
      BY DEF ContextsInv, ContextsType
    <3>1. currentWorld # 0 /\ phase[currentWorld] = "ready" => phase'[currentWorld] = "ready"
      BY <1>1, <1>4, <2>2, <3>0, AliveIsCurrent
    <3>2. QED
      BY <1>1, <3>1, PidsStay DEF ContextsInv
  <2>3. QED
    BY <2>1, <2>2
<1>7. QED
  BY <1>3, <1>5, <1>6 DEF ContextsInv

\* A creation that fails leaves no world behind.
LEMMA CreationFailsKeeps == \A w \in Contexts!World : ContextsInv /\ Contexts!CreationFails(w) => ContextsInv'
<1> SUFFICES ASSUME NEW w \in Contexts!World, ContextsInv, Contexts!CreationFails(w) PROVE ContextsInv'
  OBVIOUS
<1>1. /\ phase[w] = "creating" /\ phase' = [phase EXCEPT ![w] = "destroyed"] /\ currentWorld' = 0
      /\ doomed' = doomed \ {w}
      /\ terminalOf' = IF terminalOf.waits = w THEN [terminalOf EXCEPT !.waits = 0] ELSE terminalOf
      /\ UNCHANGED <<taken, held, controller, processOf, nextPid, listed, exiting>>
  BY DEF Contexts!CreationFails
<1>2. /\ laneOwner' \in {laneOwner, Contexts!Free} /\ pidOf' \in {pidOf, [l \in Contexts!Local |-> 0]}
      /\ laneOwner.at = "context" /\ laneOwner.w = w => laneOwner' = Contexts!Free
  BY DEF Contexts!CreationFails, Contexts!NoWorld
<1>0. MaxWorld \in Nat
  BY BoundsAssumption
<1>z. 0 \in 0..MaxWorld
  BY <1>0
<1>3. ContextsType'
  <2>1. phase' \in [Contexts!World -> WorldPhases]
    BY <1>1 DEF ContextsInv, ContextsType, WorldPhases
  <2>2. terminalOf' \in [waits : 0..MaxWorld, on : 0..MaxWorld]
    BY <1>1, <1>z DEF ContextsInv, ContextsType
  <2>3. laneOwner' \in LaneRecord /\ (laneOwner'.at # "none" => laneOwner'.w # 0)
    BY <1>2, <1>z DEF ContextsInv, ContextsType, LaneRecord, Contexts!Free
  <2>4. nextPid' \in Nat /\ pidOf' \in [Contexts!Local -> 0..nextPid']
    BY <1>1, <1>2 DEF ContextsInv, ContextsType
  <2>5. QED
    BY <1>1, <1>z, <2>1, <2>2, <2>3, <2>4 DEF ContextsInv, ContextsType
<1>4. CASE exiting
  BY <1>1, <1>3, <1>4 DEF ContextsInv, LaneHasWorld, PidsAreShown
<1>5. CASE ~exiting
  <2>0. phase \in [Contexts!World -> WorldPhases]
    BY DEF ContextsInv, ContextsType
  <2>1. w = currentWorld /\ doomed = {}
    BY <1>1, <1>5, AliveIsCurrent
  <2>2. Contexts!OneWorld'
    <3>1. \A v \in Contexts!World : phase'[v] \notin {"creating", "ready"}
      BY <1>1, <1>5, <2>0, <2>1, AliveIsCurrent
    <3>2. QED
      BY <1>1, <3>1 DEF Contexts!OneWorld
  <2>3. laneOwner'.at = "none"
    <3>1. CASE laneOwner.at = "none"
      BY <1>2, <3>1 DEF Contexts!Free
    <3>2. CASE laneOwner.at = "context"
      BY <1>2, <1>5, <2>1, <3>2 DEF ContextsInv, LaneHasWorld, Contexts!Free
    <3>3. CASE laneOwner.at \in {"hub", "running", "killed"}
      BY <1>1, <1>5, <2>1, <3>3 DEF ContextsInv, LaneHasWorld
    <3>4. QED
      BY <3>1, <3>2, <3>3 DEF ContextsInv, ContextsType, LaneRecord
  <2>4. LaneHasWorld'
    BY <1>1, <2>1, <2>2, <2>3 DEF LaneHasWorld, Contexts!Free
  <2>5. PidsAreShown'
    <3>1. \A l \in Contexts!Local : pidOf[l] = 0
      BY <1>1, <1>5, <2>1 DEF ContextsInv, PidsAreShown
    <3>2. \A l \in Contexts!Local : pidOf'[l] = 0
      BY <1>2, <3>1
    <3>3. QED
      BY <1>1, <3>2 DEF ContextsInv, PidsAreShown, Contexts!PidMeansOne
  <2>6. QED
    BY <1>3, <2>4, <2>5 DEF ContextsInv
<1>6. QED
  BY <1>4, <1>5

\* A command that has its world: the world of the lane is the one in the map and is there.
LEMMA ContextIsThere ==
    ASSUME ContextsInv, Contexts!HasContext
    PROVE  /\ laneOwner.w \in Contexts!World
           /\ ~exiting => laneOwner.w = currentWorld /\ phase[laneOwner.w] = "ready"
<1>1. laneOwner.at = "context" /\ phase[laneOwner.w] \in {"ready", "destroyed"}
  BY DEF Contexts!HasContext
<1>2. laneOwner.w \in Contexts!World /\ laneOwner.w # 0
  BY <1>1, LaneWorld DEF ContextsInv, ContextsType
<1>3. ~exiting => laneOwner.w = currentWorld
  BY <1>1 DEF ContextsInv, LaneHasWorld
<1>4. QED
  BY <1>1, <1>2, <1>3, AliveIsCurrent

\* The steps that touch neither the worlds nor the pids: a device, a process, a command that gets on.
LEMMA QuietKeeps ==
    ASSUME ContextsInv, UNCHANGED <<phase, currentWorld, doomed, taken, nextPid, pidOf, listed, exiting>>,
           terminalOf' \in [waits : 0..MaxWorld, on : 0..MaxWorld],
           processOf' \in [Contexts!World -> [Contexts!Local -> ProcessStates]],
           held' \in BOOLEAN, laneOwner' \in LaneRecord,
           laneOwner'.at # "none" => laneOwner.at # "none" /\ laneOwner'.w = laneOwner.w,
           ~exiting /\ laneOwner'.at \in {"hub", "running", "killed"} => phase[laneOwner.w] = "ready"
    PROVE  ContextsInv'
<1>1. ContextsType'
  BY DEF ContextsInv, ContextsType
<1>2. LaneHasWorld'
  <2> SUFFICES ASSUME ~exiting
               PROVE /\ doomed = {} /\ Contexts!OneWorld'
                     /\ laneOwner'.at # "none" => laneOwner'.w = currentWorld
                     /\ laneOwner'.at \in {"hub", "running", "killed"} => phase[laneOwner'.w] = "ready"
    BY DEF LaneHasWorld
  <2>1. Contexts!OneWorld' /\ doomed = {}
    BY DEF ContextsInv, LaneHasWorld, Contexts!OneWorld
  <2>2. laneOwner'.at # "none" => laneOwner'.w = currentWorld
    BY DEF ContextsInv, LaneHasWorld
  <2>3. laneOwner'.at \in {"hub", "running", "killed"} => phase[laneOwner'.w] = "ready"
    OBVIOUS
  <2>4. QED
    BY <2>1, <2>2, <2>3
<1>3. PidsAreShown'
  BY PidsStay DEF ContextsInv
<1>4. QED
  BY <1>1, <1>2, <1>3 DEF ContextsInv

\* What the type says of the parts a step leaves alone.
LEMMA QuietParts ==
    ContextsInv => /\ terminalOf \in [waits : 0..MaxWorld, on : 0..MaxWorld]
                   /\ processOf \in [Contexts!World -> [Contexts!Local -> ProcessStates]]
                   /\ held \in BOOLEAN /\ laneOwner \in LaneRecord /\ currentWorld \in 0..MaxWorld
                   /\ ~exiting /\ laneOwner.at \in {"hub", "running", "killed"} => phase[laneOwner.w] = "ready"
BY DEF ContextsInv, ContextsType, LaneHasWorld

\* The device of the terminal comes and goes.
LEMMA DeviceKeeps == ContextsInv /\ (Contexts!Attached \/ Contexts!Detach) => ContextsInv'
<1> SUFFICES ASSUME ContextsInv, Contexts!Attached \/ Contexts!Detach PROVE ContextsInv'
  OBVIOUS
<1>0. MaxWorld \in Nat
  BY BoundsAssumption
<1>z. 0 \in 0..MaxWorld
  BY <1>0
<1>1. /\ UNCHANGED <<phase, currentWorld, doomed, taken, nextPid, pidOf, listed, exiting>>
      /\ UNCHANGED <<laneOwner, processOf, held>>
  BY DEF Contexts!Attached, Contexts!Detach, Contexts!pidVars
<1>2. terminalOf' \in [waits : 0..MaxWorld, on : 0..MaxWorld]
  BY <1>z, QuietParts DEF Contexts!Attached, Contexts!Detach
<1>3. QED
  BY <1>1, <1>2, QuietParts, QuietKeeps

\* Processes start and end, or one is killed.
LEMMA ProcessesKeep ==
    ContextsInv /\ ((\E w \in Contexts!World : Contexts!ProcessStarts(w))
                    \/ (\E w \in Contexts!World, l \in Contexts!Local : Contexts!ProcessEnds(w, l))) => ContextsInv'
<1>0. ASSUME NEW w \in Contexts!World, NEW l \in Contexts!Local, NEW st \in ProcessStates, ContextsInv,
             processOf' = [processOf EXCEPT ![w][l] = st],
             UNCHANGED <<phase, currentWorld, doomed, taken, nextPid, pidOf, listed, exiting>>,
             UNCHANGED <<laneOwner, terminalOf, held>>
      PROVE  ContextsInv'
  <2>1. processOf' \in [Contexts!World -> [Contexts!Local -> ProcessStates]]
    BY <1>0, QuietParts
  <2>2. QED
    BY <1>0, <2>1, QuietParts, QuietKeeps
<1>1. ASSUME ContextsInv, NEW w \in Contexts!World, Contexts!ProcessStarts(w) PROVE ContextsInv'
  <2>1. PICK l \in Contexts!Local : processOf' = [processOf EXCEPT ![w][l] = "running"]
    BY <1>1 DEF Contexts!ProcessStarts
  <2>2. /\ UNCHANGED <<phase, currentWorld, doomed, taken, nextPid, pidOf, listed, exiting>>
        /\ UNCHANGED <<laneOwner, terminalOf, held>>
    BY <1>1 DEF Contexts!ProcessStarts, Contexts!pidVars
  <2>3. "running" \in ProcessStates
    BY DEF ProcessStates
  <2>4. QED
    BY <1>0, <1>1, <2>1, <2>2, <2>3
<1>2. ASSUME ContextsInv, NEW w \in Contexts!World, NEW l \in Contexts!Local, Contexts!ProcessEnds(w, l)
      PROVE  ContextsInv'
  <2>1. /\ UNCHANGED <<phase, currentWorld, doomed, taken, nextPid, pidOf, listed, exiting>>
        /\ UNCHANGED <<laneOwner, terminalOf, held>>
    BY <1>2 DEF Contexts!ProcessEnds, Contexts!pidVars
  <2>2. processOf' = [processOf EXCEPT ![w][l] = IF processOf[w][l] = "running" THEN "exited" ELSE "gone"]
    BY <1>2, QuietParts DEF Contexts!ProcessEnds
  <2>3. (IF processOf[w][l] = "running" THEN "exited" ELSE "gone") \in ProcessStates
    BY DEF ProcessStates
  <2>4. QED
    BY <1>0, <1>2, <2>1, <2>2, <2>3
<1>3. QED
  BY <1>1, <1>2

\* The lane without a command is a lane.
LEMMA FreeIsLane == Contexts!Free \in LaneRecord /\ Contexts!Free.at = "none"
<1>0. MaxWorld \in Nat
  BY BoundsAssumption
<1>z. 0 \in 0..MaxWorld
  BY <1>0
<1>1. QED
  BY <1>z DEF Contexts!Free, LaneRecord

\* A kill names a public pid that was shown.
LEMMA KillKeeps == \A seen \in listed : ContextsInv /\ Contexts!Kill(seen) => ContextsInv'
<1> SUFFICES ASSUME NEW seen \in listed, ContextsInv, Contexts!Kill(seen) PROVE ContextsInv'
  OBVIOUS
<1>1. /\ UNCHANGED <<phase, currentWorld, doomed, taken, nextPid, pidOf, listed, exiting>>
      /\ UNCHANGED <<terminalOf, held>> /\ laneOwner' = Contexts!Free /\ Contexts!HasContext
  BY DEF Contexts!Kill, Contexts!pidVars, Contexts!Answer
<1>2. laneOwner.w \in Contexts!World
  BY <1>1, ContextIsThere
<1> DEFINE after == [l \in Contexts!Local |-> IF pidOf[l] = seen.pid /\ processOf[laneOwner.w][l] = "running" THEN "exited"
                                              ELSE processOf[laneOwner.w][l]]
<1>3. processOf' = [processOf EXCEPT ![laneOwner.w] = after]
  BY <1>2, QuietParts DEF Contexts!Kill
<1>4. after \in [Contexts!Local -> ProcessStates]
  BY <1>2, QuietParts DEF ProcessStates
<1> HIDE DEF after
<1>5. processOf' \in [Contexts!World -> [Contexts!Local -> ProcessStates]]
  BY <1>3, <1>4, QuietParts
<1>6. QED
  BY <1>1, <1>5, FreeIsLane, QuietParts, QuietKeeps

\* A run gets its turn, runs, and ends.
LEMMA RunKeeps ==
    ContextsInv /\ (Contexts!RunBegins \/ Contexts!RunRuns \/ Contexts!RunEnds \/ Contexts!Interrupt) => ContextsInv'
<1>1. ASSUME ContextsInv, Contexts!RunBegins PROVE ContextsInv'
  <2>1. /\ UNCHANGED <<phase, currentWorld, doomed, taken, nextPid, pidOf, listed, exiting>>
        /\ UNCHANGED <<terminalOf, processOf>> /\ held' = TRUE /\ laneOwner' = [laneOwner EXCEPT !.at = "hub"]
        /\ Contexts!HasContext
    BY <1>1 DEF Contexts!RunBegins, Contexts!pidVars
  <2>2. laneOwner' \in LaneRecord /\ laneOwner'.w = laneOwner.w /\ laneOwner.at # "none"
    BY <1>1, <2>1, QuietParts DEF LaneRecord, Contexts!HasContext
  <2>3. ~exiting => phase[laneOwner.w] = "ready"
    BY <1>1, <2>1, ContextIsThere
  <2>4. QED
    BY <1>1, <2>1, <2>2, <2>3, QuietParts, QuietKeeps
<1>2. ASSUME ContextsInv, Contexts!RunRuns PROVE ContextsInv'
  <2>1. /\ UNCHANGED <<phase, currentWorld, doomed, taken, nextPid, pidOf, listed, exiting>>
        /\ UNCHANGED <<terminalOf, processOf, held>> /\ laneOwner' = [laneOwner EXCEPT !.at = "running"]
        /\ laneOwner.at = "hub"
    BY <1>2 DEF Contexts!RunRuns, Contexts!pidVars
  <2>2. laneOwner' \in LaneRecord /\ laneOwner'.w = laneOwner.w
    BY <1>2, <2>1, QuietParts DEF LaneRecord
  <2>3. ~exiting => phase[laneOwner.w] = "ready"
    BY <1>2, <2>1, QuietParts
  <2>4. QED
    BY <1>2, <2>1, <2>2, <2>3, QuietParts, QuietKeeps
<1>3. ASSUME ContextsInv, Contexts!RunEnds PROVE ContextsInv'
  <2>1. /\ UNCHANGED <<phase, currentWorld, doomed, taken, nextPid, pidOf, listed, exiting>>
        /\ UNCHANGED <<terminalOf, processOf>> /\ held' = FALSE /\ laneOwner' = Contexts!Free
    BY <1>3 DEF Contexts!RunEnds, Contexts!pidVars, Contexts!Answer
  <2>2. QED
    BY <1>3, <2>1, FreeIsLane, QuietParts, QuietKeeps
<1>4. QED
  BY <1>1, <1>2, <1>3 DEF Contexts!Interrupt

\* The lane takes a command: a run gets a world, the others the one there is.
LEMMA TakeKeeps ==
    \A o \in {"run", "ps", "kill", "reset"}, w \in 0..MaxWorld : ContextsInv /\ Contexts!Take(o, w) => ContextsInv'
<1> SUFFICES ASSUME NEW o \in {"run", "ps", "kill", "reset"}, NEW w \in 0..MaxWorld, ContextsInv, Contexts!Take(o, w)
             PROVE  ContextsInv'
  OBVIOUS
<1>1. /\ laneOwner.at = "none" /\ taken' \in 0..MaxContextCommand
      /\ UNCHANGED <<doomed, held, controller, terminalOf, processOf, nextPid, listed, exiting>>
  <2>1. laneOwner = Contexts!Free /\ taken < MaxContextCommand /\ taken' = taken + 1
    BY DEF Contexts!Take
  <2>2. MaxContextCommand \in Nat
    BY BoundsAssumption
  <2>3. taken' \in 0..MaxContextCommand
    BY <2>1, <2>2 DEF ContextsInv, ContextsType
  <2>4. QED
    BY <2>1, <2>3 DEF Contexts!Take, Contexts!Free
<1>0. MaxWorld \in Nat
  BY BoundsAssumption
<1>2. CASE /\ Contexts!Ensure(w) /\ laneOwner' = [op |-> "run", at |-> "context", w |-> w] /\ pidOf' = pidOf
  <2>1. /\ w \in Contexts!World /\ w # 0 /\ currentWorld' = w /\ phase' \in [Contexts!World -> WorldPhases]
        /\ Contexts!OneWorld => Contexts!OneWorld'
        /\ currentWorld # 0 => UNCHANGED <<phase, currentWorld>>
    BY <1>1, <1>2, EnsureKeeps DEF ContextsInv
  <2>2. ContextsType'
    BY <1>1, <1>2, <2>1 DEF ContextsInv, ContextsType, LaneRecord
  <2>3. LaneHasWorld'
    BY <1>1, <1>2, <2>1 DEF ContextsInv, LaneHasWorld
  <2>4. PidsAreShown'
    <3>1. CASE currentWorld = 0
      BY <1>1, <1>2, <3>1 DEF ContextsInv, PidsAreShown, Contexts!PidMeansOne
    <3>2. CASE currentWorld # 0
      BY <1>1, <1>2, <2>1, <3>2, PidsStay DEF ContextsInv
    <3>3. QED
      BY <3>1, <3>2
  <2>5. QED
    BY <2>2, <2>3, <2>4 DEF ContextsInv
<1>3. CASE /\ w = currentWorld /\ w # 0 /\ laneOwner' = [op |-> o, at |-> "context", w |-> w]
           /\ UNCHANGED <<phase, currentWorld, pidOf>>
  <2>1. ContextsType'
    BY <1>1, <1>3 DEF ContextsInv, ContextsType, LaneRecord
  <2>2. LaneHasWorld'
    BY <1>1, <1>3 DEF ContextsInv, LaneHasWorld, Contexts!OneWorld
  <2>3. PidsAreShown'
    BY <1>1, <1>3, PidsStay DEF ContextsInv
  <2>4. QED
    BY <2>1, <2>2, <2>3 DEF ContextsInv
<1>4. CASE /\ w = currentWorld /\ w = 0 /\ pidOf' \in {pidOf, [l \in Contexts!Local |-> 0]}
           /\ UNCHANGED <<phase, currentWorld, laneOwner>>
  <2>1. nextPid' \in Nat /\ pidOf' \in [Contexts!Local -> 0..nextPid']
    BY <1>1, <1>4 DEF ContextsInv, ContextsType
  <2>2. ContextsType'
    BY <1>1, <1>4, <2>1 DEF ContextsInv, ContextsType
  <2>3. LaneHasWorld'
    BY <1>1, <1>4 DEF ContextsInv, LaneHasWorld, Contexts!OneWorld
  <2>4. ~exiting => \A l \in Contexts!Local : pidOf[l] = 0
    BY <1>4 DEF ContextsInv, PidsAreShown
  <2>5. ~exiting => \A l \in Contexts!Local : pidOf'[l] = 0
    BY <1>4, <2>4
  <2>6. PidsAreShown'
    BY <1>1, <2>5 DEF ContextsInv, PidsAreShown, Contexts!PidMeansOne
  <2>7. QED
    BY <2>2, <2>3, <2>6 DEF ContextsInv
<1>5. QED
  <2>1. \/ o = "run" /\ Contexts!Ensure(w) /\ laneOwner' = [op |-> o, at |-> "context", w |-> w] /\ pidOf' = pidOf
        \/ /\ w = currentWorld /\ w # 0 /\ laneOwner' = [op |-> o, at |-> "context", w |-> w]
           /\ UNCHANGED <<phase, currentWorld, pidOf>>
        \/ /\ w = currentWorld /\ w = 0 /\ Contexts!NoWorld(o) /\ UNCHANGED <<phase, currentWorld, laneOwner>>
    BY DEF Contexts!Take
  <2>2. Contexts!NoWorld(o) => pidOf' \in {pidOf, [l \in Contexts!Local |-> 0]}
    BY DEF Contexts!NoWorld
  <2>3. QED
    BY <1>2, <1>3, <1>4, <2>1, <2>2

\* A view of the world of the lane, by ps or by a reset that then kills what is listed.
LEMMA ViewKeeps ==
    ASSUME ContextsInv, Contexts!HasContext, Contexts!Project(laneOwner.w),
           UNCHANGED <<phase, currentWorld, doomed, taken, terminalOf, held, exiting>>,
           processOf' \in [Contexts!World -> [Contexts!Local -> ProcessStates]],
           laneOwner' \in LaneRecord,
           laneOwner'.at # "none" => laneOwner'.w = laneOwner.w
    PROVE  ContextsInv'
<1>1. laneOwner.w \in Contexts!World /\ (~exiting => laneOwner.w = currentWorld /\ phase[laneOwner.w] = "ready")
  BY ContextIsThere
<1>2. laneOwner.at = "context" /\ laneOwner.w # 0
  BY DEF ContextsInv, ContextsType, Contexts!HasContext
<1>3. /\ nextPid' \in Nat /\ pidOf' \in [Contexts!Local -> 0..nextPid'] /\ listed' \subseteq ShownRecord
      /\ PidsAreShown /\ ~exiting /\ laneOwner.w = currentWorld /\ phase[laneOwner.w] = "ready"
         => /\ \A s \in listed' : s.pid \in 1..nextPid'
            /\ \A l \in Contexts!Local : pidOf'[l] # 0
                                         => [pid |-> pidOf'[l], w |-> laneOwner.w, l |-> l] \in listed'
            /\ \A s, t \in listed' : s.pid = t.pid => s = t
  BY <1>1, ProjectKeeps DEF ContextsInv
<1>4. ContextsType'
  BY <1>2, <1>3 DEF ContextsInv, ContextsType
<1>5. LaneHasWorld'
  <2> SUFFICES ASSUME ~exiting
               PROVE /\ doomed = {} /\ Contexts!OneWorld'
                     /\ laneOwner'.at # "none" => laneOwner'.w = currentWorld
                     /\ laneOwner'.at \in {"hub", "running", "killed"} => phase[laneOwner'.w] = "ready"
    BY DEF LaneHasWorld
  <2>1. Contexts!OneWorld' /\ doomed = {}
    BY DEF ContextsInv, LaneHasWorld, Contexts!OneWorld
  <2>2. QED
    BY <1>1, <2>1
<1>6. PidsAreShown'
  <2> SUFFICES ASSUME ~exiting
               PROVE /\ \A s \in listed' : s.pid \in 1..nextPid'
                     /\ \A l \in Contexts!Local : pidOf'[l] # 0 =>
                           /\ currentWorld # 0 /\ phase[currentWorld] = "ready"
                           /\ [pid |-> pidOf'[l], w |-> currentWorld, l |-> l] \in listed'
                     /\ \A s, t \in listed' : s.pid = t.pid => s = t
    BY DEF PidsAreShown, Contexts!PidMeansOne
  <2>1. laneOwner.w = currentWorld /\ currentWorld # 0 /\ phase[currentWorld] = "ready"
    BY <1>1, <1>2
  <2>2. /\ \A s \in listed' : s.pid \in 1..nextPid'
        /\ \A l \in Contexts!Local : pidOf'[l] # 0 => [pid |-> pidOf'[l], w |-> laneOwner.w, l |-> l] \in listed'
        /\ \A s, t \in listed' : s.pid = t.pid => s = t
    BY <1>1, <1>3 DEF ContextsInv
  <2>3. QED
    BY <2>1, <2>2
<1>7. QED
  BY <1>4, <1>5, <1>6 DEF ContextsInv

\* The view of ps, and the kills of a reset, which begin with the same view.
LEMMA PsKeeps == ContextsInv /\ (Contexts!Ps \/ Contexts!ResetKills) => ContextsInv'
<1>1. ASSUME ContextsInv, Contexts!Ps PROVE ContextsInv'
  <2>1. /\ Contexts!HasContext /\ Contexts!Project(laneOwner.w)
        /\ UNCHANGED <<phase, currentWorld, doomed, taken, terminalOf, held, exiting>>
        /\ processOf' = processOf /\ laneOwner' = Contexts!Free
    BY <1>1 DEF Contexts!Ps, Contexts!Answer
  <2>2. QED
    BY <1>1, <2>1, FreeIsLane, QuietParts, ViewKeeps
<1>2. ASSUME ContextsInv, Contexts!ResetKills PROVE ContextsInv'
  <2>1. /\ Contexts!HasContext /\ Contexts!Project(laneOwner.w)
        /\ UNCHANGED <<phase, currentWorld, doomed, taken, terminalOf, held, exiting>>
        /\ processOf' = Contexts!Cleaned(laneOwner.w, processOf) /\ laneOwner' = [laneOwner EXCEPT !.at = "killed"]
    BY <1>2 DEF Contexts!ResetKills
  <2>2. processOf' \in [Contexts!World -> [Contexts!Local -> ProcessStates]]
    BY <1>2, <2>1, QuietParts, ContextIsThere, CleanedKeeps
  <2>3. laneOwner' \in LaneRecord /\ laneOwner'.w = laneOwner.w
    BY <1>2, <2>1, QuietParts DEF LaneRecord
  <2>4. QED
    BY <1>2, <2>1, <2>2, <2>3, ViewKeeps
<1>3. QED
  BY <1>1, <1>2

\* What a reset or an exit throws away: the map is empty, the world destroyed or to be destroyed, the pids forgotten.
LEMMA ThrownAwayKeeps ==
    ASSUME ContextsInv, Contexts!ThrownAway
    PROVE  /\ phase' \in [Contexts!World -> WorldPhases] /\ currentWorld' = 0 /\ doomed' \subseteq Contexts!World
           /\ processOf' \in [Contexts!World -> [Contexts!Local -> ProcessStates]] /\ held' \in BOOLEAN
           /\ nextPid' = nextPid /\ listed' = listed /\ pidOf' = [l \in Contexts!Local |-> 0]
           /\ ~exiting /\ (currentWorld # 0 => phase[currentWorld] = "ready")
              => doomed' = {} /\ \A v \in Contexts!World : phase'[v] \notin {"creating", "ready"}
<1>0. MaxWorld \in Nat
  BY BoundsAssumption
<1>1. currentWorld # 0 => currentWorld \in Contexts!World
  BY <1>0 DEF ContextsInv, ContextsType, Contexts!World
<1>2. /\ currentWorld' = 0 /\ held' = FALSE /\ UNCHANGED <<nextPid, listed>>
      /\ pidOf' = [l \in Contexts!Local |-> 0]
      /\ doomed' = IF currentWorld # 0 /\ phase[currentWorld] = "creating" THEN doomed \cup {currentWorld} ELSE doomed
  BY DEF Contexts!ThrownAway, Contexts!Drop, Contexts!Forget
<1>3. \/ /\ currentWorld # 0 /\ phase[currentWorld] = "ready"
         /\ phase' = [phase EXCEPT ![currentWorld] = "destroyed"]
         /\ processOf' = Contexts!Cleaned(currentWorld, processOf)
      \/ ~(currentWorld # 0 /\ phase[currentWorld] = "ready") /\ UNCHANGED <<phase, processOf>>
  BY DEF Contexts!ThrownAway
<1>4. doomed' \subseteq Contexts!World
  BY <1>1, <1>2 DEF ContextsInv, ContextsType
<1>5. /\ phase \in [Contexts!World -> WorldPhases]
      /\ processOf \in [Contexts!World -> [Contexts!Local -> ProcessStates]]
  BY DEF ContextsInv, ContextsType
<1>6. phase' \in [Contexts!World -> WorldPhases]
  BY <1>3, <1>5 DEF WorldPhases
<1>7. processOf' \in [Contexts!World -> [Contexts!Local -> ProcessStates]]
  BY <1>1, <1>3, <1>5, CleanedKeeps
<1>8. ASSUME ~exiting, currentWorld # 0 => phase[currentWorld] = "ready"
      PROVE  doomed' = {} /\ \A v \in Contexts!World : phase'[v] \notin {"creating", "ready"}
  <2>1. /\ doomed = {}
        /\ \A v \in Contexts!World : phase[v] \in {"creating", "ready"} => v = currentWorld
    BY <1>8, AliveIsCurrent
  <2>2. CASE currentWorld = 0
    BY <1>0, <1>2, <1>3, <2>1, <2>2 DEF Contexts!World
  <2>3. CASE currentWorld # 0
    BY <1>1, <1>2, <1>3, <1>5, <1>8, <2>1, <2>3
  <2>4. QED
    BY <2>2, <2>3
<1>9. held' \in BOOLEAN
  BY <1>2
<1>10. QED
  BY <1>2, <1>4, <1>6, <1>7, <1>8, <1>9

\* A reset drops the world before anything is awaited.
LEMMA ResetKeeps == ContextsInv /\ Contexts!Reset => ContextsInv'
<1> SUFFICES ASSUME ContextsInv, Contexts!Reset PROVE ContextsInv'
  OBVIOUS
<1>1. /\ laneOwner.at = "killed" /\ Contexts!ThrownAway /\ laneOwner' = Contexts!Free
      /\ UNCHANGED <<taken, terminalOf, exiting>>
  BY DEF Contexts!Reset, Contexts!Answer
<1>0. MaxWorld \in Nat
  BY BoundsAssumption
<1>z. 0 \in 0..MaxWorld
  BY <1>0
<1>2. /\ phase' \in [Contexts!World -> WorldPhases] /\ currentWorld' = 0 /\ doomed' \subseteq Contexts!World
      /\ processOf' \in [Contexts!World -> [Contexts!Local -> ProcessStates]] /\ held' \in BOOLEAN
      /\ nextPid' = nextPid /\ listed' = listed /\ pidOf' = [l \in Contexts!Local |-> 0]
  BY <1>1, ThrownAwayKeeps
<1>3. ~exiting => doomed' = {} /\ \A v \in Contexts!World : phase'[v] \notin {"creating", "ready"}
  <2>1. ~exiting => phase[laneOwner.w] = "ready" /\ laneOwner.w = currentWorld
    BY <1>1 DEF ContextsInv, LaneHasWorld
  <2>2. QED
    BY <1>1, <2>1, ThrownAwayKeeps
<1>4. ContextsType'
  <2>1. nextPid' \in Nat /\ pidOf' \in [Contexts!Local -> 0..nextPid']
    BY <1>2 DEF ContextsInv, ContextsType
  <2>2. QED
    BY <1>1, <1>2, <1>z, <2>1, FreeIsLane DEF ContextsInv, ContextsType
<1>5. LaneHasWorld'
  BY <1>1, <1>2, <1>3, FreeIsLane DEF LaneHasWorld, Contexts!OneWorld
<1>6. PidsAreShown'
  BY <1>1, <1>2 DEF ContextsInv, PidsAreShown, Contexts!PidMeansOne
<1>7. QED
  BY <1>4, <1>5, <1>6 DEF ContextsInv

\* The exit of the host drops it in the same way.
LEMMA ExitKeeps == ContextsInv /\ Contexts!Exit => ContextsInv'
<1> SUFFICES ASSUME ContextsInv, Contexts!Exit PROVE ContextsInv'
  OBVIOUS
<1>1. exiting' = TRUE /\ Contexts!ThrownAway /\ UNCHANGED <<laneOwner, taken, terminalOf>>
  BY DEF Contexts!Exit
<1>0. MaxWorld \in Nat
  BY BoundsAssumption
<1>z. 0 \in 0..MaxWorld
  BY <1>0
<1>2. /\ phase' \in [Contexts!World -> WorldPhases] /\ currentWorld' = 0 /\ doomed' \subseteq Contexts!World
      /\ processOf' \in [Contexts!World -> [Contexts!Local -> ProcessStates]] /\ held' \in BOOLEAN
      /\ nextPid' = nextPid /\ listed' = listed /\ pidOf' = [l \in Contexts!Local |-> 0]
  BY <1>1, ThrownAwayKeeps
<1>3. ContextsType'
  <2>1. nextPid' \in Nat /\ pidOf' \in [Contexts!Local -> 0..nextPid']
    BY <1>2 DEF ContextsInv, ContextsType
  <2>2. QED
    BY <1>1, <1>2, <1>z, <2>1 DEF ContextsInv, ContextsType
<1>4. QED
  BY <1>1, <1>3 DEF ContextsInv, LaneHasWorld, PidsAreShown

\* Every step of the part.
LEMMA ContextsStep == ContextsInv /\ Contexts!Next => ContextsInv'
BY PrewarmKeeps, AttachKeeps, CreatedKeeps, CreationFailsKeeps, DeviceKeeps, ProcessesKeep, KillKeeps, RunKeeps,
   TakeKeeps, PsKeeps, ResetKeeps, ExitKeeps DEF Contexts!Next

\* A step of another part changes nothing here.
LEMMA ContextsStay == ContextsInv /\ UNCHANGED contextsVars => ContextsInv'
<1> SUFFICES ASSUME ContextsInv, UNCHANGED contextsVars PROVE ContextsInv'
  OBVIOUS
<1>1. /\ UNCHANGED <<phase, currentWorld, doomed, taken, nextPid, pidOf, listed, exiting>>
      /\ UNCHANGED <<terminalOf, processOf, held, laneOwner>>
  BY DEF contextsVars
<1>2. QED
  BY <1>1, QuietParts, QuietKeeps

\* A step of the program is one of the host's world or leaves it alone.
LEMMA ContextsInFocus == [Next]_allVars => Contexts!Next \/ UNCHANGED contextsVars
BY DEF Next, Still, allVars

\* One world of an instance is alive, and a public pid never comes to mean another process (run.ts:210,
\* process-world.ts:76): the property that the run checks, whatever the bounds are.
THEOREM ContextsAreKept == Spec => []ContextsKept
<1>1. Init => ContextsInv
  BY ContextsStart DEF Init
<1>2. ContextsInv /\ [Next]_allVars => ContextsInv'
  BY ContextsInFocus, ContextsStep, ContextsStay
<1>3. ContextsInv => ContextsKept
  <2>1. ContextsInv => Contexts!TypeOK
    BY DEF ContextsInv, ContextsType, Contexts!TypeOK, WorldPhases, LaneRecord
  <2>2. ContextsInv => Contexts!OneWorld /\ Contexts!PidMeansOne
    BY DEF ContextsInv, LaneHasWorld, PidsAreShown, Contexts!OneWorld, Contexts!PidMeansOne
  <2>3. QED
    BY <2>1, <2>2 DEF ContextsKept
<1>4. QED
  BY <1>1, <1>2, <1>3, PTL DEF Spec

-----------------------------------------------------------------------------
(* Packages of two sources (Packages).                                     *)

JobRecord == [at : {"none", "probe", "command", "done"}, op : {"none", "install", "remove"},
              name : AnyPackage \union {CHOOSE p \in AnyPackage : TRUE}, source : PackageWorld!Source]

\* A job that has begun is about a package.
PackagesType ==
    /\ PackageWorld!TypeOK
    /\ job \in [PackageWorld!Actor -> JobRecord] /\ jobs \in [PackageWorld!Actor -> Nat]
    /\ \A a \in PackageWorld!Actor : job[a].at # "none" => job[a].name \in AnyPackage /\ job[a].op # "none"

PackagesInv == PackagesType /\ PackageWorld!RecordedIsThere

\* Nobody has a job at first, nothing is installed and nothing recorded.
LEMMA PackagesStart == PackageWorld!Init => PackagesInv
<1> SUFFICES ASSUME PackageWorld!Init PROVE PackagesInv
  OBVIOUS
<1>1. PackageWorld!None \in JobRecord /\ PackageWorld!None.at = "none"
  BY DEF PackageWorld!None, JobRecord, PackageWorld!Source
<1>2. /\ job \in [PackageWorld!Actor -> JobRecord] /\ jobs \in [PackageWorld!Actor -> Nat]
      /\ \A a \in PackageWorld!Actor : job[a].at = "none" /\ jobs[a] \in 0..MaxJob
  <2>1. job \in [PackageWorld!Actor -> JobRecord] /\ \A a \in PackageWorld!Actor : job[a].at = "none"
    BY <1>1 DEF PackageWorld!Init
  <2>2. MaxJob \in Nat
    BY BoundsAssumption
  <2>3. jobs \in [PackageWorld!Actor -> Nat] /\ \A a \in PackageWorld!Actor : jobs[a] \in 0..MaxJob
    BY <2>2 DEF PackageWorld!Init
  <2>4. QED
    BY <2>1, <2>3
<1>3. QED
  BY <1>2 DEF PackageWorld!Init, PackagesInv, PackagesType, PackageWorld!TypeOK, PackageWorld!RecordedIsThere,
              PackageWorld!Missing

\* What the job of an actor becomes.
PackageJobTo(a, j) == job' = [job EXCEPT ![a] = j]

\* A record of a job stays one when it goes on, with the source it has found.
LEMMA JobRecordKept ==
    \A r \in JobRecord :
        /\ \A where \in {"none", "probe", "command", "done"} : [r EXCEPT !.at = where] \in JobRecord
        /\ \A source \in PackageWorld!Source : [r EXCEPT !.at = "command", !.source = source] \in JobRecord
BY DEF JobRecord

\* Steps that change the job of one actor: it begins, goes on with the same package, or is over.
PackageStep(a) ==
    \/ \E where \in {"probe", "command", "done"}, o \in {"install", "remove"}, p \in AnyPackage, source \in PackageWorld!Source :
          /\ PackageWorld!Begin(a, where, o, p, source)
          /\ where = "done" => o = "install"
    \/ /\ job[a].at = "probe" /\ UNCHANGED <<payload, packageJson, jobs>>
       /\ \/ \E source \in PackageWorld!Source : PackageJobTo(a, [job[a] EXCEPT !.at = "command", !.source = source])
          \/ PackageJobTo(a, PackageWorld!None)
    \/ PackageWorld!CommandMoves(a) \/ PackageWorld!CommandFails(a) \/ PackageWorld!CommandEnds(a)

\* Every step of the packages is one of these.
LEMMA PackageSteps == PackagesType /\ PackageWorld!Next => \E a \in PackageWorld!Actor : PackageStep(a)
<1> SUFFICES ASSUME PackagesType, PackageWorld!Next PROVE \E a \in PackageWorld!Actor : PackageStep(a)
  OBVIOUS
<1>0. "page" \in PackageWorld!Actor /\ "shell" \in PackageWorld!Actor /\ "plugin" \in PackageWorld!Actor
      /\ "lifo" \in PackageWorld!Source /\ "npm" \in PackageWorld!Source
  BY DEF PackageWorld!Actor, PackageWorld!Source
<1>1. ASSUME NEW p \in AnyPackage, PackageWorld!PkgInstall(p) \/ PackageWorld!PkgRemove(p) PROVE PackageStep("page")
  BY <1>0, <1>1 DEF PackageWorld!PkgInstall, PackageWorld!PkgRemove, PackageStep
<1>2. ASSUME NEW p \in AnyPackage, NEW source \in PackageWorld!Source, PackageWorld!Reconcile(p, source) PROVE PackageStep("plugin")
  BY <1>0, <1>2 DEF PackageWorld!Reconcile, PackageStep
<1>3. ASSUME NEW p \in AnyPackage, NEW o \in {"install", "remove"},
             PackageWorld!LifoCommand(o, p) \/ PackageWorld!NpmCommand(o, p)
      PROVE  PackageStep("shell")
  BY <1>0, <1>3 DEF PackageWorld!LifoCommand, PackageWorld!NpmCommand, PackageStep
<1>4. ASSUME NEW reached \in BOOLEAN, PackageWorld!Detect(reached) PROVE PackageStep("page")
  <2>1. PICK source \in PackageWorld!Source :
           /\ job["page"].at = "probe" /\ UNCHANGED <<payload, packageJson, jobs>>
           /\ PackageJobTo("page", [job["page"] EXCEPT !.at = "command", !.source = source])
    BY <1>0, <1>4 DEF PackageWorld!Detect, PackagesType, PackageJobTo
  <2>2. QED
    BY <2>1 DEF PackageStep
<1>5. ASSUME NEW reached \in BOOLEAN, PackageWorld!FindInstalled(reached) PROVE PackageStep("page")
  <2>1. PackageWorld!SourceShown(job["page"].name, reached) \in PackageWorld!Source
    BY <1>0 DEF PackageWorld!SourceShown
  <2>2. QED
    BY <1>5, <2>1 DEF PackageWorld!FindInstalled, PackageStep, PackageJobTo
<1>6. ASSUME NEW a \in PackageWorld!Actor, PackageWorld!CommandMoves(a) \/ PackageWorld!CommandFails(a) \/ PackageWorld!CommandEnds(a)
      PROVE  PackageStep(a)
  BY <1>6 DEF PackageStep
<1>7. QED
  BY <1>0, <1>1, <1>2, <1>3, <1>4, <1>5, <1>6 DEF PackageWorld!Next

\* Each of them keeps the invariant: only a removal that is done takes the payload of an entry before the entry itself.
LEMMA PackagesStep == PackagesInv /\ PackageWorld!Next => PackagesInv'
<1> SUFFICES ASSUME PackagesInv, PackageWorld!Next PROVE PackagesInv'
  OBVIOUS
<1>0. PICK a \in PackageWorld!Actor : PackageStep(a)
  BY PackageSteps DEF PackagesInv
<1>1. job[a] \in JobRecord /\ job \in [PackageWorld!Actor -> JobRecord] /\ jobs \in [PackageWorld!Actor -> Nat]
      /\ payload \subseteq PackageWorld!Entry /\ packageJson \subseteq PackageWorld!Entry
      /\ \A b \in PackageWorld!Actor : job[b].at # "none" => job[b].name \in AnyPackage /\ job[b].op # "none"
  BY DEF PackagesInv, PackagesType, PackageWorld!TypeOK
<1>2. job[a].at # "none" => PackageWorld!Of(a) \in PackageWorld!Entry
  BY <1>1 DEF PackageWorld!Of, PackageWorld!Entry, JobRecord
\* What holds of the new state follows from what happens to the job of a.
<1>3. ASSUME NEW r \in JobRecord, job' = [job EXCEPT ![a] = r], r.at # "none" => r.name \in AnyPackage /\ r.op # "none",
             payload' \subseteq PackageWorld!Entry, packageJson' \subseteq PackageWorld!Entry,
             jobs' \in [PackageWorld!Actor -> Nat], \A b \in PackageWorld!Actor : jobs'[b] \in 0..MaxJob,
             \A entry \in packageJson' \ payload' :
                \/ r.at = "done" /\ r.op = "remove" /\ <<r.name, r.source>> = entry
                \/ /\ entry \in packageJson \ payload
                   /\ ~(job[a].at = "done" /\ job[a].op = "remove" /\ PackageWorld!Of(a) = entry)
      PROVE  PackagesInv'
  <2>1. PackagesType'
    <3>1. \A b \in PackageWorld!Actor : job'[b] \in JobRecord
      BY <1>1, <1>3
    <3>2. \A b \in PackageWorld!Actor : job'[b].at \in {"none", "probe", "command", "done"}
      BY <3>1 DEF JobRecord
    <3>3. QED
      BY <1>1, <1>3, <3>2 DEF PackagesType, PackageWorld!TypeOK
  <2>2. ASSUME NEW entry \in packageJson' \ payload'
        PROVE  \E b \in PackageWorld!Actor : job'[b].at = "done" /\ job'[b].op = "remove" /\ PackageWorld!Of(b)' = entry
    <3>1. CASE r.at = "done" /\ r.op = "remove" /\ <<r.name, r.source>> = entry
      BY <1>1, <1>3, <3>1 DEF PackageWorld!Of
    <3>2. CASE /\ entry \in packageJson \ payload
               /\ ~(job[a].at = "done" /\ job[a].op = "remove" /\ PackageWorld!Of(a) = entry)
      <4>1. PICK b \in PackageWorld!Actor : job[b].at = "done" /\ job[b].op = "remove" /\ PackageWorld!Of(b) = entry
        BY <3>2 DEF PackagesInv, PackageWorld!RecordedIsThere, PackageWorld!Missing, PackageWorld!HasDigest
      <4>2. b # a
        BY <3>2, <4>1
      <4>3. job'[b] = job[b]
        BY <1>1, <1>3, <4>2
      <4>4. QED
        BY <4>1, <4>3 DEF PackageWorld!Of
    <3>3. QED
      BY <1>3, <2>2, <3>1, <3>2
  <2>3. QED
    BY <2>1, <2>2 DEF PackagesInv, PackageWorld!RecordedIsThere, PackageWorld!Missing, PackageWorld!HasDigest
<1>4. PackageWorld!None \in JobRecord /\ PackageWorld!None.at = "none"
  BY DEF PackageWorld!None, JobRecord, PackageWorld!Source
<1>5. \A b \in PackageWorld!Actor : jobs[b] \in 0..MaxJob
  BY DEF PackagesInv, PackagesType, PackageWorld!TypeOK
<1>6. ASSUME NEW where \in {"probe", "command", "done"}, NEW o \in {"install", "remove"}, NEW p \in AnyPackage,
             NEW source \in PackageWorld!Source, PackageWorld!Begin(a, where, o, p, source), where = "done" => o = "install"
      PROVE  PackagesInv'
  <2> DEFINE r == [at |-> where, op |-> o, name |-> p, source |-> source]
  <2>1. r \in JobRecord /\ r.name \in AnyPackage /\ r.op # "none" /\ (r.at = "done" => r.op # "remove")
    BY <1>6 DEF JobRecord
  <2>2. job[a].at = "none" /\ job' = [job EXCEPT ![a] = r] /\ UNCHANGED <<payload, packageJson>>
    BY <1>6 DEF PackageWorld!Begin
  <2>3. jobs[a] < MaxJob /\ jobs' = [jobs EXCEPT ![a] = jobs[a] + 1]
    BY <1>6 DEF PackageWorld!Begin
  <2>4. jobs[a] + 1 \in 0..MaxJob /\ jobs[a] + 1 \in Nat
    <3>1. jobs[a] \in Nat /\ MaxJob \in Nat
      BY <1>1, BoundsAssumption
    <3>2. QED
      BY <2>3, <3>1
  <2>5. jobs' \in [PackageWorld!Actor -> Nat] /\ \A b \in PackageWorld!Actor : jobs'[b] \in 0..MaxJob
    BY <1>1, <1>5, <2>3, <2>4
  <2> HIDE DEF r
  <2>6. QED
    BY <1>1, <1>3, <2>1, <2>2, <2>5
<1>7. ASSUME job[a].at = "probe", UNCHANGED <<payload, packageJson, jobs>>, NEW source \in PackageWorld!Source,
             PackageJobTo(a, [job[a] EXCEPT !.at = "command", !.source = source])
      PROVE  PackagesInv'
  <2> DEFINE r == [job[a] EXCEPT !.at = "command", !.source = source]
  <2>1. r \in JobRecord
    BY <1>1, JobRecordKept
  <2>2. r.name = job[a].name /\ r.op = job[a].op
    BY <1>1 DEF JobRecord
  <2>3. job' = [job EXCEPT ![a] = r]
    BY <1>7 DEF PackageJobTo
  <2> HIDE DEF r
  <2>4. QED
    BY <1>1, <1>3, <1>5, <1>7, <2>1, <2>2, <2>3
<1>8. ASSUME job[a].at \in {"probe", "command"}, UNCHANGED <<payload, packageJson, jobs>>, PackageJobTo(a, PackageWorld!None)
      PROVE  PackagesInv'
  BY <1>1, <1>3, <1>4, <1>5, <1>8 DEF PackageJobTo
<1>9. CASE PackageWorld!CommandMoves(a)
  <2> DEFINE r == [job[a] EXCEPT !.at = "done"]
  <2>1. r \in JobRecord
    BY <1>1, JobRecordKept
  <2>2. r.at = "done" /\ r.op = job[a].op /\ r.name = job[a].name /\ r.source = job[a].source
    BY <1>1 DEF JobRecord
  <2>3. /\ job[a].at = "command" /\ job' = [job EXCEPT ![a] = r] /\ UNCHANGED <<packageJson, jobs>>
        /\ payload' = IF job[a].op = "install" THEN payload \union {PackageWorld!Of(a)} ELSE payload \ {PackageWorld!Of(a)}
    BY <1>9 DEF PackageWorld!CommandMoves
  <2>4. payload' \subseteq PackageWorld!Entry
    BY <1>1, <1>2, <2>3
  <2>5. job[a].op \in {"none", "install", "remove"}
    BY <1>1 DEF JobRecord
  <2> HIDE DEF r
  <2>6. \A entry \in packageJson' \ payload' :
           \/ r.at = "done" /\ r.op = "remove" /\ <<r.name, r.source>> = entry
           \/ entry \in packageJson \ payload /\ job[a].at # "done"
    BY <1>1, <2>2, <2>3, <2>5 DEF PackageWorld!Of
  <2>7. QED
    BY <1>1, <1>3, <1>5, <2>1, <2>2, <2>3, <2>4, <2>6
<1>10. CASE PackageWorld!CommandFails(a)
  BY <1>8, <1>10 DEF PackageWorld!CommandFails, PackageJobTo
<1>11. CASE PackageWorld!CommandEnds(a)
  <2>1. /\ job[a].at = "done" /\ job' = [job EXCEPT ![a] = PackageWorld!None] /\ UNCHANGED <<payload, jobs>>
        /\ IF job[a].op = "install" THEN PackageWorld!RecordInstall(PackageWorld!Of(a))
                                    ELSE PackageWorld!RecordRemove(PackageWorld!Of(a))
    BY <1>11 DEF PackageWorld!CommandEnds
  <2>2. packageJson' \subseteq PackageWorld!Entry
    BY <1>1, <1>2, <2>1 DEF PackageWorld!RecordInstall, PackageWorld!RecordRemove
  <2>3. \A entry \in packageJson' \ payload' :
           /\ entry \in packageJson \ payload
           /\ ~(job[a].at = "done" /\ job[a].op = "remove" /\ PackageWorld!Of(a) = entry)
    BY <2>1 DEF PackageWorld!RecordInstall, PackageWorld!RecordRemove, PackageWorld!HasDigest
  <2>4. QED
    BY <1>1, <1>3, <1>4, <1>5, <2>1, <2>2, <2>3
<1>12. QED
  BY <1>0, <1>6, <1>7, <1>8, <1>9, <1>10, <1>11 DEF PackageStep


-----------------------------------------------------------------------------
(* What plugins declare (UserlandRegistry).                                *)

\* The snapshot that is written while no other publication is due is the registry, and an update has read a release
\* that was there.
UserlandInv ==
    /\ Userland!TypeOK
    /\ sync \in [1..MaxSync -> {"unused", "installing", "over"}]
    /\ \E Snapshots : applied \in [1..MaxSync -> [snapshot : Snapshots, release : 0..MaxSync]]
    /\ publishes = 0 => IF writing = Userland!No THEN mailbox = registry ELSE writing = registry
    /\ Userland!AppliedIsRegistered

\* Nothing is declared and nothing applied at first.
LEMMA UserlandStart == Userland!Init => UserlandInv
<1> SUFFICES ASSUME Userland!Init PROVE UserlandInv
  OBVIOUS
<1>1. MaxChange \in Nat /\ MaxSync \in Nat
  BY BoundsAssumption
<1>2. applied \in [1..MaxSync -> [snapshot : {{}}, release : 0..MaxSync]]
  BY <1>1 DEF Userland!Init
<1>3. Userland!TypeOK
  <2>1. sync = [u \in 1..MaxSync |-> "unused"] /\ \A u \in 1..MaxSync : sync[u] \in {"unused", "installing", "over"}
    BY DEF Userland!Init
  <2>2. 0 \in 0..MaxChange /\ 0 \in 0..MaxSync
    BY <1>1
  <2>3. QED
    BY <2>1, <2>2 DEF Userland!Init, Userland!TypeOK
<1>4. QED
  BY <1>2, <1>3 DEF Userland!Init, UserlandInv, Userland!AppliedIsRegistered, Userland!Commands

\* No registry is the sign of the temporary file that is not there.
LEMMA RegistryIsThere == Userland!TypeOK => registry # Userland!No
BY BoundsAssumption DEF Userland!TypeOK, Userland!No, Userland!Item

\* The update of the sandbox registers everything of its snapshot, whatever it releases.
LEMMA UpdateKeeps ==
    ASSUME UserlandInv, NEW u \in 1..MaxSync, NEW declared, NEW previous \in 0..MaxSync,
           Userland!Update(u, declared, previous)
    PROVE  /\ shellCommands' \subseteq Name /\ spent' \subseteq 1..MaxSync /\ release' \in 0..MaxSync
           /\ sync' \in [1..MaxSync -> {"unused", "installing", "over"}]
           /\ Userland!AppliedIsRegistered'
<1>1. shellCommands \subseteq Name /\ spent \subseteq 1..MaxSync /\ sync \in [1..MaxSync -> {"unused", "installing", "over"}]
  BY DEF UserlandInv, Userland!TypeOK
<1>2. Userland!Released(previous, shellCommands) \subseteq shellCommands
  BY DEF Userland!Released
<1>3. shellCommands' = Userland!Released(previous, shellCommands) \union Userland!Commands(declared) /\ appliedSignature' = declared
  BY DEF Userland!Update, Userland!Apply
<1>4. Userland!Commands(declared) \subseteq Name
  BY DEF Userland!Commands
<1>5. MaxSync \in Nat
  BY BoundsAssumption
<1>6. previous # 0 => previous \in 1..MaxSync
  BY <1>5
<1>7. spent' \subseteq 1..MaxSync
  BY <1>1, <1>6 DEF Userland!Update
<1>8. release' \in 0..MaxSync /\ sync' \in [1..MaxSync -> {"unused", "installing", "over"}]
  BY <1>1, <1>5 DEF Userland!Update
<1>9. Userland!AppliedIsRegistered'
  BY <1>3 DEF Userland!AppliedIsRegistered, Userland!Commands
<1>10. QED
  BY <1>1, <1>2, <1>3, <1>4, <1>7, <1>8, <1>9

\* Every step of the page and of the updates keeps the invariant.
LEMMA UserlandStep == UserlandInv /\ Userland!Next => UserlandInv'
<1> SUFFICES ASSUME UserlandInv, Userland!Next PROVE UserlandInv'
  OBVIOUS
<1>0. MaxChange \in Nat /\ MaxSync \in Nat
  BY BoundsAssumption
<1>1. /\ registry \subseteq Userland!Item /\ shellCommands \subseteq Name /\ spent \subseteq 1..MaxSync
      /\ registrations \in 0..MaxChange /\ publishes \in Nat /\ release \in 0..MaxSync /\ fetched \in BOOLEAN
      /\ sync \in [1..MaxSync -> {"unused", "installing", "over"}]
      /\ publishes = 0 => IF writing = Userland!No THEN mailbox = registry ELSE writing = registry
      /\ Userland!AppliedIsRegistered
  BY DEF UserlandInv, Userland!TypeOK
<1>2. PICK Snapshots : applied \in [1..MaxSync -> [snapshot : Snapshots, release : 0..MaxSync]]
  BY DEF UserlandInv
\* A step of the page leaves the host alone.
<1>3. ASSUME UNCHANGED Userland!hostVars, registry' \subseteq Userland!Item, registrations' \in 0..MaxChange, publishes' \in Nat,
             publishes' = 0 => IF writing' = Userland!No THEN mailbox' = registry' ELSE writing' = registry'
      PROVE  UserlandInv'
  <2>1. UNCHANGED <<shellCommands, release, spent, sync, applied, appliedSignature, fetched>>
    BY <1>3 DEF Userland!hostVars
  <2>2. Userland!TypeOK' /\ Userland!AppliedIsRegistered'
    BY <1>1, <1>3, <2>1 DEF Userland!TypeOK, Userland!AppliedIsRegistered
  <2>3. QED
    BY <1>1, <1>2, <1>3, <2>1, <2>2 DEF UserlandInv
\* A step of the host leaves the page alone.
<1>4. ASSUME UNCHANGED <<registry, registrations, publishes, writing, mailbox>>,
             shellCommands' \subseteq Name, spent' \subseteq 1..MaxSync, release' \in 0..MaxSync,
             sync' \in [1..MaxSync -> {"unused", "installing", "over"}], fetched' \in BOOLEAN,
             \E S : applied' \in [1..MaxSync -> [snapshot : S, release : 0..MaxSync]],
             Userland!AppliedIsRegistered'
      PROVE  UserlandInv'
  <2>1. Userland!TypeOK'
    BY <1>1, <1>4 DEF Userland!TypeOK
  <2>2. QED
    BY <1>1, <1>4, <2>1 DEF UserlandInv
<1>5. ASSUME NEW i \in Userland!Item, Userland!Change(i) PROVE UserlandInv'
  <2>1. registry' \subseteq Userland!Item
    BY <1>1, <1>5 DEF Userland!Change
  <2>2. registrations' \in 0..MaxChange /\ publishes' \in Nat /\ publishes' # 0
    BY <1>0, <1>1, <1>5 DEF Userland!Change
  <2>3. QED
    BY <1>3, <1>5, <2>1, <2>2 DEF Userland!Change
<1>6. CASE Userland!Snapshot
  <2>1. registry # Userland!No
    BY RegistryIsThere DEF UserlandInv
  <2>2. publishes' \in Nat
    BY <1>1, <1>6 DEF Userland!Snapshot
  <2>3. QED
    BY <1>1, <1>3, <1>6, <2>1, <2>2 DEF Userland!Snapshot
<1>7. CASE Userland!Rename
  BY <1>1, <1>3, <1>7 DEF Userland!Rename
<1>8. ASSUME NEW u \in 1..MaxSync, Userland!Sync(u) PROVE UserlandInv'
  <2>1. applied' \in [1..MaxSync -> [snapshot : Snapshots \union {mailbox}, release : 0..MaxSync]]
    BY <1>1, <1>2, <1>8 DEF Userland!Sync
  <2>2. UNCHANGED <<registry, registrations, publishes, writing, mailbox, fetched>>
    BY <1>8 DEF Userland!Sync
  <2>3. CASE sync' = [sync EXCEPT ![u] = "installing"] /\ UNCHANGED <<shellCommands, release, spent, appliedSignature>>
    <3>1. sync' \in [1..MaxSync -> {"unused", "installing", "over"}] /\ Userland!AppliedIsRegistered'
      BY <1>1, <2>3 DEF Userland!AppliedIsRegistered
    <3>2. QED
      BY <1>1, <1>4, <2>1, <2>2, <2>3, <3>1
  <2>4. CASE Userland!Update(u, mailbox, release)
    BY <1>1, <1>4, <2>1, <2>2, <2>4, UpdateKeeps
  <2>5. QED
    BY <1>8, <2>3, <2>4 DEF Userland!Sync
<1>9. ASSUME NEW u \in 1..MaxSync, Userland!Installed(u) PROVE UserlandInv'
  <2>1. applied[u].release \in 0..MaxSync
    BY <1>2
  <2>2. Userland!Update(u, applied[u].snapshot, applied[u].release)
    BY <1>9 DEF Userland!Installed
  <2>3. /\ shellCommands' \subseteq Name /\ spent' \subseteq 1..MaxSync /\ release' \in 0..MaxSync
        /\ sync' \in [1..MaxSync -> {"unused", "installing", "over"}]
        /\ Userland!AppliedIsRegistered'
    BY <2>1, <2>2, UpdateKeeps
  <2>4. QED
    BY <1>2, <1>4, <1>9, <2>3 DEF Userland!Installed
<1>10. ASSUME NEW u \in 1..MaxSync, Userland!InstallFails(u) PROVE UserlandInv'
  <2>1. sync' \in [1..MaxSync -> {"unused", "installing", "over"}] /\ Userland!AppliedIsRegistered'
    BY <1>1, <1>10 DEF Userland!InstallFails, Userland!AppliedIsRegistered
  <2>2. QED
    BY <1>1, <1>2, <1>4, <1>10, <2>1 DEF Userland!InstallFails
<1>11. QED
  BY <1>5, <1>6, <1>7, <1>8, <1>9, <1>10 DEF Userland!Next

\* A step of the composition is a step of the packages, or leaves them alone; and the same of what plugins declare.
LEMMA PackagesInFocus ==
    [Next]_allVars => /\ PackageWorld!Next \/ UNCHANGED packagesVars
                      /\ Userland!Next \/ UNCHANGED userlandVars
BY DEF Next, Still, allVars

\* What the manifest lists is installed, but for the entry of a package that is just being removed; the published file is
\* the registry when no publication is due; and what the sandbox says it has applied is registered: for every number of
\* packages, jobs, registrations and updates (engine/host/package-world.ts, userland/userland-service.ts,
\* engine/host/userland.ts).
THEOREM UserlandIsKept == Spec => []UserlandKept
<1>1. Init => PackagesInv /\ UserlandInv
  BY PackagesStart, UserlandStart DEF Init
<1>2. PackagesInv /\ [Next]_allVars => PackagesInv'
  <2> SUFFICES ASSUME PackagesInv, [Next]_allVars PROVE PackagesInv'
    OBVIOUS
  <2>1. CASE UNCHANGED packagesVars
    BY <2>1 DEF packagesVars, PackagesInv, PackagesType, PackageWorld!TypeOK, PackageWorld!RecordedIsThere,
                PackageWorld!Missing, PackageWorld!HasDigest, PackageWorld!Of
  <2>2. QED
    BY <2>1, PackagesStep, PackagesInFocus
<1>3. UserlandInv /\ [Next]_allVars => UserlandInv'
  <2> SUFFICES ASSUME UserlandInv, [Next]_allVars PROVE UserlandInv'
    OBVIOUS
  <2>1. CASE UNCHANGED userlandVars
    BY <2>1 DEF userlandVars, UserlandInv, Userland!TypeOK, Userland!AppliedIsRegistered
  <2>2. QED
    BY <2>1, UserlandStep, PackagesInFocus
<1>4. PackagesInv /\ UserlandInv => UserlandKept
  BY DEF PackagesInv, PackagesType, UserlandInv, UserlandKept, Userland!PublishedIsLatest
<1>5. QED
  BY <1>1, <1>2, <1>3, <1>4, PTL DEF Spec

-----------------------------------------------------------------------------
(* Services (Services).                                                    *)

OrderPcs == {"idle", "package", "claim", "manage", "wait", "settle", "release", "stop", "mark", "save", "done", "failed"}
OrderRecord == [pc : OrderPcs, verb : {"none"} \union ServiceWorld!Verb, sdk : BOOLEAN, tried : BOOLEAN, acked : BOOLEAN]

ServicesType ==
    /\ process \in [Unit -> {"none", "active", "listening"}]
    /\ heard \in [Unit -> Nat] /\ open \in [Unit -> Nat] /\ gate \in [Unit -> Nat] /\ generation \in Nat
    /\ owns \in [Unit -> BOOLEAN] /\ marker \in [Unit -> BOOLEAN] /\ saved \in [Unit -> BOOLEAN]
    /\ install \subseteq Unit /\ order \in [Unit -> OrderRecord]

\* A command is where its verb leads it, and has tried to start nothing before it manages the unit.
OrderIsInLine(u) ==
    /\ order[u].pc \in {"package", "claim", "manage", "wait", "settle"} => order[u].verb \in {"start", "restart"}
    /\ order[u].pc \in {"package", "claim", "manage"} => ~order[u].tried
    /\ order[u].pc \in {"mark", "save"} => order[u].verb \in {"enable", "disable"}
    /\ order[u].pc = "stop" => order[u].verb = "stop"
    /\ order[u].pc = "release" => order[u].verb \in {"start", "restart", "stop"}
    /\ u \in install => order[u].pc = "package"

\* An open port was heard of, a gate is of a port the bridge owns, and what a start has waited for has come.
PortsAreInLine(u) ==
    /\ heard[u] <= generation /\ open[u] <= heard[u]
    /\ gate[u] # ServiceWorld!Free => owns[u]
    /\ order[u].verb \in {"start", "restart"} =>
          /\ order[u].pc = "done" /\ gate[u] # ServiceWorld!Free => heard[u] > gate[u]
          /\ order[u].pc \in {"release", "failed"} /\ order[u].tried => process[u] = "none"
          /\ order[u].pc = "failed" /\ order[u].tried => ~owns[u] /\ gate[u] = ServiceWorld!Free

\* The marker is set before the snapshot is taken and stays.
MarkIsInLine(u) ==
    order[u].verb \in {"enable", "disable"} =>
        /\ order[u].pc \in {"save", "done"} => marker[u] = (order[u].verb = "enable")
        /\ order[u].pc = "done" /\ order[u].acked => saved[u] = (order[u].verb = "enable")

UnitKept(u) == OrderIsInLine(u) /\ PortsAreInLine(u) /\ MarkIsInLine(u)

ServicesInv == ServicesType /\ \A u \in Unit : UnitKept(u)

-----------------------------------------------------------------------------

\* A unit that a step leaves alone, up to the snapshot being taken, is kept.
LEMMA UnitStands ==
    ASSUME NEW v \in Unit, ServicesType, UnitKept(v), generation' \in Nat, generation <= generation',
           order'[v] = order[v], process'[v] = process[v], heard'[v] = heard[v], open'[v] = open[v],
           owns'[v] = owns[v], gate'[v] = gate[v], marker'[v] = marker[v], saved'[v] \in {saved[v], marker[v]},
           v \in install' => v \in install
    PROVE  UnitKept(v)'
<1>1. OrderIsInLine(v)'
  BY DEF UnitKept, OrderIsInLine
<1>2. PortsAreInLine(v)'
  <2>1. heard[v] \in Nat
    BY DEF ServicesType
  <2>2. heard'[v] <= generation'
    BY <2>1 DEF UnitKept, PortsAreInLine, ServicesType
  <2>3. QED
    BY <2>2 DEF UnitKept, PortsAreInLine, ServiceWorld!Free
<1>3. MarkIsInLine(v)'
  BY DEF UnitKept, MarkIsInLine
<1>4. QED
  BY <1>1, <1>2, <1>3 DEF UnitKept

\* The fields of a record of a command.
LEMMA OrderFields ==
    \A r \in OrderRecord : \A p \in OrderPcs :
        /\ [r EXCEPT !.pc = p] \in OrderRecord /\ [r EXCEPT !.pc = p].pc = p
        /\ [r EXCEPT !.pc = p].verb = r.verb /\ [r EXCEPT !.pc = p].tried = r.tried /\ [r EXCEPT !.pc = p].acked = r.acked
BY DEF OrderRecord

\* A command that moves on, and the others.
LEMMA GotoMoves ==
    ASSUME ServicesType, NEW u \in Unit, NEW p \in OrderPcs, ServiceWorld!Goto(u, p)
    PROVE  /\ order' \in [Unit -> OrderRecord] /\ \A v \in Unit : v # u => order'[v] = order[v]
           /\ order'[u].pc = p /\ order'[u].verb = order[u].verb
           /\ order'[u].tried = order[u].tried /\ order'[u].acked = order[u].acked
<1>1. order \in [Unit -> OrderRecord]
  BY DEF ServicesType
<1>2. order' = [order EXCEPT ![u] = [order[u] EXCEPT !.pc = p]]
  BY <1>1 DEF ServiceWorld!Goto
<1>3. order[u] \in OrderRecord
  BY <1>1
<1> DEFINE r == [order[u] EXCEPT !.pc = p]
<1>4. /\ r \in OrderRecord /\ r.pc = p
      /\ r.verb = order[u].verb /\ r.tried = order[u].tried /\ r.acked = order[u].acked
  BY <1>3, OrderFields
<1>5. order' = [order EXCEPT ![u] = r]
  BY <1>2
<1> HIDE DEF r
<1>6. order'[u] = r
  BY <1>1, <1>5
<1>7. QED
  BY <1>1, <1>4, <1>5, <1>6

\* An order that has tried to start its unit moves on.
LEMMA TriedMoves ==
    ASSUME ServicesType, NEW u \in Unit, NEW p \in OrderPcs, ServiceWorld!Tried(u, p)
    PROVE  /\ order' \in [Unit -> OrderRecord] /\ \A v \in Unit : v # u => order'[v] = order[v]
           /\ order'[u].pc = p /\ order'[u].verb = order[u].verb
           /\ order'[u].tried = TRUE /\ order'[u].acked = order[u].acked
<1>1. order \in [Unit -> OrderRecord]
  BY DEF ServicesType
<1>2. order' = [order EXCEPT ![u] = [order[u] EXCEPT !.pc = p, !.tried = TRUE]]
  BY <1>1 DEF ServiceWorld!Tried
<1>3. order[u] \in OrderRecord
  BY <1>1
<1> DEFINE r == [order[u] EXCEPT !.pc = p, !.tried = TRUE]
<1>4. /\ r \in OrderRecord /\ r.pc = p
      /\ r.verb = order[u].verb /\ r.tried = TRUE /\ r.acked = order[u].acked
  BY <1>3 DEF OrderRecord
<1>5. order' = [order EXCEPT ![u] = r]
  BY <1>2
<1> HIDE DEF r
<1>6. order'[u] = r
  BY <1>1, <1>5
<1>7. QED
  BY <1>1, <1>4, <1>5, <1>6

\* The order at rest is an order.
LEMMA RestIsOrder ==
    /\ ServiceWorld!Rest \in OrderRecord /\ ServiceWorld!Rest.pc = "idle" /\ ServiceWorld!Rest.verb = "none"
    /\ ServiceWorld!Free \in Nat
<1>1. MaxEvent \in Nat
  BY BoundsAssumption
<1>2. QED
  BY <1>1 DEF ServiceWorld!Rest, OrderRecord, OrderPcs, ServiceWorld!Free

\* A unit without a command, its port closed or heard of.
LEMMA IdleIsKept ==
    ASSUME NEW u \in Unit, order[u] = ServiceWorld!Rest, u \notin install, heard[u] <= generation, open[u] <= heard[u],
           gate[u] # ServiceWorld!Free => owns[u]
    PROVE  UnitKept(u)
BY RestIsOrder DEF UnitKept, OrderIsInLine, PortsAreInLine, MarkIsInLine

\* The invariant holds at first.
LEMMA ServicesStart == ServiceWorld!Init => ServicesInv
<1> SUFFICES ASSUME ServiceWorld!Init PROVE ServicesInv
  OBVIOUS
<1>1. ServicesType
  BY RestIsOrder DEF ServiceWorld!Init, ServicesType
<1>2. \A u \in Unit : UnitKept(u)
  BY IdleIsKept DEF ServiceWorld!Init
<1>3. QED
  BY <1>1, <1>2 DEF ServicesInv

\* A step of one unit.
LEMMA OneUnitMoves ==
    ASSUME ServicesInv, NEW u \in Unit, ServicesType', UnitKept(u)', generation <= generation',
           \A v \in Unit : v # u =>
              /\ order'[v] = order[v] /\ process'[v] = process[v] /\ heard'[v] = heard[v] /\ open'[v] = open[v]
              /\ owns'[v] = owns[v] /\ gate'[v] = gate[v] /\ marker'[v] = marker[v]
              /\ saved'[v] \in {saved[v], marker[v]}
              /\ v \in install' => v \in install
    PROVE  ServicesInv'
<1>1. ASSUME NEW v \in Unit, v # u PROVE UnitKept(v)'
  BY <1>1, UnitStands DEF ServicesInv, ServicesType
<1>2. QED
  BY <1>1 DEF ServicesInv

\* A process begins to listen.
LEMMA ListensKeeps == \A u \in Unit : ServicesInv /\ ServiceWorld!Listens(u) => ServicesInv'
<1> SUFFICES ASSUME NEW u \in Unit, ServicesInv, ServiceWorld!Listens(u) PROVE ServicesInv'
  OBVIOUS
<1>1. /\ process[u] = "active" /\ process' = [process EXCEPT ![u] = "listening"] /\ generation' = generation + 1
      /\ heard' = [heard EXCEPT ![u] = generation + 1] /\ open' = [open EXCEPT ![u] = generation + 1]
      /\ UNCHANGED <<owns, gate, install, marker, saved, order>>
  BY DEF ServiceWorld!Listens, ServiceWorld!portVars, ServiceWorld!saveVars
<1>2. ServicesType' /\ generation <= generation'
  BY <1>1 DEF ServicesInv, ServicesType
<1>3. UnitKept(u)'
  <2>1. /\ heard'[u] = generation + 1 /\ open'[u] = generation + 1 /\ gate'[u] = gate[u]
        /\ heard[u] \in Nat /\ heard[u] <= generation /\ generation \in Nat /\ gate[u] \in Nat
    BY <1>1 DEF ServicesInv, ServicesType, UnitKept, PortsAreInLine
  <2>2. OrderIsInLine(u)' /\ MarkIsInLine(u)'
    BY <1>1 DEF ServicesInv, UnitKept, OrderIsInLine, MarkIsInLine
  <2>3. gate[u] # ServiceWorld!Free /\ order[u].verb \in {"start", "restart"} /\ order[u].pc = "done" => heard'[u] > gate[u]
    BY <2>1 DEF ServicesInv, UnitKept, PortsAreInLine
  <2>4. PortsAreInLine(u)'
    BY <1>1, <2>1, <2>3 DEF ServicesInv, UnitKept, PortsAreInLine, ServiceWorld!Free
  <2>5. QED
    BY <2>2, <2>4 DEF UnitKept
<1>4. \A v \in Unit : v # u => process'[v] = process[v] /\ heard'[v] = heard[v] /\ open'[v] = open[v]
  BY <1>1 DEF ServicesInv, ServicesType
<1>5. QED
  BY <1>1, <1>2, <1>3, <1>4, OneUnitMoves

\* The process of a unit is gone: the others stand, and its port is closed.
LEMMA GoneChanges ==
    ASSUME ServicesType, NEW u \in Unit, ServiceWorld!Gone(u)
    PROVE  /\ process' \in [Unit -> {"none", "active", "listening"}] /\ open' \in [Unit -> Nat]
           /\ process'[u] = "none" /\ open'[u] = 0 /\ UNCHANGED <<heard, generation>>
           /\ \A v \in Unit : v # u => process'[v] = process[v] /\ open'[v] = open[v]
BY DEF ServicesType, ServiceWorld!Gone

\* A process ends by itself.
LEMMA CrashesKeeps == \A u \in Unit : ServicesInv /\ ServiceWorld!Crashes(u) => ServicesInv'
<1> SUFFICES ASSUME NEW u \in Unit, ServicesInv, ServiceWorld!Crashes(u) PROVE ServicesInv'
  OBVIOUS
<1>1. ServiceWorld!Gone(u) /\ UNCHANGED <<owns, gate, install, marker, saved, order>>
  BY DEF ServiceWorld!Crashes, ServiceWorld!portVars, ServiceWorld!saveVars
<1>2. /\ process' \in [Unit -> {"none", "active", "listening"}] /\ open' \in [Unit -> Nat]
      /\ process'[u] = "none" /\ open'[u] = 0 /\ UNCHANGED <<heard, generation>>
      /\ \A v \in Unit : v # u => process'[v] = process[v] /\ open'[v] = open[v]
  BY <1>1, GoneChanges DEF ServicesInv
<1>3. ServicesType' /\ generation <= generation'
  BY <1>1, <1>2 DEF ServicesInv, ServicesType
<1>4. heard[u] \in Nat
  BY DEF ServicesInv, ServicesType
<1>5. UnitKept(u)'
  BY <1>1, <1>2, <1>4 DEF ServicesInv, UnitKept, OrderIsInLine, PortsAreInLine, MarkIsInLine, ServiceWorld!Free
<1>6. QED
  BY <1>1, <1>2, <1>3, <1>5, OneUnitMoves

\* A command begins.
LEMMA BeginKeeps ==
    \A u \in Unit, verb \in ServiceWorld!Verb, sdk \in BOOLEAN :
        ServicesInv /\ ServiceWorld!Begin(u, verb, sdk) => ServicesInv'
<1> SUFFICES ASSUME NEW u \in Unit, NEW verb \in ServiceWorld!Verb, NEW sdk \in BOOLEAN, ServicesInv,
                    ServiceWorld!Begin(u, verb, sdk)
             PROVE  ServicesInv'
  OBVIOUS
<1> DEFINE p == IF verb = "stop" THEN "stop" ELSE IF verb \in {"enable", "disable"} THEN "mark" ELSE "package"
           r == [ServiceWorld!Rest EXCEPT !.verb = verb, !.sdk = sdk, !.pc = p]
<1>1. /\ order[u].pc = "idle" /\ order' = [order EXCEPT ![u] = r]
      /\ UNCHANGED <<process, heard, generation, open, owns, gate, install, marker, saved>>
  BY DEF ServiceWorld!Begin, ServiceWorld!At, ServiceWorld!unitsVars, ServiceWorld!saveVars
<1>2. r \in OrderRecord /\ r.verb = verb /\ r.pc = p /\ r.tried = FALSE
  BY DEF OrderRecord, OrderPcs, ServiceWorld!Rest
<1>3. /\ p \in {"stop", "mark", "package"}
      /\ p = "stop" => verb = "stop"
      /\ p = "mark" => verb \in {"enable", "disable"}
      /\ p = "package" => verb \in {"start", "restart"}
  BY DEF ServiceWorld!Verb
<1> HIDE DEF p, r
<1>4. order' \in [Unit -> OrderRecord] /\ order'[u] = r /\ \A v \in Unit : v # u => order'[v] = order[v]
  BY <1>1, <1>2 DEF ServicesInv, ServicesType
<1>5. ServicesType' /\ generation <= generation'
  BY <1>1, <1>4 DEF ServicesInv, ServicesType
<1>6. u \notin install
  BY <1>1 DEF ServicesInv, UnitKept, OrderIsInLine
<1>7. UnitKept(u)'
  <2>1. OrderIsInLine(u)'
    BY <1>1, <1>2, <1>3, <1>4, <1>6 DEF OrderIsInLine
  <2>2. PortsAreInLine(u)'
    BY <1>1, <1>2, <1>3, <1>4 DEF ServicesInv, UnitKept, PortsAreInLine, ServiceWorld!Free
  <2>3. MarkIsInLine(u)'
    BY <1>2, <1>3, <1>4 DEF MarkIsInLine
  <2>4. QED
    BY <2>1, <2>2, <2>3 DEF UnitKept
<1>8. QED
  BY <1>1, <1>4, <1>5, <1>7, OneUnitMoves

\* A command gets on, and nothing else changes but who waits for npm.
LEMMA OrderGetsOn ==
    ASSUME ServicesInv, NEW u \in Unit, order' \in [Unit -> OrderRecord],
           \A v \in Unit : v # u => order'[v] = order[v],
           order'[u].verb = order[u].verb, order'[u].tried = order[u].tried,
           UNCHANGED <<process, heard, generation, open, owns, gate, install, marker, saved>>,
           u \notin install, OrderIsInLine(u)',
           (order'[u].verb \in {"start", "restart"} =>
              /\ order'[u].pc = "done" /\ gate[u] # ServiceWorld!Free => heard[u] > gate[u]
              /\ order'[u].pc \in {"release", "failed"} => ~order[u].tried),
           order'[u].verb \in {"enable", "disable"} => order'[u].pc \notin {"save", "done"}
    PROVE  ServicesInv'
<1>1. ServicesType' /\ generation <= generation'
  BY DEF ServicesInv, ServicesType
<1>2. PortsAreInLine(u)'
  BY DEF ServicesInv, UnitKept, PortsAreInLine, ServiceWorld!Free
<1>3. MarkIsInLine(u)'
  BY DEF MarkIsInLine
<1>4. UnitKept(u)'
  BY <1>2, <1>3 DEF UnitKept
<1>5. QED
  BY <1>1, <1>4, OneUnitMoves

\* The package of a unit is there, or is being installed.
LEMMA PackageKeeps == \A u \in Unit : ServicesInv /\ ServiceWorld!Package(u) => ServicesInv'
<1> SUFFICES ASSUME NEW u \in Unit, ServicesInv, ServiceWorld!Package(u) PROVE ServicesInv'
  OBVIOUS
<1>1. /\ order[u].pc = "package" /\ u \notin install
      /\ UNCHANGED <<process, heard, generation, open, owns, gate, marker, saved>>
  BY DEF ServiceWorld!Package, ServiceWorld!At, ServiceWorld!unitsVars, ServiceWorld!portVars, ServiceWorld!saveVars
<1>2. order[u].verb \in {"start", "restart"} /\ ~order[u].tried
  BY <1>1 DEF ServicesInv, UnitKept, OrderIsInLine
<1>3. CASE ServiceWorld!Goto(u, "claim") /\ UNCHANGED install
  <2>1. /\ order' \in [Unit -> OrderRecord] /\ \A v \in Unit : v # u => order'[v] = order[v]
        /\ order'[u].pc = "claim" /\ order'[u].verb = order[u].verb
        /\ order'[u].tried = order[u].tried /\ order'[u].acked = order[u].acked
    BY <1>3, GotoMoves DEF ServicesInv, OrderPcs
  <2>2. OrderIsInLine(u)'
    BY <1>1, <1>2, <1>3, <2>1 DEF OrderIsInLine
  <2>3. QED
    BY <1>1, <1>2, <1>3, <2>1, <2>2, OrderGetsOn
<1>4. CASE install' = install \union {u} /\ UNCHANGED order
  <2>1. ServicesType' /\ generation <= generation'
    BY <1>1, <1>4 DEF ServicesInv, ServicesType
  <2>2. UnitKept(u)'
    BY <1>1, <1>2, <1>4 DEF ServicesInv, UnitKept, OrderIsInLine, PortsAreInLine, MarkIsInLine, ServiceWorld!Free
  <2>3. QED
    BY <1>1, <1>4, <2>1, <2>2, OneUnitMoves
<1>5. QED
  BY <1>3, <1>4 DEF ServiceWorld!Package

\* npm ends for everyone who waits for it.
LEMMA InstallEndsKeeps == \A good \in BOOLEAN : ServicesInv /\ ServiceWorld!InstallEnds(good) => ServicesInv'
<1> SUFFICES ASSUME NEW good \in BOOLEAN, ServicesInv, ServiceWorld!InstallEnds(good) PROVE ServicesInv'
  OBVIOUS
<1> DEFINE p == IF good THEN "claim" ELSE "release"
<1>1. /\ install' = {} /\ order' = [u \in Unit |-> IF u \notin install THEN order[u] ELSE [order[u] EXCEPT !.pc = p]]
      /\ UNCHANGED <<process, heard, generation, open, owns, gate, marker, saved>>
  BY DEF ServiceWorld!InstallEnds, ServiceWorld!unitsVars, ServiceWorld!portVars, ServiceWorld!saveVars
<1>2. p \in OrderPcs /\ p \in {"claim", "release"}
  BY DEF OrderPcs
<1> HIDE DEF p
<1>3. \A u \in Unit : order[u] \in OrderRecord
  BY DEF ServicesInv, ServicesType
<1>4. order' \in [Unit -> OrderRecord]
  BY <1>1, <1>2, <1>3, OrderFields
<1>5. ServicesType' /\ generation' \in Nat /\ generation <= generation'
  BY <1>1, <1>4 DEF ServicesInv, ServicesType
<1>6. ASSUME NEW u \in Unit, u \notin install PROVE UnitKept(u)'
  <2>1. order'[u] = order[u]
    BY <1>1, <1>6
  <2>2. QED
    BY <1>1, <1>5, <2>1, UnitStands DEF ServicesInv
<1>7. ASSUME NEW u \in Unit, u \in install PROVE UnitKept(u)'
  <2>1. order'[u] = [order[u] EXCEPT !.pc = p]
    BY <1>1, <1>7
  <2>2. /\ order'[u].pc = p /\ order'[u].verb = order[u].verb /\ order'[u].tried = order[u].tried
    BY <1>2, <1>3, <2>1, OrderFields
  <2>3. order[u].pc = "package" /\ order[u].verb \in {"start", "restart"} /\ ~order[u].tried
    BY <1>7 DEF ServicesInv, UnitKept, OrderIsInLine
  <2>4. OrderIsInLine(u)'
    BY <1>1, <1>2, <2>2, <2>3 DEF OrderIsInLine
  <2>5. PortsAreInLine(u)'
    BY <1>1, <1>2, <2>2, <2>3 DEF ServicesInv, UnitKept, PortsAreInLine, ServiceWorld!Free
  <2>6. MarkIsInLine(u)'
    BY <2>2, <2>3 DEF MarkIsInLine
  <2>7. QED
    BY <2>4, <2>5, <2>6 DEF UnitKept
<1>8. QED
  BY <1>5, <1>6, <1>7 DEF ServicesInv

\* The bridge claims the port, whether or not the page answers.
LEMMA ClaimKeeps == \A u \in Unit : ServicesInv /\ (ServiceWorld!Claim(u) \/ ServiceWorld!ClaimLost(u)) => ServicesInv'
<1> SUFFICES ASSUME NEW u \in Unit, ServicesInv, ServiceWorld!Claim(u) \/ ServiceWorld!ClaimLost(u) PROVE ServicesInv'
  OBVIOUS
<1>1. /\ order[u].pc = "claim" /\ ServiceWorld!Goto(u, "manage")
      /\ owns' = [owns EXCEPT ![u] = TRUE]
      /\ UNCHANGED <<process, heard, generation, open, install, marker, saved>>
  BY DEF ServiceWorld!Claim, ServiceWorld!ClaimLost, ServiceWorld!At, ServiceWorld!unitsVars, ServiceWorld!saveVars
<1>2. PICK g \in Nat : gate' = [gate EXCEPT ![u] = g]
  BY RestIsOrder DEF ServicesInv, ServicesType, ServiceWorld!Claim, ServiceWorld!ClaimLost
<1>3. /\ order' \in [Unit -> OrderRecord] /\ \A v \in Unit : v # u => order'[v] = order[v]
      /\ order'[u].pc = "manage" /\ order'[u].verb = order[u].verb /\ order'[u].tried = order[u].tried
  BY <1>1, GotoMoves DEF ServicesInv, OrderPcs
<1>4. order[u].verb \in {"start", "restart"} /\ ~order[u].tried /\ u \notin install
  BY <1>1 DEF ServicesInv, UnitKept, OrderIsInLine
<1>5. owns' \in [Unit -> BOOLEAN] /\ owns'[u] = TRUE /\ \A v \in Unit : v # u => owns'[v] = owns[v]
  BY <1>1 DEF ServicesInv, ServicesType
<1>6. gate' \in [Unit -> Nat] /\ \A v \in Unit : v # u => gate'[v] = gate[v]
  BY <1>2 DEF ServicesInv, ServicesType
<1>7. ServicesType' /\ generation <= generation'
  BY <1>1, <1>3, <1>5, <1>6 DEF ServicesInv, ServicesType
<1>8. UnitKept(u)'
  <2>1. OrderIsInLine(u)'
    BY <1>1, <1>3, <1>4 DEF OrderIsInLine
  <2>2. PortsAreInLine(u)'
    BY <1>1, <1>3, <1>5 DEF ServicesInv, UnitKept, PortsAreInLine
  <2>3. MarkIsInLine(u)'
    BY <1>3, <1>4 DEF MarkIsInLine
  <2>4. QED
    BY <2>1, <2>2, <2>3 DEF UnitKept
<1>9. QED
  BY <1>1, <1>3, <1>5, <1>6, <1>7, <1>8, OneUnitMoves

\* The manager starts the unit, leaves one that runs as it is, or refuses.
LEMMA StartsKeeps == \A u \in Unit : ServicesInv /\ (ServiceWorld!Starts(u) \/ ServiceWorld!Refused(u)) => ServicesInv'
<1> SUFFICES ASSUME NEW u \in Unit, ServicesInv, ServiceWorld!Starts(u) \/ ServiceWorld!Refused(u) PROVE ServicesInv'
  OBVIOUS
<1>1. PICK p \in {"wait", "settle"} : ServiceWorld!Tried(u, p)
  BY DEF ServiceWorld!Starts, ServiceWorld!Refused
<1>2. order[u].pc = "manage" /\ UNCHANGED <<owns, gate, install, marker, saved>>
  BY DEF ServiceWorld!Starts, ServiceWorld!Refused, ServiceWorld!At, ServiceWorld!portVars, ServiceWorld!saveVars
<1>3. /\ order' \in [Unit -> OrderRecord] /\ \A v \in Unit : v # u => order'[v] = order[v]
      /\ order'[u].pc = p /\ order'[u].verb = order[u].verb
  BY <1>1, TriedMoves DEF ServicesInv, OrderPcs
<1>4. order[u].verb \in {"start", "restart"} /\ u \notin install
  BY <1>2 DEF ServicesInv, UnitKept, OrderIsInLine
<1>5. \/ UNCHANGED <<process, heard, generation, open>>
      \/ ServiceWorld!Gone(u)
      \/ /\ process' = [process EXCEPT ![u] = "active"] /\ open' = [open EXCEPT ![u] = 0]
         /\ UNCHANGED <<heard, generation>>
  BY DEF ServiceWorld!Starts, ServiceWorld!Refused, ServiceWorld!unitsVars
<1>6. /\ process' \in [Unit -> {"none", "active", "listening"}] /\ open' \in [Unit -> Nat]
      /\ open'[u] \in {open[u], 0} /\ UNCHANGED <<heard, generation>>
      /\ \A v \in Unit : v # u => process'[v] = process[v] /\ open'[v] = open[v]
  BY <1>5, GoneChanges DEF ServicesInv, ServicesType
<1>7. ServicesType' /\ generation <= generation'
  BY <1>2, <1>3, <1>6 DEF ServicesInv, ServicesType
<1>8. UnitKept(u)'
  <2>1. OrderIsInLine(u)'
    BY <1>2, <1>3, <1>4 DEF OrderIsInLine
  <2>2. heard[u] \in Nat
    BY DEF ServicesInv, ServicesType
  <2>3. PortsAreInLine(u)'
    BY <1>2, <1>3, <1>6, <2>2 DEF ServicesInv, UnitKept, PortsAreInLine, ServiceWorld!Free
  <2>4. MarkIsInLine(u)'
    BY <1>3, <1>4 DEF MarkIsInLine
  <2>5. QED
    BY <2>1, <2>3, <2>4 DEF UnitKept
<1>9. QED
  BY <1>2, <1>3, <1>6, <1>7, <1>8, OneUnitMoves

\* The wait for readiness ends, well or not.
LEMMA WaitKeeps == \A u \in Unit : ServicesInv /\ (ServiceWorld!Ready(u) \/ ServiceWorld!NotReady(u)) => ServicesInv'
<1> SUFFICES ASSUME NEW u \in Unit, ServicesInv, ServiceWorld!Ready(u) \/ ServiceWorld!NotReady(u) PROVE ServicesInv'
  OBVIOUS
<1>1. PICK p \in {"done", "settle"} : ServiceWorld!Goto(u, p) /\ (p = "done" => ServiceWorld!IsReady(u))
  BY DEF ServiceWorld!Ready, ServiceWorld!NotReady
<1>2. order[u].pc = "wait" /\ UNCHANGED <<process, heard, generation, open, owns, gate, install, marker, saved>>
  BY DEF ServiceWorld!Ready, ServiceWorld!NotReady, ServiceWorld!At, ServiceWorld!unitsVars, ServiceWorld!portVars,
         ServiceWorld!saveVars
<1>3. /\ order' \in [Unit -> OrderRecord] /\ \A v \in Unit : v # u => order'[v] = order[v]
      /\ order'[u].pc = p /\ order'[u].verb = order[u].verb /\ order'[u].tried = order[u].tried
  BY <1>1, GotoMoves DEF ServicesInv, OrderPcs
<1>4. order[u].verb \in {"start", "restart"} /\ u \notin install
  BY <1>2 DEF ServicesInv, UnitKept, OrderIsInLine
<1>5. p = "done" /\ gate[u] # ServiceWorld!Free => heard[u] > gate[u]
  <2>1. p = "done" /\ gate[u] # ServiceWorld!Free => open[u] > gate[u]
    BY <1>1 DEF ServiceWorld!IsReady
  <2>2. open[u] <= heard[u] /\ open[u] \in Nat /\ heard[u] \in Nat /\ gate[u] \in Nat
    BY DEF ServicesInv, ServicesType, UnitKept, PortsAreInLine
  <2>3. QED
    BY <2>1, <2>2
<1>6. OrderIsInLine(u)'
  BY <1>2, <1>3, <1>4 DEF OrderIsInLine
<1>7. QED
  BY <1>2, <1>3, <1>4, <1>5, <1>6, OrderGetsOn

\* A failed start, or a stop, is followed by the release of the port.
LEMMA SettleKeeps ==
    \A u \in Unit : ServicesInv /\ (ServiceWorld!SettleFailedStart(u) \/ ServiceWorld!Stop(u)) => ServicesInv'
<1> SUFFICES ASSUME NEW u \in Unit, ServicesInv, ServiceWorld!SettleFailedStart(u) \/ ServiceWorld!Stop(u)
             PROVE  ServicesInv'
  OBVIOUS
<1>1. /\ ServiceWorld!Goto(u, "release") \/ ServiceWorld!Tried(u, "release")
      /\ UNCHANGED <<owns, gate, install, marker, saved>>
      /\ order[u].pc \in {"settle", "stop"}
      /\ ServiceWorld!Gone(u) \/ (UNCHANGED <<process, heard, generation, open>> /\ order[u].pc = "stop")
  BY DEF ServiceWorld!SettleFailedStart, ServiceWorld!Stop, ServiceWorld!At, ServiceWorld!unitsVars,
         ServiceWorld!portVars, ServiceWorld!saveVars
<1>2. /\ order' \in [Unit -> OrderRecord] /\ \A v \in Unit : v # u => order'[v] = order[v]
      /\ order'[u].pc = "release" /\ order'[u].verb = order[u].verb
  BY <1>1, GotoMoves, TriedMoves DEF ServicesInv, OrderPcs
<1>3. /\ order[u].verb \in {"start", "restart", "stop"} /\ u \notin install
      /\ order[u].pc = "stop" => order[u].verb = "stop"
  BY <1>1 DEF ServicesInv, UnitKept, OrderIsInLine
<1>4. /\ process' \in [Unit -> {"none", "active", "listening"}] /\ open' \in [Unit -> Nat]
      /\ open'[u] \in {open[u], 0} /\ UNCHANGED <<heard, generation>>
      /\ \A v \in Unit : v # u => process'[v] = process[v] /\ open'[v] = open[v]
      /\ order[u].pc # "stop" => process'[u] = "none"
  BY <1>1, GoneChanges DEF ServicesInv, ServicesType
<1>5. ServicesType' /\ generation <= generation'
  BY <1>1, <1>2, <1>4 DEF ServicesInv, ServicesType
<1>6. UnitKept(u)'
  <2>1. OrderIsInLine(u)'
    BY <1>1, <1>2, <1>3 DEF OrderIsInLine
  <2>2. heard[u] \in Nat
    BY DEF ServicesInv, ServicesType
  <2>3. PortsAreInLine(u)'
    BY <1>1, <1>2, <1>3, <1>4, <2>2 DEF ServicesInv, UnitKept, PortsAreInLine, ServiceWorld!Free
  <2>4. MarkIsInLine(u)'
    BY <1>2, <1>3 DEF MarkIsInLine
  <2>5. QED
    BY <2>1, <2>3, <2>4 DEF UnitKept
<1>7. QED
  BY <1>1, <1>2, <1>4, <1>5, <1>6, OneUnitMoves

\* The port that was claimed is given back.
LEMMA ReleaseKeeps == \A u \in Unit : ServicesInv /\ ServiceWorld!Release(u) => ServicesInv'
<1> SUFFICES ASSUME NEW u \in Unit, ServicesInv, ServiceWorld!Release(u) PROVE ServicesInv'
  OBVIOUS
<1> DEFINE p == IF order[u].verb = "stop" /\ order[u].tried THEN "done" ELSE "failed"
<1>1. /\ order[u].pc = "release" /\ ServiceWorld!Goto(u, p)
      /\ owns' = [owns EXCEPT ![u] = FALSE]
      /\ gate' = [gate EXCEPT ![u] = IF owns[u] THEN ServiceWorld!Free ELSE gate[u]]
      /\ UNCHANGED <<process, heard, generation, open, install, marker, saved>>
  BY DEF ServiceWorld!Release, ServiceWorld!At, ServiceWorld!unitsVars, ServiceWorld!saveVars, ServicesInv, ServicesType
<1>2. p \in OrderPcs /\ p \in {"done", "failed"} /\ (p = "done" => order[u].verb = "stop")
  BY DEF OrderPcs
<1> HIDE DEF p
<1>3. /\ order' \in [Unit -> OrderRecord] /\ \A v \in Unit : v # u => order'[v] = order[v]
      /\ order'[u].pc = p /\ order'[u].verb = order[u].verb /\ order'[u].tried = order[u].tried
  BY <1>1, <1>2, GotoMoves DEF ServicesInv
<1>4. order[u].verb \in {"start", "restart", "stop"} /\ u \notin install
  BY <1>1 DEF ServicesInv, UnitKept, OrderIsInLine
<1>5. owns' \in [Unit -> BOOLEAN] /\ owns'[u] = FALSE /\ \A v \in Unit : v # u => owns'[v] = owns[v]
  BY <1>1 DEF ServicesInv, ServicesType
<1>6. /\ gate' \in [Unit -> Nat] /\ gate'[u] = ServiceWorld!Free
      /\ \A v \in Unit : v # u => gate'[v] = gate[v]
  BY <1>1, RestIsOrder DEF ServicesInv, ServicesType, UnitKept, PortsAreInLine
<1>7. ServicesType' /\ generation <= generation'
  BY <1>1, <1>3, <1>5, <1>6 DEF ServicesInv, ServicesType
<1>8. UnitKept(u)'
  <2>1. OrderIsInLine(u)'
    BY <1>1, <1>2, <1>3, <1>4 DEF OrderIsInLine
  <2>0. ServiceWorld!Free' = ServiceWorld!Free
    BY DEF ServiceWorld!Free
  <2>2. PortsAreInLine(u)'
    BY <1>1, <1>2, <1>3, <1>5, <1>6, <2>0 DEF ServicesInv, UnitKept, PortsAreInLine
  <2>3. MarkIsInLine(u)'
    BY <1>3, <1>4 DEF MarkIsInLine
  <2>4. QED
    BY <2>1, <2>2, <2>3 DEF UnitKept
<1>9. QED
  BY <1>1, <1>3, <1>5, <1>6, <1>7, <1>8, OneUnitMoves

\* A command is answered.
LEMMA FinishKeeps == \A u \in Unit : ServicesInv /\ ServiceWorld!Finish(u) => ServicesInv'
<1> SUFFICES ASSUME NEW u \in Unit, ServicesInv, ServiceWorld!Finish(u) PROVE ServicesInv'
  OBVIOUS
<1>1. /\ order[u].pc \in {"done", "failed"} /\ order' = [order EXCEPT ![u] = ServiceWorld!Rest]
      /\ UNCHANGED <<process, heard, generation, open, owns, gate, install, marker, saved>>
  BY DEF ServiceWorld!Finish, ServiceWorld!unitsVars, ServiceWorld!saveVars
<1>2. /\ order' \in [Unit -> OrderRecord] /\ order'[u] = ServiceWorld!Rest
      /\ \A v \in Unit : v # u => order'[v] = order[v]
  BY <1>1, RestIsOrder DEF ServicesInv, ServicesType
<1>3. ServicesType' /\ generation <= generation'
  BY <1>1, <1>2 DEF ServicesInv, ServicesType
<1>4. u \notin install
  BY <1>1 DEF ServicesInv, UnitKept, OrderIsInLine
<1>5. OrderIsInLine(u)' /\ MarkIsInLine(u)'
  BY <1>1, <1>2, <1>4, RestIsOrder DEF OrderIsInLine, MarkIsInLine
<1>6. PortsAreInLine(u)'
  BY <1>1, <1>2, RestIsOrder DEF ServicesInv, UnitKept, PortsAreInLine, ServiceWorld!Free
<1>7. UnitKept(u)'
  BY <1>5, <1>6 DEF UnitKept
<1>8. QED
  BY <1>1, <1>2, <1>3, <1>7, OneUnitMoves

\* An enablement is marked, then saved with the markers of every unit.
LEMMA MarkKeeps == \A u \in Unit : ServicesInv /\ ServiceWorld!Mark(u) => ServicesInv'
<1> SUFFICES ASSUME NEW u \in Unit, ServicesInv, ServiceWorld!Mark(u) PROVE ServicesInv'
  OBVIOUS
<1>1. /\ order[u].pc = "mark" /\ ServiceWorld!Goto(u, "save")
      /\ marker' = [marker EXCEPT ![u] = (order[u].verb = "enable")]
      /\ UNCHANGED <<process, heard, generation, open, owns, gate, install, saved>>
  BY DEF ServiceWorld!Mark, ServiceWorld!At, ServiceWorld!unitsVars, ServiceWorld!portVars
<1>2. /\ order' \in [Unit -> OrderRecord] /\ \A v \in Unit : v # u => order'[v] = order[v]
      /\ order'[u].pc = "save" /\ order'[u].verb = order[u].verb
  BY <1>1, GotoMoves DEF ServicesInv, OrderPcs
<1>3. order[u].verb \in {"enable", "disable"} /\ u \notin install
  BY <1>1 DEF ServicesInv, UnitKept, OrderIsInLine
<1>4. /\ marker' \in [Unit -> BOOLEAN] /\ marker'[u] = (order[u].verb = "enable")
      /\ \A v \in Unit : v # u => marker'[v] = marker[v]
  BY <1>1 DEF ServicesInv, ServicesType
<1>5. ServicesType' /\ generation <= generation'
  BY <1>1, <1>2, <1>4 DEF ServicesInv, ServicesType
<1>6. UnitKept(u)'
  <2>1. OrderIsInLine(u)' /\ MarkIsInLine(u)'
    BY <1>1, <1>2, <1>3, <1>4 DEF OrderIsInLine, MarkIsInLine
  <2>2. PortsAreInLine(u)'
    BY <1>1, <1>2, <1>3 DEF ServicesInv, UnitKept, PortsAreInLine, ServiceWorld!Free
  <2>3. QED
    BY <2>1, <2>2 DEF UnitKept
<1>7. QED
  BY <1>1, <1>2, <1>4, <1>5, <1>6, OneUnitMoves

\* The snapshot that an enablement asks for.
LEMMA SaveKeeps == \A u \in Unit : ServicesInv /\ ServiceWorld!Save(u) => ServicesInv'
<1> SUFFICES ASSUME NEW u \in Unit, ServicesInv, ServiceWorld!Save(u) PROVE ServicesInv'
  OBVIOUS
<1>1. order[u].pc = "save" /\ UNCHANGED <<process, heard, generation, open, owns, gate, install, marker>>
  BY DEF ServiceWorld!Save, ServiceWorld!At, ServiceWorld!unitsVars, ServiceWorld!portVars
<1>2. order[u].verb \in {"enable", "disable"} /\ u \notin install /\ marker[u] = (order[u].verb = "enable")
  BY <1>1 DEF ServicesInv, UnitKept, OrderIsInLine, MarkIsInLine
<1>3. CASE saved' = marker /\ ServiceWorld!Goto(u, "done")
  <2>1. /\ order' \in [Unit -> OrderRecord] /\ \A v \in Unit : v # u => order'[v] = order[v]
        /\ order'[u].pc = "done" /\ order'[u].verb = order[u].verb
    BY <1>3, GotoMoves DEF ServicesInv, OrderPcs
  <2>2. ServicesType' /\ generation <= generation'
    BY <1>1, <1>3, <2>1 DEF ServicesInv, ServicesType
  <2>3. OrderIsInLine(u)' /\ MarkIsInLine(u)'
    BY <1>1, <1>2, <1>3, <2>1 DEF OrderIsInLine, MarkIsInLine
  <2>4. PortsAreInLine(u)'
    BY <1>1, <1>2, <2>1 DEF ServicesInv, UnitKept, PortsAreInLine, ServiceWorld!Free
  <2>5. UnitKept(u)'
    BY <2>3, <2>4 DEF UnitKept
  <2>6. QED
    BY <1>1, <1>3, <2>1, <2>2, <2>5, OneUnitMoves
<1>4. CASE saved' = saved /\ order' = [order EXCEPT ![u].pc = "done", ![u].acked = FALSE]
  <2> DEFINE r == [order[u] EXCEPT !.pc = "done", !.acked = FALSE]
  <2>0. order \in [Unit -> OrderRecord] /\ order[u] \in OrderRecord
    BY DEF ServicesInv, ServicesType
  <2>1. r \in OrderRecord /\ r.pc = "done" /\ r.verb = order[u].verb /\ r.acked = FALSE
    BY <2>0 DEF OrderRecord, OrderPcs
  <2>2. order' = [order EXCEPT ![u] = r]
    BY <1>4, <2>0
  <2> HIDE DEF r
  <2>3. order' \in [Unit -> OrderRecord] /\ order'[u] = r /\ \A v \in Unit : v # u => order'[v] = order[v]
    BY <2>0, <2>1, <2>2
  <2>4. ServicesType' /\ generation <= generation'
    BY <1>1, <1>4, <2>3 DEF ServicesInv, ServicesType
  <2>5. OrderIsInLine(u)' /\ MarkIsInLine(u)'
    BY <1>1, <1>2, <1>4, <2>1, <2>3 DEF OrderIsInLine, MarkIsInLine
  <2>6. PortsAreInLine(u)'
    BY <1>1, <1>2, <2>1, <2>3 DEF ServicesInv, UnitKept, PortsAreInLine, ServiceWorld!Free
  <2>7. UnitKept(u)'
    BY <2>5, <2>6 DEF UnitKept
  <2>8. QED
    BY <1>1, <1>4, <2>3, <2>4, <2>7, OneUnitMoves
<1>5. QED
  BY <1>3, <1>4 DEF ServiceWorld!Save

\* The page is loaded anew: what was not saved is lost.
LEMMA ReloadKeeps == ServicesInv /\ ServiceWorld!Reload => ServicesInv'
<1> SUFFICES ASSUME ServicesInv, ServiceWorld!Reload PROVE ServicesInv'
  OBVIOUS
<1>1. ServicesType'
  BY RestIsOrder DEF ServicesInv, ServicesType, ServiceWorld!Reload
<1>2. ASSUME NEW u \in Unit PROVE UnitKept(u)'
  <2>1. /\ order'[u] = ServiceWorld!Rest /\ install' = {} /\ heard'[u] = 0 /\ generation' = 0 /\ open'[u] = 0
        /\ gate'[u] = ServiceWorld!Free
    BY DEF ServiceWorld!Reload
  <2>2. OrderIsInLine(u)' /\ MarkIsInLine(u)'
    BY <2>1, RestIsOrder DEF OrderIsInLine, MarkIsInLine
  <2>0. ServiceWorld!Free' = ServiceWorld!Free
    BY DEF ServiceWorld!Free
  <2>3. PortsAreInLine(u)'
    BY <2>0, <2>1, RestIsOrder DEF PortsAreInLine
  <2>4. QED
    BY <2>2, <2>3 DEF UnitKept
<1>3. QED
  BY <1>1, <1>2 DEF ServicesInv

\* Every step of the services.
LEMMA ServicesStep == ServicesInv /\ ServiceWorld!Next => ServicesInv'
BY ListensKeeps, CrashesKeeps, BeginKeeps, PackageKeeps, InstallEndsKeeps, ClaimKeeps, StartsKeeps, WaitKeeps, SettleKeeps,
   ReleaseKeeps, FinishKeeps, MarkKeeps, SaveKeeps, ReloadKeeps DEF ServiceWorld!Next

\* A step of another part changes nothing here.
LEMMA ServicesStay == ServicesInv /\ UNCHANGED servicesVars => ServicesInv'
<1> SUFFICES ASSUME ServicesInv, UNCHANGED servicesVars PROVE ServicesInv'
  OBVIOUS
<1>1. UNCHANGED <<process, heard, generation, open, owns, gate, install, marker, saved, order>>
  BY DEF servicesVars
<1>2. ServicesType' /\ generation' \in Nat /\ generation <= generation'
  BY <1>1 DEF ServicesInv, ServicesType
<1>3. ASSUME NEW u \in Unit PROVE UnitKept(u)'
  BY <1>1, <1>2, UnitStands DEF ServicesInv
<1>4. QED
  BY <1>2, <1>3 DEF ServicesInv

\* A step is one of the services or leaves their variables alone.
LEMMA ServicesInFocus == [Next]_allVars => ServiceWorld!Next \/ UNCHANGED servicesVars
BY DEF Next, Still, allVars

\* A service that is reported as started has listened since, one that failed leaves nothing, an enablement that was
\* acknowledged is in the snapshot (service-command-bridge.ts:55, service-world.ts:284): for any units and bounds.
THEOREM ServicesAreKept == Spec => []ServicesKept
<1>1. Init => ServicesInv
  BY ServicesStart DEF Init
<1>2. ServicesInv /\ [Next]_allVars => ServicesInv'
  BY ServicesInFocus, ServicesStep, ServicesStay
<1>3. ServicesInv => ServicesKept
  BY DEF ServicesInv, UnitKept, PortsAreInLine, MarkIsInLine, ServicesKept, ServiceWorld!StartedHasListened,
         ServiceWorld!FailedLeavesNothing, ServiceWorld!EnabledIsSaved, ServiceWorld!Ended, ServiceWorld!At
<1>4. QED
  BY <1>1, <1>2, <1>3, PTL DEF Spec

-----------------------------------------------------------------------------
(* The WASI program and its worker (WasiRuntime).                          *)

RunRecord == [pc : {"new", "stdin", "waiting", "ending", "done"}, code : Wasi!Codes \cup {Wasi!Unanswered},
              listens : BOOLEAN, timer : BOOLEAN]
ThreadRecord == [life : {"none", "up", "gone"}, posted : {"none", "result", "failure"}, event : {"none", "error", "exit"}]
StdoutRecord == [sent : 0..MaxPiece, arrived : Seq(Piece), written : Seq(Seq(Piece))]

\* Only a command that waits has a timer and listens; one that has not begun has no worker; the answer is there, and the
\* output written, from the moment the command is settled.
WasiInv ==
    /\ run \in RunRecord /\ thread \in ThreadRecord /\ stdout \in StdoutRecord
    /\ run.listens \/ run.timer => run.pc = "waiting"
    /\ run.pc \in {"new", "stdin"} => thread.life = "none"
    /\ run.pc = "done" => thread.life # "up"
    /\ run.pc \in {"new", "stdin", "waiting"} => run.code = Wasi!Unanswered /\ stdout.written = <<>>
    /\ stdout.written = <<>> \/ Len(stdout.written) = 1

\* The invariant holds at first.
LEMMA WasiStart == Wasi!Init => WasiInv
<1>0. MaxPiece \in Nat
  BY BoundsAssumption
<1>1. 0 \in 0..MaxPiece
  BY <1>0
<1>2. QED
  BY <1>1 DEF Wasi!Init, WasiInv, RunRecord, ThreadRecord, StdoutRecord, Wasi!Unanswered

\* The fields of the records that a step does not name.
LEMMA SettledRecord ==
    \A code \in Wasi!Codes : /\ Wasi!Settle(code) \in RunRecord /\ Wasi!Settle(code).pc = "ending"
                             /\ ~Wasi!Settle(code).listens /\ ~Wasi!Settle(code).timer
                             /\ Wasi!Settle(code).code = code
BY DEF Wasi!Settle, RunRecord

\* What settles a command does so once.
LEMMA SettlingKeeps ==
    ASSUME WasiInv, NEW code \in Wasi!Codes, Wasi!Finish(code)
    PROVE  /\ run' \in RunRecord /\ stdout' \in StdoutRecord /\ (stdout'.written = <<>> \/ Len(stdout'.written) = 1)
           /\ run.pc = "waiting" => run'.pc = "ending" /\ ~run'.listens /\ ~run'.timer /\ run.code = Wasi!Unanswered
           /\ run.pc # "waiting" => run' = run /\ stdout' = stdout
<1>1. CASE run.pc = "waiting"
  <2>1. run' = Wasi!Settle(code) /\ stdout' = [stdout EXCEPT !.written = Append(stdout.written, stdout.arrived)]
    BY <1>1 DEF Wasi!Finish, Wasi!Unsettled
  <2>2. stdout.written = <<>> /\ stdout.arrived \in Seq(Piece) /\ stdout \in StdoutRecord
    BY <1>1 DEF WasiInv, StdoutRecord
  <2>3. Append(stdout.written, stdout.arrived) \in Seq(Seq(Piece)) /\ Len(Append(stdout.written, stdout.arrived)) = 1
    BY <2>2
  <2>4. stdout' \in StdoutRecord /\ Len(stdout'.written) = 1
    BY <2>1, <2>2, <2>3 DEF StdoutRecord
  <2>5. QED
    BY <1>1, <2>1, <2>4, SettledRecord DEF WasiInv
<1>2. CASE run.pc # "waiting"
  BY <1>2 DEF Wasi!Finish, Wasi!Unsettled, WasiInv
<1>3. QED
  BY <1>1, <1>2

\* The fields of the worker's record.
LEMMA ThreadFields ==
    ASSUME NEW t \in ThreadRecord
    PROVE  /\ \A l \in {"none", "up", "gone"} : [t EXCEPT !.life = l] \in ThreadRecord /\ [t EXCEPT !.life = l].life = l
           /\ \A w \in {"none", "result", "failure"} : [t EXCEPT !.posted = w] \in ThreadRecord
                                                       /\ [t EXCEPT !.posted = w].life = t.life
           /\ \A e \in {"none", "error", "exit"} : [t EXCEPT !.event = e] \in ThreadRecord
                                                   /\ [t EXCEPT !.event = e].life = t.life
BY DEF ThreadRecord

\* Every step of a program keeps it.
LEMMA WasiStep == WasiInv /\ Wasi!Next => WasiInv'
<1> SUFFICES ASSUME WasiInv, Wasi!Next PROVE WasiInv'
  OBVIOUS
<1>c. /\ "timeout" \in Wasi!Codes /\ "interrupted" \in Wasi!Codes /\ "program" \in Wasi!Codes /\ "error" \in Wasi!Codes
      /\ \A code \in Wasi!Codes : code # Wasi!Unanswered
  BY DEF Wasi!Codes, Wasi!Unanswered
<1>1. ASSUME NEW code \in Wasi!Codes, Wasi!Refuse(code) PROVE WasiInv'
  BY <1>1, <1>c DEF Wasi!Refuse, WasiInv, RunRecord
<1>2. CASE Wasi!ReadInput
  BY <1>2 DEF Wasi!ReadInput, WasiInv, RunRecord
<1>3. CASE Wasi!Start
  BY <1>3, ThreadFields DEF Wasi!Start, WasiInv, RunRecord
<1>4. ASSUME NEW code \in Wasi!Codes, Wasi!Finish(code), UNCHANGED thread PROVE WasiInv'
  BY <1>4, SettlingKeeps DEF WasiInv
<1>5. CASE Wasi!Abort
  <2>1. CASE run.listens
    BY <1>4, <1>5, <1>c, <2>1 DEF Wasi!Abort
  <2>2. CASE ~run.listens
    BY <1>5, <2>2 DEF Wasi!Abort, WasiInv
  <2>3. QED
    BY <2>1, <2>2
<1>6. CASE Wasi!Timeout
  BY <1>4, <1>6, <1>c DEF Wasi!Timeout
<1>7. CASE Wasi!Output
  <2>0. MaxPiece \in Nat
    BY BoundsAssumption
  <2>1. stdout.sent \in 0..MaxPiece /\ stdout.sent < MaxPiece /\ stdout' = [stdout EXCEPT !.sent = stdout.sent + 1]
        /\ UNCHANGED <<run, thread>>
    BY <1>7 DEF Wasi!Output, WasiInv, StdoutRecord
  <2>2. stdout.sent + 1 \in 0..MaxPiece
    BY <2>0, <2>1
  <2>3. stdout' \in StdoutRecord /\ stdout'.written = stdout.written
    BY <2>1, <2>2 DEF WasiInv, StdoutRecord
  <2>4. QED
    BY <2>1, <2>3 DEF WasiInv
<1>8. ASSUME NEW piece \in Piece, Wasi!Arrives(piece) PROVE WasiInv'
  <2>1. /\ stdout' = [stdout EXCEPT !.arrived = Append(stdout.arrived, piece)] /\ UNCHANGED <<run, thread>>
        /\ stdout.arrived \in Seq(Piece)
    BY <1>8 DEF Wasi!Arrives, WasiInv, StdoutRecord
  <2>2. Append(stdout.arrived, piece) \in Seq(Piece)
    BY <2>1
  <2>3. stdout' \in StdoutRecord /\ stdout'.written = stdout.written
    BY <2>1, <2>2 DEF WasiInv, StdoutRecord
  <2>4. QED
    BY <2>1, <2>3 DEF WasiInv
<1>9. CASE Wasi!Post
  <2>1. PICK w \in {"result", "failure"} : thread' = [thread EXCEPT !.posted = w]
    BY <1>9 DEF Wasi!Post
  <2>2. thread' \in ThreadRecord /\ thread'.life = thread.life
    BY <2>1 DEF WasiInv, ThreadRecord
  <2>3. QED
    BY <1>9, <2>2 DEF Wasi!Post, WasiInv
<1>10. CASE Wasi!Dies
  <2>1. thread' \in ThreadRecord /\ thread'.life = "gone"
    BY <1>10 DEF Wasi!Dies, WasiInv, ThreadRecord
  <2>2. QED
    BY <1>10, <2>1 DEF Wasi!Dies, WasiInv
<1>11. ASSUME thread' \in ThreadRecord, thread'.life = thread.life, NEW code \in Wasi!Codes, Wasi!Finish(code)
       PROVE  WasiInv'
  BY <1>11, SettlingKeeps DEF WasiInv
<1>12. CASE Wasi!Message
  <2>1. thread' \in ThreadRecord /\ thread'.life = thread.life
    BY <1>12 DEF Wasi!Message, WasiInv, ThreadRecord
  <2>2. QED
    BY <1>11, <1>12, <1>c, <2>1 DEF Wasi!Message
<1>13. CASE Wasi!ErrorEvent
  BY <1>11, <1>13, <1>c, ThreadFields DEF Wasi!ErrorEvent, WasiInv
<1>14. CASE Wasi!Terminated
  BY <1>14, ThreadFields DEF Wasi!Terminated, WasiInv, RunRecord
<1>15. QED
  BY <1>1, <1>2, <1>3, <1>5, <1>6, <1>7, <1>8, <1>9, <1>10, <1>12, <1>13, <1>14 DEF Wasi!Next

\* The answer that was chosen is the one that is given.
LEMMA WasiStands == WasiInv /\ Wasi!Next => (run.code # Wasi!Unanswered => run'.code = run.code)
<1> SUFFICES ASSUME WasiInv, Wasi!Next, run.code # Wasi!Unanswered PROVE run'.code = run.code
  OBVIOUS
<1>1. run \in RunRecord /\ run.pc \notin {"new", "stdin", "waiting"} /\ ~run.listens /\ ~run.timer
  BY DEF WasiInv
<1>2. ASSUME NEW code, Wasi!Finish(code) PROVE run'.code = run.code
  BY <1>1, <1>2 DEF Wasi!Finish, Wasi!Unsettled
<1>3. QED
  BY <1>1, <1>2 DEF Wasi!Next, Wasi!Refuse, Wasi!ReadInput, Wasi!Start, Wasi!Abort, Wasi!Timeout, Wasi!Post, Wasi!Dies,
     Wasi!Message, Wasi!ErrorEvent, Wasi!Terminated, Wasi!Output, Wasi!Arrives, RunRecord

\* A step of another part changes nothing here.
LEMMA WasiStay == WasiInv /\ UNCHANGED wasiVars => WasiInv'
BY DEF wasiVars, WasiInv

\* A step is one of the program or leaves its variables alone.
LEMMA WasiInFocus == [Next]_allVars => Wasi!Next \/ UNCHANGED wasiVars
BY DEF Next, Still, allVars

-----------------------------------------------------------------------------
(* The git command and its library (GitWorld).                             *)

GitCodes == {"none", "ok", "failed", "cancelled", "usage", "remote"}
GitRecord == [op : Git!Operations \cup {"none", "refused"}, step : 0..4, busy : BOOLEAN, sending : BOOLEAN,
              cancelled : BOOLEAN, code : GitCodes]

\* What the library still does is a step of the operation; a success has made them all.
GitRecordKept(r) ==
    /\ r \in GitRecord
    /\ r.busy => r.op \in Git!Operations /\ r.step < Len(Git!Steps[r.op])
    /\ r.code = "ok" => ~r.busy /\ r.op \in Git!Operations /\ r.step = Len(Git!Steps[r.op])
    /\ r.op = "none" => r.code = "none" /\ ~r.busy /\ r.step = 0

GitInv ==
    /\ DOMAIN command = Git!Git /\ command = [c \in Git!Git |-> command[c]]
    /\ \A c \in Git!Git : GitRecordKept(command[c])
    /\ requests \in Seq(Git!Git) /\ trouble \in 0..MaxTrouble

\* Every operation has one to four steps, and the last one is not the look at the configuration.
LEMMA StepsOfGit ==
    \A o \in Git!Operations : /\ Len(Git!Steps[o]) \in 1..4
                              /\ Git!Steps[o][Len(Git!Steps[o])] # "config"
                              /\ o \notin {"none", "refused"}
<1> SUFFICES ASSUME NEW o \in Git!Operations
             PROVE  /\ Len(Git!Steps[o]) \in 1..4 /\ Git!Steps[o][Len(Git!Steps[o])] # "config"
                    /\ o \notin {"none", "refused"}
  OBVIOUS
<1>1. o \in {"init", "status", "diff", "add", "commit", "log", "branch", "branches", "checkout", "create", "clone",
             "fetch", "origin"}
  BY DEF Git!Operations, Git!Steps
<1>2. Git!Steps[o] \in {<<"write">>, <<"read", "read">>, <<"read">>, <<"write", "write">>, <<"write", "read">>,
                        <<"http", "http", "write">>, <<"config", "http", "http", "write">>}
  BY <1>1 DEF Git!Steps
<1>3. QED
  BY <1>1, <1>2

\* The numbers of steps as numbers.
LEMMA StepNumbers ==
    /\ \A o \in Git!Operations : Len(Git!Steps[o]) \in Nat /\ 1 <= Len(Git!Steps[o]) /\ Len(Git!Steps[o]) <= 4
    /\ \A r : GitRecordKept(r) => r.step \in Nat /\ r.step <= 4
<1>1. \A n \in 1..4 : n \in Nat /\ 1 <= n /\ n <= 4
  OBVIOUS
<1>2. \A n \in 0..4 : n \in Nat /\ n <= 4
  OBVIOUS
<1>3. \A r : GitRecordKept(r) => r.step \in 0..4
  BY DEF GitRecordKept, GitRecord
<1>4. QED
  BY <1>1, <1>2, <1>3, StepsOfGit

\* The invariant holds at first.
LEMMA GitStart == Git!Init => GitInv
<1> SUFFICES ASSUME Git!Init PROVE GitInv
  OBVIOUS
<1>0. MaxTrouble \in Nat
  BY BoundsAssumption
<1>1. 0 \in 0..MaxTrouble /\ 0 \in 0..4
  BY <1>0
<1>2. GitRecordKept(Git!Unasked)
  BY <1>1, StepsOfGit DEF GitRecordKept, GitRecord, GitCodes, Git!Unasked
<1>3. QED
  BY <1>1, <1>2 DEF Git!Init, GitInv

\* One command changes, to a record that is kept.
LEMMA OneGitMoves ==
    ASSUME GitInv, NEW c \in Git!Git, NEW r, GitRecordKept(r), command' = [command EXCEPT ![c] = r],
           requests' \in Seq(Git!Git), trouble' \in 0..MaxTrouble
    PROVE  GitInv'
BY DEF GitInv

\* The transitions of a record.
LEMMA ThrownRecord ==
    ASSUME NEW r, GitRecordKept(r), r.busy, NEW code \in GitCodes \ {"ok"}
    PROVE  GitRecordKept([r EXCEPT !.busy = FALSE, !.sending = FALSE, !.code = IF r.code = "none" THEN code ELSE r.code])
<1> DEFINE s == [r EXCEPT !.busy = FALSE, !.sending = FALSE, !.code = IF r.code = "none" THEN code ELSE r.code]
<1>0. r \in GitRecord
  BY DEF GitRecordKept
<1>1. s \in GitRecord /\ s.op = r.op /\ s.step = r.step /\ s.busy = FALSE
  BY <1>0 DEF GitRecord
<1>2. s.code = IF r.code = "none" THEN code ELSE r.code
  BY <1>0 DEF GitRecord
<1> HIDE DEF s
<1>3. s.code # "ok" /\ s.op # "none"
  BY <1>1, <1>2, StepsOfGit DEF GitRecordKept
<1>4. GitRecordKept(s)
  BY <1>1, <1>3 DEF GitRecordKept
<1>5. QED
  BY <1>4 DEF s

\* The record of a command that has made a step.
LEMMA MadeRecord ==
    ASSUME NEW r, GitRecordKept(r), r.busy
    PROVE  GitRecordKept([r EXCEPT !.step = r.step + 1, !.busy = ~(r.step + 1 = Len(Git!Steps[r.op])),
                                   !.sending = FALSE,
                                   !.code = IF r.step + 1 = Len(Git!Steps[r.op]) /\ r.code = "none" THEN "ok"
                                            ELSE r.code])
<1> DEFINE ends == r.step + 1 = Len(Git!Steps[r.op])
           s == [r EXCEPT !.step = r.step + 1, !.busy = ~ends, !.sending = FALSE,
                          !.code = IF ends /\ r.code = "none" THEN "ok" ELSE r.code]
<1>0. /\ r \in GitRecord /\ r.op \in Git!Operations /\ r.step \in 0..4 /\ r.step < Len(Git!Steps[r.op])
      /\ Len(Git!Steps[r.op]) \in 1..4 /\ r.code # "ok" /\ r.op # "none"
  BY StepsOfGit DEF GitRecordKept, GitRecord
<1>1. r.step + 1 \in 0..4 /\ (~ends => r.step + 1 < Len(Git!Steps[r.op]))
  <2> HIDE DEF s
  <2>1. r.step \in Nat /\ Len(Git!Steps[r.op]) \in Nat /\ Len(Git!Steps[r.op]) <= 4
    BY <1>0, StepNumbers
  <2>2. r.step < Len(Git!Steps[r.op])
    BY <1>0
  <2>3. r.step + 1 \in 0..4 /\ (r.step + 1 # Len(Git!Steps[r.op]) => r.step + 1 < Len(Git!Steps[r.op]))
    BY <2>1, <2>2
  <2>4. QED
    BY <2>3
<1>2. s \in GitRecord
  <2>1. (IF ends /\ r.code = "none" THEN "ok" ELSE r.code) \in GitCodes
    BY <1>0 DEF GitRecord, GitCodes
  <2>2. (~ends) \in BOOLEAN
    OBVIOUS
  <2> HIDE DEF ends
  <2>3. QED
    BY <1>0, <1>1, <2>1, <2>2 DEF GitRecord
<1>3. s.op = r.op /\ s.step = r.step + 1 /\ (s.busy <=> ~ends)
      /\ s.code = IF ends /\ r.code = "none" THEN "ok" ELSE r.code
  <2> HIDE DEF ends
  <2>1. QED
    BY <1>0 DEF GitRecord
<1> HIDE DEF s
<1>4. s.busy => s.step < Len(Git!Steps[s.op])
  BY <1>1, <1>3
<1>5. s.code = "ok" => ~s.busy /\ s.step = Len(Git!Steps[s.op])
  BY <1>0, <1>3
<1>6. GitRecordKept(s)
  BY <1>0, <1>2, <1>3, <1>4, <1>5 DEF GitRecordKept
<1>7. QED
  BY <1>6 DEF s, ends

\* A step of the library has been made, or has thrown.
LEMMA MadeKeeps == \A c \in Git!Git : GitInv /\ command[c].busy /\ Git!Made(c)
                      /\ requests' \in Seq(Git!Git) /\ trouble' \in 0..MaxTrouble => GitInv'
<1> SUFFICES ASSUME NEW c \in Git!Git, GitInv, command[c].busy, Git!Made(c), requests' \in Seq(Git!Git),
                    trouble' \in 0..MaxTrouble
             PROVE  GitInv'
  OBVIOUS
<1> DEFINE r == command[c]
           s == [r EXCEPT !.step = r.step + 1, !.busy = ~(r.step + 1 = Len(Git!Steps[r.op])), !.sending = FALSE,
                          !.code = IF r.step + 1 = Len(Git!Steps[r.op]) /\ r.code = "none" THEN "ok" ELSE r.code]
<1>1. GitRecordKept(r)
  BY DEF GitInv
<1>2. GitRecordKept(s)
  <2> HIDE DEF r
  <2>1. r.busy
    BY DEF r
  <2>2. QED
    BY <1>1, <2>1, MadeRecord
<1>3. command' = [command EXCEPT ![c] = s]
  <2>1. command = [b \in Git!Git |-> command[b]]
    BY DEF GitInv
  <2>2. QED
    BY <2>1 DEF Git!Made
<1> HIDE DEF s
<1>4. QED
  BY <1>2, <1>3, OneGitMoves

\* A command that ends by an error is not reported as done.
LEMMA ThrownKeeps == \A c \in Git!Git, code \in GitCodes \ {"ok"} : GitInv /\ command[c].busy /\ Git!Thrown(c, code)
                      /\ requests' \in Seq(Git!Git) /\ trouble' \in 0..MaxTrouble => GitInv'
<1> SUFFICES ASSUME NEW c \in Git!Git, NEW code \in GitCodes \ {"ok"}, GitInv, command[c].busy, Git!Thrown(c, code),
                    requests' \in Seq(Git!Git), trouble' \in 0..MaxTrouble
             PROVE  GitInv'
  OBVIOUS
<1> DEFINE r == command[c]
           s == [r EXCEPT !.busy = FALSE, !.sending = FALSE, !.code = IF r.code = "none" THEN code ELSE r.code]
<1>1. GitRecordKept(r)
  BY DEF GitInv
<1>2. GitRecordKept(s)
  <2> HIDE DEF r
  <2>1. r.busy
    BY DEF r
  <2>2. QED
    BY <1>1, <2>1, ThrownRecord
<1>3. command' = [command EXCEPT ![c] = s]
  <2>1. command = [b \in Git!Git |-> command[b]]
    BY DEF GitInv
  <2>2. QED
    BY <2>1 DEF Git!Thrown
<1> HIDE DEF s
<1>4. QED
  BY <1>2, <1>3, OneGitMoves

\* Every step of a git command keeps it.
LEMMA GitStep == GitInv /\ Git!Next => GitInv'
<1> SUFFICES ASSUME GitInv, NEW c \in Git!Git,
                    \/ \E code \in {"usage", "remote"} : Git!Refuse(c, code)
                    \/ \E o \in Git!Operations : Git!Begin(c, o)
                    \/ Git!Local(c) \/ Git!LocalFails(c) \/ Git!Config(c) \/ Git!Send(c) \/ Git!Answered(c) \/ Git!Cancel(c)
             PROVE  GitInv'
  BY DEF Git!Next
<1>0. MaxTrouble \in Nat
  BY BoundsAssumption
<1>1. /\ command = [b \in Git!Git |-> command[b]] /\ GitRecordKept(command[c])
      /\ requests \in Seq(Git!Git) /\ trouble \in 0..MaxTrouble /\ Append(requests, c) \in Seq(Git!Git)
  BY DEF GitInv
<1>t. Git!Trouble => trouble' \in 0..MaxTrouble
  BY <1>0, <1>1 DEF Git!Trouble
<1>c. {"usage", "remote", "failed", "cancelled"} \subseteq GitCodes \ {"ok"} /\ Git!Told(c) \in {"failed", "cancelled"}
  BY DEF GitCodes, Git!Told
<1>2. ASSUME NEW code \in {"usage", "remote"}, Git!Refuse(c, code) PROVE GitInv'
  <2> DEFINE s == [command[c] EXCEPT !.op = "refused", !.code = code]
  <2>1. command[c].op = "none" /\ command' = [command EXCEPT ![c] = s] /\ UNCHANGED <<requests, trouble>>
    BY <1>1, <1>2 DEF Git!Refuse, Git!Typed
  <2>2. GitRecordKept(s)
    BY <1>1, <2>1 DEF GitRecordKept, GitRecord, GitCodes
  <2> HIDE DEF s
  <2>3. QED
    BY <1>1, <2>1, <2>2, OneGitMoves
<1>3. ASSUME NEW o \in Git!Operations, Git!Begin(c, o) PROVE GitInv'
  <2> DEFINE s == [command[c] EXCEPT !.op = o, !.busy = TRUE]
  <2>1. command[c].op = "none" /\ command' = [command EXCEPT ![c] = s] /\ UNCHANGED <<requests, trouble>>
    BY <1>1, <1>3 DEF Git!Begin, Git!Typed
  <2>2. command[c].step = 0
    BY <1>1, <2>1 DEF GitRecordKept
  <2>a. s \in GitRecord /\ s.op = o /\ s.step = 0 /\ s.code = "none"
    BY <1>1, <2>1, <2>2 DEF GitRecordKept, GitRecord, GitCodes
  <2>b. 0 < Len(Git!Steps[o]) /\ o # "none"
    BY StepsOfGit, StepNumbers
  <2>3. GitRecordKept(s)
    <3> HIDE DEF s
    <3>1. QED
      BY <2>a, <2>b DEF GitRecordKept
  <2> HIDE DEF s
  <2>4. QED
    BY <1>1, <2>1, <2>3, OneGitMoves
<1>4. CASE Git!Local(c)
  BY <1>1, <1>4, MadeKeeps DEF Git!Local
<1>5. CASE Git!LocalFails(c)
  BY <1>1, <1>5, <1>t, <1>c, ThrownKeeps DEF Git!LocalFails
<1>6. CASE Git!Config(c)
  <2>1. CASE Git!Thrown(c, "remote")
    BY <1>1, <1>6, <1>c, <2>1, ThrownKeeps DEF Git!Config
  <2>2. CASE command' = [command EXCEPT ![c].step = @ + 1, ![c].code = IF command[c].cancelled THEN "cancelled" ELSE @]
    <3> DEFINE s == [command[c] EXCEPT !.step = command[c].step + 1,
                                       !.code = IF command[c].cancelled THEN "cancelled" ELSE command[c].code]
    <3>1. command' = [command EXCEPT ![c] = s] /\ UNCHANGED <<requests, trouble>>
      BY <1>1, <1>6, <2>2 DEF Git!Config
    <3>2. command[c].busy /\ Git!Step(c) = "config"
      BY <1>6 DEF Git!Config
    <3>3. /\ command[c].op \in Git!Operations /\ command[c].step + 1 < Len(Git!Steps[command[c].op])
          /\ command[c].step + 1 \in 0..4 /\ command[c].code # "ok"
      <4>1. /\ command[c].op \in Git!Operations /\ command[c].step < Len(Git!Steps[command[c].op])
            /\ command[c].step \in 0..4 /\ command[c].code # "ok"
        BY <1>1, <3>2 DEF GitRecordKept, GitRecord
      <4>2. Len(Git!Steps[command[c].op]) \in 1..4 /\ command[c].step + 1 # Len(Git!Steps[command[c].op])
        BY <3>2, <4>1, StepsOfGit DEF Git!Step
      <4>3. command[c].step \in Nat /\ Len(Git!Steps[command[c].op]) \in Nat /\ Len(Git!Steps[command[c].op]) <= 4
        BY <1>1, <4>1, StepNumbers
      <4>4. command[c].step + 1 < Len(Git!Steps[command[c].op]) /\ command[c].step + 1 \in 0..4
        BY <4>1, <4>2, <4>3
      <4>5. QED
        BY <4>1, <4>4
    <3>4. s \in GitRecord /\ s.op = command[c].op /\ s.step = command[c].step + 1 /\ s.code # "ok"
      BY <1>1, <3>3 DEF GitRecordKept, GitRecord, GitCodes
    <3> HIDE DEF s
    <3>5. GitRecordKept(s)
      BY <3>3, <3>4, StepsOfGit DEF GitRecordKept
    <3>6. QED
      BY <1>1, <3>1, <3>5, OneGitMoves
  <2>3. QED
    BY <1>6, <2>1, <2>2 DEF Git!Config
<1>7. CASE Git!Send(c)
  <2>1. CASE Git!Thrown(c, Git!Told(c)) /\ UNCHANGED requests
    BY <1>1, <1>7, <1>c, <2>1, ThrownKeeps DEF Git!Send
  <2>2. CASE command' = [command EXCEPT ![c].sending = TRUE] /\ requests' = Append(requests, c)
    <3> DEFINE s == [command[c] EXCEPT !.sending = TRUE]
    <3>1. command' = [command EXCEPT ![c] = s] /\ UNCHANGED trouble
      BY <1>1, <1>7, <2>2 DEF Git!Send
    <3>2. GitRecordKept(s)
      BY <1>1 DEF GitRecordKept, GitRecord
    <3> HIDE DEF s
    <3>3. QED
      BY <1>1, <2>2, <3>1, <3>2, OneGitMoves
  <2>3. QED
    BY <1>7, <2>1, <2>2 DEF Git!Send
<1>8. CASE Git!Answered(c)
  BY <1>1, <1>8, <1>t, <1>c, MadeKeeps, ThrownKeeps DEF Git!Answered
<1>9. CASE Git!Cancel(c)
  <2> DEFINE code == IF command[c].op \in Git!Network /\ Git!Step(c) # "config" THEN "cancelled" ELSE command[c].code
             s == [command[c] EXCEPT !.cancelled = TRUE, !.code = code]
  <2>1. command' = [command EXCEPT ![c] = s] /\ UNCHANGED <<requests, trouble>>
    BY <1>1, <1>9 DEF Git!Cancel, Git!Interrupted
  <2>2. command[c].op # "none" /\ command[c].code = "none" /\ code \in {"cancelled", "none"}
    BY <1>9 DEF Git!Cancel, Git!Open
  <2> HIDE DEF code
  <2>3. GitRecordKept(s)
    BY <1>1, <2>2 DEF GitRecordKept, GitRecord, GitCodes
  <2> HIDE DEF s
  <2>4. QED
    BY <1>1, <2>1, <2>3, OneGitMoves
<1>10. QED
  BY <1>2, <1>3, <1>4, <1>5, <1>6, <1>7, <1>8, <1>9

\* No request begins for a command that was cancelled.
LEMMA GitSends == GitInv /\ Git!Next => (Len(requests') > Len(requests) => ~command[Git!Last(requests')].cancelled)
<1> SUFFICES ASSUME GitInv, Git!Next, Len(requests') > Len(requests) PROVE ~command[Git!Last(requests')].cancelled
  OBVIOUS
<1>1. requests \in Seq(Git!Git) /\ Len(requests) \in Nat
  BY DEF GitInv
<1>2. requests' # requests
  BY <1>1
<1>3. PICK c \in Git!Git : Git!MaySend(c) /\ requests' = Append(requests, c)
  BY <1>2 DEF Git!Next, Git!Refuse, Git!Begin, Git!Local, Git!LocalFails, Git!Config, Git!Answered, Git!Cancel, Git!Send
<1>4. Git!Last(requests') = c
  BY <1>1, <1>3 DEF Git!Last
<1>5. QED
  BY <1>3, <1>4 DEF Git!MaySend

\* A step of another part changes nothing here.
LEMMA GitStay == GitInv /\ UNCHANGED gitVars => GitInv'
BY DEF gitVars, GitInv

\* A step is one of git or leaves its variables alone.
LEMMA GitInFocus == [Next]_allVars => Git!Next \/ UNCHANGED gitVars
BY DEF Next, Still, allVars

-----------------------------------------------------------------------------
(* What the page carries out for a command (BrowserControl).               *)

BridgeRecord == [active : BOOLEAN, pc : {"idle", "list", "read", "run", "remove"}, names : SUBSET ControlRequest,
                 req : ControlRequest \cup {Control!None}]
HostStates == {"new", "waiting", "answered", "timedOut", "dead"}

ControlType ==
    /\ now \in 0..MaxTime /\ host \in [ControlRequest -> HostStates]
    /\ expires \in [ControlRequest -> 0..(MaxTime + ControlTimeout)]
    /\ requestFile \subseteq ControlRequest /\ response \subseteq ControlRequest
    /\ bridge \in BridgeRecord /\ runs \in [ControlRequest -> Nat]

\* The bridge is at a request once it has read one.
Busy(r) == bridge.req = r /\ bridge.pc \in {"run", "remove"}

\* A request that has been carried out is removed by whoever carried it out; one that is answered was carried out, one
\* that timed out has expired.
RequestKept(r) ==
    /\ runs[r] \in {0, 1}
    /\ runs[r] = 1 /\ r \in requestFile => Busy(r)
    /\ r \in response \/ host[r] = "answered" \/ Busy(r) => runs[r] = 1
    /\ host[r] = "timedOut" => now > expires[r]
    /\ host[r] = "new" => r \notin requestFile /\ runs[r] = 0
    /\ bridge.req = r /\ bridge.pc = "read" => runs[r] = 0 /\ host[r] # "new"

ControlInv ==
    /\ ControlType
    /\ bridge.pc \in {"read", "run", "remove"} => bridge.req \in ControlRequest
    /\ \A r \in ControlRequest : RequestKept(r)

\* The records of the bridge.
LEMMA BridgeFields ==
    ASSUME NEW b \in BridgeRecord
    PROVE  /\ \A p \in {"idle", "list", "read", "run", "remove"} :
                 [b EXCEPT !.pc = p] \in BridgeRecord /\ [b EXCEPT !.pc = p].pc = p /\ [b EXCEPT !.pc = p].req = b.req
           /\ /\ [b EXCEPT !.active = FALSE] \in BridgeRecord /\ [b EXCEPT !.active = FALSE].pc = b.pc
              /\ [b EXCEPT !.active = FALSE].req = b.req
           /\ b.names \subseteq ControlRequest
BY DEF BridgeRecord

\* The invariant holds at first.
LEMMA ControlStart == Control!Init => ControlInv
<1> SUFFICES ASSUME Control!Init PROVE ControlInv
  OBVIOUS
<1>0. MaxTime \in Nat /\ ControlTimeout \in Nat
  BY BoundsAssumption
<1>1. 0 \in 0..MaxTime /\ 0 \in 0..(MaxTime + ControlTimeout)
  BY <1>0
<1>2. bridge \in BridgeRecord /\ bridge.pc = "idle"
  BY DEF Control!Init, BridgeRecord
<1>3. ControlType
  BY <1>1, <1>2 DEF Control!Init, ControlType, HostStates
<1>4. \A r \in ControlRequest : RequestKept(r)
  BY <1>2 DEF Control!Init, RequestKept, Busy
<1>5. QED
  BY <1>2, <1>3, <1>4 DEF ControlInv

\* Time passes: a request that has expired stays so.
LEMMA TickKeeps == ControlInv /\ Control!Tick => ControlInv'
<1> SUFFICES ASSUME ControlInv, Control!Tick PROVE ControlInv'
  OBVIOUS
<1>0. MaxTime \in Nat
  BY BoundsAssumption
<1>1. now \in 0..MaxTime /\ now < MaxTime /\ now' = now + 1
      /\ UNCHANGED <<host, expires, requestFile, response, bridge, runs>>
  BY DEF Control!Tick, ControlInv, ControlType
<1>2. now' \in 0..MaxTime
  BY <1>0, <1>1
<1>3. ControlType'
  BY <1>1, <1>2 DEF ControlInv, ControlType
<1>4. ASSUME NEW r \in ControlRequest PROVE RequestKept(r)'
  <2>n. MaxTime \in Nat /\ ControlTimeout \in Nat
    BY BoundsAssumption
  <2>0. MaxTime + ControlTimeout \in Nat
    BY <2>n
  <2>1. expires[r] \in 0..(MaxTime + ControlTimeout) /\ expires'[r] = expires[r]
    BY <1>1 DEF ControlInv, ControlType
  <2>2. now > expires[r] => now' > expires[r]
    BY <1>0, <1>1, <2>0, <2>1
  <2>3. QED
    BY <1>1, <2>1, <2>2 DEF ControlInv, RequestKept, Busy
<1>5. QED
  BY <1>1, <1>3, <1>4 DEF ControlInv

\* A command writes its request.
LEMMA PostKeeps == \A q \in ControlRequest : ControlInv /\ Control!Post(q) => ControlInv'
<1> SUFFICES ASSUME NEW q \in ControlRequest, ControlInv, Control!Post(q) PROVE ControlInv'
  OBVIOUS
<1>1. /\ host[q] = "new" /\ host' = [host EXCEPT ![q] = "waiting"]
      /\ expires' = [expires EXCEPT ![q] = now + ControlTimeout] /\ requestFile' = requestFile \cup {q}
      /\ UNCHANGED <<now, response, bridge, runs>>
  BY DEF Control!Post
<1>0. MaxTime \in Nat /\ ControlTimeout \in Nat
  BY BoundsAssumption
<1>2. now + ControlTimeout \in 0..(MaxTime + ControlTimeout)
  <2>1. now \in 0..MaxTime
    BY DEF ControlInv, ControlType
  <2>2. QED
    BY <1>0, <2>1
<1>3. ControlType'
  BY <1>1, <1>2 DEF ControlInv, ControlType, HostStates
<1>4. ASSUME NEW r \in ControlRequest PROVE RequestKept(r)'
  <2>1. CASE r = q
    <3>1. host'[q] = "waiting"
      BY <1>1 DEF ControlInv, ControlType
    <3>2. runs[q] = 0
      BY <1>1 DEF ControlInv, RequestKept
    <3>3. QED
      BY <1>1, <2>1, <3>1, <3>2 DEF ControlInv, RequestKept, Busy
  <2>2. CASE r # q
    <3>1. host'[r] = host[r] /\ expires'[r] = expires[r] /\ (r \in requestFile' <=> r \in requestFile)
      BY <1>1, <2>2 DEF ControlInv, ControlType
    <3>2. QED
      BY <1>1, <3>1 DEF ControlInv, RequestKept, Busy
  <2>3. QED
    BY <2>1, <2>2
<1>5. QED
  BY <1>1, <1>3, <1>4 DEF ControlInv

\* The command has its answer, or gives up, and cleans up.
LEMMA EndsKeeps == \A q \in ControlRequest : ControlInv /\ (Control!Answered(q) \/ Control!TimesOut(q)) => ControlInv'
<1> SUFFICES ASSUME NEW q \in ControlRequest, ControlInv, Control!Answered(q) \/ Control!TimesOut(q) PROVE ControlInv'
  OBVIOUS
<1>1. PICK st \in {"answered", "timedOut"} :
         /\ host' = [host EXCEPT ![q] = st]
         /\ st = "answered" => q \in response
         /\ st = "timedOut" => now > expires[q]
  BY DEF Control!Answered, Control!TimesOut
<1>2. /\ response' = response \ {q} /\ requestFile' = requestFile \ {q} /\ host[q] = "waiting"
      /\ UNCHANGED <<now, expires, bridge, runs>>
  BY DEF Control!Answered, Control!TimesOut, Control!Cleaned
<1>3. ControlType'
  BY <1>1, <1>2 DEF ControlInv, ControlType, HostStates
<1>4. ASSUME NEW r \in ControlRequest PROVE RequestKept(r)'
  <2>1. r # q => host'[r] = host[r]
    BY <1>1 DEF ControlInv, ControlType
  <2>2. host'[q] = st
    BY <1>1 DEF ControlInv, ControlType
  <2>3. QED
    BY <1>1, <1>2, <2>1, <2>2 DEF ControlInv, RequestKept, Busy
<1>5. QED
  BY <1>2, <1>3, <1>4 DEF ControlInv

\* The host dies, and its commands with it.
LEMMA HostDiesKeeps == ControlInv /\ Control!HostDies => ControlInv'
<1> SUFFICES ASSUME ControlInv, Control!HostDies PROVE ControlInv'
  OBVIOUS
<1>1. /\ host' = [r \in ControlRequest |-> IF host[r] = "waiting" THEN "dead" ELSE host[r]]
      /\ UNCHANGED <<now, expires, requestFile, response, bridge, runs>>
  BY DEF Control!HostDies
<1>2. ControlType'
  BY <1>1 DEF ControlInv, ControlType, HostStates
<1>3. ASSUME NEW r \in ControlRequest PROVE RequestKept(r)'
  <2>1. host'[r] = IF host[r] = "waiting" THEN "dead" ELSE host[r]
    BY <1>1
  <2>2. QED
    BY <1>1, <2>1 DEF ControlInv, RequestKept, Busy
<1>4. QED
  BY <1>1, <1>2, <1>3 DEF ControlInv

\* The bridge stops, or lists the names.
LEMMA BridgeIdles == ControlInv /\ (Control!StopBridge \/ Control!Poll) => ControlInv'
<1>1. ASSUME ControlInv, Control!StopBridge PROVE ControlInv'
  <2>1. bridge' = [bridge EXCEPT !.active = FALSE] /\ UNCHANGED <<now, host, expires, requestFile, response, runs>>
    BY <1>1 DEF Control!StopBridge
  <2>2. bridge' \in BridgeRecord /\ bridge'.pc = bridge.pc /\ bridge'.req = bridge.req
    BY <1>1, <2>1, BridgeFields DEF ControlInv, ControlType
  <2>3. ControlType'
    BY <1>1, <2>1, <2>2 DEF ControlInv, ControlType
  <2>4. QED
    BY <1>1, <2>1, <2>2, <2>3 DEF ControlInv, RequestKept, Busy
<1>2. ASSUME ControlInv, Control!Poll PROVE ControlInv'
  <2>1. /\ bridge.pc = "idle" /\ bridge' = [bridge EXCEPT !.pc = "list", !.names = requestFile]
        /\ UNCHANGED <<now, host, expires, requestFile, response, runs>>
    BY <1>2 DEF Control!Poll
  <2>2. bridge' \in BridgeRecord /\ bridge'.pc = "list"
    BY <1>2, <2>1 DEF ControlInv, ControlType, BridgeRecord
  <2>3. ControlType'
    BY <1>2, <2>1, <2>2 DEF ControlInv, ControlType
  <2>4. QED
    BY <1>2, <2>1, <2>2, <2>3 DEF ControlInv, RequestKept, Busy
<1>3. QED
  BY <1>1, <1>2

\* The bridge takes the next name of its list.
LEMMA NextNameKeeps == ControlInv /\ Control!NextName => ControlInv'
<1> SUFFICES ASSUME ControlInv, Control!NextName PROVE ControlInv'
  OBVIOUS
<1>1. bridge.pc = "list" /\ UNCHANGED <<now, host, expires, requestFile, response, runs>>
  BY DEF Control!NextName
<1>2. \/ bridge' = [bridge EXCEPT !.pc = "idle", !.names = {}, !.req = Control!None]
      \/ \E q \in bridge.names : bridge' = [bridge EXCEPT !.pc = IF q \in requestFile THEN "read" ELSE "list",
                                                          !.names = bridge.names \ {q}, !.req = q]
  BY DEF Control!NextName
<1>3. CASE bridge' = [bridge EXCEPT !.pc = "idle", !.names = {}, !.req = Control!None]
  <2>1. bridge' \in BridgeRecord /\ bridge'.pc = "idle"
    BY <1>3 DEF ControlInv, ControlType, BridgeRecord
  <2>2. ControlType'
    BY <1>1, <2>1 DEF ControlInv, ControlType
  <2>3. QED
    BY <1>1, <2>1, <2>2 DEF ControlInv, RequestKept, Busy
<1>4. ASSUME NEW q \in bridge.names,
             bridge' = [bridge EXCEPT !.pc = IF q \in requestFile THEN "read" ELSE "list",
                                      !.names = bridge.names \ {q}, !.req = q]
      PROVE  ControlInv'
  <2>1. q \in ControlRequest /\ bridge \in BridgeRecord
    BY DEF ControlInv, ControlType, BridgeRecord
  <2>2. /\ bridge' \in BridgeRecord /\ bridge'.req = q /\ bridge'.pc \in {"read", "list"}
        /\ bridge'.pc = "read" => q \in requestFile
    BY <1>4, <2>1 DEF BridgeRecord
  <2>3. ControlType'
    BY <1>1, <2>2 DEF ControlInv, ControlType
  <2>4. \A r \in ControlRequest : RequestKept(r)'
    BY <1>1, <2>1, <2>2 DEF ControlInv, RequestKept, Busy
  <2>5. QED
    BY <2>1, <2>2, <2>3, <2>4 DEF ControlInv
<1>5. QED
  BY <1>2, <1>3, <1>4

\* The second guard, and the handler.
LEMMA ExecuteKeeps == ControlInv /\ Control!Execute => ControlInv'
<1> SUFFICES ASSUME ControlInv, Control!Execute PROVE ControlInv'
  OBVIOUS
<1>1. bridge.pc = "read" /\ bridge.req \in ControlRequest /\ UNCHANGED <<now, host, expires, response>>
  BY DEF Control!Execute, ControlInv
<1>2. runs \in [ControlRequest -> Nat] /\ bridge \in BridgeRecord
  BY DEF ControlInv, ControlType
<1>3. CASE /\ requestFile' = requestFile \ {bridge.req} /\ bridge' = [bridge EXCEPT !.pc = "list"] /\ UNCHANGED runs
  <2>1. bridge' \in BridgeRecord /\ bridge'.pc = "list"
    BY <1>2, <1>3, BridgeFields
  <2>2. ControlType'
    BY <1>1, <1>3, <2>1 DEF ControlInv, ControlType
  <2>3. QED
    BY <1>1, <1>3, <2>1, <2>2 DEF ControlInv, RequestKept, Busy
<1>4. CASE /\ runs' = [runs EXCEPT ![bridge.req] = runs[bridge.req] + 1] /\ bridge' = [bridge EXCEPT !.pc = "run"]
           /\ UNCHANGED requestFile
  <2>1. bridge' \in BridgeRecord /\ bridge'.pc = "run" /\ bridge'.req = bridge.req
    BY <1>2, <1>4, BridgeFields
  <2>2. runs[bridge.req] = 0 /\ host[bridge.req] # "new"
    BY <1>1 DEF ControlInv, RequestKept
  <2>3. runs'[bridge.req] = 1 /\ \A r \in ControlRequest : r # bridge.req => runs'[r] = runs[r]
    BY <1>1, <1>2, <1>4, <2>2
  <2>4. ControlType'
    BY <1>1, <1>2, <1>4, <2>1, <2>2 DEF ControlInv, ControlType
  <2>5. ASSUME NEW r \in ControlRequest PROVE RequestKept(r)'
    BY <1>1, <1>4, <2>1, <2>2, <2>3 DEF ControlInv, RequestKept, Busy
  <2>6. QED
    BY <1>1, <2>1, <2>4, <2>5 DEF ControlInv
<1>5. QED
  BY <1>3, <1>4 DEF Control!Execute, Control!BeginIfValid, Control!Begin, Control!Goto

\* The handler is over: the response, and the request removed.
LEMMA RespondKeeps == ControlInv /\ (Control!Respond \/ Control!Remove) => ControlInv'
<1>1. ASSUME ControlInv, Control!Respond PROVE ControlInv'
  <2>1. /\ bridge.pc = "run" /\ bridge.req \in ControlRequest /\ response' \subseteq response \cup {bridge.req}
        /\ bridge' = [bridge EXCEPT !.pc = "remove"]
        /\ UNCHANGED <<now, host, expires, requestFile, runs>>
    BY <1>1 DEF Control!Respond, Control!Goto, ControlInv
  <2>2. bridge' \in BridgeRecord /\ bridge'.pc = "remove" /\ bridge'.req = bridge.req
    BY <1>1, <2>1, BridgeFields DEF ControlInv, ControlType
  <2>3. ControlType'
    BY <1>1, <2>1, <2>2 DEF ControlInv, ControlType
  <2>4. QED
    BY <1>1, <2>1, <2>2, <2>3 DEF ControlInv, RequestKept, Busy
<1>2. ASSUME ControlInv, Control!Remove PROVE ControlInv'
  <2>1. /\ bridge.pc = "remove" /\ requestFile' = requestFile \ {bridge.req}
        /\ bridge' = [bridge EXCEPT !.pc = "list"]
        /\ UNCHANGED <<now, host, expires, response, runs>>
    BY <1>2 DEF Control!Remove, Control!Removed, Control!Goto
  <2>2. bridge' \in BridgeRecord /\ bridge'.pc = "list"
    BY <1>2, <2>1, BridgeFields DEF ControlInv, ControlType
  <2>3. ControlType'
    BY <1>2, <2>1, <2>2 DEF ControlInv, ControlType
  <2>4. QED
    BY <1>2, <2>1, <2>2, <2>3 DEF ControlInv, RequestKept, Busy
<1>3. QED
  BY <1>1, <1>2

\* Every step of the requests keeps it.
LEMMA ControlStep == ControlInv /\ Control!Next => ControlInv'
BY TickKeeps, PostKeeps, EndsKeeps, HostDiesKeeps, BridgeIdles, NextNameKeeps, ExecuteKeeps, RespondKeeps
   DEF Control!Next

\* A handler is called for a command that waits, or was cut off with its host.
LEMMA ControlRuns ==
    ControlInv /\ Control!Next => \A r \in ControlRequest : runs'[r] > runs[r] => host[r] \in {"waiting", "dead"}
<1> SUFFICES ASSUME ControlInv, Control!Next, NEW r \in ControlRequest, runs'[r] > runs[r]
             PROVE  host[r] \in {"waiting", "dead"}
  OBVIOUS
<1>1. runs \in [ControlRequest -> Nat] /\ host \in [ControlRequest -> HostStates]
  BY DEF ControlInv, ControlType
<1>2. ~UNCHANGED runs
  BY <1>1
<1>3. Control!Execute
  BY <1>2 DEF Control!Next, Control!Tick, Control!HostDies, Control!Post, Control!Answered, Control!TimesOut,
              Control!StopBridge, Control!Poll, Control!NextName, Control!Respond, Control!Remove
<1>4. /\ bridge.pc = "read" /\ ~(now > expires[bridge.req]) /\ runs' = [runs EXCEPT ![bridge.req] = runs[bridge.req] + 1]
  BY <1>1, <1>2, <1>3 DEF Control!Execute, Control!BeginIfValid, Control!Begin
<1>5. r = bridge.req
  BY <1>1, <1>4
<1>6. host[r] \notin {"timedOut", "answered", "new"}
  BY <1>4, <1>5 DEF ControlInv, RequestKept
<1>7. QED
  BY <1>1, <1>6 DEF HostStates

\* A step of another part changes nothing here.
LEMMA ControlStay == ControlInv /\ UNCHANGED controlVars => ControlInv'
BY DEF controlVars, ControlInv, ControlType, RequestKept, Busy

\* A step is one of the requests or leaves their variables alone.
LEMMA ControlInFocus == [Next]_allVars => Control!Next \/ UNCHANGED controlVars
BY DEF Next, Still, allVars

-----------------------------------------------------------------------------
(* Commands on their way through the executor (Commands).                  *)

CallPcs == {"new", "assets", "queued", "running", "result", "done"}
Answers == {"none", "ok", "failed", "aborted", "timeout", "rejected"}
CallRecord == [pc : CallPcs, kind : {"exec", "spawn"}, fired : BOOLEAN, answer : Answers]
EventRecord == [start : {0, 1}, finish : {0, 1, 2}]

\* A call r with the events e that were published for it, when t listeners have thrown: it has no answer and no finish before
\* it is done, its signal cannot have fired before it has started, and one finish is all it gets unless a listener throws.
CallKept(r, e, t) ==
    /\ r.pc # "done" => r.answer = "none" /\ e.finish = 0
    /\ r.pc = "new" => ~r.fired /\ e.start = 0
    /\ r.pc # "new" => e.start = 1
    /\ r.kind = "exec" /\ r.fired => r.answer \in {"none", "aborted", "rejected"}
    /\ r.pc = "done" /\ t = 0 => e.finish = 1

CommandsInv ==
    /\ cmd \in [AnyCall -> CallRecord] /\ announced \in [AnyCall -> EventRecord]
    /\ queue \in Seq(AnyCall) /\ lane \in AnyCall \cup {"none"} /\ hit \subseteq AnyCall /\ thrown \in Nat
    /\ \A c \in AnyCall : CallKept(cmd[c], announced[c], thrown)

\* The fields of a call, of one that moves, of one that is answered, and of its events.
LEMMA CallFields ==
    ASSUME NEW r \in CallRecord
    PROVE  r.pc \in CallPcs /\ r.kind \in {"exec", "spawn"} /\ r.fired \in BOOLEAN /\ r.answer \in Answers
BY DEF CallRecord

\* A call that moves on.
LEMMA MovedFields ==
    ASSUME NEW r \in CallRecord, NEW p \in CallPcs, NEW s, s = [r EXCEPT !.pc = p]
    PROVE  s \in CallRecord /\ s.pc = p /\ s.kind = r.kind /\ s.fired = r.fired /\ s.answer = r.answer
BY DEF CallRecord

Answered(r, a) == [r EXCEPT !.pc = "done", !.answer = a]

\* A call that is answered.
LEMMA AnsweredFields ==
    ASSUME NEW r \in CallRecord, NEW a \in Answers
    PROVE  /\ Answered(r, a) \in CallRecord /\ Answered(r, a).pc = "done" /\ Answered(r, a).kind = r.kind
           /\ Answered(r, a).fired = r.fired /\ Answered(r, a).answer = a
BY DEF Answered, CallRecord, CallPcs

\* A call whose signal has fired.
LEMMA FiredFields ==
    ASSUME NEW r \in CallRecord, NEW s, s = [r EXCEPT !.fired = TRUE]
    PROVE  s \in CallRecord /\ s.pc = r.pc /\ s.kind = r.kind /\ s.fired /\ s.answer = r.answer
BY DEF CallRecord

\* The fields of the events of a call.
LEMMA EventFields ==
    ASSUME NEW e \in EventRecord
    PROVE  /\ e.start \in {0, 1} /\ e.finish \in {0, 1, 2}
           /\ \A n \in {0, 1} : /\ [e EXCEPT !.start = n] \in EventRecord
                                /\ [e EXCEPT !.start = n].start = n /\ [e EXCEPT !.start = n].finish = e.finish
           /\ \A n \in {0, 1, 2} : /\ [e EXCEPT !.finish = n] \in EventRecord
                                   /\ [e EXCEPT !.finish = n].finish = n /\ [e EXCEPT !.finish = n].start = e.start
BY DEF EventRecord

\* The start of every part.
LEMMA CommandsStart == CommandQueue!Init => CommandsInv
<1> SUFFICES ASSUME CommandQueue!Init PROVE CommandsInv
  OBVIOUS
<1>1. /\ cmd \in [AnyCall -> [pc : {"new"}, kind : {"exec", "spawn"}, fired : {FALSE}, answer : {"none"}]]
      /\ announced = [c \in AnyCall |-> [start |-> 0, finish |-> 0]]
      /\ queue = <<>> /\ lane = "none" /\ hit = {} /\ thrown = 0
  BY DEF CommandQueue!Init, CommandQueue!None
<1>2. [start |-> 0, finish |-> 0] \in EventRecord
  BY DEF EventRecord
<1>3. announced \in [AnyCall -> EventRecord]
  BY <1>1, <1>2
<1>4. \A c \in AnyCall : /\ cmd[c] \in CallRecord /\ cmd[c].pc = "new" /\ ~cmd[c].fired /\ cmd[c].answer = "none"
  BY <1>1 DEF CallRecord, CallPcs, Answers
<1>5. cmd \in [AnyCall -> CallRecord]
  BY <1>1, <1>4
<1>6. \A c \in AnyCall : announced[c].start = 0 /\ announced[c].finish = 0
  BY <1>1
<1>7. \A c \in AnyCall : CallKept(cmd[c], announced[c], thrown)
  BY <1>4, <1>6 DEF CallKept
<1>8. QED
  BY <1>1, <1>3, <1>5, <1>7 DEF CommandsInv

\* A step that moves one call keeps the others, for fewer throws ask for more.
LEMMA MoveKeeps ==
    ASSUME CommandsInv, NEW c \in AnyCall, NEW r \in CallRecord, NEW e \in EventRecord,
           cmd' = [cmd EXCEPT ![c] = r], announced' = [announced EXCEPT ![c] = e],
           CallKept(r, e, thrown'), thrown' \in Nat, thrown' = 0 => thrown = 0,
           queue' \in Seq(AnyCall), lane' \in AnyCall \cup {"none"}, hit' \subseteq AnyCall
    PROVE  CommandsInv'
<1>1. cmd' \in [AnyCall -> CallRecord] /\ announced' \in [AnyCall -> EventRecord]
  BY DEF CommandsInv
<1>2. ASSUME NEW d \in AnyCall PROVE CallKept(cmd'[d], announced'[d], thrown')
  <2>1. CASE d = c
    BY <2>1 DEF CommandsInv
  <2>2. CASE d # c
    <3>1. cmd'[d] = cmd[d] /\ announced'[d] = announced[d]
      BY <2>2 DEF CommandsInv
    <3>2. CallKept(cmd[d], announced[d], thrown)
      BY DEF CommandsInv
    <3>3. QED
      BY <3>1, <3>2 DEF CallKept
  <2>3. QED
    BY <2>1, <2>2
<1>3. QED
  BY <1>1, <1>2 DEF CommandsInv

\* A listener that throws is counted.
LEMMA ThrowCounts == CommandsInv /\ CommandQueue!Throws => thrown' \in Nat /\ thrown' # 0
BY DEF CommandsInv, CommandQueue!Throws

\* An answer is given once; a call of exec whose signal has fired gets one that says so.
LEMMA AnswerKeeps ==
    ASSUME CommandsInv, NEW c \in AnyCall, cmd[c].pc \notin {"new", "done"}, NEW a \in Answers,
           CommandQueue!Answer(c, a), a # "none",
           cmd[c].kind = "exec" /\ cmd[c].fired => a \in {"aborted", "rejected"},
           queue' \in Seq(AnyCall), lane' = lane, hit' = hit
    PROVE  CommandsInv'
<1>0. /\ cmd \in [AnyCall -> CallRecord] /\ announced \in [AnyCall -> EventRecord] /\ cmd[c] \in CallRecord
      /\ announced[c] \in EventRecord /\ CallKept(cmd[c], announced[c], thrown) /\ thrown \in Nat
      /\ lane' \in AnyCall \cup {"none"} /\ hit' \subseteq AnyCall
  BY DEF CommandsInv
<1>1. announced[c].finish = 0 /\ announced[c].start = 1
  BY <1>0 DEF CallKept
<1>2. CASE /\ cmd' = [cmd EXCEPT ![c].pc = "done", ![c].answer = a]
           /\ announced' = [announced EXCEPT ![c].finish = @ + CommandQueue!Finishes(c, a)]
           /\ UNCHANGED thrown
  <2> DEFINE r == [cmd[c] EXCEPT !.pc = "done", !.answer = a]
             e == [announced[c] EXCEPT !.finish = 1]
  <2>1. cmd' = [cmd EXCEPT ![c] = r]
    BY <1>0, <1>2
  <2>2. announced' = [announced EXCEPT ![c] = e]
    BY <1>0, <1>1, <1>2 DEF CommandQueue!Finishes
  <2>e. e \in EventRecord /\ e.start = 1 /\ e.finish = 1
    BY <1>0, <1>1, EventFields
  <2>r. cmd[c] \in CallRecord /\ r = Answered(cmd[c], a)
    BY <1>0 DEF Answered
  <2> HIDE DEF r, e
  <2>3. r \in CallRecord /\ r.pc = "done" /\ r.kind = cmd[c].kind /\ r.fired = cmd[c].fired /\ r.answer = a
    BY <2>r, AnsweredFields
  <2>4. CallKept(r, e, thrown')
    BY <2>3, <2>e DEF CallKept
  <2>5. QED
    BY <1>0, <1>2, <2>1, <2>2, <2>3, <2>4, <2>e, MoveKeeps
<1>3. CASE /\ CommandQueue!Throws
           /\ cmd' = [cmd EXCEPT ![c].pc = "done", ![c].answer = "rejected"]
           /\ announced' = [announced EXCEPT ![c].finish = @ + 2]
  <2> DEFINE r == [cmd[c] EXCEPT !.pc = "done", !.answer = "rejected"]
             e == [announced[c] EXCEPT !.finish = 2]
  <2>1. cmd' = [cmd EXCEPT ![c] = r]
    BY <1>0, <1>3
  <2>2. announced' = [announced EXCEPT ![c] = e]
    BY <1>0, <1>1, <1>3
  <2>a. "rejected" \in Answers
    BY DEF Answers
  <2>e. e \in EventRecord /\ e.start = 1 /\ e.finish = 2
    BY <1>0, <1>1, EventFields
  <2>r. cmd[c] \in CallRecord /\ r = Answered(cmd[c], "rejected")
    BY <1>0 DEF Answered
  <2> HIDE DEF r, e
  <2>3. r \in CallRecord /\ r.pc = "done" /\ r.kind = cmd[c].kind /\ r.fired = cmd[c].fired /\ r.answer = "rejected"
    BY <2>a, <2>r, AnsweredFields
  <2>t. thrown' \in Nat /\ thrown' # 0
    BY <1>3, ThrowCounts
  <2>4. CallKept(r, e, thrown')
    BY <2>3, <2>e, <2>t DEF CallKept
  <2>5. QED
    BY <1>0, <2>1, <2>2, <2>3, <2>4, <2>e, <2>t, MoveKeeps
<1>4. QED
  BY <1>2, <1>3 DEF CommandQueue!Answer

\* A step of a call that publishes nothing and answers nothing.
LEMMA ProgressKeeps ==
    ASSUME CommandsInv, NEW c \in AnyCall, cmd[c].pc \notin {"new", "done"}, NEW p \in CallPcs, p \notin {"new", "done"},
           cmd' = CommandQueue!At(c, p), UNCHANGED <<announced, thrown>>,
           queue' \in Seq(AnyCall), lane' \in AnyCall \cup {"none"}, hit' \subseteq AnyCall
    PROVE  CommandsInv'
<1>0. /\ cmd \in [AnyCall -> CallRecord] /\ announced \in [AnyCall -> EventRecord] /\ cmd[c] \in CallRecord
      /\ announced[c] \in EventRecord /\ CallKept(cmd[c], announced[c], thrown) /\ thrown \in Nat
  BY DEF CommandsInv
<1> DEFINE r == [cmd[c] EXCEPT !.pc = p]
<1>1. cmd' = [cmd EXCEPT ![c] = r] /\ announced' = [announced EXCEPT ![c] = announced[c]]
  BY <1>0 DEF CommandQueue!At
<1>r. cmd[c] \in CallRecord /\ r = [cmd[c] EXCEPT !.pc = p]
  BY <1>0
<1> HIDE DEF r
<1>2. r \in CallRecord /\ r.pc = p /\ r.kind = cmd[c].kind /\ r.fired = cmd[c].fired /\ r.answer = cmd[c].answer
  BY <1>r, MovedFields
<1>3. CallKept(r, announced[c], thrown')
  BY <1>0, <1>2 DEF CallKept
<1>4. QED
  BY <1>0, <1>1, <1>2, <1>3, MoveKeeps

\* A step that leaves the calls alone.
LEMMA AsideKeeps ==
    ASSUME CommandsInv, UNCHANGED <<cmd, announced, thrown>>,
           queue' \in Seq(AnyCall), lane' \in AnyCall \cup {"none"}, hit' \subseteq AnyCall
    PROVE  CommandsInv'
BY DEF CommandsInv

\* An interrupt reaches the run that the host has begun, or none.
LEMMA InterruptReaches == CommandsInv /\ CommandQueue!InterruptDirect => hit' \subseteq AnyCall
BY DEF CommandsInv, CommandQueue!InterruptDirect, CommandQueue!None

\* Every step of a command, one after the other.
LEMMA CommandsStep == CommandsInv /\ CommandQueue!Next => CommandsInv'
<1> SUFFICES ASSUME CommandsInv, CommandQueue!Next PROVE CommandsInv'
  OBVIOUS
<1>0. /\ cmd \in [AnyCall -> CallRecord] /\ announced \in [AnyCall -> EventRecord] /\ queue \in Seq(AnyCall)
      /\ lane \in AnyCall \cup {"none"} /\ hit \subseteq AnyCall /\ thrown \in Nat
      /\ \A c \in AnyCall : CallKept(cmd[c], announced[c], thrown)
  BY DEF CommandsInv
<1>p. /\ "assets" \in CallPcs /\ "queued" \in CallPcs /\ "running" \in CallPcs /\ "result" \in CallPcs /\ "done" \in CallPcs
      /\ "ok" \in Answers /\ "failed" \in Answers /\ "aborted" \in Answers /\ "timeout" \in Answers /\ "rejected" \in Answers
  BY DEF CallPcs, Answers
<1>s. ASSUME NEW c \in AnyCall, NEW a \in Answers, a # "none"
      PROVE  /\ CommandQueue!Seen(c, a) \in Answers /\ CommandQueue!Seen(c, a) # "none"
             /\ cmd[c].kind = "exec" /\ cmd[c].fired => CommandQueue!Seen(c, a) = "aborted"
  BY <1>p, <1>s DEF CommandQueue!Seen
<1>1. ASSUME NEW c \in AnyCall, CommandQueue!Start(c) PROVE CommandsInv'
  <2> DEFINE e == [announced[c] EXCEPT !.start = 1]
  <2>1. /\ cmd[c].pc = "new" /\ announced' = [announced EXCEPT ![c] = e] /\ UNCHANGED <<queue, lane, hit>>
    BY <1>0, <1>1 DEF CommandQueue!Start
  <2>2. e \in EventRecord /\ e.start = 1 /\ e.finish = 0 /\ ~cmd[c].fired /\ cmd[c].answer = "none"
    BY <1>0, <2>1, EventFields DEF CallKept
  <2> HIDE DEF e
  <2>3. CASE cmd' = CommandQueue!At(c, "assets") /\ UNCHANGED thrown
    <3> DEFINE r == [cmd[c] EXCEPT !.pc = "assets"]
    <3>1. cmd' = [cmd EXCEPT ![c] = r]
      BY <1>0, <2>3 DEF CommandQueue!At
    <3>r. cmd[c] \in CallRecord /\ r = [cmd[c] EXCEPT !.pc = "assets"]
      BY <1>0
    <3> HIDE DEF r
    <3>2. r \in CallRecord /\ r.pc = "assets" /\ r.fired = cmd[c].fired /\ r.answer = cmd[c].answer
      BY <1>p, <3>r, MovedFields
    <3>3. CallKept(r, e, thrown')
      BY <2>2, <3>2 DEF CallKept
    <3>4. QED
      BY <1>0, <2>1, <2>2, <2>3, <3>1, <3>2, <3>3, MoveKeeps
  <2>4. CASE CommandQueue!Throws /\ cmd' = [cmd EXCEPT ![c].pc = "done", ![c].answer = "rejected"]
    <3> DEFINE r == [cmd[c] EXCEPT !.pc = "done", !.answer = "rejected"]
    <3>1. cmd' = [cmd EXCEPT ![c] = r]
      BY <1>0, <2>4
    <3>r. cmd[c] \in CallRecord /\ r = Answered(cmd[c], "rejected")
      BY <1>0 DEF Answered
    <3> HIDE DEF r
    <3>2. r \in CallRecord /\ r.pc = "done" /\ r.fired = cmd[c].fired /\ r.answer = "rejected"
      BY <1>p, <3>r, AnsweredFields
    <3>t. thrown' \in Nat /\ thrown' # 0
      BY <2>4, ThrowCounts
    <3>3. CallKept(r, e, thrown')
      BY <2>2, <3>2, <3>t DEF CallKept
    <3>4. QED
      BY <1>0, <2>1, <2>2, <3>1, <3>2, <3>3, <3>t, MoveKeeps
  <2>5. QED
    BY <1>1, <2>3, <2>4 DEF CommandQueue!Start
<1>2. ASSUME NEW c \in AnyCall, CommandQueue!Enter(c) PROVE CommandsInv'
  <2>1. cmd[c].pc = "assets" /\ UNCHANGED <<lane, hit>>
    BY <1>2 DEF CommandQueue!Enter
  <2>2. CASE cmd[c].fired
    <3>1. CommandQueue!Answer(c, "aborted") /\ UNCHANGED queue
      BY <1>2, <2>2 DEF CommandQueue!Enter
    <3>2. QED
      BY <1>0, <1>p, <2>1, <3>1, AnswerKeeps
  <2>3. CASE ~cmd[c].fired
    <3>1. cmd' = CommandQueue!At(c, "queued") /\ queue' = Append(queue, c) /\ UNCHANGED <<announced, thrown>>
      BY <1>2, <2>3 DEF CommandQueue!Enter, CommandQueue!Request
    <3>2. queue' \in Seq(AnyCall)
      BY <1>0, <3>1
    <3>3. QED
      BY <1>0, <1>p, <2>1, <3>1, <3>2, ProgressKeeps
  <2>4. QED
    BY <2>2, <2>3
<1>3. ASSUME NEW c \in AnyCall, CommandQueue!NoRuntime(c) PROVE CommandsInv'
  BY <1>0, <1>p, <1>3, AnswerKeeps DEF CommandQueue!NoRuntime
<1>4. CASE CommandQueue!Deliver
  <2>1. /\ queue # <<>> /\ lane' = Head(queue) /\ queue' = Tail(queue)
        /\ cmd' = IF cmd[lane'].pc = "queued" THEN CommandQueue!At(lane', "running") ELSE cmd
        /\ UNCHANGED <<hit, announced, thrown>>
    BY <1>4 DEF CommandQueue!Deliver
  <2>2. lane' \in AnyCall /\ queue' \in Seq(AnyCall)
    BY <1>0, <2>1
  <2>3. CASE cmd[lane'].pc = "queued"
    <3>1. cmd' = CommandQueue!At(lane', "running")
      BY <2>1, <2>3
    <3>2. QED
      BY <1>0, <1>p, <2>1, <2>2, <2>3, <3>1, ProgressKeeps
  <2>4. CASE cmd[lane'].pc # "queued"
    BY <1>0, <2>1, <2>2, <2>4, AsideKeeps
  <2>5. QED
    BY <2>3, <2>4
<1>5. CASE CommandQueue!Ends
  <2>1. /\ lane \in AnyCall /\ lane' = "none" /\ UNCHANGED <<queue, hit, announced, thrown>>
        /\ cmd' = IF cmd[lane].pc = "running" THEN CommandQueue!At(lane, "result") ELSE cmd
    BY <1>0, <1>5 DEF CommandQueue!Ends, CommandQueue!None
  <2>2. CASE cmd[lane].pc = "running"
    BY <1>0, <1>p, <2>1, <2>2, ProgressKeeps
  <2>3. CASE cmd[lane].pc # "running"
    BY <1>0, <2>1, <2>3, AsideKeeps
  <2>4. QED
    BY <2>2, <2>3
<1>6. ASSUME NEW c \in AnyCall, CommandQueue!TakeResult(c) PROVE CommandsInv'
  <2>1. PICK a \in {"ok", "failed"} : CommandQueue!Answer(c, CommandQueue!Seen(c, a))
    BY <1>6 DEF CommandQueue!TakeResult
  <2>2. cmd[c].pc = "result" /\ UNCHANGED <<queue, lane, hit>>
    BY <1>6 DEF CommandQueue!TakeResult
  <2>a. a \in Answers /\ a # "none"
    BY <1>p
  <2>3. /\ CommandQueue!Seen(c, a) \in Answers /\ CommandQueue!Seen(c, a) # "none"
        /\ cmd[c].kind = "exec" /\ cmd[c].fired => CommandQueue!Seen(c, a) = "aborted"
    BY <1>s, <2>a
  <2>4. QED
    BY <1>0, <2>1, <2>2, <2>3, AnswerKeeps
<1>7. ASSUME NEW c \in AnyCall, CommandQueue!TimesOut(c) PROVE CommandsInv'
  <2> DEFINE a == IF cmd[c].kind = "exec" THEN "timeout" ELSE "rejected"
  <2>1. /\ cmd[c].pc \in {"queued", "running", "result"} /\ CommandQueue!Answer(c, CommandQueue!Seen(c, a))
        /\ UNCHANGED <<lane, hit>>
    BY <1>7 DEF CommandQueue!TimesOut
  <2>2. queue' \in Seq(AnyCall)
    <3>1. ASSUME NEW i \in DOMAIN queue, queue' = CommandQueue!RemoveAt(queue, i) PROVE queue' \in Seq(AnyCall)
      <4>1. i \in 1..Len(queue) /\ queue \in Seq(AnyCall)
        BY <1>0
      <4>2. SubSeq(queue, 1, i - 1) \in Seq(AnyCall) /\ SubSeq(queue, i + 1, Len(queue)) \in Seq(AnyCall)
        BY <4>1
      <4>3. queue' = SubSeq(queue, 1, i - 1) \o SubSeq(queue, i + 1, Len(queue))
        BY <3>1 DEF CommandQueue!RemoveAt
      <4>4. QED
        BY <4>2, <4>3
    <3>2. QED
      BY <1>0, <1>7, <3>1 DEF CommandQueue!TimesOut
  <2>a. a \in Answers /\ a # "none"
    BY <1>p
  <2> HIDE DEF a
  <2>3. /\ CommandQueue!Seen(c, a) \in Answers /\ CommandQueue!Seen(c, a) # "none"
        /\ cmd[c].kind = "exec" /\ cmd[c].fired => CommandQueue!Seen(c, a) = "aborted"
    BY <1>s, <2>a
  <2>4. QED
    BY <1>0, <2>1, <2>2, <2>3, AnswerKeeps
<1>8. ASSUME NEW c \in AnyCall, CommandQueue!Abort(c) PROVE CommandsInv'
  <2> DEFINE r == [cmd[c] EXCEPT !.fired = TRUE]
  <2>1. /\ cmd[c].pc \notin {"new", "done"} /\ UNCHANGED <<queue, lane, announced, thrown>>
        /\ cmd' = [cmd EXCEPT ![c] = r] /\ announced' = [announced EXCEPT ![c] = announced[c]]
    BY <1>0, <1>8 DEF CommandQueue!Abort
  <2>r. cmd[c] \in CallRecord /\ r = [cmd[c] EXCEPT !.fired = TRUE]
    BY <1>0
  <2> HIDE DEF r
  <2>2. r \in CallRecord /\ r.pc = cmd[c].pc /\ r.answer = cmd[c].answer
    BY <2>r, FiredFields
  <2>3. CallKept(cmd[c], announced[c], thrown) /\ announced[c] \in EventRecord
    BY <1>0
  <2>4. CallKept(r, announced[c], thrown')
    BY <2>1, <2>2, <2>3 DEF CallKept
  <2>5. hit' \subseteq AnyCall
    BY <1>0, <1>8, InterruptReaches DEF CommandQueue!Abort
  <2>6. QED
    BY <1>0, <2>1, <2>2, <2>3, <2>4, <2>5, MoveKeeps
<1>9. CASE CommandQueue!TerminalSignal
  BY <1>0, <1>9, InterruptReaches, AsideKeeps DEF CommandQueue!TerminalSignal
<1>10. QED
  BY <1>1, <1>2, <1>3, <1>4, <1>5, <1>6, <1>7, <1>8, <1>9 DEF CommandQueue!Next

\* What the run checks of the commands.
LEMMA CommandsGive ==
    CommandsInv => CommandQueue!TypeOK /\ CommandQueue!AbortedIsTold /\ CommandQueue!AnnouncedOnce
<1> SUFFICES ASSUME CommandsInv PROVE CommandQueue!TypeOK /\ CommandQueue!AbortedIsTold /\ CommandQueue!AnnouncedOnce
  OBVIOUS
<1>1. ASSUME NEW c \in AnyCall
      PROVE  /\ cmd[c].pc \in CallPcs /\ cmd[c].kind \in {"exec", "spawn"} /\ cmd[c].answer \in Answers
             /\ announced[c].finish \in {0, 1, 2} /\ CallKept(cmd[c], announced[c], thrown)
  <2>1. cmd[c] \in CallRecord /\ announced[c] \in EventRecord
    BY DEF CommandsInv
  <2>2. QED
    BY <2>1, CallFields, EventFields DEF CommandsInv
<1>2. \A c \in AnyCall : announced[c].finish <= 2
  BY <1>1
<1>3. CommandQueue!TypeOK
  BY <1>1, <1>2 DEF CommandQueue!TypeOK, CommandQueue!None, CommandsInv, CallPcs, Answers
<1>4. CommandQueue!AbortedIsTold
  BY <1>1 DEF CommandQueue!AbortedIsTold, CommandQueue!None, CallKept
<1>5. CommandQueue!AnnouncedOnce
  BY <1>1 DEF CommandQueue!AnnouncedOnce, CallKept
<1>6. QED
  BY <1>3, <1>4, <1>5

\* A step of another part changes nothing here.
LEMMA CommandsStay == CommandsInv /\ UNCHANGED commandsVars => CommandsInv'
BY DEF CommandsInv, CallKept, commandsVars

\* A step is one of the executor or leaves its variables alone.
LEMMA CommandsInFocus == [Next]_allVars => CommandQueue!Next \/ UNCHANGED commandsVars
BY DEF Next, Still, allVars

-----------------------------------------------------------------------------
(* The four of them together.                                              *)

\* A program's output is written once.
LEMMA OutputOnce == WasiInv => Len(stdout.written) <= 1
<1>1. WasiInv => stdout.written = <<>> \/ Len(stdout.written) = 1
  BY DEF WasiInv
<1>2. stdout.written = <<>> => Len(stdout.written) <= 1
  OBVIOUS
<1>3. Len(stdout.written) = 1 => Len(stdout.written) <= 1
  OBVIOUS
<1>4. QED
  BY <1>1, <1>2, <1>3

OverInv == WasiInv /\ GitInv /\ ControlInv /\ CommandsInv

\* What the run checks of a state.
LEMMA OverGives ==
    OverInv => /\ Wasi!TypeOK /\ Wasi!AnsweredIsOver
               /\ Git!TypeOK /\ Git!SuccessIsWhole
               /\ CommandQueue!TypeOK /\ CommandQueue!AbortedIsTold /\ CommandQueue!AnnouncedOnce
               /\ Control!TypeOK /\ Control!AtMostOnce
<1> SUFFICES ASSUME OverInv
             PROVE  /\ Wasi!TypeOK /\ Wasi!AnsweredIsOver
                    /\ Git!TypeOK /\ Git!SuccessIsWhole
                    /\ CommandQueue!TypeOK /\ CommandQueue!AbortedIsTold /\ CommandQueue!AnnouncedOnce
                    /\ Control!TypeOK /\ Control!AtMostOnce
  OBVIOUS
<1>1. Wasi!TypeOK /\ Wasi!AnsweredIsOver
  <2>1. WasiInv
    BY DEF OverInv
  <2>2. Wasi!TypeOK
    BY <2>1 DEF WasiInv, Wasi!TypeOK, RunRecord, ThreadRecord, StdoutRecord
  <2>3. Len(stdout.written) <= 1
    BY <2>1, OutputOnce
  <2>4. Wasi!AnsweredIsOver
    BY <2>1, <2>3 DEF WasiInv, Wasi!AnsweredIsOver
  <2>5. QED
    BY <2>2, <2>4
<1>2. Git!TypeOK /\ Git!SuccessIsWhole
  <2>1. GitInv
    BY DEF OverInv
  <2>2. ASSUME NEW c \in Git!Git
        PROVE  /\ command[c].op \in Git!Operations \cup {"none", "refused"} /\ command[c].step \in 0..4
               /\ command[c].code \in {"none", "ok", "failed", "cancelled", "usage", "remote"}
               /\ command[c].code = "ok" => command[c].step = Len(Git!Steps[command[c].op])
    BY <2>1 DEF GitInv, GitRecordKept, GitRecord, GitCodes
  <2>3. QED
    BY <2>1, <2>2 DEF GitInv, Git!TypeOK, Git!SuccessIsWhole
<1>3. Control!TypeOK /\ Control!AtMostOnce
  <2>1. ControlType /\ \A r \in ControlRequest : RequestKept(r)
    BY DEF OverInv, ControlInv
  <2>2. Control!TypeOK
    BY <2>1 DEF ControlType, BridgeRecord, HostStates, Control!TypeOK, Control!None
  <2>3. \A r \in ControlRequest : runs[r] \in {0, 1}
    BY <2>1 DEF RequestKept
  <2>4. Control!AtMostOnce
    BY <2>3 DEF Control!AtMostOnce
  <2>5. QED
    BY <2>2, <2>4
<1>4. QED
  BY <1>1, <1>2, <1>3, CommandsGive DEF OverInv

\* Every step keeps the four.
LEMMA OverStep == OverInv /\ [Next]_allVars => OverInv'
BY WasiStep, WasiStay, WasiInFocus, GitStep, GitStay, GitInFocus, ControlStep, ControlStay, ControlInFocus,
   CommandsStep, CommandsStay, CommandsInFocus DEF OverInv

\* The three action properties hold of every step, for a step of another part changes none of their variables.
LEMMA OverActions ==
    OverInv /\ [Next]_allVars =>
        /\ [run.code # Wasi!Unanswered => run'.code = run.code]_(Wasi!wasiVars)
        /\ [Len(requests') > Len(requests) => ~command[Git!Last(requests')].cancelled]_(Git!gitVars)
        /\ [\A r \in ControlRequest : runs'[r] > runs[r] => host[r] \in {"waiting", "dead"}]_(Control!vars)
<1> SUFFICES ASSUME OverInv, [Next]_allVars
             PROVE  /\ [run.code # Wasi!Unanswered => run'.code = run.code]_(Wasi!wasiVars)
                    /\ [Len(requests') > Len(requests) => ~command[Git!Last(requests')].cancelled]_(Git!gitVars)
                    /\ [\A r \in ControlRequest : runs'[r] > runs[r] => host[r] \in {"waiting", "dead"}]_(Control!vars)
  OBVIOUS
<1>1. [run.code # Wasi!Unanswered => run'.code = run.code]_(Wasi!wasiVars)
  BY WasiStands, WasiInFocus DEF OverInv, wasiVars, Wasi!wasiVars
<1>2. [Len(requests') > Len(requests) => ~command[Git!Last(requests')].cancelled]_(Git!gitVars)
  BY GitSends, GitInFocus DEF OverInv, gitVars, Git!gitVars
<1>3. [\A r \in ControlRequest : runs'[r] > runs[r] => host[r] \in {"waiting", "dead"}]_(Control!vars)
  BY ControlRuns, ControlInFocus DEF OverInv, controlVars, Control!vars
<1>4. QED
  BY <1>1, <1>2, <1>3

\* A command that is over stays over: an answered WASI program runs no more and its answer stands, a cancelled git command
\* sends nothing and success means every step of it, an aborted command is told so and announced once, a browser request runs
\* at most once and not after its command (wasi.ts:123, git-world.ts:105, terminal-executor.ts:98,
\* browser-control-bridge.ts:109).
THEOREM CommandsAreOver == Spec => OverIsOver
<1>1. Init => OverInv
  BY WasiStart, GitStart, ControlStart, CommandsStart DEF Init, OverInv
<1>2. OverInv /\ [Next]_allVars => OverInv'
  BY OverStep
<1>3. OverInv => /\ Wasi!TypeOK /\ Wasi!AnsweredIsOver
                 /\ Git!TypeOK /\ Git!SuccessIsWhole
                 /\ CommandQueue!TypeOK /\ CommandQueue!AbortedIsTold /\ CommandQueue!AnnouncedOnce
                 /\ Control!TypeOK /\ Control!AtMostOnce
  BY OverGives
<1>4. OverInv /\ [Next]_allVars =>
          /\ [run.code # Wasi!Unanswered => run'.code = run.code]_(Wasi!wasiVars)
          /\ [Len(requests') > Len(requests) => ~command[Git!Last(requests')].cancelled]_(Git!gitVars)
          /\ [\A r \in ControlRequest : runs'[r] > runs[r] => host[r] \in {"waiting", "dead"}]_(Control!vars)
  BY OverActions
<1>5. QED
  BY <1>1, <1>2, <1>3, <1>4, PTL
     DEF Spec, OverIsOver, Wasi!AnswerStands, Git!CancelledSendsNothing, Control!NeverAfterTheCommand
===============================================================================
