----------------------------- MODULE MailboxProofs -----------------------------
(***************************************************************************)
(* The shell of a session gets the keystrokes in the order they were typed *)
(* and none is left out, and the user is shown what the shell wrote in the *)
(* order it was written, with nothing removed before, for any number of    *)
(* keystrokes, chunks, sessions, hosts and renewals, whatever batch fails  *)
(* and whenever a mailbox is removed.                                      *)
(***************************************************************************)
EXTENDS TerminalMailbox, SequenceTheorems, WellFoundedInduction, TLAPS

-------------------------------------------------------------------------------
(* Facts about queues and numbers.                                         *)

\* What is left of a queue when its head is taken.
LEMMA Tails ==
    ASSUME NEW S, NEW q \in Seq(S), q # <<>>
    PROVE  /\ Head(q) \in S /\ Head(q) = q[1] /\ 1 \in 1..Len(q)
           /\ Tail(q) \in Seq(S) /\ Len(Tail(q)) = Len(q) - 1
           /\ Len(q) = 1 => Tail(q) = <<>>
           /\ Len(q) # 1 => Tail(q) # <<>>
           /\ \A k \in 1..Len(Tail(q)) : k + 1 \in 1..Len(q) /\ Tail(q)[k] = q[k + 1]
           /\ \A k \in 1..Len(q) : k # 1 => k - 1 \in 1..Len(Tail(q)) /\ Tail(q)[k - 1] = q[k]
<1>1. Len(q) \in Nat /\ Len(q) # 0
  BY EmptySeq
<1>2. /\ Head(q) \in S /\ Tail(q) \in Seq(S) /\ Len(Tail(q)) = Len(q) - 1
      /\ \A k \in 1..Len(Tail(q)) : Tail(q)[k] = q[k + 1]
  BY HeadTailProperties
<1>3. Head(q) = q[1]
  OBVIOUS
<1>4. (Len(q) = 1 => Tail(q) = <<>>) /\ (Len(q) # 1 => Tail(q) # <<>>)
  <2> DEFINE t == Tail(q)
  <2>1. t \in Seq(S) /\ Len(t) = Len(q) - 1
    BY <1>2
  <2> HIDE DEF t
  <2>2. (Len(t) = 0 => t = <<>>) /\ (Len(t) # 0 => t # <<>>)
    BY <2>1, EmptySeq
  <2>3. (Len(q) = 1 => t = <<>>) /\ (Len(q) # 1 => t # <<>>)
    BY <1>1, <2>1, <2>2
  <2> QED
    BY <2>3 DEF t
<1>6. \A k \in 1..Len(Tail(q)) : k + 1 \in 1..Len(q) /\ Tail(q)[k] = q[k + 1]
  BY <1>1, <1>2
<1>7. ASSUME NEW k \in 1..Len(q), k # 1
      PROVE  k - 1 \in 1..Len(Tail(q)) /\ Tail(q)[k - 1] = q[k]
  <2>1. k - 1 \in 1..Len(Tail(q)) /\ (k - 1) + 1 = k
    BY <1>1, <1>2, <1>7
  <2> QED
    BY <1>2, <2>1
<1> QED
  BY <1>1, <1>2, <1>3, <1>4, <1>6, <1>7

\* Where the entries of two queues are when one follows the other.
LEMMA Cats ==
    ASSUME NEW S, NEW q \in Seq(S), NEW r \in Seq(S)
    PROVE  /\ q \o r \in Seq(S) /\ Len(q \o r) = Len(q) + Len(r)
           /\ \A k \in 1..Len(q) : k \in 1..Len(q \o r) /\ (q \o r)[k] = q[k]
           /\ \A k \in 1..Len(r) : Len(q) + k \in 1..Len(q \o r) /\ (q \o r)[Len(q) + k] = r[k]
           /\ \A k \in 1..Len(q \o r) :
                \/ k \in 1..Len(q) /\ (q \o r)[k] = q[k]
                \/ k > Len(q) /\ k - Len(q) \in 1..Len(r) /\ (q \o r)[k] = r[k - Len(q)]
<1>1. Len(q) \in Nat /\ Len(r) \in Nat
  OBVIOUS
<1>2. /\ q \o r \in Seq(S) /\ Len(q \o r) = Len(q) + Len(r)
      /\ \A i \in 1 .. Len(q) + Len(r) : (q \o r)[i] =
                     IF i <= Len(q) THEN q[i] ELSE r[i - Len(q)]
  BY ConcatProperties
<1> DEFINE c == q \o r
<1> HIDE DEF c
<1>3. \A k \in 1..Len(q) : k \in 1..Len(c) /\ c[k] = q[k]
  BY <1>1, <1>2 DEF c
<1>4. \A k \in 1..Len(r) : Len(q) + k \in 1..Len(c) /\ c[Len(q) + k] = r[k]
  <2> TAKE k \in 1..Len(r)
  <2>1. /\ Len(q) + k \in 1..Len(c) /\ Len(q) + k \in 1..(Len(q) + Len(r))
        /\ ~(Len(q) + k <= Len(q)) /\ (Len(q) + k) - Len(q) = k
    BY <1>1, <1>2 DEF c
  <2> QED
    BY <1>2, <2>1 DEF c
<1>5. \A k \in 1..Len(c) :
        \/ k \in 1..Len(q) /\ c[k] = q[k]
        \/ k > Len(q) /\ k - Len(q) \in 1..Len(r) /\ c[k] = r[k - Len(q)]
  BY <1>1, <1>2 DEF c
<1> QED
  BY <1>2, <1>3, <1>4, <1>5 DEF c

\* The same of queues of input.
LEMMA InputCats ==
    ASSUME NEW q \in Seq(Input), NEW r \in Seq(Input)
    PROVE  /\ Len(q) \in Nat /\ Len(r) \in Nat /\ Len(q \o r) = Len(q) + Len(r)
           /\ \A k \in 1..Len(q) : (q \o r)[k] = q[k]
           /\ \A k \in 1..Len(r) : Len(q) + k \in 1..Len(q \o r) /\ (q \o r)[Len(q) + k] = r[k]
BY Cats

\* Every entry of the two is an entry of one of them.
LEMMA CatFrom ==
    ASSUME NEW q \in Seq(Input), NEW r \in Seq(Input)
    PROVE  \A k \in 1..Len(q \o r) :
             \/ \E j \in 1..Len(q) : (q \o r)[k] = q[j]
             \/ \E j \in 1..Len(r) : (q \o r)[k] = r[j]
<1> DEFINE c == q \o r
<1>1. \A k \in 1..Len(c) :
        \/ k \in 1..Len(q) /\ c[k] = q[k]
        \/ k > Len(q) /\ k - Len(q) \in 1..Len(r) /\ c[k] = r[k - Len(q)]
  BY Cats
<1> HIDE DEF c
<1>2. \A k \in 1..Len(c) : \/ \E j \in 1..Len(q) : c[k] = q[j]
                           \/ \E j \in 1..Len(r) : c[k] = r[j]
  BY <1>1
<1> QED
  BY <1>2 DEF c

\* A queue cut in two: a batch and what stays.
LEMMA Cuts ==
    ASSUME NEW S, NEW q \in Seq(S), NEW n \in 1..Len(q)
    PROVE  LET b == SubSeq(q, 1, n)
               r == SubSeq(q, n + 1, Len(q))
           IN
           /\ b \in Seq(S) /\ r \in Seq(S) /\ b # <<>>
           /\ Len(b) = n /\ Len(r) = Len(q) - n
           /\ \A k \in 1..Len(b) : k \in 1..Len(q) /\ b[k] = q[k]
           /\ \A k \in 1..Len(r) : k + n \in 1..Len(q) /\ r[k] = q[k + n]
           /\ \A k \in 1..Len(q) :
                \/ k \in 1..Len(b) /\ b[k] = q[k]
                \/ k > n /\ k - n \in 1..Len(r) /\ r[k - n] = q[k]
<1> DEFINE b == SubSeq(q, 1, n)
           r == SubSeq(q, n + 1, Len(q))
<1>1. Len(q) \in Nat /\ n \in Nat /\ n >= 1 /\ n <= Len(q) /\ \A i \in 1..Len(q) : q[i] \in S
  OBVIOUS
<1>2. b \in Seq(S) /\ Len(b) = n /\ \A i \in 1..n : b[i] = q[i]
  <2>1. \A i \in 1..n : q[i] \in S
    BY <1>1
  <2>2. /\ b \in Seq(S) /\ Len(b) = IF 1 <= n THEN n - 1 + 1 ELSE 0
        /\ \A i \in 1..(n - 1 + 1) : b[i] = q[1 + i - 1]
    BY <1>1, <2>1, SubSeqProperties
  <2>3. \A i \in 1..n : 1 + i - 1 = i /\ i \in 1..(n - 1 + 1)
    BY <1>1
  <2> HIDE DEF b
  <2> QED
    BY <1>1, <2>2, <2>3
<1>3. r \in Seq(S) /\ Len(r) = Len(q) - n /\ \A i \in 1..(Len(q) - n) : r[i] = q[i + n]
  <2>1. \A i \in (n + 1)..Len(q) : q[i] \in S
    BY <1>1
  <2>2. /\ r \in Seq(S) /\ Len(r) = IF n + 1 <= Len(q) THEN Len(q) - (n + 1) + 1 ELSE 0
        /\ \A i \in 1..(Len(q) - (n + 1) + 1) : r[i] = q[(n + 1) + i - 1]
    BY <1>1, <2>1, SubSeqProperties
  <2>3. \A i \in 1..(Len(q) - n) : (n + 1) + i - 1 = i + n /\ i \in 1..(Len(q) - (n + 1) + 1)
    BY <1>1
  <2> HIDE DEF r
  <2> QED
    BY <1>1, <2>2, <2>3
<1>4. b # <<>>
  BY <1>1, <1>2
<1> HIDE DEF b, r
<1>5. \A k \in 1..Len(b) : k \in 1..Len(q) /\ b[k] = q[k]
  BY <1>1, <1>2
<1>6. \A k \in 1..Len(r) : k + n \in 1..Len(q) /\ r[k] = q[k + n]
  BY <1>1, <1>3
<1>7. ASSUME NEW k \in 1..Len(q), k > n
      PROVE  k - n \in 1..Len(r) /\ r[k - n] = q[k]
  <2>1. k - n \in 1..(Len(q) - n) /\ (k - n) + n = k
    BY <1>1, <1>7
  <2> QED
    BY <1>3, <2>1
<1>8. \A k \in 1..Len(q) : k > n \/ k \in 1..Len(b)
  BY <1>1, <1>2
<1> QED
  BY <1>2, <1>3, <1>4, <1>5, <1>6, <1>7, <1>8 DEF b, r

\* A set of numbers has a smallest one.
LEMMA Smallest ==
    ASSUME NEW S \in SUBSET Nat, S # {}
    PROVE  Min(S) \in S /\ \A x \in S : Min(S) <= x
<1>1. PICK x \in S : \A y \in S : ~ (<<y, x>> \in OpToRel(<, Nat))
  BY NatLessThanWellFounded, WFMin
<1>2. ASSUME NEW y \in S PROVE x <= y
  <2>1. x \in Nat /\ y \in Nat
    OBVIOUS
  <2>2. ~ (<<y, x>> \in OpToRel(<, Nat))
    BY <1>1
  <2>3. ~ (y < x)
    BY <2>1, <2>2, Zenon DEF OpToRel
  <2> QED
    BY <2>1, <2>3
<1> QED
  BY <1>2 DEF Min

-------------------------------------------------------------------------------
(* Shapes.                                                                 *)

ClType      == [nonce: Nat, host: Nat, stage: {"live", "disposing", "disposed"},
                running: BOOLEAN, fenced: BOOLEAN, typed: Nat, in: Nat, out: Nat,
                pending: Seq(Input)]
OpeningType == [st: {"no", "sent", "torn"}, items: Seq(Item)]
DrainType   == [nonce: Nat, batch: Seq(Input), left: Seq(Input), torn: BOOLEAN]
HostType    == [id: Nat, up: BOOLEAN, pc: {"idle", "unlink", "inputs"}, names: SUBSET Nat]
InFrame     == [nonce: Nat, item: Input, for: Nat]

SesShape ==
    /\ ses = [id |-> ses.id, nonce |-> ses.nonce, lastInput |-> ses.lastInput,
              lastAck |-> ses.lastAck]
    /\ ses.id \in Nat /\ ses.nonce \in Nat /\ ses.lastInput \in Nat

\* A batch is in flight as long as something of it is left.
Busy == drain.left # <<>>

MailType ==
    /\ cl \in ClType /\ opening \in OpeningType /\ drain \in DrainType /\ host \in HostType
    /\ Draining => Busy
    /\ dir \in BOOLEAN /\ openFile.nonce \in Nat
    /\ DOMAIN inFiles \subseteq Nat
    /\ \A s \in DOMAIN inFiles : inFiles[s] \in InFrame
    /\ SesShape
    /\ typedAt \in [Item -> Nat]
    /\ opened \in Seq([nonce: Nat, host: Nat, first: Nat])
    /\ log \in Seq([session: Nat, item: Item, for: Nat])

\* The shapes hold at the start.
LEMMA MailTypeInit == Init => MailType
<1> SUFFICES ASSUME Init PROVE MailType
  OBVIOUS
<1>1. cl \in ClType /\ opening \in OpeningType /\ drain \in DrainType /\ host \in HostType
  BY DEF Init, NoOpen, NoDrain, ClType, OpeningType, DrainType, HostType
<1>2. SesShape /\ DOMAIN inFiles = {}
  BY DEF Init, SesShape, NoSession
<1>3. /\ opened \in Seq([nonce: Nat, host: Nat, first: Nat])
      /\ log \in Seq([session: Nat, item: Item, for: Nat])
  BY DEF Init
<1> QED
  BY <1>1, <1>2, <1>3 DEF Init, MailType, Draining, None

\* A drain in flight is one with something left of its batch.
LEMMA BusyDrain == MailType => (Draining <=> Busy)
BY DEF MailType, Busy, Draining, NoDrain

\* What removing the mailbox leaves.
LEMMA RemovedType ==
    ASSUME MailType, RemoveMailbox
    PROVE  /\ opening' \in OpeningType /\ drain' \in DrainType /\ dir' = FALSE
           /\ DOMAIN inFiles' = {} /\ openFile' = None
           /\ openFile'.nonce = 0 /\ drain'.nonce = drain.nonce /\ drain'.batch = drain.batch
           /\ drain'.left = drain.left /\ drain'.torn = Busy
           /\ (Draining => Busy)'
           /\ opening'.items = opening.items
           /\ opening'.st = IF opening.st = "no" THEN "no" ELSE "torn"
<1>1. Draining \in BOOLEAN /\ Draining = Busy
  BY BusyDrain DEF Draining, Busy
<1>2. drain' = [drain EXCEPT !.torn = Draining]
  BY DEF RemoveMailbox
<1>3. drain' \in DrainType /\ drain'.nonce = drain.nonce /\ drain'.batch = drain.batch
      /\ drain'.left = drain.left /\ drain'.torn = Draining
  <2> HIDE DEF Draining
  <2> QED
    BY <1>1, <1>2 DEF MailType, DrainType
<1>6. (Draining => Busy)'
  <2>1. CASE drain = NoDrain
    BY <1>2, <2>1 DEF Draining, NoDrain
  <2>2. CASE drain # NoDrain
    BY <1>1, <1>3, <2>2 DEF Draining, Busy
  <2> QED
    BY <2>1, <2>2
<1>4. /\ opening' \in OpeningType /\ opening'.items = opening.items
      /\ opening'.st = IF opening.st = "no" THEN "no" ELSE "torn"
  BY DEF RemoveMailbox, MailType, OpeningType
<1>5. dir' = FALSE /\ DOMAIN inFiles' = {} /\ openFile' = None /\ openFile'.nonce = 0
  BY DEF RemoveMailbox, None
<1> QED
  BY <1>1, <1>3, <1>4, <1>5, <1>6

\* A removed mailbox has the shapes still.
LEMMA RemovedShape ==
    ASSUME MailType, RemoveMailbox, SesShape', cl' \in ClType, host' \in HostType,
           UNCHANGED <<typedAt, opened, log>>
    PROVE  MailType'
<1>1. /\ opening' \in OpeningType /\ drain' \in DrainType /\ (Draining => Busy)'
      /\ dir' \in BOOLEAN /\ openFile'.nonce \in Nat
      /\ DOMAIN inFiles' \subseteq Nat /\ \A s \in DOMAIN inFiles' : inFiles'[s] \in InFrame
  BY RemovedType
<1> QED
  BY <1>1 DEF MailType

\* What starting an open leaves.
LEMMA StartedType ==
    ASSUME MailType, NEW items \in Seq(Item), StartOpen(items)
    PROVE  /\ opening' \in OpeningType /\ dir' \in BOOLEAN
           /\ opening'.items = IF opening.st = "no" THEN items ELSE opening.items \o items
           /\ opening'.st = IF opening.st = "no" THEN "sent" ELSE opening.st
           /\ dir => dir'
<1>1. opening.items \o items \in Seq(Item)
  BY DEF MailType, OpeningType
<1>2. CASE opening.st = "no"
  BY <1>2 DEF StartOpen, MailType, OpeningType
<1>3. CASE opening.st # "no"
  <2> DEFINE joined == opening.items \o items
  <2>1. opening' = [opening EXCEPT !.items = joined]
    BY <1>3 DEF StartOpen
  <2> HIDE DEF joined
  <2> QED
    BY <1>1, <1>3, <2>1 DEF StartOpen, MailType, OpeningType, joined
<1> QED
  BY <1>2, <1>3


-------------------------------------------------------------------------------
(* What each action does to the flow of the input: the frames, the batch   *)
(* in flight, the queue, the items behind an open, and what the shells got. *)

\* Keystrokes and the dispose frame are numbers, and apart.
LEMMA InputNumbers ==
    /\ Item \subseteq Nat /\ Item \subseteq Input /\ Input \subseteq Nat
    /\ Dispose \in Input /\ Dispose \notin Item /\ Input \ {Dispose} = Item
BY BoundsAssumption DEF Item, Input, Dispose

\* Steps that leave the flow as it is, but for an open that begins or ends.
Quiet ==
    /\ UNCHANGED <<inFiles, log, opened, typedAt, drain, openFile>>
    /\ UNCHANGED <<cl.nonce, cl.host, cl.fenced, cl.typed, cl.in, cl.pending>>
    /\ UNCHANGED <<ses.id, ses.nonce, ses.lastInput, host.id, host.up, host.names>>
    /\ (cl'.running = cl.running \/ (~Busy /\ cl'.running = FALSE)) /\ (dir => dir')
    /\ renewing' = "fencing" => renewing = "fencing"
    /\ \/ opening' = opening
       \/ opening'.items = <<>> /\ (opening'.st = "no" \/ ~cl.fenced)

\* An open alone moves no input.
LEMMA OpenDoes == MailType /\ Open => MailType' /\ Quiet
<1> SUFFICES ASSUME MailType, Open PROVE MailType' /\ Quiet
  OBVIOUS
<1>1. StartOpen(<<>>) /\ <<>> \in Seq(Item) /\ opening.st = "no" /\ ~cl.fenced
  BY DEF Open, Usable
<1>2. opening' \in OpeningType /\ dir' \in BOOLEAN /\ opening'.items = <<>> /\ (dir => dir')
  BY <1>1, StartedType
<1>3. UNCHANGED <<cl, renewing, drain, typedAt, openFile, inFiles, host, ses, opened, log>>
  BY DEF Open, hostVars
<1>4. MailType'
  BY <1>2, <1>3 DEF MailType, SesShape, Draining, Busy
<1>5. Quiet
  BY <1>1, <1>2, <1>3 DEF Quiet
<1> QED
  BY <1>4, <1>5

\* Nor does one that is rejected.
LEMMA OpenRejectedDoes == MailType /\ OpenRejected => MailType' /\ Quiet
<1> SUFFICES ASSUME MailType, OpenRejected PROVE MailType' /\ Quiet
  OBVIOUS
<1>1. opening' \in OpeningType /\ opening'.items = <<>> /\ opening'.st = "no"
  BY DEF OpenRejected, NoOpen, OpeningType
<1>2. UNCHANGED <<cl, drain, typedAt, dir, openFile, inFiles, host, ses, opened, log>>
  BY DEF OpenRejected, hostVars, fileVars
<1>3. MailType'
  BY <1>1, <1>2 DEF MailType, SesShape, Draining, Busy
<1>4. renewing' = "fencing" => renewing = "fencing"
  BY DEF OpenRejected
<1> QED
  BY <1>1, <1>2, <1>3, <1>4 DEF Quiet

\* Nor does the end of dispose.
LEMMA DisposeEndDoes == MailType /\ DisposeEnd => MailType' /\ Quiet
<1> SUFFICES ASSUME MailType, DisposeEnd PROVE MailType' /\ Quiet
  OBVIOUS
<1>1. cl' = [cl EXCEPT !.stage = "disposed", !.running = FALSE] /\ ~Busy
  BY BusyDrain DEF DisposeEnd
<1>2. /\ cl' \in ClType /\ cl'.running = FALSE
      /\ UNCHANGED <<cl.nonce, cl.host, cl.fenced, cl.typed, cl.in, cl.pending>>
  BY <1>1 DEF MailType, ClType
<1>3. UNCHANGED <<opening, renewing, drain, typedAt, dir, openFile, inFiles, host, ses,
                  opened, log>>
  BY DEF DisposeEnd, hostVars, fileVars
<1>4. MailType'
  BY <1>2, <1>3 DEF MailType, SesShape, Draining, Busy
<1> QED
  BY <1>1, <1>2, <1>3, <1>4 DEF Quiet

\* Nor does the page's poll.
LEMMA PollDoes == MailType /\ Poll => MailType' /\ Quiet
<1> SUFFICES ASSUME MailType, Poll PROVE MailType' /\ Quiet
  OBVIOUS
<1>1. UNCHANGED <<opening, renewing, drain, typedAt, dir, openFile, inFiles, host, ses,
                  opened, log>>
  BY DEF Poll, PollShow, PollDrop, WriteAck, hostVars, fileVars, pageVars
<1>2. CASE PollShow
  <2>1. cl' = [cl EXCEPT !.out = cl.out + 1] /\ cl \in ClType
    BY <1>2 DEF PollShow, MailType
  <2>2. /\ cl' \in ClType
        /\ UNCHANGED <<cl.nonce, cl.host, cl.fenced, cl.typed, cl.in, cl.pending, cl.running>>
    BY <2>1 DEF ClType
  <2>3. MailType'
    BY <1>1, <2>2 DEF MailType, SesShape, Draining, Busy
  <2> QED
    BY <1>1, <2>2, <2>3 DEF Quiet
<1>3. CASE ~PollShow
  <2>1. UNCHANGED cl
    BY <1>3 DEF Poll, PollDrop, WriteAck, pageVars
  <2>2. MailType'
    BY <1>1, <2>1 DEF MailType, SesShape, Draining, Busy
  <2> QED
    BY <1>1, <2>1, <2>2 DEF Quiet
<1> QED
  BY <1>2, <1>3

\* What the host does between two inputs.
Elsewhere == UnlinkAck \/ PollEnd \/ FlushTimer \/ ShellWrites \/ UNCHANGED vars

\* Nor do the host's acknowledgements and its output.
LEMMA ElsewhereDoes == MailType /\ Elsewhere => MailType' /\ Quiet
<1> SUFFICES ASSUME MailType, Elsewhere PROVE MailType' /\ Quiet
  OBVIOUS
<1>1. UNCHANGED <<cl, opening, renewing, drain, typedAt, openFile, inFiles, ses, opened, log>>
  BY DEF Elsewhere, UnlinkAck, PollEnd, FlushTimer, ShellWrites, vars, hostVars, fileVars, pageVars
<1>2. dir' \in BOOLEAN /\ (dir => dir')
  BY DEF Elsewhere, UnlinkAck, PollEnd, FlushTimer, ShellWrites, Flush, vars, fileVars, MailType
<1>3. host' \in HostType /\ UNCHANGED <<host.id, host.up, host.names>>
  BY DEF Elsewhere, UnlinkAck, PollEnd, FlushTimer, ShellWrites, vars, hostVars, MailType, HostType
<1>4. MailType'
  BY <1>1, <1>2, <1>3 DEF MailType, SesShape, Draining, Busy
<1> QED
  BY <1>1, <1>2, <1>3, <1>4 DEF Quiet

\* sendData puts the next keystroke behind an open.
LEMMA SendDataDoes ==
    ASSUME MailType, SendData
    PROVE  /\ MailType'
           /\ UNCHANGED <<inFiles, log, opened, typedAt, drain, openFile, ses, host, renewing>>
           /\ UNCHANGED <<cl.nonce, cl.host, cl.fenced, cl.in, cl.pending, cl.running>>
           /\ cl'.typed = cl.typed + 1 /\ cl.typed + 1 \in Item /\ ~cl.fenced
           /\ opening'.items = IF opening.st = "no" THEN <<cl.typed + 1>>
                               ELSE Append(opening.items, cl.typed + 1)
           /\ opening'.st # "no" /\ (dir => dir')
<1>1. cl.typed + 1 \in Item /\ StartOpen(<<cl.typed + 1>>) /\ ~cl.fenced
  BY BoundsAssumption DEF MailType, SendData, ClType, Item, Usable
<1>2. cl' = [cl EXCEPT !.typed = @ + 1] /\ cl \in ClType
  BY DEF SendData, MailType
<1>3. /\ cl' \in ClType /\ cl'.typed = cl.typed + 1
      /\ UNCHANGED <<cl.nonce, cl.host, cl.fenced, cl.in, cl.pending, cl.running>>
  BY <1>2 DEF ClType
<1>4. <<cl.typed + 1>> \in Seq(Item)
  BY <1>1
<1>5. /\ opening' \in OpeningType /\ dir' \in BOOLEAN /\ (dir => dir')
      /\ opening'.items = IF opening.st = "no" THEN <<cl.typed + 1>>
                          ELSE opening.items \o <<cl.typed + 1>>
      /\ opening'.st # "no"
  BY <1>1, <1>4, StartedType
<1>6. opening.items \o <<cl.typed + 1>> = Append(opening.items, cl.typed + 1)
  BY <1>1 DEF MailType, OpeningType
<1>7. UNCHANGED <<renewing, drain, typedAt, openFile, inFiles, host, ses, opened, log>>
  BY DEF SendData, hostVars
<1>8. MailType'
  BY <1>3, <1>5, <1>7 DEF MailType, SesShape, Draining, Busy
<1> QED
  BY <1>1, <1>3, <1>5, <1>6, <1>7, <1>8

\* What an open hands to the queue.
Queued == IF cl.stage = "disposed" THEN <<>> ELSE opening.items

\* The open hands what is behind it to the queue, under the nonce of now.
LEMMA OpenedDoes ==
    ASSUME MailType, Opened
    PROVE  /\ MailType'
           /\ UNCHANGED <<inFiles, log, opened, drain, ses, host, dir>>
           /\ UNCHANGED <<cl.nonce, cl.host, cl.fenced, cl.typed, cl.in>>
           /\ cl'.running = TRUE /\ cl'.pending = cl.pending \o Queued
           /\ opening.st = "sent" /\ opening'.items = <<>> /\ opening'.st = "no"
           /\ openFile'.nonce = cl.nonce
           /\ \A k \in Item : typedAt'[k] = IF \E j \in 1..Len(Queued) : Queued[j] = k
                                            THEN cl.nonce ELSE typedAt[k]
           /\ renewing' = "fencing" => renewing = "fencing"
           /\ Queued \in Seq(Item) /\ cl.pending \in Seq(Input)
<1>1. opening.items \in Seq(Item) /\ cl.pending \in Seq(Input) /\ cl \in ClType /\ cl.nonce \in Nat
  BY DEF MailType, OpeningType, ClType
<1>2. Queued \in Seq(Item) /\ Queued \in Seq(Input)
  BY <1>1, InputNumbers DEF Queued
<1>3. cl.pending \o Queued \in Seq(Input)
  BY <1>1, <1>2
<1>4. cl' = [cl EXCEPT !.running = TRUE, !.pending = cl.pending \o Queued]
  BY DEF Opened, Queued
<1>5. /\ cl' \in ClType /\ cl'.running = TRUE /\ cl'.pending = cl.pending \o Queued
      /\ UNCHANGED <<cl.nonce, cl.host, cl.fenced, cl.typed, cl.in>>
  <2> DEFINE q == cl.pending \o Queued
  <2>1. q \in Seq(Input) /\ cl' = [cl EXCEPT !.running = TRUE, !.pending = q]
    BY <1>3, <1>4
  <2> HIDE DEF q
  <2>2. /\ cl' \in ClType /\ cl'.running = TRUE /\ cl'.pending = q
        /\ UNCHANGED <<cl.nonce, cl.host, cl.fenced, cl.typed, cl.in>>
    BY <1>1, <2>1 DEF ClType
  <2> QED
    BY <2>2 DEF q
<1>6. /\ opening' \in OpeningType /\ opening.st = "sent" /\ opening'.items = <<>>
      /\ opening'.st = "no" /\ openFile'.nonce = cl.nonce
  BY DEF Opened, NoOpen, OpeningType
<1>7. typedAt' = [k \in Item |-> IF k \in Range(Queued) THEN cl.nonce ELSE typedAt[k]]
  BY DEF Opened, Queued
<1>8. typedAt \in [Item -> Nat]
  BY DEF MailType
<1>9. typedAt' \in [Item -> Nat]
  BY <1>1, <1>7, <1>8
<1>10. \A k : k \in Range(Queued) <=> \E j \in 1..Len(Queued) : Queued[j] = k
  BY <1>2 DEF Range
<1>11. \A k \in Item : typedAt'[k] = IF \E j \in 1..Len(Queued) : Queued[j] = k
                                     THEN cl.nonce ELSE typedAt[k]
  BY <1>7, <1>10
<1>12. UNCHANGED <<inFiles, log, opened, drain, ses, host, dir>>
  BY DEF Opened, hostVars
<1>13. renewing' = "fencing" => renewing = "fencing"
  BY DEF Opened
<1>14. MailType'
  BY <1>1, <1>5, <1>6, <1>9, <1>12 DEF MailType, SesShape, Draining, Busy
<1> QED
  BY <1>1, <1>2, <1>5, <1>6, <1>11, <1>12, <1>13, <1>14

\* drainInput takes a batch off the front of the queue.
LEMMA DrainStartDoes ==
    ASSUME MailType, DrainStart
    PROVE  /\ MailType'
           /\ UNCHANGED <<inFiles, log, opened, typedAt, opening, openFile, ses, host, dir, renewing>>
           /\ UNCHANGED <<cl.nonce, cl.host, cl.fenced, cl.typed, cl.in, cl.running>>
           /\ ~Busy /\ cl.running /\ ~cl.fenced
           /\ drain'.nonce = cl.nonce /\ drain'.left = drain'.batch /\ drain'.torn = FALSE
           /\ \E n \in 1..Len(cl.pending) :
                /\ drain'.batch = SubSeq(cl.pending, 1, n)
                /\ cl'.pending = SubSeq(cl.pending, n + 1, Len(cl.pending))
<1>1. cl \in ClType /\ cl.pending \in Seq(Input) /\ cl.nonce \in Nat
  BY DEF MailType, ClType
<1>2. PICK n \in 1..Len(cl.pending) :
        /\ drain' = [nonce |-> cl.nonce, batch |-> SubSeq(cl.pending, 1, n),
                     left |-> SubSeq(cl.pending, 1, n), torn |-> FALSE]
        /\ cl' = [cl EXCEPT !.pending = SubSeq(cl.pending, n + 1, Len(cl.pending))]
  BY DEF DrainStart
<1> DEFINE b == SubSeq(cl.pending, 1, n)
           r == SubSeq(cl.pending, n + 1, Len(cl.pending))
<1>3. b \in Seq(Input) /\ r \in Seq(Input) /\ Len(b) = n /\ n # 0
  BY <1>1
<1>4. b # <<>>
  BY <1>3
<1>5. /\ drain' \in DrainType /\ drain'.left = b /\ drain'.batch = b /\ drain'.nonce = cl.nonce
      /\ drain'.torn = FALSE
  <2>1. drain' = [nonce |-> cl.nonce, batch |-> b, left |-> b, torn |-> FALSE]
    BY <1>2
  <2> HIDE DEF b
  <2> QED
    BY <1>1, <1>3, <2>1 DEF DrainType
<1>6. /\ cl' \in ClType /\ cl'.pending = r
      /\ UNCHANGED <<cl.nonce, cl.host, cl.fenced, cl.typed, cl.in, cl.running>>
  <2>1. cl' = [cl EXCEPT !.pending = r]
    BY <1>2
  <2> HIDE DEF r
  <2> QED
    BY <1>1, <1>3, <2>1 DEF ClType
<1>7. /\ UNCHANGED <<inFiles, log, opened, typedAt, opening, openFile, ses, host, dir, renewing>>
      /\ ~Busy /\ cl.running /\ ~cl.fenced
  BY BusyDrain DEF DrainStart, hostVars, fileVars, Usable
<1>8. MailType'
  BY <1>4, <1>5, <1>6, <1>7 DEF MailType, SesShape, Draining, Busy
<1> QED
  BY <1>2, <1>5, <1>6, <1>7, <1>8

\* The next of the batch becomes a frame with the next number.
LEMMA WriteInputDoes ==
    ASSUME MailType, WriteInput
    PROVE  /\ MailType'
           /\ UNCHANGED <<log, opened, typedAt, opening, openFile, ses, host, dir, renewing>>
           /\ UNCHANGED <<cl.nonce, cl.host, cl.fenced, cl.typed, cl.pending, cl.running>>
           /\ cl'.in = cl.in + 1 /\ cl.in \in Nat
           /\ Busy /\ ~drain.torn /\ dir = TRUE
           /\ DOMAIN inFiles' = DOMAIN inFiles \union {cl.in + 1}
           /\ inFiles'[cl.in + 1].nonce = drain.nonce
           /\ inFiles'[cl.in + 1].item = Head(drain.left)
           /\ \A s \in DOMAIN inFiles : s # cl.in + 1 => inFiles'[s] = inFiles[s]
           /\ drain'.torn = FALSE /\ drain'.left = Tail(drain.left)
           /\ \/ drain'.batch = drain.batch /\ drain'.nonce = drain.nonce /\ drain'.left # <<>>
              \/ drain'.batch = <<>> /\ drain'.left = <<>>
<1>1. /\ cl \in ClType /\ drain \in DrainType /\ drain.left \in Seq(Input) /\ cl.in \in Nat
      /\ drain.nonce \in Nat /\ host.id \in Nat /\ drain.batch \in Seq(Input)
  BY DEF MailType, ClType, DrainType, HostType
<1>2. /\ drain.left # <<>> /\ Busy /\ ~drain.torn /\ dir
      /\ dir = TRUE
  BY BusyDrain DEF WriteInput, Busy, MailType
<1>3. /\ Head(drain.left) \in Input /\ Tail(drain.left) \in Seq(Input)
      /\ Len(drain.left) = 1 => Tail(drain.left) = <<>>
      /\ Len(drain.left) # 1 => Tail(drain.left) # <<>>
  BY <1>1, <1>2, Tails
<1>4. cl' = [cl EXCEPT !.in = cl.in + 1]
  BY DEF WriteInput
<1>5. /\ cl' \in ClType /\ cl'.in = cl.in + 1
      /\ UNCHANGED <<cl.nonce, cl.host, cl.fenced, cl.typed, cl.pending, cl.running>>
  BY <1>1, <1>4 DEF ClType
<1>6. /\ drain' \in DrainType /\ (Draining => Busy)'
      /\ drain'.torn = FALSE /\ drain'.left = Tail(drain.left)
      /\ \/ drain'.batch = drain.batch /\ drain'.nonce = drain.nonce /\ drain'.left # <<>>
         \/ drain'.batch = <<>> /\ drain'.left = <<>>
  <2>1. CASE Len(drain.left) = 1
    <3>1. drain' = NoDrain
      BY <2>1 DEF WriteInput
    <3>2. Tail(drain.left) = <<>>
      BY <1>3, <2>1
    <3> QED
      BY <3>1, <3>2 DEF NoDrain, DrainType, Draining, Busy
  <2>2. CASE Len(drain.left) # 1
    <3> DEFINE t == Tail(drain.left)
    <3>1. drain' = [drain EXCEPT !.left = t]
      BY <2>2 DEF WriteInput
    <3>2. t \in Seq(Input) /\ t # <<>>
      BY <1>3, <2>2
    <3> HIDE DEF t
    <3>3. drain' \in DrainType /\ drain'.torn = drain.torn /\ drain'.left = t
          /\ drain'.batch = drain.batch /\ drain'.nonce = drain.nonce
      BY <1>1, <3>1, <3>2 DEF DrainType
    <3>4. drain.torn = FALSE
      BY <1>1, <1>2 DEF DrainType
    <3> QED
      BY <3>2, <3>3, <3>4 DEF t, Busy
  <2> QED
    BY <2>1, <2>2
<1>7. /\ DOMAIN inFiles' = DOMAIN inFiles \union {cl.in + 1}
      /\ inFiles'[cl.in + 1] = [nonce |-> drain.nonce, item |-> Head(drain.left), for |-> host.id]
      /\ \A s \in DOMAIN inFiles : s # cl.in + 1 => inFiles'[s] = inFiles[s]
  BY DEF WriteInput
<1>8. DOMAIN inFiles' \subseteq Nat /\ \A s \in DOMAIN inFiles' : inFiles'[s] \in InFrame
  BY <1>1, <1>3, <1>7 DEF MailType, InFrame
<1>9. UNCHANGED <<log, opened, typedAt, opening, openFile, ses, host, dir, renewing>>
  BY DEF WriteInput, hostVars
<1>10. MailType'
  BY <1>5, <1>6, <1>8, <1>9 DEF MailType, SesShape
<1> QED
  BY <1>1, <1>2, <1>5, <1>6, <1>7, <1>9, <1>10

\* The batch that failed is in front of the queue, whole.
LEMMA WriteInputFailsDoes ==
    ASSUME MailType, WriteInputFails
    PROVE  /\ MailType'
           /\ UNCHANGED <<inFiles, log, opened, typedAt, opening, openFile, ses, host, dir, renewing>>
           /\ UNCHANGED <<cl.nonce, cl.host, cl.fenced, cl.typed, cl.running>>
           /\ cl'.in = cl.in + 1 /\ cl.in \in Nat
           /\ Busy /\ (dir = FALSE \/ drain.torn)
           /\ cl'.pending = drain.batch \o cl.pending
           /\ drain'.batch = <<>> /\ drain'.left = <<>> /\ drain'.torn = FALSE
<1>1. /\ cl \in ClType /\ drain.batch \in Seq(Input) /\ cl.pending \in Seq(Input) /\ cl.in \in Nat
  BY DEF MailType, ClType, DrainType
<1> DEFINE stage == IF cl.stage = "disposing" THEN "live" ELSE cl.stage
           q == drain.batch \o cl.pending
<1>2. stage \in {"live", "disposing", "disposed"} /\ q \in Seq(Input)
  BY <1>1 DEF ClType
<1>3. cl' = [cl EXCEPT !.in = cl.in + 1, !.pending = q, !.stage = stage]
  BY DEF WriteInputFails, BatchBack
<1>4. /\ cl' \in ClType /\ cl'.in = cl.in + 1 /\ cl'.pending = q
      /\ UNCHANGED <<cl.nonce, cl.host, cl.fenced, cl.typed, cl.running>>
  <2> HIDE DEF stage, q
  <2>1. cl.in + 1 \in Nat
    BY <1>1
  <2>2. /\ cl'.in = cl.in + 1 /\ cl'.pending = q
        /\ UNCHANGED <<cl.nonce, cl.host, cl.fenced, cl.typed, cl.running>>
    BY <1>1, <1>3 DEF ClType
  <2>3. cl' \in ClType
    BY <1>1, <1>2, <1>3, <2>1 DEF ClType
  <2> QED
    BY <2>2, <2>3
<1>5. /\ drain' \in DrainType /\ (Draining => Busy)'
      /\ drain'.batch = <<>> /\ drain'.left = <<>> /\ drain'.torn = FALSE
  BY DEF WriteInputFails, NoDrain, DrainType, Draining, Busy
<1>6. /\ UNCHANGED <<inFiles, log, opened, typedAt, opening, openFile, ses, host, dir, renewing>>
      /\ Busy /\ (dir = FALSE \/ drain.torn)
  BY BusyDrain DEF WriteInputFails, hostVars, fileVars, MailType
<1>7. MailType'
  BY <1>4, <1>5, <1>6 DEF MailType, SesShape
<1> QED
  BY <1>1, <1>4, <1>5, <1>6, <1>7

\* The mailbox is removed: no frame is left, and the batch in flight will fail.
Emptied ==
    /\ DOMAIN inFiles' = {} /\ openFile' = None /\ openFile'.nonce = 0 /\ dir' = FALSE
    /\ UNCHANGED <<drain.nonce, drain.batch, drain.left>> /\ drain'.torn = Busy
    /\ opening'.items = opening.items
    /\ opening'.st = IF opening.st = "no" THEN "no" ELSE "torn"

\* The fence empties the queue and the mailbox.
LEMMA RenewStartDoes ==
    ASSUME MailType, RenewStart
    PROVE  /\ MailType' /\ Emptied
           /\ UNCHANGED <<log, opened, typedAt, ses, host>>
           /\ UNCHANGED <<cl.nonce, cl.typed, cl.in>>
           /\ cl'.host = host.id /\ cl'.fenced = TRUE /\ cl'.running = FALSE
           /\ cl'.pending = <<>>
<1>1. /\ cl' = [cl EXCEPT !.host = host.id, !.fenced = TRUE, !.running = FALSE, !.pending = <<>>]
      /\ cl \in ClType /\ host.id \in Nat /\ RemoveMailbox
  BY DEF RenewStart, MailType, HostType
<1>2. /\ UNCHANGED <<cl.nonce, cl.typed, cl.in>>
      /\ cl'.host = host.id /\ cl'.fenced = TRUE /\ cl'.running = FALSE /\ cl'.pending = <<>>
  BY <1>1 DEF ClType
<1>6. cl' \in ClType
  <2>1. <<>> \in Seq(Input)
    OBVIOUS
  <2> QED
    BY <1>1, <2>1 DEF ClType
<1>3. /\ opening' \in OpeningType /\ drain' \in DrainType /\ (Draining => Busy)' /\ Emptied
      /\ dir' \in BOOLEAN /\ DOMAIN inFiles' = {} /\ openFile'.nonce = 0
  BY <1>1, RemovedType DEF Emptied
<1>4. UNCHANGED <<log, opened, typedAt, ses, host>>
  BY DEF RenewStart, hostVars
<1>5. MailType'
  BY <1>6, <1>3, <1>4 DEF MailType, SesShape
<1> QED
  BY <1>2, <1>3, <1>4, <1>5

\* The new nonce starts behind the fence.
LEMMA RenewSwitchDoes ==
    ASSUME MailType, RenewSwitch
    PROVE  /\ MailType'
           /\ UNCHANGED <<inFiles, log, opened, typedAt, drain, openFile, ses, host>>
           /\ UNCHANGED <<cl.host, cl.typed, cl.in, cl.pending, cl.running>>
           /\ cl'.nonce = cl.nonce + 1 /\ cl'.fenced = FALSE
           /\ renewing = "fencing" /\ renewing' # "fencing" /\ (dir => dir')
           /\ \/ opening' = opening
              \/ /\ opening'.st # "no"
                 /\ opening'.items = IF opening.st = "no" THEN <<>> ELSE opening.items
<1>1. /\ cl' = [cl EXCEPT !.nonce = cl.nonce + 1, !.out = 0, !.fenced = FALSE] /\ cl \in ClType
      /\ renewing = "fencing" /\ renewing' # "fencing"
  BY DEF RenewSwitch, RenewedOutput, MailType
<1>6. cl.nonce + 1 \in Nat
  BY <1>1 DEF ClType
<1>7. cl' \in ClType
  BY <1>1, <1>6 DEF ClType
<1>2. /\ cl'.nonce = cl.nonce + 1 /\ cl'.fenced = FALSE
      /\ UNCHANGED <<cl.host, cl.typed, cl.in, cl.pending, cl.running>>
  BY <1>1 DEF ClType
<1>3. /\ opening' \in OpeningType /\ dir' \in BOOLEAN /\ (dir => dir')
      /\ \/ opening' = opening
         \/ /\ opening'.st # "no"
            /\ opening'.items = IF opening.st = "no" THEN <<>> ELSE opening.items
  <2>1. CASE UNCHANGED <<opening, dir>>
    BY <2>1 DEF MailType
  <2>2. CASE StartOpen(<<>>)
    <3>1. <<>> \in Seq(Item) /\ opening.items \in Seq(Item)
      BY DEF MailType, OpeningType
    <3>2. opening.items \o <<>> = opening.items
      BY <3>1, ConcatEmptySeq
    <3> QED
      BY <2>2, <3>1, <3>2, StartedType
  <2> QED
    BY <2>1, <2>2 DEF RenewSwitch
<1>4. UNCHANGED <<inFiles, log, opened, typedAt, drain, openFile, ses, host>>
  BY DEF RenewSwitch, hostVars
<1>5. MailType'
  BY <1>7, <1>3, <1>4 DEF MailType, SesShape, Draining, Busy
<1> QED
  BY <1>1, <1>2, <1>3, <1>4, <1>5

\* dispose leaves the queue, or empties it for its own frame.
LEMMA DisposeStartDoes ==
    ASSUME MailType, DisposeStart
    PROVE  /\ MailType'
           /\ UNCHANGED <<inFiles, log, opened, typedAt, drain, openFile, ses, host, opening,
                          dir, renewing>>
           /\ UNCHANGED <<cl.nonce, cl.host, cl.fenced, cl.typed, cl.in, cl.running>>
           /\ \/ cl'.pending = cl.pending
              \/ cl'.pending = <<>> /\ cl.fenced
              \/ cl'.pending = <<Dispose>>
<1> DEFINE pending == IF ~cl.running /\ opening.st = "no" THEN cl.pending
                      ELSE IF cl.fenced THEN <<>> ELSE <<Dispose>>
<1>1. cl' = [cl EXCEPT !.stage = "disposing", !.pending = pending] /\ cl \in ClType
  BY DEF DisposeStart, MailType
<1>2. cl.pending \in Seq(Input) /\ <<>> \in Seq(Input) /\ <<Dispose>> \in Seq(Input)
  BY <1>1, InputNumbers DEF ClType
<1>3. /\ pending \in Seq(Input)
      /\ pending = cl.pending \/ (pending = <<>> /\ cl.fenced) \/ pending = <<Dispose>>
  BY <1>2
<1> HIDE DEF pending
<1>4. /\ cl' \in ClType /\ cl'.pending = pending
      /\ UNCHANGED <<cl.nonce, cl.host, cl.fenced, cl.typed, cl.in, cl.running>>
  BY <1>1, <1>3 DEF ClType
<1>5. UNCHANGED <<inFiles, log, opened, typedAt, drain, openFile, ses, host, opening, dir, renewing>>
  BY DEF DisposeStart, hostVars, fileVars
<1>6. MailType'
  BY <1>4, <1>5 DEF MailType, SesShape, Draining, Busy
<1> QED
  BY <1>3, <1>4, <1>5, <1>6

\* The host lists the frames, and opens a session for another nonce.
LEMMA PollSessionDoes ==
    ASSUME MailType, PollSession
    PROVE  /\ MailType'
           /\ UNCHANGED <<cl, opening, renewing, drain, typedAt, dir, openFile, inFiles, log>>
           /\ UNCHANGED <<host.id, host.up>> /\ host.up /\ host'.names = DOMAIN inFiles
           /\ \/ /\ ~NewSession /\ UNCHANGED <<ses.id, ses.nonce, ses.lastInput, opened>>
              \/ /\ NewSession
                 /\ ses'.id = Len(opened) + 1 /\ ses'.nonce = openFile.nonce
                 /\ ses'.lastInput = 0 /\ openFile.nonce \in Nat
                 /\ opened' = Append(opened, [nonce |-> openFile.nonce, host |-> host.id,
                                              first |-> cl.host])
<1> DEFINE session == IF NewSession
                      THEN [id |-> Len(opened) + 1, nonce |-> openFile.nonce,
                            lastInput |-> 0, lastAck |-> openFile.ack]
                      ELSE [ses EXCEPT !.lastAck = Max({@, openFile.ack})]
           acked == ackFile # None /\ ackFile.nonce = session.nonce
           ack == IF acked THEN Max({session.lastAck, ackFile.ack}) ELSE session.lastAck
<1>1. ses' = [session EXCEPT !.lastAck = ack]
  BY DEF PollSession
<1>2. /\ UNCHANGED <<cl, opening, renewing, drain, typedAt, dir, openFile, inFiles, log>>
      /\ host.up
  BY DEF PollSession, pageVars, Idle
<1>3. PICK pc \in {"unlink", "inputs"} : host' = [host EXCEPT !.pc = pc, !.names = DOMAIN inFiles]
  BY DEF PollSession
<1>4. host \in HostType /\ DOMAIN inFiles \in SUBSET Nat
  BY DEF MailType
<1>5. host' \in HostType /\ UNCHANGED <<host.id, host.up>> /\ host'.names = DOMAIN inFiles
  BY <1>3, <1>4 DEF HostType
<1> HIDE DEF ack
<1>6. /\ SesShape'
      /\ \/ /\ ~NewSession /\ UNCHANGED <<ses.id, ses.nonce, ses.lastInput>>
         \/ /\ NewSession
            /\ ses'.id = Len(opened) + 1 /\ ses'.nonce = openFile.nonce /\ ses'.lastInput = 0
  <2>1. CASE NewSession
    <3>1. ses' = [id |-> Len(opened) + 1, nonce |-> openFile.nonce,
                  lastInput |-> 0, lastAck |-> ack]
      BY <1>1, <2>1
    <3>2. Len(opened) + 1 \in Nat /\ openFile.nonce \in Nat
      BY DEF MailType
    <3> QED
      BY <2>1, <3>1, <3>2 DEF SesShape
  <2>2. CASE ~NewSession
    <3> DEFINE top == Max({ses.lastAck, openFile.ack})
    <3>1. /\ ses = [id |-> ses.id, nonce |-> ses.nonce, lastInput |-> ses.lastInput,
                    lastAck |-> ses.lastAck]
          /\ ses.id \in Nat /\ ses.nonce \in Nat /\ ses.lastInput \in Nat
      BY DEF MailType, SesShape
    <3>2. session = [ses EXCEPT !.lastAck = top]
      BY <2>2
    <3> HIDE DEF top
    <3> HIDE DEF session
    <3>3. ses' = [id |-> ses.id, nonce |-> ses.nonce, lastInput |-> ses.lastInput,
                  lastAck |-> ack]
      BY <1>1, <3>1, <3>2
    <3> QED
      BY <2>2, <3>1, <3>3 DEF SesShape
  <2> QED
    BY <2>1, <2>2
<1> HIDE DEF session, acked
<1>7. openFile.nonce \in Nat /\ host.id \in Nat /\ cl.host \in Nat
  BY DEF MailType, HostType, ClType
<1>8. /\ opened' \in Seq([nonce: Nat, host: Nat, first: Nat])
      /\ ~NewSession => opened' = opened
      /\ NewSession => opened' = Append(opened, [nonce |-> openFile.nonce, host |-> host.id,
                                                 first |-> cl.host])
  <2>1. CASE NewSession
    <3>1. opened' = Append(opened, [nonce |-> openFile.nonce, host |-> host.id, first |-> cl.host])
      BY <2>1 DEF PollSession
    <3>2. [nonce |-> openFile.nonce, host |-> host.id, first |-> cl.host]
             \in [nonce: Nat, host: Nat, first: Nat]
      BY <1>7
    <3> QED
      BY <2>1, <3>1, <3>2, AppendProperties DEF MailType
  <2>2. CASE ~NewSession
    BY <2>2 DEF PollSession, MailType
  <2> QED
    BY <2>1, <2>2
<1>9. MailType'
  BY <1>2, <1>5, <1>6, <1>8 DEF MailType, Draining, Busy
<1> QED
  BY <1>2, <1>5, <1>6, <1>7, <1>8, <1>9

\* The frame that is looked at next, and whether the session takes it.
First == Min(host.names)
Taken == First \in DOMAIN inFiles /\ ForSession(inFiles[First], First)

\* The frame is gone, and it is not looked at again.
Dropped ==
    /\ DOMAIN inFiles' = DOMAIN inFiles \ {First}
    /\ \A t \in DOMAIN inFiles' : inFiles'[t] = inFiles[t]
    /\ host'.names = host.names \ {First}
    /\ UNCHANGED <<dir, openFile, opening, drain>>

\* No session is open.
Closed == ses' = NoSession /\ ses'.id = 0 /\ ses'.nonce = 0 /\ ses'.lastInput = 0

\* No session has the shape of one.
LEMMA ClosedShape == ASSUME ses' = NoSession PROVE SesShape' /\ Closed
BY DEF NoSession, SesShape, Closed

\* A dropped frame leaves the others.
LEMMA DroppedType ==
    ASSUME MailType, DropInput(First)
    PROVE  /\ Dropped /\ UNCHANGED <<host.id, host.up>>
           /\ host' \in HostType /\ drain' \in DrainType /\ opening' \in OpeningType
           /\ (Draining => Busy)' /\ dir' \in BOOLEAN /\ openFile'.nonce \in Nat
           /\ DOMAIN inFiles' \subseteq Nat
           /\ \A t \in DOMAIN inFiles' : inFiles'[t] \in InFrame
<1>1. /\ inFiles' = [t \in DOMAIN inFiles \ {First} |-> inFiles[t]]
      /\ host' = [host EXCEPT !.names = host.names \ {First}]
      /\ UNCHANGED <<dir, openFile, opening, drain>>
  BY DEF DropInput, Restrict
<1>2. host \in HostType /\ host.names \ {First} \in SUBSET Nat
  BY DEF MailType, HostType
<1>3. host' \in HostType /\ host'.names = host.names \ {First} /\ UNCHANGED <<host.id, host.up>>
  BY <1>1, <1>2 DEF HostType
<1>4. /\ DOMAIN inFiles' = DOMAIN inFiles \ {First}
      /\ \A t \in DOMAIN inFiles' : inFiles'[t] = inFiles[t]
  BY <1>1
<1>5. Dropped
  BY <1>1, <1>3, <1>4 DEF Dropped
<1>6. /\ drain' \in DrainType /\ opening' \in OpeningType /\ (Draining => Busy)' /\ dir' \in BOOLEAN
      /\ openFile'.nonce \in Nat
  BY <1>1 DEF MailType, Draining, Busy
<1>7. DOMAIN inFiles' \subseteq Nat /\ \A t \in DOMAIN inFiles' : inFiles'[t] \in InFrame
  BY <1>4 DEF MailType
<1> QED
  BY <1>3, <1>5, <1>6, <1>7

\* The session's shell gets it.
Gave ==
    /\ Taken /\ Dropped
    /\ inFiles[First].item \in Item /\ inFiles[First].for \in Nat
    /\ UNCHANGED <<ses.id, ses.nonce>> /\ ses'.lastInput = First
    /\ log' = Append(log, [session |-> ses.id, item |-> inFiles[First].item,
                           for |-> inFiles[First].for])

\* The frame looked at is dropped, given to the shell, or ends the session.
LEMMA ApplyInputDoes ==
    ASSUME MailType, ApplyInput
    PROVE  /\ MailType'
           /\ UNCHANGED <<cl, renewing, typedAt, opened>>
           /\ UNCHANGED <<host.id, host.up>> /\ host.up
           /\ First \in host.names /\ \A t \in host.names : First <= t
           /\ First \in Nat
           /\ \/ ~Taken /\ Dropped /\ UNCHANGED <<ses, log>>
              \/ Taken /\ Emptied /\ Closed /\ host'.names = {} /\ UNCHANGED log
              \/ Gave
<1>1. host \in HostType /\ host.names \in SUBSET Nat /\ host.names # {} /\ host.up
  BY DEF MailType, HostType, ApplyInput
<1>2. First \in host.names /\ (\A t \in host.names : First <= t) /\ First \in Nat
  BY <1>1, Smallest DEF First
<1>3. UNCHANGED <<cl, renewing, typedAt, opened>>
  BY DEF ApplyInput
<1>4. CASE ~Taken /\ DropInput(First) /\ UNCHANGED <<ses, log>>
  <2>1. MailType'
    BY <1>3, <1>4, DroppedType DEF MailType, SesShape
  <2> QED
    BY <1>1, <1>2, <1>3, <1>4, <2>1, DroppedType
<1>5. CASE /\ Taken /\ CloseSession /\ UNCHANGED log
           /\ host' = [host EXCEPT !.pc = "idle", !.names = {}]
  <2>1. host' \in HostType /\ UNCHANGED <<host.id, host.up>> /\ host'.names = {}
    BY <1>1, <1>5 DEF HostType
  <2>2. RemoveMailbox /\ ses' = NoSession
    BY <1>5 DEF CloseSession
  <2>3. Emptied /\ Closed /\ SesShape'
    BY <2>2, RemovedType, ClosedShape DEF Emptied
  <2>5. cl' \in ClType /\ UNCHANGED <<typedAt, opened, log>>
    BY <1>3, <1>5 DEF MailType
  <2>4. MailType'
    BY <2>1, <2>2, <2>3, <2>5, RemovedShape
  <2> QED
    BY <1>1, <1>2, <1>3, <1>5, <2>1, <2>3, <2>4
<1>6. CASE /\ Taken /\ inFiles[First].item # Dispose /\ DropInput(First)
           /\ ses' = [ses EXCEPT !.lastInput = First]
           /\ log' = Append(log, [session |-> ses.id, item |-> inFiles[First].item,
                                  for |-> inFiles[First].for])
  <2>1. inFiles[First].item \in Item /\ inFiles[First].for \in Nat
    BY <1>6, InputNumbers DEF Taken, MailType, InFrame
  <2>2. /\ ses = [id |-> ses.id, nonce |-> ses.nonce, lastInput |-> ses.lastInput,
                  lastAck |-> ses.lastAck]
        /\ ses.id \in Nat /\ ses.nonce \in Nat
    BY DEF MailType, SesShape
  <2>3. ses' = [id |-> ses.id, nonce |-> ses.nonce, lastInput |-> First, lastAck |-> ses.lastAck]
    BY <1>6, <2>2
  <2>4. SesShape' /\ UNCHANGED <<ses.id, ses.nonce>> /\ ses'.lastInput = First
    BY <1>2, <2>2, <2>3 DEF SesShape
  <2>5. log' \in Seq([session: Nat, item: Item, for: Nat])
    <3> DEFINE e == [session |-> ses.id, item |-> inFiles[First].item, for |-> inFiles[First].for]
    <3>1. e \in [session: Nat, item: Item, for: Nat]
      BY <2>1, <2>2
    <3> HIDE DEF e
    <3>2. Append(log, e) \in Seq([session: Nat, item: Item, for: Nat])
      BY <3>1, AppendProperties DEF MailType
    <3> QED
      BY <1>6, <3>2 DEF e
  <2>6. MailType'
    BY <1>3, <1>6, <2>4, <2>5, DroppedType DEF MailType
  <2> QED
    BY <1>1, <1>2, <1>3, <1>6, <2>1, <2>4, <2>6, DroppedType DEF Gave
<1> QED
  BY <1>4, <1>5, <1>6 DEF ApplyInput, First, Taken

\* The TTL closes the session and removes the mailbox.
LEMMA ExpireDoes ==
    ASSUME MailType, Expire
    PROVE  /\ MailType' /\ Emptied /\ Closed /\ ~NewSession
           /\ UNCHANGED <<cl, renewing, typedAt, host, opened, log>>
<1>1. RemoveMailbox /\ ses' = NoSession /\ ~NewSession
  BY DEF Expire, CloseSession
<1>2. Emptied /\ Closed /\ SesShape'
  BY <1>1, RemovedType, ClosedShape DEF Emptied
<1>3. UNCHANGED <<cl, renewing, typedAt, host, opened, log>>
  BY DEF Expire
<1>5. cl' \in ClType /\ host' \in HostType /\ UNCHANGED <<typedAt, opened, log>>
  BY <1>3 DEF MailType
<1>4. MailType'
  BY <1>1, <1>2, <1>5, RemovedShape
<1> QED
  BY <1>1, <1>2, <1>3, <1>4

\* So does a host that stops.
LEMMA HostStopsDoes ==
    ASSUME MailType, HostStops
    PROVE  /\ MailType' /\ Emptied /\ Closed
           /\ UNCHANGED <<cl, renewing, typedAt, opened, log>>
           /\ host'.id = host.id /\ host'.names = host.names /\ host'.up = FALSE
<1>1. RemoveMailbox /\ ses' = NoSession /\ host' = [host EXCEPT !.up = FALSE]
  BY DEF HostStops, CloseSession
<1>2. Emptied /\ Closed /\ SesShape'
  BY <1>1, RemovedType, ClosedShape DEF Emptied
<1>3. UNCHANGED <<cl, renewing, typedAt, opened, log>>
  BY DEF HostStops
<1>4. host' \in HostType /\ host'.id = host.id /\ host'.names = host.names /\ host'.up = FALSE
  BY <1>1 DEF MailType, HostType
<1>6. cl' \in ClType
  BY <1>3 DEF MailType
<1>5. MailType'
  BY <1>1, <1>2, <1>3, <1>4, <1>6, RemovedShape
<1> QED
  BY <1>2, <1>3, <1>4, <1>5

\* A host that is killed leaves the mailbox.
LEMMA HostDiesDoes ==
    ASSUME MailType, HostDies
    PROVE  /\ MailType' /\ Closed
           /\ UNCHANGED <<cl, opening, renewing, drain, typedAt, dir, openFile, inFiles, opened, log>>
           /\ host'.id = host.id /\ host'.names = {} /\ host'.up = FALSE
<1>1. ses' = NoSession /\ host' = [host EXCEPT !.up = FALSE, !.pc = "idle", !.names = {}]
  BY DEF HostDies
<1>2. Closed /\ SesShape'
  BY <1>1, ClosedShape
<1>3. UNCHANGED <<cl, opening, renewing, drain, typedAt, dir, openFile, inFiles, opened, log>>
  BY DEF HostDies, pageVars, fileVars
<1>4. host' \in HostType /\ host'.id = host.id /\ host'.names = {} /\ host'.up = FALSE
  BY <1>1 DEF MailType, HostType
<1>5. MailType'
  BY <1>2, <1>3, <1>4 DEF MailType, Draining, Busy
<1> QED
  BY <1>2, <1>3, <1>4, <1>5

\* A new host finds the mailbox as it is.
LEMMA HostStartsDoes ==
    ASSUME MailType, HostStarts
    PROVE  /\ MailType'
           /\ UNCHANGED <<cl, opening, renewing, drain, typedAt, dir, openFile, inFiles, opened, log, ses>>
           /\ host'.id = host.id + 1 /\ host'.names = {}
<1>1. host' = [id |-> host.id + 1, up |-> TRUE, pc |-> "idle", names |-> {}]
  BY DEF HostStarts
<1>2. host.id \in Nat
  BY DEF MailType, HostType
<1>3. UNCHANGED <<cl, opening, renewing, drain, typedAt, dir, openFile, inFiles, opened, log, ses>>
  BY DEF HostStarts, pageVars, fileVars
<1>4. host' \in HostType /\ host'.id = host.id + 1 /\ host'.names = {}
  BY <1>1, <1>2 DEF HostType
<1>5. MailType'
  BY <1>3, <1>4 DEF MailType, Draining, Busy, SesShape
<1> QED
  BY <1>3, <1>4, <1>5

\* What a shell gets is added at the end.
LEMMA LogGrows ==
    ASSUME MailType, Gave
    PROVE  /\ Len(log') = Len(log) + 1 /\ Len(log) \in Nat
           /\ \A i \in 1..Len(log) : log'[i] = log[i]
           /\ log'[Len(log) + 1].session = ses.id
           /\ log'[Len(log) + 1].item = inFiles[First].item
           /\ \A i \in 1..Len(log') : i \in 1..Len(log) \/ i = Len(log) + 1
<1> DEFINE e == [session |-> ses.id, item |-> inFiles[First].item, for |-> inFiles[First].for]
<1>1. e \in [session: Nat, item: Item, for: Nat] /\ log' = Append(log, e)
  BY DEF MailType, SesShape, Gave
<1>2. e.session = ses.id /\ e.item = inFiles[First].item
  OBVIOUS
<1> HIDE DEF e
<1>3. log \in Seq([session: Nat, item: Item, for: Nat])
  BY DEF MailType
<1>4. /\ Len(log') = Len(log) + 1 /\ Len(log) \in Nat
      /\ \A i \in 1..Len(log) : log'[i] = log[i]
      /\ log'[Len(log) + 1] = e
  BY <1>1, <1>3, AppendProperties
<1> QED
  BY <1>2, <1>4

\* Every step, in the cases the proofs below go through.
Actions ==
    \/ Quiet \/ SendData \/ Opened \/ DrainStart \/ WriteInput \/ WriteInputFails
    \/ RenewStart \/ RenewSwitch \/ DisposeStart \/ PollSession \/ ApplyInput
    \/ Expire \/ HostStops \/ HostDies \/ HostStarts

\* Every step keeps the shapes and is one of the cases.
LEMMA Steps == MailType /\ [Next]_vars => MailType' /\ Actions
<1> SUFFICES ASSUME MailType, [Next]_vars PROVE MailType' /\ Actions
  OBVIOUS
<1>1. CASE Open \/ OpenRejected \/ DisposeEnd \/ Poll \/ Elsewhere
  BY <1>1, OpenDoes, OpenRejectedDoes, DisposeEndDoes, PollDoes, ElsewhereDoes DEF Actions
<1>2. CASE SendData \/ Opened \/ DrainStart \/ WriteInput \/ WriteInputFails
  BY <1>2, SendDataDoes, OpenedDoes, DrainStartDoes, WriteInputDoes, WriteInputFailsDoes DEF Actions
<1>3. CASE RenewStart \/ RenewSwitch \/ DisposeStart \/ PollSession \/ ApplyInput
  BY <1>3, RenewStartDoes, RenewSwitchDoes, DisposeStartDoes, PollSessionDoes, ApplyInputDoes
     DEF Actions
<1>4. CASE Expire \/ HostStops \/ HostDies \/ HostStarts
  BY <1>4, ExpireDoes, HostStopsDoes, HostDiesDoes, HostStartsDoes DEF Actions
<1> QED
  BY <1>1, <1>2, <1>3, <1>4 DEF Next, Page, Host, HostPoll, Drain, Elsewhere

-------------------------------------------------------------------------------
(* Whose the files are.  All frames are the page's, under its nonce; a     *)
(* fence leaves none, and fails the batch in flight.                       *)

FenceInv ==
    /\ cl.nonce > 0
    /\ cl.fenced => openFile.nonce = 0 /\ opening.st # "sent" /\ ~cl.running
    /\ openFile.nonce \in {0, cl.nonce} /\ (openFile.nonce = 0 => openFile = None)
    /\ openFile = None => openFile.nonce = 0
    /\ renewing = "fencing" => cl.fenced
    /\ opening.st = "no" => opening.items = <<>>
    /\ Busy /\ ~drain.torn => /\ drain.nonce = cl.nonce /\ ~cl.fenced /\ cl.running
                              /\ dir \/ drain.left = drain.batch
    /\ ~Busy => drain.torn = FALSE /\ drain.batch = <<>>

\* The fence is down at the start.
LEMMA FenceInit == Init => FenceInv
BY DEF Init, FenceInv, NoOpen, NoDrain, None, Busy

\* Every step keeps what the fence promises.
LEMMA FenceStep == ASSUME MailType, FenceInv, Actions PROVE FenceInv'
<1>0. /\ cl.nonce \in Nat /\ cl.fenced \in BOOLEAN /\ drain.torn \in BOOLEAN
      /\ cl.running \in BOOLEAN /\ dir \in BOOLEAN
  BY DEF MailType, ClType, DrainType
<1>1. CASE Quiet
  BY <1>0, <1>1 DEF Quiet, FenceInv, Busy
<1>2. CASE SendData
  BY <1>0, <1>2, SendDataDoes DEF FenceInv, Busy
<1>3. CASE Opened
  <2>1. openFile' # None
    BY <1>0, <1>3, OpenedDoes DEF FenceInv, None
  <2>2. ~cl.fenced /\ ~cl'.fenced
    BY <1>3, OpenedDoes DEF FenceInv
  <2>3. /\ openFile'.nonce = cl'.nonce /\ cl'.nonce > 0 /\ opening'.items = <<>> /\ cl'.running
        /\ UNCHANGED <<drain, dir, cl.nonce>> /\ (renewing' = "fencing" => renewing = "fencing")
    BY <1>3, OpenedDoes DEF FenceInv
  <2>4. Busy' = Busy /\ openFile'.nonce # 0
    BY <1>0, <2>3 DEF Busy
  <2> QED
    BY <1>0, <2>1, <2>2, <2>3, <2>4 DEF FenceInv
<1>4. CASE DrainStart
  <2>1. ~drain'.torn /\ drain'.left = drain'.batch /\ drain'.nonce = cl'.nonce
        /\ ~cl'.fenced /\ cl'.running
    BY <1>0, <1>4, DrainStartDoes
  <2>2. Busy'
    <3>1. PICK n \in 1..Len(cl.pending) : drain'.batch = SubSeq(cl.pending, 1, n)
      BY <1>4, DrainStartDoes
    <3>2. cl.pending \in Seq(Input)
      BY DEF MailType, ClType
    <3>3. SubSeq(cl.pending, 1, n) # <<>>
      BY <3>2, Cuts
    <3> QED
      BY <2>1, <3>1, <3>3 DEF Busy
  <2> QED
    BY <1>0, <1>4, <2>1, <2>2, DrainStartDoes DEF FenceInv
<1>5. CASE WriteInput
  BY <1>0, <1>5, WriteInputDoes DEF FenceInv, Busy
<1>6. CASE WriteInputFails
  BY <1>0, <1>6, WriteInputFailsDoes DEF FenceInv, Busy
<1>7. CASE RenewStart
  BY <1>0, <1>7, RenewStartDoes DEF FenceInv, Emptied, Busy
<1>8. CASE RenewSwitch
  <2>4. renewing = "fencing" /\ ~cl'.fenced /\ cl'.nonce = cl.nonce + 1 /\ renewing' # "fencing"
    BY <1>8, RenewSwitchDoes
  <2>1. /\ cl.fenced /\ openFile.nonce = 0 /\ openFile = None /\ ~cl'.fenced
        /\ cl'.nonce > 0 /\ renewing' # "fencing"
    BY <1>0, <2>4 DEF FenceInv
  <2>2. UNCHANGED <<drain, openFile>> /\ Busy' = Busy
    BY <1>8, RenewSwitchDoes DEF Busy
  <2>3. opening'.st = "no" => opening'.items = <<>>
    BY <1>8, RenewSwitchDoes DEF FenceInv
  <2> QED
    BY <1>0, <2>1, <2>2, <2>3 DEF FenceInv
<1>9. CASE DisposeStart
  BY <1>0, <1>9, DisposeStartDoes DEF FenceInv, Busy
<1>10. CASE PollSession
  BY <1>0, <1>10, PollSessionDoes DEF FenceInv, Busy
<1>11. CASE ApplyInput
  BY <1>0, <1>11, ApplyInputDoes DEF FenceInv, Emptied, Dropped, Gave, Busy
<1>12. CASE Expire
  BY <1>0, <1>12, ExpireDoes DEF FenceInv, Emptied, Busy
<1>13. CASE HostStops
  BY <1>0, <1>13, HostStopsDoes DEF FenceInv, Emptied, Busy
<1>14. CASE HostDies \/ HostStarts
  BY <1>0, <1>14, HostDiesDoes, HostStartsDoes DEF FenceInv, Busy
<1> QED
  BY <1>1, <1>2, <1>3, <1>4, <1>5, <1>6, <1>7, <1>8, <1>9, <1>10, <1>11, <1>12, <1>13, <1>14
     DEF Actions

\* Frames are numbered in the order they were written; those that came after
\* the directory was listed follow the ones that are listed.
FrameInv ==
    /\ \A s \in DOMAIN inFiles : inFiles[s].nonce = cl.nonce /\ 1 <= s /\ s <= cl.in
    /\ cl.fenced => DOMAIN inFiles = {}
    /\ ses.lastInput <= cl.in
    /\ \A s \in host.names : s <= cl.in
    /\ \A s \in host.names : \A t \in DOMAIN inFiles \ host.names : s < t

\* There are no frames at the start.
LEMMA FrameInit == Init => FrameInv
BY DEF Init, FrameInv, NoSession

\* Every step keeps the numbers and the nonce of the frames.
LEMMA FrameStep == ASSUME MailType, FenceInv, FrameInv, Actions PROVE FrameInv'
<1>0. /\ cl.nonce \in Nat /\ cl.in \in Nat /\ ses.lastInput \in Nat /\ host.names \subseteq Nat
      /\ DOMAIN inFiles \subseteq Nat /\ cl.fenced \in BOOLEAN
  BY DEF MailType, ClType, SesShape, HostType
<1>1. CASE Quiet
  BY <1>0, <1>1 DEF Quiet, FrameInv
<1>2. CASE SendData
  BY <1>0, <1>2, SendDataDoes DEF FrameInv
<1>3. CASE Opened
  BY <1>0, <1>3, OpenedDoes DEF FrameInv
<1>4. CASE DrainStart
  BY <1>0, <1>4, DrainStartDoes DEF FrameInv
<1>5. CASE WriteInput
  <2>1. drain.nonce = cl.nonce /\ ~cl.fenced
    BY <1>5, WriteInputDoes DEF FenceInv
  <2> QED
    BY <1>0, <1>5, <2>1, WriteInputDoes DEF FrameInv
<1>6. CASE WriteInputFails
  BY <1>0, <1>6, WriteInputFailsDoes DEF FrameInv
<1>7. CASE RenewStart
  BY <1>0, <1>7, RenewStartDoes DEF FrameInv, Emptied
<1>8. CASE RenewSwitch
  <2>1. DOMAIN inFiles = {}
    BY <1>8, RenewSwitchDoes DEF FenceInv, FrameInv
  <2> QED
    BY <1>0, <1>8, <2>1, RenewSwitchDoes DEF FrameInv
<1>9. CASE DisposeStart
  BY <1>0, <1>9, DisposeStartDoes DEF FrameInv
<1>10. CASE PollSession
  BY <1>0, <1>10, PollSessionDoes DEF FrameInv
<1>11. CASE ApplyInput
  <2>1. CASE Dropped
    <3>1. ses'.lastInput <= cl.in
      <4>1. UNCHANGED ses \/ (Taken /\ ses'.lastInput = First) \/ Closed
        BY <1>11, ApplyInputDoes DEF Gave
      <4> QED
        BY <1>0, <4>1 DEF FrameInv, Taken, Closed
    <3>2. UNCHANGED cl
      BY <1>11, ApplyInputDoes
    <3> QED
      BY <1>0, <2>1, <3>1, <3>2 DEF FrameInv, Dropped
  <2>2. CASE Emptied /\ Closed /\ host'.names = {}
    BY <1>0, <1>11, <2>2, ApplyInputDoes DEF FrameInv, Emptied, Closed
  <2> QED
    BY <1>11, <2>1, <2>2, ApplyInputDoes DEF Gave
<1>12. CASE Expire
  BY <1>0, <1>12, ExpireDoes DEF FrameInv, Emptied, Closed
<1>13. CASE HostStops
  BY <1>0, <1>13, HostStopsDoes DEF FrameInv, Emptied, Closed
<1>14. CASE HostDies
  BY <1>0, <1>14, HostDiesDoes DEF FrameInv, Closed
<1>15. CASE HostStarts
  BY <1>0, <1>15, HostStartsDoes DEF FrameInv
<1> QED
  BY <1>1, <1>2, <1>3, <1>4, <1>5, <1>6, <1>7, <1>8, <1>9, <1>10, <1>11, <1>12, <1>13, <1>14,
     <1>15 DEF Actions

\* A session is listed with its nonce, which the page has drawn.
SessionInv ==
    /\ ses.nonce <= cl.nonce
    /\ ses.nonce # 0 => ses.id \in 1..Len(opened) /\ opened[ses.id].nonce = ses.nonce
    /\ ses.id <= Len(opened)
    /\ cl.host <= host.id
    /\ \A k \in Item : typedAt[k] <= cl.nonce
    /\ \A i \in 1..Len(log) : log[i].session \in 1..Len(opened)

\* There is no session at the start.
LEMMA SessionInit == Init => SessionInv
BY DEF Init, SessionInv, NoSession

\* Every step keeps the session listed.
LEMMA SessionStep == ASSUME MailType, FenceInv, FrameInv, SessionInv, Actions PROVE SessionInv'
<1>0. /\ cl.nonce \in Nat /\ cl.host \in Nat /\ host.id \in Nat /\ ses.nonce \in Nat /\ ses.id \in Nat
      /\ Len(opened) \in Nat /\ Len(log) \in Nat /\ \A k \in Item : typedAt[k] \in Nat
  BY DEF MailType, ClType, SesShape, HostType
<1>1. CASE Quiet
  BY <1>0, <1>1 DEF Quiet, SessionInv
<1>2. CASE SendData
  BY <1>0, <1>2, SendDataDoes DEF SessionInv
<1>3. CASE Opened
  BY <1>0, <1>3, OpenedDoes DEF SessionInv
<1>4. CASE DrainStart
  BY <1>0, <1>4, DrainStartDoes DEF SessionInv
<1>5. CASE WriteInput \/ WriteInputFails
  BY <1>0, <1>5, WriteInputDoes, WriteInputFailsDoes DEF SessionInv
<1>7. CASE RenewStart
  BY <1>0, <1>7, RenewStartDoes DEF SessionInv
<1>8. CASE RenewSwitch
  BY <1>0, <1>8, RenewSwitchDoes DEF SessionInv
<1>9. CASE DisposeStart
  BY <1>0, <1>9, DisposeStartDoes DEF SessionInv
<1>10. CASE PollSession
  <2>1. CASE NewSession
    <3> DEFINE e == [nonce |-> openFile.nonce, host |-> host.id, first |-> cl.host]
    <3>1. /\ opened' = Append(opened, e) /\ e \in [nonce: Nat, host: Nat, first: Nat]
          /\ e.nonce = openFile.nonce
      BY <1>0, <1>10, <2>1, PollSessionDoes
    <3> HIDE DEF e
    <3>2. /\ Len(opened') = Len(opened) + 1 /\ opened'[Len(opened) + 1].nonce = openFile.nonce
          /\ \A i \in 1..Len(opened) : opened'[i] = opened[i]
      BY <3>1, AppendProperties DEF MailType
    <3>3. ses'.id = Len(opened) + 1 /\ ses'.nonce = openFile.nonce /\ openFile.nonce <= cl.nonce
      BY <1>0, <1>10, <2>1, PollSessionDoes DEF FenceInv
    <3>4. UNCHANGED <<cl, typedAt, log, host.id>>
      BY <1>10, PollSessionDoes
    <3> QED
      BY <1>0, <3>2, <3>3, <3>4 DEF SessionInv
  <2>2. CASE ~NewSession
    BY <1>0, <1>10, <2>2, PollSessionDoes DEF SessionInv
  <2> QED
    BY <2>1, <2>2
<1>11. CASE ApplyInput
  <2>1. CASE UNCHANGED log
    BY <1>0, <1>11, <2>1, ApplyInputDoes DEF SessionInv, Closed, Gave
  <2>2. CASE Gave
    <3>1. ses.nonce # 0
      BY <2>2 DEF Gave, Taken, ForSession, FrameInv, FenceInv
    <3>2. ses.id \in 1..Len(opened)
      BY <3>1 DEF SessionInv
    <3>3. \A i \in 1..Len(log') : log'[i].session \in 1..Len(opened)
      BY <1>0, <2>2, <3>2, LogGrows DEF SessionInv
    <3> QED
      BY <1>0, <1>11, <2>2, <3>3, ApplyInputDoes DEF SessionInv, Gave
  <2> QED
    BY <1>11, <2>1, <2>2, ApplyInputDoes
<1>12. CASE Expire
  BY <1>0, <1>12, ExpireDoes DEF SessionInv, Closed
<1>13. CASE HostStops
  BY <1>0, <1>13, HostStopsDoes DEF SessionInv, Closed
<1>15. CASE HostDies
  BY <1>0, <1>15, HostDiesDoes DEF SessionInv, Closed
<1>14. CASE HostStarts
  BY <1>0, <1>14, HostStartsDoes DEF SessionInv
<1> QED
  BY <1>1, <1>2, <1>3, <1>4, <1>5, <1>7, <1>8, <1>9, <1>10, <1>11, <1>12, <1>13, <1>14,
     <1>15 DEF Actions

-------------------------------------------------------------------------------
(* The order of the input: what the session's shell got, the frames, what  *)
(* is left of the batch in flight, the queue.  (A dispose frame has no     *)
(* place in it.)                                                           *)

Less(a, b)  == a = Dispose \/ b = Dispose \/ a < b
Ordered(q)  == \A j, k \in 1..Len(q) : j < k => Less(q[j], q[k])
Ahead(q, r) == \A j \in 1..Len(q), k \in 1..Len(r) : Less(q[j], r[k])

\* Two ordered queues, one ahead of the other, are ordered in a row.
LEMMA CatOrder ==
    ASSUME NEW q \in Seq(Input), NEW r \in Seq(Input), Ordered(q), Ordered(r), Ahead(q, r)
    PROVE  Ordered(q \o r)
<1>1. Len(q) \in Nat /\ Len(r) \in Nat /\ Len(q \o r) \in Nat
  BY Cats
<1>2. ASSUME NEW j \in 1..Len(q \o r), NEW k \in 1..Len(q \o r), j < k
      PROVE  Less((q \o r)[j], (q \o r)[k])
  <2>1. CASE j \in 1..Len(q) /\ k \in 1..Len(q)
    BY <1>2, <2>1, Cats DEF Ordered
  <2>2. CASE j \in 1..Len(q) /\ k > Len(q)
    BY <1>1, <2>2, Cats DEF Ahead
  <2>3. CASE j > Len(q) /\ k > Len(q)
    <3>1. /\ j - Len(q) \in 1..Len(r) /\ (q \o r)[j] = r[j - Len(q)]
          /\ k - Len(q) \in 1..Len(r) /\ (q \o r)[k] = r[k - Len(q)]
      BY <1>1, <2>3, Cats
    <3>2. j - Len(q) < k - Len(q)
      BY <1>1, <1>2
    <3> QED
      BY <3>1, <3>2 DEF Ordered
  <2> QED
    BY <1>1, <1>2, <2>1, <2>2, <2>3
<1> QED
  BY <1>2 DEF Ordered

\* The parts of an ordered queue are ordered, one ahead of the other.
LEMMA CutOrder ==
    ASSUME NEW q \in Seq(Input), NEW n \in 1..Len(q), Ordered(q)
    PROVE  LET b == SubSeq(q, 1, n)
               r == SubSeq(q, n + 1, Len(q))
           IN  Ordered(b) /\ Ordered(r) /\ Ahead(b, r)
<1> DEFINE b == SubSeq(q, 1, n)
           r == SubSeq(q, n + 1, Len(q))
<1>1. /\ Len(q) \in Nat /\ n \in Nat /\ Len(b) = n /\ Len(r) = Len(q) - n
      /\ \A k \in 1..Len(b) : k \in 1..Len(q) /\ b[k] = q[k]
      /\ \A k \in 1..Len(r) : k + n \in 1..Len(q) /\ r[k] = q[k + n]
  BY Cuts
<1> HIDE DEF b, r
<1>2. Ordered(b)
  BY <1>1 DEF Ordered
<1>3. ASSUME NEW j \in 1..Len(r), NEW k \in 1..Len(r), j < k PROVE Less(r[j], r[k])
  <2>1. j + n < k + n
    BY <1>1, <1>3
  <2> QED
    BY <1>1, <2>1 DEF Ordered
<1>4. ASSUME NEW j \in 1..Len(b), NEW k \in 1..Len(r) PROVE Less(b[j], r[k])
  <2>1. j < k + n
    BY <1>1
  <2> QED
    BY <1>1, <2>1 DEF Ordered
<1> QED
  BY <1>2, <1>3, <1>4 DEF Ordered, Ahead, b, r

\* The tail of an ordered queue is ordered, its head ahead of it.
LEMMA TailOrder ==
    ASSUME NEW q \in Seq(Input), q # <<>>, Ordered(q)
    PROVE  /\ Ordered(Tail(q))
           /\ \A k \in 1..Len(Tail(q)) : Less(Head(q), Tail(q)[k])
<1>1. /\ Len(q) \in Nat /\ 1 \in 1..Len(q) /\ Head(q) = q[1] /\ Len(Tail(q)) \in Nat
      /\ \A k \in 1..Len(Tail(q)) : k + 1 \in 1..Len(q) /\ Tail(q)[k] = q[k + 1]
  BY Tails
<1> DEFINE t == Tail(q)
<1> HIDE DEF t
<1>2. ASSUME NEW j \in 1..Len(t), NEW k \in 1..Len(t), j < k PROVE Less(t[j], t[k])
  <2>1. j + 1 < k + 1
    BY <1>1, <1>2 DEF t
  <2> QED
    BY <1>1, <2>1 DEF Ordered, t
<1>3. ASSUME NEW k \in 1..Len(t) PROVE Less(Head(q), t[k])
  <2>1. 1 < k + 1
    BY <1>1 DEF t
  <2> QED
    BY <1>1, <2>1 DEF Ordered, t
<1> QED
  BY <1>2, <1>3 DEF Ordered, t

MailInv == MailType /\ FenceInv /\ FrameInv /\ SessionInv

\* The session is the one of the page's nonce.
Linked == ses.nonce = cl.nonce /\ ~cl.fenced

\* What goes on from the batch in flight: all of it again, if it will fail.
Rest == IF drain.torn THEN drain.batch ELSE drain.left

\* The frames' items, and what the page's session got.
Written == {inFiles[s].item : s \in DOMAIN inFiles}
Got     == {log[i].item : i \in {i \in 1..Len(log) : Linked /\ log[i].session = ses.id}}
Behind(S, q) == \A x \in S, k \in 1..Len(q) : Less(x, q[k])

OrderInv ==
    /\ \A s, t \in DOMAIN inFiles : s < t => Less(inFiles[s].item, inFiles[t].item)
    /\ \A x \in Got, s \in DOMAIN inFiles : s > ses.lastInput => Less(x, inFiles[s].item)
    /\ Ordered(drain.batch) /\ Ordered(drain.left) /\ Ordered(cl.pending)
    /\ Ahead(drain.batch, cl.pending) /\ Ahead(drain.left, cl.pending)
    /\ Behind(Written \union Got, cl.pending) /\ Behind(Written \union Got, drain.left)
    /\ drain.torn \/ ~dir => Behind(Written \union Got, drain.batch)

\* All but what waits for an open, which was typed last.
Elems(q) == {q[k] : k \in 1..Len(q)}
Old == Written \union {log[i].item : i \in 1..Len(log)}
         \union Elems(cl.pending) \union Elems(drain.batch) \union Elems(drain.left)

Recent(items, typed) ==
    /\ Ordered(items)
    /\ \A k \in 1..Len(items) : items[k] <= typed

TypedInv ==
    /\ Recent(opening.items, cl.typed)
    /\ \A x \in Old : x <= cl.typed \/ x = Dispose
    /\ Behind(Old, opening.items)

\* The shell of a session gets them in order.
InOrder ==
    \A i, j \in 1..Len(log) :
        j < i /\ log[j].session = log[i].session => log[j].item < log[i].item

FlowInv == OrderInv /\ TypedInv /\ InOrder

\* The order holds at the start.
LEMMA FlowInit == Init => FlowInv
<1> SUFFICES ASSUME Init PROVE FlowInv
  OBVIOUS
<1>1. /\ DOMAIN inFiles = {} /\ Len(log) = 0 /\ Len(drain.batch) = 0 /\ Len(drain.left) = 0
      /\ Len(cl.pending) = 0 /\ Len(opening.items) = 0
  BY DEF Init, NoDrain, NoOpen
<1>2. Written = {} /\ Got = {} /\ Old = {}
  BY <1>1 DEF Written, Got, Old, Elems
<1> QED
  BY <1>1, <1>2 DEF FlowInv, OrderInv, TypedInv, InOrder, Ordered, Ahead, Behind, Recent

\* Steps that move nothing on: what is there stays, or is dropped.
Shrinks ==
    /\ DOMAIN inFiles' \subseteq DOMAIN inFiles /\ \A s \in DOMAIN inFiles' : inFiles'[s] = inFiles[s]
    /\ log' = log /\ cl'.typed = cl.typed
    /\ cl'.pending = cl.pending \/ cl'.pending = <<>> \/ cl'.pending = <<Dispose>>
    /\ opening'.items = opening.items \/ opening'.items = <<>>
    /\ drain'.batch = drain.batch /\ drain'.left = drain.left
    /\ \/ drain'.torn = drain.torn /\ (dir => dir')
       \/ DOMAIN inFiles' = {} /\ ~Linked'
    /\ Linked' => \/ Linked /\ ses'.id = ses.id /\ ses'.lastInput = ses.lastInput
                  \/ \A i \in 1..Len(log) : log[i].session # ses'.id

\* A step that only takes input away keeps the order.
LEMMA ShrinksOrder == ASSUME MailInv, FlowInv, Shrinks PROVE FlowInv'
<1>1. Written' \subseteq Written /\ (DOMAIN inFiles' = {} => Written' = {})
  BY DEF Shrinks, Written
<1>2. /\ Got' \subseteq Got /\ (~Linked' => Got' = {})
      /\ Got' # {} => ses'.lastInput = ses.lastInput
  BY DEF Shrinks, Got
<1>3. /\ \A s, t \in DOMAIN inFiles' : s < t => Less(inFiles'[s].item, inFiles'[t].item)
      /\ \A x \in Got', s \in DOMAIN inFiles' : s > ses'.lastInput => Less(x, inFiles'[s].item)
  BY <1>2 DEF Shrinks, FlowInv, OrderInv
<1>4. /\ Behind((Written \union Got)', drain'.left)
      /\ drain'.torn \/ ~dir' => Behind((Written \union Got)', drain'.batch)
  BY <1>1, <1>2 DEF Shrinks, FlowInv, OrderInv, Behind
<1>5. \/ cl'.pending = cl.pending
      \/ \A k \in 1..Len(cl'.pending) : cl'.pending[k] = Dispose
  BY DEF Shrinks
<1>6. /\ Ordered(cl'.pending) /\ Behind((Written \union Got)', cl'.pending)
      /\ Ahead(drain'.batch, cl'.pending) /\ Ahead(drain'.left, cl'.pending)
  <2>1. CASE cl'.pending = cl.pending
    BY <1>1, <1>2, <2>1 DEF Shrinks, FlowInv, OrderInv, Behind
  <2>2. CASE \A k \in 1..Len(cl'.pending) : cl'.pending[k] = Dispose
    BY <2>2 DEF Ordered, Ahead, Behind, Less
  <2> QED
    BY <1>5, <2>1, <2>2
<1>7. Ordered(drain'.batch) /\ Ordered(drain'.left)
  BY DEF Shrinks, FlowInv, OrderInv
<1>8. OrderInv'
  BY <1>3, <1>4, <1>6, <1>7 DEF OrderInv
<1>9. Old' \subseteq Old \union {Dispose}
  <2>1. Elems(cl'.pending) \subseteq Elems(cl.pending) \union {Dispose}
    BY <1>5 DEF Elems
  <2> QED
    BY <1>1, <2>1 DEF Shrinks, Old
<1>10. TypedInv'
  BY <1>9 DEF Shrinks, FlowInv, TypedInv, Recent, Behind, Less, Ordered
<1>11. InOrder'
  BY DEF Shrinks, FlowInv, InOrder
<1> QED
  BY <1>8, <1>10, <1>11 DEF FlowInv

\* A quiet step takes nothing away.
LEMMA QuietShrinks == ASSUME MailInv, Quiet PROVE Shrinks
<1>1. Linked' = Linked
  BY DEF Quiet, Linked
<1> QED
  BY <1>1 DEF Quiet, Shrinks

\* A renewal and a dispose only take input away.
LEMMA PageShrinks == ASSUME MailInv, RenewStart \/ RenewSwitch \/ DisposeStart PROVE Shrinks
<1>1. MailType /\ ses.nonce \in Nat /\ cl.nonce \in Nat
  BY DEF MailInv, MailType, SesShape, ClType
<1>2. CASE RenewStart
  <2>1. ~Linked'
    BY <1>1, <1>2, RenewStartDoes DEF Linked
  <2> QED
    BY <1>1, <1>2, <2>1, RenewStartDoes DEF Emptied, Shrinks
<1>3. CASE RenewSwitch
  <2>1. ~Linked'
    <3>1. ses'.nonce = ses.nonce /\ cl'.nonce = cl.nonce + 1 /\ ses.nonce <= cl.nonce
      BY <1>1, <1>3, RenewSwitchDoes DEF MailInv, SessionInv
    <3> QED
      BY <1>1, <3>1 DEF Linked
  <2> QED
    BY <1>1, <1>3, <2>1, RenewSwitchDoes DEF Shrinks
<1>4. CASE DisposeStart
  <2>1. Linked' = Linked
    BY <1>1, <1>4, DisposeStartDoes DEF Linked
  <2> QED
    BY <1>1, <1>4, <2>1, DisposeStartDoes DEF Shrinks
<1> QED
  BY <1>2, <1>3, <1>4

\* So does the host's poll.
LEMMA PollShrinks == ASSUME MailInv, PollSession PROVE Shrinks
<1>1. MailType
  BY DEF MailInv
<1>2. UNCHANGED <<cl, opening, drain, dir, inFiles, log>>
  BY <1>1, PollSessionDoes
<1>3. Linked' => \/ Linked /\ ses'.id = ses.id /\ ses'.lastInput = ses.lastInput
                 \/ \A i \in 1..Len(log) : log[i].session # ses'.id
  <2>1. CASE NewSession
    <3>1. ses'.id = Len(opened) + 1 /\ Len(opened) \in Nat
      BY <1>1, <2>1, PollSessionDoes DEF MailType
    <3>2. \A i \in 1..Len(log) : log[i].session \in 1..Len(opened)
      BY DEF MailInv, SessionInv
    <3> QED
      BY <3>1, <3>2
  <2>2. CASE ~NewSession
    BY <1>1, <1>2, <2>2, PollSessionDoes DEF Linked
  <2> QED
    BY <2>1, <2>2
<1> QED
  BY <1>2, <1>3 DEF Shrinks

\* Where a session is closed, the mailbox goes with it.
LEMMA ClosedUnlinked == ASSUME MailInv, Closed, UNCHANGED cl PROVE ~Linked'
BY DEF MailInv, FenceInv, Closed, Linked

\* So do the end of a session and that of a host.
LEMMA HostShrinks ==
    ASSUME MailInv, ApplyInput \/ Expire \/ HostStops \/ HostDies \/ HostStarts
    PROVE  Shrinks \/ (ApplyInput /\ Gave)
<1>1. MailType
  BY DEF MailInv
<1>2. CASE ApplyInput
  <2>1. CASE Dropped /\ UNCHANGED <<ses, log>>
    <3>1. UNCHANGED cl
      BY <1>1, <1>2, ApplyInputDoes
    <3>2. Linked' = Linked
      BY <2>1, <3>1 DEF Linked
    <3> QED
      BY <2>1, <3>1, <3>2 DEF Dropped, Shrinks
  <2>2. CASE Emptied /\ Closed /\ UNCHANGED log
    <3>1. UNCHANGED cl
      BY <1>1, <1>2, ApplyInputDoes
    <3> QED
      BY <2>2, <3>1, ClosedUnlinked DEF Emptied, Shrinks
  <2> QED
    BY <1>1, <1>2, <2>1, <2>2, ApplyInputDoes
<1>3. CASE Expire
  BY <1>1, <1>3, ExpireDoes, ClosedUnlinked DEF Emptied, Shrinks
<1>4. CASE HostStops
  BY <1>1, <1>4, HostStopsDoes, ClosedUnlinked DEF Emptied, Shrinks
<1>5. CASE HostDies
  BY <1>1, <1>5, HostDiesDoes, ClosedUnlinked DEF Shrinks
<1>6. CASE HostStarts
  <2>1. Linked' = Linked
    BY <1>1, <1>6, HostStartsDoes DEF Linked
  <2> QED
    BY <1>1, <1>6, <2>1, HostStartsDoes DEF Shrinks
<1> QED
  BY <1>2, <1>3, <1>4, <1>5, <1>6

\* The shapes of what the order is about.
LEMMA FlowTypes ==
    ASSUME MailType
    PROVE  /\ Old \subseteq Nat /\ cl.typed \in Nat /\ cl.pending \in Seq(Input)
           /\ opening.items \in Seq(Item) /\ opening.items \in Seq(Nat)
           /\ drain.batch \in Seq(Input) /\ drain.left \in Seq(Input)
<1>1. /\ cl.typed \in Nat /\ cl.pending \in Seq(Input) /\ opening.items \in Seq(Item)
      /\ drain.batch \in Seq(Input) /\ drain.left \in Seq(Input)
  BY DEF MailType, ClType, OpeningType, DrainType
<1>0. Item \subseteq Nat /\ Input \subseteq Nat
  BY InputNumbers
<1>2. ASSUME NEW q \in Seq(Input) PROVE Elems(q) \subseteq Nat
  <2>1. \A k \in 1..Len(q) : q[k] \in Input
    BY ElementOfSeq
  <2> QED
    BY <1>0, <2>1 DEF Elems
<1>3. Written \subseteq Nat
  BY InputNumbers DEF MailType, InFrame, Written
<1>4. \A i \in 1..Len(log) : log[i].item \in Nat
  <2>1. log \in Seq([session: Nat, item: Item, for: Nat])
    BY DEF MailType
  <2>2. \A i \in 1..Len(log) : log[i] \in [session: Nat, item: Item, for: Nat]
    BY <2>1, ElementOfSeq
  <2> QED
    BY <1>0, <2>2
<1>5. Old \subseteq Nat
  BY <1>1, <1>2, <1>3, <1>4 DEF Old
<1>6. opening.items \in Seq(Nat)
  BY <1>0, <1>1, SeqMonotonic
<1> QED
  BY <1>1, <1>5, <1>6

\* A keystroke goes behind all the others.
LEMMA SendDataOrder == ASSUME MailInv, FlowInv, SendData PROVE FlowInv'
<1>1. /\ MailType /\ cl.typed \in Nat /\ opening.items \in Seq(Nat)
      /\ Old \subseteq Nat
  BY FlowTypes DEF MailInv
<1>2. /\ UNCHANGED <<inFiles, log, drain, ses>> /\ UNCHANGED <<cl.nonce, cl.fenced, cl.pending>>
      /\ cl'.typed = cl.typed + 1 /\ (dir => dir')
      /\ opening'.items = IF opening.st = "no" THEN <<cl.typed + 1>>
                          ELSE Append(opening.items, cl.typed + 1)
  BY <1>1, SendDataDoes
<1>3. Linked' = Linked
  BY <1>2 DEF Linked
<1>4. Written' = Written /\ Got' = Got /\ Old' = Old
  BY <1>2, <1>3 DEF Written, Got, Old
<1>5. OrderInv'
  BY <1>2, <1>4 DEF FlowInv, OrderInv
<1>6. opening'.items = Append(opening.items, cl.typed + 1)
  <2>1. opening.st = "no" => opening.items = <<>>
    BY DEF MailInv, FenceInv
  <2>2. Append(<<>>, cl.typed + 1) = <<cl.typed + 1>>
    OBVIOUS
  <2> QED
    BY <1>2, <2>1, <2>2
<1>7. /\ Len(opening'.items) = Len(opening.items) + 1 /\ Len(opening.items) \in Nat
      /\ \A k \in 1..Len(opening.items) : opening'.items[k] = opening.items[k]
      /\ opening'.items[Len(opening.items) + 1] = cl.typed + 1
      /\ \A k \in 1..Len(opening'.items) : k \in 1..Len(opening.items) \/ k = Len(opening.items) + 1
      /\ \A k \in 1..Len(opening.items) : opening.items[k] \in Nat
  BY <1>1, <1>6, AppendProperties
<1>12. /\ \A k \in 1..Len(opening.items) : opening.items[k] <= cl.typed
       /\ Ordered(opening.items)
  BY DEF FlowInv, TypedInv, Recent
<1>13. \A k \in 1..Len(opening.items) : opening.items[k] < cl.typed + 1
  BY <1>1, <1>7, <1>12
<1>14. Ordered(opening'.items)
  <2>1. ASSUME NEW j \in 1..Len(opening'.items), NEW k \in 1..Len(opening'.items), j < k
        PROVE  Less(opening'.items[j], opening'.items[k])
    <3>1. j \in 1..Len(opening.items)
      BY <1>7, <2>1
    <3>2. CASE k \in 1..Len(opening.items)
      BY <1>7, <1>12, <2>1, <3>1, <3>2 DEF Ordered
    <3>3. CASE k = Len(opening.items) + 1
      BY <1>7, <1>13, <3>1, <3>3 DEF Less
    <3> QED
      BY <1>7, <3>2, <3>3
  <2> QED
    BY <2>1 DEF Ordered
<1>15. \A k \in 1..Len(opening'.items) : opening'.items[k] <= cl'.typed
  BY <1>1, <1>2, <1>7, <1>13
<1>8. Recent(opening'.items, cl'.typed)
  BY <1>14, <1>15 DEF Recent
<1>9. (\A x \in Old' : x <= cl'.typed \/ x = Dispose) /\ Behind(Old', opening'.items)
  BY <1>1, <1>2, <1>4, <1>7 DEF FlowInv, TypedInv, Behind, Less
<1>10. TypedInv'
  BY <1>8, <1>9 DEF TypedInv
<1>11. InOrder'
  BY <1>2 DEF FlowInv, InOrder
<1> QED
  BY <1>5, <1>10, <1>11 DEF FlowInv

\* What an open hands over goes behind the queue.
LEMMA OpenedOrder == ASSUME MailInv, FlowInv, Opened PROVE FlowInv'
<1>1. /\ MailType
      /\ UNCHANGED <<inFiles, log, drain, ses, dir>> /\ UNCHANGED <<cl.nonce, cl.fenced, cl.typed>>
      /\ cl'.pending = cl.pending \o Queued /\ opening'.items = <<>>
      /\ Queued \in Seq(Input) /\ cl.pending \in Seq(Input)
  <2>1. MailType /\ \A q \in Seq(Item) : q \in Seq(Input)
    BY InputNumbers DEF MailInv
  <2> QED
    BY <2>1, OpenedDoes
<1>2. Linked' = Linked
  BY <1>1 DEF Linked
<1>3. Written' = Written /\ Got' = Got /\ Got \subseteq Old /\ Written \subseteq Old
  BY <1>1, <1>2 DEF Written, Got, Old
<1>4. Ordered(Queued) /\ Behind(Old, Queued) /\ \A k \in 1..Len(Queued) : Queued[k] <= cl.typed
  <2>1. CASE Queued = <<>>
    <3>1. Len(Queued) = 0
      BY <2>1
    <3> QED
      BY <3>1 DEF Ordered, Behind
  <2>2. CASE Queued = opening.items
    BY <2>2 DEF FlowInv, TypedInv, Recent
  <2> QED
    BY <2>1, <2>2 DEF Queued
<1>5. Ahead(cl.pending, Queued) /\ Ahead(drain.batch, Queued) /\ Ahead(drain.left, Queued)
  BY <1>4 DEF Behind, Ahead, Old, Elems
<1>6. Ordered(cl'.pending)
  BY <1>1, <1>4, <1>5, CatOrder DEF FlowInv, OrderInv
<1>7. \A k \in 1..Len(cl'.pending) :
        \/ \E j \in 1..Len(cl.pending) : cl'.pending[k] = cl.pending[j]
        \/ \E j \in 1..Len(Queued) : cl'.pending[k] = Queued[j]
  <2> DEFINE c == cl.pending \o Queued
  <2>1. \A k \in 1..Len(c) : \/ \E j \in 1..Len(cl.pending) : c[k] = cl.pending[j]
                            \/ \E j \in 1..Len(Queued) : c[k] = Queued[j]
    BY <1>1, CatFrom
  <2>2. cl'.pending = c
    BY <1>1
  <2> HIDE DEF c
  <2> QED
    BY <2>1, <2>2
<1>8. /\ Ahead(drain'.batch, cl'.pending) /\ Ahead(drain'.left, cl'.pending)
      /\ Behind((Written \union Got)', cl'.pending)
  <2>1. Ahead(drain.batch, cl.pending) /\ Ahead(drain.left, cl.pending)
        /\ Behind(Written \union Got, cl.pending) /\ Behind(Written \union Got, Queued)
    BY <1>3, <1>4 DEF FlowInv, OrderInv, Behind
  <2> QED
    BY <1>1, <1>3, <1>5, <1>7, <2>1 DEF Ahead, Behind
<1>9. OrderInv'
  BY <1>1, <1>3, <1>6, <1>8 DEF FlowInv, OrderInv
<1>10. Old' \subseteq Old \union Elems(Queued)
  <2>1. Elems(cl'.pending) \subseteq Elems(cl.pending) \union Elems(Queued)
    BY <1>7 DEF Elems
  <2> QED
    BY <1>1, <1>3, <2>1 DEF Old
<1>11. TypedInv'
  <2>1. Len(opening'.items) = 0
    BY <1>1
  <2>2. \A x \in Old' : x <= cl'.typed \/ x = Dispose
    BY <1>1, <1>4, <1>10 DEF FlowInv, TypedInv, Elems
  <2> QED
    BY <2>1, <2>2 DEF TypedInv, Recent, Behind, Ordered
<1>12. InOrder'
  BY <1>1 DEF FlowInv, InOrder
<1> QED
  BY <1>9, <1>11, <1>12 DEF FlowInv

\* A batch leaves the front of the queue.
LEMMA DrainStartOrder == ASSUME MailInv, FlowInv, DrainStart PROVE FlowInv'
<1>1. /\ MailType
      /\ UNCHANGED <<inFiles, log, ses, opening>> /\ UNCHANGED <<cl.nonce, cl.fenced, cl.typed>>
      /\ drain'.left = drain'.batch
  BY DrainStartDoes DEF MailInv
<1>2. PICK n \in 1..Len(cl.pending) :
        /\ drain'.batch = SubSeq(cl.pending, 1, n)
        /\ cl'.pending = SubSeq(cl.pending, n + 1, Len(cl.pending))
  BY <1>1, DrainStartDoes
<1>3. cl.pending \in Seq(Input) /\ Ordered(cl.pending) /\ Behind(Written \union Got, cl.pending)
  BY <1>1, FlowTypes DEF FlowInv, OrderInv
<1>4. Ordered(drain'.batch) /\ Ordered(cl'.pending) /\ Ahead(drain'.batch, cl'.pending)
  BY <1>2, <1>3, CutOrder
<1>5. /\ \A k \in 1..Len(drain'.batch) : k \in 1..Len(cl.pending) /\ drain'.batch[k] = cl.pending[k]
      /\ \A k \in 1..Len(cl'.pending) :
           k + n \in 1..Len(cl.pending) /\ cl'.pending[k] = cl.pending[k + n]
  BY <1>2, <1>3, Cuts
<1>6. Linked' = Linked
  BY <1>1 DEF Linked
<1>7. Written' = Written /\ Got' = Got
  BY <1>1, <1>6 DEF Written, Got
<1>8. Behind(Written \union Got, drain'.batch) /\ Behind(Written \union Got, cl'.pending)
  BY <1>3, <1>5 DEF Behind
<1>9. OrderInv'
  BY <1>1, <1>4, <1>7, <1>8 DEF FlowInv, OrderInv
<1>10. Elems(drain'.batch) \subseteq Elems(cl.pending) /\ Elems(cl'.pending) \subseteq Elems(cl.pending)
  BY <1>5 DEF Elems
<1>11. Old' \subseteq Old
  BY <1>1, <1>7, <1>10 DEF Old
<1>12. TypedInv'
  BY <1>1, <1>11 DEF FlowInv, TypedInv, Behind
<1>13. InOrder'
  BY <1>1 DEF FlowInv, InOrder
<1> QED
  BY <1>9, <1>12, <1>13 DEF FlowInv

\* A frame follows the frames there are.
LEMMA WriteInputOrder == ASSUME MailInv, FlowInv, WriteInput PROVE FlowInv'
<1> DEFINE new == cl.in + 1
<1>1. /\ MailType /\ UNCHANGED <<log, ses, opening, dir>>
      /\ UNCHANGED <<cl.nonce, cl.fenced, cl.typed, cl.pending>>
      /\ Busy /\ cl.in \in Nat
      /\ DOMAIN inFiles' = DOMAIN inFiles \union {new} /\ DOMAIN inFiles \subseteq Nat
      /\ inFiles'[new].item = Head(drain.left)
      /\ drain'.left = Tail(drain.left) /\ drain'.torn = FALSE /\ dir' = TRUE
      /\ drain'.batch = drain.batch \/ drain'.batch = <<>>
  BY WriteInputDoes DEF MailInv, MailType
<1>2. /\ \A s \in DOMAIN inFiles : s < new /\ s # new /\ inFiles'[s] = inFiles[s]
      /\ new \notin DOMAIN inFiles
  <2>1. \A s \in DOMAIN inFiles : s <= cl.in
    BY DEF MailInv, FrameInv
  <2>2. \A s \in DOMAIN inFiles : s < new /\ s # new
    BY <1>1, <2>1
  <2> QED
    BY <1>1, <2>2, WriteInputDoes
<1>3. drain.left \in Seq(Input) /\ drain.left # <<>>
  BY <1>1, FlowTypes DEF Busy
<1>4. /\ Head(drain.left) = drain.left[1] /\ 1 \in 1..Len(drain.left)
      /\ \A k \in 1..Len(drain'.left) :
           k + 1 \in 1..Len(drain.left) /\ drain'.left[k] = drain.left[k + 1]
  BY <1>1, <1>3, Tails
<1>5. Ordered(drain'.left) /\ \A k \in 1..Len(drain'.left) : Less(Head(drain.left), drain'.left[k])
  BY <1>1, <1>3, TailOrder DEF FlowInv, OrderInv
<1> DEFINE head == Head(drain.left)
<1>6. /\ \A k \in 1..Len(cl.pending) : Less(head, cl.pending[k])
      /\ \A x \in Written \union Got : Less(x, head)
  BY <1>4 DEF FlowInv, OrderInv, Ahead, Behind
<1> HIDE DEF head, new
<1>7. Linked' = Linked
  BY <1>1 DEF Linked
<1>8. Written' \subseteq Written \union {head} /\ Got' = Got
  <2>1. \A s \in DOMAIN inFiles' : s \in DOMAIN inFiles \/ s = new
    BY <1>1
  <2> QED
    BY <1>1, <1>2, <1>7, <2>1 DEF Written, Got, head
<1>9. \A s, t \in DOMAIN inFiles' : s < t => Less(inFiles'[s].item, inFiles'[t].item)
  <2>1. ASSUME NEW s \in DOMAIN inFiles', NEW t \in DOMAIN inFiles', s < t
        PROVE  Less(inFiles'[s].item, inFiles'[t].item)
    <3>1. CASE t \in DOMAIN inFiles
      <4>1. s \in DOMAIN inFiles
        <5>1. s # new
          BY <1>1, <1>2, <2>1, <3>1 DEF new
        <5> QED
          BY <1>1, <5>1
      <4> QED
        BY <1>2, <2>1, <3>1, <4>1 DEF FlowInv, OrderInv
    <3>2. CASE t = new
      <4>1. s \in DOMAIN inFiles
        <5>1. s # new
          BY <1>1, <2>1, <3>2 DEF new
        <5> QED
          BY <1>1, <5>1
      <4> QED
        BY <1>1, <1>2, <1>6, <3>2, <4>1 DEF Written, head
    <3> QED
      BY <1>1, <3>1, <3>2
  <2> QED
    BY <2>1
<1>10. \A x \in Got', s \in DOMAIN inFiles' : s > ses'.lastInput => Less(x, inFiles'[s].item)
  BY <1>1, <1>2, <1>6, <1>8 DEF FlowInv, OrderInv, head
<1>11. /\ Behind((Written \union Got)', cl'.pending) /\ Behind((Written \union Got)', drain'.left)
       /\ Ahead(drain'.left, cl'.pending)
  <2>1. /\ Behind(Written \union Got, cl.pending) /\ Behind(Written \union Got, drain.left)
        /\ Ahead(drain.left, cl.pending)
    BY DEF FlowInv, OrderInv
  <2>2. Behind(Written \union Got, drain'.left) /\ Ahead(drain'.left, cl.pending)
    BY <1>4, <2>1 DEF Behind, Ahead
  <2> QED
    BY <1>1, <1>5, <1>6, <1>8, <2>1, <2>2 DEF Behind, head
<1>12. Ordered(drain'.batch) /\ Ahead(drain'.batch, cl'.pending)
  <2>1. CASE drain'.batch = drain.batch
    BY <1>1, <2>1 DEF FlowInv, OrderInv
  <2>2. CASE drain'.batch = <<>>
    <3>1. Len(drain'.batch) = 0
      BY <2>2
    <3> QED
      BY <3>1 DEF Ordered, Ahead
  <2> QED
    BY <1>1, <2>1, <2>2
<1>13. OrderInv'
  BY <1>1, <1>5, <1>9, <1>10, <1>11, <1>12 DEF FlowInv, OrderInv
<1>14. Old' \subseteq Old
  <2>1. head \in Elems(drain.left) /\ Elems(drain'.left) \subseteq Elems(drain.left)
    BY <1>4 DEF Elems, head
  <2>2. Elems(drain'.batch) \subseteq Elems(drain.batch)
    <3>1. Len(<<>>) = 0
      OBVIOUS
    <3> QED
      BY <1>1, <3>1 DEF Elems
  <2> QED
    BY <1>1, <1>8, <2>1, <2>2 DEF Old
<1>15. TypedInv'
  BY <1>1, <1>14 DEF FlowInv, TypedInv, Behind
<1>16. InOrder'
  BY <1>1 DEF FlowInv, InOrder
<1> QED
  BY <1>13, <1>15, <1>16 DEF FlowInv

\* A batch put back is ahead of the queue.
LEMMA WriteInputFailsOrder == ASSUME MailInv, FlowInv, WriteInputFails PROVE FlowInv'
<1>1. /\ MailType /\ UNCHANGED <<inFiles, log, ses, opening, dir>>
      /\ UNCHANGED <<cl.nonce, cl.fenced, cl.typed>>
      /\ dir = FALSE \/ drain.torn
      /\ cl'.pending = drain.batch \o cl.pending
      /\ Len(drain'.batch) = 0 /\ Len(drain'.left) = 0
  <2>1. MailType /\ Len(<<>>) = 0
    BY DEF MailInv
  <2> QED
    BY <2>1, WriteInputFailsDoes
<1>2. drain.batch \in Seq(Input) /\ cl.pending \in Seq(Input)
  BY <1>1, FlowTypes
<1>3. Ordered(cl'.pending)
  BY <1>1, <1>2, CatOrder DEF FlowInv, OrderInv
<1>4. \A k \in 1..Len(cl'.pending) :
        \/ \E j \in 1..Len(drain.batch) : cl'.pending[k] = drain.batch[j]
        \/ \E j \in 1..Len(cl.pending) : cl'.pending[k] = cl.pending[j]
  <2> DEFINE c == drain.batch \o cl.pending
  <2>1. \A k \in 1..Len(c) : \/ \E j \in 1..Len(drain.batch) : c[k] = drain.batch[j]
                            \/ \E j \in 1..Len(cl.pending) : c[k] = cl.pending[j]
    BY <1>2, CatFrom
  <2>2. cl'.pending = c
    BY <1>1
  <2> HIDE DEF c
  <2> QED
    BY <2>1, <2>2
<1>5. Linked' = Linked
  BY <1>1 DEF Linked
<1>6. Written' = Written /\ Got' = Got
  BY <1>1, <1>5 DEF Written, Got
<1>7. Behind(Written \union Got, cl'.pending)
  BY <1>1, <1>4 DEF FlowInv, OrderInv, Behind
<1>8. OrderInv'
  <2>1. /\ Ordered(drain'.batch) /\ Ordered(drain'.left)
        /\ Ahead(drain'.batch, cl'.pending) /\ Ahead(drain'.left, cl'.pending)
        /\ Behind(Written \union Got, drain'.batch) /\ Behind(Written \union Got, drain'.left)
    BY <1>1 DEF Ordered, Ahead, Behind
  <2> QED
    BY <1>1, <1>3, <1>6, <1>7, <2>1 DEF FlowInv, OrderInv
<1>9. Old' \subseteq Old
  <2>1. Elems(cl'.pending) \subseteq Elems(drain.batch) \union Elems(cl.pending)
    BY <1>4 DEF Elems
  <2>2. \A q : Len(q) = 0 => Elems(q) = {}
    BY DEF Elems
  <2> QED
    BY <1>1, <1>6, <2>1, <2>2 DEF Old
<1>10. TypedInv'
  BY <1>1, <1>9 DEF FlowInv, TypedInv, Behind
<1>11. InOrder'
  BY <1>1 DEF FlowInv, InOrder
<1> QED
  BY <1>8, <1>10, <1>11 DEF FlowInv

\* A shell is given frames of the page's nonce only.
LEMMA GaveLinked == ASSUME MailInv, Gave PROVE Linked /\ First > ses.lastInput /\ First \in DOMAIN inFiles
BY DEF MailInv, FrameInv, Gave, Taken, ForSession, Linked

\* What it is given follows what it had.
LEMMA GaveOrder == ASSUME MailInv, FlowInv, ApplyInput, Gave PROVE FlowInv'
<1>1. /\ MailType /\ UNCHANGED <<cl, opening, drain, dir>> /\ UNCHANGED <<ses.id, ses.nonce>>
      /\ ses'.lastInput = First /\ DOMAIN inFiles' = DOMAIN inFiles \ {First}
      /\ \A t \in DOMAIN inFiles' : inFiles'[t] = inFiles[t]
      /\ DOMAIN inFiles \subseteq Nat /\ ses.lastInput \in Nat
  BY ApplyInputDoes DEF MailInv, Gave, Dropped, MailType, SesShape
<1>2. Linked /\ Linked' /\ First > ses.lastInput /\ First \in DOMAIN inFiles
  BY <1>1, GaveLinked DEF Linked
<1> DEFINE item == inFiles[First].item
<1>3. item \in Item /\ item \in Nat /\ item # Dispose
  BY InputNumbers DEF Gave
<1> HIDE DEF item
<1>4. /\ \A i \in 1..Len(log) : i \in 1..Len(log') /\ log'[i] = log[i]
      /\ \A i \in 1..Len(log') : i \in 1..Len(log) \/ (i = Len(log) + 1 /\ log'[i].session = ses.id
                                                       /\ log'[i].item = item)
      /\ Len(log) \in Nat
  BY <1>1, LogGrows DEF item
<1>5. Written' \subseteq Written /\ item \in Written
  BY <1>1, <1>2 DEF Written, item
<1>6. Got' \subseteq Got \union {item}
  BY <1>1, <1>2, <1>4 DEF Got
<1>7. \A s, t \in DOMAIN inFiles' : s < t => Less(inFiles'[s].item, inFiles'[t].item)
  BY <1>1 DEF FlowInv, OrderInv
<1>8. \A x \in Got', s \in DOMAIN inFiles' : s > ses'.lastInput => Less(x, inFiles'[s].item)
  <2>1. ASSUME NEW s \in DOMAIN inFiles', s > First PROVE Less(item, inFiles'[s].item)
    <3>1. s \in DOMAIN inFiles /\ First < s /\ inFiles'[s] = inFiles[s]
      BY <1>1, <1>2, <2>1
    <3> QED
      BY <1>2, <3>1 DEF FlowInv, OrderInv, item
  <2>2. ASSUME NEW s \in DOMAIN inFiles', s > First, NEW x \in Got PROVE Less(x, inFiles'[s].item)
    <3>1. s \in DOMAIN inFiles /\ s > ses.lastInput /\ inFiles'[s] = inFiles[s]
      BY <1>1, <1>2, <2>2
    <3> QED
      BY <3>1 DEF FlowInv, OrderInv
  <2> QED
    BY <1>1, <1>6, <2>1, <2>2
<1>9. (Written \union Got)' \subseteq Written \union Got
  BY <1>5, <1>6
<1>10. OrderInv'
  BY <1>1, <1>7, <1>8, <1>9 DEF FlowInv, OrderInv, Behind
<1>11. Old' \subseteq Old
  BY <1>1, <1>4, <1>5 DEF Old
<1>12. TypedInv'
  BY <1>1, <1>11 DEF FlowInv, TypedInv, Behind
<1>13. InOrder'
  <2>1. \A x \in Got : Less(x, item)
    BY <1>2 DEF FlowInv, OrderInv, item
  <2>2. \A j \in 1..Len(log) : log[j].item # Dispose
    <3>1. log \in Seq([session: Nat, item: Item, for: Nat])
      BY <1>1 DEF MailType
    <3>2. \A j \in 1..Len(log) : log[j] \in [session: Nat, item: Item, for: Nat]
      BY <3>1, ElementOfSeq
    <3> QED
      BY <3>2, InputNumbers
  <2>3. \A j \in 1..Len(log) : log[j].session = ses.id => log[j].item < item
    BY <1>2, <1>3, <2>1, <2>2 DEF Got, Less
  <2>4. ASSUME NEW i \in 1..Len(log'), NEW j \in 1..Len(log'), j < i,
               log'[j].session = log'[i].session
        PROVE  log'[j].item < log'[i].item
    <3>1. j \in 1..Len(log)
      BY <1>4, <2>4
    <3>2. CASE i \in 1..Len(log)
      BY <1>4, <2>4, <3>1, <3>2 DEF FlowInv, InOrder
    <3>3. CASE i = Len(log) + 1
      BY <1>4, <2>3, <2>4, <3>1, <3>3
    <3> QED
      BY <1>4, <3>2, <3>3
  <2> QED
    BY <2>4 DEF InOrder
<1> QED
  BY <1>10, <1>12, <1>13 DEF FlowInv

\* Every step keeps the order.
LEMMA FlowStep == ASSUME MailInv, FlowInv, Actions PROVE FlowInv'
BY QuietShrinks, PageShrinks, PollShrinks, HostShrinks, ShrinksOrder, SendDataOrder, OpenedOrder,
   DrainStartOrder, WriteInputOrder, WriteInputFailsOrder, GaveOrder DEF Actions

-------------------------------------------------------------------------------
(* Nothing is left out.  As long as the page's nonce has no session, or    *)
(* one that is its only one, an item queued under it has been taken, or is *)
(* on its way, or is behind a dispose frame, which ends the session.       *)

\* No session has had the nonce, and its host is there.
Virgin ==
    /\ ~cl.fenced /\ host.up /\ host.id = cl.host
    /\ \A i \in 1..Len(opened) : opened[i].nonce # cl.nonce

Good == Virgin \/ (Linked /\ Only(ses.id))

\* The frames that will be taken, and what the page has not written.
Frames == {s \in DOMAIN inFiles : Linked => s > ses.lastInput}
Flow   == Rest \o cl.pending

Cut(q, k) == \E j \in 1..Len(q) : q[j] = Dispose /\ \A i \in 1..(j - 1) : Less(q[i], k)

Coming(k) ==
    \/ \E s \in Frames : inFiles[s].item = k
    \/ \E j \in 1..Len(Flow) : Flow[j] = k
    \/ \E u \in Frames : /\ inFiles[u].item = Dispose
                         /\ \A t \in Frames : t < u => Less(inFiles[t].item, k)
    \/ (\A t \in Frames : Less(inFiles[t].item, k)) /\ Cut(Flow, k)

LostInv == Good => \A k \in Item : typedAt[k] = cl.nonce => k \in Got \/ Coming(k)

\* Before the first session, what the host has listed is not the page's, and
\* what the page wrote lies behind an open.json.
VirginInv ==
    Virgin => /\ host.names \intersect DOMAIN inFiles = {}
              /\ openFile.nonce = 0 => /\ ~cl.running /\ DOMAIN inFiles = {}
                                       /\ \A k \in Item : typedAt[k] # cl.nonce

NoneLeftOut ==
    \A i \in 1..Len(log) : Only(log[i].session) =>
        \A k \in Item :
            k < log[i].item /\ typedAt[k] = opened[log[i].session].nonce
            /\ typedAt[log[i].item] = typedAt[k]
                => \E j \in 1..(i - 1) : log[j].session = log[i].session /\ log[j].item = k

\* The start is a beginning without frames.
LEMMA VirginInit == Init => VirginInv
<1> SUFFICES ASSUME Init PROVE VirginInv
  OBVIOUS
<1>1. DOMAIN inFiles = {} /\ ~cl.running /\ cl.nonce = 1 /\ \A k \in Item : typedAt[k] = 0
  BY DEF Init
<1> QED
  BY <1>1 DEF VirginInv

\* Nothing is lost at the start.
LEMMA LostInit == Init => LostInv /\ NoneLeftOut
<1> SUFFICES ASSUME Init PROVE LostInv /\ NoneLeftOut
  OBVIOUS
<1>1. Len(log) = 0 /\ cl.nonce = 1 /\ \A k \in Item : typedAt[k] = 0
  BY DEF Init
<1> QED
  BY <1>1 DEF LostInv, NoneLeftOut

\* A nonce that a session has had is not virgin, for good.
LEMMA VirginOnly ==
    ASSUME MailInv
    PROVE  /\ ses.nonce = cl.nonce => ~Virgin
           /\ opened' = opened /\ cl'.nonce = cl.nonce => (ses.nonce = cl.nonce => ~Virgin')
<1>1. ses.nonce = cl.nonce => ses.id \in 1..Len(opened) /\ opened[ses.id].nonce = cl.nonce
  BY DEF MailInv, SessionInv, FenceInv
<1> QED
  BY <1>1 DEF Virgin

\* Every step keeps what holds before the nonce's first session.
LEMMA VirginStep == ASSUME MailInv, VirginInv, Actions PROVE VirginInv'
<1>0. /\ MailType /\ cl.nonce \in Nat /\ cl.nonce > 0 /\ cl.host \in Nat /\ host.id \in Nat
      /\ cl.running \in BOOLEAN /\ openFile.nonce \in {0, cl.nonce} /\ host.names \subseteq Nat
      /\ DOMAIN inFiles \subseteq Nat
  BY DEF MailInv, MailType, ClType, HostType, FenceInv
<1>1. CASE Quiet
  <2>1. Virgin' => Virgin
    BY <1>1 DEF Quiet, Virgin
  <2> QED
    BY <1>1, <2>1 DEF Quiet, VirginInv
<1>2. CASE SendData
  <2>1. Virgin' => Virgin
    BY <1>0, <1>2, SendDataDoes DEF Virgin
  <2> QED
    BY <1>0, <1>2, <2>1, SendDataDoes DEF VirginInv
<1>3. CASE Opened
  <2>1. Virgin' => Virgin
    BY <1>0, <1>3, OpenedDoes DEF Virgin
  <2>2. UNCHANGED <<inFiles, host>> /\ openFile'.nonce # 0
    BY <1>0, <1>3, OpenedDoes
  <2> QED
    BY <2>1, <2>2 DEF VirginInv
<1>4. CASE DrainStart
  <2>1. Virgin' => Virgin
    BY <1>0, <1>4, DrainStartDoes DEF Virgin
  <2> QED
    BY <1>0, <1>4, <2>1, DrainStartDoes DEF VirginInv
<1>5. CASE WriteInput
  <2>1. /\ UNCHANGED <<opened, host, openFile, typedAt>>
        /\ UNCHANGED <<cl.nonce, cl.host, cl.fenced, cl.running>>
        /\ cl.in \in Nat /\ DOMAIN inFiles' = DOMAIN inFiles \union {cl.in + 1}
        /\ Busy /\ ~drain.torn
    BY <1>0, <1>5, WriteInputDoes
  <2>2. Virgin' => Virgin
    BY <2>1 DEF Virgin
  <2>3. cl.running
    BY <2>1 DEF MailInv, FenceInv
  <2>4. cl.in + 1 \notin host.names
    BY <1>0, <2>1 DEF MailInv, FrameInv
  <2> QED
    BY <2>1, <2>2, <2>3, <2>4 DEF VirginInv
<1>6. CASE WriteInputFails
  <2>1. Virgin' => Virgin
    BY <1>0, <1>6, WriteInputFailsDoes DEF Virgin
  <2> QED
    BY <1>0, <1>6, <2>1, WriteInputFailsDoes DEF VirginInv
<1>7. CASE RenewStart
  BY <1>0, <1>7, RenewStartDoes DEF VirginInv, Virgin
<1>8. CASE RenewSwitch
  <2>1. /\ cl.fenced /\ cl'.nonce = cl.nonce + 1 /\ cl'.running = cl.running
        /\ UNCHANGED <<inFiles, typedAt, openFile>>
    BY <1>0, <1>8, RenewSwitchDoes DEF MailInv, FenceInv
  <2>2. DOMAIN inFiles = {} /\ ~cl.running
    BY <2>1 DEF MailInv, FrameInv, FenceInv
  <2>3. \A k \in Item : typedAt[k] # cl'.nonce
    <3>1. \A k \in Item : typedAt[k] \in Nat /\ typedAt[k] <= cl.nonce
      BY <1>0 DEF MailInv, SessionInv, MailType
    <3> QED
      BY <1>0, <2>1, <3>1
  <2> QED
    BY <2>1, <2>2, <2>3 DEF VirginInv
<1>9. CASE DisposeStart
  <2>1. Virgin' => Virgin
    BY <1>0, <1>9, DisposeStartDoes DEF Virgin
  <2> QED
    BY <1>0, <1>9, <2>1, DisposeStartDoes DEF VirginInv
<1>10. CASE PollSession
  <2>1. CASE NewSession
    <3> DEFINE e == [nonce |-> openFile.nonce, host |-> host.id, first |-> cl.host]
    <3>1. opened' = Append(opened, e) /\ e \in [nonce: Nat, host: Nat, first: Nat]
          /\ e.nonce = openFile.nonce
      BY <1>0, <1>10, <2>1, PollSessionDoes
    <3> HIDE DEF e
    <3>2. Len(opened) + 1 \in 1..Len(opened') /\ opened'[Len(opened) + 1].nonce = openFile.nonce
      BY <1>0, <3>1, AppendProperties DEF MailType
    <3>3. openFile.nonce = cl'.nonce
      BY <1>0, <1>10, <2>1, PollSessionDoes DEF NewSession, MailInv, FenceInv
    <3> QED
      BY <3>2, <3>3 DEF VirginInv, Virgin
  <2>2. CASE ~NewSession
    <3>1. /\ UNCHANGED <<cl, typedAt, openFile, inFiles, opened>> /\ UNCHANGED <<host.id, host.up>>
          /\ host'.names = DOMAIN inFiles
      BY <1>0, <1>10, <2>2, PollSessionDoes
    <3>2. Virgin' => Virgin
      BY <3>1 DEF Virgin
    <3>3. Virgin => openFile.nonce = 0
      BY <1>0, <2>2, VirginOnly DEF NewSession, MailInv, FenceInv
    <3> QED
      BY <3>1, <3>2, <3>3 DEF VirginInv
  <2> QED
    BY <2>1, <2>2
<1>11. CASE ApplyInput
  <2>1. UNCHANGED <<cl, typedAt, opened>> /\ UNCHANGED <<host.id, host.up>>
    BY <1>0, <1>11, ApplyInputDoes
  <2>2. Virgin' => Virgin
    BY <2>1 DEF Virgin
  <2>3. CASE Dropped
    BY <2>1, <2>2, <2>3 DEF Dropped, VirginInv
  <2>4. CASE Taken
    <3>1. ses.nonce = cl.nonce
      BY <2>4 DEF Taken, ForSession, MailInv, FrameInv
    <3> QED
      BY <2>2, <3>1, VirginOnly DEF VirginInv
  <2> QED
    BY <1>0, <1>11, <2>3, <2>4, ApplyInputDoes DEF Gave
<1>12. CASE Expire
  <2>1. /\ UNCHANGED <<cl, typedAt, opened, host>> /\ DOMAIN inFiles' = {} /\ ~NewSession
    BY <1>0, <1>12, ExpireDoes DEF Emptied
  <2>2. Virgin' => Virgin
    BY <2>1 DEF Virgin
  <2>3. Virgin => openFile.nonce = 0
    BY <1>0, <2>1, VirginOnly DEF NewSession, MailInv, FenceInv
  <2> QED
    BY <2>1, <2>2, <2>3 DEF VirginInv
<1>13. CASE HostStops \/ HostDies
  BY <1>0, <1>13, HostStopsDoes, HostDiesDoes DEF VirginInv, Virgin
<1>14. CASE HostStarts
  <2>1. host'.id = host.id + 1 /\ cl' = cl
    BY <1>0, <1>14, HostStartsDoes
  <2>2. cl.host <= host.id
    BY DEF MailInv, SessionInv
  <2>3. ~Virgin'
    BY <1>0, <2>1, <2>2 DEF Virgin
  <2> QED
    BY <2>3 DEF VirginInv
<1> QED
  BY <1>1, <1>2, <1>3, <1>4, <1>5, <1>6, <1>7, <1>8, <1>9, <1>10, <1>11, <1>12, <1>13, <1>14
     DEF Actions

\* Dispose frames and the items in front of them, as the flow moves on.
LEMMA CutCat ==
    ASSUME NEW q \in Seq(Input), NEW r \in Seq(Input), NEW k, Cut(q, k)
    PROVE  Cut(q \o r, k)
<1> DEFINE c == q \o r
<1>1. Len(q) \in Nat /\ \A i \in 1..Len(q) : i \in 1..Len(c) /\ c[i] = q[i]
  BY Cats
<1> HIDE DEF c
<1>2. PICK j \in 1..Len(q) : q[j] = Dispose /\ \A i \in 1..(j - 1) : Less(q[i], k)
  BY DEF Cut
<1>3. \A i \in 1..(j - 1) : i \in 1..Len(q)
  BY <1>1
<1>4. c[j] = Dispose /\ j \in 1..Len(c) /\ \A i \in 1..(j - 1) : Less(c[i], k)
  BY <1>1, <1>2, <1>3
<1> QED
  BY <1>4 DEF Cut, c

\* A dispose frame cuts off what would follow all that stands before it.
LEMMA CutBehind ==
    ASSUME NEW q \in Seq(Input), NEW k, \A i \in 1..Len(q) : Less(q[i], k)
    PROVE  Cut(q \o <<Dispose>>, k)
<1> DEFINE r == <<Dispose>>
           c == q \o r
<1>1. r \in Seq(Input) /\ Len(r) = 1 /\ r[1] = Dispose /\ 1 \in 1..Len(r)
  BY InputNumbers
<1> HIDE DEF r
<1>2. /\ Len(q) \in Nat /\ \A i \in 1..Len(q) : c[i] = q[i]
      /\ \A i \in 1..Len(r) : Len(q) + i \in 1..Len(c) /\ c[Len(q) + i] = r[i]
  BY <1>1, InputCats
<1> HIDE DEF c
<1>3. Len(q) + 1 \in 1..Len(c) /\ c[Len(q) + 1] = Dispose
  BY <1>1, <1>2
<1>4. (Len(q) + 1) - 1 = Len(q)
  BY <1>2
<1>5. \A i \in 1..((Len(q) + 1) - 1) : Less(c[i], k)
  BY <1>2, <1>4
<1> QED
  BY <1>3, <1>5 DEF Cut, c, r

\* What is cut off stays so when the rear of the queue gives way to a dispose frame.
LEMMA CutDispose ==
    ASSUME NEW q \in Seq(Input), NEW r \in Seq(Input), NEW k, Cut(q \o r, k)
    PROVE  Cut(q \o <<Dispose>>, k)
<1> DEFINE c == q \o r
<1>1. /\ Len(q) \in Nat /\ Len(c) \in Nat
      /\ \A i \in 1..Len(q) : i \in 1..Len(c) /\ c[i] = q[i]
  BY Cats
<1>2. Cut(c, k)
  OBVIOUS
<1> HIDE DEF c
<1>3. PICK j \in 1..Len(c) : c[j] = Dispose /\ \A i \in 1..(j - 1) : Less(c[i], k)
  BY <1>2 DEF Cut
<1>4. CASE j \in 1..Len(q)
  <2>1. q[j] = Dispose /\ \A i \in 1..(j - 1) : i \in 1..Len(q) /\ Less(q[i], k)
    BY <1>1, <1>3, <1>4
  <2>2. Cut(q, k)
    BY <1>4, <2>1 DEF Cut
  <2>3. <<Dispose>> \in Seq(Input)
    BY InputNumbers
  <2> QED
    BY <2>2, <2>3, CutCat
<1>5. CASE ~(j \in 1..Len(q))
  <2>1. \A i \in 1..Len(q) : i \in 1..(j - 1)
    BY <1>1, <1>5
  <2>2. \A i \in 1..Len(q) : Less(q[i], k)
    BY <1>1, <1>3, <2>1
  <2> QED
    BY <2>2, CutBehind
<1> QED
  BY <1>4, <1>5

\* The head of the flow is written.
LEMMA HeadLeaves ==
    ASSUME NEW q \in Seq(Input), NEW r \in Seq(Input), q # <<>>, NEW k
    PROVE  /\ (\E j \in 1..Len(q \o r) : (q \o r)[j] = k)
                => Head(q) = k \/ \E j \in 1..Len(Tail(q) \o r) : (Tail(q) \o r)[j] = k
           /\ Cut(q \o r, k)
                => Head(q) = Dispose \/ (Less(Head(q), k) /\ Cut(Tail(q) \o r, k))
<1> DEFINE t == Tail(q)
           c == q \o r
           d == t \o r
<1>1. /\ Head(q) = q[1] /\ 1 \in 1..Len(q) /\ t \in Seq(Input) /\ Len(t) = Len(q) - 1
      /\ \A i \in 1..Len(t) : i + 1 \in 1..Len(q) /\ t[i] = q[i + 1]
      /\ Len(q) \in Nat /\ Len(r) \in Nat
  BY Tails
<1> HIDE DEF t
<1>2. /\ Len(c) = Len(q) + Len(r)
      /\ \A i \in 1..Len(q) : c[i] = q[i]
      /\ \A i \in 1..Len(c) : \/ i \in 1..Len(q) /\ c[i] = q[i]
                              \/ i > Len(q) /\ i - Len(q) \in 1..Len(r) /\ c[i] = r[i - Len(q)]
  BY <1>1, Cats
<1>3. /\ Len(d) = Len(t) + Len(r)
      /\ \A i \in 1..Len(t) : d[i] = t[i]
      /\ \A i \in 1..Len(r) : d[Len(t) + i] = r[i]
  BY <1>1, InputCats
<1> HIDE DEF c, d
<1>4. Len(c) \in Nat /\ Len(d) \in Nat /\ Len(d) = Len(c) - 1 /\ c[1] = Head(q)
  BY <1>1, <1>2, <1>3
<1>5. ASSUME NEW i \in 1..Len(c), i # 1 PROVE i - 1 \in 1..Len(d) /\ d[i - 1] = c[i]
  <2>1. i - 1 \in 1..Len(d)
    BY <1>4, <1>5
  <2>2. CASE i \in 1..Len(q)
    <3>1. i - 1 \in 1..Len(t) /\ (i - 1) + 1 = i
      BY <1>1, <1>5, <2>2
    <3>2. t[i - 1] = q[i] /\ d[i - 1] = t[i - 1]
      BY <1>1, <1>3, <3>1
    <3> QED
      BY <1>2, <2>1, <2>2, <3>2
  <2>3. CASE i > Len(q) /\ i - Len(q) \in 1..Len(r) /\ c[i] = r[i - Len(q)]
    <3>1. Len(t) + (i - Len(q)) = i - 1
      BY <1>1
    <3>2. d[Len(t) + (i - Len(q))] = r[i - Len(q)]
      BY <1>3, <2>3
    <3> QED
      BY <2>1, <2>3, <3>1, <3>2
  <2> QED
    BY <1>2, <2>2, <2>3
<1>6. (\E j \in 1..Len(c) : c[j] = k) => Head(q) = k \/ \E j \in 1..Len(d) : d[j] = k
  BY <1>4, <1>5
<1>7. ASSUME Cut(c, k), Head(q) # Dispose PROVE Less(Head(q), k) /\ Cut(d, k)
  <2>1. PICK j \in 1..Len(c) : c[j] = Dispose /\ \A i \in 1..(j - 1) : Less(c[i], k)
    BY <1>7 DEF Cut
  <2>2. j # 1 /\ 1 \in 1..(j - 1)
    BY <1>4, <1>7, <2>1
  <2>3. j - 1 \in 1..Len(d) /\ d[j - 1] = Dispose /\ Less(Head(q), k)
    BY <1>4, <1>5, <2>1, <2>2
  <2>4. ASSUME NEW i \in 1..((j - 1) - 1) PROVE Less(d[i], k)
    <3>1. i + 1 \in 1..Len(c) /\ i + 1 # 1 /\ i + 1 \in 1..(j - 1) /\ (i + 1) - 1 = i
      BY <1>4, <2>1, <2>4
    <3>2. d[i] = c[i + 1]
      BY <1>5, <3>1
    <3> QED
      BY <2>1, <3>1, <3>2
  <2> QED
    BY <2>3, <2>4 DEF Cut
<1> QED
  BY <1>6, <1>7 DEF c, d, t

\* Steps that change nothing of what is on its way.
Keeps ==
    Good' => /\ Good /\ typedAt' = typedAt /\ cl'.nonce = cl.nonce
             /\ Got' = Got /\ Frames' = Frames /\ Flow' = Flow
             /\ \A s \in Frames : inFiles'[s] = inFiles[s]

\* A step that keeps the keystrokes on their way loses none.
LEMMA KeepsLost == ASSUME LostInv, Keeps PROVE LostInv'
<1> SUFFICES ASSUME Good', NEW k \in Item, typedAt'[k] = cl'.nonce
             PROVE  (k \in Got \/ Coming(k))'
  BY DEF LostInv
<1>1. /\ typedAt[k] = cl.nonce /\ Good /\ Got' = Got /\ Frames' = Frames /\ Flow' = Flow
      /\ \A s \in Frames : inFiles'[s] = inFiles[s]
  BY DEF Keeps
<1>2. k \in Got \/ Coming(k)
  BY <1>1 DEF LostInv
<1> QED
  BY <1>1, <1>2 DEF Coming

\* The session and the frames stay.
Stays ==
    /\ UNCHANGED <<inFiles, log, opened>> /\ UNCHANGED <<cl.nonce, cl.host, cl.fenced>>
    /\ UNCHANGED <<ses.id, ses.nonce, ses.lastInput, host.id, host.up>>

\* A step that changes neither side's end leaves the session as good as it was.
LEMMA StaysGood ==
    ASSUME Stays
    PROVE  Good' = Good /\ Linked' = Linked /\ Got' = Got /\ Frames' = Frames
<1>1. Linked' = Linked /\ Virgin' = Virgin /\ Only(ses.id)' = Only(ses.id)
  BY DEF Stays, Linked, Virgin, Only
<1> QED
  BY <1>1 DEF Stays, Good, Got, Frames

\* Nothing is lost by a step that changes nothing on the way.
LEMMA StaysLost ==
    ASSUME LostInv, Stays, UNCHANGED <<typedAt, Flow>>
    PROVE  LostInv'
BY StaysGood, KeepsLost DEF Keeps, Stays

\* What is not in frames is a matter of the batch and the queue.
LEMMA SameFlow ==
    ASSUME UNCHANGED <<drain.torn, drain.batch, drain.left, cl.pending>>
    PROVE  Flow' = Flow
BY DEF Flow, Rest

\* The shapes of what is on the way.
LEMMA RestTypes ==
    ASSUME MailInv
    PROVE  Rest \in Seq(Input) /\ cl.pending \in Seq(Input) /\ Flow \in Seq(Input)
<1>1. Rest \in Seq(Input) /\ cl.pending \in Seq(Input)
  BY FlowTypes DEF MailInv, Rest
<1> QED
  BY <1>1 DEF Flow

\* Quiet steps, a keystroke typed, a batch taken and one put back lose nothing.
LEMMA PageLost ==
    ASSUME MailInv, LostInv, Quiet \/ SendData \/ DrainStart \/ WriteInputFails
    PROVE  LostInv'
<1>0. MailType
  BY DEF MailInv
<1>1. CASE Quiet
  <2>1. Stays /\ typedAt' = typedAt /\ Flow' = Flow
    BY <1>1, SameFlow DEF Quiet, Stays
  <2> QED
    BY <2>1, StaysLost
<1>2. CASE SendData
  <2>1. Stays /\ typedAt' = typedAt /\ UNCHANGED <<drain, cl.pending>>
    BY <1>0, <1>2, SendDataDoes DEF Stays
  <2> QED
    BY <2>1, StaysLost, SameFlow
<1>3. CASE DrainStart
  <2>1. /\ Stays /\ typedAt' = typedAt /\ ~Busy
        /\ drain'.left = drain'.batch /\ drain'.torn = FALSE
    BY <1>0, <1>3, DrainStartDoes DEF Stays
  <2>2. PICK n \in 1..Len(cl.pending) :
          /\ drain'.batch = SubSeq(cl.pending, 1, n)
          /\ cl'.pending = SubSeq(cl.pending, n + 1, Len(cl.pending))
    BY <1>0, <1>3, DrainStartDoes
  <2>3. Rest = <<>> /\ cl.pending \in Seq(Input)
    BY <2>1, RestTypes DEF Rest, Busy, MailInv, FenceInv
  <2>4. Flow = cl.pending
    BY <2>3, ConcatEmptySeq DEF Flow
  <2>5. Flow' = SubSeq(cl.pending, 1, n) \o SubSeq(cl.pending, n + 1, Len(cl.pending))
    BY <2>1, <2>2 DEF Flow, Rest
  <2>6. SubSeq(cl.pending, 1, n) \o SubSeq(cl.pending, n + 1, Len(cl.pending))
          = SubSeq(cl.pending, 1, Len(cl.pending))
    <3> DEFINE q == cl.pending
    <3>1. q \in Seq(Input) /\ n \in 1..Len(q) /\ Len(q) \in Nat
      BY <2>3
    <3> HIDE DEF q
    <3>2. 1 \in 1..(Len(q) + 1) /\ n \in (1 - 1)..Len(q) /\ Len(q) \in n..Len(q)
      BY <3>1
    <3>3. SubSeq(q, 1, n) \o SubSeq(q, n + 1, Len(q)) = SubSeq(q, 1, Len(q))
      BY <3>1, <3>2, ConcatAdjacentSubSeq
    <3> QED
      BY <3>3 DEF q
  <2>7. SubSeq(cl.pending, 1, Len(cl.pending)) = cl.pending
    BY <2>3, SubSeqFull
  <2> QED
    BY <2>1, <2>4, <2>5, <2>6, <2>7, StaysLost
<1>4. CASE WriteInputFails
  <2>1. /\ Stays /\ typedAt' = typedAt /\ Busy /\ (dir = FALSE \/ drain.torn)
        /\ cl'.pending = drain.batch \o cl.pending
        /\ drain'.left = <<>> /\ drain'.torn = FALSE
    BY <1>0, <1>4, WriteInputFailsDoes DEF Stays
  <2>2. Rest = drain.batch
    BY <2>1 DEF Rest, MailInv, FenceInv
  <2>3. Rest' = <<>> /\ cl'.pending = Flow
    BY <2>1, <2>2 DEF Rest, Flow
  <2>4. <<>> \o Flow = Flow
    BY RestTypes, ConcatEmptySeq
  <2>5. Flow' = Rest' \o cl'.pending
    BY DEF Flow
  <2> QED
    BY <2>1, <2>3, <2>4, <2>5, StaysLost
<1> QED
  BY <1>1, <1>2, <1>3, <1>4

\* Nor does an open, which hands everything on.
LEMMA OpenedLost == ASSUME MailInv, LostInv, Opened PROVE LostInv'
<1>1. /\ Stays /\ cl'.pending = cl.pending \o Queued /\ UNCHANGED drain
      /\ \A k \in Item : typedAt'[k] = IF \E j \in 1..Len(Queued) : Queued[j] = k
                                       THEN cl.nonce ELSE typedAt[k]
      /\ Queued \in Seq(Input)
  <2>1. MailType /\ \A q \in Seq(Item) : q \in Seq(Input)
    BY InputNumbers DEF MailInv
  <2> QED
    BY <2>1, OpenedDoes DEF Stays
<1>2. Rest \in Seq(Input) /\ cl.pending \in Seq(Input) /\ Flow \in Seq(Input)
  BY RestTypes
<1>3. Flow' = Flow \o Queued
  <2>1. Rest' = Rest
    BY <1>1 DEF Rest
  <2>2. (Rest \o cl.pending) \o Queued = Rest \o (cl.pending \o Queued)
    <3>1. \A q, r, t \in Seq(Input) : (q \o r) \o t = q \o (r \o t)
      BY ConcatAssociative
    <3> QED
      BY <1>1, <1>2, <3>1
  <2> QED
    BY <1>1, <2>1, <2>2 DEF Flow
<1>4. /\ Len(Flow) \in Nat /\ Len(Queued) \in Nat /\ Len(Flow') = Len(Flow) + Len(Queued)
      /\ \A j \in 1..Len(Flow) : Flow'[j] = Flow[j]
      /\ \A j \in 1..Len(Queued) : Len(Flow) + j \in 1..Len(Flow') /\ Flow'[Len(Flow) + j] = Queued[j]
  BY <1>1, <1>2, <1>3, InputCats
<1>5. Good' = Good /\ Got' = Got /\ Frames' = Frames /\ inFiles' = inFiles /\ cl'.nonce = cl.nonce
  BY <1>1, StaysGood DEF Stays
<1> SUFFICES ASSUME Good, NEW k \in Item, typedAt'[k] = cl.nonce
             PROVE  (k \in Got \/ Coming(k))'
  BY <1>5 DEF LostInv
<1>6. CASE \E j \in 1..Len(Queued) : Queued[j] = k
  BY <1>4, <1>6 DEF Coming
<1>7. CASE typedAt[k] = cl.nonce
  <2>1. k \in Got \/ Coming(k)
    BY <1>7 DEF LostInv
  <2>2. CASE \E j \in 1..Len(Flow) : Flow[j] = k
    <3>1. \E j \in 1..Len(Flow') : Flow'[j] = k
      BY <1>4, <2>2
    <3> QED
      BY <3>1 DEF Coming
  <2>3. CASE (\A t \in Frames : Less(inFiles[t].item, k)) /\ Cut(Flow, k)
    <3>1. Cut(Flow \o Queued, k)
      BY <1>1, <1>2, <2>3, CutCat
    <3> QED
      BY <1>3, <1>5, <2>3, <3>1 DEF Coming
  <2> QED
    BY <1>5, <2>1, <2>2, <2>3 DEF Coming
<1> QED
  BY <1>1, <1>6, <1>7

\* Nor does dispose: what it drops is behind the dispose frame or typed for nobody.
LEMMA DisposeLost == ASSUME MailInv, FlowInv, LostInv, DisposeStart PROVE LostInv'
<1>0. MailType
  BY DEF MailInv
<1>1. /\ Stays /\ UNCHANGED <<typedAt, drain>> /\ UNCHANGED cl.fenced
      /\ cl'.pending = cl.pending \/ (cl'.pending = <<>> /\ cl.fenced) \/ cl'.pending = <<Dispose>>
  BY <1>0, DisposeStartDoes DEF Stays
<1>2. CASE cl'.pending = cl.pending
  BY <1>1, <1>2, SameFlow, StaysLost
<1>3. CASE cl.fenced
  <2>1. ~Good'
    BY <1>1, <1>3 DEF Good, Virgin, Linked
  <2> QED
    BY <2>1 DEF LostInv
<1>4. CASE cl'.pending = <<Dispose>>
  <2>1. Rest \in Seq(Input) /\ cl.pending \in Seq(Input) /\ <<Dispose>> \in Seq(Input)
    BY RestTypes, InputNumbers
  <2>2. Flow' = Rest \o <<Dispose>> /\ Flow = Rest \o cl.pending
    BY <1>1, <1>4 DEF Flow, Rest
  <2>3. Good' = Good /\ Got' = Got /\ Frames' = Frames /\ inFiles' = inFiles /\ cl'.nonce = cl.nonce
    BY <1>1, StaysGood DEF Stays
  <2>4. /\ \A s \in Frames, j \in 1..Len(cl.pending) : Less(inFiles[s].item, cl.pending[j])
        /\ \A i \in 1..Len(Rest), j \in 1..Len(cl.pending) : Less(Rest[i], cl.pending[j])
    <3>1. Behind(Written, cl.pending) /\ Ahead(Rest, cl.pending)
      BY DEF FlowInv, OrderInv, Behind, Rest
    <3>2. \A s \in Frames : inFiles[s].item \in Written
      BY DEF Frames, Written
    <3> QED
      BY <3>1, <3>2 DEF Behind, Ahead
  <2>5. ASSUME NEW j \in 1..Len(Flow)
        PROVE  \/ \E i \in 1..Len(Flow') : Flow'[i] = Flow[j]
               \/ \E i \in 1..Len(cl.pending) : Flow[j] = cl.pending[i]
    <3>1. \A q, r \in Seq(Input) : \A i \in 1..Len(q) : i \in 1..Len(q \o r) /\ (q \o r)[i] = q[i]
      BY Cats
    <3>2. \/ \E i \in 1..Len(Rest) : Flow[j] = Rest[i]
          \/ \E i \in 1..Len(cl.pending) : Flow[j] = cl.pending[i]
      BY <2>1, <2>2, CatFrom
    <3>3. \A i \in 1..Len(Rest) : i \in 1..Len(Flow') /\ Flow'[i] = Rest[i]
      BY <2>1, <2>2, <3>1
    <3> QED
      BY <3>2, <3>3
  <2> SUFFICES ASSUME Good, NEW k \in Item, typedAt[k] = cl.nonce
               PROVE  (k \in Got \/ Coming(k))'
    BY <1>1, <2>3 DEF LostInv
  <2>6. k \in Got \/ Coming(k)
    BY DEF LostInv
  <2>7. CASE \E j \in 1..Len(Flow) : Flow[j] = k
    <3>1. CASE \E i \in 1..Len(cl.pending) : k = cl.pending[i]
      <4>1. /\ \A s \in Frames : Less(inFiles[s].item, k)
            /\ \A i \in 1..Len(Rest) : Less(Rest[i], k)
        BY <2>4, <3>1
      <4>2. Cut(Rest \o <<Dispose>>, k)
        BY <2>1, <4>1, CutBehind
      <4> QED
        BY <2>2, <2>3, <4>1, <4>2 DEF Coming
    <3> QED
      BY <2>5, <2>7, <3>1 DEF Coming
  <2>8. CASE (\A t \in Frames : Less(inFiles[t].item, k)) /\ Cut(Flow, k)
    <3>1. Cut(Rest \o <<Dispose>>, k)
      BY <2>1, <2>2, <2>8, CutDispose
    <3> QED
      BY <2>2, <2>3, <2>8, <3>1 DEF Coming
  <2> QED
    BY <2>3, <2>6, <2>7, <2>8 DEF Coming
<1> QED
  BY <1>1, <1>2, <1>3, <1>4

\* Nor does a frame that is written.
LEMMA WriteInputLost == ASSUME MailInv, FlowInv, LostInv, WriteInput PROVE LostInv'
<1> DEFINE new == cl.in + 1
<1>0. MailType
  BY DEF MailInv
<1>1. /\ UNCHANGED <<log, opened, typedAt, ses, host>>
      /\ UNCHANGED <<cl.nonce, cl.host, cl.fenced, cl.pending>>
      /\ cl.in \in Nat /\ Busy /\ ~drain.torn /\ drain'.torn = FALSE
      /\ DOMAIN inFiles' = DOMAIN inFiles \union {new}
      /\ inFiles'[new].item = Head(drain.left) /\ drain'.left = Tail(drain.left)
      /\ \A s \in DOMAIN inFiles : s # new => inFiles'[s] = inFiles[s]
  BY <1>0, WriteInputDoes
<1>2. Rest = drain.left /\ Rest' = Tail(Rest) /\ Rest # <<>> /\ drain.left \in Seq(Input)
  BY <1>0, <1>1, FlowTypes DEF Rest, Busy
<1>3. Rest \in Seq(Input) /\ cl.pending \in Seq(Input) /\ Flow' = Tail(Rest) \o cl.pending
  BY <1>1, <1>2, RestTypes DEF Flow
<1>4. Linked' = Linked /\ Good' = Good /\ Got' = Got
  <2>1. Linked' = Linked /\ Virgin' = Virgin /\ Only(ses.id)' = Only(ses.id)
    BY <1>1 DEF Linked, Virgin, Only
  <2> QED
    BY <1>1, <2>1 DEF Good, Got
<1>5. /\ \A s \in DOMAIN inFiles : s \in Nat /\ s < new
      /\ ses.lastInput \in Nat /\ ses.lastInput < new
  BY <1>0, <1>1 DEF MailInv, FrameInv, MailType, SesShape
<1>6. /\ new \in Frames' /\ Frames \subseteq Frames'
      /\ \A s \in Frames' : s \in Frames \/ s = new
      /\ \A s \in Frames : inFiles'[s] = inFiles[s] /\ s # new /\ s < new /\ s \in Nat
  <2> HIDE DEF new
  <2>1. ses'.lastInput = ses.lastInput /\ new > ses.lastInput /\ \A s \in DOMAIN inFiles : s # new
    BY <1>1, <1>5 DEF new
  <2> QED
    BY <1>1, <1>4, <1>5, <2>1 DEF Frames
<1> DEFINE head == Head(Rest)
<1>7. inFiles'[new].item = head
  BY <1>1, <1>2
<1> SUFFICES ASSUME Good, NEW k \in Item, typedAt[k] = cl.nonce
             PROVE  (k \in Got \/ Coming(k))'
  BY <1>1, <1>4 DEF LostInv
<1>8. /\ (\E j \in 1..Len(Flow) : Flow[j] = k) => head = k \/ \E j \in 1..Len(Flow') : Flow'[j] = k
      /\ Cut(Flow, k) => head = Dispose \/ (Less(head, k) /\ Cut(Flow', k))
  <2> DEFINE q == Rest
             r == cl.pending
  <2>1. q \in Seq(Input) /\ r \in Seq(Input) /\ q # <<>>
    BY <1>2, <1>3
  <2>2. Flow = q \o r /\ Flow' = Tail(q) \o r /\ head = Head(q)
    BY <1>3 DEF Flow
  <2> HIDE DEF q, r, head
  <2>3. /\ (\E j \in 1..Len(q \o r) : (q \o r)[j] = k)
             => Head(q) = k \/ \E j \in 1..Len(Tail(q) \o r) : (Tail(q) \o r)[j] = k
        /\ Cut(q \o r, k) => Head(q) = Dispose \/ (Less(Head(q), k) /\ Cut(Tail(q) \o r, k))
    BY <2>1, HeadLeaves
  <2> QED
    BY <2>2, <2>3
<1> HIDE DEF new, head
<1>9. k \in Got \/ Coming(k)
  BY DEF LostInv
<1>10. CASE \E s \in Frames : inFiles[s].item = k
  BY <1>6, <1>10 DEF Coming
<1>11. CASE \E j \in 1..Len(Flow) : Flow[j] = k
  BY <1>6, <1>7, <1>8, <1>11 DEF Coming
<1>12. CASE \E u \in Frames : /\ inFiles[u].item = Dispose
                              /\ \A t \in Frames : t < u => Less(inFiles[t].item, k)
  <2>1. PICK u \in Frames : /\ inFiles[u].item = Dispose
                            /\ \A t \in Frames : t < u => Less(inFiles[t].item, k)
    BY <1>12
  <2>2. u \in Frames' /\ inFiles'[u].item = Dispose
    BY <1>6, <2>1
  <2>3. ~(new < u)
    BY <1>1, <1>6, <2>1 DEF new
  <2>4. \A t \in Frames' : t < u => Less(inFiles'[t].item, k)
    BY <1>6, <2>1, <2>3
  <2> QED
    BY <2>2, <2>4 DEF Coming
<1>13. CASE (\A t \in Frames : Less(inFiles[t].item, k)) /\ Cut(Flow, k)
  <2>1. CASE head = Dispose
    <3>1. \A t \in Frames' : t < new => Less(inFiles'[t].item, k)
      <4>1. ~(new < new)
        BY <1>1 DEF new
      <4> QED
        BY <1>6, <1>13, <4>1
    <3> QED
      BY <1>6, <1>7, <2>1, <3>1 DEF Coming
  <2>2. CASE Less(head, k) /\ Cut(Flow', k)
    <3>1. \A t \in Frames' : Less(inFiles'[t].item, k)
      BY <1>6, <1>7, <1>13, <2>2
    <3> QED
      BY <2>2, <3>1 DEF Coming
  <2> QED
    BY <1>8, <1>13, <2>1, <2>2
<1> QED
  BY <1>4, <1>9, <1>10, <1>11, <1>12, <1>13 DEF Coming

\* A session closed leaves nothing on its way but for a nonce that had none.
LEMMA ClosedLost ==
    ASSUME MailInv, Closed, UNCHANGED <<cl, opened>>, ses.nonce = cl.nonce \/ ~host'.up
    PROVE  LostInv'
<1>1. ~Virgin'
  BY VirginOnly DEF Virgin
<1>2. ~Linked'
  BY DEF Linked, Closed, MailInv, FenceInv
<1> QED
  BY <1>1, <1>2 DEF LostInv, Good

\* A renewal has a nonce nothing was typed under.
LEMMA RenewLost == ASSUME MailInv, RenewStart \/ RenewSwitch PROVE LostInv'
<1>0. MailType
  BY DEF MailInv
<1>1. CASE RenewStart
  BY <1>0, <1>1, RenewStartDoes DEF LostInv, Good, Virgin, Linked
<1>2. CASE RenewSwitch
  <2>1. typedAt' = typedAt /\ cl'.nonce = cl.nonce + 1 /\ cl.nonce \in Nat
    BY <1>0, <1>2, RenewSwitchDoes DEF MailType, ClType
  <2>2. \A k \in Item : typedAt[k] \in Nat /\ typedAt[k] <= cl.nonce
    BY DEF MailInv, SessionInv, MailType
  <2> QED
    BY <2>1, <2>2 DEF LostInv
<1> QED
  BY <1>1, <1>2

\* A session that is opened finds all its frames.
LEMMA PollLost == ASSUME MailInv, LostInv, PollSession PROVE LostInv'
<1>0. MailType /\ ses.nonce \in Nat
  BY DEF MailInv, MailType, SesShape
<1>1. /\ UNCHANGED <<cl, drain, typedAt, inFiles, log>> /\ UNCHANGED <<host.id, host.up>> /\ host.up
  BY <1>0, PollSessionDoes
<1>2. Flow' = Flow
  BY <1>1, SameFlow
<1>3. CASE ~NewSession
  <2>1. Stays
    BY <1>0, <1>1, <1>3, PollSessionDoes DEF Stays
  <2> QED
    BY <1>1, <1>2, <2>1, StaysLost
<1>4. CASE NewSession
  <2> DEFINE id == Len(opened) + 1
             e == [nonce |-> openFile.nonce, host |-> host.id, first |-> cl.host]
  <2>1. /\ ses'.id = id /\ ses'.lastInput = 0 /\ opened' = Append(opened, e)
        /\ e \in [nonce: Nat, host: Nat, first: Nat] /\ ses'.nonce = openFile.nonce
        /\ opened \in Seq([nonce: Nat, host: Nat, first: Nat])
        /\ e.host = host.id /\ e.first = cl.host /\ e.nonce = openFile.nonce
    <3>1. cl.host \in Nat /\ host.id \in Nat
      BY <1>0 DEF MailType, ClType, HostType
    <3> QED
      BY <1>0, <1>4, <3>1, PollSessionDoes DEF MailType
  <2> HIDE DEF e
  <2>2. /\ Len(opened) \in Nat /\ opened'[id] = e /\ Len(opened') = id
        /\ \A i \in 1..Len(opened) : opened'[i] = opened[i]
        /\ DOMAIN opened' = 1..Len(opened')
    BY <2>1, AppendProperties
  <2>3. openFile.nonce = cl.nonce /\ ses.nonce # cl.nonce
    BY <1>4 DEF NewSession, MailInv, FenceInv
  <2>4. ~Virgin'
    <3>1. id \in 1..Len(opened') /\ opened'[id].nonce = cl'.nonce
      BY <1>1, <2>1, <2>2, <2>3
    <3> QED
      BY <3>1 DEF Virgin
  <2>5. Got = {} /\ Got' = {}
    <3>1. \A i \in 1..Len(log) : log[i].session \in 1..Len(opened)
      BY DEF MailInv, SessionInv
    <3>2. \A i \in 1..Len(log) : log[i].session # id
      BY <2>2, <3>1
    <3> QED
      BY <1>1, <2>1, <2>3, <3>2 DEF Got, Linked
  <2>6. Frames = DOMAIN inFiles /\ Frames' = DOMAIN inFiles
    <3>1. \A s \in DOMAIN inFiles : s > 0
      BY <1>0 DEF MailType, MailInv, FrameInv
    <3> QED
      BY <1>1, <2>1, <2>3, <3>1 DEF Frames, Linked
  <2>7. Good' => Good
    <3> SUFFICES ASSUME Good' PROVE Good
      OBVIOUS
    <3>1. Linked' /\ Only(ses.id)'
      BY <2>4 DEF Good
    <3>2. /\ opened'[id].host = opened'[id].first
          /\ \A i \in DOMAIN opened' : opened'[i].nonce = opened'[id].nonce => i = id
      BY <2>1, <3>1 DEF Only
    <3>3. host.id = cl.host
      BY <2>1, <2>2, <3>2
    <3>4. ASSUME NEW i \in 1..Len(opened) PROVE opened[i].nonce # cl.nonce
      <4>1. i \in DOMAIN opened' /\ i # id
        BY <2>2
      <4>2. opened'[i].nonce # opened'[id].nonce
        BY <3>2, <4>1
      <4> QED
        BY <2>1, <2>2, <2>3, <4>2
    <3>5. ~cl.fenced
      BY <1>1, <3>1 DEF Linked
    <3> QED
      BY <1>1, <3>3, <3>4, <3>5 DEF Good, Virgin
  <2>8. Keeps
    BY <1>1, <1>2, <2>5, <2>6, <2>7 DEF Keeps
  <2> QED
    BY <2>8, KeepsLost
<1> QED
  BY <1>3, <1>4

\* A frame that is dropped was taken or is not of the session.
LEMMA DropLost ==
    ASSUME MailInv, VirginInv, LostInv, ApplyInput, ~Taken, Dropped, UNCHANGED <<ses, log>>
    PROVE  LostInv'
<1>0. MailType
  BY DEF MailInv
<1>1. /\ UNCHANGED <<cl, typedAt, opened, drain>> /\ UNCHANGED <<host.id, host.up>>
      /\ First \in host.names
      /\ DOMAIN inFiles' = DOMAIN inFiles \ {First} /\ \A t \in DOMAIN inFiles' : inFiles'[t] = inFiles[t]
  BY <1>0, ApplyInputDoes DEF Dropped
<1>2. Linked' = Linked /\ Good' = Good /\ Got' = Got /\ Flow' = Flow
  <2>1. Linked' = Linked /\ Virgin' = Virgin /\ Only(ses.id)' = Only(ses.id)
    BY <1>1 DEF Linked, Virgin, Only
  <2>2. Flow' = Flow
    BY <1>1, SameFlow
  <2> QED
    BY <2>1, <2>2 DEF Good, Got
<1>3. Good => First \notin Frames
  <2>1. Virgin => First \notin DOMAIN inFiles
    BY <1>1 DEF VirginInv
  <2>2. ASSUME Linked, First \in Frames PROVE FALSE
    <3>1. First \in DOMAIN inFiles /\ First > ses.lastInput /\ inFiles[First].nonce = ses.nonce
      BY <2>2 DEF Frames, Linked, MailInv, FrameInv
    <3> QED
      BY <3>1 DEF Taken, ForSession
  <2> QED
    BY <2>1, <2>2 DEF Good, Frames
<1>4. Good => Frames' = Frames
  BY <1>1, <1>2, <1>3 DEF Frames
<1>5. Keeps
  BY <1>1, <1>2, <1>4 DEF Keeps, Frames
<1> QED
  BY <1>5, KeepsLost

\* The frame that is taken is the first of those that will be.
LEMMA GaveFirst ==
    ASSUME MailInv, ApplyInput, Gave
    PROVE  /\ First \in Frames /\ \A s \in Frames : s # First => First < s
           /\ Frames' = Frames \ {First}
<1>1. /\ Linked /\ First > ses.lastInput /\ First \in DOMAIN inFiles
      /\ DOMAIN inFiles \subseteq Nat /\ host.names \subseteq Nat /\ ses.lastInput \in Nat
  BY GaveLinked DEF MailInv, MailType, HostType, SesShape
<1>2. /\ UNCHANGED cl /\ UNCHANGED <<ses.id, ses.nonce>> /\ ses'.lastInput = First
      /\ First \in host.names /\ \A t \in host.names : First <= t
      /\ DOMAIN inFiles' = DOMAIN inFiles \ {First}
  BY ApplyInputDoes DEF MailInv, Gave, Dropped
<1>3. Linked'
  BY <1>1, <1>2 DEF Linked
<1>4. \A s \in DOMAIN inFiles : s # First => First < s
  <2>1. ASSUME NEW s \in DOMAIN inFiles, s # First PROVE First < s
    <3>1. CASE s \in host.names
      BY <1>1, <1>2, <2>1, <3>1
    <3>2. CASE s \notin host.names
      BY <1>2, <3>2 DEF MailInv, FrameInv
    <3> QED
      BY <3>1, <3>2
  <2> QED
    BY <2>1
<1>5. \A s \in DOMAIN inFiles' : s > First /\ s > ses.lastInput
  BY <1>1, <1>2, <1>4
<1>6. Frames' = DOMAIN inFiles \ {First}
  BY <1>2, <1>3, <1>5 DEF Frames
<1>7. Frames = DOMAIN inFiles
  BY <1>1, <1>2, <1>5 DEF Frames
<1> QED
  BY <1>1, <1>4, <1>6, <1>7

\* A keystroke that leaves the way is with the shell.
LEMMA GaveLost == ASSUME MailInv, LostInv, ApplyInput, Gave PROVE LostInv'
<1>0. MailType
  BY DEF MailInv
<1>1. /\ UNCHANGED <<cl, typedAt, opened, drain>> /\ UNCHANGED <<ses.id, ses.nonce>>
      /\ \A t \in DOMAIN inFiles' : inFiles'[t] = inFiles[t]
      /\ inFiles[First].item # Dispose
  BY <1>0, ApplyInputDoes, InputNumbers DEF Gave, Dropped
<1>2. Linked /\ Linked' /\ Flow' = Flow
  BY <1>1, GaveLinked, SameFlow DEF Linked
<1>3. Good' => Good
  <2>1. ~Virgin' /\ Only(ses.id)' = Only(ses.id)
    BY <1>1, <1>2, VirginOnly DEF Linked, Only
  <2> QED
    BY <1>2, <2>1 DEF Good
<1>4. /\ First \in Frames /\ Frames' = Frames \ {First}
      /\ \A s \in Frames' : inFiles'[s] = inFiles[s]
  BY <1>1, GaveFirst DEF Frames
<1>5. Got \subseteq Got' /\ inFiles[First].item \in Got'
  <2>1. /\ Len(log') = Len(log) + 1 /\ Len(log) \in Nat
        /\ \A i \in 1..Len(log) : i \in 1..Len(log') /\ log'[i] = log[i]
        /\ Len(log) + 1 \in 1..Len(log')
        /\ log'[Len(log) + 1].session = ses.id
        /\ log'[Len(log) + 1].item = inFiles[First].item
    BY <1>0, LogGrows
  <2> QED
    BY <1>1, <1>2, <2>1 DEF Got
<1> SUFFICES ASSUME Good', NEW k \in Item, typedAt'[k] = cl'.nonce
             PROVE  (k \in Got \/ Coming(k))'
  BY DEF LostInv
<1>6. k \in Got \/ Coming(k)
  BY <1>1, <1>3 DEF LostInv
<1> QED
  BY <1>1, <1>2, <1>4, <1>5, <1>6 DEF Coming

\* The end of a session or of a host leaves nobody to lose a keystroke.
LEMMA HostLost ==
    ASSUME MailInv, VirginInv, LostInv, Expire \/ HostStops \/ HostDies \/ HostStarts
    PROVE  LostInv'
<1>0. MailType
  BY DEF MailInv
<1>1. CASE HostStops \/ HostDies
  <2>1. Closed /\ UNCHANGED <<cl, opened>> /\ ~host'.up
    BY <1>0, <1>1, HostStopsDoes, HostDiesDoes
  <2> QED
    BY <2>1, ClosedLost
<1>2. CASE HostStarts
  <2>1. /\ UNCHANGED <<cl, drain, typedAt, inFiles, opened, log, ses>> /\ host'.id = host.id + 1
        /\ host.id \in Nat /\ cl.host \in Nat /\ cl.host <= host.id
    BY <1>0, <1>2, HostStartsDoes DEF MailInv, MailType, HostType, ClType, SessionInv
  <2>2. ~Virgin'
    BY <2>1 DEF Virgin
  <2>3. /\ Linked' = Linked /\ Only(ses.id)' = Only(ses.id)
    BY <2>1 DEF Linked, Only
  <2>4. Flow' = Flow
    BY <2>1, SameFlow
  <2>5. Got' = Got /\ Frames' = Frames
    BY <2>1, <2>3 DEF Got, Frames
  <2>6. Keeps
    BY <2>1, <2>2, <2>3, <2>4, <2>5 DEF Keeps, Good
  <2> QED
    BY <2>6, KeepsLost
<1>3. CASE Expire
  <2>1. UNCHANGED <<cl, typedAt, opened, host>> /\ ~NewSession /\ Closed
    BY <1>0, <1>3, ExpireDoes
  <2>2. Virgin' => Virgin
    BY <2>1 DEF Virgin
  <2>3. Virgin => openFile.nonce = 0
    BY <1>0, <2>1, VirginOnly DEF NewSession, MailInv, FenceInv
  <2>4. ~Linked'
    BY <2>1 DEF Linked, Closed, MailInv, FenceInv
  <2> QED
    BY <2>1, <2>2, <2>3, <2>4 DEF LostInv, Good, VirginInv
<1> QED
  BY <1>1, <1>2, <1>3

\* No step loses a keystroke.
LEMMA LostStep == ASSUME MailInv, FlowInv, VirginInv, LostInv, Actions PROVE LostInv'
<1>1. CASE ApplyInput
  <2>0. MailType
    BY DEF MailInv
  <2>1. CASE Taken /\ Emptied /\ Closed
    <3>1. ses.nonce = cl.nonce /\ UNCHANGED <<cl, opened>>
      BY <1>1, <2>0, <2>1, ApplyInputDoes DEF Taken, ForSession, MailInv, FrameInv
    <3> QED
      BY <2>1, <3>1, ClosedLost
  <2> QED
    BY <1>1, <2>0, <2>1, ApplyInputDoes, DropLost, GaveLost
<1> QED
  BY <1>1, PageLost, OpenedLost, DisposeLost, WriteInputLost, RenewLost, PollLost, HostLost
     DEF Actions

\* Sessions are only added: one that is the only one of its nonce was before.
LEMMA OnlyBefore ==
    ASSUME MailType, Actions, NEW id \in 1..Len(opened)
    PROVE  opened'[id] = opened[id] /\ (Only(id)' => Only(id))
<1>1. CASE opened' = opened
  BY <1>1 DEF Only
<1>2. CASE \E e \in [nonce: Nat, host: Nat, first: Nat] : opened' = Append(opened, e)
  <2>1. PICK e \in [nonce: Nat, host: Nat, first: Nat] : opened' = Append(opened, e)
    BY <1>2
  <2>2. /\ Len(opened) \in Nat /\ Len(opened') = Len(opened) + 1
        /\ \A i \in 1..Len(opened) : opened'[i] = opened[i]
        /\ DOMAIN opened = 1..Len(opened) /\ DOMAIN opened' = 1..Len(opened')
    BY <2>1, AppendProperties DEF MailType
  <2>3. DOMAIN opened \subseteq DOMAIN opened'
    BY <2>2
  <2> QED
    BY <2>2, <2>3 DEF Only
<1>3. PollSession => \/ opened' = opened
                     \/ \E e \in [nonce: Nat, host: Nat, first: Nat] : opened' = Append(opened, e)
  <2> DEFINE e == [nonce |-> openFile.nonce, host |-> host.id, first |-> cl.host]
  <2>1. e \in [nonce: Nat, host: Nat, first: Nat]
    BY DEF MailType, ClType, HostType
  <2> QED
    BY <2>1, PollSessionDoes
<1>4. Actions => PollSession \/ opened' = opened
  BY SendDataDoes, OpenedDoes, DrainStartDoes, WriteInputDoes, WriteInputFailsDoes, RenewStartDoes,
     RenewSwitchDoes, DisposeStartDoes, ApplyInputDoes, ExpireDoes, HostStopsDoes, HostDiesDoes,
     HostStartsDoes DEF Actions, Quiet
<1> QED
  BY <1>1, <1>2, <1>3, <1>4

\* Only an input frame that is taken adds to what the shells got.
LEMMA LogKept == ASSUME MailType, Actions PROVE log' = log \/ (ApplyInput /\ Gave)
BY SendDataDoes, OpenedDoes, DrainStartDoes, WriteInputDoes, WriteInputFailsDoes, RenewStartDoes,
   RenewSwitchDoes, DisposeStartDoes, PollSessionDoes, ApplyInputDoes, ExpireDoes, HostStopsDoes,
   HostDiesDoes, HostStartsDoes DEF Actions, Quiet

\* What the shells got are keystrokes.
LEMMA LogItems ==
    ASSUME MailType, NEW i \in 1..Len(log)
    PROVE  log[i].item \in Item /\ log[i].item \in Nat /\ log[i].session \in Nat
<1>1. log \in Seq([session: Nat, item: Item, for: Nat])
  BY DEF MailType
<1>2. log[i] \in [session: Nat, item: Item, for: Nat]
  BY <1>1, ElementOfSeq
<1> QED
  BY <1>2, InputNumbers

\* Only an open queues items, and they come after all that a shell got.
LEMMA TypedKept ==
    ASSUME MailInv, FlowInv, Actions, NEW i \in 1..Len(log), NEW k \in Item, k <= log[i].item
    PROVE  typedAt'[k] = typedAt[k]
<1>0. MailType
  BY DEF MailInv
<1>1. CASE Opened
  <2>1. typedAt'[k] = IF \E j \in 1..Len(Queued) : Queued[j] = k THEN cl.nonce ELSE typedAt[k]
    BY <1>0, <1>1, OpenedDoes
  <2>2. ASSUME NEW j \in 1..Len(Queued), Queued[j] = k PROVE FALSE
    <3>1. Queued = opening.items
      <4>1. Len(<<>>) = 0
        OBVIOUS
      <4> QED
        BY <2>2, <4>1 DEF Queued
    <3>2. log[i].item \in Old
      BY DEF Old
    <3>3. Less(log[i].item, k)
      BY <2>2, <3>1, <3>2 DEF FlowInv, TypedInv, Behind
    <3>4. /\ log[i].item \in Nat /\ log[i].item # Dispose /\ k \in Nat /\ k # Dispose
      BY <1>0, LogItems, InputNumbers
    <3>5. log[i].item < k
      BY <3>3, <3>4 DEF Less
    <3> QED
      BY <3>4, <3>5
  <2> QED
    BY <2>1, <2>2
<1>2. Opened \/ typedAt' = typedAt
  BY <1>0, SendDataDoes, DrainStartDoes, WriteInputDoes, WriteInputFailsDoes, RenewStartDoes,
     RenewSwitchDoes, DisposeStartDoes, PollSessionDoes, ApplyInputDoes, ExpireDoes, HostStopsDoes,
     HostDiesDoes, HostStartsDoes DEF Actions, Quiet
<1> QED
  BY <1>1, <1>2

\* What is on its way is behind the frame that is taken.
LEMMA GaveAll ==
    ASSUME MailInv, FlowInv, LostInv, ApplyInput, Gave, Only(ses.id),
           NEW k \in Item, k < inFiles[First].item, typedAt[k] = cl.nonce
    PROVE  \E j \in 1..Len(log) : log[j].session = ses.id /\ log[j].item = k
<1> DEFINE item == inFiles[First].item
<1>1. /\ item \in Item /\ item \in Nat /\ item # Dispose /\ k \in Nat /\ k # Dispose
      /\ ~Less(item, k) /\ Linked
  BY GaveLinked, InputNumbers DEF Gave, Less
<1>2. First \in Frames /\ \A s \in Frames : s # First => First < s
  BY GaveFirst
<1>3. First \in DOMAIN inFiles /\ \A s \in Frames : s \in DOMAIN inFiles
  BY <1>2 DEF Frames
<1>4. \A s \in Frames : s # First => Less(item, inFiles[s].item)
  BY <1>2, <1>3 DEF FlowInv, OrderInv
<1>5. ASSUME NEW j \in 1..Len(Flow), Flow[j] = k PROVE FALSE
  <2>1. /\ \A i \in 1..Len(Rest) : Less(item, Rest[i])
        /\ \A i \in 1..Len(cl.pending) : Less(item, cl.pending[i])
    <3>1. item \in Written
      BY <1>3 DEF Written
    <3> QED
      BY <3>1 DEF FlowInv, OrderInv, Behind, Rest
  <2>2. \/ \E i \in 1..Len(Rest) : Flow[j] = Rest[i]
        \/ \E i \in 1..Len(cl.pending) : Flow[j] = cl.pending[i]
    BY RestTypes, CatFrom DEF Flow
  <2> QED
    BY <1>1, <1>5, <2>1, <2>2
<1> HIDE DEF item
<1>6. k \in Got \/ Coming(k)
  BY <1>1 DEF LostInv, Good
<1>7. ~Coming(k)
  <2>1. \A s \in Frames : inFiles[s].item # k
    <3>1. item # k
      BY <1>1 DEF item
    <3> QED
      BY <1>1, <1>4, <3>1 DEF item
  <2>2. ASSUME NEW u \in Frames, inFiles[u].item = Dispose,
               \A t \in Frames : t < u => Less(inFiles[t].item, k)
        PROVE  FALSE
    <3>1. First < u
      BY <1>1, <1>2, <2>2 DEF item
    <3> QED
      BY <1>1, <1>2, <2>2, <3>1 DEF item
  <2>3. ~(\A t \in Frames : Less(inFiles[t].item, k))
    BY <1>1, <1>2 DEF item
  <2> QED
    BY <1>5, <2>1, <2>2, <2>3 DEF Coming
<1> QED
  BY <1>6, <1>7 DEF Got

\* No shell gets a keystroke before the ones typed ahead of it.
LEMMA NoneStep == ASSUME MailInv, FlowInv, LostInv, NoneLeftOut, Actions PROVE NoneLeftOut'
<1>0. /\ MailType
      /\ \A i \in 1..Len(log) : /\ log[i].session \in 1..Len(opened)
                                /\ log[i].item \in Item /\ log[i].item \in Nat
  BY LogItems DEF MailInv, SessionInv
<1>1. ASSUME NEW i \in 1..Len(log), NEW id, id = log[i].session, Only(id)',
             NEW k \in Item, k < log[i].item,
             typedAt'[k] = opened'[id].nonce, typedAt'[log[i].item] = typedAt'[k]
      PROVE  \E j \in 1..(i - 1) : log[j].session = id /\ log[j].item = k
  <2>1. opened'[id] = opened[id] /\ Only(id)
    <3>1. id \in 1..Len(opened)
      BY <1>0, <1>1
    <3> QED
      BY <1>0, <1>1, <3>1, OnlyBefore
  <2>2. typedAt'[k] = typedAt[k] /\ typedAt'[log[i].item] = typedAt[log[i].item]
    <3> DEFINE item == log[i].item
    <3>1. item \in Nat /\ k \in Nat /\ item \in Item /\ item <= item /\ k <= item
      BY <1>0, <1>1, InputNumbers
    <3>2. \A x \in Item : x <= log[i].item => typedAt'[x] = typedAt[x]
      BY TypedKept
    <3> QED
      BY <3>1, <3>2
  <2> QED
    BY <1>1, <2>1, <2>2 DEF NoneLeftOut
<1> SUFFICES ASSUME NEW i \in 1..Len(log'), NEW id, id = log'[i].session, Only(id)',
                    NEW k \in Item, k < log'[i].item,
                    typedAt'[k] = opened'[id].nonce, typedAt'[log'[i].item] = typedAt'[k]
             PROVE  \E j \in 1..(i - 1) : log'[j].session = id /\ log'[j].item = k
  BY DEF NoneLeftOut, Only
<1>2. CASE log' = log
  BY <1>1, <1>2
<1>3. CASE ApplyInput /\ Gave
  <2>1. /\ Len(log) \in Nat /\ Len(log') = Len(log) + 1
        /\ \A j \in 1..Len(log) : log'[j] = log[j]
        /\ log'[Len(log) + 1].session = ses.id
        /\ log'[Len(log) + 1].item = inFiles[First].item
        /\ \A j \in 1..Len(log') : j \in 1..Len(log) \/ j = Len(log) + 1
    BY <1>0, <1>3, LogGrows
  <2>4. CASE i \in 1..Len(log)
    <3>1. \A j \in 1..(i - 1) : j \in 1..Len(log)
      BY <2>1, <2>4
    <3>2. log'[i] = log[i]
      BY <2>1, <2>4
    <3>3. PICK j \in 1..(i - 1) : log[j].session = id /\ log[j].item = k
      BY <1>1, <2>4, <3>2
    <3> QED
      BY <2>1, <3>1, <3>3
  <2>5. CASE i = Len(log) + 1
    <3>1. Only(ses.id) /\ id = ses.id /\ UNCHANGED <<opened, typedAt>>
      BY <1>0, <1>3, <2>1, <2>5, ApplyInputDoes DEF Only
    <3>2. opened[ses.id].nonce = cl.nonce
      <4>1. Linked
        BY <1>3, GaveLinked
      <4> QED
        BY <4>1 DEF Linked, MailInv, SessionInv, FenceInv
    <3>3. k < inFiles[First].item /\ typedAt[k] = cl.nonce
      BY <2>1, <2>5, <3>1, <3>2
    <3>4. PICK j \in 1..Len(log) : log[j].session = ses.id /\ log[j].item = k
      BY <1>3, <3>1, <3>3, GaveAll
    <3>5. j \in 1..(i - 1)
      BY <2>1, <2>5
    <3> QED
      BY <2>1, <3>1, <3>4, <3>5
  <2> QED
    BY <2>1, <2>4, <2>5
<1> QED
  BY <1>0, <1>2, <1>3, LogKept

-------------------------------------------------------------------------------
(* The theorem.                                                            *)

MailboxInv == MailInv /\ FlowInv /\ VirginInv /\ LostInv /\ NoneLeftOut

\* The whole invariant holds at the start.
LEMMA MailInit == Init => MailboxInv
BY MailTypeInit, FenceInit, FrameInit, SessionInit, FlowInit, VirginInit, LostInit
   DEF MailboxInv, MailInv

\* The whole invariant is inductive.
LEMMA MailStep == MailboxInv /\ [Next]_vars => MailboxInv'
<1> SUFFICES ASSUME MailboxInv, [Next]_vars PROVE MailboxInv'
  OBVIOUS
<1>1. MailInv /\ MailType /\ FenceInv /\ FrameInv /\ SessionInv /\ FlowInv /\ VirginInv /\ LostInv
      /\ NoneLeftOut
  BY DEF MailboxInv, MailInv
<1>2. MailType' /\ Actions
  BY <1>1, Steps
<1>3. MailInv'
  BY <1>1, <1>2, FenceStep, FrameStep, SessionStep DEF MailInv
<1>4. FlowInv' /\ VirginInv' /\ LostInv' /\ NoneLeftOut'
  BY <1>1, <1>2, FlowStep, VirginStep, LostStep, NoneStep
<1> QED
  BY <1>3, <1>4 DEF MailboxInv

\* It gives the order the user relies on.
LEMMA MailOrder == MailboxInv => InputInOrder
<1> SUFFICES ASSUME MailboxInv, NEW i \in DOMAIN log
             PROVE  LET id == log[i].session
                        before == {log[j].item : j \in {j \in 1..(i - 1) : log[j].session = id}}
                    IN
                    /\ \A k \in before : k < log[i].item
                    /\ Only(id) => \A k \in Item :
                           k < log[i].item /\ typedAt[k] = opened[id].nonce
                           /\ typedAt[log[i].item] = typedAt[k] => k \in before
  BY DEF InputInOrder
<1>1. InOrder /\ NoneLeftOut /\ Len(log) \in Nat /\ DOMAIN log = 1..Len(log)
  BY DEF MailboxInv, FlowInv, MailInv, MailType
<1>2. i \in 1..Len(log) /\ \A j \in 1..(i - 1) : j \in 1..Len(log) /\ j < i
  BY <1>1
<1>3. \A j \in 1..(i - 1) : log[j].session = log[i].session => log[j].item < log[i].item
  BY <1>1, <1>2 DEF InOrder
<1> QED
  BY <1>1, <1>2, <1>3 DEF NoneLeftOut

\* The shell gets the keystrokes of a session in the order they were typed,
\* each once and none left out: drainInput puts a failed batch back whole and
\* in front, and applyInputs takes the frames by number.
THEOREM InputKeepsItsOrder == Spec => []InputInOrder
<1>1. Init => MailboxInv
  BY MailInit
<1>2. MailboxInv /\ [Next]_vars => MailboxInv'
  BY MailStep
<1>3. MailboxInv => InputInOrder
  BY MailOrder
<1> QED
  BY <1>1, <1>2, <1>3, PTL DEF Spec

-------------------------------------------------------------------------------
(* The order of the output: what acknowledges a frame, whose a frame is,   *)
(* what the user has been shown, what is still on the disk.                *)

TermType == [said: Nat, pending: Nat, outst: SUBSET Nat]
OutFrame == [nonce: Nat, session: Nat]

ShownType ==
    /\ cl.out \in Nat /\ openFile.ack \in Nat /\ ackFile \in [nonce: Nat, ack: Nat]
    /\ ses.lastAck \in Nat /\ term \in TermType
    /\ DOMAIN outFiles \subseteq Nat
    /\ \A s \in DOMAIN outFiles : outFiles[s] \in OutFrame
    /\ seen \in [session: Nat, chunk: Nat]
    /\ ses.nonce = 0 => ses = NoSession /\ term.pending = 0

\* No acknowledgement, whether on its way, in a file or with the host, is of
\* a frame the user has not been shown; a fence leaves none.
AckInv ==
    /\ \A s \in acking : s \in Nat /\ s <= cl.out
    /\ openFile.ack <= cl.out /\ ackFile.ack <= cl.out
    /\ cl.fenced => acking = {} /\ ackFile = None
    /\ ses.nonce = cl.nonce => ses.lastAck <= cl.out

\* A frame carries the nonce of the session that wrote it; the nonces of the
\* sessions only go up, as those the page draws.
PlaceInv ==
    /\ \A s \in DOMAIN outFiles : /\ outFiles[s].session \in 1..Len(opened)
                                  /\ opened[outFiles[s].session].nonce = outFiles[s].nonce
    /\ \A i \in 1..Len(opened) : opened[i].nonce <= cl.nonce
    /\ \A i, j \in 1..Len(opened) : i <= j => opened[i].nonce <= opened[j].nonce

\* The user has been shown as much as the page has counted, of a session of
\* the page's nonce, or nothing yet of this nonce.
SeenInv ==
    /\ seen.session = 0 => cl.out = 0
    /\ seen.session # 0 => /\ seen.session \in 1..Len(opened)
                           /\ \/ opened[seen.session].nonce = cl.nonce /\ cl.out = seen.chunk
                              \/ opened[seen.session].nonce < cl.nonce /\ cl.out = 0

\* A chunk the page has not counted is in its file.
KeptInv ==
    Linked /\ Only(ses.id) =>
        \A s \in 1..term.said : \/ s <= cl.out
                                \/ s \in DOMAIN outFiles /\ outFiles[s].session = ses.id

OutInv == ShownType /\ AckInv /\ PlaceInv /\ SeenInv /\ KeptInv

\* It holds at the start.
LEMMA OutInit == Init => OutInv
<1> SUFFICES ASSUME Init PROVE OutInv
  OBVIOUS
<1>1. /\ cl.out = 0 /\ cl.nonce = 1 /\ cl.fenced = FALSE /\ acking = {} /\ openFile = None
      /\ ackFile = None /\ DOMAIN outFiles = {} /\ ses = NoSession /\ term = Fresh
      /\ seen = [session |-> 0, chunk |-> 0] /\ opened = <<>>
  BY DEF Init
<1>2. ShownType
  BY <1>1 DEF ShownType, None, NoSession, Fresh, TermType
<1>3. AckInv
  BY <1>1 DEF AckInv, None, NoSession
<1>4. Len(opened) = 0
  BY <1>1
<1>5. PlaceInv /\ SeenInv
  BY <1>1, <1>4 DEF PlaceInv, SeenInv
<1>6. ses.nonce = 0
  BY <1>1 DEF NoSession
<1>7. KeptInv
  BY <1>1, <1>6 DEF KeptInv, Linked
<1> QED
  BY <1>2, <1>3, <1>5, <1>7 DEF OutInv

\* The steps as the output sees them.
SamePage == UNCHANGED <<cl.out, cl.nonce, cl.fenced, seen, opened>>
SameAcks == UNCHANGED <<acking, openFile, ackFile>>
SameSes  == UNCHANGED <<ses.id, ses.nonce, ses.lastAck>> /\ (UNCHANGED ses \/ ses.nonce # 0)

\* Nothing of the output changes.
Still == SamePage /\ SameAcks /\ SameSes /\ UNCHANGED <<outFiles, term>>

\* The session is over.
Over == SamePage /\ ses' = NoSession /\ term' = Fresh

\* The directory and what was in it are gone.
Wiped == acking' = {} /\ openFile' = None /\ ackFile' = None /\ DOMAIN outFiles' = {}

Remains == UNCHANGED <<outFiles, acking, openFile, ackFile>>

\* The page fences its mailbox.
FencedOff == /\ Wiped /\ SameSes /\ UNCHANGED <<term, cl.out, cl.nonce, seen, opened>>
             /\ cl'.fenced = TRUE

\* A device's next chunk is written as a frame.
Wrote == /\ SamePage /\ SameAcks /\ SameSes
         /\ term.pending # 0 /\ term' = NextChunk /\ outFiles' = OutFrames(term.said + 1)

\* A shell writes to its device.
Filled == /\ SamePage /\ SameAcks /\ SameSes /\ UNCHANGED outFiles
          /\ ses.nonce # 0 /\ term' = [term EXCEPT !.pending = @ + 1]

\* What the page does with its input leaves the output alone.
LEMMA PageStill ==
    ASSUME MailType, \/ Open \/ SendData \/ OpenRejected \/ DrainStart \/ WriteInput
                     \/ WriteInputFails \/ DisposeStart \/ DisposeEnd
    PROVE  Still
<1>1. cl \in ClType
  BY DEF MailType
<1>2. UNCHANGED <<cl.out, cl.nonce, cl.fenced>>
  <2>1. CASE Open \/ OpenRejected
    BY <2>1 DEF Open, OpenRejected
  <2>2. CASE SendData
    BY <1>1, <2>2 DEF SendData, ClType
  <2>3. CASE DrainStart
    BY <1>1, <2>3 DEF DrainStart, ClType
  <2>4. CASE WriteInput
    BY <1>1, <2>4 DEF WriteInput, ClType
  <2>5. CASE WriteInputFails
    BY <1>1, <2>5 DEF WriteInputFails, ClType
  <2>6. CASE DisposeStart
    BY <1>1, <2>6 DEF DisposeStart, ClType
  <2>7. CASE DisposeEnd
    BY <1>1, <2>7 DEF DisposeEnd, ClType
  <2> QED
    BY <2>1, <2>2, <2>3, <2>4, <2>5, <2>6, <2>7
<1>3. UNCHANGED <<seen, opened, acking, openFile, ackFile, outFiles, ses, term>>
  BY DEF Open, SendData, OpenRejected, DrainStart, WriteInput, WriteInputFails, DisposeStart,
         DisposeEnd, hostVars, fileVars
<1> QED
  BY <1>2, <1>3 DEF Still, SamePage, SameAcks, SameSes

\* So does a host that starts.
LEMMA HostStill == ASSUME HostStarts \/ UNCHANGED vars PROVE Still
BY DEF HostStarts, vars, pageVars, fileVars, hostVars, Still, SamePage, SameAcks, SameSes

\* rm -r of the directory takes the frames and the acknowledgements with it.
LEMMA WipedDoes == ASSUME RemoveMailbox PROVE Wiped
BY DEF RemoveMailbox, Wiped

\* An input frame leaves the output alone, unless it disposes the session.
LEMMA InputStill ==
    ASSUME MailInv, ApplyInput
    PROVE  Still \/ (Over /\ Wiped)
<1>1. UNCHANGED <<cl, opened, seen>>
  BY DEF ApplyInput
<1>2. CASE DropInput(First) /\ UNCHANGED ses
  BY <1>1, <1>2 DEF DropInput, Still, SamePage, SameAcks, SameSes
<1>3. CASE CloseSession
  BY <1>1, <1>3, WipedDoes DEF CloseSession, Over, SamePage
<1>4. CASE Taken /\ DropInput(First) /\ ses' = [ses EXCEPT !.lastInput = First]
  <2>1. ses.nonce # 0
    BY <1>4 DEF Taken, ForSession, MailInv, FrameInv, FenceInv
  <2>2. ses = [id |-> ses.id, nonce |-> ses.nonce, lastInput |-> ses.lastInput,
               lastAck |-> ses.lastAck]
    BY DEF MailInv, MailType, SesShape
  <2>3. UNCHANGED <<ses.id, ses.nonce, ses.lastAck>>
    BY <1>4, <2>2
  <2> QED
    BY <1>1, <1>4, <2>1, <2>3 DEF DropInput, Still, SamePage, SameAcks, SameSes
<1> QED
  BY <1>2, <1>3, <1>4 DEF ApplyInput, First, Taken

\* The TTL and the end of a host end the session.
LEMMA EndsOver ==
    ASSUME Expire \/ HostStops \/ HostDies
    PROVE  Over /\ (Wiped \/ Remains)
<1>1. UNCHANGED <<cl, seen, opened>> /\ ses' = NoSession /\ term' = Fresh
  BY DEF Expire, HostStops, HostDies, CloseSession, pageVars
<1>2. RemoveMailbox \/ Remains
  BY DEF Expire, HostStops, HostDies, CloseSession, pageVars, fileVars, Remains
<1> QED
  BY <1>1, <1>2, WipedDoes DEF Over, SamePage

\* renewBootNonce fences the mailbox first.
LEMMA RenewFences == ASSUME MailType, RenewStart PROVE FencedOff
<1>1. cl' = [cl EXCEPT !.host = host.id, !.fenced = TRUE, !.running = FALSE, !.pending = <<>>]
      /\ cl \in ClType
  BY DEF RenewStart, MailType
<1>2. UNCHANGED <<cl.out, cl.nonce>> /\ cl'.fenced = TRUE
  BY <1>1 DEF ClType
<1> QED
  BY <1>2, WipedDoes DEF RenewStart, FencedOff, SameSes, hostVars

\* A flush writes one frame, or has nothing to write.
LEMMA FlushWrites ==
    ASSUME PollEnd \/ FlushTimer
    PROVE  Still \/ Wrote
BY DEF PollEnd, FlushTimer, Flush, pageVars, Still, Wrote, SamePage, SameAcks, SameSes

\* A shell writes only while its session is open.
LEMMA ShellFills == ASSUME MailType, ShownType, ShellWrites PROVE Filled
<1>1. ses.nonce # 0
  BY DEF ShellWrites, Serving, ShownType
<1> QED
  BY <1>1 DEF ShellWrites, Filled, pageVars, fileVars, SamePage, SameAcks, SameSes

\* The larger of two numbers.
LEMMA Maximum ==
    ASSUME NEW a \in Nat, NEW b \in Nat
    PROVE  Max({a, b}) \in {a, b} /\ Max({a, b}) \in Nat /\ a <= Max({a, b}) /\ b <= Max({a, b})
<1>1. \E x \in {a, b} : \A y \in {a, b} : x >= y
  <2>1. CASE a >= b
    BY <2>1
  <2>2. CASE b >= a
    BY <2>2
  <2> QED
    BY <2>1, <2>2
<1>2. Max({a, b}) \in {a, b} /\ \A y \in {a, b} : Max({a, b}) >= y
  BY <1>1 DEF Max
<1> DEFINE m == Max({a, b})
<1>3. m \in {a, b} /\ m >= a /\ m >= b
  BY <1>2
<1> HIDE DEF m
<1>4. m \in Nat /\ a <= m /\ b <= m
  BY <1>3
<1> QED
  BY <1>3, <1>4 DEF m

\* The frames the host removes are acknowledged ones.
Fewer ==
    /\ DOMAIN outFiles' \subseteq DOMAIN outFiles
    /\ \A s \in DOMAIN outFiles' : outFiles'[s] = outFiles[s]
    /\ \A s \in DOMAIN outFiles : s \in DOMAIN outFiles' \/ s <= ses'.lastAck

\* The host opens a session for the page's nonce.
Opens ==
    /\ NewSession /\ ses' # NoSession /\ ses'.nonce = cl.nonce /\ ses'.id = Len(opened) + 1
    /\ term' = Fresh
    /\ opened' = Append(opened, [nonce |-> cl.nonce, host |-> host.id, first |-> cl.host])

\* The host goes on with the session it has.
GoesOn ==
    /\ UNCHANGED <<ses.id, ses.nonce, opened, term.said, term.pending>>
    /\ ses.nonce # 0 /\ term' \in TermType

\* The host removes acknowledged frames only, and what it takes as acknowledged
\* of the page's session has been shown.
LEMMA PollSessionOut ==
    ASSUME MailInv, OutInv, PollSession
    PROVE  /\ UNCHANGED <<cl, acking, openFile, ackFile, seen>> /\ Fewer
           /\ ses'.lastAck \in Nat /\ (ses'.nonce = cl.nonce => ses'.lastAck <= cl.out)
           /\ Opens \/ GoesOn
<1> DEFINE next == IF NewSession
                   THEN [id |-> Len(opened) + 1, nonce |-> openFile.nonce,
                         lastInput |-> 0, lastAck |-> openFile.ack]
                   ELSE [ses EXCEPT !.lastAck = Max({@, openFile.ack})]
           acked == ackFile # None /\ ackFile.nonce = next.nonce
           ack == IF acked THEN Max({next.lastAck, ackFile.ack}) ELSE next.lastAck
           apply == acked \/ (~NewSession /\ ack > ses.lastAck)
<1>1. /\ ses' = [next EXCEPT !.lastAck = ack]
      /\ UNCHANGED <<cl, acking, openFile, ackFile, seen>>
      /\ openFile # None \/ Serving
      /\ outFiles' = IF apply THEN Unacked(ack) ELSE outFiles
      /\ term' = CASE NewSession -> Fresh
                   [] ~NewSession /\ apply -> [term EXCEPT !.outst = {s \in @ : s > ack}]
                   [] OTHER -> term
      /\ opened' = IF NewSession
                   THEN Append(opened, [nonce |-> next.nonce, host |-> host.id, first |-> cl.host])
                   ELSE opened
  BY DEF PollSession, pageVars
<1>2. /\ cl.out \in Nat /\ cl.nonce \in Nat /\ cl.nonce > 0
      /\ ses.lastAck \in Nat /\ openFile.ack \in Nat /\ ackFile.ack \in Nat
      /\ openFile.ack <= cl.out /\ ackFile.ack <= cl.out
      /\ ses.nonce = cl.nonce => ses.lastAck <= cl.out
      /\ term \in TermType
  BY DEF MailInv, MailType, ClType, FenceInv, OutInv, ShownType, AckInv
<1>3. ses = [id |-> ses.id, nonce |-> ses.nonce, lastInput |-> ses.lastInput,
             lastAck |-> ses.lastAck]
  BY DEF MailInv, MailType, SesShape
<1>4. /\ next.lastAck \in Nat /\ (next.nonce = cl.nonce => next.lastAck <= cl.out)
      /\ NewSession => next = [id |-> Len(opened) + 1, nonce |-> cl.nonce,
                               lastInput |-> 0, lastAck |-> openFile.ack]
      /\ ~NewSession => next.id = ses.id /\ next.nonce = ses.nonce
      /\ next = [id |-> next.id, nonce |-> next.nonce, lastInput |-> next.lastInput,
                 lastAck |-> next.lastAck]
  <2>1. CASE NewSession
    <3>1. openFile.nonce = cl.nonce
      BY <2>1 DEF NewSession, MailInv, FenceInv
    <3> QED
      BY <1>2, <2>1, <3>1
  <2>2. CASE ~NewSession
    <3> DEFINE top == Max({ses.lastAck, openFile.ack})
    <3>1. top \in Nat /\ top \in {ses.lastAck, openFile.ack}
      BY <1>2, Maximum
    <3>2. next = [ses EXCEPT !.lastAck = top]
      BY <2>2
    <3> HIDE DEF top, next
    <3>3. /\ next = [id |-> ses.id, nonce |-> ses.nonce, lastInput |-> ses.lastInput,
                     lastAck |-> top]
      BY <1>3, <3>2
    <3> QED
      BY <1>2, <2>2, <3>1, <3>3
  <2> QED
    BY <2>1, <2>2
<1> HIDE DEF next
<1>5. ack \in Nat /\ (next.nonce = cl.nonce => ack <= cl.out)
  <2>1. CASE acked
    BY <1>2, <1>4, <2>1, Maximum
  <2>2. CASE ~acked
    BY <1>4, <2>2
  <2> QED
    BY <2>1, <2>2
<1> HIDE DEF ack
<1>6. ses' = [id |-> next.id, nonce |-> next.nonce, lastInput |-> next.lastInput, lastAck |-> ack]
  BY <1>1, <1>4
<1>7. ses'.id = next.id /\ ses'.nonce = next.nonce /\ ses'.lastAck = ack
  BY <1>6
<1> HIDE DEF apply
<1>8. Fewer
  <2>1. CASE apply
    <3>1. outFiles' = [s \in {s \in DOMAIN outFiles : s > ack} |-> outFiles[s]]
      BY <1>1, <2>1 DEF Unacked, Restrict
    <3>2. \A s \in DOMAIN outFiles : s \in Nat
      BY DEF OutInv, ShownType
    <3> QED
      BY <1>5, <1>7, <3>1, <3>2 DEF Fewer
  <2>2. CASE ~apply
    BY <1>1, <2>2 DEF Fewer
  <2> QED
    BY <2>1, <2>2
<1>9. CASE NewSession
  <2>1. next.nonce = cl.nonce /\ next.id = Len(opened) + 1
    BY <1>4, <1>9
  <2>2. ses' # NoSession
    BY <1>2, <1>7, <2>1 DEF NoSession
  <2>3. /\ term' = Fresh
        /\ opened' = Append(opened, [nonce |-> cl.nonce, host |-> host.id, first |-> cl.host])
    BY <1>1, <1>9, <2>1
  <2>4. Opens
    BY <1>7, <1>9, <2>1, <2>2, <2>3 DEF Opens
  <2> QED
    BY <1>1, <1>5, <1>7, <1>8, <2>4
<1>10. CASE ~NewSession
  <2>1. ses.nonce # 0
    BY <1>1, <1>10 DEF NewSession, Serving, MailInv, FenceInv, OutInv, ShownType
  <2>2. UNCHANGED <<ses.id, ses.nonce, opened>>
    BY <1>1, <1>4, <1>7, <1>10
  <2>3. UNCHANGED <<term.said, term.pending>> /\ term' \in TermType
    <3>1. CASE apply
      <4>1. term' = [term EXCEPT !.outst = {s \in @ : s > ack}]
        BY <1>1, <1>10, <3>1
      <4>2. {s \in term.outst : s > ack} \in SUBSET Nat
        BY <1>2 DEF TermType
      <4> QED
        BY <1>2, <4>1, <4>2 DEF TermType
    <3>2. CASE ~apply
      BY <1>1, <1>2, <1>10, <3>2
    <3> QED
      BY <3>1, <3>2
  <2>4. GoesOn
    BY <2>1, <2>2, <2>3 DEF GoesOn
  <2> QED
    BY <1>1, <1>5, <1>7, <1>8, <2>4
<1> QED
  BY <1>9, <1>10

\* open.json acknowledges what has been shown.
LEMMA OpenedOut ==
    ASSUME MailType, Opened
    PROVE  /\ SamePage /\ SameSes /\ UNCHANGED <<acking, ackFile, outFiles, term>>
           /\ openFile' = [nonce |-> cl.nonce, ack |-> cl.out]
<1>1. cl' = [cl EXCEPT !.running = TRUE, !.pending = cl.pending \o Queued] /\ cl \in ClType
  BY DEF Opened, Queued, MailType
<1> DEFINE q == cl.pending \o Queued
<1> HIDE DEF q
<1>2. cl' = [cl EXCEPT !.running = TRUE, !.pending = q]
  BY <1>1 DEF q
<1>3. UNCHANGED <<cl.out, cl.nonce, cl.fenced>>
  BY <1>1, <1>2 DEF ClType
<1> QED
  BY <1>3 DEF Opened, SamePage, SameSes, hostVars

\* The new nonce starts with the fence up and nothing shown.
LEMMA RenewSwitchOut ==
    ASSUME MailInv, RenewSwitch
    PROVE  /\ SameAcks /\ SameSes /\ UNCHANGED <<outFiles, term, seen, opened>>
           /\ cl.fenced /\ cl'.nonce = cl.nonce + 1 /\ cl'.out = 0 /\ cl'.fenced = FALSE
<1>1. cl' = [cl EXCEPT !.nonce = cl.nonce + 1, !.out = 0, !.fenced = FALSE] /\ cl \in ClType
  BY DEF RenewSwitch, RenewedOutput, MailInv, MailType
<1>2. cl'.nonce = cl.nonce + 1 /\ cl'.out = 0 /\ cl'.fenced = FALSE
  BY <1>1 DEF ClType
<1>3. cl.fenced
  BY DEF RenewSwitch, MailInv, FenceInv
<1> QED
  BY <1>2, <1>3 DEF RenewSwitch, SameAcks, SameSes, hostVars

\* poll shows the next frame, of the page's own nonce.
LEMMA ShowOut ==
    ASSUME MailType, PollShow
    PROVE  LET s == cl.out + 1 IN
           /\ UNCHANGED <<cl.nonce, cl.fenced, opened, openFile, ackFile, outFiles, term, ses>>
           /\ cl'.out = s /\ acking' = acking \union {s} /\ cl.running
           /\ s \in DOMAIN outFiles /\ outFiles[s].nonce = cl.nonce
           /\ seen' = [session |-> outFiles[s].session, chunk |-> s]
<1>1. cl' = [cl EXCEPT !.out = cl.out + 1] /\ cl \in ClType
  BY DEF PollShow, MailType
<1>2. cl'.out = cl.out + 1 /\ UNCHANGED <<cl.nonce, cl.fenced>>
  BY <1>1 DEF ClType
<1> QED
  BY <1>2 DEF PollShow, OurFrame, Polling, fileVars, hostVars

\* poll removes frames of another nonce and frames already shown.
LEMMA DropOut ==
    ASSUME NEW s, PollDrop(s)
    PROVE  /\ SamePage /\ SameAcks /\ SameSes /\ UNCHANGED term
           /\ DOMAIN outFiles' = DOMAIN outFiles \ {s}
           /\ \A t \in DOMAIN outFiles' : outFiles'[t] = outFiles[t]
           /\ s \in DOMAIN outFiles /\ (outFiles[s].nonce # cl.nonce \/ s <= cl.out)
BY DEF PollDrop, Restrict, OurFrame, pageVars, hostVars, SamePage, SameAcks, SameSes

\* ack.json is written from the acknowledgements in flight, or removed.
LEMMA AckOut ==
    ASSUME WriteAck \/ UnlinkAck
    PROVE  /\ SamePage /\ SameSes /\ UNCHANGED <<openFile, outFiles, term>>
           /\ \/ ackFile' = None /\ UNCHANGED acking
              \/ \E s \in acking : /\ ackFile' = [nonce |-> cl.nonce, ack |-> s]
                                   /\ acking' = acking \ {s}
BY DEF WriteAck, UnlinkAck, hostVars, pageVars, SamePage, SameSes

\* Every step, as the output sees it.
OutSteps ==
    \/ Still \/ (Over /\ (Wiped \/ Remains)) \/ FencedOff \/ Wrote \/ Filled
    \/ PollSession \/ Opened \/ RenewSwitch \/ PollShow
    \/ (\E s \in 1..MaxSaid : PollDrop(s)) \/ WriteAck \/ UnlinkAck

\* Every step is one of these.
LEMMA EveryOut == ASSUME MailInv, OutInv, [Next]_vars PROVE OutSteps
<1>1. MailType /\ ShownType
  BY DEF MailInv, OutInv
<1>2. CASE Open \/ SendData \/ OpenRejected \/ Drain \/ DisposeStart \/ DisposeEnd
  BY <1>1, <1>2, PageStill DEF Drain, OutSteps
<1>3. CASE HostStarts \/ UNCHANGED vars
  BY <1>3, HostStill DEF OutSteps
<1>4. CASE ApplyInput
  BY <1>4, InputStill DEF OutSteps
<1>5. CASE Expire \/ HostStops \/ HostDies
  BY <1>5, EndsOver DEF OutSteps
<1>6. CASE RenewStart
  BY <1>1, <1>6, RenewFences DEF OutSteps
<1>7. CASE PollEnd \/ FlushTimer
  BY <1>7, FlushWrites DEF OutSteps
<1>8. CASE ShellWrites
  BY <1>1, <1>8, ShellFills DEF OutSteps
<1>9. CASE PollSession \/ Opened \/ RenewSwitch \/ Poll \/ UnlinkAck
  BY <1>9 DEF OutSteps, Poll
<1> QED
  BY <1>2, <1>3, <1>4, <1>5, <1>6, <1>7, <1>8, <1>9 DEF Next, Page, Host, HostPoll

-------------------------------------------------------------------------------
(* Every step keeps it.                                                    *)

\* What a written frame is, and that the others stay.
LEMMA WroteNext ==
    ASSUME ShownType, Wrote
    PROVE  /\ term' \in TermType /\ term'.said = term.said + 1 /\ term.said + 1 \in Nat
           /\ DOMAIN outFiles' = DOMAIN outFiles \union {term.said + 1}
           /\ outFiles'[term.said + 1] = [nonce |-> ses.nonce, session |-> ses.id]
           /\ \A s \in DOMAIN outFiles : s # term.said + 1 => outFiles'[s] = outFiles[s]
           /\ ses.nonce # 0
<1>1. term \in TermType /\ term.pending # 0
  BY DEF ShownType, Wrote
<1>2. term' = [said |-> term.said + 1, pending |-> term.pending - 1,
               outst |-> term.outst \union {term.said + 1}]
  BY DEF Wrote, NextChunk
<1>3. term.said + 1 \in Nat /\ term.pending - 1 \in Nat
      /\ term.outst \union {term.said + 1} \in SUBSET Nat
  BY <1>1 DEF TermType
<1>4. term' \in TermType /\ term'.said = term.said + 1
  BY <1>2, <1>3 DEF TermType
<1>5. ses.nonce # 0
  BY <1>1 DEF ShownType
<1> QED
  BY <1>3, <1>4, <1>5 DEF Wrote, OutFrames

\* The shapes are kept.
LEMMA ShownStep == ASSUME MailInv, MailType', OutInv, OutSteps PROVE ShownType'
<1>0. /\ ShownType /\ cl.out \in Nat /\ openFile.ack \in Nat /\ ackFile \in [nonce: Nat, ack: Nat]
      /\ ses.lastAck \in Nat /\ term \in TermType /\ cl.nonce \in Nat /\ cl.nonce > 0
      /\ DOMAIN outFiles \subseteq Nat
      /\ \A s \in DOMAIN outFiles : outFiles[s] \in OutFrame
      /\ ses.nonce \in Nat /\ ses.id \in Nat /\ ses'.nonce \in Nat
      /\ None.ack = 0 /\ None \in [nonce: Nat, ack: Nat] /\ Fresh \in TermType /\ Fresh.pending = 0
      /\ NoSession.lastAck = 0
  BY DEF OutInv, ShownType, MailInv, MailType, SesShape, ClType, FenceInv, None, Fresh, TermType,
         NoSession
<1>1. CASE Still
  BY <1>0, <1>1 DEF Still, SamePage, SameAcks, SameSes, ShownType
<1>2. CASE Over /\ (Wiped \/ Remains)
  BY <1>0, <1>2 DEF Over, Wiped, Remains, SamePage, ShownType
<1>3. CASE FencedOff
  BY <1>0, <1>3 DEF FencedOff, Wiped, SameSes, ShownType
<1>4. CASE Wrote
  <2>1. [nonce |-> ses.nonce, session |-> ses.id] \in OutFrame
    BY <1>0 DEF OutFrame
  <2>2. DOMAIN outFiles' \subseteq Nat /\ \A s \in DOMAIN outFiles' : outFiles'[s] \in OutFrame
    BY <1>0, <1>4, <2>1, WroteNext
  <2>3. SamePage /\ SameAcks /\ SameSes
    BY <1>4 DEF Wrote
  <2> QED
    BY <1>0, <1>4, <2>2, <2>3, WroteNext DEF SamePage, SameAcks, SameSes, ShownType
<1>5. CASE Filled
  <2>1. term' \in TermType
    BY <1>0, <1>5 DEF Filled, TermType
  <2> QED
    BY <1>0, <1>5, <2>1 DEF Filled, SamePage, SameAcks, SameSes, ShownType
<1>6. CASE PollSession
  <2>1. term' \in TermType
    BY <1>0, <1>6, PollSessionOut DEF Opens, GoesOn
  <2>2. DOMAIN outFiles' \subseteq Nat /\ \A s \in DOMAIN outFiles' : outFiles'[s] \in OutFrame
    BY <1>0, <1>6, PollSessionOut DEF Fewer
  <2>3. ses'.nonce # 0
    BY <1>0, <1>6, PollSessionOut DEF Opens, GoesOn
  <2>4. UNCHANGED <<cl, openFile, ackFile, seen>> /\ ses'.lastAck \in Nat
    BY <1>6, PollSessionOut
  <2> QED
    BY <1>0, <2>1, <2>2, <2>3, <2>4 DEF ShownType
<1>7. CASE Opened
  BY <1>0, <1>7, OpenedOut DEF SamePage, SameSes, ShownType, MailInv
<1>8. CASE RenewSwitch
  BY <1>0, <1>8, RenewSwitchOut DEF SameAcks, SameSes, ShownType
<1>9. CASE PollShow
  <2>1. outFiles[cl.out + 1] \in OutFrame /\ cl.out + 1 \in Nat
    BY <1>0, <1>9, ShowOut DEF MailInv
  <2>2. seen' \in [session: Nat, chunk: Nat]
    BY <1>9, <2>1, ShowOut DEF MailInv, OutFrame
  <2>3. UNCHANGED <<openFile, ackFile, outFiles, term, ses>> /\ cl'.out \in Nat
    BY <1>0, <1>9, <2>1, ShowOut DEF MailInv
  <2> QED
    BY <1>0, <2>2, <2>3 DEF ShownType
<1>10. CASE \E s \in 1..MaxSaid : PollDrop(s)
  <2>1. PICK s \in 1..MaxSaid : PollDrop(s)
    BY <1>10
  <2> QED
    BY <1>0, <2>1, DropOut DEF SamePage, SameAcks, SameSes, ShownType
<1>11. CASE WriteAck \/ UnlinkAck
  <2>1. ackFile' \in [nonce: Nat, ack: Nat]
    BY <1>0, <1>11, AckOut DEF OutInv, AckInv
  <2> QED
    BY <1>0, <1>11, <2>1, AckOut DEF SamePage, SameSes, ShownType
<1> QED
  BY <1>1, <1>2, <1>3, <1>4, <1>5, <1>6, <1>7, <1>8, <1>9, <1>10, <1>11 DEF OutSteps

\* No step acknowledges what has not been shown.
LEMMA AckStep == ASSUME MailInv, OutInv, OutSteps PROVE AckInv'
<1>0. /\ AckInv /\ cl.out \in Nat /\ cl.nonce \in Nat /\ cl.nonce > 0 /\ ses.nonce \in Nat
      /\ openFile.ack \in Nat /\ ackFile.ack \in Nat /\ ses.lastAck \in Nat /\ ses.nonce <= cl.nonce
      /\ \A s \in acking : s \in Nat /\ s <= cl.out
      /\ None.ack = 0 /\ NoSession.nonce = 0 /\ (cl.fenced => openFile = None)
      /\ cl.fenced => ~cl.running
  BY DEF OutInv, ShownType, AckInv, MailInv, MailType, SesShape, ClType, FenceInv, SessionInv, None,
         NoSession
<1>1. CASE Still
  BY <1>1, <1>0 DEF Still, SamePage, SameAcks, SameSes, AckInv
<1>2. CASE Over /\ (Wiped \/ Remains)
  BY <1>0, <1>2 DEF Over, Wiped, Remains, SamePage, AckInv
<1>3. CASE FencedOff
  BY <1>0, <1>3 DEF FencedOff, Wiped, SameSes, AckInv
<1>4. CASE Wrote \/ Filled
  BY <1>0, <1>4 DEF Wrote, Filled, SamePage, SameAcks, SameSes, AckInv
<1>5. CASE PollSession
  BY <1>0, <1>5, PollSessionOut DEF AckInv
<1>6. CASE Opened
  BY <1>0, <1>6, OpenedOut DEF SamePage, SameSes, AckInv, MailInv, FenceInv
<1>7. CASE RenewSwitch
  BY <1>0, <1>7, RenewSwitchOut DEF SameAcks, SameSes, AckInv
<1>8. CASE PollShow
  <2>1. /\ cl'.out = cl.out + 1 /\ acking' = acking \union {cl.out + 1} /\ ~cl.fenced
        /\ UNCHANGED <<cl.nonce, cl.fenced, openFile, ackFile, ses>>
    BY <1>0, <1>8, ShowOut DEF MailInv
  <2> QED
    BY <1>0, <2>1 DEF AckInv
<1>9. CASE \E s \in 1..MaxSaid : PollDrop(s)
  BY <1>0, <1>9, DropOut DEF SamePage, SameAcks, SameSes, AckInv
<1>10. CASE WriteAck \/ UnlinkAck
  <2>1. SamePage /\ SameSes /\ UNCHANGED openFile
    BY <1>10, AckOut
  <2>2. CASE ackFile' = None /\ UNCHANGED acking
    BY <1>0, <2>1, <2>2 DEF SamePage, SameSes, AckInv
  <2>3. CASE \E s \in acking : /\ ackFile' = [nonce |-> cl.nonce, ack |-> s]
                               /\ acking' = acking \ {s}
    <3>1. PICK s \in acking : ackFile' = [nonce |-> cl.nonce, ack |-> s] /\ acking' = acking \ {s}
      BY <2>3
    <3>2. ackFile'.ack <= cl.out /\ ~cl.fenced /\ acking' \subseteq acking
      BY <1>0, <3>1 DEF AckInv
    <3> QED
      BY <1>0, <2>1, <3>2 DEF SamePage, SameSes, AckInv
  <2> QED
    BY <1>10, <2>2, <2>3, AckOut
<1> QED
  BY <1>1, <1>2, <1>3, <1>4, <1>5, <1>6, <1>7, <1>8, <1>9, <1>10 DEF OutSteps

\* The sessions there were are as they were.
LEMMA OpensLast ==
    ASSUME MailType, Opens
    PROVE  /\ Len(opened) \in Nat /\ Len(opened') = Len(opened) + 1
           /\ opened'[Len(opened) + 1].nonce = cl.nonce
           /\ \A i \in 1..Len(opened) : opened'[i] = opened[i] /\ i \in 1..Len(opened')
           /\ \A i \in 1..Len(opened') : i \in 1..Len(opened) \/ i = Len(opened) + 1
<1> DEFINE e == [nonce |-> cl.nonce, host |-> host.id, first |-> cl.host]
<1>1. e \in [nonce: Nat, host: Nat, first: Nat] /\ opened' = Append(opened, e)
  BY DEF MailType, ClType, HostType, Opens
<1>2. e.nonce = cl.nonce
  OBVIOUS
<1> HIDE DEF e
<1>3. opened \in Seq([nonce: Nat, host: Nat, first: Nat])
  BY DEF MailType
<1>4. /\ Len(opened') = Len(opened) + 1 /\ Len(opened) \in Nat
      /\ \A i \in 1..Len(opened) : opened'[i] = opened[i]
      /\ opened'[Len(opened) + 1] = e
  BY <1>1, <1>3, AppendProperties
<1> QED
  BY <1>2, <1>4

\* Nonces are numbers.
LEMMA OpenedNonces == MailType => \A i \in 1..Len(opened) : opened[i].nonce \in Nat
<1> DEFINE R == [nonce: Nat, host: Nat, first: Nat]
<1> HIDE DEF R
<1> SUFFICES ASSUME MailType PROVE \A i \in 1..Len(opened) : opened[i].nonce \in Nat
  OBVIOUS
<1>1. opened \in Seq(R)
  BY DEF R, MailType
<1>2. \A i \in 1..Len(opened) : opened[i] \in R
  BY <1>1
<1>3. \A r \in R : r.nonce \in Nat
  BY DEF R
<1> QED
  BY <1>2, <1>3

\* Frames stay those of the session that wrote them.
LEMMA PlaceStep == ASSUME MailInv, OutInv, OutSteps PROVE PlaceInv'
<1>0. /\ PlaceInv /\ cl.nonce \in Nat /\ Len(opened) \in Nat
      /\ \A i \in 1..Len(opened) : opened[i].nonce \in Nat
      /\ MailType
  BY OpenedNonces DEF OutInv, MailInv, MailType, ClType
<1>1. CASE SamePage /\ (UNCHANGED outFiles \/ Wiped)
  BY <1>0, <1>1 DEF SamePage, Wiped, PlaceInv
<1>2. CASE FencedOff
  BY <1>0, <1>2 DEF FencedOff, Wiped, PlaceInv
<1>3. CASE Wrote
  <2>1. ses.nonce # 0 /\ SamePage
    BY <1>3, WroteNext DEF OutInv, Wrote
  <2>2. ses.id \in 1..Len(opened) /\ opened[ses.id].nonce = ses.nonce
    BY <2>1 DEF MailInv, SessionInv
  <2>3. \A s \in DOMAIN outFiles' : /\ outFiles'[s].session \in 1..Len(opened)
                                    /\ opened[outFiles'[s].session].nonce = outFiles'[s].nonce
    BY <1>0, <1>3, <2>2, WroteNext DEF OutInv, PlaceInv
  <2> QED
    BY <1>0, <2>1, <2>3 DEF SamePage, PlaceInv
<1>4. CASE PollSession
  <2>1. Fewer /\ UNCHANGED cl
    BY <1>4, PollSessionOut
  <2>2. CASE UNCHANGED opened
    BY <1>0, <2>1, <2>2 DEF Fewer, PlaceInv
  <2>3. CASE Opens
    <3>1. \A s \in DOMAIN outFiles' : /\ outFiles'[s].session \in 1..Len(opened')
                                      /\ opened'[outFiles'[s].session].nonce = outFiles'[s].nonce
      BY <1>0, <2>1, <2>3, OpensLast DEF Fewer, PlaceInv
    <3>2. \A i \in 1..Len(opened') : opened'[i].nonce <= cl.nonce
      BY <1>0, <2>3, OpensLast DEF PlaceInv
    <3>3. \A i, j \in 1..Len(opened') : i <= j => opened'[i].nonce <= opened'[j].nonce
      BY <1>0, <2>3, OpensLast DEF PlaceInv
    <3> QED
      BY <2>1, <3>1, <3>2, <3>3 DEF PlaceInv
  <2> QED
    BY <1>4, <2>2, <2>3, PollSessionOut DEF GoesOn
<1>5. CASE RenewSwitch
  BY <1>0, <1>5, RenewSwitchOut DEF PlaceInv
<1>6. CASE PollShow
  BY <1>0, <1>6, ShowOut DEF PlaceInv
<1>7. CASE \E s \in 1..MaxSaid : PollDrop(s)
  BY <1>0, <1>7, DropOut DEF SamePage, PlaceInv
<1>8. CASE Still \/ (Over /\ (Wiped \/ Remains))
  BY <1>1, <1>8 DEF Still, Over, Remains
<1>9. CASE Opened \/ WriteAck \/ UnlinkAck \/ Filled
  BY <1>0, <1>1, <1>9, OpenedOut, AckOut DEF Filled
<1> QED
  BY <1>1, <1>2, <1>3, <1>4, <1>5, <1>6, <1>7, <1>8, <1>9 DEF OutSteps

\* The page's count stays that of what the user has been shown.
LEMMA SeenStep == ASSUME MailInv, OutInv, OutSteps PROVE SeenInv'
<1>0. /\ SeenInv /\ PlaceInv /\ MailType /\ cl.nonce \in Nat /\ cl.out \in Nat
      /\ Len(opened) \in Nat /\ seen \in [session: Nat, chunk: Nat]
  BY DEF OutInv, ShownType, MailInv, MailType, ClType
<1>1. CASE UNCHANGED <<cl.out, cl.nonce, seen, opened>>
  BY <1>0, <1>1 DEF SeenInv
<1>2. CASE PollSession
  <2>1. UNCHANGED <<cl, seen>>
    BY <1>2, PollSessionOut
  <2>2. CASE Opens
    BY <1>0, <2>1, <2>2, OpensLast DEF SeenInv
  <2>3. CASE UNCHANGED opened
    BY <1>0, <2>1, <2>3 DEF SeenInv
  <2> QED
    BY <1>2, <2>2, <2>3, PollSessionOut DEF GoesOn
<1>3. CASE RenewSwitch
  <2>1. seen.session # 0 => opened[seen.session].nonce <= cl.nonce
    BY <1>0 DEF SeenInv, PlaceInv
  <2>2. seen.session # 0 => opened[seen.session].nonce \in Nat
    <3>1. \A i \in 1..Len(opened) : opened[i].nonce \in Nat
      BY <1>0, OpenedNonces
    <3> QED
      BY <1>0, <3>1 DEF SeenInv
  <2>3. UNCHANGED <<seen, opened>> /\ cl'.nonce = cl.nonce + 1 /\ cl'.out = 0
    BY <1>3, RenewSwitchOut
  <2>4. seen.session # 0 => opened[seen.session].nonce < cl.nonce + 1
    BY <1>0, <2>1, <2>2
  <2> QED
    BY <1>0, <2>3, <2>4 DEF SeenInv
<1>4. CASE PollShow
  <2> DEFINE s == cl.out + 1
  <2>1. /\ UNCHANGED <<cl.nonce, opened>> /\ cl'.out = s
        /\ s \in DOMAIN outFiles /\ outFiles[s].nonce = cl.nonce
        /\ seen' = [session |-> outFiles[s].session, chunk |-> s]
    BY <1>0, <1>4, ShowOut
  <2> HIDE DEF s
  <2>2. outFiles[s].session \in 1..Len(opened) /\ opened[outFiles[s].session].nonce = cl.nonce
    BY <1>0, <2>1 DEF PlaceInv
  <2>3. seen'.session = outFiles[s].session /\ seen'.chunk = s
    BY <2>1
  <2> QED
    BY <1>0, <2>1, <2>2, <2>3 DEF SeenInv
<1> QED
  BY <1>0, <1>1, <1>2, <1>3, <1>4, OpenedOut, AckOut, DropOut
     DEF OutSteps, Still, Over, FencedOff, Wrote, Filled, SamePage

\* No step loses a chunk that has not been shown.
LEMMA KeptStep == ASSUME MailInv, OutInv, OutSteps PROVE KeptInv'
<1>0. /\ KeptInv /\ AckInv /\ PlaceInv /\ MailType /\ cl.nonce \in Nat /\ cl.nonce > 0 /\ cl.out \in Nat
      /\ ses.nonce \in Nat /\ ses.nonce <= cl.nonce /\ term.said \in Nat
      /\ DOMAIN outFiles \subseteq Nat
  BY DEF OutInv, ShownType, TermType, MailInv, MailType, ClType, SesShape, FenceInv, SessionInv
<1>1. CASE /\ UNCHANGED <<cl.out, cl.nonce, cl.fenced, opened, ses.id, ses.nonce, term.said, outFiles>>
  <2>1. Only(ses.id)' = Only(ses.id) /\ Linked' = Linked
    BY <1>1 DEF Only, Linked
  <2> QED
    BY <1>1, <2>1, <1>0 DEF KeptInv
<1>2. CASE ~Linked'
  BY <1>2 DEF KeptInv
<1>3. CASE Over
  <2>1. ses'.nonce = 0 /\ UNCHANGED cl.nonce
    BY <1>3 DEF Over, NoSession, SamePage
  <2> QED
    BY <1>0, <1>2, <2>1 DEF Linked
<1>4. CASE FencedOff
  BY <1>2, <1>4 DEF FencedOff, Linked
<1>5. CASE RenewSwitch
  BY <1>0, <1>2, <1>5, RenewSwitchOut DEF Linked, SameSes
<1>6. CASE Wrote
  <2>1. UNCHANGED <<cl.out, cl.nonce, cl.fenced, opened, ses.id, ses.nonce>>
    BY <1>6 DEF Wrote, SamePage, SameSes
  <2>2. Only(ses.id)' = Only(ses.id) /\ Linked' = Linked
    BY <2>1 DEF Only, Linked
  <2>3. /\ term'.said = term.said + 1
        /\ DOMAIN outFiles' = DOMAIN outFiles \union {term.said + 1}
        /\ outFiles'[term.said + 1] = [nonce |-> ses.nonce, session |-> ses.id]
        /\ \A s \in DOMAIN outFiles : s # term.said + 1 => outFiles'[s] = outFiles[s]
    BY <1>6, WroteNext DEF OutInv
  <2> SUFFICES ASSUME Linked', Only(ses.id)', NEW s \in 1..term'.said
               PROVE  s <= cl'.out \/ (s \in DOMAIN outFiles' /\ outFiles'[s].session = ses'.id)
    BY DEF KeptInv
  <2>4. CASE s = term.said + 1
    BY <2>1, <2>3, <2>4
  <2>5. CASE s # term.said + 1
    <3>1. s \in 1..term.said
      BY <1>0, <2>3, <2>5
    <3>2. s <= cl.out \/ (s \in DOMAIN outFiles /\ outFiles[s].session = ses.id)
      BY <1>0, <2>2, <3>1 DEF KeptInv
    <3> QED
      BY <2>1, <2>3, <2>5, <3>2
  <2> QED
    BY <2>4, <2>5
<1>7. CASE PollSession
  <2>1. /\ UNCHANGED cl /\ Fewer /\ ses'.lastAck \in Nat
        /\ ses'.nonce = cl.nonce => ses'.lastAck <= cl.out
    BY <1>7, PollSessionOut
  <2>2. CASE Opens
    <3>1. term'.said = 0
      BY <2>2 DEF Opens, Fresh
    <3> QED
      BY <3>1 DEF KeptInv
  <2>3. CASE GoesOn
    <3>1. UNCHANGED <<ses.id, ses.nonce, opened, term.said>>
      BY <2>3 DEF GoesOn
    <3>2. Only(ses.id)' = Only(ses.id) /\ Linked' = Linked
      BY <2>1, <3>1 DEF Only, Linked
    <3> SUFFICES ASSUME Linked', Only(ses.id)', NEW s \in 1..term'.said
                 PROVE  s <= cl'.out \/ (s \in DOMAIN outFiles' /\ outFiles'[s].session = ses'.id)
      BY DEF KeptInv
    <3>3. s <= cl.out \/ (s \in DOMAIN outFiles /\ outFiles[s].session = ses.id)
      BY <3>1, <3>2, <1>0 DEF KeptInv
    <3>4. ses'.lastAck <= cl.out
      BY <2>1 DEF Linked
    <3>5. s \in DOMAIN outFiles => s \in DOMAIN outFiles' \/ s <= cl.out
      BY <1>0, <2>1, <3>4 DEF Fewer
    <3> QED
      BY <2>1, <3>1, <3>3, <3>5 DEF Fewer
  <2> QED
    BY <1>7, <2>2, <2>3, PollSessionOut
<1>8. CASE PollShow
  <2>1. /\ UNCHANGED <<cl.nonce, cl.fenced, opened, outFiles, term, ses>> /\ cl'.out = cl.out + 1
    BY <1>0, <1>8, ShowOut
  <2>2. Only(ses.id)' = Only(ses.id) /\ Linked' = Linked
    BY <2>1 DEF Only, Linked
  <2>3. \A s \in 1..term.said : s <= cl.out => s <= cl'.out
    BY <1>0, <2>1
  <2> QED
    BY <1>0, <2>1, <2>2, <2>3 DEF KeptInv
<1>9. CASE \E s \in 1..MaxSaid : PollDrop(s)
  <2>1. PICK d \in 1..MaxSaid : PollDrop(d)
    BY <1>9
  <2>2. /\ UNCHANGED <<cl.out, cl.nonce, cl.fenced, opened, ses.id, ses.nonce, term>>
        /\ DOMAIN outFiles' = DOMAIN outFiles \ {d}
        /\ \A t \in DOMAIN outFiles' : outFiles'[t] = outFiles[t]
        /\ d \in DOMAIN outFiles /\ (outFiles[d].nonce # cl.nonce \/ d <= cl.out)
    BY <2>1, DropOut DEF SamePage, SameSes
  <2>3. Only(ses.id)' = Only(ses.id) /\ Linked' = Linked
    BY <2>2 DEF Only, Linked
  <2> SUFFICES ASSUME Linked', Only(ses.id)', NEW s \in 1..term'.said
               PROVE  s <= cl'.out \/ (s \in DOMAIN outFiles' /\ outFiles'[s].session = ses'.id)
    BY DEF KeptInv
  <2>4. s <= cl.out \/ (s \in DOMAIN outFiles /\ outFiles[s].session = ses.id)
    BY <1>0, <2>2, <2>3 DEF KeptInv
  <2>5. ses.nonce = cl.nonce /\ opened[ses.id].nonce = cl.nonce
    BY <1>0, <2>3 DEF Linked, MailInv, SessionInv
  <2>6. s = d /\ outFiles[s].session = ses.id => d <= cl.out
    BY <1>0, <2>2, <2>5 DEF PlaceInv
  <2> QED
    BY <2>2, <2>4, <2>6
<1>10. CASE Still \/ Filled \/ Opened \/ WriteAck \/ UnlinkAck
  <2>1. CASE Filled
    <3>1. UNCHANGED term.said
      BY <2>1 DEF Filled, OutInv, ShownType, TermType
    <3> QED
      BY <1>1, <2>1, <3>1 DEF Filled, SamePage, SameSes
  <2>2. CASE ~Filled
    BY <1>0, <1>1, <1>10, <2>2, OpenedOut, AckOut DEF Still, SamePage, SameSes
  <2> QED
    BY <2>1, <2>2
<1> QED
  BY <1>3, <1>4, <1>5, <1>6, <1>7, <1>8, <1>9, <1>10 DEF OutSteps

OutputInv == MailInv /\ OutInv

\* The invariant of the output holds at the start.
LEMMA OutputInit == Init => OutputInv
BY MailTypeInit, FenceInit, FrameInit, SessionInit, OutInit DEF OutputInv, MailInv

\* It is inductive, on top of the invariant of the input.
LEMMA OutputStep == OutputInv /\ [Next]_vars => OutputInv'
<1> SUFFICES ASSUME OutputInv, [Next]_vars PROVE OutputInv'
  OBVIOUS
<1>1. MailInv /\ OutInv /\ MailType /\ FenceInv /\ FrameInv /\ SessionInv
  BY DEF OutputInv, MailInv
<1>2. MailType' /\ Actions
  BY <1>1, Steps
<1>3. MailInv'
  BY <1>1, <1>2, FenceStep, FrameStep, SessionStep DEF MailInv
<1>4. OutSteps
  BY <1>1, EveryOut
<1>5. OutInv'
  BY <1>1, <1>2, <1>4, ShownStep, AckStep, PlaceStep, SeenStep, KeptStep DEF OutInv
<1> QED
  BY <1>3, <1>5 DEF OutputInv

\* What the page has counted of its only session, the user has been shown.
LEMMA CountedIsShown ==
    ASSUME OutputInv, Linked, Only(ses.id), NEW s \in Nat \ {0}, s <= cl.out
    PROVE  Shown(ses.id, s)
<1>1. /\ SeenInv /\ cl.out \in Nat /\ cl.nonce \in Nat /\ ses.nonce = cl.nonce /\ cl.nonce > 0
      /\ ses.id \in 1..Len(opened) /\ opened[ses.id].nonce = cl.nonce
      /\ seen \in [session: Nat, chunk: Nat] /\ opened \in Seq([nonce: Nat, host: Nat, first: Nat])
  BY DEF OutputInv, OutInv, ShownType, MailInv, MailType, ClType, FenceInv, SessionInv, Linked
<1>2. cl.out # 0
  BY <1>1
<1>3. seen.session \in 1..Len(opened) /\ opened[seen.session].nonce = cl.nonce /\ cl.out = seen.chunk
  BY <1>1, <1>2 DEF SeenInv
<1>4. DOMAIN opened = 1..Len(opened)
  BY <1>1
<1>5. seen.session = ses.id
  BY <1>1, <1>3, <1>4 DEF Only
<1> QED
  BY <1>3, <1>5 DEF Shown

\* Until the user has seen it, output of the page's session is on the disk:
\* no acknowledgement that reaches the host, from open.json or ack.json, in
\* whatever order, is of a frame that poll has not shown, and poll removes
\* none but those of another identity.
THEOREM OutputIsKept == Spec => []OutputKeptUntilSeen
<1>1. OutputInv => OutputKeptUntilSeen
  <2> SUFFICES ASSUME OutputInv, Serving, Linked, Only(ses.id), NEW s \in 1..term.said
               PROVE  Shown(ses.id, s) \/ (s \in DOMAIN outFiles /\ outFiles[s].session = ses.id)
    BY DEF OutputKeptUntilSeen, Linked
  <2>1. KeptInv /\ term.said \in Nat
    BY DEF OutputInv, OutInv, ShownType, TermType
  <2>2. s \in Nat \ {0}
    BY <2>1
  <2>3. s <= cl.out \/ (s \in DOMAIN outFiles /\ outFiles[s].session = ses.id)
    BY <2>1 DEF KeptInv
  <2> QED
    BY <2>2, <2>3, CountedIsShown
<1> QED
  BY <1>1, OutputInit, OutputStep, PTL DEF Spec

\* What the user sees of a session is what its shell wrote, from the first
\* chunk on, in order and without repetition, and nothing of it once it is
\* replaced: poll shows the next frame of its own nonce only, and counts from
\* the start under a new one.
THEOREM OutputIsInOrder == Spec => OutputShownInOrder
<1>1. ASSUME OutputInv, [Next]_vars, seen' # seen, Only(seen'.session)
      PROVE  /\ seen'.session >= seen.session
             /\ seen'.chunk = IF seen'.session = seen.session THEN seen.chunk + 1 ELSE 1
  <2>1. /\ MailInv /\ OutInv /\ MailType /\ SeenInv /\ PlaceInv /\ cl.out \in Nat
        /\ seen \in [session: Nat, chunk: Nat] /\ opened \in Seq([nonce: Nat, host: Nat, first: Nat])
    BY <1>1 DEF OutputInv, OutInv, ShownType, MailInv, MailType
  <2>2. PollShow
    <3>1. OutSteps
      BY <1>1, <2>1, EveryOut
    <3> QED
      BY <1>1, <2>1, <3>1, OpenedOut, AckOut, DropOut, PollSessionOut, RenewSwitchOut
         DEF OutSteps, Still, Over, FencedOff, Wrote, Filled, SamePage
  <2> DEFINE s == cl.out + 1
             id == outFiles[s].session
  <2>3. /\ s \in DOMAIN outFiles /\ outFiles[s].nonce = cl.nonce
        /\ seen' = [session |-> id, chunk |-> s]
    BY <2>1, <2>2, ShowOut
  <2>4. seen'.session = id /\ seen'.chunk = cl.out + 1
    BY <2>3
  <2>5. id \in 1..Len(opened) /\ opened[id].nonce = cl.nonce
    BY <2>1, <2>3 DEF PlaceInv
  <2> HIDE DEF id, s
  <2>6. DOMAIN opened = 1..Len(opened) /\ Len(opened) \in Nat
    BY <2>1
  <2>7. Only(id)
    BY <1>1, <2>4
  <2>8. CASE seen.session = 0
    BY <2>1, <2>4, <2>5, <2>6, <2>8 DEF SeenInv
  <2>9. CASE seen.session # 0
    <3>1. seen.session \in 1..Len(opened)
      BY <2>1, <2>9 DEF SeenInv
    <3>2. CASE opened[seen.session].nonce = cl.nonce /\ cl.out = seen.chunk
      <4>1. seen.session = id
        BY <2>5, <2>6, <2>7, <3>1, <3>2 DEF Only
      <4> QED
        BY <2>4, <2>5, <2>6, <3>2, <4>1
    <3>3. CASE opened[seen.session].nonce < cl.nonce /\ cl.out = 0
      <4>1. cl.nonce \in Nat /\ opened[seen.session].nonce \in Nat
        BY <2>1, <3>1, OpenedNonces DEF MailType, ClType
      <4>2. ~(id <= seen.session)
        BY <2>1, <2>5, <3>1, <3>3, <4>1 DEF PlaceInv
      <4> QED
        BY <2>4, <2>5, <2>6, <3>1, <3>3, <4>2
    <3> QED
      BY <2>1, <2>9, <3>2, <3>3 DEF SeenInv
  <2> QED
    BY <2>8, <2>9
<1>2. OutputInv /\ [Next]_vars
      => [seen' # seen /\ Only(seen'.session) =>
            /\ seen'.session >= seen.session
            /\ seen'.chunk = IF seen'.session = seen.session THEN seen.chunk + 1 ELSE 1]_vars
  BY <1>1
<1> QED
  BY <1>2, OutputInit, OutputStep, PTL DEF Spec, OutputShownInOrder
===============================================================================
