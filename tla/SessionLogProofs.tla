--------------------------- MODULE SessionLogProofs ---------------------------
(***************************************************************************)
(* Theorems about the append-only log of a session, for every capacity of  *)
(* a segment, every length of a batch and every number of compactions,     *)
(* loads, failing writes and reloads.  First what FlattenSeq and FoldLeft  *)
(* compute, by induction; then the plan of an append; then four            *)
(* invariants: of the stored log (what was acknowledged stays at its       *)
(* beginning), of a reserved preparation, of a session without a failed    *)
(* write, and of a listing that reads beside appends and compactions.      *)
(***************************************************************************)
EXTENDS SessionLog, SequenceTheorems, WellFoundedInduction, TLAPS

-------------------------------------------------------------------------------
(* Induction, for a set of numbers: every set of numbers that is not empty *)
(* has a least one.                                                        *)

\* A set of numbers that has 0 and with every number the next one has them all.
LEMMA SetInduction ==
    ASSUME NEW T, T \subseteq Nat, 0 \in T, \A n \in T : n + 1 \in T
    PROVE  T = Nat
<1> DEFINE S == Nat \ T
           R == OpToRel(<, Nat)
<1> SUFFICES ASSUME S # {} PROVE FALSE
  OBVIOUS
<1>1. IsWellFoundedOn(R, Nat)
  BY NatLessThanWellFounded
<1>2. S \subseteq Nat
  OBVIOUS
<1>3. PICK x \in S : \A y \in S : <<y, x>> \notin R
  <2> HIDE DEF S, R
  <2> QED
    BY <1>1, <1>2, WFMin
<1>4. \A y \in S : ~(y < x)
  <2> SUFFICES ASSUME NEW y \in S, y < x PROVE <<y, x>> \in R
    BY <1>3
  <2> QED
    BY DEF OpToRel
<1>5. x \in Nat /\ x # 0
  OBVIOUS
<1>6. x - 1 \in T
  BY <1>4, <1>5
<1> QED
  BY <1>5, <1>6

-------------------------------------------------------------------------------
(* FlattenSeq.  It is defined by a recursive function; that there is one   *)
(* is shown by induction, and then that it does what its equation says.    *)

Joined(t, n) == CHOOSE f : f = [i \in 1..n |-> IF i = 1 THEN t[i] ELSE f[i-1] \o t[i]]

\* There is such a function for every length.
LEMMA JoinedExists ==
    ASSUME NEW t, NEW n \in Nat
    PROVE  \E f : f = [i \in 1..n |-> IF i = 1 THEN t[i] ELSE f[i-1] \o t[i]]
<1> DEFINE Has(m) == \E f : f = [i \in 1..m |-> IF i = 1 THEN t[i] ELSE f[i-1] \o t[i]]
           T == {m \in Nat : Has(m)}
<1>1. 0 \in T
  <2> DEFINE f == [i \in 1..0 |-> t[i]]
  <2>1. f = [i \in 1..0 |-> IF i = 1 THEN t[i] ELSE f[i-1] \o t[i]]
    OBVIOUS
  <2> QED
    BY <2>1
<1>2. ASSUME NEW m \in T PROVE m + 1 \in T
  <2>1. PICK f : f = [i \in 1..m |-> IF i = 1 THEN t[i] ELSE f[i-1] \o t[i]]
    OBVIOUS
  <2> DEFINE g == [i \in 1..(m+1) |-> IF i = m + 1 THEN (IF i = 1 THEN t[i] ELSE f[i-1] \o t[i]) ELSE f[i]]
  <2>2. ASSUME NEW i \in 1..(m+1) PROVE g[i] = IF i = 1 THEN t[i] ELSE g[i-1] \o t[i]
    <3>1. CASE i = 1
      <4>1. CASE m = 0
        BY <3>1, <4>1
      <4>2. CASE m # 0
        <5>1. 1 \in 1..m /\ g[1] = f[1]
          BY <4>2
        <5>2. f[1] = t[1]
          BY <2>1, <5>1
        <5> HIDE DEF g
        <5> QED
          BY <3>1, <5>1, <5>2
      <4> QED
        BY <4>1, <4>2
    <3>2. CASE i # 1
      <4>1. i - 1 \in 1..(m+1) /\ i - 1 # m + 1
        BY <3>2
      <4>2. g[i-1] = f[i-1]
        BY <4>1
      <4>3. CASE i = m + 1
        BY <3>2, <4>2, <4>3
      <4>4. CASE i # m + 1
        <5>1. i \in 1..m /\ g[i] = f[i]
          BY <4>4
        <5>2. f[i] = f[i-1] \o t[i]
          BY <2>1, <3>2, <5>1
        <5> HIDE DEF g
        <5> QED
          BY <3>2, <4>2, <5>1, <5>2
      <4> QED
        BY <4>3, <4>4
    <3> QED
      BY <3>1, <3>2
  <2>3. g = [i \in 1..(m+1) |-> IF i = 1 THEN t[i] ELSE g[i-1] \o t[i]]
    <3>1. g = [i \in 1..(m+1) |-> g[i]]
      OBVIOUS
    <3> HIDE DEF g
    <3> QED
      BY <2>2, <3>1
  <2>4. Has(m + 1)
    <3> HIDE DEF g
    <3> QED
      BY <2>3
  <2>5. m + 1 \in Nat
    OBVIOUS
  <2> HIDE DEF Has
  <2> QED
    BY <2>4, <2>5
<1> HIDE DEF Has
<1>3. T = Nat
  <2>1. T \subseteq Nat
    OBVIOUS
  <2> HIDE DEF T
  <2> QED
    BY <1>1, <1>2, <2>1, SetInduction
<1>4. Has(n)
  BY <1>3
<1> QED
  BY <1>4 DEF Has

\* Its equation.
LEMMA JoinedIs ==
    ASSUME NEW t, NEW n \in Nat, NEW i \in 1..n
    PROVE  Joined(t, n)[i] = IF i = 1 THEN t[i] ELSE Joined(t, n)[i-1] \o t[i]
<1> DEFINE f == Joined(t, n)
<1>1. f = [j \in 1..n |-> IF j = 1 THEN t[j] ELSE f[j-1] \o t[j]]
  BY JoinedExists DEF Joined
<1> HIDE DEF f
<1>2. f[i] = IF i = 1 THEN t[i] ELSE f[i-1] \o t[i]
  BY <1>1
<1> QED
  BY <1>2 DEF f

\* What is joined first does not depend on what follows.
LEMMA JoinedSame ==
    ASSUME NEW t, NEW u, NEW n \in Nat, NEW m \in Nat,
           \A i \in 1..n : i <= m => t[i] = u[i],
           NEW a \in 1..n, a <= m
    PROVE  Joined(t, n)[a] = Joined(u, m)[a]
<1> DEFINE T == {k \in Nat : k \in 1..n /\ k <= m => Joined(t, n)[k] = Joined(u, m)[k]}
<1>1. 0 \in T
  OBVIOUS
<1>2. ASSUME NEW k \in T PROVE k + 1 \in T
  <2> SUFFICES ASSUME k + 1 \in 1..n, k + 1 <= m PROVE Joined(t, n)[k+1] = Joined(u, m)[k+1]
    OBVIOUS
  <2>1. k + 1 \in 1..m /\ t[k+1] = u[k+1] /\ (k+1) - 1 = k
    OBVIOUS
  <2>2. /\ Joined(t, n)[k+1] = IF k + 1 = 1 THEN t[k+1] ELSE Joined(t, n)[k] \o t[k+1]
        /\ Joined(u, m)[k+1] = IF k + 1 = 1 THEN u[k+1] ELSE Joined(u, m)[k] \o u[k+1]
    BY <2>1, JoinedIs
  <2>3. k + 1 = 1 \/ Joined(t, n)[k] = Joined(u, m)[k]
    BY <2>1
  <2> QED
    BY <2>1, <2>2, <2>3
<1>3. T = Nat
  <2>1. T \subseteq Nat
    OBVIOUS
  <2> HIDE DEF T
  <2> QED
    BY <1>1, <1>2, <2>1, SetInduction
<1> QED
  BY <1>3

\* FlattenSeq joins one after the other.
LEMMA FlattenIs ==
    ASSUME NEW t
    PROVE  FlattenSeq(t) = IF Len(t) = 0 THEN t ELSE Joined(t, Len(t))[Len(t)]
BY DEF FlattenSeq, Joined

\* Of no texts, FlattenSeq makes nothing.
LEMMA FlattenEmpty == FlattenSeq(<<>>) = <<>>
BY FlattenIs

\* One text more is appended to what FlattenSeq makes of the others.
LEMMA FlattenAppend ==
    ASSUME NEW S, NEW t \in Seq(Seq(S)), NEW x \in Seq(S)
    PROVE  FlattenSeq(Append(t, x)) = FlattenSeq(t) \o x
<1> DEFINE u == Append(t, x)
           n == Len(t)
           m == n + 1
<1>1. /\ n \in Nat /\ m \in Nat /\ Len(u) = m /\ m # 0 /\ m - 1 = n /\ m \in 1..m
      /\ u[m] = x /\ \A i \in 1..m : i <= n => u[i] = t[i]
  OBVIOUS
<1>2. n # 0 => n \in 1..m /\ m # 1
  BY <1>1
<1>3. Len(t) = n
  OBVIOUS
<1> HIDE DEF u, n, m
<1>4. FlattenSeq(u) = Joined(u, m)[m]
  BY <1>1, FlattenIs
<1>5. Joined(u, m)[m] = IF m = 1 THEN u[m] ELSE Joined(u, m)[m-1] \o u[m]
  BY <1>1, JoinedIs
<1>6. CASE n = 0
  <2>1. m = 1
    BY <1>1, <1>6
  <2>2. t = <<>>
    BY <1>3, <1>6
  <2>3. FlattenSeq(t) = <<>>
    BY <2>2, FlattenEmpty
  <2> QED
    BY <1>1, <1>4, <1>5, <2>1, <2>3 DEF u
<1>7. CASE n # 0
  <2>1. n \in 1..m /\ n <= n
    BY <1>1, <1>2, <1>7
  <2>2. Joined(u, m)[n] = Joined(t, n)[n]
    <3>1. n \in Nat /\ m \in Nat
      BY <1>1
    <3>2. \A i \in 1..m : i <= n => u[i] = t[i]
      BY <1>1
    <3> QED
      BY ONLY <3>1, <3>2, <2>1, JoinedSame, ZenonT(60)
  <2>3. FlattenSeq(t) = Joined(t, n)[n]
    BY <1>3, <1>7, FlattenIs
  <2> QED
    BY <1>1, <1>2, <1>4, <1>5, <1>7, <2>2, <2>3 DEF u
<1> QED
  BY <1>6, <1>7

-------------------------------------------------------------------------------
(* Sequences, by induction from the end, and what follows of FlattenSeq.    *)

\* The last of a sequence, and the rest.
LEMMA FrontLast ==
    ASSUME NEW S, NEW t \in Seq(S), t # <<>>
    PROVE  /\ Front(t) \in Seq(S) /\ Last(t) \in S /\ t = Append(Front(t), Last(t))
           /\ Len(Front(t)) = Len(t) - 1 /\ Len(t) \in Nat \ {0}
           /\ \A i \in 1..(Len(t) - 1) : Front(t)[i] = t[i]
<1> DEFINE n == Len(t)
           f == Front(t)
<1>1. n \in Nat \ {0} /\ \A i \in 1..n : t[i] \in S
  OBVIOUS
<1>2. f \in Seq(S) /\ Len(f) = n - 1 /\ \A i \in 1..(n-1) : f[i] = t[i]
  <2>1. n - 1 \in Int /\ 1 \in Int /\ \A i \in 1..(n-1) : t[i] \in S
    BY <1>1
  <2>2. SubSeq(t, 1, n-1) \in Seq(S) /\ Len(SubSeq(t, 1, n-1)) = IF 1 <= n-1 THEN (n-1)-1+1 ELSE 0
    BY <2>1, SubSeqProperties
  <2>3. \A i \in 1..((n-1)-1+1) : SubSeq(t, 1, n-1)[i] = t[1+i-1]
    BY <2>1, SubSeqProperties
  <2>5. f = SubSeq(t, 1, n-1)
    BY DEF Front
  <2> HIDE DEF f, n
  <2>4. (n-1)-1+1 = n - 1 /\ (n - 1 < 1 => n - 1 = 0) /\ \A i \in 1..(n-1) : 1+i-1 = i
    BY <1>1
  <2> QED
    BY <1>1, <2>2, <2>3, <2>4, <2>5
<1>3. Last(t) = t[n] /\ t[n] \in S
  BY <1>1 DEF Last
<1>4. t = Append(f, t[n])
  <2> HIDE DEF f, n
  <2>1. Append(f, t[n]) \in Seq(S) /\ Len(Append(f, t[n])) = n
    BY <1>1, <1>2, <1>3
  <2>2. \A i \in 1..n : t[i] = Append(f, t[n])[i]
    BY <1>1, <1>2, <1>3
  <2>3. Len(t) = n
    BY DEF n
  <2> QED
    BY <2>1, <2>2, <2>3, SeqEqual
<1> QED
  BY <1>1, <1>2, <1>3, <1>4

\* A set of sequences that has the empty one and is closed under Append has them all.
LEMMA SeqInduction ==
    ASSUME NEW S, NEW T, T \subseteq Seq(S), <<>> \in T,
           \A t \in T, x \in S : Append(t, x) \in T
    PROVE  T = Seq(S)
<1> DEFINE N == {n \in Nat : \A t \in Seq(S) : Len(t) = n => t \in T}
<1>1. 0 \in N
  OBVIOUS
<1>2. ASSUME NEW n \in N PROVE n + 1 \in N
  <2> SUFFICES ASSUME NEW t \in Seq(S), Len(t) = n + 1 PROVE t \in T
    OBVIOUS
  <2>1. n \in Nat /\ t # <<>>
    OBVIOUS
  <2>2. Front(t) \in Seq(S) /\ Last(t) \in S /\ t = Append(Front(t), Last(t)) /\ Len(Front(t)) = n
    <3>1. Front(t) \in Seq(S) /\ Last(t) \in S /\ t = Append(Front(t), Last(t)) /\ Len(Front(t)) = Len(t) - 1
      BY <2>1, FrontLast, ZenonT(30)
    <3>2. Len(t) - 1 = n
      <4> HIDE DEF N
      <4> QED
        BY <2>1
    <3> QED
      BY ONLY <3>1, <3>2
  <2>3. Front(t) \in T
    BY <2>1, <2>2
  <2> QED
    BY <2>2, <2>3
<1>3. N = Nat
  <2>1. N \subseteq Nat
    OBVIOUS
  <2> HIDE DEF N
  <2> QED
    BY <1>1, <1>2, <2>1, SetInduction
<1>4. ASSUME NEW t \in Seq(S) PROVE t \in T
  <2>1. Len(t) \in Nat
    OBVIOUS
  <2> QED
    BY <1>3, <2>1
<1> QED
  BY <1>4

\* FlattenSeq makes a sequence of sequences one sequence of the same elements.
LEMMA FlattenType ==
    ASSUME NEW S, NEW t \in Seq(Seq(S))
    PROVE  FlattenSeq(t) \in Seq(S)
<1> DEFINE R == Seq(S)
           T == {u \in Seq(R) : FlattenSeq(u) \in R}
<1>0. <<>> \in R
  OBVIOUS
<1>1. <<>> \in T
  <2>1. <<>> \in Seq(R)
    <3> HIDE DEF R
    <3> QED
      OBVIOUS
  <2> QED
    BY <1>0, <2>1, FlattenEmpty
<1>2. ASSUME NEW u \in T, NEW x \in R PROVE Append(u, x) \in T
  <2>1. u \in Seq(Seq(S)) /\ x \in Seq(S) /\ FlattenSeq(u) \in Seq(S)
    OBVIOUS
  <2>2. FlattenSeq(Append(u, x)) = FlattenSeq(u) \o x
    BY <2>1, FlattenAppend
  <2>3. FlattenSeq(u) \o x \in R
    BY <2>1, ConcatProperties
  <2>4. Append(u, x) \in Seq(R)
    <3> HIDE DEF R
    <3> QED
      OBVIOUS
  <2> QED
    BY <2>2, <2>3, <2>4
<1>3. T = Seq(R)
  <2>1. T \subseteq Seq(R)
    OBVIOUS
  <2> HIDE DEF T, R
  <2> QED
    BY <1>1, <1>2, <2>1, SeqInduction
<1> QED
  BY <1>3

\* The last text is the end of what FlattenSeq makes.
LEMMA FlattenLast ==
    ASSUME NEW S, NEW t \in Seq(Seq(S)), t # <<>>
    PROVE  FlattenSeq(t) = FlattenSeq(Front(t)) \o Last(t)
<1> DEFINE R == Seq(S)
<1>1. Front(t) \in Seq(R) /\ Last(t) \in R /\ t = Append(Front(t), Last(t))
  <2>1. t \in Seq(R)
    OBVIOUS
  <2> HIDE DEF R
  <2> QED
    BY <2>1, FrontLast
<1> QED
  BY <1>1, FlattenAppend

\* Of one text, FlattenSeq makes that text.
LEMMA FlattenOne ==
    ASSUME NEW S, NEW x \in Seq(S)
    PROVE  FlattenSeq(<<x>>) = x
<1> DEFINE R == Seq(S)
<1>1. <<>> \in Seq(R) /\ <<x>> = Append(<<>>, x)
  <2> HIDE DEF R
  <2> QED
    OBVIOUS
<1>2. FlattenSeq(<<x>>) = FlattenSeq(<<>>) \o x
  BY <1>1, FlattenAppend
<1> QED
  BY <1>2, FlattenEmpty, ConcatEmptySeq

\* The first of them comes first.
LEMMA FlattenFirst ==
    ASSUME NEW S, NEW t \in Seq(Seq(S)), NEW x \in Seq(S)
    PROVE  FlattenSeq(<<x>> \o t) = x \o FlattenSeq(t)
<1> DEFINE R == Seq(S)
           T == {u \in Seq(R) : FlattenSeq(<<x>> \o u) = x \o FlattenSeq(u)}
<1>1. <<>> \in T
  <2>1. <<x>> \o <<>> = <<x>> /\ <<>> \in Seq(R)
    <3> HIDE DEF R
    <3> QED
      OBVIOUS
  <2>2. x \o <<>> = x
    BY ConcatEmptySeq
  <2> QED
    BY <2>1, <2>2, FlattenOne, FlattenEmpty
<1>2. ASSUME NEW u \in T, NEW y \in R PROVE Append(u, y) \in T
  <2>1. /\ <<x>> \o Append(u, y) = Append(<<x>> \o u, y) /\ <<x>> \o u \in Seq(R)
        /\ Append(u, y) \in Seq(R) /\ u \in Seq(R)
    <3>1. x \in R
      OBVIOUS
    <3>2. u \in Seq(R)
      OBVIOUS
    <3> HIDE DEF R, T
    <3> QED
      BY <3>1, <3>2
  <2>2. /\ FlattenSeq(<<x>> \o Append(u, y)) = FlattenSeq(<<x>> \o u) \o y
        /\ FlattenSeq(Append(u, y)) = FlattenSeq(u) \o y
    BY <2>1, FlattenAppend
  <2>3. FlattenSeq(<<x>> \o u) = x \o FlattenSeq(u)
    OBVIOUS
  <2>4. FlattenSeq(u) \in Seq(S)
    BY <2>1, FlattenType
  <2>5. (x \o FlattenSeq(u)) \o y = x \o (FlattenSeq(u) \o y)
    BY <2>4, ConcatAssociative
  <2> HIDE DEF R
  <2> QED
    BY <2>1, <2>2, <2>3, <2>5
<1>3. T = Seq(R)
  <2>1. T \subseteq Seq(R)
    OBVIOUS
  <2> HIDE DEF T, R
  <2> QED
    BY <1>1, <1>2, <2>1, SeqInduction
<1> QED
  BY <1>3

-------------------------------------------------------------------------------
(* A sequence that goes on where another ends.                             *)

Grows(s, t) == Len(s) <= Len(t) /\ \A i \in 1..Len(s) : t[i] = s[i]

\* Every sequence goes on where it ends, and where the empty one does.
LEMMA GrowsSelf ==
    ASSUME NEW S, NEW s \in Seq(S)
    PROVE  Grows(s, s) /\ Grows(<<>>, s)
BY DEF Grows

\* What goes on where a sequence ends that goes on itself goes on where the first one ends.
LEMMA GrowsTwice ==
    ASSUME NEW S, NEW s \in Seq(S), NEW t \in Seq(S), NEW u \in Seq(S), Grows(s, t), Grows(t, u)
    PROVE  Grows(s, u)
BY DEF Grows

\* What is appended makes a sequence grow.
LEMMA GrowsByMore ==
    ASSUME NEW S, NEW s \in Seq(S), NEW t \in Seq(S)
    PROVE  Grows(s, s \o t)
BY ConcatProperties DEF Grows

\* Two of one length are the same.
LEMMA GrowsSame ==
    ASSUME NEW S, NEW s \in Seq(S), NEW t \in Seq(S), Grows(s, t), Len(s) = Len(t)
    PROVE  s = t
BY SeqEqual DEF Grows

\* Growing goes on behind a common beginning.
LEMMA GrowsBehind ==
    ASSUME NEW S, NEW c \in Seq(S), NEW s \in Seq(S), NEW t \in Seq(S), Grows(s, t)
    PROVE  Grows(c \o s, c \o t)
<1>1. /\ c \o s \in Seq(S) /\ Len(c \o s) = Len(c) + Len(s)
      /\ \A i \in 1..(Len(c) + Len(s)) : (c \o s)[i] = IF i <= Len(c) THEN c[i] ELSE s[i - Len(c)]
  BY ConcatProperties
<1>2. /\ c \o t \in Seq(S) /\ Len(c \o t) = Len(c) + Len(t)
      /\ \A i \in 1..(Len(c) + Len(t)) : (c \o t)[i] = IF i <= Len(c) THEN c[i] ELSE t[i - Len(c)]
  BY ConcatProperties
<1>3. Len(c) \in Nat /\ Len(s) \in Nat /\ Len(t) \in Nat /\ Len(s) <= Len(t)
  BY DEF Grows
<1>4. ASSUME NEW i \in 1..(Len(c) + Len(s)) PROVE (c \o t)[i] = (c \o s)[i]
  <2>1. i \in 1..(Len(c) + Len(t))
    BY <1>3
  <2>2. CASE i <= Len(c)
    BY <1>1, <1>2, <2>1, <2>2
  <2>3. CASE ~(i <= Len(c))
    <3>1. i - Len(c) \in 1..Len(s)
      BY <1>3, <2>3
    <3>2. t[i - Len(c)] = s[i - Len(c)]
      BY <3>1 DEF Grows
    <3> QED
      BY <1>1, <1>2, <2>1, <2>3, <3>2
  <2> QED
    BY <2>2, <2>3
<1> QED
  BY <1>1, <1>2, <1>3, <1>4 DEF Grows

\* Both of two beginnings of one sequence: the shorter one is the beginning of the other.
LEMMA GrowsBoth ==
    ASSUME NEW S, NEW s \in Seq(S), NEW t \in Seq(S), NEW u \in Seq(S),
           Grows(s, u), Grows(t, u), Len(s) <= Len(t)
    PROVE  Grows(s, t)
BY DEF Grows

\* A prefix, as the library says it.
LEMMA GrowsIsPrefix ==
    ASSUME NEW S, NEW s \in Seq(S), NEW t \in Seq(S), Grows(s, t)
    PROVE  IsPrefix(s, t)
<1> DEFINE n == Len(s)
<1>1. n \in Nat /\ n <= Len(t) /\ n <= Len(s) /\ Len(s) = n
  BY DEF Grows
<1>2. /\ \A i \in 1..n : s[i] \in S
      /\ \A i \in 1..n : t[i] \in S
  BY DEF Grows
<1>3. /\ SubSeq(s, 1, n) \in Seq(S) /\ SubSeq(t, 1, n) \in Seq(S)
      /\ Len(SubSeq(s, 1, n)) = n /\ Len(SubSeq(t, 1, n)) = n
      /\ \A i \in 1..n : SubSeq(s, 1, n)[i] = s[i] /\ SubSeq(t, 1, n)[i] = t[i]
  <2>1. 1 \in Int /\ n \in Int /\ n-1+1 = n /\ \A i \in 1..n : 1+i-1 = i
    BY <1>1
  <2>2. n < 1 => n = 0
    BY <1>1
  <2> HIDE DEF n
  <2>3. /\ SubSeq(s, 1, n) \in Seq(S) /\ Len(SubSeq(s, 1, n)) = (IF 1 <= n THEN n-1+1 ELSE 0)
        /\ \A i \in 1..(n-1+1) : SubSeq(s, 1, n)[i] = s[1+i-1]
    BY <1>2, <2>1, SubSeqProperties
  <2>4. /\ SubSeq(t, 1, n) \in Seq(S) /\ Len(SubSeq(t, 1, n)) = (IF 1 <= n THEN n-1+1 ELSE 0)
        /\ \A i \in 1..(n-1+1) : SubSeq(t, 1, n)[i] = t[1+i-1]
    BY <1>2, <2>1, SubSeqProperties
  <2> QED
    BY <1>1, <2>1, <2>2, <2>3, <2>4
<1>4. \A i \in 1..n : SubSeq(s, 1, n)[i] = SubSeq(t, 1, n)[i]
  <2>1. \A i \in 1..n : t[i] = s[i]
    BY DEF Grows
  <2> HIDE DEF n
  <2> QED
    BY <1>3, <2>1
<1>5. SubSeq(s, 1, n) = SubSeq(t, 1, n)
  <2> HIDE DEF n
  <2> QED
    BY <1>3, <1>4, SeqEqual
<1> QED
  BY <1>1, <1>5 DEF IsPrefix

\* Nothing of the shorter one is lost.
LEMMA GrowsKeeps ==
    ASSUME NEW S, NEW s \in Seq(S), NEW t \in Seq(S), Grows(s, t)
    PROVE  ToSet(s) \subseteq ToSet(t)
BY DEF Grows, ToSet

-------------------------------------------------------------------------------
(* FlattenSeq of what grows.                                               *)

\* More texts at the end.
LEMMA FlattenMore ==
    ASSUME NEW S, NEW t \in Seq(Seq(S)), NEW u \in Seq(Seq(S)), Grows(t, u)
    PROVE  Grows(FlattenSeq(t), FlattenSeq(u))
<1> DEFINE R == Seq(S)
           T == {v \in Seq(R) : \A w \in Seq(R) : Grows(w, v) => Grows(FlattenSeq(w), FlattenSeq(v))}
<1>1. <<>> \in T
  <2>1. <<>> \in Seq(R)
    <3> HIDE DEF R
    <3> QED
      OBVIOUS
  <2>2. ASSUME NEW w \in Seq(R), Grows(w, <<>>) PROVE w = <<>>
    <3> HIDE DEF R, T
    <3> QED
      BY <2>2 DEF Grows
  <2>3. Grows(<<>>, <<>>)
    BY DEF Grows
  <2> QED
    BY <2>1, <2>2, <2>3, FlattenEmpty
<1>2. ASSUME NEW v \in T, NEW x \in R PROVE Append(v, x) \in T
  <2>1. v \in Seq(R)
    OBVIOUS
  <2>2. Append(v, x) \in Seq(R)
    <3> HIDE DEF R, T
    <3> QED
      BY <2>1
  <2>3. FlattenSeq(Append(v, x)) = FlattenSeq(v) \o x /\ FlattenSeq(v) \in R /\ FlattenSeq(Append(v, x)) \in R
    BY <2>1, <2>2, FlattenAppend, FlattenType
  <2> SUFFICES ASSUME NEW w \in Seq(R), Grows(w, Append(v, x))
               PROVE  Grows(FlattenSeq(w), FlattenSeq(Append(v, x)))
    BY <2>2
  <2>4. CASE Len(w) <= Len(v)
    <3>1. Grows(w, v)
      <4> HIDE DEF R, T
      <4> QED
        BY <2>1, <2>4 DEF Grows
    <3>2. Grows(FlattenSeq(w), FlattenSeq(v))
      BY <3>1
    <3>3. FlattenSeq(w) \in R
      BY FlattenType
    <3>4. Grows(FlattenSeq(v), FlattenSeq(v) \o x)
      BY <2>3, GrowsByMore
    <3>5. FlattenSeq(v) \o x \in R
      BY <2>3
    <3> QED
      BY ONLY <2>3, <3>2, <3>3, <3>4, <3>5, GrowsTwice, ZenonT(30) DEF R
  <2>5. CASE ~(Len(w) <= Len(v))
    <3>1. w = Append(v, x)
      <4> HIDE DEF R, T
      <4>1. Len(w) = Len(Append(v, x))
        BY <2>1, <2>5 DEF Grows
      <4> QED
        BY <2>2, <4>1, GrowsSame
    <3>2. Grows(FlattenSeq(w), FlattenSeq(w))
      BY <2>3, <3>1, GrowsSelf
    <3> QED
      BY <3>1, <3>2
  <2> QED
    BY <2>4, <2>5
<1>3. T = Seq(R)
  <2>1. T \subseteq Seq(R)
    OBVIOUS
  <2> HIDE DEF T, R
  <2> QED
    BY <1>1, <1>2, <2>1, SeqInduction
<1>4. u \in T
  BY <1>3
<1> QED
  BY <1>4

\* The last text grows, and more texts follow it.
LEMMA FlattenGrows ==
    ASSUME NEW S, NEW t \in Seq(Seq(S)), NEW u \in Seq(Seq(S)),
           Len(t) <= Len(u), \A i \in 1..(Len(t) - 1) : t[i] = u[i],
           t # <<>> => Grows(t[Len(t)], u[Len(t)])
    PROVE  Grows(FlattenSeq(t), FlattenSeq(u))
<1> DEFINE R == Seq(S)
           n == Len(t)
           f == Front(t)
<1>0. t \in Seq(R) /\ u \in Seq(R)
  OBVIOUS
<1>1. CASE t = <<>>
  <2>1. FlattenSeq(u) \in Seq(S)
    BY FlattenType
  <2> QED
    BY <1>1, <2>1, FlattenEmpty, GrowsSelf
<1>2. CASE t # <<>>
  <2>1. /\ f \in Seq(R) /\ t = Append(f, Last(t)) /\ Len(f) = n - 1 /\ n \in Nat \ {0}
        /\ \A i \in 1..(n - 1) : f[i] = t[i]
    <3> HIDE DEF R
    <3> QED
      BY <1>0, <1>2, FrontLast
  <2>2. u[n] \in R /\ Last(t) = t[n] /\ t[n] \in R /\ n <= Len(u) /\ Grows(t[n], u[n])
    <3>1. Grows(t[n], u[n])
      BY <1>2
    <3> HIDE DEF R
    <3> QED
      BY <1>0, <2>1, <3>1 DEF Last
  <2> DEFINE w == Append(f, u[n])
  <2>3. w \in Seq(R) /\ Grows(w, u)
    <3> HIDE DEF R, f
    <3>1. w \in Seq(R) /\ Len(w) = n /\ w[n] = u[n] /\ \A i \in 1..(n - 1) : w[i] = f[i]
      BY <2>1, <2>2
    <3>2. ASSUME NEW i \in 1..n PROVE u[i] = w[i]
      <4>1. CASE i = n
        BY <3>1, <4>1
      <4>2. CASE i # n
        <5>1. i \in 1..(n - 1)
          BY <2>1, <4>2
        <5>2. t[i] = u[i]
          BY <5>1
        <5> QED
          BY <2>1, <3>1, <5>1, <5>2
      <4> QED
        BY <4>1, <4>2
    <3> HIDE DEF w
    <3> QED
      BY <2>2, <3>1, <3>2 DEF Grows
  <2>4. Grows(FlattenSeq(w), FlattenSeq(u))
    <3> HIDE DEF w
    <3> QED
      BY <2>3, FlattenMore
  <2>5. /\ FlattenSeq(w) = FlattenSeq(f) \o u[n] /\ FlattenSeq(t) = FlattenSeq(f) \o t[n]
        /\ FlattenSeq(f) \in Seq(S)
    <3>1. f \in Seq(Seq(S)) /\ u[n] \in Seq(S) /\ t[n] \in Seq(S) /\ t = Append(f, t[n])
      BY <2>1, <2>2
    <3> HIDE DEF f, n
    <3> QED
      BY <3>1, FlattenAppend, FlattenType
  <2>6. Grows(FlattenSeq(t), FlattenSeq(w))
    <3>1. u[n] \in Seq(S) /\ t[n] \in Seq(S)
      BY <2>2
    <3> HIDE DEF n, f, w
    <3> QED
      BY <2>2, <2>5, <3>1, GrowsBehind
  <2>7. FlattenSeq(t) \in Seq(S) /\ FlattenSeq(w) \in Seq(S) /\ FlattenSeq(u) \in Seq(S)
    <3>1. w \in Seq(Seq(S))
      BY <2>3
    <3> HIDE DEF w
    <3> QED
      BY <3>1, FlattenType
  <2> HIDE DEF w, n, f
  <2> QED
    BY ONLY <2>4, <2>6, <2>7, GrowsTwice, ZenonT(30)
<1> QED
  BY <1>1, <1>2

-------------------------------------------------------------------------------
(* The fold of append.  FoldLeft is defined by a recursive function of the *)
(* sets of positions; there is one, by induction, and on the first k       *)
(* positions it takes one event after the other.                           *)

IsFold(it, base, batch, S) ==
    it = [s \in SUBSET S |-> IF s = {} THEN base ELSE Filled(it[s \ {Max(s)}], batch[Max(s)])]
FoldIter(base, batch, S) == CHOOSE it : IsFold(it, base, batch, S)

\* FoldLeft, by the recursive function on sets of positions that defines it.
LEMMA FoldIs ==
    ASSUME NEW base, NEW batch
    PROVE  FoldLeft(Filled, base, batch) = FoldIter(base, batch, DOMAIN batch)[DOMAIN batch]
BY DEF FoldLeft, MapThenFoldSet, FoldIter, IsFold

\* The greatest of the first numbers.
LEMMA MaxOfFirst ==
    ASSUME NEW m \in Nat, NEW s \in SUBSET (1..(m+1)), m + 1 \in s
    PROVE  Max(s) = m + 1
<1>1. m + 1 \in s /\ \A y \in s : m + 1 >= y
  OBVIOUS
<1>2. \A x \in s : (\A y \in s : x >= y) => x = m + 1
  <2> SUFFICES ASSUME NEW x \in s, x >= m + 1 PROVE x = m + 1
    OBVIOUS
  <2> QED
    OBVIOUS
<1>3. Max(s) \in s /\ \A y \in s : Max(s) >= y
  BY <1>1 DEF Max
<1> QED
  BY <1>2, <1>3

\* There is such a function on the sets of the first n positions.
LEMMA FoldExists ==
    ASSUME NEW base, NEW batch, NEW n \in Nat
    PROVE  \E it : IsFold(it, base, batch, 1..n)
<1> DEFINE Has(m) == \E it : it = [s \in SUBSET (1..m) |->
                            IF s = {} THEN base ELSE Filled(it[s \ {Max(s)}], batch[Max(s)])]
           T == {m \in Nat : Has(m)}
<1>1. 0 \in T
  <2> DEFINE it == [s \in SUBSET (1..0) |-> base]
  <2>1. \A s \in SUBSET (1..0) : s = {}
    OBVIOUS
  <2>2. it = [s \in SUBSET (1..0) |-> IF s = {} THEN base ELSE Filled(it[s \ {Max(s)}], batch[Max(s)])]
    BY <2>1
  <2> QED
    BY <2>2
<1>2. ASSUME NEW m \in T PROVE m + 1 \in T
  <2>1. PICK it : it = [s \in SUBSET (1..m) |->
                            IF s = {} THEN base ELSE Filled(it[s \ {Max(s)}], batch[Max(s)])]
    OBVIOUS
  <2> DEFINE g == [s \in SUBSET (1..(m+1)) |->
                      IF m + 1 \in s THEN Filled(it[s \ {m + 1}], batch[m + 1]) ELSE it[s]]
  <2>0. m \in Nat
    OBVIOUS
  <2>2. ASSUME NEW s \in SUBSET (1..(m+1))
        PROVE  g[s] = IF s = {} THEN base ELSE Filled(g[s \ {Max(s)}], batch[Max(s)])
    <3>1. CASE m + 1 \in s
      <4>1. Max(s) = m + 1
        BY <2>0, <3>1, MaxOfFirst
      <4>2. s \ {m + 1} \in SUBSET (1..(m+1)) /\ m + 1 \notin s \ {m + 1}
        OBVIOUS
      <4>3. g[s \ {m + 1}] = it[s \ {m + 1}]
        BY <4>2
      <4>4. g[s] = Filled(it[s \ {m + 1}], batch[m + 1])
        BY <3>1
      <4> HIDE DEF g
      <4> QED
        BY <3>1, <4>1, <4>3, <4>4
    <3>2. CASE m + 1 \notin s
      <4>1. s \in SUBSET (1..m)
        BY <2>0, <3>2
      <4>2. s \ {Max(s)} \in SUBSET (1..m) /\ s \ {Max(s)} \in SUBSET (1..(m+1)) /\ m + 1 \notin s \ {Max(s)}
        BY <3>2, <4>1
      <4>3. g[s \ {Max(s)}] = it[s \ {Max(s)}] /\ g[s] = it[s]
        BY <3>2, <4>2
      <4>4. it[s] = IF s = {} THEN base ELSE Filled(it[s \ {Max(s)}], batch[Max(s)])
        BY <2>1, <4>1
      <4> HIDE DEF g
      <4> QED
        BY <4>3, <4>4
    <3> QED
      BY <3>1, <3>2
  <2>3. g = [s \in SUBSET (1..(m+1)) |->
                IF s = {} THEN base ELSE Filled(g[s \ {Max(s)}], batch[Max(s)])]
    <3>1. g = [s \in SUBSET (1..(m+1)) |-> g[s]]
      OBVIOUS
    <3> HIDE DEF g
    <3> QED
      BY <2>2, <3>1
  <2>4. Has(m + 1)
    <3> HIDE DEF g
    <3> QED
      BY <2>3
  <2>5. m + 1 \in Nat
    BY <2>0
  <2> HIDE DEF Has
  <2> QED
    BY <2>4, <2>5
<1> HIDE DEF Has
<1>3. T = Nat
  <2>1. T \subseteq Nat
    OBVIOUS
  <2> HIDE DEF T
  <2> QED
    BY <1>1, <1>2, <2>1, SetInduction
<1>4. Has(n)
  BY <1>3
<1> QED
  BY <1>4 DEF Has, IsFold

\* The fold takes the events of the batch one after the other.
LEMMA FoldSteps ==
    ASSUME NEW base, NEW S, NEW batch \in Seq(S)
    PROVE  \E F : /\ F[0] = base
                  /\ \A k \in 1..Len(batch) : F[k] = Filled(F[k-1], batch[k])
                  /\ FoldLeft(Filled, base, batch) = F[Len(batch)]
<1> DEFINE n == Len(batch)
           it == FoldIter(base, batch, 1..n)
           F == [k \in 0..n |-> it[1..k]]
<1>0. n \in Nat /\ DOMAIN batch = 1..n
  OBVIOUS
<1>1. it = [s \in SUBSET (1..n) |-> IF s = {} THEN base ELSE Filled(it[s \ {Max(s)}], batch[Max(s)])]
  <2> HIDE DEF n
  <2>1. n \in Nat
    BY <1>0
  <2>2. \E f : IsFold(f, base, batch, 1..n)
    BY ONLY <2>1, FoldExists
  <2>3. IsFold(it, base, batch, 1..n)
    BY <2>2 DEF FoldIter
  <2> QED
    BY <2>3 DEF IsFold
<1>2. FoldLeft(Filled, base, batch) = it[1..n]
  BY <1>0, FoldIs
<1> HIDE DEF it, n
<1>3. F[0] = base
  <2>1. 0 \in 0..n /\ 1..0 = {} /\ 1..0 \in SUBSET (1..n)
    BY <1>0
  <2>2. it[1..0] = base
    BY <1>1, <2>1
  <2> QED
    BY <2>1, <2>2
<1>4. ASSUME NEW k \in 1..n PROVE F[k] = Filled(F[k-1], batch[k])
  <2>1. k \in 0..n /\ k - 1 \in 0..n /\ 1..k \in SUBSET (1..n) /\ 1..k # {}
    BY <1>0
  <2>2. Max(1..k) = k
    <3>1. k - 1 \in Nat /\ (k - 1) + 1 = k /\ k \in 1..k
      BY <1>0
    <3>2. 1..k \in SUBSET (1..((k - 1) + 1)) /\ (k - 1) + 1 \in 1..k
      BY <3>1
    <3>3. Max(1..k) = (k - 1) + 1
      BY ONLY <3>1, <3>2, MaxOfFirst
    <3> QED
      BY <3>1, <3>3
  <2>3. (1..k) \ {k} = 1..(k - 1)
    BY <1>0
  <2>4. it[1..k] = Filled(it[(1..k) \ {Max(1..k)}], batch[Max(1..k)])
    BY <1>1, <2>1
  <2> QED
    BY <2>1, <2>2, <2>3, <2>4
<1>5. F[n] = it[1..n]
  BY <1>0
<1> HIDE DEF F
<1> QED
  BY <1>2, <1>3, <1>4, <1>5 DEF n

-------------------------------------------------------------------------------
(* Append, and a sequence that is one.                                     *)

\* What Append makes.
LEMMA Appended ==
    ASSUME NEW S, NEW t \in Seq(S), NEW x \in S
    PROVE  /\ Append(t, x) \in Seq(S) /\ Append(t, x) # <<>> /\ Len(Append(t, x)) = Len(t) + 1
           /\ \A i \in 1..Len(t) : Append(t, x)[i] = t[i]
           /\ Append(t, x)[Len(t) + 1] = x
OBVIOUS

\* A sequence with one more element at its end is an Append.
LEMMA IsAppended ==
    ASSUME NEW S, NEW t \in Seq(S), NEW x \in S, NEW u \in Seq(S), Len(u) = Len(t) + 1,
           \A i \in 1..Len(t) : u[i] = t[i], u[Len(t) + 1] = x
    PROVE  u = Append(t, x)
<1>1. Append(t, x) \in Seq(S) /\ Len(u) = Len(Append(t, x))
  OBVIOUS
<1>2. \A i \in 1..Len(u) : u[i] = Append(t, x)[i]
  OBVIOUS
<1> QED
  BY <1>1, <1>2, SeqEqual

-------------------------------------------------------------------------------
(* Files, read through the names of a manifest.                            *)

TextOf(files, f) == IF f \in DOMAIN files THEN files[f] ELSE <<>>
TextsOf(files, segs) == [i \in DOMAIN segs |-> TextOf(files, segs[i])]
ReadOf(files, segs) == FlattenSeq(TextsOf(files, segs))

Names == {"segment", "compact"} \X Nat
Texts == Seq(Events)
WriteType == [file : Names, text : Texts]
FilesOk(files) == DOMAIN files \subseteq Names /\ \A f \in DOMAIN files : files[f] \in Texts

\* Writes of the last segments: what is left alone before them, and the texts when they are done.
Left(segs, writes) == Len(segs) - Len(writes)
TextsAfter(files, segs, writes) ==
    [i \in DOMAIN segs |-> IF i > Left(segs, writes) THEN writes[i - Left(segs, writes)].text
                           ELSE TextOf(files, segs[i])]

\* A text begins anew, or goes on where x ends, with an event that is no older than n.
Newer(x, text, n) == Grows(x, text) /\ Len(x) < Len(text) /\ text[Len(x) + 1].seq >= n

\* The writes of an append: none rewrites an event that the segments of base name.
WritesFit(files, base, segs, writes, n) ==
    /\ Left(segs, writes) \in Nat
    /\ \A i \in DOMAIN writes :
          /\ writes[i].file = segs[Left(segs, writes) + i]
          /\ \E x \in {<<>>, TextOf(files, writes[i].file)} : Newer(x, writes[i].text, n)
    /\ base <= Left(segs, writes) + 1
    /\ base = Left(segs, writes) + 1 => Grows(TextOf(files, writes[1].file), writes[1].text)

\* A plan, once the events of done are in it.
Filling(files, segs, n, plan, done) ==
    /\ plan.segs \in Seq(Names) /\ plan.text \in Texts /\ plan.writes \in Seq(WriteType)
    /\ Grows(segs, plan.segs)
    /\ \A i \in DOMAIN plan.segs : i > Len(segs) => plan.segs[i] = Segment(i - 1)
    /\ WritesFit(files, Len(segs), plan.segs, plan.writes, n)
    /\ plan.segs # <<>> => TextsAfter(files, plan.segs, plan.writes)[Len(plan.segs)] = plan.text
    /\ FlattenSeq(TextsAfter(files, plan.segs, plan.writes)) = ReadOf(files, segs) \o done

\* What readText returns is a sequence of events.
LEMMA TextOfType ==
    ASSUME NEW files, FilesOk(files), NEW f
    PROVE  TextOf(files, f) \in Texts
BY DEF FilesOk, TextOf, Texts

\* So is the text of every segment that a manifest names.
LEMMA TextsOfType ==
    ASSUME NEW files, FilesOk(files), NEW segs \in Seq(Names)
    PROVE  /\ TextsOf(files, segs) \in Seq(Texts) /\ Len(TextsOf(files, segs)) = Len(segs)
           /\ \A i \in 1..Len(segs) : TextsOf(files, segs)[i] = TextOf(files, segs[i])
<1> DEFINE n == Len(segs)
<1>1. n \in Nat /\ DOMAIN segs = 1..n
  OBVIOUS
<1>2. \A i \in 1..n : TextOf(files, segs[i]) \in Texts
  BY TextOfType
<1>3. TextsOf(files, segs) = [i \in 1..n |-> TextOf(files, segs[i])]
  BY <1>1 DEF TextsOf
<1> HIDE DEF n
<1>4. TextsOf(files, segs) \in Seq(Texts) /\ Len(TextsOf(files, segs)) = n
  <2> DEFINE R == Texts
  <2>1. \A i \in 1..n : TextOf(files, segs[i]) \in R
    BY <1>2
  <2> HIDE DEF R
  <2> QED
    BY <1>1, <1>3, <2>1 DEF R
<1> QED
  BY <1>3, <1>4 DEF n

\* And so is all that is read through a manifest.
LEMMA ReadOfType ==
    ASSUME NEW files, FilesOk(files), NEW segs \in Seq(Names)
    PROVE  ReadOf(files, segs) \in Texts
<1>1. TextsOf(files, segs) \in Seq(Seq(Events))
  BY TextsOfType DEF Texts
<1> QED
  BY <1>1, FlattenType DEF ReadOf, Texts

\* The texts once the writes of an append are done.
LEMMA TextsAfterType ==
    ASSUME NEW files, FilesOk(files), NEW segs \in Seq(Names), NEW writes \in Seq(WriteType),
           Left(segs, writes) \in Nat
    PROVE  /\ TextsAfter(files, segs, writes) \in Seq(Texts)
           /\ Len(TextsAfter(files, segs, writes)) = Len(segs)
           /\ \A i \in 1..Len(segs) :
                 TextsAfter(files, segs, writes)[i] =
                    IF i > Left(segs, writes) THEN writes[i - Left(segs, writes)].text ELSE TextOf(files, segs[i])
<1> DEFINE n == Len(segs)
           l == Left(segs, writes)
           G(i) == IF i > l THEN writes[i - l].text ELSE TextOf(files, segs[i])
<1>1. n \in Nat /\ DOMAIN segs = 1..n /\ l \in Nat /\ l = n - Len(writes) /\ Len(writes) \in Nat
  BY DEF Left
<1>2. ASSUME NEW i \in 1..n PROVE G(i) \in Texts
  <2>1. CASE i > l
    <3>1. i - l \in 1..Len(writes)
      <4> HIDE DEF n, l
      <4> QED
        BY <1>1, <2>1
    <3>2. writes[i - l] \in WriteType
      <4> HIDE DEF l
      <4> QED
        BY <3>1
    <3>3. writes[i - l].text \in Texts
      BY <3>2 DEF WriteType
    <3> QED
      BY <2>1, <3>3
  <2>2. CASE ~(i > l)
    <3>1. TextOf(files, segs[i]) \in Texts
      BY TextOfType
    <3> QED
      BY <2>2, <3>1
  <2> QED
    BY <2>1, <2>2
<1>3. TextsAfter(files, segs, writes) = [i \in 1..n |-> G(i)]
  BY <1>1 DEF TextsAfter
<1>5. \A i \in 1..n : TextsAfter(files, segs, writes)[i] = G(i)
  BY <1>3
<1> HIDE DEF G, n, l
<1>4. TextsAfter(files, segs, writes) \in Seq(Texts) /\ Len(TextsAfter(files, segs, writes)) = n
  <2> DEFINE R == Texts
  <2>1. \A i \in 1..n : G(i) \in R
    BY <1>2
  <2> HIDE DEF R
  <2> QED
    BY <1>1, <1>3, <2>1 DEF R
<1> QED
  BY <1>4, <1>5 DEF G, n, l

\* An event more in the last text.
LEMMA FlattenTouch ==
    ASSUME NEW S, NEW t \in Seq(Seq(S)), t # <<>>, NEW e \in S
    PROVE  /\ Append(Front(t), Append(t[Len(t)], e)) \in Seq(Seq(S))
           /\ FlattenSeq(Append(Front(t), Append(t[Len(t)], e))) = Append(FlattenSeq(t), e)
<1> DEFINE R == Seq(S)
           f == Front(t)
           x == t[Len(t)]
<1>1. f \in Seq(R) /\ x \in R /\ t = Append(f, x)
  <2>1. t \in Seq(R)
    OBVIOUS
  <2> HIDE DEF R
  <2> QED
    BY <2>1, FrontLast DEF Last
<1>2. Append(x, e) \in R
  BY <1>1
<1> HIDE DEF f, x
<1>3. FlattenSeq(t) = FlattenSeq(f) \o x /\ FlattenSeq(f) \in R
  BY <1>1, FlattenAppend, FlattenType
<1>4. FlattenSeq(Append(f, Append(x, e))) = FlattenSeq(f) \o Append(x, e)
  BY <1>1, <1>2, FlattenAppend
<1>5. FlattenSeq(f) \o Append(x, e) = Append(FlattenSeq(f) \o x, e)
  <2> DEFINE g == FlattenSeq(f)
  <2>1. g \in Seq(S) /\ x \in Seq(S)
    BY <1>1, <1>3
  <2> HIDE DEF g
  <2>2. g \o Append(x, e) \in Seq(S) /\ Append(g \o x, e) \in Seq(S)
    BY <2>1
  <2>3. Len(g \o Append(x, e)) = Len(Append(g \o x, e))
    BY <2>1
  <2>4. \A i \in 1..Len(g \o Append(x, e)) : (g \o Append(x, e))[i] = Append(g \o x, e)[i]
    BY <2>1
  <2> QED
    BY <2>2, <2>3, <2>4, SeqEqual DEF g
<1>6. Append(f, Append(x, e)) \in Seq(R)
  <2> DEFINE y == Append(x, e)
  <2>1. y \in R
    BY <1>2
  <2> HIDE DEF y, R
  <2> QED
    BY <1>1, <2>1 DEF y
<1> QED
  BY <1>3, <1>4, <1>5, <1>6 DEF f, x

-------------------------------------------------------------------------------
(* The plan of append.                                                     *)

\* A text that goes on goes on where the shorter one ends, too.
LEMMA NewerGrows ==
    ASSUME NEW x \in Texts, NEW s \in Texts, NEW e \in Events, NEW n \in Nat, Newer(x, s, n)
    PROVE  Newer(x, Append(s, e), n)
BY DEF Newer, Grows, Texts, Events

\* A sequence goes on in its Append.
LEMMA GrowsOne ==
    ASSUME NEW S, NEW s \in Seq(S), NEW t \in Seq(S), NEW e \in S, Grows(s, t)
    PROVE  Grows(s, Append(t, e))
BY DEF Grows

\* A text that goes on by one event that is not older.
LEMMA NewerOne ==
    ASSUME NEW s \in Texts, NEW e \in Events, NEW n \in Nat, e.seq >= n
    PROVE  Newer(s, Append(s, e), n) /\ Newer(<<>>, <<e>>, n)
BY DEF Newer, Grows, Texts

\* An event in a segment of its own.
LEMMA FillOpens ==
    ASSUME NEW files, FilesOk(files), NEW segs \in Seq(Names), NEW n \in Nat, NEW plan, NEW done \in Texts,
           Filling(files, segs, n, plan, done), NEW e \in Events, e.seq >= n,
           NEW next, next = [segs |-> Append(plan.segs, Segment(Len(plan.segs))), text |-> <<e>>,
                             writes |-> Append(plan.writes, [file |-> Segment(Len(plan.segs)), text |-> <<e>>])]
    PROVE  Filling(files, segs, n, next, Append(done, e)) /\ next.writes # <<>>
<1> DEFINE s == plan.segs
           w == plan.writes
           g == Segment(Len(plan.segs))
           v == [file |-> g, text |-> <<e>>]
           l == Left(s, w)
<1>1. s \in Seq(Names) /\ w \in Seq(WriteType) /\ l \in Nat /\ l = Len(s) - Len(w) /\ Len(s) \in Nat /\ Len(w) \in Nat
  BY DEF Filling, WritesFit, Left
<1>2. g \in Names /\ g = Segment(Len(s))
  BY DEF Names, Segment
<1>3. <<e>> \in Texts
  BY DEF Texts
<1>4. v \in WriteType /\ v.file = g /\ v.text = <<e>>
  BY <1>2, <1>3 DEF WriteType
<1>5. next.segs = Append(s, g) /\ next.text = <<e>> /\ next.writes = Append(w, v)
  OBVIOUS
<1>6. /\ Grows(segs, s) /\ \A i \in DOMAIN s : i > Len(segs) => s[i] = Segment(i - 1)
      /\ WritesFit(files, Len(segs), s, w, n)
      /\ FlattenSeq(TextsAfter(files, s, w)) = ReadOf(files, segs) \o done
  BY DEF Filling
<1> HIDE DEF v, g
<1>7. Append(s, g) \in Seq(Names) /\ Append(w, v) \in Seq(WriteType) /\ Append(w, v) # <<>>
  <2> HIDE DEF s, w
  <2>1. Append(s, g) \in Seq(Names)
    BY <1>1, <1>2, Appended
  <2>2. Append(w, v) \in Seq(WriteType) /\ Append(w, v) # <<>>
    BY <1>1, <1>4, Appended
  <2> QED
    BY <2>1, <2>2
<1>8. Left(Append(s, g), Append(w, v)) = l
  <2> HIDE DEF s, w
  <2> QED
    BY <1>1 DEF Left, l
<1> HIDE DEF s, w, l
<1>9. Grows(segs, Append(s, g))
  BY <1>1, <1>2, <1>6, GrowsOne
<1>10. ASSUME NEW i \in DOMAIN Append(s, g), i > Len(segs) PROVE Append(s, g)[i] = Segment(i - 1)
  <2>1. CASE i \in DOMAIN s
    BY <1>1, <1>6, <1>10, <2>1
  <2>2. CASE i \notin DOMAIN s
    <3>1. i = Len(s) + 1 /\ i - 1 = Len(s)
      BY <1>1, <2>2
    <3> QED
      BY <1>1, <1>2, <3>1
  <2> QED
    BY <2>1, <2>2
<1>11. WritesFit(files, Len(segs), Append(s, g), Append(w, v), n)
  <2>1. ASSUME NEW i \in DOMAIN Append(w, v)
        PROVE  /\ Append(w, v)[i].file = Append(s, g)[l + i]
               /\ \E x \in {<<>>, TextOf(files, Append(w, v)[i].file)} : Newer(x, Append(w, v)[i].text, n)
    <3>1. CASE i \in DOMAIN w
      <4>1. Append(w, v)[i] = w[i]
        BY <1>1, <3>1
      <4>2. Append(s, g)[l + i] = s[l + i]
        BY <1>1, <3>1
      <4>3. /\ w[i].file = s[l + i]
            /\ \E x \in {<<>>, TextOf(files, w[i].file)} : Newer(x, w[i].text, n)
        BY <1>6, <3>1 DEF WritesFit, l
      <4> QED
        BY <4>1, <4>2, <4>3
    <3>2. CASE i \notin DOMAIN w
      <4>1. i = Len(w) + 1 /\ l + i = Len(s) + 1
        BY <1>1, <3>2
      <4>2. Append(w, v)[i] = v /\ Append(s, g)[l + i] = g
        BY <1>1, <4>1
      <4>3. Newer(<<>>, <<e>>, n)
        BY NewerOne, <1>3
      <4> QED
        BY <1>4, <4>2, <4>3
    <3> QED
      BY <3>1, <3>2
  <2>2. Len(segs) <= l + 1
    BY <1>6 DEF WritesFit, l
  <2>3. ASSUME Len(segs) = l + 1 PROVE Grows(TextOf(files, Append(w, v)[1].file), Append(w, v)[1].text)
    <3>1. Len(segs) <= Len(s)
      BY <1>6 DEF Grows
    <3>2. 1 \in DOMAIN w
      BY <1>1, <2>3, <3>1
    <3>3. Append(w, v)[1] = w[1]
      BY <1>1, <3>2
    <3> QED
      BY <1>6, <2>3, <3>3 DEF WritesFit, l
  <2> QED
    BY <1>1, <1>8, <2>1, <2>2, <2>3 DEF WritesFit
<1> DEFINE t == TextsAfter(files, s, w)
           u == TextsAfter(files, Append(s, g), Append(w, v))
<1>12. /\ t \in Seq(Texts) /\ Len(t) = Len(s)
       /\ \A i \in 1..Len(s) : t[i] = IF i > l THEN w[i - l].text ELSE TextOf(files, s[i])
  BY <1>1, TextsAfterType DEF l
<1>13. /\ u \in Seq(Texts) /\ Len(u) = Len(s) + 1
       /\ \A i \in 1..(Len(s) + 1) : u[i] = IF i > l THEN Append(w, v)[i - l].text ELSE TextOf(files, Append(s, g)[i])
  <2>1. Len(Append(s, g)) = Len(s) + 1
    BY <1>1
  <2> DEFINE sg == Append(s, g)
             wv == Append(w, v)
  <2>2. sg \in Seq(Names) /\ wv \in Seq(WriteType) /\ Left(sg, wv) \in Nat /\ Left(sg, wv) = l /\ Len(sg) = Len(s) + 1
    BY <1>1, <1>7, <1>8, <2>1
  <2> HIDE DEF sg, wv
  <2>3. /\ TextsAfter(files, sg, wv) \in Seq(Texts) /\ Len(TextsAfter(files, sg, wv)) = Len(sg)
        /\ \A i \in 1..Len(sg) : TextsAfter(files, sg, wv)[i] =
              IF i > Left(sg, wv) THEN wv[i - Left(sg, wv)].text ELSE TextOf(files, sg[i])
    BY ONLY <2>2, FilesOk(files), TextsAfterType, ZenonT(30)
  <2> QED
    BY <2>2, <2>3 DEF sg, wv
<1>14. u = Append(t, <<e>>)
  <2>1. ASSUME NEW i \in 1..Len(s) PROVE u[i] = t[i]
    <3>1. i \in 1..(Len(s) + 1) /\ Append(s, g)[i] = s[i]
      BY <1>1
    <3>2. CASE i > l
      <4>1. i - l \in 1..Len(w)
        BY <1>1, <3>2
      <4>2. Append(w, v)[i - l] = w[i - l]
        BY <1>1, <4>1
      <4> QED
        BY <1>12, <1>13, <3>1, <3>2, <4>2
    <3>3. CASE ~(i > l)
      BY <1>12, <1>13, <3>1, <3>3
    <3> QED
      BY <3>2, <3>3
  <2>2. u[Len(s) + 1] = <<e>>
    <3>1. Len(s) + 1 \in 1..(Len(s) + 1) /\ Len(s) + 1 > l /\ (Len(s) + 1) - l = Len(w) + 1
      BY <1>1
    <3>2. Append(w, v)[Len(w) + 1] = v
      BY <1>1
    <3> QED
      BY <1>4, <1>13, <3>1, <3>2
  <2> DEFINE R == Texts
  <2>3. u \in Seq(R) /\ t \in Seq(R) /\ <<e>> \in R
    BY <1>3, <1>12, <1>13
  <2> HIDE DEF t, u, R
  <2> QED
    BY <1>12, <1>13, <2>1, <2>2, <2>3, IsAppended
<1>15. FlattenSeq(u) = ReadOf(files, segs) \o Append(done, e)
  <2>1. FlattenSeq(u) = FlattenSeq(t) \o <<e>>
    <3>1. t \in Seq(Seq(Events)) /\ <<e>> \in Seq(Events)
      BY <1>3, <1>12 DEF Texts
    <3> HIDE DEF t, u
    <3> QED
      BY <1>14, <3>1, FlattenAppend
  <2>2. ReadOf(files, segs) \in Seq(Events) /\ done \in Seq(Events)
    BY ReadOfType DEF Texts
  <2>3. FlattenSeq(t) = ReadOf(files, segs) \o done
    BY <1>6
  <2> DEFINE r == ReadOf(files, segs)
  <2> HIDE DEF r, t, u
  <2>4. (r \o done) \o <<e>> = r \o (done \o <<e>>)
    BY <2>2, ConcatAssociative DEF r
  <2>5. done \o <<e>> = Append(done, e)
    BY <2>2
  <2> QED
    BY <2>1, <2>3, <2>4, <2>5 DEF r
<1>16. u[Len(s) + 1] = <<e>>
  <2> DEFINE R == Texts
  <2>1. t \in Seq(R) /\ <<e>> \in R
    BY <1>3, <1>12
  <2> HIDE DEF R, t, u
  <2> QED
    BY <1>12, <1>14, <2>1
<1>17. Len(Append(s, g)) = Len(s) + 1
  BY <1>1
<1> HIDE DEF u, t
<1> QED
  BY <1>3, <1>5, <1>7, <1>9, <1>10, <1>11, <1>15, <1>16, <1>17 DEF Filling, u

Touched(plan, e) ==
    [segs   |-> plan.segs,
     text   |-> Append(plan.text, e),
     writes |-> Append(IF plan.writes = <<>> THEN <<>> ELSE Front(plan.writes),
                       [file |-> Last(plan.segs), text |-> Append(plan.text, e)])]

\* An event in the last segment: written once, with what is planned for it already.
LEMMA FillTouches ==
    ASSUME NEW files, FilesOk(files), NEW segs \in Seq(Names), NEW n \in Nat, NEW plan, NEW done \in Texts,
           Filling(files, segs, n, plan, done), NEW e \in Events, e.seq >= n, plan.segs # <<>>
    PROVE  Filling(files, segs, n, Touched(plan, e), Append(done, e)) /\ Touched(plan, e).writes # <<>>
<1> DEFINE next == Touched(plan, e)
           s == plan.segs
           w == plan.writes
           x == Append(plan.text, e)
           g == Last(plan.segs)
           v == [file |-> g, text |-> x]
           f == IF w = <<>> THEN <<>> ELSE Front(w)
           l == Left(s, f) - 1
           t == TextsAfter(files, s, w)
<1>1. /\ s \in Seq(Names) /\ w \in Seq(WriteType) /\ Left(s, w) \in Nat /\ Len(s) \in Nat \ {0}
      /\ Len(w) \in Nat /\ plan.text \in Texts /\ t[Len(s)] = plan.text
  BY DEF Filling, WritesFit
<1>2. /\ Grows(segs, s) /\ \A i \in DOMAIN s : i > Len(segs) => s[i] = Segment(i - 1)
      /\ WritesFit(files, Len(segs), s, w, n)
      /\ FlattenSeq(t) = ReadOf(files, segs) \o done
  BY DEF Filling
<1>3. g \in Names /\ g = s[Len(s)]
  BY <1>1 DEF Last
<1>4. x \in Texts /\ Grows(plan.text, x)
  <2> HIDE DEF s, w, t
  <2>1. plan.text \in Seq(Events)
    BY <1>1 DEF Texts
  <2> QED
    BY <2>1 DEF Grows, Texts
<1>5. v \in WriteType /\ v.file = g /\ v.text = x
  BY <1>3, <1>4 DEF WriteType
<1>6. next.segs = s /\ next.text = x /\ next.writes = Append(f, v)
  BY DEF Touched
<1> HIDE DEF next
<1>7. /\ f \in Seq(WriteType) /\ Len(f) = (IF w = <<>> THEN 0 ELSE Len(w) - 1)
      /\ \A i \in 1..Len(f) : f[i] = w[i]
  <2>1. CASE w = <<>>
    BY <2>1
  <2>2. CASE w # <<>>
    <3>1. f = Front(w)
      BY <2>2
    <3> HIDE DEF f, w
    <3> QED
      BY <1>1, <2>2, <3>1, FrontLast
  <2> QED
    BY <2>1, <2>2
<1> HIDE DEF x, v, g, f, s, w
<1>8. /\ Append(f, v) \in Seq(WriteType) /\ Append(f, v) # <<>> /\ Len(Append(f, v)) = Len(f) + 1
      /\ \A i \in 1..Len(f) : Append(f, v)[i] = w[i]
      /\ Append(f, v)[Len(f) + 1] = v
  BY <1>5, <1>7, Appended
<1> DEFINE wv == Append(f, v)
<1>9. /\ l \in Nat /\ Left(s, wv) = l /\ l = Len(s) - Len(wv) /\ l + Len(f) + 1 = Len(s)
      /\ l = IF w = <<>> THEN Len(s) - 1 ELSE Left(s, w)
  <2>1. CASE w = <<>>
    BY <1>1, <1>7, <1>8, <2>1 DEF Left
  <2>2. CASE w # <<>>
    <3>1. Len(w) # 0
      BY <1>1, <2>2
    <3> QED
      BY <1>1, <1>7, <1>8, <2>2, <3>1 DEF Left
  <2> QED
    BY <2>1, <2>2
<1>10. \E y \in {<<>>, TextOf(files, g)} : Newer(y, x, n)
  <2>1. CASE w = <<>>
    <3>1. plan.text = TextOf(files, g)
      <4>1. Left(s, w) = Len(s)
        BY <1>1, <2>1 DEF Left
      <4>2. t[Len(s)] = TextOf(files, s[Len(s)])
        <5>1. \A i \in 1..Len(s) : t[i] = IF i > Left(s, w) THEN w[i - Left(s, w)].text ELSE TextOf(files, s[i])
          BY <1>1, TextsAfterType
        <5> HIDE DEF t
        <5> QED
          BY <1>1, <4>1, <5>1
      <4> QED
        BY <1>1, <1>3, <4>2
    <3>2. Newer(plan.text, x, n)
      BY <1>1, NewerOne DEF x
    <3> QED
      BY <3>1, <3>2
  <2>2. CASE w # <<>>
    <3>1. Len(w) \in 1..Len(w) /\ Left(s, w) + Len(w) = Len(s)
      BY <1>1, <2>2 DEF Left
    <3>2. w[Len(w)].file = g
      BY <1>2, <1>3, <3>1 DEF WritesFit
    <3>3. w[Len(w)].text = plan.text
      <4>1. \A i \in 1..Len(s) : t[i] = IF i > Left(s, w) THEN w[i - Left(s, w)].text ELSE TextOf(files, s[i])
        BY <1>1, TextsAfterType
      <4>2. Len(s) > Left(s, w) /\ Len(s) - Left(s, w) = Len(w) /\ Len(s) \in 1..Len(s)
        BY <1>1, <3>1
      <4> HIDE DEF t
      <4> QED
        BY <1>1, <4>1, <4>2
    <3>4. PICK y \in {<<>>, TextOf(files, g)} : Newer(y, plan.text, n)
      BY <1>2, <3>1, <3>2, <3>3 DEF WritesFit
    <3>5. y \in Texts
      <4>1. <<>> \in Texts /\ TextOf(files, g) \in Texts
        BY TextOfType DEF Texts
      <4> QED
        BY <3>4, <4>1
    <3>6. Newer(y, x, n)
      BY <1>1, <3>4, <3>5, NewerGrows DEF x
    <3> QED
      BY <3>6
  <2> QED
    BY <2>1, <2>2
<1>11. WritesFit(files, Len(segs), s, wv, n)
  <2>1. ASSUME NEW i \in DOMAIN wv
        PROVE  wv[i].file = s[l + i] /\ \E y \in {<<>>, TextOf(files, wv[i].file)} : Newer(y, wv[i].text, n)
    <3>0. i \in 1..(Len(f) + 1)
      BY <1>8
    <3>1. CASE i \in 1..Len(f)
      <4>1. wv[i] = w[i]
        BY <1>8, <3>1
      <4>2. w # <<>> /\ i \in DOMAIN w
        BY <1>1, <1>7, <3>1
      <4>3. l = Left(s, w)
        BY <1>9, <4>2
      <4>4. w[i].file = s[l + i] /\ \E y \in {<<>>, TextOf(files, w[i].file)} : Newer(y, w[i].text, n)
        BY <1>2, <4>2, <4>3 DEF WritesFit
      <4> QED
        BY <4>1, <4>4
    <3>2. CASE i \notin 1..Len(f)
      <4>1. i = Len(f) + 1
        BY <1>7, <3>0, <3>2
      <4>2. l + i = Len(s) /\ wv[i] = v
        BY <1>7, <1>8, <1>9, <4>1
      <4> QED
        BY <1>3, <1>5, <1>10, <4>2
    <3> QED
      BY <3>1, <3>2
  <2>2. Len(segs) <= l + 1
    <3>1. Len(segs) <= Left(s, w) + 1 /\ Len(segs) <= Len(s) /\ Len(segs) \in Nat
      BY <1>2 DEF WritesFit, Grows
    <3> QED
      BY <1>1, <1>9, <3>1
  <2>3. ASSUME Len(segs) = l + 1 PROVE Grows(TextOf(files, wv[1].file), wv[1].text)
    <3>1. CASE Len(f) = 0
      <4>1. wv[1] = v
        BY <1>8, <3>1
      <4>2. CASE w = <<>>
        <5>1. Left(s, w) = Len(s)
          BY <1>1, <4>2 DEF Left
        <5>2. t[Len(s)] = TextOf(files, s[Len(s)])
          <6>1. \A i \in 1..Len(s) : t[i] = IF i > Left(s, w) THEN w[i - Left(s, w)].text ELSE TextOf(files, s[i])
            BY <1>1, TextsAfterType
          <6> HIDE DEF t
          <6> QED
            BY <1>1, <5>1, <6>1
        <5> QED
          BY <1>1, <1>3, <1>4, <1>5, <4>1, <5>2
      <4>3. CASE w # <<>>
        <5>1. Len(w) = 1 /\ l = Left(s, w)
          BY <1>1, <1>7, <1>9, <3>1, <4>3
        <5>2. Grows(TextOf(files, w[1].file), w[1].text) /\ w[1].file = s[l + 1]
          BY <1>2, <2>3, <5>1 DEF WritesFit
        <5>3. l + 1 = Len(s)
          BY <1>9, <3>1
        <5>4. w[1].text = plan.text
          <6>1. \A i \in 1..Len(s) : t[i] = IF i > Left(s, w) THEN w[i - Left(s, w)].text ELSE TextOf(files, s[i])
            BY <1>1, TextsAfterType
          <6>2. Len(s) > Left(s, w) /\ Len(s) - Left(s, w) = 1 /\ Len(s) \in 1..Len(s)
            BY <1>1, <5>1, <5>3
          <6> HIDE DEF t
          <6> QED
            BY <1>1, <6>1, <6>2
        <5>5. TextOf(files, g) \in Texts /\ w[1].file = g
          BY <1>3, <5>2, <5>3, TextOfType
        <5>6. Grows(TextOf(files, g), x)
          BY <1>1, <1>4, <5>2, <5>4, <5>5, GrowsTwice DEF Texts
        <5> QED
          BY <1>5, <4>1, <5>6
      <4> QED
        BY <4>2, <4>3
    <3>2. CASE Len(f) # 0
      <4>1. 1 \in 1..Len(f) /\ w # <<>>
        <5>1. Len(f) \in Nat \ {0}
          BY <1>7, <3>2
        <5>2. w # <<>>
          BY <1>7, <3>2
        <5> QED
          BY <5>1, <5>2
      <4>2. wv[1] = w[1] /\ l = Left(s, w)
        BY <1>8, <1>9, <4>1
      <4> QED
        BY <1>2, <2>3, <4>2 DEF WritesFit
    <3> QED
      BY <3>1, <3>2
  <2> HIDE DEF l, wv
  <2> QED
    BY <1>9, <2>1, <2>2, <2>3 DEF WritesFit
<1> DEFINE u == TextsAfter(files, s, wv)
<1>12. /\ t \in Seq(Texts) /\ Len(t) = Len(s)
       /\ \A i \in 1..Len(s) : t[i] = IF i > Left(s, w) THEN w[i - Left(s, w)].text ELSE TextOf(files, s[i])
  BY <1>1, TextsAfterType
<1>13. /\ u \in Seq(Texts) /\ Len(u) = Len(s)
       /\ \A i \in 1..Len(s) : u[i] = IF i > l THEN wv[i - l].text ELSE TextOf(files, s[i])
  <2>1. wv \in Seq(WriteType) /\ Left(s, wv) \in Nat /\ Left(s, wv) = l
    BY <1>8, <1>9
  <2> HIDE DEF wv, l
  <2> QED
    BY <1>1, <2>1, TextsAfterType
<1>14. u[Len(s)] = x
  <2>1. Len(s) > l /\ Len(s) - l = Len(f) + 1 /\ Len(s) \in 1..Len(s)
    BY <1>1, <1>7, <1>9
  <2> HIDE DEF u, l
  <2> QED
    BY <1>5, <1>8, <1>13, <2>1
<1>15. ASSUME NEW i \in 1..(Len(s) - 1) PROVE u[i] = t[i]
  <2>0. i \in 1..Len(s)
    BY <1>1
  <2>1. CASE w = <<>>
    <3>1. ~(i > l) /\ ~(i > Left(s, w))
      BY <1>1, <1>9, <2>1 DEF Left
    <3> HIDE DEF u, t, l
    <3> QED
      BY <1>12, <1>13, <2>0, <3>1
  <2>2. CASE w # <<>>
    <3>1. l = Left(s, w)
      BY <1>9, <2>2
    <3>2. CASE i > l
      <4>1. i - l \in 1..Len(f)
        BY <1>1, <1>7, <1>9, <3>2
      <4>2. wv[i - l] = w[i - l]
        BY <1>8, <4>1
      <4> HIDE DEF u, t, l, wv
      <4> QED
        BY <1>12, <1>13, <2>0, <3>1, <3>2, <4>2
    <3>3. CASE ~(i > l)
      <4> HIDE DEF u, t, l, wv
      <4> QED
        BY <1>12, <1>13, <2>0, <3>1, <3>3
    <3> QED
      BY <3>2, <3>3
  <2> QED
    BY <2>1, <2>2
<1>16. u = Append(Front(t), x)
  <2> DEFINE R == Texts
  <2>1. t \in Seq(R) /\ u \in Seq(R) /\ x \in R /\ t # <<>>
    BY <1>1, <1>4, <1>12, <1>13
  <2> HIDE DEF R, u, t
  <2>2. /\ Front(t) \in Seq(R) /\ Len(Front(t)) = Len(s) - 1
        /\ \A i \in 1..(Len(s) - 1) : Front(t)[i] = t[i]
    BY <1>12, <2>1, FrontLast
  <2>3. Len(u) = Len(Front(t)) + 1 /\ u[Len(Front(t)) + 1] = x /\ \A i \in 1..Len(Front(t)) : u[i] = Front(t)[i]
    BY <1>1, <1>13, <1>14, <1>15, <2>2
  <2> QED
    BY <2>1, <2>2, <2>3, IsAppended
<1>17. FlattenSeq(u) = ReadOf(files, segs) \o Append(done, e)
  <2>1. FlattenSeq(u) = Append(FlattenSeq(t), e)
    <3>1. t \in Seq(Seq(Events)) /\ t # <<>> /\ x = Append(t[Len(t)], e)
      BY <1>1, <1>12 DEF Texts, x
    <3> HIDE DEF t, u
    <3> QED
      BY <1>16, <3>1, FlattenTouch
  <2>2. ReadOf(files, segs) \in Seq(Events) /\ done \in Seq(Events)
    BY ReadOfType DEF Texts
  <2>3. FlattenSeq(t) = ReadOf(files, segs) \o done
    BY <1>2
  <2> DEFINE r == ReadOf(files, segs)
  <2> HIDE DEF r, t, u
  <2>4. (r \o done) \o <<e>> = r \o (done \o <<e>>)
    BY <2>2, ConcatAssociative DEF r
  <2>5. done \o <<e>> = Append(done, e) /\ (r \o done) \o <<e>> = Append(r \o done, e)
    BY <2>2 DEF r
  <2> QED
    BY <2>1, <2>3, <2>4, <2>5 DEF r
<1> HIDE DEF u, t, l
<1>18. Filling(files, segs, n, next, Append(done, e)) /\ next.writes # <<>>
  BY <1>1, <1>2, <1>4, <1>6, <1>8, <1>11, <1>14, <1>17 DEF Filling, u
<1> QED
  BY <1>18 DEF next

\* One event of the batch.
LEMMA FillStep ==
    ASSUME NEW files, FilesOk(files), NEW segs \in Seq(Names), NEW n \in Nat, NEW plan, NEW done \in Texts,
           Filling(files, segs, n, plan, done), NEW e \in Events, e.seq >= n
    PROVE  Filling(files, segs, n, Filled(plan, e), Append(done, e)) /\ Filled(plan, e).writes # <<>>
<1> DEFINE fresh == plan.segs = <<>> \/ Len(plan.text) >= Capacity
<1>1. CASE fresh
  <2>1. Filled(plan, e) = [segs |-> Append(plan.segs, Segment(Len(plan.segs))), text |-> <<e>>,
                           writes |-> Append(plan.writes, [file |-> Segment(Len(plan.segs)), text |-> <<e>>])]
    <3>1. plan.segs \in Seq(Names) /\ Segment(Len(plan.segs)) \in Names
      BY DEF Filling, Names, Segment
    <3>2. Last(Append(plan.segs, Segment(Len(plan.segs)))) = Segment(Len(plan.segs))
      BY <3>1, Appended DEF Last
    <3> QED
      BY <1>1, <3>2 DEF Filled
  <2> HIDE DEF fresh
  <2> QED
    BY <2>1, FillOpens
<1>2. CASE ~fresh
  <2>1. Filled(plan, e) = Touched(plan, e)
    BY <1>2 DEF Filled, Touched
  <2>2. plan.segs # <<>>
    BY <1>2
  <2> HIDE DEF fresh
  <2> QED
    BY <2>1, <2>2, FillTouches
<1> QED
  BY <1>1, <1>2

PlanBase(files, segs) ==
    [segs |-> segs, text |-> IF segs = <<>> THEN <<>> ELSE TextOf(files, Last(segs)), writes |-> <<>>]

\* A plan before the first event.
LEMMA FillBegins ==
    ASSUME NEW files, FilesOk(files), NEW segs \in Seq(Names), NEW n \in Nat
    PROVE  Filling(files, segs, n, PlanBase(files, segs), <<>>)
<1> DEFINE p == PlanBase(files, segs)
           t == TextsAfter(files, segs, <<>>)
<1>1. /\ p.segs = segs /\ p.writes = <<>>
      /\ p.text = IF segs = <<>> THEN <<>> ELSE TextOf(files, Last(segs))
  BY DEF PlanBase
<1>2. p.text \in Texts
  <2>1. <<>> \in Texts /\ TextOf(files, Last(segs)) \in Texts
    BY TextOfType DEF Texts
  <2> QED
    BY <1>1, <2>1
<1>3. <<>> \in Seq(WriteType) /\ Len(<<>>) = 0 /\ Len(segs) \in Nat /\ Left(segs, <<>>) = Len(segs)
  BY DEF Left
<1>4. /\ t \in Seq(Texts) /\ Len(t) = Len(segs) /\ \A i \in 1..Len(segs) : t[i] = TextOf(files, segs[i])
  <2>1. \A i \in 1..Len(segs) : ~(i > Left(segs, <<>>))
    BY <1>3
  <2>2. /\ t \in Seq(Texts) /\ Len(t) = Len(segs)
        /\ \A i \in 1..Len(segs) :
              t[i] = IF i > Left(segs, <<>>) THEN (<<>>)[i - Left(segs, <<>>)].text ELSE TextOf(files, segs[i])
    <3> HIDE DEF t
    <3>1. Left(segs, <<>>) \in Nat
      BY <1>3
    <3> QED
      BY <1>3, <3>1, TextsAfterType DEF t
  <2> HIDE DEF t
  <2> QED
    BY <2>1, <2>2
<1>5. t = TextsOf(files, segs)
  <2>1. /\ TextsOf(files, segs) \in Seq(Texts) /\ Len(TextsOf(files, segs)) = Len(segs)
        /\ \A i \in 1..Len(segs) : TextsOf(files, segs)[i] = TextOf(files, segs[i])
    BY TextsOfType
  <2> DEFINE R == Texts
             u == TextsOf(files, segs)
  <2>2. t \in Seq(R) /\ u \in Seq(R) /\ Len(t) = Len(u) /\ \A i \in 1..Len(t) : t[i] = u[i]
    BY <1>4, <2>1
  <2> HIDE DEF R, t, u
  <2>3. t = u
    BY <2>2, SeqEqual
  <2> QED
    BY <2>3 DEF u
<1>6. FlattenSeq(t) = ReadOf(files, segs) \o <<>>
  <2>1. ReadOf(files, segs) \in Seq(Events)
    BY ReadOfType DEF Texts
  <2> QED
    BY <1>5, <2>1, ConcatEmptySeq DEF ReadOf
<1>7. segs # <<>> => t[Len(segs)] = p.text
  <2> HIDE DEF t, p
  <2> QED
    BY <1>1, <1>4 DEF Last
<1>8. WritesFit(files, Len(segs), segs, <<>>, n)
  BY <1>3 DEF WritesFit
<1>9. Grows(segs, segs) /\ \A i \in DOMAIN segs : i > Len(segs) => segs[i] = Segment(i - 1)
  <2>1. Grows(segs, segs)
    BY GrowsSelf
  <2> QED
    BY <2>1
<1> HIDE DEF p
<1> QED
  BY <1>1, <1>2, <1>3, <1>6, <1>7, <1>8, <1>9 DEF Filling, p

\* The plan of a batch: every event is in it, behind what is stored.
LEMMA PlanFits ==
    ASSUME NEW files, FilesOk(files), NEW segs \in Seq(Names), NEW n \in Nat, NEW batch \in Texts,
           \A i \in 1..Len(batch) : batch[i].seq >= n, batch # <<>>
    PROVE  LET p == FoldLeft(Filled, PlanBase(files, segs), batch) IN
           Filling(files, segs, n, p, batch) /\ p.writes # <<>>
<1> DEFINE m == Len(batch)
           B(k) == SubSeq(batch, 1, k)
<1>1. PICK F : /\ F[0] = PlanBase(files, segs)
               /\ \A k \in 1..Len(batch) : F[k] = Filled(F[k-1], batch[k])
               /\ FoldLeft(Filled, PlanBase(files, segs), batch) = F[Len(batch)]
  <2>1. batch \in Seq(Events)
    BY DEF Texts
  <2> QED
    BY <2>1, FoldSteps
<1>2. m \in Nat \ {0} /\ batch \in Seq(Events)
  BY DEF Texts
<1>3. ASSUME NEW k \in 0..m
      PROVE  B(k) \in Seq(Events) /\ Len(B(k)) = k /\ \A i \in 1..k : B(k)[i] = batch[i]
  <2>1. 1 \in Int /\ k \in Int /\ (\A i \in 1..k : batch[i] \in Events)
        /\ k - 1 + 1 = k /\ (~(1 <= k) => k = 0) /\ \A i \in 1..k : 1 + i - 1 = i
    BY <1>2
  <2>2. /\ SubSeq(batch, 1, k) \in Seq(Events)
        /\ Len(SubSeq(batch, 1, k)) = (IF 1 <= k THEN k - 1 + 1 ELSE 0)
        /\ \A i \in 1..(k - 1 + 1) : SubSeq(batch, 1, k)[i] = batch[1 + i - 1]
    BY <2>1, SubSeqProperties
  <2> QED
    BY <2>1, <2>2
<1> DEFINE T == {k \in Nat : k <= m => Filling(files, segs, n, F[k], B(k)) /\ (k # 0 => F[k].writes # <<>>)}
<1>4. 0 \in T
  <2>1. B(0) = <<>>
    <3>1. B(0) \in Seq(Events) /\ Len(B(0)) = 0
      BY <1>2, <1>3
    <3> HIDE DEF B
    <3> QED
      BY <3>1
  <2>2. Filling(files, segs, n, F[0], <<>>)
    BY <1>1, FillBegins
  <2> HIDE DEF B
  <2> QED
    BY <2>1, <2>2
<1>5. ASSUME NEW k \in T PROVE k + 1 \in T
  <2>1. k \in Nat
    OBVIOUS
  <2> SUFFICES ASSUME k + 1 <= m
               PROVE  Filling(files, segs, n, F[k + 1], B(k + 1)) /\ F[k + 1].writes # <<>>
    BY <2>1
  <2>2. k \in 0..m /\ k + 1 \in 0..m /\ k + 1 \in 1..m /\ (k + 1) - 1 = k
    BY <1>2, <2>1
  <2>3. Filling(files, segs, n, F[k], B(k))
    BY <2>2
  <2> HIDE DEF T
  <2>4. F[k + 1] = Filled(F[k], batch[k + 1])
    BY <1>1, <2>2
  <2>5. batch[k + 1] \in Events /\ batch[k + 1].seq >= n /\ B(k) \in Texts
    BY <1>2, <1>3, <2>2 DEF Texts
  <2>6. B(k + 1) = Append(B(k), batch[k + 1])
    <3>1. /\ B(k) \in Seq(Events) /\ Len(B(k)) = k /\ \A i \in 1..k : B(k)[i] = batch[i]
          /\ B(k + 1) \in Seq(Events) /\ Len(B(k + 1)) = k + 1 /\ \A i \in 1..(k + 1) : B(k + 1)[i] = batch[i]
      BY <1>3, <2>2
    <3> HIDE DEF B
    <3>2. \A i \in 1..k : i \in 1..(k + 1)
      BY <2>1
    <3>3. k + 1 \in 1..(k + 1)
      BY <2>1
    <3>4. \A i \in 1..Len(B(k)) : B(k + 1)[i] = B(k)[i]
      BY <3>1, <3>2
    <3> QED
      BY <2>5, <3>1, <3>3, <3>4, IsAppended
  <2> HIDE DEF B, m
  <2>7. /\ Filling(files, segs, n, Filled(F[k], batch[k + 1]), Append(B(k), batch[k + 1]))
        /\ Filled(F[k], batch[k + 1]).writes # <<>>
    BY <2>3, <2>5, FillStep
  <2> QED
    BY <2>4, <2>6, <2>7
<1>6. T = Nat
  <2>1. T \subseteq Nat
    OBVIOUS
  <2> HIDE DEF T
  <2> QED
    BY <1>4, <1>5, <2>1, SetInduction
<1>7. Filling(files, segs, n, F[m], B(m)) /\ F[m].writes # <<>>
  <2> HIDE DEF B
  <2> QED
    BY <1>2, <1>6
<1>8. B(m) = batch
  <2>1. B(m) \in Seq(Events) /\ Len(B(m)) = Len(batch) /\ \A i \in 1..m : B(m)[i] = batch[i]
    BY <1>2, <1>3
  <2> HIDE DEF B
  <2> QED
    BY <1>2, <2>1, SeqEqual
<1> HIDE DEF B
<1> QED
  BY <1>1, <1>7, <1>8

-------------------------------------------------------------------------------
(* The invariant of the stored log.  The manifest in memory goes on where  *)
(* the stored one ends, what was acknowledged is at the beginning of what  *)
(* the stored manifest names, and what an append or a compaction has yet   *)
(* to write leaves it there.                                               *)

StoredOf(d) == IF d.man = None THEN <<>> ELSE ReadOf(d.files, d.man.segs)
PutIn(files, f, text) == [g \in DOMAIN files \union {f} |-> IF g = f THEN text ELSE files[g]]

ManType == [segs : Seq(Names), next : Nat]
Agents == {"caller", "load", "prepare"}
AppendType == [pc : {"segments"}, by : Agents, batch : Texts, writes : Seq(WriteType)]
ManifestType == [pc : {"manifest"}, by : Agents, batch : Texts]
CompactType == [pc : {"replace", "switch", "remove"}, file : Names, text : Texts, old : Seq(Names), next : ManType]
OpType == {Idle, [pc |-> "create"]} \union AppendType \union ManifestType \union CompactType
UsedType == [compacts : Nat, loads : Nat, faults : Nat, crashes : 0..MaxCrashes]

DiskShape(d) ==
    d = [man |-> d.man, files |-> d.files] /\ d.man \in ManType \union {None} /\ FilesOk(d.files)

\* A segment is called by its place; a compacted log is the first one, with a number below n.
NamesOk(segs, n) ==
    \A i \in DOMAIN segs : \/ segs[i] = Segment(i - 1)
                           \/ i = 1 /\ \E k \in Nat : k < n /\ segs[i] = Compact(k)

ShapeInv ==
    /\ DiskShape(disk) /\ mem \in ManType \union {None} /\ op \in OpType
    /\ image = [disk |-> image.disk, acked |-> image.acked] /\ DiskShape(image.disk)
    /\ acked \in Texts /\ image.acked \in Texts /\ used \in UsedType

\* The stored manifest is the beginning of the one in memory.
BaseInv ==
    /\ disk.man # None => NamesOk(disk.man.segs, used.compacts)
    /\ image.disk.man # None => NamesOk(image.disk.man.segs, used.compacts)
    /\ mem # None => /\ NamesOk(mem.segs, used.compacts) /\ disk.man # None
                     /\ Grows(disk.man.segs, mem.segs) /\ disk.man.next <= mem.next
    /\ op.pc \notin {"idle", "create"} => mem # None
    /\ op.pc = "create" => disk.man = None /\ mem = None

AckOk(d, a) == Grows(a, StoredOf(d)) /\ (a # <<>> => Last(a).seq < d.man.next)
AckInv == AckOk(disk, acked) /\ AckOk(image.disk, image.acked)

\* The log as it will be when the writes of the append are done.
Planned == FlattenSeq(TextsAfter(disk.files, mem.segs, op.writes))
EndsBefore(events, n) == events # <<>> /\ Last(events).seq < n

WriteInv ==
    /\ op.pc = "segments" =>
          /\ op.writes # <<>>
          /\ WritesFit(disk.files, Len(disk.man.segs), mem.segs, op.writes, mem.next)
          /\ EndsBefore(Planned, mem.next + Len(op.batch))
    /\ op.pc = "manifest" => EndsBefore(ReadOf(disk.files, mem.segs), mem.next)

CompactInv ==
    /\ op.pc \in {"replace", "switch"} =>
          /\ op.text = ReadOf(disk.files, mem.segs) /\ Contiguous(op.text) /\ op.old = mem.segs
          /\ op.next = [mem EXCEPT !.segs = IF op.text = <<>> THEN <<>> ELSE <<op.file>>]
          /\ \E n \in Nat : n < used.compacts /\ op.file = Compact(n)
          /\ \A i \in DOMAIN mem.segs : mem.segs[i] # op.file
    /\ op.pc = "switch" => TextOf(disk.files, op.file) = op.text
    /\ op.pc = "remove" =>
          /\ mem = disk.man
          /\ \A i \in DOMAIN op.old, j \in DOMAIN mem.segs : op.old[i] # mem.segs[j]

StoreInv == ShapeInv /\ BaseInv /\ AckInv /\ WriteInv /\ CompactInv

-------------------------------------------------------------------------------
(* The parts of the state.                                                 *)

\* A manifest is not the absence of one.
LEMMA ManIsNotNone == \A m \in ManType : m # None
<1> SUFFICES ASSUME NEW m \in ManType, m = None PROVE FALSE
  OBVIOUS
<1>1. DOMAIN m = {"segs", "next"} /\ DOMAIN None = {"none"}
  BY DEF ManType, None
<1> QED
  BY <1>1

\* The operation under way has the fields of its program counter.
LEMMA OpParts ==
    ASSUME op \in OpType
    PROVE  /\ op.pc \in {"idle", "create", "segments", "manifest", "replace", "switch", "remove"}
           /\ op.pc = "idle" <=> op = Idle
           /\ op.pc = "create" => op = [pc |-> "create"]
           /\ op.pc = "segments" => op \in AppendType
           /\ op.pc = "manifest" => op \in ManifestType
           /\ op.pc \in {"replace", "switch", "remove"} => op \in CompactType
BY DEF OpType, Idle, AppendType, ManifestType, CompactType

\* Two segments, two compacted logs, or one of each, have different names.
LEMMA NamesApart ==
    \A m, n \in Nat : /\ Segment(m) # Compact(n) /\ (Segment(m) = Segment(n) => m = n)
                      /\ (Compact(m) = Compact(n) => m = n)
                      /\ Segment(m) \in Names /\ Compact(m) \in Names
BY DEF Segment, Compact, Names

\* No two segments have one name.
LEMMA NamesDiffer ==
    ASSUME NEW segs \in Seq(Names), NEW n \in Nat, NamesOk(segs, n),
           NEW i \in 1..Len(segs), NEW j \in 1..Len(segs), i # j
    PROVE  segs[i] # segs[j]
<1>1. i \in DOMAIN segs /\ j \in DOMAIN segs /\ i - 1 \in Nat /\ j - 1 \in Nat /\ i - 1 # j - 1
  OBVIOUS
<1> QED
  BY <1>1, NamesApart DEF NamesOk

\* Names that were good stay good as the compactions are counted.
LEMMA NamesStayOk ==
    ASSUME NEW segs, NEW m \in Nat, NEW n \in Nat, m <= n, NamesOk(segs, m)
    PROVE  NamesOk(segs, n)
<1> SUFFICES ASSUME NEW i \in DOMAIN segs
             PROVE  \/ segs[i] = Segment(i - 1)
                    \/ i = 1 /\ \E k \in Nat : k < n /\ segs[i] = Compact(k)
  BY DEF NamesOk
<1>1. CASE segs[i] = Segment(i - 1)
  BY <1>1
<1>2. CASE segs[i] # Segment(i - 1)
  <2>1. i = 1 /\ \E k \in Nat : k < m /\ segs[i] = Compact(k)
    BY <1>2 DEF NamesOk
  <2>2. PICK k \in Nat : k < m /\ segs[i] = Compact(k)
    BY <2>1
  <2>3. k < n
    BY <2>2
  <2> QED
    BY <2>1, <2>2, <2>3
<1> QED
  BY <1>1, <1>2

\* The operators of the specification, in terms of the files.
LEMMA ReadIs == \A m : Read(m) = ReadOf(disk.files, m.segs)
BY DEF Read, ReadOf, TextsOf, Text, TextOf

\* Stored, in terms of the files.
LEMMA StoredIs == Stored = StoredOf(disk)
BY ReadIs DEF Stored, StoredOf

\* Put, in terms of the files.
LEMMA PutIs == \A f, text : Put(f, text) = PutIn(disk.files, f, text)
BY DEF Put, PutIn

\* A file that is written has the text that was written, and the others have theirs.
LEMMA PutType ==
    ASSUME NEW files, FilesOk(files), NEW f \in Names, NEW text \in Texts
    PROVE  /\ FilesOk(PutIn(files, f, text))
           /\ TextOf(PutIn(files, f, text), f) = text
           /\ \A g : g # f => TextOf(PutIn(files, f, text), g) = TextOf(files, g)
BY DEF FilesOk, PutIn, TextOf

\* What is read depends on the files that are named.
LEMMA ReadSame ==
    ASSUME NEW files, NEW others, NEW segs, \A i \in DOMAIN segs : TextOf(files, segs[i]) = TextOf(others, segs[i])
    PROVE  ReadOf(files, segs) = ReadOf(others, segs)
<1>1. TextsOf(files, segs) = TextsOf(others, segs)
  BY DEF TextsOf
<1> QED
  BY <1>1 DEF ReadOf

\* The stored log is a sequence of events.
LEMMA StoredOfType ==
    ASSUME NEW d, DiskShape(d)
    PROVE  StoredOf(d) \in Texts
<1>1. CASE d.man = None
  BY <1>1 DEF StoredOf, Texts
<1>2. CASE d.man # None
  <2>1. d.man \in ManType /\ FilesOk(d.files)
    BY <1>2 DEF DiskShape
  <2>2. d.man.segs \in Seq(Names)
    BY <2>1 DEF ManType
  <2> QED
    BY <1>2, <2>1, <2>2, ReadOfType DEF StoredOf
<1> QED
  BY <1>1, <1>2

\* More segments, more events.
LEMMA ReadMore ==
    ASSUME NEW files, FilesOk(files), NEW segs \in Seq(Names), NEW more \in Seq(Names), Grows(segs, more)
    PROVE  Grows(ReadOf(files, segs), ReadOf(files, more))
<1> DEFINE t == TextsOf(files, segs)
           u == TextsOf(files, more)
<1>1. /\ t \in Seq(Texts) /\ Len(t) = Len(segs) /\ \A i \in 1..Len(segs) : t[i] = TextOf(files, segs[i])
      /\ u \in Seq(Texts) /\ Len(u) = Len(more) /\ \A i \in 1..Len(more) : u[i] = TextOf(files, more[i])
  BY TextsOfType
<1> HIDE DEF t, u
<1>2. Grows(t, u)
  BY <1>1 DEF Grows
<1>3. t \in Seq(Seq(Events)) /\ u \in Seq(Seq(Events))
  BY <1>1 DEF Texts
<1>4. Grows(FlattenSeq(t), FlattenSeq(u))
  BY <1>2, <1>3, FlattenMore
<1> QED
  BY <1>4 DEF ReadOf, t, u

-------------------------------------------------------------------------------
(* What one write of an append does to the log.                            *)

Writes(files, others, writes) == others = PutIn(files, Head(writes).file, Head(writes).text)

\* The writes that are left fit the files as they are then, and lead to the same texts.
LEMMA WriteOne ==
    ASSUME NEW files, FilesOk(files), NEW segs \in Seq(Names), NEW c \in Nat, NamesOk(segs, c),
           NEW writes \in Seq(WriteType), writes # <<>>, NEW base \in Nat, NEW n \in Nat,
           WritesFit(files, base, segs, writes, n),
           NEW others, Writes(files, others, writes)
    PROVE  /\ FilesOk(others) /\ Tail(writes) \in Seq(WriteType)
           /\ Left(segs, writes) + 1 \in 1..Len(segs)
           /\ Head(writes).file = segs[Left(segs, writes) + 1]
           /\ TextOf(others, segs[Left(segs, writes) + 1]) = Head(writes).text
           /\ \A f : f # segs[Left(segs, writes) + 1] => TextOf(others, f) = TextOf(files, f)
           /\ \A i \in 1..Len(segs) : i # Left(segs, writes) + 1 => TextOf(others, segs[i]) = TextOf(files, segs[i])
           /\ WritesFit(others, base, segs, Tail(writes), n)
           /\ TextsAfter(others, segs, Tail(writes)) = TextsAfter(files, segs, writes)
           /\ Tail(writes) = <<>> => TextsOf(others, segs) = TextsAfter(files, segs, writes)
<1> DEFINE l == Left(segs, writes)
           r == Tail(writes)
           h == Head(writes)
<1>1. /\ l \in Nat /\ l = Len(segs) - Len(writes) /\ Len(segs) \in Nat /\ Len(writes) \in Nat \ {0}
      /\ DOMAIN writes = 1..Len(writes)
  BY DEF WritesFit, Left
<1>2. /\ r \in Seq(WriteType) /\ Len(r) = Len(writes) - 1 /\ \A i \in 1..(Len(writes) - 1) : r[i] = writes[i + 1]
      /\ h = writes[1] /\ h \in WriteType
  OBVIOUS
<1>3. h.file \in Names /\ h.text \in Texts
  BY <1>2 DEF WriteType
<1>4. h.file = segs[l + 1] /\ l + 1 \in 1..Len(segs) /\ 1 \in DOMAIN writes
  <2>1. l + 1 \in 1..Len(segs) /\ 1 \in DOMAIN writes
    BY <1>1
  <2> QED
    BY <1>2, <2>1 DEF WritesFit
<1>5. /\ FilesOk(others) /\ TextOf(others, h.file) = h.text
      /\ \A f : f # h.file => TextOf(others, f) = TextOf(files, f)
  BY <1>3, PutType DEF Writes, h
<1>6. \A i \in 1..Len(segs) : i # l + 1 => segs[i] # segs[l + 1]
  BY <1>4, NamesDiffer
<1>7. \A i \in 1..Len(segs) : i # l + 1 => TextOf(others, segs[i]) = TextOf(files, segs[i])
  BY <1>4, <1>5, <1>6
<1>8. Left(segs, r) = l + 1
  <2> HIDE DEF r
  <2> QED
    BY <1>1, <1>2 DEF Left
<1>20. \A i \in DOMAIN writes : /\ writes[i].file = segs[l + i]
                                /\ \E x \in {<<>>, TextOf(files, writes[i].file)} : Newer(x, writes[i].text, n)
  BY DEF WritesFit
<1>21. base <= l + 1 /\ base \in Nat
  BY DEF WritesFit
<1> HIDE DEF l, r, h
<1>9. WritesFit(others, base, segs, r, n)
  <2>1. ASSUME NEW i \in DOMAIN r
        PROVE  /\ r[i].file = segs[(l + 1) + i]
               /\ \E x \in {<<>>, TextOf(others, r[i].file)} : Newer(x, r[i].text, n)
    <3>1. i \in 1..(Len(writes) - 1) /\ i + 1 \in DOMAIN writes
      BY <1>1, <1>2
    <3>2. r[i] = writes[i + 1] /\ l + (i + 1) = (l + 1) + i
      <4>1. r[i] = writes[i + 1]
        BY <1>2, <3>1
      <4>2. i \in Nat
        BY <3>1
      <4> QED
        BY <1>1, <4>1, <4>2
    <3>3. r[i].file = segs[(l + 1) + i] /\ \E x \in {<<>>, TextOf(files, r[i].file)} : Newer(x, r[i].text, n)
      BY <1>20, <3>1, <3>2
    <3>4. (l + 1) + i \in 1..Len(segs) /\ (l + 1) + i # l + 1
      BY <1>1, <3>1
    <3>5. TextOf(others, r[i].file) = TextOf(files, r[i].file)
      BY <1>7, <3>3, <3>4
    <3> QED
      BY <3>3, <3>5
  <2>2. base <= (l + 1) + 1 /\ base # (l + 1) + 1
    BY <1>1, <1>21
  <2> QED
    BY <1>1, <1>8, <2>1, <2>2 DEF WritesFit
<1> DEFINE t == TextsAfter(files, segs, writes)
           u == TextsAfter(others, segs, r)
<1>10. /\ t \in Seq(Texts) /\ Len(t) = Len(segs)
       /\ \A i \in 1..Len(segs) : t[i] = IF i > l THEN writes[i - l].text ELSE TextOf(files, segs[i])
  BY <1>1, TextsAfterType DEF l
<1>11. /\ u \in Seq(Texts) /\ Len(u) = Len(segs)
       /\ \A i \in 1..Len(segs) : u[i] = IF i > l + 1 THEN r[i - (l + 1)].text ELSE TextOf(others, segs[i])
  <2>1. Left(segs, r) \in Nat
    BY <1>1, <1>8
  <2> QED
    BY <1>2, <1>5, <1>8, <2>1, TextsAfterType
<1> HIDE DEF t, u
<1>12. ASSUME NEW i \in 1..Len(segs) PROVE u[i] = t[i]
  <2>1. CASE i > l + 1
    <3>1. i - (l + 1) \in 1..(Len(writes) - 1) /\ (i - (l + 1)) + 1 = i - l /\ i > l
      BY <1>1, <2>1
    <3>2. r[i - (l + 1)] = writes[i - l]
      BY <1>2, <3>1
    <3> QED
      BY <1>10, <1>11, <2>1, <3>1, <3>2
  <2>2. CASE i = l + 1
    <3>1. ~(i > l + 1) /\ i > l /\ i - l = 1
      BY <1>1, <2>2
    <3> QED
      BY <1>2, <1>4, <1>5, <1>10, <1>11, <2>2, <3>1
  <2>3. CASE ~(i > l + 1) /\ i # l + 1
    <3>1. ~(i > l)
      BY <1>1, <2>3
    <3> QED
      BY <1>7, <1>10, <1>11, <2>3, <3>1
  <2> QED
    BY <2>1, <2>2, <2>3
<1>13. u = t
  <2> DEFINE R == Texts
  <2>1. u \in Seq(R) /\ t \in Seq(R) /\ Len(u) = Len(t) /\ \A i \in 1..Len(u) : u[i] = t[i]
    BY <1>10, <1>11, <1>12
  <2> HIDE DEF R
  <2> QED
    BY <2>1, SeqEqual
<1>14. r = <<>> => TextsOf(others, segs) = t
  <2> SUFFICES ASSUME r = <<>> PROVE TextsOf(others, segs) = t
    OBVIOUS
  <2> DEFINE R == Texts
             v == TextsOf(others, segs)
  <2>1. v \in Seq(R) /\ Len(v) = Len(segs) /\ \A i \in 1..Len(segs) : v[i] = TextOf(others, segs[i])
    BY <1>5, TextsOfType
  <2>2. l + 1 = Len(segs)
    <3>1. Len(r) = 0
      OBVIOUS
    <3>2. Len(r) = Len(writes) - 1
      BY <1>2
    <3> DEFINE a == Len(r)
               b == Len(writes)
               d == Len(segs)
    <3>3. a = 0 /\ a = b - 1 /\ b \in Nat /\ d \in Nat /\ l = d - b
      BY <1>1, <3>1, <3>2
    <3> HIDE DEF a, b, d
    <3>4. b = 1
      BY ONLY <3>3
    <3>5. l + 1 = d
      BY ONLY <3>3, <3>4
    <3> QED
      BY <3>5 DEF d
  <2>3. \A i \in 1..Len(segs) : ~(i > l + 1)
    BY <1>1, <2>2
  <2>4. u \in Seq(R) /\ Len(v) = Len(u) /\ \A i \in 1..Len(v) : v[i] = u[i]
    BY <1>11, <2>1, <2>3
  <2> HIDE DEF R, v
  <2>5. v = u
    BY <2>1, <2>4, SeqEqual
  <2> QED
    BY <1>13, <2>5 DEF v
<1> QED
  BY <1>2, <1>4, <1>5, <1>7, <1>9, <1>13, <1>14 DEF l, r, h, t, u

\* What a manifest that the append goes on from names is kept at the beginning of what it names then.
LEMMA WriteKeeps ==
    ASSUME NEW files, FilesOk(files), NEW segs \in Seq(Names), NEW c \in Nat, NamesOk(segs, c),
           NEW writes \in Seq(WriteType), writes # <<>>, NEW n \in Nat,
           NEW base \in Seq(Names), Grows(base, segs),
           WritesFit(files, Len(base), segs, writes, n),
           NEW others, Writes(files, others, writes)
    PROVE  Grows(ReadOf(files, base), ReadOf(others, base))
<1> DEFINE l == Left(segs, writes)
           t == TextsOf(files, base)
           u == TextsOf(others, base)
<1>1. Len(base) \in Nat /\ Len(base) <= l + 1 /\ l \in Nat /\ Len(base) <= Len(segs)
      /\ \A i \in 1..Len(base) : segs[i] = base[i]
  BY DEF WritesFit, Grows
<1>2. /\ FilesOk(others) /\ Head(writes).file = segs[l + 1]
      /\ TextOf(others, segs[l + 1]) = Head(writes).text
      /\ \A i \in 1..Len(segs) : i # l + 1 => TextOf(others, segs[i]) = TextOf(files, segs[i])
  <2> DEFINE b == Len(base)
  <2>1. b \in Nat /\ WritesFit(files, b, segs, writes, n)
    OBVIOUS
  <2> HIDE DEF b
  <2>2. /\ FilesOk(others) /\ Tail(writes) \in Seq(WriteType)
        /\ Left(segs, writes) + 1 \in 1..Len(segs)
        /\ Head(writes).file = segs[Left(segs, writes) + 1]
        /\ TextOf(others, segs[Left(segs, writes) + 1]) = Head(writes).text
        /\ \A f : f # segs[Left(segs, writes) + 1] => TextOf(others, f) = TextOf(files, f)
        /\ \A i \in 1..Len(segs) : i # Left(segs, writes) + 1 => TextOf(others, segs[i]) = TextOf(files, segs[i])
        /\ WritesFit(others, b, segs, Tail(writes), n)
        /\ TextsAfter(others, segs, Tail(writes)) = TextsAfter(files, segs, writes)
        /\ Tail(writes) = <<>> => TextsOf(others, segs) = TextsAfter(files, segs, writes)
    BY <2>1, WriteOne
  <2> QED
    BY <2>2
<1>3. /\ t \in Seq(Texts) /\ Len(t) = Len(base) /\ \A i \in 1..Len(base) : t[i] = TextOf(files, base[i])
      /\ u \in Seq(Texts) /\ Len(u) = Len(base) /\ \A i \in 1..Len(base) : u[i] = TextOf(others, base[i])
  BY <1>2, TextsOfType
<1>4. Len(base) = l + 1 => Grows(TextOf(files, Head(writes).file), Head(writes).text)
  <2>1. Head(writes) = writes[1]
    OBVIOUS
  <2> QED
    BY <2>1 DEF WritesFit
<1> HIDE DEF l, t, u
<1>5. \A i \in 1..(Len(t) - 1) : t[i] = u[i]
  <2> SUFFICES ASSUME NEW i \in 1..(Len(t) - 1) PROVE t[i] = u[i]
    OBVIOUS
  <2>1. i \in 1..Len(base) /\ i \in 1..Len(segs) /\ i # l + 1
    BY <1>1, <1>3
  <2> QED
    BY <1>1, <1>2, <1>3, <2>1
<1>6. ASSUME t # <<>> PROVE Grows(t[Len(t)], u[Len(t)])
  <2> DEFINE k == Len(base)
  <2>1. Len(t) = k /\ k \in 1..Len(base) /\ k \in 1..Len(segs)
    BY <1>1, <1>3, <1>6
  <2>2. t[k] = TextOf(files, segs[k]) /\ u[k] = TextOf(others, segs[k])
    BY <1>1, <1>3, <2>1
  <2>3. CASE k = l + 1
    BY <1>2, <1>4, <2>1, <2>2, <2>3
  <2>4. CASE k # l + 1
    <3>1. u[k] = t[k] /\ t[k] \in Texts
      BY <1>2, <1>3, <2>1, <2>2, <2>4
    <3>2. Grows(t[k], t[k])
      BY <3>1, GrowsSelf DEF Texts
    <3> QED
      BY <2>1, <3>1, <3>2
  <2> QED
    BY <2>3, <2>4
<1>7. t \in Seq(Seq(Events)) /\ u \in Seq(Seq(Events)) /\ Len(t) <= Len(u)
  BY <1>1, <1>3 DEF Texts
<1>8. Grows(FlattenSeq(t), FlattenSeq(u))
  BY <1>5, <1>6, <1>7, FlattenGrows
<1> QED
  BY <1>8 DEF ReadOf, t, u

-------------------------------------------------------------------------------
(* Every step keeps the invariant of the stored log.                       *)

\* What is known of the manifest that an operation works on.
LEMMA ManifestParts ==
    ASSUME StoreInv, Manifest # None
    PROVE  /\ Manifest \in ManType /\ Manifest.segs \in Seq(Names) /\ Manifest.next \in Nat
           /\ disk.man \in ManType /\ disk.man.segs \in Seq(Names) /\ disk.man.next \in Nat /\ disk.man # None
           /\ NamesOk(Manifest.segs, used.compacts) /\ NamesOk(disk.man.segs, used.compacts)
           /\ Grows(disk.man.segs, Manifest.segs) /\ disk.man.next <= Manifest.next
           /\ Grows(StoredOf(disk), Read(Manifest)) /\ Read(Manifest) \in Texts /\ StoredOf(disk) \in Texts
           /\ FilesOk(disk.files) /\ Read(Manifest) = ReadOf(disk.files, Manifest.segs)
<1>1. disk.man # None /\ (mem # None => Manifest = mem) /\ (mem = None => Manifest = disk.man)
  BY DEF StoreInv, BaseInv, Manifest
<1>2. disk.man \in ManType /\ FilesOk(disk.files) /\ DiskShape(disk) /\ Manifest \in ManType
  BY <1>1 DEF StoreInv, ShapeInv, DiskShape
<1>3. disk.man.segs \in Seq(Names) /\ disk.man.next \in Nat /\ Manifest.segs \in Seq(Names) /\ Manifest.next \in Nat
  BY <1>2 DEF ManType
<1>4. /\ NamesOk(Manifest.segs, used.compacts) /\ NamesOk(disk.man.segs, used.compacts)
      /\ Grows(disk.man.segs, Manifest.segs) /\ disk.man.next <= Manifest.next
  <2>1. Grows(disk.man.segs, disk.man.segs) /\ disk.man.next <= disk.man.next
    BY <1>3, GrowsSelf
  <2> QED
    BY <1>1, <2>1 DEF StoreInv, BaseInv
<1>5. Grows(ReadOf(disk.files, disk.man.segs), ReadOf(disk.files, Manifest.segs))
  BY <1>2, <1>3, <1>4, ReadMore
<1>6. ReadOf(disk.files, Manifest.segs) \in Texts /\ StoredOf(disk) \in Texts
  BY <1>2, <1>3, ReadOfType, StoredOfType
<1>7. Read(Manifest) = ReadOf(disk.files, Manifest.segs)
  BY ReadIs
<1> QED
  BY <1>1, <1>2, <1>3, <1>4, <1>5, <1>6, <1>7 DEF StoredOf

\* A batch that is accepted: the seqs go on from the next one.
Accepted(batch, n) ==
    batch \in Texts /\ batch # <<>> /\ \A i \in 1..Len(batch) : batch[i].seq = n + i - 1

\* What the start of an append plans.
LEMMA StartsPlan ==
    ASSUME StoreInv, Manifest # None, NEW batch, Accepted(batch, Manifest.next), NEW by \in Agents,
           StartsAppend(batch, by), UNCHANGED disk
    PROVE  /\ mem' = [segs |-> mem'.segs, next |-> Manifest.next] /\ mem'.segs \in Seq(Names)
           /\ op' = [pc |-> "segments", by |-> by, batch |-> batch, writes |-> op'.writes]
           /\ op'.writes \in Seq(WriteType) /\ op'.writes # <<>>
           /\ Grows(Manifest.segs, mem'.segs) /\ NamesOk(mem'.segs, used.compacts)
           /\ WritesFit(disk.files, Len(disk.man.segs), mem'.segs, op'.writes, Manifest.next)
           /\ Planned' = Read(Manifest) \o batch
<1> DEFINE M == Manifest
           files == disk.files
           p == FoldLeft(Filled, PlanBase(files, M.segs), batch)
<1>1. /\ M \in ManType /\ M.segs \in Seq(Names) /\ M.next \in Nat /\ FilesOk(files)
      /\ NamesOk(M.segs, used.compacts) /\ Grows(disk.man.segs, M.segs) /\ disk.man.segs \in Seq(Names)
      /\ Read(M) = ReadOf(files, M.segs)
  BY ManifestParts
<1>2. Plan(batch) = p
  BY DEF Plan, PlanBase, Text, TextOf
<1>3. mem' = [M EXCEPT !.segs = p.segs] /\ op' = [pc |-> "segments", by |-> by, batch |-> batch, writes |-> p.writes]
  BY <1>2 DEF StartsAppend
<1> HIDE DEF M, files, p
<1>4. mem' = [segs |-> p.segs, next |-> M.next]
  BY <1>1, <1>3 DEF ManType
<1>5. mem'.segs = p.segs /\ mem'.next = M.next /\ op'.writes = p.writes
  BY <1>3, <1>4
<1>6. Filling(files, M.segs, M.next, p, batch) /\ p.writes # <<>>
  <2>1. batch \in Texts /\ batch # <<>> /\ \A i \in 1..Len(batch) : batch[i].seq >= M.next
    BY <1>1 DEF Accepted, M
  <2> QED
    BY <1>1, <2>1, PlanFits DEF p
<1>7. /\ p.segs \in Seq(Names) /\ p.writes \in Seq(WriteType)
      /\ Grows(M.segs, p.segs) /\ \A i \in DOMAIN p.segs : i > Len(M.segs) => p.segs[i] = Segment(i - 1)
      /\ WritesFit(files, Len(M.segs), p.segs, p.writes, M.next)
      /\ FlattenSeq(TextsAfter(files, p.segs, p.writes)) = ReadOf(files, M.segs) \o batch
  BY <1>6 DEF Filling
<1>8. NamesOk(p.segs, used.compacts)
  <2> SUFFICES ASSUME NEW i \in DOMAIN p.segs
               PROVE  \/ p.segs[i] = Segment(i - 1)
                      \/ i = 1 /\ \E k \in Nat : k < used.compacts /\ p.segs[i] = Compact(k)
    BY DEF NamesOk
  <2>1. CASE i > Len(M.segs)
    BY <1>7, <2>1
  <2>2. CASE ~(i > Len(M.segs))
    <3>1. i \in DOMAIN M.segs
      BY <1>1, <1>7, <2>2
    <3>2. p.segs[i] = M.segs[i]
      <4>1. \A j \in 1..Len(M.segs) : p.segs[j] = M.segs[j]
        BY <1>7 DEF Grows
      <4>2. i \in 1..Len(M.segs)
        BY <1>1, <3>1
      <4> QED
        BY <4>1, <4>2
    <3> QED
      BY <1>1, <3>1, <3>2 DEF NamesOk
  <2> QED
    BY <2>1, <2>2
<1>9. WritesFit(files, Len(disk.man.segs), p.segs, p.writes, M.next)
  <2> DEFINE l == Left(p.segs, p.writes)
             b == Len(disk.man.segs)
             c == Len(M.segs)
  <2>1. b \in Nat /\ c \in Nat /\ b <= c /\ l \in Nat /\ c <= l + 1
    BY <1>1, <1>7 DEF Grows, WritesFit
  <2>2. b <= l + 1 /\ (b = l + 1 => c = l + 1)
    <3> HIDE DEF b, c, l
    <3> QED
      BY <2>1
  <2> QED
    BY <1>7, <2>2 DEF WritesFit
<1>10. Planned' = FlattenSeq(TextsAfter(files, p.segs, p.writes))
  BY <1>5 DEF Planned, files
<1> QED
  BY <1>1, <1>3, <1>4, <1>5, <1>6, <1>7, <1>8, <1>9, <1>10 DEF M, files

\* An event behind others is the last of them.
LEMMA EndsBeforeMore ==
    ASSUME NEW s \in Texts, NEW batch, NEW n \in Nat, Accepted(batch, n)
    PROVE  /\ s \o batch \in Texts /\ Len(s \o batch) = Len(s) + Len(batch)
           /\ EndsBefore(s \o batch, n + Len(batch)) /\ Grows(s, s \o batch) /\ Len(batch) \in Nat \ {0}
<1>1. s \in Seq(Events) /\ batch \in Seq(Events) /\ batch # <<>>
  BY DEF Accepted, Texts
<1>2. Len(batch) \in Nat \ {0} /\ Len(s) \in Nat
  BY <1>1
<1>3. /\ s \o batch \in Seq(Events) /\ Len(s \o batch) = Len(s) + Len(batch)
      /\ (s \o batch)[Len(s) + Len(batch)] = batch[Len(batch)]
  BY <1>1, <1>2
<1>4. batch[Len(batch)].seq = n + Len(batch) - 1
  BY <1>2 DEF Accepted
<1>5. s \o batch # <<>>
  <2>1. Len(s \o batch) # 0
    BY <1>2, <1>3
  <2> QED
    BY <2>1
<1>6. Last(s \o batch) = batch[Len(batch)]
  BY <1>3 DEF Last
<1>7. Last(s \o batch).seq < n + Len(batch)
  BY <1>2, <1>4, <1>6
<1> QED
  BY <1>1, <1>2, <1>3, <1>5, <1>7, GrowsByMore DEF EndsBefore, Texts

\* An append that starts keeps the invariant: the manifest in memory has the names of its plan.
LEMMA StartsStore ==
    ASSUME StoreInv, Manifest # None, NEW batch, Accepted(batch, Manifest.next), NEW by \in Agents,
           StartsAppend(batch, by), UNCHANGED <<disk, image, acked>>,
           used' \in UsedType, used'.compacts = used.compacts
    PROVE  StoreInv'
<1>1. /\ mem' = [segs |-> mem'.segs, next |-> Manifest.next] /\ mem'.segs \in Seq(Names)
      /\ op' = [pc |-> "segments", by |-> by, batch |-> batch, writes |-> op'.writes]
      /\ op'.writes \in Seq(WriteType) /\ op'.writes # <<>>
      /\ Grows(Manifest.segs, mem'.segs) /\ NamesOk(mem'.segs, used.compacts)
      /\ WritesFit(disk.files, Len(disk.man.segs), mem'.segs, op'.writes, Manifest.next)
      /\ Planned' = Read(Manifest) \o batch
  BY StartsPlan
<1>2. /\ Manifest.segs \in Seq(Names) /\ Manifest.next \in Nat /\ disk.man # None /\ disk.man.segs \in Seq(Names)
      /\ Grows(disk.man.segs, Manifest.segs) /\ disk.man.next <= Manifest.next /\ Read(Manifest) \in Texts
  BY ManifestParts
<1>3. mem'.next = Manifest.next /\ op'.pc = "segments" /\ op'.batch = batch
  BY <1>1
<1>4. mem' \in ManType /\ op' \in AppendType /\ mem' # None
  <2>1. mem' \in ManType
    BY <1>1, <1>2 DEF ManType
  <2>2. batch \in Texts
    BY DEF Accepted
  <2>3. op' \in AppendType
    BY <1>1, <2>2 DEF AppendType
  <2> QED
    BY <2>1, <2>3, ManIsNotNone
<1>5. ShapeInv'
  BY <1>4 DEF StoreInv, ShapeInv, OpType, DiskShape
<1>6. Grows(disk.man.segs, mem'.segs)
  BY <1>1, <1>2, GrowsTwice
<1>7. BaseInv'
  BY <1>1, <1>2, <1>3, <1>4, <1>6 DEF StoreInv, BaseInv
<1>8. AckInv'
  BY DEF StoreInv, AckInv
<1>9. WriteInv'
  <2>1. EndsBefore(Planned', Manifest.next + Len(batch))
    BY <1>1, <1>2, EndsBeforeMore
  <2> QED
    BY <1>1, <1>3, <2>1 DEF WriteInv
<1>10. CompactInv'
  BY <1>3 DEF CompactInv
<1> QED
  BY <1>5, <1>7, <1>8, <1>9, <1>10 DEF StoreInv

\* A write that fails is counted, and nothing else.
LEMMA FailsUsed ==
    ASSUME StoreInv, Fails \/ UNCHANGED used
    PROVE  used' \in UsedType /\ used'.compacts = used.compacts
BY DEF StoreInv, ShapeInv, UsedType, Fails

\* What was acknowledged stays so as the stored log grows.
LEMMA AckGrows ==
    ASSUME NEW d, NEW e, NEW a \in Texts, AckOk(d, a), DiskShape(d), DiskShape(e),
           Grows(StoredOf(d), StoredOf(e)), d.man # None => e.man # None /\ d.man.next <= e.man.next
    PROVE  AckOk(e, a)
<1>1. StoredOf(d) \in Seq(Events) /\ StoredOf(e) \in Seq(Events) /\ a \in Seq(Events)
  BY StoredOfType DEF Texts
<1>2. Grows(a, StoredOf(e))
  BY <1>1, GrowsTwice DEF AckOk
<1>3. ASSUME a # <<>> PROVE Last(a).seq < e.man.next
  <2>1. d.man # None
    <3> SUFFICES ASSUME d.man = None PROVE FALSE
      OBVIOUS
    <3>1. Len(a) <= 0 /\ Len(a) # 0 /\ Len(a) \in Nat
      BY <1>1, <1>3 DEF AckOk, StoredOf, Grows
    <3> QED
      BY <3>1
  <2>2. d.man \in ManType /\ e.man \in ManType
    BY <2>1 DEF DiskShape
  <2>3. d.man.next \in Nat /\ e.man.next \in Nat /\ d.man.next <= e.man.next
    BY <2>1, <2>2 DEF ManType
  <2>4. Last(a).seq < d.man.next /\ Last(a).seq \in Nat
    <3>1. Last(a) \in Events
      BY <1>1, <1>3, FrontLast
    <3> QED
      BY <1>3, <3>1 DEF AckOk, Events
  <2> QED
    BY <2>3, <2>4
<1> QED
  BY <1>2, <1>3 DEF AckOk

\* The stored log is a sequence of events, and goes on where it ends.
LEMMA StoredSelf == ASSUME StoreInv PROVE Grows(StoredOf(disk), StoredOf(disk)) /\ StoredOf(disk) \in Texts
<1>1. StoredOf(disk) \in Texts
  BY StoredOfType DEF StoreInv, ShapeInv
<1> QED
  BY <1>1, GrowsSelf DEF Texts

\* Steps that leave the store and the operation alone.
LEMMA QuietStore ==
    ASSUME StoreInv, UNCHANGED <<disk, op, image, acked, used>>, UNCHANGED mem \/ (mem' = Manifest /\ Manifest # None)
    PROVE  StoreInv'
<1>1. CASE UNCHANGED mem
  BY <1>1 DEF StoreInv, ShapeInv, BaseInv, AckInv, WriteInv, Planned, CompactInv
<1>2. CASE ~UNCHANGED mem
  <2>1. mem = None /\ mem' = disk.man /\ disk.man # None
    BY <1>2 DEF Manifest
  <2>2. op.pc \in {"idle", "create"} /\ op.pc # "create"
    BY <2>1 DEF StoreInv, BaseInv
  <2>3. op.pc = "idle"
    BY <2>2
  <2>4. disk.man.segs \in Seq(Names) /\ disk.man.next \in Nat /\ NamesOk(disk.man.segs, used.compacts)
        /\ disk.man \in ManType
    BY <2>1, ManifestParts DEF Manifest
  <2>5. ShapeInv'
    BY <2>1, <2>4 DEF StoreInv, ShapeInv
  <2>6. BaseInv'
    <3>1. Grows(disk.man.segs, disk.man.segs) /\ disk.man.next <= disk.man.next
      BY <2>4, GrowsSelf
    <3> QED
      BY <2>1, <2>3, <2>4, <3>1 DEF StoreInv, BaseInv
  <2>7. AckInv' /\ WriteInv' /\ CompactInv'
    BY <2>3 DEF StoreInv, AckInv, WriteInv, CompactInv
  <2> QED
    BY <2>5, <2>6, <2>7 DEF StoreInv
<1> QED
  BY <1>1, <1>2

\* An operation that ends, or has only begun to create a session.
LEMMA EndsStore ==
    ASSUME StoreInv, UNCHANGED <<disk, mem, image, acked>>, Fails \/ UNCHANGED used,
           op' = Idle \/ (op' = [pc |-> "create"] /\ disk.man = None /\ mem = None)
    PROVE  StoreInv'
<1>1. used' \in UsedType /\ used'.compacts = used.compacts
  BY FailsUsed
<1>2. op'.pc = "idle" \/ (op'.pc = "create" /\ disk.man = None /\ mem = None)
  BY DEF Idle
<1>3. ShapeInv'
  BY <1>1 DEF StoreInv, ShapeInv, OpType
<1>4. BaseInv'
  BY <1>1, <1>2 DEF StoreInv, BaseInv
<1>5. AckInv' /\ WriteInv' /\ CompactInv'
  BY <1>2 DEF StoreInv, AckInv, WriteInv, CompactInv
<1> QED
  BY <1>3, <1>4, <1>5 DEF StoreInv

\* The manifest of a new session.
LEMMA EmptyMan ==
    LET m == [segs |-> <<>>, next |-> 0] IN m \in ManType /\ m # None /\ m.segs = <<>> /\ m.next = 0
<1> DEFINE m == [segs |-> <<>>, next |-> 0]
<1>1. <<>> \in Seq(Names) /\ 0 \in Nat
  OBVIOUS
<1>2. m \in ManType /\ m.segs = <<>> /\ m.next = 0
  BY <1>1 DEF ManType
<1> HIDE DEF m
<1>3. m # None
  BY <1>2, ManIsNotNone
<1> QED
  BY <1>2, <1>3 DEF m

\* A session that is created has an empty log.
LEMMA CreatedStore ==
    ASSUME StoreInv, Created
    PROVE  StoreInv' /\ Grows(StoredOf(disk), StoredOf(disk'))
<1>1. CASE UNCHANGED disk
  <2>1. CASE UNCHANGED mem
    <3>1. StoreInv'
      BY <1>1, <2>1, EndsStore DEF Created
    <3> QED
      BY <1>1, <3>1, StoredSelf
  <2>2. CASE ~UNCHANGED mem
    <3>1. disk' = [disk EXCEPT !.man = [segs |-> <<>>, next |-> 0]] /\ op.pc = "create"
      BY <2>2 DEF Created
    <3>2. disk.man = None /\ DiskShape(disk)
      BY <3>1 DEF StoreInv, BaseInv, ShapeInv
    <3>3. disk'.man = [segs |-> <<>>, next |-> 0]
      BY <3>1, <3>2 DEF DiskShape
    <3>4. [segs |-> <<>>, next |-> 0] # None
      BY EmptyMan
    <3> QED
      BY <1>1, <3>2, <3>3, <3>4
  <2> QED
    BY <2>1, <2>2
<1>2. CASE ~UNCHANGED disk
  <2> DEFINE m == [segs |-> <<>>, next |-> 0]
  <2>1. disk' = [disk EXCEPT !.man = m] /\ mem' = disk'.man /\ op' = Idle /\ op.pc = "create"
        /\ UNCHANGED <<image, acked, used>>
    BY <1>2 DEF Created
  <2>2. disk.man = None /\ DiskShape(disk) /\ mem = None
    BY <2>1 DEF StoreInv, BaseInv, ShapeInv
  <2>3. m \in ManType /\ m # None /\ m.segs = <<>> /\ m.next = 0
    BY EmptyMan
  <2> HIDE DEF m
  <2>4. disk' = [man |-> m, files |-> disk.files] /\ mem' = m
    BY <2>1, <2>2 DEF DiskShape
  <2>5. DiskShape(disk') /\ disk'.man = m
    BY <2>2, <2>3, <2>4 DEF DiskShape
  <2>6. op'.pc = "idle"
    BY <2>1 DEF Idle
  <2>7. ShapeInv'
    BY <2>1, <2>3, <2>4, <2>5 DEF StoreInv, ShapeInv, OpType
  <2>8. BaseInv'
    <3>1. NamesOk(<<>>, used.compacts)
      BY DEF NamesOk
    <3>2. Grows(<<>>, <<>>) /\ 0 <= 0
      BY DEF Grows
    <3> QED
      BY <2>1, <2>3, <2>4, <2>5, <2>6, <3>1, <3>2 DEF StoreInv, BaseInv
  <2>9. Grows(StoredOf(disk), StoredOf(disk'))
    <3>1. StoredOf(disk) = <<>>
      BY <2>2 DEF StoredOf
    <3>2. StoredOf(disk') \in Texts
      BY <2>5, StoredOfType
    <3> QED
      BY <3>1, <3>2, GrowsSelf DEF Texts
  <2>10. AckInv'
    <3>1. AckOk(disk, acked) /\ acked \in Texts /\ AckOk(image.disk, image.acked)
      BY DEF StoreInv, AckInv, ShapeInv
    <3>2. AckOk(disk', acked)
      BY <2>2, <2>5, <2>9, <3>1, AckGrows
    <3> QED
      BY <2>1, <3>1, <3>2 DEF AckInv
  <2>11. WriteInv' /\ CompactInv'
    BY <2>6 DEF WriteInv, CompactInv
  <2> QED
    BY <2>7, <2>8, <2>9, <2>10, <2>11 DEF StoreInv
<1> QED
  BY <1>1, <1>2

\* A write that does not fail.
LEMMA WriteEffect ==
    ASSUME StoreInv, WriteSegment, ~(UNCHANGED disk /\ op' = Idle /\ UNCHANGED mem /\ Fails)
    PROVE  /\ op.pc = "segments" /\ UNCHANGED <<image, acked, used>>
           /\ op \in AppendType /\ mem \in ManType /\ mem # None /\ mem.segs \in Seq(Names) /\ mem.next \in Nat
           /\ disk.man \in ManType /\ disk.man # None /\ disk.man.segs \in Seq(Names) /\ disk.man.next \in Nat
           /\ op.batch \in Texts /\ Len(op.batch) \in Nat /\ op.writes \in Seq(WriteType) /\ op.writes # <<>>
           /\ WritesFit(disk.files, Len(disk.man.segs), mem.segs, op.writes, mem.next)
           /\ DiskShape(disk) /\ DiskShape(disk') /\ disk'.man = disk.man
           /\ Left(mem.segs, op.writes) + 1 \in 1..Len(mem.segs)
           /\ TextOf(disk'.files, mem.segs[Left(mem.segs, op.writes) + 1]) = Head(op.writes).text
           /\ Head(op.writes).file = mem.segs[Left(mem.segs, op.writes) + 1]
           /\ \A f : f # mem.segs[Left(mem.segs, op.writes) + 1] => TextOf(disk'.files, f) = TextOf(disk.files, f)
           /\ Grows(StoredOf(disk), StoredOf(disk'))
           /\ \/ /\ op' \in AppendType /\ op'.pc = "segments" /\ op'.by = op.by /\ op'.batch = op.batch /\ UNCHANGED mem
                 /\ op'.writes # <<>> /\ op'.writes \in Seq(WriteType)
                 /\ WritesFit(disk'.files, Len(disk.man.segs), mem.segs, op'.writes, mem.next)
                 /\ Planned' = Planned
              \/ /\ op' \in ManifestType /\ op'.pc = "manifest" /\ op'.by = op.by /\ op'.batch = op.batch
                 /\ mem' \in ManType /\ mem' # None /\ mem'.segs = mem.segs /\ mem'.next = mem.next + Len(op.batch)
                 /\ ReadOf(disk'.files, mem.segs) = Planned
<1> DEFINE w == op.writes
           r == Tail(w)
           b == disk.man.segs
           c == used.compacts
           k == Left(mem.segs, w) + 1
<1>1. /\ op.pc = "segments" /\ UNCHANGED <<image, acked, used>>
      /\ disk' = [disk EXCEPT !.files = Put(Head(w).file, Head(w).text)]
      /\ \/ r # <<>> /\ op' = [op EXCEPT !.writes = r] /\ UNCHANGED mem
         \/ /\ r = <<>> /\ op' = [pc |-> "manifest", by |-> op.by, batch |-> op.batch]
            /\ mem' = [mem EXCEPT !.next = @ + Len(op.batch)]
  BY DEF WriteSegment
<1>2. op \in AppendType /\ mem \in ManType /\ mem # None /\ DiskShape(disk)
  BY <1>1, OpParts DEF StoreInv, ShapeInv, BaseInv
<1>3. /\ NamesOk(mem.segs, c) /\ disk.man # None /\ Grows(b, mem.segs)
      /\ w # <<>> /\ WritesFit(disk.files, Len(b), mem.segs, w, mem.next)
  BY <1>1, <1>2 DEF StoreInv, BaseInv, WriteInv
<1>4. /\ mem.segs \in Seq(Names) /\ mem.next \in Nat /\ w \in Seq(WriteType) /\ c \in Nat /\ op.batch \in Texts
      /\ disk.man \in ManType /\ FilesOk(disk.files) /\ b \in Seq(Names) /\ Len(b) \in Nat /\ disk.man.next \in Nat
      /\ Len(op.batch) \in Nat
  <2>1. disk.man \in ManType /\ FilesOk(disk.files)
    BY <1>2, <1>3 DEF DiskShape
  <2>2. b \in Seq(Names) /\ disk.man.next \in Nat
    BY <2>1 DEF ManType
  <2>3. op.batch \in Texts /\ w \in Seq(WriteType)
    BY <1>2 DEF AppendType
  <2>4. used \in UsedType
    BY DEF StoreInv, ShapeInv
  <2>5. Len(op.batch) \in Nat
    BY <2>3 DEF Texts
  <2> QED
    BY <1>2, <2>1, <2>2, <2>3, <2>4, <2>5 DEF ManType, UsedType
<1>5. disk' = [man |-> disk.man, files |-> disk'.files] /\ Writes(disk.files, disk'.files, w)
  BY <1>1, <1>2, PutIs DEF DiskShape, Writes
<1> HIDE DEF w, r, b, c, k
<1>6. /\ FilesOk(disk'.files) /\ r \in Seq(WriteType)
      /\ k \in 1..Len(mem.segs) /\ Head(w).file = mem.segs[k] /\ TextOf(disk'.files, mem.segs[k]) = Head(w).text
      /\ \A f : f # mem.segs[k] => TextOf(disk'.files, f) = TextOf(disk.files, f)
      /\ WritesFit(disk'.files, Len(b), mem.segs, r, mem.next)
      /\ TextsAfter(disk'.files, mem.segs, r) = TextsAfter(disk.files, mem.segs, w)
      /\ r = <<>> => TextsOf(disk'.files, mem.segs) = TextsAfter(disk.files, mem.segs, w)
  <2> DEFINE files == disk.files
             others == disk'.files
             segs == mem.segs
             n == mem.next
             base == Len(b)
  <2>1. /\ FilesOk(files) /\ segs \in Seq(Names) /\ c \in Nat /\ NamesOk(segs, c) /\ w \in Seq(WriteType) /\ w # <<>>
        /\ base \in Nat /\ n \in Nat /\ WritesFit(files, base, segs, w, n) /\ Writes(files, others, w)
    BY <1>3, <1>4, <1>5
  <2> HIDE DEF files, others, segs, n, base
  <2>2. /\ FilesOk(others) /\ Tail(w) \in Seq(WriteType)
        /\ Left(segs, w) + 1 \in 1..Len(segs)
        /\ Head(w).file = segs[Left(segs, w) + 1] /\ TextOf(others, segs[Left(segs, w) + 1]) = Head(w).text
        /\ \A f : f # segs[Left(segs, w) + 1] => TextOf(others, f) = TextOf(files, f)
        /\ WritesFit(others, base, segs, Tail(w), n)
        /\ TextsAfter(others, segs, Tail(w)) = TextsAfter(files, segs, w)
        /\ Tail(w) = <<>> => TextsOf(others, segs) = TextsAfter(files, segs, w)
    BY ONLY <2>1, WriteOne
  <2> QED
    BY <2>2 DEF files, others, segs, n, base, r, k
<1>7. Grows(ReadOf(disk.files, b), ReadOf(disk'.files, b))
  BY <1>3, <1>4, <1>5, WriteKeeps
<1>8. Grows(StoredOf(disk), StoredOf(disk'))
  BY <1>3, <1>5, <1>7 DEF StoredOf, b
<1>9. DiskShape(disk') /\ disk'.man = disk.man
  BY <1>2, <1>5, <1>6 DEF DiskShape
<1>10. ASSUME r # <<>>
       PROVE  /\ op' \in AppendType /\ op'.pc = "segments" /\ op'.by = op.by /\ op'.batch = op.batch /\ UNCHANGED mem
              /\ op'.writes = r /\ Planned' = Planned
  <2>1. op' = [op EXCEPT !.writes = r] /\ UNCHANGED mem
    BY <1>1, <1>10
  <2>2. op' \in AppendType /\ op'.pc = "segments" /\ op'.writes = r /\ op'.batch = op.batch /\ op'.by = op.by
    BY <1>1, <1>2, <1>6, <2>1 DEF AppendType
  <2>3. Planned' = Planned
    BY <1>6, <2>1, <2>2 DEF Planned, w
  <2> QED
    BY <2>1, <2>2, <2>3
<1>11. ASSUME r = <<>>
       PROVE  /\ op' \in ManifestType /\ op'.pc = "manifest" /\ op'.by = op.by /\ op'.batch = op.batch
              /\ mem' \in ManType /\ mem' # None /\ mem'.segs = mem.segs /\ mem'.next = mem.next + Len(op.batch)
              /\ ReadOf(disk'.files, mem.segs) = Planned
  <2>1. /\ op' = [pc |-> "manifest", by |-> op.by, batch |-> op.batch]
        /\ mem' = [mem EXCEPT !.next = @ + Len(op.batch)]
    BY <1>1, <1>11
  <2>2. op' \in ManifestType /\ op'.pc = "manifest" /\ op'.by = op.by /\ op'.batch = op.batch
    BY <1>2, <2>1 DEF AppendType, ManifestType
  <2>3. mem' = [segs |-> mem.segs, next |-> mem.next + Len(op.batch)]
    BY <1>2, <2>1 DEF ManType
  <2>4. mem' \in ManType /\ mem' # None /\ mem'.segs = mem.segs /\ mem'.next = mem.next + Len(op.batch)
    <3>1. mem' \in ManType
      BY <1>4, <2>3 DEF ManType
    <3> QED
      BY <2>3, <3>1, ManIsNotNone
  <2>5. ReadOf(disk'.files, mem.segs) = Planned
    BY <1>6, <1>11 DEF Planned, ReadOf, w
  <2> QED
    BY <2>2, <2>4, <2>5
<1> QED
  BY <1>1, <1>2, <1>3, <1>4, <1>6, <1>8, <1>9, <1>10, <1>11 DEF w, b, k

\* A segment that is written, or fails to be.
LEMMA WriteSegmentStore ==
    ASSUME StoreInv, WriteSegment
    PROVE  StoreInv' /\ Grows(StoredOf(disk), StoredOf(disk'))
<1>1. CASE UNCHANGED disk /\ op' = Idle /\ UNCHANGED mem /\ Fails
  <2>1. StoreInv'
    BY <1>1, EndsStore DEF WriteSegment
  <2> QED
    BY <1>1, <2>1, StoredSelf
<1>2. CASE ~(UNCHANGED disk /\ op' = Idle /\ UNCHANGED mem /\ Fails)
  <2>1. /\ op.pc = "segments" /\ UNCHANGED <<image, acked, used>>
        /\ mem # None /\ mem.next \in Nat /\ Len(op.batch) \in Nat
        /\ disk.man \in ManType /\ disk.man # None /\ disk.man.next \in Nat
        /\ DiskShape(disk) /\ DiskShape(disk') /\ disk'.man = disk.man
        /\ Grows(StoredOf(disk), StoredOf(disk'))
    BY <1>2, WriteEffect
  <2>2. disk.man.next <= mem.next /\ EndsBefore(Planned, mem.next + Len(op.batch))
    BY <2>1 DEF StoreInv, BaseInv, WriteInv
  <2>3. AckInv'
    <3>1. AckOk(disk, acked) /\ acked \in Texts /\ AckOk(image.disk, image.acked)
      BY DEF StoreInv, AckInv, ShapeInv
    <3>2. AckOk(disk', acked)
      BY <2>1, <3>1, AckGrows
    <3> QED
      BY <2>1, <3>1, <3>2 DEF AckInv
  <2>4. CASE op'.pc = "segments"
    <3>1. /\ op' \in AppendType /\ op'.batch = op.batch /\ UNCHANGED mem /\ op'.writes # <<>>
          /\ WritesFit(disk'.files, Len(disk.man.segs), mem.segs, op'.writes, mem.next)
          /\ Planned' = Planned
      BY <1>2, <2>4, WriteEffect
    <3>2. ShapeInv'
      BY <2>1, <3>1 DEF StoreInv, ShapeInv, OpType
    <3>3. BaseInv'
      BY <2>1, <2>4, <3>1 DEF StoreInv, BaseInv
    <3>4. WriteInv'
      BY <2>1, <2>2, <2>4, <3>1 DEF WriteInv
    <3>5. CompactInv'
      BY <2>4 DEF CompactInv
    <3> QED
      BY <2>1, <2>3, <3>2, <3>3, <3>4, <3>5 DEF StoreInv
  <2>5. CASE op'.pc # "segments"
    <3>1. /\ op' \in ManifestType /\ op'.pc = "manifest" /\ op'.batch = op.batch
          /\ mem' \in ManType /\ mem' # None /\ mem'.segs = mem.segs /\ mem'.next = mem.next + Len(op.batch)
          /\ ReadOf(disk'.files, mem.segs) = Planned
      BY <1>2, <2>5, WriteEffect
    <3>2. ShapeInv'
      BY <2>1, <3>1 DEF StoreInv, ShapeInv, OpType
    <3>3. BaseInv'
      <4>1. disk.man.next <= mem.next + Len(op.batch)
        BY <2>1, <2>2
      <4> QED
        BY <2>1, <3>1, <4>1 DEF StoreInv, BaseInv
    <3>4. WriteInv'
      BY <2>2, <3>1 DEF WriteInv
    <3>5. CompactInv'
      BY <3>1 DEF CompactInv
    <3> QED
      BY <2>1, <2>3, <3>2, <3>3, <3>4, <3>5 DEF StoreInv
  <2> QED
    BY <2>4, <2>5
<1> QED
  BY <1>1, <1>2

\* A manifest that is written after its segments, or fails to be.
LEMMA WriteManifestStore ==
    ASSUME StoreInv, WriteManifest
    PROVE  StoreInv' /\ Grows(StoredOf(disk), StoredOf(disk'))
<1>1. CASE UNCHANGED <<disk, acked>> /\ Fails
  <2>1. StoreInv'
    BY <1>1, EndsStore DEF WriteManifest
  <2> QED
    BY <1>1, <2>1, StoredSelf
<1>2. CASE ~(UNCHANGED <<disk, acked>> /\ Fails)
  <2>1. /\ op.pc = "manifest" /\ op' = Idle /\ disk' = [disk EXCEPT !.man = mem] /\ acked' = Read(mem)
        /\ UNCHANGED <<mem, image, used>>
    BY <1>2 DEF WriteManifest
  <2>2. mem \in ManType /\ mem # None /\ DiskShape(disk) /\ Manifest = mem
    BY <2>1 DEF StoreInv, ShapeInv, BaseInv, Manifest
  <2>3. /\ Grows(StoredOf(disk), Read(mem)) /\ Read(mem) \in Texts /\ Read(mem) = ReadOf(disk.files, mem.segs)
        /\ FilesOk(disk.files) /\ mem.segs \in Seq(Names) /\ NamesOk(mem.segs, used.compacts) /\ mem.next \in Nat
    BY <2>2, ManifestParts
  <2>4. disk' = [man |-> mem, files |-> disk.files] /\ op'.pc = "idle"
    BY <2>1, <2>2 DEF DiskShape, Idle
  <2>5. DiskShape(disk') /\ disk'.man = mem /\ disk'.files = disk.files /\ StoredOf(disk') = Read(mem)
    BY <2>2, <2>3, <2>4 DEF DiskShape, StoredOf
  <2>6. ShapeInv'
    BY <2>1, <2>3, <2>5 DEF StoreInv, ShapeInv, OpType
  <2>7. BaseInv'
    <3>1. Grows(mem.segs, mem.segs) /\ mem.next <= mem.next
      BY <2>3, GrowsSelf
    <3> QED
      BY <2>1, <2>2, <2>3, <2>4, <2>5, <3>1 DEF StoreInv, BaseInv
  <2>8. AckInv'
    <3>1. EndsBefore(Read(mem), mem.next)
      BY <2>1, <2>3 DEF StoreInv, WriteInv
    <3>2. Grows(Read(mem), Read(mem))
      BY <2>3, GrowsSelf DEF Texts
    <3>3. AckOk(disk', acked')
      BY <2>1, <2>5, <3>1, <3>2 DEF AckOk, EndsBefore
    <3> QED
      BY <2>1, <3>3 DEF StoreInv, AckInv
  <2>9. WriteInv' /\ CompactInv'
    BY <2>4 DEF WriteInv, CompactInv
  <2> QED
    BY <2>3, <2>5, <2>6, <2>7, <2>8, <2>9 DEF StoreInv
<1> QED
  BY <1>1, <1>2

\* The event that closes a turn, and a batch of the caller, are accepted.
LEMMA CallerAccepted ==
    ASSUME StoreInv, caller.next \in Nat, Manifest # None, NEW k \in Nat \ {0},
           Sequenced([i \in 1..k |-> Event(caller.next + i - 1, used.crashes)])
    PROVE  Accepted([i \in 1..k |-> Event(caller.next + i - 1, used.crashes)], Manifest.next)
<1> DEFINE b == [i \in 1..k |-> Event(caller.next + i - 1, used.crashes)]
           n == caller.next
<1>1. \A i \in 1..k : b[i].seq = n + i - 1
  BY DEF Event
<1>2. used.crashes \in 0..Provider
  BY SessionLogAssumption DEF StoreInv, ShapeInv, UsedType, Provider
<1>3. \A i \in 1..k : b[i] \in Events
  BY <1>2 DEF Event, Events
<1>4. b \in Seq(Events) /\ Len(b) = k
  BY <1>3
<1>5. b # <<>>
  <2> HIDE DEF b
  <2> QED
    BY <1>4
<1>6. Manifest.next = n
  <2>1. 1 \in 1..k
    OBVIOUS
  <2>2. b[1].seq = n + 1 - 1
    BY <1>1, <2>1
  <2>3. b[1].seq = Manifest.next
    BY DEF Sequenced
  <2> QED
    BY <2>2, <2>3
<1> HIDE DEF b, n
<1>7. Accepted(b, Manifest.next)
  BY <1>1, <1>4, <1>5, <1>6 DEF Accepted, Texts
<1> QED
  BY <1>7 DEF b, n

\* The event that closes an interrupted turn is a batch that is accepted.
LEMMA ClosersAccepted ==
    ASSUME NEW events \in Texts, Closers(events) # <<>>, Sequenced(Closers(events))
    PROVE  /\ Accepted(Closers(events), Manifest.next) /\ Len(Closers(events)) = 1
           /\ Len(events) % 2 = 1 /\ Manifest.next = Len(events)
<1> DEFINE e == Event(Len(events), Provider)
<1>1. Closers(events) = <<e>> /\ Len(events) % 2 = 1
  BY DEF Closers
<1>2. Len(events) \in Nat
  BY DEF Texts
<1>3. e \in Events /\ e.seq = Len(events)
  BY <1>2, SessionLogAssumption DEF Event, Events, Provider
<1> HIDE DEF e
<1>4. <<e>> \in Seq(Events) /\ Len(<<e>>) = 1 /\ <<e>>[1] = e /\ <<e>> # <<>>
  BY <1>3
<1>5. Manifest.next = e.seq
  BY <1>1, <1>4 DEF Sequenced
<1>6. \A i \in 1..1 : <<e>>[i].seq = e.seq + i - 1
  BY <1>2, <1>3, <1>4
<1> QED
  BY <1>1, <1>3, <1>4, <1>5, <1>6 DEF Accepted, Texts

\* An append of the caller.
LEMMA CallerAppendsStore ==
    ASSUME StoreInv, caller.next \in Nat, CallerAppends
    PROVE  StoreInv' /\ Grows(StoredOf(disk), StoredOf(disk'))
<1>1. PICK k \in 1..MaxBatch : LET batch == [i \in 1..k |-> Event(caller.next + i - 1, used.crashes)] IN
                                  Sequenced(batch) /\ StartsAppend(batch, "caller")
  BY DEF CallerAppends
<1>2. k \in Nat \ {0} /\ Manifest # None /\ UNCHANGED <<disk, image, acked, used>> /\ "caller" \in Agents
  BY SessionLogAssumption DEF CallerAppends, Agents
<1> DEFINE batch == [i \in 1..k |-> Event(caller.next + i - 1, used.crashes)]
<1>3. Accepted(batch, Manifest.next)
  BY <1>1, <1>2, CallerAccepted
<1>4. StartsAppend(batch, "caller")
  BY <1>1
<1>5. used' \in UsedType /\ used'.compacts = used.compacts
  BY <1>2, FailsUsed
<1> HIDE DEF batch
<1>6. StoreInv'
  BY <1>2, <1>3, <1>4, <1>5, StartsStore
<1> QED
  BY <1>2, <1>6, StoredSelf

\* A load that closes nothing ends at once.
LEMMA LoadsStore ==
    ASSUME StoreInv, NEW by \in {"load", "prepare"}, Loads(by)
    PROVE  StoreInv' /\ Grows(StoredOf(disk), StoredOf(disk'))
<1> DEFINE events == Read(Manifest)
<1>1. /\ Free /\ Manifest # None /\ UNCHANGED <<disk, image, acked>> /\ by \in Agents
      /\ used' = [used EXCEPT !.loads = @ + 1]
      /\ \/ Closers(events) = <<>> /\ mem' = Manifest /\ UNCHANGED op
         \/ Closers(events) # <<>> /\ Sequenced(Closers(events)) /\ StartsAppend(Closers(events), by)
  BY DEF Loads, Agents
<1>2. used' \in UsedType /\ used'.compacts = used.compacts
  BY <1>1 DEF StoreInv, ShapeInv, UsedType
<1>3. events \in Texts
  BY <1>1, ManifestParts
<1> HIDE DEF events
<1>4. CASE Closers(events) = <<>>
  <2>1. mem' = Manifest /\ UNCHANGED op /\ op = Idle
    BY <1>1, <1>4 DEF Free
  <2>2. op.pc = "idle" /\ op'.pc = "idle"
    BY <2>1 DEF Idle
  <2>3. /\ Manifest \in ManType /\ NamesOk(Manifest.segs, used.compacts) /\ disk.man # None
        /\ Grows(disk.man.segs, Manifest.segs) /\ disk.man.next <= Manifest.next
    BY <1>1, ManifestParts
  <2>4. ShapeInv'
    BY <1>1, <1>2, <2>1, <2>3 DEF StoreInv, ShapeInv
  <2>5. BaseInv'
    BY <1>1, <1>2, <2>1, <2>2, <2>3 DEF StoreInv, BaseInv
  <2>6. AckInv' /\ WriteInv' /\ CompactInv'
    BY <1>1, <2>2 DEF StoreInv, AckInv, WriteInv, CompactInv
  <2> QED
    BY <1>1, <2>4, <2>5, <2>6, StoredSelf DEF StoreInv
<1>5. CASE Closers(events) # <<>>
  <2>1. Accepted(Closers(events), Manifest.next) /\ StartsAppend(Closers(events), by)
    BY <1>1, <1>3, <1>5, ClosersAccepted
  <2>2. StoreInv'
    BY <1>1, <1>2, <2>1, StartsStore
  <2> QED
    BY <1>1, <2>2, StoredSelf
<1> QED
  BY <1>4, <1>5

\* The steps of a compaction, one after the other.
LEMMA Afters ==
    After("replace") = "switch" /\ After("switch") = "remove" /\ After("remove") = "idle"
<1>1. DOMAIN CompactSteps = 1..3 /\ CompactSteps[1] = "replace" /\ CompactSteps[2] = "switch" /\ CompactSteps[3] = "remove"
      /\ Len(CompactSteps) = 3
  BY DEF CompactSteps
<1>2. ASSUME NEW pc, NEW k \in 1..3, CompactSteps[k] = pc, \A i \in 1..3 : CompactSteps[i] = pc => i = k
      PROVE  (CHOOSE i \in DOMAIN CompactSteps : CompactSteps[i] = pc) = k
  <2> DEFINE i == CHOOSE i \in DOMAIN CompactSteps : CompactSteps[i] = pc
  <2>1. i \in DOMAIN CompactSteps /\ CompactSteps[i] = pc
    BY <1>1, <1>2
  <2> HIDE DEF i
  <2>2. i = k
    BY <1>1, <1>2, <2>1
  <2> QED
    BY <2>2 DEF i
<1>3. \A i \in 1..3 : i = 1 \/ i = 2 \/ i = 3
  OBVIOUS
<1>4. /\ \A i \in 1..3 : CompactSteps[i] = "replace" => i = 1
      /\ \A i \in 1..3 : CompactSteps[i] = "switch" => i = 2
      /\ \A i \in 1..3 : CompactSteps[i] = "remove" => i = 3
  BY <1>1, <1>3
<1>5. /\ (CHOOSE i \in DOMAIN CompactSteps : CompactSteps[i] = "replace") = 1
      /\ (CHOOSE i \in DOMAIN CompactSteps : CompactSteps[i] = "switch") = 2
      /\ (CHOOSE i \in DOMAIN CompactSteps : CompactSteps[i] = "remove") = 3
  BY <1>1, <1>2, <1>4
<1> QED
  BY <1>1, <1>5 DEF After

\* The name of a new compacted log is no name of its segments.
LEMMA CompactStartsStore ==
    ASSUME StoreInv, CompactStarts
    PROVE  StoreInv' /\ Grows(StoredOf(disk), StoredOf(disk'))
<1> DEFINE events == Read(Manifest)
           M == Manifest
           c == used.compacts
           file == Compact(c)
           next == [M EXCEPT !.segs = IF events = <<>> THEN <<>> ELSE <<file>>]
<1>1. /\ Free /\ M # None /\ Contiguous(events) /\ UNCHANGED <<disk, image, acked>>
      /\ used' = [used EXCEPT !.compacts = @ + 1] /\ mem' = M
      /\ op' = [pc |-> "replace", file |-> file, text |-> events, old |-> M.segs, next |-> next]
  BY DEF CompactStarts
<1>2. /\ M \in ManType /\ M.segs \in Seq(Names) /\ M.next \in Nat /\ NamesOk(M.segs, c) /\ disk.man # None
      /\ Grows(disk.man.segs, M.segs) /\ disk.man.next <= M.next /\ NamesOk(disk.man.segs, c)
      /\ events \in Texts /\ events = ReadOf(disk.files, M.segs)
  BY <1>1, ManifestParts
<1>3. c \in Nat /\ c <= c + 1 /\ c < c + 1 /\ used' \in UsedType /\ used'.compacts = c + 1 /\ file \in Names
  <2>1. used \in UsedType
    BY DEF StoreInv, ShapeInv
  <2>2. c \in Nat
    BY <2>1 DEF UsedType
  <2> QED
    BY <1>1, <2>1, <2>2, NamesApart DEF UsedType
<1>4. next \in ManType
  <2> DEFINE s == IF events = <<>> THEN <<>> ELSE <<file>>
  <2>1. s \in Seq(Names)
    <3>1. <<>> \in Seq(Names) /\ <<file>> \in Seq(Names)
      BY <1>3
    <3> QED
      BY <3>1
  <2> HIDE DEF s
  <2>2. [M EXCEPT !.segs = s] \in ManType
    BY <1>2, <2>1 DEF ManType
  <2> QED
    BY <2>2 DEF s
<1>5. \A i \in DOMAIN M.segs : M.segs[i] # file
  <2> SUFFICES ASSUME NEW i \in DOMAIN M.segs PROVE M.segs[i] # file
    OBVIOUS
  <2>1. i - 1 \in Nat
    BY <1>2
  <2>2. CASE M.segs[i] = Segment(i - 1)
    BY <1>3, <2>1, <2>2, NamesApart
  <2>3. CASE M.segs[i] # Segment(i - 1)
    <3>1. PICK k \in Nat : k < c /\ M.segs[i] = Compact(k)
      BY <1>2, <2>3 DEF NamesOk
    <3>2. k # c
      BY <1>3, <3>1
    <3> QED
      BY <1>3, <3>1, <3>2, NamesApart
  <2> QED
    BY <2>2, <2>3
<1> HIDE DEF next, file, M, events
<1>6. op' \in CompactType /\ op'.pc = "replace" /\ op'.file = file /\ op'.text = events /\ op'.old = M.segs /\ op'.next = next
  BY <1>1, <1>2, <1>3, <1>4 DEF CompactType
<1> HIDE DEF c
<1>7. ShapeInv'
  BY <1>1, <1>2, <1>3, <1>6 DEF StoreInv, ShapeInv, OpType
<1>8. BaseInv'
  <2>1. NamesOk(M.segs, c + 1) /\ NamesOk(disk.man.segs, c + 1)
    BY <1>2, <1>3, NamesStayOk
  <2>2. image.disk.man # None => NamesOk(image.disk.man.segs, c + 1)
    <3>1. image.disk.man # None => NamesOk(image.disk.man.segs, c)
      BY DEF StoreInv, BaseInv, c
    <3> QED
      BY <1>3, <3>1, NamesStayOk
  <2> QED
    BY <1>1, <1>2, <1>3, <1>6, <2>1, <2>2 DEF BaseInv
<1>9. AckInv' /\ WriteInv'
  BY <1>1, <1>6 DEF StoreInv, AckInv, WriteInv
<1>10. CompactInv'
  <2>1. \E n \in Nat : n < used'.compacts /\ op'.file = Compact(n)
    BY <1>3, <1>6 DEF file
  <2>2. op'.text = ReadOf(disk'.files, mem'.segs) /\ Contiguous(op'.text) /\ op'.old = mem'.segs
        /\ op'.next = [mem' EXCEPT !.segs = IF op'.text = <<>> THEN <<>> ELSE <<op'.file>>]
    BY <1>1, <1>2, <1>6 DEF next
  <2>3. \A i \in DOMAIN mem'.segs : mem'.segs[i] # op'.file
    BY <1>1, <1>5, <1>6
  <2>4. Contiguous(op.text)' <=> Contiguous(op'.text)
    BY DEF Contiguous
  <2> QED
    BY <1>6, <2>1, <2>2, <2>3, <2>4 DEF CompactInv
<1> QED
  BY <1>1, <1>7, <1>8, <1>9, <1>10, StoredSelf DEF StoreInv

\* A replacement that does not fail.
LEMMA ReplaceEffect ==
    ASSUME StoreInv, Replace, ~(UNCHANGED disk /\ op' = Idle /\ Fails)
    PROVE  /\ op.pc = "replace" /\ UNCHANGED <<mem, image, acked, used>>
           /\ op \in CompactType /\ mem \in ManType /\ mem.segs \in Seq(Names) /\ mem # None
           /\ disk.man # None /\ disk.man.segs \in Seq(Names) /\ Grows(disk.man.segs, mem.segs)
           /\ DiskShape(disk) /\ DiskShape(disk') /\ disk'.man = disk.man
           /\ op' \in CompactType /\ op'.pc = "switch" /\ op'.file = op.file /\ op'.text = op.text /\ op'.old = op.old
           /\ op'.next = op.next
           /\ \A i \in DOMAIN mem.segs : mem.segs[i] # op.file
           /\ TextOf(disk'.files, op.file) = op.text
           /\ \A g : g # op.file => TextOf(disk'.files, g) = TextOf(disk.files, g)
           /\ ReadOf(disk'.files, mem.segs) = ReadOf(disk.files, mem.segs)
           /\ StoredOf(disk') = StoredOf(disk)
<1>1. /\ op.pc = "replace" /\ UNCHANGED <<mem, image, acked, used>>
      /\ disk' = [disk EXCEPT !.files = Put(op.file, op.text)] /\ op' = [op EXCEPT !.pc = "switch"]
  BY Afters DEF Replace, Advanced
<1>2. op \in CompactType /\ mem \in ManType /\ mem # None /\ DiskShape(disk) /\ Manifest = mem
  BY <1>1, OpParts DEF StoreInv, ShapeInv, BaseInv, Manifest
<1>3. \A i \in DOMAIN mem.segs : mem.segs[i] # op.file
  BY <1>1 DEF StoreInv, CompactInv
<1>4. op.file \in Names /\ op.text \in Texts
  BY <1>2 DEF CompactType
<1>5. /\ disk.man # None /\ FilesOk(disk.files) /\ disk.man.segs \in Seq(Names) /\ mem.segs \in Seq(Names)
      /\ Grows(disk.man.segs, mem.segs)
  BY <1>2, ManifestParts
<1>6. disk' = [man |-> disk.man, files |-> PutIn(disk.files, op.file, op.text)]
  BY <1>1, <1>2, PutIs DEF DiskShape
<1>7. /\ FilesOk(disk'.files) /\ TextOf(disk'.files, op.file) = op.text
      /\ \A g : g # op.file => TextOf(disk'.files, g) = TextOf(disk.files, g)
  BY <1>4, <1>5, <1>6, PutType
<1>8. DiskShape(disk') /\ disk'.man = disk.man
  BY <1>2, <1>6, <1>7 DEF DiskShape
<1>9. ReadOf(disk'.files, mem.segs) = ReadOf(disk.files, mem.segs)
  <2>1. \A i \in DOMAIN mem.segs : TextOf(disk'.files, mem.segs[i]) = TextOf(disk.files, mem.segs[i])
    BY <1>3, <1>7
  <2> QED
    BY <2>1, ReadSame
<1>10. ReadOf(disk'.files, disk.man.segs) = ReadOf(disk.files, disk.man.segs)
  <2>1. \A i \in DOMAIN disk.man.segs : i \in DOMAIN mem.segs /\ mem.segs[i] = disk.man.segs[i]
    BY <1>5 DEF Grows
  <2>2. \A i \in DOMAIN disk.man.segs : TextOf(disk'.files, disk.man.segs[i]) = TextOf(disk.files, disk.man.segs[i])
    BY <1>3, <1>7, <2>1
  <2> QED
    BY <2>2, ReadSame
<1>11. StoredOf(disk') = StoredOf(disk)
  BY <1>8, <1>10 DEF StoredOf
<1>12. /\ op' \in CompactType /\ op'.pc = "switch" /\ op'.file = op.file /\ op'.text = op.text /\ op'.old = op.old
       /\ op'.next = op.next
  BY <1>1, <1>2 DEF CompactType
<1> QED
  BY <1>1, <1>2, <1>3, <1>5, <1>7, <1>8, <1>9, <1>11, <1>12

\* The copy of a compaction is written under a name that no manifest has.
LEMMA ReplaceStore ==
    ASSUME StoreInv, Replace
    PROVE  StoreInv' /\ Grows(StoredOf(disk), StoredOf(disk'))
<1>1. CASE UNCHANGED disk /\ op' = Idle /\ Fails
  <2>1. StoreInv'
    BY <1>1, EndsStore DEF Replace
  <2> QED
    BY <1>1, <2>1, StoredSelf
<1>2. CASE ~(UNCHANGED disk /\ op' = Idle /\ Fails)
  <2>1. /\ op.pc = "replace" /\ UNCHANGED <<mem, image, acked, used>> /\ mem # None
        /\ DiskShape(disk') /\ disk'.man = disk.man
        /\ op' \in CompactType /\ op'.pc = "switch" /\ op'.file = op.file /\ op'.text = op.text /\ op'.old = op.old
        /\ op'.next = op.next /\ TextOf(disk'.files, op.file) = op.text
        /\ ReadOf(disk'.files, mem.segs) = ReadOf(disk.files, mem.segs)
        /\ StoredOf(disk') = StoredOf(disk)
    BY <1>2, ReplaceEffect
  <2>2. /\ op.text = ReadOf(disk.files, mem.segs) /\ Contiguous(op.text) /\ op.old = mem.segs
        /\ op.next = [mem EXCEPT !.segs = IF op.text = <<>> THEN <<>> ELSE <<op.file>>]
        /\ \E n \in Nat : n < used.compacts /\ op.file = Compact(n)
        /\ \A i \in DOMAIN mem.segs : mem.segs[i] # op.file
    BY <2>1 DEF StoreInv, CompactInv
  <2>3. ShapeInv'
    BY <2>1 DEF StoreInv, ShapeInv, OpType
  <2>4. BaseInv'
    BY <2>1 DEF StoreInv, BaseInv
  <2>5. AckInv' /\ WriteInv'
    BY <2>1 DEF StoreInv, AckInv, AckOk, WriteInv
  <2>6. CompactInv'
    <3>1. Contiguous(op.text)' <=> Contiguous(op'.text)
      BY DEF Contiguous
    <3> QED
      BY <2>1, <2>2, <3>1 DEF CompactInv
  <2> QED
    BY <2>1, <2>3, <2>4, <2>5, <2>6, StoredSelf DEF StoreInv
<1> QED
  BY <1>1, <1>2

\* The new manifest names the copy, or nothing when there is nothing to copy.
LEMMA SwitchEffect ==
    ASSUME StoreInv, Switch, ~(UNCHANGED <<disk, mem>> /\ op' = Idle /\ Fails)
    PROVE  /\ op.pc = "switch" /\ UNCHANGED <<image, acked, used>>
           /\ op \in CompactType /\ mem \in ManType /\ mem # None /\ mem.segs \in Seq(Names) /\ mem.next \in Nat
           /\ disk.man # None /\ Grows(disk.man.segs, mem.segs) /\ disk.man.next <= mem.next
           /\ DiskShape(disk) /\ DiskShape(disk') /\ disk'.man = mem' /\ disk'.files = disk.files
           /\ op' \in CompactType /\ op'.pc = "remove" /\ op'.old = op.old
           /\ mem' \in ManType /\ mem' # None /\ mem'.next = mem.next /\ mem'.segs \in Seq(Names)
           /\ mem'.segs = IF op.text = <<>> THEN <<>> ELSE <<op.file>>
           /\ op.text = ReadOf(disk.files, mem.segs) /\ op.old = mem.segs /\ Contiguous(op.text)
           /\ \A i \in DOMAIN mem.segs : mem.segs[i] # op.file
           /\ ReadOf(disk'.files, mem'.segs) = op.text /\ StoredOf(disk') = op.text
           /\ Grows(StoredOf(disk), StoredOf(disk'))
<1> DEFINE n == op.next
<1>1. /\ op.pc = "switch" /\ UNCHANGED <<image, acked, used>>
      /\ disk' = [disk EXCEPT !.man = n] /\ mem' = n /\ op' = [op EXCEPT !.pc = "remove"]
  BY Afters DEF Switch, Advanced
<1>2. op \in CompactType /\ mem \in ManType /\ mem # None /\ DiskShape(disk) /\ Manifest = mem
  BY <1>1, OpParts DEF StoreInv, ShapeInv, BaseInv, Manifest
<1>3. /\ op.text = ReadOf(disk.files, mem.segs) /\ op.old = mem.segs /\ Contiguous(op.text)
      /\ n = [mem EXCEPT !.segs = IF op.text = <<>> THEN <<>> ELSE <<op.file>>]
      /\ \A i \in DOMAIN mem.segs : mem.segs[i] # op.file
      /\ TextOf(disk.files, op.file) = op.text
  BY <1>1 DEF StoreInv, CompactInv
<1>4. op.file \in Names /\ op.text \in Texts /\ n \in ManType
  BY <1>2 DEF CompactType
<1>5. /\ n # None /\ n.next = mem.next /\ n.segs = (IF op.text = <<>> THEN <<>> ELSE <<op.file>>)
      /\ n.segs \in Seq(Names) /\ n.next \in Nat
  <2>1. n # None
    BY <1>4, ManIsNotNone
  <2>2. n.segs \in Seq(Names) /\ n.next \in Nat
    BY <1>4 DEF ManType
  <2>3. n.next = mem.next /\ n.segs = IF op.text = <<>> THEN <<>> ELSE <<op.file>>
    BY <1>2, <1>3 DEF ManType
  <2> QED
    BY <2>1, <2>2, <2>3
<1>6. /\ disk.man # None /\ FilesOk(disk.files) /\ Grows(StoredOf(disk), op.text) /\ disk.man.next <= mem.next
      /\ mem.segs \in Seq(Names) /\ mem.next \in Nat /\ Grows(disk.man.segs, mem.segs)
  BY <1>2, <1>3, ManifestParts
<1> HIDE DEF n
<1>7. disk' = [man |-> n, files |-> disk.files]
  BY <1>1, <1>2 DEF DiskShape
<1>8. DiskShape(disk') /\ disk'.man = n /\ disk'.files = disk.files
  BY <1>4, <1>6, <1>7 DEF DiskShape
<1>9. ReadOf(disk.files, n.segs) = op.text
  <2>1. CASE op.text = <<>>
    <3>1. TextsOf(disk.files, <<>>) = <<>>
      <4> DEFINE s == <<>>
                 t == TextsOf(disk.files, s)
      <4>1. s \in Seq(Names) /\ Len(s) = 0
        OBVIOUS
      <4> HIDE DEF s
      <4>2. t \in Seq(Texts) /\ Len(t) = 0
        BY <1>6, <4>1, TextsOfType
      <4> HIDE DEF t
      <4>3. t = <<>>
        BY <4>2
      <4> QED
        BY <4>3 DEF t, s
    <3> QED
      BY <1>5, <2>1, <3>1, FlattenEmpty DEF ReadOf
  <2>2. CASE op.text # <<>>
    <3> DEFINE s == <<op.file>>
               t == TextsOf(disk.files, s)
    <3>1. n.segs = s /\ s \in Seq(Names) /\ Len(s) = 1 /\ s[1] = op.file
      BY <1>4, <1>5, <2>2
    <3>2. t \in Seq(Texts) /\ Len(t) = 1 /\ t[1] = op.text
      <4>1. /\ t \in Seq(Texts) /\ Len(t) = Len(s) /\ \A i \in 1..Len(s) : t[i] = TextOf(disk.files, s[i])
        <5> HIDE DEF s
        <5> QED
          BY <1>6, <3>1, TextsOfType
      <4> HIDE DEF t, s
      <4> QED
        BY <1>3, <3>1, <4>1
    <3>3. t = <<op.text>>
      <4> DEFINE R == Texts
      <4>1. t \in Seq(R) /\ op.text \in R
        BY <1>4, <3>2
      <4> HIDE DEF t, R
      <4> QED
        BY <3>2, <4>1
    <3>4. FlattenSeq(<<op.text>>) = op.text
      BY <1>4, FlattenOne DEF Texts
    <3> QED
      BY <3>1, <3>3, <3>4 DEF ReadOf
  <2> QED
    BY <2>1, <2>2
<1>10. StoredOf(disk') = op.text
  BY <1>5, <1>8, <1>9 DEF StoredOf
<1>11. op' \in CompactType /\ op'.pc = "remove" /\ op'.old = op.old
  BY <1>1, <1>2 DEF CompactType
<1> QED
  BY <1>1, <1>2, <1>3, <1>4, <1>5, <1>6, <1>8, <1>9, <1>10, <1>11

\* The switch of a compaction stores the manifest of the copy.
LEMMA SwitchStore ==
    ASSUME StoreInv, Switch
    PROVE  StoreInv' /\ Grows(StoredOf(disk), StoredOf(disk'))
<1>1. CASE UNCHANGED <<disk, mem>> /\ op' = Idle /\ Fails
  <2>1. StoreInv'
    BY <1>1, EndsStore DEF Switch
  <2> QED
    BY <1>1, <2>1, StoredSelf
<1>2. CASE ~(UNCHANGED <<disk, mem>> /\ op' = Idle /\ Fails)
  <2>1. /\ op.pc = "switch" /\ UNCHANGED <<image, acked, used>> /\ op \in CompactType
        /\ disk.man.next <= mem.next
        /\ DiskShape(disk) /\ DiskShape(disk') /\ disk'.man = mem'
        /\ op' \in CompactType /\ op'.pc = "remove" /\ op'.old = op.old
        /\ mem' \in ManType /\ mem' # None /\ mem'.next = mem.next /\ mem'.segs \in Seq(Names)
        /\ mem'.segs = (IF op.text = <<>> THEN <<>> ELSE <<op.file>>) /\ op.old = mem.segs
        /\ \A i \in DOMAIN mem.segs : mem.segs[i] # op.file
        /\ Grows(StoredOf(disk), StoredOf(disk'))
    BY <1>2, SwitchEffect
  <2>2. PICK k \in Nat : k < used.compacts /\ op.file = Compact(k)
    BY <2>1 DEF StoreInv, CompactInv
  <2>3. op.file \in Names
    BY <2>1 DEF CompactType
  <2>4. \A i \in DOMAIN mem'.segs : i = 1 /\ mem'.segs[i] = op.file
    BY <2>1, <2>3
  <2>5. ShapeInv'
    BY <2>1 DEF StoreInv, ShapeInv, OpType
  <2>6. BaseInv'
    <3>1. NamesOk(mem'.segs, used.compacts)
      BY <2>2, <2>4 DEF NamesOk
    <3>2. Grows(mem'.segs, mem'.segs) /\ mem'.next <= mem'.next
      <4> DEFINE s == mem'.segs
      <4>1. s \in Seq(Names)
        BY <2>1
      <4>2. mem'.next \in Nat
        BY <2>1 DEF ManType
      <4> HIDE DEF s
      <4>3. Grows(s, s)
        BY <4>1, GrowsSelf
      <4> QED
        BY <4>2, <4>3 DEF s
    <3> QED
      BY <2>1, <3>1, <3>2 DEF StoreInv, BaseInv
  <2>7. AckInv'
    <3>1. AckOk(disk, acked) /\ acked \in Texts /\ AckOk(image.disk, image.acked)
      BY DEF StoreInv, AckInv, ShapeInv
    <3>2. AckOk(disk', acked)
      BY <2>1, <3>1, AckGrows
    <3> QED
      BY <2>1, <3>1, <3>2 DEF AckInv
  <2>8. WriteInv' /\ CompactInv'
    <3>1. ASSUME NEW i \in DOMAIN op.old, NEW j \in DOMAIN mem'.segs PROVE op.old[i] # mem'.segs[j]
      <4>1. mem'.segs[j] = op.file /\ i \in DOMAIN mem.segs /\ op.old[i] = mem.segs[i]
        BY <2>1, <2>4
      <4> QED
        BY <2>1, <4>1
    <3> QED
      BY <2>1, <3>1 DEF WriteInv, CompactInv
  <2> QED
    BY <2>1, <2>5, <2>6, <2>7, <2>8 DEF StoreInv
<1> QED
  BY <1>1, <1>2

\* A file that is removed is no file of the log any more.
LEMMA RemoveEffect ==
    ASSUME StoreInv, RemoveOld, op.old # <<>>
    PROVE  /\ op.pc = "remove" /\ UNCHANGED <<mem, image, acked>> /\ (Fails \/ UNCHANGED used)
           /\ op \in CompactType /\ mem \in ManType /\ mem # None /\ mem = disk.man /\ mem.segs \in Seq(Names)
           /\ DiskShape(disk) /\ DiskShape(disk') /\ disk'.man = disk.man
           /\ op' \in CompactType /\ op'.pc = "remove" /\ op'.old = Tail(op.old)
           /\ \A i \in DOMAIN Tail(op.old) : i + 1 \in DOMAIN op.old /\ Tail(op.old)[i] = op.old[i + 1]
           /\ 1 \in DOMAIN op.old /\ \A i \in DOMAIN mem.segs : mem.segs[i] # op.old[1]
           /\ \/ UNCHANGED disk
              \/ /\ op.old[1] \notin DOMAIN disk'.files
                 /\ \A f : f # op.old[1] => (f \in DOMAIN disk'.files <=> f \in DOMAIN disk.files)
                                            /\ TextOf(disk'.files, f) = TextOf(disk.files, f)
           /\ ReadOf(disk'.files, mem.segs) = ReadOf(disk.files, mem.segs)
           /\ StoredOf(disk') = StoredOf(disk)
<1> DEFINE g == Head(op.old)
           files == disk.files
           others == [f \in DOMAIN files \ {g} |-> files[f]]
<1>1. /\ op.pc = "remove" /\ op' = [op EXCEPT !.old = Tail(@)] /\ UNCHANGED <<mem, image, acked>>
      /\ disk' = [disk EXCEPT !.files = others] \/ UNCHANGED disk
      /\ Fails \/ UNCHANGED used
  BY DEF RemoveOld
<1>2. op \in CompactType /\ mem \in ManType /\ mem # None /\ DiskShape(disk)
  BY <1>1, OpParts DEF StoreInv, ShapeInv, BaseInv
<1>3. mem = disk.man /\ \A i \in DOMAIN op.old, j \in DOMAIN mem.segs : op.old[i] # mem.segs[j]
  BY <1>1 DEF StoreInv, CompactInv
<1>4. /\ op.old \in Seq(Names) /\ Tail(op.old) \in Seq(Names) /\ g = op.old[1] /\ 1 \in DOMAIN op.old
      /\ \A i \in DOMAIN Tail(op.old) : i + 1 \in DOMAIN op.old /\ Tail(op.old)[i] = op.old[i + 1]
  <2>1. op.old \in Seq(Names)
    BY <1>2 DEF CompactType
  <2> QED
    BY <2>1
<1>5. FilesOk(files) /\ mem.segs \in Seq(Names)
  BY <1>2 DEF DiskShape, ManType
<1>6. /\ FilesOk(others) /\ g \notin DOMAIN others
      /\ \A f : f # g => TextOf(others, f) = TextOf(files, f) /\ (f \in DOMAIN others <=> f \in DOMAIN files)
  BY <1>5 DEF FilesOk, TextOf
<1> HIDE DEF g, others
<1>7. \A i \in DOMAIN mem.segs : mem.segs[i] # g
  BY <1>3, <1>4
<1>8. /\ DiskShape(disk') /\ disk'.man = disk.man
      /\ \A i \in DOMAIN mem.segs : TextOf(disk'.files, mem.segs[i]) = TextOf(files, mem.segs[i])
      /\ \/ UNCHANGED disk
         \/ g \notin DOMAIN disk'.files /\ \A f : f # g => (f \in DOMAIN disk'.files <=> f \in DOMAIN disk.files)
                                                          /\ TextOf(disk'.files, f) = TextOf(files, f)
  <2>1. CASE disk' = [disk EXCEPT !.files = others]
    <3>1. disk' = [man |-> disk.man, files |-> others]
      BY <1>2, <2>1 DEF DiskShape
    <3>2. DiskShape(disk') /\ disk'.man = disk.man /\ disk'.files = others
      BY <1>2, <1>6, <3>1 DEF DiskShape
    <3> QED
      BY <1>6, <1>7, <3>2
  <2>2. CASE UNCHANGED disk
    BY <1>2, <2>2
  <2> QED
    BY <1>1, <2>1, <2>2
<1>9. ReadOf(disk'.files, mem.segs) = ReadOf(files, mem.segs)
  BY <1>8, ReadSame
<1>10. StoredOf(disk') = StoredOf(disk)
  BY <1>3, <1>8, <1>9 DEF StoredOf
<1>11. op' \in CompactType /\ op'.pc = "remove" /\ op'.old = Tail(op.old)
  BY <1>1, <1>2, <1>4 DEF CompactType
<1> QED
  BY <1>1, <1>2, <1>3, <1>4, <1>5, <1>7, <1>8, <1>9, <1>10, <1>11

\* The files that a compaction removes are none that the stored manifest names.
LEMMA RemoveOldStore ==
    ASSUME StoreInv, RemoveOld
    PROVE  StoreInv' /\ Grows(StoredOf(disk), StoredOf(disk'))
<1>1. CASE op.old = <<>>
  <2>1. op' = Idle /\ UNCHANGED <<disk, mem, image, acked, used>>
    BY <1>1, Afters DEF RemoveOld, Advanced
  <2>2. StoreInv'
    BY <2>1, EndsStore
  <2> QED
    BY <2>1, <2>2, StoredSelf
<1>2. CASE op.old # <<>>
  <2>1. /\ op.pc = "remove" /\ UNCHANGED <<mem, image, acked>> /\ (Fails \/ UNCHANGED used) /\ mem # None
        /\ DiskShape(disk') /\ disk'.man = disk.man
        /\ op' \in CompactType /\ op'.pc = "remove" /\ op'.old = Tail(op.old)
        /\ \A i \in DOMAIN Tail(op.old) : i + 1 \in DOMAIN op.old /\ Tail(op.old)[i] = op.old[i + 1]
        /\ StoredOf(disk') = StoredOf(disk)
    BY <1>2, RemoveEffect
  <2>2. mem = disk.man /\ \A i \in DOMAIN op.old, j \in DOMAIN mem.segs : op.old[i] # mem.segs[j]
    BY <2>1 DEF StoreInv, CompactInv
  <2>3. used' \in UsedType /\ used'.compacts = used.compacts
    BY <2>1, FailsUsed
  <2>4. ShapeInv'
    BY <2>1, <2>3 DEF StoreInv, ShapeInv, OpType
  <2>5. BaseInv'
    BY <2>1, <2>3 DEF StoreInv, BaseInv
  <2>6. AckInv' /\ WriteInv'
    BY <2>1 DEF StoreInv, AckInv, AckOk, WriteInv
  <2>7. CompactInv'
    <3>1. \A i \in DOMAIN Tail(op.old), j \in DOMAIN mem.segs : Tail(op.old)[i] # mem.segs[j]
      BY <2>1, <2>2
    <3> QED
      BY <2>1, <2>2, <3>1 DEF CompactInv
  <2> QED
    BY <2>1, <2>4, <2>5, <2>6, <2>7, StoredSelf DEF StoreInv
<1> QED
  BY <1>1, <1>2

\* An image of the container is as good as the container.
LEMMA SnapshotStore ==
    ASSUME StoreInv, Snapshot
    PROVE  StoreInv' /\ Grows(StoredOf(disk), StoredOf(disk'))
<1>1. image' = [disk |-> disk, acked |-> acked] /\ UNCHANGED <<disk, mem, op, used, acked>>
  BY DEF Snapshot
<1>2. image'.disk = disk /\ image'.acked = acked
  BY <1>1
<1>3. ShapeInv'
  BY <1>1, <1>2 DEF StoreInv, ShapeInv
<1>4. BaseInv'
  BY <1>1, <1>2 DEF StoreInv, BaseInv
<1>5. AckInv'
  BY <1>1, <1>2 DEF StoreInv, AckInv
<1>6. WriteInv' /\ CompactInv'
  BY <1>1 DEF StoreInv, WriteInv, CompactInv, Planned
<1> QED
  BY <1>1, <1>3, <1>4, <1>5, <1>6, StoredSelf DEF StoreInv

\* A reload brings back an image, with no operation under way.
LEMMA CrashStore ==
    ASSUME StoreInv, Crash
    PROVE  StoreInv'
<1>1. /\ disk' = image.disk /\ acked' = image.acked /\ mem' = None /\ op' = Idle /\ UNCHANGED image
      /\ used' = [used EXCEPT !.crashes = @ + 1] /\ used.crashes < MaxCrashes
  BY DEF Crash
<1>2. used' \in UsedType /\ used'.compacts = used.compacts
  <2>1. used \in UsedType /\ MaxCrashes \in Nat
    BY SessionLogAssumption DEF StoreInv, ShapeInv
  <2> QED
    BY <1>1, <2>1 DEF UsedType
<1>3. op'.pc = "idle"
  BY <1>1 DEF Idle
<1>4. ShapeInv'
  BY <1>1, <1>2 DEF StoreInv, ShapeInv, OpType
<1>5. BaseInv'
  BY <1>1, <1>2, <1>3 DEF StoreInv, BaseInv
<1>6. AckInv'
  BY <1>1 DEF StoreInv, AckInv
<1>7. WriteInv' /\ CompactInv'
  BY <1>3 DEF WriteInv, CompactInv
<1> QED
  BY <1>4, <1>5, <1>6, <1>7 DEF StoreInv

\* The caller counts in numbers.
CallerInv == caller \in [live : BOOLEAN, next : Nat]

\* A caller that is told of a log counts on from its end.
LEMMA ToldCaller ==
    ASSUME CallerInv, NEW by, NEW events \in Texts, Told(by, events)
    PROVE  CallerInv'
<1>1. Len(events) \in Nat
  BY DEF Texts
<1> QED
  BY <1>1 DEF CallerInv, Told

\* Every step keeps the caller's count a number.
LEMMA CallerStep ==
    ASSUME StoreInv, CallerInv, [Next]_vars
    PROVE  CallerInv'
<1>1. CASE UNCHANGED caller
  BY <1>1 DEF CallerInv
<1>2. CASE caller' = [live |-> FALSE, next |-> 0] \/ caller' = [live |-> TRUE, next |-> 0]
  <2>1. FALSE \in BOOLEAN /\ TRUE \in BOOLEAN /\ 0 \in Nat
    OBVIOUS
  <2>2. [live |-> FALSE, next |-> 0] \in [live : BOOLEAN, next : Nat]
    BY <2>1
  <2>3. [live |-> TRUE, next |-> 0] \in [live : BOOLEAN, next : Nat]
    BY <2>1
  <2> QED
    BY <1>2, <2>2, <2>3 DEF CallerInv
<1>3. CASE WriteManifest /\ ~UNCHANGED caller
  <2>1. op.pc = "manifest" /\ Told(op.by, Read(mem))
    BY <1>3 DEF WriteManifest
  <2>2. mem # None /\ Manifest = mem
    BY <2>1 DEF StoreInv, BaseInv, Manifest
  <2>3. Read(mem) \in Texts
    BY <2>2, ManifestParts
  <2> QED
    BY <2>1, <2>3, ToldCaller
<1>4. ASSUME NEW by \in {"load", "prepare"}, Loads(by), ~UNCHANGED caller PROVE CallerInv'
  <2>1. Manifest # None /\ Told(by, Read(Manifest))
    BY <1>4 DEF Loads
  <2>2. Read(Manifest) \in Texts
    BY <2>1, ManifestParts
  <2> QED
    BY <2>1, <2>2, ToldCaller
<1>5. \/ UNCHANGED caller
      \/ caller' = [live |-> FALSE, next |-> 0] \/ caller' = [live |-> TRUE, next |-> 0]
      \/ WriteManifest \/ Loads("load") \/ Loads("prepare")
  BY DEF Next, vars, Create, Created, CallerAppends, WriteSegment, Release, CompactStarts, Replace, Switch,
         RemoveOld, ListStarts, ListReads, ListReturns, ListEnds, Snapshot, Crash
<1> QED
  BY <1>1, <1>2, <1>3, <1>4, <1>5

\* A create that starts finds no session, in memory or stored.
LEMMA CreateStore ==
    ASSUME StoreInv, Create
    PROVE  StoreInv'
<1>1. /\ Manifest = None /\ op' = [pc |-> "create"] /\ UNCHANGED <<disk, mem, image, acked, used>>
  BY DEF Create
<1>2. mem = None /\ disk.man = None
  BY <1>1 DEF Manifest
<1> QED
  BY <1>1, <1>2, EndsStore

\* Every step keeps the invariant, and every step but a reload lets the stored log grow.
LEMMA StoreStep ==
    ASSUME StoreInv, CallerInv, [Next]_vars
    PROVE  StoreInv' /\ CallerInv' /\ (~Crash => Grows(StoredOf(disk), StoredOf(disk')))
<1>0. CallerInv' /\ caller.next \in Nat
  BY CallerStep DEF CallerInv
<1>1. CASE UNCHANGED vars
  BY <1>0, <1>1, QuietStore, StoredSelf DEF vars
<1>2. CASE Create
  <2>1. UNCHANGED disk
    BY <1>2 DEF Create
  <2> QED
    BY <1>0, <1>2, <2>1, CreateStore, StoredSelf
<1>3. CASE Created
  BY <1>0, <1>3, CreatedStore
<1>4. CASE CallerAppends
  BY <1>0, <1>4, CallerAppendsStore
<1>5. CASE WriteSegment
  BY <1>0, <1>5, WriteSegmentStore
<1>6. CASE WriteManifest
  BY <1>0, <1>6, WriteManifestStore
<1>7. CASE Loads("load") \/ Loads("prepare")
  BY <1>0, <1>7, LoadsStore
<1>8. CASE CompactStarts
  BY <1>0, <1>8, CompactStartsStore
<1>9. CASE Replace
  BY <1>0, <1>9, ReplaceStore
<1>10. CASE Switch
  BY <1>0, <1>10, SwitchStore
<1>11. CASE RemoveOld
  BY <1>0, <1>11, RemoveOldStore
<1>12. CASE Release \/ ListStarts \/ ListReads \/ ListReturns \/ ListEnds
  <2>1. UNCHANGED <<disk, op, image, acked, used>> /\ (UNCHANGED mem \/ (mem' = Manifest /\ Manifest # None))
    BY <1>12 DEF Release, ListStarts, ListReads, ListReturns, ListEnds
  <2>2. StoreInv'
    BY <2>1, QuietStore
  <2> QED
    BY <1>0, <2>1, <2>2, StoredSelf
<1>13. CASE Snapshot
  BY <1>0, <1>13, SnapshotStore
<1>14. CASE Crash
  BY <1>0, <1>14, CrashStore
<1> QED
  BY <1>1, <1>2, <1>3, <1>4, <1>5, <1>6, <1>7, <1>8, <1>9, <1>10, <1>11, <1>12, <1>13, <1>14 DEF Next

\* The invariant holds of an empty container.
LEMMA StoreInit == Init => StoreInv /\ CallerInv
<1> SUFFICES ASSUME Init PROVE StoreInv /\ CallerInv
  OBVIOUS
<1>1. /\ disk = [man |-> None, files |-> <<>>] /\ mem = None /\ op = Idle /\ acked = <<>>
      /\ image = [disk |-> disk, acked |-> <<>>] /\ caller = [live |-> FALSE, next |-> 0]
      /\ used = [compacts |-> 0, loads |-> 0, faults |-> 0, crashes |-> 0]
  BY DEF Init
<1>2. disk.man = None /\ disk.files = <<>> /\ image.disk = disk /\ image.acked = <<>> /\ op.pc = "idle"
  BY <1>1 DEF Idle
<1>3. FilesOk(<<>>) /\ <<>> \in Texts
  BY DEF FilesOk, Texts
<1>4. used \in UsedType
  BY <1>1, SessionLogAssumption DEF UsedType
<1>5. DiskShape(disk)
  BY <1>1, <1>2, <1>3 DEF DiskShape
<1>6. ShapeInv
  BY <1>1, <1>2, <1>3, <1>4, <1>5 DEF ShapeInv, OpType
<1>7. BaseInv /\ WriteInv /\ CompactInv
  BY <1>1, <1>2 DEF BaseInv, WriteInv, CompactInv
<1>8. AckInv
  <2>1. StoredOf(disk) = <<>> /\ Grows(<<>>, <<>>)
    BY <1>2 DEF StoredOf, Grows
  <2> QED
    BY <1>1, <1>2, <2>1 DEF AckInv, AckOk
<1>9. CallerInv
  BY <1>1 DEF CallerInv
<1> QED
  BY <1>6, <1>7, <1>8, <1>9 DEF StoreInv

-------------------------------------------------------------------------------
\* What append has resolved for is stored: every event that a caller was told of is in a file that the stored
\* manifest names, through compactions, failing writes and reloads (append, compact, list of session-segments.ts).
THEOREM AcknowledgedIsStored == Spec => []AckedIsKept
<1>1. StoreInv => AckedIsKept
  <2> SUFFICES ASSUME StoreInv PROVE AckedIsKept
    OBVIOUS
  <2>1. acked \in Seq(Events) /\ Grows(acked, StoredOf(disk))
    BY DEF StoreInv, ShapeInv, AckInv, AckOk, Texts
  <2>2. StoredOf(disk) \in Seq(Events)
    BY StoredSelf DEF Texts
  <2> QED
    BY <2>1, <2>2, GrowsKeeps, StoredIs DEF AckedIsKept
<1>2. StoreInv /\ CallerInv /\ [Next]_vars => (StoreInv /\ CallerInv)'
  BY StoreStep
<1> QED
  BY <1>1, <1>2, StoreInit, PTL DEF Spec

\* Stored events are never rewritten: whatever an append, a compaction or a failing write does to the files, the
\* log that the stored manifest names only grows at its end.
THEOREM LogOnlyGrows == Spec => NothingIsRewritten
<1>1. StoreInv /\ CallerInv /\ [Next]_vars => (StoreInv /\ CallerInv)'
  BY StoreStep
<1>2. ASSUME StoreInv, CallerInv, [Next]_vars, used'.crashes = used.crashes
      PROVE  IsPrefix(Stored, Stored')
  <2>1. ~Crash
    <3> SUFFICES ASSUME Crash PROVE FALSE
      OBVIOUS
    <3>1. used' = [used EXCEPT !.crashes = @ + 1] /\ used \in UsedType
      BY <1>2 DEF Crash, StoreInv, ShapeInv
    <3>2. used'.crashes = used.crashes + 1 /\ used.crashes \in Nat
      BY <3>1 DEF UsedType
    <3> QED
      BY <1>2, <3>2
  <2>2. Grows(StoredOf(disk), StoredOf(disk')) /\ StoreInv'
    BY <1>2, <2>1, StoreStep
  <2>3. StoredOf(disk) \in Seq(Events) /\ StoredOf(disk') \in Seq(Events)
    BY <1>2, <2>2, StoredOfType DEF StoreInv, ShapeInv, Texts
  <2>4. IsPrefix(StoredOf(disk), StoredOf(disk'))
    BY <2>2, <2>3, GrowsIsPrefix
  <2>5. Stored = StoredOf(disk) /\ Stored' = StoredOf(disk')
    BY DEF Stored, StoredOf, Read, ReadOf, TextsOf, Text, TextOf
  <2> QED
    BY <2>4, <2>5
<1>3. StoreInv /\ CallerInv /\ [Next]_vars => [used'.crashes = used.crashes /\ used'.faults = 0 => IsPrefix(Stored, Stored')]_vars
  BY <1>2
<1> QED
  BY <1>1, <1>3, StoreInit, PTL DEF Spec, NothingIsRewritten

-------------------------------------------------------------------------------
(* A reserved preparation.                                                 *)

\* While a session is reserved nobody appends, and its log has no turn left open; the one who closes a turn leaves
\* a whole number of turns.
ViewInv ==
    /\ view # None => op.pc \notin {"segments", "manifest"} /\ Manifest # None
                      /\ Read(Manifest) = view /\ Len(view) % 2 = 0
    /\ op.pc = "segments" /\ op.by # "caller" => Len(Planned) % 2 = 0
    /\ op.pc = "manifest" /\ op.by # "caller" => Len(Read(mem)) % 2 = 0

\* What is read in the next state.
LEMMA ReadNext == ASSUME mem' # None PROVE Manifest' = mem' /\ Read(Manifest)' = ReadOf(disk'.files, mem'.segs)
BY DEF Manifest, Read, ReadOf, TextsOf, Text, TextOf

\* Steps that leave alone what is read: quiet ones, and those of a compaction.
LEMMA SameRead ==
    ASSUME Manifest # None,
           UNCHANGED disk /\ (UNCHANGED mem \/ mem' = Manifest)
    PROVE  (Manifest # None)' /\ Read(Manifest)' = Read(Manifest)
<1>1. Manifest' = Manifest
  BY DEF Manifest
<1>2. Read(Manifest)' = ReadOf(disk.files, Manifest'.segs)
  BY DEF Manifest, Read, ReadOf, TextsOf, Text, TextOf
<1> QED
  BY <1>1, <1>2, ReadIs

\* Through a compaction, the log of the manifest in memory stays the same.
LEMMA CompactReads ==
    ASSUME StoreInv, Manifest # None, Replace \/ Switch \/ RemoveOld
    PROVE  (Manifest # None)' /\ Read(Manifest)' = Read(Manifest)
<1>1. CASE UNCHANGED <<disk, mem>>
  BY <1>1, SameRead
<1>2. CASE Replace /\ ~UNCHANGED <<disk, mem>>
  <2>1. ~UNCHANGED disk
    BY <1>2 DEF Replace
  <2>2. UNCHANGED mem /\ mem # None /\ ReadOf(disk'.files, mem.segs) = ReadOf(disk.files, mem.segs)
    BY <1>2, <2>1, ReplaceEffect
  <2>3. Manifest = mem
    BY <2>2 DEF Manifest
  <2> QED
    BY <2>2, <2>3, ReadNext, ReadIs
<1>3. CASE Switch /\ ~UNCHANGED <<disk, mem>>
  <2>1. /\ mem # None /\ mem' # None /\ ReadOf(disk'.files, mem'.segs) = op.text
        /\ op.text = ReadOf(disk.files, mem.segs)
    BY <1>3, SwitchEffect
  <2>2. Manifest = mem
    BY <2>1 DEF Manifest
  <2> QED
    BY <2>1, <2>2, ReadNext, ReadIs
<1>4. CASE RemoveOld /\ ~UNCHANGED <<disk, mem>>
  <2>1. op.old # <<>>
    BY <1>4 DEF RemoveOld
  <2>2. UNCHANGED mem /\ mem # None /\ ReadOf(disk'.files, mem.segs) = ReadOf(disk.files, mem.segs)
    BY <1>4, <2>1, RemoveEffect
  <2>3. Manifest = mem
    BY <2>2 DEF Manifest
  <2> QED
    BY <2>2, <2>3, ReadNext, ReadIs
<1> QED
  BY <1>1, <1>2, <1>3, <1>4

\* An operation that closes a turn.
LEMMA ClosersEven ==
    ASSUME StoreInv, Manifest # None, Closers(Read(Manifest)) # <<>>, Sequenced(Closers(Read(Manifest))),
           NEW by \in Agents, StartsAppend(Closers(Read(Manifest)), by), UNCHANGED disk
    PROVE  Len(Read(Manifest)) % 2 = 1 /\ op'.pc = "segments" /\ Len(Planned)' % 2 = 0
<1> DEFINE s == Read(Manifest)
           b == Closers(s)
<1>1. s \in Texts /\ Manifest.next \in Nat
  BY ManifestParts
<1>2. Accepted(b, Manifest.next) /\ Len(b) = 1 /\ Len(s) % 2 = 1
  BY <1>1, ClosersAccepted
<1>3. Planned' = s \o b /\ op'.pc = "segments"
  BY <1>2, StartsPlan
<1>4. Len(s \o b) = Len(s) + 1
  <2> HIDE DEF b, s
  <2> QED
    BY <1>1, <1>2, EndsBeforeMore
<1>5. Len(s) \in Nat
  BY <1>1 DEF Texts
<1>6. (Len(s) + 1) % 2 = 0
  <2> DEFINE n == Len(s)
  <2>1. n \in Nat /\ n % 2 = 1
    BY <1>2, <1>5
  <2> HIDE DEF n
  <2>2. (n + 1) % 2 = 0
    BY <2>1
  <2> QED
    BY <2>2 DEF n
<1> QED
  BY <1>2, <1>3, <1>4, <1>6 DEF s

\* A load that reserves the session is told of the log as it is.
LEMMA LoadsView ==
    ASSUME StoreInv, ViewInv, NEW by \in {"load", "prepare"}, Loads(by)
    PROVE  ViewInv'
<1> DEFINE s == Read(Manifest)
<1>1. /\ op = Idle /\ Manifest # None /\ UNCHANGED disk /\ by \in Agents /\ (by = "prepare" => view = None)
      /\ \/ Closers(s) = <<>> /\ mem' = Manifest /\ Told(by, s) /\ UNCHANGED op
         \/ Closers(s) # <<>> /\ Sequenced(Closers(s)) /\ StartsAppend(Closers(s), by) /\ UNCHANGED view
  BY DEF Loads, Agents, Free
<1>2. op.pc = "idle" /\ Len(s) \in Nat
  <2>1. s \in Texts
    BY <1>1, ManifestParts
  <2> QED
    BY <1>1, <2>1 DEF Idle, Texts
<1>3. CASE Closers(s) = <<>>
  <2>1. mem' = Manifest /\ Told(by, s) /\ UNCHANGED op
    BY <1>1, <1>3
  <2>2. (Manifest # None)' /\ Read(Manifest)' = s
    BY <1>1, <2>1, SameRead
  <2>3. view' = s \/ view' = view
    BY <2>1 DEF Told
  <2>4. Len(s) % 2 = 0
    <3>1. ~(Len(s) % 2 = 1)
      BY <1>3 DEF Closers
    <3> DEFINE n == Len(s)
    <3>2. n \in Nat /\ ~(n % 2 = 1)
      BY <1>2, <3>1
    <3> HIDE DEF n
    <3>3. n % 2 = 0
      BY <3>2
    <3> QED
      BY <3>3 DEF n
  <2> QED
    BY <1>2, <2>1, <2>2, <2>3, <2>4 DEF ViewInv
<1>4. CASE Closers(s) # <<>>
  <2>1. Sequenced(Closers(s)) /\ StartsAppend(Closers(s), by) /\ UNCHANGED view
    BY <1>1, <1>4
  <2>2. Len(s) % 2 = 1 /\ op'.pc = "segments" /\ Len(Planned)' % 2 = 0
    BY <1>1, <1>4, <2>1, ClosersEven
  <2>3. view = None
    BY <2>2 DEF ViewInv
  <2> QED
    BY <2>1, <2>2, <2>3 DEF ViewInv
<1> QED
  BY <1>3, <1>4

\* Appends and closers write only where no preparation is reserved, or tell the one that waits.
LEMMA WritesView ==
    ASSUME StoreInv, ViewInv, WriteSegment \/ WriteManifest
    PROVE  ViewInv'
<1>1. view = None
  BY DEF ViewInv, WriteSegment, WriteManifest
<1>2. CASE op' = Idle /\ UNCHANGED view
  BY <1>1, <1>2 DEF ViewInv, Idle
<1>3. CASE WriteSegment /\ ~(op' = Idle /\ UNCHANGED view)
  <2>1. UNCHANGED view /\ ~(UNCHANGED disk /\ op' = Idle /\ UNCHANGED mem /\ Fails)
    BY <1>3 DEF WriteSegment
  <2>2. op.pc = "segments" /\ op'.by = op.by
        /\ \/ op'.pc = "segments" /\ Planned' = Planned
           \/ op'.pc = "manifest" /\ mem'.segs = mem.segs /\ mem' # None /\ ReadOf(disk'.files, mem.segs) = Planned
    BY <1>3, <2>1, WriteEffect
  <2>3. CASE op'.pc = "segments"
    BY <1>1, <2>1, <2>2, <2>3 DEF ViewInv
  <2>4. CASE op'.pc # "segments"
    <3>1. Read(mem)' = Planned
      BY <2>2, <2>4 DEF Read, ReadOf, TextsOf, Text, TextOf
    <3> QED
      BY <1>1, <2>1, <2>2, <2>4, <3>1 DEF ViewInv
  <2> QED
    BY <2>3, <2>4
<1>4. CASE WriteManifest /\ ~(op' = Idle /\ UNCHANGED view)
  <2>1. /\ op.pc = "manifest" /\ op' = Idle /\ disk' = [disk EXCEPT !.man = mem] /\ Told(op.by, Read(mem)) /\ UNCHANGED mem
    BY <1>4 DEF WriteManifest
  <2>2. op.by = "prepare" /\ view' = Read(mem)
    BY <1>4, <2>1 DEF Told
  <2>3. Len(Read(mem)) % 2 = 0
    BY <2>1, <2>2 DEF ViewInv
  <2>4. mem # None /\ DiskShape(disk)
    BY <2>1 DEF StoreInv, BaseInv, ShapeInv
  <2>5. disk'.files = disk.files
    BY <2>1, <2>4 DEF DiskShape
  <2>6. (Manifest # None)' /\ Read(Manifest)' = Read(mem)
    BY <2>1, <2>4, <2>5, ReadNext, ReadIs
  <2>7. op'.pc = "idle"
    BY <2>1 DEF Idle
  <2> QED
    BY <2>2, <2>3, <2>6, <2>7 DEF ViewInv
<1> QED
  BY <1>2, <1>3, <1>4

\* Every step keeps a reserved preparation current.
LEMMA ViewStep ==
    ASSUME StoreInv, ViewInv, [Next]_vars
    PROVE  ViewInv'
<1>1. CASE UNCHANGED <<view, op>> /\ UNCHANGED disk /\ UNCHANGED mem
  BY <1>1 DEF ViewInv, Manifest, Read, Text, Planned
<1>2. CASE ListStarts
  <2>1. UNCHANGED <<view, op, disk>> /\ mem' = Manifest /\ Manifest # None
    BY <1>2 DEF ListStarts
  <2>2. (Manifest # None)' /\ Read(Manifest)' = Read(Manifest)
    BY <2>1, SameRead
  <2>3. op.pc \in {"segments", "manifest"} => UNCHANGED mem
    BY <2>1 DEF StoreInv, BaseInv, Manifest
  <2> QED
    BY <2>1, <2>2, <2>3 DEF ViewInv, Planned, Read, Text
<1>3. CASE Create \/ Created
  <2>1. Manifest = None /\ UNCHANGED view
    BY <1>3 DEF Create, Created, StoreInv, BaseInv, Manifest
  <2>2. view = None /\ op'.pc \in {"idle", "create"}
    BY <1>3, <2>1 DEF ViewInv, Create, Created, Idle
  <2> QED
    BY <2>1, <2>2 DEF ViewInv
<1>4. CASE CallerAppends
  <2>1. view = None /\ UNCHANGED view /\ op'.pc = "segments" /\ op'.by = "caller"
    BY <1>4 DEF CallerAppends, Unreserved, StartsAppend
  <2> QED
    BY <2>1 DEF ViewInv
<1>5. CASE WriteSegment \/ WriteManifest
  BY <1>5, WritesView
<1>6. CASE Loads("load") \/ Loads("prepare")
  BY <1>6, LoadsView
<1>7. CASE Release
  <2>1. view' = None /\ UNCHANGED <<op, disk, mem>>
    BY <1>7 DEF Release
  <2> QED
    BY <2>1 DEF ViewInv, Planned, Read, Text
<1>8. CASE CompactStarts
  <2>1. UNCHANGED <<view, disk>> /\ mem' = Manifest /\ Manifest # None /\ op'.pc = "replace"
    BY <1>8 DEF CompactStarts
  <2>2. (Manifest # None)' /\ Read(Manifest)' = Read(Manifest)
    BY <2>1, SameRead
  <2> QED
    BY <2>1, <2>2 DEF ViewInv
<1>9. CASE Replace \/ Switch \/ RemoveOld
  <2>1. UNCHANGED view /\ Manifest # None
    BY <1>9 DEF Replace, Switch, RemoveOld, StoreInv, BaseInv, Manifest
  <2>2. (Manifest # None)' /\ Read(Manifest)' = Read(Manifest)
    BY <1>9, <2>1, CompactReads
  <2>3. op'.pc \in {"idle", "switch", "remove"}
    BY <1>9, ReplaceEffect, SwitchEffect, RemoveEffect, Afters DEF Replace, Switch, RemoveOld, Idle, Advanced
  <2> QED
    BY <2>1, <2>2, <2>3 DEF ViewInv
<1>10. CASE Crash
  BY <1>10 DEF Crash, ViewInv, Idle
<1>11. CASE ListReads \/ ListReturns \/ ListEnds \/ Snapshot \/ UNCHANGED vars
  BY <1>1, <1>11 DEF ListReads, ListReturns, ListEnds, Snapshot, vars
<1> QED
  BY <1>2, <1>3, <1>4, <1>5, <1>6, <1>7, <1>8, <1>9, <1>10, <1>11 DEF Next

\* While a preparation is reserved the log is the one it was made of: append refuses a session that is reserved,
\* and a compaction reads the same (prepare, release, append of persistence-service.ts).
THEOREM PreparedStaysCurrent == Spec => []PreparedIsCurrent
<1>1. Init => StoreInv /\ CallerInv /\ ViewInv
  BY StoreInit DEF Init, ViewInv, Idle
<1>2. StoreInv /\ CallerInv /\ ViewInv /\ [Next]_vars => (StoreInv /\ CallerInv /\ ViewInv)'
  BY StoreStep, ViewStep
<1>3. ViewInv => PreparedIsCurrent
  BY DEF ViewInv, PreparedIsCurrent
<1> QED
  BY <1>1, <1>2, <1>3, PTL DEF Spec

-------------------------------------------------------------------------------
(* A session without a failed write.                                       *)

Whole(d, a) == d.man # None => Contiguous(StoredOf(d)) /\ Len(a) = d.man.next
Writing == op.pc \in {"segments", "manifest"}

\* The log is whole but for the tail of an append that a crash cut off; nothing is appended behind such a tail.
WholeInv ==
    /\ torn \in BOOLEAN
    /\ used.faults = 0 =>
          /\ Whole(disk, acked) /\ Whole(image.disk, image.acked)
          /\ ~Writing => mem \in {None, disk.man} /\ (torn <=> StoredOf(disk) # acked)
          /\ torn => ~Writing /\ (caller.live => caller.next # disk.man.next)
          /\ op.pc = "segments" => /\ mem.next = disk.man.next
                                   /\ Contiguous(Planned) /\ Len(Planned) = mem.next + Len(op.batch)
          /\ op.pc = "manifest" => Contiguous(Read(mem)) /\ Len(Read(mem)) = mem.next

\* The beginning of a contiguous log is contiguous, and so is one that goes on from the next seq.
LEMMA ContiguousPart ==
    ASSUME NEW s \in Texts, NEW t \in Texts, Grows(s, t), Contiguous(t)
    PROVE  Contiguous(s)
BY DEF Grows, Contiguous, Texts

\* Events whose seqs go on where a contiguous log ends leave it contiguous.
LEMMA ContiguousMore ==
    ASSUME NEW s \in Texts, Contiguous(s), NEW batch, Accepted(batch, Len(s))
    PROVE  Contiguous(s \o batch)
<1> DEFINE n == Len(s)
           m == Len(batch)
           t == s \o batch
<1>1. n \in Nat /\ m \in Nat /\ batch \in Texts /\ DOMAIN s = 1..n
  BY DEF Accepted, Texts
<1>2. t \in Texts /\ Len(t) = n + m /\ \A i \in 1..(n + m) : t[i] = IF i <= n THEN s[i] ELSE batch[i - n]
  BY <1>1, ConcatProperties DEF Texts
<1>3. DOMAIN t = 1..(n + m)
  BY <1>1, <1>2 DEF Texts
<1>4. (\A i \in 1..n : s[i].seq = i - 1) /\ \A i \in 1..m : batch[i].seq = n + i - 1
  BY <1>1 DEF Contiguous, Accepted
<1> HIDE DEF n, m, t
<1>5. ASSUME NEW i \in 1..(n + m) PROVE t[i].seq = i - 1
  <2>1. CASE i <= n
    BY <1>1, <1>2, <1>4, <2>1
  <2>2. CASE ~(i <= n)
    <3>1. i - n \in 1..m /\ n + (i - n) - 1 = i - 1
      BY <1>1, <2>2
    <3> QED
      BY <1>2, <1>4, <2>2, <3>1
  <2> QED
    BY <2>1, <2>2
<1>6. Contiguous(t)
  BY <1>3, <1>5 DEF Contiguous
<1> QED
  BY <1>6 DEF t

\* What is stored is the beginning of what an append will have written.
LEMMA StoredInPlan ==
    ASSUME NEW files, FilesOk(files), NEW base \in Seq(Names), NEW segs \in Seq(Names), NEW n, Grows(base, segs),
           NEW writes \in Seq(WriteType), writes # <<>>, WritesFit(files, Len(base), segs, writes, n)
    PROVE  Grows(ReadOf(files, base), FlattenSeq(TextsAfter(files, segs, writes)))
<1> DEFINE l == Left(segs, writes)
           b == Len(base)
           t == TextsOf(files, base)
           u == TextsAfter(files, segs, writes)
<1>1. /\ b \in Nat /\ b <= Len(segs) /\ Len(segs) \in Nat /\ \A i \in 1..b : segs[i] = base[i]
      /\ l \in Nat /\ b <= l + 1 /\ (b = l + 1 => Grows(TextOf(files, writes[1].file), writes[1].text))
      /\ 1 \in DOMAIN writes /\ writes[1].file = segs[l + 1]
  BY DEF Grows, WritesFit
<1>2. t \in Seq(Texts) /\ Len(t) = b /\ \A i \in 1..b : t[i] = TextOf(files, base[i])
  BY TextsOfType
<1>3. /\ u \in Seq(Texts) /\ Len(u) = Len(segs)
      /\ \A i \in 1..Len(segs) : u[i] = IF i > l THEN writes[i - l].text ELSE TextOf(files, segs[i])
  BY <1>1, TextsAfterType
<1> HIDE DEF l, b, t, u
<1>4. ASSUME NEW i \in 1..b PROVE Grows(t[i], u[i]) /\ (i < b => t[i] = u[i])
  <2>1. i \in 1..Len(segs) /\ t[i] = TextOf(files, segs[i]) /\ t[i] \in Texts
    <3>1. t[i] \in Texts /\ i \in 1..Len(segs)
      BY <1>1, <1>2
    <3> QED
      BY <1>1, <1>2, <3>1
  <2>2. CASE i <= l
    <3>1. u[i] = t[i]
      BY <1>1, <1>3, <2>1, <2>2
    <3> QED
      BY <2>1, <3>1, GrowsSelf DEF Texts
  <2>3. CASE ~(i <= l)
    <3>1. i = l + 1 /\ b = l + 1 /\ i - l = 1 /\ i > l /\ ~(i < b)
      BY <1>1, <2>3
    <3>2. u[i] = writes[1].text /\ t[i] = TextOf(files, writes[1].file)
      BY <1>1, <1>3, <2>1, <3>1
    <3> QED
      BY <1>1, <3>1, <3>2
  <2> QED
    BY <2>2, <2>3
<1>5. t # <<>> => Grows(t[Len(t)], u[Len(t)])
  <2> SUFFICES ASSUME t # <<>> PROVE Grows(t[b], u[b])
    BY <1>2
  <2>1. b # 0
    BY <1>2
  <2>2. b \in 1..b
    BY <1>1, <2>1
  <2> QED
    BY <1>4, <2>2
<1>6. \A i \in 1..(Len(t) - 1) : t[i] = u[i]
  BY <1>1, <1>2, <1>4
<1>7. t \in Seq(Seq(Events)) /\ u \in Seq(Seq(Events)) /\ Len(t) <= Len(u)
  BY <1>1, <1>2, <1>3 DEF Texts
<1>8. Grows(FlattenSeq(t), FlattenSeq(u))
  BY <1>5, <1>6, <1>7, FlattenGrows
<1> QED
  BY <1>8 DEF ReadOf, t, u

\* A fault is counted.
LEMMA NoFault ==
    ASSUME StoreInv
    PROVE  used.faults \in Nat /\ (Fails => used'.faults # 0)
<1>1. used \in UsedType
  BY DEF StoreInv, ShapeInv
<1>2. used.faults \in Nat /\ (Fails => used'.faults = used.faults + 1)
  BY <1>1 DEF UsedType, Fails
<1> QED
  BY <1>2

\* Between operations the manifest is the stored one; without a torn tail the log is what was acknowledged.
LEMMA WholeManifest ==
    ASSUME StoreInv, WholeInv, used.faults = 0, ~Writing, Manifest # None
    PROVE  /\ Manifest = disk.man /\ disk.man # None /\ Read(Manifest) = StoredOf(disk) /\ StoredOf(disk) \in Texts
           /\ Contiguous(StoredOf(disk)) /\ Len(acked) = disk.man.next
           /\ torn <=> Len(StoredOf(disk)) # disk.man.next
<1>1. disk.man # None /\ StoredOf(disk) \in Texts
  BY ManifestParts
<1>2. Manifest = disk.man
  BY DEF WholeInv, Manifest
<1>3. Read(Manifest) = StoredOf(disk)
  BY <1>1, <1>2, ReadIs DEF StoredOf
<1>4. Contiguous(StoredOf(disk)) /\ Len(acked) = disk.man.next /\ (torn <=> StoredOf(disk) # acked)
  BY <1>1 DEF WholeInv, Whole
<1>5. Len(StoredOf(disk)) = Len(acked) => StoredOf(disk) = acked
  <2>1. Grows(acked, StoredOf(disk)) /\ acked \in Texts
    BY DEF StoreInv, AckInv, AckOk, ShapeInv
  <2> QED
    BY <1>1, <2>1, GrowsSame DEF Texts
<1> QED
  BY <1>1, <1>2, <1>3, <1>4, <1>5

\* An append that starts goes on from a log that is whole.
LEMMA StartsWhole ==
    ASSUME StoreInv, WholeInv, op.pc = "idle", Manifest # None, NEW batch, Accepted(batch, Manifest.next),
           NEW by \in Agents, StartsAppend(batch, by), UNCHANGED <<disk, image, acked, caller, torn>>,
           used'.faults = used.faults, used.faults = 0 => ~torn
    PROVE  WholeInv'
<1> SUFFICES ASSUME used.faults = 0 PROVE WholeInv'
  BY DEF WholeInv
<1>1. /\ Manifest = disk.man /\ Read(Manifest) = StoredOf(disk) /\ StoredOf(disk) \in Texts
      /\ Contiguous(StoredOf(disk)) /\ Len(StoredOf(disk)) = disk.man.next
  BY WholeManifest DEF Writing
<1>2. op'.pc = "segments" /\ op'.batch = batch /\ mem'.next = Manifest.next /\ Planned' = Read(Manifest) \o batch
  <2>1. /\ mem' = [segs |-> mem'.segs, next |-> Manifest.next]
        /\ op' = [pc |-> "segments", by |-> by, batch |-> batch, writes |-> op'.writes]
        /\ Planned' = Read(Manifest) \o batch
    BY StartsPlan
  <2> QED
    BY <2>1
<1> DEFINE s == StoredOf(disk)
           t == s \o batch
<1>3. Accepted(batch, Len(s)) /\ Planned' = t /\ disk.man.next = Len(s)
  BY <1>1, <1>2
<1>4. s \in Texts /\ Contiguous(s) /\ Len(s) \in Nat
  BY <1>1 DEF Texts
<1> HIDE DEF s
<1>5. Contiguous(t) /\ Len(t) = Len(s) + Len(batch)
  BY <1>3, <1>4, ContiguousMore, EndsBeforeMore
<1>6. Contiguous(Planned)' <=> Contiguous(Planned')
  BY DEF Contiguous
<1>7. Whole(disk, acked)' /\ Whole(image.disk, image.acked)'
  <2>1. Whole(disk, acked) /\ Whole(image.disk, image.acked)
    BY DEF WholeInv
  <2> QED
    BY <2>1 DEF Whole, Contiguous, StoredOf, ReadOf, TextsOf, TextOf
<1>8. ~torn' /\ torn' \in BOOLEAN
  BY DEF WholeInv
<1> QED
  BY <1>1, <1>2, <1>3, <1>5, <1>6, <1>7, <1>8 DEF WholeInv, Writing

\* Steps that change nothing that is stored.
LEMMA QuietWhole ==
    ASSUME StoreInv, WholeInv, UNCHANGED <<disk, image, acked, torn>>, used'.faults = used.faults,
           \/ UNCHANGED <<mem, op, caller>>
           \/ mem' = Manifest /\ Manifest # None /\ UNCHANGED <<op, caller>>
           \/ ~Writing /\ ~Writing' /\ (mem' = Manifest \/ UNCHANGED mem)
              /\ (UNCHANGED caller \/ ~caller'.live)
    PROVE  WholeInv'
<1>1. Whole(disk, acked)' <=> Whole(disk, acked)
  BY DEF Whole, Contiguous, StoredOf, ReadOf, TextsOf, TextOf
<1>2. Whole(image.disk, image.acked)' <=> Whole(image.disk, image.acked)
  BY DEF Whole, Contiguous, StoredOf, ReadOf, TextsOf, TextOf
<1>3. CASE UNCHANGED <<mem, op, caller>>
  BY <1>1, <1>2, <1>3 DEF WholeInv, Writing, Planned, Contiguous, Read, Text, StoredOf
<1>4. CASE mem' = Manifest /\ Manifest # None /\ UNCHANGED <<op, caller>> /\ ~UNCHANGED mem
  <2>1. mem = None /\ mem' = disk.man
    BY <1>4 DEF Manifest
  <2>2. op.pc \in {"idle", "create"}
    BY <2>1 DEF StoreInv, BaseInv
  <2> QED
    BY <1>1, <1>2, <1>4, <2>1, <2>2 DEF WholeInv, Writing, StoredOf
<1>5. CASE ~Writing /\ ~Writing' /\ (mem' = Manifest \/ UNCHANGED mem) /\ (UNCHANGED caller \/ ~caller'.live)
  BY <1>1, <1>2, <1>5 DEF WholeInv, Writing, Manifest, StoredOf
<1> QED
  BY <1>3, <1>4, <1>5

\* A torn log takes no event of the caller: its next seq is not the manifest's.
LEMMA CallerAppendsWhole ==
    ASSUME StoreInv, CallerInv, WholeInv, CallerAppends
    PROVE  WholeInv'
<1>1. PICK k \in 1..MaxBatch : LET batch == [i \in 1..k |-> Event(caller.next + i - 1, used.crashes)] IN
                                  Sequenced(batch) /\ StartsAppend(batch, "caller")
  BY DEF CallerAppends
<1>2. /\ k \in Nat \ {0} /\ op = Idle /\ Manifest # None /\ UNCHANGED <<disk, image, acked, caller, torn, used>>
      /\ "caller" \in Agents /\ caller.live /\ caller.next \in Nat
  BY SessionLogAssumption DEF CallerAppends, Agents, Free, CallerInv
<1> DEFINE batch == [i \in 1..k |-> Event(caller.next + i - 1, used.crashes)]
<1>3. Accepted(batch, Manifest.next) /\ StartsAppend(batch, "caller")
  BY <1>1, <1>2, CallerAccepted
<1>4. Manifest.next = caller.next
  <2>1. 1 \in 1..k /\ batch[1].seq = caller.next + 1 - 1
    BY <1>2 DEF Event
  <2>2. batch[1].seq = Manifest.next
    BY <1>1 DEF Sequenced
  <2> QED
    BY <1>2, <2>1, <2>2
<1> HIDE DEF batch
<1>5. op.pc = "idle"
  BY <1>2 DEF Idle
<1>6. used.faults = 0 => ~torn
  <2> SUFFICES ASSUME used.faults = 0, torn PROVE FALSE
    BY DEF WholeInv
  <2>1. Manifest = disk.man
    BY <1>2, <1>5, WholeManifest DEF Writing
  <2>2. caller.next # disk.man.next
    BY <1>2 DEF WholeInv
  <2> QED
    BY <1>4, <2>1, <2>2
<1> QED
  BY <1>2, <1>3, <1>5, <1>6, StartsWhole

\* Nor does it take an event that closes a turn: the one that is told of it cannot go on.
LEMMA LoadsWhole ==
    ASSUME StoreInv, CallerInv, WholeInv, NEW by \in {"load", "prepare"}, Loads(by)
    PROVE  WholeInv'
<1> DEFINE s == Read(Manifest)
<1>1. /\ op = Idle /\ Manifest # None /\ UNCHANGED <<disk, image, acked, torn>> /\ by \in Agents
      /\ used' = [used EXCEPT !.loads = @ + 1]
      /\ \/ Closers(s) = <<>> /\ mem' = Manifest /\ Told(by, s) /\ UNCHANGED op
         \/ Closers(s) # <<>> /\ Sequenced(Closers(s)) /\ StartsAppend(Closers(s), by) /\ UNCHANGED caller
  BY DEF Loads, Agents, Free
<1>2. op.pc = "idle" /\ used'.faults = used.faults /\ s \in Texts
  BY <1>1, ManifestParts DEF Idle, StoreInv, ShapeInv, UsedType
<1>3. CASE Closers(s) # <<>>
  <2>1. Sequenced(Closers(s)) /\ StartsAppend(Closers(s), by) /\ UNCHANGED caller
    BY <1>1, <1>3
  <2>2. Accepted(Closers(s), Manifest.next) /\ Manifest.next = Len(s)
    <3> HIDE DEF s
    <3> QED
      BY <1>2, <1>3, <2>1, ClosersAccepted
  <2>3. used.faults = 0 => ~torn
    <3> SUFFICES ASSUME used.faults = 0 PROVE ~torn
      OBVIOUS
    <3>1. Manifest = disk.man /\ s = StoredOf(disk) /\ (torn <=> Len(StoredOf(disk)) # disk.man.next)
      BY <1>1, <1>2, WholeManifest DEF Writing
    <3> QED
      BY <2>2, <3>1
  <2> HIDE DEF s
  <2> QED
    BY <1>1, <1>2, <2>1, <2>2, <2>3, StartsWhole
<1>4. CASE Closers(s) = <<>>
  <2>1. mem' = Manifest /\ Told(by, s) /\ UNCHANGED op
    BY <1>1, <1>4
  <2>2. CASE UNCHANGED caller
    BY <1>1, <1>2, <2>1, <2>2, QuietWhole
  <2>3. CASE ~UNCHANGED caller
    <3>1. caller' = [live |-> TRUE, next |-> Len(s)]
      BY <2>1, <2>3 DEF Told
    <3> SUFFICES ASSUME used.faults = 0 PROVE WholeInv'
      BY <1>1, <1>2 DEF WholeInv
    <3>2. Manifest = disk.man /\ s = StoredOf(disk) /\ (torn <=> Len(StoredOf(disk)) # disk.man.next)
      BY <1>1, <1>2, WholeManifest DEF Writing
    <3>3. torn => caller'.next # disk.man.next
      BY <3>1, <3>2
    <3>4. Whole(disk, acked)' <=> Whole(disk, acked)
      BY <1>1 DEF Whole, Contiguous, StoredOf, ReadOf, TextsOf, TextOf
    <3>5. Whole(image.disk, image.acked)' <=> Whole(image.disk, image.acked)
      BY <1>1 DEF Whole, Contiguous, StoredOf, ReadOf, TextsOf, TextOf
    <3>6. ~Writing /\ ~Writing' /\ op'.pc = "idle"
      BY <1>2, <2>1 DEF Writing
    <3>7. torn <=> StoredOf(disk) # acked
      BY <3>6 DEF WholeInv
    <3> QED
      BY <1>1, <2>1, <3>2, <3>3, <3>4, <3>5, <3>6, <3>7 DEF WholeInv
  <2> QED
    BY <2>2, <2>3
<1> QED
  BY <1>3, <1>4

\* A segment that is written takes the log towards the one that is planned.
LEMMA WriteSegmentWhole ==
    ASSUME StoreInv, WholeInv, WriteSegment
    PROVE  WholeInv'
<1>1. op.pc = "segments" /\ UNCHANGED <<image, acked, torn, caller>>
  BY DEF WriteSegment
<1>2. CASE used'.faults # 0
  BY <1>1, <1>2 DEF WholeInv
<1>3. CASE used'.faults = 0
  <2>1. ~Fails
    BY <1>3, NoFault
  <2>2. /\ UNCHANGED used /\ op \in AppendType /\ mem \in ManType /\ mem.segs \in Seq(Names) /\ mem # None
        /\ disk.man # None /\ disk.man.segs \in Seq(Names) /\ op.writes \in Seq(WriteType) /\ op.writes # <<>>
        /\ WritesFit(disk.files, Len(disk.man.segs), mem.segs, op.writes, mem.next)
        /\ DiskShape(disk) /\ DiskShape(disk') /\ disk'.man = disk.man
    BY <2>1, WriteEffect
  <2>3. used.faults = 0
    BY <1>3, <2>2
  <2>4. ~torn /\ mem.next = disk.man.next /\ Contiguous(Planned) /\ Len(Planned) = mem.next + Len(op.batch)
        /\ torn \in BOOLEAN /\ Whole(image.disk, image.acked) /\ Len(acked) = disk.man.next
    BY <1>1, <2>2, <2>3 DEF WholeInv, Writing, Whole
  <2>5. Grows(disk.man.segs, mem.segs) /\ FilesOk(disk'.files) /\ FilesOk(disk.files)
    BY <2>2 DEF StoreInv, BaseInv, DiskShape
  <2>6. StoredOf(disk') = ReadOf(disk'.files, disk.man.segs) /\ StoredOf(disk') \in Texts
    BY <2>2, StoredOfType DEF StoredOf
  <2>7. Whole(image.disk, image.acked)'
    BY <1>1, <2>4 DEF Whole, Contiguous, StoredOf, ReadOf, TextsOf, TextOf
  <2>8. CASE op'.pc = "segments"
    <3>1. /\ op'.batch = op.batch /\ UNCHANGED mem /\ op'.writes # <<>> /\ op'.writes \in Seq(WriteType)
          /\ WritesFit(disk'.files, Len(disk.man.segs), mem.segs, op'.writes, mem.next) /\ Planned' = Planned
      BY <2>1, <2>8, WriteEffect
    <3>2. Grows(ReadOf(disk'.files, disk.man.segs), FlattenSeq(TextsAfter(disk'.files, mem.segs, op'.writes)))
      BY <2>2, <2>5, <3>1, StoredInPlan
    <3>3. Grows(StoredOf(disk'), Planned)
      BY <2>6, <3>1, <3>2 DEF Planned
    <3>4. Planned \in Texts
      BY <2>2, <2>5, TextsAfterType, FlattenType DEF Planned, Texts, WritesFit
    <3>5. Contiguous(StoredOf(disk'))
      BY <2>4, <2>6, <3>3, <3>4, ContiguousPart
    <3>6. Contiguous(StoredOf(disk))' /\ Contiguous(Planned)'
      <4>1. Contiguous(StoredOf(disk))' <=> Contiguous(StoredOf(disk'))
        BY DEF Contiguous, StoredOf, ReadOf, TextsOf, TextOf
      <4>2. Contiguous(Planned)' <=> Contiguous(Planned')
        BY DEF Contiguous
      <4> QED
        BY <2>4, <3>1, <3>5, <4>1, <4>2
    <3>7. Whole(disk, acked)'
      BY <1>1, <2>2, <2>4, <3>6 DEF Whole
    <3> QED
      BY <1>1, <2>2, <2>4, <2>7, <2>8, <3>1, <3>6, <3>7 DEF WholeInv, Writing
  <2>9. CASE op'.pc # "segments"
    <3>1. /\ op'.pc = "manifest" /\ mem' # None /\ mem'.segs = mem.segs /\ mem'.next = mem.next + Len(op.batch)
          /\ ReadOf(disk'.files, mem.segs) = Planned
      BY <2>1, <2>9, WriteEffect
    <3>2. Read(mem)' = Planned
      BY <3>1 DEF Read, ReadOf, TextsOf, Text, TextOf
    <3>3. Grows(StoredOf(disk'), Planned) /\ Planned \in Texts
      <4>1. Grows(ReadOf(disk'.files, disk.man.segs), ReadOf(disk'.files, mem.segs))
        BY <2>2, <2>5, ReadMore
      <4>2. ReadOf(disk'.files, mem.segs) \in Texts
        BY <2>2, <2>5, ReadOfType
      <4> QED
        BY <2>6, <3>1, <4>1, <4>2
    <3>4. Contiguous(StoredOf(disk'))
      BY <2>4, <2>6, <3>3, ContiguousPart
    <3>5. Contiguous(StoredOf(disk))' /\ Contiguous(Read(mem))'
      <4>1. Contiguous(StoredOf(disk))' <=> Contiguous(StoredOf(disk'))
        BY DEF Contiguous, StoredOf, ReadOf, TextsOf, TextOf
      <4>2. Contiguous(Read(mem))' <=> Contiguous(Read(mem)')
        BY DEF Contiguous
      <4> QED
        BY <2>4, <3>2, <3>4, <4>1, <4>2
    <3>6. Whole(disk, acked)'
      BY <1>1, <2>2, <2>4, <3>5 DEF Whole
    <3> QED
      BY <1>1, <2>2, <2>4, <2>7, <3>1, <3>2, <3>5, <3>6 DEF WholeInv, Writing
  <2> QED
    BY <2>8, <2>9
<1> QED
  BY <1>2, <1>3

\* A manifest that is written counts the log that its segments hold.
LEMMA WriteManifestWhole ==
    ASSUME StoreInv, WholeInv, WriteManifest
    PROVE  WholeInv'
<1>1. op.pc = "manifest" /\ op' = Idle /\ UNCHANGED <<mem, image, torn>>
  BY DEF WriteManifest
<1>2. CASE used'.faults # 0
  BY <1>1, <1>2 DEF WholeInv
<1>3. CASE used'.faults = 0
  <2>1. ~Fails
    BY <1>3, NoFault
  <2>2. UNCHANGED used /\ disk' = [disk EXCEPT !.man = mem] /\ acked' = Read(mem)
    BY <2>1 DEF WriteManifest
  <2>3. ~torn /\ Contiguous(Read(mem)) /\ Len(Read(mem)) = mem.next /\ torn \in BOOLEAN /\ Whole(image.disk, image.acked)
    BY <1>1, <1>3, <2>2 DEF WholeInv, Writing
  <2>4. mem # None /\ DiskShape(disk)
    BY <1>1 DEF StoreInv, ShapeInv, BaseInv
  <2>5. disk'.man = mem /\ disk'.files = disk.files
    BY <2>2, <2>4 DEF DiskShape
  <2>6. StoredOf(disk') = Read(mem)
    BY <2>4, <2>5, ReadIs DEF StoredOf
  <2>7. Whole(image.disk, image.acked)'
    BY <1>1, <2>3 DEF Whole, Contiguous, StoredOf, ReadOf, TextsOf, TextOf
  <2>8. Whole(disk, acked)'
    <3>1. Contiguous(StoredOf(disk))' <=> Contiguous(StoredOf(disk'))
      BY DEF Contiguous, StoredOf, ReadOf, TextsOf, TextOf
    <3> QED
      BY <2>2, <2>3, <2>5, <2>6, <3>1 DEF Whole
  <2>9. ~Writing'
    BY <1>1 DEF Writing, Idle
  <2> QED
    BY <1>1, <2>2, <2>3, <2>5, <2>6, <2>7, <2>8, <2>9 DEF WholeInv, Writing
<1> QED
  BY <1>2, <1>3

\* A new session is whole.
LEMMA CreatedWhole ==
    ASSUME StoreInv, WholeInv, Created
    PROVE  WholeInv'
<1>1. op.pc = "create" /\ op' = Idle /\ UNCHANGED <<image, acked, torn>>
  BY DEF Created
<1>2. CASE used'.faults # 0
  BY <1>1, <1>2 DEF WholeInv
<1>3. CASE used'.faults = 0
  <2>1. ~Fails
    BY <1>3, NoFault
  <2> DEFINE m == [segs |-> <<>>, next |-> 0]
  <2>2. UNCHANGED used /\ disk' = [disk EXCEPT !.man = m] /\ mem' = disk'.man /\ caller'.next = 0 /\ caller'.live = TRUE
    BY <2>1 DEF Created
  <2>3. m # None /\ m.next = 0 /\ m.segs = <<>>
    BY EmptyMan
  <2> HIDE DEF m
  <2>4. disk.man = None /\ DiskShape(disk) /\ Grows(acked, StoredOf(disk)) /\ acked \in Texts
    BY <1>1 DEF StoreInv, ShapeInv, BaseInv, AckInv, AckOk
  <2>5. disk'.man = m
    BY <2>2, <2>4 DEF DiskShape
  <2>6. StoredOf(disk) = <<>> /\ acked = <<>>
    <3>1. StoredOf(disk) = <<>>
      BY <2>4 DEF StoredOf
    <3>2. Len(acked) <= 0 /\ Len(acked) \in Nat
      BY <2>4, <3>1 DEF Grows, Texts
    <3>3. Len(acked) = 0
      BY <3>2
    <3> QED
      BY <2>4, <3>1, <3>3 DEF Texts
  <2>7. StoredOf(disk') = <<>>
    <3>1. TextsOf(disk'.files, <<>>) = <<>>
      BY DEF TextsOf
    <3> QED
      BY <2>3, <2>5, <3>1, FlattenEmpty DEF StoredOf, ReadOf
  <2>8. ~torn /\ torn \in BOOLEAN /\ Whole(image.disk, image.acked)
    BY <1>1, <1>3, <2>2, <2>6 DEF WholeInv, Writing
  <2>9. Whole(image.disk, image.acked)'
    BY <1>1, <2>8 DEF Whole, Contiguous, StoredOf, ReadOf, TextsOf, TextOf
  <2>10. Whole(disk, acked)'
    <3>1. Contiguous(StoredOf(disk))' <=> Contiguous(StoredOf(disk'))
      BY DEF Contiguous, StoredOf, ReadOf, TextsOf, TextOf
    <3>2. Contiguous(<<>>) /\ Len(<<>>) = 0
      BY DEF Contiguous
    <3> QED
      BY <1>1, <2>3, <2>5, <2>6, <2>7, <3>1, <3>2 DEF Whole
  <2>11. ~Writing'
    BY <1>1 DEF Writing, Idle
  <2> QED
    BY <1>1, <2>2, <2>5, <2>6, <2>7, <2>8, <2>9, <2>10, <2>11 DEF WholeInv, Writing
<1> QED
  BY <1>2, <1>3

\* A compaction moves the log as it is.
LEMMA CompactWhole ==
    ASSUME StoreInv, WholeInv, Replace \/ Switch \/ RemoveOld
    PROVE  WholeInv'
<1>1. /\ op.pc \in {"replace", "switch", "remove"} /\ op'.pc \in {"idle", "switch", "remove"}
      /\ UNCHANGED <<image, acked, torn, caller>>
  BY ReplaceEffect, SwitchEffect, RemoveEffect, Afters DEF Replace, Switch, RemoveOld, Idle, Advanced
<1>2. CASE used'.faults # 0
  BY <1>1, <1>2 DEF WholeInv
<1>3. CASE used'.faults = 0
  <2>1. ~Fails /\ mem # None /\ disk.man # None
    BY <1>1, <1>3, NoFault DEF StoreInv, BaseInv
  <2>2. UNCHANGED used
    BY <2>1 DEF Replace, Switch, RemoveOld
  <2>3. mem = disk.man /\ ~Writing /\ ~Writing'
    BY <1>1, <1>3, <2>1, <2>2 DEF WholeInv, Writing
  <2>4. mem' = disk'.man /\ disk'.man # None /\ disk'.man.next = disk.man.next /\ StoredOf(disk') = StoredOf(disk)
    <3>1. CASE Replace
      BY <2>1, <2>3, <3>1, ReplaceEffect
    <3>2. CASE Switch
      <4>1. /\ disk'.man = mem' /\ mem' # None /\ mem'.next = mem.next /\ StoredOf(disk') = op.text
            /\ op.text = ReadOf(disk.files, mem.segs)
        BY <2>1, <3>2, SwitchEffect
      <4> QED
        BY <2>1, <2>3, <4>1 DEF StoredOf
    <3>3. CASE RemoveOld /\ op.old # <<>>
      BY <2>1, <2>3, <3>3, RemoveEffect
    <3>4. CASE RemoveOld /\ op.old = <<>>
      BY <2>1, <2>3, <3>4 DEF RemoveOld
    <3> QED
      BY <3>1, <3>2, <3>3, <3>4
  <2>5. Whole(disk, acked)' <=> Whole(disk, acked)
    <3>1. Contiguous(StoredOf(disk))' <=> Contiguous(StoredOf(disk'))
      BY DEF Contiguous, StoredOf, ReadOf, TextsOf, TextOf
    <3> QED
      BY <1>1, <2>1, <2>4, <3>1 DEF Whole
  <2>6. Whole(image.disk, image.acked)' <=> Whole(image.disk, image.acked)
    BY <1>1 DEF Whole, Contiguous, StoredOf, ReadOf, TextsOf, TextOf
  <2> QED
    BY <1>1, <1>3, <2>2, <2>3, <2>4, <2>5, <2>6 DEF WholeInv, Writing
<1> QED
  BY <1>2, <1>3

\* A snapshot and a reload keep a session whole, unless the image was taken inside an append.
LEMMA PageWhole ==
    ASSUME StoreInv, WholeInv, Snapshot \/ Crash
    PROVE  WholeInv'
<1>1. CASE Snapshot
  <2>1. image' = [disk |-> disk, acked |-> acked] /\ UNCHANGED <<disk, mem, op, used, acked, torn, caller>>
    BY <1>1 DEF Snapshot
  <2>2. image'.disk = disk /\ image'.acked = acked
    BY <2>1
  <2>3. Whole(disk, acked)' <=> Whole(disk, acked)
    BY <2>1 DEF Whole, Contiguous, StoredOf, ReadOf, TextsOf, TextOf
  <2>4. Whole(image.disk, image.acked)' <=> Whole(disk, acked)
    BY <2>2 DEF Whole, Contiguous, StoredOf, ReadOf, TextsOf, TextOf
  <2> QED
    BY <2>1, <2>3, <2>4 DEF WholeInv, Writing, Planned, Contiguous, Read, Text, StoredOf
<1>2. CASE Crash
  <2>1. /\ disk' = image.disk /\ acked' = image.acked /\ mem' = None /\ op' = Idle /\ UNCHANGED image
        /\ used' = [used EXCEPT !.crashes = @ + 1] /\ torn' = (Stored' # image.acked)
        /\ caller' = [live |-> FALSE, next |-> 0]
    BY <1>2 DEF Crash
  <2>2. used'.faults = used.faults
    BY <2>1 DEF StoreInv, ShapeInv, UsedType
  <2>3. Whole(disk, acked)' <=> Whole(image.disk, image.acked)
    BY <2>1 DEF Whole, Contiguous, StoredOf, ReadOf, TextsOf, TextOf
  <2>4. Whole(image.disk, image.acked)' <=> Whole(image.disk, image.acked)
    BY <2>1 DEF Whole, Contiguous, StoredOf, ReadOf, TextsOf, TextOf
  <2>5. ~Writing' /\ op'.pc = "idle" /\ caller'.live = FALSE
    BY <2>1 DEF Writing, Idle
  <2>6. Stored' = StoredOf(disk')
    BY DEF Stored, StoredOf, Read, ReadOf, TextsOf, Text, TextOf
  <2>7. torn' \in BOOLEAN /\ (torn' <=> StoredOf(disk') # acked')
    BY <2>1, <2>6
  <2> QED
    BY <2>1, <2>2, <2>3, <2>4, <2>5, <2>7 DEF WholeInv
<1> QED
  BY <1>1, <1>2

\* Every step keeps a session whole where no write has failed.
LEMMA WholeStep ==
    ASSUME StoreInv, CallerInv, WholeInv, [Next]_vars
    PROVE  WholeInv'
<1>1. CASE Create \/ CompactStarts
  <2>1. /\ UNCHANGED <<disk, image, acked, torn, caller>> /\ used'.faults = used.faults
        /\ op.pc = "idle" /\ op'.pc \in {"create", "replace"} /\ (mem' = Manifest \/ UNCHANGED mem)
    BY <1>1 DEF Create, CompactStarts, Free, Idle, StoreInv, ShapeInv, UsedType
  <2>2. ~Writing /\ ~Writing'
    BY <2>1 DEF Writing
  <2> QED
    BY <2>1, <2>2, QuietWhole
<1>2. CASE Release \/ ListStarts \/ ListReads \/ ListReturns \/ ListEnds \/ UNCHANGED vars
  <2>1. /\ UNCHANGED <<disk, image, acked, torn, caller, op>> /\ used'.faults = used.faults
        /\ UNCHANGED mem \/ (mem' = Manifest /\ Manifest # None)
    BY <1>2 DEF Release, ListStarts, ListReads, ListReturns, ListEnds, vars
  <2> QED
    BY <2>1, QuietWhole
<1> QED
  BY <1>1, <1>2, CreatedWhole, CallerAppendsWhole, LoadsWhole, WriteSegmentWhole, WriteManifestWhole, CompactWhole,
     PageWhole DEF Next

\* Without a failed write and a torn tail the log between operations is one run of seqs that the manifest counts
\* exactly: the next append and the closers of a load are accepted (append, compact, prepare; loadLog).
THEOREM SessionStaysWhole == Spec => []SessionIsWhole
<1>1. Init => StoreInv /\ CallerInv /\ WholeInv
  <2> SUFFICES ASSUME Init PROVE WholeInv
    BY StoreInit
  <2>1. /\ disk = [man |-> None, files |-> <<>>] /\ mem = None /\ op = Idle /\ acked = <<>> /\ torn = FALSE
        /\ image = [disk |-> disk, acked |-> <<>>] /\ caller = [live |-> FALSE, next |-> 0]
    BY DEF Init
  <2>2. disk.man = None /\ image.disk.man = None /\ StoredOf(disk) = <<>> /\ op.pc = "idle"
    BY <2>1 DEF StoredOf, Idle
  <2> QED
    BY <2>1, <2>2 DEF WholeInv, Whole, Writing
<1>2. StoreInv /\ CallerInv /\ WholeInv /\ [Next]_vars => (StoreInv /\ CallerInv /\ WholeInv)'
  BY StoreStep, WholeStep
<1>3. StoreInv /\ WholeInv => SessionIsWhole
  <2> SUFFICES ASSUME StoreInv, WholeInv, Free, disk.man # None, used.faults = 0, ~torn
               PROVE  Contiguous(Stored) /\ Len(Stored) = disk.man.next /\ mem \in {None, disk.man}
    BY DEF SessionIsWhole
  <2>1. ~Writing
    BY DEF Free, Idle, Writing
  <2>2. Whole(disk, acked) /\ mem \in {None, disk.man} /\ StoredOf(disk) = acked
    BY <2>1 DEF WholeInv
  <2> QED
    BY <2>2, StoredIs DEF Whole
<1> QED
  BY <1>1, <1>2, <1>3, PTL DEF Spec

-------------------------------------------------------------------------------
(* What a listing reads.                                                   *)

\* The first text comes first.
LEMMA FlattenHead ==
    ASSUME NEW S, NEW t \in Seq(Seq(S)), t # <<>>
    PROVE  /\ Tail(t) \in Seq(Seq(S)) /\ t[1] \in Seq(S) /\ FlattenSeq(t) = t[1] \o FlattenSeq(Tail(t))
           /\ Len(Tail(t)) = Len(t) - 1 /\ \A i \in 1..(Len(t) - 1) : Tail(t)[i] = t[i + 1]
<1> DEFINE R == Seq(S)
           u == Tail(t)
           x == t[1]
<1>1. t \in Seq(R) /\ t # <<>>
  OBVIOUS
<1> HIDE DEF R
<1>2. /\ u \in Seq(R) /\ x \in R /\ Len(u) = Len(t) - 1 /\ (\A i \in 1..(Len(t) - 1) : u[i] = t[i + 1])
  BY <1>1
<1>3. <<x>> \o u = t
  <2> HIDE DEF x, u
  <2>1. <<x>> \in Seq(R) /\ Len(<<x>>) = 1 /\ <<x>>[1] = x
    BY <1>2
  <2>2. <<x>> \o u \in Seq(R) /\ Len(<<x>> \o u) = 1 + Len(u)
        /\ \A i \in 1..(1 + Len(u)) : (<<x>> \o u)[i] = IF i <= 1 THEN <<x>>[i] ELSE u[i - 1]
    BY <1>2, <2>1, ConcatProperties
  <2>3. Len(t) \in Nat /\ Len(t) # 0 /\ t[1] = x
    BY <1>1 DEF x
  <2>4. ASSUME NEW i \in 1..Len(t) PROVE (<<x>> \o u)[i] = t[i]
    <3>1. CASE i = 1
      BY <1>2, <2>1, <2>2, <2>3, <3>1
    <3>2. CASE i # 1
      <4>1. i - 1 \in 1..(Len(t) - 1) /\ i \in 1..(1 + Len(u)) /\ ~(i <= 1) /\ (i - 1) + 1 = i
        BY <1>2, <2>3, <3>2
      <4> QED
        BY <1>2, <2>2, <4>1
    <3> QED
      BY <3>1, <3>2
  <2>5. Len(<<x>> \o u) = Len(t)
    BY <1>2, <2>2, <2>3
  <2> DEFINE v == <<x>> \o u
  <2>6. v \in Seq(R) /\ Len(v) = Len(t) /\ \A i \in 1..Len(v) : v[i] = t[i]
    BY <2>2, <2>4, <2>5
  <2> HIDE DEF v
  <2>7. v = t
    BY <1>1, <2>6, SeqEqual
  <2> QED
    BY <2>7 DEF v
<1>4. FlattenSeq(<<x>> \o u) = x \o FlattenSeq(u)
  <2>1. x \in Seq(S) /\ u \in Seq(Seq(S))
    BY <1>2 DEF R
  <2> HIDE DEF x, u
  <2> QED
    BY <2>1, FlattenFirst
<1> QED
  BY <1>2, <1>3, <1>4 DEF R

\* Texts without an event.
LEMMA FlattenNothing ==
    ASSUME NEW S, NEW t \in Seq(Seq(S)), \A i \in 1..Len(t) : t[i] = <<>>
    PROVE  FlattenSeq(t) = <<>>
<1> DEFINE R == Seq(S)
           T == {u \in Seq(R) : (\A i \in 1..Len(u) : u[i] = <<>>) => FlattenSeq(u) = <<>>}
<1>0. <<>> \in Seq(R)
  OBVIOUS
<1>1. <<>> \in T
  BY <1>0, FlattenEmpty
<1>2. ASSUME NEW u \in T, NEW x \in R PROVE Append(u, x) \in T
  <2>1. u \in Seq(R) /\ Append(u, x) \in Seq(R) /\ Len(Append(u, x)) = Len(u) + 1
        /\ (\A i \in 1..Len(u) : Append(u, x)[i] = u[i]) /\ Append(u, x)[Len(u) + 1] = x /\ Len(u) \in Nat
    <3>1. u \in Seq(R)
      OBVIOUS
    <3> HIDE DEF R, T
    <3> QED
      BY <3>1, Appended
  <2> SUFFICES ASSUME \A i \in 1..Len(Append(u, x)) : Append(u, x)[i] = <<>>
               PROVE  FlattenSeq(Append(u, x)) = <<>>
    BY <2>1
  <2>2. x = <<>> /\ \A i \in 1..Len(u) : u[i] = <<>>
    <3>1. Len(u) + 1 \in 1..Len(Append(u, x)) /\ \A i \in 1..Len(u) : i \in 1..Len(Append(u, x))
      BY <2>1
    <3> QED
      BY <2>1, <3>1
  <2>3. FlattenSeq(u) = <<>>
    BY <2>2
  <2>4. FlattenSeq(Append(u, x)) = FlattenSeq(u) \o x
    BY <2>1, FlattenAppend
  <2>5. <<>> \o <<>> = <<>>
    OBVIOUS
  <2> QED
    BY <2>2, <2>3, <2>4, <2>5
<1>3. T \subseteq Seq(R)
  OBVIOUS
<1> HIDE DEF T
<1>4. T = Seq(R)
  <2> HIDE DEF R
  <2> QED
    BY <1>1, <1>2, <1>3, SeqInduction
<1> QED
  BY <1>4 DEF T

\* A text as it was, or one that goes on where the last text that counts ends.
Same(texts, rest, i) ==
    \/ rest[i] = texts[i]
    \/ Grows(rest[i], texts[i]) /\ \A j \in DOMAIN rest : j > i => rest[j] = <<>>

\* What begins a sequence of texts is a sequence of the same texts, the last one cut.
LEMMA PrefixSplits ==
    ASSUME NEW S, NEW t \in Seq(Seq(S)), NEW p \in Seq(S), Grows(p, FlattenSeq(t))
    PROVE  \E rest \in Seq(Seq(S)) : /\ Len(rest) = Len(t) /\ FlattenSeq(rest) = p
                                     /\ \A i \in DOMAIN rest : Same(t, rest, i)
<1> DEFINE R == Seq(S)
           Splits(u, q) == \E rest \in Seq(R) : /\ Len(rest) = Len(u) /\ FlattenSeq(rest) = q
                                                /\ \A i \in DOMAIN rest : Same(u, rest, i)
           T == {u \in Seq(R) : \A q \in R : Grows(q, FlattenSeq(u)) => Splits(u, q)}
<1>0. <<>> \in Seq(R)
  OBVIOUS
<1>1. <<>> \in T
  <2> SUFFICES ASSUME NEW q \in R, Grows(q, FlattenSeq(<<>>)) PROVE Splits(<<>>, q)
    BY <1>0
  <2>1. Len(q) <= 0 /\ Len(q) \in Nat
    BY FlattenEmpty DEF Grows
  <2>2. q = <<>>
    BY <2>1
  <2>3. Len(<<>>) = 0 /\ DOMAIN <<>> = {}
    OBVIOUS
  <2> DEFINE s == <<>>
  <2>4. s \in Seq(R) /\ FlattenSeq(s) = s /\ DOMAIN s = {} /\ q = s
    BY <1>0, <2>2, <2>3, FlattenEmpty
  <2> HIDE DEF s, R
  <2>5. \E rest \in Seq(R) : Len(rest) = Len(s) /\ FlattenSeq(rest) = q /\ \A i \in DOMAIN rest : Same(s, rest, i)
    BY <2>4
  <2> QED
    BY <2>5 DEF s
<1>2. ASSUME NEW u \in T, NEW x \in R PROVE Append(u, x) \in T
  <2> DEFINE v == Append(u, x)
             f == FlattenSeq(u)
             n == Len(u)
  <2>1. /\ u \in Seq(R) /\ v \in Seq(R) /\ Len(v) = n + 1 /\ n \in Nat /\ DOMAIN u = 1..n
        /\ (\A i \in 1..n : v[i] = u[i]) /\ v[n + 1] = x
    <3>1. u \in Seq(R)
      OBVIOUS
    <3> HIDE DEF R, T
    <3> QED
      BY <3>1, Appended
  <2>2. FlattenSeq(v) = f \o x /\ f \in R
    BY <2>1, FlattenAppend, FlattenType
  <2>3. \A q \in R : Grows(q, f) => Splits(u, q)
    OBVIOUS
  <2> SUFFICES ASSUME NEW q \in R, Grows(q, f \o x) PROVE Splits(v, q)
    BY <2>1, <2>2
  <2>4. /\ Len(f) \in Nat /\ Len(q) \in Nat /\ Len(x) \in Nat /\ Len(f \o x) = Len(f) + Len(x)
        /\ \A i \in 1..(Len(f) + Len(x)) : (f \o x)[i] = IF i <= Len(f) THEN f[i] ELSE x[i - Len(f)]
    BY <2>2, ConcatProperties
  <2>5. Len(q) <= Len(f) + Len(x) /\ \A i \in 1..Len(q) : q[i] = IF i <= Len(f) THEN f[i] ELSE x[i - Len(f)]
    <3> DEFINE y == f \o x
               a == Len(f)
               b == Len(x)
    <3>1. Len(q) <= Len(y) /\ \A i \in 1..Len(q) : y[i] = q[i]
      BY DEF Grows
    <3>2. Len(y) = a + b /\ a \in Nat /\ b \in Nat /\ \A i \in 1..(a + b) : y[i] = IF i <= a THEN f[i] ELSE x[i - a]
      BY <2>4
    <3> HIDE DEF y, a, b
    <3>3. Len(q) <= a + b /\ \A i \in 1..Len(q) : q[i] = IF i <= a THEN f[i] ELSE x[i - a]
      BY <2>4, <3>1, <3>2
    <3> QED
      BY <3>3 DEF a, b
  <2> HIDE DEF T, v, f, n
  <2>6. CASE Len(q) <= Len(f)
    <3>1. Grows(q, f)
      BY <2>4, <2>5, <2>6 DEF Grows
    <3>2. PICK rest \in Seq(R) : Len(rest) = n /\ FlattenSeq(rest) = q /\ \A i \in DOMAIN rest : Same(u, rest, i)
      BY <2>3, <3>1 DEF n
    <3> DEFINE e == <<>>
               more == Append(rest, e)
    <3>3. e \in R
      OBVIOUS
    <3> HIDE DEF e
    <3>4. /\ more \in Seq(R) /\ Len(more) = n + 1 /\ (\A i \in 1..n : more[i] = rest[i]) /\ more[n + 1] = e
          /\ DOMAIN rest = 1..n /\ DOMAIN more = 1..(n + 1)
      <4> HIDE DEF R
      <4>1. more \in Seq(R) /\ Len(more) = n + 1 /\ (\A i \in 1..n : more[i] = rest[i]) /\ more[n + 1] = e
        BY <2>1, <3>2, <3>3, Appended
      <4> HIDE DEF more
      <4> QED
        BY <2>1, <3>2, <4>1
    <3>5. FlattenSeq(more) = q
      <4>1. FlattenSeq(more) = FlattenSeq(rest) \o e
        BY <3>2, <3>3, FlattenAppend
      <4>2. q \o <<>> = q
        OBVIOUS
      <4> QED
        BY <3>2, <4>1, <4>2 DEF e
    <3> HIDE DEF more
    <3>6. ASSUME NEW i \in 1..(n + 1) PROVE Same(v, more, i)
      <4>1. CASE i = n + 1
        <5>1. Grows(more[i], v[i])
          BY <2>1, <3>4, <4>1, GrowsSelf DEF e
        <5>2. \A j \in DOMAIN more : ~(j > i)
          BY <2>1, <3>4, <4>1
        <5> QED
          BY <5>1, <5>2 DEF Same
      <4>2. CASE i # n + 1
        <5>0. i \in 1..n
          BY <2>1, <4>2
        <5>1. more[i] = rest[i] /\ v[i] = u[i] /\ Same(u, rest, i)
          BY <2>1, <3>2, <3>4, <5>0
        <5>2. ASSUME \A j \in DOMAIN rest : j > i => rest[j] = <<>>, NEW j \in DOMAIN more, j > i
              PROVE  more[j] = <<>>
          <6>1. j = n + 1 \/ (j \in DOMAIN rest /\ more[j] = rest[j])
            BY <2>1, <3>4
          <6> QED
            BY <3>4, <5>2, <6>1 DEF e
        <5> QED
          BY <5>1, <5>2 DEF Same
      <4> QED
        BY <4>1, <4>2
    <3> QED
      BY <2>1, <3>4, <3>5, <3>6
  <2>7. CASE ~(Len(q) <= Len(f))
    <3> DEFINE r == SubSeq(q, Len(f) + 1, Len(q))
               more == Append(u, r)
    <3>1. /\ r \in R /\ Len(r) = Len(q) - Len(f)
          /\ \A i \in 1..(Len(q) - Len(f)) : r[i] = q[Len(f) + i]
      BY <2>4, <2>7
    <3> HIDE DEF r
    <3>2. Grows(r, x)
      <4>1. Len(r) <= Len(x)
        BY <2>4, <2>5, <3>1
      <4>2. ASSUME NEW i \in 1..Len(r) PROVE x[i] = r[i]
        <5>1. Len(f) + i \in 1..Len(q) /\ ~(Len(f) + i <= Len(f)) /\ (Len(f) + i) - Len(f) = i
          BY <2>4, <2>7, <3>1
        <5> QED
          BY <2>5, <3>1, <5>1
      <4> QED
        BY <4>1, <4>2 DEF Grows
    <3>3. q = f \o r
      <4>1. /\ f \o r \in R /\ Len(f \o r) = Len(f) + Len(r)
            /\ \A i \in 1..(Len(f) + Len(r)) : (f \o r)[i] = IF i <= Len(f) THEN f[i] ELSE r[i - Len(f)]
        BY <2>2, <3>1, ConcatProperties
      <4>2. Len(f) + Len(r) = Len(q)
        BY <2>4, <2>7, <3>1
      <4>3. ASSUME NEW i \in 1..Len(q) PROVE (f \o r)[i] = q[i]
        <5>1. CASE i <= Len(f)
          BY <2>5, <4>1, <4>2, <5>1
        <5>2. CASE ~(i <= Len(f))
          <6>1. i - Len(f) \in 1..(Len(q) - Len(f)) /\ Len(f) + (i - Len(f)) = i
            BY <2>4, <5>2
          <6> QED
            BY <3>1, <4>1, <4>2, <5>2, <6>1
        <5> QED
          BY <5>1, <5>2
      <4> QED
        BY <4>1, <4>2, <4>3, SeqEqual
    <3>4. /\ more \in Seq(R) /\ Len(more) = n + 1 /\ (\A i \in 1..n : more[i] = u[i]) /\ more[n + 1] = r
          /\ DOMAIN more = 1..(n + 1)
      <4> HIDE DEF R
      <4>1. more \in Seq(R) /\ Len(more) = n + 1 /\ (\A i \in 1..n : more[i] = u[i]) /\ more[n + 1] = r
        BY <2>1, <3>1, Appended DEF n
      <4> HIDE DEF more
      <4> QED
        BY <2>1, <4>1
    <3>5. FlattenSeq(more) = q
      BY <2>1, <3>1, <3>3, FlattenAppend DEF f
    <3> HIDE DEF more
    <3>6. ASSUME NEW i \in 1..(n + 1) PROVE Same(v, more, i)
      <4>1. CASE i = n + 1
        <5>1. \A j \in DOMAIN more : ~(j > i)
          BY <2>1, <3>4, <4>1
        <5> QED
          BY <2>1, <3>2, <3>4, <4>1, <5>1 DEF Same
      <4>2. CASE i # n + 1
        BY <2>1, <3>4, <4>2 DEF Same
      <4> QED
        BY <4>1, <4>2
    <3> QED
      BY <2>1, <3>4, <3>5, <3>6
  <2> QED
    BY <2>6, <2>7
<1>3. T \subseteq Seq(R)
  OBVIOUS
<1> HIDE DEF T
<1>4. T = Seq(R)
  <2> HIDE DEF R
  <2> QED
    BY <1>1, <1>2, <1>3, SeqInduction
<1>5. t \in T /\ p \in R
  BY <1>4
<1>6. Splits(t, p)
  BY <1>5 DEF T
<1> QED
  BY <1>6

ListType == [pc : {"reading", "returned"}, segs : Seq(Names), got : Texts, floor : Texts]
Rests(segs) == {rest \in Seq(Texts) : Len(rest) = Len(segs)}

\* The segments are still the manifest's: those that have been acknowledged are as they were.
Current(files, base, names, segs, rest) ==
    \E k \in Nat :
        /\ k + Len(segs) <= Len(names)
        /\ \A i \in DOMAIN segs : /\ segs[i] = names[k + i] /\ Same(TextsOf(files, segs), rest, i)
                                  /\ k + i > base => rest[i] = <<>>

\* A compaction has passed: a segment is as it was, or gone, or goes on with events that came later.
Passed(files, segs, rest, n) ==
    \A i \in DOMAIN segs :
        \/ Same(TextsOf(files, segs), rest, i) \/ segs[i] \notin DOMAIN files
        \/ \E x \in {<<>>, rest[i]} : Newer(x, TextOf(files, segs[i]), n)

\* What a listing has read and what it will read begin with what was acknowledged.
Seen(files, base, names, next, l) ==
    \/ ~Contiguous(l.got) \/ Grows(l.floor, l.got)
    \/ \E rest \in Rests(l.segs) :
          /\ l.floor = l.got \o FlattenSeq(rest)
          /\ \/ Current(files, base, names, l.segs, rest)
             \/ Len(l.floor) <= next /\ Passed(files, l.segs, rest, Len(l.floor))

\* A text of a listing is the text of its file.
LEMMA SameIs ==
    ASSUME NEW files, NEW segs \in Seq(Names), NEW rest \in Rests(segs), NEW i \in DOMAIN segs
    PROVE  /\ i \in DOMAIN rest /\ rest[i] \in Texts /\ TextsOf(files, segs)[i] = TextOf(files, segs[i])
           /\ DOMAIN rest = DOMAIN segs
           /\ Same(TextsOf(files, segs), rest, i) <=>
                 \/ rest[i] = TextOf(files, segs[i])
                 \/ Grows(rest[i], TextOf(files, segs[i])) /\ \A j \in DOMAIN rest : j > i => rest[j] = <<>>
<1>1. rest \in Seq(Texts) /\ Len(rest) = Len(segs)
  BY DEF Rests
<1>2. DOMAIN rest = DOMAIN segs /\ rest[i] \in Texts
  BY <1>1
<1>3. TextsOf(files, segs)[i] = TextOf(files, segs[i])
  BY DEF TextsOf
<1> QED
  BY <1>2, <1>3 DEF Same

\* Steps that leave the files of the listing alone, and only add to the manifest.
LEMMA SeenKeeps ==
    ASSUME NEW l \in ListType, NEW files, NEW others,
           \A i \in DOMAIN l.segs : /\ TextOf(others, l.segs[i]) = TextOf(files, l.segs[i])
                                    /\ l.segs[i] \in DOMAIN others <=> l.segs[i] \in DOMAIN files,
           NEW names \in Seq(Names), NEW more \in Seq(Names), Grows(names, more),
           NEW base \in Nat, NEW wider \in Nat, base <= wider,
           NEW next \in Nat, NEW later \in Nat, next <= later, Seen(files, base, names, next, l)
    PROVE  Seen(others, wider, more, later, l)
<1>1. l.segs \in Seq(Names) /\ l.floor \in Texts /\ Len(l.floor) \in Nat /\ Len(l.segs) \in Nat
  BY DEF ListType, Texts
<1> DEFINE s == l.segs
<1> SUFFICES ASSUME Contiguous(l.got), ~Grows(l.floor, l.got) PROVE Seen(others, wider, more, later, l)
  BY DEF Seen
<1>2. PICK rest \in Rests(s) : /\ l.floor = l.got \o FlattenSeq(rest)
                               /\ \/ Current(files, base, names, s, rest)
                                  \/ Len(l.floor) <= next /\ Passed(files, s, rest, Len(l.floor))
  BY DEF Seen
<1>3. \A i \in DOMAIN s : Same(TextsOf(files, s), rest, i) <=> Same(TextsOf(others, s), rest, i)
  BY <1>1, SameIs
<1>4. ASSUME Current(files, base, names, s, rest) PROVE Current(others, wider, more, s, rest)
  <2>1. PICK k \in Nat : /\ k + Len(s) <= Len(names)
                         /\ \A i \in DOMAIN s : /\ s[i] = names[k + i] /\ Same(TextsOf(files, s), rest, i)
                                                /\ k + i > base => rest[i] = <<>>
    BY <1>4 DEF Current
  <2>2. k + Len(s) <= Len(more)
    BY <1>1, <2>1 DEF Grows
  <2>3. ASSUME NEW i \in DOMAIN s PROVE s[i] = more[k + i] /\ (k + i > wider => rest[i] = <<>>)
    <3>1. i \in 1..Len(s) /\ s[i] = names[k + i] /\ (k + i > base => rest[i] = <<>>)
      BY <1>1, <2>1
    <3>2. k + i \in 1..Len(names) /\ k + i \in Nat
      BY <1>1, <2>1, <3>1
    <3> QED
      BY <3>1, <3>2 DEF Grows
  <2> QED
    BY <1>3, <2>1, <2>2, <2>3 DEF Current
<1>5. ASSUME Passed(files, s, rest, Len(l.floor)) PROVE Passed(others, s, rest, Len(l.floor))
  BY <1>3, <1>5 DEF Passed
<1> QED
  BY <1>1, <1>2, <1>4, <1>5 DEF Seen

\* A compaction switches to another manifest; what comes later is no older than what was acknowledged.
LEMMA SeenSwitch ==
    ASSUME NEW l \in ListType, NEW files, NEW names, NEW others, NEW base, NEW wider, NEW next \in Nat,
           Len(l.floor) <= next, Seen(files, base, names, next, l)
    PROVE  Seen(files, wider, others, next, l)
BY DEF Seen, Current, Passed

\* A file is removed that the manifest does not name.
LEMMA SeenRemoved ==
    ASSUME NEW l \in ListType, NEW files, NEW others, NEW g, g \notin DOMAIN others,
           \A f : f # g => TextOf(others, f) = TextOf(files, f) /\ (f \in DOMAIN others <=> f \in DOMAIN files),
           NEW names \in Seq(Names), \A i \in DOMAIN names : names[i] # g, NEW base, NEW next,
           Seen(files, base, names, next, l)
    PROVE  Seen(others, base, names, next, l)
<1>1. l.segs \in Seq(Names) /\ Len(l.segs) \in Nat
  BY DEF ListType
<1> DEFINE s == l.segs
<1> SUFFICES ASSUME Contiguous(l.got), ~Grows(l.floor, l.got) PROVE Seen(others, base, names, next, l)
  BY DEF Seen
<1>2. PICK rest \in Rests(s) : /\ l.floor = l.got \o FlattenSeq(rest)
                               /\ \/ Current(files, base, names, s, rest)
                                  \/ Len(l.floor) <= next /\ Passed(files, s, rest, Len(l.floor))
  BY DEF Seen
<1>3. \A i \in DOMAIN s : s[i] # g => (Same(TextsOf(files, s), rest, i) <=> Same(TextsOf(others, s), rest, i))
  BY <1>1, SameIs
<1>4. ASSUME Current(files, base, names, s, rest) PROVE Current(others, base, names, s, rest)
  <2>1. PICK k \in Nat : /\ k + Len(s) <= Len(names)
                         /\ \A i \in DOMAIN s : /\ s[i] = names[k + i] /\ Same(TextsOf(files, s), rest, i)
                                                /\ k + i > base => rest[i] = <<>>
    BY <1>4 DEF Current
  <2>2. ASSUME NEW i \in DOMAIN s PROVE s[i] # g
    <3>1. i \in 1..Len(s)
      BY <1>1
    <3>2. k + i \in DOMAIN names
      BY <1>1, <2>1, <3>1
    <3> QED
      BY <2>1, <3>2
  <2> QED
    BY <1>3, <2>1, <2>2 DEF Current
<1>5. ASSUME Passed(files, s, rest, Len(l.floor)) PROVE Passed(others, s, rest, Len(l.floor))
  BY <1>3, <1>5 DEF Passed
<1> QED
  BY <1>2, <1>4, <1>5 DEF Seen

\* A text that goes on with later events still does when more is written behind it.
LEMMA NewerMore ==
    ASSUME NEW x \in Texts, NEW s \in Texts, NEW t \in Texts, NEW n \in Nat, NEW m \in Nat, n <= m
    PROVE  /\ Newer(x, s, n) /\ Grows(s, t) => Newer(x, t, n)
           /\ Newer(x, t, m) => Newer(x, t, n)
<1>1. Len(x) \in Nat /\ Len(s) \in Nat /\ Len(t) \in Nat
  BY DEF Texts
<1>2. ASSUME Newer(x, s, n), Grows(s, t) PROVE Newer(x, t, n)
  <2>1. Len(x) + 1 \in 1..Len(s)
    BY <1>1, <1>2 DEF Newer
  <2>2. t[Len(x) + 1] = s[Len(x) + 1] /\ Len(x) < Len(t)
    BY <1>1, <1>2, <2>1 DEF Newer, Grows
  <2>3. Grows(x, t)
    BY <1>2, GrowsTwice DEF Newer, Texts
  <2> QED
    BY <1>2, <2>2, <2>3 DEF Newer
<1>3. ASSUME Newer(x, t, m) PROVE Newer(x, t, n)
  <2>1. Len(x) + 1 \in 1..Len(t)
    BY <1>1, <1>3 DEF Newer
  <2>2. t[Len(x) + 1] \in Events
    BY <2>1 DEF Texts
  <2>3. t[Len(x) + 1].seq \in Nat /\ t[Len(x) + 1].seq >= m
    BY <1>3, <2>2 DEF Newer, Events
  <2>4. t[Len(x) + 1].seq >= n
    BY <2>3
  <2> QED
    BY <1>3, <2>4 DEF Newer
<1> QED
  BY <1>2, <1>3

\* An append writes one file of the manifest in memory.
LEMMA SeenWrite ==
    ASSUME NEW l \in ListType, NEW files, FilesOk(files), NEW others,
           NEW names \in Seq(Names), NEW p \in 1..Len(names), \A i \in 1..Len(names) : i # p => names[i] # names[p],
           NEW text \in Texts, TextOf(others, names[p]) = text,
           \A f : f # names[p] => TextOf(others, f) = TextOf(files, f) /\ (f \in DOMAIN others <=> f \in DOMAIN files),
           NEW base \in Nat, base <= p, base = p => Grows(TextOf(files, names[p]), text),
           NEW next \in Nat, \E x \in {<<>>, TextOf(files, names[p])} : Newer(x, text, next),
           Seen(files, base, names, next, l)
    PROVE  Seen(others, base, names, next, l)
<1> DEFINE s == l.segs
           g == names[p]
           old == TextOf(files, g)
           n == Len(l.floor)
<1>1. s \in Seq(Names) /\ Len(s) \in Nat /\ DOMAIN s = 1..Len(s) /\ n \in Nat /\ old \in Texts /\ Len(names) \in Nat
  BY TextOfType DEF ListType, Texts
<1> SUFFICES ASSUME Contiguous(l.got), ~Grows(l.floor, l.got) PROVE Seen(others, base, names, next, l)
  BY DEF Seen
<1>2. PICK rest \in Rests(s) : /\ l.floor = l.got \o FlattenSeq(rest)
                               /\ Current(files, base, names, s, rest) \/ (n <= next /\ Passed(files, s, rest, n))
  BY DEF Seen
<1> HIDE DEF s, n
<1>3. \A i \in DOMAIN s : s[i] # g => (Same(TextsOf(files, s), rest, i) <=> Same(TextsOf(others, s), rest, i))
  BY <1>1, SameIs
<1>4. ASSUME NEW i \in DOMAIN s
      PROVE  /\ i \in DOMAIN rest /\ rest[i] \in Texts /\ DOMAIN rest = DOMAIN s
             /\ s[i] = g => /\ Same(TextsOf(others, s), rest, i) <=>
                                  \/ rest[i] = text
                                  \/ Grows(rest[i], text) /\ \A j \in DOMAIN rest : j > i => rest[j] = <<>>
                            /\ Same(TextsOf(files, s), rest, i) <=>
                                  \/ rest[i] = old
                                  \/ Grows(rest[i], old) /\ \A j \in DOMAIN rest : j > i => rest[j] = <<>>
  <2>1. /\ i \in DOMAIN rest /\ rest[i] \in Texts /\ DOMAIN rest = DOMAIN s
        /\ Same(TextsOf(files, s), rest, i) <=>
              \/ rest[i] = TextOf(files, s[i])
              \/ Grows(rest[i], TextOf(files, s[i])) /\ \A j \in DOMAIN rest : j > i => rest[j] = <<>>
    BY <1>1, SameIs
  <2>2. Same(TextsOf(others, s), rest, i) <=>
              \/ rest[i] = TextOf(others, s[i])
              \/ Grows(rest[i], TextOf(others, s[i])) /\ \A j \in DOMAIN rest : j > i => rest[j] = <<>>
    BY <1>1, SameIs
  <2>3. s[i] = g => TextOf(files, s[i]) = old /\ TextOf(others, s[i]) = text
    OBVIOUS
  <2> HIDE DEF g, old
  <2> QED
    BY <2>1, <2>2, <2>3
<1> HIDE DEF g, old
<1>5. \A x \in Texts : Grows(x, old) /\ Grows(old, text) => Grows(x, text)
  BY <1>1, GrowsTwice DEF Texts
<1>6. ASSUME Current(files, base, names, s, rest) PROVE Current(others, base, names, s, rest)
  <2>1. PICK k \in Nat : /\ k + Len(s) <= Len(names)
                         /\ \A i \in DOMAIN s : /\ s[i] = names[k + i] /\ Same(TextsOf(files, s), rest, i)
                                                /\ k + i > base => rest[i] = <<>>
    BY <1>6 DEF Current
  <2>2. ASSUME NEW i \in DOMAIN s, s[i] = g PROVE Same(TextsOf(others, s), rest, i)
    <3>1. k + i \in 1..Len(names) /\ i \in Nat
      BY <1>1, <2>1
    <3>2. k + i = p
      BY <2>1, <2>2, <3>1 DEF g
    <3>3. ASSUME NEW j \in DOMAIN rest, j > i PROVE rest[j] = <<>>
      <4>1. j \in DOMAIN s /\ j \in Nat
        BY <1>1, <1>4, <2>2
      <4>2. k + j > base
        BY <3>1, <3>2, <3>3, <4>1
      <4> QED
        BY <2>1, <4>1, <4>2
    <3>4. Grows(rest[i], text)
      <4>1. CASE base = p
        <5>1. Grows(old, text)
          BY <4>1 DEF old, g
        <5>2. rest[i] = old \/ Grows(rest[i], old)
          BY <1>4, <2>1, <2>2
        <5> QED
          BY <1>4, <1>5, <5>1, <5>2
      <4>2. CASE base # p
        <5>1. k + i > base
          BY <3>1, <3>2, <4>2
        <5>2. rest[i] = <<>>
          BY <2>1, <5>1
        <5> QED
          BY <5>2, GrowsSelf DEF Texts
      <4> QED
        BY <4>1, <4>2
    <3> QED
      BY <1>4, <2>2, <3>3, <3>4
  <2> QED
    BY <1>3, <2>1, <2>2 DEF Current
<1>7. ASSUME n <= next, Passed(files, s, rest, n) PROVE Passed(others, s, rest, n)
  <2>1. PICK x \in {<<>>, old} : Newer(x, text, next)
    BY DEF old, g
  <2>2. x \in Texts /\ <<>> \in Texts
    <3>1. <<>> \in Texts
      BY DEF Texts
    <3> QED
      BY <1>1, <2>1, <3>1
  <2>3. Newer(x, text, n) /\ Grows(x, text)
    <3>1. Newer(x, text, n)
      BY <1>1, <1>7, <2>1, <2>2, NewerMore
    <3> QED
      BY <3>1 DEF Newer
  <2>4. ASSUME NEW i \in DOMAIN s, s[i] = g
        PROVE  \/ Same(TextsOf(others, s), rest, i)
               \/ \E y \in {<<>>, rest[i]} : Newer(y, text, n)
    <3>1. CASE x = <<>>
      BY <2>3, <3>1
    <3>2. CASE x = old
      <4>1. \/ Same(TextsOf(files, s), rest, i) \/ g \notin DOMAIN files
            \/ \E y \in {<<>>, rest[i]} : Newer(y, old, n)
        BY <1>7, <2>4 DEF Passed, old
      <4>2. CASE Same(TextsOf(files, s), rest, i)
        <5>1. CASE rest[i] = old
          BY <2>3, <3>2, <5>1
        <5>2. CASE Grows(rest[i], old) /\ \A j \in DOMAIN rest : j > i => rest[j] = <<>>
          BY <1>4, <1>5, <2>3, <2>4, <3>2, <5>2
        <5> QED
          BY <1>4, <2>4, <4>2, <5>1, <5>2
      <4>3. CASE g \notin DOMAIN files
        <5>1. old = <<>>
          BY <4>3 DEF old, TextOf
        <5> QED
          BY <2>3, <3>2, <5>1
      <4>4. CASE \E y \in {<<>>, rest[i]} : Newer(y, old, n)
        <5>1. PICK y \in {<<>>, rest[i]} : Newer(y, old, n)
          BY <4>4
        <5>2. y \in Texts
          BY <1>4, <2>2, <5>1
        <5>3. Newer(y, text, n)
          BY <1>1, <2>3, <3>2, <5>1, <5>2, NewerMore
        <5> QED
          BY <5>1, <5>3
      <4> QED
        BY <4>1, <4>2, <4>3, <4>4
    <3> QED
      BY <2>1, <3>1, <3>2
  <2>5. ASSUME NEW i \in DOMAIN s
        PROVE  \/ Same(TextsOf(others, s), rest, i) \/ s[i] \notin DOMAIN others
               \/ \E y \in {<<>>, rest[i]} : Newer(y, TextOf(others, s[i]), n)
    <3>1. CASE s[i] = g
      BY <2>4, <3>1 DEF g
    <3>2. CASE s[i] # g
      BY <1>3, <1>7, <3>2 DEF Passed, g
    <3> QED
      BY <3>1, <3>2
  <2> QED
    BY <2>5 DEF Passed
<1> QED
  BY <1>2, <1>6, <1>7 DEF Seen, s, n

\* The rest of a listing when its first segment has been read.
LEMMA RestTail ==
    ASSUME NEW files, NEW segs \in Seq(Names), segs # <<>>, NEW rest \in Rests(segs)
    PROVE  /\ rest # <<>> /\ Tail(rest) \in Rests(Tail(segs)) /\ Tail(segs) \in Seq(Names)
           /\ Len(Tail(segs)) = Len(segs) - 1
           /\ \A i \in DOMAIN Tail(segs) :
                 /\ i + 1 \in DOMAIN segs /\ Tail(segs)[i] = segs[i + 1] /\ Tail(rest)[i] = rest[i + 1]
                 /\ Same(TextsOf(files, segs), rest, i + 1) => Same(TextsOf(files, Tail(segs)), Tail(rest), i)
<1> DEFINE R == Texts
           s == Tail(segs)
           r == Tail(rest)
           m == Len(segs)
<1>1. rest \in Seq(R) /\ Len(rest) = m /\ m \in Nat /\ m # 0 /\ DOMAIN segs = 1..m
  BY DEF Rests
<1> HIDE DEF R
<1>2. rest # <<>>
  BY <1>1
<1>3. s \in Seq(Names) /\ Len(s) = m - 1 /\ DOMAIN s = 1..(m - 1) /\ \A i \in 1..(m - 1) : s[i] = segs[i + 1]
  BY <1>1
<1>4. r \in Seq(R) /\ Len(r) = m - 1 /\ DOMAIN r = 1..(m - 1) /\ \A i \in 1..(m - 1) : r[i] = rest[i + 1]
  BY <1>1, <1>2
<1>5. DOMAIN rest = 1..m
  BY <1>1
<1> HIDE DEF s, r, m
<1>6. r \in Rests(s)
  BY <1>3, <1>4 DEF Rests, R
<1>7. ASSUME NEW i \in DOMAIN s PROVE /\ i + 1 \in DOMAIN segs /\ s[i] = segs[i + 1] /\ r[i] = rest[i + 1]
                                      /\ Same(TextsOf(files, segs), rest, i + 1) => Same(TextsOf(files, s), r, i)
  <2>1. i + 1 \in DOMAIN segs /\ s[i] = segs[i + 1] /\ r[i] = rest[i + 1]
    BY <1>1, <1>3, <1>4
  <2>2. TextsOf(files, segs)[i + 1] = TextsOf(files, s)[i]
    BY <2>1 DEF TextsOf
  <2>3. ASSUME \A j \in DOMAIN rest : j > i + 1 => rest[j] = <<>>, NEW j \in DOMAIN r, j > i PROVE r[j] = <<>>
    <3>1. j + 1 \in DOMAIN rest /\ j + 1 > i + 1 /\ r[j] = rest[j + 1]
      BY <1>1, <1>3, <1>4, <1>5, <2>3
    <3> QED
      BY <2>3, <3>1
  <2> QED
    BY <2>1, <2>2, <2>3 DEF Same
<1> QED
  BY <1>2, <1>3, <1>6, <1>7 DEF s, r, m

\* A listing reads a segment that is there.
LEMMA SeenRead ==
    ASSUME NEW l \in ListType, NEW files, FilesOk(files), l.segs # <<>>, l.segs[1] \in DOMAIN files,
           NEW m \in ListType, m.segs = Tail(l.segs), m.got = l.got \o TextOf(files, l.segs[1]), m.floor = l.floor,
           NEW names, NEW base, NEW next, Seen(files, base, names, next, l)
    PROVE  Seen(files, base, names, next, m)
<1> DEFINE s == l.segs
           got == l.got
           floor == l.floor
           x == TextOf(files, s[1])
           n == Len(floor)
<1>1. /\ s \in Seq(Names) /\ s # <<>> /\ got \in Texts /\ floor \in Texts /\ x \in Texts /\ m.got = got \o x
      /\ m.floor = floor /\ m.segs = Tail(s) /\ 1 \in DOMAIN s /\ s[1] \in DOMAIN files
  BY TextOfType DEF ListType
<1> DEFINE now == got \o x
<1>2. /\ Len(got) \in Nat /\ Len(x) \in Nat /\ n \in Nat /\ now \in Texts /\ Len(now) = Len(got) + Len(x)
      /\ \A i \in 1..(Len(got) + Len(x)) : now[i] = IF i <= Len(got) THEN got[i] ELSE x[i - Len(got)]
  <2> HIDE DEF s, got, floor, x
  <2>1. got \in Seq(Events) /\ x \in Seq(Events) /\ floor \in Seq(Events)
    BY <1>1 DEF Texts
  <2>2. Len(got) \in Nat /\ Len(x) \in Nat /\ n \in Nat
    BY <2>1
  <2> QED
    BY <2>1, <2>2, ConcatProperties DEF Texts
<1>3. Grows(got, now)
  BY <1>1, GrowsByMore DEF Texts
<1> HIDE DEF s, got, floor, x, n, now
<1> SUFFICES ASSUME Contiguous(now), ~Grows(floor, now)
             PROVE  Seen(files, base, names, next, m)
  BY <1>1 DEF Seen, now
<1>4. Contiguous(got) /\ ~Grows(floor, got)
  <2>1. Contiguous(got)
    BY <1>1, <1>2, <1>3, ContiguousPart
  <2>2. ASSUME Grows(floor, got) PROVE FALSE
    BY <1>1, <1>2, <1>3, <2>2, GrowsTwice DEF Texts
  <2> QED
    BY <2>1, <2>2
<1>5. PICK rest \in Rests(s) : /\ floor = got \o FlattenSeq(rest)
                               /\ \/ Current(files, base, names, s, rest)
                                  \/ n <= next /\ Passed(files, s, rest, n)
  BY <1>4 DEF Seen, s, got, floor, n
<1>6. ASSUME NEW y \in Texts, Grows(y, x), floor = got \o y PROVE FALSE
  <2>1. Grows(got \o y, got \o x)
    BY <1>1, <1>6, GrowsBehind DEF Texts
  <2> QED
    BY <1>6, <2>1 DEF now
<1> DEFINE r == Tail(rest)
           e == FlattenSeq(r)
<1>7. /\ rest # <<>> /\ r \in Rests(Tail(s)) /\ Tail(s) \in Seq(Names) /\ Len(Tail(s)) = Len(s) - 1
      /\ \A i \in DOMAIN Tail(s) :
            /\ i + 1 \in DOMAIN s /\ Tail(s)[i] = s[i + 1] /\ r[i] = rest[i + 1]
            /\ Same(TextsOf(files, s), rest, i + 1) => Same(TextsOf(files, Tail(s)), r, i)
  BY <1>1, RestTail
<1>8. /\ r \in Seq(Texts) /\ rest[1] \in Texts /\ FlattenSeq(rest) = rest[1] \o e
      /\ Len(r) = Len(rest) - 1 /\ \A i \in 1..(Len(rest) - 1) : r[i] = rest[i + 1]
  <2>1. rest \in Seq(Seq(Events)) /\ rest # <<>>
    BY <1>7 DEF Rests, Texts
  <2> QED
    BY <2>1, FlattenHead DEF Texts
<1>9. e \in Texts /\ Len(e) \in Nat /\ Len(rest[1]) \in Nat
  <2>1. r \in Seq(Seq(Events))
    BY <1>8 DEF Texts
  <2>2. rest[1] \in Seq(Events)
    BY <1>8 DEF Texts
  <2> HIDE DEF r
  <2>3. e \in Seq(Events)
    BY <2>1, FlattenType
  <2> HIDE DEF e
  <2> QED
    BY <2>2, <2>3 DEF Texts
<1>10. /\ Same(TextsOf(files, s), rest, 1) =>
            rest[1] = x \/ (Grows(rest[1], x) /\ \A j \in DOMAIN rest : j > 1 => rest[j] = <<>>)
       /\ DOMAIN rest = DOMAIN s
  <2>1. /\ DOMAIN rest = DOMAIN s
        /\ Same(TextsOf(files, s), rest, 1) <=>
               \/ rest[1] = TextOf(files, s[1])
               \/ Grows(rest[1], TextOf(files, s[1])) /\ \A j \in DOMAIN rest : j > 1 => rest[j] = <<>>
    BY <1>1, SameIs
  <2> QED
    BY <2>1 DEF x
<1>11. n = Len(got) + Len(rest[1]) + Len(e)
  <2>1. Len(rest[1] \o e) = Len(rest[1]) + Len(e) /\ rest[1] \o e \in Texts
    BY <1>8, <1>9, ConcatProperties DEF Texts
  <2>2. Len(got \o (rest[1] \o e)) = Len(got) + Len(rest[1] \o e)
    BY <1>1, <2>1, ConcatProperties DEF Texts
  <2>3. n = Len(got \o (rest[1] \o e))
    BY <1>5, <1>8 DEF n
  <2> DEFINE a == Len(got)
             b == Len(rest[1])
             c == Len(e)
             d == Len(rest[1] \o e)
  <2>4. d = b + c /\ n = a + d /\ a \in Nat /\ b \in Nat /\ c \in Nat
    BY <1>2, <1>9, <2>1, <2>2, <2>3
  <2> HIDE DEF a, b, c, d
  <2>5. n = a + b + c
    BY <2>4
  <2> QED
    BY <2>5 DEF a, b, c
<1>12. ASSUME Len(e) = 0 PROVE FlattenSeq(rest) = rest[1]
  <2>1. e = <<>>
    BY <1>9, <1>12 DEF Texts
  <2>2. rest[1] \o <<>> = rest[1]
    BY <1>8, ConcatEmptySeq DEF Texts
  <2> QED
    BY <1>8, <2>1, <2>2
<1> HIDE DEF e
<1>13. CASE rest[1] = x
  <2>1. floor = now \o e
    <3>1. got \o (x \o e) = (got \o x) \o e
      BY <1>1, <1>9, ConcatAssociative DEF Texts
    <3> QED
      BY <1>5, <1>8, <1>13, <3>1 DEF now
  <2>2. ASSUME Current(files, base, names, s, rest) PROVE Current(files, base, names, Tail(s), r)
    <3>1. PICK k \in Nat : /\ k + Len(s) <= Len(names)
                           /\ \A i \in DOMAIN s : /\ s[i] = names[k + i] /\ Same(TextsOf(files, s), rest, i)
                                                  /\ k + i > base => rest[i] = <<>>
      BY <2>2 DEF Current
    <3>2. Len(s) \in Nat
      BY <1>1
    <3>3. k + 1 \in Nat /\ (k + 1) + Len(Tail(s)) = k + Len(s)
      BY <1>7, <3>2
    <3>4. ASSUME NEW i \in DOMAIN Tail(s)
          PROVE  /\ Tail(s)[i] = names[(k + 1) + i] /\ Same(TextsOf(files, Tail(s)), r, i)
                 /\ (k + 1) + i > base => r[i] = <<>>
      <4>1. i \in Nat
        BY <1>7
      <4>2. (k + 1) + i = k + (i + 1)
        BY <4>1
      <4> QED
        BY <1>7, <3>1, <4>2
    <3> QED
      BY <3>1, <3>3, <3>4 DEF Current
  <2>3. ASSUME Passed(files, s, rest, n) PROVE Passed(files, Tail(s), r, n)
    BY <1>7, <2>3 DEF Passed
  <2>4. Current(files, base, names, Tail(s), r) \/ (n <= next /\ Passed(files, Tail(s), r, n))
    BY <1>5, <2>2, <2>3
  <2>5. m.floor = m.got \o FlattenSeq(r)
    BY <1>1, <2>1 DEF now, e
  <2> HIDE DEF r
  <2> QED
    BY <1>1, <1>7, <2>4, <2>5 DEF Seen, n
<1>14. CASE Grows(rest[1], x) /\ \A j \in DOMAIN rest : j > 1 => rest[j] = <<>>
  <2>1. ASSUME NEW i \in 1..Len(r) PROVE r[i] = <<>>
    <3>1. i \in 1..(Len(rest) - 1) /\ r[i] = rest[i + 1]
      BY <1>8, <2>1
    <3>2. i + 1 \in DOMAIN rest /\ i + 1 > 1
      <4>1. rest \in Seq(Texts)
        BY DEF Rests
      <4>2. DOMAIN rest = 1..Len(rest) /\ Len(rest) \in Nat
        BY <4>1
      <4> QED
        BY <3>1, <4>2
    <3> QED
      BY <1>14, <3>1, <3>2
  <2>2. e = <<>>
    <3> HIDE DEF r
    <3> QED
      BY <1>8, <2>1, FlattenNothing DEF e, Texts
  <2>3. floor = got \o rest[1]
    BY <1>5, <1>12, <2>2
  <2> QED
    BY <1>6, <1>8, <1>14, <2>3
<1>15. CASE n <= next /\ \E y \in {<<>>, rest[1]} : Newer(y, x, n)
  <2>1. PICK y \in {<<>>, rest[1]} : Newer(y, x, n)
    BY <1>15
  <2>2. y \in Texts /\ Len(y) \in Nat /\ (y = <<>> => Len(y) = 0)
    <3>1. <<>> \in Texts
      BY DEF Texts
    <3>2. y \in Texts
      BY <1>8, <2>1, <3>1
    <3>3. Len(y) \in Nat
      BY <3>2 DEF Texts
    <3> QED
      BY <3>2, <3>3
  <2>3. Len(got) + Len(y) >= n
    <3> DEFINE j == Len(got) + Len(y) + 1
    <3>1. Len(y) < Len(x) /\ x[Len(y) + 1].seq >= n
      BY <2>1 DEF Newer
    <3>2. j \in 1..(Len(got) + Len(x)) /\ ~(j <= Len(got)) /\ j - Len(got) = Len(y) + 1
      BY <1>2, <2>2, <3>1
    <3>3. now[j] = x[Len(y) + 1]
      BY <1>2, <3>2
    <3>4. j \in DOMAIN now
      BY <1>2, <3>2 DEF Texts
    <3>5. now[j].seq = j - 1
      BY <3>4 DEF Contiguous
    <3>6. j - 1 = Len(got) + Len(y)
      BY <1>2, <2>2
    <3> QED
      BY <3>1, <3>3, <3>5, <3>6
  <2>4. Len(e) = 0 /\ (y = <<>> => Len(rest[1]) = 0)
    <3> DEFINE a == Len(got)
               b == Len(rest[1])
               c == Len(e)
               d == Len(y)
    <3>1. a + d >= n /\ n = a + b + c /\ a \in Nat /\ b \in Nat /\ c \in Nat /\ d \in Nat /\ (d = 0 \/ d = b)
      BY <1>2, <1>9, <1>11, <2>1, <2>2, <2>3
    <3>2. y = <<>> => d = 0
      BY <2>2
    <3> HIDE DEF a, b, c, d
    <3>3. c = 0 /\ (d = 0 => b = 0)
      BY <3>1
    <3> QED
      BY <3>2, <3>3 DEF b, c, d
  <2>5. y = rest[1]
    <3>1. Len(rest[1]) = 0 => rest[1] = <<>>
      BY <1>8 DEF Texts
    <3> QED
      BY <2>1, <2>4, <3>1
  <2>6. floor = got \o y
    BY <1>5, <1>12, <2>4, <2>5
  <2> QED
    BY <1>6, <2>1, <2>2, <2>6 DEF Newer
<1>16. \/ rest[1] = x \/ (Grows(rest[1], x) /\ \A j \in DOMAIN rest : j > 1 => rest[j] = <<>>)
       \/ n <= next /\ \E y \in {<<>>, rest[1]} : Newer(y, x, n)
  <2>1. ASSUME Current(files, base, names, s, rest) PROVE Same(TextsOf(files, s), rest, 1)
    BY <1>1, <2>1 DEF Current
  <2>2. ASSUME Passed(files, s, rest, n)
        PROVE  Same(TextsOf(files, s), rest, 1) \/ \E y \in {<<>>, rest[1]} : Newer(y, x, n)
    BY <1>1, <2>2 DEF Passed, x
  <2> QED
    BY <1>5, <1>10, <2>1, <2>2
<1> QED
  BY <1>13, <1>14, <1>15, <1>16

\* The texts of t, and more of no event.
Padded(t, d, u) ==
    /\ Len(u) = Len(t) + d /\ FlattenSeq(u) = FlattenSeq(t)
    /\ \A i \in 1..Len(t) : u[i] = t[i]
    /\ \A i \in DOMAIN u : i > Len(t) => u[i] = <<>>

\* There are as many as one likes.
LEMMA FlattenPads ==
    ASSUME NEW S, NEW t \in Seq(Seq(S)), NEW d \in Nat
    PROVE  \E u \in Seq(Seq(S)) : Padded(t, d, u)
<1> DEFINE R == Seq(S)
           n == Len(t)
           Pads(k, u) == /\ Len(u) = n + k /\ FlattenSeq(u) = FlattenSeq(t)
                         /\ (\A i \in 1..n : u[i] = t[i]) /\ \A i \in DOMAIN u : i > n => u[i] = <<>>
           T == {k \in Nat : \E u \in Seq(R) : Pads(k, u)}
<1>0. n \in Nat /\ t \in Seq(R) /\ DOMAIN t = 1..n
  OBVIOUS
<1>1. 0 \in T
  <2>1. Pads(0, t)
    BY <1>0
  <2> QED
    BY <1>0, <2>1
<1>2. ASSUME NEW k \in T PROVE k + 1 \in T
  <2>1. PICK u \in Seq(R) : Pads(k, u)
    OBVIOUS
  <2> DEFINE x == <<>>
             v == Append(u, x)
  <2>2. x \in R /\ k \in Nat
    OBVIOUS
  <2> HIDE DEF x, T, Pads
  <2>3. /\ v \in Seq(R) /\ Len(v) = Len(u) + 1 /\ (\A i \in 1..Len(u) : v[i] = u[i]) /\ v[Len(u) + 1] = x
        /\ DOMAIN v = 1..(Len(u) + 1) /\ DOMAIN u = 1..Len(u)
    <3> HIDE DEF R
    <3>1. v \in Seq(R) /\ Len(v) = Len(u) + 1 /\ (\A i \in 1..Len(u) : v[i] = u[i]) /\ v[Len(u) + 1] = x
      BY <2>2, Appended
    <3> HIDE DEF v
    <3> QED
      BY <3>1
  <2>4. FlattenSeq(v) = FlattenSeq(u) \o x
    BY <2>2, FlattenAppend
  <2>5. FlattenSeq(u) \o <<>> = FlattenSeq(u)
    BY FlattenType, ConcatEmptySeq
  <2>6. Len(u) = n + k /\ FlattenSeq(u) = FlattenSeq(t)
        /\ (\A i \in 1..n : u[i] = t[i]) /\ \A i \in DOMAIN u : i > n => u[i] = <<>>
    BY <2>1 DEF Pads
  <2> HIDE DEF v, R, n
  <2>7. Len(v) = n + (k + 1) /\ FlattenSeq(v) = FlattenSeq(t)
    BY <1>0, <2>2, <2>3, <2>4, <2>5, <2>6 DEF x
  <2>8. ASSUME NEW i \in 1..n PROVE v[i] = t[i]
    <3>1. i \in 1..Len(u)
      BY <1>0, <2>2, <2>6
    <3> QED
      BY <2>3, <2>6, <3>1
  <2>9. ASSUME NEW i \in DOMAIN v, i > n PROVE v[i] = <<>>
    <3>1. CASE i = Len(u) + 1
      BY <2>3, <3>1 DEF x
    <3>2. CASE i # Len(u) + 1
      <4>1. i \in 1..Len(u)
        BY <1>0, <2>2, <2>3, <2>6, <3>2
      <4> QED
        BY <2>3, <2>6, <2>9, <4>1
    <3> QED
      BY <3>1, <3>2
  <2>10. Pads(k + 1, v)
    BY <2>7, <2>8, <2>9 DEF Pads
  <2> QED
    BY <2>2, <2>3, <2>10 DEF T
<1>3. T \subseteq Nat
  OBVIOUS
<1> HIDE DEF T
<1>4. T = Nat
  BY <1>1, <1>2, <1>3, SetInduction
<1>5. d \in T
  BY <1>4
<1> QED
  BY <1>5 DEF T, Padded

\* A listing that starts.
LEMMA SeenStart ==
    ASSUME NEW files, FilesOk(files), NEW segs \in Seq(Names), NEW names \in Seq(Names), Grows(segs, names),
           NEW floor \in Texts, Grows(floor, ReadOf(files, segs)), NEW next,
           NEW l \in ListType, l.segs = names, l.got = <<>>, l.floor = floor
    PROVE  Seen(files, Len(segs), names, next, l)
<1> DEFINE b == Len(segs)
           m == Len(names)
           d == m - b
           t == TextsOf(files, segs)
<1>1. /\ b \in Nat /\ m \in Nat /\ d \in Nat /\ b + d = m /\ DOMAIN segs = 1..b /\ DOMAIN names = 1..m
      /\ b <= m /\ \A i \in 1..b : names[i] = segs[i]
  BY DEF Grows
<1>2. t \in Seq(Texts) /\ Len(t) = b /\ \A i \in 1..b : t[i] = TextOf(files, segs[i])
  BY TextsOfType
<1> HIDE DEF b, m, d
<1>3. PICK r \in Seq(Texts) : Len(r) = b /\ FlattenSeq(r) = floor /\ \A i \in DOMAIN r : Same(t, r, i)
  <2>1. t \in Seq(Seq(Events)) /\ floor \in Seq(Events) /\ Grows(floor, FlattenSeq(t))
    BY <1>2 DEF Texts, ReadOf
  <2> HIDE DEF t
  <2>2. \E r \in Seq(Seq(Events)) : Len(r) = Len(t) /\ FlattenSeq(r) = floor /\ \A i \in DOMAIN r : Same(t, r, i)
    BY <2>1, PrefixSplits
  <2> QED
    BY <1>2, <2>2 DEF Texts
<1>4. PICK rest \in Seq(Texts) : /\ Len(rest) = b + d /\ FlattenSeq(rest) = floor /\ (\A i \in 1..b : rest[i] = r[i])
                                 /\ \A i \in DOMAIN rest : i > b => rest[i] = <<>>
  <2>1. r \in Seq(Seq(Events))
    BY DEF Texts
  <2>2. \E u \in Seq(Seq(Events)) : Padded(r, d, u)
    <3>1. d \in Nat
      BY <1>1
    <3> QED
      BY <2>1, <3>1, FlattenPads
  <2> QED
    BY <1>3, <2>2 DEF Texts, Padded
<1>5. rest \in Rests(names)
  BY <1>1, <1>4 DEF Rests, m
<1>6. DOMAIN rest = 1..m /\ DOMAIN r = 1..b
  BY <1>1, <1>3, <1>4
<1> DEFINE u == TextsOf(files, names)
<1>7. ASSUME NEW i \in 1..m PROVE Same(u, rest, i)
  <2>1. u[i] = TextOf(files, names[i])
    BY <1>1 DEF TextsOf
  <2>2. CASE i <= b
    <3>1. i \in 1..b /\ i \in DOMAIN r
      BY <1>6, <2>2
    <3>2. rest[i] = r[i] /\ u[i] = t[i] /\ Same(t, r, i)
      BY <1>1, <1>2, <1>3, <1>4, <2>1, <3>1
    <3>3. ASSUME \A j \in DOMAIN r : j > i => r[j] = <<>>, NEW j \in DOMAIN rest, j > i PROVE rest[j] = <<>>
      <4>1. CASE j <= b
        <5>1. j \in 1..b
          BY <1>6, <4>1
        <5> QED
          BY <1>4, <1>6, <3>3, <5>1
      <4>2. CASE ~(j <= b)
        <5>1. j > b
          BY <1>1, <1>6, <4>2
        <5> QED
          BY <1>4, <5>1
      <4> QED
        BY <4>1, <4>2
    <3> QED
      BY <3>2, <3>3 DEF Same
  <2>3. CASE ~(i <= b)
    <3>1. \A j \in DOMAIN rest : j >= i => rest[j] = <<>>
      BY <1>1, <1>4, <1>6, <2>3
    <3>2. rest[i] = <<>> /\ \A j \in DOMAIN rest : j > i => rest[j] = <<>>
      BY <1>6, <3>1
    <3>3. Grows(<<>>, u[i])
      BY <2>1, TextOfType, GrowsSelf DEF Texts
    <3> QED
      BY <3>2, <3>3 DEF Same
  <2> QED
    BY <2>2, <2>3
<1>8. Current(files, b, names, names, rest)
  <2>1. 0 \in Nat /\ 0 + m <= m
    BY <1>1
  <2>2. ASSUME NEW i \in DOMAIN names
        PROVE  names[i] = names[0 + i] /\ Same(u, rest, i) /\ (0 + i > b => rest[i] = <<>>)
    <3>1. i \in 1..m /\ 0 + i = i
      BY <1>1
    <3> QED
      BY <1>4, <1>6, <1>7, <3>1
  <2> QED
    BY <2>1, <2>2 DEF Current, m
<1>9. floor = <<>> \o FlattenSeq(rest)
  BY <1>4, ConcatEmptySeq DEF Texts
<1> QED
  BY <1>5, <1>8, <1>9 DEF Seen, b

\* The invariant of a listing.
ListInv ==
    /\ list = NoList \/ list \in ListType
    /\ list.pc = "reading" =>
          /\ mem # None /\ Grows(list.floor, acked)
          /\ \A i \in DOMAIN list.segs, n \in Nat : list.segs[i] = Compact(n) => n < used.compacts
          /\ op.pc = "replace" => \A i \in DOMAIN list.segs : list.segs[i] # op.file
          /\ Seen(disk.files, Len(disk.man.segs), mem.segs, mem.next, list)
    /\ list.pc = "returned" => Grows(list.floor, list.got)

\* The part of it that a step of the store has to keep.
Reads == list.pc = "reading" => /\ mem # None
                                /\ op.pc = "replace" => \A i \in DOMAIN list.segs : list.segs[i] # op.file
                                /\ Seen(disk.files, Len(disk.man.segs), mem.segs, mem.next, list)

\* Seen, in the next state.
LEMMA SeenNext ==
    Seen(disk.files, Len(disk.man.segs), mem.segs, mem.next, list)'
        <=> Seen(disk'.files, Len(disk'.man.segs), mem'.segs, mem'.next, list')
BY DEF Seen, Contiguous, Grows, Current, Passed, Same, TextsOf, TextOf, Newer, Rests

\* What is known of a listing that reads.
LEMMA ListParts ==
    ASSUME StoreInv, ListInv, list.pc = "reading"
    PROVE  /\ list \in ListType /\ list.segs \in Seq(Names) /\ list.floor \in Texts /\ list.got \in Texts
           /\ mem # None /\ mem \in ManType /\ mem.segs \in Seq(Names) /\ mem.next \in Nat /\ Manifest = mem
           /\ disk.man # None /\ disk.man.segs \in Seq(Names) /\ Len(disk.man.segs) \in Nat /\ disk.man.next \in Nat
           /\ FilesOk(disk.files) /\ Grows(disk.man.segs, mem.segs) /\ disk.man.next <= mem.next
           /\ NamesOk(mem.segs, used.compacts) /\ used.compacts \in Nat
           /\ Seen(disk.files, Len(disk.man.segs), mem.segs, mem.next, list)
<1>1. list \in ListType /\ mem # None /\ Seen(disk.files, Len(disk.man.segs), mem.segs, mem.next, list)
  BY DEF ListInv, NoList
<1>2. Manifest = mem
  BY <1>1 DEF Manifest
<1>3. list.segs \in Seq(Names) /\ list.floor \in Texts /\ list.got \in Texts
  BY <1>1 DEF ListType
<1>4. used.compacts \in Nat
  BY DEF StoreInv, ShapeInv, UsedType
<1>5. Len(disk.man.segs) \in Nat
  <2>1. disk.man.segs \in Seq(Names)
    BY <1>1, <1>2, ManifestParts
  <2> QED
    BY <2>1
<1> QED
  BY <1>1, <1>2, <1>3, <1>4, <1>5, ManifestParts

\* A step that leaves the listing alone keeps the rest of its invariant.
LEMMA ListRest ==
    ASSUME StoreInv, ListInv, UNCHANGED list, Reads', used'.compacts = used.compacts \/ used'.compacts = used.compacts + 1,
           \A a \in Texts : Grows(a, acked) => Grows(a, acked')
    PROVE  ListInv'
<1>1. used.compacts \in Nat
  BY DEF StoreInv, ShapeInv, UsedType
<1>2. \A n \in Nat : n < used.compacts => n < used'.compacts
  BY <1>1
<1>3. list = NoList \/ list.floor \in Texts
  BY DEF ListInv, ListType
<1>4. CASE list = NoList
  BY <1>4 DEF ListInv, NoList
<1>5. CASE list # NoList
  BY <1>2, <1>3, <1>5 DEF ListInv, Reads
<1> QED
  BY <1>4, <1>5

\* Steps that leave the files of the listing alone.
LEMMA KeepsReads ==
    ASSUME StoreInv, ListInv, UNCHANGED list, list.pc = "reading",
           \A i \in DOMAIN list.segs :
               /\ TextOf(disk'.files, list.segs[i]) = TextOf(disk.files, list.segs[i])
               /\ list.segs[i] \in DOMAIN disk'.files <=> list.segs[i] \in DOMAIN disk.files,
           mem' # None, mem'.segs \in Seq(Names), Grows(mem.segs, mem'.segs), mem'.next \in Nat, mem.next <= mem'.next,
           Len(disk'.man.segs) \in Nat, Len(disk.man.segs) <= Len(disk'.man.segs),
           op'.pc = "replace" => \A i \in DOMAIN list.segs : list.segs[i] # op'.file
    PROVE  Reads'
<1> DEFINE base == Len(disk.man.segs)
           wider == Len(disk'.man.segs)
           names == mem.segs
           more == mem'.segs
           next == mem.next
           later == mem'.next
           files == disk.files
           others == disk'.files
<1>1. /\ list \in ListType /\ names \in Seq(Names) /\ base \in Nat /\ next \in Nat
      /\ Seen(files, base, names, next, list)
  BY ListParts
<1>2. /\ \A i \in DOMAIN list.segs : /\ TextOf(others, list.segs[i]) = TextOf(files, list.segs[i])
                                     /\ list.segs[i] \in DOMAIN others <=> list.segs[i] \in DOMAIN files
      /\ more \in Seq(Names) /\ Grows(names, more) /\ later \in Nat /\ next <= later /\ wider \in Nat /\ base <= wider
  OBVIOUS
<1> HIDE DEF base, wider, names, more, next, later, files, others
<1>3. Seen(others, wider, more, later, list)
  BY ONLY <1>1, <1>2, SeenKeeps, ZenonT(60)
<1>4. Seen(disk'.files, Len(disk'.man.segs), mem'.segs, mem'.next, list')
  BY <1>3 DEF wider, more, later, others
<1> QED
  BY <1>4, SeenNext DEF Reads

\* Steps that leave the files, too.
LEMMA QuietReads ==
    ASSUME StoreInv, ListInv, UNCHANGED <<list, disk>>, UNCHANGED mem \/ mem' = Manifest,
           op'.pc = "replace" => UNCHANGED op \/ (op'.file = Compact(used.compacts))
    PROVE  Reads'
<1> SUFFICES ASSUME list.pc = "reading" PROVE Reads'
  BY DEF Reads
<1>1. /\ mem' = mem /\ mem # None /\ mem.segs \in Seq(Names) /\ mem.next \in Nat /\ Len(disk.man.segs) \in Nat
      /\ used.compacts \in Nat
  BY ListParts DEF Manifest
<1>2. Grows(mem.segs, mem.segs) /\ mem.next <= mem.next /\ Len(disk.man.segs) <= Len(disk.man.segs)
  BY <1>1, GrowsSelf
<1>3. op'.pc = "replace" => \A i \in DOMAIN list.segs : list.segs[i] # op'.file
  <2>1. CASE UNCHANGED op
    BY <2>1 DEF ListInv
  <2>2. CASE op'.file = Compact(used.compacts)
    <3>1. ~(used.compacts < used.compacts)
      BY <1>1
    <3> QED
      BY <1>1, <2>2, <3>1 DEF ListInv
  <2> QED
    BY <2>1, <2>2
<1> QED
  BY <1>1, <1>2, <1>3, KeepsReads

\* An append writes a segment beside a listing.
LEMMA WriteSegmentReads ==
    ASSUME StoreInv, ListInv, WriteSegment
    PROVE  Reads'
<1>1. op.pc = "segments" /\ UNCHANGED <<list, acked>>
  BY DEF WriteSegment
<1>2. CASE UNCHANGED disk /\ op' = Idle /\ UNCHANGED mem /\ Fails
  <2>1. op'.pc = "idle"
    BY <1>2 DEF Idle
  <2> QED
    BY <1>1, <1>2, <2>1, QuietReads
<1>3. CASE ~(UNCHANGED disk /\ op' = Idle /\ UNCHANGED mem /\ Fails)
  <2> SUFFICES ASSUME list.pc = "reading" PROVE Reads'
    BY <1>1 DEF Reads
  <2> DEFINE p == Left(mem.segs, op.writes) + 1
             text == Head(op.writes).text
             names == mem.segs
             base == Len(disk.man.segs)
             next == mem.next
             files == disk.files
             others == disk'.files
             g == names[p]
  <2>1. /\ list \in ListType /\ FilesOk(files) /\ names \in Seq(Names) /\ next \in Nat /\ base \in Nat
        /\ NamesOk(names, used.compacts) /\ used.compacts \in Nat /\ Seen(files, base, names, next, list) /\ mem # None
    BY ListParts
  <2>2. /\ p \in 1..Len(names) /\ TextOf(others, g) = text /\ Head(op.writes).file = g
        /\ (\A f : f # g => TextOf(others, f) = TextOf(files, f))
        /\ op.writes \in Seq(WriteType) /\ op.writes # <<>> /\ WritesFit(files, base, names, op.writes, next)
        /\ disk'.man = disk.man /\ DiskShape(disk) /\ Len(op.batch) \in Nat
        /\ \/ op'.pc = "segments" /\ UNCHANGED mem
           \/ op'.pc = "manifest" /\ mem' # None /\ mem'.segs = names /\ mem'.next = next + Len(op.batch)
    BY <1>3, WriteEffect
  <2>3. /\ Head(op.writes) = op.writes[1] /\ 1 \in DOMAIN op.writes /\ text \in Texts
    <3>1. Head(op.writes) = op.writes[1] /\ 1 \in DOMAIN op.writes /\ op.writes[1] \in WriteType
      BY <2>2
    <3> QED
      BY <3>1 DEF WriteType
  <2>4. /\ \E x \in {<<>>, TextOf(files, g)} : Newer(x, text, next)
        /\ base <= p /\ (base = p => Grows(TextOf(files, g), text))
    BY <2>2, <2>3 DEF WritesFit
  <2>5. \A f : f # g => (f \in DOMAIN others <=> f \in DOMAIN files)
    <3>1. disk' = [disk EXCEPT !.files = Put(g, text)]
      BY <1>3, <2>2 DEF WriteSegment
    <3>2. others = PutIn(files, g, text)
      BY <2>2, <3>1, PutIs DEF DiskShape
    <3> HIDE DEF g, text, files, others
    <3> QED
      BY <3>2 DEF PutIn
  <2>6. \A i \in 1..Len(names) : i # p => names[i] # g
    BY <2>1, <2>2, NamesDiffer
  <2>7. \A f : f # g => TextOf(others, f) = TextOf(files, f) /\ (f \in DOMAIN others <=> f \in DOMAIN files)
    BY <2>2, <2>5
  <2>8. Seen(others, base, names, next, list)
    <3> HIDE DEF p, text, names, base, next, files, others
    <3>1. /\ list \in ListType /\ FilesOk(files) /\ names \in Seq(Names) /\ p \in 1..Len(names)
          /\ text \in Texts /\ TextOf(others, names[p]) = text /\ base \in Nat /\ base <= p
          /\ (base = p => Grows(TextOf(files, names[p]), text)) /\ next \in Nat
          /\ Seen(files, base, names, next, list)
      BY <2>1, <2>2, <2>3, <2>4
    <3> QED
      BY ONLY <2>4, <2>6, <2>7, <3>1, SeenWrite DEF g
  <2>9. /\ mem' # None /\ mem'.segs = names /\ mem'.next \in Nat /\ next <= mem'.next /\ op'.pc # "replace"
    BY <2>1, <2>2
  <2>10. Seen(others, base, names, mem'.next, list)
    <3> DEFINE later == mem'.next
    <3>1. later \in Nat /\ next <= later /\ base <= base
      BY <2>1, <2>9
    <3>2. Grows(names, names)
      BY <2>1, GrowsSelf
    <3>3. \A i \in DOMAIN list.segs : /\ TextOf(others, list.segs[i]) = TextOf(others, list.segs[i])
                                      /\ list.segs[i] \in DOMAIN others <=> list.segs[i] \in DOMAIN others
      OBVIOUS
    <3> HIDE DEF names, base, next, others, later
    <3>4. Seen(others, base, names, later, list)
      BY ONLY <2>1, <2>8, <3>1, <3>2, <3>3, SeenKeeps, ZenonT(60)
    <3> QED
      BY <3>4 DEF later
  <2>11. Seen(disk'.files, Len(disk'.man.segs), mem'.segs, mem'.next, list')
    BY <1>1, <2>2, <2>9, <2>10
  <2> QED
    BY <1>1, <2>9, <2>11, SeenNext DEF Reads
<1> QED
  BY <1>2, <1>3

\* An append is acknowledged beside a listing.
LEMMA WriteManifestReads ==
    ASSUME StoreInv, ListInv, WriteManifest
    PROVE  Reads' /\ \A a \in Texts : Grows(a, acked) => Grows(a, acked')
<1>1. op.pc = "manifest" /\ UNCHANGED <<list, mem>> /\ op'.pc = "idle"
  BY DEF WriteManifest, Idle
<1>2. mem # None /\ Manifest = mem /\ acked \in Texts /\ DiskShape(disk) /\ Grows(acked, StoredOf(disk))
  BY <1>1 DEF StoreInv, ShapeInv, BaseInv, AckInv, AckOk, Manifest
<1>3. CASE UNCHANGED <<disk, acked>>
  BY <1>1, <1>3, QuietReads
<1>4. CASE ~UNCHANGED <<disk, acked>>
  <2>1. disk' = [disk EXCEPT !.man = mem] /\ acked' = Read(mem)
    BY <1>4 DEF WriteManifest
  <2>2. disk'.man = mem /\ disk'.files = disk.files
    BY <1>2, <2>1 DEF DiskShape
  <2>3. /\ Grows(StoredOf(disk), Read(mem)) /\ Read(mem) \in Texts /\ StoredOf(disk) \in Texts
        /\ mem.segs \in Seq(Names) /\ mem.next \in Nat /\ Grows(disk.man.segs, mem.segs)
    BY <1>2, ManifestParts
  <2>4. \A a \in Texts : Grows(a, acked) => Grows(a, acked')
    <3>1. Grows(acked, Read(mem))
      BY <1>2, <2>3, GrowsTwice DEF Texts
    <3> QED
      BY <1>2, <2>1, <2>3, <3>1, GrowsTwice DEF Texts
  <2>5. Reads'
    <3> SUFFICES ASSUME list.pc = "reading" PROVE Reads'
      BY <1>1 DEF Reads
    <3>1. Grows(mem.segs, mem.segs) /\ mem.next <= mem.next /\ Len(mem.segs) \in Nat
      BY <2>3, GrowsSelf
    <3>2. Len(disk.man.segs) <= Len(mem.segs)
      BY <2>3 DEF Grows
    <3> QED
      BY <1>1, <1>2, <2>2, <2>3, <3>1, <3>2, KeepsReads
  <2> QED
    BY <2>4, <2>5
<1> QED
  BY <1>3, <1>4

\* A compaction writes its copy beside a listing.
LEMMA ReplaceReads ==
    ASSUME StoreInv, ListInv, Replace
    PROVE  Reads'
<1>1. op.pc = "replace" /\ UNCHANGED <<list, mem, acked>>
  BY DEF Replace
<1>2. CASE UNCHANGED disk /\ op' = Idle /\ Fails
  <2>1. op'.pc = "idle"
    BY <1>2 DEF Idle
  <2> QED
    BY <1>1, <1>2, <2>1, QuietReads
<1>3. CASE ~(UNCHANGED disk /\ op' = Idle /\ Fails)
  <2> SUFFICES ASSUME list.pc = "reading" PROVE Reads'
    BY <1>1 DEF Reads
  <2>1. \A i \in DOMAIN list.segs : list.segs[i] # op.file
    BY <1>1 DEF ListInv
  <2>2. /\ disk'.man = disk.man /\ op'.pc = "switch" /\ DiskShape(disk)
        /\ \A g : g # op.file => TextOf(disk'.files, g) = TextOf(disk.files, g)
    BY <1>3, ReplaceEffect
  <2>3. \A g : g # op.file => (g \in DOMAIN disk'.files <=> g \in DOMAIN disk.files)
    <3>1. disk' = [disk EXCEPT !.files = Put(op.file, op.text)]
      BY <1>3 DEF Replace
    <3>2. disk'.files = PutIn(disk.files, op.file, op.text)
      BY <2>2, <3>1, PutIs DEF DiskShape
    <3> QED
      BY <3>2 DEF PutIn
  <2>4. /\ mem # None /\ mem.segs \in Seq(Names) /\ mem.next \in Nat /\ Len(disk.man.segs) \in Nat
    BY ListParts
  <2>5. Grows(mem.segs, mem.segs) /\ mem.next <= mem.next /\ Len(disk.man.segs) <= Len(disk.man.segs)
    BY <2>4, GrowsSelf
  <2> QED
    BY <1>1, <2>1, <2>2, <2>3, <2>4, <2>5, KeepsReads
<1> QED
  BY <1>2, <1>3

\* What was acknowledged and is contiguous is counted by the manifest.
LEMMA AckedCounted ==
    ASSUME StoreInv, disk.man # None, Contiguous(acked), disk.man.next \in Nat
    PROVE  Len(acked) <= disk.man.next
<1> DEFINE n == Len(acked)
<1>1. acked \in Seq(Events) /\ n \in Nat /\ DOMAIN acked = 1..n
  BY DEF StoreInv, ShapeInv, Texts
<1>2. CASE n = 0
  BY <1>2
<1>3. CASE n # 0
  <2>1. acked # <<>> /\ n \in DOMAIN acked /\ Last(acked) = acked[n]
    BY <1>1, <1>3 DEF Last
  <2>2. acked[n].seq = n - 1 /\ Last(acked).seq < disk.man.next
    BY <2>1 DEF Contiguous, StoreInv, AckInv, AckOk
  <2> QED
    BY <1>1, <2>1, <2>2
<1> QED
  BY <1>2, <1>3

\* A compaction switches to its copy beside a listing: from now on, what comes is new.
LEMMA SwitchReads ==
    ASSUME StoreInv, ListInv, Switch
    PROVE  Reads'
<1>1. op.pc = "switch" /\ UNCHANGED <<list, acked>>
  BY DEF Switch
<1>2. CASE UNCHANGED <<disk, mem>> /\ op' = Idle /\ Fails
  <2>1. op'.pc = "idle"
    BY <1>2 DEF Idle
  <2> QED
    BY <1>1, <1>2, <2>1, QuietReads
<1>3. CASE ~(UNCHANGED <<disk, mem>> /\ op' = Idle /\ Fails)
  <2> SUFFICES ASSUME list.pc = "reading" PROVE Reads'
    BY <1>1 DEF Reads
  <2>1. /\ disk'.man = mem' /\ disk'.files = disk.files /\ op'.pc = "remove" /\ mem' # None /\ mem'.next = mem.next
        /\ Contiguous(op.text) /\ Grows(StoredOf(disk), StoredOf(disk')) /\ StoredOf(disk') = op.text
        /\ op \in CompactType
    BY <1>3, SwitchEffect
  <2>2. op.text \in Texts /\ StoredOf(disk) \in Texts /\ acked \in Texts /\ Grows(acked, StoredOf(disk))
    BY <2>1, StoredSelf DEF CompactType, StoreInv, ShapeInv, AckInv, AckOk
  <2>3. Contiguous(acked)
    <3>1. Grows(acked, op.text)
      BY <2>1, <2>2, GrowsTwice DEF Texts
    <3> QED
      BY <2>1, <2>2, <3>1, ContiguousPart
  <2>4. /\ list \in ListType /\ list.floor \in Texts /\ mem.next \in Nat /\ disk.man.next \in Nat
        /\ disk.man.next <= mem.next /\ disk.man # None
        /\ Seen(disk.files, Len(disk.man.segs), mem.segs, mem.next, list)
    BY ListParts
  <2>5. Len(list.floor) <= mem.next
    <3>1. Len(acked) <= disk.man.next
      BY <2>3, <2>4, AckedCounted
    <3>2. Len(list.floor) <= Len(acked)
      BY DEF ListInv, Grows
    <3>3. Len(list.floor) \in Nat /\ Len(acked) \in Nat
      BY <2>2, <2>4 DEF Texts
    <3> QED
      BY <2>4, <3>1, <3>2, <3>3
  <2>6. Seen(disk.files, Len(disk'.man.segs), mem'.segs, mem.next, list)
    BY <2>4, <2>5, SeenSwitch
  <2>7. Seen(disk'.files, Len(disk'.man.segs), mem'.segs, mem'.next, list')
    BY <1>1, <2>1, <2>6
  <2> QED
    BY <1>1, <2>1, <2>7, SeenNext DEF Reads
<1> QED
  BY <1>2, <1>3

\* A compaction removes a file beside a listing.
LEMMA RemoveOldReads ==
    ASSUME StoreInv, ListInv, RemoveOld
    PROVE  Reads'
<1>1. op.pc = "remove" /\ UNCHANGED <<list, mem, acked>> /\ op'.pc # "replace"
  <2>1. op.pc = "remove" => op'.pc \in {"idle", "remove"}
    BY RemoveEffect, Afters DEF RemoveOld, Advanced, Idle
  <2> QED
    BY <2>1 DEF RemoveOld
<1>2. CASE UNCHANGED disk
  BY <1>1, <1>2, QuietReads
<1>3. CASE ~UNCHANGED disk
  <2> SUFFICES ASSUME list.pc = "reading" PROVE Reads'
    BY <1>1 DEF Reads
  <2>1. op.old # <<>>
    BY <1>3 DEF RemoveOld
  <2> DEFINE g == op.old[1]
             others == disk'.files
             names == mem.segs
  <2>2. /\ mem = disk.man /\ disk'.man = disk.man /\ (\A i \in DOMAIN names : names[i] # g)
        /\ g \notin DOMAIN others
        /\ \A f : f # g => (f \in DOMAIN others <=> f \in DOMAIN disk.files) /\ TextOf(others, f) = TextOf(disk.files, f)
    BY <1>3, <2>1, RemoveEffect
  <2>3. /\ list \in ListType /\ names \in Seq(Names) /\ mem # None
        /\ Seen(disk.files, Len(disk.man.segs), names, mem.next, list)
    BY ListParts
  <2> HIDE DEF g, others, names
  <2>4. Seen(others, Len(disk.man.segs), names, mem.next, list)
    BY <2>2, <2>3, SeenRemoved
  <2>5. Seen(disk'.files, Len(disk'.man.segs), mem'.segs, mem'.next, list')
    BY <1>1, <2>2, <2>4 DEF others, names
  <2> QED
    BY <1>1, <2>3, <2>5, SeenNext DEF Reads
<1> QED
  BY <1>2, <1>3

\* An append that starts: it only adds to the manifest in memory.
LEMMA StartsReads ==
    ASSUME StoreInv, ListInv, Manifest # None, NEW batch, Accepted(batch, Manifest.next), NEW by \in Agents,
           StartsAppend(batch, by), UNCHANGED <<disk, list>>
    PROVE  Reads'
<1> SUFFICES ASSUME list.pc = "reading" PROVE Reads'
  BY DEF Reads
<1>1. /\ Manifest = mem /\ mem.next \in Nat /\ Len(disk.man.segs) \in Nat
  BY ListParts
<1>2. /\ mem' = [segs |-> mem'.segs, next |-> Manifest.next] /\ mem'.segs \in Seq(Names)
      /\ op' = [pc |-> "segments", by |-> by, batch |-> batch, writes |-> op'.writes]
      /\ Grows(Manifest.segs, mem'.segs)
  BY StartsPlan
<1>3. mem' # None
  <2>1. mem' \in ManType
    BY <1>1, <1>2 DEF ManType
  <2> QED
    BY <2>1, ManIsNotNone
<1>4. mem'.next = mem.next /\ op'.pc = "segments" /\ Grows(mem.segs, mem'.segs)
  BY <1>1, <1>2
<1>5. mem'.next \in Nat /\ mem.next <= mem'.next /\ Len(disk.man.segs) <= Len(disk.man.segs)
  BY <1>1, <1>4
<1> QED
  BY <1>1, <1>2, <1>3, <1>4, <1>5, KeepsReads

\* The appends of the caller.
LEMMA CallerAppendsReads ==
    ASSUME StoreInv, ListInv, caller.next \in Nat, CallerAppends
    PROVE  Reads'
<1>1. PICK k \in 1..MaxBatch : LET batch == [i \in 1..k |-> Event(caller.next + i - 1, used.crashes)] IN
                                  Sequenced(batch) /\ StartsAppend(batch, "caller")
  BY DEF CallerAppends
<1>2. k \in Nat \ {0} /\ Manifest # None /\ UNCHANGED <<disk, list>> /\ "caller" \in Agents
  BY SessionLogAssumption DEF CallerAppends, Agents
<1> DEFINE batch == [i \in 1..k |-> Event(caller.next + i - 1, used.crashes)]
<1>3. Accepted(batch, Manifest.next)
  BY <1>1, <1>2, CallerAccepted
<1>4. StartsAppend(batch, "caller")
  BY <1>1
<1> HIDE DEF batch
<1> QED
  BY <1>2, <1>3, <1>4, StartsReads

\* The loads, with a turn to close and without.
LEMMA LoadsReads ==
    ASSUME StoreInv, ListInv, NEW by \in {"load", "prepare"}, Loads(by)
    PROVE  Reads'
<1> DEFINE events == Read(Manifest)
           closers == Closers(events)
<1>1. /\ Free /\ Manifest # None /\ UNCHANGED <<disk, list>> /\ by \in Agents
      /\ \/ closers = <<>> /\ mem' = Manifest /\ UNCHANGED op
         \/ closers # <<>> /\ Sequenced(closers) /\ StartsAppend(closers, by)
  BY DEF Loads, Agents
<1>2. events \in Texts
  BY <1>1, ManifestParts
<1> HIDE DEF events
<1>3. CASE closers = <<>>
  BY <1>1, <1>3, QuietReads
<1>4. CASE closers # <<>>
  <2>1. Accepted(closers, Manifest.next) /\ StartsAppend(closers, by)
    BY <1>1, <1>2, <1>4, ClosersAccepted
  <2> HIDE DEF closers
  <2> QED
    BY <1>1, <2>1, StartsReads
<1> QED
  BY <1>3, <1>4

-------------------------------------------------------------------------------
(* The steps of a listing.                                                 *)

\* A listing that is over, or that ended with an error.
LEMMA NoListOk == list' = NoList => ListInv'
<1> SUFFICES ASSUME list' = NoList PROVE ListInv'
  OBVIOUS
<1>1. list'.pc = "none"
  BY DEF NoList
<1> QED
  BY <1>1 DEF ListInv

\* A listing starts with what the manifest names.
LEMMA ListStartsOk ==
    ASSUME StoreInv, ListStarts
    PROVE  ListInv'
<1> DEFINE segs == disk.man.segs
           names == Manifest.segs
           files == disk.files
           floor == acked
           next == Manifest.next
<1>1. /\ Manifest # None /\ mem' = Manifest /\ UNCHANGED <<disk, op, acked, used>>
      /\ list' = [pc |-> "reading", segs |-> names, got |-> <<>>, floor |-> floor]
  BY DEF ListStarts
<1>2. /\ names \in Seq(Names) /\ segs \in Seq(Names) /\ NamesOk(names, used.compacts) /\ Grows(segs, names)
      /\ FilesOk(files) /\ disk.man # None
  BY <1>1, ManifestParts
<1>3. floor \in Texts /\ Grows(floor, ReadOf(files, segs)) /\ <<>> \in Texts
  BY <1>2 DEF StoreInv, ShapeInv, AckInv, AckOk, StoredOf, Texts
<1>4. Grows(floor, floor)
  BY <1>3, GrowsSelf DEF Texts
<1>5. used.compacts \in Nat
  BY DEF StoreInv, ShapeInv, UsedType
<1>6. ASSUME NEW i \in DOMAIN names, NEW n \in Nat, names[i] = Compact(n) PROVE n < used.compacts
  <2>1. i - 1 \in Nat
    BY <1>2
  <2>2. names[i] # Segment(i - 1)
    BY <1>6, <2>1, NamesApart
  <2>3. PICK k \in Nat : k < used.compacts /\ names[i] = Compact(k)
    BY <1>2, <2>2 DEF NamesOk
  <2>4. k = n
    BY <1>6, <2>3, NamesApart
  <2> QED
    BY <2>3, <2>4
<1>7. ASSUME op.pc = "replace", NEW i \in DOMAIN names PROVE names[i] # op.file
  <2>1. mem # None
    BY <1>7 DEF StoreInv, BaseInv
  <2>2. Manifest = mem
    BY <2>1 DEF Manifest
  <2> QED
    BY <1>7, <2>2 DEF StoreInv, CompactInv
<1>8. mem' # None /\ mem'.segs = names /\ mem'.next = next
  BY <1>1
<1> HIDE DEF segs, names, files, floor, next
<1>9. /\ list' \in ListType /\ list'.segs = names /\ list'.got = <<>> /\ list'.floor = floor /\ list'.pc = "reading"
  BY <1>1, <1>2, <1>3 DEF ListType
<1>10. Seen(files, Len(segs), names, next, list')
  BY <1>2, <1>3, <1>9, SeenStart
<1>11. Seen(disk.files, Len(disk.man.segs), mem.segs, mem.next, list)'
  BY <1>1, <1>8, <1>10, SeenNext DEF files, segs
<1>12. \A i \in DOMAIN list'.segs, n \in Nat : list'.segs[i] = Compact(n) => n < used'.compacts
  BY <1>1, <1>6, <1>9
<1>13. op'.pc = "replace" => \A i \in DOMAIN list'.segs : list'.segs[i] # op'.file
  BY <1>1, <1>7, <1>9
<1>14. Grows(list'.floor, acked')
  BY <1>1, <1>4, <1>9 DEF floor
<1> QED
  BY <1>8, <1>9, <1>11, <1>12, <1>13, <1>14 DEF ListInv

\* A listing reads its next segment, or ends at one that is gone.
LEMMA ListReadsOk ==
    ASSUME StoreInv, ListInv, ListReads
    PROVE  ListInv'
<1>1. /\ list.pc = "reading" /\ list.segs # <<>> /\ UNCHANGED <<disk, mem, op, used, acked>>
  BY DEF ListReads
<1>2. CASE ~There(Head(list.segs))
  BY <1>2, NoListOk DEF ListReads
<1>3. CASE There(Head(list.segs))
  <2> DEFINE s == list.segs
             x == TextOf(disk.files, s[1])
  <2>1. /\ list \in ListType /\ s \in Seq(Names) /\ list.got \in Texts /\ FilesOk(disk.files)
        /\ Seen(disk.files, Len(disk.man.segs), mem.segs, mem.next, list)
    BY <1>1, ListParts
  <2>2. Head(s) = s[1] /\ Tail(s) \in Seq(Names) /\ \A i \in DOMAIN Tail(s) : i + 1 \in DOMAIN s /\ Tail(s)[i] = s[i + 1]
    BY <1>1, <2>1
  <2>3. s[1] \in DOMAIN disk.files
    BY <1>3, <2>2 DEF There
  <2>4. list' = [list EXCEPT !.segs = Tail(s), !.got = @ \o x]
    BY <1>3, <2>2 DEF ListReads, Text, TextOf
  <2>5. x \in Texts
    BY <2>1, TextOfType
  <2> HIDE DEF x
  <2>6. list.got \o x \in Texts
    BY <2>1, <2>5 DEF Texts
  <2> DEFINE g == list.got \o x
  <2>7. list' = [list EXCEPT !.segs = Tail(s), !.got = g]
    BY <2>1, <2>4 DEF ListType
  <2> HIDE DEF g
  <2>8. /\ list' \in ListType /\ list'.segs = Tail(s) /\ list'.got = g /\ list'.floor = list.floor
        /\ list'.pc = "reading"
    BY <1>1, <2>1, <2>2, <2>6, <2>7 DEF ListType, g
  <2>9. Seen(disk.files, Len(disk.man.segs), mem.segs, mem.next, list')
    <3> DEFINE base == Len(disk.man.segs)
               names == mem.segs
               next == mem.next
               files == disk.files
               m == list'
    <3>1. list \in ListType /\ FilesOk(files) /\ list.segs # <<>> /\ list.segs[1] \in DOMAIN files
      BY <1>1, <2>1, <2>3
    <3>2. m \in ListType /\ m.segs = Tail(list.segs) /\ m.got = list.got \o TextOf(files, list.segs[1]) /\ m.floor = list.floor
      BY <2>8 DEF g, x
    <3>3. Seen(files, base, names, next, list)
      BY <2>1
    <3> HIDE DEF base, names, next, files, m
    <3>4. Seen(files, base, names, next, m)
      BY ONLY <3>1, <3>2, <3>3, SeenRead
    <3> QED
      BY <3>4 DEF base, names, next, files, m
  <2>10. Seen(disk.files, Len(disk.man.segs), mem.segs, mem.next, list)'
    BY <1>1, <2>9, SeenNext
  <2>11. /\ mem # None /\ Grows(list.floor, acked)
         /\ \A i \in DOMAIN s, n \in Nat : s[i] = Compact(n) => n < used.compacts
         /\ op.pc = "replace" => \A i \in DOMAIN s : s[i] # op.file
    BY <1>1 DEF ListInv
  <2>12. \A i \in DOMAIN list'.segs, n \in Nat : list'.segs[i] = Compact(n) => n < used'.compacts
    BY <1>1, <2>2, <2>8, <2>11
  <2>13. op'.pc = "replace" => \A i \in DOMAIN list'.segs : list'.segs[i] # op'.file
    BY <1>1, <2>2, <2>8, <2>11
  <2> QED
    BY <1>1, <2>8, <2>10, <2>11, <2>12, <2>13 DEF ListInv
<1> QED
  BY <1>2, <1>3

\* A listing that has read everything has read what was acknowledged.
LEMMA ListReturnsOk ==
    ASSUME StoreInv, ListInv, ListReturns
    PROVE  ListInv'
<1>1. list.pc = "reading" /\ list.segs = <<>>
  BY DEF ListReturns
<1>2. CASE ~Contiguous(list.got)
  BY <1>2, NoListOk DEF ListReturns
<1>3. CASE Contiguous(list.got)
  <2>1. list' = [list EXCEPT !.pc = "returned"] /\ list \in ListType /\ list.got \in Texts /\ list.floor \in Texts
    BY <1>1, <1>3, ListParts DEF ListReturns
  <2>2. list' \in ListType /\ list'.pc = "returned" /\ list'.got = list.got /\ list'.floor = list.floor
    BY <2>1 DEF ListType
  <2>3. Grows(list.floor, list.got)
    <3>1. Seen(disk.files, Len(disk.man.segs), mem.segs, mem.next, list)
      BY <1>1, ListParts
    <3>2. CASE Grows(list.floor, list.got)
      BY <3>2
    <3>3. CASE ~Grows(list.floor, list.got)
      <4>1. PICK rest \in Rests(list.segs) : list.floor = list.got \o FlattenSeq(rest)
        BY <1>3, <3>1, <3>3 DEF Seen
      <4>2. rest \in Seq(Texts) /\ Len(rest) = 0
        BY <1>1, <4>1 DEF Rests
      <4>3. rest = <<>>
        BY <4>2
      <4>4. list.floor = list.got \o <<>>
        BY <4>1, <4>3, FlattenEmpty
      <4>5. list.floor = list.got
        BY <2>1, <4>4 DEF Texts
      <4> QED
        BY <2>1, <4>5, GrowsSelf DEF Texts
    <3> QED
      BY <3>2, <3>3
  <2> QED
    BY <2>2, <2>3 DEF ListInv
<1> QED
  BY <1>2, <1>3

\* Steps that leave the listing alone.
LEMMA OthersRead ==
    ASSUME StoreInv, CallerInv, ListInv, UNCHANGED list, [Next]_vars, ~ListStarts, ~Crash
    PROVE  Reads' /\ \A a \in Texts : Grows(a, acked) => Grows(a, acked')
<1>0. caller.next \in Nat
  BY DEF CallerInv
<1>1. CASE UNCHANGED vars
  BY <1>1, QuietReads DEF vars
<1>2. CASE Create
  <2>1. op'.pc = "create" /\ UNCHANGED <<list, disk, mem, acked>>
    BY <1>2 DEF Create
  <2> QED
    BY <2>1, QuietReads
<1>3. CASE Created
  <2>1. op.pc = "create" /\ UNCHANGED acked
    BY <1>3 DEF Created
  <2>2. list.pc # "reading"
    BY <2>1 DEF StoreInv, BaseInv, ListInv
  <2> QED
    BY <2>1, <2>2 DEF Reads
<1>4. CASE CallerAppends
  <2>1. UNCHANGED acked
    BY <1>4 DEF CallerAppends
  <2> QED
    BY <1>0, <1>4, <2>1, CallerAppendsReads
<1>5. CASE WriteSegment
  <2>1. UNCHANGED acked
    BY <1>5 DEF WriteSegment
  <2> QED
    BY <1>5, <2>1, WriteSegmentReads
<1>6. CASE WriteManifest
  BY <1>6, WriteManifestReads
<1>7. CASE Loads("load") \/ Loads("prepare")
  <2>1. UNCHANGED acked
    BY <1>7 DEF Loads
  <2> QED
    BY <1>7, <2>1, LoadsReads
<1>8. CASE CompactStarts
  <2>1. UNCHANGED <<list, disk, acked>> /\ mem' = Manifest /\ op'.file = Compact(used.compacts)
    BY <1>8 DEF CompactStarts
  <2> QED
    BY <2>1, QuietReads
<1>9. CASE Replace
  <2>1. UNCHANGED acked
    BY <1>9 DEF Replace
  <2> QED
    BY <1>9, <2>1, ReplaceReads
<1>10. CASE Switch
  <2>1. UNCHANGED acked
    BY <1>10 DEF Switch
  <2> QED
    BY <1>10, <2>1, SwitchReads
<1>11. CASE RemoveOld
  <2>1. UNCHANGED acked
    BY <1>11 DEF RemoveOld
  <2> QED
    BY <1>11, <2>1, RemoveOldReads
<1>12. CASE Release \/ ListReads \/ ListReturns \/ ListEnds \/ Snapshot
  <2>1. UNCHANGED <<list, disk, mem, op, acked>>
    BY <1>12 DEF Release, ListReads, ListReturns, ListEnds, Snapshot
  <2> QED
    BY <2>1, QuietReads
<1> QED
  BY <1>1, <1>2, <1>3, <1>4, <1>5, <1>6, <1>7, <1>8, <1>9, <1>10, <1>11, <1>12 DEF Next

\* Every step keeps the invariant of a listing.
LEMMA ListStep ==
    ASSUME StoreInv, CallerInv, ListInv, [Next]_vars
    PROVE  ListInv'
<1>1. CASE ListStarts
  BY <1>1, ListStartsOk
<1>2. CASE ListReads
  BY <1>2, ListReadsOk
<1>3. CASE ListReturns
  BY <1>3, ListReturnsOk
<1>4. CASE list' = NoList
  BY <1>4, NoListOk
<1>5. CASE UNCHANGED list /\ ~Crash /\ ~ListStarts
  <2>1. Reads' /\ \A a \in Texts : Grows(a, acked) => Grows(a, acked')
    BY <1>5, OthersRead
  <2>2. used \in UsedType
    BY DEF StoreInv, ShapeInv
  <2>3. used'.compacts = used.compacts \/ used'.compacts = used.compacts + 1
    BY <1>5, <2>2 DEF Next, vars, Create, Created, CallerAppends, WriteSegment, WriteManifest, Loads, Release,
         CompactStarts, Replace, Switch, RemoveOld, ListReads, ListReturns, ListEnds, Snapshot, Fails, UsedType
  <2> QED
    BY <1>5, <2>1, <2>3, ListRest
<1>6. UNCHANGED list \/ list' = NoList \/ ListStarts \/ ListReads \/ ListReturns
  BY DEF Next, vars, Create, Created, CallerAppends, WriteSegment, WriteManifest, Loads, Release, CompactStarts,
         Replace, Switch, RemoveOld, ListEnds, Snapshot, Crash
<1>7. Crash => list' = NoList
  BY DEF Crash
<1> QED
  BY <1>1, <1>2, <1>3, <1>4, <1>5, <1>6, <1>7

\* A listing that returns beside appends and compactions has every event that was acknowledged when it began:
\* readFrom refuses a segment that is gone, and what it reads in a segment that has grown or has been written anew
\* is refused where the seqs do not go on (listSnapshots, readFrom of session-segments.ts).
THEOREM ListingIsComplete == Spec => []ListerSeesAcked
<1>1. Init => ListInv
  BY DEF Init, ListInv, NoList
<1>2. ListInv => ListerSeesAcked
  <2> SUFFICES ASSUME ListInv, list.pc = "returned" PROVE ToSet(list.floor) \subseteq ToSet(list.got)
    BY DEF ListerSeesAcked
  <2>1. list # NoList
    BY DEF NoList
  <2>2. list.floor \in Seq(Events) /\ list.got \in Seq(Events) /\ Grows(list.floor, list.got)
    BY <2>1 DEF ListInv, ListType, Texts
  <2> QED
    BY <2>2, GrowsKeeps
<1>3. StoreInv /\ CallerInv /\ [Next]_vars => (StoreInv /\ CallerInv)'
  BY StoreStep
<1>4. StoreInv /\ CallerInv /\ ListInv /\ [Next]_vars => ListInv'
  BY ListStep
<1> QED
  BY <1>1, <1>2, <1>3, <1>4, StoreInit, PTL DEF Spec
===============================================================================
