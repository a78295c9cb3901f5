--------------------------- MODULE EvaluationProofs ---------------------------
(***************************************************************************)
(* Theorems about Evaluation. What each function may leave is proved in a  *)
(* lemma of its own (Good, or Fair when it stores into the lists it was    *)
(* given); StepKeeps puts them together for every action.                  *)
(***************************************************************************)
EXTENDS EvaluationTypes, FiniteSetTheorems, WellFoundedInduction, TLAPS

---------------------------------------
(* Numbers, folds and sequences.                                           *)
(* A set of numbers has a least one. *)
LEMMA LeastNumber ==
  ASSUME NEW T, T \subseteq Nat, T # {}
  PROVE  \E x \in T : \A y \in T : x <= y
<1>1. PICK x \in T : \A y \in T : ~(<<y, x>> \in OpToRel(<, Nat))
  BY NatLessThanWellFounded, WFMin
<1>2. ASSUME NEW y \in T, y < x PROVE <<y, x>> \in OpToRel(<, Nat)
  BY <1>2 DEF OpToRel
<1>3. \A y \in T : ~(y < x) BY <1>1, <1>2, Zenon
<1> QED BY <1>3

(* Induction over numbers, for a set. *)
LEMMA NatInd ==
  ASSUME NEW T, 0 \in T, \A n \in Nat : n \in T => n + 1 \in T
  PROVE  Nat \subseteq T
<1> DEFINE B == {n \in Nat : n \notin T}
<1> SUFFICES ASSUME B # {} PROVE FALSE OBVIOUS
<1>2. PICK x \in B : \A y \in B : x <= y
  <2> HIDE DEF B
  <2>1. B \subseteq Nat BY DEF B
  <2> QED BY <2>1, LeastNumber
<1>3. x # 0 /\ x - 1 \in Nat OBVIOUS
<1>4. x - 1 \in T BY <1>2, <1>3
<1> QED BY <1>3, <1>4

(* The greatest and the least index of a set of indices. *)
LEMMA MaxMin ==
  ASSUME NEW n \in Nat, NEW s \in SUBSET (1..n), s # {}
  PROVE  /\ Max(s) \in s /\ \A x \in s : x <= Max(s)
         /\ Min(s) \in s /\ \A x \in s : Min(s) <= x
<1>a. s \subseteq Nat OBVIOUS
<1>1. \E x \in s : \A y \in s : x <= y BY <1>a, LeastNumber
<1>2. \E x \in s : \A y \in s : y <= x
  <2> DEFINE U == {m \in Nat : \A x \in s : x <= m}
  <2>1. n \in U /\ U \subseteq Nat OBVIOUS
  <2>2. PICK m \in U : \A y \in U : m <= y
    <3> HIDE DEF U
    <3> QED BY <2>1, LeastNumber
  <2>3. m # 0 /\ m \in Nat
    <3>1. PICK x \in s : TRUE OBVIOUS
    <3> QED BY <3>1
  <2>4. m - 1 \notin U BY <2>2, <2>3
  <2> QED BY <2>3, <2>4
<1> QED BY <1>1, <1>2 DEF Max, Min

(* The function FlattenSeq recurses with. *)
LEMMA FlattenFunction ==
  ASSUME NEW S, NEW ss \in Seq(Seq(S)), ss # <<>>
  PROVE  \E f \in [1..Len(ss) -> Seq(S)] :
            /\ f[1] = ss[1] /\ f[Len(ss)] = FlattenSeq(ss)
            /\ \A i \in 2..Len(ss) : f[i] = f[i-1] \o ss[i]
<1> DEFINE n == Len(ss)
           After(f, i) == IF i = 1 THEN ss[i] ELSE f[i-1] \o ss[i]
           E(f) == f = [i \in 1..n |-> After(f, i)]
           T == {k \in Nat : k <= n => \E f \in [1..k -> Seq(S)] : \A i \in 1..k : f[i] = After(f, i)}
           iter == CHOOSE f : E(f)
<1>1. n \in Nat /\ n > 0 /\ \A i \in 1..n : ss[i] \in Seq(S) OBVIOUS
<1>2. 0 \in T
  <2> DEFINE f == [i \in 1..0 |-> <<>>]
  <2>1. f \in [1..0 -> Seq(S)] /\ \A i \in 1..0 : f[i] = After(f, i) OBVIOUS
  <2> QED BY <2>1
<1>3. ASSUME NEW k \in Nat, k \in T PROVE k + 1 \in T
  <2> SUFFICES ASSUME k + 1 <= n PROVE \E f \in [1..(k + 1) -> Seq(S)] : \A i \in 1..(k + 1) : f[i] = After(f, i)
    OBVIOUS
  <2>1. PICK g \in [1..k -> Seq(S)] : \A i \in 1..k : g[i] = After(g, i)
    BY <1>3, <1>1
  <2> DEFINE f == [i \in 1..(k + 1) |-> IF i = k + 1 THEN After(g, i) ELSE g[i]]
  <2>2. After(g, k + 1) \in Seq(S)
    <3>1. CASE k = 0 BY <3>1, <1>1
    <3>2. CASE k # 0
      <4>1. g[k] \in Seq(S) /\ ss[k + 1] \in Seq(S) BY <3>2, <1>1
      <4> QED BY <3>2, <4>1
    <3> QED BY <3>1, <3>2
  <2>3. f \in [1..(k + 1) -> Seq(S)] BY <2>2
  <2>4. ASSUME NEW i \in 1..(k + 1) PROVE f[i] = After(f, i)
    <3>1. f[i] = After(g, i)
      <4>1. CASE i = k + 1 BY <4>1
      <4>2. CASE i # k + 1
        <5>1. i \in 1..k /\ f[i] = g[i] BY <4>2
        <5> QED BY <5>1, <2>1
      <4> QED BY <4>1, <4>2
    <3>2. i # 1 => i - 1 \in 1..k /\ i - 1 \in 1..(k + 1) /\ i - 1 # k + 1 OBVIOUS
    <3>3. i # 1 => f[i - 1] = g[i - 1] BY <3>2
    <3> HIDE DEF f
    <3> QED BY <3>1, <3>3
  <2> HIDE DEF f, After
  <2> QED BY <2>3, <2>4
<1>4. n \in T
  <2> HIDE DEF T
  <2> QED BY <1>1, <1>2, <1>3, NatInd
<1>5. PICK f \in [1..n -> Seq(S)] : \A i \in 1..n : f[i] = After(f, i)
  BY <1>1, <1>4
<1>6. E(f)
  <2> HIDE DEF After
  <2> QED BY <1>5
<1>7. E(iter)
  <2> HIDE DEF E
  <2> QED BY <1>6
<1>8. FlattenSeq(ss) = iter[n] BY <1>1 DEF FlattenSeq
<1>9. iter[1] = ss[1] /\ \A i \in 2..n : iter[i] = iter[i - 1] \o ss[i]
  <2> HIDE DEF iter
  <2>1. \A i \in 1..n : iter[i] = After(iter, i) BY <1>7
  <2>2. 1 \in 1..n /\ \A i \in 2..n : i \in 1..n /\ i # 1 BY <1>1
  <2> HIDE DEF n
  <2> QED BY <2>1, <2>2
<1>10. ASSUME NEW k \in Nat PROVE k + 1 <= n => iter[k + 1] \in Seq(S)
  <2> DEFINE U == {j \in Nat : j + 1 <= n => iter[j + 1] \in Seq(S)}
  <2> HIDE DEF iter
  <2>1. 0 \in U BY <1>1, <1>9
  <2>2. ASSUME NEW j \in Nat, j \in U PROVE j + 1 \in U
    <3> SUFFICES ASSUME j + 2 <= n PROVE iter[j + 2] \in Seq(S) OBVIOUS
    <3>1. iter[j + 1] \in Seq(S) /\ j + 2 \in 2..n /\ j + 2 \in 1..n /\ (j + 2) - 1 = j + 1
      BY <2>2, <1>1
    <3>2. iter[j + 2] = iter[j + 1] \o ss[j + 2] BY <3>1, <1>9
    <3> QED BY <3>1, <3>2, <1>1
  <2>3. k \in U
    <3> HIDE DEF U
    <3> QED BY <2>1, <2>2, NatInd
  <2> QED BY <2>3
<1>11. iter \in [1..n -> Seq(S)]
  <2> HIDE DEF iter
  <2>1. \A i \in 1..n : iter[i] \in Seq(S)
    <3> TAKE i \in 1..n
    <3>1. i - 1 \in Nat /\ (i - 1) + 1 = i /\ i <= n BY <1>1
    <3> HIDE DEF n
    <3> QED BY <3>1, <1>10
  <2> QED BY <1>7, <2>1
<1> HIDE DEF iter
<1> QED BY <1>8, <1>9, <1>11

(* The elements of two sequences together. *)
LEMMA ConcatElements ==
  ASSUME NEW S, NEW a \in Seq(S), NEW b \in Seq(S)
  PROVE  Range(a \o b) = Range(a) \cup Range(b)
<1>1. DOMAIN (a \o b) = 1..(Len(a) + Len(b)) /\ DOMAIN a = 1..Len(a) /\ DOMAIN b = 1..Len(b)
      /\ Len(a) \in Nat /\ Len(b) \in Nat
  OBVIOUS
<1>2. ASSUME NEW i \in DOMAIN a PROVE i \in DOMAIN (a \o b) /\ (a \o b)[i] = a[i]
  BY <1>1
<1>3. ASSUME NEW i \in DOMAIN b PROVE Len(a) + i \in DOMAIN (a \o b) /\ (a \o b)[Len(a) + i] = b[i]
  BY <1>1
<1>4. ASSUME NEW i \in DOMAIN (a \o b)
      PROVE  (a \o b)[i] \in Range(a) \cup Range(b)
  <2>1. CASE i \in DOMAIN a BY <1>2, <2>1 DEF Range
  <2>2. CASE i \notin DOMAIN a
    <3>1. i - Len(a) \in DOMAIN b /\ i = Len(a) + (i - Len(a)) BY <1>1, <2>2
    <3>2. (a \o b)[i] = b[i - Len(a)] BY <1>3, <3>1
    <3> QED BY <3>1, <3>2 DEF Range
  <2> QED BY <2>1, <2>2
<1>5. Range(a \o b) \subseteq Range(a) \cup Range(b) BY <1>4, Zenon DEF Range
<1>6. Range(a) \subseteq Range(a \o b) BY <1>2, Zenon DEF Range
<1>7. Range(b) \subseteq Range(a \o b) BY <1>3, Zenon DEF Range
<1> QED BY <1>5, <1>6, <1>7

(* What FlattenSeq puts together. *)
LEMMA FlattenElements ==
  ASSUME NEW S, NEW ss \in Seq(Seq(S))
  PROVE  /\ FlattenSeq(ss) \in Seq(S)
         /\ \A i \in DOMAIN ss : Range(ss[i]) \subseteq Range(FlattenSeq(ss))
<1>1. CASE ss = <<>> BY <1>1 DEF FlattenSeq
<1>2. CASE ss # <<>>
  <2>1. PICK f \in [1..Len(ss) -> Seq(S)] :
          /\ f[1] = ss[1] /\ f[Len(ss)] = FlattenSeq(ss)
          /\ \A i \in 2..Len(ss) : f[i] = f[i-1] \o ss[i]
    BY <1>2, FlattenFunction
  <2> DEFINE n == Len(ss)
  <2>2. n \in Nat /\ n > 0 /\ DOMAIN ss = 1..n /\ \A i \in 1..n : ss[i] \in Seq(S)
    BY <1>2
  <2>a. /\ f \in [1..n -> Seq(S)] /\ f[1] = ss[1] /\ f[n] = FlattenSeq(ss)
        /\ \A i \in 2..n : f[i] = f[i-1] \o ss[i]
    BY <2>1
  <2> HIDE DEF n
  <2>3. ASSUME NEW i \in 1..n PROVE Range(ss[i]) \subseteq Range(FlattenSeq(ss))
    <3> DEFINE U == {k \in Nat : i + k <= n => Range(ss[i]) \subseteq Range(f[i + k])}
    <3>0. ASSUME NEW k \in 2..n
          PROVE  /\ k - 1 \in 1..n
                 /\ Range(f[k]) = Range(f[k - 1]) \cup Range(ss[k])
      <4>1. k - 1 \in 1..n /\ k \in 1..n BY <2>2
      <4>2. f[k - 1] \in Seq(S) /\ ss[k] \in Seq(S) /\ f[k] = f[k - 1] \o ss[k]
        BY <4>1, <2>a, <2>2
      <4> QED BY <4>1, <4>2, ConcatElements
    <3>1. 0 \in U
      <4>1. CASE i = 1 BY <4>1, <2>a
      <4>2. CASE i # 1
        <5>1. i \in 2..n /\ i + 0 = i BY <4>2, <2>2
        <5> QED BY <5>1, <3>0
      <4> QED BY <4>1, <4>2
    <3>2. ASSUME NEW k \in Nat, k \in U PROVE k + 1 \in U
      <4> SUFFICES ASSUME i + (k + 1) <= n PROVE Range(ss[i]) \subseteq Range(f[i + (k + 1)])
        OBVIOUS
      <4>1. i + (k + 1) \in 2..n /\ (i + (k + 1)) - 1 = i + k /\ i + k <= n
        BY <2>2
      <4>2. Range(ss[i]) \subseteq Range(f[i + k]) BY <3>2, <4>1
      <4>3. Range(f[i + (k + 1)]) = Range(f[i + k]) \cup Range(ss[i + (k + 1)])
        BY <4>1, <3>0
      <4> QED BY <4>2, <4>3
    <3>3. n - i \in U
      <4>1. n - i \in Nat BY <2>2
      <4> HIDE DEF U
      <4> QED BY <3>1, <3>2, <4>1, NatInd
    <3>4. i + (n - i) = n BY <2>2
    <3> QED BY <3>3, <3>4, <2>a, <2>2
  <2>4. FlattenSeq(ss) \in Seq(S) BY <2>2, <2>a
  <2> QED BY <2>2, <2>3, <2>4
<1> QED BY <1>1, <1>2

(* The image of a finite set. *)
LEMMA FiniteImage ==
  ASSUME NEW S, IsFiniteSet(S), NEW F
  PROVE  IsFiniteSet({F[x] : x \in S})
<1> DEFINE f == [x \in S |-> F[x]]
           T == {F[x] : x \in S}
<1>1. f \in Surjection(S, T) BY DEF Surjection
<1> HIDE DEF f, T
<1> QED BY <1>1, FS_Surjection DEF T

(* A finite set as a sequence. *)
LEMMA SetToSeqElements ==
  ASSUME NEW S, IsFiniteSet(S)
  PROVE  SetToSeq(S) \in Seq(S) /\ Range(SetToSeq(S)) = S
<1> DEFINE n == Cardinality(S)
           Enum == {f \in [1..n -> S] : IsInjective(f)}
<1>1. n \in Nat /\ IsFiniteSet(1..n) /\ Cardinality(1..n) = n
  BY FS_CardinalityType, FS_Interval
<1>2. \E f \in [1..n -> S] : IsInjective(f)
  BY FS_CardinalityType DEF ExistsBijection, Bijection, Injection, IsInjective
<1>3. SetToSeq(S) \in [1..n -> S] /\ IsInjective(SetToSeq(S)) BY <1>2 DEF SetToSeq
<1>4. SetToSeq(S) \in Injection(1..n, S) BY <1>3 DEF Injection, IsInjective
<1>5. SetToSeq(S) \in Surjection(1..n, S) BY <1>1, <1>4, FS_Injection
<1> QED BY <1>1, <1>3, <1>5 DEF Surjection, Range

---------------------------------------
(* Series and heaps. *)

(* A series with one field replaced. *)
LEMMA WithStart ==
  ASSUME NEW r \in Metric, NEW k \in Int
  PROVE  LET p == [r EXCEPT !.start = k]
         IN /\ p \in Metric /\ p.start = k
            /\ p.step = r.step /\ p.stop = r.stop /\ p.n = r.n /\ p.arr = r.arr /\ p.full = r.full /\ p.tags = r.tags /\ p.hits = r.hits
  BY DEF Metric

LEMMA WithStep ==
  ASSUME NEW r \in Metric, NEW k \in Int
  PROVE  LET p == [r EXCEPT !.step = k]
         IN /\ p \in Metric /\ p.step = k
            /\ p.start = r.start /\ p.stop = r.stop /\ p.n = r.n /\ p.arr = r.arr /\ p.full = r.full /\ p.tags = r.tags /\ p.hits = r.hits
  BY DEF Metric

LEMMA WithStop ==
  ASSUME NEW r \in Metric, NEW k \in Int
  PROVE  LET p == [r EXCEPT !.stop = k]
         IN /\ p \in Metric /\ p.stop = k
            /\ p.start = r.start /\ p.step = r.step /\ p.n = r.n /\ p.arr = r.arr /\ p.full = r.full /\ p.tags = r.tags /\ p.hits = r.hits
  BY DEF Metric

LEMMA WithN ==
  ASSUME NEW r \in Metric, NEW k \in Int
  PROVE  LET p == [r EXCEPT !.n = k]
         IN /\ p \in Metric /\ p.n = k
            /\ p.start = r.start /\ p.step = r.step /\ p.stop = r.stop /\ p.arr = r.arr /\ p.full = r.full /\ p.tags = r.tags /\ p.hits = r.hits
  BY DEF Metric

LEMMA WithArr ==
  ASSUME NEW r \in Metric, NEW k \in Int
  PROVE  LET p == [r EXCEPT !.arr = k]
         IN /\ p \in Metric /\ p.arr = k
            /\ p.start = r.start /\ p.step = r.step /\ p.stop = r.stop /\ p.n = r.n /\ p.full = r.full /\ p.tags = r.tags /\ p.hits = r.hits
  BY DEF Metric

LEMMA WithFull ==
  ASSUME NEW r \in Metric, NEW k \in Int
  PROVE  LET p == [r EXCEPT !.full = k]
         IN /\ p \in Metric /\ p.full = k
            /\ p.start = r.start /\ p.step = r.step /\ p.stop = r.stop /\ p.n = r.n /\ p.arr = r.arr /\ p.tags = r.tags /\ p.hits = r.hits
  BY DEF Metric

LEMMA WithTags ==
  ASSUME NEW r \in Metric, NEW k \in Int
  PROVE  LET p == [r EXCEPT !.tags = k]
         IN /\ p \in Metric /\ p.tags = k
            /\ p.start = r.start /\ p.step = r.step /\ p.stop = r.stop /\ p.n = r.n /\ p.arr = r.arr /\ p.full = r.full /\ p.hits = r.hits
  BY DEF Metric

LEMMA NewValuesIs ==
  ASSUME NEW r \in Metric, NEW k \in Int
  PROVE  /\ NewValues(r, k) \in Metric
         /\ NewValues(r, k).arr = 0 /\ NewValues(r, k).n = k
         /\ NewValues(r, k).start = r.start /\ NewValues(r, k).step = r.step
         /\ NewValues(r, k).stop = r.stop /\ NewValues(r, k).tags = r.tags
<1> DEFINE a == [r EXCEPT !.arr = 0]
           b == [a EXCEPT !.full = 0]
<1>1. NewValues(r, k) = [b EXCEPT !.n = k] BY DEF NewValues
<1>2. a \in Metric /\ a.arr = 0 /\ Alike(a, r) /\ a.tags = r.tags
  BY WithArr DEF Alike
<1>3. b \in Metric /\ b.arr = 0 /\ Alike(b, a) /\ b.tags = a.tags
  <2> HIDE DEF a
  <2> QED BY <1>2, WithFull DEF Alike
<1> HIDE DEF b
<1> QED BY <1>1, <1>2, <1>3, WithN DEF Alike

LEMMA CopiesAre ==
  ASSUME NEW r \in Metric
  PROVE  /\ CopyLink(r) \in Metric /\ CopyLink(r).tags = 0 /\ CopyLink(r).arr = r.arr
         /\ Alike(CopyLink(r), r)
         /\ CopyName(r) = CopyLink(r) /\ CopyNameArg(r) = CopyLink(r) /\ CopyTags(r) = CopyLink(r)
         /\ CopyLinkTags(r) = r /\ CopyTag(r) = r
         /\ Copy(r) \in Metric /\ Copy(r).arr = 0 /\ Copy(r).tags = 0 /\ Alike(Copy(r), r)
<1>1. CopyLink(r) \in Metric /\ CopyLink(r).tags = 0 /\ Alike(CopyLink(r), r) /\ CopyLink(r).arr = r.arr
  BY WithTags DEF CopyLink, Alike
<1>2. /\ CopyName(r) = CopyLink(r) /\ CopyNameArg(r) = CopyLink(r) /\ CopyTags(r) = CopyLink(r)
      /\ CopyLinkTags(r) = r /\ CopyTag(r) = r
  BY DEF CopyLink, CopyName, CopyNameArg, CopyTags, CopyLinkTags, CopyTag
<1>3. Copy(r) \in Metric /\ Copy(r).arr = 0 /\ Copy(r).tags = 0 /\ Alike(Copy(r), r)
  <2> DEFINE a == [r EXCEPT !.arr = 0]
             b == [a EXCEPT !.full = 0]
  <2>1. Copy(r) = [b EXCEPT !.tags = 0] BY DEF Copy
  <2>2. a \in Metric /\ a.arr = 0 /\ Alike(a, r) BY WithArr DEF Alike
  <2>3. b \in Metric /\ b.arr = 0 /\ Alike(b, a)
    <3> HIDE DEF a
    <3> QED BY <2>2, WithFull DEF Alike
  <2> HIDE DEF b
  <2> QED BY <2>1, <2>2, <2>3, WithTags DEF Alike
<1> QED BY <1>1, <1>2, <1>3

(* Writing to an array or to tags of its own. *)
LEMMA WritesAre ==
  ASSUME NEW r \in Metric
  PROVE  /\ r.arr = 0 => Assign(r) = r
         /\ r.tags = 0 => SetTag(r) = r
         /\ Filled(r) = NewValues(r, r.n)
<1>1. NewValues(r, r.n).arr = 0 BY NewValuesIs DEF Metric
<1> QED BY <1>1 DEF Assign, SetTag, Hit, Filled

LEMMA FilledIs ==
  ASSUME NEW r \in Metric
  PROVE  /\ Filled(r) \in Metric /\ Filled(r).arr = 0 /\ Filled(r).tags = r.tags
         /\ Alike(Filled(r), r)
<1>1. r.n \in Int BY DEF Metric
<1> QED BY <1>1, WritesAre, NewValuesIs DEF Alike

LEMMA StopsAre ==
  ASSUME NEW r \in Metric
  PROVE  /\ RecalcStopTime(r) \in Metric /\ RecalcStopTime(r).stop = r.start + r.n * r.step
         /\ RecalcStopTime(r).start = r.start /\ RecalcStopTime(r).step = r.step
         /\ RecalcStopTime(r).n = r.n /\ RecalcStopTime(r).arr = r.arr /\ RecalcStopTime(r).tags = r.tags
         /\ FixStopTime(r) \in Metric
         /\ FixStopTime(r).stop \in Int /\ FixStopTime(r).stop >= r.stop
         /\ FixStopTime(r).stop >= r.start + r.n * r.step
         /\ FixStopTime(r).stop \in {r.stop, r.start + r.n * r.step}
         /\ FixStopTime(r).start = r.start /\ FixStopTime(r).step = r.step
         /\ FixStopTime(r).n = r.n /\ FixStopTime(r).arr = r.arr /\ FixStopTime(r).tags = r.tags
<1>1. r.start + r.n * r.step \in Int /\ r.stop \in Int BY DEF Metric
<1> DEFINE x == r.start + r.n * r.step
<1>2. Greater(r.stop, x) \in {r.stop, x} /\ Greater(r.stop, x) \in Int
      /\ Greater(r.stop, x) >= r.stop /\ Greater(r.stop, x) >= x
  BY <1>1 DEF Greater, x
<1> HIDE DEF x
<1>3. RecalcStopTime(r) = [r EXCEPT !.stop = x] /\ FixStopTime(r) = [r EXCEPT !.stop = Greater(r.stop, x)]
  BY DEF RecalcStopTime, FixStopTime, x
<1>4. x \in Int BY <1>1 DEF x
<1>5. ASSUME NEW y \in Int
      PROVE  /\ [r EXCEPT !.stop = y] \in Metric
             /\ [r EXCEPT !.stop = y].stop = y
             /\ [r EXCEPT !.stop = y].start = r.start /\ [r EXCEPT !.stop = y].step = r.step
             /\ [r EXCEPT !.stop = y].n = r.n /\ [r EXCEPT !.stop = y].arr = r.arr
             /\ [r EXCEPT !.stop = y].tags = r.tags
  BY DEF Metric
<1> QED BY <1>2, <1>3, <1>4, <1>5 DEF x

LEMMA PadsAre ==
  ASSUME NEW r \in Metric, NEW k \in Int
  PROVE  /\ PadFront(r, k) \in Metric /\ PadFront(r, k).n = r.n + k /\ PadFront(r, k).arr = 0
         /\ PadFront(r, k).start = r.start /\ PadFront(r, k).step = r.step
         /\ PadFront(r, k).stop = r.stop /\ PadFront(r, k).tags = r.tags
         /\ PadBack(r, k) \in Metric /\ PadBack(r, k).n = r.n + k /\ PadBack(r, k).arr = r.arr
         /\ PadBack(r, k).start = r.start /\ PadBack(r, k).step = r.step
         /\ PadBack(r, k).stop = r.stop /\ PadBack(r, k).tags = r.tags
<1>1. r.n + k \in Int /\ r.arr \in Int BY DEF Metric
<1>2. Hit(r, "tail", r.arr) \in Metric /\ Hit(r, "tail", r.arr).n = r.n /\ Alike(Hit(r, "tail", r.arr), r)
      /\ Hit(r, "tail", r.arr).arr = r.arr /\ Hit(r, "tail", r.arr).tags = r.tags
  BY <1>1 DEF Metric, Hit, Alike
<1>3. ASSUME NEW q \in Metric, Alike(q, r), q.arr = r.arr, q.tags = r.tags
      PROVE  LET p == [q EXCEPT !.n = r.n + k]
             IN p \in Metric /\ p.n = r.n + k /\ p.arr = r.arr /\ p.start = r.start
                /\ p.step = r.step /\ p.stop = r.stop /\ p.tags = r.tags
  BY <1>1, <1>3, WithN DEF Alike
<1> DEFINE q == IF k > 0 /\ r.n < r.full THEN Hit(r, "tail", r.arr) ELSE r
<1>4. q \in Metric /\ Alike(q, r) /\ q.arr = r.arr /\ q.tags = r.tags
  BY <1>2 DEF Alike
<1>5. PadBack(r, k) = [q EXCEPT !.n = q.n + k] BY DEF PadBack
<1>6. q.n = r.n BY <1>4 DEF Alike
<1>7. PadFront(r, k) = NewValues(r, r.n + k) BY DEF PadFront
<1> HIDE DEF q
<1>8. PadBack(r, k) = [q EXCEPT !.n = r.n + k] BY <1>5, <1>6
<1>9. /\ PadFront(r, k) \in Metric /\ PadFront(r, k).n = r.n + k /\ PadFront(r, k).arr = 0
      /\ PadFront(r, k).start = r.start /\ PadFront(r, k).step = r.step
      /\ PadFront(r, k).stop = r.stop /\ PadFront(r, k).tags = r.tags
  <2> DEFINE m == r.n + k
  <2>1. m \in Int /\ PadFront(r, k) = NewValues(r, m) BY <1>1, <1>7
  <2> HIDE DEF m
  <2>2. /\ PadFront(r, k) \in Metric /\ PadFront(r, k).n = m /\ PadFront(r, k).arr = 0
        /\ PadFront(r, k).start = r.start /\ PadFront(r, k).step = r.step
        /\ PadFront(r, k).stop = r.stop /\ PadFront(r, k).tags = r.tags
    BY <2>1, NewValuesIs
  <2> QED BY <2>2 DEF m
<1>10. /\ PadBack(r, k) \in Metric /\ PadBack(r, k).n = r.n + k /\ PadBack(r, k).arr = r.arr
       /\ PadBack(r, k).start = r.start /\ PadBack(r, k).step = r.step
       /\ PadBack(r, k).stop = r.stop /\ PadBack(r, k).tags = r.tags
  BY <1>3, <1>4, <1>8
<1> QED BY <1>9, <1>10

LEMMA FreshIs ==
  ASSUME NEW start \in Int, NEW step \in Int, NEW stop \in Int, NEW n \in Int
  PROVE  /\ Fresh(start, step, stop, n) \in Metric
         /\ Fresh(start, step, stop, n).start = start /\ Fresh(start, step, stop, n).step = step
         /\ Fresh(start, step, stop, n).stop = stop /\ Fresh(start, step, stop, n).n = n
  BY DEF Fresh, Metric

---------------------------------------

LEMMA ListIs ==
  ASSUME NEW h, NEW s, List(h, s)
  PROVE  /\ h \in Heaps /\ Len(h) \in Nat /\ DOMAIN h = 1..Len(h)
         /\ Len(s) \in Nat /\ DOMAIN s = 1..Len(s)
         /\ \A i \in DOMAIN s : s[i] \in 1..Len(h) /\ h[s[i]] \in Metric /\ h[s[i]].step > 0
  BY DEF List, Heaps

LEMMA GrownSame == ASSUME NEW h \in Heaps PROVE Grown(h, h)
  BY DEF Grown, Heaps

LEMMA GrownAppended ==
  ASSUME NEW h \in Heaps, NEW recs \in Seq(Metric)
  PROVE  /\ h \o recs \in Heaps /\ Len(h \o recs) = Len(h) + Len(recs)
         /\ Grown(h, h \o recs)
         /\ \A p \in 1..Len(h) : (h \o recs)[p] = h[p]
         /\ \A i \in DOMAIN recs : (h \o recs)[Len(h) + i] = recs[i]
<1>1. h \o recs \in Heaps /\ Len(h \o recs) = Len(h) + Len(recs) /\ Len(recs) \in Nat /\ Len(h) \in Nat
  BY DEF Heaps
<1>2. \A p \in 1..Len(h) : (h \o recs)[p] = h[p] BY DEF Heaps
<1>3. \A i \in DOMAIN recs : (h \o recs)[Len(h) + i] = recs[i] BY DEF Heaps
<1> QED BY <1>1, <1>2, <1>3 DEF Grown

LEMMA GrownTwice ==
  ASSUME NEW h, NEW g, NEW f, Grown(h, g), Grown(g, f)
  PROVE  Grown(h, f)
  BY DEF Grown, Heaps

(* A list is one of a grown heap too. *)
LEMMA ListGrown ==
  ASSUME NEW h, NEW g, NEW s, List(h, s), Grown(h, g)
  PROVE  List(g, s)
<1>1. Len(h) \in Nat /\ Len(g) \in Nat /\ Len(h) <= Len(g) BY DEF Grown, Heaps
<1>2. 1..Len(h) \subseteq 1..Len(g) BY <1>1
<1>3. s \in Seq(1..Len(g))
  <2>1. s \in Seq(1..Len(h)) /\ Len(s) \in Nat /\ DOMAIN s = 1..Len(s) BY DEF List
  <2>2. s \in [1..Len(s) -> 1..Len(g)] BY <1>2, <2>1
  <2> QED BY <2>1, <2>2
<1>4. ASSUME NEW i \in DOMAIN s PROVE g[s[i]].step > 0 BY DEF List, Grown
<1> QED BY <1>3, <1>4 DEF List, Grown

LEMMA OwnIs ==
  ASSUME NEW h \in Heaps, NEW s \in Seq(1..Len(h))
  PROVE  Own(s) \in Slices /\ Own(s).s = s /\ Own(s).key = 0 /\ Linked(Own(s))
<1>1. 1..Len(h) \subseteq Nat BY DEF Heaps
<1>2. s \in Seq(Nat) BY <1>1
<1> QED BY <1>2 DEF Own, Slices, Linked

LEMMA DoneIs ==
  ASSUME NEW h \in Heaps, NEW a \in Slices, a.s \in Seq(1..Len(h)), Linked(a)
  PROVE  /\ OutcomeOK(h, Done(h, a)) /\ Done(h, a).st = "ok" /\ Done(h, a).h = h /\ Done(h, a).out = a
         /\ (\A i \in DOMAIN a.s : Fits(h[a.s[i]])) => Served(Done(h, a))
<1>1. /\ Done(h, a).h = h /\ Done(h, a).out = a /\ Done(h, a).st = "ok"
      /\ Done(h, a) = [h |-> h, out |-> a, st |-> "ok", put |-> <<>>]
  BY DEF Done
<1> QED BY <1>1, GrownSame DEF OutcomeOK, Served

LEMMA OkIs ==
  ASSUME NEW h \in Heaps, NEW s \in Seq(1..Len(h))
  PROVE  /\ OutcomeOK(h, Ok(h, s)) /\ Ok(h, s).st = "ok" /\ Ok(h, s).h = h /\ Ok(h, s).out.s = s /\ Ok(h, s).out.key = 0
         /\ (\A i \in DOMAIN s : Fits(h[s[i]])) => Served(Ok(h, s))
  BY OwnIs, DoneIs DEF Ok

LEMMA EmptyIs ==
  ASSUME NEW h \in Heaps
  PROVE  OutcomeOK(h, Ok(h, <<>>)) /\ Served(Ok(h, <<>>)) /\ <<>> \in Seq(1..Len(h))
<1>1. <<>> \in Seq(1..Len(h)) /\ DOMAIN <<>> = {} OBVIOUS
<1> QED BY <1>1, OkIs

LEMMA FailuresAre ==
  ASSUME NEW h \in Heaps
  PROVE  /\ OutcomeOK(h, Err(h)) /\ Served(Err(h)) /\ Err(h).st = "error" /\ Err(h).h = h
         /\ OutcomeOK(h, Panic(h)) /\ OutcomeOK(h, Hang(h))
         /\ Panic(h).st = "panic" /\ Panic(h).h = h
         /\ Err(h).out.key = 0 /\ Panic(h).out.key = 0 /\ Hang(h).out.key = 0
<1>1. /\ Own(<<>>) \in Slices /\ Own(<<>>).s = <<>> /\ <<>> \in Seq(1..Len(h)) /\ Linked(Own(<<>>))
      /\ Own(<<>>).key = 0
  BY OwnIs, EmptyIs
<1>2. /\ Err(h) = [h |-> h, out |-> Own(<<>>), st |-> "error", put |-> <<>>]
      /\ Panic(h) = [h |-> h, out |-> Own(<<>>), st |-> "panic", put |-> <<>>]
      /\ Hang(h) = [h |-> h, out |-> Own(<<>>), st |-> "hang", put |-> <<>>]
  BY DEF Err, Panic, Hang
<1> HIDE DEF Err, Panic, Hang
<1> DEFINE x == Own(<<>>)
<1> HIDE DEF x
<1>3. ASSUME NEW r, NEW st \in {"error", "panic", "hang"}, r = [h |-> h, out |-> x, st |-> st, put |-> <<>>]
      PROVE  OutcomeOK(h, r) /\ r.st = st /\ r.h = h /\ r.out.key = 0
  BY <1>3, <1>1, GrownSame DEF OutcomeOK, x
<1>4. OutcomeOK(h, Err(h)) /\ Err(h).st = "error" /\ Err(h).h = h /\ Err(h).out.key = 0
  BY <1>2, <1>3 DEF x
<1>5. OutcomeOK(h, Panic(h)) /\ Panic(h).st = "panic" /\ Panic(h).h = h /\ Panic(h).out.key = 0
  BY <1>2, <1>3 DEF x
<1>6. OutcomeOK(h, Hang(h)) /\ Hang(h).out.key = 0 BY <1>2, <1>3 DEF x
<1> QED BY <1>4, <1>5, <1>6 DEF Served

(* New series at the end of the heap. *)
LEMMA NewIs ==
  ASSUME NEW h \in Heaps, NEW recs \in Seq(Metric)
  PROVE  /\ OutcomeOK(h, New(h, recs)) /\ New(h, recs).st = "ok" /\ New(h, recs).h = h \o recs
         /\ New(h, recs).out.s = [i \in DOMAIN recs |-> Len(h) + i] /\ New(h, recs).out.key = 0
         /\ (\A i \in DOMAIN recs : Fits(recs[i])) => Served(New(h, recs))
<1> DEFINE g == h \o recs
           s == [i \in DOMAIN recs |-> Len(h) + i]
<1>1. Grown(h, g) /\ Len(g) = Len(h) + Len(recs) /\ g \in Heaps
      /\ Len(h) \in Nat /\ Len(recs) \in Nat /\ DOMAIN recs = 1..Len(recs)
      /\ \A i \in DOMAIN recs : g[Len(h) + i] = recs[i]
  BY GrownAppended DEF Heaps
<1>2. s \in Seq(1..Len(g)) /\ DOMAIN s = DOMAIN recs BY <1>1
<1>3. New(h, recs) = Ok(g, s) BY DEF New
<1>4. ASSUME NEW i \in DOMAIN s PROVE g[s[i]] = recs[i] BY <1>1
<1> HIDE DEF g, s
<1>5. OutcomeOK(g, Ok(g, s)) /\ Ok(g, s).st = "ok" /\ Ok(g, s).h = g /\ Ok(g, s).out.s = s /\ Ok(g, s).out.key = 0
       /\ ((\A i \in DOMAIN s : Fits(g[s[i]])) => Served(Ok(g, s)))
  BY <1>1, <1>2, OkIs
<1>6. OutcomeOK(h, Ok(g, s)) BY <1>5, <1>1, GrownTwice DEF OutcomeOK
<1> QED BY <1>2, <1>3, <1>4, <1>5, <1>6 DEF g, s

---------------------------------------
(* Folds over a finite set, M the choice of the next element. *)
LEMMA SetsInd ==
  ASSUME NEW D, IsFiniteSet(D), NEW M, \A s \in SUBSET D : s # {} => M[s] \in s,
         NEW T, {} \in T, \A s \in SUBSET D : s # {} /\ s \ {M[s]} \in T => s \in T
  PROVE  SUBSET D \subseteq T
<1> DEFINE K == {k \in Nat : \A s \in SUBSET D : Cardinality(s) = k => s \in T}
<1>1. ASSUME NEW s \in SUBSET D PROVE IsFiniteSet(s) /\ Cardinality(s) \in Nat
  BY FS_Subset, FS_CardinalityType
<1>2. 0 \in K BY <1>1, FS_EmptySet
<1>3. ASSUME NEW k \in Nat, k \in K PROVE k + 1 \in K
  <2> SUFFICES ASSUME NEW s \in SUBSET D, Cardinality(s) = k + 1 PROVE s \in T
    OBVIOUS
  <2>1. s # {} BY FS_EmptySet
  <2>2. M[s] \in s /\ s \ {M[s]} \in SUBSET D BY <2>1
  <2>3. Cardinality(s \ {M[s]}) = Cardinality(s) - 1
    BY <1>1, <2>2, FS_RemoveElement
  <2>4. Cardinality(s \ {M[s]}) = k BY <2>3
  <2> QED BY <1>3, <2>1, <2>2, <2>4
<1>4. Nat \subseteq K BY <1>2, <1>3, NatInd
<1> QED BY <1>1, <1>4

(* What holds of the base and is kept by every step holds of the fold. *)
LEMMA FoldKeeps ==
  ASSUME NEW D, IsFiniteSet(D), NEW M, \A s \in SUBSET D : s # {} => M[s] \in s,
         NEW f, NEW Q, f[{}] \in Q[{}],
         \A s \in SUBSET D : s # {} /\ f[s \ {M[s]}] \in Q[s \ {M[s]}] => f[s] \in Q[s]
  PROVE  f[D] \in Q[D]
<1> DEFINE T == {s \in SUBSET D : f[s] \in Q[s]}
<1>1. {} \in T OBVIOUS
<1>2. ASSUME NEW s \in SUBSET D, s # {}, s \ {M[s]} \in T PROVE s \in T BY <1>2
<1>3. SUBSET D \subseteq T
  <2> HIDE DEF T
  <2> QED BY <1>1, <1>2, SetsInd, SMTT(30)
<1>4. D \in SUBSET D OBVIOUS
<1> QED BY <1>3, <1>4

LEMMA FoldOver ==
  ASSUME NEW D, IsFiniteSet(D), NEW P, NEW base \in P, NEW G \in [P \X D -> P],
         NEW M, \A s \in SUBSET D : s # {} => M[s] \in s
  PROVE  \E f \in [SUBSET D -> P] : Folds(f, D, base, G, M)
<1> DEFINE B(k) == {s \in SUBSET D : Cardinality(s) <= k}
           After(f, s) == IF s = {} THEN base ELSE G[<<f[s \ {M[s]}], M[s]>>]
           T == {k \in Nat : \E f \in [B(k) -> P] : \A s \in B(k) : f[s] = After(f, s)}
<1>a. ASSUME NEW s \in SUBSET D
      PROVE  IsFiniteSet(s) /\ Cardinality(s) \in Nat /\ Cardinality(s) <= Cardinality(D)
  BY FS_Subset, FS_CardinalityType
<1>b. ASSUME NEW s \in SUBSET D, s # {}
      PROVE  M[s] \in D /\ Cardinality(s \ {M[s]}) = Cardinality(s) - 1 /\ s \ {M[s]} \in SUBSET D
  BY <1>a, <1>b, FS_RemoveElement
<1>1. 0 \in T
  <2> DEFINE f == [s \in B(0) |-> base]
  <2>1. ASSUME NEW s \in B(0) PROVE s = {} BY <1>a, FS_EmptySet
  <2>2. f \in [B(0) -> P] /\ \A s \in B(0) : f[s] = After(f, s) BY <2>1
  <2> QED BY <2>2
<1>2. ASSUME NEW k \in Nat, k \in T PROVE k + 1 \in T
  <2>1. PICK g \in [B(k) -> P] : \A s \in B(k) : g[s] = After(g, s) BY <1>2
  <2> DEFINE f == [s \in B(k + 1) |-> IF s \in B(k) THEN g[s] ELSE After(g, s)]
  <2>2. ASSUME NEW s \in B(k + 1), s # {} PROVE s \ {M[s]} \in B(k) /\ M[s] \in D
    BY <1>a, <1>b, <2>2
  <2>3. ASSUME NEW s \in B(k + 1) PROVE After(g, s) \in P
    <3>1. CASE s = {} BY <3>1
    <3>2. CASE s # {}
      <4>1. g[s \ {M[s]}] \in P BY <2>2, <3>2
      <4> QED BY <2>2, <3>2, <4>1
    <3> QED BY <3>1, <3>2
  <2>4. f \in [B(k + 1) -> P] BY <2>3
  <2>5. ASSUME NEW s \in B(k + 1) PROVE f[s] = After(f, s)
    <3>1. f[s] = After(g, s) BY <2>1
    <3>2. CASE s = {} BY <3>1, <3>2
    <3>3. CASE s # {} BY <2>2, <3>3, <1>a, <3>1
    <3> QED BY <3>2, <3>3
  <2> HIDE DEF After, f, B
  <2> QED BY <2>4, <2>5
<1>3. Cardinality(D) \in T BY FS_CardinalityType, <1>1, <1>2, NatInd
<1>4. B(Cardinality(D)) = SUBSET D BY <1>a
<1>5. PICK f \in [SUBSET D -> P] : \A s \in SUBSET D : f[s] = After(f, s)
  BY <1>3, <1>4
<1>6. f = [s \in SUBSET D |-> After(f, s)] BY <1>5
<1> QED BY <1>5, <1>6 DEF Folds

---------------------------------------
(* Lists. *)

(* The greatest of the numbers up to n that are in s. *)
LEMMA Latest ==
  ASSUME NEW n \in Nat
  PROVE  /\ IsFiniteSet(1..n)
         /\ \A s \in SUBSET (1..n) : s # {} => Max(s) \in s /\ s = (s \ {Max(s)}) \cup {Max(s)}
<1>1. IsFiniteSet(1..n) BY FS_Interval
<1>2. ASSUME NEW s \in SUBSET (1..n), s # {} PROVE Max(s) \in s BY <1>2, MaxMin
<1> QED BY <1>1, <1>2

LEMMA TakenNext ==
  ASSUME NEW V, NEW s \in Seq(V), NEW S, NEW u \in SUBSET (1..Len(s)), NEW m \in u, \A i \in u : i <= m,
         NEW t \in Seq(V), Taken(s, S, u \ {m}, t)
  PROVE  LET q == IF s[m] \in S THEN Append(t, s[m]) ELSE t
         IN q \in Seq(V) /\ Taken(s, S, u, q)
<1> DEFINE v == u \ {m}
           x == s[m]
           q == IF x \in S THEN Append(t, x) ELSE t
           c == Cardinality(v)
           n == Len(s)
<1>1. n \in Nat /\ DOMAIN s = 1..n /\ u \in SUBSET (1..n) /\ m \in 1..n /\ x \in V /\ Len(t) \in Nat /\ DOMAIN t = 1..Len(t)
  OBVIOUS
<1>2. c \in Nat /\ Cardinality(u) = c + 1
  <2> HIDE DEF n
  <2>1. IsFiniteSet(1..n) BY <1>1, FS_Interval
  <2>2. IsFiniteSet(u) BY <1>1, <2>1, FS_Subset
  <2>3. IsFiniteSet(v) /\ Cardinality(v) = Cardinality(u) - 1
    BY <2>2, FS_RemoveElement
  <2>4. Cardinality(u) \in Nat /\ Cardinality(v) \in Nat
    BY <2>2, <2>3, FS_CardinalityType
  <2> QED BY <2>3, <2>4
<1>3. /\ ToSet(t) = {s[i] : i \in v} \cap S /\ Len(t) <= c
      /\ (\A i, j \in DOMAIN s : s[i] = s[j] => i = j) => \A i, j \in DOMAIN t : t[i] = t[j] => i = j
      /\ \A k \in v : 1..k \subseteq v /\ (\A j \in 1..k : s[j] \in S) => k <= Len(t) /\ \A j \in 1..k : t[j] = s[j]
  BY DEF Taken
<1>4. {s[i] : i \in u} = {s[i] : i \in v} \cup {x} OBVIOUS
<1> HIDE DEF v, x, c, n
<1>5. /\ Append(t, x) \in Seq(V) /\ Len(Append(t, x)) = Len(t) + 1 /\ DOMAIN Append(t, x) = 1..(Len(t) + 1)
      /\ Append(t, x)[Len(t) + 1] = x /\ \A i \in 1..Len(t) : Append(t, x)[i] = t[i]
  BY <1>1
<1>6. ToSet(Append(t, x)) = ToSet(t) \cup {x} BY <1>1, <1>5 DEF ToSet
<1>7. q \in Seq(V) /\ ToSet(q) = {s[i] : i \in u} \cap S /\ Len(q) <= Cardinality(u)
  <2>1. q \in Seq(V) /\ ToSet(q) = {s[i] : i \in u} \cap S
    BY <1>3, <1>4, <1>5, <1>6
  <2>2. Len(q) <= c + 1 BY <1>1, <1>2, <1>3, <1>5
  <2> QED BY <1>2, <2>1, <2>2
<1>8. ASSUME \A i, j \in DOMAIN s : s[i] = s[j] => i = j
      PROVE  \A i, j \in DOMAIN q : q[i] = q[j] => i = j
  <2>1. x \notin ToSet(t)
    <3> SUFFICES ASSUME NEW i \in v, x = s[i] PROVE FALSE BY <1>3
    <3>1. i \in DOMAIN s /\ m \in DOMAIN s /\ i # m BY <1>1 DEF v, n
    <3> QED BY <1>8, <3>1 DEF x
  <2>2. \A i \in 1..Len(t) : t[i] # x BY <1>1, <2>1 DEF ToSet
  <2> QED BY <1>1, <1>3, <1>5, <1>8, <2>2
<1>9. ASSUME NEW k \in u, 1..k \subseteq u, \A j \in 1..k : s[j] \in S
      PROVE  k <= Len(q) /\ \A j \in 1..k : q[j] = s[j]
  <2>1. k \in Nat /\ m \in Nat /\ k >= 1 BY <1>1 DEF n
  <2>2. CASE k # m
    <3>1. k < m BY <2>1, <2>2
    <3>3. k \in v /\ 1..k \subseteq v BY <1>9, <2>1, <3>1 DEF v
    <3>2. k <= Len(t) /\ \A j \in 1..k : t[j] = s[j] BY <1>3, <1>9, <3>3
    <3> QED BY <1>1, <1>5, <2>1, <3>2
  <2>3. CASE k = m
    <3>1. u = 1..m /\ v = 1..(m - 1)
      <4>1. u \subseteq 1..m BY <1>1, <2>1
      <4>2. u = 1..m BY <1>9, <2>3, <4>1
      <4> QED BY <2>1, <4>2 DEF v
    <3>2. c = m - 1 BY <2>1, <3>1, FS_Interval DEF c
    <3>3. Len(t) = m - 1 /\ \A j \in 1..(m - 1) : t[j] = s[j]
      <4>1. CASE m = 1 BY <1>1, <1>3, <3>2, <4>1
      <4>2. CASE m # 1
        <5> DEFINE l == m - 1
        <5>1. l \in v /\ 1..l \subseteq v /\ \A j \in 1..l : s[j] \in S
          BY <1>9, <2>1, <2>3, <3>1, <4>2
        <5> HIDE DEF l
        <5>2. l <= Len(t) /\ \A j \in 1..l : t[j] = s[j] BY <1>3, <5>1
        <5> QED BY <1>1, <1>3, <2>1, <3>2, <5>2 DEF l
      <4> QED BY <4>1, <4>2
    <3>4. x \in S BY <1>9, <2>1, <2>3 DEF x
    <3> QED BY <1>1, <1>5, <2>1, <2>3, <3>3, <3>4 DEF x
  <2> QED BY <2>2, <2>3
<1> QED BY <1>7, <1>8, <1>9 DEF Taken, x

(* The pointers of a list in S. *)
LEMMA OnlyIs ==
  ASSUME NEW V, NEW s \in Seq(V), NEW S
  PROVE  /\ Only(s, S) \in Seq(V) /\ ToSet(Only(s, S)) = ToSet(s) \cap S
         /\ Len(Only(s, S)) <= Len(s)
         /\ Taken(s, S, 1..Len(s), Only(s, S))
<1> DEFINE n == Len(s)
           P == Seq(V)
           base == <<>>
           Op(t, p) == IF p \in S THEN Append(t, p) ELSE t
           G == [p \in P \X (1..n) |-> Op(p[1], s[p[2]])]
           M == [u \in SUBSET (1..n) |-> Max(u)]
           E(f) == f = [u \in SUBSET DOMAIN s |->
                     IF u = {} THEN base ELSE Op(f[u \ {Max(u)}], s[Max(u)])]
           iter == CHOOSE f : E(f)
           Q == [u \in SUBSET (1..n) |-> {t \in P : Taken(s, S, u, t)}]
<1>1. n \in Nat /\ DOMAIN s = 1..n /\ base \in P /\ \A i \in 1..n : s[i] \in V
  OBVIOUS
<1>2. Only(s, S) = iter[1..n] BY <1>1 DEF Only, FoldLeft, MapThenFoldSet
<1>3. /\ IsFiniteSet(1..n)
      /\ \A u \in SUBSET (1..n) : u # {} => M[u] \in u /\ M[u] = Max(u) /\ u = (u \ {M[u]}) \cup {M[u]}
  BY <1>1, Latest
<1>4. \A t \in P, i \in 1..n : Op(t, s[i]) \in P BY <1>1
<1>5. Taken(s, S, {}, base) BY FS_EmptySet DEF ToSet, Taken
<1>6. ASSUME NEW u \in SUBSET (1..n), u # {}, NEW t \in P, Taken(s, S, u \ {Max(u)}, t)
      PROVE  Op(t, s[Max(u)]) \in P /\ Taken(s, S, u, Op(t, s[Max(u)]))
  BY <1>1, <1>6, MaxMin, TakenNext
<1> HIDE DEF P, Op, n, base
<1>7. G \in [P \X (1..n) -> P] BY <1>4
<1>8. E(iter)
  <2>1. PICK f \in [SUBSET (1..n) -> P] : Folds(f, 1..n, base, G, M)
    BY <1>1, <1>3, <1>7, FoldOver
  <2>2. E(f)
    <3> HIDE DEF M
    <3>1. \A u \in SUBSET (1..n) : u # {} => M[u] \in 1..n /\ M[u] = Max(u) /\ f[u \ {M[u]}] \in P
      BY <1>3
    <3> QED BY <1>1, <2>1, <3>1 DEF Folds
  <2> HIDE DEF E
  <2> QED BY <2>2
<1> HIDE DEF iter, M
<1>9. iter[{}] = base /\ \A u \in SUBSET (1..n) : u # {} => iter[u] = Op(iter[u \ {Max(u)}], s[Max(u)])
  BY <1>1, <1>8
<1>10. iter[{}] \in Q[{}] BY <1>1, <1>5, <1>9
<1>11. ASSUME NEW u \in SUBSET (1..n), u # {}, iter[u \ {M[u]}] \in Q[u \ {M[u]}]
       PROVE  iter[u] \in Q[u]
  <2>1. M[u] = Max(u) /\ u \ {M[u]} \in SUBSET (1..n) BY <1>3, <1>11
  <2>2. iter[u \ {Max(u)}] \in P /\ Taken(s, S, u \ {Max(u)}, iter[u \ {Max(u)}])
    BY <1>11, <2>1
  <2> QED BY <1>6, <1>9, <1>11, <2>2
<1>12. iter[1..n] \in Q[1..n] BY <1>3, <1>10, <1>11, FoldKeeps
<1>13. {s[i] : i \in 1..n} = ToSet(s) /\ Cardinality(1..n) = n
  BY <1>1, FS_Interval DEF ToSet
<1>14. Only(s, S) \in P /\ Taken(s, S, 1..n, Only(s, S)) BY <1>2, <1>12
<1>15. ToSet(Only(s, S)) = ToSet(s) \cap S /\ Len(Only(s, S)) <= n
  BY <1>13, <1>14 DEF Taken
<1> QED BY <1>14, <1>15 DEF n, P

(* The series of a list are its elements. *)
LEMMA SeqOver ==
  ASSUME NEW V, NEW s \in Seq(V)
  PROVE  /\ s \in Seq(ToSet(s)) /\ ToSet(s) \subseteq V
         /\ Len(s) \in Nat /\ DOMAIN s = 1..Len(s) /\ \A i \in DOMAIN s : s[i] \in ToSet(s)
<1>1. Len(s) \in Nat /\ DOMAIN s = 1..Len(s) /\ \A i \in DOMAIN s : s[i] \in ToSet(s)
  BY DEF ToSet
<1>2. s \in [1..Len(s) -> ToSet(s)] BY <1>1
<1>3. ToSet(s) \subseteq V BY DEF ToSet
<1> QED BY <1>1, <1>2, <1>3

LEMMA SeqWider ==
  ASSUME NEW V, NEW W, V \subseteq W, NEW s \in Seq(V)
  PROVE  s \in Seq(W)
<1>1. s \in [1..Len(s) -> W] /\ Len(s) \in Nat OBVIOUS
<1> QED BY <1>1

LEMMA OnlyPart ==
  ASSUME NEW V, NEW s \in Seq(V), NEW S
  PROVE  Only(s, S) \in Seq(ToSet(s))
  BY SeqOver, OnlyIs

LEMMA SubSeqsPart ==
  ASSUME NEW V, NEW s \in Seq(V), NEW t \in AllSubSeqs(s)
  PROVE  t \in Seq(ToSet(s))
<1> DEFINE P == Seq(ToSet(s))
           base == <<>>
           Op(x, u) == Append(u, x)
<1>1. Len(s) \in Nat /\ DOMAIN s = 1..Len(s) /\ base \in P /\ \A i \in DOMAIN s : s[i] \in ToSet(s)
  BY SeqOver
<1>2. PICK D \in SUBSET DOMAIN s : t = FoldFunction(Snoc, <<>>, [i \in D |-> s[i]])
  BY DEF AllSubSeqs
<1> DEFINE fun == [i \in D |-> s[i]]
           G == [p \in P \X D |-> Op(fun[p[2]], p[1])]
           M == [u \in SUBSET D |-> CHOOSE x \in u : TRUE]
           E(f) == f = [u \in SUBSET DOMAIN fun |->
                     IF u = {} THEN base ELSE Op(fun[CHOOSE x \in u : TRUE], f[u \ {CHOOSE x \in u : TRUE}])]
           iter == CHOOSE f : E(f)
           Q == [u \in SUBSET D |-> P]
<1>3. IsFiniteSet(D) /\ DOMAIN fun = D /\ \A u \in SUBSET D : u # {} => M[u] \in u /\ M[u] = (CHOOSE x \in u : TRUE)
  BY <1>1, Latest, FS_Subset
<1>4. G \in [P \X D -> P]
  <2>1. ASSUME NEW u \in P, NEW i \in D PROVE Op(fun[i], u) \in P BY <1>1, <1>2
  <2> HIDE DEF P, Op, fun
  <2> QED BY <2>1
<1>5. PICK f \in [SUBSET D -> P] : Folds(f, D, base, G, M)
  BY <1>1, <1>3, <1>4, FoldOver
<1>6. ASSUME NEW u \in SUBSET D, u # {} PROVE G[<<f[u \ {M[u]}], M[u]>>]
               = Op(fun[CHOOSE x \in u : TRUE], f[u \ {CHOOSE x \in u : TRUE}])
  <2>1. f[u \ {M[u]}] \in P /\ M[u] \in D /\ M[u] = (CHOOSE x \in u : TRUE)
    BY <1>3, <1>6
  <2> HIDE DEF M, P, Op, fun
  <2> QED BY <2>1
<1>7. E(f)
  <2> HIDE DEF G, M, base, Op, P, fun
  <2> QED BY <1>3, <1>5, <1>6, ZenonT(30) DEF Folds
<1>8. E(iter)
  <2> HIDE DEF E
  <2> QED BY <1>7
<1>9. t = iter[D]
  BY <1>2, <1>3 DEF FoldFunction, FoldFunctionOnSet, MapThenFoldSet, Snoc
<1>10. iter[{}] \in Q[{}] BY <1>8, <1>1
<1>11. ASSUME NEW u \in SUBSET D, u # {}, iter[u \ {M[u]}] \in Q[u \ {M[u]}]
       PROVE  iter[u] \in Q[u]
  <2>1. M[u] \in D /\ M[u] = (CHOOSE x \in u : TRUE) /\ u \ {M[u]} \in SUBSET D
    BY <1>3, <1>11
  <2>2. iter[u] = Op(fun[M[u]], iter[u \ {M[u]}]) BY <1>3, <1>8, <1>11, <2>1
  <2>3. fun[M[u]] \in ToSet(s) /\ iter[u \ {M[u]}] \in P
    BY <1>1, <1>2, <1>11, <2>1
  <2> HIDE DEF iter, M, fun
  <2> QED BY <2>2, <2>3
<1>12. iter[D] \in Q[D]
  <2> HIDE DEF iter, Q, M
  <2> QED BY <1>3, <1>10, <1>11, FoldKeeps
<1> HIDE DEF iter
<1> QED BY <1>9, <1>12

LEMMA OrdersPart ==
  ASSUME NEW V, NEW s \in Seq(V), NEW t \in Orders(s)
  PROVE  t \in Seq(ToSet(s)) /\ Len(t) = Len(s) /\ DOMAIN t = DOMAIN s
<1>1. Len(s) \in Nat /\ DOMAIN s = 1..Len(s) /\ \A i \in DOMAIN s : s[i] \in ToSet(s)
  BY SeqOver
<1>2. PICK f \in [DOMAIN s -> DOMAIN s] : t = [i \in DOMAIN s |-> s[f[i]]]
  BY DEF Orders
<1>3. t \in [1..Len(s) -> ToSet(s)] BY <1>1, <1>2
<1> QED BY <1>1, <1>3

LEMMA CutPart ==
  ASSUME NEW V, NEW s \in Seq(V), NEW m \in Nat, NEW k \in Int, 1 <= m, k <= Len(s)
  PROVE  SubSeq(s, m, k) \in Seq(V)
<1>1. Len(s) \in Nat /\ DOMAIN s = 1..Len(s) /\ \A i \in 1..Len(s) : s[i] \in V
  OBVIOUS
<1>2. SubSeq(s, m, k) = [i \in 1..(1 + k - m) |-> s[i + m - 1]] BY SMT
<1>3. CASE 1 + k - m <= 0 BY <1>2, <1>3
<1>4. CASE 1 + k - m > 0
  <2> DEFINE l == 1 + k - m
  <2>1. l \in Nat /\ \A i \in 1..l : i + m - 1 \in 1..Len(s) BY <1>1, <1>4
  <2>2. SubSeq(s, m, k) \in [1..l -> V] BY <1>1, <1>2, <2>1
  <2> HIDE DEF l
  <2> QED BY <2>1, <2>2
<1> QED BY <1>3, <1>4

LEMMA ConcatPart ==
  ASSUME NEW V, NEW s \in Seq(V), NEW t \in Seq(V)
  PROVE  /\ s \o t \in Seq(V) /\ Len(s \o t) = Len(s) + Len(t)
         /\ \A i \in 1..Len(s) : (s \o t)[i] = s[i]
         /\ \A i \in 1..Len(t) : (s \o t)[Len(s) + i] = t[i]
  OBVIOUS

LEMMA GroupingsPart ==
  ASSUME NEW V, NEW s \in Seq(V), NEW g \in Groupings(s)
  PROVE  g \in Seq(Seq(ToSet(s)))
<1>1. s \in Seq(ToSet(s)) BY SeqOver
<1>2. ASSUME NEW S PROVE Only(s, S) \in Seq(ToSet(s)) BY OnlyPart
<1> DEFINE W == Seq(ToSet(s))
<1>3. g = <<s>> \/ \E S : g = <<Only(s, S), Only(s, ToSet(s) \ S)>>
  BY DEF Groupings
<1>4. <<s>> \in Seq(W) /\ \A S : <<Only(s, S), Only(s, ToSet(s) \ S)>> \in Seq(W)
  BY <1>1, <1>2
<1> QED BY <1>3, <1>4

(* A list of series of a list. *)
LEMMA ListPart ==
  ASSUME NEW h, NEW s, List(h, s), NEW t \in Seq(ToSet(s))
  PROVE  List(h, t)
<1>1. s \in Seq(1..Len(h)) /\ ToSet(s) \subseteq 1..Len(h) BY SeqOver DEF List
<1>2. t \in Seq(1..Len(h)) BY <1>1, SeqWider
<1>3. ASSUME NEW i \in DOMAIN t PROVE h[t[i]].step > 0 BY DEF List, ToSet
<1> QED BY <1>2, <1>3 DEF List

LEMMA ListBoth ==
  ASSUME NEW h, NEW s, NEW t, List(h, s), List(h, t)
  PROVE  List(h, s \o t)
<1>1. s \in Seq(1..Len(h)) /\ t \in Seq(1..Len(h)) /\ Len(s) \in Nat /\ Len(t) \in Nat
      /\ DOMAIN s = 1..Len(s) /\ DOMAIN t = 1..Len(t)
  BY DEF List
<1>2. s \o t \in Seq(1..Len(h)) /\ DOMAIN (s \o t) = 1..(Len(s) + Len(t)) BY <1>1
<1>3. ASSUME NEW i \in DOMAIN (s \o t) PROVE h[(s \o t)[i]].step > 0
  <2>1. CASE i <= Len(s) BY <1>1, <1>2, <2>1 DEF List
  <2>2. CASE i > Len(s) BY <1>1, <1>2, <2>2 DEF List
  <2> QED BY <1>1, <1>2, <2>1, <2>2
<1> QED BY <1>2, <1>3 DEF List

---------------------------------------
(* Lists on one grid inside the request. *)

(* A last point before the stop. *)
LEMMA WholeFits ==
  ASSUME NEW r \in Metric, r.stop = r.start + r.n * r.step, r.step > 0
  PROVE  Fits(r)
<1>1. r.start \in Int /\ r.n \in Int /\ r.step \in Int BY DEF Metric
<1>2. (r.n - 1) * r.step = r.n * r.step - r.step BY <1>1
<1>3. r.n * r.step \in Int BY <1>1
<1> QED BY <1>1, <1>2, <1>3 DEF Fits

LEMMA AlikeFits ==
  ASSUME NEW r, NEW q, Alike(r, q), Fits(q)
  PROVE  Fits(r)
  BY DEF Alike, Fits

LEMMA RegularIs ==
  ASSUME NEW h, NEW s, List(h, s), Regular(h, s)
  PROVE  /\ s # <<>> /\ 1 \in DOMAIN s /\ Len(s) >= 1
         /\ \A i \in DOMAIN s : /\ h[s[i]] \in Metric /\ Whole(h[s[i]]) /\ Fits(h[s[i]])
                                /\ Alike(h[s[i]], h[s[1]]) /\ Len(s) <= h[s[i]].n
         /\ \A i, j \in DOMAIN s : Alike(h[s[i]], h[s[j]])
         /\ \A p \in ToSet(s) : p \in 1..Len(h) /\ h[p] \in Metric /\ Whole(h[p]) /\ Fits(h[p]) /\ Alike(h[p], h[s[1]])
<1>1. Len(s) \in Nat /\ DOMAIN s = 1..Len(s) /\ s # <<>>
      /\ \A i \in DOMAIN s : s[i] \in 1..Len(h) /\ h[s[i]] \in Metric /\ h[s[i]].step > 0
  BY ListIs DEF Regular
<1>2. 1 \in DOMAIN s /\ Len(s) >= 1 BY <1>1
<1>3. ASSUME NEW i \in DOMAIN s PROVE Alike(h[s[i]], h[s[1]])
  BY DEF Regular, OneGrid, Grid, Alike
<1> DEFINE r == h[s[1]]
<1>4. r.stop = r.start + r.n * r.step /\ From <= r.start /\ r.stop <= Until /\ Len(s) <= r.n
      /\ r.n \in Int
  BY <1>1, <1>2 DEF Regular, Metric
<1>5. r.n > 0 BY <1>1, <1>2, <1>4
<1> HIDE DEF r
<1>6. ASSUME NEW i \in DOMAIN s PROVE Whole(h[s[i]]) /\ Len(s) <= h[s[i]].n
  BY <1>3, <1>1, <1>4, <1>5 DEF Alike, r, Whole
<1>7. ASSUME NEW i \in DOMAIN s PROVE Fits(h[s[i]])
  BY <1>1, <1>6, WholeFits DEF Whole
<1>8. \A i, j \in DOMAIN s : Alike(h[s[i]], h[s[j]]) BY <1>3 DEF Alike
<1> QED BY <1>1, <1>2, <1>3, <1>6, <1>7, <1>8 DEF ToSet

LEMMA GivenIs ==
  ASSUME NEW h, NEW a, Given(h, a)
  PROVE  /\ h \in Heaps /\ List(h, a.s) /\ a.s \in Seq(ToSet(a.s)) /\ a.s \in Seq(1..Len(h))
         /\ Len(a.s) \in Nat /\ DOMAIN a.s = 1..Len(a.s) /\ a \in Slices
         /\ \A i \in DOMAIN a.s : a.s[i] \in ToSet(a.s)
  BY SeqOver DEF Given, List

LEMMA FailuresGood ==
  ASSUME NEW h \in Heaps, NEW s, NEW b
  PROVE  /\ Good(h, s, b, Err(h)) /\ Good(h, s, b, Ok(h, <<>>))
         /\ ~(Regular(h, s) /\ b) => Good(h, s, b, Panic(h)) /\ Good(h, s, b, Hang(h))
  BY FailuresAre, EmptyIs DEF Good

(* New series, each on the grid of one of the list. *)
LEMMA NewGood ==
  ASSUME NEW h, NEW t, List(h, t), NEW recs \in Seq(Metric),
         \A i \in DOMAIN recs : \E p \in ToSet(t) : Alike(recs[i], h[p]), NEW b
  PROVE  Good(h, t, b, New(h, recs))
<1>1. h \in Heaps BY DEF List
<1>2. ASSUME Regular(h, t), NEW i \in DOMAIN recs PROVE Fits(recs[i])
  <2>1. PICK p \in ToSet(t) : Alike(recs[i], h[p]) OBVIOUS
  <2>2. Fits(h[p]) BY <1>2, RegularIs
  <2> QED BY <2>1, <2>2, AlikeFits
<1> QED BY <1>1, <1>2, NewIs DEF Good

LEMMA NewFits ==
  ASSUME NEW h \in Heaps, NEW t, NEW recs \in Seq(Metric), NEW b,
         Regular(h, t) /\ b => \A i \in DOMAIN recs : Fits(recs[i])
  PROVE  Good(h, t, b, New(h, recs))
  BY NewIs DEF Good

(* One new series for each of some of the list. *)
LEMMA MapGood ==
  ASSUME NEW h, NEW t, List(h, t), NEW s \in Seq(ToSet(t)), NEW recs, DOMAIN recs = DOMAIN s,
         \A i \in DOMAIN s : recs[i] \in Metric /\ Alike(recs[i], h[s[i]]),
         recs = [i \in DOMAIN recs |-> recs[i]], NEW b
  PROVE  Good(h, t, b, New(h, recs))
<1>1. DOMAIN s = 1..Len(s) /\ Len(s) \in Nat /\ \A i \in DOMAIN s : s[i] \in ToSet(t)
  OBVIOUS
<1>2. recs \in [1..Len(s) -> Metric] BY <1>1
<1>3. recs \in Seq(Metric) BY <1>1, <1>2
<1> QED BY <1>1, <1>3, NewGood

(* The copies functions make of a series. *)
LEMMA ShapesAre ==
  ASSUME NEW r \in Metric
  PROVE  /\ Rewritten(r) \in Metric /\ Alike(Rewritten(r), r)
         /\ SetTag(Filled(CopyName(r))) \in Metric /\ Alike(SetTag(Filled(CopyName(r))), r)
         /\ Filled(r) \in Metric /\ Alike(Filled(r), r)
         /\ Filled(CopyLinkTags(r)) = Filled(r) /\ Filled(CopyTag(r)) = Filled(r)
         /\ CopyLinkTags(r) = r /\ Alike(r, r)
         /\ CopyName(r) \in Metric /\ Alike(CopyName(r), r)
         /\ CopyLink(r) \in Metric /\ Alike(CopyLink(r), r)
         /\ SetTag(CopyLink(r)) \in Metric /\ Alike(SetTag(CopyLink(r)), r)
         /\ Filled(CopyLink(r)) \in Metric /\ Alike(Filled(CopyLink(r)), r)
         /\ Filled(CopyName(r)) \in Metric /\ Alike(Filled(CopyName(r)), r)
         /\ SetTag(NewValues(CopyLink(r), r.n)) = Rewritten(r)
         /\ SetTag(NewValues(CopyTags(r), r.n)) = Rewritten(r)
<1> DEFINE c == CopyLink(r)
           f == Filled(c)
<1>1. c \in Metric /\ c.tags = 0 /\ Alike(c, r) /\ CopyName(r) = c /\ CopyLinkTags(r) = r /\ CopyTag(r) = r
      /\ CopyTags(r) = c
  BY CopiesAre
<1>2. f \in Metric /\ f.tags = 0 /\ Alike(f, c) BY <1>1, FilledIs
<1>3. SetTag(f) = f /\ SetTag(c) = c BY <1>1, <1>2, WritesAre
<1>4. Filled(r) \in Metric /\ Alike(Filled(r), r) BY FilledIs
<1>5. NewValues(c, r.n) = f BY <1>1, WritesAre DEF Alike
<1>6. Alike(f, r) /\ Alike(r, r) BY <1>1, <1>2 DEF Alike
<1>7. Rewritten(r) = SetTag(f) BY DEF Rewritten
<1> QED BY <1>1, <1>2, <1>3, <1>4, <1>5, <1>6, <1>7 DEF f

LEMMA MapsGood ==
  ASSUME NEW h, NEW t, List(h, t), NEW s \in Seq(ToSet(t)), NEW b
  PROVE  /\ Good(h, t, b, New(h, [i \in DOMAIN s |-> Rewritten(h[s[i]])]))
         /\ Good(h, t, b, New(h, [i \in DOMAIN s |-> SetTag(Filled(CopyName(h[s[i]])))]))
         /\ Good(h, t, b, New(h, [i \in DOMAIN s |-> Filled(CopyLinkTags(h[s[i]]))]))
         /\ Good(h, t, b, New(h, [i \in DOMAIN s |-> Filled(CopyTag(h[s[i]]))]))
         /\ Good(h, t, b, New(h, [i \in DOMAIN s |-> Filled(CopyLink(h[s[i]]))]))
         /\ Good(h, t, b, New(h, [i \in DOMAIN s |-> CopyLinkTags(h[s[i]])]))
         /\ Good(h, t, b, New(h, [i \in DOMAIN s |-> CopyName(h[s[i]])]))
         /\ Good(h, t, b, New(h, [i \in DOMAIN s |-> CopyLink(h[s[i]])]))
         /\ Good(h, t, b, New(h, [i \in DOMAIN s |-> SetTag(CopyLink(h[s[i]]))]))
         /\ Good(h, t, b, New(h, [i \in DOMAIN s |-> SetTag(NewValues(CopyTags(h[s[i]]), h[s[i]].n))]))
         /\ Good(h, t, b, New(h, [i \in DOMAIN s |-> SetTag(NewValues(CopyLink(h[s[i]]), h[s[i]].n))]))
         /\ Good(h, t, b, New(h, [i \in DOMAIN s |-> Filled(CopyName(CopyLinkTags(h[s[i]])))]))
<1>1. ASSUME NEW i \in DOMAIN s PROVE h[s[i]] \in Metric BY ListPart, ListIs
<1> DEFINE M(recs) == Good(h, t, b, New(h, recs))
<1>2. ASSUME NEW recs, DOMAIN recs = DOMAIN s, recs = [i \in DOMAIN recs |-> recs[i]],
             \A i \in DOMAIN s : recs[i] \in Metric /\ Alike(recs[i], h[s[i]])
      PROVE  M(recs)
  BY <1>2, MapGood
<1> HIDE DEF M
<1>3. M([i \in DOMAIN s |-> Rewritten(h[s[i]])]) BY <1>1, <1>2, ShapesAre
<1>4. M([i \in DOMAIN s |-> SetTag(Filled(CopyName(h[s[i]])))])
  BY <1>1, <1>2, ShapesAre
<1>5. M([i \in DOMAIN s |-> Filled(CopyLinkTags(h[s[i]]))])
  BY <1>1, <1>2, ShapesAre
<1>6. M([i \in DOMAIN s |-> Filled(CopyTag(h[s[i]]))]) BY <1>1, <1>2, ShapesAre
<1>7. M([i \in DOMAIN s |-> Filled(CopyLink(h[s[i]]))]) BY <1>1, <1>2, ShapesAre
<1>8. M([i \in DOMAIN s |-> CopyLinkTags(h[s[i]])]) BY <1>1, <1>2, ShapesAre
<1>9. M([i \in DOMAIN s |-> CopyName(h[s[i]])]) BY <1>1, <1>2, ShapesAre
<1>10. M([i \in DOMAIN s |-> CopyLink(h[s[i]])]) BY <1>1, <1>2, ShapesAre
<1>11. M([i \in DOMAIN s |-> SetTag(CopyLink(h[s[i]]))]) BY <1>1, <1>2, ShapesAre
<1>12. M([i \in DOMAIN s |-> SetTag(NewValues(CopyTags(h[s[i]]), h[s[i]].n))])
  BY <1>1, <1>2, ShapesAre
<1>13. M([i \in DOMAIN s |-> SetTag(NewValues(CopyLink(h[s[i]]), h[s[i]].n))])
  BY <1>1, <1>2, ShapesAre
<1>14. M([i \in DOMAIN s |-> Filled(CopyName(CopyLinkTags(h[s[i]])))])
  BY <1>1, ShapesAre, <1>2
<1> QED
  BY <1>3, <1>4, <1>5, <1>6, <1>7, <1>8, <1>9, <1>10, <1>11, <1>12, <1>13, <1>14
     DEF M

---------------------------------------
(* FnMap: one series of each. *)

(* ForEachSeriesDo: new values of a renamed copy. *)
LEMMA RenamedGood ==
  ASSUME NEW h, NEW a, Given(h, a)
  PROVE  /\ AllGood(h, a.s, TRUE, absolute(h, a))
         /\ AllGood(h, a.s, TRUE, derivative(h, a))
         /\ AllGood(h, a.s, TRUE, integral(h, a))
         /\ AllGood(h, a.s, TRUE, invert(h, a))
         /\ AllGood(h, a.s, TRUE, isNotNull(h, a))
         /\ AllGood(h, a.s, TRUE, offsetToZero(h, a))
<1>1. List(h, a.s) /\ a.s \in Seq(ToSet(a.s)) BY GivenIs
<1>2. AllGood(h, a.s, TRUE, absolute(h, a))
  BY <1>1, MapsGood DEF AllGood, absolute, ForEachSeriesDo, ForEachSeriesDo1
<1>3. AllGood(h, a.s, TRUE, derivative(h, a))
  BY <1>1, MapsGood DEF AllGood, derivative, ForEachSeriesDo, ForEachSeriesDo1
<1>4. AllGood(h, a.s, TRUE, integral(h, a))
  BY <1>1, MapsGood DEF AllGood, integral, ForEachSeriesDo, ForEachSeriesDo1
<1>5. AllGood(h, a.s, TRUE, invert(h, a))
  BY <1>1, MapsGood DEF AllGood, invert, ForEachSeriesDo, ForEachSeriesDo1
<1>6. AllGood(h, a.s, TRUE, isNotNull(h, a))
  BY <1>1, MapsGood DEF AllGood, isNotNull, ForEachSeriesDo, ForEachSeriesDo1
<1>7. AllGood(h, a.s, TRUE, offsetToZero(h, a))
  BY <1>1, MapsGood DEF AllGood, offsetToZero, ForEachSeriesDo, ForEachSeriesDo1
<1> QED BY <1>2, <1>3, <1>4, <1>5, <1>6, <1>7

(* New values and one tag of a copy. *)
LEMMA RewrittenGood ==
  ASSUME NEW h, NEW a, Given(h, a)
  PROVE  /\ AllGood(h, a.s, TRUE, exp(h, a))
         /\ AllGood(h, a.s, TRUE, logarithm(h, a))
         /\ AllGood(h, a.s, TRUE, logit(h, a))
         /\ AllGood(h, a.s, TRUE, nPercentile(h, a))
         /\ AllGood(h, a.s, TRUE, offset(h, a))
         /\ AllGood(h, a.s, TRUE, pow(h, a))
         /\ AllGood(h, a.s, TRUE, removeBelowSeries(h, a))
         /\ AllGood(h, a.s, TRUE, round(h, a))
         /\ AllGood(h, a.s, TRUE, scale(h, a))
         /\ AllGood(h, a.s, TRUE, scaleToSeconds(h, a))
         /\ AllGood(h, a.s, TRUE, sigmoid(h, a))
         /\ AllGood(h, a.s, TRUE, squareRoot(h, a))
         /\ AllGood(h, a.s, TRUE, timeSlice(h, a))
<1>1. List(h, a.s) /\ a.s \in Seq(ToSet(a.s)) BY GivenIs
<1>2. AllGood(h, a.s, TRUE, exp(h, a))
  BY <1>1, MapsGood DEF AllGood, exp, ForEachSeriesDo1
<1>3. AllGood(h, a.s, TRUE, logarithm(h, a))
  BY <1>1, MapsGood DEF AllGood, logarithm, ForEachSeriesDo1
<1>4. AllGood(h, a.s, TRUE, logit(h, a))
  BY <1>1, MapsGood DEF AllGood, logit, ForEachSeriesDo1
<1>5. AllGood(h, a.s, TRUE, nPercentile(h, a))
  BY <1>1, MapsGood DEF AllGood, nPercentile, ForEachSeriesDo1
<1>6. AllGood(h, a.s, TRUE, offset(h, a))
  BY <1>1, MapsGood DEF AllGood, offset, ForEachSeriesDo1
<1>7. AllGood(h, a.s, TRUE, pow(h, a))
  BY <1>1, MapsGood DEF AllGood, pow, ForEachSeriesDo1
<1>8. AllGood(h, a.s, TRUE, removeBelowSeries(h, a))
  BY <1>1, MapsGood DEF AllGood, removeBelowSeries, ForEachSeriesDo1
<1>9. AllGood(h, a.s, TRUE, round(h, a))
  BY <1>1, MapsGood DEF AllGood, round, ForEachSeriesDo1
<1>10. AllGood(h, a.s, TRUE, scale(h, a))
  BY <1>1, MapsGood DEF AllGood, scale, ForEachSeriesDo1
<1>11. AllGood(h, a.s, TRUE, scaleToSeconds(h, a))
  BY <1>1, MapsGood DEF AllGood, scaleToSeconds, ForEachSeriesDo1
<1>12. AllGood(h, a.s, TRUE, sigmoid(h, a))
  BY <1>1, MapsGood DEF AllGood, sigmoid, ForEachSeriesDo1
<1>13. AllGood(h, a.s, TRUE, squareRoot(h, a))
  BY <1>1, MapsGood DEF AllGood, squareRoot, ForEachSeriesDo1
<1>14. AllGood(h, a.s, TRUE, timeSlice(h, a))
  BY <1>1, MapsGood DEF AllGood, timeSlice, ForEachSeriesDo1
<1> QED
  BY <1>2, <1>3, <1>4, <1>5, <1>6, <1>7, <1>8, <1>9, <1>10, <1>11, <1>12, <1>13,
     <1>14

(* New values under the tags of the source. *)
LEMMA FilledGood ==
  ASSUME NEW h, NEW a, Given(h, a)
  PROVE  /\ AllGood(h, a.s, TRUE, interpolate(h, a))
         /\ AllGood(h, a.s, TRUE, keepLastValue(h, a))
         /\ AllGood(h, a.s, TRUE, lowPass(h, a))
         /\ AllGood(h, a.s, TRUE, minMax(h, a))
         /\ AllGood(h, a.s, TRUE, changed(h, a))
         /\ AllGood(h, a.s, TRUE, ewma(h, a))
<1>1. List(h, a.s) /\ a.s \in Seq(ToSet(a.s)) BY GivenIs
<1>2. AllGood(h, a.s, TRUE, interpolate(h, a))
  BY <1>1, MapsGood DEF AllGood, interpolate, ForEachSeriesDo1
<1>3. AllGood(h, a.s, TRUE, keepLastValue(h, a))
  BY <1>1, MapsGood DEF AllGood, keepLastValue, ForEachSeriesDo1
<1>4. AllGood(h, a.s, TRUE, lowPass(h, a))
  BY <1>1, MapsGood DEF AllGood, lowPass, ForEachSeriesDo1
<1>5. AllGood(h, a.s, TRUE, minMax(h, a))
  BY <1>1, MapsGood DEF AllGood, minMax, ForEachSeriesDo1
<1>6. AllGood(h, a.s, TRUE, changed(h, a))
  BY <1>1, MapsGood DEF AllGood, changed, ForEachSeriesDo1
<1>7. AllGood(h, a.s, TRUE, ewma(h, a))
  BY <1>1, MapsGood DEF AllGood, ewma, ForEachSeriesDo1
<1> QED BY <1>2, <1>3, <1>4, <1>5, <1>6, <1>7

(* New names. *)
LEMMA AliasGood ==
  ASSUME NEW h, NEW a, Given(h, a)
  PROVE  /\ AllGood(h, a.s, TRUE, alias(h, a))
         /\ AllGood(h, a.s, TRUE, aliasByMetric(h, a))
         /\ AllGood(h, a.s, TRUE, aliasByNode(h, a))
         /\ AllGood(h, a.s, TRUE, aliasSub(h, a))
         /\ AllGood(h, a.s, TRUE, cactiStyle(h, a))
<1>1. List(h, a.s) /\ a.s \in Seq(ToSet(a.s)) BY GivenIs
<1>2. AllGood(h, a.s, TRUE, alias(h, a))
  BY <1>1, MapsGood DEF AllGood, alias, ForEachSeriesDo1
<1>3. AllGood(h, a.s, TRUE, aliasByMetric(h, a))
  BY <1>1, MapsGood DEF AllGood, aliasByMetric, ForEachSeriesDo1
<1>4. AllGood(h, a.s, TRUE, aliasByNode(h, a))
  BY <1>1, MapsGood DEF AllGood, aliasByNode, ForEachSeriesDo1
<1>5. AllGood(h, a.s, TRUE, aliasSub(h, a))
  BY <1>1, MapsGood DEF AllGood, aliasSub, ForEachSeriesDo1
<1>6. AllGood(h, a.s, TRUE, cactiStyle(h, a))
  BY <1>1, MapsGood DEF AllGood, cactiStyle, ForEachSeriesDo1
<1> QED BY <1>2, <1>3, <1>4, <1>5, <1>6

(* New tags. *)
LEMMA TaggedGood ==
  ASSUME NEW h, NEW a, Given(h, a)
  PROVE  /\ AllGood(h, a.s, TRUE, consolidateBy(h, a))
         /\ AllGood(h, a.s, TRUE, cumulative(h, a))
         /\ AllGood(h, a.s, TRUE, setXFilesFactor(h, a))
         /\ AllGood(h, a.s, TRUE, legendValue(h, a))
<1>1. List(h, a.s) /\ a.s \in Seq(ToSet(a.s)) BY GivenIs
<1>2. AllGood(h, a.s, TRUE, consolidateBy(h, a))
  BY <1>1, MapsGood DEF AllGood, consolidateBy, ForEachSeriesDo1
<1>3. AllGood(h, a.s, TRUE, cumulative(h, a))
  BY <1>1, MapsGood DEF AllGood, cumulative, ForEachSeriesDo1
<1>4. AllGood(h, a.s, TRUE, setXFilesFactor(h, a))
  BY <1>1, MapsGood DEF AllGood, setXFilesFactor, ForEachSeriesDo1
<1>5. AllGood(h, a.s, TRUE, legendValue(h, a))
  BY <1>1, MapsGood DEF AllGood, legendValue, ForEachSeriesDo1
<1> QED BY <1>2, <1>3, <1>4, <1>5

LEMMA RefusedGood ==
  ASSUME NEW h, NEW a, Given(h, a)
  PROVE  /\ AllGood(h, a.s, TRUE, perSecond(h, a))
         /\ AllGood(h, a.s, TRUE, nonNegativeDerivative(h, a))
         /\ AllGood(h, a.s, TRUE, substr(h, a))
         /\ AllGood(h, a.s, TRUE, aliasByRedis(h, a, TRUE))
         /\ AllGood(h, a.s, FALSE, aliasByRedis(h, a, FALSE))
<1>1. List(h, a.s) /\ a.s \in Seq(ToSet(a.s)) /\ h \in Heaps BY GivenIs
<1>2. ASSUME NEW b PROVE Good(h, a.s, b, Err(h)) BY <1>1, FailuresGood
<1>3. AllGood(h, a.s, TRUE, perSecond(h, a))
  BY <1>1, <1>2, MapsGood DEF AllGood, perSecond, ForEachSeriesDo1
<1>4. AllGood(h, a.s, TRUE, nonNegativeDerivative(h, a))
  BY <1>1, <1>2, MapsGood DEF AllGood, nonNegativeDerivative, ForEachSeriesDo1
<1>5. AllGood(h, a.s, TRUE, substr(h, a))
  BY <1>1, <1>2, MapsGood DEF AllGood, substr, ForEachSeriesDo1
<1>6. AllGood(h, a.s, TRUE, aliasByRedis(h, a, TRUE))
  BY <1>1, <1>2, MapsGood DEF AllGood, aliasByRedis, ForEachSeriesDo1
<1>7. AllGood(h, a.s, FALSE, aliasByRedis(h, a, FALSE))
  BY <1>1, <1>2, MapsGood DEF AllGood, aliasByRedis, ForEachSeriesDo1
<1> QED BY <1>3, <1>4, <1>5, <1>6, <1>7

(* A window or bucket that is refused. *)
LEMMA WindowGood ==
  ASSUME NEW h, NEW a, Given(h, a), NEW p \in Int
  PROVE  /\ AllGood(h, a.s, CountedIn(h, a.s, p), stdev(h, a, p))
         /\ AllGood(h, a.s, CountedIn(h, a.s, p), integralByInterval(h, a, p))
         /\ AllGood(h, a.s, CountedIn(h, a.s, p), delay(h, a, p))
<1> DEFINE b == CountedIn(h, a.s, p)
<1>1. List(h, a.s) /\ a.s \in Seq(ToSet(a.s)) /\ h \in Heaps /\ Len(a.s) \in Nat
  BY GivenIs
<1>2. b => p > 0 BY <1>1 DEF CountedIn
<1>3. p <= 0 => Good(h, a.s, b, Panic(h)) BY <1>1, <1>2, FailuresGood
<1> HIDE DEF b
<1>4. Good(h, a.s, b, New(h, [i \in DOMAIN a.s |-> Rewritten(h[a.s[i]])]))
  BY <1>1, MapsGood
<1>5. AllGood(h, a.s, b, stdev(h, a, p))
  BY <1>3, <1>4 DEF AllGood, stdev, ForEachSeriesDo1
<1>6. AllGood(h, a.s, b, integralByInterval(h, a, p))
  BY <1>3, <1>4 DEF AllGood, integralByInterval, ForEachSeriesDo1
<1>7. AllGood(h, a.s, b, delay(h, a, p))
  <2>1. CASE p = 0 BY <2>1, <1>1, MapsGood DEF delay, ForEachSeriesDo1, AllGood
  <2>2. CASE p # 0 BY <2>2, <1>1, MapsGood DEF delay, ForEachSeriesDo1, AllGood
  <2> QED BY <2>1, <2>2
<1> QED BY <1>5, <1>6, <1>7 DEF b

(* One new series. *)
LEMMA OneGood ==
  ASSUME NEW h \in Heaps, NEW t, NEW b, NEW r \in Metric, Regular(h, t) /\ b => Fits(r)
  PROVE  Good(h, t, b, New(h, <<r>>))
<1>1. <<r>> \in Seq(Metric) /\ DOMAIN <<r>> = {1} /\ <<r>>[1] = r OBVIOUS
<1> QED BY <1>1, NewFits

(* A list of two points over the request. *)
LEMMA LineIs ==
  /\ From \in Int /\ Until \in Int /\ Minute \in Int /\ Until - From > 0 /\ Minute > 0
  /\ Fresh(From, Until - From, From + 2 * (Until - From), 2) \in Metric
  /\ Fits(Fresh(From, Until - From, From + 2 * (Until - From), 2))
<1>1. From \in Int /\ Until \in Int /\ Minute \in Int /\ Until - From > 0 /\ Minute > 0
  BY IntervalAssumption
<1> DEFINE d == Until - From
           e == From + 2 * (Until - From)
           r == Fresh(From, d, e, 2)
<1>2. d \in Int /\ e \in Int /\ d > 0 /\ e = From + 2 * d BY <1>1
<1> HIDE DEF d, e
<1>3. r \in Metric /\ r.start = From /\ r.step = d /\ r.stop = e /\ r.n = 2
  BY <1>1, <1>2, FreshIs
<1>4. Fits(r) BY <1>1, <1>2, <1>3 DEF Fits
<1> QED BY <1>1, <1>3, <1>4 DEF d, e

LEMMA TransformNullGood ==
  ASSUME NEW h, NEW a, Given(h, a)
  PROVE  AllGood(h, a.s, TRUE, transformNull(h, a))
<1> DEFINE line == Fresh(From, Until - From, From + 2 * (Until - From), 2)
<1>1. List(h, a.s) /\ a.s \in Seq(ToSet(a.s)) /\ h \in Heaps BY GivenIs
<1>2. line \in Metric /\ Fits(line) BY LineIs
<1> HIDE DEF line
<1>3. Good(h, a.s, TRUE, New(h, <<line>>)) BY <1>1, <1>2, OneGood
<1>4. Good(h, a.s, TRUE, New(h, [i \in DOMAIN a.s |-> Rewritten(h[a.s[i]])]))
  BY <1>1, MapsGood
<1> QED BY <1>3, <1>4 DEF AllGood, transformNull, ForEachSeriesDo1, line

---------------------------------------
(* Two lists. *)
LEMMA BothGiven ==
  ASSUME NEW h, NEW a, NEW b, Given(h, a), Given(h, b)
  PROVE  /\ h \in Heaps /\ List(h, a.s \o b.s) /\ List(h, a.s) /\ List(h, b.s)
         /\ ToSet(a.s \o b.s) = ToSet(a.s) \cup ToSet(b.s)
         /\ a.s \in Seq(ToSet(a.s \o b.s)) /\ b.s \in Seq(ToSet(a.s \o b.s))
         /\ a.s \in Seq(1..Len(h)) /\ b.s \in Seq(1..Len(h))
         /\ Len(a.s) \in Nat /\ DOMAIN a.s = 1..Len(a.s) /\ Len(b.s) \in Nat /\ DOMAIN b.s = 1..Len(b.s)
         /\ a.s # <<>> => (a.s \o b.s)[1] = a.s[1]
         /\ Len(a.s \o b.s) = Len(a.s) + Len(b.s)
<1>1. List(h, a.s) /\ a.s \in Seq(ToSet(a.s)) /\ h \in Heaps /\ a.s \in Seq(1..Len(h))
      /\ Len(a.s) \in Nat /\ DOMAIN a.s = 1..Len(a.s)
  BY GivenIs
<1>2. List(h, b.s) /\ b.s \in Seq(ToSet(b.s)) /\ b.s \in Seq(1..Len(h))
      /\ Len(b.s) \in Nat /\ DOMAIN b.s = 1..Len(b.s)
  BY GivenIs
<1>3. List(h, a.s \o b.s) BY <1>1, <1>2, ListBoth
<1>4. Range(a.s \o b.s) = Range(a.s) \cup Range(b.s) BY <1>1, <1>2, ConcatElements
<1>5. ToSet(a.s \o b.s) = ToSet(a.s) \cup ToSet(b.s) BY <1>4 DEF Range, ToSet
<1>6. a.s \in Seq(ToSet(a.s \o b.s)) /\ b.s \in Seq(ToSet(a.s \o b.s))
  BY <1>1, <1>2, <1>5, SeqWider
<1>7. a.s # <<>> => (a.s \o b.s)[1] = a.s[1]
  <2>1. a.s # <<>> => 1 \in 1..Len(a.s) BY <1>1
  <2>2. \A i \in 1..Len(a.s) : (a.s \o b.s)[i] = a.s[i]
    <3> DEFINE V == 1..Len(h)
    <3>1. a.s \in Seq(V) /\ b.s \in Seq(V) BY <1>1, <1>2
    <3> HIDE DEF V
    <3> QED BY <3>1, ConcatPart
  <2> QED BY <2>1, <2>2
<1>8. Len(a.s \o b.s) = Len(a.s) + Len(b.s) BY <1>1, <1>2
<1> QED BY <1>1, <1>2, <1>3, <1>5, <1>6, <1>7, <1>8

(* Both lists are on the grid. *)
LEMMA BothRegular ==
  ASSUME NEW h, NEW a, NEW b, Given(h, a), Given(h, b), Regular(h, a.s \o b.s)
  PROVE  /\ \A i \in DOMAIN a.s : Whole(h[a.s[i]]) /\ Len(a.s) <= h[a.s[i]].n
         /\ \A i \in DOMAIN b.s : Whole(h[b.s[i]])
         /\ \A p, q \in ToSet(a.s) \cup ToSet(b.s) : Alike(h[p], h[q])
<1> DEFINE t == a.s \o b.s
<1>1. List(h, t) /\ ToSet(t) = ToSet(a.s) \cup ToSet(b.s) /\ Len(t) = Len(a.s) + Len(b.s)
      /\ Len(a.s) \in Nat /\ Len(b.s) \in Nat
  BY BothGiven
<1>2. Regular(h, t) OBVIOUS
<1> HIDE DEF t
<1>3. ASSUME NEW p \in ToSet(t)
      PROVE  Whole(h[p]) /\ Alike(h[p], h[t[1]]) /\ Len(t) <= h[p].n /\ h[p].n \in Int
  <2>1. PICK i \in DOMAIN t : p = t[i] BY DEF ToSet
  <2> QED BY <1>1, <1>2, <2>1, RegularIs DEF Metric
<1>4. ASSUME NEW i \in DOMAIN a.s PROVE a.s[i] \in ToSet(t) BY <1>1 DEF ToSet
<1>5. ASSUME NEW i \in DOMAIN b.s PROVE b.s[i] \in ToSet(t) BY <1>1 DEF ToSet
<1>6. \A i \in DOMAIN a.s : Whole(h[a.s[i]]) /\ Len(a.s) <= h[a.s[i]].n
  <2> SUFFICES ASSUME NEW i \in DOMAIN a.s PROVE Whole(h[a.s[i]]) /\ Len(a.s) <= h[a.s[i]].n
    OBVIOUS
  <2>1. Whole(h[a.s[i]]) /\ Len(t) <= h[a.s[i]].n /\ h[a.s[i]].n \in Int
    BY <1>3, <1>4
  <2> DEFINE m == h[a.s[i]].n
             k == Len(a.s)
             l == Len(b.s)
  <2>2. Len(t) <= m /\ m \in Int /\ Len(t) = k + l /\ k \in Nat /\ l \in Nat
    BY <1>1, <2>1
  <2> HIDE DEF m, k, l
  <2>3. k <= m BY <2>2
  <2> QED BY <2>1, <2>3 DEF m, k
<1>7. \A i \in DOMAIN b.s : Whole(h[b.s[i]]) BY <1>3, <1>5
<1>8. \A p, q \in ToSet(t) : Alike(h[p], h[q]) BY <1>3 DEF Alike
<1> QED BY <1>1, <1>6, <1>7, <1>8

LEMMA PairsGood ==
  ASSUME NEW h, NEW a, NEW b, Given(h, a), Given(h, b)
  PROVE  LET some == a.s # <<>> /\ b.s # <<>>
         IN /\ AllGood(h, a.s \o b.s, some, integralWithReset(h, a, b))
            /\ AllGood(h, a.s \o b.s, some, ifft(h, a, b))
            /\ AllGood(h, a.s \o b.s, some, aliasQuery(h, a, b))
<1> DEFINE t == a.s \o b.s
           some == a.s # <<>> /\ b.s # <<>>
<1>1. List(h, t) /\ a.s \in Seq(ToSet(t)) /\ h \in Heaps BY BothGiven
<1>2. Good(h, t, some, Err(h)) /\ (~(Regular(h, t) /\ some) => Good(h, t, some, Panic(h)))
  BY <1>1, FailuresGood
<1>3. Regular(h, t) => ~ \E j \in DOMAIN a.s \cap DOMAIN b.s : h[b.s[j]].n < h[a.s[j]].n
  <2> SUFFICES ASSUME Regular(h, t), NEW j \in DOMAIN a.s \cap DOMAIN b.s PROVE ~(h[b.s[j]].n < h[a.s[j]].n)
    OBVIOUS
  <2>1. a.s[j] \in ToSet(a.s) /\ b.s[j] \in ToSet(b.s) BY DEF ToSet
  <2>2. Alike(h[b.s[j]], h[a.s[j]]) /\ h[b.s[j]].n \in Int
    BY ListIs, <2>1, BothRegular DEF Given, Metric
  <2> QED BY <2>2 DEF Alike
<1> HIDE DEF t, some
<1>4. Good(h, t, some, New(h, [i \in DOMAIN a.s |-> Filled(CopyLinkTags(h[a.s[i]]))]))
      /\ Good(h, t, some, New(h, [i \in DOMAIN a.s |-> CopyLinkTags(h[a.s[i]])]))
  BY <1>1, MapsGood
<1>5. AllGood(h, t, some, integralWithReset(h, a, b))
  BY <1>2, <1>4 DEF AllGood, integralWithReset, ForEachSeriesDo1
<1>6. AllGood(h, t, some, ifft(h, a, b))
  BY <1>2, <1>3, <1>4 DEF AllGood, ifft, ForEachSeriesDo1
<1>7. AllGood(h, t, some, aliasQuery(h, a, b))
  BY <1>2, <1>4 DEF AllGood, aliasQuery, ForEachSeriesDo1
<1> QED BY <1>5, <1>6, <1>7 DEF t, some

LEMMA TransformNullReferenceGood ==
  ASSUME NEW h, NEW a, NEW b, Given(h, a), Given(h, b), NEW nulls \in BOOLEAN
  PROVE  AllGood(h, a.s \o b.s, Len(a.s) = Len(b.s), transformNullReference(h, a, b, nulls))
<1> DEFINE t == a.s \o b.s
           even == Len(a.s) = Len(b.s)
           length == h[b.s[1]].n
<1>1. /\ List(h, t) /\ a.s \in Seq(ToSet(t)) /\ h \in Heaps
      /\ Len(a.s) \in Nat /\ DOMAIN a.s = 1..Len(a.s) /\ Len(b.s) \in Nat /\ DOMAIN b.s = 1..Len(b.s)
      /\ a.s \in Seq(1..Len(h)) /\ b.s \in Seq(1..Len(h))
  BY BothGiven
<1>2. Good(h, t, even, Err(h)) /\ (~(Regular(h, t) /\ even) => Good(h, t, even, Panic(h)))
  BY <1>1, FailuresGood
<1>3. Good(h, t, even, New(h, [i \in DOMAIN a.s |-> Rewritten(h[a.s[i]])]))
  BY <1>1, MapsGood
<1>4. ASSUME Regular(h, t), even, b.s # <<>>
      PROVE  /\ a.s # <<>>
             /\ ~ \E i \in DOMAIN b.s : h[b.s[i]].n > length
             /\ ~ \E i \in DOMAIN a.s : h[a.s[i]].n > length
  <2>1. a.s # <<>> /\ 1 \in DOMAIN b.s BY <1>1, <1>4
  <2>2. \A i \in DOMAIN a.s : a.s[i] \in ToSet(a.s) BY DEF ToSet
  <2>3. \A i \in DOMAIN b.s : b.s[i] \in ToSet(b.s) BY DEF ToSet
  <2>4. \A p, q \in ToSet(a.s) \cup ToSet(b.s) : Alike(h[p], h[q])
    BY <1>4, BothRegular
  <2>5. h[b.s[1]] \in Metric BY <2>1, ListIs DEF Given
  <2>6. length \in Int BY <2>5 DEF Metric
  <2> QED BY <2>1, <2>2, <2>3, <2>4, <2>6 DEF Alike
<1> DEFINE R == transformNullReference(h, a, b, nulls)
           news == New(h, [i \in DOMAIN a.s |-> Rewritten(h[a.s[i]])])
           short == \/ \E i \in DOMAIN b.s : h[b.s[i]].n > length
                    \/ nulls /\ length > 0 /\ \E i \in DOMAIN a.s : h[a.s[i]].n > length
<1>5. CASE b.s = <<>> BY <1>5, <1>2 DEF transformNullReference, AllGood
<1>6. CASE b.s # <<>> /\ a.s = <<>>
  BY <1>6, <1>1, <1>2 DEF transformNullReference, AllGood
<1>7. CASE b.s # <<>> /\ a.s # <<>>
  BY <1>7, <1>4, <1>2, <1>3 DEF transformNullReference, ForEachSeriesDo1, news,
     AllGood, t, even, R
<1> QED BY <1>5, <1>6, <1>7

---------------------------------------
LEMMA SomeGood ==
  ASSUME NEW h, NEW a, Given(h, a), NEW t \in AllSubSeqs(a.s)
  PROVE  t \in Seq(ToSet(a.s)) /\ List(h, a.s)
  BY GivenIs, SubSeqsPart

(* Positions inside the names, which are longer than the lists. *)
LEMMA NamedGood ==
  ASSUME NEW h, NEW a, Given(h, a), NEW p \in Int, Len(a.s) <= MaxSeries
  PROVE  LET b == CountedIn(h, a.s, p) /\ MaxSeries < NameLen
         IN /\ AllGood(h, a.s, b, toLowerCase(h, a, p))
            /\ AllGood(h, a.s, b, toUpperCase(h, a, p))
            /\ AllGood(h, a.s, b, aliasByPostgres(h, a, p, TRUE))
            /\ AllGood(h, a.s, FALSE, aliasByPostgres(h, a, p, FALSE))
<1> DEFINE b == CountedIn(h, a.s, p) /\ MaxSeries < NameLen
<1>1. List(h, a.s) /\ a.s \in Seq(ToSet(a.s)) /\ h \in Heaps /\ Len(a.s) \in Nat /\ MaxSeries \in Nat /\ NameLen \in Nat
  BY GivenIs, IntervalAssumption, EvaluationAssumption
<1>2. b => p > 0 /\ p < NameLen BY <1>1 DEF CountedIn
<1>3. ~(0 < p /\ p < NameLen) => Good(h, a.s, b, Panic(h))
  BY <1>1, <1>2, FailuresGood
<1>4. Good(h, a.s, FALSE, Panic(h)) BY <1>1, FailuresGood
<1> HIDE DEF b
<1>5. Good(h, a.s, b, New(h, [i \in DOMAIN a.s |-> SetTag(CopyLink(h[a.s[i]]))]))
  BY <1>1, MapsGood
<1>6. AllGood(h, a.s, b, ChangeCase(h, a, p))
  BY <1>1, <1>3, <1>5 DEF AllGood, ChangeCase, ForEachSeriesDo1
<1>7. ASSUME NEW t \in AllSubSeqs(a.s), NEW c
      PROVE  Good(h, a.s, c, New(h, [i \in DOMAIN t |-> CopyName(h[t[i]])]))
  BY <1>1, SubSeqsPart, MapsGood
<1>8. AllGood(h, a.s, b, aliasByPostgres(h, a, p, TRUE))
  <2>1. a.s # <<>> /\ (p > NameLen \/ ~TRUE) => ~(0 < p /\ p < NameLen) BY <1>1
  <2> QED BY <1>3, <1>7, <2>1 DEF AllGood, aliasByPostgres, ForSomeSeriesDo
<1>9. AllGood(h, a.s, FALSE, aliasByPostgres(h, a, p, FALSE))
  BY <1>1, <1>4, <1>7 DEF AllGood, aliasByPostgres, ForSomeSeriesDo
<1> QED BY <1>6, <1>8, <1>9 DEF b, toLowerCase, toUpperCase

(* An outcome with another result. *)
LEMMA OutIs ==
  ASSUME NEW g, NEW x, NEW y, NEW st, NEW put
  PROVE  [[h |-> g, out |-> x, st |-> st, put |-> put] EXCEPT !.out = y]
           = [h |-> g, out |-> y, st |-> st, put |-> put]
  OBVIOUS

(* Some series renamed, the others handed on. *)
LEMMA Base64Good ==
  ASSUME NEW h, NEW a, Given(h, a), NEW p \in Int
  PROVE  AllGood(h, a.s, CountedIn(h, a.s, p), aliasByBase64(h, a, p))
<1> DEFINE b == CountedIn(h, a.s, p)
           recs == [i \in DOMAIN a.s |-> CopyName(h[a.s[i]])]
           w == New(h, recs)
           Out(S) == [i \in DOMAIN a.s |-> IF i \in S THEN Len(h) + i ELSE a.s[i]]
<1>1. List(h, a.s) /\ a.s \in Seq(ToSet(a.s)) /\ h \in Heaps /\ Len(a.s) \in Nat /\ DOMAIN a.s = 1..Len(a.s)
      /\ Len(h) \in Nat /\ \A i \in DOMAIN a.s : a.s[i] \in 1..Len(h) /\ a.s[i] \in ToSet(a.s) /\ h[a.s[i]] \in Metric
  BY GivenIs, ListIs
<1>2. p < 1 => Good(h, a.s, b, Panic(h))
  <2>1. b => p >= 1 BY <1>1 DEF CountedIn
  <2> QED BY <1>1, <2>1, FailuresGood
<1>3. recs \in Seq(Metric) /\ DOMAIN recs = DOMAIN a.s /\ Len(recs) = Len(a.s)
  BY <1>1, ShapesAre
<1>4. \A i \in DOMAIN a.s : Alike(recs[i], h[a.s[i]]) BY <1>1, ShapesAre
<1> HIDE DEF recs
<1>5. w.h = h \o recs /\ w.st = "ok" /\ w.put = <<>> /\ w = [h |-> w.h, out |-> w.out, st |-> "ok", put |-> <<>>]
  BY DEF New, Ok, Done
<1>6. /\ h \o recs \in Heaps /\ Len(h \o recs) = Len(h) + Len(a.s) /\ Grown(h, h \o recs)
      /\ \A q \in 1..Len(h) : (h \o recs)[q] = h[q]
      /\ \A i \in DOMAIN a.s : (h \o recs)[Len(h) + i] = recs[i]
  <2>1. /\ h \o recs \in Heaps /\ Len(h \o recs) = Len(h) + Len(recs) /\ Grown(h, h \o recs)
        /\ \A q \in 1..Len(h) : (h \o recs)[q] = h[q]
        /\ \A i \in DOMAIN recs : (h \o recs)[Len(h) + i] = recs[i]
    BY <1>1, <1>3, GrownAppended
  <2> QED BY <1>3, <2>1
<1>7. ASSUME NEW S \in SUBSET DOMAIN a.s PROVE Good(h, a.s, b, [w EXCEPT !.out = Own(Out(S))])
  <2> DEFINE g == h \o recs
             s == Out(S)
  <2>1. s \in [1..Len(a.s) -> 1..Len(g)] BY <1>1, <1>6
  <2>2. s \in Seq(1..Len(g)) BY <1>1, <2>1
  <2>3. [w EXCEPT !.out = Own(s)] = Ok(g, s)
    <3>1. w = [h |-> g, out |-> w.out, st |-> "ok", put |-> <<>>] BY <1>5
    <3> HIDE DEF w, g, s
    <3>2. [[h |-> g, out |-> w.out, st |-> "ok", put |-> <<>>] EXCEPT !.out = Own(s)]
            = [h |-> g, out |-> Own(s), st |-> "ok", put |-> <<>>]
      BY OutIs
    <3> QED BY <3>1, <3>2 DEF Ok, Done
  <2>4. ASSUME Regular(h, a.s), NEW i \in DOMAIN s PROVE Fits(g[s[i]])
    <3>1. i \in DOMAIN a.s /\ Fits(h[a.s[i]]) BY <1>1, <2>4, RegularIs
    <3>2. CASE i \in S BY <1>6, <3>1, <3>2, <1>4, AlikeFits
    <3>3. CASE i \notin S BY <1>1, <1>6, <3>1, <3>3
    <3> QED BY <3>2, <3>3
  <2> HIDE DEF g, s, w
  <2>5. OutcomeOK(g, Ok(g, s)) /\ Ok(g, s).h = g /\ ((\A i \in DOMAIN s : Fits(g[s[i]])) => Served(Ok(g, s)))
    BY <1>6, <2>2, OkIs DEF g
  <2>6. OutcomeOK(h, Ok(g, s)) BY <1>6, <2>5, GrownTwice DEF OutcomeOK, g
  <2> QED BY <2>3, <2>4, <2>5, <2>6 DEF Good, s
<1> HIDE DEF b, w
<1> QED BY <1>2, <1>7 DEF AllGood, aliasByBase64, b, recs, w

---------------------------------------
(* FnSelect: pointers of the list. *)
LEMMA PartGood ==
  ASSUME NEW h, NEW t, List(h, t), NEW s \in Seq(ToSet(t)), NEW b
  PROVE  Good(h, t, b, Ok(h, s))
<1>1. List(h, s) /\ h \in Heaps /\ s \in Seq(1..Len(h)) BY ListPart DEF List
<1>2. ASSUME Regular(h, t), NEW i \in DOMAIN s PROVE Fits(h[s[i]])
  BY <1>2, RegularIs
<1> QED BY <1>1, <1>2, OkIs DEF Good

(* A slice of the list. *)
LEMMA SliceGood ==
  ASSUME NEW h, NEW t, List(h, t), NEW a \in Slices, Linked(a), a.s \in Seq(ToSet(t)), NEW b
  PROVE  Good(h, t, b, Done(h, a))
<1> DEFINE s == a.s
<1>1. List(h, s) /\ h \in Heaps /\ s \in Seq(1..Len(h)) BY ListPart DEF List
<1>2. ASSUME Regular(h, t), NEW i \in DOMAIN s PROVE Fits(h[s[i]])
  BY <1>2, RegularIs
<1> QED BY <1>1, <1>2, DoneIs DEF Good

LEMMA SubsetsGood ==
  ASSUME NEW h, NEW a, Given(h, a)
  PROVE  /\ AllGood(h, a.s, TRUE, averageOutsidePercentile(h, a))
         /\ AllGood(h, a.s, TRUE, below(h, a))
         /\ AllGood(h, a.s, TRUE, filter(h, a))
         /\ AllGood(h, a.s, TRUE, exclude(h, a))
         /\ AllGood(h, a.s, TRUE, grep(h, a))
         /\ AllGood(h, a.s, TRUE, unique(h, a))
<1>1. AllGood(h, a.s, TRUE, Subsets(h, a))
  BY SomeGood, PartGood DEF AllGood, Subsets
<1> QED BY <1>1 DEF averageOutsidePercentile, below, filter, exclude, grep, unique

LEMMA RemoveEmptyGood ==
  ASSUME NEW h, NEW a, Given(h, a)
  PROVE  AllGood(h, a.s, TRUE, removeEmptySeries(h, a))
<1>1. ASSUME NEW t \in AllSubSeqs(a.s)
      PROVE  Good(h, a.s, TRUE, New(h, [i \in DOMAIN t |-> SetTag(CopyLink(h[t[i]]))]))
  BY SomeGood, MapsGood
<1> QED BY <1>1 DEF AllGood, removeEmptySeries, ForSomeSeriesDo

LEMMA RemoveBetweenGood ==
  ASSUME NEW h, NEW a, Given(h, a), NEW nulls \in BOOLEAN
  PROVE  AllGood(h, a.s, ~nulls, removeBetweenPercentile(h, a, nulls))
<1> DEFINE s == a.s
           length == h[s[1]].n
           Outcomes(k) == IF \E i \in DOMAIN s : i > k /\ h[s[i]].n > 0
                          THEN {Panic(h)} ELSE ForSomeSeriesDo(h, a, CopyLink)
           b == ~nulls
<1>1. List(h, s) /\ h \in Heaps /\ Len(s) \in Nat /\ DOMAIN s = 1..Len(s)
  BY GivenIs
<1>2. ASSUME NEW t \in AllSubSeqs(s)
      PROVE  Good(h, s, b, New(h, [i \in DOMAIN t |-> CopyLink(h[t[i]])]))
  BY SomeGood, MapsGood
<1>3. ~(Regular(h, s) /\ b) => Good(h, s, b, Panic(h)) BY <1>1, FailuresGood
<1>4. ASSUME Regular(h, s)
      PROVE  /\ s # <<>> /\ \A i \in DOMAIN s : ~(h[s[i]].n < length)
             /\ \A i \in DOMAIN s : ~(i > length)
  BY <1>1, <1>4, RegularIs DEF Alike, Metric
<1>5. ASSUME NEW k, nulls \/ k = length, NEW r \in Outcomes(k) PROVE Good(h, s, b, r)
  <2>1. CASE \E i \in DOMAIN s : i > k /\ h[s[i]].n > 0 BY <1>5, <2>1, <1>4, <1>3
  <2>2. CASE ~\E i \in DOMAIN s : i > k /\ h[s[i]].n > 0
    BY <1>5, <2>2, <1>2 DEF ForSomeSeriesDo
  <2> QED BY <2>1, <2>2
<1>6. removeBetweenPercentile(h, a, nulls) =
        IF s = <<>> \/ \E i \in DOMAIN s : h[s[i]].n < length
        THEN {Panic(h)} ELSE UNION {Outcomes(k) : k \in IF nulls THEN 0..length ELSE {length}}
  BY DEF removeBetweenPercentile
<1> HIDE DEF Outcomes, s, b, length
<1>7. ASSUME NEW r \in removeBetweenPercentile(h, a, nulls) PROVE Good(h, s, b, r)
  <2>1. CASE s = <<>> \/ \E i \in DOMAIN s : h[s[i]].n < length
    BY <1>3, <1>4, <1>6, <1>7, <2>1
  <2>2. CASE ~(s = <<>> \/ \E i \in DOMAIN s : h[s[i]].n < length)
    <3>1. PICK k \in IF nulls THEN 0..length ELSE {length} : r \in Outcomes(k)
      BY <1>6, <1>7, <2>2
    <3> QED BY <1>5, <3>1
  <2> QED BY <2>1, <2>2
<1> QED BY <1>7 DEF AllGood, s, b

LEMMA LimitGood ==
  ASSUME NEW h, NEW a, Given(h, a), NEW p \in Int
  PROVE  AllGood(h, a.s, CountedIn(h, a.s, p), limit(h, a, p))
<1> DEFINE b == CountedIn(h, a.s, p)
           c == [a EXCEPT !.s = SubSeq(a.s, 1, p)]
<1>1. List(h, a.s) /\ h \in Heaps /\ Len(a.s) \in Nat /\ a.s \in Seq(ToSet(a.s)) /\ a \in Slices /\ Linked(a)
      /\ DOMAIN a.s = 1..Len(a.s)
  BY GivenIs DEF Given
<1>2. p < 0 => Good(h, a.s, b, Panic(h))
  <2>1. b => p >= 0 BY <1>1 DEF CountedIn
  <2> QED BY <1>1, <2>1, FailuresGood
<1> HIDE DEF b
<1>3. Good(h, a.s, b, Done(h, a)) BY <1>1, SliceGood
<1>4. ASSUME 0 <= p, p < Len(a.s) PROVE Good(h, a.s, b, Done(h, c))
  <2> DEFINE t == SubSeq(a.s, 1, p)
  <2>1. t \in Seq(ToSet(a.s)) BY <1>1, <1>4, CutPart
  <2>2. t \in Seq(Nat) /\ Len(t) = p BY <1>1, <1>4, CutPart DEF Slices
  <2>3. c \in Slices /\ c.s = t /\ c.key = a.key /\ c.cap = a.cap
    BY <1>1, <2>2 DEF Slices, t
  <2>4. Linked(c)
    <3> SUFFICES ASSUME a.key # 0 PROVE t = SubSeq(values[a.key], 1, p)
      BY <1>1, <1>4, <2>2, <2>3 DEF Linked, Slices
    <3> DEFINE v == values[a.key]
               n == Len(a.s)
    <3>1. a.s = SubSeq(v, 1, n) BY <1>1 DEF Linked
    <3>2. t = SubSeq(SubSeq(v, 1, n), 1, p) BY <3>1
    <3> HIDE DEF v, n, t
    <3>3. SubSeq(v, 1, n) = [i \in 1..n |-> v[i]] BY <1>1, SMT DEF n
    <3>4. SubSeq(v, 1, p) = [i \in 1..p |-> v[i]] BY <1>4, SMT
    <3>5. SubSeq(SubSeq(v, 1, n), 1, p) = [i \in 1..p |-> SubSeq(v, 1, n)[i]]
      <4> DEFINE w == SubSeq(v, 1, n)
      <4> HIDE DEF w
      <4>1. SubSeq(w, 1, p) = [i \in 1..p |-> w[i]] BY <1>4, SMT
      <4> QED BY <4>1 DEF w
    <3>6. \A i \in 1..p : i \in 1..n BY <1>1, <1>4 DEF n
    <3> QED BY <3>2, <3>3, <3>4, <3>5, <3>6 DEF v
  <2> HIDE DEF c, t
  <2> QED BY <1>1, <2>1, <2>3, <2>4, SliceGood
<1> HIDE DEF c
<1>5. limit(h, a, p) = IF p >= Len(a.s) THEN {Done(h, a)} ELSE IF p < 0 THEN {Panic(h)} ELSE {Done(h, c)}
  BY DEF limit, c
<1> QED BY <1>1, <1>2, <1>3, <1>4, <1>5 DEF AllGood, b

(* The order of the list, or groups of it. *)
LEMMA OrdersGood ==
  ASSUME NEW h, NEW a, Given(h, a)
  PROVE  /\ AllGood(h, a.s, TRUE, sortBy(h, a))
         /\ AllGood(h, a.s, TRUE, sortByName(h, a))
         /\ AllGood(h, a.s, TRUE, mapSeries(h, a))
         /\ AllGood(h, a.s, TRUE, seriesByTag(h, a))
<1>1. List(h, a.s) /\ a.s \in Seq(ToSet(a.s)) /\ a \in Slices /\ Linked(a)
  BY GivenIs DEF Given
<1>2. ASSUME NEW t \in Orders(a.s) PROVE t \in Seq(ToSet(a.s)) BY <1>1, OrdersPart
<1>3. ASSUME NEW g \in Groupings(a.s) PROVE FlattenSeq(g) \in Seq(ToSet(a.s))
  BY <1>1, GroupingsPart, FlattenElements
<1>4. AllGood(h, a.s, TRUE, sortBy(h, a)) /\ AllGood(h, a.s, TRUE, sortByName(h, a))
  BY <1>1, <1>2, PartGood DEF AllGood, sortBy, sortByName
<1>5. AllGood(h, a.s, TRUE, mapSeries(h, a))
  BY <1>1, <1>3, PartGood DEF AllGood, mapSeries
<1>6. AllGood(h, a.s, TRUE, seriesByTag(h, a))
  BY <1>1, SliceGood DEF AllGood, seriesByTag
<1> QED BY <1>4, <1>5, <1>6

LEMMA GroupGood ==
  ASSUME NEW h, NEW a, NEW b, Given(h, a), Given(h, b), NEW c
  PROVE  /\ AllGood(h, a.s \o b.s, c, group(h, a, b))
         /\ AllGood(h, a.s \o b.s, c, fallbackSeries(h, a, b))
<1> DEFINE t == a.s \o b.s
<1>1. List(h, t) /\ a.s \in Seq(ToSet(t)) /\ b.s \in Seq(ToSet(t)) /\ t \in Seq(ToSet(t))
  <2>1. List(h, t) /\ a.s \in Seq(ToSet(t)) /\ b.s \in Seq(ToSet(t)) BY BothGiven
  <2> HIDE DEF t
  <2>2. t \in Seq(1..Len(h)) BY <2>1 DEF List
  <2> QED BY <2>1, <2>2, SeqOver
<1>2. a \in Slices /\ b \in Slices /\ Linked(a) /\ Linked(b) BY DEF Given
<1> HIDE DEF t
<1>3. Good(h, t, c, Ok(h, t)) /\ Good(h, t, c, Done(h, a)) /\ Good(h, t, c, Done(h, b))
  BY <1>1, <1>2, PartGood, SliceGood
<1> QED BY <1>3 DEF t, AllGood, group, fallbackSeries

(* The first of a sorted part of the list. *)
LEMMA RankedGood ==
  ASSUME NEW h, NEW t, List(h, t), NEW s \in Seq(ToSet(t)), NEW k \in Int, k <= Len(s), NEW b
  PROVE  AllGood(h, t, b, Ranked(h, s, k))
<1>1. ASSUME NEW u \in Orders(s) PROVE SubSeq(u, 1, k) \in Seq(ToSet(t))
  BY OrdersPart, SeqOver, SeqWider, CutPart
<1> QED BY <1>1, PartGood DEF AllGood, Ranked

LEMMA LesserIs ==
  ASSUME NEW p \in Int, NEW q \in Int
  PROVE  Lesser(p, q) \in Int /\ Lesser(p, q) <= p /\ Lesser(p, q) <= q /\ Lesser(p, q) \in {p, q}
  BY DEF Lesser

LEMMA GreaterIs ==
  ASSUME NEW p \in Int, NEW q \in Int
  PROVE  Greater(p, q) \in Int /\ Greater(p, q) >= p /\ Greater(p, q) >= q /\ Greater(p, q) \in {p, q}
  BY DEF Greater

LEMMA RankedSomeGood ==
  ASSUME NEW h, NEW t, List(h, t), NEW s \in Seq(ToSet(t)), NEW p \in Int, NEW b
  PROVE  AllGood(h, t, b, UNION {Ranked(h, u, Lesser(p, Len(u))) : u \in AllSubSeqs(s)})
<1>1. ASSUME NEW u \in AllSubSeqs(s) PROVE AllGood(h, t, b, Ranked(h, u, Lesser(p, Len(u))))
  <2>1. u \in Seq(ToSet(t)) BY SubSeqsPart, SeqOver, SeqWider
  <2>2. Len(u) \in Int BY <2>1
  <2>3. Lesser(p, Len(u)) \in Int /\ Lesser(p, Len(u)) <= Len(u) BY <2>2, LesserIs
  <2> QED BY <2>1, <2>3, RankedGood
<1> QED BY <1>1 DEF AllGood

LEMMA HighestLowestGood ==
  ASSUME NEW h, NEW a, Given(h, a), NEW p \in Int
  PROVE  AllGood(h, a.s, CountedIn(h, a.s, p), highestLowest(h, a, p))
<1> DEFINE b == CountedIn(h, a.s, p)
           n == Len(a.s)
           Highest == UNION {Ranked(h, t, Lesser(p, Len(t))) : t \in AllSubSeqs(a.s)}
           Lowest == Ranked(h, a.s, p)
<1>1. List(h, a.s) /\ h \in Heaps /\ n \in Nat /\ a.s \in Seq(ToSet(a.s)) /\ a \in Slices /\ Linked(a)
  BY GivenIs DEF Given
<1>2. p > n => Good(h, a.s, b, Panic(h))
  <2>1. b => p <= n BY <1>1 DEF CountedIn
  <2> QED BY <1>1, <2>1, FailuresGood
<1> HIDE DEF b, n
<1>3. Good(h, a.s, b, Done(h, a)) /\ Good(h, a.s, b, Ok(h, <<>>))
  BY <1>1, SliceGood, FailuresGood
<1>4. AllGood(h, a.s, b, Highest) BY <1>1, RankedSomeGood
<1>5. p <= n => AllGood(h, a.s, b, Lowest) BY <1>1, RankedGood DEF n
<1> HIDE DEF Highest, Lowest
<1>6. highestLowest(h, a, p) =
       (IF n < p THEN {Done(h, a)} ELSE {})
       \cup (IF n < 1 THEN {Done(h, a)}
             ELSE IF p <= 0 THEN {Ok(h, <<>>)}
             ELSE IF p > n THEN Highest \cup {Panic(h)}
             ELSE Highest \cup Lowest)
  BY DEF highestLowest, Highest, Lowest, n
<1> QED BY <1>1, <1>2, <1>3, <1>4, <1>5, <1>6 DEF AllGood, b

LEMMA MostDeviantGood ==
  ASSUME NEW h, NEW a, Given(h, a), NEW p \in Int
  PROVE  AllGood(h, a.s, CountedIn(h, a.s, p), mostDeviant(h, a, p))
<1> DEFINE b == CountedIn(h, a.s, p)
           All == UNION {Ranked(h, t, Lesser(p, Len(t))) : t \in AllSubSeqs(a.s)}
<1>1. List(h, a.s) /\ h \in Heaps /\ a.s \in Seq(ToSet(a.s)) /\ Len(a.s) \in Nat
  BY GivenIs
<1>2. p <= 0 => Good(h, a.s, b, Panic(h))
  <2>1. b => p > 0 BY <1>1 DEF CountedIn
  <2> QED BY <1>1, <2>1, FailuresGood
<1> HIDE DEF b
<1>3. Good(h, a.s, b, Ok(h, <<>>)) /\ AllGood(h, a.s, b, All)
  BY <1>1, FailuresGood, RankedSomeGood
<1> QED BY <1>2, <1>3 DEF AllGood, mostDeviant, b

LEMMA TukeyGood ==
  ASSUME NEW h, NEW a, Given(h, a), NEW p \in Int, NEW nulls \in BOOLEAN
  PROVE  AllGood(h, a.s, CountedIn(h, a.s, p) /\ ~nulls, tukey(h, a, p, nulls))
<1> DEFINE b == CountedIn(h, a.s, p) /\ ~nulls
           length == h[a.s[1]].n
           Outliers == UNION {Ranked(h, t, Lesser(p, Len(t))) : t \in AllSubSeqs(a.s)}
           bad == a.s = <<>> \/ length = 0 \/ \E i \in DOMAIN a.s : h[a.s[i]].n < length
<1>1. List(h, a.s) /\ h \in Heaps /\ a.s \in Seq(ToSet(a.s)) /\ Len(a.s) \in Nat
  BY GivenIs
<1>2. (nulls \/ bad) => Good(h, a.s, b, Panic(h))
  <2>1. ASSUME Regular(h, a.s) PROVE ~bad
    <3>1. /\ a.s # <<>> /\ 1 \in DOMAIN a.s
          /\ \A i \in DOMAIN a.s : h[a.s[i]].n = length
          /\ length \in Int /\ length > 0
      BY <1>1, <2>1, RegularIs, SMTT(30) DEF Alike, Metric, Whole
    <3> HIDE DEF length
    <3> QED BY <3>1
  <2>2. ~((nulls \/ bad) /\ Regular(h, a.s) /\ b) BY <2>1
  <2> QED BY <1>1, <2>2, FailuresGood
<1> HIDE DEF b, bad
<1>3. Good(h, a.s, b, Ok(h, <<>>)) /\ Good(h, a.s, b, Err(h)) /\ AllGood(h, a.s, b, Outliers)
  BY <1>1, FailuresGood, RankedSomeGood
<1> HIDE DEF Outliers, length
<1>4. tukey(h, a, p, nulls) =
        {Ok(h, <<>>)} \cup
           IF p < 1 THEN {Err(h)}
           ELSE IF bad THEN {Panic(h)}
           ELSE Outliers \cup (IF nulls THEN {Panic(h)} ELSE {})
  BY DEF tukey, Outliers, length, bad
<1> QED BY <1>2, <1>3, <1>4 DEF AllGood, b

LEMMA PearsonClosestGood ==
  ASSUME NEW h, NEW a, NEW b, Given(h, a), Given(h, b), NEW p \in Int
  PROVE  AllGood(h, a.s \o b.s, b.s # <<>> /\ p \in 1..Len(a.s), pearsonClosest(h, a, b, p))
<1> DEFINE t == a.s \o b.s
           c == b.s # <<>> /\ p \in 1..Len(a.s)
           alike == Only(b.s, {q \in ToSet(b.s) : h[q].n = h[a.s[1]].n})
           All == UNION {Ranked(h, u, Lesser(p, Len(u))) : u \in AllSubSeqs(alike)}
<1>1. List(h, t) /\ h \in Heaps /\ b.s \in Seq(ToSet(t)) /\ Len(a.s) \in Nat
  BY BothGiven
<1>2. p < 0 => Good(h, t, c, Panic(h))
  <2>1. c => p > 0 BY <1>1
  <2> HIDE DEF t, c
  <2> QED BY <1>1, <2>1, FailuresGood
<1>3. alike \in Seq(ToSet(t)) BY <1>1, OnlyPart, SeqOver, SeqWider
<1> HIDE DEF t, c, alike
<1>4. Good(h, t, c, Err(h)) /\ AllGood(h, t, c, All)
  <2>1. Good(h, t, c, Err(h)) BY <1>1, FailuresGood
  <2>2. AllGood(h, t, c, All) BY <1>1, <1>3, RankedSomeGood
  <2> QED BY <2>1, <2>2
<1>5. pearsonClosest(h, a, b, p) = IF Len(a.s) # 1 THEN {Err(h)} ELSE IF p < 0 THEN {Panic(h)} ELSE All
  BY DEF pearsonClosest, alike
<1> QED BY <1>2, <1>4, <1>5 DEF AllGood, t, c

---------------------------------------
(* Least and greatest of a list. *)
LEMMA Extreme ==
  ASSUME NEW n \in Nat, NEW f \in [1..n -> Int]
  PROVE  n > 0 => /\ \E i \in 1..n : \A j \in 1..n : f[i] <= f[j]
                  /\ \E i \in 1..n : \A j \in 1..n : f[i] >= f[j]
<1> DEFINE A(k) == k > 0 => /\ \E i \in 1..k : \A j \in 1..k : f[i] <= f[j]
                            /\ \E i \in 1..k : \A j \in 1..k : f[i] >= f[j]
           T == {k \in Nat : k <= n => A(k)}
<1>1. 0 \in T OBVIOUS
<1>2. ASSUME NEW k \in Nat, k \in T PROVE k + 1 \in T
  <2> SUFFICES ASSUME k + 1 <= n PROVE A(k + 1) OBVIOUS
  <2>1. 1..(k + 1) = 1..k \cup {k + 1} /\ k + 1 \in 1..n /\ \A i \in 1..k : i \in 1..n
    OBVIOUS
  <2>2. CASE k = 0 BY <2>1, <2>2
  <2>3. CASE k > 0
    <3>1. A(k) BY <1>2
    <3>2. PICK i \in 1..k : \A j \in 1..k : f[i] <= f[j] BY <2>3, <3>1
    <3>3. PICK m \in 1..k : \A j \in 1..k : f[m] >= f[j] BY <2>3, <3>1
    <3>4. \E l \in 1..(k + 1) : \A j \in 1..(k + 1) : f[l] <= f[j]
      <4>1. CASE f[i] <= f[k + 1] BY <2>1, <3>2, <4>1
      <4>2. CASE f[k + 1] < f[i]
        <5>1. \A j \in 1..(k + 1) : f[k + 1] <= f[j] BY <2>1, <3>2, <4>2
        <5> QED BY <5>1
      <4> QED BY <2>1, <4>1, <4>2
    <3>5. \E l \in 1..(k + 1) : \A j \in 1..(k + 1) : f[l] >= f[j]
      <4>1. CASE f[m] >= f[k + 1] BY <2>1, <3>3, <4>1
      <4>2. CASE f[k + 1] > f[m]
        <5>1. \A j \in 1..(k + 1) : f[k + 1] >= f[j] BY <2>1, <3>3, <4>2
        <5> QED BY <5>1
      <4> QED BY <2>1, <4>1, <4>2
    <3> QED BY <3>4, <3>5
  <2> QED BY <2>2, <2>3
<1>3. n \in T BY <1>1, <1>2, NatInd
<1> QED BY <1>3

LEMMA ExtremesAre ==
  ASSUME NEW n \in Nat, n > 0, NEW f \in [1..n -> Int], NEW S, S = {f[i] : i \in 1..n}
  PROVE  /\ Least(S) \in S /\ Least(S) \in Int /\ \A y \in S : Least(S) <= y
         /\ Greatest(S) \in S /\ Greatest(S) \in Int /\ \A y \in S : Greatest(S) >= y
         /\ S \subseteq Int
<1>1. (\E x \in S : \A y \in S : x <= y) /\ (\E x \in S : \A y \in S : x >= y) /\ S \subseteq Int
  <2>1. PICK i \in 1..n : \A j \in 1..n : f[i] <= f[j] BY Extreme
  <2>2. PICK k \in 1..n : \A j \in 1..n : f[k] >= f[j] BY Extreme
  <2>3. f[i] \in S /\ \A y \in S : f[i] <= y BY <2>1
  <2>4. f[k] \in S /\ \A y \in S : f[k] >= y BY <2>2
  <2>5. S \subseteq Int OBVIOUS
  <2> QED BY <2>3, <2>4, <2>5
<1> QED BY <1>1 DEF Least, Greatest

(* The start, step, stop or length of the series of a list. *)
LEMMA BoundsAre ==
  ASSUME NEW h, NEW s, List(h, s), s # <<>>
  PROVE  /\ MinStart(h, s) \in Int /\ \A p \in ToSet(s) : MinStart(h, s) <= h[p].start
         /\ \E p \in ToSet(s) : MinStart(h, s) = h[p].start
         /\ MaxStop(h, s) \in Int /\ \A p \in ToSet(s) : MaxStop(h, s) >= h[p].stop
         /\ \E p \in ToSet(s) : MaxStop(h, s) = h[p].stop
         /\ Least(Steps(h, s)) \in Int /\ Least(Steps(h, s)) \in Steps(h, s)
         /\ \A y \in Steps(h, s) : Least(Steps(h, s)) <= y
         /\ Greatest(Lengths(h, s)) \in Int /\ \A p \in ToSet(s) : Greatest(Lengths(h, s)) >= h[p].n
         /\ \E p \in ToSet(s) : Greatest(Lengths(h, s)) = h[p].n
<1> DEFINE n == Len(s)
           Of(S) == Least(S) \in Int /\ Least(S) \in S /\ (\A y \in S : Least(S) <= y)
                    /\ Greatest(S) \in Int /\ Greatest(S) \in S /\ (\A y \in S : Greatest(S) >= y)
<1>1. n \in Nat /\ n > 0 /\ DOMAIN s = 1..n /\ \A i \in 1..n : h[s[i]] \in Metric
  BY ListIs
<1>2. ASSUME NEW f \in [1..n -> Int] PROVE Of({f[i] : i \in 1..n})
  BY <1>1, ExtremesAre
<1>3. ASSUME NEW f, f \in [1..n -> Int], NEW S, S = {f[i] : i \in 1..n} PROVE Of(S)
  BY <1>2, <1>3
<1> HIDE DEF Of, n
<1>4. Of({h[s[i]].start : i \in 1..n})
  <2> DEFINE f == [i \in 1..n |-> h[s[i]].start]
  <2>1. f \in [1..n -> Int] BY <1>1 DEF Metric
  <2>2. {f[i] : i \in 1..n} = {h[s[i]].start : i \in 1..n} OBVIOUS
  <2> HIDE DEF f
  <2> QED BY <1>3, <2>1, <2>2
<1>5. Of({h[s[i]].stop : i \in 1..n})
  <2> DEFINE f == [i \in 1..n |-> h[s[i]].stop]
  <2>1. f \in [1..n -> Int] BY <1>1 DEF Metric
  <2>2. {f[i] : i \in 1..n} = {h[s[i]].stop : i \in 1..n} OBVIOUS
  <2> HIDE DEF f
  <2> QED BY <1>3, <2>1, <2>2
<1>6. Of({h[s[i]].step : i \in 1..n})
  <2> DEFINE f == [i \in 1..n |-> h[s[i]].step]
  <2>1. f \in [1..n -> Int] BY <1>1 DEF Metric
  <2>2. {f[i] : i \in 1..n} = {h[s[i]].step : i \in 1..n} OBVIOUS
  <2> HIDE DEF f
  <2> QED BY <1>3, <2>1, <2>2
<1>7. Of({h[s[i]].n : i \in 1..n})
  <2> DEFINE f == [i \in 1..n |-> h[s[i]].n]
  <2>1. f \in [1..n -> Int] BY <1>1 DEF Metric
  <2>2. {f[i] : i \in 1..n} = {h[s[i]].n : i \in 1..n} OBVIOUS
  <2> HIDE DEF f
  <2> QED BY <1>3, <2>1, <2>2
<1>8. ToSet(s) = {s[i] : i \in 1..n} BY <1>1 DEF ToSet
<1>9. /\ MinStart(h, s) \in Int /\ \A p \in ToSet(s) : MinStart(h, s) <= h[p].start
      /\ \E p \in ToSet(s) : MinStart(h, s) = h[p].start
  <2> DEFINE S == {h[s[i]].start : i \in 1..n}
  <2>1. Of(S) /\ MinStart(h, s) = Least(S) /\ \A y : y \in S <=> \E i \in 1..n : y = h[s[i]].start
    BY <1>1, <1>4 DEF MinStart
  <2> HIDE DEF S
  <2> QED BY <1>8, <2>1 DEF Of
<1>10. /\ MaxStop(h, s) \in Int /\ \A p \in ToSet(s) : MaxStop(h, s) >= h[p].stop
       /\ \E p \in ToSet(s) : MaxStop(h, s) = h[p].stop
  <2> DEFINE S == {h[s[i]].stop : i \in 1..n}
  <2>1. Of(S) /\ MaxStop(h, s) = Greatest(S) /\ \A y : y \in S <=> \E i \in 1..n : y = h[s[i]].stop
    BY <1>1, <1>5 DEF MaxStop
  <2> HIDE DEF S
  <2> QED BY <1>8, <2>1 DEF Of
<1>11. /\ Greatest(Lengths(h, s)) \in Int /\ \A p \in ToSet(s) : Greatest(Lengths(h, s)) >= h[p].n
       /\ \E p \in ToSet(s) : Greatest(Lengths(h, s)) = h[p].n
  <2> DEFINE S == {h[s[i]].n : i \in 1..n}
  <2>1. Of(S) /\ Lengths(h, s) = S /\ \A y : y \in S <=> \E i \in 1..n : y = h[s[i]].n
    BY <1>1, <1>7 DEF Lengths
  <2> HIDE DEF S
  <2> QED BY <1>8, <2>1 DEF Of
<1>12. Of(Steps(h, s)) BY <1>1, <1>6 DEF Steps
<1> QED BY <1>9, <1>10, <1>11, <1>12 DEF Of

(* The steps of a list are finitely many. *)
LEMMA StepsAre ==
  ASSUME NEW h, NEW s, List(h, s)
  PROVE  IsFiniteSet(Steps(h, s)) /\ \A x \in Steps(h, s) : x \in Nat \ {0}
<1> DEFINE D == 1..Len(s)
           F == [i \in D |-> h[s[i]].step]
<1>1. IsFiniteSet(D) /\ DOMAIN s = D /\ \A i \in D : h[s[i]] \in Metric /\ h[s[i]].step > 0
  <2>1. Len(s) \in Nat /\ DOMAIN s = D /\ \A i \in D : h[s[i]] \in Metric /\ h[s[i]].step > 0
    BY ListIs
  <2>2. IsFiniteSet(D) BY <2>1, FS_Interval
  <2> QED BY <2>1, <2>2
<1>2. IsFiniteSet({F[i] : i \in D}) BY <1>1, FiniteImage
<1>3. {F[i] : i \in D} = Steps(h, s) BY <1>1 DEF Steps
<1>4. \A i \in D : h[s[i]].step \in Nat \ {0} BY <1>1 DEF Metric
<1> QED BY <1>1, <1>2, <1>3, <1>4 DEF Steps

---------------------------------------
(* The common step. *)
LEMMA MultipleIs ==
  ASSUME NEW m \in Nat \ {0}, NEW x \in Nat \ {0}
  PROVE  /\ m * x \in Nat \ {0} /\ m * x >= m /\ m * x >= x
         /\ (m * x) % m = 0 /\ (m * x) % x = 0
<1>1. m * x \in Nat \ {0} /\ m * x >= m /\ m * x >= x OBVIOUS
<1>2. ASSUME NEW a \in Nat \ {0}, NEW b \in Nat \ {0} PROVE (a * b) % a = 0
  <2> DEFINE q == (a * b) \div a
             r == (a * b) % a
  <2>1. r \in Int /\ q \in Int /\ 0 <= r /\ r < a /\ a * b = a * q + r OBVIOUS
  <2> HIDE DEF q, r
  <2>2. r = a * (b - q) BY <2>1
  <2>3. b - q = 0
    <3>1. CASE b - q >= 1 BY <2>1, <3>1, <2>2
    <3>2. CASE b - q <= -1 BY <2>1, <3>2, <2>2
    <3> QED BY <2>1, <3>1, <3>2
  <2> QED BY <2>2, <2>3 DEF r
<1>3. m * x = x * m OBVIOUS
<1> QED BY <1>1, <1>2, <1>3

LEMMA MultipleAtLeast ==
  ASSUME NEW m \in Nat \ {0}, NEW c \in Nat \ {0}, c % m = 0
  PROVE  c >= m
  OBVIOUS

(* The common step is at least each of the steps. *)
LEMMA LCMIs ==
  ASSUME NEW S, IsFiniteSet(S), \A x \in S : x \in Nat \ {0}
  PROVE  LCM(S) \in Nat \ {0} /\ \A x \in S : LCM(S) >= x
<1> DEFINE P == Nat \ {0}
           base == 1
           Op(x, m) == Least({c \in 1..(m * x) : c % m = 0 /\ c % x = 0})
           G == [p \in P \X S |-> Op(p[2], p[1])]
           M == [u \in SUBSET S |-> CHOOSE x \in u : TRUE]
           E(f) == f = [u \in SUBSET S |->
                     IF u = {} THEN base ELSE Op(CHOOSE x \in u : TRUE, f[u \ {CHOOSE x \in u : TRUE}])]
           iter == CHOOSE f : E(f)
           Q == [u \in SUBSET S |-> {m \in P : \A x \in u : m >= x}]
<1>1. ASSUME NEW x \in P, NEW m \in P PROVE Op(x, m) \in P /\ Op(x, m) >= x /\ Op(x, m) >= m
  <2> DEFINE C == {c \in 1..(m * x) : c % m = 0 /\ c % x = 0}
  <2>1. m * x \in C /\ C \subseteq Nat BY MultipleIs
  <2>2. Least(C) \in C BY <2>1, LeastNumber DEF Least
  <2>3. ASSUME NEW c \in C PROVE c \in P /\ c >= x /\ c >= m BY MultipleAtLeast
  <2> HIDE DEF C
  <2>4. Least(C) \in P /\ Least(C) >= x /\ Least(C) >= m BY <2>2, <2>3
  <2> QED BY <2>4 DEF C
<1>2. \A u \in SUBSET S : u # {} => M[u] \in u /\ M[u] = (CHOOSE x \in u : TRUE)
  OBVIOUS
<1>3. S \subseteq P /\ base \in P OBVIOUS
<1> HIDE DEF Op
<1>4. G \in [P \X S -> P] BY <1>1, <1>3
<1>5. PICK f \in [SUBSET S -> P] : Folds(f, S, base, G, M)
  BY <1>2, <1>3, <1>4, FoldOver
<1>6. ASSUME NEW u \in SUBSET S, u # {}
      PROVE  G[<<f[u \ {M[u]}], M[u]>>] = Op(CHOOSE x \in u : TRUE, f[u \ {CHOOSE x \in u : TRUE}])
  <2>1. f[u \ {M[u]}] \in P /\ M[u] \in S /\ M[u] = (CHOOSE x \in u : TRUE)
    BY <1>2, <1>6
  <2> HIDE DEF M, P
  <2> QED BY <2>1
<1>7. E(f)
  <2> HIDE DEF G, M, base, P
  <2> QED BY <1>5, <1>6 DEF Folds
<1>8. E(iter) BY <1>7, ZenonT(30)
<1>9. LCM(S) = iter[S] BY DEF LCM, FoldSet, MapThenFoldSet, Op
<1>10. iter[{}] \in Q[{}]
  <2>1. iter[{}] = base BY <1>8
  <2> HIDE DEF iter
  <2> QED BY <2>1
<1>11. ASSUME NEW u \in SUBSET S, u # {}, iter[u \ {M[u]}] \in Q[u \ {M[u]}]
       PROVE  iter[u] \in Q[u]
  <2> DEFINE v == u \ {M[u]}
             x == M[u]
             m == iter[v]
  <2>1. x \in P /\ x \in u /\ x = (CHOOSE y \in u : TRUE) /\ v \in SUBSET S /\ u = v \cup {x}
    <3>1. M[u] \in u /\ M[u] = (CHOOSE y \in u : TRUE) BY <1>2, <1>11
    <3> HIDE DEF M
    <3> QED BY <1>3, <3>1
  <2>2. iter[u] = Op(x, m) BY <1>8, <1>11, <2>1
  <2>3. m \in P /\ \A y \in v : m >= y BY <1>11, <2>1 DEF v
  <2> HIDE DEF iter, x, m, v
  <2>4. Op(x, m) \in P /\ Op(x, m) >= x /\ Op(x, m) >= m BY <1>1, <2>1, <2>3
  <2>5. \A y \in u : Op(x, m) >= y
    <3> SUFFICES ASSUME NEW y \in u PROVE Op(x, m) >= y OBVIOUS
    <3>1. y \in P BY <1>3
    <3> DEFINE k == Op(x, m)
    <3>2. k \in Nat /\ k >= x /\ k >= m /\ m \in Nat /\ y \in Nat
      BY <2>3, <2>4, <3>1
    <3> HIDE DEF k
    <3>3. CASE y \in v BY <2>3, <3>3, <3>2 DEF k
    <3> QED BY <2>1, <3>2, <3>3 DEF k
  <2> QED BY <2>2, <2>4, <2>5
<1>12. iter[S] \in Q[S] BY <1>2, <1>10, <1>11, FoldKeeps
<1> HIDE DEF iter
<1> QED BY <1>9, <1>12

---------------------------------------
(* A list changed in place. *)

LEMMA ChangedIs ==
  ASSUME NEW h, NEW s, List(h, s), NEW g, g = [p \in DOMAIN h |-> g[p]],
         \A p \in 1..Len(h) : p \notin ToSet(s) => g[p] = h[p],
         \A p \in ToSet(s) : g[p] \in Metric /\ g[p].step > 0
  PROVE  Changed(h, s, g) /\ List(g, s)
<1>1. h \in Heaps /\ Len(h) \in Nat /\ DOMAIN h = 1..Len(h) /\ \A p \in 1..Len(h) : h[p] \in Metric
  BY DEF List, Heaps
<1>2. \A p \in 1..Len(h) : g[p] \in Metric /\ (h[p].step > 0 => g[p].step > 0)
  BY <1>1
<1>3. g \in [1..Len(h) -> Metric] BY <1>1, <1>2
<1>4. g \in Heaps /\ Len(g) = Len(h) BY <1>1, <1>3 DEF Heaps
<1>5. Changed(h, s, g) BY <1>1, <1>2, <1>4 DEF Changed, Grown
<1> QED BY <1>5, ListGrown DEF Changed

LEMMA ChangedTwice ==
  ASSUME NEW h, NEW s, NEW g, NEW f, Changed(h, s, g), Changed(g, s, f)
  PROVE  Changed(h, s, f)
<1>1. Grown(h, f) /\ Len(f) = Len(h) BY GrownTwice DEF Changed
<1>2. ASSUME NEW p \in 1..Len(h), p \notin ToSet(s) PROVE f[p] = h[p]
  BY <1>2 DEF Changed
<1> QED BY <1>1, <1>2 DEF Changed

LEMMA InList ==
  ASSUME NEW h, NEW s, List(h, s), NEW p \in ToSet(s)
  PROVE  p \in 1..Len(h) /\ p \in DOMAIN h /\ h[p] \in Metric /\ h[p].step > 0 /\ s # <<>>
         /\ h[p].start \in {h[s[i]].start : i \in DOMAIN s}
         /\ h[p].stop \in {h[s[i]].stop : i \in DOMAIN s}
         /\ h[p].step \in Steps(h, s) /\ h[p].n \in Lengths(h, s)
  BY ListIs DEF ToSet, Steps, Lengths

LEMMA FixedIs ==
  ASSUME NEW h, NEW s, List(h, s)
  PROVE  LET f == Fixed(h, s)
         IN /\ Changed(h, s, f) /\ List(f, s)
            /\ \A p \in ToSet(s) : f[p] = FixStopTime(h[p])
            /\ \A p \in ToSet(s) : f[p].start = h[p].start /\ f[p].step = h[p].step /\ f[p].n = h[p].n
                                   /\ (h[p].stop = h[p].start + h[p].n * h[p].step => f[p].stop = h[p].stop)
                                   /\ f[p].arr = h[p].arr
<1> DEFINE f == Fixed(h, s)
<1>1. f = [p \in DOMAIN h |-> IF p \in ToSet(s) THEN FixStopTime(h[p]) ELSE h[p]]
  BY DEF Fixed
<1>2. DOMAIN h = 1..Len(h) BY ListIs
<1>3. ASSUME NEW p \in ToSet(s) PROVE f[p] = FixStopTime(h[p]) /\ h[p] \in Metric /\ h[p].step > 0
  BY <1>1, InList
<1>4. ASSUME NEW p \in 1..Len(h), p \notin ToSet(s) PROVE f[p] = h[p]
  BY <1>1, <1>2, <1>4
<1>5. f = [p \in DOMAIN h |-> f[p]] BY <1>1
<1> HIDE DEF f
<1>6. ASSUME NEW p \in ToSet(s)
      PROVE  /\ f[p] \in Metric /\ f[p].step > 0
             /\ f[p].start = h[p].start /\ f[p].step = h[p].step /\ f[p].n = h[p].n
             /\ (h[p].stop = h[p].start + h[p].n * h[p].step => f[p].stop = h[p].stop)
             /\ f[p].arr = h[p].arr
  BY <1>3, StopsAre
<1>7. Changed(h, s, f) /\ List(f, s) BY <1>4, <1>5, <1>6, ChangedIs
<1> QED BY <1>3, <1>6, <1>7 DEF f

LEMMA PaddedIs ==
  ASSUME NEW g, NEW s, List(g, s), NEW m \in Int
  PROVE  LET k == PaddedTo(g, s, m)
         IN /\ Changed(g, s, k) /\ List(k, s)
            /\ \A p \in ToSet(s) : /\ k[p].start = g[p].start /\ k[p].step = g[p].step /\ k[p].n = m
                                   /\ k[p].stop = k[p].start + m * k[p].step /\ k[p].arr = g[p].arr
<1> DEFINE k == PaddedTo(g, s, m)
           Op(r) == RecalcStopTime(PadBack(r, m - r.n))
<1>1. k = [p \in DOMAIN g |-> IF p \in ToSet(s) THEN Op(g[p]) ELSE g[p]]
  BY DEF PaddedTo, OnEach
<1>2. DOMAIN g = 1..Len(g) BY ListIs
<1>3. ASSUME NEW r \in Metric
      PROVE  /\ Op(r) \in Metric /\ Op(r).start = r.start /\ Op(r).step = r.step /\ Op(r).n = m
             /\ Op(r).stop = r.start + m * r.step /\ Op(r).arr = r.arr
  <2>1. m - r.n \in Int /\ r.n + (m - r.n) = m BY DEF Metric
  <2> DEFINE j == m - r.n
             q == PadBack(r, j)
  <2> HIDE DEF j
  <2>2. q \in Metric /\ q.n = r.n + j /\ q.start = r.start /\ q.step = r.step /\ q.arr = r.arr
    BY <2>1, PadsAre DEF j
  <2>3. q.n = m BY <2>1, <2>2 DEF j
  <2> HIDE DEF q
  <2>4. RecalcStopTime(q) \in Metric /\ RecalcStopTime(q).stop = q.start + q.n * q.step
        /\ RecalcStopTime(q).start = q.start /\ RecalcStopTime(q).step = q.step
        /\ RecalcStopTime(q).n = q.n /\ RecalcStopTime(q).arr = q.arr
    BY <2>2, StopsAre
  <2> QED BY <2>2, <2>3, <2>4 DEF q, j
<1>4. ASSUME NEW p \in ToSet(s) PROVE k[p] = Op(g[p]) /\ g[p] \in Metric /\ g[p].step > 0
  BY <1>1, InList
<1>5. ASSUME NEW p \in 1..Len(g), p \notin ToSet(s) PROVE k[p] = g[p]
  BY <1>1, <1>2, <1>5
<1>6. k = [p \in DOMAIN g |-> k[p]] BY <1>1
<1> HIDE DEF k, Op
<1>7. ASSUME NEW p \in ToSet(s)
      PROVE  /\ k[p] \in Metric /\ k[p].step > 0
             /\ k[p].start = g[p].start /\ k[p].step = g[p].step /\ k[p].n = m
             /\ k[p].stop = k[p].start + m * k[p].step /\ k[p].arr = g[p].arr
  BY <1>3, <1>4
<1>8. Changed(g, s, k) /\ List(k, s) BY <1>5, <1>6, <1>7, ChangedIs
<1> QED BY <1>7, <1>8 DEF k

LEMMA QuotIs ==
  ASSUME NEW a \in Int, NEW b \in Int, b # 0
  PROVE  Quot(a, b) \in Int
<1> DEFINE m == Greater(a, -a)
           d == Greater(b, -b)
           q == m \div d
<1>1. m \in Int /\ d \in Int /\ d > 0 BY DEF Greater
<1> HIDE DEF m, d
<1>2. q \in Int BY <1>1
<1> HIDE DEF q
<1>3. Quot(a, b) = IF (a >= 0) = (b >= 0) THEN q ELSE -q BY DEF Quot, q, m, d
<1> QED BY <1>2, <1>3

LEMMA ReachingIs ==
  ASSUME NEW r \in Metric, r.step > 0, NEW a \in Int, NEW b \in Int
  PROVE  /\ Reaching(r, a, b) \in Metric /\ Reaching(r, a, b).step = r.step
         /\ a <= r.start => Reaching(r, a, b).start = a
         /\ a = r.start /\ b <= r.stop => Reaching(r, a, b) = r
         /\ r.arr = 0 => Reaching(r, a, b).arr = 0
<1>1. r.start \in Int /\ r.step \in Int /\ r.stop \in Int /\ r.n \in Int
  BY DEF Metric
<1> DEFINE k == (r.start - a) \div r.step
           f == PadFront(r, k)
           q == IF a < r.start THEN [f EXCEPT !.start = a] ELSE r
<1>2. k \in Int BY <1>1
<1> HIDE DEF k
<1>3. f \in Metric /\ f.step = r.step /\ f.stop = r.stop /\ f.arr = 0
  BY <1>2, PadsAre
<1> HIDE DEF f
<1>4. q \in Metric /\ q.step = r.step /\ (a <= r.start => q.start = a) /\ (a = r.start => q = r) /\ q.stop = r.stop
      /\ (r.arr = 0 => q.arr = 0)
  BY <1>3, WithStart, <1>1
<1> HIDE DEF q
<1> DEFINE j == (b - q.stop) \div q.step
           g == PadBack(q, j)
<1>5. j \in Int BY <1>4 DEF Metric
<1> HIDE DEF j
<1>6. g \in Metric /\ g.step = q.step /\ g.start = q.start /\ g.arr = q.arr
  BY <1>4, <1>5, PadsAre
<1> HIDE DEF g
<1>7. [g EXCEPT !.stop = b] \in Metric /\ [g EXCEPT !.stop = b].step = g.step /\ [g EXCEPT !.stop = b].start = g.start
      /\ [g EXCEPT !.stop = b].arr = g.arr
  BY <1>6, WithStop
<1>8. Reaching(r, a, b) = IF b > q.stop THEN [g EXCEPT !.stop = b] ELSE q
  BY DEF Reaching, q, g, j, f, k
<1> QED BY <1>1, <1>4, <1>6, <1>7, <1>8

LEMMA ExtrapolatedIs ==
  ASSUME NEW r \in Metric, NEW m \in Int, m > 0
  PROVE  /\ Extrapolated(r, m) \in Metric /\ Extrapolated(r, m).step = m
         /\ Extrapolated(r, m).start = r.start /\ Extrapolated(r, m).arr = 0
<1>1. r.start \in Int /\ r.stop \in Int BY DEF Metric
<1> DEFINE k == CeilDiv(r.stop - r.start, m)
           q == NewValues(r, k)
<1>2. k \in Int BY <1>1 DEF CeilDiv
<1> HIDE DEF k
<1>3. q \in Metric /\ q.start = r.start /\ q.arr = 0 BY <1>2, NewValuesIs
<1> HIDE DEF q
<1>4. [q EXCEPT !.step = m] \in Metric /\ [q EXCEPT !.step = m].step = m /\ [q EXCEPT !.step = m].start = q.start
      /\ [q EXCEPT !.step = m].arr = q.arr
  BY <1>3, WithStep
<1> QED BY <1>3, <1>4 DEF Extrapolated, q, k

(* Repaired, and on the shortest step when points are extrapolated. *)
LEMMA PreparedIs ==
  ASSUME NEW h, NEW s, List(h, s), s # <<>>, NEW x \in BOOLEAN
  PROVE  LET g == Prepared(h, s, x)
         IN /\ Changed(h, s, g) /\ List(g, s)
            /\ \A p \in ToSet(s) : /\ g[p].start = h[p].start
                                   /\ g[p].step = IF x THEN Least(Steps(h, s)) ELSE h[p].step
                                   /\ h[p].step = Least(Steps(h, s)) => g[p] = FixStopTime(h[p])
                                   /\ h[p].arr = 0 => g[p].arr = 0
<1> DEFINE f == Fixed(h, s)
           m == Least(Steps(h, s))
           g == Prepared(h, s, x)
           Op(r) == IF r.step > m THEN Extrapolated(r, m) ELSE r
<1>1. /\ Changed(h, s, f) /\ List(f, s)
      /\ \A p \in ToSet(s) : f[p] = FixStopTime(h[p])
      /\ \A p \in ToSet(s) : f[p].start = h[p].start /\ f[p].step = h[p].step /\ f[p].arr = h[p].arr
  BY FixedIs
<1>2. m \in Int /\ m > 0 /\ \A p \in ToSet(s) : h[p].step >= m /\ h[p].step \in Int
  BY BoundsAre, StepsAre, InList
<1> HIDE DEF f, m
<1>3. CASE ~x BY <1>3, <1>1 DEF Prepared, OnEach, Fixed, f, m
<1>4. CASE x
  <2>1. g = [p \in DOMAIN f |-> IF p \in ToSet(s) THEN Op(f[p]) ELSE f[p]]
    BY <1>4 DEF Prepared, OnEach, Fixed, f, m
  <2>2. DOMAIN f = 1..Len(f) BY <1>1, ListIs
  <2>3. ASSUME NEW p \in ToSet(s) PROVE g[p] = Op(f[p]) /\ f[p] \in Metric /\ f[p].step > 0
    BY <1>1, <2>1, InList
  <2>4. ASSUME NEW p \in 1..Len(f), p \notin ToSet(s) PROVE g[p] = f[p]
    BY <2>1, <2>2, <2>4
  <2>5. g = [p \in DOMAIN f |-> g[p]] BY <2>1
  <2> HIDE DEF g
  <2>6. ASSUME NEW p \in ToSet(s)
        PROVE  g[p] \in Metric /\ g[p].step = m /\ g[p].start = h[p].start
               /\ (h[p].step = m => g[p] = FixStopTime(h[p])) /\ (h[p].arr = 0 => g[p].arr = 0)
    <3>1. Extrapolated(f[p], m) \in Metric /\ Extrapolated(f[p], m).step = m
          /\ Extrapolated(f[p], m).start = f[p].start /\ Extrapolated(f[p], m).arr = 0
      BY <1>2, <2>3, ExtrapolatedIs
    <3>2. f[p].step = h[p].step /\ f[p].start = h[p].start /\ f[p] = FixStopTime(h[p]) /\ f[p].arr = h[p].arr
      BY <1>1
    <3>3. f[p].step >= m /\ f[p].step \in Int BY <1>2, <3>2
    <3>4. CASE f[p].step > m BY <2>3, <3>4, <1>2, <3>1, <3>2
    <3>5. CASE ~(f[p].step > m) BY <2>3, <3>5, <1>2, <3>3, <3>2
    <3> QED BY <3>4, <3>5
  <2>7. \A p \in ToSet(s) : g[p] \in Metric /\ g[p].step > 0 BY <1>2, <2>6
  <2>8. Changed(f, s, g) /\ List(g, s) BY <1>1, <2>4, <2>5, <2>7, ChangedIs
  <2>9. Changed(h, s, g) BY <1>1, <2>8, ChangedTwice
  <2> QED BY <1>4, <2>6, <2>8, <2>9 DEF g, m
<1> QED BY <1>3, <1>4

(* One start and step, when the common step is at least each of theirs. *)
LEMMA RescaledIs ==
  ASSUME NEW h, NEW s, List(h, s), s # <<>>, NEW c \in Nat \ {0}, \A y \in Steps(h, s) : c >= y
  PROVE  LET g == Rescaled(h, s, c)
         IN /\ Changed(h, s, g) /\ List(g, s)
            /\ \A p, q \in ToSet(s) : g[p].start = g[q].start /\ g[p].step = g[q].step
<1> DEFINE first == Least({h[s[i]].start : i \in DOMAIN s})
           a == first - (first % c)
           Started(r) == IF a < r.start
                  THEN [PadFront(r, (r.start - a) \div r.step) EXCEPT !.start = a]
                  ELSE r
           Scaled(r) == IF r.step = c
                 THEN Started(r)
                 ELSE LET q == Started(r)
                          factor == c \div r.step
                          len == 1 + Quot(q.n - 1, factor)
                      IN [NewValues(PadBack(q, factor * len - q.n), len) EXCEPT !.step = c]
           g == Rescaled(h, s, c)
<1>1. first \in Int /\ \A p \in ToSet(s) : first <= h[p].start
  BY BoundsAre DEF MinStart
<1>2. a \in Int /\ a <= first BY <1>1
<1>3. \A p \in ToSet(s) : a <= h[p].start
  <2> SUFFICES ASSUME NEW p \in ToSet(s) PROVE a <= h[p].start OBVIOUS
  <2>1. h[p].start \in Int BY InList DEF Metric
  <2> HIDE DEF a, first
  <2> QED BY <1>1, <1>2, <2>1
<1> HIDE DEF a
<1>4. ASSUME NEW r \in Metric, r.step > 0, a <= r.start
      PROVE  Started(r) \in Metric /\ Started(r).start = a /\ Started(r).step = r.step
  <2>1. r.start \in Int /\ r.step \in Int BY DEF Metric
  <2> DEFINE k == (r.start - a) \div r.step
             f == PadFront(r, k)
  <2>2. k \in Int BY <1>2, <1>4, <2>1
  <2> HIDE DEF k
  <2>3. f \in Metric /\ f.step = r.step BY <2>2, PadsAre
  <2> HIDE DEF f
  <2>4. [f EXCEPT !.start = a] \in Metric /\ [f EXCEPT !.start = a].step = f.step /\ [f EXCEPT !.start = a].start = a
    BY <1>2, <2>3, WithStart
  <2>5. Started(r) = IF a < r.start THEN [f EXCEPT !.start = a] ELSE r BY DEF f, k
  <2> HIDE DEF Started
  <2> QED BY <1>2, <1>4, <2>1, <2>3, <2>4, <2>5
<1>5. ASSUME NEW r \in Metric, r.step > 0, a <= r.start, c >= r.step
      PROVE  Scaled(r) \in Metric /\ Scaled(r).start = a /\ Scaled(r).step = c
  <2> DEFINE q == Started(r)
  <2>1. q \in Metric /\ q.start = a /\ q.step = r.step BY <1>4, <1>5
  <2>2. Scaled(r) = IF r.step = c THEN q
                    ELSE [NewValues(PadBack(q, (c \div r.step) * (1 + Quot(q.n - 1, c \div r.step)) - q.n),
                                    1 + Quot(q.n - 1, c \div r.step)) EXCEPT !.step = c]
    OBVIOUS
  <2> HIDE DEF q, Scaled
  <2> DEFINE factor == c \div r.step
             len == 1 + Quot(q.n - 1, factor)
             j == factor * len - q.n
             b == PadBack(q, j)
             v == NewValues(b, len)
  <2>3. r.step \in Int /\ q.n \in Int BY <2>1 DEF Metric
  <2>4. factor \in Int /\ factor # 0 BY <1>5, <2>3
  <2> HIDE DEF factor
  <2>5. len \in Int
    <3> DEFINE j0 == q.n - 1
    <3>2. j0 \in Int BY <2>3
    <3> HIDE DEF j0
    <3>3. Quot(j0, factor) \in Int BY <2>4, <3>2, QuotIs
    <3>1. Quot(q.n - 1, factor) \in Int BY <3>3 DEF j0
    <3> QED BY <3>1
  <2> HIDE DEF len
  <2>6. j \in Int BY <2>3, <2>4, <2>5
  <2> HIDE DEF j
  <2>7. b \in Metric /\ b.start = q.start BY <2>1, <2>6, PadsAre
  <2> HIDE DEF b
  <2>8. v \in Metric /\ v.start = b.start BY <2>5, <2>7, NewValuesIs
  <2> HIDE DEF v
  <2>9. [v EXCEPT !.step = c] \in Metric /\ [v EXCEPT !.step = c].step = c /\ [v EXCEPT !.step = c].start = v.start
    BY <2>8, WithStep
  <2>10. Scaled(r) = IF r.step = c THEN q ELSE [v EXCEPT !.step = c]
    BY <2>2 DEF v, b, j, len, factor
  <2> QED BY <2>1, <2>7, <2>8, <2>9, <2>10
<1>6. g = [p \in DOMAIN h |-> IF p \in ToSet(s) THEN Scaled(h[p]) ELSE h[p]]
  BY DEF Rescaled, OnEach, a, first
<1> HIDE DEF Scaled, g, Started
<1>7. DOMAIN h = 1..Len(h) BY ListIs
<1>8. ASSUME NEW p \in ToSet(s) PROVE g[p] \in Metric /\ g[p].start = a /\ g[p].step = c
  BY <1>6, InList, <1>3, <1>5
<1>9. ASSUME NEW p \in 1..Len(h), p \notin ToSet(s) PROVE g[p] = h[p]
  BY <1>6, <1>7, <1>9
<1>10. g = [p \in DOMAIN h |-> g[p]] BY <1>6
<1>11. \A p \in ToSet(s) : g[p] \in Metric /\ g[p].step > 0 BY <1>8
<1>12. Changed(h, s, g) /\ List(g, s) BY <1>9, <1>10, <1>11, ChangedIs
<1> QED BY <1>8, <1>12 DEF g

(* ScaleToCommonStep: one grid. *)
LEMMA CommonStepIs ==
  ASSUME NEW h, NEW s, List(h, s), s # <<>>, NEW c \in Nat \ {0}, \A y \in Steps(h, s) : c >= y
  PROVE  LET k == ScaleToCommonStep(h, s, c)
         IN /\ Changed(h, s, k) /\ List(k, s)
            /\ \A p, q \in ToSet(s) : Alike(k[p], k[q])
            /\ \A p \in ToSet(s) : k[p].stop = k[p].start + k[p].n * k[p].step
<1> DEFINE g == Rescaled(h, s, c)
           m == Greatest(Lengths(g, s))
           k == PaddedTo(g, s, m)
<1>1. /\ Changed(h, s, g) /\ List(g, s)
      /\ \A p, q \in ToSet(s) : g[p].start = g[q].start /\ g[p].step = g[q].step
  BY RescaledIs
<1> HIDE DEF g
<1>2. m \in Int BY <1>1, BoundsAre
<1> HIDE DEF m
<1>3. /\ Changed(g, s, k) /\ List(k, s)
      /\ \A p \in ToSet(s) : /\ k[p].start = g[p].start /\ k[p].step = g[p].step /\ k[p].n = m
                             /\ k[p].stop = k[p].start + m * k[p].step
  BY <1>1, <1>2, PaddedIs
<1>4. ScaleToCommonStep(h, s, c) = k BY DEF ScaleToCommonStep, g, m
<1> HIDE DEF k
<1>5. Changed(h, s, k) BY <1>1, <1>3, ChangedTwice
<1>6. \A p, q \in ToSet(s) : Alike(k[p], k[q]) BY <1>1, <1>3 DEF Alike
<1> QED BY <1>3, <1>4, <1>5, <1>6

---------------------------------------

LEMMA FlatBounds ==
  ASSUME NEW h, NEW s, List(h, s), Flat(h, s), s # <<>>, NEW p \in ToSet(s)
  PROVE  /\ MinStart(h, s) = h[p].start /\ MaxStop(h, s) = h[p].stop
         /\ Least(Steps(h, s)) = h[p].step /\ Steps(h, s) = {h[p].step}
         /\ Greatest(Lengths(h, s)) = h[p].n
<1>1. \A q \in ToSet(s) : Alike(h[q], h[p]) BY DEF Flat
<1>2. \A y \in Steps(h, s) : y = h[p].step BY <1>1 DEF Alike, Steps, ToSet
<1>3. h[p].step \in Steps(h, s) BY InList
<1>4. Least(Steps(h, s)) \in Steps(h, s) BY BoundsAre
<1>5. MinStart(h, s) = h[p].start /\ MaxStop(h, s) = h[p].stop /\ Greatest(Lengths(h, s)) = h[p].n
  BY <1>1, BoundsAre DEF Alike
<1> QED BY <1>2, <1>3, <1>4, <1>5

LEMMA ReachedIs ==
  ASSUME NEW h, NEW s, List(h, s), s # <<>>, NEW x \in BOOLEAN
  PROVE  LET e == Reached(h, s, x)
         IN /\ Changed(h, s, e) /\ List(e, s)
            /\ \A p \in ToSet(s) : /\ e[p].start = MinStart(h, s)
                                   /\ e[p].step = IF x THEN Least(Steps(h, s)) ELSE h[p].step
                                   /\ h[p].arr = 0 => e[p].arr = 0
            /\ Flat(h, s) => Same(h, s, e)
<1> DEFINE g == Prepared(h, s, x)
           f == Fixed(h, s)
           a == MinStart(h, s)
           b == MaxStop(f, s)
           e == Reached(h, s, x)
<1>1. /\ Changed(h, s, g) /\ List(g, s)
      /\ \A p \in ToSet(s) : /\ g[p].start = h[p].start
                             /\ g[p].step = IF x THEN Least(Steps(h, s)) ELSE h[p].step
                             /\ h[p].step = Least(Steps(h, s)) => g[p] = FixStopTime(h[p])
                             /\ h[p].arr = 0 => g[p].arr = 0
  BY PreparedIs
<1>2. /\ Changed(h, s, f) /\ List(f, s)
      /\ \A p \in ToSet(s) : f[p] = FixStopTime(h[p])
      /\ \A p \in ToSet(s) : f[p].start = h[p].start /\ f[p].step = h[p].step /\ f[p].n = h[p].n
                             /\ (h[p].stop = h[p].start + h[p].n * h[p].step => f[p].stop = h[p].stop)
  BY FixedIs
<1>3. e = [p \in DOMAIN h |-> IF p \in ToSet(s) THEN Reaching(g[p], a, b) ELSE h[p]]
  BY DEF Reached
<1> HIDE DEF g, f, e
<1>4. a \in Int /\ b \in Int /\ \A p \in ToSet(s) : a <= h[p].start
  BY BoundsAre, <1>2
<1>5. Flat(h, s) => \A p \in ToSet(s) : a = h[p].start /\ b = h[p].stop
  <2> SUFFICES ASSUME Flat(h, s), NEW p \in ToSet(s) PROVE a = h[p].start /\ b = h[p].stop
    OBVIOUS
  <2>1. Flat(f, s) /\ f[p].stop = h[p].stop BY <1>2 DEF Flat, Alike
  <2> QED BY <1>2, <2>1, FlatBounds
<1> HIDE DEF a, b
<1>6. DOMAIN h = 1..Len(h) BY ListIs
<1>7. ASSUME NEW p \in ToSet(s) PROVE e[p] = Reaching(g[p], a, b) /\ g[p] \in Metric /\ g[p].step > 0 /\ h[p] \in Metric
  BY <1>1, <1>3, InList
<1>8. ASSUME NEW p \in 1..Len(h), p \notin ToSet(s) PROVE e[p] = h[p]
  BY <1>3, <1>6, <1>8
<1>9. e = [p \in DOMAIN h |-> e[p]] BY <1>3
<1>10. ASSUME NEW p \in ToSet(s)
       PROVE  e[p] \in Metric /\ e[p].step > 0 /\ e[p].step = g[p].step /\ e[p].start = a
              /\ (a = g[p].start /\ b <= g[p].stop => e[p] = g[p]) /\ (g[p].arr = 0 => e[p].arr = 0)
  BY <1>1, <1>4, <1>7, ReachingIs
<1>11. Changed(h, s, e) /\ List(e, s) BY <1>8, <1>9, <1>10, ChangedIs
<1>12. ASSUME Flat(h, s), NEW p \in ToSet(s) PROVE Alike(e[p], h[p])
  BY <1>1, <1>12, FlatBounds, <1>2, <1>4, <1>5, <1>10 DEF Flat, Alike
<1> QED BY <1>1, <1>10, <1>11, <1>12 DEF e, a, Same

(* AlignSeries: one start; series on one grid stay on it. *)
LEMMA AlignIs ==
  ASSUME NEW h, NEW s, List(h, s), s # <<>>, NEW x \in BOOLEAN
  PROVE  LET k == AlignSeries(h, s, x)
         IN /\ Changed(h, s, k) /\ List(k, s)
            /\ \A p \in ToSet(s) : k[p].stop = k[p].start + k[p].n * k[p].step
            /\ Flat(h, s) => Same(h, s, k)
            /\ \A p \in ToSet(s) : h[p].arr = 0 => k[p].arr = 0
<1> DEFINE e == Reached(h, s, x)
           k == AlignSeries(h, s, x)
<1>1. /\ Changed(h, s, e) /\ List(e, s)
      /\ \A p \in ToSet(s) : h[p].arr = 0 => e[p].arr = 0
      /\ Flat(h, s) => Same(h, s, e)
  BY ReachedIs
<1>2. DOMAIN Prepared(h, s, x) = DOMAIN h /\ \A p \in DOMAIN h : p \notin ToSet(s) => Prepared(h, s, x)[p] = h[p]
  BY PreparedIs DEF Changed, Grown, Heaps
<1>3. k = [p \in DOMAIN h |-> IF p \in ToSet(s) THEN RecalcStopTime(e[p]) ELSE h[p]]
  BY <1>2 DEF Reached, OnEach, Fixed, AlignSeries
<1> HIDE DEF k, e
<1>4. DOMAIN h = 1..Len(h) BY ListIs
<1>5. ASSUME NEW p \in ToSet(s)
      PROVE  /\ k[p] \in Metric /\ k[p].step > 0 /\ k[p].stop = k[p].start + k[p].n * k[p].step
             /\ k[p] = RecalcStopTime(e[p]) /\ k[p].arr = e[p].arr
             /\ k[p].start = e[p].start /\ k[p].step = e[p].step /\ k[p].n = e[p].n
  BY <1>3, InList, <1>1, StopsAre
<1>6. ASSUME NEW p \in 1..Len(h), p \notin ToSet(s) PROVE k[p] = h[p]
  BY <1>3, <1>4, <1>6
<1>7. k = [p \in DOMAIN h |-> k[p]] BY <1>3
<1>8. Changed(h, s, k) /\ List(k, s) BY <1>5, <1>6, <1>7, ChangedIs
<1>9. ASSUME Flat(h, s), NEW p \in ToSet(s) PROVE Alike(k[p], h[p])
  BY <1>1, <1>9, <1>5 DEF Same, Flat, Alike
<1> QED BY <1>1, <1>5, <1>8, <1>9 DEF k, Same

(* ScaleSeries: one grid. *)
LEMMA ScaleIs ==
  ASSUME NEW h, NEW s, List(h, s), s # <<>>, NEW x \in BOOLEAN
  PROVE  LET k == ScaleSeries(h, s, x)
         IN /\ Changed(h, s, k) /\ List(k, s) /\ Flat(k, s)
            /\ Flat(h, s) => Same(h, s, k)
<1> DEFINE f == Fixed(h, s)
           e == Reached(h, s, x)
           m == Greatest(Lengths(e, s))
           c == LCM(Steps(h, s))
           k == ScaleSeries(h, s, x)
           many == ~x /\ Cardinality(Steps(h, s)) > 1
<1>1. /\ Changed(h, s, e) /\ List(e, s)
      /\ \A p \in ToSet(s) : /\ e[p].start = MinStart(h, s)
                             /\ e[p].step = IF x THEN Least(Steps(h, s)) ELSE h[p].step
      /\ Flat(h, s) => Same(h, s, e)
  BY ReachedIs
<1>2. /\ Changed(h, s, f) /\ List(f, s)
      /\ \A p \in ToSet(s) : f[p].step = h[p].step
  BY FixedIs
<1>3. k = IF many THEN ScaleToCommonStep(f, s, c) ELSE PaddedTo(e, s, m)
  <2>1. DOMAIN Prepared(h, s, x) = DOMAIN h /\ \A p \in DOMAIN h : p \notin ToSet(s) => Prepared(h, s, x)[p] = h[p]
    BY PreparedIs DEF Changed, Grown, Heaps
  <2>2. OnEach(Prepared(h, s, x), s, LAMBDA r : Reaching(r, MinStart(h, s), MaxStop(f, s))) = e
    BY <2>1 DEF OnEach, Reached
  <2>3. OnEach(h, s, FixStopTime) = f BY DEF OnEach, Fixed
  <2> HIDE DEF f, e
  <2> QED BY <2>2, <2>3 DEF ScaleSeries
<1> HIDE DEF k
<1>4. CASE many
  <2>1. IsFiniteSet(Steps(h, s)) /\ \A y \in Steps(h, s) : y \in Nat \ {0}
    BY StepsAre
  <2>2. c \in Nat \ {0} /\ \A y \in Steps(h, s) : c >= y BY <2>1, LCMIs
  <2>3. Steps(f, s) = Steps(h, s) BY <1>2 DEF Steps, ToSet
  <2> HIDE DEF f, c
  <2>4. /\ Changed(f, s, k) /\ List(k, s)
        /\ \A p, q \in ToSet(s) : Alike(k[p], k[q])
        /\ \A p \in ToSet(s) : k[p].stop = k[p].start + k[p].n * k[p].step
    BY <1>2, <1>3, <1>4, <2>2, <2>3, CommonStepIs
  <2>5. Flat(h, s) => ~many
    <3> SUFFICES ASSUME Flat(h, s) PROVE ~(Cardinality(Steps(h, s)) > 1) OBVIOUS
    <3>1. s[1] \in ToSet(s) BY ListIs DEF ToSet
    <3>2. Steps(h, s) = {h[s[1]].step} BY <3>1, FlatBounds
    <3> DEFINE y == h[s[1]].step
    <3>3. Cardinality({y}) = 1 BY FS_Singleton
    <3> HIDE DEF y
    <3>4. Steps(h, s) = {y} BY <3>2 DEF y
    <3> QED BY <3>3, <3>4
  <2>6. Changed(h, s, k) BY <1>2, <2>4, ChangedTwice
  <2> QED BY <1>4, <2>4, <2>5, <2>6 DEF Flat, k
<1>5. CASE ~many
  <2>1. m \in Int BY <1>1, BoundsAre
  <2> HIDE DEF e, m
  <2>2. /\ Changed(e, s, k) /\ List(k, s)
        /\ \A p \in ToSet(s) : /\ k[p].start = e[p].start /\ k[p].step = e[p].step /\ k[p].n = m
                               /\ k[p].stop = k[p].start + m * k[p].step
    BY <1>1, <1>3, <1>5, <2>1, PaddedIs
  <2>3. \A p, q \in ToSet(s) : e[p].step = e[q].step
    <3>1. CASE x BY <1>1, <3>1
    <3>2. CASE ~x
      <4>1. ~(Cardinality(Steps(h, s)) > 1) /\ IsFiniteSet(Steps(h, s))
        BY <1>5, <3>2, StepsAre
      <4>2. \A y, z \in Steps(h, s) : y = z
        <5> SUFFICES ASSUME NEW y \in Steps(h, s), NEW z \in Steps(h, s), y # z PROVE FALSE
          OBVIOUS
        <5>1. Cardinality({y, z}) = 2
          <6> DEFINE A == {y}
                     B == A \cup {z}
          <6>1. IsFiniteSet(A) /\ Cardinality(A) = 1 BY FS_Singleton
          <6>2. z \notin A OBVIOUS
          <6>3. B = {y, z} OBVIOUS
          <6> HIDE DEF A
          <6>4. Cardinality(B) = Cardinality(A) + 1 BY <6>1, <6>2, FS_AddElement
          <6> HIDE DEF B
          <6>5. Cardinality(B) = 2 BY <6>1, <6>4
          <6> QED BY <6>3, <6>5
        <5>2. {y, z} \subseteq Steps(h, s) OBVIOUS
        <5>3. Cardinality({y, z}) <= Cardinality(Steps(h, s))
          BY <4>1, <5>2, FS_Subset
        <5>4. Cardinality(Steps(h, s)) \in Nat BY <4>1, FS_CardinalityType
        <5> QED BY <4>1, <5>1, <5>3, <5>4
      <4> QED BY <1>1, <3>2, <4>2, InList
    <3> QED BY <3>1, <3>2
  <2>4. Flat(k, s) BY <1>1, <2>2, <2>3 DEF Flat, Alike
  <2>5. ASSUME Flat(h, s) PROVE Same(h, s, k)
    <3> SUFFICES ASSUME NEW p \in ToSet(s) PROVE Alike(k[p], h[p]) BY DEF Same
    <3>1. \A q \in ToSet(s) : Alike(e[q], h[q]) BY <1>1, <2>5 DEF Same
    <3>2. Flat(e, s) BY <2>5, <3>1 DEF Flat, Alike
    <3>3. m = e[p].n BY <1>1, <3>2, FlatBounds DEF m
    <3> QED BY <2>2, <2>5, <3>1, <3>3 DEF Flat, Alike
  <2>6. Changed(h, s, k) BY <1>1, <2>2, ChangedTwice
  <2> QED BY <2>2, <2>4, <2>5, <2>6 DEF k
<1> QED BY <1>4, <1>5

---------------------------------------

LEMMA NearFlat ==
  ASSUME NEW h, NEW L, NEW s, Flat(h, L), Near(h, L, s)
  PROVE  Flat(h, s)
  BY DEF Flat, Near, Alike

LEMMA StillFlat ==
  ASSUME NEW h, NEW g, NEW L, List(h, L), Still(h, g), Flat(h, L)
  PROVE  Flat(g, L)
<1>1. \A p \in ToSet(L) : Alike(g[p], h[p]) BY InList DEF Still
<1> QED BY <1>1 DEF Flat, Alike

LEMMA StillTwice ==
  ASSUME NEW h, NEW g, NEW f, Grown(h, g), Still(h, g), Still(g, f)
  PROVE  Still(h, f)
<1>1. \A p \in 1..Len(h) : p \in 1..Len(g) BY DEF Grown, Heaps
<1> QED BY <1>1 DEF Still, Alike

LEMMA EmptyList == ASSUME NEW h \in Heaps PROVE List(h, <<>>) /\ ToSet(<<>>) = {}
<1>1. <<>> \in Seq(1..Len(h)) /\ DOMAIN <<>> = {} OBVIOUS
<1> QED BY <1>1 DEF List, ToSet

LEMMA FailuresSteady ==
  ASSUME NEW h \in Heaps, NEW L
  PROVE  /\ Steady(h, L, Err(h)) /\ Steady(h, L, Ok(h, <<>>))
         /\ ~Flat(h, L) => Steady(h, L, Panic(h))
<1>1. /\ Err(h).out.s = <<>> /\ Ok(h, <<>>).out.s = <<>> /\ Panic(h).out.s = <<>>
      /\ Err(h).h = h /\ Ok(h, <<>>).h = h /\ Panic(h).h = h
      /\ Err(h).st = "error" /\ Ok(h, <<>>).st = "ok"
      /\ Err(h).out.key = 0 /\ Ok(h, <<>>).out.key = 0 /\ Panic(h).out.key = 0
  BY DEF Err, Ok, Done, Own, Panic
<1>2. OutcomeOK(h, Err(h)) /\ OutcomeOK(h, Ok(h, <<>>)) /\ OutcomeOK(h, Panic(h))
  BY FailuresAre, EmptyIs
<1> HIDE DEF Err, Ok, Panic
<1>3. Still(h, h) /\ Near(h, L, <<>>) BY EmptyList DEF Still, Alike, Near
<1> QED BY <1>1, <1>2, <1>3, EmptyList DEF Steady, Safe

(* What a step adds to the outcome of the steps before it. *)
LEMMA SafeBoth ==
  ASSUME NEW h, NEW r, Safe(h, r), NEW o, Safe(r.h, o)
  PROVE  /\ Safe(h, [o EXCEPT !.out = Own(r.out.s \o o.out.s)])
         /\ [o EXCEPT !.out = Own(r.out.s \o o.out.s)].h = o.h
         /\ [o EXCEPT !.out = Own(r.out.s \o o.out.s)].st = o.st
         /\ [o EXCEPT !.out = Own(r.out.s \o o.out.s)].out = Own(r.out.s \o o.out.s)
         /\ ToSet([o EXCEPT !.out = Own(r.out.s \o o.out.s)].out.s) = ToSet(r.out.s) \cup ToSet(o.out.s)
<1> DEFINE t == r.out.s
           u == o.out.s
           v == t \o u
           x == Own(v)
           w == [o EXCEPT !.out = x]
<1>1. Grown(h, r.h) /\ Grown(r.h, o.h) /\ Grown(h, o.h) /\ List(r.h, t) /\ List(o.h, u) /\ o.h \in Heaps
  BY GrownTwice DEF Safe, OutcomeOK, Grown
<1>2. o = [h |-> o.h, out |-> o.out, st |-> o.st, put |-> <<>>] /\ o.st \in {"ok", "error", "panic", "hang"}
  BY DEF Safe, OutcomeOK
<1>3. List(o.h, t) BY <1>1, ListGrown
<1>4. List(o.h, v) BY <1>1, <1>3, ListBoth
<1>5. x \in Slices /\ x.s = v /\ x.key = 0 /\ Linked(x) /\ v \in Seq(1..Len(o.h))
  BY <1>1, <1>4, OwnIs DEF List
<1>6. ToSet(v) = ToSet(t) \cup ToSet(u)
  <2>1. t \in Seq(1..Len(r.h)) /\ u \in Seq(1..Len(o.h)) BY <1>1 DEF List
  <2> HIDE DEF t, u
  <2>2. Len(v) = Len(t) + Len(u) /\ DOMAIN v = 1..(Len(t) + Len(u)) /\ DOMAIN t = 1..Len(t) /\ DOMAIN u = 1..Len(u)
        /\ Len(t) \in Nat /\ Len(u) \in Nat
    BY <2>1
  <2>3. \A i \in 1..Len(t) : v[i] = t[i] BY <2>1
  <2>4. \A i \in 1..Len(u) : v[Len(t) + i] = u[i] BY <2>1
  <2>5. \A i \in 1..(Len(t) + Len(u)) : i \in 1..Len(t) \/ (i - Len(t) \in 1..Len(u) /\ i = Len(t) + (i - Len(t)))
    BY <2>2
  <2> HIDE DEF v
  <2>6. ASSUME NEW y \in ToSet(v) PROVE y \in ToSet(t) \cup ToSet(u)
    <3>1. PICK i \in 1..(Len(t) + Len(u)) : y = v[i] BY <2>2 DEF ToSet
    <3> QED BY <2>2, <2>3, <2>4, <2>5, <3>1 DEF ToSet
  <2>7. ASSUME NEW y \in ToSet(t) PROVE y \in ToSet(v) BY <2>2, <2>3 DEF ToSet
  <2>8. ASSUME NEW y \in ToSet(u) PROVE y \in ToSet(v)
    <3>1. PICK i \in 1..Len(u) : y = u[i] BY <2>2 DEF ToSet
    <3>2. Len(t) + i \in 1..(Len(t) + Len(u)) /\ y = v[Len(t) + i]
      BY <2>2, <2>4, <3>1
    <3> QED BY <2>2, <3>2 DEF ToSet
  <2> QED BY <2>6, <2>7, <2>8
<1> HIDE DEF x, v
<1>7. w = [h |-> o.h, out |-> x, st |-> o.st, put |-> <<>>] BY <1>2
<1> HIDE DEF w
<1>8. w.h = o.h /\ w.out = x /\ w.st = o.st BY <1>7
<1>9. OutcomeOK(h, w) BY <1>1, <1>2, <1>5, <1>7, <1>8 DEF OutcomeOK
<1> QED BY <1>4, <1>5, <1>6, <1>8, <1>9 DEF Safe, w, x, v

LEMMA SteadyBoth ==
  ASSUME NEW h, NEW L, List(h, L), NEW r, Steady(h, L, r), NEW o, Steady(r.h, L, o)
  PROVE  Steady(h, L, [o EXCEPT !.out = Own(r.out.s \o o.out.s)])
<1> DEFINE t == r.out.s
           u == o.out.s
           w == [o EXCEPT !.out = Own(t \o u)]
<1>1. Grown(h, r.h) /\ Grown(r.h, o.h) /\ List(r.h, t)
  BY DEF Steady, Safe, OutcomeOK
<1>2. Safe(h, w) /\ w.h = o.h /\ w.st = o.st /\ ToSet(w.out.s) = ToSet(t) \cup ToSet(u)
  BY SafeBoth DEF Steady
<1> HIDE DEF w
<1>3. ASSUME Flat(h, L)
      PROVE  o.st \in {"ok", "error"} /\ Still(h, o.h) /\ Near(o.h, L, w.out.s)
  <2>1. Still(h, r.h) /\ Near(r.h, L, t) BY <1>3 DEF Steady
  <2>2. Flat(r.h, L) BY <1>3, <2>1, StillFlat
  <2>3. o.st \in {"ok", "error"} /\ Still(r.h, o.h) /\ Near(o.h, L, u)
    BY <2>2 DEF Steady
  <2>4. List(r.h, L) BY <1>1, ListGrown
  <2>5. Near(o.h, L, t)
    <3> SUFFICES ASSUME NEW p \in ToSet(t) PROVE \E q \in ToSet(L) : Alike(o.h[p], o.h[q])
      BY DEF Near
    <3>1. PICK q \in ToSet(L) : Alike(r.h[p], r.h[q]) BY <2>1 DEF Near
    <3>2. p \in 1..Len(r.h) /\ q \in 1..Len(r.h) BY <1>1, <2>4, InList
    <3> QED BY <2>3, <3>1, <3>2 DEF Still, Alike
  <2> QED BY <1>1, <1>2, <2>1, <2>3, <2>5, StillTwice DEF Near
<1> QED BY <1>2, <1>3 DEF Steady, w

(* A new series on the grid of one of the list. *)
LEMMA NewSteady ==
  ASSUME NEW h, NEW L, List(h, L), NEW g, NEW recs \in Seq(Metric),
         Grown(h, g), \A i \in DOMAIN recs : recs[i].step > 0,
         Flat(h, L) => Still(h, g) /\ \A i \in DOMAIN recs : \E p \in ToSet(L) : Alike(recs[i], g[p])
  PROVE  Steady(h, L, New(g, recs))
<1> DEFINE r == New(g, recs)
           f == g \o recs
           s == [i \in DOMAIN recs |-> Len(g) + i]
<1>1. g \in Heaps BY DEF Grown
<1>2. /\ OutcomeOK(g, r) /\ r.st = "ok" /\ r.h = f /\ r.out.s = s /\ r.out.key = 0
  BY <1>1, NewIs
<1>3. /\ f \in Heaps /\ Len(f) = Len(g) + Len(recs) /\ Grown(g, f)
      /\ \A p \in 1..Len(g) : f[p] = g[p]
      /\ \A i \in DOMAIN recs : f[Len(g) + i] = recs[i]
  BY <1>1, GrownAppended
<1> HIDE DEF r, f
<1>4. Grown(h, f) BY <1>3, GrownTwice
<1>5. OutcomeOK(h, r) BY <1>2, <1>4 DEF OutcomeOK
<1>6. DOMAIN s = DOMAIN recs /\ \A i \in DOMAIN s : s[i] = Len(g) + i /\ f[s[i]] = recs[i]
  BY <1>3
<1>7. ToSet(s) = {Len(g) + i : i \in DOMAIN recs} BY DEF ToSet
<1>8. List(f, s) BY <1>2, <1>3, <1>6 DEF OutcomeOK, List
<1> HIDE DEF s
<1>9. ASSUME Flat(h, L) PROVE Still(h, f) /\ Near(f, L, s)
  <2>1. Still(h, g) /\ \A i \in DOMAIN recs : \E p \in ToSet(L) : Alike(recs[i], g[p])
    BY <1>9
  <2>2. \A p \in 1..Len(h) : p \in 1..Len(g) BY DEF Grown, Heaps
  <2>3. Still(h, f) BY <1>3, <2>1, <2>2 DEF Still
  <2>4. ASSUME NEW q \in ToSet(s) PROVE \E p \in ToSet(L) : Alike(f[q], f[p])
    <3>1. PICK i \in DOMAIN recs : f[q] = recs[i] BY <1>3, <1>7
    <3>2. PICK p \in ToSet(L) : Alike(recs[i], g[p]) BY <2>1
    <3>3. f[p] = g[p] BY <1>3, <2>2, InList
    <3> QED BY <3>1, <3>2, <3>3
  <2> QED BY <2>3, <2>4 DEF Near
<1> QED BY <1>2, <1>5, <1>8, <1>9 DEF Steady, Safe, r

LEMMA FlatPositive ==
  ASSUME NEW h, NEW s, List(h, s), s # <<>>, Flat(h, s), NEW x \in BOOLEAN
  PROVE  ~AlignPanics(h, s, x)
<1> SUFFICES ASSUME NEW i \in DOMAIN s, ExtrapolatePanics(FixStopTime(h[s[i]]), Least(Steps(h, s)))
             PROVE  FALSE
  BY DEF AlignPanics
<1>1. s[i] \in ToSet(s) BY DEF ToSet
<1>2. Least(Steps(h, s)) = h[s[i]].step /\ h[s[i]] \in Metric
  BY <1>1, FlatBounds, InList
<1>3. FixStopTime(h[s[i]]).step = h[s[i]].step /\ h[s[i]].step \in Int
  BY <1>2, StopsAre DEF Metric
<1>4. FixStopTime(h[s[i]]).step > Least(Steps(h, s)) BY DEF ExtrapolatePanics
<1> QED BY <1>2, <1>3, <1>4

LEMMA OkSteady ==
  ASSUME NEW h, NEW L, NEW s, List(h, s), Flat(h, L) => Near(h, L, s)
  PROVE  Steady(h, L, Ok(h, s))
<1>1. h \in Heaps /\ s \in Seq(1..Len(h)) BY DEF List
<1>2. OutcomeOK(h, Ok(h, s)) /\ Ok(h, s).st = "ok" /\ Ok(h, s).h = h /\ Ok(h, s).out.s = s /\ Ok(h, s).out.key = 0
  BY <1>1, OkIs
<1> HIDE DEF Ok
<1> QED BY <1>2 DEF Steady, Safe, Still, Alike

(* The points of a series aggregated into one. *)
LEMMA AggregateIs ==
  ASSUME NEW h, NEW L, List(h, L), NEW s, List(h, s), Flat(h, L) => Near(h, L, s), NEW x \in BOOLEAN
  PROVE  Steady(h, L, AggregateSeries(h, s, x))
<1> DEFINE g == ScaleSeries(h, s, x)
           a == g[s[1]]
           q == SetTag(Filled(CopyNameArg(a)))
<1>1. h \in Heaps BY DEF List
<1>2. CASE s = <<>> BY <1>2, OkSteady DEF AggregateSeries
<1>3. CASE s # <<>> /\ AlignPanics(h, s, x)
  BY <1>3, FlatPositive, NearFlat, <1>1, FailuresSteady DEF AggregateSeries
<1>4. CASE s # <<>> /\ ~AlignPanics(h, s, x)
  <2>1. /\ Changed(h, s, g) /\ List(g, s) /\ Flat(g, s)
        /\ Flat(h, s) => Same(h, s, g)
    BY <1>4, ScaleIs
  <2>2. 1 \in DOMAIN s /\ \A i \in DOMAIN s : s[i] \in ToSet(s)
    BY <1>4, ListIs DEF ToSet
  <2>3. AggregateSeries(h, s, x) = IF \E i \in DOMAIN s : g[s[i]].n < g[s[1]].n THEN Panic(g) ELSE New(g, <<q>>)
    BY <1>4 DEF AggregateSeries
  <2> HIDE DEF g
  <2>4. a \in Metric /\ a.step > 0 BY <2>1, <2>2, InList
  <2> HIDE DEF a
  <2>5. q \in Metric /\ Alike(q, a) BY <2>4, ShapesAre, CopiesAre
  <2>6. ~(\E i \in DOMAIN s : g[s[i]].n < g[s[1]].n)
    <3> SUFFICES ASSUME NEW i \in DOMAIN s PROVE ~(g[s[i]].n < g[s[1]].n) OBVIOUS
    <3>1. g[s[i]].n = g[s[1]].n BY <2>1, <2>2 DEF Flat, Alike
    <3>2. g[s[1]].n \in Int BY <2>4 DEF a, Metric
    <3> QED BY <3>1, <3>2
  <2>7. AggregateSeries(h, s, x) = New(g, <<q>>) BY <2>3, <2>6
  <2> HIDE DEF q
  <2> DEFINE recs == <<q>>
  <2>8. recs \in Seq(Metric) /\ DOMAIN recs = {1} /\ recs[1] = q BY <2>5
  <2> HIDE DEF recs
  <2>9. q.step > 0 BY <2>4, <2>5 DEF Alike
  <2>10. ASSUME Flat(h, L) PROVE Still(h, g) /\ \E p \in ToSet(L) : Alike(q, g[p])
    <3>1. Flat(h, s) BY <2>10, NearFlat
    <3>2. \A p \in ToSet(s) : Alike(g[p], h[p]) BY <2>1, <3>1 DEF Same
    <3>3. \A p \in 1..Len(h) : Alike(g[p], h[p]) BY <2>1, <3>2 DEF Changed, Alike
    <3>4. PICK p \in ToSet(L) : Alike(h[s[1]], h[p]) BY <2>2, <2>10 DEF Near
    <3>5. Alike(g[p], h[p]) /\ Alike(g[s[1]], h[s[1]]) BY <2>2, <3>2, <3>3, InList
    <3> QED BY <2>5, <3>3, <3>4, <3>5 DEF Still, Alike, a
  <2>11. Grown(h, g) BY <2>1 DEF Changed
  <2>12. Steady(h, L, New(g, recs)) BY <2>8, <2>9, <2>10, <2>11, NewSteady
  <2> QED BY <2>7, <2>12 DEF recs
<1> QED BY <1>2, <1>3, <1>4

(* Outcomes on a list are those of a call on it. *)
LEMMA SteadyGood ==
  ASSUME NEW h, NEW L, List(h, L), NEW r, Steady(h, L, r), NEW b
  PROVE  Good(h, L, b, r)
<1>1. OutcomeOK(h, r) BY DEF Steady, Safe
<1>2. ASSUME Regular(h, L) PROVE Served(r)
  <2>1. /\ L # <<>>
        /\ \A p \in ToSet(L) : h[p] \in Metric /\ Whole(h[p]) /\ Fits(h[p]) /\ Alike(h[p], h[L[1]])
    BY <1>2, RegularIs
  <2>2. Flat(h, L) BY <2>1 DEF Flat, Whole, Alike
  <2>3. r.st \in {"ok", "error"} /\ Still(h, r.h) /\ Near(r.h, L, r.out.s)
    BY <2>2 DEF Steady
  <2>4. ASSUME NEW i \in DOMAIN r.out.s PROVE Fits(r.h[r.out.s[i]])
    <3>1. r.out.s[i] \in ToSet(r.out.s) BY DEF ToSet
    <3>2. PICK q \in ToSet(L) : Alike(r.h[r.out.s[i]], r.h[q])
      BY <2>3, <3>1 DEF Near
    <3>3. Alike(r.h[q], h[q]) /\ Fits(h[q]) BY <2>1, <2>3, InList DEF Still
    <3> QED BY <3>2, <3>3, AlikeFits
  <2> QED BY <2>3, <2>4 DEF Served
<1> QED BY <1>1, <1>2 DEF Good

(* A step that ends the call, and one whose result is dropped. *)
LEMMA SteadyAfter ==
  ASSUME NEW h, NEW L, List(h, L), NEW r, Steady(h, L, r), NEW o, Steady(r.h, L, o)
  PROVE  /\ Steady(h, L, o)
         /\ Steady(h, L, [r EXCEPT !.h = o.h])
<1> DEFINE w == [r EXCEPT !.h = o.h]
           t == r.out.s
<1>1. Grown(h, r.h) /\ Grown(r.h, o.h) /\ Grown(h, o.h) /\ List(r.h, t) /\ List(o.h, t) /\ List(r.h, L)
  BY GrownTwice, ListGrown DEF Steady, Safe, OutcomeOK
<1>2. Safe(h, o) BY <1>1 DEF Steady, Safe, OutcomeOK
<1>3. w = [h |-> o.h, out |-> r.out, st |-> r.st, put |-> <<>>]
  <2>1. r = [h |-> r.h, out |-> r.out, st |-> r.st, put |-> <<>>]
    BY DEF Steady, Safe, OutcomeOK
  <2> QED BY <2>1
<1> HIDE DEF w
<1>4. w.h = o.h /\ w.out = r.out /\ w.st = r.st BY <1>3
<1>5. Safe(h, w) BY <1>1, <1>3, <1>4 DEF Steady, Safe, OutcomeOK, List
<1>6. ASSUME Flat(h, L)
      PROVE  /\ o.st \in {"ok", "error"} /\ r.st \in {"ok", "error"} /\ Still(h, o.h)
             /\ Near(o.h, L, o.out.s) /\ Near(o.h, L, t)
  <2>1. Still(h, r.h) /\ Near(r.h, L, t) /\ r.st \in {"ok", "error"}
    BY <1>6 DEF Steady
  <2>2. Flat(r.h, L) BY <1>6, <2>1, StillFlat
  <2>3. o.st \in {"ok", "error"} /\ Still(r.h, o.h) /\ Near(o.h, L, o.out.s)
    BY <2>2 DEF Steady
  <2>4. Near(o.h, L, t)
    <3> SUFFICES ASSUME NEW p \in ToSet(t) PROVE \E q \in ToSet(L) : Alike(o.h[p], o.h[q])
      BY DEF Near
    <3>1. PICK q \in ToSet(L) : Alike(r.h[p], r.h[q]) BY <2>1 DEF Near
    <3>2. p \in 1..Len(r.h) /\ q \in 1..Len(r.h) BY <1>1, InList
    <3> QED BY <2>3, <3>1, <3>2 DEF Still, Alike
  <2> QED BY <1>1, <2>1, <2>3, <2>4, StillTwice
<1>7. Steady(h, L, o) BY <1>2, <1>6 DEF Steady
<1>8. Steady(h, L, w) BY <1>4, <1>5, <1>6 DEF Steady
<1> QED BY <1>7, <1>8 DEF w

(* New series, each on the grid of one that is near the list. *)
LEMMA MapSteady ==
  ASSUME NEW h, NEW L, List(h, L), NEW s, List(h, s), Flat(h, L) => Near(h, L, s),
         NEW recs \in Seq(Metric), \A i \in DOMAIN recs : \E p \in ToSet(s) : Alike(recs[i], h[p])
  PROVE  Steady(h, L, New(h, recs))
<1>1. Grown(h, h) /\ Still(h, h) BY GrownSame DEF List, Still, Alike
<1>2. ASSUME NEW i \in DOMAIN recs
      PROVE  recs[i].step > 0 /\ (Flat(h, L) => \E q \in ToSet(L) : Alike(recs[i], h[q]))
  <2>1. PICK p \in ToSet(s) : Alike(recs[i], h[p]) OBVIOUS
  <2>2. h[p].step > 0 BY InList
  <2>3. ASSUME Flat(h, L) PROVE \E q \in ToSet(L) : Alike(recs[i], h[q])
    <3>1. PICK q \in ToSet(L) : Alike(h[p], h[q]) BY <2>3 DEF Near
    <3> QED BY <2>1, <3>1 DEF Alike
  <2> QED BY <2>1, <2>2, <2>3 DEF Alike
<1> QED BY <1>1, <1>2, NewSteady

LEMMA NearItself ==
  ASSUME NEW h, NEW L, NEW s, ToSet(s) \subseteq ToSet(L)
  PROVE  Near(h, L, s)
  BY DEF Near, Alike

---------------------------------------

LEMMA SafesAre == ASSUME NEW h, NEW r PROVE r \in Safes(h) <=> Safe(h, r)
  BY DEF Safes, Safe, OutcomeOK, Grown

LEMMA SteadiesAre == ASSUME NEW h, NEW L, NEW r PROVE r \in Steadies(h, L) <=> Steady(h, L, r)
  BY DEF Steadies, Steady, Safe, OutcomeOK, Grown

LEMMA FoldRuns ==
  ASSUME NEW n \in Nat, NEW P, NEW base \in P, NEW G \in [P \X (1..n) -> P]
  PROVE  \E f \in [SUBSET (1..n) -> P] : FoldMade(f, n, P, base, G)
<1> DEFINE M == [u \in SUBSET (1..n) |-> Max(u)]
<1>1. /\ IsFiniteSet(1..n)
      /\ \A u \in SUBSET (1..n) : u # {} => M[u] \in u /\ M[u] = Max(u) /\ u = (u \ {M[u]}) \cup {M[u]}
  BY Latest
<1> HIDE DEF M
<1>2. PICK f \in [SUBSET (1..n) -> P] : Folds(f, 1..n, base, G, M)
  BY <1>1, FoldOver
<1>3. f = [u \in SUBSET (1..n) |-> IF u = {} THEN base ELSE G[<<f[u \ {Max(u)}], Max(u)>>]]
  BY <1>2, <1>1 DEF Folds
<1>4. \A u \in SUBSET (1..n) : u # {} => f[u \ {Max(u)}] \in P /\ Max(u) \in 1..n
  <2> SUFFICES ASSUME NEW u \in SUBSET (1..n), u # {} PROVE f[u \ {Max(u)}] \in P /\ Max(u) \in 1..n
    OBVIOUS
  <2>1. u \ {Max(u)} \in SUBSET (1..n) OBVIOUS
  <2>2. f[u \ {Max(u)}] \in P
    <3> DEFINE v == u \ {Max(u)}
    <3> HIDE DEF v
    <3>1. f[v] \in P BY <2>1 DEF v
    <3> QED BY <3>1 DEF v
  <2>3. Max(u) \in 1..n BY <1>1
  <2> QED BY <2>2, <2>3
<1>5. FoldMade(f, n, P, base, G) BY <1>3, <1>4 DEF FoldMade
<1> QED BY <1>5

LEMMA FoldIn ==
  ASSUME NEW n \in Nat, NEW P, NEW f, f[{}] \in P,
         \A u \in SUBSET (1..n) : u # {} /\ Max(u) \in 1..n /\ f[u \ {Max(u)}] \in P => f[u] \in P
  PROVE  f[1..n] \in P
<1> DEFINE M == [u \in SUBSET (1..n) |-> Max(u)]
           Q == [u \in SUBSET (1..n) |-> P]
<1>1. /\ IsFiniteSet(1..n)
      /\ \A u \in SUBSET (1..n) : u # {} => M[u] \in u /\ M[u] = Max(u) /\ u = (u \ {M[u]}) \cup {M[u]}
  BY Latest
<1> HIDE DEF M
<1>2. f[{}] \in Q[{}] OBVIOUS
<1>3. ASSUME NEW u \in SUBSET (1..n), u # {}, f[u \ {M[u]}] \in Q[u \ {M[u]}] PROVE f[u] \in Q[u]
  BY <1>1, <1>3
<1>4. f[1..n] \in Q[1..n] BY <1>1, <1>2, <1>3, FoldKeeps
<1> QED BY <1>4

(* A group of series, one after the other. *)
LEMMA EachGroup ==
  ASSUME NEW h, NEW L, List(h, L), NEW x \in BOOLEAN, NEW w \in Seq(Seq(ToSet(L)))
  PROVE  \A r \in Each(Ok(h, <<>>), w, LAMBDA g, s : {AggregateSeries(g, s, x)}) : Steady(h, L, r)
<1> DEFINE P == SUBSET Steadies(h, L)
           n == Len(w)
           base == {Ok(h, <<>>)}
           Op(R, s) == UNION {IF r.st = "ok"
                              THEN {[o EXCEPT !.out = Own(r.out.s \o o.out.s)] : o \in {AggregateSeries(r.h, s, x)}}
                              ELSE {r} : r \in R}
           G == [p \in P \X (1..n) |-> Op(p[1], w[p[2]])]
           E(f) == f = [u \in SUBSET DOMAIN w |-> IF u = {} THEN base ELSE Op(f[u \ {Max(u)}], w[Max(u)])]
           iter == CHOOSE f : E(f)
<1>1. n \in Nat /\ DOMAIN w = 1..n /\ \A i \in 1..n : w[i] \in Seq(ToSet(L))
  OBVIOUS
<1>2. base \in P BY FailuresSteady, SteadiesAre DEF List
<1>3. ASSUME NEW R \in P, NEW s \in Seq(ToSet(L)) PROVE Op(R, s) \in P
  <2> SUFFICES ASSUME NEW r \in R, NEW o, o = AggregateSeries(r.h, s, x)
               PROVE  Steady(h, L, r) /\ Steady(h, L, [o EXCEPT !.out = Own(r.out.s \o o.out.s)])
    BY SteadiesAre
  <2>1. Steady(h, L, r) BY SteadiesAre
  <2>2. List(r.h, L) BY <2>1, ListGrown DEF Steady, Safe, OutcomeOK
  <2>3. List(r.h, s) /\ Near(r.h, L, s) BY <2>2, ListPart, SeqOver, NearItself
  <2>4. Steady(r.h, L, o) BY <2>2, <2>3, AggregateIs
  <2> QED BY <2>1, <2>4, SteadyBoth
<1>4. Each(Ok(h, <<>>), w, LAMBDA g, s : {AggregateSeries(g, s, x)}) = iter[1..n]
  BY <1>1 DEF Each, FoldLeft, MapThenFoldSet
<1> HIDE DEF P, Op, n, base
<1>5. \A R \in P, i \in 1..n : Op(R, w[i]) \in P BY <1>1, <1>3
<1>6. G \in [P \X (1..n) -> P] BY <1>5
<1>7. E(iter)
  <2>1. PICK f \in [SUBSET (1..n) -> P] : FoldMade(f, n, P, base, G)
    BY <1>1, <1>2, <1>6, FoldRuns
  <2>2. E(f) BY <1>1, <2>1 DEF FoldMade
  <2> HIDE DEF E
  <2> QED BY <2>2
<1> HIDE DEF iter
<1>8. iter[{}] = base /\ \A u \in SUBSET (1..n) : u # {} => iter[u] = Op(iter[u \ {Max(u)}], w[Max(u)])
  BY <1>1, <1>7
<1>9. iter[1..n] \in P
  <2>1. ASSUME NEW u \in SUBSET (1..n), u # {}, Max(u) \in 1..n, iter[u \ {Max(u)}] \in P PROVE iter[u] \in P
    BY <1>5, <1>8, <2>1
  <2> QED BY <1>1, <1>2, <1>8, <2>1, FoldIn
<1> QED BY <1>4, <1>9, SteadiesAre DEF P

(* A pair of series. *)
LEMMA PairList ==
  ASSUME NEW h \in Heaps, NEW p \in 1..Len(h), NEW q \in 1..Len(h), h[p].step > 0, h[q].step > 0
  PROVE  List(h, <<p, q>>) /\ ToSet(<<p, q>>) = {p, q} /\ DOMAIN <<p, q>> = {1, 2}
<1>1. <<p, q>> \in Seq(1..Len(h)) /\ DOMAIN <<p, q>> = {1, 2} OBVIOUS
<1> QED BY <1>1 DEF List, ToSet

LEMMA TwoNew ==
  ASSUME NEW h \in Heaps, NEW r \in Metric, NEW s \in Metric
  PROVE  LET g == h \o <<r, s>>
         IN /\ g \in Heaps /\ Len(g) = Len(h) + 2 /\ Grown(h, g)
            /\ \A i \in 1..Len(h) : g[i] = h[i]
            /\ g[Len(h) + 1] = r /\ g[Len(h) + 2] = s
<1> DEFINE recs == <<r, s>>
<1>1. recs \in Seq(Metric) /\ DOMAIN recs = {1, 2} /\ Len(recs) = 2 /\ recs[1] = r /\ recs[2] = s
  OBVIOUS
<1> HIDE DEF recs
<1> DEFINE g == h \o recs
<1>2. g \in Heaps /\ Len(g) = Len(h) + Len(recs) /\ Grown(h, g)
      /\ (\A i \in 1..Len(h) : g[i] = h[i]) /\ \A i \in DOMAIN recs : g[Len(h) + i] = recs[i]
  BY <1>1, GrownAppended
<1> HIDE DEF g
<1>3. g[Len(h) + 1] = r /\ g[Len(h) + 2] = s BY <1>1, <1>2
<1> QED BY <1>1, <1>2, <1>3 DEF g, recs

(* Numerator and denominator on one step: others are left alone, and so    *)
(* are these when they have one grid. *)
LEMMA ConsolidateIs ==
  ASSUME NEW h \in Heaps, NEW p \in 1..Len(h), NEW q \in 1..Len(h), h[p].step > 0, h[q].step > 0
  PROVE  LET c == ConsolidateSeriesByStep(h, p, q)
         IN /\ Grown(h, c[1]) /\ Extends(h, c[1])
            /\ c[2][1] \in 1..Len(c[1]) /\ c[2][2] \in 1..Len(c[1])
            /\ c[1][c[2][1]].step > 0 /\ c[1][c[2][2]].step > 0
            /\ Alike(h[p], h[q]) => c[1] = h /\ c[2][1] = p /\ c[2][2] = q
<1> DEFINE other == Cardinality({h[p].step, h[q].step}) > 1 \/ h[p].n # h[q].n
           c == ConsolidateSeriesByStep(h, p, q)
<1>1. h[p] \in Metric /\ h[q] \in Metric /\ Len(h) \in Nat /\ DOMAIN h = 1..Len(h)
  BY DEF Heaps
<1>2. CASE ~other BY <1>2, GrownSame DEF ConsolidateSeriesByStep, Extends
<1>3. CASE other
  <2> DEFINE m == Len(h)
             g == h \o <<Copy(h[p]), Copy(h[q])>>
             t == <<m + 1, m + 2>>
             k == LCM(Steps(h, <<p, q>>))
             f == ScaleToCommonStep(g, t, k)
  <2>1. c = <<f, t>> BY <1>3 DEF ConsolidateSeriesByStep
  <2>2. Copy(h[p]) \in Metric /\ Copy(h[q]) \in Metric /\ Alike(Copy(h[p]), h[p]) /\ Alike(Copy(h[q]), h[q])
    BY <1>1, CopiesAre
  <2>3. g \in Heaps /\ Len(g) = m + 2 /\ Grown(h, g) /\ (\A i \in 1..m : g[i] = h[i])
        /\ g[m + 1] = Copy(h[p]) /\ g[m + 2] = Copy(h[q])
    BY <2>2, TwoNew
  <2>4. g[m + 1].step = h[p].step /\ g[m + 2].step = h[q].step
    BY <2>2, <2>3 DEF Alike
  <2> HIDE DEF g, m
  <2>5. m + 1 \in 1..Len(g) /\ m + 2 \in 1..Len(g) /\ m \in Nat
    BY <1>1, <2>3 DEF m
  <2>6. List(g, t) /\ ToSet(t) = {m + 1, m + 2} /\ t # <<>> /\ DOMAIN t = {1, 2} /\ t[1] = m + 1 /\ t[2] = m + 2
    BY <2>3, <2>4, <2>5, PairList
  <2>7. List(h, <<p, q>>) /\ DOMAIN <<p, q>> = {1, 2} BY PairList
  <2>8. IsFiniteSet(Steps(h, <<p, q>>)) /\ \A y \in Steps(h, <<p, q>>) : y \in Nat \ {0}
    BY <2>7, StepsAre
  <2>9. k \in Nat \ {0} /\ \A y \in Steps(h, <<p, q>>) : k >= y BY <2>8, LCMIs
  <2> HIDE DEF k
  <2>10. \A y \in Steps(g, t) : y \in Steps(h, <<p, q>>)
    BY <2>4, <2>6, <2>7 DEF Steps
  <2> HIDE DEF t
  <2>11. Changed(g, t, f) /\ List(f, t) BY <2>6, <2>9, <2>10, CommonStepIs
  <2> HIDE DEF f
  <2>12. c[1] = f /\ c[2] = t BY <2>1
  <2>13. Grown(h, f) BY <2>3, <2>11, GrownTwice DEF Changed
  <2>14. \A i \in 1..m : f[i] = h[i]
    <3> SUFFICES ASSUME NEW i \in 1..m PROVE f[i] = h[i] OBVIOUS
    <3>1. i \in 1..Len(g) /\ i \notin ToSet(t) BY <2>3, <2>5, <2>6
    <3> QED BY <2>3, <2>11, <3>1 DEF Changed
  <2>15. f[m + 1].step > 0 /\ f[m + 2].step > 0 /\ m + 1 \in 1..Len(f) /\ m + 2 \in 1..Len(f)
    BY <2>6, <2>11, InList
  <2>16. ~Alike(h[p], h[q])
    <3> SUFFICES ASSUME Alike(h[p], h[q]) PROVE FALSE OBVIOUS
    <3> DEFINE y == h[p].step
    <3>1. {h[p].step, h[q].step} = {y} /\ h[p].n = h[q].n BY DEF Alike
    <3> HIDE DEF y
    <3>2. Cardinality({y}) = 1 BY FS_Singleton
    <3>3. Cardinality({h[p].step, h[q].step}) = 1 BY <3>1, <3>2
    <3> QED BY <1>3, <3>1, <3>3
  <2> HIDE DEF c
  <2> QED BY <2>6, <2>12, <2>13, <2>14, <2>15, <2>16 DEF c, m, Extends
<1> QED BY <1>2, <1>3

(* One quotient, product... of a pair. *)
LEMMA CombineIs ==
  ASSUME NEW h, NEW L, List(h, L), NEW p \in ToSet(L), NEW q \in ToSet(L)
  PROVE  LET c == ConsolidateSeriesByStep(h, p, q)
         IN Steady(h, L, New(c[1], <<Filled(CopyLink(c[1][c[2][1]]))>>))
<1> DEFINE c == ConsolidateSeriesByStep(h, p, q)
           g == c[1]
           i == c[2][1]
           v == Filled(CopyLink(g[i]))
           recs == <<v>>
<1>1. h \in Heaps /\ p \in 1..Len(h) /\ q \in 1..Len(h) /\ h[p].step > 0 /\ h[q].step > 0
  BY InList DEF List
<1>2. /\ Grown(h, g) /\ i \in 1..Len(g) /\ g[i].step > 0
      /\ Alike(h[p], h[q]) => g = h /\ i = p
  BY <1>1, ConsolidateIs
<1> HIDE DEF g, i
<1>3. g[i] \in Metric BY <1>2 DEF Grown, Heaps
<1>4. v \in Metric /\ Alike(v, g[i]) BY <1>3, ShapesAre
<1> HIDE DEF v
<1>5. recs \in Seq(Metric) /\ DOMAIN recs = {1} /\ recs[1] = v BY <1>4
<1> HIDE DEF recs
<1>6. \A j \in DOMAIN recs : recs[j].step > 0 BY <1>2, <1>4, <1>5 DEF Alike
<1>7. ASSUME Flat(h, L) PROVE Still(h, g) /\ \A j \in DOMAIN recs : \E y \in ToSet(L) : Alike(recs[j], g[y])
  BY <1>2, <1>7, <1>4, <1>5 DEF Flat, Still, Alike
<1>8. Steady(h, L, New(g, recs)) BY <1>2, <1>5, <1>6, <1>7, NewSteady
<1> QED BY <1>8 DEF recs, v, g, i

(* Two series aggregated, as they are or as copies. *)
LEMMA PairAggregated ==
  ASSUME NEW h, NEW L, List(h, L), NEW p \in ToSet(L), NEW q \in ToSet(L), NEW x \in BOOLEAN
  PROVE  Steady(h, L, AggregateSeries(h, <<p, q>>, x))
<1>1. h \in Heaps /\ p \in 1..Len(h) /\ q \in 1..Len(h) /\ h[p].step > 0 /\ h[q].step > 0
  BY InList DEF List
<1>2. List(h, <<p, q>>) /\ ToSet(<<p, q>>) = {p, q} BY <1>1, PairList
<1>3. Near(h, L, <<p, q>>) BY <1>2, NearItself
<1> HIDE DEF AggregateSeries
<1> QED BY <1>2, <1>3, AggregateIs

LEMMA CopiesAggregated ==
  ASSUME NEW h, NEW L, List(h, L), NEW p \in ToSet(L), NEW q \in ToSet(L), NEW x \in BOOLEAN
  PROVE  Steady(h, L, AggregateSeries(h \o <<CopyLink(h[p]), CopyLink(h[q])>>, <<Len(h) + 1, Len(h) + 2>>, x))
<1> DEFINE recs == <<CopyLink(h[p]), CopyLink(h[q])>>
           g == h \o recs
           t == <<Len(h) + 1, Len(h) + 2>>
           r == New(h, recs)
<1>1. h \in Heaps /\ h[p] \in Metric /\ h[q] \in Metric /\ ToSet(L) \subseteq ToSet(L)
  BY InList DEF List
<1>2. CopyLink(h[p]) \in Metric /\ Alike(CopyLink(h[p]), h[p]) /\ CopyLink(h[q]) \in Metric /\ Alike(CopyLink(h[q]), h[q])
  BY <1>1, CopiesAre
<1>3. recs \in Seq(Metric) /\ DOMAIN recs = {1, 2} /\ recs[1] = CopyLink(h[p]) /\ recs[2] = CopyLink(h[q])
  BY <1>2
<1>4. \A i \in DOMAIN recs : \E y \in ToSet(L) : Alike(recs[i], h[y])
  BY <1>2, <1>3
<1> HIDE DEF recs
<1>5. Steady(h, L, r) BY <1>1, <1>3, <1>4, MapSteady, NearItself
<1>6. r.h = g /\ r.out.s = [i \in DOMAIN recs |-> Len(h) + i] BY <1>1, <1>3, NewIs
<1>7. r.out.s = t BY <1>3, <1>6
<1> HIDE DEF r, t, g
<1>8. List(g, t) /\ List(g, L)
  BY <1>5, <1>6, <1>7, ListGrown DEF Steady, Safe, OutcomeOK
<1>9. Flat(g, L) => Near(g, L, t)
  <2> SUFFICES ASSUME Flat(g, L) PROVE Near(g, L, t) OBVIOUS
  <2>1. \A y \in 1..Len(h) : g[y] = h[y] BY <1>1, <1>3, GrownAppended DEF g
  <2>2. \A y \in ToSet(L) : g[y] = h[y] BY <2>1, InList
  <2>3. Flat(h, L) BY <2>2 DEF Flat
  <2> QED BY <1>5, <1>6, <1>7, <2>3 DEF Steady
<1>10. Steady(g, L, AggregateSeries(g, t, x)) BY <1>8, <1>9, AggregateIs
<1>11. Steady(h, L, AggregateSeries(g, t, x)) BY <1>5, <1>6, <1>10, SteadyAfter
<1> QED BY <1>11 DEF g, t, recs

LEMMA CombinedIs ==
  ASSUME NEW h, NEW L, List(h, L), NEW p \in ToSet(L) \X ToSet(L)
  PROVE  \A o \in {Combine(h, p)} : Steady(h, L, o)
<1>1. p[1] \in ToSet(L) /\ p[2] \in ToSet(L) OBVIOUS
<1> QED BY <1>1, CombineIs DEF Combine

LEMMA PairStep ==
  ASSUME NEW h, NEW L, List(h, L), NEW x \in BOOLEAN, NEW p \in ToSet(L) \X ToSet(L)
  PROVE  /\ \A o \in {AggregateSeries(h, <<p[1], p[2]>>, x)} : Steady(h, L, o)
         /\ \A o \in {AggregateSeries(h \o <<CopyLink(h[p[1]]), CopyLink(h[p[2]])>>,
                                      <<Len(h) + 1, Len(h) + 2>>, x)} : Steady(h, L, o)
<1>1. p[1] \in ToSet(L) /\ p[2] \in ToSet(L) OBVIOUS
<1> QED BY <1>1, PairAggregated, CopiesAggregated

(* Pairs of series, each aggregated. *)
LEMMA EachPair ==
  ASSUME NEW h, NEW L, List(h, L), NEW x \in BOOLEAN, NEW w \in Seq((ToSet(L) \X ToSet(L)))
  PROVE  \A r \in Each(Ok(h, <<>>), w, LAMBDA g, p : {AggregateSeries(g, <<p[1], p[2]>>, x)}) : Steady(h, L, r)
<1> DEFINE P == SUBSET Steadies(h, L)
           n == Len(w)
           base == {Ok(h, <<>>)}
           Do(g, p) == {AggregateSeries(g, <<p[1], p[2]>>, x)}
           Add(r, o) == [o EXCEPT !.out = Own(r.out.s \o o.out.s)]
           Op(R, v) == UNION {IF r.st = "ok"
                              THEN {Add(r, o) : o \in Do(r.h, v)}
                              ELSE {r} : r \in R}
           G == [p \in P \X (1..n) |-> Op(p[1], w[p[2]])]
           E(f) == f = [u \in SUBSET DOMAIN w |-> IF u = {} THEN base ELSE Op(f[u \ {Max(u)}], w[Max(u)])]
           iter == CHOOSE f : E(f)
<1>1. n \in Nat /\ DOMAIN w = 1..n /\ \A i \in 1..n : w[i] \in (ToSet(L) \X ToSet(L))
  OBVIOUS
<1>2. base \in P BY FailuresSteady, SteadiesAre DEF List
<1>3. ASSUME NEW R \in P, NEW v \in (ToSet(L) \X ToSet(L)) PROVE Op(R, v) \in P
  <2> SUFFICES ASSUME NEW r \in R PROVE Steady(h, L, r) /\ \A o \in Do(r.h, v) : Steady(h, L, Add(r, o))
    BY SteadiesAre
  <2>1. Steady(h, L, r) BY SteadiesAre
  <2>2. List(r.h, L) BY <2>1, ListGrown DEF Steady, Safe, OutcomeOK
  <2>3. \A o \in Do(r.h, v) : Steady(r.h, L, o) BY <2>2, PairStep
  <2> HIDE DEF Do
  <2> QED BY <2>1, <2>3, SteadyBoth
<1>4. Each(Ok(h, <<>>), w, LAMBDA g, p : {AggregateSeries(g, <<p[1], p[2]>>, x)}) = iter[1..n]
  BY <1>1 DEF Each, FoldLeft, MapThenFoldSet
<1> HIDE DEF P, Op, n, base
<1>5. \A R \in P, i \in 1..n : Op(R, w[i]) \in P BY <1>1, <1>3
<1>6. G \in [P \X (1..n) -> P] BY <1>5
<1>7. E(iter)
  <2>1. PICK f \in [SUBSET (1..n) -> P] : FoldMade(f, n, P, base, G)
    BY <1>1, <1>2, <1>6, FoldRuns
  <2>2. E(f) BY <1>1, <2>1 DEF FoldMade
  <2> HIDE DEF E
  <2> QED BY <2>2
<1> HIDE DEF iter
<1>8. iter[{}] = base /\ \A u \in SUBSET (1..n) : u # {} => iter[u] = Op(iter[u \ {Max(u)}], w[Max(u)])
  BY <1>1, <1>7
<1>9. iter[1..n] \in P
  <2>1. ASSUME NEW u \in SUBSET (1..n), u # {}, Max(u) \in 1..n, iter[u \ {Max(u)}] \in P PROVE iter[u] \in P
    BY <1>5, <1>8, <2>1
  <2> QED BY <1>1, <1>2, <1>8, <2>1, FoldIn
<1> QED BY <1>4, <1>9, SteadiesAre DEF P

(* Copies of pairs of series, each aggregated. *)
LEMMA EachCopies ==
  ASSUME NEW h, NEW L, List(h, L), NEW x \in BOOLEAN, NEW w \in Seq((ToSet(L) \X ToSet(L)))
  PROVE  \A r \in Each(Ok(h, <<>>), w, LAMBDA g, p : {AggregateSeries(g \o <<CopyLink(g[p[1]]), CopyLink(g[p[2]])>>,
                          <<Len(g) + 1, Len(g) + 2>>, x)}) : Steady(h, L, r)
<1> DEFINE P == SUBSET Steadies(h, L)
           n == Len(w)
           base == {Ok(h, <<>>)}
           Do(g, p) == {AggregateSeries(g \o <<CopyLink(g[p[1]]), CopyLink(g[p[2]])>>,
                        <<Len(g) + 1, Len(g) + 2>>, x)}
           Add(r, o) == [o EXCEPT !.out = Own(r.out.s \o o.out.s)]
           Op(R, v) == UNION {IF r.st = "ok"
                              THEN {Add(r, o) : o \in Do(r.h, v)}
                              ELSE {r} : r \in R}
           G == [p \in P \X (1..n) |-> Op(p[1], w[p[2]])]
           E(f) == f = [u \in SUBSET DOMAIN w |-> IF u = {} THEN base ELSE Op(f[u \ {Max(u)}], w[Max(u)])]
           iter == CHOOSE f : E(f)
<1>1. n \in Nat /\ DOMAIN w = 1..n /\ \A i \in 1..n : w[i] \in (ToSet(L) \X ToSet(L))
  OBVIOUS
<1>2. base \in P BY FailuresSteady, SteadiesAre DEF List
<1>3. ASSUME NEW R \in P, NEW v \in (ToSet(L) \X ToSet(L)) PROVE Op(R, v) \in P
  <2> SUFFICES ASSUME NEW r \in R PROVE Steady(h, L, r) /\ \A o \in Do(r.h, v) : Steady(h, L, Add(r, o))
    <3> HIDE DEF Steadies, Do, Add
    <3> QED BY SteadiesAre
  <2>1. Steady(h, L, r) BY SteadiesAre
  <2>2. List(r.h, L) BY <2>1, ListGrown DEF Steady, Safe, OutcomeOK
  <2>3. \A o \in Do(r.h, v) : Steady(r.h, L, o) BY <2>2, PairStep
  <2> HIDE DEF Do
  <2> QED BY <2>1, <2>3, SteadyBoth
<1>4. Each(Ok(h, <<>>), w, LAMBDA g, p : {AggregateSeries(g \o <<CopyLink(g[p[1]]), CopyLink(g[p[2]])>>,
                        <<Len(g) + 1, Len(g) + 2>>, x)}) = iter[1..n]
  BY <1>1 DEF Each, FoldLeft, MapThenFoldSet
<1> HIDE DEF P, Op, n, base
<1>5. \A R \in P, i \in 1..n : Op(R, w[i]) \in P BY <1>1, <1>3
<1>6. G \in [P \X (1..n) -> P] BY <1>5
<1>7. E(iter)
  <2>1. PICK f \in [SUBSET (1..n) -> P] : FoldMade(f, n, P, base, G)
    BY <1>1, <1>2, <1>6, FoldRuns
  <2>2. E(f) BY <1>1, <2>1 DEF FoldMade
  <2> HIDE DEF E
  <2> QED BY <2>2
<1> HIDE DEF iter
<1>8. iter[{}] = base /\ \A u \in SUBSET (1..n) : u # {} => iter[u] = Op(iter[u \ {Max(u)}], w[Max(u)])
  BY <1>1, <1>7
<1>9. iter[1..n] \in P
  <2>1. ASSUME NEW u \in SUBSET (1..n), u # {}, Max(u) \in 1..n, iter[u \ {Max(u)}] \in P PROVE iter[u] \in P
    BY <1>5, <1>8, <2>1
  <2> QED BY <1>1, <1>2, <1>8, <2>1, FoldIn
<1> QED BY <1>4, <1>9, SteadiesAre DEF P

LEMMA CallbackIs ==
  ASSUME NEW h, NEW L, List(h, L), NEW x \in BOOLEAN, NEW v \in Seq(ToSet(L))
  PROVE  \A c \in Callback(h, v, x) : Steady(h, L, c)
<1> DEFINE recs == [i \in DOMAIN v |-> CopyLinkTags(h[v[i]])]
<1>1. h \in Heaps /\ List(h, v) /\ Near(h, L, v) /\ ToSet(v) \subseteq ToSet(L)
  BY ListPart, SeqOver, NearItself DEF List
<1>2. DOMAIN recs = DOMAIN v /\ DOMAIN v = 1..Len(v) /\ Len(v) \in Nat OBVIOUS
<1>3. \A i \in DOMAIN v : recs[i] \in Metric /\ recs[i] = h[v[i]] /\ v[i] \in ToSet(v)
  BY <1>1, ListIs, CopiesAre DEF ToSet
<1>4. recs \in Seq(Metric) BY <1>2, <1>3 DEF recs
<1> HIDE DEF recs
<1>5. Steady(h, L, New(h, recs)) BY <1>1, <1>2, <1>3, <1>4, MapSteady DEF Alike
<1>6. Steady(h, L, AggregateSeries(h, v, x)) BY <1>1, AggregateIs
<1>7. Steady(h, L, Err(h)) /\ Steady(h, L, Ok(h, <<>>)) BY <1>1, FailuresSteady
<1> QED BY <1>5, <1>6, <1>7 DEF Callback, recs

(* New series of the result of a callback. *)
LEMMA ResultIs ==
  ASSUME NEW h, NEW L, List(h, L), NEW r, Steady(h, L, r), NEW c, Steady(r.h, L, c),
         NEW recs \in Seq(Metric), \A i \in DOMAIN recs : \E p \in ToSet(c.out.s) : Alike(recs[i], c.h[p])
  PROVE  Steady(h, L, Ok(New(c.h, recs).h, r.out.s \o New(c.h, recs).out.s))
<1> DEFINE t == New(c.h, recs)
           g == r.h
           u == r.out.s \o t.out.s
<1>1. List(g, L) /\ Grown(g, c.h) /\ List(c.h, c.out.s)
  BY ListGrown DEF Steady, Safe, OutcomeOK
<1>2. \A i \in DOMAIN recs : recs[i].step > 0
  <2> SUFFICES ASSUME NEW i \in DOMAIN recs PROVE recs[i].step > 0 OBVIOUS
  <2>1. PICK p \in ToSet(c.out.s) : Alike(recs[i], c.h[p]) OBVIOUS
  <2> QED BY <1>1, <2>1, InList DEF Alike
<1>3. ASSUME Flat(g, L)
      PROVE  Still(g, c.h) /\ \A i \in DOMAIN recs : \E p \in ToSet(L) : Alike(recs[i], c.h[p])
  <2>1. Still(g, c.h) /\ Near(c.h, L, c.out.s) BY <1>3 DEF Steady
  <2> SUFFICES ASSUME NEW i \in DOMAIN recs PROVE \E p \in ToSet(L) : Alike(recs[i], c.h[p])
    BY <2>1
  <2>2. PICK p \in ToSet(c.out.s) : Alike(recs[i], c.h[p]) OBVIOUS
  <2>3. PICK q \in ToSet(L) : Alike(c.h[p], c.h[q]) BY <2>1 DEF Near
  <2> QED BY <2>2, <2>3 DEF Alike
<1>4. Steady(g, L, t) BY <1>1, <1>2, <1>3, NewSteady
<1>5. Steady(h, L, [t EXCEPT !.out = Own(u)]) BY <1>4, SteadyBoth
<1>6. t = [h |-> c.h \o recs, out |-> t.out, st |-> "ok", put |-> <<>>]
  BY DEF New, Ok, Done
<1>7. [t EXCEPT !.out = Own(u)] = Ok(t.h, u)
  <2> DEFINE v == Own(u)
  <2>1. Ok(t.h, u) = [h |-> t.h, out |-> v, st |-> "ok", put |-> <<>>]
    BY DEF Ok, Done
  <2> DEFINE o == t.out
             k == t.h
  <2> HIDE DEF t, u, v
  <2>2. t = [h |-> k, out |-> o, st |-> "ok", put |-> <<>>] BY <1>6
  <2>3. [t EXCEPT !.out = v] = [h |-> k, out |-> v, st |-> "ok", put |-> <<>>]
    BY <2>2
  <2> QED BY <2>1, <2>3 DEF v
<1> QED BY <1>5, <1>7

LEMMA FirstNamedIs ==
  ASSUME NEW h, NEW L, List(h, L), NEW r, Steady(h, L, r), NEW c, Steady(r.h, L, c)
  PROVE  /\ Steady(h, L, Ok(FirstNamed(c.h, c.out.s).h, r.out.s \o FirstNamed(c.h, c.out.s).out.s))
         /\ Steady(h, L, Ok(AllTagged(c.h, c.out.s).h, r.out.s \o AllTagged(c.h, c.out.s).out.s))
<1> DEFINE g == c.h
           s == c.out.s
           k == Lesser(1, Len(s))
           one == [i \in 1..k |-> CopyName(g[s[i]])]
           all == [i \in DOMAIN s |-> [CopyTag(g[s[i]]) EXCEPT !.tags = 0]]
<1>1. List(g, s) BY DEF Steady, Safe
<1> HIDE DEF g, s
<1>2. Len(s) \in Nat /\ DOMAIN s = 1..Len(s) /\ \A i \in DOMAIN s : g[s[i]] \in Metric /\ s[i] \in ToSet(s)
  BY <1>1, ListIs DEF ToSet
<1>3. k \in Nat /\ \A i \in 1..k : i \in DOMAIN s BY <1>2 DEF Lesser
<1> HIDE DEF k
<1>4. \A i \in 1..k : one[i] \in Metric /\ Alike(one[i], g[s[i]])
  BY <1>2, <1>3, ShapesAre
<1>5. one \in Seq(Metric) /\ DOMAIN one = 1..k BY <1>4, <1>3
<1>6. \A i \in DOMAIN s : all[i] \in Metric /\ Alike(all[i], g[s[i]])
  <2> SUFFICES ASSUME NEW q \in Metric PROVE [CopyTag(q) EXCEPT !.tags = 0] \in Metric /\ Alike([CopyTag(q) EXCEPT !.tags = 0], q)
    BY <1>2
  <2> QED BY WithTags DEF CopyTag, Alike
<1>7. all \in Seq(Metric) /\ DOMAIN all = DOMAIN s BY <1>2, <1>6
<1> HIDE DEF one, all
<1>8. Steady(h, L, Ok(New(c.h, one).h, r.out.s \o New(c.h, one).out.s))
  BY <1>2, <1>3, <1>4, <1>5, ResultIs DEF g, s
<1>9. Steady(h, L, Ok(New(c.h, all).h, r.out.s \o New(c.h, all).out.s))
  BY <1>2, <1>6, <1>7, ResultIs DEF g, s
<1>10. FirstNamed(c.h, c.out.s) = New(c.h, one) /\ AllTagged(c.h, c.out.s) = New(c.h, all)
  BY DEF FirstNamed, AllTagged, one, all, k, g, s
<1> QED BY <1>8, <1>9, <1>10

(* What a group adds, errors dropped or not. *)
LEMMA GroupAdds ==
  ASSUME NEW h, NEW L, List(h, L), NEW r, Steady(h, L, r), NEW c, Steady(r.h, L, c)
  PROVE  /\ Steady(h, L, IF c.st = "error" THEN [r EXCEPT !.h = c.h] ELSE IF c.st # "ok" THEN c
                         ELSE Ok(FirstNamed(c.h, c.out.s).h, r.out.s \o FirstNamed(c.h, c.out.s).out.s))
         /\ Steady(h, L, IF c.st = "error" THEN c ELSE IF c.st # "ok" THEN c
                         ELSE Ok(AllTagged(c.h, c.out.s).h, r.out.s \o AllTagged(c.h, c.out.s).out.s))
<1>1. Steady(h, L, c) /\ Steady(h, L, [r EXCEPT !.h = c.h]) BY SteadyAfter
<1> QED BY <1>1, FirstNamedIs

(* groupByNode: one series for each group. *)
LEMMA GroupsNamed ==
  ASSUME NEW h, NEW L, List(h, L), NEW x \in BOOLEAN, NEW w \in Seq(Seq(ToSet(L)))
  PROVE  \A r \in CallGroups(h, w, x, FALSE, LAMBDA g, s : New(g, [i \in 1..Lesser(1, Len(s)) |-> CopyName(g[s[i]])])) : Steady(h, L, r)
<1> DEFINE P == SUBSET Steadies(h, L)
           n == Len(w)
           base == {Ok(h, <<>>)}
           Do(g, v) == Callback(g, v, x)
           Add(r, o) == (IF o.st = "error" THEN [r EXCEPT !.h = o.h] ELSE IF o.st # "ok" THEN o
                                     ELSE Ok(FirstNamed(o.h, o.out.s).h, r.out.s \o FirstNamed(o.h, o.out.s).out.s))
           Op(R, v) == UNION {IF r.st = "ok"
                              THEN {Add(r, o) : o \in Do(r.h, v)}
                              ELSE {r} : r \in R}
           G == [p \in P \X (1..n) |-> Op(p[1], w[p[2]])]
           E(f) == f = [u \in SUBSET DOMAIN w |-> IF u = {} THEN base ELSE Op(f[u \ {Max(u)}], w[Max(u)])]
           iter == CHOOSE f : E(f)
<1>1. n \in Nat /\ DOMAIN w = 1..n /\ \A i \in 1..n : w[i] \in Seq(ToSet(L))
  OBVIOUS
<1>2. base \in P BY FailuresSteady, SteadiesAre DEF List
<1>3. ASSUME NEW R \in P, NEW v \in Seq(ToSet(L)) PROVE Op(R, v) \in P
  <2> SUFFICES ASSUME NEW r \in R PROVE Steady(h, L, r) /\ \A o \in Do(r.h, v) : Steady(h, L, Add(r, o))
    <3> HIDE DEF Steadies, Do, Add
    <3> QED BY SteadiesAre
  <2>1. Steady(h, L, r) BY SteadiesAre
  <2>2. List(r.h, L) BY <2>1, ListGrown DEF Steady, Safe, OutcomeOK
  <2>3. \A o \in Do(r.h, v) : Steady(r.h, L, o) BY <2>2, CallbackIs
  <2> HIDE DEF Do
  <2> QED BY <2>1, <2>3, GroupAdds
<1>4. CallGroups(h, w, x, FALSE, LAMBDA g, s : New(g, [i \in 1..Lesser(1, Len(s)) |-> CopyName(g[s[i]])])) = iter[1..n]
  BY <1>1 DEF CallGroups, FirstNamed, FoldLeft, MapThenFoldSet
<1> HIDE DEF P, Op, n, base
<1>5. \A R \in P, i \in 1..n : Op(R, w[i]) \in P BY <1>1, <1>3
<1>6. G \in [P \X (1..n) -> P] BY <1>5
<1>7. E(iter)
  <2>1. PICK f \in [SUBSET (1..n) -> P] : FoldMade(f, n, P, base, G)
    BY <1>1, <1>2, <1>6, FoldRuns
  <2>2. E(f) BY <1>1, <2>1 DEF FoldMade
  <2> HIDE DEF E
  <2> QED BY <2>2
<1> HIDE DEF iter
<1>8. iter[{}] = base /\ \A u \in SUBSET (1..n) : u # {} => iter[u] = Op(iter[u \ {Max(u)}], w[Max(u)])
  BY <1>1, <1>7
<1>9. iter[1..n] \in P
  <2>1. ASSUME NEW u \in SUBSET (1..n), u # {}, Max(u) \in 1..n, iter[u \ {Max(u)}] \in P PROVE iter[u] \in P
    BY <1>5, <1>8, <2>1
  <2> QED BY <1>1, <1>2, <1>8, <2>1, FoldIn
<1> QED BY <1>4, <1>9, SteadiesAre DEF P

(* groupByTags: every series of each group. *)
LEMMA GroupsTagged ==
  ASSUME NEW h, NEW L, List(h, L), NEW x \in BOOLEAN, NEW w \in Seq(Seq(ToSet(L)))
  PROVE  \A r \in CallGroups(h, w, x, TRUE, LAMBDA g, s : New(g, [i \in DOMAIN s |-> [CopyTag(g[s[i]]) EXCEPT !.tags = 0]])) : Steady(h, L, r)
<1> DEFINE P == SUBSET Steadies(h, L)
           n == Len(w)
           base == {Ok(h, <<>>)}
           Do(g, v) == Callback(g, v, x)
           Add(r, o) == (IF o.st = "error" THEN o ELSE IF o.st # "ok" THEN o
                                     ELSE Ok(AllTagged(o.h, o.out.s).h, r.out.s \o AllTagged(o.h, o.out.s).out.s))
           Op(R, v) == UNION {IF r.st = "ok"
                              THEN {Add(r, o) : o \in Do(r.h, v)}
                              ELSE {r} : r \in R}
           G == [p \in P \X (1..n) |-> Op(p[1], w[p[2]])]
           E(f) == f = [u \in SUBSET DOMAIN w |-> IF u = {} THEN base ELSE Op(f[u \ {Max(u)}], w[Max(u)])]
           iter == CHOOSE f : E(f)
<1>1. n \in Nat /\ DOMAIN w = 1..n /\ \A i \in 1..n : w[i] \in Seq(ToSet(L))
  OBVIOUS
<1>2. base \in P BY FailuresSteady, SteadiesAre DEF List
<1>3. ASSUME NEW R \in P, NEW v \in Seq(ToSet(L)) PROVE Op(R, v) \in P
  <2> SUFFICES ASSUME NEW r \in R PROVE Steady(h, L, r) /\ \A o \in Do(r.h, v) : Steady(h, L, Add(r, o))
    BY SteadiesAre
  <2>1. Steady(h, L, r) BY SteadiesAre
  <2>2. List(r.h, L) BY <2>1, ListGrown DEF Steady, Safe, OutcomeOK
  <2>3. \A o \in Do(r.h, v) : Steady(r.h, L, o) BY <2>2, CallbackIs
  <2> HIDE DEF Do
  <2> QED BY <2>1, <2>3, GroupAdds
<1>4. CallGroups(h, w, x, TRUE, LAMBDA g, s : New(g, [i \in DOMAIN s |-> [CopyTag(g[s[i]]) EXCEPT !.tags = 0]])) = iter[1..n]
  BY <1>1 DEF CallGroups, AllTagged, FoldLeft, MapThenFoldSet
<1> HIDE DEF P, Op, n, base
<1>5. \A R \in P, i \in 1..n : Op(R, w[i]) \in P BY <1>1, <1>3
<1>6. G \in [P \X (1..n) -> P] BY <1>5
<1>7. E(iter)
  <2>1. PICK f \in [SUBSET (1..n) -> P] : FoldMade(f, n, P, base, G)
    BY <1>1, <1>2, <1>6, FoldRuns
  <2>2. E(f) BY <1>1, <2>1 DEF FoldMade
  <2> HIDE DEF E
  <2> QED BY <2>2
<1> HIDE DEF iter
<1>8. iter[{}] = base /\ \A u \in SUBSET (1..n) : u # {} => iter[u] = Op(iter[u \ {Max(u)}], w[Max(u)])
  BY <1>1, <1>7
<1>9. iter[1..n] \in P
  <2>1. ASSUME NEW u \in SUBSET (1..n), u # {}, Max(u) \in 1..n, iter[u \ {Max(u)}] \in P PROVE iter[u] \in P
    BY <1>5, <1>8, <2>1
  <2> QED BY <1>1, <1>2, <1>8, <2>1, FoldIn
<1> QED BY <1>4, <1>9, SteadiesAre DEF P

LEMMA groupByNodeGood ==
  ASSUME NEW h, NEW a, Given(h, a), NEW x \in BOOLEAN, NEW b
  PROVE  AllGood(h, a.s, b, groupByNode(h, a, x)) /\ AllGood(h, a.s, b, groupByTags(h, a, x))
<1> DEFINE W == IF a.s = <<>> THEN {<<>>} ELSE Groupings(a.s)
<1>1. List(h, a.s) /\ a.s \in Seq(1..Len(h)) BY GivenIs
<1>2. \A w \in W : w \in Seq(Seq(ToSet(a.s))) BY <1>1, GroupingsPart
<1>3. groupByNode(h, a, x) = UNION {CallGroups(h, w, x, FALSE, LAMBDA g, s :
         New(g, [i \in 1..Lesser(1, Len(s)) |-> CopyName(g[s[i]])])) : w \in W}
  BY DEF groupByNode
<1>4. groupByTags(h, a, x) = UNION {CallGroups(h, w, x, TRUE, LAMBDA g, s :
         New(g, [i \in DOMAIN s |-> [CopyTag(g[s[i]]) EXCEPT !.tags = 0]])) : w \in W}
  BY DEF groupByTags
<1> HIDE DEF W
<1>5. \A r \in groupByNode(h, a, x) : Steady(h, a.s, r)
  BY <1>1, <1>2, <1>3, GroupsNamed
<1>6. \A r \in groupByTags(h, a, x) : Steady(h, a.s, r)
  BY <1>1, <1>2, <1>4, GroupsTagged
<1> QED BY <1>1, <1>5, <1>6, SteadyGood DEF AllGood

LEMMA aggregateGood ==
  ASSUME NEW h, NEW a, Given(h, a), NEW x \in BOOLEAN, NEW b
  PROVE  AllGood(h, a.s, b, aggregate(h, a, x)) /\ AllGood(h, a.s, b, percentileOfSeries(h, a, x))
<1>1. List(h, a.s) BY GivenIs
<1>2. Steady(h, a.s, AggregateSeries(h, a.s, x)) BY <1>1, NearItself, AggregateIs
<1> QED BY <1>1, <1>2, SteadyGood DEF AllGood, aggregate, percentileOfSeries

LEMMA aggregateWithWildcardsGood ==
  ASSUME NEW h, NEW a, Given(h, a), NEW x \in BOOLEAN, NEW b
  PROVE  AllGood(h, a.s, b, aggregateWithWildcards(h, a, x))
<1>1. List(h, a.s) /\ a.s \in Seq(1..Len(h)) /\ h \in Heaps BY GivenIs
<1>2. CASE a.s = <<>>
  BY <1>1, <1>2, FailuresGood DEF AllGood, aggregateWithWildcards
<1>3. CASE a.s # <<>>
  BY <1>1, GroupingsPart, <1>3, EachGroup, SteadyGood DEF aggregateWithWildcards,
     AllGood
<1> QED BY <1>2, <1>3

(* Two given lists are one. *)
LEMMA GivenBoth ==
  ASSUME NEW h, NEW a, NEW b, Given(h, a), Given(h, b)
  PROVE  /\ List(h, a.s \o b.s) /\ h \in Heaps
         /\ ToSet(a.s) \subseteq ToSet(a.s \o b.s) /\ ToSet(b.s) \subseteq ToSet(a.s \o b.s)
         /\ Joined(a.s \o b.s, a.s, b.s)
<1> DEFINE s == a.s
           t == b.s
           L == s \o t
<1>1. List(h, s) /\ List(h, t) /\ h \in Heaps /\ s \in Seq(1..Len(h)) /\ t \in Seq(1..Len(h))
  BY GivenIs
<1>2. Len(s) \in Nat /\ DOMAIN s = 1..Len(s) /\ Len(t) \in Nat /\ DOMAIN t = 1..Len(t)
  BY GivenIs
<1> HIDE DEF s, t
<1>3. List(h, L) BY <1>1, ListBoth
<1>4. /\ Len(L) = Len(s) + Len(t) /\ DOMAIN L = 1..(Len(s) + Len(t))
      /\ \A i \in 1..Len(s) : L[i] = s[i]
      /\ \A i \in 1..Len(t) : L[Len(s) + i] = t[i]
  BY <1>1
<1>7. Joined(L, s, t) BY <1>4 DEF Joined
<1>5. ToSet(s) \subseteq ToSet(L) BY <1>2, <1>4 DEF ToSet
<1>6. ToSet(t) \subseteq ToSet(L)
  <2> HIDE DEF L
  <2> SUFFICES ASSUME NEW i \in 1..Len(t) PROVE t[i] \in ToSet(L)
    BY <1>2 DEF ToSet
  <2>1. Len(s) + i \in DOMAIN L /\ L[Len(s) + i] = t[i] BY <1>2, <1>4
  <2> QED BY <2>1 DEF ToSet
<1> QED BY <1>1, <1>3, <1>5, <1>6, <1>7 DEF s, t

LEMMA aggregateSeriesListsGood ==
  ASSUME NEW h, NEW a, NEW b, Given(h, a), Given(h, b), NEW x \in BOOLEAN, NEW inRange
  PROVE  AllGood(h, a.s \o b.s, inRange, aggregateSeriesLists(h, a, b, x))
<1> DEFINE L == a.s \o b.s
           w == [i \in DOMAIN a.s |-> <<a.s[i], b.s[i]>>]
<1>1. List(h, L) /\ h \in Heaps /\ ToSet(a.s) \subseteq ToSet(L) /\ ToSet(b.s) \subseteq ToSet(L)
  BY GivenBoth
<1>2. /\ Len(a.s) \in Nat /\ DOMAIN a.s = 1..Len(a.s) /\ DOMAIN b.s = 1..Len(b.s)
      /\ (\A i \in DOMAIN a.s : a.s[i] \in ToSet(a.s)) /\ \A i \in DOMAIN b.s : b.s[i] \in ToSet(b.s)
  BY GivenIs
<1> HIDE DEF L
<1>3. CASE Len(a.s) # Len(b.s)
  BY <1>1, <1>3, FailuresGood DEF AllGood, aggregateSeriesLists, L
<1>4. CASE Len(a.s) = Len(b.s)
  <2>1. w \in Seq(ToSet(L) \X ToSet(L))
    <3>1. \A i \in 1..Len(a.s) : <<a.s[i], b.s[i]>> \in ToSet(L) \X ToSet(L)
      BY <1>1, <1>2, <1>4
    <3> DEFINE D == ToSet(L) \X ToSet(L)
    <3> HIDE DEF D
    <3>2. \A i \in 1..Len(a.s) : <<a.s[i], b.s[i]>> \in D BY <3>1 DEF D
    <3>3. w \in [1..Len(a.s) -> D] BY <1>2, <3>2
    <3> HIDE DEF w
    <3>4. w \in Seq(D) BY <1>2, <3>3
    <3> QED BY <3>4 DEF D
  <2> HIDE DEF w
  <2>2. aggregateSeriesLists(h, a, b, x) =
          Each(Ok(h, <<>>), w, LAMBDA g, p :
             {AggregateSeries(g \o <<CopyLink(g[p[1]]), CopyLink(g[p[2]])>>,
                              <<Len(g) + 1, Len(g) + 2>>, x)})
    BY <1>4 DEF aggregateSeriesLists, w
  <2>3. \A r \in aggregateSeriesLists(h, a, b, x) : Steady(h, L, r)
    BY <1>1, <2>1, <2>2, EachCopies
  <2> QED BY <1>1, <2>3, SteadyGood DEF AllGood, L
<1> QED BY <1>3, <1>4

(* One new series on the grid of one of the list. *)
LEMMA OneNewGood ==
  ASSUME NEW h, NEW L, List(h, L), NEW p \in ToSet(L), NEW r \in Metric, Alike(r, h[p]), NEW b
  PROVE  Good(h, L, b, New(h, <<r>>))
<1> DEFINE recs == <<r>>
<1>1. recs \in Seq(Metric) /\ DOMAIN recs = {1} /\ recs[1] = r OBVIOUS
<1> HIDE DEF recs
<1>2. \A i \in DOMAIN recs : \E q \in ToSet(L) : Alike(recs[i], h[q]) BY <1>1
<1>3. Good(h, L, b, New(h, recs)) BY <1>1, <1>2, NewGood
<1> QED BY <1>3 DEF recs

LEMMA powSeriesGood ==
  ASSUME NEW h, NEW a, Given(h, a), NEW b
  PROVE  AllGood(h, a.s, b, powSeries(h, a))
<1> DEFINE s == a.s
           N(i) == h[s[i]].n
           best == Greatest(Lengths(h, s))
           First(i) == i \in DOMAIN s /\ N(i) = best /\ \A j \in 1..(i - 1) : N(j) < N(i)
           longest == CHOOSE i \in DOMAIN s : N(i) = best /\ \A j \in 1..(i - 1) : N(j) < N(i)
<1>1. List(h, s) /\ h \in Heaps /\ Len(s) \in Nat /\ DOMAIN s = 1..Len(s)
  BY GivenIs
<1>2. \A i \in DOMAIN s : h[s[i]] \in Metric /\ s[i] \in ToSet(s) /\ N(i) \in Int
  BY <1>1, ListIs DEF ToSet, Metric
<1>3. CASE s = <<>> BY <1>3, <1>1, FailuresGood DEF Regular, AllGood, powSeries
<1>4. CASE s # <<>>
  <2> HIDE DEF s
  <2>1. /\ best \in Int /\ \A p \in ToSet(s) : best >= h[p].n
        /\ \E p \in ToSet(s) : best = h[p].n
    BY <1>1, <1>4, BoundsAre
  <2> HIDE DEF best
  <2>2. \E i \in DOMAIN s : N(i) = best BY <2>1 DEF ToSet
  <2>3. \E i \in DOMAIN s : First(i)
    <3> DEFINE T == {i \in DOMAIN s : N(i) = best}
    <3>1. T \subseteq Nat /\ T # {} BY <1>1, <2>2
    <3>2. PICK i \in T : \A j \in T : i <= j BY <3>1, LeastNumber
    <3>3. ASSUME NEW j \in 1..(i - 1) PROVE N(j) < N(i)
      BY <1>1, <3>2, <3>1, <1>2, <2>1
    <3> QED BY <3>2, <3>3
  <2>4. longest \in DOMAIN s BY <2>3
  <2>5. powSeries(h, a) = {New(h, <<Filled(CopyName(h[s[longest]]))>>)}
    BY <1>4 DEF powSeries, s, best
  <2> HIDE DEF longest
  <2>6. s[longest] \in ToSet(s) /\ Filled(CopyName(h[s[longest]])) \in Metric
        /\ Alike(Filled(CopyName(h[s[longest]])), h[s[longest]])
    BY <1>2, <2>4, ShapesAre
  <2>7. Good(h, s, b, New(h, <<Filled(CopyName(h[s[longest]]))>>))
    BY <1>1, <2>6, OneNewGood
  <2> QED BY <2>5, <2>7 DEF AllGood, s
<1> QED BY <1>3, <1>4

LEMMA rangeOfSeriesGood ==
  ASSUME NEW h, NEW a, Given(h, a), NEW b
  PROVE  AllGood(h, a.s, b, rangeOfSeries(h, a))
<1> DEFINE s == a.s
           u == Filled(CopyLinkTags(h[s[1]]))
           v == [u EXCEPT !.tags = 0]
<1>1. List(h, s) /\ h \in Heaps /\ Len(s) \in Nat /\ DOMAIN s = 1..Len(s)
  BY GivenIs
<1> HIDE DEF s
<1>2. \A i \in DOMAIN s : h[s[i]] \in Metric /\ s[i] \in ToSet(s)
  BY <1>1, ListIs DEF ToSet
<1>3. CASE s = <<>> BY <1>1, <1>3, FailuresGood DEF AllGood, rangeOfSeries, s
<1>4. CASE s # <<>>
  <2>1. 1 \in DOMAIN s BY <1>1, <1>4
  <2>2. v \in Metric /\ Alike(v, h[s[1]])
    BY <1>2, <2>1, ShapesAre, WithTags DEF Alike
  <2>3. Good(h, s, b, New(h, <<v>>)) BY <1>1, <1>2, <2>1, <2>2, OneNewGood
  <2>4. (\E i \in DOMAIN s : h[s[i]].n < h[s[1]].n) => Good(h, s, b, Panic(h))
    <3>1. ASSUME NEW i \in DOMAIN s, h[s[i]].n < h[s[1]].n PROVE ~Regular(h, s)
      <4> SUFFICES ASSUME Regular(h, s) PROVE FALSE OBVIOUS
      <4>1. h[s[i]].n = h[s[1]].n /\ h[s[1]].n \in Int
        BY <1>1, <1>2, <2>1, <3>1, RegularIs DEF Alike, Metric
      <4> QED BY <3>1, <4>1
    <3> QED BY <1>1, <3>1, FailuresGood
  <2> QED BY <1>4, <2>3, <2>4 DEF AllGood, rangeOfSeries, s
<1> QED BY <1>3, <1>4

(* An outcome without a series. *)
LEMMA NothingNewGood ==
  ASSUME NEW h, NEW L, List(h, L), NEW b
  PROVE  Good(h, L, b, New(h, <<>>))
<1> DEFINE recs == <<>>
<1>1. recs \in Seq(Metric) /\ DOMAIN recs = {} OBVIOUS
<1> HIDE DEF recs
<1>2. Good(h, L, b, New(h, recs)) BY <1>1, NewGood
<1> QED BY <1>2 DEF recs

LEMMA countValuesGood ==
  ASSUME NEW h, NEW a, Given(h, a), NEW b
  PROVE  AllGood(h, a.s, b, countValues(h, a))
<1> DEFINE s == a.s
           u == h[s[1]]
           Line(n) == NewValues(CopyLinkTags(h[s[1]]), n)
<1>1. List(h, s) /\ h \in Heaps /\ Len(s) \in Nat /\ DOMAIN s = 1..Len(s)
  BY GivenIs
<1> HIDE DEF s
<1>2. \A i \in DOMAIN s : h[s[i]] \in Metric /\ s[i] \in ToSet(s) /\ h[s[i]].n \in Int
  BY <1>1, ListIs DEF ToSet, Metric
<1>3. CASE s = <<>> BY <1>1, <1>3, FailuresGood DEF AllGood, countValues, s
<1>4. CASE s # <<>>
  <2>1. 1 \in DOMAIN s /\ u \in Metric /\ CopyLinkTags(u) = u
    BY <1>1, <1>2, <1>4, CopiesAre
  <2>2. ASSUME NEW k \in Int PROVE /\ Line(k) \in Metric
                                   /\ k = u.n => Alike(Line(k), u)
    BY <2>1, NewValuesIs DEF Alike
  <2>3. Lengths(h, s) \subseteq Int BY <1>2 DEF Lengths
  <2>4. ASSUME Regular(h, s) PROVE (\A k \in Lengths(h, s) : k = u.n) /\ Fits(u)
    BY <1>1, <2>4, RegularIs, <2>1 DEF Lengths, Alike
  <2>5. Good(h, s, b, New(h, <<Line(u.n)>>))
    <3> DEFINE v == Line(u.n)
    <3>1. v \in Metric /\ Alike(v, h[s[1]]) BY <1>2, <2>1, <2>2
    <3> HIDE DEF v
    <3>2. Good(h, s, b, New(h, <<v>>)) BY <1>1, <1>2, <2>1, <3>1, OneNewGood
    <3> QED BY <3>2 DEF v
  <2>6. ASSUME NEW f \in [1..2 -> Lengths(h, s)]
        PROVE  Good(h, s, b, New(h, [j \in 1..2 |-> Line(f[j])]))
    <3> DEFINE recs == [j \in 1..2 |-> Line(f[j])]
    <3> HIDE DEF Line
    <3>1. \A j \in 1..2 : f[j] \in Int /\ Line(f[j]) \in Metric BY <2>2, <2>3
    <3>2. recs \in Seq(Metric) /\ DOMAIN recs = 1..2 /\ \A j \in 1..2 : recs[j] = Line(f[j])
      <4> DEFINE k == 2
      <4>1. recs \in [1..k -> Metric] /\ (\A j \in 1..2 : recs[j] = Line(f[j])) /\ k \in Nat
        BY <3>1
      <4>2. recs \in Seq(Metric) BY <4>1
      <4> HIDE DEF recs
      <4> QED BY <4>1, <4>2
    <3>3. ASSUME Regular(h, s) PROVE \A i \in DOMAIN recs : Fits(recs[i])
      <4> SUFFICES ASSUME NEW i \in 1..2 PROVE Fits(Line(f[i])) BY <3>2
      <4>1. f[i] = u.n /\ Fits(u) BY <2>4, <3>3
      <4> QED BY <2>2, <3>1, <4>1, AlikeFits
    <3> HIDE DEF recs
    <3>4. Good(h, s, b, New(h, recs)) BY <1>1, <3>2, <3>3, NewFits
    <3> QED BY <3>4 DEF recs
  <2>7. Good(h, s, b, New(h, <<>>)) BY <1>1, NothingNewGood
  <2>8. ASSUME NEW i \in DOMAIN s, NEW j \in DOMAIN s, h[s[j]].n > h[s[i]].n PROVE Good(h, s, b, Panic(h))
    <3>1. ~Regular(h, s)
      <4> SUFFICES ASSUME Regular(h, s) PROVE FALSE OBVIOUS
      <4>1. h[s[j]].n = h[s[i]].n /\ h[s[i]].n \in Int
        BY <1>1, <1>2, <2>8, RegularIs DEF Alike
      <4> QED BY <2>8, <4>1
    <3> QED BY <1>1, <3>1, FailuresGood
  <2>9. countValues(h, a) = {New(h, <<>>), New(h, <<Line(u.n)>>)}
        \cup {New(h, [j \in 1..2 |-> Line(f[j])]) : f \in [1..2 -> Lengths(h, s)]}
        \cup (IF \E i, j \in DOMAIN s : i < j /\ h[s[j]].n > h[s[i]].n THEN {Panic(h)} ELSE {})
    BY <1>4 DEF countValues, s
  <2> HIDE DEF Line, u
  <2> SUFFICES ASSUME NEW r \in countValues(h, a) PROVE Good(h, s, b, r)
    BY DEF AllGood, s
  <2> QED BY <2>5, <2>6, <2>7, <2>8, <2>9
<1> QED BY <1>3, <1>4

---------------------------------------
(* Two single series compared. *)
LEMMA WindowedGood ==
  ASSUME NEW h, NEW a, NEW b, Given(h, a), Given(h, b), NEW p \in Int, NEW r,
         a.s # <<>> => r \in Metric,
         Regular(h, a.s \o b.s) /\ a.s # <<>> => Fits(r)
  PROVE  AllGood(h, a.s \o b.s, b.s # <<>> /\ p \in 1..Len(a.s), Windowed(h, a, b, p, r))
<1> DEFINE L == a.s \o b.s
           s == a.s
           t == b.s
<1>1. List(h, L) /\ h \in Heaps /\ Joined(L, s, t) BY GivenBoth
<1>2. s \in Seq(1..Len(h)) /\ t \in Seq(1..Len(h)) BY GivenIs
<1>3. Windowed(h, a, b, p, r) = IF Len(s) # 1 \/ Len(t) # 1 THEN {Err(h)}
                                ELSE IF p < 0 \/ h[t[1]].n < h[s[1]].n THEN {Panic(h)}
                                ELSE {New(h, <<r>>)}
  BY DEF Windowed
<1> HIDE DEF L, s, t
<1>4. CASE Len(s) # 1 \/ Len(t) # 1
  BY <1>1, <1>3, <1>4, FailuresGood DEF AllGood, L
<1>5. CASE Len(s) = 1 /\ Len(t) = 1
  <2>1. s # <<>> /\ DOMAIN L = 1..2 /\ L[1] = s[1] /\ L[2] = t[1]
    <3>1. L[2] = t[1] /\ L[1] = s[1] /\ Len(L) = 2 BY <1>1, <1>5 DEF Joined
    <3>2. DOMAIN L = 1..Len(L) BY <1>1, ListIs
    <3>3. s # <<>> BY <1>2, <1>5
    <3> QED BY <3>1, <3>2, <3>3
  <2>2. ASSUME p < 0 \/ h[t[1]].n < h[s[1]].n
        PROVE  ~(Regular(h, L) /\ t # <<>> /\ p \in 1..Len(s))
    <3> SUFFICES ASSUME Regular(h, L), p >= 0 PROVE FALSE BY <2>2
    <3>1. Alike(h[L[2]], h[L[1]]) /\ h[L[1]] \in Metric BY <1>1, <2>1, RegularIs
    <3>2. h[t[1]].n = h[s[1]].n /\ h[s[1]].n \in Int
      BY <2>1, <3>1 DEF Alike, Metric
    <3> QED BY <2>2, <3>2
  <2>3. Good(h, L, t # <<>> /\ p \in 1..Len(s), New(h, <<r>>))
    <3> DEFINE recs == <<r>>
    <3>1. recs \in Seq(Metric) /\ DOMAIN recs = {1} /\ recs[1] = r BY <2>1 DEF s
    <3> HIDE DEF recs
    <3>2. Regular(h, L) => \A i \in DOMAIN recs : Fits(recs[i])
      BY <2>1, <3>1 DEF L, s
    <3>3. Good(h, L, t # <<>> /\ p \in 1..Len(s), New(h, recs))
      BY <1>1, <3>1, <3>2, NewFits
    <3> QED BY <3>3 DEF recs
  <2> DEFINE c == t # <<>> /\ p \in 1..Len(s)
  <2>4. Good(h, L, c, New(h, <<r>>)) /\ (p < 0 \/ h[t[1]].n < h[s[1]].n => Good(h, L, c, Panic(h)))
    BY <2>2, <1>1, FailuresGood, <2>3 DEF c
  <2>5. AllGood(h, L, c, Windowed(h, a, b, p, r)) BY <1>3, <1>5, <2>4 DEF AllGood
  <2> QED BY <2>5 DEF L, s, t
<1> QED BY <1>4, <1>5

(* The first of two lists on one grid. *)
LEMMA FirstOfBoth ==
  ASSUME NEW h, NEW a, NEW b, Given(h, a), Given(h, b), a.s # <<>>
  PROVE  /\ h[a.s[1]] \in Metric
         /\ Regular(h, a.s \o b.s) => Whole(h[a.s[1]])
<1> DEFINE L == a.s \o b.s
           s == a.s
<1>1. List(h, L) /\ Joined(L, s, b.s) BY GivenBoth
<1>2. List(h, s) /\ 1 \in DOMAIN s /\ DOMAIN s = 1..Len(s) BY GivenIs
<1> HIDE DEF L, s
<1>3. L[1] = s[1] /\ h[s[1]] \in Metric BY <1>1, <1>2, ListIs DEF Joined
<1>4. Regular(h, L) => Whole(h[L[1]]) BY <1>1, RegularIs
<1> QED BY <1>3, <1>4 DEF L, s

LEMMA kolmogorovSmirnovTest2Good ==
  ASSUME NEW h, NEW a, NEW b, Given(h, a), Given(h, b), NEW p \in Int
  PROVE  AllGood(h, a.s \o b.s, b.s # <<>> /\ p \in 1..Len(a.s), kolmogorovSmirnovTest2(h, a, b, p))
<1> DEFINE m == h[a.s[1]]
           u == Filled(CopyLinkTags(m))
           v == [u EXCEPT !.start = From]
           r == [v EXCEPT !.stop = Until]
<1>1. ASSUME a.s # <<>> PROVE r \in Metric /\ (Regular(h, a.s \o b.s) => Fits(r))
  <2>1. m \in Metric /\ (Regular(h, a.s \o b.s) => Whole(m)) BY <1>1, FirstOfBoth
  <2> HIDE DEF m
  <2>2. u \in Metric /\ Alike(u, m) BY <2>1, ShapesAre
  <2> HIDE DEF u
  <2>3. v \in Metric /\ v.start = From /\ v.n = m.n /\ v.step = m.step
    BY <2>2, WithStart, IntervalAssumption DEF Alike
  <2> HIDE DEF v
  <2>4. r \in Metric /\ r.start = From /\ r.n = m.n /\ r.step = m.step /\ r.stop = Until
    BY <2>3, WithStop, IntervalAssumption
  <2> HIDE DEF r
  <2>5. ASSUME Whole(m) PROVE From + (m.n - 1) * m.step < Until
    <3> DEFINE n == m.n
               k == m.step
    <3>1. n \in Int /\ k \in Int /\ m.start \in Int /\ m.stop \in Int /\ From \in Int /\ Until \in Int
      BY <2>1, IntervalAssumption DEF Metric
    <3>2. k > 0 /\ m.stop = m.start + n * k /\ From <= m.start /\ m.stop <= Until
      BY <2>5 DEF Whole
    <3> HIDE DEF n, k
    <3>3. (n - 1) * k = n * k - k /\ n * k \in Int BY <3>1
    <3>4. From + (n - 1) * k < Until BY <3>1, <3>2, <3>3
    <3> QED BY <3>4 DEF n, k
  <2> QED BY <2>1, <2>4, <2>5 DEF Fits
<1>2. kolmogorovSmirnovTest2(h, a, b, p) = Windowed(h, a, b, p, r)
  BY DEF kolmogorovSmirnovTest2
<1> HIDE DEF r
<1> QED BY <1>1, <1>2, WindowedGood

LEMMA pearsonGood ==
  ASSUME NEW h, NEW a, NEW b, Given(h, a), Given(h, b), NEW p \in Int
  PROVE  AllGood(h, a.s \o b.s, b.s # <<>> /\ p \in 1..Len(a.s), pearson(h, a, b, p))
<1> DEFINE m == h[a.s[1]]
           u == Filled(CopyLinkTags(m))
           v == [u EXCEPT !.start = From]
           r == RecalcStopTime(v)
<1>1. ASSUME a.s # <<>> PROVE r \in Metric /\ (Regular(h, a.s \o b.s) => Fits(r))
  <2>1. m \in Metric /\ (Regular(h, a.s \o b.s) => Whole(m)) BY <1>1, FirstOfBoth
  <2> HIDE DEF m
  <2>2. u \in Metric /\ Alike(u, m) BY <2>1, ShapesAre
  <2> HIDE DEF u
  <2>3. v \in Metric /\ v.start = From /\ v.n = m.n /\ v.step = m.step
    BY <2>2, WithStart, IntervalAssumption DEF Alike
  <2> HIDE DEF v
  <2>4. r \in Metric /\ r.start = v.start /\ r.n = v.n /\ r.step = v.step /\ r.stop = r.start + r.n * r.step
    BY <2>3, StopsAre
  <2> HIDE DEF r
  <2> QED BY <2>1, <2>3, <2>4, WholeFits DEF Whole
<1>2. pearson(h, a, b, p) = Windowed(h, a, b, p, r) BY DEF pearson
<1> HIDE DEF r
<1> QED BY <1>1, <1>2, WindowedGood

(* One more series at the end of a heap. *)
LEMMA AppendIs ==
  ASSUME NEW h \in Heaps, NEW v \in Metric
  PROVE  /\ Append(h, v) \in Heaps /\ Len(Append(h, v)) = Len(h) + 1 /\ Grown(h, Append(h, v))
         /\ \A i \in 1..Len(h) : Append(h, v)[i] = h[i]
         /\ Append(h, v)[Len(h) + 1] = v
         /\ Len(h) \in Nat
<1> DEFINE k == Append(h, v)
<1>1. k \in Heaps /\ Len(k) = Len(h) + 1 /\ (\A i \in 1..Len(h) : k[i] = h[i]) /\ k[Len(h) + 1] = v /\ Len(h) \in Nat
  BY DEF Heaps
<1> HIDE DEF k
<1>2. Grown(h, k) BY <1>1 DEF Grown
<1> QED BY <1>1, <1>2 DEF k

LEMMA DivideStepIs ==
  ASSUME NEW h, NEW L, List(h, L), NEW r, Dividing(h, L, r), NEW p \in ToSet(L)
  PROVE  Dividing(h, L, DivideStep(r, p))
<1> DEFINE f == r.h
           d == r.denominator
           c == ConsolidateSeriesByStep(f, p, d)
           g == c[1]
           i == c[2][1]
           j == c[2][2]
           v == Filled(CopyTag(g[i]))
           k == Append(g, v)
           t == r.out
           u == Append(t, Len(g) + 1)
           w == DivideStep(r, p)
<1>1. Grown(h, f) /\ d \in 1..Len(f) /\ f[d].step > 0 /\ List(f, t) /\ f \in Heaps
  BY DEF Dividing, Grown
<1>2. Flat(h, L) => Still(h, f) /\ Near(f, L, t) /\ \E q \in ToSet(L) : Alike(f[d], h[q])
  BY DEF Dividing
<1>3. w.h = k /\ w.denominator = j /\ w.out = u BY DEF DivideStep
<1> HIDE DEF w, f, d, t
<1>4. List(f, L) /\ p \in 1..Len(f) /\ f[p].step > 0 /\ p \in 1..Len(h)
  BY <1>1, ListGrown, InList
<1>5. /\ Grown(f, g) /\ Extends(f, g)
      /\ i \in 1..Len(g) /\ j \in 1..Len(g) /\ g[i].step > 0 /\ g[j].step > 0
      /\ Alike(f[p], f[d]) => g = f /\ i = p /\ j = d
  BY <1>1, <1>4, ConsolidateIs
<1> HIDE DEF g, i, j
<1>15. \A m \in 1..Len(f) : g[m] = f[m] BY <1>5 DEF Extends
<1>6. g \in Heaps /\ g[i] \in Metric BY <1>5 DEF Grown, Heaps
<1>7. v \in Metric /\ Alike(v, g[i]) /\ v.step > 0
  BY <1>5, <1>6, ShapesAre DEF Alike
<1> HIDE DEF v
<1>8. /\ k \in Heaps /\ Len(k) = Len(g) + 1 /\ Grown(g, k)
      /\ (\A m \in 1..Len(g) : k[m] = g[m]) /\ k[Len(g) + 1] = v /\ Len(g) \in Nat
  BY <1>6, <1>7, AppendIs
<1> HIDE DEF k
<1>9. Grown(h, k) BY <1>1, <1>5, <1>8, <1>15, GrownTwice
<1>10. j \in 1..Len(k) /\ k[j].step > 0 BY <1>5, <1>8, <1>15
<1>11. /\ Len(t) \in Nat /\ DOMAIN t = 1..Len(t) /\ t \in Seq(1..Len(f))
       /\ \A m \in DOMAIN t : t[m] \in 1..Len(f) /\ f[t[m]].step > 0
  BY <1>1, ListIs DEF List
<1>12. /\ u \in Seq(1..Len(k)) /\ DOMAIN u = 1..(Len(t) + 1) /\ u[Len(t) + 1] = Len(g) + 1
       /\ \A m \in 1..Len(t) : u[m] = t[m]
  BY <1>1, <1>5, <1>8, <1>15, <1>11, SeqWider DEF Grown, Heaps
<1> HIDE DEF u
<1>13. List(k, u)
  <2> SUFFICES ASSUME NEW m \in DOMAIN u PROVE k[u[m]].step > 0
    BY <1>8, <1>12 DEF List
  <2>1. CASE m = Len(t) + 1 BY <1>7, <1>8, <1>12, <2>1
  <2>2. CASE m \in 1..Len(t)
    <3>1. u[m] = t[m] /\ t[m] \in 1..Len(f) /\ f[t[m]].step > 0
      BY <1>11, <1>12, <2>2
    <3>2. t[m] \in 1..Len(g) /\ g[t[m]] = f[t[m]]
      BY <1>5, <1>8, <1>15, <3>1 DEF Grown, Heaps
    <3> QED BY <1>8, <3>1, <3>2
  <2> QED BY <1>11, <1>12, <2>1, <2>2
<1>14. ASSUME Flat(h, L)
       PROVE  Still(h, k) /\ Near(k, L, u) /\ \E q \in ToSet(L) : Alike(k[j], h[q])
  <2>1. PICK q \in ToSet(L) : Alike(f[d], h[q]) BY <1>2, <1>14
  <2>2. Still(h, f) /\ Near(f, L, t) BY <1>2, <1>14
  <2>3. Alike(h[p], h[q]) /\ Alike(f[p], h[p])
    BY <1>4, <2>2, <1>14, <2>1 DEF Still, Flat
  <2>4. g = f /\ i = p /\ j = d BY <1>5, <2>1, <2>3 DEF Alike
  <2>5. Still(f, k) BY <1>8, <2>4 DEF Still, Alike
  <2>6. Still(h, k) BY <1>1, <2>2, <2>5, StillTwice
  <2>7. Near(k, L, u)
    <3> SUFFICES ASSUME NEW m \in DOMAIN u PROVE \E x \in ToSet(L) : Alike(k[u[m]], k[x])
      BY DEF Near, ToSet
    <3>1. \A x \in ToSet(L) : x \in 1..Len(f) /\ k[x] = f[x]
      BY <1>4, <1>8, <2>4, InList
    <3>2. CASE m = Len(t) + 1 BY <1>7, <1>8, <1>12, <2>4, <3>1, <3>2
    <3>3. CASE m \in 1..Len(t)
      <4>1. u[m] = t[m] /\ t[m] \in 1..Len(f) /\ t[m] \in ToSet(t)
        BY <1>11, <1>12, <3>3 DEF ToSet
      <4>2. PICK x \in ToSet(L) : Alike(f[t[m]], f[x]) BY <2>2, <4>1 DEF Near
      <4> QED BY <1>8, <2>4, <3>1, <4>1, <4>2
    <3> QED BY <1>11, <1>12, <3>2, <3>3
  <2>8. Alike(k[j], h[q]) BY <1>5, <1>8, <1>15, <2>1, <2>4
  <2> QED BY <2>6, <2>7, <2>8
<1> QED BY <1>3, <1>9, <1>10, <1>13, <1>14 DEF Dividing, w

LEMMA DividingsAre ==
  ASSUME NEW h, NEW L, NEW r, Dividing(h, L, r),
         r = [h |-> r.h, denominator |-> r.denominator, out |-> r.out]
  PROVE  r \in Dividings(h, L)
<1>1. r.h \in Heaps /\ r.denominator \in 1..Len(r.h) /\ r.out \in Seq(1..Len(r.h))
  BY DEF Dividing, Grown, List
<1>2. Len(r.h) \in Nat BY <1>1 DEF Heaps
<1>3. r.denominator \in Nat /\ r.out \in Seq(Nat) BY <1>2, <1>1, SeqWider
<1> QED BY <1>1, <1>3 DEF Dividings

LEMMA DividedIs ==
  ASSUME NEW h, NEW L, List(h, L), NEW w \in Seq(ToSet(L)), NEW q \in ToSet(L)
  PROVE  Dividing(h, L, Divided(h, w, q))
<1> DEFINE P == Dividings(h, L)
           n == Len(w)
           base == [h |-> h, denominator |-> q, out |-> <<>>]
           Op(r, p) == DivideStep(r, p)
           G == [p \in P \X (1..n) |-> Op(p[1], w[p[2]])]
           E(f) == f = [u \in SUBSET DOMAIN w |-> IF u = {} THEN base ELSE Op(f[u \ {Max(u)}], w[Max(u)])]
           iter == CHOOSE f : E(f)
<1>1. n \in Nat /\ DOMAIN w = 1..n /\ \A i \in 1..n : w[i] \in ToSet(L) OBVIOUS
<1>2. base \in P
  <2>1. base.h = h /\ base.denominator = q /\ base.out = <<>> OBVIOUS
  <2>2. base = [h |-> base.h, denominator |-> base.denominator, out |-> base.out]
    OBVIOUS
  <2> HIDE DEF base
  <2>3. h \in Heaps /\ Grown(h, h) /\ List(h, <<>>) /\ ToSet(<<>>) = {} /\ q \in 1..Len(h) /\ h[q].step > 0
    BY InList, GrownSame, EmptyList DEF List
  <2>4. Still(h, h) /\ Near(h, L, <<>>) /\ Alike(h[q], h[q])
    BY <2>3 DEF Still, Alike, Near
  <2>5. Dividing(h, L, base) BY <2>1, <2>3, <2>4 DEF Dividing
  <2> QED BY <2>2, <2>5, DividingsAre
<1>3. ASSUME NEW r \in P, NEW v \in ToSet(L) PROVE Op(r, v) \in P
  <2> DEFINE o == DivideStep(r, v)
  <2>1. Dividing(h, L, r) BY DEF Dividings
  <2>2. o = [h |-> o.h, denominator |-> o.denominator, out |-> o.out]
    BY DEF DivideStep
  <2> HIDE DEF o
  <2>3. Dividing(h, L, o) BY <2>1, DivideStepIs DEF o
  <2> QED BY <2>2, <2>3, DividingsAre DEF o
<1>4. Divided(h, w, q) = iter[1..n] BY <1>1 DEF Divided, FoldLeft, MapThenFoldSet
<1> HIDE DEF P, Op, n, base
<1>5. \A R \in P, i \in 1..n : Op(R, w[i]) \in P BY <1>1, <1>3
<1>6. G \in [P \X (1..n) -> P] BY <1>5
<1>7. E(iter)
  <2>1. PICK f \in [SUBSET (1..n) -> P] : FoldMade(f, n, P, base, G)
    BY <1>1, <1>2, <1>6, FoldRuns
  <2>2. E(f) BY <1>1, <2>1 DEF FoldMade
  <2> HIDE DEF E
  <2> QED BY <2>2
<1> HIDE DEF iter
<1>8. iter[{}] = base /\ \A u \in SUBSET (1..n) : u # {} => iter[u] = Op(iter[u \ {Max(u)}], w[Max(u)])
  BY <1>1, <1>7
<1>9. iter[1..n] \in P
  <2>1. ASSUME NEW u \in SUBSET (1..n), u # {}, Max(u) \in 1..n, iter[u \ {Max(u)}] \in P PROVE iter[u] \in P
    BY <1>5, <1>8, <2>1
  <2> QED BY <1>1, <1>2, <1>8, <2>1, FoldIn
<1> QED BY <1>4, <1>9 DEF Dividings, P

LEMMA DividedSteady ==
  ASSUME NEW h, NEW L, List(h, L), NEW w \in Seq(ToSet(L)), NEW q \in ToSet(L)
  PROVE  Steady(h, L, Ok(Divided(h, w, q).h, Divided(h, w, q).out))
<1> DEFINE r == Divided(h, w, q)
<1>1. Dividing(h, L, r) BY DividedIs
<1> HIDE DEF r
<1> DEFINE g == r.h
           s == r.out
           o == Ok(g, s)
<1>2. Grown(h, g) /\ List(g, s) /\ g \in Heaps /\ s \in Seq(1..Len(g))
      /\ (Flat(h, L) => Still(h, g) /\ Near(g, L, s))
  BY <1>1 DEF Dividing, List
<1> HIDE DEF g, s
<1>3. OutcomeOK(g, o) /\ o.st = "ok" /\ o.h = g /\ o.out.s = s /\ o.out.key = 0
  BY <1>2, OkIs
<1> HIDE DEF o
<1>4. OutcomeOK(h, o) BY <1>2, <1>3, GrownTwice DEF OutcomeOK
<1>5. Steady(h, L, o) BY <1>2, <1>3, <1>4 DEF Steady, Safe
<1> QED BY <1>5 DEF o, g, s, r

LEMMA divideSeriesGood ==
  ASSUME NEW h, NEW a, NEW b, Given(h, a), Given(h, b), NEW c
  PROVE  AllGood(h, a.s \o b.s, c, divideSeries(h, a, b))
<1> DEFINE L == a.s \o b.s
           s == a.s
           t == b.s
           Quotients(w, q) == Ok(Divided(h, w, q).h, Divided(h, w, q).out)
           recs == [i \in DOMAIN s |-> Filled(CopyLink(h[s[i]]))]
           one == <<s[1]>>
<1>1. List(h, L) /\ h \in Heaps /\ ToSet(s) \subseteq ToSet(L) /\ ToSet(t) \subseteq ToSet(L) /\ List(h, s)
  BY GivenBoth, GivenIs
<1>2. /\ s \in Seq(ToSet(s)) /\ t \in Seq(ToSet(t)) /\ Len(s) \in Nat /\ Len(t) \in Nat
      /\ DOMAIN s = 1..Len(s) /\ DOMAIN t = 1..Len(t)
      /\ (\A i \in DOMAIN s : s[i] \in ToSet(s)) /\ \A i \in DOMAIN t : t[i] \in ToSet(t)
  BY GivenIs
<1>3. divideSeries(h, a, b) =
        (CASE t = <<>> -> {New(h, recs)}
           [] Len(t) = 1 -> {Quotients(s, t[1])}
           [] Len(t) > 1 -> {Err(h)})
        \cup {IF Len(s) = 2 THEN Quotients(one, s[2]) ELSE Err(h)}
  BY DEF divideSeries, Divided, DivideStep, ForEachSeriesDo1
<1> HIDE DEF L, s, t, Quotients
<1>4. s \in Seq(ToSet(L)) BY <1>1, <1>2, SeqWider
<1>5. Good(h, L, c, New(h, recs)) BY <1>1, ListIs, ShapesAre, <1>4, MapGood
<1> HIDE DEF recs
<1>6. Len(t) = 1 => Good(h, L, c, Quotients(s, t[1]))
  <2> SUFFICES ASSUME Len(t) = 1 PROVE Good(h, L, c, Quotients(s, t[1])) OBVIOUS
  <2> DEFINE q == t[1]
  <2>1. q \in ToSet(L) BY <1>1, <1>2
  <2> HIDE DEF q
  <2>2. Steady(h, L, Quotients(s, q))
    BY <1>1, <1>4, <2>1, DividedSteady DEF Quotients
  <2> QED BY <1>1, <2>2, SteadyGood DEF q
<1>7. Len(s) = 2 => Good(h, L, c, Quotients(one, s[2]))
  <2> SUFFICES ASSUME Len(s) = 2 PROVE Good(h, L, c, Quotients(one, s[2])) OBVIOUS
  <2> DEFINE q == s[2]
  <2>1. q \in ToSet(L) /\ one \in Seq(ToSet(L)) BY <1>1, <1>2
  <2> HIDE DEF q, one
  <2>2. Steady(h, L, Quotients(one, q)) BY <1>1, <2>1, DividedSteady DEF Quotients
  <2> QED BY <1>1, <2>2, SteadyGood DEF q
<1>8. Good(h, L, c, Err(h)) BY <1>1, FailuresGood
<1>9. t = <<>> \/ Len(t) = 1 \/ Len(t) > 1 BY <1>2
<1> SUFFICES ASSUME NEW r \in divideSeries(h, a, b) PROVE Good(h, L, c, r)
  BY DEF AllGood, L, s, t
<1> HIDE DEF one
<1>10. r \in {New(h, recs), Err(h)} \/ (Len(t) = 1 /\ r = Quotients(s, t[1]))
       \/ (Len(s) = 2 /\ r = Quotients(one, s[2]))
  BY <1>2, <1>3, <1>9
<1> QED BY <1>5, <1>6, <1>7, <1>8, <1>10

LEMMA OutcomeSound ==
  ASSUME NEW h, NEW r, OutcomeOK(h, r)
  PROVE  Sound(h, r)
<1>1. r.put = <<>> BY DEF OutcomeOK
<1>2. DOMAIN r.put = {} BY <1>1
<1>3. r = [h |-> r.h, out |-> r.out, st |-> r.st, put |-> r.put]
  BY <1>1 DEF OutcomeOK
<1>4. LinkedAfter(r.put, r.out) BY <1>2 DEF LinkedAfter, OutcomeOK, Linked
<1> QED BY <1>2, <1>3, <1>4 DEF Sound, OutcomeOK

LEMMA GoodFair ==
  ASSUME NEW h, NEW s, NEW b
  PROVE  /\ \A r : Good(h, s, b, r) => Fair(h, s, b, r)
         /\ \A R : AllGood(h, s, b, R) => AllFair(h, s, b, R)
  BY OutcomeSound DEF Good, Fair, AllGood, AllFair

(* An outcome with other lists stored. *)
LEMMA WithPut ==
  ASSUME NEW r, NEW g, NEW o, NEW x, NEW y, r = [h |-> g, out |-> o, st |-> x, put |-> y], NEW put
  PROVE  [r EXCEPT !.put = put] = [h |-> g, out |-> o, st |-> x, put |-> put]
  OBVIOUS

(* A list stored. *)
LEMMA PutFair ==
  ASSUME NEW h, NEW s, NEW b, NEW r, Fair(h, s, b, r), r.out.key = 0, NEW put,
         \A k \in DOMAIN put : put[k] \in Seq(1..Len(h))
  PROVE  Fair(h, s, b, [r EXCEPT !.put = put])
<1> DEFINE q == [r EXCEPT !.put = put]
           g == r.h
           o == r.out
           x == r.st
           y == r.put
<1>1. r = [h |-> g, out |-> o, st |-> x, put |-> y] BY DEF Fair, Sound
<1>2. q = [h |-> g, out |-> o, st |-> x, put |-> put] BY <1>1
<1>3. Grown(h, g) /\ o \in Slices /\ o.s \in Seq(1..Len(g)) /\ x \in {"ok", "error", "panic", "hang"}
      /\ (Regular(h, s) /\ b => Served(r))
  BY DEF Fair, Sound
<1> HIDE DEF q, g, o, x
<1>4. q.h = g /\ q.out = o /\ q.st = x /\ q.put = put BY <1>2
<1>5. \A k \in DOMAIN put : put[k] \in Seq(1..Len(g))
  BY <1>3, SeqWider DEF Grown, Heaps
<1>6. Sound(h, q) BY <1>2, <1>3, <1>4, <1>5 DEF Sound, LinkedAfter, o
<1>7. Served(r) => Served(q) BY <1>4 DEF Served, g, o, x
<1> QED BY <1>3, <1>6, <1>7 DEF Fair, q

LEMMA StoredFair ==
  ASSUME NEW h, NEW s, NEW b, NEW r, Fair(h, s, b, r), r.h \in Heaps, r.out.key = 0, NEW a \in Slices, NEW t \in Seq(1..Len(h)),
         \A k \in DOMAIN r.put : r.put[k] \in Seq(1..Len(h))
  PROVE  /\ Fair(h, s, b, Stored(r, a, t))
         /\ Stored(r, a, t).h = r.h /\ Stored(r, a, t).out = r.out
         /\ \A k \in DOMAIN Stored(r, a, t).put : Stored(r, a, t).put[k] \in Seq(1..Len(h))
<1> DEFINE put == [k \in {a.key} \cup DOMAIN r.put |-> IF k = a.key THEN t ELSE r.put[k]]
<1>1. \A k \in DOMAIN put : put[k] \in Seq(1..Len(h)) OBVIOUS
<1>2. Stored(r, a, t) = IF a.key = 0 THEN r ELSE [r EXCEPT !.put = put]
  BY DEF Stored
<1> HIDE DEF put
<1>3. Fair(h, s, b, [r EXCEPT !.put = put]) BY <1>1, PutFair
<1>4. [r EXCEPT !.put = put].h = r.h /\ [r EXCEPT !.put = put].put = put /\ [r EXCEPT !.put = put].out = r.out
  <2>1. r = [h |-> r.h, out |-> r.out, st |-> r.st, put |-> r.put]
    BY DEF Fair, Sound
  <2> DEFINE g == r.h
             o == r.out
             x == r.st
             y == r.put
  <2> HIDE DEF g, o, x, y
  <2>2. r = [h |-> g, out |-> o, st |-> x, put |-> y] BY <2>1 DEF g, o, x, y
  <2>3. [r EXCEPT !.put = put].h = r.h /\ [r EXCEPT !.put = put].put = put /\ [r EXCEPT !.put = put].out = r.out
    BY <2>2
  <2> QED BY <2>3
<1> QED BY <1>1, <1>2, <1>3, <1>4

(* Both lists of a call sorted. *)
LEMMA SortedFair ==
  ASSUME NEW h \in Heaps, NEW s, NEW b, NEW r, Good(h, s, b, r), r.out.key = 0, NEW a \in Slices, NEW t \in Seq(1..Len(h)),
         NEW c \in Slices, NEW u \in Seq(1..Len(h))
  PROVE  /\ Fair(h, s, b, Stored(Stored(r, a, t), c, u))
         /\ Fair(h, s, b, Stored(r, a, t))
<1>1. Fair(h, s, b, r) BY GoodFair
<1>2. r.put = <<>> /\ r.h \in Heaps BY DEF Good, OutcomeOK, Grown
<1>3. \A k \in DOMAIN r.put : r.put[k] \in Seq(1..Len(h)) BY <1>2
<1> DEFINE q == Stored(r, a, t)
<1>4. /\ Fair(h, s, b, q) /\ q.h \in Heaps /\ q.out.key = 0
      /\ \A k \in DOMAIN q.put : q.put[k] \in Seq(1..Len(h))
  BY <1>1, <1>2, <1>3, StoredFair
<1> HIDE DEF q
<1>5. Fair(h, s, b, Stored(q, c, u)) BY <1>4, StoredFair
<1> QED BY <1>4, <1>5 DEF q

---------------------------------------

LEMMA NameStepIs ==
  ASSUME NEW h, NEW L, List(h, L), NEW u \in Seq(ToSet(L)), NEW p \in ToSet(L) \X ({0} \cup DOMAIN u)
  PROVE  \A o \in NameStep(h, p, u) : Safe(h, o)
<1> DEFINE v == Filled(CopyLink(h[p[1]]))
           recs == <<v>>
           q == <<p[1], u[p[2]]>>
<1>1. p[1] \in ToSet(L) /\ p[2] \in {0} \cup DOMAIN u /\ h \in Heaps BY DEF List
<1>2. Safe(h, Ok(h, <<>>)) /\ Safe(h, Panic(h))
  BY <1>1, FailuresSteady, FailuresAre, EmptyList DEF Steady, Panic, Own, Safe
<1>3. Safe(h, New(h, recs))
  <2>1. v \in Metric /\ Alike(v, h[p[1]]) BY <1>1, InList, ShapesAre
  <2> HIDE DEF v
  <2>2. recs \in Seq(Metric) /\ DOMAIN recs = {1} /\ recs[1] = v BY <2>1
  <2> HIDE DEF recs
  <2>3. \A i \in DOMAIN recs : \E y \in ToSet(L) : Alike(recs[i], h[y])
    BY <1>1, <2>1, <2>2
  <2> QED BY <2>2, <2>3, MapSteady, NearItself DEF Steady
<1>4. p[2] # 0 => Safe(h, Combine(h, q))
  <2> SUFFICES ASSUME p[2] # 0 PROVE Safe(h, Combine(h, q)) OBVIOUS
  <2>1. q \in ToSet(L) \X ToSet(L) BY <1>1
  <2> HIDE DEF q
  <2> QED BY <2>1, CombinedIs DEF Steady
<1> QED BY <1>2, <1>3, <1>4 DEF NameStep, Unpaired

(* Pairs of series combined. *)
LEMMA EachCombine ==
  ASSUME NEW h, NEW L, List(h, L), NEW w \in Seq((ToSet(L) \X ToSet(L)))
  PROVE  \A r \in Each(Ok(h, <<>>), w, LAMBDA g, p : {Combine(g, p)}) : Steady(h, L, r)
<1> DEFINE P == SUBSET Steadies(h, L)
           n == Len(w)
           base == {Ok(h, <<>>)}
           Do(g, p) == {Combine(g, p)}
           Add(r, o) == [o EXCEPT !.out = Own(r.out.s \o o.out.s)]
           Op(R, v) == UNION {IF r.st = "ok"
                              THEN {Add(r, o) : o \in Do(r.h, v)}
                              ELSE {r} : r \in R}
           G == [p \in P \X (1..n) |-> Op(p[1], w[p[2]])]
           E(f) == f = [u \in SUBSET DOMAIN w |-> IF u = {} THEN base ELSE Op(f[u \ {Max(u)}], w[Max(u)])]
           iter == CHOOSE f : E(f)
<1>1. n \in Nat /\ DOMAIN w = 1..n /\ \A i \in 1..n : w[i] \in (ToSet(L) \X ToSet(L))
  OBVIOUS
<1>2. base \in P BY FailuresSteady, SteadiesAre DEF List
<1>3. ASSUME NEW R \in P, NEW v \in (ToSet(L) \X ToSet(L)) PROVE Op(R, v) \in P
  <2> SUFFICES ASSUME NEW r \in R PROVE Steady(h, L, r) /\ \A o \in Do(r.h, v) : Steady(h, L, Add(r, o))
    BY SteadiesAre
  <2>1. Steady(h, L, r) BY SteadiesAre
  <2>2. List(r.h, L) BY <2>1, ListGrown DEF Steady, Safe, OutcomeOK
  <2>3. \A o \in Do(r.h, v) : Steady(r.h, L, o) BY <2>2, CombinedIs
  <2> HIDE DEF Do
  <2> QED BY <2>1, <2>3, SteadyBoth
<1>4. Each(Ok(h, <<>>), w, LAMBDA g, p : {Combine(g, p)}) = iter[1..n]
  BY <1>1 DEF Each, FoldLeft, MapThenFoldSet
<1> HIDE DEF P, Op, n, base
<1>5. \A R \in P, i \in 1..n : Op(R, w[i]) \in P BY <1>1, <1>3
<1>6. G \in [P \X (1..n) -> P] BY <1>5
<1>7. E(iter)
  <2>1. PICK f \in [SUBSET (1..n) -> P] : FoldMade(f, n, P, base, G)
    BY <1>1, <1>2, <1>6, FoldRuns
  <2>2. E(f) BY <1>1, <2>1 DEF FoldMade
  <2> HIDE DEF E
  <2> QED BY <2>2
<1> HIDE DEF iter
<1>8. iter[{}] = base /\ \A u \in SUBSET (1..n) : u # {} => iter[u] = Op(iter[u \ {Max(u)}], w[Max(u)])
  BY <1>1, <1>7
<1>9. iter[1..n] \in P
  <2>1. ASSUME NEW u \in SUBSET (1..n), u # {}, Max(u) \in 1..n, iter[u \ {Max(u)}] \in P PROVE iter[u] \in P
    BY <1>5, <1>8, <2>1
  <2> QED BY <1>1, <1>2, <1>8, <2>1, FoldIn
<1> QED BY <1>4, <1>9, SteadiesAre DEF P

(* Series combined by name. *)
LEMMA EachName ==
  ASSUME NEW h, NEW L, List(h, L), NEW z \in Seq(ToSet(L)), NEW w \in Seq((ToSet(L) \X ({0} \cup DOMAIN z)))
  PROVE  \A r \in EachNamed(h, w, z) : Safe(h, r)
<1> DEFINE P == SUBSET Safes(h)
           n == Len(w)
           base == {Ok(h, <<>>)}
           Do(g, p) == NameStep(g, p, z)
           Add(r, o) == [o EXCEPT !.out = Own(r.out.s \o o.out.s)]
           Op(R, v) == UNION {IF r.st = "ok"
                              THEN {Add(r, o) : o \in Do(r.h, v)}
                              ELSE {r} : r \in R}
           G == [p \in P \X (1..n) |-> Op(p[1], w[p[2]])]
           E(f) == f = [u \in SUBSET DOMAIN w |-> IF u = {} THEN base ELSE Op(f[u \ {Max(u)}], w[Max(u)])]
           iter == CHOOSE f : E(f)
<1>1. n \in Nat /\ DOMAIN w = 1..n /\ \A i \in 1..n : w[i] \in (ToSet(L) \X ({0} \cup DOMAIN z))
  OBVIOUS
<1>2. base \in P BY FailuresSteady, SafesAre DEF List, Steady
<1>3. ASSUME NEW R \in P, NEW v \in (ToSet(L) \X ({0} \cup DOMAIN z)) PROVE Op(R, v) \in P
  <2> SUFFICES ASSUME NEW r \in R PROVE Safe(h, r) /\ \A o \in Do(r.h, v) : Safe(h, Add(r, o))
    <3> HIDE DEF Safes, Do, Add
    <3> QED BY SafesAre
  <2>1. Safe(h, r) BY SafesAre
  <2>2. List(r.h, L) BY <2>1, ListGrown DEF Steady, Safe, OutcomeOK
  <2>3. \A o \in Do(r.h, v) : Safe(r.h, o) BY <2>2, NameStepIs
  <2> HIDE DEF Do
  <2> QED BY <2>1, <2>3, SafeBoth
<1>4. EachNamed(h, w, z) = iter[1..n]
  BY <1>1 DEF Each, EachNamed, FoldLeft, MapThenFoldSet
<1> HIDE DEF P, Op, n, base
<1>5. \A R \in P, i \in 1..n : Op(R, w[i]) \in P BY <1>1, <1>3
<1>6. G \in [P \X (1..n) -> P] BY <1>5
<1>7. E(iter)
  <2>1. PICK f \in [SUBSET (1..n) -> P] : FoldMade(f, n, P, base, G)
    BY <1>1, <1>2, <1>6, FoldRuns
  <2>2. E(f) BY <1>1, <2>1 DEF FoldMade
  <2> HIDE DEF E
  <2> QED BY <2>2
<1> HIDE DEF iter
<1>8. iter[{}] = base /\ \A u \in SUBSET (1..n) : u # {} => iter[u] = Op(iter[u \ {Max(u)}], w[Max(u)])
  BY <1>1, <1>7
<1>9. iter[1..n] \in P
  <2>1. ASSUME NEW u \in SUBSET (1..n), u # {}, Max(u) \in 1..n, iter[u \ {Max(u)}] \in P PROVE iter[u] \in P
    BY <1>5, <1>8, <2>1
  <2> QED BY <1>1, <1>2, <1>8, <2>1, FoldIn
<1> QED BY <1>4, <1>9, SafesAre DEF P

LEMMA OwnOut ==
  ASSUME NEW h, NEW s
  PROVE  /\ New(h, s).out.key = 0 /\ Ok(h, s).out.key = 0
         /\ Err(h).out.key = 0 /\ Panic(h).out.key = 0 /\ Hang(h).out.key = 0
  BY DEF New, Ok, Done, Own, Err, Panic, Hang

(* Nothing is asked of a call whose other arguments are out of range. *)
LEMMA AdverseGood ==
  ASSUME NEW h, NEW s, NEW t, NEW b, NEW r, NEW R
  PROVE  /\ OutcomeOK(h, r) => Good(h, s, FALSE, r)
         /\ AllGood(h, t, b, R) => AllGood(h, s, FALSE, R)
         /\ AllFair(h, t, b, R) => AllFair(h, s, FALSE, R)
  BY DEF Good, AllGood, AllFair, Fair

(* Orders of the lists two slices hold. *)
LEMMA OrdersOfBoth ==
  ASSUME NEW h, NEW a, NEW b, Given(h, a), Given(h, b), NEW t \in Orders(a.s), NEW u \in Orders(b.s)
  PROVE  /\ t \in Seq(ToSet(a.s \o b.s)) /\ u \in Seq(ToSet(a.s \o b.s))
         /\ t \in Seq(1..Len(h)) /\ u \in Seq(1..Len(h))
         /\ Len(t) = Len(a.s) /\ Len(u) = Len(b.s)
         /\ DOMAIN t = 1..Len(t) /\ DOMAIN u = 1..Len(u) /\ Len(t) \in Nat /\ Len(u) \in Nat
<1> DEFINE L == a.s \o b.s
<1>1. /\ a.s \in Seq(1..Len(h)) /\ b.s \in Seq(1..Len(h)) /\ Len(a.s) \in Nat /\ Len(b.s) \in Nat
      /\ a.s \in Seq(ToSet(a.s)) /\ b.s \in Seq(ToSet(b.s))
  BY GivenIs
<1>2. ToSet(a.s) \subseteq ToSet(L) /\ ToSet(b.s) \subseteq ToSet(L) BY GivenBoth
<1> HIDE DEF L
<1>3. t \in Seq(ToSet(a.s)) /\ Len(t) = Len(a.s) /\ u \in Seq(ToSet(b.s)) /\ Len(u) = Len(b.s)
  BY <1>1, OrdersPart
<1>4. ToSet(a.s) \subseteq 1..Len(h) /\ ToSet(b.s) \subseteq 1..Len(h)
  BY <1>1, SeqOver
<1>5. t \in Seq(ToSet(L)) /\ u \in Seq(ToSet(L)) /\ t \in Seq(1..Len(h)) /\ u \in Seq(1..Len(h))
  BY <1>2, <1>3, <1>4, SeqWider
<1>6. DOMAIN t = 1..Len(t) /\ DOMAIN u = 1..Len(u) BY <1>5
<1> QED BY <1>1, <1>3, <1>5, <1>6 DEF L

(* Pairs of elements of two lists. *)
LEMMA PairsOf ==
  ASSUME NEW V, NEW W, NEW n \in Nat, NEW f, NEW g,
         \A i \in 1..n : f[i] \in V /\ g[i] \in W
  PROVE  [i \in 1..n |-> <<f[i], g[i]>>] \in Seq(V \X W)
<1> DEFINE D == V \X W
           w == [i \in 1..n |-> <<f[i], g[i]>>]
<1>1. \A i \in 1..n : <<f[i], g[i]>> \in D OBVIOUS
<1> HIDE DEF D
<1>2. w \in [1..n -> D] BY <1>1
<1> HIDE DEF w
<1>3. w \in Seq(D) BY <1>2
<1> QED BY <1>3 DEF D, w

LEMMA ByPositionGood ==
  ASSUME NEW h, NEW L, List(h, L), NEW t \in Seq(ToSet(L)), NEW u \in Seq(ToSet(L)), u # <<>>
  PROVE  AllGood(h, L, Len(t) = Len(u), ByPosition(h, t, u)) /\ AllOwn(ByPosition(h, t, u))
<1> DEFINE n == Len(t)
           g == [i \in 1..n |-> u[IF Len(u) = 1 THEN 1 ELSE i]]
           w == [i \in 1..n |-> <<t[i], g[i]>>]
           v == [i \in DOMAIN t |-> <<t[i], u[IF Len(u) = 1 THEN 1 ELSE i]>>]
           c == Len(t) = Len(u)
<1>1. n \in Nat /\ Len(u) \in Nat \ {0} /\ DOMAIN t = 1..n /\ DOMAIN u = 1..Len(u)
  OBVIOUS
<1>2. CASE Len(u) > 1 /\ n > Len(u)
  <2>1. ~c
    <3> DEFINE k == Len(u)
    <3>1. n \in Int /\ k \in Int /\ n > k BY <1>1, <1>2
    <3> HIDE DEF n, k
    <3>2. n # k BY <3>1
    <3> QED BY <3>2 DEF n, k
  <2>3. h \in Heaps BY DEF List
  <2> HIDE DEF c
  <2>2. Good(h, L, c, Panic(h)) BY <2>1, <2>3, FailuresGood
  <2> QED BY <1>2, <2>2, OwnOut DEF AllGood, AllOwn, ByPosition, c
<1>3. CASE ~(Len(u) > 1 /\ n > Len(u))
  <2>1. \A i \in 1..n : t[i] \in ToSet(L) /\ g[i] \in ToSet(L)
    <3> SUFFICES ASSUME NEW i \in 1..n PROVE t[i] \in ToSet(L) /\ u[IF Len(u) = 1 THEN 1 ELSE i] \in ToSet(L)
      OBVIOUS
    <3>1. (IF Len(u) = 1 THEN 1 ELSE i) \in 1..Len(u) BY <1>1, <1>3
    <3> QED BY <1>1, <3>1
  <2>2. v = w BY <1>1
  <2> HIDE DEF g, n
  <2>3. w \in Seq(ToSet(L) \X ToSet(L)) BY <1>1, <2>1, PairsOf
  <2> HIDE DEF w
  <2>4. ByPosition(h, t, u) = Each(Ok(h, <<>>), w, LAMBDA f, p : {Combine(f, p)})
    BY <1>3, <2>2 DEF ByPosition, n
  <2>5. \A r \in ByPosition(h, t, u) : Steady(h, L, r) BY <2>3, <2>4, EachCombine
  <2> QED BY <2>5, SteadyGood DEF AllGood, AllOwn, Steady, Safe
<1> QED BY <1>2, <1>3

LEMMA ByNameGood ==
  ASSUME NEW h, NEW L, List(h, L), NEW t \in Seq(ToSet(L)), NEW u \in Seq(ToSet(L)),
         NEW m \in [DOMAIN t -> {0} \cup DOMAIN u]
  PROVE  AllGood(h, L, FALSE, ByName(h, t, u, m)) /\ AllOwn(ByName(h, t, u, m))
<1> DEFINE n == Len(t)
           D == {0} \cup DOMAIN u
           w == [i \in 1..n |-> <<t[i], m[i]>>]
<1>1. n \in Nat /\ DOMAIN t = 1..n /\ \A i \in 1..n : t[i] \in ToSet(L) /\ m[i] \in D
  OBVIOUS
<1> HIDE DEF D
<1>2. w \in Seq(ToSet(L) \X D) BY <1>1, PairsOf
<1>3. [i \in DOMAIN t |-> <<t[i], m[i]>>] = w BY <1>1
<1> HIDE DEF w
<1>4. ByName(h, t, u, m) = EachNamed(h, w, u)
  BY <1>3 DEF ByName, EachNamed, NameStep
<1>6. w \in Seq((ToSet(L) \X ({0} \cup DOMAIN u))) BY <1>2 DEF D
<1>5. \A r \in ByName(h, t, u, m) : Safe(h, r) BY <1>4, <1>6, EachName
<1> QED BY <1>5, AdverseGood DEF AllGood, AllOwn, Safe

(* The outcomes of two sorted lists. *)
LEMMA PairedGood ==
  ASSUME NEW h, NEW L, List(h, L), NEW t \in Seq(ToSet(L)), NEW u \in Seq(ToSet(L))
  PROVE  /\ AllGood(h, L, Len(t) = Len(u), Paired(h, t, u, FALSE))
         /\ AllGood(h, L, FALSE, Paired(h, t, u, TRUE))
         /\ \A x \in BOOLEAN : AllOwn(Paired(h, t, u, x))
<1>1. CASE t = <<>> \/ u = <<>>
  <2> DEFINE s == t \o u
  <2>1. s \in Seq(ToSet(L)) /\ Own(s).s = s BY ConcatPart DEF Own
  <2>2. \A x \in BOOLEAN : Paired(h, t, u, x) = {New(h, [i \in DOMAIN s |-> Filled(CopyLinkTags(h[s[i]]))])}
    <3> SUFFICES ASSUME NEW x \in BOOLEAN
                 PROVE  Paired(h, t, u, x) = {New(h, [i \in DOMAIN s |-> Filled(CopyLinkTags(h[s[i]]))])}
      OBVIOUS
    <3>1. Paired(h, t, u, x) = ForEachSeriesDo1(h, Own(s), LAMBDA q : Filled(CopyLinkTags(q)))
      BY <1>1 DEF Paired
    <3>2. ForEachSeriesDo1(h, Own(s), LAMBDA q : Filled(CopyLinkTags(q)))
            = {New(h, [i \in DOMAIN Own(s).s |-> Filled(CopyLinkTags(h[Own(s).s[i]]))])}
      BY DEF ForEachSeriesDo1
    <3> HIDE DEF s
    <3> QED BY <2>1, <3>1, <3>2
  <2> HIDE DEF s
  <2>3. \A b : Good(h, L, b, New(h, [i \in DOMAIN s |-> Filled(CopyLinkTags(h[s[i]]))]))
    BY <2>1, MapsGood
  <2> QED BY <2>2, <2>3, OwnOut DEF AllGood, AllOwn
<1>2. CASE t # <<>> /\ u # <<>>
  <2>1. Paired(h, t, u, FALSE) = ByPosition(h, t, u) BY <1>2 DEF Paired
  <2>2. Paired(h, t, u, TRUE) = UNION {ByName(h, t, u, m) : m \in [DOMAIN t -> {0} \cup DOMAIN u]}
    BY <1>2 DEF Paired
  <2>3. AllGood(h, L, Len(t) = Len(u), ByPosition(h, t, u)) /\ AllOwn(ByPosition(h, t, u))
    BY <1>2, ByPositionGood
  <2>4. \A m \in [DOMAIN t -> {0} \cup DOMAIN u] : AllGood(h, L, FALSE, ByName(h, t, u, m)) /\ AllOwn(ByName(h, t, u, m))
    BY ByNameGood
  <2>5. AllOwn(Paired(h, t, u, FALSE)) /\ AllOwn(Paired(h, t, u, TRUE))
    BY <2>1, <2>2, <2>3, <2>4 DEF AllOwn
  <2>6. \A x \in BOOLEAN : AllOwn(Paired(h, t, u, x))
    <3> SUFFICES ASSUME NEW x \in BOOLEAN PROVE AllOwn(Paired(h, t, u, x)) OBVIOUS
    <3>1. x = TRUE \/ x = FALSE OBVIOUS
    <3> QED BY <2>5, <3>1
  <2>7. AllGood(h, L, Len(t) = Len(u), Paired(h, t, u, FALSE)) /\ AllGood(h, L, FALSE, Paired(h, t, u, TRUE))
    BY <2>1, <2>2, <2>3, <2>4 DEF AllGood
  <2> QED BY <2>6, <2>7
<1> QED BY <1>1, <1>2

LEMMA seriesListFair ==
  ASSUME NEW h, NEW a, NEW b, Given(h, a), Given(h, b)
  PROVE  /\ AllFair(h, a.s \o b.s, Len(a.s) = Len(b.s), seriesList(h, a, b, FALSE))
         /\ AllFair(h, a.s \o b.s, FALSE, seriesList(h, a, b, TRUE))
<1> DEFINE L == a.s \o b.s
           T == Orders(a.s)
           U == Orders(b.s)
           In(x) == IF x THEN FALSE ELSE Len(a.s) = Len(b.s)
<1>1. List(h, L) /\ h \in Heaps /\ a \in Slices /\ b \in Slices
  BY GivenBoth, GivenIs
<1>2. ASSUME NEW t \in T, NEW u \in U
      PROVE  /\ t \in Seq(ToSet(L)) /\ u \in Seq(ToSet(L)) /\ t \in Seq(1..Len(h)) /\ u \in Seq(1..Len(h))
             /\ Len(t) = Len(a.s) /\ Len(u) = Len(b.s)
  BY <1>2, OrdersOfBoth
<1> HIDE DEF L, T, U
<1>3. ASSUME NEW x \in BOOLEAN, NEW t \in T, NEW u \in U, NEW r \in Paired(h, t, u, x)
      PROVE  Fair(h, L, In(x), Stored(Stored(r, a, t), b, u))
  <2>1. Good(h, L, In(x), r) BY <1>1, <1>2, <1>3, PairedGood DEF AllGood
  <2>2. r.out.key = 0
    <3>1. AllOwn(Paired(h, t, u, x)) BY <1>1, <1>2, PairedGood
    <3> QED BY <1>3, <3>1 DEF AllOwn
  <2> HIDE DEF In
  <2> QED BY <1>1, <1>2, <2>1, <2>2, SortedFair
<1>4. \A d : Fair(h, L, d, Ok(h, <<>>)) BY <1>1, FailuresGood, GoodFair
<1>5. ASSUME NEW x \in BOOLEAN, NEW r \in seriesList(h, a, b, x)
      PROVE  Fair(h, L, In(x), r)
  <2>1. seriesList(h, a, b, x) =
          (IF a.s = <<>> \/ b.s = <<>> THEN {Ok(h, <<>>)} ELSE {}) \cup
          UNION {{Stored(Stored(q, a, t), b, u) : q \in Paired(h, t, u, x)} : t \in T, u \in U}
    BY DEF seriesList, T, U
  <2>2. r = Ok(h, <<>>) \/ \E t \in T, u \in U : r \in {Stored(Stored(q, a, t), b, u) : q \in Paired(h, t, u, x)}
    BY <1>5, <2>1
  <2> HIDE DEF In
  <2> QED BY <1>3, <1>4, <2>2
<1>6. \A x \in BOOLEAN : AllFair(h, L, In(x), seriesList(h, a, b, x))
  BY <1>5 DEF AllFair
<1> QED BY <1>6 DEF L

---------------------------------------
LEMMA OnlyOf ==
  ASSUME NEW h \in Heaps, NEW s \in Seq(1..Len(h)), NEW S
  PROVE  Only(s, S) \in Seq(1..Len(h)) /\ ToSet(Only(s, S)) \subseteq ToSet(s)
         /\ Only(s, S) \in Seq(ToSet(s))
  BY OnlyIs, OnlyPart

(* A sequence written over the beginning of another. *)
LEMMA OverlaidIs ==
  ASSUME NEW v \in Seq(Nat), NEW u \in Seq(Nat), Len(u) <= Len(v)
  PROVE  Len(Overlaid(v, u)) = Len(v) /\ SubSeq(Overlaid(v, u), 1, Len(u)) = u
<1> DEFINE w == SubSeq(v, Len(u) + 1, Len(v))
           s == u \o w
<1>1. w \in Seq(Nat) /\ Len(w) = Len(v) - Len(u) OBVIOUS
<1> HIDE DEF w
<1>2. s \in Seq(Nat) /\ Len(s) = Len(u) + Len(w) /\ \A i \in 1..Len(u) : s[i] = u[i]
  BY <1>1, ConcatPart
<1> HIDE DEF s
<1>3. SubSeq(s, 1, Len(u)) = [i \in 1..Len(u) |-> s[i]] BY <1>1, <1>2
<1>4. SubSeq(s, 1, Len(u)) = u BY <1>2, <1>3
<1>5. Len(s) = Len(v) BY <1>1, <1>2
<1> QED BY <1>4, <1>5 DEF Overlaid, s, w

(* append to a slice *)
LEMMA AppendToFair ==
  ASSUME NEW h, NEW L, List(h, L), NEW a, Given(h, a), NEW t \in Seq(1..Len(h)),
         ToSet(a.s) \subseteq ToSet(L), ToSet(t) \subseteq ToSet(L), NEW d,
         values \in [1..3 -> Seq(Nat)]
  PROVE  /\ Fair(h, L, d, AppendTo(h, a, t))
         /\ \A k \in DOMAIN AppendTo(h, a, t).put : AppendTo(h, a, t).put[k] \in Seq(1..Len(h))
<1> DEFINE s == a.s
           u == s \o t
           b == Appended(a, t)
           put == IF b.key = 0 THEN <<>> ELSE [k \in {b.key} |-> u]
           q == AppendTo(h, a, t)
<1>1. h \in Heaps /\ a \in Slices /\ s \in Seq(1..Len(h)) /\ Linked(a)
  BY GivenIs DEF Given
<1>2. u \in Seq(1..Len(h)) /\ ToSet(u) \subseteq ToSet(L) /\ Len(u) = Len(s) + Len(t) /\ u \in Seq(Nat)
  <2> HIDE DEF s
  <2>1. u \in Seq(1..Len(h)) /\ Len(u) = Len(s) + Len(t) /\ (\A i \in 1..Len(s) : u[i] = s[i])
        /\ \A i \in 1..Len(t) : u[Len(s) + i] = t[i]
    BY <1>1, ConcatPart
  <2>2. Len(s) \in Nat /\ DOMAIN s = 1..Len(s) /\ Len(t) \in Nat /\ DOMAIN t = 1..Len(t)
    BY <1>1
  <2> HIDE DEF u
  <2>3. ASSUME NEW i \in DOMAIN u PROVE u[i] \in ToSet(L)
    <3>1. CASE i \in 1..Len(s) BY <2>1, <2>2, <3>1 DEF ToSet, s
    <3>2. CASE i \notin 1..Len(s)
      <4> DEFINE j == i - Len(s)
      <4>1. j \in 1..Len(t) /\ i = Len(s) + j BY <2>1, <2>2, <3>2, SMTT(30)
      <4> HIDE DEF j
      <4>2. u[i] = t[j] /\ t[j] \in ToSet(t) BY <2>1, <2>2, <4>1 DEF ToSet
      <4> QED BY <4>2
    <3> QED BY <3>1, <3>2
  <2>4. 1..Len(h) \subseteq Nat OBVIOUS
  <2> QED BY <2>1, <2>3, <2>4, SeqWider DEF ToSet
<1>3. /\ b \in Slices /\ b.s = u
      /\ b.key # 0 => b.key = a.key /\ b.cap = a.cap /\ Len(u) <= a.cap
  <2>1. Own(u) \in Slices /\ Own(u).s = u /\ Own(u).key = 0 BY <1>1, <1>2, OwnIs
  <2>2. [a EXCEPT !.s = u] \in Slices /\ [a EXCEPT !.s = u].s = u
        /\ [a EXCEPT !.s = u].key = a.key /\ [a EXCEPT !.s = u].cap = a.cap
    BY <1>1, <1>2 DEF Slices
  <2>3. b = IF t # <<>> /\ Len(a.s) + Len(t) > a.cap THEN Own(u) ELSE [a EXCEPT !.s = u]
    BY DEF Appended
  <2>4. a.key # 0 /\ ~(t # <<>> /\ Len(a.s) + Len(t) > a.cap) => Len(u) <= a.cap
    BY <1>1, <1>2 DEF Linked, Slices, s
  <2> HIDE DEF u, b
  <2> QED BY <2>1, <2>2, <2>3, <2>4
<1> HIDE DEF b, u
<1>4. q = [h |-> h, out |-> b, st |-> "ok", put |-> put]
  <2>1. q = Stored(Done(h, b), b, u) BY DEF AppendTo, b, u
  <2>2. [Done(h, b) EXCEPT !.put = [k \in {b.key} \cup DOMAIN Done(h, b).put |-> IF k = b.key THEN u ELSE Done(h, b).put[k]]]
          = [h |-> h, out |-> b, st |-> "ok", put |-> [k \in {b.key} |-> u]]
    <3>1. Done(h, b) = [h |-> h, out |-> b, st |-> "ok", put |-> <<>>] /\ DOMAIN <<>> = {}
      BY DEF Done
    <3>2. [k \in {b.key} \cup DOMAIN Done(h, b).put |-> IF k = b.key THEN u ELSE Done(h, b).put[k]] = [k \in {b.key} |-> u]
      BY <3>1
    <3> DEFINE p == [k \in {b.key} |-> u]
               r == Done(h, b)
    <3> HIDE DEF p, r
    <3>4. [r EXCEPT !.put = p] = [h |-> h, out |-> b, st |-> "ok", put |-> p]
      BY <3>1, WithPut DEF r
    <3> QED BY <3>2, <3>4 DEF p, r
  <2> QED BY <2>1, <2>2 DEF Stored, Done
<1>5. q.h = h /\ q.out = b /\ q.st = "ok" /\ q.put = put BY <1>4
<1> HIDE DEF q
<1>6. \A k \in DOMAIN put : put[k] \in Seq(1..Len(h)) BY <1>2
<1>7. LinkedAfter(put, b)
  <2> SUFFICES ASSUME b.key # 0 PROVE LinkedAfter(put, b) BY DEF LinkedAfter
  <2> DEFINE k == b.key
             v == values[k]
             w == Overlaid(v, u)
  <2>1. k = a.key /\ b.cap = a.cap /\ Len(u) <= a.cap /\ a.cap = Len(v) /\ k \in 1..3 /\ v \in Seq(Nat)
    BY <1>1, <1>3 DEF Linked, Slices
  <2>2. put[k] = u /\ k \in DOMAIN put OBVIOUS
  <2> HIDE DEF v, put, k
  <2>3. Len(w) = Len(v) /\ SubSeq(w, 1, Len(u)) = u BY <1>2, <2>1, OverlaidIs
  <2> HIDE DEF w
  <2>4. LinkedAfter(put, b) <=> (k # 0 => b.cap = Len(w) /\ Len(b.s) <= b.cap /\ b.s = SubSeq(w, 1, Len(b.s)))
    BY <2>2 DEF LinkedAfter, k, w, v
  <2> QED BY <1>3, <2>1, <2>3, <2>4
<1> HIDE DEF put
<1>8. Sound(h, q) BY <1>1, <1>2, <1>3, <1>4, <1>5, <1>6, <1>7, GrownSame DEF Sound
<1>9. Regular(h, L) => Served(q)
  <2> SUFFICES ASSUME Regular(h, L) PROVE \A i \in DOMAIN u : Fits(h[u[i]])
    BY <1>3, <1>5 DEF Served
  <2>1. \A p \in ToSet(L) : Fits(h[p]) BY RegularIs
  <2> QED BY <1>2, <2>1 DEF ToSet
<1> QED BY <1>5, <1>6, <1>8, <1>9 DEF Fair, q

(* Pointers of the list handed on. *)
LEMMA OkPart ==
  ASSUME NEW h, NEW L, List(h, L), NEW t \in Seq(1..Len(h)), ToSet(t) \subseteq ToSet(L), NEW d
  PROVE  Good(h, L, d, Ok(h, t))
<1>1. h \in Heaps BY DEF List
<1>2. Regular(h, L) => \A i \in DOMAIN t : Fits(h[t[i]])
  <2> SUFFICES ASSUME Regular(h, L), NEW i \in DOMAIN t PROVE Fits(h[t[i]])
    OBVIOUS
  <2>1. \A p \in ToSet(L) : Fits(h[p]) BY RegularIs
  <2> QED BY <2>1 DEF ToSet
<1> QED BY <1>1, <1>2, OkIs DEF Good

LEMMA joinFair ==
  ASSUME NEW h, NEW a, NEW b, Given(h, a), Given(h, b), NEW d, values \in [1..3 -> Seq(Nat)]
  PROVE  AllFair(h, a.s \o b.s, d, join(h, a, b))
<1> DEFINE L == a.s \o b.s
           Both(S) == Only(a.s, S)
           OnlyA(S) == Only(a.s, ToSet(a.s) \ S)
           OnlyB(S) == Only(b.s, (ToSet(b.s) \ S) \ ToSet(a.s))
           X == {S \in SUBSET (ToSet(a.s) \cup ToSet(b.s)) : ToSet(a.s) \cap ToSet(b.s) \subseteq S}
<1>1. List(h, L) /\ h \in Heaps /\ ToSet(a.s) \subseteq ToSet(L) /\ ToSet(b.s) \subseteq ToSet(L)
      /\ a.s \in Seq(1..Len(h)) /\ b.s \in Seq(1..Len(h))
  BY GivenBoth, GivenIs
<1> HIDE DEF L
<1>2. ASSUME NEW S
      PROVE  /\ Both(S) \in Seq(1..Len(h)) /\ ToSet(Both(S)) \subseteq ToSet(L)
             /\ OnlyA(S) \in Seq(1..Len(h)) /\ ToSet(OnlyA(S)) \subseteq ToSet(L)
             /\ OnlyB(S) \in Seq(1..Len(h)) /\ ToSet(OnlyB(S)) \subseteq ToSet(L)
  BY <1>1, OnlyOf
<1>3. join(h, a, b) = UNION {{Ok(h, Both(S)), Ok(h, OnlyA(S)), Ok(h, OnlyA(S) \o OnlyB(S)),
                              AppendTo(h, a, OnlyB(S))} : S \in X}
  BY DEF join
<1> HIDE DEF X, Both, OnlyA, OnlyB
<1>4. ASSUME NEW S
      PROVE  /\ Good(h, L, d, Ok(h, Both(S))) /\ Good(h, L, d, Ok(h, OnlyA(S)))
             /\ Good(h, L, d, Ok(h, OnlyA(S) \o OnlyB(S)))
             /\ Fair(h, L, d, AppendTo(h, a, OnlyB(S)))
  <2> DEFINE s == OnlyA(S)
             t == OnlyB(S)
             u == s \o t
  <2>1. Good(h, L, d, Ok(h, Both(S))) /\ Good(h, L, d, Ok(h, s)) /\ Fair(h, L, d, AppendTo(h, a, t))
    BY <1>1, <1>2, OkPart, AppendToFair
  <2>2. s \in Seq(1..Len(h)) /\ t \in Seq(1..Len(h)) /\ ToSet(s) \subseteq ToSet(L) /\ ToSet(t) \subseteq ToSet(L)
    BY <1>2
  <2> HIDE DEF s, t
  <2>3. s \in Seq(ToSet(L)) /\ t \in Seq(ToSet(L)) BY <2>2, SeqOver, SeqWider
  <2>4. u \in Seq(1..Len(h)) /\ u \in Seq(ToSet(L)) BY <2>2, <2>3, ConcatPart
  <2> HIDE DEF u
  <2>5. ToSet(u) \subseteq ToSet(L) BY <2>4, SeqOver
  <2>6. Good(h, L, d, Ok(h, u)) BY <1>1, <2>4, <2>5, OkPart
  <2> QED BY <2>1, <2>6 DEF s, t, u
<1> SUFFICES ASSUME NEW r \in join(h, a, b) PROVE Fair(h, L, d, r)
  BY DEF AllFair, L
<1>5. PICK S \in X : r \in {Ok(h, Both(S)), Ok(h, OnlyA(S)), Ok(h, OnlyA(S) \o OnlyB(S)),
                              AppendTo(h, a, OnlyB(S))}
  BY <1>3
<1> QED BY <1>4, <1>5, GoodFair

(* An element of a list after the first. *)
LEMMA heatMapFair ==
  ASSUME NEW h, NEW a, Given(h, a), NEW d
  PROVE  AllFair(h, a.s, d, heatMap(h, a))
<1> DEFINE s == a.s
<1>1. List(h, s) /\ h \in Heaps /\ s \in Seq(1..Len(h)) /\ a \in Slices /\ s \in Seq(ToSet(s))
      /\ Len(s) \in Nat /\ DOMAIN s = 1..Len(s)
  BY GivenIs
<1>2. s = <<>> => ~Regular(h, s) BY DEF Regular
<1>3. (\E i \in DOMAIN s : h[s[i]].n < h[s[1]].n) => ~Regular(h, s)
  <2> SUFFICES ASSUME NEW i \in DOMAIN s, h[s[i]].n < h[s[1]].n, Regular(h, s) PROVE FALSE
    OBVIOUS
  <2>1. Alike(h[s[i]], h[s[1]]) /\ h[s[i]] \in Metric BY <1>1, RegularIs
  <2> QED BY <2>1 DEF Alike, Metric
<1>4. ASSUME NEW t \in Orders(s) PROVE Fair(h, s, d, Stored(Subtracted(h, t), a, t))
  <2> DEFINE n == Len(t) - 1
             u == [i \in 1..n |-> t[i + 1]]
             recs == [i \in 1..n |-> Filled(CopyLinkTags(h[t[i + 1]]))]
             v == [i \in DOMAIN u |-> Filled(CopyLinkTags(h[u[i]]))]
  <2>1. t \in Seq(ToSet(s)) /\ Len(t) \in Nat /\ DOMAIN t = 1..Len(t)
    BY <1>1, OrdersPart
  <2>2. u \in Seq(ToSet(s)) /\ DOMAIN u = 1..n
    <3>1. CASE Len(t) = 0
      <4>1. 1..n = 1..0 /\ 1..0 = {} BY <3>1
      <4> DEFINE k == 0
      <4> HIDE DEF n, s
      <4>2. u \in [1..k -> ToSet(s)] /\ k \in Nat BY <4>1
      <4> HIDE DEF u, k
      <4>3. u \in Seq(ToSet(s)) /\ DOMAIN u = 1..k BY <4>2
      <4> QED BY <4>1, <4>3 DEF k
    <3>2. CASE Len(t) # 0 BY <2>1, <3>2
    <3> QED BY <3>1, <3>2
  <2>3. recs = v BY <2>2
  <2> HIDE DEF s, u, n
  <2>4. Good(h, s, d, New(h, v)) BY <1>1, <2>2, MapsGood
  <2>5. Good(h, s, d, Err(h)) BY <1>1, FailuresGood
  <2> DEFINE r == Subtracted(h, t)
  <2>6. r \in {New(h, v), Err(h)} BY <2>3 DEF Subtracted, n
  <2>7. Good(h, s, d, r) /\ r.out.key = 0 BY OwnOut, <2>4, <2>5, <2>6
  <2>8. t \in Seq(1..Len(h)) BY <1>1, <2>1, SeqOver, SeqWider
  <2> HIDE DEF r
  <2>9. Fair(h, s, d, Stored(r, a, t)) BY <1>1, <2>7, <2>8, SortedFair
  <2> QED BY <2>9 DEF r
<1>5. Good(h, s, d, Err(h)) /\ (~Regular(h, s) => Good(h, s, d, Panic(h)))
  BY <1>1, FailuresGood
<1>6. Fair(h, s, d, Err(h)) /\ (~Regular(h, s) => Fair(h, s, d, Panic(h)))
  BY <1>5, GoodFair
<1> QED BY <1>2, <1>3, <1>4, <1>6 DEF AllFair, heatMap

(* A list of the map and the series of its name in the list. *)
LEMMA NotedIs ==
  ASSUME NEW h \in Heaps, NEW s \in Seq(1..Len(h)), NEW v, \A k \in DOMAIN v : v[k] \in Seq(1..Len(h)), NEW keys
  PROVE  \A k \in DOMAIN Noted(s, v, keys) : Noted(s, v, keys)[k] \in Seq(1..Len(h))
<1> DEFINE D == {keys[s[i]] : i \in DOMAIN s} \cap DOMAIN v
           w(k) == Only(s, {q \in ToSet(s) : keys[q] = k})
<1>1. ASSUME NEW k \in D PROVE v[k] \o w(k) \in Seq(1..Len(h))
  BY OnlyOf, ConcatPart
<1>2. Noted(s, v, keys) = [k \in D |-> v[k] \o w(k)] BY DEF Noted
<1> HIDE DEF D, w
<1> QED BY <1>1, <1>2

LEMMA reduceFair ==
  ASSUME NEW h, NEW a, Given(h, a), NEW v, \A k \in DOMAIN v : v[k] \in Seq(1..Len(h)), NEW keys,
         NEW x \in BOOLEAN, NEW d
  PROVE  AllFair(h, a.s, d, reduce(h, a, v, keys, x))
<1> DEFINE s == a.s
           put == Noted(s, v, keys)
<1>1. List(h, s) /\ h \in Heaps /\ s \in Seq(1..Len(h)) /\ s \in Seq(ToSet(s))
  BY GivenIs
<1>2. \A k \in DOMAIN put : put[k] \in Seq(1..Len(h)) BY <1>1, NotedIs
<1>3. ASSUME NEW t \in AllSubSeqs(s) PROVE \A r \in Renamed(AggregateSeries(h, t, x)) : Steady(h, s, r)
  <2> DEFINE r == AggregateSeries(h, t, x)
             g == r.h
             recs == [i \in DOMAIN r.out.s |-> CopyLinkTags(g[r.out.s[i]])]
  <2>1. t \in Seq(ToSet(s)) /\ List(h, t) /\ ToSet(t) \subseteq ToSet(s)
    BY <1>1, SubSeqsPart, ListPart, SeqOver
  <2> HIDE DEF s
  <2>2. Steady(h, s, r) BY <1>1, <2>1, NearItself, AggregateIs
  <2>3. Renamed(r) = IF r.st # "ok" THEN {r} ELSE {New(g, recs)} BY DEF Renamed
  <2> HIDE DEF r
  <2>4. Grown(h, g) /\ List(g, r.out.s) /\ (Flat(h, s) => Still(h, g) /\ Near(g, s, r.out.s))
    BY <2>2 DEF Steady, Safe, OutcomeOK
  <2> DEFINE u == r.out.s
  <2>5. u \in Seq(1..Len(g)) /\ \A i \in DOMAIN u : u[i] \in ToSet(u) /\ g[u[i]] \in Metric /\ g[u[i]].step > 0
    BY <2>4, ListIs DEF List, ToSet
  <2> HIDE DEF g, u
  <2>6. recs \in Seq(Metric) /\ DOMAIN recs = DOMAIN u /\ \A i \in DOMAIN u : recs[i] = g[u[i]]
    <3>1. recs = [i \in DOMAIN u |-> g[u[i]]] BY DEF CopyLinkTags, u
    <3> HIDE DEF recs
    <3>2. Len(u) \in Nat /\ DOMAIN u = 1..Len(u) BY <2>5
    <3> QED BY <2>5, <3>1, <3>2
  <2> HIDE DEF recs
  <2>7. Flat(h, s) => \A i \in DOMAIN recs : \E p \in ToSet(s) : Alike(recs[i], g[p])
    BY <2>4, <2>5, <2>6 DEF Near, u
  <2>8. Steady(h, s, New(g, recs)) BY <1>1, <2>4, <2>5, <2>6, <2>7, NewSteady
  <2> QED BY <2>2, <2>3, <2>8 DEF r
<1>4. Steady(h, s, Ok(h, <<>>)) /\ Steady(h, s, Err(h)) BY <1>1, FailuresSteady
<1>5. \A r \in Reduced(h, s, x) : Steady(h, s, r) BY <1>3, <1>4 DEF Reduced
<1>6. ASSUME NEW r \in Reduced(h, s, x) PROVE Fair(h, s, d, [r EXCEPT !.put = put])
  BY <1>5, <1>1, SteadyGood, GoodFair, <1>2, PutFair DEF Steady, Safe
<1>7. reduce(h, a, v, keys, x) = {[r EXCEPT !.put = put] : r \in Reduced(h, s, x)}
  BY DEF reduce
<1> HIDE DEF s, put
<1>8. AllFair(h, s, d, reduce(h, a, v, keys, x)) BY <1>6, <1>7 DEF AllFair
<1> QED BY <1>8 DEF s

---------------------------------------

LEMMA OursIs ==
  ASSUME NEW g, NEW S, Ours(g, S)
  PROVE  /\ Len(g) \in Nat /\ DOMAIN g = 1..Len(g) /\ \A p \in 1..Len(g) : g[p] \in Metric
         /\ Redone(g, S, g)
  BY DEF Ours, Heaps, Redone, Alike

LEMMA RedoneOurs ==
  ASSUME NEW g, NEW S, Ours(g, S), NEW f, Redone(g, S, f)
  PROVE  Ours(f, S) /\ Grown(g, f) /\ (OneLength(g, S) => OneLength(f, S))
<1>1. Ours(f, S) BY DEF Ours, Redone
<1>2. Grown(g, f)
  <2>1. Len(g) \in Nat /\ g \in Heaps /\ f \in Heaps /\ Len(f) = Len(g)
    BY DEF Ours, Redone, Heaps
  <2>2. ASSUME NEW p \in 1..Len(g), g[p].step > 0 PROVE f[p].step > 0
    <3>1. CASE p \in S BY <2>2, <3>1 DEF Redone
    <3>2. CASE p \notin S BY <2>2, <3>2 DEF Redone
    <3> QED BY <3>1, <3>2
  <2> QED BY <2>1, <2>2 DEF Grown
<1>3. OneLength(g, S) => OneLength(f, S) BY DEF Redone, OneLength, Alike
<1> QED BY <1>1, <1>2, <1>3

LEMMA RedoneTwice ==
  ASSUME NEW g, NEW S, Ours(g, S), NEW f, Redone(g, S, f), NEW e, Redone(f, S, e)
  PROVE  Redone(g, S, e)
<1>1. /\ e \in Heaps /\ Len(e) = Len(g)
      /\ \A p \in 1..Len(g) : p \notin S => e[p] = g[p]
      /\ \A p \in S : e[p].arr = 0 /\ e[p].step = g[p].step
  BY DEF Redone
<1>2. OneLength(g, S) => \A p \in S : Alike(e[p], g[p])
  BY RedoneOurs DEF Redone, Alike
<1> QED BY <1>1, <1>2 DEF Redone

(* One series rewritten. *)
LEMMA RewriteIs ==
  ASSUME NEW r \in Metric, r.arr = 0, NEW q \in Metric
  PROVE  /\ Assign(r) = r
         /\ Missing(r) \in Metric /\ Missing(r).arr = 0 /\ Alike(Missing(r), r)
         /\ LET p == getPercentages(r, q)
            IN p \in Metric /\ p.arr = 0 /\ p.step = r.step /\ (q.n = r.n => Alike(p, r))
<1>1. Assign(r) = r BY WritesAre
<1>2. Missing(r) \in Metric /\ Missing(r).arr = 0 /\ Alike(Missing(r), r)
  BY <1>1, WithTags DEF Missing, Alike
<1> DEFINE k == Greater(r.n, q.n)
           v == [r EXCEPT !.n = k]
<1>3. k \in Int /\ (q.n = r.n => k = r.n) BY GreaterIs DEF Metric
<1>4. getPercentages(r, q) = Assign(v) BY DEF getPercentages
<1> HIDE DEF k
<1>5. v \in Metric /\ v.arr = 0 /\ v.step = r.step /\ v.start = r.start /\ v.stop = r.stop /\ v.n = k
  BY <1>3, WithN
<1> HIDE DEF v
<1>6. Assign(v) = v BY <1>5, WritesAre
<1> QED BY <1>1, <1>2, <1>3, <1>4, <1>5, <1>6 DEF Alike

(* Series of S rewritten, each by a total in S. *)
LEMMA RedoneIs ==
  ASSUME NEW g, NEW S, Ours(g, S), NEW f, f = [p \in DOMAIN g |-> f[p]],
         \A p \in DOMAIN g : \/ f[p] = g[p]
                             \/ p \in S /\ f[p] \in {Assign(g[p]), Missing(g[p])}
                             \/ p \in S /\ \E q \in S : f[p] = getPercentages(g[p], g[q])
  PROVE  Redone(g, S, f)
<1>1. Len(g) \in Nat /\ DOMAIN g = 1..Len(g) /\ \A p \in 1..Len(g) : g[p] \in Metric
  BY OursIs
<1>2. ASSUME NEW p \in S
      PROVE  /\ f[p] \in Metric /\ f[p].arr = 0 /\ f[p].step = g[p].step
             /\ OneLength(g, S) => Alike(f[p], g[p])
  <2>1. p \in 1..Len(g) /\ g[p].arr = 0 /\ g[p] \in Metric BY <1>1 DEF Ours
  <2>2. CASE f[p] = g[p] BY <2>1, <2>2 DEF Alike
  <2>3. CASE f[p] \in {Assign(g[p]), Missing(g[p])}
    BY <2>1, <2>3, RewriteIs, ZenonT(30) DEF Alike
  <2>4. CASE \E q \in S : f[p] = getPercentages(g[p], g[q])
    <3>1. PICK q \in S : f[p] = getPercentages(g[p], g[q]) BY <2>4
    <3>2. g[q] \in Metric BY <1>1 DEF Ours
    <3> QED
      <4> DEFINE v == getPercentages(g[p], g[q])
      <4>1. v \in Metric /\ v.arr = 0 /\ v.step = g[p].step /\ (g[q].n = g[p].n => Alike(v, g[p]))
        BY <2>1, <3>2, RewriteIs
      <4>2. OneLength(g, S) => g[q].n = g[p].n BY <1>2 DEF OneLength
      <4> HIDE DEF v
      <4> QED BY <3>1, <4>1, <4>2 DEF v
  <2> QED BY <1>1, <2>1, <2>2, <2>3, <2>4
<1>3. \A p \in 1..Len(g) : f[p] \in Metric /\ (p \notin S => f[p] = g[p])
  BY <1>1, <1>2
<1>4. f \in Heaps /\ Len(f) = Len(g) BY <1>1, <1>3 DEF Heaps
<1> QED BY <1>2, <1>3, <1>4 DEF Redone

LEMMA AssignedRedone ==
  ASSUME NEW g, NEW S, Ours(g, S), NEW s, ToSet(s) \subseteq S
  PROVE  Redone(g, S, OnEach(g, s, Assign)) /\ Redone(g, S, OnEach(g, s, Missing))
<1> DEFINE f == OnEach(g, s, Assign)
           e == OnEach(g, s, Missing)
<1>1. /\ f = [p \in DOMAIN g |-> f[p]] /\ e = [p \in DOMAIN g |-> e[p]]
      /\ \A p \in DOMAIN g : f[p] = g[p] \/ (p \in S /\ f[p] = Assign(g[p]))
      /\ \A p \in DOMAIN g : e[p] = g[p] \/ (p \in S /\ e[p] = Missing(g[p]))
  BY DEF OnEach
<1> HIDE DEF f, e
<1>2. Redone(g, S, f) BY <1>1, RedoneIs
<1>3. Redone(g, S, e) BY <1>1, RedoneIs
<1> QED BY <1>2, <1>3 DEF f, e

LEMMA DividedRedone ==
  ASSUME NEW g, NEW S, Ours(g, S), NEW s, ToSet(s) \subseteq S, NEW q \in S
  PROVE  Redone(g, S, ByOne(g, s, q))
<1> DEFINE f == ByOne(g, s, q)
<1>1. /\ f = [p \in DOMAIN g |-> f[p]]
      /\ \A p \in DOMAIN g : f[p] = g[p] \/ (p \in S /\ f[p] = getPercentages(g[p], g[q]))
  BY DEF OnEach, ByOne
<1> HIDE DEF f
<1>2. Redone(g, S, f) BY <1>1, RedoneIs
<1> QED BY <1>2 DEF f

LEMMA PercentagesRedone ==
  ASSUME NEW g, NEW S, Ours(g, S), NEW t \in Seq(S), NEW u \in Seq(S)
  PROVE  Redone(g, S, Percentages(g, t, u))
<1> DEFINE f == Percentages(g, t, u)
           n == Lesser(Len(t), Len(u))
           P(p) == {i \in 1..n : t[i] = p}
           w(p) == CHOOSE i \in P(p) : TRUE
<1>1. f = [p \in DOMAIN g |-> IF P(p) = {} THEN g[p] ELSE getPercentages(g[p], g[u[w(p)]])]
  BY DEF Percentages
<1>2. \A i \in 1..n : t[i] \in S /\ u[i] \in S
  <2>1. n \in Int /\ n <= Len(t) /\ n <= Len(u) BY LesserIs
  <2> HIDE DEF n
  <2> QED BY <2>1
<1> HIDE DEF n, f
<1>3. ASSUME NEW p \in DOMAIN g, P(p) # {} PROVE p \in S /\ u[w(p)] \in S
  BY <1>3, <1>2
<1>4. f = [p \in DOMAIN g |-> f[p]] BY <1>1
<1>5. ASSUME NEW p \in DOMAIN g
      PROVE  f[p] = g[p] \/ (p \in S /\ \E q \in S : f[p] = getPercentages(g[p], g[q]))
  BY <1>1, <1>3
<1>6. Redone(g, S, f) BY <1>4, <1>5, RedoneIs
<1> QED BY <1>6 DEF f

---------------------------------------

LEMMA PercentOk ==
  ASSUME NEW g, NEW S, NEW f, Redone(g, S, f), NEW t \in Seq(S), NEW b
  PROVE  Percent(g, S, b, Ok(f, t))
<1> DEFINE r == Ok(f, t)
           o == Own(t)
<1>1. r = [h |-> f, out |-> o, st |-> "ok", put |-> <<>>] /\ o.s = t
  BY DEF Ok, Done, Own
<1> HIDE DEF r, o
<1>2. r.h = f /\ r.out = o /\ r.st = "ok" /\ r.put = <<>> /\ r.out.s = t BY <1>1
<1>3. o = Own(r.out.s) BY <1>2 DEF o
<1> QED BY <1>1, <1>2, <1>3 DEF Percent, r

LEMMA PercentFailed ==
  ASSUME NEW g, NEW S, NEW f, Redone(g, S, f), NEW b
  PROVE  ~(OneLength(g, S) /\ b) => Percent(g, S, b, Panic(f)) /\ Percent(g, S, b, Hang(f))
<1> DEFINE o == Own(<<>>)
<1>1. Panic(f) = [h |-> f, out |-> o, st |-> "panic", put |-> <<>>]
      /\ Hang(f) = [h |-> f, out |-> o, st |-> "hang", put |-> <<>>] /\ o.s = <<>>
  BY DEF Panic, Hang, Own
<1> HIDE DEF o
<1> SUFFICES ASSUME ~(OneLength(g, S) /\ b), NEW r, NEW st \in {"panic", "hang"},
                    r = [h |-> f, out |-> o, st |-> st, put |-> <<>>]
             PROVE  Percent(g, S, b, r)
  BY <1>1
<1>2. r.h = f /\ r.out = o /\ r.st = st /\ r.put = <<>> /\ r.out.s = <<>> BY <1>1
<1>3. o = Own(r.out.s) BY <1>2 DEF o
<1>4. <<>> \in Seq(S) OBVIOUS
<1> QED BY <1>2, <1>3, <1>4 DEF Percent

(* What they are of the call they belong to. *)
LEMMA PercentGood ==
  ASSUME NEW h, NEW L, List(h, L), NEW g, Grown(h, g), NEW S, Ours(g, S),
         \A p \in S : g[p].stop = g[p].start + g[p].n * g[p].step,
         NEW b, NEW c, Regular(h, L) /\ b => OneLength(g, S) /\ c,
         NEW r, Percent(g, S, c, r)
  PROVE  Good(h, L, b, r) /\ r.out.key = 0
<1> DEFINE f == r.h
           t == r.out.s
           o == Own(t)
           x == r.st
<1>1. r = [h |-> f, out |-> o, st |-> x, put |-> <<>>] /\ Redone(g, S, f) /\ t \in Seq(S)
      /\ x \in {"ok", "panic", "hang"} /\ (OneLength(g, S) /\ c => x = "ok")
  BY DEF Percent
<1>2. Ours(f, S) /\ Grown(g, f) BY <1>1, RedoneOurs
<1> HIDE DEF f, t, x
<1>3. t \in Seq(1..Len(f)) /\ f \in Heaps BY <1>1, <1>2, SeqWider DEF Ours
<1>4. o \in Slices /\ o.s = t /\ o.key = 0 /\ Linked(o) BY <1>3, OwnIs
<1> HIDE DEF o
<1>5. r.h = f /\ r.out = o /\ r.st = x /\ r.put = <<>> BY <1>1
<1>6. OutcomeOK(h, r) BY <1>1, <1>2, <1>3, <1>4, <1>5, GrownTwice DEF OutcomeOK
<1>7. ASSUME Regular(h, L), b PROVE Served(r)
  <2>1. x = "ok" /\ OneLength(g, S) BY <1>1, <1>7
  <2>2. ASSUME NEW i \in DOMAIN t PROVE Fits(f[t[i]])
    <3>1. t[i] \in S /\ t[i] \in 1..Len(g)
      <4>1. t[i] \in S BY <1>1
      <4> QED BY <4>1 DEF Ours
    <3> DEFINE p == t[i]
    <3> HIDE DEF p
    <3>2. p \in S /\ p \in 1..Len(g) BY <3>1 DEF p
    <3>3. Alike(f[p], g[p]) BY <1>1, <2>1, <3>2 DEF Redone
    <3>4. g[p] \in Metric /\ g[p].step > 0 BY <3>2, OursIs DEF Ours
    <3>5. Fits(g[p]) BY <3>2, <3>4, WholeFits
    <3> QED BY <3>3, <3>5, AlikeFits DEF p
  <2> QED BY <1>4, <1>5, <2>1, <2>2 DEF Served
<1> QED BY <1>4, <1>5, <1>6, <1>7 DEF Good

(* The copies of a list, aligned. *)
LEMMA CopiedIs ==
  ASSUME NEW h, NEW s, List(h, s), s # <<>>, NEW x \in BOOLEAN
  PROVE  LET g == Aligned(h, s, x)
             c == CopiesOf(h, s)
             S == ToSet(CopiesOf(h, s))
         IN /\ Grown(h, g) /\ Ours(g, S) /\ c \in Seq(S) /\ Len(c) = Len(s)
            /\ \A p \in S : g[p].stop = g[p].start + g[p].n * g[p].step
            /\ Regular(h, s) => OneLength(g, S)
<1> DEFINE recs == [i \in DOMAIN s |-> Copy(h[s[i]])]
           e == h \o recs
           c == CopiesOf(h, s)
           S == ToSet(c)
           g == AlignSeries(e, c, x)
           n == Len(s)
<1>1. /\ h \in Heaps /\ Len(h) \in Nat /\ n \in Nat /\ DOMAIN s = 1..n
      /\ \A i \in DOMAIN s : s[i] \in 1..Len(h) /\ h[s[i]] \in Metric /\ h[s[i]].step > 0
  BY ListIs
<1>2. \A i \in DOMAIN s : recs[i] \in Metric /\ recs[i].arr = 0 /\ Alike(recs[i], h[s[i]])
  BY <1>1, CopiesAre
<1>3. recs \in Seq(Metric) /\ DOMAIN recs = 1..n /\ Len(recs) = n BY <1>1, <1>2
<1> HIDE DEF recs
<1>4. e \in Heaps /\ Len(e) = Len(h) + n /\ Grown(h, e) /\ \A i \in 1..n : e[Len(h) + i] = recs[i]
  BY <1>1, <1>3, GrownAppended
<1> HIDE DEF e
<1>5. c = [i \in 1..n |-> Len(h) + i] BY <1>1 DEF CopiesOf
<1> HIDE DEF c, n
<1>6. c \in [1..n -> 1..Len(e)] /\ \A i \in 1..n : c[i] = Len(h) + i /\ e[c[i]] = recs[i]
  BY <1>1, <1>4, <1>5
<1>7. c \in Seq(1..Len(e)) /\ DOMAIN c = 1..n /\ Len(c) = n BY <1>1, <1>6
<1>8. List(e, c) /\ c # <<>>
  <2>1. \A i \in DOMAIN c : e[c[i]].step > 0 BY <1>1, <1>2, <1>6, <1>7 DEF Alike
  <2>2. n # 0 BY <1>1 DEF n
  <2>3. c # <<>> BY <1>7, <2>2
  <2> QED BY <1>4, <1>7, <2>1, <2>3 DEF List
<1>9. c \in Seq(S) /\ S = {c[i] : i \in 1..n} BY <1>7, SeqOver DEF ToSet
<1> HIDE DEF S
<1>10. /\ Changed(e, c, g) /\ List(g, c)
       /\ \A p \in S : g[p].stop = g[p].start + g[p].n * g[p].step
       /\ Flat(e, c) => Same(e, c, g)
       /\ \A p \in S : e[p].arr = 0 => g[p].arr = 0
  BY <1>8, AlignIs DEF S
<1> HIDE DEF g
<1>11. Ours(g, S)
  <2>1. ASSUME NEW p \in S PROVE p \in 1..Len(g) /\ g[p].step > 0 /\ g[p].arr = 0
    <3>1. PICK i \in 1..n : p = c[i] BY <1>9
    <3>2. i \in DOMAIN c /\ e[p] = recs[i] BY <1>6, <1>7, <3>1
    <3>3. c[i] \in 1..Len(g) /\ g[c[i]].step > 0 BY <1>10, <3>2, ListIs
    <3>4. e[p].arr = 0 BY <1>1, <1>2, <3>2
    <3> QED BY <1>10, <3>1, <3>3, <3>4
  <2> QED BY <1>10, <2>1 DEF Ours, List
<1>12. Grown(h, g) BY <1>4, <1>10, GrownTwice DEF Changed
<1>13. ASSUME Regular(h, s) PROVE OneLength(g, S)
  <2>1. \A i, j \in DOMAIN s : Alike(h[s[i]], h[s[j]]) /\ Whole(h[s[i]])
    BY <1>13, RegularIs
  <2>2. ASSUME NEW i \in 1..n
        PROVE  Alike(e[c[i]], h[s[i]]) /\ e[c[i]].stop = e[c[i]].start + e[c[i]].n * e[c[i]].step
    <3> DEFINE r == e[c[i]]
               q == h[s[i]]
    <3>1. r = recs[i] /\ i \in DOMAIN s BY <1>1, <1>6
    <3>2. Alike(r, q) /\ q.stop = q.start + q.n * q.step
      BY <1>2, <2>1, <3>1 DEF Whole
    <3> HIDE DEF r, q
    <3>3. Alike(r, q) /\ r.stop = r.start + r.n * r.step BY <3>2 DEF Alike
    <3> QED BY <3>3 DEF r, q
  <2>3. \A i, j \in 1..n : Alike(e[c[i]], e[c[j]])
    BY <1>1, <2>1, <2>2, SMTT(30) DEF Alike
  <2>4. Flat(e, c) BY <1>9, <2>2, <2>3 DEF Flat, S
  <2> QED BY <1>9, <1>10, <2>3, <2>4 DEF OneLength, Same, Alike, S
<1> QED BY <1>7, <1>9, <1>10, <1>11, <1>12, <1>13 DEF Aligned, g, e, c, S, recs, n

---------------------------------------
LEMMA ByTotalIs ==
  ASSUME NEW g, NEW S, Ours(g, S), NEW t \in Seq(S), NEW u \in Seq(S), NEW b
  PROVE  Percent(g, S, b, ByTotal(g, t, u))
<1> DEFINE rest == SubSeq(u, Len(t) + 1, Len(u))
           more == SubSeq(t, Len(u) + 1, Len(t))
           f == Percentages(g, t, u)
           e == OnEach(f, rest, Missing)
           d == OnEach(e, more, Assign)
           w == t \o rest
<1>1. Len(t) \in Nat /\ Len(u) \in Nat OBVIOUS
<1>2. rest \in Seq(S) /\ more \in Seq(S)
  <2> DEFINE m == Len(t) + 1
             k == Len(u) + 1
  <2>1. m \in Nat /\ 1 <= m /\ k \in Nat /\ 1 <= k BY <1>1
  <2> HIDE DEF m, k
  <2>2. SubSeq(u, m, Len(u)) \in Seq(S) /\ SubSeq(t, k, Len(t)) \in Seq(S)
    BY <1>1, <2>1, CutPart
  <2> QED BY <2>2 DEF m, k
<1> HIDE DEF rest, more
<1>3. ToSet(rest) \subseteq S /\ ToSet(more) \subseteq S /\ w \in Seq(S)
  BY <1>2, SeqOver, ConcatPart
<1>4. Redone(g, S, f) BY PercentagesRedone
<1> HIDE DEF f, w
<1>5. Redone(f, S, e) /\ Ours(f, S) BY <1>3, <1>4, RedoneOurs, AssignedRedone
<1>6. Redone(g, S, e) BY <1>4, <1>5, RedoneTwice
<1> HIDE DEF e
<1>7. Redone(e, S, d) /\ Ours(e, S) BY <1>3, <1>6, RedoneOurs, AssignedRedone
<1>8. Redone(g, S, d) BY <1>6, <1>7, RedoneTwice
<1> HIDE DEF d
<1>9. Percent(g, S, b, Ok(d, w)) BY <1>3, <1>8, PercentOk
<1> QED BY <1>9 DEF ByTotal, d, e, f, w, rest, more

LEMMA OrdersIn ==
  ASSUME NEW S, NEW s \in Seq(S), NEW t \in Orders(s)
  PROVE  t \in Seq(S) /\ ToSet(s) \subseteq S
  BY OrdersPart, SeqOver, SeqWider

LEMMA seriesAsPercentIs ==
  ASSUME NEW g, NEW S, Ours(g, S), NEW arg \in Seq(S), NEW total \in Seq(S), NEW b
  PROVE  \A r \in seriesAsPercent(g, arg, total) : Percent(g, S, b, r)
<1>1. ToSet(arg) \subseteq S BY SeqOver
<1>2. Percent(g, S, b, Ok(OnEach(g, arg, Assign), arg))
  BY <1>1, AssignedRedone, PercentOk
<1>3. total # <<>> => Percent(g, S, b, Ok(ByOne(g, arg, total[1]), arg))
  <2> SUFFICES ASSUME total # <<>> PROVE Percent(g, S, b, Ok(ByOne(g, arg, total[1]), arg))
    OBVIOUS
  <2>1. total[1] \in S OBVIOUS
  <2>2. Redone(g, S, ByOne(g, arg, total[1])) BY <1>1, <2>1, DividedRedone
  <2> QED BY <2>2, PercentOk
<1>4. \A t \in Orders(arg), u \in Orders(total) : Percent(g, S, b, ByTotal(g, t, u))
  BY OrdersIn, ByTotalIs
<1> QED BY <1>2, <1>3, <1>4 DEF seriesAsPercent, ByOne

LEMMA seriesGroupAsPercentIs ==
  ASSUME NEW g, NEW S, Ours(g, S), NEW arg \in Seq(S), NEW b
  PROVE  \A r \in seriesGroupAsPercent(g, arg) : Percent(g, S, b, r)
<1>1. ToSet(arg) \subseteq S /\ \A i \in DOMAIN arg : arg[i] \in S BY SeqOver
<1>2. Redone(g, S, OnEach(g, arg, Assign)) /\ Redone(g, S, g)
  BY <1>1, AssignedRedone, OursIs
<1>3. \A t \in Orders(arg) : Percent(g, S, b, Ok(OnEach(g, arg, Assign), t))
  BY <1>2, OrdersIn, PercentOk
<1>4. (\E i, j \in DOMAIN arg : i < j /\ g[arg[j]].n < g[arg[i]].n) => ~OneLength(g, S)
  <2> SUFFICES ASSUME NEW i \in DOMAIN arg, NEW j \in DOMAIN arg, g[arg[j]].n < g[arg[i]].n, OneLength(g, S)
               PROVE  FALSE
    OBVIOUS
  <2>1. g[arg[j]].n = g[arg[i]].n /\ arg[i] \in S BY <1>1 DEF OneLength
  <2>2. g[arg[i]] \in Metric BY <2>1, OursIs DEF Ours
  <2> QED BY <2>1, <2>2 DEF Metric
<1>5. ~OneLength(g, S) => Percent(g, S, b, Panic(g)) BY <1>2, PercentFailed
<1> QED BY <1>3, <1>4, <1>5 DEF seriesGroupAsPercent

LEMMA NoneShorter ==
  ASSUME NEW g, NEW S, Ours(g, S), OneLength(g, S), NEW A \in Seq(S), NEW u \in Seq(S), NEW n \in Int,
         n <= Len(A), n <= Len(u)
  PROVE  ~ShorterAt(g, u, A, n)
<1> SUFFICES ASSUME NEW i \in 1..n, g[u[i]].n < g[A[i]].n PROVE FALSE
  BY DEF ShorterAt
<1>1. A[i] \in S /\ u[i] \in S OBVIOUS
<1>2. g[u[i]].n = g[A[i]].n /\ g[A[i]] \in Metric
  BY <1>1, OursIs DEF OneLength, Ours
<1> QED BY <1>2 DEF Metric

(* The ways a group goes. *)
LEMMA GroupPercentCases ==
  ASSUME NEW g, NEW S, NEW A \in Seq(S), NEW T \in Seq(S), NEW total, NEW done
  PROVE  LET o == GroupPercent(g, total, done, A, T)
             n == Lesser(Len(A), Len(T))
             rest == SubSeq(T, Len(A) + 1, Len(T))
         IN \/ A = <<>> /\ o = Ok(OnEach(g, T, Missing), T)
            \/ A # <<>> /\ o = Ok(OnEach(g, A, Assign), A)
            \/ A # <<>> /\ Len(T) = 1 /\ o = Ok(ByOne(g, A, T[1]), A)
            \/ /\ A # <<>> /\ Len(A) <= Len(T)
               /\ \/ ShorterAt(g, T, A, n) /\ o = Panic(g)
                  \/ o = Ok(OnEach(OnEach(g, A, Assign), rest, Missing), A \o rest)
            \/ /\ Len(A) > Len(T) /\ Len(T) > 1
               /\ \/ ShorterAt(g, total, A, n) /\ o = Panic(g)
                  \/ Len(done) > Len(total) /\ o = Hang(g)
                  \/ o = Ok(OnEach(g, SubSeq(A, 1, Len(T)), Assign), <<>>)
<1> DEFINE k == Len(T)
           l == Len(A)
<1>1. l \in Nat /\ k \in Nat OBVIOUS
<1>0. T = <<>> <=> k = 0 OBVIOUS
<1>2. CASE A = <<>> BY <1>2 DEF GroupPercent
<1>3. CASE A # <<>> /\ T = <<>> BY <1>3 DEF GroupPercent
<1>4. CASE A # <<>> /\ Len(T) = 1 BY <1>4 DEF GroupPercent, ByOne
<1>5. CASE A # <<>> /\ Len(T) > 1 /\ Len(A) <= Len(T)
  <2>1. Len(T) # 1 /\ T # <<>> /\ ~(Len(A) > Len(T))
    <3>1. k > 1 /\ l <= k BY <1>5
    <3> HIDE DEF k, l
    <3>2. k # 1 /\ T # <<>> /\ ~(l > k) BY <1>0, <1>1, <3>1
    <3> QED BY <3>2 DEF k, l
  <2> QED BY <1>5, <2>1 DEF GroupPercent, ShorterAt
<1>6. CASE A # <<>> /\ Len(T) > 1 /\ Len(A) > Len(T)
  <2>1. Len(T) # 1 /\ T # <<>> /\ ~(Len(A) <= Len(T))
    <3>1. k > 1 /\ l > k BY <1>6
    <3> HIDE DEF k, l
    <3>2. k # 1 /\ T # <<>> /\ ~(l <= k) BY <1>0, <1>1, <3>1
    <3> QED BY <3>2 DEF k, l
  <2> QED BY <1>6, <2>1 DEF GroupPercent, ShorterAt
<1>7. T = <<>> \/ Len(T) = 1 \/ Len(T) > 1
  <2> HIDE DEF k
  <2>1. T = <<>> \/ k = 1 \/ k > 1 BY <1>0, <1>1
  <2> QED BY <2>1 DEF k
<1>8. Len(A) <= Len(T) \/ Len(A) > Len(T) BY <1>1
<1> QED BY <1>2, <1>3, <1>4, <1>5, <1>6, <1>7, <1>8

LEMMA GroupPercentIs ==
  ASSUME NEW g, NEW S, Ours(g, S), NEW A \in Seq(S), NEW T \in Seq(S), NEW total \in Seq(S), Len(T) <= Len(total),
         NEW done
  PROVE  LET o == GroupPercent(g, total, done, A, T)
         IN /\ Percent(g, S, ~(Len(done) > Len(total)), o)
            /\ Len(o.out.s) <= Greater(Len(A), Len(T))
<1> DEFINE o == GroupPercent(g, total, done, A, T)
           n == Lesser(Len(A), Len(T))
           rest == SubSeq(T, Len(A) + 1, Len(T))
           cut == SubSeq(A, 1, Len(T))
           b == ~(Len(done) > Len(total))
           m == Greater(Len(A), Len(T))
<1>1. Len(A) \in Nat /\ Len(T) \in Nat /\ Len(total) \in Nat /\ n \in Int /\ n <= Len(A) /\ n <= Len(T)
      /\ m \in Int /\ m >= Len(A) /\ m >= Len(T)
  BY DEF Lesser, Greater
<1>2. \/ A = <<>> /\ o = Ok(OnEach(g, T, Missing), T)
      \/ A # <<>> /\ o = Ok(OnEach(g, A, Assign), A)
      \/ A # <<>> /\ Len(T) = 1 /\ o = Ok(ByOne(g, A, T[1]), A)
      \/ /\ A # <<>> /\ Len(A) <= Len(T)
         /\ \/ ShorterAt(g, T, A, n) /\ o = Panic(g)
            \/ o = Ok(OnEach(OnEach(g, A, Assign), rest, Missing), A \o rest)
      \/ /\ Len(A) > Len(T) /\ Len(T) > 1
         /\ \/ ShorterAt(g, total, A, n) /\ o = Panic(g)
            \/ Len(done) > Len(total) /\ o = Hang(g)
            \/ o = Ok(OnEach(g, cut, Assign), <<>>)
  BY GroupPercentCases
<1>3. OneLength(g, S) => ~ShorterAt(g, T, A, n) /\ ~ShorterAt(g, total, A, n)
  BY <1>1, NoneShorter
<1>4. Len(Panic(g).out.s) = 0 /\ Len(Hang(g).out.s) = 0 BY DEF Panic, Hang, Own
<1>5. ASSUME NEW f, NEW t PROVE Ok(f, t).out.s = t BY DEF Ok, Done, Own
<1>6. Len(A) <= Len(T) => rest \in Seq(S) /\ Len(A \o rest) = Len(T)
  <2> DEFINE k == Len(A) + 1
  <2> SUFFICES ASSUME Len(A) <= Len(T)
               PROVE  rest \in Seq(S) /\ Len(A \o rest) = Len(T)
    OBVIOUS
  <2>1. k \in Nat /\ 1 <= k /\ Len(T) - k + 1 = Len(T) - Len(A) BY <1>1
  <2> HIDE DEF k
  <2>2. SubSeq(T, k, Len(T)) \in Seq(S) /\ Len(SubSeq(T, k, Len(T))) = IF k <= Len(T) THEN Len(T) - k + 1 ELSE 0
    BY <1>1, <2>1, CutPart
  <2>3. rest \in Seq(S) /\ Len(rest) = Len(T) - Len(A) BY <1>1, <2>1, <2>2 DEF k
  <2> HIDE DEF rest
  <2> QED BY <1>1, <2>3, ConcatPart
<1>7. Len(A) > Len(T) => cut \in Seq(S) BY <1>1, CutPart
<1> HIDE DEF o, n, rest, cut, m
<1>8. ToSet(A) \subseteq S /\ ToSet(T) \subseteq S /\ <<>> \in Seq(S) /\ Len(<<>>) = 0
  BY SeqOver
<1>9. Redone(g, S, g) BY OursIs
<1>10. CASE A = <<>> /\ o = Ok(OnEach(g, T, Missing), T)
  BY <1>1, <1>5, <1>8, <1>10, AssignedRedone, PercentOk DEF o, m
<1>11. CASE o = Ok(OnEach(g, A, Assign), A)
  BY <1>1, <1>5, <1>8, <1>11, AssignedRedone, PercentOk DEF o, m
<1>12. CASE Len(T) = 1 /\ o = Ok(ByOne(g, A, T[1]), A)
  <2>1. T[1] \in S
    <3>1. 1 \in 1..Len(T) BY <1>12
    <3> QED BY <3>1
  <2>2. Percent(g, S, b, Ok(ByOne(g, A, T[1]), A))
    BY <1>8, <2>1, DividedRedone, PercentOk
  <2> QED BY <1>1, <1>5, <1>12, <2>2 DEF o, m
<1>13. CASE Len(A) <= Len(T) /\ o = Ok(OnEach(OnEach(g, A, Assign), rest, Missing), A \o rest)
  <2> DEFINE f == OnEach(g, A, Assign)
             e == OnEach(f, rest, Missing)
             w == A \o rest
  <2>1. Redone(g, S, f) /\ w \in Seq(S) /\ Len(w) = Len(T) /\ ToSet(rest) \subseteq S
    BY <1>6, <1>8, <1>13, AssignedRedone, ConcatPart, SeqOver
  <2> HIDE DEF f, w
  <2>2. Ours(f, S) BY <2>1, RedoneOurs
  <2>3. Redone(f, S, e) BY <2>1, <2>2, AssignedRedone
  <2> HIDE DEF e
  <2>4. Redone(g, S, e) BY <2>1, <2>2, <2>3, RedoneTwice
  <2>5. Percent(g, S, b, Ok(e, w)) BY <2>1, <2>4, PercentOk
  <2>6. o = Ok(e, w) BY <1>13 DEF e, f, w
  <2>7. Percent(g, S, b, o) /\ Len(o.out.s) <= m BY <1>1, <1>5, <2>1, <2>5, <2>6
  <2> QED BY <2>7 DEF o, m
<1>14. CASE (ShorterAt(g, T, A, n) \/ ShorterAt(g, total, A, n)) /\ o = Panic(g)
  BY <1>3, <1>9, <1>14, PercentFailed, <1>1, <1>4 DEF o, m
<1>15. CASE Len(done) > Len(total) /\ o = Hang(g)
  <2>1. Percent(g, S, b, Hang(g)) BY <1>9, <1>15, PercentFailed
  <2> QED BY <1>1, <1>4, <1>15, <2>1 DEF o, m
<1>16. CASE Len(A) > Len(T) /\ o = Ok(OnEach(g, cut, Assign), <<>>)
  <2>1. Percent(g, S, b, Ok(OnEach(g, cut, Assign), <<>>))
    BY <1>7, <1>8, <1>16, SeqOver, AssignedRedone, PercentOk
  <2> QED BY <1>1, <1>5, <1>8, <1>16, <2>1 DEF o, m
<1> QED BY <1>2, <1>10, <1>11, <1>12, <1>13, <1>14, <1>15, <1>16 DEF o, m

(* The next group, after the outcome r of those before. *)
LEMMA NextGroupIs ==
  ASSUME NEW g, NEW S, Ours(g, S), NEW arg \in Seq(S), NEW total \in Seq(S), NEW b,
         NEW r, Percent(g, S, b, r), b => ~(Len(r.out.s) > Len(total)), NEW f, NEW key
  PROVE  LET q == NextGroup(f, r, key, arg, total)
         IN /\ Percent(g, S, b, q)
            /\ r.out.s = <<>> => Len(q.out.s) <= Greater(Len(arg), Len(total))
<1> DEFINE A == Keyed(f, arg, key)
           T == Keyed(f, total, key)
           o == GroupPercent(r.h, total, r.out.s, A, T)
           q == NextGroup(f, r, key, arg, total)
<1>1. /\ A \in Seq(S) /\ Len(A) <= Len(arg) /\ T \in Seq(S) /\ Len(T) <= Len(total)
  BY OnlyIs DEF Keyed
<1> HIDE DEF A, T
<1>2. Len(A) \in Nat /\ Len(T) \in Nat /\ Len(arg) \in Nat /\ Len(total) \in Nat
  BY <1>1
<1>3. CASE r.st # "ok" BY <1>3, <1>2 DEF NextGroup, Greater, q
<1>4. CASE r.st = "ok"
  <2>1. q = [o EXCEPT !.out = Own(r.out.s \o o.out.s)] BY <1>4 DEF NextGroup, A, T
  <2>2. Redone(g, S, r.h) /\ Ours(r.h, S) /\ r.out.s \in Seq(S) /\ (OneLength(g, S) => OneLength(r.h, S))
    BY RedoneOurs DEF Percent
  <2>3. Percent(r.h, S, ~(Len(r.out.s) > Len(total)), o) /\ Len(o.out.s) <= Greater(Len(A), Len(T))
    BY <1>1, <2>2, GroupPercentIs
  <2> HIDE DEF o, q
  <2> DEFINE e == o.h
             t == o.out.s
             y == o.st
             w == r.out.s \o t
             z == Own(w)
  <2>4. /\ o = [h |-> e, out |-> Own(t), st |-> y, put |-> <<>>]
        /\ Redone(r.h, S, e) /\ t \in Seq(S) /\ y \in {"ok", "panic", "hang"}
        /\ OneLength(r.h, S) /\ ~(Len(r.out.s) > Len(total)) => y = "ok"
    BY <2>3 DEF Percent
  <2>5. Redone(g, S, e) BY <2>2, <2>4, RedoneTwice
  <2>6. w \in Seq(S) /\ Len(w) = Len(r.out.s) + Len(t) BY <2>2, <2>4, ConcatPart
  <2>7. z.s = w BY DEF Own
  <2>8. q = [o EXCEPT !.out = z] BY <2>1
  <2> HIDE DEF e, t, y, w, z
  <2>9. q = [h |-> e, out |-> z, st |-> y, put |-> <<>>] BY <2>4, <2>8
  <2>10. q.h = e /\ q.out = z /\ q.st = y /\ q.put = <<>> /\ q.out.s = w
    BY <2>7, <2>9
  <2>11. z = Own(q.out.s) BY <2>10 DEF z
  <2>12. OneLength(g, S) /\ b => y = "ok" BY <2>2, <2>4
  <2>13. Percent(g, S, b, q)
    BY <2>4, <2>5, <2>6, <2>9, <2>10, <2>11, <2>12 DEF Percent
  <2>14. ASSUME r.out.s = <<>> PROVE Len(q.out.s) <= Greater(Len(arg), Len(total))
    BY <2>14, <2>4, <2>6, <2>3, <1>1, <1>2, <2>10 DEF t, Greater
  <2> QED BY <2>13, <2>14 DEF q
<1> QED BY <1>3, <1>4

LEMMA seriesGroup2AsPercentIs ==
  ASSUME NEW g, NEW S, Ours(g, S), NEW arg \in Seq(S), NEW total \in Seq(S)
  PROVE  \A r \in seriesGroup2AsPercent(g, arg, total) : Percent(g, S, Len(arg) = Len(total), r)
<1> DEFINE b == Len(arg) = Len(total)
           o == Ok(g, <<>>)
<1>1. Len(arg) \in Nat /\ Len(total) \in Nat OBVIOUS
<1>2. o.out.s = <<>> /\ Len(<<>>) = 0 /\ <<>> \in Seq(S) BY DEF Ok, Done, Own
<1>3. Percent(g, S, b, o) BY <1>2, OursIs, PercentOk
<1> HIDE DEF o
<1>4. ASSUME NEW f
      PROVE  Percent(g, S, b, NextGroup(f, NextGroup(f, o, 1, arg, total), 2, arg, total))
  <2> DEFINE q == NextGroup(f, o, 1, arg, total)
  <2>1. ~(Len(o.out.s) > Len(total)) BY <1>1, <1>2
  <2>2. Percent(g, S, b, q) /\ Len(q.out.s) <= Greater(Len(arg), Len(total))
    BY <1>2, <1>3, <2>1, NextGroupIs
  <2> HIDE DEF q
  <2>3. q.out.s \in Seq(S) BY <2>2 DEF Percent
  <2>4. b => ~(Len(q.out.s) > Len(total))
    <3> DEFINE k == Len(q.out.s)
    <3>1. k \in Nat BY <2>3
    <3>2. k <= Greater(Len(arg), Len(total)) BY <2>2
    <3> HIDE DEF k
    <3>3. b => ~(k > Len(total)) BY <1>1, <3>1, <3>2 DEF Greater
    <3> QED BY <3>3 DEF k
  <2>5. Percent(g, S, b, NextGroup(f, q, 2, arg, total))
    BY <2>2, <2>4, NextGroupIs
  <2> QED BY <2>5 DEF q
<1> QED BY <1>4 DEF seriesGroup2AsPercent, o

---------------------------------------
LEMMA FlatOnGrid ==
  ASSUME NEW h, NEW s, List(h, s), s # <<>>, Regular(h, s), NEW x \in BOOLEAN
  PROVE  Flat(h, s) /\ ~AlignPanics(h, s, x)
<1>1. \A p \in ToSet(s) : Whole(h[p]) /\ Alike(h[p], h[s[1]]) BY RegularIs
<1>2. Flat(h, s) BY <1>1 DEF Flat, Whole, Alike
<1> QED BY <1>2, FlatPositive

LEMMA asPercentGood ==
  ASSUME NEW h, NEW a, Given(h, a), NEW x \in BOOLEAN
  PROVE  AllGood(h, a.s, TRUE, asPercent(h, a, x))
<1> DEFINE s == a.s
           g == Aligned(h, s, x)
           c == CopiesOf(h, s)
           S == ToSet(c)
<1>1. List(h, s) /\ h \in Heaps BY GivenIs
<1> HIDE DEF s
<1>2. CASE s = <<>> BY <1>2, <1>1, FailuresGood DEF asPercent, s, AllGood
<1>3. CASE s # <<>> /\ AlignPanics(h, s, x)
  BY <1>3, <1>1, FlatOnGrid, FailuresGood DEF asPercent, s, AllGood
<1>4. CASE s # <<>> /\ ~AlignPanics(h, s, x)
  <2>1. asPercent(h, a, x) = {Ok(OnEach(g, c, Assign), c)} \cup seriesGroupAsPercent(g, c)
    BY <1>4 DEF asPercent, s
  <2>2. /\ Grown(h, g) /\ Ours(g, S) /\ c \in Seq(S)
        /\ \A p \in S : g[p].stop = g[p].start + g[p].n * g[p].step
        /\ Regular(h, s) => OneLength(g, S)
    BY <1>1, <1>4, CopiedIs
  <2> HIDE DEF g, c, S
  <2>3. Percent(g, S, TRUE, Ok(OnEach(g, c, Assign), c))
    BY <2>2, SeqOver, AssignedRedone, PercentOk
  <2>4. \A r \in seriesGroupAsPercent(g, c) : Percent(g, S, TRUE, r)
    BY <2>2, seriesGroupAsPercentIs
  <2>5. \A r : Percent(g, S, TRUE, r) => Good(h, s, TRUE, r)
    BY <1>1, <2>2, PercentGood
  <2> QED BY <2>1, <2>3, <2>4, <2>5 DEF AllGood, s
<1> QED BY <1>2, <1>3, <1>4

(* What append stores. *)
LEMMA AppendPut ==
  ASSUME NEW h, NEW a, NEW b, Given(h, a), Given(h, b), values \in [1..3 -> Seq(Nat)]
  PROVE  \A k \in DOMAIN AppendTo(h, a, b.s).put : AppendTo(h, a, b.s).put[k] \in Seq(1..Len(h))
  BY GivenBoth, GivenIs, AppendToFair

LEMMA FirstAndRest ==
  ASSUME NEW S, NEW c \in Seq(S), NEW n \in Nat, n <= Len(c)
  PROVE  /\ SubSeq(c, 1, n) \in Seq(S) /\ Len(SubSeq(c, 1, n)) = n
         /\ SubSeq(c, n + 1, Len(c)) \in Seq(S) /\ Len(SubSeq(c, n + 1, Len(c))) = Len(c) - n
<1>1. SubSeq(c, 1, n) \in Seq(S) /\ Len(SubSeq(c, 1, n)) = n BY CutPart
<1> DEFINE m == n + 1
<1>2. m \in Nat /\ 1 <= m /\ Len(c) \in Nat /\ Len(c) - m + 1 = Len(c) - n /\ (m > Len(c) => Len(c) - n = 0)
  OBVIOUS
<1> HIDE DEF m
<1>3. SubSeq(c, m, Len(c)) \in Seq(S) /\ Len(SubSeq(c, m, Len(c))) = Len(c) - n
  BY <1>2, CutPart
<1> QED BY <1>1, <1>3 DEF m

LEMMA asPercentOfFair ==
  ASSUME NEW h, NEW a, NEW b, Given(h, a), Given(h, b), NEW x \in BOOLEAN, values \in [1..3 -> Seq(Nat)]
  PROVE  AllFair(h, a.s \o b.s, Len(a.s) = Len(b.s), asPercentOf(h, a, b, x))
<1> DEFINE both == a.s \o b.s
           n == Len(a.s)
           d == n = Len(b.s)
           g == Aligned(h, both, x)
           c == CopiesOf(h, both)
           S == ToSet(c)
           arg == SubSeq(c, 1, n)
           total == SubSeq(c, n + 1, Len(both))
           put == AppendTo(h, a, b.s).put
           O == IF AlignPanics(h, both, x) THEN {Panic(h)}
                ELSE seriesAsPercent(g, arg, total) \cup seriesGroup2AsPercent(g, arg, total)
<1>1. /\ List(h, both) /\ h \in Heaps /\ n \in Nat /\ Len(b.s) \in Nat /\ Len(both) = n + Len(b.s)
      /\ \A k \in DOMAIN put : put[k] \in Seq(1..Len(h))
  <2>0. List(h, both) /\ h \in Heaps /\ Joined(both, a.s, b.s) BY GivenBoth
  <2>1. List(h, both) /\ h \in Heaps /\ Len(both) = n + Len(b.s)
    BY <2>0 DEF Joined
  <2>2. n \in Nat /\ Len(b.s) \in Nat BY GivenIs
  <2>3. \A k \in DOMAIN put : put[k] \in Seq(1..Len(h)) BY AppendPut
  <2> HIDE DEF both, n, put
  <2> QED BY <2>1, <2>2, <2>3
<1>2. CASE a.s = <<>>
  BY <1>2, <1>1, FailuresGood, GoodFair DEF asPercentOf, AllFair
<1>3. CASE a.s # <<>>
  <2>1. asPercentOf(h, a, b, x) = {[r EXCEPT !.put = put] : r \in O}
    BY <1>3 DEF asPercentOf
  <2>2. both # <<>>
    <3>1. n # 0 BY GivenIs, <1>3
    <3> HIDE DEF n
    <3>2. Len(both) # 0 BY <1>1, <3>1
    <3> QED
      <4> HIDE DEF both
      <4>1. Len(<<>>) = 0 OBVIOUS
      <4> QED BY <3>2, <4>1
  <2> HIDE DEF both, put
  <2>3. CASE AlignPanics(h, both, x)
    <3>1. O = {Panic(h)} BY <2>3
    <3>2. ~Regular(h, both) BY <1>1, <2>2, <2>3, FlatOnGrid
    <3>3. Fair(h, both, d, Panic(h)) /\ Panic(h).out.key = 0
      BY <1>1, <3>2, FailuresGood, FailuresAre, GoodFair
    <3>4. Fair(h, both, d, [Panic(h) EXCEPT !.put = put]) BY <1>1, <3>3, PutFair
    <3> HIDE DEF O
    <3> QED BY <2>1, <3>1, <3>4 DEF AllFair, both
  <2>4. CASE ~AlignPanics(h, both, x)
    <3>1. O = seriesAsPercent(g, arg, total) \cup seriesGroup2AsPercent(g, arg, total)
      BY <2>4
    <3>2. /\ Grown(h, g) /\ Ours(g, S) /\ c \in Seq(S) /\ Len(c) = Len(both)
          /\ \A p \in S : g[p].stop = g[p].start + g[p].n * g[p].step
          /\ Regular(h, both) => OneLength(g, S)
      <4> HIDE DEF O, arg, total, d, n
      <4>1. Ours(g, S) /\ c \in Seq(S) /\ Len(c) = Len(both)
        BY <1>1, <2>2, CopiedIs
      <4>2. /\ Grown(h, g) /\ \A p \in S : g[p].stop = g[p].start + g[p].n * g[p].step
            /\ Regular(h, both) => OneLength(g, S)
        BY <1>1, <2>2, CopiedIs
      <4> HIDE DEF g, c, S
      <4> QED BY <4>1, <4>2
    <3>3. arg \in Seq(S) /\ Len(arg) = n /\ total \in Seq(S) /\ Len(total) = Len(b.s)
      <4> HIDE DEF c, S, n
      <4>1. n <= Len(c) /\ Len(c) - n = Len(b.s) BY <1>1, <3>2
      <4> QED BY <1>1, <3>2, <4>1, FirstAndRest, SMTT(30)
    <3> HIDE DEF O, g, c, S, arg, total
    <3>4. \A r \in seriesAsPercent(g, arg, total) : Percent(g, S, d, r)
      BY <3>2, <3>3, seriesAsPercentIs
    <3>5. \A r \in seriesGroup2AsPercent(g, arg, total) : Percent(g, S, d, r)
      BY <3>2, <3>3, seriesGroup2AsPercentIs
    <3>6. \A r : Percent(g, S, d, r) => Good(h, both, d, r) /\ r.out.key = 0
      <4> HIDE DEF d
      <4> QED BY <1>1, <3>2, PercentGood
    <3> HIDE DEF d
    <3>7. \A r \in O : Fair(h, both, d, r) /\ r.out.key = 0
      BY <3>1, <3>4, <3>5, <3>6, GoodFair
    <3>8. \A r \in O : Fair(h, both, d, [r EXCEPT !.put = put])
      BY <1>1, <3>7, PutFair
    <3> QED BY <2>1, <3>8 DEF AllFair, both, d, n
  <2> QED BY <2>3, <2>4
<1> QED BY <1>2, <1>3

---------------------------------------

(* A further aggregate of series made so far. *)
LEMMA SumIs ==
  ASSUME NEW h, NEW L, List(h, L), NEW r, Steady(h, L, r), NEW s, List(r.h, s),
         Flat(h, L) => Near(r.h, L, s), NEW x \in BOOLEAN
  PROVE  LET q == Sum(r, s, x)
         IN Steady(h, L, q) /\ Grown(r.h, q.h) /\ (Flat(h, L) => Still(r.h, q.h))
<1>1. r.h \in Heaps /\ Grown(h, r.h) /\ Grown(r.h, r.h)
  BY GrownSame DEF Steady, Safe, OutcomeOK, Grown
<1>2. CASE r.st # "ok" BY <1>2, <1>1 DEF Sum, Still, Alike
<1>3. CASE r.st = "ok"
  <2> DEFINE q == AggregateSeries(r.h, s, x)
  <2>1. Sum(r, s, x) = q BY <1>3 DEF Sum
  <2>2. List(r.h, L) BY <1>1, ListGrown
  <2>3. CASE Flat(h, L)
    <3>1. Still(h, r.h) /\ Near(r.h, L, s) BY <2>3 DEF Steady
    <3>2. Flat(r.h, L) BY <2>3, <3>1, StillFlat
    <3>3. Steady(r.h, L, q) BY <2>2, <3>1, AggregateIs
    <3> HIDE DEF q
    <3>4. Grown(r.h, q.h) /\ Still(r.h, q.h)
      BY <3>2, <3>3 DEF Steady, Safe, OutcomeOK
    <3> QED BY <2>1, <3>3, <3>4, SteadyAfter
  <2>4. CASE ~Flat(h, L)
    <3>1. Near(r.h, s, s) BY NearItself
    <3>2. Steady(r.h, s, q) BY <3>1, AggregateIs
    <3> HIDE DEF q
    <3>3. Safe(r.h, q) /\ Grown(r.h, q.h) BY <3>2 DEF Steady, Safe, OutcomeOK
    <3>4. OutcomeOK(h, q) BY <1>1, <3>3, GrownTwice DEF Safe, OutcomeOK
    <3>5. Steady(h, L, q) BY <2>4, <3>3, <3>4 DEF Steady, Safe
    <3> QED BY <2>1, <2>4, <3>3, <3>5
  <2> QED BY <2>3, <2>4
<1> QED BY <1>2, <1>3

(* A list made before a further step. *)
LEMMA NearLater ==
  ASSUME NEW h, NEW L, NEW s, List(h, s), NEW g, Grown(h, g)
  PROVE  List(g, s) /\ (Still(h, g) /\ Near(h, L, s) /\ List(h, L) => Near(g, L, s))
<1>1. List(g, s) BY ListGrown
<1>2. ASSUME Still(h, g), Near(h, L, s), List(h, L) PROVE Near(g, L, s)
  <2> SUFFICES ASSUME NEW p \in ToSet(s) PROVE \E q \in ToSet(L) : Alike(g[p], g[q])
    BY DEF Near
  <2>1. PICK q \in ToSet(L) : Alike(h[p], h[q]) BY <1>2 DEF Near
  <2>2. p \in 1..Len(h) /\ q \in 1..Len(h) BY <1>2, InList
  <2> QED BY <1>2, <2>1, <2>2 DEF Still, Alike
<1> QED BY <1>1, <1>2

(* The products divided by the weights. *)
LEMMA AverageIs ==
  ASSUME NEW h, NEW L, List(h, L), NEW r, Steady(h, L, r), NEW b, ToSet(b.s) \subseteq ToSet(L),
         List(h, b.s), NEW x \in BOOLEAN
  PROVE  Steady(h, L, Average(r, b, x))
<1>1. Grown(h, r.h) /\ List(r.h, r.out.s) BY DEF Steady, Safe, OutcomeOK
<1>2. List(r.h, b.s) /\ (Flat(h, L) => Near(r.h, L, b.s))
  BY <1>1, NearItself, ListGrown
<1> DEFINE w == Sum(r, b.s, x)
           s == r.out.s
           t == w.out.s
           both == s \o t
<1>3. Steady(h, L, w) /\ Grown(r.h, w.h) /\ (Flat(h, L) => Still(r.h, w.h))
  BY <1>2, SumIs
<1> HIDE DEF w
<1>4. List(w.h, s) /\ (Flat(h, L) => Near(w.h, L, s))
  BY <1>1, ListGrown, <1>3, NearLater DEF Steady, s
<1>5. List(w.h, t) /\ (Flat(h, L) => Near(w.h, L, t)) BY <1>3 DEF Steady, Safe
<1> HIDE DEF s, t
<1>6. List(w.h, both) BY <1>4, <1>5, ListBoth
<1>7. ToSet(both) = ToSet(s) \cup ToSet(t)
  <2>1. s \in Seq(1..Len(w.h)) /\ t \in Seq(1..Len(w.h)) BY <1>4, <1>5 DEF List
  <2>2. Range(both) = Range(s) \cup Range(t) BY <2>1, ConcatElements
  <2> HIDE DEF both
  <2> QED BY <2>2 DEF ToSet, Range
<1> HIDE DEF both
<1>8. Flat(h, L) => Near(w.h, L, both) BY <1>4, <1>5, <1>7 DEF Near
<1>9. Steady(h, L, Sum(w, both, x)) BY <1>3, <1>6, <1>8, SumIs
<1> QED BY <1>9 DEF Average, Quotient, w, both, s, t

LEMMA FiniteList ==
  ASSUME NEW V, NEW s \in Seq(V)
  PROVE  IsFiniteSet(ToSet(s))
<1>1. IsFiniteSet(1..Len(s)) BY FS_Interval
<1>2. IsFiniteSet({s[i] : i \in 1..Len(s)}) BY <1>1, FiniteImage
<1>3. ToSet(s) = {s[i] : i \in 1..Len(s)} BY DEF ToSet
<1> QED BY <1>2, <1>3

(* One matching. *)
LEMMA WeightedIs ==
  ASSUME NEW h, NEW L, List(h, L), NEW b, ToSet(b.s) \subseteq ToSet(L), List(h, b.s),
         NEW M \in SUBSET (ToSet(L) \X ToSet(L)), NEW x \in BOOLEAN
  PROVE  \A r \in Weighted(h, b, M, x) : Steady(h, L, r)
<1> DEFINE w == SetToSeq(M)
           P == Each(Ok(h, <<>>), w, LAMBDA f, p : {AggregateSeries(f, <<p[1], p[2]>>, x)})
<1>1. w \in Seq(ToSet(L) \X ToSet(L))
  <2>1. IsFiniteSet(ToSet(L)) BY FiniteList DEF List
  <2>2. IsFiniteSet(ToSet(L) \X ToSet(L)) BY <2>1, FS_Product
  <2>3. IsFiniteSet(M) BY <2>2, FS_Subset
  <2>4. w \in Seq(M) BY <2>3, SetToSeqElements
  <2> HIDE DEF w
  <2> QED BY <2>4, SeqWider
<1> HIDE DEF w
<1>2. \A q \in P : Steady(h, L, q) BY <1>1, EachPair
<1> HIDE DEF P
<1>3. Weighted(h, b, M, x) =
        {IF q.st = "ok" /\ q.out.s = <<>> THEN q ELSE Average(Sum(q, q.out.s, x), b, x) : q \in P}
  BY DEF Weighted, P, w
<1>4. ASSUME NEW q \in P PROVE Steady(h, L, Average(Sum(q, q.out.s, x), b, x))
  <2> DEFINE o == Sum(q, q.out.s, x)
  <2>1. Steady(h, L, q) BY <1>2
  <2>2. List(q.h, q.out.s) /\ (Flat(h, L) => Near(q.h, L, q.out.s))
    BY <2>1 DEF Steady, Safe
  <2>3. Steady(h, L, o) BY <2>1, <2>2, SumIs
  <2> HIDE DEF o
  <2> QED BY <2>3, AverageIs DEF o
<1> QED BY <1>2, <1>3, <1>4

(* Outcomes on the aligned list are outcomes on the list. *)
LEMMA SteadyFrom ==
  ASSUME NEW h, NEW L, List(h, L), NEW g, Grown(h, g), Flat(h, L) => Still(h, g), NEW r, Steady(g, L, r)
  PROVE  Steady(h, L, r)
<1>1. OutcomeOK(h, r) BY GrownTwice DEF Steady, Safe, OutcomeOK
<1>2. ASSUME Flat(h, L)
      PROVE  r.st \in {"ok", "error"} /\ Still(h, r.h) /\ Near(r.h, L, r.out.s)
  BY <1>2, StillFlat, StillTwice DEF Steady
<1> QED BY <1>1, <1>2 DEF Steady, Safe

LEMMA AlignedStill ==
  ASSUME NEW h, NEW s, List(h, s), s # <<>>, NEW x \in BOOLEAN
  PROVE  LET g == AlignSeries(h, s, x)
         IN Grown(h, g) /\ List(g, s) /\ (Flat(h, s) => Still(h, g))
<1> DEFINE g == AlignSeries(h, s, x)
<1>1. Changed(h, s, g) /\ List(g, s) /\ (Flat(h, s) => Same(h, s, g)) BY AlignIs
<1> HIDE DEF g
<1>2. Flat(h, s) => Still(h, g)
  <2> SUFFICES ASSUME Flat(h, s), NEW p \in 1..Len(h) PROVE Alike(g[p], h[p])
    BY DEF Still
  <2>1. CASE p \in ToSet(s) BY <1>1, <2>1 DEF Same
  <2>2. CASE p \notin ToSet(s) BY <1>1, <2>2 DEF Changed, Alike
  <2> QED BY <2>1, <2>2
<1> QED BY <1>1, <1>2 DEF Changed, g

LEMMA weightedAverageFair ==
  ASSUME NEW h, NEW a, NEW b, Given(h, a), Given(h, b), NEW x \in BOOLEAN, NEW d, values \in [1..3 -> Seq(Nat)]
  PROVE  AllFair(h, a.s \o b.s, d, weightedAverage(h, a, b, x))
<1> DEFINE both == a.s \o b.s
           g == AlignSeries(h, both, x)
           put == AppendTo(h, a, b.s).put
           Pairings == {M \in SUBSET (ToSet(a.s) \X ToSet(b.s)) :
                          \A p, q \in M : p[1] = q[1] \/ p[2] = q[2] => p = q}
           O == {Err(g)} \cup UNION {Weighted(g, b, M, x) : M \in Pairings}
<1>1. List(h, both) /\ h \in Heaps /\ ToSet(a.s) \subseteq ToSet(both) /\ ToSet(b.s) \subseteq ToSet(both)
  BY GivenBoth
<1>2. \A k \in DOMAIN put : put[k] \in Seq(1..Len(h)) BY AppendPut
<1>3. weightedAverage(h, a, b, x) =
        IF both = <<>> THEN {Ok(h, <<>>)}
        ELSE IF AlignPanics(h, both, x) THEN {Panic(h)}
        ELSE {[r EXCEPT !.put = put] : r \in O}
  BY DEF weightedAverage
<1>4. List(h, b.s) BY GivenIs
<1> HIDE DEF both, put
<1>5. CASE both = <<>>
  BY <1>3, <1>5, <1>1, FailuresGood, GoodFair DEF AllFair, both
<1>6. CASE both # <<>> /\ AlignPanics(h, both, x)
  <2> HIDE DEF O
  <2>1. weightedAverage(h, a, b, x) = {Panic(h)} BY <1>3, <1>6
  <2>2. ~Regular(h, both) BY <1>1, <1>6, FlatOnGrid
  <2>3. Fair(h, both, d, Panic(h)) BY <1>1, <2>2, FailuresGood, GoodFair
  <2> QED BY <2>1, <2>3 DEF AllFair, both
<1>7. CASE both # <<>> /\ ~AlignPanics(h, both, x)
  <2>1. weightedAverage(h, a, b, x) = {[r EXCEPT !.put = put] : r \in O}
    BY <1>3, <1>7
  <2>2. Grown(h, g) /\ List(g, both) /\ (Flat(h, both) => Still(h, g))
    BY <1>1, <1>7, AlignedStill
  <2> HIDE DEF g
  <2>3. List(g, b.s) /\ g \in Heaps BY <1>4, <2>2, ListGrown DEF Grown
  <2>4. \A M \in Pairings : \A r \in Weighted(g, b, M, x) : Steady(g, both, r)
    <3> SUFFICES ASSUME NEW M \in Pairings PROVE \A r \in Weighted(g, b, M, x) : Steady(g, both, r)
      OBVIOUS
    <3>1. M \in SUBSET (ToSet(both) \X ToSet(both)) BY <1>1
    <3> HIDE DEF Pairings
    <3> QED BY <1>1, <2>2, <2>3, <3>1, WeightedIs
  <2> HIDE DEF Pairings
  <2>5. Steady(g, both, Err(g)) BY <2>3, FailuresSteady
  <2>6. \A r \in O : Steady(g, both, r) BY <2>4, <2>5
  <2> HIDE DEF O
  <2>7. \A r \in O : Steady(h, both, r) BY <1>1, <2>2, <2>6, SteadyFrom
  <2>8. \A r \in O : Fair(h, both, d, r) /\ r.out.key = 0
    BY <1>1, <2>7, SteadyGood, GoodFair DEF Steady, Safe
  <2>9. \A r \in O : Fair(h, both, d, [r EXCEPT !.put = put])
    BY <1>2, <2>8, PutFair
  <2> QED BY <2>1, <2>9 DEF AllFair, both
<1> QED BY <1>5, <1>6, <1>7

---------------------------------------
(* Division. *)
LEMMA DivIs ==
  ASSUME NEW a \in Int, NEW b \in Int, b > 0
  PROVE  LET q == a \div b
         IN q \in Int /\ q * b <= a /\ a < q * b + b /\ (a >= 0 => q >= 0)
<1> DEFINE q == a \div b
           r == a % b
<1>1. q \in Int /\ r \in Int /\ 0 <= r /\ r < b /\ a = b * q + r OBVIOUS
<1> HIDE DEF q, r
<1>2. a >= 0 => q >= 0
  <2> SUFFICES ASSUME a >= 0, q <= -1 PROVE FALSE BY <1>1
  <2>1. b * q <= -b BY <1>1
  <2> QED BY <1>1, <2>1
<1> QED BY <1>1, <1>2 DEF q

(* The quotient between two multiples. *)
LEMMA DivUnique ==
  ASSUME NEW b \in Int, b > 0, NEW q \in Int, NEW k \in Int, q * b < k * b + b
  PROVE  q <= k
<1> SUFFICES ASSUME q >= k + 1 PROVE FALSE OBVIOUS
<1>1. (q - k) * b >= b
  <2> DEFINE d == q - k
  <2>1. d \in Int /\ d >= 1 OBVIOUS
  <2> HIDE DEF d
  <2>2. d * b >= b BY <2>1
  <2> QED BY <2>2 DEF d
<1>2. (q - k) * b = q * b - k * b OBVIOUS
<1> DEFINE x == q * b
           y == k * b
           z == (q - k) * b
<1>3. x \in Int /\ y \in Int /\ z \in Int /\ z >= b /\ z = x - y /\ x < y + b
  BY <1>1, <1>2
<1> HIDE DEF x, y, z
<1> QED BY <1>3

LEMMA QuotOf ==
  ASSUME NEW a \in Int, NEW b \in Int, b > 0, a >= 0
  PROVE  /\ Quot(a, b) = a \div b /\ Quot(a, b) \in Int /\ Quot(a, b) >= 0
         /\ Quot(a, b) * b <= a /\ a < Quot(a, b) * b + b
<1>1. Greater(a, -a) = a /\ Greater(b, -b) = b BY DEF Greater
<1>2. Quot(a, b) = a \div b BY <1>1 DEF Quot
<1> QED BY <1>2, DivIs

LEMMA QuotExact ==
  ASSUME NEW k \in Int, k >= 0, NEW b \in Int, b > 0
  PROVE  Quot(k * b, b) = k /\ (k * b) \div b = k
<1> DEFINE a == k * b
           q == Quot(a, b)
<1>1. a \in Int /\ a >= 0 OBVIOUS
<1>2. q = a \div b /\ q \in Int /\ q * b <= a /\ a < q * b + b BY <1>1, QuotOf
<1> HIDE DEF q
<1>3. q * b < k * b + b /\ k * b < q * b + b BY <1>2
<1>4. q <= k /\ k <= q BY <1>2, <1>3, DivUnique
<1> QED BY <1>2, <1>4 DEF q

LEMMA CeilDivIs ==
  ASSUME NEW a \in Int, NEW b \in Int, b > 0
  PROVE  LET c == CeilDiv(a, b)
         IN c \in Int /\ a <= c * b /\ c * b < a + b /\ (a >= 0 => c >= 0)
<1> DEFINE m == a + b - 1
           c == m \div b
<1>1. m \in Int OBVIOUS
<1>2. CeilDiv(a, b) = c BY DEF CeilDiv
<1>3. c \in Int /\ c * b <= m /\ m < c * b + b /\ (m >= 0 => c >= 0)
  BY <1>1, DivIs
<1> HIDE DEF c
<1> DEFINE x == c * b
<1>4. x \in Int BY <1>3
<1>5. x <= m /\ m < x + b BY <1>3
<1> HIDE DEF x
<1>6. a <= x /\ x < a + b /\ (a >= 0 => c >= 0) BY <1>3, <1>4, <1>5
<1> QED BY <1>2, <1>3, <1>6 DEF x

---------------------------------------
(* An earlier interval. *)
LEMMA LookBackIs ==
  ASSUME NEW r \in Metric, r.step > 0, NEW d \in Int
  PROVE  LET q == LookBack(r, d)
             k == Quot(d, r.step)
         IN /\ q \in Metric /\ q.step = r.step /\ q.stop = r.stop /\ q.tags = 0 /\ q.arr = 0
            /\ q.n = Greater(0, r.n + k) /\ q.start = r.start - k * r.step
<1> DEFINE k == Quot(d, r.step)
           n == Greater(0, r.n + k)
           f == r.start - k * r.step
           e == NewValues(r, n)
           g == [e EXCEPT !.start = f]
<1>1. r.step \in Int /\ r.n \in Int /\ r.start \in Int /\ r.step # 0 BY DEF Metric
<1>2. k \in Int BY <1>1, QuotIs
<1> HIDE DEF k
<1>3. n \in Int /\ f \in Int
  <2> DEFINE m == r.n + k
  <2>1. m \in Int /\ f \in Int BY <1>1, <1>2
  <2>2. n = Greater(0, m) OBVIOUS
  <2> HIDE DEF m, n, f
  <2> QED BY <2>1, <2>2, GreaterIs
<1> HIDE DEF n
<1>4. e \in Metric /\ e.n = n /\ e.start = r.start /\ e.step = r.step /\ e.stop = r.stop /\ e.arr = 0
  BY <1>3, NewValuesIs
<1>5. LookBack(r, d) = [g EXCEPT !.tags = 0] BY <1>4 DEF LookBack, k, n
<1> HIDE DEF e, f
<1>6. g \in Metric /\ g.start = f /\ g.n = n /\ g.step = r.step /\ g.stop = r.stop /\ g.arr = 0
  BY <1>3, <1>4, WithStart
<1> HIDE DEF g
<1> QED BY <1>5, <1>6, WithTags DEF k, n, f

(* The greatest step of a list. *)
LEMMA MaxStepIs ==
  ASSUME NEW h, NEW s, List(h, s)
  PROVE  MaxStep(h, s) \in Int /\ MaxStep(h, s) >= 0 /\ \A i \in DOMAIN s : MaxStep(h, s) >= h[s[i]].step
<1> DEFINE n == Len(s) + 1
           f == [i \in 1..n |-> IF i = n THEN 0 ELSE h[s[i]].step]
           S == {0} \cup Steps(h, s)
<1>1. Len(s) \in Nat /\ DOMAIN s = 1..Len(s) /\ \A i \in DOMAIN s : h[s[i]].step \in Int
  BY ListIs DEF Metric
<1>2. n \in Nat /\ n > 0 /\ f \in [1..n -> Int] BY <1>1
<1>3. S = {f[i] : i \in 1..n}
  <2>1. ASSUME NEW x \in S PROVE x \in {f[i] : i \in 1..n}
    <3>1. CASE x = 0 BY <1>2, <3>1
    <3>2. CASE x \in Steps(h, s)
      <4>1. PICK i \in DOMAIN s : x = h[s[i]].step BY <3>2 DEF Steps
      <4>2. i \in 1..n /\ i # n BY <1>1
      <4> QED BY <4>1, <4>2
    <3> QED BY <3>1, <3>2
  <2>2. ASSUME NEW i \in 1..n PROVE f[i] \in S
    <3>1. CASE i = n BY <3>1
    <3>2. CASE i # n BY <1>1, <3>2 DEF Steps
    <3> QED BY <3>1, <3>2
  <2> QED BY <2>1, <2>2
<1> HIDE DEF n, f
<1>4. Greatest(S) \in Int /\ \A y \in S : Greatest(S) >= y
  BY <1>2, <1>3, ExtremesAre
<1> QED BY <1>4 DEF MaxStep, Steps

(* One new series for each of a list. *)
LEMMA EachFits ==
  ASSUME NEW h, NEW t, List(h, t), NEW s \in Seq(ToSet(t)), NEW recs, DOMAIN recs = DOMAIN s,
         recs = [i \in DOMAIN recs |-> recs[i]], \A i \in DOMAIN s : recs[i] \in Metric, NEW b,
         Regular(h, t) /\ b => \A i \in DOMAIN s : Fits(recs[i])
  PROVE  Good(h, t, b, New(h, recs)) /\ New(h, recs).out.key = 0
<1>1. DOMAIN s = 1..Len(s) /\ Len(s) \in Nat /\ h \in Heaps BY DEF List
<1>2. recs \in [1..Len(s) -> Metric] BY <1>1
<1>3. recs \in Seq(Metric) BY <1>1, <1>2
<1> QED BY <1>1, <1>3, NewFits, OwnOut

(* Copies under a new tag. *)
LEMMA TaggedIs ==
  ASSUME NEW r \in Metric, NEW n \in Int
  PROVE  /\ LET q == SetTag(CopyLink(r))
            IN q \in Metric /\ q = CopyLink(r) /\ Alike(q, r) /\ q.arr = r.arr /\ q.full \in Int
         /\ LET q == SetTag(NewValues(CopyTags(r), n))
            IN /\ q \in Metric /\ q.arr = 0 /\ q.tags = 0 /\ q.n = n
               /\ q.start = r.start /\ q.step = r.step /\ q.stop = r.stop
<1>1. /\ CopyLink(r) \in Metric /\ CopyLink(r).tags = 0 /\ Alike(CopyLink(r), r) /\ CopyLink(r).arr = r.arr
      /\ CopyTags(r) = CopyLink(r)
  BY CopiesAre
<1> DEFINE c == CopyLink(r)
           q == NewValues(c, n)
<1>2. SetTag(c) = c /\ c.full \in Int BY <1>1, WritesAre DEF Metric
<1> HIDE DEF c
<1>3. q \in Metric /\ q.arr = 0 /\ q.n = n /\ q.start = c.start /\ q.step = c.step /\ q.stop = c.stop /\ q.tags = c.tags
  BY <1>1, NewValuesIs DEF c
<1>4. c.tags = 0 /\ Alike(c, r) /\ SetTag(NewValues(CopyTags(r), n)) = SetTag(q)
  BY <1>1 DEF c
<1> HIDE DEF q
<1>5. SetTag(q) = q BY <1>3, <1>4, WritesAre
<1> QED BY <1>1, <1>2, <1>3, <1>4, <1>5 DEF c, Alike

LEMMA ShiftedIs ==
  ASSUME NEW r \in Metric, NEW d \in Int
  PROVE  LET q == [r EXCEPT !.start = @ + d, !.stop = @ + d]
         IN /\ q \in Metric /\ q.start = r.start + d /\ q.stop = r.stop + d
            /\ q.n = r.n /\ q.step = r.step
<1> DEFINE x == r.start + d
           y == r.stop + d
           p == [r EXCEPT !.start = x]
<1>1. x \in Int /\ y \in Int BY DEF Metric
<1>2. [r EXCEPT !.start = @ + d, !.stop = @ + d] = [p EXCEPT !.stop = y] OBVIOUS
<1> HIDE DEF x, y
<1>3. p \in Metric /\ p.start = x /\ p.n = r.n /\ p.step = r.step
  BY <1>1, WithStart
<1> HIDE DEF p
<1>4. LET q == [p EXCEPT !.stop = y]
      IN q \in Metric /\ q.start = p.start /\ q.stop = y /\ q.n = p.n /\ q.step = p.step
  BY <1>1, <1>3, WithStop
<1> QED BY <1>2, <1>3, <1>4 DEF x, y

(* A window of points or of seconds. *)
LEMMA MovedIs ==
  ASSUME NEW r \in Metric, r.step > 0, NEW d \in Int, NEW k \in Int, NEW nan \in BOOLEAN
  PROVE  /\ Moved(r, d, k, nan) \in Metric
         /\ k # 0 => Fits(Moved(r, d, k, nan))
<1> DEFINE l == LookBack(r, d)
           q == SetTag(CopyLink(l))
           n == Greater(0, q.n - k)
           v == NewValues(q, n)
           x == q.start + d
           y == [v EXCEPT !.start = x]
           z == IF nan THEN Filled(q) ELSE q
<1>1. l \in Metric /\ l.step = r.step BY LookBackIs
<1> HIDE DEF l
<1>2. q \in Metric /\ q.step = r.step /\ q.n \in Int /\ q.start \in Int
  BY <1>1, TaggedIs DEF Alike, Metric
<1> HIDE DEF q
<1>3. n \in Int /\ x \in Int
  <2> DEFINE m == q.n - k
  <2>1. m \in Int /\ x \in Int BY <1>2
  <2>2. n = Greater(0, m) OBVIOUS
  <2> HIDE DEF m, n, x
  <2> QED BY <2>1, <2>2, GreaterIs
<1> HIDE DEF n
<1>4. v \in Metric /\ v.step = r.step /\ v.start = q.start
  BY <1>2, <1>3, NewValuesIs
<1>5. Moved(r, d, k, nan) =
        IF k # 0 THEN RecalcStopTime([v EXCEPT !.start = v.start + d])
        ELSE [z EXCEPT !.start = z.start + d, !.stop = z.stop + d]
  BY DEF Moved, v, n, q, l
<1> HIDE DEF v
<1>6. [v EXCEPT !.start = v.start + d] = y BY <1>4
<1> HIDE DEF x
<1>7. y \in Metric /\ y.step > 0 BY <1>3, <1>4, WithStart
<1> HIDE DEF y
<1>8. RecalcStopTime(y) \in Metric /\ Fits(RecalcStopTime(y))
  BY <1>7, StopsAre, WholeFits
<1>9. z \in Metric BY <1>2, FilledIs
<1> HIDE DEF z
<1>10. [z EXCEPT !.start = z.start + d, !.stop = z.stop + d] \in Metric
  BY <1>9, ShiftedIs
<1> QED BY <1>5, <1>6, <1>8, <1>10

LEMMA AveragedIs ==
  ASSUME NEW r \in Metric, r.step > 0, NEW d \in Int, NEW k \in Int
  PROVE  Averaged(r, d, k) \in Metric /\ Fits(Averaged(r, d, k))
<1> DEFINE l == LookBack(r, d)
           q == SetTag(CopyLink(l))
           n == IF k > q.n THEN 1 ELSE q.n - k + 1
           v == NewValues(q, n)
           x == q.start + d
           y == [v EXCEPT !.start = x]
<1>1. l \in Metric /\ l.step = r.step BY LookBackIs
<1> HIDE DEF l
<1>2. q \in Metric /\ q.step = r.step /\ q.n \in Int /\ q.start \in Int
  BY <1>1, TaggedIs DEF Alike, Metric
<1> HIDE DEF q
<1>3. n \in Int /\ x \in Int BY <1>2
<1> HIDE DEF n
<1>4. v \in Metric /\ v.step = r.step /\ v.start = q.start
  BY <1>2, <1>3, NewValuesIs
<1>5. Averaged(r, d, k) = RecalcStopTime([v EXCEPT !.start = v.start + d])
  BY DEF Averaged, v, n, q, l
<1> HIDE DEF v
<1>6. [v EXCEPT !.start = v.start + d] = y BY <1>4
<1> HIDE DEF x
<1>7. y \in Metric /\ y.step > 0 BY <1>3, <1>4, WithStart
<1> HIDE DEF y
<1>8. RecalcStopTime(y) \in Metric /\ Fits(RecalcStopTime(y))
  BY <1>7, StopsAre, WholeFits
<1> QED BY <1>5, <1>6, <1>8

LEMMA MedianIs ==
  ASSUME NEW r \in Metric, r.step > 0, NEW d \in Int, NEW k \in Int, NEW nan \in BOOLEAN
  PROVE  /\ Median(r, d, k, nan) \in Metric
         /\ d # 0 => Fits(Median(r, d, k, nan))
<1> DEFINE q == SetTag(CopyLink(r))
           n == q.n - k
           v == NewValues(q, n)
           x == CeilDiv(From, r.step) * r.step
           y == [v EXCEPT !.start = x]
           z == IF nan THEN Filled(q) ELSE q
<1>1. r.step \in Int /\ From \in Int BY IntervalAssumption DEF Metric
<1>2. q \in Metric /\ q.step = r.step /\ q.n \in Int
  BY TaggedIs, <1>1 DEF Alike, Metric
<1> HIDE DEF q
<1>3. n \in Int /\ x \in Int
  <2>1. CeilDiv(From, r.step) \in Int BY <1>1, CeilDivIs
  <2> QED BY <1>1, <1>2, <2>1
<1> HIDE DEF n, x
<1>4. v \in Metric /\ v.step = r.step BY <1>2, <1>3, NewValuesIs
<1>5. Median(r, d, k, nan) = IF d = 0 THEN z ELSE RecalcStopTime(y)
  BY DEF Median, v, n, q, x
<1> HIDE DEF v
<1>7. y \in Metric /\ y.step > 0 BY <1>3, <1>4, WithStart
<1> HIDE DEF y
<1>8. RecalcStopTime(y) \in Metric /\ Fits(RecalcStopTime(y))
  BY <1>7, StopsAre, WholeFits
<1>9. z \in Metric BY <1>2, FilledIs
<1> QED BY <1>5, <1>8, <1>9

(* Lists on one grid and an interval between their step and their length. *)
LEMMA CountedIs ==
  ASSUME NEW h, NEW s, List(h, s), Regular(h, s), NEW p \in Int, CountedIn(h, s, p), NEW i \in DOMAIN s
  PROVE  LET r == h[s[i]]
         IN /\ r \in Metric /\ Whole(r) /\ r.step \in Int /\ r.n \in Int /\ r.start \in Int /\ r.stop \in Int
            /\ p >= r.step /\ p >= 1 /\ p <= r.n /\ r.step = h[s[1]].step
            /\ Quot(p, r.step) = p \div r.step /\ Quot(p, r.step) \in Int /\ Quot(p, r.step) >= 1
            /\ Quot(p, r.step) * r.step <= p /\ p < Quot(p, r.step) * r.step + r.step
<1> DEFINE r == h[s[i]]
           k == Quot(p, r.step)
<1>1. /\ r \in Metric /\ Whole(r) /\ Len(s) <= r.n /\ r.step = h[s[1]].step
  BY RegularIs DEF Alike
<1>2. p \in 1..Len(s) /\ p >= r.step /\ Len(s) \in Nat BY ListIs DEF CountedIn
<1> HIDE DEF r
<1>3. r.step \in Int /\ r.n \in Int /\ r.start \in Int /\ r.stop \in Int /\ r.step > 0
  BY <1>1 DEF Metric, Whole
<1>4. p >= 1 /\ p <= r.n BY <1>1, <1>2, <1>3
<1>5. k = p \div r.step /\ k \in Int /\ k >= 0 /\ k * r.step <= p /\ p < k * r.step + r.step
  <2> DEFINE d == r.step
  <2>1. d \in Int /\ d > 0 /\ p >= 0 BY <1>3, <1>4
  <2> HIDE DEF d
  <2>2. Quot(p, d) = p \div d /\ Quot(p, d) \in Int /\ Quot(p, d) >= 0
        /\ Quot(p, d) * d <= p /\ p < Quot(p, d) * d + d
    BY <2>1, QuotOf
  <2> QED BY <2>2 DEF d
<1> HIDE DEF k
<1>6. k >= 1
  <2> SUFFICES ASSUME k = 0 PROVE FALSE BY <1>5
  <2>1. k * r.step = 0 BY <1>3
  <2> QED BY <1>2, <1>3, <1>5, <2>1
<1> QED BY <1>1, <1>2, <1>3, <1>4, <1>5, <1>6 DEF r, k

LEMMA movingGood ==
  ASSUME NEW h, NEW a, Given(h, a), NEW p \in Int
  PROVE  AllGood(h, a.s, CountedIn(h, a.s, p), moving(h, a, p))
<1> DEFINE s == a.s
           b == CountedIn(h, s, p)
           Sec(w) == IF w = "points" THEN MaxStep(h, s) * p ELSE Greater(p, -p)
           Pts(w, r) == IF w = "points" THEN p ELSE Sec(w) \div r.step
           recs(w, nan) == [i \in DOMAIN s |-> Moved(h[s[i]], Sec(w), Pts(w, h[s[i]]), nan)]
<1>1. List(h, s) /\ h \in Heaps /\ s \in Seq(ToSet(s)) BY GivenIs
<1>2. \A i \in DOMAIN s : h[s[i]] \in Metric /\ h[s[i]].step > 0 /\ h[s[i]].step \in Int
  BY <1>1, ListIs DEF Metric
<1>3. ASSUME NEW w \in Windows PROVE Sec(w) \in Int BY <1>1, MaxStepIs DEF Greater
<1>4. ASSUME NEW w \in Windows, NEW i \in DOMAIN s PROVE Pts(w, h[s[i]]) \in Int
  <2> DEFINE x == Sec(w)
             r == h[s[i]]
  <2>1. x \in Int /\ r.step \in Int /\ r.step > 0 BY <1>2, <1>3
  <2> HIDE DEF x, r
  <2>2. x \div r.step \in Int BY <2>1
  <2> QED BY <2>2 DEF x, r
<1>5. ASSUME NEW w \in Windows, NEW i \in DOMAIN s, Regular(h, s), b PROVE Pts(w, h[s[i]]) # 0
  BY <1>1, <1>5, CountedIs DEF Greater
<1>6. ASSUME NEW w \in Windows, NEW nan \in BOOLEAN PROVE Good(h, s, b, New(h, recs(w, nan)))
  <2> DEFINE v == recs(w, nan)
             x == Sec(w)
             K(i) == Pts(w, h[s[i]])
  <2>1. v = [i \in DOMAIN s |-> Moved(h[s[i]], x, K(i), nan)] /\ x \in Int BY <1>3
  <2>2. \A i \in DOMAIN s : K(i) \in Int /\ (Regular(h, s) /\ b => K(i) # 0)
    BY <1>4, <1>5, <1>6
  <2> HIDE DEF v, x, K, b
  <2>3. \A i \in DOMAIN s : v[i] \in Metric /\ (Regular(h, s) /\ b => Fits(v[i]))
    BY <1>2, <1>6, <2>1, <2>2, MovedIs
  <2>4. DOMAIN v = DOMAIN s /\ v = [i \in DOMAIN v |-> v[i]] BY <2>1
  <2>5. Good(h, s, b, New(h, v)) BY <1>1, <2>3, <2>4, EachFits
  <2> QED BY <2>5 DEF v
<1>7. s # <<>> /\ p < 0 => Good(h, s, b, Panic(h))
  <2>1. b => ~(p < 0) BY <1>1 DEF CountedIn
  <2> HIDE DEF b
  <2> QED BY <1>1, <2>1, FailuresGood
<1> DEFINE R(w, nan) == IF s # <<>> /\ w = "points" /\ p < 0 THEN {Panic(h)} ELSE {New(h, recs(w, nan))}
<1>9. moving(h, a, p) = UNION {R(w, nan) : w \in Windows, nan \in BOOLEAN}
  BY DEF moving, ForEachSeriesDo1
<1> HIDE DEF b
<1>8. ASSUME NEW w \in Windows, NEW nan \in BOOLEAN
      PROVE  \A r \in R(w, nan) : Good(h, s, b, r)
  BY <1>6, <1>7, <1>8
<1> QED
  <2> HIDE DEF R
  <2> QED BY <1>8, <1>9 DEF AllGood, b

LEMMA exponentialMovingAverageGood ==
  ASSUME NEW h, NEW a, Given(h, a), NEW p \in Int
  PROVE  AllGood(h, a.s, CountedIn(h, a.s, p), exponentialMovingAverage(h, a, p))
<1> DEFINE s == a.s
           b == CountedIn(h, s, p)
           window == Greater(p, -p)
           Sec(w) == IF w = "points" THEN MaxStep(h, s) * window ELSE window
           Pts(w, r) == IF w = "points" THEN window ELSE window \div r.step
           recs(w) == [i \in DOMAIN s |-> Averaged(h[s[i]], Sec(w), Pts(w, h[s[i]]))]
           R(w) == IF w = "points" /\ s = <<>> THEN {Done(h, a)}
                   ELSE IF Sec(w) < 1 THEN {Err(h)}
                   ELSE IF \E i \in DOMAIN s : Pts(w, h[s[i]]) = 0 THEN {Panic(h)}
                   ELSE {New(h, recs(w))}
<1>1. List(h, s) /\ h \in Heaps /\ s \in Seq(ToSet(s)) /\ a \in Slices /\ Linked(a) /\ s \in Seq(1..Len(h))
  BY GivenIs DEF Given
<1>2. \A i \in DOMAIN s : h[s[i]] \in Metric /\ h[s[i]].step > 0 /\ h[s[i]].step \in Int
  BY <1>1, ListIs DEF Metric
<1>3. ASSUME NEW w \in Windows PROVE Sec(w) \in Int BY <1>1, MaxStepIs DEF Greater
<1>4. ASSUME NEW w \in Windows, NEW i \in DOMAIN s PROVE Pts(w, h[s[i]]) \in Int
  <2> DEFINE x == window
             r == h[s[i]]
  <2>1. x \in Int /\ r.step \in Int /\ r.step > 0 BY <1>2 DEF Greater
  <2> HIDE DEF x, r
  <2>2. x \div r.step \in Int BY <2>1
  <2> QED BY <2>1, <2>2 DEF x, r
<1>5. ASSUME NEW w \in Windows, NEW i \in DOMAIN s, Regular(h, s), b PROVE Pts(w, h[s[i]]) # 0
  <2>1. p >= 1 /\ Quot(p, h[s[i]].step) = p \div h[s[i]].step /\ Quot(p, h[s[i]].step) >= 1 /\ Quot(p, h[s[i]].step) \in Int
    BY <1>1, <1>5, CountedIs
  <2>2. Greater(p, -p) = p BY <2>1 DEF Greater
  <2> QED BY <2>1, <2>2
<1>6. ASSUME NEW w \in Windows PROVE Good(h, s, b, New(h, recs(w)))
  <2> DEFINE v == recs(w)
             x == Sec(w)
             K(i) == Pts(w, h[s[i]])
  <2>1. v = [i \in DOMAIN s |-> Averaged(h[s[i]], x, K(i))] /\ x \in Int BY <1>3
  <2>2. \A i \in DOMAIN s : K(i) \in Int BY <1>4, <1>6
  <2> HIDE DEF v, x, K, b
  <2>3. \A i \in DOMAIN s : v[i] \in Metric /\ (Regular(h, s) /\ b => Fits(v[i]))
    BY <1>2, <1>6, <2>1, <2>2, AveragedIs
  <2>4. DOMAIN v = DOMAIN s /\ v = [i \in DOMAIN v |-> v[i]] BY <2>1
  <2>5. Good(h, s, b, New(h, v)) BY <1>1, <2>3, <2>4, EachFits
  <2> QED BY <2>5 DEF v
<1>7. ASSUME NEW w \in Windows, NEW i \in DOMAIN s, Pts(w, h[s[i]]) = 0 PROVE Good(h, s, b, Panic(h))
  BY <1>5, <1>7, <1>1, FailuresGood
<1>8. exponentialMovingAverage(h, a, p) = UNION {R(w) : w \in Windows}
  BY DEF exponentialMovingAverage, ForEachSeriesDo1
<1> HIDE DEF b
<1>9. s = <<>> => Good(h, s, b, Done(h, a)) BY <1>1, DoneIs DEF Regular, Good
<1>10. Good(h, s, b, Err(h)) BY <1>1, FailuresGood
<1>11. ASSUME NEW w \in Windows PROVE \A r \in R(w) : Good(h, s, b, r)
  BY <1>6, <1>7, <1>9, <1>10, <1>11
<1> QED BY <1>8, <1>11 DEF AllGood, b

LEMMA movingMedianGood ==
  ASSUME NEW h, NEW a, Given(h, a), NEW p \in Int
  PROVE  AllGood(h, a.s, CountedIn(h, a.s, p), movingMedian(h, a, p))
<1> DEFINE s == a.s
           b == CountedIn(h, s, p)
           Size(w) == IF w = "points" THEN p ELSE Quot(p, h[s[1]].step)
           Cut(w) == IF w = "points" THEN 0 ELSE Size(w)
           Seen(w, r) == IF w = "points" THEN r ELSE LookBack(r, p)
           recs(w, nan) == [i \in DOMAIN s |-> Median(Seen(w, h[s[i]]), Size(w), Cut(w), nan)]
           R(w, nan) == IF s = <<>> THEN {Ok(h, <<>>)}
                        ELSE IF Size(w) < 0 \/ \E i \in DOMAIN s : Seen(w, h[s[i]]).n < Cut(w) THEN {Panic(h)}
                        ELSE {New(h, recs(w, nan))}
<1>1. List(h, s) /\ h \in Heaps /\ s \in Seq(ToSet(s)) /\ Len(s) \in Nat /\ DOMAIN s = 1..Len(s)
  BY GivenIs
<1>2. \A i \in DOMAIN s : h[s[i]] \in Metric /\ h[s[i]].step > 0 /\ h[s[i]].step \in Int
  BY <1>1, ListIs DEF Metric
<1>3. ASSUME s # <<>>, NEW w \in Windows PROVE Size(w) \in Int /\ Cut(w) \in Int
  <2>1. 1 \in DOMAIN s BY <1>1, <1>3
  <2>2. h[s[1]].step # 0 /\ h[s[1]].step \in Int BY <1>2, <2>1
  <2> QED BY <2>2, QuotIs
<1>4. ASSUME NEW w \in Windows, NEW i \in DOMAIN s PROVE Seen(w, h[s[i]]) \in Metric /\ Seen(w, h[s[i]]).step > 0
  BY <1>2, LookBackIs
<1>5. ASSUME NEW w \in Windows, NEW i \in DOMAIN s, Regular(h, s), b
      PROVE  Size(w) > 0 /\ ~(Seen(w, h[s[i]]).n < Cut(w))
  <2> DEFINE r == h[s[i]]
             k == Quot(p, r.step)
  <2>1. /\ r \in Metric /\ r.step > 0 /\ r.n \in Int /\ p >= 1 /\ p <= r.n /\ r.step = h[s[1]].step
        /\ k >= 1 /\ k \in Int
    BY <1>1, <1>2, <1>5, CountedIs
  <2>2. LookBack(r, p).n = Greater(0, r.n + k) BY <2>1, LookBackIs
  <2>3. CASE w = "points" BY <2>1, <2>3
  <2>4. CASE w = "seconds" BY <2>1, <2>4, <2>2 DEF Greater
  <2> QED BY <2>3, <2>4 DEF Windows
<1>6. ASSUME s # <<>>, NEW w \in Windows, NEW nan \in BOOLEAN PROVE Good(h, s, b, New(h, recs(w, nan)))
  <2> DEFINE v == recs(w, nan)
             x == Size(w)
             y == Cut(w)
             K(i) == Seen(w, h[s[i]])
  <2>1. v = [i \in DOMAIN s |-> Median(K(i), x, y, nan)] /\ x \in Int /\ y \in Int
    BY <1>3, <1>6
  <2>2. \A i \in DOMAIN s : K(i) \in Metric /\ K(i).step > 0 /\ (Regular(h, s) /\ b => x # 0)
    BY <1>4, <1>5, <1>6
  <2> HIDE DEF v, x, y, K, b
  <2>3. \A i \in DOMAIN s : v[i] \in Metric /\ (Regular(h, s) /\ b => Fits(v[i]))
    BY <1>6, <2>1, <2>2, MedianIs
  <2>4. DOMAIN v = DOMAIN s /\ v = [i \in DOMAIN v |-> v[i]] BY <2>1
  <2>5. Good(h, s, b, New(h, v)) BY <1>1, <2>3, <2>4, EachFits
  <2> QED BY <2>5 DEF v
<1>7. ASSUME s # <<>>, NEW w \in Windows, Size(w) < 0 \/ \E i \in DOMAIN s : Seen(w, h[s[i]]).n < Cut(w)
      PROVE  Good(h, s, b, Panic(h))
  <2>1. 1 \in DOMAIN s BY <1>1, <1>7
  <2>2. ~(Regular(h, s) /\ b)
    <3> SUFFICES ASSUME Regular(h, s), b PROVE FALSE OBVIOUS
    <3>1. Size(w) > 0 /\ \A i \in DOMAIN s : ~(Seen(w, h[s[i]]).n < Cut(w))
      BY <1>5, <2>1, <1>7
    <3>2. Size(w) \in Int BY <1>3, <1>7
    <3> HIDE DEF Size, Seen, Cut
    <3> QED BY <1>7, <3>1, <3>2
  <2> HIDE DEF b
  <2> QED BY <1>1, <2>2, FailuresGood
<1>8. movingMedian(h, a, p) = UNION {R(w, nan) : w \in Windows, nan \in BOOLEAN}
  BY DEF movingMedian, ForEachSeriesDo1
<1> HIDE DEF b
<1>10. Good(h, s, b, Ok(h, <<>>)) BY <1>1, FailuresGood
<1>11. ASSUME NEW w \in Windows, NEW nan \in BOOLEAN PROVE \A r \in R(w, nan) : Good(h, s, b, r)
  BY <1>6, <1>7, <1>10, <1>11
<1> QED
  <2> HIDE DEF R
  <2> QED BY <1>8, <1>11 DEF AllGood, b

(* A forecast is as long as its series and ends inside its last step. *)
LEMMA ForecastIs ==
  ASSUME NEW r \in Metric, r.step > 0, NEW p \in Int
  PROVE  LET q == Forecast(r, p)
             k == Quot(p, r.step)
         IN /\ q \in Metric
            /\ Whole(r) /\ k >= 1 /\ k * r.step <= p /\ p < k * r.step + r.step => Fits(q) /\ q.n = r.n
<1> DEFINE k == Quot(p, r.step)
           l == LookBack(r, p)
           n == IF l.n < k THEN l.n ELSE l.n - k
           e == SetTag(NewValues(CopyTags(l), n))
           x == l.start + p
           f == [e EXCEPT !.start = x]
           q == [f EXCEPT !.stop = r.stop]
<1>1. /\ r.step \in Int /\ r.n \in Int /\ r.start \in Int /\ r.stop \in Int /\ k \in Int
  BY QuotIs DEF Metric
<1>2. /\ l \in Metric /\ l.n = Greater(0, r.n + k) /\ l.start = r.start - k * r.step /\ l.step = r.step
  BY LookBackIs
<1>3. Forecast(r, p) = q BY DEF Forecast
<1> HIDE DEF l, k
<1>4. n \in Int /\ x \in Int BY <1>1, <1>2 DEF Metric
<1>5. Whole(r) /\ k >= 1 => n = r.n
  <2> DEFINE m == r.n + k
  <2>1. Greater(0, m) = m \/ m < 0 BY <1>1 DEF Greater
  <2> QED BY <1>1, <1>2, <2>1 DEF Whole
<1> HIDE DEF n
<1>6. e \in Metric /\ e.n = n /\ e.step = l.step BY <1>2, <1>4, TaggedIs
<1> HIDE DEF e, x
<1>7. f \in Metric /\ f.n = n /\ f.step = l.step /\ f.start = x
  BY <1>4, <1>6, WithStart
<1> HIDE DEF f
<1>8. q \in Metric /\ q.n = n /\ q.step = l.step /\ q.start = x /\ q.stop = r.stop
  BY <1>1, <1>7, WithStop
<1> HIDE DEF q
<1>9. Whole(r) /\ k >= 1 /\ k * r.step <= p /\ p < k * r.step + r.step => Fits(q) /\ q.n = r.n
  <2> SUFFICES ASSUME Whole(r), k >= 1, k * r.step <= p, p < k * r.step + r.step
               PROVE  Fits(q) /\ q.n = r.n
    OBVIOUS
  <2> DEFINE y == k * r.step
             d == r.step
  <2>1. y \in Int /\ y <= p /\ p < y + d /\ d \in Int BY <1>1
  <2>2. q.start = r.start - y + p /\ q.step = d /\ q.n = r.n
    BY <1>2, <1>5, <1>8 DEF x
  <2>3. r.stop = r.start + r.n * d /\ r.n > 0 BY DEF Whole
  <2> HIDE DEF y, d
  <2> DEFINE z == r.n * d
  <2>4. (r.n - 1) * d = z - d /\ z \in Int BY <1>1, <2>1
  <2>5. q.start + (q.n - 1) * q.step = r.start - y + p + z - d
    BY <1>1, <2>1, <2>2, <2>4
  <2>6. q.stop = r.start + z BY <1>8, <2>3
  <2> HIDE DEF z
  <2> QED BY <1>1, <2>1, <2>2, <2>4, <2>5, <2>6 DEF Fits
<1> QED BY <1>3, <1>8, <1>9 DEF k

(* In range, on one grid. *)
LEMMA CountedForecast ==
  ASSUME NEW h, NEW s, List(h, s), NEW p \in Int, NEW i \in DOMAIN s
  PROVE  /\ Forecast(h[s[i]], p) \in Metric
         /\ Regular(h, s) /\ CountedIn(h, s, p) =>
              Fits(Forecast(h[s[i]], p)) /\ Forecast(h[s[i]], p).n = h[s[i]].n
<1> DEFINE r == h[s[i]]
<1>1. r \in Metric /\ r.step > 0 BY ListIs
<1>2. Regular(h, s) /\ CountedIn(h, s, p) =>
        /\ Whole(r) /\ Quot(p, r.step) >= 1
        /\ Quot(p, r.step) * r.step <= p /\ p < Quot(p, r.step) * r.step + r.step
  BY CountedIs
<1> HIDE DEF r
<1>3. Forecast(r, p) \in Metric BY <1>1, ForecastIs
<1>4. Regular(h, s) /\ CountedIn(h, s, p) => Fits(Forecast(r, p)) /\ Forecast(r, p).n = r.n
  BY <1>1, <1>2, ForecastIs
<1> QED BY <1>3, <1>4 DEF r

(* One or two bands for each series. *)
LEMMA BandsGood ==
  ASSUME NEW h, NEW a, Given(h, a), NEW p \in Int, NEW k \in Nat
  PROVE  AllGood(h, a.s, CountedIn(h, a.s, p), Bands(h, a, p, k))
<1> DEFINE s == a.s
           b == CountedIn(h, s, p)
           P == {x \in Metric : Regular(h, s) /\ b => Fits(x)}
           w == [i \in DOMAIN s |-> [j \in 1..k |-> Forecast(h[s[i]], p)]]
<1>1. List(h, s) /\ h \in Heaps /\ Len(s) \in Nat /\ DOMAIN s = 1..Len(s)
  BY GivenIs
<1>2. \A i \in DOMAIN s : Forecast(h[s[i]], p) \in P BY <1>1, CountedForecast
<1>3. w \in Seq(Seq(P))
  <2> HIDE DEF P
  <2>2. ASSUME NEW i \in DOMAIN s PROVE w[i] \in Seq(P)
    <3> DEFINE v == [j \in 1..k |-> Forecast(h[s[i]], p)]
    <3>1. v \in [1..k -> P] BY <1>2
    <3> HIDE DEF v
    <3>2. v \in Seq(P) BY <3>1
    <3>3. w[i] = v BY DEF v
    <3> QED BY <3>2, <3>3
  <2>3. w \in [1..Len(s) -> Seq(P)] BY <1>1, <2>2
  <2> QED BY <1>1, <2>3
<1> DEFINE recs == FlattenSeq(w)
<1> HIDE DEF w
<1>4. recs \in Seq(P) BY <1>3, FlattenElements
<1> HIDE DEF recs
<1>5. recs \in Seq(Metric) /\ (Regular(h, s) /\ b => \A i \in DOMAIN recs : Fits(recs[i]))
  BY <1>4, SeqWider
<1>6. p < 0 => ~b BY <1>1 DEF CountedIn
<1>7. Bands(h, a, p, k) = IF p < 0 THEN {Panic(h)} ELSE {New(h, recs)}
  BY DEF Bands, recs, w
<1> HIDE DEF b
<1>8. Good(h, s, b, New(h, recs)) BY <1>1, <1>5, NewFits
<1>9. p < 0 => Good(h, s, b, Panic(h)) BY <1>1, <1>6, FailuresGood
<1> QED BY <1>7, <1>8, <1>9 DEF AllGood, b

LEMMA HoltWintersGood ==
  ASSUME NEW h, NEW a, Given(h, a), NEW p \in Int
  PROVE  /\ AllGood(h, a.s, CountedIn(h, a.s, p), holtWintersForecast(h, a, p))
         /\ AllGood(h, a.s, CountedIn(h, a.s, p), holtWintersConfidenceBands(h, a, p))
         /\ AllGood(h, a.s, CountedIn(h, a.s, p), holtWintersConfidenceArea(h, a, p))
<1>1. 1 \in Nat /\ 2 \in Nat OBVIOUS
<1> QED
  BY <1>1, BandsGood DEF holtWintersForecast, holtWintersConfidenceBands,
     holtWintersConfidenceArea

LEMMA holtWintersAberrationGood ==
  ASSUME NEW h, NEW a, Given(h, a), NEW p \in Int
  PROVE  AllGood(h, a.s, CountedIn(h, a.s, p), holtWintersAberration(h, a, p))
<1> DEFINE s == a.s
           b == CountedIn(h, s, p)
           short == \E i \in DOMAIN s : Forecast(h[s[i]], p).n < h[s[i]].n
<1>1. List(h, s) /\ h \in Heaps /\ Len(s) \in Nat /\ DOMAIN s = 1..Len(s)
  BY GivenIs
<1>2. Regular(h, s) /\ b => ~short
  <2> SUFFICES ASSUME Regular(h, s), b, NEW i \in DOMAIN s PROVE ~(Forecast(h[s[i]], p).n < h[s[i]].n)
    OBVIOUS
  <2>0. h[s[i]] \in Metric BY <1>1, ListIs
  <2>1. Forecast(h[s[i]], p).n = h[s[i]].n /\ h[s[i]].n \in Int
    <3>1. Forecast(h[s[i]], p).n = h[s[i]].n BY <1>1, CountedForecast
    <3>2. h[s[i]].n \in Int BY <2>0 DEF Metric
    <3> QED BY <3>1, <3>2
  <2> QED BY <2>1
<1>3. p < 0 => ~b BY <1>1 DEF CountedIn
<1>4. holtWintersAberration(h, a, p) =
        IF s # <<>> /\ p < 0 THEN {Panic(h)} ELSE IF short THEN {Panic(h)}
        ELSE {New(h, [i \in DOMAIN t |-> SetTag(NewValues(CopyTags(h[t[i]]), h[t[i]].n))]) : t \in AllSubSeqs(s)}
  BY DEF holtWintersAberration, ForSomeSeriesDo
<1> HIDE DEF b, short
<1>5. ASSUME NEW t \in AllSubSeqs(s)
      PROVE  Good(h, s, b, New(h, [i \in DOMAIN t |-> SetTag(NewValues(CopyTags(h[t[i]]), h[t[i]].n))]))
  BY <1>1, SomeGood, MapsGood
<1>6. p < 0 \/ short => Good(h, s, b, Panic(h)) BY <1>1, <1>2, <1>3, FailuresGood
<1> QED BY <1>4, <1>5, <1>6 DEF AllGood, b

LEMMA BaselinesGood ==
  ASSUME NEW h, NEW a, Given(h, a)
  PROVE  AllGood(h, a.s, TRUE, baselines(h, a)) /\ AllGood(h, a.s, TRUE, linearRegression(h, a))
<1> DEFINE s == a.s
<1>1. List(h, s) BY GivenIs
<1>2. /\ baselines(h, a) = {New(h, [i \in DOMAIN t |-> Filled(CopyName(CopyLinkTags(h[t[i]])))]) : t \in AllSubSeqs(s)}
      /\ linearRegression(h, a) = {New(h, [i \in DOMAIN t |-> SetTag(Filled(CopyLink(h[t[i]])))]) : t \in AllSubSeqs(s)}
  BY DEF baselines, linearRegression, ForSomeSeriesDo
<1>3. ASSUME NEW t \in AllSubSeqs(s)
      PROVE  /\ Good(h, s, TRUE, New(h, [i \in DOMAIN t |-> Filled(CopyName(CopyLinkTags(h[t[i]])))]))
             /\ Good(h, s, TRUE, New(h, [i \in DOMAIN t |-> SetTag(Filled(CopyLink(h[t[i]])))]))
  <2>1. t \in Seq(ToSet(s)) BY SomeGood
  <2>2. \A i \in DOMAIN t : h[t[i]] \in Metric BY <1>1, <2>1, ListPart, ListIs
  <2>3. \A i \in DOMAIN t : SetTag(Filled(CopyLink(h[t[i]]))) = SetTag(Filled(CopyName(h[t[i]])))
    BY DEF CopyLink, CopyName
  <2>4. [i \in DOMAIN t |-> SetTag(Filled(CopyLink(h[t[i]])))] = [i \in DOMAIN t |-> SetTag(Filled(CopyName(h[t[i]])))]
    BY <2>3
  <2>5. Good(h, s, TRUE, New(h, [i \in DOMAIN t |-> Filled(CopyName(CopyLinkTags(h[t[i]])))]))
    BY <1>1, <2>1, MapsGood
  <2>6. Good(h, s, TRUE, New(h, [i \in DOMAIN t |-> SetTag(Filled(CopyName(h[t[i]])))]))
    BY <1>1, <2>1, MapsGood
  <2> QED BY <2>4, <2>5, <2>6
<1> QED BY <1>2, <1>3 DEF AllGood

(* A prefix of the points, and all of them at another time. *)
LEMMA PrefixIs ==
  ASSUME NEW r \in Metric, NEW m \in Int, NEW n \in Int
  PROVE  LET q == Prefix(r, m, n)
         IN q \in Metric /\ q.start = r.start /\ q.step = r.step /\ q.stop = m /\ q.n = n
<1> DEFINE e == SetTag(CopyLink(r))
           f == [e EXCEPT !.stop = m]
           q == [f EXCEPT !.n = n]
<1>1. e \in Metric /\ Alike(e, r) BY TaggedIs
<1>2. Prefix(r, m, n) = q BY DEF Prefix
<1> HIDE DEF e
<1>3. f \in Metric /\ f.stop = m /\ f.start = e.start /\ f.step = e.step
  BY <1>1, WithStop
<1> HIDE DEF f
<1>4. q \in Metric /\ q.n = n /\ q.stop = f.stop /\ q.start = f.start /\ q.step = f.step
  BY <1>3, WithN
<1> QED BY <1>1, <1>2, <1>3, <1>4 DEF Alike

LEMMA ShiftedFits ==
  ASSUME NEW r \in Metric, NEW k \in Int
  PROVE  Shifted(r, k) \in Metric /\ (Fits(r) => Fits(Shifted(r, k))) /\ Shifted(r, k).step = r.step
<1> DEFINE d == k * r.step
           q == [r EXCEPT !.start = @ + d, !.stop = @ + d]
<1>1. r.step \in Int /\ r.n \in Int /\ r.start \in Int /\ r.stop \in Int
  BY DEF Metric
<1>2. d \in Int BY <1>1
<1>3. Shifted(r, k) = q BY DEF Shifted, CopyLinkTags
<1> HIDE DEF d
<1>4. q \in Metric /\ q.start = r.start + d /\ q.stop = r.stop + d /\ q.n = r.n /\ q.step = r.step
  BY <1>2, ShiftedIs
<1> HIDE DEF q
<1> DEFINE y == (r.n - 1) * r.step
<1>5. y \in Int BY <1>1
<1>6. Fits(r) <=> r.n = 0 \/ r.start + y < r.stop BY DEF Fits
<1>7. Fits(q) <=> r.n = 0 \/ r.start + d + y < r.stop + d BY <1>4 DEF Fits
<1> HIDE DEF y
<1> QED BY <1>1, <1>2, <1>3, <1>4, <1>5, <1>6, <1>7

LEMMA timeShiftGood ==
  ASSUME NEW h, NEW a, Given(h, a), NEW x \in BOOLEAN
  PROVE  AllGood(h, a.s, TRUE, timeShift(h, a, x))
<1> DEFINE s == a.s
           St(r) == IF x THEN Lesser(r.stop, Until) ELSE r.stop
           Le(r) == Quot(St(r) - r.start, r.step)
           kept == Only(s, {q \in ToSet(s) : Le(h[q]) >= 0})
           recs == [i \in DOMAIN kept |-> Prefix(h[kept[i]], St(h[kept[i]]), Le(h[kept[i]]))]
           over == \E i \in DOMAIN kept : Le(h[kept[i]]) > Greater(h[kept[i]].n, h[kept[i]].full)
<1>1. List(h, s) /\ h \in Heaps /\ s \in Seq(1..Len(h)) BY GivenIs
<1>2. kept \in Seq(ToSet(s)) /\ DOMAIN kept = 1..Len(kept) /\ Len(kept) \in Nat
  BY <1>1, OnlyPart, SeqOver
<1>3. timeShift(h, a, x) = IF over THEN {Panic(h)} ELSE {New(h, recs)}
  BY DEF Own, timeShift, ForEachSeriesDo1
<1> DEFINE e(r) == St(r)
           l(r) == Le(r)
<1>4. ASSUME NEW r \in Metric, r.step > 0
      PROVE  /\ e(r) \in Int /\ l(r) \in Int
             /\ Whole(r) => e(r) = r.stop /\ l(r) = r.n
  <2>1. r.step \in Int /\ r.n \in Int /\ r.start \in Int /\ r.stop \in Int /\ Until \in Int
    BY IntervalAssumption DEF Metric
  <2>2. e(r) \in Int BY <2>1 DEF Lesser
  <2>3. Whole(r) => e(r) = r.stop BY <2>1 DEF Lesser, Whole
  <2> DEFINE m == e(r) - r.start
  <2>4. m \in Int BY <2>1, <2>2
  <2>5. l(r) = Quot(m, r.step) OBVIOUS
  <2>6. Whole(r) => m = r.n * r.step /\ r.n >= 0
    <3> HIDE DEF e
    <3> SUFFICES ASSUME Whole(r) PROVE m = r.n * r.step /\ r.n >= 0 OBVIOUS
    <3> DEFINE k == r.n * r.step
    <3>1. k \in Int /\ r.stop = r.start + k /\ r.n > 0 BY <2>1 DEF Whole
    <3> HIDE DEF k
    <3>2. m = k BY <2>1, <2>3, <3>1
    <3> QED BY <2>1, <3>1, <3>2 DEF k
  <2> HIDE DEF m
  <2>7. Quot(m, r.step) \in Int BY <1>4, <2>1, <2>4, QuotIs
  <2>8. Whole(r) => Quot(m, r.step) = r.n BY <1>4, <2>1, <2>6, QuotExact
  <2> QED BY <2>2, <2>3, <2>5, <2>7, <2>8
<1>5. recs = [i \in DOMAIN kept |-> Prefix(h[kept[i]], e(h[kept[i]]), l(h[kept[i]]))]
      /\ over = \E i \in DOMAIN kept : l(h[kept[i]]) > Greater(h[kept[i]].n, h[kept[i]].full)
  OBVIOUS
<1> HIDE DEF kept, recs, over, e, l
<1>6. \A i \in DOMAIN kept : h[kept[i]] \in Metric /\ h[kept[i]].step > 0
  BY <1>1, <1>2, ListPart, ListIs
<1>7. Regular(h, s) => \A i \in DOMAIN kept : Whole(h[kept[i]]) /\ Fits(h[kept[i]])
  BY <1>1, <1>2, RegularIs, SeqOver
<1>8. ASSUME NEW i \in DOMAIN kept
      PROVE  /\ recs[i] \in Metric
             /\ Regular(h, s) => Fits(recs[i])
             /\ Regular(h, s) => ~(l(h[kept[i]]) > Greater(h[kept[i]].n, h[kept[i]].full))
  <2> DEFINE r == h[kept[i]]
  <2>1. r \in Metric /\ r.step > 0 /\ (Regular(h, s) => Whole(r) /\ Fits(r))
    BY <1>6, <1>7
  <2>2. recs[i] = Prefix(r, e(r), l(r)) BY <1>5
  <2> HIDE DEF r
  <2>3. /\ e(r) \in Int /\ l(r) \in Int
        /\ Whole(r) => e(r) = r.stop /\ l(r) = r.n
    BY <1>4, <2>1
  <2> DEFINE q == Prefix(r, e(r), l(r))
  <2>4. q \in Metric /\ q.start = r.start /\ q.step = r.step /\ q.stop = e(r) /\ q.n = l(r)
    BY <2>1, <2>3, PrefixIs
  <2> HIDE DEF q
  <2>5. Regular(h, s) => Fits(q) BY <2>1, <2>3, <2>4 DEF Fits
  <2>6. Regular(h, s) => ~(l(r) > Greater(r.n, r.full))
    <3>1. r.n \in Int /\ r.full \in Int BY <2>1 DEF Metric
    <3>2. Greater(r.n, r.full) >= r.n /\ Greater(r.n, r.full) \in Int
      BY <3>1, GreaterIs
    <3> QED BY <2>1, <2>3, <3>1, <3>2
  <2> QED BY <2>2, <2>4, <2>5, <2>6 DEF q, r
<1>9. over => Good(h, s, TRUE, Panic(h)) BY <1>5, <1>8, <1>1, FailuresGood
<1>10. Good(h, s, TRUE, New(h, recs)) BY <1>5, <1>1, <1>2, <1>8, EachFits
<1> QED BY <1>3, <1>9, <1>10 DEF AllGood

(* What is made of both lists, each on the grid of one of the first. *)
LEMMA timeShiftByMetricGood ==
  ASSUME NEW h, NEW a, NEW b, Given(h, a), Given(h, b), NEW p \in Int
  PROVE  AllGood(h, a.s \o b.s, b.s # <<>> /\ p \in 1..Len(a.s), timeShiftByMetric(h, a, b, p))
<1> DEFINE L == a.s \o b.s
           d == b.s # <<>> /\ p \in 1..Len(a.s)
           bad == \/ Len(a.s) < 2 \/ Len(b.s) < 2
                  \/ \E i \in DOMAIN L : h[L[i]].n # h[L[1]].n \/ h[L[i]].n = 0
           recs(t, k) == [i \in DOMAIN t |-> Shifted(h[t[i]], k)]
           some == UNION {{New(h, recs(t, k)) : t \in AllSubSeqs(a.s)} : k \in -1..1}
<1>1. List(h, L) /\ h \in Heaps /\ List(h, a.s) /\ a.s \in Seq(ToSet(L)) /\ Len(a.s) \in Nat
  BY BothGiven
<1>2. timeShiftByMetric(h, a, b, p) =
        IF bad THEN {Err(h)} ELSE {Err(h)} \cup IF p < 0 THEN {Panic(h)} ELSE some
  BY DEF timeShiftByMetric, ForSomeSeriesDo
<1>3. ASSUME NEW t \in AllSubSeqs(a.s), NEW k \in -1..1 PROVE Good(h, L, d, New(h, recs(t, k)))
  <2> DEFINE v == recs(t, k)
  <2>0. v = [i \in DOMAIN t |-> Shifted(h[t[i]], k)] /\ DOMAIN v = DOMAIN t /\ k \in Int
    OBVIOUS
  <2>1. t \in Seq(ToSet(a.s)) /\ ToSet(a.s) \subseteq ToSet(L)
    BY <1>1, SomeGood, SeqOver
  <2> HIDE DEF v, L, d
  <2>2. t \in Seq(ToSet(L)) BY <2>1, SeqWider
  <2>3. \A i \in DOMAIN t : h[t[i]] \in Metric /\ t[i] \in ToSet(L)
    BY <1>1, <2>2, ListPart, ListIs, SeqOver
  <2>4. Regular(h, L) => \A i \in DOMAIN t : Fits(h[t[i]])
    BY <1>1, <2>3, RegularIs
  <2>5. \A i \in DOMAIN t : v[i] \in Metric /\ (Regular(h, L) /\ d => Fits(v[i]))
    BY <2>0, <2>3, <2>4, ShiftedFits
  <2>6. v = [i \in DOMAIN v |-> v[i]] BY <2>0
  <2>7. Good(h, L, d, New(h, v)) BY <1>1, <2>0, <2>2, <2>5, <2>6, EachFits
  <2> QED BY <2>7 DEF v
<1>4. p < 0 => ~d BY <1>1
<1> HIDE DEF d, L, bad, recs
<1>5. Good(h, L, d, Err(h)) /\ (p < 0 => Good(h, L, d, Panic(h)))
  BY <1>1, <1>4, FailuresGood
<1>6. \A r \in some : Good(h, L, d, r) BY <1>3
<1> HIDE DEF some
<1> QED BY <1>2, <1>5, <1>6 DEF AllGood, d, L

(* Each series several times. *)
LEMMA timeStackGood ==
  ASSUME NEW h, NEW a, Given(h, a)
  PROVE  AllGood(h, a.s, TRUE, timeStack(h, a))
<1> DEFINE s == a.s
           P == {x \in Metric : Regular(h, s) => Fits(x)}
           v == [i \in DOMAIN s |-> SetTag(CopyLink(h[s[i]]))]
<1>1. List(h, s) /\ h \in Heaps /\ Len(s) \in Nat /\ DOMAIN s = 1..Len(s)
  BY GivenIs
<1>2. \A i \in DOMAIN s : h[s[i]] \in Metric BY <1>1, ListIs
<1>3. \A i \in DOMAIN s : SetTag(CopyLink(h[s[i]])) \in Metric /\ Alike(SetTag(CopyLink(h[s[i]])), h[s[i]])
  BY <1>2, ShapesAre
<1>4. Regular(h, s) => \A i \in DOMAIN s : Fits(h[s[i]]) BY <1>1, RegularIs
<1>5. \A i \in DOMAIN s : SetTag(CopyLink(h[s[i]])) \in P BY <1>3, <1>4, AlikeFits
<1>6. v \in Seq(P) BY <1>1, <1>5
<1> HIDE DEF P
<1>7. ASSUME NEW k \in 0..2 PROVE Good(h, s, TRUE, New(h, FlattenSeq([j \in 1..k |-> v])))
  <2> HIDE DEF v
  <2> DEFINE w == [j \in 1..k |-> v]
             recs == FlattenSeq(w)
  <2>1. w \in Seq(Seq(P)) BY <1>6
  <2> HIDE DEF w
  <2>2. recs \in Seq(P) BY <2>1, FlattenElements
  <2> HIDE DEF recs
  <2>3. P \subseteq Metric /\ \A x \in P : Regular(h, s) => Fits(x) BY DEF P
  <2>4. recs \in Seq(Metric) BY <2>2, <2>3, SeqWider
  <2>5. Regular(h, s) /\ TRUE => \A i \in DOMAIN recs : Fits(recs[i])
    BY <2>2, <2>3
  <2>6. Good(h, s, TRUE, New(h, recs)) BY <1>1, <2>4, <2>5, NewFits
  <2> QED BY <2>6 DEF recs, w
<1>8. timeStack(h, a) = {New(h, FlattenSeq([j \in 1..k |-> v])) : k \in 0..2}
  BY DEF timeStack
<1> HIDE DEF v
<1> QED BY <1>7, <1>8 DEF AllGood

LEMMA FlattenGood ==
  ASSUME NEW h \in Heaps, NEW t, NEW b, NEW w \in Seq(Seq(FitsIf(Regular(h, t) /\ b)))
  PROVE  Good(h, t, b, New(h, FlattenSeq(w)))
<1> DEFINE P == FitsIf(Regular(h, t) /\ b)
           recs == FlattenSeq(w)
<1>1. P \subseteq Metric /\ \A x \in P : Regular(h, t) /\ b => Fits(x)
  BY DEF FitsIf
<1> HIDE DEF P
<1>2. recs \in Seq(P) BY FlattenElements DEF P
<1> HIDE DEF recs
<1>3. recs \in Seq(Metric) BY <1>1, <1>2, SeqWider
<1>4. Regular(h, t) /\ b => \A i \in DOMAIN recs : Fits(recs[i]) BY <1>1, <1>2
<1>5. Good(h, t, b, New(h, recs)) BY <1>3, <1>4, NewFits
<1> QED BY <1>5 DEF recs

LEMMA fftGood ==
  ASSUME NEW h, NEW a, Given(h, a)
  PROVE  AllGood(h, a.s, TRUE, fft(h, a))
<1> DEFINE s == a.s
           P == FitsIf(Regular(h, s) /\ TRUE)
           w(k) == [i \in DOMAIN s |-> [j \in 1..k |-> Filled(CopyTag(h[s[i]]))]]
<1>1. List(h, s) /\ h \in Heaps /\ Len(s) \in Nat /\ DOMAIN s = 1..Len(s)
  BY GivenIs
<1>2. \A i \in DOMAIN s : h[s[i]] \in Metric BY <1>1, ListIs
<1>3. \A i \in DOMAIN s : Filled(CopyTag(h[s[i]])) \in Metric /\ Alike(Filled(CopyTag(h[s[i]])), h[s[i]])
  BY ShapesAre, <1>2
<1>4. Regular(h, s) => \A i \in DOMAIN s : Fits(h[s[i]]) BY <1>1, RegularIs
<1>5. \A i \in DOMAIN s : Filled(CopyTag(h[s[i]])) \in P
  BY <1>3, <1>4, AlikeFits DEF FitsIf
<1> HIDE DEF P
<1>6. ASSUME NEW k \in 0..2 PROVE Good(h, s, TRUE, New(h, FlattenSeq(w(k))))
  <2> DEFINE u == w(k)
  <2>2. ASSUME NEW i \in DOMAIN s PROVE u[i] \in Seq(P)
    <3> DEFINE v == [j \in 1..k |-> Filled(CopyTag(h[s[i]]))]
    <3>1. v \in [1..k -> P] /\ k \in Nat BY <1>5
    <3>3. u[i] = v OBVIOUS
    <3> HIDE DEF v
    <3>2. v \in Seq(P) BY <3>1
    <3> QED BY <3>2, <3>3
  <2>3. u = [i \in DOMAIN s |-> u[i]] OBVIOUS
  <2> HIDE DEF u
  <2>4. u \in [1..Len(s) -> Seq(P)] BY <1>1, <2>2, <2>3
  <2>5. u \in Seq(Seq(P)) BY <1>1, <2>4
  <2>6. Good(h, s, TRUE, New(h, FlattenSeq(u))) BY <1>1, <2>5, FlattenGood DEF P
  <2> QED BY <2>6 DEF u
<1>7. fft(h, a) = {New(h, FlattenSeq(w(k))) : k \in 0..2} BY DEF fft
<1> HIDE DEF w
<1> QED BY <1>6, <1>7 DEF AllGood

LEMMA aggregateLineGood ==
  ASSUME NEW h, NEW a, Given(h, a)
  PROVE  AllGood(h, a.s, TRUE, aggregateLine(h, a))
<1> DEFINE s == a.s
           Line(r) == RecalcStopTime([NewValues(CopyTag(r), 2) EXCEPT !.step = r.stop - r.start])
           recs == [i \in DOMAIN s |-> Line(h[s[i]])]
<1>1. List(h, s) /\ h \in Heaps /\ Len(s) \in Nat /\ DOMAIN s = 1..Len(s) /\ s \in Seq(ToSet(s))
  BY GivenIs
<1>2. ASSUME NEW r \in Metric
      PROVE  Line(r) \in Metric /\ (Whole(r) => Fits(Line(r)))
  <2> DEFINE v == NewValues(r, 2)
             k == r.stop - r.start
             y == [v EXCEPT !.step = k]
  <2>1. v \in Metric BY NewValuesIs
  <2>2. k \in Int BY DEF Metric
  <2>3. Whole(r) => k > 0
    <3>1. r.n \in Int /\ r.step \in Int /\ r.start \in Int BY DEF Metric
    <3> SUFFICES ASSUME Whole(r) PROVE k > 0 OBVIOUS
    <3>2. r.n > 0 /\ r.step > 0 /\ r.stop = r.start + r.n * r.step BY DEF Whole
    <3>3. r.n * r.step > 0
      <4> DEFINE n == r.n
                 c == r.step
      <4>1. n \in Int /\ c \in Int /\ n > 0 /\ c > 0 BY <3>1, <3>2
      <4> HIDE DEF n, c
      <4>2. n * c > 0 BY <4>1
      <4> QED BY <4>2 DEF n, c
    <3> DEFINE m == r.n * r.step
    <3>4. m \in Int /\ m > 0 /\ r.stop = r.start + m BY <3>1, <3>2, <3>3
    <3> HIDE DEF m
    <3> QED BY <3>1, <3>4
  <2>4. Line(r) = RecalcStopTime(y) BY DEF CopyTag
  <2> HIDE DEF v, k
  <2>5. y \in Metric /\ y.step = k BY <2>1, <2>2, WithStep
  <2> HIDE DEF y
  <2>6. RecalcStopTime(y) \in Metric /\ (k > 0 => Fits(RecalcStopTime(y)))
    BY <2>5, StopsAre, WholeFits
  <2> HIDE DEF Line
  <2> QED BY <2>3, <2>4, <2>6
<1>3. recs = [i \in DOMAIN s |-> recs[i]] /\ DOMAIN recs = DOMAIN s /\ \A i \in DOMAIN s : recs[i] = Line(h[s[i]])
  OBVIOUS
<1>4. aggregateLine(h, a) = {New(h, [i \in DOMAIN s |-> Filled(CopyTag(h[s[i]]))])} \cup {New(h, recs)}
  BY DEF aggregateLine, ForEachSeriesDo1
<1> HIDE DEF Line, recs
<1>5. \A i \in DOMAIN s : h[s[i]] \in Metric BY <1>1, ListIs
<1>6. Regular(h, s) => \A i \in DOMAIN s : Whole(h[s[i]]) BY <1>1, RegularIs
<1>7. \A i \in DOMAIN s : recs[i] \in Metric /\ (Regular(h, s) /\ TRUE => Fits(recs[i]))
  BY <1>2, <1>3, <1>5, <1>6
<1>8. Good(h, s, TRUE, New(h, recs)) BY <1>3, <1>1, <1>7, EachFits
<1>9. Good(h, s, TRUE, New(h, [i \in DOMAIN s |-> Filled(CopyTag(h[s[i]]))]))
  BY <1>1, MapsGood
<1> QED BY <1>4, <1>8, <1>9 DEF AllGood

(* A fit is longer by the whole steps in p. *)
LEMMA FittedIs ==
  ASSUME NEW r \in Metric, r.step > 0, NEW p \in Int
  PROVE  LET q == Fitted(r, p)
             k == Quot(p, r.step)
         IN /\ q \in Metric /\ q.n = r.n + k
            /\ Whole(r) /\ k * r.step <= p => Fits(q)
<1> DEFINE k == Quot(p, r.step)
           n == r.n + k
           v == NewValues(r, n)
           y == r.stop + p
           q == [v EXCEPT !.stop = y]
<1>1. r.step \in Int /\ r.n \in Int /\ r.start \in Int /\ r.stop \in Int /\ k \in Int
  BY QuotIs DEF Metric
<1> HIDE DEF k
<1>2. n \in Int /\ y \in Int BY <1>1
<1>3. v \in Metric /\ v.n = n /\ v.start = r.start /\ v.step = r.step /\ v.stop = r.stop
  BY <1>2, NewValuesIs
<1>4. Fitted(r, p) = [v EXCEPT !.stop = @ + p] BY DEF Fitted, CopyLinkTags, k
<1> HIDE DEF v
<1>5. [v EXCEPT !.stop = @ + p] = q BY <1>3
<1> HIDE DEF y, n
<1>6. q \in Metric /\ q.n = n /\ q.start = r.start /\ q.step = r.step /\ q.stop = y
  BY <1>2, <1>3, WithStop
<1> HIDE DEF q
<1>7. Whole(r) /\ k * r.step <= p => Fits(q)
  <2> SUFFICES ASSUME Whole(r), k * r.step <= p PROVE Fits(q) OBVIOUS
  <2> DEFINE d == r.step
             u == r.n * d
             w == k * d
  <2>1. d \in Int /\ d > 0 /\ u \in Int /\ w \in Int /\ w <= p BY <1>1
  <2>2. r.stop = r.start + u BY DEF Whole
  <2>3. (q.n - 1) * q.step = u + w - d
    <3> DEFINE m == r.n
    <3>1. q.n = m + k /\ q.step = d /\ m \in Int BY <1>1, <1>6 DEF n
    <3>2. u = m * d OBVIOUS
    <3> HIDE DEF m, d, u
    <3>3. (m + k - 1) * d = m * d + k * d - d BY <1>1, <2>1, <3>1
    <3> DEFINE e == q.n - 1
    <3>6. e = m + k - 1 BY <1>1, <3>1
    <3> HIDE DEF e
    <3>7. e * q.step = (m + k - 1) * d BY <3>1, <3>6
    <3>4. (q.n - 1) * q.step = (m + k - 1) * d BY <3>7 DEF e
    <3>5. w = k * d OBVIOUS
    <3> HIDE DEF w
    <3> QED BY <3>2, <3>3, <3>4, <3>5
  <2> HIDE DEF d, u, w
  <2>4. q.start + (u + w - d) < q.stop BY <1>1, <1>6, <2>1, <2>2 DEF y
  <2> QED BY <2>3, <2>4 DEF Fits
<1> QED BY <1>4, <1>5, <1>6, <1>7 DEF n, k

LEMMA polyfitGood ==
  ASSUME NEW h, NEW a, Given(h, a), NEW p \in Int
  PROVE  AllGood(h, a.s, CountedIn(h, a.s, p), polyfit(h, a, p))
<1> DEFINE s == a.s
           b == CountedIn(h, s, p)
           short == \E i \in DOMAIN s : Fitted(h[s[i]], p).n < 0
           recs(t) == [i \in DOMAIN t |-> Fitted(h[t[i]], p)]
<1>1. List(h, s) /\ h \in Heaps /\ Len(s) \in Nat /\ DOMAIN s = 1..Len(s)
  BY GivenIs
<1>2. ASSUME NEW i \in DOMAIN s
      PROVE  /\ Fitted(h[s[i]], p) \in Metric
             /\ Regular(h, s) /\ b => Fits(Fitted(h[s[i]], p)) /\ ~(Fitted(h[s[i]], p).n < 0)
  <2> DEFINE r == h[s[i]]
  <2>1. r \in Metric /\ r.step > 0 BY <1>1, ListIs
  <2>2. Regular(h, s) /\ b => Whole(r) /\ Quot(p, r.step) \in Int /\ Quot(p, r.step) >= 1 /\ Quot(p, r.step) * r.step <= p
    BY <1>1, CountedIs
  <2> HIDE DEF r, b
  <2> DEFINE k == Quot(p, r.step)
  <2>3. /\ Fitted(r, p) \in Metric /\ Fitted(r, p).n = r.n + k
        /\ Whole(r) /\ k * r.step <= p => Fits(Fitted(r, p))
    BY <2>1, FittedIs
  <2> HIDE DEF k
  <2>4. Whole(r) /\ k >= 1 /\ k \in Int => ~(r.n + k < 0)
    BY <2>1 DEF Whole, Metric
  <2>5. Regular(h, s) /\ b => Fits(Fitted(r, p)) /\ ~(Fitted(r, p).n < 0)
    BY <2>2, <2>3, <2>4 DEF k
  <2> QED BY <2>3, <2>5 DEF r
<1>3. polyfit(h, a, p) = {Err(h)} \cup IF short THEN {Panic(h)} ELSE {New(h, recs(t)) : t \in AllSubSeqs(s)}
  BY DEF polyfit, ForSomeSeriesDo
<1>4. Regular(h, s) /\ b => ~short BY <1>2
<1> HIDE DEF b, short
<1>5. ASSUME NEW t \in AllSubSeqs(s) PROVE Good(h, s, b, New(h, recs(t)))
  <2> DEFINE v == recs(t)
  <2>0. v = [i \in DOMAIN t |-> Fitted(h[t[i]], p)] /\ DOMAIN v = DOMAIN t OBVIOUS
  <2>1. t \in Seq(ToSet(s)) BY SomeGood
  <2>2. \A i \in DOMAIN t : t[i] \in ToSet(s) BY <2>1
  <2>3. \A i \in DOMAIN t : \E j \in DOMAIN s : t[i] = s[j] BY <2>2 DEF ToSet
  <2> HIDE DEF v
  <2>4. \A i \in DOMAIN t : v[i] \in Metric /\ (Regular(h, s) /\ b => Fits(v[i]))
    BY <1>2, <2>0, <2>3
  <2>5. v = [i \in DOMAIN v |-> v[i]] BY <2>0
  <2>6. Good(h, s, b, New(h, v)) BY <1>1, <2>0, <2>1, <2>4, <2>5, EachFits
  <2> QED BY <2>6 DEF v
<1> HIDE DEF recs
<1>6. Good(h, s, b, Err(h)) /\ (short => Good(h, s, b, Panic(h)))
  BY <1>1, <1>4, FailuresGood
<1> QED BY <1>3, <1>5, <1>6 DEF AllGood, b

(* Buckets of an interval. *)
LEMMA FilledIn ==
  ASSUME NEW r \in Metric, r.step > 0, NEW d \in Int, NEW p \in Int, p > 0
  PROVE  /\ FilledBuckets(r, d, p) \in Int
         /\ Whole(r) /\ d = 0 => FilledBuckets(r, d, p) <= GetBuckets(r.start, r.stop, p)
<1> DEFINE q == LookBack(r, d)
           f == Quot(r.stop - q.start, q.step)
           full == Lesser(q.n, f)
           closed == (full * q.step) \div p
           c == CeilDiv(closed * p, q.step)
           m == IF q.n > full \/ full > c THEN 1 ELSE 0
           k == Quot(d, r.step)
           b == GetBuckets(r.start, r.stop, p)
<1>1. /\ r.step \in Int /\ r.n \in Int /\ r.start \in Int /\ r.stop \in Int
  BY DEF Metric
<1>2. /\ q \in Metric /\ q.step = r.step /\ q.n = Greater(0, r.n + k) /\ q.start = r.start - k * r.step
  BY LookBackIs
<1>3. FilledBuckets(r, d, p) = closed + m BY DEF FilledBuckets
<1>4. k \in Int /\ (d = 0 => k = 0) BY <1>1, QuotIs, QuotExact
<1> HIDE DEF q, k
<1>5. q.n \in Int /\ q.start \in Int /\ q.step \in Int /\ q.step > 0
  BY <1>2 DEF Metric
<1>6. Whole(r) /\ d = 0 => q.n = r.n /\ q.start = r.start
  <2> SUFFICES ASSUME Whole(r), d = 0 PROVE q.n = r.n /\ q.start = r.start OBVIOUS
  <2>1. k = 0 /\ r.n > 0 BY <1>4 DEF Whole
  <2>2. k * r.step = 0 BY <1>1, <2>1
  <2>3. r.n + k = r.n BY <1>1, <2>1
  <2>4. Greater(0, r.n) = r.n BY <1>1, <2>1 DEF Greater
  <2> QED BY <1>1, <1>2, <2>2, <2>3, <2>4
<1>7. f \in Int /\ (Whole(r) /\ d = 0 => f = r.n)
  <2> DEFINE e == r.stop - q.start
  <2>1. e \in Int BY <1>1, <1>5
  <2>2. f = Quot(e, q.step) OBVIOUS
  <2>3. Whole(r) /\ d = 0 => e = r.n * r.step /\ r.n >= 0
    <3> SUFFICES ASSUME Whole(r), d = 0 PROVE e = r.n * r.step /\ r.n >= 0 OBVIOUS
    <3> DEFINE y == r.n * r.step
    <3>1. y \in Int /\ r.stop = r.start + y /\ r.n > 0 BY <1>1 DEF Whole
    <3> HIDE DEF y
    <3>2. e = y BY <1>1, <1>6, <3>1
    <3> QED BY <1>1, <3>1, <3>2 DEF y
  <2> HIDE DEF e, f
  <2>4. Quot(e, q.step) \in Int BY <1>5, <2>1, QuotIs
  <2>5. Whole(r) /\ d = 0 => Quot(e, q.step) = r.n BY <1>1, <1>2, <2>3, QuotExact
  <2> QED BY <2>2, <2>4, <2>5
<1> HIDE DEF f
<1>8. full \in Int /\ (Whole(r) /\ d = 0 => full = r.n)
  BY <1>1, <1>5, <1>6, <1>7 DEF Lesser
<1> HIDE DEF full
<1> DEFINE t == full * q.step
<1>9. t \in Int BY <1>5, <1>8
<1>10. closed = t \div p OBVIOUS
<1> HIDE DEF closed, t
<1>11. closed \in Int /\ closed * p <= t /\ t < closed * p + p
  BY <1>9, <1>10, DivIs
<1> DEFINE u == closed * p
<1>12. u \in Int /\ u <= t BY <1>11
<1>13. c = CeilDiv(u, q.step) OBVIOUS
<1> HIDE DEF c, u
<1>14. c \in Int /\ u <= c * q.step BY <1>5, <1>12, <1>13, CeilDivIs
<1>15. m \in Int /\ m \in {0, 1} /\ (m = 1 => q.n > full \/ full > c) OBVIOUS
<1> HIDE DEF m
<1>16. ASSUME Whole(r), d = 0 PROVE closed + m <= b
  <2> DEFINE e == r.stop - r.start
  <2>1. e \in Int BY <1>1
  <2>2. b = CeilDiv(e, p) BY DEF GetBuckets
  <2> HIDE DEF e, b
  <2>3. b \in Int /\ e <= b * p BY <2>1, <2>2, CeilDivIs
  <2>4. t = e
    <3> DEFINE y == r.n * r.step
    <3>1. y \in Int /\ r.stop = r.start + y BY <1>1, <1>16 DEF Whole
    <3>2. t = y BY <1>2, <1>8, <1>16 DEF t
    <3> HIDE DEF y
    <3> QED BY <1>1, <3>1, <3>2 DEF e
  <2> DEFINE v == b * p
  <2>5. v \in Int /\ u <= v BY <1>9, <1>12, <2>1, <2>3, <2>4
  <2>6. closed <= b
    <3> SUFFICES ASSUME closed >= b + 1 PROVE FALSE BY <1>11, <2>3
    <3>1. closed * p >= (b + 1) * p BY <1>11, <2>3
    <3>2. (b + 1) * p = v + p BY <2>3
    <3> QED BY <1>12, <2>5, <3>1, <3>2 DEF u
  <2>7. m = 1 => closed < b
    <3> SUFFICES ASSUME m = 1, closed = b PROVE FALSE BY <1>11, <2>3, <2>6
    <3>1. ~(q.n > full) BY <1>1, <1>6, <1>8, <1>16
    <3>2. full >= c + 1 BY <1>8, <1>14, <1>15, <3>1
    <3>3. full * q.step >= (c + 1) * q.step BY <1>5, <1>8, <1>14, <3>2
    <3> DEFINE g == c * q.step
    <3>4. (c + 1) * q.step = g + q.step /\ g \in Int BY <1>5, <1>14
    <3>5. t >= g + q.step BY <3>3, <3>4 DEF t
    <3> HIDE DEF g
    <3>6. u = v BY DEF u
    <3>7. u <= g BY <1>14 DEF g
    <3> QED BY <1>5, <1>9, <1>12, <2>1, <2>3, <2>4, <2>5, <3>4, <3>5, <3>6, <3>7
  <2> QED BY <1>11, <1>15, <2>3, <2>6, <2>7
<1> QED BY <1>3, <1>11, <1>15, <1>16

LEMMA ObjectiveIs ==
  ASSUME NEW r \in Metric, r.step > 0, NEW p \in Int, p > 0
  PROVE  /\ Objective(r, p) \in Metric
         /\ Whole(r) /\ p >= r.step /\ p <= r.n => Fits(Objective(r, p))
<1> DEFINE b == GetBuckets(r.start, r.stop, p)
           d == Greater(0, p - (Until - From))
           f == FilledBuckets(r, d, p)
           n == IF r.step > p THEN b ELSE f
           v == NewValues(r, n)
           w == [v EXCEPT !.step = p]
           y == r.start + b * p
           q == [w EXCEPT !.stop = y]
<1>1. /\ r.step \in Int /\ r.n \in Int /\ r.start \in Int /\ r.stop \in Int /\ From \in Int /\ Until \in Int
  BY IntervalAssumption DEF Metric
<1>2. b \in Int
  <2> DEFINE e == r.stop - r.start
  <2>1. e \in Int BY <1>1
  <2>2. b = CeilDiv(e, p) BY DEF GetBuckets
  <2> HIDE DEF e, b
  <2> QED BY <2>1, <2>2, CeilDivIs
<1>3. d \in Int /\ (p <= Until - From => d = 0) BY <1>1 DEF Greater
<1>4. Objective(r, p) = [NewValues(r, n) EXCEPT !.step = p, !.stop = y]
  BY DEF Objective
<1>13. [NewValues(r, n) EXCEPT !.step = p, !.stop = y] = q OBVIOUS
<1> HIDE DEF d, b
<1>5. f \in Int /\ (Whole(r) /\ d = 0 => f <= b) BY <1>3, FilledIn DEF b
<1> HIDE DEF f
<1>6. n \in Int /\ y \in Int BY <1>1, <1>2, <1>5
<1>7. v \in Metric /\ v.n = n /\ v.start = r.start BY <1>6, NewValuesIs
<1> HIDE DEF v, n, y
<1>8. w \in Metric /\ w.n = n /\ w.start = r.start /\ w.step = p BY <1>7, WithStep
<1> HIDE DEF w
<1>9. q \in Metric /\ q.n = n /\ q.start = r.start /\ q.step = p /\ q.stop = y
  BY <1>6, <1>8, WithStop
<1> HIDE DEF q
<1>10. Whole(r) /\ p <= r.n => p <= Until - From
  <2> SUFFICES ASSUME Whole(r), p <= r.n PROVE p <= Until - From OBVIOUS
  <2> DEFINE z == r.n * r.step
  <2>1. z >= r.n
    <3> DEFINE m == r.n
               c == r.step
    <3>1. m \in Int /\ c \in Int /\ m > 0 /\ c >= 1 BY <1>1 DEF Whole
    <3> HIDE DEF m, c
    <3>2. m * c >= m BY <3>1
    <3> QED BY <3>2 DEF m, c
  <2>2. z \in Int /\ r.stop = r.start + z /\ From <= r.start /\ r.stop <= Until
    BY <1>1 DEF Whole
  <2> HIDE DEF z
  <2> QED BY <1>1, <2>1, <2>2
<1>11. ASSUME Whole(r), p >= r.step, p <= r.n PROVE Fits(q)
  <2>1. n <= b BY <1>1, <1>3, <1>5, <1>10, <1>11 DEF n
  <2> DEFINE m == n - 1
             u == b * p
  <2>2. m \in Int /\ m + 1 <= b BY <1>2, <1>6, <2>1
  <2> HIDE DEF m
  <2>3. (m + 1) * p <= b * p BY <1>2, <2>2
  <2>4. (m + 1) * p = m * p + p /\ m * p \in Int /\ u \in Int BY <1>2, <2>2
  <2> DEFINE z == m * p
  <2>5. z + p <= u BY <2>3, <2>4
  <2>6. q.stop = r.start + u BY <1>9 DEF y
  <2> HIDE DEF u
  <2>7. z = (q.n - 1) * q.step BY <1>9 DEF m
  <2>8. z \in Int /\ u \in Int BY <2>4
  <2> HIDE DEF z
  <2>9. q.start + z < q.stop BY <1>1, <1>9, <2>5, <2>6, <2>8
  <2> QED BY <2>7, <2>9 DEF Fits
<1> QED BY <1>4, <1>9, <1>11, <1>13

LEMMA sloGood ==
  ASSUME NEW h, NEW a, Given(h, a), NEW p \in Int
  PROVE  AllGood(h, a.s, CountedIn(h, a.s, p), slo(h, a, p))
<1> DEFINE s == a.s
           b == CountedIn(h, s, p)
           bad == p <= 0 \/ \E i \in DOMAIN s : h[s[i]].stop < h[s[i]].start
           recs == [i \in DOMAIN s |-> Objective(h[s[i]], p)]
<1>1. List(h, s) /\ h \in Heaps /\ Len(s) \in Nat /\ DOMAIN s = 1..Len(s) /\ s \in Seq(ToSet(s))
  BY GivenIs
<1>2. \A i \in DOMAIN s : h[s[i]] \in Metric /\ h[s[i]].step > 0 BY <1>1, ListIs
<1>3. Regular(h, s) /\ b => \A i \in DOMAIN s : Whole(h[s[i]]) /\ p >= h[s[i]].step /\ p <= h[s[i]].n
  BY <1>1, CountedIs
<1>4. b => p > 0 BY <1>1 DEF CountedIn
<1>5. slo(h, a, p) = IF s = <<>> THEN {Ok(h, <<>>)} ELSE IF bad THEN {Panic(h)} ELSE {New(h, recs)}
  BY DEF slo, ForEachSeriesDo1
<1> HIDE DEF b
<1>6. Regular(h, s) /\ b => ~bad
  <2> SUFFICES ASSUME Regular(h, s), b, NEW i \in DOMAIN s PROVE ~(h[s[i]].stop < h[s[i]].start)
    BY <1>4
  <2> DEFINE r == h[s[i]]
  <2>1. r \in Metric /\ Whole(r) BY <1>2, <1>3
  <2> HIDE DEF r
  <2>2. r.n \in Int /\ r.step \in Int /\ r.start \in Int /\ r.n > 0 /\ r.step > 0 /\ r.stop = r.start + r.n * r.step
    BY <2>1 DEF Metric, Whole
  <2>3. r.n * r.step >= 0 /\ r.n * r.step \in Int
    <3> DEFINE m == r.n
               c == r.step
    <3>1. m \in Int /\ c \in Int /\ m > 0 /\ c > 0 BY <2>2
    <3> HIDE DEF m, c
    <3>2. m * c >= 0 /\ m * c \in Int BY <3>1
    <3> QED BY <3>2 DEF m, c
  <2> DEFINE z == r.n * r.step
  <2>4. r.stop = r.start + z /\ z \in Int /\ z >= 0 BY <2>2, <2>3
  <2> HIDE DEF z
  <2>5. ~(r.stop < r.start) BY <2>2, <2>4
  <2> QED BY <2>5 DEF r
<1>7. ASSUME p > 0 PROVE Good(h, s, b, New(h, recs))
  BY <1>2, <1>3, <1>7, ObjectiveIs, <1>1, EachFits
<1>8. Good(h, s, b, Ok(h, <<>>)) /\ (bad => Good(h, s, b, Panic(h))) /\ (~bad => p > 0)
  BY <1>1, <1>6, FailuresGood
<1> HIDE DEF recs, bad
<1> QED BY <1>5, <1>7, <1>8 DEF AllGood, b

(* Every k-th point after the first f. *)
LEMMA CompressedIs ==
  ASSUME NEW r \in Metric, r.step > 0, NEW f \in Int, NEW k \in Int, k > 0
  PROVE  Compressed(r, f, k) \in Metric
<1> DEFINE c == k * r.step
           x == r.start + f * r.step
           n == GetBuckets(x, r.stop, c)
           v == NewValues(CopyLink(r), n)
           w == [v EXCEPT !.step = c]
           y == [w EXCEPT !.start = x]
<1>1. c \in Int /\ c > 0 /\ x \in Int /\ r.stop \in Int
  <2> DEFINE d == r.step
  <2>1. d \in Int /\ d > 0 /\ r.start \in Int /\ r.stop \in Int BY DEF Metric
  <2> HIDE DEF d
  <2>2. k * d > 0 /\ k * d \in Int /\ f * d \in Int BY <2>1
  <2> QED BY <2>1, <2>2 DEF d
<1>2. Compressed(r, f, k) = RecalcStopTime([NewValues(CopyLink(r), n) EXCEPT !.step = c, !.start = x])
  BY DEF Compressed
<1>3. [NewValues(CopyLink(r), n) EXCEPT !.step = c, !.start = x] = y OBVIOUS
<1> HIDE DEF c, x
<1>4. n \in Int
  <2> DEFINE e == r.stop - x
  <2>1. e \in Int BY <1>1
  <2>2. n = CeilDiv(e, c) BY DEF GetBuckets
  <2> HIDE DEF e, n
  <2> QED BY <1>1, <2>1, <2>2, CeilDivIs
<1> HIDE DEF n
<1>5. CopyLink(r) \in Metric BY ShapesAre
<1>6. v \in Metric BY <1>4, <1>5, NewValuesIs
<1> HIDE DEF v
<1>7. w \in Metric BY <1>1, <1>6, WithStep
<1> HIDE DEF w
<1>8. y \in Metric BY <1>1, <1>7, WithStart
<1> HIDE DEF y
<1> QED BY <1>2, <1>3, <1>8, StopsAre

LEMMA compressPeriodicGapsGood ==
  ASSUME NEW h, NEW a, Given(h, a), NEW nulls \in BOOLEAN
  PROVE  AllGood(h, a.s, ~nulls, compressPeriodicGaps(h, a, nulls))
<1> DEFINE s == a.s
           P == {c \in [DOMAIN s -> UNION {Gapless(h[s[i]], nulls) : i \in DOMAIN s}] :
                   \A i \in DOMAIN s : c[i] \in Gapless(h[s[i]], nulls)}
           bad(c) == \E i \in DOMAIN c : c[i].step # h[s[i]].step /\ c[i].n < 1
<1>1. List(h, s) /\ h \in Heaps /\ Len(s) \in Nat /\ DOMAIN s = 1..Len(s) /\ s \in Seq(ToSet(s))
  BY GivenIs
<1>2. \A i \in DOMAIN s : h[s[i]] \in Metric /\ h[s[i]].step > 0 BY <1>1, ListIs
<1>3. ASSUME NEW r \in Metric, r.step > 0, NEW q \in Gapless(r, nulls)
      PROVE  q \in Metric /\ (~nulls => Alike(q, r))
  <2>1. CopyLink(r) \in Metric /\ Alike(CopyLink(r), r) BY ShapesAre
  <2>2. CASE q = CopyLink(r) BY <2>1, <2>2
  <2>3. CASE nulls /\ \E g \in Guesses(r) : q = Compressed(r, g[1], g[2])
    <3> PICK g \in Guesses(r) : q = Compressed(r, g[1], g[2]) BY <2>3
    <3>1. g[1] \in Int /\ g[2] \in Int /\ g[2] > 0 BY DEF Guesses
    <3>2. Compressed(r, g[1], g[2]) \in Metric BY <1>3, <3>1, CompressedIs
    <3> QED BY <2>3, <3>2
  <2> QED BY <1>3, <2>2, <2>3 DEF Gapless
<1>4. ASSUME NEW c \in P
      PROVE  /\ DOMAIN c = DOMAIN s /\ c = [i \in DOMAIN c |-> c[i]]
             /\ \A i \in DOMAIN s : c[i] \in Metric /\ (~nulls => Alike(c[i], h[s[i]]))
  BY <1>2, <1>3
<1>5. compressPeriodicGaps(h, a, nulls) = {IF bad(c) THEN Panic(h) ELSE New(h, c) : c \in P}
  BY DEF compressPeriodicGaps
<1> HIDE DEF P
<1>6. ASSUME NEW c \in P PROVE Good(h, s, ~nulls, New(h, c))
  <2>1. Regular(h, s) => \A i \in DOMAIN s : Fits(h[s[i]]) BY <1>1, RegularIs
  <2>2. \A i \in DOMAIN s : c[i] \in Metric /\ (Regular(h, s) /\ ~nulls => Fits(c[i]))
    BY <1>4, <2>1, AlikeFits
  <2>3. DOMAIN c = DOMAIN s /\ c = [i \in DOMAIN c |-> c[i]] BY <1>4
  <2> QED BY <1>1, <2>2, <2>3, EachFits
<1>7. ASSUME NEW c \in P PROVE bad(c) => Good(h, s, ~nulls, Panic(h))
  BY <1>4, <1>1, FailuresGood DEF Alike
<1> HIDE DEF bad
<1> QED BY <1>5, <1>6, <1>7 DEF AllGood

---------------------------------------
(* Series made of nothing. *)
LEMMA MadeGood ==
  ASSUME NEW h \in Heaps, NEW t, NEW b, NEW r \in Metric, b => Fits(r)
  PROVE  AllGood(h, t, b, {New(h, <<r>>)})
  BY OneGood DEF AllGood

(* Points a step apart that do not go over the stop. *)
LEMMA StepsFit ==
  ASSUME NEW start \in Int, NEW step \in Int, NEW stop \in Int, NEW n \in Int,
         n * step < stop - start + step
  PROVE  Fresh(start, step, stop, n) \in Metric /\ Fits(Fresh(start, step, stop, n))
<1> DEFINE r == Fresh(start, step, stop, n)
           m == n * step
<1>1. r \in Metric /\ r.start = start /\ r.step = step /\ r.stop = stop /\ r.n = n
  BY FreshIs
<1> HIDE DEF r
<1>2. (n - 1) * step = m - step /\ m \in Int /\ m < stop - start + step OBVIOUS
<1> HIDE DEF m
<1>3. start + (n - 1) * step < stop BY <1>2
<1> QED BY <1>1, <1>3 DEF Fits, r

LEMMA LinesGood ==
  ASSUME NEW h \in Heaps, NEW t
  PROVE  /\ AllGood(h, t, TRUE, Constant(h))
         /\ AllGood(h, t, TRUE, constantLine(h))
         /\ AllGood(h, t, TRUE, identity(h))
         /\ AllGood(h, t, TRUE, example(h))
<1>1. From \in Int /\ Until \in Int /\ Minute \in Int /\ Until - From > 0 /\ Minute > 0
      /\ Fresh(From, Until - From, From + 2 * (Until - From), 2) \in Metric
      /\ Fits(Fresh(From, Until - From, From + 2 * (Until - From), 2))
  BY LineIs
<1>2. AllGood(h, t, TRUE, Constant(h))
  <2> DEFINE d == Until - From
  <2>1. d \in Int /\ 1 * d < Until - From + d BY <1>1
  <2> HIDE DEF d
  <2>2. Fresh(From, d, Until, 1) \in Metric /\ Fits(Fresh(From, d, Until, 1))
    BY <1>1, <2>1, StepsFit
  <2> QED BY <2>2, MadeGood DEF Constant, d
<1>3. AllGood(h, t, TRUE, constantLine(h)) BY <1>1, MadeGood DEF constantLine
<1>4. AllGood(h, t, TRUE, identity(h))
  <2> DEFINE d == Until - From
             n == CeilDiv(d, Minute)
  <2>1. d \in Int BY <1>1
  <2> HIDE DEF d
  <2>2. n \in Int /\ n * Minute < d + Minute BY <1>1, <2>1, CeilDivIs
  <2> HIDE DEF n
  <2>3. n * Minute < Until - From + Minute BY <2>2 DEF d
  <2>4. Fresh(From, Minute, Until, n) \in Metric /\ Fits(Fresh(From, Minute, Until, n))
    BY <1>1, <2>2, <2>3, StepsFit
  <2> QED BY <2>4, MadeGood DEF identity, d, n
<1>5. AllGood(h, t, TRUE, example(h)) BY FailuresGood DEF AllGood, example
<1> QED BY <1>2, <1>3, <1>4, <1>5

LEMMA CurvesGood ==
  ASSUME NEW h \in Heaps, NEW t, NEW p \in Int
  PROVE  /\ AllGood(h, t, p > 0, timeFunction(h, p))
         /\ AllGood(h, t, p > 0, sinFunction(h, p))
         /\ AllGood(h, t, p > 0, randomWalk(h, p))
<1> DEFINE d == Until - From
           b == p > 0
<1>1. From \in Int /\ Until \in Int /\ d \in Int /\ d > 0 BY LineIs
<1>2. AllGood(h, t, b, timeFunction(h, p))
  <2> DEFINE n == CeilDiv(d, p)
             r == Fresh(From, p, Until, n)
  <2>1. timeFunction(h, p) = IF p <= 0 THEN {Err(h)} ELSE {New(h, <<r>>)}
    BY DEF timeFunction
  <2>2. ASSUME p > 0 PROVE r \in Metric /\ Fits(r)
    BY <1>1, <2>2, CeilDivIs, StepsFit
  <2> HIDE DEF r
  <2>3. p > 0 => AllGood(h, t, b, {New(h, <<r>>)}) BY <2>2, MadeGood
  <2>4. AllGood(h, t, b, {Err(h)}) BY FailuresGood DEF AllGood
  <2> QED BY <2>1, <2>3, <2>4
<1>3. AllGood(h, t, b, sinFunction(h, p))
  <2> DEFINE e == d - 1 + p
             n == Quot(e, p)
             r == Fresh(From, p, Until, n)
  <2>1. sinFunction(h, p) = IF p = 0 \/ n < 0 THEN {Panic(h)} ELSE {New(h, <<r>>)}
    BY DEF sinFunction
  <2>2. e \in Int BY <1>1
  <2>3. ASSUME p > 0 PROVE ~(n < 0) /\ Fits(r)
    <3>1. e >= 0 BY <1>1, <2>3
    <3> HIDE DEF e
    <3>2. n \in Int /\ n >= 0 /\ n * p <= e BY <2>2, <2>3, <3>1, QuotOf
    <3> HIDE DEF n
    <3> DEFINE m == n * p
    <3>3. m \in Int /\ m <= e BY <3>2
    <3> HIDE DEF m
    <3>4. m < Until - From + p BY <1>1, <3>3 DEF e
    <3>5. n * p < Until - From + p BY <3>4 DEF m
    <3> QED BY <1>1, <3>2, <3>5, StepsFit
  <2>4. p # 0 => r \in Metric BY <2>2, QuotIs, <1>1, FreshIs
  <2> HIDE DEF r, n
  <2>5. p # 0 => AllGood(h, t, b, {New(h, <<r>>)}) BY <2>3, <2>4, MadeGood
  <2>6. p = 0 \/ n < 0 => AllGood(h, t, b, {Panic(h)})
    <3>1. p = 0 \/ n < 0 => ~b BY <2>3
    <3> HIDE DEF b
    <3>2. ~b => Good(h, t, b, Panic(h)) BY FailuresGood
    <3> QED BY <3>1, <3>2 DEF AllGood
  <2> QED BY <2>1, <2>5, <2>6
<1>4. AllGood(h, t, b, randomWalk(h, p))
  <2> DEFINE n == Quot(d, p)
             e == From + p * n
             r == Fresh(From, p, e, n)
  <2>1. randomWalk(h, p) = IF p = 0 \/ n < 0 THEN {Panic(h)} ELSE {New(h, <<r>>)}
    BY DEF randomWalk
  <2>2. p # 0 => n \in Int BY <1>1, QuotIs
  <2>3. p > 0 => ~(n < 0) BY <1>1, QuotOf
  <2> HIDE DEF n
  <2>4. ASSUME p # 0 PROVE r \in Metric /\ (p > 0 => Fits(r))
    <3> DEFINE m == n * p
    <3>1. p * n = m /\ m \in Int BY <2>2, <2>4
    <3>2. e = From + m BY <3>1
    <3> HIDE DEF m
    <3>3. e \in Int /\ (p > 0 => m < e - From + p) BY <1>1, <3>1, <3>2
    <3> HIDE DEF e
    <3>4. p > 0 => n * p < e - From + p BY <3>3 DEF m
    <3>5. p > 0 => Fits(r) BY <1>1, <2>2, <2>4, <3>3, <3>4, StepsFit
    <3> QED BY <1>1, <2>2, <2>4, <3>3, <3>5, FreshIs
  <2> HIDE DEF r
  <2>5. p # 0 => AllGood(h, t, b, {New(h, <<r>>)}) BY <2>4, MadeGood
  <2>6. p = 0 \/ n < 0 => AllGood(h, t, b, {Panic(h)})
    <3>1. p = 0 \/ n < 0 => ~b BY <2>3
    <3> HIDE DEF b
    <3>2. ~b => Good(h, t, b, Panic(h)) BY FailuresGood
    <3> QED BY <3>1, <3>2 DEF AllGood
  <2> QED BY <2>1, <2>5, <2>6
<1> QED BY <1>2, <1>3, <1>4

(* ... about which nothing is promised. *)
LEMMA OddLinesGood ==
  ASSUME NEW h \in Heaps, NEW t
  PROVE  /\ \A alive \in BOOLEAN : AllGood(h, t, FALSE, graphiteWeb(h, alive))
         /\ \A p \in Int : AllGood(h, t, FALSE, verticalLine(h, p))
<1>1. From \in Int /\ Until \in Int /\ Minute \in Int BY LineIs
<1>2. Good(h, t, FALSE, Ok(h, <<>>)) /\ Good(h, t, FALSE, Err(h)) /\ Good(h, t, FALSE, Panic(h))
  BY FailuresGood
<1>3. ASSUME NEW n \in 1..2 PROVE Good(h, t, FALSE, New(h, <<Fresh(From, IF n > 1 THEN 1 ELSE Minute, From + n - 1, n)>>))
  <2> DEFINE x == IF n > 1 THEN 1 ELSE Minute
             y == From + n - 1
             r == Fresh(From, x, y, n)
  <2>1. x \in Int /\ y \in Int /\ n \in Int BY <1>1
  <2> HIDE DEF x, y
  <2>2. r \in Metric BY <1>1, <2>1, FreshIs
  <2> HIDE DEF r
  <2>3. Good(h, t, FALSE, New(h, <<r>>)) BY <2>2, OneGood
  <2> QED BY <2>3 DEF r, x, y
<1>4. ASSUME NEW p \in Int PROVE Good(h, t, FALSE, New(h, <<Fresh(Until - p, 1, Until - p, 2)>>))
  <2> DEFINE x == Until - p
             r == Fresh(x, 1, x, 2)
  <2>1. x \in Int BY <1>1
  <2> HIDE DEF x
  <2>2. r \in Metric BY <2>1, FreshIs
  <2> HIDE DEF r
  <2>3. Good(h, t, FALSE, New(h, <<r>>)) BY <2>2, OneGood
  <2> QED BY <2>3 DEF r, x
<1>5. \A alive \in BOOLEAN : AllGood(h, t, FALSE, graphiteWeb(h, alive))
  BY <1>2, <1>3 DEF AllGood, graphiteWeb
<1>6. \A p \in Int : AllGood(h, t, FALSE, verticalLine(h, p))
  BY <1>2, <1>4 DEF AllGood, verticalLine
<1> QED BY <1>5, <1>6

(* Buckets. *)
LEMMA BucketedIs ==
  ASSUME NEW r \in Metric, NEW p \in Int, NEW x \in Int, NEW n \in Int
  PROVE  /\ LET q == Bucketed(r, p, x, n)
            IN q \in Metric /\ q.step = p /\ q.start = x /\ q.n = n
         /\ Summary(r, p, x, n) \in Metric /\ (p > 0 => Fits(Summary(r, p, x, n)))
<1> DEFINE e == SetTag(NewValues(CopyTags(r), n))
           f == [e EXCEPT !.step = p]
           q == [f EXCEPT !.start = x]
<1>1. e \in Metric /\ e.n = n BY TaggedIs
<1>2. Bucketed(r, p, x, n) = q BY DEF Bucketed
<1> HIDE DEF e
<1>3. f \in Metric /\ f.step = p /\ f.n = n BY <1>1, WithStep
<1> HIDE DEF f
<1>4. q \in Metric /\ q.step = p /\ q.start = x /\ q.n = n BY <1>3, WithStart
<1>5. Summary(r, p, x, n) = RecalcStopTime(q) BY <1>2 DEF Summary
<1> HIDE DEF q
<1>6. RecalcStopTime(q) \in Metric /\ (p > 0 => Fits(RecalcStopTime(q)))
  BY <1>4, StopsAre, WholeFits
<1> QED BY <1>2, <1>4, <1>5, <1>6

(* The i-th point is in one of the c buckets that reach the stop, which is *)
(* t after the start. *)
LEMMA InBuckets ==
  ASSUME NEW step \in Int, step > 0, NEW n \in Int, NEW p \in Int, p > 0, NEW t \in Int, n * step <= t,
         NEW c \in Int, t <= c * p, NEW i \in 0..(n - 1)
  PROVE  Quot(c * p - t + i * step, p) < c /\ Quot(c * p - t + i * step, p) >= 0
         /\ Quot(c * p - t + i * step, p) \in Int
<1> DEFINE u == c * p
           v == i * step
           x == c * p - t + i * step
           k == Quot(x, p)
<1>1. u \in Int /\ v \in Int /\ v >= 0 /\ i \in Int OBVIOUS
<1>2. v < t
  <2> DEFINE m == n - i
  <2>1. m \in Int /\ m >= 1 /\ n = m + i BY <1>1
  <2> HIDE DEF m
  <2>2. n * step = m * step + v /\ m * step \in Int /\ m * step >= step
    BY <1>1, <2>1
  <2> DEFINE w == m * step
  <2>3. w + v <= t /\ w \in Int /\ w >= step BY <2>2
  <2> HIDE DEF w, v
  <2> QED BY <1>1, <2>3
<1>3. x = u - t + v /\ t <= u OBVIOUS
<1> HIDE DEF x, v
<1>4. x \in Int /\ x >= 0 /\ x < u BY <1>1, <1>2, <1>3
<1>5. k \in Int /\ k >= 0 /\ k * p <= x BY <1>4, QuotOf
<1> HIDE DEF k
<1>6. k * p < c * p /\ c * p \in Int /\ k * p \in Int BY <1>4, <1>5
<1>7. k < c
  <2> SUFFICES ASSUME k >= c PROVE FALSE BY <1>5
  <2>1. k * p >= c * p BY <1>5
  <2> QED BY <1>6, <2>1
<1> QED BY <1>5, <1>7 DEF k, x, v

LEMMA HitBuckets ==
  ASSUME NEW r \in Metric, NEW p \in Int, p > 0, NEW align \in BOOLEAN
  PROVE  LET e == HitStop(r, p, align)
             c == HitCount(r, p, align)
             x == HitStart(r, p, align)
         IN /\ e \in Int /\ c \in Int /\ x \in Int
            /\ e - r.start <= c * p /\ x = e - c * p
            /\ Whole(r) => r.n * r.step <= e - r.start /\ c >= 0
<1> DEFINE d == r.stop - r.start
           e == HitStop(r, p, align)
           c == HitCount(r, p, align)
           t == e - r.start
           u == (d \div p) * p
<1>1. r.start \in Int /\ r.stop \in Int /\ d \in Int /\ r.n \in Int /\ r.step \in Int
  BY DEF Metric
<1>2. u \in Int /\ d < u + p BY <1>1, DivIs
<1>3. e = IF align THEN r.start + u + p ELSE r.stop BY DEF HitStop
<1> HIDE DEF u, e
<1>4. e \in Int /\ t \in Int /\ d <= t BY <1>1, <1>2, <1>3
<1>5. c = CeilDiv(t, p) BY DEF HitCount, GetBuckets, e
<1> HIDE DEF c, t
<1>6. c \in Int /\ t <= c * p /\ (t >= 0 => c >= 0) BY <1>4, <1>5, CeilDivIs
<1> DEFINE v == c * p
<1>7. v \in Int /\ HitStart(r, p, align) = e - v BY <1>6 DEF HitStart, c, e
<1>8. Whole(r) => r.n * r.step <= t /\ t >= 0
  <2> SUFFICES ASSUME Whole(r) PROVE r.n * r.step <= t /\ t >= 0 OBVIOUS
  <2> DEFINE y == r.n * r.step
  <2>1. r.stop = r.start + y /\ r.n > 0 /\ r.step > 0 BY DEF Whole
  <2>2. y \in Int /\ y >= 0
    <3> DEFINE m == r.n
               k == r.step
    <3>1. m \in Int /\ k \in Int /\ m > 0 /\ k > 0 BY <1>1, <2>1
    <3> HIDE DEF m, k
    <3>2. m * k \in Int /\ m * k >= 0 BY <3>1
    <3> QED BY <3>2 DEF m, k
  <2> HIDE DEF y
  <2>3. y <= t /\ t >= 0 BY <1>1, <1>4, <2>1, <2>2
  <2> QED BY <2>3 DEF y
<1> QED BY <1>4, <1>6, <1>7, <1>8 DEF c, e, t

LEMMA HitIs ==
  ASSUME NEW r \in Metric, NEW q \in Metric, NEW p \in Int, p > 0, NEW align \in BOOLEAN
  PROVE  /\ HitSeries(r, p, align, q) \in Metric /\ Fits(HitSeries(r, p, align, q))
         /\ Whole(r) /\ Alike(q, r) => ~HitOutside(r, p, align, q)
<1> DEFINE e == HitStop(r, p, align)
           c == HitCount(r, p, align)
           x == HitStart(r, p, align)
           b == Bucketed(q, p, x, c)
           f == [b EXCEPT !.stop = e]
           t == e - r.start
<1>1. /\ e \in Int /\ c \in Int /\ x \in Int
      /\ t <= c * p /\ x = e - c * p
      /\ Whole(r) => r.n * r.step <= t /\ c >= 0
  BY HitBuckets
<1>2. HitSeries(r, p, align, q) = f BY DEF HitSeries
<1>3. HitOutside(r, p, align, q) =
        \E i \in 0..(q.n - 1) :
          LET startBucket == Quot(q.start + i * q.step - x, p)
              endBucket == Lesser(Quot(q.start + (i + 1) * q.step - x, p), c - 1)
          IN startBucket >= c \/ (startBucket < -1 /\ startBucket + 1 < endBucket)
  BY DEF HitOutside
<1> HIDE DEF e, c, x
<1>4. b \in Metric /\ b.step = p /\ b.start = x /\ b.n = c BY <1>1, BucketedIs
<1> HIDE DEF b
<1>5. f \in Metric /\ f.step = p /\ f.start = x /\ f.n = c /\ f.stop = e
  BY <1>1, <1>4, WithStop
<1> HIDE DEF f
<1> DEFINE v == c * p
<1>6. v \in Int /\ (c - 1) * p = v - p /\ x = e - v BY <1>1
<1>7. Fits(f) BY <1>5, <1>6, <1>1 DEF Fits
<1>8. ASSUME Whole(r), Alike(q, r), NEW i \in 0..(q.n - 1)
      PROVE  LET startBucket == Quot(q.start + i * q.step - x, p)
             IN startBucket \in Int /\ startBucket < c /\ startBucket >= 0
  <2>1. q.step \in Int /\ q.n \in Int /\ q.start \in Int /\ q.step = r.step /\ q.n = r.n /\ q.start = r.start /\ q.step > 0
    BY <1>8 DEF Metric, Alike, Whole
  <2> DEFINE w == i * q.step
             k == q.n
             d == q.step
  <2>2. k \in Int /\ d \in Int /\ d > 0 /\ i \in 0..(k - 1) BY <2>1
  <2>3. k * d <= t /\ t \in Int BY <1>1, <1>8, <2>1
  <2>4. w \in Int /\ w = i * d BY <2>1
  <2>5. q.start + w - x = v - t + w BY <1>1, <1>6, <2>1, <2>4
  <2> HIDE DEF k, d, t, w
  <2>6. Quot(c * p - t + i * d, p) < c /\ Quot(c * p - t + i * d, p) >= 0 /\ Quot(c * p - t + i * d, p) \in Int
    BY <1>1, <2>2, <2>3, InBuckets
  <2>7. c * p - t + i * d = q.start + i * q.step - x BY <2>4, <2>5 DEF w
  <2> QED BY <2>6, <2>7
<1>9. Whole(r) /\ Alike(q, r) => ~HitOutside(r, p, align, q)
  <2> SUFFICES ASSUME Whole(r), Alike(q, r), HitOutside(r, p, align, q) PROVE FALSE
    OBVIOUS
  <2> PICK i \in 0..(q.n - 1) :
          LET startBucket == Quot(q.start + i * q.step - x, p)
              endBucket == Lesser(Quot(q.start + (i + 1) * q.step - x, p), c - 1)
          IN startBucket >= c \/ (startBucket < -1 /\ startBucket + 1 < endBucket)
    BY <1>3
  <2> DEFINE k == Quot(q.start + i * q.step - x, p)
  <2>1. k >= c \/ k < -1 OBVIOUS
  <2>2. k \in Int /\ k < c /\ k >= 0 BY <1>8
  <2> HIDE DEF k
  <2> QED BY <1>1, <2>1, <2>2
<1> QED BY <1>2, <1>5, <1>7, <1>9

LEMMA hitcountGood ==
  ASSUME NEW h, NEW a, Given(h, a), NEW p \in Int
  PROVE  AllGood(h, a.s, CountedIn(h, a.s, p), hitcount(h, a, p))
<1> DEFINE s == a.s
           b == CountedIn(h, s, p)
           first == h[s[1]]
           bad(x) == HitCount(first, p, x) < 0 \/ \E i \in DOMAIN s : HitOutside(first, p, x, h[s[i]])
           recs(x) == [i \in DOMAIN s |-> HitSeries(first, p, x, h[s[i]])]
           R(x) == IF s = <<>> THEN {Ok(h, <<>>)} ELSE IF p <= 0 THEN {Panic(h)}
                   ELSE IF bad(x) THEN {Panic(h)} ELSE {New(h, recs(x))}
<1>1. List(h, s) /\ h \in Heaps /\ Len(s) \in Nat /\ DOMAIN s = 1..Len(s) /\ s \in Seq(ToSet(s))
  BY GivenIs
<1>2. \A i \in DOMAIN s : h[s[i]] \in Metric BY <1>1, ListIs
<1>3. s # <<>> => 1 \in DOMAIN s BY <1>1
<1>4. b => p > 0 BY <1>1 DEF CountedIn
<1>5. hitcount(h, a, p) = UNION {R(x) : x \in BOOLEAN}
  BY DEF hitcount, ForEachSeriesDo1, HitSeries, HitOutside, HitCount, HitStart,
     HitStop
<1> HIDE DEF b
<1>6. ASSUME NEW x \in BOOLEAN, Regular(h, s), b PROVE ~bad(x)
  <2>1. first \in Metric /\ Whole(first) /\ \A i \in DOMAIN s : Alike(h[s[i]], first)
    BY <1>1, <1>6, RegularIs
  <2>2. p > 0 BY <1>4, <1>6
  <2> HIDE DEF first
  <2>3. HitCount(first, p, x) >= 0 /\ HitCount(first, p, x) \in Int
    BY <2>1, <2>2, HitBuckets
  <2>4. \A i \in DOMAIN s : ~HitOutside(first, p, x, h[s[i]])
    BY <1>2, <2>1, <2>2, HitIs
  <2> QED BY <2>3, <2>4
<1>7. ASSUME NEW x \in BOOLEAN, p > 0, s # <<>> PROVE Good(h, s, b, New(h, recs(x)))
  <2> DEFINE v == recs(x)
  <2>1. v = [i \in DOMAIN v |-> v[i]] /\ DOMAIN v = DOMAIN s /\ \A i \in DOMAIN s : v[i] = HitSeries(first, p, x, h[s[i]])
    OBVIOUS
  <2>2. first \in Metric BY <1>2, <1>3, <1>7
  <2> HIDE DEF v, first
  <2>3. \A i \in DOMAIN s : v[i] \in Metric /\ (Regular(h, s) /\ b => Fits(v[i]))
    BY <1>2, <1>7, <2>1, <2>2, HitIs
  <2>4. Good(h, s, b, New(h, v)) BY <1>1, <2>1, <2>3, EachFits
  <2> QED BY <2>4 DEF v, first
<1>8. ASSUME NEW x \in BOOLEAN PROVE \A r \in R(x) : Good(h, s, b, r)
  BY <1>4, <1>6, <1>1, FailuresGood, <1>7, <1>8
<1> HIDE DEF R
<1> QED BY <1>5, <1>8 DEF AllGood, b

(* The least of some numbers. *)
LEMMA LeastIs ==
  ASSUME NEW S, S \subseteq Nat, S # {}
  PROVE  Least(S) \in S /\ Least(S) \in Nat /\ \A y \in S : Least(S) <= y
<1>1. \E x \in S : \A y \in S : x <= y BY LeastNumber
<1> QED BY <1>1 DEF Least

LEMMA SumIsIn ==
  ASSUME NEW r \in Metric, NEW p \in Int, p > 0, NEW f \in BOOLEAN
  PROVE  /\ SumStart(r, p, f) \in Int /\ SumStart(r, p, f) + p > r.start
         /\ \A q : SumCount(r, p, f, q) \in Int
<1> DEFINE b == SumStart(r, p, f)
           e == SumStop(r, p, f)
           d == e - b
           g == Greater(0, d)
           n == SumAll(r, p, f)
<1>1. r.start \in Int /\ r.stop \in Int BY DEF Metric
<1>2. b \in Int /\ b + p > r.start BY <1>1, DivIs DEF SumStart
<1>3. e \in Int
  <2>1. CeilDiv(r.stop, p) \in Int BY <1>1, CeilDivIs
  <2> QED BY <1>1, <2>1 DEF SumStop
<1>4. n = CeilDiv(g, p) BY DEF SumAll
<1> HIDE DEF b, e
<1>5. d \in Int BY <1>2, <1>3
<1> HIDE DEF d
<1>6. g \in Int /\ g >= 0 BY <1>5, GreaterIs
<1> HIDE DEF g, n
<1>7. n \in Nat BY <1>4, <1>6, CeilDivIs
<1>8. ASSUME NEW q PROVE SumCount(r, p, f, q) \in Int
  <2> DEFINE S == {n} \cup {k + 1 : k \in {j \in 0..(n - 1) : SumPast(r, p, f, q, j)}}
  <2>1. S \subseteq Nat /\ S # {} BY <1>7
  <2>2. SumCount(r, p, f, q) = Least(S) BY DEF SumCount, n
  <2> HIDE DEF S
  <2>3. Least(S) \in Nat BY <2>1, LeastIs
  <2> QED BY <2>2, <2>3
<1> QED BY <1>2, <1>8 DEF b

LEMMA NotEarly ==
  ASSUME NEW r \in Metric, NEW q \in Metric, q.step > 0, q.start = r.start, NEW p \in Int, p > 0, NEW f \in BOOLEAN
  PROVE  ~SumEarly(r, p, f, q)
<1> DEFINE b == SumStart(r, p, f)
           x == b + p - q.start + q.step - 1
<1>1. b \in Int /\ b + p > r.start /\ q.start \in Int /\ q.step \in Int
  BY SumIsIn DEF Metric
<1> HIDE DEF b
<1>2. x \in Int /\ x >= 0 BY <1>1
<1> HIDE DEF x
<1>3. Quot(x, q.step) \in Int /\ Quot(x, q.step) >= 0 BY <1>1, <1>2, QuotOf
<1>4. ~(Quot(x, q.step) < 0) BY <1>3
<1> QED BY <1>4 DEF SumEarly, x, b

LEMMA summarizeGood ==
  ASSUME NEW h, NEW a, Given(h, a), NEW p \in Int
  PROVE  AllGood(h, a.s, CountedIn(h, a.s, p), summarize(h, a, p))
<1> DEFINE s == a.s
           b == CountedIn(h, s, p)
           first == h[s[1]]
           early(f) == \E i \in DOMAIN s : SumEarly(first, p, f, h[s[i]])
           recs(f) == [i \in DOMAIN s |-> Summary(h[s[i]], p, SumStart(first, p, f), SumCount(first, p, f, h[s[i]]))]
           none == [i \in DOMAIN s |-> Summary(h[s[i]], p, first.start, 0)]
           R(f) == IF s = <<>> THEN {Ok(h, <<>>)}
                   ELSE IF p <= 0 THEN {IF first.start >= first.stop THEN New(h, none)
                                        ELSE IF p = 0 THEN Hang(h) ELSE Panic(h)}
                   ELSE IF early(f) THEN {Panic(h)} ELSE {New(h, recs(f))}
<1>1. List(h, s) /\ h \in Heaps /\ Len(s) \in Nat /\ DOMAIN s = 1..Len(s) /\ s \in Seq(ToSet(s))
  BY GivenIs
<1>2. \A i \in DOMAIN s : h[s[i]] \in Metric /\ h[s[i]].step > 0 BY <1>1, ListIs
<1>3. s # <<>> => first \in Metric BY <1>1, <1>2
<1>4. b => p > 0 BY <1>1 DEF CountedIn
<1>5. summarize(h, a, p) = UNION {R(f) : f \in BOOLEAN}
  BY DEF summarize, ForEachSeriesDo1, SumCount, SumEarly, SumAll, SumPast,
     SumStart, SumStop
<1>6. Regular(h, s) => \A i \in DOMAIN s : h[s[i]].start = first.start
  BY <1>1, RegularIs DEF Alike
<1> HIDE DEF b, first
<1>7. ASSUME NEW f \in BOOLEAN, Regular(h, s), p > 0, s # <<>> PROVE ~early(f)
  BY <1>2, <1>3, <1>6, <1>7, NotEarly
<1>8. ASSUME NEW f \in BOOLEAN, p > 0, s # <<>> PROVE Good(h, s, b, New(h, recs(f)))
  <2> DEFINE v == recs(f)
  <2>1. v = [i \in DOMAIN v |-> v[i]] /\ DOMAIN v = DOMAIN s
        /\ \A i \in DOMAIN s : v[i] = Summary(h[s[i]], p, SumStart(first, p, f), SumCount(first, p, f, h[s[i]]))
    OBVIOUS
  <2>2. SumStart(first, p, f) \in Int /\ \A q : SumCount(first, p, f, q) \in Int
    BY <1>3, <1>8, SumIsIn
  <2> HIDE DEF v
  <2>3. \A i \in DOMAIN s : v[i] \in Metric /\ (Regular(h, s) /\ b => Fits(v[i]))
    BY <1>2, <1>8, <2>1, <2>2, BucketedIs
  <2>4. Good(h, s, b, New(h, v)) BY <1>1, <2>1, <2>3, EachFits
  <2> QED BY <2>4 DEF v
<1>9. ASSUME p <= 0, s # <<>> PROVE Good(h, s, b, New(h, none))
  <2>1. none = [i \in DOMAIN none |-> none[i]] /\ DOMAIN none = DOMAIN s
        /\ \A i \in DOMAIN s : none[i] = Summary(h[s[i]], p, first.start, 0)
    OBVIOUS
  <2>2. first.start \in Int /\ 0 \in Int BY <1>3, <1>9 DEF Metric
  <2> HIDE DEF none
  <2>3. \A i \in DOMAIN s : none[i] \in Metric BY <1>2, <2>1, <2>2, BucketedIs
  <2>4. ~b BY <1>4, <1>9
  <2> QED BY <1>1, <2>1, <2>3, <2>4, EachFits
<1>10. ASSUME NEW f \in BOOLEAN PROVE \A r \in R(f) : Good(h, s, b, r)
  BY <1>4, <1>7, <1>1, FailuresGood, <1>8, <1>9, <1>10
<1> HIDE DEF R
<1> QED BY <1>5, <1>10 DEF AllGood, b

LEMMA NotBeyond ==
  ASSUME NEW r \in Metric, Whole(r), NEW p \in Int, p > 0
  PROVE  ~SmartBeyond(r, p)
<1> DEFINE d == r.stop - r.start
           c == CeilDiv(d, p)
           last == c - 1
           u == last * p
           k == CeilDiv(u, r.step)
           y == r.n * r.step
<1>1. r.start \in Int /\ r.stop \in Int /\ r.n \in Int /\ r.step \in Int /\ r.step > 0 /\ d \in Int
  BY DEF Metric, Whole
<1>2. SmartBeyond(r, p) <=> last >= 0 /\ k > r.n BY DEF SmartBeyond, GetBuckets
<1>3. y \in Int /\ d = y BY <1>1 DEF Whole
<1> HIDE DEF d
<1>4. c \in Int /\ c * p < d + p BY <1>1, CeilDivIs
<1> HIDE DEF c
<1>5. u \in Int /\ u < d
  <2> DEFINE v == c * p
  <2>1. v \in Int /\ u = v - p /\ v < d + p BY <1>4
  <2> HIDE DEF v, u
  <2> QED BY <1>1, <2>1
<1> HIDE DEF u
<1>6. k \in Int /\ k * r.step < u + r.step BY <1>1, <1>5, CeilDivIs
<1> HIDE DEF k
<1> DEFINE w == k * r.step
           st == r.step
<1>7. w \in Int /\ w < u + st /\ st \in Int BY <1>1, <1>6
<1> HIDE DEF w, y
<1>8. w < y + st BY <1>3, <1>5, <1>7
<1>9. k * r.step < r.n * r.step + r.step BY <1>8 DEF w, y
<1>10. k <= r.n BY <1>1, <1>6, <1>9, DivUnique
<1> QED BY <1>1, <1>2, <1>6, <1>10

LEMMA smartSummarizeGood ==
  ASSUME NEW h, NEW a, Given(h, a), NEW p \in Int
  PROVE  AllGood(h, a.s, CountedIn(h, a.s, p), smartSummarize(h, a, p))
<1> DEFINE s == a.s
           b == CountedIn(h, s, p)
           bad == \E i \in DOMAIN s : SmartBeyond(h[s[i]], p)
           N(r) == Greater(0, GetBuckets(r.start, r.stop, p))
           recs == [i \in DOMAIN s |-> Summary(h[s[i]], p, h[s[i]].start, N(h[s[i]]))]
<1>1. List(h, s) /\ h \in Heaps /\ Len(s) \in Nat /\ DOMAIN s = 1..Len(s) /\ s \in Seq(ToSet(s))
  BY GivenIs
<1>2. \A i \in DOMAIN s : h[s[i]] \in Metric BY <1>1, ListIs
<1>3. smartSummarize(h, a, p) =
        IF s = <<>> THEN {Ok(h, <<>>)} ELSE IF p <= 0 THEN {Err(h)} ELSE IF bad THEN {Panic(h)} ELSE {New(h, recs)}
  BY DEF smartSummarize, ForEachSeriesDo1, SmartBeyond
<1>4. ASSUME p > 0, NEW r \in Metric PROVE N(r) \in Int /\ r.start \in Int
  <2> DEFINE d == r.stop - r.start
             c == CeilDiv(d, p)
  <2>1. d \in Int /\ r.start \in Int BY DEF Metric
  <2>2. N(r) = Greater(0, c) BY DEF GetBuckets
  <2> HIDE DEF d, N
  <2>3. c \in Int BY <1>4, <2>1, CeilDivIs
  <2> HIDE DEF c
  <2>4. Greater(0, c) \in Int BY <2>3, GreaterIs
  <2> QED BY <2>1, <2>2, <2>4
<1>5. ASSUME p > 0 PROVE Good(h, s, b, New(h, recs))
  <2>1. recs = [i \in DOMAIN recs |-> recs[i]] /\ DOMAIN recs = DOMAIN s
        /\ \A i \in DOMAIN s : recs[i] = Summary(h[s[i]], p, h[s[i]].start, N(h[s[i]]))
    OBVIOUS
  <2> HIDE DEF recs, N, b
  <2>2. ASSUME NEW i \in DOMAIN s PROVE recs[i] \in Metric /\ (Regular(h, s) /\ b => Fits(recs[i]))
    <3> DEFINE r == h[s[i]]
               x == r.start
               n == N(r)
    <3>1. r \in Metric /\ recs[i] = Summary(r, p, x, n) BY <1>2, <2>1
    <3> HIDE DEF r
    <3>2. x \in Int /\ n \in Int BY <1>4, <1>5, <3>1
    <3> HIDE DEF x, n
    <3>3. Summary(r, p, x, n) \in Metric /\ (p > 0 => Fits(Summary(r, p, x, n)))
      BY <3>1, <3>2, BucketedIs
    <3> QED BY <1>5, <3>1, <3>3
  <2> QED BY <1>1, <2>1, <2>2, EachFits
<1>6. p > 0 /\ Regular(h, s) => ~bad BY <1>1, RegularIs, <1>2, NotBeyond
<1> HIDE DEF b, bad, recs
<1>7. Good(h, s, b, Ok(h, <<>>)) /\ Good(h, s, b, Err(h)) /\ (p > 0 /\ bad => Good(h, s, b, Panic(h)))
  BY <1>1, <1>6, FailuresGood
<1>8. p <= 0 \/ p > 0 OBVIOUS
<1> QED BY <1>3, <1>5, <1>7, <1>8 DEF AllGood, b

---------------------------------------

(* What Finish says, with the parts it names. *)
LEMMA FinishSays ==
  ASSUME NEW r, Finish(r)
  PROVE  /\ heap' = [i \in DOMAIN Kept(r) |-> [r.h[Kept(r)[i]] EXCEPT !.hits = {}]]
         /\ cur' = [r.out EXCEPT !.s = Renumbered(Kept(r), r.out.s)]
         /\ values' = [k \in DOMAIN Lists(r) |-> Renumbered(Kept(r), Lists(r)[k])]
         /\ spoilt' = spoilt \cup Written(r.h)
         /\ outcome' = r.st
         /\ extrapolate' = extrapolate
  BY DEF Finish, Kept, Live, Lists, Renumbered

(* The numbers of a list. *)
LEMMA RenumberedIs ==
  ASSUME NEW n \in Nat, NEW kept \in Seq(1..n), NEW s \in Seq(1..n), ToSet(s) \subseteq ToSet(kept)
  PROVE  LET t == Renumbered(kept, s)
         IN /\ t \in Seq(1..Len(kept)) /\ Len(t) = Len(s) /\ DOMAIN t = DOMAIN s
            /\ \A i \in DOMAIN s : t[i] \in DOMAIN kept /\ kept[t[i]] = s[i]
<1> DEFINE t == Renumbered(kept, s)
<1>1. DOMAIN s = 1..Len(s) /\ Len(s) \in Nat /\ DOMAIN kept = 1..Len(kept) /\ Len(kept) \in Nat
  OBVIOUS
<1>2. t = [i \in DOMAIN s |-> t[i]] /\ \A i \in DOMAIN s : t[i] = CHOOSE j \in DOMAIN kept : kept[j] = s[i]
  BY DEF Renumbered
<1>3. \A i \in DOMAIN s : \E j \in DOMAIN kept : kept[j] = s[i] BY DEF ToSet
<1> HIDE DEF t
<1>4. \A i \in DOMAIN s : t[i] \in DOMAIN kept /\ kept[t[i]] = s[i] BY <1>2, <1>3
<1>5. t \in [1..Len(s) -> 1..Len(kept)] BY <1>1, <1>2, <1>4
<1>6. t \in Seq(1..Len(kept)) /\ Len(t) = Len(s) /\ DOMAIN t = DOMAIN s
  BY <1>1, <1>5
<1> QED BY <1>4, <1>6 DEF t

(* A prefix has the first numbers. *)
LEMMA RenumberedPrefix ==
  ASSUME NEW n \in Nat, NEW kept \in Seq(1..n), NEW s \in Seq(1..n), ToSet(s) \subseteq ToSet(kept),
         NEW u \in Seq(1..n), ToSet(u) \subseteq ToSet(kept), Len(u) <= Len(s), u = SubSeq(s, 1, Len(u))
  PROVE  Renumbered(kept, u) = SubSeq(Renumbered(kept, s), 1, Len(u))
<1> DEFINE m == Len(u)
           x == Renumbered(kept, u)
           y == Renumbered(kept, s)
<1>1. m \in Nat /\ DOMAIN u = 1..m /\ m <= Len(s) /\ Len(s) \in Nat /\ DOMAIN s = 1..Len(s)
  OBVIOUS
<1>2. \A i \in 1..m : u[i] = s[i] BY <1>1
<1>3. x = [i \in 1..m |-> CHOOSE j \in DOMAIN kept : kept[j] = u[i]]
  BY <1>1 DEF Renumbered
<1>4. y \in Seq(1..Len(kept)) /\ Len(y) = Len(s) BY RenumberedIs
<1>5. \A i \in 1..m : y[i] = CHOOSE j \in DOMAIN kept : kept[j] = u[i]
  BY <1>1, <1>2 DEF Renumbered
<1> HIDE DEF y, x, m
<1>6. x = [i \in 1..m |-> y[i]] BY <1>3, <1>5
<1>7. SubSeq(y, 1, m) = [i \in 1..m |-> y[i]] BY <1>1, <1>4
<1> QED BY <1>6, <1>7 DEF x, y, m

(* The hits of a call are forgotten after it. *)
LEMMA NoHits ==
  ASSUME NEW r \in Metric
  PROVE  LET q == [r EXCEPT !.hits = {}] IN q \in Metric /\ (Fits(r) => Fits(q))
<1> DEFINE q == [r EXCEPT !.hits = {}]
<1>1. q \in Metric /\ q.start = r.start /\ q.step = r.step /\ q.stop = r.stop /\ q.n = r.n
  BY DEF Metric
<1> HIDE DEF q
<1>2. Fits(r) => Fits(q) BY <1>1 DEF Fits
<1> QED BY <1>1, <1>2 DEF q

(* The lists after a call. *)
LEMMA ListsAre ==
  ASSUME Typed, NEW r, Sound(heap, r)
  PROVE  /\ Lists(r) \in [1..3 -> Seq(1..Len(r.h))] /\ Len(r.h) \in Nat /\ r.h \in Heaps
         /\ r.out.key # 0 => /\ r.out.key \in 1..3 /\ r.out.cap = Len(Lists(r)[r.out.key]) /\ Len(r.out.s) <= r.out.cap
                             /\ r.out.s = SubSeq(Lists(r)[r.out.key], 1, Len(r.out.s))
<1> DEFINE n == Len(r.h)
           w == Lists(r)
<1>1. n \in Nat /\ r.h \in Heaps /\ Len(heap) \in Nat /\ Len(heap) <= n
  BY DEF Sound, Grown, Heaps
<1>2. \A k \in 1..3 : values[k] \in Seq(1..n)
  <2>1. 1..Len(heap) \subseteq 1..n BY <1>1
  <2>2. \A k \in 1..3 : values[k] \in Seq(1..Len(heap)) BY DEF Typed
  <2> HIDE DEF n
  <2> QED BY <2>1, <2>2, SeqWider
<1>3. \A k \in DOMAIN r.put : r.put[k] \in Seq(1..n) BY DEF Sound
<1>4. ASSUME NEW u \in Seq(1..n), NEW v \in Seq(1..n) PROVE Overlaid(u, v) \in Seq(1..n)
  <2> DEFINE V == 1..n
             a == Len(v) + 1
             x == SubSeq(u, a, Len(u))
  <2>1. u \in Seq(V) /\ v \in Seq(V) OBVIOUS
  <2>2. a \in Nat /\ 1 <= a /\ Len(u) \in Nat OBVIOUS
  <2>3. Overlaid(u, v) = v \o x BY DEF Overlaid
  <2> HIDE DEF a, V
  <2>4. x \in Seq(V) BY <2>1, <2>2
  <2> HIDE DEF x
  <2>5. v \o x \in Seq(V) BY <2>1, <2>4
  <2> QED BY <2>3, <2>5 DEF V
<1>5. DOMAIN values = 1..3 BY DEF Typed
<1>6. w = [k \in 1..3 |-> IF k \in DOMAIN r.put THEN Overlaid(values[k], r.put[k]) ELSE values[k]]
  BY <1>5 DEF Lists, Stores
<1> HIDE DEF n, w
<1>7. w \in [1..3 -> Seq(1..n)] BY <1>2, <1>3, <1>4, <1>6
<1>8. r.out.key # 0 => /\ r.out.key \in 1..3 /\ r.out.cap = Len(w[r.out.key]) /\ Len(r.out.s) <= r.out.cap
                       /\ r.out.s = SubSeq(w[r.out.key], 1, Len(r.out.s))
  <2> SUFFICES ASSUME r.out.key # 0
               PROVE  /\ r.out.key \in 1..3 /\ r.out.cap = Len(w[r.out.key]) /\ Len(r.out.s) <= r.out.cap
                      /\ r.out.s = SubSeq(w[r.out.key], 1, Len(r.out.s))
    OBVIOUS
  <2>1. r.out.key \in 1..3 BY DEF Sound, Slices
  <2>2. w[r.out.key] = IF r.out.key \in DOMAIN r.put THEN Overlaid(values[r.out.key], r.put[r.out.key]) ELSE values[r.out.key]
    BY <1>6, <2>1
  <2> QED BY <2>1, <2>2 DEF Sound, LinkedAfter
<1> QED BY <1>1, <1>7, <1>8 DEF n, w

(* The series kept are those the result and the lists point to. *)
LEMMA KeptIs ==
  ASSUME Typed, NEW r, Sound(heap, r)
  PROVE  /\ Kept(r) \in Seq(1..Len(r.h)) /\ r.out.s \in Seq(1..Len(r.h))
         /\ ToSet(r.out.s) \subseteq ToSet(Kept(r))
         /\ \A k \in 1..3 : ToSet(Lists(r)[k]) \subseteq ToSet(Kept(r))
<1> DEFINE n == Len(r.h)
           w == Lists(r)
           all == [p \in DOMAIN r.h |-> p]
<1>1. w \in [1..3 -> Seq(1..n)] /\ n \in Nat /\ r.h \in Heaps BY ListsAre
<1>2. r.out.s \in Seq(1..n) BY DEF Sound
<1>3. DOMAIN r.h = 1..n BY <1>1 DEF Heaps
<1> HIDE DEF n, w
<1>4. all \in [1..n -> 1..n] /\ \A p \in 1..n : all[p] = p BY <1>3
<1> HIDE DEF all
<1>5. all \in Seq(1..n) /\ DOMAIN all = 1..n BY <1>1, <1>4
<1>6. ToSet(all) = 1..n BY <1>4, <1>5 DEF ToSet
<1>7. Kept(r) \in Seq(1..n) /\ ToSet(Kept(r)) = ToSet(all) \cap Live(r)
  BY <1>5, OnlyIs DEF Kept, all
<1>8. ToSet(r.out.s) \subseteq 1..n /\ \A k \in 1..3 : ToSet(w[k]) \subseteq 1..n
  BY <1>1, <1>2, SeqOver
<1>9. ToSet(r.out.s) \subseteq Live(r) /\ \A k \in 1..3 : ToSet(w[k]) \subseteq Live(r)
  BY <1>1 DEF Live, w
<1> QED BY <1>2, <1>6, <1>7, <1>8, <1>9 DEF n, w

(* The fetched series keep their numbers. *)
LEMMA KeptStarts ==
  ASSUME Typed, NEW r, Sound(heap, r)
  PROVE  /\ Sources \subseteq DOMAIN Kept(r)
         /\ \A p \in Sources : \A j \in DOMAIN Kept(r) : Kept(r)[j] = p <=> j = p
<1> DEFINE n == Len(r.h)
           all == [p \in DOMAIN r.h |-> p]
           kept == Only(all, Live(r))
<1>1. n \in Nat /\ n >= 2 /\ DOMAIN r.h = 1..n
  BY DEF Sound, Grown, Heaps, Typed, Sources
<1> HIDE DEF n
<1>2. all \in [1..n -> 1..n] /\ \A p \in 1..n : all[p] = p BY <1>1
<1> HIDE DEF all
<1>3. all \in Seq(1..n) /\ DOMAIN all = 1..n /\ Len(all) = n BY <1>1, <1>2
<1>4. Taken(all, Live(r), 1..n, kept) /\ kept \in Seq(1..n) BY <1>3, OnlyIs
<1> HIDE DEF kept
<1>5. DOMAIN kept = 1..Len(kept) /\ Len(kept) \in Nat BY <1>4
<1>6. \A i, j \in DOMAIN kept : kept[i] = kept[j] => i = j
  BY <1>2, <1>3, <1>4 DEF Taken
<1>7. \A j \in 1..2 : all[j] = j /\ all[j] \in Live(r)
  BY <1>1, <1>2 DEF Live, Sources
<1>8. 2 <= Len(kept) /\ \A j \in 1..2 : kept[j] = all[j]
  <2> DEFINE k == 2
  <2>1. k \in 1..n /\ 1..k \subseteq 1..n BY <1>1
  <2> HIDE DEF k
  <2>2. k <= Len(kept) /\ \A j \in 1..k : kept[j] = all[j]
    BY <1>4, <1>7, <2>1 DEF Taken, k
  <2> QED BY <2>2 DEF k
<1>9. Kept(r) = kept BY DEF Kept, kept, all
<1> QED BY <1>5, <1>6, <1>7, <1>8, <1>9 DEF Sources

(* A sound outcome leaves typed variables, and series that fit if it had them. *)
LEMMA FinishTyped ==
  ASSUME Typed, NEW r, Sound(heap, r), Finish(r)
  PROVE  /\ Typed'
         /\ (\A i \in DOMAIN r.out.s : Fits(r.h[r.out.s[i]])) => \A i \in DOMAIN cur'.s : Fits(heap'[cur'.s[i]])
<1> DEFINE n == Len(r.h)
           w == Lists(r)
           kept == Kept(r)
           s == r.out.s
           t == Renumbered(kept, s)
           m == Len(kept)
<1>1. w \in [1..3 -> Seq(1..n)] /\ n \in Nat /\ r.h \in Heaps
      /\ (r.out.key # 0 => /\ r.out.key \in 1..3 /\ r.out.cap = Len(w[r.out.key]) /\ Len(s) <= r.out.cap
                           /\ s = SubSeq(w[r.out.key], 1, Len(s)))
  BY ListsAre
<1>2. kept \in Seq(1..n) /\ s \in Seq(1..n) /\ ToSet(s) \subseteq ToSet(kept)
      /\ \A k \in 1..3 : ToSet(w[k]) \subseteq ToSet(kept)
  BY KeptIs
<1>3. /\ heap' = [i \in DOMAIN kept |-> [r.h[kept[i]] EXCEPT !.hits = {}]]
      /\ cur' = [r.out EXCEPT !.s = t]
      /\ values' = [k \in DOMAIN w |-> Renumbered(kept, w[k])]
      /\ extrapolate' = extrapolate
  BY FinishSays
<1>4. \A p \in 1..n : r.h[p] \in Metric BY <1>1 DEF Heaps
<1>5. r.out \in Slices BY DEF Sound
<1> HIDE DEF n, w, kept
<1>6. DOMAIN kept = 1..m /\ m \in Nat /\ \A i \in 1..m : kept[i] \in 1..n
  <2> DEFINE V == 1..n
  <2>1. kept \in Seq(V) BY <1>2
  <2> HIDE DEF V
  <2>2. DOMAIN kept = 1..m /\ m \in Nat /\ \A i \in 1..m : kept[i] \in V BY <2>1
  <2> QED BY <2>2 DEF V
<1>7. \A i \in 1..m : heap'[i] = [r.h[kept[i]] EXCEPT !.hits = {}] /\ heap'[i] \in Metric
                      /\ (Fits(r.h[kept[i]]) => Fits(heap'[i]))
  BY <1>3, <1>4, <1>6, NoHits
<1>8. heap' \in Heaps /\ Len(heap') = m BY <1>3, <1>6, <1>7 DEF Heaps
<1>9. t \in Seq(1..m) /\ Len(t) = Len(s) /\ DOMAIN t = DOMAIN s /\ \A i \in DOMAIN s : t[i] \in DOMAIN kept /\ kept[t[i]] = s[i]
  BY <1>1, <1>2, RenumberedIs
<1>10. \A k \in 1..3 : Renumbered(kept, w[k]) \in Seq(1..m) /\ Len(Renumbered(kept, w[k])) = Len(w[k])
  BY <1>1, <1>2, RenumberedIs
<1>11. DOMAIN w = 1..3 /\ \A k \in 1..3 : values'[k] = Renumbered(kept, w[k])
  BY <1>1, <1>3
<1>12. values' \in [1..3 -> Seq(1..m)] BY <1>3, <1>10, <1>11
<1> HIDE DEF t, m
<1>13. cur' \in Slices /\ cur'.s = t /\ cur'.key = r.out.key /\ cur'.cap = r.out.cap
  <2>1. t \in Seq(Nat) BY <1>6, <1>9, SeqWider
  <2> QED BY <1>3, <1>5, <2>1 DEF Slices
<1>14. Linked(cur)'
  <2> SUFFICES ASSUME cur'.key # 0
               PROVE  /\ cur'.cap = Len(values'[cur'.key]) /\ Len(cur'.s) <= cur'.cap
                      /\ cur'.s = SubSeq(values'[cur'.key], 1, Len(cur'.s))
    BY DEF Linked
  <2> DEFINE k == r.out.key
  <2>1. k \in 1..3 /\ r.out.cap = Len(w[k]) /\ Len(s) <= Len(w[k]) /\ s = SubSeq(w[k], 1, Len(s))
    BY <1>1, <1>13
  <2>2. w[k] \in Seq(1..n) /\ ToSet(w[k]) \subseteq ToSet(kept)
    BY <1>1, <1>2, <2>1
  <2>3. values'[k] = Renumbered(kept, w[k]) /\ Len(Renumbered(kept, w[k])) = Len(w[k])
    BY <1>10, <1>11, <2>1
  <2> HIDE DEF s
  <2>4. Renumbered(kept, s) = SubSeq(Renumbered(kept, w[k]), 1, Len(s))
    BY <1>1, <1>2, <2>1, <2>2, RenumberedPrefix
  <2>5. t = SubSeq(values'[k], 1, Len(t)) BY <1>9, <2>3, <2>4 DEF t
  <2> QED BY <1>9, <1>13, <2>1, <2>3, <2>5
<1>15. ASSUME \A i \in DOMAIN s : Fits(r.h[s[i]]) PROVE \A i \in DOMAIN cur'.s : Fits(heap'[cur'.s[i]])
  <2> SUFFICES ASSUME NEW i \in DOMAIN s PROVE Fits(heap'[t[i]]) BY <1>9, <1>13
  <2>1. t[i] \in 1..m /\ kept[t[i]] = s[i] /\ Fits(r.h[s[i]]) BY <1>6, <1>9, <1>15
  <2> QED BY <1>7, <2>1
<1>16. (Sources \subseteq DOMAIN heap)' BY KeptStarts, <1>3 DEF kept, Sources
<1> QED BY <1>3, <1>8, <1>9, <1>12, <1>13, <1>14, <1>15, <1>16 DEF Typed

---------------------------------------

(* An order of a list has all of it. *)
LEMMA OrderHas ==
  ASSUME NEW V, NEW s \in Seq(V), NEW t \in Orders(s)
  PROVE  \A i \in DOMAIN s : s[i] \in ToSet(t)
<1> DEFINE n == Len(s)
           D == 1..n
<1>1. n \in Nat /\ DOMAIN s = D OBVIOUS
<1>2. PICK f \in [D -> D] : t = [i \in D |-> s[f[i]]] /\ \A i, j \in D : f[i] = f[j] => i = j
  BY <1>1 DEF Orders
<1>3. ASSUME NEW i \in D PROVE \E j \in D : f[j] = i
  <2> SUFFICES ASSUME \A j \in D : f[j] # i PROVE FALSE OBVIOUS
  <2>1. IsFiniteSet(D) /\ Cardinality(D) = n BY <1>1, FS_Interval
  <2>2. IsFiniteSet(D \ {i}) /\ Cardinality(D \ {i}) = n - 1
    BY <2>1, FS_RemoveElement
  <2> HIDE DEF n, D
  <2>3. f \in [D -> D \ {i}] OBVIOUS
  <2>4. n - 1 < n BY <1>1
  <2> QED BY <1>2, <2>1, <2>2, <2>3, <2>4, FS_PigeonHole
<1> HIDE DEF n, D
<1> QED BY <1>1, <1>2, <1>3 DEF ToSet

(* The lists of an outcome are those it was given. *)
LEMMA PutIs ==
  ASSUME NEW r, NEW p, NEW q, q = [r EXCEPT !.put = p],
         q = [h |-> q.h, out |-> q.out, st |-> q.st, put |-> q.put]
  PROVE  q.put = p
<1> DEFINE x == q.h
           y == q.out
           z == q.st
           w == q.put
<1> HIDE DEF x, y, z, w
<1>1. q = [h |-> x, out |-> y, st |-> z, put |-> w] BY DEF x, y, z, w
<1>2. "put" \in DOMAIN q BY <1>1
<1>3. "put" \in DOMAIN r BY <1>2
<1> QED BY <1>3

(* Sorting in place. *)
LEMMA StoredKeeps ==
  ASSUME NEW r, r = [h |-> r.h, out |-> r.out, st |-> r.st, put |-> r.put], Keeps(r.put),
         values \in [1..3 -> Seq(Nat)], NEW a \in Slices, Linked(a), NEW t \in Orders(a.s)
  PROVE  LET q == Stored(r, a, t)
         IN Keeps(q.put) /\ q = [h |-> q.h, out |-> q.out, st |-> q.st, put |-> q.put]
<1> DEFINE put == [k \in {a.key} \cup DOMAIN r.put |-> IF k = a.key THEN t ELSE r.put[k]]
           g == r.h
           o == r.out
           x == r.st
           y == r.put
<1>1. Stored(r, a, t) = IF a.key = 0 THEN r ELSE [r EXCEPT !.put = put]
  BY DEF Stored
<1>2. CASE a.key = 0 BY <1>1, <1>2
<1>3. CASE a.key # 0
  <2>1. Len(t) = Len(a.s) /\ DOMAIN a.s = 1..Len(a.s) /\ \A i \in DOMAIN a.s : a.s[i] \in ToSet(t)
    BY OrdersPart, OrderHas DEF Slices
  <2>2. a.key \in 1..3 /\ a.s = SubSeq(values[a.key], 1, Len(a.s)) /\ Len(a.s) <= Len(values[a.key])
    BY <1>3 DEF Linked, Slices
  <2>3. \A i \in 1..Len(a.s) : a.s[i] = values[a.key][i]
    BY <2>2, SMTT(30) DEF Slices
  <2>4. Keeps(put)
    <3> SUFFICES ASSUME NEW k \in DOMAIN values, NEW i \in DOMAIN values[k], k \in DOMAIN put, i <= Len(put[k])
                 PROVE  values[k][i] \in ToSet(put[k])
      BY DEF Keeps
    <3>1. CASE k = a.key
      <4>1. put[k] = t BY <3>1
      <4>2. i \in 1..Len(a.s) BY <2>1, <4>1
      <4> QED BY <2>1, <2>3, <3>1, <4>1, <4>2
    <3>2. CASE k # a.key BY <3>2 DEF Keeps
    <3> QED BY <3>1, <3>2
  <2> HIDE DEF put, g, o, x, y
  <2>5. r = [h |-> g, out |-> o, st |-> x, put |-> y] BY DEF g, o, x, y
  <2>6. Stored(r, a, t) = [h |-> g, out |-> o, st |-> x, put |-> put]
    BY <1>1, <1>3, <2>5, WithPut
  <2> QED BY <2>4, <2>6
<1> QED BY <1>2, <1>3

(* append to a slice that has no room. *)
LEMMA AppendKeeps ==
  ASSUME NEW h, NEW a \in Slices, Linked(a), Entire(a), NEW t \in Seq(Nat), values \in [1..3 -> Seq(Nat)]
  PROVE  Keeps(AppendTo(h, a, t).put)
<1> DEFINE b == Appended(a, t)
           u == a.s \o t
           r == Done(h, b)
           put == [k \in {b.key} \cup DOMAIN r.put |-> IF k = b.key THEN u ELSE r.put[k]]
<1>1. r = [h |-> h, out |-> b, st |-> "ok", put |-> <<>>] /\ DOMAIN r.put = {}
  BY DEF Done
<1>2. AppendTo(h, a, t) = IF b.key = 0 THEN r ELSE [r EXCEPT !.put = put]
  BY DEF AppendTo, Stored
<1>3. CASE b.key = 0 BY <1>1, <1>2, <1>3 DEF Keeps
<1>4. CASE b.key # 0
  <2>1. a.key = b.key /\ ~(t # <<>> /\ Len(a.s) + Len(t) > a.cap)
    BY <1>4 DEF Appended, Own, Slices
  <2>2. Len(a.s) = a.cap /\ a.s = SubSeq(values[a.key], 1, Len(a.s)) /\ Len(a.s) = Len(values[a.key]) /\ a.key \in 1..3
    BY <1>4, <2>1 DEF Entire, Linked, Slices
  <2>3. t = <<>>
    <3> SUFFICES ASSUME t # <<>> PROVE FALSE OBVIOUS
    <3>1. Len(t) > 0 /\ Len(a.s) \in Nat BY DEF Slices
    <3> QED BY <2>1, <2>2, <3>1
  <2>4. u = a.s /\ a.s = values[a.key]
    <3> DEFINE v == values[a.key]
    <3>1. v \in Seq(Nat) /\ a.s \in Seq(Nat) BY <2>2 DEF Slices
    <3>2. a.s = SubSeq(v, 1, Len(v)) BY <2>2
    <3> HIDE DEF v
    <3>3. SubSeq(v, 1, Len(v)) = v /\ a.s \o <<>> = a.s BY <3>1
    <3> QED BY <2>3, <3>2, <3>3 DEF v
  <2>5. put = [k \in {b.key} |-> values[k]] BY <1>1, <2>1, <2>4
  <2> HIDE DEF put, r, b, u
  <2>6. AppendTo(h, a, t).put = put BY <1>1, WithPut, <1>2, <1>4
  <2>7. \A k \in DOMAIN put : put[k] = values[k] BY <2>5
  <2> QED BY <2>6, <2>7 DEF Keeps, ToSet
<1> QED BY <1>3, <1>4

(* Series noted under their names. *)
LEMMA NotedKeeps ==
  ASSUME NEW h \in Heaps, NEW s \in Seq(1..Len(h)), NEW keys, values \in [1..3 -> Seq(Nat)]
  PROVE  Keeps(Noted(s, values, keys))
<1> SUFFICES ASSUME NEW k \in DOMAIN values, NEW i \in DOMAIN values[k], k \in DOMAIN Noted(s, values, keys)
             PROVE  values[k][i] \in ToSet(Noted(s, values, keys)[k])
  BY DEF Keeps
<1> DEFINE T == {q \in ToSet(s) : keys[q] = k}
           x == Only(s, T)
           v == values[k]
<1>1. Noted(s, values, keys)[k] = v \o x BY DEF Noted
<1>2. x \in Seq(Nat) /\ v \in Seq(Nat) BY OnlyOf, SeqWider
<1>3. i \in DOMAIN v OBVIOUS
<1> HIDE DEF x, v
<1>4. i \in DOMAIN (v \o x) /\ (v \o x)[i] = v[i] BY <1>2, <1>3
<1> QED BY <1>1, <1>4 DEF ToSet, v

(* Outcomes that leave the lists alone, or all with the same lists. *)
LEMMA AllGoodKeep ==
  ASSUME NEW h, NEW s, NEW b, NEW R, AllGood(h, s, b, R)
  PROVE  AllKeep(R)
<1>1. ASSUME NEW r \in R PROVE r.put = <<>>
  <2>1. r = [h |-> r.h, out |-> r.out, st |-> r.st, put |-> <<>>]
    BY DEF AllGood, Good, OutcomeOK
  <2> DEFINE x == r.h
             y == r.out
             z == r.st
  <2> HIDE DEF x, y, z
  <2>2. r = [h |-> x, out |-> y, st |-> z, put |-> <<>>] BY <2>1 DEF x, y, z
  <2> QED BY <2>2
<1> QED BY <1>1 DEF AllKeep, Keeps

LEMMA PutsKeep ==
  ASSUME NEW h, NEW s, NEW b, NEW R, AllFair(h, s, b, R), NEW p, Keeps(p),
         \A r \in R : Keeps(r.put) \/ \E q : r = [q EXCEPT !.put = p]
  PROVE  AllKeep(R)
<1> SUFFICES ASSUME NEW r \in R PROVE Keeps(r.put) BY DEF AllKeep
<1>1. r = [h |-> r.h, out |-> r.out, st |-> r.st, put |-> r.put]
  BY DEF AllFair, Fair, Sound
<1> QED BY <1>1, PutIs

---------------------------------------
(* The functions that store into the lists they are given. *)
LEMMA OwnKeeps ==
  ASSUME NEW h
  PROVE  Keeps(Err(h).put) /\ Keeps(Panic(h).put) /\ \A t : Keeps(Ok(h, t).put)
  BY DEF Keeps, Err, Panic, Ok, Done

LEMMA heatMapKeeps ==
  ASSUME NEW h, NEW a, Given(h, a), values \in [1..3 -> Seq(Nat)]
  PROVE  AllKeep(heatMap(h, a))
<1>1. a \in Slices /\ Linked(a) BY GivenIs DEF Given
<1>2. ASSUME NEW t \in Orders(a.s) PROVE Keeps(Stored(Subtracted(h, t), a, t).put)
  <2> DEFINE r == Subtracted(h, t)
  <2>1. r = [h |-> r.h, out |-> r.out, st |-> r.st, put |-> r.put] /\ r.put = <<>>
    BY DEF Subtracted, New, Ok, Done, Err
  <2> HIDE DEF r
  <2>2. Keeps(r.put) BY <2>1 DEF Keeps
  <2>3. Keeps(Stored(r, a, t).put) BY <1>1, <2>1, <2>2, StoredKeeps
  <2> QED BY <2>3 DEF r
<1> QED BY <1>2, OwnKeeps DEF AllKeep, heatMap

LEMMA seriesListKeeps ==
  ASSUME NEW h, NEW a, NEW b, Given(h, a), Given(h, b), NEW x \in BOOLEAN, values \in [1..3 -> Seq(Nat)]
  PROVE  AllKeep(seriesList(h, a, b, x))
<1> DEFINE L == a.s \o b.s
           T == Orders(a.s)
           U == Orders(b.s)
<1>1. List(h, L) /\ h \in Heaps /\ a \in Slices /\ b \in Slices /\ Linked(a) /\ Linked(b)
  BY GivenBoth, GivenIs DEF Given
<1>2. ASSUME NEW t \in T, NEW u \in U
      PROVE  t \in Seq(ToSet(L)) /\ u \in Seq(ToSet(L))
  BY <1>2, OrdersOfBoth
<1> HIDE DEF L
<1>3. ASSUME NEW t \in T, NEW u \in U, NEW r \in Paired(h, t, u, x)
      PROVE  Keeps(Stored(Stored(r, a, t), b, u).put)
  <2>1. AllGood(h, L, FALSE, Paired(h, t, u, x))
    BY <1>1, <1>2, <1>3, PairedGood DEF AllGood, Good
  <2>2. Keeps(r.put) BY <1>3, <2>1, AllGoodKeep DEF AllKeep
  <2>3. r = [h |-> r.h, out |-> r.out, st |-> r.st, put |-> r.put]
    BY <1>3, <2>1, OutcomeSound DEF AllGood, Good, Sound
  <2> DEFINE q == Stored(r, a, t)
  <2>4. Keeps(q.put) /\ q = [h |-> q.h, out |-> q.out, st |-> q.st, put |-> q.put]
    BY <1>1, <1>3, <2>2, <2>3, StoredKeeps
  <2> HIDE DEF q
  <2>5. Keeps(Stored(q, b, u).put) BY <1>1, <1>3, <2>4, StoredKeeps
  <2> QED BY <2>5 DEF q
<1>4. seriesList(h, a, b, x) =
        (IF a.s = <<>> \/ b.s = <<>> THEN {Ok(h, <<>>)} ELSE {}) \cup
        UNION {{Stored(Stored(q, a, t), b, u) : q \in Paired(h, t, u, x)} : t \in T, u \in U}
  BY DEF seriesList
<1> SUFFICES ASSUME NEW r \in seriesList(h, a, b, x) PROVE Keeps(r.put)
  BY DEF AllKeep
<1> HIDE DEF T, U
<1>5. r = Ok(h, <<>>) \/ \E t \in T, u \in U : r \in {Stored(Stored(q, a, t), b, u) : q \in Paired(h, t, u, x)}
  BY <1>4
<1> QED BY <1>3, <1>5, OwnKeeps

LEMMA joinKeeps ==
  ASSUME NEW h, NEW a, NEW b, Given(h, a), Given(h, b), Entire(a), values \in [1..3 -> Seq(Nat)]
  PROVE  AllKeep(join(h, a, b))
<1> DEFINE B(S) == Only(b.s, (ToSet(b.s) \ S) \ ToSet(a.s))
<1>1. a \in Slices /\ Linked(a) /\ h \in Heaps /\ b.s \in Seq(1..Len(h)) /\ 1..Len(h) \subseteq Nat
  BY GivenIs DEF Given, List, Heaps
<1>2. ASSUME NEW S PROVE Keeps(AppendTo(h, a, B(S)).put)
  BY <1>1, OnlyOf, SeqWider, AppendKeeps
<1>3. \A r \in join(h, a, b) : \E S, t : r = Ok(h, t) \/ r = AppendTo(h, a, B(S))
  BY DEF join
<1> HIDE DEF B
<1> QED BY <1>2, <1>3, OwnKeeps DEF AllKeep

LEMMA reduceKeeps ==
  ASSUME NEW h, NEW a, Given(h, a), NEW keys, NEW x \in BOOLEAN, values \in [1..3 -> Seq(Nat)],
         \A k \in DOMAIN values : values[k] \in Seq(1..Len(h))
  PROVE  AllKeep(reduce(h, a, values, keys, x))
<1> DEFINE p == Noted(a.s, values, keys)
           R == reduce(h, a, values, keys, x)
<1>1. Keeps(p) BY GivenIs, NotedKeeps
<1>2. AllFair(h, a.s, FALSE, R) BY reduceFair
<1>3. \A r \in R : \E q : r = [q EXCEPT !.put = p] BY DEF reduce
<1> HIDE DEF p, R
<1>4. AllKeep(R) BY <1>1, <1>2, <1>3, PutsKeep
<1> QED BY <1>4 DEF R

(* ... that append the second list to the first. *)
LEMMA AppendedKeep ==
  ASSUME NEW h, NEW a, NEW b, Given(h, a), Given(h, b), Entire(a), values \in [1..3 -> Seq(Nat)],
         NEW s, NEW d, NEW R, AllFair(h, s, d, R),
         \A r \in R : Keeps(r.put) \/ \E q : r = [q EXCEPT !.put = AppendTo(h, a, b.s).put]
  PROVE  AllKeep(R)
<1> DEFINE p == AppendTo(h, a, b.s).put
<1>1. Keeps(p) BY GivenIs, AppendKeeps DEF Given, Slices
<1> HIDE DEF p
<1> QED BY <1>1, PutsKeep DEF p

LEMMA asPercentOfKeeps ==
  ASSUME NEW h, NEW a, NEW b, Given(h, a), Given(h, b), Entire(a), NEW x \in BOOLEAN, values \in [1..3 -> Seq(Nat)]
  PROVE  AllKeep(asPercentOf(h, a, b, x))
<1> DEFINE R == asPercentOf(h, a, b, x)
           p == AppendTo(h, a, b.s).put
<1>1. \A r \in R : r = Ok(h, <<>>) \/ \E q : r = [q EXCEPT !.put = p]
  BY DEF asPercentOf, p
<1>2. AllFair(h, a.s \o b.s, Len(a.s) = Len(b.s), R) BY asPercentOfFair
<1> HIDE DEF R, p
<1>3. \A r \in R : Keeps(r.put) \/ \E q : r = [q EXCEPT !.put = p]
  BY <1>1, OwnKeeps
<1>4. AllKeep(R) BY <1>2, <1>3, AppendedKeep DEF p
<1> QED BY <1>4 DEF R

LEMMA weightedAverageKeeps ==
  ASSUME NEW h, NEW a, NEW b, Given(h, a), Given(h, b), Entire(a), NEW x \in BOOLEAN, values \in [1..3 -> Seq(Nat)]
  PROVE  AllKeep(weightedAverage(h, a, b, x))
<1> DEFINE R == weightedAverage(h, a, b, x)
           p == AppendTo(h, a, b.s).put
<1>1. \A r \in R : r \in {Ok(h, <<>>), Panic(h)} \/ \E q : r = [q EXCEPT !.put = p]
  BY DEF weightedAverage, p
<1>2. AllFair(h, a.s \o b.s, FALSE, R) BY weightedAverageFair
<1> HIDE DEF R, p
<1>3. \A r \in R : Keeps(r.put) \/ \E q : r = [q EXCEPT !.put = p]
  BY <1>1, OwnKeeps
<1>4. AllKeep(R) BY <1>2, <1>3, AppendedKeep DEF p
<1> QED BY <1>4 DEF R

(* Fetched series stay in the lists they are in. *)
LEMMA SourcesStay ==
  ASSUME Typed, NEW r, Sound(heap, r), Finish(r), Keeps(r.put)
  PROVE  \A k \in DOMAIN values : ToSet(values[k]) \cap Sources \subseteq ToSet(values'[k])
<1> SUFFICES ASSUME NEW k \in DOMAIN values, NEW i \in DOMAIN values[k], values[k][i] \in Sources
             PROVE  values[k][i] \in ToSet(values'[k])
  BY DEF ToSet
<1> DEFINE n == Len(r.h)
           v == values[k]
           u == r.put[k]
           p == v[i]
           w == Lists(r)[k]
           kept == Kept(r)
<1>1. k \in 1..3 /\ w \in Seq(1..n) /\ n \in Nat /\ DOMAIN Lists(r) = 1..3
  BY ListsAre DEF Typed
<1>2. w = IF k \in DOMAIN r.put THEN Overlaid(v, u) ELSE v BY DEF Lists, Stores
<1>3. v \in Seq(Nat) /\ (k \in DOMAIN r.put => u \in Seq(Nat))
  <2>1. v \in Seq(1..Len(heap)) /\ (k \in DOMAIN r.put => u \in Seq(1..n))
    BY <1>1 DEF Typed, Sound
  <2>2. 1..Len(heap) \subseteq Nat /\ 1..n \subseteq Nat BY <1>1 DEF Typed, Heaps
  <2> HIDE DEF v, u, n
  <2> QED BY <2>1, <2>2, SeqWider
<1>4. i \in DOMAIN v /\ p \in Sources /\ (k \in DOMAIN r.put /\ i <= Len(u) => p \in ToSet(u))
  BY DEF Keeps
<1>5. kept \in Seq(1..n) /\ ToSet(w) \subseteq ToSet(kept) BY <1>1, KeptIs
<1>6. values'[k] = Renumbered(kept, w) BY <1>1, FinishSays
<1> HIDE DEF w, v, u, n, p, kept
<1>7. \E j \in DOMAIN w : w[j] = p
  <2>1. CASE k \notin DOMAIN r.put BY <1>2, <1>4, <2>1 DEF p
  <2>2. CASE k \in DOMAIN r.put /\ i <= Len(u)
    <3>1. PICK j \in DOMAIN u : u[j] = p BY <1>4, <2>2 DEF ToSet
    <3> DEFINE z == SubSeq(v, Len(u) + 1, Len(v))
    <3>2. Len(u) + 1 \in Nat /\ 1 <= Len(u) + 1 /\ Len(v) \in Nat /\ w = u \o z
      <4>1. w = u \o z BY <1>2, <2>2 DEF Overlaid
      <4>2. Len(u) \in Nat /\ Len(v) \in Nat BY <1>3, <2>2
      <4> QED BY <4>1, <4>2
    <3>3. z \in Seq(Nat) /\ u \in Seq(Nat) BY <1>3, <2>2, <3>2, CutPart, SMTT(30)
    <3> HIDE DEF z
    <3>4. j \in DOMAIN (u \o z) /\ (u \o z)[j] = u[j] BY <3>1, <3>3
    <3> QED BY <3>1, <3>2, <3>4
  <2>3. CASE k \in DOMAIN r.put /\ i > Len(u)
    <3> DEFINE l == Len(u)
               z == SubSeq(v, l + 1, Len(v))
               j == i - l
    <3>1. l \in Nat /\ i \in 1..Len(v) /\ i > l /\ j \in 1..(Len(v) - l) /\ Len(v) \in Nat
      BY <1>3, <1>4, <2>3
    <3>2. Len(z) = Len(v) - l /\ z[j] = v[i] /\ z \in Seq(Nat)
      BY <1>3, <3>1, SMTT(30)
    <3>3. w = u \o z BY <1>2, <2>3 DEF Overlaid
    <3> HIDE DEF z
    <3>4. (u \o z)[i] = z[j] /\ i \in DOMAIN (u \o z) BY <1>3, <2>3, <3>1, <3>2
    <3> QED BY <3>2, <3>3, <3>4 DEF p
  <2> QED BY <1>3, <1>4, <2>1, <2>2, <2>3
<1>8. PICK j \in DOMAIN w : w[j] = p BY <1>7
<1> DEFINE t == Renumbered(kept, w)
<1>9. DOMAIN t = DOMAIN w /\ t[j] \in DOMAIN kept /\ kept[t[j]] = w[j]
  BY <1>1, <1>5, <1>8, RenumberedIs
<1> HIDE DEF t
<1>10. t[j] = p BY <1>4, <1>8, <1>9, KeptStarts DEF kept
<1> QED BY <1>6, <1>8, <1>9, <1>10 DEF ToSet, t, p, v

---------------------------------------

(* What a call says of the rest. *)
LEMMA CallSays ==
  ASSUME NEW R, NEW s, NEW b, Call(R, s, b)
  PROVE  /\ regular' = (Regular(heap, s) /\ b)
         /\ left' = left - 1
         /\ \E r \in R : Finish(r)
  BY DEF Call

(* Only tails of fetched series are written. *)
LEMMA FinishSpoilt ==
  ASSUME Typed, Spoilt, NEW r, Sound(heap, r), Finish(r)
  PROVE  Spoilt' /\ outcome' \in {"ok", "error", "panic", "hang"}
<1>1. spoilt' = spoilt \cup Written(r.h) /\ outcome' = r.st BY FinishSays
<1>2. \A p \in DOMAIN r.h : r.h[p] \in Metric BY DEF Sound, Grown, Heaps
<1>3. \A p \in DOMAIN r.h : r.h[p].hits \subseteq {"tail"} \X Int
  BY <1>2 DEF Metric
<1>4. Written(r.h) \subseteq {"tail"} \X Int BY <1>3 DEF Written
<1> QED BY <1>1, <1>4 DEF Spoilt, Sound

(* A call all of whose outcomes are fair does, if they keep the lists. *)
LEMMA CallKeeps ==
  ASSUME EvaluationInv, MayCall, NEW R, NEW s, NEW b, Call(R, s, b),
         AllGood(heap, s, b, R) \/ (AllFair(heap, s, b, R) /\ (Entire(cur) => AllKeep(R)))
  PROVE  Held
<1>1. PICK r \in R : Finish(r) BY CallSays
<1>2. regular' = (Regular(heap, s) /\ b) /\ left' = left - 1 BY CallSays
<1>3. Sound(heap, r) /\ (Regular(heap, s) /\ b => Served(r))
  BY GoodFair DEF AllFair, Fair
<1>4. Typed /\ Spoilt BY DEF EvaluationInv
<1>5. Typed' /\ Spoilt' /\ outcome' = r.st /\ outcome' \in {"ok", "error", "panic", "hang"}
  BY <1>1, <1>3, <1>4, FinishTyped, FinishSpoilt, FinishSays
<1>6. left' \in Nat /\ regular' \in BOOLEAN
  BY <1>2 DEF EvaluationInv, Ended, MayCall, Regular, OneGrid
<1>7. RegularIsServed' BY <1>2, <1>3, <1>5 DEF RegularIsServed, Served
<1>8. RegularFits'
  <2> SUFFICES ASSUME regular', outcome' = "ok" PROVE \A i \in DOMAIN cur'.s : Fits(heap'[cur'.s[i]])
    BY DEF RegularFits, Fits
  <2>1. \A i \in DOMAIN r.out.s : Fits(r.h[r.out.s[i]])
    BY <1>2, <1>3, <1>5 DEF Served
  <2> QED BY <1>1, <1>3, <1>4, <2>1, FinishTyped
<1>9. Stay BY <1>1, AllGoodKeep, <1>3, <1>4, SourcesStay DEF AllKeep, Stay
<1> QED BY <1>5, <1>6, <1>7, <1>8, <1>9 DEF Held, EvaluationInv, Ended

(* What the lemmas about functions ask of the state. *)
LEMMA InvIs ==
  ASSUME EvaluationInv
  PROVE  /\ Typed /\ heap \in Heaps /\ extrapolate \in BOOLEAN
         /\ values \in [1..3 -> Seq(Nat)] /\ \A k \in DOMAIN values : values[k] \in Seq(1..Len(heap))
<1>1. Typed /\ heap \in Heaps /\ extrapolate \in BOOLEAN /\ values \in [1..3 -> Seq(1..Len(heap))]
  BY DEF EvaluationInv, Typed
<1>2. DOMAIN values = 1..3 /\ \A k \in 1..3 : values[k] \in Seq(1..Len(heap))
  BY <1>1
<1>3. 1..Len(heap) \subseteq Nat BY <1>1 DEF Heaps
<1>4. \A k \in 1..3 : values[k] \in Seq(Nat) BY <1>2, <1>3, SeqWider
<1>5. values \in [1..3 -> Seq(Nat)] BY <1>1, <1>2, <1>4
<1> QED BY <1>1, <1>2, <1>5

(* The arguments a call is given. *)
LEMMA ArgIs ==
  ASSUME Typed, NEW a \in Args \cup Known
  PROVE  Given(heap, a) /\ Len(a.s) <= MaxSeries /\ (Entire(cur) => Entire(a))
<1>1. \A k \in 1..3 : values[k] \in Seq(1..Len(heap)) BY DEF Typed
<1>2. heap \in Heaps /\ Len(heap) \in Nat /\ DOMAIN values = 1..3
  BY DEF Typed, Heaps
<1>3. ASSUME NEW k \in 1..3, a = [key |-> k, s |-> values[k], cap |-> Len(values[k])], Passed(a)
      PROVE  Given(heap, a) /\ Len(a.s) <= MaxSeries /\ Entire(a)
  <2> DEFINE V == 1..Len(heap)
             u == values[k]
  <2>1. u \in Seq(V) /\ V \subseteq Nat BY <1>1, <1>2
  <2>2. a.key = k /\ a.s = u /\ a.cap = Len(u) BY <1>3
  <2>3. a = [key |-> a.key, s |-> a.s, cap |-> a.cap] BY <1>3
  <2> HIDE DEF V, u
  <2>4. u \in Seq(Nat) /\ Len(u) \in Nat /\ u = SubSeq(u, 1, Len(u))
    <3>1. u \in Seq(Nat) BY <2>1, SeqWider
    <3>2. Len(u) \in Nat /\ u = SubSeq(u, 1, Len(u)) BY <3>1
    <3> QED BY <3>1, <3>2
  <2>5. a \in Slices BY <2>2, <2>3, <2>4 DEF Slices
  <2>6. Linked(a) BY <2>2, <2>4 DEF Linked, u
  <2>7. List(heap, a.s) BY <1>2, <1>3, <2>1, <2>2 DEF List, Passed, V
  <2> QED BY <1>3, <2>2, <2>5, <2>6, <2>7 DEF Given, Passed, Entire
<1>4. ASSUME a = Own(<<>>)
      PROVE  Given(heap, a) /\ Len(a.s) <= MaxSeries /\ Entire(a)
  BY <1>4, <1>2, EvaluationAssumption DEF Own, Slices, List, Given, Linked, Entire
<1>5. ASSUME a = cur, Passed(a) PROVE Given(heap, a) /\ Len(a.s) <= MaxSeries
  BY <1>2, <1>5 DEF Given, List, Passed, Typed
<1>6. a \in Known => \/ \E k \in 1..3 : a = [key |-> k, s |-> values[k], cap |-> Len(values[k])] /\ Passed(a)
                     \/ a = Own(<<>>)
  BY <1>2 DEF Known
<1>7. a \in Args => (a = cur /\ Passed(a)) \/ a \in Known BY DEF Args
<1> QED BY <1>3, <1>4, <1>5, <1>6, <1>7

(* ... two lists. *)
LEMMA PairIs ==
  ASSUME Typed, NEW c \in Pairs
  PROVE  /\ Given(heap, c[1]) /\ Given(heap, c[2])
         /\ Len(c[1].s) \in Nat /\ Len(c[2].s) \in Nat
         /\ Entire(cur) => Entire(c[1])
<1>1. c[1] \in Args \cup Known /\ c[2] \in Args \cup Known BY DEF Pairs, Args
<1>2. Given(heap, c[1]) /\ Given(heap, c[2]) /\ (Entire(cur) => Entire(c[1]))
  BY <1>1, ArgIs
<1> QED BY <1>2, GivenIs

---------------------------------------
(* The steps.                                                              *)
(* The next target sorts the lists of the map. *)
LEMMA NewTargetKeeps ==
  ASSUME EvaluationInv, NewTarget
  PROVE  Held
<1>1. PICK t \in Orders(values[3]) : Finish([Ok(heap, <<>>) EXCEPT !.put = [k \in {3} |-> t]])
  BY DEF NewTarget
<1> DEFINE put == [k \in {3} |-> t]
           r == [Ok(heap, <<>>) EXCEPT !.put = put]
<1>2. t \in Seq(1..Len(heap)) BY InvIs, OrdersPart, SeqOver, SeqWider
<1>3. \A k \in DOMAIN put : put[k] \in Seq(1..Len(heap)) BY <1>2
<1>4. Finish(r) BY <1>1
<1>5. Keeps(put) BY InvIs, OrderHas, OrdersPart DEF Keeps
<1> HIDE DEF put
<1>6. heap \in Heaps BY InvIs
<1>7. Fair(heap, <<1>>, FALSE, Ok(heap, <<>>)) /\ Ok(heap, <<>>).out.key = 0
  BY <1>6, FailuresGood, GoodFair DEF Ok, Own, Done
<1>8. Fair(heap, <<1>>, FALSE, r) BY <1>3, <1>7, PutFair
<1>9. Keeps(r.put) BY <1>5 DEF Ok, Done
<1> HIDE DEF r
<1>10. Typed' /\ Spoilt' /\ outcome' \in {"ok", "error", "panic", "hang"}
  BY <1>4, <1>8, FinishTyped, FinishSpoilt DEF EvaluationInv, Fair
<1>11. regular' = FALSE /\ left' = left BY DEF NewTarget
<1>12. Stay BY <1>4, <1>8, <1>9, SourcesStay DEF Stay, EvaluationInv, Fair
<1> QED
  BY <1>10, <1>11, <1>12 DEF Held, EvaluationInv, Ended, RegularIsServed,
     RegularFits

(* Every action keeps the invariant and the lists: what the function       *)
(* called may leave is fair. *)
LEMMA StepKeeps ==
  ASSUME EvaluationInv, Next
  PROVE  Held
<1>1. ASSUME BadArgument PROVE Held
  BY InvIs, FailuresGood, <1>1, CallKeeps DEF AllGood, BadArgument, Adverse
<1>2. ASSUME Unary(absolute) \/ Unary(derivative) \/ Unary(integral) \/ Unary(invert) \/ Unary(isNotNull)
             \/ Unary(offsetToZero)
      PROVE  Held
  BY <1>2, InvIs, RenamedGood, CallKeeps, ArgIs DEF Unary
<1>3. ASSUME Unary(exp) \/ Unary(logarithm) \/ Unary(logit) \/ Unary(nPercentile) \/ Unary(offset)
             \/ Unary(pow)
      PROVE  Held
  BY <1>3, InvIs, RewrittenGood, CallKeeps, ArgIs DEF Unary
<1>4. ASSUME Unary(removeBelowSeries) \/ Unary(round) \/ Unary(scale) \/ Unary(scaleToSeconds)
             \/ Unary(sigmoid) \/ Unary(squareRoot)
      PROVE  Held
  BY <1>4, InvIs, RewrittenGood, CallKeeps, ArgIs DEF Unary
<1>5. ASSUME Unary(timeSlice) PROVE Held
  BY <1>5, InvIs, RewrittenGood, CallKeeps, ArgIs DEF Unary
<1>6. ASSUME Unary(perSecond) \/ Unary(nonNegativeDerivative) \/ Unary(substr)
      PROVE  Held
  BY <1>6, InvIs, RefusedGood, CallKeeps, ArgIs DEF Unary
<1>7. ASSUME Unary(interpolate) \/ Unary(keepLastValue) \/ Unary(lowPass) \/ Unary(minMax) \/ Unary(changed)
             \/ Unary(ewma)
      PROVE  Held
  BY <1>7, InvIs, FilledGood, CallKeeps, ArgIs DEF Unary
<1>8. ASSUME Unary(fft) PROVE Held
  BY <1>8, InvIs, fftGood, CallKeeps, ArgIs DEF Unary
<1>9. ASSUME Unary(alias) \/ Unary(aliasByMetric) \/ Unary(aliasByNode) \/ Unary(aliasSub)
             \/ Unary(cactiStyle)
      PROVE  Held
  BY <1>9, InvIs, AliasGood, CallKeeps, ArgIs DEF Unary
<1>10. ASSUME Unary(consolidateBy) \/ Unary(cumulative) \/ Unary(setXFilesFactor) \/ Unary(legendValue)
       PROVE  Held
  BY <1>10, InvIs, TaggedGood, CallKeeps, ArgIs DEF Unary
<1>11. ASSUME Unary(transformNull) PROVE Held
  BY <1>11, InvIs, TransformNullGood, CallKeeps, ArgIs DEF Unary
<1>12. ASSUME Unary(aggregateLine) PROVE Held
  BY <1>12, InvIs, aggregateLineGood, CallKeeps, ArgIs DEF Unary
<1>13. ASSUME Unary(averageOutsidePercentile) \/ Unary(below) \/ Unary(filter) \/ Unary(exclude)
              \/ Unary(grep) \/ Unary(unique)
       PROVE  Held
  BY <1>13, InvIs, SubsetsGood, CallKeeps, ArgIs DEF Unary
<1>14. ASSUME Unary(removeEmptySeries) PROVE Held
  BY <1>14, InvIs, RemoveEmptyGood, CallKeeps, ArgIs DEF Unary
<1>15. ASSUME Unary(sortBy) \/ Unary(sortByName) \/ Unary(mapSeries) \/ Unary(seriesByTag)
       PROVE  Held
  BY <1>15, InvIs, OrdersGood, CallKeeps, ArgIs DEF Unary
<1>16. ASSUME Unary(heatMap) PROVE Held
  BY <1>16, InvIs, heatMapFair, heatMapKeeps, CallKeeps, ArgIs DEF Unary
<1>17. ASSUME Unary(powSeries) PROVE Held
  BY <1>17, InvIs, powSeriesGood, CallKeeps, ArgIs DEF Unary
<1>18. ASSUME Unary(rangeOfSeries) PROVE Held
  BY <1>18, InvIs, rangeOfSeriesGood, CallKeeps, ArgIs DEF Unary
<1>19. ASSUME Unary(countValues) PROVE Held
  BY <1>19, InvIs, countValuesGood, CallKeeps, ArgIs DEF Unary
<1>20. ASSUME Unary(baselines) \/ Unary(linearRegression) PROVE Held
  BY <1>20, InvIs, BaselinesGood, CallKeeps, ArgIs DEF Unary
<1>21. ASSUME Unary(timeStack) PROVE Held
  BY <1>21, InvIs, timeStackGood, CallKeeps, ArgIs DEF Unary
<1>22. ASSUME Counted(stdev) \/ Counted(integralByInterval) \/ Counted(delay)
       PROVE  Held
  BY <1>22, InvIs, WindowGood, CallKeeps, ArgIs, IntervalAssumption DEF Counted,
     CountedIn
<1>23. ASSUME Counted(aliasByBase64) PROVE Held
  BY <1>23, InvIs, Base64Good, CallKeeps, ArgIs, IntervalAssumption DEF Counted,
     CountedIn
<1>24. ASSUME Counted(toLowerCase) \/ Counted(toUpperCase)
              \/ Counted(LAMBDA h, a, p : aliasByPostgres(h, a, p, TRUE))
       PROVE  Held
  BY <1>24, InvIs, NamedGood, CallKeeps, ArgIs, IntervalAssumption,
     EvaluationAssumption DEF Counted, CountedIn
<1>25. ASSUME Counted(limit) PROVE Held
  BY <1>25, InvIs, LimitGood, CallKeeps, ArgIs, IntervalAssumption DEF Counted,
     CountedIn
<1>26. ASSUME Counted(highestLowest) PROVE Held
  BY <1>26, InvIs, HighestLowestGood, CallKeeps, ArgIs, IntervalAssumption DEF
     Counted, CountedIn
<1>27. ASSUME Counted(mostDeviant) PROVE Held
  BY <1>27, InvIs, MostDeviantGood, CallKeeps, ArgIs, IntervalAssumption DEF
     Counted, CountedIn
<1>28. ASSUME Counted(moving) PROVE Held
  BY <1>28, InvIs, movingGood, CallKeeps, ArgIs, IntervalAssumption DEF Counted,
     CountedIn
<1>29. ASSUME Counted(exponentialMovingAverage) PROVE Held
  BY <1>29, InvIs, exponentialMovingAverageGood, CallKeeps, ArgIs,
     IntervalAssumption DEF Counted, CountedIn
<1>30. ASSUME Counted(movingMedian) PROVE Held
  BY <1>30, InvIs, movingMedianGood, CallKeeps, ArgIs, IntervalAssumption DEF
     Counted, CountedIn
<1>31. ASSUME Counted(holtWintersForecast) \/ Counted(holtWintersConfidenceBands)
              \/ Counted(holtWintersConfidenceArea)
       PROVE  Held
  BY <1>31, InvIs, HoltWintersGood, CallKeeps, ArgIs, IntervalAssumption DEF
     Counted, CountedIn
<1>32. ASSUME Counted(holtWintersAberration) PROVE Held
  BY <1>32, InvIs, holtWintersAberrationGood, CallKeeps, ArgIs, IntervalAssumption
     DEF Counted, CountedIn
<1>33. ASSUME Counted(hitcount) PROVE Held
  BY <1>33, InvIs, hitcountGood, CallKeeps, ArgIs, IntervalAssumption DEF Counted,
     CountedIn
<1>34. ASSUME Counted(summarize) PROVE Held
  BY <1>34, InvIs, summarizeGood, CallKeeps, ArgIs, IntervalAssumption DEF
     Counted, CountedIn
<1>35. ASSUME Counted(smartSummarize) PROVE Held
  BY <1>35, InvIs, smartSummarizeGood, CallKeeps, ArgIs, IntervalAssumption DEF
     Counted, CountedIn
<1>36. ASSUME Counted(slo) PROVE Held
  BY <1>36, InvIs, sloGood, CallKeeps, ArgIs, IntervalAssumption DEF Counted,
     CountedIn
<1>37. ASSUME Counted(polyfit) PROVE Held
  BY <1>37, InvIs, polyfitGood, CallKeeps, ArgIs, IntervalAssumption DEF Counted,
     CountedIn
<1>38. ASSUME Binary(integralWithReset) \/ Binary(ifft) \/ Binary(aliasQuery)
       PROVE  Held
  BY <1>38, InvIs, PairsGood, CallKeeps, PairIs DEF Binary
<1>39. ASSUME Binary(group) \/ Binary(fallbackSeries) PROVE Held
  BY <1>39, InvIs, GroupGood, CallKeeps, PairIs DEF Binary
<1>40. ASSUME Binary(join) PROVE Held
  BY <1>40, InvIs, joinFair, joinKeeps, CallKeeps, PairIs DEF Binary
<1>41. ASSUME Binary(divideSeries) PROVE Held
  BY <1>41, InvIs, divideSeriesGood, CallKeeps, PairIs DEF Binary
<1>42. ASSUME BinaryWith(seriesList, FALSE) PROVE Held
  BY <1>42, InvIs, seriesListFair, seriesListKeeps, CallKeeps, PairIs DEF
     BinaryWith
<1>43. ASSUME BinaryCounted(pearsonClosest) PROVE Held
  BY <1>43, InvIs, PearsonClosestGood, CallKeeps, PairIs, IntervalAssumption DEF
     BinaryCounted
<1>44. ASSUME BinaryCounted(kolmogorovSmirnovTest2) PROVE Held
  BY <1>44, InvIs, kolmogorovSmirnovTest2Good, CallKeeps, PairIs,
     IntervalAssumption DEF BinaryCounted
<1>45. ASSUME BinaryCounted(pearson) PROVE Held
  BY <1>45, InvIs, pearsonGood, CallKeeps, PairIs, IntervalAssumption DEF
     BinaryCounted
<1>46. ASSUME BinaryCounted(timeShiftByMetric) PROVE Held
  BY <1>46, InvIs, timeShiftByMetricGood, CallKeeps, PairIs, IntervalAssumption
     DEF BinaryCounted
<1>47. ASSUME UnaryWith(groupByNode, extrapolate) \/ UnaryWith(groupByTags, extrapolate)
       PROVE  Held
  BY <1>47, InvIs, groupByNodeGood, CallKeeps, ArgIs DEF UnaryWith
<1>48. ASSUME UnaryWith(aggregate, extrapolate) \/ UnaryWith(percentileOfSeries, extrapolate)
       PROVE  Held
  BY <1>48, InvIs, aggregateGood, CallKeeps, ArgIs DEF UnaryWith
<1>49. ASSUME UnaryWith(aggregateWithWildcards, extrapolate) PROVE Held
  BY <1>49, InvIs, aggregateWithWildcardsGood, CallKeeps, ArgIs DEF UnaryWith
<1>50. ASSUME UnaryWith(asPercent, extrapolate) PROVE Held
  BY <1>50, InvIs, asPercentGood, CallKeeps, ArgIs DEF UnaryWith
<1>51. ASSUME BinaryWith(aggregateSeriesLists, extrapolate) PROVE Held
  BY <1>51, InvIs, aggregateSeriesListsGood, CallKeeps, PairIs DEF BinaryWith
<1>52. ASSUME BinaryWith(asPercentOf, extrapolate) PROVE Held
  BY <1>52, InvIs, asPercentOfFair, asPercentOfKeeps, CallKeeps, PairIs DEF
     BinaryWith
<1>53. ASSUME BinaryWith(weightedAverage, extrapolate) PROVE Held
  BY <1>53, InvIs, weightedAverageFair, weightedAverageKeeps, CallKeeps, PairIs
     DEF BinaryWith
<1>54. ASSUME UnaryWith(removeBetweenPercentile, FALSE) PROVE Held
  BY <1>54, InvIs, RemoveBetweenGood, CallKeeps, ArgIs DEF UnaryWith
<1>55. ASSUME UnaryWith(compressPeriodicGaps, FALSE) PROVE Held
  BY <1>55, InvIs, compressPeriodicGapsGood, CallKeeps, ArgIs DEF UnaryWith
<1>56. ASSUME BinaryWith(transformNullReference, FALSE) PROVE Held
  BY <1>56, InvIs, TransformNullReferenceGood, CallKeeps, PairIs DEF BinaryWith
<1>57. ASSUME UnaryWith(aliasByRedis, TRUE) PROVE Held
  BY <1>57, InvIs, RefusedGood, CallKeeps, ArgIs DEF UnaryWith
<1>58. ASSUME Counted(LAMBDA h, a, p : tukey(h, a, p, FALSE)) PROVE Held
  BY <1>58, InvIs, TukeyGood, CallKeeps, ArgIs, IntervalAssumption DEF Counted,
     CountedIn
<1>59. ASSUME Unary(LAMBDA h, a : reduce(h, a, values, Keys, extrapolate)) PROVE Held
  BY <1>59, InvIs, reduceFair, reduceKeeps, CallKeeps, ArgIs DEF Unary
<1>60. ASSUME \E resetEnd \in BOOLEAN : UnaryWith(timeShift, resetEnd) PROVE Held
  BY <1>60, InvIs, timeShiftGood, CallKeeps, ArgIs DEF UnaryWith
<1>61. ASSUME Adverse(UNION {removeBetweenPercentile(heap, a, TRUE) : a \in Args}) PROVE Held
  <2>1. \A a \in Args : AllGood(heap, <<1>>, FALSE, removeBetweenPercentile(heap, a, TRUE))
    BY InvIs, RemoveBetweenGood, AdverseGood, ArgIs
  <2>2. AllGood(heap, <<1>>, FALSE, UNION {removeBetweenPercentile(heap, a, TRUE) : a \in Args})
    BY <2>1 DEF AllGood
  <2> QED BY <1>61, <2>2, CallKeeps DEF Adverse
<1>62. ASSUME Adverse(UNION {compressPeriodicGaps(heap, a, TRUE) : a \in Args}) PROVE Held
  <2>1. \A a \in Args : AllGood(heap, <<1>>, FALSE, compressPeriodicGaps(heap, a, TRUE))
    BY InvIs, compressPeriodicGapsGood, AdverseGood, ArgIs
  <2>2. AllGood(heap, <<1>>, FALSE, UNION {compressPeriodicGaps(heap, a, TRUE) : a \in Args})
    BY <2>1 DEF AllGood
  <2> QED BY <1>62, <2>2, CallKeeps DEF Adverse
<1>63. ASSUME Adverse(UNION {transformNullReference(heap, c[1], c[2], TRUE) : c \in Pairs}) PROVE Held
  <2>1. \A c \in Pairs : AllGood(heap, <<1>>, FALSE, transformNullReference(heap, c[1], c[2], TRUE))
    BY InvIs, TransformNullReferenceGood, AdverseGood, PairIs
  <2>2. AllGood(heap, <<1>>, FALSE, UNION {transformNullReference(heap, c[1], c[2], TRUE) : c \in Pairs})
    BY <2>1 DEF AllGood
  <2> QED BY <1>63, <2>2, CallKeeps DEF Adverse
<1>64. ASSUME Adverse(UNION {seriesList(heap, c[1], c[2], TRUE) : c \in Pairs}) PROVE Held
  <2>1. \A c \in Pairs : AllFair(heap, <<1>>, FALSE, seriesList(heap, c[1], c[2], TRUE)) /\ AllKeep(seriesList(heap, c[1], c[2], TRUE))
    BY InvIs, seriesListFair, seriesListKeeps, AdverseGood, PairIs
  <2>2. AllFair(heap, <<1>>, FALSE, UNION {seriesList(heap, c[1], c[2], TRUE) : c \in Pairs}) /\ AllKeep(UNION {seriesList(heap, c[1], c[2], TRUE) : c \in Pairs})
    BY <2>1 DEF AllFair, AllKeep
  <2> QED BY <1>64, <2>2, CallKeeps DEF Adverse
<1>65. ASSUME Adverse(UNION {aliasByRedis(heap, a, FALSE) : a \in Args}) PROVE Held
  <2>1. \A a \in Args : AllGood(heap, <<1>>, FALSE, aliasByRedis(heap, a, FALSE))
    BY InvIs, RefusedGood, AdverseGood, ArgIs
  <2>2. AllGood(heap, <<1>>, FALSE, UNION {aliasByRedis(heap, a, FALSE) : a \in Args})
    BY <2>1 DEF AllGood
  <2> QED BY <1>65, <2>2, CallKeeps DEF Adverse
<1>66. ASSUME \E p \in Intervals : Adverse(UNION {aliasByPostgres(heap, a, p, FALSE) : a \in Args}) PROVE Held
  <2>1. PICK p \in Intervals : Adverse(UNION {aliasByPostgres(heap, a, p, FALSE) : a \in Args})
    BY <1>66
  <2>2. p \in Int BY IntervalAssumption
  <2>3. \A a \in Args : AllGood(heap, <<1>>, FALSE, aliasByPostgres(heap, a, p, FALSE))
    BY <2>2, InvIs, NamedGood, AdverseGood, ArgIs, EvaluationAssumption
  <2>4. AllGood(heap, <<1>>, FALSE, UNION {aliasByPostgres(heap, a, p, FALSE) : a \in Args})
    BY <2>3 DEF AllGood
  <2> QED BY <2>1, <2>4, CallKeeps DEF Adverse
<1>67. ASSUME \E p \in Intervals : Adverse(UNION {tukey(heap, a, p, TRUE) : a \in Args}) PROVE Held
  <2>1. PICK p \in Intervals : Adverse(UNION {tukey(heap, a, p, TRUE) : a \in Args})
    BY <1>67
  <2>2. p \in Int BY IntervalAssumption
  <2>3. \A a \in Args : AllGood(heap, <<1>>, FALSE, tukey(heap, a, p, TRUE))
    BY <2>2, InvIs, TukeyGood, AdverseGood, ArgIs
  <2>4. AllGood(heap, <<1>>, FALSE, UNION {tukey(heap, a, p, TRUE) : a \in Args})
    BY <2>3 DEF AllGood
  <2> QED BY <2>1, <2>4, CallKeeps DEF Adverse
<1>68. ASSUME Made(Constant(heap)) \/ Made(constantLine(heap)) \/ Made(identity(heap)) \/ Made(example(heap))
       PROVE  Held
  BY <1>68, InvIs, LinesGood, CallKeeps DEF Made
<1>69. ASSUME MadeWith(timeFunction) \/ MadeWith(sinFunction) \/ MadeWith(randomWalk)
       PROVE  Held
  BY <1>69, InvIs, CurvesGood, CallKeeps, IntervalAssumption DEF MadeWith
<1>70. ASSUME ~Inner /\ Adverse(UNION {graphiteWeb(heap, alive) : alive \in BOOLEAN}) PROVE Held
  BY InvIs, OddLinesGood, <1>70, CallKeeps DEF AllGood, Adverse
<1>71. ASSUME ~Inner /\ Adverse(UNION {verticalLine(heap, p) : p \in Intervals}) PROVE Held
  BY InvIs, OddLinesGood, IntervalAssumption, <1>71, CallKeeps DEF AllGood,
     Adverse
<1>72. ASSUME NewTarget PROVE Held BY <1>72, NewTargetKeeps
<1> QED
  BY <1>1, <1>2, <1>3, <1>4, <1>5, <1>6, <1>7, <1>8, <1>9, <1>10, <1>11, <1>12,
     <1>13, <1>14, <1>15, <1>16, <1>17, <1>18, <1>19, <1>20, <1>21, <1>22, <1>23,
     <1>24, <1>25, <1>26, <1>27, <1>28, <1>29, <1>30, <1>31, <1>32, <1>33, <1>34,
     <1>35, <1>36, <1>37, <1>38, <1>39, <1>40, <1>41, <1>42, <1>43, <1>44, <1>45,
     <1>46, <1>47, <1>48, <1>49, <1>50, <1>51, <1>52, <1>53, <1>54, <1>55, <1>56,
     <1>57, <1>58, <1>59, <1>60, <1>61, <1>62, <1>63, <1>64, <1>65, <1>66, <1>67,
     <1>68, <1>69, <1>70, <1>71, <1>72 DEF Next

---------------------------------------
(* The first state has the invariant. *)
LEMMA InitInv ==
  ASSUME Init
  PROVE  EvaluationInv
<1>1. PICK c \in Scenarios : /\ heap = <<Fetched(1, From, 1, Until - From, Until), Fetched(2, c.start, c.step, c.n, c.stop)>>
                             /\ extrapolate = c.extrapolate
                             /\ left = c.calls
  BY DEF Init
<1>2. /\ values = <<<<1>>, <<2>>, <<1, 2>>>> /\ cur = Own(<<>>) /\ spoilt = {}
      /\ outcome = "ok" /\ regular = FALSE
  BY DEF Init
<1>3. c.start \in Int /\ c.step \in Int /\ c.stop \in Int /\ c.n \in Int /\ c.extrapolate \in BOOLEAN /\ c.calls \in Nat
  BY EvaluationAssumption
<1>4. Fetched(1, From, 1, Until - From, Until) \in Metric
  BY IntervalAssumption DEF Fetched, Metric
<1>5. Fetched(2, c.start, c.step, c.n, c.stop) \in Metric
  BY <1>3 DEF Fetched, Metric
<1>6. heap \in Heaps /\ Len(heap) = 2 BY <1>1, <1>4, <1>5 DEF Heaps
<1>7. values \in [1..3 -> Seq(1..Len(heap))]
  <2>1. 1..Len(heap) = {1, 2} BY <1>6
  <2>2. <<1>> \in Seq({1, 2}) /\ <<2>> \in Seq({1, 2}) /\ <<1, 2>> \in Seq({1, 2})
    OBVIOUS
  <2>3. DOMAIN values = 1..3 /\ values = [k \in 1..3 |-> values[k]] BY <1>2
  <2>4. \A k \in 1..3 : values[k] \in Seq({1, 2}) BY <1>2, <2>2
  <2> QED BY <2>1, <2>3, <2>4
<1>8. cur \in Slices /\ cur.key = 0 /\ cur.s = <<>> BY <1>2 DEF Own, Slices
<1>9. cur.s \in Seq(1..Len(heap)) /\ Linked(cur) BY <1>8 DEF Linked
<1>10. Typed BY <1>1, <1>3, <1>6, <1>7, <1>8, <1>9 DEF Typed, Sources
<1> QED
  BY <1>1, <1>2, <1>3, <1>10 DEF EvaluationInv, Spoilt, Ended, RegularIsServed,
     RegularFits

(* Every step keeps it, and the lists. *)
LEMMA EvaluationStep ==
  ASSUME EvaluationInv, [Next]_vars
  PROVE  Held
<1>1. CASE Next BY <1>1, StepKeeps
<1>2. CASE UNCHANGED vars
  <2>1. /\ heap' = heap /\ values' = values /\ cur' = cur /\ left' = left /\ extrapolate' = extrapolate
        /\ spoilt' = spoilt /\ outcome' = outcome /\ regular' = regular
    BY <1>2 DEF vars
  <2>2. Typed' BY <2>1 DEF EvaluationInv, Typed, Linked
  <2>3. Spoilt' /\ Ended' BY <2>1 DEF EvaluationInv, Spoilt, Ended
  <2>4. RegularIsServed' /\ RegularFits'
    BY <2>1 DEF EvaluationInv, RegularIsServed, RegularFits, Fits
  <2>5. Stay BY <2>1 DEF Stay
  <2> QED BY <2>2, <2>3, <2>4, <2>5 DEF EvaluationInv, Held
<1> QED BY <1>1, <1>2

(* Whatever is fetched and called, in any order: pointers stay inside the  *)
(* heap, a slice is a prefix of its list, only tails of fetched series are *)
(* written, and regular arguments are served with series that fit.         *)
THEOREM EvaluationInvariant == Spec => []EvaluationInv
<1>1. EvaluationInv /\ [Next]_vars => EvaluationInv' BY EvaluationStep DEF Held
<1> QED BY <1>1, InitInv, PTL DEF Spec

(* A list of the map keeps the series fetched for it, whatever is sorted   *)
(* in place (heatMap, the functions of two lists) or appended to it (join, *)
(* asPercent, weightedAverage), unless a call was handed a part of a list. *)
THEOREM FetchedListsKept == Spec => ListsKept
<1>1. EvaluationInv /\ [Next]_vars =>
        [(cur.key = 0 \/ Len(cur.s) = cur.cap) =>
           \A k \in DOMAIN values : ToSet(values[k]) \cap Sources \subseteq ToSet(values'[k])]_vars
  BY EvaluationStep DEF Held, Stay, Entire
<1> QED BY <1>1, EvaluationInvariant, PTL DEF Spec, ListsKept

(* No sequence of calls assigns the points or the tags of a fetched series *)
(* (expr/functions write into copies), which other targets share.          *)
THEOREM FetchedNotAssigned == Spec => []SourcesNotAssigned
<1>1. EvaluationInv => SourcesNotAssigned
  BY DEF EvaluationInv, Spoilt, SourcesNotAssigned
<1> QED BY <1>1, EvaluationInvariant, PTL

(* Lists on one grid inside the request, a point for each series, and a    *)
(* number in range make no function index, divide, allocate or loop beyond *)
(* what it has, however its arguments were computed.                       *)
THEOREM RegularServed == Spec => []RegularIsServed
<1>1. EvaluationInv => RegularIsServed BY DEF EvaluationInv
<1> QED BY <1>1, EvaluationInvariant, PTL

(* ... and what it returns has its last point before its stop, as the      *)
(* renderers of types.MarshalJSON and the others take it to.               *)
THEOREM RegularFitting == Spec => []RegularFits
<1>1. EvaluationInv => RegularFits BY DEF EvaluationInv
<1> QED BY <1>1, EvaluationInvariant, PTL

(* helper.ScaleSeries leaves any list a call may be given with one start,  *)
(* step, length and stop, whatever was done to its series before.          *)
THEOREM ScaledAlike == Spec => []ScaledToOneGrid
<1>1. ASSUME EvaluationInv PROVE ScaledToOneGrid
  <2> SUFFICES ASSUME NEW a \in Known \cup Args, ~AlignPanics(heap, a.s, extrapolate)
               PROVE  OneGrid(ScaleSeries(heap, a.s, extrapolate), a.s)
    BY DEF ScaledToOneGrid
  <2>1. a.s # <<>> BY DEF AlignPanics
  <2>2. List(heap, a.s) /\ extrapolate \in BOOLEAN BY <1>1, InvIs, ArgIs, GivenIs
  <2> DEFINE k == ScaleSeries(heap, a.s, extrapolate)
  <2>3. Flat(k, a.s) /\ List(k, a.s) BY <2>1, <2>2, ScaleIs
  <2> HIDE DEF k
  <2>4. \A i \in DOMAIN a.s : Grid(k[a.s[i]]) = Grid(k[a.s[1]])
    BY <2>1, <2>2, SeqOver, <2>3 DEF List, Flat, Grid, Alike
  <2> QED BY <2>4 DEF OneGrid, k
<1> QED BY <1>1, EvaluationInvariant, PTL
==============================================================================
