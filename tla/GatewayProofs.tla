---------------------------- MODULE GatewayProofs ----------------------------
(* Proofs about Render and Browse for any clients, any configuration and   *)
(* any backends.                                                           *)
EXTENDS Gateway, FiniteSetTheorems, WellFoundedInduction, TLAPS

(* The handlers share no state: a behaviour of the gateway is one of each. *)
THEOREM GatewayIsBoth == GatewaySpec => Spec /\ BrowseSpec
  <1>1. GatewayInit => Init /\ BrowseInit
    BY DEF GatewayInit
  <1>2. [GatewayNext]_<<vars, browseVars>> => [Next]_vars /\ [BrowseNext]_browseVars
    BY DEF GatewayNext
  <1> QED
    BY <1>1, <1>2, PTL DEF GatewaySpec, Spec, BrowseSpec

-----------------------------------------------------------------------------
(* Induction and folds.  Numbers: a set of numbers has a least one. *)
LEMMA LeastNumber ==
  ASSUME NEW T, T \subseteq Nat, T # {}
  PROVE  \E x \in T : \A y \in T : x <= y
  <1>1. PICK x \in T : \A y \in T : ~(<<y, x>> \in OpToRel(<, Nat))
    BY NatLessThanWellFounded, WFMin
  <1>2. ASSUME NEW y \in T, y < x PROVE <<y, x>> \in OpToRel(<, Nat)
    BY <1>2 DEF OpToRel
  <1>3. \A y \in T : ~(y < x)
    BY <1>1, <1>2, Zenon
  <1> QED
    BY <1>3

(* Induction over numbers, for a set. *)
LEMMA NatInd ==
  ASSUME NEW T, 0 \in T, \A n \in Nat : n \in T => n + 1 \in T
  PROVE  Nat \subseteq T
  <1> DEFINE B == {n \in Nat : n \notin T}
  <1> SUFFICES ASSUME B # {} PROVE FALSE
    OBVIOUS
  <1>2. PICK x \in B : \A y \in B : x <= y
    <2> HIDE DEF B
    <2>1. B \subseteq Nat
      BY DEF B
    <2> QED
      BY <2>1, LeastNumber
  <1>3. x # 0 /\ x - 1 \in Nat
    OBVIOUS
  <1>4. x - 1 \in T
    BY <1>2, <1>3
  <1> QED
    BY <1>3, <1>4

(* The order of the integers, for terms that are not variables. *)
LEMMA AtMost ==
  ASSUME NEW x \in Int, NEW y \in Int, NEW z \in Int, x <= y, y <= z
  PROVE  x <= z
  OBVIOUS

(* The greatest and the least index of a set of indices. *)
LEMMA MaxMin ==
  ASSUME NEW n \in Nat, NEW s \in SUBSET (1..n), s # {}
  PROVE  /\ Max(s) \in s /\ \A x \in s : x <= Max(s)
         /\ Min(s) \in s /\ \A x \in s : Min(s) <= x
  <1>a. s \subseteq Nat
    OBVIOUS
  <1>1. \E x \in s : \A y \in s : x <= y
    BY <1>a, LeastNumber
  <1>2. \E x \in s : \A y \in s : y <= x
    <2> DEFINE U == {m \in Nat : \A x \in s : x <= m}
    <2>1. n \in U /\ U \subseteq Nat
      OBVIOUS
    <2>2. PICK m \in U : \A y \in U : m <= y
      <3> HIDE DEF U
      <3> QED
        BY <2>1, LeastNumber
    <2>3. m # 0 /\ m \in Nat
      <3>1. PICK x \in s : TRUE
        OBVIOUS
      <3> QED
        BY <3>1
    <2>4. m - 1 \notin U
      BY <2>2, <2>3
    <2> QED
      BY <2>3, <2>4
  <1> QED
    BY <1>1, <1>2 DEF Max, Min

(* The least of a set of statuses. *)
LEMMA MinCode ==
  ASSUME NEW s, s \in SUBSET (1..503), s # {}
  PROVE  Min(s) \in s
  <1> DEFINE n == 503
  <1>1. n \in Nat /\ s \in SUBSET (1..n)
    OBVIOUS
  <1> HIDE DEF n
  <1> QED
    BY <1>1, MaxMin

(* A fold over the indices 1..n: f is the function MapThenFoldSet recurses *)
(* with, G the operation as a function, M the choice of the next index. *)
IsFold(f, n, base, G, M) ==
  f = [s \in SUBSET (1..n) |-> IF s = {} THEN base ELSE G[<<f[s \ {M[s]}], M[s]>>]]

(* There is such a function, so that the recursion defines one. *)
LEMMA FoldExists ==
  ASSUME NEW n \in Nat, NEW P, NEW base \in P, NEW G \in [P \X (1..n) -> P],
         NEW M, \A s \in SUBSET (1..n) : s # {} => M[s] \in s
  PROVE  \E f \in [SUBSET (1..n) -> P] : IsFold(f, n, base, G, M)
  <1> DEFINE D(k) == {s \in SUBSET (1..n) : Cardinality(s) <= k}
             After(f, s) == IF s = {} THEN base ELSE G[<<f[s \ {M[s]}], M[s]>>]
             T == {k \in Nat : \E f \in [D(k) -> P] : \A s \in D(k) : f[s] = After(f, s)}
  <1>a. ASSUME NEW s \in SUBSET (1..n)
        PROVE  IsFiniteSet(s) /\ Cardinality(s) \in Nat /\ Cardinality(s) <= n
    <2> DEFINE I == 1..n
    <2>1. IsFiniteSet(I) /\ Cardinality(I) = n /\ s \in SUBSET I
      BY FS_Interval
    <2> HIDE DEF I
    <2>2. IsFiniteSet(s) /\ Cardinality(s) <= n
      BY <2>1, FS_Subset
    <2> QED
      BY <2>2, FS_CardinalityType
  <1>b. ASSUME NEW s \in SUBSET (1..n), s # {}
        PROVE  M[s] \in 1..n /\ Cardinality(s \ {M[s]}) = Cardinality(s) - 1 /\ s \ {M[s]} \in SUBSET (1..n)
    BY <1>a, <1>b, FS_RemoveElement
  <1>1. 0 \in T
    <2> DEFINE f == [s \in D(0) |-> base]
    <2>1. ASSUME NEW s \in D(0) PROVE s = {}
      BY <1>a, FS_EmptySet
    <2>2. f \in [D(0) -> P] /\ \A s \in D(0) : f[s] = After(f, s)
      BY <2>1
    <2> QED
      BY <2>2
  <1>2. ASSUME NEW k \in Nat, k \in T PROVE k + 1 \in T
    <2>1. PICK g \in [D(k) -> P] : \A s \in D(k) : g[s] = After(g, s)
      BY <1>2
    <2> DEFINE f == [s \in D(k + 1) |-> IF s \in D(k) THEN g[s] ELSE After(g, s)]
    <2>2. ASSUME NEW s \in D(k + 1), s # {} PROVE s \ {M[s]} \in D(k) /\ M[s] \in 1..n
      BY <1>a, <1>b, <2>2
    <2>3. ASSUME NEW s \in D(k + 1) PROVE After(g, s) \in P
      <3>1. CASE s = {}
        BY <3>1
      <3>2. CASE s # {}
        <4>1. g[s \ {M[s]}] \in P BY <2>2, <3>2
        <4> QED
          BY <2>2, <3>2, <4>1
      <3> QED
        BY <3>1, <3>2
    <2>4. f \in [D(k + 1) -> P]
      BY <2>3
    <2>5. ASSUME NEW s \in D(k + 1) PROVE f[s] = After(f, s)
      <3>1. f[s] = After(g, s)
        BY <2>1
      <3>2. CASE s = {}
        BY <3>1, <3>2
      <3>3. CASE s # {}
        <4>1. s \ {M[s]} \in D(k) /\ s \ {M[s]} \in D(k + 1)
          BY <2>2, <3>3, <1>a
        <4>2. f[s \ {M[s]}] = g[s \ {M[s]}]
          BY <4>1
        <4> HIDE DEF f, D
        <4> QED
          BY <3>1, <3>3, <4>2
      <3> QED
        BY <3>2, <3>3
    <2> HIDE DEF After, f, D
    <2> QED
      BY <2>4, <2>5
  <1>3. n \in T
    <2> HIDE DEF T
    <2> QED
      BY <1>1, <1>2, NatInd
  <1>4. D(n) = SUBSET (1..n)
    BY <1>a
  <1>5. PICK f \in [SUBSET (1..n) -> P] : \A s \in SUBSET (1..n) : f[s] = After(f, s)
    BY <1>3, <1>4
  <1>6. f = [s \in SUBSET (1..n) |-> After(f, s)]
    BY <1>5
  <1> QED
    BY <1>5, <1>6 DEF IsFold
(* The indices a fold from the left has behind it. *)
LEMMA UpTo ==
  ASSUME NEW n \in Nat
  PROVE  /\ 1..0 = {}
         /\ \A i \in 1..n : /\ 1..i \in SUBSET (1..n) /\ 1..i # {} /\ Max(1..i) = i
                            /\ (1..i) \ {i} = 1..(i - 1) /\ i - 1 \in 0..n
  <1>1. ASSUME NEW i \in 1..n
        PROVE  1..i \in SUBSET (1..n) /\ 1..i # {} /\ (1..i) \ {i} = 1..(i - 1) /\ i - 1 \in 0..n
    <2>1. i \in 1..i /\ i \in Nat
      OBVIOUS
    <2> QED
      BY <2>1
  <1>2. ASSUME NEW i \in 1..n PROVE Max(1..i) = i
    <2>1. i \in 1..i /\ i \in Nat
      OBVIOUS
    <2>2. 1..i # {} /\ 1..i \in SUBSET (1..i)
      BY <2>1
    <2>3. Max(1..i) \in 1..i /\ \A x \in 1..i : x <= Max(1..i)
      BY <2>1, <2>2, MaxMin
    <2> QED
      BY <2>1, <2>3
  <1> QED
    BY <1>1, <1>2


(* The function FlattenSeq recurses with. *)
LEMMA FlattenFunction ==
  ASSUME NEW S, NEW ss \in Seq(Seq(S)), ss # <<>>
  PROVE  \E f \in [1..Len(ss) -> Seq(S)] :
            /\ f[1] = ss[1] /\ f[Len(ss)] = FlattenSeq(ss)
            /\ \A i \in 2..Len(ss) : f[i] = f[i-1] \o ss[i]
  <1> DEFINE n == Len(ss)
             After(f, i) == IF i = 1 THEN ss[i] ELSE f[i-1] \o ss[i]
             E(f) == f = [i \in 1..n |-> After(f, i)]
             T == {k \in Nat : k <= n => \E f \in [1..k -> Seq(S)] : \A i \in 1..k : f[i] = After(f, i)}
             iter == CHOOSE f : E(f)
  <1>1. n \in Nat /\ n > 0 /\ \A i \in 1..n : ss[i] \in Seq(S)
    OBVIOUS
  <1>2. 0 \in T
    <2> DEFINE f == [i \in 1..0 |-> <<>>]
    <2>1. f \in [1..0 -> Seq(S)] /\ \A i \in 1..0 : f[i] = After(f, i)
      OBVIOUS
    <2> QED
      BY <2>1
  <1>3. ASSUME NEW k \in Nat, k \in T PROVE k + 1 \in T
    <2> SUFFICES ASSUME k + 1 <= n PROVE \E f \in [1..(k + 1) -> Seq(S)] : \A i \in 1..(k + 1) : f[i] = After(f, i)
      OBVIOUS
    <2>1. PICK g \in [1..k -> Seq(S)] : \A i \in 1..k : g[i] = After(g, i)
      BY <1>3, <1>1
    <2> DEFINE f == [i \in 1..(k + 1) |-> IF i = k + 1 THEN After(g, i) ELSE g[i]]
    <2>2. After(g, k + 1) \in Seq(S)
      <3>1. CASE k = 0
        BY <3>1, <1>1
      <3>2. CASE k # 0
        <4>1. g[k] \in Seq(S) /\ ss[k + 1] \in Seq(S) BY <3>2, <1>1
        <4> QED
          BY <3>2, <4>1
      <3> QED
        BY <3>1, <3>2
    <2>3. f \in [1..(k + 1) -> Seq(S)]
      BY <2>2
    <2>4. ASSUME NEW i \in 1..(k + 1) PROVE f[i] = After(f, i)
      <3>1. f[i] = After(g, i)
        <4>1. CASE i = k + 1
          BY <4>1
        <4>2. CASE i # k + 1
          <5>1. i \in 1..k /\ f[i] = g[i]
            BY <4>2
          <5> QED
            BY <5>1, <2>1
        <4> QED
          BY <4>1, <4>2
      <3>2. i # 1 => i - 1 \in 1..k /\ i - 1 \in 1..(k + 1) /\ i - 1 # k + 1
        OBVIOUS
      <3>3. i # 1 => f[i - 1] = g[i - 1]
        BY <3>2
      <3> HIDE DEF f
      <3> QED
        BY <3>1, <3>3
    <2> HIDE DEF f, After
    <2> QED
      BY <2>3, <2>4
  <1>4. n \in T
    <2> HIDE DEF T
    <2> QED
      BY <1>1, <1>2, <1>3, NatInd
  <1>5. PICK f \in [1..n -> Seq(S)] : \A i \in 1..n : f[i] = After(f, i)
    BY <1>1, <1>4
  <1>6. E(f)
    <2> HIDE DEF After
    <2> QED
      BY <1>5
  <1>7. E(iter)
    <2> HIDE DEF E
    <2> QED
      BY <1>6
  <1>8. FlattenSeq(ss) = iter[n]
    BY <1>1 DEF FlattenSeq
  <1>9. iter[1] = ss[1] /\ \A i \in 2..n : iter[i] = iter[i - 1] \o ss[i]
    <2> HIDE DEF iter
    <2>1. \A i \in 1..n : iter[i] = After(iter, i)
      BY <1>7
    <2>2. 1 \in 1..n /\ \A i \in 2..n : i \in 1..n /\ i # 1
      BY <1>1
    <2> HIDE DEF n
    <2> QED
      BY <2>1, <2>2
  <1>10. ASSUME NEW k \in Nat PROVE k + 1 <= n => iter[k + 1] \in Seq(S)
    <2> DEFINE U == {j \in Nat : j + 1 <= n => iter[j + 1] \in Seq(S)}
    <2> HIDE DEF iter
    <2>1. 0 \in U
      BY <1>1, <1>9
    <2>2. ASSUME NEW j \in Nat, j \in U PROVE j + 1 \in U
      <3> SUFFICES ASSUME j + 2 <= n PROVE iter[j + 2] \in Seq(S)
        OBVIOUS
      <3>1. iter[j + 1] \in Seq(S) /\ j + 2 \in 2..n /\ j + 2 \in 1..n /\ (j + 2) - 1 = j + 1
        BY <2>2, <1>1
      <3>2. iter[j + 2] = iter[j + 1] \o ss[j + 2]
        BY <3>1, <1>9
      <3> QED
        BY <3>1, <3>2, <1>1
    <2>3. k \in U
      <3> HIDE DEF U
      <3> QED
        BY <2>1, <2>2, NatInd
    <2> QED
      BY <2>3
  <1>11. iter \in [1..n -> Seq(S)]
    <2> HIDE DEF iter
    <2>1. \A i \in 1..n : iter[i] \in Seq(S)
      <3> TAKE i \in 1..n
      <3>1. i - 1 \in Nat /\ (i - 1) + 1 = i /\ i <= n
        BY <1>1
      <3> HIDE DEF n
      <3> QED
        BY <3>1, <1>10
    <2> QED
      BY <1>7, <2>1
  <1> HIDE DEF iter
  <1> QED
    BY <1>8, <1>9, <1>11

(* The elements of two sequences together. *)
LEMMA ConcatElements ==
  ASSUME NEW S, NEW a \in Seq(S), NEW b \in Seq(S)
  PROVE  Range(a \o b) = Range(a) \cup Range(b)
  <1>1. DOMAIN (a \o b) = 1..(Len(a) + Len(b)) /\ DOMAIN a = 1..Len(a) /\ DOMAIN b = 1..Len(b)
        /\ Len(a) \in Nat /\ Len(b) \in Nat
    OBVIOUS
  <1>2. ASSUME NEW i \in DOMAIN a PROVE i \in DOMAIN (a \o b) /\ (a \o b)[i] = a[i]
    BY <1>1
  <1>3. ASSUME NEW i \in DOMAIN b PROVE Len(a) + i \in DOMAIN (a \o b) /\ (a \o b)[Len(a) + i] = b[i]
    BY <1>1
  <1>4. ASSUME NEW i \in DOMAIN (a \o b)
        PROVE  (a \o b)[i] \in Range(a) \cup Range(b)
    <2>1. CASE i \in DOMAIN a
      BY <1>2, <2>1 DEF Range
    <2>2. CASE i \notin DOMAIN a
      <3>1. i - Len(a) \in DOMAIN b /\ i = Len(a) + (i - Len(a))
        BY <1>1, <2>2
      <3>2. (a \o b)[i] = b[i - Len(a)]
        BY <1>3, <3>1
      <3> QED
        BY <3>1, <3>2 DEF Range
    <2> QED
      BY <2>1, <2>2
  <1>5. Range(a \o b) \subseteq Range(a) \cup Range(b)
    BY <1>4, Zenon DEF Range
  <1>6. Range(a) \subseteq Range(a \o b)
    BY <1>2, Zenon DEF Range
  <1>7. Range(b) \subseteq Range(a \o b)
    BY <1>3, Zenon DEF Range
  <1> QED
    BY <1>5, <1>6, <1>7

(* What FlattenSeq puts together.                                          *)
LEMMA FlattenElements ==
  ASSUME NEW S, NEW ss \in Seq(Seq(S))
  PROVE  /\ FlattenSeq(ss) \in Seq(S)
         /\ \A i \in DOMAIN ss : Range(ss[i]) \subseteq Range(FlattenSeq(ss))
  <1>1. CASE ss = <<>>
    BY <1>1 DEF FlattenSeq
  <1>2. CASE ss # <<>>
    <2>1. PICK f \in [1..Len(ss) -> Seq(S)] :
            /\ f[1] = ss[1] /\ f[Len(ss)] = FlattenSeq(ss)
            /\ \A i \in 2..Len(ss) : f[i] = f[i-1] \o ss[i]
      BY <1>2, FlattenFunction
    <2> DEFINE n == Len(ss)
    <2>2. n \in Nat /\ n > 0 /\ DOMAIN ss = 1..n /\ \A i \in 1..n : ss[i] \in Seq(S)
      BY <1>2
    <2>a. /\ f \in [1..n -> Seq(S)] /\ f[1] = ss[1] /\ f[n] = FlattenSeq(ss)
          /\ \A i \in 2..n : f[i] = f[i-1] \o ss[i]
      BY <2>1
    <2> HIDE DEF n
    <2>3. ASSUME NEW i \in 1..n PROVE Range(ss[i]) \subseteq Range(FlattenSeq(ss))
      <3> DEFINE U == {k \in Nat : i + k <= n => Range(ss[i]) \subseteq Range(f[i + k])}
      <3>0. ASSUME NEW k \in 2..n
            PROVE  /\ k - 1 \in 1..n
                   /\ Range(f[k]) = Range(f[k - 1]) \cup Range(ss[k])
        <4>1. k - 1 \in 1..n /\ k \in 1..n
          BY <2>2
        <4>2. f[k - 1] \in Seq(S) /\ ss[k] \in Seq(S) /\ f[k] = f[k - 1] \o ss[k]
          BY <4>1, <2>a, <2>2
        <4> QED
          BY <4>1, <4>2, ConcatElements
      <3>1. 0 \in U
        <4>1. CASE i = 1
          BY <4>1, <2>a
        <4>2. CASE i # 1
          <5>1. i \in 2..n /\ i + 0 = i
            BY <4>2, <2>2
          <5> QED
            BY <5>1, <3>0
        <4> QED
          BY <4>1, <4>2
      <3>2. ASSUME NEW k \in Nat, k \in U PROVE k + 1 \in U
        <4> SUFFICES ASSUME i + (k + 1) <= n PROVE Range(ss[i]) \subseteq Range(f[i + (k + 1)])
          OBVIOUS
        <4>1. i + (k + 1) \in 2..n /\ (i + (k + 1)) - 1 = i + k /\ i + k <= n
          BY <2>2
        <4>2. Range(ss[i]) \subseteq Range(f[i + k])
          BY <3>2, <4>1
        <4>3. Range(f[i + (k + 1)]) = Range(f[i + k]) \cup Range(ss[i + (k + 1)])
          BY <4>1, <3>0
        <4> QED
          BY <4>2, <4>3
      <3>3. n - i \in U
        <4>1. n - i \in Nat
          BY <2>2
        <4> HIDE DEF U
        <4> QED
          BY <3>1, <3>2, <4>1, NatInd
      <3>4. i + (n - i) = n
        BY <2>2
      <3> QED
        BY <3>3, <3>4, <2>a, <2>2
    <2>4. FlattenSeq(ss) \in Seq(S)
      BY <2>2, <2>a
    <2> QED
      BY <2>2, <2>3, <2>4
  <1> QED
    BY <1>1, <1>2

(* Finite unions of finite sets.                                           *)
LEMMA FiniteUnion ==
  ASSUME NEW S, IsFiniteSet(S), NEW F, \A x \in S : IsFiniteSet(F[x])
  PROVE  IsFiniteSet(UNION {F[x] : x \in S})
  <1> DEFINE n == Cardinality(S)
  <1>1. n \in Nat
    BY FS_CardinalityType
  <1>2. PICK e \in [1..n -> S] : \A x \in S : \E i \in 1..n : e[i] = x
    <2> HIDE DEF n
    <2> QED
      BY FS_CardinalityType DEF n, ExistsBijection, Bijection, Surjection
  <1> DEFINE First(k) == UNION {F[e[i]] : i \in 1..k}
             T == {k \in Nat : k <= n => IsFiniteSet(First(k))}
  <1>3. 0 \in T
    <2>1. UNION {F[e[i]] : i \in 1..0} = {}
      OBVIOUS
    <2> QED
      BY <2>1, FS_EmptySet
  <1>4. ASSUME NEW k \in Nat, k \in T PROVE k + 1 \in T
    <2>1. ASSUME k + 1 <= n PROVE IsFiniteSet(First(k + 1))
      <3>1. IsFiniteSet(First(k)) /\ IsFiniteSet(F[e[k + 1]])
        BY <1>1, <1>2, <1>4, <2>1
      <3>2. 1..(k + 1) = 1..k \cup {k + 1}
        OBVIOUS
      <3>3. First(k + 1) = First(k) \cup F[e[k + 1]]
        BY <3>2, Zenon
      <3> HIDE DEF First
      <3>4. IsFiniteSet(First(k) \cup F[e[k + 1]])
        BY <3>1, FS_Union, Zenon
      <3> QED
        BY <3>3, <3>4, Zenon
    <2> HIDE DEF First
    <2> QED
      BY <2>1
  <1>5. n \in T
    <2> HIDE DEF T
    <2> QED
      BY <1>1, <1>3, <1>4, NatInd
  <1>6. UNION {F[e[i]] : i \in 1..n} = UNION {F[x] : x \in S}
    BY <1>2, Zenon
  <1>7. IsFiniteSet(UNION {F[e[i]] : i \in 1..n})
    <2> HIDE DEF n
    <2> QED
      BY <1>1, <1>5
  <1> QED
    BY <1>6, <1>7

(* The image of a finite set. *)
LEMMA FiniteImage ==
  ASSUME NEW S, IsFiniteSet(S), NEW F
  PROVE  IsFiniteSet({F[x] : x \in S})
  <1> DEFINE f == [x \in S |-> F[x]]
             T == {F[x] : x \in S}
  <1>1. f \in Surjection(S, T)
    BY DEF Surjection
  <1> HIDE DEF f, T
  <1> QED
    BY <1>1, FS_Surjection DEF T

(* A finite set as a sequence.                                             *)
LEMMA SetToSeqElements ==
  ASSUME NEW S, IsFiniteSet(S)
  PROVE  SetToSeq(S) \in Seq(S) /\ Range(SetToSeq(S)) = S
  <1> DEFINE n == Cardinality(S)
             Enum == {f \in [1..n -> S] : IsInjective(f)}
  <1>1. n \in Nat /\ IsFiniteSet(1..n) /\ Cardinality(1..n) = n
    BY FS_CardinalityType, FS_Interval
  <1>2. \E f \in [1..n -> S] : IsInjective(f)
    BY FS_CardinalityType DEF ExistsBijection, Bijection, Injection, IsInjective
  <1>3. SetToSeq(S) \in [1..n -> S] /\ IsInjective(SetToSeq(S))
    BY <1>2 DEF SetToSeq
  <1>4. SetToSeq(S) \in Injection(1..n, S)
    BY <1>3 DEF Injection, IsInjective
  <1>5. SetToSeq(S) \in Surjection(1..n, S)
    BY <1>1, <1>4, FS_Injection
  <1> QED
    BY <1>1, <1>3, <1>5 DEF Surjection, Range

-----------------------------------------------------------------------------
(* The limiter.                                                            *)
Fetching == {c \in Clients : rq[c].pc = "fetch"}

HandlersOK == DOMAIN rq = Clients /\ \A c \in Clients : "pc" \in DOMAIN rq[c]

(* A slot that is not free belongs to a Fetch. *)
SlotsRight ==
  /\ HandlersOK
  /\ conf \in Scenarios
  /\ slots \in Nat
  /\ slots + Cardinality(Fetching) = conf.slots

(* A step of one handler outside of its Fetch leaves the limiter alone. *)
LEMMA OutsideFetch ==
  ASSUME SlotsRight, NEW c \in Clients, NEW r,
         rq' = [rq EXCEPT ![c] = r], "pc" \in DOMAIN r,
         rq[c].pc # "fetch", r.pc # "fetch",
         slots' = slots, conf' = conf
  PROVE  SlotsRight'
  <1>1. HandlersOK'
    BY DEF SlotsRight, HandlersOK
  <1>2. Fetching' = Fetching
    BY DEF Fetching, SlotsRight, HandlersOK
  <1> QED
    BY <1>1, <1>2 DEF SlotsRight

LEMMA EnterSlot ==
  ASSUME SlotsRight, NEW c \in Clients, Enter(c)
  PROVE  SlotsRight'
  <1>1. rq[c].pc = "next" /\ slots > 0 /\ slots' = slots - 1 /\ conf' = conf
    BY DEF Enter, HasJob
  <1>2. PICK job, stack : rq' = [rq EXCEPT ![c].pc = "fetch", ![c].job = job, ![c].stack = stack]
    BY DEF Enter
  <1>3. HandlersOK' /\ rq'[c].pc = "fetch" /\ \A d \in Clients \ {c} : rq'[d] = rq[d]
    BY <1>2 DEF SlotsRight, HandlersOK
  <1>4. Fetching' = Fetching \cup {c} /\ c \notin Fetching
    BY <1>1, <1>3 DEF Fetching
  <1>5. IsFiniteSet(Fetching)
    BY RenderAssumption, FS_Subset DEF Fetching
  <1>6. Cardinality(Fetching') = Cardinality(Fetching) + 1 /\ Cardinality(Fetching) \in Nat
    BY <1>4, <1>5, FS_AddElement, FS_CardinalityType
  <1> QED
    BY <1>1, <1>3, <1>6, RenderAssumption DEF SlotsRight

(* The handler after an error. *)
LEMMA FailsPc ==
  ASSUME NEW r, NEW job, NEW code, NEW stack, "pc" \in DOMAIN r
  PROVE  /\ DOMAIN Fails(r, job, code, stack) = DOMAIN r /\ Fails(r, job, code, stack).pc = "next"
         /\ DOMAIN FetchFails(r, job, code, stack) = DOMAIN r
         /\ FetchFails(r, job, code, stack).pc = "next"
  <1>1. DOMAIN Fails(r, job, code, stack) = DOMAIN r /\ Fails(r, job, code, stack).pc = "next"
    BY DEF Fails
  <1> QED
    BY <1>1 DEF FetchFails

LEMMA FetchSlot ==
  ASSUME SlotsRight, NEW c \in Clients, Fetch(c)
  PROVE  SlotsRight'
  <1>1. rq[c].pc = "fetch" /\ slots' = slots + 1 /\ conf' = conf
    BY DEF Fetch, FetchStep
  <1>2. PICK r : rq' = [rq EXCEPT ![c] = r] /\ "pc" \in DOMAIN r /\ r.pc # "fetch"
    <2> DEFINE job == rq[c].job[1]
    <2>1. PICK lost, code, stack :
            \/ rq' = [rq EXCEPT ![c] = FetchFails([rq[c] EXCEPT !.results.lost = lost], job, code, rq[c].stack)]
            \/ rq' = [rq EXCEPT ![c] = [rq[c] EXCEPT !.pc = "eval", !.results.lost = lost, !.stack = stack]]
      BY Zenon DEF Fetch, FetchStep
    <2>2. "pc" \in DOMAIN rq[c] /\ "pc" \in DOMAIN [rq[c] EXCEPT !.results.lost = lost]
      BY DEF SlotsRight, HandlersOK
    <2>3. CASE rq' = [rq EXCEPT ![c] = FetchFails([rq[c] EXCEPT !.results.lost = lost], job, code, rq[c].stack)]
      BY <2>2, <2>3, FailsPc
    <2>4. CASE rq' = [rq EXCEPT ![c] = [rq[c] EXCEPT !.pc = "eval", !.results.lost = lost, !.stack = stack]]
      <3> DEFINE r == [rq[c] EXCEPT !.pc = "eval", !.results.lost = lost, !.stack = stack]
      <3>1. "pc" \in DOMAIN r /\ r.pc # "fetch"
        BY <2>2
      <3> QED
        BY <2>4, <3>1
    <2> QED
      BY <2>1, <2>3, <2>4
  <1>3. HandlersOK' /\ rq'[c].pc # "fetch" /\ \A d \in Clients \ {c} : rq'[d] = rq[d]
    BY <1>2 DEF SlotsRight, HandlersOK
  <1>4. Fetching' = Fetching \ {c} /\ c \in Fetching
    BY <1>1, <1>3 DEF Fetching
  <1>5. IsFiniteSet(Fetching)
    BY RenderAssumption, FS_Subset DEF Fetching
  <1>6. Cardinality(Fetching') = Cardinality(Fetching) - 1 /\ Cardinality(Fetching) \in Nat
    BY <1>4, <1>5, FS_RemoveElement, FS_CardinalityType
  <1> QED
    BY <1>1, <1>3, <1>6, RenderAssumption DEF SlotsRight

LEMMA EvalPc ==
  ASSUME NEW r, NEW job, NEW frame, "pc" \in DOMAIN r
  PROVE  DOMAIN EvalJob(r, job, frame) = DOMAIN r /\ EvalJob(r, job, frame).pc = "next"
  <1> DEFINE Done(stack, found) ==
        [r EXCEPT !.pc = "next", !.job = <<>>, !.stack = stack, !.results.found = found]
  <1>1. PICK stack, found :
          \/ EvalJob(r, job, frame) = Done(stack, found)
          \/ EvalJob(r, job, frame) = [Done(stack, found) EXCEPT !.codes = @ \cup {400}]
          \/ EvalJob(r, job, frame) = Fails(r, job, 400, r.stack)
    BY Zenon DEF EvalJob
  <1> DEFINE done == Done(stack, found)
  <1>2. DOMAIN done = DOMAIN r /\ done.pc = "next"
    OBVIOUS
  <1>4. \/ EvalJob(r, job, frame) = done
        \/ EvalJob(r, job, frame) = [done EXCEPT !.codes = @ \cup {400}]
        \/ EvalJob(r, job, frame) = Fails(r, job, 400, r.stack)
    BY <1>1
  <1> HIDE DEF done
  <1>3. DOMAIN [done EXCEPT !.codes = @ \cup {400}] = DOMAIN r /\ [done EXCEPT !.codes = @ \cup {400}].pc = "next"
    BY <1>2
  <1> QED
    BY <1>2, <1>3, <1>4, FailsPc

(* The steps of a handler that leave the limiter alone. *)
LEMMA OtherSteps ==
  ASSUME SlotsRight, NEW c \in Clients,
         (\E req \in conf.requests : Send(c, req)) \/ Reject(c) \/ AnswerCached(c)
           \/ EmptyRange(c) \/ Admit(c) \/ LookupHit(c) \/ LookupMiss(c) \/ ParseError(c)
           \/ GiveUp(c) \/ Eval(c) \/ EvalPanics(c) \/ StoreResults(c) \/ Respond(c)
  PROVE  SlotsRight'
  <1> "pc" \in DOMAIN rq[c]
    BY DEF SlotsRight, HandlersOK
  <1> SUFFICES /\ slots' = slots /\ conf' = conf /\ rq[c].pc # "fetch"
               /\ \E r : rq' = [rq EXCEPT ![c] = r] /\ "pc" \in DOMAIN r /\ r.pc # "fetch"
    BY OutsideFetch
  <1>a. "pc" \in DOMAIN Idle /\ Idle.pc # "fetch"
    BY DEF Idle
  <1>1. CASE \E req \in conf.requests : Send(c, req)
    <2>1. PICK req : Send(c, req)
      BY <1>1
    <2> DEFINE r == [pc |-> "parse", req |-> req, since |-> now]
    <2>2. rq' = [rq EXCEPT ![c] = r] /\ "pc" \in DOMAIN r /\ r.pc # "fetch"
      BY <2>1 DEF Send
    <2> QED
      BY <2>1, <2>2, <1>a DEF Send
  <1>2. CASE Reject(c)
    BY <1>2, <1>a DEF Reject, Reply
  <1>3. CASE AnswerCached(c)
    BY <1>3, <1>a DEF AnswerCached, Reply, Admissible
  <1>4. CASE EmptyRange(c)
    BY <1>4, <1>a DEF EmptyRange, Reply, NotCached, Admissible
  <1>5. CASE Admit(c)
    <2>1. PICK a1, a2, a3, a4, a5, a6, a7, a8, a9, a10 :
            rq' = [rq EXCEPT ![c] =
               [pc |-> "lookup", req |-> a1, since |-> a2, span |-> a3,
                respKey |-> a4, backKey |-> a5, respTimeout |-> a6,
                backTimeout |-> a7, results |-> a8, codes |-> {},
                stack |-> a9, job |-> a10, fresh |-> TRUE]]
      BY <1>5, Zenon DEF Admit
    <2> QED
      BY <1>5, <2>1 DEF Admit, NotCached, Admissible
  <1>6. CASE LookupHit(c)
    <2>1. PICK results : rq' = [rq EXCEPT ![c] = [@ EXCEPT !.pc = "reply", !.results = results, !.fresh = FALSE]]
      BY <1>6 DEF LookupHit
    <2> QED
      BY <1>6, <2>1 DEF LookupHit
  <1>7. CASE LookupMiss(c)
    <2> DEFINE r == [rq[c] EXCEPT !.pc = "next"]
    <2>1. rq' = [rq EXCEPT ![c] = r] /\ "pc" \in DOMAIN r /\ r.pc # "fetch"
      BY <1>7 DEF LookupMiss
    <2> QED
      BY <1>7, <2>1 DEF LookupMiss
  <1>8. CASE ParseError(c)
    BY <1>8, <1>a DEF ParseError, Reply, HasJob
  <1>9. CASE GiveUp(c)
    <2>1. "pc" \in DOMAIN [rq[c] EXCEPT !.results.lost = TRUE]
      OBVIOUS
    <2>2. PICK r : rq' = [rq EXCEPT ![c] = r]
                     /\ r = FetchFails([rq[c] EXCEPT !.results.lost = TRUE], NextJob(c), 500, TakeJob(c))
      BY <1>9 DEF GiveUp
    <2>3. "pc" \in DOMAIN r /\ r.pc # "fetch"
      BY <2>1, <2>2, FailsPc
    <2> QED
      BY <1>9, <2>2, <2>3 DEF GiveUp, HasJob
  <1>10. CASE Eval(c)
    <2>1. PICK r : rq' = [rq EXCEPT ![c] = r] /\ r = EvalJob(rq[c], rq[c].job[1], Top(c))
      BY <1>10 DEF Eval
    <2>2. "pc" \in DOMAIN r /\ r.pc # "fetch"
      BY <2>1, EvalPc
    <2> QED
      BY <1>10, <2>1, <2>2 DEF Eval
  <1>11. CASE EvalPanics(c)
    BY <1>11, <1>a DEF EvalPanics, Reply
  <1>12. CASE StoreResults(c)
    <2> DEFINE r == [rq[c] EXCEPT !.pc = "reply"]
    <2>1. rq' = [rq EXCEPT ![c] = r] /\ "pc" \in DOMAIN r /\ r.pc # "fetch"
      BY <1>12 DEF StoreResults
    <2> QED
      BY <1>12, <2>1 DEF StoreResults
  <1>13. CASE Respond(c)
    <2>1. rq' = [rq EXCEPT ![c] = Idle] /\ rq[c].pc # "fetch" /\ slots' = slots /\ conf' = conf
      BY <1>13, Zenon DEF Respond, Reply
    <2> QED
      BY <2>1, <1>a
  <1> QED
    BY <1>1, <1>2, <1>3, <1>4, <1>5, <1>6, <1>7, <1>8, <1>9, <1>10, <1>11, <1>12, <1>13

LEMMA SlotsInvariant == Spec => []SlotsRight
  <1>1. Init => SlotsRight
    <2> SUFFICES ASSUME Init PROVE SlotsRight
      OBVIOUS
    <2>1. HandlersOK /\ Fetching = {} /\ conf \in Scenarios /\ slots = conf.slots
      BY DEF Init, HandlersOK, Fetching, Idle
    <2> QED
      BY <2>1, FS_EmptySet, RenderAssumption DEF SlotsRight
  <1>2. SlotsRight /\ [Next]_vars => SlotsRight'
    <2> SUFFICES ASSUME SlotsRight, [Next]_vars PROVE SlotsRight'
      OBVIOUS
    <2>1. ASSUME UNCHANGED <<rq, conf, slots>> PROVE SlotsRight'
      BY <2>1 DEF SlotsRight, HandlersOK, Fetching
    <2>2. CASE Tick \/ (\E w \in writes : Land(w)) \/ UNCHANGED vars
      BY <2>1, <2>2 DEF Tick, Land, vars
    <2>3. ASSUME NEW c \in Clients,
                 (\E req \in conf.requests : Send(c, req)) \/ Handle(c) \/ Enter(c) \/ GiveUp(c)
          PROVE  SlotsRight'
      BY <2>3, OtherSteps, EnterSlot, FetchSlot DEF Handle
    <2> QED
      BY <2>2, <2>3 DEF Next
  <1> QED
    BY <1>1, <1>2, PTL DEF Spec

(* Open requests never all wait for a slot of the limiter (SimpleLimiter,  *)
(* Evaluator.Fetch), unless it has none: one that has a slot is in its     *)
(* Fetch, from which it goes on without another. *)
THEOREM LimiterNeverStuck == Spec => [](conf.slots > 0 => SomeoneMoves)
  <1>1. SlotsRight => (conf.slots > 0 => SomeoneMoves)
    <2> SUFFICES ASSUME SlotsRight, conf.slots > 0, slots = 0
                 PROVE  \E c \in Clients : rq[c] # Idle /\ ~Waits(c)
      BY DEF SomeoneMoves, Waits
    <2>1. Fetching # {}
      BY FS_EmptySet DEF SlotsRight
    <2>2. PICK c \in Clients : rq[c].pc = "fetch"
      BY <2>1 DEF Fetching
    <2> QED
      BY <2>2 DEF Idle, Waits, HasJob
  <1> QED
    BY <1>1, SlotsInvariant, PTL

-----------------------------------------------------------------------------
(* The features of VictoriaMetrics.                                        *)

(* MinVersion goes through the versions from the left. *)
LEMMA MinVersionSteps ==
  ASSUME NEW V, NEW versions \in Seq(V), versions # <<>>
  PROVE  \E h : /\ h[0] = versions[1]
                /\ \A i \in 1..Len(versions) :
                     h[i] = IF Older(h[i - 1], versions[i]) THEN versions[i] ELSE h[i - 1]
                /\ MinVersion(versions) = h[Len(versions)]
  <1> DEFINE n == Len(versions)
             base == versions[1]
             Op(p, v) == IF Older(p, v) THEN v ELSE p
             G == [p \in V \X (1..n) |-> Op(p[1], versions[p[2]])]
             M == [s \in SUBSET (1..n) |-> Max(s)]
             E(f) == f = [s \in SUBSET DOMAIN versions |->
                       IF s = {} THEN base ELSE Op(f[s \ {Max(s)}], versions[Max(s)])]
             iter == CHOOSE f : E(f)
             h == [i \in 0..n |-> iter[1..i]]
  <1>1. n \in Nat /\ DOMAIN versions = 1..n /\ base \in V /\ \A i \in 1..n : versions[i] \in V
    OBVIOUS
  <1>2. G \in [V \X (1..n) -> V]
    BY <1>1
  <1>3. \A s \in SUBSET (1..n) : s # {} => M[s] \in s /\ M[s] = Max(s)
    BY <1>1, MaxMin
  <1>4. PICK f \in [SUBSET (1..n) -> V] : IsFold(f, n, base, G, M)
    <2> HIDE DEF n, G, M, base
    <2> QED
      BY <1>1, <1>2, <1>3, FoldExists
  <1>5. ASSUME NEW s \in SUBSET (1..n), s # {}
        PROVE  G[<<f[s \ {M[s]}], M[s]>>] = Op(f[s \ {Max(s)}], versions[Max(s)])
    <2>1. f[s \ {M[s]}] \in V /\ M[s] \in 1..n /\ M[s] = Max(s)
      BY <1>3, <1>5
    <2> QED
      BY <2>1
  <1>6. E(f)
    <2> HIDE DEF n, G, M, base, Op
    <2> QED
      BY <1>1, <1>4, <1>5 DEF IsFold
  <1>7. E(iter)
    <2> HIDE DEF E
    <2> QED
      BY <1>6
  <1>8. MinVersion(versions) = iter[DOMAIN versions]
    BY DEF MinVersion, FoldLeft, MapThenFoldSet
  <1>9. h[0] = base /\ h[n] = MinVersion(versions)
    <2>1. iter[{}] = base
      BY <1>7
    <2> HIDE DEF iter
    <2> QED
      BY <1>1, <1>8, <2>1, UpTo
  <1>10. ASSUME NEW i \in 1..n
         PROVE  h[i] = Op(h[i - 1], versions[i])
    <2>1. /\ 1..i \in SUBSET DOMAIN versions /\ 1..i # {} /\ Max(1..i) = i
          /\ (1..i) \ {i} = 1..(i - 1) /\ i - 1 \in 0..n /\ i \in 0..n
      BY <1>1, UpTo
    <2>2. iter[1..i] = Op(iter[1..(i - 1)], versions[i])
      <3> HIDE DEF iter, Op
      <3> QED
        BY <1>7, <2>1
    <2> HIDE DEF iter, Op
    <2> QED
      BY <2>1, <2>2
  <1> HIDE DEF h
  <1> QED
    BY <1>9, <1>10

(* A version that is the oldest in each number is the one it finds. *)
LEMMA MinVersionOldest ==
  ASSUME NEW V, NEW versions \in Seq(V), \A x \in V : IsVersion(x),
         NEW v \in Range(versions), OldestIn(versions, v)
  PROVE  MinVersion(versions) = v
  <1> DEFINE n == Len(versions)
  <1>1. n \in Nat /\ DOMAIN versions = 1..n /\ \A i \in 1..n : versions[i] \in V
    OBVIOUS
  <1>2. PICK m \in 1..n : versions[m] = v
    BY <1>1 DEF Range
  <1>3. PICK h : /\ h[0] = versions[1]
                 /\ \A i \in 1..n : h[i] = IF Older(h[i - 1], versions[i]) THEN versions[i] ELSE h[i - 1]
                 /\ MinVersion(versions) = h[n]
    <2>1. versions # <<>> /\ versions \in Seq(V)
      BY <1>2
    <2> QED
      BY <2>1, MinVersionSteps
  <1> HIDE DEF n
  <1>4. ASSUME NEW i \in Nat, i <= n
        PROVE  h[i] \in Range(versions)
    <2> DEFINE T == {k \in Nat : k <= n => h[k] \in Range(versions)}
    <2>1. 0 \in T
      <3>1. 1 \in DOMAIN versions
        BY <1>1, <1>2
      <3> QED
        BY <1>3, <3>1 DEF Range
    <2>2. ASSUME NEW k \in Nat, k \in T
          PROVE  k + 1 \in T
      <3>1. k + 1 <= n => k + 1 \in 1..n /\ (k + 1) - 1 = k /\ k <= n
        BY <1>1
      <3>2. k + 1 <= n => versions[k + 1] \in Range(versions)
        BY <1>1, <3>1 DEF Range
      <3>3. k + 1 <= n => h[k + 1] \in {versions[k + 1], h[k]}
        BY <1>3, <3>1
      <3> QED
        BY <2>2, <3>1, <3>2, <3>3
    <2>3. i \in T
      <3> HIDE DEF T
      <3> QED
        BY <2>1, <2>2, NatInd
    <2> QED
      BY <1>4, <2>3
  <1>5. \A x \in V : Parsed(x) \in [1..3 -> Int]
    <2> SUFFICES ASSUME NEW x \in V PROVE Parsed(x) \in [1..3 -> Int]
      OBVIOUS
    <2>1. x \in Seq(Int)
      BY DEF IsVersion
    <2>2. \A i \in 1..3 : i <= Len(x) => x[i] \in Int
      BY <2>1
    <2> QED
      BY <2>2 DEF Parsed
  <1>6. ASSUME NEW w \in Range(versions)
        PROVE  ~Older(v, w) /\ (w # v => Older(w, v))
    <2>1. w \in V /\ v \in V
      BY <1>1 DEF Range
    <2>2. Parsed(w) \in [1..3 -> Int] /\ Parsed(v) \in [1..3 -> Int]
      BY <1>5, <2>1
    <2>3. (\A i \in 1..3 : Parsed(v)[i] <= Parsed(w)[i]) /\ (Parsed(w) = Parsed(v) => w = v)
      BY <1>1 DEF Range, OldestIn
    <2> DEFINE a == Parsed(v)
               b == Parsed(w)
    <2> HIDE DEF a, b
    <2>4. a \in [1..3 -> Int] /\ b \in [1..3 -> Int] /\ \A i \in 1..3 : a[i] <= b[i]
      BY <2>2, <2>3 DEF a, b
    <2>5. ~\E i \in 1..3 : a[i] > b[i]
      BY <2>4
    <2>6. (\A i \in 1..3 : ~(b[i] > a[i])) => b = a
      BY <2>4
    <2> QED
      BY <2>3, <2>5, <2>6 DEF Older, a, b
  <1>7. h[m] = v
    <2>1. m - 1 \in Nat /\ m - 1 <= n
      BY <1>1
    <2> QED
      BY <1>2, <1>3, <1>4, <1>6, <2>1
  <1>8. ASSUME NEW i \in Nat
        PROVE  m + i <= n => h[m + i] = v
    <2> DEFINE T == {k \in Nat : m + k <= n => h[m + k] = v}
    <2>1. 0 \in T
      BY <1>7
    <2>2. ASSUME NEW k \in Nat, k \in T
          PROVE  k + 1 \in T
      <3>1. m + (k + 1) <= n => m + (k + 1) \in 1..n /\ (m + (k + 1)) - 1 = m + k /\ m + k <= n
        BY <1>1
      <3>2. m + (k + 1) <= n => versions[m + (k + 1)] \in Range(versions)
        BY <1>1, <3>1 DEF Range
      <3>3. m + (k + 1) <= n =>
              h[m + (k + 1)] = IF Older(h[m + k], versions[m + (k + 1)]) THEN versions[m + (k + 1)] ELSE h[m + k]
        BY <1>3, <3>1
      <3>4. m + (k + 1) <= n => h[m + k] = v
        BY <2>2, <3>1
      <3> QED
        BY <1>6, <3>2, <3>3, <3>4
    <2>3. i \in T
      <3> HIDE DEF T
      <3> QED
        BY <2>1, <2>2, NatInd
    <2> QED
      BY <2>3
  <1>9. n - m \in Nat /\ m + (n - m) = n /\ m + (n - m) <= n
    BY <1>1
  <1>10. h[m + (n - m)] = v
    BY <1>8, <1>9
  <1> QED
    BY <1>3, <1>9, <1>10

LEMMA SiteKept == BrowseSpec => [](site \in Sites)
  <1>1. BrowseInit => site \in Sites
    BY DEF BrowseInit
  <1>2. site \in Sites /\ [BrowseNext]_browseVars => (site \in Sites)'
    BY DEF BrowseNext, browseVars, NewZipper, UpdateFeatureSet, Refuse, Call, ArriveFind, ArriveInfo,
           ArriveTags, FindHandler, ExpandHandler, AskInfo, InfoHandler, TagHandler
  <1> QED
    BY <1>1, <1>2, PTL DEF BrowseSpec

(* updateFeatureSet: whatever versions the servers answer, in any order,   *)
(* the features in use are those of the oldest, where one is the oldest. *)
THEOREM OldestDecides == BrowseSpec => FeaturesOfOldest
  <1> DEFINE A == \A versions \in site.versions : UpdateFeatureSet(versions) =>
                    \A v \in Range(versions) : OldestIn(versions, v) => features' = FeatureSet(v)
  <1>1. site \in Sites => A
    <2> SUFFICES ASSUME site \in Sites, NEW versions \in site.versions, UpdateFeatureSet(versions),
                        NEW v \in Range(versions), OldestIn(versions, v)
                 PROVE  features' = FeatureSet(v)
      OBVIOUS
    <2>1. versions \in Seq(Range(versions)) /\ \A x \in Range(versions) : IsVersion(x)
      BY BrowseAssumption
    <2>2. MinVersion(versions) = v
      BY <2>1, MinVersionOldest
    <2> QED
      BY <2>2 DEF UpdateFeatureSet
  <1>2. site \in Sites => [A]_browseVars
    BY <1>1
  <1> QED
    BY <1>2, SiteKept, PTL DEF FeaturesOfOldest

-----------------------------------------------------------------------------
(* Tags.                                                                   *)

(* The n smallest elements are elements; with one come all below it; there *)
(* are n of them, where there are that many. *)
LEMMA SmallestOf ==
  ASSUME NEW S, IsFiniteSet(S), S \subseteq Int, NEW n \in Int
  PROVE  /\ Smallest(n, S) \subseteq S
         /\ \A x \in Smallest(n, S) : \A y \in S : y < x => y \in Smallest(n, S)
         /\ n <= Cardinality(S) => Cardinality(Smallest(n, S)) >= n
  <1> DEFINE Below(x) == {y \in S : y < x}
             T == Smallest(n, S)
  <1>1. ASSUME NEW x \in S
        PROVE  IsFiniteSet(Below(x)) /\ Cardinality(Below(x)) \in Nat
    BY FS_Subset, FS_CardinalityType
  <1>2. T \subseteq S /\ \A x \in S : x \in T <=> Cardinality(Below(x)) < n
    BY DEF Smallest
  <1>3. IsFiniteSet(T) /\ Cardinality(T) \in Nat
    <2> HIDE DEF T
    <2> QED
      BY <1>2, FS_Subset, FS_CardinalityType
  <1>4. ASSUME NEW x \in S, NEW y \in S, y < x
        PROVE  Cardinality(Below(y)) < Cardinality(Below(x))
    <2>1. Below(y) \subseteq Below(x) /\ y \in Below(x) /\ y \notin Below(y)
      <3>1. x \in Int /\ y \in Int /\ \A z \in S : z \in Int
        OBVIOUS
      <3>2. \A z \in S : z < y => z < x
        BY <1>4, <3>1
      <3>3. ~(y < y)
        BY <3>1
      <3> QED
        BY <1>4, <3>2, <3>3, Zenon
    <2> HIDE DEF Below
    <2>2. Cardinality(Below(y)) <= Cardinality(Below(x)) /\ Cardinality(Below(y)) # Cardinality(Below(x))
      BY <1>1, <2>1, FS_Subset
    <2> QED
      BY <1>1, <2>2
  <1>5. ASSUME NEW x \in T, NEW y \in S, y < x PROVE y \in T
    <2> HIDE DEF T, Below
    <2> QED
      BY <1>1, <1>2, <1>4, <1>5
  <1>6. ASSUME n <= Cardinality(S), Cardinality(T) < n PROVE FALSE
    <2> DEFINE C == {Cardinality(Below(x)) : x \in S \ T}
    <2>1. PICK z \in S : z \notin T
      <3>1. T # S
        BY <1>3, <1>6
      <3> HIDE DEF T
      <3> QED
        BY <1>2, <3>1
    <2>2. C \subseteq Nat /\ C # {}
      BY <1>1, <2>1
    <2>3. PICK c \in C : \A d \in C : c <= d
      <3> HIDE DEF C
      <3> QED
        BY <2>2, LeastNumber
    <2>4. PICK x \in S \ T : c = Cardinality(Below(x))
      OBVIOUS
    <2>5. \A y \in S \ T : Cardinality(Below(x)) <= Cardinality(Below(y))
      BY <2>3, <2>4
    <2>6. Below(x) \subseteq T
      <3> SUFFICES ASSUME NEW y \in S, y < x, y \notin T PROVE FALSE
        OBVIOUS
      <3>1. Cardinality(Below(y)) < Cardinality(Below(x))
        BY <1>4
      <3>2. Cardinality(Below(x)) <= Cardinality(Below(y))
        BY <2>5
      <3>3. Cardinality(Below(y)) \in Nat /\ Cardinality(Below(x)) \in Nat
        BY <1>1
      <3> HIDE DEF T, Below
      <3> QED
        BY <3>1, <3>2, <3>3
    <2> HIDE DEF T, Below
    <2>7. Cardinality(Below(x)) <= Cardinality(T)
      BY <1>3, <2>6, FS_Subset
    <2> QED
      BY <1>1, <1>2, <1>3, <1>6, <2>4, <2>7
  <1>7. Cardinality(S) \in Nat
    BY FS_CardinalityType
  <1> HIDE DEF T
  <1> QED
    BY <1>2, <1>3, <1>5, <1>6, <1>7 DEF T

(* The statuses of errors of queries; only an answer 204 has that one. *)
Statuses == {204, 403, 429, 500, 503}

LEMMA ErrorCodes ==
  ASSUME NEW proto, NEW f \in {"ok"} \cup Faults
  PROVE  /\ CodeOf(proto, f) \in {0} \cup Statuses /\ CodeOf(proto, "ok") = 0
         /\ CodeOf(proto, f) = 204 => f = "nocontent"
  <1>1. StatusOf.fail = 503 /\ StatusOf.forbidden = 403 /\ StatusOf.limited = 429 /\ StatusOf.nocontent = 204
    BY DEF StatusOf
  <1>2. DOMAIN StatusOf = {"fail", "forbidden", "limited", "nocontent"}
    BY DEF StatusOf
  <1>3. /\ StatusOf["fail"] = 503 /\ StatusOf["forbidden"] = 403
        /\ StatusOf["limited"] = 429 /\ StatusOf["nocontent"] = 204
    BY DEF StatusOf
  <1>4. f \in {"ok", "missing", "garbage", "refused", "fail", "forbidden", "limited", "nocontent"}
    BY <1>2 DEF Faults
  <1> QED
    BY <1>2, <1>3, <1>4 DEF CodeOf, Statuses

LEMMA FindErrorCodes ==
  ASSUME NEW ch, ch.proto \in Protocols, NEW qs, qs # <<>>, NEW Q, qs \in Seq(Q), site \in Sites,
         NEW fate \in FindFates(ch, qs), NEW leaf
  PROVE  /\ FindServer(ch, qs, fate, leaf).codes \subseteq Statuses
         /\ 204 \in FindServer(ch, qs, fate, leaf).codes => "nocontent" \in site.faults
         /\ (\A k \in DOMAIN qs : fate[k] = "ok") => FindServer(ch, qs, fate, leaf).codes = {}
  <1> DEFINE kinds == {"ok"} \cup Faults
             a == FindServer(ch, qs, fate, leaf)
  <1>1. /\ DOMAIN fate = DOMAIN qs /\ 1 \in DOMAIN qs
        /\ \A k \in DOMAIN qs : fate[k] \in kinds /\ (fate[k] = "ok" \/ fate[k] \in site.faults)
    BY BrowseAssumption DEF FindFates
  <1> DEFINE well == \A k \in DOMAIN qs : fate[k] = "ok"
             Fine(c) == /\ c \in {0} \cup Statuses
                        /\ c = 204 => "nocontent" \in site.faults
                        /\ well => c = 0
  <1> HIDE DEF kinds
  <1>2. ASSUME NEW proto, NEW k \in DOMAIN qs PROVE Fine(CodeOf(proto, fate[k]))
    <2>1. fate[k] \in {"ok"} \cup Faults /\ (fate[k] = "ok" \/ fate[k] \in site.faults)
      BY <1>1 DEF kinds
    <2> DEFINE f == fate[k]
    <2>2. /\ CodeOf(proto, f) \in {0} \cup Statuses /\ CodeOf(proto, "ok") = 0
          /\ CodeOf(proto, f) = 204 => f = "nocontent"
      <3>1. f \in {"ok"} \cup Faults
        BY <2>1
      <3> HIDE DEF f, Fine, well
      <3> QED
        BY <3>1, ErrorCodes
    <2>3. "nocontent" # "ok"
      OBVIOUS
    <2> QED
      BY <2>1, <2>2, <2>3
  <1>3. PICK metrics, codes : a = Answered(metrics, codes)
                /\ \/ \E proto : codes = CodesOf(proto, fate) \/ codes = CodesOf(proto, fate) \ {0}
                   \/ \E proto : codes = {CodeOf(proto, fate[1])}
                   \/ codes = {IF fate[k] \in {"missing", "garbage"} THEN 500
                                 ELSE CodeOf("victoriametrics", fate[k]) : k \in DOMAIN qs}
    <2>1. CASE ch.proto = "carbonapi_v2_pb"
      BY <2>1, Zenon DEF FindServer, FindV2
    <2>2. CASE ch.proto = "carbonapi_v3_pb"
      BY <2>2, Zenon DEF FindServer, FindV3
    <2>3. CASE ch.proto = "graphite"
      BY <2>3, Zenon DEF FindServer, FindGraphite
    <2>4. CASE ch.proto = "victoriametrics"
      BY <2>4, Zenon DEF FindServer, FindVm, FindPrometheus
    <2>5. CASE ch.proto = "prometheus"
      BY <2>5, Zenon DEF FindServer, FindPrometheus
    <2>6. CASE ch.proto = "irondb"
      BY <2>6, Zenon DEF FindServer, FindIrondb
    <2> QED
      BY <2>1, <2>2, <2>3, <2>4, <2>5, <2>6 DEF Protocols
  <1>4. \A c \in codes : Fine(c)
    <2> HIDE DEF Fine
    <2>1. CASE \E proto : codes = CodesOf(proto, fate) \/ codes = CodesOf(proto, fate) \ {0}
      BY <2>1, <1>1, <1>2 DEF CodesOf
    <2>2. CASE \E proto : codes = {CodeOf(proto, fate[1])}
      BY <2>2, <1>1, <1>2
    <2>3. CASE codes = {IF fate[k] \in {"missing", "garbage"} THEN 500
                          ELSE CodeOf("victoriametrics", fate[k]) : k \in DOMAIN qs}
      <3>1. ASSUME NEW k \in DOMAIN qs, fate[k] \in {"missing", "garbage"} PROVE Fine(500)
        BY <3>1 DEF Fine, Statuses
      <3> QED
        BY <2>3, <3>1, <1>2
    <2> QED
      BY <1>3, <2>1, <2>2, <2>3
  <1>5. a.codes = codes \ {0}
    BY <1>3 DEF Answered
  <1> QED
    BY <1>4, <1>5

(* Those of a child, which may be a group: a 404 of a group without        *)
(* matches. *)
LEMMA ChildErrorCodes ==
  ASSUME NEW ch, ch.proto \in Protocols, NEW qs, qs # <<>>, NEW Q, qs \in Seq(Q), site \in Sites,
         NEW fate \in FindFates(ch, qs), NEW leaf
  PROVE  /\ FindChild(ch, qs, fate, leaf).codes \subseteq Statuses \cup {404}
         /\ 204 \in FindChild(ch, qs, fate, leaf).codes => "nocontent" \in site.faults
         /\ ~ch.group /\ (\A k \in DOMAIN qs : fate[k] = "ok") => FindChild(ch, qs, fate, leaf).codes = {}
  <1> DEFINE a == FindServer(ch, qs, fate, leaf)
             b == FindChild(ch, qs, fate, leaf)
  <1>1. /\ a.codes \subseteq Statuses
        /\ 204 \in a.codes => "nocontent" \in site.faults
        /\ (\A k \in DOMAIN qs : fate[k] = "ok") => a.codes = {}
    BY FindErrorCodes
  <1>2. b = IF ch.group THEN GroupFind(a) ELSE a
    BY DEF FindChild
  <1> HIDE DEF a, b
  <1>3. ch.group => \/ b.codes = a.codes \ {0} \/ b.codes = {404} \ {0}
                    \/ b.codes = {} \/ b.codes = {500} \ {0}
    <2> SUFFICES ASSUME ch.group
                 PROVE  \/ b.codes = a.codes \ {0} \/ b.codes = {404} \ {0}
                        \/ b.codes = {} \/ b.codes = {500} \ {0}
      OBVIOUS
    <2> DEFINE merged == MergeFind(<<>>, a.metrics)
               errors == IF a.codes = {} THEN {} ELSE {500}
    <2>1. b = GroupFind(a)
      BY <1>2
    <2>2. \/ b = Answered(<<>>, a.codes)
          \/ b = Answered(<<>>, {404})
          \/ b = Answered(merged, errors)
      BY <2>1, Zenon DEF GroupFind
    <2>3. errors = {} \/ errors = {500}
      OBVIOUS
    <2> HIDE DEF merged, errors
    <2>4. CASE b = Answered(<<>>, a.codes)
      BY <2>4 DEF Answered
    <2>5. CASE b = Answered(<<>>, {404})
      BY <2>5 DEF Answered
    <2>6. CASE b = Answered(merged, errors)
      <3>1. b.codes = errors \ {0}
        BY <2>6 DEF Answered
      <3> QED
        BY <2>3, <3>1
    <2> QED
      BY <2>2, <2>4, <2>5, <2>6
  <1>4. b.codes \subseteq Statuses \cup {404} /\ (204 \in b.codes => "nocontent" \in site.faults)
    BY <1>1, <1>2, <1>3 DEF Statuses
  <1>5. ~ch.group => b = a
    BY <1>2
  <1> QED
    BY <1>1, <1>4, <1>5 DEF b

(* The status of an error is one of those codes, or 404 if there is none   *)
(* or no other. *)
LEMMA FindGroupCode ==
  ASSUME failed \subseteq Statuses \cup {404}
  PROVE  /\ failed \ {404} # {} => MergedCode(failed) \in failed \ {404}
         /\ MergedCode(failed) \in Statuses \cup {404}
         /\ FindGroup \in {0, 404} \cup Statuses
         /\ site \in Sites => Status(FindGroup) \in Int
  <1>1. failed \ {404} # {} => MergedCode(failed) \in failed \ {404}
    <2> SUFFICES ASSUME failed \ {404} # {} PROVE MergedCode(failed) \in failed \ {404}
      OBVIOUS
    <2> DEFINE S == failed \ {404}
    <2>1. S \in SUBSET (1..503) /\ S # {}
      BY DEF Statuses
    <2>2. ~(failed \subseteq {404})
      OBVIOUS
    <2>3. MergedCode(failed) = Min(S)
      BY <2>2 DEF MergedCode
    <2> HIDE DEF S
    <2>4. Min(S) \in S
      BY <2>1, MinCode, ZenonT(30)
    <2> QED
      BY <2>3, <2>4 DEF S
  <1>2. failed \subseteq {404} => MergedCode(failed) = 404
    BY DEF MergedCode
  <1>3. MergedCode(failed) \in Statuses \cup {404}
    BY <1>1, <1>2
  <1>4. FindGroup \in {0, 404} \cup Statuses
    BY <1>3 DEF FindGroup
  <1>5. site \in Sites => Status(FindGroup) \in Int
    <2>1. FindGroup \in Int
      BY <1>4 DEF Statuses
    <2> QED
      BY <2>1, BrowseAssumption DEF Status
  <1> QED
    BY <1>1, <1>3, <1>4, <1>5

(* The backends of the group. *)
ChildrenOK ==
  /\ site \in Sites
  /\ failed \subseteq Statuses \cup {404}
  /\ 204 \in failed => "nocontent" \in site.faults
  /\ pending \subseteq children
  /\ stage = "start" => pending = {}
  /\ \A ch \in children : /\ ch.proto \in Protocols
                          /\ IsFiniteSet(ch.holds)
                          /\ IsFiniteSet(ch.tags) /\ ch.tags \subseteq Int
  /\ \A a, b \in children : a.id = b.id => a = b

(* The request is one of the site's, and each stage has its operations. *)
CallOK ==
  /\ stage \in {"find", "info", "tags"} => call \in site.calls
  /\ stage = "tags" => call.op = "tags"
  /\ stage = "find" => call.op \in {"find", "expand", "info"}
  /\ stage = "info" => call.op = "info"

(* A handler answers once it has all answers, and that is all. *)
LEMMA HandlersEnd ==
  ASSUME ChildrenOK, CallOK, FindHandler \/ ExpandHandler \/ InfoHandler \/ TagHandler
  PROVE  stage' = "end" /\ UNCHANGED <<site, children, call, pending, acc, failed, names, delivered>>
  <1>1. CASE FindHandler
    <2>1. \E c, w : Answer(c, w)
      BY <1>1, Zenon DEF FindHandler
    <2>2. UNCHANGED <<site, children, call, pending, acc, failed, names, delivered>>
      BY <1>1 DEF FindHandler
    <2> QED
      BY <2>1, <2>2 DEF Answer
  <1>2. CASE ExpandHandler
    BY <1>2, Zenon DEF ExpandHandler, Answer
  <1>3. CASE InfoHandler
    BY <1>3 DEF InfoHandler, Answer
  <1>4. CASE TagHandler
    BY <1>4, Zenon DEF TagHandler, Answer
  <1> QED
    BY <1>1, <1>2, <1>3, <1>4

LEMMA GroupKept == BrowseSpec => [](ChildrenOK /\ CallOK)
  <1>1. BrowseInit => ChildrenOK /\ CallOK
    <2> SUFFICES ASSUME BrowseInit PROVE ChildrenOK /\ CallOK
      OBVIOUS
    <2>1. stage = "start" \/ stage = "off"
      BY DEF BrowseInit
    <2> QED
      BY <2>1 DEF BrowseInit, ChildrenOK, CallOK
  <1>2. ChildrenOK /\ CallOK /\ [BrowseNext]_browseVars => (ChildrenOK /\ CallOK)'
    <2> SUFFICES ASSUME ChildrenOK, CallOK, [BrowseNext]_browseVars PROVE (ChildrenOK /\ CallOK)'
      OBVIOUS
    <2>1. CASE NewZipper
      <3>1. PICK out : children' = UNION {DoCapabilityQuery(s, out[s]) : s \in site.servers}
        BY <2>1 DEF NewZipper
      <3>2. ASSUME NEW s \in site.servers, NEW ch \in DoCapabilityQuery(s, out[s])
            PROVE  /\ ch.proto \in Protocols /\ ch.id = s.id
                   /\ IsFiniteSet(ch.holds) /\ IsFiniteSet(ch.tags) /\ ch.tags \subseteq Int
                   /\ DoCapabilityQuery(s, out[s]) = {ch}
        <4>1. /\ s.speaks \in Protocols /\ OldProtocol \in Protocols
              /\ IsFiniteSet(s.holds) /\ IsFiniteSet(s.tags) /\ s.tags \subseteq Int
          BY BrowseAssumption DEF ChildrenOK, OldProtocol, Protocols
        <4> HIDE DEF Protocols
        <4> QED
          BY <4>1, <3>2 DEF DoCapabilityQuery
      <3>3. \A s, t \in site.servers : s.id = t.id => s = t
        BY BrowseAssumption DEF ChildrenOK
      <3>4. \A ch \in children' : \E s \in site.servers : ch \in DoCapabilityQuery(s, out[s])
        BY <3>1, Zenon
      <3>5. ASSUME NEW a \in children', NEW b \in children', a.id = b.id PROVE a = b
        <4>1. PICK s \in site.servers : a \in DoCapabilityQuery(s, out[s])
          BY <3>4
        <4>2. PICK t \in site.servers : b \in DoCapabilityQuery(t, out[t])
          BY <3>4
        <4>3. s = t
          BY <4>1, <4>2, <3>2, <3>3, <3>5, Zenon
        <4>4. DoCapabilityQuery(s, out[s]) = {a}
          BY <4>1, <3>2, Zenon
        <4> QED
          BY <4>2, <4>3, <4>4, Zenon
      <3>6. \A ch \in children' : /\ ch.proto \in Protocols
                                  /\ IsFiniteSet(ch.holds)
                                  /\ IsFiniteSet(ch.tags) /\ ch.tags \subseteq Int
        BY <3>2, <3>4, Zenon
      <3>7. site' = site /\ pending' = pending /\ pending = {} /\ stage' = "ready" /\ call' = call
        BY <2>1 DEF NewZipper, ChildrenOK
      <3> QED
        BY <2>1, <3>5, <3>6, <3>7 DEF NewZipper, ChildrenOK, CallOK
    <2>2. CASE \E versions \in site.versions : UpdateFeatureSet(versions)
      BY <2>2 DEF UpdateFeatureSet, ChildrenOK, CallOK
    <2>3. ASSUME NEW c \in site.calls, Refuse(c) \/ Call(c)
          PROVE  (ChildrenOK /\ CallOK)'
      <3>1. c.op \in {"bad", "find", "expand", "info", "tags"}
        BY BrowseAssumption DEF ChildrenOK
      <3>2. stage' # "start" /\ site' = site /\ children' = children /\ call' = c
            /\ (pending' = pending \/ pending' = children) /\ failed' \in {failed, {}}
        BY <2>3 DEF Refuse, Call
      <3>3. ChildrenOK'
        BY <3>2 DEF ChildrenOK
      <3> QED
        BY <2>3, <3>1, <3>2, <3>3 DEF Refuse, Call, CallOK
    <2>4. ASSUME NEW ch \in pending, ArriveFind(ch) \/ ArriveInfo(ch) \/ ArriveTags(ch)
          PROVE  (ChildrenOK /\ CallOK)'
      <3>1. UNCHANGED <<site, stage, children, call>> /\ pending' = pending \ {ch}
        BY <2>4 DEF ArriveFind, ArriveInfo, ArriveTags
      <3> DEFINE Fine(c) == c \in Statuses \cup {404} /\ (c = 204 => "nocontent" \in site.faults)
      <3>0. \A c \in failed : Fine(c)
        BY DEF ChildrenOK
      <3>2. failed' = failed \/ \E c : Fine(c) /\ failed' = failed \cup {c}
        <4>1. CASE ArriveFind(ch)
          <5>1. PICK fate \in FindFates(ch, call.queries), leaf \in BOOLEAN :
                  LET a == FindChild(ch, call.queries, fate, leaf) IN
                  IF a.codes = {} THEN failed' = failed ELSE \E code \in a.codes : failed' = failed \cup {code}
            BY <4>1, Zenon DEF ArriveFind
          <5>2. ch.proto \in Protocols /\ call.queries # <<>> /\ call.queries \in Seq(Range(call.queries)) /\ site \in Sites
            BY <4>1, BrowseAssumption DEF ArriveFind, ChildrenOK, CallOK
          <5> DEFINE a == FindChild(ch, call.queries, fate, leaf)
          <5>3. a.codes \subseteq Statuses \cup {404} /\ (204 \in a.codes => "nocontent" \in site.faults)
            BY <5>2, ChildErrorCodes
          <5>4. IF a.codes = {} THEN failed' = failed ELSE \E code \in a.codes : failed' = failed \cup {code}
            BY <5>1, Zenon
          <5> HIDE DEF a
          <5> QED
            BY <5>3, <5>4
        <4>2. CASE ArriveInfo(ch)
          <5>1. Fine(500)
            BY DEF Statuses
          <5> HIDE DEF Fine
          <5> QED
            BY <4>2, <5>1 DEF ArriveInfo
        <4>3. CASE ArriveTags(ch)
          <5>1. Fine(500)
            BY DEF Statuses
          <5>2. ASSUME NEW f \in site.faults \ {"refused"}, f \notin {"missing", "garbage"} PROVE Fine(CodeOf(ch.proto, f))
            <6>1. f \in {"ok"} \cup Faults /\ f # "ok" /\ f # "missing" /\ f # "garbage" /\ f # "refused"
              BY <5>2, BrowseAssumption DEF ChildrenOK, Faults, StatusOf
            <6>2. CodeOf(ch.proto, f) \in {0} \cup Statuses /\ (CodeOf(ch.proto, f) = 204 => f = "nocontent")
              BY <6>1, ErrorCodes
            <6>3. CodeOf(ch.proto, f) # 0
              <7>1. f \in {"fail", "forbidden", "limited", "nocontent"}
                BY <6>1 DEF Faults, StatusOf
              <7> QED
                BY <7>1 DEF CodeOf, StatusOf
            <6> QED
              BY <6>2, <6>3
          <5> HIDE DEF Fine
          <5> QED
            BY <4>3, <5>1, <5>2 DEF ArriveTags
        <4> QED
          BY <2>4, <4>1, <4>2, <4>3
      <3>3. \A c \in failed' : Fine(c)
        <4> HIDE DEF Fine
        <4> QED
          BY <3>0, <3>2
      <3>4. site' = site
        BY <3>1
      <3>5. failed' \subseteq Statuses \cup {404} /\ (204 \in failed' => "nocontent" \in site'.faults)
        BY <3>3, <3>4
      <3> QED
        BY <3>1, <3>5 DEF ChildrenOK, CallOK
    <2>5. CASE FindHandler \/ ExpandHandler \/ InfoHandler \/ TagHandler
      <3>1. UNCHANGED <<site, children, call, pending, failed>> /\ stage' = "end"
        BY <2>5, HandlersEnd
      <3> QED
        BY <3>1 DEF ChildrenOK, CallOK
    <2>6. CASE AskInfo
      <3>1. UNCHANGED <<site, children, call>> /\ stage = "find" /\ stage' = "info" /\ pending' = children
            /\ call.op = "info" /\ failed' = {}
        BY <2>6 DEF AskInfo
      <3> QED
        BY <3>1 DEF ChildrenOK, CallOK
    <2>7. CASE UNCHANGED browseVars
      BY <2>7 DEF browseVars, ChildrenOK, CallOK
    <2> QED
      BY <2>1, <2>2, <2>3, <2>4, <2>5, <2>6, <2>7 DEF BrowseNext
  <1> QED
    BY <1>1, <1>2, PTL DEF BrowseSpec

(* How a request for names ends: a handler replies, or it was refused; and *)
(* nothing happens afterwards. *)
LEMMA Endings ==
  ASSUME [BrowseNext]_browseVars, stage' = "end"
  PROVE  \/ stage = "end" /\ UNCHANGED browseVars
         \/ reply'.code = 400
         \/ FindHandler \/ ExpandHandler \/ InfoHandler \/ TagHandler
  <1>1. CASE NewZipper
    BY <1>1 DEF NewZipper
  <1>2. CASE \E versions \in site.versions : UpdateFeatureSet(versions)
    BY <1>2 DEF UpdateFeatureSet
  <1>3. CASE \E c \in site.calls : Refuse(c) \/ Call(c)
    BY <1>3 DEF Refuse, Call
  <1>4. CASE \E ch \in pending : ArriveFind(ch) \/ ArriveInfo(ch) \/ ArriveTags(ch)
    BY <1>4 DEF ArriveFind, ArriveInfo, ArriveTags
  <1>5. CASE AskInfo
    BY <1>5 DEF AskInfo
  <1>6. CASE UNCHANGED browseVars
    BY <1>6 DEF browseVars
  <1> QED
    BY <1>1, <1>2, <1>3, <1>4, <1>5, <1>6 DEF BrowseNext

(* How each stage before is reached and gone on with. *)
LEMMA Stages ==
  ASSUME ChildrenOK, CallOK, [BrowseNext]_browseVars
  PROVE  /\ stage' = "tags" => \/ \E c \in site.calls : Call(c) /\ c.op = "tags"
                               \/ \E ch \in pending : ArriveTags(ch)
                               \/ UNCHANGED browseVars
         /\ stage' = "find" => \/ \E c \in site.calls : Call(c) /\ c.op # "tags"
                               \/ \E ch \in pending : ArriveFind(ch)
                               \/ UNCHANGED browseVars
         /\ stage' = "info" => AskInfo \/ (\E ch \in pending : ArriveInfo(ch)) \/ UNCHANGED browseVars
  <1>1. CASE NewZipper
    BY <1>1 DEF NewZipper
  <1>2. CASE \E versions \in site.versions : UpdateFeatureSet(versions)
    BY <1>2 DEF UpdateFeatureSet
  <1>3. CASE \E c \in site.calls : Refuse(c) \/ Call(c)
    BY <1>3 DEF Refuse, Call
  <1>4. CASE \E ch \in pending : ArriveFind(ch) \/ ArriveInfo(ch) \/ ArriveTags(ch)
    BY <1>4 DEF ArriveFind, ArriveInfo, ArriveTags
  <1>5. CASE AskInfo
    BY <1>5 DEF AskInfo
  <1>6. CASE FindHandler \/ ExpandHandler \/ InfoHandler \/ TagHandler
    BY <1>6, HandlersEnd
  <1> QED
    BY <1>1, <1>2, <1>3, <1>4, <1>5, <1>6 DEF BrowseNext

(* While the tags are gathered, what is merged is what was answered. *)
TagsMerged == stage = "tags" => acc = delivered /\ IsFiniteSet(acc) /\ acc \subseteq Int

(* What a child answers are tags of it. *)
LEMMA TagParts ==
  ASSUME NEW ch, NEW part \in TagsOf(ch)
  PROVE  part \subseteq ch.tags
  <1>1. part \in TagsPassed(ch) \/ part \in TagsCut(ch)
    BY DEF TagsOf, TagsPrometheus, TagsVm, TagsIrondb
  <1>2. CASE part \in TagsPassed(ch)
    BY <1>2 DEF TagsPassed, Smallest
  <1>3. CASE part \in TagsCut(ch)
    BY <1>3 DEF TagsCut, kSubset
  <1> QED
    BY <1>1, <1>2, <1>3

LEMMA TagsMergedKept ==
  ASSUME ChildrenOK, CallOK, TagsMerged, [BrowseNext]_browseVars
  PROVE  TagsMerged'
  <1> SUFFICES ASSUME stage' = "tags" PROVE acc' = delivered' /\ IsFiniteSet(acc') /\ acc' \subseteq Int
    BY DEF TagsMerged
  <1>1. CASE \E c \in site.calls : Call(c) /\ c.op = "tags"
    <2>1. acc' = {} /\ delivered' = {}
      BY <1>1 DEF Call
    <2> QED
      BY <2>1, FS_EmptySet
  <1>2. CASE (\E ch \in pending : ArriveTags(ch)) \/ UNCHANGED browseVars
    <2>0. acc = delivered /\ IsFiniteSet(acc) /\ acc \subseteq Int
      BY <1>2 DEF TagsMerged, ArriveTags, browseVars
    <2>2. CASE UNCHANGED browseVars
      BY <2>0, <2>2 DEF browseVars
    <2>3. ASSUME NEW ch \in pending, ArriveTags(ch)
          PROVE  acc' = delivered' /\ IsFiniteSet(acc') /\ acc' \subseteq Int
      <3>1. CASE UNCHANGED <<acc, delivered>>
        BY <2>0, <3>1
      <3>2. CASE \E part \in TagsOf(ch) : acc' = acc \cup part /\ delivered' = delivered \cup part
        <4>1. PICK part \in TagsOf(ch) : acc' = acc \cup part /\ delivered' = delivered \cup part
          BY <3>2
        <4>2. part \subseteq ch.tags /\ IsFiniteSet(ch.tags) /\ ch.tags \subseteq Int
          BY TagParts DEF ChildrenOK
        <4>3. IsFiniteSet(part) /\ part \subseteq Int
          BY <4>2, FS_Subset
        <4>4. IsFiniteSet(acc \cup part)
          BY <2>0, <4>3, FS_Union
        <4> QED
          BY <2>0, <4>1, <4>3, <4>4
      <3> QED
        BY <2>3, <3>1, <3>2 DEF ArriveTags
    <2> QED
      BY <1>2, <2>2, <2>3
  <1> QED
    BY <1>1, <1>2, Stages

(* The handlers of tags (tagHandler, tagEverything): for any backends and  *)
(* limit, the tags of a reply are the first ones of all that were answered *)
(* in any order, and not less than the limit allows. *)
THEOREM TagsNeverLost == BrowseSpec => []TagsKept
  <1>1. BrowseInit => TagsMerged /\ TagsKept
    <2> SUFFICES ASSUME BrowseInit PROVE TagsMerged /\ TagsKept
      OBVIOUS
    <2>1. stage = "start" \/ stage = "off"
      BY DEF BrowseInit
    <2> QED
      BY <2>1 DEF TagsMerged, TagsKept, Replied
  <1>2. ASSUME ChildrenOK, CallOK, TagsMerged, TagsKept, [BrowseNext]_browseVars
        PROVE  TagsKept'
    <2> SUFFICES ASSUME Replied("tags")' PROVE TagsKept'
      BY DEF TagsKept
    <2>1. stage' = "end" /\ call'.op = "tags" /\ reply'.code = 200
      BY DEF Replied
    <2>2. CASE UNCHANGED browseVars
      BY <1>2, <2>2 DEF browseVars, TagsKept, Replied
    <2>3. CASE FindHandler \/ ExpandHandler \/ InfoHandler
      BY <1>2, <2>1, <2>3 DEF FindHandler, ExpandHandler, InfoHandler, CallOK
    <2>4. CASE TagHandler
      <3> DEFINE over == call.limit # -1 /\ Cardinality(acc) > call.limit
      <3>1. /\ stage = "tags" /\ call \in site.calls /\ site \in Sites /\ call.op = "tags"
            /\ UNCHANGED <<call, delivered>>
        BY <1>2, <2>4 DEF TagHandler, CallOK, ChildrenOK
      <3>2. acc = delivered /\ IsFiniteSet(acc) /\ acc \subseteq Int /\ call.limit \in Int
            /\ Cardinality(acc) \in Nat
        BY <1>2, <3>1, BrowseAssumption, FS_CardinalityType DEF TagsMerged
      <3>3. (site.rsa /\ failed # {}) => MergedCode(failed) # 200
        BY <1>2, FindGroupCode DEF ChildrenOK, Statuses
      <3>4. /\ reply' = [code |-> 200, what |-> IF over THEN CutTags(acc, call.limit) ELSE acc]
            /\ over => call.limit >= 1
        BY <2>1, <2>4, <3>2, <3>3 DEF TagHandler, Answer
      <3>5. CASE over
        <4>1. reply'.what = Smallest(call.limit - 1, delivered) /\ call.limit - 1 \in Int
              /\ call.limit - 1 <= Cardinality(delivered)
          BY <3>2, <3>4, <3>5 DEF CutTags
        <4>2. /\ Smallest(call.limit - 1, delivered) \subseteq delivered
              /\ \A x \in Smallest(call.limit - 1, delivered) : \A y \in delivered :
                   y < x => y \in Smallest(call.limit - 1, delivered)
              /\ Cardinality(Smallest(call.limit - 1, delivered)) >= call.limit - 1
          BY <3>2, <4>1, SmallestOf
        <4>3. ~(call.limit = -1 \/ Cardinality(delivered) <= call.limit)
          BY <3>2, <3>5
        <4> QED
          BY <3>1, <4>1, <4>2, <4>3 DEF TagsKept
      <3>6. CASE ~over
        <4>1. reply'.what = delivered
          BY <3>2, <3>4, <3>6
        <4>2. ~(call.limit # -1 /\ Cardinality(delivered) > call.limit)
          BY <3>2, <3>6
        <4> QED
          BY <3>1, <4>1, <4>2 DEF TagsKept
      <3> QED
        BY <3>5, <3>6
    <2> QED
      BY <1>2, <2>1, <2>2, <2>3, <2>4, Endings
  <1>3. TagsMerged /\ TagsKept /\ (ChildrenOK /\ CallOK) /\ [BrowseNext]_browseVars => (TagsMerged /\ TagsKept)'
    BY <1>2, TagsMergedKept
  <1> QED
    BY <1>1, <1>3, GroupKept, PTL DEF BrowseSpec

-----------------------------------------------------------------------------
(* Find.                                                                   *)

(* A sequence of names with their matches. *)
IsGlobs(globs) ==
  globs \in Seq(Range(globs)) /\ \A g \in Range(globs) : g = Glob(g.name, g.matches)

(* What MergeFind does with one name of the second response. *)
MergeStep(first, globs, g) ==
  LET Index(name) == {i \in DOMAIN first : first[i].name = name}
      Seen(name) == UNION {globs[i].matches : i \in {j \in DOMAIN globs : globs[j].name = name}}
  IN IF Index(g.name) = {} THEN Append(globs, g)
     ELSE [globs EXCEPT ![Max(Index(g.name))].matches = @ \cup (g.matches \ Seen(g.name))]

(* Names with their matches. *)
Globs(N, X) == [name : N, matches : SUBSET X]

(* What MergeFind may have at hand: the names of the first response are    *)
(* its first ones. *)
Partial(first, N, X) ==
  {p \in Seq(Globs(N, X)) :
     Len(p) >= Len(first) /\ \A j \in DOMAIN first : p[j].name = first[j].name}

LEMMA MergeStepKeeps ==
  ASSUME NEW N, NEW X, NEW first, NEW globs \in Partial(first, N, X), first \in Seq(Globs(N, X)),
         NEW g \in Globs(N, X)
  PROVE  /\ MergeStep(first, globs, g) \in Partial(first, N, X)
         /\ AllMatches(MergeStep(first, globs, g)) = AllMatches(globs) \cup g.matches
         /\ \/ /\ Len(MergeStep(first, globs, g)) = Len(globs)
               /\ \A j \in DOMAIN globs : MergeStep(first, globs, g)[j].name = globs[j].name
            \/ /\ \A j \in DOMAIN first : first[j].name # g.name
               /\ MergeStep(first, globs, g) = Append(globs, g)
  <1> DEFINE S == Globs(N, X)
             ix == {i \in DOMAIN first : first[i].name = g.name}
             seen == UNION {globs[i].matches : i \in {j \in DOMAIN globs : globs[j].name = g.name}}
             r == MergeStep(first, globs, g)
  <1>1. /\ globs \in Seq(S) /\ Len(globs) >= Len(first) /\ first \in Seq(S)
        /\ \A j \in DOMAIN first : j \in DOMAIN globs /\ globs[j].name = first[j].name
    BY DEF Partial
  <1>2. CASE ix = {}
    <2>1. r = Append(globs, g)
      BY <1>2 DEF MergeStep
    <2>2. r \in Seq(S) /\ Len(r) = Len(globs) + 1 /\ r[Len(globs) + 1] = g
          /\ DOMAIN r = DOMAIN globs \cup {Len(globs) + 1} /\ \A j \in DOMAIN globs : r[j] = globs[j]
      BY <1>1, <2>1
    <2> HIDE DEF r, S
    <2>3. r \in Partial(first, N, X)
      BY <1>1, <2>2 DEF Partial, S
    <2>4. AllMatches(r) = AllMatches(globs) \cup g.matches
      <3>1. ASSUME NEW m \in AllMatches(r) PROVE m \in AllMatches(globs) \/ m \in g.matches
        <4>1. PICK i \in DOMAIN r : m \in r[i].matches
          BY <3>1, Zenon DEF AllMatches
        <4>2. (i \in DOMAIN globs /\ r[i] = globs[i]) \/ r[i] = g
          BY <2>2
        <4> QED
          BY <4>1, <4>2, Zenon DEF AllMatches
      <3>2. ASSUME NEW m \in AllMatches(globs) PROVE m \in AllMatches(r)
        <4>1. PICK i \in DOMAIN globs : m \in globs[i].matches
          BY <3>2, Zenon DEF AllMatches
        <4>2. i \in DOMAIN r /\ r[i] = globs[i]
          BY <2>2
        <4> QED
          BY <4>1, <4>2, Zenon DEF AllMatches
      <3>3. ASSUME NEW m \in g.matches PROVE m \in AllMatches(r)
        BY <2>2, Zenon DEF AllMatches
      <3> QED
        BY <3>1, <3>2, <3>3, Zenon
    <2> QED
      BY <1>2, <2>1, <2>3, <2>4 DEF r
  <1>3. CASE ix # {}
    <2> DEFINE k == Max(ix)
    <2>1. k \in ix
      <3>1. ix \in SUBSET (1..Len(first)) /\ Len(first) \in Nat
        BY <1>1
      <3> HIDE DEF ix
      <3> QED
        BY <1>3, <3>1, MaxMin
    <2>2. k \in DOMAIN globs /\ k \in DOMAIN first
      BY <1>1, <2>1
    <2>3. r = [globs EXCEPT ![k].matches = @ \cup (g.matches \ seen)]
      BY <1>3 DEF MergeStep
    <2> HIDE DEF k, ix
    <2>4. seen \subseteq AllMatches(globs)
      BY DEF AllMatches
    <2>5. globs[k] \in S /\ globs[k].matches \subseteq X /\ g.matches \subseteq X
      <3>1. globs[k] \in S
        <4> HIDE DEF S
        <4> QED
          BY <1>1, <2>2
      <3> QED
        BY <3>1 DEF Globs
    <2> DEFINE e == [globs[k] EXCEPT !.matches = @ \cup (g.matches \ seen)]
    <2> HIDE DEF seen
    <2>6. e \in S /\ e.name = globs[k].name /\ e.matches = globs[k].matches \cup (g.matches \ seen)
      BY <2>5 DEF Globs
    <2>7. r = [globs EXCEPT ![k] = e]
      BY <2>3
    <2> HIDE DEF e, r, S
    <2>8. r \in Seq(S) /\ Len(r) = Len(globs) /\ DOMAIN r = DOMAIN globs /\ r[k] = e
          /\ \A j \in DOMAIN globs : j # k => r[j] = globs[j]
      BY <1>1, <2>2, <2>6, <2>7
    <2>9. \A j \in DOMAIN globs : r[j].name = globs[j].name
      BY <2>6, <2>8
    <2>10. r \in Partial(first, N, X)
      BY <1>1, <2>8, <2>9 DEF Partial, S
    <2>11. AllMatches(r) = AllMatches(globs) \cup g.matches
      <3>1. ASSUME NEW m \in AllMatches(r) PROVE m \in AllMatches(globs) \/ m \in g.matches
        BY <2>2, <2>6, <2>8, <3>1, Zenon DEF AllMatches
      <3>2. ASSUME NEW m \in AllMatches(globs) PROVE m \in AllMatches(r)
        BY <2>2, <2>6, <2>8, <3>2, Zenon DEF AllMatches
      <3>3. ASSUME NEW m \in g.matches PROVE m \in AllMatches(r)
        <4>1. CASE m \in seen
          BY <2>4, <3>2, <4>1, Zenon
        <4>2. CASE m \notin seen
          BY <2>2, <2>6, <2>8, <4>2, Zenon DEF AllMatches
        <4> QED
          BY <4>1, <4>2
      <3> QED
        BY <3>1, <3>2, <3>3, Zenon
    <2> QED
      BY <2>8, <2>9, <2>10, <2>11 DEF r
  <1> QED
    BY <1>2, <1>3

(* MergeFind goes through the second response from the left. *)
LEMMA MergeFindSteps ==
  ASSUME NEW N, NEW X, NEW first \in Seq(Globs(N, X)),
         NEW second \in Seq(Globs(N, X))
  PROVE  \E h : /\ h[0] = first
                /\ \A i \in 1..Len(second) : h[i] = MergeStep(first, h[i - 1], second[i])
                /\ MergeFind(first, second) = h[Len(second)]
  <1> DEFINE S == Globs(N, X)
             V == Partial(first, N, X)
             n == Len(second)
             Op(p, g) == MergeStep(first, p, g)
             G == [p \in V \X (1..n) |-> Op(p[1], second[p[2]])]
             M == [s \in SUBSET (1..n) |-> Max(s)]
             E(f) == f = [s \in SUBSET DOMAIN second |->
                       IF s = {} THEN first ELSE Op(f[s \ {Max(s)}], second[Max(s)])]
             iter == CHOOSE f : E(f)
             h == [i \in 0..n |-> iter[1..i]]
  <1>1. n \in Nat /\ DOMAIN second = 1..n /\ \A i \in 1..n : second[i] \in S
    <2>1. second \in Seq(S)
      OBVIOUS
    <2> HIDE DEF S
    <2> QED
      BY <2>1
  <1>a. first \in V
    BY DEF Partial
  <1>2. G \in [V \X (1..n) -> V]
    <2>1. ASSUME NEW p \in V, NEW i \in 1..n PROVE Op(p, second[i]) \in V
      <3>1. second[i] \in S
        BY <1>1
      <3> HIDE DEF n
      <3> QED
        BY <3>1, MergeStepKeeps
    <2> HIDE DEF Op, V, n
    <2> QED
      BY <2>1
  <1>3. \A s \in SUBSET (1..n) : s # {} => M[s] \in s /\ M[s] = Max(s)
    BY <1>1, MaxMin
  <1>4. PICK f \in [SUBSET (1..n) -> V] : IsFold(f, n, first, G, M)
    <2> HIDE DEF n, G, M, V
    <2> QED
      BY <1>1, <1>a, <1>2, <1>3, FoldExists
  <1>5. ASSUME NEW s \in SUBSET (1..n), s # {}
        PROVE  G[<<f[s \ {M[s]}], M[s]>>] = Op(f[s \ {Max(s)}], second[Max(s)])
    <2> HIDE DEF Op, V
    <2>1. f[s \ {M[s]}] \in V /\ M[s] \in 1..n /\ M[s] = Max(s)
      BY <1>3, <1>5
    <2> QED
      BY <2>1
  <1>6. E(f)
    <2> HIDE DEF n, G, M, Op, V
    <2> QED
      BY <1>1, <1>4, <1>5 DEF IsFold
  <1>7. E(iter)
    <2> HIDE DEF E
    <2> QED
      BY <1>6
  <1>8. MergeFind(first, second) = iter[DOMAIN second]
    BY DEF MergeFind, FoldLeft, MapThenFoldSet, MergeStep
  <1>9. h[0] = first /\ h[n] = MergeFind(first, second)
    <2>1. iter[{}] = first
      <3> HIDE DEF Op
      <3> QED
        BY <1>7
    <2> HIDE DEF iter
    <2> QED
      BY <1>1, <1>8, <2>1, UpTo
  <1>10. ASSUME NEW i \in 1..n
         PROVE  h[i] = Op(h[i - 1], second[i])
    <2>1. /\ 1..i \in SUBSET DOMAIN second /\ 1..i # {} /\ Max(1..i) = i
          /\ (1..i) \ {i} = 1..(i - 1) /\ i - 1 \in 0..n /\ i \in 0..n
      <3> HIDE DEF n
      <3> QED
        BY <1>1, UpTo
    <2>2. iter[1..i] = Op(iter[1..(i - 1)], second[i])
      <3> HIDE DEF iter, Op
      <3> QED
        BY <1>7, <2>1
    <2> HIDE DEF iter, Op
    <2> QED
      BY <2>1, <2>2
  <1> HIDE DEF h
  <1> QED
    BY <1>9, <1>10

Distinct(globs) == \A i, j \in DOMAIN globs : globs[i].name = globs[j].name => i = j

(* ServerFindResponse.Merge keeps every match, and names once if both have *)
(* them once. *)
LEMMA MergeFindKeeps ==
  ASSUME NEW first, IsGlobs(first), NEW second, IsGlobs(second)
  PROVE  /\ IsGlobs(MergeFind(first, second))
         /\ AllMatches(MergeFind(first, second)) = AllMatches(first) \cup AllMatches(second)
         /\ Distinct(first) /\ Distinct(second) => Distinct(MergeFind(first, second))
  <1> DEFINE both == Range(first) \cup Range(second)
             N == {g.name : g \in both}
             X == UNION {g.matches : g \in both}
             S == Globs(N, X)
             n == Len(second)
  <1>1. both \subseteq S
    <2>1. ASSUME NEW g \in both PROVE g \in S
      <3>1. g = Glob(g.name, g.matches) /\ g.name \in N /\ g.matches \subseteq X
        BY DEF IsGlobs
      <3> HIDE DEF N, X
      <3> QED
        BY <3>1 DEF Glob, Globs
    <2> QED
      BY <2>1
  <1>2. first \in Seq(S) /\ second \in Seq(S)
    <2> HIDE DEF S
    <2> QED
      BY <1>1 DEF IsGlobs
  <1>3. n \in Nat /\ DOMAIN second = 1..n /\ \A i \in 1..n : second[i] \in S
    <2> HIDE DEF S
    <2> QED
      BY <1>2
  <1>4. PICK h : /\ h[0] = first
                 /\ \A i \in 1..n : h[i] = MergeStep(first, h[i - 1], second[i])
                 /\ MergeFind(first, second) = h[n]
    <2>1. first \in Seq(Globs(N, X)) /\ second \in Seq(Globs(N, X))
      BY <1>2
    <2> HIDE DEF N, X
    <2> QED
      BY <2>1, MergeFindSteps
  <1> HIDE DEF n, S, N, X
  <1> DEFINE P == Partial(first, N, X)
             Up(i) == UNION {second[j].matches : j \in 1..i}
             (* the names after those of first come from second *)
             Fresh(i) == \A k \in DOMAIN h[i] : k > Len(first) =>
                           /\ \E j \in 1..i : h[i][k].name = second[j].name
                           /\ \A j \in DOMAIN first : first[j].name # h[i][k].name
             Fine(i) == /\ h[i] \in P
                        /\ AllMatches(h[i]) = AllMatches(first) \cup Up(i)
                        /\ Distinct(first) /\ Distinct(second) => Distinct(h[i]) /\ Fresh(i)
             T == {i \in Nat : i <= n => Fine(i)}
  <1>5. 0 \in T
    <2>1. h[0] \in P
      BY <1>2, <1>4 DEF Partial, S
    <2>2. Up(0) = {}
      OBVIOUS
    <2>3. Fresh(0)
      BY <1>2, <1>4
    <2> HIDE DEF Fresh, Up, P
    <2> QED
      BY <1>4, <2>1, <2>2, <2>3
  <1>6. ASSUME NEW i \in Nat, i \in T PROVE i + 1 \in T
    <2> SUFFICES ASSUME i + 1 <= n PROVE Fine(i + 1)
      OBVIOUS
    <2>1. Fine(i) /\ i + 1 \in 1..n /\ (i + 1) - 1 = i /\ second[i + 1] \in S
      BY <1>3, <1>6
    <2> DEFINE g == second[i + 1]
               p == h[i]
               r == h[i + 1]
    <2>2. r = MergeStep(first, p, g)
      BY <1>4, <2>1
    <2>3. /\ r \in P
          /\ AllMatches(r) = AllMatches(p) \cup g.matches
          /\ \/ Len(r) = Len(p) /\ \A j \in DOMAIN p : r[j].name = p[j].name
             \/ (\A j \in DOMAIN first : first[j].name # g.name) /\ r = Append(p, g)
      <3>1. p \in Partial(first, N, X) /\ g \in Globs(N, X)
            /\ first \in Seq(Globs(N, X))
        BY <1>2, <2>1 DEF S
      <3> HIDE DEF g, p, r
      <3> QED
        BY <2>2, <3>1, MergeStepKeeps
    <2>4. Up(i + 1) = Up(i) \cup g.matches
      <3>1. 1..(i + 1) = 1..i \cup {i + 1}
        OBVIOUS
      <3> QED
        BY <3>1, Zenon
    <2>5. ASSUME Distinct(first), Distinct(second) PROVE Distinct(r) /\ Fresh(i + 1)
      <3>1. Distinct(p) /\ Fresh(i)
        BY <2>1, <2>5
      <3>2. p \in Seq(S) /\ r \in Seq(S) /\ Len(p) >= Len(first) /\ first \in Seq(S)
            /\ \A j \in DOMAIN first : j \in DOMAIN p /\ p[j].name = first[j].name
        BY <1>2, <2>1, <2>3 DEF Partial, S
      <3>3. CASE Len(r) = Len(p) /\ \A j \in DOMAIN p : r[j].name = p[j].name
        <4>1. DOMAIN r = DOMAIN p
          BY <3>2, <3>3
        <4>2. Distinct(r)
          BY <3>1, <3>3, <4>1 DEF Distinct
        <4>3. \A k \in DOMAIN r : k > Len(first) => r[k].name = p[k].name /\ k \in DOMAIN p
          BY <3>3, <4>1
        <4>4. \A j \in 1..i : j \in 1..(i + 1)
          OBVIOUS
        <4>5. Fresh(i + 1)
          <5> HIDE DEF p, r
          <5> QED
            BY <3>1, <4>3, <4>4 DEF p, r
        <4> QED
          BY <4>2, <4>5
      <3>4. CASE (\A j \in DOMAIN first : first[j].name # g.name) /\ r = Append(p, g)
        <4>1. /\ DOMAIN r = DOMAIN p \cup {Len(p) + 1} /\ r[Len(p) + 1] = g
              /\ \A k \in DOMAIN p : r[k] = p[k]
          BY <3>2, <3>4
        <4>2. \A k \in DOMAIN p : p[k].name # g.name
          <5> TAKE k \in DOMAIN p
          <5>1. CASE k > Len(first)
            <6>1. PICK j \in 1..i : p[k].name = second[j].name
              BY <3>1, <5>1
            <6>2. j \in DOMAIN second /\ i + 1 \in DOMAIN second /\ j # i + 1
              BY <1>3, <2>1
            <6> QED
              BY <2>5, <6>1, <6>2 DEF Distinct
          <5>2. CASE ~(k > Len(first))
            <6>1. k \in DOMAIN first
              BY <3>2, <5>2
            <6> QED
              BY <3>2, <3>4, <6>1
          <5> QED
            BY <5>1, <5>2
        <4>3. Distinct(r)
          BY <3>1, <4>1, <4>2 DEF Distinct
        <4>4. Fresh(i + 1)
          <5>1. ASSUME NEW k \in DOMAIN r, k > Len(first)
                PROVE  /\ \E j \in 1..(i + 1) : r[k].name = second[j].name
                       /\ \A j \in DOMAIN first : first[j].name # r[k].name
            <6>1. CASE k \in DOMAIN p
              <7>1. PICK j \in 1..i : p[k].name = second[j].name
                BY <3>1, <5>1, <6>1
              <7>2. j \in 1..(i + 1)
                OBVIOUS
              <7>3. \A l \in DOMAIN first : first[l].name # p[k].name
                BY <3>1, <5>1, <6>1
              <7> QED
                BY <4>1, <6>1, <7>1, <7>2, <7>3
            <6>2. CASE k \notin DOMAIN p
              <7>1. r[k] = g /\ i + 1 \in 1..(i + 1)
                BY <4>1, <6>2
              <7> QED
                BY <3>4, <7>1
            <6> QED
              BY <6>1, <6>2
          <5> QED
            BY <5>1
        <4> QED
          BY <4>3, <4>4
      <3> QED
        BY <2>3, <3>3, <3>4
    <2> HIDE DEF Up, Fresh, P
    <2>6. AllMatches(r) = AllMatches(first) \cup Up(i + 1)
      BY <2>1, <2>3, <2>4
    <2> QED
      BY <2>3, <2>5, <2>6
  <1>7. Fine(n)
    <2> HIDE DEF Fine
    <2>1. n \in T
      <3> HIDE DEF T
      <3> QED
        BY <1>3, <1>5, <1>6, NatInd
    <2> QED
      BY <1>3, <2>1
  <1>8. Up(n) = AllMatches(second)
    BY <1>3 DEF AllMatches
  <1>9. IsGlobs(h[n])
    <2>1. h[n] \in Seq(S)
      BY <1>7 DEF Partial, S
    <2>2. h[n] \in Seq(Range(h[n])) /\ Range(h[n]) \subseteq S
      BY <2>1 DEF Range
    <2>3. \A x \in S : x = Glob(x.name, x.matches)
      BY DEF S, Globs, Glob
    <2> QED
      BY <2>2, <2>3 DEF IsGlobs
  <1> QED
    BY <1>4, <1>7, <1>8, <1>9

LEMMA SimpleGlobs ==
  ASSUME NEW name, NEW matches
  PROVE  /\ IsGlobs(<<>>) /\ AllMatches(<<>>) = {} /\ Distinct(<<>>)
         /\ IsGlobs(<<Glob(name, matches)>>) /\ <<Glob(name, matches)>>[1].name = name
  <1>1. IsGlobs(<<>>) /\ AllMatches(<<>>) = {} /\ Distinct(<<>>)
    BY DEF IsGlobs, Range, AllMatches, Distinct
  <1> DEFINE g == Glob(name, matches)
             s == <<g>>
  <1>2. g = Glob(g.name, g.matches) /\ g.name = name
    BY DEF Glob
  <1> HIDE DEF g
  <1>3. Range(s) = {g} /\ s \in Seq({g}) /\ s[1] = g
    BY DEF Range
  <1>4. IsGlobs(s)
    BY <1>2, <1>3 DEF IsGlobs
  <1> QED
    BY <1>1, <1>2, <1>3, <1>4 DEF g

(* A sequence is one of its own elements. *)
LEMMA OwnElements ==
  ASSUME NEW S, NEW q \in Seq(S)
  PROVE  q \in Seq(Range(q)) /\ Range(q) \subseteq S
  BY DEF Range

(* What a child puts together of its answers to each query. *)
LEMMA FlattenGlobs ==
  ASSUME NEW R, NEW ss \in Seq(R), NEW n \in Nat, n = Len(ss),
         \A k \in 1..n : IsGlobs(ss[k])
  PROVE  IsGlobs(FlattenSeq(ss))
  <1> DEFINE S == UNION {Range(ss[k]) : k \in 1..n}
  <1>1. ASSUME NEW k \in 1..n PROVE ss[k] \in Seq(S)
    <2>1. Range(ss[k]) \subseteq S
      OBVIOUS
    <2>2. ss[k] \in Seq(Range(ss[k]))
      BY DEF IsGlobs
    <2> HIDE DEF S
    <2> QED
      BY <2>1, <2>2
  <1>2. \A g \in S : g = Glob(g.name, g.matches)
    BY DEF IsGlobs
  <1> HIDE DEF S
  <1>3. ss \in Seq(Seq(S))
    BY <1>1
  <1>4. FlattenSeq(ss) \in Seq(S)
    BY <1>3, FlattenElements
  <1>5. FlattenSeq(ss) \in Seq(Range(FlattenSeq(ss))) /\ Range(FlattenSeq(ss)) \subseteq S
    BY <1>4, OwnElements
  <1> QED
    BY <1>2, <1>5 DEF IsGlobs

(* If it takes at most one of each, of different names, names are distinct. *)
Singles(n, ss) ==
  /\ \A k \in 1..n : IsGlobs(ss[k]) /\ (ss[k] = <<>> \/ Len(ss[k]) = 1)
  /\ \A j, k \in 1..n : ss[j] # <<>> /\ ss[k] # <<>> /\ ss[j][1].name = ss[k][1].name => j = k

LEMMA FlattenDistinct ==
  ASSUME NEW R, NEW ss \in Seq(R), NEW n \in Nat, n = Len(ss),
         Singles(n, ss)
  PROVE  Distinct(FlattenSeq(ss))
  <1> DEFINE S == UNION {Range(ss[k]) : k \in 1..n}
  <1>1. ASSUME NEW k \in 1..n PROVE ss[k] \in Seq(S)
    <2>1. Range(ss[k]) \subseteq S
      OBVIOUS
    <2>2. ss[k] \in Seq(Range(ss[k]))
      BY DEF Singles, IsGlobs
    <2> HIDE DEF S
    <2> QED
      BY <2>1, <2>2
  <1> HIDE DEF S
  <1>3. ss \in Seq(Seq(S)) /\ Len(ss) = n
    BY <1>1
  <1>4. CASE ss = <<>>
    BY <1>4, SimpleGlobs DEF FlattenSeq
  <1>5. CASE ss # <<>>
    <2>1. PICK f \in [1..n -> Seq(S)] :
            /\ f[1] = ss[1] /\ f[n] = FlattenSeq(ss)
            /\ \A i \in 2..n : f[i] = f[i-1] \o ss[i]
      <3>1. \E g \in [1..Len(ss) -> Seq(S)] :
              /\ g[1] = ss[1] /\ g[Len(ss)] = FlattenSeq(ss)
              /\ \A i \in 2..Len(ss) : g[i] = g[i-1] \o ss[i]
        BY <1>3, <1>5, FlattenFunction, Zenon
      <3> QED
        BY <1>3, <3>1, Zenon
    <2>a. 1 \in 1..n
      BY <1>3, <1>5
    <2>2. /\ f \in [1..n -> Seq(S)] /\ f[1] = ss[1] /\ f[n] = FlattenSeq(ss) /\ 1 \in 1..n
          /\ \A i \in 2..n : f[i] = f[i-1] \o ss[i]
      BY <2>a, <2>1
    <2> DEFINE From(i) == \A l \in DOMAIN f[i] : \E j \in 1..i : ss[j] # <<>> /\ ss[j][1].name = f[i][l].name
               U == {i \in Nat : i + 1 <= n => Distinct(f[i + 1]) /\ From(i + 1)}
    <2>3. 0 \in U
      <3>1. ss[1] \in Seq(S) /\ (ss[1] = <<>> \/ Len(ss[1]) = 1)
        BY <1>1, <2>2 DEF Singles
      <3>2. Distinct(ss[1])
        BY <3>1 DEF Distinct
      <3>3. From(1)
        <4> SUFFICES ASSUME NEW l \in DOMAIN ss[1] PROVE ss[1] # <<>> /\ l = 1
          BY <2>2
        <4> QED
          BY <3>1
      <3> QED
        BY <2>2, <3>2, <3>3
    <2>4. ASSUME NEW i \in Nat, i \in U PROVE i + 1 \in U
      <3> SUFFICES ASSUME i + 2 <= n PROVE Distinct(f[i + 2]) /\ From(i + 2)
        BY (i + 1) + 1 = i + 2
      <3> DEFINE p == f[i + 1]
                 r == f[i + 2]
                 e == ss[i + 2]
      <3>1. /\ i + 2 \in 2..n /\ (i + 2) - 1 = i + 1 /\ i + 1 \in 1..n /\ i + 2 \in 1..n
            /\ Distinct(p) /\ From(i + 1)
        BY <2>4
      <3>2. r = p \o e /\ p \in Seq(S) /\ e \in Seq(S) /\ (e = <<>> \/ Len(e) = 1)
        BY <1>1, <2>2, <3>1 DEF Singles
      <3>3. CASE e = <<>>
        <4>1. r = p
          <5> HIDE DEF p, r, e
          <5> QED
            BY <3>2, <3>3
        <4>2. \A j \in 1..(i + 1) : j \in 1..(i + 2)
          OBVIOUS
        <4> QED
          BY <3>1, <4>1, <4>2
      <3>4. CASE Len(e) = 1
        <4>1. /\ DOMAIN r = DOMAIN p \cup {Len(p) + 1} /\ r[Len(p) + 1] = e[1]
              /\ (\A k \in DOMAIN p : r[k] = p[k]) /\ e # <<>>
          <5> HIDE DEF p, r, e
          <5>1. Len(r) = Len(p) + 1 /\ r \in Seq(S) /\ Len(p) \in Nat
            <6>1. r = p \o e /\ p \in Seq(S) /\ e \in Seq(S)
              BY <3>2
            <6>2. Len(r) = Len(p) + Len(e) /\ r \in Seq(S) /\ Len(p) \in Nat
              BY <6>1
            <6> QED
              BY <3>4, <6>2
          <5>2. \A k \in 1..Len(p) : r[k] = p[k]
            BY <3>2
          <5>3. r[Len(p) + 1] = e[1]
            <6>1. r = p \o e /\ p \in Seq(S) /\ e \in Seq(S)
              BY <3>2
            <6>2. DOMAIN (p \o e) = 1..(Len(p) + Len(e)) /\ DOMAIN e = 1..Len(e) /\ Len(p) \in Nat /\ Len(e) \in Nat
              BY <6>1
            <6>3. \A k \in DOMAIN e : (p \o e)[Len(p) + k] = e[k]
              BY <6>1, <6>2
            <6>4. 1 \in DOMAIN e
              BY <3>4, <6>2
            <6> QED
              BY <6>1, <6>3, <6>4
          <5>4. e # <<>>
            <6>1. Len(<<>>) = 0 /\ 0 # 1
              OBVIOUS
            <6> QED
              BY <3>4, <6>1, Zenon
          <5> QED
            BY <3>2, <5>1, <5>2, <5>3, <5>4
        <4>2. ASSUME NEW k \in DOMAIN p PROVE p[k].name # e[1].name
          <5>1. PICK j \in 1..(i + 1) : ss[j] # <<>> /\ ss[j][1].name = p[k].name
            BY <3>1
          <5>2. j \in 1..n /\ j # i + 2
            BY <3>1
          <5> QED
            BY <3>1, <4>1, <5>1, <5>2 DEF Singles
        <4>3. Distinct(r)
          BY <3>1, <4>1, <4>2 DEF Distinct
        <4>4. From(i + 2)
          <5>1. ASSUME NEW l \in DOMAIN r PROVE \E j \in 1..(i + 2) : ss[j] # <<>> /\ ss[j][1].name = r[l].name
            <6>1. CASE l \in DOMAIN p
              <7>1. PICK j \in 1..(i + 1) : ss[j] # <<>> /\ ss[j][1].name = p[l].name
                BY <3>1, <6>1
              <7>2. j \in 1..(i + 2)
                OBVIOUS
              <7> QED
                BY <4>1, <6>1, <7>1, <7>2
            <6>2. CASE l \notin DOMAIN p
              <7>1. r[l] = e[1] /\ i + 2 \in 1..(i + 2)
                BY <4>1, <6>2
              <7> QED
                BY <4>1, <7>1
            <6> QED
              BY <6>1, <6>2
          <5> QED
            BY <5>1
        <4> QED
          BY <4>3, <4>4
      <3> QED
        BY <3>2, <3>3, <3>4
    <2>5. n - 1 \in Nat /\ (n - 1) + 1 = n
      BY <2>2
    <2>6. n - 1 \in U
      <3> HIDE DEF U
      <3> QED
        BY <2>3, <2>4, <2>5, NatInd
    <2> QED
      BY <2>2, <2>5, <2>6
  <1> QED
    BY <1>4, <1>5

(* Each name with its matches, or nothing. *)
OneOrNone(qs, ss) ==
  /\ DOMAIN ss = DOMAIN qs
  /\ \A k \in DOMAIN qs : ss[k] = <<>> \/ \E m : ss[k] = <<Glob(qs[k], m)>>

LEMMA OneForEach ==
  ASSUME NEW Q, NEW qs \in Seq(Q), NEW R, NEW ss \in Seq(R), OneOrNone(qs, ss)
  PROVE  IsGlobs(FlattenSeq(ss)) /\ (IsInjective(qs) => Distinct(FlattenSeq(ss)))
  <1> DEFINE n == Len(ss)
  <1>1. n \in Nat /\ DOMAIN qs = 1..n
    BY DEF OneOrNone
  <1>2. ASSUME NEW k \in 1..n
        PROVE  IsGlobs(ss[k]) /\ (ss[k] # <<>> => Len(ss[k]) = 1 /\ ss[k][1].name = qs[k])
    <2>1. CASE ss[k] = <<>>
      BY <2>1, SimpleGlobs
    <2>2. CASE ss[k] # <<>>
      <3>1. PICK m : ss[k] = <<Glob(qs[k], m)>>
        BY <1>1, <2>2 DEF OneOrNone
      <3>2. Len(<<Glob(qs[k], m)>>) = 1
        OBVIOUS
      <3>3. IsGlobs(<<Glob(qs[k], m)>>) /\ <<Glob(qs[k], m)>>[1].name = qs[k]
        BY SimpleGlobs
      <3> QED
        BY <3>1, <3>2, <3>3, Zenon
    <2> QED
      BY <2>1, <2>2
  <1>3. IsGlobs(FlattenSeq(ss))
    <2> HIDE DEF n
    <2> QED
      BY <1>1, <1>2, FlattenGlobs DEF n
  <1>4. ASSUME IsInjective(qs) PROVE Distinct(FlattenSeq(ss))
    <2>1. \A j, k \in DOMAIN qs : qs[j] = qs[k] => j = k
      BY <1>4 DEF IsInjective
    <2>2. Singles(n, ss)
      <3> HIDE DEF n
      <3> QED
        BY <1>1, <1>2, <2>1, Zenon DEF Singles
    <2> HIDE DEF n
    <2> QED
      BY <1>1, <2>2, FlattenDistinct DEF n
  <1> QED
    BY <1>3, <1>4

(* Names without matches are left out, the others stay. *)
LEMMA MatchingGlobs ==
  ASSUME NEW Q, NEW qs \in Seq(Q), NEW globs, DOMAIN globs = DOMAIN qs,
         \A k \in DOMAIN qs : \E m : globs[k] = Glob(qs[k], m)
  PROVE  IsGlobs(Matching(globs)) /\ (IsInjective(qs) => Distinct(Matching(globs)))
  <1> DEFINE ss == [k \in DOMAIN globs |-> IF globs[k].matches # {} THEN <<globs[k]>> ELSE <<>>]
             R == {ss[k] : k \in DOMAIN globs}
  <1>1. \A k \in DOMAIN qs : ss[k] = <<>> \/ \E m : ss[k] = <<Glob(qs[k], m)>>
    <2> TAKE k \in DOMAIN qs
    <2>1. PICK m : globs[k] = Glob(qs[k], m)
      OBVIOUS
    <2>2. ss[k] = <<>> \/ ss[k] = <<globs[k]>>
      OBVIOUS
    <2> QED
      BY <2>1, <2>2, Zenon
  <1>2. ss \in Seq(R) /\ DOMAIN ss = DOMAIN qs
    <2>1. DOMAIN globs = 1..Len(qs) /\ Len(qs) \in Nat
      OBVIOUS
    <2>2. ss \in [1..Len(qs) -> R]
      BY <2>1
    <2> HIDE DEF ss, R
    <2> QED
      BY <2>1, <2>2
  <1> HIDE DEF ss, R
  <1>3. IsGlobs(FlattenSeq(ss)) /\ (IsInjective(qs) => Distinct(FlattenSeq(ss)))
    BY <1>1, <1>2, OneForEach, Zenon DEF OneOrNone
  <1> QED
    BY <1>3 DEF Matching, ss

(* Matches served by a server are finitely many. *)
LEMMA ServedFinite ==
  ASSUME NEW ch, IsFiniteSet(ch.holds), NEW q
  PROVE  IsFiniteSet(Served(ch, q))
  <1> DEFINE S == {g \in ch.holds : Fits(q, g)}
             F == [h \in S |-> [path |-> SubSeq(h, 1, Len(q.base) + 1), leaf |-> Len(h) = Len(q.base) + 1]]
  <1>1. IsFiniteSet(S)
    <2>1. S \in SUBSET ch.holds
      OBVIOUS
    <2> HIDE DEF S
    <2> QED
      BY <2>1, FS_Subset
  <1>2. Served(ch, q) = {F[h] : h \in S}
    BY DEF Served
  <1> HIDE DEF S, F
  <1> QED
    BY <1>1, <1>2, FiniteImage

LEMMA GrowingGlobs ==
  ASSUME NEW name, NEW matches, IsFiniteSet(matches)
  PROVE  IsGlobs(Growing(name, matches))
  <1> DEFINE order == SetToSeq(matches)
             r == Growing(name, matches)
  <1>1. order \in Seq(matches)
    BY SetToSeqElements
  <1> HIDE DEF order
  <1>2. r = [i \in DOMAIN order |-> Glob(name, {order[j] : j \in 1..i})]
    BY DEF Growing, order
  <1> HIDE DEF r
  <1>3. DOMAIN r = 1..Len(order) /\ Len(order) \in Nat
    BY <1>1, <1>2
  <1>4. r \in Seq(Range(r))
    <2>1. r \in [1..Len(order) -> Range(r)]
      BY <1>2, <1>3 DEF Range
    <2> QED
      BY <1>3, <2>1
  <1>5. \A g \in Range(r) : g = Glob(g.name, g.matches)
    <2> SUFFICES ASSUME NEW i \in DOMAIN r PROVE r[i] = Glob(r[i].name, r[i].matches)
      BY DEF Range
    <2> DEFINE ms == {order[j] : j \in 1..i}
    <2>1. r[i] = Glob(name, ms)
      BY <1>2
    <2> HIDE DEF ms
    <2> QED
      BY <2>1 DEF Glob
  <1> QED
    BY <1>4, <1>5 DEF IsGlobs, r

(* A sequence for each query. *)
LEMMA PartsOfQueries ==
  ASSUME NEW Q, NEW qs \in Seq(Q), NEW R, NEW ss \in [DOMAIN qs -> R]
  PROVE  ss \in Seq(R)
  <1>1. DOMAIN qs = 1..Len(qs) /\ Len(qs) \in Nat
    OBVIOUS
  <1> QED
    BY <1>1

LEMMA EachGlobs ==
  ASSUME NEW Q, NEW qs \in Seq(Q), NEW fate, NEW f, \A k \in DOMAIN qs : IsGlobs(f[k])
  PROVE  IsGlobs(FlattenSeq([k \in DOMAIN qs |-> IF fate[k] = "ok" THEN f[k] ELSE <<>>]))
  <1> DEFINE ss == [k \in DOMAIN qs |-> IF fate[k] = "ok" THEN f[k] ELSE <<>>]
             R == {ss[k] : k \in DOMAIN qs}
  <1>1. ss \in [DOMAIN qs -> R] /\ DOMAIN ss = DOMAIN qs
    OBVIOUS
  <1>2. \A k \in DOMAIN qs : IsGlobs(ss[k])
    BY SimpleGlobs
  <1>3. DOMAIN qs = 1..Len(qs) /\ Len(qs) \in Nat
    OBVIOUS
  <1>4. ss \in Seq(R)
    <2> HIDE DEF ss, R
    <2> QED
      BY <1>1, PartsOfQueries
  <1> HIDE DEF ss, R
  <1>5. Len(ss) = Len(qs)
    BY <1>1, <1>3, <1>4
  <1>6. IsGlobs(FlattenSeq(ss))
    BY <1>2, <1>3, <1>4, <1>5, FlattenGlobs
  <1> QED
    BY <1>6 DEF ss

(* What any protocol makes of a find is a sequence of names with their     *)
(* matches; those that send a query for names as they are return each once.*)
LEMMA FindServerAnswers ==
  ASSUME NEW ch, ch.proto \in Protocols, IsFiniteSet(ch.holds), NEW Q, NEW qs \in Seq(Q),
         NEW fate \in FindFates(ch, qs), NEW leaf
  PROVE  /\ IsGlobs(FindServer(ch, qs, fate, leaf).metrics)
         /\ ch.proto \notin {"prometheus", "victoriametrics", "irondb"} /\ IsInjective(qs)
              => Distinct(FindServer(ch, qs, fate, leaf).metrics)
  <1> DEFINE a == FindServer(ch, qs, fate, leaf)
             Wild(q) == [q EXCEPT !.wild = TRUE]
  <1>1. \A x, y : Answered(x, y).metrics = x
    BY DEF Answered
  <1>2. ASSUME NEW x, \E y : a = Answered(x, y),
               IsGlobs(x) /\ (IsInjective(qs) => Distinct(x))
        PROVE  IsGlobs(a.metrics) /\ (IsInjective(qs) => Distinct(a.metrics))
    BY <1>1, <1>2
  <1>a. IsGlobs(<<>>) /\ Distinct(<<>>)
    BY SimpleGlobs
  <1>3. CASE ch.proto = "carbonapi_v2_pb"
    <2> DEFINE globs == [k \in DOMAIN qs |-> Glob(qs[k], IF fate[k] = "ok" THEN Served(ch, qs[k]) ELSE {})]
    <2>1. \E y : a = Answered(<<>>, y) \/ a = Answered(Matching(globs), y)
      BY <1>3, Zenon DEF FindServer, FindV2
    <2>2. DOMAIN globs = DOMAIN qs /\ \A k \in DOMAIN qs : \E m : globs[k] = Glob(qs[k], m)
      OBVIOUS
    <2> HIDE DEF globs, a
    <2>3. IsGlobs(Matching(globs)) /\ (IsInjective(qs) => Distinct(Matching(globs)))
      BY <2>2, MatchingGlobs
    <2> QED
      BY <1>2, <1>a, <2>1, <2>3 DEF a
  <1>4. CASE ch.proto = "carbonapi_v3_pb"
    <2> DEFINE globs == [k \in DOMAIN qs |-> Glob(qs[k], Served(ch, qs[k]))]
    <2>1. \E y : a = Answered(<<>>, y) \/ a = Answered(Matching(globs), y)
      BY <1>4, Zenon DEF FindServer, FindV3
    <2>2. DOMAIN globs = DOMAIN qs /\ \A k \in DOMAIN qs : \E m : globs[k] = Glob(qs[k], m)
      OBVIOUS
    <2> HIDE DEF globs, a
    <2>3. IsGlobs(Matching(globs)) /\ (IsInjective(qs) => Distinct(Matching(globs)))
      BY <2>2, MatchingGlobs
    <2> QED
      BY <1>2, <1>a, <2>1, <2>3 DEF a
  <1>5. CASE ch.proto = "graphite"
    <2> DEFINE ss == [k \in DOMAIN qs |-> IF fate[k] = "ok" THEN <<Glob(qs[k], Served(ch, qs[k]))>> ELSE <<>>]
               R == {ss[k] : k \in DOMAIN qs}
    <2>1. \E y : a = Answered(FlattenSeq(ss), y)
      BY <1>5, Zenon DEF FindServer, FindGraphite, Each
    <2>2. OneOrNone(qs, ss)
      BY Zenon DEF OneOrNone
    <2>3. ss \in Seq(R)
      <3>1. ss \in [DOMAIN qs -> R]
        OBVIOUS
      <3> HIDE DEF ss, R
      <3> QED
        BY <3>1, PartsOfQueries
    <2> HIDE DEF ss, R, a
    <2>4. IsGlobs(FlattenSeq(ss)) /\ (IsInjective(qs) => Distinct(FlattenSeq(ss)))
      BY <2>2, <2>3, OneForEach
    <2> QED
      BY <1>2, <2>1, <2>4 DEF a
  <1>6. CASE ch.proto = "irondb"
    <2> DEFINE f == [k \in DOMAIN qs |-> Growing(qs[k], Served(ch, qs[k]))]
    <2>1. \A k \in DOMAIN qs : IsGlobs(f[k])
      BY ServedFinite, GrowingGlobs
    <2> DEFINE ss == [k \in DOMAIN qs |-> IF fate[k] = "ok" THEN Growing(qs[k], Served(ch, qs[k])) ELSE <<>>]
    <2>2. ss = [k \in DOMAIN qs |-> IF fate[k] = "ok" THEN f[k] ELSE <<>>]
      OBVIOUS
    <2>3. \E y : a = Answered(FlattenSeq(ss), y)
      BY <1>6, Zenon DEF FindServer, FindIrondb, Each
    <2> HIDE DEF f, ss, a
    <2>4. IsGlobs(FlattenSeq([k \in DOMAIN qs |-> IF fate[k] = "ok" THEN f[k] ELSE <<>>]))
      BY <2>1, EachGlobs
    <2>5. IsGlobs(FlattenSeq(ss))
      BY <2>2, <2>4
    <2> QED
      BY <1>1, <1>6, <2>3, <2>5, Zenon DEF a
  <1>7. ASSUME a = FindPrometheus(ch, qs, fate, leaf) PROVE IsGlobs(a.metrics)
    <2> DEFINE Unique(k) == UNION {Served(ch, Wild(qs[j])) : j \in {i \in 1..k : fate[i] = "ok"}}
               Flagged(ms) == {m \in ms : m.leaf = leaf \/ [m EXCEPT !.leaf = leaf] \notin ms}
               f == [k \in DOMAIN qs |-> Growing(Wild(qs[k]), Flagged(Unique(k)))]
    <2>1. ASSUME NEW k \in DOMAIN qs PROVE IsGlobs(f[k])
      <3> DEFINE F == [j \in 1..k |-> Served(ch, Wild(qs[j]))]
                 J == {i \in 1..k : fate[i] = "ok"}
      <3>1. IsFiniteSet(J)
        <4>1. IsFiniteSet(1..k) /\ J \in SUBSET (1..k)
          BY FS_Interval
        <4> HIDE DEF J
        <4> QED
          BY <4>1, FS_Subset
      <3>2. \A j \in J : IsFiniteSet(F[j])
        BY ServedFinite
      <3>3. Unique(k) = UNION {F[j] : j \in J}
        OBVIOUS
      <3>4. IsFiniteSet(Unique(k))
        <4> HIDE DEF F, J, Unique
        <4> QED
          BY <3>1, <3>2, <3>3, FiniteUnion
      <3> DEFINE u == Unique(k)
                 ms == Flagged(u)
      <3> HIDE DEF u, Wild
      <3>5. ms \in SUBSET u
        OBVIOUS
      <3>6. IsFiniteSet(ms)
        <4> HIDE DEF ms
        <4> QED
          BY <3>4, <3>5, FS_Subset DEF u
      <3>7. f[k] = Growing(Wild(qs[k]), ms)
        BY DEF u
      <3> HIDE DEF ms, f
      <3> QED
        BY <3>6, <3>7, GrowingGlobs
    <2> DEFINE ss == [k \in DOMAIN qs |-> IF fate[k] = "ok" THEN Growing(Wild(qs[k]), Flagged(Unique(k))) ELSE <<>>]
    <2>2. \E y : a = Answered(FlattenSeq(ss), y)
      BY <1>7, Zenon DEF FindPrometheus
    <2>3. ss = [k \in DOMAIN qs |-> IF fate[k] = "ok" THEN f[k] ELSE <<>>]
      <3> HIDE DEF Unique, Flagged, Wild
      <3> QED
        OBVIOUS
    <2> HIDE DEF f, ss, a
    <2>4. IsGlobs(FlattenSeq([k \in DOMAIN qs |-> IF fate[k] = "ok" THEN f[k] ELSE <<>>]))
      BY <2>1, EachGlobs
    <2>5. IsGlobs(FlattenSeq(ss))
      BY <2>3, <2>4
    <2> QED
      BY <1>1, <2>2, <2>5, Zenon DEF a
  <1>8. CASE ch.proto = "prometheus"
    BY <1>7, <1>8, Zenon DEF FindServer
  <1>9. CASE ch.proto = "victoriametrics"
    <2>1. CASE ~features.find
      BY <1>7, <1>9, <2>1, Zenon DEF FindServer
    <2>2. CASE features.find
      <3> DEFINE Dotted(q) == IF q.base = <<>> /\ q.last = "" THEN [q EXCEPT !.dot = TRUE] ELSE q
                 f == [k \in DOMAIN qs |-> <<Glob(Dotted(qs[k]), Served(ch, qs[k]))>>]
      <3> DEFINE ss == [k \in DOMAIN qs |->
                          IF fate[k] = "ok" THEN <<Glob(Dotted(qs[k]), Served(ch, qs[k]))>> ELSE <<>>]
      <3>1. \E y : a = Answered(FlattenSeq(ss), y)
        BY <1>9, <2>2, Zenon DEF FindServer, FindVm, Each
      <3> HIDE DEF Dotted
      <3>2. ss = [k \in DOMAIN qs |-> IF fate[k] = "ok" THEN f[k] ELSE <<>>]
        OBVIOUS
      <3>3. \A k \in DOMAIN qs : IsGlobs(f[k])
        BY SimpleGlobs
      <3> HIDE DEF f, ss, a
      <3>4. IsGlobs(FlattenSeq([k \in DOMAIN qs |-> IF fate[k] = "ok" THEN f[k] ELSE <<>>]))
        BY <3>3, EachGlobs
      <3>5. IsGlobs(FlattenSeq(ss))
        BY <3>2, <3>4
      <3> QED
        BY <1>1, <1>9, <3>1, <3>5, Zenon DEF a
    <2> QED
      BY <2>1, <2>2
  <1> QED
    BY <1>3, <1>4, <1>5, <1>6, <1>8, <1>9 DEF Protocols

------------------------------------------------------------(* Also of a group. *)
LEMMA FindAnswers ==
  ASSUME NEW ch, ch.proto \in Protocols, IsFiniteSet(ch.holds), NEW Q, NEW qs \in Seq(Q),
         NEW fate \in FindFates(ch, qs), NEW leaf
  PROVE  /\ IsGlobs(FindChild(ch, qs, fate, leaf).metrics)
         /\ ch.proto \notin {"prometheus", "victoriametrics", "irondb"} /\ IsInjective(qs)
              => Distinct(FindChild(ch, qs, fate, leaf).metrics)
  <1> DEFINE a == FindServer(ch, qs, fate, leaf)
             b == FindChild(ch, qs, fate, leaf)
             one == ch.proto \notin {"prometheus", "victoriametrics", "irondb"} /\ IsInjective(qs)
  <1>1. IsGlobs(a.metrics) /\ (one => Distinct(a.metrics))
    BY FindServerAnswers
  <1>2. b = IF ch.group THEN GroupFind(a) ELSE a
    BY DEF FindChild
  <1> HIDE DEF a, b, one
  <1>3. ch.group => \E metrics \in {<<>>, MergeFind(<<>>, a.metrics)} : \E codes : b = Answered(metrics, codes)
    <2> SUFFICES ASSUME ch.group
                 PROVE  \E metrics \in {<<>>, MergeFind(<<>>, a.metrics)} : \E codes : b = Answered(metrics, codes)
      OBVIOUS
    <2> DEFINE merged == MergeFind(<<>>, a.metrics)
               errors == IF a.codes = {} THEN {} ELSE {500}
    <2>1. b = GroupFind(a)
      BY <1>2
    <2>2. \/ b = Answered(<<>>, a.codes)
          \/ b = Answered(<<>>, {404})
          \/ b = Answered(merged, errors)
      BY <2>1, Zenon DEF GroupFind
    <2> HIDE DEF merged, errors
    <2>3. \E metrics, codes : b = Answered(metrics, codes) /\ (metrics = <<>> \/ metrics = merged)
      BY <2>2, ZenonT(30)
    <2> QED
      BY <2>3, ZenonT(30) DEF merged
  <1>4. ch.group => b.metrics \in {<<>>, MergeFind(<<>>, a.metrics)}
    BY <1>3 DEF Answered
  <1>5. IsGlobs(<<>>) /\ Distinct(<<>>)
    BY SimpleGlobs
  <1>6. IsGlobs(MergeFind(<<>>, a.metrics)) /\ (one => Distinct(MergeFind(<<>>, a.metrics)))
    BY <1>1, <1>5, MergeFindKeeps
  <1>7. IsGlobs(b.metrics) /\ (one => Distinct(b.metrics))
    BY <1>1, <1>2, <1>4, <1>5, <1>6
  <1> QED
    BY <1>7 DEF b, one

-----------------
(* Each name is asked for and returned once. *)
SingleNames ==
  /\ IsInjective(call.queries)
  /\ \A ch \in children : ch.proto \notin {"prometheus", "victoriametrics", "irondb"}

(* No backend is a group. *)
Plainly == \A ch \in children : ~ch.group

(* While the matches are gathered, what is merged is what was found. *)
FindMerged ==
  stage = "find" =>
    /\ IsGlobs(acc) /\ AllMatches(acc) = delivered
    /\ site.faults = {} /\ Plainly => failed = {}
    /\ SingleNames => Distinct(acc)

LEMMA FindMergedKept ==
  ASSUME ChildrenOK, CallOK, FindMerged, [BrowseNext]_browseVars
  PROVE  FindMerged'
  <1> SUFFICES ASSUME stage' = "find" PROVE FindMerged'
    BY DEF FindMerged
  <1>1. CASE \E c \in site.calls : Call(c) /\ c.op # "tags"
    <2>1. acc' = <<>> /\ delivered' = {} /\ failed' = {}
      BY <1>1 DEF Call
    <2> QED
      BY <2>1, SimpleGlobs DEF FindMerged
  <1>2. ASSUME NEW ch \in pending, ArriveFind(ch) PROVE FindMerged'
    <2>1. PICK fate \in FindFates(ch, call.queries), leaf \in BOOLEAN :
            LET a == FindChild(ch, call.queries, fate, leaf) IN
            /\ acc' = MergeFind(acc, a.metrics)
            /\ delivered' = delivered \cup AllMatches(a.metrics)
            /\ IF a.codes = {} THEN failed' = failed ELSE \E code \in a.codes : failed' = failed \cup {code}
      BY <1>2, Zenon DEF ArriveFind
    <2> DEFINE qs == call.queries
               a == FindChild(ch, qs, fate, leaf)
    <2>2. /\ stage = "find" /\ UNCHANGED <<site, children, call>>
          /\ ch \in children /\ ch.proto \in Protocols /\ IsFiniteSet(ch.holds) /\ site \in Sites
          /\ qs # <<>> /\ qs \in Seq(Range(qs))
      BY <1>2, BrowseAssumption DEF ArriveFind, ChildrenOK, CallOK
    <2>3. /\ IsGlobs(acc) /\ AllMatches(acc) = delivered
          /\ site.faults = {} /\ Plainly => failed = {}
          /\ SingleNames => Distinct(acc)
      BY <2>2 DEF FindMerged
    <2>4. IsGlobs(a.metrics) /\ (SingleNames => Distinct(a.metrics))
      BY <2>2, FindAnswers DEF SingleNames
    <2>5. site.faults = {} /\ Plainly => a.codes = {}
      <3> SUFFICES ASSUME site.faults = {}, Plainly PROVE a.codes = {}
        OBVIOUS
      <3>1. \A k \in DOMAIN qs : fate[k] = "ok"
        BY DEF FindFates
      <3>2. ~ch.group
        BY <2>2 DEF Plainly
      <3> QED
        BY <2>2, <3>1, <3>2, ChildErrorCodes
    <2> HIDE DEF a
    <2>6. /\ acc' = MergeFind(acc, a.metrics)
          /\ delivered' = delivered \cup AllMatches(a.metrics)
          /\ a.codes = {} => failed' = failed
      BY <2>1 DEF a
    <2>7. /\ IsGlobs(acc') /\ AllMatches(acc') = AllMatches(acc) \cup AllMatches(a.metrics)
          /\ Distinct(acc) /\ Distinct(a.metrics) => Distinct(acc')
      BY <2>3, <2>4, <2>6, MergeFindKeeps
    <2>8. SingleNames' = SingleNames /\ Plainly' = Plainly
      BY <2>2 DEF SingleNames, Plainly
    <2> QED
      BY <2>2, <2>3, <2>4, <2>5, <2>6, <2>7, <2>8 DEF FindMerged
  <1>3. CASE UNCHANGED browseVars
    BY <1>3 DEF browseVars, FindMerged, SingleNames, Plainly
  <1> QED
    BY <1>1, <1>2, <1>3, Stages

(* While the entries are gathered, every metric that was found is asked    *)
(* for and every child that answered has its entry. *)
InfoMerged ==
  stage = "info" /\ site.faults = {} /\ Plainly =>
    /\ \A m \in delivered : m.leaf => m.path \in names
    /\ failed = {} =>
         \A ch \in children \ pending :
           ch.proto \in InfoProtocols /\ ch.id \in DOMAIN acc /\ acc[ch.id] = InfoOf(ch)

LEMMA InfoMergedKept ==
  ASSUME ChildrenOK, CallOK, FindMerged, InfoMerged, [BrowseNext]_browseVars
  PROVE  InfoMerged'
  <1> SUFFICES ASSUME stage' = "info", site'.faults = {}, Plainly' PROVE InfoMerged'
    BY DEF InfoMerged
  <1>1. CASE AskInfo
    <2>1. stage = "find" /\ UNCHANGED <<site, children, delivered>> /\ pending' = children
      BY <1>1 DEF AskInfo
    <2>2. failed = {} /\ AllMatches(acc) = delivered
      BY <2>1 DEF FindMerged, Plainly
    <2>a. AllMatches(<<>>) = {}
      BY SimpleGlobs
    <2>3. FindGroup # 0 => delivered = {}
      BY <2>2, <2>a, SMTT(20) DEF FindGroup
    <2>4. FindGroup = 0 => names' = {m.path : m \in {f \in delivered : f.leaf}}
      BY <1>1, <2>2 DEF AskInfo
    <2>5. \A m \in delivered : m.leaf => m.path \in names'
      BY <2>3, <2>4
    <2> QED
      BY <2>1, <2>5 DEF InfoMerged
  <1>2. ASSUME NEW ch \in pending, ArriveInfo(ch) PROVE InfoMerged'
    <2>1. /\ stage = "info" /\ UNCHANGED <<site, children, delivered, names>> /\ pending' = pending \ {ch}
          /\ ch \in children
      BY <1>2 DEF ArriveInfo, ChildrenOK
    <2>2. /\ \A m \in delivered : m.leaf => m.path \in names
          /\ failed = {} =>
               \A d \in children \ pending :
                 d.proto \in InfoProtocols /\ d.id \in DOMAIN acc /\ acc[d.id] = InfoOf(d)
      BY <2>1 DEF InfoMerged, Plainly
    <2>3. ASSUME failed' = {}, NEW d \in children \ pending'
          PROVE  d.proto \in InfoProtocols /\ d.id \in DOMAIN acc' /\ acc'[d.id] = InfoOf(d)
      <3>1. ch.proto \in InfoProtocols /\ acc' = MergeInfo(acc, ch.id, InfoOf(ch)) /\ failed = {}
        BY <1>2, <2>3 DEF ArriveInfo
      <3>2. DOMAIN acc' = DOMAIN acc \cup {ch.id} /\ acc'[ch.id] = InfoOf(ch)
            /\ \A k \in DOMAIN acc : k # ch.id => acc'[k] = acc[k]
        BY <3>1 DEF MergeInfo
      <3>3. CASE d = ch
        BY <3>1, <3>2, <3>3
      <3>4. CASE d # ch
        <4>1. d \in children \ pending /\ d.id # ch.id
          BY <2>1, <3>4 DEF ChildrenOK
        <4> QED
          BY <2>2, <3>1, <3>2, <4>1
      <3> QED
        BY <3>3, <3>4
    <2>4. \A d : InfoOf(d)' = InfoOf(d)
      BY <2>1 DEF InfoOf, InfoV2, InfoV3, InfoGraphite
    <2> QED
      BY <2>1, <2>2, <2>3, <2>4 DEF InfoMerged
  <1>3. CASE UNCHANGED browseVars
    BY <1>3 DEF browseVars, InfoMerged, Plainly, InfoOf, InfoV2, InfoV3, InfoGraphite
  <1> QED
    BY <1>1, <1>2, <1>3, Stages

(* The handler of /info (InfoProtoV3, infoHandler): for any backends and   *)
(* any order of their answers, without faults a reply has of every server  *)
(* an entry for each metric that was found and that it has. *)
THEOREM InfoAlwaysComplete == BrowseSpec => []InfoComplete
  <1>1. BrowseInit => FindMerged /\ InfoMerged /\ InfoComplete
    <2> SUFFICES ASSUME BrowseInit PROVE FindMerged /\ InfoMerged /\ InfoComplete
      OBVIOUS
    <2>1. stage = "start" \/ stage = "off"
      BY DEF BrowseInit
    <2> QED
      BY <2>1 DEF FindMerged, InfoMerged, InfoComplete, Replied
  <1>2. ASSUME ChildrenOK, CallOK, InfoMerged, InfoComplete, [BrowseNext]_browseVars
        PROVE  InfoComplete'
    <2> SUFFICES ASSUME Replied("info")', site'.faults = {}, Plainly' PROVE InfoComplete'
      BY DEF InfoComplete, Plainly
    <2>1. stage' = "end" /\ call'.op = "info" /\ reply'.code = 200
      BY DEF Replied
    <2>2. CASE UNCHANGED browseVars
      BY <1>2, <2>2 DEF browseVars, InfoComplete, Plainly, Replied
    <2>3. CASE FindHandler \/ ExpandHandler \/ TagHandler
      BY <1>2, <2>1, <2>3 DEF FindHandler, ExpandHandler, TagHandler, CallOK
    <2>4. CASE InfoHandler
      <3>1. /\ stage = "info" /\ pending = {} /\ UNCHANGED <<site, children, delivered>>
            /\ failed = {} /\ reply'.what = acc
        BY <2>1, <2>4 DEF InfoHandler, Answer
      <3>2. /\ \A m \in delivered : m.leaf => m.path \in names
            /\ \A ch \in children :
                 ch.proto \in InfoProtocols /\ ch.id \in DOMAIN acc /\ acc[ch.id] = InfoOf(ch)
        BY <1>2, <3>1 DEF InfoMerged, Plainly
      <3>3. ASSUME NEW ch \in children, NEW p \in names, p \in ch.holds
            PROVE  p \in InfoOf(ch)
        <4>1. InfoOf(ch) = InfoV2(ch) \/ InfoOf(ch) = InfoV3(ch)
          BY <3>2 DEF InfoOf, InfoGraphite, InfoProtocols
        <4>2. p \in InfoV2(ch) /\ p \in InfoV3(ch)
          BY <3>3 DEF InfoV2, InfoV3
        <4> QED
          BY <4>1, <4>2
      <3> QED
        BY <3>1, <3>2, <3>3 DEF InfoComplete
    <2> QED
      BY <1>2, <2>1, <2>2, <2>3, <2>4, Endings
  <1>3. FindMerged /\ InfoMerged /\ InfoComplete /\ (ChildrenOK /\ CallOK) /\ [BrowseNext]_browseVars
          => (FindMerged /\ InfoMerged /\ InfoComplete)'
    BY <1>2, FindMergedKept, InfoMergedKept
  <1> QED
    BY <1>1, <1>3, GroupKept, PTL DEF BrowseSpec

-----------------------------------------------------------------------------
(* Expand.                                                                 *)
PathsOf(leavesOnly, g) == {m.path : m \in {x \in g.matches : leavesOnly => x.leaf}}

(* What ExpandGroups does with one name. *)
ExpandStep(leavesOnly, s, g) ==
  [seen |-> s.seen \cup PathsOf(leavesOnly, g),
   groups |-> [s.groups EXCEPT ![g.name] = PathsOf(leavesOnly, g) \ s.seen]]

ExpandStates(N, Y) == [seen : SUBSET Y, groups : [N -> SUBSET Y]]

Expands(leavesOnly, g, N, Y) == PathsOf(leavesOnly, g) \subseteq Y /\ g.name \in N

LEMMA ExpandStepKeeps ==
  ASSUME NEW N, NEW Y, NEW leavesOnly, NEW s \in ExpandStates(N, Y), NEW g, Expands(leavesOnly, g, N, Y)
  PROVE  ExpandStep(leavesOnly, s, g) \in ExpandStates(N, Y)
  <1> DEFINE ps == PathsOf(leavesOnly, g)
  <1>1. ps \subseteq Y /\ ExpandStep(leavesOnly, s, g)
          = [seen |-> s.seen \cup ps, groups |-> [s.groups EXCEPT ![g.name] = ps \ s.seen]]
    BY DEF ExpandStep, Expands
  <1>a. g.name \in N
    BY DEF Expands
  <1> HIDE DEF ps
  <1>2. s.seen \subseteq Y /\ s.groups \in [N -> SUBSET Y]
    BY DEF ExpandStates
  <1>3. [s.groups EXCEPT ![g.name] = ps \ s.seen] \in [N -> SUBSET Y]
    BY <1>1, <1>2, <1>a
  <1>4. s.seen \cup ps \subseteq Y
    BY <1>1, <1>2
  <1> QED
    BY <1>1, <1>2, <1>a, <1>3, <1>4 DEF ExpandStates, ps

(* ExpandGroups goes through the names from the left. *)
LEMMA ExpandSteps ==
  ASSUME IsGlobs(acc), NEW leavesOnly
  PROVE  \E h : /\ h[0] = [seen |-> {}, groups |-> [n \in {acc[i].name : i \in DOMAIN acc} |-> {}]]
                /\ \A i \in 1..Len(acc) : h[i] = ExpandStep(leavesOnly, h[i - 1], acc[i])
                /\ ExpandGroups(leavesOnly) = h[Len(acc)].groups
                /\ DOMAIN acc = 1..Len(acc) /\ Len(acc) \in Nat
  <1> DEFINE N == {acc[i].name : i \in DOMAIN acc}
             Y == UNION {PathsOf(leavesOnly, acc[i]) : i \in DOMAIN acc}
             V == ExpandStates(N, Y)
             n == Len(acc)
             base == [seen |-> {}, groups |-> [m \in N |-> {}]]
             Op(p, g) == ExpandStep(leavesOnly, p, g)
             G == [p \in V \X (1..n) |-> Op(p[1], acc[p[2]])]
             M == [s \in SUBSET (1..n) |-> Max(s)]
             E(f) == f = [s \in SUBSET DOMAIN acc |->
                       IF s = {} THEN base ELSE Op(f[s \ {Max(s)}], acc[Max(s)])]
             iter == CHOOSE f : E(f)
             h == [i \in 0..n |-> iter[1..i]]
  <1>1. n \in Nat /\ DOMAIN acc = 1..n
    BY DEF IsGlobs
  <1>a. base \in V
    <2> HIDE DEF N, Y
    <2> QED
      BY DEF ExpandStates
  <1>2. G \in [V \X (1..n) -> V]
    <2>1. ASSUME NEW p \in V, NEW i \in 1..n PROVE Op(p, acc[i]) \in V
      <3>1. acc[i].name \in N /\ PathsOf(leavesOnly, acc[i]) \subseteq Y
        BY <1>1
      <3> HIDE DEF n, N, Y
      <3> QED
        BY <3>1, ExpandStepKeeps DEF Expands
    <2> HIDE DEF Op, V, n
    <2> QED
      BY <2>1
  <1>3. \A s \in SUBSET (1..n) : s # {} => M[s] \in s /\ M[s] = Max(s)
    <2> HIDE DEF n
    <2> QED
      BY <1>1, MaxMin
  <1>4. PICK f \in [SUBSET (1..n) -> V] : IsFold(f, n, base, G, M)
    <2> HIDE DEF n, G, M, V, base
    <2> QED
      BY <1>1, <1>a, <1>2, <1>3, FoldExists
  <1>5. ASSUME NEW s \in SUBSET (1..n), s # {}
        PROVE  G[<<f[s \ {M[s]}], M[s]>>] = Op(f[s \ {Max(s)}], acc[Max(s)])
    <2> HIDE DEF Op, V, n
    <2>1. f[s \ {M[s]}] \in V /\ M[s] \in 1..n /\ M[s] = Max(s)
      BY <1>3, <1>5
    <2> QED
      BY <2>1
  <1>6. E(f)
    <2> HIDE DEF n, G, M, Op, V, base
    <2> QED
      BY <1>1, <1>4, <1>5 DEF IsFold
  <1>7. E(iter)
    <2> HIDE DEF E
    <2> QED
      BY <1>6
  <1>8. ExpandGroups(leavesOnly) = iter[DOMAIN acc].groups
    BY DEF ExpandGroups, FoldLeft, MapThenFoldSet, ExpandStep, PathsOf
  <1>9. h[0] = base /\ h[n].groups = ExpandGroups(leavesOnly)
    <2>1. iter[{}] = base
      <3> HIDE DEF Op, base
      <3> QED
        BY <1>7
    <2> HIDE DEF iter, base
    <2> QED
      BY <1>1, <1>8, <2>1, UpTo
  <1>10. ASSUME NEW i \in 1..n
         PROVE  h[i] = Op(h[i - 1], acc[i])
    <2>1. /\ 1..i \in SUBSET DOMAIN acc /\ 1..i # {} /\ Max(1..i) = i
          /\ (1..i) \ {i} = 1..(i - 1) /\ i - 1 \in 0..n /\ i \in 0..n
      <3> HIDE DEF n
      <3> QED
        BY <1>1, UpTo
    <2>2. iter[1..i] = Op(iter[1..(i - 1)], acc[i])
      <3> HIDE DEF iter, Op, base
      <3> QED
        BY <1>7, <2>1
    <2> HIDE DEF iter, Op
    <2> QED
      BY <2>1, <2>2
  <1> HIDE DEF h
  <1> QED
    BY <1>1, <1>9, <1>10

(* Of names that come once, no path is lost. *)
LEMMA ExpandKeeps ==
  ASSUME IsGlobs(acc), Distinct(acc), NEW leavesOnly
  PROVE  LET groups == ExpandGroups(leavesOnly) IN
         UNION {groups[n] : n \in DOMAIN groups}
           = {m.path : m \in {x \in AllMatches(acc) : leavesOnly => x.leaf}}
  <1> DEFINE N == {acc[i].name : i \in DOMAIN acc}
             Y == UNION {PathsOf(leavesOnly, acc[i]) : i \in DOMAIN acc}
             n == Len(acc)
             Paths(i) == PathsOf(leavesOnly, acc[i])
             All(s) == UNION {s.groups[x] : x \in N}
  <1>1. PICK h : /\ h[0] = [seen |-> {}, groups |-> [x \in N |-> {}]]
                 /\ \A i \in 1..n : h[i] = ExpandStep(leavesOnly, h[i - 1], acc[i])
                 /\ ExpandGroups(leavesOnly) = h[n].groups
                 /\ DOMAIN acc = 1..n /\ n \in Nat
    BY ExpandSteps
  <1>2. ASSUME NEW i \in 1..n PROVE acc[i].name \in N /\ Paths(i) \subseteq Y
    BY <1>1
  <1>3. Y = {m.path : m \in {x \in AllMatches(acc) : leavesOnly => x.leaf}}
    <2> DEFINE Z == {m.path : m \in {x \in AllMatches(acc) : leavesOnly => x.leaf}}
    <2>1. ASSUME NEW p \in Y PROVE p \in Z
      <3>1. PICK i \in DOMAIN acc : p \in PathsOf(leavesOnly, acc[i])
        BY <2>1, Zenon
      <3>2. PICK m \in acc[i].matches : (leavesOnly => m.leaf) /\ p = m.path
        BY <3>1, Zenon DEF PathsOf
      <3>3. m \in AllMatches(acc)
        BY Zenon DEF AllMatches
      <3> QED
        BY <3>2, <3>3, Zenon
    <2>2. ASSUME NEW p \in Z PROVE p \in Y
      <3>1. PICK m \in AllMatches(acc) : (leavesOnly => m.leaf) /\ p = m.path
        BY <2>2, Zenon
      <3>2. PICK i \in DOMAIN acc : m \in acc[i].matches
        BY Zenon DEF AllMatches
      <3>3. p \in PathsOf(leavesOnly, acc[i])
        BY <3>1, <3>2, Zenon DEF PathsOf
      <3> QED
        BY <3>3, Zenon
    <2> HIDE DEF Y, Z
    <2>3. Y = Z
      BY <2>1, <2>2
    <2> QED
      BY <2>3 DEF Z
  <1> HIDE DEF n, N, Y, Paths
  <1> DEFINE Up(i) == UNION {Paths(j) : j \in 1..i}
             Fine(i) == /\ h[i] \in ExpandStates(N, Y)
                        /\ h[i].seen = Up(i) /\ All(h[i]) = Up(i)
                        /\ \A j \in 1..n : j > i => h[i].groups[acc[j].name] = {}
             T == {i \in Nat : i <= n => Fine(i)}
  <1>4. 0 \in T
    <2>1. h[0] \in ExpandStates(N, Y) /\ h[0].seen = {} /\ \A x \in N : h[0].groups[x] = {}
      BY <1>1 DEF ExpandStates
    <2>2. Up(0) = {}
      OBVIOUS
    <2>3. All(h[0]) = {}
      BY <2>1, Zenon
    <2> HIDE DEF Up, All
    <2> QED
      BY <1>2, <2>1, <2>2, <2>3
  <1>5. ASSUME NEW i \in Nat, i \in T PROVE i + 1 \in T
    <2> SUFFICES ASSUME i + 1 <= n PROVE Fine(i + 1)
      <3> HIDE DEF Fine
      <3> QED
        OBVIOUS
    <2>1. Fine(i) /\ i + 1 \in 1..n /\ (i + 1) - 1 = i
      <3> HIDE DEF Fine
      <3> QED
        BY <1>1, <1>5
    <2> DEFINE s == h[i]
               r == h[i + 1]
               ps == Paths(i + 1)
               x == acc[i + 1].name
    <2>2. r = ExpandStep(leavesOnly, s, acc[i + 1]) /\ x \in N /\ ps \subseteq Y
      BY <1>1, <1>2, <2>1
    <2>3. /\ r \in ExpandStates(N, Y) /\ r.seen = s.seen \cup ps /\ r.groups[x] = ps \ s.seen
          /\ \A y \in N : y # x => r.groups[y] = s.groups[y]
      <3>1. s \in ExpandStates(N, Y)
        BY <2>1
      <3>2. PathsOf(leavesOnly, acc[i + 1]) \subseteq Y /\ acc[i + 1].name \in N
        BY <2>2 DEF Paths
      <3> DEFINE g == acc[i + 1]
      <3>3. r = ExpandStep(leavesOnly, s, g) /\ PathsOf(leavesOnly, g) \subseteq Y /\ g.name \in N
            /\ ps = PathsOf(leavesOnly, g) /\ x = g.name
        BY <2>2, <3>2 DEF Paths
      <3> HIDE DEF s, r, g, ps, x
      <3>4. /\ ExpandStep(leavesOnly, s, g) \in ExpandStates(N, Y)
            /\ ExpandStep(leavesOnly, s, g).seen = s.seen \cup PathsOf(leavesOnly, g)
            /\ ExpandStep(leavesOnly, s, g).groups[g.name] = PathsOf(leavesOnly, g) \ s.seen
            /\ \A y \in N : y # g.name => ExpandStep(leavesOnly, s, g).groups[y] = s.groups[y]
        <4>1. Expands(leavesOnly, g, N, Y)
          BY <3>3 DEF Expands
        <4>2. ExpandStep(leavesOnly, s, g) \in ExpandStates(N, Y)
          BY <3>1, <4>1, ExpandStepKeeps
        <4>a. DOMAIN s.groups = N /\ g.name \in N
          BY <3>1, <3>3 DEF ExpandStates
        <4>3. ExpandStep(leavesOnly, s, g).seen = s.seen \cup PathsOf(leavesOnly, g)
          BY DEF ExpandStep
        <4>4. ExpandStep(leavesOnly, s, g).groups[g.name] = PathsOf(leavesOnly, g) \ s.seen
          BY <4>a DEF ExpandStep
        <4>5. \A y \in N : y # g.name => ExpandStep(leavesOnly, s, g).groups[y] = s.groups[y]
          BY <4>a DEF ExpandStep
        <4> QED
          BY <4>2, <4>3, <4>4, <4>5
      <3> QED
        BY <3>3, <3>4
    <2>4. Up(i + 1) = Up(i) \cup ps
      <3>1. 1..(i + 1) = 1..i \cup {i + 1}
        OBVIOUS
      <3> QED
        BY <3>1, Zenon
    <2>5. s.groups[x] = {} /\ s.seen = Up(i) /\ All(s) = Up(i)
      <3>1. i + 1 > i
        OBVIOUS
      <3> HIDE DEF Up, All
      <3> QED
        BY <2>1, <3>1
    <2> HIDE DEF s, r, x, ps, Up
    <2>6. All(r) = Up(i) \cup ps
      <3>1. All(r) \subseteq Up(i) \cup ps
        <4> SUFFICES ASSUME NEW y \in N, NEW m \in r.groups[y] PROVE m \in Up(i) \/ m \in ps
          BY Zenon
        <4>1. CASE y = x
          BY <2>3, <4>1
        <4>2. CASE y # x
          <5>1. m \in All(s)
            BY <2>3, <4>2, Zenon
          <5> QED
            BY <2>5, <5>1
        <4> QED
          BY <4>1, <4>2
      <3>2. ASSUME NEW m \in Up(i) PROVE m \in All(r)
        <4>1. PICK y \in N : m \in s.groups[y]
          BY <2>5, Zenon
        <4>2. y # x
          BY <2>5, <4>1
        <4> QED
          BY <2>3, <4>1, <4>2, Zenon
      <3>3. ASSUME NEW m \in ps, m \notin Up(i) PROVE m \in All(r)
        <4>1. m \in r.groups[x]
          BY <2>3, <2>5, <3>3
        <4> QED
          BY <2>2, <4>1, Zenon
      <3> HIDE DEF All
      <3> QED
        BY <3>1, <3>2, <3>3
    <2>7. ASSUME NEW j \in 1..n, j > i + 1 PROVE r.groups[acc[j].name] = {}
      <3>1. acc[j].name # x
        BY <1>1, <2>1, <2>7 DEF Distinct, x
      <3>2. s.groups[acc[j].name] = {}
        BY <2>1, <2>7 DEF s
      <3> QED
        BY <1>2, <2>3, <3>1, <3>2
    <2> HIDE DEF All
    <2>8. r.seen = Up(i + 1) /\ All(r) = Up(i + 1)
      BY <2>3, <2>4, <2>5, <2>6
    <2> QED
      BY <2>3, <2>7, <2>8 DEF r
  <1>6. Fine(n)
    <2> HIDE DEF Fine
    <2>1. n \in T
      <3> HIDE DEF T
      <3> QED
        BY <1>1, <1>4, <1>5, NatInd
    <2> QED
      BY <1>1, <2>1
  <1>7. Up(n) = Y
    BY <1>1 DEF Y, Paths
  <1>8. DOMAIN h[n].groups = N
    BY <1>6 DEF ExpandStates
  <1>9. All(h[n]) = Y
    <2> HIDE DEF Up, All
    <2> QED
      BY <1>6, <1>7
  <1> DEFINE groups == ExpandGroups(leavesOnly)
  <1>10. groups = h[n].groups
    BY <1>1
  <1> HIDE DEF groups
  <1>11. UNION {groups[x] : x \in DOMAIN groups} = Y
    BY <1>8, <1>9, <1>10
  <1> QED
    BY <1>3, <1>11 DEF groups

(* A Find that is answered with success although it failed has found       *)
(* nothing. *)
LEMMA NotFoundIsEmpty ==
  ASSUME FindMerged, ChildrenOK, stage = "find", ~Muted, FindGroup # 0, Status(FindGroup) < 300
  PROVE  delivered = {}
  <1>1. CASE acc = <<>>
    BY <1>1, SimpleGlobs DEF FindMerged
  <1>2. CASE acc # <<>>
    <2>1. /\ failed \ {404} # {} => MergedCode(failed) \in failed \ {404}
          /\ failed \subseteq Statuses \cup {404}
      BY FindGroupCode DEF ChildrenOK
    <2>2. site.rsa /\ failed \ {404} # {} /\ FindGroup = MergedCode(failed)
      BY <1>2 DEF FindGroup
    <2>3. FindGroup \in failed /\ FindGroup \in Statuses /\ FindGroup # 404
      BY <2>1, <2>2
    <2> DEFINE c == FindGroup
    <2>4. c \in failed /\ c \in Statuses /\ Status(c) < 300 /\ c # 404
      BY <2>3
    <2> HIDE DEF c
    <2>5. c = 204
      BY <2>4 DEF Status, Statuses
    <2> QED
      BY <2>2, <2>4, <2>5 DEF ChildrenOK, Muted
  <1> QED
    BY <1>1, <1>2

(* What a tree shows of matches: each last component once. *)
TreeOf(matches, what) ==
  /\ \A m \in Visible(matches) : \E n \in what : {o \in what : o.text = Last(m.path)} = {n}
  /\ \A n \in what : \E m \in Visible(matches) : n.text = Last(m.path) /\ n.leaf = m.leaf

LEMMA TreesShow ==
  ASSUME NEW tree \in FindTrees
  PROVE  TreeOf(Found, tree)
  <1> DEFINE globs == IF FindGroup = 0 THEN acc ELSE <<>>
             Texts(k) == {Last(m.path) : m \in Visible(globs[k].matches)}
             New(k) == {m \in Visible(globs[k].matches) : \A j \in 1..(k - 1) : Last(m.path) \notin Texts(j)}
             Node(k, m) == [base |-> globs[k].name.base, dot |-> globs[k].name.dot,
                            text |-> Last(m.path), leaf |-> m.leaf]
             Nodes(k) == {Node(k, m) : m \in New(k)}
  <1>1. /\ tree \subseteq UNION {Nodes(k) : k \in DOMAIN globs}
        /\ \A m \in Visible(Found) : \E n \in tree : {o \in tree : o.text = Last(m.path)} = {n}
    BY Zenon DEF FindTrees
  <1>2. ASSUME NEW k \in DOMAIN globs, NEW m \in Visible(globs[k].matches)
        PROVE  m \in Visible(Found)
    <2>1. FindGroup = 0 /\ globs = acc
      OBVIOUS
    <2>2. Found = AllMatches(acc)
      BY <2>1 DEF Found
    <2>3. globs[k].matches \subseteq AllMatches(acc)
      BY <2>1 DEF AllMatches
    <2> HIDE DEF globs
    <2> QED
      BY <2>2, <2>3 DEF Visible
  <1>3. ASSUME NEW n \in tree
        PROVE  \E m \in Visible(Found) : n.text = Last(m.path) /\ n.leaf = m.leaf
    <2>1. PICK k \in DOMAIN globs : n \in Nodes(k)
      BY <1>1
    <2>2. PICK m \in New(k) : n = Node(k, m)
      BY <2>1
    <2>3. m \in Visible(globs[k].matches)
      OBVIOUS
    <2>4. m \in Visible(Found)
      BY <1>2, <2>3
    <2>5. n.text = Last(m.path) /\ n.leaf = m.leaf
      BY <2>2
    <2> QED
      BY <2>4, <2>5
  <1> QED
    BY <1>1, <1>3, Zenon DEF TreeOf

(* What a reply to a find shows of what was delivered, in its format *)
FindReply(c, d, what) ==
  CASE c.format = "list" -> what = Visible(d)
    [] c.format \in {"protobuf2", "protobuf3"} -> what = d
    [] c.format = "tree" -> TreeOf(d, what)

(* The handlers of find and expand, for any backends: whatever the order   *)
(* of the answers, a reply shows all that any backend answered, as far as  *)
(* its format can. *)
THEOREM FindShowsFound == BrowseSpec => []FoundIsShown
  <1>1. BrowseInit => FindMerged /\ FoundIsShown
    <2> SUFFICES ASSUME BrowseInit PROVE FindMerged /\ FoundIsShown
      OBVIOUS
    <2>1. stage = "start" \/ stage = "off"
      BY DEF BrowseInit
    <2> QED
      BY <2>1 DEF FindMerged, FoundIsShown, Replied
  <1>a. FoundIsShown <=>
          /\ Replied("find") /\ ~Muted => FindReply(call, delivered, reply.what)
          /\ Replied("expand") /\ ~Muted /\ SingleNames =>
               reply.what = {m.path : m \in {d \in delivered : call.leavesOnly => d.leaf}}
    BY Zenon DEF FoundIsShown, FindReply, TreeOf, SingleNames
  <1>2. ASSUME ChildrenOK, CallOK, FindMerged, FoundIsShown, [BrowseNext]_browseVars
        PROVE  FoundIsShown'
    <2>0. Status(FindGroup) \in Int /\ site \in Sites
      BY <1>2, FindGroupCode DEF ChildrenOK
    <2>b. ASSUME stage = "find", Status(FindGroup) < 300, ~Muted PROVE Found = delivered
      <3>1. CASE FindGroup = 0
        BY <1>2, <2>b, <3>1 DEF Found, FindMerged
      <3>2. CASE FindGroup # 0
        BY <1>2, <2>b, <3>2, NotFoundIsEmpty DEF Found
      <3> QED
        BY <3>1, <3>2
    <2>1. ASSUME Replied("find")', ~Muted' PROVE FindReply(call', delivered', reply'.what)
      <3>1. stage' = "end" /\ call'.op = "find" /\ reply'.code = 200
        BY <2>1 DEF Replied
      <3>2. CASE UNCHANGED browseVars
        <4>1. Replied("find") /\ ~Muted /\ call' = call /\ delivered' = delivered /\ reply' = reply
          BY <2>1, <3>2 DEF browseVars, Replied, Muted
        <4> QED
          BY <1>2, <1>a, <4>1
      <3>3. CASE ExpandHandler \/ InfoHandler \/ TagHandler
        BY <1>2, <3>1, <3>3 DEF ExpandHandler, InfoHandler, TagHandler, CallOK
      <3>4. CASE FindHandler
        <4> DEFINE code == Status(FindGroup)
        <4>1. /\ stage = "find" /\ UNCHANGED <<site, call, delivered>>
              /\ call.format \in {"tree", "list", "protobuf2", "protobuf3"}
          BY <1>2, <3>4, BrowseAssumption DEF FindHandler, CallOK, ChildrenOK
        <4>2. ~Muted /\ code \in Int
          BY <2>0, <2>1, <4>1 DEF Muted
        <4>3. code < 300
          <5> SUFFICES ASSUME code >= 300 PROVE FALSE
            BY <4>2
          <5> HIDE DEF code
          <5>1. ~(code < 300)
            BY <4>2
          <5>2. Answer(code, {})
            BY <3>4, <5>1, Zenon DEF FindHandler, code
          <5> QED
            BY <3>1, <4>2, <5>2 DEF Answer
        <4>4. ~(code >= 300) /\ Found = delivered
          BY <2>b, <4>1, <4>2, <4>3
        <4> HIDE DEF code
        <4>5. \/ call.format = "tree" /\ \E tree \in FindTrees : Answer(200, tree)
              \/ call.format = "list" /\ Answer(200, FindList)
              \/ call.format \in {"protobuf2", "protobuf3"} /\ (Answer(0, {}) \/ Answer(200, FindProto))
          BY <3>4, <4>4 DEF FindHandler, code
        <4>6. CASE call.format = "tree"
          <5>1. PICK tree \in FindTrees : Answer(200, tree)
            BY <4>5, <4>6
          <5>2. reply'.what = tree
            BY <5>1 DEF Answer
          <5>3. TreeOf(delivered, tree)
            BY <4>4, TreesShow
          <5> QED
            BY <4>1, <4>6, <5>2, <5>3 DEF FindReply
        <4>7. CASE call.format = "list"
          <5>1. Answer(200, FindList)
            BY <4>5, <4>7
          <5>2. reply'.what = Visible(delivered)
            BY <4>4, <5>1 DEF Answer, FindList
          <5> QED
            BY <4>1, <4>7, <5>2 DEF FindReply
        <4>8. CASE call.format \in {"protobuf2", "protobuf3"}
          <5>1. Answer(0, {}) \/ Answer(200, FindProto)
            BY <4>5, <4>8
          <5>2. reply'.what = delivered
            BY <3>1, <4>4, <5>1 DEF Answer, FindProto
          <5> QED
            BY <4>1, <4>8, <5>2 DEF FindReply
        <4> QED
          BY <4>1, <4>6, <4>7, <4>8
      <3>5. UNCHANGED browseVars \/ FindHandler \/ ExpandHandler \/ InfoHandler \/ TagHandler
        BY <1>2, <3>1, Endings
      <3> QED
        BY <3>2, <3>3, <3>4, <3>5, Zenon
    <2>2. ASSUME Replied("expand")', ~Muted', SingleNames'
          PROVE  (reply.what = {m.path : m \in {d \in delivered : call.leavesOnly => d.leaf}})'
      <3>1. stage' = "end" /\ call'.op = "expand" /\ reply'.code = 200
        BY <2>2 DEF Replied
      <3>2. CASE UNCHANGED browseVars
        <4>1. Replied("expand") /\ ~Muted /\ SingleNames
          BY <2>2, <3>2 DEF browseVars, Replied, SingleNames, Muted
        <4> QED
          BY <1>2, <1>a, <3>2, <4>1 DEF browseVars
      <3>3. CASE FindHandler \/ InfoHandler \/ TagHandler
        BY <1>2, <3>1, <3>3 DEF FindHandler, InfoHandler, TagHandler, CallOK
      <3>4. CASE ExpandHandler
        <4> DEFINE code == Status(FindGroup)
        <4>1. stage = "find" /\ UNCHANGED <<site, children, call, delivered>>
          BY <3>4 DEF ExpandHandler
        <4>2. IF code >= 300 THEN Answer(code, {}) ELSE Answer(200, Expanded(call.leavesOnly))
          BY <3>4 DEF ExpandHandler
        <4>3. code \in Int /\ ~Muted
          BY <2>0, <2>2, <4>1 DEF Muted
        <4> HIDE DEF code
        <4>4. ~(code >= 300) /\ reply'.what = Expanded(call.leavesOnly)
          BY <3>1, <4>2, <4>3 DEF Answer
        <4>5. IsGlobs(acc) /\ AllMatches(acc) = delivered /\ Distinct(acc)
          BY <1>2, <2>2, <4>1 DEF FindMerged, SingleNames
        <4>6. CASE FindGroup = 0
          <5>1. Expanded(call.leavesOnly) = {m.path : m \in {x \in AllMatches(acc) : call.leavesOnly => x.leaf}}
            BY <4>5, <4>6, ExpandKeeps DEF Expanded
          <5> QED
            BY <4>1, <4>4, <4>5, <5>1
        <4>7. CASE FindGroup # 0
          <5>1. delivered = {}
            BY <1>2, <4>1, <4>3, <4>4, <4>7, NotFoundIsEmpty DEF code
          <5>2. Expanded(call.leavesOnly) = {}
            BY <4>7 DEF Expanded
          <5> QED
            BY <4>1, <4>4, <5>1, <5>2
        <4> QED
          BY <4>6, <4>7
      <3> QED
        BY <1>2, <3>1, <3>2, <3>3, <3>4, Endings
    <2> QED
      BY <2>1, <2>2, Zenon DEF FoundIsShown, FindReply, TreeOf, SingleNames
  <1>3. FindMerged /\ FoundIsShown /\ (ChildrenOK /\ CallOK) /\ [BrowseNext]_browseVars
          => (FindMerged /\ FoundIsShown)'
    BY <1>2, FindMergedKept
  <1> QED
    BY <1>1, <1>3, GroupKept, PTL DEF BrowseSpec

-----------------------------------------------------------------------------
(* What is fetched and what is looked up (FetchPlan).                      *)

(* The intervals a function asks for are a finite set of intervals. *)
LEMMA AskedTyped ==
  ASSUME NEW f, f.by \in Int, NEW s \in Spans
  PROVE  Asked(f, s) \in SUBSET Spans /\ IsFiniteSet(Asked(f, s))
  <1>a. s.from \in Int /\ s.until \in Int /\ Stack \in Nat /\ Day \in Nat \ {0}
    BY RenderAssumption DEF Spans
  <1>b. ASSUME NEW d \in Int PROVE Moved(s, d) \in Spans /\ Earlier(s, d) \in Spans
    BY <1>a DEF Moved, Earlier, Spans
  <1>c. Aligned(s) \in Spans /\ [s EXCEPT !.from = s.until - f.by] \in Spans
    <2>1. s.from % Day \in Int
      BY <1>a
    <2> QED
      BY <1>a, <2>1 DEF Aligned, Spans
  <1>d. IsFiniteSet({Moved(s, k * f.by) : k \in 0..Stack-1}) /\ {Moved(s, k * f.by) : k \in 0..Stack-1} \subseteq Spans
    <2>1. IsFiniteSet(0..Stack-1)
      BY <1>a, FS_Interval
    <2> DEFINE F == [k \in 0..Stack-1 |-> Moved(s, k * f.by)]
               I == 0..Stack-1
    <2>2. {Moved(s, k * f.by) : k \in I} = {F[k] : k \in I}
      OBVIOUS
    <2>3. IsFiniteSet({F[k] : k \in I})
      <3> HIDE DEF F, I
      <3> QED
        BY <2>1, FiniteImage DEF I
    <2>4. ASSUME NEW k \in I PROVE Moved(s, k * f.by) \in Spans
      BY <1>a, <1>b
    <2> QED
      BY <2>2, <2>3, <2>4
  <1>e. ASSUME NEW x, NEW y PROVE IsFiniteSet({x}) /\ IsFiniteSet({x, y})
    <2>1. IsFiniteSet({x})
      BY FS_Singleton
    <2>2. {x, y} = {x} \cup {y}
      OBVIOUS
    <2> QED
      BY <2>1, <2>2, FS_AddElement
  <1>f. (IF f.by < 0 THEN -f.by ELSE f.by) \in Int
    OBVIOUS
  <1> HIDE DEF Spans
  <1>1. CASE f.fn \in {"timeStack", "timeStackDefault", "baseline"}
    <2>1. Asked(f, s) = {Moved(s, k * f.by) : k \in 0..Stack-1}
      BY <1>1 DEF Asked
    <2> QED
      BY <1>d, <2>1
  <1>2. CASE f.fn \notin {"timeStack", "timeStackDefault", "baseline"}
    <2>1. PICK x \in Spans, y \in Spans : Asked(f, s) = {x} \/ Asked(f, s) = {x, y}
      <3>1. CASE f.fn = "timeShift"
        BY <3>1, <1>b DEF Asked
      <3>2. CASE f.fn \in {"forecast", "movingMedian"}
        BY <3>2, <1>b DEF Asked
      <3>3. CASE f.fn = "moving"
        BY <3>3, <1>b, <1>f DEF Asked
      <3>4. CASE f.fn = "aberration"
        BY <3>4, <1>b DEF Asked
      <3>5. CASE f.fn = "align"
        BY <3>5, <1>c DEF Asked
      <3>6. CASE f.fn = "slo"
        <4>1. Asked(f, s) = {s} \/ Asked(f, s) = {s, [s EXCEPT !.from = s.until - f.by]}
          BY <3>6 DEF Asked
        <4> QED
          BY <4>1, <1>c
      <3>7. CASE f.fn \notin {"timeShift", "forecast", "movingMedian", "moving", "aberration", "align", "slo"}
        BY <3>7, <1>2 DEF Asked
      <3> QED
        BY <3>1, <3>2, <3>3, <3>4, <3>5, <3>6, <3>7
    <2> QED
      BY <2>1, <1>e
  <1> QED
    BY <1>1, <1>2

(* What the functions inside an expression are asked for, from the         *)
(* outermost in. *)
LEMMA LookupSteps ==
  ASSUME NEW F, NEW fs \in Seq(F), \A k \in DOMAIN fs : fs[k].by \in Int, NEW span \in Spans
  PROVE  \E L \in [0..Len(fs) -> SUBSET Spans] :
            /\ L[0] = {span} /\ L[Len(fs)] = Lookups(fs, span)
            /\ \A i \in 1..Len(fs) : L[i] = UNION {Asked(fs[i], s) : s \in L[i - 1]}
  <1> DEFINE n == Len(fs)
             V == SUBSET Spans
             Op(p, f) == UNION {Asked(f, s) : s \in p}
             base == {span}
             G == [p \in V \X (1..n) |-> Op(p[1], fs[p[2]])]
             M == [s \in SUBSET (1..n) |-> Max(s)]
             E(f) == f = [s \in SUBSET DOMAIN fs |->
                       IF s = {} THEN base ELSE Op(f[s \ {Max(s)}], fs[Max(s)])]
             iter == CHOOSE f : E(f)
             h == [i \in 0..n |-> iter[1..i]]
  <1>1. n \in Nat /\ DOMAIN fs = 1..n
    OBVIOUS
  <1>a. base \in V
    OBVIOUS
  <1>2. G \in [V \X (1..n) -> V]
    <2>1. ASSUME NEW p \in V, NEW i \in 1..n PROVE Op(p, fs[i]) \in V
      <3>1. \A s \in p : Asked(fs[i], s) \in SUBSET Spans
        BY <1>1, AskedTyped
      <3> QED
        BY <3>1
    <2> HIDE DEF Op, V, n
    <2> QED
      BY <2>1
  <1>3. \A s \in SUBSET (1..n) : s # {} => M[s] \in s /\ M[s] = Max(s)
    <2> HIDE DEF n
    <2> QED
      BY <1>1, MaxMin
  <1>4. PICK f \in [SUBSET (1..n) -> V] : IsFold(f, n, base, G, M)
    <2> HIDE DEF n, G, M, V, base
    <2> QED
      BY <1>1, <1>a, <1>2, <1>3, FoldExists
  <1>5. ASSUME NEW s \in SUBSET (1..n), s # {}
        PROVE  G[<<f[s \ {M[s]}], M[s]>>] = Op(f[s \ {Max(s)}], fs[Max(s)])
    <2> HIDE DEF Op, V, n
    <2>1. f[s \ {M[s]}] \in V /\ M[s] \in 1..n /\ M[s] = Max(s)
      BY <1>3, <1>5
    <2> QED
      BY <2>1
  <1>6. E(f)
    <2> HIDE DEF n, G, M, Op, V, base
    <2> QED
      BY <1>1, <1>4, <1>5 DEF IsFold
  <1>7. E(iter)
    <2> HIDE DEF E
    <2> QED
      BY <1>6
  <1>8. Lookups(fs, span) = iter[DOMAIN fs]
    BY DEF Lookups, FoldLeft, MapThenFoldSet
  <1>9. h[0] = base /\ h[n] = Lookups(fs, span)
    <2>1. iter[{}] = base
      <3> HIDE DEF Op, base
      <3> QED
        BY <1>7
    <2> HIDE DEF iter, base
    <2> QED
      BY <1>1, <1>8, <2>1, UpTo
  <1>10. ASSUME NEW i \in 1..n
         PROVE  i - 1 \in 0..n /\ i \in 0..n /\ h[i] = Op(h[i - 1], fs[i])
    <2>1. /\ 1..i \in SUBSET DOMAIN fs /\ 1..i # {} /\ Max(1..i) = i
          /\ (1..i) \ {i} = 1..(i - 1) /\ i - 1 \in 0..n /\ i \in 0..n
      <3> HIDE DEF n
      <3> QED
        BY <1>1, UpTo
    <2>2. iter[1..i] = Op(iter[1..(i - 1)], fs[i])
      <3> HIDE DEF iter, Op, base
      <3> QED
        BY <1>7, <2>1
    <2> HIDE DEF iter, Op
    <2> QED
      BY <2>1, <2>2
  <1>11. ASSUME NEW i \in 0..n PROVE h[i] \in V
    <2> DEFINE T == {k \in Nat : k <= n => h[k] \in V}
    <2> HIDE DEF h
    <2>1. 0 \in T
      BY <1>9, <1>a
    <2>2. ASSUME NEW k \in Nat, k \in T PROVE k + 1 \in T
      <3> SUFFICES ASSUME k + 1 <= n PROVE h[k + 1] \in V
        OBVIOUS
      <3>1. k + 1 \in 1..n /\ (k + 1) - 1 = k /\ h[k] \in V
        BY <1>1, <2>2
      <3>2. \A s \in h[k] : Asked(fs[k + 1], s) \in SUBSET Spans
        BY <1>1, <3>1, AskedTyped
      <3> QED
        BY <1>10, <3>1, <3>2
    <2>3. i \in T
      <3> HIDE DEF T
      <3> QED
        BY <2>1, <2>2, NatInd
    <2> QED
      BY <2>3
  <1>12. h \in [0..n -> V]
    <2> HIDE DEF V, n, iter
    <2> QED
      BY <1>11
  <1> HIDE DEF h
  <1> QED
    BY <1>9, <1>10, <1>12

LEMMA LookupsTyped ==
  ASSUME NEW F, NEW fs \in Seq(F), \A k \in DOMAIN fs : fs[k].by \in Int, NEW span \in Spans
  PROVE  Lookups(fs, span) \subseteq Spans /\ IsFiniteSet(Lookups(fs, span))
  <1> DEFINE n == Len(fs)
  <1>1. n \in Nat /\ DOMAIN fs = 1..n
    OBVIOUS
  <1>2. PICK L \in [0..n -> SUBSET Spans] :
            /\ L[0] = {span} /\ L[n] = Lookups(fs, span)
            /\ \A i \in 1..n : L[i] = UNION {Asked(fs[i], s) : s \in L[i - 1]}
    BY LookupSteps
  <1> HIDE DEF n
  <1> DEFINE T == {k \in Nat : k <= n => IsFiniteSet(L[k])}
  <1>3. 0 \in T
    BY <1>2, FS_Singleton
  <1>4. ASSUME NEW k \in Nat, k \in T PROVE k + 1 \in T
    <2> SUFFICES ASSUME k + 1 <= n PROVE IsFiniteSet(L[k + 1])
      OBVIOUS
    <2>1. k + 1 \in 1..n /\ (k + 1) - 1 = k /\ IsFiniteSet(L[k]) /\ L[k] \subseteq Spans
      BY <1>1, <1>2, <1>4
    <2> DEFINE A == [s \in L[k] |-> Asked(fs[k + 1], s)]
    <2>2. L[k + 1] = UNION {A[s] : s \in L[k]}
      <3>1. L[k + 1] = UNION {Asked(fs[k + 1], s) : s \in L[(k + 1) - 1]}
        BY <1>2, <2>1
      <3> QED
        BY <2>1, <3>1
    <2>3. \A s \in L[k] : IsFiniteSet(A[s])
      BY <1>1, <2>1, AskedTyped
    <2> HIDE DEF A
    <2> QED
      BY <2>1, <2>2, <2>3, FiniteUnion
  <1>5. n \in T
    <2> HIDE DEF T
    <2> QED
      BY <1>1, <1>3, <1>4, NatInd
  <1> QED
    BY <1>1, <1>2, <1>5

(* What Metrics makes of one interval of a function's argument. *)
Effect(f, s) ==
  CASE f.fn = "timeShift" -> {Moved(s, f.by)}
    [] f.fn = "timeStack" -> {Moved(s, k * f.by) : k \in 0..Stack-1}
    [] f.fn \in {"forecast", "movingMedian", "moving"} -> {Earlier(s, f.by)}
    [] f.fn = "aberration" -> {s, Earlier(s, f.by)}
    [] f.fn = "align" -> {Aligned(s)}
    [] OTHER -> {s}

LEMMA SpanKinds ==
  ASSUME NEW s \in Spans, NEW d \in Int
  PROVE  Moved(s, d) \in Spans /\ Earlier(s, d) \in Spans /\ Aligned(s) \in Spans
  <1>1. s.from \in Int /\ s.until \in Int /\ s.from % Day \in Int
    BY RenderAssumption DEF Spans
  <1> QED
    BY <1>1 DEF Moved, Earlier, Aligned, Spans

LEMMA AdjustedTyped ==
  ASSUME NEW f, f.by \in Int, NEW r \in Seq(Spans)
  PROVE  /\ Adjusted(f, r) \in Seq(Spans)
         /\ f.fn # "timeStackDefault" => \A s \in Range(r) : Effect(f, s) \subseteq Range(Adjusted(f, r))
  <1> SUFFICES ASSUME f.fn # "timeStackDefault"
               PROVE  /\ Adjusted(f, r) \in Seq(Spans)
                      /\ \A s \in Range(r) : Effect(f, s) \subseteq Range(Adjusted(f, r))
    <2>1. CASE f.fn = "timeStackDefault"
      <3>1. Adjusted(f, r) = <<>>
        BY <2>1 DEF Adjusted
      <3>2. <<>> \in Seq(Spans)
        OBVIOUS
      <3> QED
        BY <2>1, <3>1, <3>2
    <2>2. CASE f.fn # "timeStackDefault"
      BY <2>2
    <2> QED
      BY <2>1, <2>2
  <1>1. DOMAIN r = 1..Len(r) /\ Len(r) \in Nat /\ \A i \in DOMAIN r : r[i] \in Spans
    OBVIOUS
  <1>b. ASSUME NEW i \in DOMAIN r, NEW d \in Int
        PROVE  Moved(r[i], d) \in Spans /\ Earlier(r[i], d) \in Spans
    BY <1>1, SpanKinds
  <1>c. \A i \in DOMAIN r : Moved(r[i], f.by) \in Spans /\ Earlier(r[i], f.by) \in Spans
    BY <1>b
  <1>a. ASSUME NEW q \in Seq(Spans), DOMAIN q = DOMAIN r,
               \A i \in DOMAIN r : q[i] \in Spans /\ Effect(f, r[i]) = {q[i]}, Adjusted(f, r) = q
        PROVE  /\ Adjusted(f, r) \in Seq(Spans)
               /\ \A s \in Range(r) : Effect(f, s) \subseteq Range(Adjusted(f, r))
    <2> SUFFICES ASSUME NEW i \in DOMAIN r PROVE Effect(f, r[i]) \subseteq Range(q)
      BY <1>a DEF Range
    <2> QED
      BY <1>a DEF Range
  <1>2. CASE f.fn = "timeShift"
    <2> DEFINE q == [i \in DOMAIN r |-> Moved(r[i], f.by)]
    <2>1. q \in Seq(Spans) /\ \A i \in DOMAIN r : q[i] \in Spans
      BY <1>1, <1>c
    <2>2. Adjusted(f, r) = q /\ \A i \in DOMAIN r : Effect(f, r[i]) = {q[i]}
      BY <1>2 DEF Adjusted, Effect
    <2> HIDE DEF q
    <2> QED
      BY <1>a, <2>1, <2>2 DEF q
  <1>3. CASE f.fn \in {"forecast", "movingMedian", "moving"}
    <2> DEFINE q == [i \in DOMAIN r |-> Earlier(r[i], f.by)]
    <2>1. q \in Seq(Spans) /\ \A i \in DOMAIN r : q[i] \in Spans
      BY <1>1, <1>c
    <2>2. Adjusted(f, r) = q /\ \A i \in DOMAIN r : Effect(f, r[i]) = {q[i]}
      BY <1>3 DEF Adjusted, Effect
    <2> HIDE DEF q
    <2> QED
      BY <1>a, <2>1, <2>2 DEF q
  <1>4. CASE f.fn = "align"
    <2> DEFINE q == [i \in DOMAIN r |-> Aligned(r[i])]
    <2>1. q \in Seq(Spans) /\ \A i \in DOMAIN r : q[i] \in Spans
      BY <1>1, SpanKinds
    <2>2. Adjusted(f, r) = q /\ \A i \in DOMAIN r : Effect(f, r[i]) = {q[i]}
      BY <1>4 DEF Adjusted, Effect
    <2> HIDE DEF q
    <2> QED
      BY <1>a, <2>1, <2>2 DEF q
  <1>5. CASE f.fn \notin {"timeShift", "timeStack", "forecast", "movingMedian", "moving", "aberration", "align"}
    <2>1. Adjusted(f, r) = r /\ \A i \in DOMAIN r : Effect(f, r[i]) = {r[i]}
      BY <1>5 DEF Adjusted, Effect
    <2> QED
      BY <1>1, <1>a, <2>1
  <1>6. CASE f.fn = "aberration"
    <2> DEFINE q == [i \in DOMAIN r |-> Earlier(r[i], f.by)]
    <2>1. q \in Seq(Spans) /\ DOMAIN q = DOMAIN r /\ \A i \in DOMAIN r : q[i] \in Spans
      BY <1>1, <1>c
    <2>2. Adjusted(f, r) = r \o q /\ \A i \in DOMAIN r : Effect(f, r[i]) = {r[i], q[i]}
      BY <1>6 DEF Adjusted, Effect
    <2> HIDE DEF q
    <2>3. Range(r \o q) = Range(r) \cup Range(q)
      BY <2>1, ConcatElements
    <2>4. \A i \in DOMAIN r : r[i] \in Range(r) /\ q[i] \in Range(q)
      BY <2>1 DEF Range
    <2>5. ASSUME NEW s \in Range(r) PROVE Effect(f, s) \subseteq Range(r) \cup Range(q)
      <3>1. PICK i \in DOMAIN r : s = r[i]
        BY DEF Range
      <3> QED
        BY <2>2, <2>4, <3>1
    <2> QED
      BY <2>1, <2>2, <2>3, <2>5
  <1>7. CASE f.fn = "timeStack"
    <2> DEFINE Row(i) == [k \in 1..Stack |-> Moved(r[i], (k - 1) * f.by)]
               ss == [i \in DOMAIN r |-> Row(i)]
    <2>a. Stack \in Nat
      BY RenderAssumption
    <2>1. ASSUME NEW i \in DOMAIN r PROVE Row(i) \in Seq(Spans)
      <3>1. ASSUME NEW k \in 1..Stack PROVE Moved(r[i], (k - 1) * f.by) \in Spans
        <4>1. (k - 1) * f.by \in Int
          BY <2>a
        <4> QED
          BY <1>b, <4>1
      <3> QED
        BY <2>a, <3>1
    <2>2. Adjusted(f, r) = FlattenSeq(ss)
      BY <1>7 DEF Adjusted
    <2>3. ASSUME NEW i \in DOMAIN r PROVE Effect(f, r[i]) \subseteq Range(Row(i))
      <3>1. Effect(f, r[i]) = {Moved(r[i], k * f.by) : k \in 0..Stack-1}
        BY <1>7 DEF Effect
      <3>2. ASSUME NEW k \in 0..Stack-1 PROVE Moved(r[i], k * f.by) \in Range(Row(i))
        <4>1. k + 1 \in 1..Stack /\ (k + 1) - 1 = k
          BY <2>a
        <4> QED
          BY <4>1 DEF Range
      <3> QED
        BY <3>1, <3>2
    <2> HIDE DEF Row
    <2>4. ss \in Seq(Seq(Spans)) /\ DOMAIN ss = DOMAIN r /\ \A i \in DOMAIN r : ss[i] = Row(i)
      BY <1>1, <2>1
    <2> HIDE DEF ss
    <2>5. FlattenSeq(ss) \in Seq(Spans) /\ \A i \in DOMAIN ss : Range(ss[i]) \subseteq Range(FlattenSeq(ss))
      BY <2>4, FlattenElements
    <2>6. ASSUME NEW s \in Range(r) PROVE Effect(f, s) \subseteq Range(FlattenSeq(ss))
      <3>1. PICK i \in DOMAIN r : s = r[i]
        BY DEF Range
      <3> QED
        BY <2>3, <2>4, <2>5, <3>1
    <2> QED
      BY <2>2, <2>5, <2>6
  <1> QED
    BY <1>2, <1>3, <1>4, <1>5, <1>6, <1>7

(* The indices a fold from the right has behind it. *)
LEMMA DownTo ==
  ASSUME NEW n \in Nat
  PROVE  /\ (n + 1)..n = {}
         /\ \A i \in 1..n : /\ i..n \in SUBSET (1..n) /\ i..n # {} /\ Min(i..n) = i
                            /\ (i..n) \ {i} = (i + 1)..n
  <1>1. ASSUME NEW i \in 1..n
        PROVE  i..n \in SUBSET (1..n) /\ i..n # {} /\ (i..n) \ {i} = (i + 1)..n
    <2>1. i \in i..n /\ i \in Nat
      OBVIOUS
    <2> QED
      BY <2>1
  <1>2. ASSUME NEW i \in 1..n PROVE Min(i..n) = i
    <2>1. i \in i..n /\ i \in Nat
      OBVIOUS
    <2>2. Min(i..n) \in i..n /\ \A x \in i..n : Min(i..n) <= x
      BY <1>1, MaxMin
    <2> QED
      BY <2>1, <2>2
  <1> QED
    BY <1>1, <1>2

(* Metrics goes through the functions of an expression from the innermost  *)
(* out. *)
LEMMA MetricsSteps ==
  ASSUME NEW F, NEW fs \in Seq(F), NEW span \in Spans,
         \A k \in DOMAIN fs : fs[k].by \in Int
  PROVE  \E R \in [0..Len(fs) -> Seq(Spans)] :
            /\ R[Len(fs)] = <<span>> /\ R[0] = Metrics(fs, span)
            /\ \A i \in 1..Len(fs) : R[i - 1] = Adjusted(fs[i], R[i])
  <1> DEFINE n == Len(fs)
             V == Seq(Spans)
             Op(p, f) == Adjusted(f, p)
             base == <<span>>
             G == [p \in V \X (1..n) |-> Op(p[1], fs[p[2]])]
             M == [s \in SUBSET (1..n) |-> Min(s)]
             E(f) == f = [s \in SUBSET DOMAIN fs |->
                       IF s = {} THEN base ELSE Op(f[s \ {Min(s)}], fs[Min(s)])]
             iter == CHOOSE f : E(f)
             h == [i \in 0..n |-> iter[(i + 1)..n]]
  <1>1. n \in Nat /\ DOMAIN fs = 1..n
    OBVIOUS
  <1>a. base \in V
    OBVIOUS
  <1>b. ASSUME NEW p \in V, NEW i \in 1..n PROVE Op(p, fs[i]) \in V
    BY <1>1, AdjustedTyped
  <1>2. G \in [V \X (1..n) -> V]
    <2> HIDE DEF Op, V, n
    <2> QED
      BY <1>b
  <1>3. \A s \in SUBSET (1..n) : s # {} => M[s] \in s /\ M[s] = Min(s)
    <2> HIDE DEF n
    <2> QED
      BY <1>1, MaxMin
  <1>4. PICK f \in [SUBSET (1..n) -> V] : IsFold(f, n, base, G, M)
    <2> HIDE DEF n, G, M, V, base
    <2> QED
      BY <1>1, <1>a, <1>2, <1>3, FoldExists
  <1>5. ASSUME NEW s \in SUBSET (1..n), s # {}
        PROVE  G[<<f[s \ {M[s]}], M[s]>>] = Op(f[s \ {Min(s)}], fs[Min(s)])
    <2> HIDE DEF Op, V, n
    <2>1. f[s \ {M[s]}] \in V /\ M[s] \in 1..n /\ M[s] = Min(s)
      BY <1>3, <1>5
    <2> QED
      BY <2>1
  <1>6. E(f)
    <2> HIDE DEF n, G, M, Op, V, base
    <2> QED
      BY <1>1, <1>4, <1>5 DEF IsFold
  <1>7. E(iter)
    <2> HIDE DEF E
    <2> QED
      BY <1>6
  <1>8. Metrics(fs, span) = iter[DOMAIN fs]
    BY DEF Metrics, FoldRight, MapThenFoldSet
  <1>9. h[n] = base /\ h[0] = Metrics(fs, span)
    <2>1. iter[{}] = base
      <3> HIDE DEF Op, base
      <3> QED
        BY <1>7
    <2>2. (n + 1)..n = {} /\ 0 + 1 = 1 /\ 0 \in 0..n /\ n \in 0..n
      BY <1>1, DownTo
    <2> HIDE DEF iter, base
    <2>3. h[n] = iter[{}] /\ h[0] = iter[1..n]
      BY <2>2
    <2> QED
      BY <1>1, <1>8, <2>1, <2>3
  <1>10. ASSUME NEW i \in 1..n
         PROVE  i - 1 \in 0..n /\ i \in 0..n /\ h[i - 1] = Op(h[i], fs[i])
    <2>1. /\ i..n \in SUBSET DOMAIN fs /\ i..n # {} /\ Min(i..n) = i
          /\ (i..n) \ {i} = (i + 1)..n /\ i - 1 \in 0..n /\ i \in 0..n /\ (i - 1) + 1 = i
      <3> HIDE DEF n
      <3>1. i - 1 \in 0..n /\ i \in 0..n /\ (i - 1) + 1 = i
        BY <1>1
      <3>2. i..n \in SUBSET (1..n) /\ i..n # {} /\ Min(i..n) = i /\ (i..n) \ {i} = (i + 1)..n
        BY <1>1, DownTo
      <3> QED
        BY <1>1, <3>1, <3>2
    <2>2. iter[i..n] = Op(iter[(i + 1)..n], fs[i])
      <3> HIDE DEF iter, Op, base
      <3> QED
        BY <1>7, <2>1
    <2>3. h[i - 1] = iter[i..n] /\ h[i] = iter[(i + 1)..n]
      <3> HIDE DEF iter
      <3> QED
        BY <2>1
    <2> HIDE DEF iter, Op, h
    <2> QED
      BY <2>1, <2>2, <2>3
  <1>11. ASSUME NEW i \in 0..n PROVE h[i] \in V
    <2> DEFINE T == {k \in Nat : k <= n => h[n - k] \in V}
    <2> HIDE DEF h
    <2>1. 0 \in T
      <3>1. n - 0 = n
        BY <1>1
      <3> HIDE DEF V, n, base
      <3> QED
        BY <3>1, <1>9, <1>a
    <2>2. ASSUME NEW k \in Nat, k \in T PROVE k + 1 \in T
      <3> SUFFICES ASSUME k + 1 <= n PROVE h[n - (k + 1)] \in V
        OBVIOUS
      <3>1. n - k \in 1..n /\ (n - k) - 1 = n - (k + 1) /\ h[n - k] \in V
        BY <1>1, <2>2
      <3> HIDE DEF V, Op, n
      <3> QED
        BY <1>10, <1>b, <3>1
    <2>3. n - i \in T /\ n - (n - i) = i
      <3>1. n - i \in Nat /\ n - (n - i) = i
        BY <1>1
      <3> HIDE DEF T
      <3> QED
        BY <2>1, <2>2, <3>1, NatInd
    <2> QED
      BY <1>1, <2>3
  <1>12. h \in [0..n -> V]
    <2> HIDE DEF V, n, iter
    <2> QED
      BY <1>11
  <1> HIDE DEF h
  <1> QED
    BY <1>9, <1>10, <1>12

(* Times aligned to a day, and numbers of seconds that are whole days. *)
Down(x) == x - (x % Day)
Whole(d) == d \in Int /\ \E q \in Int : d = Day * q

LEMMA Remainder ==
  ASSUME NEW q \in Int, NEW r \in 0..(Day - 1), NEW x \in Int, x = Day * q + r
  PROVE  x % Day = r
  <1>1. Day \in Nat \ {0}
    BY RenderAssumption
  <1>2. x % Day \in 0..(Day - 1) /\ x = Day * (x \div Day) + (x % Day) /\ x \div Day \in Int
    BY <1>1
  <1> DEFINE p == x \div Day
             t == x % Day
  <1>3. p \in Int /\ t \in 0..(Day - 1) /\ Day * q + r = Day * p + t
    BY <1>2
  <1> HIDE DEF p, t
  <1>4. r = t
    BY <1>1, <1>3
  <1> QED
    BY <1>4 DEF t

LEMMA DownFacts ==
  ASSUME NEW x \in Int
  PROVE  /\ Down(x) \in Int /\ Whole(Down(x))
         /\ x % Day = 0 => Whole(x)
         /\ Whole(x) => Down(x) = x
         /\ \A d : Whole(d) => Down(x + d) = Down(x) + d
  <1>1. Day \in Nat \ {0}
    BY RenderAssumption
  <1>2. x % Day \in 0..(Day - 1) /\ x = Day * (x \div Day) + (x % Day) /\ x \div Day \in Int
    BY <1>1
  <1>3. Down(x) \in Int /\ Down(x) = Day * (x \div Day)
    BY <1>1, <1>2 DEF Down
  <1>4. Whole(Down(x)) /\ (x % Day = 0 => Whole(x))
    BY <1>2, <1>3 DEF Whole, Down
  <1>5. ASSUME NEW d, Whole(d) PROVE Down(x + d) = Down(x) + d
    <2>1. PICK q \in Int : d = Day * q
      BY <1>5 DEF Whole
    <2> DEFINE p == x \div Day
               r == x % Day
    <2>2. p \in Int /\ r \in 0..(Day - 1) /\ x = Day * p + r /\ x + d \in Int /\ d \in Int
      BY <1>2, <1>5 DEF Whole
    <2> HIDE DEF p, r
    <2>3. Day * (p + q) = Day * p + Day * q
      BY <1>1, <2>2
    <2>4. x + d = Day * (p + q) + r /\ p + q \in Int
      BY <1>1, <2>1, <2>2, <2>3
    <2>5. (x + d) % Day = r
      BY <2>2, <2>4, Remainder
    <2> QED
      BY <1>1, <2>2, <2>5 DEF Down, r
  <1>6. Whole(x) => Down(x) = x
    <2> SUFFICES ASSUME Whole(x) PROVE Down(x) = x
      OBVIOUS
    <2>1. PICK q \in Int : x = Day * q
      BY DEF Whole
    <2>2. 0 \in 0..(Day - 1) /\ x = Day * q + 0
      BY <1>1, <2>1
    <2>3. x % Day = 0
      BY <2>2, Remainder
    <2> QED
      BY <2>3 DEF Down
  <1> QED
    BY <1>3, <1>4, <1>5, <1>6

LEMMA WholeFacts ==
  ASSUME NEW d, NEW e, Whole(d), Whole(e), NEW k \in Int
  PROVE  Whole(d + e) /\ Whole(d - e) /\ Whole(k * d) /\ Whole(-d) /\ Whole(0)
  <1>1. Day \in Nat \ {0}
    BY RenderAssumption
  <1>2. PICK q \in Int : d = Day * q
    BY DEF Whole
  <1>3. PICK p \in Int : e = Day * p
    BY DEF Whole
  <1>4. d \in Int /\ e \in Int
    BY DEF Whole
  <1>5. Day * (q + p) = d + e /\ q + p \in Int
    BY <1>1, <1>2, <1>3
  <1>6. Day * (q - p) = d - e /\ q - p \in Int
    BY <1>1, <1>2, <1>3
  <1>7. Day * (k * q) = k * d /\ k * q \in Int /\ k * d \in Int
    BY <1>1, <1>2
  <1>8. Day * (-q) = -d /\ -q \in Int
    BY <1>1, <1>2
  <1>9. Day * 0 = 0
    BY <1>1
  <1> QED
    BY <1>4, <1>5, <1>6, <1>7, <1>8, <1>9 DEF Whole

Shifted(u, s, t) == [from |-> u.from + (t.from - s.from), until |-> u.until + (t.until - s.until)]

(* Where Metrics and a function agree. *)
LEMMA AskedEffect ==
  ASSUME NEW f, f.by \in Int, NEW s \in Spans, f.fn \notin {"baseline", "timeStackDefault"},
         f.fn = "moving" => f.by >= 0, f.fn = "slo" => f.by <= s.until - s.from
  PROVE  Asked(f, s) = Effect(f, s)
  <1>a. s.from \in Int /\ s.until \in Int
    BY DEF Spans
  <1>1. CASE f.fn = "timeShift"
    BY <1>1 DEF Asked, Effect
  <1>2. CASE f.fn = "timeStack"
    BY <1>2 DEF Asked, Effect
  <1>3. CASE f.fn \in {"forecast", "movingMedian"}
    BY <1>3 DEF Asked, Effect
  <1>4. CASE f.fn = "moving"
    <2>1. ~(f.by < 0)
      BY <1>4
    <2> QED
      BY <1>4, <2>1 DEF Asked, Effect
  <1>5. CASE f.fn = "aberration"
    BY <1>5 DEF Asked, Effect
  <1>6. CASE f.fn = "align"
    BY <1>6 DEF Asked, Effect
  <1>7. CASE f.fn = "slo"
    <2>1. ~(f.by > s.until - s.from)
      BY <1>7, <1>a
    <2> QED
      BY <1>7, <2>1 DEF Asked, Effect
  <1>8. CASE f.fn \notin {"timeShift", "timeStack", "forecast", "movingMedian", "moving", "aberration", "align", "slo"}
    BY <1>8 DEF Asked, Effect
  <1> QED
    BY <1>1, <1>2, <1>3, <1>4, <1>5, <1>6, <1>7, <1>8

(* Without alignment an interval is moved whatever it is. *)
LEMMA EffectShift ==
  ASSUME NEW f, f.by \in Int, f.fn # "align", NEW s \in Spans, NEW t \in Effect(f, s)
  PROVE  /\ t \in Spans
         /\ \A u \in Spans : Shifted(u, s, t) \in Effect(f, u) /\ Shifted(u, s, t) \in Spans
         /\ (f.fn = "slo" \/ f.by % Day = 0) => Whole(t.from - s.from)
         /\ (f.fn \in {"forecast", "movingMedian", "moving", "aberration"} => f.by >= 0)
              => s.until - s.from <= t.until - t.from
  <1>a. s.from \in Int /\ s.until \in Int /\ Stack \in Nat
    BY RenderAssumption DEF Spans
  <1>b. f.by % Day = 0 => Whole(f.by)
    BY DownFacts
  <1>c. Whole(0)
    <2>1. Day \in Nat
      BY RenderAssumption
    <2>2. Day * 0 = 0
      BY <2>1
    <2> QED
      BY <2>2 DEF Whole
  <1>1. ASSUME NEW d \in Int, t = Moved(s, d), \A u \in Spans : Moved(u, d) \in Effect(f, u),
               f.by % Day = 0 => Whole(d), f.fn # "slo"
        PROVE  /\ t \in Spans
               /\ \A u \in Spans : Shifted(u, s, t) \in Effect(f, u) /\ Shifted(u, s, t) \in Spans
               /\ (f.fn = "slo" \/ f.by % Day = 0) => Whole(t.from - s.from)
               /\ s.until - s.from <= t.until - t.from
    <2>1. t \in Spans /\ t.from - s.from = d /\ t.until - s.until = d /\ s.until - s.from <= t.until - t.from
      BY <1>a, <1>1, SpanKinds DEF Moved
    <2>2. ASSUME NEW u \in Spans PROVE Shifted(u, s, t) = Moved(u, d)
      BY <2>1 DEF Shifted, Moved
    <2> QED
      BY <1>1, <2>1, <2>2, SpanKinds
  <1>2. ASSUME t = Earlier(s, f.by), \A u \in Spans : Earlier(u, f.by) \in Effect(f, u), f.fn # "slo"
        PROVE  /\ t \in Spans
               /\ \A u \in Spans : Shifted(u, s, t) \in Effect(f, u) /\ Shifted(u, s, t) \in Spans
               /\ (f.fn = "slo" \/ f.by % Day = 0) => Whole(t.from - s.from)
               /\ f.by >= 0 => s.until - s.from <= t.until - t.from
    <2>1. t \in Spans /\ t.from - s.from = -f.by /\ t.until - s.until = 0
          /\ (f.by >= 0 => s.until - s.from <= t.until - t.from)
      BY <1>a, <1>2, SpanKinds DEF Earlier, Spans
    <2>2. ASSUME NEW u \in Spans PROVE Shifted(u, s, t) = Earlier(u, f.by)
      <3>1. u.from \in Int /\ u.until \in Int /\ u = [from |-> u.from, until |-> u.until]
        BY DEF Spans
      <3>2. Earlier(u, f.by) = [from |-> u.from - f.by, until |-> u.until]
        BY <3>1 DEF Earlier
      <3> QED
        BY <2>1, <3>1, <3>2 DEF Shifted
    <2>3. f.by % Day = 0 => Whole(-f.by)
      BY <1>b, WholeFacts
    <2> QED
      BY <1>2, <2>1, <2>2, <2>3, SpanKinds
  <1>3. ASSUME t = s, \A u \in Spans : u \in Effect(f, u)
        PROVE  /\ t \in Spans
               /\ \A u \in Spans : Shifted(u, s, t) \in Effect(f, u) /\ Shifted(u, s, t) \in Spans
               /\ (f.fn = "slo" \/ f.by % Day = 0) => Whole(t.from - s.from)
               /\ s.until - s.from <= t.until - t.from
    <2>1. t.from - s.from = 0 /\ t.until - s.until = 0 /\ s.until - s.from <= t.until - t.from
      BY <1>a, <1>3
    <2>2. ASSUME NEW u \in Spans PROVE Shifted(u, s, t) = u
      <3>1. u.from \in Int /\ u.until \in Int /\ u = [from |-> u.from, until |-> u.until]
        BY DEF Spans
      <3> QED
        BY <2>1, <3>1 DEF Shifted
    <2> QED
      BY <1>3, <1>c, <2>1, <2>2
  <1>4. CASE f.fn = "timeShift"
    <2>1. t = Moved(s, f.by) /\ \A u \in Spans : Moved(u, f.by) \in Effect(f, u)
      BY <1>4 DEF Effect
    <2> QED
      BY <1>1, <1>4, <1>b, <2>1
  <1>5. CASE f.fn = "timeStack"
    <2>1. PICK k \in 0..Stack-1 : t = Moved(s, k * f.by)
      BY <1>5 DEF Effect
    <2>2. \A u \in Spans : Moved(u, k * f.by) \in Effect(f, u)
      BY <1>5 DEF Effect
    <2>3. k \in Int /\ k * f.by \in Int /\ (f.by % Day = 0 => Whole(k * f.by))
      <3>1. k \in Int /\ k * f.by \in Int
        BY <1>a
      <3> SUFFICES ASSUME Whole(f.by) PROVE Whole(k * f.by)
        BY <1>b, <3>1
      <3> QED
        BY <3>1, WholeFacts
    <2> QED
      BY <1>1, <1>5, <2>1, <2>2, <2>3
  <1>6. CASE f.fn \in {"forecast", "movingMedian", "moving"}
    <2>1. t = Earlier(s, f.by) /\ \A u \in Spans : Earlier(u, f.by) \in Effect(f, u)
      BY <1>6 DEF Effect
    <2> QED
      BY <1>2, <1>6, <2>1
  <1>7. CASE f.fn = "aberration"
    <2>1. \A u \in Spans : Effect(f, u) = {u, Earlier(u, f.by)}
      BY <1>7 DEF Effect
    <2>2. CASE t = s
      BY <1>3, <2>1, <2>2
    <2>3. CASE t = Earlier(s, f.by)
      BY <1>2, <1>7, <2>1, <2>3
    <2> QED
      BY <2>1, <2>2, <2>3
  <1>8. CASE f.fn \notin {"timeShift", "timeStack", "forecast", "movingMedian", "moving", "aberration"}
    <2>1. \A u \in Spans : Effect(f, u) = {u}
      BY <1>8 DEF Effect
    <2> QED
      BY <1>3, <2>1
  <1> QED
    BY <1>4, <1>5, <1>6, <1>7, <1>8

(* Agrees, for one of the functions of an expression. *)
LEMMA AgreesOf ==
  ASSUME NEW F, NEW fs \in Seq(F), NEW span \in Spans, Agrees(fs, span), NEW k \in DOMAIN fs,
         \A l \in DOMAIN fs : fs[l].by \in Int
  PROVE  /\ fs[k].fn \notin {"baseline", "timeStackDefault"}
         /\ fs[k].fn = "moving" => fs[k].by >= 0
         /\ fs[k].fn = "slo" => fs[k].by <= span.until - span.from
         /\ \A l \in DOMAIN fs :
              /\ fs[l].fn = "slo" /\ fs[k].fn \in {"forecast", "movingMedian", "moving", "aberration"} => fs[k].by >= 0
              /\ fs[l].fn = "align" /\ fs[k].fn # "align" => fs[k].fn = "slo" \/ fs[k].by % Day = 0
  <1>1. DOMAIN fs = 1..Len(fs)
    OBVIOUS
  <1> QED
    BY <1>1 DEF Agrees

(* Of the intervals asked for inside: after an alignment they begin with a *)
(* day, and for slo they are no shorter. *)
LEMMA LookupsKeep ==
  ASSUME NEW F, NEW fs \in Seq(F), \A k \in DOMAIN fs : fs[k].by \in Int, NEW span \in Spans, Agrees(fs, span),
         NEW L \in [0..Len(fs) -> SUBSET Spans], L[0] = {span},
         \A i \in 1..Len(fs) : L[i] = UNION {Asked(fs[i], s) : s \in L[i - 1]},
         NEW i \in 0..Len(fs), NEW s \in L[i]
  PROVE  /\ (\E k \in DOMAIN fs : fs[k].fn = "slo") => span.until - span.from <= s.until - s.from
         /\ (\E k \in 1..i : fs[k].fn = "align") => Whole(s.from)
  <1> DEFINE n == Len(fs)
             Slo == \E k \in DOMAIN fs : fs[k].fn = "slo"
             Day0(j) == \E k \in 1..j : fs[k].fn = "align"
             P(j, t) == (Slo => span.until - span.from <= t.until - t.from) /\ (Day0(j) => Whole(t.from))
             T == {j \in Nat : j <= n => \A t \in L[j] : P(j, t)}
  <1>1. n \in Nat /\ DOMAIN fs = 1..n /\ span.from \in Int /\ span.until \in Int
    BY DEF Spans
  <1>2. 0 \in T
    <2>1. ~Day0(0)
      OBVIOUS
    <2>2. P(0, span)
      BY <1>1, <2>1
    <2> HIDE DEF P
    <2> QED
      BY <2>2
  <1>3. ASSUME NEW j \in Nat, j \in T PROVE j + 1 \in T
    <2> SUFFICES ASSUME j + 1 <= n, NEW t \in L[j + 1] PROVE P(j + 1, t)
      OBVIOUS
    <2> DEFINE f == fs[j + 1]
    <2>1. j + 1 \in 1..n /\ (j + 1) - 1 = j /\ j \in 0..n /\ f.by \in Int /\ L[j] \subseteq Spans
      BY <1>1
    <2>2. L[j + 1] = UNION {Asked(f, u) : u \in L[(j + 1) - 1]}
      BY <2>1
    <2>3. PICK u \in L[j] : t \in Asked(f, u)
      BY <2>1, <2>2
    <2>4. P(j, u) /\ u \in Spans /\ u.from \in Int /\ u.until \in Int
      BY <1>3, <2>1, <2>3 DEF Spans
    <2>5. /\ f.fn \notin {"baseline", "timeStackDefault"}
          /\ f.fn = "moving" => f.by >= 0
          /\ f.fn = "slo" => f.by <= span.until - span.from
          /\ Slo /\ f.fn \in {"forecast", "movingMedian", "moving", "aberration"} => f.by >= 0
          /\ \A l \in DOMAIN fs : fs[l].fn = "align" /\ f.fn # "align" => f.fn = "slo" \/ f.by % Day = 0
      BY <1>1, <2>1, AgreesOf
    <2>6. f.fn = "slo" => f.by <= u.until - u.from
      <3> SUFFICES ASSUME f.fn = "slo" PROVE f.by <= u.until - u.from
        OBVIOUS
      <3>1. span.until - span.from <= u.until - u.from
        <4>1. Slo
          BY <2>1, <1>1
        <4> QED
          BY <2>4, <4>1
      <3>2. f.by <= span.until - span.from
        BY <2>5
      <3> DEFINE x == f.by
                 y == span.until - span.from
                 z == u.until - u.from
      <3>3. x \in Int /\ y \in Int /\ z \in Int
        BY <1>1, <2>1, <2>4
      <3> HIDE DEF x, y, z
      <3>4. x <= z
        <4>1. x <= y /\ y <= z
          BY <3>1, <3>2 DEF x, y, z
        <4> QED
          BY <3>3, <4>1, AtMost
      <3> QED
        BY <3>4 DEF x, z
    <2> HIDE DEF f
    <2>7. t \in Effect(f, u)
      BY <2>1, <2>3, <2>4, <2>5, <2>6, AskedEffect
    <2>8. Day0(j + 1) <=> Day0(j) \/ f.fn = "align"
      <3>1. 1..(j + 1) = (1..j) \cup {j + 1}
        OBVIOUS
      <3> QED
        BY <3>1 DEF f
    <2>9. CASE f.fn = "align"
      <3>1. t = Aligned(u) /\ t.from = Down(u.from) /\ t.until = u.until
        BY <2>4, <2>7, <2>9 DEF Effect, Aligned, Down, Spans
      <3>2. Whole(t.from) /\ Down(u.from) \in Int
        BY <2>4, <3>1, DownFacts
      <3>3. Down(u.from) <= u.from
        <4>1. Day \in Nat \ {0}
          BY RenderAssumption
        <4>2. u.from % Day \in 0..(Day - 1)
          BY <2>4, <4>1
        <4> QED
          BY <2>4, <4>1, <4>2 DEF Down
      <3> QED
        BY <1>1, <2>4, <3>1, <3>2, <3>3
    <2>10. CASE f.fn # "align"
      <3>1. /\ t \in Spans
            /\ (f.fn = "slo" \/ f.by % Day = 0) => Whole(t.from - u.from)
            /\ Slo => u.until - u.from <= t.until - t.from
        BY <2>1, <2>4, <2>5, <2>7, <2>10, EffectShift
      <3>2. t.from \in Int /\ t.until \in Int /\ u.from + (t.from - u.from) = t.from
        BY <2>4, <3>1 DEF Spans
      <3>3. ASSUME Day0(j) PROVE Whole(t.from)
        <4>1. Whole(u.from)
          BY <2>4, <3>3
        <4>2. f.fn = "slo" \/ f.by % Day = 0
          <5>1. PICK k \in 1..j : fs[k].fn = "align"
            BY <3>3
          <5>2. k \in DOMAIN fs
            BY <1>1, <2>1
          <5> QED
            BY <2>5, <2>10, <5>1, <5>2
        <4>3. Whole(u.from + (t.from - u.from))
          BY <3>1, <4>1, <4>2, WholeFacts
        <4> QED
          BY <3>2, <4>3
      <3>4. Slo => span.until - span.from <= t.until - t.from
        <4>1. Slo => span.until - span.from <= u.until - u.from
          BY <2>4
        <4>2. Slo => u.until - u.from <= t.until - t.from
          BY <3>1
        <4> DEFINE x == span.until - span.from
                   y == u.until - u.from
                   z == t.until - t.from
        <4>a. span.from \in Int /\ span.until \in Int
          BY <1>1
        <4>b. u.from \in Int /\ u.until \in Int
          BY <2>4
        <4>c. t.from \in Int /\ t.until \in Int
          BY <3>2
        <4>3. x \in Int /\ y \in Int /\ z \in Int
          <5>1. x \in Int
            BY <4>a
          <5>2. y \in Int
            BY <4>b
          <5>3. z \in Int
            BY <4>c
          <5> QED
            BY <5>1, <5>2, <5>3
        <4> HIDE DEF Slo, x, y, z
        <4>4. Slo => x <= y /\ y <= z
          BY <4>1, <4>2 DEF x, y, z
        <4>5. Slo => x <= z
          BY <4>3, <4>4, AtMost
        <4> QED
          BY <4>5 DEF x, z
      <3> QED
        BY <2>8, <2>10, <3>3, <3>4
    <2> QED
      BY <2>9, <2>10
  <1>4. i \in T /\ i <= n
    <2>1. i \in Nat /\ i <= n
      BY <1>1
    <2> HIDE DEF T, n
    <2> QED
      BY <2>1, <1>2, <1>3, NatInd
  <1> QED
    BY <1>1, <1>4

(* The functions and Metrics walk an expression in opposite directions.    *)
(* l is looked up at the end of a walk inwards by way of s, which has the  *)
(* first i functions behind it: the walk of Metrics outwards, before it    *)
(* comes to those, has been at Mirror(i, s). *)
Level(fs, x) == IF \E k \in DOMAIN fs : fs[k].fn = "align" THEN Down(x) ELSE x

Inner(fs, span, i) ==
  IF \E k \in DOMAIN fs : k > i /\ fs[k].fn = "align" THEN Down(span.from) ELSE span.from

Mirror(fs, span, l, i, s) ==
  [from |-> Inner(fs, span, i) + (Level(fs, l.from) - Level(fs, s.from)),
   until |-> span.until + (l.until - s.until)]

LEMMA MirrorStep ==
  ASSUME NEW F, NEW fs \in Seq(F), \A k \in DOMAIN fs : fs[k].by \in Int, NEW span \in Spans, Agrees(fs, span),
         NEW i \in DOMAIN fs, NEW l \in Spans, NEW s \in Spans, NEW t \in Effect(fs[i], s), t \in Spans
  PROVE  /\ Mirror(fs, span, l, i, t) \in Spans
         /\ Mirror(fs, span, l, i - 1, s) \in Effect(fs[i], Mirror(fs, span, l, i, t))
  <1> DEFINE f == fs[i]
             u == Mirror(fs, span, l, i, t)
             Days == \E k \in DOMAIN fs : fs[k].fn = "align"
             w == Level(fs, l.from) - Level(fs, t.from)
  <1>1. /\ span.from \in Int /\ span.until \in Int /\ s.from \in Int /\ s.until \in Int
        /\ t.from \in Int /\ t.until \in Int /\ l.from \in Int /\ l.until \in Int /\ f.by \in Int /\ i \in Int
    BY DEF Spans
  <1>2. ASSUME NEW x \in Int PROVE Level(fs, x) \in Int /\ Down(x) \in Int /\ (Days => Level(fs, x) = Down(x) /\ Whole(Down(x)))
    BY DownFacts DEF Level
  <1>3. Inner(fs, span, i) \in {span.from, Down(span.from)} /\ Inner(fs, span, i) \in Int
    BY <1>1, <1>2 DEF Inner
  <1>b. Inner(fs, span, i) \in Int
    BY <1>3
  <1>a. Level(fs, l.from) \in Int /\ Level(fs, t.from) \in Int /\ Level(fs, s.from) \in Int
    BY <1>1, <1>2
  <1>4. u = [from |-> Inner(fs, span, i) + w, until |-> span.until + (l.until - t.until)]
        /\ w \in Int /\ u \in Spans
    <2>1. u = [from |-> Inner(fs, span, i) + w, until |-> span.until + (l.until - t.until)]
      BY DEF Mirror
    <2>2. w \in Int
      BY <1>a
    <2> HIDE DEF w, u
    <2>3. Inner(fs, span, i) + w \in Int /\ span.until + (l.until - t.until) \in Int
      <3>1. Inner(fs, span, i) + w \in Int
        BY <1>b, <2>2
      <3>2. span.until + (l.until - t.until) \in Int
        BY <1>1
      <3> QED
        BY <3>1, <3>2
    <2> QED
      BY <2>1, <2>2, <2>3 DEF Spans
  <1>5. CASE f.fn = "align"
    <2>1. Days
      BY <1>5
    <2>2. t.from = Down(s.from) /\ t.until = s.until /\ Effect(f, u) = {Aligned(u)}
      BY <1>1, <1>5 DEF Effect, Aligned, Down, Spans
    <2>3. Down(t.from) = t.from
      BY <1>1, <2>2, DownFacts
    <2>4. Whole(w)
      <3>1. w = Down(l.from) - Down(t.from) /\ Whole(Down(l.from)) /\ Whole(Down(t.from))
        BY <1>1, <1>2, <2>1
      <3> HIDE DEF w
      <3> QED
        BY <3>1, WholeFacts
    <2> HIDE DEF w, f, u
    <2>5. Down(Inner(fs, span, i) + w) = Down(span.from) + w
      <3>1. Down(Inner(fs, span, i)) = Down(span.from)
        BY <1>1, <1>3, DownFacts
      <3>2. Down(Inner(fs, span, i) + w) = Down(Inner(fs, span, i)) + w
        BY <1>3, <2>4, DownFacts
      <3> QED
        BY <3>1, <3>2
    <2>6. Aligned(u) = [from |-> Down(span.from) + w, until |-> span.until + (l.until - t.until)]
      BY <1>4, <2>5 DEF Aligned, Down
    <2>7. Inner(fs, span, i - 1) = Down(span.from)
      <3>1. i > i - 1
        BY <1>1
      <3> QED
        BY <1>5, <3>1 DEF Inner, f
    <2>8. Level(fs, s.from) = Level(fs, t.from)
      BY <1>1, <1>2, <2>1, <2>2, <2>3
    <2>9. Mirror(fs, span, l, i - 1, s) = Aligned(u)
      BY <2>2, <2>6, <2>7, <2>8 DEF Mirror, w
    <2> QED
      BY <1>4, <2>2, <2>9 DEF f, u
  <1>6. CASE f.fn # "align"
    <2>1. Inner(fs, span, i - 1) = Inner(fs, span, i)
      <3>1. \A k \in DOMAIN fs : k > i - 1 <=> k > i \/ k = i
        BY <1>1
      <3> QED
        BY <1>6, <3>1 DEF Inner
    <2>2. (f.fn = "slo" \/ f.by % Day = 0) => Whole(t.from - s.from)
      BY <1>1, <1>6, EffectShift
    <2>3. Shifted(u, s, t) \in Effect(f, u)
      BY <1>1, <1>4, <1>6, EffectShift
    <2>4. Level(fs, t.from) = Level(fs, s.from) + (t.from - s.from)
      <3>1. CASE Days
        <4>1. f.fn = "slo" \/ f.by % Day = 0
          BY <1>6, <3>1, AgreesOf
        <4>2. Down(s.from + (t.from - s.from)) = Down(s.from) + (t.from - s.from)
          BY <1>1, <2>2, <4>1, DownFacts
        <4>3. s.from + (t.from - s.from) = t.from
          BY <1>1
        <4> QED
          BY <1>1, <1>2, <3>1, <4>2, <4>3
      <3>2. CASE ~Days
        BY <1>1, <3>2 DEF Level
      <3> QED
        BY <3>1, <3>2
    <2>5. u.from = Inner(fs, span, i) + (Level(fs, l.from) - Level(fs, t.from)) /\ u.until = span.until + (l.until - t.until)
      BY DEF Mirror
    <2> HIDE DEF u
    <2>6. u.from + (t.from - s.from) = Inner(fs, span, i) + (Level(fs, l.from) - Level(fs, s.from))
      <3> DEFINE a == Inner(fs, span, i)
                 b == Level(fs, l.from)
                 p == Level(fs, t.from)
                 q == Level(fs, s.from)
                 d == t.from - s.from
      <3>1. a \in Int /\ b \in Int /\ p \in Int /\ q \in Int /\ d \in Int
        BY <1>1, <1>a, <1>b
      <3>2. p = q + d /\ u.from = a + (b - p)
        BY <2>4, <2>5
      <3> HIDE DEF a, b, p, q, d
      <3>3. u.from + d = a + (b - q)
        BY <3>1, <3>2
      <3> QED
        BY <3>3 DEF a, b, q, d
    <2>7. u.until + (t.until - s.until) = span.until + (l.until - s.until)
      BY <1>1, <2>5
    <2>8. Mirror(fs, span, l, i - 1, s) = Shifted(u, s, t)
      BY <2>1, <2>6, <2>7 DEF Mirror, Shifted
    <2> QED
      BY <1>4, <2>3, <2>8 DEF u
  <1> QED
    BY <1>5, <1>6

(* Whatever the functions, nested in whatever way: what they look up is    *)
(* among what Metrics has fetched, where the two agree on each function. *)
LEMMA MetricsCover ==
  ASSUME NEW F, NEW fs \in Seq(F), \A k \in DOMAIN fs : fs[k].by \in Int, NEW span \in Spans, Agrees(fs, span)
  PROVE  Metrics(fs, span) \in Seq(Spans) /\ Lookups(fs, span) \subseteq Range(Metrics(fs, span))
  <1> DEFINE n == Len(fs)
  <1>1. n \in Nat /\ DOMAIN fs = 1..n
    OBVIOUS
  <1>2. PICK L \in [0..n -> SUBSET Spans] :
            /\ L[0] = {span} /\ L[n] = Lookups(fs, span)
            /\ \A i \in 1..n : L[i] = UNION {Asked(fs[i], s) : s \in L[i - 1]}
    BY LookupSteps
  <1>3. PICK R \in [0..n -> Seq(Spans)] :
            /\ R[n] = <<span>> /\ R[0] = Metrics(fs, span)
            /\ \A i \in 1..n : R[i - 1] = Adjusted(fs[i], R[i])
    BY MetricsSteps
  <1>4. ASSUME NEW l \in L[n] PROVE l \in Range(R[0])
    <2> DEFINE Reached(i) == \E s \in L[i] : Mirror(fs, span, l, i, s) \in Range(R[i])
               T == {k \in Nat : k <= n => Reached(n - k)}
    <2>a. l \in Spans /\ l.from \in Int /\ l.until \in Int /\ span.from \in Int /\ span.until \in Int
      BY <1>1, <1>2 DEF Spans
    <2>b. Level(fs, l.from) \in Int /\ Level(fs, span.from) \in Int /\ Down(span.from) \in Int
      BY <2>a, DownFacts DEF Level
    <2>1. Reached(n)
      <3>1. Inner(fs, span, n) = span.from
        BY <1>1 DEF Inner
      <3>2. Mirror(fs, span, l, n, l) = [from |-> span.from, until |-> span.until]
        <4>1. span.from + (Level(fs, l.from) - Level(fs, l.from)) = span.from /\ span.until + (l.until - l.until) = span.until
          BY <2>a, <2>b
        <4> QED
          BY <3>1, <4>1 DEF Mirror
      <3>3. [from |-> span.from, until |-> span.until] = span
        BY DEF Spans
      <3>4. span \in Range(<<span>>)
        BY DEF Range
      <3> QED
        BY <1>3, <3>2, <3>3, <3>4
    <2>2. ASSUME NEW i \in 1..n, Reached(i) PROVE Reached(i - 1)
      <3>1. i - 1 \in 0..n /\ i \in 0..n /\ i \in DOMAIN fs
        BY <1>1
      <3>2. PICK t \in L[i] : Mirror(fs, span, l, i, t) \in Range(R[i])
        BY <2>2
      <3>3. PICK s \in L[i - 1] : t \in Asked(fs[i], s)
        BY <1>2, <3>2
      <3>4. s \in Spans /\ t \in Spans /\ s.from \in Int /\ s.until \in Int
        BY <1>2, <3>1, <3>2, <3>3 DEF Spans
      <3>5. /\ fs[i].fn \notin {"baseline", "timeStackDefault"} /\ fs[i].by \in Int
            /\ fs[i].fn = "moving" => fs[i].by >= 0
            /\ fs[i].fn = "slo" => fs[i].by <= span.until - span.from
        BY <3>1, AgreesOf
      <3>6. fs[i].fn = "slo" => span.until - span.from <= s.until - s.from
        <4> SUFFICES ASSUME fs[i].fn = "slo" PROVE span.until - span.from <= s.until - s.from
          OBVIOUS
        <4>1. (\E k \in DOMAIN fs : fs[k].fn = "slo") => span.until - span.from <= s.until - s.from
          BY <1>2, <3>1, <3>3, LookupsKeep
        <4> QED
          BY <3>1, <4>1
      <3>7. fs[i].fn = "slo" => fs[i].by <= s.until - s.from
        BY <2>a, <3>4, <3>5, <3>6
      <3>8. t \in Effect(fs[i], s)
        BY <3>3, <3>4, <3>5, <3>7, AskedEffect
      <3>9. Mirror(fs, span, l, i - 1, s) \in Effect(fs[i], Mirror(fs, span, l, i, t))
        BY <2>a, <3>1, <3>4, <3>8, MirrorStep
      <3>10. R[i] \in Seq(Spans) /\ R[i - 1] = Adjusted(fs[i], R[i])
        BY <1>3, <3>1
      <3>11. Effect(fs[i], Mirror(fs, span, l, i, t)) \subseteq Range(R[i - 1])
        BY <3>2, <3>5, <3>10, AdjustedTyped
      <3> QED
        BY <3>3, <3>9, <3>11
    <2>3. Reached(0)
      <3> HIDE DEF Reached
      <3>1. 0 \in T
        <4>1. n - 0 = n
          BY <1>1
        <4> HIDE DEF n
        <4> QED
          BY <2>1, <4>1
      <3>2. ASSUME NEW k \in Nat, k \in T PROVE k + 1 \in T
        <4> SUFFICES ASSUME k + 1 <= n PROVE Reached(n - (k + 1))
          OBVIOUS
        <4>1. n - k \in 1..n /\ (n - k) - 1 = n - (k + 1) /\ Reached(n - k)
          BY <1>1, <3>2
        <4> HIDE DEF n
        <4> QED
          BY <2>2, <4>1
      <3>3. n \in T
        <4> HIDE DEF T, n
        <4> QED
          BY <1>1, <3>1, <3>2, NatInd
      <3>4. n - n = 0 /\ n <= n
        BY <1>1
      <3> HIDE DEF n
      <3> QED
        BY <3>3, <3>4
    <2>4. Mirror(fs, span, l, 0, span) \in Range(R[0])
      BY <1>2, <2>3
    <2>5. Inner(fs, span, 0) = Level(fs, span.from)
      <3>1. \A k \in DOMAIN fs : k > 0
        BY <1>1
      <3> QED
        BY <3>1 DEF Inner, Level
    <2>6. Level(fs, l.from) = l.from
      <3> SUFFICES ASSUME \E k \in DOMAIN fs : fs[k].fn = "align" PROVE Down(l.from) = l.from
        BY DEF Level
      <3>1. n \in 0..n
        BY <1>1
      <3>2. Whole(l.from)
        BY <1>1, <1>2, <1>4, <3>1, LookupsKeep
      <3> QED
        BY <2>a, <3>2, DownFacts
    <2>7. Level(fs, span.from) + (Level(fs, l.from) - Level(fs, span.from)) = l.from /\ span.until + (l.until - span.until) = l.until
      BY <2>a, <2>b, <2>6
    <2>8. Mirror(fs, span, l, 0, span) = [from |-> l.from, until |-> l.until]
      BY <2>5, <2>7 DEF Mirror
    <2>9. [from |-> l.from, until |-> l.until] = l
      BY <2>a DEF Spans
    <2> QED
      BY <2>4, <2>8, <2>9
  <1>5. R[0] \in Seq(Spans)
    BY <1>1, <1>3
  <1> QED
    BY <1>2, <1>3, <1>4, <1>5

LEMMA MetricsTyped ==
  ASSUME NEW F, NEW fs \in Seq(F), NEW span \in Spans, \A k \in DOMAIN fs : fs[k].by \in Int
  PROVE  Metrics(fs, span) \in Seq(Spans)
  <1>1. PICK R \in [0..Len(fs) -> Seq(Spans)] : R[0] = Metrics(fs, span)
    BY MetricsSteps
  <1>2. 0 \in 0..Len(fs)
    OBVIOUS
  <1> QED
    BY <1>1, <1>2

GoodArg(a) == a.fs \in Seq(Range(a.fs)) /\ \A k \in DOMAIN a.fs : a.fs[k].by \in Int

GoodArgs(targets) ==
  /\ targets \in Seq(Range(targets))
  /\ \A t \in DOMAIN targets :
       targets[t] \in Seq(Range(targets[t])) /\ \A a \in DOMAIN targets[t] : GoodArg(targets[t][a])

NamesIn(targets) == UNION {{targets[t][a].name : a \in DOMAIN targets[t]} : t \in DOMAIN targets}
Asking(targets) == [name : NamesIn(targets), span : Spans]

LEMMA RequestsCover ==
  ASSUME NEW targets, GoodArgs(targets), NEW span \in Spans
  PROVE  /\ RequestsOf(targets, span) \in Seq(Asking(targets))
         /\ \A t \in DOMAIN targets : \A a \in DOMAIN targets[t] : \A s \in Range(Metrics(targets[t][a].fs, span)) :
              Request(targets[t][a].name, s) \in Range(RequestsOf(targets, span))
  <1> DEFINE S == Asking(targets)
             Of(t, a) == LET r == Metrics(targets[t][a].fs, span)
                         IN [i \in DOMAIN r |-> Request(targets[t][a].name, r[i])]
             Row(t) == [a \in DOMAIN targets[t] |-> Of(t, a)]
             Rows == [t \in DOMAIN targets |-> FlattenSeq(Row(t))]
  <1>1. RequestsOf(targets, span) = FlattenSeq(Rows)
    BY DEF RequestsOf
  <1>2. ASSUME NEW t \in DOMAIN targets, NEW a \in DOMAIN targets[t]
        PROVE  /\ Of(t, a) \in Seq(S)
               /\ \A s \in Range(Metrics(targets[t][a].fs, span)) : Request(targets[t][a].name, s) \in Range(Of(t, a))
    <2> DEFINE r == Metrics(targets[t][a].fs, span)
               name == targets[t][a].name
    <2>1. r \in Seq(Spans)
      BY MetricsTyped DEF GoodArgs, GoodArg
    <2>2. name \in NamesIn(targets)
      BY DEF NamesIn
    <2> HIDE DEF r, name
    <2>3. \A i \in DOMAIN r : Request(name, r[i]) \in S
      BY <2>1, <2>2 DEF Asking, Request
    <2> HIDE DEF S
    <2>4. [i \in DOMAIN r |-> Request(name, r[i])] \in Seq(S)
      BY <2>1, <2>3
    <2>5. \A s \in Range(r) : Request(name, s) \in Range([i \in DOMAIN r |-> Request(name, r[i])])
      BY DEF Range
    <2> QED
      BY <2>4, <2>5 DEF r, name
  <1> HIDE DEF S, Of
  <1>3. ASSUME NEW t \in DOMAIN targets
        PROVE  /\ FlattenSeq(Row(t)) \in Seq(S)
               /\ \A a \in DOMAIN targets[t] : Range(Of(t, a)) \subseteq Range(FlattenSeq(Row(t)))
    <2>1. DOMAIN targets[t] = 1..Len(targets[t]) /\ Len(targets[t]) \in Nat
      BY DEF GoodArgs
    <2>2. Row(t) \in Seq(Seq(S)) /\ DOMAIN Row(t) = DOMAIN targets[t] /\ \A a \in DOMAIN targets[t] : Row(t)[a] = Of(t, a)
      BY <1>2, <2>1
    <2> HIDE DEF Row
    <2> QED
      BY <2>2, FlattenElements
  <1> HIDE DEF Row
  <1>4. Rows \in Seq(Seq(S)) /\ DOMAIN Rows = DOMAIN targets /\ \A t \in DOMAIN targets : Rows[t] = FlattenSeq(Row(t))
    <2>1. DOMAIN targets = 1..Len(targets) /\ Len(targets) \in Nat
      BY DEF GoodArgs
    <2> QED
      BY <1>3, <2>1
  <1> HIDE DEF Rows
  <1>5. FlattenSeq(Rows) \in Seq(S) /\ \A t \in DOMAIN Rows : Range(Rows[t]) \subseteq Range(FlattenSeq(Rows))
    BY <1>4, FlattenElements
  <1>6. ASSUME NEW t \in DOMAIN targets, NEW a \in DOMAIN targets[t], NEW s \in Range(Metrics(targets[t][a].fs, span))
        PROVE  Request(targets[t][a].name, s) \in Range(FlattenSeq(Rows))
    <2>1. Request(targets[t][a].name, s) \in Range(Of(t, a))
      BY <1>2
    <2>2. Range(Of(t, a)) \subseteq Range(FlattenSeq(Row(t)))
      BY <1>3
    <2>3. Range(FlattenSeq(Row(t))) \subseteq Range(FlattenSeq(Rows))
      BY <1>4, <1>5
    <2> QED
      BY <2>1, <2>2, <2>3
  <1> QED
    BY <1>1, <1>5, <1>6 DEF S

(* One request of a Fetch. *)
PlanStep(known, p, m) ==
  IF m \in p.wanted THEN p
  ELSE IF m \in known THEN [p EXCEPT !.wanted = @ \cup {m}]
  ELSE [cache |-> [p.cache EXCEPT ![m.name] = m.span],
        wanted |-> p.wanted \cup {m}, todo |-> Append(p.todo, m)]

PlanStates(N) ==
  [cache : [N -> Spans], wanted : SUBSET [name : N, span : Spans], todo : Seq([name : N, span : Spans])]

(* cache knows an interval of what is to be fetched. *)
PlanRight(N, p) ==
  /\ p \in PlanStates(N)
  /\ \A m \in Range(p.todo) : \E x \in Range(p.todo) : x.name = m.name /\ p.cache[m.name] = x.span

LEMMA PlanStepKeeps ==
  ASSUME NEW N, NEW p \in PlanStates(N), NEW m \in [name : N, span : Spans], NEW known
  PROVE  /\ PlanStep(known, p, m) \in PlanStates(N)
         /\ m \in PlanStep(known, p, m).wanted /\ p.wanted \subseteq PlanStep(known, p, m).wanted
         /\ PlanRight(N, p) => PlanRight(N, PlanStep(known, p, m))
  <1> DEFINE Q == [name : N, span : Spans]
             q == PlanStep(known, p, m)
  <1>1. p.cache \in [N -> Spans] /\ p.wanted \subseteq Q /\ p.todo \in Seq(Q) /\ m \in Q
    BY DEF PlanStates
  <1>a. m.name \in N /\ m.span \in Spans
    OBVIOUS
  <1>2. CASE m \in p.wanted
    BY <1>2 DEF PlanStep
  <1> HIDE DEF Q
  <1>3. CASE m \notin p.wanted /\ m \in known
    <2>1. q = [p EXCEPT !.wanted = @ \cup {m}]
      BY <1>3 DEF PlanStep
    <2>2. q \in PlanStates(N) /\ q.wanted = p.wanted \cup {m} /\ q.cache = p.cache /\ q.todo = p.todo
      BY <1>1, <2>1 DEF PlanStates, Q
    <2> HIDE DEF q
    <2>3. m \in q.wanted /\ p.wanted \subseteq q.wanted
      BY <2>2
    <2>4. PlanRight(N, p) => PlanRight(N, q)
      BY <2>2 DEF PlanRight
    <2> QED
      BY <2>2, <2>3, <2>4 DEF q
  <1>4. CASE m \notin p.wanted /\ m \notin known
    <2> DEFINE cache == [p.cache EXCEPT ![m.name] = m.span]
               todo == Append(p.todo, m)
    <2>1. q = [cache |-> cache, wanted |-> p.wanted \cup {m}, todo |-> todo]
      BY <1>4 DEF PlanStep
    <2>2. cache \in [N -> Spans] /\ todo \in Seq(Q) /\ p.wanted \cup {m} \subseteq Q
      BY <1>1, <1>a
    <2>3. q \in PlanStates(N) /\ q.wanted = p.wanted \cup {m} /\ q.cache = cache /\ q.todo = todo
      <3> HIDE DEF cache, todo, q
      <3> QED
        BY <2>1, <2>2 DEF PlanStates, Q
    <2>4. Range(todo) = Range(p.todo) \cup {m}
      <3>1. todo = p.todo \o <<m>> /\ <<m>> \in Seq(Q) /\ Range(<<m>>) = {m}
        BY <1>1 DEF Range
      <3> HIDE DEF todo
      <3>2. Range(p.todo \o <<m>>) = Range(p.todo) \cup Range(<<m>>)
        <4> DEFINE b == <<m>>
        <4>1. b \in Seq(Q)
          BY <3>1
        <4> HIDE DEF b
        <4>2. Range(p.todo \o b) = Range(p.todo) \cup Range(b)
          BY <1>1, <4>1, ConcatElements
        <4> QED
          BY <4>2 DEF b
      <3> QED
        BY <3>1, <3>2
    <2>5. ASSUME PlanRight(N, p), NEW x \in Range(todo)
          PROVE  \E y \in Range(todo) : y.name = x.name /\ cache[x.name] = y.span
      <3>0. todo = Append(p.todo, m)
        OBVIOUS
      <3> HIDE DEF todo
      <3>1. m \in Range(todo) /\ Range(p.todo) \subseteq Range(todo) /\ (x \in Range(p.todo) \/ x = m)
        BY <2>4
      <3>2. CASE x.name = m.name
        <4>1. cache[x.name] = m.span
          BY <1>1, <1>a, <3>2
        <4> QED
          BY <3>1, <3>2, <4>1
      <3>3. CASE x.name # m.name
        <4>1. x \in Range(p.todo)
          BY <3>1, <3>3
        <4>2. PICK y \in Range(p.todo) : y.name = x.name /\ p.cache[x.name] = y.span
          BY <2>5, <4>1 DEF PlanRight
        <4>3. x.name \in N
          <5>1. x \in Q
            BY <1>1, <4>1 DEF Range
          <5> QED
            BY <5>1 DEF Q
        <4>4. cache[x.name] = p.cache[x.name]
          BY <1>1, <3>3, <4>3
        <4> QED
          BY <3>1, <4>2, <4>4
      <3> QED
        BY <3>2, <3>3
    <2> HIDE DEF q, cache, todo
    <2>6. PlanRight(N, p) => PlanRight(N, q)
      BY <2>3, <2>5 DEF PlanRight
    <2>7. m \in q.wanted /\ p.wanted \subseteq q.wanted
      BY <2>3
    <2> QED
      BY <2>3, <2>6, <2>7 DEF q
  <1> QED
    BY <1>2, <1>3, <1>4

LEMMA EmptyPlan ==
  ASSUME NEW N, NEW cache \in [N -> Spans]
  PROVE  PlanRight(N, [cache |-> cache, wanted |-> {}, todo |-> <<>>])
         /\ [cache |-> cache, wanted |-> {}, todo |-> <<>>] \in PlanStates(N)
  <1> DEFINE Q == [name : N, span : Spans]
  <1>1. PlanStates(N) = [cache : [N -> Spans], wanted : SUBSET Q, todo : Seq(Q)]
    BY DEF PlanStates
  <1> HIDE DEF Q
  <1>2. [cache |-> cache, wanted |-> {}, todo |-> <<>>] \in PlanStates(N)
    BY <1>1
  <1>3. Range(<<>>) = {}
    BY DEF Range
  <1> QED
    BY <1>2, <1>3 DEF PlanRight

(* Fetch goes through the requests from the first. *)
PlanNames(reqs) == {reqs[i].name : i \in DOMAIN reqs}

WellAsked(reqs) ==
  /\ reqs \in Seq(Range(reqs))
  /\ \A i \in DOMAIN reqs : reqs[i] \in [name : PlanNames(reqs), span : Spans]

LEMMA PlanSteps ==
  ASSUME NEW targets, NEW span, NEW known, WellAsked(RequestsOf(targets, span))
  PROVE  \E h : /\ h[0] = [cache |-> [x \in PlanNames(RequestsOf(targets, span)) |-> NoSpan], wanted |-> {}, todo |-> <<>>]
                /\ \A i \in 1..Len(RequestsOf(targets, span)) :
                      h[i] = PlanStep(known, h[i - 1], RequestsOf(targets, span)[i])
                /\ Plan(targets, span, known) = h[Len(RequestsOf(targets, span))]
  <1> DEFINE reqs == RequestsOf(targets, span)
             n == Len(reqs)
             N == PlanNames(reqs)
             V == PlanStates(N)
             Op(p, m) == PlanStep(known, p, m)
             base == [cache |-> [x \in {reqs[i].name : i \in DOMAIN reqs} |-> NoSpan], wanted |-> {}, todo |-> <<>>]
             G == [p \in V \X (1..n) |-> Op(p[1], reqs[p[2]])]
             M == [s \in SUBSET (1..n) |-> Max(s)]
             E(f) == f = [s \in SUBSET DOMAIN reqs |->
                       IF s = {} THEN base ELSE Op(f[s \ {Max(s)}], reqs[Max(s)])]
             iter == CHOOSE f : E(f)
             h == [i \in 0..n |-> iter[1..i]]
  <1>8. Plan(targets, span, known) = iter[DOMAIN reqs]
    BY DEF Plan, FoldLeft, MapThenFoldSet, PlanStep
  <1>0. reqs \in Seq(Range(reqs)) /\ N = {reqs[i].name : i \in DOMAIN reqs}
    BY DEF WellAsked, PlanNames
  <1>b. \A i \in DOMAIN reqs : reqs[i] \in [name : N, span : Spans]
    BY DEF WellAsked
  <1> HIDE DEF reqs
  <1>1. n \in Nat /\ DOMAIN reqs = 1..n
    BY <1>0
  <1>a. base \in V
    <2>1. base = [cache |-> [x \in N |-> NoSpan], wanted |-> {}, todo |-> <<>>]
      BY <1>0
    <2>2. NoSpan \in Spans
      BY DEF NoSpan, Span, Spans
    <2>3. [x \in N |-> NoSpan] \in [N -> Spans]
      BY <2>2
    <2> HIDE DEF base
    <2> QED
      BY <2>1, <2>3, EmptyPlan
  <1>2. G \in [V \X (1..n) -> V]
    <2>1. ASSUME NEW p \in V, NEW i \in 1..n PROVE Op(p, reqs[i]) \in V
      BY <1>1, <1>b, PlanStepKeeps
    <2> HIDE DEF Op, V, n
    <2> QED
      BY <2>1
  <1>3. \A s \in SUBSET (1..n) : s # {} => M[s] \in s /\ M[s] = Max(s)
    <2> HIDE DEF n
    <2> QED
      BY <1>1, MaxMin
  <1>4. PICK f \in [SUBSET (1..n) -> V] : IsFold(f, n, base, G, M)
    <2> HIDE DEF n, G, M, V, base
    <2> QED
      BY <1>1, <1>a, <1>2, <1>3, FoldExists
  <1>5. ASSUME NEW s \in SUBSET (1..n), s # {}
        PROVE  G[<<f[s \ {M[s]}], M[s]>>] = Op(f[s \ {Max(s)}], reqs[Max(s)])
    <2> HIDE DEF Op, V, n
    <2>1. f[s \ {M[s]}] \in V /\ M[s] \in 1..n /\ M[s] = Max(s)
      BY <1>3, <1>5
    <2> QED
      BY <2>1
  <1>6. E(f)
    <2> HIDE DEF n, G, M, Op, V, base
    <2> QED
      BY <1>1, <1>4, <1>5 DEF IsFold
  <1>7. E(iter)
    <2> HIDE DEF E
    <2> QED
      BY <1>6
  <1>9. h[0] = base /\ h[n] = Plan(targets, span, known)
    <2>1. iter[{}] = base
      <3> HIDE DEF Op, base
      <3> QED
        BY <1>7
    <2> HIDE DEF iter, base
    <2> QED
      BY <1>1, <1>8, <2>1, UpTo
  <1>10. ASSUME NEW i \in 1..n
         PROVE  h[i] = Op(h[i - 1], reqs[i])
    <2>1. /\ 1..i \in SUBSET DOMAIN reqs /\ 1..i # {} /\ Max(1..i) = i
          /\ (1..i) \ {i} = 1..(i - 1) /\ i - 1 \in 0..n /\ i \in 0..n
      <3> HIDE DEF n
      <3>1. 1..i \in SUBSET (1..n) /\ 1..i # {} /\ Max(1..i) = i /\ (1..i) \ {i} = 1..(i - 1) /\ i - 1 \in 0..n
        BY <1>1, UpTo
      <3>2. i \in 0..n
        BY <1>1
      <3> QED
        BY <1>1, <3>1, <3>2
    <2>2. iter[1..i] = Op(iter[1..(i - 1)], reqs[i])
      <3> HIDE DEF iter, Op, base
      <3> QED
        BY <1>7, <2>1
    <2> HIDE DEF iter, Op
    <2> QED
      BY <2>1, <2>2
  <1> HIDE DEF h
  <1> QED
    BY <1>0, <1>9, <1>10 DEF reqs, PlanNames

(* All requests are wanted, and the map knows an interval of each name     *)
(* that is to be fetched. *)
LEMMA PlanKeeps ==
  ASSUME NEW targets, GoodArgs(targets), NEW span \in Spans, NEW known
  PROVE  /\ Range(RequestsOf(targets, span)) \subseteq Plan(targets, span, known).wanted
         /\ \E N \in SUBSET NamesIn(targets) : PlanRight(N, Plan(targets, span, known))
  <1> DEFINE reqs == RequestsOf(targets, span)
             n == Len(reqs)
             N == {reqs[i].name : i \in DOMAIN reqs}
             Q == [name : N, span : Spans]
             base == [cache |-> [x \in N |-> NoSpan], wanted |-> {}, todo |-> <<>>]
  <1>1. reqs \in Seq(Asking(targets)) /\ n \in Nat /\ DOMAIN reqs = 1..n
    BY RequestsCover
  <1>2. N \subseteq NamesIn(targets) /\ \A i \in DOMAIN reqs : reqs[i] \in Q
    <2>1. ASSUME NEW i \in DOMAIN reqs
          PROVE  reqs[i].name \in NamesIn(targets) /\ reqs[i].span \in Spans
                 /\ reqs[i] = [name |-> reqs[i].name, span |-> reqs[i].span]
      <3>1. reqs[i] \in Asking(targets)
        BY <1>1
      <3> HIDE DEF reqs
      <3> QED
        BY <3>1 DEF Asking
    <2> HIDE DEF reqs
    <2>2. ASSUME NEW i \in DOMAIN reqs PROVE reqs[i] \in Q
      <3>1. reqs[i].name \in N
        OBVIOUS
      <3> HIDE DEF N
      <3> QED
        BY <2>1, <3>1
    <2> QED
      BY <2>1, <2>2
  <1>4. PICK h : /\ h[0] = base
                 /\ \A i \in 1..n : h[i] = PlanStep(known, h[i - 1], reqs[i])
                 /\ Plan(targets, span, known) = h[n]
    <2>1. WellAsked(reqs)
      <3> HIDE DEF reqs, n
      <3>1. reqs \in Seq(Range(reqs))
        BY <1>1 DEF Range
      <3> QED
        BY <1>2, <3>1 DEF WellAsked, PlanNames
    <2> QED
      BY <2>1, PlanSteps, ZenonT(60) DEF PlanNames
  <1>5. PlanRight(N, base)
    <2>1. NoSpan \in Spans
      BY DEF NoSpan, Span, Spans
    <2> HIDE DEF N
    <2>2. [x \in N |-> NoSpan] \in [N -> Spans]
      BY <2>1
    <2> QED
      BY <2>2, EmptyPlan
  <1> HIDE DEF N, base, reqs, n
  <1> DEFINE T == {k \in Nat : k <= n => PlanRight(N, h[k]) /\ \A i \in 1..k : reqs[i] \in h[k].wanted}
  <1>6. 0 \in T
    BY <1>4, <1>5
  <1>7. ASSUME NEW k \in Nat, k \in T PROVE k + 1 \in T
    <2> SUFFICES ASSUME k + 1 <= n
                 PROVE  PlanRight(N, h[k + 1]) /\ \A i \in 1..(k + 1) : reqs[i] \in h[k + 1].wanted
      OBVIOUS
    <2>1. k + 1 \in 1..n /\ (k + 1) - 1 = k /\ k <= n
      BY <1>1
    <2>2. h[k + 1] = PlanStep(known, h[k], reqs[k + 1]) /\ reqs[k + 1] \in Q
      BY <1>1, <1>2, <1>4, <2>1
    <2>3. PlanRight(N, h[k]) /\ h[k] \in PlanStates(N) /\ \A i \in 1..k : reqs[i] \in h[k].wanted
      BY <1>7, <2>1 DEF PlanRight
    <2>4. PlanRight(N, h[k + 1]) /\ reqs[k + 1] \in h[k + 1].wanted /\ h[k].wanted \subseteq h[k + 1].wanted
      BY <2>2, <2>3, PlanStepKeeps
    <2>5. \A i \in 1..(k + 1) : i \in 1..k \/ i = k + 1
      OBVIOUS
    <2> QED
      BY <2>3, <2>4, <2>5
  <1>8. n \in T
    <2> HIDE DEF T
    <2> QED
      BY <1>1, <1>6, <1>7, NatInd
  <1>9. PlanRight(N, h[n]) /\ \A i \in 1..n : reqs[i] \in h[n].wanted
    BY <1>1, <1>8
  <1>10. Range(reqs) \subseteq h[n].wanted
    BY <1>1, <1>9 DEF Range
  <1> QED
    BY <1>2, <1>4, <1>9, <1>10 DEF reqs

-----------------------------------------------------------------------------
(* The render handlers: backends, work, stacks, caches.                    *)

(* The queries of a Fetch are about metrics that are asked for. *)
LEMMA QueriesOfTodo ==
  ASSUME NEW proto \in Protocols, NEW todo, todo \in Seq(Range(todo)), todo # <<>>,
         NEW q \in Queries(proto, todo), NEW m \in q
  PROVE  \E x \in Range(todo) : m.name = x.name
  <1>1. CASE proto \in {"carbonapi_v2_pb", "carbonapi_v3_pb", "victoriametrics"}
    <2>1. m \in Range(todo)
      BY <1>1 DEF Queries, QueriesV2, QueriesV3, QueriesVm
    <2> QED
      BY <2>1
  <1>2. CASE proto \in {"graphite", "prometheus", "irondb"}
    <2>1. q \in {{Request(x.name, todo[1].span)} : x \in Range(todo)}
      BY <1>2 DEF Queries, QueriesGraphite, QueriesPrometheus, QueriesIrondb
    <2>2. PICK x \in Range(todo) : m = Request(x.name, todo[1].span)
      BY <2>1
    <2> QED
      BY <2>2 DEF Request
  <1> QED
    BY <1>1, <1>2 DEF Protocols

(* Errors of an answer: a group adds 404 to the statuses of queries. *)
Codes == Statuses \cup {404}

(* A series is of a metric that is asked for, and its interval is said if  *)
(* it is repeated. *)
AskedFor(s, requests) ==
  /\ \E m \in requests : s.name = m.name
  /\ s.echo = s.span \/ s.echo = NoSpan

(* An answer to these requests where the faults may happen. *)
AnswerRight(faults, requests, a) ==
  /\ \A s \in a.series : AskedFor(s, requests)
  /\ a.codes \subseteq Codes /\ a.lost \in BOOLEAN
  /\ "nocontent" \notin faults => 204 \notin a.codes

(* It says so when it misses something, *)
Tells(a) == a.lost => a.codes # {}
(* and where that is so it is not with 404. *)
Known(a) == 404 \notin a.codes

Silent == {"prometheus", "victoriametrics"}

(* Nothing is left out but for errors. *)
AsksAll(env) == env.rsa /\ ~env.tld /\ env.globs = {}

LEMMA ProtocolRight ==
  ASSUME NEW ch, ch.proto \in Protocols, NEW requests, NEW queries,
         \A q \in queries : \A m \in q : \E x \in requests : m.name = x.name,
         NEW faults, faults \subseteq Faults, NEW a \in ProtocolAnswers(ch, queries, faults)
  PROVE  /\ AnswerRight(faults, requests, a) /\ Known(a)
         /\ ch.proto \notin Silent => Tells(a)
  <1>1. PICK fate \in [queries -> {"ok"} \cup faults] :
          a \in FetchChild(ch, fate) /\ \A q \in queries : fate[q] \in Fates(ch, q, faults)
    BY Zenon DEF ProtocolAnswers
  <1>2. DOMAIN fate = queries
    OBVIOUS
  <1> DEFINE codes == {CodeOf(ch.proto, fate[q]) : q \in DOMAIN fate} \ {0}
  <1>3. PICK code \in IF codes = {} THEN {{}} ELSE {{c} : c \in codes} :
          a = [series |-> UNION {SeriesOf(ch, q) : q \in {r \in DOMAIN fate : fate[r] = "ok"}},
               codes  |-> code,
               lost   |-> \E q \in DOMAIN fate : fate[q] # "ok" /\ SeriesOf(ch, q) # {}]
    BY <1>1, Zenon DEF FetchChild
  <1>4. /\ a.series = UNION {SeriesOf(ch, q) : q \in {r \in DOMAIN fate : fate[r] = "ok"}}
        /\ a.codes = code
        /\ a.lost = \E q \in DOMAIN fate : fate[q] # "ok" /\ SeriesOf(ch, q) # {}
    BY <1>3
  <1>5. a.codes \subseteq codes /\ (codes # {} => a.codes # {})
    <2> HIDE DEF codes
    <2> QED
      BY <1>3, <1>4
  <1>6. ASSUME NEW s \in a.series PROVE AskedFor(s, requests)
    <2>1. PICK q \in queries : s \in SeriesOf(ch, q)
      BY <1>2, <1>4
    <2>2. PICK m \in q : s = [name |-> m.name, span |-> m.span,
                              echo |-> IF ch.proto \in Echoes THEN m.span ELSE NoSpan]
      BY <2>1, Zenon DEF SeriesOf
    <2>3. s.name = m.name /\ s.span = m.span /\ s.echo = IF ch.proto \in Echoes THEN m.span ELSE NoSpan
      BY <2>2
    <2> QED
      BY <2>3, Zenon DEF AskedFor
  <1>7. ASSUME NEW q \in queries
        PROVE  /\ CodeOf(ch.proto, fate[q]) \in {0} \cup Statuses
               /\ CodeOf(ch.proto, fate[q]) = 204 => "nocontent" \in faults
               /\ fate[q] \in {"ok"} \cup Faults
    <2>1. fate[q] \in {"ok"} \cup faults /\ fate[q] \in {"ok"} \cup Faults
      BY <1>1
    <2> QED
      BY <2>1, ErrorCodes
  <1>8. codes \subseteq Statuses /\ (204 \in codes => "nocontent" \in faults)
    BY <1>2, <1>7
  <1> HIDE DEF codes
  <1>9. a.codes \subseteq Codes /\ 404 \notin a.codes /\ (204 \in a.codes => "nocontent" \in faults)
    <2>1. 404 \notin Statuses
      BY DEF Statuses
    <2>2. a.codes \subseteq Statuses /\ (204 \in a.codes => "nocontent" \in faults)
      BY <1>5, <1>8
    <2> QED
      BY <2>1, <2>2 DEF Codes
  <1>10. ASSUME a.lost, ch.proto \notin Silent PROVE a.codes # {}
    <2>1. PICK q \in queries : fate[q] # "ok" /\ SeriesOf(ch, q) # {}
      BY <1>2, <1>4, <1>10
    <2>2. fate[q] \in Fates(ch, q, faults)
      BY <1>1
    <2>3. \E m \in q : m.name \in ch.holds
      BY <2>1 DEF SeriesOf
    <2>4. fate[q] \notin {"missing", "refused"}
      BY <2>2, <2>3, <1>10 DEF Fates, Silent
    <2>5. CodeOf(ch.proto, fate[q]) # 0
      <3>1. fate[q] \in {"garbage"} \cup DOMAIN StatusOf
        BY <2>1, <2>4, <1>7 DEF Faults
      <3>2. DOMAIN StatusOf = {"fail", "forbidden", "limited", "nocontent"}
        BY DEF StatusOf
      <3>3. /\ StatusOf["fail"] = 503 /\ StatusOf["forbidden"] = 403
            /\ StatusOf["limited"] = 429 /\ StatusOf["nocontent"] = 204
        BY DEF StatusOf
      <3> QED
        BY <3>1, <3>2, <3>3, <1>10 DEF CodeOf, Silent
    <2>6. CodeOf(ch.proto, fate[q]) \in codes
      BY <1>2, <2>5 DEF codes
    <2> QED
      BY <1>5, <2>6
  <1>11. a.lost \in BOOLEAN
    BY <1>4
  <1> QED
    BY <1>6, <1>9, <1>10, <1>11 DEF AnswerRight, Known, Tells

(* Answers as one. *)
LEMMA JoinedRight ==
  ASSUME NEW faults, NEW requests, NEW answers, \A a \in answers : AnswerRight(faults, requests, a)
  PROVE  /\ AnswerRight(faults, requests, Joined(answers))
         /\ (\A a \in answers : Tells(a)) => Tells(Joined(answers))
         /\ (\A a \in answers : Known(a)) => Known(Joined(answers))
  <1> DEFINE j == Joined(answers)
  <1>1. /\ j.series = UNION {a.series : a \in answers}
        /\ j.codes = UNION {a.codes : a \in answers}
        /\ j.lost = \E a \in answers : a.lost
    BY DEF Joined
  <1> HIDE DEF j
  <1>2. AnswerRight(faults, requests, j)
    BY <1>1 DEF AnswerRight
  <1>3. ASSUME \A a \in answers : Tells(a) PROVE Tells(j)
    BY <1>1, <1>3 DEF Tells
  <1>4. ASSUME \A a \in answers : Known(a) PROVE Known(j)
    BY <1>1, <1>4 DEF Known
  <1> QED
    BY <1>2, <1>3, <1>4 DEF j

LEMMA UnaskedRight ==
  ASSUME NEW faults, NEW requests, NEW chs, NEW missing
  PROVE  LET a == Unasked(chs, missing) IN
         /\ AnswerRight(faults, requests, a) /\ Known(a)
         /\ chs = {} \/ missing = {} => Tells(a)
  <1> DEFINE a == Unasked(chs, missing)
  <1>1. /\ a.series = {} /\ a.codes = {}
        /\ a.lost = \E ch \in chs, m \in missing : m.name \in ch.holds
    BY DEF Unasked
  <1> HIDE DEF a
  <1> QED
    BY <1>1 DEF AnswerRight, Known, Tells, a

LEMMA PicksAre ==
  ASSUME NEW f, NEW pick \in Picks(f), NEW b \in Range(pick)
  PROVE  \E x \in DOMAIN f : b \in f[x]
  <1>1. pick \in [DOMAIN f -> UNION Range(f)] /\ \A x \in DOMAIN f : pick[x] \in f[x]
    BY DEF Picks
  <1> QED
    BY <1>1 DEF Range

(* A child that is asked in batches. *)
LEMMA BatchedRight ==
  ASSUME NEW env, env.faults \subseteq Faults, NEW ch, NEW answersOf, DOMAIN answersOf # {},
         \A m \in DOMAIN answersOf : \A b \in answersOf[m] : AnswerRight(env.faults, DOMAIN answersOf, b),
         NEW a \in Batched(env, ch, answersOf)
  PROVE  /\ AnswerRight(env.faults, DOMAIN answersOf, a)
         /\ env.globs = {} /\ (\A m \in DOMAIN answersOf : \A b \in answersOf[m] : Tells(b)) => Tells(a)
         /\ env.globs = {} /\ (\A m \in DOMAIN answersOf : \A b \in answersOf[m] : Known(b)) => Known(a)
  <1> DEFINE requests == DOMAIN answersOf
             Unfound(kept) == \A m \in requests \ kept : m.name \in env.globs /\ (m.name \in ch.holds => env.faults # {})
             Rest(kept) == Unasked({ch}, requests \ kept)
  <1>1. PICK kept \in SUBSET requests :
          /\ Unfound(kept)
          /\ a \in IF kept = {} THEN {[Rest(kept) EXCEPT !.codes = {c} \ {0}] : c \in FindCodes(ch, env.faults)}
                   ELSE {Joined({Rest(kept)} \cup Range(pick)) : pick \in Picks([m \in kept |-> answersOf[m]])}
    BY Zenon DEF Batched
  <1> DEFINE rest == Rest(kept)
  <1>2. AnswerRight(env.faults, requests, rest) /\ Known(rest) /\ (requests \ kept = {} => Tells(rest))
    BY UnaskedRight, Zenon
  <1>3. env.globs = {} => kept = requests
    BY <1>1
  <1>4. CASE kept = {}
    <2>1. PICK c \in FindCodes(ch, env.faults) : a = [rest EXCEPT !.codes = {c} \ {0}]
      BY <1>1, <1>4
    <2>2. DOMAIN rest = {"series", "codes", "lost"}
      BY DEF Unasked
    <2>3. c \in {0} \cup Codes /\ (c = 204 => "nocontent" \in env.faults)
      <3>1. CASE c \in {0, 404, 500}
        BY <3>1 DEF Codes, Statuses
      <3>2. CASE c \in {CodeOf(ch.proto, f) : f \in env.faults}
        <4>1. PICK f \in env.faults : c = CodeOf(ch.proto, f)
          BY <3>2
        <4>2. f \in {"ok"} \cup Faults
          OBVIOUS
        <4>3. CodeOf(ch.proto, f) \in {0} \cup Statuses /\ (CodeOf(ch.proto, f) = 204 => f = "nocontent")
          BY <4>2, ErrorCodes
        <4> QED
          BY <4>1, <4>3 DEF Codes
      <3> QED
        BY <2>1, <3>1, <3>2 DEF FindCodes
    <2> HIDE DEF rest
    <2>4. a.series = rest.series /\ a.codes = {c} \ {0} /\ a.lost = rest.lost
      BY <2>1, <2>2
    <2>5. a.codes \subseteq Codes /\ (204 \in a.codes => "nocontent" \in env.faults)
      BY <2>3, <2>4
    <2>6. AnswerRight(env.faults, requests, a)
      BY <1>2, <2>4, <2>5 DEF AnswerRight
    <2> QED
      BY <1>3, <1>4, <2>6
  <1>5. CASE kept # {}
    <2> DEFINE of == [m \in kept |-> answersOf[m]]
    <2>1. PICK pick \in Picks(of) : a = Joined({rest} \cup Range(pick))
      BY <1>1, <1>5
    <2>2. \A b \in Range(pick) : \E m \in requests : b \in answersOf[m]
      <3>1. DOMAIN of = kept /\ \A m \in kept : of[m] = answersOf[m]
        OBVIOUS
      <3> HIDE DEF of
      <3>2. \A b \in Range(pick) : \E m \in DOMAIN of : b \in of[m]
        BY <2>1, PicksAre
      <3> QED
        BY <3>1, <3>2
    <2> DEFINE all == {rest} \cup Range(pick)
    <2>3. \A b \in all : AnswerRight(env.faults, requests, b)
      BY <1>2, <2>2
    <2>4. a = Joined(all)
      BY <2>1
    <2>5. ASSUME env.globs = {}, \A m \in requests : \A b \in answersOf[m] : Tells(b)
          PROVE  \A b \in all : Tells(b)
      BY <1>2, <1>3, <2>2, <2>5
    <2>6. ASSUME env.globs = {}, \A m \in requests : \A b \in answersOf[m] : Known(b)
          PROVE  \A b \in all : Known(b)
      BY <1>2, <2>2, <2>6
    <2> HIDE DEF all
    <2>7. /\ AnswerRight(env.faults, requests, Joined(all))
          /\ (\A b \in all : Tells(b)) => Tells(Joined(all))
          /\ (\A b \in all : Known(b)) => Known(Joined(all))
      BY <2>3, JoinedRight
    <2> QED
      BY <2>4, <2>5, <2>6, <2>7
  <1> QED
    BY <1>4, <1>5

LEMMA MergedIs ==
  ASSUME NEW codes, codes \in SUBSET (1..503)
  PROVE  /\ MergedCode(codes) = 404 \/ MergedCode(codes) \in codes
         /\ MergedCode(codes) = 404 => codes \subseteq {404}
  <1>1. CASE codes \subseteq {404}
    <2>1. MergedCode(codes) = 404
      BY <1>1 DEF MergedCode
    <2> QED
      BY <1>1, <2>1
  <1>2. CASE ~(codes \subseteq {404})
    <2> DEFINE s == codes \ {404}
    <2>1. s # {} /\ s \in SUBSET (1..503)
      BY <1>2
    <2>2. MergedCode(codes) = Min(s)
      BY <1>2 DEF MergedCode
    <2>3. s \subseteq codes /\ 404 \notin s
      OBVIOUS
    <2> HIDE DEF s
    <2>4. Min(s) \in s
      BY <2>1, MinCode
    <2> DEFINE c == MergedCode(codes)
               m == Min(s)
    <2>5. c = m /\ m \in s
      BY <2>2, <2>4
    <2> HIDE DEF c, m
    <2>6. c \in codes /\ c # 404
      BY <2>3, <2>5
    <2> QED
      BY <2>6 DEF c
  <1> QED
    BY <1>1, <1>2

(* The answer of a group: it says when it misses something, with 404 only  *)
(* if one of its children does. *)
GroupTells(a) == a.lost => a.series = {} /\ a.codes # {}

LEMMA GroupRight ==
  ASSUME NEW env, NEW answersOf, NEW todo,
         \A ch \in DOMAIN answersOf : \A b \in answersOf[ch] : AnswerRight(env.faults, Range(todo), b),
         NEW a \in GroupAnswers(env, answersOf, todo)
  PROVE  /\ AnswerRight(env.faults, Range(todo), a)
         /\ a.series = {} => a.codes # {}
         /\ AsksAll(env) /\ (\A ch \in DOMAIN answersOf : \A b \in answersOf[ch] : Tells(b))
              => GroupTells(a) /\ (a.lost /\ (\A ch \in DOMAIN answersOf : \A b \in answersOf[ch] : Known(b)) => Known(a))
  <1> DEFINE chs == DOMAIN answersOf
             requests == Range(todo)
  <1>1. PICK asked \in IF env.tld THEN SUBSET chs \ {{}} ELSE {chs} :
          a \in {FetchGroup(Joined({Unasked(chs \ asked, requests)} \cup Range(pick)), env.rsa) :
                   pick \in Picks([ch \in asked |-> answersOf[ch]])}
    BY Zenon DEF GroupAnswers
  <1> DEFINE of == [ch \in asked |-> answersOf[ch]]
             rest == Unasked(chs \ asked, requests)
  <1>2. PICK pick \in Picks(of) : a = FetchGroup(Joined({rest} \cup Range(pick)), env.rsa)
    BY <1>1
  <1> DEFINE answers == {rest} \cup Range(pick)
             all == Joined(answers)
  <1>3. asked \subseteq chs /\ (~env.tld => asked = chs)
    BY <1>1
  <1>4. \A b \in Range(pick) : \E ch \in chs : b \in answersOf[ch]
    <2>1. DOMAIN of = asked /\ \A ch \in asked : of[ch] = answersOf[ch]
      OBVIOUS
    <2> HIDE DEF of
    <2>2. \A b \in Range(pick) : \E m \in DOMAIN of : b \in of[m]
      BY <1>2, PicksAre
    <2> QED
      BY <1>3, <2>1, <2>2
  <1>5. AnswerRight(env.faults, requests, rest) /\ Known(rest) /\ (chs \ asked = {} => Tells(rest))
    BY UnaskedRight, Zenon
  <1>6. \A b \in answers : AnswerRight(env.faults, requests, b)
    BY <1>4, <1>5
  <1>7. ~env.tld /\ (\A ch \in chs : \A b \in answersOf[ch] : Tells(b)) => \A b \in answers : Tells(b)
    BY <1>3, <1>4, <1>5
  <1>8. (\A ch \in chs : \A b \in answersOf[ch] : Known(b)) => \A b \in answers : Known(b)
    BY <1>4, <1>5
  <1> HIDE DEF answers
  <1>9. /\ AnswerRight(env.faults, requests, all)
        /\ (\A b \in answers : Tells(b)) => Tells(all)
        /\ (\A b \in answers : Known(b)) => Known(all)
    BY <1>6, JoinedRight
  <1>10. DOMAIN all = {"series", "codes", "lost"}
    BY DEF Joined
  <1>11. a = FetchGroup(all, env.rsa)
    BY <1>2 DEF answers
  <1> HIDE DEF all, chs, requests
  <1>12. all.codes \subseteq Codes /\ all.lost \in BOOLEAN
    BY <1>9 DEF AnswerRight
  <1> DEFINE code == MergedCode(all.codes)
  <1>13. code \in Codes /\ (code = 404 \/ code \in all.codes) /\ (code = 404 => all.codes \subseteq {404})
    <2> DEFINE codes == all.codes
    <2>1. codes \in SUBSET (1..503) /\ 404 \in Codes
      BY <1>12 DEF Codes, Statuses
    <2> HIDE DEF codes
    <2>2. /\ MergedCode(codes) = 404 \/ MergedCode(codes) \in codes
          /\ MergedCode(codes) = 404 => codes \subseteq {404}
      BY <2>1, MergedIs, ZenonT(30)
    <2> QED
      BY <1>12, <2>1, <2>2 DEF codes
  <1>14. CASE all.series = {} \/ (env.rsa /\ all.codes # {})
    <2>1. a = [series |-> {}, codes |-> {code}, lost |-> all.lost \/ all.series # {}]
      BY <1>11, <1>14 DEF FetchGroup
    <2> HIDE DEF code
    <2>2. a.series = {} /\ a.codes = {code} /\ a.lost = (all.lost \/ all.series # {})
      BY <2>1
    <2>3. "nocontent" \notin env.faults => 204 \notin a.codes
      BY <1>9, <1>13, <2>2 DEF AnswerRight
    <2>4. AnswerRight(env.faults, requests, a)
      BY <2>2, <2>3, <1>13 DEF AnswerRight
    <2>5. ASSUME Tells(all), Known(all), a.lost PROVE Known(a)
      <3>1. all.codes # {}
        BY <2>2, <2>5, <1>14 DEF Tells
      <3>2. code # 404
        BY <2>5, <1>13, <3>1 DEF Known
      <3> QED
        BY <2>2, <3>2 DEF Known
    <2> QED
      BY <1>7, <1>8, <1>9, <2>2, <2>4, <2>5 DEF AsksAll, GroupTells, chs, requests
  <1>15. CASE ~(all.series = {} \/ (env.rsa /\ all.codes # {}))
    <2> DEFINE codes == IF all.codes = {} THEN {} ELSE {500}
    <2>1. a = [all EXCEPT !.codes = codes]
      BY <1>11, <1>15 DEF FetchGroup
    <2>2. codes \subseteq {500}
      OBVIOUS
    <2> HIDE DEF codes
    <2>3. a.series = all.series /\ a.codes = codes /\ a.lost = all.lost
      BY <1>10, <2>1
    <2>4. 500 \in Codes /\ 500 # 204
      BY DEF Codes, Statuses
    <2>5. AnswerRight(env.faults, requests, a)
      BY <1>9, <2>2, <2>3, <2>4 DEF AnswerRight
    <2>6. env.rsa /\ Tells(all) => ~a.lost
      BY <1>15, <2>3 DEF Tells
    <2> QED
      BY <1>7, <1>9, <1>15, <2>3, <2>5, <2>6 DEF AsksAll, GroupTells, chs, requests
  <1> QED
    BY <1>14, <1>15

Asks(todo) == todo # <<>> /\ todo \in Seq(Range(todo))

LEMMA AskedSomething ==
  ASSUME NEW todo, Asks(todo)
  PROVE  Range(todo) # {} /\ todo[1] \in Range(todo)
  BY DEF Asks, Range

LEMMA ServerRight ==
  ASSUME NEW env, env.faults \subseteq Faults, NEW s, IsBackend(s), NEW todo, Asks(todo),
         NEW a \in ServerAnswers(env, s, todo)
  PROVE  /\ AnswerRight(env.faults, Range(todo), a)
         /\ env.globs = {} => Known(a)
         /\ env.globs = {} /\ s.proto \notin Silent => Tells(a)
  <1>0. s.proto \in Protocols /\ Range(todo) # {}
    BY AskedSomething DEF IsBackend
  <1>1. CASE s.batched
    <2> DEFINE of == [m \in Range(todo) |-> ProtocolAnswers(s, {{m}}, env.faults)]
    <2>1. a \in Batched(env, s, of)
      BY <1>1 DEF ServerAnswers
    <2>2. DOMAIN of = Range(todo) /\ \A m \in Range(todo) : of[m] = ProtocolAnswers(s, {{m}}, env.faults)
      OBVIOUS
    <2> HIDE DEF of
    <2>3. ASSUME NEW m \in DOMAIN of, NEW b \in of[m]
          PROVE  AnswerRight(env.faults, DOMAIN of, b) /\ Known(b) /\ (s.proto \notin Silent => Tells(b))
      <3>1. b \in ProtocolAnswers(s, {{m}}, env.faults)
        BY <2>2, <2>3
      <3>2. \A q \in {{m}} : \A n \in q : \E x \in DOMAIN of : n.name = x.name
        OBVIOUS
      <3> QED
        BY <1>0, <3>1, <3>2, ProtocolRight
    <2>4. /\ AnswerRight(env.faults, DOMAIN of, a)
          /\ env.globs = {} /\ (\A m \in DOMAIN of : \A b \in of[m] : Tells(b)) => Tells(a)
          /\ env.globs = {} /\ (\A m \in DOMAIN of : \A b \in of[m] : Known(b)) => Known(a)
      BY <1>0, <2>1, <2>2, <2>3, BatchedRight
    <2> QED
      BY <2>2, <2>3, <2>4
  <1>2. CASE ~s.batched
    <2>1. a \in ProtocolAnswers(s, Queries(s.proto, todo), env.faults)
      BY <1>2 DEF ServerAnswers
    <2> DEFINE queries == Queries(s.proto, todo)
    <2>2. \A q \in queries : \A m \in q : \E x \in Range(todo) : m.name = x.name
      BY <1>0, QueriesOfTodo DEF Asks
    <2> HIDE DEF queries
    <2> QED
      BY <1>0, <2>1, <2>2, ProtocolRight DEF queries
  <1> QED
    BY <1>1, <1>2

(* A group answers 404 without a loss if it has nothing. *)
LEMMA NestedRight ==
  ASSUME NEW env, env.faults \subseteq Faults, NEW group, IsGroup(group), NEW todo, Asks(todo),
         NEW a \in NestedAnswers(env, group, todo)
  PROVE  /\ AnswerRight(env.faults, Range(todo), a)
         /\ AsksAll(env) /\ (\A s \in group.servers : s.proto \notin Silent) => Tells(a)
  <1> DEFINE of == [s \in group.servers |-> ServerAnswers(env, s, todo)]
  <1>1. a \in GroupAnswers(env, of, todo)
    BY DEF NestedAnswers
  <1>2. DOMAIN of = group.servers /\ \A s \in group.servers : of[s] = ServerAnswers(env, s, todo)
    OBVIOUS
  <1> HIDE DEF of
  <1>3. ASSUME NEW s \in DOMAIN of, NEW b \in of[s]
        PROVE  AnswerRight(env.faults, Range(todo), b) /\ (env.globs = {} /\ s.proto \notin Silent => Tells(b))
    <2>1. IsBackend(s) /\ b \in ServerAnswers(env, s, todo)
      BY <1>2, <1>3 DEF IsGroup
    <2> QED
      BY <2>1, ServerRight
  <1>4. /\ AnswerRight(env.faults, Range(todo), a)
        /\ AsksAll(env) /\ (\A s \in DOMAIN of : \A b \in of[s] : Tells(b)) => GroupTells(a)
    BY <1>1, <1>3, GroupRight
  <1> QED
    BY <1>2, <1>3, <1>4 DEF AsksAll, GroupTells, Tells

Fair(ch) == IF ch.servers = {} THEN ch.proto \notin Silent ELSE \A s \in ch.servers : s.proto \notin Silent

LEMMA ChildRight ==
  ASSUME NEW env, env.faults \subseteq Faults, NEW ch, IsBackend(ch) \/ IsGroup(ch), NEW todo, Asks(todo),
         NEW a \in ChildAnswers(env, ch, todo)
  PROVE  /\ AnswerRight(env.faults, Range(todo), a)
         /\ AsksAll(env) /\ ch.servers = {} => Known(a)
         /\ AsksAll(env) /\ Fair(ch) => Tells(a)
  <1>1. CASE ch.servers = {}
    <2>1. IsBackend(ch) /\ a \in ServerAnswers(env, ch, todo)
      BY <1>1 DEF IsGroup, ChildAnswers
    <2> QED
      BY <1>1, <2>1, ServerRight DEF AsksAll, Fair
  <1>2. CASE ch.servers # {} /\ ~ch.batched
    <2>1. IsGroup(ch) /\ a \in NestedAnswers(env, ch, todo)
      BY <1>2 DEF IsBackend, ChildAnswers
    <2> QED
      BY <1>2, <2>1, NestedRight DEF Fair
  <1>3. CASE ch.servers # {} /\ ch.batched
    <2> DEFINE g == Globless(env)
               of == [m \in Range(todo) |-> NestedAnswers(g, ch, <<m>>)]
    <2>1. IsGroup(ch) /\ a \in Batched(env, ch, of)
      BY <1>3 DEF IsBackend, ChildAnswers
    <2>2. DOMAIN of = Range(todo) /\ \A m \in Range(todo) : of[m] = NestedAnswers(g, ch, <<m>>)
      OBVIOUS
    <2>3. g.faults = env.faults /\ g.rsa = env.rsa /\ g.tld = env.tld /\ g.globs = {}
      BY DEF Globless
    <2> HIDE DEF of, g
    <2>4. ASSUME NEW m \in DOMAIN of, NEW b \in of[m]
          PROVE  AnswerRight(env.faults, DOMAIN of, b) /\ (AsksAll(env) /\ Fair(ch) => Tells(b))
      <3>1. b \in NestedAnswers(g, ch, <<m>>)
        BY <2>2, <2>4
      <3>2. Asks(<<m>>) /\ Range(<<m>>) = {m}
        BY DEF Asks, Range
      <3>3. AnswerRight(env.faults, {m}, b) /\ (AsksAll(env) /\ Fair(ch) => Tells(b))
        BY <1>3, <2>1, <2>3, <3>1, <3>2, NestedRight DEF AsksAll, Fair
      <3>4. AnswerRight(env.faults, DOMAIN of, b)
        BY <2>4, <3>3 DEF AnswerRight, AskedFor
      <3> QED
        BY <3>3, <3>4
    <2>5. DOMAIN of # {}
      BY <2>2, AskedSomething
    <2>6. /\ AnswerRight(env.faults, DOMAIN of, a)
          /\ env.globs = {} /\ (\A m \in DOMAIN of : \A b \in of[m] : Tells(b)) => Tells(a)
      BY <2>1, <2>4, <2>5, BatchedRight
    <2> QED
      BY <1>3, <2>2, <2>4, <2>6 DEF AsksAll
  <1> QED
    BY <1>1, <1>2, <1>3

(* What the evaluator gets: where nothing is hidden, what misses something *)
(* has an error, with 404 only if a child is a group. *)
OutcomeOf(env, todo, out) ==
  /\ \A s \in out.series : AskedFor(s, Range(todo))
  /\ out.code \in {0} \cup Codes
  /\ "nocontent" \notin env.faults => out.code # 204
  /\ out.lost \in BOOLEAN
  /\ AsksAll(env) /\ (\A ch \in env.children : Fair(ch)) /\ out.lost =>
       out.code # 0 /\ (out.code = 404 => \E ch \in env.children : ch.servers # {})

LEMMA OutcomesRight ==
  ASSUME NEW env, env.faults \subseteq Faults, \A ch \in env.children : IsBackend(ch) \/ IsGroup(ch),
         NEW todo, Asks(todo), NEW out \in Outcomes(env, todo)
  PROVE  OutcomeOf(env, todo, out)
  <1> DEFINE of == [ch \in env.children |-> ChildAnswers(env, ch, todo)]
  <1>1. PICK a \in GroupAnswers(env, of, todo) : out = Fetched(a)
    BY DEF Outcomes
  <1>2. DOMAIN of = env.children /\ \A ch \in env.children : of[ch] = ChildAnswers(env, ch, todo)
    OBVIOUS
  <1> HIDE DEF of
  <1>3. ASSUME NEW ch \in DOMAIN of, NEW b \in of[ch]
        PROVE  /\ AnswerRight(env.faults, Range(todo), b)
               /\ AsksAll(env) /\ ch.servers = {} => Known(b)
               /\ AsksAll(env) /\ Fair(ch) => Tells(b)
    BY <1>2, <1>3, ChildRight
  <1>4. /\ AnswerRight(env.faults, Range(todo), a)
        /\ a.series = {} => a.codes # {}
        /\ AsksAll(env) /\ (\A ch \in DOMAIN of : \A b \in of[ch] : Tells(b))
             => GroupTells(a) /\ (a.lost /\ (\A ch \in DOMAIN of : \A b \in of[ch] : Known(b)) => Known(a))
    BY <1>1, <1>3, GroupRight
  <1>5. /\ out.series = a.series /\ out.lost = a.lost
        /\ out.code = IF a.series = {} THEN Min(a.codes) ELSE 0
    BY <1>1 DEF Fetched
  <1>6. a.series = {} => Min(a.codes) \in a.codes
    <2> SUFFICES ASSUME a.series = {} PROVE Min(a.codes) \in a.codes
      OBVIOUS
    <2> DEFINE codes == a.codes
    <2>1. codes \in SUBSET (1..503) /\ codes # {}
      BY <1>4 DEF AnswerRight, Codes, Statuses
    <2> HIDE DEF codes
    <2>2. Min(codes) \in codes
      BY <2>1, MinCode
    <2> QED
      BY <2>2 DEF codes
  <1>7. out.code \in {0} \cup Codes /\ ("nocontent" \notin env.faults => out.code # 204)
    BY <1>4, <1>5, <1>6 DEF AnswerRight
  <1>8. ASSUME AsksAll(env), \A ch \in env.children : Fair(ch), out.lost
        PROVE  out.code # 0 /\ (out.code = 404 => \E ch \in env.children : ch.servers # {})
    <2>1. GroupTells(a) /\ ((\A ch \in DOMAIN of : \A b \in of[ch] : Known(b)) => Known(a))
      BY <1>2, <1>3, <1>4, <1>5, <1>8
    <2>2. out.code \in a.codes /\ 0 \notin a.codes
      BY <1>4, <1>5, <1>6, <1>8, <2>1 DEF GroupTells, AnswerRight, Codes, Statuses
    <2>3. ASSUME out.code = 404, \A ch \in env.children : ch.servers = {} PROVE FALSE
      <3>1. Known(a)
        BY <1>2, <1>3, <1>8, <2>1, <2>3
      <3> QED
        BY <2>2, <2>3, <3>1 DEF Known
    <2> QED
      BY <2>2, <2>3
  <1> QED
    BY <1>4, <1>5, <1>7, <1>8 DEF OutcomeOf, AnswerRight

-----------------------------------------------------------------------------
(* The work of a handler: expressions are targets, or metrics under        *)
(* functions of one of them. *)
Fns(T) == UNION {UNION {Range(a.fs) : a \in Range(t.args)} : t \in T}
ArgNames(T) == UNION {{a.name : a \in Range(t.args)} : t \in T}
Args(T) == [name : ArgNames(T), fs : Seq(Fns(T))]

Exprs(T) == T \cup [head : {"plain"}, args : Seq(Args(T)), then : {<<>>}]

Works(T) ==
  {j \in [of : Seq(Nat), exprs : Seq(Exprs(T)), span : Spans, quiet : BOOLEAN] :
     /\ Len(j.exprs) <= Len(j.of)
     /\ j.quiet => \E f \in Fns(T) : f.fn = "emaPoints"}

AllTargets(T) == \A t \in T : IsTarget(t, T)

LEMMA FnsTyped ==
  ASSUME NEW T, AllTargets(T), NEW f \in Fns(T)
  PROVE  f.by \in Int
  <1>1. PICK t \in T : \E a \in Range(t.args) : f \in Range(a.fs)
    BY DEF Fns
  <1>2. PICK a \in Range(t.args) : f \in Range(a.fs)
    BY <1>1
  <1>3. \A k \in DOMAIN a.fs : a.fs[k].by \in Int
    BY <1>2 DEF AllTargets, IsTarget
  <1> QED
    BY <1>2, <1>3 DEF Range

(* An argument of an expression. *)
ArgOK(T, a) == a.fs \in Seq(Fns(T)) /\ a.name \in ArgNames(T)

LEMMA ExprsTyped ==
  ASSUME NEW T, AllTargets(T), NEW e \in Exprs(T)
  PROVE  /\ e.args \in Seq(Range(e.args)) /\ e.then \in Seq(T) /\ Len(e.then) <= 1
         /\ \A k \in DOMAIN e.args : ArgOK(T, e.args[k])
  <1>1. CASE e \in T
    <2>1. /\ e.args \in Seq(Range(e.args)) /\ e.then \in Seq(T) /\ Len(e.then) <= 1
          /\ \A a \in Range(e.args) : a.fs \in Seq(Range(a.fs))
      BY <1>1 DEF AllTargets, IsTarget
    <2>2. ASSUME NEW k \in DOMAIN e.args PROVE ArgOK(T, e.args[k])
      <3>1. e.args[k] \in Range(e.args)
        BY DEF Range
      <3>2. e.args[k].name \in ArgNames(T)
        BY <1>1, <3>1 DEF ArgNames
      <3>3. Range(e.args[k].fs) \subseteq Fns(T)
        BY <1>1, <3>1 DEF Fns
      <3>4. e.args[k].fs \in Seq(Range(e.args[k].fs))
        BY <2>1, <3>1
      <3>5. e.args[k].fs \in Seq(Fns(T))
        BY <3>3, <3>4
      <3> QED
        BY <3>2, <3>5 DEF ArgOK
    <2> QED
      BY <2>1, <2>2
  <1>2. CASE e \in [head : {"plain"}, args : Seq(Args(T)), then : {<<>>}]
    <2>1. e.args \in Seq(Args(T)) /\ e.then = <<>>
      BY <1>2
    <2>2. e.then \in Seq(T) /\ Len(e.then) <= 1
      BY <2>1
    <2>3. e.args \in Seq(Range(e.args))
      BY <2>1, OwnElements
    <2>4. ASSUME NEW k \in DOMAIN e.args PROVE ArgOK(T, e.args[k])
      <3>1. e.args[k] \in Args(T)
        BY <2>1
      <3> QED
        BY <3>1 DEF Args, ArgOK
    <2> QED
      BY <2>2, <2>3, <2>4
  <1> QED
    BY <1>1, <1>2 DEF Exprs

(* No expression does without what cannot be fetched if no target does. *)
LEMMA NoneTolerant ==
  ASSUME NEW T, AllTargets(T), \A t \in T : ~Tolerant(t)
  PROVE  /\ \A f \in Fns(T) : f.fn # "emaPoints"
         /\ \A e \in Exprs(T) : e.head # "fallbackSeries"
         /\ \A j \in Works(T) : ~j.quiet /\ ~HasFallback(j)
  <1>1. ASSUME NEW f \in Fns(T) PROVE f.fn # "emaPoints"
    <2>1. PICK t \in T : \E a \in Range(t.args) : f \in Range(a.fs)
      BY DEF Fns
    <2>2. PICK a \in Range(t.args) : f \in Range(a.fs)
      BY <2>1
    <2>3. \A k \in DOMAIN a.fs : a.fs[k].fn # "emaPoints"
      BY <2>2 DEF Tolerant
    <2> QED
      BY <2>2, <2>3 DEF Range
  <1>2. ASSUME NEW e \in Exprs(T) PROVE e.head # "fallbackSeries"
    <2>1. CASE e \in T
      BY <2>1 DEF Tolerant
    <2>2. CASE e \in [head : {"plain"}, args : Seq(Args(T)), then : {<<>>}]
      BY <2>2
    <2> QED
      BY <2>1, <2>2 DEF Exprs
  <1>3. ASSUME NEW j \in Works(T) PROVE ~j.quiet /\ ~HasFallback(j)
    <2>1. j.quiet => \E f \in Fns(T) : f.fn = "emaPoints"
      BY DEF Works
    <2>2. j.exprs \in Seq(Exprs(T))
      BY DEF Works
    <2>3. \A k \in DOMAIN j.exprs : j.exprs[k] \in Exprs(T)
      BY <2>2
    <2> QED
      BY <2>1, <2>3, <1>1, <1>2 DEF HasFallback
  <1> QED
    BY <1>1, <1>2, <1>3

LEMMA WorkParts ==
  ASSUME NEW T, NEW j \in Works(T)
  PROVE  /\ j.of \in Seq(Nat) /\ j.exprs \in Seq(Exprs(T)) /\ j.span \in Spans /\ j.quiet \in BOOLEAN
         /\ \A k \in DOMAIN j.exprs : j.exprs[k] \in Exprs(T) /\ j.of[k] \in Nat
  <1>1. j.of \in Seq(Nat) /\ j.exprs \in Seq(Exprs(T)) /\ j.span \in Spans /\ j.quiet \in BOOLEAN
    BY DEF Works
  <1>2. Len(j.exprs) <= Len(j.of)
    BY DEF Works
  <1> QED
    BY <1>1, <1>2

LEMMA MakeWork ==
  ASSUME NEW T, NEW of \in Seq(Nat), NEW exprs \in Seq(Exprs(T)), NEW span \in Spans,
         NEW quiet \in BOOLEAN, Len(exprs) <= Len(of), quiet => \E f \in Fns(T) : f.fn = "emaPoints"
  PROVE  Job(of, exprs, span, quiet) \in Works(T)
  <1>1. Job(of, exprs, span, quiet) \in [of : Seq(Nat), exprs : Seq(Exprs(T)), span : Spans, quiet : BOOLEAN]
    BY DEF Job
  <1> QED
    BY <1>1 DEF Works, Job

(* What is asked for a job is as FetchPlan has it. *)
LEMMA ArgumentsGood ==
  ASSUME NEW T, AllTargets(T), NEW j \in Works(T)
  PROVE  GoodArgs(Arguments(j))
  <1>1. /\ j.exprs \in Seq(Exprs(T))
        /\ \A k \in DOMAIN j.exprs : j.exprs[k] \in Exprs(T)
    BY WorkParts
  <1>2. \A k \in DOMAIN j.exprs :
           /\ j.exprs[k].args \in Seq(Range(j.exprs[k].args))
           /\ \A a \in DOMAIN j.exprs[k].args : ArgOK(T, j.exprs[k].args[a])
    BY <1>1, ExprsTyped
  <1>3. ASSUME NEW a, ArgOK(T, a) PROVE GoodArg(a)
    <2>1. a.fs \in Seq(Fns(T))
      BY <1>3 DEF ArgOK
    <2>2. a.fs \in Seq(Range(a.fs))
      BY <2>1, OwnElements
    <2>3. \A k \in DOMAIN a.fs : a.fs[k].by \in Int
      BY <2>1, FnsTyped
    <2> QED
      BY <2>2, <2>3 DEF GoodArg
  <1> DEFINE A == Arguments(j)
  <1>4. DOMAIN A = DOMAIN j.exprs /\ \A k \in DOMAIN j.exprs : A[k] = j.exprs[k].args
    BY DEF Arguments
  <1>5. DOMAIN A = 1..Len(j.exprs) /\ Len(j.exprs) \in Nat
    BY <1>1, <1>4
  <1>6. A = [k \in 1..Len(j.exprs) |-> j.exprs[k].args]
    BY <1>1 DEF Arguments
  <1> HIDE DEF A
  <1>7. A \in Seq(Range(A))
    BY <1>5, <1>6 DEF Range
  <1>8. ASSUME NEW t \in DOMAIN A
        PROVE  A[t] \in Seq(Range(A[t])) /\ \A a \in DOMAIN A[t] : GoodArg(A[t][a])
    BY <1>2, <1>3, <1>4, Zenon
  <1> QED
    BY <1>7, <1>8 DEF GoodArgs, A

FrameOK(T, f) ==
  /\ DOMAIN f = {"keys", "values", "jobs"}
  /\ f.jobs \in Seq(Works(T))
  /\ \A e \in f.values : e.sure => e.key.span = e.span

StackOK(T, st) ==
  /\ st \in Seq(Range(st)) /\ st # <<>>
  /\ \A k \in DOMAIN st : FrameOK(T, st[k])

LEMMA StackParts ==
  ASSUME NEW T, NEW st, StackOK(T, st)
  PROVE  /\ Len(st) \in Nat \ {0} /\ DOMAIN st = 1..Len(st) /\ Len(st) \in DOMAIN st
         /\ Last(st) = st[Len(st)] /\ FrameOK(T, Last(st))
  <1>1. Len(st) \in Nat \ {0} /\ DOMAIN st = 1..Len(st)
    BY DEF StackOK
  <1>2. Len(st) \in DOMAIN st /\ Last(st) = st[Len(st)]
    BY <1>1 DEF Last
  <1> QED
    BY <1>1, <1>2 DEF StackOK

(* A stack of good frames. *)
LEMMA MakeStack ==
  ASSUME NEW T, NEW st, NEW n \in Nat \ {0}, DOMAIN st = 1..n, st = [k \in 1..n |-> st[k]],
         \A k \in 1..n : FrameOK(T, st[k])
  PROVE  StackOK(T, st)
  <1>1. \A k \in 1..n : st[k] \in Range(st)
    BY DEF Range
  <1>2. st \in Seq(Range(st)) /\ Len(st) = n
    BY <1>1
  <1>3. st # <<>>
    BY <1>2
  <1> QED
    BY <1>2, <1>3 DEF StackOK

(* Other jobs for the frame on top. *)
LEMMA OtherJobs ==
  ASSUME NEW T, NEW st, StackOK(T, st), NEW jobs \in Seq(Works(T))
  PROVE  StackOK(T, [st EXCEPT ![Len(st)].jobs = jobs])
  <1> DEFINE n == Len(st)
             new == [st EXCEPT ![n].jobs = jobs]
  <1>1. n \in Nat \ {0} /\ DOMAIN st = 1..n /\ n \in DOMAIN st
    BY StackParts
  <1>2. DOMAIN new = 1..n /\ new = [k \in 1..n |-> new[k]]
    BY <1>1
  <1>3. \A k \in 1..n : FrameOK(T, st[k])
    BY <1>1 DEF StackOK
  <1>4. FrameOK(T, [st[n] EXCEPT !.jobs = jobs])
    <2>1. FrameOK(T, st[n])
      BY <1>1, <1>3
    <2> QED
      BY <2>1 DEF FrameOK
  <1>5. new[n] = [st[n] EXCEPT !.jobs = jobs]
    BY <1>1
  <1>6. \A k \in 1..n : k # n => new[k] = st[k]
    BY <1>1
  <1> HIDE DEF new
  <1>7. ASSUME NEW k \in 1..n PROVE FrameOK(T, new[k])
    BY <1>3, <1>4, <1>5, <1>6, Zenon
  <1> QED
    BY <1>1, <1>2, <1>7, MakeStack DEF new

(* The next job is taken. *)
LEMMA JobTaken ==
  ASSUME NEW T, NEW st, StackOK(T, st), Last(st).jobs # <<>>
  PROVE  /\ Head(Last(st).jobs) \in Works(T)
         /\ StackOK(T, [st EXCEPT ![Len(st)].jobs = Tail(@)])
  <1>1. Last(st) = st[Len(st)] /\ Last(st).jobs \in Seq(Works(T))
    BY StackParts DEF FrameOK
  <1>2. Head(Last(st).jobs) \in Works(T) /\ Tail(Last(st).jobs) \in Seq(Works(T))
    BY <1>1
  <1>3. [st EXCEPT ![Len(st)].jobs = Tail(@)] = [st EXCEPT ![Len(st)].jobs = Tail(Last(st).jobs)]
    BY <1>1
  <1> QED
    BY <1>2, <1>3, OtherJobs

(* Frames are dropped. *)
LEMMA UnwindKeeps ==
  ASSUME NEW T, NEW st, StackOK(T, st)
  PROVE  StackOK(T, Unwind(st))
  <1> DEFINE n == Len(st)
             tops == {1} \cup {k \in DOMAIN st : st[k].jobs # <<>>}
             m == Max(tops)
             new == SubSeq(st, 1, m)
  <1>1. n \in Nat \ {0} /\ DOMAIN st = 1..n
    BY StackParts
  <1>2. tops \in SUBSET (1..n) /\ tops # {} /\ n \in Nat
    BY <1>1
  <1>3. m \in 1..n
    BY <1>2, MaxMin
  <1> HIDE DEF m
  <1>4. st \in Seq(Range(st))
    BY DEF StackOK
  <1>5. DOMAIN new = 1..m /\ m \in Nat \ {0} /\ \A k \in 1..m : new[k] = st[k]
    BY <1>1, <1>3, <1>4
  <1>6. new = [k \in 1..m |-> new[k]]
    BY <1>1, <1>3, <1>4
  <1>7. ASSUME NEW k \in 1..m PROVE FrameOK(T, new[k])
    BY <1>1, <1>3, <1>5 DEF StackOK
  <1> HIDE DEF new
  <1>8. StackOK(T, new)
    BY <1>5, <1>6, <1>7, MakeStack
  <1> QED
    BY <1>8 DEF new, m, Unwind

(* Some jobs are dropped. *)
LEMMA JobsLeft ==
  ASSUME NEW W, NEW js \in Seq(W), NEW keep
  PROVE  FlattenSeq([n \in DOMAIN js |-> IF js[n].of # keep THEN <<js[n]>> ELSE <<>>]) \in Seq(W)
  <1> DEFINE ss == [n \in DOMAIN js |-> IF js[n].of # keep THEN <<js[n]>> ELSE <<>>]
  <1>1. ss \in Seq(Seq(W))
    <2>1. DOMAIN js = 1..Len(js) /\ Len(js) \in Nat
      OBVIOUS
    <2>2. ASSUME NEW n \in DOMAIN js PROVE ss[n] \in Seq(W)
      <3>1. <<js[n]>> \in Seq(W) /\ <<>> \in Seq(W)
        OBVIOUS
      <3> QED
        BY <3>1
    <2>3. DOMAIN ss = DOMAIN js
      OBVIOUS
    <2> QED
      BY <2>1, <2>2, <2>3, PartsOfQueries
  <1> HIDE DEF ss
  <1>2. FlattenSeq(ss) \in Seq(W)
    BY <1>1, FlattenElements
  <1> QED
    BY <1>2 DEF ss

LEMMA WithoutKeeps ==
  ASSUME NEW T, NEW st, StackOK(T, st), NEW job, NEW stop
  PROVE  StackOK(T, Without(job, st, stop))
  <1> DEFINE n == Len(st)
             new == Without(job, st, stop)
             Left(js) == FlattenSeq([i \in DOMAIN js |-> IF js[i].of # job.of THEN <<js[i]>> ELSE <<>>])
  <1>1. n \in Nat \ {0} /\ DOMAIN st = 1..n
    BY StackParts
  <1>2. DOMAIN new = 1..n /\ new = [k \in 1..n |-> new[k]]
    BY <1>1 DEF Without
  <1>3. ASSUME NEW k \in 1..n
        PROVE  new[k] = [st[k] EXCEPT !.jobs = IF stop THEN <<>> ELSE Left(st[k].jobs)]
    BY <1>1 DEF Without
  <1>4. ASSUME NEW k \in 1..n PROVE FrameOK(T, new[k])
    <2>1. FrameOK(T, st[k])
      BY <1>1 DEF StackOK
    <2>2. st[k].jobs \in Seq(Works(T))
      BY <2>1 DEF FrameOK
    <2> DEFINE left2 == IF stop THEN <<>> ELSE Left(st[k].jobs)
    <2>3. left2 \in Seq(Works(T))
      <3>1. Left(st[k].jobs) \in Seq(Works(T))
        BY <2>2, JobsLeft
      <3> HIDE DEF Left
      <3> QED
        BY <3>1
    <2>4. new[k] = [st[k] EXCEPT !.jobs = left2]
      BY <1>3
    <2> HIDE DEF left2, new
    <2> QED
      BY <2>1, <2>3, <2>4 DEF FrameOK
  <1> HIDE DEF new
  <1>5. StackOK(T, new)
    BY <1>1, <1>2, <1>4, MakeStack
  <1> QED
    BY <1>5 DEF new

(* The jobs of the targets of a request. *)
LEMMA TopJobsGood ==
  ASSUME NEW T, NEW targets \in Seq(T), NEW span \in Spans
  PROVE  TopJobs(targets, span) \in Seq(Works(T))
  <1> DEFINE n == Len(targets)
  <1>1. n \in Nat /\ DOMAIN targets = 1..n /\ \A i \in 1..n : targets[i] \in Exprs(T) /\ i \in Nat
    BY DEF Exprs
  <1>2. CASE targets = <<>>
    BY <1>2 DEF TopJobs
  <1>3. CASE targets # <<>> /\ conf.combine
    <2> DEFINE of == [i \in DOMAIN targets |-> i]
    <2>1. targets \in Seq(Exprs(T))
      BY <1>1
    <2>2. of \in Seq(Nat) /\ Len(of) = n
      BY <1>1
    <2>3. Job(of, targets, span, FALSE) \in Works(T)
      <3> HIDE DEF of
      <3>1. Len(targets) <= Len(of)
        BY <1>1, <2>2
      <3> HIDE DEF n
      <3> QED
        BY <2>1, <2>2, <3>1, MakeWork
    <2>4. TopJobs(targets, span) = <<Job(of, targets, span, FALSE)>>
      BY <1>3 DEF TopJobs
    <2> DEFINE j == Job(of, targets, span, FALSE)
    <2> HIDE DEF j
    <2>5. j \in Works(T)
      BY <2>3 DEF j
    <2>6. <<j>> \in Seq(Works(T))
      BY <2>5
    <2> QED
      BY <2>4, <2>6 DEF j
  <1>4. CASE targets # <<>> /\ ~conf.combine
    <2> DEFINE J(i) == Job(<<i>>, <<targets[i]>>, span, FALSE)
    <2>1. ASSUME NEW i \in 1..n PROVE J(i) \in Works(T)
      <3>1. <<i>> \in Seq(Nat) /\ <<targets[i]>> \in Seq(Exprs(T)) /\ Len(<<targets[i]>>) <= Len(<<i>>)
        BY <1>1
      <3> QED
        BY <3>1, MakeWork
    <2>2. TopJobs(targets, span) = [i \in 1..n |-> J(i)]
      BY <1>1, <1>4, Zenon DEF TopJobs
    <2> HIDE DEF J
    <2>3. [i \in 1..n |-> J(i)] \in Seq(Works(T))
      BY <1>1, <2>1
    <2> QED
      BY <2>2, <2>3
  <1> QED
    BY <1>2, <1>3, <1>4

LEMMA FrameAdded ==
  ASSUME NEW T, NEW st, StackOK(T, st), NEW f, FrameOK(T, f)
  PROVE  StackOK(T, Append(st, f)) /\ Last(Append(st, f)) = f
  <1> DEFINE n == Len(st)
             new == Append(st, f)
  <1>1. n \in Nat \ {0} /\ DOMAIN st = 1..n /\ st \in Seq(Range(st))
    BY StackParts DEF StackOK
  <1>2. /\ n + 1 \in Nat \ {0} /\ DOMAIN new = 1..(n + 1) /\ new = [k \in 1..(n + 1) |-> new[k]]
        /\ new[n + 1] = f /\ \A k \in 1..n : new[k] = st[k]
        /\ Len(new) = n + 1
    <2>1. Len(new) = n + 1 /\ n + 1 \in Nat \ {0} /\ new[n + 1] = f /\ \A k \in 1..n : new[k] = st[k]
      BY <1>1
    <2>2. new \in Seq(Range(st) \cup {f})
      BY <1>1
    <2> HIDE DEF new
    <2>3. DOMAIN new = 1..(n + 1) /\ new = [k \in 1..(n + 1) |-> new[k]]
      BY <2>1, <2>2
    <2> QED
      BY <2>1, <2>3
  <1>3. \A k \in 1..n : FrameOK(T, st[k])
    BY <1>1 DEF StackOK
  <1> HIDE DEF new
  <1>4. ASSUME NEW k \in 1..(n + 1) PROVE FrameOK(T, new[k])
    <2>1. k \in 1..n \/ k = n + 1
      BY <1>1
    <2> QED
      BY <2>1, <1>2, <1>3, Zenon
  <1>5. StackOK(T, new)
    BY <1>2, <1>4, MakeStack
  <1> QED
    BY <1>2, <1>5 DEF new, Last

LEMMA OneFrame ==
  ASSUME NEW T, NEW f, FrameOK(T, f)
  PROVE  StackOK(T, <<f>>)
  <1>1. <<f>> = [k \in 1..1 |-> <<f>>[k]] /\ DOMAIN <<f>> = 1..1 /\ \A k \in 1..1 : <<f>>[k] = f
    OBVIOUS
  <1> DEFINE st == <<f>>
  <1> HIDE DEF st
  <1>2. \A k \in 1..1 : FrameOK(T, st[k])
    BY <1>1 DEF st
  <1>3. StackOK(T, st)
    BY <1>1, <1>2, MakeStack, 1 \in Nat \ {0} DEF st
  <1> QED
    BY <1>3 DEF st

(* More series in the map on top. *)
LEMMA SeriesAdded ==
  ASSUME NEW T, NEW st, StackOK(T, st), NEW keys, NEW values, \A e \in values : e.sure => e.key.span = e.span
  PROVE  StackOK(T, [st EXCEPT ![Len(st)].values = values, ![Len(st)].keys = keys])
  <1> DEFINE n == Len(st)
             new == [st EXCEPT ![n].values = values, ![n].keys = keys]
             top == [[st[n] EXCEPT !.values = values] EXCEPT !.keys = keys]
  <1>1. n \in Nat \ {0} /\ DOMAIN st = 1..n /\ n \in DOMAIN st
    BY StackParts
  <1>2. DOMAIN new = 1..n /\ new = [k \in 1..n |-> new[k]]
    BY <1>1
  <1>3. \A k \in 1..n : FrameOK(T, st[k])
    BY <1>1 DEF StackOK
  <1>5. new[n] = top
    BY <1>1
  <1>6. \A k \in 1..n : k # n => new[k] = st[k]
    BY <1>1
  <1>7. FrameOK(T, top)
    <2>1. FrameOK(T, st[n])
      BY <1>1, <1>3
    <2> QED
      BY <2>1 DEF FrameOK
  <1> HIDE DEF new, top
  <1>8. ASSUME NEW k \in 1..n PROVE FrameOK(T, new[k])
    BY <1>3, <1>5, <1>6, <1>7, Zenon
  <1>9. StackOK(T, new)
    BY <1>1, <1>2, <1>8, MakeStack
  <1> QED
    BY <1>9 DEF new

(* What a moving function fetches once more. *)
LEMMA RefetchedGood ==
  ASSUME NEW T, AllTargets(T), NEW fs \in Seq(Fns(T)), NEW span \in Spans
  PROVE  /\ IsFiniteSet(Refetched(fs, span))
         /\ \A f \in Refetched(fs, span) :
              /\ f.fs \in Seq(Fns(T)) /\ f.span \in Spans /\ f.quiet \in BOOLEAN
              /\ f.quiet => \E x \in Fns(T) : x.fn = "emaPoints"
  <1> DEFINE n == Len(fs)
             K == {i \in DOMAIN fs : fs[i].fn \in Refetching /\ fs[i].by # 0}
             R(k, s) == [fs |-> SubSeq(fs, k + 1, Len(fs)), given |-> s, span |-> Earlier(s, fs[k].by),
                         quiet |-> fs[k].fn = "emaPoints"]
             F == [k \in K |-> {R(k, s) : s \in Lookups(SubSeq(fs, 1, k), span)}]
  <1>1. n \in Nat /\ DOMAIN fs = 1..n /\ K \subseteq 1..n
    OBVIOUS
  <1>2. Refetched(fs, span) = UNION {F[k] : k \in K}
    <2> DEFINE G(k) == {R(k, s) : s \in Lookups(SubSeq(fs, 1, k), span)}
    <2>1. \A k \in K : F[k] = G(k)
      BY Zenon
    <2>2. Refetched(fs, span) = UNION {G(k) : k \in K}
      BY Zenon DEF Refetched
    <2> HIDE DEF F, K, R, G
    <2>3. UNION {G(k) : k \in K} = UNION {F[k] : k \in K}
      BY <2>1
    <2> QED
      BY <2>2, <2>3, Zenon
  <1>3. ASSUME NEW k \in K
        PROVE  Lookups(SubSeq(fs, 1, k), span) \subseteq Spans /\ IsFiniteSet(Lookups(SubSeq(fs, 1, k), span))
    <2> DEFINE part == SubSeq(fs, 1, k)
    <2>1. part \in Seq(Fns(T))
      BY <1>1
    <2>2. \A i \in DOMAIN part : part[i] \in Fns(T)
      BY <2>1
    <2>3. \A i \in DOMAIN part : part[i].by \in Int
      BY <2>2, FnsTyped
    <2> HIDE DEF part
    <2>4. Lookups(part, span) \subseteq Spans /\ IsFiniteSet(Lookups(part, span))
      BY <2>1, <2>3, LookupsTyped
    <2> QED
      BY <2>4 DEF part
  <1>4. ASSUME NEW k \in K PROVE IsFiniteSet(F[k])
    <2> DEFINE S == Lookups(SubSeq(fs, 1, k), span)
               G == [s \in S |-> R(k, s)]
    <2>1. F[k] = {G[s] : s \in S}
      BY Zenon
    <2>2. IsFiniteSet({G[s] : s \in S})
      <3> HIDE DEF G, S
      <3> QED
        BY <1>3, FiniteImage DEF S
    <2> QED
      BY <2>1, <2>2, Zenon
  <1>5. IsFiniteSet(K)
    <2>1. IsFiniteSet(1..n)
      BY <1>1, FS_Interval
    <2> HIDE DEF K
    <2> QED
      BY <1>1, <2>1, FS_Subset
  <1>6. IsFiniteSet(UNION {F[k] : k \in K})
    <2> HIDE DEF F, K
    <2> QED
      BY <1>4, <1>5, FiniteUnion
  <1>7. ASSUME NEW f \in Refetched(fs, span)
        PROVE  /\ f.fs \in Seq(Fns(T)) /\ f.span \in Spans /\ f.quiet \in BOOLEAN
               /\ f.quiet => \E x \in Fns(T) : x.fn = "emaPoints"
    <2>1. PICK k \in K : f \in F[k]
      BY <1>2, Zenon
    <2>2. PICK s \in Lookups(SubSeq(fs, 1, k), span) : f = R(k, s)
      BY <2>1, Zenon
    <2>3. s \in Spans /\ fs[k] \in Fns(T) /\ fs[k].by \in Int
      BY <2>2, <1>1, <1>3, FnsTyped
    <2>4. Earlier(s, fs[k].by) \in Spans
      BY <2>3, SpanKinds
    <2>5. SubSeq(fs, k + 1, Len(fs)) \in Seq(Fns(T))
      BY <1>1
    <2>6. f.fs = SubSeq(fs, k + 1, Len(fs)) /\ f.span = Earlier(s, fs[k].by) /\ f.quiet = (fs[k].fn = "emaPoints")
      BY <2>2
    <2> QED
      BY <2>3, <2>4, <2>5, <2>6
  <1> QED
    BY <1>2, <1>6, <1>7

(* The jobs an evaluation leads to. *)
LEMMA JobsForGood ==
  ASSUME NEW T, AllTargets(T), NEW frame, NEW i \in Nat, NEW e \in Exprs(T), NEW span \in Spans
  PROVE  JobsFor(frame, i, e, span) \in Seq(Works(T))
  <1> DEFINE W == Works(T)
  <1>1. /\ e.args \in Seq(Range(e.args)) /\ e.then \in Seq(T) /\ Len(e.then) <= 1
        /\ \A k \in DOMAIN e.args : ArgOK(T, e.args[k])
    BY ExprsTyped
  <1>2. <<i>> \in Seq(Nat) /\ Len(<<i>>) = 1 /\ FALSE \in BOOLEAN
    OBVIOUS
  <1>3. CASE e.head = "applyByNode"
    <2> DEFINE j == Job(<<i>>, e.then, span, FALSE)
    <2>1. e.then \in Seq(Exprs(T))
      BY <1>1 DEF Exprs
    <2>2. j \in W
      BY <1>1, <1>2, <2>1, MakeWork
    <2> HIDE DEF j, W
    <2>3. <<j>> \in Seq(W) /\ <<>> \in Seq(W)
      BY <2>2
    <2>4. JobsFor(frame, i, e, span) = <<j>> \/ JobsFor(frame, i, e, span) = <<>>
      BY <1>3 DEF JobsFor, j
    <2> QED
      BY <2>3, <2>4 DEF W
  <1>4. CASE e.head # "applyByNode"
    <2> DEFINE J(k, f) == Job(<<i>>, <<Plain([name |-> e.args[k].name, fs |-> f.fs])>>, f.span, f.quiet)
               S(k) == {J(k, f) : f \in RefetchesOf(frame, e.args[k], span)}
               ss == [k \in DOMAIN e.args |-> SetToSeq(S(k))]
    <2>1. JobsFor(frame, i, e, span) = FlattenSeq(ss)
      BY <1>4 DEF JobsFor
    <2>2. ASSUME NEW k \in DOMAIN e.args PROVE SetToSeq(S(k)) \in Seq(W)
      <3> DEFINE a == e.args[k]
                 R == RefetchesOf(frame, a, span)
      <3>1. a.fs \in Seq(Fns(T)) /\ a.name \in ArgNames(T)
        BY <1>1 DEF ArgOK
      <3>2. R \subseteq Refetched(a.fs, span)
        BY DEF RefetchesOf
      <3>3. IsFiniteSet(R)
        BY <3>1, <3>2, RefetchedGood, FS_Subset
      <3>4. ASSUME NEW f \in R PROVE J(k, f) \in W
        <4>1. /\ f.fs \in Seq(Fns(T)) /\ f.span \in Spans /\ f.quiet \in BOOLEAN
              /\ f.quiet => \E x \in Fns(T) : x.fn = "emaPoints"
          BY <3>1, <3>2, RefetchedGood
        <4> DEFINE p == [name |-> a.name, fs |-> f.fs]
        <4>2. p \in Args(T)
          BY <3>1, <4>1 DEF Args
        <4> HIDE DEF p
        <4>3. <<p>> \in Seq(Args(T))
          BY <4>2
        <4>4. Plain(p) \in [head : {"plain"}, args : Seq(Args(T)), then : {<<>>}]
          BY <4>3 DEF Plain
        <4>5. Plain(p) \in Exprs(T)
          BY <4>4 DEF Exprs
        <4> DEFINE x == <<Plain(p)>>
        <4>6. x \in Seq(Exprs(T)) /\ Len(x) <= Len(<<i>>)
          BY <4>5, <1>2
        <4> HIDE DEF x
        <4>7. Job(<<i>>, x, f.span, f.quiet) \in Works(T)
          BY <1>2, <4>1, <4>6, MakeWork
        <4> QED
          BY <4>7 DEF x, p
      <3>5. IsFiniteSet(S(k))
        <4> DEFINE G == [f \in R |-> J(k, f)]
        <4>1. S(k) = {G[f] : f \in R}
          BY Zenon
        <4>2. IsFiniteSet({G[f] : f \in R})
          <5> HIDE DEF G, R
          <5> QED
            BY <3>3, FiniteImage
        <4> QED
          BY <4>1, <4>2, Zenon
      <3>6. S(k) \subseteq W
        BY <3>4, Zenon
      <3> HIDE DEF S, W
      <3> QED
        BY <3>5, <3>6, SetToSeqElements
    <2>3. DOMAIN ss = DOMAIN e.args /\ \A k \in DOMAIN e.args : ss[k] \in Seq(W)
      BY <2>2, Zenon
    <2>4. DOMAIN e.args = 1..Len(e.args) /\ Len(e.args) \in Nat
      BY <1>1
    <2> HIDE DEF W
    <2>5. ss = [k \in DOMAIN e.args |-> ss[k]]
      BY Zenon
    <2> HIDE DEF ss
    <2>6. ss \in [DOMAIN e.args -> Seq(W)]
      BY <2>3, <2>5, Zenon
    <2>7. ss \in Seq(Seq(W))
      BY <1>1, <2>6, PartsOfQueries
    <2> QED
      BY <2>1, <2>7, FlattenElements DEF W
  <1> QED
    BY <1>3, <1>4

(* The errors of the work of a handler. *)
HandlerCodes == {400, 403, 404, 429, 500, 503}

-----------------------------------------------------------------------------
(* A handler at work on its targets. *)
Doing(T, r) ==
  /\ {"pc", "req", "results", "codes", "stack", "job"} \subseteq DOMAIN r
  /\ {"found", "lost"} \subseteq DOMAIN r.results
  /\ StackOK(T, r.stack)
  /\ r.codes \subseteq HandlerCodes

GoesOn(T, r, x) ==
  Doing(T, x) /\ x.pc = "next" /\ x.req = r.req /\ x.results.lost = r.results.lost /\ r.codes \subseteq x.codes

(* An evaluation fails. *)
LEMMA FailsKeeps ==
  ASSUME NEW T, NEW r, Doing(T, r), NEW job, NEW code \in HandlerCodes, NEW st, StackOK(T, st)
  PROVE  GoesOn(T, r, Fails(r, job, code, st)) /\ code \in Fails(r, job, code, st).codes
  <1> DEFINE x == Fails(r, job, code, st)
             stop == conf.rsa /\ ~conf.combine /\ code # 404
             found == [i \in DOMAIN r.results.found |-> IF i \in Range(job.of) THEN {} ELSE r.results.found[i]]
             new == Unwind(Without(job, st, stop))
  <1>1. x = [r EXCEPT !.pc = "next", !.job = <<>>, !.codes = @ \cup {code}, !.results.found = found, !.stack = new]
    BY DEF Fails
  <1>2. StackOK(T, new)
    BY WithoutKeeps, UnwindKeeps
  <1>4. {"pc", "req", "results", "codes", "stack", "job"} \subseteq DOMAIN r /\ {"found", "lost"} \subseteq DOMAIN r.results
    BY DEF Doing
  <1> HIDE DEF x, new, found
  <1>5. /\ DOMAIN x = DOMAIN r /\ x.pc = "next" /\ x.req = r.req /\ x.codes = r.codes \cup {code} /\ x.stack = new
        /\ DOMAIN x.results = DOMAIN r.results /\ x.results.lost = r.results.lost
    BY <1>1, <1>4
  <1>6. x.codes \subseteq HandlerCodes
    <2>1. r.codes \subseteq HandlerCodes
      BY DEF Doing
    <2> QED
      BY <1>5, <2>1
  <1>7. Doing(T, x)
    BY <1>2, <1>4, <1>5, <1>6 DEF Doing
  <1> QED
    BY <1>5, <1>7 DEF x, GoesOn

LEMMA FetchFailsKeeps ==
  ASSUME NEW T, NEW r, Doing(T, r), NEW job, NEW code \in HandlerCodes, NEW st, StackOK(T, st)
  PROVE  /\ GoesOn(T, r, FetchFails(r, job, code, st))
         /\ ~job.quiet => code \in FetchFails(r, job, code, st).codes
  <1> DEFINE x == FetchFails(r, job, code, st)
  <1>1. CASE ~job.quiet
    <2>1. x = Fails(r, job, code, st)
      BY <1>1 DEF FetchFails
    <2> QED
      BY <2>1, FailsKeeps
  <1>2. CASE job.quiet
    <2> DEFINE new == Unwind(st)
    <2>1. x = [r EXCEPT !.pc = "next", !.job = <<>>, !.stack = new]
      BY <1>2 DEF FetchFails
    <2>2. StackOK(T, new)
      BY UnwindKeeps
    <2> HIDE DEF x, new
    <2>3. DOMAIN x = DOMAIN r /\ x.pc = "next" /\ x.req = r.req /\ x.codes = r.codes /\ x.stack = new
          /\ x.results = r.results
      BY <2>1 DEF Doing
    <2> QED
      BY <1>2, <2>2, <2>3 DEF Doing, x, GoesOn
  <1> QED
    BY <1>1, <1>2

(* The expressions of a job are evaluated. *)
LEMMA EvalKeeps ==
  ASSUME NEW T, AllTargets(T), NEW r, Doing(T, r), NEW job \in Works(T), NEW frame
  PROVE  GoesOn(T, r, EvalJob(r, job, frame))
  <1> DEFINE refused == {j \in DOMAIN job.exprs : job.exprs[j].head = "invalid"}
             Jobs(j) == IF j \in refused THEN <<>> ELSE JobsFor(frame, job.of[j], job.exprs[j], job.span)
             ss == [j \in DOMAIN job.exprs |-> Jobs(j)]
             jobs == FlattenSeq(ss)
             stack == [r.stack EXCEPT ![Len(r.stack)].jobs = jobs]
             new == Unwind(stack)
  <1>1. /\ job.exprs \in Seq(Exprs(T)) /\ job.span \in Spans
        /\ \A k \in DOMAIN job.exprs : job.exprs[k] \in Exprs(T) /\ job.of[k] \in Nat
    BY WorkParts
  <1>2. ASSUME NEW j \in DOMAIN job.exprs PROVE Jobs(j) \in Seq(Works(T))
    <2>1. JobsFor(frame, job.of[j], job.exprs[j], job.span) \in Seq(Works(T))
      BY <1>1, JobsForGood
    <2>2. <<>> \in Seq(Works(T))
      OBVIOUS
    <2> QED
      BY <2>1, <2>2, Zenon
  <1>3. jobs \in Seq(Works(T))
    <2>1. ss \in [DOMAIN job.exprs -> Seq(Works(T))]
      BY <1>2, Zenon
    <2> HIDE DEF ss
    <2>2. ss \in Seq(Seq(Works(T)))
      BY <1>1, <2>1, PartsOfQueries
    <2> QED
      BY <2>2, FlattenElements
  <1>4. StackOK(T, new)
    <2> HIDE DEF jobs
    <2>1. StackOK(T, stack)
      BY <1>3, OtherJobs DEF Doing
    <2> QED
      BY <2>1, UnwindKeeps
  <1>5. PICK found :
          LET done == [r EXCEPT !.pc = "next", !.job = <<>>, !.stack = new, !.results.found = found] IN
          \/ EvalJob(r, job, frame) = done
          \/ EvalJob(r, job, frame) = [done EXCEPT !.codes = @ \cup {400}]
          \/ EvalJob(r, job, frame) = Fails(r, job, 400, r.stack)
    BY Zenon DEF EvalJob
  <1> DEFINE done == [r EXCEPT !.pc = "next", !.job = <<>>, !.stack = new, !.results.found = found]
             more == [done EXCEPT !.codes = @ \cup {400}]
  <1>6. \/ EvalJob(r, job, frame) = done
        \/ EvalJob(r, job, frame) = more
        \/ EvalJob(r, job, frame) = Fails(r, job, 400, r.stack)
    BY <1>5, Zenon
  <1> HIDE DEF new
  <1>7. /\ DOMAIN done = DOMAIN r /\ done.pc = "next" /\ done.req = r.req /\ done.codes = r.codes
        /\ done.stack = new /\ DOMAIN done.results = DOMAIN r.results /\ done.results.lost = r.results.lost
    BY DEF Doing
  <1>8. GoesOn(T, r, done)
    <2> HIDE DEF done
    <2> QED
      BY <1>4, <1>7 DEF Doing, GoesOn
  <1>9. GoesOn(T, r, more)
    <2> HIDE DEF done
    <2>1. /\ DOMAIN more = DOMAIN r /\ more.pc = "next" /\ more.req = r.req /\ more.codes = r.codes \cup {400}
          /\ more.stack = new /\ more.results = done.results
      BY <1>7 DEF Doing
    <2>2. r.codes \subseteq HandlerCodes /\ 400 \in HandlerCodes
      BY DEF Doing, HandlerCodes
    <2> HIDE DEF more
    <2>3. more.codes \subseteq HandlerCodes
      BY <2>1, <2>2
    <2> QED
      BY <1>4, <1>7, <2>1, <2>3 DEF Doing, GoesOn
  <1>10. GoesOn(T, r, Fails(r, job, 400, r.stack))
    <2>1. 400 \in HandlerCodes /\ StackOK(T, r.stack)
      BY DEF Doing, HandlerCodes
    <2> QED
      BY <2>1, FailsKeeps
  <1> HIDE DEF done, more
  <1> QED
    BY <1>6, <1>8, <1>9, <1>10, Zenon

(* A series is filed under the interval its backend was asked for, where   *)
(* there is no doubt. *)
LEMMA FiledSurely ==
  ASSUME NEW N, NEW plan, PlanRight(N, plan), NEW s, AskedFor(s, Range(plan.todo)), Filed(plan, s).sure
  PROVE  Filed(plan, s).key.span = Filed(plan, s).span
  <1> DEFINE key == FiledUnder(plan.cache, s)
             said == s.echo.from # 0 /\ s.echo.until # 0
  <1>1. /\ Filed(plan, s).key = key /\ Filed(plan, s).span = s.span
        /\ said \/ \A i \in DOMAIN plan.todo : plan.todo[i].span = s.span
    BY DEF Filed
  <1>2. PICK m \in Range(plan.todo) : s.name = m.name /\ (s.echo = s.span \/ s.echo = NoSpan)
    BY DEF AskedFor
  <1>3. CASE said
    <2>1. s.echo # NoSpan
      BY <1>3 DEF NoSpan, Span
    <2>2. key.span = s.echo
      BY <1>3 DEF FiledUnder, Request
    <2> QED
      BY <1>1, <1>2, <2>1, <2>2, Zenon
  <1>4. CASE ~said
    <2>1. key.span = plan.cache[s.name]
      BY <1>4 DEF FiledUnder, Request
    <2>3. PICK x \in Range(plan.todo) : plan.cache[m.name] = x.span
      BY DEF PlanRight
    <2>4. \E k \in DOMAIN plan.todo : x = plan.todo[k]
      BY <2>3 DEF Range
    <2> QED
      BY <1>1, <1>2, <1>4, <2>1, <2>3, <2>4, Zenon
  <1> QED
    BY <1>3, <1>4

-----------------------------------------------------------------------------
(* The invariant of the render handlers and the caches, in configuration k. *)
StrictFor(k) ==
  /\ AsksAll(k) /\ "nocontent" \notin k.faults
  /\ \A ch \in k.children : Fair(ch) /\ (ch.servers # {} => Stops(k.notFound))
  /\ \A t \in k.targets : ~Tolerant(t)

(* What misses series has an error that the response is stopped with or    *)
(* has for its status. *)
Excused(k, codes) == codes # {} /\ (codes \subseteq {404} => Stops(k.notFound))
Owns(k, r) == StrictFor(k) /\ r.results.lost => Excused(k, r.codes)

HandlerOK(k, r) ==
  /\ "pc" \in DOMAIN r /\ r.pc \in {"idle", "parse", "lookup", "next", "fetch", "eval", "reply"}
  /\ r.pc # "idle" => "req" \in DOMAIN r /\ r.req \in k.requests
  /\ r.pc \in {"lookup", "next", "fetch", "eval"} => Doing(k.targets, r)
  /\ r.pc \in {"lookup", "next", "fetch", "eval", "reply"} => r.codes \subseteq HandlerCodes /\ Owns(k, r)
  /\ r.pc = "lookup" => r.codes = {}
  /\ r.pc \in {"fetch", "eval"} => r.job[1] \in Works(k.targets)
  /\ r.pc = "eval" => \E known : Last(r.stack).keys = Plan(Arguments(r.job[1]), r.job[1].span, known).wanted

(* Results are not cut; a body is only if it was sent with the status of   *)
(* an error before. *)
Uncut(k, value) == StrictFor(k) => ~value.lost
Owned(k, body) == StrictFor(k) /\ body.lost => body.first >= 400 /\ ~Stops(body.first)

BackOK(k, cache) == \A key \in DOMAIN cache : Uncut(k, cache[key].value)
RespOK(k, cache) == \A key \in DOMAIN cache : Owned(k, cache[key].value)
WriteOK(k, w) == (w.which = "back" => Uncut(k, w.value)) /\ (w.which = "resp" => Owned(k, w.value))
WritesOK(k, ws) == \A w \in ws : WriteOK(k, w)
AnswerOK(k, a) == a # <<>> /\ a.code = 200 => Owned(k, a.body)

RenderInv ==
  /\ conf \in Scenarios /\ now \in Int
  /\ DOMAIN rq = Clients /\ \A c \in Clients : HandlerOK(conf, rq[c])
  /\ DOMAIN answer = Clients /\ \A c \in Clients : AnswerOK(conf, answer[c])
  /\ RespOK(conf, respCache) /\ BackOK(conf, backCache) /\ WritesOK(conf, writes)

LEMMA StrictIs == Strict <=> StrictFor(conf)
  BY DEF Strict, StrictFor, AsksAll, Fair, Silent

LEMMA ConfKnown ==
  ASSUME conf \in Scenarios
  PROVE  /\ AllTargets(conf.targets) /\ conf.faults \subseteq Faults
         /\ \A ch \in conf.children : IsBackend(ch) \/ IsGroup(ch)
         /\ \A r \in conf.requests : IsRequest(r, conf.targets)
         /\ conf.truncate \in Nat
  BY RenderAssumption DEF AllTargets

LEMMA EpochTyped ==
  ASSUME NEW time, time.at \in Int, NEW tz \in Int, NEW at \in Int, NEW default \in Int
  PROVE  Epoch(time, tz, at, default) \in Int
  BY DEF Epoch

LEMMA TruncateTyped ==
  ASSUME NEW k, k.truncate \in Nat, NEW t \in Int, NEW duration
  PROVE  Truncate(k, t, duration) \in Int
  <1>1. CASE k.truncate = 0
    BY <1>1 DEF Truncate
  <1>2. CASE k.truncate # 0
    <2>1. t % k.truncate \in Int
      BY <1>2
    <2> QED
      BY <2>1 DEF Truncate
  <1> QED
    BY <1>1, <1>2

(* The interval and the targets of a request. *)
LEMMA RequestTyped ==
  ASSUME conf \in Scenarios, now \in Int, NEW req \in conf.requests
  PROVE  SpanOf(conf, req, now) \in Spans /\ TargetsOf(req) \in Seq(conf.targets)
  <1>1. IsRequest(req, conf.targets) /\ conf.truncate \in Nat
    BY ConfKnown
  <1>2. req.from.at \in Int /\ req.until.at \in Int /\ req.tz \in Int
    BY <1>1 DEF IsRequest
  <1> DEFINE raw == Raw(req, now)
  <1>3. raw.from \in Int /\ raw.until \in Int
    <2>1. now - DefaultRange \in Int
      BY RenderAssumption
    <2>2. Epoch(req.from, req.tz, now, now - DefaultRange) \in Int /\ Epoch(req.until, req.tz, now, now) \in Int
      BY <1>2, <2>1, EpochTyped
    <2> QED
      BY <2>2 DEF Raw, Span
  <1> HIDE DEF raw
  <1>4. FormSpan(conf, req, now) \in Spans
    <2> DEFINE a == Truncate(conf, raw.from, raw.until - raw.from)
               b == Truncate(conf, raw.until, raw.until - raw.from)
    <2>1. a \in Int /\ b \in Int
      BY <1>1, <1>3, TruncateTyped
    <2>2. FormSpan(conf, req, now) = Span(a, b)
      BY DEF FormSpan, raw
    <2> HIDE DEF a, b
    <2> QED
      BY <2>1, <2>2 DEF Span, Spans
  <1> QED
    BY <1>1, <1>4 DEF IsRequest, SpanOf, TargetsOf

(* One handler moves. *)
LEMMA HandlerMoves ==
  ASSUME RenderInv, NEW c \in Clients, NEW x, HandlerOK(conf, x), rq' = [rq EXCEPT ![c] = x],
         UNCHANGED <<conf, now, answer, respCache>>,
         BackOK(conf, backCache'), WritesOK(conf, writes')
  PROVE  RenderInv'
  <1>1. DOMAIN rq' = Clients /\ \A d \in Clients : rq'[d] = IF d = c THEN x ELSE rq[d]
    BY DEF RenderInv
  <1>2. \A d \in Clients : HandlerOK(conf, rq'[d])
    BY <1>1 DEF RenderInv
  <1> QED
    BY <1>1, <1>2 DEF RenderInv

LEMMA IdleOK ==
  ASSUME NEW k
  PROVE  HandlerOK(k, Idle)
  BY DEF HandlerOK, Idle

(* One handler answers. *)
LEMMA HandlerAnswers ==
  ASSUME RenderInv, NEW c \in Clients, NEW code, NEW body, Reply(c, code, body),
         AnswerOK(conf, [code |-> code, body |-> body]),
         UNCHANGED <<conf, now, backCache>>, RespOK(conf, respCache'), WritesOK(conf, writes')
  PROVE  RenderInv'
  <1> DEFINE a == [code |-> code, body |-> body]
  <1>0. rq' = [rq EXCEPT ![c] = Idle] /\ answer' = [answer EXCEPT ![c] = a]
    BY DEF Reply
  <1> HIDE DEF a
  <1>1. DOMAIN rq' = Clients /\ \A d \in Clients : rq'[d] = IF d = c THEN Idle ELSE rq[d]
    BY <1>0 DEF RenderInv
  <1>2. \A d \in Clients : HandlerOK(conf, rq'[d])
    BY <1>1, IdleOK DEF RenderInv
  <1>3. DOMAIN answer' = Clients /\ \A d \in Clients : answer'[d] = IF d = c THEN a ELSE answer[d]
    BY <1>0 DEF RenderInv
  <1>4. \A d \in Clients : AnswerOK(conf, answer'[d])
    BY <1>3 DEF RenderInv, a
  <1> QED
    BY <1>1, <1>2, <1>3, <1>4 DEF RenderInv

LEMMA PutKeeps ==
  ASSUME NEW k, NEW cache, NEW key, NEW value, NEW timeout
  PROVE  /\ BackOK(k, cache) /\ Uncut(k, value) => BackOK(k, Put(cache, key, value, timeout))
         /\ RespOK(k, cache) /\ Owned(k, value) => RespOK(k, Put(cache, key, value, timeout))
  <1> DEFINE e == [value |-> value, till |-> Expiry(timeout)]
             new == Put(cache, key, value, timeout)
  <1>1. new = [x \in DOMAIN cache \cup {key} |-> IF x = key THEN e ELSE cache[x]]
    BY DEF Put
  <1>2. e.value = value
    OBVIOUS
  <1> HIDE DEF e, new
  <1>3. DOMAIN new = {key} \cup DOMAIN cache
        /\ \A x \in DOMAIN new : new[x] = IF x = key THEN e ELSE cache[x]
    BY <1>1
  <1>4. \A x \in DOMAIN new : new[x].value = value \/ (x \in DOMAIN cache /\ new[x] = cache[x])
    BY <1>2, <1>3
  <1>5. ASSUME BackOK(k, cache), Uncut(k, value) PROVE BackOK(k, new)
    <2> SUFFICES ASSUME NEW x \in DOMAIN new PROVE Uncut(k, new[x].value)
      BY DEF BackOK
    <2>1. CASE new[x].value = value
      BY <1>5, <2>1
    <2>2. CASE x \in DOMAIN cache /\ new[x] = cache[x]
      BY <1>5, <2>2 DEF BackOK
    <2> QED
      BY <1>4, <2>1, <2>2
  <1>6. ASSUME RespOK(k, cache), Owned(k, value) PROVE RespOK(k, new)
    <2> SUFFICES ASSUME NEW x \in DOMAIN new PROVE Owned(k, new[x].value)
      BY DEF RespOK
    <2>1. CASE new[x].value = value
      BY <1>6, <2>1
    <2>2. CASE x \in DOMAIN cache /\ new[x] = cache[x]
      BY <1>6, <2>2 DEF RespOK
    <2> QED
      BY <1>4, <2>1, <2>2
  <1> QED
    BY <1>5, <1>6 DEF new

(* What a Fetch may get for plan. *)
OutcomeOK(k, job, plan, out) ==
  /\ \A s \in out.series : AskedFor(s, Range(plan.todo))
  /\ out.code \in {0, 204} \cup HandlerCodes
  /\ out.lost \in BOOLEAN
  /\ Misconsolidated(job) => out.code = 400 /\ ~out.lost
  /\ StrictFor(k) /\ out.lost => out.code >= 400 /\ (out.code = 404 => Stops(k.notFound))

LEMMA GetsRight ==
  ASSUME conf \in Scenarios, NEW N, NEW plan, PlanRight(N, plan), NEW job, NEW out \in Gets(job, plan)
  PROVE  OutcomeOK(conf, job, plan, out)
  <1>1. CASE Misconsolidated(job)
    <2>1. out = [series |-> {}, code |-> 400, lost |-> FALSE]
      BY <1>1 DEF Gets
    <2>2. out.series = {} /\ out.code = 400 /\ out.lost = FALSE
      BY <2>1
    <2>3. out.code \in {0, 204} \cup HandlerCodes /\ out.code >= 400
      BY <2>2 DEF HandlerCodes
    <2> QED
      BY <2>2, <2>3 DEF OutcomeOK
  <1>2. CASE ~Misconsolidated(job) /\ plan.todo = <<>>
    <2>1. out = [series |-> {}, code |-> 0, lost |-> FALSE]
      BY <1>2 DEF Gets
    <2>2. out.series = {} /\ out.code = 0 /\ out.lost = FALSE
      BY <2>1
    <2> QED
      BY <1>2, <2>2 DEF OutcomeOK
  <1>3. CASE ~Misconsolidated(job) /\ plan.todo # <<>>
    <2>1. out \in Outcomes(conf, plan.todo)
      BY <1>3 DEF Gets
    <2>2. plan.todo \in Seq([name : N, span : Spans])
      BY DEF PlanRight, PlanStates
    <2>3. Asks(plan.todo)
      BY <1>3, <2>2, OwnElements DEF Asks
    <2>4. conf.faults \subseteq Faults /\ \A ch \in conf.children : IsBackend(ch) \/ IsGroup(ch)
      BY ConfKnown
    <2>5. OutcomeOf(conf, plan.todo, out)
      BY <2>1, <2>3, <2>4, OutcomesRight
    <2>6. out.code \in {0, 204, 403, 404, 429, 500, 503}
      BY <2>5 DEF OutcomeOf, Codes, Statuses
    <2>7. ASSUME StrictFor(conf), out.lost PROVE out.code >= 400 /\ (out.code = 404 => Stops(conf.notFound))
      BY <2>5, <2>6, <2>7 DEF OutcomeOf, StrictFor
    <2> QED
      BY <1>3, <2>5, <2>6, <2>7 DEF OutcomeOK, OutcomeOf, HandlerCodes
  <1> QED
    BY <1>1, <1>2, <1>3

(* The outcome is noted in the results. *)
LEMMA Noted ==
  ASSUME NEW T, NEW r, Doing(T, r), NEW lost
  PROVE  LET x == [r EXCEPT !.results.lost = lost] IN
         Doing(T, x) /\ x.results.lost = lost /\ x.req = r.req /\ x.codes = r.codes
  <1> DEFINE x == [r EXCEPT !.results.lost = lost]
  <1>1. /\ DOMAIN x = DOMAIN r /\ x.req = r.req /\ x.codes = r.codes /\ x.stack = r.stack
        /\ DOMAIN x.results = DOMAIN r.results /\ x.results.lost = lost
    BY DEF Doing
  <1> HIDE DEF x
  <1>2. Doing(T, x)
    BY <1>1 DEF Doing
  <1> QED
    BY <1>1, <1>2 DEF x

(* A handler whose Fetch or evaluation failed. *)
LEMMA GoesOnOK ==
  ASSUME NEW k, NEW r, Doing(k.targets, r), r.req \in k.requests, NEW x, GoesOn(k.targets, r, x),
         Owns(k, r) \/ (StrictFor(k) => Excused(k, x.codes))
  PROVE  HandlerOK(k, x)
  <1>1. /\ Doing(k.targets, x) /\ x.pc = "next" /\ x.req = r.req /\ x.results.lost = r.results.lost
        /\ r.codes \subseteq x.codes
    BY DEF GoesOn
  <1>2. "pc" \in DOMAIN x /\ "req" \in DOMAIN x /\ x.codes \subseteq HandlerCodes
    BY <1>1 DEF Doing
  <1>3. Excused(k, r.codes) => Excused(k, x.codes)
    BY <1>1 DEF Excused
  <1>4. Owns(k, x)
    BY <1>1, <1>3 DEF Owns
  <1> QED
    BY <1>1, <1>2, <1>4 DEF HandlerOK

LEMMA FetchMoves ==
  ASSUME RenderInv, NEW c \in Clients, Fetch(c)
  PROVE  RenderInv'
  <1> DEFINE r == rq[c]
             job == r.job[1]
             depth == Len(r.stack)
             top == Last(r.stack)
             plan == Plan(Arguments(job), job.span, top.keys)
             T == conf.targets
  <1>0. conf \in Scenarios /\ HandlerOK(conf, r) /\ r.pc = "fetch" /\ UNCHANGED <<conf, now, answer, respCache, backCache, writes>>
    BY DEF RenderInv, Fetch, FetchStep
  <1>1. Doing(T, r) /\ r.req \in conf.requests /\ job \in Works(T) /\ Owns(conf, r)
    BY <1>0 DEF HandlerOK
  <1>2. PICK out \in Gets(job, plan) :
          LET filed == {Filed(plan, s) : s \in out.series}
              values == top.values \cup filed
              mine == {e \in values : e.key \in plan.wanted}
              stack == [r.stack EXCEPT ![depth].values = values,
                                       ![depth].keys = @ \cup {e.key : e \in filed}]
          IN rq' = [rq EXCEPT ![c] =
               IF Misconsolidated(job) \/ (out.code >= 400 /\ ~HasFallback(job))
               THEN FetchFails([r EXCEPT !.results.lost = @ \/ out.lost], job, out.code, r.stack)
               ELSE [r EXCEPT !.pc = "eval", !.results.lost = @ \/ out.lost,
                              !.stack = Append(stack, Frame(plan.wanted, mine, <<>>))]]
    BY Zenon DEF Fetch, FetchStep, Top
  <1>3. AllTargets(T)
    BY <1>0, ConfKnown
  <1>4. PICK N : PlanRight(N, plan)
    <2>1. GoodArgs(Arguments(job)) /\ job.span \in Spans
      BY <1>1, <1>3, ArgumentsGood, WorkParts
    <2> QED
      BY <2>1, PlanKeeps
  <1>5. OutcomeOK(conf, job, plan, out)
    BY <1>0, <1>2, <1>4, GetsRight
  <1> DEFINE lost == r.results.lost \/ out.lost
             base == [r EXCEPT !.results.lost = lost]
             filed == {Filed(plan, s) : s \in out.series}
             values == top.values \cup filed
             mine == {e \in values : e.key \in plan.wanted}
             keys == r.stack[depth].keys \cup {e.key : e \in filed}
             stack == [r.stack EXCEPT ![depth].values = values, ![depth].keys = keys]
             frame == Frame(plan.wanted, mine, <<>>)
             fails == Misconsolidated(job) \/ (out.code >= 400 /\ ~HasFallback(job))
             failed2 == FetchFails(base, job, out.code, r.stack)
             went == [r EXCEPT !.pc = "eval", !.results.lost = lost, !.stack = Append(stack, frame)]
  <1>6. rq' = [rq EXCEPT ![c] = IF fails THEN failed2 ELSE went]
    BY <1>2
  <1> HIDE DEF plan
  <1>7. CASE fails
    <2>1. rq' = [rq EXCEPT ![c] = failed2]
      BY <1>6, <1>7, Zenon
    <2>2. Doing(T, base) /\ base.results.lost = lost /\ base.req = r.req /\ base.codes = r.codes
      BY <1>1, Noted
    <2>3. out.code \in HandlerCodes
      BY <1>5, <1>7 DEF OutcomeOK, HandlerCodes
    <2>4. StackOK(T, r.stack)
      BY <1>1 DEF Doing
    <2> HIDE DEF base
    <2>5. GoesOn(T, base, failed2) /\ (~job.quiet => out.code \in failed2.codes)
      BY <2>2, <2>3, <2>4, FetchFailsKeeps
    <2>6. Owns(conf, base) \/ (StrictFor(conf) => Excused(conf, failed2.codes))
      <3>1. CASE ~out.lost
        <4>1. Owns(conf, base)
          BY <1>1, <1>5, <2>2, <3>1 DEF Owns, OutcomeOK
        <4> QED
          BY <4>1
      <3>2. CASE out.lost
        <4> SUFFICES ASSUME StrictFor(conf) PROVE Excused(conf, failed2.codes)
          OBVIOUS
        <4>1. out.code = 404 => Stops(conf.notFound)
          BY <1>5, <3>2 DEF OutcomeOK
        <4>2. ~job.quiet
          BY <1>1, <1>3, NoneTolerant DEF StrictFor
        <4>3. out.code \in failed2.codes
          BY <2>5, <4>2
        <4> HIDE DEF failed2
        <4> QED
          BY <4>1, <4>3 DEF Excused
      <3> QED
        BY <3>1, <3>2
    <2> HIDE DEF failed2
    <2>7. HandlerOK(conf, failed2)
      BY <1>1, <2>2, <2>5, <2>6, GoesOnOK
    <2> QED
      BY <1>0, <2>1, <2>7, HandlerMoves DEF RenderInv
  <1>8. CASE ~fails
    <2>1. rq' = [rq EXCEPT ![c] = went]
      BY <1>6, <1>8, Zenon
    <2>2. \A e \in filed : e.sure => e.key.span = e.span
      BY <1>4, <1>5, FiledSurely DEF OutcomeOK
    <2> HIDE DEF filed
    <2>3. StackOK(T, stack) /\ \A e \in values : e.sure => e.key.span = e.span
      <3>1. StackOK(T, r.stack)
        BY <1>1 DEF Doing
      <3>2. \A e \in top.values : e.sure => e.key.span = e.span
        BY <3>1, StackParts DEF FrameOK
      <3>3. \A e \in values : e.sure => e.key.span = e.span
        BY <2>2, <3>2
      <3> HIDE DEF values, keys
      <3> QED
        BY <3>1, <3>3, SeriesAdded
    <2> HIDE DEF values, stack
    <2>4. FrameOK(T, frame)
      BY <2>3 DEF FrameOK, Frame
    <2>5. StackOK(T, Append(stack, frame)) /\ Last(Append(stack, frame)) = frame
      BY <2>3, <2>4, FrameAdded
    <2>6. frame.keys = plan.wanted
      BY DEF Frame
    <2> DEFINE new == Append(stack, frame)
    <2>7. went = [r EXCEPT !.pc = "eval", !.results.lost = lost, !.stack = new]
      OBVIOUS
    <2>8. StackOK(T, new) /\ Last(new).keys = plan.wanted
      BY <2>5, <2>6
    <2> HIDE DEF new, went, frame, lost
    <2>9. /\ DOMAIN went = DOMAIN r /\ went.pc = "eval" /\ went.req = r.req /\ went.codes = r.codes
          /\ went.stack = new /\ went.job = r.job
          /\ DOMAIN went.results = DOMAIN r.results /\ went.results.lost = lost
      BY <1>1, <2>7 DEF Doing
    <2>10. Doing(T, went)
      BY <1>1, <2>8, <2>9 DEF Doing
    <2>11. Owns(conf, went)
      <3> SUFFICES ASSUME StrictFor(conf), lost PROVE Excused(conf, r.codes)
        BY <2>9 DEF Owns
      <3>1. ~HasFallback(job)
        BY <1>1, <1>3, NoneTolerant DEF StrictFor
      <3>2. ~out.lost
        BY <1>5, <1>8, <3>1 DEF OutcomeOK
      <3>3. r.results.lost
        BY <3>2 DEF lost
      <3> QED
        BY <1>1, <3>3 DEF Owns
    <2>12. went.job[1] = job /\ went.job[1] \in Works(T)
      BY <1>1, <2>9
    <2>13. Last(went.stack).keys = Plan(Arguments(went.job[1]), went.job[1].span, top.keys).wanted
      BY <2>8, <2>9, <2>12 DEF plan
    <2>14. /\ "pc" \in DOMAIN went /\ "req" \in DOMAIN went /\ went.req \in conf.requests
           /\ went.codes \subseteq HandlerCodes
      BY <1>1, <2>9 DEF Doing
    <2>15. HandlerOK(conf, went)
      BY <2>9, <2>10, <2>11, <2>12, <2>13, <2>14 DEF HandlerOK
    <2> QED
      BY <1>0, <2>1, <2>15, HandlerMoves DEF RenderInv
  <1> QED
    BY <1>7, <1>8

LEMMA FailureOK ==
  ASSUME NEW k, NEW code, NEW body, code # 200
  PROVE  AnswerOK(k, [code |-> code, body |-> body])
  BY DEF AnswerOK

LEMMA HitsAreOK ==
  ASSUME NEW k, NEW cache, NEW key, NEW value \in Hits(cache, key)
  PROVE  (BackOK(k, cache) => Uncut(k, value)) /\ (RespOK(k, cache) => Owned(k, value))
  BY DEF BackOK, RespOK, Hits

(* Before the targets are looked at. *)
LEMMA FirstMoves ==
  ASSUME RenderInv, NEW c \in Clients,
         (\E req \in conf.requests : Send(c, req)) \/ Reject(c) \/ AnswerCached(c) \/ EmptyRange(c) \/ Admit(c)
  PROVE  RenderInv'
  <1>0. /\ conf \in Scenarios /\ now \in Int /\ HandlerOK(conf, rq[c])
        /\ RespOK(conf, respCache) /\ BackOK(conf, backCache) /\ WritesOK(conf, writes)
    BY DEF RenderInv
  <1>1. CASE \E req \in conf.requests : Send(c, req)
    <2>1. PICK req \in conf.requests : Send(c, req)
      BY <1>1
    <2> DEFINE x == [pc |-> "parse", req |-> req, since |-> now]
    <2>2. HandlerOK(conf, x)
      BY DEF HandlerOK
    <2>3. rq' = [rq EXCEPT ![c] = x] /\ answer' = [answer EXCEPT ![c] = <<>>]
          /\ UNCHANGED <<conf, now, respCache, backCache, writes>>
      BY <2>1 DEF Send
    <2> HIDE DEF x
    <2>4. \A d \in Clients : rq'[d] = IF d = c THEN x ELSE rq[d]
      BY <2>3 DEF RenderInv
    <2>5. \A d \in Clients : HandlerOK(conf, rq'[d])
      BY <2>2, <2>4 DEF RenderInv
    <2>6. \A d \in Clients : answer'[d] = IF d = c THEN <<>> ELSE answer[d]
      BY <2>3 DEF RenderInv
    <2>7. \A d \in Clients : AnswerOK(conf, answer'[d])
      <3>1. AnswerOK(conf, <<>>)
        BY DEF AnswerOK
      <3> QED
        BY <2>6, <3>1 DEF RenderInv
    <2>8. DOMAIN rq' = Clients /\ DOMAIN answer' = Clients
      BY <2>3 DEF RenderInv
    <2> QED
      BY <1>0, <2>3, <2>5, <2>7, <2>8 DEF RenderInv
  <1>2. CASE Reject(c)
    <2>1. PICK code : Reply(c, code, <<>>) /\ code # 200
      BY <1>2 DEF Reject, Dropped
    <2>2. UNCHANGED <<conf, now, respCache, backCache, writes>>
      BY <1>2 DEF Reject
    <2> QED
      BY <1>0, <2>1, <2>2, FailureOK, HandlerAnswers
  <1>3. CASE AnswerCached(c)
    <2> DEFINE key == ResponseKey(rq[c].req, FormSpan(conf, rq[c].req, now))
    <2>1. PICK body \in Hits(respCache, key) : Reply(c, 200, body)
      BY <1>3 DEF AnswerCached
    <2>2. UNCHANGED <<conf, now, respCache, backCache, writes>>
      BY <1>3 DEF AnswerCached
    <2>3. Owned(conf, body)
      BY <1>0, <2>1, HitsAreOK
    <2>4. AnswerOK(conf, [code |-> 200, body |-> body])
      BY <2>3 DEF AnswerOK
    <2> QED
      BY <1>0, <2>1, <2>2, <2>4, HandlerAnswers
  <1>4. CASE EmptyRange(c)
    <2>1. Reply(c, 400, <<>>) /\ UNCHANGED <<conf, now, respCache, backCache, writes>>
      BY <1>4 DEF EmptyRange
    <2>2. AnswerOK(conf, [code |-> 400, body |-> <<>>])
      BY FailureOK
    <2> QED
      BY <1>0, <2>1, <2>2, HandlerAnswers
  <1>5. CASE Admit(c)
    <2> DEFINE req == rq[c].req
               span == SpanOf(conf, req, now)
               results == Results(req, span)
               frame == Frame({}, {}, TopJobs(TargetsOf(req), span))
               stack == <<frame>>
    <2>1. PICK a2, a4, a5, a6, a7 :
            rq' = [rq EXCEPT ![c] =
               [pc |-> "lookup", req |-> req, since |-> a2, span |-> span,
                respKey |-> a4, backKey |-> a5, respTimeout |-> a6,
                backTimeout |-> a7, results |-> results, codes |-> {},
                stack |-> stack, job |-> <<>>, fresh |-> TRUE]]
      BY <1>5, Zenon DEF Admit
    <2>2. rq[c].pc = "parse" /\ UNCHANGED <<conf, now, answer, respCache, backCache, writes>>
      BY <1>5 DEF Admit, NotCached, Admissible
    <2>3. req \in conf.requests
      BY <1>0, <2>2 DEF HandlerOK
    <2>4. span \in Spans /\ TargetsOf(req) \in Seq(conf.targets)
      BY <1>0, <2>3, RequestTyped
    <2>5. FrameOK(conf.targets, frame)
      <3>1. TopJobs(TargetsOf(req), span) \in Seq(Works(conf.targets))
        BY <2>4, TopJobsGood
      <3> QED
        BY <3>1 DEF FrameOK, Frame
    <2>6. StackOK(conf.targets, stack)
      BY <2>5, OneFrame
    <2>7. {"found", "lost"} \subseteq DOMAIN results /\ results.lost = FALSE
      BY DEF Results
    <2> HIDE DEF req, span, results, stack
    <2> DEFINE x == [pc |-> "lookup", req |-> req, since |-> a2, span |-> span,
                respKey |-> a4, backKey |-> a5, respTimeout |-> a6,
                backTimeout |-> a7, results |-> results, codes |-> {},
                stack |-> stack, job |-> <<>>, fresh |-> TRUE]
    <2>8. /\ {"pc", "req", "results", "codes", "stack", "job"} \subseteq DOMAIN x
          /\ x.pc = "lookup" /\ x.req = req /\ x.results = results /\ x.codes = {} /\ x.stack = stack
      OBVIOUS
    <2>9. rq' = [rq EXCEPT ![c] = x]
      BY <2>1
    <2> HIDE DEF x
    <2>10. Doing(conf.targets, x)
      BY <2>6, <2>7, <2>8 DEF Doing
    <2>11. HandlerOK(conf, x)
      BY <2>3, <2>7, <2>8, <2>10 DEF HandlerOK, Owns
    <2> QED
      BY <1>0, <2>2, <2>9, <2>11, HandlerMoves
  <1> QED
    BY <1>1, <1>2, <1>3, <1>4, <1>5

LEMMA LookupMoves ==
  ASSUME RenderInv, NEW c \in Clients, LookupHit(c) \/ LookupMiss(c)
  PROVE  RenderInv'
  <1> DEFINE r == rq[c]
  <1>0. /\ HandlerOK(conf, r) /\ r.pc = "lookup"
        /\ BackOK(conf, backCache) /\ WritesOK(conf, writes)
        /\ UNCHANGED <<conf, now, answer, respCache, backCache, writes>>
    BY DEF RenderInv, LookupHit, LookupMiss
  <1>1. Doing(conf.targets, r) /\ r.codes = {} /\ r.req \in conf.requests /\ Owns(conf, r)
    BY <1>0 DEF HandlerOK
  <1>2. CASE LookupHit(c)
    <2>1. PICK results \in Hits(backCache, r.backKey) :
            rq' = [rq EXCEPT ![c].pc = "reply", ![c].results = results, ![c].fresh = FALSE]
      BY <1>2 DEF LookupHit
    <2> DEFINE x == [[[r EXCEPT !.pc = "reply"] EXCEPT !.results = results] EXCEPT !.fresh = FALSE]
    <2>2. rq' = [rq EXCEPT ![c] = x]
      BY <2>1 DEF RenderInv
    <2>3. Uncut(conf, results)
      BY <1>0, <2>1, HitsAreOK
    <2>4. DOMAIN x = DOMAIN r /\ x.pc = "reply" /\ x.req = r.req /\ x.codes = r.codes /\ x.results = results
      BY <1>1 DEF Doing
    <2> HIDE DEF x
    <2>5. HandlerOK(conf, x)
      BY <1>0, <1>1, <2>3, <2>4 DEF HandlerOK, Owns, Uncut, Doing
    <2> QED
      BY <1>0, <2>2, <2>5, HandlerMoves
  <1>3. CASE LookupMiss(c)
    <2> DEFINE x == [r EXCEPT !.pc = "next"]
    <2>1. rq' = [rq EXCEPT ![c] = x]
      BY <1>3 DEF LookupMiss
    <2>2. /\ DOMAIN x = DOMAIN r /\ x.pc = "next" /\ x.req = r.req /\ x.codes = r.codes /\ x.results = r.results
          /\ x.stack = r.stack
      BY <1>1 DEF Doing
    <2> HIDE DEF x
    <2>3. GoesOn(conf.targets, r, x)
      BY <1>1, <2>2 DEF Doing, GoesOn
    <2>4. HandlerOK(conf, x)
      BY <1>1, <2>3, GoesOnOK DEF Owns
    <2> QED
      BY <1>0, <2>1, <2>4, HandlerMoves
  <1> QED
    BY <1>2, <1>3

LEMMA JobMoves ==
  ASSUME RenderInv, NEW c \in Clients, ParseError(c) \/ Enter(c) \/ GiveUp(c)
  PROVE  RenderInv'
  <1> DEFINE r == rq[c]
             T == conf.targets
  <1>0. /\ HandlerOK(conf, r) /\ HasJob(c) /\ conf \in Scenarios
        /\ RespOK(conf, respCache) /\ BackOK(conf, backCache) /\ WritesOK(conf, writes)
        /\ UNCHANGED <<conf, now, respCache, backCache, writes>>
    BY DEF RenderInv, ParseError, Enter, GiveUp
  <1>1. r.pc = "next" /\ Last(r.stack).jobs # <<>>
    BY <1>0 DEF HasJob, Top
  <1>2. Doing(T, r) /\ r.req \in conf.requests /\ Owns(conf, r) /\ AllTargets(T) /\ StackOK(T, r.stack)
    BY <1>0, <1>1, ConfKnown DEF HandlerOK, Doing
  <1>3. NextJob(c) \in Works(T) /\ StackOK(T, TakeJob(c))
    BY <1>1, <1>2, JobTaken DEF NextJob, TakeJob, Top
  <1>4. CASE ParseError(c)
    <2>1. Reply(c, 400, <<>>)
      BY <1>4 DEF ParseError
    <2>2. AnswerOK(conf, [code |-> 400, body |-> <<>>])
      BY FailureOK
    <2> QED
      BY <1>0, <2>1, <2>2, HandlerAnswers
  <1>5. CASE Enter(c)
    <2> DEFINE x == [[[r EXCEPT !.pc = "fetch"] EXCEPT !.job = <<NextJob(c)>>] EXCEPT !.stack = TakeJob(c)]
    <2>1. rq' = [rq EXCEPT ![c] = x] /\ answer' = answer
      BY <1>5 DEF RenderInv, Enter
    <2>2. /\ DOMAIN x = DOMAIN r /\ x.pc = "fetch" /\ x.req = r.req /\ x.codes = r.codes /\ x.results = r.results
          /\ x.stack = TakeJob(c) /\ x.job = <<NextJob(c)>>
      BY <1>2 DEF Doing
    <2>3. x.job[1] = NextJob(c)
      BY <2>2
    <2> HIDE DEF x
    <2>4. Doing(T, x)
      BY <1>2, <1>3, <2>2 DEF Doing
    <2>5. HandlerOK(conf, x)
      BY <1>0, <1>2, <1>3, <2>2, <2>3, <2>4 DEF HandlerOK, Owns, Doing
    <2> QED
      BY <1>0, <2>1, <2>5, HandlerMoves
  <1>6. CASE GiveUp(c)
    <2> DEFINE base == [r EXCEPT !.results.lost = TRUE]
               x == FetchFails(base, NextJob(c), 500, TakeJob(c))
    <2>1. rq' = [rq EXCEPT ![c] = x] /\ answer' = answer
      BY <1>6 DEF GiveUp
    <2>2. Doing(T, base) /\ base.results.lost = TRUE /\ base.req = r.req /\ base.codes = r.codes
      <3>1. /\ DOMAIN base = DOMAIN r /\ base.req = r.req /\ base.codes = r.codes /\ base.stack = r.stack
            /\ DOMAIN base.results = DOMAIN r.results /\ base.results.lost = TRUE
        BY <1>2 DEF Doing
      <3> HIDE DEF base
      <3> QED
        BY <1>2, <3>1 DEF Doing
    <2> HIDE DEF base
    <2>3. GoesOn(T, base, x) /\ (~NextJob(c).quiet => 500 \in x.codes)
      <3>1. 500 \in HandlerCodes
        BY DEF HandlerCodes
      <3> QED
        BY <1>3, <2>2, <3>1, FetchFailsKeeps
    <2>4. ASSUME StrictFor(conf) PROVE Excused(conf, x.codes)
      <3>1. ~NextJob(c).quiet
        BY <1>2, <1>3, <2>4, NoneTolerant DEF StrictFor
      <3>2. 500 \in x.codes
        BY <2>3, <3>1
      <3> HIDE DEF x
      <3> QED
        BY <3>2 DEF Excused
    <2> HIDE DEF x
    <2>5. HandlerOK(conf, x)
      BY <1>2, <2>2, <2>3, <2>4, GoesOnOK
    <2> QED
      BY <1>0, <2>1, <2>5, HandlerMoves
  <1> QED
    BY <1>4, <1>5, <1>6

LEMMA EvalMoves ==
  ASSUME RenderInv, NEW c \in Clients, Eval(c) \/ EvalPanics(c)
  PROVE  RenderInv'
  <1> DEFINE r == rq[c]
             T == conf.targets
  <1>0. /\ HandlerOK(conf, r) /\ r.pc = "eval" /\ conf \in Scenarios
        /\ RespOK(conf, respCache) /\ BackOK(conf, backCache) /\ WritesOK(conf, writes)
        /\ UNCHANGED <<conf, now, respCache, backCache, writes>>
    BY DEF RenderInv, Eval, EvalPanics
  <1>1. Doing(T, r) /\ r.req \in conf.requests /\ Owns(conf, r) /\ r.job[1] \in Works(T) /\ AllTargets(T)
    BY <1>0, ConfKnown DEF HandlerOK
  <1>2. CASE Eval(c)
    <2> DEFINE x == EvalJob(r, r.job[1], Top(c))
    <2>1. rq' = [rq EXCEPT ![c] = x] /\ answer' = answer
      BY <1>2 DEF Eval
    <2>2. GoesOn(T, r, x)
      BY <1>1, EvalKeeps
    <2> HIDE DEF x
    <2>3. HandlerOK(conf, x)
      BY <1>1, <2>2, GoesOnOK DEF Owns
    <2> QED
      BY <1>0, <2>1, <2>3, HandlerMoves
  <1>3. CASE EvalPanics(c)
    <2>1. Reply(c, 500, <<>>)
      BY <1>3 DEF EvalPanics
    <2>2. AnswerOK(conf, [code |-> 500, body |-> <<>>])
      BY FailureOK
    <2> QED
      BY <1>0, <2>1, <2>2, HandlerAnswers
  <1> QED
    BY <1>2, <1>3

(* What is written to memcached is as good as what is set. *)
LEMMA SetKeeps ==
  ASSUME NEW k, NEW cache, WritesOK(k, writes), NEW key, NEW value, NEW timeout
  PROVE  /\ BackOK(k, cache) /\ Uncut(k, value) => BackOK(k, Set(cache, key, value, timeout))
         /\ RespOK(k, cache) /\ Owned(k, value) => RespOK(k, Set(cache, key, value, timeout))
         /\ Uncut(k, value) => WritesOK(k, SetLater({Write("back", key, value, timeout)}))
         /\ Owned(k, value) => WritesOK(k, SetLater({Write("resp", key, value, timeout)}))
         /\ WritesOK(k, SetLater({}))
  <1>1. /\ BackOK(k, cache) /\ Uncut(k, value) => BackOK(k, Set(cache, key, value, timeout))
        /\ RespOK(k, cache) /\ Owned(k, value) => RespOK(k, Set(cache, key, value, timeout))
    BY PutKeeps DEF Set
  <1>2. ASSUME NEW w, WriteOK(k, w) PROVE WritesOK(k, SetLater({w}))
    <2>1. WritesOK(k, writes \cup {w})
      BY <1>2 DEF WritesOK
    <2>2. SetLater({w}) = writes \cup {w} \/ SetLater({w}) = writes
      BY DEF SetLater
    <2>3. CASE SetLater({w}) = writes \cup {w}
      BY <2>1, <2>3
    <2>4. CASE SetLater({w}) = writes
      BY <2>4
    <2> QED
      BY <2>2, <2>3, <2>4
  <1>3. Uncut(k, value) => WriteOK(k, Write("back", key, value, timeout))
    BY DEF Write, WriteOK
  <1>4. Owned(k, value) => WriteOK(k, Write("resp", key, value, timeout))
    BY DEF Write, WriteOK
  <1>5. SetLater({}) = writes
    BY DEF SetLater
  <1> QED
    BY <1>1, <1>2, <1>3, <1>4, <1>5, Zenon

LEMMA StoreMoves ==
  ASSUME RenderInv, NEW c \in Clients, StoreResults(c)
  PROVE  RenderInv'
  <1> DEFINE r == rq[c]
             store == r.codes = {} /\ r.backTimeout > 0
             x == [r EXCEPT !.pc = "reply"]
             w == Write("back", r.backKey, r.results, r.backTimeout)
             put == Set(backCache, r.backKey, r.results, r.backTimeout)
  <1>0. /\ HandlerOK(conf, r) /\ r.pc = "next" /\ BackOK(conf, backCache) /\ WritesOK(conf, writes)
        /\ UNCHANGED <<conf, now, answer, respCache>>
    BY DEF RenderInv, StoreResults
  <1>1. Doing(conf.targets, r) /\ r.req \in conf.requests /\ Owns(conf, r)
    BY <1>0 DEF HandlerOK
  <1>2. /\ rq' = [rq EXCEPT ![c] = x]
        /\ backCache' = IF store THEN put ELSE backCache
        /\ writes' = SetLater(IF store THEN {w} ELSE {})
    BY DEF StoreResults
  <1>3. store => Uncut(conf, r.results)
    BY <1>1 DEF Owns, Uncut, Excused
  <1>4. BackOK(conf, backCache') /\ WritesOK(conf, writes')
    <2>1. CASE store
      <3>1. backCache' = put /\ writes' = SetLater({w})
        BY <1>2, <2>1, Zenon
      <3> QED
        BY <1>0, <1>3, <2>1, <3>1, SetKeeps
    <2>2. CASE ~store
      <3>1. backCache' = backCache /\ writes' = SetLater({})
        BY <1>2, <2>2, Zenon
      <3>2. SetLater({}) = writes
        BY DEF SetLater
      <3> QED
        BY <1>0, <3>1, <3>2
    <2> QED
      BY <2>1, <2>2
  <1>5. DOMAIN x = DOMAIN r /\ x.pc = "reply" /\ x.req = r.req /\ x.codes = r.codes /\ x.results = r.results
    BY <1>1 DEF Doing
  <1> HIDE DEF x
  <1>6. HandlerOK(conf, x)
    BY <1>0, <1>1, <1>5 DEF HandlerOK, Owns, Doing
  <1> QED
    BY <1>0, <1>2, <1>4, <1>6, HandlerMoves

(* The status of a response that misses something is that of an error, or  *)
(* the handler stops at it. *)
LEMMA BodyOwned ==
  ASSUME NEW r, r.codes \subseteq HandlerCodes, Owns(conf, r), ~Stops(ReturnCode(r))
  PROVE  Owned(conf, Body(r))
  <1>1. Body(r).lost = r.results.lost /\ Body(r).first = ReturnCode(r)
    BY DEF Body
  <1> SUFFICES ASSUME StrictFor(conf), r.results.lost PROVE ReturnCode(r) >= 400
    BY <1>1 DEF Owned
  <1> DEFINE codes == r.codes
  <1>2. conf.rsa /\ Excused(conf, codes)
    BY DEF Owns, StrictFor, AsksAll
  <1>3. codes \in SUBSET (1..503) /\ \A x \in codes : x >= 400
    BY DEF HandlerCodes
  <1> HIDE DEF codes
  <1> DEFINE merged == MergedCode(codes)
  <1>4. (merged = 404 \/ merged \in codes) /\ (merged = 404 => codes \subseteq {404})
    BY <1>3, MergedIs
  <1>5. ReturnCode(r) = IF merged = 404 THEN conf.notFound ELSE merged
    BY <1>2 DEF ReturnCode, Excused, codes
  <1> HIDE DEF merged
  <1>6. merged # 404
    BY <1>2, <1>4, <1>5 DEF Excused
  <1> QED
    BY <1>3, <1>4, <1>5, <1>6

LEMMA RespondMoves ==
  ASSUME RenderInv, NEW c \in Clients, Respond(c)
  PROVE  RenderInv'
  <1> DEFINE r == rq[c]
             code == ReturnCode(r)
             store == ~Stops(code) /\ ~NoResults(r)
             w == Write("resp", r.respKey, Body(r), r.respTimeout)
             put == Set(respCache, r.respKey, Body(r), r.respTimeout)
             body == IF Stops(code) THEN <<>> ELSE Body(r)
  <1>0. /\ HandlerOK(conf, r) /\ r.pc = "reply" /\ RespOK(conf, respCache) /\ WritesOK(conf, writes)
        /\ UNCHANGED <<conf, now, backCache>>
    BY DEF RenderInv, Respond
  <1>1. r.codes \subseteq HandlerCodes /\ Owns(conf, r)
    BY <1>0 DEF HandlerOK
  <1>2. /\ Reply(c, code, body)
        /\ respCache' = IF store THEN put ELSE respCache
        /\ writes' = SetLater(IF store THEN {w} ELSE {})
    BY DEF Respond
  <1>3. ~Stops(code) => Owned(conf, Body(r))
    BY <1>1, BodyOwned
  <1>4. ~Stops(200)
    BY DEF Stops
  <1> HIDE DEF r
  <1>6. AnswerOK(conf, [code |-> code, body |-> body])
    <2> DEFINE a == [code |-> code, body |-> body]
    <2>1. a.code = code /\ a.body = body
      OBVIOUS
    <2>2. ~Stops(code) => body = Body(r)
      OBVIOUS
    <2> HIDE DEF a, code, body
    <2>3. AnswerOK(conf, a)
      BY <1>3, <1>4, <2>1, <2>2 DEF AnswerOK
    <2> QED
      BY <2>3 DEF a
  <1> HIDE DEF code, body
  <1>7. RespOK(conf, respCache') /\ WritesOK(conf, writes')
    <2>1. CASE store
      <3>1. respCache' = put /\ writes' = SetLater({w})
        BY <1>2, <2>1, Zenon
      <3> QED
        BY <1>0, <1>3, <2>1, <3>1, SetKeeps
    <2>2. CASE ~store
      <3>1. respCache' = respCache /\ writes' = SetLater({})
        BY <1>2, <2>2, Zenon
      <3>2. SetLater({}) = writes
        BY DEF SetLater
      <3> QED
        BY <1>0, <3>1, <3>2
    <2> QED
      BY <2>1, <2>2
  <1> QED
    BY <1>0, <1>2, <1>6, <1>7, HandlerAnswers

(* A write arrives at memcached. *)
LEMMA LandMoves ==
  ASSUME RenderInv, NEW w \in writes, Land(w)
  PROVE  RenderInv'
  <1>1. /\ RespOK(conf, respCache) /\ BackOK(conf, backCache) /\ WritesOK(conf, writes) /\ WriteOK(conf, w)
        /\ UNCHANGED <<conf, now, rq, answer>> /\ writes' = writes \ {w}
    BY DEF RenderInv, Land, WritesOK
  <1>2. /\ w.which = "resp" => RespOK(conf, Put(respCache, w.key, w.value, w.timeout))
        /\ w.which = "back" => BackOK(conf, Put(backCache, w.key, w.value, w.timeout))
    BY <1>1, PutKeeps DEF WriteOK
  <1>3. /\ respCache' = IF w.which = "resp" THEN Put(respCache, w.key, w.value, w.timeout) ELSE respCache
        /\ backCache' = IF w.which = "back" THEN Put(backCache, w.key, w.value, w.timeout) ELSE backCache
    BY DEF Land
  <1>4. RespOK(conf, respCache')
    BY <1>1, <1>2, <1>3
  <1>5. BackOK(conf, backCache')
    BY <1>1, <1>2, <1>3
  <1>6. WritesOK(conf, writes')
    BY <1>1 DEF WritesOK
  <1> QED
    BY <1>1, <1>4, <1>5, <1>6 DEF RenderInv

(* The invariant of the render handlers. *)
LEMMA RenderInvariant == Spec => []RenderInv
  <1>1. Init => RenderInv
    <2> SUFFICES ASSUME Init PROVE RenderInv
      OBVIOUS
    <2>1. conf \in Scenarios /\ now \in Int /\ DOMAIN rq = Clients /\ DOMAIN answer = Clients
      BY RenderAssumption DEF Init
    <2>2. \A c \in Clients : HandlerOK(conf, rq[c])
      BY IdleOK DEF Init
    <2>3. \A c \in Clients : AnswerOK(conf, answer[c])
      BY DEF Init, AnswerOK
    <2>4. RespOK(conf, respCache) /\ BackOK(conf, backCache) /\ WritesOK(conf, writes)
      BY DEF Init, Empty, RespOK, BackOK, WritesOK
    <2> QED
      BY <2>1, <2>2, <2>3, <2>4 DEF RenderInv
  <1>2. RenderInv /\ [Next]_vars => RenderInv'
    <2> SUFFICES ASSUME RenderInv, [Next]_vars PROVE RenderInv'
      OBVIOUS
    <2>1. ASSUME NEW c \in Clients,
                 (\E req \in conf.requests : Send(c, req)) \/ Handle(c) \/ Enter(c) \/ GiveUp(c)
          PROVE  RenderInv'
      BY <2>1, FirstMoves, LookupMoves, JobMoves, FetchMoves, EvalMoves, StoreMoves, RespondMoves DEF Handle
    <2>2. ASSUME NEW w \in writes, Land(w) PROVE RenderInv'
      BY <2>2, LandMoves
    <2>3. CASE Tick
      BY <2>3 DEF Tick, RenderInv
    <2>4. CASE UNCHANGED vars
      BY <2>4 DEF vars, RenderInv
    <2> QED
      BY <2>1, <2>2, <2>3, <2>4 DEF Next
  <1> QED
    BY <1>1, <1>2, PTL DEF Spec

(* RequireSuccessAll for any clients, requests, backends and faults: where *)
(* failures are not hidden, an answer with status 200 misses no series,    *)
(* whichever cache it came through, unless it was sent with the status of  *)
(* an error the handler does not stop at before; and stored results miss   *)
(* none. *)
THEOREM SuccessIsComplete == Spec => []SuccessAllComplete
  <1>1. RenderInv => SuccessAllComplete
    BY StrictIs DEF RenderInv, AnswerOK, SuccessAllComplete, Owned, BackOK, Uncut
  <1> QED
    BY <1>1, RenderInvariant, PTL

(* Series are filed under the interval the backend was asked for, through  *)
(* any nesting of fetches and evaluations. *)
THEOREM SeriesFiledRight == Spec => []FiledRight
  <1>1. RenderInv => FiledRight
    <2> SUFFICES ASSUME RenderInv, NEW c \in Clients, rq[c].pc = "eval"
                 PROVE  \A e \in Top(c).values : e.sure => e.key.span = e.span
      BY DEF FiledRight
    <2>1. StackOK(conf.targets, rq[c].stack)
      BY DEF RenderInv, HandlerOK, Doing
    <2>2. FrameOK(conf.targets, Last(rq[c].stack))
      BY <2>1, StackParts
    <2> QED
      BY <2>2 DEF FrameOK, Top
  <1> QED
    BY <1>1, RenderInvariant, PTL

(* For any expressions: what the functions look up was fetched. *)
THEOREM LookupsAreFetched == Spec => []LookupsFetched
  <1>1. RenderInv => LookupsFetched
    <2> SUFFICES ASSUME RenderInv, NEW c \in Clients, rq[c].pc = "eval",
                        NEW j \in DOMAIN rq[c].job[1].exprs,
                        NEW a \in Range(rq[c].job[1].exprs[j].args),
                        Agrees(a.fs, rq[c].job[1].span),
                        NEW l \in Lookups(a.fs, rq[c].job[1].span)
                 PROVE  Request(a.name, l) \in Top(c).keys
      BY DEF LookupsFetched
    <2> DEFINE job == rq[c].job[1]
               args == Arguments(job)
    <2>1. /\ conf \in Scenarios /\ job \in Works(conf.targets)
          /\ \E known : Last(rq[c].stack).keys = Plan(args, job.span, known).wanted
      BY DEF RenderInv, HandlerOK
    <2>2. PICK known : Top(c).keys = Plan(args, job.span, known).wanted
      BY <2>1 DEF Top
    <2>3. GoodArgs(args) /\ job.span \in Spans
      BY <2>1, ConfKnown, ArgumentsGood, WorkParts
    <2>4. PICK k \in DOMAIN job.exprs[j].args : a = job.exprs[j].args[k]
      BY DEF Range
    <2>5. j \in DOMAIN args /\ args[j] = job.exprs[j].args
      BY DEF Arguments
    <2>6. GoodArg(a)
      BY <2>3, <2>4, <2>5 DEF GoodArgs
    <2>7. l \in Range(Metrics(a.fs, job.span))
      BY <2>3, <2>6, MetricsCover DEF GoodArg
    <2> HIDE DEF args
    <2>8. Request(a.name, l) \in Range(RequestsOf(args, job.span))
      BY <2>3, <2>4, <2>5, <2>7, RequestsCover
    <2>9. Range(RequestsOf(args, job.span)) \subseteq Plan(args, job.span, known).wanted
      BY <2>3, PlanKeeps
    <2> QED
      BY <2>2, <2>8, <2>9
  <1> QED
    BY <1>1, RenderInvariant, PTL

-----------------------------------------------------------------------------
(* The handler implements the render service.                              *)

(* The keys of the caches and what a target may be rewritten to, in        *)
(* configuration k. *)
RKey(k, req, span) ==
  IF k.truncate # 0
  THEN [span |-> span, targets |-> req.targets, format |-> req.format, points |-> req.points]
  ELSE [from |-> req.from, until |-> req.until, tz |-> req.tz, targets |-> req.targets,
        format |-> req.format, points |-> req.points, view |-> req.view,
        cacheTimeout |-> req.cacheTimeout]

BKey(k, req, span) ==
  IF k.truncate # 0
  THEN [span |-> span, targets |-> TargetsOf(req), points |-> req.points]
  ELSE [from |-> req.from, until |-> req.until, targets |-> TargetsOf(req), points |-> req.points]

ClosedIn(S) == \A t \in S : Range(t.then) \subseteq S
RewritesOf(k, e) == {t \in k.targets : \A S \in SUBSET k.targets : e \in S /\ ClosedIn(S) => t \in S}
NamesOf(k, e) == UNION {{a.name : a \in Range(t.args)} : t \in RewritesOf(k, e)}

TimeoutsOf(k, policy) ==
  {0, policy.normal, policy.short} \cup {r.cacheTimeout[1] : r \in {q \in k.requests : q.cacheTimeout # <<>>}}

(* How old an entry may be that is stored with a timeout. *)
Age(k, timeout) == timeout + Latency + (IF k.cache = "memcached" THEN Lag ELSE 0)

NoForever(k) ==
  k.cache = "memcached" => k.resp.normal # 0 /\ \A r \in k.requests : ~r.noCache /\ r.cacheTimeout # <<0>>

(* An expression and a job that belong to target e0, to the targets tg. *)
ExprFor(k, e0, e) ==
  {a.name : a \in Range(e.args)} \subseteq NamesOf(k, e0) /\ Range(e.then) \subseteq RewritesOf(k, e0)

JobFor(k, tg, j) ==
  \A n \in DOMAIN j.exprs : j.of[n] \in DOMAIN tg /\ ExprFor(k, tg[j.of[n]], j.exprs[n])

JobsIn(st) == UNION {Range(st[n].jobs) : n \in DOMAIN st}
ValuesIn(st) == UNION {st[n].values : n \in DOMAIN st}

(* A series that was fetched, and series that were found for the targets   *)
(* tg, at a time from low to high. *)
EntryFor(low, high, e) == e.name = e.key.name /\ e.at \in low..high

FoundOK(k, tg, low, high, found) ==
  \A i \in DOMAIN found :
    i \in DOMAIN tg /\ \A s \in found[i] : s.at \in low..high /\ s.name \in NamesOf(k, tg[i])

(* The results of a request with this key. *)
ResultsFrom(k, key, low, high, v, o, t) ==
  /\ o \in k.requests /\ t \in low..high
  /\ key = BKey(k, o, SpanOf(k, o, t))
  /\ v.targets = TargetsOf(o) /\ v.points = o.points /\ v.span = SpanOf(k, o, t)
  /\ FoundOK(k, TargetsOf(o), low, high, v.found)

ResultsOK(k, key, low, high, v) == \E o, t : ResultsFrom(k, key, low, high, v, o, t)

RespTimeout(k, timeout) ==
  timeout \in TimeoutsOf(k, k.resp) /\ (NoForever(k) /\ k.cache = "memcached" => timeout # 0)

(* A request at work at the time at: what was computed when it was         *)
(* admitted, and its own jobs, series and results. *)
Admitted(k, at, r) ==
  /\ {"span", "respKey", "backKey", "respTimeout", "backTimeout", "results"} \subseteq DOMAIN r
  /\ \E t \in r.since..at : r.respKey = RKey(k, r.req, FormSpan(k, r.req, t)) /\ r.span = SpanOf(k, r.req, t)
  /\ r.backKey = BKey(k, r.req, r.span)
  /\ r.backTimeout \in TimeoutsOf(k, k.back) /\ RespTimeout(k, r.respTimeout)

StackFor(k, tg, low, high, st) ==
  /\ \A j \in JobsIn(st) : JobFor(k, tg, j)
  /\ \A e \in ValuesIn(st) : EntryFor(low, high, e)

OwnWork(k, at, r) ==
  /\ {"targets", "points", "span"} \subseteq DOMAIN r.results
  /\ r.results.targets = TargetsOf(r.req) /\ r.results.points = r.req.points /\ r.results.span = r.span
  /\ FoundOK(k, TargetsOf(r.req), r.since, at, r.results.found)
  /\ StackFor(k, TargetsOf(r.req), r.since, at, r.stack)

Open(at, r) ==
  {"req", "since"} \subseteq DOMAIN r /\ r.since \in Int /\ r.since <= at /\ at <= r.since + Latency

HandlerFor(k, at, r) ==
  /\ r.pc # "idle" => Open(at, r)
  /\ r.pc \in {"lookup", "next", "fetch", "eval", "reply"} => Admitted(k, at, r)
  /\ r.pc \in {"lookup", "next", "fetch", "eval"} => OwnWork(k, at, r)
  /\ r.pc \in {"fetch", "eval"} => JobFor(k, TargetsOf(r.req), r.job[1])
  /\ r.pc = "reply" =>
       \E b \in TimeoutsOf(k, k.back) : ResultsOK(k, r.backKey, r.since - Age(k, b), at, r.results)

(* What is stored under a key: results that were asked for at s, and an    *)
(* answer. *)
BackFrom(k, at, key, v, s) == s \in Int /\ s <= at /\ ResultsOK(k, key, s, at, v)

RespFrom(k, at, key, v, s) ==
  /\ s \in Int /\ s <= at
  /\ \E q \in k.requests : \E t \in s..at : \E b \in TimeoutsOf(k, k.back) :
       /\ key = RKey(k, q, FormSpan(k, q, t))
       /\ v.format = q.format /\ v.view = q.view
       /\ ResultsOK(k, BKey(k, q, SpanOf(k, q, t)), s - Age(k, b), at, v)

Until(till, last) == till # Forever => till[1] \in Int /\ till[1] <= last

BackEntry(k, at, key, e) ==
  \E s \in Int : \E b \in TimeoutsOf(k, k.back) :
    BackFrom(k, at, key, e.value, s) /\ e.till # Forever /\ Until(e.till, s + Age(k, b))

RespEntry(k, at, key, e) ==
  \E s \in Int : \E a \in TimeoutsOf(k, k.resp) :
    /\ RespFrom(k, at, key, e.value, s)
    /\ NoForever(k) => e.till # Forever
    /\ Until(e.till, s + Age(k, a))

WriteFor(k, at, w) ==
  /\ k.cache = "memcached"
  /\ w.since \in Int /\ w.since <= at /\ at <= w.since + Lag
  /\ w.which = "back" =>
       /\ w.timeout \in TimeoutsOf(k, k.back) /\ w.timeout > 0
       /\ \E s \in Int : BackFrom(k, at, w.key, w.value, s) /\ w.since <= s + Latency
  /\ w.which = "resp" =>
       /\ RespTimeout(k, w.timeout)
       /\ \E s \in Int : RespFrom(k, at, w.key, w.value, s) /\ w.since <= s + Latency

BackFor(k, at, cache) == \A key \in DOMAIN cache : BackEntry(k, at, key, cache[key])
RespFor(k, at, cache) == \A key \in DOMAIN cache : RespEntry(k, at, key, cache[key])
WritesFor(k, at, ws) == \A w \in ws : WriteFor(k, at, w)

TimesInv ==
  /\ \A c \in Clients : HandlerFor(conf, now, rq[c])
  /\ BackFor(conf, now, backCache) /\ RespFor(conf, now, respCache)
  /\ WritesFor(conf, now, writes)

(* The operators of the service are those of the handler. *)
LEMMA ServiceEpoch ==
  ASSUME NEW time, NEW tz, NEW at, NEW default
  PROVE  Service!Epoch(time, tz, at, default) = Epoch(time, tz, at, default)
  BY DEF Service!Epoch, Epoch

LEMMA ServiceSpans ==
  ASSUME NEW k, NEW req, NEW at
  PROVE  /\ Service!TargetsOf(req) = TargetsOf(req)
         /\ Service!HasBody(req) = HasBody(req)
         /\ Service!SpanOf(k, req, at) = SpanOf(k, req, at)
  <1>1. Service!TargetsOf(req) = TargetsOf(req) /\ Service!HasBody(req) = HasBody(req)
    BY DEF Service!TargetsOf, Service!HasBody, TargetsOf, HasBody
  <1>2. Service!Raw(req, at) = Raw(req, at)
    BY ServiceEpoch DEF Service!Raw, Service!Span, Raw, Span
  <1>3. ASSUME NEW t, NEW d PROVE Service!Truncate(k, t, d) = Truncate(k, t, d)
    BY DEF Service!Truncate, Truncate
  <1>4. Service!FormSpan(k, req, at) = FormSpan(k, req, at)
    BY <1>2, <1>3 DEF Service!FormSpan, Service!Span, FormSpan, Span
  <1> QED
    BY <1>1, <1>4 DEF Service!SpanOf, SpanOf

LEMMA ServiceNames ==
  ASSUME NEW e
  PROVE  Service!Names(e) = NamesOf(conf, e)
  <1>1. ASSUME NEW s PROVE Service!Range(s) = Range(s)
    BY DEF Service!Range, Range
  <1>2. ASSUME NEW S PROVE Service!Closed(S) = ClosedIn(S)
    BY <1>1 DEF Service!Closed, ClosedIn
  <1>3. Service!Reached(e) = RewritesOf(conf, e)
    BY <1>2 DEF Service!Reached, RewritesOf
  <1> QED
    BY <1>1, <1>3 DEF Service!Names, NamesOf

LEMMA ServiceTimeouts ==
  ASSUME NEW policy
  PROVE  Service!Timeouts(policy) = TimeoutsOf(conf, policy)
  BY DEF Service!Timeouts, TimeoutsOf

(* What an abstract answer is, for any low end of its times. *)
Shows(k, low, at, req, body) ==
  /\ body.targets = TargetsOf(req)
  /\ body.format = req.format /\ body.points = req.points /\ body.view = req.view
  /\ \E t \in low..at : body.span = SpanOf(k, req, t)
  /\ \A i \in DOMAIN body.found : \A s \in body.found[i] :
       s.at \in low..at /\ s.name \in NamesOf(k, TargetsOf(req)[i])

LEMMA ServiceShows ==
  ASSUME NEW req, NEW body, NEW since \in Int, NEW low \in Int, now \in Int,
         NEW a \in TimeoutsOf(conf, conf.resp), NEW b \in TimeoutsOf(conf, conf.back), a \in Int, b \in Int,
         Shows(conf, low, now, req, body), since - (a + b + Service!Delay) <= low
  PROVE  Service!Snapshot(req, since, body)
  <1> DEFINE age == a + b + Service!Delay
  <1>1. Service!Delay \in Int
    BY RenderAssumption DEF Service!Delay
  <1>2. age \in Service!Ages
    BY ServiceTimeouts DEF Service!Ages
  <1> HIDE DEF age
  <1>3. age \in Int /\ since - age <= low
    BY <1>1 DEF age
  <1>4. \A t \in low..now : t \in (since - age)..now
    BY <1>3
  <1>5. PICK t \in low..now : body.span = SpanOf(conf, req, t)
    BY DEF Shows
  <1>6. \E x \in Service!Ages : \E u \in (since - x)..now : body.span = Service!SpanOf(conf, req, u)
    BY <1>2, <1>4, <1>5, ServiceSpans
  <1>7. ASSUME NEW i \in DOMAIN body.found, NEW s \in body.found[i]
        PROVE  /\ \E x \in Service!Ages : s.at \in (since - x)..now
               /\ s.name \in Service!Names(Service!TargetsOf(req)[i])
    <2>1. s.at \in low..now /\ s.name \in NamesOf(conf, TargetsOf(req)[i])
      BY DEF Shows
    <2>2. Service!TargetsOf(req) = TargetsOf(req)
      BY ServiceSpans
    <2> QED
      BY <1>2, <1>4, <2>1, <2>2, ServiceNames
  <1>8. body.targets = Service!TargetsOf(req) /\ body.format = req.format /\ body.points = req.points /\ body.view = req.view
    BY ServiceSpans DEF Shows
  <1> QED
    BY <1>6, <1>7, <1>8, Zenon DEF Service!Snapshot

(* Requests that the keys of the caches tell apart. *)
ToldIn(k, req, r) ==
  /\ ~HasBody(req) /\ ~HasBody(r)
  /\ req.tz = r.tz \/ "local" \notin {req.from.kind, req.until.kind}
  /\ k.truncate = 0 \/ req.view = r.view
  /\ k.cache = "memcached" => k.resp.normal # 0 /\ ~r.noCache /\ r.cacheTimeout # <<0>>

AllTold(k, req) == \A r \in k.requests : ToldIn(k, req, r)

LEMMA ServiceTold ==
  ASSUME NEW req
  PROVE  Service!Determined(req) = AllTold(conf, req)
  <1>1. ASSUME NEW r PROVE Service!Told(req, r) = ToldIn(conf, req, r)
    BY ServiceSpans DEF Service!Told, ToldIn
  <1> QED
    BY <1>1 DEF Service!Determined, AllTold

(* Requests with the same times have the same interval. *)
LEMMA SameSpan ==
  ASSUME NEW k, NEW req, NEW o, NEW t, req.from = o.from, req.until = o.until,
         req.tz = o.tz \/ "local" \notin {req.from.kind, req.until.kind}
  PROVE  FormSpan(k, o, t) = FormSpan(k, req, t)
  <1>1. ASSUME NEW d PROVE Epoch(o.from, o.tz, t, d) = Epoch(req.from, req.tz, t, d)
    BY DEF Epoch
  <1>2. ASSUME NEW d PROVE Epoch(o.until, o.tz, t, d) = Epoch(req.until, req.tz, t, d)
    BY DEF Epoch
  <1>3. Raw(o, t) = Raw(req, t)
    BY <1>1, <1>2 DEF Raw
  <1> QED
    BY <1>3 DEF FormSpan

LEMMA ResponseKeys ==
  ASSUME NEW k, NEW q, NEW req, NEW s, NEW u, RKey(k, q, s) = RKey(k, req, u)
  PROVE  /\ q.targets = req.targets /\ q.format = req.format /\ q.points = req.points
         /\ k.truncate # 0 => s = u
         /\ k.truncate = 0 => q.from = req.from /\ q.until = req.until /\ q.tz = req.tz /\ q.view = req.view
  BY DEF RKey

LEMMA BackendKeys ==
  ASSUME NEW k, NEW q, NEW req, NEW s, NEW u, BKey(k, q, s) = BKey(k, req, u)
  PROVE  /\ TargetsOf(q) = TargetsOf(req) /\ q.points = req.points
         /\ k.truncate # 0 => s = u
         /\ k.truncate = 0 => q.from = req.from /\ q.until = req.until
  BY DEF BKey

(* Results under the key of a request whose answers have the key of        *)
(* request req show req. *)
LEMMA KeysShow ==
  ASSUME NEW k, NEW req \in k.requests, AllTold(k, req), NEW q \in k.requests, NEW t, NEW low, NEW at, NEW v, NEW u,
         RKey(k, q, FormSpan(k, q, t)) = RKey(k, req, FormSpan(k, req, u)), u \in low..at,
         v.format = q.format, v.view = q.view,
         ResultsOK(k, BKey(k, q, SpanOf(k, q, t)), low, at, v)
  PROVE  Shows(k, low, at, req, v)
  <1>1. PICK o, x : ResultsFrom(k, BKey(k, q, SpanOf(k, q, t)), low, at, v, o, x)
    BY DEF ResultsOK
  <1>2. /\ o \in k.requests /\ x \in low..at
        /\ BKey(k, q, SpanOf(k, q, t)) = BKey(k, o, SpanOf(k, o, x))
        /\ v.targets = TargetsOf(o) /\ v.points = o.points /\ v.span = SpanOf(k, o, x)
        /\ FoundOK(k, TargetsOf(o), low, at, v.found)
    BY <1>1 DEF ResultsFrom
  <1>3. /\ q.targets = req.targets /\ q.format = req.format /\ q.points = req.points
        /\ k.truncate # 0 => FormSpan(k, q, t) = FormSpan(k, req, u)
        /\ k.truncate = 0 => q.from = req.from /\ q.until = req.until /\ q.tz = req.tz /\ q.view = req.view
    BY ResponseKeys
  <1>4. /\ TargetsOf(q) = TargetsOf(o) /\ q.points = o.points
        /\ k.truncate # 0 => SpanOf(k, q, t) = SpanOf(k, o, x)
        /\ k.truncate = 0 => q.from = o.from /\ q.until = o.until
    BY <1>2, BackendKeys
  <1>5. ToldIn(k, req, q) /\ ToldIn(k, req, o)
    BY <1>2 DEF AllTold
  <1>6. TargetsOf(q) = q.targets /\ TargetsOf(req) = req.targets
    BY <1>5 DEF ToldIn, TargetsOf
  <1>7. \A y : SpanOf(k, q, y) = FormSpan(k, q, y) /\ SpanOf(k, o, y) = FormSpan(k, o, y) /\ SpanOf(k, req, y) = FormSpan(k, req, y)
    BY <1>5 DEF ToldIn, SpanOf
  <1>8. v.targets = TargetsOf(req) /\ v.points = req.points /\ v.format = req.format
    BY <1>2, <1>3, <1>4, <1>6
  <1>9. v.view = req.view
    BY <1>3, <1>5 DEF ToldIn
  <1>10. \E y \in low..at : v.span = SpanOf(k, req, y)
    <2>1. CASE k.truncate # 0
      <3>1. v.span = SpanOf(k, req, u)
        BY <1>2, <1>3, <1>4, <1>7, <2>1
      <3> QED
        BY <3>1
    <2>2. CASE k.truncate = 0
      <3>1. req.from = o.from /\ req.until = o.until
        BY <1>3, <1>4, <2>2
      <3>2. FormSpan(k, o, x) = FormSpan(k, req, x)
        BY <1>5, <3>1, SameSpan DEF ToldIn
      <3> QED
        BY <1>2, <1>7, <3>2
    <2> QED
      BY <2>1, <2>2
  <1>11. ASSUME NEW i \in DOMAIN v.found, NEW s \in v.found[i]
         PROVE  s.at \in low..at /\ s.name \in NamesOf(k, TargetsOf(req)[i])
    <2>1. s.at \in low..at /\ s.name \in NamesOf(k, TargetsOf(o)[i])
      BY <1>2 DEF FoundOK
    <2>2. TargetsOf(o) = TargetsOf(req)
      BY <1>2, <1>8
    <2> QED
      BY <2>1, <2>2
  <1> QED
    BY <1>8, <1>9, <1>10, <1>11 DEF Shows

(* What a change of the stack adds to its jobs and series. *)
LEMMA UnwindWithin ==
  ASSUME NEW T, NEW st, StackOK(T, st)
  PROVE  JobsIn(Unwind(st)) \subseteq JobsIn(st) /\ ValuesIn(Unwind(st)) \subseteq ValuesIn(st)
  <1> DEFINE n == Len(st)
             tops == {1} \cup {k \in DOMAIN st : st[k].jobs # <<>>}
             m == Max(tops)
             new == SubSeq(st, 1, m)
  <1>1. n \in Nat \ {0} /\ DOMAIN st = 1..n
    BY StackParts
  <1>2. tops \in SUBSET (1..n) /\ tops # {} /\ n \in Nat
    BY <1>1
  <1>3. m \in 1..n
    BY <1>2, MaxMin
  <1> HIDE DEF m
  <1>4. st \in Seq(Range(st))
    BY DEF StackOK
  <1>5. DOMAIN new = 1..m /\ \A k \in 1..m : new[k] = st[k] /\ k \in DOMAIN st
    BY <1>1, <1>3, <1>4
  <1>6. new = Unwind(st)
    BY DEF new, m, Unwind
  <1> HIDE DEF new
  <1>7. JobsIn(new) \subseteq JobsIn(st)
    BY <1>5 DEF JobsIn
  <1>8. ValuesIn(new) \subseteq ValuesIn(st)
    BY <1>5 DEF ValuesIn
  <1> QED
    BY <1>6, <1>7, <1>8

(* Two stacks that differ in their jobs. *)
LEMMA StacksWithin ==
  ASSUME NEW st, NEW new, DOMAIN new = DOMAIN st, NEW J,
         \A k \in DOMAIN st : new[k].values = st[k].values /\ Range(new[k].jobs) \subseteq Range(st[k].jobs) \cup J
  PROVE  JobsIn(new) \subseteq JobsIn(st) \cup J /\ ValuesIn(new) = ValuesIn(st)
  <1>1. JobsIn(new) \subseteq JobsIn(st) \cup J
    BY DEF JobsIn
  <1>2. ValuesIn(new) = ValuesIn(st)
    BY DEF ValuesIn
  <1> QED
    BY <1>1, <1>2

LEMMA OtherWithin ==
  ASSUME NEW T, NEW st, StackOK(T, st), NEW jobs
  PROVE  /\ JobsIn([st EXCEPT ![Len(st)].jobs = jobs]) \subseteq JobsIn(st) \cup Range(jobs)
         /\ ValuesIn([st EXCEPT ![Len(st)].jobs = jobs]) = ValuesIn(st)
  <1> DEFINE n == Len(st)
             new == [st EXCEPT ![n].jobs = jobs]
  <1>1. n \in DOMAIN st /\ DOMAIN st[n] = {"keys", "values", "jobs"}
    BY StackParts DEF StackOK, FrameOK
  <1>2. DOMAIN new = DOMAIN st /\ \A k \in DOMAIN st : new[k] = IF k = n THEN [st[n] EXCEPT !.jobs = jobs] ELSE st[k]
    BY <1>1
  <1> HIDE DEF new, n
  <1>3. ASSUME NEW k \in DOMAIN st
        PROVE  new[k].values = st[k].values /\ Range(new[k].jobs) \subseteq Range(st[k].jobs) \cup Range(jobs)
    <2>1. CASE k = n
      <3>1. new[k].values = st[k].values /\ new[k].jobs = jobs
        BY <1>1, <1>2, <2>1
      <3> QED
        BY <3>1
    <2>2. CASE k # n
      BY <1>2, <2>2
    <2> QED
      BY <2>1, <2>2
  <1>4. JobsIn(new) \subseteq JobsIn(st) \cup Range(jobs) /\ ValuesIn(new) = ValuesIn(st)
    BY <1>2, <1>3, StacksWithin
  <1> QED
    BY <1>4 DEF new, n

(* The job on top, and the stack without it. *)
LEMMA TakenWithin ==
  ASSUME NEW T, NEW st, StackOK(T, st), Last(st).jobs # <<>>
  PROVE  /\ Head(Last(st).jobs) \in JobsIn(st)
         /\ JobsIn([st EXCEPT ![Len(st)].jobs = Tail(@)]) \subseteq JobsIn(st)
         /\ ValuesIn([st EXCEPT ![Len(st)].jobs = Tail(@)]) = ValuesIn(st)
  <1> DEFINE n == Len(st)
             js == st[n].jobs
             rest == Tail(js)
  <1>1. n \in DOMAIN st /\ Last(st) = st[n] /\ js \in Seq(Works(T)) /\ js # <<>>
    BY StackParts DEF FrameOK
  <1>2. Range(js) \subseteq JobsIn(st)
    <2> HIDE DEF n
    <2> QED
      BY <1>1 DEF JobsIn
  <1>3. Head(js) \in Range(js) /\ Range(rest) \subseteq Range(js)
    <2> HIDE DEF js
    <2>1. Head(js) = js[1] /\ 1 \in DOMAIN js
      BY <1>1
    <2>2. \A i \in DOMAIN rest : rest[i] = js[i + 1] /\ i + 1 \in DOMAIN js
      BY <1>1
    <2> QED
      BY <2>1, <2>2 DEF Range
  <1>4. [st EXCEPT ![Len(st)].jobs = Tail(@)] = [st EXCEPT ![Len(st)].jobs = rest]
    OBVIOUS
  <1> HIDE DEF rest
  <1>5. /\ JobsIn([st EXCEPT ![Len(st)].jobs = rest]) \subseteq JobsIn(st) \cup Range(rest)
        /\ ValuesIn([st EXCEPT ![Len(st)].jobs = rest]) = ValuesIn(st)
    BY OtherWithin
  <1> QED
    BY <1>1, <1>2, <1>3, <1>4, <1>5

LEMMA WithoutWithin ==
  ASSUME NEW T, NEW st, StackOK(T, st), NEW job, NEW stop
  PROVE  JobsIn(Without(job, st, stop)) \subseteq JobsIn(st) /\ ValuesIn(Without(job, st, stop)) = ValuesIn(st)
  <1> DEFINE new == Without(job, st, stop)
             Left(js) == FlattenSeq([i \in DOMAIN js |-> IF js[i].of # job.of THEN <<js[i]>> ELSE <<>>])
  <1>1. DOMAIN new = DOMAIN st
    BY DEF Without
  <1>2. ASSUME NEW k \in DOMAIN st
        PROVE  new[k] = [st[k] EXCEPT !.jobs = IF stop THEN <<>> ELSE Left(st[k].jobs)]
    BY DEF Without
  <1>3. ASSUME NEW k \in DOMAIN st
        PROVE  new[k].values = st[k].values /\ Range(new[k].jobs) \subseteq Range(st[k].jobs) \cup {}
    <2>1. FrameOK(T, st[k])
      BY DEF StackOK
    <2> DEFINE js == st[k].jobs
               left2 == IF stop THEN <<>> ELSE Left(js)
    <2>2. js \in Seq(Range(js)) /\ DOMAIN st[k] = {"keys", "values", "jobs"}
      BY <2>1, OwnElements DEF FrameOK
    <2>3. left2 \in Seq(Range(js))
      <3> HIDE DEF js
      <3>1. Left(js) \in Seq(Range(js))
        BY <2>2, JobsLeft
      <3> HIDE DEF Left
      <3> QED
        BY <3>1
    <2>4. new[k] = [st[k] EXCEPT !.jobs = left2]
      BY <1>2
    <2> HIDE DEF left2, new
    <2>5. new[k].values = st[k].values /\ new[k].jobs = left2
      BY <2>2, <2>4
    <2>6. Range(left2) \subseteq Range(js)
      <3> HIDE DEF js
      <3> QED
        BY <2>3 DEF Range
    <2> QED
      BY <2>5, <2>6
  <1> HIDE DEF new
  <1>4. JobsIn(new) \subseteq JobsIn(st) \cup {} /\ ValuesIn(new) = ValuesIn(st)
    BY <1>1, <1>3, StacksWithin
  <1> QED
    BY <1>4 DEF new

(* Series are added to the map on top and a map of some of them is put     *)
(* over it. *)
LEMMA FetchedWithin ==
  ASSUME NEW T, NEW st, StackOK(T, st), NEW values, NEW keys, NEW wanted, NEW mine \in SUBSET values
  PROVE  LET new == Append([st EXCEPT ![Len(st)].values = values, ![Len(st)].keys = keys], Frame(wanted, mine, <<>>)) IN
         JobsIn(new) \subseteq JobsIn(st) /\ ValuesIn(new) \subseteq ValuesIn(st) \cup values
  <1> DEFINE n == Len(st)
             low == [st EXCEPT ![n].values = values, ![n].keys = keys]
             top == [[st[n] EXCEPT !.values = values] EXCEPT !.keys = keys]
             f == Frame(wanted, mine, <<>>)
             new == Append(low, f)
  <1>1. n \in Nat \ {0} /\ DOMAIN st = 1..n /\ n \in DOMAIN st /\ DOMAIN st[n] = {"keys", "values", "jobs"}
        /\ st \in Seq(Range(st))
    BY StackParts DEF StackOK, FrameOK
  <1>2. DOMAIN low = 1..n /\ \A k \in 1..n : low[k] = IF k = n THEN top ELSE st[k]
    BY <1>1
  <1>3. top.values = values /\ top.jobs = st[n].jobs
    BY <1>1
  <1>4. low = [k \in 1..n |-> low[k]]
    BY <1>1
  <1> HIDE DEF low, top
  <1>5. low \in Seq(Range(low)) /\ Len(low) = n
    BY <1>1, <1>2, <1>4 DEF Range
  <1> HIDE DEF f
  <1>6. DOMAIN new = 1..(n + 1) /\ new[n + 1] = f /\ \A k \in 1..n : new[k] = low[k]
    BY <1>1, <1>5
  <1> HIDE DEF new
  <1>7. f.values = mine /\ f.jobs = <<>>
    BY DEF f, Frame
  <1>8. \A k \in DOMAIN new : k \in 1..n \/ k = n + 1
    BY <1>1, <1>6
  <1>9. ASSUME NEW k \in DOMAIN new
        PROVE  Range(new[k].jobs) \subseteq JobsIn(st) /\ new[k].values \subseteq ValuesIn(st) \cup values
    <2>1. CASE k = n + 1
      <3>1. new[k].values = mine /\ new[k].jobs = <<>>
        BY <1>6, <1>7, <2>1
      <3>2. Range(<<>>) = {}
        BY DEF Range
      <3> QED
        BY <3>1, <3>2
    <2>2. CASE k \in 1..n
      <3>1. new[k].jobs = st[k].jobs /\ (new[k].values = st[k].values \/ new[k].values = values)
        BY <1>2, <1>3, <1>6, <2>2
      <3>2. k \in DOMAIN st
        BY <1>1, <2>2
      <3>3. Range(st[k].jobs) \subseteq JobsIn(st) /\ st[k].values \subseteq ValuesIn(st)
        BY <3>2 DEF JobsIn, ValuesIn
      <3>4. CASE new[k].values = st[k].values
        BY <3>1, <3>3, <3>4
      <3>5. CASE new[k].values = values
        BY <3>1, <3>3, <3>5
      <3> QED
        BY <3>1, <3>4, <3>5
    <2> QED
      BY <1>8, <2>1, <2>2
  <1>10. JobsIn(new) \subseteq JobsIn(st)
    <2> SUFFICES ASSUME NEW j \in JobsIn(new) PROVE j \in JobsIn(st)
      OBVIOUS
    <2>1. PICK k \in DOMAIN new : j \in Range(new[k].jobs)
      BY DEF JobsIn
    <2> QED
      BY <1>9, <2>1
  <1>11. ValuesIn(new) \subseteq ValuesIn(st) \cup values
    <2> SUFFICES ASSUME NEW e \in ValuesIn(new) PROVE e \in ValuesIn(st) \cup values
      OBVIOUS
    <2>1. PICK k \in DOMAIN new : e \in new[k].values
      BY DEF ValuesIn
    <2> QED
      BY <1>9, <2>1
  <1> QED
    BY <1>10, <1>11 DEF new, low, f

(* What a target may be rewritten to belongs to it. *)
LEMMA RewritesBelong ==
  ASSUME NEW k, AllTargets(k.targets), NEW e0, NEW t \in RewritesOf(k, e0)
  PROVE  ExprFor(k, e0, t)
  <1>1. t \in k.targets /\ \A S \in SUBSET k.targets : e0 \in S /\ ClosedIn(S) => t \in S
    BY DEF RewritesOf
  <1>2. {a.name : a \in Range(t.args)} \subseteq NamesOf(k, e0)
    BY DEF NamesOf
  <1>3. ASSUME NEW u \in Range(t.then) PROVE u \in RewritesOf(k, e0)
    <2>1. t.then \in Seq(k.targets)
      BY <1>1 DEF AllTargets, IsTarget
    <2>2. u \in k.targets
      BY <2>1 DEF Range
    <2>3. ASSUME NEW S \in SUBSET k.targets, e0 \in S, ClosedIn(S) PROVE u \in S
      BY <1>1, <2>3 DEF ClosedIn
    <2> QED
      BY <2>2, <2>3 DEF RewritesOf
  <1> QED
    BY <1>2, <1>3 DEF ExprFor

LEMMA TargetsBelong ==
  ASSUME NEW k, AllTargets(k.targets), NEW e0 \in k.targets
  PROVE  ExprFor(k, e0, e0)
  <1>1. e0 \in RewritesOf(k, e0)
    BY DEF RewritesOf
  <1> QED
    BY <1>1, RewritesBelong

LEMMA OneJob ==
  ASSUME NEW k, NEW tg, NEW i \in DOMAIN tg, NEW exprs, DOMAIN exprs \subseteq {1},
         \A n \in DOMAIN exprs : ExprFor(k, tg[i], exprs[n]), NEW span, NEW quiet
  PROVE  JobFor(k, tg, Job(<<i>>, exprs, span, quiet))
  <1> DEFINE j == Job(<<i>>, exprs, span, quiet)
  <1>1. j.exprs = exprs /\ j.of = <<i>>
    BY DEF Job
  <1>2. \A n \in DOMAIN exprs : j.of[n] = i
    BY <1>1
  <1> HIDE DEF j
  <1>3. JobFor(k, tg, j)
    BY <1>1, <1>2 DEF JobFor
  <1> QED
    BY <1>3 DEF j

LEMMA TopJobsBelong ==
  ASSUME NEW k, AllTargets(k.targets), NEW tg \in Seq(k.targets), NEW span
  PROVE  \A j \in Range(TopJobs(tg, span)) : JobFor(k, tg, j)
  <1>0. \A i \in DOMAIN tg : ExprFor(k, tg[i], tg[i])
    BY TargetsBelong
  <1>1. CASE tg = <<>>
    BY <1>1 DEF TopJobs, Range
  <1>2. CASE tg # <<>> /\ conf.combine
    <2> DEFINE j == Job([i \in DOMAIN tg |-> i], tg, span, FALSE)
    <2>1. TopJobs(tg, span) = <<j>>
      BY <1>2 DEF TopJobs
    <2>2. j.exprs = tg /\ \A n \in DOMAIN tg : j.of[n] = n
      BY DEF Job
    <2> HIDE DEF j
    <2>3. JobFor(k, tg, j)
      BY <1>0, <2>2 DEF JobFor
    <2>4. Range(<<j>>) = {j}
      BY DEF Range
    <2> QED
      BY <2>1, <2>3, <2>4
  <1>3. CASE tg # <<>> /\ ~conf.combine
    <2> DEFINE J(i) == Job(<<i>>, <<tg[i]>>, span, FALSE)
    <2>1. TopJobs(tg, span) = [i \in DOMAIN tg |-> J(i)]
      BY <1>3, Zenon DEF TopJobs
    <2>2. ASSUME NEW i \in DOMAIN tg PROVE JobFor(k, tg, J(i))
      <3> DEFINE x == <<tg[i]>>
      <3>1. DOMAIN x = {1} /\ x[1] = tg[i]
        OBVIOUS
      <3> HIDE DEF x
      <3>2. JobFor(k, tg, Job(<<i>>, x, span, FALSE))
        BY <1>0, <3>1, OneJob
      <3> QED
        BY <3>2 DEF x
    <2> HIDE DEF J
    <2>3. \A j \in Range([i \in DOMAIN tg |-> J(i)]) : JobFor(k, tg, j)
      BY <2>2 DEF Range
    <2> QED
      BY <2>1, <2>3
  <1> QED
    BY <1>1, <1>2, <1>3

(* The elements of concatenated sequences. *)
LEMMA FlattenRange ==
  ASSUME NEW W, NEW ss \in Seq(Seq(W))
  PROVE  Range(FlattenSeq(ss)) \subseteq W
  <1> DEFINE s == FlattenSeq(ss)
  <1>1. s \in Seq(W)
    BY FlattenElements
  <1> HIDE DEF s
  <1>2. Range(s) \subseteq W
    BY <1>1 DEF Range
  <1> QED
    BY <1>2 DEF s

(* The jobs an expression of target i leads to belong to it. *)
LEMMA JobsForBelong ==
  ASSUME NEW k, AllTargets(k.targets), NEW tg, NEW i \in DOMAIN tg, NEW e \in Exprs(k.targets),
         ExprFor(k, tg[i], e), NEW frame, NEW span \in Spans
  PROVE  \A j \in Range(JobsFor(frame, i, e, span)) : JobFor(k, tg, j)
  <1> DEFINE T == k.targets
  <1>1. /\ e.args \in Seq(Range(e.args)) /\ e.then \in Seq(T) /\ Len(e.then) <= 1
        /\ \A n \in DOMAIN e.args : ArgOK(T, e.args[n])
    BY ExprsTyped
  <1>2. CASE e.head = "applyByNode"
    <2> DEFINE j == Job(<<i>>, e.then, span, FALSE)
    <2>1. DOMAIN e.then \subseteq {1}
      BY <1>1
    <2>2. ASSUME NEW n \in DOMAIN e.then PROVE ExprFor(k, tg[i], e.then[n])
      <3>1. e.then[n] \in Range(e.then)
        BY DEF Range
      <3> QED
        BY <3>1, RewritesBelong DEF ExprFor
    <2>3. JobFor(k, tg, j)
      BY <2>1, <2>2, OneJob
    <2>4. JobsFor(frame, i, e, span) = <<j>> \/ JobsFor(frame, i, e, span) = <<>>
      BY <1>2 DEF JobsFor
    <2> HIDE DEF j
    <2>5. Range(<<j>>) = {j} /\ Range(<<>>) = {}
      BY DEF Range
    <2>6. CASE JobsFor(frame, i, e, span) = <<j>>
      BY <2>3, <2>5, <2>6
    <2>7. CASE JobsFor(frame, i, e, span) = <<>>
      BY <2>5, <2>7
    <2> QED
      BY <2>4, <2>6, <2>7
  <1>3. CASE e.head # "applyByNode"
    <2> DEFINE R(n) == RefetchesOf(frame, e.args[n], span)
               J(n, f) == Job(<<i>>, <<Plain([name |-> e.args[n].name, fs |-> f.fs])>>, f.span, f.quiet)
               S(n) == {J(n, f) : f \in R(n)}
               ss == [n \in DOMAIN e.args |-> SetToSeq(S(n))]
               W == UNION {S(n) : n \in DOMAIN e.args}
    <2>1. JobsFor(frame, i, e, span) = FlattenSeq(ss)
      BY <1>3 DEF JobsFor
    <2>2. ASSUME NEW n \in DOMAIN e.args PROVE SetToSeq(S(n)) \in Seq(W)
      <3>1. e.args[n].fs \in Seq(Fns(T))
        BY <1>1 DEF ArgOK
      <3>2. R(n) \subseteq Refetched(e.args[n].fs, span)
        BY DEF RefetchesOf
      <3>3. IsFiniteSet(R(n))
        BY <3>1, <3>2, RefetchedGood, FS_Subset
      <3>4. IsFiniteSet(S(n))
        <4> DEFINE P == R(n)
                   G == [f \in P |-> J(n, f)]
        <4>1. S(n) = {G[f] : f \in P}
          BY Zenon
        <4>2. IsFiniteSet({G[f] : f \in P})
          <5> HIDE DEF G, P
          <5> QED
            BY <3>3, FiniteImage DEF P
        <4> QED
          BY <4>1, <4>2, Zenon
      <3> HIDE DEF S
      <3>5. S(n) \subseteq W
        OBVIOUS
      <3> HIDE DEF W
      <3> QED
        BY <3>4, <3>5, SetToSeqElements
    <2>3. ASSUME NEW n \in DOMAIN e.args, NEW f PROVE JobFor(k, tg, J(n, f))
      <3> DEFINE p == Plain([name |-> e.args[n].name, fs |-> f.fs])
                 x == <<p>>
      <3>1. p.args = <<[name |-> e.args[n].name, fs |-> f.fs]>> /\ p.then = <<>>
        BY DEF Plain
      <3>2. {a.name : a \in Range(p.args)} = {e.args[n].name}
        BY <3>1 DEF Range
      <3>3. Range(p.then) = {}
        BY <3>1 DEF Range
      <3>4. e.args[n].name \in NamesOf(k, tg[i])
        BY DEF ExprFor, Range
      <3>5. ExprFor(k, tg[i], p)
        BY <3>2, <3>3, <3>4 DEF ExprFor
      <3> HIDE DEF p
      <3>6. DOMAIN x = {1} /\ x[1] = p
        OBVIOUS
      <3> HIDE DEF x
      <3>7. JobFor(k, tg, Job(<<i>>, x, f.span, f.quiet))
        BY <3>5, <3>6, OneJob
      <3> QED
        BY <3>7 DEF x, p
    <2>4. \A j \in W : JobFor(k, tg, j)
      BY <2>3, Zenon
    <2>5. ss \in [DOMAIN e.args -> Seq(W)]
      BY <2>2, Zenon
    <2> HIDE DEF W, ss
    <2>6. ss \in Seq(Seq(W))
      BY <1>1, <2>5, PartsOfQueries
    <2> QED
      BY <2>1, <2>4, <2>6, FlattenRange
  <1> QED
    BY <1>2, <1>3

(* What an expression of a target finds among the series of a map. *)
LEMMA FoundBelongs ==
  ASSUME NEW k, AllTargets(k.targets), NEW e0, NEW e \in Exprs(k.targets), ExprFor(k, e0, e),
         NEW low, NEW high, NEW frame, \A s \in frame.values : EntryFor(low, high, s), NEW span
  PROVE  \A s \in FoundFor(frame, e, span) : s.at \in low..high /\ s.name \in NamesOf(k, e0)
  <1>1. ASSUME NEW a \in Range(e.args), NEW s \in FoundByArg(frame, a, span)
        PROVE  s.at \in low..high /\ s.name \in NamesOf(k, e0)
    <2>1. s \in FoundBy(frame.values, a.name, a.fs, span)
      BY DEF FoundByArg
    <2>2. s \in frame.values /\ \E l : s.key = Request(a.name, l)
      BY <2>1 DEF FoundBy
    <2>3. s.key.name = a.name
      BY <2>2 DEF Request
    <2>4. a.name \in NamesOf(k, e0)
      BY DEF ExprFor
    <2> QED
      BY <2>2, <2>3, <2>4 DEF EntryFor
  <1>2. CASE e.head = "fallbackSeries"
    <2>1. e \in k.targets
      BY <1>2 DEF Exprs
    <2>2. e.args # <<>> /\ e.args \in Seq(Range(e.args))
      BY <1>2, <2>1 DEF AllTargets, IsTarget
    <2>3. e.args[1] \in Range(e.args)
      <3>1. 1 \in DOMAIN e.args
        BY <2>2
      <3> QED
        BY <3>1 DEF Range
    <2>4. ASSUME NEW s \in FoundFor(frame, e, span)
          PROVE  \E a \in Range(e.args) : s \in FoundByArg(frame, a, span)
      BY <1>2, <2>3 DEF FoundFor
    <2> QED
      BY <1>1, <2>4
  <1>3. CASE e.head # "fallbackSeries"
    <2>1. ASSUME NEW s \in FoundFor(frame, e, span)
          PROVE  \E a \in Range(e.args) : s \in FoundByArg(frame, a, span)
      BY <1>3 DEF FoundFor
    <2> QED
      BY <1>1, <2>1
  <1> QED
    BY <1>2, <1>3

(* A handler at work, and one that goes on with the same request. *)
Working(k, at, r) ==
  Open(at, r) /\ Admitted(k, at, r) /\ OwnWork(k, at, r) /\ Doing(k.targets, r)

Same(r, x) ==
  /\ DOMAIN x = DOMAIN r /\ DOMAIN x.results = DOMAIN r.results
  /\ x.req = r.req /\ x.since = r.since /\ x.span = r.span
  /\ x.respKey = r.respKey /\ x.backKey = r.backKey
  /\ x.respTimeout = r.respTimeout /\ x.backTimeout = r.backTimeout
  /\ x.results.targets = r.results.targets /\ x.results.points = r.results.points /\ x.results.span = r.results.span

Continues(k, at, r, x) ==
  /\ Same(r, x)
  /\ FoundOK(k, TargetsOf(r.req), r.since, at, x.results.found)
  /\ StackFor(k, TargetsOf(r.req), r.since, at, x.stack)

LEMMA ContinuesFor ==
  ASSUME NEW k, NEW at, NEW r, Working(k, at, r), NEW x, Continues(k, at, r, x)
  PROVE  Open(at, x) /\ Admitted(k, at, x) /\ OwnWork(k, at, x)
  <1>1. Same(r, x)
    BY DEF Continues
  <1>2. Open(at, x)
    BY <1>1 DEF Working, Same, Open
  <1>3. Admitted(k, at, x)
    BY <1>1 DEF Working, Same, Admitted
  <1>4. OwnWork(k, at, x)
    BY <1>1 DEF Working, Same, OwnWork, Continues
  <1> QED
    BY <1>2, <1>3, <1>4

LEMMA WorkingFields ==
  ASSUME NEW k, NEW at, NEW r, Working(k, at, r)
  PROVE  /\ {"pc", "req", "since", "span", "respKey", "backKey", "respTimeout", "backTimeout",
             "results", "codes", "stack", "job"} \subseteq DOMAIN r
         /\ {"targets", "points", "span", "found", "lost"} \subseteq DOMAIN r.results
         /\ StackOK(k.targets, r.stack) /\ StackFor(k, TargetsOf(r.req), r.since, at, r.stack)
         /\ FoundOK(k, TargetsOf(r.req), r.since, at, r.results.found)
  BY DEF Working, Open, Admitted, OwnWork, Doing

LEMMA StackSmaller ==
  ASSUME NEW k, NEW tg, NEW low, NEW high, NEW st, StackFor(k, tg, low, high, st),
         NEW new, JobsIn(new) \subseteq JobsIn(st), ValuesIn(new) \subseteq ValuesIn(st)
  PROVE  StackFor(k, tg, low, high, new)
  BY DEF StackFor

(* An evaluation fails. *)
LEMMA FailsContinues ==
  ASSUME NEW k, NEW at, NEW r, Working(k, at, r), NEW job, NEW code, NEW st, StackOK(k.targets, st),
         StackFor(k, TargetsOf(r.req), r.since, at, st)
  PROVE  Continues(k, at, r, Fails(r, job, code, st))
  <1> DEFINE x == Fails(r, job, code, st)
             stop == conf.rsa /\ ~conf.combine /\ code # 404
             found == [i \in DOMAIN r.results.found |-> IF i \in Range(job.of) THEN {} ELSE r.results.found[i]]
             mid == Without(job, st, stop)
             new == Unwind(mid)
  <1>1. x = [r EXCEPT !.pc = "next", !.job = <<>>, !.codes = @ \cup {code}, !.results.found = found, !.stack = new]
    BY DEF Fails
  <1>2. StackFor(k, TargetsOf(r.req), r.since, at, new)
    <2>1. StackOK(k.targets, mid)
      BY WithoutKeeps
    <2>2. JobsIn(mid) \subseteq JobsIn(st) /\ ValuesIn(mid) = ValuesIn(st)
      BY WithoutWithin
    <2> HIDE DEF mid
    <2>3. JobsIn(new) \subseteq JobsIn(mid) /\ ValuesIn(new) \subseteq ValuesIn(mid)
      BY <2>1, UnwindWithin
    <2> HIDE DEF new
    <2>4. JobsIn(new) \subseteq JobsIn(st) /\ ValuesIn(new) \subseteq ValuesIn(st)
      BY <2>2, <2>3
    <2> QED
      BY <2>4, StackSmaller
  <1>3. FoundOK(k, TargetsOf(r.req), r.since, at, found)
    <2>1. FoundOK(k, TargetsOf(r.req), r.since, at, r.results.found)
      BY WorkingFields
    <2> QED
      BY <2>1 DEF FoundOK
  <1>4. /\ {"pc", "req", "since", "span", "respKey", "backKey", "respTimeout", "backTimeout",
            "results", "codes", "stack", "job"} \subseteq DOMAIN r
        /\ {"targets", "points", "span", "found", "lost"} \subseteq DOMAIN r.results
    BY WorkingFields
  <1> HIDE DEF x, new, found
  <1>5. Same(r, x) /\ x.stack = new /\ x.results.found = found
    BY <1>1, <1>4 DEF Same
  <1>6. Continues(k, at, r, x)
    BY <1>2, <1>3, <1>5 DEF Continues
  <1> QED
    BY <1>6 DEF x

LEMMA FetchFailsContinues ==
  ASSUME NEW k, NEW at, NEW r, Working(k, at, r), NEW job, NEW code, NEW st, StackOK(k.targets, st),
         StackFor(k, TargetsOf(r.req), r.since, at, st)
  PROVE  Continues(k, at, r, FetchFails(r, job, code, st))
  <1> DEFINE x == FetchFails(r, job, code, st)
  <1>1. CASE ~job.quiet
    <2>1. x = Fails(r, job, code, st)
      BY <1>1 DEF FetchFails
    <2> QED
      BY <2>1, FailsContinues
  <1>2. CASE job.quiet
    <2> DEFINE new == Unwind(st)
    <2>1. x = [r EXCEPT !.pc = "next", !.job = <<>>, !.stack = new]
      BY <1>2 DEF FetchFails
    <2>2. JobsIn(new) \subseteq JobsIn(st) /\ ValuesIn(new) \subseteq ValuesIn(st)
      BY UnwindWithin
    <2> HIDE DEF x, new
    <2>3. StackFor(k, TargetsOf(r.req), r.since, at, new)
      BY <2>2, StackSmaller
    <2>4. /\ {"pc", "req", "since", "span", "respKey", "backKey", "respTimeout", "backTimeout",
              "results", "codes", "stack", "job"} \subseteq DOMAIN r
          /\ FoundOK(k, TargetsOf(r.req), r.since, at, r.results.found)
      BY WorkingFields
    <2>5. Same(r, x) /\ x.stack = new /\ x.results = r.results
      BY <2>1, <2>4 DEF Same
    <2>6. Continues(k, at, r, x)
      BY <2>3, <2>4, <2>5 DEF Continues
    <2> QED
      BY <2>6 DEF x
  <1> QED
    BY <1>1, <1>2

(* What was lost is noted. *)
LEMMA NotedContinues ==
  ASSUME NEW k, NEW at, NEW r, Working(k, at, r), NEW lost
  PROVE  Working(k, at, [r EXCEPT !.results.lost = lost])
  <1> DEFINE x == [r EXCEPT !.results.lost = lost]
  <1>1. /\ {"pc", "req", "since", "span", "respKey", "backKey", "respTimeout", "backTimeout",
            "results", "codes", "stack", "job"} \subseteq DOMAIN r
        /\ {"targets", "points", "span", "found", "lost"} \subseteq DOMAIN r.results
        /\ FoundOK(k, TargetsOf(r.req), r.since, at, r.results.found)
        /\ StackFor(k, TargetsOf(r.req), r.since, at, r.stack)
    BY WorkingFields
  <1>2. Same(r, x) /\ x.stack = r.stack /\ x.results.found = r.results.found
    BY <1>1 DEF Same
  <1>3. Doing(k.targets, x)
    BY Noted DEF Working
  <1> HIDE DEF x
  <1>4. Continues(k, at, r, x)
    BY <1>1, <1>2 DEF Continues
  <1>5. Working(k, at, x)
    BY <1>3, <1>4, ContinuesFor DEF Working
  <1> QED
    BY <1>5 DEF x

(* The expressions of a job are evaluated with the map on top. *)
LEMMA EvalContinues ==
  ASSUME NEW k, AllTargets(k.targets), NEW at, NEW r, Working(k, at, r), NEW job \in Works(k.targets),
         JobFor(k, TargetsOf(r.req), job)
  PROVE  Continues(k, at, r, EvalJob(r, job, Last(r.stack)))
  <1> DEFINE T == k.targets
             tg == TargetsOf(r.req)
             frame == Last(r.stack)
             refused == {j \in DOMAIN job.exprs : job.exprs[j].head = "invalid"}
             Jobs(j) == IF j \in refused THEN <<>> ELSE JobsFor(frame, job.of[j], job.exprs[j], job.span)
             ss == [j \in DOMAIN job.exprs |-> Jobs(j)]
             jobs == FlattenSeq(ss)
             stack == [r.stack EXCEPT ![Len(r.stack)].jobs = jobs]
             new == Unwind(stack)
             found == [j \in DOMAIN job.exprs \ refused |-> FoundFor(frame, job.exprs[j], job.span)]
             all == [i \in DOMAIN r.results.found |->
                       r.results.found[i] \cup UNION {found[j] : j \in {n \in DOMAIN found : job.of[n] = i}}]
  <1>0. /\ {"pc", "req", "since", "span", "respKey", "backKey", "respTimeout", "backTimeout",
            "results", "codes", "stack", "job"} \subseteq DOMAIN r
        /\ {"targets", "points", "span", "found", "lost"} \subseteq DOMAIN r.results
        /\ StackOK(T, r.stack) /\ StackFor(k, tg, r.since, at, r.stack)
        /\ FoundOK(k, tg, r.since, at, r.results.found)
    BY WorkingFields
  <1>1. /\ job.exprs \in Seq(Exprs(T)) /\ job.span \in Spans
        /\ \A n \in DOMAIN job.exprs : job.exprs[n] \in Exprs(T) /\ job.of[n] \in Nat
        /\ \A n \in DOMAIN job.exprs : job.of[n] \in DOMAIN tg /\ ExprFor(k, tg[job.of[n]], job.exprs[n])
    BY WorkParts DEF JobFor
  <1>2. ASSUME NEW j \in DOMAIN job.exprs
        PROVE  Jobs(j) \in Seq(Works(T)) /\ \A x \in Range(Jobs(j)) : JobFor(k, tg, x)
    <2>1. JobsFor(frame, job.of[j], job.exprs[j], job.span) \in Seq(Works(T))
      BY <1>1, JobsForGood
    <2>2. \A x \in Range(JobsFor(frame, job.of[j], job.exprs[j], job.span)) : JobFor(k, tg, x)
      BY <1>1, JobsForBelong
    <2>3. <<>> \in Seq(Works(T)) /\ Range(<<>>) = {}
      BY DEF Range
    <2>4. CASE j \in refused
      BY <2>3, <2>4
    <2>5. CASE j \notin refused
      BY <2>1, <2>2, <2>5, Zenon
    <2> QED
      BY <2>4, <2>5
  <1> DEFINE W == {x \in Works(T) : JobFor(k, tg, x)}
  <1>3. ASSUME NEW j \in DOMAIN job.exprs PROVE Jobs(j) \in Seq(W)
    <2> DEFINE s == Jobs(j)
    <2>1. s \in Seq(Works(T)) /\ \A x \in Range(s) : JobFor(k, tg, x)
      BY <1>2
    <2> HIDE DEF s
    <2>2. \A i \in DOMAIN s : s[i] \in W
      BY <2>1 DEF Range
    <2> HIDE DEF W
    <2>3. s \in Seq(W)
      BY <2>1, <2>2
    <2> QED
      BY <2>3 DEF s
  <1>4. jobs \in Seq(Works(T)) /\ \A x \in Range(jobs) : JobFor(k, tg, x)
    <2>1. ss \in [DOMAIN job.exprs -> Seq(W)]
      BY <1>3, Zenon
    <2> HIDE DEF ss, W
    <2>2. ss \in Seq(Seq(W))
      BY <1>1, <2>1, PartsOfQueries
    <2>3. jobs \in Seq(W) /\ Range(jobs) \subseteq W
      BY <2>2, FlattenElements, FlattenRange
    <2>4. W \subseteq Works(T) /\ \A x \in W : JobFor(k, tg, x)
      BY DEF W
    <2> HIDE DEF jobs
    <2> QED
      BY <2>3, <2>4
  <1>5. StackFor(k, tg, r.since, at, new)
    <2> HIDE DEF jobs
    <2>1. StackOK(T, stack)
      BY <1>0, <1>4, OtherJobs
    <2>2. JobsIn(stack) \subseteq JobsIn(r.stack) \cup Range(jobs) /\ ValuesIn(stack) = ValuesIn(r.stack)
      BY <1>0, OtherWithin
    <2> HIDE DEF stack
    <2>3. StackFor(k, tg, r.since, at, stack)
      BY <1>0, <1>4, <2>2 DEF StackFor
    <2>4. JobsIn(new) \subseteq JobsIn(stack) /\ ValuesIn(new) \subseteq ValuesIn(stack)
      BY <2>1, UnwindWithin
    <2> HIDE DEF new
    <2> QED
      BY <2>3, <2>4, StackSmaller
  <1>6. \A e \in frame.values : EntryFor(r.since, at, e)
    <2>1. Len(r.stack) \in DOMAIN r.stack /\ frame = r.stack[Len(r.stack)]
      BY <1>0, StackParts
    <2>2. frame.values \subseteq ValuesIn(r.stack)
      BY <2>1 DEF ValuesIn
    <2> QED
      BY <1>0, <2>2 DEF StackFor
  <1>7. FoundOK(k, tg, r.since, at, all)
    <2> SUFFICES ASSUME NEW i \in DOMAIN all
                 PROVE  i \in DOMAIN tg /\ \A s \in all[i] : s.at \in r.since..at /\ s.name \in NamesOf(k, tg[i])
      BY DEF FoundOK
    <2>1. i \in DOMAIN r.results.found /\ i \in DOMAIN tg
      BY <1>0 DEF FoundOK
    <2>2. ASSUME NEW s \in all[i] PROVE s.at \in r.since..at /\ s.name \in NamesOf(k, tg[i])
      <3>1. s \in r.results.found[i] \/ \E j \in DOMAIN found : job.of[j] = i /\ s \in found[j]
        BY <2>1, <2>2
      <3>2. CASE s \in r.results.found[i]
        BY <1>0, <2>1, <3>2 DEF FoundOK
      <3>3. CASE \E j \in DOMAIN found : job.of[j] = i /\ s \in found[j]
        <4>1. PICK j \in DOMAIN found : job.of[j] = i /\ s \in found[j]
          BY <3>3
        <4>2. j \in DOMAIN job.exprs /\ s \in FoundFor(frame, job.exprs[j], job.span)
          BY <4>1
        <4>3. ExprFor(k, tg[i], job.exprs[j]) /\ job.exprs[j] \in Exprs(T)
          BY <1>1, <4>1, <4>2
        <4> HIDE DEF found, frame, tg
        <4> QED
          BY <1>6, <4>2, <4>3, FoundBelongs
      <3> QED
        BY <3>1, <3>2, <3>3
    <2> QED
      BY <2>1, <2>2
  <1> DEFINE done == [r EXCEPT !.pc = "next", !.job = <<>>, !.stack = new, !.results.found = all]
             more == [done EXCEPT !.codes = @ \cup {400}]
  <1>8. \/ EvalJob(r, job, frame) = done
        \/ EvalJob(r, job, frame) = more
        \/ EvalJob(r, job, frame) = Fails(r, job, 400, r.stack)
    BY Zenon DEF EvalJob
  <1> HIDE DEF new, all
  <1>9. Same(r, done) /\ done.stack = new /\ done.results.found = all
    BY <1>0 DEF Same
  <1>10. Continues(k, at, r, done)
    <2> HIDE DEF done
    <2> QED
      BY <1>5, <1>7, <1>9 DEF Continues
  <1>11. Same(r, more) /\ more.stack = new /\ more.results.found = all
    <2> HIDE DEF done
    <2> QED
      BY <1>0, <1>9 DEF Same
  <1>12. Continues(k, at, r, more)
    <2> HIDE DEF more
    <2> QED
      BY <1>5, <1>7, <1>11 DEF Continues
  <1>13. Continues(k, at, r, Fails(r, job, 400, r.stack))
    BY <1>0, FailsContinues
  <1> HIDE DEF done, more
  <1> QED
    BY <1>8, <1>10, <1>12, <1>13, Zenon

LEMMA TimeoutsTyped ==
  ASSUME conf \in Scenarios
  PROVE  /\ \A a \in TimeoutsOf(conf, conf.resp) : a \in Int
         /\ \A b \in TimeoutsOf(conf, conf.back) : b \in Int
         /\ Latency \in Nat /\ Lag \in Nat
  <1>1. {conf.resp.normal, conf.resp.short, conf.back.normal, conf.back.short} \subseteq Int /\ Latency \in Nat /\ Lag \in Nat
    BY RenderAssumption
  <1>2. \A r \in conf.requests : r.cacheTimeout # <<>> => r.cacheTimeout[1] \in Int
    BY ConfKnown DEF IsRequest
  <1> QED
    BY <1>1, <1>2 DEF TimeoutsOf

LEMMA AgeTyped ==
  ASSUME conf \in Scenarios, NEW b \in Int
  PROVE  /\ Age(conf, b) \in Int /\ Age(conf, b) >= b
         /\ Age(conf, b) = b + Latency + (IF conf.cache = "memcached" THEN Lag ELSE 0)
  BY TimeoutsTyped DEF Age

(* getCacheTimeout gives one of the timeouts. *)
LEMMA TimeoutKnown ==
  ASSUME NEW req \in conf.requests, NEW span, NEW policy
  PROVE  CacheTimeout(req, span, policy) \in TimeoutsOf(conf, policy)
  BY DEF CacheTimeout, TimeoutsOf

LEMMA RespTimeoutKnown ==
  ASSUME conf \in Scenarios, NEW req \in conf.requests, NEW span
  PROVE  RespTimeout(conf, CacheTimeout(req, span, conf.resp))
  <1> DEFINE x == CacheTimeout(req, span, conf.resp)
  <1>1. x \in TimeoutsOf(conf, conf.resp)
    BY TimeoutKnown
  <1>2. ASSUME NoForever(conf), conf.cache = "memcached" PROVE x # 0
    <2>1. conf.resp.normal # 0 /\ ~req.noCache /\ req.cacheTimeout # <<0>>
      BY <1>2 DEF NoForever
    <2>2. req.cacheTimeout # <<>> => req.cacheTimeout[1] # 0
      BY <2>1, ConfKnown DEF IsRequest
    <2> QED
      BY <2>1, <2>2 DEF CacheTimeout
  <1> QED
    BY <1>1, <1>2 DEF RespTimeout

LEMMA KeysAre ==
  ASSUME NEW req, NEW span
  PROVE  ResponseKey(req, span) = RKey(conf, req, span) /\ BackendKey(req, span) = BKey(conf, req, span)
  BY DEF ResponseKey, RKey, BackendKey, BKey

(* Bounds of times that are further apart hold too. *)
LEMMA Wider ==
  ASSUME NEW low \in Int, NEW high \in Int, NEW low2 \in Int, NEW high2 \in Int, low2 <= low, high <= high2,
         NEW t \in low..high
  PROVE  t \in low2..high2
  OBVIOUS

LEMMA FoundWider ==
  ASSUME NEW low \in Int, NEW high \in Int, NEW low2 \in Int, NEW high2 \in Int, low2 <= low, high <= high2,
         NEW k, NEW tg, NEW found, FoundOK(k, tg, low, high, found)
  PROVE  FoundOK(k, tg, low2, high2, found)
  BY Wider DEF FoundOK

LEMMA ResultsWider ==
  ASSUME NEW low \in Int, NEW high \in Int, NEW low2 \in Int, NEW high2 \in Int, low2 <= low, high <= high2,
         NEW k, NEW key, NEW v, ResultsOK(k, key, low, high, v)
  PROVE  ResultsOK(k, key, low2, high2, v)
  <1>1. PICK o, t : ResultsFrom(k, key, low, high, v, o, t)
    BY DEF ResultsOK
  <1>2. ResultsFrom(k, key, low2, high2, v, o, t)
    BY <1>1, Wider, FoundWider DEF ResultsFrom
  <1> QED
    BY <1>2 DEF ResultsOK

LEMMA StackWider ==
  ASSUME NEW low \in Int, NEW high \in Int, NEW high2 \in Int, high <= high2,
         NEW k, NEW tg, NEW st, StackFor(k, tg, low, high, st)
  PROVE  StackFor(k, tg, low, high2, st)
  BY Wider DEF StackFor, EntryFor

LEMMA BackLater ==
  ASSUME NEW k, NEW at \in Int, NEW key, NEW v, NEW s, BackFrom(k, at, key, v, s)
  PROVE  BackFrom(k, at + 1, key, v, s)
  <1>1. s \in Int /\ s <= at /\ ResultsOK(k, key, s, at, v)
    BY DEF BackFrom
  <1>2. ResultsOK(k, key, s, at + 1, v)
    BY <1>1, ResultsWider
  <1> QED
    BY <1>1, <1>2 DEF BackFrom

LEMMA RespLater ==
  ASSUME conf \in Scenarios, NEW at \in Int, NEW key, NEW v, NEW s, RespFrom(conf, at, key, v, s)
  PROVE  RespFrom(conf, at + 1, key, v, s)
  <1>1. s \in Int /\ s <= at
    BY DEF RespFrom
  <1>2. PICK q \in conf.requests : \E t \in s..at : \E b \in TimeoutsOf(conf, conf.back) :
       /\ key = RKey(conf, q, FormSpan(conf, q, t))
       /\ v.format = q.format /\ v.view = q.view
       /\ ResultsOK(conf, BKey(conf, q, SpanOf(conf, q, t)), s - Age(conf, b), at, v)
    BY DEF RespFrom
  <1>3. PICK t \in s..at : \E b \in TimeoutsOf(conf, conf.back) :
       /\ key = RKey(conf, q, FormSpan(conf, q, t))
       /\ v.format = q.format /\ v.view = q.view
       /\ ResultsOK(conf, BKey(conf, q, SpanOf(conf, q, t)), s - Age(conf, b), at, v)
    BY <1>2
  <1>4. PICK b \in TimeoutsOf(conf, conf.back) :
       /\ key = RKey(conf, q, FormSpan(conf, q, t))
       /\ v.format = q.format /\ v.view = q.view
       /\ ResultsOK(conf, BKey(conf, q, SpanOf(conf, q, t)), s - Age(conf, b), at, v)
    BY <1>3
  <1>5. Age(conf, b) \in Int
    BY TimeoutsTyped, AgeTyped
  <1> DEFINE low == s - Age(conf, b)
             bkey == BKey(conf, q, SpanOf(conf, q, t))
  <1>6. low \in Int
    BY <1>1, <1>5
  <1>7. ResultsOK(conf, bkey, low, at, v)
    BY <1>4
  <1> HIDE DEF low, bkey
  <1>8. ResultsOK(conf, bkey, low, at + 1, v)
    BY <1>6, <1>7, ResultsWider
  <1>9. t \in s..(at + 1) /\ s <= at + 1
    BY <1>1
  <1> QED
    BY <1>1, <1>4, <1>8, <1>9 DEF RespFrom, low, bkey

LEMMA HandlerLater ==
  ASSUME conf \in Scenarios, NEW at \in Int, NEW r, HandlerFor(conf, at, r),
         r.pc # "idle" => at - r.since < Latency
  PROVE  HandlerFor(conf, at + 1, r)
  <1>1. r.pc # "idle" => Open(at + 1, r)
    BY TimeoutsTyped DEF HandlerFor, Open
  <1>2. ASSUME r.pc \in {"lookup", "next", "fetch", "eval", "reply"} PROVE r.since \in Int /\ Admitted(conf, at + 1, r)
    <2>1. r.since \in Int /\ Admitted(conf, at, r)
      BY <1>2 DEF HandlerFor, Open
    <2>2. \A t \in r.since..at : t \in r.since..(at + 1)
      BY <2>1
    <2> QED
      BY <2>1, <2>2 DEF Admitted
  <1>3. ASSUME r.pc \in {"lookup", "next", "fetch", "eval"} PROVE OwnWork(conf, at + 1, r)
    <2>1. OwnWork(conf, at, r) /\ r.since \in Int
      BY <1>2, <1>3 DEF HandlerFor
    <2>2. FoundOK(conf, TargetsOf(r.req), r.since, at + 1, r.results.found)
      BY <2>1, FoundWider DEF OwnWork
    <2>3. StackFor(conf, TargetsOf(r.req), r.since, at + 1, r.stack)
      BY <2>1, StackWider DEF OwnWork
    <2> QED
      BY <2>1, <2>2, <2>3 DEF OwnWork
  <1>4. ASSUME r.pc = "reply"
        PROVE  \E b \in TimeoutsOf(conf, conf.back) : ResultsOK(conf, r.backKey, r.since - Age(conf, b), at + 1, r.results)
    <2>1. PICK b \in TimeoutsOf(conf, conf.back) : ResultsOK(conf, r.backKey, r.since - Age(conf, b), at, r.results)
      BY <1>4 DEF HandlerFor
    <2>2. r.since - Age(conf, b) \in Int
      BY <1>2, <1>4, TimeoutsTyped, AgeTyped
    <2> DEFINE low == r.since - Age(conf, b)
    <2>3. low \in Int /\ ResultsOK(conf, r.backKey, low, at, r.results)
      BY <2>1, <2>2
    <2> HIDE DEF low
    <2>4. ResultsOK(conf, r.backKey, low, at + 1, r.results)
      BY <2>3, ResultsWider
    <2> QED
      BY <2>4 DEF low
  <1>5. r.pc \in {"fetch", "eval"} => JobFor(conf, TargetsOf(r.req), r.job[1])
    BY DEF HandlerFor
  <1> QED
    BY <1>1, <1>2, <1>3, <1>4, <1>5 DEF HandlerFor

(* A second passes. *)
LEMMA TickTimes ==
  ASSUME RenderInv, TimesInv, Tick
  PROVE  TimesInv'
  <1>0. conf \in Scenarios /\ now \in Int /\ now' = now + 1 /\ conf' = conf /\ rq' = rq
        /\ respCache' = respCache /\ backCache' = backCache /\ writes' = writes
    BY DEF RenderInv, Tick
  <1>1. ASSUME NEW c \in Clients PROVE HandlerFor(conf, now + 1, rq[c])
    <2>1. rq[c].pc # "idle" => rq[c] # Idle
      BY DEF Idle
    <2>2. rq[c].pc # "idle" => now - rq[c].since < Latency
      BY <2>1 DEF Tick
    <2> QED
      BY <1>0, <2>2, HandlerLater DEF TimesInv
  <1>2. BackFor(conf, now + 1, backCache)
    <2> SUFFICES ASSUME NEW key \in DOMAIN backCache PROVE BackEntry(conf, now + 1, key, backCache[key])
      BY DEF BackFor
    <2>1. BackEntry(conf, now, key, backCache[key])
      BY DEF TimesInv, BackFor
    <2> QED
      BY <1>0, <2>1, BackLater DEF BackEntry
  <1>3. RespFor(conf, now + 1, respCache)
    <2> SUFFICES ASSUME NEW key \in DOMAIN respCache PROVE RespEntry(conf, now + 1, key, respCache[key])
      BY DEF RespFor
    <2>1. RespEntry(conf, now, key, respCache[key])
      BY DEF TimesInv, RespFor
    <2> QED
      BY <1>0, <2>1, RespLater DEF RespEntry
  <1>4. WritesFor(conf, now + 1, writes)
    <2> SUFFICES ASSUME NEW w \in writes PROVE WriteFor(conf, now + 1, w)
      BY DEF WritesFor
    <2>1. WriteFor(conf, now, w) /\ now - w.since < Lag
      BY DEF TimesInv, WritesFor, Tick
    <2>2. w.since <= now + 1 /\ now + 1 <= w.since + Lag
      BY <1>0, <2>1, TimeoutsTyped DEF WriteFor
    <2>3. ASSUME w.which = "back"
          PROVE  \E s \in Int : BackFrom(conf, now + 1, w.key, w.value, s) /\ w.since <= s + Latency
      BY <1>0, <2>1, <2>3, BackLater DEF WriteFor
    <2>4. ASSUME w.which = "resp"
          PROVE  \E s \in Int : RespFrom(conf, now + 1, w.key, w.value, s) /\ w.since <= s + Latency
      BY <1>0, <2>1, <2>4, RespLater DEF WriteFor
    <2> QED
      BY <2>1, <2>2, <2>3, <2>4 DEF WriteFor
  <1> QED
    BY <1>0, <1>1, <1>2, <1>3, <1>4 DEF TimesInv

(* What the service sees of the clients. *)
Seen == [c \in Clients |-> IF rq[c] = Idle THEN <<>> ELSE [req |-> rq[c].req, since |-> rq[c].since]]

Unseen == UNCHANGED <<conf, now, Seen, answer>>

(* One handler moves. *)
LEMMA MovesFor ==
  ASSUME RenderInv, TimesInv, NEW c \in Clients, NEW x, HandlerFor(conf, now, x), rq' = [rq EXCEPT ![c] = x],
         UNCHANGED <<conf, now>>, BackFor(conf, now, backCache'), RespFor(conf, now, respCache'),
         WritesFor(conf, now, writes')
  PROVE  TimesInv'
  <1>1. \A d \in Clients : rq'[d] = IF d = c THEN x ELSE rq[d]
    BY DEF RenderInv
  <1>2. \A d \in Clients : HandlerFor(conf, now, rq'[d])
    BY <1>1 DEF TimesInv
  <1> QED
    BY <1>2 DEF TimesInv

LEMMA UnseenMove ==
  ASSUME RenderInv, NEW c \in Clients, NEW x, rq' = [rq EXCEPT ![c] = x], rq[c].pc # "idle", x.pc # "idle",
         x.req = rq[c].req, x.since = rq[c].since, UNCHANGED <<conf, now, answer>>
  PROVE  Unseen
  <1>1. \A d \in Clients : rq'[d] = IF d = c THEN x ELSE rq[d]
    BY DEF RenderInv
  <1>2. rq[c] # Idle /\ x # Idle
    BY DEF Idle
  <1>3. \A d \in Clients : (IF rq'[d] = Idle THEN <<>> ELSE [req |-> rq'[d].req, since |-> rq'[d].since])
                         = (IF rq[d] = Idle THEN <<>> ELSE [req |-> rq[d].req, since |-> rq[d].since])
    BY <1>1, <1>2
  <1>4. Seen' = Seen
    BY <1>3 DEF Seen
  <1> QED
    BY <1>4 DEF Unseen

LEMMA IdleFor ==
  ASSUME NEW k, NEW at
  PROVE  HandlerFor(k, at, Idle)
  <1>1. Idle.pc = "idle"
    BY DEF Idle
  <1> QED
    BY <1>1 DEF HandlerFor

LEMMA RecordNotEmpty ==
  ASSUME NEW a, NEW b
  PROVE  [req |-> a, since |-> b] # <<>>
  OBVIOUS

(* One handler answers. *)
LEMMA AnswersFor ==
  ASSUME RenderInv, TimesInv, NEW c \in Clients, rq[c].pc # "idle", NEW code, NEW body, Reply(c, code, body),
         code = 200 /\ AllTold(conf, rq[c].req) => Service!Snapshot(rq[c].req, rq[c].since, body),
         UNCHANGED <<conf, now>>, BackFor(conf, now, backCache'), RespFor(conf, now, respCache'),
         WritesFor(conf, now, writes')
  PROVE  TimesInv' /\ Service!Answer(c)
  <1>1. rq' = [rq EXCEPT ![c] = Idle] /\ answer' = [answer EXCEPT ![c] = [code |-> code, body |-> body]]
    BY DEF Reply
  <1>2. TimesInv'
    BY <1>1, IdleFor, MovesFor
  <1>3. \A d \in Clients : rq'[d] = IF d = c THEN Idle ELSE rq[d]
    BY <1>1 DEF RenderInv
  <1>4. rq[c] # Idle
    BY DEF Idle
  <1> DEFINE old == [d \in Clients |-> IF rq[d] = Idle THEN <<>> ELSE [req |-> rq[d].req, since |-> rq[d].since]]
             new == [d \in Clients |-> IF rq'[d] = Idle THEN <<>> ELSE [req |-> rq'[d].req, since |-> rq'[d].since]]
  <1>5. old[c] = [req |-> rq[c].req, since |-> rq[c].since] /\ DOMAIN old = Clients
    BY <1>4
  <1>6. old[c] # <<>> /\ old[c].req = rq[c].req /\ old[c].since = rq[c].since
    BY <1>5, RecordNotEmpty
  <1>7. new = [old EXCEPT ![c] = <<>>]
    BY <1>3
  <1>8. c \in DOMAIN answer
    BY DEF RenderInv
  <1>9. answer'[c].code = code /\ answer'[c].body = body /\ answer' = [answer EXCEPT ![c] = answer'[c]]
    BY <1>1, <1>8
  <1>10. Service!Determined(rq[c].req) = AllTold(conf, rq[c].req)
    BY ServiceTold
  <1> HIDE DEF old, new
  <1>11. answer'[c].code = 200 /\ Service!Determined(old[c].req) => Service!Snapshot(old[c].req, old[c].since, answer'[c].body)
    BY <1>6, <1>9, <1>10
  <1>12. Service!Answer(c)
    BY <1>6, <1>7, <1>9, <1>11 DEF Service!Answer, old, new
  <1> QED
    BY <1>2, <1>12

LEMMA FailureSeen ==
  ASSUME RenderInv, TimesInv, NEW c \in Clients, rq[c].pc # "idle", NEW code, code # 200, NEW body, Reply(c, code, body),
         UNCHANGED <<conf, now, respCache, backCache, writes>>
  PROVE  TimesInv' /\ Service!Answer(c)
  <1>1. BackFor(conf, now, backCache') /\ RespFor(conf, now, respCache') /\ WritesFor(conf, now, writes')
    BY DEF TimesInv
  <1> QED
    BY <1>1, AnswersFor

(* A client sends a request. *)
LEMMA SendSeen ==
  ASSUME RenderInv, TimesInv, NEW c \in Clients, NEW req \in conf.requests, Send(c, req)
  PROVE  TimesInv' /\ Service!Ask(c)
  <1> DEFINE x == [pc |-> "parse", req |-> req, since |-> now]
  <1>0. now \in Int /\ DOMAIN rq = Clients /\ DOMAIN answer = Clients /\ conf \in Scenarios
    BY DEF RenderInv
  <1>1. rq' = [rq EXCEPT ![c] = x] /\ answer' = [answer EXCEPT ![c] = <<>>] /\ rq[c] = Idle
        /\ UNCHANGED <<conf, now, respCache, backCache, writes>>
    BY DEF Send
  <1>2. x.pc = "parse" /\ {"req", "since"} \subseteq DOMAIN x /\ x.req = req /\ x.since = now /\ x # Idle
    BY DEF Idle
  <1> HIDE DEF x
  <1>3. HandlerFor(conf, now, x)
    <2>1. Open(now, x)
      BY <1>0, <1>2, TimeoutsTyped DEF Open
    <2> QED
      BY <1>2, <2>1 DEF HandlerFor
  <1>4. BackFor(conf, now, backCache') /\ RespFor(conf, now, respCache') /\ WritesFor(conf, now, writes')
    BY <1>1 DEF TimesInv
  <1>5. TimesInv'
    BY <1>1, <1>3, <1>4, MovesFor
  <1> DEFINE old == [d \in Clients |-> IF rq[d] = Idle THEN <<>> ELSE [req |-> rq[d].req, since |-> rq[d].since]]
             new == [d \in Clients |-> IF rq'[d] = Idle THEN <<>> ELSE [req |-> rq'[d].req, since |-> rq'[d].since]]
  <1>6. \A d \in Clients : rq'[d] = IF d = c THEN x ELSE rq[d]
    BY <1>0, <1>1
  <1>7. old[c] = <<>> /\ new[c] = [req |-> req, since |-> now] /\ DOMAIN old = Clients /\ DOMAIN new = Clients
    BY <1>1, <1>2, <1>6
  <1>8. \A d \in Clients : d # c => new[d] = old[d]
    BY <1>6
  <1>9. new[c] # <<>> /\ new[c].since = now
    BY <1>7, RecordNotEmpty
  <1>10. new = [old EXCEPT ![c] = new[c]]
    BY <1>6
  <1> HIDE DEF old, new
  <1>11. Service!Ask(c)
    BY <1>1, <1>7, <1>9, <1>10 DEF Service!Ask, old, new
  <1> QED
    BY <1>5, <1>11

LEMMA HitsAre ==
  ASSUME NEW cache, NEW key, NEW v \in Hits(cache, key)
  PROVE  key \in DOMAIN cache /\ v = cache[key].value /\ Good(cache[key])
  BY DEF Hits

(* The answer is in the response cache. *)
LEMMA CachedSeen ==
  ASSUME RenderInv, TimesInv, NEW c \in Clients, AnswerCached(c)
  PROVE  TimesInv' /\ Service!Answer(c)
  <1> DEFINE r == rq[c]
             req == r.req
             key == ResponseKey(req, FormSpan(conf, req, now))
  <1>0. /\ conf \in Scenarios /\ now \in Int /\ HandlerOK(conf, r) /\ HandlerFor(conf, now, r)
        /\ r.pc = "parse" /\ UNCHANGED <<conf, now, respCache, backCache, writes>>
    BY DEF RenderInv, TimesInv, AnswerCached, Admissible
  <1>1. req \in conf.requests /\ Open(now, r)
    BY <1>0 DEF HandlerOK, HandlerFor
  <1>2. PICK body \in Hits(respCache, key) : Reply(c, 200, body)
    BY DEF AnswerCached
  <1> DEFINE e == respCache[key]
  <1>3. key \in DOMAIN respCache /\ body = e.value /\ Good(e)
    BY <1>2, HitsAre
  <1>4. RespEntry(conf, now, key, e)
    BY <1>3 DEF TimesInv, RespFor
  <1>5. PICK s \in Int, a \in TimeoutsOf(conf, conf.resp) :
          /\ RespFrom(conf, now, key, e.value, s)
          /\ NoForever(conf) => e.till # Forever
          /\ Until(e.till, s + Age(conf, a))
    BY <1>4 DEF RespEntry
  <1>6. PICK q \in conf.requests, t \in s..now, b \in TimeoutsOf(conf, conf.back) :
          /\ key = RKey(conf, q, FormSpan(conf, q, t))
          /\ body.format = q.format /\ body.view = q.view
          /\ ResultsOK(conf, BKey(conf, q, SpanOf(conf, q, t)), s - Age(conf, b), now, body)
    BY <1>3, <1>5 DEF RespFrom
  <1>7. a \in Int /\ b \in Int /\ Latency \in Nat /\ Lag \in Nat
    BY <1>0, TimeoutsTyped
  <1>8. key = RKey(conf, req, FormSpan(conf, req, now))
    BY KeysAre
  <1> HIDE DEF key, e
  <1>9. ASSUME AllTold(conf, req) PROVE Service!Snapshot(req, r.since, body)
    <2>1. NoForever(conf)
      BY <1>1, <1>9 DEF AllTold, ToldIn, NoForever
    <2>2. now <= s + Age(conf, a)
      <3>1. e.till # Forever /\ now <= e.till[1]
        BY <1>3, <1>5, <2>1 DEF Good
      <3>2. e.till[1] \in Int /\ e.till[1] <= s + Age(conf, a)
        BY <1>5, <3>1 DEF Until
      <3>3. Age(conf, a) \in Int
        BY <1>0, <1>7, AgeTyped
      <3> QED
        BY <1>0, <3>1, <3>2, <3>3
    <2> DEFINE lag == IF conf.cache = "memcached" THEN Lag ELSE 0
               low == s - Age(conf, b)
    <2>3. lag \in Nat /\ Age(conf, a) = a + Latency + lag /\ Age(conf, b) = b + Latency + lag
      BY <1>0, <1>7, AgeTyped
    <2>4. Service!Delay = 2 * Latency + 2 * lag
      BY <1>7 DEF Service!Delay
    <2> HIDE DEF lag
    <2>5. low \in Int
      BY <1>0, <1>7, <2>3
    <2>6. r.since \in Int /\ r.since <= now
      BY <1>1 DEF Open
    <2>7. r.since - (a + b + Service!Delay) <= low
      BY <1>0, <1>7, <2>2, <2>3, <2>4, <2>6
    <2> HIDE DEF low
    <2>8. ResultsOK(conf, BKey(conf, q, SpanOf(conf, q, t)), low, now, body)
      BY <1>6 DEF low
    <2>9. now \in low..now
      <3>1. PICK o, x : ResultsFrom(conf, BKey(conf, q, SpanOf(conf, q, t)), low, now, body, o, x)
        BY <2>8 DEF ResultsOK
      <3>2. x \in low..now
        BY <3>1 DEF ResultsFrom
      <3> QED
        BY <1>0, <2>5, <3>2
    <2>10. RKey(conf, q, FormSpan(conf, q, t)) = RKey(conf, req, FormSpan(conf, req, now))
      BY <1>6, <1>8
    <2>11. Shows(conf, low, now, req, body)
      BY <1>1, <1>6, <1>9, <2>8, <2>9, <2>10, KeysShow
    <2> QED
      BY <1>0, <1>7, <2>5, <2>6, <2>7, <2>11, ServiceShows
  <1>10. BackFor(conf, now, backCache') /\ RespFor(conf, now, respCache') /\ WritesFor(conf, now, writes')
    BY <1>0 DEF TimesInv
  <1> QED
    BY <1>0, <1>2, <1>9, <1>10, AnswersFor

(* The request fails, or its times and keys are computed. *)
LEMMA AdmitSeen ==
  ASSUME RenderInv, TimesInv, NEW c \in Clients, Admit(c)
  PROVE  TimesInv' /\ Unseen
  <1> DEFINE r == rq[c]
             req == r.req
             form == FormSpan(conf, req, now)
             span == SpanOf(conf, req, now)
             frame == Frame({}, {}, TopJobs(TargetsOf(req), span))
             x == [pc |-> "lookup", req |-> req, since |-> r.since, span |-> span,
                   respKey |-> ResponseKey(req, form), backKey |-> BackendKey(req, span),
                   respTimeout |-> CacheTimeout(req, form, conf.resp),
                   backTimeout |-> CacheTimeout(req, form, conf.back),
                   results |-> Results(req, span), codes |-> {},
                   stack |-> <<frame>>, job |-> <<>>, fresh |-> TRUE]
  <1>0. /\ conf \in Scenarios /\ now \in Int /\ HandlerOK(conf, r) /\ HandlerFor(conf, now, r)
        /\ r.pc = "parse" /\ UNCHANGED <<conf, now, answer, respCache, backCache, writes>>
        /\ rq' = [rq EXCEPT ![c] = x]
    BY DEF RenderInv, TimesInv, Admit, NotCached, Admissible
  <1>1. req \in conf.requests /\ Open(now, r)
    BY <1>0 DEF HandlerOK, HandlerFor
  <1>2. /\ x.pc = "lookup" /\ x.req = req /\ x.since = r.since /\ x.span = span
        /\ x.respKey = ResponseKey(req, form) /\ x.backKey = BackendKey(req, span)
        /\ x.respTimeout = CacheTimeout(req, form, conf.resp)
        /\ x.backTimeout = CacheTimeout(req, form, conf.back)
        /\ x.results = Results(req, span) /\ x.stack = <<frame>>
        /\ {"req", "since", "span", "respKey", "backKey", "respTimeout", "backTimeout", "results"} \subseteq DOMAIN x
    BY Zenon
  <1> HIDE DEF x
  <1>3. Open(now, x)
    BY <1>1, <1>2 DEF Open
  <1>4. Admitted(conf, now, x)
    <2>1. now \in r.since..now
      BY <1>0, <1>1 DEF Open
    <2>2. x.respKey = RKey(conf, req, form) /\ x.backKey = BKey(conf, req, span)
      BY <1>2, KeysAre
    <2>3. x.backTimeout \in TimeoutsOf(conf, conf.back) /\ RespTimeout(conf, x.respTimeout)
      BY <1>0, <1>1, <1>2, TimeoutKnown, RespTimeoutKnown
    <2> QED
      BY <1>2, <2>1, <2>2, <2>3 DEF Admitted
  <1>5. OwnWork(conf, now, x)
    <2> DEFINE tg == TargetsOf(req)
    <2>1. AllTargets(conf.targets) /\ tg \in Seq(conf.targets)
      BY <1>0, <1>1, ConfKnown, RequestTyped
    <2>2. \A j \in Range(TopJobs(tg, span)) : JobFor(conf, tg, j)
      BY <2>1, TopJobsBelong
    <2>3. JobsIn(<<frame>>) = Range(frame.jobs) /\ ValuesIn(<<frame>>) = frame.values
      <3> HIDE DEF frame
      <3>1. DOMAIN <<frame>> = {1} /\ <<frame>>[1] = frame
        OBVIOUS
      <3> DEFINE st == <<frame>>
      <3> HIDE DEF st
      <3>2. JobsIn(st) = Range(frame.jobs) /\ ValuesIn(st) = frame.values
        BY <3>1 DEF JobsIn, ValuesIn, st
      <3> QED
        BY <3>2 DEF st
    <2>4. frame.jobs = TopJobs(tg, span) /\ frame.values = {}
      BY DEF Frame
    <2>5. StackFor(conf, tg, x.since, now, <<frame>>)
      BY <2>2, <2>3, <2>4 DEF StackFor
    <2> DEFINE res == Results(req, span)
    <2>6. /\ res.targets = tg /\ res.points = req.points /\ res.span = span
          /\ {"targets", "points", "span"} \subseteq DOMAIN res
          /\ res.found = [i \in DOMAIN tg |-> {}]
      BY DEF Results
    <2>7. FoundOK(conf, tg, x.since, now, res.found)
      BY <2>6 DEF FoundOK
    <2> HIDE DEF res, frame, span
    <2> QED
      BY <1>2, <2>5, <2>6, <2>7 DEF OwnWork, res
  <1>6. HandlerFor(conf, now, x)
    BY <1>2, <1>3, <1>4, <1>5 DEF HandlerFor
  <1>7. BackFor(conf, now, backCache') /\ RespFor(conf, now, respCache') /\ WritesFor(conf, now, writes')
    BY <1>0 DEF TimesInv
  <1> QED
    BY <1>0, <1>2, <1>6, <1>7, MovesFor, UnseenMove

(* The results of a handler are those of a request with its key. *)
LEMMA OwnResults ==
  ASSUME NEW k, NEW at, NEW r, Open(at, r), Admitted(k, at, r), OwnWork(k, at, r), r.req \in k.requests
  PROVE  ResultsOK(k, r.backKey, r.since, at, r.results)
  <1>1. PICK t \in r.since..at : r.span = SpanOf(k, r.req, t)
    BY DEF Admitted
  <1>2. ResultsFrom(k, r.backKey, r.since, at, r.results, r.req, t)
    BY <1>1 DEF ResultsFrom, Admitted, OwnWork
  <1> QED
    BY <1>2 DEF ResultsOK

(* A handler at work goes on, the caches stay. *)
LEMMA WorkSeen ==
  ASSUME RenderInv, TimesInv, NEW c \in Clients, NEW x, rq' = [rq EXCEPT ![c] = x], rq[c].pc # "idle",
         x.pc # "idle", HandlerFor(conf, now, x), x.req = rq[c].req, x.since = rq[c].since,
         UNCHANGED <<conf, now, answer, respCache, backCache, writes>>
  PROVE  TimesInv' /\ Unseen
  <1>1. BackFor(conf, now, backCache') /\ RespFor(conf, now, respCache') /\ WritesFor(conf, now, writes')
    BY DEF TimesInv
  <1> QED
    BY <1>1, MovesFor, UnseenMove

LEMMA WorkingNow ==
  ASSUME RenderInv, TimesInv, NEW c \in Clients, rq[c].pc \in {"lookup", "next", "fetch", "eval"}
  PROVE  /\ Working(conf, now, rq[c]) /\ rq[c].req \in conf.requests /\ AllTargets(conf.targets)
         /\ rq[c].pc \in {"fetch", "eval"} =>
              rq[c].job[1] \in Works(conf.targets) /\ JobFor(conf, TargetsOf(rq[c].req), rq[c].job[1])
  <1>1. conf \in Scenarios /\ HandlerOK(conf, rq[c]) /\ HandlerFor(conf, now, rq[c])
    BY DEF RenderInv, TimesInv
  <1>2. Doing(conf.targets, rq[c]) /\ rq[c].req \in conf.requests
    BY <1>1 DEF HandlerOK
  <1>3. Open(now, rq[c]) /\ Admitted(conf, now, rq[c]) /\ OwnWork(conf, now, rq[c])
    BY <1>1 DEF HandlerFor
  <1>4. rq[c].pc \in {"fetch", "eval"} =>
              rq[c].job[1] \in Works(conf.targets) /\ JobFor(conf, TargetsOf(rq[c].req), rq[c].job[1])
    BY <1>1 DEF HandlerOK, HandlerFor
  <1> QED
    BY <1>1, <1>2, <1>3, <1>4, ConfKnown DEF Working

(* A handler that continues with its next job. *)
LEMMA NextSeen ==
  ASSUME RenderInv, TimesInv, NEW c \in Clients, rq[c].pc # "idle",
         NEW r, Working(conf, now, r), r.req = rq[c].req, r.since = rq[c].since,
         NEW x, Continues(conf, now, r, x), x.pc = "next", rq' = [rq EXCEPT ![c] = x],
         UNCHANGED <<conf, now, answer, respCache, backCache, writes>>
  PROVE  TimesInv' /\ Unseen
  <1>1. Open(now, x) /\ Admitted(conf, now, x) /\ OwnWork(conf, now, x)
    BY ContinuesFor
  <1>2. HandlerFor(conf, now, x)
    BY <1>1 DEF HandlerFor
  <1>3. x.req = rq[c].req /\ x.since = rq[c].since
    BY DEF Continues, Same
  <1> QED
    BY <1>2, <1>3, WorkSeen

LEMMA LookupSeen ==
  ASSUME RenderInv, TimesInv, NEW c \in Clients, LookupHit(c) \/ LookupMiss(c)
  PROVE  TimesInv' /\ Unseen
  <1> DEFINE r == rq[c]
  <1>0. /\ conf \in Scenarios /\ now \in Int /\ r.pc = "lookup"
        /\ UNCHANGED <<conf, now, answer, respCache, backCache, writes>>
    BY DEF RenderInv, LookupHit, LookupMiss
  <1>1. Working(conf, now, r) /\ r.req \in conf.requests
    BY <1>0, WorkingNow
  <1>2. /\ {"pc", "req", "since", "span", "respKey", "backKey", "respTimeout", "backTimeout",
            "results", "codes", "stack", "job"} \subseteq DOMAIN r
        /\ {"targets", "points", "span", "found", "lost"} \subseteq DOMAIN r.results
        /\ StackFor(conf, TargetsOf(r.req), r.since, now, r.stack)
        /\ FoundOK(conf, TargetsOf(r.req), r.since, now, r.results.found)
    BY <1>1, WorkingFields
  <1>3. CASE LookupHit(c)
    <2>1. PICK results \in Hits(backCache, r.backKey) :
            rq' = [rq EXCEPT ![c].pc = "reply", ![c].results = results, ![c].fresh = FALSE]
      BY <1>3 DEF LookupHit
    <2> DEFINE x == [[[r EXCEPT !.pc = "reply"] EXCEPT !.results = results] EXCEPT !.fresh = FALSE]
               e == backCache[r.backKey]
    <2>2. rq' = [rq EXCEPT ![c] = x]
      BY <2>1 DEF RenderInv
    <2>3. r.backKey \in DOMAIN backCache /\ results = e.value /\ Good(e)
      BY <2>1, HitsAre
    <2>4. BackEntry(conf, now, r.backKey, e)
      BY <2>3 DEF TimesInv, BackFor
    <2>5. /\ DOMAIN x = DOMAIN r /\ x.pc = "reply" /\ x.req = r.req /\ x.since = r.since /\ x.span = r.span
          /\ x.respKey = r.respKey /\ x.backKey = r.backKey
          /\ x.respTimeout = r.respTimeout /\ x.backTimeout = r.backTimeout /\ x.results = results
      BY <1>2
    <2> HIDE DEF x, e
    <2>6. PICK s \in Int, b \in TimeoutsOf(conf, conf.back) :
            BackFrom(conf, now, r.backKey, e.value, s) /\ e.till # Forever /\ Until(e.till, s + Age(conf, b))
      BY <2>4 DEF BackEntry
    <2>7. Age(conf, b) \in Int
      BY <1>0, TimeoutsTyped, AgeTyped
    <2>8. now <= s + Age(conf, b)
      <3>1. now <= e.till[1] /\ e.till[1] \in Int /\ e.till[1] <= s + Age(conf, b)
        BY <2>3, <2>6 DEF Good, Until
      <3> QED
        BY <1>0, <2>7, <3>1
    <2>9. r.since \in Int /\ r.since <= now
      BY <1>1 DEF Working, Open
    <2> DEFINE low == r.since - Age(conf, b)
    <2>10. low \in Int /\ low <= s
      BY <1>0, <2>7, <2>8, <2>9
    <2> HIDE DEF low
    <2>11. ResultsOK(conf, r.backKey, s, now, results)
      BY <2>3, <2>6 DEF BackFrom
    <2>12. ResultsOK(conf, r.backKey, low, now, results)
      BY <1>0, <2>10, <2>11, ResultsWider
    <2>13. Open(now, x)
      BY <1>1, <2>5 DEF Working, Open
    <2>14. Admitted(conf, now, x)
      BY <1>1, <2>5 DEF Working, Admitted
    <2>15. HandlerFor(conf, now, x)
      BY <2>5, <2>12, <2>13, <2>14 DEF HandlerFor, low
    <2> QED
      BY <1>0, <2>2, <2>5, <2>15, WorkSeen
  <1>4. CASE LookupMiss(c)
    <2> DEFINE x == [r EXCEPT !.pc = "next"]
    <2>1. rq' = [rq EXCEPT ![c] = x]
      BY <1>4 DEF LookupMiss
    <2>2. x.pc = "next" /\ Same(r, x) /\ x.results = r.results /\ x.stack = r.stack
      BY <1>2 DEF Same
    <2> HIDE DEF x
    <2>3. Continues(conf, now, r, x)
      BY <1>2, <2>2 DEF Continues
    <2> QED
      BY <1>0, <1>1, <2>1, <2>2, <2>3, NextSeen
  <1> QED
    BY <1>3, <1>4

LEMMA JobSeen ==
  ASSUME RenderInv, TimesInv, NEW c \in Clients, Enter(c) \/ GiveUp(c)
  PROVE  TimesInv' /\ Unseen
  <1> DEFINE r == rq[c]
             T == conf.targets
             tg == TargetsOf(r.req)
  <1>0. /\ HasJob(c) /\ UNCHANGED <<conf, now, answer, respCache, backCache, writes>>
    BY DEF Enter, GiveUp
  <1>1. r.pc = "next" /\ Last(r.stack).jobs # <<>>
    BY <1>0 DEF HasJob, Top
  <1>2. Working(conf, now, r)
    BY <1>1, WorkingNow
  <1>3. /\ {"pc", "req", "since", "span", "respKey", "backKey", "respTimeout", "backTimeout",
            "results", "codes", "stack", "job"} \subseteq DOMAIN r
        /\ {"targets", "points", "span", "found", "lost"} \subseteq DOMAIN r.results
        /\ StackOK(T, r.stack) /\ StackFor(conf, tg, r.since, now, r.stack)
        /\ FoundOK(conf, tg, r.since, now, r.results.found)
    BY <1>2, WorkingFields
  <1>4. /\ NextJob(c) \in JobsIn(r.stack)
        /\ JobsIn(TakeJob(c)) \subseteq JobsIn(r.stack) /\ ValuesIn(TakeJob(c)) = ValuesIn(r.stack)
    BY <1>1, <1>3, TakenWithin DEF NextJob, TakeJob, Top
  <1>5. StackOK(T, TakeJob(c))
    BY <1>1, <1>3, JobTaken DEF TakeJob, Top
  <1>6. JobFor(conf, tg, NextJob(c)) /\ StackFor(conf, tg, r.since, now, TakeJob(c))
    BY <1>3, <1>4 DEF StackFor
  <1>7. CASE Enter(c)
    <2> DEFINE x == [[[r EXCEPT !.pc = "fetch"] EXCEPT !.job = <<NextJob(c)>>] EXCEPT !.stack = TakeJob(c)]
    <2>1. rq' = [rq EXCEPT ![c] = x]
      BY <1>7 DEF RenderInv, Enter
    <2>2. /\ Same(r, x) /\ x.pc = "fetch" /\ x.results = r.results /\ x.stack = TakeJob(c) /\ x.job = <<NextJob(c)>>
      BY <1>3 DEF Same
    <2>3. x.job[1] = NextJob(c)
      BY <2>2
    <2> HIDE DEF x
    <2>4. Continues(conf, now, r, x)
      BY <1>3, <1>6, <2>2 DEF Continues
    <2>5. Open(now, x) /\ Admitted(conf, now, x) /\ OwnWork(conf, now, x)
      BY <1>2, <2>4, ContinuesFor
    <2>6. x.req = r.req /\ x.since = r.since
      BY <2>2 DEF Same
    <2>7. HandlerFor(conf, now, x)
      BY <1>6, <2>2, <2>3, <2>5, <2>6 DEF HandlerFor
    <2> QED
      BY <1>0, <1>1, <2>1, <2>2, <2>6, <2>7, WorkSeen
  <1>8. CASE GiveUp(c)
    <2> DEFINE base == [r EXCEPT !.results.lost = TRUE]
               x == FetchFails(base, NextJob(c), 500, TakeJob(c))
    <2>1. rq' = [rq EXCEPT ![c] = x]
      BY <1>8 DEF GiveUp
    <2>2. Working(conf, now, base)
      BY <1>2, NotedContinues
    <2>3. base.req = r.req /\ base.since = r.since
      BY <1>3
    <2> HIDE DEF base
    <2>4. Continues(conf, now, base, x)
      BY <1>5, <1>6, <2>2, <2>3, FetchFailsContinues
    <2>5. x.pc = "next"
      <3>1. Doing(T, base)
        BY <2>2 DEF Working
      <3>2. GoesOn(T, base, x)
        <4>1. 500 \in HandlerCodes
          BY DEF HandlerCodes
        <4> QED
          BY <1>5, <3>1, <4>1, FetchFailsKeeps
      <3> QED
        BY <3>2 DEF GoesOn
    <2> HIDE DEF x
    <2> QED
      BY <1>0, <1>1, <2>1, <2>2, <2>3, <2>4, <2>5, NextSeen
  <1> QED
    BY <1>7, <1>8

LEMMA EvalSeen ==
  ASSUME RenderInv, TimesInv, NEW c \in Clients, Eval(c)
  PROVE  TimesInv' /\ Unseen
  <1> DEFINE r == rq[c]
             x == EvalJob(r, r.job[1], Last(r.stack))
  <1>0. r.pc = "eval" /\ rq' = [rq EXCEPT ![c] = x] /\ UNCHANGED <<conf, now, answer, respCache, backCache, writes>>
    BY DEF Eval, Top
  <1>1. /\ Working(conf, now, r) /\ AllTargets(conf.targets)
        /\ r.job[1] \in Works(conf.targets) /\ JobFor(conf, TargetsOf(r.req), r.job[1])
    BY <1>0, WorkingNow
  <1>2. Continues(conf, now, r, x)
    BY <1>1, EvalContinues
  <1>3. x.pc = "next"
    BY <1>1, EvalKeeps DEF Working, GoesOn
  <1> HIDE DEF x
  <1> QED
    BY <1>0, <1>1, <1>2, <1>3, NextSeen

LEMMA FetchSeen ==
  ASSUME RenderInv, TimesInv, NEW c \in Clients, Fetch(c)
  PROVE  TimesInv' /\ Unseen
  <1> DEFINE r == rq[c]
             job == r.job[1]
             depth == Len(r.stack)
             top == Last(r.stack)
             plan == Plan(Arguments(job), job.span, top.keys)
             T == conf.targets
             tg == TargetsOf(r.req)
  <1>0. /\ conf \in Scenarios /\ now \in Int /\ r.pc = "fetch"
        /\ UNCHANGED <<conf, now, answer, respCache, backCache, writes>>
    BY DEF RenderInv, Fetch, FetchStep
  <1>1. Working(conf, now, r) /\ AllTargets(T) /\ job \in Works(T) /\ JobFor(conf, tg, job)
    BY <1>0, WorkingNow
  <1>2. /\ {"pc", "req", "since", "span", "respKey", "backKey", "respTimeout", "backTimeout",
            "results", "codes", "stack", "job"} \subseteq DOMAIN r
        /\ {"targets", "points", "span", "found", "lost"} \subseteq DOMAIN r.results
        /\ StackOK(T, r.stack) /\ StackFor(conf, tg, r.since, now, r.stack)
        /\ FoundOK(conf, tg, r.since, now, r.results.found)
    BY <1>1, WorkingFields
  <1>3. PICK out \in Gets(job, plan) :
          LET filed == {Filed(plan, s) : s \in out.series}
              values == top.values \cup filed
              mine == {e \in values : e.key \in plan.wanted}
              stack == [r.stack EXCEPT ![depth].values = values,
                                       ![depth].keys = @ \cup {e.key : e \in filed}]
          IN rq' = [rq EXCEPT ![c] =
               IF Misconsolidated(job) \/ (out.code >= 400 /\ ~HasFallback(job))
               THEN FetchFails([r EXCEPT !.results.lost = @ \/ out.lost], job, out.code, r.stack)
               ELSE [r EXCEPT !.pc = "eval", !.results.lost = @ \/ out.lost,
                              !.stack = Append(stack, Frame(plan.wanted, mine, <<>>))]]
    BY Zenon DEF Fetch, FetchStep, Top
  <1>4. PICK N : PlanRight(N, plan)
    <2>1. GoodArgs(Arguments(job)) /\ job.span \in Spans
      BY <1>1, ArgumentsGood, WorkParts
    <2> QED
      BY <2>1, PlanKeeps
  <1>5. OutcomeOK(conf, job, plan, out)
    BY <1>0, <1>3, <1>4, GetsRight
  <1> DEFINE lost == r.results.lost \/ out.lost
             base == [r EXCEPT !.results.lost = lost]
             filed == {Filed(plan, s) : s \in out.series}
             values == top.values \cup filed
             mine == {e \in values : e.key \in plan.wanted}
             keys == r.stack[depth].keys \cup {e.key : e \in filed}
             stack == [r.stack EXCEPT ![depth].values = values, ![depth].keys = keys]
             frame == Frame(plan.wanted, mine, <<>>)
             fails == Misconsolidated(job) \/ (out.code >= 400 /\ ~HasFallback(job))
             failed2 == FetchFails(base, job, out.code, r.stack)
             new == Append(stack, frame)
             went == [r EXCEPT !.pc = "eval", !.results.lost = lost, !.stack = new]
  <1>6. rq' = [rq EXCEPT ![c] = IF fails THEN failed2 ELSE went]
    BY <1>3
  <1> HIDE DEF plan
  <1>7. CASE fails
    <2>1. rq' = [rq EXCEPT ![c] = failed2]
      BY <1>6, <1>7, Zenon
    <2>2. Working(conf, now, base)
      BY <1>1, NotedContinues
    <2>3. base.req = r.req /\ base.since = r.since
      BY <1>2
    <2>4. out.code \in HandlerCodes
      BY <1>5, <1>7 DEF OutcomeOK, HandlerCodes
    <2> HIDE DEF base
    <2>5. Continues(conf, now, base, failed2)
      BY <1>2, <2>2, <2>3, FetchFailsContinues
    <2>6. failed2.pc = "next"
      <3>1. Doing(T, base)
        BY <2>2 DEF Working
      <3>2. GoesOn(T, base, failed2)
        BY <1>2, <2>4, <3>1, FetchFailsKeeps
      <3> QED
        BY <3>2 DEF GoesOn
    <2> HIDE DEF failed2
    <2> QED
      BY <1>0, <2>1, <2>2, <2>3, <2>5, <2>6, NextSeen
  <1>8. CASE ~fails
    <2>1. rq' = [rq EXCEPT ![c] = went]
      BY <1>6, <1>8, Zenon
    <2>2. ASSUME NEW e \in values PROVE EntryFor(r.since, now, e)
      <3>1. CASE e \in top.values
        <4>1. Len(r.stack) \in DOMAIN r.stack /\ top = r.stack[Len(r.stack)]
          BY <1>2, StackParts
        <4>2. e \in ValuesIn(r.stack)
          BY <3>1, <4>1 DEF ValuesIn
        <4> QED
          BY <1>2, <4>2 DEF StackFor
      <3>2. CASE e \in filed
        <4>1. PICK s \in out.series : e = Filed(plan, s)
          BY <3>2
        <4>2. e.name = s.name /\ e.at = now /\ e.key = FiledUnder(plan.cache, s)
          BY <4>1 DEF Filed
        <4>3. e.key.name = s.name
          BY <4>2 DEF FiledUnder, Request
        <4>4. now \in r.since..now
          BY <1>0, <1>1 DEF Working, Open
        <4> QED
          BY <4>2, <4>3, <4>4 DEF EntryFor
      <3> QED
        BY <3>1, <3>2
    <2>3. JobsIn(new) \subseteq JobsIn(r.stack) /\ ValuesIn(new) \subseteq ValuesIn(r.stack) \cup values
      <3>1. mine \in SUBSET values
        OBVIOUS
      <3> DEFINE wanted == plan.wanted
      <3> HIDE DEF values, mine, keys, wanted
      <3> QED
        BY <1>2, <3>1, FetchedWithin DEF wanted
    <2> HIDE DEF new, values
    <2>4. StackFor(conf, tg, r.since, now, new)
      BY <1>2, <2>2, <2>3 DEF StackFor
    <2>5. /\ Same(r, went) /\ went.pc = "eval" /\ went.stack = new /\ went.job = r.job
          /\ went.results.found = r.results.found
      BY <1>2 DEF Same
    <2> HIDE DEF went
    <2>6. Continues(conf, now, r, went)
      BY <1>2, <2>4, <2>5 DEF Continues
    <2>7. Open(now, went) /\ Admitted(conf, now, went) /\ OwnWork(conf, now, went)
      BY <1>1, <2>6, ContinuesFor
    <2>8. went.req = r.req /\ went.since = r.since
      BY <2>5 DEF Same
    <2>9. HandlerFor(conf, now, went)
      BY <1>1, <2>5, <2>7, <2>8 DEF HandlerFor
    <2> QED
      BY <1>0, <2>1, <2>5, <2>8, <2>9, WorkSeen
  <1> QED
    BY <1>7, <1>8

(* Entries stored with a timeout, in the cache in memory at once, in       *)
(* memcached when they arrive. *)
LEMMA PutBack ==
  ASSUME conf \in Scenarios, now \in Int, NEW cache, BackFor(conf, now, cache), NEW key, NEW v,
         NEW timeout \in TimeoutsOf(conf, conf.back), timeout > 0,
         NEW s \in Int, BackFrom(conf, now, key, v, s),
         now <= s + Latency + (IF conf.cache = "memcached" THEN Lag ELSE 0)
  PROVE  BackFor(conf, now, Put(cache, key, v, timeout))
  <1> DEFINE e == [value |-> v, till |-> Expiry(timeout)]
             new == Put(cache, key, v, timeout)
  <1>1. new = [x \in DOMAIN cache \cup {key} |-> IF x = key THEN e ELSE cache[x]]
    BY DEF Put
  <1>2. timeout \in Int /\ Latency \in Nat /\ Lag \in Nat
    BY TimeoutsTyped
  <1>3. Expiry(timeout) = <<now + timeout>>
    BY <1>2 DEF Expiry
  <1>4. e.value = v /\ e.till = <<now + timeout>>
    BY <1>3
  <1> HIDE DEF e, new
  <1>5. e.till # Forever /\ e.till[1] = now + timeout
    BY <1>4 DEF Forever
  <1>6. now + timeout <= s + Age(conf, timeout) /\ now + timeout \in Int
    BY <1>2, AgeTyped
  <1>7. BackEntry(conf, now, key, e)
    <2>1. Until(e.till, s + Age(conf, timeout))
      BY <1>5, <1>6 DEF Until
    <2> QED
      BY <1>4, <1>5, <2>1 DEF BackEntry
  <1>8. ASSUME NEW x \in DOMAIN new PROVE BackEntry(conf, now, x, new[x])
    <2>1. CASE x = key
      BY <1>1, <1>7, <2>1
    <2>2. CASE x # key
      BY <1>1, <2>2 DEF BackFor
    <2> QED
      BY <2>1, <2>2
  <1> QED
    BY <1>8 DEF BackFor, new

LEMMA PutResp ==
  ASSUME conf \in Scenarios, now \in Int, NEW cache, RespFor(conf, now, cache), NEW key, NEW v,
         NEW timeout, RespTimeout(conf, timeout),
         NEW s \in Int, RespFrom(conf, now, key, v, s),
         now <= s + Latency + (IF conf.cache = "memcached" THEN Lag ELSE 0)
  PROVE  RespFor(conf, now, Put(cache, key, v, timeout))
  <1> DEFINE e == [value |-> v, till |-> Expiry(timeout)]
             new == Put(cache, key, v, timeout)
  <1>1. new = [x \in DOMAIN cache \cup {key} |-> IF x = key THEN e ELSE cache[x]]
    BY DEF Put
  <1>2. timeout \in TimeoutsOf(conf, conf.resp) /\ 0 \in TimeoutsOf(conf, conf.resp)
    BY DEF RespTimeout, TimeoutsOf
  <1>3. timeout \in Int /\ Latency \in Nat /\ Lag \in Nat
    BY <1>2, TimeoutsTyped
  <1>4. e.value = v /\ e.till = Expiry(timeout)
    OBVIOUS
  <1> HIDE DEF e, new
  <1>5. RespEntry(conf, now, key, e)
    <2>1. CASE conf.cache = "memcached" /\ timeout = 0
      <3>1. ~NoForever(conf) /\ e.till = Forever
        BY <1>4, <2>1 DEF RespTimeout, Expiry
      <3>2. Until(e.till, s + Age(conf, timeout))
        BY <3>1 DEF Until
      <3> QED
        BY <1>2, <1>4, <3>1, <3>2 DEF RespEntry
    <2>2. CASE conf.cache = "memcached" /\ timeout < 0
      <3>1. e.till = <<now - 1>>
        BY <1>3, <1>4, <2>2 DEF Expiry
      <3>2. e.till # Forever /\ e.till[1] = now - 1
        BY <3>1 DEF Forever
      <3>3. now - 1 \in Int /\ now - 1 <= s + Age(conf, 0)
        BY <1>3, AgeTyped
      <3>4. Until(e.till, s + Age(conf, 0))
        BY <3>2, <3>3 DEF Until
      <3> QED
        BY <1>2, <1>4, <3>2, <3>4 DEF RespEntry
    <2>3. CASE ~(conf.cache = "memcached" /\ timeout = 0) /\ ~(conf.cache = "memcached" /\ timeout < 0)
      <3>1. e.till = <<now + timeout>>
        BY <1>4, <2>3 DEF Expiry
      <3>2. e.till # Forever /\ e.till[1] = now + timeout
        BY <3>1 DEF Forever
      <3>3. now + timeout \in Int /\ now + timeout <= s + Age(conf, timeout)
        BY <1>3, AgeTyped
      <3>4. Until(e.till, s + Age(conf, timeout))
        BY <3>2, <3>3 DEF Until
      <3> QED
        BY <1>2, <1>4, <3>2, <3>4 DEF RespEntry
    <2> QED
      BY <2>1, <2>2, <2>3
  <1>6. ASSUME NEW x \in DOMAIN new PROVE RespEntry(conf, now, x, new[x])
    <2>1. CASE x = key
      BY <1>1, <1>5, <2>1
    <2>2. CASE x # key
      BY <1>1, <2>2 DEF RespFor
    <2> QED
      BY <2>1, <2>2
  <1> QED
    BY <1>6 DEF RespFor, new

(* The results are stored, when all went well. *)
LEMMA StoreSeen ==
  ASSUME RenderInv, TimesInv, NEW c \in Clients, StoreResults(c)
  PROVE  TimesInv' /\ Unseen
  <1> DEFINE r == rq[c]
             store == r.codes = {} /\ r.backTimeout > 0
             x == [r EXCEPT !.pc = "reply"]
             w == Write("back", r.backKey, r.results, r.backTimeout)
             put == Set(backCache, r.backKey, r.results, r.backTimeout)
  <1>0. conf \in Scenarios /\ now \in Int /\ r.pc = "next" /\ UNCHANGED <<conf, now, answer, respCache>>
    BY DEF RenderInv, StoreResults
  <1>1. Working(conf, now, r) /\ r.req \in conf.requests
    BY <1>0, WorkingNow
  <1>2. /\ rq' = [rq EXCEPT ![c] = x]
        /\ backCache' = IF store THEN put ELSE backCache
        /\ writes' = SetLater(IF store THEN {w} ELSE {})
    BY DEF StoreResults
  <1>3. Open(now, r) /\ Admitted(conf, now, r) /\ OwnWork(conf, now, r)
    BY <1>1 DEF Working
  <1>4. ResultsOK(conf, r.backKey, r.since, now, r.results)
    BY <1>1, <1>3, OwnResults
  <1>5. r.since \in Int /\ r.since <= now /\ now <= r.since + Latency
    BY <1>3 DEF Open
  <1>6. BackFrom(conf, now, r.backKey, r.results, r.since)
    BY <1>4, <1>5 DEF BackFrom
  <1>7. Latency \in Nat /\ Lag \in Nat /\ r.backTimeout \in TimeoutsOf(conf, conf.back)
    BY <1>0, <1>3, TimeoutsTyped DEF Admitted
  <1>8. now <= r.since + Latency + (IF conf.cache = "memcached" THEN Lag ELSE 0)
    BY <1>0, <1>5, <1>7
  <1>9. {"pc", "req", "since", "span", "respKey", "backKey", "respTimeout", "backTimeout",
         "results", "codes", "stack", "job"} \subseteq DOMAIN r
    BY <1>1, WorkingFields
  <1>10. /\ DOMAIN x = DOMAIN r /\ x.pc = "reply" /\ x.req = r.req /\ x.since = r.since /\ x.span = r.span
         /\ x.respKey = r.respKey /\ x.backKey = r.backKey
         /\ x.respTimeout = r.respTimeout /\ x.backTimeout = r.backTimeout /\ x.results = r.results
    BY <1>9
  <1> HIDE DEF x
  <1>11. HandlerFor(conf, now, x)
    <2>1. Open(now, x)
      BY <1>3, <1>10 DEF Open
    <2>2. Admitted(conf, now, x)
      BY <1>3, <1>10 DEF Admitted
    <2>3. 0 \in TimeoutsOf(conf, conf.back) /\ Age(conf, 0) \in Nat
      BY <1>0, <1>7, AgeTyped DEF TimeoutsOf
    <2> DEFINE low == r.since - Age(conf, 0)
    <2>4. low \in Int /\ low <= r.since
      BY <1>5, <2>3
    <2> HIDE DEF low
    <2>5. ResultsOK(conf, r.backKey, low, now, r.results)
      BY <1>0, <1>4, <1>5, <2>4, ResultsWider
    <2> QED
      BY <1>10, <2>1, <2>2, <2>3, <2>5 DEF HandlerFor, low
  <1>12. BackFor(conf, now, backCache)  /\ RespFor(conf, now, respCache) /\ WritesFor(conf, now, writes)
    BY DEF TimesInv
  <1>13. BackFor(conf, now, backCache')
    <2>1. CASE store /\ conf.cache = "mem"
      <3>1. backCache' = Put(backCache, r.backKey, r.results, r.backTimeout)
        BY <1>2, <2>1 DEF Set
      <3> QED
        BY <1>0, <1>5, <1>6, <1>7, <1>8, <1>12, <2>1, <3>1, PutBack
    <2>2. CASE ~(store /\ conf.cache = "mem")
      <3>1. backCache' = backCache
        BY <1>2, <2>2 DEF Set
      <3> QED
        BY <1>12, <3>1
    <2> QED
      BY <2>1, <2>2
  <1>14. WritesFor(conf, now, writes')
    <2>1. CASE store /\ conf.cache = "memcached"
      <3>1. writes' = writes \cup {w}
        BY <1>2, <2>1 DEF SetLater
      <3>2. w.which = "back" /\ w.key = r.backKey /\ w.value = r.results /\ w.timeout = r.backTimeout /\ w.since = now
        BY DEF Write
      <3> HIDE DEF w
      <3>3. WriteFor(conf, now, w)
        BY <1>0, <1>5, <1>6, <1>7, <2>1, <3>2 DEF WriteFor
      <3> QED
        BY <1>12, <3>1, <3>3 DEF WritesFor
    <2>2. CASE ~(store /\ conf.cache = "memcached")
      <3>1. writes' = writes
        BY <1>2, <2>2 DEF SetLater
      <3> QED
        BY <1>12, <3>1
    <2> QED
      BY <2>1, <2>2
  <1>15. RespFor(conf, now, respCache')
    BY <1>0, <1>12
  <1> QED
    BY <1>0, <1>2, <1>10, <1>11, <1>13, <1>14, <1>15, MovesFor, UnseenMove

(* The answer is written and stored. *)
LEMMA RespondSeen ==
  ASSUME RenderInv, TimesInv, NEW c \in Clients, Respond(c)
  PROVE  TimesInv' /\ Service!Answer(c)
  <1> DEFINE r == rq[c]
             code == ReturnCode(r)
             store == ~Stops(code) /\ ~NoResults(r)
             full == Body(r)
             w == Write("resp", r.respKey, full, r.respTimeout)
             put == Set(respCache, r.respKey, full, r.respTimeout)
             body == IF Stops(code) THEN <<>> ELSE full
  <1>0. /\ conf \in Scenarios /\ now \in Int /\ r.pc = "reply" /\ UNCHANGED <<conf, now, backCache>>
        /\ HandlerOK(conf, r) /\ HandlerFor(conf, now, r)
    BY DEF RenderInv, TimesInv, Respond
  <1>1. r.req \in conf.requests /\ Open(now, r) /\ Admitted(conf, now, r)
    BY <1>0 DEF HandlerOK, HandlerFor
  <1>2. PICK b \in TimeoutsOf(conf, conf.back) : ResultsOK(conf, r.backKey, r.since - Age(conf, b), now, r.results)
    BY <1>0 DEF HandlerFor
  <1>3. /\ Reply(c, code, body)
        /\ respCache' = IF store THEN put ELSE respCache
        /\ writes' = SetLater(IF store THEN {w} ELSE {})
    BY DEF Respond
  <1>4. PICK t \in r.since..now : r.respKey = RKey(conf, r.req, FormSpan(conf, r.req, t)) /\ r.span = SpanOf(conf, r.req, t)
    BY <1>1 DEF Admitted
  <1>5. r.backKey = BKey(conf, r.req, SpanOf(conf, r.req, t)) /\ RespTimeout(conf, r.respTimeout)
    BY <1>1, <1>4 DEF Admitted
  <1>6. r.since \in Int /\ r.since <= now /\ now <= r.since + Latency
    BY <1>1 DEF Open
  <1>7. b \in Int /\ Latency \in Nat /\ Lag \in Nat /\ Age(conf, b) \in Int
    BY <1>0, TimeoutsTyped, AgeTyped
  <1>8. /\ full.targets = r.results.targets /\ full.points = r.results.points /\ full.span = r.results.span
        /\ full.found = r.results.found /\ full.format = r.req.format /\ full.view = r.req.view
    BY DEF Body
  <1> HIDE DEF full
  <1> DEFINE low == r.since - Age(conf, b)
             bkey == BKey(conf, r.req, SpanOf(conf, r.req, t))
  <1>9. ResultsOK(conf, bkey, low, now, full)
    <2>1. ResultsOK(conf, bkey, low, now, r.results)
      BY <1>2, <1>5
    <2> HIDE DEF low, bkey
    <2>2. PICK o, y : ResultsFrom(conf, bkey, low, now, r.results, o, y)
      BY <2>1 DEF ResultsOK
    <2>3. ResultsFrom(conf, bkey, low, now, full, o, y)
      BY <1>8, <2>2 DEF ResultsFrom
    <2> QED
      BY <2>3 DEF ResultsOK
  <1>10. RespFrom(conf, now, r.respKey, full, r.since)
    BY <1>1, <1>4, <1>6, <1>8, <1>9 DEF RespFrom
  <1>11. BackFor(conf, now, backCache) /\ RespFor(conf, now, respCache) /\ WritesFor(conf, now, writes)
    BY DEF TimesInv
  <1>12. now <= r.since + Latency + (IF conf.cache = "memcached" THEN Lag ELSE 0)
    BY <1>0, <1>6, <1>7
  <1>13. RespFor(conf, now, respCache')
    <2>1. CASE store /\ conf.cache = "mem"
      <3>1. respCache' = Put(respCache, r.respKey, full, r.respTimeout)
        BY <1>3, <2>1 DEF Set
      <3> QED
        BY <1>0, <1>5, <1>6, <1>10, <1>11, <1>12, <3>1, PutResp
    <2>2. CASE ~(store /\ conf.cache = "mem")
      <3>1. respCache' = respCache
        BY <1>3, <2>2 DEF Set
      <3> QED
        BY <1>11, <3>1
    <2> QED
      BY <2>1, <2>2
  <1>14. WritesFor(conf, now, writes')
    <2>1. CASE store /\ conf.cache = "memcached"
      <3>1. writes' = writes \cup {w}
        BY <1>3, <2>1 DEF SetLater
      <3>2. w.which = "resp" /\ w.key = r.respKey /\ w.value = full /\ w.timeout = r.respTimeout /\ w.since = now
        BY DEF Write
      <3> HIDE DEF w
      <3>3. WriteFor(conf, now, w)
        BY <1>0, <1>5, <1>6, <1>7, <1>10, <2>1, <3>2 DEF WriteFor
      <3> QED
        BY <1>11, <3>1, <3>3 DEF WritesFor
    <2>2. CASE ~(store /\ conf.cache = "memcached")
      <3>1. writes' = writes
        BY <1>3, <2>2 DEF SetLater
      <3> QED
        BY <1>11, <3>1
    <2> QED
      BY <2>1, <2>2
  <1>15. BackFor(conf, now, backCache')
    BY <1>0, <1>11
  <1>16. ASSUME code = 200, AllTold(conf, r.req) PROVE Service!Snapshot(r.req, r.since, body)
    <2>1. body = full
      <3>1. ~Stops(200)
        BY DEF Stops
      <3> QED
        BY <1>16, <3>1
    <2>2. 0 \in TimeoutsOf(conf, conf.resp) /\ 0 \in TimeoutsOf(conf, conf.back)
      BY DEF TimeoutsOf
    <2>3. PICK a \in TimeoutsOf(conf, conf.back) : a \in Nat /\ a >= b
      <3>1. CASE b >= 0
        BY <1>7, <3>1
      <3>2. CASE b < 0
        BY <1>7, <2>2, <3>2
      <3> QED
        BY <1>7, <3>1, <3>2
    <2> DEFINE lag == IF conf.cache = "memcached" THEN Lag ELSE 0
               early == r.since - Age(conf, a)
    <2>4. lag \in Nat /\ Age(conf, b) = b + Latency + lag /\ Age(conf, a) = a + Latency + lag
      BY <1>0, <1>7, <2>3, AgeTyped
    <2>5. Service!Delay = 2 * Latency + 2 * lag
      BY <1>7 DEF Service!Delay
    <2> HIDE DEF lag
    <2>6. /\ low \in Int /\ early \in Int /\ early <= low /\ early <= r.since
          /\ r.since - (0 + a + Service!Delay) <= early
      BY <1>6, <1>7, <2>3, <2>4, <2>5
    <2> HIDE DEF low, early, bkey
    <2>7. ResultsOK(conf, bkey, early, now, full) /\ t \in early..now
      BY <1>0, <1>6, <1>9, <2>6, ResultsWider
    <2>8. Shows(conf, early, now, r.req, full)
      BY <1>1, <1>8, <1>16, <2>7, KeysShow DEF bkey
    <2>9. Service!Snapshot(r.req, r.since, full)
      BY <1>0, <1>6, <2>2, <2>3, <2>6, <2>8, ServiceShows
    <2> QED
      BY <2>1, <2>9
  <1> HIDE DEF code, body
  <1> QED
    BY <1>0, <1>3, <1>13, <1>14, <1>15, <1>16, AnswersFor

(* A write arrives at memcached. *)
LEMMA LandSeen ==
  ASSUME RenderInv, TimesInv, NEW w \in writes, Land(w)
  PROVE  TimesInv' /\ Unseen
  <1>0. /\ conf \in Scenarios /\ now \in Int /\ UNCHANGED <<conf, now, rq, answer>> /\ writes' = writes \ {w}
        /\ WriteFor(conf, now, w)
        /\ BackFor(conf, now, backCache) /\ RespFor(conf, now, respCache) /\ WritesFor(conf, now, writes)
    BY DEF RenderInv, TimesInv, Land, WritesFor
  <1>1. conf.cache = "memcached" /\ w.since \in Int /\ now <= w.since + Lag /\ Latency \in Nat /\ Lag \in Nat
    BY <1>0, TimeoutsTyped DEF WriteFor
  <1>2. BackFor(conf, now, backCache')
    <2>1. CASE w.which = "back"
      <3>1. PICK s \in Int : BackFrom(conf, now, w.key, w.value, s) /\ w.since <= s + Latency
        BY <1>0, <2>1 DEF WriteFor
      <3>2. w.timeout \in TimeoutsOf(conf, conf.back) /\ w.timeout > 0
        BY <1>0, <2>1 DEF WriteFor
      <3>3. now <= s + Latency + (IF conf.cache = "memcached" THEN Lag ELSE 0)
        BY <1>0, <1>1, <3>1
      <3>4. backCache' = Put(backCache, w.key, w.value, w.timeout)
        BY <2>1 DEF Land
      <3> QED
        BY <1>0, <3>1, <3>2, <3>3, <3>4, PutBack
    <2>2. CASE w.which # "back"
      BY <1>0, <2>2 DEF Land
    <2> QED
      BY <2>1, <2>2
  <1>3. RespFor(conf, now, respCache')
    <2>1. CASE w.which = "resp"
      <3>1. PICK s \in Int : RespFrom(conf, now, w.key, w.value, s) /\ w.since <= s + Latency
        BY <1>0, <2>1 DEF WriteFor
      <3>2. RespTimeout(conf, w.timeout)
        BY <1>0, <2>1 DEF WriteFor
      <3>3. now <= s + Latency + (IF conf.cache = "memcached" THEN Lag ELSE 0)
        BY <1>0, <1>1, <3>1
      <3>4. respCache' = Put(respCache, w.key, w.value, w.timeout)
        BY <2>1 DEF Land
      <3> QED
        BY <1>0, <3>1, <3>2, <3>3, <3>4, PutResp
    <2>2. CASE w.which # "resp"
      BY <1>0, <2>2 DEF Land
    <2> QED
      BY <2>1, <2>2
  <1>4. WritesFor(conf, now, writes')
    BY <1>0 DEF WritesFor
  <1>5. TimesInv'
    BY <1>0, <1>2, <1>3, <1>4 DEF TimesInv
  <1>6. Unseen
    BY <1>0 DEF Unseen, Seen
  <1> QED
    BY <1>5, <1>6

(* Answers with an error. *)
LEMMA ErrorsSeen ==
  ASSUME RenderInv, TimesInv, NEW c \in Clients, Reject(c) \/ EmptyRange(c) \/ ParseError(c) \/ EvalPanics(c)
  PROVE  TimesInv' /\ Service!Answer(c)
  <1>1. CASE Reject(c)
    <2>1. PICK code : Reply(c, code, <<>>) /\ code # 200
      BY <1>1 DEF Reject, Dropped
    <2>2. rq[c].pc # "idle" /\ UNCHANGED <<conf, now, respCache, backCache, writes>>
      BY <1>1 DEF Reject
    <2> QED
      BY <2>1, <2>2, FailureSeen
  <1>2. CASE EmptyRange(c)
    <2>1. Reply(c, 400, <<>>) /\ UNCHANGED <<conf, now, respCache, backCache, writes>> /\ rq[c].pc # "idle"
      BY <1>2 DEF EmptyRange, NotCached, Admissible
    <2> QED
      BY <2>1, 400 # 200, FailureSeen
  <1>3. CASE ParseError(c)
    <2>1. Reply(c, 400, <<>>) /\ UNCHANGED <<conf, now, respCache, backCache, writes>> /\ rq[c].pc # "idle"
      BY <1>3 DEF ParseError, HasJob
    <2> QED
      BY <2>1, 400 # 200, FailureSeen
  <1>4. CASE EvalPanics(c)
    <2>1. Reply(c, 500, <<>>) /\ UNCHANGED <<conf, now, respCache, backCache, writes>> /\ rq[c].pc # "idle"
      BY <1>4 DEF EvalPanics
    <2> QED
      BY <2>1, 500 # 200, FailureSeen
  <1> QED
    BY <1>1, <1>2, <1>3, <1>4

(* Every step keeps the times in their bounds and is a step of the service *)
(* or none. *)
LEMMA StepSeen ==
  ASSUME RenderInv, TimesInv, [Next]_vars
  PROVE  TimesInv' /\ (Service!Next \/ Unseen)
  <1>1. ASSUME NEW c \in Clients, NEW req \in conf.requests, Send(c, req)
        PROVE  TimesInv' /\ Service!Ask(c)
    BY <1>1, SendSeen
  <1>2. ASSUME NEW c \in Clients, Handle(c) \/ Enter(c) \/ GiveUp(c)
        PROVE  TimesInv' /\ (Service!Answer(c) \/ Unseen)
    BY <1>2, ErrorsSeen, CachedSeen, AdmitSeen, LookupSeen, JobSeen, FetchSeen, EvalSeen, StoreSeen, RespondSeen
    DEF Handle
  <1>3. ASSUME NEW w \in writes, Land(w) PROVE TimesInv' /\ Unseen
    BY <1>3, LandSeen
  <1>4. CASE Tick
    <2>1. TimesInv'
      BY <1>4, TickTimes
    <2>2. Service!Tick
      BY <1>4 DEF Tick, Service!Tick
    <2> QED
      BY <2>1, <2>2 DEF Service!Next
  <1>5. CASE UNCHANGED vars
    <2>1. UNCHANGED <<conf, now, rq, answer, respCache, backCache, writes>>
      BY <1>5 DEF vars
    <2>2. TimesInv'
      BY <2>1 DEF TimesInv
    <2>3. Unseen
      BY <2>1 DEF Unseen, Seen
    <2> QED
      BY <2>2, <2>3
  <1>6. \A c \in Clients : Service!Ask(c) \/ Service!Answer(c) => Service!Next
    BY DEF Service!Next
  <1>7. CASE Next
    <2>1. CASE \E c \in Clients : (\E req \in conf.requests : Send(c, req)) \/ Handle(c) \/ Enter(c) \/ GiveUp(c)
      <3>1. PICK c \in Clients : (\E req \in conf.requests : Send(c, req)) \/ Handle(c) \/ Enter(c) \/ GiveUp(c)
        BY <2>1
      <3>2. CASE \E req \in conf.requests : Send(c, req)
        BY <1>1, <1>6, <3>2
      <3>3. CASE Handle(c) \/ Enter(c) \/ GiveUp(c)
        BY <1>2, <1>6, <3>3
      <3> QED
        BY <3>1, <3>2, <3>3
    <2>2. CASE \E w \in writes : Land(w)
      BY <1>3, <2>2
    <2> QED
      BY <1>4, <1>7, <2>1, <2>2 DEF Next
  <1> QED
    BY <1>5, <1>7

(* The render handler with its two caches, the limiter, the evaluator and  *)
(* any faults of the backends implements the render service, for every     *)
(* configuration, every set of clients and requests and every clock: an    *)
(* answer fits its request and is no older than the caches may hold it. *)
THEOREM HandlerImplementsService == Spec => ImplementsService
  <1>1. Init => TimesInv /\ Service!Init
    <2> SUFFICES ASSUME Init PROVE TimesInv /\ Service!Init
      OBVIOUS
    <2>1. \A c \in Clients : HandlerFor(conf, now, rq[c])
      BY IdleFor DEF Init
    <2>2. BackFor(conf, now, backCache) /\ RespFor(conf, now, respCache) /\ WritesFor(conf, now, writes)
      BY DEF Init, Empty, BackFor, RespFor, WritesFor
    <2>3. Service!Init
      BY DEF Init, Service!Init
    <2> QED
      BY <2>1, <2>2, <2>3 DEF TimesInv
  <1>2. RenderInv /\ TimesInv /\ [Next]_vars => TimesInv'
    BY StepSeen
  <1>3. RenderInv /\ TimesInv /\ [Next]_vars =>
          [Service!Next]_<<conf, now, [c \in Clients |-> IF rq[c] = Idle THEN <<>> ELSE [req |-> rq[c].req, since |-> rq[c].since]], answer>>
    BY StepSeen DEF Unseen, Seen
  <1>4. Spec => []RenderInv
    BY RenderInvariant
  <1> QED
    BY <1>1, <1>2, <1>3, <1>4, PTL DEF Spec, ImplementsService, Service!Spec
=============================================================================
