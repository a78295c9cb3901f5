------------------------- MODULE ResponseMergeProofs -------------------------
(* Proofs about ResponseMerge for any backends and any series.             *)
EXTENDS ResponseMerge, FiniteSetTheorems, TLAPS

Copies == [expr : Exprs, series : Series]

(* The parts of a series.                                                  *)
LEMMA SeriesType ==
  ASSUME NEW m \in Series
  PROVE  /\ m.start \in Starts /\ m.step \in Steps /\ m.step \in Nat
         /\ m.values \in Values
         /\ Len(m.values) \in 0..MaxValues
         /\ m.values \in [1..Len(m.values) -> BOOLEAN]
  <1>1. m.start \in Starts /\ m.step \in Steps /\ m.values \in Values
    BY DEF Series
  <1>2. PICK n \in 0..MaxValues : m.values \in [1..n -> BOOLEAN]
    BY <1>1 DEF Values
  <1>3. Len(m.values) = n
    BY <1>2, ResponseMergeAssumption
  <1> QED
    BY <1>1, <1>2, <1>3, ResponseMergeAssumption

(* What FillGaps computes: the longer length, and the points of both.      *)
LEMMA FillGapsPoints ==
  ASSUME NEW m1 \in Series, NEW m2 \in Series,
         m1.step = m2.step, m1.start = m2.start
  PROVE  /\ FillGaps(m1, m2) \in Series
         /\ FillGaps(m1, m2).step = m1.step
         /\ FillGaps(m1, m2).start = m1.start
         /\ Len(m1.values) <= Len(FillGaps(m1, m2).values)
         /\ Len(m2.values) <= Len(FillGaps(m1, m2).values)
         /\ \A k : HasPoint(FillGaps(m1, m2), k) <=> HasPoint(m1, k) \/ HasPoint(m2, k)
  <1> DEFINE swap == Len(m1.values) < Len(m2.values)
             long == IF swap THEN m2 ELSE m1
             short == IF swap THEN m1 ELSE m2
             filled == [k \in 1..Len(long.values) |->
                          long.values[k] \/ (k <= Len(short.values) /\ short.values[k])]
             r == FillGaps(m1, m2)
  <1>1. r = [long EXCEPT !.values = filled]
    BY DEF FillGaps
  <1>2. /\ long \in Series /\ short \in Series
        /\ Len(short.values) <= Len(long.values)
        /\ long.step = m1.step /\ long.start = m1.start
    BY SeriesType
  <1> HIDE DEF long, short, filled, r
  <1>3. /\ Len(long.values) \in 0..MaxValues /\ Len(short.values) \in 0..MaxValues
        /\ Len(long.values) \in Nat /\ Len(short.values) \in Nat
    BY <1>2, SeriesType, ResponseMergeAssumption
  <1>4. filled \in [1..Len(long.values) -> BOOLEAN]
    BY Zenon DEF filled
  <1>5. filled \in Values /\ Len(filled) = Len(long.values)
    BY <1>3, <1>4 DEF Values
  <1>6. r \in Series /\ r.step = m1.step /\ r.start = m1.start /\ r.values = filled
    BY <1>1, <1>2, <1>5 DEF Series
  <1>7. ASSUME NEW k
        PROVE  HasPoint(r, k) <=> HasPoint(long, k) \/ HasPoint(short, k)
    <2>1. HasPoint(r, k) <=> k \in 1..Len(long.values) /\ filled[k]
      BY <1>5, <1>6 DEF HasPoint
    <2>2. CASE k \in 1..Len(long.values)
      <3>1. filled[k] <=> long.values[k] \/ (k <= Len(short.values) /\ short.values[k])
        BY <2>2 DEF filled
      <3>2. k <= Len(short.values) <=> k \in 1..Len(short.values)
        BY <1>3, <2>2
      <3> QED
        BY <2>1, <2>2, <3>1, <3>2 DEF HasPoint
    <2>3. CASE k \notin 1..Len(long.values)
      <3>1. k \notin 1..Len(short.values)
        BY <1>2, <1>3, <2>3
      <3> QED
        BY <2>1, <2>3, <3>1 DEF HasPoint
    <2> QED
      BY <2>2, <2>3
  <1> QED
    BY <1>2, <1>3, <1>5, <1>6, <1>7 DEF long, short, r

(* A series made of points that backends have.                             *)
Real(m) ==
  \A k : HasPoint(m, k) => \E b \in has : /\ data[b].step = m.step
                                        /\ data[b].start = m.start
                                        /\ HasPoint(data[b], k)

(* The merge of two series of real points has only real points.            *)
LEMMA MergeReal ==
  ASSUME NEW m1 \in Series, NEW m2 \in Series, Real(m1), Real(m2)
  PROVE  MergeFetchResponses(m1, m2) \in Series /\ Real(MergeFetchResponses(m1, m2))
  <1> DEFINE r == MergeFetchResponses(m1, m2)
  <1>1. CASE m1.step = m2.step /\ m1.start = m2.start
    <2>1. r = FillGaps(m1, m2)
      BY <1>1 DEF MergeFetchResponses
    <2> HIDE DEF r
    <2>2. /\ r \in Series /\ r.step = m1.step /\ r.start = m1.start
          /\ \A k : HasPoint(r, k) <=> HasPoint(m1, k) \/ HasPoint(m2, k)
      BY <1>1, <2>1, FillGapsPoints
    <2> QED
      BY <1>1, <2>2 DEF Real, r
  <1>2. CASE ~(m1.step = m2.step /\ m1.start = m2.start)
    <2>1. r = m1 \/ r = m2
      BY <1>2 DEF MergeFetchResponses
    <2> QED
      BY <2>1
  <1> QED
    BY <1>1, <1>2

RealInv ==
  /\ TypeOK
  /\ \A i \in 1..Len(rest) : Real(rest[i].series)
  /\ \A i \in 1..Len(result) : Real(result[i].series)

(* The result has no points at the start.                                  *)
LEMMA RealInit == Init => RealInv
  <1> SUFFICES ASSUME Init PROVE RealInv
    OBVIOUS
  <1>1. rest = <<>> /\ result = <<>> /\ Len(result) = 0 /\ Len(rest) = 0
    BY DEF Init
  <1>2. rest \in Seq(Copies) /\ result \in Seq(Copies)
    BY <1>1
  <1>3. sender \in Backends
    BY ResponseMergeAssumption DEF Init
  <1>4. TypeOK
    BY <1>1, <1>2, <1>3 DEF Init, TypeOK, Copies
  <1> QED
    BY <1>1, <1>4 DEF RealInv

(* What a response looks like when it arrives.                             *)
LEMMA ArriveRest ==
  ASSUME TypeOK, NEW b \in Backends, Arrive(b)
  PROVE  /\ rest' \in Seq(Copies) /\ Len(rest') = Cardinality(Exprs)
         /\ \A i \in 1..Len(rest') : rest'[i].series = data[b]
         /\ b \in has
  <1>1. PICK o \in Orders :
          rest' = [i \in 1..Cardinality(Exprs) |-> [expr |-> o[i], series |-> data[b]]]
    BY DEF Arrive
  <1>2. Cardinality(Exprs) \in Nat
    BY ResponseMergeAssumption, FS_CardinalityType
  <1>3. \A i \in 1..Cardinality(Exprs) : [expr |-> o[i], series |-> data[b]] \in Copies
    BY DEF Orders, Copies, TypeOK
  <1>4. rest' \in Seq(Copies) /\ Len(rest') = Cardinality(Exprs)
    BY <1>1, <1>2, <1>3
  <1> QED
    BY <1>1, <1>4 DEF Arrive, TypeOK

(* What a merge takes from the response.                                   *)
LEMMA MergeStepType ==
  ASSUME TypeOK, Merge
  PROVE  /\ Head(rest) \in Copies /\ rest' \in Seq(Copies)
         /\ Len(rest) > 0 /\ Head(rest) = rest[1]
         /\ Len(rest') = Len(rest) - 1
         /\ \A i \in 1..Len(rest') : rest'[i] = rest[i + 1]
  <1>1. rest \in Seq(Copies) /\ rest # <<>> /\ rest' = Tail(rest)
    BY DEF TypeOK, Merge, Copies
  <1>2. Len(rest) \in Nat /\ Len(rest) > 0 /\ Head(rest) = rest[1] /\ rest[1] \in Copies
    BY <1>1
  <1>3. /\ Tail(rest) \in Seq(Copies) /\ Len(Tail(rest)) = Len(rest) - 1
        /\ \A i \in 1..Len(Tail(rest)) : Tail(rest)[i] = rest[i + 1]
    BY <1>1, <1>2
  <1> QED
    BY <1>1, <1>2, <1>3

(* Every step keeps the points real.                                       *)
LEMMA RealStep == RealInv /\ [Next]_vars => RealInv'
  <1> SUFFICES ASSUME RealInv, [Next]_vars PROVE RealInv'
    OBVIOUS
  <1>t. /\ TypeOK /\ rest \in Seq(Copies) /\ result \in Seq(Copies)
        /\ Len(result) \in Nat
    BY DEF RealInv, TypeOK, Copies
  <1>1. ASSUME NEW b \in Backends, Arrive(b) PROVE RealInv'
    <2>1. /\ has' = has /\ data' = data /\ result' = result /\ index' = Len(result)
          /\ left' = left \ {b} /\ sender' = b
      BY <1>1 DEF Arrive
    <2>2. TypeOK'
      <3>1. rest' \in Seq([expr : Exprs, series : Series])
        BY <1>1, <1>t, ArriveRest DEF Copies
      <3>2. result' \in Seq([expr : Exprs, series : Series]) /\ index' \in 0..Len(result')
        BY <1>t, <2>1 DEF Copies
      <3>3. /\ has' \in SUBSET Backends /\ data' \in [Backends -> Series]
            /\ left' \in SUBSET has' /\ sender' \in Backends
        BY <1>t, <2>1 DEF TypeOK
      <3> QED
        BY <3>1, <3>2, <3>3 DEF TypeOK
    <2>3. ASSUME NEW i \in 1..Len(rest') PROVE Real(rest'[i].series)
      <3>1. rest'[i].series = data[b] /\ b \in has
        BY <1>1, <1>t, ArriveRest
      <3> QED
        BY <3>1 DEF Real
    <2>4. \A i \in 1..Len(rest') : Real(rest[i].series)'
      BY <2>1, <2>3 DEF Real
    <2>5. \A i \in 1..Len(result') : Real(result[i].series)'
      BY <2>1 DEF RealInv, Real
    <2> QED
      BY <2>2, <2>4, <2>5 DEF RealInv
  <1>2. CASE Merge
    <2>1. /\ has' = has /\ data' = data /\ left' = left /\ sender' = sender
          /\ index' = index
          /\ result' = IF index = 0 THEN Append(result, Head(rest))
                       ELSE [result EXCEPT ![index] = MergeInto(@, Head(rest))]
      BY <1>2 DEF Merge
    <2> DEFINE h == Head(rest)
    <2>2. h \in Copies /\ Real(h.series) /\ h.series \in Series
      <3>1. h \in Copies /\ h = rest[1] /\ 1 \in 1..Len(rest)
        BY <1>2, <1>t, MergeStepType
      <3> QED
        BY <3>1 DEF RealInv, Copies
    <2> HIDE DEF h
    <2>3. rest' \in Seq(Copies) /\ \A i \in 1..Len(rest') : Real(rest'[i].series)
      <3>1. /\ rest' \in Seq(Copies) /\ Len(rest') = Len(rest) - 1 /\ Len(rest) \in Nat
            /\ \A i \in 1..Len(rest') : rest'[i] = rest[i + 1]
        BY <1>2, <1>t, MergeStepType
      <3>2. ASSUME NEW i \in 1..Len(rest') PROVE Real(rest'[i].series)
        <4>1. i + 1 \in 1..Len(rest)
          BY <3>1
        <4> QED
          BY <3>1, <4>1 DEF RealInv
      <3> QED
        BY <3>1, <3>2
    <2>4. CASE index = 0
      <3>1. result' = Append(result, h)
        BY <2>1, <2>4 DEF h
      <3>2. /\ result' \in Seq(Copies) /\ Len(result') = Len(result) + 1
            /\ result'[Len(result) + 1] = h
            /\ \A i \in 1..Len(result) : result'[i] = result[i]
        BY <1>t, <2>2, <3>1
      <3>3. ASSUME NEW i \in 1..Len(result') PROVE Real(result'[i].series)
        BY <1>t, <2>2, <3>2 DEF RealInv
      <3>4. TypeOK'
        BY <1>t, <2>1, <2>3, <2>4, <3>2 DEF TypeOK, Copies
      <3> QED
        BY <2>1, <2>3, <3>3, <3>4 DEF RealInv, Real
    <2>5. CASE index # 0
      <3> DEFINE m == result[index]
                 c == MergeInto(m, h)
      <3>1. index \in 1..Len(result) /\ result' = [result EXCEPT ![index] = c]
        BY <1>t, <2>1, <2>5 DEF TypeOK, h
      <3>2. m \in Copies /\ m.series \in Series /\ Real(m.series)
        <4>1. m \in Copies
          BY <1>t, <3>1
        <4>2. m.series \in Series
          BY <4>1 DEF Copies
        <4>3. Real(m.series)
          BY <3>1 DEF RealInv
        <4> QED
          BY <4>1, <4>2, <4>3
      <3> HIDE DEF m
      <3>3. /\ MergeFetchResponses(m.series, h.series) \in Series
            /\ Real(MergeFetchResponses(m.series, h.series))
        BY <2>2, <3>2, MergeReal
      <3>4. c \in Copies /\ c.series = MergeFetchResponses(m.series, h.series)
        BY <3>2, <3>3 DEF MergeInto, Copies
      <3> HIDE DEF c
      <3>5. /\ result' \in Seq(Copies) /\ Len(result') = Len(result)
            /\ \A i \in 1..Len(result) : result'[i] = IF i = index THEN c ELSE result[i]
        BY <1>t, <3>1, <3>4
      <3>6. ASSUME NEW i \in 1..Len(result') PROVE Real(result'[i].series)
        BY <3>3, <3>4, <3>5 DEF RealInv
      <3>7. TypeOK'
        BY <1>t, <2>1, <2>3, <3>1, <3>5 DEF TypeOK, Copies
      <3> QED
        BY <2>1, <2>3, <3>6, <3>7 DEF RealInv, Real
    <2> QED
      BY <2>4, <2>5
  <1>3. CASE UNCHANGED vars
    BY <1>3 DEF vars, RealInv, TypeOK, Real
  <1> QED
    BY <1>1, <1>2, <1>3 DEF Next, Done

(* Whatever the order, the expressions, the steps and the starts are, a    *)
(* point of the result is one that a backend has at that time.             *)
THEOREM PointsReal == Spec => []NoPointInvented
  <1>1. RealInv => NoPointInvented
    BY DEF RealInv, Real, NoPointInvented
  <1> QED
    BY <1>1, RealInit, RealStep, PTL DEF Spec

-----------------------------------------------------------------------------
(* The points that are kept.                                               *)

(* Series of one step start at one time: the case in which                 *)
(* mergeFetchResponsesWithEqualStepTimes drops no series.                  *)
StartsAgree ==
  \A b, c \in has : data[b].step = data[c].step => data[b].start = data[c].start

(* One path expression of the request matches the metric's name.           *)
OneExpression == \A e, f \in Exprs : e = f

(* The backends whose responses were merged to the end.                    *)
Merged == {b \in has \ left : rest = <<>> \/ b # sender}

(* Series m stands for those of the backends in S: it is one of the finest *)
(* of them, with all points of that step.                                  *)
Covers(m, S) ==
  /\ \A b \in S : m.step <= data[b].step
  /\ \A b \in S : data[b].step = m.step =>
       \A k : HasPoint(data[b], k) => HasPoint(m, k)
  /\ \E b \in has \ left : m.step = data[b].step /\ m.start = data[b].start

(* While a response is merged the map points to the last entry, or there   *)
(* was none when it arrived.                                               *)
Merging ==
  /\ rest # <<>> => /\ sender \in has \ left
                    /\ \A i \in 1..Len(rest) : rest[i].series = data[sender]
                    /\ index = 0 => Merged = {}
                    /\ index # 0 => index = Len(result)
  /\ Merged # {} => Len(result) > 0

(* The last entry, which all responses but the first are merged to, stands *)
(* for what was merged so far.                                             *)
LastCovers == Len(result) > 0 => Covers(result[Len(result)].series, Merged)

KeptInv == RealInv /\ Merging /\ (StartsAgree => LastCovers)

(* The merge of two series stands for what either stood for.               *)
LEMMA MergeCovers ==
  ASSUME TypeOK, StartsAgree, NEW m \in Series, NEW S \in SUBSET has,
         Covers(m, S), NEW b \in has \ left
  PROVE  Covers(MergeFetchResponses(m, data[b]), S \cup {b})
  <1> DEFINE d == data[b]
             r == MergeFetchResponses(m, d)
  <1>1. /\ d \in Series /\ d.step \in Nat /\ m.step \in Nat
        /\ \A c \in has : data[c] \in Series /\ data[c].step \in Nat
    BY SeriesType DEF TypeOK
  <1>2. CASE m.step = d.step
    <2>1. m.start = d.start
      BY <1>2 DEF Covers, StartsAgree, TypeOK
    <2>2. r = FillGaps(m, d)
      BY <1>2, <2>1 DEF MergeFetchResponses
    <2> HIDE DEF r, d
    <2>3. /\ r.step = m.step /\ r.start = m.start
          /\ \A k : HasPoint(r, k) <=> HasPoint(m, k) \/ HasPoint(d, k)
      BY <1>1, <1>2, <2>1, <2>2, FillGapsPoints
    <2>4. \A c \in S \cup {b} : r.step <= data[c].step
      BY <1>1, <1>2, <2>3 DEF Covers, d
    <2>5. ASSUME NEW c \in S \cup {b}, data[c].step = r.step, NEW k, HasPoint(data[c], k)
          PROVE  HasPoint(r, k)
      BY <2>3, <2>5 DEF Covers, d
    <2>6. \E c \in has \ left : r.step = data[c].step /\ r.start = data[c].start
      BY <2>3 DEF Covers
    <2> QED
      BY <2>4, <2>5, <2>6 DEF Covers, r, d
  <1>3. CASE m.step > d.step
    <2>1. r = d
      BY <1>1, <1>3 DEF MergeFetchResponses
    <2>2. \A c \in S : data[c].step > d.step
      BY <1>1, <1>3 DEF Covers
    <2> QED
      BY <1>1, <2>1, <2>2 DEF Covers
  <1>4. CASE m.step < d.step
    <2>1. r = m
      BY <1>1, <1>4 DEF MergeFetchResponses
    <2> QED
      BY <1>1, <1>4, <2>1 DEF Covers
  <1> QED
    BY <1>1, <1>2, <1>3, <1>4

(* Nothing is merged at the start.                                         *)
LEMMA KeptInit == Init => KeptInv
  <1> SUFFICES ASSUME Init PROVE KeptInv
    OBVIOUS
  <1>1. RealInv /\ rest = <<>> /\ Len(result) = 0 /\ Merged = {}
    BY RealInit DEF Init, Merged
  <1> QED
    BY <1>1 DEF KeptInv, Merging, LastCovers

(* The arrival of a response changes nothing of what was merged.           *)
LEMMA KeptArrive ==
  ASSUME KeptInv, NEW b \in Backends, Arrive(b)
  PROVE  Merging' /\ (StartsAgree => LastCovers')
  <1>1. TypeOK /\ rest = <<>> /\ b \in left /\ left \subseteq has
    BY DEF KeptInv, RealInv, TypeOK, Arrive
  <1>2. /\ has' = has /\ data' = data /\ result' = result /\ index' = Len(result)
        /\ left' = left \ {b} /\ sender' = b
    BY DEF Arrive
  <1>3. /\ Len(rest') > 0 /\ rest' # <<>>
        /\ \A i \in 1..Len(rest') : rest'[i].series = data[b]
    <2>1. Cardinality(Exprs) > 0
      BY ResponseMergeAssumption, FS_CardinalityType, FS_EmptySet
    <2>2. /\ Len(rest') = Cardinality(Exprs)
          /\ \A i \in 1..Len(rest') : rest'[i].series = data[b]
      BY <1>1, ArriveRest
    <2> QED
      BY <2>1, <2>2
  <1>4. Merged' = Merged
    BY <1>1, <1>2, <1>3 DEF Merged
  <1>5. Merging'
    BY <1>1, <1>2, <1>3, <1>4 DEF KeptInv, Merging
  <1>6. ASSUME StartsAgree PROVE LastCovers'
    <2>1. ASSUME Len(result) > 0 PROVE Covers(result[Len(result)].series, Merged)'
      <3>1. Covers(result[Len(result)].series, Merged)
        BY <1>6, <2>1 DEF KeptInv, LastCovers
      <3> QED
        BY <1>2, <1>4, <3>1 DEF Covers
    <2> QED
      BY <1>2, <2>1 DEF LastCovers
  <1> QED
    BY <1>5, <1>6

(* The merge of a copy makes the last entry stand for the sender too.      *)
LEMMA KeptMerge ==
  ASSUME KeptInv, Merge
  PROVE  Merging' /\ (StartsAgree => LastCovers')
  <1>1. /\ TypeOK /\ rest # <<>> /\ sender \in has \ left
        /\ result \in Seq(Copies) /\ Len(result) \in Nat /\ has \subseteq Backends
        /\ data \in [Backends -> Series]
    BY DEF KeptInv, RealInv, TypeOK, Merge, Merging, Copies
  <1>2. /\ has' = has /\ data' = data /\ left' = left /\ sender' = sender
        /\ index' = index
        /\ result' = IF index = 0 THEN Append(result, Head(rest))
                     ELSE [result EXCEPT ![index] = MergeInto(@, Head(rest))]
    BY DEF Merge
  <1>3. /\ Head(rest) \in Copies /\ Head(rest).series = data[sender]
        /\ \A i \in 1..Len(rest') : rest'[i].series = data[sender]
    <2>1. /\ Head(rest) \in Copies /\ Head(rest) = rest[1] /\ Len(rest) > 0
          /\ Len(rest) \in Nat /\ Len(rest') = Len(rest) - 1
          /\ \A i \in 1..Len(rest') : rest'[i] = rest[i + 1]
      BY <1>1, MergeStepType DEF TypeOK
    <2>2. \A i \in 1..Len(rest) : rest[i].series = data[sender]
      BY <1>1 DEF KeptInv, Merging
    <2>3. \A i \in 1..Len(rest') : i + 1 \in 1..Len(rest)
      BY <2>1
    <2> QED
      BY <2>1, <2>2, <2>3
  <1>4. Merged' \subseteq Merged \cup {sender} /\ (rest' # <<>> => Merged' = Merged)
    BY <1>1, <1>2 DEF Merged
  <1>5. Merged \subseteq has
    BY DEF Merged
  <1>6. CASE index = 0
    <2>1. Merged = {}
      BY <1>1, <1>6 DEF KeptInv, Merging
    <2>2. Len(result') = Len(result) + 1 /\ result'[Len(result')].series = data[sender]
      BY <1>1, <1>2, <1>3, <1>6
    <2>3. Merging'
      BY <1>1, <1>2, <1>3, <1>4, <1>6, <2>1, <2>2 DEF Merging
    <2>4. data[sender].step \in Nat
      BY <1>1, SeriesType
    <2>5. Covers(result[Len(result)].series, Merged)'
      <3>1. /\ data'[sender'] = data[sender] /\ sender \in (has \ left)'
            /\ Merged' \subseteq {sender}
        BY <1>1, <1>2, <1>4, <2>1
      <3> QED
        BY <1>2, <2>2, <2>4, <3>1 DEF Covers
    <2> QED
      BY <2>3, <2>5 DEF LastCovers
  <1>7. CASE index # 0
    <2> DEFINE m == result[index]
               r == MergeFetchResponses(m.series, data[sender])
    <2>1. index = Len(result) /\ index \in 1..Len(result)
      BY <1>1, <1>7 DEF KeptInv, Merging, TypeOK
    <2>2. m \in Copies /\ m.series \in Series
      <3>1. m \in Copies
        BY <1>1, <2>1
      <3> QED
        BY <3>1 DEF Copies
    <2>3. /\ Len(result') = Len(result)
          /\ result'[Len(result)] = MergeInto(m, Head(rest))
      BY <1>1, <1>2, <1>7, <2>1
    <2>4. result'[Len(result')].series = r
      BY <1>3, <2>2, <2>3 DEF MergeInto, Copies
    <2>5. Merging'
      BY <1>1, <1>2, <1>3, <1>4, <1>7, <2>1, <2>3 DEF Merging
    <2>6. ASSUME StartsAgree PROVE LastCovers'
      <3>1. Covers(m.series, Merged)
        BY <2>1, <2>6, <1>1 DEF KeptInv, LastCovers
      <3> HIDE DEF m
      <3>2. Covers(r, Merged \cup {sender})
        BY <1>1, <1>5, <2>2, <2>6, <3>1, MergeCovers
      <3> HIDE DEF r
      <3>3. Covers(r, Merged')
        BY <1>4, <3>2 DEF Covers
      <3>4. Covers(result[Len(result)].series, Merged)'
        BY <1>2, <2>4, <3>3 DEF Covers
      <3> QED
        BY <3>4 DEF LastCovers
    <2> QED
      BY <2>5, <2>6
  <1> QED
    BY <1>6, <1>7

(* Every step keeps what was merged.                                       *)
LEMMA KeptStep == KeptInv /\ [Next]_vars => KeptInv'
  <1> SUFFICES ASSUME KeptInv, [Next]_vars PROVE KeptInv'
    OBVIOUS
  <1>1. RealInv'
    BY RealStep DEF KeptInv
  <1>2. StartsAgree' <=> StartsAgree
    BY DEF Next, Arrive, Merge, Done, vars, StartsAgree
  <1>3. CASE UNCHANGED vars
    BY <1>1, <1>3 DEF vars, KeptInv, Merging, StartsAgree, LastCovers, Covers, Merged
  <1> QED
    BY <1>1, <1>2, <1>3, KeptArrive, KeptMerge DEF KeptInv, Next, Done

(* Whatever the order of the responses and the lengths and steps of the    *)
(* series are, no point of the finest step is lost, provided that the name *)
(* matches one expression of the request and that series of one step start *)
(* at one time: the two cases in which the merge does lose points.         *)
THEOREM PointsSurvive == Spec => [](OneExpression /\ StartsAgree => PointsKept)
  <1>1. KeptInv => (OneExpression /\ StartsAgree => PointsKept)
    <2> SUFFICES ASSUME KeptInv, OneExpression, StartsAgree, AllMerged,
                        NEW b \in Finest, NEW e \in Exprs
                 PROVE  \E i \in EntriesFor(e) : \A k \in 1..Len(data[b].values) :
                          HasPoint(data[b], k) => HasPoint(result[i].series, k)
      BY DEF PointsKept
    <2> DEFINE n == Len(result)
               m == result[n]
    <2>1. /\ TypeOK /\ result \in Seq(Copies) /\ n \in Nat
          /\ b \in has /\ has \subseteq Backends
      BY DEF KeptInv, RealInv, TypeOK, Copies, Finest
    <2>2. Merged = has
      BY <2>1 DEF Merged, AllMerged
    <2>3. n > 0 /\ Covers(m.series, has)
      BY <2>1, <2>2 DEF KeptInv, Merging, LastCovers
    <2>4. m \in Copies
      BY <2>1, <2>3
    <2>5. n \in EntriesFor(e)
      BY <2>1, <2>3, <2>4 DEF EntriesFor, OneExpression, Copies
    <2>6. \A c \in has : data[c].step \in Nat
      BY <2>1, SeriesType DEF TypeOK
    <2>7. data[b].step = m.series.step
      <3>1. PICK c \in has : m.series.step = data[c].step
        BY <2>3 DEF Covers
      <3>2. data[b].step <= data[c].step
        BY <3>1 DEF Finest
      <3> QED
        BY <2>1, <2>3, <2>6, <3>1, <3>2 DEF Covers
    <2> QED
      BY <2>1, <2>3, <2>5, <2>7 DEF Covers
  <1> QED
    BY <1>1, KeptInit, KeptStep, PTL DEF Spec
=============================================================================
