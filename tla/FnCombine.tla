------------------------------ MODULE FnCombine ------------------------------
(***************************************************************************)
(* Functions that combine several series into one: aggregates, quotients,  *)
(* percentages, correlations.  Most of them first bring their arguments to *)
(* one grid, some in place: expr/functions/<name>, Do.                     *)
(***************************************************************************)
EXTENDS Series

(* A step for each element of a sequence, until one does not end well; Op  *)
(* gives the outcomes of the step, whose series are added to the result.   *)
Each(r0, seq, Op(_, _)) ==
  LET Add(r, o) == [o EXCEPT !.out = Own(r.out.s \o o.out.s)]
      Step(R, x) == UNION {IF r.st = "ok" THEN {Add(r, o) : o \in Op(r.h, x)} ELSE {r} : r \in R}
  IN FoldLeft(Step, {r0}, seq)

aggregate(h, a, extrapolate) == {AggregateSeries(h, a.s, extrapolate)}
percentileOfSeries(h, a, extrapolate) == {AggregateSeries(h, a.s, extrapolate)}

aggregateSeriesLists(h, a, b, extrapolate) ==
  IF Len(a.s) # Len(b.s) THEN {Err(h)}
  ELSE Each(Ok(h, <<>>), [i \in DOMAIN a.s |-> <<a.s[i], b.s[i]>>], LAMBDA g, p :
         {AggregateSeries(g \o <<CopyLink(g[p[1]]), CopyLink(g[p[2]])>>,
                          <<Len(g) + 1, Len(g) + 2>>, extrapolate)})

(* sum, average, multiplySeriesWithWildcards: one series per group *)
aggregateWithWildcards(h, a, extrapolate) ==
  IF a.s = <<>> THEN {Ok(h, <<>>)}
  ELSE UNION {Each(Ok(h, <<>>), groups, LAMBDA g, s : {AggregateSeries(g, s, extrapolate)}) :
              groups \in Groupings(a.s)}

(* The first of the longest series is renamed; points missing elsewhere    *)
(* are null. *)
powSeries(h, a) ==
  IF a.s = <<>> THEN {Panic(h)}
  ELSE LET longest == CHOOSE i \in DOMAIN a.s :
                        /\ h[a.s[i]].n = Greatest(Lengths(h, a.s))
                        /\ \A j \in 1..(i - 1) : h[a.s[j]].n < h[a.s[i]].n
       IN {New(h, <<Filled(CopyName(h[a.s[longest]]))>>)}

rangeOfSeries(h, a) ==
  IF a.s = <<>> THEN {Ok(h, <<>>)}
  ELSE IF \E i \in DOMAIN a.s : h[a.s[i]].n < h[a.s[1]].n THEN {Panic(h)}
  ELSE {New(h, <<[Filled(CopyLinkTags(h[a.s[1]])) EXCEPT !.tags = 0]>>)}

(* One line per value, over the header of the first series; the counts     *)
(* have the length of the series where the value was met first.            *)
countValues(h, a) ==
  LET s == a.s
      Line(n) == NewValues(CopyLinkTags(h[s[1]]), n)
  IN IF s = <<>> THEN {Ok(h, s)}
     ELSE {New(h, <<>>), New(h, <<Line(h[s[1]].n)>>)}
          \cup {New(h, [j \in 1..2 |-> Line(f[j])]) : f \in [1..2 -> Lengths(h, s)]}
          \cup (IF \E i, j \in DOMAIN s : i < j /\ h[s[j]].n > h[s[i]].n THEN {Panic(h)} ELSE {})

-----------------------------------------------------------------------------
(* windows of p points over two single series, indexed by the first *)
Windowed(h, a, b, p, r) ==
  IF Len(a.s) # 1 \/ Len(b.s) # 1 THEN {Err(h)}
  ELSE IF p < 0 \/ h[b.s[1]].n < h[a.s[1]].n THEN {Panic(h)}
  ELSE {New(h, <<r>>)}

kolmogorovSmirnovTest2(h, a, b, p) ==
  Windowed(h, a, b, p, [Filled(CopyLinkTags(h[a.s[1]])) EXCEPT !.start = From, !.stop = Until])

pearson(h, a, b, p) ==
  Windowed(h, a, b, p, RecalcStopTime([Filled(CopyLinkTags(h[a.s[1]])) EXCEPT !.start = From]))

-----------------------------------------------------------------------------
(* The denominator is rebound by every numerator: after one of another     *)
(* step the next numerators meet the scaled copy. *)
divideSeries(h, a, b) ==
  LET Step(r, p) ==
        LET c == ConsolidateSeriesByStep(r.h, p, r.denominator)
            g == c[1]
        IN [h |-> Append(g, Filled(CopyTag(g[c[2][1]]))),
            denominator |-> c[2][2], out |-> Append(r.out, Len(g) + 1)]
      Divided(numerators, q) ==
        LET r == FoldLeft(Step, [h |-> h, denominator |-> q, out |-> <<>>], numerators)
        IN Ok(r.h, r.out)
  IN (CASE b.s = <<>> -> ForEachSeriesDo1(h, a, LAMBDA s : Filled(CopyLink(s)))
        [] Len(b.s) = 1 -> {Divided(a.s, b.s[1])}
        [] Len(b.s) > 1 -> {Err(h)})
     \cup {IF Len(a.s) = 2 THEN Divided(<<a.s[1]>>, a.s[2]) ELSE Err(h)}

(* one quotient, product... over the grid of the numerator *)
Combine(h, p) ==
  LET c == ConsolidateSeriesByStep(h, p[1], p[2])
  IN New(c[1], <<Filled(CopyLink(c[1][c[2][1]]))>>)

(* dropped, the default, or, dividing, no denominator *)
Unpaired(h, p) ==
  {Ok(h, <<>>), New(h, <<Filled(CopyLink(h[p]))>>)} \cup (IF h[p].n > 0 THEN {Panic(h)} ELSE {})

ByPosition(h, t, u) ==
  IF Len(u) > 1 /\ Len(t) > Len(u) THEN {Panic(h)}
  ELSE Each(Ok(h, <<>>), [i \in DOMAIN t |-> <<t[i], u[IF Len(u) = 1 THEN 1 ELSE i]>>],
            LAMBDA g, p : {Combine(g, p)})

ByName(h, t, u, m) ==
  Each(Ok(h, <<>>), [i \in DOMAIN t |-> <<t[i], m[i]>>], LAMBDA g, p :
    IF p[2] = 0 THEN Unpaired(g, p[1]) ELSE {Combine(g, <<p[1], u[p[2]]>>)})

(* divide, multiply, diff, pow, sumSeriesLists: both lists are sorted in   *)
(* place, then paired by position or by name (m), or a constant stands for *)
(* the list that is empty. *)
Paired(h, t, u, byName) ==
  IF t = <<>> \/ u = <<>>
  THEN ForEachSeriesDo1(h, Own(t \o u), LAMBDA s : Filled(CopyLinkTags(s)))
  ELSE IF byName THEN UNION {ByName(h, t, u, m) : m \in [DOMAIN t -> {0} \cup DOMAIN u]}
  ELSE ByPosition(h, t, u)

seriesList(h, a, b, byName) ==
  (IF a.s = <<>> \/ b.s = <<>> THEN {Ok(h, <<>>)} ELSE {}) \cup
  UNION {{Stored(Stored(r, a, t), b, u) : r \in Paired(h, t, u, byName)} :
         t \in Orders(a.s), u \in Orders(b.s)}

-----------------------------------------------------------------------------
(* asPercent works on copies: one heap with the copies of a list, aligned. *)
CopiesOf(h, s) == [i \in DOMAIN s |-> Len(h) + i]
Aligned(h, s, extrapolate) ==
  AlignSeries(h \o [i \in DOMAIN s |-> Copy(h[s[i]])], CopiesOf(h, s), extrapolate)

(* series.Values[i] = ... over the total's points, nulls appended to reach *)
(* its length *)
getPercentages(r, total) == Assign([r EXCEPT !.n = Greater(@, total.n)])
Missing(r) == [Assign(r) EXCEPT !.tags = 0]

Percentages(h, t, u) ==
  LET Pairs(p) == {i \in 1..Lesser(Len(t), Len(u)) : t[i] = p}
  IN [p \in DOMAIN h |-> IF Pairs(p) = {} THEN h[p]
                         ELSE getPercentages(h[p], h[u[CHOOSE i \in Pairs(p) : TRUE]])]

(* one total for each by position: those left have no value *)
ByTotal(h, t, u) ==
  LET rest == SubSeq(u, Len(t) + 1, Len(u))
      g == OnEach(Percentages(h, t, u), rest, Missing)
  IN Ok(OnEach(g, SubSeq(t, Len(u) + 1, Len(t)), Assign), t \o rest)

(* one total, none, or one for each *)
seriesAsPercent(h, arg, total) ==
  IF total = <<>> THEN {Ok(OnEach(h, arg, Assign), arg)}
  ELSE IF Len(total) = 1
  THEN {Ok(OnEach(h, arg, LAMBDA r : getPercentages(r, h[total[1]])), arg)}
  ELSE {ByTotal(h, t, u) : t \in Orders(arg), u \in Orders(total)}

(* the sum of a group is read at the indices of its first series *)
seriesGroupAsPercent(h, arg) ==
  {Ok(OnEach(h, arg, Assign), t) : t \in Orders(arg)} \cup
  (IF \E i, j \in DOMAIN arg : i < j /\ h[arg[j]].n < h[arg[i]].n THEN {Panic(h)} ELSE {})

(* Groups of both lists by the key f and k give them.  A group with more   *)
(* series than totals is computed with the totals of the whole list and    *)
(* left out, and the loop over "the rest" chases the result it extends. *)
GroupPercent(h, total, done, A, T) ==
  LET pairs == 1..Lesser(Len(A), Len(T))
      Short(u) == \E i \in pairs : h[u[i]].n < h[A[i]].n
      rest == SubSeq(T, Len(A) + 1, Len(T))
  IN CASE A = <<>> -> Ok(OnEach(h, T, Missing), T)
       [] A # <<>> /\ T = <<>> -> Ok(OnEach(h, A, Assign), A)
       [] A # <<>> /\ Len(T) = 1 -> Ok(OnEach(h, A, LAMBDA r : getPercentages(r, h[T[1]])), A)
       [] A # <<>> /\ Len(T) > 1 /\ Len(A) <= Len(T) ->
            IF Short(T) THEN Panic(h)
            ELSE Ok(OnEach(OnEach(h, A, Assign), rest, Missing), A \o rest)
       [] Len(T) > 1 /\ Len(A) > Len(T) ->
            IF Short(total) THEN Panic(h)
            ELSE IF Len(done) > Len(total) THEN Hang(h)
            ELSE Ok(OnEach(h, SubSeq(A, 1, Len(T)), Assign), <<>>)

Keyed(f, s, key) == Only(s, {p \in ToSet(s) : f[p] = key})

NextGroup(f, r, key, arg, total) ==
  IF r.st # "ok" THEN r
  ELSE LET o == GroupPercent(r.h, total, r.out.s, Keyed(f, arg, key), Keyed(f, total, key))
       IN [o EXCEPT !.out = Own(r.out.s \o o.out.s)]

seriesGroup2AsPercent(h, arg, total) ==
  {NextGroup(f, NextGroup(f, Ok(h, <<>>), 1, arg, total), 2, arg, total) :
     f \in [ToSet(arg) \cup ToSet(total) -> 1..2]}

(* asPercent(list), asPercent(list, number), asPercent(list, None, nodes): *)
(* the sums of the first are read at the indices of its first series *)
asPercent(h, a, extrapolate) ==
  LET g == Aligned(h, a.s, extrapolate)
      arg == CopiesOf(h, a.s)
  IN IF a.s = <<>> THEN {Ok(h, <<>>)}
     ELSE IF AlignPanics(h, a.s, extrapolate) THEN {Panic(h)}
     ELSE {Ok(OnEach(g, arg, Assign), arg)} \cup seriesGroupAsPercent(g, arg)

(* asPercent(list, totals), asPercent(list, totals, nodes): the copies are *)
(* made of append(arg, total...) *)
asPercentOf(h, a, b, extrapolate) ==
  LET both == a.s \o b.s
      g == Aligned(h, both, extrapolate)
      arg == SubSeq(CopiesOf(h, both), 1, Len(a.s))
      total == SubSeq(CopiesOf(h, both), Len(a.s) + 1, Len(both))
      Outcomes == IF AlignPanics(h, both, extrapolate) THEN {Panic(h)}
                  ELSE seriesAsPercent(g, arg, total) \cup seriesGroup2AsPercent(g, arg, total)
  IN IF a.s = <<>> THEN {Ok(h, <<>>)}
     ELSE {[r EXCEPT !.put = AppendTo(h, a, b.s).put] : r \in Outcomes}

-----------------------------------------------------------------------------
(* Aligns append(avgs, weights...) in place, multiplies the pairs of equal *)
(* key, sums products and weights, and divides. *)
Sum(r, s, extrapolate) == IF r.st = "ok" THEN AggregateSeries(r.h, s, extrapolate) ELSE r
Quotient(sums, weights, extrapolate) ==
  Sum(weights, sums.out.s \o weights.out.s, extrapolate)
Average(sums, b, extrapolate) == Quotient(sums, Sum(sums, b.s, extrapolate), extrapolate)

(* one product for each pair of the matching M, then the average *)
Weighted(g, b, M, extrapolate) ==
  {IF products.st = "ok" /\ products.out.s = <<>> THEN products
   ELSE Average(Sum(products, products.out.s, extrapolate), b, extrapolate) :
     products \in Each(Ok(g, <<>>), SetToSeq(M), LAMBDA f, p :
                      {AggregateSeries(f, <<p[1], p[2]>>, extrapolate)})}

weightedAverage(h, a, b, extrapolate) ==
  LET both == a.s \o b.s
      Pairings == {M \in SUBSET (ToSet(a.s) \X ToSet(b.s)) :
                     \A p, q \in M : p[1] = q[1] \/ p[2] = q[2] => p = q}
      Outcomes(g) == {Err(g)} \cup        \* bad nodes are refused after the alignment
                     UNION {Weighted(g, b, M, extrapolate) : M \in Pairings}
  IN IF both = <<>> THEN {Ok(h, <<>>)}
     ELSE IF AlignPanics(h, both, extrapolate) THEN {Panic(h)}
     ELSE {[r EXCEPT !.put = AppendTo(h, a, b.s).put] :
             r \in Outcomes(AlignSeries(h, both, extrapolate))}
=============================================================================
