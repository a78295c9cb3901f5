------------------------------ MODULE FnSelect ------------------------------
(***************************************************************************)
(* Functions that select, order and group the series of a list and hand    *)
(* on the pointers they were given: expr/functions/<name>, Do.             *)
(***************************************************************************)
EXTENDS Series

(* The series a filter keeps, in the order of the list. *)
averageOutsidePercentile(h, a) == Subsets(h, a)
below(h, a) == Subsets(h, a)
filter(h, a) == Subsets(h, a)
exclude(h, a) == Subsets(h, a)
grep(h, a) == Subsets(h, a)
unique(h, a) == Subsets(h, a)

removeEmptySeries(h, a) == ForSomeSeriesDo(h, a, LAMBDA s : SetTag(CopyLink(s)))

(* The thresholds, one per point where some series has data, are read by   *)
(* the number of the series. *)
removeBetweenPercentile(h, a, nulls) ==
  LET s == a.s
      length == h[s[1]].n
      Thresholds == IF nulls THEN 0..length ELSE {length}
      Outcomes(k) == IF \E i \in DOMAIN s : i > k /\ h[s[i]].n > 0
                     THEN {Panic(h)} ELSE ForSomeSeriesDo(h, a, CopyLink)
  IN IF s = <<>> \/ \E i \in DOMAIN s : h[s[i]].n < length
     THEN {Panic(h)} ELSE UNION {Outcomes(k) : k \in Thresholds}

(* The list itself, or the slice of its first p series. *)
limit(h, a, p) ==
  IF p >= Len(a.s) THEN {Done(h, a)}
  ELSE IF p < 0 THEN {Panic(h)}
  ELSE {Done(h, [a EXCEPT !.s = SubSeq(@, 1, p)])}

(* new slices of the same pointers *)
sortBy(h, a) == {Ok(h, t) : t \in Orders(a.s)}
sortByName(h, a) == {Ok(h, t) : t \in Orders(a.s)}
group(h, a, b) == {Ok(h, a.s \o b.s)}
mapSeries(h, a) == {Ok(h, FlattenSeq(g)) : g \in Groupings(a.s)}

(* the first list that is not empty, itself *)
fallbackSeries(h, a, b) == {Done(h, IF a.s # <<>> THEN a ELSE b)}

seriesByTag(h, a) == {Done(h, a)}

Ranked(h, s, k) ==
  {Ok(h, SubSeq(t, 1, k)) : t \in Orders(s)}

(* highest*, lowest*: the list itself when it is shorter than asked (two   *)
(* targets compare with 1 and read the number asked later); a series whose *)
(* value is null is not among the highest. *)
highestLowest(h, a, p) ==
  LET n == Len(a.s)
      Highest == UNION {Ranked(h, t, Lesser(p, Len(t))) : t \in AllSubSeqs(a.s)}
      Lowest == Ranked(h, a.s, p)
  IN (IF n < p THEN {Done(h, a)} ELSE {})
     \cup (IF n < 1 THEN {Done(h, a)}
           ELSE IF p <= 0 THEN {Ok(h, <<>>)}
           ELSE IF p > n THEN Highest \cup {Panic(h)}
           ELSE Highest \cup Lowest)

(* a heap of p series, compared with its root even when it is empty *)
mostDeviant(h, a, p) ==
  IF p <= 0
  THEN {Ok(h, <<>>)} \cup (IF \E i \in DOMAIN a.s : h[a.s[i]].n > 0 THEN {Panic(h)} ELSE {})
  ELSE UNION {Ranked(h, t, Lesser(p, Len(t))) : t \in AllSubSeqs(a.s)}

(* the points of all series between two indices, which the length of the   *)
(* first gives *)
tukey(h, a, p, nulls) ==
  LET length == h[a.s[1]].n
      Outliers == UNION {Ranked(h, t, Lesser(p, Len(t))) : t \in AllSubSeqs(a.s)}
      Pointless == {Panic(h)}
  IN {Ok(h, <<>>)} \cup             \* basis <= 0: neither series nor error
     IF p < 1 THEN {Err(h)}
     ELSE IF a.s = <<>> \/ length = 0 \/ \E i \in DOMAIN a.s : h[a.s[i]].n < length
     THEN Pointless
     ELSE Outliers \cup (IF nulls THEN Pointless ELSE {})

(* the series of b that correlate with the one of a; other lengths are     *)
(* skipped *)
pearsonClosest(h, a, b, p) ==
  LET alike == Only(b.s, {q \in ToSet(b.s) : h[q].n = h[a.s[1]].n})
  IN IF Len(a.s) # 1 THEN {Err(h)}
     ELSE IF p < 0 THEN {Panic(h)}
     ELSE UNION {Ranked(h, t, Lesser(p, Len(t))) : t \in AllSubSeqs(alike)}

(* Joins by name: the names b shares with a are those of the pointers they *)
(* share, or of any (S) when names repeat.  OR appends to the slice it was *)
(* given. *)
join(h, a, b) ==
  LET Both(S) == Only(a.s, S)
      OnlyA(S) == Only(a.s, ToSet(a.s) \ S)
      OnlyB(S) == Only(b.s, (ToSet(b.s) \ S) \ ToSet(a.s))
      Shared == {S \in SUBSET (ToSet(a.s) \cup ToSet(b.s)) : ToSet(a.s) \cap ToSet(b.s) \subseteq S}
  IN UNION {{Ok(h, Both(S)), Ok(h, OnlyA(S)), Ok(h, OnlyA(S) \o OnlyB(S)),
             AppendTo(h, a, OnlyB(S))} : S \in Shared}

-----------------------------------------------------------------------------
(* What a callback given by name makes of a group: one aggregated series   *)
(* (sum, avg, ...), the series renamed, an error or nothing. *)
Callback(h, s, extrapolate) ==
  {AggregateSeries(h, s, extrapolate), Err(h), Ok(h, <<>>),
   New(h, [i \in DOMAIN s |-> CopyLinkTags(h[s[i]])])}

(* A callback on every group in turn: the heap, the results so far and how *)
(* the call ended.  An error of the callback ends the call when strict. *)
CallGroups(h, groups, extrapolate, strict, Result(_, _)) ==
  LET Step(r, g) ==
        {IF c.st = "error"
         THEN (IF strict THEN c ELSE [r EXCEPT !.h = c.h])
         ELSE IF c.st # "ok" THEN c
         ELSE LET t == Result(c.h, c.out.s)
              IN Ok(t.h, r.out.s \o t.out.s) :
         c \in Callback(r.h, g, extrapolate)}
      After(R, g) == UNION {IF r.st = "ok" THEN Step(r, g) ELSE {r} : r \in R}
  IN FoldLeft(After, {Ok(h, <<>>)}, groups)

(* groupByNode(s): the first series of each result, under the group's name *)
groupByNode(h, a, extrapolate) ==
  UNION {CallGroups(h, groups, extrapolate, FALSE, LAMBDA g, s :
           New(g, [i \in 1..Lesser(1, Len(s)) |-> CopyName(g[s[i]])])) :
         groups \in IF a.s = <<>> THEN {<<>>} ELSE Groupings(a.s)}

(* groupByTags: every series of each result, with the tags of the group *)
groupByTags(h, a, extrapolate) ==
  UNION {CallGroups(h, groups, extrapolate, TRUE, LAMBDA g, s :
           New(g, [i \in DOMAIN s |-> [CopyTag(g[s[i]]) EXCEPT !.tags = 0]])) :
         groups \in IF a.s = <<>> THEN {<<>>} ELSE Groupings(a.s)}

(* reduceSeries: each series is appended to the list under its own name    *)
(* (keys) before a function of the matching ones, renamed, is evaluated    *)
Noted(s, values, keys) ==
  [k \in {keys[s[i]] : i \in DOMAIN s} \cap DOMAIN values |->
     values[k] \o Only(s, {q \in ToSet(s) : keys[q] = k})]

Renamed(r) ==
  IF r.st # "ok" THEN {r} ELSE {New(r.h, [i \in DOMAIN r.out.s |-> CopyLinkTags(r.h[r.out.s[i]])])}

Reduced(h, s, extrapolate) ==
  {Ok(h, <<>>), Err(h)} \cup
  UNION {Renamed(AggregateSeries(h, t, extrapolate)) : t \in AllSubSeqs(s) \ {<<>>}}

reduce(h, a, values, keys, extrapolate) ==
  {[r EXCEPT !.put = Noted(a.s, values, keys)] : r \in Reduced(h, a.s, extrapolate)}

(* Mutated form of heatMap: the sorted list is shifted over its first. *)
heatMapShifts(h, a) ==
  IF a.s = <<>> THEN {Panic(h)}
  ELSE {Stored(Err(h), a, [i \in DOMAIN t |-> t[Len(t)]]) : t \in Orders(a.s)}

(* heatMap: sorts the list it was given in place by the sums of the first  *)
(* points, and subtracts neighbours on one grid *)
Subtracted(h, t) ==
  IF \A i \in DOMAIN t : Grid(h[t[i]]) = Grid(h[t[1]])
  THEN New(h, [i \in 1..(Len(t) - 1) |-> Filled(CopyLinkTags(h[t[i + 1]]))])
  ELSE Err(h)

heatMap(h, a) ==
  IF a.s = <<>> THEN {Panic(h)}
  ELSE IF Len(a.s) > 1 /\ \E i \in DOMAIN a.s : h[a.s[i]].n < h[a.s[1]].n THEN {Panic(h), Err(h)}
  ELSE {Stored(Subtracted(h, t), a, t) : t \in Orders(a.s)}
=============================================================================
