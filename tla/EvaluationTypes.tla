--------------------------- MODULE EvaluationTypes ---------------------------
(***************************************************************************)
(* What a call of a function may leave behind: the types of series, lists  *)
(* and outcomes, the inductive invariant of Evaluation, and the names the  *)
(* proofs of EvaluationProofs give to the values they reason about.        *)
(***************************************************************************)
EXTENDS Evaluation

(* A series of any grid that was written through no fetched one, but over  *)
(* its tail. *)
Metric ==
  [start : Int, step : Int, stop : Int, n : Int, arr : Int, full : Int, tags : Int,
   hits : SUBSET ({"tail"} \X Int)]

Heaps == Seq(Metric)

(* The same grid. *)
Alike(r, s) == r.start = s.start /\ r.step = s.step /\ r.stop = s.stop /\ r.n = s.n

(* Outcomes of calls.                                                      *)
Slices == [key : 0..3, s : Seq(Nat), cap : Nat]

(* A heap a call may leave: series of a positive step keep one. *)
Grown(h, g) ==
  /\ h \in Heaps /\ g \in Heaps /\ Len(h) <= Len(g)
  /\ \A p \in 1..Len(h) : h[p].step > 0 => g[p].step > 0

(* A slice of a fetched list is a prefix of it. *)
Linked(a) ==
  a.key # 0 => /\ a.cap = Len(values[a.key]) /\ Len(a.s) <= a.cap
               /\ a.s = SubSeq(values[a.key], 1, Len(a.s))

(* What a call may do to the heap, whatever it is given: pointers it hands *)
(* on point into the heap, and no list is stored into. *)
OutcomeOK(h, r) ==
  /\ r = [h |-> r.h, out |-> r.out, st |-> r.st, put |-> <<>>]
  /\ Grown(h, r.h)
  /\ r.out \in Slices /\ r.out.s \in Seq(1..Len(r.h)) /\ Linked(r.out)
  /\ r.st \in {"ok", "error", "panic", "hang"}

(* What it has to do with ordinary arguments. *)
Served(r) ==
  /\ r.st \notin {"panic", "hang"}
  /\ r.st = "ok" => \A i \in DOMAIN r.out.s : Fits(r.h[r.out.s[i]])

(* An outcome of a call on the list s with its other arguments in range. *)
Good(h, s, inRange, r) == OutcomeOK(h, r) /\ (Regular(h, s) /\ inRange => Served(r))

(* A list of the heap that may be passed on. *)
List(h, s) == h \in Heaps /\ s \in Seq(1..Len(h)) /\ \A i \in DOMAIN s : h[s[i]].step > 0

Given(h, a) == a \in Slices /\ Linked(a) /\ List(h, a.s)

(* There is a fold, G being its step as a function. *)
Folds(f, D, base, G, M) ==
  f = [s \in SUBSET D |-> IF s = {} THEN base ELSE G[<<f[s \ {M[s]}], M[s]>>]]

(* What Only has taken from the places u of s: in their order, and the     *)
(* first ones stay where they are when all are taken.                      *)
Taken(s, S, u, t) ==
  /\ ToSet(t) = {s[i] : i \in u} \cap S /\ Len(t) <= Cardinality(u)
  /\ (\A i, j \in DOMAIN s : s[i] = s[j] => i = j) => \A i, j \in DOMAIN t : t[i] = t[j] => i = j
  /\ \A k \in u : 1..k \subseteq u /\ (\A j \in 1..k : s[j] \in S) => k <= Len(t) /\ \A j \in 1..k : t[j] = s[j]

(* A series inside the request whose last point is a step before its stop. *)
Whole(r) ==
  /\ r.step > 0 /\ r.n > 0 /\ r.stop = r.start + r.n * r.step
  /\ From <= r.start /\ r.stop <= Until

AllGood(h, s, inRange, R) == \A r \in R : Good(h, s, inRange, r)

(* A count is in range: at most the number of series, at least a step. *)
CountedIn(h, s, p) == p \in 1..Len(s) /\ \A i \in DOMAIN s : p >= h[s[i]].step

(* The heap g is h with the series of the list changed. *)
Changed(h, s, g) ==
  /\ Grown(h, g) /\ Len(g) = Len(h)
  /\ \A p \in 1..Len(h) : p \notin ToSet(s) => g[p] = h[p]

(* The stop times of a list repaired. *)
Fixed(h, s) == [p \in DOMAIN h |-> IF p \in ToSet(s) THEN FixStopTime(h[p]) ELSE h[p]]

(* Series on one grid whose stop is a step after the last point.           *)
Flat(h, s) ==
  /\ \A p, q \in ToSet(s) : Alike(h[p], h[q])
  /\ \A p \in ToSet(s) : h[p].stop = h[p].start + h[p].n * h[p].step

(* All series as they were, their points and tags aside. *)
Same(h, s, g) == \A p \in ToSet(s) : Alike(g[p], h[p])

(* The series after their steps are brought together, padded to the bounds *)
(* of the list. *)
Reached(h, s, x) ==
  [p \in DOMAIN h |-> IF p \in ToSet(s)
                      THEN Reaching(Prepared(h, s, x)[p], MinStart(h, s), MaxStop(Fixed(h, s), s))
                      ELSE h[p]]

(* Outcomes of calls on series of a list L: series on one grid stay on it, *)
(* and what is made of them is on it.                                      *)
Still(h, g) == \A p \in 1..Len(h) : Alike(g[p], h[p])

Near(h, L, s) == \A p \in ToSet(s) : \E q \in ToSet(L) : Alike(h[p], h[q])

Safe(h, r) == OutcomeOK(h, r) /\ r.out.key = 0 /\ List(r.h, r.out.s)

Steady(h, L, r) ==
  /\ Safe(h, r)
  /\ Flat(h, L) => r.st \in {"ok", "error"} /\ Still(h, r.h) /\ Near(r.h, L, r.out.s)

(* Folds over the elements of a sequence.                                  *)
Safes(h) ==
  {r \in [h : Heaps, out : Slices, st : {"ok", "error", "panic", "hang"}, put : {<<>>}] : Safe(h, r)}

Steadies(h, L) ==
  {r \in [h : Heaps, out : Slices, st : {"ok", "error", "panic", "hang"}, put : {<<>>}] : Steady(h, L, r)}

(* The fold of the function G, whose values are in P. *)
FoldMade(f, n, P, base, G) ==
  /\ f = [u \in SUBSET (1..n) |-> IF u = {} THEN base ELSE G[<<f[u \ {Max(u)}], Max(u)>>]]
  /\ \A u \in SUBSET (1..n) : u # {} => f[u \ {Max(u)}] \in P /\ Max(u) \in 1..n

(* The series of h are in g as they were. *)
Extends(h, g) == \A i \in 1..Len(h) : g[i] = h[i]

(* The first of the result under a new name; all of it. *)
FirstNamed(g, s) == New(g, [i \in 1..Lesser(1, Len(s)) |-> CopyName(g[s[i]])])

AllTagged(g, s) == New(g, [i \in DOMAIN s |-> [CopyTag(g[s[i]]) EXCEPT !.tags = 0]])

(* L is s followed by t. *)
Joined(L, s, t) ==
  /\ Len(L) = Len(s) + Len(t)
  /\ (\A i \in 1..Len(s) : L[i] = s[i]) /\ \A i \in 1..Len(t) : L[Len(s) + i] = t[i]

(* The fold of divideSeries: quotients so far and the denominator of the   *)
(* next one. *)
Dividing(h, L, r) ==
  /\ Grown(h, r.h)
  /\ r.denominator \in 1..Len(r.h) /\ r.h[r.denominator].step > 0
  /\ List(r.h, r.out)
  /\ Flat(h, L) => /\ Still(h, r.h) /\ Near(r.h, L, r.out)
                   /\ \E q \in ToSet(L) : Alike(r.h[r.denominator], h[q])

DivideStep(r, p) ==
  LET c == ConsolidateSeriesByStep(r.h, p, r.denominator)
      g == c[1]
  IN [h |-> Append(g, Filled(CopyTag(g[c[2][1]]))),
      denominator |-> c[2][2], out |-> Append(r.out, Len(g) + 1)]

Dividings(h, L) == {r \in [h : Heaps, denominator : Nat, out : Seq(Nat)] : Dividing(h, L, r)}

Divided(h, w, q) == FoldLeft(DivideStep, [h |-> h, denominator |-> q, out |-> <<>>], w)

(* A slice of a fetched list is a prefix of what the list became. *)
LinkedAfter(put, a) ==
  LET stored == IF a.key \in DOMAIN put THEN Overlaid(values[a.key], put[a.key]) ELSE values[a.key]
  IN a.key # 0 => /\ a.cap = Len(stored) /\ Len(a.s) <= a.cap
                  /\ a.s = SubSeq(stored, 1, Len(a.s))

(* What a call may do that stores into the lists it was given.             *)
Sound(h, r) ==
  /\ r = [h |-> r.h, out |-> r.out, st |-> r.st, put |-> r.put]
  /\ Grown(h, r.h)
  /\ r.out \in Slices /\ r.out.s \in Seq(1..Len(r.h))
  /\ r.st \in {"ok", "error", "panic", "hang"}
  /\ \A k \in DOMAIN r.put : r.put[k] \in Seq(1..Len(r.h))
  /\ LinkedAfter(r.put, r.out)

Fair(h, s, inRange, r) == Sound(h, r) /\ (Regular(h, s) /\ inRange => Served(r))

AllFair(h, s, inRange, R) == \A r \in R : Fair(h, s, inRange, r)

(* A numerator that has no denominator, or one. *)
NameStep(g, p, u) == IF p[2] = 0 THEN Unpaired(g, p[1]) ELSE {Combine(g, <<p[1], u[p[2]]>>)}

EachNamed(h, w, z) == Each(Ok(h, <<>>), w, LAMBDA g, p : NameStep(g, p, z))

(* Outcomes that are no slice of a fetched list. *)
AllOwn(R) == \A r \in R : r.out.key = 0

(* asPercent: series written in place that hold points of their own.       *)
Ours(g, S) == g \in Heaps /\ S \subseteq 1..Len(g) /\ \A p \in S : g[p].arr = 0 /\ g[p].step > 0

OneLength(g, S) == \A p, q \in S : g[p].n = g[q].n

(* The heap f is g with series of S rewritten. *)
Redone(g, S, f) ==
  /\ f \in Heaps /\ Len(f) = Len(g)
  /\ \A p \in 1..Len(g) : p \notin S => f[p] = g[p]
  /\ \A p \in S : f[p].arr = 0 /\ f[p].step = g[p].step
  /\ OneLength(g, S) => \A p \in S : Alike(f[p], g[p])

(* ... by the total q. *)
ByOne(g, s, q) == OnEach(g, s, LAMBDA r : getPercentages(r, g[q]))

(* Outcomes on series of S, which end well when these have one length. *)
Percent(g, S, inRange, r) ==
  /\ r = [h |-> r.h, out |-> Own(r.out.s), st |-> r.st, put |-> <<>>]
  /\ Redone(g, S, r.h) /\ r.out.s \in Seq(S)
  /\ r.st \in {"ok", "panic", "hang"}
  /\ OneLength(g, S) /\ inRange => r.st = "ok"

(* A series of u that is shorter than the one of A at its place. *)
ShorterAt(g, u, A, n) == \E i \in 1..n : g[u[i]].n < g[A[i]].n

(* Several new series for each of a list. *)
FitsIf(c) == {x \in Metric : c => Fits(x)}

(* The buckets hitcount makes over the grid of first: where they stop, how *)
(* many there are and where they start. *)
HitStop(first, p, align) ==
  IF align THEN first.start + ((first.stop - first.start) \div p) * p + p ELSE first.stop

HitCount(first, p, align) == GetBuckets(first.start, HitStop(first, p, align), p)

HitStart(first, p, align) == HitStop(first, p, align) - HitCount(first, p, align) * p

HitOutside(first, p, align, s) ==
  \E i \in 0..(s.n - 1) :
    LET startBucket == Quot(s.start + i * s.step - HitStart(first, p, align), p)
        endBucket == Lesser(Quot(s.start + (i + 1) * s.step - HitStart(first, p, align), p), HitCount(first, p, align) - 1)
    IN startBucket >= HitCount(first, p, align) \/ (startBucket < -1 /\ startBucket + 1 < endBucket)

HitSeries(first, p, align, s) ==
  [Bucketed(s, p, HitStart(first, p, align), HitCount(first, p, align)) EXCEPT !.stop = HitStop(first, p, align)]

(* The buckets summarize makes over the grid of first: where they start    *)
(* and stop, how many there are at most and for the series s, and whether  *)
(* one ends before s starts. *)
SumStart(first, p, f) == IF f THEN first.start ELSE (first.start \div p) * p

SumStop(first, p, f) == IF f THEN first.stop ELSE CeilDiv(first.stop, p) * p + p

SumAll(first, p, f) == CeilDiv(Greater(0, SumStop(first, p, f) - SumStart(first, p, f)), p)

SumPast(first, p, f, s, k) ==
  /\ SumStart(first, p, f) + k * p >= s.start
  /\ CeilDiv(SumStart(first, p, f) + k * p - s.start, s.step) > s.n

SumCount(first, p, f, s) ==
  Least({SumAll(first, p, f)} \cup {k + 1 : k \in {j \in 0..(SumAll(first, p, f) - 1) : SumPast(first, p, f, s, j)}})

SumEarly(first, p, f, s) ==
  SumAll(first, p, f) > 0 /\ Quot(SumStart(first, p, f) + p - s.start + s.step - 1, s.step) < 0

(* The last bucket of a series starts inside it. *)
SmartBeyond(s, p) ==
  LET last == GetBuckets(s.start, s.stop, p) - 1
  IN last >= 0 /\ CeilDiv(last * p, s.step) > s.n

(* What a call leaves.                                                     *)
(* The lists, the series that are kept and their numbers. *)
Lists(r) == Stores(r.put)

Live(r) ==
  ToSet(r.out.s) \cup Sources \cup UNION {ToSet(Lists(r)[k]) : k \in DOMAIN Lists(r)}

Kept(r) == Only([p \in DOMAIN r.h |-> p], Live(r))

Renumbered(kept, s) == [i \in DOMAIN s |-> CHOOSE j \in DOMAIN kept : kept[j] = s[i]]

(* The types of the variables; a slice of a fetched list is a prefix of it. *)
Typed ==
  /\ heap \in Heaps
  /\ values \in [1..3 -> Seq(1..Len(heap))]
  /\ cur \in Slices /\ cur.s \in Seq(1..Len(heap)) /\ Linked(cur)
  /\ extrapolate \in BOOLEAN
  /\ Sources \subseteq DOMAIN heap

(* What a call leaves in the stored lists of what they held: all of it,    *)
(* when the slice it stores through is the whole list. *)
Keeps(put) ==
  \A k \in DOMAIN values : \A i \in DOMAIN values[k] :
    k \in DOMAIN put /\ i <= Len(put[k]) => values[k][i] \in ToSet(put[k])

AllKeep(R) == \A r \in R : Keeps(r.put)

Entire(a) == a.key = 0 \/ Len(a.s) = a.cap

(* The inductive invariant. *)
Spoilt == spoilt \subseteq {"tail"} \X Int

Ended == /\ outcome \in {"ok", "error", "panic", "hang"}
         /\ left \in Nat /\ regular \in BOOLEAN

EvaluationInv == Typed /\ Spoilt /\ Ended /\ RegularIsServed /\ RegularFits

(* What a step does: the invariant holds after it, and the lists have the  *)
(* fetched series they had, unless the last result is part of a list. *)
Stay == Entire(cur) => \A k \in DOMAIN values : ToSet(values[k]) \cap Sources \subseteq ToSet(values'[k])

Held == EvaluationInv' /\ Stay
==============================================================================
