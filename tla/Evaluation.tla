----------------------------- MODULE Evaluation -----------------------------
(***************************************************************************)
(* An expression evaluated over the series a request fetched (expr.go,     *)
(* expr/functions).  Every target of the request reads the same map        *)
(* `values` of lists of pointers to the same MetricData, so a function     *)
(* that writes to its argument changes what the next one is given.         *)
(*                                                                         *)
(* A behaviour is a sequence of calls, innermost first: each takes lists   *)
(* of the map and the result `cur` of the call before.  How a function     *)
(* goes on depends on values, names and options the model leaves out; its  *)
(* operator gives every way it can.                                        *)
(***************************************************************************)
EXTENDS FnMap, FnSelect, FnCombine, FnTime

CONSTANTS
  Scenarios,          \* how the second series was fetched, the configuration
                      \* and, a bound, the number of calls to explore
  MaxSeries           \* bound: series of a list a call is given

ASSUME EvaluationAssumption ==
  /\ MaxSeries \in Nat /\ MaxSeries < NameLen \* a count in range is a position in a name
  /\ \A c \in Scenarios :
       /\ c.start \in Int /\ c.step \in Nat \ {0} /\ c.stop \in Int /\ c.n \in Nat
       /\ c.extrapolate \in BOOLEAN /\ c.calls \in Nat

VARIABLES
  heap,               \* the fetched series, then those cur points to
  values,             \* values[k]: series k alone; values[3]: a glob, both
  cur,                \* result of the last call
  left,               \* calls left to explore
  extrapolate,        \* configuration ExtrapolateExperiment
  spoilt,             \* what was written to fetched series so far (hits)
  outcome,            \* how the last call ended: ok, error, panic, hang
  regular             \* its arguments had one grid inside the request

vars == <<heap, values, cur, left, extrapolate, spoilt,
          outcome, regular>>

Sources == 1..2

Fetched(i, start, step, n, stop) ==
  [start |-> start, step |-> step, stop |-> stop, n |-> n,
   arr |-> i, full |-> n, tags |-> i, hits |-> {}]

Init ==
  /\ \E c \in Scenarios :
       /\ heap = <<Fetched(1, From, 1, Until - From, Until),
                   Fetched(2, c.start, c.step, c.n, c.stop)>>
       /\ extrapolate = c.extrapolate
       /\ left = c.calls
  /\ values = <<<<1>>, <<2>>, <<1, 2>>>>
  /\ cur = Own(<<>>)
  /\ spoilt = {}
  /\ outcome = "ok"
  /\ regular = FALSE

(* GetSeriesArg: a metric is looked up in the map, where it may be         *)
(* missing; a call was evaluated.  A result with a step that is not        *)
(* positive (a line over an interval of no length, a negative step asked   *)
(* for) is not passed on, a bound. *)
Passed(a) == Len(a.s) <= MaxSeries /\ \A i \in DOMAIN a.s : heap[a.s[i]].step > 0

Known ==
  {a \in {[key |-> k, s |-> values[k], cap |-> Len(values[k])] : k \in DOMAIN values} : Passed(a)}
  \cup {Own(<<>>)}

Inner == cur.s # <<>>
Args == IF Inner THEN {a \in {cur} : Passed(a)} ELSE Known
Pairs == IF Inner THEN (Args \X (Args \cup Known)) \cup (Known \X Args) ELSE Known \X Known

-----------------------------------------------------------------------------
(* What a call leaves: the lists it stored into, the series that lists and *)
(* result point to, renumbered, and what it wrote to fetched series.       *)
Overlaid(old, new) == new \o SubSeq(old, Len(new) + 1, Len(old))

Stores(put) ==
  [k \in DOMAIN values |->
     IF k \in DOMAIN put THEN Overlaid(values[k], put[k]) ELSE values[k]]

Written(h) == UNION {h[p].hits : p \in DOMAIN h}

Finish(r) ==
  LET lists == Stores(r.put)
      live == ToSet(r.out.s) \cup Sources \cup UNION {ToSet(lists[k]) : k \in DOMAIN lists}
      kept == Only([p \in DOMAIN r.h |-> p], live)
      Now(s) == [i \in DOMAIN s |-> CHOOSE j \in DOMAIN kept : kept[j] = s[i]]
  IN /\ heap' = [i \in DOMAIN kept |-> [r.h[kept[i]] EXCEPT !.hits = {}]]
     /\ cur' = [r.out EXCEPT !.s = Now(@)]
     /\ values' = [k \in DOMAIN lists |-> Now(lists[k])]
     /\ spoilt' = spoilt \cup Written(r.h)
     /\ outcome' = r.st
     /\ UNCHANGED extrapolate

(* The arguments any test of a function has: lists on one grid inside the  *)
(* request, with a point for each series. *)
OneGrid(h, s) == \A i \in DOMAIN s : Grid(h[s[i]]) = Grid(h[s[1]])

Regular(h, s) ==
  /\ s # <<>> /\ OneGrid(h, s)
  /\ LET r == h[s[1]]
     IN r.stop = r.start + r.n * r.step /\ From <= r.start /\ r.stop <= Until /\ Len(s) <= r.n

MayCall == left > 0 /\ outcome \in {"ok", "error"}

Call(R, s, inRange) ==
  /\ left' = left - 1
  /\ regular' = (Regular(heap, s) /\ inRange)
  /\ \E r \in R : Finish(r)

(* by arguments: one list, two, and a number or an option *)
Unary(F(_, _)) == MayCall /\ \E a \in Args : Call(F(heap, a), a.s, TRUE)
UnaryWith(F(_, _, _), option) ==
  MayCall /\ \E a \in Args : Call(F(heap, a, option), a.s, TRUE)
Counted(F(_, _, _)) ==
  MayCall /\ \E a \in Args, p \in Intervals :
    Call(F(heap, a, p), a.s, p \in 1..Len(a.s) /\ \A i \in DOMAIN a.s : p >= heap[a.s[i]].step)
Binary(F(_, _, _)) ==
  MayCall /\ \E c \in Pairs :
    Call(F(heap, c[1], c[2]), c[1].s \o c[2].s, c[1].s # <<>> /\ c[2].s # <<>>)
BinaryWith(F(_, _, _, _), option) ==
  MayCall /\ \E c \in Pairs :
    Call(F(heap, c[1], c[2], option), c[1].s \o c[2].s, Len(c[1].s) = Len(c[2].s))
BinaryCounted(F(_, _, _, _)) ==
  MayCall /\ \E c \in Pairs, p \in Intervals :
    Call(F(heap, c[1], c[2], p), c[1].s \o c[2].s, c[2].s # <<>> /\ p \in 1..Len(c[1].s))

(* without a list *)
Made(R) == MayCall /\ ~Inner /\ Call(R, <<1>>, TRUE)
MadeWith(F(_, _)) ==
  MayCall /\ ~Inner /\ \E p \in Intervals : Call(F(heap, p), <<1>>, p > 0)

(* Nothing is promised: points without a value, series without a partner   *)
(* of their name, a server that does not answer, or a function that keeps  *)
(* to no grid and puts its last point at the stop. *)
Adverse(R) == MayCall /\ Call(R, <<1>>, FALSE)

(* an argument of a wrong kind or out of range is refused before anything  *)
(* is evaluated *)
BadArgument == Adverse({Err(heap)})

(* a number where a list is expected: a series of one point *)
Constant(h) == {New(h, <<Fresh(From, Until - From, Until, 1)>>)}

(* The target is evaluated and SortMetrics sorts every list of the map in  *)
(* place; the next target starts from the map. *)
NewTarget ==
  /\ Inner /\ MayCall
  /\ \E t \in Orders(values[3]) : Finish([Ok(heap, <<>>) EXCEPT !.put = [k \in {3} |-> t]])
  /\ regular' = FALSE
  /\ UNCHANGED left

(* the key of the list that holds series q under its own name; a computed  *)
(* series has a name nothing is fetched under *)
Keys == [q \in DOMAIN heap |-> IF q \in Sources THEN q ELSE 0]

Next ==
  \/ BadArgument
  \/ Unary(absolute)
  \/ Unary(derivative)
  \/ Unary(integral)
  \/ Unary(invert)
  \/ Unary(isNotNull)
  \/ Unary(offsetToZero)
  \/ Unary(exp)
  \/ Unary(logarithm)
  \/ Unary(logit)
  \/ Unary(nPercentile)
  \/ Unary(offset)
  \/ Unary(pow)
  \/ Unary(removeBelowSeries)
  \/ Unary(round)
  \/ Unary(scale)
  \/ Unary(scaleToSeconds)
  \/ Unary(sigmoid)
  \/ Unary(squareRoot)
  \/ Unary(timeSlice)
  \/ Unary(perSecond)
  \/ Unary(nonNegativeDerivative)
  \/ Unary(interpolate)
  \/ Unary(keepLastValue)
  \/ Unary(lowPass)
  \/ Unary(minMax)
  \/ Unary(changed)
  \/ Unary(ewma)
  \/ Unary(fft)
  \/ Unary(alias)
  \/ Unary(aliasByMetric)
  \/ Unary(aliasByNode)
  \/ Unary(aliasSub)
  \/ Unary(cactiStyle)
  \/ Unary(substr)
  \/ Unary(consolidateBy)
  \/ Unary(cumulative)
  \/ Unary(setXFilesFactor)
  \/ Unary(legendValue)
  \/ Unary(transformNull)
  \/ Unary(aggregateLine)
  \/ Unary(averageOutsidePercentile)
  \/ Unary(below)
  \/ Unary(filter)
  \/ Unary(exclude)
  \/ Unary(grep)
  \/ Unary(unique)
  \/ Unary(removeEmptySeries)
  \/ Unary(sortBy)
  \/ Unary(sortByName)
  \/ Unary(mapSeries)
  \/ Unary(seriesByTag)
  \/ Unary(heatMap)
  \/ Unary(powSeries)
  \/ Unary(rangeOfSeries)
  \/ Unary(countValues)
  \/ Unary(baselines)
  \/ Unary(timeStack)
  \/ Unary(linearRegression)
  \/ Counted(stdev)
  \/ Counted(integralByInterval)
  \/ Counted(aliasByBase64)
  \/ Counted(toLowerCase)
  \/ Counted(toUpperCase)
  \/ Counted(delay)
  \/ Counted(limit)
  \/ Counted(highestLowest)
  \/ Counted(mostDeviant)
  \/ Counted(moving)
  \/ Counted(exponentialMovingAverage)
  \/ Counted(movingMedian)
  \/ Counted(holtWintersForecast)
  \/ Counted(holtWintersConfidenceBands)
  \/ Counted(holtWintersConfidenceArea)
  \/ Counted(holtWintersAberration)
  \/ Counted(hitcount)
  \/ Counted(summarize)
  \/ Counted(smartSummarize)
  \/ Counted(slo)
  \/ Counted(polyfit)
  \/ Binary(integralWithReset)
  \/ Binary(ifft)
  \/ Binary(aliasQuery)
  \/ Binary(group)
  \/ Binary(fallbackSeries)
  \/ Binary(join)
  \/ Binary(divideSeries)
  \/ BinaryWith(seriesList, FALSE)
  \/ BinaryCounted(pearsonClosest)
  \/ BinaryCounted(kolmogorovSmirnovTest2)
  \/ BinaryCounted(pearson)
  \/ BinaryCounted(timeShiftByMetric)
  \/ UnaryWith(groupByNode, extrapolate)
  \/ UnaryWith(groupByTags, extrapolate)
  \/ UnaryWith(aggregate, extrapolate)
  \/ UnaryWith(percentileOfSeries, extrapolate)
  \/ UnaryWith(aggregateWithWildcards, extrapolate)
  \/ UnaryWith(asPercent, extrapolate)
  \/ BinaryWith(aggregateSeriesLists, extrapolate)
  \/ BinaryWith(asPercentOf, extrapolate)
  \/ BinaryWith(weightedAverage, extrapolate)
  \/ UnaryWith(removeBetweenPercentile, FALSE)
  \/ UnaryWith(compressPeriodicGaps, FALSE)
  \/ BinaryWith(transformNullReference, FALSE)
  \/ UnaryWith(aliasByRedis, TRUE)
  \/ Counted(LAMBDA h, a, p : aliasByPostgres(h, a, p, TRUE))
  \/ Counted(LAMBDA h, a, p : tukey(h, a, p, FALSE))
  \/ Unary(LAMBDA h, a : reduce(h, a, values, Keys, extrapolate))
  \/ \E resetEnd \in BOOLEAN : UnaryWith(timeShift, resetEnd)
  \/ Adverse(UNION {removeBetweenPercentile(heap, a, TRUE) : a \in Args})
  \/ Adverse(UNION {compressPeriodicGaps(heap, a, TRUE) : a \in Args})
  \/ Adverse(UNION {transformNullReference(heap, c[1], c[2], TRUE) : c \in Pairs})
  \/ Adverse(UNION {seriesList(heap, c[1], c[2], TRUE) : c \in Pairs})
  \/ Adverse(UNION {aliasByRedis(heap, a, FALSE) : a \in Args})
  \/ \E p \in Intervals : Adverse(UNION {aliasByPostgres(heap, a, p, FALSE) : a \in Args})
  \/ \E p \in Intervals : Adverse(UNION {tukey(heap, a, p, TRUE) : a \in Args})
  \/ Made(Constant(heap))
  \/ Made(constantLine(heap))
  \/ Made(identity(heap))
  \/ Made(example(heap))
  \/ MadeWith(timeFunction)
  \/ MadeWith(sinFunction)
  \/ MadeWith(randomWalk)
  \/ ~Inner /\ Adverse(UNION {graphiteWeb(heap, alive) : alive \in BOOLEAN})
  \/ ~Inner /\ Adverse(UNION {verticalLine(heap, p) : p \in Intervals})
  \/ NewTarget

Spec == Init /\ [][Next]_vars

-----------------------------------------------------------------------------
(* Whatever is called on it, in any order, the points and the tags of a    *)
(* fetched series, which other targets and the cache of fetched data       *)
(* share, are never assigned: every function writes into copies.  (A       *)
(* "tail" can be: timeShift with resetEnd hands on a prefix of the fetched *)
(* points, over whose rest AlignSeries then appends nulls.) *)
SourcesNotAssigned == \A hit \in spoilt : hit[1] = "tail"

(* A list of series on one grid inside the request, a point for each, and  *)
(* an interval or count of at least their step and at most their number    *)
(* make no function panic or loop: index, divide by zero, slice a bound.   *)
RegularIsServed == regular => outcome \notin {"panic", "hang"}

(* ... and the result is a series whose last point is before its stop: the *)
(* renderers take a series to have points up to StopTime. *)
Fits(r) == r.n = 0 \/ r.start + (r.n - 1) * r.step < r.stop
RegularFits ==
  regular /\ outcome = "ok" => \A i \in DOMAIN cur.s : Fits(heap[cur.s[i]])

(* Whatever was done to the series before, ScaleSeries, which every        *)
(* aggregate starts with, leaves a list with one start, step, length and   *)
(* stop. *)
ScaledToOneGrid ==
  outcome # "panic" => \A a \in Known \cup Args :
    AlignPanics(heap, a.s, extrapolate) \/ OneGrid(ScaleSeries(heap, a.s, extrapolate), a.s)

(* The lists of the map keep the series fetched for them, also when a call *)
(* sorts a list in place or appends to it - unless it was handed a part of *)
(* the list (limit), whose rest an append writes over. *)
ListsKept ==
  [][(cur.key = 0 \/ Len(cur.s) = cur.cap) =>
       \A k \in DOMAIN values : ToSet(values[k]) \cap Sources \subseteq ToSet(values'[k])]_vars
=============================================================================
