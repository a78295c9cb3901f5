------------------------------- MODULE Series -------------------------------
(***************************************************************************)
(* The series functions work on (expr/types, expr/helper), reduced to what *)
(* a function can get wrong without any arithmetic on values:              *)
(*   - the grid of a MetricData: StartTime, StepTime, StopTime and the     *)
(*     length n of Values;                                                 *)
(*   - what it shares with the series a fetch brought: arr is the fetched  *)
(*     series whose Values array it reads (0: an array of its own), full   *)
(*     the length of that array, tags the one whose Tags map it holds;     *)
(*   - hits: the fetched series written through it - "values" (an element  *)
(*     assigned), "tail" (append over elements the owner of the array      *)
(*     still sees), "tags" (a key of the Tags map set).                    *)
(*                                                                         *)
(* A heap is a sequence of such records and a *MetricData is an index into *)
(* it; the first ones are the fetched series.  A []*MetricData is a slice  *)
(* [key, s, cap]: the pointers s, the entry of the map of fetched values   *)
(* whose backing array it is a prefix of (0: an array of its own) and the  *)
(* length of that array.                                                   *)
(*                                                                         *)
(* A function is an operator from heap and arguments to the SET of its     *)
(* outcomes, one for each way the values, names or optional arguments the  *)
(* model leaves out can decide it.                                         *)
(***************************************************************************)
EXTENDS Integers, Sequences, FiniteSets, SequencesExt

CONSTANTS
  From, Until,        \* the interval of the request
  Minute,             \* default step of generated series, 60 in the code
  NameLen,            \* characters of a metric name, as many nodes at most
  Intervals           \* values of an interval, count or position argument

ASSUME IntervalAssumption ==
  From \in Nat /\ Until \in Nat /\ From < Until /\ Minute \in Nat \ {0}
  /\ NameLen \in Nat
  /\ Intervals \subseteq Int

Lesser(a, b) == IF a < b THEN a ELSE b
Greater(a, b) == IF a > b THEN a ELSE b
Least(S) == CHOOSE x \in S : \A y \in S : x <= y
Greatest(S) == CHOOSE x \in S : \A y \in S : x >= y
CeilDiv(a, b) == (a + b - 1) \div b

(* Go's integer division truncates toward zero. *)
Quot(a, b) ==
  LET q == Greater(a, -a) \div Greater(b, -b)
  IN IF (a >= 0) = (b >= 0) THEN q ELSE -q

-----------------------------------------------------------------------------
(* Outcomes of a call. *)
Own(s) == [key |-> 0, s |-> s, cap |-> 0]
Done(h, slice) == [h |-> h, out |-> slice, st |-> "ok", put |-> <<>>]
Ok(h, s) == Done(h, Own(s))
Err(h) == [h |-> h, out |-> Own(<<>>), st |-> "error", put |-> <<>>]
Panic(h) == [h |-> h, out |-> Own(<<>>), st |-> "panic", put |-> <<>>]
Hang(h) == [h |-> h, out |-> Own(<<>>), st |-> "hang", put |-> <<>>]

(* The array under slice a now starts with the pointers t: when it is that *)
(* of a fetched list, put tells what the list becomes. *)
Stored(r, a, t) ==
  IF a.key = 0 THEN r
  ELSE [r EXCEPT !.put = [k \in {a.key} \cup DOMAIN r.put |-> IF k = a.key THEN t ELSE r.put[k]]]

(* append(a, t...) writes into the array while it has room *)
Appended(a, t) ==
  IF t # <<>> /\ Len(a.s) + Len(t) > a.cap THEN Own(a.s \o t) ELSE [a EXCEPT !.s = @ \o t]
AppendTo(h, a, t) == Stored(Done(h, Appended(a, t)), Appended(a, t), a.s \o t)

-----------------------------------------------------------------------------
(* A MetricData and the copies types.go makes of it. *)
Fresh(start, step, stop, n) ==
  [start |-> start, step |-> step, stop |-> stop, n |-> n,
   arr |-> 0, full |-> 0, tags |-> 0, hits |-> {}]

NewValues(r, n) == [r EXCEPT !.arr = 0, !.full = 0, !.n = n]
Hit(r, what, owner) ==
  IF owner = 0 THEN r ELSE [r EXCEPT !.hits = @ \cup {<<what, owner>>}]
Assign(r) == Hit(r, "values", r.arr)
SetTag(r) == Hit(r, "tags", r.tags)

(* r.Values = make(len) followed by r.Values[i] = ... *)
Filled(r) == Assign(NewValues(r, r.n))

Copy(s) == [s EXCEPT !.arr = 0, !.full = 0, !.tags = 0]
(* Mutated form of CopyLink: the copy holds the Tags map of its source. *)
CopyLinkShared(s) == s

CopyLink(s) == [s EXCEPT !.tags = 0]
CopyLinkTags(s) == s
CopyName(s) == [s EXCEPT !.tags = 0]
CopyTag(s) == s
CopyNameArg(s) == [s EXCEPT !.tags = 0]
CopyTags(s) == [s EXCEPT !.tags = 0]

FixStopTime(s) == [s EXCEPT !.stop = Greater(@, s.start + s.n * s.step)]
(* Mutated form of RecalcStopTime: the stop is the time of the last point. *)
RecalcStopTimeLast(s) == [s EXCEPT !.stop = s.start + (s.n - 1) * s.step]

RecalcStopTime(s) == [s EXCEPT !.stop = s.start + s.n * s.step]

(* append(genNaNs(k), s.Values...) builds a new array. *)
PadFront(s, k) == NewValues(s, s.n + k)

(* append(s.Values, genNaNs(k)...) writes into the array while it has room *)
PadBack(s, k) ==
  [(IF k > 0 /\ s.n < s.full THEN Hit(s, "tail", s.arr) ELSE s) EXCEPT !.n = @ + k]

-----------------------------------------------------------------------------
(* The pointers of a list that are in S, in the order of the list. *)
Only(s, S) == FoldLeft(LAMBDA t, p : IF p \in S THEN Append(t, p) ELSE t, <<>>, s)

(* Loops over a list of pointers. *)
OnEach(h, s, Op(_)) == [p \in DOMAIN h |-> IF p \in ToSet(s) THEN Op(h[p]) ELSE h[p]]

New(h, recs) == Ok(h \o recs, [i \in DOMAIN recs |-> Len(h) + i])

(* ForEachSeriesDo1: one new series for each of the list *)
ForEachSeriesDo1(h, a, Op(_)) ==
  {New(h, [i \in DOMAIN a.s |-> Op(h[a.s[i]])])}

(* ForEachSeriesDo: the function fills new values of a renamed copy *)
ForEachSeriesDo(h, a, Op(_)) ==
  ForEachSeriesDo1(h, a, LAMBDA s : Op(Filled(CopyName(s))))

(* one new series for some of the list *)
ForSomeSeriesDo(h, a, Op(_)) ==
  {New(h, [i \in DOMAIN t |-> Op(h[t[i]])]) : t \in AllSubSeqs(a.s)}

Subsets(h, a) == {Ok(h, t) : t \in AllSubSeqs(a.s)}

Orders(s) ==
  {[i \in DOMAIN s |-> s[f[i]]] :
     f \in {g \in [DOMAIN s -> DOMAIN s] : \A i, j \in DOMAIN s : g[i] = g[j] => i = j}}

(* The ways the names can split a list into groups (split into at most     *)
(* two), members in the order of the list and groups in either order.      *)
Groupings(s) ==
  {<<s>>} \cup
  {<<Only(s, S), Only(s, ToSet(s) \ S)>> : S \in (SUBSET ToSet(s)) \ {{}, ToSet(s)}}

Grid(s) == <<s.start, s.step, s.n, s.stop>>
Lengths(h, s) == {h[s[i]].n : i \in DOMAIN s}

-----------------------------------------------------------------------------
(* expr/helper/align.go *)
LCM(S) ==
  FoldSet(LAMBDA x, m : Least({c \in 1..(m * x) : c % m = 0 /\ c % x = 0}), 1, S)

Steps(h, s) == {h[s[i]].step : i \in DOMAIN s}

(* every series of the list brought to one start and step, in place *)
Rescaled(h, s, commonStep) ==
  LET first == Least({h[s[i]].start : i \in DOMAIN s})
      minStart == first - (first % commonStep)
      Started(r) == IF minStart < r.start
                    THEN [PadFront(r, (r.start - minStart) \div r.step)
                            EXCEPT !.start = minStart]
                    ELSE r
      Scaled(r) == IF r.step = commonStep
                   THEN Started(r)
                   ELSE LET q == Started(r)
                            factor == commonStep \div r.step
                            len == 1 + Quot(q.n - 1, factor)
                        IN [NewValues(PadBack(q, factor * len - q.n), len)
                              EXCEPT !.step = commonStep]
  IN OnEach(h, s, Scaled)

PaddedTo(g, s, maxVals) ==
  OnEach(g, s, LAMBDA r : RecalcStopTime(PadBack(r, maxVals - r.n)))

(* Mutated form of ScaleToCommonStep: short series are not padded. *)
ScaleToCommonStepShort(h, s, commonStep) ==
  OnEach(Rescaled(h, s, commonStep), s, RecalcStopTime)

(* ... and to one length and stop *)
ScaleToCommonStep(h, s, commonStep) ==
  LET g == Rescaled(h, s, commonStep)
  IN PaddedTo(g, s, Greatest(Lengths(g, s)))

(* ExtrapolatePoints: a series of a longer step is interpolated to the     *)
(* shortest, reading its first two points *)
Extrapolated(r, minStep) ==
  [NewValues(r, CeilDiv(r.stop - r.start, minStep)) EXCEPT !.step = minStep]

ExtrapolatePanics(r, minStep) ==
  r.step > minStep
  /\ LET lastTs == (CeilDiv(r.stop - r.start, minStep) - 1) * minStep
     IN r.n < 2 \/ CeilDiv(lastTs, r.step) - 1 >= r.n

(* GetInterval(args) of an empty list and the extrapolation of a series    *)
(* without two points index out of range *)
AlignPanics(h, s, extrapolate) ==
  \/ s = <<>>
  \/ extrapolate /\ \E i \in DOMAIN s :
       ExtrapolatePanics(FixStopTime(h[s[i]]), Least(Steps(h, s)))

MinStart(h, s) == Least({h[s[i]].start : i \in DOMAIN s})
MaxStop(h, s) == Greatest({h[s[i]].stop : i \in DOMAIN s})

(* GetInterval repairs the stop times in place, then, with                 *)
(* ExtrapolatePoints, the series are brought to the shortest step *)
Prepared(h, s, extrapolate) ==
  LET g == OnEach(h, s, FixStopTime)
      minStep == Least(Steps(h, s))
  IN IF extrapolate
     THEN OnEach(g, s, LAMBDA r : IF r.step > minStep THEN Extrapolated(r, minStep) ELSE r)
     ELSE g

(* A series padded to start at minStart and reach maxStop. *)
Reaching(r, minStart, maxStop) ==
  LET q == IF minStart < r.start
           THEN [PadFront(r, (r.start - minStart) \div r.step) EXCEPT !.start = minStart]
           ELSE r
  IN IF maxStop > q.stop
     THEN [PadBack(q, (maxStop - q.stop) \div q.step) EXCEPT !.stop = maxStop]
     ELSE q

AlignSeries(h, s, extrapolate) ==
  LET f == OnEach(h, s, FixStopTime)
      g == Prepared(h, s, extrapolate)
  IN OnEach(g, s, LAMBDA r :
       RecalcStopTime(Reaching(r, MinStart(h, s), MaxStop(f, s))))

ScaleSeries(h, s, extrapolate) ==
  LET f == OnEach(h, s, FixStopTime)
      g == Prepared(h, s, extrapolate)
      e == OnEach(g, s, LAMBDA r : Reaching(r, MinStart(h, s), MaxStop(f, s)))
  IN IF ~extrapolate /\ Cardinality(Steps(h, s)) > 1
     THEN ScaleToCommonStep(f, s, LCM(Steps(h, s)))
     ELSE PaddedTo(e, s, Greatest(Lengths(e, s)))

(* numerator and denominator on one step, as copies when they differ: the  *)
(* heap and the pair of pointers to use *)
ConsolidateSeriesByStep(h, p, q) ==
  IF Cardinality({h[p].step, h[q].step}) > 1 \/ h[p].n # h[q].n
  THEN LET g == h \o <<Copy(h[p]), Copy(h[q])>>
           t == <<Len(h) + 1, Len(h) + 2>>
       IN <<ScaleToCommonStep(g, t, LCM(Steps(h, <<p, q>>))), t>>
  ELSE <<h, <<p, q>>>>

(* helper.AggregateSeries: scales the arguments in place and returns one   *)
(* series over the grid of the first *)
AggregateSeries(h, s, extrapolate) ==
  IF s = <<>> THEN Ok(h, s)
  ELSE IF AlignPanics(h, s, extrapolate) THEN Panic(h)
  ELSE LET g == ScaleSeries(h, s, extrapolate)
       IN IF \E i \in DOMAIN s : g[s[i]].n < g[s[1]].n THEN Panic(g)
          ELSE New(g, <<SetTag(Filled(CopyNameArg(g[s[1]])))>>)
=============================================================================
