------------------------------- MODULE FnTime -------------------------------
(***************************************************************************)
(* Functions that change the grid of their argument - look back over an    *)
(* earlier interval, shift, resample - and those that make a series of     *)
(* nothing: expr/functions/<name>, Do.                                     *)
(*                                                                         *)
(* A function that shifts evaluates its argument over a shifted interval   *)
(* and shifts the result back; the times in the model are the ones after   *)
(* that.  One that looks back evaluates it over an interval that starts d  *)
(* earlier, which brings the points LookBack adds.                         *)
(***************************************************************************)
EXTENDS Series

(* what is answered for an interval that starts d earlier *)
LookBack(s, d) ==
  LET k == Quot(d, s.step)
  IN [NewValues(s, Greater(0, s.n + k)) EXCEPT !.start = @ - k * s.step, !.tags = 0]

GetBuckets(start, stop, b) == CeilDiv(stop - start, b)
MaxStep(h, s) == Greatest({0} \cup Steps(h, s))

(* p as a number of points or as a number of seconds *)
Windows == {"points", "seconds"}

(* The first points, which end no window, are left out; a window shorter   *)
(* than the step leaves nulls, or the points, where they are. *)
Moved(s, seconds, points, nan) ==
  LET q == SetTag(CopyLink(LookBack(s, seconds)))
      r == [NewValues(q, Greater(0, q.n - points)) EXCEPT !.start = @ + seconds]
  IN IF points # 0 THEN RecalcStopTime(r)
     ELSE [(IF nan THEN Filled(q) ELSE q) EXCEPT !.start = @ + seconds, !.stop = @ + seconds]

(* movingAverage, movingSum, movingMin...: a window of w points ends at    *)
(* each point of the result. *)
moving(h, a, p) ==
  LET Seconds(w) == IF w = "points" THEN MaxStep(h, a.s) * p ELSE Greater(p, -p)
      Points(w, s) == IF w = "points" THEN p ELSE Seconds(w) \div s.step
  IN UNION {IF a.s # <<>> /\ w = "points" /\ p < 0 THEN {Panic(h)}
            ELSE ForEachSeriesDo1(h, a, LAMBDA s : Moved(s, Seconds(w), Points(w, s), nan)) :
            w \in Windows, nan \in BOOLEAN}

Averaged(s, seconds, points) ==
  LET q == SetTag(CopyLink(LookBack(s, seconds)))
      n == IF points > q.n THEN 1 ELSE q.n - points + 1
  IN RecalcStopTime([NewValues(q, n) EXCEPT !.start = @ + seconds])

exponentialMovingAverage(h, a, p) ==
  LET window == Greater(p, -p)
      Seconds(w) == IF w = "points" THEN MaxStep(h, a.s) * window ELSE window
      Points(w, s) == IF w = "points" THEN window ELSE window \div s.step
  IN UNION {IF w = "points" /\ a.s = <<>> THEN {Done(h, a)}
            ELSE IF Seconds(w) < 1 THEN {Err(h)}
            ELSE IF \E i \in DOMAIN a.s : Points(w, h[a.s[i]]) = 0 THEN {Panic(h)}
            ELSE ForEachSeriesDo1(h, a, LAMBDA s : Averaged(s, Seconds(w), Points(w, s))) :
            w \in Windows}

(* the window counts steps of the first series; seconds are also looked    *)
(* back and cut off *)
Median(s, size, cut, nan) ==
  LET q == SetTag(CopyLink(s))
  IN IF size = 0 THEN (IF nan THEN Filled(q) ELSE q)
     ELSE RecalcStopTime([NewValues(q, q.n - cut) EXCEPT !.start = CeilDiv(From, s.step) * s.step])

movingMedian(h, a, p) ==
  LET Size(w) == IF w = "points" THEN p ELSE Quot(p, h[a.s[1]].step)
      Cut(w) == IF w = "points" THEN 0 ELSE Size(w)
      Seen(w, s) == IF w = "points" THEN s ELSE LookBack(s, p)
  IN UNION {IF a.s = <<>> THEN {Ok(h, <<>>)}
            ELSE IF Size(w) < 0 \/ \E i \in DOMAIN a.s : Seen(w, h[a.s[i]]).n < Cut(w) THEN {Panic(h)}
            ELSE ForEachSeriesDo1(h, a, LAMBDA s : Median(Seen(w, s), Size(w), Cut(w), nan)) :
            w \in Windows, nan \in BOOLEAN}

(* Mutated form of Forecast: one point more is dropped. *)
ForecastShort(s, p) ==
  LET q == LookBack(s, p)
      w == Quot(p, s.step)
  IN [SetTag(NewValues(CopyTags(q), IF q.n < w + 1 THEN q.n ELSE q.n - w - 1)) EXCEPT
        !.start = q.start + p, !.stop = s.stop]

(* The predictions for the points looked back over are dropped. *)
Forecast(s, p) ==
  LET q == LookBack(s, p)
      w == Quot(p, s.step)
  IN [SetTag(NewValues(CopyTags(q), IF q.n < w THEN q.n ELSE q.n - w)) EXCEPT
        !.start = q.start + p, !.stop = s.stop]

Bands(h, a, p, k) ==
  IF p < 0 THEN {Panic(h)}
  ELSE {New(h, FlattenSeq([i \in DOMAIN a.s |-> [j \in 1..k |-> Forecast(h[a.s[i]], p)]]))}

holtWintersForecast(h, a, p) == Bands(h, a, p, 1)
holtWintersConfidenceBands(h, a, p) == Bands(h, a, p, 2)
holtWintersConfidenceArea(h, a, p) == Bands(h, a, p, 2)

(* the bands are read at the indices of the series *)
holtWintersAberration(h, a, p) ==
  IF a.s # <<>> /\ p < 0 THEN {Panic(h)}
  ELSE IF \E i \in DOMAIN a.s : Forecast(h[a.s[i]], p).n < h[a.s[i]].n THEN {Panic(h)}
  ELSE ForSomeSeriesDo(h, a, LAMBDA s : SetTag(NewValues(CopyTags(s), s.n)))

(* medians over the same series of earlier intervals, one result per name; *)
(* a series too empty or too low is left out *)
baselines(h, a) ==
  ForSomeSeriesDo(h, a, LAMBDA s : Filled(CopyName(CopyLinkTags(s))))

-----------------------------------------------------------------------------
(* The series reads a prefix of the values. *)
Prefix(s, stop, n) == [SetTag(CopyLink(s)) EXCEPT !.stop = stop, !.n = n]

(* Shifts. With resetEnd the points past the end of the request are cut    *)
(* off. *)
timeShift(h, a, resetEnd) ==
  LET Stop(s) == IF resetEnd THEN Lesser(s.stop, Until) ELSE s.stop
      Length(s) == Quot(Stop(s) - s.start, s.step)
      kept == Only(a.s, {q \in ToSet(a.s) : Length(h[q]) >= 0})
  IN IF \E i \in DOMAIN kept : Length(h[kept[i]]) > Greater(h[kept[i]].n, h[kept[i]].full)
     THEN {Panic(h)}
     ELSE ForEachSeriesDo1(h, Own(kept), LAMBDA s : Prefix(s, Stop(s), Length(s)))

timeStack(h, a) ==
  {New(h, FlattenSeq([j \in 1..k |->
     [i \in DOMAIN a.s |-> SetTag(CopyLink(h[a.s[i]]))]])) : k \in 0..2}

Shifted(s, k) == [CopyLinkTags(s) EXCEPT !.start = @ + k * s.step, !.stop = @ + k * s.step]

(* every series of a version is shifted by the distance of the marks (b)   *)
timeShiftByMetric(h, a, b, p) ==
  LET sets == a.s \o b.s
  IN IF \/ Len(a.s) < 2 \/ Len(b.s) < 2
        \/ \E i \in DOMAIN sets : h[sets[i]].n # h[sets[1]].n \/ h[sets[i]].n = 0
     THEN {Err(h)}
     ELSE {Err(h)} \cup IF p < 0 THEN {Panic(h)}
          ELSE UNION {ForSomeSeriesDo(h, a, LAMBDA s : Shifted(s, k)) : k \in -1..1}

-----------------------------------------------------------------------------
(* a series of n buckets of p seconds *)
Bucketed(s, p, start, n) ==
  [SetTag(NewValues(CopyTags(s), n)) EXCEPT !.step = p, !.start = start]
Summary(s, p, start, n) == RecalcStopTime(Bucketed(s, p, start, n))

(* Buckets of p seconds over the grid of the first series. *)
hitcount(h, a, p) ==
  LET first == h[a.s[1]]
      Stop(align) == IF align THEN first.start + ((first.stop - first.start) \div p) * p + p
                     ELSE first.stop
      Count(align) == GetBuckets(first.start, Stop(align), p)
      NewStart(align) == Stop(align) - Count(align) * p
      Outside(s, align) == \E i \in 0..(s.n - 1) :
        LET startBucket == Quot(s.start + i * s.step - NewStart(align), p)
            endBucket == Lesser(Quot(s.start + (i + 1) * s.step - NewStart(align), p), Count(align) - 1)
        IN startBucket >= Count(align) \/ (startBucket < -1 /\ startBucket + 1 < endBucket)
      Hits(s, align) ==
        [Bucketed(s, p, NewStart(align), Count(align)) EXCEPT !.stop = Stop(align)]
  IN UNION {IF a.s = <<>> THEN {Ok(h, <<>>)}
            ELSE IF p <= 0 THEN {Panic(h)}
            ELSE IF Count(align) < 0 \/ \E i \in DOMAIN a.s : Outside(h[a.s[i]], align) THEN {Panic(h)}
            ELSE ForEachSeriesDo1(h, a, LAMBDA s : Hits(s, align)) : align \in BOOLEAN}

(* Buckets are added until the stop, or until a bucket past the values of  *)
(* the series; a bucket that ends before a later series starts is a        *)
(* negative slice. *)
summarize(h, a, p) ==
  LET first == h[a.s[1]]
      NewStart(alignToFrom) == IF alignToFrom THEN first.start ELSE (first.start \div p) * p
      NewStop(alignToFrom) == IF alignToFrom THEN first.stop ELSE CeilDiv(first.stop, p) * p + p
      All(f) == CeilDiv(Greater(0, NewStop(f) - NewStart(f)), p)
      Past(s, f, k) == /\ NewStart(f) + k * p >= s.start
                       /\ CeilDiv(NewStart(f) + k * p - s.start, s.step) > s.n
      Count(s, f) == Least({All(f)} \cup {k + 1 : k \in {j \in 0..(All(f) - 1) : Past(s, f, j)}})
      Early(s, f) == All(f) > 0 /\ Quot(NewStart(f) + p - s.start + s.step - 1, s.step) < 0
  IN UNION {IF a.s = <<>> THEN {Ok(h, <<>>)}
            ELSE IF p <= 0
            THEN {IF first.start >= first.stop
                  THEN New(h, [i \in DOMAIN a.s |-> Summary(h[a.s[i]], p, first.start, 0)])
                  ELSE IF p = 0 THEN Hang(h) ELSE Panic(h)}
            ELSE IF \E i \in DOMAIN a.s : Early(h[a.s[i]], f) THEN {Panic(h)}
            ELSE ForEachSeriesDo1(h, a, LAMBDA s : Summary(s, p, NewStart(f), Count(s, f))) : f \in BOOLEAN}

(* buckets over the grid of each series *)
smartSummarize(h, a, p) ==
  LET Beyond(s) == LET last == GetBuckets(s.start, s.stop, p) - 1
                   IN last >= 0 /\ CeilDiv(last * p, s.step) > s.n
  IN IF a.s = <<>> THEN {Ok(h, <<>>)}
     ELSE IF p <= 0 THEN {Err(h)}
     ELSE IF \E i \in DOMAIN a.s : Beyond(h[a.s[i]]) THEN {Panic(h)}
     ELSE ForEachSeriesDo1(h, a, LAMBDA s :
            Summary(s, p, s.start, Greater(0, GetBuckets(s.start, s.stop, p))))

(* Full buckets of p seconds and a last partial one; a request shorter     *)
(* than a bucket looks back to fill one.  The result holds the tags of its *)
(* argument. *)
FilledBuckets(s, delta, p) ==
  LET q == LookBack(s, delta)
      full == Lesser(q.n, Quot(s.stop - q.start, q.step))
      closed == (full * q.step) \div p
  IN closed + (IF q.n > full \/ full > CeilDiv(closed * p, q.step) THEN 1 ELSE 0)

Objective(s, p) ==
  LET buckets == GetBuckets(s.start, s.stop, p)
      delta == Greater(0, p - (Until - From))
  IN [NewValues(s, IF s.step > p THEN buckets ELSE FilledBuckets(s, delta, p)) EXCEPT
        !.step = p, !.stop = s.start + buckets * p]

slo(h, a, p) ==
  IF a.s = <<>> THEN {Ok(h, <<>>)}
  ELSE IF p <= 0 \/ \E i \in DOMAIN a.s : h[a.s[i]].stop < h[a.s[i]].start THEN {Panic(h)}
  ELSE ForEachSeriesDo1(h, a, LAMBDA s : Objective(s, p))

(* The distance of the first two points, repeated with gaps between, is    *)
(* the true step. *)
Compressed(s, f, k) ==
  LET newStart == s.start + f * s.step
  IN RecalcStopTime([NewValues(CopyLink(s), GetBuckets(newStart, s.stop, k * s.step)) EXCEPT
                       !.step = k * s.step, !.start = newStart])
Guesses(s) == {g \in (0..s.n) \X (2..s.n) : g[1] + 2 * g[2] <= s.n - 2}
Gapless(s, nulls) ==
  {CopyLink(s)} \cup IF nulls THEN {Compressed(s, g[1], g[2]) : g \in Guesses(s)} ELSE {}

compressPeriodicGaps(h, a, nulls) ==
  LET Picks == {c \in [DOMAIN a.s -> UNION {Gapless(h[a.s[i]], nulls) : i \in DOMAIN a.s}] :
                    \A i \in DOMAIN a.s : c[i] \in Gapless(h[a.s[i]], nulls)}
  IN {IF \E i \in DOMAIN c : c[i].step # h[a.s[i]].step /\ c[i].n < 1
      THEN Panic(h) ELSE New(h, c) : c \in Picks}

(* A fit over the points, p seconds longer; a singular system is left out. *)
Fitted(s, p) == [NewValues(CopyLinkTags(s), s.n + Quot(p, s.step)) EXCEPT !.stop = @ + p]
polyfit(h, a, p) ==
  {Err(h)} \cup IF \E i \in DOMAIN a.s : Fitted(h[a.s[i]], p).n < 0
  THEN {Panic(h)} ELSE ForSomeSeriesDo(h, a, LAMBDA s : Fitted(s, p))
linearRegression(h, a) == ForSomeSeriesDo(h, a, LAMBDA s : SetTag(Filled(CopyLink(s))))

-----------------------------------------------------------------------------
(* Series made of nothing, over the request. *)
constantLine(h) ==
  {New(h, <<Fresh(From, Until - From, From + 2 * (Until - From), 2)>>)}
identity(h) == {New(h, <<Fresh(From, Minute, Until, CeilDiv(Until - From, Minute))>>)}
timeFunction(h, p) ==
  IF p <= 0 THEN {Err(h)} ELSE {New(h, <<Fresh(From, p, Until, CeilDiv(Until - From, p))>>)}

(* a negative step gives a negative length, unless it rounds to none *)
sinFunction(h, p) ==
  LET size == Quot(Until - From - 1 + p, p)
  IN IF p = 0 \/ size < 0 THEN {Panic(h)} ELSE {New(h, <<Fresh(From, p, Until, size)>>)}
randomWalk(h, p) ==
  LET size == Quot(Until - From, p)
  IN IF p = 0 \/ size < 0 THEN {Panic(h)} ELSE {New(h, <<Fresh(From, p, From + p * size, size)>>)}

(* two points at the end of the request or p before it (with cairo only) *)
verticalLine(h, p) ==
  {Err(h)} \cup IF p < 0 \/ Until - p < From THEN {}
                ELSE {New(h, <<Fresh(Until - p, 1, Until - p, 2)>>)}

(* What another graphite-web made of the expression; StopTime is the last  *)
(* timestamp.  A server that cannot be reached leaves no response to close,*)
(* and a series without points has no first timestamp.                     *)
graphiteWeb(h, alive) ==
  LET Answer(n) == Fresh(From, IF n > 1 THEN 1 ELSE Minute, From + n - 1, n)
  IN {Ok(h, <<>>), Err(h)} \cup
     IF alive THEN {New(h, <<Answer(n)>>) : n \in 1..2} ELSE {Panic(h)}

example(h) == {Ok(h, <<>>)}
=============================================================================
