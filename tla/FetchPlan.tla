------------------------------ MODULE FetchPlan ------------------------------
(***************************************************************************)
(* What is fetched for an expression and what its functions then look up   *)
(* (pkg/parser/parser.go Metrics, expr/expr.go Fetch, the functions of     *)
(* expr/functions that ask for another interval than they are given).      *)
(*                                                                         *)
(* Before anything is evaluated, Metrics collects the intervals to fetch:  *)
(* a function changes those of its argument.  On evaluation a function     *)
(* passes an interval down to its argument.  The two walk the expression   *)
(* in opposite directions and have to agree: the map of fetched series is  *)
(* read by name and interval, and a miss is an empty list, no error.       *)
(*                                                                         *)
(* A function is a record [fn, by], by its interval argument; an           *)
(* expression is a metric under a sequence of functions, outermost first;  *)
(* a target is a sequence of such arguments of one function.               *)
(***************************************************************************)
EXTENDS Integers, Sequences, SequencesExt

CONSTANTS Day,      \* the unit hitcount and smartSummarize align to
          Stack     \* timeStack and baseline: the intervals 0..Stack-1

Spans == [from : Int, until : Int]
Span(from, until) == [from |-> from, until |-> until]
Moved(s, d) == [from |-> s.from + d, until |-> s.until + d]
Earlier(s, d) == [s EXCEPT !.from = @ - d]

(* AlignStartToInterval, StartAlignTo *)
Aligned(s) == [s EXCEPT !.from = @ - (@ % Day)]

(* Mutated form of Adjusted: the start of an aligned function is not       *)
(* adjusted in the fetch request. *)
AdjustedNotAligned(f, r) ==
  CASE f.fn = "timeShift" -> [i \in DOMAIN r |-> Moved(r[i], f.by)]
    [] f.fn = "timeStack" ->
         FlattenSeq([i \in DOMAIN r |-> [k \in 1..Stack |-> Moved(r[i], (k - 1) * f.by)]])
    [] f.fn \in {"forecast", "movingMedian", "moving"} -> [i \in DOMAIN r |-> Earlier(r[i], f.by)]
    [] f.fn = "aberration" -> r \o [i \in DOMAIN r |-> Earlier(r[i], f.by)]
    [] OTHER -> r

(* What Metrics does with the requests r of a function's argument.  The    *)
(* functions holtWintersForecast, holtWintersConfidenceBands and -Area are *)
(* "forecast", the moving functions and exponentialMovingAverage with an   *)
(* interval "moving", with a number of points "movingPoints", hitcount and *)
(* smartSummarize with an alignment "align"; timeStack without its bounds  *)
(* is "timeStackDefault"; baseline, slo and every other function leave the *)
(* requests alone. *)
Adjusted(f, r) ==
  CASE f.fn = "timeShift" -> [i \in DOMAIN r |-> Moved(r[i], f.by)]
    [] f.fn = "timeStack" ->
         FlattenSeq([i \in DOMAIN r |-> [k \in 1..Stack |-> Moved(r[i], (k - 1) * f.by)]])
    [] f.fn = "timeStackDefault" -> <<>>
    [] f.fn \in {"forecast", "movingMedian", "moving"} -> [i \in DOMAIN r |-> Earlier(r[i], f.by)]
    [] f.fn = "aberration" -> r \o [i \in DOMAIN r |-> Earlier(r[i], f.by)]
    [] f.fn = "align" -> [i \in DOMAIN r |-> Aligned(r[i])]
    [] OTHER -> r

Metrics(fs, span) == FoldRight(Adjusted, fs, <<span>>)

(* The intervals a function asks its argument for when it is given s.  A   *)
(* moving function with a number of points asks twice: for s, then, having *)
(* fetched it itself, for a longer one: see Refetched. *)
Asked(f, s) ==
  CASE f.fn = "timeShift" -> {Moved(s, f.by)}
    [] f.fn \in {"timeStack", "timeStackDefault"} -> {Moved(s, k * f.by) : k \in 0..Stack-1}
    [] f.fn \in {"forecast", "movingMedian"} -> {Earlier(s, f.by)}
    [] f.fn = "moving" -> {Earlier(s, IF f.by < 0 THEN -f.by ELSE f.by)}
    [] f.fn = "aberration" -> {s, Earlier(s, f.by)}
    [] f.fn = "align" -> {Aligned(s)}
    [] f.fn = "baseline" -> {Moved(s, k * f.by) : k \in 0..Stack-1}
    [] f.fn = "slo" /\ f.by > s.until - s.from -> {s, [s EXCEPT !.from = s.until - f.by]}
    [] OTHER -> {s}

Lookups(fs, span) ==
  FoldLeft(LAMBDA asked, f : UNION {Asked(f, s) : s \in asked}, {span}, fs)

(* The expressions a moving function fetches once more on evaluation, with *)
(* the start moved by its number of points.  exponentialMovingAverage      *)
(* ("emaPoints") does not look at the error of that fetch. *)
Refetching == {"movingPoints", "emaPoints"}

Refetched(fs, span) ==
  UNION {{[fs |-> SubSeq(fs, k + 1, Len(fs)), given |-> s, span |-> Earlier(s, fs[k].by),
           quiet |-> fs[k].fn = "emaPoints"] : s \in Lookups(SubSeq(fs, 1, k), span)} :
         k \in {i \in DOMAIN fs : fs[i].fn \in Refetching /\ fs[i].by # 0}}

-----------------------------------------------------------------------------
(* Evaluator.Fetch: the requests of the targets' metrics, without those    *)
(* this or an earlier target of the HTTP request asked for.  cache is      *)
(* metricRequestCache: of each name the last interval asked for, which is  *)
(* always one of those wanted.  With passFunctionsToBackend an unknown     *)
(* argument of consolidateBy ends it with an error (module Render).  *)
Request(name, span) == [name |-> name, span |-> span]

RequestsOf(targets, span) ==
  FlattenSeq([t \in DOMAIN targets |->
    FlattenSeq([a \in DOMAIN targets[t] |->
      LET r == Metrics(targets[t][a].fs, span)
      IN [i \in DOMAIN r |-> Request(targets[t][a].name, r[i])]])])

NoSpan == Span(0, 0)

Plan(targets, span, known) ==
  LET Step(p, m) ==
        IF m \in p.wanted THEN p
        ELSE IF m \in known THEN [p EXCEPT !.wanted = @ \cup {m}]
        ELSE [cache |-> [p.cache EXCEPT ![m.name] = m.span],
              wanted |-> p.wanted \cup {m}, todo |-> Append(p.todo, m)]
      reqs == RequestsOf(targets, span)
  IN FoldLeft(Step,
              [cache |-> [n \in {reqs[i].name : i \in DOMAIN reqs} |-> NoSpan],
               wanted |-> {}, todo |-> <<>>], reqs)

(* Mutated form of FiledUnder: what the backend says is not looked at. *)
FiledUnderLast(cache, s) == Request(s.name, cache[s.name])

(* The interval a fetched series is filed under: the one its backend says  *)
(* it was asked for, else the last one asked for its name. *)
FiledUnder(cache, s) ==
  Request(s.name, IF s.echo.from # 0 /\ s.echo.until # 0 THEN s.echo ELSE cache[s.name])
=============================================================================
