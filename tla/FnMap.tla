-------------------------------- MODULE FnMap --------------------------------
(***************************************************************************)
(* Functions that make one series of each series of their argument:        *)
(* arithmetic on the points, new names, copies and shares.  A function     *)
(* has the name of its directory under expr/functions and stands for its   *)
(* Do; a refused argument, which every Do answers with an error before it  *)
(* touches anything, is the action BadArgument of Evaluation.              *)
(***************************************************************************)
EXTENDS Series

(* ForEachSeriesDo: points rewritten into new values of a renamed copy *)
absolute(h, a) == ForEachSeriesDo(h, a, SetTag)
derivative(h, a) == ForEachSeriesDo(h, a, SetTag)
integral(h, a) == ForEachSeriesDo(h, a, SetTag)
invert(h, a) == ForEachSeriesDo(h, a, SetTag)
isNotNull(h, a) == ForEachSeriesDo(h, a, SetTag)
offsetToZero(h, a) == ForEachSeriesDo(h, a, SetTag)

-----------------------------------------------------------------------------
(* a.CopyLink(), new values of the same length, one tag set on the copy *)
Rewritten(s) == SetTag(Filled(CopyLink(s)))

exp(h, a) == ForEachSeriesDo1(h, a, Rewritten)
logarithm(h, a) == ForEachSeriesDo1(h, a, Rewritten)
logit(h, a) == ForEachSeriesDo1(h, a, Rewritten)
nPercentile(h, a) == ForEachSeriesDo1(h, a, Rewritten)
offset(h, a) == ForEachSeriesDo1(h, a, Rewritten)
pow(h, a) == ForEachSeriesDo1(h, a, Rewritten)
removeBelowSeries(h, a) == ForEachSeriesDo1(h, a, Rewritten)
round(h, a) == ForEachSeriesDo1(h, a, Rewritten)
scale(h, a) == ForEachSeriesDo1(h, a, Rewritten)
scaleToSeconds(h, a) == ForEachSeriesDo1(h, a, Rewritten)
sigmoid(h, a) == ForEachSeriesDo1(h, a, Rewritten)
squareRoot(h, a) == ForEachSeriesDo1(h, a, Rewritten)
timeSlice(h, a) == ForEachSeriesDo1(h, a, Rewritten)

(* minValue above maxValue is refused after the series were fetched *)
perSecond(h, a) == {Err(h)} \cup ForEachSeriesDo1(h, a, Rewritten)
nonNegativeDerivative(h, a) == {Err(h)} \cup ForEachSeriesDo1(h, a, Rewritten)

(* a window of a negative number of points cannot be made *)
stdev(h, a, p) ==
  IF p < 0 /\ a.s # <<>> THEN {Panic(h)} ELSE ForEachSeriesDo1(h, a, Rewritten)

(* the bucket of each point is found by a division by its size *)
integralByInterval(h, a, p) ==
  IF p = 0 /\ \E i \in DOMAIN a.s : h[a.s[i]].n > 0
  THEN {Panic(h)} ELSE ForEachSeriesDo1(h, a, Rewritten)

(* Nulls replaced where the reference has points (every null without one); *)
(* an absent argument may be given a line of its own. *)
transformNull(h, a) ==
  ForEachSeriesDo1(h, a, Rewritten) \cup
  (IF a.s = <<>>
   THEN {New(h, <<Fresh(From, Until - From, From + 2 * (Until - From), 2)>>)} ELSE {})

transformNullReference(h, a, b, nulls) ==
  LET length == h[b.s[1]].n
  IN CASE b.s = <<>> -> {Err(h)}
       [] b.s # <<>> /\ a.s = <<>> -> {Panic(h)}
       [] b.s # <<>> /\ a.s # <<>> ->
            IF length # h[a.s[1]].n THEN {Err(h)}
            ELSE IF \/ \E i \in DOMAIN b.s : h[b.s[i]].n > length
                    \/ nulls /\ length > 0 /\ \E i \in DOMAIN a.s : h[a.s[i]].n > length
            THEN {Panic(h)} ELSE ForEachSeriesDo1(h, a, Rewritten)

-----------------------------------------------------------------------------
(* a.CopyLinkTags() and new values: the copy keeps the tags of its source *)
interpolate(h, a) == ForEachSeriesDo1(h, a, LAMBDA s : Filled(CopyLinkTags(s)))
keepLastValue(h, a) == ForEachSeriesDo1(h, a, LAMBDA s : Filled(CopyLinkTags(s)))
lowPass(h, a) == ForEachSeriesDo1(h, a, LAMBDA s : Filled(CopyLinkTags(s)))
minMax(h, a) == ForEachSeriesDo1(h, a, LAMBDA s : Filled(CopyLinkTags(s)))
changed(h, a) == ForEachSeriesDo1(h, a, LAMBDA s : Filled(CopyTag(s)))
ewma(h, a) == ForEachSeriesDo1(h, a, LAMBDA s : Filled(CopyTag(s)))

integralWithReset(h, a, b) ==
  IF \/ Len(b.s) # 1
     \/ \E i \in DOMAIN a.s : \/ h[a.s[i]].step # h[b.s[1]].step
                             \/ h[a.s[i]].n # h[b.s[1]].n
  THEN {Err(h)} ELSE ForEachSeriesDo1(h, a, LAMBDA s : Filled(CopyLinkTags(s)))

(* the phases are read at the indices of the magnitudes *)
ifft(h, a, b) ==
  IF \E j \in DOMAIN a.s \cap DOMAIN b.s : h[b.s[j]].n < h[a.s[j]].n
  THEN {Panic(h)} ELSE ForEachSeriesDo1(h, a, LAMBDA s : Filled(CopyLinkTags(s)))

(* magnitudes, phases, both, or none of them when the mode is unknown *)
fft(h, a) ==
  LET Components(k) ==
        FlattenSeq([i \in DOMAIN a.s |-> [j \in 1..k |-> Filled(CopyTag(h[a.s[i]]))]])
  IN {New(h, Components(k)) : k \in 0..2}

-----------------------------------------------------------------------------
(* New names over the points and the tags of the source. *)
alias(h, a) == ForEachSeriesDo1(h, a, CopyLinkTags)
aliasByMetric(h, a) == ForEachSeriesDo1(h, a, CopyLinkTags)
aliasByNode(h, a) == ForEachSeriesDo1(h, a, CopyLinkTags)
aliasSub(h, a) == ForEachSeriesDo1(h, a, CopyLinkTags)
cactiStyle(h, a) == ForEachSeriesDo1(h, a, CopyLinkTags)
substr(h, a) == {Err(h)} \cup ForEachSeriesDo1(h, a, CopyLinkTags)

(* the new name is the last value of another series, fetched for it *)
aliasQuery(h, a, b) ==
  IF a.s # <<>> /\ (b.s = <<>> \/ h[b.s[1]].n = 0)
  THEN {Err(h)} ELSE ForEachSeriesDo1(h, a, CopyLinkTags)

(* each series: a renamed copy, or itself when its name does not decode *)
aliasByBase64(h, a, p) ==
  IF p < 1 /\ a.s # <<>> THEN {Panic(h)}
  ELSE {[New(h, [i \in DOMAIN a.s |-> CopyName(h[a.s[i]])]) EXCEPT
           !.out = Own([i \in DOMAIN a.s |-> IF i \in S THEN Len(h) + i ELSE a.s[i]])] :
          S \in SUBSET DOMAIN a.s}

(* p fields stand in the query; a database that does not answer leaves no  *)
(* rows to read.  Series without a name, or whose answer does not match,   *)
(* are left out. *)
aliasByPostgres(h, a, p, alive) ==
  IF a.s # <<>> /\ (p > NameLen \/ ~alive)
  THEN {Panic(h)} ELSE ForSomeSeriesDo(h, a, CopyName)

(* a pool without a connection is an error, a failed query is not *)
aliasByRedis(h, a, alive) ==
  (IF alive THEN {} ELSE {Err(h)}) \cup ForEachSeriesDo1(h, a, CopyName)

-----------------------------------------------------------------------------
(* Copies with tags of their own that read the points of the source. *)
consolidateBy(h, a) == ForEachSeriesDo1(h, a, LAMBDA s : SetTag(CopyLink(s)))
cumulative(h, a) == ForEachSeriesDo1(h, a, LAMBDA s : SetTag(CopyLink(s)))
setXFilesFactor(h, a) == ForEachSeriesDo1(h, a, LAMBDA s : SetTag(CopyLink(s)))
legendValue(h, a) == ForEachSeriesDo1(h, a, CopyLink)

ChangeCase(h, a, p) ==
  IF a.s # <<>> /\ (p >= NameLen \/ NameLen + p < 0)
  THEN {Panic(h)} ELSE ForEachSeriesDo1(h, a, LAMBDA s : SetTag(CopyLink(s)))
toLowerCase(h, a, p) == ChangeCase(h, a, p)
toUpperCase(h, a, p) == ChangeCase(h, a, p)

(* points moved by p places, nulls in the places left *)
delay(h, a, p) ==
  ForEachSeriesDo1(h, a, LAMBDA s :
    IF p = 0 THEN SetTag(CopyLink(s)) ELSE SetTag(NewValues(CopyLink(s), s.n)))

(* one value for the whole series: over its points, or as a line of two *)
aggregateLine(h, a) ==
  ForEachSeriesDo1(h, a, LAMBDA s : Filled(CopyTag(s))) \cup
  ForEachSeriesDo1(h, a, LAMBDA s :
    RecalcStopTime([NewValues(CopyTag(s), 2) EXCEPT !.step = s.stop - s.start]))
=============================================================================
