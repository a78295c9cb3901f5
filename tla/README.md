# carbonapi in TLA+

carbonapi answers Graphite render, find, info and tag requests from any number
of storage backends. This directory holds TLA+ models of it, from the handlers
with their caches over the evaluator and the functions on series down to the
*zipper*, which sends a request to many backends and makes one answer of theirs;
the configurations TLC checks them with; and proofs TLAPS checks. Paths below are
relative to the repository.

## 1. The system

A request passes these parts, top to bottom.

| Part | State it keeps | Operations | Hard about it |
|---|---|---|---|
| handlers, `cmd/carbonapi/http` | response cache, backend cache | render, find, expand, info, tags | two caches with keys and timeouts of their own, partial results, status codes |
| evaluator, `expr/expr.go` | map of fetched series, shared by the targets of a request; a limiter | Fetch, Eval, FetchAndEvalExp(s) | which fetched series answers which expression |
| functions, `expr/functions` | none of their own; they share the fetched series | Do of about 100 functions | what a function writes is seen by other targets; grids that differ; lists that are empty or short |
| parser, dates | none | Metrics, StartAlignTo, DateParamToEpoch | what Metrics plans to fetch has to be what functions look up |
| `Zipper`, `zipper/zipper.go` | ticker and channels of the prober | FetchProtoV3, FindProtoV3, ..., probeTlds | the prober runs beside requests |
| `BroadcastGroup`, `zipper/broadcast` | limiter, path cache | Fetch, Find, Info, TagNames, TagValues, ProbeTLDs, splitRequest, filterServersByTLD | a goroutine per backend or per batch, timeouts, late answers, partial failures |
| `DoRequest` and merges, `zipper/types/response.go` | the result being merged | Merge, AddError | order of arrival; room in the channel |
| error merging, `zipper/helper/errors.go` | none | MergeHttpErrors, MergeHttpErrorMap, recalcCode | order of arrival, order of a Go map |
| limiter, `limiter` | one channel of slots per server | Enter, Leave | leaks on timeout paths |
| path cache, `pathcache` | backends per top-level name, with expiry | Set, Get | stale and partial contents |
| `HttpQuery`, `zipper/helper/requests.go` | round-robin counter, limiter | DoQuery, DoQueryToAll | retries of several queries interleave |
| protocol groups, `zipper/protocols` | configuration; features of VictoriaMetrics; the protocols `auto` found | Fetch, Find, Info, TagNames, TagValues | batches by path expression, queries that fail one by one, what counts as an error |

They interact by calls. The render handler looks into the response cache, then
into the backend cache, then has the evaluator fetch the metrics of each target
(or of all of them in one) into a map of series and evaluate the targets over it;
some functions fetch again while they are evaluated, and every fetch takes a slot
of a limiter. Other requests do the same beside it and fill the same caches.

A group's Fetch filters its children by the path cache,
starts one fetcher goroutine per child (`DoRequest`), each of which splits the
request into batches (`splitRequest`, which may send Finds), enters the limiter,
calls the child, and sends its response on a channel; the caller merges the
responses until it has one per child or the context is done, and turns errors
and data into one outcome. A child is a protocol group, whose calls end in
`HttpQuery`, or another broadcast group. The prober refills the path cache at
the same time.

What makes them correct: an answer is the one its request could have got, from
whichever cache it came; partial results are not kept where success is required of
all; a function finds what was fetched for it and leaves what it was given alone; no
slot is leaked, no goroutine is stuck, every call returns; a success has everything
that was asked for; batching loses no metric and routing asks every backend that has
one; merging keeps every point and invents none, whatever the order of arrival; the
status of a failure does not depend on the order of errors; retries reach every
server and spread evenly.

## 2. Modules

Six modules model the zipper, each a component; five model functions on series,
composed by Evaluation; six model requests from the handler down to the
protocols, composed by Gateway. `MC*` gives a module values for TLC; `*Proofs`
holds its theorems. Definitions named `...Unlimited`, `...Early`, `...Never` and the like,
marked "Mutated form of", are deliberately wrong variants: they show that a
property notices that mistake and are used in no specification.

**Broadcast** (`broadcast_group.go`, `response.go`, `limiter.go`). Variables are
per call (`pc`, `op`, `ctxDone`, `targets`, `count`, `result`, `outcome`), per
goroutine (`go`, `todo`, `resp`), the channel `chan` and the limiter `used`. A
goroutine is `<<call, backend, batch>>`, batch 0 being the fetcher itself.
Actions: `StartCall` (an operation up to `DoRequest`'s `go` statements), `Split`
(the fetcher's call of `splitRequest`, in both fetch modes), `Enter` and
`EnterTimeout` (the two cases of the limiter's select), `CallReturns`, `Reply`
(the send on `resCh`), `Leave` (deferred), `Gather` and `GatherTimeout` (the two
cases of `DoRequest`'s select), `Return` (what each operation makes of the merged
result), `Deadline`. A response is abstracted to the batches it has data for and
to the classes of its errors, "notfound" and "error", which is what the outcome
of each operation tells apart.

**SplitRequest** (`splitRequest`). One action per kind of metric (`Plain`,
`Glob`) and of match (`Leaf`, `Directory`), `Finish`, and `Whole` for a backend
without a limit. A metric is the number of its turn.

**HttpQuery** (`requests.go`, `limiter.go`). Per query: where it is, its server,
its tries, its responses; shared: `counter` (modulo the number of servers) and
`used`. `tried`, `alone` and `round` are history, read by properties only. `Limited` is the
set of servers the limiter was made for: all of them in the v2 and v3 protocols.

**TldRouting** (`ProbeTLDs`, `filterServersByTLD`, `zipper.go`, `pathcache.go`).
`pathCache`, the prober's place, the answers it waits for and the map it builds;
entries are set one at a time and expire at any time. `stores` is what backends
have; `steady` is history: no probe has failed or timed out and no backend has
grown. Backends only gain names in the model: an entry may be older than a metric,
not outlive it, which is what `EntriesTrue` is about. A request is the set of
top-level parts of its names; a pattern is a name no probe reports.
`filterServersByTLD` reads the cache only, so the properties speak of what it would
return for every request in every state.

**ResponseMerge** (`response.go`). Responses arrive in any order, each with the
metric once per path expression, in any order; `MergeFetchResponses` is an
operator on series (start, step, which points are there).

**HttpErrors** (`errors.go`, `render_handler.go`). Errors of backends, then of
targets, are met in any order; the answer is the status. The targets are evaluated
one after the other; with RequireSuccessAll the loop ends at the first that fails
with anything but a 404 (`Breaks`), so that later ones have no part in the status.
The client may repeat the request, which is how two answers are compared.

**Series** (`expr/types`, `expr/helper/align.go` and the helpers of functions). A
series is its grid (start, step, stop, number of points), the fetched series whose
array of values and whose tags it shares, and what was written through it. A
function is an operator from the heap of series and its arguments to the *set* of
its outcomes, one for each way the numbers, names and options that are left out
can decide it: a result, an error, a panic, an endless loop.

**FnMap**, **FnSelect**, **FnCombine**, **FnTime** (`expr/functions`). One operator
per function, named after its directory: functions on each series of a list,
functions that select and order series, functions that combine several into one,
functions that change the grid or look at another interval.

**Evaluation** (`expr/expr.go`, `Eval`) composes them: a behaviour is a sequence
of calls over the map of fetched series, each on lists of the map or the result of
the call before; `Next` has a disjunct per function. `NewTarget` starts the next
target on the same series. `spoilt`, `outcome` and `regular` are history, read by
properties only (after a panic no call follows). **EvaluationTypes** adds what the
proofs speak of: types of series, lists and outcomes, what a call may leave, the
inductive invariant, and names for what the functions compute on the way.

**FetchPlan** (`pkg/parser/parser.go` `Metrics`, `Evaluator.Fetch`, the functions
that ask for an interval of their own). An expression is a metric under a sequence
of functions. `Adjusted` is what Metrics makes of the intervals of an argument,
`Lookups` what evaluation looks up.

**RenderRequest** (`render_handler.go`, `date/date.go`). A request and the
interval it means at a moment, with time zone, TruncateTime and a protobuf body.

**RenderService** is the abstract specification of rendering: clients ask and are
answered; a status 200 carries a snapshot of the request - its own targets, format
and points, the interval it had at a moment not longer ago than the caches may
hold it, data of the metrics of each target read not longer ago. No cache, limiter,
evaluator or backend is in it. `Determined` names the requests for which the keys
of the caches carry all that decides the answer. How long ago is bounded by `Ages`:
an expiry of each cache, the time a request takes and, with memcached, the time a
write takes to arrive. The metrics of a target are those of all it may be rewritten
to (`Names`), since applyByNode has the evaluator fetch expressions
it makes itself.

**Backends** (`zipper/protocols/*` Fetch, `broadcast_group.go`, `zipper/zipper.go`).
The queries each of the six protocols makes of a Fetch; the status an answer that
is missing, refused, undecodable, forbidden (403), limited (429), without content
(204) or does not come gives the whole (`CodeOf`: statuses are passed on, only
irondb's and those of undecodable answers are 500); and the outcome of group and
zipper. A child is a protocol group or another broadcast group (`NestedAnswers`),
whose 404 is an error of its parent. A child with a batch size gets one request per
metric, globs by way of a Find, which may find nothing or fail without an error that
counts (`Batched`); the routing may leave children out (`GroupAnswers`). It is the
atomic form of what Broadcast, SplitRequest, TldRouting and HttpQuery do step by
step: all outcomes are computed at once, `lost` remembers whether one misses series.

**Render** (`render_handler.go`, `cache/cache.go`, `expr/expr.go`,
`limiter/simple.go`). Per client `rq`, where the handler is (`pc`) with its stack of
evaluations; shared: both caches, `slots`, the clock, memcached writes under way.
Actions: `Send`, `Reject`, `AnswerCached`, `NotCached`, `EmptyRange`, `Admit`
(checks and the response cache), `LookupHit` and `LookupMiss` (backend cache),
`ParseError`, `Enter` and `GiveUp` (the limiter), `Fetch` (to all backends, with the
slot given back), `Eval` and `EvalPanics`, `StoreResults`, `Respond`; `Land`, a
write that reaches memcached; `Tick`. `Respond` stores and sends a body for every
status the handler does not stop at (`Stops`: 400, 403, 404 and from 500), so also
for 401 and 429; `first` in a body remembers the status it was sent with. An expiry
is `<<t>>`, or `Forever` for an entry of memcached stored without one.
`conf.targets` holds the targets of the scenario and all they are rewritten to. An
entry is `sure` where the answer of the backend names the interval it was asked for,
or only one was: `expr.go:103` takes a `from` of 0 for one that is missing.

**Browse** (`find_handlers.go`, `expand_handler.go`, `info_handlers.go`,
`tags_handler.go`, `response.go`, the protocols' Find, Info and tag queries, `auto`,
`victoriametrics/feature_set.go`). Answers of the children arrive one by one, in
any order, and are merged; the handler then makes its reply. The tree format of find
keeps one node for each last component (`FindTrees`), with the id and the kind of
the match that came first; the other formats keep all matches. A child may be a
group with one server (`GroupFind`), whose 404 does not hide the matches of others
(`MergeHttpErrors` passes 404 over), but does make Info ask for raw names. A version
is what was understood of it: all three numbers, fewer, or none (`Parsed`). `NewZipper` makes the
children, for `auto` from what the capability query finds; `UpdateFeatureSet` may
happen at any time.

**Gateway** composes Render and Browse over Backends. The handlers share backends
and no other state, so its steps are the steps of either.

The six zipper modules share no state, so none extends another; where they meet,
each leaves to the other what it abstracts: Broadcast takes any non-empty set of targets
(TldRouting says which), any batches (SplitRequest), any answer of a backend
(HttpQuery), and keeps of a merge only which data is in (ResponseMerge) and of
errors only their class (HttpErrors). Backends abstracts all of them to one step:
a Fetch gets some outcome of its queries. What it leaves to them is when that step
happens and in which order the answers were met.

## 3. Runs

| Run | Instance | Shows |
|---|---|---|
| broadcast_fanout | 1 call, 2 backends, limit 1, 2 batches, all operations and answers, one by one | RepliesFit, OkMeansComplete |
| broadcast_live | 2 calls, 1 backend, limit 1, one by one, fairness | TypeOK, SlotAccounting, EveryCallReturns, GoroutinesEnd |
| broadcast_multi | 1 call, 2 backends, limit 1, 2 batches, a goroutine each, fairness | SlotAccounting, EveryCallReturns |
| broadcast_multi_parts | the same without a limiter | **violates** OkMeansComplete |
| split_request | limits 0-3, up to 4 metrics, up to 3 matches | TypeOK, BatchSizes, FullBatches, InOrder, NothingLeft |
| http_errors | 2 targets, 2 backends, 7 codes, with and without RequireSuccessAll | AnswerIsLowest, StableCode |
| http_query | 2 queries, 2 servers, limit 1, MaxTries 1, both modes, fairness | TypeOK, SlotAccounting, AllAsked, FailureTriedAll, EvenlyPicked, QueryEnds |
| http_query_group_name | 1 query, a limiter that knows no server | **violates** BlockedOnlyWhenFull |
| tld_routing | 2 backends, 2 names, a pattern and a request by tags, failing probes, growth, fairness | AllHoldersAsked, EntriesTrue, RoutingRecovers |
| response_merge | 3 backends, 1 expression, 2 steps, up to 2 points | PointsKept, NoPointInvented |
| evaluation | 2 fetched series, the second of 6 shapes (same grid, longer step, late start, early stop, empty, a step beyond the request), 1 or 2 calls of any functions, both settings of ExtrapolateExperiment | SourcesNotAssigned, RegularIsServed, RegularFits, ScaledToOneGrid, ListsKept |
| gateway | 2 clients (symmetric), a scenario per question: requests that differ in one parameter over each cache; failures of each protocol, with each status; a failure and a second request; groups among the backends, batches, globs, routing, NotFoundStatusCode 200 and 404; 13 x 13 nested functions that ask for other intervals; fetches inside evaluations, also two levels of them, with one slot; sites of two servers of two protocols, one of them in a group, `auto`, VictoriaMetrics versions whole and in part | LookupsFetched, FiledRight, SuccessAllComplete, SomeoneMoves, FoundIsShown, InfoComplete, TagsKept, FeaturesOfOldest, ImplementsService |

Why the bounds are enough to be interesting: one slot and two competitors make a
call wait, time out and be served late; two batches make a fetcher loop, and the
multi-fetch mode send more responses than there are backends; a limit of 3 with
4 metrics and 3 matches puts batches aside at both places and leaves a rest; two
queries move the shared counter under each other, and with MaxTries below the
number of servers the tries are raised to that number; two backends are enough
for one to be missing from an entry the other is in; three replicas are the fewest
where the order of merging and the grouping of merges differ; the seven codes
are one of each class `recalcCode` tells apart. Two calls are the fewest where one
function is given what another made or left behind; intervals -1, 0, 1, 2 and 7
are below, at, inside and beyond a request of 6 seconds. Two clients and two or
three requests make one client's write be read by the other, before and after it
expires (timeouts of 1 and 2, a clock of up to 3 ticks); one slot and nested
fetches make handlers wait for each other; a "day" of 2 seconds makes an alignment
move a start; two levels of functions make Metrics and the evaluation walk an
expression in opposite directions.

What the runs of the upper half show:

- `evaluation`: no function writes into points or tags of a fetched series, in any
  order of calls (SourcesNotAssigned), nor loses a series from a list of the map
  (ListsKept); ordinary arguments make none panic or loop (RegularIsServed) and
  give series that end where they say (RegularFits); ScaleSeries gives one grid
  whatever came before (ScaledToOneGrid).
- `gateway`: the handler implements RenderService (ImplementsService); what
  functions look up was fetched (LookupsFetched) and is filed under the interval
  asked for where the answer leaves no doubt of it (FiledRight); with
  RequireSuccessAll, and where nothing hides failures (`Strict`), no answer with
  status 200, cached or not, lacks a series a backend holds, but for bodies first
  sent with a status such as 429 (SuccessAllComplete, see known limits); handlers
  never all wait for a slot nobody will free (SomeoneMoves); a find shows all that
  was answered in the list and protobuf formats and each last component in the tree
  (FoundIsShown); without faults and groups an info reply has all entries
  (InfoComplete); the first tags are kept (TagsKept); requests use no API the oldest
  server lacks, where one is the oldest in every number (FeaturesOfOldest).

Deadlock is checked everywhere except in the multi-fetch runs, where goroutines
really block for ever on a channel that is full (see below), and in `evaluation`
and `gateway`, whose behaviours end when the calls or requests of the scenario are
used up; in `gateway` SomeoneMoves takes its place.

### What the violations show

Each is a finding in `PROJECT.json`, with the line it contradicts.

1. With `doMultipleRequestsIfSplit`, `DoRequest` counts backends but gets a
   response per batch: batches are missing from results returned as success, and
   their goroutines block on the send, each with its slot.
2. The limiter of graphite, prometheus and victoriametrics groups is made for
   the group's name and entered with a server's name: a round-robin group with a
   limit waits on a nil channel until its timeout.

### Known limits

Behaviour of the code that the models have and that the properties above are
stated to leave out. Most are hazards in `PROJECT.json`.

- An error of one of the Finds of `splitRequest` is dropped when another glob was
  resolved, also with `requireSuccessAll` (`Split`, `SplitFails` in Broadcast).
  `OkMeansComplete` speaks of what goroutines ask for after the split.
- A probe that fails takes its backend out of the routing of names other backends
  reported, until a later probe succeeds. `AllHoldersAsked` is conditional on
  `steady`; `RoutingRecovers` says the backend comes back.
- A request for a cached name and an uncached name or pattern is sent only to the
  backends of the cached one, also while entries are written or expire one by one.
  `AllHoldersAsked` excepts the backends of such names (`Overlooked`) and no others:
  names on both sides of a half-written map are asked for completely.
- Entries of one metric under two path expressions have the same coordinates: a
  second replica fills the gaps of only one of them. `PointsKept` is run with one
  expression; with `Exprs = {e1, e2}` TLC refutes it.
- Replicas whose series start at different times are not combined. `PointsKept` is
  run with one start time; with `Starts = {0, 10}` TLC refutes it.
- `recalcCode` is not symmetric in 401 and 403 (nor in 402 and 403): the status
  depends on the order of arrival. `StableCode` is run and proved without 401 and
  402; with them in `Codes` TLC refutes it.
- The interval a function looks up is not one Metrics planned for a moving window of
  a negative number of seconds, for baselines, for an slo bucket longer than the
  request, for timeStack without its bounds, and for an aligned function whose
  interval is shifted by no multiple of its unit: the function finds an empty list.
  `LookupsFetched` is conditional on `Agrees`.
- graphite, prometheus and irondb ask for all metrics of a batch with the interval
  of the first, and of two answers for one path expression the last one's interval
  counts (`expr.go:103`). `FiledRight` leaves these out.
- timeShift with resetEnd hands on a prefix of the fetched points; AlignSeries then
  appends nulls over the rest ("tail" in `SourcesNotAssigned`). limit hands on a
  prefix of a list, over whose rest an append writes (`ListsKept`).
- Functions that panic, divide by zero or loop on arguments that are not regular:
  exponentialMovingAverage with a window shorter than the step (it also drops the
  error of its second fetch), divideSeriesLists with an unmatched name,
  aggregateLine over no interval, asPercent, removeBetweenPercentile and others.
  `RegularIsServed` is conditional on `regular`.
- `ScaleValuesToCommonStep` does not keep what its comment says of the start
  (`align.go:191`); `ScaledToOneGrid` is about the caller ScaleSeries.
- Keys of the caches: the body of a v3 request is not in the key of the response,
  the time zone not in the key of the backend cache, the format of timestamps not in
  a key under TruncateTime. With memcached a request with noCache stores its answer
  without expiry. `Determined` leaves these requests out.
- The short timeout applies up to and including its bound, in the documentation
  below it.
- Without RequireSuccessAll partial results are stored in both caches;
  `SuccessAllComplete` is conditional on it.
- With RequireSuccessAll a failure of status 401, 402 or 429 is one the handler does
  not stop at (`render_handler.go:364`): the partial body is sent with that status
  and stored (413), and the next request gets it with status 200.
  `SuccessAllComplete` excepts exactly these bodies; results are kept out of the
  backend cache (338).
- With RequireSuccessAll series can be missing from a 200 without an error that
  counts: when a Find of `splitRequest` fails beside others; when the routing leaves
  a backend out; when a group among the backends finds nothing and
  NotFoundStatusCode is one the handler goes on with; after a 204; when prometheus
  or VictoriaMetrics hide an answer they cannot decode; when a function drops the
  error of a fetch of its own. The model has all of these; `Strict` names the
  configurations without them.
- With RequireSuccessAll a 404 of one group turns a Fetch with data into a 404.
- The tree format of find (the default) shows each last component once. Of a path
  that is a leaf on one server and a branch on another, and of `a.x` and `b.x`, one
  is lost, which one depends on the order of the answers (`find_handlers.go:68`).
  `FoundIsShown` says of it only that each last component is there once, as
  something that was answered.
- With RequireSuccessAll a 204 of one backend makes a find answer 200 with no
  matches (`Muted` in `FoundIsShown`). protobuf v2 panics on an empty find.
- expand keeps, of two answers for one name, the last one: matches are lost over
  prometheus and irondb and for a query given twice (`expand_handler.go:145`).
- A tag limit of n keeps n - 1 of more tags, and a limit of 0 panics, when a group
  has them to cut; in a group among the backends that panic ends the process, and
  `BrowseAssumption` leaves it out. `TagsKept` says n - 1.
- Versions of VictoriaMetrics are compared component by component, joined by *or*:
  of v1.45.3 and v1.46.0 the one that comes last counts; a patch that is not
  understood counts as 0. `FeaturesOfOldest` is about versions of which one is the
  oldest in each number and the only one with its numbers.
- A Find that fails in part, or in which a group has no match, makes Info ask for
  the raw names (`zipper.go:292`); a server that does not answer the capability
  query in time is left out until restart (`auto_group.go:118`); Finds of
  `splitRequest` do not enter the limiter.

## 4. Fairness

Only liveness runs assume any. Weak fairness of the steps of goroutines (the Go
scheduler runs what can run), of `Deadline` (the context's timer fires; the
operations set one with `context.WithTimeout`), and of a backend's answer *once
the context is done*: the HTTP client is given the context and returns then. A
backend is never assumed to answer by itself. In `Enter`'s select the two cases
are fair together, not each: a goroutine is not promised a slot. TldRouting
assumes that the ticker fires and that a probe, once gathered, is written; probes are not
assumed to succeed, `RoutingRecovers` is conditional on that.

Gateway states no fairness. Each step of its handlers brings a request closer to its
answer or adds the jobs of one evaluation, of which an expression has finitely many,
so that a request ends if its handler is never stuck; SomeoneMoves says so of every
state. Whether backends answer is the subject of Broadcast and HttpQuery.

## 5. Proofs

All proofs are for every value of the constants that the named ASSUMEs allow. In
`P |-` below a theorem needs P besides.

| Theorem | States | Inductive invariant, and why it is needed |
|---|---|---|
| BroadcastProofs!TypeCorrect, SlotsAccounted | TypeOK, SlotAccounting | types, "a batch's goroutine runs only after the split", and used = number of holders: the range of the counter follows only from the count |
| BroadcastProofs!RepliesAlwaysFit | ~MultiFetch \|- RepliesFit | responses in the channel plus responses counted = fetchers that have sent, all fetchers of targets |
| BroadcastProofs!OkIsComplete | ~MultiFetch \|- OkMeansComplete | the above; a response sent has data or an error for all its fetcher asked for, and is in the channel or in the result (NothingDropped); gathering ends with a full count or an error (GatheredAll) |
| SplitRequestProofs!TypeCorrect, BatchesBounded, BatchesFull | TypeOK, BatchSizes, FullBatches | while metrics are left, all batches put aside are full and the current one is at most full, and not full inside a Find's answer |
| SplitRequestProofs!OrderKept, AllHandedOut | InOrder, NothingLeft | the above, and batches numbered through with wanted = full batches * max + current |
| HttpQueryProofs!TypeCorrect, SlotsAccounted | TypeOK, SlotAccounting | types, try < Tries while running, used = number of holders |
| HttpQueryProofs!TurnsEven | EvenlyPicked | the current round is 1..counter |
| HttpQueryProofs!EveryServerAsked | AllAsked | servers before the current one were tried |
| HttpQueryProofs!EveryServerTried | FailureTriedAll | a query that runs alone has tried the servers of the last turns, one for each try (Swept) |
| TldRoutingProofs!EntriesAlwaysTrue | EntriesTrue | also the map being built is true |
| TldRoutingProofs!RoutingComplete | AllHoldersAsked | while steady: the map holds exactly the holders that answered; an entry is empty or complete, so a name is either asked of all its holders or has no entry at all |
| ResponseMergeProofs!PointsReal | NoPointInvented | points of the response being merged and of every entry are real |
| ResponseMergeProofs!PointsSurvive | one expression, one start \|- PointsKept | the entry has the finest step merged so far and every point of that step |
| HttpErrorsProofs!LowestAnswered, CodeStable | codes in {400} and 403..599 \|- AnswerIsLowest, StableCode | a group's code is the lowest of the errors it met; the targets evaluated are those before the first at which the loop breaks, with the errors they decide; the total is the lowest of the targets met |
| GatewayProofs!GatewayIsBoth | a behaviour of Gateway is one of Render and one of Browse | none; it carries the theorems below to the gateway |
| GatewayProofs!LimiterNeverStuck | a limit other than 0 \|- SomeoneMoves | free slots + handlers in a Fetch = the limit (SlotsRight) |
| GatewayProofs!OldestDecides | FeaturesOfOldest (an action property) | a lemma on the fold of MinVersion: what it has at hand is the least of the versions behind it |
| GatewayProofs!TagsNeverLost | TagsKept | what is merged is what was answered (TagsMerged) |
| GatewayProofs!FindShowsFound | FoundIsShown | the matches merged are those answered, names once where children give them once (FindMerged) |
| GatewayProofs!InfoAlwaysComplete | InfoComplete | FindMerged, and what Info asks for has every leaf the Find found; entries of the children met are theirs (InfoMerged) |
| GatewayProofs!LookupsAreFetched, SeriesFiledRight, SuccessIsComplete | LookupsFetched, FiledRight, SuccessAllComplete | RenderInv, below |
| GatewayProofs!HandlerImplementsService | ImplementsService | RenderInv and TimesInv, below |
| EvaluationProofs!EvaluationInvariant | EvaluationInv | it is inductive, below |
| EvaluationProofs!FetchedNotAssigned | SourcesNotAssigned | EvaluationInv: only tails of fetched series are ever spoilt |
| EvaluationProofs!RegularServed, RegularFitting | RegularIsServed, RegularFits | EvaluationInv: what each function does with regular arguments, on any heap |
| EvaluationProofs!ScaledAlike | ScaledToOneGrid | EvaluationInv, and a lemma on ScaleSeries (ScaleIs) for any list of a heap |
| EvaluationProofs!FetchedListsKept | ListsKept (an action property) | EvaluationInv with the fetched series in front of the heap, which every call leaves there |

The extra hypotheses are needed: `broadcast_multi_parts` shows what happens
without the first, the known limits above what happens without those on merges
and codes; SimpleLimiter with no slots blocks every Fetch.

*Render.* RenderInv says of each handler what its jobs, its stack of evaluations
and its maps are: entries were asked for and filed as Backends answers. For
SuccessAllComplete it says, where `Strict` holds, that a handler whose results miss
series has met an error the response is stopped with or has for its status
(`Owns`); hence cached results miss none (`Uncut`) and a cached body only if it was
first sent with the status of an error (`Owned`). That errors account for what is
missing is a chain of lemmas on Backends, from the queries of a protocol over
batches, groups and groups of groups to the zipper (ProtocolRight, BatchedRight,
GroupRight, NestedRight, ChildRight, OutcomesRight): where nothing hides failures an
answer that lost series has a code (`Tells`), and one that is no 404 unless a
group gave it (`Known`).

LookupsFetched needs one
lemma by itself (MetricsCover): Metrics goes through the functions of an
expression from the outside and adjusts intervals on the way, the evaluation goes
through them again and adjusts what it looks up; by induction over the functions
the second interval is among the first. The functions of which this is false are
those `Agrees` leaves out.

*The refinement.* The initial states of Render map to those of RenderService,
`Send` to `Ask`, every reply (`Reject`, `AnswerCached`, `EmptyRange`, `Respond`,
errors) to `Answer`, `Tick` to `Tick`, every other step to a stutter, under
`asking` = the requests whose handler is not idle. An `Answer` with status 200 has
to be a snapshot, which is a fact about what the caches hold. TimesInv has it: of
each cache entry, each write on its way to memcached and each result of an open
handler it says which targets, format and points it is for, at which moments its
interval and its data were taken, and how these moments are bounded by its expiry;
that the keys of two requests agree only when, for Determined requests, those do
(KeysShow); and that all metrics evaluated for a target are among those the target
can be rewritten to (StackFor), through any number of fetches of functions inside
functions. `Tick` is the delicate step: everything gets older, and entries
that are still good are exactly those `Ages` allows for.

*Evaluation.* The theorems are about any number of calls of any functions, in any
order, on lists of any length: fetched ones, results of earlier calls and slices of
both. EvaluationInv (in EvaluationTypes) has the types of the heap, of the three
stored lists and of the current result: pointers stay inside the heap, a slice of a
fetched list is a prefix of what that list holds now (Linked; a function that
appends to the slice writes into the list behind it), spoilt has nothing but tails.
The invariant alone does not get through a call, because a function may run the
others' helpers on any list. Hence one lemma for each function, on an arbitrary
heap and arbitrary arguments that point into it (Given): its outcomes are Good or,
when it stores into the lists it was given, Fair. That is: the heap has grown and
positive steps are still positive; pointers of the result are inside the new heap;
no fetched array was written through; and, if the arguments are regular and the
number is in range, no panic, no endless loop and only series that fit their stop.
The lemmas go from the helpers up: changes of one field (With...), copies and new
series, the common step (LCMIs, ConsolidateIs), ScaleSeries (RescaledIs, ScaleIs),
pairs and groups folded one after the other (Steady), buckets. CallKeeps says a call
with such outcomes keeps EvaluationInv, StepKeeps puts the functions together.
For ListsKept the functions that store into a list get a second lemma (...Keeps):
what they write over the beginning of a list has all that was there. A sorted list
has, since an order is a permutation (OrderHas, by the pigeonhole principle); an
append to a whole list has, since it has no room and makes a new one; an append to a
part of a list has not, hence the condition of the property. That the list then
still points to the same series, though the heap is renumbered after each call,
is KeptStarts: the fetched series come first and are always kept.
ScaleIs is a fact about every list of a heap with positive steps, not only those a
call may be given. EvaluationAssumption says of the bounds that a count in range is
a position in a name. TLC checked EvaluationInv on all states of `evaluation`
before it was proved.

*Technique.* The provers have no induction over data. Where an operator is a fold
(MergeFind, MinVersion, Metrics, FlattenSeq) the induction is made by hand: the
set of the indices up to which the claim holds contains 0 and successors, hence
all numbers (NatInd, from the least element of a set of numbers); that a fold's
recursion has a function satisfying it at all is a lemma (FoldExists). The lemmas on
folds are in EvaluationProofs as well as in GatewayProofs, whose modules share none.

Before it was proved, TimesInv was checked by TLC on the scenarios of `gateway`:
completely on those about failures, plans and nested fetches, and on the first
120,000 states of each of those about caches.

Only model-checked: liveness (EveryCallReturns, GoroutinesEnd, QueryEnds,
RoutingRecovers), which needs fairness. What a recursive definition computes for
every input is not proved beyond the inductions made by hand above.

## 6. Not modelled

`PROJECT.json` lists every component with the reason. In short:

- arithmetic of floating-point numbers (the values functions compute, consolidation
  of points, forecasts): the models keep which points and series there are;
- strings: the recursive-descent parser, the grammar of dates, globs and regular
  expressions, PromQL, encodings of requests and responses;
- drawing (png, svg): a stateless function of a response;
- configuration, start, metrics and logs: what configuration sets are CONSTANTS or
  the configuration of a behaviour;
- the query cache (`zipper/cache`), which nothing imports; the mock backend
  and functiondiff, which are test tools; vendored and generated code.

Hazards of those parts are listed in `PROJECT.json` with a note.

## 7. Plan

Done, in this order: Broadcast with its limiter; SplitRequest; HttpErrors;
HttpQuery; TldRouting; ResponseMerge; Series and the functions with Evaluation;
FetchPlan, RenderRequest, Backends, Render with its abstract RenderService; Browse;
Gateway.

Then the proofs, in the order of the table above: the zipper, Browse, the limiter,
the invariants of Render, its refinement of RenderService.

After these, Evaluation: one lemma for each function, its inductive invariant, and
the five properties above.
