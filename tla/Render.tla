------------------------------- MODULE Render -------------------------------
(***************************************************************************)
(* The render handler (cmd/carbonapi/http/render_handler.go) with its two  *)
(* caches (cache/cache.go), the evaluator that fetches the metrics of the  *)
(* targets (expr/expr.go) within a limit of concurrent fetches             *)
(* (limiter/simple.go), and the backends of module Backends.               *)
(*                                                                         *)
(* A target is a record [head, args, then]: args as in FetchPlan; head its *)
(* outermost function as far as control depends on it: "plain",            *)
(* "fallbackSeries", "applyByNode" (the rewriting functions) with then the *)
(* target it is rewritten to when its argument has series, "invalid" whose *)
(* arguments the function refuses, "misconsolidated" with an argument of   *)
(* consolidateBy that the evaluator refuses to pass to the backends        *)
(* (passFunctionsToBackend), "panics", "unparsable".                       *)
(*                                                                         *)
(* conf is the configuration and the load of one behaviour:                *)
(*   cache        "null", "mem" or "memcached"                             *)
(*   resp, back   of each cache the normal and the short timeout           *)
(*   shortDuration, shortOffset   where the short one applies              *)
(*   truncate, truncateOver       TruncateTime, 0: none                    *)
(*   rsa          RequireSuccessAll                                        *)
(*   combine      CombineMultipleTargetsInOne                              *)
(*   notFound     NotFoundStatusCode                                       *)
(*   slots        the limit of the evaluator                               *)
(*   children, faults, tld, globs   the backends, see Backends             *)
(*   impatient    clients may go away                                      *)
(*   requests     what clients ask, quota: how many in all                 *)
(*   targets      their targets and the ones these are rewritten to        *)
(***************************************************************************)
EXTENDS Backends

CONSTANTS Clients, Scenarios, Start,
          Latency,  \* Tick waits for a request that is open this long
          Lag       \* and for a write to memcached

(* A target, of the targets T. *)
IsTarget(t, T) ==
  /\ t.args \in Seq(Range(t.args)) /\ t.then \in Seq(T) /\ Len(t.then) <= 1
  /\ t.head = "fallbackSeries" => t.args # <<>>
  /\ \A a \in Range(t.args) : a.fs \in Seq(Range(a.fs)) /\ \A k \in DOMAIN a.fs : a.fs[k].by \in Int

IsRequest(r, T) ==
  /\ r.targets \in Seq(T)
  /\ {r.from.at, r.until.at, r.tz} \subseteq Int
  /\ r.cacheTimeout # <<>> => r.cacheTimeout = <<r.cacheTimeout[1]>> /\ r.cacheTimeout[1] \in Int
  /\ HasBody(r) => r.body[1].span \in Spans /\ r.body[1].targets \in Seq(T)

(* The limiter is a channel of a size that is not negative (simple.go:28), *)
(* times are whole seconds. *)
ASSUME RenderAssumption ==
  /\ IsFiniteSet(Clients)
  /\ Start \in Int /\ DefaultRange \in Int /\ Day \in Nat \ {0} /\ Stack \in Nat
  /\ Latency \in Nat /\ Lag \in Nat
  /\ \A s \in Scenarios :
       /\ s.slots \in Nat /\ s.truncate \in Nat
       /\ {s.resp.normal, s.resp.short, s.back.normal, s.back.short} \subseteq Int
       /\ s.faults \subseteq Faults /\ s.notFound \in Int
       /\ \A ch \in s.children : IsBackend(ch) \/ IsGroup(ch)
       /\ \A r \in s.requests : IsRequest(r, s.targets)
       /\ \A t \in s.targets : IsTarget(t, s.targets)

VARIABLES conf, now,
          rq,       \* rq[c]: the handler of c's request
          left,     \* requests that may still be sent
          answer,   \* answer[c]: the last answer c got
          slots,    \* free slots of the limiter
          respCache, backCache,  \* key -> [value, till]
          writes    \* memcached writes under way

vars == <<conf, now, rq, left, answer, slots, respCache, backCache, writes>>

Idle == [pc |-> "idle"]
Empty == [k \in {} |-> {}]

Init ==
  /\ conf \in Scenarios
  /\ now = Start
  /\ rq = [c \in Clients |-> Idle]
  /\ left = conf.quota
  /\ answer = [c \in Clients |-> <<>>]
  /\ slots = conf.slots
  /\ respCache = Empty /\ backCache = Empty
  /\ writes = {}

-----------------------------------------------------------------------------
(* The caches.  An entry of the expiring cache is good up to its second;   *)
(* in memcached timeout 0 is for ever and a negative one expired. *)
Forever == <<>>

Good(entry) == entry.till = Forever \/ now <= entry.till[1]

(* A hit of cache.Get.  Besides an expired entry a Get misses one that was *)
(* evicted, or that memcached did not deliver in time. *)
Hits(cache, key) == {cache[k].value : k \in {q \in DOMAIN cache : q = key /\ Good(cache[q])}}

Expiry(timeout) ==
  CASE conf.cache = "memcached" /\ timeout = 0 -> Forever
    [] conf.cache = "memcached" /\ timeout < 0 -> <<now - 1>>
    [] OTHER -> <<now + timeout>>

Put(cache, key, value, timeout) ==
  [k \in DOMAIN cache \cup {key} |->
     IF k = key THEN [value |-> value, till |-> Expiry(timeout)] ELSE cache[k]]

Write(which, key, value, timeout) ==
  [which |-> which, key |-> key, value |-> value, timeout |-> timeout, since |-> now]

(* cache.Set: the expiring cache at once, memcached in a goroutine. *)
Set(cache, key, value, timeout) ==
  IF conf.cache = "mem" THEN Put(cache, key, value, timeout) ELSE cache

SetLater(ws) == IF conf.cache = "memcached" THEN writes \cup ws ELSE writes

Land(w) ==
  /\ w \in writes
  /\ writes' = writes \ {w}
  /\ respCache' = IF w.which = "resp" THEN Put(respCache, w.key, w.value, w.timeout) ELSE respCache
  /\ backCache' = IF w.which = "back" THEN Put(backCache, w.key, w.value, w.timeout) ELSE backCache
  /\ UNCHANGED <<conf, now, rq, left, answer, slots>>

(* getCacheTimeout *)
CacheTimeout(req, span, policy) ==
  IF req.noCache THEN 0
  ELSE IF req.cacheTimeout # <<>> THEN req.cacheTimeout[1]
  ELSE IF \/ policy.short = 0 \/ conf.shortDuration = 0
          \/ span.until - span.from > conf.shortDuration
          \/ now - span.until > conf.shortOffset
       THEN policy.normal
       ELSE policy.short

(* responseCacheComputeKey, r.Form.Encode after cleanupParams *)
ResponseKey(req, span) ==
  IF conf.truncate # 0
  THEN [span |-> span, targets |-> req.targets, format |-> req.format, points |-> req.points]
  ELSE [from |-> req.from, until |-> req.until, tz |-> req.tz, targets |-> req.targets,
        format |-> req.format, points |-> req.points, view |-> req.view,
        cacheTimeout |-> req.cacheTimeout]

(* Mutated form of BackendKey: the points asked for are forgotten. *)
BackendKeyNoPoints(req, span) ==
  IF conf.truncate # 0 THEN [span |-> span, targets |-> TargetsOf(req)]
  ELSE [from |-> req.from, until |-> req.until, targets |-> TargetsOf(req)]

(* backendCacheComputeKey, backendCacheComputeKeyAbs *)
BackendKey(req, span) ==
  IF conf.truncate # 0
  THEN [span |-> span, targets |-> TargetsOf(req), points |-> req.points]
  ELSE [from |-> req.from, until |-> req.until, targets |-> TargetsOf(req), points |-> req.points]

-----------------------------------------------------------------------------
(* A client sends a request. *)
Send(c, req) ==
  /\ rq[c] = Idle /\ left > 0
  /\ rq' = [rq EXCEPT ![c] = [pc |-> "parse", req |-> req, since |-> now]]
  /\ left' = left - 1
  /\ answer' = [answer EXCEPT ![c] = <<>>]
  /\ UNCHANGED <<conf, now, slots, respCache, backCache, writes>>

Reply(c, code, body) ==
  /\ answer' = [answer EXCEPT ![c] = [code |-> code, body |-> body]]
  /\ rq' = [rq EXCEPT ![c] = Idle]

(* A form that cannot be read, an unknown format, timestamp format or      *)
(* body, targets that are too long.  A protobuf body without metrics       *)
(* panics before the handler recovers from panics: the server drops the    *)
(* connection. *)
Dropped == 0

Reject(c) ==
  LET req == rq[c].req IN
  /\ rq[c].pc = "parse"
  /\ req.bad \/ (HasBody(req) /\ TargetsOf(req) = <<>>)
  /\ Reply(c, IF req.bad THEN 400 ELSE Dropped, <<>>)
  /\ UNCHANGED <<conf, now, left, slots, respCache, backCache, writes>>

Admissible(c) ==
  /\ rq[c].pc = "parse"
  /\ ~rq[c].req.bad /\ (HasBody(rq[c].req) => TargetsOf(rq[c].req) # <<>>)

(* The answer is in the response cache. *)
AnswerCached(c) ==
  LET req == rq[c].req IN
  /\ Admissible(c) /\ ~req.noCache
  /\ \E body \in Hits(respCache, ResponseKey(req, FormSpan(conf, req, now))) : Reply(c, 200, body)
  /\ UNCHANGED <<conf, now, left, slots, respCache, backCache, writes>>

(* It is not there, or not asked for. *)
NotCached(c) ==
  LET req == rq[c].req IN
  /\ Admissible(c)
  /\ req.noCache \/ conf.lossy \/ Hits(respCache, ResponseKey(req, FormSpan(conf, req, now))) = {}

EmptyRange(c) ==
  LET span == SpanOf(conf, rq[c].req, now) IN
  /\ NotCached(c)
  /\ span.from >= span.until
  /\ Reply(c, 400, <<>>)
  /\ UNCHANGED <<conf, now, left, slots, respCache, backCache, writes>>

(* The work of a request: a stack of maps of fetched series, values of the *)
(* handler at the bottom, each with the evaluations that are left to do    *)
(* with it.  Such a job is fetched and evaluated; exprs are its            *)
(* expressions and of the targets they belong to, 0 in a job for all. *)
Job(of, exprs, span, quiet) == [of |-> of, exprs |-> exprs, span |-> span, quiet |-> quiet]

TopJobs(targets, span) ==
  IF targets = <<>> THEN <<>>
  ELSE IF conf.combine THEN <<Job([i \in DOMAIN targets |-> i], targets, span, FALSE)>>
  ELSE [i \in DOMAIN targets |-> Job(<<i>>, <<targets[i]>>, span, FALSE)]

Frame(keys, values, jobs) == [keys |-> keys, values |-> values, jobs |-> jobs]

(* What the evaluations found, and the errors as a set of codes. *)
Results(req, span) ==
  [targets |-> TargetsOf(req), points |-> req.points, span |-> span,
   found |-> [i \in DOMAIN TargetsOf(req) |-> {}], lost |-> FALSE]

(* The times and the keys of the request are computed, the response cache  *)
(* does not have the answer. *)
Admit(c) ==
  LET req == rq[c].req
      form == FormSpan(conf, req, now)
      span == SpanOf(conf, req, now)
  IN /\ NotCached(c)
     /\ span.from < span.until
     /\ rq' = [rq EXCEPT ![c] =
          [pc |-> "lookup", req |-> req, since |-> rq[c].since, span |-> span,
           respKey |-> ResponseKey(req, form), backKey |-> BackendKey(req, span),
           respTimeout |-> CacheTimeout(req, form, conf.resp),
           backTimeout |-> CacheTimeout(req, form, conf.back),
           results |-> Results(req, span), codes |-> {},
           stack |-> <<Frame({}, {}, TopJobs(TargetsOf(req), span))>>, job |-> <<>>, fresh |-> TRUE]]
     /\ UNCHANGED <<conf, now, left, answer, slots, respCache, backCache, writes>>

(* backendCacheFetchResults *)
LookupHit(c) ==
  /\ rq[c].pc = "lookup" /\ ~rq[c].req.noCache
  /\ \E results \in Hits(backCache, rq[c].backKey) :
       rq' = [rq EXCEPT ![c].pc = "reply", ![c].results = results, ![c].fresh = FALSE]
  /\ UNCHANGED <<conf, now, left, answer, slots, respCache, backCache, writes>>

LookupMiss(c) ==
  /\ rq[c].pc = "lookup"
  /\ rq[c].req.noCache \/ conf.lossy \/ Hits(backCache, rq[c].backKey) = {}
  /\ rq' = [rq EXCEPT ![c].pc = "next"]
  /\ UNCHANGED <<conf, now, left, answer, slots, respCache, backCache, writes>>

-----------------------------------------------------------------------------
(* Fetching and evaluating the targets. *)
Top(c) == Last(rq[c].stack)
HasJob(c) == rq[c].pc = "next" /\ Top(c).jobs # <<>>
NextJob(c) == Head(Top(c).jobs)

TakeJob(c) ==
  [rq[c].stack EXCEPT ![Len(rq[c].stack)].jobs = Tail(@)]

(* Evaluations that are done return to the one that needs their result. *)
Unwind(stack) ==
  SubSeq(stack, 1, Max({1} \cup {k \in DOMAIN stack : stack[k].jobs # <<>>}))

Parses(job) == \A j \in DOMAIN job.exprs : job.exprs[j].head # "unparsable"

(* A target is parsed when its turn comes, with                            *)
(* CombineMultipleTargetsInOne before any is fetched. *)
ParseError(c) ==
  /\ HasJob(c) /\ ~Parses(NextJob(c))
  /\ Reply(c, 400, <<>>)
  /\ UNCHANGED <<conf, now, left, slots, respCache, backCache, writes>>

(* SimpleLimiter.Enter at the start of Evaluator.Fetch *)
Enter(c) ==
  /\ HasJob(c) /\ Parses(NextJob(c))
  /\ slots > 0
  /\ slots' = slots - 1
  /\ rq' = [rq EXCEPT ![c].pc = "fetch", ![c].job = <<NextJob(c)>>, ![c].stack = TakeJob(c)]
  /\ UNCHANGED <<conf, now, left, answer, respCache, backCache, writes>>

(* The evaluation of job fails with an error of this code, the handler     *)
(* goes on with the next target.  With RequireSuccessAll it does only      *)
(* after 404.  If the Fetch for all targets fails, nothing is left. *)
Without(job, stack, stop) ==
  [k \in DOMAIN stack |->
     [stack[k] EXCEPT !.jobs =
        IF stop THEN <<>>
        ELSE FlattenSeq([n \in DOMAIN @ |-> IF @[n].of # job.of THEN <<@[n]>> ELSE <<>>])]]

Fails(r, job, code, stack) ==
  LET stop == conf.rsa /\ ~conf.combine /\ code # 404 IN
  [r EXCEPT !.pc = "next", !.job = <<>>, !.codes = @ \cup {code},
            !.results.found = [i \in DOMAIN @ |-> IF i \in Range(job.of) THEN {} ELSE @[i]],
            !.stack = Unwind(Without(job, stack, stop))]

(* exponentialMovingAverage goes on without what it wanted to fetch. *)
FetchFails(r, job, code, stack) ==
  IF job.quiet THEN [r EXCEPT !.pc = "next", !.job = <<>>, !.stack = Unwind(stack)]
  ELSE Fails(r, job, code, stack)

(* The client is gone before a slot is free. *)
GiveUp(c) ==
  /\ conf.impatient
  /\ HasJob(c) /\ Parses(NextJob(c))
  /\ rq' = [rq EXCEPT ![c] = FetchFails([@ EXCEPT !.results.lost = TRUE], NextJob(c), 500, TakeJob(c))]
  /\ UNCHANGED <<conf, now, left, answer, slots, respCache, backCache, writes>>

(* The evaluator passes functions to the backends and cannot pass one. *)
Misconsolidated(job) == \E j \in DOMAIN job.exprs : job.exprs[j].head = "misconsolidated"

Arguments(job) == [j \in DOMAIN job.exprs |-> job.exprs[j].args]
HasFallback(job) == \E j \in DOMAIN job.exprs : job.exprs[j].head = "fallbackSeries"

(* A fetched series in values, with the interval the backend was asked     *)
(* for; sure if that cannot be mistaken: the backend repeats it, or all    *)
(* that was asked for has the same. *)
Filed(plan, s) ==
  [key |-> FiledUnder(plan.cache, s), name |-> s.name, span |-> s.span, at |-> now,
   sure |-> (s.echo.from # 0 /\ s.echo.until # 0) \/ \A i \in DOMAIN plan.todo : plan.todo[i].span = s.span]

(* What Evaluator.Fetch may get. *)
Gets(job, plan) ==
  CASE Misconsolidated(job) -> {[series |-> {}, code |-> 400, lost |-> FALSE]}
    [] ~Misconsolidated(job) /\ plan.todo = <<>> -> {[series |-> {}, code |-> 0, lost |-> FALSE]}
    [] ~Misconsolidated(job) /\ plan.todo # <<>> -> Outcomes(conf, plan.todo)

(* Evaluator.Fetch within its slot: of the job's metrics those the map it  *)
(* is given does not have are fetched and added to the map; the job gets a *)
(* map of its own.  A status below 400 is no error, and none counts where  *)
(* there is a fallbackSeries. *)
FetchStep(c, leave) ==
  LET r == rq[c]
      job == r.job[1]
      depth == Len(r.stack)
      plan == Plan(Arguments(job), job.span, Top(c).keys)
  IN /\ r.pc = "fetch"
     /\ \E out \in Gets(job, plan) :
          LET filed == {Filed(plan, s) : s \in out.series}
              values == Top(c).values \cup filed
              mine == {e \in values : e.key \in plan.wanted}
              stack == [r.stack EXCEPT ![depth].values = values,
                                       ![depth].keys = @ \cup {e.key : e \in filed}]
          IN rq' = [rq EXCEPT ![c] =
               IF Misconsolidated(job) \/ (out.code >= 400 /\ ~HasFallback(job))
               THEN FetchFails([r EXCEPT !.results.lost = @ \/ out.lost], job, out.code, r.stack)
               ELSE [r EXCEPT !.pc = "eval", !.results.lost = @ \/ out.lost,
                              !.stack = Append(stack, Frame(plan.wanted, mine, <<>>))]]
     /\ slots' = slots + leave
     /\ UNCHANGED <<conf, now, left, answer, respCache, backCache, writes>>

(* Mutated form of Fetch: the slot is kept for the evaluation, which may   *)
(* fetch again. *)
FetchKeepsSlot(c) == FetchStep(c, 0)

Fetch(c) == FetchStep(c, 1)

(* Series an argument finds in the map; fs, span: how it gets there *)
FoundBy(values, name, fs, span) ==
  {e \in values : e.key \in {Request(name, l) : l \in Lookups(fs, span)}}

(* The fetches the evaluation of an argument asks for. *)
RefetchesOf(frame, a, span) ==
  {f \in Refetched(a.fs, span) : FoundBy(frame.values, a.name, f.fs, f.given) # {}}

FoundByArg(frame, a, span) ==
  IF RefetchesOf(frame, a, span) # {} THEN {} ELSE FoundBy(frame.values, a.name, a.fs, span)

Plain(a) == [head |-> "plain", args |-> <<a>>, then |-> <<>>]

(* What the evaluation of expression e for target i needs next. *)
JobsFor(frame, i, e, span) ==
  IF e.head = "applyByNode"
  THEN IF \E a \in Range(e.args) : FoundByArg(frame, a, span) # {}
       THEN <<Job(<<i>>, e.then, span, FALSE)>> ELSE <<>>
  ELSE FlattenSeq([k \in DOMAIN e.args |->
         SetToSeq({Job(<<i>>, <<Plain([name |-> e.args[k].name, fs |-> f.fs])>>, f.span, f.quiet) :
                     f \in RefetchesOf(frame, e.args[k], span)})])

(* The series it finds; fallbackSeries takes its second argument when the  *)
(* first has none. *)
FoundFor(frame, e, span) ==
  LET first == FoundByArg(frame, e.args[1], span) IN
  CASE e.head = "applyByNode" -> {}
    [] e.head = "fallbackSeries" /\ first # {} -> first
    [] OTHER -> UNION {FoundByArg(frame, a, span) : a \in Range(e.args)}

(* Evaluator.Eval, FetchAndEvalExprs: every expression of the job. *)
EvalJob(r, job, frame) ==
  LET refused == {j \in DOMAIN job.exprs : job.exprs[j].head = "invalid"}
      Jobs(j) == IF j \in refused THEN <<>> ELSE JobsFor(frame, job.of[j], job.exprs[j], job.span)
      found == [j \in DOMAIN job.exprs \ refused |-> FoundFor(frame, job.exprs[j], job.span)]
      stack == [r.stack EXCEPT ![Len(r.stack)].jobs = FlattenSeq([j \in DOMAIN job.exprs |-> Jobs(j)])]
      done == [r EXCEPT !.pc = "next", !.job = <<>>, !.stack = Unwind(stack),
                        !.results.found = [i \in DOMAIN @ |->
                           @[i] \cup UNION {found[j] : j \in {k \in DOMAIN found : job.of[k] = i}}]]
  IN IF refused = {} THEN done
     ELSE IF conf.combine THEN [done EXCEPT !.codes = @ \cup {400}]
     ELSE Fails(r, job, 400, r.stack)

Eval(c) ==
  LET job == rq[c].job[1] IN
  /\ rq[c].pc = "eval"
  /\ \A j \in DOMAIN job.exprs : job.exprs[j].head # "panics"
  /\ rq' = [rq EXCEPT ![c] = EvalJob(@, job, Top(c))]
  /\ UNCHANGED <<conf, now, left, answer, slots, respCache, backCache, writes>>

(* The handler recovers from a panic in a function. *)
EvalPanics(c) ==
  LET job == rq[c].job[1] IN
  /\ rq[c].pc = "eval"
  /\ \E j \in DOMAIN job.exprs : job.exprs[j].head = "panics"
  /\ Reply(c, 500, <<>>)
  /\ UNCHANGED <<conf, now, left, slots, respCache, backCache, writes>>

-----------------------------------------------------------------------------
(* Mutated form of StoreResults: errors do not keep results from being     *)
(* stored. *)
StoreResultsAnyway(c) ==
  LET r == rq[c] IN
  /\ r.pc = "next" /\ Top(c).jobs = <<>>
  /\ rq' = [rq EXCEPT ![c].pc = "reply"]
  /\ backCache' = Set(backCache, r.backKey, r.results, r.backTimeout)
  /\ writes' = SetLater({Write("back", r.backKey, r.results, r.backTimeout)})
  /\ UNCHANGED <<conf, now, left, answer, slots, respCache>>

(* backendCacheStoreResults, when all is evaluated without an error *)
StoreResults(c) ==
  LET r == rq[c]
      store == r.codes = {} /\ r.backTimeout > 0
  IN /\ r.pc = "next" /\ Top(c).jobs = <<>>
     /\ rq' = [rq EXCEPT ![c].pc = "reply"]
     /\ backCache' = IF store THEN Set(backCache, r.backKey, r.results, r.backTimeout)
                     ELSE backCache
     /\ writes' = SetLater(IF store THEN {Write("back", r.backKey, r.results, r.backTimeout)} ELSE {})
     /\ UNCHANGED <<conf, now, left, answer, slots, respCache>>

NoResults(r) == \A i \in DOMAIN r.results.found : r.results.found[i] = {}

(* The status of the response *)
ReturnCode(r) ==
  LET merged == MergedCode(r.codes) IN
  IF NoResults(r) \/ (r.codes # {} /\ conf.rsa)
  THEN IF merged = 404 THEN conf.notFound ELSE merged
  ELSE 200

(* Codes an error response is sent with; with any other the handler goes   *)
(* on. *)
Stops(code) == code \in {400, 403, 404} \/ code >= 500

(* first is the status it is sent with first. *)
Body(r) ==
  [targets |-> r.results.targets, points |-> r.results.points, span |-> r.results.span,
   found |-> r.results.found, lost |-> r.results.lost,
   format |-> r.req.format, view |-> r.req.view, first |-> ReturnCode(r)]

(* The response is written and, if it has series, stored, whatever its     *)
(* status. *)
Respond(c) ==
  LET r == rq[c]
      code == ReturnCode(r)
      store == ~Stops(code) /\ ~NoResults(r)
  IN /\ r.pc = "reply"
     /\ Reply(c, code, IF Stops(code) THEN <<>> ELSE Body(r))
     /\ respCache' = IF store THEN Set(respCache, r.respKey, Body(r), r.respTimeout)
                     ELSE respCache
     /\ writes' = SetLater(IF store THEN {Write("resp", r.respKey, Body(r), r.respTimeout)} ELSE {})
     /\ UNCHANGED <<conf, now, left, slots, backCache>>

(* A second passes; no request and no write takes longer than its bound. *)
Tick ==
  /\ now < Start + conf.ticks
  /\ \A c \in Clients : rq[c] # Idle => now - rq[c].since < Latency
  /\ \A w \in writes : now - w.since < Lag
  /\ now' = now + 1
  /\ UNCHANGED <<conf, rq, left, answer, slots, respCache, backCache, writes>>

Handle(c) ==
  \/ Reject(c) \/ AnswerCached(c) \/ EmptyRange(c) \/ Admit(c)
  \/ LookupHit(c) \/ LookupMiss(c)
  \/ ParseError(c) \/ Fetch(c) \/ Eval(c) \/ EvalPanics(c)
  \/ StoreResults(c) \/ Respond(c)

Next ==
  \/ \E c \in Clients : (\E req \in conf.requests : Send(c, req)) \/ Handle(c) \/ Enter(c) \/ GiveUp(c)
  \/ \E w \in writes : Land(w)
  \/ Tick

Spec == Init /\ [][Next]_vars

-----------------------------------------------------------------------------
Service == INSTANCE RenderService WITH
  asking <- [c \in Clients |-> IF rq[c] = Idle THEN <<>> ELSE [req |-> rq[c].req, since |-> rq[c].since]]

(* The handler with its caches, its limiter and the evaluator implements   *)
(* the render service: whatever two clients ask at the same time, an       *)
(* answer fits its request. *)
ImplementsService == Service!Spec

(* Functions for which the fetched and the looked up intervals differ: a   *)
(* moving window given as a negative interval, baseline functions, slo     *)
(* over a bucket longer than the interval, timeStack without its bounds,   *)
(* and an alignment under a shift that is not a multiple of its unit. *)
Agrees(fs, span) ==
  /\ \A k \in DOMAIN fs :
       /\ fs[k].fn \notin {"baseline", "timeStackDefault"}
       /\ fs[k].fn = "moving" => fs[k].by >= 0
       /\ fs[k].fn = "slo" =>
            /\ fs[k].by <= span.until - span.from
            /\ \A l \in DOMAIN fs : fs[l].fn \in {"forecast", "movingMedian", "aberration"} => fs[l].by >= 0
       /\ fs[k].fn = "align" => \A l \in 1..Len(fs) : l # k =>
            fs[l].fn = "slo" \/ fs[l].by % Day = 0

(* Every interval a function looks up in the map of series while a target  *)
(* is evaluated was wanted of the Fetch before: Metrics (parser.go) and    *)
(* the functions agree, also for nested functions and when other targets   *)
(* fetched some of it. *)
LookupsFetched ==
  \A c \in Clients : rq[c].pc = "eval" =>
    LET job == rq[c].job[1] IN
    \A j \in DOMAIN job.exprs : \A a \in Range(job.exprs[j].args) :
      Agrees(a.fs, job.span) =>
        \A l \in Lookups(a.fs, job.span) : Request(a.name, l) \in Top(c).keys

(* A series is looked up under the interval its backend was asked for,     *)
(* wherever the answer leaves no doubt about it (expr.go:103). *)
FiledRight ==
  \A c \in Clients : rq[c].pc = "eval" =>
    \A e \in Top(c).values : e.sure => e.key.span = e.span

(* A target that does without what cannot be fetched *)
Tolerant(t) ==
  t.head = "fallbackSeries" \/ \E a \in Range(t.args) : \E k \in DOMAIN a.fs : a.fs[k].fn = "emaPoints"

(* RequireSuccessAll is set and whatever fails is an error: no backend     *)
(* hides errors or has globs looked up by splitRequest (which drops those  *)
(* it does not find), none answers 204, the routing cache leaves none out, *)
(* and no function does without what it fetches.  A group among the        *)
(* backends that finds nothing fails the whole Fetch with 404; that is an  *)
(* error only if it has not been given another status. *)
Strict ==
  /\ conf.rsa /\ ~conf.tld /\ conf.globs = {} /\ "nocontent" \notin conf.faults
  /\ \A ch \in conf.children :
       IF ch.servers = {} THEN ch.proto \notin {"prometheus", "victoriametrics"}
       ELSE Stops(conf.notFound) /\ \A s \in ch.servers : s.proto \notin {"prometheus", "victoriametrics"}
  /\ \A t \in conf.targets : ~Tolerant(t)

(* With RequireSuccessAll a response with status 200 misses no series a    *)
(* backend holds, whether it comes from the backends or from a cache, with *)
(* one exception: a body that was first sent with the status of an error   *)
(* the handler does not stop at (401, 402, 429: render_handler.go:364) is  *)
(* stored all the same (413) and is the 200 of a later request.  Results   *)
(* that miss something are never stored before. *)
SuccessAllComplete ==
  Strict =>
    /\ \A c \in Clients : answer[c] # <<>> => (answer[c].code = 200 /\ answer[c].body.lost =>
         answer[c].body.first >= 400 /\ ~Stops(answer[c].body.first))
    /\ \A key \in DOMAIN backCache : ~backCache[key].value.lost

Waits(c) == HasJob(c) /\ Parses(NextJob(c)) /\ slots = 0

(* Open requests never all wait for a slot of the limiter that none of     *)
(* them will free, also when an evaluation fetches again: some handler has *)
(* a step to take. *)
SomeoneMoves ==
  (\E c \in Clients : rq[c] # Idle) => \E c \in Clients : rq[c] # Idle /\ ~Waits(c)
=============================================================================
