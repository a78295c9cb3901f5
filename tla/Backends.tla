------------------------------ MODULE Backends ------------------------------
(***************************************************************************)
(* What a group of backends answers to a Fetch: the HTTP queries each      *)
(* protocol makes of it (zipper/protocols), what becomes of their answers, *)
(* the outcome of the group (zipper/broadcast) and of the zipper           *)
(* (zipper/zipper.go).                                                     *)
(*                                                                         *)
(* A child is a record [proto, holds, batched, servers]: holds are the     *)
(* metrics its servers have, batched whether its requests are limited      *)
(* (MaxBatchSize; batches of one metric here, module SplitRequest is about *)
(* others), servers the backends of a child that is a group itself         *)
(* (lbMethod "broadcast"), {} if it is none.                               *)
(* The fate of a query: "ok"; "missing", answered with 404, by a server    *)
(* without the metric; "fail", no server answered; "forbidden", "limited"  *)
(* and "nocontent", answered with 403, 429 and 204, statuses that are      *)
(* passed on; "garbage", the answer cannot be decoded; "refused", it       *)
(* reports an error (Prometheus API).                                      *)
(* Series are their name, the interval asked for and the interval the      *)
(* answer says was asked for.  An answer is [series, codes, lost]: codes   *)
(* of its errors, lost whether series that are held are missing.           *)
(*                                                                         *)
(* env has the children of the root group, the faults, rsa                 *)
(* (RequireSuccessAll), tld (the routing cache is in use) and globs, the   *)
(* names that are patterns.                                                *)
(***************************************************************************)
EXTENDS RenderRequest

Protocols == {"carbonapi_v2_pb", "carbonapi_v3_pb", "graphite", "prometheus",
              "victoriametrics", "irondb"}

IsBackend(child) == child.proto \in Protocols /\ child.servers = {}

IsGroup(child) ==
  /\ child.proto = "broadcast" /\ child.servers # {}
  /\ \A s \in child.servers : IsBackend(s)
  /\ child.holds = UNION {s.holds : s \in child.servers}

(* The queries of a Fetch, as sets of requests.  carbonapi_v3_pb sends one *)
(* for all; carbonapi_v2_pb one for each path expression and interval;     *)
(* victoriametrics, where it may use the Graphite API, one for each        *)
(* request; the others one for each metric, with the interval of the first *)
(* one. *)
QueriesV2(todo) == {{m} : m \in Range(todo)}
QueriesV3(todo) == {Range(todo)}
QueriesVm(todo) == {{m} : m \in Range(todo)}
QueriesGraphite(todo) == {{Request(m.name, todo[1].span)} : m \in Range(todo)}
QueriesPrometheus(todo) == {{Request(m.name, todo[1].span)} : m \in Range(todo)}
QueriesIrondb(todo) == {{Request(m.name, todo[1].span)} : m \in Range(todo)}

Queries(proto, todo) ==
  CASE proto = "carbonapi_v2_pb" -> QueriesV2(todo)
    [] proto = "carbonapi_v3_pb" -> QueriesV3(todo)
    [] proto = "victoriametrics" -> QueriesVm(todo)
    [] proto = "graphite"        -> QueriesGraphite(todo)
    [] proto = "prometheus"      -> QueriesPrometheus(todo)
    [] proto = "irondb"          -> QueriesIrondb(todo)

Echoes == {"carbonapi_v2_pb", "carbonapi_v3_pb", "victoriametrics"}

(* The code of the error of a query, 0 if it is none: the status of the    *)
(* backend, but a 404 gives an empty answer, which the msgpack decoder of  *)
(* graphite refuses, and the errors of irondb have none; prometheus and    *)
(* victoriametrics log an answer they cannot decode and go on. *)
StatusOf == [fail |-> 503, forbidden |-> 403, limited |-> 429, nocontent |-> 204]

CodeOf(proto, fate) ==
  CASE fate = "ok"      -> 0
    [] fate = "missing" -> IF proto = "graphite" THEN 500 ELSE 0
    [] fate = "garbage" -> IF proto \in {"prometheus", "victoriametrics"} THEN 0 ELSE 500
    [] fate = "refused" -> 500
    [] fate \in DOMAIN StatusOf -> IF proto = "irondb" THEN 500 ELSE StatusOf[fate]

Faults == {"missing", "garbage", "refused"} \cup DOMAIN StatusOf

(* The fates a query may have; faults are those that may happen at all. *)
Fates(child, query, faults) ==
  {"ok"} \cup {f \in faults :
    /\ f = "missing" => \A m \in query : m.name \notin child.holds
    /\ f = "refused" => child.proto \in {"prometheus", "victoriametrics"}
    /\ f \in {"missing", "garbage"} => child.proto # "irondb"}

SeriesOf(child, query) ==
  {[name |-> m.name, span |-> m.span,
    echo |-> IF child.proto \in Echoes THEN m.span ELSE NoSpan] :
     m \in {r \in query : r.name \in child.holds}}

(* The answer of a child: the series of the queries that went well, none   *)
(* if the only query of carbonapi_v3_pb failed; its error is the combined  *)
(* error of the queries, with the code of any of them. *)
FetchChild(child, fate) ==
  LET codes == {CodeOf(child.proto, fate[q]) : q \in DOMAIN fate} \ {0} IN
  {[series |-> UNION {SeriesOf(child, q) : q \in {r \in DOMAIN fate : fate[r] = "ok"}},
    codes  |-> code,
    lost   |-> \E q \in DOMAIN fate : fate[q] # "ok" /\ SeriesOf(child, q) # {}] :
     code \in IF codes = {} THEN {{}} ELSE {{c} : c \in codes}}

ProtocolAnswers(child, queries, faults) ==
  UNION {FetchChild(child, fate) :
           fate \in {f \in [queries -> {"ok"} \cup faults] :
                       \A q \in queries : f[q] \in Fates(child, q, faults)}}

-----------------------------------------------------------------------------
(* Several answers as one: ServerFetchResponse.Merge of different metrics  *)
Joined(answers) ==
  [series |-> UNION {a.series : a \in answers},
   codes  |-> UNION {a.codes : a \in answers},
   lost   |-> \E a \in answers : a.lost]

(* One answer of each *)
Picks(answersOf) ==
  {f \in [DOMAIN answersOf -> UNION Range(answersOf)] : \A x \in DOMAIN answersOf : f[x] \in answersOf[x]}

(* Requests these children are not asked *)
Unasked(children, requests) ==
  [series |-> {}, codes |-> {}, lost |-> \E ch \in children, m \in requests : m.name \in ch.holds]

(* The code of splitRequest when nothing is left to ask for: of the last   *)
(* Find, of its own "no result fetched", or none after an empty answer. *)
FindCodes(child, faults) ==
  {c \in {0, 404, 500} : /\ c = 0 => child.proto \in {"graphite", "victoriametrics", "broadcast"}
                         /\ c = 404 => child.proto = "broadcast"}
  \cup {CodeOf(child.proto, f) : f \in faults}

(* splitRequest finds the metrics of a glob, those of one without metrics  *)
(* or whose Find fails are none: it is left out, and its error counts only *)
(* when nothing else is asked for.  answersOf has the answers to each of   *)
(* the requests alone. *)
Batched(env, child, answersOf) ==
  LET requests == DOMAIN answersOf
      Unfound(left) == \A m \in requests \ left : m.name \in env.globs /\ (m.name \in child.holds => env.faults # {})
      Rest(left) == Unasked({child}, requests \ left)
  IN UNION {IF left = {} THEN {[Rest(left) EXCEPT !.codes = {c} \ {0}] : c \in FindCodes(child, env.faults)}
            ELSE {Joined({Rest(left)} \cup Range(pick)) : pick \in Picks([m \in left |-> answersOf[m]])} :
            left \in {l \in SUBSET requests : Unfound(l)}}

(* MergeHttpErrors, MergeHttpErrorMap: the lowest code that is not 404;    *)
(* module HttpErrors is about how they come to it. *)
MergedCode(codes) == IF codes \subseteq {404} THEN 404 ELSE Min(codes \ {404})

(* BroadcastGroup.Fetch: the series, or an error if there are none or if   *)
(* it has errors with RequireSuccessAll.  ErrNonFatalErrors beside series  *)
(* has the code 500. *)
FetchGroup(all, rsa) ==
  IF all.series = {} \/ (rsa /\ all.codes # {})
  THEN [series |-> {}, codes |-> {MergedCode(all.codes)}, lost |-> all.lost \/ all.series # {}]
  ELSE [all EXCEPT !.codes = IF @ = {} THEN {} ELSE {500}]

(* filterServersByTLD leaves some children, module TldRouting tells which. *)
GroupAnswers(env, answersOf, todo) ==
  UNION {{FetchGroup(Joined({Unasked(DOMAIN answersOf \ asked, Range(todo))} \cup Range(pick)), env.rsa) :
            pick \in Picks([ch \in asked |-> answersOf[ch]])} :
         asked \in IF env.tld THEN SUBSET DOMAIN answersOf \ {{}} ELSE {DOMAIN answersOf}}

ServerAnswers(env, s, todo) ==
  IF s.batched THEN Batched(env, s, [m \in Range(todo) |-> ProtocolAnswers(s, {{m}}, env.faults)])
  ELSE ProtocolAnswers(s, Queries(s.proto, todo), env.faults)

NestedAnswers(env, group, todo) ==
  GroupAnswers(env, [s \in group.servers |-> ServerAnswers(env, s, todo)], todo)

(* A group that is asked in batches does not see globs. *)
Globless(env) == [faults |-> env.faults, rsa |-> env.rsa, tld |-> env.tld, globs |-> {}]

ChildAnswers(env, child, todo) ==
  CASE child.servers = {} -> ServerAnswers(env, child, todo)
    [] child.servers # {} /\ ~child.batched -> NestedAnswers(env, child, todo)
    [] child.servers # {} /\ child.batched ->
         Batched(env, child, [m \in Range(todo) |-> NestedAnswers(Globless(env), child, <<m>>)])

(* zipper.Render, FetchProtoV3: what the evaluator may get for the         *)
(* requests todo.  Errors beside series get the code 200. *)
Fetched(answer) ==
  [series |-> answer.series, lost |-> answer.lost,
   code |-> IF answer.series = {} THEN Min(answer.codes) ELSE 0]

Outcomes(env, todo) ==
  {Fetched(a) : a \in GroupAnswers(env, [ch \in env.children |-> ChildAnswers(env, ch, todo)], todo)}
=============================================================================
