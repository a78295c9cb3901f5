------------------------------ MODULE MCGateway ------------------------------
(* Gateway for TLC.  A second is the unit, the "day" of an alignment two    *)
(* seconds.  Each scenario asks one question; quota is as small as it      *)
(* needs. *)
EXTENDS Gateway

Symmetric == Permutations(Clients)

Fn(fn, by) == [fn |-> fn, by |-> by]
Arg(name, fs) == [name |-> name, fs |-> fs]
Target(head, args) == [head |-> head, args |-> args, then |-> <<>>]
A == Target("plain", <<Arg("a", <<>>)>>)
B == Target("plain", <<Arg("b", <<>>)>>)
Of(fs) == Target("plain", <<Arg("a", fs)>>)
Time(kind, at) == [kind |-> kind, at |-> at]

Request1(targets) ==
  [targets |-> targets, from |-> Time("now", -2), until |-> Time("now", 0), tz |-> 0,
   format |-> "json", points |-> 0, view |-> "s", noCache |-> FALSE,
   cacheTimeout |-> <<>>, bad |-> FALSE, body |-> <<>>]

Child(proto, holds) == [proto |-> proto, holds |-> holds, batched |-> FALSE, servers |-> {}]
InBatches(child) == [child EXCEPT !.batched = TRUE]
Group(servers) ==
  [proto |-> "broadcast", holds |-> UNION {s.holds : s \in servers}, batched |-> FALSE, servers |-> servers]

Base ==
  [cache |-> "mem", lossy |-> FALSE, resp |-> [normal |-> 1, short |-> 0],
   back |-> [normal |-> 1, short |-> 0], shortDuration |-> 0, shortOffset |-> 0,
   truncate |-> 0, truncateOver |-> 0, rsa |-> FALSE, combine |-> FALSE, notFound |-> 404,
   slots |-> 1, children |-> {Child("carbonapi_v3_pb", {"a", "b"})}, faults |-> {}, tld |-> FALSE, globs |-> {},
   impatient |-> FALSE, requests |-> {Request1(<<A>>)}, targets |-> {}, quota |-> 2, ticks |-> 3]

WithTargets(s) ==
  LET asked == UNION {Range(TargetsOf(r)) : r \in s.requests}
      Then(ts) == ts \cup UNION {Range(t.then) : t \in ts}
  IN [s EXCEPT !.targets = Then(Then(asked))]

(* Two clients, requests that differ in one parameter, each cache. *)
Differing == LET r == Request1(<<A>>) IN
  {{r, [r EXCEPT !.points = 1]}, {r, [r EXCEPT !.until = Time("now", -1)]},
   {r, [r EXCEPT !.format = "csv"]}}

Caching ==
  {[Base EXCEPT !.requests = rs, !.quota = 3] : rs \in Differing} \cup
  {[Base EXCEPT !.quota = 3]} \cup
  {[Base EXCEPT !.cache = "memcached", !.requests = rs] : rs \in Differing} \cup
  {[Base EXCEPT !.truncate = 2, !.requests = rs, !.resp.short = 2, !.shortDuration = 4, !.shortOffset = 0] :
     rs \in Differing} \cup
  LET r == Request1(<<A>>) IN
  {[Base EXCEPT !.lossy = TRUE,
      !.requests = {[r EXCEPT !.cacheTimeout = <<2>>], [r EXCEPT !.noCache = TRUE]}],
   [Base EXCEPT !.cache = "memcached",
      !.requests = {[r EXCEPT !.noCache = TRUE], [r EXCEPT !.cacheTimeout = <<-1>>]}],
   [Base EXCEPT !.truncate = 2, !.truncateOver = 1,
      !.requests = {r, [r EXCEPT !.view = "ms"], [r EXCEPT !.from = Time("none", 0)]}],
   [Base EXCEPT !.requests = {[r EXCEPT !.from = Time("epoch", 17), !.until = Time("local", 20)],
                              [r EXCEPT !.until = Time("local", 20), !.tz = 1]}],
   [Base EXCEPT !.requests = {[r EXCEPT !.body = <<[targets |-> ts, span |-> Span(16, 18)]>>] :
                                ts \in {<<>>, <<B>>}} \cup {[r EXCEPT !.bad = TRUE]}]}

(* Faults of one or two backends, several targets, the ways to fail. *)
Mixed == {<<A, B>>, <<A, Target("invalid", <<Arg("b", <<>>)>>), B>>,
          <<Target("misconsolidated", <<Arg("a", <<>>)>>), B>>, <<Target("unparsable", <<>>), A>>, <<A, Target("panics", <<Arg("b", <<>>)>>)>>,
          <<Target("fallbackSeries", <<Arg("c", <<>>), Arg("a", <<>>)>>)>>}

Failing ==
  {[Base EXCEPT !.rsa = rsa, !.combine = comb, !.notFound = 200, !.quota = 1, !.ticks = 0,
      !.children = chs, !.faults = Faults, !.requests = {Request1(ts)}] :
     rsa \in BOOLEAN, comb \in BOOLEAN, ts \in Mixed,
     chs \in {{Child("carbonapi_v2_pb", {"a"}), Child("carbonapi_v3_pb", {"b"})},
              {Child("graphite", {"a", "b"})}, {Child("prometheus", {"a"})},
              {Child("irondb", {"a"}), Child("victoriametrics", {"b"})}}}

(* After a failure the caches are asked again. *)
FailingTwice ==
  {[Base EXCEPT !.rsa = rsa, !.faults = {"fail", "limited"}, !.requests = {Request1(<<A, B>>)}, !.ticks = 1,
      !.children = {Child("carbonapi_v2_pb", {"a", "b"})}] : rsa \in BOOLEAN}

(* A group among the backends, requests in batches, globs, routing. *)
Grouped ==
  LET V2 == Child("carbonapi_v2_pb", {"a"})
      V3 == Child("carbonapi_v3_pb", {"b"})
      Gr == Child("graphite", {"b"})
  IN {[Base EXCEPT !.rsa = rsa, !.notFound = nf, !.quota = 1, !.ticks = 0, !.tld = tld,
         !.globs = globs, !.children = chs, !.faults = faults, !.requests = {Request1(<<A, B>>)}] :
        rsa \in BOOLEAN, nf \in {200, 404}, tld \in BOOLEAN, globs \in {{}, {"b"}}, faults \in {{}, {"fail", "limited"}},
        chs \in {{V2, Group({V3})}, {InBatches(V2), Gr}, {InBatches(Group({V2, Gr})), InBatches(V3)}}}

(* Functions that ask for other intervals, alone, nested, side by side. *)
Functions1 == {Fn("timeShift", -2), Fn("timeStack", -1), Fn("timeStackDefault", -1), Fn("forecast", 3),
               Fn("movingMedian", 1), Fn("moving", 1), Fn("moving", -1), Fn("aberration", 2),
               Fn("align", 0), Fn("baseline", -1), Fn("slo", 3), Fn("movingPoints", 2), Fn("emaPoints", 1)}

Planned ==
  {[Base EXCEPT !.cache = "null", !.quota = 1, !.ticks = 0, !.combine = comb,
      !.children = {Child(proto, {"a", "b"})}, !.requests = {Request1(ts)}] :
     comb \in BOOLEAN, proto \in {"carbonapi_v2_pb", "carbonapi_v3_pb", "graphite", "victoriametrics"},
     ts \in {<<Of(<<f, g>>), Of(<<g>>)>> : f \in Functions1, g \in Functions1}}

(* Fetches of evaluations and the limit. *)
Rewritten == [head |-> "applyByNode", args |-> <<Arg("a", <<>>)>>, then |-> <<Of(<<Fn("movingPoints", 1)>>)>>]
Twice == [head |-> "applyByNode", args |-> <<Arg("b", <<>>)>>, then |-> <<Rewritten>>]

Nested ==
  {[Base EXCEPT !.cache = "null", !.ticks = 0, !.impatient = imp, !.combine = comb, !.requests = {Request1(ts)},
      !.faults = IF imp THEN {"fail"} ELSE {}] :
     imp \in BOOLEAN, comb \in BOOLEAN,
     ts \in {<<Rewritten, A>>, <<Twice>>, <<Of(<<Fn("movingPoints", 1)>>)>>, <<Of(<<Fn("emaPoints", 1)>>), A>>}}

(* No render request *)
NoRequests == WithTargets([Base EXCEPT !.quota = 0, !.ticks = 0])

AllScenarios ==
  {NoRequests} \cup {WithTargets(s) : s \in Caching \cup Failing \cup FailingTwice \cup Grouped \cup Planned \cup Nested}

-----------------------------------------------------------------------------
(* Components begin with the empty name and with themselves, "ab" with     *)
(* "a", "_tagged" with "_tag". *)
Components == {"a", "ab", "b", "_tag", "_tagged"}
AllBegins == {<<"", c>> : c \in Components} \cup {<<c, c>> : c \in Components} \cup {<<"a", "ab">>, <<"_tag", "_tagged">>}

Query(base, last, wild) == [base |-> base, last |-> last, wild |-> wild, dot |-> FALSE]
Star == Query(<<>>, "", TRUE)
InA == Query(<<"a">>, "", TRUE)
ExactA == Query(<<>>, "a", FALSE)

Server(id, speaks, holds, tags) ==
  [id |-> id, speaks |-> speaks, holds |-> holds, tags |-> tags, group |-> FALSE]
InGroup(server) == [server EXCEPT !.group = TRUE]

(* a is a leaf of one server and has metrics below it on the other. *)
One(speaks) == Server("s1", speaks, {<<"a">>, <<"a", "b">>, <<"_tag", "a">>, <<"_tagged">>}, {1, 3})
Two(speaks) == Server("s2", speaks, {<<"a", "a">>, <<"a", "b">>, <<"ab">>}, {2, 3})

Find(format, qs) == [op |-> "find", format |-> format, queries |-> qs]
Expand(leaves, qs) == [op |-> "expand", leavesOnly |-> leaves, queries |-> qs]
Info(qs) == [op |-> "info", queries |-> qs]
Tags(values, parameter, limit) ==
  [op |-> "tags", values |-> values, parameter |-> parameter, limit |-> limit]

AllCalls ==
  {Find(f, qs) : f \in {"tree", "list", "protobuf2", "protobuf3"}, qs \in {<<Star>>, <<InA, ExactA>>}} \cup
  {Expand(l, qs) : l \in BOOLEAN, qs \in {<<Star, InA>>, <<InA, InA>>}} \cup
  {Info(qs) : qs \in {<<InA>>, <<Star, InA>>}} \cup
  {[op |-> "bad"]} \cup {Tags(FALSE, "none", l) : l \in {-1, 0, 2}} \cup {Tags(TRUE, p, -1) : p \in {"tag", "Tag"}}

Site(servers, auto, faults, rsa, notFound, versions) ==
  [servers |-> servers, auto |-> auto, faults |-> faults, rsa |-> rsa, notFound |-> notFound,
   versions |-> versions, calls |-> AllCalls]

NoSite == [Site({}, FALSE, {}, FALSE, 404, {}) EXCEPT !.calls = {}]

V(minor, patch) == <<1, minor, patch>>
AllVersions == {<<v>> : v \in {<<>>, <<1, 54>>, V(41, 0), V(47, 1), V(54, 0)}} \cup
               {<<V(54, 0), V(41, 0)>>, <<V(47, 1), V(54, 2)>>, <<<<1, 54>>, V(54, 1)>>}

Usual == {"fail", "garbage", "missing", "refused"}

AllSites ==
  {NoSite} \cup
  {Site({One(p), Two(q)}, FALSE, faults, rsa, 404, {}) :
     p \in {"carbonapi_v2_pb", "graphite", "prometheus"},
     q \in {"carbonapi_v3_pb", "irondb", "carbonapi_v2_pb"},
     faults \in {{}, Usual}, rsa \in BOOLEAN} \cup
  {[Site({InGroup(One(p)), Two(q)}, FALSE, faults, rsa, nf, {}) EXCEPT
      !.calls = {c \in AllCalls : c.op = "tags" => c.limit # 0}] :
     p \in {"carbonapi_v2_pb", "graphite"}, q \in {"carbonapi_v3_pb"},
     faults \in {{}, {"limited", "nocontent"}}, rsa \in BOOLEAN, nf \in {200, 404}} \cup
  {Site({One("victoriametrics")}, FALSE, faults, FALSE, 200, AllVersions) : faults \in {{}, Usual}} \cup
  {Site({One("carbonapi_v3_pb"), Two("graphite")}, TRUE, {}, FALSE, 200, {})}

(* A behaviour has render requests or requests for names. *)
MCInit == GatewayInit /\ (conf = NoRequests \/ site = NoSite)
MCSpec == MCInit /\ [][GatewayNext]_<<vars, browseVars>>
=============================================================================
