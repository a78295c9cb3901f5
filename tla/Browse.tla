------------------------------- MODULE Browse -------------------------------
(***************************************************************************)
(* Requests for names: /metrics/find, /metrics/expand, /info and the tag   *)
(* autocompletion (cmd/carbonapi/http) over a group of backends: what each *)
(* protocol makes of them (zipper/protocols), how the group merges the     *)
(* answers as they arrive (zipper/types/response.go,                       *)
(* zipper/broadcast/broadcast_group.go) and what the zipper makes of it    *)
(* (zipper/zipper.go).  Also what the group is made of: the protocols an   *)
(* "auto" group finds its servers to speak (zipper/protocols/auto) and the *)
(* features of VictoriaMetrics it may use (protocols/victoriametrics).     *)
(*                                                                         *)
(* A path is a sequence of components.  A query [base, last, wild, dot]    *)
(* asks for the paths of one component more than base whose last is the    *)
(* component last or, if wild, begins with it; last "" is the empty name.  *)
(* A match is [path, leaf].  Tags and their values are numbers, in their   *)
(* order.                                                                  *)
(*                                                                         *)
(* site is the configuration of one behaviour: its servers [id, speaks,    *)
(* holds, tags, group], whether their protocol is found out (auto), the    *)
(* faults of their answers, rsa, notFound, the versions of VictoriaMetrics *)
(* that are answered, and the calls to come.  A server with group is the   *)
(* only one of a group (lbMethod "broadcast") among the backends.          *)
(***************************************************************************)
EXTENDS Backends

CONSTANTS Sites,
          Begins      \* <<p, c>>: the component c begins with p

(* A version is the sequence of its numbers as far as they were understood *)
(* (feature_set.go:30-63): none, the first, which is 1 (v1), the minor and *)
(* the patch number. *)
IsVersion(v) == v \in Seq(Int) /\ Len(v) <= 3 /\ (v # <<>> => v[1] = 1)

(* What a site is made of.  Limits are numbers (ParseInt of the            *)
(* parameter); a request without a query is a bad one.  A group among the  *)
(* backends does not survive a limit below 1: its goroutine panics (see    *)
(* TagHandler). *)
ASSUME BrowseAssumption ==
  \A s \in Sites :
    /\ \A versions \in s.versions : versions \in Seq(Range(versions)) /\ \A v \in Range(versions) : IsVersion(v)
    /\ s.faults \subseteq Faults
    /\ s.notFound \in Int
    /\ \A v \in s.servers :
         /\ v.speaks \in Protocols
         /\ v.group => ~s.auto /\ \A c \in s.calls : c.op = "tags" => c.limit = -1 \/ c.limit >= 1
         /\ IsFiniteSet(v.holds)
         /\ IsFiniteSet(v.tags) /\ v.tags \subseteq Int
         /\ \A w \in s.servers : w.id = v.id => w = v
    /\ \A c \in s.calls :
         /\ c.op \in {"bad", "find", "expand", "info", "tags"}
         /\ c.op = "tags" => c.limit \in Int
         /\ c.op = "find" => c.format \in {"tree", "list", "protobuf2", "protobuf3"}
         /\ c.op \in {"find", "expand", "info"} =>
              c.queries # <<>> /\ c.queries \in Seq(Range(c.queries))

VARIABLES site,
          stage,      \* "off", or "start", "ready", then "find", "info", "tags", "end"
          children,   \* the backends of the group
          features,   \* of VictoriaMetrics: the features in use
          call,       \* the request
          pending,    \* children that have not answered yet
          acc,        \* the merged response
          failed,     \* codes of the errors met
          names,      \* names to ask /info for
          delivered,  \* all that children answered
          reply

browseVars == <<site, stage, children, features, call, pending, acc, failed, names, delivered, reply>>

-----------------------------------------------------------------------------
(* versionToFeatureSet: the features are known from a whole version. *)
FeatureSet(v) ==
  LET whole == Len(v) = 3 IN
  [version  |-> v,
   find     |-> whole /\ v[2] >= 42,
   tags     |-> whole /\ v[2] >= 47,
   fetch    |-> whole /\ (v[2] > 53 \/ (v[2] = 53 /\ v[3] >= 1))]

(* versionParsed: what was not understood is 0. *)
Parsed(v) == [i \in 1..3 |-> IF i <= Len(v) THEN v[i] ELSE 0]

(* Mutated form of Older: the newest version counts. *)
OlderSwapped(min, v) == \E i \in 1..3 : Parsed(min)[i] < Parsed(v)[i]

Older(min, v) == \E i \in 1..3 : Parsed(min)[i] > Parsed(v)[i]

(* updateFeatureSet over the versions that were answered, the configured   *)
(* fallback for one that is not in the answer *)
MinVersion(versions) ==
  FoldLeft(LAMBDA min, v : IF Older(min, v) THEN v ELSE min, versions[1], versions)

UpdateFeatureSet(versions) ==
  /\ stage = "ready"
  /\ versions # <<>>
  /\ features' = FeatureSet(MinVersion(versions))
  /\ UNCHANGED <<site, stage, children, call, pending, acc, failed, names, delivered, reply>>

(* getBestSupportedProtocol, New: a server that cannot be asked for its    *)
(* capabilities is taken to speak the old protocol, one that answers too   *)
(* late is left out for good.  No two servers of a site speak the same     *)
(* protocol, so that each becomes a backend of its own. *)
OldProtocol == "carbonapi_v2_pb"

DoCapabilityQuery(s, out) ==
  IF out = "late" THEN {}
  ELSE {[id |-> s.id, holds |-> s.holds, tags |-> s.tags, group |-> s.group,
         proto |-> IF out = "fail" THEN OldProtocol ELSE s.speaks]}

(* NewZipper creates the backends. *)
NewZipper ==
  /\ stage = "start"
  /\ \E out \in [site.servers -> IF site.auto THEN {"ok", "fail", "late"} ELSE {"ok"}] :
       children' = UNION {DoCapabilityQuery(s, out[s]) : s \in site.servers}
  /\ stage' = "ready"
  /\ UNCHANGED <<site, features, call, pending, acc, failed, names, delivered, reply>>

-----------------------------------------------------------------------------
(* Find *)
Fits(q, h) ==
  LET n == Len(q.base) IN
  /\ Len(h) > n
  /\ SubSeq(h, 1, n) = q.base
  /\ h[n + 1] = q.last \/ (q.wild /\ <<q.last, h[n + 1]>> \in Begins)

(* What a server that has the metrics answers *)
Served(child, q) ==
  {[path |-> SubSeq(h, 1, Len(q.base) + 1), leaf |-> Len(h) = Len(q.base) + 1] :
     h \in {g \in child.holds : Fits(q, g)}}

Glob(name, matches) == [name |-> name, matches |-> matches]

Answered(metrics, codes) == [metrics |-> metrics, codes |-> codes \ {0}]

(* Names without matches are left out. *)
Matching(globs) ==
  FlattenSeq([k \in DOMAIN globs |-> IF globs[k].matches # {} THEN <<globs[k]>> ELSE <<>>])

CodesOf(proto, fate) == {CodeOf(proto, fate[k]) : k \in DOMAIN fate}

(* One query for each name; after an error nothing is returned. *)
FindV2(child, qs, fate) ==
  LET globs == [k \in DOMAIN qs |-> Glob(qs[k], IF fate[k] = "ok" THEN Served(child, qs[k]) ELSE {})]
      codes == CodesOf("carbonapi_v2_pb", fate) \ {0}
  IN Answered(IF codes = {} THEN Matching(globs) ELSE <<>>, codes)

(* One query for all names *)
FindV3(child, qs, fate) ==
  LET globs == [k \in DOMAIN qs |-> Glob(qs[k], Served(child, qs[k]))]
  IN Answered(IF fate[1] = "ok" THEN Matching(globs) ELSE <<>>,
              {CodeOf("carbonapi_v3_pb", fate[1])})

(* One query for each name; what was answered is returned beside errors. *)
Each(qs, fate, G(_)) ==
  FlattenSeq([k \in DOMAIN qs |-> IF fate[k] = "ok" THEN G(qs[k]) ELSE <<>>])

FindGraphite(child, qs, fate) ==
  Answered(Each(qs, fate, LAMBDA q : <<Glob(q, Served(child, q))>>), CodesOf("graphite", fate))

(* "*" becomes "*." *)
FindVm(child, qs, fate) ==
  LET Dotted(q) == IF q.base = <<>> /\ q.last = "" THEN [q EXCEPT !.dot = TRUE] ELSE q
  IN Answered(Each(qs, fate, LAMBDA q : <<Glob(Dotted(q), Served(child, q))>>),
              {IF fate[k] \in {"missing", "garbage"} THEN 500 ELSE CodeOf("victoriametrics", fate[k]) :
                 k \in DOMAIN qs})

(* The response is appended for every match, with the matches so far.  The *)
(* order is that of a map or of the answer. *)
Growing(name, matches) ==
  LET order == SetToSeq(matches) IN
  [i \in DOMAIN order |-> Glob(name, {order[j] : j \in 1..i})]

(* Every name is asked for as a prefix.  The paths of all queries are      *)
(* collected in one map, with one flag: a path that is a leaf and has      *)
(* others below it is either, as they come in the answer. *)
FindPrometheus(child, qs, fate, leaf) ==
  LET Wild(q) == [q EXCEPT !.wild = TRUE]
      Unique(k) == UNION {Served(child, Wild(qs[j])) : j \in {i \in 1..k : fate[i] = "ok"}}
      Flagged(ms) == {m \in ms : m.leaf = leaf \/ [m EXCEPT !.leaf = leaf] \notin ms}
  IN Answered(FlattenSeq([k \in DOMAIN qs |->
                IF fate[k] = "ok" THEN Growing(Wild(qs[k]), Flagged(Unique(k))) ELSE <<>>]),
              CodesOf("prometheus", fate))

FindIrondb(child, qs, fate) ==
  Answered(Each(qs, fate, LAMBDA q : Growing(q, Served(child, q))), CodesOf("irondb", fate))

FindServer(child, qs, fate, leaf) ==
  CASE child.proto = "carbonapi_v2_pb" -> FindV2(child, qs, fate)
    [] child.proto = "carbonapi_v3_pb" -> FindV3(child, qs, fate)
    [] child.proto = "graphite"        -> FindGraphite(child, qs, fate)
    [] child.proto = "victoriametrics" -> IF features.find THEN FindVm(child, qs, fate)
                                          ELSE FindPrometheus(child, qs, fate, leaf)
    [] child.proto = "prometheus"      -> FindPrometheus(child, qs, fate, leaf)
    [] child.proto = "irondb"          -> FindIrondb(child, qs, fate)

(* Mutated form of MergeFind: a path is taken once, as a leaf or not. *)
MergeFindByPath(first, second) ==
  LET Index(name) == {i \in DOMAIN first : first[i].name = name}
      Seen(globs, name) == UNION {globs[i].matches : i \in {j \in DOMAIN globs : globs[j].name = name}}
      Step(globs, g) ==
        IF Index(g.name) = {} THEN Append(globs, g)
        ELSE [globs EXCEPT ![Max(Index(g.name))].matches =
                @ \cup {m \in g.matches : \A s \in Seen(globs, g.name) : s.path # m.path}]
  IN FoldLeft(Step, first, second)

(* ServerFindResponse.Merge: names that first did not have are appended,   *)
(* new matches of the others are added to the last one of that name. *)
MergeFind(first, second) ==
  LET Index(name) == {i \in DOMAIN first : first[i].name = name}
      Seen(globs, name) == UNION {globs[i].matches : i \in {j \in DOMAIN globs : globs[j].name = name}}
      Step(globs, g) ==
        IF Index(g.name) = {} THEN Append(globs, g)
        ELSE [globs EXCEPT ![Max(Index(g.name))].matches = @ \cup (g.matches \ Seen(globs, g.name))]
  IN FoldLeft(Step, first, second)

(* A group answers its error if it has found nothing or counts all of      *)
(* them, 404 if it found nothing without one, else what it found, with the *)
(* error ErrNonFatalErrors beside it (500). *)
GroupFind(a) ==
  IF a.codes # {} /\ (a.metrics = <<>> \/ site.rsa) THEN Answered(<<>>, a.codes)
  ELSE IF a.metrics = <<>> THEN Answered(<<>>, {404})
  ELSE Answered(MergeFind(<<>>, a.metrics), IF a.codes = {} THEN {} ELSE {500})

FindChild(child, qs, fate, leaf) ==
  LET a == FindServer(child, qs, fate, leaf) IN IF child.group THEN GroupFind(a) ELSE a

FindFates(child, qs) ==
  {f \in [DOMAIN qs -> {"ok"} \cup site.faults] :
     \A k \in DOMAIN qs :
       /\ child.proto = "carbonapi_v3_pb" => f[k] = f[1]
       /\ f[k] = "missing" => Served(child, [qs[k] EXCEPT !.wild = TRUE]) = {}
       /\ f[k] = "refused" => child.proto \in {"prometheus", "victoriametrics"}
       /\ f[k] \in {"missing", "garbage"} => child.proto # "irondb"}

AllMatches(globs) == UNION {globs[i].matches : i \in DOMAIN globs}

(* A request the handlers refuse: an unknown format, no query, one that is *)
(* too long, a body that cannot be read. *)
Refuse(c) ==
  /\ stage = "ready" /\ c.op = "bad"
  /\ call' = c
  /\ stage' = "end" /\ reply' = [code |-> 400, what |-> {}]
  /\ UNCHANGED <<site, children, features, pending, acc, failed, names, delivered>>

(* A request arrives. *)
Call(c) ==
  /\ stage = "ready" /\ c.op # "bad"
  /\ call' = c
  /\ stage' = IF c.op = "tags" THEN "tags" ELSE "find"
  /\ pending' = children
  /\ acc' = IF c.op = "tags" THEN {} ELSE <<>>
  /\ failed' = {} /\ delivered' = {}
  /\ UNCHANGED <<site, children, features, names, reply>>

(* The group receives what a child found. *)
ArriveFind(ch) ==
  /\ stage = "find" /\ ch \in pending
  /\ \E fate \in FindFates(ch, call.queries), leaf \in BOOLEAN :
       LET a == FindChild(ch, call.queries, fate, leaf) IN
       /\ acc' = MergeFind(acc, a.metrics)
       /\ delivered' = delivered \cup AllMatches(a.metrics)
       /\ IF a.codes = {} THEN failed' = failed
          ELSE \E code \in a.codes : failed' = failed \cup {code}
  /\ pending' = pending \ {ch}
  /\ UNCHANGED <<site, stage, children, features, call, names, reply>>

(* BroadcastGroup.Find: the code of its error, 0 if there are matches; 404 *)
(* is no error beside matches (MergeHttpErrors skips it).  FindProtoV3     *)
(* gives errors beside matches the code 200. *)
FindGroup ==
  IF acc = <<>> \/ (site.rsa /\ failed \ {404} # {}) THEN MergedCode(failed) ELSE 0

(* The status a handler answers with, 200 for a NotFoundStatusCode below   *)
(* 300 *)
Status(code) ==
  CASE code = 0   -> 200
    [] code = 404 -> site.notFound
    [] OTHER      -> code

(* Paths that begin with "_tag" *)
Hidden(m) == <<"_tag", Head(m.path)>> \in Begins
Visible(matches) == {m \in matches : ~Hidden(m)}
Found == IF FindGroup = 0 THEN AllMatches(acc) ELSE {}

(* findTreejson: one node for each last component (text), of the first     *)
(* match that comes with it; its id is made of the name of that glob.  The *)
(* matches of one glob come in the order of the answers. *)
FindTrees ==
  LET globs == IF FindGroup = 0 THEN acc ELSE <<>>
      Texts(k) == {Last(m.path) : m \in Visible(globs[k].matches)}
      New(k) == {m \in Visible(globs[k].matches) : \A j \in 1..(k - 1) : Last(m.path) \notin Texts(j)}
      Nodes(k) == {[base |-> globs[k].name.base, dot |-> globs[k].name.dot,
                    text |-> Last(m.path), leaf |-> m.leaf] : m \in New(k)}
  IN {tree \in SUBSET UNION {Nodes(k) : k \in DOMAIN globs} :
        \A m \in Visible(Found) : \E n \in tree : {o \in tree : o.text = Last(m.path)} = {n}}

(* findCompleter, findList and pickle show all but what is hidden,         *)
(* protobuf all. *)
FindList == Visible(Found)
FindProto == Found

(* expandEncoder: of each name the paths no name before had; a name that   *)
(* comes again replaces what it had. *)
ExpandGroups(leavesOnly) ==
  LET Paths(g) == {m.path : m \in {x \in g.matches : leavesOnly => x.leaf}}
      Step(s, g) == [seen |-> s.seen \cup Paths(g),
                     groups |-> [s.groups EXCEPT ![g.name] = Paths(g) \ s.seen]]
  IN FoldLeft(Step, [seen |-> {}, groups |-> [n \in {acc[i].name : i \in DOMAIN acc} |-> {}]], acc).groups

Expanded(leavesOnly) ==
  IF FindGroup # 0 THEN {}
  ELSE LET groups == ExpandGroups(leavesOnly) IN UNION {groups[n] : n \in DOMAIN groups}

Answer(code, what) ==
  /\ reply' = [code |-> code, what |-> what]
  /\ stage' = "end"

(* findHandler.  For protobuf v2 the first name of the response is read,   *)
(* also when there is none: the handler panics. *)
FindHandler ==
  LET code == Status(FindGroup) IN
  /\ stage = "find" /\ call.op = "find" /\ pending = {}
  /\ \/ code >= 300 /\ Answer(code, {})
     \/ code < 300 /\ call.format = "tree" /\ \E tree \in FindTrees : Answer(200, tree)
     \/ code < 300 /\ call.format = "list" /\ Answer(200, FindList)
     \/ code < 300 /\ call.format = "protobuf2" /\ FindGroup # 0 /\ Answer(0, {})
     \/ code < 300 /\ call.format = "protobuf2" /\ FindGroup = 0 /\ Answer(200, FindProto)
     \/ code < 300 /\ call.format = "protobuf3" /\ Answer(200, FindProto)
  /\ UNCHANGED <<site, children, features, call, pending, acc, failed, names, delivered>>

ExpandHandler ==
  /\ stage = "find" /\ call.op = "expand" /\ pending = {}
  /\ LET code == Status(FindGroup) IN
     IF code >= 300 THEN Answer(code, {}) ELSE Answer(200, Expanded(call.leavesOnly))
  /\ UNCHANGED <<site, children, features, call, pending, acc, failed, names, delivered>>

-----------------------------------------------------------------------------
(* InfoProtoV3: the leaves that were found are asked for; after an error,  *)
(* also one beside matches, the names of the request as they are. *)
AskInfo ==
  /\ stage = "find" /\ call.op = "info" /\ pending = {}
  /\ names' = IF FindGroup = 0 /\ failed = {} THEN {m.path : m \in {f \in AllMatches(acc) : f.leaf}}
              ELSE {Append(q.base, q.last) : q \in Range(call.queries)}
  /\ stage' = "info"
  /\ pending' = children
  /\ acc' = [ch \in {} |-> {}] /\ failed' = {}
  /\ UNCHANGED <<site, children, features, call, delivered, reply>>

(* Info of a child.  carbonapi_v2_pb and graphite ask for one name after   *)
(* the other; a name the servers do not have gives an entry without name.  *)
(* carbonapi_v3_pb asks for all at once.  The others do not support it. *)
NoName == <<>>

InfoV2(ch) == {IF n \in ch.holds THEN n ELSE NoName : n \in names}
InfoGraphite(ch) == InfoV2(ch)
InfoV3(ch) == names \cap ch.holds

InfoProtocols == {"carbonapi_v2_pb", "carbonapi_v3_pb", "graphite"}

InfoOf(ch) ==
  CASE ch.proto = "carbonapi_v2_pb" -> InfoV2(ch)
    [] ch.proto = "carbonapi_v3_pb" -> InfoV3(ch)
    [] ch.proto = "graphite"        -> InfoGraphite(ch)

(* Mutated form of MergeInfo: the last server's answer is all. *)
MergeInfoLast(first, id, metrics) == [k \in {id} |-> metrics]

(* ServerInfoResponse.Merge *)
MergeInfo(first, id, metrics) ==
  [k \in DOMAIN first \cup {id} |-> IF k = id THEN metrics ELSE first[k]]

(* What a child answers beside an error is left out: infoHandler drops it. *)
ArriveInfo(ch) ==
  /\ stage = "info" /\ ch \in pending
  /\ \/ /\ ch.proto \in InfoProtocols
        /\ acc' = MergeInfo(acc, ch.id, InfoOf(ch))
        /\ failed' = failed
     \/ /\ ch.proto \notin InfoProtocols \/ site.faults # {}
        /\ failed' = failed \cup {500}
        /\ acc' = acc
  /\ pending' = pending \ {ch}
  /\ UNCHANGED <<site, stage, children, features, call, names, delivered, reply>>

(* infoHandler: any error is an internal one. *)
InfoHandler ==
  /\ stage = "info" /\ pending = {}
  /\ IF failed # {} THEN Answer(500, {}) ELSE Answer(200, acc)
  /\ UNCHANGED <<site, children, features, call, pending, acc, failed, names, delivered>>

-----------------------------------------------------------------------------
(* Tags: names of tags and values of one.  The answers a child may give,   *)
(* none if it refuses the request. *)
Smallest(n, S) == {x \in S : Cardinality({y \in S : y < x}) < n}

(* The query is passed on, the server sorts and cuts. *)
TagsPassed(ch) == {IF call.limit < 1 THEN ch.tags ELSE Smallest(call.limit, ch.tags)}

(* The answer is cut as it comes. *)
TagsCut(ch) ==
  IF call.limit < 1 THEN {ch.tags} ELSE kSubset(Min({call.limit, Cardinality(ch.tags)}), ch.tags)

(* The tag whose values are asked for is the parameter "Tag" of            *)
(* prometheus, "tag" of irondb. *)
TagsPrometheus(ch) == IF call.values /\ call.parameter # "Tag" THEN {} ELSE TagsCut(ch)
TagsIrondb(ch) == IF call.values /\ call.parameter # "tag" THEN {} ELSE TagsCut(ch)
TagsVm(ch) == IF features.tags THEN TagsPassed(ch) ELSE TagsPrometheus(ch)

TagsOf(ch) ==
  CASE ch.proto = "prometheus"      -> TagsPrometheus(ch)
    [] ch.proto = "victoriametrics" -> TagsVm(ch)
    [] ch.proto = "irondb"          -> TagsIrondb(ch)
    [] OTHER                        -> TagsPassed(ch)

ArriveTags(ch) ==
  /\ stage = "tags" /\ ch \in pending
  /\ \/ /\ \E part \in TagsOf(ch) : acc' = acc \cup part /\ delivered' = delivered \cup part
        /\ failed' = failed
     \/ /\ TagsOf(ch) = {}
        /\ failed' = failed \cup {500}
        /\ UNCHANGED <<acc, delivered>>
     \/ /\ TagsOf(ch) # {}
        /\ \E f \in site.faults \ {"refused"} :
             failed' = failed \cup {IF f \in {"missing", "garbage"} THEN 500 ELSE CodeOf(ch.proto, f)}
        /\ UNCHANGED <<acc, delivered>>
  /\ pending' = pending \ {ch}
  /\ UNCHANGED <<site, stage, children, features, call, names, reply>>

(* Mutated form of CutTags: the list is cut before it is sorted. *)
CutTagsUnsorted(tags, limit) ==
  LET n == limit - 1 IN
  {x \in tags : Cardinality({y \in tags : y > x}) < n}

(* The cut of tagEverything: one less than the limit *)
CutTags(tags, limit) == Smallest(limit - 1, tags)

(* tagHandler.  A limit of 0 or below -1 is an index out of range: the     *)
(* handler panics. *)
TagHandler ==
  LET over == call.limit # -1 /\ Cardinality(acc) > call.limit IN
  /\ stage = "tags" /\ pending = {}
  /\ \/ over /\ call.limit < 1 /\ Answer(0, {})
     \/ ~(over /\ call.limit < 1) /\ site.rsa /\ failed # {} /\ Answer(MergedCode(failed), {})
     \/ /\ ~(over /\ call.limit < 1) /\ ~(site.rsa /\ failed # {})
        /\ Answer(200, IF over THEN CutTags(acc, call.limit) ELSE acc)
  /\ UNCHANGED <<site, children, features, call, pending, acc, failed, names, delivered>>

-----------------------------------------------------------------------------
BrowseInit ==
  /\ site \in Sites
  /\ stage = IF site.servers = {} THEN "off" ELSE "start"
  /\ children = {}
  /\ features = FeatureSet(<<>>)
  /\ call = <<>> /\ pending = {} /\ acc = {} /\ failed = {} /\ names = {} /\ delivered = {}
  /\ reply = <<>>

BrowseNext ==
  \/ NewZipper
  \/ \E versions \in site.versions : UpdateFeatureSet(versions)
  \/ \E c \in site.calls : Refuse(c) \/ Call(c)
  \/ \E ch \in pending : ArriveFind(ch) \/ ArriveInfo(ch) \/ ArriveTags(ch)
  \/ FindHandler \/ ExpandHandler \/ AskInfo \/ InfoHandler \/ TagHandler

BrowseSpec == BrowseInit /\ [][BrowseNext]_browseVars

Replied(op) == stage = "end" /\ call.op = op /\ reply.code = 200

(* An answer 204 is the error of a child, and with RequireSuccessAll of    *)
(* the Find, but a status the handler takes for a 200 without matches. *)
Muted == site.rsa /\ "nocontent" \in site.faults

(* What the backends answered to a find or expand is merged without loss,  *)
(* whatever the order of the answers: the list and protobuf formats show   *)
(* each match that any of them answered, leaf and branch of the same path  *)
(* included, and nothing else.  The tree (the default format) shows less   *)
(* and cannot show more: each last component once, as a leaf or a branch   *)
(* that was answered; which one, if there are several, of a path or of     *)
(* different ones, depends on the order.  expand shows the paths of all    *)
(* matches, for names asked once of protocols that return each name once   *)
(* (a name that comes again replaces what it had). *)
FoundIsShown ==
  /\ Replied("find") /\ ~Muted =>
       CASE call.format = "list" -> reply.what = Visible(delivered)
         [] call.format \in {"protobuf2", "protobuf3"} -> reply.what = delivered
         [] call.format = "tree" ->
              /\ \A m \in Visible(delivered) :
                   \E n \in reply.what : {o \in reply.what : o.text = Last(m.path)} = {n}
              /\ \A n \in reply.what :
                   \E m \in Visible(delivered) : n.text = Last(m.path) /\ n.leaf = m.leaf
  /\ Replied("expand") /\ ~Muted /\ IsInjective(call.queries)
       /\ (\A ch \in children : ch.proto \notin {"prometheus", "victoriametrics", "irondb"}) =>
         reply.what = {m.path : m \in {d \in delivered : call.leavesOnly => d.leaf}}

(* A successful /info over servers without faults has, of every server, an *)
(* entry for each metric the find before it found and the server has.  Any *)
(* error of that find, also the 404 of a group that has no match, makes    *)
(* /info ask for the names of the request as they are, patterns included   *)
(* (zipper.go:290). *)
InfoComplete ==
  Replied("info") /\ site.faults = {} /\ (\A ch \in children : ~ch.group) =>
    \A ch \in children : \A m \in delivered :
      m.leaf /\ m.path \in ch.holds =>
        ch.id \in DOMAIN reply.what /\ m.path \in reply.what[ch.id]

(* The tags of a reply are the first ones of all that were answered:       *)
(* all without a limit or below it, at least one less than the limit else. *)
TagsKept ==
  Replied("tags") =>
    LET n == Cardinality(delivered) IN
    /\ reply.what \subseteq delivered
    /\ \A x \in reply.what : \A y \in delivered : y < x => y \in reply.what
    /\ call.limit = -1 \/ n <= call.limit => reply.what = delivered
    /\ call.limit # -1 /\ n > call.limit => Cardinality(reply.what) >= call.limit - 1

(* v is the oldest in each number, and the only version with its numbers.  *)
OldestIn(versions, v) ==
  \A i \in DOMAIN versions :
    /\ \A n \in 1..3 : Parsed(v)[n] <= Parsed(versions[i])[n]
    /\ Parsed(versions[i]) = Parsed(v) => versions[i] = v

(* The features in use are those of the oldest version that answered,      *)
(* where one is the oldest in every number (fetch.go:29 relies on it): no  *)
(* request goes to an API that some server does not have.  Nothing is said *)
(* where none is (v1.45.3 with v1.46.0: Older compares the numbers one by  *)
(* one), nor of a patch number that was not understood beside patch 0 of   *)
(* the same minor version. *)
FeaturesOfOldest ==
  [][\A versions \in site.versions : UpdateFeatureSet(versions) =>
       \A v \in Range(versions) : OldestIn(versions, v) => features' = FeatureSet(v)]_browseVars
=============================================================================
