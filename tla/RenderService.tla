--------------------------- MODULE RenderService ---------------------------
(***************************************************************************)
(* What a render request promises, without caches, limits and backends:    *)
(* an answer is a snapshot of the request.  It shows the request's targets *)
(* in the request's format, over the interval the request had at a moment  *)
(* not longer ago than the caches may hold it, from data of the metrics of *)
(* the target that were read not longer ago either.                        *)
(***************************************************************************)
EXTENDS RenderRequest

CONSTANTS Clients,
          Latency,  \* a request is answered within this time
          Lag       \* and a write reaches memcached

VARIABLES conf,     \* the configuration of the process
          now,
          asking,   \* asking[c]: the request c waits for, <<>> if none
          answer    \* answer[c]: the answer to c's last request, <<>> if none yet

Init ==
  /\ asking = [c \in Clients |-> <<>>]
  /\ answer = [c \in Clients |-> <<>>]

Ask(c) ==
  /\ asking[c] = <<>> /\ asking'[c] # <<>>
  /\ asking'[c].since = now
  /\ asking' = [asking EXCEPT ![c] = asking'[c]]
  /\ answer' = [answer EXCEPT ![c] = <<>>]
  /\ UNCHANGED <<conf, now>>

(* The keys of the caches tell the requests of this configuration apart: a *)
(* form request, not one with a body; a time zone only where dates are the *)
(* same in all of them; with TruncateTime one way to write timestamps;     *)
(* with memcached no entry without expiry. *)
Told(req, r) ==
  /\ ~HasBody(req) /\ ~HasBody(r)
  /\ req.tz = r.tz \/ "local" \notin {req.from.kind, req.until.kind}
  /\ conf.truncate = 0 \/ req.view = r.view
  /\ conf.cache = "memcached" => conf.resp.normal # 0 /\ ~r.noCache /\ r.cacheTimeout # <<0>>

Determined(req) == \A r \in conf.requests : Told(req, r)

(* How long ago a cached answer may have been asked for: the expiry of an  *)
(* answer and that of the results it was made of. *)
Timeouts(policy) == {0, policy.normal, policy.short} \cup {r.cacheTimeout[1] : r \in {q \in conf.requests : q.cacheTimeout # <<>>}}
Delay == 2 * Latency + (IF conf.cache = "memcached" THEN 2 * Lag ELSE 0)
Ages == {a + b + Delay : a \in Timeouts(conf.resp), b \in Timeouts(conf.back)}

(* The metrics of a target and of all it may be rewritten to *)
Closed(S) == \A t \in S : Range(t.then) \subseteq S
Reached(e) == {t \in conf.targets : \A S \in SUBSET conf.targets : e \in S /\ Closed(S) => t \in S}
Names(e) == UNION {{a.name : a \in Range(t.args)} : t \in Reached(e)}

Snapshot(req, since, body) ==
  /\ body.targets = TargetsOf(req)
  /\ body.format = req.format /\ body.points = req.points /\ body.view = req.view
  /\ \E a \in Ages : \E t \in (since - a)..now : body.span = SpanOf(conf, req, t)
  /\ \A i \in DOMAIN body.found : \A s \in body.found[i] :
       /\ \E a \in Ages : s.at \in (since - a)..now
       /\ s.name \in Names(TargetsOf(req)[i])

Answer(c) ==
  /\ asking[c] # <<>>
  /\ asking' = [asking EXCEPT ![c] = <<>>]
  /\ answer' = [answer EXCEPT ![c] = answer'[c]]
  /\ answer'[c].code = 200 /\ Determined(asking[c].req) =>
       Snapshot(asking[c].req, asking[c].since, answer'[c].body)
  /\ UNCHANGED <<conf, now>>

Tick == now' = now + 1 /\ UNCHANGED <<conf, asking, answer>>

Next == Tick \/ \E c \in Clients : Ask(c) \/ Answer(c)

Spec == Init /\ [][Next]_<<conf, now, asking, answer>>
=============================================================================
