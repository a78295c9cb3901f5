----------------------------- MODULE TldRouting -----------------------------
(***************************************************************************)
(* The routing cache of a broadcast group: every once in a while ProbeTLDs *)
(* asks all backends for the top-level parts of their metric names, and    *)
(* filterServersByTLD sends a Fetch only to the backends cached for the    *)
(* names it asks for (zipper/broadcast/broadcast_group.go, with the prober *)
(* of zipper/zipper.go and pathcache/pathcache.go).                        *)
(*                                                                         *)
(* A name is its top-level part; a glob there, "*" or "{a,b}", is a name   *)
(* no probe reports.  Backends only gain names here: one whose metrics are *)
(* deleted stays cached until a probe replaces the entry or it expires,    *)
(* which costs a useless request and is left out.                          *)
(***************************************************************************)

CONSTANTS Backends,          \* children of the group
          Tlds,              \* top-level names
          Glob,              \* a top-level part that is a pattern
          SeriesByTag,       \* a request by tags
          Names,             \* what requests ask for
          TldCacheDisabled   \* config: tldCacheDisabled

ASSUME TldRoutingAssumption ==
  /\ Glob \notin Tlds /\ SeriesByTag \notin Tlds /\ Glob # SeriesByTag
  /\ Names \subseteq Tlds \cup {Glob, SeriesByTag}
  /\ TldCacheDisabled \in BOOLEAN

VARIABLES stores,    \* stores[b]: the top-level names backend b has
          pathCache, \* pathCache[t]: the backends cached for t, {}: no entry
          probe,     \* where the prober is
          waiting,   \* backends whose answer it waits for
          found,     \* found[t]: the map ProbeTLDs builds, {}: no entry
          steady     \* history: no probe has failed and no backend has grown

vars == <<stores, pathCache, probe, waiting, found, steady>>

Init ==
  /\ stores \in [Backends -> SUBSET Tlds]
  /\ pathCache = [t \in Tlds |-> {}]
  /\ probe = "idle"
  /\ waiting = {}
  /\ found = [t \in Tlds |-> {}]
  /\ steady = TRUE

(* A metric with a new top-level name arrives at backend b.                *)
Grow(b, t) ==
  /\ t \notin stores[b]
  /\ stores' = [stores EXCEPT ![b] = @ \cup {t}]
  /\ steady' = FALSE
  /\ UNCHANGED <<pathCache, probe, waiting, found>>

(* The ticker fires, or ProbeForce at the start; the prober is one         *)
(* goroutine, which asks all children.  Without the cache there is none.   *)
Probe ==
  /\ ~TldCacheDisabled
  /\ probe = "idle"
  /\ probe' = "gather"
  /\ waiting' = Backends
  /\ found' = [t \in Tlds |-> {}]
  /\ UNCHANGED <<stores, pathCache, steady>>

(* Mutated form of ProbeAnswered: a backend is credited with the names     *)
(* the others have reported.                                               *)
ProbeAnsweredMixed(b) ==
  /\ probe = "gather" /\ b \in waiting
  /\ waiting' = waiting \ {b}
  /\ found' = [t \in Tlds |-> found[t] \cup
                  IF t \in stores[b] \/ found[t] # {} THEN {b} ELSE {}]
  /\ UNCHANGED <<stores, pathCache, probe, steady>>

(* A backend answers without an error.                                     *)
ProbeAnswered(b) ==
  /\ probe = "gather" /\ b \in waiting
  /\ waiting' = waiting \ {b}
  /\ found' = [t \in Tlds |-> found[t] \cup IF t \in stores[b] THEN {b} ELSE {}]
  /\ UNCHANGED <<stores, pathCache, probe, steady>>

(* A backend answers with an error: names it may have sent along, as a     *)
(* nested group with one failing child does, are dropped.                  *)
ProbeFailed(b) ==
  /\ probe = "gather" /\ b \in waiting
  /\ waiting' = waiting \ {b}
  /\ steady' = FALSE
  /\ UNCHANGED <<stores, pathCache, probe, found>>

(* Everyone has answered, or the timeout passed.                           *)
ProbeGathered ==
  /\ probe = "gather"
  /\ probe' = "set"
  /\ waiting' = {}
  /\ steady' = (steady /\ waiting = {})
  /\ UNCHANGED <<stores, pathCache, found>>

(* Mutated form of CacheSet: an entry that is there is kept.               *)
CacheSetOnce(t) ==
  /\ probe = "set" /\ found[t] # {}
  /\ pathCache' = [pathCache EXCEPT ![t] = IF @ = {} THEN found[t] ELSE @]
  /\ found' = [found EXCEPT ![t] = {}]
  /\ UNCHANGED <<stores, probe, waiting, steady>>

(* The entries are replaced one at a time; names nobody reported keep the  *)
(* entry they have.                                                        *)
CacheSet(t) ==
  /\ probe = "set" /\ found[t] # {}
  /\ pathCache' = [pathCache EXCEPT ![t] = found[t]]
  /\ found' = [found EXCEPT ![t] = {}]
  /\ UNCHANGED <<stores, probe, waiting, steady>>

ProbeEnds ==
  /\ probe = "set" /\ \A t \in Tlds : found[t] = {}
  /\ probe' = "idle"
  /\ UNCHANGED <<stores, pathCache, waiting, found, steady>>

(* An entry expires expireDelaySec after it was set.                       *)
Expire(t) ==
  /\ pathCache[t] # {}
  /\ pathCache' = [pathCache EXCEPT ![t] = {}]
  /\ UNCHANGED <<stores, probe, waiting, found, steady>>

ProbeStep ==
  \/ Probe \/ ProbeGathered \/ ProbeEnds
  \/ \E b \in Backends : ProbeAnswered(b) \/ ProbeFailed(b)
  \/ \E t \in Tlds : CacheSet(t)

Next ==
  \/ ProbeStep
  \/ \E b \in Backends, t \in Tlds : Grow(b, t)
  \/ \E t \in Tlds : Expire(t)

Spec == Init /\ [][Next]_vars

(* The ticker keeps firing, and every probe ends at its timeout.           *)
Fairness ==
  /\ WF_vars(Probe) /\ WF_vars(ProbeGathered) /\ WF_vars(ProbeEnds)
  /\ \A b \in Backends : WF_vars(ProbeAnswered(b) \/ ProbeFailed(b))
  /\ \A t \in Tlds : WF_vars(CacheSet(t))

FairSpec == Spec /\ Fairness

-----------------------------------------------------------------------------
(* The backends cached for the names of a request.                         *)
Cached(request) == UNION {pathCache[t] : t \in request \cap Tlds}

(* Mutated form of filterServersByTLD: no fall back to all backends.       *)
filterServersByTLDStrict(request) ==
  IF TldCacheDisabled \/ SeriesByTag \in request THEN Backends
  ELSE Cached(request)

(* The backends a Fetch is sent to.                                        *)
filterServersByTLD(request) ==
  IF TldCacheDisabled \/ SeriesByTag \in request \/ Cached(request) = {}
  THEN Backends ELSE Cached(request)

-----------------------------------------------------------------------------
TypeOK ==
  /\ stores \in [Backends -> SUBSET Tlds]
  /\ pathCache \in [Tlds -> SUBSET Backends]
  /\ probe \in {"idle", "gather", "set"}
  /\ waiting \in SUBSET Backends
  /\ found \in [Tlds -> SUBSET Backends]
  /\ steady \in BOOLEAN

(* The backends that may have metrics of a name: those with it, any with   *)
(* some name for a pattern or a request by tags.                           *)
Holders(name) ==
  {b \in Backends : IF name \in Tlds THEN name \in stores[b] ELSE stores[b] # {}}

(* A name without an entry, also a pattern, in a request for another name  *)
(* that has one: filterServersByTLD goes by the entries it finds.          *)
Overlooked(request, name) ==
  /\ SeriesByTag \notin request
  /\ name \in Tlds => pathCache[name] = {}
  /\ Cached(request) # {}

(* As long as no probe failed and no backend grew, a Fetch would at every  *)
(* moment be sent to every backend that has one of its names, also while   *)
(* entries are replaced one by one and as they expire, unless the request  *)
(* also asks for a name that has an entry when this one has none: an entry *)
(* is never half a list of holders, and half a map narrows only requests   *)
(* for names on both sides of it. *)
AllHoldersAsked ==
  steady => \A r \in SUBSET Names : \A t \in r :
              Overlooked(r, t) \/ Holders(t) \subseteq filterServersByTLD(r)

(* A cached backend has what it is cached for, also when probes fail or    *)
(* time out half way: a Fetch is never narrowed to backends that were      *)
(* mixed up.  It is for backends that only gain names. *)
EntriesTrue ==
  \A t \in Tlds : \A b \in pathCache[t] : t \in stores[b]

(* A step of the prober that loses no answer.                              *)
NothingLost ==
  probe = "gather" =>
    \A b \in waiting \ waiting' : \A t \in stores[b] : b \in found'[t]

(* Once probes stop failing, a backend that has a top-level name, a new    *)
(* one too, is asked for it from some moment on.                           *)
RoutingRecovers ==
  <>[][NothingLost]_vars =>
    \A b \in Backends, t \in Tlds :
      [](t \in stores[b] => <>[](b \in filterServersByTLD({t})))
=============================================================================
