-------------------------- MODULE TldRoutingProofs --------------------------
(* Proofs about TldRouting for any backends and names.                     *)
EXTENDS TldRouting, TLAPS

(* Neither the map of a probe nor the cache credits a backend with a name  *)
(* it does not have.                                                       *)
Truthful ==
  /\ TypeOK
  /\ \A t \in Tlds : \A b \in found[t] : t \in stores[b]
  /\ EntriesTrue

(* Nothing is cached at the start.                                         *)
LEMMA TruthfulInit == Init => Truthful
  BY DEF Init, Truthful, TypeOK, EntriesTrue

(* Every step keeps the cache and the map being built truthful.            *)
LEMMA TruthfulStep == Truthful /\ [Next]_vars => Truthful'
  <1> SUFFICES ASSUME Truthful, [Next]_vars PROVE Truthful'
    OBVIOUS
  <1> USE DEF Truthful, TypeOK, EntriesTrue
  <1>1. ASSUME NEW b \in Backends, NEW t \in Tlds, Grow(b, t) PROVE Truthful'
    BY <1>1 DEF Grow
  <1>2. CASE Probe
    BY <1>2 DEF Probe
  <1>3. ASSUME NEW b \in Backends, ProbeAnswered(b) PROVE Truthful'
    BY <1>3 DEF ProbeAnswered
  <1>4. ASSUME NEW b \in Backends, ProbeFailed(b) PROVE Truthful'
    BY <1>4 DEF ProbeFailed
  <1>5. CASE ProbeGathered
    BY <1>5 DEF ProbeGathered
  <1>6. ASSUME NEW t \in Tlds, CacheSet(t) PROVE Truthful'
    BY <1>6 DEF CacheSet
  <1>7. CASE ProbeEnds
    BY <1>7 DEF ProbeEnds
  <1>8. ASSUME NEW t \in Tlds, Expire(t) PROVE Truthful'
    BY <1>8 DEF Expire
  <1>9. CASE UNCHANGED vars
    BY <1>9 DEF vars
  <1> QED
    BY <1>1, <1>2, <1>3, <1>4, <1>5, <1>6, <1>7, <1>8, <1>9 DEF Next, ProbeStep

(* Whatever probes fail and however backends grow, a cached backend has    *)
(* what it is cached for.                                                  *)
THEOREM EntriesAlwaysTrue == Spec => []EntriesTrue
  BY TruthfulInit, TruthfulStep, PTL DEF Spec, Truthful

(* With nothing failing and nothing growing, a probe's map holds every     *)
(* backend that has answered, and an entry every backend with the name.    *)
HoldersOf(t) == {b \in Backends : t \in stores[b]}

Complete ==
  /\ TypeOK
  /\ steady =>
       /\ probe = "gather" => \A t \in Tlds : found[t] = HoldersOf(t) \ waiting
       /\ probe = "set" => \A t \in Tlds : found[t] \in {{}, HoldersOf(t)}
       /\ \A t \in Tlds : pathCache[t] \in {{}, HoldersOf(t)}

(* Every step keeps the entries complete while no probe fails.             *)
LEMMA CompleteStep == Complete /\ [Next]_vars => Complete'
  <1> SUFFICES ASSUME Complete, [Next]_vars PROVE Complete'
    OBVIOUS
  <1> USE DEF Complete, TypeOK, HoldersOf
  <1>1. ASSUME NEW b \in Backends, NEW t \in Tlds, Grow(b, t) PROVE Complete'
    BY <1>1 DEF Grow
  <1>2. CASE Probe
    BY <1>2 DEF Probe
  <1>3. ASSUME NEW b \in Backends, ProbeAnswered(b) PROVE Complete'
    BY <1>3 DEF ProbeAnswered
  <1>4. ASSUME NEW b \in Backends, ProbeFailed(b) PROVE Complete'
    BY <1>4 DEF ProbeFailed
  <1>5. CASE ProbeGathered
    BY <1>5 DEF ProbeGathered
  <1>6. ASSUME NEW t \in Tlds, CacheSet(t) PROVE Complete'
    BY <1>6 DEF CacheSet
  <1>7. CASE ProbeEnds
    BY <1>7 DEF ProbeEnds
  <1>8. ASSUME NEW t \in Tlds, Expire(t) PROVE Complete'
    BY <1>8 DEF Expire
  <1>9. CASE UNCHANGED vars
    BY <1>9 DEF vars
  <1> QED
    BY <1>1, <1>2, <1>3, <1>4, <1>5, <1>6, <1>7, <1>8, <1>9 DEF Next, ProbeStep

(* While probes succeed and no new names arrive, a Fetch is sent to every  *)
(* backend that has one of its names, at every moment: before the first    *)
(* probe, while entries are replaced one by one and as they expire.  Only  *)
(* the backends of a name without an entry are left out, when another name *)
(* of the request has one.                                                 *)
THEOREM RoutingComplete == Spec => []AllHoldersAsked
  <1>1. Init => Complete
    BY DEF Init, Complete, TypeOK
  <1>2. Complete => AllHoldersAsked
    <2> SUFFICES ASSUME Complete, steady, NEW r \in SUBSET Names, NEW t \in r,
                        ~Overlooked(r, t)
                 PROVE  Holders(t) \subseteq filterServersByTLD(r)
      BY DEF AllHoldersAsked
    <2>1. CASE SeriesByTag \in r \/ Cached(r) = {}
      BY <2>1 DEF filterServersByTLD, Holders
    <2>2. CASE t \in Tlds /\ pathCache[t] # {}
      <3>1. pathCache[t] = HoldersOf(t)
        BY <2>2 DEF Complete
      <3>2. Holders(t) \subseteq Cached(r)
        BY <2>2, <3>1 DEF Holders, HoldersOf, Cached
      <3> QED
        BY <3>2 DEF filterServersByTLD, Holders
    <2> QED
      BY <2>1, <2>2 DEF Overlooked
  <1> QED
    BY <1>1, <1>2, CompleteStep, PTL DEF Spec
=============================================================================
