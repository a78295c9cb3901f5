---------------------------- MODULE ResponseMerge ----------------------------
(***************************************************************************)
(* The merge of what several backends hold of one metric:                  *)
(* ServerFetchResponse.Merge and MergeFetchResponses                       *)
(* (zipper/types/response.go), applied to the responses in the order they  *)
(* arrive.                                                                 *)
(*                                                                         *)
(* A backend returns the metric once for every path expression of the      *)
(* request that matches its name, in any order.  All these copies have the *)
(* same coordinates (name and requested interval).  Of a value only its    *)
(* presence is kept: TRUE is a number, FALSE is NaN.                       *)
(***************************************************************************)
EXTENDS Naturals, Sequences, FiniteSets

CONSTANTS Backends,  \* backends asked
          Exprs,     \* path expressions of the request that match the name
          Steps,     \* step times
          Starts,    \* start times
          MaxValues  \* bound on the points of a series

ASSUME ResponseMergeAssumption ==
  /\ Backends # {}
  /\ Exprs # {} /\ IsFiniteSet(Exprs)
  /\ Steps \subseteq Nat \ {0}
  /\ Starts \subseteq Nat
  /\ MaxValues \in Nat

VARIABLES has,     \* the backends that have the metric
          data,    \* data[b]: what b has of the metric, the same per expression
          left,    \* backends whose response has not arrived yet
          rest,    \* copies of the response being merged
          sender,  \* the backend that response is from
          index,   \* metrics[coordinates]: where copies are merged to, 0: no entry
          result   \* first.Response.Metrics

vars == <<has, data, left, rest, sender, index, result>>

Values == UNION {[1..n -> BOOLEAN] : n \in 0..MaxValues}
Series == [start : Starts, step : Steps, values : Values]

Init ==
  /\ has \in SUBSET Backends
  /\ data \in [Backends -> Series]
  /\ left = has
  /\ rest = <<>>
  /\ sender = CHOOSE b \in Backends : TRUE
  /\ index = 0
  /\ result = <<>>

-----------------------------------------------------------------------------
(* Mutated form of FillGaps: the shorter series is not swapped away.       *)
FillGapsShort(m1, m2) ==
  [m1 EXCEPT !.values = [k \in 1..Len(m1.values) |->
     m1.values[k] \/ (k <= Len(m2.values) /\ m2.values[k])]]

(* mergeFetchResponsesWithEqualStepTimes: gaps of the longer series are    *)
(* filled from the other one.                                              *)
FillGaps(m1, m2) ==
  LET swap == Len(m1.values) < Len(m2.values)
      long == IF swap THEN m2 ELSE m1
      short == IF swap THEN m1 ELSE m2
  IN  [long EXCEPT !.values = [k \in 1..Len(long.values) |->
         long.values[k] \/ (k <= Len(short.values) /\ short.values[k])]]

(* Mutated form of MergeFetchResponses: series of different steps are      *)
(* taken for series of one step.                                           *)
MergeFetchResponsesSameStep(m1, m2) ==
  IF m1.start # m2.start THEN m1 ELSE FillGaps(m1, m2)

(* Series of one step and start are combined; when they start at different *)
(* times the second is dropped, without an error the caller sees.  Of two  *)
(* steps the finer series is kept as it is.                                *)
MergeFetchResponses(m1, m2) ==
  IF m1.step = m2.step
  THEN IF m1.start # m2.start THEN m1 ELSE FillGaps(m1, m2)
  ELSE IF m1.step > m2.step THEN m2 ELSE m1

(* swapFetchResponses leaves PathExpression where it is.                   *)
MergeInto(m1, m2) == [m1 EXCEPT !.series = MergeFetchResponses(m1.series, m2.series)]

(* The orders a backend may list the expressions in.                       *)
Orders == {o \in [1..Cardinality(Exprs) -> Exprs] : \A e \in Exprs : \E i \in DOMAIN o : o[i] = e}

(* A response arrives; Merge indexes the entries there are.  They share    *)
(* their coordinates, so the last one is what the map points to.           *)
Arrive(b) ==
  /\ rest = <<>> /\ b \in left
  /\ left' = left \ {b}
  /\ sender' = b
  /\ \E o \in Orders :
       rest' = [i \in 1..Cardinality(Exprs) |-> [expr |-> o[i], series |-> data[b]]]
  /\ index' = Len(result)
  /\ UNCHANGED <<has, data, result>>

(* The copy is merged to the entry the map points to, or it is a new one,  *)
(* which the map does not learn of.                                        *)
Merge ==
  /\ rest # <<>>
  /\ rest' = Tail(rest)
  /\ result' = IF index = 0 THEN Append(result, Head(rest))
               ELSE [result EXCEPT ![index] = MergeInto(@, Head(rest))]
  /\ UNCHANGED <<has, data, left, sender, index>>

(* The caller goes on with the result.                                     *)
Done ==
  /\ left = {} /\ rest = <<>>
  /\ UNCHANGED vars

Next == (\E b \in Backends : Arrive(b)) \/ Merge \/ Done

Spec == Init /\ [][Next]_vars

-----------------------------------------------------------------------------
TypeOK ==
  /\ has \in SUBSET Backends
  /\ data \in [Backends -> Series]
  /\ left \in SUBSET has
  /\ rest \in Seq([expr : Exprs, series : Series])
  /\ sender \in Backends
  /\ index \in 0..Len(result)
  /\ result \in Seq([expr : Exprs, series : Series])

(* The finest of the series the backends have.                             *)
Finest == {b \in has : \A c \in has : data[b].step <= data[c].step}

AllMerged == left = {} /\ rest = <<>>

EntriesFor(e) == {i \in 1..Len(result) : result[i].expr = e}

HasPoint(s, k) == k \in 1..Len(s.values) /\ s.values[k]

(* Every point that some backend has, of the finest step there is, is in   *)
(* the series of every expression of the request, whichever order the      *)
(* responses arrived in.                                                   *)
PointsKept ==
  AllMerged =>
    \A b \in Finest, e \in Exprs : \E i \in EntriesFor(e) :
      \A k \in 1..Len(data[b].values) :
        HasPoint(data[b], k) => HasPoint(result[i].series, k)

(* A point of the result is one that some backend has at that time: points *)
(* of another step do not get in.                                          *)
NoPointInvented ==
  \A i \in 1..Len(result) : \A k \in 1..Len(result[i].series.values) :
    HasPoint(result[i].series, k) =>
      \E b \in has : /\ data[b].step = result[i].series.step
                     /\ data[b].start = result[i].series.start
                     /\ HasPoint(data[b], k)
=============================================================================
