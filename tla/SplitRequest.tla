---------------------------- MODULE SplitRequest ----------------------------
(***************************************************************************)
(* splitRequest (zipper/broadcast/broadcast_group.go): the metrics of a    *)
(* Fetch are put into batches of at most MaxMetricsPerRequest, globs being *)
(* resolved by a Find first.                                               *)
(*                                                                         *)
(* The metrics are met one at a time, as the loop does, and the answer of  *)
(* a Find is met one match at a time.  A FetchRequest is abstracted to a   *)
(* number: the order in which the loop decided to fetch it.                *)
(***************************************************************************)
EXTENDS Integers, Sequences

CONSTANTS MaxLimit,   \* bound on the limits of the backends
          MaxMetrics, \* bound on the metrics of a request
          MaxMatches  \* bound on the matches a Find returns

ASSUME SplitAssumption ==
  /\ MaxLimit \in Nat
  /\ MaxMetrics \in Nat
  /\ MaxMatches \in Nat

VARIABLES max,       \* backend.MaxMetricsPerRequest(), 0: no limit
          pc,        \* "next": at the loop's head, "match": in a Find's answer
          left,      \* metrics of the request not met yet
          matches,   \* matches of the current Find not met yet
          requests,  \* the batches finished so far
          batch,     \* newRequest
          err,       \* whether some Find failed
          wanted     \* how many FetchRequests were made so far

vars == <<max, pc, left, matches, requests, batch, err, wanted>>

Init ==
  /\ max \in 0..MaxLimit
  /\ pc = IF max = 0 THEN "whole" ELSE "next"
  /\ left \in 0..MaxMetrics
  /\ matches = 0
  /\ requests = <<>>
  /\ batch = <<>>
  /\ err = FALSE
  /\ wanted = 0

(* No limit: the request itself is the only batch, globs and all.          *)
Whole ==
  /\ pc = "whole"
  /\ requests' = <<[i \in 1..left |-> i]>>
  /\ wanted' = left
  /\ left' = 0
  /\ pc' = "done"
  /\ UNCHANGED <<max, matches, batch, err>>

(* Mutated form of Flushed: the batch may be one metric too long.          *)
FlushedLate(b) == Len(b) > max

(* Whether a batch is complete.                                            *)
Flushed(b) == Len(b) >= max

(* seriesByTag and a name without globs go into the batch as they are; a   *)
(* full batch was put aside at the loop's head.                            *)
Plain ==
  /\ pc = "next" /\ left > 0
  /\ left' = left - 1
  /\ requests' = IF Flushed(batch) THEN Append(requests, batch) ELSE requests
  /\ batch' = Append(IF Flushed(batch) THEN <<>> ELSE batch, wanted + 1)
  /\ wanted' = wanted + 1
  /\ UNCHANGED <<max, pc, matches, err>>

(* Mutated form of Glob: every glob starts a batch of its own.             *)
GlobNewBatch ==
  /\ pc = "next" /\ left > 0
  /\ left' = left - 1
  /\ requests' = IF Len(batch) > 0 THEN Append(requests, batch) ELSE requests
  /\ batch' = <<>>
  /\ \E n \in 0..MaxMatches, e \in BOOLEAN :
       /\ matches' = n
       /\ pc' = IF n > 0 THEN "match" ELSE "next"
       /\ err' = (err \/ e)
  /\ UNCHANGED <<max, wanted>>

(* Find answers n matches; e is an error, which a response may come with,  *)
(* or an answer that is missing or lists nothing.                          *)
Glob ==
  /\ pc = "next" /\ left > 0
  /\ left' = left - 1
  /\ requests' = IF Flushed(batch) THEN Append(requests, batch) ELSE requests
  /\ batch' = IF Flushed(batch) THEN <<>> ELSE batch
  /\ \E n \in 0..MaxMatches, e \in BOOLEAN :
       /\ matches' = n
       /\ pc' = IF n > 0 THEN "match" ELSE "next"
       /\ err' = (err \/ e)
  /\ UNCHANGED <<max, wanted>>

(* Mutated form of Leaf: the batch that is full is not started anew.       *)
LeafNoReset ==
  /\ pc = "match"
  /\ matches' = matches - 1
  /\ pc' = IF matches = 1 THEN "next" ELSE "match"
  /\ LET b == Append(batch, wanted + 1) IN
     /\ requests' = IF Flushed(b) THEN Append(requests, b) ELSE requests
     /\ batch' = b
  /\ wanted' = wanted + 1
  /\ UNCHANGED <<max, left, err>>

(* A match that is a leaf; the batch is put aside as soon as it is full.   *)
Leaf ==
  /\ pc = "match"
  /\ matches' = matches - 1
  /\ pc' = IF matches = 1 THEN "next" ELSE "match"
  /\ LET b == Append(batch, wanted + 1) IN
     /\ requests' = IF Flushed(b) THEN Append(requests, b) ELSE requests
     /\ batch' = IF Flushed(b) THEN <<>> ELSE b
  /\ wanted' = wanted + 1
  /\ UNCHANGED <<max, left, err>>

(* Mutated form of Directory: skipping does not look at the end.           *)
DirectoryRunsOn ==
  /\ pc = "match"
  /\ matches' = matches - 1
  /\ UNCHANGED <<max, pc, left, requests, batch, err, wanted>>

(* A match that is a directory is skipped.                                 *)
Directory ==
  /\ pc = "match"
  /\ matches' = matches - 1
  /\ pc' = IF matches = 1 THEN "next" ELSE "match"
  /\ UNCHANGED <<max, left, requests, batch, err, wanted>>

(* Mutated form of Finish: the batch in progress is forgotten.             *)
FinishDrops ==
  /\ pc = "next" /\ left = 0
  /\ batch' = <<>>
  /\ pc' = "done"
  /\ UNCHANGED <<max, left, matches, requests, err, wanted>>

(* The last batch, when there is anything in it.                           *)
Finish ==
  /\ pc = "next" /\ left = 0
  /\ requests' = IF Len(batch) > 0 THEN Append(requests, batch) ELSE requests
  /\ batch' = <<>>
  /\ pc' = "done"
  /\ UNCHANGED <<max, left, matches, err, wanted>>

Next == Whole \/ Plain \/ Glob \/ Leaf \/ Directory \/ Finish

Spec == Init /\ [][Next]_vars

-----------------------------------------------------------------------------
TypeOK ==
  /\ max \in Nat
  /\ pc \in {"whole", "next", "match", "done"}
  /\ left \in Nat
  /\ matches \in Nat
  /\ requests \in Seq(Seq(Nat))
  /\ batch \in Seq(Nat)
  /\ err \in BOOLEAN
  /\ wanted \in Nat

(* No request to a backend asks for more than max metrics, or for none.    *)
BatchSizes ==
  max > 0 => \A i \in DOMAIN requests : Len(requests[i]) \in 1..max

(* The backend gets as few requests as the limit allows: a batch that is   *)
(* put aside while metrics are left is full.                               *)
FullBatches ==
  max > 0 => \A i \in DOMAIN requests :
               i < Len(requests) \/ pc # "done" => Len(requests[i]) = max

(* The metrics of batch b carry the numbers after n, in order.             *)
NumberedFrom(b, n) == \A k \in 1..Len(b) : b[k] = n + k

(* Every metric to be fetched is in exactly one batch, in the order of the *)
(* request: none is lost or sent twice where a batch is put aside.         *)
InOrder ==
  max > 0 =>
    /\ \A i \in 1..Len(requests) : NumberedFrom(requests[i], (i - 1) * max)
    /\ NumberedFrom(batch, Len(requests) * max)

(* When the batches are handed out they hold all that was to be fetched.   *)
NothingLeft ==
  pc = "done" /\ max > 0 =>
    wanted = IF requests = <<>> THEN 0
             ELSE (Len(requests) - 1) * max + Len(requests[Len(requests)])
=============================================================================
