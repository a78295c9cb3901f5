------------------------- MODULE SplitRequestProofs -------------------------
(* What splitRequest does to any request, for any limit of the backend.    *)
EXTENDS SplitRequest, TLAPS

(* While metrics are left every batch put aside is full, and the batch in  *)
(* progress is not over the limit; within a Find's answer it is under it.  *)
Filling ==
  pc \in {"next", "match"} =>
    /\ max > 0
    /\ \A i \in 1..Len(requests) : Len(requests[i]) = max
    /\ Len(batch) <= max
    /\ pc = "match" => Len(batch) < max /\ matches > 0

(* What is left of it when the batches are handed out.                     *)
Filled ==
  pc = "done" /\ max > 0 =>
    /\ \A i \in 1..Len(requests) : Len(requests[i]) \in 1..max
    /\ \A i \in 1..Len(requests) : i < Len(requests) => Len(requests[i]) = max

Inv == TypeOK /\ (pc = "whole" <=> max = 0 /\ pc # "done") /\ Filling /\ Filled

(* The invariant holds before the first metric.                            *)
LEMMA InvInit == Init => Inv
  <1> SUFFICES ASSUME Init PROVE Inv
    OBVIOUS
  <1>1. max \in Nat /\ left \in Nat
    BY SplitAssumption DEF Init
  <1>2. TypeOK
    <2>1. requests \in Seq(Seq(Nat)) /\ batch \in Seq(Nat)
      BY DEF Init
    <2> QED
      BY <1>1, <2>1 DEF Init, TypeOK
  <1>3. pc = "whole" <=> max = 0 /\ pc # "done"
    BY DEF Init
  <1>4. Filling /\ Filled
    BY <1>1 DEF Init, Filling, Filled
  <1> QED
    BY <1>2, <1>3, <1>4 DEF Inv

(* Every step keeps the types.                                             *)
LEMMA TypeStep == Inv /\ [Next]_vars => TypeOK'
  <1> SUFFICES ASSUME Inv, [Next]_vars PROVE TypeOK'
    OBVIOUS
  <1> USE DEF Inv, TypeOK
  <1>1. CASE Whole
    <2>1. [i \in 1..left |-> i] \in Seq(Nat)
      OBVIOUS
    <2> QED
      BY <1>1, <2>1 DEF Whole
  <1>2. CASE Plain
    BY <1>2 DEF Plain
  <1>3. CASE Glob
    BY <1>3, SplitAssumption DEF Glob
  <1>4. CASE Leaf
    BY <1>4 DEF Leaf, Filling
  <1>5. CASE Directory
    BY <1>5 DEF Directory, Filling
  <1>6. CASE Finish
    BY <1>6 DEF Finish
  <1>7. CASE UNCHANGED vars
    BY <1>7 DEF vars
  <1> QED
    BY <1>1, <1>2, <1>3, <1>4, <1>5, <1>6, <1>7 DEF Next

(* Every step keeps the batches filled as far as they should be.           *)
LEMMA FillStep == Inv /\ [Next]_vars => Filling' /\ Filled' /\ (pc = "whole" <=> max = 0 /\ pc # "done")'
  <1> SUFFICES ASSUME Inv, [Next]_vars
               PROVE  Filling' /\ Filled' /\ (pc = "whole" <=> max = 0 /\ pc # "done")'
    OBVIOUS
  <1> USE DEF Inv, TypeOK
  <1>1. CASE Whole
    BY <1>1 DEF Whole, Filling, Filled
  <1>2. CASE Plain
    BY <1>2 DEF Plain, Flushed, Filling, Filled
  <1>3. CASE Glob
    BY <1>3, SplitAssumption DEF Glob, Flushed, Filling, Filled
  <1>4. CASE Leaf
    BY <1>4 DEF Leaf, Flushed, Filling, Filled
  <1>5. CASE Directory
    BY <1>5 DEF Directory, Filling, Filled
  <1>6. CASE Finish
    BY <1>6 DEF Finish, Filling, Filled
  <1>7. CASE UNCHANGED vars
    BY <1>7 DEF vars, Filling, Filled
  <1> QED
    BY <1>1, <1>2, <1>3, <1>4, <1>5, <1>6, <1>7 DEF Next

(* Every step keeps the invariant.                                         *)
LEMMA InvStep == Inv /\ [Next]_vars => Inv'
  BY TypeStep, FillStep DEF Inv

-----------------------------------------------------------------------------
(* The order of the metrics.                                               *)

(* Adding the next metric keeps a batch numbered.                          *)
LEMMA AddOne ==
  ASSUME NEW b \in Seq(Nat), NEW n \in Nat, NumberedFrom(b, n)
  PROVE  /\ NumberedFrom(Append(b, n + Len(b) + 1), n)
         /\ Len(Append(b, n + Len(b) + 1)) = Len(b) + 1
  <1> DEFINE c == Append(b, n + Len(b) + 1)
  <1>1. Len(c) = Len(b) + 1 /\ Len(b) \in Nat
    OBVIOUS
  <1>2. ASSUME NEW k \in 1..Len(c) PROVE c[k] = n + k
    <2>1. CASE k = Len(b) + 1
      <3>1. c[k] = n + Len(b) + 1
        BY <2>1
      <3> QED
        BY <1>1, <2>1, <3>1
    <2>2. CASE k # Len(b) + 1
      <3>1. k \in 1..Len(b)
        BY <1>1, <2>2
      <3>2. c[k] = b[k]
        BY <3>1
      <3> QED
        BY <3>1, <3>2 DEF NumberedFrom
    <2> QED
      BY <2>1, <2>2
  <1> QED
    BY <1>1, <1>2 DEF NumberedFrom

(* Putting a full batch aside keeps the batches numbered.                  *)
LEMMA PutAside ==
  ASSUME NEW rs \in Seq(Seq(Nat)), NEW b \in Seq(Nat), NEW m \in Nat,
         \A i \in 1..Len(rs) : NumberedFrom(rs[i], (i - 1) * m),
         NumberedFrom(b, Len(rs) * m), Len(b) = m
  PROVE  /\ \A i \in 1..Len(Append(rs, b)) :
              NumberedFrom(Append(rs, b)[i], (i - 1) * m)
         /\ Len(Append(rs, b)) = Len(rs) + 1
         /\ Len(Append(rs, b)) * m = Len(rs) * m + Len(b)
  <1>1. Len(Append(rs, b)) = Len(rs) + 1 /\ Len(rs) \in Nat
    OBVIOUS
  <1>2. ASSUME NEW i \in 1..Len(Append(rs, b))
        PROVE  NumberedFrom(Append(rs, b)[i], (i - 1) * m)
    <2>1. CASE i = Len(rs) + 1
      <3>1. Append(rs, b)[i] = b /\ i - 1 = Len(rs)
        BY <1>1, <2>1
      <3> QED
        BY <3>1
    <2>2. CASE i # Len(rs) + 1
      <3>1. i \in 1..Len(rs) /\ Append(rs, b)[i] = rs[i]
        BY <1>1, <2>2
      <3> QED
        BY <3>1
    <2> QED
      BY <2>1, <2>2
  <1>3. (Len(rs) + 1) * m = Len(rs) * m + m
    BY <1>1
  <1> QED
    BY <1>1, <1>2, <1>3

(* An empty batch is numbered from anywhere.                               *)
LEMMA EmptyNumbered == ASSUME NEW n \in Nat PROVE NumberedFrom(<<>>, n)
  BY DEF NumberedFrom

(* The metrics decided on so far are numbered through the batches.         *)
Numbered ==
  max > 0 =>
    /\ InOrder
    /\ pc # "done" => wanted = Len(requests) * max + Len(batch)
    /\ NothingLeft

(* The batches are numbered at the start.                                  *)
LEMMA NumberedInit == Init => Numbered
  <1> SUFFICES ASSUME Init PROVE Numbered
    OBVIOUS
  <1>1. max \in Nat
    BY SplitAssumption DEF Init
  <1>2. requests = <<>> /\ batch = <<>> /\ wanted = 0 /\ pc # "done"
    BY DEF Init
  <1> QED
    BY <1>1, <1>2, EmptyNumbered DEF Numbered, InOrder, NothingLeft

(* What the loop's head does: the batch is put aside when it is full.      *)
HeadRequests == IF Flushed(batch) THEN Append(requests, batch) ELSE requests
HeadBatch == IF Flushed(batch) THEN <<>> ELSE batch

(* What the head of the loop does to the numbering.                        *)
LEMMA LoopHead ==
  ASSUME Inv, Numbered, pc = "next", max > 0
  PROVE  /\ \A i \in 1..Len(HeadRequests) : NumberedFrom(HeadRequests[i], (i - 1) * max)
         /\ NumberedFrom(HeadBatch, Len(HeadRequests) * max)
         /\ wanted = Len(HeadRequests) * max + Len(HeadBatch)
         /\ HeadBatch \in Seq(Nat) /\ HeadRequests \in Seq(Seq(Nat))
         /\ Len(HeadRequests) * max \in Nat
  <1>1. /\ requests \in Seq(Seq(Nat)) /\ batch \in Seq(Nat) /\ max \in Nat
        /\ Len(batch) <= max /\ InOrder
        /\ wanted = Len(requests) * max + Len(batch) /\ wanted \in Nat
    BY DEF Inv, TypeOK, Filling, Numbered
  <1>2. CASE Flushed(batch)
    <2>1. Len(batch) = max
      BY <1>1, <1>2 DEF Flushed
    <2>2. HeadRequests = Append(requests, batch) /\ HeadBatch = <<>>
      BY <1>2 DEF HeadRequests, HeadBatch
    <2>3. /\ \A i \in 1..Len(HeadRequests) : NumberedFrom(HeadRequests[i], (i - 1) * max)
          /\ Len(HeadRequests) * max = Len(requests) * max + Len(batch)
      BY <1>1, <2>1, <2>2, PutAside DEF InOrder
    <2>4. Len(<<>>) = 0 /\ <<>> \in Seq(Nat) /\ HeadRequests \in Seq(Seq(Nat))
      BY <1>1, <2>2
    <2> QED
      BY <1>1, <2>2, <2>3, <2>4, EmptyNumbered
  <1>3. CASE ~Flushed(batch)
    BY <1>1, <1>3 DEF HeadRequests, HeadBatch, InOrder
  <1> QED
    BY <1>2, <1>3

(* Every step keeps the batches numbered.                                  *)
LEMMA NumberedStep == Inv /\ Numbered /\ [Next]_vars => Numbered'
  <1> SUFFICES ASSUME Inv, Numbered, [Next]_vars, max' > 0 PROVE Numbered'
    BY DEF Numbered, InOrder, NothingLeft
  <1>0. max' = max /\ max > 0
    BY DEF Next, vars, Whole, Plain, Glob, Leaf, Directory, Finish
  <1>t. /\ requests \in Seq(Seq(Nat)) /\ batch \in Seq(Nat)
        /\ max \in Nat /\ wanted \in Nat
    BY DEF Inv, TypeOK
  <1>1. CASE Whole
    BY <1>0, <1>1 DEF Whole, Inv
  <1>2. CASE Plain
    <2>1. /\ requests' = HeadRequests /\ batch' = Append(HeadBatch, wanted + 1)
          /\ wanted' = wanted + 1 /\ pc' = "next" /\ pc = "next"
      BY <1>2 DEF Plain, HeadRequests, HeadBatch
    <2>2. batch' = Append(HeadBatch, Len(HeadRequests) * max + Len(HeadBatch) + 1)
      BY <1>0, <2>1, LoopHead
    <2>3. /\ NumberedFrom(batch', Len(HeadRequests) * max)
          /\ Len(batch') = Len(HeadBatch) + 1
      BY <1>0, <2>1, <2>2, LoopHead, AddOne
    <2>4. wanted' = Len(requests') * max + Len(batch')
      BY <1>0, <2>1, <2>3, LoopHead
    <2> QED
      BY <1>0, <2>1, <2>3, <2>4, LoopHead DEF Numbered, InOrder, NothingLeft
  <1>3. CASE Glob
    <2>1. /\ requests' = HeadRequests /\ batch' = HeadBatch
          /\ wanted' = wanted /\ pc' # "done" /\ pc = "next"
      BY <1>3 DEF Glob, HeadRequests, HeadBatch
    <2> QED
      BY <1>0, <2>1, LoopHead DEF Numbered, InOrder, NothingLeft
  <1>4. CASE Leaf
    <2> DEFINE c == Append(batch, wanted + 1)
    <2>1. /\ requests' = IF Flushed(c) THEN Append(requests, c) ELSE requests
          /\ batch' = IF Flushed(c) THEN <<>> ELSE c
          /\ wanted' = wanted + 1 /\ pc' # "done"
      BY <1>4 DEF Leaf
    <2>2. /\ wanted = Len(requests) * max + Len(batch) /\ Len(requests) * max \in Nat
          /\ Len(batch) < max /\ InOrder
      BY <1>0, <1>4, <1>t DEF Leaf, Inv, Filling, Numbered
    <2>3. NumberedFrom(c, Len(requests) * max) /\ Len(c) = Len(batch) + 1 /\ c \in Seq(Nat)
      BY <1>0, <1>t, <2>2, AddOne DEF InOrder
    <2>4. CASE Flushed(c)
      <3>1. Len(c) = max
        BY <1>t, <2>2, <2>3, <2>4 DEF Flushed
      <3>2. /\ \A i \in 1..Len(requests') : NumberedFrom(requests'[i], (i - 1) * max)
            /\ Len(requests') * max = Len(requests) * max + Len(c)
        BY <1>0, <1>t, <2>1, <2>2, <2>3, <2>4, <3>1, PutAside DEF InOrder
      <3>3. batch' = <<>> /\ Len(batch') = 0
        BY <2>1, <2>4
      <3>4. Len(requests') * max \in Nat /\ wanted' = Len(requests') * max + Len(batch')
        BY <1>t, <2>1, <2>2, <2>3, <3>2, <3>3
      <3> QED
        BY <1>0, <2>1, <3>2, <3>3, <3>4, EmptyNumbered DEF Numbered, InOrder, NothingLeft
    <2>5. CASE ~Flushed(c)
      <3>1. requests' = requests /\ batch' = c
        BY <2>1, <2>5
      <3>2. wanted' = Len(requests') * max + Len(batch')
        BY <1>t, <2>1, <2>2, <2>3, <3>1
      <3>3. InOrder'
        BY <1>0, <2>2, <2>3, <3>1 DEF InOrder
      <3>4. NothingLeft'
        BY <2>1 DEF NothingLeft
      <3> QED
        BY <1>0, <3>2, <3>3, <3>4 DEF Numbered
    <2> QED
      BY <2>4, <2>5
  <1>5. CASE Directory
    BY <1>0, <1>5 DEF Directory, Numbered, InOrder, NothingLeft
  <1>6. CASE Finish
    <2>1. /\ wanted = Len(requests) * max + Len(batch) /\ InOrder
          /\ Len(batch) <= max /\ \A i \in 1..Len(requests) : Len(requests[i]) = max
      BY <1>0, <1>6 DEF Finish, Inv, Filling, Numbered
    <2>2. CASE Len(batch) > 0
      <3>1. requests' = Append(requests, batch) /\ batch' = <<>> /\ wanted' = wanted
        BY <1>6, <2>2 DEF Finish
      <3>2. /\ Len(requests') = Len(requests) + 1 /\ requests' # <<>>
            /\ requests'[Len(requests')] = batch /\ Len(requests) \in Nat
        BY <1>t, <3>1
      <3>3. ASSUME NEW i \in 1..Len(requests')
            PROVE  NumberedFrom(requests'[i], (i - 1) * max)
        <4>1. CASE i = Len(requests) + 1
          <5>1. requests'[i] = batch /\ i - 1 = Len(requests)
            BY <3>2, <4>1
          <5> QED
            BY <1>0, <2>1, <5>1 DEF InOrder
        <4>2. CASE i # Len(requests) + 1
          <5>1. i \in 1..Len(requests) /\ requests'[i] = requests[i]
            BY <1>t, <3>1, <3>2, <4>2
          <5> QED
            BY <1>0, <2>1, <5>1 DEF InOrder
        <4> QED
          BY <4>1, <4>2
      <3>4. wanted' = (Len(requests') - 1) * max + Len(requests'[Len(requests')])
        <4>1. Len(requests') - 1 = Len(requests)
          BY <3>2
        <4> QED
          BY <2>1, <3>1, <3>2, <4>1
      <3>5. Len(requests') * max \in Nat
        BY <1>t, <3>2
      <3>6. InOrder'
        BY <1>0, <3>1, <3>3, <3>5, EmptyNumbered DEF InOrder
      <3>7. NothingLeft'
        BY <1>0, <3>2, <3>4 DEF NothingLeft
      <3> QED
        BY <1>6, <3>6, <3>7 DEF Numbered, Finish
    <2>3. CASE ~(Len(batch) > 0)
      <3>1. requests' = requests /\ batch' = <<>> /\ wanted' = wanted /\ Len(batch) = 0
        BY <1>6, <1>t, <2>3 DEF Finish
      <3>2. InOrder'
        BY <1>0, <1>t, <2>1, <3>1, EmptyNumbered DEF InOrder
      <3>3. CASE requests = <<>>
        BY <1>0, <1>6, <1>t, <2>1, <3>1, <3>2, <3>3 DEF Numbered, NothingLeft, Finish
      <3>4. CASE requests # <<>>
        <4>1. Len(requests) \in Nat /\ Len(requests) # 0
          BY <1>t, <3>4
        <4>2. Len(requests) * max = (Len(requests) - 1) * max + max
          BY <1>t, <4>1
        <4>3. Len(requests[Len(requests)]) = max
          BY <2>1, <4>1
        <4>4. NothingLeft'
          BY <1>0, <1>t, <2>1, <3>1, <3>4, <4>1, <4>2, <4>3 DEF NothingLeft
        <4> QED
          BY <1>6, <3>2, <4>4 DEF Numbered, Finish
      <3> QED
        BY <3>3, <3>4
    <2> QED
      BY <2>2, <2>3
  <1>7. CASE UNCHANGED vars
    BY <1>7 DEF vars, Numbered, InOrder, NothingLeft
  <1> QED
    BY <1>1, <1>2, <1>3, <1>4, <1>5, <1>6, <1>7 DEF Next

(* In every state the variables have their types: the counters of metrics  *)
(* and matches left never go below zero, whichever matches Finds return.   *)
THEOREM TypeCorrect == Spec => []TypeOK
  <1>1. Inv => TypeOK
    BY DEF Inv
  <1> QED
    BY <1>1, InvInit, InvStep, PTL DEF Spec

(* For every limit and every request, no batch exceeds the limit or is     *)
(* empty.                                                                  *)
THEOREM BatchesBounded == Spec => []BatchSizes
  <1>1. Inv => BatchSizes
    BY DEF Inv, TypeOK, Filling, Filled, BatchSizes
  <1> QED
    BY <1>1, InvInit, InvStep, PTL DEF Spec

(* All batches but the last are full: splitRequest sends as few requests   *)
(* as the limit allows.                                                    *)
THEOREM BatchesFull == Spec => []FullBatches
  <1>1. Inv => FullBatches
    BY DEF Inv, TypeOK, Filling, Filled, FullBatches
  <1> QED
    BY <1>1, InvInit, InvStep, PTL DEF Spec

(* No metric is sent twice or reordered by the batches, and none is        *)
(* skipped between two of them.                                            *)
THEOREM OrderKept == Spec => []InOrder
  <1>1. Inv /\ Numbered => InOrder
    BY DEF Numbered, InOrder, NothingLeft
  <1> QED
    BY <1>1, InvInit, InvStep, NumberedInit, NumberedStep, PTL DEF Spec

(* No metric the loop decided to fetch is missing from the batches it      *)
(* hands out.                                                              *)
THEOREM AllHandedOut == Spec => []NothingLeft
  <1>1. Inv /\ Numbered => NothingLeft
    BY DEF Numbered, InOrder, NothingLeft
  <1> QED
    BY <1>1, InvInit, InvStep, NumberedInit, NumberedStep, PTL DEF Spec
=============================================================================
