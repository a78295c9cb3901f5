-------------------------- MODULE BroadcastProofs --------------------------
(***************************************************************************)
(* Proofs about Broadcast, for any number of calls, backends, batches and  *)
(* slots, in both fetch modes.                                             *)
(***************************************************************************)
EXTENDS Broadcast, FiniteSetTheorems, TLAPS

(* The goroutines of a finite set of calls are finitely many.              *)
LEMMA GoroutinesFinite == IsFiniteSet(Goroutines)
  <1> DEFINE Pairs == (Calls \X Backends) \X (0..MaxParts)
             f == [p \in Pairs |-> <<p[1][1], p[1][2], p[2]>>]
  <1>1. IsFiniteSet(0..MaxParts)
    BY BroadcastAssumption, FS_Interval
  <1>2. IsFiniteSet(Pairs)
    BY <1>1, BroadcastAssumption, FS_Product
  <1>3. f \in [Pairs -> Goroutines]
    BY DEF Goroutines
  <1>4. ASSUME NEW g \in Goroutines PROVE \E p \in Pairs : f[p] = g
    <2>1. PICK c \in Calls, b \in Backends, i \in 0..MaxParts : g = <<c, b, i>>
      BY DEF Goroutines
    <2>2. <<<<c, b>>, i>> \in Pairs
      OBVIOUS
    <2>3. f[<<<<c, b>>, i>>] = g
      BY <2>1, <2>2
    <2> QED
      BY <2>2, <2>3
  <1>5. f \in Surjection(Pairs, Goroutines)
    BY <1>3, <1>4 DEF Surjection
  <1> QED
    BY <1>2, <1>5, FS_Surjection

(* The goroutines that hold slots of a backend are finitely many.          *)
LEMMA HoldersFinite ==
  ASSUME NEW b \in Backends
  PROVE  IsFiniteSet(HoldersOf(b)) /\ Cardinality(HoldersOf(b)) \in Nat
  BY GoroutinesFinite, FS_Subset, FS_CardinalityType DEF HoldersOf

(* The part of TypeOK that no limiter argument is needed for.              *)
TypeButUsed ==
  /\ pc \in [Calls -> {"idle", "gather", "return", "done"}]
  /\ op \in [Calls -> AllOps]
  /\ ctxDone \in [Calls -> BOOLEAN]
  /\ targets \in [Calls -> SUBSET Backends]
  /\ go \in [Goroutines -> GStates]
  /\ todo \in [Goroutines -> SUBSET Parts]
  /\ resp \in [Goroutines -> [data : SUBSET Parts, errs : SUBSET Errs]]
  /\ chan \in [Calls -> Seq(Goroutines)]
  /\ count \in [Calls -> Nat]
  /\ result \in [Calls -> [data : SUBSET (Backends \X Parts), errs : SUBSET Errs]]
  /\ outcome \in [Calls -> Outcomes]

(* The components of a goroutine.                                          *)
LEMMA GoroutineParts ==
  ASSUME NEW g \in Goroutines
  PROVE  /\ g[1] \in Calls /\ g[2] \in Backends /\ g[3] \in 0..MaxParts
         /\ g = <<g[1], g[2], g[3]>>
  BY DEF Goroutines

(* Every step keeps the types, the limiter's counters aside.               *)
LEMMA TypeStep == TypeButUsed /\ [Next]_vars => TypeButUsed'
  <1> SUFFICES ASSUME TypeButUsed, [Next]_vars PROVE TypeButUsed'
    OBVIOUS
  <1> USE DEF TypeButUsed
  <1>1. ASSUME NEW c \in Calls, StartCall(c) PROVE TypeButUsed'
    <2>1. PICK o \in Ops, bs \in SUBSET Backends : DoRequest(c, o, bs)
      BY <1>1 DEF StartCall
    <2>2. go' \in [Goroutines -> GStates]
      BY <2>1 DEF DoRequest, GStates
    <2>3. todo' \in [Goroutines -> SUBSET Parts]
      BY <2>1, BroadcastAssumption DEF DoRequest, Parts
    <2>4. op' \in [Calls -> AllOps] /\ targets' \in [Calls -> SUBSET Backends]
      BY <2>1, BroadcastAssumption DEF DoRequest
    <2>5. resp' \in [Goroutines -> [data : SUBSET Parts, errs : SUBSET Errs]]
      BY <2>1 DEF DoRequest, NoResponse
    <2>6. result' \in [Calls -> [data : SUBSET (Backends \X Parts), errs : SUBSET Errs]]
      BY <2>1 DEF DoRequest, NoResponse
    <2> QED
      BY <2>1, <2>2, <2>3, <2>4, <2>5, <2>6 DEF DoRequest, Outcomes
  <1>2. ASSUME NEW c \in Calls, Deadline(c) PROVE TypeButUsed'
    BY <1>2 DEF Deadline
  <1>3. ASSUME NEW c \in Calls, Gather(c) PROVE TypeButUsed'
    <2> DEFINE h == Head(chan[c])
    <2>1. h \in Goroutines /\ Tail(chan[c]) \in Seq(Goroutines)
      BY <1>3 DEF Gather
    <2>2. {<<h[2], i>> : i \in resp[h].data} \in SUBSET (Backends \X Parts)
      BY <2>1, GoroutineParts
    <2>3. result' \in [Calls -> [data : SUBSET (Backends \X Parts), errs : SUBSET Errs]]
      BY <1>3, <2>1, <2>2 DEF Gather, Merge
    <2> QED
      BY <1>3, <2>1, <2>3 DEF Gather
  <1>4. ASSUME NEW c \in Calls, GatherTimeout(c) PROVE TypeButUsed'
    BY <1>4 DEF GatherTimeout, AddError, Errs
  <1>5. ASSUME NEW c \in Calls, Return(c) PROVE TypeButUsed'
    <2>1. outcome' \in [Calls -> Outcomes]
      BY <1>5 DEF Return, Outcomes, AllOps, FetchOutcome, FindOutcome,
                  InfoOutcome, TagOutcome
    <2> QED
      BY <1>5, <2>1 DEF Return
  <1>6. ASSUME NEW g \in Goroutines, g[3] = 0, Split(g[1], g[2]) PROVE TypeButUsed'
    <2> DEFINE c == g[1]
               b == g[2]
               f == Fetcher(c, b)
    <2>1. c \in Calls /\ b \in Backends /\ f = g
      BY <1>6, GoroutineParts DEF Fetcher
    <2>2. PICK s \in SplitResults : SplitInto(c, b, s)
      BY <1>6 DEF Split
    <2>3. s \in [n : 0..MaxParts, err : Errs \cup {"nil"}]
      BY BroadcastAssumption DEF SplitResults
    <2>4. go' \in [Goroutines -> GStates]
      BY <2>2 DEF SplitInto, SplitFails, OneByOne, AllAtOnce, GStates
    <2>5. resp' \in [Goroutines -> [data : SUBSET Parts, errs : SUBSET Errs]]
      <3>1. CASE SplitFails(c, b, s)
        <4>1. {s.err} \in SUBSET Errs
          BY <2>3, <3>1 DEF SplitFails
        <4> QED
          BY <2>1, <3>1, <4>1 DEF SplitFails, AddError
      <3> QED
        BY <2>2, <3>1 DEF SplitInto, OneByOne, AllAtOnce
    <2>6. todo' \in [Goroutines -> SUBSET Parts]
      <3>1. 1..s.n \subseteq Parts
        BY <2>3, BroadcastAssumption DEF Parts
      <3>2. ASSUME NEW x \in Goroutines, x \in {<<c, b, i>> : i \in 1..s.n}
            PROVE  {x[3]} \in SUBSET Parts
        <4>1. PICK i \in 1..s.n : x = <<c, b, i>>
          BY <3>2
        <4>2. x[3] = i
          BY <4>1
        <4> QED
          BY <3>1, <4>2
      <3>3. CASE OneByOne(c, b, s)
        BY <2>1, <3>1, <3>3 DEF OneByOne
      <3>4. CASE AllAtOnce(c, b, s)
        BY <3>2, <3>4 DEF AllAtOnce
      <3> QED
        BY <2>2, <3>3, <3>4 DEF SplitInto, SplitFails
    <2> QED
      BY <2>2, <2>4, <2>5, <2>6 DEF SplitInto, callVars
  <1>7. ASSUME NEW g \in Goroutines, Enter(g) PROVE TypeButUsed'
    BY <1>7 DEF Enter, callVars, GStates
  <1>8. ASSUME NEW g \in Goroutines, EnterTimeout(g) PROVE TypeButUsed'
    BY <1>8 DEF EnterTimeout, AddError, callVars, GStates, Errs
  <1>9. ASSUME NEW g \in Goroutines, CallReturns(g) PROVE TypeButUsed'
    <2>1. PICK i \in todo[g], a \in Answers : Answer(g, i, a)
      BY <1>9 DEF CallReturns
    <2>2. i \in Parts
      OBVIOUS
    <2>3. resp' \in [Goroutines -> [data : SUBSET Parts, errs : SUBSET Errs]]
      BY <2>1, <2>2 DEF Answer, Errs
    <2> QED
      BY <2>1, <2>3 DEF Answer, callVars, GStates
  <1>10. ASSUME NEW g \in Goroutines, Reply(g) PROVE TypeButUsed'
    BY <1>10, GoroutineParts DEF Reply, callVars, GStates
  <1>11. ASSUME NEW g \in Goroutines, Leave(g) PROVE TypeButUsed'
    BY <1>11 DEF Leave, callVars, GStates
  <1>12. CASE UNCHANGED vars
    BY <1>12 DEF vars, callVars
  <1> QED
    BY <1>1, <1>2, <1>3, <1>4, <1>5, <1>6, <1>7, <1>8, <1>9, <1>10, <1>11, <1>12
       DEF Next, GoroutineStep

-----------------------------------------------------------------------------
(* Which goroutines hold a slot, across a step.                            *)

(* The goroutines of the batches exist only once the fetcher that starts   *)
(* them has ended.                                                         *)
BatchesAfterSplit ==
  \A g \in Goroutines :
    g[3] # 0 /\ go[Fetcher(g[1], g[2])] # "gone" => go[g] = "none"

(* Before the split no goroutine of a batch runs.                          *)
LEMMA BatchesStep == TypeButUsed /\ BatchesAfterSplit /\ [Next]_vars => BatchesAfterSplit'
  <1> SUFFICES ASSUME TypeButUsed, BatchesAfterSplit, [Next]_vars,
                      NEW g \in Goroutines, g[3] # 0,
                      go'[Fetcher(g[1], g[2])] # "gone"
               PROVE  go'[g] = "none"
    BY DEF BatchesAfterSplit
  <1> DEFINE f == Fetcher(g[1], g[2])
  <1> USE DEF TypeButUsed
  <1>0. f \in Goroutines /\ f # g /\ f[1] = g[1] /\ f[2] = g[2] /\ f[3] = 0
    BY GoroutineParts, BroadcastAssumption DEF Fetcher, Goroutines
  <1>1. ASSUME NEW c \in Calls, StartCall(c) PROVE go'[g] = "none"
    <2>1. PICK o \in Ops, bs \in SUBSET Backends : DoRequest(c, o, bs)
      BY <1>1 DEF StartCall
    <2> QED
      BY <1>0, <2>1 DEF DoRequest, BatchesAfterSplit
  <1>2. ASSUME NEW c \in Calls, Deadline(c) \/ Gather(c) \/ GatherTimeout(c) \/ Return(c)
        PROVE  go'[g] = "none"
    BY <1>2 DEF Deadline, Gather, GatherTimeout, Return, BatchesAfterSplit
  <1>3. ASSUME NEW h \in Goroutines, h[3] = 0, Split(h[1], h[2])
        PROVE  go'[g] = "none"
    <2>1. Fetcher(h[1], h[2]) = h /\ go[h] = "split" /\ h # g
      BY <1>3, GoroutineParts DEF Fetcher, Split
    <2>2. PICK s \in SplitResults : SplitInto(h[1], h[2], s)
      BY <1>3 DEF Split
    <2>3. CASE SplitFails(h[1], h[2], s) \/ OneByOne(h[1], h[2], s)
      BY <1>0, <2>1, <2>3 DEF SplitFails, OneByOne, BatchesAfterSplit
    <2>4. CASE AllAtOnce(h[1], h[2], s)
      <3>1. CASE g \in {<<h[1], h[2], i>> : i \in 1..s.n}
        <4>1. f = h
          BY <2>1, <3>1 DEF Fetcher
        <4>2. h \notin {<<h[1], h[2], i>> : i \in 1..s.n}
          BY <1>3
        <4>3. go'[h] = "gone"
          BY <2>1, <2>4, <4>2 DEF AllAtOnce
        <4> QED
          BY <4>1, <4>3
      <3>2. CASE g \notin {<<h[1], h[2], i>> : i \in 1..s.n}
        <4>1. go'[g] = go[g]
          BY <2>1, <2>4, <3>2 DEF AllAtOnce
        <4>2. go[f] # "gone"
          <5>1. f \notin {<<h[1], h[2], i>> : i \in 1..s.n}
            BY <1>0
          <5> QED
            BY <1>0, <2>4, <5>1 DEF AllAtOnce
        <4> QED
          BY <4>1, <4>2 DEF BatchesAfterSplit
      <3> QED
        BY <3>1, <3>2
    <2> QED
      BY <2>2, <2>3, <2>4 DEF SplitInto
  <1>4. ASSUME NEW h \in Goroutines,
               Enter(h) \/ EnterTimeout(h) \/ CallReturns(h) \/ Reply(h) \/ Leave(h)
        PROVE  go'[g] = "none"
    <2>1. go[h] \notin {"none", "gone"}
      BY <1>4 DEF Enter, EnterTimeout, CallReturns, Reply, Leave
    <2>2. \E v : go' = [go EXCEPT ![h] = v]
      BY <1>4 DEF Enter, EnterTimeout, CallReturns, Answer, Reply, Leave
    <2> QED
      BY <1>0, <2>1, <2>2 DEF BatchesAfterSplit
  <1>5. CASE UNCHANGED vars
    BY <1>5 DEF vars, BatchesAfterSplit
  <1> QED
    BY <1>1, <1>2, <1>3, <1>4, <1>5 DEF Next, GoroutineStep

(* Steps other than Enter and Leave leave the holders of slots alone.      *)
LEMMA HoldersStep ==
  ASSUME TypeButUsed, BatchesAfterSplit, Next, NEW b \in Backends,
         \A g \in Goroutines : ~Enter(g) /\ ~Leave(g)
  PROVE  HoldersOf(b)' = HoldersOf(b) /\ used' = used
  <1> USE DEF TypeButUsed
  <1> SUFFICES /\ \A g \in Goroutines : (go[g] \in Holding) = (go'[g] \in Holding)
               /\ used' = used
    BY DEF HoldersOf
  <1>1. ASSUME NEW c \in Calls, StartCall(c)
        PROVE  /\ \A g \in Goroutines : (go[g] \in Holding) = (go'[g] \in Holding)
               /\ used' = used
    <2>1. PICK o \in Ops, bs \in SUBSET Backends : DoRequest(c, o, bs)
      BY <1>1 DEF StartCall
    <2>2. ASSUME NEW g \in Goroutines
          PROVE  (go[g] \in Holding) = (go'[g] \in Holding)
      <3>1. CASE g[1] # c
        BY <2>1, <3>1 DEF DoRequest
      <3>2. CASE g[1] = c
        <4>1. go[g] \notin Holding
          BY <1>1, <3>2 DEF StartCall, OfCall, Running, Holding, GStates
        <4>2. go'[g] \notin Holding
          BY <2>1, <3>2 DEF DoRequest, Holding
        <4> QED
          BY <4>1, <4>2
      <3> QED
        BY <3>1, <3>2
    <2> QED
      BY <2>1, <2>2 DEF DoRequest
  <1>2. ASSUME NEW c \in Calls, Deadline(c) \/ Gather(c) \/ GatherTimeout(c) \/ Return(c)
        PROVE  go' = go /\ used' = used
    BY <1>2 DEF Deadline, Gather, GatherTimeout, Return
  <1>3. ASSUME NEW h \in Goroutines, h[3] = 0, Split(h[1], h[2])
        PROVE  /\ \A g \in Goroutines : (go[g] \in Holding) = (go'[g] \in Holding)
               /\ used' = used
    <2>1. Fetcher(h[1], h[2]) = h /\ go[h] = "split"
      BY <1>3, GoroutineParts DEF Fetcher, Split
    <2>2. PICK s \in SplitResults : SplitInto(h[1], h[2], s)
      BY <1>3 DEF Split
    <2>3. CASE SplitFails(h[1], h[2], s) \/ OneByOne(h[1], h[2], s)
      BY <2>1, <2>2, <2>3 DEF SplitInto, SplitFails, OneByOne, Holding
    <2>4. CASE AllAtOnce(h[1], h[2], s)
      <3> DEFINE Started == {<<h[1], h[2], i>> : i \in 1..s.n}
      <3>1. ASSUME NEW g \in Goroutines, g \in Started
            PROVE  go[g] \notin Holding /\ go'[g] \notin Holding
        <4>1. g[3] # 0 /\ Fetcher(g[1], g[2]) = h
          BY <2>1, <3>1 DEF Fetcher
        <4>2. go[g] = "none"
          BY <2>1, <4>1 DEF BatchesAfterSplit
        <4>3. go'[g] = "enter"
          BY <2>4, <3>1 DEF AllAtOnce
        <4> QED
          BY <4>2, <4>3 DEF Holding
      <3>2. ASSUME NEW g \in Goroutines, g \notin Started
            PROVE  (go[g] \in Holding) = (go'[g] \in Holding)
        BY <2>1, <2>4, <3>2 DEF AllAtOnce, Holding
      <3> QED
        BY <2>2, <3>1, <3>2 DEF SplitInto
    <2> QED
      BY <2>2, <2>3, <2>4 DEF SplitInto
  <1>4. ASSUME NEW h \in Goroutines, EnterTimeout(h) \/ CallReturns(h) \/ Reply(h)
        PROVE  /\ \A g \in Goroutines : (go[g] \in Holding) = (go'[g] \in Holding)
               /\ used' = used
    BY <1>4 DEF EnterTimeout, CallReturns, Answer, Reply, Holding
  <1> QED
    BY <1>1, <1>2, <1>3, <1>4 DEF Next, GoroutineStep

(* Enter adds one holder.                                                  *)
LEMMA EnterHolders ==
  ASSUME TypeButUsed, NEW g \in Goroutines, Enter(g), NEW b \in Backends
  PROVE  HoldersOf(b)' = IF b = g[2] THEN HoldersOf(b) \cup {g} ELSE HoldersOf(b)
  BY DEF TypeButUsed, Enter, HoldersOf, Holding

(* Leave takes one holder away.                                            *)
LEMMA LeaveHolders ==
  ASSUME TypeButUsed, NEW g \in Goroutines, Leave(g), NEW b \in Backends
  PROVE  HoldersOf(b)' = IF b = g[2] THEN HoldersOf(b) \ {g} ELSE HoldersOf(b)
  BY DEF TypeButUsed, Leave, HoldersOf, Holding

(* The inductive invariant: the counter of a limiter stays in its range    *)
(* because it is the number of holders, and a goroutine about to leave is  *)
(* one of them.                                                            *)
IInv ==
  /\ TypeButUsed
  /\ BatchesAfterSplit
  /\ used \in [Backends -> 0..Limit]
  /\ Limit > 0 => \A b \in Backends : used[b] = Cardinality(HoldersOf(b))

(* The inductive invariant holds at the start.                             *)
LEMMA IInvInit == Init => IInv
  <1> SUFFICES ASSUME Init PROVE IInv
    OBVIOUS
  <1>1. TypeButUsed
    BY BroadcastAssumption
       DEF Init, TypeButUsed, AllOps, NoResponse, GStates, Outcomes
  <1>2. \A b \in Backends : HoldersOf(b) = {}
    BY DEF Init, HoldersOf, Holding
  <1>3. BatchesAfterSplit
    BY DEF Init, BatchesAfterSplit
  <1>4. \A b \in Backends : used[b] = Cardinality(HoldersOf(b))
    BY <1>2, FS_EmptySet DEF Init
  <1>5. used \in [Backends -> 0..Limit]
    BY BroadcastAssumption DEF Init
  <1> QED
    BY <1>1, <1>3, <1>4, <1>5 DEF IInv

(* Every step keeps the inductive invariant.                               *)
LEMMA IInvStep == IInv /\ [Next]_vars => IInv'
  <1> SUFFICES ASSUME IInv, [Next]_vars PROVE IInv'
    OBVIOUS
  <1>1. TypeButUsed' /\ BatchesAfterSplit'
    BY TypeStep, BatchesStep DEF IInv
  <1>2. ASSUME NEW g \in Goroutines, Enter(g)
        PROVE  /\ used' \in [Backends -> 0..Limit]
               /\ Limit > 0 => \A b \in Backends : used'[b] = Cardinality(HoldersOf(b)')
    <2>1. g[2] \in Backends
      BY GoroutineParts
    <2>2. used' \in [Backends -> 0..Limit]
      BY <1>2, <2>1, BroadcastAssumption DEF IInv, Enter
    <2>3. ASSUME Limit > 0, NEW b \in Backends
          PROVE  used'[b] = Cardinality(HoldersOf(b)')
      <3>1. g \notin HoldersOf(b)
        BY <1>2 DEF Enter, HoldersOf, Holding
      <3>2. Cardinality(HoldersOf(b) \cup {g}) = Cardinality(HoldersOf(b)) + 1
        BY <3>1, HoldersFinite, FS_AddElement
      <3>3. HoldersOf(b)' = IF b = g[2] THEN HoldersOf(b) \cup {g} ELSE HoldersOf(b)
        BY <1>2, EnterHolders DEF IInv
      <3> QED
        BY <1>2, <2>1, <2>3, <3>2, <3>3 DEF IInv, Enter
    <2> QED
      BY <2>2, <2>3
  <1>3. ASSUME NEW g \in Goroutines, Leave(g)
        PROVE  /\ used' \in [Backends -> 0..Limit]
               /\ Limit > 0 => \A b \in Backends : used'[b] = Cardinality(HoldersOf(b)')
    <2>1. g[2] \in Backends
      BY GoroutineParts
    <2>2. ASSUME NEW b \in Backends
          PROVE  /\ HoldersOf(b)' = IF b = g[2] THEN HoldersOf(b) \ {g} ELSE HoldersOf(b)
                 /\ b = g[2] => /\ Cardinality(HoldersOf(b) \ {g}) = Cardinality(HoldersOf(b)) - 1
                                /\ Cardinality(HoldersOf(b) \ {g}) \in Nat
      <3>1. b = g[2] => g \in HoldersOf(b)
        BY <1>3 DEF Leave, HoldersOf, Holding
      <3>2. IsFiniteSet(HoldersOf(b) \ {g})
        BY HoldersFinite, FS_RemoveElement
      <3> QED
        BY <1>3, <3>1, <3>2, HoldersFinite, FS_RemoveElement, FS_CardinalityType,
           LeaveHolders DEF IInv
    <2>3. used' \in [Backends -> 0..Limit]
      <3>1. CASE Limit > 0
        <4>1. used[g[2]] - 1 \in 0..Limit
          <5>1. used[g[2]] \in 0..Limit /\ used[g[2]] = Cardinality(HoldersOf(g[2]))
            BY <2>1, <3>1 DEF IInv
          <5>2. Cardinality(HoldersOf(g[2])) - 1 \in Nat
            BY <2>1, <2>2
          <5> QED
            BY <5>1, <5>2, BroadcastAssumption
        <4>2. used' = [used EXCEPT ![g[2]] = used[g[2]] - 1]
          BY <1>3, <3>1 DEF Leave
        <4> QED
          BY <4>1, <4>2 DEF IInv
      <3>2. CASE ~(Limit > 0)
        BY <1>3, <3>2 DEF IInv, Leave
      <3> QED
        BY <3>1, <3>2
    <2>4. ASSUME Limit > 0, NEW b \in Backends
          PROVE  used'[b] = Cardinality(HoldersOf(b)')
      BY <1>3, <2>1, <2>2, <2>4 DEF IInv, Leave
    <2> QED
      BY <2>3, <2>4
  <1>4. CASE Next /\ \A g \in Goroutines : ~Enter(g) /\ ~Leave(g)
    BY <1>1, <1>4, HoldersStep, BroadcastAssumption DEF IInv
  <1>5. CASE UNCHANGED vars
    <2>1. \A b \in Backends : HoldersOf(b)' = HoldersOf(b)
      BY <1>5 DEF vars, HoldersOf
    <2> QED
      BY <1>1, <1>5, <2>1 DEF IInv, vars
  <1> QED
    BY <1>1, <1>2, <1>3, <1>4, <1>5 DEF IInv

(* Every state of a broadcast group has the declared types; in particular  *)
(* a limiter's counter never leaves 0..Limit.                              *)
THEOREM TypeCorrect == Spec => []TypeOK
  <1>1. IInv => TypeOK
    BY DEF IInv, TypeButUsed, TypeOK
  <1> QED
    BY <1>1, IInvInit, IInvStep, PTL DEF Spec

(* The slots in use are exactly those of the goroutines between Enter and  *)
(* Leave, in both fetch modes and for any interleaving of calls, timeouts  *)
(* and answers: no timeout path leaks a slot or returns one twice.         *)
THEOREM SlotsAccounted == Spec => []SlotAccounting
  <1>1. IInv => SlotAccounting
    BY BroadcastAssumption DEF IInv, SlotAccounting
  <1> QED
    BY <1>1, IInvInit, IInvStep, PTL DEF Spec

-----------------------------------------------------------------------------
(* Room in the channel, when batches are fetched one by one.               *)

(* The backends whose fetcher has sent its response.                       *)
Sent(c) == {b \in Backends : go[Fetcher(c, b)] \in {"leave", "gone"}}

(* Without doMultiFetch only fetchers run, each for a target, and every    *)
(* response sent is in the channel or counted by the gather loop.          *)
OneReplyEach ==
  /\ \A g \in Goroutines : g[3] # 0 => go[g] = "none"
  /\ \A c \in Calls, b \in Backends :
       go[Fetcher(c, b)] # "none" => b \in targets[c]
  /\ \A c \in Calls : Len(chan[c]) + count[c] = Cardinality(Sent(c))

(* The fetcher of a call for a backend is a goroutine.                     *)
LEMMA FetcherType ==
  ASSUME NEW c \in Calls, NEW b \in Backends
  PROVE  /\ Fetcher(c, b) \in Goroutines
         /\ Fetcher(c, b)[1] = c /\ Fetcher(c, b)[2] = b /\ Fetcher(c, b)[3] = 0
  BY BroadcastAssumption DEF Fetcher, Goroutines

(* The fetchers that sent a response are finitely many.                    *)
LEMMA SentFinite ==
  ASSUME NEW c \in Calls
  PROVE  IsFiniteSet(Sent(c)) /\ Cardinality(Sent(c)) \in Nat
  BY BroadcastAssumption, FS_Subset, FS_CardinalityType DEF Sent

(* No fetcher has sent a response at the start.                            *)
LEMMA OneReplyEachInit == Init => OneReplyEach
  <1> SUFFICES ASSUME Init PROVE OneReplyEach
    OBVIOUS
  <1>1. ASSUME NEW c \in Calls PROVE Len(chan[c]) + count[c] = Cardinality(Sent(c))
    <2>1. Sent(c) = {}
      BY FetcherType DEF Init, Sent
    <2> QED
      BY <2>1, FS_EmptySet DEF Init
  <1> QED
    BY <1>1, FetcherType DEF Init, OneReplyEach

(* A goroutine that runs is the fetcher of a target.                       *)
LEMMA RunningIsFetcher ==
  ASSUME OneReplyEach, NEW g \in Goroutines, go[g] # "none"
  PROVE  g = Fetcher(g[1], g[2]) /\ g[1] \in Calls /\ g[2] \in targets[g[1]]
  BY GoroutineParts DEF OneReplyEach, Fetcher

(* A step of one goroutine that neither sends nor starts others.           *)
LEMMA QuietStep ==
  ASSUME TypeButUsed, OneReplyEach, NEW g \in Goroutines, NEW v \in GStates,
         go[g] # "none", go' = [go EXCEPT ![g] = v],
         go[g] \in {"leave", "gone"} <=> v \in {"leave", "gone"},
         targets' = targets, chan' = chan, count' = count
  PROVE  OneReplyEach'
  <1>1. \A x \in Goroutines : x[3] # 0 => go'[x] = "none"
    BY RunningIsFetcher, FetcherType DEF OneReplyEach, TypeButUsed
  <1>2. \A c \in Calls, b \in Backends : go'[Fetcher(c, b)] # "none" => b \in targets[c]
    BY FetcherType DEF OneReplyEach, TypeButUsed
  <1>3. \A c \in Calls : Sent(c)' = Sent(c)
    BY FetcherType DEF Sent, TypeButUsed
  <1> QED
    BY <1>1, <1>2, <1>3 DEF OneReplyEach

(* Every step keeps the count of responses to one per fetcher.             *)
LEMMA OneReplyEachStep ==
  ASSUME ~MultiFetch, TypeButUsed, OneReplyEach, [Next]_vars
  PROVE  OneReplyEach'
  <1>1. ASSUME NEW c \in Calls, StartCall(c) PROVE OneReplyEach'
    <2>1. PICK o \in Ops, bs \in SUBSET Backends : DoRequest(c, o, bs)
      BY <1>1 DEF StartCall
    <2>2. \A x \in Goroutines : x[3] # 0 => go'[x] = "none"
      BY <2>1 DEF DoRequest, OneReplyEach
    <2>3. ASSUME NEW d \in Calls, NEW b \in Backends, go'[Fetcher(d, b)] # "none"
          PROVE  b \in targets'[d]
      <3>1. CASE d = c
        BY <2>1, <2>3, <3>1, FetcherType DEF DoRequest, TypeButUsed
      <3>2. CASE d # c
        BY <2>1, <2>3, <3>2, FetcherType DEF DoRequest, OneReplyEach, TypeButUsed
      <3> QED
        BY <3>1, <3>2
    <2>4. ASSUME NEW d \in Calls
          PROVE  Len(chan'[d]) + count'[d] = Cardinality(Sent(d)')
      <3>1. CASE d = c
        <4>1. Sent(d)' = {}
          BY <2>1, <3>1, FetcherType DEF DoRequest, Sent
        <4>2. chan'[d] = <<>> /\ count'[d] = 0
          BY <2>1, <3>1 DEF DoRequest, TypeButUsed
        <4> QED
          BY <4>1, <4>2, FS_EmptySet
      <3>2. CASE d # c
        <4>1. Sent(d)' = Sent(d)
          BY <2>1, <3>2, FetcherType DEF DoRequest, Sent
        <4>2. chan'[d] = chan[d] /\ count'[d] = count[d]
          BY <2>1, <3>2 DEF DoRequest, TypeButUsed
        <4> QED
          BY <4>1, <4>2 DEF OneReplyEach
      <3> QED
        BY <3>1, <3>2
    <2> QED
      BY <2>2, <2>3, <2>4 DEF OneReplyEach
  <1>2. ASSUME NEW c \in Calls, Deadline(c) \/ GatherTimeout(c) \/ Return(c)
        PROVE  OneReplyEach'
    <2>1. go' = go /\ targets' = targets /\ chan' = chan /\ count' = count
      BY <1>2 DEF Deadline, GatherTimeout, Return
    <2> QED
      BY <2>1 DEF OneReplyEach, Sent
  <1>3. ASSUME NEW c \in Calls, Gather(c) PROVE OneReplyEach'
    <2>1. go' = go /\ targets' = targets
      BY <1>3 DEF Gather
    <2>2. ASSUME NEW d \in Calls
          PROVE  Len(chan'[d]) + count'[d] = Len(chan[d]) + count[d]
      <3>1. CASE d = c
        <4>1. chan[c] \in Seq(Goroutines) /\ chan[c] # <<>> /\ count[c] \in Nat
          BY <1>3 DEF Gather, TypeButUsed
        <4>2. Len(Tail(chan[c])) = Len(chan[c]) - 1 /\ Len(chan[c]) \in Nat
          BY <4>1
        <4>3. chan'[c] = Tail(chan[c]) /\ count'[c] = count[c] + 1
          BY <1>3 DEF Gather, TypeButUsed
        <4> QED
          BY <3>1, <4>1, <4>2, <4>3
      <3>2. CASE d # c
        BY <1>3, <3>2 DEF Gather, TypeButUsed
      <3> QED
        BY <3>1, <3>2
    <2>3. \A d \in Calls : Sent(d)' = Sent(d)
      BY <2>1 DEF Sent
    <2> QED
      BY <2>1, <2>2, <2>3 DEF OneReplyEach
  <1>4. ASSUME NEW g \in Goroutines, g[3] = 0, Split(g[1], g[2]) PROVE OneReplyEach'
    <2>1. Fetcher(g[1], g[2]) = g /\ go[g] = "split"
      BY <1>4, GoroutineParts DEF Fetcher, Split
    <2>2. PICK s \in SplitResults : SplitInto(g[1], g[2], s)
      BY <1>4 DEF Split
    <2>3. PICK v \in {"fail", "enter"} : go' = [go EXCEPT ![g] = v]
      BY <2>1, <2>2 DEF SplitInto, SplitFails, OneByOne
    <2>4. targets' = targets /\ chan' = chan /\ count' = count
      BY <2>2 DEF SplitInto, callVars
    <2>5. v \in GStates /\ go[g] # "none"
          /\ (go[g] \in {"leave", "gone"} <=> v \in {"leave", "gone"})
      BY <2>1, <2>3 DEF GStates
    <2> QED
      BY <2>3, <2>4, <2>5, QuietStep
  <1>5. ASSUME NEW g \in Goroutines, Enter(g) \/ EnterTimeout(g) \/ CallReturns(g)
        PROVE  OneReplyEach'
    <2>1. go[g] \in {"enter", "call"}
      BY <1>5 DEF Enter, EnterTimeout, CallReturns
    <2>2. PICK v \in {"fail", "call", "reply"} : go' = [go EXCEPT ![g] = v]
      BY <1>5 DEF Enter, EnterTimeout, CallReturns, Answer
    <2>3. targets' = targets /\ chan' = chan /\ count' = count
      BY <1>5 DEF Enter, EnterTimeout, CallReturns, Answer, callVars
    <2>4. v \in GStates /\ go[g] # "none"
          /\ (go[g] \in {"leave", "gone"} <=> v \in {"leave", "gone"})
      BY <2>1, <2>2 DEF GStates
    <2> QED
      BY <2>2, <2>3, <2>4, QuietStep
  <1>6. ASSUME NEW g \in Goroutines, Leave(g) PROVE OneReplyEach'
    <2>1. go[g] = "leave" /\ go' = [go EXCEPT ![g] = "gone"]
      BY <1>6 DEF Leave
    <2>2. targets' = targets /\ chan' = chan /\ count' = count
      BY <1>6 DEF Leave, callVars
    <2>3. "gone" \in GStates /\ go[g] # "none"
          /\ (go[g] \in {"leave", "gone"} <=> "gone" \in {"leave", "gone"})
      BY <2>1 DEF GStates
    <2> QED
      BY <2>1, <2>2, <2>3, QuietStep
  <1>7. ASSUME NEW g \in Goroutines, Reply(g) PROVE OneReplyEach'
    <2> DEFINE c == g[1]
               b == g[2]
    <2>1. g = Fetcher(c, b) /\ c \in Calls /\ b \in targets[c] /\ b \in Backends
      BY <1>7, RunningIsFetcher, GoroutineParts DEF Reply
    <2>2. PICK v \in {"leave", "gone"} : go' = [go EXCEPT ![g] = v]
      BY <1>7 DEF Reply
    <2>3. targets' = targets /\ count' = count /\ chan' = [chan EXCEPT ![c] = Append(@, g)]
      BY <1>7 DEF Reply, callVars
    <2>4. \A x \in Goroutines : x[3] # 0 => go'[x] = "none"
      BY <2>1, <2>2, FetcherType DEF OneReplyEach, TypeButUsed
    <2>5. \A d \in Calls, e \in Backends : go'[Fetcher(d, e)] # "none" => e \in targets[d]
      <3>1. ASSUME NEW d \in Calls, NEW e \in Backends, go'[Fetcher(d, e)] # "none"
            PROVE  e \in targets[d]
        <4>1. CASE Fetcher(d, e) = g
          BY <2>1, <4>1, FetcherType
        <4>2. CASE Fetcher(d, e) # g
          BY <2>2, <3>1, <4>2, FetcherType DEF OneReplyEach, TypeButUsed
        <4> QED
          BY <4>1, <4>2
      <3> QED
        BY <3>1
    <2>6. Sent(c)' = Sent(c) \cup {b}
      <3>1. ASSUME NEW e \in Backends
            PROVE  (go'[Fetcher(c, e)] \in {"leave", "gone"})
                     = (e = b \/ go[Fetcher(c, e)] \in {"leave", "gone"})
        <4>1. CASE e = b
          BY <2>1, <2>2, <4>1 DEF TypeButUsed
        <4>2. CASE e # b
          <5>1. Fetcher(c, e) # g
            BY <2>1, <4>2, FetcherType
          <5> QED
            BY <2>1, <2>2, <4>2, <5>1, FetcherType DEF TypeButUsed
        <4> QED
          BY <4>1, <4>2
      <3> QED
        BY <2>1, <3>1 DEF Sent
    <2>7. b \notin Sent(c)
      BY <1>7, <2>1 DEF Sent, Reply
    <2>8. Cardinality(Sent(c)') = Cardinality(Sent(c)) + 1
      BY <2>1, <2>6, <2>7, SentFinite, FS_AddElement
    <2>9. Len(chan'[c]) = Len(chan[c]) + 1 /\ Len(chan[c]) \in Nat
      BY <2>1, <2>3 DEF TypeButUsed
    <2>10. ASSUME NEW d \in Calls
           PROVE  Len(chan'[d]) + count'[d] = Cardinality(Sent(d)')
      <3>1. CASE d = c
        BY <2>1, <2>3, <2>8, <2>9, <3>1 DEF OneReplyEach, TypeButUsed
      <3>2. CASE d # c
        <4>1. \A e \in Backends : Fetcher(d, e) # g
          BY <3>2, FetcherType
        <4>2. Sent(d)' = Sent(d)
          BY <2>2, <4>1, FetcherType DEF Sent, TypeButUsed
        <4> QED
          BY <2>3, <3>2, <4>2 DEF OneReplyEach, TypeButUsed
      <3> QED
        BY <3>1, <3>2
    <2> QED
      BY <2>3, <2>4, <2>5, <2>10 DEF OneReplyEach
  <1>8. CASE UNCHANGED vars
    BY <1>8 DEF vars, callVars, OneReplyEach, Sent
  <1> QED
    BY <1>1, <1>2, <1>3, <1>4, <1>5, <1>6, <1>7, <1>8 DEF Next, GoroutineStep

(* When doMultipleRequestsIfSplit is off, a response always finds room in  *)
(* the channel DoRequest made, so no goroutine waits on its send, also     *)
(* after the caller has returned.                                          *)
THEOREM RepliesAlwaysFit == ASSUME ~MultiFetch PROVE Spec => []RepliesFit
  <1>1. IInv /\ OneReplyEach => RepliesFit
    <2> SUFFICES ASSUME IInv, OneReplyEach, NEW g \in Goroutines,
                        go[g] \in {"reply", "fail"}
                 PROVE  CanSend(g[1])
      BY DEF RepliesFit
    <2> DEFINE c == g[1]
               b == g[2]
    <2>1. g = Fetcher(c, b) /\ c \in Calls /\ b \in targets[c]
      BY RunningIsFetcher
    <2>2. targets[c] \subseteq Backends /\ Len(chan[c]) \in Nat /\ count[c] \in Nat
      BY <2>1 DEF IInv, TypeButUsed
    <2>3. IsFiniteSet(targets[c]) /\ Cardinality(targets[c]) \in Nat
      BY <2>2, BroadcastAssumption, FS_Subset, FS_CardinalityType
    <2>4. Sent(c) \subseteq targets[c]
      BY <2>1 DEF Sent, OneReplyEach
    <2>5. b \notin Sent(c)
      BY <2>1 DEF Sent
    <2>6. Sent(c) \cup {b} \in SUBSET targets[c]
      BY <2>1, <2>4
    <2>7. Cardinality(Sent(c) \cup {b}) <= Cardinality(targets[c])
      BY <2>3, <2>6, FS_Subset
    <2>8. Cardinality(Sent(c) \cup {b}) = Cardinality(Sent(c)) + 1
      BY <2>1, <2>5, SentFinite, FS_AddElement
    <2>9. Len(chan[c]) + count[c] = Cardinality(Sent(c)) /\ Cardinality(Sent(c)) \in Nat
      BY <2>1, SentFinite DEF OneReplyEach
    <2> QED
      BY <2>2, <2>3, <2>7, <2>8, <2>9 DEF CanSend
  <1>2. IInv /\ OneReplyEach /\ [Next]_vars => OneReplyEach'
    BY OneReplyEachStep DEF IInv
  <1> QED
    BY <1>1, <1>2, IInvInit, IInvStep, OneReplyEachInit, PTL DEF Spec

-----------------------------------------------------------------------------
(* What a call without an error has, when batches are fetched one by one.  *)

(* What goroutine g asked for is answered, or it has an error to report.   *)
Settled(g) == todo[g] = {} \/ "error" \in resp[g].errs

(* The response of goroutine g is merged into the result of its call.      *)
Taken(g) ==
  /\ {<<g[2], i>> : i \in resp[g].data} \subseteq result[g[1]].data
  /\ resp[g].errs \subseteq result[g[1]].errs

Waiting(g) == \E i \in 1..Len(chan[g[1]]) : chan[g[1]][i] = g

(* No response is lost between the fetcher and the result, and none is     *)
(* sent before everything it stands for is settled.                        *)
NothingDropped ==
  \A g \in Goroutines :
    /\ go[g] = "none" => todo[g] = {} /\ resp[g] = NoResponse
    /\ go[g] = "split" => todo[g] = {}
    /\ go[g] \in {"reply", "fail", "leave", "gone"} => Settled(g)
    /\ go[g] \in {"leave", "gone"} => Waiting(g) \/ Taken(g)

(* The gather loop ends early only with an error in the result.            *)
GatheredAll ==
  \A c \in Calls :
    /\ pc[c] \in {"return", "done"} =>
         "error" \in result[c].errs \/ count[c] >= Cardinality(targets[c])
    /\ outcome[c] # "none" => pc[c] = "done"
    /\ outcome[c] = "ok" => "error" \notin result[c].errs

(* Both hold at the start.                                                 *)
LEMMA DroppedInit == Init => NothingDropped /\ GatheredAll
  BY DEF Init, NothingDropped, GatheredAll

(* Every step keeps the gather loop's account.                             *)
LEMMA GatheredStep ==
  ASSUME TypeButUsed, GatheredAll, [Next]_vars
  PROVE  GatheredAll'
  <1> USE DEF TypeButUsed, GatheredAll
  <1>1. ASSUME NEW c \in Calls, StartCall(c) PROVE GatheredAll'
    <2>1. PICK o \in Ops, bs \in SUBSET Backends : DoRequest(c, o, bs)
      BY <1>1 DEF StartCall
    <2> QED
      BY <2>1 DEF DoRequest
  <1>2. ASSUME NEW c \in Calls, Deadline(c) PROVE GatheredAll'
    BY <1>2 DEF Deadline
  <1>3. ASSUME NEW c \in Calls, Gather(c) PROVE GatheredAll'
    <2>1. pc[c] = "gather" /\ outcome' = outcome /\ targets' = targets
      BY <1>3 DEF Gather
    <2>2. /\ count'[c] = count[c] + 1 /\ count[c] \in Nat
          /\ pc'[c] = IF count[c] + 1 < Cardinality(targets[c]) THEN "gather" ELSE "return"
      BY <1>3 DEF Gather
    <2>3. Cardinality(targets[c]) \in Nat
      BY BroadcastAssumption, FS_Subset, FS_CardinalityType
    <2>4. \A d \in Calls \ {c} : pc'[d] = pc[d] /\ count'[d] = count[d] /\ result'[d] = result[d]
      BY <1>3 DEF Gather
    <2>5. pc'[c] = "return" => count'[c] >= Cardinality(targets[c])
      BY <2>2, <2>3
    <2> QED
      BY <2>1, <2>2, <2>4, <2>5
  <1>4. ASSUME NEW c \in Calls, GatherTimeout(c) PROVE GatheredAll'
    BY <1>4 DEF GatherTimeout, AddError
  <1>5. ASSUME NEW c \in Calls, Return(c) PROVE GatheredAll'
    <2>1. UNCHANGED <<count, targets, result>> /\ pc[c] = "return" /\ pc'[c] = "done"
      BY <1>5 DEF Return
    <2>2. \A d \in Calls \ {c} : pc'[d] = pc[d] /\ outcome'[d] = outcome[d]
      BY <1>5 DEF Return
    <2>3. outcome'[c] = "ok" => "error" \notin result[c].errs
      <3>1. op[c] \in AllOps
        OBVIOUS
      <3>2. outcome'[c] = CASE op[c] = "fetch" -> FetchOutcome(result[c])
                            [] op[c] = "find"  -> FindOutcome(result[c])
                            [] op[c] = "info"  -> InfoOutcome(result[c])
                            [] op[c] = "tags"  -> TagOutcome(result[c])
        BY <1>5 DEF Return
      <3> QED
        BY <3>1, <3>2 DEF AllOps, FetchOutcome, FindOutcome, InfoOutcome, TagOutcome
    <2> QED
      BY <2>1, <2>2, <2>3
  <1>6. CASE UNCHANGED callVars
    BY <1>6 DEF callVars
  <1> QED
    BY <1>1, <1>2, <1>3, <1>4, <1>5, <1>6 DEF Next, GoroutineStep, Split, SplitInto, Enter,
       EnterTimeout, CallReturns, Answer, Reply, Leave, vars

(* A step of one goroutine that sends nothing and has not sent before.     *)
LEMMA DroppedQuiet ==
  ASSUME TypeButUsed, NothingDropped, NEW g \in Goroutines,
         go[g] \notin {"none", "leave", "gone"},
         go'[g] \notin {"none", "split", "leave", "gone"},
         go'[g] \in {"reply", "fail"} => Settled(g)',
         \A x \in Goroutines \ {g} : go'[x] = go[x] /\ todo'[x] = todo[x] /\ resp'[x] = resp[x],
         chan' = chan, result' = result
  PROVE  NothingDropped'
  <1> SUFFICES ASSUME NEW x \in Goroutines
               PROVE  /\ go'[x] = "none" => todo'[x] = {} /\ resp'[x] = NoResponse
                      /\ go'[x] = "split" => todo'[x] = {}
                      /\ go'[x] \in {"reply", "fail", "leave", "gone"} => Settled(x)'
                      /\ go'[x] \in {"leave", "gone"} => Waiting(x)' \/ Taken(x)'
    BY DEF NothingDropped
  <1>1. CASE x = g
    BY <1>1
  <1>2. CASE x # g
    BY <1>2 DEF NothingDropped, Settled, Waiting, Taken
  <1> QED
    BY <1>1, <1>2

(* Every step keeps the responses on their way.                            *)
LEMMA DroppedStep ==
  ASSUME ~MultiFetch, TypeButUsed, OneReplyEach, NothingDropped, [Next]_vars
  PROVE  NothingDropped'
  <1> USE DEF TypeButUsed
  <1>1. ASSUME NEW c \in Calls, StartCall(c) PROVE NothingDropped'
    <2>1. PICK o \in Ops, bs \in SUBSET Backends : DoRequest(c, o, bs)
      BY <1>1 DEF StartCall
    <2>2. ASSUME NEW x \in Goroutines, x[1] = c
          PROVE  /\ go'[x] \in {"none", "split", "enter"} /\ resp'[x] = NoResponse
                 /\ go'[x] \in {"none", "split"} => todo'[x] = {}
      BY <2>1, <2>2 DEF DoRequest
    <2>3. ASSUME NEW x \in Goroutines, x[1] # c
          PROVE  /\ go'[x] = go[x] /\ resp'[x] = resp[x] /\ todo'[x] = todo[x]
                 /\ chan'[x[1]] = chan[x[1]] /\ result'[x[1]] = result[x[1]]
      BY <2>1, <2>3, GoroutineParts DEF DoRequest
    <2>4. \A x \in Goroutines : x[1] # c =>
            /\ Settled(x)' <=> Settled(x)
            /\ Waiting(x)' <=> Waiting(x)
            /\ Taken(x)' <=> Taken(x)
      BY <2>3 DEF Settled, Waiting, Taken
    <2>5. ASSUME NEW x \in Goroutines
          PROVE  /\ go'[x] = "none" => todo'[x] = {} /\ resp'[x] = NoResponse
                 /\ go'[x] = "split" => todo'[x] = {}
                 /\ go'[x] \in {"reply", "fail", "leave", "gone"} => Settled(x)'
                 /\ go'[x] \in {"leave", "gone"} => Waiting(x)' \/ Taken(x)'
      <3>1. CASE x[1] = c
        BY <2>2, <3>1
      <3>2. CASE x[1] # c
        BY <2>3, <2>4, <3>2 DEF NothingDropped
      <3> QED
        BY <3>1, <3>2
    <2> QED
      BY <2>5 DEF NothingDropped
  <1>2. ASSUME NEW c \in Calls, Deadline(c) \/ Return(c) PROVE NothingDropped'
    BY <1>2 DEF Deadline, Return, NothingDropped, Settled, Waiting, Taken
  <1>3. ASSUME NEW c \in Calls, GatherTimeout(c) PROVE NothingDropped'
    <2>1. UNCHANGED <<go, todo, resp, chan>>
      BY <1>3 DEF GatherTimeout
    <2>2. \A d \in Calls : /\ result'[d].data = result[d].data
                          /\ result[d].errs \subseteq result'[d].errs
      BY <1>3 DEF GatherTimeout, AddError
    <2> QED
      BY <2>1, <2>2, GoroutineParts DEF NothingDropped, Settled, Waiting, Taken
  <1>4. ASSUME NEW c \in Calls, Gather(c) PROVE NothingDropped'
    <2> DEFINE h == Head(chan[c])
    <2>1. UNCHANGED <<go, todo, resp>>
      BY <1>4 DEF Gather
    <2>2. /\ chan[c] \in Seq(Goroutines) /\ chan[c] # <<>> /\ chan'[c] = Tail(chan[c])
          /\ h = chan[c][1] /\ Len(chan[c]) \in Nat
          /\ Len(chan'[c]) = Len(chan[c]) - 1
          /\ \A i \in 1..Len(chan'[c]) : chan'[c][i] = chan[c][i + 1]
      BY <1>4 DEF Gather
    <2>3. \A d \in Calls \ {c} : chan'[d] = chan[d] /\ result'[d] = result[d]
      BY <1>4 DEF Gather
    <2>4. /\ result'[c].data = result[c].data \cup {<<h[2], i>> : i \in resp[h].data}
          /\ result'[c].errs = result[c].errs \cup resp[h].errs
      BY <1>4 DEF Gather, Merge
    <2> HIDE DEF h
    <2>5. ASSUME NEW x \in Goroutines, Waiting(x) \/ Taken(x)
          PROVE  Waiting(x)' \/ Taken(x)'
      <3>1. CASE x[1] # c
        BY <2>1, <2>3, <2>5, <3>1, GoroutineParts DEF Waiting, Taken
      <3>2. CASE x[1] = c /\ Taken(x)
        BY <2>1, <2>4, <3>2 DEF Taken
      <3>3. CASE x[1] = c /\ x = h
        BY <2>1, <2>4, <3>3 DEF Taken
      <3>4. CASE x[1] = c /\ x # h /\ Waiting(x)
        <4>1. PICK i \in 1..Len(chan[c]) : chan[c][i] = x
          BY <3>4 DEF Waiting
        <4>2. i - 1 \in 1..Len(chan'[c]) /\ (i - 1) + 1 = i
          BY <2>2, <3>4, <4>1
        <4>3. chan'[c][i - 1] = x
          BY <2>2, <4>1, <4>2
        <4> QED
          BY <3>4, <4>2, <4>3 DEF Waiting
      <3> QED
        BY <2>5, <3>1, <3>2, <3>3, <3>4
    <2> QED
      BY <2>1, <2>5 DEF NothingDropped, Settled
  <1>5. ASSUME NEW g \in Goroutines, g[3] = 0, Split(g[1], g[2]) PROVE NothingDropped'
    <2>1. Fetcher(g[1], g[2]) = g /\ go[g] = "split"
      BY <1>5, GoroutineParts DEF Fetcher, Split
    <2>2. PICK s \in SplitResults : SplitInto(g[1], g[2], s)
      BY <1>5 DEF Split
    <2>3. /\ go'[g] \in {"fail", "enter"}
          /\ go'[g] = "fail" => todo'[g] = todo[g]
          /\ \A x \in Goroutines \ {g} : go'[x] = go[x] /\ todo'[x] = todo[x] /\ resp'[x] = resp[x]
      BY <2>1, <2>2 DEF SplitInto, SplitFails, OneByOne
    <2>4. chan' = chan /\ result' = result
      BY <2>2 DEF SplitInto, callVars
    <2>5. todo[g] = {}
      BY <2>1 DEF NothingDropped
    <2> QED
      BY <2>1, <2>3, <2>4, <2>5, DroppedQuiet DEF Settled
  <1>6. ASSUME NEW g \in Goroutines, Enter(g) PROVE NothingDropped'
    BY <1>6, DroppedQuiet DEF Enter, callVars, Settled
  <1>7. ASSUME NEW g \in Goroutines, EnterTimeout(g) PROVE NothingDropped'
    BY <1>7, DroppedQuiet DEF EnterTimeout, AddError, callVars, Settled
  <1>8. ASSUME NEW g \in Goroutines, CallReturns(g) PROVE NothingDropped'
    <2>1. PICK i \in todo[g], a \in Answers : Answer(g, i, a)
      BY <1>8 DEF CallReturns
    <2>2. go[g] = "call" /\ go'[g] \in {"reply", "call"} /\ chan' = chan /\ result' = result
      BY <1>8, <2>1 DEF CallReturns, Answer, callVars
    <2>3. go'[g] = "reply" => todo'[g] = {}
      BY <2>1 DEF Answer
    <2>4. \A x \in Goroutines \ {g} : go'[x] = go[x] /\ todo'[x] = todo[x] /\ resp'[x] = resp[x]
      BY <2>1 DEF Answer
    <2> QED
      BY <2>2, <2>3, <2>4, DroppedQuiet DEF Settled
  <1>9. ASSUME NEW g \in Goroutines, Reply(g) PROVE NothingDropped'
    <2> DEFINE c == g[1]
    <2>1. /\ go[g] \in {"reply", "fail"} /\ go'[g] \in {"leave", "gone"}
          /\ \A x \in Goroutines \ {g} : go'[x] = go[x]
          /\ UNCHANGED <<todo, resp, result>>
      BY <1>9 DEF Reply, callVars
    <2>2. /\ c \in Calls /\ chan[c] \in Seq(Goroutines) /\ chan'[c] = Append(chan[c], g)
          /\ \A d \in Calls \ {c} : chan'[d] = chan[d]
      BY <1>9, GoroutineParts DEF Reply
    <2>3. /\ Len(chan[c]) \in Nat /\ Len(chan'[c]) = Len(chan[c]) + 1
          /\ chan'[c][Len(chan[c]) + 1] = g
          /\ \A i \in 1..Len(chan[c]) : chan'[c][i] = chan[c][i]
      BY <2>2
    <2>4. Waiting(g)'
      <3>1. Len(chan[c]) + 1 \in 1..Len(chan'[c])
        BY <2>3
      <3> QED
        BY <2>3, <3>1 DEF Waiting
    <2>5. ASSUME NEW x \in Goroutines, Waiting(x) PROVE Waiting(x)'
      <3>1. CASE x[1] = c
        <4>1. PICK i \in 1..Len(chan[c]) : chan[c][i] = x
          BY <2>5, <3>1 DEF Waiting
        <4>2. i \in 1..Len(chan'[c]) /\ chan'[c][i] = x
          BY <2>3, <4>1
        <4> QED
          BY <3>1, <4>2 DEF Waiting
      <3>2. CASE x[1] # c
        BY <2>2, <2>5, <3>2, GoroutineParts DEF Waiting
      <3> QED
        BY <3>1, <3>2
    <2>6. \A x \in Goroutines : (Settled(x)' <=> Settled(x)) /\ (Taken(x)' <=> Taken(x))
      BY <2>1 DEF Settled, Taken
    <2> QED
      BY <2>1, <2>4, <2>5, <2>6 DEF NothingDropped
  <1>10. ASSUME NEW g \in Goroutines, Leave(g) PROVE NothingDropped'
    <2>1. /\ go[g] = "leave" /\ go'[g] = "gone"
          /\ \A x \in Goroutines \ {g} : go'[x] = go[x]
          /\ UNCHANGED <<todo, resp, chan, result>>
      BY <1>10 DEF Leave, callVars
    <2> QED
      BY <2>1 DEF NothingDropped, Settled, Waiting, Taken
  <1>11. CASE UNCHANGED vars
    BY <1>11 DEF vars, callVars, NothingDropped, Settled, Waiting, Taken
  <1> QED
    BY <1>1, <1>2, <1>3, <1>4, <1>5, <1>6, <1>7, <1>8, <1>9, <1>10, <1>11
       DEF Next, GoroutineStep

(* A loop that counted a response of every target found the response of    *)
(* every target: none is left in the channel or with its fetcher.          *)
LEMMA AllSent ==
  ASSUME IInv, OneReplyEach, NEW c \in Calls, count[c] >= Cardinality(targets[c])
  PROVE  Sent(c) = targets[c] /\ Len(chan[c]) = 0
  <1>1. targets[c] \subseteq Backends /\ Len(chan[c]) \in Nat /\ count[c] \in Nat
    BY DEF IInv, TypeButUsed
  <1>2. IsFiniteSet(targets[c]) /\ Cardinality(targets[c]) \in Nat
    BY <1>1, BroadcastAssumption, FS_Subset, FS_CardinalityType
  <1>3. Sent(c) \subseteq targets[c]
    BY DEF Sent, OneReplyEach
  <1>4. Cardinality(Sent(c)) <= Cardinality(targets[c])
    BY <1>2, <1>3, FS_Subset
  <1>5. Len(chan[c]) + count[c] = Cardinality(Sent(c)) /\ Cardinality(Sent(c)) \in Nat
    BY SentFinite DEF OneReplyEach
  <1>6. Cardinality(Sent(c)) = Cardinality(targets[c]) /\ Len(chan[c]) = 0
    BY <1>1, <1>2, <1>4, <1>5
  <1> QED
    BY <1>2, <1>3, <1>6, FS_Subset

(* When doMultipleRequestsIfSplit is off, an operation that returns        *)
(* without an error has asked for every batch of every target, met no      *)
(* error and kept all data, for any calls, backends and batches and any    *)
(* interleaving of answers and timeouts.                                   *)
THEOREM OkIsComplete == ASSUME ~MultiFetch PROVE Spec => []OkMeansComplete
  <1> DEFINE J == IInv /\ OneReplyEach /\ NothingDropped /\ GatheredAll
  <1>1. J => OkMeansComplete
    <2> SUFFICES ASSUME J, NEW c \in Calls, outcome[c] = "ok", NEW g \in OfCall(c)
                 PROVE  /\ todo[g] = {}
                        /\ "error" \notin resp[g].errs
                        /\ {<<g[2], i>> : i \in resp[g].data} \subseteq result[c].data
      BY DEF OkMeansComplete
    <2>1. g \in Goroutines /\ g[1] = c
      BY DEF OfCall
    <2>2. pc[c] = "done" /\ "error" \notin result[c].errs
      BY DEF GatheredAll
    <2>3. count[c] >= Cardinality(targets[c])
      BY <2>2 DEF GatheredAll
    <2>4. CASE go[g] = "none"
      BY <2>1, <2>4 DEF NothingDropped, NoResponse
    <2>5. CASE go[g] # "none"
      <3>1. g = Fetcher(c, g[2]) /\ g[2] \in targets[c]
        BY <2>1, <2>5, RunningIsFetcher
      <3>2. go[g] \in {"leave", "gone"} /\ Len(chan[c]) = 0
        BY <2>3, <3>1, AllSent DEF Sent
      <3>3. Settled(g) /\ Taken(g)
        BY <2>1, <3>2 DEF NothingDropped, Waiting
      <3> QED
        BY <2>1, <2>2, <3>3 DEF Settled, Taken
    <2> QED
      BY <2>4, <2>5
  <1>2. Init => J
    BY IInvInit, OneReplyEachInit, DroppedInit
  <1>3. J /\ [Next]_vars => J'
    BY IInvStep, OneReplyEachStep, DroppedStep, GatheredStep DEF IInv
  <1> QED
    BY <1>1, <1>2, <1>3, PTL DEF Spec
=============================================================================
