--------------------------- MODULE HttpQueryProofs ---------------------------
(* Proofs about HttpQuery, for any number of queries, servers, tries and   *)
(* slots, and for any servers the limiter was made for.                    *)
EXTENDS HttpQuery, FiniteSetTheorems, TLAPS

(* The part of TypeOK that no limiter argument is needed for.              *)
TypeButUsed ==
  /\ pc \in [Queries -> States]
  /\ mode \in [Queries -> {"any", "all"}]
  /\ ctxDone \in [Queries -> BOOLEAN]
  /\ try \in [Queries -> 0..Tries]
  /\ server \in [Queries -> Servers]
  /\ answer \in [Queries -> BOOLEAN]
  /\ got \in [Queries -> SUBSET Servers]
  /\ counter \in Servers
  /\ tried \in [Queries -> SUBSET Servers]
  /\ alone \in [Queries -> BOOLEAN]
  /\ round \in SUBSET Servers
  /\ \A q \in Queries : pc[q] \notin Ended => try[q] < Tries

(* What the assumptions say about the numbers of servers and tries.        *)
LEMMA Constants0 ==
  /\ N \in Nat /\ N > 0 /\ Tries \in Nat /\ Tries > 0 /\ 0 \in Servers
  /\ (N - 1) \in Servers
  BY HttpQueryAssumption DEF Tries, Servers

(* The counter modulo N is a server.                                       *)
LEMMA NextIsServer ==
  ASSUME NEW q \in Queries, counter \in Servers
  PROVE  /\ NextCounter(q) \in Servers
         /\ NextCounter(q) = IF counter = N - 1 THEN 0 ELSE counter + 1
  <1>1. CASE counter = N - 1
    <2>1. counter + 1 = N /\ N % N = 0
      BY <1>1, Constants0
    <2> QED
      BY <1>1, <2>1, Constants0 DEF NextCounter
  <1>2. CASE counter # N - 1
    <2>1. counter + 1 \in 0..(N - 1)
      BY <1>2, Constants0 DEF Servers
    <2>2. (counter + 1) % N = counter + 1
      BY <2>1, Constants0
    <2> QED
      BY <1>2, <2>1, <2>2 DEF NextCounter, Servers
  <1> QED
    BY <1>1, <1>2

(* Types at the start.                                                     *)
LEMMA TypeInit == Init => TypeButUsed
  BY Constants0 DEF Init, TypeButUsed, States, Ended

(* What doRequest's return does to the query.                              *)
LEMMA ReturnsType ==
  ASSUME TypeButUsed, NEW q \in Queries, NEW ok \in BOOLEAN,
         pc[q] \notin Ended, Returns(q, ok)
  PROVE  /\ pc' \in [Queries -> States]
         /\ try' \in [Queries -> 0..Tries]
         /\ server' \in [Queries -> Servers]
         /\ got' \in [Queries -> SUBSET Servers]
         /\ \A p \in Queries : pc'[p] \notin Ended => try'[p] < Tries
         /\ pc'[q] \in {"pick", "ok", "failed"}
         /\ \A p \in Queries \ {q} : pc'[p] = pc[p] /\ server'[p] = server[p]
  <1> USE Constants0 DEF TypeButUsed
  <1>1. try[q] \in Nat /\ try[q] < Tries /\ server[q] \in Servers
    OBVIOUS
  <1>2. CASE AnyReturns(q, ok)
    BY <1>1, <1>2 DEF AnyReturns, States, Ended
  <1>3. CASE AllReturns(q, ok)
    <2>1. server[q] # N - 1 => server[q] + 1 \in Servers
      BY <1>1 DEF Servers
    <2> QED
      BY <1>1, <1>3, <2>1 DEF AllReturns, States, Ended
  <1> QED
    BY <1>2, <1>3 DEF Returns

(* Every step keeps the types, the limiter's counters aside.               *)
LEMMA TypeStep ==
  ASSUME TypeButUsed, [Next]_vars
  PROVE  TypeButUsed'
  <1> USE DEF TypeButUsed
  <1>1. ASSUME NEW q \in Queries, Start(q) PROVE TypeButUsed'
    <2>1. alone' \in [Queries -> BOOLEAN]
      <3>1. ASSUME NEW p \in Queries
            PROVE  (IF p = q THEN \A r \in Queries \ {q} : pc[r] \in Ended
                    ELSE alone[p] /\ pc[p] \in Ended) \in BOOLEAN
        BY Zenon
      <3> QED
        BY <1>1, <3>1, Zenon DEF Start
    <2>2. mode' \in [Queries -> {"any", "all"}]
      BY <1>1, HttpQueryAssumption DEF Start
    <2>3. /\ pc' \in [Queries -> States] /\ try' \in [Queries -> 0..Tries]
          /\ \A p \in Queries : pc'[p] \notin Ended => try'[p] < Tries
      BY <1>1, Constants0 DEF Start, States, Ended
    <2> QED
      BY <1>1, <2>1, <2>2, <2>3, Constants0 DEF Start
  <1>2. ASSUME NEW q \in Queries, Deadline(q) PROVE TypeButUsed'
    BY <1>2 DEF Deadline
  <1>3. ASSUME NEW q \in Queries, pickServer(q) PROVE TypeButUsed'
    <2>1. NextCounter(q) \in Servers /\ 0 \in Servers
      BY NextIsServer, Constants0
    <2> QED
      BY <1>3, <2>1 DEF pickServer, Picked, States, Ended
  <1>4. ASSUME NEW q \in Queries, NextServer(q) PROVE TypeButUsed'
    BY <1>4 DEF NextServer, Picked, States, Ended
  <1>5. ASSUME NEW q \in Queries, PrepareFails(q) PROVE TypeButUsed'
    BY <1>5, ReturnsType DEF PrepareFails, Returns, Ended
  <1>6. ASSUME NEW q \in Queries, Enter(q) PROVE TypeButUsed'
    BY <1>6 DEF Enter, States, Holding, Ended
  <1>7. ASSUME NEW q \in Queries, EnterTimeout(q) PROVE TypeButUsed'
    BY <1>7, ReturnsType DEF EnterTimeout, Returns, Ended
  <1>8. ASSUME NEW q \in Queries, Do(q) PROVE TypeButUsed'
    BY <1>8 DEF Do, States, Holding, Ended
  <1>9. ASSUME NEW q \in Queries, Leave(q) PROVE TypeButUsed'
    BY <1>9, ReturnsType DEF Leave, Returns, Ended
  <1>10. CASE UNCHANGED vars
    BY <1>10 DEF vars, queryVars
  <1> QED
    BY <1>1, <1>2, <1>3, <1>4, <1>5, <1>6, <1>7, <1>8, <1>9, <1>10
       DEF Next, QueryStep

(* The servers of the current round are those up to the counter.           *)
Turns == round = 1..counter

(* Every step keeps the round an interval that ends at the counter.        *)
LEMMA TurnsStep ==
  ASSUME TypeButUsed, Turns, [Next]_vars
  PROVE  Turns'
  <1>1. ASSUME NEW q \in Queries, pickServer(q) PROVE Turns'
    <2>1. counter \in Servers /\ mode[q] = "any"
      BY <1>1 DEF TypeButUsed, pickServer
    <2>2. CASE N = 1
      <3>1. counter' = counter /\ counter = 0 /\ Servers = {0}
        BY <1>1, <2>1, <2>2 DEF pickServer, Servers
      <3>2. round = {} /\ round' = {}
        BY <1>1, <2>1, <2>2, <3>1 DEF pickServer, Picked, Turns
      <3> QED
        BY <3>1, <3>2 DEF Turns
    <2>3. CASE N # 1 /\ counter = N - 1
      <3>1. counter' = 0 /\ round' = IF round \cup {0} = Servers THEN {} ELSE round \cup {0}
        BY <1>1, <2>1, <2>3, NextIsServer DEF pickServer, Picked
      <3>2. round \cup {0} = Servers
        BY <2>3, Constants0 DEF Turns, Servers
      <3> QED
        BY <3>1, <3>2 DEF Turns
    <2>4. CASE N # 1 /\ counter # N - 1
      <3> DEFINE s == counter + 1
      <3>1. counter' = s /\ round' = IF round \cup {s} = Servers THEN {} ELSE round \cup {s}
        BY <1>1, <2>1, <2>4, NextIsServer DEF pickServer, Picked
      <3>2. counter \in Nat
        BY <2>1, Constants0 DEF Servers
      <3>3. round \cup {s} = 1..s
        BY <3>2 DEF Turns
      <3>4. 1..s # Servers
        BY <3>2, Constants0
      <3> QED
        BY <3>1, <3>3, <3>4 DEF Turns
    <2> QED
      BY <2>2, <2>3, <2>4
  <1>2. ASSUME NEW q \in Queries, NextServer(q) PROVE Turns'
    BY <1>2 DEF NextServer, Picked, Turns
  <1>3. CASE UNCHANGED <<counter, round>>
    BY <1>3 DEF Turns
  <1> QED
    BY <1>1, <1>2, <1>3 DEF Next, QueryStep, vars, Start, Deadline, PrepareFails,
       Enter, EnterTimeout, Do, Leave, Returns

(* However the queries and their retries interleave, the requests of a     *)
(* group are spread evenly over its servers.                               *)
THEOREM TurnsEven == Spec => EvenlyPicked
  <1>1. Init => TypeButUsed /\ Turns
    <2>1. Init => Turns
      BY DEF Init, Turns
    <2> QED
      BY <2>1, TypeInit
  <1>2. TypeButUsed /\ Turns /\ [Next]_vars => (TypeButUsed /\ Turns)'
    BY TypeStep, TurnsStep
  <1>3. TypeButUsed /\ Turns /\ [Next]_vars =>
          [\A q \in Queries :
             pc[q] = "pick" /\ pc'[q] = "enter" /\ mode[q] = "any"
               => server'[q] \notin round]_vars
    <2> SUFFICES ASSUME TypeButUsed, Turns, Next,
                        NEW q \in Queries,
                        pc[q] = "pick", pc'[q] = "enter", mode[q] = "any"
                 PROVE  server'[q] \notin round
      OBVIOUS
    <2>1. pickServer(q)
      <3>1. PICK p \in Queries : Start(p) \/ Deadline(p) \/ QueryStep(p)
        BY DEF Next
      <3>2. p = q
        BY <3>1, ReturnsType DEF TypeButUsed, QueryStep, Start, Deadline, pickServer,
           NextServer, PrepareFails, Enter, EnterTimeout, Do, Leave, Ended
      <3> QED
        BY <3>1, <3>2 DEF TypeButUsed, QueryStep, Start, Deadline, NextServer,
           PrepareFails, Enter, EnterTimeout, Do, Leave, Ended
    <2>2. counter \in Servers
      BY DEF TypeButUsed
    <2>3. CASE N = 1
      BY <2>1, <2>2, <2>3 DEF pickServer, TypeButUsed, Turns, Servers
    <2>4. CASE N # 1
      <3>1. server'[q] = IF counter = N - 1 THEN 0 ELSE counter + 1
        BY <2>1, <2>2, <2>4, NextIsServer DEF pickServer, TypeButUsed
      <3> QED
        BY <2>2, <3>1, Constants0 DEF Turns, Servers
    <2> QED
      BY <2>3, <2>4
  <1> QED
    BY <1>1, <1>2, <1>3, PTL DEF Spec, EvenlyPicked

(* How far DoQueryToAll has come.                                          *)
Reached ==
  \A q \in Queries : mode[q] = "all" =>
    /\ 0..(server[q] - 1) \subseteq tried[q]
    /\ pc[q] \in {"enter", "http", "leave"} => server[q] \in tried[q]
    /\ pc[q] \in {"ok", "failed"} => tried[q] = Servers
    /\ pc[q] = "ok" => got[q] = Servers

(* The return of doRequest, which is where a query moves on or ends.       *)
LEMMA ReachedReturns ==
  ASSUME TypeButUsed, Reached, NEW q \in Queries, NEW ok \in BOOLEAN,
         pc[q] \in {"enter", "leave"}, Returns(q, ok)
  PROVE  Reached'
  <1> SUFFICES ASSUME NEW p \in Queries, mode'[p] = "all"
               PROVE  /\ 0..(server'[p] - 1) \subseteq tried'[p]
                      /\ pc'[p] \in {"enter", "http", "leave"} => server'[p] \in tried'[p]
                      /\ pc'[p] \in {"ok", "failed"} => tried'[p] = Servers
                      /\ pc'[p] = "ok" => got'[p] = Servers
    BY DEF Reached
  <1>1. mode' = mode /\ tried' = tried
    BY DEF Returns
  <1>2. CASE p # q
    <2>1. pc'[p] = pc[p] /\ server'[p] = server[p] /\ got'[p] = got[p]
      BY <1>2 DEF Returns, AnyReturns, AllReturns, TypeButUsed
    <2> QED
      BY <1>1, <2>1 DEF Reached
  <1>3. CASE p = q
    <2> DEFINE responses == IF ok THEN got[q] \cup {server[q]} ELSE got[q]
               again == ~ok /\ try[q] + 1 < Tries
               last == server[q] = N - 1
    <2>1. /\ got'[q] = responses
          /\ server'[q] = IF again \/ last THEN server[q] ELSE server[q] + 1
          /\ pc'[q] = IF again \/ ~last THEN "pick"
                      ELSE IF responses = Servers THEN "ok" ELSE "failed"
      BY <1>1, <1>3 DEF Returns, AnyReturns, AllReturns, TypeButUsed
    <2>2. 0..(server[q] - 1) \subseteq tried[q] /\ server[q] \in tried[q]
      BY <1>1, <1>3 DEF Reached
    <2>3. server[q] \in Servers /\ tried[q] \subseteq Servers
      BY DEF TypeButUsed
    <2>4. 0..(server'[q] - 1) \subseteq tried[q]
      BY <2>1, <2>2, <2>3, Constants0 DEF Servers
    <2>5. last => tried[q] = Servers
      <3>1. last => Servers = 0..(server[q] - 1) \cup {server[q]}
        BY Constants0 DEF Servers
      <3> QED
        BY <2>2, <2>3, <3>1
    <2>6. pc'[q] = "pick" \/ (last /\ pc'[q] = "failed")
            \/ (last /\ pc'[q] = "ok" /\ responses = Servers)
      BY <2>1
    <2> QED
      BY <1>1, <1>3, <2>1, <2>4, <2>5, <2>6
  <1> QED
    BY <1>2, <1>3

(* Every step keeps the servers before the current one tried.              *)
LEMMA ReachedStep ==
  ASSUME TypeButUsed, Reached, [Next]_vars
  PROVE  Reached'
  <1> USE DEF TypeButUsed, Reached
  <1>1. ASSUME NEW q \in Queries, Start(q) PROVE Reached'
    BY <1>1 DEF Start, Servers
  <1>2. ASSUME NEW q \in Queries, Deadline(q) PROVE Reached'
    BY <1>2 DEF Deadline
  <1>3. ASSUME NEW q \in Queries, pickServer(q) PROVE Reached'
    BY <1>3 DEF pickServer, Picked
  <1>4. ASSUME NEW q \in Queries, NextServer(q) PROVE Reached'
    BY <1>4 DEF NextServer, Picked
  <1>5. ASSUME NEW q \in Queries, PrepareFails(q) PROVE Reached'
    BY <1>5, ReachedReturns DEF PrepareFails
  <1>6. ASSUME NEW q \in Queries, Enter(q) PROVE Reached'
    BY <1>6 DEF Enter
  <1>7. ASSUME NEW q \in Queries, EnterTimeout(q) PROVE Reached'
    BY <1>7, ReachedReturns DEF EnterTimeout
  <1>8. ASSUME NEW q \in Queries, Do(q) PROVE Reached'
    BY <1>8 DEF Do
  <1>9. ASSUME NEW q \in Queries, Leave(q) PROVE Reached'
    BY <1>9, ReachedReturns DEF Leave
  <1>10. CASE UNCHANGED vars
    BY <1>10 DEF vars, queryVars
  <1> QED
    BY <1>1, <1>2, <1>3, <1>4, <1>5, <1>6, <1>7, <1>8, <1>9, <1>10
       DEF Next, QueryStep

(* DoQueryToAll leaves no server out, whatever fails on the way.           *)
THEOREM EveryServerAsked == Spec => []AllAsked
  <1>1. Init => TypeButUsed /\ Reached
    <2>1. Init => Reached
      BY DEF Init, Reached
    <2> QED
      BY <2>1, TypeInit
  <1>2. TypeButUsed /\ Reached /\ [Next]_vars => (TypeButUsed /\ Reached)'
    BY TypeStep, ReachedStep
  <1>3. Reached => AllAsked
    BY DEF Reached, AllAsked
  <1> QED
    BY <1>1, <1>2, <1>3, PTL DEF Spec

-----------------------------------------------------------------------------
(* The limiter.                                                            *)

(* The queries that hold slots of a server are finitely many.              *)
LEMMA HoldersFinite ==
  ASSUME NEW s \in Servers
  PROVE  IsFiniteSet(HoldersOf(s)) /\ Cardinality(HoldersOf(s)) \in Nat
  BY HttpQueryAssumption, FS_Subset, FS_CardinalityType DEF HoldersOf

(* Steps that neither take nor return a slot.                              *)
LEMMA HoldersSame ==
  ASSUME TypeButUsed, NEW q \in Queries,
         \/ Start(q) \/ Deadline(q) \/ pickServer(q) \/ NextServer(q)
         \/ PrepareFails(q) \/ EnterTimeout(q) \/ Do(q)
  PROVE  used' = used /\ \A s \in Servers : HoldersOf(s)' = HoldersOf(s)
  <1>1. /\ pc[q] \in Holding <=> pc'[q] \in Holding
        /\ pc[q] \in Holding => server'[q] = server[q]
        /\ \A p \in Queries \ {q} : pc'[p] = pc[p] /\ server'[p] = server[p]
        /\ used' = used
    <2>1. CASE Start(q) \/ Deadline(q) \/ pickServer(q) \/ NextServer(q) \/ Do(q)
      BY <2>1 DEF TypeButUsed, Start, Deadline, pickServer, NextServer, Do, Holding, Ended
    <2>2. CASE PrepareFails(q) \/ EnterTimeout(q)
      BY <2>2, ReturnsType DEF PrepareFails, EnterTimeout, Holding, Ended
    <2> QED
      BY <2>1, <2>2
  <1> QED
    BY <1>1 DEF HoldersOf

(* Enter adds one holder.                                                  *)
LEMMA HoldersEnter ==
  ASSUME TypeButUsed, NEW q \in Queries, Enter(q), NEW s \in Servers
  PROVE  /\ q \notin HoldersOf(s)
         /\ HoldersOf(s)' = IF s = server[q] THEN HoldersOf(s) \cup {q} ELSE HoldersOf(s)
  BY DEF TypeButUsed, Enter, HoldersOf, Holding

(* Leave takes one holder away.                                            *)
LEMMA HoldersLeave ==
  ASSUME TypeButUsed, NEW q \in Queries, Leave(q), NEW s \in Servers
  PROVE  /\ q \in HoldersOf(s) <=> s = server[q]
         /\ HoldersOf(s)' = IF s = server[q] THEN HoldersOf(s) \ {q} ELSE HoldersOf(s)
  <1>1. /\ pc[q] \in Holding /\ pc'[q] \notin Holding
        /\ \A p \in Queries \ {q} : pc'[p] = pc[p] /\ server'[p] = server[p]
    BY ReturnsType DEF TypeButUsed, Leave, Holding, Ended
  <1> QED
    BY <1>1 DEF HoldersOf

Slots == used \in [Servers -> 0..Limit] /\ SlotAccounting

(* Every step keeps the slots those of the holders.                        *)
LEMMA SlotsStep ==
  ASSUME TypeButUsed, Slots, [Next]_vars
  PROVE  Slots'
  <1> USE HttpQueryAssumption
  <1>1. ASSUME NEW q \in Queries, Enter(q) PROVE Slots'
    <2>1. server[q] \in Servers
      BY DEF TypeButUsed
    <2>2. CASE Limit = 0
      BY <1>1, <2>2 DEF Enter, Slots, SlotAccounting
    <2>3. CASE Limit > 0
      <3>1. used' = [used EXCEPT ![server[q]] = @ + 1] /\ used[server[q]] < Limit
        BY <1>1, <2>3 DEF Enter, HasSlot
      <3>2. used' \in [Servers -> 0..Limit]
        BY <2>1, <3>1 DEF Slots
      <3>3. ASSUME NEW s \in Servers PROVE used'[s] = Cardinality(HoldersOf(s)')
        <4>1. used[s] = Cardinality(HoldersOf(s))
          BY <2>3 DEF Slots, SlotAccounting
        <4>2. Cardinality(HoldersOf(s) \cup {q}) = Cardinality(HoldersOf(s)) + 1
          BY <1>1, HoldersEnter, HoldersFinite, FS_AddElement
        <4>3. used'[s] = IF s = server[q] THEN used[s] + 1 ELSE used[s]
          BY <2>1, <3>1 DEF Slots
        <4> QED
          BY <1>1, <4>1, <4>2, <4>3, HoldersEnter
      <3> QED
        BY <3>2, <3>3 DEF Slots, SlotAccounting
    <2> QED
      BY <2>2, <2>3
  <1>2. ASSUME NEW q \in Queries, Leave(q) PROVE Slots'
    <2>1. server[q] \in Servers
      BY DEF TypeButUsed
    <2>2. CASE Limit = 0
      BY <1>2, <2>2 DEF Leave, Slots, SlotAccounting
    <2>3. CASE Limit > 0
      <3>1. used' = [used EXCEPT ![server[q]] = @ - 1]
        BY <1>2, <2>3 DEF Leave
      <3>2. \A s \in Servers : used[s] = Cardinality(HoldersOf(s))
        BY <2>3 DEF Slots, SlotAccounting
      <3>3. /\ Cardinality(HoldersOf(server[q]) \ {q}) = Cardinality(HoldersOf(server[q])) - 1
            /\ Cardinality(HoldersOf(server[q]) \ {q}) \in Nat
        <4>1. q \in HoldersOf(server[q])
          BY <1>2, <2>1, HoldersLeave
        <4> QED
          BY <2>1, <4>1, HoldersFinite, FS_RemoveElement, FS_CardinalityType
      <3>4. used' \in [Servers -> 0..Limit]
        <4>1. used[server[q]] - 1 \in 0..Limit
          BY <2>1, <3>2, <3>3 DEF Slots
        <4> QED
          BY <2>1, <3>1, <4>1 DEF Slots
      <3>5. ASSUME NEW s \in Servers PROVE used'[s] = Cardinality(HoldersOf(s)')
        <4>1. used'[s] = IF s = server[q] THEN used[s] - 1 ELSE used[s]
          BY <2>1, <3>1 DEF Slots
        <4> QED
          BY <1>2, <3>2, <3>3, <4>1, HoldersLeave
      <3> QED
        BY <3>4, <3>5 DEF Slots, SlotAccounting
    <2> QED
      BY <2>2, <2>3
  <1>3. ASSUME NEW q \in Queries,
               \/ Start(q) \/ Deadline(q) \/ pickServer(q) \/ NextServer(q)
               \/ PrepareFails(q) \/ EnterTimeout(q) \/ Do(q)
        PROVE  Slots'
    BY <1>3, HoldersSame DEF Slots, SlotAccounting
  <1>4. CASE UNCHANGED vars
    BY <1>4 DEF vars, queryVars, Slots, SlotAccounting, HoldersOf
  <1> QED
    BY <1>1, <1>2, <1>3, <1>4 DEF Next, QueryStep

(* No slot is taken at the start.                                          *)
LEMMA SlotsInit == Init => Slots
  <1> SUFFICES ASSUME Init PROVE Slots
    OBVIOUS
  <1>1. \A s \in Servers : HoldersOf(s) = {} /\ used[s] = 0
    BY DEF Init, HoldersOf, Holding
  <1>2. used \in [Servers -> 0..Limit]
    BY HttpQueryAssumption DEF Init
  <1> QED
    BY <1>1, <1>2, FS_EmptySet DEF Slots, SlotAccounting

(* Every step keeps the invariant of the limiter.                          *)
LEMMA TypeAndSlots == Spec => [](TypeButUsed /\ Slots)
  <1>1. Init => TypeButUsed /\ Slots
    BY TypeInit, SlotsInit
  <1>2. TypeButUsed /\ Slots /\ [Next]_vars => (TypeButUsed /\ Slots)'
    BY TypeStep, SlotsStep
  <1> QED
    BY <1>1, <1>2, PTL DEF Spec

(* In every state the variables have their types; a limiter's channel      *)
(* never holds more tokens than it has room for, or less than none.        *)
THEOREM TypeCorrect == Spec => []TypeOK
  <1>1. TypeButUsed /\ Slots => TypeOK
    BY DEF TypeButUsed, Slots, TypeOK
  <1> QED
    BY <1>1, TypeAndSlots, PTL

(* Whatever fails, times out or is tried again, the slots taken are those  *)
(* of the requests in flight.                                              *)
THEOREM SlotsAccounted == Spec => []SlotAccounting
  <1>1. TypeButUsed /\ Slots => SlotAccounting
    BY DEF Slots
  <1> QED
    BY <1>1, TypeAndSlots, PTL

-----------------------------------------------------------------------------
(* A query that runs alone.                                                *)

(* How many turns ago the counter was at server s.                         *)
TurnsAgo(s) == IF s <= counter THEN counter - s ELSE counter - s + N

(* While a query runs alone every other one has ended.                     *)
Alone ==
  \A q \in Queries : alone[q] /\ pc[q] \notin Ended =>
    \A r \in Queries \ {q} : pc[r] \in Ended

(* A query that runs alone has tried the servers of its last turns, one    *)
(* for each failed try and the one it is trying.                           *)
Swept ==
  \A q \in Queries : mode[q] = "any" /\ alone[q] =>
    /\ pc[q] = "pick" => \A s \in Servers : TurnsAgo(s) < try[q] => s \in tried[q]
    /\ pc[q] \in {"enter", "http", "leave"} =>
         \A s \in Servers : TurnsAgo(s) < try[q] + 1 => s \in tried[q]
    /\ pc[q] = "failed" => tried[q] = Servers

(* A server was met less than N turns ago, and a pick moves every server   *)
(* but the one picked one turn back.                                       *)
LEMMA TurnsBack ==
  ASSUME TypeButUsed, NEW q \in Queries, pickServer(q), NEW s \in Servers
  PROVE  /\ s = server'[q] \/ TurnsAgo(s)' = TurnsAgo(s) + 1
         /\ TurnsAgo(s) \in 0..(N - 1)
  <1>1. counter \in Servers
    BY DEF TypeButUsed
  <1>2. TurnsAgo(s) \in 0..(N - 1)
    BY <1>1, Constants0 DEF TurnsAgo, Servers
  <1>3. CASE N = 1
    BY <1>2, <1>3 DEF pickServer, Servers, TypeButUsed
  <1>4. CASE N # 1
    <2>1. /\ server'[q] = NextCounter(q) /\ counter' = NextCounter(q)
          /\ NextCounter(q) = IF counter = N - 1 THEN 0 ELSE counter + 1
      BY <1>1, <1>4, NextIsServer DEF pickServer, TypeButUsed
    <2> QED
      BY <1>1, <1>2, <2>1, Constants0 DEF TurnsAgo, Servers
  <1> QED
    BY <1>3, <1>4

(* Steps of other queries than the one that runs alone leave it ended.     *)
LEMMA AloneStep ==
  ASSUME TypeButUsed, Alone, [Next]_vars
  PROVE  Alone'
  <1> USE DEF TypeButUsed, Alone
  <1>1. ASSUME NEW q \in Queries, Start(q) PROVE Alone'
    <2> SUFFICES ASSUME NEW p \in Queries, alone'[p], pc'[p] \notin Ended,
                        NEW r \in Queries \ {p}
                 PROVE  pc'[r] \in Ended
      BY DEF Alone
    <2>1. p = q
      BY <1>1, Zenon DEF Start
    <2>2. \A t \in Queries \ {q} : pc[t] \in Ended
      BY <1>1, <2>1, Zenon DEF Start
    <2> QED
      BY <1>1, <2>1, <2>2 DEF Start
  <1>2. ASSUME NEW q \in Queries, pc[q] \notin Ended, alone' = alone,
               \A p \in Queries \ {q} : pc'[p] = pc[p]
        PROVE  Alone'
    BY <1>2
  <1>3. CASE UNCHANGED vars
    BY <1>3 DEF vars, queryVars
  <1>4. ASSUME NEW q \in Queries, Deadline(q) \/ QueryStep(q)
        PROVE  /\ pc[q] \notin Ended /\ alone' = alone
               /\ \A p \in Queries \ {q} : pc'[p] = pc[p]
    BY <1>4 DEF Deadline, QueryStep, pickServer, NextServer, PrepareFails, Enter,
       EnterTimeout, Do, Leave, Returns, AnyReturns, AllReturns, Ended
  <1> QED
    BY <1>1, <1>2, <1>3, <1>4 DEF Next

(* A failed try leaves the counter where it is; the last one finds every   *)
(* server among the last N turns.                                          *)
LEMMA SweptReturns ==
  ASSUME TypeButUsed, Swept, NEW q \in Queries, NEW ok \in BOOLEAN,
         pc[q] \in {"enter", "leave"}, Returns(q, ok)
  PROVE  Swept'
  <1> USE DEF TypeButUsed
  <1>1. UNCHANGED <<mode, alone, tried, counter>>
    BY DEF Returns
  <1>2. \A s \in Servers : TurnsAgo(s)' = TurnsAgo(s)
    BY <1>1 DEF TurnsAgo
  <1> SUFFICES ASSUME NEW p \in Queries, mode[p] = "any", alone[p]
               PROVE  /\ pc'[p] = "pick" =>
                           \A s \in Servers : TurnsAgo(s) < try'[p] => s \in tried[p]
                      /\ pc'[p] \in {"enter", "http", "leave"} =>
                           \A s \in Servers : TurnsAgo(s) < try'[p] + 1 => s \in tried[p]
                      /\ pc'[p] = "failed" => tried[p] = Servers
    BY <1>1, <1>2 DEF Swept
  <1>3. CASE p # q
    <2>1. pc'[p] = pc[p] /\ try'[p] = try[p]
      BY <1>3 DEF Returns, AnyReturns, AllReturns
    <2> QED
      BY <2>1 DEF Swept
  <1>4. CASE p = q
    <2>1. /\ try'[q] = IF ok THEN try[q] ELSE try[q] + 1
          /\ pc'[q] = IF ok THEN "ok" ELSE IF try[q] + 1 < Tries THEN "pick" ELSE "failed"
      BY <1>4 DEF Returns, AnyReturns, AllReturns
    <2>2. \A s \in Servers : TurnsAgo(s) < try[q] + 1 => s \in tried[q]
      BY <1>4 DEF Swept
    <2>3. CASE pc'[q] = "failed"
      <3>1. try[q] + 1 >= N /\ try[q] \in Nat
        BY <2>1, <2>3, Constants0, HttpQueryAssumption DEF Tries
      <3>2. \A s \in Servers : TurnsAgo(s) \in 0..(N - 1)
        BY Constants0 DEF TurnsAgo, Servers
      <3>3. \A s \in Servers : s \in tried[q]
        BY <2>2, <3>1, <3>2, Constants0
      <3> QED
        BY <1>4, <2>3, <3>3
    <2> QED
      BY <1>4, <2>1, <2>2, <2>3
  <1> QED
    BY <1>3, <1>4

(* Every step keeps what a query that runs alone has tried.                *)
LEMMA SweptStep ==
  ASSUME TypeButUsed, Alone, Swept, [Next]_vars
  PROVE  Swept'
  <1> USE DEF TypeButUsed
  <1>1. ASSUME NEW q \in Queries, Start(q) PROVE Swept'
    <2> SUFFICES ASSUME NEW p \in Queries, mode'[p] = "any", alone'[p]
                 PROVE  /\ pc'[p] = "pick" =>
                             \A s \in Servers : TurnsAgo(s)' < try'[p] => s \in tried'[p]
                        /\ pc'[p] \in {"enter", "http", "leave"} =>
                             \A s \in Servers : TurnsAgo(s)' < try'[p] + 1 => s \in tried'[p]
                        /\ pc'[p] = "failed" => tried'[p] = Servers
      BY DEF Swept
    <2>1. CASE p = q
      <3>1. pc'[q] = "pick" /\ try'[q] = 0 /\ counter' = counter
        BY <1>1 DEF Start
      <3>2. \A s \in Servers : TurnsAgo(s)' >= 0
        BY <3>1, Constants0 DEF TurnsAgo, Servers
      <3> QED
        BY <2>1, <3>1, <3>2, Constants0 DEF TurnsAgo, Servers
    <2>2. CASE p # q
      <3>1. alone[p] /\ pc[p] \in Ended
        BY <1>1, <2>2, Zenon DEF Start
      <3>2. pc'[p] = pc[p] /\ tried'[p] = tried[p] /\ mode'[p] = mode[p]
        BY <1>1, <2>2 DEF Start
      <3> QED
        BY <3>1, <3>2 DEF Swept, Ended
    <2> QED
      BY <2>1, <2>2
  <1>2. ASSUME NEW q \in Queries, pickServer(q) PROVE Swept'
    <2> SUFFICES ASSUME NEW p \in Queries, mode[p] = "any", alone[p]
                 PROVE  /\ pc'[p] = "pick" =>
                             \A s \in Servers : TurnsAgo(s)' < try[p] => s \in tried'[p]
                        /\ pc'[p] \in {"enter", "http", "leave"} =>
                             \A s \in Servers : TurnsAgo(s)' < try[p] + 1 => s \in tried'[p]
                        /\ pc'[p] = "failed" => tried'[p] = Servers
      BY <1>2 DEF Swept, pickServer
    <2>1. CASE p = q
      <3>1. pc[q] = "pick" /\ pc'[q] = "enter" /\ tried'[q] = tried[q] \cup {server'[q]}
        BY <1>2 DEF pickServer, Picked
      <3>2. ASSUME NEW s \in Servers, TurnsAgo(s)' < try[q] + 1
            PROVE  s \in tried'[q]
        <4>1. try[q] \in Nat
          BY Constants0
        <4>2. s = server'[q] \/ TurnsAgo(s) < try[q]
          BY <1>2, <3>2, <4>1, TurnsBack, Constants0
        <4> QED
          BY <2>1, <3>1, <4>2 DEF Swept
      <3> QED
        BY <2>1, <3>1, <3>2
    <2>2. CASE p # q
      <3>1. pc[p] \in Ended
        BY <1>2, <2>2 DEF Alone, pickServer, Ended
      <3>2. pc'[p] = pc[p] /\ tried'[p] = tried[p]
        BY <1>2, <2>2 DEF pickServer, Picked
      <3> QED
        BY <3>1, <3>2 DEF Swept, Ended
    <2> QED
      BY <2>1, <2>2
  <1>3. ASSUME NEW q \in Queries, NextServer(q) PROVE Swept'
    <2>1. mode[q] = "all" /\ counter' = counter /\ UNCHANGED <<mode, alone, try>>
      BY <1>3 DEF NextServer
    <2>2. \A p \in Queries \ {q} : pc'[p] = pc[p] /\ tried'[p] = tried[p]
      BY <1>3 DEF NextServer, Picked
    <2> QED
      BY <2>1, <2>2 DEF Swept, TurnsAgo
  <1>4. ASSUME NEW q \in Queries, Deadline(q) \/ Enter(q) \/ Do(q) PROVE Swept'
    <2>1. UNCHANGED <<mode, alone, try, tried, counter>>
      BY <1>4 DEF Deadline, Enter, Do
    <2>2. \A p \in Queries : \/ pc'[p] = pc[p]
                             \/ /\ pc[p] \in {"enter", "http"}
                                /\ pc'[p] \in {"http", "leave"}
      BY <1>4 DEF Deadline, Enter, Do
    <2> QED
      BY <2>1, <2>2 DEF Swept, TurnsAgo
  <1>5. ASSUME NEW q \in Queries, PrepareFails(q) \/ EnterTimeout(q) \/ Leave(q)
        PROVE  Swept'
    BY <1>5, SweptReturns DEF PrepareFails, EnterTimeout, Leave
  <1>6. CASE UNCHANGED vars
    BY <1>6 DEF vars, queryVars, Swept, TurnsAgo
  <1> QED
    BY <1>1, <1>2, <1>3, <1>4, <1>5, <1>6 DEF Next, QueryStep

(* Whatever MaxTries is, a DoQuery that fails has tried every server of    *)
(* the group, unless other queries moved the shared counter meanwhile.     *)
THEOREM EveryServerTried == Spec => []FailureTriedAll
  <1>1. Init => TypeButUsed /\ Alone /\ Swept
    <2>1. Init => Alone /\ Swept
      BY DEF Init, Alone, Swept
    <2> QED
      BY <2>1, TypeInit
  <1>2. TypeButUsed /\ Alone /\ Swept /\ [Next]_vars => (TypeButUsed /\ Alone /\ Swept)'
    BY TypeStep, AloneStep, SweptStep
  <1>3. Swept => FailureTriedAll
    BY DEF Swept, FailureTriedAll
  <1> QED
    BY <1>1, <1>2, <1>3, PTL DEF Spec
=============================================================================
