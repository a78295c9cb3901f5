------------------------------ MODULE HttpQuery ------------------------------
(***************************************************************************)
(* The HTTP client every backend group uses (zipper/helper/requests.go):   *)
(* DoQuery sends a request to one server after the other, picked in a      *)
(* round-robin manner, until one answers; DoQueryToAll asks every server.  *)
(* doRequest claims a slot of the server's limiter (limiter/limiter.go)    *)
(* for the time of the HTTP request.                                       *)
(*                                                                         *)
(* The queries of a group share the counter and the limiter.  An answer is *)
(* a Boolean: TRUE for status 200 and 404, FALSE for everything else.      *)
(***************************************************************************)
EXTENDS Integers, FiniteSets

CONSTANTS Queries,   \* identifiers of queries in progress
          N,         \* len(servers)
          MaxTries,  \* config.MaxTries
          Limit,     \* config.ConcurrencyLimit; 0: NoopLimiter
          Limited,   \* servers the limiter was made for
          Modes      \* "any": DoQuery, "all": DoQueryToAll

Servers == 0..(N - 1)

ASSUME HttpQueryAssumption ==
  /\ IsFiniteSet(Queries)
  /\ N \in Nat \ {0}
  /\ MaxTries \in Nat
  /\ Limit \in Nat
  /\ Limited \subseteq Servers
  /\ Modes \subseteq {"any", "all"}

VARIABLES pc,       \* pc[q]: where query q is
          mode,     \* mode[q]: DoQuery or DoQueryToAll
          ctxDone,  \* ctxDone[q]: its context has ended
          try,      \* try[q]: failed attempts so far
          server,   \* server[q]: the server asked
          answer,   \* answer[q]: what the server answered
          got,      \* got[q]: the servers whose responses q has
          used,     \* used[s]: taken slots of server s
          counter,  \* the shared counter, modulo N
          tried,    \* history, tried[q]: servers q tried
          alone,    \* history, alone[q]: no other query ran meanwhile
          round     \* history: servers picked in the current round

queryVars == <<pc, mode, ctxDone, try, server, answer, got, tried, alone>>
vars == <<queryVars, used, counter, round>>

Ended == {"idle", "ok", "failed"}
Holding == {"http", "leave"}
States == Ended \cup Holding \cup {"pick", "enter"}

(* Every server gets a try, however small MaxTries is.                     *)
Tries == IF N > MaxTries THEN N ELSE MaxTries

Init ==
  /\ pc = [q \in Queries |-> "idle"]
  /\ mode = [q \in Queries |-> "any"]
  /\ ctxDone = [q \in Queries |-> FALSE]
  /\ try = [q \in Queries |-> 0]
  /\ server = [q \in Queries |-> 0]
  /\ answer = [q \in Queries |-> FALSE]
  /\ got = [q \in Queries |-> {}]
  /\ used = [s \in Servers |-> 0]
  /\ counter = 0
  /\ tried = [q \in Queries |-> {}]
  /\ alone = [q \in Queries |-> FALSE]
  /\ round = {}

Start(q) ==
  /\ pc[q] \in Ended
  /\ \E m \in Modes : mode' = [mode EXCEPT ![q] = m]
  /\ pc' = [pc EXCEPT ![q] = "pick"]
  /\ ctxDone' = [ctxDone EXCEPT ![q] = FALSE]
  /\ try' = [try EXCEPT ![q] = 0]
  /\ server' = [server EXCEPT ![q] = 0]
  /\ answer' = [answer EXCEPT ![q] = FALSE]
  /\ got' = [got EXCEPT ![q] = {}]
  /\ tried' = [tried EXCEPT ![q] = {}]
  /\ alone' = [p \in Queries |->
                  IF p = q THEN \A r \in Queries \ {q} : pc[r] \in Ended
                  ELSE alone[p] /\ pc[p] \in Ended]
  /\ UNCHANGED <<used, counter, round>>

(* The timeout of the query passes, or its caller goes away.               *)
Deadline(q) ==
  /\ pc[q] \notin Ended
  /\ ~ctxDone[q]
  /\ ctxDone' = [ctxDone EXCEPT ![q] = TRUE]
  /\ UNCHANGED <<pc, mode, try, server, answer, got, tried, alone,
                 used, counter, round>>

(* What history keeps of the choice of server s.                           *)
Picked(q, s) ==
  /\ tried' = [tried EXCEPT ![q] = @ \cup {s}]
  /\ round' = IF mode[q] = "all" THEN round
              ELSE IF round \cup {s} = Servers THEN {} ELSE round \cup {s}

(* Mutated form of NextCounter: a failed query starts at the first server  *)
(* again.                                                                  *)
NextCounterTries(q) == (try[q] + 1) % N

(* atomic.AddUint64.                                                       *)
NextCounter(q) == (counter + 1) % N

(* pickServer leaves the counter alone when there is one server.           *)
pickServer(q) ==
  /\ pc[q] = "pick" /\ mode[q] = "any"
  /\ counter' = IF N = 1 THEN counter ELSE NextCounter(q)
  /\ LET s == IF N = 1 THEN 0 ELSE NextCounter(q) IN
     /\ server' = [server EXCEPT ![q] = s]
     /\ Picked(q, s)
  /\ pc' = [pc EXCEPT ![q] = "enter"]
  /\ UNCHANGED <<mode, ctxDone, try, answer, got, alone, used>>

(* DoQueryToAll asks the server its outer loop is at.                      *)
NextServer(q) ==
  /\ pc[q] = "pick" /\ mode[q] = "all"
  /\ Picked(q, server[q])
  /\ pc' = [pc EXCEPT ![q] = "enter"]
  /\ UNCHANGED <<mode, ctxDone, try, server, answer, got, alone, used, counter>>

(* Mutated form of AnyReturns: one try too few.                            *)
AnyReturnsEarly(q, ok) ==
  /\ mode[q] = "any"
  /\ try' = [try EXCEPT ![q] = IF ok THEN @ ELSE @ + 1]
  /\ pc' = [pc EXCEPT ![q] = IF ok THEN "ok"
                             ELSE IF try[q] + 2 < Tries THEN "pick" ELSE "failed"]
  /\ got' = [got EXCEPT ![q] = IF ok THEN @ \cup {server[q]} ELSE @]
  /\ UNCHANGED server

(* DoQuery goes on after doRequest returned: the first response is taken.  *)
AnyReturns(q, ok) ==
  /\ mode[q] = "any"
  /\ try' = [try EXCEPT ![q] = IF ok THEN @ ELSE @ + 1]
  /\ pc' = [pc EXCEPT ![q] = IF ok THEN "ok"
                             ELSE IF try[q] + 1 < Tries THEN "pick" ELSE "failed"]
  /\ got' = [got EXCEPT ![q] = IF ok THEN @ \cup {server[q]} ELSE @]
  /\ UNCHANGED server

(* Mutated form of AllReturns: the first server that fails ends the loop.  *)
AllReturnsEarly(q, ok) ==
  LET responses == IF ok THEN got[q] \cup {server[q]} ELSE got[q]
      again == ~ok /\ try[q] + 1 < Tries
      last == server[q] = N - 1
  IN
  /\ mode[q] = "all"
  /\ got' = [got EXCEPT ![q] = responses]
  /\ try' = [try EXCEPT ![q] = IF again THEN @ + 1 ELSE 0]
  /\ server' = [server EXCEPT ![q] = IF ok /\ ~last THEN @ + 1 ELSE @]
  /\ pc' = [pc EXCEPT ![q] = IF again \/ (ok /\ ~last) THEN "pick"
                             ELSE IF ok THEN "ok" ELSE "failed"]

(* DoQueryToAll goes on with the same server, or the next one when it has  *)
(* a response or no try is left.                                           *)
AllReturns(q, ok) ==
  LET responses == IF ok THEN got[q] \cup {server[q]} ELSE got[q]
      again == ~ok /\ try[q] + 1 < Tries
      last == server[q] = N - 1
  IN
  /\ mode[q] = "all"
  /\ got' = [got EXCEPT ![q] = responses]
  /\ try' = [try EXCEPT ![q] = IF again THEN @ + 1 ELSE 0]
  /\ server' = [server EXCEPT ![q] = IF again \/ last THEN @ ELSE @ + 1]
  /\ pc' = [pc EXCEPT ![q] = IF again \/ ~last THEN "pick"
                             ELSE IF responses = Servers THEN "ok" ELSE "failed"]

Returns(q, ok) ==
  /\ AnyReturns(q, ok) \/ AllReturns(q, ok)
  /\ UNCHANGED <<mode, ctxDone, tried, alone, counter, round>>

(* The URL or the body of the request cannot be built.                     *)
PrepareFails(q) ==
  /\ pc[q] = "enter"
  /\ Returns(q, FALSE)
  /\ UNCHANGED <<answer, used>>

(* A send on the channel of a server the limiter does not know blocks.     *)
HasSlot(s) == Limit > 0 => s \in Limited /\ used[s] < Limit

(* Mutated form of Enter: the slot is not looked for.                      *)
EnterUnlimited(q) ==
  /\ pc[q] = "enter"
  /\ used' = IF Limit > 0 THEN [used EXCEPT ![server[q]] = @ + 1] ELSE used
  /\ pc' = [pc EXCEPT ![q] = "http"]
  /\ UNCHANGED <<mode, ctxDone, try, server, answer, got, tried, alone,
                 counter, round>>

Enter(q) ==
  /\ pc[q] = "enter"
  /\ HasSlot(server[q])
  /\ used' = IF Limit > 0 THEN [used EXCEPT ![server[q]] = @ + 1] ELSE used
  /\ pc' = [pc EXCEPT ![q] = "http"]
  /\ UNCHANGED <<mode, ctxDone, try, server, answer, got, tried, alone,
                 counter, round>>

(* Mutated form of EnterTimeout: Enter does not watch the context.         *)
EnterTimeoutNever(q) == FALSE /\ UNCHANGED vars

(* Enter gives up once the context has ended; the query tries again.       *)
EnterTimeout(q) ==
  /\ pc[q] = "enter"
  /\ Limit > 0 /\ ctxDone[q]
  /\ Returns(q, FALSE)
  /\ UNCHANGED <<answer, used>>

(* The server answers, or the HTTP client gives up, as it does when the    *)
(* context ends.                                                           *)
Do(q) ==
  /\ pc[q] = "http"
  /\ \E a \in BOOLEAN : answer' = [answer EXCEPT ![q] = a]
  /\ pc' = [pc EXCEPT ![q] = "leave"]
  /\ UNCHANGED <<mode, ctxDone, try, server, got, tried, alone,
                 used, counter, round>>

(* Mutated form of Leave: the slot is kept when the request failed.        *)
LeaveOnSuccess(q) ==
  /\ pc[q] = "leave"
  /\ used' = IF Limit > 0 /\ answer[q]
             THEN [used EXCEPT ![server[q]] = @ - 1] ELSE used
  /\ Returns(q, answer[q])
  /\ UNCHANGED answer

(* The deferred Leave of doRequest.                                        *)
Leave(q) ==
  /\ pc[q] = "leave"
  /\ used' = IF Limit > 0 THEN [used EXCEPT ![server[q]] = @ - 1] ELSE used
  /\ Returns(q, answer[q])
  /\ UNCHANGED answer

QueryStep(q) ==
  \/ pickServer(q) \/ NextServer(q)
  \/ PrepareFails(q) \/ Enter(q) \/ EnterTimeout(q)
  \/ Do(q) \/ Leave(q)

Next == \E q \in Queries : Start(q) \/ Deadline(q) \/ QueryStep(q)

Spec == Init /\ [][Next]_vars

(* The scheduler runs every query that can run, the timer of the context   *)
(* fires, and the HTTP client returns once the context has ended.          *)
Fairness ==
  \A q \in Queries : /\ WF_vars(Deadline(q))
                     /\ WF_vars(pickServer(q) \/ NextServer(q))
                     /\ WF_vars(Enter(q) \/ EnterTimeout(q))
                     /\ WF_vars(Do(q) /\ ctxDone[q])
                     /\ WF_vars(Leave(q))

FairSpec == Spec /\ Fairness

-----------------------------------------------------------------------------
TypeOK ==
  /\ pc \in [Queries -> States]
  /\ mode \in [Queries -> {"any", "all"}]
  /\ ctxDone \in [Queries -> BOOLEAN]
  /\ try \in [Queries -> 0..Tries]
  /\ server \in [Queries -> Servers]
  /\ answer \in [Queries -> BOOLEAN]
  /\ got \in [Queries -> SUBSET Servers]
  /\ used \in [Servers -> 0..Limit]
  /\ counter \in Servers
  /\ tried \in [Queries -> SUBSET Servers]
  /\ alone \in [Queries -> BOOLEAN]
  /\ round \in SUBSET Servers

HoldersOf(s) == {q \in Queries : server[q] = s /\ pc[q] \in Holding}

(* Between two tries a query holds no slot, and at every moment the slots  *)
(* taken are those of the requests in flight: retries and timeouts neither *)
(* leak a slot nor give one back twice.                                    *)
SlotAccounting ==
  Limit > 0 => \A s \in Servers : used[s] = Cardinality(HoldersOf(s))

(* A query that waits in Enter waits for a slot somebody holds.            *)
BlockedOnlyWhenFull ==
  Limit > 0 => \A q \in Queries :
    pc[q] = "enter" /\ ~HasSlot(server[q]) =>
      Cardinality(HoldersOf(server[q])) = Limit

(* A DoQuery that fails, with no other query moving the shared counter     *)
(* meanwhile, has tried every server.                                      *)
FailureTriedAll ==
  \A q \in Queries :
    mode[q] = "any" /\ alone[q] /\ pc[q] = "failed" => tried[q] = Servers

(* DoQueryToAll asks every server even when one fails, and reports success *)
(* only when it has the response of each.                                  *)
AllAsked ==
  \A q \in Queries : mode[q] = "all" =>
    /\ pc[q] \in {"ok", "failed"} => tried[q] = Servers
    /\ pc[q] = "ok" => got[q] = Servers

(* No server is picked a second time before every other one had its turn,  *)
(* whichever queries and retries the turns go to.                          *)
EvenlyPicked ==
  [][\A q \in Queries :
       pc[q] = "pick" /\ pc'[q] = "enter" /\ mode[q] = "any"
         => server'[q] \notin round]_vars

(* Every query ends, since each try ends once the context has ended.       *)
QueryEnds == \A q \in Queries : pc[q] \notin Ended ~> pc[q] \in Ended
=============================================================================
