----------------------------- MODULE Broadcast -----------------------------
(***************************************************************************)
(* The fan-out of a broadcast group: BroadcastGroup.Fetch, Find, Info and  *)
(* TagNames/TagValues (zipper/broadcast/broadcast_group.go), the gather    *)
(* loop they share (DoRequest, zipper/types/response.go), the fetcher      *)
(* goroutines it starts, and the per-server limiter those goroutines       *)
(* claim slots of (limiter/limiter.go).                                    *)
(*                                                                         *)
(* A call starts one fetcher per target backend and gathers one response   *)
(* per target from a channel whose capacity is the number of targets,      *)
(* until the context is done.  A Fetch first splits its request into       *)
(* batches; doSingleFetch asks for the batches one after the other,        *)
(* doMultiFetch starts one goroutine per batch.                            *)
(*                                                                         *)
(* A response is abstracted to the batches it has data for and the         *)
(* classes of the errors it carries: "notfound" (HTTP code 404, which      *)
(* MergeHttpErrors ignores) and "error" (any other code).                  *)
(***************************************************************************)
EXTENDS Naturals, Sequences, FiniteSets

CONSTANTS Calls,              \* identifiers of calls in progress
          Backends,           \* children of the group
          Limit,              \* concurrency limit per backend; 0: NoopLimiter
          MaxParts,           \* bound on the batches splitRequest returns
          Splitting,          \* backend.MaxMetricsPerRequest() # 0
          MultiFetch,         \* doMultipleRequestsIfSplit
          RequireSuccessAll,  \* requireSuccessAll
          Ops,                \* the operations callers use
          Answers             \* what backend calls return

AllOps == {"fetch", "find", "info", "tags"}

(* What a backend's Fetch, Find, Info or Tag call returns: "partial" is    *)
(* data together with ErrNonFatalErrors, as a nested group returns it.     *)
AllAnswers == {"data", "empty", "partial", "notfound", "error"}

ASSUME BroadcastAssumption ==
  /\ IsFiniteSet(Calls)
  /\ IsFiniteSet(Backends) /\ Backends # {}
  /\ Limit \in Nat
  /\ MaxParts \in Nat \ {0}
  /\ Splitting \in BOOLEAN
  /\ MultiFetch \in BOOLEAN
  /\ RequireSuccessAll \in BOOLEAN
  /\ Ops \subseteq AllOps
  /\ Answers \subseteq AllAnswers

Errs == {"notfound", "error"}
Parts == 1..MaxParts

(* <<c, b, 0>> is the fetcher DoRequest starts for backend b; <<c, b, i>>  *)
(* is the goroutine doMultiFetch starts for the i-th batch.                *)
Goroutines == Calls \X Backends \X (0..MaxParts)
Fetcher(c, b) == <<c, b, 0>>
OfCall(c) == {g \in Goroutines : g[1] = c}

(* "fail" sends an error response without holding a slot; "reply" sends    *)
(* the response while the slot is held; "leave" is the deferred            *)
(* limiter.Leave.                                                          *)
GStates == {"none", "split", "enter", "call", "reply", "leave", "fail", "gone"}
Holding == {"call", "reply", "leave"}
Running == GStates \ {"none", "gone"}

Outcomes == {"none", "ok", "partial", "notfound", "failed"}

NoResponse == [data |-> {}, errs |-> {}]

(* ServerFetchResponse.AddError; Merge of backend b's response p into r.   *)
AddError(r, e) == [data |-> r.data, errs |-> r.errs \cup {e}]
Merge(r, b, p) == [data |-> r.data \cup {<<b, i>> : i \in p.data},
                   errs |-> r.errs \cup p.errs]

VARIABLES
  pc,       \* pc[c]: where the caller's goroutine is
  op,       \* op[c]: the operation c performs
  ctxDone,  \* ctxDone[c]: deadline passed, or cancelled
  targets,  \* targets[c]: the clients DoRequest was given
  go,       \* go[g]: where goroutine g is
  todo,     \* todo[g]: batches g has still to ask for
  resp,     \* resp[g]: the response g builds
  chan,     \* chan[c]: resCh, its senders in order
  count,    \* count[c]: responseCount
  result,   \* result[c]: the merged result
  outcome,  \* outcome[c]: what the operation returned
  used      \* used[b]: taken slots of b's limiter

callVars == <<pc, op, ctxDone, targets, count, result, outcome>>
vars == <<callVars, go, todo, resp, chan, used>>

TypeOK ==
  /\ pc \in [Calls -> {"idle", "gather", "return", "done"}]
  /\ op \in [Calls -> AllOps]
  /\ ctxDone \in [Calls -> BOOLEAN]
  /\ targets \in [Calls -> SUBSET Backends]
  /\ go \in [Goroutines -> GStates]
  /\ todo \in [Goroutines -> SUBSET Parts]
  /\ resp \in [Goroutines -> [data : SUBSET Parts, errs : SUBSET Errs]]
  /\ chan \in [Calls -> Seq(Goroutines)]
  /\ count \in [Calls -> Nat]
  /\ result \in [Calls -> [data : SUBSET (Backends \X Parts), errs : SUBSET Errs]]
  /\ outcome \in [Calls -> Outcomes]
  /\ used \in [Backends -> 0..Limit]

Init ==
  /\ pc = [c \in Calls |-> "idle"]
  /\ op = [c \in Calls |-> "fetch"]
  /\ ctxDone = [c \in Calls |-> FALSE]
  /\ targets = [c \in Calls |-> {}]
  /\ go = [g \in Goroutines |-> "none"]
  /\ todo = [g \in Goroutines |-> {}]
  /\ resp = [g \in Goroutines |-> NoResponse]
  /\ chan = [c \in Calls |-> <<>>]
  /\ count = [c \in Calls |-> 0]
  /\ result = [c \in Calls |-> NoResponse]
  /\ outcome = [c \in Calls |-> "none"]
  /\ used = [b \in Backends |-> 0]

-----------------------------------------------------------------------------
(* The caller.                                                             *)

(* DoRequest makes the channel and starts one fetcher per client: that of  *)
(* a Fetch starts with splitRequest, the others with the limiter.          *)
DoRequest(c, o, bs) ==
  /\ op' = [op EXCEPT ![c] = o]
  /\ targets' = [targets EXCEPT ![c] = bs]
  /\ go' = [g \in Goroutines |->
               IF g[1] # c THEN go[g]
               ELSE IF g[2] \notin bs \/ g[3] # 0 THEN "none"
               ELSE IF o = "fetch" THEN "split" ELSE "enter"]
  /\ todo' = [g \in Goroutines |->
                 IF g[1] # c THEN todo[g]
                 ELSE IF g[2] \in bs /\ g[3] = 0 /\ o # "fetch" THEN {1}
                 ELSE {}]
  /\ pc' = [pc EXCEPT ![c] = "gather"]
  /\ ctxDone' = [ctxDone EXCEPT ![c] = FALSE]
  /\ resp' = [g \in Goroutines |-> IF g[1] = c THEN NoResponse ELSE resp[g]]
  /\ chan' = [chan EXCEPT ![c] = <<>>]
  /\ count' = [count EXCEPT ![c] = 0]
  /\ result' = [result EXCEPT ![c] = NoResponse]
  /\ outcome' = [outcome EXCEPT ![c] = "none"]
  /\ UNCHANGED used

(* Fetch asks the backends filterServersByTLD selects (any non-empty set   *)
(* of children here), the other operations ask all of them.  The           *)
(* identifier of an earlier call is used again once its goroutines are     *)
(* gone.                                                                   *)
StartCall(c) ==
  /\ pc[c] \in {"idle", "done"}
  /\ \A g \in OfCall(c) : go[g] \notin Running
  /\ \E o \in Ops, bs \in SUBSET Backends \ {{}} :
       /\ o # "fetch" => bs = Backends
       /\ DoRequest(c, o, bs)

(* Mutated form of Deadline: the operation sets no timeout.                *)
DeadlineNever(c) == FALSE /\ UNCHANGED vars

(* The timeout of the operation passes, or the client goes away.           *)
Deadline(c) ==
  /\ pc[c] = "gather"
  /\ ~ctxDone[c]
  /\ ctxDone' = [ctxDone EXCEPT ![c] = TRUE]
  /\ UNCHANGED <<pc, op, targets, count, result, outcome,
                 go, todo, resp, chan, used>>

(* case res := <-resCh: merge it, count it, leave the loop when every      *)
(* client is accounted for.                                                *)
Gather(c) ==
  /\ pc[c] = "gather"
  /\ chan[c] # <<>>
  /\ LET g == Head(chan[c])
     IN  result' = [result EXCEPT ![c] = Merge(@, g[2], resp[g])]
  /\ chan' = [chan EXCEPT ![c] = Tail(@)]
  /\ count' = [count EXCEPT ![c] = @ + 1]
  /\ pc' = [pc EXCEPT ![c] = IF count[c] + 1 < Cardinality(targets[c])
                             THEN "gather" ELSE "return"]
  /\ UNCHANGED <<op, ctxDone, targets, outcome, go, todo, resp, used>>

(* Mutated form of GatherTimeout: the timeout is not added to the errors.  *)
GatherTimeoutSilent(c) ==
  /\ pc[c] = "gather"
  /\ ctxDone[c]
  /\ pc' = [pc EXCEPT ![c] = "return"]
  /\ UNCHANGED <<op, ctxDone, targets, count, result, outcome,
                 go, todo, resp, chan, used>>

(* Mutated form of GatherTimeout: the loop does not watch the context.     *)
GatherTimeoutNever(c) == FALSE /\ UNCHANGED vars

(* case <-ctx.Done(): select may choose it even when a response is ready.  *)
GatherTimeout(c) ==
  /\ pc[c] = "gather"
  /\ ctxDone[c]
  /\ result' = [result EXCEPT ![c] = AddError(@, "error")]
  /\ pc' = [pc EXCEPT ![c] = "return"]
  /\ UNCHANGED <<op, ctxDone, targets, count, outcome,
                 go, todo, resp, chan, used>>

(* MergeHttpErrors reports every error that is not a 404.                  *)
FetchOutcome(r) ==
  IF r.data = {} \/ (RequireSuccessAll /\ r.errs # {})
  THEN IF "error" \in r.errs THEN "failed" ELSE "notfound"
  ELSE IF r.errs # {} THEN "partial" ELSE "ok"

FindOutcome(r) ==
  IF (r.data = {} \/ RequireSuccessAll) /\ "error" \in r.errs THEN "failed"
  ELSE IF r.data = {} THEN "notfound"
  ELSE IF r.errs # {} THEN "partial" ELSE "ok"

InfoOutcome(r) ==
  IF r.errs = {} THEN "ok"
  ELSE IF RequireSuccessAll THEN "failed" ELSE "partial"

TagOutcome(r) == IF "error" \in r.errs THEN "partial" ELSE "ok"

(* The operation turns the merged result into what it returns; the         *)
(* deferred cancel ends the context.                                       *)
Return(c) ==
  /\ pc[c] = "return"
  /\ outcome' = [outcome EXCEPT ![c] =
       CASE op[c] = "fetch" -> FetchOutcome(result[c])
         [] op[c] = "find"  -> FindOutcome(result[c])
         [] op[c] = "info"  -> InfoOutcome(result[c])
         [] op[c] = "tags"  -> TagOutcome(result[c])]
  /\ ctxDone' = [ctxDone EXCEPT ![c] = TRUE]
  /\ pc' = [pc EXCEPT ![c] = "done"]
  /\ UNCHANGED <<op, targets, count, result, go, todo, resp, chan, used>>

-----------------------------------------------------------------------------
(* The fetcher goroutines.                                                 *)

(* splitRequest returns the whole request when the backend has no limit    *)
(* of metrics; otherwise any number of batches, and the error of the last  *)
(* Find that failed even when other globs were resolved.                   *)
SplitResults == IF Splitting THEN [n : 0..MaxParts, err : Errs \cup {"nil"}]
                ELSE {[n |-> 1, err |-> "nil"]}

(* Both fetchers report the split's error only when there is no batch.     *)
SplitFails(c, b, s) ==
  /\ s.n = 0 /\ s.err # "nil"
  /\ go' = [go EXCEPT ![Fetcher(c, b)] = "fail"]
  /\ resp' = [resp EXCEPT ![Fetcher(c, b)] = AddError(@, s.err)]
  /\ UNCHANGED todo

(* doSingleFetch goes on to the limiter with all batches.                  *)
OneByOne(c, b, s) ==
  /\ s.n > 0 \/ s.err = "nil"
  /\ go' = [go EXCEPT ![Fetcher(c, b)] = "enter"]
  /\ todo' = [todo EXCEPT ![Fetcher(c, b)] = 1..s.n]
  /\ UNCHANGED resp

(* doMultiFetch starts one goroutine per batch and ends.                   *)
AllAtOnce(c, b, s) ==
  LET Started == {<<c, b, i>> : i \in 1..s.n} IN
  /\ s.n > 0 \/ s.err = "nil"
  /\ go' = [g \in Goroutines |-> IF g \in Started THEN "enter"
                                 ELSE IF g = Fetcher(c, b) THEN "gone"
                                 ELSE go[g]]
  /\ todo' = [g \in Goroutines |-> IF g \in Started THEN {g[3]} ELSE todo[g]]
  /\ UNCHANGED resp

SplitInto(c, b, s) ==
  /\ \/ SplitFails(c, b, s)
     \/ ~MultiFetch /\ OneByOne(c, b, s)
     \/ MultiFetch /\ AllAtOnce(c, b, s)
  /\ UNCHANGED <<callVars, chan, used>>

Split(c, b) ==
  /\ go[Fetcher(c, b)] = "split"
  /\ \E s \in SplitResults : SplitInto(c, b, s)

(* Mutated form of Enter: claims a slot without looking for a free one.    *)
EnterUnlimited(g) ==
  /\ go[g] = "enter"
  /\ used' = IF Limit > 0 THEN [used EXCEPT ![g[2]] = @ + 1] ELSE used
  /\ go' = [go EXCEPT ![g] = IF todo[g] = {} THEN "reply" ELSE "call"]
  /\ UNCHANGED <<callVars, todo, resp, chan>>

(* limiter.Enter claims a slot; a goroutine with nothing to ask for goes   *)
(* straight to its response.                                               *)
Enter(g) ==
  /\ go[g] = "enter"
  /\ Limit > 0 => used[g[2]] < Limit
  /\ used' = IF Limit > 0 THEN [used EXCEPT ![g[2]] = @ + 1] ELSE used
  /\ go' = [go EXCEPT ![g] = IF todo[g] = {} THEN "reply" ELSE "call"]
  /\ UNCHANGED <<callVars, todo, resp, chan>>

(* Mutated form of EnterTimeout: Leave was deferred before the error of    *)
(* Enter is looked at.                                                     *)
EnterTimeoutLeaves(g) ==
  /\ go[g] = "enter"
  /\ Limit > 0
  /\ ctxDone[g[1]]
  /\ go' = [go EXCEPT ![g] = "reply"]
  /\ resp' = [resp EXCEPT ![g] = AddError(@, "error")]
  /\ UNCHANGED <<callVars, todo, chan, used>>

(* Mutated form of EnterTimeout: no return after the error response.       *)
EnterTimeoutGoesOn(g) ==
  /\ go[g] = "enter"
  /\ Limit > 0
  /\ ctxDone[g[1]]
  /\ chan' = [chan EXCEPT ![g[1]] = Append(@, g)]
  /\ go' = [go EXCEPT ![g] = "call"]
  /\ resp' = [resp EXCEPT ![g] = AddError(@, "error")]
  /\ UNCHANGED <<callVars, todo, used>>

(* limiter.Enter gives up when the context is done.  NoopLimiter never     *)
(* does.                                                                   *)
EnterTimeout(g) ==
  /\ go[g] = "enter"
  /\ Limit > 0
  /\ ctxDone[g[1]]
  /\ go' = [go EXCEPT ![g] = "fail"]
  /\ resp' = [resp EXCEPT ![g] = AddError(@, "error")]
  /\ UNCHANGED <<callVars, todo, chan, used>>

(* The backend answers a for batch i, and the answer is added to the       *)
(* response.                                                               *)
Answer(g, i, a) ==
  /\ todo' = [todo EXCEPT ![g] = @ \ {i}]
  /\ go' = [go EXCEPT ![g] = IF todo[g] = {i} THEN "reply" ELSE "call"]
  /\ resp' = [resp EXCEPT ![g] =
       [data |-> @.data \cup IF a \in {"data", "partial"} THEN {i} ELSE {},
        errs |-> @.errs \cup IF a = "notfound" THEN {"notfound"}
                             ELSE IF a \in {"partial", "error"} THEN {"error"}
                             ELSE {}]]
  /\ UNCHANGED <<callVars, chan, used>>

(* Batches are asked for in order; a Find, Info or Tag request is one.     *)
CallReturns(g) ==
  /\ go[g] = "call"
  /\ \E i \in todo[g], a \in Answers :
       (\A j \in todo[g] : i <= j) /\ Answer(g, i, a)

(* Mutated form of CanSend: resCh without a buffer.                        *)
CanSendUnbuffered(c) == pc[c] = "gather" /\ chan[c] = <<>>

(* resCh <- response blocks while the channel is full.                     *)
CanSend(c) == Len(chan[c]) < Cardinality(targets[c])

Reply(g) ==
  /\ go[g] \in {"reply", "fail"}
  /\ CanSend(g[1])
  /\ chan' = [chan EXCEPT ![g[1]] = Append(@, g)]
  /\ go' = [go EXCEPT ![g] = IF go[g] = "reply" THEN "leave" ELSE "gone"]
  /\ UNCHANGED <<callVars, todo, resp, used>>

(* Mutated form of Leave: the slot is not given back.                      *)
LeaveForgotten(g) ==
  /\ go[g] = "leave"
  /\ go' = [go EXCEPT ![g] = "gone"]
  /\ UNCHANGED <<callVars, todo, resp, chan, used>>

(* The deferred limiter.Leave.                                             *)
Leave(g) ==
  /\ go[g] = "leave"
  /\ used' = IF Limit > 0 THEN [used EXCEPT ![g[2]] = @ - 1] ELSE used
  /\ go' = [go EXCEPT ![g] = "gone"]
  /\ UNCHANGED <<callVars, todo, resp, chan>>

GoroutineStep(g) ==
  \/ g[3] = 0 /\ Split(g[1], g[2])
  \/ Enter(g)
  \/ EnterTimeout(g)
  \/ CallReturns(g)
  \/ Reply(g)
  \/ Leave(g)

Next ==
  \/ \E c \in Calls : \/ StartCall(c)
                      \/ Deadline(c)
                      \/ Gather(c)
                      \/ GatherTimeout(c)
                      \/ Return(c)
  \/ \E g \in Goroutines : GoroutineStep(g)

Spec == Init /\ [][Next]_vars

(* The Go scheduler runs every goroutine that can run; the timer of the    *)
(* context fires; a backend call returns once its context is done (the     *)
(* HTTP client is given the context), but need not return before.          *)
Fairness ==
  /\ \A c \in Calls : /\ WF_vars(Deadline(c))
                      /\ WF_vars(Gather(c) \/ GatherTimeout(c))
                      /\ WF_vars(Return(c))
  /\ \A g \in Goroutines :
       /\ WF_vars(g[3] = 0 /\ Split(g[1], g[2]) /\ ctxDone[g[1]])
       /\ WF_vars(Enter(g) \/ EnterTimeout(g))
       /\ WF_vars(CallReturns(g) /\ ctxDone[g[1]])
       /\ WF_vars(Reply(g))
       /\ WF_vars(Leave(g))

FairSpec == Spec /\ Fairness

-----------------------------------------------------------------------------
(* Properties.                                                             *)

HoldersOf(b) == {g \in Goroutines : g[2] = b /\ go[g] \in Holding}

(* The slots taken of a backend's limiter are those of the goroutines that *)
(* are between Enter and the deferred Leave, whatever path they take: no   *)
(* slot is leaked by a timeout and none is returned twice, so a backend    *)
(* never has more than Limit requests of the group at a time.              *)
SlotAccounting ==
  Limit > 0 => \A b \in Backends : /\ used[b] = Cardinality(HoldersOf(b))
                                   /\ Cardinality(HoldersOf(b)) <= Limit

(* A goroutine that is about to send its response finds room in resCh,     *)
(* even when the caller has given up: DoRequest's capacity is enough.      *)
RepliesFit ==
  \A g \in Goroutines : go[g] \in {"reply", "fail"} => CanSend(g[1])

(* When an operation returns without an error, nothing any goroutine of    *)
(* the call asked for is outstanding, no error it met was dropped and all  *)
(* the data it got is in the result.                                       *)
OkMeansComplete ==
  \A c \in Calls : outcome[c] = "ok" =>
    \A g \in OfCall(c) :
      /\ todo[g] = {}
      /\ "error" \notin resp[g].errs
      /\ {<<g[2], i>> : i \in resp[g].data} \subseteq result[c].data

(* Every call returns, whatever the backends do.                           *)
EveryCallReturns ==
  \A c \in Calls : pc[c] = "gather" ~> pc[c] = "done"

(* Every goroutine a call starts ends and gives its slot back, also when   *)
(* the caller stopped listening before it answered.                        *)
GoroutinesEnd ==
  \A g \in Goroutines : go[g] \in Running ~> go[g] \notin Running
=============================================================================
