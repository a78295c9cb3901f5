----------------------------- MODULE HttpErrors -----------------------------
(***************************************************************************)
(* The status code of a render request that fails: MergeHttpErrors for the *)
(* errors of a group's backends, met in the order of arrival, then         *)
(* MergeHttpErrorMap for the errors of the targets, met in the order a Go  *)
(* map is iterated in (zipper/helper/errors.go, used by                    *)
(* zipper/broadcast/broadcast_group.go and                                 *)
(* cmd/carbonapi/http/render_handler.go).                                  *)
(*                                                                         *)
(* The targets are evaluated one after the other, so combining them in one *)
(* fetch (CombineMultipleTargetsInOne) is left out.  No target has data,   *)
(* so every error counts.  An error is its HTTP code; the messages are     *)
(* left out.  The client may repeat a request that failed while the errors *)
(* stay the same.                                                          *)
(***************************************************************************)
EXTENDS Integers

CONSTANTS NumTargets,         \* the number of targets of the request
          Backends,           \* the backends of the group
          Codes,              \* the codes backends fail with
          NotFoundStatusCode  \* config: the code to answer for 404

ASSUME HttpErrorsAssumption ==
  /\ NumTargets \in Nat \ {0} /\ Backends # {}
  /\ Codes \subseteq 400..599
  /\ NotFoundStatusCode \in 200..599

Targets == 1..NumTargets

VARIABLES fails,     \* fails[t][b]: code of the error of b for target t
          invalid,   \* targets whose evaluation fails with ErrInvalidArg
          requireSuccessAll,  \* config: stop at the first error
          turn,      \* the target evaluated, NumTargets + 1 after the loop
          left,      \* its errors MergeHttpErrors has not met yet
          code,      \* its returnCode
          errors,    \* errors[t]: code MergeHttpErrorMap reads for t, 0 if none
          keys,      \* targets with an error it has not met yet
          total,     \* its returnCode
          answer,    \* status of the response, 0 before
          previous   \* status of the response before that, 0 if none

given == <<fails, invalid, requireSuccessAll>>
vars == <<given, turn, left, code, errors, keys, total, answer, previous>>

(* Communication errors are reported as one code: all can be retried.      *)
Simplify(c) == IF c \in {502, 504} THEN 503 ELSE c

(* Mutated form of recalcCode: a 403 replaces a 400 as well.               *)
recalcCodeForbidden(c, new) ==
  LET n == Simplify(new) IN
  IF c \in {0, 404} THEN n
  ELSE IF c \in 400..499 /\ n \in {400, 403} THEN n
  ELSE IF n < c THEN n ELSE c

(* The code of an error is added to the code so far.                       *)
recalcCode(c, new) ==
  LET n == Simplify(new) IN
  IF c \in {0, 404} THEN n
  ELSE IF c \in 400..499 /\ (n = 400 \/ (n = 403 /\ c # 400)) THEN n
  ELSE IF n < c THEN n ELSE c

(* What both merges do with an error: a 404 is passed over.                *)
Add(c, new) == IF new = 404 THEN c ELSE recalcCode(c, new)

Init ==
  /\ fails \in [Targets -> [Backends -> Codes]]
  /\ invalid \in SUBSET Targets
  /\ requireSuccessAll \in BOOLEAN
  /\ turn = 1 /\ left = Backends /\ code = 404
  /\ errors = [t \in Targets |-> 0] /\ keys = {}
  /\ total = 404 /\ answer = 0 /\ previous = 0

(* MergeHttpErrors of the group meets the error of backend b.              *)
MergeHttpErrors(b) ==
  /\ turn \in Targets /\ b \in left
  /\ left' = left \ {b}
  /\ code' = Add(code, fails[turn][b])
  /\ UNCHANGED <<given, turn, errors, keys, total, answer, previous>>

(* The error of the target evaluated: what the group's Fetch returned,     *)
(* which HttpErrorByCode gives the same code, or ErrInvalidArg, whose code *)
(* is 500 and which both merges read as 400. *)
TargetCode == IF turn \in invalid THEN 400 ELSE code

(* Mutated form of Breaks: a target without data ends the loop too.        *)
BreaksAlways(c) == requireSuccessAll

(* An error that is not a 404 ends the loop over the targets.              *)
Breaks(c) == requireSuccessAll /\ c # 404

(* The target has failed and its error is put in the map.                  *)
EndTarget ==
  /\ turn \in Targets
  /\ turn \in invalid \/ left = {}
  /\ errors' = [errors EXCEPT ![turn] = TargetCode]
  /\ keys' = keys \cup {turn}
  /\ turn' = IF Breaks(TargetCode) THEN NumTargets + 1 ELSE turn + 1
  /\ left' = Backends /\ code' = 404
  /\ UNCHANGED <<given, total, answer, previous>>

(* MergeHttpErrorMap meets the error of target t.                          *)
MergeHttpErrorMap(t) ==
  /\ turn > NumTargets /\ t \in keys
  /\ keys' = keys \ {t}
  /\ total' = Add(total, errors[t])
  /\ UNCHANGED <<given, turn, left, code, errors, answer, previous>>

(* The handler answers.                                                    *)
Respond ==
  /\ turn > NumTargets /\ keys = {} /\ answer = 0
  /\ answer' = IF total = 404 THEN NotFoundStatusCode ELSE total
  /\ UNCHANGED <<given, turn, left, code, errors, keys, total, previous>>

(* The client asks again and everything fails as it did.                   *)
Repeat ==
  /\ answer # 0
  /\ previous' = answer
  /\ turn' = 1 /\ left' = Backends /\ code' = 404
  /\ errors' = [t \in Targets |-> 0] /\ keys' = {}
  /\ total' = 404 /\ answer' = 0
  /\ UNCHANGED given

Next ==
  \/ \E b \in Backends : MergeHttpErrors(b)
  \/ EndTarget
  \/ \E t \in Targets : MergeHttpErrorMap(t)
  \/ Respond
  \/ Repeat

Spec == Init /\ [][Next]_vars

-----------------------------------------------------------------------------
Status == {0} \cup 200..599

TypeOK ==
  /\ fails \in [Targets -> [Backends -> Codes]]
  /\ invalid \in SUBSET Targets
  /\ requireSuccessAll \in BOOLEAN
  /\ turn \in 1..NumTargets + 1
  /\ left \in SUBSET Backends
  /\ code \in 400..599
  /\ errors \in [Targets -> {0} \cup 400..599]
  /\ keys \in SUBSET Targets
  /\ total \in 400..599
  /\ answer \in Status
  /\ previous \in Status

(* The codes of a set of errors that count.                                *)
Counted(S) == {Simplify(c) : c \in S \ {404}}

(* The errors of a target, those of its backends or its own.               *)
ErrorsOf(t) == IF t \in invalid THEN {400} ELSE {fails[t][b] : b \in Backends}

(* The targets whose errors decide: all of them; with requireSuccessAll    *)
(* those up to the first one with an error that is not a 404. *)
Decides(t) == requireSuccessAll => \A u \in 1..t - 1 : Counted(ErrorsOf(u)) = {}
AllErrors == UNION {ErrorsOf(t) : t \in {u \in Targets : Decides(u)}}

IsLowest(c, S) == IF S = {} THEN c = 404 ELSE c \in S /\ \A s \in S : c <= s

(* The answer is the lowest code among the errors of all backends for all  *)
(* the targets that decide, 404s left out, as if they had been merged at   *)
(* once; NotFoundStatusCode when there is none.  Merging group by group    *)
(* loses nothing, and what requireSuccessAll leaves out is what comes      *)
(* after the first target that fails. *)
AnswerIsLowest ==
  answer # 0 =>
    IF Counted(AllErrors) = {} THEN answer = NotFoundStatusCode
    ELSE IsLowest(answer, Counted(AllErrors))

(* The same errors get the same status, whatever order backends answer in  *)
(* and the map of errors is iterated in.                                   *)
StableCode == answer # 0 /\ previous # 0 => answer = previous
=============================================================================
