-------------------------- MODULE HttpErrorsProofs --------------------------
(* The status of a failed request for any targets, backends and errors, as *)
(* long as no backend answers 401 or 402.                                  *)
EXTENDS HttpErrors, TLAPS

(* The codes for which the order of errors does not matter.                *)
Orderly == {400} \cup 403..599

(* Simplify keeps codes among the orderly ones.                            *)
LEMMA SimplifyOrderly ==
  ASSUME NEW c \in Orderly PROVE Simplify(c) \in Orderly
  BY DEF Simplify, Orderly

(* The counted codes of orderly errors are orderly.                        *)
LEMMA CountedOrderly ==
  ASSUME NEW S, S \subseteq Orderly
  PROVE  Counted(S) \subseteq Orderly \ {404}
  BY DEF Counted, Simplify, Orderly

(* Counted distributes over the addition of an error.                      *)
LEMMA CountedAdd ==
  ASSUME NEW S, NEW n
  PROVE  Counted(S \cup {n}) = Counted(S) \cup IF n = 404 THEN {} ELSE {Simplify(n)}
  BY DEF Counted

(* Adding one error to the lowest of some gives the lowest of all.         *)
LEMMA AddLowest ==
  ASSUME NEW S, S \subseteq Orderly, NEW n \in Orderly, NEW c \in 400..599,
         IsLowest(c, Counted(S))
  PROVE  IsLowest(Add(c, n), Counted(S \cup {n})) /\ Add(c, n) \in 400..599
  <1>1. CASE n = 404
    <2>1. Counted(S \cup {n}) = Counted(S)
      BY <1>1 DEF Counted
    <2> QED
      BY <1>1, <2>1 DEF Add
  <1>2. CASE n # 404
    <2> DEFINE m == Simplify(n)
    <2>1. m \in Orderly \ {404} /\ Counted(S) \subseteq Orderly \ {404}
      <3>1. m \in Orderly \ {404}
        BY <1>2 DEF Simplify, Orderly
      <3> QED
        BY <3>1, CountedOrderly
    <2>2. Counted(S \cup {n}) = Counted(S) \cup {m}
      BY <1>2, CountedAdd
    <2>3. Add(c, n) = IF c \in {0, 404} THEN m
                      ELSE IF c \in 400..499 /\ (m = 400 \/ (m = 403 /\ c # 400)) THEN m
                      ELSE IF m < c THEN m ELSE c
      BY <1>2 DEF Add, recalcCode
    <2>4. CASE Counted(S) = {}
      <3>1. c = 404 /\ Counted(S \cup {n}) = {m}
        BY <2>2, <2>4 DEF IsLowest
      <3> QED
        BY <2>1, <2>3, <3>1 DEF IsLowest, Orderly
    <2>5. CASE Counted(S) # {}
      <3> DEFINE T == Counted(S)
      <3>1. c \in T /\ \A s \in T : c <= s
        BY <2>5 DEF IsLowest
      <3> HIDE DEF m, T
      <3>2. c \in Orderly /\ c # 404 /\ c # 0
        BY <2>1, <3>1 DEF T, Orderly
      <3>3. Add(c, n) = IF m < c THEN m ELSE c
        BY <2>1, <2>3, <3>2 DEF Orderly
      <3>4. T \subseteq Int /\ m \in Int /\ c \in Int
        BY <2>1, <3>2 DEF T, Orderly
      <3>5. Add(c, n) \in T \cup {m} /\ \A s \in T \cup {m} : Add(c, n) <= s
        BY <3>1, <3>3, <3>4
      <3>6. Add(c, n) \in 400..599
        BY <2>1, <3>3 DEF Orderly
      <3> QED
        BY <2>2, <3>5, <3>6 DEF IsLowest, T
    <2> QED
      BY <2>4, <2>5
  <1> QED
    BY <1>1, <1>2

(* The targets whose error is in the map, the errors the map's merge has   *)
(* met and the errors the merge of the target evaluated has met. *)
Raised == {t \in Targets : errors[t] # 0}
MapErrors == {errors[t] : t \in Raised \ keys}
Seen == {fails[turn][b] : b \in Backends \ left}

RightFor(a) ==
  a # 0 => IF Counted(AllErrors) = {} THEN a = NotFoundStatusCode
           ELSE IsLowest(a, Counted(AllErrors))

(* During the loop the errors of the targets before this one are in the    *)
(* map and this one decides; after it those of the targets that decide.    *)
LoopRight ==
  /\ turn \in Targets => Raised = 1..turn - 1 /\ keys = Raised /\ Decides(turn)
  /\ turn \notin Targets => Raised = {t \in Targets : Decides(t)}

(* Why the answer is right: each code is the lowest its merge has met; the *)
(* map is merged only once the loop is over; the answer, also that of the  *)
(* previous request, is a function of the errors alone.                    *)
Inv ==
  /\ TypeOK
  /\ turn \in Targets => IsLowest(code, Counted(Seen))
  /\ \A t \in Raised : IsLowest(errors[t], Counted(ErrorsOf(t)))
  /\ keys \subseteq Raised
  /\ LoopRight
  /\ IsLowest(total, Counted(MapErrors))
  /\ RightFor(answer)
  /\ RightFor(previous)

(* The errors of a target are orderly, and so is the lowest of them.       *)
LEMMA ErrorsOrderly ==
  ASSUME Codes \subseteq Orderly, TypeOK, NEW t \in Targets
  PROVE  /\ ErrorsOf(t) \subseteq Orderly
         /\ Counted(ErrorsOf(t)) \subseteq Orderly \ {404}
         /\ \A c : IsLowest(c, Counted(ErrorsOf(t))) => c \in Orderly /\ c \in 400..599
  <1>1. ErrorsOf(t) \subseteq Orderly
    <2>1. \A b \in Backends : fails[t][b] \in Orderly
      BY DEF TypeOK
    <2>2. 400 \in Orderly
      BY DEF Orderly
    <2> QED
      BY <2>1, <2>2 DEF ErrorsOf
  <1>2. Counted(ErrorsOf(t)) \subseteq Orderly \ {404}
    BY <1>1, CountedOrderly
  <1>3. Orderly \subseteq 400..599 /\ 404 \in Orderly
    BY DEF Orderly
  <1>4. ASSUME NEW c, IsLowest(c, Counted(ErrorsOf(t)))
        PROVE  c \in Orderly /\ c \in 400..599
    <2>1. c = 404 \/ c \in Counted(ErrorsOf(t))
      BY <1>4 DEF IsLowest
    <2>2. c \in Orderly
      <3>1. CASE c = 404
        BY <1>3, <3>1
      <3>2. CASE c \in Counted(ErrorsOf(t))
        BY <1>2, <3>2
      <3> QED
        BY <2>1, <3>1, <3>2
    <2> QED
      BY <1>3, <2>2
  <1> QED
    BY <1>1, <1>2, <1>4

(* The lowest of each target's lowest codes is the lowest of all.          *)
LEMMA LowestOfLowest ==
  ASSUME Codes \subseteq Orderly, TypeOK, NEW D, D \subseteq Targets,
         \A t \in D : IsLowest(errors[t], Counted(ErrorsOf(t))),
         NEW c, IsLowest(c, Counted({errors[t] : t \in D}))
  PROVE  IsLowest(c, Counted(UNION {ErrorsOf(t) : t \in D}))
  <1> DEFINE M == {errors[t] : t \in D}
             All == UNION {ErrorsOf(t) : t \in D}
  <1>1. \A t \in D : Counted(ErrorsOf(t)) \subseteq Orderly \ {404}
    BY ErrorsOrderly
  <1>2. Counted(All) = UNION {Counted(ErrorsOf(t)) : t \in D}
    BY DEF Counted
  <1>3. ASSUME NEW t \in D
        PROVE  IF Counted(ErrorsOf(t)) = {} THEN errors[t] = 404
               ELSE /\ errors[t] \in Counted(M)
                    /\ errors[t] \in Counted(ErrorsOf(t))
                    /\ \A s \in Counted(ErrorsOf(t)) : errors[t] <= s
    <2>1. CASE Counted(ErrorsOf(t)) = {}
      BY <2>1 DEF IsLowest
    <2>2. CASE Counted(ErrorsOf(t)) # {}
      <3>1. /\ errors[t] \in Counted(ErrorsOf(t))
            /\ \A s \in Counted(ErrorsOf(t)) : errors[t] <= s
        BY <2>2 DEF IsLowest
      <3>2. Simplify(errors[t]) = errors[t] /\ errors[t] # 404
        BY <1>1, <3>1 DEF Counted, Simplify
      <3>3. errors[t] \in Counted(M)
        BY <3>2 DEF Counted
      <3> QED
        BY <2>2, <3>1, <3>3
    <2> QED
      BY <2>1, <2>2
  <1>4. ASSUME NEW s \in Counted(M)
        PROVE  \E t \in D : s = errors[t] /\ s \in Counted(ErrorsOf(t))
    <2>1. PICK t \in D : errors[t] # 404 /\ s = Simplify(errors[t])
      BY DEF Counted
    <2>2. errors[t] \in Counted(ErrorsOf(t))
      BY <1>3, <2>1
    <2>3. Simplify(errors[t]) = errors[t]
      BY <2>2 DEF Counted, Simplify
    <2> QED
      BY <2>1, <2>2, <2>3
  <1>5. CASE Counted(M) = {}
    <2>1. Counted(All) = {}
      BY <1>2, <1>3, <1>5
    <2> QED
      BY <1>5, <2>1 DEF IsLowest
  <1>6. CASE Counted(M) # {}
    <2>1. c \in Counted(M) /\ \A s \in Counted(M) : c <= s
      BY <1>6 DEF IsLowest
    <2>2. c \in Counted(All)
      BY <1>2, <1>4, <2>1
    <2>3. ASSUME NEW s \in Counted(All) PROVE c <= s
      <3>1. PICK t \in D : s \in Counted(ErrorsOf(t))
        BY <1>2
      <3>2. errors[t] \in Counted(M) /\ errors[t] <= s
        BY <1>3, <3>1
      <3>3. Orderly \subseteq Int
        BY DEF Orderly
      <3>4. s \in Int /\ errors[t] \in Int
        BY <1>1, <1>3, <3>1, <3>3
      <3>5. c \in Int
        <4>1. PICK u \in D : c \in Counted(ErrorsOf(u))
          BY <1>4, <2>1
        <4> QED
          BY <1>1, <3>3, <4>1
      <3>6. c <= errors[t]
        BY <2>1, <3>2
      <3> QED
        BY <3>2, <3>4, <3>5, <3>6
    <2> QED
      BY <2>2, <2>3 DEF IsLowest
  <1> QED
    BY <1>5, <1>6

(* At its first target a request has raised and met nothing.               *)
LEMMA AtStart ==
  ASSUME turn = 1, left = Backends, code = 404, errors = [t \in Targets |-> 0],
         keys = {}, total = 404
  PROVE  /\ Raised = {} /\ MapErrors = {} /\ IsLowest(total, Counted(MapErrors))
         /\ turn \in Targets => IsLowest(code, Counted(Seen))
         /\ LoopRight
  <1>1. Counted({}) = {} /\ IsLowest(404, {})
    BY DEF Counted, IsLowest
  <1>2. Raised = {} /\ MapErrors = {} /\ Seen = {}
    BY DEF Raised, MapErrors, Seen
  <1>3. 1 \in Targets /\ 1..turn - 1 = {}
    BY HttpErrorsAssumption DEF Targets
  <1>4. Decides(turn)
    BY <1>3 DEF Decides
  <1>5. LoopRight
    BY <1>2, <1>3, <1>4 DEF LoopRight
  <1> QED
    BY <1>1, <1>2, <1>5

(* The invariant holds before the first error is met.                      *)
LEMMA InvInit == Init => Inv
  <1> SUFFICES ASSUME Init PROVE Inv
    OBVIOUS
  <1>1. TypeOK
    BY HttpErrorsAssumption DEF Init, TypeOK, Status
  <1>2. /\ Raised = {} /\ IsLowest(total, Counted(MapErrors))
        /\ turn \in Targets => IsLowest(code, Counted(Seen))
        /\ LoopRight
    BY AtStart DEF Init
  <1>3. RightFor(answer) /\ RightFor(previous)
    BY DEF Init, RightFor
  <1>4. keys \subseteq Raised
    BY DEF Init
  <1> QED
    BY <1>1, <1>2, <1>3, <1>4 DEF Inv

(* What the errors alone decide does not change.                           *)
LEMMA SameErrors ==
  ASSUME UNCHANGED given
  PROVE  /\ \A t : ErrorsOf(t)' = ErrorsOf(t) /\ Decides(t)' = Decides(t)
         /\ AllErrors' = AllErrors
         /\ answer' = answer /\ RightFor(answer) => RightFor(answer)'
         /\ previous' = previous /\ RightFor(previous) => RightFor(previous)'
         /\ previous' = answer /\ RightFor(answer) => RightFor(previous)'
  <1>1. fails' = fails /\ invalid' = invalid /\ requireSuccessAll' = requireSuccessAll
    BY DEF given
  <1>2. \A t : ErrorsOf(t)' = ErrorsOf(t) /\ Decides(t)' = Decides(t)
    BY <1>1 DEF ErrorsOf, Decides
  <1>3. AllErrors' = AllErrors
    BY <1>2 DEF AllErrors
  <1> QED
    BY <1>2, <1>3 DEF RightFor

(* The merge of a group takes the error of one backend in.                 *)
LEMMA BackendMet ==
  ASSUME Codes \subseteq Orderly, Inv, NEW b \in Backends, MergeHttpErrors(b)
  PROVE  Inv'
  <1> USE DEF Inv
  <1>1. /\ UNCHANGED given /\ turn' = turn /\ errors' = errors /\ keys' = keys
        /\ total' = total /\ answer' = answer /\ previous' = previous
        /\ turn \in Targets /\ b \in left
        /\ left' = left \ {b} /\ code' = Add(code, fails[turn][b])
    BY DEF MergeHttpErrors
  <1>2. fails' = fails /\ invalid' = invalid /\ requireSuccessAll' = requireSuccessAll
    BY <1>1 DEF given
  <1>3. Seen' = Seen \cup {fails[turn][b]}
    BY <1>1, <1>2 DEF Seen, TypeOK
  <1>4. Seen \subseteq Orderly /\ fails[turn][b] \in Orderly
    BY <1>1 DEF Seen, TypeOK
  <1>5. code \in 400..599 /\ IsLowest(code, Counted(Seen))
    BY <1>1 DEF TypeOK
  <1> DEFINE S == Seen
             n == fails[turn][b]
  <1>6. IsLowest(Add(code, n), Counted(S \cup {n})) /\ Add(code, n) \in 400..599
    <2> HIDE DEF S, n
    <2> QED
      BY <1>4, <1>5, AddLowest DEF S, n
  <1>7. TypeOK'
    BY <1>1, <1>2, <1>6 DEF TypeOK
  <1>8. Raised' = Raised /\ MapErrors' = MapErrors
    BY <1>1 DEF Raised, MapErrors
  <1>9. LoopRight'
    BY <1>1, <1>8, SameErrors DEF LoopRight
  <1>10. \A t \in Raised' : IsLowest(errors[t], Counted(ErrorsOf(t)))'
    BY <1>1, <1>8, SameErrors
  <1> QED
    BY <1>1, <1>3, <1>6, <1>7, <1>8, <1>9, <1>10, SameErrors

(* The code a target ends with is the lowest of its errors.                *)
LEMMA TargetLowest ==
  ASSUME Codes \subseteq Orderly, Inv, turn \in Targets, turn \in invalid \/ left = {}
  PROVE  IsLowest(TargetCode, Counted(ErrorsOf(turn))) /\ TargetCode \in 400..599
  <1>1. CASE turn \in invalid
    <2>1. TargetCode = 400 /\ Counted(ErrorsOf(turn)) = {400}
      BY <1>1 DEF TargetCode, ErrorsOf, Counted, Simplify
    <2>2. {400} # {} /\ 400 \in {400} /\ \A s \in {400} : 400 <= s
      OBVIOUS
    <2> QED
      BY <2>1, <2>2 DEF IsLowest
  <1>2. CASE turn \notin invalid
    <2>1. TargetCode = code /\ ErrorsOf(turn) = Seen
      BY <1>2 DEF TargetCode, ErrorsOf, Seen
    <2> QED
      BY <2>1 DEF Inv, TypeOK
  <1> QED
    BY <1>1, <1>2

(* The error of a target is put in the map, and the loop goes on or stops. *)
LEMMA TargetEnds ==
  ASSUME Codes \subseteq Orderly, Inv, EndTarget
  PROVE  Inv'
  <1> USE DEF Inv
  <1> DEFINE c == TargetCode
  <1>1. /\ UNCHANGED given /\ total' = total /\ answer' = answer /\ previous' = previous
        /\ turn \in Targets /\ (turn \in invalid \/ left = {})
        /\ errors' = [errors EXCEPT ![turn] = c]
        /\ keys' = keys \cup {turn}
        /\ turn' = IF Breaks(c) THEN NumTargets + 1 ELSE turn + 1
        /\ left' = Backends /\ code' = 404
    BY DEF EndTarget
  <1>2. fails' = fails /\ invalid' = invalid /\ requireSuccessAll' = requireSuccessAll
    BY <1>1 DEF given
  <1>3. IsLowest(c, Counted(ErrorsOf(turn))) /\ c \in 400..599
    BY <1>1, TargetLowest
  <1>4. c = 404 <=> Counted(ErrorsOf(turn)) = {}
    <2>1. 404 \notin Counted(ErrorsOf(turn))
      BY <1>1, ErrorsOrderly
    <2> QED
      BY <1>3, <2>1 DEF IsLowest
  <1> HIDE DEF c
  <1>5. turn \in Int /\ turn >= 1 /\ turn <= NumTargets /\ NumTargets \in Nat
    BY <1>1, HttpErrorsAssumption DEF Targets
  <1>6. turn' \in 1..NumTargets + 1
    BY <1>1, <1>5
  <1>7. TypeOK'
    BY <1>1, <1>2, <1>3, <1>6 DEF TypeOK
  <1>8. Raised = 1..turn - 1 /\ keys = Raised /\ Decides(turn)
    BY <1>1 DEF LoopRight
  <1>9. Raised' = Raised \cup {turn}
    <2>1. \A t \in Targets : errors'[t] = IF t = turn THEN c ELSE errors[t]
      BY <1>1 DEF TypeOK
    <2> QED
      BY <1>1, <1>3, <2>1 DEF Raised
  <1>10. Raised' = 1..turn /\ keys' = Raised'
    BY <1>1, <1>5, <1>8, <1>9
  <1>11. MapErrors' = {} /\ MapErrors = {}
    BY <1>8, <1>10 DEF MapErrors
  <1>12. \A t \in Raised' : IsLowest(errors[t], Counted(ErrorsOf(t)))'
    <2>1. \A t \in Raised' : errors'[t] = IF t = turn THEN c ELSE errors[t]
      BY <1>1 DEF TypeOK, Raised
    <2>2. \A t \in Raised' : IsLowest(errors'[t], Counted(ErrorsOf(t)))
      BY <1>3, <1>9, <2>1
    <2> QED
      BY <1>1, <2>2, SameErrors
  <1>13. ASSUME NEW t \in Targets
         PROVE  /\ t <= turn => Decides(t)
                /\ t > turn /\ Breaks(c) => ~Decides(t)
                /\ t = turn + 1 /\ ~Breaks(c) => Decides(t)
    <2>1. t \in Int
      BY DEF Targets
    <2>2. CASE t <= turn
      BY <1>5, <1>8, <2>1, <2>2 DEF Decides
    <2>3. CASE t > turn /\ Breaks(c)
      <3>1. requireSuccessAll /\ Counted(ErrorsOf(turn)) # {} /\ turn \in 1..t - 1
        BY <1>4, <1>5, <2>1, <2>3 DEF Breaks
      <3> QED
        BY <1>5, <2>1, <2>3, <3>1 DEF Decides
    <2>4. CASE t = turn + 1 /\ ~Breaks(c)
      <3>1. requireSuccessAll => Counted(ErrorsOf(turn)) = {}
        BY <1>4, <2>4 DEF Breaks
      <3>2. 1..t - 1 = (1..turn - 1) \cup {turn}
        BY <1>5, <2>1, <2>4
      <3>3. requireSuccessAll => \A u \in 1..turn - 1 : Counted(ErrorsOf(u)) = {}
        BY <1>8 DEF Decides
      <3> QED
        BY <1>5, <2>1, <2>4, <3>1, <3>2, <3>3 DEF Decides
    <2> QED
      BY <1>5, <2>1, <2>2, <2>3, <2>4
  <1>14. LoopRight'
    <2>1. CASE turn' \in Targets
      <3>1. ~Breaks(c) /\ turn' = turn + 1
        BY <1>1, <1>5, <2>1 DEF Targets
      <3>2. turn + 1 \in Targets /\ turn + 1..turn + 1 - 1 = {} /\ 1..turn' - 1 = 1..turn
        BY <1>5, <2>1, <3>1
      <3>3. Decides(turn + 1)
        BY <1>5, <1>13, <3>1, <3>2
      <3>4. \A t : t = turn + 1 => Decides(t)'
        BY <1>1, <3>3, SameErrors
      <3>5. Decides(turn)'
        BY <3>1, <3>4
      <3> QED
        BY <1>10, <2>1, <3>2, <3>5 DEF LoopRight
    <2>2. CASE turn' \notin Targets
      <3>1. \A t \in Targets : Decides(t) <=> t <= turn
        <4> TAKE t \in Targets
        <4> t \in Int
          BY DEF Targets
        <4>1. CASE Breaks(c)
          BY <1>5, <1>13, <4>1
        <4>2. CASE ~Breaks(c)
          <5>1. turn = NumTargets
            BY <1>1, <1>5, <2>2, <4>2 DEF Targets
          <5>2. t <= turn
            BY <1>5, <5>1 DEF Targets
          <5> QED
            BY <1>5, <1>13, <5>2
        <4> QED
          BY <4>1, <4>2
      <3>2. {t \in Targets : Decides(t)} = 1..turn
        BY <1>5, <3>1 DEF Targets
      <3>3. {t \in Targets : Decides(t)}' = {t \in Targets : Decides(t)}
        BY <1>1, SameErrors
      <3> QED
        BY <1>10, <2>2, <3>2, <3>3 DEF LoopRight
    <2> QED
      BY <2>1, <2>2
  <1>15. (turn \in Targets => IsLowest(code, Counted(Seen)))'
    <2>1. Seen' = {} /\ Counted({}) = {}
      BY <1>1 DEF Seen, Counted
    <2> QED
      BY <1>1, <2>1 DEF IsLowest
  <1>16. IsLowest(total, Counted(MapErrors))'
    BY <1>1, <1>11
  <1> QED
    BY <1>1, <1>7, <1>10, <1>12, <1>14, <1>15, <1>16, SameErrors

(* The merge of the map takes the error of one target in.                  *)
LEMMA TargetMet ==
  ASSUME Codes \subseteq Orderly, Inv, NEW t \in Targets, MergeHttpErrorMap(t)
  PROVE  Inv'
  <1> USE DEF Inv
  <1>1. /\ UNCHANGED given /\ turn' = turn /\ left' = left /\ code' = code
        /\ errors' = errors /\ answer' = answer /\ previous' = previous
        /\ turn > NumTargets /\ t \in keys /\ keys' = keys \ {t}
        /\ total' = Add(total, errors[t])
    BY DEF MergeHttpErrorMap
  <1>2. fails' = fails /\ invalid' = invalid /\ requireSuccessAll' = requireSuccessAll
    BY <1>1 DEF given
  <1>3. turn \notin Targets
    BY <1>1, HttpErrorsAssumption DEF Targets, TypeOK
  <1>4. Raised' = Raised /\ MapErrors' = MapErrors \cup {errors[t]}
    BY <1>1 DEF Raised, MapErrors
  <1>5. \A u \in Raised : errors[u] \in Orderly
    BY ErrorsOrderly DEF Raised
  <1>6. MapErrors \subseteq Orderly /\ errors[t] \in Orderly
    BY <1>1, <1>5 DEF MapErrors
  <1> DEFINE S == MapErrors
             n == errors[t]
  <1>7. IsLowest(Add(total, n), Counted(S \cup {n})) /\ Add(total, n) \in 400..599
    <2>1. total \in 400..599
      BY DEF TypeOK
    <2> HIDE DEF S, n
    <2> QED
      BY <1>6, <2>1, AddLowest DEF S, n
  <1>8. TypeOK'
    BY <1>1, <1>2, <1>7 DEF TypeOK
  <1>9. LoopRight'
    BY <1>1, <1>3, <1>4, SameErrors DEF LoopRight
  <1>10. \A u \in Raised' : IsLowest(errors[u], Counted(ErrorsOf(u)))'
    BY <1>1, <1>4, SameErrors
  <1>11. (turn \in Targets => IsLowest(code, Counted(Seen)))'
    BY <1>1, <1>3
  <1> QED
    BY <1>1, <1>4, <1>7, <1>8, <1>9, <1>10, <1>11, SameErrors

(* The answer is read off the merge of the whole map.                      *)
LEMMA AnswerRight ==
  ASSUME Codes \subseteq Orderly, Inv, Respond
  PROVE  Inv'
  <1> USE DEF Inv
  <1>1. /\ UNCHANGED given /\ turn' = turn /\ left' = left /\ code' = code
        /\ errors' = errors /\ keys' = keys /\ total' = total /\ previous' = previous
        /\ turn > NumTargets /\ keys = {}
        /\ answer' = IF total = 404 THEN NotFoundStatusCode ELSE total
    BY DEF Respond
  <1>2. fails' = fails /\ invalid' = invalid /\ requireSuccessAll' = requireSuccessAll
    BY <1>1 DEF given
  <1>3. turn \notin Targets
    BY <1>1, HttpErrorsAssumption DEF Targets, TypeOK
  <1>4. /\ Raised = {t \in Targets : Decides(t)}
        /\ AllErrors = UNION {ErrorsOf(t) : t \in Raised}
    BY <1>3 DEF LoopRight, AllErrors
  <1>5. MapErrors = {errors[t] : t \in Raised}
    BY <1>1 DEF MapErrors
  <1> DEFINE D == Raised
  <1>6. IsLowest(total, Counted(AllErrors))
    <2>1. /\ D \subseteq Targets
          /\ \A t \in D : IsLowest(errors[t], Counted(ErrorsOf(t)))
          /\ IsLowest(total, Counted({errors[t] : t \in D}))
          /\ AllErrors = UNION {ErrorsOf(t) : t \in D}
      BY <1>4, <1>5 DEF Raised
    <2> HIDE DEF D
    <2>2. IsLowest(total, Counted(UNION {ErrorsOf(t) : t \in D}))
      BY <2>1, LowestOfLowest
    <2> QED
      BY <2>1, <2>2
  <1>7. 404 \notin Counted(AllErrors)
    BY DEF Counted, Simplify
  <1>8. RightFor(answer)'
    BY <1>1, <1>6, <1>7, SameErrors DEF RightFor, IsLowest
  <1>9. TypeOK'
    BY <1>1, <1>2, HttpErrorsAssumption DEF TypeOK, Status
  <1>10. Raised' = Raised /\ MapErrors' = MapErrors
    BY <1>1 DEF Raised, MapErrors
  <1>11. LoopRight'
    BY <1>1, <1>3, <1>10, SameErrors DEF LoopRight
  <1>12. \A u \in Raised' : IsLowest(errors[u], Counted(ErrorsOf(u)))'
    BY <1>1, <1>10, SameErrors
  <1> QED
    BY <1>1, <1>3, <1>8, <1>9, <1>10, <1>11, <1>12, SameErrors

(* The next request starts with the same errors.                           *)
LEMMA AskedAgain ==
  ASSUME Inv, Repeat
  PROVE  Inv'
  <1> USE DEF Inv
  <1>1. /\ UNCHANGED given /\ previous' = answer
        /\ turn' = 1 /\ left' = Backends /\ code' = 404
        /\ errors' = [t \in Targets |-> 0] /\ keys' = {}
        /\ total' = 404 /\ answer' = 0
    BY DEF Repeat
  <1>2. fails' = fails /\ invalid' = invalid /\ requireSuccessAll' = requireSuccessAll
    BY <1>1 DEF given
  <1>3. TypeOK'
    BY <1>1, <1>2, HttpErrorsAssumption DEF TypeOK, Status
  <1>4. Raised' = {} /\ MapErrors' = {} /\ Seen' = {} /\ Counted({}) = {}
    BY <1>1 DEF Raised, MapErrors, Seen, Counted
  <1>5. IsLowest(404, {})
    BY DEF IsLowest
  <1>6. Decides(turn)'
    BY <1>1 DEF Decides
  <1>7. LoopRight'
    <2>1. turn' \in Targets /\ 1..turn' - 1 = {}
      BY <1>1, HttpErrorsAssumption DEF Targets
    <2> QED
      BY <1>1, <1>4, <1>6, <2>1 DEF LoopRight
  <1>8. RightFor(answer)'
    BY <1>1 DEF RightFor
  <1> QED
    BY <1>1, <1>3, <1>4, <1>5, <1>7, <1>8, SameErrors

(* Every step keeps the invariant.                                         *)
LEMMA InvStep ==
  ASSUME Codes \subseteq Orderly, Inv, [Next]_vars
  PROVE  Inv'
  <1>1. CASE \E b \in Backends : MergeHttpErrors(b)
    BY <1>1, BackendMet
  <1>2. CASE EndTarget
    BY <1>2, TargetEnds
  <1>3. CASE \E t \in Targets : MergeHttpErrorMap(t)
    BY <1>3, TargetMet
  <1>4. CASE Respond
    BY <1>4, AnswerRight
  <1>5. CASE Repeat
    BY <1>5, AskedAgain
  <1>6. CASE UNCHANGED vars
    <2>1. /\ fails' = fails /\ invalid' = invalid
          /\ requireSuccessAll' = requireSuccessAll
          /\ turn' = turn /\ left' = left /\ code' = code /\ errors' = errors
          /\ keys' = keys /\ total' = total /\ answer' = answer /\ previous' = previous
      BY <1>6 DEF vars, given
    <2>2. TypeOK'
      BY <2>1 DEF Inv, TypeOK
    <2>3. \A t : ErrorsOf(t)' = ErrorsOf(t) /\ Decides(t)' = Decides(t)
      BY <2>1 DEF ErrorsOf, Decides
    <2>4. Raised' = Raised /\ MapErrors' = MapErrors /\ Seen' = Seen
      BY <2>1 DEF Raised, MapErrors, Seen
    <2>5. RightFor(answer)' /\ RightFor(previous)'
      BY <2>1, SameErrors DEF Inv, given
    <2>6. LoopRight'
      BY <2>1, <2>3, <2>4 DEF Inv, LoopRight
    <2>7. \A t \in Raised' : IsLowest(errors[t], Counted(ErrorsOf(t)))'
      BY <2>1, <2>3, <2>4 DEF Inv
    <2> QED
      BY <2>1, <2>2, <2>4, <2>5, <2>6, <2>7 DEF Inv
  <1> QED
    BY <1>1, <1>2, <1>3, <1>4, <1>5, <1>6 DEF Next

(* Whatever the targets, the backends and their errors are, the status is  *)
(* the lowest of all codes of the targets that decide: merging per group   *)
(* and then per target equals merging at once, in any order, and with      *)
(* requireSuccessAll only what follows the first failing target is unseen. *)
THEOREM LowestAnswered ==
  ASSUME Codes \subseteq Orderly
  PROVE  Spec => []AnswerIsLowest
  <1>1. Inv /\ [Next]_vars => Inv'
    BY InvStep
  <1>2. Inv => AnswerIsLowest
    BY DEF Inv, RightFor, AnswerIsLowest
  <1> QED
    BY <1>1, <1>2, InvInit, PTL DEF Spec

(* A request that fails the same way twice gets the same status.           *)
THEOREM CodeStable ==
  ASSUME Codes \subseteq Orderly
  PROVE  Spec => []StableCode
  <1>1. Inv /\ [Next]_vars => Inv'
    BY InvStep
  <1>2. ASSUME Inv PROVE StableCode
    <2> SUFFICES ASSUME answer # 0, previous # 0 PROVE answer = previous
      BY DEF StableCode
    <2>1. answer \in Int /\ previous \in Int
      BY <1>2 DEF Inv, TypeOK, Status
    <2>2. CASE Counted(AllErrors) = {}
      BY <1>2, <2>2 DEF Inv, RightFor
    <2>3. CASE Counted(AllErrors) # {}
      <3>1. IsLowest(answer, Counted(AllErrors)) /\ IsLowest(previous, Counted(AllErrors))
        BY <1>2, <2>3 DEF Inv, RightFor
      <3>2. answer <= previous /\ previous <= answer
        BY <2>3, <3>1 DEF IsLowest
      <3> QED
        BY <2>1, <3>2
    <2> QED
      BY <2>2, <2>3
  <1> QED
    BY <1>1, <1>2, InvInit, PTL DEF Spec
=============================================================================
