--------------------------- MODULE MCEvaluation ---------------------------
(* Evaluation for TLC: the first series has a point per second over the    *)
(* request; the second has the same grid, a longer step, a later start, a  *)
(* stop before its last point, no point, or a step beyond the request.     *)
EXTENDS Evaluation

As(start, step, n, stop, x, calls) ==
  [start |-> start, step |-> step, n |-> n, stop |-> stop, extrapolate |-> x, calls |-> calls]

AllIntervals == {-1, 0, 1, 2, 7}

AllScenarios ==
  {As(12, 1, 6, 18, FALSE, 2), As(12, 2, 3, 18, FALSE, 2)} \cup
  {As(12, 2, 3, 18, TRUE, 1), As(14, 1, 4, 18, TRUE, 1), As(14, 1, 4, 18, FALSE, 1),
   As(12, 1, 6, 17, FALSE, 1), As(12, 1, 0, 12, FALSE, 1),
   As(12, 4, 2, 20, FALSE, 1), As(12, 4, 2, 20, TRUE, 1)}
===========================================================================
