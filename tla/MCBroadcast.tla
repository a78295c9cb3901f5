---------------------------- MODULE MCBroadcast ----------------------------
(* Instances of Broadcast for TLC. *)
EXTENDS Broadcast, TLC

CONSTANTS c1, c2, b1, b2

OneCall == {c1}
TwoCalls == {c1, c2}
TwoBackends == {b1, b2}
OneBackend == {b1}
FetchOnly == {"fetch"}
DataOnly == {"data"}
DataOrError == {"data", "error"}
Symmetry == Permutations(Calls) \cup Permutations(Backends)
=============================================================================
