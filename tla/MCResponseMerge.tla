--------------------------- MODULE MCResponseMerge ---------------------------
(* ResponseMerge for TLC.                                                  *)
EXTENDS ResponseMerge
=============================================================================
