--------------------------- MODULE MCHttpErrors ---------------------------
(* HttpErrors for TLC.                                                     *)
EXTENDS HttpErrors

(* Codes of every class that recalcCode tells apart, without 401 and 402.  *)
MCCodes == {400, 403, 404, 422, 500, 502, 503}
=============================================================================
