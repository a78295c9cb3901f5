--------------------------- MODULE MCSplitRequest ---------------------------
(* An instance of SplitRequest for TLC; the request is over when "done".   *)
EXTENDS SplitRequest

(* A finished split stays as it is.                                        *)
MCNext == Next \/ (pc = "done" /\ UNCHANGED vars)
MCSpec == Init /\ [][MCNext]_vars
=============================================================================
