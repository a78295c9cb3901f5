---------------------------- MODULE MCHttpQuery ----------------------------
(* HttpQuery for TLC.                                                      *)
EXTENDS HttpQuery

(* The limiter of the protocols v2 and v3 knows every server.              *)
MCServers == 0..(N - 1)
=============================================================================
