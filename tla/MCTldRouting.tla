---------------------------- MODULE MCTldRouting ----------------------------
(* TldRouting for TLC.                                                     *)
EXTENDS TldRouting

MCNames == Tlds \cup {Glob, SeriesByTag}
=============================================================================
