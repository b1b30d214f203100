---------------------------- MODULE MCAlertEngine ----------------------------
(***************************************************************************)
(* Small instances of AlertEngine for TLC.                                 *)
(***************************************************************************)
EXTENDS AlertEngine

CONSTANTS k1, c1, c2, p1
=============================================================================
