---------------------------- MODULE MCAuditChain ----------------------------
(***************************************************************************)
(* Small instances of AuditChain for TLC.                                  *)
(***************************************************************************)
EXTENDS AuditChain, TLC

CONSTANTS w1, w2

(* Sessions are interchangeable.                                           *)
Simetria == Permutations({w1, w2})
=============================================================================
