---------------------------- MODULE MCAdvisories ----------------------------
(***************************************************************************)
(* A small instance of Advisories on its own.                              *)
(***************************************************************************)
EXTENDS Advisories

(* One destination, and one page that names it, are enough.                *)
UnDestino == <<"d1">>

UnaPagina == [d1 |-> {1}]
=============================================================================
