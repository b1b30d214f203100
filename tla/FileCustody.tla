----------------------------- MODULE FileCustody -----------------------------
(***************************************************************************)
(* What the pipeline promises about the bytes of an upload, with no row,   *)
(* no task and no broker in sight: they start in quarantine, reach the     *)
(* definitive bucket only after a clean verdict, and the quarantine copy   *)
(* goes away only when the definitive one is in place or the antivirus     *)
(* found the file infected.                                                *)
(***************************************************************************)
VARIABLES cuarentena, definitivo, limpio, infectado

custodia == <<cuarentena, definitivo, limpio, infectado>>

Init ==
    /\ cuarentena = TRUE
    /\ definitivo = FALSE
    /\ limpio = FALSE
    /\ infectado = FALSE

(* A verdict needs the bytes in quarantine to judge.                       *)
Dictaminar ==
    /\ cuarentena
    /\ \/ limpio' = TRUE /\ UNCHANGED infectado
       \/ infectado' = TRUE /\ UNCHANGED limpio
    /\ UNCHANGED <<cuarentena, definitivo>>

Promover ==
    /\ cuarentena /\ limpio
    /\ definitivo' = TRUE
    /\ UNCHANGED <<cuarentena, limpio, infectado>>

Retirar ==
    /\ definitivo \/ infectado
    /\ cuarentena' = FALSE
    /\ UNCHANGED <<definitivo, limpio, infectado>>

Next == Dictaminar \/ Promover \/ Retirar

Spec == Init /\ [][Next]_custodia
=============================================================================
