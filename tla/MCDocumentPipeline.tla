------------------------- MODULE MCDocumentPipeline -------------------------
(***************************************************************************)
(* Small instances of DocumentPipeline for TLC.                            *)
(***************************************************************************)
EXTENDS DocumentPipeline, TLC

CONSTANTS o1, o2, p1

(* Workers are interchangeable; used only by runs without liveness.        *)
Simetria == Permutations({o1, o2})
=============================================================================
