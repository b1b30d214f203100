------------------------- MODULE MCExtractionReview -------------------------
(* ExtractionReview for TLC: model values, symmetry and the readings.       *)
EXTENDS ExtractionReview, TLC

CONSTANTS billete, talon, s1, s2, x, y

Simetria == Permutations(Sesiones)

Lectura(n, valor, segura, fecha) ==
    [n |-> n, valor |-> valor, segura |-> segura, fecha |-> fecha]

LecturasMC == {Lectura(0, "vacio", FALSE, FALSE), Lectura(1, x, FALSE, TRUE)}
=============================================================================
