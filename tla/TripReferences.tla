--------------------------- MODULE TripReferences ---------------------------
(***************************************************************************)
(* The reference of a trip: VJ-<year>-<number>, sequential per year.       *)
(*                                                                         *)
(* `generate_reference` takes the largest reference of the year AS TEXT    *)
(* and adds one; nothing is locked between that and the insertion, so two  *)
(* trips created at once compute the same number and the unique constraint *)
(* on `trips.referencia` refuses the second.  Nobody retries: the creation *)
(* fails.  The number is padded to four digits, so text order and numeric  *)
(* order part company at the first number that needs a fifth.              *)
(***************************************************************************)
EXTENDS Naturals, FiniteSets

CONSTANTS
    Creadores,      \* requests that create a trip
    Ejercicios,     \* calendar years
    Base            \* base in which the one padded digit of a number is written

ASSUME BaseAssumption == Base \in Nat /\ Base > 2
ASSUME EjerciciosAssumption == Ejercicios # {}

VARIABLES
    numeros,        \* numbers in use, by year (deleted trips keep theirs)
    creados,        \* trips ever created, by year
    creador         \* what each request is doing

varsReferencias == <<numeros, creados, creador>>

(* Bound: a second digit is enough to leave the padding behind.            *)
Posibles == 1..(Base * Base)

EstadosCreador ==
    [pc : {"libre", "calculada", "insertada", "rechazada"}, ej : Ejercicios,
     n : Posibles, vistos : SUBSET Posibles]

TipoReferencias ==
    /\ numeros \in [Ejercicios -> SUBSET Posibles]
    /\ creados \in [Ejercicios -> Nat]
    /\ creador \in [Creadores -> EstadosCreador]

InitReferencias ==
    /\ numeros = [e \in Ejercicios |-> {}]
    /\ creados = [e \in Ejercicios |-> 0]
    /\ creador = [c \in Creadores |->
          [pc |-> "libre", ej |-> CHOOSE e \in Ejercicios : TRUE, n |-> 1,
           vistos |-> {}]]

(***************************************************************************)
(* `func.max` compares the padded text: a two-digit number is larger than  *)
(* a one-digit one only when its first digit is.                           *)
(***************************************************************************)
EsMenorComoTexto(a, b) ==
    IF (a < Base) = (b < Base) THEN a < b
    ELSE IF a < Base THEN a <= b \div Base
    ELSE a \div Base < b

UltimaComoTexto(S) == CHOOSE n \in S : \A m \in S \ {n} : EsMenorComoTexto(m, n)

(* A plausible slip: counting the trips instead of reading the last one,   *)
(* one short because the new one is not there yet.                         *)
ContandoViajes(S) == Cardinality(S)

generate_reference(S) == IF S = {} THEN 1 ELSE UltimaComoTexto(S) + 1

LeerUltima(c, e) ==
    /\ creador[c].pc = "libre"
    /\ generate_reference(numeros[e]) <= Base * Base
    /\ creador' = [creador EXCEPT ![c] =
          [pc |-> "calculada", ej |-> e, n |-> generate_reference(numeros[e]),
           vistos |-> numeros[e]]]
    /\ UNCHANGED <<numeros, creados>>

(* The unique constraint: a committed row with the same reference refuses  *)
(* the insertion, an uncommitted one makes it wait.                        *)
Libre(c) ==
    /\ creador[c].n \notin numeros[creador[c].ej]
    /\ \A o \in Creadores \ {c} :
          ~(/\ creador[o].pc = "insertada"
            /\ creador[o].ej = creador[c].ej /\ creador[o].n = creador[c].n)

(* The database without the constraint.                                    *)
LibreSinRestriccion(c) == creador[c].n \in Posibles

ReferenciaLibre(c) == Libre(c)

InsertarViaje(c) ==
    /\ creador[c].pc = "calculada"
    /\ ReferenciaLibre(c)
    /\ creador' = [creador EXCEPT ![c].pc = "insertada"]
    /\ UNCHANGED <<numeros, creados>>

RechazarReferencia(c) ==
    /\ creador[c].pc = "calculada"
    /\ creador[c].n \in numeros[creador[c].ej]
    /\ ~ReferenciaLibre(c)
    /\ creador' = [creador EXCEPT ![c].pc = "rechazada"]
    /\ UNCHANGED <<numeros, creados>>

ConfirmarViaje(c) ==
    /\ creador[c].pc = "insertada"
    /\ numeros' = [numeros EXCEPT ![creador[c].ej] = @ \cup {creador[c].n}]
    /\ creados' = [creados EXCEPT ![creador[c].ej] = @ + 1]
    /\ creador' = [creador EXCEPT ![c].pc = "libre"]

(* The rest of the creation fails, or the process dies: the row is undone. *)
DeshacerViaje(c) ==
    /\ creador[c].pc = "insertada"
    /\ creador' = [creador EXCEPT ![c].pc = "libre"]
    /\ UNCHANGED <<numeros, creados>>

(* The error page; no caller tries again.                                  *)
ResponderError(c) ==
    /\ creador[c].pc = "rechazada"
    /\ creador' = [creador EXCEPT ![c].pc = "libre"]
    /\ UNCHANGED <<numeros, creados>>

NextReferencias ==
    \E c \in Creadores :
       \/ \E e \in Ejercicios : LeerUltima(c, e)
       \/ InsertarViaje(c)
       \/ RechazarReferencia(c)
       \/ ConfirmarViaje(c)
       \/ DeshacerViaje(c)
       \/ ResponderError(c)

SpecReferencias == InitReferencias /\ [][NextReferencias]_varsReferencias

(***************************************************************************)
(* Every trip ever created has a number of its own and the numbers of a    *)
(* year have no gap, whatever creations overlap, fail or are undone        *)
(* (generate_reference: "Sequential per calendar year").                   *)
(***************************************************************************)
NumeracionCorrida == \A e \in Ejercicios : numeros[e] = 1..creados[e]

(***************************************************************************)
(* A creation is refused for its reference only because another trip of    *)
(* the year was created since it read the last one, or because the year    *)
(* has used the first number that no longer fits the padding: from then on *)
(* the largest text never changes and every creation of the year fails.    *)
(***************************************************************************)
RechazoExplicado ==
    \A c \in Creadores :
       creador[c].pc = "rechazada" =>
          \/ numeros[creador[c].ej] # creador[c].vistos
          \/ Base \in numeros[creador[c].ej]
=============================================================================
