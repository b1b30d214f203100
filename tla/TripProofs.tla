------------------------------ MODULE TripProofs ------------------------------
(***************************************************************************)
(* What is proved of one trip: its number, its life, who may see or plan   *)
(* it and what its itinerary says, for any requests, years, days, people   *)
(* and bookings.                                                           *)
(*                                                                         *)
(* The numbers in use are 1..k with k never above the base: up to it, the  *)
(* largest as text is the largest (LaUltimaEsLaMayor), and from it on the  *)
(* program keeps proposing the base, which is taken (ElTopeSeRepite).  So  *)
(* a request never holds a number above k + 1, and one that has passed the *)
(* unique constraint holds a number nobody uses: k + 1 itself.             *)
(*                                                                         *)
(* A request on the state of a trip works on what it loaded, and only the  *)
(* nightly task may have changed the row since: only its state, and never  *)
(* to cancelled (CargaFiel).  A planning request is grounded in the roster *)
(* and the row until somebody moves them, and then it is marked            *)
(* (PlanFundado).                                                          *)
(*                                                                         *)
(* What the rules find depends on the rows of a trip alone, so their       *)
(* properties follow from the rows having each its number and there being  *)
(* finitely many of them (InvReglas): two of them are always in order, and *)
(* one that has others after it has a next one (LaSiguiente).  What an     *)
(* approval derives is followed candidate by candidate (Derivado), and the *)
(* candidates are the same whatever their order (LosCandidatos).           *)
(***************************************************************************)
EXTENDS TripReferences, TripLifecycle, TripAccess, AlertRules, FiniteSetTheorems,
        NaturalsInduction, WellFoundedInduction, TLAPS

(* Below the base the text order is the order of the numbers.              *)
LEMMA LaUltimaEsLaMayor ==
    ASSUME NEW k \in Nat, k > 0, k < Base
    PROVE  UltimaComoTexto(1..k) = k
<1> USE BaseAssumption
<1>1. k \in 1..k
    OBVIOUS
<1>2. \A m \in (1..k) \ {k} : EsMenorComoTexto(m, k)
    BY DEF EsMenorComoTexto
<1>3. \A n \in 1..k : (\A m \in (1..k) \ {n} : EsMenorComoTexto(m, n)) => n = k
    <2> SUFFICES ASSUME NEW n \in 1..k, n # k,
                        \A m \in (1..k) \ {n} : EsMenorComoTexto(m, n)
                 PROVE  FALSE
        OBVIOUS
    <2>1. EsMenorComoTexto(k, n)
        BY <1>1
    <2> QED
        BY <2>1 DEF EsMenorComoTexto
<1> QED
    BY <1>1, <1>2, <1>3 DEF UltimaComoTexto

(* With the base in use, the largest text is still that of the number      *)
(* before it.                                                              *)
LEMMA ElTopeSeRepite ==
    UltimaComoTexto(1..Base) = Base - 1
<1> USE BaseAssumption
<1>0. Base \div Base = 1
    OBVIOUS
<1>1. Base - 1 \in 1..Base
    OBVIOUS
<1>2. \A m \in (1..Base) \ {Base - 1} : EsMenorComoTexto(m, Base - 1)
    BY <1>0 DEF EsMenorComoTexto
<1>3. \A n \in 1..Base :
         (\A m \in (1..Base) \ {n} : EsMenorComoTexto(m, n)) => n = Base - 1
    <2> SUFFICES ASSUME NEW n \in 1..Base, n # Base - 1,
                        \A m \in (1..Base) \ {n} : EsMenorComoTexto(m, n)
                 PROVE  FALSE
        OBVIOUS
    <2>1. EsMenorComoTexto(Base - 1, n)
        BY <1>1
    <2> QED
        BY <2>1, <1>0 DEF EsMenorComoTexto
<1> QED
    BY <1>1, <1>2, <1>3 DEF UltimaComoTexto

(* What a request proposes when the numbers in use are 1..k.               *)
LEMMA LoQuePropone ==
    ASSUME NEW k \in 0..Base
    PROVE  generate_reference(1..k) = IF k < Base THEN k + 1 ELSE Base
<1> USE BaseAssumption
<1>1. CASE k = 0
    <2>1. 1..k = {}
        BY <1>1
    <2> QED
        BY <2>1, <1>1 DEF generate_reference
<1>2. CASE k > 0
    <2>1. 1 \in 1..k
        BY <1>2
    <2>2. generate_reference(1..k) = UltimaComoTexto(1..k) + 1
        BY <2>1 DEF generate_reference
    <2>3. CASE k < Base
        BY <2>2, <2>3, <1>2, LaUltimaEsLaMayor
    <2>4. CASE k = Base
        BY <2>2, <2>4, ElTopeSeRepite
    <2> QED
        BY <2>3, <2>4
<1> QED
    BY <1>1, <1>2

(* Every number up to the base is one the bound of the model allows.       *)
LEMMA HastaLaBase == ASSUME NEW n \in 1..Base PROVE n \in Posibles
<1>1. Base <= Base * Base
    BY BaseAssumption
<1>2. Base * Base \in Nat
    BY BaseAssumption
<1> QED
    BY <1>1, <1>2, BaseAssumption DEF Posibles

-----------------------------------------------------------------------------
(* The numbers of each year are those of the trips created, never more     *)
(* than the base.                                                          *)
NumerosDelEjercicio ==
    \A e \in Ejercicios :
       creados[e] \in 0..Base /\ numeros[e] = 1..creados[e]

(* A request holds at most the number after the last one in use; once past *)
(* the constraint, a number nobody uses and nobody else has inserted.      *)
NumeroDe(c) ==
    /\ creador[c].pc # "libre" =>
          /\ creador[c].n \in 1..Base
          /\ creador[c].n <= creados[creador[c].ej] + 1
    /\ creador[c].pc = "insertada" =>
          /\ creador[c].n \notin numeros[creador[c].ej]
          /\ \A o \in Creadores \ {c} :
                creador[o].pc = "insertada" /\ creador[o].ej = creador[c].ej
                   => creador[o].n # creador[c].n

InvReferencias ==
    /\ TipoReferencias
    /\ NumerosDelEjercicio
    /\ \A c \in Creadores : NumeroDe(c)

(* No year has a trip yet.                                                 *)
LEMMA AlPrincipio == InitReferencias => InvReferencias
<1> SUFFICES ASSUME InitReferencias PROVE InvReferencias
    OBVIOUS
<1> USE BaseAssumption DEF InitReferencias
<1>1. (CHOOSE e \in Ejercicios : TRUE) \in Ejercicios
    BY EjerciciosAssumption
<1>2. 1 \in Posibles
    BY HastaLaBase
<1>3. TipoReferencias
    BY <1>1, <1>2 DEF TipoReferencias, EstadosCreador
<1>4. NumerosDelEjercicio
    BY DEF NumerosDelEjercicio
<1>5. \A c \in Creadores : NumeroDe(c)
    BY DEF NumeroDe
<1> QED
    BY <1>3, <1>4, <1>5 DEF InvReferencias

(* A request reads the last reference: it holds the number after it, or    *)
(* the base once that is in use.                                           *)
LEMMA AlLeer ==
    ASSUME InvReferencias, NEW c \in Creadores, NEW e \in Ejercicios,
           LeerUltima(c, e)
    PROVE  InvReferencias'
<1> USE BaseAssumption DEF LeerUltima, InvReferencias
<1> DEFINE g == generate_reference(numeros[e])
<1>1. numeros[e] = 1..creados[e] /\ creados[e] \in 0..Base
    BY DEF NumerosDelEjercicio
<1>2. g \in 1..Base /\ g <= creados[e] + 1
    BY <1>1, LoQuePropone
<1> HIDE DEF g
<1>3. creador' = [creador EXCEPT ![c] =
                    [pc |-> "calculada", ej |-> e, n |-> g, vistos |-> numeros[e]]]
    BY DEF g
<1>4. TipoReferencias'
    <2>1. g \in Posibles
        BY <1>2, HastaLaBase
    <2> QED
        BY <1>3, <2>1 DEF TipoReferencias, EstadosCreador
<1>5. NumerosDelEjercicio'
    BY DEF NumerosDelEjercicio
<1>6. \A d \in Creadores : NumeroDe(d)'
    <2> SUFFICES ASSUME NEW d \in Creadores PROVE NumeroDe(d)'
        OBVIOUS
    <2>1. creador'[c].pc = "calculada" /\ creador'[c].ej = e /\ creador'[c].n = g
        BY <1>3 DEF TipoReferencias
    <2>2. \A o \in Creadores \ {c} : creador'[o] = creador[o]
        BY <1>3 DEF TipoReferencias
    <2>3. CASE d = c
        BY <2>1, <2>3, <1>2 DEF NumeroDe
    <2>4. CASE d # c
        BY <2>1, <2>2, <2>4 DEF NumeroDe
    <2> QED
        BY <2>3, <2>4
<1> QED
    BY <1>4, <1>5, <1>6

(* A request inserts its row: the constraint lets it only if nobody has    *)
(* its number.                                                             *)
LEMMA AlInsertar ==
    ASSUME InvReferencias, NEW c \in Creadores, InsertarViaje(c)
    PROVE  InvReferencias'
<1> USE DEF InsertarViaje, InvReferencias
<1>1. creador'[c] = [creador[c] EXCEPT !.pc = "insertada"]
    BY DEF TipoReferencias
<1>2. \A o \in Creadores \ {c} : creador'[o] = creador[o]
    BY DEF TipoReferencias
<1>3. TipoReferencias'
    BY DEF TipoReferencias, EstadosCreador
<1>4. NumerosDelEjercicio'
    BY DEF NumerosDelEjercicio
<1>5. \A d \in Creadores : NumeroDe(d)'
    <2> SUFFICES ASSUME NEW d \in Creadores PROVE NumeroDe(d)'
        OBVIOUS
    <2>1. creador[c] \in EstadosCreador
        BY DEF TipoReferencias
    <2>2. creador'[c].pc = "insertada" /\ creador'[c].ej = creador[c].ej
          /\ creador'[c].n = creador[c].n
        BY <1>1, <2>1 DEF EstadosCreador
    <2>3. CASE d = c
        BY <2>2, <2>3, <1>2 DEF NumeroDe, ReferenciaLibre, Libre
    <2>4. CASE d # c
        BY <2>2, <2>4, <1>2 DEF NumeroDe, ReferenciaLibre, Libre
    <2> QED
        BY <2>3, <2>4
<1> QED
    BY <1>3, <1>4, <1>5

(* A commit takes the number after the last: the one inserted and not in   *)
(* use can be no other.                                                    *)
LEMMA AlConfirmarViaje ==
    ASSUME InvReferencias, NEW c \in Creadores, ConfirmarViaje(c)
    PROVE  InvReferencias'
<1> USE BaseAssumption DEF ConfirmarViaje, InvReferencias
<1> DEFINE e == creador[c].ej
           k == creados[e]
<1>1. creador[c] \in EstadosCreador /\ e \in Ejercicios
    BY DEF TipoReferencias, EstadosCreador
<1>2. k \in 0..Base /\ numeros[e] = 1..k
    BY <1>1 DEF NumerosDelEjercicio
<1>3. creador[c].n = k + 1 /\ k + 1 \in 0..Base
    <2>1. creador[c].n \in 1..Base /\ creador[c].n <= k + 1
          /\ creador[c].n \notin 1..k
        BY <1>2 DEF NumeroDe
    <2> QED
        BY <2>1, <1>2
<1>4. /\ creados' = [creados EXCEPT ![e] = k + 1]
      /\ numeros' = [numeros EXCEPT ![e] = 1..(k + 1)]
    <2>1. 1..(k + 1) = (1..k) \cup {k + 1}
        BY <1>2
    <2> QED
        BY <2>1, <1>1, <1>2, <1>3 DEF TipoReferencias
<1>5. creador' = [creador EXCEPT ![c].pc = "libre"]
    OBVIOUS
<1> HIDE DEF ConfirmarViaje
<1>6. TipoReferencias'
    <2>1. 1..(k + 1) \in SUBSET Posibles
        BY <1>3, HastaLaBase
    <2>2. numeros' \in [Ejercicios -> SUBSET Posibles]
        BY <1>4, <2>1 DEF TipoReferencias
    <2>3. creados' \in [Ejercicios -> Nat]
        <3>1. k + 1 \in Nat
            BY <1>3
        <3> HIDE DEF k
        <3> QED
            BY <3>1, <1>4 DEF TipoReferencias
    <2>4. creador' \in [Creadores -> EstadosCreador]
        BY <1>5 DEF TipoReferencias, EstadosCreador
    <2> QED
        BY <2>2, <2>3, <2>4 DEF TipoReferencias
<1>7. NumerosDelEjercicio'
    <2> SUFFICES ASSUME NEW f \in Ejercicios
                 PROVE  creados'[f] \in 0..Base /\ numeros'[f] = 1..creados'[f]
        BY DEF NumerosDelEjercicio
    <2> QED
        BY <1>3, <1>4 DEF NumerosDelEjercicio, TipoReferencias
<1>8. \A d \in Creadores : NumeroDe(d)'
    <2> SUFFICES ASSUME NEW d \in Creadores PROVE NumeroDe(d)'
        OBVIOUS
    <2>1. creador'[c].pc = "libre"
        BY <1>5, <1>1 DEF TipoReferencias, EstadosCreador
    <2>2. \A o \in Creadores \ {c} : creador'[o] = creador[o]
        BY <1>5 DEF TipoReferencias
    <2>3. CASE d = c
        BY <2>1, <2>3 DEF NumeroDe
    <2>4. CASE d # c
        <3>1. creador'[d] = creador[d] /\ creador[d] \in EstadosCreador
            BY <2>2, <2>4 DEF TipoReferencias
        <3>2. creador[d].ej \in Ejercicios /\ creador[d].n \in Nat
            BY <3>1 DEF EstadosCreador, Posibles
        <3>3. creados'[creador[d].ej] >= creados[creador[d].ej]
            BY <1>2, <1>4, <3>2 DEF TipoReferencias
        <3>4. creador[d].pc = "insertada" =>
                 creador[d].n \notin numeros'[creador[d].ej]
            <4> SUFFICES ASSUME creador[d].pc = "insertada"
                         PROVE  creador[d].n \notin numeros'[creador[d].ej]
                OBVIOUS
            <4>1. creador[d].n \notin numeros[creador[d].ej]
                BY DEF NumeroDe
            <4>2. CASE creador[d].ej = e
                <5>1. creador[c].pc = "insertada"
                    BY DEF ConfirmarViaje
                <5>2. creador[d].n # k + 1
                    BY <5>1, <4>2, <2>4, <1>3 DEF NumeroDe
                <5>3. creador[d].n \notin 1..k
                    BY <4>1, <4>2, <1>2
                <5> QED
                    BY <5>2, <5>3, <4>2, <1>2, <1>4, <3>2 DEF TipoReferencias
            <4>3. CASE creador[d].ej # e
                BY <4>1, <4>3, <1>4 DEF TipoReferencias
            <4> QED
                BY <4>2, <4>3
        <3>5. creador[d].pc # "libre" =>
                 /\ creador[d].n \in 1..Base
                 /\ creador[d].n <= creados'[creador[d].ej] + 1
            <4>1. creador[d].pc # "libre" =>
                     /\ creador[d].n \in 1..Base
                     /\ creador[d].n <= creados[creador[d].ej] + 1
                BY DEF NumeroDe
            <4>2. creados[creador[d].ej] \in Nat /\ creados'[creador[d].ej] \in Nat
                BY <3>2, <1>4, <1>2 DEF TipoReferencias
            <4> QED
                BY <4>1, <4>2, <3>2, <3>3
        <3>6. creador[d].pc = "insertada" =>
                 \A o \in Creadores \ {d} :
                    creador'[o].pc = "insertada" /\ creador'[o].ej = creador[d].ej
                       => creador'[o].n # creador[d].n
            BY <2>1, <2>2 DEF NumeroDe
        <3> QED
            BY <3>1, <3>4, <3>5, <3>6 DEF NumeroDe
    <2> QED
        BY <2>3, <2>4
<1> QED
    BY <1>6, <1>7, <1>8

(* A request that is refused or undone leaves the numbers alone.           *)
LEMMA AlSoltar ==
    ASSUME InvReferencias, NEW c \in Creadores,
           NEW p \in {"libre", "rechazada"},
           creador[c].pc # "libre",
           creador' = [creador EXCEPT ![c].pc = p],
           UNCHANGED <<numeros, creados>>
    PROVE  InvReferencias'
<1> USE DEF InvReferencias
<1>1. creador[c] \in EstadosCreador
    BY DEF TipoReferencias
<1>2. creador'[c].pc = p /\ creador'[c].ej = creador[c].ej
      /\ creador'[c].n = creador[c].n
    BY <1>1 DEF TipoReferencias, EstadosCreador
<1>3. \A o \in Creadores \ {c} : creador'[o] = creador[o]
    BY DEF TipoReferencias
<1>4. TipoReferencias'
    BY DEF TipoReferencias, EstadosCreador
<1>5. NumerosDelEjercicio'
    BY DEF NumerosDelEjercicio
<1>6. \A d \in Creadores : NumeroDe(d)'
    <2> SUFFICES ASSUME NEW d \in Creadores PROVE NumeroDe(d)'
        OBVIOUS
    <2>1. CASE d = c
        BY <1>2, <2>1 DEF NumeroDe
    <2>2. CASE d # c
        BY <1>2, <1>3, <2>2 DEF NumeroDe
    <2> QED
        BY <2>1, <2>2
<1> QED
    BY <1>4, <1>5, <1>6

(* Every step keeps the invariant.                                         *)
LEMMA CadaPaso ==
    InvReferencias /\ [NextReferencias]_varsReferencias => InvReferencias'
<1> SUFFICES ASSUME InvReferencias, [NextReferencias]_varsReferencias
             PROVE  InvReferencias'
    OBVIOUS
<1>1. CASE UNCHANGED varsReferencias
    BY <1>1 DEF varsReferencias, InvReferencias, TipoReferencias,
                NumerosDelEjercicio, NumeroDe
<1>2. CASE NextReferencias
    <2> SUFFICES ASSUME NEW c \in Creadores,
                        \/ \E e \in Ejercicios : LeerUltima(c, e)
                        \/ InsertarViaje(c)
                        \/ RechazarReferencia(c)
                        \/ ConfirmarViaje(c)
                        \/ DeshacerViaje(c)
                        \/ ResponderError(c)
                 PROVE  InvReferencias'
        BY <1>2 DEF NextReferencias
    <2>1. ASSUME NEW e \in Ejercicios, LeerUltima(c, e) PROVE InvReferencias'
        BY <2>1, AlLeer
    <2>2. CASE InsertarViaje(c)
        BY <2>2, AlInsertar
    <2>3. CASE RechazarReferencia(c)
        BY <2>3, AlSoltar DEF RechazarReferencia
    <2>4. CASE ConfirmarViaje(c)
        BY <2>4, AlConfirmarViaje
    <2>5. CASE DeshacerViaje(c)
        BY <2>5, AlSoltar DEF DeshacerViaje
    <2>6. CASE ResponderError(c)
        BY <2>6, AlSoltar DEF ResponderError
    <2> QED
        BY <2>1, <2>2, <2>3, <2>4, <2>5, <2>6
<1> QED
    BY <1>1, <1>2

(* The invariant holds of every behaviour of the numbering.                *)
LEMMA SiempreInvReferencias == SpecReferencias => []InvReferencias
<1> QED
    BY AlPrincipio, CadaPaso, PTL DEF SpecReferencias

(* The numbering never leaves its types, for any requests and years.       *)
THEOREM TiposDeReferencias == SpecReferencias => []TipoReferencias
<1>1. InvReferencias => TipoReferencias
    BY DEF InvReferencias
<1> QED
    BY <1>1, SiempreInvReferencias, PTL

(* However many requests create trips at once, fail or are undone, the     *)
(* trips of a year are numbered 1, 2, 3... with no number skipped and none *)
(* given twice.                                                            *)
THEOREM SinHuecosNiRepetidos == SpecReferencias => []NumeracionCorrida
<1>1. InvReferencias => NumeracionCorrida
    BY DEF InvReferencias, NumerosDelEjercicio, NumeracionCorrida
<1> QED
    BY <1>1, SiempreInvReferencias, PTL

-----------------------------------------------------------------------------
(***************************************************************************)
(* The life of a trip.                                                     *)
(***************************************************************************)

(* What a request q knows of the trip v.  Nobody having written it since   *)
(* it was loaded, the edit form has its dates, it is cancelled only if the *)
(* form saw it so, and what the requisites looked at is still there.       *)
CargaFiel(q, v) ==
    /\ q.pc # "libre" => v.estado # "nada"
    /\ q.pc = "cargada" /\ q.op = "editar" => q.t.estado \in TripStatus
    /\ q.pc \in {"releer", "estado"} => q.op = "editar"
    /\ q.pc = "estado" =>
          q.t.estado \in TripStatus /\ q.destino \in TRANSICIONES[q.t.estado]
    /\ q.op = "editar" /\ ~q.tocado =>
          /\ q.pc = "cargada" =>
                /\ q.t.inicio = v.inicio /\ q.t.fin = v.fin
                /\ v.estado = "CANCELADO" => q.t.estado = "CANCELADO"
          /\ q.pc = "releer" => v.estado # "CANCELADO"
          /\ q.pc = "estado" =>
                /\ q.t.estado # "CANCELADO"
                /\ requisitos_pendientes(v, q.destino)

InvCiclo ==
    /\ TipoCiclo
    /\ \A p \in Formularios : CargaFiel(peticion[p], trip)
    /\ noche.pc = "escribir" => noche.estado # "nada" /\ trip.estado # "nada"

TiposPeticion ==
    [pc : {"libre", "cargada", "releer", "estado"}, op : OperacionesDeViaje, t : Trips,
     destino : TripStatus, tocado : BOOLEAN]

TiposNoche == [pc : {"libre", "escribir"}, estado : TripStatus \cup {"nada"},
               mira : {"fin", "inicio"}]

(* The rules of the states that the proofs need.                           *)
LEMMA Transiciones ==
    /\ \A e \in TripStatus : TRANSICIONES[e] \subseteq TripStatus
    /\ TRANSICIONES["FINALIZADO"] = {}
    /\ TRANSICIONES["CANCELADO"] = {"EN_PREPARACION"}
BY DEF TRANSICIONES, TripStatus

(* The types of the invariant, by name.                                    *)
LEMMA TiposDeCiclo ==
    TipoCiclo <=> /\ trip \in Trips /\ hoy \in 1..MaxDia + 1 /\ noche \in TiposNoche
                  /\ peticion \in [Formularios -> TiposPeticion]
BY DEF TipoCiclo, TiposPeticion, TiposNoche

(* The records a request starts from.                                      *)
LEMMA RegistrosDelCiclo ==
    /\ SinViaje \in Trips /\ SinPeticion \in TiposPeticion
    /\ SinNoche \in TiposNoche /\ SinPeticion.pc = "libre" /\ SinNoche.pc = "libre"
    /\ \A v : CargaFiel(SinPeticion, v)
BY MaxDiaAssumption
   DEF SinViaje, Trips, SinPeticion, TiposPeticion, SinNoche, TiposNoche, Fechas,
       TripStatus, OperacionesDeViaje, CargaFiel

(* Nothing has happened to the trip.                                       *)
LEMMA CicloAlPrincipio == InitCiclo => InvCiclo
<1> SUFFICES ASSUME InitCiclo PROVE InvCiclo
    OBVIOUS
<1>1. TipoCiclo
    BY RegistrosDelCiclo, MaxDiaAssumption, TiposDeCiclo DEF InitCiclo
<1> QED
    BY <1>1, RegistrosDelCiclo DEF InitCiclo, InvCiclo

(* Request p goes on as q and the trip becomes whatever it does: the other *)
(* requests have been overtaken, or nothing was committed.                 *)
LEMMA AlSeguir ==
    ASSUME InvCiclo, NEW p \in Formularios, NEW q \in TiposPeticion,
           NEW c \in BOOLEAN, Sigue(p, q, c), trip' \in Trips,
           trip.estado # "nada", trip'.estado # "nada", c \/ trip' = trip,
           CargaFiel(q, trip'), UNCHANGED <<hoy, noche>>
    PROVE  InvCiclo'
<1>1. /\ trip \in Trips /\ hoy \in 1..MaxDia + 1 /\ noche \in TiposNoche
      /\ peticion \in [Formularios -> TiposPeticion]
      /\ \A r \in Formularios : CargaFiel(peticion[r], trip)
    BY TiposDeCiclo DEF InvCiclo
<1>2. ASSUME NEW r \in Formularios
      PROVE  peticion'[r] \in TiposPeticion /\ CargaFiel(peticion'[r], trip')
    <2>1. CASE r = p
        BY <2>1 DEF Sigue
    <2>2. CASE r # p
        <3> DEFINE b == peticion[r].tocado \/ (c /\ PuedeMover(peticion[r]))
        <3>1. peticion'[r] = [peticion[r] EXCEPT !.tocado = b]
            BY <2>2 DEF Sigue
        <3>2. b \in BOOLEAN /\ (b <=> peticion[r].tocado \/ (c /\ PuedeMover(peticion[r])))
            BY <1>1 DEF TiposPeticion
        <3> HIDE DEF b
        <3>3. peticion[r] \in TiposPeticion /\ CargaFiel(peticion[r], trip)
            BY <1>1
        <3>4. /\ peticion'[r] \in TiposPeticion /\ peticion'[r].tocado = b
              /\ peticion'[r].pc = peticion[r].pc /\ peticion'[r].op = peticion[r].op
              /\ peticion'[r].t = peticion[r].t
              /\ peticion'[r].destino = peticion[r].destino
            BY <3>1, <3>2, <3>3 DEF TiposPeticion
        <3>5. CASE trip' = trip
            BY <3>2, <3>3, <3>4, <3>5 DEF CargaFiel
        <3>6. CASE c
            BY <3>2, <3>3, <3>4, <3>6 DEF CargaFiel, PuedeMover
        <3> QED
            BY <3>5, <3>6
    <2> QED
        BY <2>1, <2>2
<1>3. peticion' \in [Formularios -> TiposPeticion]
    <2>1. peticion' = [r \in Formularios |-> peticion'[r]]
        BY DEF Sigue
    <2> QED
        BY <1>2, <2>1
<1>4. TipoCiclo'
    BY <1>1, <1>3 DEF TipoCiclo, TiposPeticion, TiposNoche
<1> QED
    BY <1>1, <1>2, <1>4 DEF InvCiclo

(* A manager or a traveller opens the trip.                                *)
LEMMA AlCrearViaje ==
    ASSUME InvCiclo, CrearViaje
    PROVE  InvCiclo'
<1>1. trip' \in Trips
    <2>1. PICK i, f \in Fechas :
             \/ \E e \in TripStatus :
                   trip' = [SinViaje EXCEPT !.estado = e, !.inicio = i, !.fin = f]
             \/ trip' = [SinViaje EXCEPT !.estado = "EN_PREPARACION",
                            !.inicio = i, !.fin = f, !.viajero = "activo"]
        BY DEF CrearViaje
    <2> QED
        BY <2>1 DEF SinViaje, Trips, TripStatus
<1>2. /\ UNCHANGED <<hoy, peticion, noche>> /\ noche.pc # "escribir"
      /\ \A p \in Formularios : peticion[p].pc = "libre"
    BY DEF InvCiclo, CargaFiel, CrearViaje
<1>3. \A p \in Formularios : CargaFiel(peticion'[p], trip')
    BY <1>2 DEF CargaFiel
<1> QED
    BY <1>1, <1>2, <1>3 DEF InvCiclo, TipoCiclo

(* A request loads the trip.                                               *)
LEMMA AlCargarViaje ==
    ASSUME InvCiclo, NEW p \in Formularios, NEW op \in OperacionesDeViaje,
           NEW a \in BOOLEAN, CargarViaje(p, op, a)
    PROVE  InvCiclo'
<1> DEFINE m == Mirado(op, trip)
           q == [SinPeticion EXCEPT !.pc = "cargada", !.op = op, !.t = m]
<1>1. /\ trip \in Trips /\ hoy \in 1..MaxDia + 1 /\ noche \in TiposNoche
      /\ peticion \in [Formularios -> TiposPeticion]
    BY TiposDeCiclo DEF InvCiclo
<1>2. /\ m \in Trips
      /\ op = "editar" => m.estado = trip.estado /\ m.inicio = trip.inicio /\ m.fin = trip.fin
    BY <1>1, RegistrosDelCiclo DEF Mirado, Trips
<1> HIDE DEF m
<1>3. /\ q \in TiposPeticion /\ q.pc = "cargada" /\ q.op = op /\ q.t = m
    BY <1>2, RegistrosDelCiclo DEF TiposPeticion
<1>4. /\ peticion' = [peticion EXCEPT ![p] = q] /\ UNCHANGED <<trip, hoy, noche>>
      /\ trip.estado # "nada"
    BY DEF CargarViaje, m
<1> HIDE DEF q
<1>5. CargaFiel(q, trip)
    BY <1>1, <1>2, <1>3, <1>4 DEF CargaFiel, Trips
<1>6. peticion' \in [Formularios -> TiposPeticion]
    BY <1>1, <1>3, <1>4
<1>7. TipoCiclo'
    BY <1>1, <1>4, <1>6 DEF TipoCiclo, TiposPeticion, TiposNoche
<1>8. ASSUME NEW r \in Formularios PROVE CargaFiel(peticion'[r], trip')
    BY <1>1, <1>4, <1>5 DEF InvCiclo
<1> QED
    BY <1>4, <1>7, <1>8 DEF InvCiclo

(* What is left of a request once the state it chose has been checked on   *)
(* the trip as it was read.                                                *)
LEMMA LoComprobado ==
    ASSUME NEW q \in TiposPeticion, q.op = "editar", NEW leida \in Trips,
           leida.estado \in TripStatus, NEW x \in TrasComprobar(q, leida)
    PROVE  /\ x \in TiposPeticion
           /\ \/ x.pc = "libre" /\ x = SinPeticion
              \/ /\ x.pc = "estado" /\ x.op = "editar" /\ x.destino = q.destino
                 /\ x.tocado = q.tocado /\ x.t.estado = leida.estado
                 /\ q.destino \in TRANSICIONES[leida.estado]
                 /\ requisitos_pendientes(leida, q.destino)
<1>1. CASE x = SinPeticion
    BY <1>1, RegistrosDelCiclo
<1>2. CASE x # SinPeticion
    <2> DEFINE m == Mirado("anotar", leida)
    <2>1. /\ x = [q EXCEPT !.pc = "estado", !.t = m]
          /\ \E motivo \in BOOLEAN : change_status(leida, q.destino, motivo, FALSE)
        BY <1>2 DEF TrasComprobar, Comprobada
    <2>2. m \in Trips /\ m.estado = leida.estado
        BY RegistrosDelCiclo DEF Mirado, Trips
    <2> HIDE DEF m
    <2>3. /\ x \in TiposPeticion /\ x.pc = "estado" /\ x.op = "editar"
          /\ x.destino = q.destino /\ x.tocado = q.tocado /\ x.t = m
        BY <2>1, <2>2 DEF TiposPeticion
    <2>4. q.destino \in TRANSICIONES[leida.estado] /\ requisitos_pendientes(leida, q.destino)
        BY <2>1 DEF change_status
    <2> QED
        BY <2>2, <2>3, <2>4
<1> QED
    BY <1>1, <1>2

(* The edit form: refused, committed, or with nothing to commit.           *)
LEMMA AlActualizarViaje ==
    ASSUME InvCiclo, NEW p \in Formularios, ActualizarViaje(p)
    PROVE  InvCiclo'
<1> DEFINE t == peticion[p].t
<1>1. /\ trip \in Trips /\ peticion[p] \in TiposPeticion /\ CargaFiel(peticion[p], trip)
      /\ peticion[p].pc = "cargada" /\ peticion[p].op = "editar"
      /\ UNCHANGED <<hoy, noche>>
    BY TiposDeCiclo DEF InvCiclo, ActualizarViaje
<1>2. /\ trip.estado \in TripStatus /\ trip.estado # "nada" /\ t.estado \in TripStatus
      /\ t \in Trips
    BY <1>1 DEF CargaFiel, Trips, TripStatus, TiposPeticion
<1>3. PICK i \in Fechas, f \in Fechas :
         \E e \in estados_posibles(t) \cup {t.estado}, otros \in BOOLEAN :
          LET cambios == otros \/ i # t.inicio \/ f # t.fin
              q == [peticion[p] EXCEPT !.destino = e] IN
          IF ~(EditableParaActualizar(t) /\ _validate_dates(i, f))
          THEN Sigue(p, SinPeticion, FALSE) /\ UNCHANGED trip
          ELSE IF cambios
          THEN /\ trip' = [trip EXCEPT !.inicio = IF i # t.inicio THEN i ELSE @,
                                       !.fin = IF f # t.fin THEN f ELSE @]
               /\ Sigue(p, [q EXCEPT !.pc = "releer", !.t = SinViaje], TRUE)
          ELSE /\ \E x \in TrasComprobar(q, [t EXCEPT !.viajero = trip.viajero,
                                                      !.itinerario = trip.itinerario]) :
                     Sigue(p, x, FALSE)
               /\ UNCHANGED trip
    BY DEF ActualizarViaje
<1>4. PICK e \in estados_posibles(t) \cup {t.estado}, otros \in BOOLEAN :
          LET cambios == otros \/ i # t.inicio \/ f # t.fin
              q == [peticion[p] EXCEPT !.destino = e] IN
          IF ~(EditableParaActualizar(t) /\ _validate_dates(i, f))
          THEN Sigue(p, SinPeticion, FALSE) /\ UNCHANGED trip
          ELSE IF cambios
          THEN /\ trip' = [trip EXCEPT !.inicio = IF i # t.inicio THEN i ELSE @,
                                       !.fin = IF f # t.fin THEN f ELSE @]
               /\ Sigue(p, [q EXCEPT !.pc = "releer", !.t = SinViaje], TRUE)
          ELSE /\ \E x \in TrasComprobar(q, [t EXCEPT !.viajero = trip.viajero,
                                                      !.itinerario = trip.itinerario]) :
                     Sigue(p, x, FALSE)
               /\ UNCHANGED trip
    BY <1>3
<1> DEFINE cambios == otros \/ i # t.inicio \/ f # t.fin
           q == [peticion[p] EXCEPT !.destino = e]
<1>5. e \in TripStatus
    BY <1>2, Transiciones DEF estados_posibles
<1>6. /\ q \in TiposPeticion /\ q.op = "editar" /\ q.destino = e
      /\ q.tocado = peticion[p].tocado
    BY <1>1, <1>5 DEF TiposPeticion
<1>7. CASE ~(EditableParaActualizar(t) /\ _validate_dates(i, f))
    <2>1. Sigue(p, SinPeticion, FALSE) /\ trip' = trip
        BY <1>4, <1>7
    <2> QED
        BY <1>1, <1>2, <2>1, RegistrosDelCiclo, AlSeguir
<1>8. CASE EditableParaActualizar(t) /\ _validate_dates(i, f) /\ cambios
    <2> DEFINE x == [q EXCEPT !.pc = "releer", !.t = SinViaje]
    <2>1. /\ trip' = [trip EXCEPT !.inicio = IF i # t.inicio THEN i ELSE @,
                                  !.fin = IF f # t.fin THEN f ELSE @]
          /\ Sigue(p, x, TRUE)
        BY <1>4, <1>8
    <2>2. trip' \in Trips /\ trip'.estado = trip.estado
        BY <1>1, <2>1 DEF Trips
    <2>3. /\ x \in TiposPeticion /\ x.pc = "releer" /\ x.op = "editar"
          /\ x.tocado = peticion[p].tocado
        BY <1>6, RegistrosDelCiclo DEF TiposPeticion
    <2> HIDE DEF x
    <2>4. CargaFiel(x, trip')
        BY <1>1, <1>2, <1>8, <2>2, <2>3
           DEF CargaFiel, EditableParaActualizar, is_editable
    <2> QED
        BY <1>1, <1>2, <2>1, <2>2, <2>3, <2>4, AlSeguir
<1>9. CASE EditableParaActualizar(t) /\ _validate_dates(i, f) /\ ~cambios
    <2> DEFINE leida == [t EXCEPT !.viajero = trip.viajero,
                                  !.itinerario = trip.itinerario]
    <2>1. trip' = trip /\ \E x \in TrasComprobar(q, leida) : Sigue(p, x, FALSE)
        BY <1>4, <1>9
    <2>2. PICK x \in TrasComprobar(q, leida) : Sigue(p, x, FALSE)
        BY <2>1
    <2>3. /\ leida \in Trips /\ leida.estado = t.estado
          /\ leida.inicio = t.inicio /\ leida.fin = t.fin
          /\ leida.viajero = trip.viajero /\ leida.itinerario = trip.itinerario
        BY <1>1, <1>2 DEF Trips
    <2> HIDE DEF leida, q
    <2>4. /\ x \in TiposPeticion
          /\ \/ x.pc = "libre" /\ x = SinPeticion
             \/ /\ x.pc = "estado" /\ x.op = "editar" /\ x.destino = q.destino
                /\ x.tocado = q.tocado /\ x.t.estado = leida.estado
                /\ q.destino \in TRANSICIONES[leida.estado]
                /\ requisitos_pendientes(leida, q.destino)
        BY <1>2, <1>6, <2>2, <2>3, LoComprobado
    <2>5. CargaFiel(x, trip')
        <3>1. CASE x = SinPeticion
            BY <3>1, RegistrosDelCiclo
        <3>2. CASE x.pc = "estado"
            BY <1>1, <1>2, <1>6, <1>9, <2>1, <2>3, <2>4, <3>2
               DEF CargaFiel, EditableParaActualizar, is_editable, requisitos_pendientes
        <3> QED
            BY <2>4, <3>1, <3>2
    <2> QED
        BY <1>1, <1>2, <2>1, <2>2, <2>4, <2>5, AlSeguir
<1> QED
    BY <1>7, <1>8, <1>9

(* The state is checked on the trip as it is read again.                   *)
LEMMA AlReleer ==
    ASSUME InvCiclo, NEW p \in Formularios, Releer(p)
    PROVE  InvCiclo'
<1>1. /\ trip \in Trips /\ peticion[p] \in TiposPeticion /\ CargaFiel(peticion[p], trip)
      /\ peticion[p].pc = "releer" /\ UNCHANGED <<trip, hoy, noche>>
    BY TiposDeCiclo DEF InvCiclo, Releer
<1>2. trip.estado \in TripStatus /\ trip.estado # "nada" /\ peticion[p].op = "editar"
    BY <1>1 DEF CargaFiel, Trips, TripStatus
<1>3. PICK x \in TrasComprobar(peticion[p], trip) : Sigue(p, x, FALSE)
    BY DEF Releer
<1>4. /\ x \in TiposPeticion
      /\ \/ x.pc = "libre" /\ x = SinPeticion
         \/ /\ x.pc = "estado" /\ x.op = "editar" /\ x.destino = peticion[p].destino
            /\ x.tocado = peticion[p].tocado /\ x.t.estado = trip.estado
            /\ peticion[p].destino \in TRANSICIONES[trip.estado]
            /\ requisitos_pendientes(trip, peticion[p].destino)
    BY <1>1, <1>2, <1>3, LoComprobado
<1>5. CargaFiel(x, trip')
    <2>1. CASE x = SinPeticion
        BY <2>1, RegistrosDelCiclo
    <2>2. CASE x.pc = "estado"
        BY <1>1, <1>2, <1>4, <2>2 DEF CargaFiel
    <2> QED
        BY <1>4, <2>1, <2>2
<1> QED
    BY <1>1, <1>2, <1>3, <1>4, <1>5, AlSeguir

(* The last write of a request, on the row there is.                       *)
LEMMA AlGuardarViaje ==
    ASSUME InvCiclo, NEW p \in Formularios, CambiarEstado(p) \/ GuardarViaje(p)
    PROVE  InvCiclo'
<1>1. /\ trip \in Trips /\ peticion[p] \in TiposPeticion /\ peticion[p].t \in Trips
      /\ CargaFiel(peticion[p], trip) /\ peticion[p].pc # "libre"
      /\ UNCHANGED <<hoy, noche>>
    BY TiposDeCiclo DEF InvCiclo, TiposPeticion, CambiarEstado, GuardarViaje
<1>2. trip.estado \in TripStatus /\ "nada" \notin TripStatus
    BY <1>1 DEF CargaFiel, Trips, TripStatus
<1>3. CASE CambiarEstado(p)
    <2>1. trip' = [trip EXCEPT !.estado = peticion[p].destino]
          /\ Sigue(p, SinPeticion, TRUE) /\ peticion[p].destino \in TripStatus
        BY <1>1, <1>3 DEF CambiarEstado, TiposPeticion
    <2>2. trip' \in Trips /\ trip'.estado # "nada"
        BY <1>1, <1>2, <2>1 DEF Trips
    <2> QED
        BY <1>1, <1>2, <2>1, <2>2, RegistrosDelCiclo, AlSeguir
<1>4. CASE GuardarViaje(p)
    <2>1. marcar_actividad(peticion[p].t, trip) \in TripStatus
        BY <1>1, <1>2 DEF marcar_actividad, Trips, TripStatus
    <2>2. \A d, u \in Dias :
             /\ sync_dates(peticion[p].t, d, u).inicio \in Fechas
             /\ sync_dates(peticion[p].t, d, u).fin \in Fechas
        BY <1>1, MaxDiaAssumption DEF sync_dates, Trips, Dias, Fechas
    <2> HIDE DEF sync_dates, marcar_actividad
    <2>3. trip' \in Trips /\ trip'.estado # "nada"
        BY <1>1, <1>2, <1>4, <2>1, <2>2 DEF GuardarViaje, Trips
    <2>4. Sigue(p, SinPeticion, ~FilaRepetida(p)) /\ (FilaRepetida(p) => trip' = trip)
        BY <1>4 DEF GuardarViaje, FilaRepetida
    <2>5. (~FilaRepetida(p)) \in BOOLEAN
        BY DEF FilaRepetida
    <2> QED
        BY <1>1, <1>2, <2>3, <2>4, <2>5, RegistrosDelCiclo, AlSeguir
<1> QED
    BY <1>3, <1>4

(* The night: what it reads, reads again and writes, and the next day.     *)
LEMMA DeNoche ==
    ASSUME InvCiclo,
           advance_states \/ OtroViajeDeLaLista \/ EscribirAvance \/ PasarDia
    PROVE  InvCiclo'
<1>1. /\ trip \in Trips /\ noche \in TiposNoche /\ hoy \in 1..MaxDia + 1
      /\ peticion \in [Formularios -> TiposPeticion] /\ peticion' = peticion
      /\ \A p \in Formularios : CargaFiel(peticion[p], trip)
      /\ noche.pc = "escribir" => noche.estado # "nada" /\ trip.estado # "nada"
    BY TiposDeCiclo
       DEF InvCiclo, advance_states, OtroViajeDeLaLista, EscribirAvance, PasarDia
<1>2. CASE advance_states
    <2>1. noche' \in TiposNoche /\ noche'.estado = trip.estado
        BY <1>1, <1>2 DEF advance_states, TiposNoche, Trips
    <2>2. UNCHANGED <<trip, hoy>> /\ trip.estado # "nada"
        BY <1>2 DEF advance_states
    <2>3. TipoCiclo'
        BY <1>1, <2>1, <2>2 DEF TipoCiclo, TiposPeticion, TiposNoche
    <2> QED
        BY <1>1, <2>1, <2>2, <2>3 DEF InvCiclo
<1>3. CASE OtroViajeDeLaLista
    <2>1. noche' \in TiposNoche /\ noche'.estado = trip.estado
        BY <1>1, <1>3 DEF OtroViajeDeLaLista, TiposNoche, Trips
    <2>2. UNCHANGED <<trip, hoy>> /\ trip.estado # "nada"
        BY <1>1, <1>3 DEF OtroViajeDeLaLista
    <2>3. TipoCiclo'
        BY <1>1, <2>1, <2>2 DEF TipoCiclo, TiposPeticion, TiposNoche
    <2> QED
        BY <1>1, <2>1, <2>2, <2>3 DEF InvCiclo
<1>4. CASE EscribirAvance
    <2> DEFINE destino == IF noche.mira = "fin" THEN "FINALIZADO" ELSE "EN_CURSO"
    <2>1. trip' = IF destino \in TRANSICIONES[noche.estado]
                  THEN [trip EXCEPT !.estado = destino] ELSE trip
        BY <1>4 DEF EscribirAvance
    <2>2. destino \in {"FINALIZADO", "EN_CURSO"}
        OBVIOUS
    <2> HIDE DEF destino
    <2>3. /\ trip' \in Trips
          /\ trip'.inicio = trip.inicio /\ trip'.fin = trip.fin
          /\ trip'.viajero = trip.viajero /\ trip'.itinerario = trip.itinerario
          /\ trip'.estado \in {trip.estado, "FINALIZADO", "EN_CURSO"}
        BY <1>1, <2>1, <2>2 DEF Trips, TripStatus
    <2>4. noche' = SinNoche /\ UNCHANGED hoy
        BY <1>4 DEF EscribirAvance
    <2>5. ASSUME NEW p \in Formularios PROVE CargaFiel(peticion'[p], trip')
        <3>1. CargaFiel(peticion[p], trip) /\ peticion'[p] = peticion[p]
            BY <1>1
        <3> QED
            BY <2>3, <3>1 DEF CargaFiel, requisitos_pendientes
    <2>6. TipoCiclo'
        BY <1>1, <2>3, <2>4, RegistrosDelCiclo DEF TipoCiclo, TiposPeticion, TiposNoche
    <2> QED
        BY <2>4, <2>5, <2>6, RegistrosDelCiclo DEF InvCiclo
<1>5. CASE PasarDia
    <2>1. UNCHANGED <<trip, noche>> /\ hoy' \in 1..MaxDia + 1
        BY <1>1, <1>5, MaxDiaAssumption DEF PasarDia
    <2>2. TipoCiclo'
        BY <1>1, <2>1 DEF TipoCiclo, TiposPeticion, TiposNoche
    <2> QED
        BY <1>1, <2>1, <2>2 DEF InvCiclo
<1> QED
    BY <1>2, <1>3, <1>4, <1>5

(* Every step of the trip, of a request or of the night.                   *)
LEMMA CicloPaso == InvCiclo /\ [NextCiclo]_varsCiclo => InvCiclo'
<1> SUFFICES ASSUME InvCiclo, [NextCiclo]_varsCiclo PROVE InvCiclo'
    OBVIOUS
<1>1. CASE UNCHANGED varsCiclo
    BY <1>1 DEF varsCiclo, InvCiclo, TipoCiclo
<1>2. CASE \E p \in Formularios :
              \/ \E op \in OperacionesDeViaje, a \in BOOLEAN : CargarViaje(p, op, a)
              \/ ActualizarViaje(p)
              \/ Releer(p)
              \/ CambiarEstado(p)
              \/ GuardarViaje(p)
    <2>1. PICK p \in Formularios :
              \/ \E op \in OperacionesDeViaje, a \in BOOLEAN : CargarViaje(p, op, a)
              \/ ActualizarViaje(p)
              \/ Releer(p)
              \/ CambiarEstado(p)
              \/ GuardarViaje(p)
        BY <1>2
    <2>2. CASE \E op \in OperacionesDeViaje, a \in BOOLEAN : CargarViaje(p, op, a)
        BY <2>2, AlCargarViaje
    <2> QED
        BY <2>1, <2>2, AlActualizarViaje, AlReleer, AlGuardarViaje
<1> QED
    BY <1>1, <1>2, AlCrearViaje, DeNoche DEF NextCiclo

(* The invariant of the life of a trip.                                    *)
LEMMA SiempreInvCiclo == SpecCiclo => []InvCiclo
<1> QED
    BY CicloAlPrincipio, CicloPaso, PTL DEF SpecCiclo

(* The state, the dates and the requests of a trip never leave their types.*)
THEOREM TiposDelCiclo == SpecCiclo => []TipoCiclo
<1>1. InvCiclo => TipoCiclo
    BY DEF InvCiclo
<1> QED
    BY <1>1, SiempreInvCiclo, PTL

(* Who changes the state of a trip, and to what.                           *)
LEMMA QuienMueve ==
    ASSUME InvCiclo, NextCiclo, trip'.estado # trip.estado, trip.estado # "nada"
    PROVE  \/ \E p \in Formularios :
                 /\ Confirma(p) /\ peticion[p].pc = "estado"
                 /\ trip' = [trip EXCEPT !.estado = peticion[p].destino]
                 /\ trip'.estado = peticion[p].destino
           \/ \E p \in Formularios :
                 /\ Confirma(p) /\ peticion[p].pc = "cargada"
                 /\ peticion[p].t.estado = "BORRADOR" /\ trip'.estado = "EN_PREPARACION"
           \/ /\ noche.pc = "escribir"
              /\ trip'.estado \in TRANSICIONES[noche.estado]
              /\ trip'.estado \in {"FINALIZADO", "EN_CURSO"}
<1>1. trip \in Trips
    BY DEF InvCiclo, TipoCiclo
<1>2. \A p \in Formularios : Sigue(p, SinPeticion, TRUE) \/ Sigue(p, SinPeticion, ~FilaRepetida(p))
                               => peticion'[p].pc = "libre"
    BY DEF Sigue, SinPeticion
<1>3. ASSUME NEW p \in Formularios, CambiarEstado(p)
      PROVE  /\ Confirma(p) /\ peticion[p].pc = "estado"
             /\ trip' = [trip EXCEPT !.estado = peticion[p].destino]
             /\ trip'.estado = peticion[p].destino
    BY <1>1, <1>2, <1>3 DEF CambiarEstado, Confirma, Trips
<1>4. ASSUME NEW p \in Formularios, GuardarViaje(p)
      PROVE  /\ Confirma(p) /\ peticion[p].pc = "cargada"
             /\ peticion[p].t.estado = "BORRADOR" /\ trip'.estado = "EN_PREPARACION"
    <2>1. trip'.estado \in {trip.estado, marcar_actividad(peticion[p].t, trip)}
        BY <1>1, <1>4 DEF GuardarViaje, Trips
    <2>2. peticion[p].pc = "cargada" /\ Confirma(p)
        BY <1>2, <1>4 DEF GuardarViaje, Confirma
    <2> QED
        BY <2>1, <2>2 DEF marcar_actividad
<1>5. CASE EscribirAvance
    <2> DEFINE destino == IF noche.mira = "fin" THEN "FINALIZADO" ELSE "EN_CURSO"
    <2>1. trip' = IF destino \in TRANSICIONES[noche.estado]
                  THEN [trip EXCEPT !.estado = destino] ELSE trip
        BY <1>5 DEF EscribirAvance
    <2>2. destino \in {"FINALIZADO", "EN_CURSO"}
        OBVIOUS
    <2> HIDE DEF destino
    <2>3. trip'.estado = destino /\ destino \in TRANSICIONES[noche.estado]
        BY <1>1, <2>1 DEF Trips
    <2> QED
        BY <1>5, <2>2, <2>3 DEF EscribirAvance
<1>6. ASSUME NEW p \in Formularios PROVE ~ActualizarViaje(p)
    <2> SUFFICES ASSUME ActualizarViaje(p) PROVE trip'.estado = trip.estado
        OBVIOUS
    <2> DEFINE t == peticion[p].t
    <2>1. PICK i \in Fechas, f \in Fechas :
             \/ trip' = trip
             \/ trip' = [trip EXCEPT !.inicio = IF i # t.inicio THEN i ELSE @,
                                     !.fin = IF f # t.fin THEN f ELSE @]
        BY DEF ActualizarViaje
    <2> QED
        BY <1>1, <2>1 DEF Trips
<1>7. ~CrearViaje /\ ~advance_states /\ ~OtroViajeDeLaLista /\ ~PasarDia
    BY DEF CrearViaje, advance_states, OtroViajeDeLaLista, PasarDia
<1>8. \A p \in Formularios :
         ~Releer(p) /\ \A op \in OperacionesDeViaje, a \in BOOLEAN : ~CargarViaje(p, op, a)
    BY DEF Releer, CargarViaje
<1> QED
    BY <1>3, <1>4, <1>5, <1>6, <1>7, <1>8 DEF NextCiclo

(* A closed trip is moved only by who had loaded it before it was closed,  *)
(* or was served while somebody wrote it; none is confirmed without its    *)
(* dates, a traveller and an itinerary, even when one form changes the     *)
(* fields and the state, unless somebody wrote the trip meanwhile: without *)
(* it, what the check looked at is still there when the state is written,  *)
(* whatever the night does to the trip between the two.                    *)
THEOREM SoloSeMueveConFundamento == SpecCiclo => EstadoFundado
<1>1. InvCiclo /\ [NextCiclo]_varsCiclo =>
        [CerradoSoloPorLecturaVieja /\ ConfirmarExigeRequisitos]_varsCiclo
    <2> SUFFICES ASSUME InvCiclo, NextCiclo
                 PROVE  CerradoSoloPorLecturaVieja /\ ConfirmarExigeRequisitos
        OBVIOUS
    <2>1. /\ trip \in Trips /\ TRANSICIONES["FINALIZADO"] = {}
          /\ TRANSICIONES["CANCELADO"] = {"EN_PREPARACION"}
          /\ \A p \in Formularios : CargaFiel(peticion[p], trip)
        BY Transiciones DEF InvCiclo, TipoCiclo
    <2>2. CerradoSoloPorLecturaVieja
        <3> SUFFICES ASSUME trip.estado \in {"FINALIZADO", "CANCELADO"},
                            trip'.estado # trip.estado,
                            ~(noche.pc = "escribir" /\ noche.estado # trip.estado),
                            NEW p \in Formularios, Confirma(p),
                            \/ peticion[p].pc = "estado"
                            \/ peticion[p].pc = "cargada" /\ peticion[p].t.estado = "BORRADOR"
                     PROVE  peticion[p].tocado \/ peticion[p].t.estado # trip.estado
            BY <2>1, QuienMueve DEF CerradoSoloPorLecturaVieja, TRIP_CLOSED_STATES
        <3> QED
            BY <2>1 DEF CargaFiel
    <2>3. ConfirmarExigeRequisitos
        <3> SUFFICES ASSUME trip.estado \notin {"nada", "CONFIRMADO"},
                            trip'.estado = "CONFIRMADO",
                            \A p \in Formularios : Confirma(p) => ~peticion[p].tocado
                     PROVE  /\ trip'.inicio # 0 /\ trip'.fin # 0
                            /\ trip'.viajero = "activo" /\ trip'.itinerario
            BY DEF ConfirmarExigeRequisitos
        <3>1. PICK p \in Formularios :
                 /\ Confirma(p) /\ peticion[p].pc = "estado"
                 /\ trip' = [trip EXCEPT !.estado = peticion[p].destino]
                 /\ trip'.estado = peticion[p].destino
            BY QuienMueve
        <3>2. requisitos_pendientes(trip, "CONFIRMADO")
            BY <2>1, <3>1 DEF CargaFiel
        <3> QED
            BY <2>1, <3>1, <3>2 DEF requisitos_pendientes, Trips
    <2> QED
        BY <2>2, <2>3
<1> QED
    BY <1>1, SiempreInvCiclo, PTL DEF SpecCiclo, EstadoFundado

-----------------------------------------------------------------------------
(***************************************************************************)
(* Who may do what on a trip.                                              *)
(***************************************************************************)

(* What a planning request was granted still holds while nobody has moved  *)
(* the roster, the trip or the row.                                        *)
PlanFundado ==
    plan.pc = "autorizado" =>
        /\ viaje.estado # "nada" /\ plan.quien \in Viajeros
        /\ ~plan.movido =>
             /\ plan.quien \in active_travelers
             /\ plan.de = _solo_lo_planificable(plan.quien)
             /\ plan.op = "crear" => ~fila.viva
             /\ plan.op # "crear" =>
                   fila.viva /\ _dentro_de_lo_planificable(plan.quien)

InvAcceso == TipoAcceso /\ PlanFundado

TiposViaje == [estado : EstadosDeViaje \cup {"nada"}, borrado : BOOLEAN,
               gestor : Gestores \cup {Admin} \cup Nadie]
TiposPlan == [pc : {"libre", "autorizado"}, quien : Personas,
              op : {"crear", "editar", "eliminar"},
              de : {"todos"} \cup Viajeros, movido : BOOLEAN]

(* Nobody, and nothing, yet.                                               *)
LEMMA AccesoAlPrincipio == InitAcceso => InvAcceso
<1> SUFFICES ASSUME InitAcceso PROVE InvAcceso
    OBVIOUS
<1>1. TipoAcceso
    BY DEF InitAcceso, TipoAcceso, SinElemento, SinPlan, Elementos, TiposDeFila,
           Personas, Nadie
<1> QED
    BY <1>1 DEF InitAcceso, InvAcceso, PlanFundado, SinPlan

(* The manager found for a traveller's trip is one.                        *)
LEMMA GestorEncontrado ==
    ASSUME NEW elegido \in Gestores \cup Nadie,
           gestor_para_viaje_propio(elegido) # "error"
    PROVE  gestor_para_viaje_propio(elegido) \in Gestores \cup {Admin} \cup Nadie
<1> DEFINE disponibles == {g \in Gestores : EsActiva(g)}
<1>1. gestor_por_defecto \in Gestores \cup {Admin} \cup Nadie
    BY DEF gestor_por_defecto, Nadie
<1>2. Cardinality(disponibles) = 1 => (CHOOSE g \in disponibles : TRUE) \in Gestores
    <2>1. IsFiniteSet(disponibles)
        BY CuentasFinitasAssumption, FS_Subset
    <2>2. ASSUME Cardinality(disponibles) = 1 PROVE \E x : disponibles = {x}
        BY <2>1, <2>2, FS_Singleton
    <2> QED
        BY <2>2
<1> QED
    BY <1>1, <1>2 DEF gestor_para_viaje_propio

(* A traveller who may touch the itinerary is on the trip.                 *)
LEMMA ViajeroAutorizado ==
    ASSUME TipoAcceso, NEW u \in Viajeros, NEW recurso \in {"viaje", "fila"},
           can(u, "editar_itinerario", recurso)
    PROVE  /\ viaje.estado # "nada" /\ u \in active_travelers
           /\ recurso = "fila" => _dentro_de_lo_planificable(u)
BY PersonasAssumption DEF can, EsGestor

(* A step that marks the request as moved, or that touches nothing it      *)
(* stands on, keeps it grounded.                                           *)
LEMMA PlanSigue ==
    ASSUME InvAcceso, TipoAcceso',
           viaje.estado # "nada" => viaje'.estado # "nada",
           \/ Movido
           \/ UNCHANGED <<plan, asignados, fila>>
           \/ viaje.estado = "nada" /\ UNCHANGED plan
    PROVE  InvAcceso'
<1>1. plan \in TiposPlan
    BY DEF InvAcceso, TipoAcceso, TiposPlan
<1>2. CASE Movido
    <2>1. /\ plan'.pc = plan.pc /\ plan'.quien = plan.quien
          /\ plan.pc = "autorizado" => plan'.movido
        BY <1>1, <1>2 DEF Movido, TiposPlan
    <2> QED
        BY <2>1 DEF InvAcceso, PlanFundado
<1>3. CASE UNCHANGED <<plan, asignados, fila>>
    BY <1>3 DEF InvAcceso, PlanFundado, active_travelers, _solo_lo_planificable,
                _dentro_de_lo_planificable
<1>4. CASE viaje.estado = "nada" /\ UNCHANGED plan
    BY <1>4 DEF InvAcceso, PlanFundado
<1> QED
    BY <1>2, <1>3, <1>4

(* A request is authorised.                                                *)
LEMMA AlPedirPlan ==
    ASSUME InvAcceso, NEW u \in Viajeros,
           \/ \E tipo \in TiposDeFila : PedirAlta(u, tipo)
           \/ \E op \in {"editar", "eliminar"} : PedirCambio(u, op)
    PROVE  InvAcceso'
<1>1. PICK op \in {"crear", "editar", "eliminar"} :
         /\ plan' = [pc |-> "autorizado", quien |-> u, op |-> op,
                     de |-> _solo_lo_planificable(u), movido |-> FALSE]
         /\ can(u, "editar_itinerario", "viaje")
         /\ op = "crear" => ~fila.viva
         /\ op # "crear" => fila.viva /\ can(u, "editar_itinerario", "fila")
         /\ UNCHANGED <<inactivas, viaje, asignados, fila, planifican>>
    BY DEF PedirAlta, PedirCambio
<1>2. TipoAcceso
    BY DEF InvAcceso
<1>3. /\ viaje.estado # "nada" /\ u \in active_travelers
      /\ op # "crear" => _dentro_de_lo_planificable(u)
    BY <1>1, <1>2, ViajeroAutorizado
<1>4. _solo_lo_planificable(u) \in {"todos"} \cup Viajeros /\ u \in Personas
    BY DEF _solo_lo_planificable, Personas
<1>5. TipoAcceso'
    BY <1>1, <1>2, <1>4 DEF TipoAcceso
<1>6. PlanFundado'
    BY <1>1, <1>3
       DEF PlanFundado, active_travelers, _solo_lo_planificable,
           _dentro_de_lo_planificable
<1> QED
    BY <1>5, <1>6 DEF InvAcceso

(* And is written.                                                         *)
LEMMA AlEscribirPlan ==
    ASSUME InvAcceso, EscribirPlan
    PROVE  InvAcceso'
<1>1. SinPlan \in TiposPlan /\ SinPlan.pc = "libre"
    BY DEF SinPlan, TiposPlan, Personas
<1>2. fila \in Elementos /\ plan \in TiposPlan
    BY DEF InvAcceso, TipoAcceso, TiposPlan
<1>3. fila' \in Elementos
    BY <1>2 DEF EscribirPlan, Elementos, TiposPlan, TiposDeFila
<1> QED
    BY <1>1, <1>3 DEF EscribirPlan, InvAcceso, TipoAcceso, PlanFundado, TiposPlan

(* What managers, administrators and new trips do keeps the types.         *)
LEMMA AlMoverAlgo ==
    ASSUME InvAcceso,
           \/ \E g \in Gestores \cup {Admin} : AbrirViaje(g)
           \/ \E u \in Viajeros, g \in Gestores \cup Nadie : AbrirViajePropio(u, g)
           \/ \E u \in Viajeros : AsignarPersona(u) \/ RetirarPersona(u)
           \/ \E tipo \in TiposDeFila :
                 \/ \E de \in {"todos"} \cup Viajeros : AnotarFila(tipo, de)
                 \/ AprobarDocumento(tipo)
           \/ \E e \in EstadosDeViaje : MoverViaje(e)
           \/ BorrarViaje
           \/ CambiarAjuste
           \/ \E u \in Bloqueables : CambiarCuenta(u)
    PROVE  InvAcceso'
<1>1. /\ inactivas \subseteq Bloqueables /\ viaje \in TiposViaje
      /\ asignados \in [Viajeros -> {"nunca", "activo", "quitado"}]
      /\ fila \in Elementos /\ planifican \in BOOLEAN /\ plan \in TiposPlan
    BY DEF InvAcceso, TipoAcceso, TiposViaje, TiposPlan
<1>2. Movido => plan' \in TiposPlan
    BY <1>1 DEF Movido, TiposPlan
<1>3. "nada" \notin EstadosDeViaje
    BY DEF EstadosDeViaje
<1>4. ASSUME NEW g \in Gestores \cup {Admin}, AbrirViaje(g) PROVE InvAcceso'
    <2>1. viaje' \in TiposViaje
        BY <1>4 DEF AbrirViaje, TiposViaje, EstadosDeViaje
    <2> QED
        BY <1>1, <1>4, <2>1, PlanSigue
           DEF AbrirViaje, TipoAcceso, TiposViaje, TiposPlan
<1>5. ASSUME NEW u \in Viajeros, NEW g \in Gestores \cup Nadie,
             AbrirViajePropio(u, g)
      PROVE  InvAcceso'
    <2>1. viaje' \in TiposViaje
        BY <1>5, GestorEncontrado DEF AbrirViajePropio, TiposViaje, EstadosDeViaje
    <2>2. asignados' \in [Viajeros -> {"nunca", "activo", "quitado"}]
        BY <1>1, <1>5 DEF AbrirViajePropio
    <2> QED
        BY <1>1, <1>5, <2>1, <2>2, PlanSigue
           DEF AbrirViajePropio, TipoAcceso, TiposViaje, TiposPlan
<1>6. ASSUME NEW u \in Viajeros, AsignarPersona(u) \/ RetirarPersona(u)
      PROVE  InvAcceso'
    <2>1. asignados' \in [Viajeros -> {"nunca", "activo", "quitado"}]
        BY <1>1, <1>6 DEF AsignarPersona, RetirarPersona
    <2>2. Movido /\ UNCHANGED <<inactivas, viaje, fila, planifican>>
        BY <1>6 DEF AsignarPersona, RetirarPersona
    <2> QED
        BY <1>1, <1>2, <2>1, <2>2, PlanSigue DEF TipoAcceso, TiposViaje, TiposPlan
<1>7. ASSUME NEW tipo \in TiposDeFila,
             \/ \E de \in {"todos"} \cup Viajeros : AnotarFila(tipo, de)
             \/ AprobarDocumento(tipo)
      PROVE  InvAcceso'
    <2>1. fila' \in Elementos
        <3>1. (fila.viva /\ fila.documento) \in BOOLEAN
            OBVIOUS
        <3>2. CASE \E de \in {"todos"} \cup Viajeros : AnotarFila(tipo, de)
            BY <1>1, <3>1, <3>2 DEF AnotarFila, Elementos
        <3>3. CASE AprobarDocumento(tipo)
            BY <1>1, <3>3 DEF AprobarDocumento, Elementos
        <3> QED
            BY <1>7, <3>2, <3>3
    <2>2. Movido /\ UNCHANGED <<inactivas, viaje, asignados, planifican>>
        BY <1>7 DEF AnotarFila, AprobarDocumento
    <2> QED
        BY <1>1, <1>2, <2>1, <2>2, PlanSigue DEF TipoAcceso, TiposViaje, TiposPlan
<1>8. ASSUME (\E e \in EstadosDeViaje : MoverViaje(e)) \/ BorrarViaje
      PROVE  InvAcceso'
    <2>1. /\ viaje' \in TiposViaje
          /\ viaje.estado # "nada" => viaje'.estado # "nada"
        BY <1>1, <1>3, <1>8 DEF MoverViaje, BorrarViaje, TiposViaje
    <2>2. Movido /\ UNCHANGED <<inactivas, asignados, fila, planifican>>
        BY <1>8 DEF MoverViaje, BorrarViaje
    <2> QED
        BY <1>1, <1>2, <2>1, <2>2, PlanSigue DEF TipoAcceso, TiposViaje, TiposPlan
<1>9. CASE CambiarAjuste
    BY <1>1, <1>9, PlanSigue DEF CambiarAjuste, TipoAcceso, TiposViaje, TiposPlan
<1>10. ASSUME NEW u \in Bloqueables, CambiarCuenta(u) PROVE InvAcceso'
    BY <1>1, <1>10, PlanSigue DEF CambiarCuenta, TipoAcceso, TiposViaje, TiposPlan
<1> QED
    BY <1>4, <1>5, <1>6, <1>7, <1>8, <1>9, <1>10

(* The invariant of the authorisation.                                     *)
LEMMA SiempreInvAcceso == SpecAcceso => []InvAcceso
<1>1. InvAcceso /\ [NextAcceso]_varsAcceso => InvAcceso'
    <2> SUFFICES ASSUME InvAcceso, [NextAcceso]_varsAcceso PROVE InvAcceso'
        OBVIOUS
    <2>1. CASE UNCHANGED varsAcceso
        BY <2>1 DEF varsAcceso, InvAcceso, TipoAcceso, PlanFundado,
           active_travelers, _solo_lo_planificable, _dentro_de_lo_planificable
    <2>2. CASE NextAcceso
        BY <2>2, AlPedirPlan, AlEscribirPlan, AlMoverAlgo DEF NextAcceso
    <2> QED
        BY <2>1, <2>2
<1> QED
    BY <1>1, AccesoAlPrincipio, PTL DEF SpecAcceso

(* Trip, roster and planning requests never leave their types.             *)
THEOREM TiposDelAcceso == SpecAcceso => []TipoAcceso
<1>1. InvAcceso => TipoAcceso
    BY DEF InvAcceso
<1> QED
    BY <1>1, SiempreInvAcceso, PTL

(* The list of trips shows an account exactly the trips `can` lets it open,*)
(* though they are computed apart, for any people and any roster.          *)
THEOREM LaListaCoincide == SpecAcceso => []SeListaLoQueSePuedeVer
<1>1. InvAcceso => SeListaLoQueSePuedeVer
    <2> SUFFICES ASSUME TipoAcceso, ~viaje.borrado, viaje.estado # "nada",
                        NEW u \in Personas
                 PROVE  /\ visible_trips_query(u) <=> can(u, "ver_viaje", "viaje")
                        /\ u \in Viajeros /\ EsActiva(u) /\ ~visible_trips_query(u)
                              => no_existe(u, "viaje")
        BY DEF InvAcceso, SeListaLoQueSePuedeVer, Personas
    <2>1. EsActiva(Admin)
        BY PersonasAssumption DEF TipoAcceso, EsActiva
    <2>2. /\ "ver_viaje" \in PERMISOS_ADMIN /\ "ver_viaje" \in PERMISOS_GESTOR
          /\ "ver_viaje" \in _traveler_permissions
          /\ _trip_mutable("ver_viaje")
        BY DEF PERMISOS_ADMIN, PERMISOS_GESTOR, PERMISOS_USUARIO, Mutadores,
               _traveler_permissions, _trip_mutable
    <2>3. CASE EsGestor(u)
        BY <2>1, <2>2, <2>3, PersonasAssumption DEF can, visible_trips_query, EsGestor
    <2>4. CASE ~EsGestor(u)
        <3>1. /\ u \in Viajeros /\ u # Admin
              /\ u \in active_travelers <=> asignados[u] = "activo"
            BY <2>4 DEF EsGestor, Personas, active_travelers
        <3> QED
            BY <2>2, <2>4, <3>1 DEF can, visible_trips_query, no_existe
    <2> QED
        BY <2>3, <2>4
<1> QED
    BY <1>1, SiempreInvAcceso, PTL

(* A traveller writes only for themselves, unless a manager moved something*)
(* between the check and the commit.                                       *)
THEOREM SoloPlanificaLoSuyo == SpecAcceso => PlanificaLoSuyo
<1> DEFINE Suyo ==
          \A u \in {plan.quien} :
             /\ plan.op # "crear" => ~fila.documento
             /\ fila'.viva => scope_itinerary_query(u)'
             /\ \A v \in active_travelers \ {u} :
                   /\ plan.op # "crear" => ~scope_itinerary_query(v)
                   /\ ~scope_itinerary_query(v)'
<1>1. InvAcceso /\ [NextAcceso]_varsAcceso =>
        [plan.pc = "autorizado" /\ plan'.pc = "libre" /\ ~plan.movido => Suyo]_varsAcceso
    <2> SUFFICES ASSUME InvAcceso, NextAcceso, plan.pc = "autorizado",
                        plan'.pc = "libre", ~plan.movido,
                        NEW u, u = plan.quien
                 PROVE  /\ plan.op # "crear" => ~fila.documento
                        /\ fila'.viva => scope_itinerary_query(u)'
                        /\ \A v \in active_travelers \ {u} :
                              /\ plan.op # "crear" => ~scope_itinerary_query(v)
                              /\ ~scope_itinerary_query(v)'
        OBVIOUS
    <2> DEFINE otros == active_travelers \ {u}
    <2>1. /\ u \in active_travelers /\ ~EsGestor(u) /\ u \in Viajeros
          /\ plan.de = _solo_lo_planificable(u)
          /\ plan.op # "crear" => _dentro_de_lo_planificable(u)
          /\ plan \in TiposPlan /\ fila \in Elementos
        BY PersonasAssumption
           DEF InvAcceso, TipoAcceso, TiposPlan, PlanFundado, EsGestor
    <2>2. \A v \in otros : v \in Viajeros /\ v # u /\ ~EsGestor(v)
        BY PersonasAssumption DEF active_travelers, EsGestor
    <2>3. plan.op # "crear" =>
             ~fila.documento /\ \A v \in otros : ~scope_itinerary_query(v)
        <3> SUFFICES ASSUME plan.op # "crear"
                     PROVE  \A v \in otros : ~scope_itinerary_query(v)
            BY <2>1 DEF _dentro_de_lo_planificable
        <3>1. CASE fila.de = "todos"
            <4>1. Cardinality(active_travelers) = 1
                BY <2>1, <3>1 DEF _dentro_de_lo_planificable
            <4>2. IsFiniteSet(active_travelers)
                BY CuentasFinitasAssumption, FS_Subset DEF active_travelers
            <4>3. active_travelers = {u}
                BY <2>1, <4>1, <4>2, FS_Singleton
            <4> QED
                BY <4>3
        <3>2. CASE fila.de # "todos"
            BY <2>1, <2>2, <3>2
               DEF _dentro_de_lo_planificable, scope_itinerary_query
        <3> QED
            BY <3>1, <3>2
    <2>4. EscribirPlan
        BY <2>1 DEF NextAcceso, AbrirViaje, AbrirViajePropio, PedirAlta, PedirCambio,
           AsignarPersona, RetirarPersona, AnotarFila, AprobarDocumento, MoverViaje,
           BorrarViaje, CambiarAjuste, CambiarCuenta, Movido, TiposPlan
    <2>5. /\ fila'.viva => fila'.de = plan.de
          /\ asignados' = asignados
        BY <2>1, <2>4 DEF EscribirPlan, Elementos, TiposPlan
    <2>6. /\ active_travelers' = active_travelers
          /\ plan.de = IF active_travelers = {u} THEN "todos" ELSE u
        BY <2>1, <2>5 DEF active_travelers, _solo_lo_planificable
    <2>7. fila'.viva => u \in active_travelers' /\ fila'.de \in {"todos", u}
        BY <2>1, <2>5, <2>6
    <2>8. \A v \in otros :
             ~(fila'.viva /\ v \in active_travelers' /\ fila'.de \in {"todos", v})
        BY <2>1, <2>2, <2>5, <2>6, PersonasAssumption
    <2>9. fila'.viva => scope_itinerary_query(u)'
        BY <2>7 DEF scope_itinerary_query
    <2>10. \A v \in otros : ~scope_itinerary_query(v)'
        BY <2>2, <2>8 DEF scope_itinerary_query, EsGestor
    <2> QED
        BY <2>3, <2>9, <2>10
<1> QED
    BY <1>1, SiempreInvAcceso, PTL DEF SpecAcceso, PlanificaLoSuyo

-----------------------------------------------------------------------------
(***************************************************************************)
(* Numbers.                                                                *)
(***************************************************************************)

(* A set of naturals that is not empty has a least one: the induction      *)
(* principle, in the form that takes a set.                                *)
LEMMA HayMenor ==
    ASSUME NEW S \in SUBSET Nat, S # {}
    PROVE  \E m \in S : \A k \in S : m <= k
<1>1. PICK m \in S : \A k \in S : ~(<<k, m>> \in OpToRel(<, Nat))
    BY NatLessThanWellFounded, WFMin
<1>2. \A k \in S : ~(k < m)
    BY <1>1 DEF OpToRel
<1> QED
    BY <1>2

(* A finite set of naturals has a bound.                                   *)
LEMMA Acotado ==
    ASSUME NEW S \in SUBSET Nat, IsFiniteSet(S)
    PROVE  \E n \in Nat : \A k \in S : k <= n
<1> DEFINE c == Cardinality(S)
<1>1. c \in Nat /\ ExistsBijection(1..c, S)
    BY FS_CardinalityType
<1>2. PICK f \in [1..c -> S] : \A s \in S : \E i \in 1..c : f[i] = s
    BY <1>1 DEF ExistsBijection, Bijection, Surjection
<1> HIDE DEF c
<1> DEFINE Cota(j, n) == n \in Nat /\ \A i \in 1..c : i <= j => f[i] <= n
           Sin == {j \in 0..c : ~\E n : Cota(j, n)}
<1>3. \E n : Cota(0, n)
    <2>1. Cota(0, 0)
        BY <1>1
    <2> QED
        BY <2>1
<1>4. Sin \in SUBSET Nat /\ 0 \notin Sin /\ (\A j \in Sin : j <= c) /\ \A j \in 0..c : j \notin Sin => \E n : Cota(j, n)
    BY <1>1, <1>3
<1> HIDE DEF Sin, Cota
<1>5. Sin = {}
    <2> SUFFICES ASSUME Sin # {}  PROVE FALSE
        OBVIOUS
    <2>2. PICK j \in Sin : \A i \in Sin : j <= i
        BY <1>4, HayMenor
    <2>3. j # 0 /\ j \in Nat /\ j <= c
        BY <1>4, <2>2
    <2>4. j - 1 \in 0..c /\ j - 1 \notin Sin
        BY <1>1, <2>2, <2>3
    <2>5. PICK n : Cota(j - 1, n)
        BY <1>4, <2>4
    <2>6. n \in Nat /\ f[j] \in Nat
        <3>1. j \in 1..c
            BY <1>1, <2>3
        <3> QED
            BY <1>2, <2>5, <3>1 DEF Cota
    <2>7. PICK m \in Nat : n <= m /\ f[j] <= m
        BY <2>6
    <2>8. ASSUME NEW i \in 1..c, i <= j  PROVE f[i] <= m
        <3>1. CASE i = j
            BY <2>7, <3>1
        <3>2. CASE i # j
            <4>1. i <= j - 1
                BY <1>1, <2>3, <2>8, <3>2
            <4>2. f[i] <= n /\ f[i] \in Nat
                BY <1>2, <2>5, <4>1 DEF Cota
            <4> QED
                BY <2>6, <2>7, <4>2
        <3> QED
            BY <3>1, <3>2
    <2>9. Cota(j, m)
        BY <2>7, <2>8 DEF Cota
    <2> QED
        BY <2>2, <2>9 DEF Sin
<1>7. PICK n : Cota(c, n)
    BY <1>1, <1>4, <1>5
<1>6. ASSUME NEW k \in S  PROVE k <= n
    <2>1. PICK i \in 1..c : f[i] = k
        BY <1>2
    <2> QED
        BY <1>1, <1>7, <2>1 DEF Cota
<1> QED
    BY <1>6, <1>7 DEF Cota

(* And so a greatest one, if it is not empty.                              *)
LEMMA HayMayor ==
    ASSUME NEW S \in SUBSET Nat, S # {}, IsFiniteSet(S)
    PROVE  \E m \in S : \A k \in S : k <= m
<1>0. PICK n \in Nat : \A k \in S : k <= n
    BY Acotado
<1> DEFINE R == {j \in Nat : n - j \in S}
<1>1. R \in SUBSET Nat /\ R # {}
    <2>1. PICK k \in S : TRUE
        OBVIOUS
    <2>2. n - k \in Nat /\ n - (n - k) = k
        BY <1>0, <2>1
    <2> QED
        BY <2>1, <2>2
<1>2. PICK j \in R : \A i \in R : j <= i
    BY <1>1, HayMenor
<1>3. ASSUME NEW k \in S  PROVE k <= n - j
    <2>1. n - k \in Nat /\ n - (n - k) = k
        BY <1>0
    <2>2. j <= n - k
        BY <1>2, <2>1
    <2> QED
        BY <2>2, <1>2
<1> QED
    BY <1>2, <1>3

-----------------------------------------------------------------------------
(***************************************************************************)
(* The itinerary.                                                          *)
(***************************************************************************)
SonFilas(F) ==
    /\ IsFiniteSet(F)
    /\ \A f \in F : EsReserva(f)
    /\ \A f, g \in F : f.n = g.n => f = g

(* The dates of the trip are set together, and in order.                   *)
Fechada(v) ==
    /\ v = [ini |-> v.ini, zona |-> v.zona, fin |-> v.fin, zonaFin |-> v.zonaFin]
    /\ v.ini \in Nat \cup {SinHora} /\ v.fin \in Nat \cup {SinHora}
    /\ v.ini = SinHora <=> v.fin = SinHora
    /\ v.ini <= v.fin

SonDestinos(D) == \E S : D \in Seq(S) /\ \A d \in S : EsDestino(d)

InvItinerario ==
    /\ SonFilas(reservas)
    /\ \A f \in reservas : f.dueno \in lista \cup retirados \cup {Todos}
    /\ lista \in SUBSET Asignaciones /\ retirados \in SUBSET (Asignaciones \ lista)
    /\ SonDestinos(destinos)
    /\ Fechada(ventana)
    /\ edicionesViaje \in 0..MaxEdicionesViaje

InvReglas ==
    /\ InvItinerario
    /\ reloj \in 0..UltimaHora
    /\ \A p \in pases : p.dueno \in lista \cup retirados \cup {Todos}

(* One row more.                                                           *)
LEMMA UnaFilaMas ==
    ASSUME NEW F, SonFilas(F), NEW r, EsReserva(r), \A f \in F : f.n # r.n
    PROVE  SonFilas(F \cup {r})
BY FS_AddElement DEF SonFilas

(* A booking addressed to somebody is the booking.                         *)
LEMMA LaDirigida ==
    ASSUME NEW r, EsReserva(r), NEW v, NEW d \in BOOLEAN
    PROVE  EsReserva(Dirigida(r, v, d)) /\ Dirigida(r, v, d).n = r.n
           /\ Dirigida(r, v, d).dueno = v /\ Dirigida(r, v, d).doc = d
<1> DEFINE g == [n |-> r.n, kind |-> r.kind, tipo |-> r.tipo, ini |-> r.ini, fin |-> r.fin,
                 desde |-> r.desde, hasta |-> r.hasta, pais |-> r.pais, dueno |-> v,
                 doc |-> d, localizador |-> r.localizador, numero |-> r.numero,
                 nombre |-> r.nombre, importe |-> r.importe, moneda |-> r.moneda,
                 termD |-> r.termD, termH |-> r.termH]
           u == [r EXCEPT !.dueno = v]
<1>0. u = [g EXCEPT !.doc = r.doc]
    BY DEF EsReserva
<1>3. Dirigida(r, v, d) = [u EXCEPT !.doc = d]
    BY DEF Dirigida
<1>1. Dirigida(r, v, d) = g
    BY <1>0, <1>3
<1>2. EsReserva(g) /\ g.n = r.n /\ g.dueno = v /\ g.doc = d
    BY DEF EsReserva
<1> QED
    BY <1>1, <1>2

(* A row that is put off.                                                  *)
LEMMA LaRetrasada ==
    ASSUME NEW f, EsReserva(f), f.ini # SinHora, f.fin \in Nat, NEW g,
           g = [f EXCEPT !.ini = @ + 1, !.fin = @ + 1]
    PROVE  EsReserva(g) /\ g.n = f.n /\ g.dueno = f.dueno
<1> DEFINE h == [n |-> f.n, kind |-> f.kind, tipo |-> f.tipo, ini |-> f.ini + 1, fin |-> f.fin + 1,
                 desde |-> f.desde, hasta |-> f.hasta, pais |-> f.pais, dueno |-> f.dueno,
                 doc |-> f.doc, localizador |-> f.localizador, numero |-> f.numero,
                 nombre |-> f.nombre, importe |-> f.importe, moneda |-> f.moneda,
                 termD |-> f.termD, termH |-> f.termH]
<1>1. g = h
    BY DEF EsReserva
<1>2. EsReserva(h) /\ h.n = f.n /\ h.dueno = f.dueno
    BY DEF EsReserva
<1> QED
    BY <1>1, <1>2

(* The first and the last of the instants of an itinerary.                 *)
LEMMA LosExtremos ==
    ASSUME NEW F, SonFilas(F), Instantes(F) # {}
    PROVE  LET s == itinerary_span(F) IN
           s.primero.t \in Nat /\ s.ultimo.t \in Nat /\ s.primero.t <= s.ultimo.t
<1> DEFINE I == Instantes(F)
           T == {i.t : i \in I}
<1>1. \A i \in I : i.t \in Nat
    BY DEF Instantes, SonFilas, EsReserva
<1>2. T \in SUBSET Nat /\ T # {}
    BY <1>1
<1>3. PICK x \in I : \A j \in I : x.t <= j.t
    <2>1. PICK m \in T : \A k \in T : m <= k
        BY <1>2, HayMenor
    <2> QED
        BY <2>1
<1>4. IsFiniteSet(T)
    <2> DEFINE A == {g \in F : g.ini # SinHora}
               B == {g \in F : g.fin # SinHora}
               a == [g \in A |-> g.ini]
               b == [g \in B |-> g.fin]
    <2>1. IsFiniteSet(A) /\ IsFiniteSet(B)
        BY FS_Subset DEF SonFilas
    <2>2. a \in Surjection(A, {g.ini : g \in A}) /\ b \in Surjection(B, {g.fin : g \in B})
        BY DEF Surjection
    <2>3. IsFiniteSet({g.ini : g \in A}) /\ IsFiniteSet({g.fin : g \in B})
        BY <2>1, <2>2, FS_Surjection
    <2>4. T = {g.ini : g \in A} \cup {g.fin : g \in B}
        <3>1. ASSUME NEW i \in I
              PROVE  \/ \E g \in A : i = [t |-> g.ini, zona |-> Zona[g.desde]]
                     \/ \E g \in B : i = [t |-> g.fin, zona |-> Zona[g.hasta]]
            BY DEF Instantes
        <3>2. ASSUME NEW g \in A  PROVE [t |-> g.ini, zona |-> Zona[g.desde]] \in I
            BY DEF Instantes
        <3>3. ASSUME NEW g \in B  PROVE [t |-> g.fin, zona |-> Zona[g.hasta]] \in I
            BY DEF Instantes
        <3> HIDE DEF I, A, B
        <3>4. \A i \in I : i.t \in {g.ini : g \in A} \cup {g.fin : g \in B}
            BY <3>1
        <3>5. ASSUME NEW g \in A  PROVE g.ini \in {i.t : i \in I}
            <4>1. [t |-> g.ini, zona |-> Zona[g.desde]].t = g.ini
                OBVIOUS
            <4> QED
                BY <3>2, <4>1
        <3>6. ASSUME NEW g \in B  PROVE g.fin \in {i.t : i \in I}
            <4>1. [t |-> g.fin, zona |-> Zona[g.hasta]].t = g.fin
                OBVIOUS
            <4> QED
                BY <3>3, <4>1
        <3> QED
            BY <3>4, <3>5, <3>6
    <2> HIDE DEF A, B, T
    <2> QED
        BY <2>3, <2>4, FS_Union
<1>7. PICK z \in I : \A j \in I : j.t <= z.t
    <2>1. PICK m \in T : \A k \in T : k <= m
        BY <1>2, <1>4, HayMayor
    <2> QED
        BY <2>1
<1> DEFINE p == CHOOSE i \in I : \A j \in I : i.t <= j.t
           u == CHOOSE i \in I : \A j \in I : j.t <= i.t
<1>8. p \in I /\ \A j \in I : p.t <= j.t
    BY <1>3
<1>9. u \in I /\ \A j \in I : j.t <= u.t
    BY <1>7
<1>10. itinerary_span(F) = [primero |-> p, ultimo |-> u]
    BY DEF itinerary_span
<1> HIDE DEF p, u, I, T
<1> QED
    BY <1>1, <1>8, <1>9, <1>10

(* Dates that are filled from the itinerary stay in order.                 *)
LEMMA LasFechas ==
    ASSUME NEW F, SonFilas(F), NEW v, Fechada(v)
    PROVE  Fechada(sync_dates_from_itinerary(F, v))
<1>1. CASE Instantes(F) = {} \/ (v.ini # SinHora /\ v.fin # SinHora)
    BY <1>1 DEF sync_dates_from_itinerary
<1>2. CASE Instantes(F) # {} /\ ~(v.ini # SinHora /\ v.fin # SinHora)
    <2> DEFINE s == itinerary_span(F)
    <2>1. v.ini = SinHora /\ v.fin = SinHora
        BY <1>2 DEF Fechada
    <2>2. sync_dates_from_itinerary(F, v) =
            [ini |-> s.primero.t, zona |-> s.primero.zona, fin |-> s.ultimo.t, zonaFin |-> s.ultimo.zona]
        BY <1>2, <2>1 DEF sync_dates_from_itinerary
    <2>3. s.primero.t \in Nat /\ s.ultimo.t \in Nat /\ s.primero.t <= s.ultimo.t
        BY <1>2, LosExtremos
    <2> QED
        BY <2>2, <2>3 DEF Fechada, SinHora
<1> QED
    BY <1>1, <1>2

-----------------------------------------------------------------------------
(***************************************************************************)
(* What a derivation of the destinations leaves, candidate by candidate.   *)
(***************************************************************************)
CadenaHasta(c, D, g, n) ==
    g = [i \in 0..n |-> IF i = 0 THEN D ELSE SiFalta(g[i - 1], Lugar(c[i]))]

(* The derivation exists, however many the candidates.                     *)
LEMMA HayCadena ==
    ASSUME NEW c, NEW D, NEW largo \in Nat
    PROVE  \E g : CadenaHasta(c, D, g, largo)
<1> DEFINE Sin == {n \in Nat : ~\E g : CadenaHasta(c, D, g, n)}
<1>1. \E g : CadenaHasta(c, D, g, 0)
    <2> DEFINE g == [i \in 0..0 |-> D]
    <2>1. g = [i \in 0..0 |-> IF i = 0 THEN D ELSE SiFalta(g[i - 1], Lugar(c[i]))]
        OBVIOUS
    <2> QED
        BY <2>1 DEF CadenaHasta
<1>2. ASSUME NEW n \in Nat, \E g : CadenaHasta(c, D, g, n)
      PROVE  \E g : CadenaHasta(c, D, g, n + 1)
    <2>1. PICK g : CadenaHasta(c, D, g, n)
        BY <1>2
    <2> DEFINE h == [i \in 0..(n + 1) |->
                       IF i = n + 1 THEN SiFalta(g[n], Lugar(c[i])) ELSE g[i]]
    <2>2. \A i \in 0..(n + 1) : h[i] = IF i = 0 THEN D ELSE SiFalta(h[i - 1], Lugar(c[i]))
        <3> TAKE i \in 0..(n + 1)
        <3>1. CASE i = n + 1
            <4>1. h[i] = SiFalta(g[n], Lugar(c[i])) /\ h[i - 1] = g[n] /\ i # 0
                BY <3>1
            <4> QED
                BY <4>1
        <3>2. CASE i # n + 1
            <4>1. i \in 0..n /\ h[i] = g[i] /\ (i # 0 => i - 1 \in 0..n /\ h[i - 1] = g[i - 1])
                BY <3>2
            <4>2. g[i] = IF i = 0 THEN D ELSE SiFalta(g[i - 1], Lugar(c[i]))
                BY <2>1, <4>1 DEF CadenaHasta
            <4> QED
                BY <4>1, <4>2
        <3> QED
            BY <3>1, <3>2
    <2>3. h = [i \in 0..(n + 1) |-> h[i]]
        OBVIOUS
    <2> HIDE DEF h
    <2>4. h = [i \in 0..(n + 1) |-> IF i = 0 THEN D ELSE SiFalta(h[i - 1], Lugar(c[i]))]
        BY <2>2, <2>3
    <2> QED
        BY <2>4 DEF CadenaHasta
<1>3. Sin = {}
    <2> SUFFICES ASSUME Sin # {} PROVE FALSE
        OBVIOUS
    <2>1. PICK m \in Sin : \A k \in Sin : m <= k
        BY HayMenor
    <2>2. m \in Nat /\ m # 0
        BY <1>1
    <2>3. m - 1 \in Nat /\ m - 1 \notin Sin
        BY <2>1, <2>2
    <2>4. \E g : CadenaHasta(c, D, g, (m - 1) + 1)
        BY <1>2, <2>3
    <2> QED
        BY <2>2, <2>4
<1> QED
    BY <1>3

LaCadena(c, D) == CHOOSE g : CadenaHasta(c, D, g, Len(c))

(* The destinations derived are the last of it.                            *)
LEMMA LaDerivacion ==
    ASSUME NEW c, NEW D, Len(c) \in Nat
    PROVE  /\ sync_destinations_from_itinerary(c, D) = LaCadena(c, D)[Len(c)]
           /\ LaCadena(c, D)[0] = D
           /\ \A i \in 1..Len(c) :
                 LaCadena(c, D)[i] = SiFalta(LaCadena(c, D)[i - 1], Lugar(c[i]))
<1>1. CadenaHasta(c, D, LaCadena(c, D), Len(c))
    BY HayCadena DEF LaCadena
<1>2. sync_destinations_from_itinerary(c, D) = LaCadena(c, D)[Len(c)]
    BY DEF sync_destinations_from_itinerary, LaCadena, CadenaHasta
<1> DEFINE g == LaCadena(c, D)
<1> HIDE DEF g
<1>3. g = [i \in 0..Len(c) |-> IF i = 0 THEN D ELSE SiFalta(g[i - 1], Lugar(c[i]))]
    BY <1>1 DEF CadenaHasta, g
<1>4. \A i \in 0..Len(c) : g[i] = IF i = 0 THEN D ELSE SiFalta(g[i - 1], Lugar(c[i]))
    BY <1>3
<1>5. g[0] = D /\ \A i \in 1..Len(c) : g[i] = SiFalta(g[i - 1], Lugar(c[i]))
    BY <1>4
<1> QED
    BY <1>2, <1>5 DEF g

(* A set of numbers up to n that has 0 and the next of each has them all.  *)
LEMMA PasoAPaso ==
    ASSUME NEW S, NEW n \in Nat, 0 \in S, \A i \in 1..n : i - 1 \in S => i \in S
    PROVE  \A i \in 0..n : i \in S
<1> DEFINE Sin == {i \in 0..n : i \notin S}
<1>0. Sin \in SUBSET Nat
    OBVIOUS
<1> SUFFICES ASSUME Sin # {}  PROVE FALSE
    OBVIOUS
<1> HIDE DEF Sin
<1>1. PICK m \in Sin : \A k \in Sin : m <= k
    BY <1>0, HayMenor
<1>2. m \in 1..n /\ m \notin S
    BY <1>1 DEF Sin
<1>4. m - 1 \notin Sin /\ m - 1 \in 0..n
    BY <1>0, <1>1, <1>2
<1>3. m - 1 \in S
    BY <1>4 DEF Sin
<1> QED
    BY <1>2, <1>3

(* What has been derived from the first i candidates.                      *)
Derivado(c, D, h, i) ==
    /\ SonDestinos(h)
    /\ Len(h) >= Len(D) /\ \A j \in 1..Len(D) : h[j] = D[j]
    /\ \A k \in (Len(D) + 1)..Len(h), j \in 1..Len(h) : j < k =>
          /\ h[j] # h[k]
          /\ h[j].pais = h[k].pais => h[k].pais = SinDato
          /\ h[j].ciudad = h[k].ciudad => h[k].pais # SinDato
    /\ \A j \in 1..i : YaEsta(Lugar(c[j]), ToSet(h))

(* One candidate more.                                                     *)
LEMMA UnCandidatoMas ==
    ASSUME NEW c, NEW D, SonDestinos(D), NEW h, NEW i \in Nat \ {0}, Derivado(c, D, h, i - 1)
    PROVE  Derivado(c, D, SiFalta(h, Lugar(c[i])), i)
<1> DEFINE l == Lugar(c[i])
           n == SiFalta(h, l)
<1>0. PICK S : h \in Seq(S) /\ \A d \in S : EsDestino(d)
    BY DEF Derivado, SonDestinos
<1>1. Len(D) \in Nat
    BY DEF SonDestinos
<1>2. EsDestino(l)
    BY DEF Lugar, EsDestino
<1> HIDE DEF l
<1>3. CASE YaEsta(l, ToSet(h))
    <2>1. n = h
        BY <1>3 DEF SiFalta
    <2>2. \A j \in 1..i : j = i \/ j \in 1..(i - 1)
        OBVIOUS
    <2>3. \A j \in 1..i : YaEsta(Lugar(c[j]), ToSet(h))
        BY <1>3, <2>2 DEF Derivado, l
    <2> QED
        BY <2>1, <2>3 DEF Derivado, l
<1>4. CASE ~YaEsta(l, ToSet(h))
    <2>1. n = Append(h, l)
        BY <1>4 DEF SiFalta, add_destination
    <2>2. /\ Len(n) = Len(h) + 1 /\ Len(h) \in Nat
          /\ n[Len(n)] = l /\ \A j \in 1..Len(h) : n[j] = h[j] /\ n[j] \in ToSet(h)
        BY <1>0, <2>1 DEF ToSet
    <2>3. SonDestinos(n)
        <3>1. n \in Seq(S \cup {l})
            BY <1>0, <2>1
        <3> QED
            BY <1>0, <1>2, <3>1 DEF SonDestinos
    <2>4. ToSet(h) \subseteq ToSet(n) /\ l \in ToSet(n)
        BY <1>0, <2>1 DEF ToSet
    <2> HIDE DEF n
    <2>5. \A j \in 1..i : YaEsta(Lugar(c[j]), ToSet(n))
        <3> TAKE j \in 1..i
        <3>1. CASE j = i
            BY <2>4, <3>1 DEF YaEsta, l
        <3>2. CASE j # i
            <4>1. j \in 1..(i - 1)
                BY <3>2
            <4>2. YaEsta(Lugar(c[j]), ToSet(h))
                BY <4>1 DEF Derivado
            <4> QED
                BY <2>4, <4>2 DEF YaEsta
        <3> QED
            BY <3>1, <3>2
    <2>6. Len(n) >= Len(D) /\ \A j \in 1..Len(D) : n[j] = D[j]
        BY <1>1, <2>2 DEF Derivado
    <2>7. ASSUME NEW k \in (Len(D) + 1)..Len(n), NEW j \in 1..Len(n), j < k
          PROVE  /\ n[j] # n[k]
                 /\ n[j].pais = n[k].pais => n[k].pais = SinDato
                 /\ n[j].ciudad = n[k].ciudad => n[k].pais # SinDato
        <3>1. j \in 1..Len(h)
            BY <1>1, <2>2, <2>7
        <3>2. CASE k = Len(n)
            <4>1. n[k] = l /\ n[j] \in ToSet(h)
                BY <2>2, <3>1, <3>2
            <4> QED
                BY <1>4, <4>1 DEF YaEsta
        <3>3. CASE k # Len(n)
            <4>1. k \in (Len(D) + 1)..Len(h) /\ k \in 1..Len(h)
                BY <1>1, <2>2, <3>3
            <4> QED
                BY <2>2, <2>7, <3>1, <4>1 DEF Derivado
        <3> QED
            BY <3>2, <3>3
    <2> QED
        BY <2>3, <2>5, <2>6, <2>7 DEF Derivado, n, l
<1> QED
    BY <1>3, <1>4

(* And so with all of them.                                                *)
LEMMA LoDerivado ==
    ASSUME NEW c, Len(c) \in Nat, NEW D, SonDestinos(D)
    PROVE  Derivado(c, D, sync_destinations_from_itinerary(c, D), Len(c))
<1> DEFINE g == LaCadena(c, D)
           S == {i \in 0..Len(c) : Derivado(c, D, g[i], i)}
<1> HIDE DEF g
<1>1. /\ sync_destinations_from_itinerary(c, D) = g[Len(c)]
      /\ g[0] = D
      /\ \A i \in 1..Len(c) : g[i] = SiFalta(g[i - 1], Lugar(c[i]))
    BY LaDerivacion DEF g
<1>2. 0 \in S
    <2>1. Len(D) \in Nat
        BY DEF SonDestinos
    <2>2. Derivado(c, D, D, 0)
        BY <2>1 DEF Derivado
    <2> QED
        BY <1>1, <2>2
<1>3. ASSUME NEW i \in 1..Len(c), i - 1 \in S  PROVE i \in S
    <2>1. Derivado(c, D, g[i - 1], i - 1) /\ i \in Nat \ {0}
        BY <1>3
    <2>2. Derivado(c, D, SiFalta(g[i - 1], Lugar(c[i])), i)
        BY <2>1, UnCandidatoMas
    <2>3. g[i] = SiFalta(g[i - 1], Lugar(c[i]))
        BY <1>1
    <2> QED
        BY <2>2, <2>3
<1> HIDE DEF S
<1>4. \A i \in 0..Len(c) : i \in S
    BY <1>2, <1>3, PasoAPaso
<1>5. Len(c) \in S
    BY <1>4
<1> QED
    BY <1>1, <1>5 DEF S

(* Where all the candidates are there already, none is added.              *)
LEMMA NadaQueSumar ==
    ASSUME NEW c, Len(c) \in Nat, NEW D, \A i \in 1..Len(c) : YaEsta(Lugar(c[i]), ToSet(D))
    PROVE  sync_destinations_from_itinerary(c, D) = D
<1> DEFINE g == LaCadena(c, D)
           S == {i \in 0..Len(c) : g[i] = D}
<1> HIDE DEF g
<1>1. /\ sync_destinations_from_itinerary(c, D) = g[Len(c)]
      /\ g[0] = D
      /\ \A i \in 1..Len(c) : g[i] = SiFalta(g[i - 1], Lugar(c[i]))
    BY LaDerivacion DEF g
<1>2. 0 \in S
    BY <1>1
<1>3. \A i \in 1..Len(c) : i - 1 \in S => i \in S
    BY <1>1 DEF SiFalta
<1> HIDE DEF S
<1>4. \A i \in 0..Len(c) : i \in S
    BY <1>2, <1>3, PasoAPaso
<1>5. Len(c) \in S
    BY <1>4
<1> QED
    BY <1>1, <1>5 DEF S

(* A finite set in some order has all its members.                         *)
LEMMA EnCualquierOrden ==
    ASSUME NEW S, IsFiniteSet(S), NEW a \in SetToSeqs(S)
    PROVE  a \in Seq(S) /\ {a[j] : j \in 1..Len(a)} = S
<1> DEFINE n == Cardinality(S)
<1>1. n \in Nat /\ a \in [1..n -> S] /\ \A i, j \in 1..n : i # j => a[i] # a[j]
    BY FS_CardinalityType DEF SetToSeqs
<1> HIDE DEF n
<1>2. a \in Injection(1..n, S)
    BY <1>1 DEF Injection, IsInjective
<1>3. IsFiniteSet(1..n) /\ Cardinality(1..n) = n
    BY <1>1, FS_Interval
<1>4. a \in Surjection(1..n, S)
    BY <1>2, <1>3, FS_Injection DEF n
<1>5. a \in Seq(S) /\ Len(a) = n
    BY <1>1
<1> QED
    BY <1>1, <1>4, <1>5 DEF Surjection

LosTramos(F) ==
    {f \in DeClase(F, "segmento") : f.hasta \notin {SinDato, _punto_de_partida(F)} /\ ~_es_escala(f, F)}

LasEstancias(F) == {f \in DeClase(F, "alojamiento") : f.hasta # SinDato}

(* The candidates, whatever their order, are the same.                     *)
LEMMA LosCandidatos ==
    ASSUME NEW F, SonFilas(F), NEW c \in Candidatos(F)
    PROVE  Len(c) \in Nat /\ {c[j] : j \in 1..Len(c)} = LosTramos(F) \cup LasEstancias(F)
<1>1. PICK a \in SetToSeqs(LosTramos(F)), b \in SetToSeqs(LasEstancias(F)) : c = a \o b
    BY DEF Candidatos, LosTramos, LasEstancias
<1>2. IsFiniteSet(LosTramos(F)) /\ IsFiniteSet(LasEstancias(F))
    BY FS_Subset DEF LosTramos, LasEstancias, DeClase, SonFilas
<1>3. /\ a \in Seq(LosTramos(F)) /\ {a[j] : j \in 1..Len(a)} = LosTramos(F)
      /\ b \in Seq(LasEstancias(F)) /\ {b[j] : j \in 1..Len(b)} = LasEstancias(F)
    BY <1>2, EnCualquierOrden
<1> DEFINE T == LosTramos(F)
           E == LasEstancias(F)
<1> HIDE DEF T, E
<1>4. /\ Len(c) = Len(a) + Len(b) /\ Len(a) \in Nat /\ Len(b) \in Nat
      /\ \A j \in 1..Len(c) : c[j] = IF j <= Len(a) THEN a[j] ELSE b[j - Len(a)]
    <2>1. a \in Seq(T \cup E) /\ b \in Seq(T \cup E)
        BY <1>3 DEF T, E
    <2> QED
        BY <1>1, <2>1
<1>5. ASSUME NEW j \in 1..Len(c)  PROVE c[j] \in T \cup E
    <2>1. CASE j <= Len(a)
        <3>1. j \in 1..Len(a)
            BY <1>4, <2>1
        <3> QED
            BY <1>3, <1>4, <2>1, <3>1 DEF T
    <2>2. CASE ~(j <= Len(a))
        <3>1. j - Len(a) \in 1..Len(b)
            BY <1>4, <2>2
        <3> QED
            BY <1>3, <1>4, <2>2, <3>1 DEF E
    <2> QED
        BY <2>1, <2>2
<1>6. ASSUME NEW f \in T  PROVE f \in {c[j] : j \in 1..Len(c)}
    <2>1. PICK j \in 1..Len(a) : f = a[j]
        BY <1>3 DEF T
    <2>2. j \in 1..Len(c) /\ c[j] = a[j]
        BY <1>4
    <2> QED
        BY <2>1, <2>2
<1>7. ASSUME NEW f \in E  PROVE f \in {c[j] : j \in 1..Len(c)}
    <2>1. PICK j \in 1..Len(b) : f = b[j]
        BY <1>3 DEF E
    <2>2. j + Len(a) \in 1..Len(c) /\ c[j + Len(a)] = b[j]
        BY <1>4
    <2> QED
        BY <2>1, <2>2
<1> QED
    BY <1>4, <1>5, <1>6, <1>7 DEF T, E

-----------------------------------------------------------------------------
(***************************************************************************)
(* The inductive invariant of the itinerary and of what the rules read.    *)
(***************************************************************************)

(* The list of destinations without one of them.                           *)
LEMMA UnDestinoMenos ==
    ASSUME NEW D, SonDestinos(D), NEW i \in DOMAIN D
    PROVE  SonDestinos(RemoveAt(D, i))
<1>1. PICK S : D \in Seq(S) /\ \A d \in S : EsDestino(d)
    BY DEF SonDestinos
<1>2. SubSeq(D, 1, i - 1) \in Seq(S) /\ SubSeq(D, i + 1, Len(D)) \in Seq(S)
    BY <1>1
<1>3. RemoveAt(D, i) \in Seq(S)
    BY <1>2 DEF RemoveAt
<1> QED
    BY <1>1, <1>3 DEF SonDestinos

(* And with one more.                                                      *)
LEMMA UnDestinoMas ==
    ASSUME NEW D, SonDestinos(D), NEW l, EsDestino(l)
    PROVE  SonDestinos(add_destination(D, l))
<1>1. PICK S : D \in Seq(S) /\ \A d \in S : EsDestino(d)
    BY DEF SonDestinos
<1>2. Append(D, l) \in Seq(S \cup {l})
    BY <1>1
<1> QED
    BY <1>1, <1>2 DEF SonDestinos, add_destination

(* A trip starts with nothing booked.                                      *)
LEMMA EmpiezanBien == InitReglas => InvReglas
<1> SUFFICES ASSUME InitReglas  PROVE InvReglas
    OBVIOUS
<1> USE DEF InitReglas, InitItinerario
<1>1. SonFilas(reservas)
    BY FS_EmptySet DEF SonFilas
<1>2. SonDestinos(destinos)
    <2>1. destinos \in Seq({})
        OBVIOUS
    <2> QED
        BY <2>1 DEF SonDestinos
<1>3. Fechada(ventana)
    BY DEF Fechada, SinFechas, SinHora
<1> QED
    BY <1>1, <1>2, <1>3, HorasAssumption DEF InvReglas, InvItinerario

(* A step counted as an edit keeps the count.                              *)
LEMMA UnaEdicion ==
    ASSUME InvItinerario, Editada
    PROVE  edicionesViaje' \in 0..MaxEdicionesViaje
BY HorasAssumption DEF InvItinerario, Editada

(* An approval leaves what the next step needs.                            *)
LEMMA PasoAprobar ==
    ASSUME InvItinerario, NEW r \in Reservas, NEW v, AprobarReserva(r, v)
    PROVE  InvItinerario'
<1> DEFINE g == Dirigida(r, v, TRUE)
<1>1. EsReserva(g) /\ g.n = r.n /\ g.dueno = v /\ g.doc = TRUE
    BY LaDirigida, ReservasAssumption
<1>2. /\ Editada /\ v \in lista \cup {Todos} /\ \A f \in reservas : f.n # r.n
      /\ reservas' = reservas \cup {g} /\ lista' = lista /\ retirados' = retirados
      /\ ventana' = sync_dates_from_itinerary(reservas', ventana)
    BY DEF AprobarReserva, Nueva
<1>3. PICK c \in Candidatos(reservas') :
         destinos' = sync_destinations_from_itinerary(c, destinos)
    BY DEF AprobarReserva
<1> HIDE DEF g
<1>4. SonFilas(reservas)'
    BY <1>1, <1>2, UnaFilaMas DEF InvItinerario
<1>5. \A f \in reservas' : f.dueno \in lista' \cup retirados' \cup {Todos}
    BY <1>1, <1>2 DEF InvItinerario
<1>6. Fechada(ventana)'
    BY <1>2, <1>4, LasFechas DEF InvItinerario
<1>7. SonDestinos(destinos)'
    <2>1. Len(c) \in Nat
        BY <1>4, LosCandidatos
    <2>2. Derivado(c, destinos, destinos', Len(c))
        BY <1>3, <2>1, LoDerivado DEF InvItinerario
    <2> QED
        BY <2>2 DEF Derivado
<1>8. edicionesViaje' \in 0..MaxEdicionesViaje
    BY <1>2, UnaEdicion
<1> QED
    BY <1>2, <1>4, <1>5, <1>6, <1>7, <1>8 DEF InvItinerario

(* So does a booking typed by hand.                                        *)
LEMMA PasoAnotar ==
    ASSUME InvItinerario, NEW r \in Reservas, NEW v, AnotarReserva(r, v)
    PROVE  InvItinerario'
<1> DEFINE g == Dirigida(r, v, FALSE)
<1>1. EsReserva(g) /\ g.n = r.n /\ g.dueno = v
    BY LaDirigida, ReservasAssumption
<1>2. /\ Editada /\ v \in lista \cup {Todos} /\ \A f \in reservas : f.n # r.n
      /\ reservas' = reservas \cup {g}
      /\ UNCHANGED <<lista, retirados, destinos, ventana>>
    BY DEF AnotarReserva, Nueva
<1> HIDE DEF g
<1>4. SonFilas(reservas)'
    BY <1>1, <1>2, UnaFilaMas DEF InvItinerario
<1>5. \A f \in reservas' : f.dueno \in lista' \cup retirados' \cup {Todos}
    BY <1>1, <1>2 DEF InvItinerario
<1>8. edicionesViaje' \in 0..MaxEdicionesViaje
    BY <1>2, UnaEdicion
<1> QED
    BY <1>2, <1>4, <1>5, <1>8 DEF InvItinerario

(* One that is put off.                                                    *)
LEMMA PasoRetrasar ==
    ASSUME InvItinerario, NEW f \in reservas, RetrasarReserva(f)
    PROVE  InvItinerario'
<1> DEFINE g == [f EXCEPT !.ini = @ + 1, !.fin = @ + 1]
<1>0. EsReserva(f) /\ f.dueno \in lista \cup retirados \cup {Todos}
    BY DEF InvItinerario, SonFilas
<1>1. EsReserva(g) /\ g.n = f.n /\ g.dueno = f.dueno
    <2>1. f.fin \in Nat /\ f.ini # SinHora
        BY HorasAssumption DEF RetrasarReserva
    <2> QED
        BY <1>0, <2>1, LaRetrasada
<1>2. /\ Editada
      /\ reservas' = (reservas \ {f}) \cup {g}
      /\ UNCHANGED <<lista, retirados, destinos, ventana>>
    BY DEF RetrasarReserva
<1> HIDE DEF g
<1>3. SonFilas(reservas \ {f}) /\ \A h \in reservas \ {f} : h.n # f.n
    BY FS_Subset DEF InvItinerario, SonFilas
<1>4. SonFilas(reservas)'
    BY <1>1, <1>2, <1>3, UnaFilaMas
<1>5. \A h \in reservas' : h.dueno \in lista' \cup retirados' \cup {Todos}
    BY <1>0, <1>1, <1>2 DEF InvItinerario
<1>8. edicionesViaje' \in 0..MaxEdicionesViaje
    BY <1>2, UnaEdicion
<1> QED
    BY <1>2, <1>4, <1>5, <1>8 DEF InvItinerario

(* And one that goes.                                                      *)
LEMMA PasoBorrar ==
    ASSUME InvItinerario, NEW f \in reservas, BorrarReserva(f)
    PROVE  InvItinerario'
<1>2. Editada /\ reservas' = reservas \ {f} /\ UNCHANGED <<lista, retirados, destinos, ventana>>
    BY DEF BorrarReserva
<1>4. SonFilas(reservas)'
    BY <1>2, FS_Subset DEF InvItinerario, SonFilas
<1>5. \A h \in reservas' : h.dueno \in lista' \cup retirados' \cup {Todos}
    BY <1>2 DEF InvItinerario
<1>8. edicionesViaje' \in 0..MaxEdicionesViaje
    BY <1>2, UnaEdicion
<1> QED
    BY <1>2, <1>4, <1>5, <1>8 DEF InvItinerario

(* Every step of the itinerary keeps its part of the invariant.            *)
LEMMA PasoItinerario == InvItinerario /\ NextItinerario => InvItinerario'
<1> SUFFICES ASSUME InvItinerario, NextItinerario  PROVE InvItinerario'
    OBVIOUS
<1>1. CASE \E r \in Reservas, v \in Asignaciones \cup {Todos} :
              AprobarReserva(r, v) \/ AnotarReserva(r, v)
    BY <1>1, PasoAprobar, PasoAnotar
<1>2. CASE \E f \in reservas : RetrasarReserva(f) \/ BorrarReserva(f)
    BY <1>2, PasoRetrasar, PasoBorrar
<1>3. ASSUME NEW v \in Asignaciones, SumarPersona(v)  PROVE InvItinerario'
    <2>1. /\ Editada /\ v \notin lista \cup retirados /\ lista' = lista \cup {v}
          /\ UNCHANGED <<reservas, retirados, destinos, ventana>>
        BY <1>3 DEF SumarPersona
    <2>2. edicionesViaje' \in 0..MaxEdicionesViaje
        BY <2>1, UnaEdicion
    <2> QED
        BY <2>1, <2>2 DEF InvItinerario
<1>4. ASSUME NEW v \in Asignaciones, QuitarPersona(v)  PROVE InvItinerario'
    <2>1. /\ Editada /\ v \in lista /\ lista' = lista \ {v} /\ retirados' = retirados \cup {v}
          /\ UNCHANGED <<reservas, destinos, ventana>>
        BY <1>4 DEF QuitarPersona
    <2>2. edicionesViaje' \in 0..MaxEdicionesViaje
        BY <2>1, UnaEdicion
    <2>3. \A f \in reservas' : f.dueno \in lista' \cup retirados' \cup {Todos}
        BY <2>1 DEF InvItinerario
    <2> QED
        BY <2>1, <2>2, <2>3 DEF InvItinerario
<1>5. ASSUME NEW l \in AMano, PonerDestino(l)  PROVE InvItinerario'
    <2>1. /\ Editada /\ destinos' = add_destination(destinos, l)
          /\ UNCHANGED <<reservas, lista, retirados, ventana>>
        BY <1>5 DEF PonerDestino
    <2>2. edicionesViaje' \in 0..MaxEdicionesViaje
        BY <2>1, UnaEdicion
    <2>3. SonDestinos(destinos')
        BY <2>1, AManoAssumption, UnDestinoMas DEF InvItinerario
    <2> QED
        BY <2>1, <2>2, <2>3 DEF InvItinerario
<1>6. ASSUME NEW i \in DOMAIN destinos, remove_destination(i)  PROVE InvItinerario'
    <2>1. /\ Editada /\ destinos' = RemoveAt(destinos, i)
          /\ UNCHANGED <<reservas, lista, retirados, ventana>>
        BY <1>6 DEF remove_destination
    <2>2. edicionesViaje' \in 0..MaxEdicionesViaje
        BY <2>1, UnaEdicion
    <2>3. SonDestinos(destinos')
        BY <2>1, UnDestinoMenos DEF InvItinerario
    <2> QED
        BY <2>1, <2>2, <2>3 DEF InvItinerario
<1> QED
    BY <1>1, <1>2, <1>3, <1>4, <1>5, <1>6 DEF NextItinerario

(* People are not forgotten: who was assigned is, or was removed.          *)
LEMMA LaGenteQueda ==
    ASSUME NextItinerario
    PROVE  lista \cup retirados \subseteq lista' \cup retirados'
BY DEF NextItinerario, AprobarReserva, AnotarReserva, RetrasarReserva, BorrarReserva,
       SumarPersona, QuitarPersona, PonerDestino, remove_destination

(* Every step of the component keeps the invariant.                        *)
LEMMA PasoReglas == InvReglas /\ [NextReglas]_varsReglas => InvReglas'
<1> SUFFICES ASSUME InvReglas, [NextReglas]_varsReglas  PROVE InvReglas'
    OBVIOUS
<1> USE DEF InvReglas
<1>1. CASE NextItinerario /\ UNCHANGED <<reloj, pases>>
    <2>1. InvItinerario'
        BY <1>1, PasoItinerario
    <2>2. lista \cup retirados \subseteq lista' \cup retirados'
        BY <1>1, LaGenteQueda
    <2>3. \A p \in pases' : p.dueno \in lista' \cup retirados' \cup {Todos}
        BY <1>1, <2>2
    <2> QED
        BY <1>1, <2>1, <2>3
<1>2. ASSUME NEW f \in reservas, NEW v \in Asignaciones \cup {Todos}, NEW d \in BOOLEAN,
             AdjuntarPase(f, v, d)
      PROVE  InvReglas'
    <2>1. /\ Editada /\ v \in lista \cup {Todos}
          /\ pases' = pases \cup {[dueno |-> v, deFila |-> IF d THEN f.n ELSE 0,
                                   nombra |-> {f.numero} \ {SinDato}]}
          /\ UNCHANGED <<reservas, lista, retirados, destinos, ventana, reloj>>
        BY <1>2 DEF AdjuntarPase
    <2>2. edicionesViaje' \in 0..MaxEdicionesViaje
        BY <2>1, UnaEdicion
    <2>3. \A p \in pases' : p.dueno \in lista' \cup retirados' \cup {Todos}
        BY <2>1
    <2> QED
        BY <2>1, <2>2, <2>3 DEF InvItinerario
<1>3. CASE PasarUnDia
    <2>1. /\ Editada /\ reloj + HorasDelDia <= UltimaHora /\ reloj' = reloj + HorasDelDia
          /\ UNCHANGED <<reservas, lista, retirados, destinos, ventana, pases>>
        BY <1>3 DEF PasarUnDia
    <2>2. edicionesViaje' \in 0..MaxEdicionesViaje
        BY <2>1, UnaEdicion
    <2>3. reloj' \in 0..UltimaHora
        BY <2>1, HorasAssumption
    <2> QED
        BY <2>1, <2>2, <2>3 DEF InvItinerario
<1>4. CASE UNCHANGED varsReglas
    BY <1>4 DEF varsReglas, varsItinerario, InvItinerario
<1> QED
    BY <1>1, <1>2, <1>3, <1>4 DEF NextReglas

-----------------------------------------------------------------------------
(***************************************************************************)
(* The order of the timeline.                                              *)
(***************************************************************************)

(* Of two rows one comes before the other, and never both.                 *)
LEMMA UnoAntes ==
    ASSUME NEW F, SonFilas(F), NEW a \in F, NEW b \in F
    PROVE  /\ a # b => Antes(a, b) \/ Antes(b, a)
           /\ ~(Antes(a, b) /\ Antes(b, a))
<1>1. EsReserva(a) /\ EsReserva(b) /\ (a.n = b.n => a = b)
    BY DEF SonFilas
<1>2. a.n \in Nat /\ b.n \in Nat /\ a.ini \in Int /\ b.ini \in Int
    BY <1>1 DEF EsReserva, SinHora
<1> QED
    BY <1>1, <1>2 DEF Antes, SinFecha

(* The order has no turns.                                                 *)
LEMMA AntesDeAntes ==
    ASSUME NEW F, SonFilas(F), NEW a \in F, NEW b \in F, NEW d \in F, Antes(a, b), Antes(b, d)
    PROVE  Antes(a, d)
<1>1. EsReserva(a) /\ EsReserva(b) /\ EsReserva(d)
    BY DEF SonFilas
<1>2. /\ a.n \in Nat /\ b.n \in Nat /\ d.n \in Nat
      /\ a.ini \in Int /\ b.ini \in Int /\ d.ini \in Int
    BY <1>1 DEF EsReserva, SinHora
<1> QED
    BY <1>2 DEF Antes, SinFecha

(* Among dated rows, a first one.                                          *)
LEMMA LaPrimera ==
    ASSUME NEW F, SonFilas(F), NEW S \in SUBSET F, S # {}, \A f \in S : ~SinFecha(f)
    PROVE  \E m \in S : \A g \in S : g = m \/ Antes(m, g)
<1> DEFINE I == {f.ini : f \in S}
<1>1. \A f \in S : f.ini \in Nat /\ f.n \in Nat
    BY DEF SonFilas, EsReserva, SinFecha
<1>2. I \in SUBSET Nat /\ I # {}
    BY <1>1
<1> HIDE DEF I
<1>3. PICK t \in I : \A u \in I : t <= u
    BY <1>2, HayMenor
<1> DEFINE N == {n \in Nat : \E f \in S : f.ini = t /\ f.n = n}
<1>4. N \in SUBSET Nat /\ N # {}
    <2>1. PICK f \in S : f.ini = t
        BY <1>3 DEF I
    <2> QED
        BY <1>1, <2>1
<1> HIDE DEF N
<1>5. PICK n \in N : \A k \in N : n <= k
    BY <1>4, HayMenor
<1>6. PICK m \in S : m.ini = t /\ m.n = n
    BY <1>5 DEF N
<1>7. ASSUME NEW g \in S, g # m  PROVE Antes(m, g)
    <2>1. g.ini \in I /\ g.n # n
        BY <1>6, <1>7 DEF I, SonFilas
    <2>2. t <= g.ini
        BY <1>3, <2>1
    <2>3. g.ini = t => g.n \in N
        BY <1>1 DEF N
    <2>4. g.ini = t => n < g.n
        BY <1>1, <1>4, <1>5, <2>1, <2>3
    <2>5. ~SinFecha(g) /\ ~SinFecha(m) /\ t \in Nat /\ n \in Nat /\ g.n \in Nat /\ g.ini \in Nat
        BY <1>1, <1>6
    <2> QED
        BY <1>6, <2>2, <2>4, <2>5 DEF Antes
<1> QED
    BY <1>7

(* What comes next after a row, where something comes after it.            *)
LEMMA LaSiguiente ==
    ASSUME NEW F, SonFilas(F), \A f \in F : ~SinFecha(f), NEW a \in F, NEW b \in F, Antes(a, b)
    PROVE  \E d \in F : <<a, d>> \in build_timeline(F) /\ (d = b \/ Antes(d, b))
<1> DEFINE S == {g \in F : Antes(a, g)}
<1>1. S \in SUBSET F /\ S # {} /\ b \in S
    OBVIOUS
<1>2. PICK d \in S : \A g \in S : g = d \/ Antes(d, g)
    BY <1>1, LaPrimera
<1>3. d \in F /\ Antes(a, d)
    OBVIOUS
<1>4. ASSUME NEW g \in F, Antes(a, g), Antes(g, d)  PROVE FALSE
    <2>1. g = d \/ Antes(d, g)
        BY <1>2, <1>4
    <2> QED
        BY <1>3, <1>4, <2>1, UnoAntes
<1>5. <<a, d>> \in build_timeline(F)
    BY <1>3, <1>4 DEF build_timeline
<1> QED
    BY <1>1, <1>2, <1>5

-----------------------------------------------------------------------------
(***************************************************************************)
(* Where each finding of a pass comes from.                                *)
(***************************************************************************)

(* The rules about one person.                                             *)
LEMMA SuCodigoYPersona ==
    ASSUME NEW v
    PROVE  /\ \A h \in segmentos_solapados(v) :
                 h.codigo = "segmentos_solapados" /\ h.viajero = v
           /\ \A h \in conexion_margen_insuficiente(v) :
                 h.codigo = "conexion_margen_insuficiente" /\ h.viajero = v
           /\ \A h \in llegada_posterior_reserva(v) :
                 h.codigo = "llegada_posterior_reserva" /\ h.viajero = v
           /\ \A h \in noche_sin_alojamiento(v) :
                 h.codigo = "noche_sin_alojamiento" /\ h.viajero = v
           /\ \A h \in cambio_zona_horaria(v) :
                 h.codigo = "cambio_zona_horaria" /\ h.viajero = v
           /\ \A h \in coste_noche_sobre_politica(v) :
                 h.codigo = "coste_noche_sobre_politica" /\ h.viajero = v
<1>1. ASSUME NEW h \in segmentos_solapados(v)
      PROVE  h.codigo = "segmentos_solapados" /\ h.viajero = v
    <2>1. \E p : h = Hallazgo("segmentos_solapados", v, {p[1], p[2]}, Numeros({p[1], p[2]}), "alta")
        BY DEF segmentos_solapados
    <2> QED
        BY <2>1 DEF Hallazgo
<1>2. ASSUME NEW h \in conexion_margen_insuficiente(v)
      PROVE  h.codigo = "conexion_margen_insuficiente" /\ h.viajero = v
    <2>1. \E p, s : h = Hallazgo("conexion_margen_insuficiente", v, {p[1], p[2]}, Numeros({p[1], p[2]}), s)
        BY DEF conexion_margen_insuficiente
    <2> QED
        BY <2>1 DEF Hallazgo
<1>3. ASSUME NEW h \in llegada_posterior_reserva(v)
      PROVE  h.codigo = "llegada_posterior_reserva" /\ h.viajero = v
    <2>1. \E p : h = Hallazgo("llegada_posterior_reserva", v, {p[1], p[2]}, Numeros({p[1], p[2]}), "media")
        BY DEF llegada_posterior_reserva
    <2> QED
        BY <2>1 DEF Hallazgo
<1>4. ASSUME NEW h \in noche_sin_alojamiento(v)
      PROVE  h.codigo = "noche_sin_alojamiento" /\ h.viajero = v
    <2>1. \E n : h = Hallazgo("noche_sin_alojamiento", v, {}, {<<"noches", Min(n)>>}, "media")
        BY DEF noche_sin_alojamiento
    <2> QED
        BY <2>1 DEF Hallazgo
<1>5. ASSUME NEW h \in cambio_zona_horaria(v)
      PROVE  h.codigo = "cambio_zona_horaria" /\ h.viajero = v
    <2>1. \E f : h = Hallazgo("cambio_zona_horaria", v, {f}, Numeros({f}), "informativa")
        BY DEF cambio_zona_horaria
    <2> QED
        BY <2>1 DEF Hallazgo
<1>6. ASSUME NEW h \in coste_noche_sobre_politica(v)
      PROVE  h.codigo = "coste_noche_sobre_politica" /\ h.viajero = v
    <2>1. \E f : h = Hallazgo("coste_noche_sobre_politica", v, {f}, {<<"nombre", f.nombre>>}, "media")
        BY DEF coste_noche_sobre_politica
    <2> QED
        BY <2>1 DEF Hallazgo
<1> QED
    BY <1>1, <1>2, <1>3, <1>4, <1>5, <1>6

(* And those about the trip as a whole.                                    *)
LEMMA SuCodigo ==
    /\ \A h \in sin_tarjeta_de_embarque : h.codigo = "sin_tarjeta_de_embarque"
    /\ \A h \in documento_viajero_por_caducar : h.codigo = "documento_viajero_por_caducar"
    /\ \A h \in datos_incompletos : h.codigo = "datos_incompletos"
    /\ \A h \in sin_documento_soporte : h.codigo = "sin_documento_soporte"
    /\ \A h \in coste_sobre_politica : h.codigo = "coste_sobre_politica"
    /\ \A h \in reserva_con_poca_antelacion : h.codigo = "reserva_con_poca_antelacion"
<1>1. ASSUME NEW h \in sin_tarjeta_de_embarque  PROVE h.codigo = "sin_tarjeta_de_embarque"
    <2>1. \E v, sobre, nombres, s : h = Hallazgo("sin_tarjeta_de_embarque", v, sobre, nombres, s)
        BY DEF sin_tarjeta_de_embarque
    <2> QED
        BY <2>1 DEF Hallazgo
<1>2. ASSUME NEW h \in documento_viajero_por_caducar  PROVE h.codigo = "documento_viajero_por_caducar"
    <2>1. \E v, sobre, nombres, s : h = Hallazgo("documento_viajero_por_caducar", v, sobre, nombres, s)
        BY DEF documento_viajero_por_caducar
    <2> QED
        BY <2>1 DEF Hallazgo
<1>3. ASSUME NEW h \in datos_incompletos  PROVE h.codigo = "datos_incompletos"
    <2>1. \E v, sobre, nombres, s : h = Hallazgo("datos_incompletos", v, sobre, nombres, s)
        BY DEF datos_incompletos
    <2> QED
        BY <2>1 DEF Hallazgo
<1>4. ASSUME NEW h \in sin_documento_soporte  PROVE h.codigo = "sin_documento_soporte"
    <2>1. \E v, sobre, nombres, s : h = Hallazgo("sin_documento_soporte", v, sobre, nombres, s)
        BY DEF sin_documento_soporte
    <2> QED
        BY <2>1 DEF Hallazgo
<1>5. ASSUME NEW h \in coste_sobre_politica  PROVE h.codigo = "coste_sobre_politica"
    <2>1. \E v, sobre, nombres, s : h = Hallazgo("coste_sobre_politica", v, sobre, nombres, s)
        BY DEF coste_sobre_politica
    <2> QED
        BY <2>1 DEF Hallazgo
<1>6. ASSUME NEW h \in reserva_con_poca_antelacion  PROVE h.codigo = "reserva_con_poca_antelacion"
    <2>1. \E v, sobre, nombres, s : h = Hallazgo("reserva_con_poca_antelacion", v, sobre, nombres, s)
        BY DEF reserva_con_poca_antelacion
    <2> QED
        BY <2>1 DEF Hallazgo
<1> QED
    BY <1>1, <1>2, <1>3, <1>4, <1>5, <1>6

(* The findings of one person are those of the rules, by their code.       *)
LEMMA PorSuCodigo ==
    ASSUME NEW h \in evaluate
    PROVE  \/ /\ h.viajero \in Personados
              /\ \/ h.codigo = "segmentos_solapados" /\ h \in segmentos_solapados(h.viajero)
                 \/ /\ h.codigo = "conexion_margen_insuficiente"
                    /\ h \in conexion_margen_insuficiente(h.viajero)
                 \/ /\ h.codigo = "llegada_posterior_reserva"
                    /\ h \in llegada_posterior_reserva(h.viajero)
                 \/ h.codigo = "noche_sin_alojamiento" /\ h \in noche_sin_alojamiento(h.viajero)
                 \/ h.codigo = "cambio_zona_horaria" /\ h \in cambio_zona_horaria(h.viajero)
                 \/ /\ h.codigo = "coste_noche_sobre_politica"
                    /\ h \in coste_noche_sobre_politica(h.viajero)
           \/ h.codigo = "sin_tarjeta_de_embarque" /\ h \in sin_tarjeta_de_embarque
           \/ h.codigo = "documento_viajero_por_caducar" /\ h \in documento_viajero_por_caducar
           \/ h.codigo = "datos_incompletos" /\ h \in datos_incompletos
           \/ h.codigo = "sin_documento_soporte" /\ h \in sin_documento_soporte
           \/ h.codigo = "coste_sobre_politica" /\ h \in coste_sobre_politica
           \/ h.codigo = "reserva_con_poca_antelacion" /\ h \in reserva_con_poca_antelacion
<1>1. \/ \E v \in Personados : h \in PorPersona(v)
      \/ h \in sin_tarjeta_de_embarque \/ h \in documento_viajero_por_caducar
      \/ h \in datos_incompletos \/ h \in sin_documento_soporte
      \/ h \in coste_sobre_politica \/ h \in reserva_con_poca_antelacion
    BY DEF evaluate
<1>2. CASE \E v \in Personados : h \in PorPersona(v)
    <2>1. PICK v \in Personados : h \in PorPersona(v)
        BY <1>2
    <2>2. \/ h \in segmentos_solapados(v) \/ h \in conexion_margen_insuficiente(v)
          \/ h \in llegada_posterior_reserva(v) \/ h \in noche_sin_alojamiento(v)
          \/ h \in cambio_zona_horaria(v) \/ h \in coste_noche_sobre_politica(v)
        BY <2>1 DEF PorPersona
    <2> QED
        BY <2>2, SuCodigoYPersona
<1> QED
    BY <1>1, <1>2, SuCodigo

(* The pairs of bookings somebody is told overlap.                         *)
LEMMA LosSolapes ==
    ASSUME NEW v \in Personados
    PROVE  LET F == ConFechas(FilasDe(v)) IN
           De("segmentos_solapados", v) =
               IF "segmentos_solapados" \in ReglasActivas
               THEN {{p[1], p[2]} : p \in {q \in F \X F : Antes(q[1], q[2]) /\ SeSolapan(q[1], q[2])}}
               ELSE {}
<1> DEFINE F == ConFechas(FilasDe(v))
           P == {q \in F \X F : Antes(q[1], q[2]) /\ SeSolapan(q[1], q[2])}
           H == {g \in evaluate : g.codigo = "segmentos_solapados" /\ g.viajero = v}
<1>1. H = IF "segmentos_solapados" \in ReglasActivas THEN segmentos_solapados(v) ELSE {}
    <2>1. ASSUME NEW h \in H  PROVE h \in segmentos_solapados(v)
        BY PorSuCodigo
    <2>2. ASSUME NEW h \in segmentos_solapados(v), "segmentos_solapados" \in ReglasActivas
          PROVE  h \in H
        <3>1. h.codigo = "segmentos_solapados" /\ h.viajero = v
            BY SuCodigoYPersona
        <3>2. h \in evaluate
            BY <2>2, <3>1 DEF evaluate, PorPersona
        <3> QED
            BY <3>1, <3>2
    <2>3. "segmentos_solapados" \notin ReglasActivas => H = {}
        BY DEF evaluate
    <2> QED
        BY <2>1, <2>2, <2>3
<1>2. segmentos_solapados(v) =
        {Hallazgo("segmentos_solapados", v, {p[1], p[2]}, Numeros({p[1], p[2]}), "alta") : p \in P}
    BY DEF segmentos_solapados
<1>3. {h.sobre : h \in segmentos_solapados(v)} = {{p[1], p[2]} : p \in P}
    <2> HIDE DEF P
    <2> DEFINE dice(p) == Hallazgo("segmentos_solapados", v, {p[1], p[2]},
                                   Numeros({p[1], p[2]}), "alta")
    <2>1. \A p : dice(p).sobre = {p[1], p[2]}
        BY DEF Hallazgo
    <2>2. segmentos_solapados(v) = {dice(p) : p \in P}
        BY <1>2
    <2> HIDE DEF dice
    <2>3. ASSUME NEW h \in segmentos_solapados(v)
          PROVE  h.sobre \in {{p[1], p[2]} : p \in P}
        BY <2>1, <2>2
    <2>4. ASSUME NEW p \in P
          PROVE  {p[1], p[2]} \in {h.sobre : h \in segmentos_solapados(v)}
        <3>1. dice(p) \in segmentos_solapados(v) /\ dice(p).sobre = {p[1], p[2]}
            BY <2>1, <2>2
        <3> QED
            BY <3>1
    <2> QED
        BY <2>3, <2>4
<1>4. De("segmentos_solapados", v) = {h.sobre : h \in H}
    BY DEF De
<1> HIDE DEF H, P
<1> QED
    BY <1>1, <1>3, <1>4 DEF P

(* And those it is told are too close.                                     *)
LEMMA LasConexionesJustas ==
    ASSUME NEW v \in Personados
    PROVE  De("conexion_margen_insuficiente", v) =
               IF "conexion_margen_insuficiente" \in ReglasActivas
               THEN {{p[1], p[2]} : p \in {q \in Conexiones(v) :
                                              q[2].ini - q[1].fin < _threshold_for(q[1], q[2])}}
               ELSE {}
<1> DEFINE P == {q \in Conexiones(v) : q[2].ini - q[1].fin < _threshold_for(q[1], q[2])}
           c == "conexion_margen_insuficiente"
           H == {g \in evaluate : g.codigo = c /\ g.viajero = v}
<1>1. H = IF c \in ReglasActivas THEN conexion_margen_insuficiente(v) ELSE {}
    <2>1. ASSUME NEW h \in H  PROVE h \in conexion_margen_insuficiente(v)
        BY PorSuCodigo
    <2>2. ASSUME NEW h \in conexion_margen_insuficiente(v), c \in ReglasActivas
          PROVE  h \in H
        <3>1. h.codigo = c /\ h.viajero = v
            BY SuCodigoYPersona
        <3>2. h \in evaluate
            BY <2>2, <3>1 DEF evaluate, PorPersona
        <3> QED
            BY <3>1, <3>2
    <2>3. c \notin ReglasActivas => H = {}
        BY DEF evaluate
    <2> QED
        BY <2>1, <2>2, <2>3
<1> DEFINE sev(p) == IF p[2].ini - p[1].fin < MargenCritico THEN "critica" ELSE "alta"
<1>2. conexion_margen_insuficiente(v) =
        {Hallazgo(c, v, {p[1], p[2]}, Numeros({p[1], p[2]}), sev(p)) : p \in P}
    BY DEF conexion_margen_insuficiente
<1>3. {h.sobre : h \in conexion_margen_insuficiente(v)} = {{p[1], p[2]} : p \in P}
    <2> HIDE DEF P, sev
    <2> DEFINE dice(p) == Hallazgo(c, v, {p[1], p[2]}, Numeros({p[1], p[2]}), sev(p))
    <2>1. \A p : dice(p).sobre = {p[1], p[2]}
        BY DEF Hallazgo
    <2>2. conexion_margen_insuficiente(v) = {dice(p) : p \in P}
        BY <1>2
    <2> HIDE DEF dice
    <2>3. ASSUME NEW h \in conexion_margen_insuficiente(v)
          PROVE  h.sobre \in {{p[1], p[2]} : p \in P}
        BY <2>1, <2>2
    <2>4. ASSUME NEW p \in P
          PROVE  {p[1], p[2]} \in {h.sobre : h \in conexion_margen_insuficiente(v)}
        <3>1. dice(p) \in conexion_margen_insuficiente(v) /\ dice(p).sobre = {p[1], p[2]}
            BY <2>1, <2>2
        <3> QED
            BY <3>1
    <2> QED
        BY <2>3, <2>4
<1>4. De(c, v) = {h.sobre : h \in H}
    BY DEF De
<1> HIDE DEF H, P
<1> QED
    BY <1>1, <1>3, <1>4 DEF P

-----------------------------------------------------------------------------
(***************************************************************************)
(* What must hold of a pass, from the invariant.                           *)
(***************************************************************************)

(* The rows of somebody assigned are those addressed to them or to all.    *)
LEMMA LasSuyas == \A v \in lista : v \in Personados /\ FilasDe(v) = Suyas(v)
BY DEF Personados, FilasDe, Suyas

(* The least of two numbers.                                               *)
LEMMA ElMenorDeDos ==
    ASSUME NEW x \in Int, NEW y \in Int
    PROVE  Min({x, y}) = IF x <= y THEN x ELSE y
<1> DEFINE S == {x, y}
           m == IF x <= y THEN x ELSE y
<1>1. m \in S /\ \A k \in S : m <= k
    OBVIOUS
<1>2. Min(S) \in S /\ \A k \in S : Min(S) <= k
    BY <1>1 DEF Min
<1>3. Min(S) = m
    BY <1>1, <1>2
<1> QED
    BY <1>3

(* And the greatest.                                                       *)
LEMMA ElMayorDeDos ==
    ASSUME NEW x \in Int, NEW y \in Int
    PROVE  Max({x, y}) = IF x <= y THEN y ELSE x
<1> DEFINE S == {x, y}
           m == IF x <= y THEN y ELSE x
<1>1. m \in S /\ \A k \in S : m >= k
    OBVIOUS
<1>2. Max(S) \in S /\ \A k \in S : Max(S) >= k
    BY <1>1 DEF Max
<1>3. Max(S) = m
    BY <1>1, <1>2
<1> QED
    BY <1>3

(* To overlap by more than the tolerance is to share more hours than it.   *)
LEMMA HorasEnComun ==
    ASSUME NEW a, EsReserva(a), a \in ConFechas({a}), NEW b, EsReserva(b), b \in ConFechas({b})
    PROVE  SeSolapan(a, b) <=> EnDosSitios(a, b)
<1>1. a.ini \in Nat /\ a.fin \in Nat /\ b.ini \in Nat /\ b.fin \in Nat
    BY DEF EsReserva, ConFechas, SinFecha
<1> DEFINE i == Max({a.ini, b.ini})
           f == Min({a.fin, b.fin})
<1>2. /\ i = IF a.ini <= b.ini THEN b.ini ELSE a.ini
      /\ f = IF a.fin <= b.fin THEN a.fin ELSE b.fin
    <2>1. i = IF a.ini <= b.ini THEN b.ini ELSE a.ini
        BY <1>1, ElMayorDeDos
    <2>2. f = IF a.fin <= b.fin THEN a.fin ELSE b.fin
        BY <1>1, ElMenorDeDos
    <2> QED
        BY <2>1, <2>2
<1>3. Comunes(a, b) = f - i
    BY DEF Comunes
<1> HIDE DEF i, f
<1>4. Horas(a) \cap Horas(b) = i..(f - 1)
    BY <1>1, <1>2 DEF Horas
<1>5. Cardinality(i..(f - 1)) = IF i <= f - 1 THEN (f - 1) - i + 1 ELSE 0
    <2>1. i \in Int /\ f - 1 \in Int
        BY <1>1, <1>2
    <2>2. Cardinality(i..(f - 1)) = IF i > f - 1 THEN 0 ELSE (f - 1) - i + 1
        BY <2>1, FS_Interval
    <2> QED
        BY <2>1, <2>2
<1>6. ToleranciaSolape \in Nat
    BY UmbralesAssumption
<1>7. Comunes(a, b) > ToleranciaSolape <=> Cardinality(Horas(a) \cap Horas(b)) > ToleranciaSolape
    <2>1. i \in Int /\ f \in Int
        BY <1>1, <1>2
    <2> DEFINE d == f - i
    <2>2. d \in Int /\ (i <= f - 1 <=> d > 0) /\ (f - 1) - i + 1 = d
        BY <2>1
    <2>3. Cardinality(Horas(a) \cap Horas(b)) = IF d > 0 THEN d ELSE 0
        BY <1>4, <1>5, <2>2
    <2>4. Comunes(a, b) = d
        BY <1>3
    <2> HIDE DEF d
    <2> QED
        BY <1>6, <2>2, <2>3, <2>4
<1>8. Comunes(a, b) > ToleranciaSolape => a.ini < b.fin /\ b.ini < a.fin
    BY <1>1, <1>2, <1>3, <1>6
<1> QED
    BY <1>7, <1>8 DEF SeSolapan, EnDosSitios

(* Two bookings share the same hours whichever is looked at first.         *)
LEMMA DaIgualElOrden == \A a, b : EnDosSitios(a, b) <=> EnDosSitios(b, a)
<1> TAKE a, b
<1>1. Horas(a) \cap Horas(b) = Horas(b) \cap Horas(a)
    OBVIOUS
<1>2. Exentas(a, b) <=> Exentas(b, a)
    BY DEF Exentas
<1> QED
    BY <1>1, <1>2 DEF EnDosSitios

(* Being in two places is told of exactly the pairs that share hours.      *)
LEMMA LosSolapesSonJustos == InvReglas => SolapesJustos
<1> SUFFICES ASSUME InvReglas, "segmentos_solapados" \in ReglasActivas, NEW v \in lista
             PROVE  De("segmentos_solapados", v) =
                      {{p[1], p[2]} : p \in {q \in ConFechas(Suyas(v)) \X ConFechas(Suyas(v)) :
                                                 q[1] # q[2] /\ EnDosSitios(q[1], q[2])}}
    BY DEF SolapesJustos
<1> DEFINE F == ConFechas(Suyas(v))
           P == {q \in F \X F : Antes(q[1], q[2]) /\ SeSolapan(q[1], q[2])}
           Q == {q \in F \X F : q[1] # q[2] /\ EnDosSitios(q[1], q[2])}
<1>1. De("segmentos_solapados", v) = {{p[1], p[2]} : p \in P}
    BY LasSuyas, LosSolapes
<1>2. SonFilas(reservas)
    BY DEF InvReglas, InvItinerario
<1>3. \A f \in F : f \in reservas /\ EsReserva(f) /\ f \in ConFechas({f})
    BY <1>2 DEF ConFechas, Suyas, SonFilas
<1> HIDE DEF F
<1>4. ASSUME NEW p \in P  PROVE {p[1], p[2]} \in {{q[1], q[2]} : q \in Q}
    <2>1. p[1] # p[2]
        BY <1>2, <1>3, UnoAntes
    <2>2. EnDosSitios(p[1], p[2])
        BY <1>3, HorasEnComun
    <2>3. p \in Q
        BY <2>1, <2>2
    <2> QED
        BY <2>3
<1>5. ASSUME NEW q \in Q  PROVE {q[1], q[2]} \in {{p[1], p[2]} : p \in P}
    <2>1. Antes(q[1], q[2]) \/ Antes(q[2], q[1])
        BY <1>2, <1>3, UnoAntes
    <2>2. CASE Antes(q[1], q[2])
        <3>1. SeSolapan(q[1], q[2])
            BY <1>3, HorasEnComun
        <3>2. q \in P
            BY <2>2, <3>1
        <3> QED
            BY <3>2
    <2>3. CASE Antes(q[2], q[1])
        <3>1. SeSolapan(q[2], q[1])
            BY <1>3, HorasEnComun, DaIgualElOrden
        <3>2. <<q[2], q[1]>> \in P
            BY <2>3, <3>1
        <3>3. {q[1], q[2]} = {<<q[2], q[1]>>[1], <<q[2], q[1]>>[2]}
            OBVIOUS
        <3> QED
            BY <3>2, <3>3
    <2> QED
        BY <2>1, <2>2, <2>3
<1> HIDE DEF P, Q
<1>6. {{p[1], p[2]} : p \in P} = {{q[1], q[2]} : q \in Q}
    BY <1>4, <1>5
<1> QED
    BY <1>1, <1>6 DEF Q, F

(* The pairs the connection rule judges are rows of somebody's, in order,  *)
(* the second no sooner than the first ends.                               *)
LEMMA LasParejas ==
    ASSUME SonFilas(reservas), NEW v, NEW p \in Conexiones(v)
    PROVE  /\ p[1] \in ConFechas(FilasDe(v)) /\ p[2] \in ConFechas(FilasDe(v))
           /\ p[1] \in reservas /\ p[2] \in reservas
           /\ Antes(p[1], p[2]) /\ p[2].ini >= p[1].fin
<1> DEFINE F == {f \in ConFechas(DeClase(FilasDe(v), "segmento")) :
                    f.tipo \in CONNECTABLE_SEGMENT_TYPES}
<1>1. F \subseteq ConFechas(FilasDe(v)) /\ F \subseteq reservas
    BY DEF ConFechas, DeClase, FilasDe
<1>2. p \in build_timeline(F) /\ es_conexion(p[2].ini - p[1].fin)
    BY DEF Conexiones
<1> HIDE DEF F
<1>3. p \in F \X F /\ Antes(p[1], p[2])
    BY <1>2 DEF build_timeline
<1>4. p[1] \in F /\ p[2] \in F
    BY <1>3
<1>5. EsReserva(p[1]) /\ EsReserva(p[2])
    BY <1>1, <1>4 DEF SonFilas
<1>6. p[2].ini \in Int /\ p[1].fin \in Int
    BY <1>5 DEF EsReserva, SinHora
<1>7. p[2].ini - p[1].fin >= 0
    BY <1>2 DEF es_conexion
<1> QED
    BY <1>1, <1>3, <1>4, <1>6, <1>7

(* No pair is told both to overlap and to be too close.                    *)
LEMMA NuncaSonLasDos == InvReglas => NuncaLasDos
<1> SUFFICES ASSUME InvReglas, NEW v \in Personados,
                    NEW s \in De("segmentos_solapados", v),
                    s \in De("conexion_margen_insuficiente", v)
             PROVE  FALSE
    BY DEF NuncaLasDos
<1>1. SonFilas(reservas)
    BY DEF InvReglas, InvItinerario
<1> DEFINE F == ConFechas(FilasDe(v))
           P == {q \in F \X F : Antes(q[1], q[2]) /\ SeSolapan(q[1], q[2])}
<1>2. F \subseteq reservas
    BY DEF ConFechas, FilasDe
<1> HIDE DEF F
<1>3. PICK p \in P : s = {p[1], p[2]}
    <2>1. s \in {{p[1], p[2]} : p \in P}
        BY LosSolapes DEF F
    <2> QED
        BY <2>1
<1>4. PICK c \in Conexiones(v) : s = {c[1], c[2]}
    <2>1. s \in {{e[1], e[2]} : e \in {q \in Conexiones(v) :
                                   q[2].ini - q[1].fin < _threshold_for(q[1], q[2])}}
        BY LasConexionesJustas
    <2> QED
        BY <2>1
<1>5. /\ p[1] \in reservas /\ p[2] \in reservas /\ Antes(p[1], p[2])
      /\ p[2].ini < p[1].fin
    BY <1>2, <1>3 DEF SeSolapan
<1>6. c[1] \in reservas /\ c[2] \in reservas /\ Antes(c[1], c[2]) /\ c[2].ini >= c[1].fin
    BY <1>1, LasParejas
<1>7. (c[1] = p[1] /\ c[2] = p[2]) \/ (c[1] = p[2] /\ c[2] = p[1]) \/ c[1] = c[2] \/ p[1] = p[2]
    BY <1>3, <1>4
<1>8. c[1] = p[1] /\ c[2] = p[2]
    BY <1>1, <1>5, <1>6, <1>7, UnoAntes
<1>9. p[2].ini \in Int /\ p[1].fin \in Int
    <2>1. EsReserva(p[1]) /\ EsReserva(p[2])
        BY <1>1, <1>5 DEF SonFilas
    <2> QED
        BY <2>1 DEF EsReserva, SinHora
<1> QED
    BY <1>5, <1>6, <1>8, <1>9

(* No threshold is below the least.                                        *)
LEMMA ElUmbralMenor ==
    ASSUME NEW a, NEW b
    PROVE  UmbralMenor \in Nat /\ _threshold_for(a, b) \in Nat /\ UmbralMenor <= _threshold_for(a, b)
<1> DEFINE S == {UmbralTraslado, UmbralSchengen, UmbralInternacional}
<1>1. S \in SUBSET Nat /\ S # {}
    BY UmbralesAssumption
<1>2. ExtraAeropuerto \in Nat /\ ExtraTerminal \in Nat
    BY UmbralesAssumption
<1>3. PICK m \in S : \A k \in S : m <= k
    <2> HIDE DEF S
    <2> QED
        BY <1>1, HayMenor
<1>4. UmbralMenor \in S /\ \A k \in S : UmbralMenor <= k
    BY <1>3 DEF UmbralMenor, Min
<1> DEFINE P == {PaisSalida(a), PaisLlegada(a), PaisLlegada(b)}
           e == CASE ~mismo_lugar(a, b) -> ExtraAeropuerto
             [] mismo_lugar(a, b) /\ a.termH # SinDato /\ b.termD # SinDato
                   /\ a.termH # b.termD -> ExtraTerminal
             [] OTHER -> 0
<1>5. e \in Nat
    BY <1>2
<1>6. UmbralBase(P) \in S
    BY DEF UmbralBase
<1>7. _threshold_for(a, b) = IF "traslado" \in {a.tipo, b.tipo} THEN UmbralTraslado
                             ELSE UmbralBase(P) + e
    BY DEF _threshold_for
<1> HIDE DEF P, e
<1>8. CASE "traslado" \in {a.tipo, b.tipo}
    BY <1>1, <1>4, <1>7, <1>8
<1>9. CASE "traslado" \notin {a.tipo, b.tipo}
    <2>1. UmbralBase(P) \in Nat /\ UmbralMenor <= UmbralBase(P)
        BY <1>1, <1>4, <1>6
    <2>2. _threshold_for(a, b) = UmbralBase(P) + e
        BY <1>7, <1>9
    <2>3. UmbralMenor \in Nat
        BY <1>1, <1>4
    <2> QED
        BY <1>5, <2>1, <2>2, <2>3
<1> QED
    BY <1>8, <1>9

(* A change too short for anybody is told, of one pair or of another.      *)
LEMMA ElApuroSeDice == InvReglas => NingunApuroSeCalla
<1> SUFFICES ASSUME InvReglas,
                    {"segmentos_solapados", "conexion_margen_insuficiente"} \subseteq ReglasActivas,
                    ToleranciaSolape = 0, NEW v \in lista,
                    BienLeidos(Enlazables(DeClase(Suyas(v), "segmento"))),
                    NEW a \in Enlazables(DeClase(Suyas(v), "segmento")),
                    NEW b \in Enlazables(DeClase(Suyas(v), "segmento")),
                    b.ini - a.fin \in 0..(UmbralMenor - 1), es_conexion(b.ini - a.fin)
             PROVE  \E s \in De("segmentos_solapados", v)
                               \cup De("conexion_margen_insuficiente", v) : a \in s
    BY DEF NingunApuroSeCalla
<1> DEFINE T == Enlazables(DeClase(Suyas(v), "segmento"))
<1>1. SonFilas(reservas)
    BY DEF InvReglas, InvItinerario
<1>2. T \subseteq reservas /\ \A f \in T : f.kind = "segmento" /\ f.tipo \in CONNECTABLE_SEGMENT_TYPES
    BY DEF Enlazables, DeClase, Suyas
<1>3. \A f \in T : f \in ConFechas(T) /\ f.ini < f.fin
    BY DEF BienLeidos
<1>4. T = {f \in ConFechas(DeClase(FilasDe(v), "segmento")) : f.tipo \in CONNECTABLE_SEGMENT_TYPES}
    BY <1>3, LasSuyas DEF Enlazables, ConFechas
<1>5. T \subseteq ConFechas(FilasDe(v))
    BY <1>4 DEF ConFechas, DeClase
<1>14. a \in T /\ b \in T
    OBVIOUS
<1> HIDE DEF T
<1>6. SonFilas(T)
    BY <1>1, <1>2, FS_Subset DEF SonFilas
<1>7. \A f \in T : f.ini \in Nat /\ f.fin \in Nat /\ ~SinFecha(f)
    BY <1>3, <1>6 DEF SonFilas, EsReserva, ConFechas, SinFecha
<1>8. UmbralMenor \in Nat /\ HorasDelDia \in Nat
    BY ElUmbralMenor, HorasAssumption
<1>9. a.fin <= b.ini /\ b.ini - a.fin < UmbralMenor /\ b.ini - a.fin <= HorasDelDia
    BY <1>7, <1>8, <1>14 DEF es_conexion
<1>10. Antes(a, b)
    BY <1>3, <1>7, <1>9, <1>14 DEF Antes
<1>11. PICK d \in T : <<a, d>> \in build_timeline(T) /\ (d = b \/ Antes(d, b))
    BY <1>6, <1>7, <1>10, <1>14, LaSiguiente
<1>12. d.ini <= b.ini /\ Antes(a, d)
    <2>1. Antes(a, d)
        BY <1>11 DEF build_timeline
    <2> QED
        BY <1>7, <1>11, <1>14, <2>1 DEF Antes
<1>15. a.ini \in Nat /\ a.fin \in Nat /\ d.ini \in Nat /\ d.fin \in Nat /\ b.ini \in Nat
       /\ a.ini < a.fin /\ d.ini < d.fin
    BY <1>3, <1>7, <1>11, <1>14
<1>13. CASE d.ini >= a.fin
    <2>1. d.ini - a.fin < UmbralMenor /\ es_conexion(d.ini - a.fin)
        BY <1>8, <1>9, <1>12, <1>13, <1>15 DEF es_conexion
    <2>2. <<a, d>> \in Conexiones(v)
        BY <1>4, <1>11, <2>1 DEF Conexiones
    <2>3. d.ini - a.fin < _threshold_for(a, d)
        BY <1>15, <2>1, ElUmbralMenor
    <2>4. {a, d} \in De("conexion_margen_insuficiente", v)
        <3> DEFINE C == {q \in Conexiones(v) : q[2].ini - q[1].fin < _threshold_for(q[1], q[2])}
        <3>1. <<a, d>> \in C
            BY <2>2, <2>3
        <3>2. De("conexion_margen_insuficiente", v) = {{p[1], p[2]} : p \in C}
            BY LasSuyas, LasConexionesJustas
        <3>3. {a, d} = {<<a, d>>[1], <<a, d>>[2]}
            OBVIOUS
        <3> HIDE DEF C
        <3> QED
            BY <3>1, <3>2, <3>3
    <2> QED
        BY <2>4
<1>16. CASE ~(d.ini >= a.fin)
    <2>1. a.ini <= d.ini
        BY <1>7, <1>11, <1>12, <1>14 DEF Antes
    <2>2. Comunes(a, d) = (IF a.fin <= d.fin THEN a.fin ELSE d.fin) - d.ini
        <3>1. Max({a.ini, d.ini}) = d.ini
            BY <1>15, <2>1, ElMayorDeDos
        <3>2. Min({a.fin, d.fin}) = IF a.fin <= d.fin THEN a.fin ELSE d.fin
            BY <1>15, ElMenorDeDos
        <3> QED
            BY <3>1, <3>2 DEF Comunes
    <2>3. ~Exentas(a, d)
        BY <1>2, <1>11, <1>14 DEF Exentas
    <2>4. Comunes(a, d) > 0 /\ a.ini < d.fin /\ d.ini < a.fin
        BY <1>15, <1>16, <2>1, <2>2
    <2>5. SeSolapan(a, d)
        BY <2>3, <2>4 DEF SeSolapan
    <2>6. {a, d} \in De("segmentos_solapados", v)
        <3> DEFINE F == ConFechas(FilasDe(v))
                   C == {q \in F \X F : Antes(q[1], q[2]) /\ SeSolapan(q[1], q[2])}
        <3>1. <<a, d>> \in C
            BY <1>5, <1>11, <1>12, <1>14, <2>5
        <3>2. De("segmentos_solapados", v) = {{p[1], p[2]} : p \in C}
            BY LasSuyas, LosSolapes
        <3>3. {a, d} = {<<a, d>>[1], <<a, d>>[2]}
            OBVIOUS
        <3> HIDE DEF C
        <3> QED
            BY <3>1, <3>2, <3>3
    <2> QED
        BY <2>6
<1> QED
    BY <1>13, <1>16

(* Where nobody shares a leg and the rule looks at all of them, it judges  *)
(* the pairs the timeline shows.                                           *)
LEMMA SonLasMismas == InvReglas => MismasConexiones
<1> SUFFICES ASSUME InvReglas, NEW v \in lista,
                    BienLeidos(DeClase(Suyas(v), "segmento")),
                    DeClase(Suyas(v), "segmento") = Enlazables(DeClase(Suyas(v), "segmento")),
                    Suyas(v) = {f \in reservas : f.dueno = v}
             PROVE  LasMismas(v)
    BY DEF MismasConexiones
<1> DEFINE T == DeClase(Suyas(v), "segmento")
           U(w) == {f \in DeClase(reservas, "segmento") : f.dueno = w /\ f.fin # SinHora}
           E(w) == {p \in build_timeline(U(w)) : p[2].ini # SinHora /\ es_conexion(p[2].ini - p[1].fin)}
<1>1. T = {f \in ConFechas(DeClase(FilasDe(v), "segmento")) : f.tipo \in CONNECTABLE_SEGMENT_TYPES}
    BY LasSuyas DEF BienLeidos, Enlazables, ConFechas
<1>2. T = U(v) /\ \A f \in T : f.ini # SinHora /\ f.dueno = v
    BY DEF BienLeidos, ConFechas, DeClase, SinFecha
<1>3. Conexiones(v) = {p \in build_timeline(T) : es_conexion(p[2].ini - p[1].fin)}
    BY <1>1 DEF Conexiones
<1>4. find_connections(reservas) = UNION {E(w) : w \in {f.dueno : f \in reservas}}
    BY DEF find_connections
<1>5. \A w : \A f \in U(w) : f.dueno = w /\ f \in reservas
    BY DEF DeClase
<1> HIDE DEF T, U
<1>6. \A F : \A p \in build_timeline(F) : p[1] \in F /\ p[2] \in F
    BY DEF build_timeline
<1>7. ASSUME NEW p \in Conexiones(v)
      PROVE  p \in find_connections(reservas) /\ p[1].dueno = v
    <2>1. p \in build_timeline(U(v)) /\ es_conexion(p[2].ini - p[1].fin)
        BY <1>2, <1>3
    <2>2. p[1] \in U(v) /\ p[2] \in U(v)
        BY <1>6, <2>1
    <2>3. p[2].ini # SinHora /\ p[1].dueno = v /\ p[1] \in reservas
        BY <1>2, <1>5, <2>2
    <2>4. p \in E(v) /\ v \in {f.dueno : f \in reservas}
        BY <2>1, <2>3
    <2> QED
        BY <1>4, <2>3, <2>4
<1>8. ASSUME NEW p \in find_connections(reservas), p[1].dueno = v
      PROVE  p \in Conexiones(v)
    <2>1. PICK w : p \in E(w)
        BY <1>4
    <2>2. p \in build_timeline(U(w)) /\ es_conexion(p[2].ini - p[1].fin)
        BY <2>1
    <2>3. w = v
        BY <1>5, <1>6, <1>8, <2>2
    <2> QED
        BY <1>2, <1>3, <2>2, <2>3
<1> QED
    BY <1>7, <1>8 DEF LasMismas

-----------------------------------------------------------------------------
(***************************************************************************)
(* The keys of the findings of a pass.                                     *)
(***************************************************************************)

(* Rows are known by their numbers.                                        *)
LEMMA MismosNumeros ==
    ASSUME NEW F, SonFilas(F), NEW S \in SUBSET F, NEW T \in SUBSET F, Numeros(S) = Numeros(T)
    PROVE  S = T
<1>1. ASSUME NEW A \in SUBSET F, NEW B \in SUBSET F, Numeros(A) = Numeros(B), NEW f \in A
      PROVE  f \in B
    <2>1. <<"fila", f.n>> \in Numeros(B)
        BY <1>1 DEF Numeros
    <2>2. PICK g \in B : <<"fila", f.n>> = <<"fila", g.n>>
        BY <2>1 DEF Numeros
    <2>3. f.n = g.n
        BY <2>2
    <2> QED
        BY <1>1, <2>3 DEF SonFilas
<1> QED
    BY <1>1

(* A finding named by the numbers of the rows it is about.                 *)
DeSusFilas(c, s, h) ==
    /\ h = Hallazgo(c, h.viajero, h.sobre, Numeros(h.sobre), s)
    /\ h.sobre \subseteq reservas

(* So are those of four of the rules.                                      *)
LEMMA SonDeSusFilas ==
    ASSUME NEW v
    PROVE  /\ \A h \in segmentos_solapados(v) : DeSusFilas("segmentos_solapados", "alta", h)
           /\ \A h \in llegada_posterior_reserva(v) :
                 DeSusFilas("llegada_posterior_reserva", "media", h)
           /\ \A h \in cambio_zona_horaria(v) :
                 DeSusFilas("cambio_zona_horaria", "informativa", h)
           /\ \A h \in sin_documento_soporte :
                 DeSusFilas("sin_documento_soporte", "informativa", h)
<1>1. FilasDe(v) \subseteq reservas
    BY DEF FilasDe
<1>2. ASSUME NEW c, NEW w, NEW S \in SUBSET reservas, NEW s
      PROVE  DeSusFilas(c, s, Hallazgo(c, w, S, Numeros(S), s))
    BY DEF DeSusFilas, Hallazgo
<1>3. ASSUME NEW h \in segmentos_solapados(v)
      PROVE  DeSusFilas("segmentos_solapados", "alta", h)
    <2>1. \E p \in ConFechas(FilasDe(v)) \X ConFechas(FilasDe(v)) :
             h = Hallazgo("segmentos_solapados", v, {p[1], p[2]}, Numeros({p[1], p[2]}), "alta")
        BY DEF segmentos_solapados
    <2>2. ConFechas(FilasDe(v)) \subseteq reservas
        BY <1>1 DEF ConFechas
    <2>3. PICK a \in reservas, b \in reservas :
             h = Hallazgo("segmentos_solapados", v, {a, b}, Numeros({a, b}), "alta")
        BY <2>1, <2>2
    <2> QED
        BY <1>2, <2>3
<1>4. ASSUME NEW h \in llegada_posterior_reserva(v)
      PROVE  DeSusFilas("llegada_posterior_reserva", "media", h)
    <2>1. \E p \in FilasDe(v) \X FilasDe(v) :
             h = Hallazgo("llegada_posterior_reserva", v, {p[1], p[2]}, Numeros({p[1], p[2]}), "media")
        BY DEF llegada_posterior_reserva
    <2>3. PICK a \in reservas, b \in reservas :
             h = Hallazgo("llegada_posterior_reserva", v, {a, b}, Numeros({a, b}), "media")
        BY <1>1, <2>1
    <2> QED
        BY <1>2, <2>3
<1>5. ASSUME NEW h \in cambio_zona_horaria(v)
      PROVE  DeSusFilas("cambio_zona_horaria", "informativa", h)
    <2>1. PICK f \in DeClase(FilasDe(v), "segmento") :
             h = Hallazgo("cambio_zona_horaria", v, {f}, Numeros({f}), "informativa")
        BY DEF cambio_zona_horaria
    <2>2. f \in reservas
        BY <1>1 DEF DeClase
    <2> QED
        BY <1>2, <2>1, <2>2
<1>6. ASSUME NEW h \in sin_documento_soporte
      PROVE  DeSusFilas("sin_documento_soporte", "informativa", h)
    <2>1. PICK f \in reservas :
             h = Hallazgo("sin_documento_soporte", f.dueno, {f}, Numeros({f}), "informativa")
        BY DEF sin_documento_soporte
    <2> QED
        BY <1>2, <2>1
<1> QED
    BY <1>3, <1>4, <1>5, <1>6

(* Two such findings with one key are the same.                            *)
LEMMA UnaClaveUnasFilas ==
    ASSUME SonFilas(reservas), NEW c, NEW s, NEW h, DeSusFilas(c, s, h), NEW g, DeSusFilas(c, s, g),
           h.viajero = g.viajero, h.entidades = g.entidades
    PROVE  h = g
<1>1. Numeros(h.sobre) = h.entidades /\ Numeros(g.sobre) = g.entidades
    BY DEF DeSusFilas, Hallazgo
<1>2. h.sobre = g.sobre
    BY <1>1, MismosNumeros DEF DeSusFilas
<1> QED
    BY <1>2 DEF DeSusFilas

(* Two connections of somebody's with one key are one pair.                *)
LEMMA UnaClaveUnaConexion ==
    ASSUME SonFilas(reservas), NEW v, NEW h \in conexion_margen_insuficiente(v),
           NEW g \in conexion_margen_insuficiente(v), h.entidades = g.entidades
    PROVE  h = g
<1> DEFINE c == "conexion_margen_insuficiente"
           sev(p) == IF p[2].ini - p[1].fin < MargenCritico THEN "critica" ELSE "alta"
           dice(p) == Hallazgo(c, v, {p[1], p[2]}, Numeros({p[1], p[2]}), sev(p))
<1>1. \A x \in conexion_margen_insuficiente(v) : \E p \in Conexiones(v) : x = dice(p)
    BY DEF conexion_margen_insuficiente
<1>2. \A p : dice(p).entidades = Numeros({p[1], p[2]})
    BY DEF Hallazgo
<1> HIDE DEF dice
<1>3. PICK p \in Conexiones(v), q \in Conexiones(v) : h = dice(p) /\ g = dice(q)
    BY <1>1
<1>4. /\ p[1] \in reservas /\ p[2] \in reservas /\ Antes(p[1], p[2])
      /\ q[1] \in reservas /\ q[2] \in reservas /\ Antes(q[1], q[2])
    BY LasParejas
<1>5. {p[1], p[2]} = {q[1], q[2]}
    <2>1. Numeros({p[1], p[2]}) = Numeros({q[1], q[2]})
        BY <1>2, <1>3
    <2> QED
        BY <1>4, <2>1, MismosNumeros
<1>6. p[1] = q[1] /\ p[2] = q[2]
    <2>1. p[1] # p[2] /\ q[1] # q[2]
        BY <1>4, UnoAntes
    <2>3. p[1] \in {q[1], q[2]} /\ p[2] \in {q[1], q[2]}
        BY <1>5
    <2>2. (p[1] = q[1] /\ p[2] = q[2]) \/ (p[1] = q[2] /\ p[2] = q[1])
        BY <2>1, <2>3
    <2> QED
        BY <1>4, <2>2, UnoAntes
<1>7. p = q
    BY <1>6 DEF Conexiones, build_timeline
<1> QED
    BY <1>3, <1>7

(* So are two of the findings about what is missing.                       *)
LEMMA UnaClaveUnaFalta ==
    ASSUME SonFilas(reservas), NEW h \in datos_incompletos, NEW g \in datos_incompletos,
           h.viajero = g.viajero, h.entidades = g.entidades
    PROVE  h = g
<1> DEFINE c == "datos_incompletos"
           Del(x) == Hallazgo(c, Todos, {}, {<<"viaje", x>>}, "informativa")
<1>1. ASSUME NEW x \in datos_incompletos
      PROVE  \/ DeSusFilas(c, "informativa", x) /\ x.sobre # {}
             \/ x = Del("todo") \/ x = Del("fechas")
    <2>1. \/ \E f \in reservas : x = Hallazgo(c, f.dueno, {f}, Numeros({f}), "informativa")
          \/ x = Del("todo") \/ x = Del("fechas")
        BY DEF datos_incompletos
    <2>2. ASSUME NEW f \in reservas, x = Hallazgo(c, f.dueno, {f}, Numeros({f}), "informativa")
          PROVE  DeSusFilas(c, "informativa", x) /\ x.sobre # {}
        BY <2>2 DEF DeSusFilas, Hallazgo
    <2> HIDE DEF Del
    <2> QED
        BY <2>1, <2>2
<1>2. ASSUME NEW x, DeSusFilas(c, "informativa", x), x.sobre # {}, NEW y
      PROVE  x.entidades # Del(y).entidades
    <2>1. Del(y).entidades = {<<"viaje", y>>} /\ x.entidades = Numeros(x.sobre)
        BY <1>2 DEF Hallazgo, DeSusFilas
    <2>2. PICK f \in x.sobre : TRUE
        BY <1>2
    <2>3. <<"fila", f.n>> \in x.entidades
        BY <2>1, <2>2 DEF Numeros
    <2>4. <<"fila", f.n>> # <<"viaje", y>>
        OBVIOUS
    <2> HIDE DEF Del
    <2> QED
        BY <2>1, <2>3, <2>4
<1>3. Del("todo").entidades # Del("fechas").entidades
    <2>1. Del("todo").entidades = {<<"viaje", "todo">>} /\ Del("fechas").entidades = {<<"viaje", "fechas">>}
        BY DEF Hallazgo
    <2>2. <<"viaje", "todo">> # <<"viaje", "fechas">>
        OBVIOUS
    <2> HIDE DEF Del
    <2> QED
        BY <2>1, <2>2
<1> HIDE DEF Del, c
<1>4. CASE DeSusFilas(c, "informativa", h) /\ h.sobre # {}
    <2>1. DeSusFilas(c, "informativa", g)
        BY <1>1, <1>2, <1>4
    <2> QED
        BY <1>4, <2>1, UnaClaveUnasFilas
<1>5. CASE h = Del("todo") \/ h = Del("fechas")
    <2>1. g = Del("todo") \/ g = Del("fechas")
        BY <1>1, <1>2, <1>5
    <2> QED
        BY <1>3, <1>5, <2>1
<1> QED
    BY <1>1, <1>4, <1>5

(* And of those about the boarding passes.                                 *)
LEMMA UnaClaveUnVuelo ==
    ASSUME SonFilas(reservas), NEW h \in sin_tarjeta_de_embarque,
           NEW g \in sin_tarjeta_de_embarque, h.entidades = g.entidades
    PROVE  h = g
<1> DEFINE sev(f) == IF 4 * (f.ini - reloj) <= HorasDelDia THEN "alta" ELSE "media"
           dice(f) == Hallazgo("sin_tarjeta_de_embarque", f.dueno, {f}, Numeros({f}), sev(f))
<1>1. \A x \in sin_tarjeta_de_embarque : \E f \in reservas : x = dice(f)
    BY DEF sin_tarjeta_de_embarque
<1>2. \A f : dice(f).entidades = Numeros({f})
    BY DEF Hallazgo
<1> HIDE DEF dice
<1>3. PICK a \in reservas, b \in reservas : h = dice(a) /\ g = dice(b)
    BY <1>1
<1>4. {a} = {b}
    <2>1. Numeros({a}) = Numeros({b})
        BY <1>2, <1>3
    <2> QED
        BY <2>1, MismosNumeros
<1> QED
    BY <1>3, <1>4

(* And of those about a passport.                                          *)
LEMMA UnaClaveUnPasaporte ==
    ASSUME NEW h \in documento_viajero_por_caducar, NEW g \in documento_viajero_por_caducar,
           h.viajero = g.viajero
    PROVE  h = g
<1> DEFINE margen(v) == Caducidad[v] - local_date(ventana.fin, ventana.zonaFin)
           sev(v) == CASE margen(v) < 0 -> "critica"
                       [] margen(v) \in 0..(DiasExigidos - 1) -> "alta"
                       [] OTHER -> "informativa"
           dice(v) == Hallazgo("documento_viajero_por_caducar", v, {}, {<<"persona", v>>}, sev(v))
<1>1. \A x \in documento_viajero_por_caducar : \E v : x = dice(v)
    BY DEF documento_viajero_por_caducar
<1>2. \A v : dice(v).viajero = v
    BY DEF Hallazgo
<1> HIDE DEF dice
<1> QED
    BY <1>1, <1>2

(* The rest find one thing at most, or are known by a name.                *)
LEMMA UnaClaveUnaCosa ==
    ASSUME NEW v
    PROVE  /\ \A h, g \in noche_sin_alojamiento(v) : h = g
           /\ \A h, g \in coste_sobre_politica : h = g
           /\ \A h, g \in reserva_con_poca_antelacion : h = g
           /\ \A h, g \in coste_noche_sobre_politica(v) : h.entidades = g.entidades =>
                 {f.nombre : f \in h.sobre} = {f.nombre : f \in g.sobre}
<1>1. ASSUME NEW h \in noche_sin_alojamiento(v), NEW g \in noche_sin_alojamiento(v)  PROVE h = g
    <2> DEFINE dice(n) == Hallazgo("noche_sin_alojamiento", v, {}, {<<"noches", Min(n)>>}, "media")
    <2>1. \A x \in noche_sin_alojamiento(v) : x = dice(_uncovered_nights(v))
        <3> TAKE x \in noche_sin_alojamiento(v)
        <3>1. PICK n \in {_uncovered_nights(v)} \ {{}} : x = dice(n)
            BY DEF noche_sin_alojamiento
        <3> QED
            BY <3>1
    <2> HIDE DEF dice
    <2> QED
        BY <2>1
<1>2. \A h, g \in coste_sobre_politica : h = g
    BY DEF coste_sobre_politica
<1>3. \A h, g \in reserva_con_poca_antelacion : h = g
    BY DEF reserva_con_poca_antelacion
<1>4. ASSUME NEW h \in coste_noche_sobre_politica(v), NEW g \in coste_noche_sobre_politica(v),
             h.entidades = g.entidades
      PROVE  {f.nombre : f \in h.sobre} = {f.nombre : f \in g.sobre}
    <2> DEFINE dice(f) == Hallazgo("coste_noche_sobre_politica", v, {f}, {<<"nombre", f.nombre>>}, "media")
    <2>1. \A x \in coste_noche_sobre_politica(v) : \E f : x = dice(f)
        BY DEF coste_noche_sobre_politica
    <2>2. \A f : dice(f).sobre = {f} /\ dice(f).entidades = {<<"nombre", f.nombre>>}
        BY DEF Hallazgo
    <2> HIDE DEF dice
    <2>3. PICK a, b : h = dice(a) /\ g = dice(b)
        BY <2>1
    <2>4. {<<"nombre", a.nombre>>} = {<<"nombre", b.nombre>>}
        BY <1>4, <2>2, <2>3
    <2>5. a.nombre = b.nombre
        <3>1. <<"nombre", a.nombre>> = <<"nombre", b.nombre>>
            BY <2>4
        <3> QED
            BY <3>1
    <2>6. h.sobre = {a} /\ g.sobre = {b}
        BY <2>2, <2>3
    <2> QED
        BY <2>5, <2>6
<1> QED
    BY <1>1, <1>2, <1>3, <1>4

(* Two findings of a pass have two keys, but for two stays of one name.    *)
LEMMA LasClavesSonDistintas == InvReglas => ClavesDistintas
<1> SUFFICES ASSUME InvReglas, NEW h \in evaluate, NEW g \in evaluate, dedup_key(h) = dedup_key(g)
             PROVE  h = g \/ (/\ h.codigo = "coste_noche_sobre_politica"
                              /\ {f.nombre : f \in h.sobre} = {f.nombre : f \in g.sobre})
    BY DEF ClavesDistintas
<1> DEFINE v == h.viajero
<1>1. SonFilas(reservas)
    BY DEF InvReglas, InvItinerario
<1>2. h.codigo = g.codigo /\ g.viajero = v /\ h.entidades = g.entidades
    BY DEF dedup_key
<1> HIDE DEF v
<1>3. CASE h.codigo = "segmentos_solapados"
    <2>1. h \in segmentos_solapados(v) /\ g \in segmentos_solapados(v)
        BY <1>2, <1>3, PorSuCodigo DEF v
    <2> QED
        BY <1>1, <1>2, <2>1, SonDeSusFilas, UnaClaveUnasFilas DEF v
<1>4. CASE h.codigo = "conexion_margen_insuficiente"
    <2>1. h \in conexion_margen_insuficiente(v) /\ g \in conexion_margen_insuficiente(v)
        BY <1>2, <1>4, PorSuCodigo DEF v
    <2> QED
        BY <1>1, <1>2, <2>1, UnaClaveUnaConexion
<1>5. CASE h.codigo = "llegada_posterior_reserva"
    <2>1. h \in llegada_posterior_reserva(v) /\ g \in llegada_posterior_reserva(v)
        BY <1>2, <1>5, PorSuCodigo DEF v
    <2> QED
        BY <1>1, <1>2, <2>1, SonDeSusFilas, UnaClaveUnasFilas DEF v
<1>6. CASE h.codigo = "noche_sin_alojamiento"
    <2>1. h \in noche_sin_alojamiento(v) /\ g \in noche_sin_alojamiento(v)
        BY <1>2, <1>6, PorSuCodigo DEF v
    <2> QED
        BY <2>1, UnaClaveUnaCosa
<1>7. CASE h.codigo = "cambio_zona_horaria"
    <2>1. h \in cambio_zona_horaria(v) /\ g \in cambio_zona_horaria(v)
        BY <1>2, <1>7, PorSuCodigo DEF v
    <2> QED
        BY <1>1, <1>2, <2>1, SonDeSusFilas, UnaClaveUnasFilas DEF v
<1>8. CASE h.codigo = "coste_noche_sobre_politica"
    <2>1. h \in coste_noche_sobre_politica(v) /\ g \in coste_noche_sobre_politica(v)
        BY <1>2, <1>8, PorSuCodigo DEF v
    <2> QED
        BY <1>2, <1>8, <2>1, UnaClaveUnaCosa
<1>9. CASE h.codigo = "sin_tarjeta_de_embarque"
    <2>1. h \in sin_tarjeta_de_embarque /\ g \in sin_tarjeta_de_embarque
        BY <1>2, <1>9, PorSuCodigo
    <2> QED
        BY <1>1, <1>2, <2>1, UnaClaveUnVuelo
<1>10. CASE h.codigo = "documento_viajero_por_caducar"
    <2>1. h \in documento_viajero_por_caducar /\ g \in documento_viajero_por_caducar
        BY <1>2, <1>10, PorSuCodigo
    <2> QED
        BY <1>2, <2>1, UnaClaveUnPasaporte DEF v
<1>11. CASE h.codigo = "datos_incompletos"
    <2>1. h \in datos_incompletos /\ g \in datos_incompletos
        BY <1>2, <1>11, PorSuCodigo
    <2> QED
        BY <1>1, <1>2, <2>1, UnaClaveUnaFalta DEF v
<1>12. CASE h.codigo = "sin_documento_soporte"
    <2>1. h \in sin_documento_soporte /\ g \in sin_documento_soporte
        BY <1>2, <1>12, PorSuCodigo
    <2> QED
        BY <1>1, <1>2, <2>1, SonDeSusFilas, UnaClaveUnasFilas DEF v
<1>13. CASE h.codigo = "coste_sobre_politica"
    <2>1. h \in coste_sobre_politica /\ g \in coste_sobre_politica
        BY <1>2, <1>13, PorSuCodigo
    <2> QED
        BY <2>1, UnaClaveUnaCosa
<1>14. CASE h.codigo = "reserva_con_poca_antelacion"
    <2>1. h \in reserva_con_poca_antelacion /\ g \in reserva_con_poca_antelacion
        BY <1>2, <1>14, PorSuCodigo
    <2> QED
        BY <2>1, UnaClaveUnaCosa
<1> QED
    BY <1>3, <1>4, <1>5, <1>6, <1>7, <1>8, <1>9, <1>10, <1>11, <1>12, <1>13, <1>14, PorSuCodigo

-----------------------------------------------------------------------------
(***************************************************************************)
(* What one approval derives.                                              *)
(***************************************************************************)

(* After an approval the destinations start with those there were, none of *)
(* the new ones repeats another, and no order of the rows adds any.        *)
LEMMA LoQueApruebaNoRepite ==
    ASSUME InvItinerario, InvItinerario', NEW r \in Reservas, NEW v, AprobarReserva(r, v)
    PROVE  DestinosDeUnPaso
<1>1. PICK c \in Candidatos(reservas') :
         destinos' = sync_destinations_from_itinerary(c, destinos)
    BY DEF AprobarReserva
<1>2. SonFilas(reservas') /\ SonDestinos(destinos) /\ SonDestinos(destinos')
    BY DEF InvItinerario
<1>3. Len(c) \in Nat /\ {c[j] : j \in 1..Len(c)} = LosTramos(reservas') \cup LasEstancias(reservas')
    BY <1>2, LosCandidatos
<1>4. Derivado(c, destinos, destinos', Len(c))
    BY <1>1, <1>2, <1>3, LoDerivado
<1>5. Len(destinos) \in Nat /\ DOMAIN destinos' = 1..Len(destinos') /\ Len(destinos') \in Nat
    BY <1>2 DEF SonDestinos
<1>6. SubSeq(destinos', 1, Len(destinos)) = destinos
    <2>1. PICK S : destinos \in Seq(S)
        BY <1>2 DEF SonDestinos
    <2>2. PICK T : destinos' \in Seq(T)
        BY <1>2 DEF SonDestinos
    <2>3. Len(destinos') >= Len(destinos) /\ \A j \in 1..Len(destinos) : destinos'[j] = destinos[j]
        BY <1>4 DEF Derivado
    <2>4. /\ SubSeq(destinos', 1, Len(destinos)) \in Seq(T)
          /\ Len(SubSeq(destinos', 1, Len(destinos))) = Len(destinos)
          /\ \A j \in 1..Len(destinos) : SubSeq(destinos', 1, Len(destinos))[j] = destinos'[j]
        BY <1>5, <2>2, <2>3
    <2> QED
        BY <2>1, <2>3, <2>4
<1>7. ASSUME NEW i \in (Len(destinos) + 1)..Len(destinos'), NEW j \in DOMAIN destinos', j < i
      PROVE  /\ destinos'[j] # destinos'[i]
             /\ destinos'[j].pais = destinos'[i].pais => destinos'[i].pais = SinDato
             /\ destinos'[j].ciudad = destinos'[i].ciudad => destinos'[i].pais # SinDato
    BY <1>4, <1>5, <1>7 DEF Derivado
<1>8. ASSUME NEW k \in Candidatos(reservas')
      PROVE  sync_destinations_from_itinerary(k, destinos') = destinos'
    <2>1. Len(k) \in Nat /\ {k[j] : j \in 1..Len(k)} = LosTramos(reservas') \cup LasEstancias(reservas')
        BY <1>2, LosCandidatos
    <2>2. ASSUME NEW i \in 1..Len(k)  PROVE YaEsta(Lugar(k[i]), ToSet(destinos'))
        <3>1. k[i] \in {c[j] : j \in 1..Len(c)}
            BY <1>3, <2>1
        <3>2. PICK j \in 1..Len(c) : k[i] = c[j]
            BY <3>1
        <3> QED
            BY <1>4, <3>2 DEF Derivado
    <2> QED
        BY <2>1, <2>2, NadaQueSumar
<1> QED
    BY <1>6, <1>7, <1>8 DEF DestinosDeUnPaso

(* A booking typed by hand derives nothing.                                *)
LEMMA LoAnotadoNoDeriva ==
    ASSUME InvItinerario, NEW r \in Reservas, NEW v, AnotarReserva(r, v)
    PROVE  DestinosDeUnPaso
<1> DEFINE g == Dirigida(r, v, FALSE)
<1>1. g.doc = FALSE
    BY LaDirigida, ReservasAssumption
<1>2. reservas' = reservas \cup {g} /\ destinos' = destinos
    BY DEF AnotarReserva
<1> HIDE DEF g
<1>3. PICK S : destinos \in Seq(S)
    BY DEF InvItinerario, SonDestinos
<1>4. SubSeq(destinos', 1, Len(destinos)) = destinos
    BY <1>2, <1>3
<1>5. (Len(destinos) + 1)..Len(destinos') = {}
    BY <1>2, <1>3
<1>6. \A f \in reservas' \ reservas : ~f.doc
    BY <1>1, <1>2
<1> QED
    BY <1>4, <1>5, <1>6 DEF DestinosDeUnPaso

(* What the rest of the steps do is not a booking more.                    *)
LEMMA SinReservasNuevas ==
    ASSUME SonFilas(reservas),
           \/ reservas' = reservas
           \/ \E f \in reservas : reservas' = reservas \ {f}
           \/ \E f \in reservas : \E g : reservas' = (reservas \ {f}) \cup {g}
    PROVE  DestinosDeUnPaso
<1>1. IsFiniteSet(reservas) /\ Cardinality(reservas) \in Nat
    BY FS_CardinalityType DEF SonFilas
<1>2. ASSUME NEW f \in reservas
      PROVE  /\ IsFiniteSet(reservas \ {f}) /\ Cardinality(reservas \ {f}) = Cardinality(reservas) - 1
    BY <1>1, FS_RemoveElement
<1>3. ASSUME NEW f \in reservas, NEW g
      PROVE  \/ Cardinality((reservas \ {f}) \cup {g}) = Cardinality(reservas) - 1
             \/ Cardinality((reservas \ {f}) \cup {g}) = Cardinality(reservas)
    <2>1. \/ Cardinality((reservas \ {f}) \cup {g}) = Cardinality(reservas \ {f})
          \/ Cardinality((reservas \ {f}) \cup {g}) = Cardinality(reservas \ {f}) + 1
        BY <1>2, FS_AddElement
    <2> QED
        BY <1>1, <1>2, <2>1
<1>4. ~(Cardinality(reservas') > Cardinality(reservas))
    BY <1>1, <1>2, <1>3
<1> QED
    BY <1>4 DEF DestinosDeUnPaso

(* And so of every step.                                                   *)
LEMMA LosDestinosDeUnPaso ==
    InvReglas /\ InvReglas' /\ [NextReglas]_varsReglas => DestinosDeUnPaso
<1> SUFFICES ASSUME InvReglas, InvReglas', [NextReglas]_varsReglas  PROVE DestinosDeUnPaso
    OBVIOUS
<1> USE DEF InvReglas
<1>0. SonFilas(reservas)
    BY DEF InvItinerario
<1>1. ASSUME NEW r \in Reservas, NEW v, AprobarReserva(r, v)  PROVE DestinosDeUnPaso
    BY <1>1, LoQueApruebaNoRepite
<1>2. ASSUME NEW r \in Reservas, NEW v, AnotarReserva(r, v)  PROVE DestinosDeUnPaso
    BY <1>2, LoAnotadoNoDeriva
<1>3. CASE \E f \in reservas : RetrasarReserva(f) \/ BorrarReserva(f)
    BY <1>0, <1>3, SinReservasNuevas DEF RetrasarReserva, BorrarReserva
<1>4. CASE \/ \E v \in Asignaciones : SumarPersona(v) \/ QuitarPersona(v)
           \/ \E l \in AMano : PonerDestino(l)
           \/ \E i \in DOMAIN destinos : remove_destination(i)
           \/ \E f \in reservas, v \in Asignaciones \cup {Todos}, deFila \in BOOLEAN :
                 AdjuntarPase(f, v, deFila)
           \/ PasarUnDia
           \/ UNCHANGED varsReglas
    <2>1. reservas' = reservas
        BY <1>4 DEF SumarPersona, QuitarPersona, PonerDestino, remove_destination, AdjuntarPase,
                    PasarUnDia, varsReglas, varsItinerario
    <2> QED
        BY <1>0, <2>1, SinReservasNuevas
<1> QED
    BY <1>1, <1>2, <1>3, <1>4 DEF NextReglas, NextItinerario

-----------------------------------------------------------------------------
(* The alerts and destinations of a trip say what its bookings say         *)
(* (rules/*.py, trip_service.sync_destinations_from_itinerary).            *)
THEOREM ItinerarioBienDicho == SpecReglas => ItinerarioBienLeido
<1>1. InitReglas => InvReglas
    BY EmpiezanBien
<1>2. InvReglas /\ [NextReglas]_varsReglas => InvReglas'
    BY PasoReglas
<1>3. InvReglas => SolapesJustos /\ NuncaLasDos /\ NingunApuroSeCalla
                      /\ MismasConexiones /\ ClavesDistintas
    BY LosSolapesSonJustos, NuncaSonLasDos, ElApuroSeDice, SonLasMismas, LasClavesSonDistintas
<1>4. InvReglas /\ InvReglas' /\ [NextReglas]_varsReglas => DestinosDeUnPaso
    BY LosDestinosDeUnPaso
<1>5. SpecReglas => []InvReglas
    BY <1>1, <1>2, PTL DEF SpecReglas
<1> QED
    BY <1>3, <1>4, <1>5, PTL DEF SpecReglas, ItinerarioBienLeido

(***************************************************************************)
(* The types of the component.                                             *)
(***************************************************************************)

(* There are as many numbers as rows.                                      *)
LEMMA TantosNumeros ==
    ASSUME NEW F, SonFilas(F)
    PROVE  Cardinality({f.n : f \in F}) = Cardinality(F)
<1> DEFINE N == {f.n : f \in F}
           b == [f \in F |-> f.n]
<1>1. b \in Bijection(F, N)
    <2>1. b \in [F -> N] /\ \A f, g \in F : b[f] = b[g] => f = g
        BY DEF SonFilas
    <2>2. \A x \in N : \E f \in F : b[f] = x
        OBVIOUS
    <2> HIDE DEF b, N
    <2> QED
        BY <2>1, <2>2 DEF Bijection, Injection, IsInjective, Surjection
<1> HIDE DEF b, N
<1>2. Cardinality(N) = Cardinality(F)
    BY <1>1, FS_Bijection DEF SonFilas, ExistsBijection
<1> QED
    BY <1>2 DEF N

(* What a manager is offered is in order.                                  *)
LEMMA LaVentanaOfrecida ==
    ASSUME NEW F, SonFilas(F), NEW v, Fechada(v)
    PROVE  LET w == propose_traveler_window(F, v) IN w.desde <= w.hasta
<1>1. CASE Instantes(F) # {}
    BY <1>1, LosExtremos DEF propose_traveler_window
<1>2. CASE Instantes(F) = {}
    BY <1>2 DEF propose_traveler_window, Fechada, SinHora
<1> QED
    BY <1>1, <1>2

(* What any finding is.                                                    *)
EsHallazgo(h) ==
    /\ h.viajero \in Personados \cup lista \cup {Todos}
    /\ h.sobre \subseteq reservas
    /\ h.severidad \in {"informativa", "media", "alta", "critica"}

(* And all of them are.                                                    *)
LEMMA SonHallazgos ==
    ASSUME SonFilas(reservas), NEW h \in evaluate
    PROVE  EsHallazgo(h)
<1> DEFINE Sev == {"informativa", "media", "alta", "critica"}
<1>1. ASSUME NEW c, NEW v \in Personados \cup lista \cup {Todos}, NEW S \in SUBSET reservas,
             NEW n, NEW s \in Sev, h = Hallazgo(c, v, S, n, s)
      PROVE  EsHallazgo(h)
    BY <1>1 DEF EsHallazgo, Hallazgo
<1> HIDE DEF Sev
<1>2. /\ "informativa" \in Sev /\ "media" \in Sev /\ "alta" \in Sev /\ "critica" \in Sev
    BY DEF Sev
<1>3. \A f \in reservas : f.dueno \in Personados \cup lista \cup {Todos}
    BY DEF Personados
<1>4. ASSUME NEW c, NEW s, s \in Sev, DeSusFilas(c, s, h),
             h.viajero \in Personados \cup lista \cup {Todos}
      PROVE  EsHallazgo(h)
    BY <1>1, <1>4 DEF DeSusFilas
<1>5. \A v : FilasDe(v) \subseteq reservas
    BY DEF FilasDe
<1>6. CASE h.viajero \in Personados /\ h \in segmentos_solapados(h.viajero)
    BY <1>2, <1>4, <1>6, SonDeSusFilas
<1>7. CASE h.viajero \in Personados /\ h \in conexion_margen_insuficiente(h.viajero)
    <2> DEFINE sev(p) == IF p[2].ini - p[1].fin < MargenCritico THEN "critica" ELSE "alta"
    <2>1. PICK p \in Conexiones(h.viajero) :
             h = Hallazgo("conexion_margen_insuficiente", h.viajero, {p[1], p[2]},
                          Numeros({p[1], p[2]}), sev(p))
        BY <1>7 DEF conexion_margen_insuficiente
    <2>2. p[1] \in reservas /\ p[2] \in reservas
        BY LasParejas
    <2>3. sev(p) \in Sev
        BY <1>2
    <2> HIDE DEF sev
    <2> QED
        BY <1>1, <1>7, <2>1, <2>2, <2>3
<1>8. CASE h.viajero \in Personados /\ h \in llegada_posterior_reserva(h.viajero)
    BY <1>2, <1>4, <1>8, SonDeSusFilas
<1>9. CASE h.viajero \in Personados /\ h \in noche_sin_alojamiento(h.viajero)
    <2>1. \E n : h = Hallazgo("noche_sin_alojamiento", h.viajero, {}, n, "media")
        BY <1>9 DEF noche_sin_alojamiento
    <2> QED
        BY <1>1, <1>2, <1>9, <2>1
<1>10. CASE h.viajero \in Personados /\ h \in cambio_zona_horaria(h.viajero)
    BY <1>2, <1>4, <1>10, SonDeSusFilas
<1>11. CASE h.viajero \in Personados /\ h \in coste_noche_sobre_politica(h.viajero)
    <2>1. \E f \in FilasDe(h.viajero) : \E n :
             h = Hallazgo("coste_noche_sobre_politica", h.viajero, {f}, n, "media")
        BY <1>11 DEF coste_noche_sobre_politica
    <2> QED
        BY <1>1, <1>2, <1>5, <1>11, <2>1
<1>12. CASE h \in sin_tarjeta_de_embarque
    <2> DEFINE sev(f) == IF 4 * (f.ini - reloj) <= HorasDelDia THEN "alta" ELSE "media"
    <2>1. PICK f \in reservas :
             h = Hallazgo("sin_tarjeta_de_embarque", f.dueno, {f}, Numeros({f}), sev(f))
        BY <1>12 DEF sin_tarjeta_de_embarque
    <2>2. sev(f) \in Sev
        BY <1>2
    <2> HIDE DEF sev
    <2> QED
        BY <1>1, <1>3, <2>1, <2>2
<1>13. CASE h \in documento_viajero_por_caducar
    <2> DEFINE margen(v) == Caducidad[v] - local_date(ventana.fin, ventana.zonaFin)
               sev(v) == CASE margen(v) < 0 -> "critica"
                           [] margen(v) \in 0..(DiasExigidos - 1) -> "alta"
                           [] OTHER -> "informativa"
    <2>1. PICK v \in lista :
             h = Hallazgo("documento_viajero_por_caducar", v, {}, {<<"persona", v>>}, sev(v))
        BY <1>13 DEF documento_viajero_por_caducar
    <2>2. sev(v) \in Sev
        BY <1>2
    <2> HIDE DEF sev
    <2> QED
        BY <1>1, <2>1, <2>2
<1>14. CASE h \in datos_incompletos
    <2>1. \/ \E f \in reservas :
                h = Hallazgo("datos_incompletos", f.dueno, {f}, Numeros({f}), "informativa")
          \/ \E n : h = Hallazgo("datos_incompletos", Todos, {}, n, "informativa")
        BY <1>14 DEF datos_incompletos
    <2> QED
        BY <1>1, <1>2, <1>3, <2>1
<1>15. CASE h \in sin_documento_soporte
    <2>1. \E f \in reservas :
             h = Hallazgo("sin_documento_soporte", f.dueno, {f}, Numeros({f}), "informativa")
        BY <1>15 DEF sin_documento_soporte
    <2> QED
        BY <1>1, <1>2, <1>3, <2>1
<1>16. CASE h \in coste_sobre_politica
    <2>1. \/ h = Hallazgo("coste_sobre_politica", Todos, {}, {}, "alta")
          \/ h = Hallazgo("coste_sobre_politica", Todos, {}, {}, "informativa")
        BY <1>16 DEF coste_sobre_politica
    <2> QED
        BY <1>1, <1>2, <2>1
<1>17. CASE h \in reserva_con_poca_antelacion
    <2>1. h = Hallazgo("reserva_con_poca_antelacion", Todos, {}, {}, "informativa")
        BY <1>17 DEF reserva_con_poca_antelacion
    <2> QED
        BY <1>1, <1>2, <2>1
<1> QED
    BY <1>6, <1>7, <1>8, <1>9, <1>10, <1>11, <1>12, <1>13, <1>14, <1>15, <1>16, <1>17, PorSuCodigo

(* The itinerary and the findings of a pass have the types they should.    *)
THEOREM TiposDelItinerario == SpecReglas => []TipoReglas
<1>1. InitReglas => InvReglas
    BY EmpiezanBien
<1>2. InvReglas /\ [NextReglas]_varsReglas => InvReglas'
    BY PasoReglas
<1>3. InvReglas => TipoReglas
    <2> SUFFICES ASSUME InvReglas  PROVE TipoReglas
        OBVIOUS
    <2>1. InvItinerario /\ SonFilas(reservas)
        BY DEF InvReglas, InvItinerario
    <2>2. Cardinality({f.n : f \in reservas}) = Cardinality(reservas)
        BY <2>1, TantosNumeros
    <2>3. \A f \in reservas : f.kind \in Kinds /\ f.dueno \in lista \cup retirados \cup {Todos}
        BY <2>1 DEF InvItinerario, SonFilas, EsReserva
    <2>4. \A i \in DOMAIN destinos : EsDestino(destinos[i])
        BY <2>1 DEF InvItinerario, SonDestinos
    <2>5. DOMAIN ventana = DOMAIN SinFechas
        BY <2>1 DEF InvItinerario, Fechada, SinFechas
    <2>6. LET w == propose_traveler_window(reservas, ventana) IN w.desde <= w.hasta
        BY <2>1, LaVentanaOfrecida DEF InvItinerario
    <2>7. TipoItinerario
        BY <2>1, <2>2, <2>3, <2>4, <2>5, <2>6 DEF TipoItinerario, InvItinerario
    <2>8. \A h \in evaluate : EsHallazgo(h)
        BY <2>1, SonHallazgos
    <2> QED
        BY <2>7, <2>8 DEF TipoReglas, InvReglas, EsHallazgo
<1> QED
    BY <1>1, <1>2, <1>3, PTL DEF SpecReglas

=============================================================================
