-------------------------- MODULE MCPeopleAndTrips --------------------------
(***************************************************************************)
(* Small instances of the components about trips and the people who work   *)
(* on them.  They share no state: a behaviour takes one of them from its   *)
(* initial state and leaves the others still.                              *)
(***************************************************************************)
EXTENDS TripReferences, TripLifecycle, TripAccess, SignIn, SecondFactor,
        Accounts, AlertRules

VARIABLE parte      \* the component this behaviour is about

Partes ==
    {"referencias",
     "ciclo",
     "acceso",
     "entrada",
     "factor",
     "cuentas",
     "reglas"}

varsDeTodas ==
    <<parte, varsReferencias,
     varsCiclo,
     varsAcceso,
     varsEntrada,
     varsFactor,
     varsCuentas,
     varsReglas>>

(* The components this behaviour leaves still.                             *)
Quietas ==
    /\ UNCHANGED parte
    /\ IF parte = "referencias" THEN TRUE ELSE UNCHANGED varsReferencias
    /\ IF parte = "ciclo" THEN TRUE ELSE UNCHANGED varsCiclo
    /\ IF parte = "acceso" THEN TRUE ELSE UNCHANGED varsAcceso
    /\ IF parte = "entrada" THEN TRUE ELSE UNCHANGED varsEntrada
    /\ IF parte = "factor" THEN TRUE ELSE UNCHANGED varsFactor
    /\ IF parte = "cuentas" THEN TRUE ELSE UNCHANGED varsCuentas
    /\ IF parte = "reglas" THEN TRUE ELSE UNCHANGED varsReglas

InitDeUna ==
    /\ parte \in Partes
    /\ InitReferencias
    /\ InitCiclo
    /\ InitAcceso
    /\ InitEntrada
    /\ InitFactor
    /\ InitCuentas
    /\ InitReglas

NextDeUna ==
    \/ parte = "referencias" /\ NextReferencias /\ Quietas
    \/ parte = "ciclo" /\ NextCiclo /\ Quietas
    \/ parte = "acceso" /\ NextAcceso /\ Quietas
    \/ parte = "entrada" /\ NextEntrada /\ Quietas
    \/ parte = "factor" /\ NextFactor /\ Quietas
    \/ parte = "cuentas" /\ NextCuentas /\ Quietas
    \/ parte = "reglas" /\ NextReglas /\ Quietas

SpecDeUna == InitDeUna /\ [][NextDeUna]_varsDeTodas /\ EquidadCiclo

TipoDeTodas ==
    /\ TipoReferencias
    /\ TipoCiclo
    /\ TipoAcceso
    /\ TipoEntrada
    /\ TipoFactor
    /\ TipoCuentas
    /\ TipoReglas

(* Whatever a request may do, one or the other does; what takes something  *)
(* away from the trip may come while a form is being served.               *)
EncargosMC ==
    ({1} \X {"editar", "asignar", "anotar", "aprobar", "eliminar"})
       \cup ({2} \X {"quitar", "vaciar"})

(***************************************************************************)
(* The instance of AlertRules: two flights through Londres, a transfer     *)
(* between its airports, a train home, stays of one name, a car and a      *)
(* place the catalogue does not have.                                      *)
(***************************************************************************)
FilaMC(n, kind, tipo, ini, fin, desde, hasta) ==
    [n |-> n, kind |-> kind, tipo |-> tipo, ini |-> ini, fin |-> fin,
     desde |-> desde, hasta |-> hasta, pais |-> SinDato, dueno |-> Todos, doc |-> TRUE,
     localizador |-> TRUE, numero |-> SinDato, nombre |-> SinDato, importe |-> -1,
     moneda |-> SinDato, termD |-> SinDato, termH |-> SinDato]

ReservasMC ==
    {[FilaMC(1, "segmento", "vuelo", 0, 1, "bcn", "lhr")
        EXCEPT !.numero = "a1", !.termH = "t5"],
     [FilaMC(2, "segmento", "vuelo", 2, 5, "lhr", "jfk")
        EXCEPT !.numero = "b2", !.termD = "t3"],
     FilaMC(3, "segmento", "tren", 9, 10, "lgw", "bcn"),
     FilaMC(4, "segmento", "traslado", 1, 2, "lhr", "lgw"),
     [FilaMC(5, "alojamiento", SinDato, 1, 6, "lhr", "lhr")
        EXCEPT !.nombre = "h", !.importe = 3, !.moneda = "eur"],
     [FilaMC(6, "alojamiento", SinDato, 6, 9, "lgw", "lgw")
        EXCEPT !.nombre = "h", !.importe = 3, !.moneda = "gbp"],
     [FilaMC(7, "alojamiento", SinDato, 8, 10, "vic", "vic")
        EXCEPT !.nombre = "h", !.importe = 3, !.pais = "es"],
     [FilaMC(8, "vehiculo", SinDato, 3, 8, "vic", "vic") EXCEPT !.localizador = FALSE],
     FilaMC(9, "segmento", "tren", 4, SinHora, "lgw", "vic"),
     FilaMC(10, "segmento", "otro", 5, 7, "jfk", "vic")}

PorLugar(bcn, lon, jfk, vic, sin) ==
    [l \in {"bcn", "lhr", "lgw", "jfk", "vic", SinDato} |->
        CASE l = "bcn" -> bcn [] l \in {"lhr", "lgw"} -> lon [] l = "jfk" -> jfk
          [] l = "vic" -> vic [] OTHER -> sin]

CiudadMC == PorLugar("barcelona", "londres", "nueva york", "vic", SinDato)
PaisMC == PorLugar("es", "gb", "us", SinDato, SinDato)
ZonaMC == PorLugar(1, 0, -2, 1, 0)
AManoMC == {[pais |-> SinDato, ciudad |-> "londres"]}
CaducidadMC == [v \in Asignaciones |-> IF v = "v1" THEN 1 ELSE 9]
=============================================================================
