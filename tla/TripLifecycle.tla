---------------------------- MODULE TripLifecycle ----------------------------
(***************************************************************************)
(* The life of one trip: its state, its dates, a person who travels on it  *)
(* and whether its itinerary has anything in it.                           *)
(*                                                                         *)
(* Requests of managers and administrators load the trip, check it and     *)
(* commit later; the nightly task loads the trips whose dates have passed  *)
(* and moves each one in a commit of its own.  A row is written by primary *)
(* key: nothing checks that it still is what was loaded.                   *)
(***************************************************************************)
EXTENDS Naturals

CONSTANTS
    MaxDia,         \* bound: days
    Formularios,    \* requests about the trip served at once
    Encargos        \* bound: pairs of a request and what it may be for

ASSUME MaxDiaAssumption == MaxDia \in Nat /\ MaxDia > 0

VARIABLES
    trip,       \* the committed row
    hoy,        \* today
    peticion,   \* the requests being served: what each has read of the trip
    noche       \* the nightly task

varsCiclo == <<trip, hoy, peticion, noche>>

TripStatus == {"BORRADOR", "EN_PREPARACION", "CONFIRMADO", "EN_CURSO",
               "FINALIZADO", "CANCELADO"}
TRIP_CLOSED_STATES == {"FINALIZADO", "CANCELADO"}

(* Day 0 stands for a date nobody has given.                               *)
Dias == 1..MaxDia
Fechas == 0..MaxDia

Trips == [estado : TripStatus \cup {"nada"}, inicio : Fechas, fin : Fechas,
          viajero : {"nunca", "activo", "quitado"}, itinerario : BOOLEAN,
          borrado : BOOLEAN]

SinViaje == [estado |-> "nada", inicio |-> 0, fin |-> 0, viajero |-> "nunca",
             itinerario |-> FALSE, borrado |-> FALSE]

OperacionesDeViaje == {"editar", "asignar", "quitar", "anotar", "aprobar",
                       "vaciar", "eliminar"}

SinPeticion == [pc |-> "libre", op |-> "editar", t |-> SinViaje,
                destino |-> "BORRADOR", tocado |-> FALSE]

SinNoche == [pc |-> "libre", estado |-> "nada", mira |-> "fin"]

TipoCiclo ==
    /\ trip \in Trips
    /\ hoy \in 1..MaxDia + 1
    /\ peticion \in [Formularios ->
          [pc : {"libre", "cargada", "releer", "estado"}, op : OperacionesDeViaje, t : Trips,
           destino : TripStatus, tocado : BOOLEAN]]
    /\ noche \in [pc : {"libre", "escribir"}, estado : TripStatus \cup {"nada"},
                  mira : {"fin", "inicio"}]

InitCiclo ==
    /\ trip = SinViaje /\ hoy = 1
    /\ peticion = [p \in Formularios |-> SinPeticion] /\ noche = SinNoche

(***************************************************************************)
(* The rules.                                                              *)
(***************************************************************************)
is_editable(t) == t.estado # "CANCELADO" /\ ~t.borrado

(* The check left out of the service, trusting the one of the route.       *)
EditableSiempre(t) == ~t.borrado

EditableParaActualizar(t) == is_editable(t)

TRANSICIONES ==
    [BORRADOR       |-> {"EN_PREPARACION", "CONFIRMADO", "CANCELADO"},
     EN_PREPARACION |-> {"BORRADOR", "CONFIRMADO", "EN_CURSO", "FINALIZADO",
                         "CANCELADO"},
     CONFIRMADO     |-> {"EN_PREPARACION", "EN_CURSO", "FINALIZADO", "CANCELADO"},
     EN_CURSO       |-> {"FINALIZADO", "CANCELADO"},
     FINALIZADO     |-> {},
     CANCELADO      |-> {"EN_PREPARACION"}]

(* Nobody may choose `EN_CURSO` from the form.                             *)
estados_posibles(t) == TRANSICIONES[t.estado] \ {"EN_CURSO"}

SinRequisitos(t, destino) == TRUE

requisitos_pendientes(t, destino) ==
    destino = "CONFIRMADO" =>
       t.inicio # 0 /\ t.fin # 0 /\ t.viajero = "activo" /\ t.itinerario

(* What `change_status` lets through of a trip as it was loaded.           *)
change_status(t, destino, motivo, automatico) ==
    /\ destino \in TRANSICIONES[t.estado]
    /\ ~automatico => /\ requisitos_pendientes(t, destino)
                      /\ t.estado = "CANCELADO" => motivo

(* The state after somebody has worked on a trip loaded in `cargado`.      *)
marcar_actividad(cargado, actual) ==
    IF cargado.estado = "BORRADOR" THEN "EN_PREPARACION" ELSE actual.estado

_validate_dates(inicio, fin) == inicio # 0 /\ fin # 0 => inicio <= fin

(* Dates read off the itinerary fill the empty ones, and only those; the   *)
(* pair that results is not validated.                                     *)
sync_dates(t, primero, ultimo) ==
    [t EXCEPT !.inicio = IF @ = 0 THEN primero ELSE @,
              !.fin = IF @ = 0 THEN ultimo ELSE @]

(***************************************************************************)
(* Requests.                                                               *)
(***************************************************************************)
(* A manager opens a trip in any state of the form; a traveller planning   *)
(* their own becomes its traveller, which takes it out of draft at once.   *)
CrearViaje ==
    /\ trip.estado = "nada"
    /\ \E i, f \in Fechas :
          /\ _validate_dates(i, f)
          /\ \/ \E e \in TripStatus :
                   trip' = [SinViaje EXCEPT !.estado = e, !.inicio = i, !.fin = f]
             \/ trip' = [SinViaje EXCEPT !.estado = "EN_PREPARACION",
                            !.inicio = i, !.fin = f, !.viajero = "activo"]
    /\ UNCHANGED <<hoy, peticion, noche>>

(* What each operation looks at of the trip it loads.                      *)
Mirado(op, t) ==
    [SinViaje EXCEPT
        !.estado = IF op \in {"editar", "asignar", "anotar"} THEN t.estado ELSE @,
        !.inicio = IF op \in {"editar", "aprobar"} THEN t.inicio ELSE @,
        !.fin = IF op \in {"editar", "aprobar"} THEN t.fin ELSE @,
        !.viajero = IF op = "asignar" THEN t.viajero ELSE @]

(* The authorisation of the route, and the trip as this request sees it.   *)
(* A manager is turned away from a cancelled trip, an administrator not;   *)
(* nobody assigns who is assigned, or takes off who is not.                *)
CargarViaje(p, op, esAdmin) ==
    /\ peticion[p].pc = "libre" /\ <<p, op>> \in Encargos
    /\ trip.estado # "nada" /\ ~trip.borrado
    /\ op # "eliminar" => esAdmin \/ is_editable(trip)
    /\ op = "asignar" => trip.viajero # "activo"
    /\ op = "quitar" => trip.viajero = "activo"
    /\ peticion' = [peticion EXCEPT ![p] =
          [SinPeticion EXCEPT !.pc = "cargada", !.op = op, !.t = Mirado(op, trip)]]
    /\ UNCHANGED <<trip, hoy, noche>>

(* Request p goes on as q; if it committed, the others that may move the   *)
(* state were served while the trip changed.                               *)
PuedeMover(q) == q.pc # "libre" /\ q.op \in {"editar", "asignar", "anotar"}

Sigue(p, q, confirma) ==
    peticion' = [r \in Formularios |->
                   IF r = p THEN q
                   ELSE [peticion[r] EXCEPT !.tocado =
                           @ \/ (confirma /\ PuedeMover(peticion[r]))]]

(* The state chosen in the form, on the trip as it was read: what is let   *)
(* through is left to commit.                                              *)
Comprobada(q, leida) ==
    IF /\ q.destino # leida.estado
       /\ \E motivo \in BOOLEAN : change_status(leida, q.destino, motivo, FALSE)
    THEN {[q EXCEPT !.pc = "estado", !.t = Mirado("anotar", leida)]}
    ELSE {}

(* A reason may be missing, and the form refused for it.                   *)
TrasComprobar(q, leida) ==
    Comprobada(q, leida) \cup
       (IF Comprobada(q, leida) = {} \/ leida.estado = "CANCELADO" THEN {SinPeticion} ELSE {})

(* The edit form: first the fields, those that change, committed.  The     *)
(* commit expires what was read, and the state is checked on the trip as   *)
(* it is read again; with nothing to commit, on the row as it was loaded,  *)
(* and only its lists, looked at for the first time, are of now.           *)
ActualizarViaje(p) ==
    LET t == peticion[p].t IN
    /\ peticion[p].pc = "cargada" /\ peticion[p].op = "editar"
    /\ \E i, f \in Fechas, e \in estados_posibles(t) \cup {t.estado}, otros \in BOOLEAN :
          LET cambios == otros \/ i # t.inicio \/ f # t.fin
              q == [peticion[p] EXCEPT !.destino = e] IN
          IF ~(EditableParaActualizar(t) /\ _validate_dates(i, f))
          THEN Sigue(p, SinPeticion, FALSE) /\ UNCHANGED trip
          ELSE IF cambios
          THEN /\ trip' = [trip EXCEPT !.inicio = IF i # t.inicio THEN i ELSE @,
                                       !.fin = IF f # t.fin THEN f ELSE @]
               /\ Sigue(p, [q EXCEPT !.pc = "releer", !.t = SinViaje], TRUE)
          ELSE /\ \E x \in TrasComprobar(q, [t EXCEPT !.viajero = trip.viajero,
                                                      !.itinerario = trip.itinerario]) :
                     Sigue(p, x, FALSE)
               /\ UNCHANGED trip
    /\ UNCHANGED <<hoy, noche>>

Releer(p) ==
    /\ peticion[p].pc = "releer"
    /\ \E x \in TrasComprobar(peticion[p], trip) : Sigue(p, x, FALSE)
    /\ UNCHANGED <<trip, hoy, noche>>

CambiarEstado(p) ==
    /\ peticion[p].pc = "estado"
    /\ trip' = [trip EXCEPT !.estado = peticion[p].destino]
    /\ Sigue(p, SinPeticion, TRUE)
    /\ UNCHANGED <<hoy, noche>>

(* The second of two that assign somebody for the first time meets the     *)
(* unique row of the first: nothing of it is committed.                    *)
FilaRepetida(p) ==
    peticion[p].op = "asignar" /\ peticion[p].t.viajero = "nunca" /\ trip.viajero # "nunca"

(* The other requests write once.                                          *)
GuardarViaje(p) ==
    LET t == peticion[p].t
        activa == [trip EXCEPT !.estado = marcar_actividad(t, trip)] IN
    /\ peticion[p].pc = "cargada"
    /\ \/ /\ peticion[p].op = "asignar"
          /\ trip' = IF FilaRepetida(p) THEN trip ELSE [activa EXCEPT !.viajero = "activo"]
       \/ /\ peticion[p].op = "quitar"
          /\ trip' = [trip EXCEPT !.viajero = "quitado"]
       \/ /\ peticion[p].op = "anotar"        \* a leg, or a document
          /\ \E hay \in {TRUE, trip.itinerario} :
                trip' = [activa EXCEPT !.itinerario = hay]
       \/ /\ peticion[p].op = "vaciar"
          /\ trip' = [trip EXCEPT !.itinerario = FALSE]
       \/ /\ peticion[p].op = "aprobar"
          /\ \E d, u \in Dias : d <= u /\
                LET s == sync_dates(t, d, u) IN
                trip' = [trip EXCEPT !.itinerario = TRUE,
                            !.inicio = IF t.inicio = 0 THEN s.inicio ELSE @,
                            !.fin = IF t.fin = 0 THEN s.fin ELSE @]
       \/ /\ peticion[p].op = "eliminar"
          /\ trip' = [trip EXCEPT !.borrado = TRUE]
    /\ Sigue(p, SinPeticion, ~FilaRepetida(p))
    /\ UNCHANGED <<hoy, noche>>

(***************************************************************************)
(* The nightly task.                                                       *)
(***************************************************************************)
ESTADOS_QUE_AVANZAN == {"EN_PREPARACION", "CONFIRMADO"}

Terminado(t) == /\ t.estado \in ESTADOS_QUE_AVANZAN \cup {"EN_CURSO"}
                /\ ~t.borrado /\ t.fin # 0 /\ t.fin < hoy

SoloEnCurso(t) == /\ t.estado = "EN_CURSO"
                  /\ ~t.borrado /\ t.fin # 0 /\ t.fin < hoy

ParaTerminar(t) == Terminado(t)

Empezado(t) == /\ t.estado \in ESTADOS_QUE_AVANZAN
               /\ ~t.borrado /\ t.inicio # 0 /\ t.inicio <= hoy

(* Finish first; then, in a second query, start.                           *)
advance_states ==
    /\ noche.pc = "libre" /\ trip.estado # "nada"
    /\ \/ ParaTerminar(trip) /\ noche' = [noche EXCEPT !.pc = "escribir",
                                          !.estado = trip.estado, !.mira = "fin"]
       \/ /\ Empezado(trip) /\ ~ParaTerminar(trip)
          /\ noche' = [noche EXCEPT !.pc = "escribir", !.estado = trip.estado,
                                    !.mira = "inicio"]
    /\ UNCHANGED <<trip, hoy, peticion>>

(* The commit of another trip of the list expires this one: it is read     *)
(* again.                                                                  *)
OtroViajeDeLaLista ==
    /\ noche.pc = "escribir" /\ noche.estado # trip.estado
    /\ noche' = [noche EXCEPT !.estado = trip.estado]
    /\ UNCHANGED <<trip, hoy, peticion>>

(* A state that no longer allows the move ends the pass with an error, for *)
(* this trip and for those after it in the list; equal states write        *)
(* nothing.                                                                *)
EscribirAvance ==
    LET destino == IF noche.mira = "fin" THEN "FINALIZADO" ELSE "EN_CURSO" IN
    /\ noche.pc = "escribir"
    /\ trip' = IF destino \in TRANSICIONES[noche.estado]
               THEN [trip EXCEPT !.estado = destino] ELSE trip
    /\ noche' = SinNoche
    /\ UNCHANGED <<hoy, peticion>>

PasarDia ==
    /\ hoy <= MaxDia
    /\ hoy' = hoy + 1
    /\ UNCHANGED <<trip, peticion, noche>>

NextCiclo ==
    \/ CrearViaje
    \/ \E p \in Formularios :
          \/ \E op \in OperacionesDeViaje, a \in BOOLEAN : CargarViaje(p, op, a)
          \/ ActualizarViaje(p)
          \/ Releer(p)
          \/ CambiarEstado(p)
          \/ GuardarViaje(p)
    \/ advance_states
    \/ OtroViajeDeLaLista
    \/ EscribirAvance
    \/ PasarDia

SpecCiclo == InitCiclo /\ [][NextCiclo]_varsCiclo

(* The schedule runs the nightly task every day; people need do nothing.   *)
EquidadCiclo == WF_varsCiclo(advance_states) /\ WF_varsCiclo(EscribirAvance)

(* The request whose commit this step is.                                  *)
Confirma(p) == peticion[p].pc # "libre" /\ peticion'[p].pc # peticion[p].pc

(***************************************************************************)
(* A cancelled or finished trip changes state only at the hand of somebody *)
(* who had loaded it before it was: no sequence of requests reopens it     *)
(* (change_status and update_trip).  What overlaps may: the nightly pass   *)
(* with a cancellation, and two requests, one of which closes the trip     *)
(* while the other is served.                                              *)
(***************************************************************************)
CerradoSoloPorLecturaVieja ==
    trip.estado \in TRIP_CLOSED_STATES /\ trip'.estado # trip.estado =>
       \/ noche.pc = "escribir" /\ noche.estado # trip.estado
       \/ \E p \in Formularios :
             Confirma(p) /\ (peticion[p].tocado \/ peticion[p].t.estado # trip.estado)

(***************************************************************************)
(* A trip that becomes confirmed has its dates, somebody who travels and   *)
(* something in its itinerary, even when the same form changes them        *)
(* (routes.edit: the fields are written first, the state last).  Unless    *)
(* another request wrote the trip while this one was served: what the      *)
(* requisites looked at may be gone when the state is committed, and       *)
(* nothing looks again.                                                    *)
(***************************************************************************)
ConfirmarExigeRequisitos ==
    trip.estado \notin {"nada", "CONFIRMADO"} /\ trip'.estado = "CONFIRMADO" =>
       \/ /\ trip'.inicio # 0 /\ trip'.fin # 0
          /\ trip'.viajero = "activo" /\ trip'.itinerario
       \/ \E p \in Formularios : Confirma(p) /\ peticion[p].tocado

(* Every change of state has a ground in the trip it is made on.           *)
EstadoFundado ==
    [][CerradoSoloPorLecturaVieja /\ ConfirmarExigeRequisitos]_varsCiclo

(***************************************************************************)
(* A trip under way or in preparation whose last day has passed does not   *)
(* stay so, whatever is done to it meanwhile (advance_states).             *)
(***************************************************************************)
ViajePasadoSeCierra == Terminado(trip) ~> ~Terminado(trip)
=============================================================================
