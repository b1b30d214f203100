----------------------------- MODULE TripAccess -----------------------------
(***************************************************************************)
(* Who may do what on one trip, and what a traveller planning their own    *)
(* trip can write.                                                         *)
(*                                                                         *)
(* `can` answers every question of access; lists are built apart, by       *)
(* `visible_trips_query` and `scope_itinerary_query`.  A planning request  *)
(* is authorised, and its row addressed, with the trip, the roster and the *)
(* row its session loaded; it is written later, while managers assign and  *)
(* remove people, approve documents and move the trip on.                  *)
(***************************************************************************)
EXTENDS Naturals, FiniteSets

CONSTANTS
    Viajeros,       \* accounts whose only role is traveller
    Gestores,       \* accounts with the manager role
    Admin,          \* an administrator
    Bloqueables,    \* accounts that may be disabled or locked out
    Inbox           \* the account GESTOR_POR_DEFECTO names, or "nadie"

ASSUME PersonasAssumption ==
    /\ Viajeros \cap Gestores = {} /\ Admin \notin Viajeros \cup Gestores
    /\ Bloqueables \subseteq Viajeros \cup Gestores
    /\ "todos" \notin Viajeros

ASSUME CuentasFinitasAssumption == IsFiniteSet(Viajeros) /\ IsFiniteSet(Gestores)

VARIABLES
    inactivas,      \* accounts disabled or locked
    viaje,          \* the trip
    asignados,      \* its roster, by account
    fila,           \* one row of its itinerary
    planifican,     \* the setting USUARIOS_PLANIFICAN
    plan            \* the planning request being served

varsAcceso == <<inactivas, viaje, asignados, fila, planifican, plan>>

Personas == Viajeros \cup Gestores \cup {Admin}

EstadosDeViaje == {"en_preparacion", "confirmado", "cancelado"}
Nadie == {"nadie"}
ESTADOS_PLANIFICABLES == {"borrador", "en_preparacion"}
TIPOS_PLANIFICABLES == {"segmento", "alojamiento"}
TiposDeFila == {"segmento", "vehiculo"}

SinElemento == [tipo |-> "segmento", de |-> "todos", documento |-> FALSE,
                viva |-> FALSE]
Elementos == [tipo : TiposDeFila, de : {"todos"} \cup Viajeros,
              documento : BOOLEAN, viva : BOOLEAN]
SinPlan == [pc |-> "libre", quien |-> Admin, op |-> "crear", de |-> "todos",
            movido |-> FALSE]

TipoAcceso ==
    /\ inactivas \subseteq Bloqueables
    /\ viaje \in [estado : EstadosDeViaje \cup {"nada"}, borrado : BOOLEAN,
                  gestor : Gestores \cup {Admin} \cup Nadie]
    /\ asignados \in [Viajeros -> {"nunca", "activo", "quitado"}]
    /\ fila \in Elementos
    /\ planifican \in BOOLEAN
    /\ plan \in [pc : {"libre", "autorizado"}, quien : Personas,
                 op : {"crear", "editar", "eliminar"},
                 de : {"todos"} \cup Viajeros, movido : BOOLEAN]

InitAcceso ==
    /\ inactivas = {}
    /\ viaje = [estado |-> "nada", borrado |-> FALSE, gestor |-> "nadie"]
    /\ asignados = [v \in Viajeros |-> "nunca"]
    /\ fila = SinElemento
    /\ planifican = TRUE
    /\ plan = SinPlan

(***************************************************************************)
(* The permissions of each profile.                                        *)
(***************************************************************************)
PERMISOS_GLOBALES ==
    {"crear_viaje", "administrar", "ver_auditoria", "investigar_web"}

PERMISOS_USUARIO ==
    {"ver_viaje", "ver_documento", "descargar_documento", "ver_alerta",
     "ver_recomendacion", "consultar_ia"}

PERMISOS_GESTOR ==
    PERMISOS_USUARIO \cup
    {"crear_viaje", "investigar_web", "editar_viaje", "eliminar_viaje",
     "gestionar_viajeros", "subir_documento", "eliminar_documento",
     "revisar_extraccion", "editar_itinerario", "gestionar_alerta",
     "recalcular_alertas", "generar_recomendacion", "validar_recomendacion",
     "ver_costes"}

PERMISOS_ADMIN == PERMISOS_GESTOR \cup {"administrar", "ver_auditoria"}

(* The changes a cancelled trip refuses, whoever asks.                     *)
Mutadores == {"editar_viaje", "gestionar_viajeros", "subir_documento",
              "editar_itinerario", "revisar_extraccion"}

Editable == viaje.estado # "cancelado" /\ ~viaje.borrado

_trip_mutable(permiso) == permiso \in Mutadores => Editable

active_travelers == {v \in Viajeros : asignados[v] = "activo"}

EsGestor(u) == u \in Gestores \cup {Admin}
EsActiva(u) == u \notin inactivas

_traveler_permissions ==
    PERMISOS_USUARIO
    \cup (IF planifican /\ viaje.estado \in ESTADOS_PLANIFICABLES
          THEN {"editar_itinerario"} ELSE {})
    \cup (IF planifican /\ Editable THEN {"subir_documento"} ELSE {})

(* `gestores_disponibles` leaves out deleted accounts, not disabled ones.  *)
_traveler_global_permissions ==
    PERMISOS_USUARIO
    \cup (IF planifican /\ Gestores # {} THEN {"crear_viaje"} ELSE {})

(***************************************************************************)
(* Which rows of a trip they may plan a traveller may change: not what a   *)
(* document says, not what is somebody else's.                             *)
(***************************************************************************)
SoloPorDireccion(u) ==
    fila.tipo \in TIPOS_PLANIFICABLES /\ ~fila.documento /\ fila.de \in {"todos", u}

_dentro_de_lo_planificable(u) ==
    /\ fila.tipo \in TIPOS_PLANIFICABLES
    /\ ~fila.documento
    /\ IF fila.de = "todos" THEN Cardinality(active_travelers) = 1 ELSE fila.de = u

(***************************************************************************)
(* The decision, in the order of its early returns.  `recurso` is "nada",  *)
(* "viaje" or "fila".                                                      *)
(***************************************************************************)
can(u, permiso, recurso) ==
    IF ~EsActiva(u) THEN FALSE
    ELSE IF u = Admin THEN permiso \in PERMISOS_ADMIN
    ELSE IF recurso = "nada" THEN
        permiso \in PERMISOS_GLOBALES \cap
            (IF EsGestor(u) THEN PERMISOS_GESTOR ELSE _traveler_global_permissions)
    ELSE IF viaje.estado = "nada" THEN FALSE
    ELSE IF viaje.borrado /\ permiso # "ver_viaje" THEN FALSE
    ELSE IF EsGestor(u) THEN permiso \in PERMISOS_GESTOR /\ _trip_mutable(permiso)
    ELSE /\ u \in active_travelers
         /\ permiso \in _traveler_permissions
         /\ (permiso = "editar_itinerario" /\ recurso = "fila")
                => _dentro_de_lo_planificable(u)

(* The refusals that answer 404: no relation at all with the trip.         *)
no_existe(u, recurso) ==
    EsActiva(u) /\ ~EsGestor(u) /\ recurso # "nada" /\ u \notin active_travelers

(* The trip is in the list this account is shown.                          *)
SinMirarLaBaja(u) == ~viaje.borrado /\ (EsGestor(u) \/ asignados[u] # "nunca")

visible_trips_query(u) ==
    /\ ~viaje.borrado
    /\ EsActiva(u)
    /\ EsGestor(u) \/ asignados[u] = "activo"

(* The row is among those this account is shown of the itinerary.          *)
scope_itinerary_query(u) ==
    /\ fila.viva
    /\ EsGestor(u) \/ (u \in active_travelers /\ fila.de \in {"todos", u})

tipos_que_puede_crear(u) ==
    IF ~can(u, "editar_itinerario", "viaje") THEN {}
    ELSE IF EsGestor(u) THEN TiposDeFila ELSE TIPOS_PLANIFICABLES

(* The person a traveller's row is for, whatever the form said.            *)
ParaTodos(u) == "todos"

_solo_lo_planificable(u) == IF active_travelers = {u} THEN "todos" ELSE u

(* The manager a traveller's new trip goes to: "error" when refused.       *)
gestor_por_defecto ==
    IF Inbox \in Gestores \cup {Admin} /\ EsActiva(Inbox) THEN Inbox ELSE "nadie"

gestor_para_viaje_propio(elegido) ==
    LET disponibles == {g \in Gestores : EsActiva(g)}
    IN  IF gestor_por_defecto # "nadie" THEN gestor_por_defecto
        ELSE IF elegido # "nadie"
             THEN IF elegido \in disponibles THEN elegido ELSE "error"
        ELSE IF Cardinality(disponibles) = 1 THEN CHOOSE g \in disponibles : TRUE
        ELSE "error"

(***************************************************************************)
(* A trip is opened by a manager, or by the traveller who will make it.    *)
(***************************************************************************)
AbrirViaje(g) ==
    /\ viaje.estado = "nada"
    /\ can(g, "crear_viaje", "nada")
    /\ viaje' = [estado |-> "en_preparacion", borrado |-> FALSE, gestor |-> g]
    /\ UNCHANGED <<inactivas, asignados, fila, planifican, plan>>

AbrirViajePropio(u, elegido) ==
    /\ viaje.estado = "nada"
    /\ can(u, "crear_viaje", "nada")
    /\ gestor_para_viaje_propio(elegido) # "error"
    /\ viaje' = [estado |-> "en_preparacion", borrado |-> FALSE,
                 gestor |-> gestor_para_viaje_propio(elegido)]
    /\ asignados' = [asignados EXCEPT ![u] = "activo"]
    /\ UNCHANGED <<inactivas, fila, planifican, plan>>

(***************************************************************************)
(* A traveller plans: the route and the service check, the commit writes.  *)
(***************************************************************************)
PedirAlta(u, tipo) ==
    /\ plan.pc = "libre"
    /\ can(u, "editar_itinerario", "viaje")
    /\ tipo \in tipos_que_puede_crear(u)
    /\ ~fila.viva
    /\ plan' = [pc |-> "autorizado", quien |-> u, op |-> "crear",
                de |-> _solo_lo_planificable(u), movido |-> FALSE]
    /\ UNCHANGED <<inactivas, viaje, asignados, fila, planifican>>

PedirCambio(u, op) ==
    /\ plan.pc = "libre"
    /\ can(u, "editar_itinerario", "viaje")
    /\ fila.viva
    /\ can(u, "editar_itinerario", "fila")
    /\ plan' = [pc |-> "autorizado", quien |-> u, op |-> op,
                de |-> _solo_lo_planificable(u), movido |-> FALSE]
    /\ UNCHANGED <<inactivas, viaje, asignados, fila, planifican>>

EscribirPlan ==
    /\ plan.pc = "autorizado"
    /\ fila' =
          CASE plan.op = "crear" ->
                 [tipo |-> "segmento", de |-> plan.de, documento |-> FALSE,
                  viva |-> TRUE]
            [] plan.op = "editar" -> [fila EXCEPT !.de = plan.de]
            [] plan.op = "eliminar" -> [fila EXCEPT !.viva = FALSE]
    /\ plan' = SinPlan
    /\ UNCHANGED <<inactivas, viaje, asignados, planifican>>

(***************************************************************************)
(* What managers and administrators do meanwhile.  Each is checked against *)
(* `can` for the manager who asks; one is enough.                          *)
(***************************************************************************)
Puede(permiso) ==
    viaje.estado # "nada" /\ \E g \in Gestores \cup {Admin} : can(g, permiso, "viaje")

Movido == plan' = [plan EXCEPT !.movido = plan.pc = "autorizado"]

AsignarPersona(v) ==
    /\ Puede("gestionar_viajeros")
    /\ asignados[v] # "activo"
    /\ asignados' = [asignados EXCEPT ![v] = "activo"]
    /\ Movido
    /\ UNCHANGED <<inactivas, viaje, fila, planifican>>

RetirarPersona(v) ==
    /\ Puede("gestionar_viajeros")
    /\ asignados[v] = "activo"
    /\ asignados' = [asignados EXCEPT ![v] = "quitado"]
    /\ Movido
    /\ UNCHANGED <<inactivas, viaje, fila, planifican>>

AnotarFila(tipo, de) ==
    /\ Puede("editar_itinerario")
    /\ de = "todos" \/ de \in active_travelers
    /\ fila' = [tipo |-> tipo, de |-> de, documento |-> fila.viva /\ fila.documento,
                viva |-> TRUE]
    /\ Movido
    /\ UNCHANGED <<inactivas, viaje, asignados, planifican>>

(* Approving an extraction makes the row, or adopts the one written by hand. *)
AprobarDocumento(tipo) ==
    /\ Puede("revisar_extraccion")
    /\ fila.viva => fila.tipo = tipo
    /\ fila' = [tipo |-> tipo, de |-> IF fila.viva THEN fila.de ELSE "todos",
                documento |-> TRUE, viva |-> TRUE]
    /\ Movido
    /\ UNCHANGED <<inactivas, viaje, asignados, planifican>>

MoverViaje(e) ==
    /\ Puede("editar_viaje")
    /\ e # viaje.estado
    /\ viaje' = [viaje EXCEPT !.estado = e]
    /\ Movido
    /\ UNCHANGED <<inactivas, asignados, fila, planifican>>

BorrarViaje ==
    /\ Puede("eliminar_viaje")
    /\ viaje' = [viaje EXCEPT !.borrado = TRUE]
    /\ Movido
    /\ UNCHANGED <<inactivas, asignados, fila, planifican>>

CambiarAjuste ==
    /\ planifican' = ~planifican
    /\ UNCHANGED <<inactivas, viaje, asignados, fila, plan>>

CambiarCuenta(u) ==
    /\ inactivas' = IF u \in inactivas THEN inactivas \ {u} ELSE inactivas \cup {u}
    /\ UNCHANGED <<viaje, asignados, fila, planifican, plan>>

NextAcceso ==
    \/ \E g \in Gestores \cup {Admin} : AbrirViaje(g)
    \/ \E u \in Viajeros, g \in Gestores \cup Nadie : AbrirViajePropio(u, g)
    \/ \E u \in Viajeros :
          \/ \E tipo \in TiposDeFila : PedirAlta(u, tipo)
          \/ \E op \in {"editar", "eliminar"} : PedirCambio(u, op)
          \/ AsignarPersona(u)
          \/ RetirarPersona(u)
    \/ EscribirPlan
    \/ \E tipo \in TiposDeFila :
          \/ \E de \in {"todos"} \cup Viajeros : AnotarFila(tipo, de)
          \/ AprobarDocumento(tipo)
    \/ \E e \in EstadosDeViaje : MoverViaje(e)
    \/ BorrarViaje
    \/ CambiarAjuste
    \/ \E u \in Bloqueables : CambiarCuenta(u)

SpecAcceso == InitAcceso /\ [][NextAcceso]_varsAcceso

(***************************************************************************)
(* The list of trips and the answer about one trip agree, for every        *)
(* account and whatever has happened to the roster: a trip that has not    *)
(* been deleted is listed exactly for those who may open it, and the rest  *)
(* of the travellers are told that it does not exist.                      *)
(***************************************************************************)
SeListaLoQueSePuedeVer ==
    /\ ~viaje.borrado /\ viaje.estado # "nada" =>
          \A u \in Personas : visible_trips_query(u) <=> can(u, "ver_viaje", "viaje")
    /\ \A u \in Viajeros :
          EsActiva(u) /\ viaje.estado # "nada" /\ ~visible_trips_query(u) /\ ~viaje.borrado
             => no_existe(u, "viaje")

(***************************************************************************)
(* A traveller writes only for themselves: when the change of a planning   *)
(* request lands, the row is not one a document fixed and no other         *)
(* traveller of the trip sees it, unless a manager moved something between *)
(* the check and the commit (nothing is checked again).                    *)
(***************************************************************************)
PlanificaLoSuyo ==
    [][plan.pc = "autorizado" /\ plan'.pc = "libre" /\ ~plan.movido =>
          \A u \in {plan.quien} :
             /\ plan.op # "crear" => ~fila.documento
             /\ fila'.viva => scope_itinerary_query(u)'
             /\ \A v \in active_travelers \ {u} :
                   /\ plan.op # "crear" => ~scope_itinerary_query(v)
                   /\ ~scope_itinerary_query(v)']_varsAcceso
=============================================================================
