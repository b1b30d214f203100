------------------------------- MODULE AICalls -------------------------------
(***************************************************************************)
(* A request to a model: what is sent, what the endpoint refuses, what is  *)
(* remembered of it, and the row that records the execution.               *)
(*                                                                         *)
(* The parameters sent come in layers, lowest first: the provider, the     *)
(* model's profile, what the task asks for in code, the profile of the     *)
(* task or what a trial forces.  An endpoint answers 400 to a parameter it *)
(* does not take; the call drops or renames it and tries again, and the    *)
(* lesson is written on the provider's row for the calls to come.          *)
(***************************************************************************)
EXTENDS Naturals, FiniteSets, Sequences, FiniteSetsExt

CONSTANTS
    Llamadas,         \* processes that may be calling the endpoint
    Modelos,          \* the models it serves
    Opcionales,       \* parameters an administrator may set
    SinEquivalente,   \* those of them the provider's family does not have
    Rechaza,          \* what each model refuses
    MaxCorrecciones,  \* `_MAX_CORRECCIONES`
    Configuraciones,  \* what the stored layers may set
    MaxConmutaciones  \* bound: changes of the «do not reason» setting

Temperatura == "temperatura"
Razonar == "reasoning_effort"
Limites == {"max_tokens", "max_completion_tokens"}

Claves == Opcionales \cup {Temperatura}
Niveles == {"proveedor", "modelo", "perfil"}
Refusables == Claves \cup {Razonar} \cup Limites

ASSUME AICallsAssumption ==
    /\ SinEquivalente \subseteq Opcionales
    /\ Opcionales \cap ({Temperatura, Razonar} \cup Limites) = {}
    /\ Rechaza \in [Modelos -> SUBSET (Opcionales \cup {Temperatura, Razonar} \cup Limites)]
    /\ Configuraciones \subseteq [Niveles -> SUBSET Claves]
    /\ Modelos # {} /\ \A m \in Modelos : ~(Limites \subseteq Rechaza[m])
    /\ MaxCorrecciones \in Nat /\ MaxConmutaciones \in Nat

VARIABLES
    sin_razonamiento, \* the setting of the provider
    notas,            \* `parametros` of the provider: what it has refused
    llamada,          \* what each call is doing
    rechazos,         \* history: refusals by model and thing refused, up to
                      \* the second, while no lesson has been lost
    leccionesPerdidas, \* history: a lesson was lost, or two calls overlapped
    conmutaciones

varsLlamadas == <<sin_razonamiento, notas, llamada, rechazos, leccionesPerdidas,
                  conmutaciones>>

SinNotas == [token_param |-> "max_tokens", sin_temperatura |-> FALSE,
             sin_razonamiento_no_admitido |-> FALSE,
             no_admitidos |-> [m \in Modelos |-> {}]]

Callada == [pc |-> "libre", modelo |-> CHOOSE m \in Modelos : TRUE, vista |-> SinNotas,
            guardadas |-> <<>>, origen |-> <<>>, envia |-> {}, aprendido |-> {},
            fila |-> "ninguna", final |-> "ninguno"]

SinRechazos == [x \in Modelos \X Refusables |-> 0]

InitLlamadas ==
    /\ sin_razonamiento = FALSE
    /\ notas = SinNotas
    /\ llamada = [c \in Llamadas |-> Callada]
    /\ rechazos = SinRechazos
    /\ leccionesPerdidas = FALSE /\ conmutaciones = 0

(***************************************************************************)
(* Layers.                                                                 *)
(***************************************************************************)

(* The task asks for a temperature in code; a trial replaces its profile.  *)
capas(guardadas, ensayo) ==
    <<[nombre |-> "sistema", pone |-> {Temperatura}],
      [nombre |-> "proveedor", pone |-> guardadas["proveedor"]],
      [nombre |-> "modelo", pone |-> guardadas["modelo"]],
      [nombre |-> "tarea", pone |-> {Temperatura}],
      [nombre |-> "perfil", pone |-> IF ensayo THEN Opcionales ELSE guardadas["perfil"]]>>

(* The layers that set a parameter; the highest of them wins.              *)
Ponen(cs, k) == {i \in DOMAIN cs : k \in cs[i].pone}

(* Where each parameter that is sent comes from.                           *)
componer(guardadas, ensayo) ==
    LET cs == capas(guardadas, ensayo)
    IN  [k \in {x \in Claves \ SinEquivalente : Ponen(cs, x) # {}} |->
            cs[Max(Ponen(cs, k))].nombre]

(***************************************************************************)
(* Calls.                                                                  *)
(***************************************************************************)

(* Refusals are counted while every lesson has been kept.                  *)
Contar(cuenta) == rechazos' = IF leccionesPerdidas' THEN SinRechazos ELSE cuenta

EnVuelo == {c \in Llamadas : llamada[c].pc # "libre"}

(* `_run` inserts the row and `complete` builds the request from the notes *)
(* it has loaded.                                                          *)
_run(c, m, guardadas, ensayo) ==
    LET origen == componer(guardadas, ensayo) IN
    /\ llamada[c].pc = "libre"
    /\ llamada' = [llamada EXCEPT ![c] = [Callada EXCEPT
          !.pc = "enviar", !.modelo = m, !.vista = notas, !.fila = "sin confirmar",
          !.guardadas = guardadas, !.origen = origen,
          !.envia = ((DOMAIN origen \ notas.no_admitidos[m])
                     \ (IF notas.sin_temperatura THEN {Temperatura} ELSE {}))
                    \cup {notas.token_param}
                    \cup (IF sin_razonamiento /\ ~notas.sin_razonamiento_no_admitido
                          THEN {Razonar} ELSE {})]]
    /\ leccionesPerdidas' = (leccionesPerdidas \/ EnVuelo # {})
    /\ Contar(rechazos)
    /\ UNCHANGED <<sin_razonamiento, notas, conmutaciones>>

OtroLimite(x) == CHOOSE y \in Limites : y # x

(* Posts allowed: the corrections and the one after the last of them.      *)
SinMasEnvios(n) == n > MaxCorrecciones

(* What is left of a call once its answer, or its error, is there.         *)
PorCerrar(p, final) ==
    [Callada EXCEPT !.pc = "cerrar", !.final = final, !.fila = p.fila,
                    !.aprendido = p.aprendido]

_corregir(p, x) ==
    LET q == [p EXCEPT
                !.envia = (@ \ {x}) \cup (IF x \in Limites THEN {OtroLimite(x)} ELSE {}),
                !.aprendido = @ \cup {x}]
    IN  IF SinMasEnvios(Cardinality(q.aprendido)) THEN PorCerrar(q, "ERROR") ELSE q

(* A plausible slip: one list for every model of the endpoint.             *)
ParaTodos(antes, p) ==
    [m \in Modelos |-> antes[m] \cup (p.aprendido \cap Opcionales)]

(* The lessons on top of the notes as this call read them, the whole row   *)
(* written again; the optional ones are kept by model.                     *)
PorModelo(antes, p) ==
    [antes EXCEPT ![p.modelo] = @ \cup (p.aprendido \cap Opcionales)]

_recordar(p) ==
    IF p.aprendido = {} THEN notas
    ELSE [p.vista EXCEPT
            !.token_param = IF p.aprendido \cap Limites = {} THEN @ ELSE OtroLimite(@),
            !.sin_temperatura = @ \/ Temperatura \in p.aprendido,
            !.no_admitidos = PorModelo(@, p)]

Falla(c, p) ==
    /\ llamada' = [llamada EXCEPT ![c] = PorCerrar(p, "ERROR")]
    /\ leccionesPerdidas' = (leccionesPerdidas \/ p.aprendido # {})

(* 400, naming something this model does not take.                         *)
Rechazar(c, x) ==
    LET p == llamada[c] IN
    /\ p.pc = "enviar" /\ x \in p.envia \cap Rechaza[p.modelo]
    /\ \/ /\ x # Razonar
          /\ llamada' = [llamada EXCEPT ![c] = _corregir(p, x)]
          /\ UNCHANGED <<notas, leccionesPerdidas>>
       \/ \* `_anotar_rechazo` commits, the row of the execution with it;
          \* what this round had learned is not written.
          /\ x = Razonar
          /\ notas' = [p.vista EXCEPT !.sin_razonamiento_no_admitido = TRUE]
          /\ llamada' = [llamada EXCEPT ![c] = [p EXCEPT
                !.envia = @ \ {Razonar}, !.vista = notas', !.aprendido = {},
                !.fila = "EN_CURSO"]]
          /\ leccionesPerdidas' = (leccionesPerdidas \/ p.aprendido # {})
    /\ Contar([rechazos EXCEPT ![<<p.modelo, x>>] = IF @ < 2 THEN @ + 1 ELSE 2])
    /\ UNCHANGED <<sin_razonamiento, conmutaciones>>

(* Anything but a 400: what was learned is committed, the row of the       *)
(* execution with it; then the answer may be good, empty or an error.      *)
Responder(c) ==
    LET p == llamada[c] IN
    /\ p.pc = "enviar" /\ p.envia \cap Rechaza[p.modelo] = {}
    /\ notas' = _recordar(p)
    /\ \E final \in {"COMPLETADA", "ERROR"} :
          llamada' = [llamada EXCEPT ![c] = [PorCerrar(p, final) EXCEPT
             !.fila = IF p.aprendido = {} THEN @ ELSE "EN_CURSO"]]
    /\ UNCHANGED <<sin_razonamiento, rechazos, leccionesPerdidas, conmutaciones>>

(* No answer, or a 400 that names nothing that was sent.                   *)
SinRespuesta(c) ==
    /\ llamada[c].pc = "enviar"
    /\ Falla(c, llamada[c])
    /\ Contar(rechazos)
    /\ UNCHANGED <<sin_razonamiento, notas, conmutaciones>>

(* `_run` writes how it ended, and the caller has its answer or its error. *)
CerrarEjecucion(c) ==
    /\ llamada[c].pc = "cerrar"
    /\ llamada' = [llamada EXCEPT ![c] =
          [Callada EXCEPT !.fila = llamada[c].final]]
    /\ UNCHANGED <<sin_razonamiento, notas, rechazos, leccionesPerdidas, conmutaciones>>

(* The process dies: the row goes with its transaction, unless the call    *)
(* had committed a lesson.                                                 *)
MorirLlamando(c) ==
    /\ llamada[c].pc # "libre"
    /\ llamada' = [llamada EXCEPT ![c] = [Callada EXCEPT
          !.fila = IF llamada[c].fila = "EN_CURSO" THEN "EN_CURSO" ELSE "ninguna"]]
    /\ leccionesPerdidas' = TRUE
    /\ rechazos' = SinRechazos
    /\ UNCHANGED <<sin_razonamiento, notas, conmutaciones>>

(* The setting changes: what was refused of it is forgotten.               *)
update_razonamiento ==
    /\ conmutaciones < MaxConmutaciones
    /\ conmutaciones' = conmutaciones + 1
    /\ sin_razonamiento' = ~sin_razonamiento
    /\ notas' = [notas EXCEPT !.sin_razonamiento_no_admitido = FALSE]
    /\ leccionesPerdidas' = TRUE
    /\ rechazos' = SinRechazos
    /\ UNCHANGED <<llamada>>

NextLlamadas ==
    \/ \E c \in Llamadas :
          \/ \E m \in Modelos, guardadas \in Configuraciones, ensayo \in BOOLEAN :
                _run(c, m, guardadas, ensayo)
          \/ \E x \in Refusables : Rechazar(c, x)
          \/ Responder(c) \/ SinRespuesta(c) \/ CerrarEjecucion(c) \/ MorirLlamando(c)
    \/ update_razonamiento

SpecLlamadas == InitLlamadas /\ [][NextLlamadas]_varsLlamadas

(***************************************************************************)
(* Properties.                                                             *)
(***************************************************************************)

(* Type: every variable of the module stays in its domain.                 *)
TipoLlamadas ==
    /\ sin_razonamiento \in BOOLEAN /\ leccionesPerdidas \in BOOLEAN
    /\ notas.token_param \in Limites
    /\ notas.no_admitidos \in [Modelos -> SUBSET Opcionales]
    /\ \A c \in Llamadas :
          /\ llamada[c].pc \in {"libre", "enviar", "cerrar"}
          /\ llamada[c].envia \subseteq Refusables
          /\ llamada[c].aprendido \subseteq Refusables
    /\ rechazos \in [Modelos \X Refusables -> 0..2]
    /\ conmutaciones \in 0..MaxConmutaciones

(* `_recordar`, "per model": no setting is kept from a model that takes it *)
(* because another refused it, whatever calls overlap.                     *)
SoloLoRechazado == \A m \in Modelos : notas.no_admitidos[m] \subseteq Rechaza[m]

(* `_post`, "the wasted round trip happens once": the endpoint refuses a   *)
(* parameter of a model once, unless the call that learned it was lost or  *)
(* overlapped another, or the setting was changed.                         *)
UnaSolaVez == leccionesPerdidas \/ \A x \in Modelos \X Refusables : rechazos[x] <= 1

(* The corrections allowed are enough to drop everything a model refuses:  *)
(* a call never gives up on a request it had just put right.               *)
NoSeRinde ==
    \A c \in Llamadas :
       llamada[c].pc = "cerrar" => Cardinality(llamada[c].aprendido) <= MaxCorrecciones

(* "Extraction asks for temperature 0 [...]; a model-wide temperature must *)
(* not undo that": only the task's own profile, or a trial, is above it.   *)
LaTareaPorEncima ==
    \A c \in {c \in Llamadas : llamada[c].pc = "enviar"} :
       LET de == llamada[c].origen IN
       /\ de[Temperatura] \in {"tarea", "perfil"}
       /\ \A k \in DOMAIN de \cap llamada[c].guardadas["modelo"] : de[k] # "proveedor"

(* A call sends what it should and learns from what is refused.            *)
LlamadaEnOrden == SoloLoRechazado /\ UnaSolaVez /\ NoSeRinde /\ LaTareaPorEncima
=============================================================================
