----------------------------- MODULE AlertEngine -----------------------------
(***************************************************************************)
(* The alerts of one trip: the engine that recomputes them and the people  *)
(* who decide about them.                                                  *)
(*                                                                         *)
(* Every edit of the itinerary queues a recalculation, a nightly sweep     *)
(* starts one for every open trip, and a manager may start one by hand or  *)
(* change an alert at any moment.  A recalculation evaluates the rules,    *)
(* loads the alerts on record, and commits the differences later; nothing  *)
(* keeps two of them, or one and a manager, from overlapping.              *)
(*                                                                         *)
(* An alert is identified by its deduplication key; what the rules find in *)
(* the itinerary is, for each key, "no" or the severity of the problem.    *)
(***************************************************************************)
EXTENDS Naturals

CONSTANTS
    Claves,         \* deduplication keys
    Corredores,     \* processes that may be running the engine
    Personas,       \* requests that may be changing an alert
    MaxEdiciones,   \* bound: edits of the itinerary and of the trip's state
    MaxDecisiones,  \* bound: changes asked for by people
    MaxFallos       \* bound: broken rules, deaths of processes

ASSUME MaximosAlertasAssumption ==
    MaxEdiciones \in Nat /\ MaxDecisiones \in Nat /\ MaxFallos \in Nat

VARIABLES
    viaje,      \* is the trip open, or closed (finished, cancelled)
    problema,   \* what the rules would find in the committed itinerary
    alerta,     \* the row of each key, with its unique constraint
    ultimo,     \* the state the latest change of state on record leads to
    dicho,      \* the state the newest transition on record tells, whether it
                \* changed the state or only the severity
    decision,   \* history: the state a person last left the alert in
    pisada,     \* history: that decision was committed while others worked
                \* on the same alert
    encolados,  \* recalculations waiting in the broker
    repaso,     \* history: what is known of the recalculation that answers
                \* to the last change: it is done or waits in the broker,
                \* a run started directly is at it, or nothing is known
    corredor,   \* what each run of the engine is doing
    persona,    \* what each request is doing
    ediciones, decisiones, fallos

vars == <<viaje, problema, alerta, ultimo, dicho, decision, pisada, encolados,
          repaso, corredor, persona, ediciones, decisiones, fallos>>

Severidades == {"media", "critica"}
Hallazgos == Severidades \cup {"no"}

AlertState == {"ABIERTA", "ACEPTADA", "RESUELTA", "DESCARTADA"}
ALERT_ACKNOWLEDGED_STATES == {"ACEPTADA", "DESCARTADA"}

(* "ninguna" stands for a key with no row.                                 *)
Filas == [estado : AlertState \cup {"ninguna"}, sev : Severidades,
          auto : BOOLEAN]

SinFila == [estado |-> "ninguna", sev |-> "media", auto |-> FALSE]

SinAlertas == [k \in Claves |-> SinFila]

CorredorLibre == [pc |-> "libre", cola |-> FALSE,
                  visto |-> [k \in Claves |-> "no"],
                  mem |-> SinAlertas]

PersonaLibre(k) == [pc |-> "libre", clave |-> k, mem |-> SinFila,
                    nuevo |-> "ABIERTA"]

(* A trip nobody has edited yet has no alert.                              *)
Init ==
    /\ viaje = "abierto"
    /\ problema = [k \in Claves |-> "no"]
    /\ alerta = SinAlertas
    /\ ultimo = [k \in Claves |-> "ninguna"]
    /\ dicho = [k \in Claves |-> "ninguna"]
    /\ decision = [k \in Claves |-> "ninguna"]
    /\ pisada = [k \in Claves |-> FALSE]
    /\ encolados = 0
    /\ repaso = "hecho"
    /\ corredor = [c \in Corredores |-> CorredorLibre]
    /\ persona \in [Personas -> {PersonaLibre(k) : k \in Claves}]
    /\ ediciones = 0 /\ decisiones = 0 /\ fallos = 0

(***************************************************************************)
(* The itinerary.                                                          *)
(***************************************************************************)

(* An edit commits, and then queues a recalculation; a web process that    *)
(* dies in between queues none.                                            *)
Editar ==
    /\ ediciones < MaxEdiciones
    /\ ediciones' = ediciones + 1
    /\ problema' \in [Claves -> Hallazgos]
    /\ \/ /\ encolados' = encolados + 1 /\ repaso' = "hecho"
          /\ UNCHANGED fallos
       \/ /\ fallos < MaxFallos /\ fallos' = fallos + 1
          /\ repaso' = "falta"
          /\ UNCHANGED encolados
    /\ UNCHANGED <<viaje, alerta, ultimo, dicho, decision, pisada, corredor, persona,
                   decisiones>>

(* Who travels and where, a field that is confirmed, and the calendar      *)
(* change what the rules find, and no recalculation is queued: only the    *)
(* sweep of the night takes notice.                                        *)
CambiarSinRecalculo ==
    /\ ediciones < MaxEdiciones
    /\ ediciones' = ediciones + 1
    /\ problema' \in [Claves -> Hallazgos] \ {problema}
    /\ repaso' = "falta"
    /\ UNCHANGED <<viaje, alerta, ultimo, dicho, decision, pisada, encolados, corredor,
                   persona, decisiones, fallos>>

(* `change_status`: a trip is closed, or a cancelled one taken up again;   *)
(* no recalculation is queued.                                             *)
CambiarViaje ==
    /\ ediciones < MaxEdiciones
    /\ ediciones' = ediciones + 1
    /\ viaje' = IF viaje = "abierto" THEN "cerrado" ELSE "abierto"
    /\ UNCHANGED <<problema, alerta, ultimo, dicho, decision, pisada, encolados,
                   repaso, corredor, persona, decisiones, fallos>>

(***************************************************************************)
(* The engine.                                                             *)
(***************************************************************************)

(* Load the trip and evaluate the rules.  A rule that breaks is skipped,   *)
(* and so are its candidates.                                              *)
Evaluar(c, deCola) ==
    \E rotas \in SUBSET Claves :
        /\ corredor' = [corredor EXCEPT ![c] =
              [pc |-> "leer", cola |-> deCola,
               visto |-> [k \in Claves |-> IF k \in rotas THEN "no"
                                           ELSE problema[k]],
               mem |-> SinAlertas]]
        /\ repaso' =
              IF rotas = {} /\ \A d \in Corredores : corredor[d].pc = "libre"
              THEN IF deCola \/ repaso = "hecho" THEN "hecho" ELSE "enMarcha"
              ELSE "falta"
        /\ \/ rotas = {} /\ UNCHANGED fallos
           \/ rotas # {} /\ fallos < MaxFallos /\ fallos' = fallos + 1

(* A queued recalculation.  On a closed trip it ends at once.              *)
EmpezarDeCola(c) ==
    /\ corredor[c].pc = "libre" /\ encolados > 0
    /\ encolados' = encolados - 1
    /\ \/ viaje = "abierto" /\ Evaluar(c, TRUE)
       \/ /\ viaje = "cerrado" /\ repaso' = "falta"
          /\ UNCHANGED <<corredor, fallos>>
    /\ UNCHANGED <<viaje, problema, alerta, ultimo, dicho, decision, pisada, persona,
                   ediciones, decisiones>>

(* The nightly sweep, a manager's own request, or the fallback when the    *)
(* broker is down.                                                         *)
EmpezarDirecto(c) ==
    /\ corredor[c].pc = "libre" /\ viaje = "abierto"
    /\ Evaluar(c, FALSE)
    /\ UNCHANGED <<viaje, problema, alerta, ultimo, dicho, decision, pisada,
                   encolados, persona, ediciones, decisiones>>

(* `reconcile` loads the alerts of the trip.                               *)
LeerAlertas(c) ==
    /\ corredor[c].pc = "leer"
    /\ corredor' = [corredor EXCEPT ![c].pc = "escribir", ![c].mem = alerta]
    /\ UNCHANGED <<viaje, problema, alerta, ultimo, dicho, decision, pisada,
                   encolados, repaso, persona, ediciones, decisiones, fallos>>

CerradaAMano(a) == a.estado = "RESUELTA" /\ ~a.auto

(* Deliberate faults: decisions are not respected; an alert closed by the  *)
(* engine is never reopened.                                               *)
ConciliarTodo(a, h) ==
    IF h # "no" THEN [estado |-> "ABIERTA", sev |-> h, auto |-> FALSE]
    ELSE IF a.estado = "ABIERTA"
         THEN [a EXCEPT !.estado = "RESUELTA", !.auto = TRUE]
    ELSE a

ConciliarSinReabrir(a, h) ==
    CASE h # "no" /\ a.estado = "ninguna" ->
            [estado |-> "ABIERTA", sev |-> h, auto |-> FALSE]
      [] h # "no" /\ a.estado = "ABIERTA" -> [a EXCEPT !.sev = h]
      [] h = "no" /\ a.estado = "ABIERTA" ->
            [a EXCEPT !.estado = "RESUELTA", !.auto = TRUE]
      [] OTHER -> a

(* What `reconcile` makes of an alert as it loaded it and of what the rules*)
(* found for its key.                                                      *)
Conciliar(a, h) ==
    CASE h # "no" /\ a.estado = "ninguna" ->
            [estado |-> "ABIERTA", sev |-> h, auto |-> FALSE]
      [] h # "no" /\ a.estado = "RESUELTA" /\ a.auto ->
            [estado |-> "ABIERTA", sev |-> h, auto |-> FALSE]
      [] h # "no" /\ a.estado = "ABIERTA" -> [a EXCEPT !.sev = h]
      [] h = "no" /\ a.estado = "ABIERTA" ->
            [a EXCEPT !.estado = "RESUELTA", !.auto = TRUE]
      [] OTHER -> a

(* Deliberate fault: the whole row is written.                             *)
EscritaEntera(fila, mem, nueva) == IF nueva = mem THEN fila ELSE nueva

(* The UPDATE of a session that loaded mem and wants nueva sets only the   *)
(* columns that differ between the two; the others keep what is committed. *)
Escrita(fila, mem, nueva) ==
    [estado |-> IF nueva.estado # mem.estado THEN nueva.estado ELSE fila.estado,
     sev    |-> IF nueva.sev # mem.sev THEN nueva.sev ELSE fila.sev,
     auto   |-> IF nueva.auto # mem.auto THEN nueva.auto ELSE fila.auto]

(* An INSERT of a key another run inserted meanwhile breaks the unique     *)
(* constraint.                                                             *)
Choca(c) == \E k \in Claves : /\ corredor[c].mem[k].estado = "ninguna"
                              /\ corredor[c].visto[k] # "no"
                              /\ alerta[k].estado # "ninguna"

(* `_transition` and `_apply`: a change of state is recorded, and so is one*)
(* of severity alone, with the state the run had loaded.                   *)
Apuntada(mem, nueva, antes) ==
    IF nueva.estado # mem.estado \/ nueva.sev # mem.sev THEN nueva.estado
    ELSE antes

(* The commit.  A failed INSERT rolls everything back; the run records the *)
(* error and counts as done, so nobody retries it.                         *)
Escribir(c) ==
    LET r == corredor[c]
        nueva(k) == Conciliar(r.mem[k], r.visto[k]) IN
    /\ r.pc = "escribir"
    /\ \/ /\ ~Choca(c)
          /\ alerta' = [k \in Claves |->
                IF r.mem[k].estado = "ninguna" /\ r.visto[k] # "no"
                THEN nueva(k) ELSE Escrita(alerta[k], r.mem[k], nueva(k))]
          /\ ultimo' = [k \in Claves |->
                IF nueva(k).estado # r.mem[k].estado THEN nueva(k).estado
                ELSE ultimo[k]]
          /\ dicho' = [k \in Claves |-> Apuntada(r.mem[k], nueva(k), dicho[k])]
       \/ Choca(c) /\ UNCHANGED <<alerta, ultimo, dicho>>
    /\ corredor' = [corredor EXCEPT ![c] = CorredorLibre]
    /\ repaso' = IF repaso = "enMarcha" THEN "hecho" ELSE repaso
    /\ UNCHANGED <<viaje, problema, decision, pisada, encolados, persona,
                   ediciones, decisiones, fallos>>

(* Deliberate fault: the message is acknowledged when it is taken.         *)
MorirSinReentrega(c) ==
    /\ corredor[c].pc # "libre"
    /\ fallos < MaxFallos
    /\ fallos' = fallos + 1
    /\ repaso' = IF repaso = "enMarcha" THEN "falta" ELSE repaso
    /\ corredor' = [corredor EXCEPT ![c] = CorredorLibre]
    /\ UNCHANGED <<viaje, problema, alerta, ultimo, dicho, decision, pisada,
                   encolados, persona, ediciones, decisiones>>

(* The process dies: a queued recalculation is delivered again.            *)
Morir(c) ==
    /\ corredor[c].pc # "libre"
    /\ fallos < MaxFallos
    /\ fallos' = fallos + 1
    /\ encolados' = IF corredor[c].cola THEN encolados + 1 ELSE encolados
    /\ repaso' = IF repaso = "enMarcha" THEN "falta" ELSE repaso
    /\ corredor' = [corredor EXCEPT ![c] = CorredorLibre]
    /\ UNCHANGED <<viaje, problema, alerta, ultimo, dicho, decision, pisada, persona,
                   ediciones, decisiones>>

(***************************************************************************)
(* The people: `change_state` loads the alert and commits later.           *)
(***************************************************************************)
Cambiada(a, nuevo) ==
    [a EXCEPT !.estado = nuevo, !.auto = @ /\ nuevo = "ACEPTADA"]

Pedir(p) ==
    /\ persona[p].pc = "libre" /\ decisiones < MaxDecisiones
    /\ decisiones' = decisiones + 1
    /\ \E k \in Claves, nuevo \in AlertState :
          /\ alerta[k].estado \notin {"ninguna", nuevo}
          /\ persona' = [persona EXCEPT ![p] =
                [pc |-> "guardar", clave |-> k, mem |-> alerta[k],
                 nuevo |-> nuevo]]
    /\ UNCHANGED <<viaje, problema, alerta, ultimo, dicho, decision, pisada,
                   encolados, repaso, corredor, ediciones, fallos>>

GuardarCambio(p) ==
    LET q == persona[p]
        k == q.clave IN
    /\ q.pc = "guardar"
    /\ alerta' = [alerta EXCEPT ![k] =
                     Escrita(@, q.mem, Cambiada(q.mem, q.nuevo))]
    /\ ultimo' = [ultimo EXCEPT ![k] = q.nuevo]
    /\ dicho' = [dicho EXCEPT ![k] = q.nuevo]
    /\ decision' = [decision EXCEPT ![k] = q.nuevo]
    /\ pisada' = [pisada EXCEPT ![k] =
                     \/ alerta[k] # q.mem
                     \/ \E c \in Corredores : corredor[c].pc = "escribir"]
    /\ persona' = [persona EXCEPT ![p] = PersonaLibre(k)]
    /\ repaso' = IF q.nuevo = "ABIERTA" THEN "falta" ELSE repaso
    /\ UNCHANGED <<viaje, problema, encolados, corredor, ediciones,
                   decisiones, fallos>>

(***************************************************************************)
(* The specification.                                                      *)
(***************************************************************************)
Correr(c) == \/ EmpezarDeCola(c) \/ EmpezarDirecto(c)
             \/ LeerAlertas(c) \/ Escribir(c)

Next == \/ Editar \/ CambiarSinRecalculo \/ CambiarViaje
        \/ \E c \in Corredores : Correr(c) \/ Morir(c)
        \/ \E p \in Personas : Pedir(p) \/ GuardarCambio(p)

Spec == Init /\ [][Next]_vars

(* The sweep of beat comes back every night, so a free process always ends *)
(* up running the engine again; people are obliged to nothing.             *)
FairSpec == Spec /\ \A c \in Corredores : WF_vars(Correr(c))

(***************************************************************************)
(* What must hold.                                                         *)
(***************************************************************************)

(* The type of every variable.                                             *)
TypeOK ==
    /\ viaje \in {"abierto", "cerrado"}
    /\ problema \in [Claves -> Hallazgos]
    /\ alerta \in [Claves -> Filas]
    /\ ultimo \in [Claves -> AlertState \cup {"ninguna"}]
    /\ dicho \in [Claves -> AlertState \cup {"ninguna"}]
    /\ decision \in [Claves -> AlertState \cup {"ninguna"}]
    /\ pisada \in [Claves -> BOOLEAN]
    /\ encolados \in Nat
    /\ repaso \in {"hecho", "enMarcha", "falta"}
    /\ corredor \in [Corredores -> [pc : {"libre", "leer", "escribir"},
                     cola : BOOLEAN, visto : [Claves -> Hallazgos],
                     mem : [Claves -> Filas]]]
    /\ persona \in [Personas -> [pc : {"libre", "guardar"}, clave : Claves,
                                 mem : Filas, nuevo : AlertState]]
    /\ ediciones \in Nat /\ decisiones \in Nat /\ fallos \in Nat

(* An alert a person accepted, dismissed or resolved stays exactly so      *)
(* through every later recalculation, reappearances of the problem, broken *)
(* rules and redeliveries included, provided no run had the alerts loaded, *)
(* and nobody changed the row, when the decision was committed             *)
(* (reconciler.py, invariant 4, for the runs that start after it).         *)
DecisionRespetada ==
    \A k \in Claves :
        decision[k] \in {"ACEPTADA", "DESCARTADA", "RESUELTA"} /\ ~pisada[k]
            => alerta[k].estado = decision[k]

(* What the history tells of an alert.  The latest change of state on      *)
(* record is the state it is in, although the writers worked from stale    *)
(* rows (AlertTransition beside every assignment of estado).  The newest   *)
(* record may be of a severity a run refreshed, with the state that run had*)
(* loaded: it may still say open of an alert closed meanwhile by a person  *)
(* or by another run, and it says nothing else that is not so.  A decision *)
(* that nothing overlapped is what the newest record tells for as long as  *)
(* it stands.                                                              *)
HistorialConcuerda ==
    \A k \in Claves :
        /\ alerta[k].estado = ultimo[k]
        /\ dicho[k] \in {alerta[k].estado, "ABIERTA"}
        /\ decision[k] \in {"ACEPTADA", "DESCARTADA", "RESUELTA"} /\ ~pisada[k]
              => dicho[k] = decision[k]

(* The alerts tell what the itinerary says: no open alert without its      *)
(* problem, an alert of the right severity for every problem, and only a   *)
(* person's word keeps one from being open.  The exception is a decision   *)
(* that overlapped a run: the two write different columns, and the row may *)
(* be left closed, as if by hand, by nobody's decision, for good.          *)
AlDia == \A k \in Claves :
    /\ problema[k] = "no" => alerta[k].estado # "ABIERTA"
    /\ problema[k] # "no" =>
          \/ alerta[k].estado = "ABIERTA" /\ alerta[k].sev = problema[k]
          \/ alerta[k].estado \notin {"ABIERTA", "ninguna"}
                /\ (alerta[k].estado = decision[k] \/ pisada[k])

(* Once the last recalculation a change queued has ended, or one started   *)
(* directly after it, the alerts are up to date, and no wait for the sweep *)
(* is needed: a death puts the recalculation back in the broker, and a     *)
(* person may decide while it runs (alert_service.py, "stale alerts are    *)
(* worse than a slow request").  The sweep is needed when runs overlap,    *)
(* when a rule breaks, when the trip was closed, when the change queued    *)
(* nothing, and when a person reopens an alert.                            *)
AlDiaSinPendientes ==
    /\ repaso = "hecho" /\ encolados = 0
    /\ \A c \in Corredores : corredor[c].pc = "libre"
    => AlDia

(* Once the edits, the decisions and the failures are over, the alerts of  *)
(* an open trip end up to date and stay so: a run lost to a crash, to a    *)
(* broken rule or to the unique constraint is made good, and a stale run   *)
(* that commits last does not have the last word.                          *)
AcabaAlDia == <>[](viaje = "cerrado" \/ AlDia)

(***************************************************************************)
(* What the repository's documents say and the code does not do.           *)
(***************************************************************************)

(* reconciler.py: human decisions are never undone.                        *)
DecisionNoSeDeshace ==
    \A k \in Claves :
        decision[k] \in ALERT_ACKNOWLEDGED_STATES
            => alerta[k].estado = decision[k]
=============================================================================
