-------------------------- MODULE AlertEngineProofs --------------------------
(***************************************************************************)
(* Proofs about AlertEngine, for any keys, processes, people and bounds.   *)
(***************************************************************************)
EXTENDS AlertEngine, TLAPS

USE MaximosAlertasAssumption

(***************************************************************************)
(* What the writers compute.                                               *)
(***************************************************************************)

(* What `reconcile` makes of an alert is an alert.                         *)
LEMMA ConciliarTipo ==
  ASSUME NEW a \in Filas, NEW h \in Hallazgos
  PROVE  Conciliar(a, h) \in Filas
<1>1. CASE h # "no"
  <2>1. h \in Severidades
    BY <1>1 DEF Hallazgos
  <2> QED BY <1>1, <2>1 DEF Conciliar, Filas, AlertState
<1>2. CASE h = "no"
  BY <1>2 DEF Conciliar, Filas, AlertState
<1> QED BY <1>1, <1>2

(* A decision as `reconcile` finds it is left as it was.                   *)
LEMMA ConciliarRespeta ==
  ASSUME NEW a \in Filas, NEW h \in Hallazgos,
         a.estado \in ALERT_ACKNOWLEDGED_STATES \/ CerradaAMano(a)
  PROVE  Conciliar(a, h) = a
BY DEF Conciliar, CerradaAMano, ALERT_ACKNOWLEDGED_STATES, Filas

(* A change of severity alone is made on an open alert, and leaves it open.*)
LEMMA ConciliarSoloGravedad ==
  ASSUME NEW a \in Filas, NEW h \in Hallazgos,
         Conciliar(a, h).sev # a.sev, Conciliar(a, h).estado = a.estado
  PROVE  a.estado = "ABIERTA"
BY DEF Conciliar, Filas

(* A row after an UPDATE is a row, and its state changed just as the       *)
(* session meant.                                                          *)
LEMMA EscritaTipo ==
  ASSUME NEW f \in Filas, NEW m \in Filas, NEW n \in Filas
  PROVE  /\ Escrita(f, m, n) \in Filas
         /\ Escrita(f, m, n).estado = IF n.estado # m.estado THEN n.estado
                                      ELSE f.estado
         /\ n = m => Escrita(f, m, n) = f
         /\ f = m => Escrita(f, m, n) = n
BY DEF Escrita, Filas

(* What a person makes of an alert is an alert in the state asked for.     *)
LEMMA CambiadaTipo ==
  ASSUME NEW a \in Filas, NEW s \in AlertState
  PROVE  /\ Cambiada(a, s) \in Filas
         /\ Cambiada(a, s).estado = s
         /\ s # "ACEPTADA" => Cambiada(a, s).auto = FALSE
BY DEF Cambiada, Filas, AlertState

(***************************************************************************)
(* The inductive invariant.                                                *)
(***************************************************************************)

(* A request about to commit asks for another state of an alert there is.  *)
PeticionReal ==
    \A p \in Personas : persona[p].pc = "guardar" =>
        persona[p].mem.estado \notin {"ninguna", persona[p].nuevo}

(* An alert a reconciliation must leave alone, with the decision d on it.  *)
Intocable(a, d) ==
    a.estado = d /\ (a.estado \in ALERT_ACKNOWLEDGED_STATES \/ CerradaAMano(a))

(* A decision nobody was writing over is on the row, and so is it in what  *)
(* every run that has loaded the alerts since then remembers of it.        *)
Respeto ==
    \A k \in Claves :
        decision[k] \in {"ACEPTADA", "DESCARTADA", "RESUELTA"} /\ ~pisada[k] =>
            /\ Intocable(alerta[k], decision[k])
            /\ \A c \in Corredores : corredor[c].pc = "escribir" =>
                  Intocable(corredor[c].mem[k], decision[k])

AlertInv == TypeOK /\ HistorialConcuerda /\ PeticionReal /\ Respeto

(* The invariant holds of a trip without alerts.                           *)
LEMMA AlertInicial == Init => AlertInv
<1> SUFFICES ASSUME Init PROVE AlertInv
  OBVIOUS
<1> USE DEF Init
<1>1. SinFila \in Filas
  BY DEF SinFila, Filas, Severidades
<1>2. TypeOK
  <2>1. CorredorLibre \in [pc : {"libre", "leer", "escribir"}, cola : BOOLEAN,
                           visto : [Claves -> Hallazgos], mem : [Claves -> Filas]]
    BY <1>1 DEF CorredorLibre, SinAlertas, Hallazgos
  <2>2. \A k \in Claves : PersonaLibre(k) \in
           [pc : {"libre", "guardar"}, clave : Claves, mem : Filas,
            nuevo : AlertState]
    BY <1>1 DEF PersonaLibre, AlertState
  <2>3. persona \in [Personas -> [pc : {"libre", "guardar"}, clave : Claves,
                                  mem : Filas, nuevo : AlertState]]
    BY <2>2
  <2> QED BY <1>1, <2>1, <2>3 DEF TypeOK, SinAlertas, Hallazgos
<1>3. HistorialConcuerda
  BY DEF HistorialConcuerda, SinAlertas, SinFila
<1>4. PeticionReal
  BY DEF PeticionReal, PersonaLibre
<1>5. Respeto
  BY DEF Respeto
<1> QED BY <1>2, <1>3, <1>4, <1>5 DEF AlertInv

(* Evaluating the rules touches only the run.                              *)
LEMMA EvaluarTipo ==
  ASSUME TypeOK, NEW c \in Corredores, NEW b \in BOOLEAN, Evaluar(c, b)
  PROVE  /\ corredor' \in [Corredores -> [pc : {"libre", "leer", "escribir"},
                cola : BOOLEAN, visto : [Claves -> Hallazgos],
                mem : [Claves -> Filas]]]
         /\ fallos' \in Nat
         /\ repaso' \in {"hecho", "enMarcha", "falta"}
         /\ corredor'[c].pc = "leer"
         /\ \A d \in Corredores \ {c} : corredor'[d] = corredor[d]
<1>1. PICK rotas \in SUBSET Claves :
        /\ corredor' = [corredor EXCEPT ![c] =
              [pc |-> "leer", cola |-> b,
               visto |-> [k \in Claves |-> IF k \in rotas THEN "no"
                                           ELSE problema[k]],
               mem |-> SinAlertas]]
        /\ fallos' \in {fallos, fallos + 1}
        /\ repaso' \in {"hecho", "enMarcha", "falta"}
  BY DEF Evaluar
<1>2. [k \in Claves |-> IF k \in rotas THEN "no" ELSE problema[k]]
        \in [Claves -> Hallazgos]
  BY DEF TypeOK, Hallazgos
<1>3. SinAlertas \in [Claves -> Filas]
  BY DEF SinAlertas, SinFila, Filas, Severidades
<1> QED BY <1>1, <1>2, <1>3 DEF TypeOK
(* An edit, a change of the trip, a request and a run that starts, loads or*)
(* dies leave every row, transition and decision alone; only what a run    *)
(* remembers is new, and it is what the rows say.                          *)
LEMMA SinEscrituraInv ==
  ASSUME AlertInv, TypeOK', PeticionReal',
         UNCHANGED <<alerta, ultimo, dicho, decision, pisada>>,
         \A c \in Corredores : corredor'[c].pc = "escribir" =>
            \/ corredor[c].pc = "escribir" /\ corredor'[c] = corredor[c]
            \/ corredor'[c].mem = alerta
  PROVE  AlertInv'
<1>1. HistorialConcuerda'
  BY DEF AlertInv, HistorialConcuerda
<1>2. Respeto'
  BY DEF AlertInv, Respeto, Intocable, CerradaAMano
<1> QED BY <1>1, <1>2 DEF AlertInv

(* The commit of a run: it closes, reopens or refreshes no alert with such *)
(* a decision on it.                                                       *)
LEMMA EscribirInv ==
  ASSUME AlertInv, NEW c \in Corredores, Escribir(c)
  PROVE  AlertInv'
<1> USE DEF AlertInv
<1> DEFINE r == corredor[c]
           nueva(k) == Conciliar(r.mem[k], r.visto[k])
           creada(k) == r.mem[k].estado = "ninguna" /\ r.visto[k] # "no"
<1>1. /\ r.pc = "escribir"
      /\ corredor' = [corredor EXCEPT ![c] = CorredorLibre]
      /\ repaso' \in {repaso, "hecho"}
      /\ UNCHANGED <<viaje, problema, decision, pisada, encolados, persona,
                     ediciones, decisiones, fallos>>
  BY DEF Escribir
<1>2. \/ /\ ~Choca(c)
         /\ alerta' = [k \in Claves |->
               IF creada(k) THEN nueva(k)
               ELSE Escrita(alerta[k], r.mem[k], nueva(k))]
         /\ ultimo' = [k \in Claves |->
               IF nueva(k).estado # r.mem[k].estado THEN nueva(k).estado
               ELSE ultimo[k]]
         /\ dicho' = [k \in Claves |-> Apuntada(r.mem[k], nueva(k), dicho[k])]
      \/ UNCHANGED <<alerta, ultimo, dicho>>
  BY DEF Escribir
<1>3. \A k \in Claves : /\ r.mem[k] \in Filas /\ r.visto[k] \in Hallazgos
                        /\ alerta[k] \in Filas /\ nueva(k) \in Filas
  BY ConciliarTipo DEF TypeOK
<1>4. \A k \in Claves : nueva(k).estado \in AlertState \cup {"ninguna"}
  BY <1>3 DEF Filas
<1>5. \A k \in Claves :
        Escrita(alerta[k], r.mem[k], nueva(k)) \in Filas
  BY <1>3, EscritaTipo
<1>6. TypeOK'
  <2>1. CorredorLibre \in [pc : {"libre", "leer", "escribir"}, cola : BOOLEAN,
                           visto : [Claves -> Hallazgos], mem : [Claves -> Filas]]
    BY DEF CorredorLibre, SinAlertas, SinFila, Filas, Hallazgos, Severidades
  <2>2. alerta' \in [Claves -> Filas]
    BY <1>2, <1>3, <1>5 DEF TypeOK
  <2>3. ultimo' \in [Claves -> AlertState \cup {"ninguna"}]
    BY <1>2, <1>4 DEF TypeOK
  <2>4. \A k \in Claves : Apuntada(r.mem[k], nueva(k), dicho[k])
                            \in AlertState \cup {"ninguna"}
    BY <1>4 DEF TypeOK, Apuntada
  <2>5. dicho' \in [Claves -> AlertState \cup {"ninguna"}]
    BY <1>2, <2>4 DEF TypeOK
  <2> QED BY <1>1, <2>1, <2>2, <2>3, <2>5 DEF TypeOK
<1>7. HistorialConcuerda'
  <2> SUFFICES ASSUME NEW k \in Claves
               PROVE  /\ alerta'[k].estado = ultimo'[k]
                      /\ dicho'[k] \in {alerta'[k].estado, "ABIERTA"}
                      /\ decision[k] \in {"ACEPTADA", "DESCARTADA", "RESUELTA"}
                         /\ ~pisada[k] => dicho'[k] = decision[k]
    BY <1>1 DEF HistorialConcuerda
  <2>1. /\ alerta[k].estado = ultimo[k]
        /\ dicho[k] \in {alerta[k].estado, "ABIERTA"}
        /\ decision[k] \in {"ACEPTADA", "DESCARTADA", "RESUELTA"}
           /\ ~pisada[k] => dicho[k] = decision[k]
    BY DEF HistorialConcuerda
  <2>5. decision[k] \in {"ACEPTADA", "DESCARTADA", "RESUELTA"} /\ ~pisada[k]
           => nueva(k) = r.mem[k] /\ ~creada(k)
    BY <1>1, <1>3, ConciliarRespeta DEF Respeto, Intocable
  <2>6. UNCHANGED <<alerta, ultimo, dicho>>
           \/ dicho'[k] = Apuntada(r.mem[k], nueva(k), dicho[k])
    BY <1>2
  <2>7. Apuntada(r.mem[k], nueva(k), dicho[k]) =
           IF nueva(k).estado # r.mem[k].estado THEN nueva(k).estado
           ELSE IF nueva(k).sev # r.mem[k].sev THEN "ABIERTA" ELSE dicho[k]
    BY <1>3, ConciliarSoloGravedad DEF Apuntada
  <2>2. CASE UNCHANGED <<alerta, ultimo, dicho>>
    BY <2>1, <2>2
  <2>3. CASE alerta'[k] = nueva(k) /\ creada(k) /\
             ultimo'[k] = IF nueva(k).estado # r.mem[k].estado
                          THEN nueva(k).estado ELSE ultimo[k]
    <3>1. nueva(k).estado = "ABIERTA" /\ r.mem[k].estado = "ninguna"
      BY <2>3 DEF Conciliar
    <3> HIDE DEF nueva
    <3>2. dicho'[k] = "ABIERTA" \/ UNCHANGED <<alerta, ultimo, dicho>>
      BY <2>6, <2>7, <3>1
    <3> QED BY <2>1, <2>3, <2>5, <3>1, <3>2
  <2>4. CASE alerta'[k] = Escrita(alerta[k], r.mem[k], nueva(k)) /\
             ultimo'[k] = IF nueva(k).estado # r.mem[k].estado
                          THEN nueva(k).estado ELSE ultimo[k]
    <3>1. alerta'[k].estado = IF nueva(k).estado # r.mem[k].estado
                              THEN nueva(k).estado ELSE alerta[k].estado
      BY <2>4, <1>3, EscritaTipo
    <3> HIDE DEF nueva
    <3>2. dicho'[k] \in {alerta'[k].estado, "ABIERTA"}
      BY <2>1, <2>6, <2>7, <3>1
    <3>3. decision[k] \in {"ACEPTADA", "DESCARTADA", "RESUELTA"} /\ ~pisada[k]
             => dicho'[k] = decision[k]
      BY <2>1, <2>5, <2>6, <2>7
    <3> QED BY <2>1, <2>4, <3>1, <3>2, <3>3
  <2> QED BY <1>2, <2>1, <2>2, <2>3, <2>4
<1>8. PeticionReal'
  BY <1>1 DEF PeticionReal
<1>9. Respeto'
  <2> SUFFICES ASSUME NEW k \in Claves,
                      decision[k] \in {"ACEPTADA", "DESCARTADA", "RESUELTA"},
                      ~pisada[k]
               PROVE  /\ Intocable(alerta'[k], decision[k])
                      /\ \A d \in Corredores : corredor'[d].pc = "escribir" =>
                            Intocable(corredor'[d].mem[k], decision[k])
    BY <1>1 DEF Respeto, Intocable, CerradaAMano
  <2>1. Intocable(alerta[k], decision[k]) /\ Intocable(r.mem[k], decision[k])
    BY <1>1 DEF Respeto
  <2>2. nueva(k) = r.mem[k]
    BY <2>1, <1>3, ConciliarRespeta DEF Intocable
  <2>3. ~creada(k)
    BY <2>1 DEF Intocable
  <2>4. Escrita(alerta[k], r.mem[k], nueva(k)) = alerta[k]
    BY <2>2, <1>3, EscritaTipo
  <2>5. alerta'[k] = alerta[k]
    BY <1>2, <2>3, <2>4
  <2>6. \A d \in Corredores : corredor'[d].pc = "escribir" =>
           corredor[d].pc = "escribir" /\ corredor'[d] = corredor[d]
    BY <1>1 DEF TypeOK, CorredorLibre
  <2> QED BY <2>1, <2>5, <2>6 DEF Respeto
<1> QED BY <1>6, <1>7, <1>8, <1>9

(* A person's commit: when nobody was writing over it, the row says just   *)
(* what was decided.                                                       *)
LEMMA GuardarInv ==
  ASSUME AlertInv, NEW p \in Personas, GuardarCambio(p)
  PROVE  AlertInv'
<1> USE DEF AlertInv
<1> DEFINE q == persona[p]
           k == q.clave
           n == Cambiada(q.mem, q.nuevo)
<1>1. /\ k \in Claves /\ q.mem \in Filas /\ q.nuevo \in AlertState
      /\ q.mem.estado # q.nuevo /\ alerta[k] \in Filas
  BY DEF TypeOK, GuardarCambio, PeticionReal
<1>2. n \in Filas /\ n.estado = q.nuevo /\ (q.nuevo # "ACEPTADA" => ~n.auto)
  BY <1>1, CambiadaTipo
<1>3. /\ Escrita(alerta[k], q.mem, n) \in Filas
      /\ Escrita(alerta[k], q.mem, n).estado = q.nuevo
      /\ alerta[k] = q.mem => Escrita(alerta[k], q.mem, n) = n
  BY <1>1, <1>2, EscritaTipo
<1>4. /\ alerta' = [alerta EXCEPT ![k] = Escrita(alerta[k], q.mem, n)]
      /\ ultimo' = [ultimo EXCEPT ![k] = q.nuevo]
      /\ dicho' = [dicho EXCEPT ![k] = q.nuevo]
      /\ decision' = [decision EXCEPT ![k] = q.nuevo]
      /\ persona' = [persona EXCEPT ![p] = PersonaLibre(k)]
      /\ repaso' \in {repaso, "falta"}
      /\ UNCHANGED <<viaje, problema, encolados, corredor, ediciones,
                     decisiones, fallos>>
  BY DEF GuardarCambio
<1>5. /\ pisada' \in [Claves -> BOOLEAN]
      /\ ~pisada'[k] => /\ alerta[k] = q.mem
                        /\ \A c \in Corredores : corredor[c].pc # "escribir"
      /\ \A j \in Claves \ {k} : pisada'[j] = pisada[j]
  BY <1>1 DEF GuardarCambio, TypeOK
<1>6. TypeOK'
  <2>1. PersonaLibre(k) \in [pc : {"libre", "guardar"}, clave : Claves,
                             mem : Filas, nuevo : AlertState]
    BY <1>1 DEF PersonaLibre, SinFila, Filas, AlertState, Severidades
  <2> QED BY <1>1, <1>3, <1>4, <1>5, <2>1 DEF TypeOK
<1>7. HistorialConcuerda'
  <2> SUFFICES ASSUME NEW j \in Claves
               PROVE  /\ alerta'[j].estado = ultimo'[j]
                      /\ dicho'[j] \in {alerta'[j].estado, "ABIERTA"}
                      /\ decision'[j] \in {"ACEPTADA", "DESCARTADA", "RESUELTA"}
                         /\ ~pisada'[j] => dicho'[j] = decision'[j]
    BY DEF HistorialConcuerda
  <2>1. CASE j = k
    BY <1>1, <1>3, <1>4, <2>1 DEF TypeOK
  <2>2. CASE j # k
    BY <1>1, <1>4, <1>5, <2>2 DEF HistorialConcuerda, TypeOK
  <2> QED BY <2>1, <2>2
<1>8. PeticionReal'
  BY <1>1, <1>4 DEF PeticionReal, PersonaLibre, TypeOK
<1>9. Respeto'
  <2> SUFFICES ASSUME NEW j \in Claves,
                      decision'[j] \in {"ACEPTADA", "DESCARTADA", "RESUELTA"},
                      ~pisada'[j]
               PROVE  /\ Intocable(alerta'[j], decision'[j])
                      /\ \A c \in Corredores : corredor[c].pc = "escribir" =>
                            Intocable(corredor[c].mem[j], decision'[j])
    BY <1>4 DEF Respeto, Intocable, CerradaAMano
  <2>1. CASE j = k
    <3>1. alerta'[j] = n /\ decision'[j] = q.nuevo
      BY <1>1, <1>3, <1>4, <1>5, <2>1 DEF TypeOK
    <3>2. Intocable(n, q.nuevo)
      BY <1>2, <3>1 DEF Intocable, CerradaAMano, ALERT_ACKNOWLEDGED_STATES
    <3> QED BY <3>1, <3>2, <1>5, <2>1
  <2>2. CASE j # k
    BY <1>1, <1>4, <1>5, <2>2 DEF Respeto, TypeOK
  <2> QED BY <2>1, <2>2
<1> QED BY <1>6, <1>7, <1>8, <1>9
(* Everything else an action does, with the type of what it changes.       *)
LEMMA OtrosPasosInv ==
  ASSUME AlertInv,
         \/ Editar \/ CambiarSinRecalculo \/ CambiarViaje
         \/ \E c \in Corredores : \/ EmpezarDeCola(c) \/ EmpezarDirecto(c)
                                  \/ LeerAlertas(c) \/ Morir(c)
         \/ \E p \in Personas : Pedir(p)
  PROVE  AlertInv'
<1> USE DEF AlertInv
<1>1. CASE Editar \/ CambiarSinRecalculo \/ CambiarViaje
  <2>1. /\ UNCHANGED <<alerta, ultimo, dicho, decision, pisada, corredor, persona>>
        /\ TypeOK'
    BY <1>1 DEF Editar, CambiarSinRecalculo, CambiarViaje, TypeOK
  <2>2. PeticionReal'
    BY <2>1 DEF PeticionReal
  <2> QED BY <2>1, <2>2, SinEscrituraInv
<1>2. ASSUME NEW c \in Corredores, EmpezarDeCola(c) \/ EmpezarDirecto(c)
      PROVE  AlertInv'
  <2>1. /\ UNCHANGED <<alerta, ultimo, dicho, decision, pisada, persona, viaje,
                       problema, ediciones, decisiones>>
        /\ encolados' \in Nat
    <3>1. encolados \in Nat
      BY DEF TypeOK
    <3>2. CASE EmpezarDeCola(c)
      <4>1. encolados > 0 /\ encolados' = encolados - 1
        BY <3>2 DEF EmpezarDeCola
      <4> QED BY <3>1, <3>2, <4>1 DEF EmpezarDeCola
    <3>3. CASE EmpezarDirecto(c)
      BY <3>1, <3>3 DEF EmpezarDirecto
    <3> QED BY <1>2, <3>2, <3>3
  <2>2. CASE repaso' = "falta" /\ UNCHANGED <<corredor, fallos>>
    <3>1. TypeOK' /\ PeticionReal'
      BY <2>1, <2>2 DEF TypeOK, PeticionReal
    <3> QED BY <2>1, <2>2, <3>1, SinEscrituraInv
  <2>3. ASSUME NEW b \in BOOLEAN, Evaluar(c, b)
        PROVE  AlertInv'
    <3>1. /\ corredor' \in [Corredores -> [pc : {"libre", "leer", "escribir"},
                cola : BOOLEAN, visto : [Claves -> Hallazgos],
                mem : [Claves -> Filas]]]
          /\ fallos' \in Nat
          /\ repaso' \in {"hecho", "enMarcha", "falta"}
          /\ corredor'[c].pc = "leer"
          /\ \A d \in Corredores \ {c} : corredor'[d] = corredor[d]
      BY <2>3, EvaluarTipo
    <3>2. TypeOK' /\ PeticionReal'
      BY <2>1, <3>1 DEF TypeOK, PeticionReal
    <3> QED BY <2>1, <3>1, <3>2, SinEscrituraInv
  <2> QED BY <1>2, <2>2, <2>3 DEF EmpezarDeCola, EmpezarDirecto
<1>3. ASSUME NEW c \in Corredores, LeerAlertas(c)
      PROVE  AlertInv'
  <2>1. /\ UNCHANGED <<alerta, ultimo, dicho, decision, pisada, persona>>
        /\ corredor' = [corredor EXCEPT ![c].pc = "escribir", ![c].mem = alerta]
    BY <1>3 DEF LeerAlertas
  <2>2. TypeOK' /\ PeticionReal'
    BY <1>3 DEF LeerAlertas, TypeOK, PeticionReal
  <2>3. /\ corredor'[c].mem = alerta
        /\ \A d \in Corredores \ {c} : corredor'[d] = corredor[d]
    BY <2>1 DEF TypeOK
  <2> QED BY <2>1, <2>2, <2>3, SinEscrituraInv
<1>4. ASSUME NEW c \in Corredores, Morir(c)
      PROVE  AlertInv'
  <2>1. /\ UNCHANGED <<alerta, ultimo, dicho, decision, pisada, persona, viaje,
                       problema, ediciones, decisiones>>
        /\ corredor' = [corredor EXCEPT ![c] = CorredorLibre]
        /\ encolados' \in Nat /\ fallos' \in Nat
        /\ repaso' \in {repaso, "falta"}
    BY <1>4 DEF Morir, TypeOK
  <2>2. CorredorLibre \in [pc : {"libre", "leer", "escribir"}, cola : BOOLEAN,
                           visto : [Claves -> Hallazgos], mem : [Claves -> Filas]]
    BY DEF CorredorLibre, SinAlertas, SinFila, Filas, Hallazgos, Severidades
  <2>3. TypeOK' /\ PeticionReal'
    BY <2>1, <2>2 DEF TypeOK, PeticionReal
  <2>4. /\ corredor'[c].pc = "libre"
        /\ \A d \in Corredores \ {c} : corredor'[d] = corredor[d]
    BY <2>1 DEF TypeOK, CorredorLibre
  <2> QED BY <2>1, <2>3, <2>4, SinEscrituraInv
<1>5. ASSUME NEW p \in Personas, Pedir(p)
      PROVE  AlertInv'
  <2>1. PICK k \in Claves, nuevo \in AlertState :
           /\ alerta[k].estado \notin {"ninguna", nuevo}
           /\ persona' = [persona EXCEPT ![p] =
                 [pc |-> "guardar", clave |-> k, mem |-> alerta[k],
                  nuevo |-> nuevo]]
    BY <1>5 DEF Pedir
  <2>2. UNCHANGED <<viaje, problema, alerta, ultimo, dicho, decision, pisada,
                    encolados, repaso, corredor, ediciones, fallos>>
        /\ decisiones' \in Nat
    BY <1>5 DEF Pedir, TypeOK
  <2>3. TypeOK' /\ PeticionReal'
    BY <2>1, <2>2 DEF TypeOK, PeticionReal
  <2> QED BY <2>2, <2>3, SinEscrituraInv
<1> QED BY <1>1, <1>2, <1>3, <1>4, <1>5

(* The invariant holds in every reachable state.                           *)
THEOREM AlertInvSiempre == Spec => []AlertInv
<1>1. AlertInv /\ [Next]_vars => AlertInv'
  <2> SUFFICES ASSUME AlertInv, [Next]_vars PROVE AlertInv'
    OBVIOUS
  <2>1. CASE \E c \in Corredores : Escribir(c)
    BY <2>1, EscribirInv
  <2>2. CASE \E p \in Personas : GuardarCambio(p)
    BY <2>2, GuardarInv
  <2>3. CASE \/ Editar \/ CambiarSinRecalculo \/ CambiarViaje
             \/ \E c \in Corredores : \/ EmpezarDeCola(c) \/ EmpezarDirecto(c)
                                      \/ LeerAlertas(c) \/ Morir(c)
             \/ \E p \in Personas : Pedir(p)
    BY <2>3, OtrosPasosInv
  <2>4. CASE UNCHANGED vars
    <3>1. TypeOK' /\ PeticionReal'
      BY <2>4 DEF vars, AlertInv, TypeOK, PeticionReal
    <3> QED BY <2>4, <3>1, SinEscrituraInv DEF vars
  <2> QED BY <2>1, <2>2, <2>3, <2>4 DEF Next, Correr
<1> QED BY <1>1, AlertInicial, PTL DEF Spec

(* Every reachable state is well typed.                                    *)
THEOREM AlertTipos == Spec => []TypeOK
<1>1. AlertInv => TypeOK
  BY DEF AlertInv
<1> QED BY <1>1, AlertInvSiempre, PTL

(* The latest change of state on record is the state the alert is in,      *)
(* however stale the rows its writers worked from; the newest record of any*)
(* kind tells that state, or open when a refreshed severity crossed a      *)
(* closure, and never so over a decision that nothing overlapped.          *)
THEOREM ElHistorialConcuerda == Spec => []HistorialConcuerda
<1>1. AlertInv => HistorialConcuerda
  BY DEF AlertInv
<1> QED BY <1>1, AlertInvSiempre, PTL

(* A decision nobody was writing over is never undone, by any number of    *)
(* later or overlapping recalculations, broken rules included.             *)
THEOREM LaDecisionSeRespeta == Spec => []DecisionRespetada
<1>1. AlertInv => DecisionRespetada
  BY DEF AlertInv, Respeto, Intocable, DecisionRespetada
<1> QED BY <1>1, AlertInvSiempre, PTL

(***************************************************************************)
(* The alerts are up to date when nothing is left to do.                   *)
(***************************************************************************)

(* What `AlDia` asks of one alert a, when the rules find h, the last       *)
(* decision is d, and b tells whether it was committed over others' work.  *)
Dice(a, h, d, b) ==
    /\ h = "no" => a.estado # "ABIERTA"
    /\ h # "no" =>
          \/ a.estado = "ABIERTA" /\ a.sev = h
          \/ a.estado \notin {"ABIERTA", "ninguna"} /\ (a.estado = d \/ b)

(* The alerts are up to date when each of them is.                         *)
LEMMA AlDiaPorClave ==
  AlDia <=> \A k \in Claves : Dice(alerta[k], problema[k], decision[k], pisada[k])
BY DEF AlDia, Dice

(* A row nobody's decision is being mixed into: none, open, closed by the  *)
(* engine, or left by the decision d.                                      *)
FilaSuelta(a, d) ==
    \/ a.estado = "ninguna"
    \/ a.estado = "ABIERTA" /\ ~a.auto
    \/ a.estado = "RESUELTA" /\ a.auto
    \/ Intocable(a, d)

Sueltas ==
    \A k \in Claves : ~pisada[k] =>
        /\ FilaSuelta(alerta[k], decision[k])
        /\ \A c \in Corredores : corredor[c].pc = "escribir" =>
              FilaSuelta(corredor[c].mem[k], decision[k])

(* A row is never deleted, so a request still finds the one it loaded.     *)
PeticionConFila ==
    \A p \in Personas : persona[p].pc = "guardar" =>
        alerta[persona[p].clave].estado # "ninguna"

(* What a run loaded is what is on record, unless a person has closed the  *)
(* alert since.                                                            *)
Vigente(c, k) ==
    \/ alerta[k] = corredor[c].mem[k]
    \/ /\ pisada[k] /\ alerta[k].sev = corredor[c].mem[k].sev
       /\ alerta[k].estado \notin {"ABIERTA", "ninguna"}
       /\ corredor[c].mem[k].estado # "ninguna"

(* The only run under way works on the itinerary as it is.                 *)
AlCorriente(c) ==
    /\ corredor[c].pc # "libre"
    /\ \A d \in Corredores \ {c} : corredor[d].pc = "libre"
    /\ corredor[c].visto = problema
    /\ corredor[c].pc = "escribir" => \A k \in Claves : Vigente(c, k)

TodosLibres == \A c \in Corredores : corredor[c].pc = "libre"

(* When the answer to the last change no longer waits in the broker, the   *)
(* alerts are up to date or the only run under way will leave them so; a   *)
(* run that would not be delivered again may die without harm.             *)
YaRepasado ==
    repaso = "hecho" /\ encolados = 0 =>
        \/ TodosLibres /\ AlDia
        \/ \E c \in Corredores : AlCorriente(c) /\ (corredor[c].cola \/ AlDia)

Repasando ==
    repaso = "enMarcha" =>
        \E c \in Corredores : AlCorriente(c) /\ ~corredor[c].cola

RepasoInv == Sueltas /\ PeticionConFila /\ YaRepasado /\ Repasando

(* A run leaves alone, creates, closes or reopens an alert it loaded; it   *)
(* never mixes its columns with those of a row nobody's decision is in.    *)
LEMMA EscribirSuelta ==
  ASSUME NEW a \in Filas, NEW m \in Filas, NEW h \in Hallazgos, NEW d,
         FilaSuelta(a, d), FilaSuelta(m, d),
         d \in {"ACEPTADA", "DESCARTADA", "RESUELTA"} =>
            Intocable(a, d) /\ Intocable(m, d)
  PROVE  FilaSuelta(IF m.estado = "ninguna" /\ h # "no" THEN Conciliar(m, h)
                    ELSE Escrita(a, m, Conciliar(m, h)), d)
<1> DEFINE n == Conciliar(m, h)
<1>1. n \in Filas
  BY ConciliarTipo
<1>2. CASE Intocable(m, d)
  <2>1. n = m
    BY <1>2, ConciliarRespeta DEF Intocable
  <2>2. m.estado # "ninguna"
    BY <1>2 DEF Intocable, CerradaAMano, ALERT_ACKNOWLEDGED_STATES
  <2> QED BY <2>1, <2>2, <1>1, EscritaTipo
<1>3. CASE ~Intocable(m, d)
  <2>1. ~Intocable(a, d)
    BY <1>3 DEF Intocable, CerradaAMano, ALERT_ACKNOWLEDGED_STATES
  <2>2. \/ m.estado = "ninguna"
        \/ m.estado = "ABIERTA" /\ m.auto = FALSE
        \/ m.estado = "RESUELTA" /\ m.auto = TRUE
    BY <1>3 DEF FilaSuelta, Filas
  <2>3. \/ n.estado = m.estado /\ n.auto = m.auto
        \/ /\ m.estado = "ninguna" /\ h # "no"
           /\ n.estado = "ABIERTA" /\ n.auto = FALSE
        \/ /\ m.estado = "RESUELTA" /\ m.auto = TRUE
           /\ n.estado = "ABIERTA" /\ n.auto = FALSE
        \/ /\ m.estado = "ABIERTA" /\ m.auto = FALSE
           /\ n.estado = "RESUELTA" /\ n.auto = TRUE
    BY <2>2 DEF Conciliar, Filas
  <2>4. m.estado = "ninguna" /\ h # "no" => n.estado = "ABIERTA" /\ n.auto = FALSE
    BY DEF Conciliar
  <2>5. \/ a.estado = "ninguna"
        \/ a.estado = "ABIERTA" /\ ~a.auto
        \/ a.estado = "RESUELTA" /\ a.auto
    BY <2>1 DEF FilaSuelta
  <2>6. LET e == Escrita(a, m, n) IN
           \/ m.estado = "ninguna" /\ h # "no"
           \/ e.estado = a.estado /\ e.auto = a.auto
           \/ e.estado = "ABIERTA" /\ e.auto = FALSE
           \/ e.estado = "RESUELTA" /\ e.auto = TRUE
    <3>1. CASE n.estado = m.estado /\ n.auto = m.auto
      BY <3>1 DEF Escrita
    <3>2. CASE m.estado = "ninguna" /\ h # "no"
      BY <3>2
    <3>3. CASE m.auto = TRUE /\ m.estado = "RESUELTA" /\ n.estado = "ABIERTA"
               /\ n.auto = FALSE
      BY <3>3 DEF Escrita
    <3>4. CASE m.auto = FALSE /\ m.estado = "ABIERTA" /\ n.estado = "RESUELTA"
               /\ n.auto = TRUE
      BY <3>4 DEF Escrita
    <3> QED BY <2>3, <3>1, <3>2, <3>3, <3>4
  <2> QED BY <2>4, <2>5, <2>6 DEF FilaSuelta
<1> QED BY <1>2, <1>3

(* What `reconcile` makes of an alert that is still as it loaded it is     *)
(* what the itinerary says.                                                *)
LEMMA ConciliarDice ==
  ASSUME NEW m \in Filas, NEW h \in Hallazgos, NEW d, NEW b \in BOOLEAN,
         ~b => FilaSuelta(m, d)
  PROVE  Dice(Conciliar(m, h), h, d, b)
BY DEF Dice, Conciliar, FilaSuelta, Intocable, CerradaAMano, Filas, Hallazgos,
       AlertState

(* And so is the row when a person closed the alert meanwhile: the run     *)
(* reopens it or leaves it closed.                                         *)
LEMMA EscritaDice ==
  ASSUME NEW a \in Filas, NEW m \in Filas, NEW h \in Hallazgos, NEW d,
         a.sev = m.sev, a.estado \notin {"ABIERTA", "ninguna"},
         m.estado # "ninguna"
  PROVE  Dice(Escrita(a, m, Conciliar(m, h)), h, d, TRUE)
<1> DEFINE n == Conciliar(m, h)
<1>1. CASE h = "no"
  <2>1. n.estado # "ABIERTA"
    BY <1>1 DEF Conciliar, Filas
  <2>2. Escrita(a, m, n).estado # "ABIERTA"
    BY <2>1 DEF Escrita
  <2> QED BY <1>1, <2>2 DEF Dice
<1>2. CASE h # "no"
  <2>1. \/ n.estado = "ABIERTA" /\ n.sev = h /\ m.estado # "ABIERTA"
        \/ n.estado = m.estado
    BY <1>2 DEF Conciliar, Filas
  <2>2. \/ Escrita(a, m, n).estado = "ABIERTA" /\ Escrita(a, m, n).sev = h
        \/ Escrita(a, m, n).estado = a.estado
    BY <2>1 DEF Escrita
  <2> QED BY <1>2, <2>2 DEF Dice
<1> QED BY <1>1, <1>2

(* The invariant holds of a trip without alerts.                           *)
LEMMA RepasoInicial == Init => RepasoInv
<1> SUFFICES ASSUME Init PROVE RepasoInv
  OBVIOUS
<1> USE DEF Init
<1>1. \A k \in Claves : alerta[k].estado = "ninguna"
  BY DEF SinAlertas, SinFila
<1>2. TodosLibres
  BY DEF TodosLibres, CorredorLibre
<1>3. AlDia
  BY <1>1 DEF AlDia
<1>4. Sueltas
  BY <1>1, <1>2 DEF Sueltas, FilaSuelta, TodosLibres
<1>5. PeticionConFila
  BY DEF PeticionConFila, PersonaLibre
<1> QED BY <1>2, <1>3, <1>4, <1>5 DEF RepasoInv, YaRepasado, Repasando

(* A step that writes no row leaves no row mixed, when what a run remembers*)
(* is what it remembered or what the rows say.                             *)
LEMMA SueltasQuietas ==
  ASSUME Sueltas, UNCHANGED <<alerta, decision, pisada>>,
         \A c \in Corredores : corredor'[c].pc = "escribir" =>
            \/ corredor[c].pc = "escribir" /\ corredor'[c] = corredor[c]
            \/ corredor'[c].mem = alerta
  PROVE  Sueltas'
<1> SUFFICES ASSUME NEW k \in Claves, ~pisada[k]
             PROVE  /\ FilaSuelta(alerta[k], decision[k])
                    /\ \A c \in Corredores : corredor'[c].pc = "escribir" =>
                          FilaSuelta(corredor'[c].mem[k], decision[k])
  BY DEF Sueltas, FilaSuelta, Intocable, CerradaAMano
<1> QED BY DEF Sueltas

(* A change of the itinerary leaves the alerts as they were; only a        *)
(* recalculation in the broker answers to it.                              *)
LEMMA EditarRepaso ==
  ASSUME AlertInv, RepasoInv, Editar \/ CambiarSinRecalculo
  PROVE  RepasoInv'
<1>1. /\ UNCHANGED <<alerta, decision, pisada, corredor, persona>>
      /\ \/ repaso' = "falta"
         \/ repaso' = "hecho" /\ encolados' = encolados + 1
  BY DEF Editar, CambiarSinRecalculo
<1>2. encolados \in Nat
  BY DEF AlertInv, TypeOK
<1>3. YaRepasado' /\ Repasando'
  BY <1>1, <1>2 DEF YaRepasado, Repasando
<1>4. Sueltas' /\ PeticionConFila'
  BY <1>1, SueltasQuietas DEF RepasoInv, PeticionConFila
<1> QED BY <1>3, <1>4 DEF RepasoInv

(* Closing or resuming the trip, asking for a change of an alert, and a    *)
(* step of nobody touch neither the alerts nor the runs.                   *)
LEMMA AjenoRepaso ==
  ASSUME RepasoInv, PeticionConFila',
         UNCHANGED <<problema, alerta, decision, pisada, encolados, repaso,
                     corredor>>
  PROVE  RepasoInv'
<1>1. Sueltas'
  BY SueltasQuietas DEF RepasoInv
<1>2. UNCHANGED <<AlDia, TodosLibres>>
  BY DEF AlDia, TodosLibres
<1>3. \A c \in Corredores : AlCorriente(c) => AlCorriente(c)'
  BY DEF AlCorriente, Vigente
<1>4. YaRepasado'
  BY <1>2, <1>3 DEF RepasoInv, YaRepasado
<1>5. Repasando'
  BY <1>3 DEF RepasoInv, Repasando
<1> QED BY <1>1, <1>4, <1>5 DEF RepasoInv

(* A person asks to change an alert there is.                              *)
LEMMA PedirRepaso ==
  ASSUME AlertInv, RepasoInv, NEW p \in Personas, Pedir(p)
  PROVE  RepasoInv'
<1>1. PICK k \in Claves, nuevo \in AlertState :
         /\ alerta[k].estado \notin {"ninguna", nuevo}
         /\ persona' = [persona EXCEPT ![p] =
               [pc |-> "guardar", clave |-> k, mem |-> alerta[k],
                nuevo |-> nuevo]]
  BY DEF Pedir
<1>2. UNCHANGED <<problema, alerta, decision, pisada, encolados, repaso,
                  corredor>>
  BY DEF Pedir
<1>3. PeticionConFila'
  BY <1>1, <1>2 DEF AlertInv, TypeOK, RepasoInv, PeticionConFila
<1> QED BY <1>2, <1>3, AjenoRepaso

(* A run that starts alone has the itinerary as it is before it.           *)
LEMMA EmpezarRepaso ==
  ASSUME AlertInv, RepasoInv, NEW c \in Corredores,
         EmpezarDeCola(c) \/ EmpezarDirecto(c)
  PROVE  RepasoInv'
<1>1. /\ UNCHANGED <<problema, alerta, decision, pisada, persona>>
      /\ corredor[c].pc = "libre"
  BY DEF EmpezarDeCola, EmpezarDirecto
<1>2. PeticionConFila'
  BY <1>1 DEF RepasoInv, PeticionConFila
<1>3. CASE repaso' = "falta" /\ UNCHANGED corredor
  <2>1. Sueltas'
    BY <1>1, <1>3, SueltasQuietas DEF RepasoInv
  <2> QED BY <1>2, <1>3, <2>1 DEF RepasoInv, YaRepasado, Repasando
<1>4. ASSUME NEW b \in BOOLEAN, Evaluar(c, b),
             b \/ UNCHANGED encolados
      PROVE  RepasoInv'
  <2>1. PICK rotas \in SUBSET Claves :
          /\ corredor' = [corredor EXCEPT ![c] =
                [pc |-> "leer", cola |-> b,
                 visto |-> [k \in Claves |-> IF k \in rotas THEN "no"
                                             ELSE problema[k]],
                 mem |-> SinAlertas]]
          /\ repaso' =
                IF rotas = {} /\ \A d \in Corredores : corredor[d].pc = "libre"
                THEN IF b \/ repaso = "hecho" THEN "hecho" ELSE "enMarcha"
                ELSE "falta"
    BY <1>4 DEF Evaluar
  <2>2. /\ corredor'[c].pc = "leer" /\ corredor'[c].cola = b
        /\ \A d \in Corredores \ {c} : corredor'[d] = corredor[d]
    BY <2>1 DEF AlertInv, TypeOK
  <2>3. Sueltas'
    BY <1>1, <2>2, SueltasQuietas DEF RepasoInv
  <2>4. ASSUME repaso' # "falta"
        PROVE  AlCorriente(c)' /\ TodosLibres
    <3>1. rotas = {} /\ TodosLibres
      BY <2>1, <2>4 DEF TodosLibres
    <3>2. corredor'[c].visto = problema
      <4>1. corredor'[c].visto = [k \in Claves |-> problema[k]]
        BY <2>1, <3>1 DEF AlertInv, TypeOK
      <4> QED BY <4>1 DEF AlertInv, TypeOK
    <3> QED BY <1>1, <2>2, <3>1, <3>2 DEF AlCorriente, TodosLibres
  <2>5. Repasando'
    <3> SUFFICES ASSUME repaso' = "enMarcha"
                 PROVE  AlCorriente(c)' /\ ~corredor'[c].cola
      BY DEF Repasando
    <3>1. b = FALSE
      BY <2>1
    <3> QED BY <2>2, <2>4, <3>1
  <2>6. YaRepasado'
    <3> SUFFICES ASSUME repaso' = "hecho", encolados' = 0
                 PROVE  AlCorriente(c)' /\ (corredor'[c].cola \/ AlDia')
      BY DEF YaRepasado
    <3>1. CASE b = TRUE
      BY <2>2, <2>4, <3>1
    <3>2. CASE b = FALSE
      <4>1. repaso = "hecho" /\ encolados = 0 /\ TodosLibres
        BY <1>4, <2>1, <2>4, <3>2
      <4>2. AlDia
        BY <4>1 DEF RepasoInv, YaRepasado, AlCorriente, TodosLibres
      <4>3. AlDia'
        BY <1>1, <4>2 DEF AlDia
      <4> QED BY <2>4, <4>3
    <3> QED BY <3>1, <3>2
  <2> QED BY <1>2, <2>3, <2>5, <2>6 DEF RepasoInv
<1>5. CASE EmpezarDeCola(c)
  BY <1>3, <1>4, <1>5 DEF EmpezarDeCola
<1>6. CASE EmpezarDirecto(c)
  BY <1>4, <1>6 DEF EmpezarDirecto
<1> QED BY <1>5, <1>6

(* A run loads the rows as they are.                                       *)
LEMMA LeerRepaso ==
  ASSUME AlertInv, RepasoInv, NEW c \in Corredores, LeerAlertas(c)
  PROVE  RepasoInv'
<1>1. /\ UNCHANGED <<problema, alerta, decision, pisada, encolados, repaso,
                     persona>>
      /\ corredor[c].pc = "leer"
  BY DEF LeerAlertas
<1>2. /\ corredor'[c] = [corredor[c] EXCEPT !.pc = "escribir", !.mem = alerta]
      /\ \A d \in Corredores \ {c} : corredor'[d] = corredor[d]
  BY DEF LeerAlertas, AlertInv, TypeOK
<1>3. /\ corredor'[c].pc = "escribir" /\ corredor'[c].mem = alerta
      /\ corredor'[c].cola = corredor[c].cola
      /\ corredor'[c].visto = corredor[c].visto
  BY <1>2 DEF AlertInv, TypeOK
<1>4. Sueltas' /\ PeticionConFila'
  <2>1. Sueltas'
    BY <1>1, <1>2, <1>3, SueltasQuietas DEF RepasoInv
  <2> QED BY <1>1, <2>1 DEF RepasoInv, PeticionConFila
<1>5. \A d \in Corredores : AlCorriente(d) =>
         d = c /\ AlCorriente(d)' /\ corredor'[d].cola = corredor[d].cola
  <2> SUFFICES ASSUME NEW d \in Corredores, AlCorriente(d)
               PROVE  /\ d = c /\ AlCorriente(d)'
                      /\ corredor'[d].cola = corredor[d].cola
    OBVIOUS
  <2>1. d = c
    BY <1>1 DEF AlCorriente
  <2>2. \A k \in Claves : Vigente(c, k)'
    BY <1>1, <1>3 DEF Vigente
  <2> QED BY <1>1, <1>2, <1>3, <2>1, <2>2 DEF AlCorriente
<1>6. ~TodosLibres /\ UNCHANGED AlDia
  BY <1>1 DEF TodosLibres, AlDia
<1>7. YaRepasado'
  BY <1>1, <1>5, <1>6 DEF RepasoInv, YaRepasado
<1>8. Repasando'
  BY <1>1, <1>5 DEF RepasoInv, Repasando
<1> QED BY <1>4, <1>7, <1>8 DEF RepasoInv

(* A run that dies goes back to the broker, or the alerts did not need it. *)
LEMMA MorirRepaso ==
  ASSUME AlertInv, RepasoInv, NEW c \in Corredores, Morir(c)
  PROVE  RepasoInv'
<1>1. /\ UNCHANGED <<problema, alerta, decision, pisada, persona>>
      /\ encolados' = IF corredor[c].cola THEN encolados + 1 ELSE encolados
      /\ repaso' = IF repaso = "enMarcha" THEN "falta" ELSE repaso
      /\ corredor[c].pc # "libre"
  BY DEF Morir
<1>2. /\ corredor'[c].pc = "libre"
      /\ \A d \in Corredores \ {c} : corredor'[d] = corredor[d]
  BY DEF Morir, AlertInv, TypeOK, CorredorLibre
<1>3. Sueltas' /\ PeticionConFila'
  <2>1. Sueltas'
    BY <1>1, <1>2, SueltasQuietas DEF RepasoInv
  <2> QED BY <1>1, <2>1 DEF RepasoInv, PeticionConFila
<1>4. Repasando'
  BY <1>1 DEF Repasando
<1>5. YaRepasado'
  <2> SUFFICES ASSUME repaso' = "hecho", encolados' = 0
               PROVE  TodosLibres' /\ AlDia'
    BY DEF YaRepasado
  <2>1. repaso = "hecho" /\ encolados = 0 /\ ~corredor[c].cola
    <3>1. encolados \in Nat
      BY DEF AlertInv, TypeOK
    <3> QED BY <1>1, <3>1
  <2>2. PICK d \in Corredores : AlCorriente(d) /\ (corredor[d].cola \/ AlDia)
    BY <1>1, <2>1 DEF RepasoInv, YaRepasado, TodosLibres
  <2>3. d = c
    BY <1>1, <2>2 DEF AlCorriente
  <2>4. TodosLibres'
    BY <1>2, <2>2, <2>3 DEF TodosLibres, AlCorriente
  <2>5. AlDia'
    BY <1>1, <2>1, <2>2, <2>3 DEF AlDia
  <2> QED BY <2>4, <2>5
<1> QED BY <1>3, <1>4, <1>5 DEF RepasoInv

(* The commit of a run mixes its columns with no row, and when the run is  *)
(* the only one and saw the itinerary as it is, it leaves the alerts up to *)
(* date, with the changes people made while it ran.                        *)
LEMMA EscribirRepaso ==
  ASSUME AlertInv, RepasoInv, NEW c \in Corredores, Escribir(c)
  PROVE  RepasoInv'
<1> DEFINE r == corredor[c]
           nueva(k) == Conciliar(r.mem[k], r.visto[k])
           creada(k) == r.mem[k].estado = "ninguna" /\ r.visto[k] # "no"
           fila(k) == IF creada(k) THEN nueva(k)
                      ELSE Escrita(alerta[k], r.mem[k], nueva(k))
<1>1. /\ r.pc = "escribir"
      /\ repaso' = IF repaso = "enMarcha" THEN "hecho" ELSE repaso
      /\ UNCHANGED <<problema, decision, pisada, encolados, persona>>
  BY DEF Escribir
<1>2. \/ ~Choca(c) /\ alerta' = [k \in Claves |-> fila(k)]
      \/ Choca(c) /\ UNCHANGED alerta
  BY DEF Escribir
<1>3. /\ corredor'[c].pc = "libre"
      /\ \A d \in Corredores \ {c} : corredor'[d] = corredor[d]
  BY DEF Escribir, AlertInv, TypeOK, CorredorLibre
<1>4. \A k \in Claves : /\ r.mem[k] \in Filas /\ r.visto[k] \in Hallazgos
                        /\ alerta[k] \in Filas /\ nueva(k) \in Filas
                        /\ pisada[k] \in BOOLEAN
  BY ConciliarTipo DEF AlertInv, TypeOK
<1>5. Sueltas'
  <2> SUFFICES ASSUME NEW k \in Claves, ~pisada[k]
               PROVE  /\ FilaSuelta(alerta'[k], decision[k])
                      /\ \A d \in Corredores : corredor'[d].pc = "escribir" =>
                            FilaSuelta(corredor'[d].mem[k], decision[k])
    BY <1>1 DEF Sueltas, FilaSuelta, Intocable, CerradaAMano
  <2>1. FilaSuelta(alerta[k], decision[k]) /\ FilaSuelta(r.mem[k], decision[k])
    BY <1>1 DEF RepasoInv, Sueltas
  <2>2. decision[k] \in {"ACEPTADA", "DESCARTADA", "RESUELTA"} =>
           Intocable(alerta[k], decision[k]) /\ Intocable(r.mem[k], decision[k])
    BY <1>1 DEF AlertInv, Respeto
  <2>3. FilaSuelta(fila(k), decision[k])
    BY <1>4, <2>1, <2>2, EscribirSuelta
  <2>4. FilaSuelta(alerta'[k], decision[k])
    BY <1>2, <2>1, <2>3
  <2> QED BY <1>3, <2>4 DEF RepasoInv, Sueltas
<1>6. PeticionConFila'
  <2>1. \A k \in Claves : alerta[k].estado # "ninguna" => alerta'[k].estado # "ninguna"
    <3> SUFFICES ASSUME NEW k \in Claves, alerta[k].estado # "ninguna"
                 PROVE  fila(k).estado # "ninguna"
      BY <1>2
    <3>1. nueva(k).estado \in {r.mem[k].estado, "ABIERTA", "RESUELTA"}
      BY <1>4 DEF Conciliar, Filas
    <3>2. creada(k) => nueva(k).estado = "ABIERTA"
      BY DEF Conciliar
    <3> QED BY <3>1, <3>2, <1>4, EscritaTipo
  <2> QED BY <1>1, <2>1 DEF RepasoInv, PeticionConFila, AlertInv, TypeOK
<1>7. ASSUME AlCorriente(c)
      PROVE  TodosLibres' /\ AlDia'
  <2>1. r.visto = problema /\ \A k \in Claves : Vigente(c, k)
    BY <1>1, <1>7 DEF AlCorriente
  <2>2. ~Choca(c)
    BY <2>1 DEF Choca, Vigente
  <2>3. alerta' = [k \in Claves |-> fila(k)]
    BY <1>2, <2>2
  <2>4. ASSUME NEW k \in Claves
        PROVE  Dice(alerta'[k], problema[k], decision[k], pisada[k])
    <3>1. alerta'[k] = fila(k) /\ r.visto[k] = problema[k]
      BY <2>1, <2>3
    <3>2. CASE alerta[k] = r.mem[k]
      <4>1. ~pisada[k] => FilaSuelta(r.mem[k], decision[k])
        BY <1>1 DEF RepasoInv, Sueltas
      <4>2. Dice(nueva(k), r.visto[k], decision[k], pisada[k])
        BY <1>4, <4>1, ConciliarDice
      <4>3. fila(k) = nueva(k)
        BY <1>4, <3>2, EscritaTipo
      <4> QED BY <3>1, <4>2, <4>3
    <3>3. CASE alerta[k] # r.mem[k]
      <4>1. /\ pisada[k] = TRUE /\ alerta[k].sev = r.mem[k].sev
            /\ alerta[k].estado \notin {"ABIERTA", "ninguna"}
            /\ r.mem[k].estado # "ninguna"
        BY <1>4, <2>1, <3>3 DEF Vigente
      <4>2. Dice(Escrita(alerta[k], r.mem[k], nueva(k)), r.visto[k],
                 decision[k], TRUE)
        BY <1>4, <4>1, EscritaDice
      <4> QED BY <3>1, <4>1, <4>2
    <3> QED BY <3>2, <3>3
  <2>5. AlDia'
    BY <1>1, <2>4, AlDiaPorClave DEF AlDia, Dice
  <2>6. TodosLibres'
    BY <1>3, <1>7 DEF TodosLibres, AlCorriente
  <2> QED BY <2>5, <2>6
<1>8. YaRepasado'
  <2> SUFFICES ASSUME repaso' = "hecho", encolados' = 0
               PROVE  TodosLibres' /\ AlDia'
    BY DEF YaRepasado
  <2>1. PICK d \in Corredores : AlCorriente(d)
    BY <1>1 DEF RepasoInv, YaRepasado, Repasando, TodosLibres
  <2>2. d = c
    BY <1>1, <2>1 DEF AlCorriente
  <2> QED BY <1>7, <2>1, <2>2
<1>9. Repasando'
  BY <1>1 DEF Repasando
<1> QED BY <1>5, <1>6, <1>8, <1>9 DEF RepasoInv

(* A person's commit: a decision that closes the alert keeps it as the     *)
(* itinerary wants it, and the run under way will respect it or reopen it; *)
(* one that opens it again waits for a recalculation.                      *)
LEMMA GuardarRepaso ==
  ASSUME AlertInv, RepasoInv, NEW p \in Personas, GuardarCambio(p)
  PROVE  RepasoInv'
<1> DEFINE q == persona[p]
           k == q.clave
           n == Cambiada(q.mem, q.nuevo)
<1>1. /\ k \in Claves /\ q.mem \in Filas /\ q.nuevo \in AlertState
      /\ q.mem.estado # q.nuevo /\ alerta[k] \in Filas
      /\ alerta[k].estado # "ninguna"
  BY DEF AlertInv, TypeOK, GuardarCambio, PeticionReal, RepasoInv,
         PeticionConFila
<1>2. n \in Filas /\ n.estado = q.nuevo /\ n.sev = q.mem.sev
      /\ (q.nuevo # "ACEPTADA" => ~n.auto)
  <2>1. n.sev = q.mem.sev
    BY <1>1 DEF Cambiada, Filas
  <2> QED BY <1>1, <2>1, CambiadaTipo
<1>3. /\ alerta' = [alerta EXCEPT ![k] = Escrita(alerta[k], q.mem, n)]
      /\ decision' = [decision EXCEPT ![k] = q.nuevo]
      /\ persona' = [persona EXCEPT ![p] = PersonaLibre(k)]
      /\ repaso' = IF q.nuevo = "ABIERTA" THEN "falta" ELSE repaso
      /\ UNCHANGED <<problema, encolados, corredor>>
  BY DEF GuardarCambio
<1>4. /\ alerta'[k].estado = q.nuevo
      /\ alerta'[k].sev = alerta[k].sev
      /\ alerta[k] = q.mem => alerta'[k] = n
      /\ decision'[k] = q.nuevo
      /\ \A j \in Claves \ {k} : alerta'[j] = alerta[j] /\ decision'[j] = decision[j]
  <2>1. alerta'[k] = Escrita(alerta[k], q.mem, n)
    BY <1>1, <1>3 DEF AlertInv, TypeOK
  <2>2. Escrita(alerta[k], q.mem, n).sev = alerta[k].sev
    BY <1>2 DEF Escrita
  <2> QED BY <1>1, <1>2, <1>3, <2>1, <2>2, EscritaTipo DEF AlertInv, TypeOK
<1>5. /\ \A c \in Corredores : corredor[c].pc = "escribir" => pisada'[k]
      /\ ~pisada'[k] => alerta[k] = q.mem
      /\ \A j \in Claves \ {k} : pisada'[j] = pisada[j]
  BY <1>1 DEF GuardarCambio, AlertInv, TypeOK
<1>6. Sueltas'
  <2> SUFFICES ASSUME NEW j \in Claves, ~pisada'[j]
               PROVE  /\ FilaSuelta(alerta'[j], decision'[j])
                      /\ \A c \in Corredores : corredor[c].pc = "escribir" =>
                            FilaSuelta(corredor[c].mem[j], decision'[j])
    BY <1>3 DEF Sueltas, FilaSuelta, Intocable, CerradaAMano
  <2>1. CASE j = k
    <3>1. alerta'[k] = n /\ \A c \in Corredores : corredor[c].pc # "escribir"
      BY <1>4, <1>5, <2>1
    <3>2. FilaSuelta(n, q.nuevo)
      BY <1>1, <1>2 DEF FilaSuelta, Intocable, CerradaAMano, AlertState,
                        ALERT_ACKNOWLEDGED_STATES
    <3> QED BY <1>4, <2>1, <3>1, <3>2
  <2>2. CASE j # k
    BY <1>4, <1>5, <2>2 DEF RepasoInv, Sueltas
  <2> QED BY <2>1, <2>2
<1>7. PeticionConFila'
  <2>1. \A j \in Claves : alerta[j].estado # "ninguna" => alerta'[j].estado # "ninguna"
    BY <1>1, <1>4 DEF AlertState
  <2>2. \A o \in Personas : persona'[o].pc = "guardar" =>
           persona[o].pc = "guardar" /\ persona'[o] = persona[o]
    BY <1>3 DEF PersonaLibre, AlertInv, TypeOK
  <2> QED BY <2>1, <2>2 DEF RepasoInv, PeticionConFila, AlertInv, TypeOK
<1>8. CASE q.nuevo = "ABIERTA"
  BY <1>3, <1>6, <1>7, <1>8 DEF RepasoInv, YaRepasado, Repasando
<1>9. CASE q.nuevo # "ABIERTA"
  <2>1. q.nuevo \notin {"ABIERTA", "ninguna"}
    BY <1>1, <1>9 DEF AlertState
  <2>2. AlDia => AlDia'
    <3> SUFFICES ASSUME AlDia, NEW j \in Claves
                 PROVE  Dice(alerta'[j], problema[j], decision'[j], pisada'[j])
      BY <1>3 DEF AlDia, Dice
    <3>1. Dice(alerta[j], problema[j], decision[j], pisada[j])
      BY AlDiaPorClave
    <3>2. CASE j = k
      BY <1>4, <2>1, <3>2 DEF Dice
    <3>3. CASE j # k
      BY <1>4, <1>5, <3>1, <3>3
    <3> QED BY <3>2, <3>3
  <2>3. ASSUME NEW c \in Corredores, AlCorriente(c)
        PROVE  AlCorriente(c)'
    <3>1. ASSUME corredor[c].pc = "escribir", NEW j \in Claves
          PROVE  Vigente(c, j)'
      <4>1. Vigente(c, j)
        BY <2>3, <3>1 DEF AlCorriente
      <4>2. CASE j = k
        <5>1. /\ alerta[k].sev = corredor[c].mem[k].sev
              /\ corredor[c].mem[k].estado # "ninguna"
          BY <1>1, <4>1, <4>2 DEF Vigente
        <5>2. pisada'[k]
          BY <1>5, <3>1
        <5> QED BY <1>3, <1>4, <2>1, <4>2, <5>1, <5>2 DEF Vigente
      <4>3. CASE j # k
        BY <1>3, <1>4, <1>5, <4>1, <4>3 DEF Vigente
      <4> QED BY <4>2, <4>3
    <3> QED BY <1>3, <2>3, <3>1 DEF AlCorriente
  <2>4. UNCHANGED TodosLibres
    BY <1>3 DEF TodosLibres
  <2>5. YaRepasado'
    BY <1>3, <1>9, <2>2, <2>3, <2>4 DEF RepasoInv, YaRepasado
  <2>6. Repasando'
    BY <1>3, <1>9, <2>3 DEF RepasoInv, Repasando
  <2> QED BY <1>6, <1>7, <2>5, <2>6 DEF RepasoInv
<1> QED BY <1>8, <1>9

(* Who brings the alerts up to date is known in every reachable state.     *)
THEOREM RepasoInvSiempre == Spec => []RepasoInv
<1>1. AlertInv /\ RepasoInv /\ [Next]_vars => RepasoInv'
  <2> SUFFICES ASSUME AlertInv, RepasoInv, [Next]_vars PROVE RepasoInv'
    OBVIOUS
  <2>1. CASE Editar \/ CambiarSinRecalculo
    BY <2>1, EditarRepaso
  <2>2. CASE CambiarViaje \/ UNCHANGED vars
    <3>1. UNCHANGED <<problema, alerta, decision, pisada, encolados, repaso,
                      corredor, persona>>
      BY <2>2 DEF CambiarViaje, vars
    <3>2. PeticionConFila'
      BY <3>1 DEF RepasoInv, PeticionConFila
    <3> QED BY <3>1, <3>2, AjenoRepaso
  <2>3. ASSUME NEW c \in Corredores, Correr(c) \/ Morir(c)
        PROVE  RepasoInv'
    BY <2>3, EmpezarRepaso, LeerRepaso, EscribirRepaso, MorirRepaso DEF Correr
  <2>4. ASSUME NEW p \in Personas, Pedir(p) \/ GuardarCambio(p)
        PROVE  RepasoInv'
    BY <2>4, PedirRepaso, GuardarRepaso
  <2> QED BY <2>1, <2>2, <2>3, <2>4 DEF Next
<1> QED BY <1>1, RepasoInicial, AlertInvSiempre, PTL DEF Spec

(* When the answer to the last change has ended, with nothing waiting and  *)
(* nobody working, the alerts say what the itinerary says, whatever deaths,*)
(* redeliveries and decisions there were on the way.                       *)
THEOREM AlDiaSinEsperar == Spec => []AlDiaSinPendientes
<1>1. RepasoInv => AlDiaSinPendientes
  BY DEF RepasoInv, YaRepasado, AlDiaSinPendientes, AlCorriente
<1> QED BY <1>1, RepasoInvSiempre, PTL

=============================================================================
