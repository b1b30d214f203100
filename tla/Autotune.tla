------------------------------- MODULE Autotune -------------------------------
(***************************************************************************)
(* One search of sampling parameters that outlives its workers: a step     *)
(* runs one trial and queues the next; all the search knows is in its row; *)
(* the plan is replayed from the recorded trials; and the token on the row *)
(* says which step owns it.  A step takes minutes, may be lost with its    *)
(* worker, be delivered again while it still runs, or be superseded.       *)
(***************************************************************************)
EXTENDS Naturals, Sequences

CONSTANTS
    Espacio,        \* <<clave, valor>> in the order of the search
    Base,           \* the parameters in force when it starts
    Presupuesto,    \* trials at most
    Pasos,          \* steps running at once
    MaxFicha        \* bound: tokens ever issued

ASSUME AutotuneAssumption ==
    /\ Presupuesto \in Nat \ {0} /\ MaxFicha \in Nat \ {0}
    /\ Base \in [DOMAIN Base -> {Base[c] : c \in DOMAIN Base}]
    /\ Espacio \in Seq((DOMAIN Base) \X {Espacio[i][2] : i \in 1..Len(Espacio)})

VARIABLES
    ajuste,         \* the row of the search
    mensajes,       \* tokens of the steps queued
    paso,           \* what each running step is doing
    perfil,         \* whose the task's profile is: this search's, or somebody else's
    trato           \* what happened to the search, to compare

varsAjuste == <<ajuste, mensajes, paso, perfil, trato>>

Parametros == [DOMAIN Base -> {Espacio[i][2] : i \in 1..Len(Espacio)} \cup {Base[c] : c \in DOMAIN Base}]
Ensayo == [par : Parametros, calidad : 0..1, rapido : BOOLEAN]
Perfiles == {"manual", "ajuste"}
Paso0 == [pc |-> "libre", ficha |-> 0, candidato |-> Base, n |-> 0, lista |-> <<>>]

TipoAjuste ==
    /\ ajuste.estado \in {"PENDIENTE", "EN_CURSO", "COMPLETADO", "CANCELADO", "ERROR"}
    /\ ajuste.ficha \in 0..MaxFicha
    /\ ajuste.ensayos \in Seq(Ensayo) /\ Len(ajuste.ensayos) <= Presupuesto + 1
    /\ ajuste.mejor \in Ensayo /\ ajuste.aplicado \in BOOLEAN
    /\ ajuste.aplicar_si_mejora \in BOOLEAN /\ ajuste.previos \in Perfiles
    /\ mensajes \subseteq 1..MaxFicha
    /\ \A w \in Pasos :
          /\ paso[w].pc \in {"libre", "probando", "releido", "sigue", "publicar"}
          /\ paso[w].ficha \in 0..MaxFicha /\ paso[w].candidato \in Parametros
          /\ paso[w].n \in 0..Presupuesto + 1 /\ paso[w].lista \in Seq(Ensayo)
    /\ perfil \in Perfiles
    /\ trato \in [cruce : BOOLEAN, huerfana : BOOLEAN]

SinEnsayo == [par |-> Base, calidad |-> 0, rapido |-> FALSE]

(* lanzar: the row and its first token are committed, then published.      *)
InitAjuste ==
    /\ ajuste = [estado |-> "PENDIENTE", ficha |-> 1, ensayos |-> <<>>, mejor |-> SinEnsayo,
                 aplicado |-> FALSE, previos |-> "manual", aplicar_si_mejora |-> TRUE]
    /\ mensajes = {1}
    /\ paso = [w \in Pasos |-> Paso0]
    /\ perfil = "manual"
    /\ trato = [cruce |-> FALSE, huerfana |-> FALSE]

AjusteActivo == ajuste.estado \in {"PENDIENTE", "EN_CURSO"}

hay_propuesta == ajuste.estado = "COMPLETADO" /\ ajuste.mejor.par # Base

(***************************************************************************)
(* The plan: greedy coordinate descent, replayed over the trials recorded. *)
(* "sigue" is the next candidate (none when the search is over); "roto",   *)
(* that the trials are not those of this search.                           *)
(***************************************************************************)
(* A plausible slip: whatever is faster wins.                              *)
MejorSiMasRapido(nuevo, actual) == nuevo.calidad > actual.calidad \/ nuevo.rapido

es_mejor(nuevo, actual) ==
    \/ nuevo.calidad > actual.calidad
    \/ nuevo.calidad >= actual.calidad /\ nuevo.rapido /\ ~actual.rapido

Probar(b, ensayos, candidato) ==
    IF b.n >= Len(ensayos) THEN [b EXCEPT !.sigue = {candidato}]
    ELSE IF ensayos[b.n + 1].par # candidato THEN [b EXCEPT !.roto = TRUE]
    ELSE [b EXCEPT !.n = @ + 1, !.probados = @ \cup {candidato},
             !.mejor = IF b.n = 0 \/ es_mejor(ensayos[b.n + 1], @) THEN ensayos[b.n + 1] ELSE @]

SinPlan == [n |-> 0, mejor |-> SinEnsayo, probados |-> {}, sigue |-> {}, roto |-> FALSE]

Avanza(b, cv, ensayos) ==
    LET candidato == [b.mejor.par EXCEPT ![cv[1]] = cv[2]]
    IN  IF b.sigue # {} \/ b.roto \/ b.n >= Presupuesto \/ candidato \in b.probados
        THEN b ELSE Probar(b, ensayos, candidato)

_planificar(ensayos) ==
    LET tras[k \in 0..Len(Espacio)] ==
            IF k = 0 THEN Probar(SinPlan, ensayos, Base)
            ELSE Avanza(tras[k - 1], Espacio[k], ensayos)
    IN  tras[Len(Espacio)]

(***************************************************************************)
(* Acting on the result, and the profile's other author.                   *)
(***************************************************************************)
ConPerfil(a) == [a EXCEPT !.aplicado = TRUE, !.previos = perfil]

aplicar ==
    /\ hay_propuesta /\ ~ajuste.aplicado
    /\ perfil' = "ajuste"
    /\ ajuste' = ConPerfil(ajuste)
    /\ UNCHANGED <<mensajes, paso, trato>>

revertir ==
    /\ ajuste.aplicado /\ perfil = "ajuste"
    /\ perfil' = ajuste.previos
    /\ ajuste' = [ajuste EXCEPT !.aplicado = FALSE]
    /\ UNCHANGED <<mensajes, paso, trato>>

save_profile ==
    /\ perfil = "ajuste"
    /\ perfil' = "manual"
    /\ UNCHANGED <<ajuste, mensajes, paso, trato>>

cancelar ==
    /\ AjusteActivo
    /\ ajuste' = [ajuste EXCEPT !.estado = "CANCELADO"]
    /\ UNCHANGED <<mensajes, paso, perfil, trato>>

Soltar(w) == paso' = [paso EXCEPT ![w] = Paso0]

(***************************************************************************)
(* Handing over.  The token is committed before the task exists.           *)
(***************************************************************************)
(* «Reanudar»: to the broker, or not: then a death, or the broker, lost it.*)
reanudar ==
    /\ AjusteActivo /\ ajuste.ficha < MaxFicha
    /\ ajuste' = [ajuste EXCEPT !.ficha = @ + 1]
    /\ \/ mensajes' = mensajes \cup {ajuste.ficha + 1} /\ UNCHANGED trato
       \/ trato' = [trato EXCEPT !.huerfana = TRUE] /\ UNCHANGED mensajes
    /\ UNCHANGED <<paso, perfil>>

(* A slip: the next step is published under the token the step came with.  *)
ConLaFichaVieja(w) == [paso[w] EXCEPT !.pc = "publicar"]

PorPublicar(w) == [paso[w] EXCEPT !.pc = "publicar", !.ficha = ajuste.ficha + 1]

(* Only the step the row names hands over: one UPDATE with the condition.  *)
continuar(w) ==
    /\ paso[w].pc = "sigue"
    /\ IF ajuste.ficha = paso[w].ficha
       THEN /\ ajuste.ficha < MaxFicha
            /\ ajuste' = [ajuste EXCEPT !.ficha = @ + 1]
            /\ paso' = [paso EXCEPT ![w] = PorPublicar(w)]
       ELSE Soltar(w) /\ UNCHANGED ajuste
    /\ UNCHANGED <<mensajes, perfil, trato>>

Publicar(w) ==
    /\ paso[w].pc = "publicar"
    /\ mensajes' = mensajes \cup {paso[w].ficha}
    /\ paso' = [paso EXCEPT ![w] = Paso0]
    /\ UNCHANGED <<ajuste, perfil, trato>>

(***************************************************************************)
(* A step, from the message to the trial.                                  *)
(***************************************************************************)
Suya(ficha) == ajuste.ficha = ficha

Sigue(w, pc, ficha, candidato) ==
    paso' = [paso EXCEPT ![w] =
        [Paso0 EXCEPT !.pc = pc, !.ficha = ficha, !.candidato = candidato,
                      !.n = Len(ajuste.ensayos)]]

NoEsSuya(w, ficha) ==
    /\ ~Suya(ficha) \/ ~AjusteActivo
    /\ Soltar(w)
    /\ UNCHANGED <<ajuste, perfil>>

_empezar_ajuste(w, ficha) ==
    /\ Suya(ficha) /\ ajuste.estado = "PENDIENTE"
    /\ ajuste' = [ajuste EXCEPT !.estado = "EN_CURSO"]
    /\ Sigue(w, "sigue", ficha, Base)
    /\ UNCHANGED perfil

NoSePuedeReanudar(w) ==
    /\ _planificar(ajuste.ensayos).roto
    /\ ajuste' = [ajuste EXCEPT !.estado = "ERROR"]
    /\ Soltar(w)
    /\ UNCHANGED perfil

_probar(w, ficha) ==
    /\ \E c \in _planificar(ajuste.ensayos).sigue : Sigue(w, "probando", ficha, c)
    /\ UNCHANGED <<ajuste, perfil>>

_terminar_ajuste(w) ==
    LET plan == _planificar(ajuste.ensayos)
        hecho == [ajuste EXCEPT !.estado = "COMPLETADO", !.mejor = plan.mejor]
        sola == /\ ajuste.aplicar_si_mejora /\ plan.mejor.par # Base
                /\ plan.mejor.calidad > ajuste.ensayos[1].calidad
    IN  /\ plan.sigue = {} /\ ~plan.roto
        /\ ajuste' = IF sola THEN ConPerfil(hecho) ELSE hecho
        /\ perfil' = IF sola THEN "ajuste" ELSE perfil
        /\ Soltar(w)

(* The row as it is when the message is taken decides what the step does.  *)
run_autotune(w, ficha) ==
    /\ paso[w].pc = "libre" /\ ficha \in mensajes
    /\ mensajes' = mensajes \ {ficha}
    /\ \/ NoEsSuya(w, ficha)
       \/ _empezar_ajuste(w, ficha)
       \/ /\ Suya(ficha) /\ ajuste.estado = "EN_CURSO"
          /\ \/ NoSePuedeReanudar(w)
             \/ _probar(w, ficha)
             \/ _terminar_ajuste(w)
    /\ UNCHANGED trato

(* A slip: a cancelled search is noticed, a lost one is not.               *)
SoloSiEnCurso(w) == ajuste.estado = "EN_CURSO"

SigueSiendoSuya(w) == ajuste.estado = "EN_CURSO" /\ Suya(paso[w].ficha)

(* The trial over, the row is read again: cancelled, or taken over?  (The  *)
(* bound: trials recorded twice are followed for one more than the budget.)*)
ReleerAjuste(w, calidad, rapido) ==
    /\ paso[w].pc = "probando" /\ Len(ajuste.ensayos) <= Presupuesto
    /\ paso' = [paso EXCEPT ![w] =
          IF SigueSiendoSuya(w)
          THEN [@ EXCEPT !.pc = "releido",
                         !.lista = Append(ajuste.ensayos, [par |-> paso[w].candidato,
                                             calidad |-> calidad, rapido |-> rapido])]
          ELSE Paso0]
    /\ trato' = [trato EXCEPT !.cruce = @ \/ (Suya(paso[w].ficha)
                                            /\ paso[w].n # Len(ajuste.ensayos))]
    /\ UNCHANGED <<ajuste, mensajes, perfil>>

(* The model fails, or the trial takes too long.                           *)
marcar_error(w) ==
    /\ paso[w].pc = "probando"
    /\ ajuste' = IF AjusteActivo THEN [ajuste EXCEPT !.estado = "ERROR"] ELSE ajuste
    /\ paso' = [paso EXCEPT ![w] = Paso0]
    /\ UNCHANGED <<mensajes, perfil, trato>>

(* The write has no condition: the list is the one that was read, plus one.*)
GuardarEnsayo(w) ==
    /\ paso[w].pc = "releido"
    /\ ajuste' = [ajuste EXCEPT !.ensayos = paso[w].lista]
    /\ trato' = [trato EXCEPT !.cruce = @ \/ Len(paso[w].lista) # Len(ajuste.ensayos) + 1]
    /\ paso' = [paso EXCEPT ![w] = [@ EXCEPT !.pc = "sigue", !.lista = <<>>]]
    /\ UNCHANGED <<mensajes, perfil>>

(* Late acknowledgement: a lost step comes back, and one the broker takes  *)
(* for lost comes back while it still runs.                                *)
Reentregar(w) ==
    /\ paso[w].pc \in {"probando", "releido", "sigue"}
    /\ mensajes' = mensajes \cup {paso[w].ficha}
    /\ paso' \in {paso, [paso EXCEPT ![w] = Paso0]}
    /\ UNCHANGED <<ajuste, perfil, trato>>

(* Lost between the commit of the new token and its publication: the step  *)
(* that is delivered again no longer owns the search.                      *)
MorirSinPublicar(w) ==
    /\ paso[w].pc = "publicar"
    /\ paso' = [paso EXCEPT ![w] = Paso0]
    /\ trato' = [trato EXCEPT !.huerfana = TRUE]
    /\ UNCHANGED <<ajuste, mensajes, perfil>>

NextAjuste ==
    \/ aplicar \/ revertir \/ save_profile \/ cancelar \/ reanudar
    \/ \E w \in Pasos :
          \/ continuar(w)
          \/ Publicar(w)
          \/ \E ficha \in mensajes : run_autotune(w, ficha)
          \/ \E calidad \in 0..1, rapido \in BOOLEAN : ReleerAjuste(w, calidad, rapido)
          \/ marcar_error(w)
          \/ GuardarEnsayo(w)
          \/ Reentregar(w)
          \/ MorirSinPublicar(w)

SpecAjuste == InitAjuste /\ [][NextAjuste]_varsAjuste

(***************************************************************************)
(* The recorded trials are always those of one search, so that a step      *)
(* after a crash, a second delivery or «Reanudar» can carry on from them,  *)
(* unless the owner, reading the row again, found a trial it did not plan  *)
(* on, or wrote over one recorded since it read; and what a finished       *)
(* search proposes never measured worse than what was configured.          *)
(***************************************************************************)
EnsayosDeUnaBusqueda ==
    ~trato.cruce =>
       /\ ~_planificar(ajuste.ensayos).roto
       /\ ajuste.estado = "COMPLETADO" => ajuste.mejor.calidad >= ajuste.ensayos[1].calidad

(***************************************************************************)
(* A search under way always has somebody to advance it: its token is in   *)
(* the queue or with a running step.  Only a publication that was lost,    *)
(* by a death or by the broker, leaves it to a person.                     *)
(***************************************************************************)
AlguienLaAvanza ==
    AjusteActivo /\ ~trato.huerfana =>
       \/ ajuste.ficha \in mensajes
       \/ \E w \in Pasos : paso[w].pc # "libre" /\ paso[w].ficha = ajuste.ficha

(* The search as a whole: its trials are its own, and somebody has it in   *)
(* hand while it is not over.                                              *)
BusquedaEntera == EnsayosDeUnaBusqueda /\ AlguienLaAvanza
=============================================================================
