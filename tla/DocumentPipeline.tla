-------------------------- MODULE DocumentPipeline --------------------------
(***************************************************************************)
(* One uploaded document, from quarantine to the manager's review.         *)
(*                                                                         *)
(* The row of the document lives in PostgreSQL (READ COMMITTED, no row     *)
(* lock, no version column), its bytes in an object store, and the next    *)
(* task of its Celery chain in a broker that redelivers a message until it *)
(* is acknowledged.  A worker loads the row once, acts on the store, and   *)
(* writes back the columns it changed; between the load and the commit any *)
(* other worker or web request may have committed.  That gap is what this  *)
(* module is about: every task is a load, its effects on the store one by  *)
(* one, a commit, the publication of the next task and an acknowledgement, *)
(* and a worker may die between any two of them.                           *)
(***************************************************************************)
EXTENDS DocumentStates, FiniteSets

CONSTANTS
    Obreros,        \* worker processes of the Celery pool
    Peticiones,     \* web requests being served at the same time
    Operaciones,    \* what those requests ask for
    Fallos,         \* the kinds of failure this instance may meet
    Veredictos,     \* the verdicts the antivirus may give
    AutoAprobar,    \* the setting DOCUMENTOS_AUTO_APROBAR
    MaxReintentos,  \* max_retries of RETRY_POLICY
    MaxCaidas,      \* bound: worker deaths
    MaxPeticiones   \* bound: web requests

OperacionesPosibles ==
    {"reprocesar", "reprocesar_inicio", "aprobar", "rechazar", "borrar"}

(* The failures the code distinguishes: the store refuses a call, it       *)
(* returns other bytes than were written, a delete fails (logged, never    *)
(* raised), clamd is unreachable (transient), it answers nonsense, the text*)
(* cannot be read, the model fails, the broker refuses a message, a web    *)
(* process dies, a task exceeds its hard time limit.                       *)
FallosPosibles ==
    {"almacen", "hash", "borrado", "antivirus", "antivirus_error", "texto",
     "ia", "cola", "web", "tiempo"}

ASSUME OperacionesAssumption == Operaciones \subseteq OperacionesPosibles
ASSUME FallosAssumption == Fallos \subseteq FallosPosibles
ASSUME VeredictosAssumption == Veredictos \subseteq {"limpio", "infectado"}
ASSUME AutoAprobarAssumption == AutoAprobar \in BOOLEAN
ASSUME MaximosAssumption ==
    MaxReintentos \in Nat /\ MaxCaidas \in Nat /\ MaxPeticiones \in Nat

VARIABLES
    doc,        \* the row of `documents` and what hangs from it
    obj,        \* the objects that really exist in the two buckets
    admitido,   \* whether the file's real type is one of the allowed ones
    veredictos, \* the verdicts the antivirus has given so far
    cola,       \* messages waiting in the broker
    obrero,     \* what each worker is doing
    peticion,   \* what each web request is doing
    caidas,     \* worker deaths so far
    pedidas     \* web requests so far

vars == <<doc, obj, admitido, veredictos, cola, obrero, peticion, caidas,
          pedidas>>

Mensajes == [paso : Pasos, reint : 0..MaxReintentos]

(* The columns a task or a request reads when it loads the row.            *)
Lecturas == [estado : DocumentProcessState, cuar : BOOLEAN, alm : BOOLEAN,
             err : BOOLEAN]

Leida == [estado |-> doc.estado, cuar |-> doc.cuar, alm |-> doc.alm,
          err |-> doc.err]

SinLeer == [estado |-> "RECIBIDO", cuar |-> FALSE, alm |-> FALSE, err |-> FALSE]

PrimerMensaje == [paso |-> "validate", reint |-> 0]

ObreroLibre == [pc |-> "libre", msg |-> PrimerMensaje, mem |-> SinLeer,
                res |-> "ok"]

PeticionLibre == [pc |-> "libre", op |-> "borrar", mem |-> SinLeer,
                  destino |-> "RECIBIDO"]

FilaNueva == [estado |-> "RECIBIDO", cuar |-> TRUE, alm |-> FALSE,
              texto |-> FALSE, extr |-> FALSE, err |-> FALSE,
              borrado |-> FALSE, alcanzados |-> {}]

(***************************************************************************)
(* `upload` puts the bytes in quarantine, commits the row, and only then   *)
(* hands the chain to the broker; a refusal of the broker is written on    *)
(* the row, and a web process that dies before that leaves a row with no   *)
(* chain.                                                                  *)
(***************************************************************************)
Init ==
    /\ \/ doc = FilaNueva /\ cola = [m \in Mensajes |->
                                        IF m = PrimerMensaje THEN 1 ELSE 0]
       \/ "cola" \in Fallos /\ doc = [FilaNueva EXCEPT !.err = TRUE]
                            /\ cola = [m \in Mensajes |-> 0]
       \/ "web" \in Fallos /\ doc = FilaNueva
                           /\ cola = [m \in Mensajes |-> 0]
    /\ obj = [cuar |-> TRUE, def |-> FALSE]
    /\ admitido \in BOOLEAN
    /\ veredictos = {}
    /\ obrero = [o \in Obreros |-> ObreroLibre]
    /\ peticion = [p \in Peticiones |-> PeticionLibre]
    /\ caidas = 0
    /\ pedidas = 0

(***************************************************************************)
(* Writing the row.  A session writes only the attributes it changed with  *)
(* respect to what it LOADED (mem); the rest of the row keeps whatever is  *)
(* committed at that moment (fila).                                        *)
(***************************************************************************)

(* `transition` once the move is known to be allowed.                      *)
Mover(fila, mem, nuevo) ==
    IF nuevo = mem.estado THEN fila
    ELSE [fila EXCEPT !.estado = nuevo,
                      !.alcanzados = @ \cup {nuevo},
                      !.err = @ /\ (nuevo = "ERROR" \/ ~mem.err)]

(* `mark_failed`: the error is set and the move tried.  A refused move, or  *)
(* one to ERROR, leaves it; a move to RECHAZADO clears it again, within the*)
(* same session, as any other transition does.                             *)
MarcarFallo(fila, mem, nuevo) ==
    LET movida == IF Permite(mem.estado, nuevo) THEN Mover(fila, mem, nuevo)
                                                ELSE fila IN
    IF nuevo \in ALLOWED_TRANSITIONS[mem.estado] \ {"ERROR"} THEN movida
    ELSE [movida EXCEPT !.err = TRUE]

(* What a task that succeeded writes besides the state.                    *)
ConResultado(fila, paso) ==
    CASE paso = "store"        -> [fila EXCEPT !.alm = TRUE, !.cuar = FALSE]
      [] paso = "extract_text" -> [fila EXCEPT !.texto = TRUE]
      [] paso = "ai_extract"   -> [fila EXCEPT !.extr = TRUE]
      [] OTHER                 -> fila

(***************************************************************************)
(* The worker.                                                             *)
(***************************************************************************)
En(o, pc, paso) == obrero[o].pc = pc /\ obrero[o].msg.paso = paso

Pasar(o, pc, res) ==
    obrero' = [obrero EXCEPT ![o].pc = pc, ![o].res = res]

Publicado(m) == [cola EXCEPT ![m] = @ + 1]

SoloObrero == UNCHANGED <<doc, obj, admitido, veredictos, cola, peticion,
                          caidas, pedidas>>

(* The quarantine copy can be read: the row named it and it is there.      *)
Legible(o) == obrero[o].mem.cuar /\ obj.cuar

(* Deliberate faults: a task that only avoids the terminal states, and one *)
(* that picks up any document in error.                                    *)
ProcedeSiempre(paso) == doc.estado \notin DOCUMENT_TERMINAL_STATES

ProcedeTrasError(paso) == doc.estado \in Entrada[paso] \cup {"ERROR"}

(* `_skip_unless`: the task declines unless the row is in its input state. *)
Procede(paso) == doc.estado \in Entrada[paso]

(* Tasks with nothing to read from outside the database go straight to     *)
(* their commit.                                                           *)
PrimeraFase(paso) == IF paso \in {"classify", "finalize"} THEN "escribir"
                                                          ELSE "actuar"

(* Take a message and load the row.  The message stays unacknowledged.     *)
Tomar(o) ==
    \E m \in Mensajes :
        /\ obrero[o].pc = "libre"
        /\ cola[m] > 0
        /\ cola' = [cola EXCEPT ![m] = @ - 1]
        /\ obrero' = [obrero EXCEPT ![o] =
              IF Procede(m.paso)
              THEN [pc |-> PrimeraFase(m.paso), msg |-> m, mem |-> Leida,
                    res |-> "ok"]
              ELSE [pc |-> "publicar", msg |-> m, mem |-> SinLeer,
                    res |-> "ok"]]
        /\ UNCHANGED <<doc, obj, admitido, veredictos, peticion, caidas,
                       pedidas>>

(* validate: read the head of the quarantine copy and judge its type.      *)
ValidarFichero(o) ==
    /\ En(o, "actuar", "validate")
    /\ \/ Legible(o) /\ Pasar(o, "escribir", IF admitido THEN "ok"
                                                         ELSE "rechazo")
       \/ (~Legible(o) \/ "almacen" \in Fallos) /\ Pasar(o, "escribir", "error")
    /\ SoloObrero

(* scan: the storage read is outside the task's try, so a failure there    *)
(* ends the chain without a mark; a verdict comes from outside.            *)
Analizar(o) ==
    /\ En(o, "actuar", "scan")
    /\ Legible(o)
    /\ \E v \in Veredictos :
          /\ veredictos' = veredictos \cup {v}
          /\ IF v = "limpio" THEN Pasar(o, "escribir", "ok")
                             ELSE Pasar(o, "destruir", "infectado")
    /\ UNCHANGED <<doc, obj, admitido, cola, peticion, caidas, pedidas>>

AnalisisFallido(o) ==
    /\ En(o, "actuar", "scan")
    /\ \/ Legible(o) /\ "antivirus_error" \in Fallos /\ Pasar(o, "escribir", "error")
       \/ (~Legible(o) \/ "almacen" \in Fallos) /\ Pasar(o, "acusar", "ok")
    /\ SoloObrero

(* clamd is unreachable: TransientError.  The retry is a new message; once *)
(* the retries are spent the exception ends the chain, and nothing is      *)
(* written on the row.                                                     *)
ReintentarAnalisis(o) ==
    /\ En(o, "actuar", "scan")
    /\ Legible(o)
    /\ "antivirus" \in Fallos
    /\ LET m == obrero[o].msg IN
       cola' = IF m.reint < MaxReintentos
               THEN Publicado([m EXCEPT !.reint = @ + 1]) ELSE cola
    /\ Pasar(o, "acusar", "ok")
    /\ UNCHANGED <<doc, obj, admitido, veredictos, peticion, caidas, pedidas>>

(* An infected file is destroyed before its state is committed.            *)
DestruirInfectado(o) ==
    /\ En(o, "destruir", "scan")
    /\ \/ obj' = [obj EXCEPT !.cuar = FALSE]
       \/ "borrado" \in Fallos /\ UNCHANGED obj
    /\ Pasar(o, "escribir", "infectado")
    /\ UNCHANGED <<doc, admitido, veredictos, cola, peticion, caidas, pedidas>>

(* Deliberate faults: the source is deleted with the copy, before anything *)
(* is verified; a copy with the wrong hash is deleted and accepted.        *)
CopiarYBorrar(o) ==
    /\ En(o, "actuar", "store")
    /\ Legible(o)
    /\ obj' = [cuar |-> FALSE, def |-> TRUE]
    /\ Pasar(o, "verificar", "ok")
    /\ UNCHANGED <<doc, admitido, veredictos, cola, peticion, caidas, pedidas>>

VerificarSinAvisar(o) ==
    /\ En(o, "verificar", "store")
    /\ \/ UNCHANGED obj
       \/ "hash" \in Fallos /\ obj' = [obj EXCEPT !.def = FALSE]
    /\ Pasar(o, "retirar", "ok")
    /\ UNCHANGED <<doc, admitido, veredictos, cola, peticion, caidas, pedidas>>

(* store, `promote`: copy, verify what landed, delete the source.          *)
Copiar(o) ==
    /\ En(o, "actuar", "store")
    /\ \/ Legible(o) /\ obj' = [obj EXCEPT !.def = TRUE]
                     /\ Pasar(o, "verificar", "ok")
       \/ (~Legible(o) \/ "almacen" \in Fallos)
            /\ UNCHANGED obj /\ Pasar(o, "escribir", "error")
    /\ UNCHANGED <<doc, admitido, veredictos, cola, peticion, caidas, pedidas>>

Verificar(o) ==
    /\ En(o, "verificar", "store")
    /\ \/ obj.def /\ UNCHANGED obj /\ Pasar(o, "retirar", "ok")
       \/ (~obj.def \/ "almacen" \in Fallos)
            /\ UNCHANGED obj /\ Pasar(o, "escribir", "error")
       \/ obj.def /\ "hash" \in Fallos
            /\ obj' = [obj EXCEPT !.def = FALSE] /\ Pasar(o, "escribir", "error")
    /\ UNCHANGED <<doc, admitido, veredictos, cola, peticion, caidas, pedidas>>

RetirarCuarentena(o) ==
    /\ En(o, "retirar", "store")
    /\ \/ obj' = [obj EXCEPT !.cuar = FALSE]
       \/ "borrado" \in Fallos /\ UNCHANGED obj
    /\ Pasar(o, "escribir", "ok")
    /\ UNCHANGED <<doc, admitido, veredictos, cola, peticion, caidas, pedidas>>

(* extract_text: open the stored original named by the row.                *)
ExtraerTexto(o) ==
    /\ En(o, "actuar", "extract_text")
    /\ \/ obrero[o].mem.alm /\ obj.def /\ Pasar(o, "escribir", "ok")
       \/ (~(obrero[o].mem.alm /\ obj.def) \/ Fallos \cap {"almacen", "texto"} # {})
            /\ Pasar(o, "escribir", "error")
    /\ SoloObrero

(* ai_extract: a rule reader or a model; normalize: needs an extraction.   *)
ExtraerDatos(o) ==
    /\ En(o, "actuar", "ai_extract")
    /\ \/ Pasar(o, "escribir", "ok")
       \/ "ia" \in Fallos /\ Pasar(o, "escribir", "error")
    /\ SoloObrero

Normalizar(o) ==
    /\ En(o, "actuar", "normalize")
    /\ Pasar(o, "escribir", IF doc.extr THEN "ok" ELSE "error")
    /\ SoloObrero

(* The commit of a task that succeeded.                                    *)
Completar(o) ==
    LET w == obrero[o]
        paso == w.msg.paso IN
    /\ w.pc = "escribir" /\ w.res = "ok"
    /\ doc' = Mover(ConResultado(doc, paso), w.mem, Salida[paso])
    /\ obrero' = [obrero EXCEPT
                     ![o].pc = IF paso = "finalize" THEN "decidir" ELSE "publicar",
                     ![o].mem = SinLeer]
    /\ UNCHANGED <<obj, admitido, veredictos, cola, peticion, caidas, pedidas>>

(* The commit of one that failed; the exception then ends the chain.       *)
Fracasar(o) ==
    LET w == obrero[o]
        nuevo == IF w.res = "rechazo" THEN "RECHAZADO" ELSE "ERROR" IN
    /\ w.pc = "escribir" /\ w.res \in {"error", "rechazo"}
    /\ doc' = MarcarFallo(doc, w.mem, nuevo)
    /\ obrero' = [obrero EXCEPT ![o].pc = "acusar", ![o].mem = SinLeer,
                                ![o].res = "ok"]
    /\ UNCHANGED <<obj, admitido, veredictos, cola, peticion, caidas, pedidas>>

(* The commit of an infected verdict.                                      *)
Infectar(o) ==
    LET w == obrero[o] IN
    /\ w.pc = "escribir" /\ w.res = "infectado"
    /\ doc' = Mover([doc EXCEPT !.cuar = FALSE], w.mem, "INFECTADO")
    /\ obrero' = [obrero EXCEPT ![o].pc = "acusar", ![o].mem = SinLeer,
                                ![o].res = "ok"]
    /\ UNCHANGED <<obj, admitido, veredictos, cola, peticion, caidas, pedidas>>

(* finalize, second transaction: approve in the uploader's name when the   *)
(* setting allows it and the extraction qualifies.                         *)
Decidir(o) ==
    /\ En(o, "decidir", "finalize")
    /\ \/ Pasar(o, "acusar", "ok")
       \/ /\ AutoAprobar /\ doc.extr /\ Permite(doc.estado, "APROBADO")
          /\ obrero' = [obrero EXCEPT ![o].pc = "aprobar", ![o].mem = Leida]
    /\ SoloObrero

AprobarSola(o) ==
    /\ En(o, "aprobar", "finalize")
    /\ doc' = Mover(doc, obrero[o].mem, "APROBADO")
    /\ obrero' = [obrero EXCEPT ![o].pc = "acusar", ![o].mem = SinLeer]
    /\ UNCHANGED <<obj, admitido, veredictos, cola, peticion, caidas, pedidas>>

(* A task that returned publishes the rest of the chain, then acknowledges *)
(* its own message (acks_late).                                            *)
Publicar(o) ==
    /\ obrero[o].pc = "publicar"
    /\ cola' = LET sig == Siguiente[obrero[o].msg.paso] IN
               IF sig = "ninguno" THEN cola
               ELSE Publicado([paso |-> sig, reint |-> 0])
    /\ Pasar(o, "acusar", "ok")
    /\ UNCHANGED <<doc, obj, admitido, veredictos, peticion, caidas, pedidas>>

Acusar(o) ==
    /\ obrero[o].pc = "acusar"
    /\ obrero' = [obrero EXCEPT ![o] = ObreroLibre]
    /\ SoloObrero

(* Deliberate fault: messages are acknowledged on delivery.                *)
MorirConAcusePrevio(o) ==
    /\ obrero[o].pc # "libre"
    /\ caidas < MaxCaidas
    /\ caidas' = caidas + 1
    /\ obrero' = [obrero EXCEPT ![o] = ObreroLibre]
    /\ UNCHANGED <<doc, obj, admitido, veredictos, cola, peticion, pedidas>>

(* The worker dies: its session is rolled back and the broker redelivers.  *)
Morir(o) ==
    /\ obrero[o].pc # "libre"
    /\ caidas < MaxCaidas
    /\ caidas' = caidas + 1
    /\ cola' = Publicado(obrero[o].msg)
    /\ obrero' = [obrero EXCEPT ![o] = ObreroLibre]
    /\ UNCHANGED <<doc, obj, admitido, veredictos, peticion, pedidas>>

(* The hard time limit: the task fails, its message is acknowledged, and   *)
(* nothing is written.                                                     *)
Vencer(o) ==
    /\ "tiempo" \in Fallos
    /\ obrero[o].pc \in {"actuar", "destruir", "verificar", "retirar",
                         "escribir", "decidir", "aprobar"}
    /\ obrero' = [obrero EXCEPT ![o] = ObreroLibre]
    /\ SoloObrero

(***************************************************************************)
(* The web.  A request loads the row, decides, and commits later.          *)
(***************************************************************************)

(* `reprocess`: where it rewinds to.                                       *)
DestinosDeReproceso(op) ==
    IF op = "reprocesar_inicio" THEN PrimerEstadoRepetible(doc.cuar, doc.alm)
                                ELSE UltimoEstadoBueno(doc.alcanzados)

EsReproceso(op) == op \in {"reprocesar", "reprocesar_inicio"}

PedirReproceso(p) ==
    \E op \in Operaciones :
        /\ EsReproceso(op)
        /\ peticion[p].pc = "libre" /\ pedidas < MaxPeticiones /\ ~doc.borrado
        /\ doc.estado \notin DOCUMENT_TERMINAL_STATES
        /\ \E d \in DestinosDeReproceso(op) :
              /\ doc.estado = d \/ PermiteRetroceso(doc.estado, d)
              /\ peticion' = [peticion EXCEPT ![p] =
                    [pc |-> "escribir", op |-> op, mem |-> Leida, destino |-> d]]
        /\ pedidas' = pedidas + 1
        /\ UNCHANGED <<doc, obj, admitido, veredictos, cola, obrero, caidas>>

(* `review`: needs an extraction; approve and reject both go through       *)
(* `transition`.                                                           *)
Juicio(op) == IF op = "aprobar" THEN "APROBADO" ELSE "DESCARTADO"

PedirJuicio(p) ==
    \E op \in Operaciones \cap {"aprobar", "rechazar"} :
        /\ peticion[p].pc = "libre" /\ pedidas < MaxPeticiones /\ ~doc.borrado
        /\ doc.extr
        /\ Permite(doc.estado, Juicio(op))
        /\ peticion' = [peticion EXCEPT ![p] =
              [pc |-> "escribir", op |-> op, mem |-> Leida,
               destino |-> Juicio(op)]]
        /\ pedidas' = pedidas + 1
        /\ UNCHANGED <<doc, obj, admitido, veredictos, cola, obrero, caidas>>

PedirBorrado(p) ==
    /\ "borrar" \in Operaciones
    /\ peticion[p].pc = "libre" /\ pedidas < MaxPeticiones /\ ~doc.borrado
    /\ peticion' = [peticion EXCEPT ![p].pc = "escribir", ![p].op = "borrar"]
    /\ pedidas' = pedidas + 1
    /\ UNCHANGED <<doc, obj, admitido, veredictos, cola, obrero, caidas>>

(* Deliberate fault: the reprocess starts at the task after the one that   *)
(* takes the state it rewound to.                                          *)
PasoTrasReanudacion(destino) ==
    IF destino \in DOMAIN RESUME_FROM THEN Siguiente[RESUME_FROM[destino]]
                                      ELSE "validate"

(* RESUME_FROM.get(destino, 'validate').                                   *)
PasoDeReanudacion(destino) ==
    IF destino \in DOMAIN RESUME_FROM THEN RESUME_FROM[destino] ELSE "validate"

(* The rewind is committed before the chain is handed to the broker.       *)
Rebobinar(p) ==
    LET q == peticion[p]
        fila == Mover(doc, q.mem, q.destino) IN
    /\ q.pc = "escribir" /\ EsReproceso(q.op)
    /\ doc' = [fila EXCEPT !.err = @ /\ ~q.mem.err]
    /\ peticion' = [peticion EXCEPT ![p].pc = "encolar"]
    /\ UNCHANGED <<obj, admitido, veredictos, cola, obrero, caidas, pedidas>>

Encolar(p) ==
    /\ peticion[p].pc = "encolar"
    /\ \/ /\ cola' = Publicado([paso |-> PasoDeReanudacion(peticion[p].destino),
                                reint |-> 0])
          /\ UNCHANGED doc
       \/ /\ "cola" \in Fallos
          /\ doc' = [doc EXCEPT !.err = TRUE]
          /\ UNCHANGED cola
    /\ peticion' = [peticion EXCEPT ![p] = PeticionLibre]
    /\ UNCHANGED <<obj, admitido, veredictos, obrero, caidas, pedidas>>

Juzgar(p) ==
    LET q == peticion[p] IN
    /\ q.pc = "escribir" /\ q.op \in {"aprobar", "rechazar"}
    /\ doc' = Mover(doc, q.mem, q.destino)
    /\ peticion' = [peticion EXCEPT ![p] = PeticionLibre]
    /\ UNCHANGED <<obj, admitido, veredictos, cola, obrero, caidas, pedidas>>

Borrar(p) ==
    /\ peticion[p].pc = "escribir" /\ peticion[p].op = "borrar"
    /\ doc' = [doc EXCEPT !.borrado = TRUE]
    /\ peticion' = [peticion EXCEPT ![p] = PeticionLibre]
    /\ UNCHANGED <<obj, admitido, veredictos, cola, obrero, caidas, pedidas>>

(* A web process dies mid-request; nothing takes its work over.            *)
MorirWeb(p) ==
    /\ "web" \in Fallos
    /\ peticion[p].pc # "libre"
    /\ peticion' = [peticion EXCEPT ![p] = PeticionLibre]
    /\ UNCHANGED <<doc, obj, admitido, veredictos, cola, obrero, caidas,
                   pedidas>>

(***************************************************************************)
(* The specification.                                                      *)
(***************************************************************************)
AvanceObrero(o) ==
    \/ Tomar(o) \/ ValidarFichero(o) \/ Analizar(o) \/ AnalisisFallido(o)
    \/ ReintentarAnalisis(o) \/ DestruirInfectado(o) \/ Copiar(o)
    \/ Verificar(o) \/ RetirarCuarentena(o) \/ ExtraerTexto(o)
    \/ ExtraerDatos(o) \/ Normalizar(o) \/ Completar(o) \/ Fracasar(o)
    \/ Infectar(o) \/ Decidir(o) \/ AprobarSola(o) \/ Publicar(o) \/ Acusar(o)

PasoObrero(o) == AvanceObrero(o) \/ Morir(o) \/ Vencer(o)

AvancePeticion(p) == Rebobinar(p) \/ Encolar(p) \/ Juzgar(p) \/ Borrar(p)

PasoPeticion(p) ==
    \/ PedirReproceso(p) \/ PedirJuicio(p) \/ PedirBorrado(p)
    \/ AvancePeticion(p) \/ MorirWeb(p)

Next == \/ \E o \in Obreros : PasoObrero(o)
        \/ \E p \in Peticiones : PasoPeticion(p)

Spec == Init /\ [][Next]_vars

(* A live worker keeps consuming and a request being served is finished;   *)
(* nobody is obliged to die, to time out or to ask for anything.           *)
Equidad == /\ \A o \in Obreros : WF_vars(AvanceObrero(o))
           /\ \A p \in Peticiones : WF_vars(AvancePeticion(p))

FairSpec == Spec /\ Equidad
(***************************************************************************)
(* What must hold.                                                         *)
(***************************************************************************)
PCObrero == {"libre", "actuar", "destruir", "verificar", "retirar",
             "escribir", "decidir", "aprobar", "publicar", "acusar"}

Filas == [estado : DocumentProcessState, cuar : BOOLEAN, alm : BOOLEAN,
          texto : BOOLEAN, extr : BOOLEAN, err : BOOLEAN, borrado : BOOLEAN,
          alcanzados : SUBSET DocumentProcessState]

(* The type of every variable.                                             *)
TypeOK ==
    /\ doc \in Filas
    /\ obj \in [cuar : BOOLEAN, def : BOOLEAN]
    /\ admitido \in BOOLEAN
    /\ veredictos \subseteq {"limpio", "infectado"}
    /\ cola \in [Mensajes -> Nat]
    /\ obrero \in [Obreros -> [pc : PCObrero, msg : Mensajes, mem : Lecturas,
                   res : {"ok", "error", "rechazo", "infectado"}]]
    /\ peticion \in [Peticiones -> [pc : {"libre", "escribir", "encolar"},
                     op : OperacionesPosibles, mem : Lecturas,
                     destino : EnOrden \cup {"DESCARTADO"}]]
    /\ caidas \in Nat /\ pedidas \in Nat

(* No file reaches the definitive bucket, and no row offers it, before the *)
(* antivirus has given it a clean verdict, whatever stale state two chains *)
(* write over each other ("on no account is the file promoted unscanned",  *)
(* document_tasks.py scan_document).                                       *)
SoloLimpioAlmacenado ==
    obj.def \/ doc.alm => "limpio" \in veredictos

(* Somewhere a copy of the bytes exists, unless the antivirus condemned    *)
(* them: no crash between promote's copy, its delete and the commit, and   *)
(* no second chain promoting at once, loses an original.                   *)
FicheroNoSePierde ==
    obj.cuar \/ obj.def \/ "infectado" \in veredictos

(* A document offered for download (Document.esta_disponible) has its      *)
(* bytes: the row never points at an object that is not there.             *)
DisponibleExiste ==
    doc.alm /\ ~doc.borrado /\ doc.estado # "INFECTADO" => obj.def

(* The recorded history has no gap: a state of the chain was only ever     *)
(* entered by a document that had been through every earlier one, even     *)
(* when stale writes and rewinds make the current state jump about.        *)
(* `_last_successful_state` trusts exactly this.                           *)
HistorialSinSaltos ==
    /\ \A i, j \in 2..9 :
          i < j /\ DOCUMENT_PIPELINE_ORDER[j] \in doc.alcanzados
             => DOCUMENT_PIPELINE_ORDER[i] \in doc.alcanzados
    /\ "APROBADO" \in doc.alcanzados => "EXTRAIDO" \in doc.alcanzados

(* Whatever state a reprocess has settled on, the data its first task      *)
(* reads is there from the choice until the chain is handed over, although *)
(* the row may have been rewritten in between.  A rewind to a state whose  *)
(* task reads the quarantine copy was chosen from a row that named it, and *)
(* the copy is there.  That last is promised only while no other run of    *)
(* the chain takes the copy away, by promoting it (the object is then in   *)
(* the definitive bucket) or on an infected verdict: nothing holds the copy*)
(* for the reprocess, and a promote that ended without its commit leaves a *)
(* row that names a copy already deleted.                                  *)
ReanudaConInsumos ==
    \A p \in Peticiones :
        LET q == peticion[p] IN
        EsReproceso(q.op) =>
            /\ q.destino = "ALMACENADO" => doc.alm /\ obj.def
            /\ q.destino \in {"TEXTO_EXTRAIDO", "CLASIFICADO"} => doc.texto
            /\ /\ q.destino \in {"RECIBIDO", "VALIDADO", "ESCANEADO"}
               /\ "infectado" \notin veredictos
               => q.mem.cuar /\ (obj.def \/ (doc.cuar /\ obj.cuar))

(* A redelivery repeats no work: until a task fails or somebody asks for a *)
(* reprocess, the one chain of the upload never takes the document into a  *)
(* state it has already been in, wherever a worker dies ("a Celery         *)
(* redelivery does nothing", document_tasks.py).  After a failure it may:  *)
(* a redelivered validate picks up a document in ERROR and starts again.   *)
(* So it is with one worker.  With two, a death after the link was         *)
(* published leaves it queued twice, and the slower of two runs of one     *)
(* task writes over what came after.                                       *)
SinRepetirTrabajo ==
    [][pedidas = 0 /\ "ERROR" \notin doc.alcanzados /\ doc'.estado # doc.estado
          => doc'.estado \notin doc.alcanzados]_vars

Reposo == /\ \A m \in Mensajes : cola[m] = 0
          /\ \A o \in Obreros : obrero[o].pc = "libre"
          /\ \A p \in Peticiones : peticion[p].pc = "libre"

Asentado == doc.err \/ doc.estado \in
    {"PENDIENTE_REVISION", "APROBADO", "ERROR"} \cup DOCUMENT_TERMINAL_STATES

(* The one gap: scan reads the quarantine copy outside its try, so when    *)
(* another chain, or its own run before a crash, has taken the copy away,  *)
(* or the row no longer names it (the delete of a promoted copy failed),   *)
(* the exception ends the chain and the row keeps saying VALIDADO.         *)
AnalisisSinCopia == doc.estado = "VALIDADO" /\ ~(doc.cuar /\ obj.cuar)

(* No document is left halfway in silence, but for that gap: once the      *)
(* deaths and the clicks are over, everything queued is consumed and the   *)
(* document waits for a person, is refused, or shows an error.  With two   *)
(* chains over the same row this rests on the last writer's chain being    *)
(* the one that goes on.                                                   *)
AcabaAsentado == <>[](Reposo /\ (Asentado \/ AnalisisSinCopia))

(* And never is: at no moment does everybody rest, with nothing queued,    *)
(* while the document is halfway.  Whoever wrote its state last still has  *)
(* the rest of the chain to publish, published it, or gave way to the task *)
(* that took it, and a redelivered task that skips passes it on.  So it is *)
(* while the broker takes every message and none is dropped by a failed    *)
(* read before the scan, the end of its retries, a hard limit or a death   *)
(* of the web process.                                                     *)
NadaAMedias == Reposo => Asentado \/ AnalisisSinCopia

(* The abstract promise about the bytes, under the obvious mapping.        *)
Custodia == INSTANCE FileCustody WITH
    cuarentena <- obj.cuar, definitivo <- obj.def,
    limpio <- "limpio" \in veredictos, infectado <- "infectado" \in veredictos

CumpleCustodia == Custodia!Spec

(***************************************************************************)
(* What the repository's documents say and the code does not do.           *)
(***************************************************************************)

(* OPERACION.md: while ClamAV is down, uploads pile up in <<validado>>     *)
(* until it is back.  So a validated document always has a task coming.    *)
EsperaAlAnalizador ==
    Reposo => doc.estado # "VALIDADO" \/ doc.err

(* document_tasks.py: a redelivery does nothing.  So, with nothing failing *)
(* but the worker, a document does not end in error.                       *)
ReentregaInocua ==
    Fallos = {} /\ pedidas = 0 => doc.estado # "ERROR"
=============================================================================
