----------------------- MODULE DocumentPipelineProofs -----------------------
(***************************************************************************)
(* What holds of DocumentPipeline for any number of workers and requests,  *)
(* any kinds of failure and any bounds.                                    *)
(***************************************************************************)
EXTENDS DocumentPipeline, TLAPS

(***************************************************************************)
(* The constant-level vocabulary, spelt out once.                          *)
(***************************************************************************)
(* The states of DOCUMENT_PIPELINE_ORDER, as a set the provers can       *)
(* enumerate.                                                            *)
LEMMA OrdenExplicito ==
    EnOrden = {"RECIBIDO", "VALIDADO", "ESCANEADO", "ALMACENADO",
               "TEXTO_EXTRAIDO", "CLASIFICADO", "EXTRAIDO", "NORMALIZADO",
               "PENDIENTE_REVISION", "REVISADO", "APROBADO"}
<1>1. \A i \in 1..11 : i = 1 \/ i = 2 \/ i = 3 \/ i = 4 \/ i = 5 \/ i = 6
                       \/ i = 7 \/ i = 8 \/ i = 9 \/ i = 10 \/ i = 11
  OBVIOUS
<1>2. {1, 2, 3, 4, 5, 6, 7, 8, 9, 10, 11} \subseteq 1..11
  OBVIOUS
<1>3. QED
  BY <1>1, <1>2 DEF EnOrden, DOCUMENT_PIPELINE_ORDER

(* The eight tasks of the chain, as a set.                               *)
LEMMA PasosExplicitos ==
    Pasos = {"validate", "scan", "store", "extract_text", "classify",
             "ai_extract", "normalize", "finalize"}
  BY DEF Pasos, PIPELINE

(* Where three states of the happy path stand in the order: the ones a   *)
(* resume compares with (CLASIFICADO is _REPROCESS_CEILING).             *)
LEMMA IndicesBajos ==
    Indice["RECIBIDO"] = 1 /\ Indice["VALIDADO"] = 2 /\ Indice["CLASIFICADO"] = 6
<1>1. "RECIBIDO" \in EnOrden /\ "VALIDADO" \in EnOrden /\ "CLASIFICADO" \in EnOrden
  BY OrdenExplicito
<1>2. /\ \A i \in 1..11 : DOCUMENT_PIPELINE_ORDER[i] = "RECIBIDO" <=> i = 1
      /\ \A i \in 1..11 : DOCUMENT_PIPELINE_ORDER[i] = "VALIDADO" <=> i = 2
      /\ \A i \in 1..11 : DOCUMENT_PIPELINE_ORDER[i] = "CLASIFICADO" <=> i = 6
  BY DEF DOCUMENT_PIPELINE_ORDER
<1>3. QED
  BY <1>1, <1>2 DEF Indice

(* Where every state of the happy path stands in the order.                *)
LEMMA IndicesExplicitos ==
    /\ Indice["RECIBIDO"] = 1 /\ Indice["VALIDADO"] = 2
    /\ Indice["ESCANEADO"] = 3 /\ Indice["ALMACENADO"] = 4
    /\ Indice["TEXTO_EXTRAIDO"] = 5 /\ Indice["CLASIFICADO"] = 6
    /\ Indice["EXTRAIDO"] = 7 /\ Indice["NORMALIZADO"] = 8
    /\ Indice["PENDIENTE_REVISION"] = 9 /\ Indice["REVISADO"] = 10
    /\ Indice["APROBADO"] = 11
<1>1. \A k \in 1..11 : /\ DOCUMENT_PIPELINE_ORDER[k] \in EnOrden
                       /\ \A i \in 1..11 :
                             DOCUMENT_PIPELINE_ORDER[i] = DOCUMENT_PIPELINE_ORDER[k]
                                <=> i = k
  BY DEF EnOrden, DOCUMENT_PIPELINE_ORDER
<1>2. \A k \in 1..11 : Indice[DOCUMENT_PIPELINE_ORDER[k]] = k
  BY <1>1 DEF Indice
<1>3. QED
  BY <1>2 DEF DOCUMENT_PIPELINE_ORDER

(* Every state the tasks and the requests write is a state of the enum.  *)
LEMMA EstadosExplicitos ==
    /\ EnOrden \subseteq DocumentProcessState
    /\ DOCUMENT_TERMINAL_STATES \subseteq DocumentProcessState
    /\ {"RECIBIDO", "CLASIFICADO", "ALMACENADO", "APROBADO", "ERROR",
        "INFECTADO", "RECHAZADO", "DESCARTADO"} \subseteq DocumentProcessState
  BY OrdenExplicito DEF DocumentProcessState, DOCUMENT_TERMINAL_STATES

(* Each task's input and output states are states of the enum, and what  *)
(* follows it is a task or nothing.                                      *)
LEMMA TablaDePasos ==
    \A paso \in Pasos : /\ Salida[paso] \in EnOrden
                        /\ Salida[paso] # "ERROR"
                        /\ Siguiente[paso] \in Pasos \cup {"ninguno"}
                        /\ Entrada[paso] \subseteq DocumentProcessState
  BY PasosExplicitos, OrdenExplicito, EstadosExplicitos
     DEF Salida, Siguiente, Entrada, DocumentProcessState

(* What an upload enqueues is a message of the chain.                    *)
LEMMA PrimerMensajeTipo == PrimerMensaje \in Mensajes
  BY PasosExplicitos, MaximosAssumption DEF PrimerMensaje, Mensajes

(* An idle worker and an idle request are well typed.                    *)
LEMMA LibresTipo ==
    /\ SinLeer \in Lecturas
    /\ ObreroLibre \in [pc : PCObrero, msg : Mensajes, mem : Lecturas,
                        res : {"ok", "error", "rechazo", "infectado"}]
    /\ PeticionLibre \in [pc : {"libre", "escribir", "encolar"},
                          op : OperacionesPosibles, mem : Lecturas,
                          destino : EnOrden \cup {"DESCARTADO"}]
  BY EstadosExplicitos, OrdenExplicito, PrimerMensajeTipo
     DEF SinLeer, Lecturas, ObreroLibre, PeticionLibre, PCObrero,
         OperacionesPosibles

(* The row an upload inserts is a row, and so is one marked with an error.*)
LEMMA FilaNuevaTipo ==
    FilaNueva \in Filas /\ [FilaNueva EXCEPT !.err = TRUE] \in Filas
  BY EstadosExplicitos DEF FilaNueva, Filas

(***************************************************************************)
(* Writing the row keeps it a row.                                         *)
(***************************************************************************)
(* `transition` writes a row.                                            *)
LEMMA MoverTipo ==
    ASSUME NEW fila \in Filas, NEW mem \in Lecturas,
           NEW nuevo \in DocumentProcessState
    PROVE  Mover(fila, mem, nuevo) \in Filas
  BY DEF Mover, Filas, Lecturas

(* `mark_failed` writes a row, whether or not it could move the state.   *)
LEMMA MarcarFalloTipo ==
    ASSUME NEW fila \in Filas, NEW mem \in Lecturas,
           NEW nuevo \in DocumentProcessState
    PROVE  MarcarFallo(fila, mem, nuevo) \in Filas
<1>1. Mover(fila, mem, nuevo) \in Filas
  BY MoverTipo
<1>2. \A f \in Filas : [f EXCEPT !.err = TRUE] \in Filas
  BY DEF Filas
<1>3. \E f \in Filas : \/ MarcarFallo(fila, mem, nuevo) = f
                       \/ MarcarFallo(fila, mem, nuevo) = [f EXCEPT !.err = TRUE]
  BY <1>1 DEF MarcarFallo
<1>4. QED
  BY <1>2, <1>3

(* What a task adds to the row besides its state keeps it a row.         *)
LEMMA ConResultadoTipo ==
    ASSUME NEW fila \in Filas, NEW paso
    PROVE  ConResultado(fila, paso) \in Filas
  BY DEF ConResultado, Filas

(***************************************************************************)
(* Types.                                                                  *)
(***************************************************************************)
EstadosObrero == [pc : PCObrero, msg : Mensajes, mem : Lecturas,
                  res : {"ok", "error", "rechazo", "infectado"}]

EstadosPeticion == [pc : {"libre", "escribir", "encolar"},
                    op : OperacionesPosibles, mem : Lecturas,
                    destino : EnOrden \cup {"DESCARTADO"}]

(* What a session loads from a well typed row is a well typed reading.   *)
LEMMA LeidaTipo == TypeOK => Leida \in Lecturas
  BY DEF TypeOK, Leida, Lecturas, Filas

(* A worker that goes from one phase of its task to the next stays typed.*)
LEMMA PasarTipo ==
    ASSUME NEW o \in Obreros, NEW pc \in PCObrero,
           NEW res \in {"ok", "error", "rechazo", "infectado"},
           obrero \in [Obreros -> EstadosObrero], Pasar(o, pc, res)
    PROVE  obrero' \in [Obreros -> EstadosObrero]
  BY DEF Pasar, EstadosObrero

(* The commit of a task: a new pc, and what was loaded is forgotten.       *)
LEMMA CierreTipo ==
    ASSUME NEW o \in Obreros, NEW pc \in PCObrero,
           obrero \in [Obreros -> EstadosObrero],
           obrero' = [obrero EXCEPT ![o].pc = pc, ![o].mem = SinLeer]
    PROVE  obrero' \in [Obreros -> EstadosObrero]
<1>1. \A r \in EstadosObrero :
         [r EXCEPT !.pc = pc, !.mem = SinLeer] \in EstadosObrero
  BY LibresTipo DEF EstadosObrero
<1>2. PICK r \in EstadosObrero : obrero' = [obrero EXCEPT ![o] = r]
  BY <1>1
<1>3. QED
  BY <1>2

(* Publishing a message leaves a queue of message counts.                *)
LEMMA PublicadoTipo ==
    ASSUME NEW m \in Mensajes, cola \in [Mensajes -> Nat]
    PROVE  Publicado(m) \in [Mensajes -> Nat]
  BY DEF Publicado

(* The initial states are well typed.                                    *)
LEMMA TipoInicial == Init => TypeOK
<1> SUFFICES ASSUME Init PROVE TypeOK
  OBVIOUS
<1>1. doc \in Filas /\ cola \in [Mensajes -> Nat]
  <2>1. /\ [m \in Mensajes |-> 0] \in [Mensajes -> Nat]
        /\ [m \in Mensajes |-> IF m = PrimerMensaje THEN 1 ELSE 0]
              \in [Mensajes -> Nat]
    OBVIOUS
  <2>2. QED
    BY <2>1, FilaNuevaTipo DEF Init
<1>2. /\ obrero \in [Obreros -> EstadosObrero]
      /\ peticion \in [Peticiones -> EstadosPeticion]
  BY LibresTipo DEF Init, EstadosObrero, EstadosPeticion
<1>3. /\ obj \in [cuar : BOOLEAN, def : BOOLEAN] /\ admitido \in BOOLEAN
      /\ veredictos \subseteq {"limpio", "infectado"}
      /\ caidas \in Nat /\ pedidas \in Nat
  BY DEF Init
<1>4. QED
  BY <1>1, <1>2, <1>3 DEF TypeOK, EstadosObrero, EstadosPeticion

(* No step of a worker breaks the types.                                 *)
LEMMA TipoObrero ==
    ASSUME TypeOK, NEW o \in Obreros, PasoObrero(o)
    PROVE  TypeOK'
<1> USE DEF EstadosObrero
<1>1. CASE Tomar(o)
  BY <1>1, LeidaTipo, LibresTipo DEF Tomar, TypeOK, PrimeraFase, PCObrero
<1>2. CASE ValidarFichero(o)
  BY <1>2, PasarTipo DEF ValidarFichero, SoloObrero, TypeOK, PCObrero
<1>3. CASE Analizar(o)
  BY <1>3, PasarTipo, VeredictosAssumption DEF Analizar, TypeOK, PCObrero
<1>4. CASE AnalisisFallido(o)
  BY <1>4, PasarTipo DEF AnalisisFallido, SoloObrero, TypeOK, PCObrero
<1>5. CASE ReintentarAnalisis(o)
  <2>1. obrero[o].msg.reint < MaxReintentos
          => [obrero[o].msg EXCEPT !.reint = @ + 1] \in Mensajes
    BY <1>5, MaximosAssumption DEF TypeOK, Mensajes
  <2>2. cola' \in [Mensajes -> Nat]
    BY <1>5, <2>1, PublicadoTipo DEF ReintentarAnalisis, TypeOK
  <2>3. QED
    BY <1>5, <2>2, PasarTipo DEF ReintentarAnalisis, TypeOK, PCObrero
<1>6. CASE DestruirInfectado(o)
  BY <1>6, PasarTipo DEF DestruirInfectado, TypeOK, PCObrero
<1>7. CASE Copiar(o)
  BY <1>7, PasarTipo DEF Copiar, TypeOK, PCObrero
<1>8. CASE Verificar(o)
  BY <1>8, PasarTipo DEF Verificar, TypeOK, PCObrero
<1>9. CASE RetirarCuarentena(o)
  BY <1>9, PasarTipo DEF RetirarCuarentena, TypeOK, PCObrero
<1>10. CASE ExtraerTexto(o)
  BY <1>10, PasarTipo DEF ExtraerTexto, SoloObrero, TypeOK, PCObrero
<1>11. CASE ExtraerDatos(o)
  BY <1>11, PasarTipo DEF ExtraerDatos, SoloObrero, TypeOK, PCObrero
<1>12. CASE Normalizar(o)
  BY <1>12, PasarTipo DEF Normalizar, SoloObrero, TypeOK, PCObrero
<1>13. CASE Completar(o)
  <2>1. obrero[o] \in EstadosObrero /\ obrero[o].msg.paso \in Pasos
    BY DEF TypeOK, Mensajes
  <2>2. doc' \in Filas
    BY <1>13, <2>1, MoverTipo, ConResultadoTipo, TablaDePasos, EstadosExplicitos
       DEF Completar, TypeOK
  <2>3. \E pc \in PCObrero :
           obrero' = [obrero EXCEPT ![o].pc = pc, ![o].mem = SinLeer]
    BY <1>13 DEF Completar, PCObrero
  <2>4. obrero' \in [Obreros -> EstadosObrero]
    BY <2>3, CierreTipo DEF TypeOK
  <2>5. QED
    BY <1>13, <2>2, <2>4 DEF Completar, TypeOK
<1>14. CASE Fracasar(o)
  <2>1. obrero[o] \in EstadosObrero /\ obrero[o].msg.paso \in Pasos
    BY DEF TypeOK, Mensajes
  <2>2. doc' \in Filas
    BY <1>14, <2>1, MarcarFalloTipo, EstadosExplicitos DEF Fracasar, TypeOK
  <2>3. obrero' \in [Obreros -> EstadosObrero]
    BY <1>14, LibresTipo DEF Fracasar, TypeOK, PCObrero
  <2>4. QED
    BY <1>14, <2>2, <2>3 DEF Fracasar, TypeOK
<1>15. CASE Infectar(o)
  <2>1. obrero[o] \in EstadosObrero /\ [doc EXCEPT !.cuar = FALSE] \in Filas
    BY DEF TypeOK, Filas
  <2>2. doc' \in Filas
    BY <1>15, <2>1, MoverTipo, EstadosExplicitos DEF Infectar, TypeOK
  <2>3. obrero' \in [Obreros -> EstadosObrero]
    BY <1>15, LibresTipo DEF Infectar, TypeOK, PCObrero
  <2>4. QED
    BY <1>15, <2>2, <2>3 DEF Infectar, TypeOK
<1>16. CASE Decidir(o)
  BY <1>16, PasarTipo, LeidaTipo DEF Decidir, SoloObrero, TypeOK, PCObrero
<1>17. CASE AprobarSola(o)
  <2>1. doc' \in Filas
    BY <1>17, MoverTipo, EstadosExplicitos DEF AprobarSola, TypeOK
  <2>2. obrero' \in [Obreros -> EstadosObrero]
    BY <1>17, CierreTipo DEF AprobarSola, TypeOK, PCObrero
  <2>3. QED
    BY <1>17, <2>1, <2>2 DEF AprobarSola, TypeOK
<1>18. CASE Publicar(o)
  <2>1. obrero[o].msg.paso \in Pasos
    BY DEF TypeOK, Mensajes
  <2>2. \A sig \in Pasos : [paso |-> sig, reint |-> 0] \in Mensajes
    BY MaximosAssumption DEF Mensajes
  <2>3. cola' \in [Mensajes -> Nat]
    BY <1>18, <2>1, <2>2, TablaDePasos, PublicadoTipo DEF Publicar, TypeOK
  <2>4. QED
    BY <1>18, <2>3, PasarTipo DEF Publicar, TypeOK, PCObrero
<1>19. CASE Acusar(o)
  BY <1>19, LibresTipo DEF Acusar, SoloObrero, TypeOK
<1>20. CASE Morir(o)
  <2>1. cola' \in [Mensajes -> Nat]
    BY <1>20, PublicadoTipo DEF Morir, TypeOK
  <2>2. QED
    BY <1>20, <2>1, LibresTipo DEF Morir, TypeOK
<1>21. CASE Vencer(o)
  BY <1>21, LibresTipo DEF Vencer, SoloObrero, TypeOK
<1>22. QED
  BY <1>1, <1>2, <1>3, <1>4, <1>5, <1>6, <1>7, <1>8, <1>9, <1>10, <1>11,
     <1>12, <1>13, <1>14, <1>15, <1>16, <1>17, <1>18, <1>19, <1>20, <1>21
     DEF PasoObrero, AvanceObrero

(* A reprocess only ever rewinds to a state of the happy path.           *)
LEMMA DestinosTipo ==
    ASSUME NEW op
    PROVE  DestinosDeReproceso(op) \subseteq EnOrden
  BY OrdenExplicito
     DEF DestinosDeReproceso, PrimerEstadoRepetible, UltimoEstadoBueno,
         MasLejano, _REPROCESS_CEILING

(* No step of a web request breaks the types.                            *)
LEMMA TipoPeticion ==
    ASSUME TypeOK, NEW p \in Peticiones, PasoPeticion(p)
    PROVE  TypeOK'
<1>1. CASE PedirReproceso(p)
  BY <1>1, LeidaTipo, DestinosTipo, EstadosExplicitos, OperacionesAssumption
     DEF PedirReproceso, TypeOK
<1>2. CASE PedirJuicio(p)
  <2>1. \A op : Juicio(op) \in EnOrden \cup {"DESCARTADO"}
    BY OrdenExplicito DEF Juicio
  <2>2. QED
    BY <1>2, <2>1, LeidaTipo, OperacionesAssumption DEF PedirJuicio, TypeOK
<1>3. CASE PedirBorrado(p)
  <2>1. \A r \in EstadosPeticion :
           [r EXCEPT !.pc = "escribir", !.op = "borrar"] \in EstadosPeticion
    BY DEF EstadosPeticion, OperacionesPosibles
  <2>2. peticion' = [peticion EXCEPT ![p] =
           [peticion[p] EXCEPT !.pc = "escribir", !.op = "borrar"]]
    BY <1>3 DEF PedirBorrado, TypeOK
  <2>3. peticion' \in [Peticiones -> EstadosPeticion]
    BY <2>1, <2>2 DEF TypeOK, EstadosPeticion
  <2>4. QED
    BY <1>3, <2>3 DEF PedirBorrado, TypeOK, EstadosPeticion
<1>4. CASE Rebobinar(p)
  <2>1. /\ peticion[p].mem \in Lecturas
        /\ peticion[p].destino \in DocumentProcessState \ {"ERROR"}
    BY EstadosExplicitos, OrdenExplicito DEF TypeOK
  <2>2. Mover(doc, peticion[p].mem, peticion[p].destino) \in Filas
    BY <2>1, MoverTipo DEF TypeOK
  <2>3. \A fila \in Filas, b \in BOOLEAN :
           [fila EXCEPT !.err = @ /\ ~b] \in Filas
    BY DEF Filas
  <2>4. doc' \in Filas
    BY <1>4, <2>1, <2>2, <2>3 DEF Rebobinar, Lecturas
  <2>5. QED
    BY <1>4, <2>4 DEF Rebobinar, TypeOK
<1>5. CASE Encolar(p)
  <2>1. \A s : [paso |-> PasoDeReanudacion(s), reint |-> 0] \in Mensajes
    BY PasosExplicitos, MaximosAssumption
       DEF PasoDeReanudacion, RESUME_FROM, Mensajes
  <2>2. cola' \in [Mensajes -> Nat]
    BY <1>5, <2>1, PublicadoTipo DEF Encolar, TypeOK
  <2>3. doc' \in Filas
    BY <1>5 DEF Encolar, TypeOK, Filas
  <2>4. QED
    BY <1>5, <2>2, <2>3, LibresTipo DEF Encolar, TypeOK
<1>6. CASE Juzgar(p)
  <2>1. /\ peticion[p].mem \in Lecturas
        /\ peticion[p].destino \in DocumentProcessState \ {"ERROR"}
    BY EstadosExplicitos, OrdenExplicito DEF TypeOK
  <2>2. doc' \in Filas
    BY <1>6, <2>1, MoverTipo DEF Juzgar, TypeOK
  <2>3. QED
    BY <1>6, <2>2, LibresTipo DEF Juzgar, TypeOK
<1>7. CASE Borrar(p)
  <2>1. doc' \in Filas
    BY <1>7 DEF Borrar, TypeOK, Filas
  <2>2. QED
    BY <1>7, <2>1, LibresTipo DEF Borrar, TypeOK
<1>8. CASE MorirWeb(p)
  BY <1>8, LibresTipo DEF MorirWeb, TypeOK
<1>9. QED
  BY <1>1, <1>2, <1>3, <1>4, <1>5, <1>6, <1>7, <1>8
     DEF PasoPeticion, AvancePeticion

(* Every reachable state is well typed.                                    *)
THEOREM TiposCorrectos == Spec => []TypeOK
<1>1. TypeOK /\ [Next]_vars => TypeOK'
  <2> SUFFICES ASSUME TypeOK, [Next]_vars PROVE TypeOK'
    OBVIOUS
  <2>1. CASE Next
    BY <2>1, TipoObrero, TipoPeticion DEF Next
  <2>2. CASE UNCHANGED vars
    BY <2>2 DEF vars, TypeOK
  <2>3. QED
    BY <2>1, <2>2
<1>2. QED
  BY TipoInicial, <1>1, PTL DEF Spec

(***************************************************************************)
(* Only clean files are stored.  The strengthening says what the absence   *)
(* of a clean verdict rules out: not only in the row and in the store but  *)
(* in everything a worker or a request has loaded and may still write.     *)
(***************************************************************************)
TrasAnalisis == EnOrden \ {"RECIBIDO", "VALIDADO"}

Limpio == "limpio" \in veredictos

(* A task that is acting loaded the row in one of its input states.        *)
EntradaInv ==
    \A o \in Obreros :
        obrero[o].pc \in {"actuar", "destruir", "verificar", "retirar", "escribir"}
          => obrero[o].mem.estado \in Entrada[obrero[o].msg.paso]

FilaSinAnalizar ==
    /\ doc.estado \notin TrasAnalisis
    /\ doc.alcanzados \cap TrasAnalisis = {}
    /\ ~doc.alm /\ ~doc.extr /\ ~obj.def

ObreroSinAnalizar(o) ==
    /\ obrero[o].mem.estado \notin TrasAnalisis
    /\ obrero[o].pc \notin {"verificar", "retirar", "decidir", "aprobar"}
    /\ obrero[o].pc = "escribir" /\ obrero[o].res = "ok"
         => obrero[o].msg.paso = "validate"

PeticionSinAnalizar(p) == peticion[p].destino \notin TrasAnalisis

SinAnalizar ==
    /\ FilaSinAnalizar
    /\ \A o \in Obreros : ObreroSinAnalizar(o)
    /\ \A p \in Peticiones : PeticionSinAnalizar(p)

LimpioInv == EntradaInv /\ (Limpio \/ SinAnalizar)

(* While nothing the store returns is corrupt, the bytes of the definitive *)
(* copy stay, and only a condemned file is about to be destroyed.          *)
CopiaInv ==
    /\ FicheroNoSePierde
    /\ \A o \in Obreros :
          /\ obrero[o].pc = "retirar" => obj.def
          /\ obrero[o].pc = "destruir" => "infectado" \in veredictos

(* Initially no worker holds a task, so none acts on a state that is not *)
(* its input.                                                            *)
LEMMA EntradaInicial == Init => EntradaInv
  BY DEF Init, EntradaInv, ObreroLibre

(* A worker that acts does so on a reading in its task's input states:   *)
(* `Tomar` checks it and no later step changes the reading.              *)
LEMMA EntradaPaso ==
    ASSUME TypeOK, EntradaInv, [Next]_vars
    PROVE  EntradaInv'
<1>1. CASE \E o \in Obreros : PasoObrero(o)
  <2> PICK o \in Obreros : PasoObrero(o)
    BY <1>1
  <2> USE DEF TypeOK, EntradaInv
  <2>1. CASE Tomar(o)
    BY <2>1 DEF Tomar, Procede, Leida
  <2>2. CASE \/ ValidarFichero(o) \/ Analizar(o) \/ AnalisisFallido(o)
             \/ ReintentarAnalisis(o) \/ DestruirInfectado(o)
    BY <2>2 DEF Pasar, En, ValidarFichero, Analizar, AnalisisFallido,
                ReintentarAnalisis, DestruirInfectado, SoloObrero
  <2>3. CASE \/ Copiar(o) \/ Verificar(o) \/ RetirarCuarentena(o)
             \/ ExtraerTexto(o) \/ ExtraerDatos(o) \/ Normalizar(o)
    BY <2>3 DEF Pasar, En, Copiar, Verificar, RetirarCuarentena,
                ExtraerTexto, ExtraerDatos, Normalizar, SoloObrero
  <2>4. ASSUME /\ obrero'[o].pc \in {"decidir", "aprobar", "publicar", "acusar",
                                     "libre"}
               /\ \A x \in Obreros \ {o} : obrero'[x] = obrero[x]
        PROVE  EntradaInv'
    BY <2>4
  <2>5. CASE Completar(o) \/ Fracasar(o) \/ Infectar(o)
    BY <2>4, <2>5 DEF Completar, Fracasar, Infectar
  <2>6. CASE \/ Decidir(o) \/ AprobarSola(o) \/ Publicar(o) \/ Acusar(o)
             \/ Morir(o) \/ Vencer(o)
    <3>1. /\ obrero'[o].pc \in {"aprobar", "acusar", "libre"}
          /\ \A x \in Obreros \ {o} : obrero'[x] = obrero[x]
      BY <2>6 DEF Decidir, AprobarSola, Publicar, Acusar, Morir, Vencer, Pasar,
                  ObreroLibre
    <3>2. QED
      BY <2>4, <3>1
  <2>7. QED
    BY <2>1, <2>2, <2>3, <2>4, <2>5, <2>6 DEF PasoObrero, AvanceObrero
<1>2. CASE \E p \in Peticiones : PasoPeticion(p)
  BY <1>2 DEF PasoPeticion, AvancePeticion, PedirReproceso, PedirJuicio,
     PedirBorrado, Rebobinar, Encolar, Juzgar, Borrar, MorirWeb, EntradaInv
<1>3. CASE UNCHANGED vars
  BY <1>3 DEF vars, EntradaInv
<1>4. QED
  BY <1>1, <1>2, <1>3 DEF Next

(* Which states and tasks lie past the scan: of the tasks, all but       *)
(* validate and scan take only such states as input.                     *)
LEMMA TrasExplicito ==
    /\ TrasAnalisis \cap {"RECIBIDO", "VALIDADO", "ERROR", "RECHAZADO",
                         "INFECTADO", "DESCARTADO"} = {}
    /\ Entrada["validate"] = {"RECIBIDO", "ERROR"} /\ Salida["validate"] = "VALIDADO"
    /\ \A paso \in Pasos \ {"validate", "scan"} : Entrada[paso] \subseteq TrasAnalisis
  BY OrdenExplicito, PasosExplicitos DEF TrasAnalisis, Entrada, Salida

(* A document no verdict has touched can only be rewound to before it.     *)
LEMMA DestinosSinAnalizar ==
    ASSUME FilaSinAnalizar, NEW op
    PROVE  DestinosDeReproceso(op) \cap TrasAnalisis = {}
<1>1. MasLejano(doc.alcanzados) \subseteq {"RECIBIDO", "VALIDADO"}
  BY OrdenExplicito DEF MasLejano, FilaSinAnalizar, TrasAnalisis
<1>2. UltimoEstadoBueno(doc.alcanzados) \subseteq {"RECIBIDO", "VALIDADO"}
  BY <1>1, IndicesBajos DEF UltimoEstadoBueno, _REPROCESS_CEILING
<1>3. PrimerEstadoRepetible(doc.cuar, doc.alm) \subseteq {"RECIBIDO"}
  BY DEF PrimerEstadoRepetible, FilaSinAnalizar
<1>4. QED
  BY <1>2, <1>3, TrasExplicito DEF DestinosDeReproceso

(* Until the antivirus says clean, no step of a worker takes anything    *)
(* past the scan.                                                        *)
LEMMA SinAnalizarObrero ==
    ASSUME TypeOK, EntradaInv, SinAnalizar, ~Limpio', NEW o \in Obreros,
           PasoObrero(o)
    PROVE  SinAnalizar'
<1> USE DEF TypeOK, SinAnalizar, FilaSinAnalizar, ObreroSinAnalizar,
            PeticionSinAnalizar
<1>1. obrero[o].msg.paso \in Pasos
  BY DEF Mensajes
<1>2. CASE Tomar(o)
  <2>1. PICK m \in Mensajes : m.paso \in Pasos /\ obrero' = [obrero EXCEPT ![o] =
              IF Procede(m.paso)
              THEN [pc |-> PrimeraFase(m.paso), msg |-> m, mem |-> Leida,
                    res |-> "ok"]
              ELSE [pc |-> "publicar", msg |-> m, mem |-> SinLeer,
                    res |-> "ok"]]
    BY <1>2 DEF Tomar, Mensajes
  <2>2. ObreroSinAnalizar(o)'
    <3>1. CASE Procede(m.paso)
      <4>1. m.paso \in {"validate", "scan"}
        BY <2>1, <3>1, TrasExplicito DEF Procede
      <4>2. QED
        BY <2>1, <3>1, <4>1 DEF PrimeraFase, Leida
    <3>2. CASE ~Procede(m.paso)
      BY <2>1, <3>2, TrasExplicito DEF SinLeer
    <3>3. QED
      BY <3>1, <3>2
  <2>3. QED
    BY <1>2, <2>1, <2>2 DEF Tomar
<1>3. CASE ValidarFichero(o) \/ AnalisisFallido(o) \/ ReintentarAnalisis(o)
  BY <1>3 DEF Pasar, En, ValidarFichero, AnalisisFallido, ReintentarAnalisis,
              SoloObrero
<1>4. CASE Analizar(o) \/ DestruirInfectado(o)
  <2>1. \E res : Pasar(o, "destruir", res) \/ Pasar(o, "escribir", "infectado")
    BY <1>4 DEF Analizar, DestruirInfectado, Limpio
  <2>2. UNCHANGED <<doc, peticion>> /\ (obj' = obj \/ obj' = [obj EXCEPT !.cuar = FALSE])
    BY <1>4 DEF Analizar, DestruirInfectado
  <2>3. QED
    BY <2>1, <2>2 DEF Pasar
<1>5. CASE \/ Copiar(o) \/ Verificar(o) \/ RetirarCuarentena(o)
           \/ ExtraerTexto(o) \/ ExtraerDatos(o) \/ Normalizar(o)
  <2>1. obrero[o].pc = "actuar" \/ obrero[o].pc \in {"verificar", "retirar"}
    BY <1>5 DEF En, Copiar, Verificar, RetirarCuarentena, ExtraerTexto,
                ExtraerDatos, Normalizar
  <2>2. obrero[o].msg.paso \in Pasos \ {"validate", "scan"}
    BY <1>5, <1>1 DEF En, Copiar, Verificar, RetirarCuarentena, ExtraerTexto,
                ExtraerDatos, Normalizar
  <2>3. QED
    BY <2>1, <2>2, TrasExplicito DEF EntradaInv
<1>6. CASE Completar(o)
  <2>1. obrero[o].msg.paso = "validate"
    BY <1>6 DEF Completar
  <2>2. doc' = Mover(doc, obrero[o].mem, "VALIDADO")
    BY <1>6, <2>1, TrasExplicito DEF Completar, ConResultado
  <2>3. /\ doc'.estado \in {doc.estado, "VALIDADO"}
        /\ doc'.alcanzados \subseteq doc.alcanzados \cup {"VALIDADO"}
        /\ doc'.alm = doc.alm /\ doc'.extr = doc.extr
    BY <2>2 DEF Mover, Filas
  <2>4. FilaSinAnalizar'
    BY <1>6, <2>3, TrasExplicito DEF Completar
  <2>5. QED
    BY <1>6, <2>1, <2>4, TrasExplicito DEF Completar, SinLeer
<1>7. CASE Fracasar(o)
  <2>1. PICK nuevo \in {"ERROR", "RECHAZADO"} :
           doc' = MarcarFallo(doc, obrero[o].mem, nuevo)
    BY <1>7 DEF Fracasar
  <2>2. FilaSinAnalizar'
    BY <1>7, <2>1, TrasExplicito DEF Fracasar, MarcarFallo, Mover, Filas
  <2>3. QED
    BY <1>7, <2>2, TrasExplicito DEF Fracasar, SinLeer
<1>8. CASE Infectar(o)
  <2>1. FilaSinAnalizar'
    BY <1>8, TrasExplicito DEF Infectar, Mover, Filas
  <2>2. QED
    BY <1>8, <2>1, TrasExplicito DEF Infectar, SinLeer
<1>9. CASE Decidir(o) \/ AprobarSola(o)
  BY <1>9 DEF Decidir, AprobarSola, En
<1>10. CASE Publicar(o) \/ Acusar(o) \/ Morir(o) \/ Vencer(o)
  BY <1>10, TrasExplicito DEF Publicar, Acusar, Morir, Vencer, Pasar,
     SoloObrero, ObreroLibre, SinLeer
<1>11. QED
  BY <1>2, <1>3, <1>4, <1>5, <1>6, <1>7, <1>8, <1>9, <1>10
     DEF PasoObrero, AvanceObrero

(* Until the antivirus says clean, no step of a request does either.     *)
LEMMA SinAnalizarPeticion ==
    ASSUME TypeOK, SinAnalizar, NEW p \in Peticiones, PasoPeticion(p)
    PROVE  SinAnalizar'
<1> USE DEF TypeOK, SinAnalizar, FilaSinAnalizar, ObreroSinAnalizar,
            PeticionSinAnalizar
<1>1. CASE PedirReproceso(p)
  BY <1>1, DestinosSinAnalizar DEF PedirReproceso
<1>2. CASE PedirJuicio(p)
  BY <1>2 DEF PedirJuicio
<1>3. CASE PedirBorrado(p) \/ MorirWeb(p)
  BY <1>3, TrasExplicito DEF PedirBorrado, MorirWeb, PeticionLibre
<1>4. CASE Rebobinar(p)
  BY <1>4 DEF Rebobinar, Mover, Filas
<1>5. CASE Encolar(p)
  BY <1>5, TrasExplicito DEF Encolar, PeticionLibre, Filas
<1>6. CASE Juzgar(p)
  BY <1>6, TrasExplicito DEF Juzgar, Mover, PeticionLibre, Filas
<1>7. CASE Borrar(p)
  BY <1>7, TrasExplicito DEF Borrar, PeticionLibre, Filas
<1>8. QED
  BY <1>1, <1>2, <1>3, <1>4, <1>5, <1>6, <1>7 DEF PasoPeticion, AvancePeticion

(* A verdict is never forgotten.                                         *)
LEMMA VeredictosCrecen ==
    ASSUME [Next]_vars
    PROVE  veredictos \subseteq veredictos'
<1>1. ASSUME NEW o \in Obreros, PasoObrero(o) PROVE veredictos \subseteq veredictos'
  BY <1>1 DEF PasoObrero, AvanceObrero, Tomar, ValidarFichero, Analizar,
     AnalisisFallido, ReintentarAnalisis, DestruirInfectado, Copiar, Verificar,
     RetirarCuarentena, ExtraerTexto, ExtraerDatos, Normalizar, Completar,
     Fracasar, Infectar, Decidir, AprobarSola, Publicar, Acusar, Morir, Vencer,
     SoloObrero
<1>2. ASSUME NEW p \in Peticiones, PasoPeticion(p) PROVE veredictos \subseteq veredictos'
  BY <1>2 DEF PasoPeticion, AvancePeticion, PedirReproceso, PedirJuicio,
     PedirBorrado, Rebobinar, Encolar, Juzgar, Borrar, MorirWeb
<1>3. QED
  BY <1>1, <1>2 DEF Next, vars

Invariante == TypeOK /\ LimpioInv

(* The inductive invariant the theorems below follow from.                 *)
THEOREM InvarianteSiempre == Spec => []Invariante
<1>1. Init => LimpioInv
  <2> SUFFICES ASSUME Init PROVE SinAnalizar
    BY EntradaInicial DEF LimpioInv
  <2>1. FilaSinAnalizar
    BY TrasExplicito DEF Init, FilaNueva, FilaSinAnalizar
  <2>2. QED
    BY <2>1, TrasExplicito DEF Init, ObreroLibre, PeticionLibre, SinLeer,
       SinAnalizar, ObreroSinAnalizar, PeticionSinAnalizar
<1>2. TypeOK /\ LimpioInv /\ [Next]_vars => LimpioInv'
  <2> SUFFICES ASSUME TypeOK, LimpioInv, [Next]_vars PROVE LimpioInv'
    OBVIOUS
  <2>1. EntradaInv'
    BY EntradaPaso DEF LimpioInv
  <2>2. Limpio => Limpio'
    BY VeredictosCrecen DEF Limpio
  <2>3. ASSUME SinAnalizar, ~Limpio' PROVE SinAnalizar'
    <3>1. CASE UNCHANGED vars
      BY <2>3, <3>1 DEF vars, SinAnalizar, FilaSinAnalizar, ObreroSinAnalizar,
         PeticionSinAnalizar
    <3>2. CASE Next
      BY <2>3, <3>2, SinAnalizarObrero, SinAnalizarPeticion DEF Next, LimpioInv
    <3>3. QED
      BY <3>1, <3>2
  <2>4. QED
    BY <2>1, <2>2, <2>3 DEF LimpioInv
<1>3. QED
  BY <1>1, <1>2, TiposCorrectos, PTL DEF Spec, Invariante

(* For any pool of workers, any requests and any failures, nothing is in   *)
(* the definitive bucket, and no row offers it, without a clean verdict.   *)
THEOREM NadaSinAnalizarSeAlmacena == Spec => []SoloLimpioAlmacenado
<1>1. Invariante => SoloLimpioAlmacenado
  BY DEF Invariante, LimpioInv, Limpio, SinAnalizar, FilaSinAnalizar,
         SoloLimpioAlmacenado
<1>2. QED
  BY <1>1, InvarianteSiempre, PTL

(***************************************************************************)
(* The bytes.  The hypothesis that the store returns what was written is   *)
(* needed: promote answers a wrong hash by deleting the definitive object, *)
(* which another chain may already have made the only copy.                *)
(***************************************************************************)
(* Every step is, for the bytes, a step of FileCustody or none at all, and *)
(* keeps CopiaInv.                                                         *)
LEMMA PasoDeCustodia ==
    ASSUME "hash" \notin Fallos, TypeOK, LimpioInv, CopiaInv, [Next]_vars
    PROVE  CopiaInv' /\ [Custodia!Next]_(Custodia!custodia)
<1> USE DEF CopiaInv, FicheroNoSePierde
<1>1. ASSUME UNCHANGED <<obj, veredictos>>,
             \A o \in Obreros : obrero'[o].pc \in {"retirar", "destruir"}
                => obrero'[o].pc = obrero[o].pc
      PROVE  CopiaInv' /\ [Custodia!Next]_(Custodia!custodia)
  BY <1>1 DEF Custodia!custodia
<1>2. ASSUME NEW o \in Obreros, PasoObrero(o)
      PROVE  CopiaInv' /\ [Custodia!Next]_(Custodia!custodia)
  <2> USE <1>2 DEF TypeOK
  <2>1. CASE Analizar(o)
    <3>1. /\ obj.cuar /\ obj' = obj
          /\ \E v \in Veredictos : veredictos' = veredictos \cup {v}
          /\ \/ Pasar(o, "escribir", "ok")
             \/ Pasar(o, "destruir", "infectado") /\ "infectado" \in veredictos'
      BY <2>1, VeredictosAssumption DEF Analizar, Legible
    <3>2. CopiaInv'
      BY <3>1 DEF Pasar
    <3>3. [Custodia!Next]_(Custodia!custodia)
      <4>1. \/ /\ ("limpio" \in veredictos') = TRUE
               /\ ("infectado" \in veredictos') = ("infectado" \in veredictos)
            \/ /\ ("infectado" \in veredictos') = TRUE
               /\ ("limpio" \in veredictos') = ("limpio" \in veredictos)
        BY <3>1, VeredictosAssumption
      <4>2. Custodia!Dictaminar
        BY <3>1, <4>1 DEF Custodia!Dictaminar
      <4>3. QED
        BY <4>2 DEF Custodia!Next
    <3>4. QED
      BY <3>2, <3>3
  <2>2. CASE DestruirInfectado(o)
    <3>1. /\ "infectado" \in veredictos /\ veredictos' = veredictos
          /\ obj' = obj \/ obj' = [obj EXCEPT !.cuar = FALSE]
          /\ Pasar(o, "escribir", "infectado")
      BY <2>2 DEF DestruirInfectado, En
    <3>2. CopiaInv'
      BY <3>1 DEF Pasar
    <3>3. [Custodia!Next]_(Custodia!custodia)
      BY <3>1 DEF Custodia!Next, Custodia!Retirar, Custodia!custodia
    <3>4. QED
      BY <3>2, <3>3
  <2>3. CASE Copiar(o)
    <3>1. Limpio
      <4>1. obrero[o].mem.estado \in TrasAnalisis
        BY <2>3, TrasExplicito, PasosExplicitos
           DEF Copiar, En, LimpioInv, EntradaInv
      <4>2. QED
        BY <4>1 DEF LimpioInv, SinAnalizar, ObreroSinAnalizar
    <3>2. /\ veredictos' = veredictos
          /\ \/ obj.cuar /\ obj' = [obj EXCEPT !.def = TRUE]
             \/ obj' = obj
          /\ Pasar(o, "verificar", "ok") \/ Pasar(o, "escribir", "error")
      BY <2>3 DEF Copiar, Legible
    <3>3. CopiaInv'
      <4>1. (obj.cuar => obj'.cuar) /\ (obj.def => obj'.def)
        BY <3>2
      <4>2. \A x \in Obreros : obrero'[x].pc \in {"retirar", "destruir"}
                => obrero'[x].pc = obrero[x].pc
        BY <3>2 DEF Pasar
      <4>3. QED
        BY <3>2, <4>1, <4>2
    <3>4. [Custodia!Next]_(Custodia!custodia)
      BY <3>1, <3>2
         DEF Custodia!Next, Custodia!Promover, Custodia!custodia, Limpio
    <3>5. QED
      BY <3>3, <3>4
  <2>4. CASE Verificar(o)
    <3>1. /\ UNCHANGED <<obj, veredictos>>
          /\ \/ Pasar(o, "retirar", "ok") /\ obj.def
             \/ Pasar(o, "escribir", "error")
      BY <2>4 DEF Verificar
    <3>2. QED
      BY <3>1 DEF Pasar, Custodia!custodia
  <2>5. CASE RetirarCuarentena(o)
    <3>1. /\ obj.def /\ veredictos' = veredictos
          /\ obj' = obj \/ obj' = [obj EXCEPT !.cuar = FALSE]
          /\ Pasar(o, "escribir", "ok")
      BY <2>5 DEF RetirarCuarentena, En
    <3>2. CopiaInv'
      BY <3>1 DEF Pasar
    <3>3. [Custodia!Next]_(Custodia!custodia)
      BY <3>1 DEF Custodia!Next, Custodia!Retirar, Custodia!custodia
    <3>4. QED
      BY <3>2, <3>3
  <2>6. CASE Tomar(o)
    BY <2>6, <1>1 DEF Tomar, PrimeraFase
  <2>7. CASE \/ ValidarFichero(o) \/ AnalisisFallido(o) \/ ReintentarAnalisis(o)
             \/ ExtraerTexto(o) \/ ExtraerDatos(o) \/ Normalizar(o)
    BY <2>7, <1>1 DEF ValidarFichero, AnalisisFallido, ReintentarAnalisis,
       ExtraerTexto, ExtraerDatos, Normalizar, Pasar, SoloObrero
  <2>8. CASE Completar(o) \/ Fracasar(o) \/ Infectar(o)
    BY <2>8, <1>1 DEF Completar, Fracasar, Infectar
  <2>9. CASE Decidir(o) \/ AprobarSola(o) \/ Publicar(o) \/ Acusar(o)
    BY <2>9, <1>1 DEF Decidir, AprobarSola, Publicar, Acusar, Pasar,
       SoloObrero, ObreroLibre
  <2>10. CASE Morir(o) \/ Vencer(o)
    BY <2>10, <1>1 DEF Morir, Vencer, SoloObrero, ObreroLibre
  <2>11. QED
    BY <2>1, <2>2, <2>3, <2>4, <2>5, <2>6, <2>7, <2>8, <2>9, <2>10
       DEF PasoObrero, AvanceObrero
<1>3. ASSUME NEW p \in Peticiones, PasoPeticion(p)
      PROVE  CopiaInv' /\ [Custodia!Next]_(Custodia!custodia)
  BY <1>1, <1>3 DEF PasoPeticion, AvancePeticion, PedirReproceso, PedirJuicio,
     PedirBorrado, Rebobinar, Encolar, Juzgar, Borrar, MorirWeb
<1>4. CASE UNCHANGED vars
  BY <1>1, <1>4 DEF vars
<1>5. QED
  BY <1>2, <1>3, <1>4 DEF Next

(* The pipeline implements the abstract promise about the bytes: only a    *)
(* clean file is promoted, and the quarantine copy goes only when the      *)
(* definitive one is in place or the file is condemned.                    *)
THEOREM ImplementaCustodia ==
    ASSUME "hash" \notin Fallos
    PROVE  Spec => CumpleCustodia
<1>1. Init => CopiaInv /\ Custodia!Init
  BY DEF Init, CopiaInv, FicheroNoSePierde, Custodia!Init, ObreroLibre
<1>2. TypeOK /\ LimpioInv /\ CopiaInv /\ [Next]_vars
        => CopiaInv' /\ [Custodia!Next]_(Custodia!custodia)
  BY PasoDeCustodia
<1>3. QED
  BY <1>1, <1>2, InvarianteSiempre, PTL
     DEF Spec, Invariante, CumpleCustodia, Custodia!Spec

(***************************************************************************)
(* The history.  `alcanzados` only grows, so what must be shown is that    *)
(* whatever may still be written on the row has its past recorded: the     *)
(* state a task loaded, and the one a request has settled on.              *)
(***************************************************************************)
(* The states a task of the chain leaves.                                  *)
Salidas == {Salida[paso] : paso \in Pasos}

(* A state the history alc accounts for.                                   *)
Fundado(s, alc) ==
    /\ s \in Salidas => s \in alc
    /\ s \in {"REVISADO", "APROBADO"} => "EXTRAIDO" \in alc

(* A row whose history is complete and matches its columns.                *)
HistoriaDe(fila) ==
    /\ \A paso \in Pasos \ {"validate"} :
          Salida[paso] \in fila.alcanzados => Entrada[paso] \subseteq fila.alcanzados
    /\ \A s \in fila.alcanzados \cup {fila.estado} : Fundado(s, fila.alcanzados)
    /\ fila.extr => "EXTRAIDO" \in fila.alcanzados
    /\ fila.alm <=> "ALMACENADO" \in fila.alcanzados
    /\ fila.texto <=> "TEXTO_EXTRAIDO" \in fila.alcanzados

ObreroConHistoria(o) ==
    /\ Fundado(obrero[o].mem.estado, doc.alcanzados)
    /\ obrero[o].pc = "aprobar" => "EXTRAIDO" \in doc.alcanzados

PeticionConHistoria(p) == Fundado(peticion[p].destino, doc.alcanzados)

HistoriaInv ==
    /\ HistoriaDe(doc)
    /\ \A o \in Obreros : ObreroConHistoria(o)
    /\ \A p \in Peticiones : PeticionConHistoria(p)

(* The states the eight tasks leave, as a set.                             *)
LEMMA SalidasExplicitas ==
    Salidas = {"VALIDADO", "ESCANEADO", "ALMACENADO", "TEXTO_EXTRAIDO",
               "CLASIFICADO", "EXTRAIDO", "NORMALIZADO", "PENDIENTE_REVISION"}
  BY PasosExplicitos DEF Salidas, Salida

(* States outside the chain's own need no past.                            *)
LEMMA SinPasado ==
    \A alc : \A s \in {"RECIBIDO", "ERROR", "RECHAZADO", "INFECTADO", "DESCARTADO"} :
        Fundado(s, alc)
  BY SalidasExplicitas DEF Fundado

(* What a history accounts for, a longer one does too.                     *)
LEMMA FundadoCrece ==
    ASSUME NEW s, NEW alc, NEW mas, alc \subseteq mas, Fundado(s, alc)
    PROVE  Fundado(s, mas)
  BY DEF Fundado

(* What a row loads and settles on keeps its past as the row's history     *)
(* grows: nothing a worker or a request does not write itself is lost.     *)
LEMMA HistoriaDeLosDemas ==
    ASSUME HistoriaInv, doc.alcanzados \subseteq doc'.alcanzados
    PROVE  /\ \A o \in Obreros : obrero'[o] = obrero[o] => ObreroConHistoria(o)'
           /\ \A p \in Peticiones : peticion'[p] = peticion[p]
                 => PeticionConHistoria(p)'
  BY FundadoCrece DEF HistoriaInv, ObreroConHistoria, PeticionConHistoria

(* `transition` to a state with a past leaves a complete history.          *)
LEMMA MoverHistoria ==
    ASSUME NEW fila \in Filas, NEW mem \in Lecturas,
           NEW nuevo \in DocumentProcessState,
           HistoriaDe(fila), Fundado(nuevo, fila.alcanzados)
    PROVE  /\ HistoriaDe(Mover(fila, mem, nuevo))
           /\ fila.alcanzados \subseteq Mover(fila, mem, nuevo).alcanzados
<1>1. CASE nuevo = mem.estado
  BY <1>1 DEF Mover
<1>2. CASE nuevo # mem.estado
  <2> DEFINE f == Mover(fila, mem, nuevo)
  <2>1. /\ f.estado = nuevo /\ f.alcanzados = fila.alcanzados \cup {nuevo}
        /\ f.extr = fila.extr /\ f.alm = fila.alm /\ f.texto = fila.texto
    BY <1>2 DEF Mover, Filas
  <2>2. \A s \in f.alcanzados : s \in Salidas => s \in fila.alcanzados
    BY <2>1 DEF Fundado
  <2>3. \A paso \in Pasos : Salida[paso] \in Salidas
    BY DEF Salidas
  <2>4. \A paso \in Pasos \ {"validate"} :
           Salida[paso] \in f.alcanzados => Entrada[paso] \subseteq f.alcanzados
    BY <2>1, <2>2, <2>3 DEF HistoriaDe
  <2>5. \A s \in f.alcanzados \cup {f.estado} : Fundado(s, f.alcanzados)
    BY <2>1, FundadoCrece DEF HistoriaDe
  <2>6. /\ "ALMACENADO" \in f.alcanzados => "ALMACENADO" \in fila.alcanzados
        /\ "TEXTO_EXTRAIDO" \in f.alcanzados => "TEXTO_EXTRAIDO" \in fila.alcanzados
    BY <2>2, SalidasExplicitas
  <2>7. HistoriaDe(f)
    BY <2>1, <2>4, <2>5, <2>6 DEF HistoriaDe
  <2>8. QED
    BY <2>1, <2>7
<1>3. QED
  BY <1>1, <1>2

(* The commit of a task adds its state to a history that had its input.    *)
LEMMA CompletarHistoria ==
    ASSUME TypeOK, EntradaInv, HistoriaInv, NEW o \in Obreros, Completar(o)
    PROVE  /\ HistoriaDe(doc')
           /\ doc.alcanzados \subseteq doc'.alcanzados
<1> DEFINE paso == obrero[o].msg.paso
           mem == obrero[o].mem
<1>1. /\ paso \in Pasos /\ mem.estado \in Entrada[paso]
      /\ doc \in Filas /\ HistoriaDe(doc) /\ Fundado(mem.estado, doc.alcanzados)
      /\ doc' = Mover(ConResultado(doc, paso), mem, Salida[paso])
  BY DEF Completar, TypeOK, Mensajes, EntradaInv, HistoriaInv, ObreroConHistoria
<1>2. /\ mem.estado # Salida[paso]
      /\ paso # "validate" => Entrada[paso] \subseteq doc.alcanzados
  BY <1>1, PasosExplicitos, SalidasExplicitas DEF Entrada, Salida, Fundado
<1>3. ConResultado(doc, paso) \in Filas
  BY <1>1, ConResultadoTipo
<1>4. /\ doc'.estado = Salida[paso]
      /\ doc'.alcanzados = doc.alcanzados \cup {Salida[paso]}
      /\ doc'.extr = (doc.extr \/ paso = "ai_extract")
      /\ doc'.alm = (doc.alm \/ paso = "store")
      /\ doc'.texto = (doc.texto \/ paso = "extract_text")
  BY <1>1, <1>2, <1>3 DEF Mover, ConResultado, Filas
<1>5. \A x \in Pasos \ {"validate"} :
         Salida[x] \in doc'.alcanzados => Entrada[x] \subseteq doc'.alcanzados
  <2> SUFFICES ASSUME NEW x \in Pasos \ {"validate"}, Salida[x] \in doc'.alcanzados
               PROVE  Entrada[x] \subseteq doc'.alcanzados
    OBVIOUS
  <2>1. CASE Salida[x] \in doc.alcanzados
    BY <2>1, <1>1, <1>4 DEF HistoriaDe
  <2>2. CASE Salida[x] = Salida[paso]
    <3>1. x = paso
      BY <2>2, <1>1, PasosExplicitos DEF Salida
    <3>2. QED
      BY <3>1, <1>2, <1>4
  <2>3. QED
    BY <2>1, <2>2, <1>4
<1>6. \A s \in doc'.alcanzados \cup {doc'.estado} : Fundado(s, doc'.alcanzados)
  <2>1. Fundado(Salida[paso], doc'.alcanzados)
    BY <1>1, <1>4, PasosExplicitos DEF Fundado, Salida
  <2>2. QED
    BY <2>1, <1>1, <1>4, FundadoCrece DEF HistoriaDe
<1>7. /\ Salida[paso] = "EXTRAIDO" <=> paso = "ai_extract"
      /\ Salida[paso] = "ALMACENADO" <=> paso = "store"
      /\ Salida[paso] = "TEXTO_EXTRAIDO" <=> paso = "extract_text"
  BY <1>1, PasosExplicitos DEF Salida
<1>8. QED
  BY <1>1, <1>4, <1>5, <1>6, <1>7 DEF HistoriaDe, Filas

(* A reprocess only rewinds to a state whose past is recorded.             *)
LEMMA DestinosFundados ==
    ASSUME TypeOK, HistoriaInv, NEW op, NEW d \in DestinosDeReproceso(op)
    PROVE  Fundado(d, doc.alcanzados)
<1>1. HistoriaDe(doc) /\ doc \in Filas
  BY DEF HistoriaInv, TypeOK
<1>2. "CLASIFICADO" \in doc.alcanzados => Fundado("CLASIFICADO", doc.alcanzados)
  BY <1>1 DEF HistoriaDe
<1>3. "EXTRAIDO" \in doc.alcanzados => "CLASIFICADO" \in doc.alcanzados
  BY <1>1, PasosExplicitos DEF HistoriaDe, Entrada, Salida
<1>4. /\ "NORMALIZADO" \in doc.alcanzados => "EXTRAIDO" \in doc.alcanzados
      /\ "PENDIENTE_REVISION" \in doc.alcanzados => "NORMALIZADO" \in doc.alcanzados
  BY <1>1, PasosExplicitos DEF HistoriaDe, Entrada, Salida
<1>5. \A s \in doc.alcanzados \cup {"RECIBIDO"} : Fundado(s, doc.alcanzados)
  BY <1>1, SinPasado DEF HistoriaDe
<1>6. ASSUME NEW s \in (doc.alcanzados \cap EnOrden) \cup {"RECIBIDO"},
             Indice[s] > Indice["CLASIFICADO"]
      PROVE  "CLASIFICADO" \in doc.alcanzados
  <2>1. s \in doc.alcanzados /\ s \notin {"RECIBIDO", "VALIDADO", "ESCANEADO",
             "ALMACENADO", "TEXTO_EXTRAIDO", "CLASIFICADO"}
    BY <1>6, IndicesExplicitos
  <2>2. s \in {"EXTRAIDO", "NORMALIZADO", "PENDIENTE_REVISION", "REVISADO", "APROBADO"}
    BY <2>1, <1>6, OrdenExplicito
  <2>3. QED
    BY <2>1, <2>2, <1>3, <1>4, <1>5 DEF Fundado
<1>7. CASE op = "reprocesar_inicio"
  <2>1. d = "RECIBIDO" \/ (d = "ALMACENADO" /\ doc.alm)
    BY <1>7 DEF DestinosDeReproceso, PrimerEstadoRepetible
  <2>2. QED
    BY <2>1, <1>1, <1>5 DEF HistoriaDe
<1>8. CASE op # "reprocesar_inicio"
  BY <1>2, <1>5, <1>6, <1>8
     DEF DestinosDeReproceso, UltimoEstadoBueno, MasLejano, _REPROCESS_CEILING
<1>9. QED
  BY <1>7, <1>8

(* No step of a worker leaves a gap in the history.                        *)
LEMMA HistoriaObrero ==
    ASSUME TypeOK, EntradaInv, HistoriaInv, NEW o \in Obreros, PasoObrero(o)
    PROVE  HistoriaInv'
<1>1. /\ doc \in Filas /\ HistoriaDe(doc) /\ obrero \in [Obreros -> EstadosObrero]
      /\ ObreroConHistoria(o) /\ obrero[o].mem \in Lecturas
  BY DEF TypeOK, HistoriaInv, EstadosObrero
<1>2. ASSUME HistoriaDe(doc'), doc.alcanzados \subseteq doc'.alcanzados,
             peticion' = peticion, \A x \in Obreros \ {o} : obrero'[x] = obrero[x],
             \/ obrero'[o].mem.estado = obrero[o].mem.estado
             \/ obrero'[o].mem.estado \in {"RECIBIDO", doc'.estado},
             \/ obrero'[o].pc # "aprobar"
             \/ "EXTRAIDO" \in doc.alcanzados
      PROVE  HistoriaInv'
  <2>1. Fundado(obrero'[o].mem.estado, doc'.alcanzados)
    BY <1>1, <1>2, FundadoCrece, SinPasado DEF ObreroConHistoria, HistoriaDe
  <2>2. ObreroConHistoria(o)'
    BY <1>2, <2>1 DEF ObreroConHistoria
  <2>3. QED
    BY <1>2, <2>2, HistoriaDeLosDemas DEF HistoriaInv
<1>3. CASE Tomar(o)
  <2>1. /\ doc' = doc /\ peticion' = peticion
        /\ \A x \in Obreros \ {o} : obrero'[x] = obrero[x]
        /\ obrero'[o].mem.estado \in {"RECIBIDO", doc.estado}
        /\ obrero'[o].pc # "aprobar"
    BY <1>1, <1>3 DEF Tomar, Leida, SinLeer, PrimeraFase
  <2>2. QED
    BY <1>1, <1>2, <2>1
<1>4. ASSUME UNCHANGED <<doc, peticion>>,
             \E pc \in PCObrero \ {"aprobar"} :
                \E res \in {"ok", "error", "rechazo", "infectado"} : Pasar(o, pc, res)
      PROVE  HistoriaInv'
  <2>1. /\ \A x \in Obreros \ {o} : obrero'[x] = obrero[x]
        /\ obrero'[o].mem = obrero[o].mem /\ obrero'[o].pc # "aprobar"
    BY <1>1, <1>4 DEF Pasar, EstadosObrero
  <2>2. QED
    BY <1>1, <1>2, <1>4, <2>1
<1>5. CASE \/ ValidarFichero(o) \/ Analizar(o) \/ AnalisisFallido(o)
           \/ ReintentarAnalisis(o) \/ DestruirInfectado(o)
  BY <1>4, <1>5 DEF ValidarFichero, Analizar, AnalisisFallido,
     ReintentarAnalisis, DestruirInfectado, SoloObrero, PCObrero
<1>6. CASE \/ Copiar(o) \/ Verificar(o) \/ RetirarCuarentena(o)
           \/ ExtraerTexto(o) \/ ExtraerDatos(o) \/ Normalizar(o) \/ Publicar(o)
  BY <1>4, <1>6 DEF Copiar, Verificar, RetirarCuarentena, ExtraerTexto,
     ExtraerDatos, Normalizar, Publicar, SoloObrero, PCObrero
<1>7. CASE Completar(o)
  <2>1. /\ peticion' = peticion
        /\ \A x \in Obreros \ {o} : obrero'[x] = obrero[x]
        /\ obrero'[o].mem.estado = "RECIBIDO" /\ obrero'[o].pc # "aprobar"
    BY <1>1, <1>7 DEF Completar, SinLeer, EstadosObrero
  <2>2. QED
    BY <1>2, <1>7, <2>1, CompletarHistoria
<1>8. ASSUME NEW fila \in Filas, HistoriaDe(fila), fila.alcanzados = doc.alcanzados,
             NEW nuevo \in DocumentProcessState, Fundado(nuevo, doc.alcanzados),
             \/ doc' = Mover(fila, obrero[o].mem, nuevo)
             \/ doc' = MarcarFallo(fila, obrero[o].mem, nuevo),
             peticion' = peticion, \A x \in Obreros \ {o} : obrero'[x] = obrero[x],
             obrero'[o].mem.estado = "RECIBIDO", obrero'[o].pc # "aprobar"
      PROVE  HistoriaInv'
  <2>1. \A f \in Filas : LET g == [f EXCEPT !.err = TRUE] IN
           /\ HistoriaDe(f) => HistoriaDe(g)
           /\ g.alcanzados = f.alcanzados
    BY DEF HistoriaDe, Filas
  <2>2. /\ Mover(fila, obrero[o].mem, nuevo) \in Filas
        /\ HistoriaDe(Mover(fila, obrero[o].mem, nuevo))
        /\ doc.alcanzados \subseteq Mover(fila, obrero[o].mem, nuevo).alcanzados
    BY <1>1, <1>8, MoverHistoria, MoverTipo
  <2>3. HistoriaDe(doc') /\ doc.alcanzados \subseteq doc'.alcanzados
    BY <1>8, <2>1, <2>2 DEF MarcarFallo
  <2>4. QED
    BY <1>2, <1>8, <2>3
<1>9. CASE Fracasar(o)
  <2>1. PICK nuevo \in {"RECHAZADO", "ERROR"} :
           doc' = MarcarFallo(doc, obrero[o].mem, nuevo)
    BY <1>9 DEF Fracasar
  <2>2. /\ peticion' = peticion
        /\ \A x \in Obreros \ {o} : obrero'[x] = obrero[x]
        /\ obrero'[o].mem.estado = "RECIBIDO" /\ obrero'[o].pc # "aprobar"
    BY <1>1, <1>9 DEF Fracasar, SinLeer, EstadosObrero
  <2>3. QED
    BY <1>1, <1>8, <2>1, <2>2, EstadosExplicitos, SinPasado
<1>10. CASE Infectar(o)
  <2>1. [doc EXCEPT !.cuar = FALSE] \in Filas /\ HistoriaDe([doc EXCEPT !.cuar = FALSE])
    BY <1>1 DEF Filas, HistoriaDe
  <2>2. /\ peticion' = peticion
        /\ \A x \in Obreros \ {o} : obrero'[x] = obrero[x]
        /\ obrero'[o].mem.estado = "RECIBIDO" /\ obrero'[o].pc # "aprobar"
    BY <1>1, <1>10 DEF Infectar, SinLeer, EstadosObrero
  <2>3. /\ doc' = Mover([doc EXCEPT !.cuar = FALSE], obrero[o].mem, "INFECTADO")
        /\ [doc EXCEPT !.cuar = FALSE].alcanzados = doc.alcanzados
    BY <1>1, <1>10 DEF Infectar, Filas
  <2>4. QED
    BY <1>8, <2>1, <2>2, <2>3, EstadosExplicitos, SinPasado
<1>11. CASE Decidir(o)
  <2>1. CASE Pasar(o, "acusar", "ok")
    BY <1>4, <1>11, <2>1 DEF Decidir, SoloObrero, PCObrero
  <2>2. CASE doc.extr /\ obrero' = [obrero EXCEPT ![o].pc = "aprobar", ![o].mem = Leida]
    <3>1. /\ doc' = doc /\ peticion' = peticion
          /\ \A x \in Obreros \ {o} : obrero'[x] = obrero[x]
          /\ obrero'[o].mem.estado = doc.estado
      BY <1>1, <1>11, <2>2 DEF Decidir, SoloObrero, EstadosObrero, Leida
    <3>2. QED
      BY <1>1, <1>2, <2>2, <3>1 DEF HistoriaDe
  <2>3. QED
    BY <1>11, <2>1, <2>2 DEF Decidir
<1>12. CASE AprobarSola(o)
  <2>1. /\ doc' = Mover(doc, obrero[o].mem, "APROBADO")
        /\ obrero[o].pc = "aprobar" /\ peticion' = peticion
        /\ \A x \in Obreros \ {o} : obrero'[x] = obrero[x]
        /\ obrero'[o].mem.estado = "RECIBIDO" /\ obrero'[o].pc # "aprobar"
    BY <1>1, <1>12 DEF AprobarSola, En, SinLeer, EstadosObrero
  <2>2. Fundado("APROBADO", doc.alcanzados)
    BY <1>1, <2>1, SalidasExplicitas DEF Fundado, ObreroConHistoria
  <2>3. QED
    BY <1>1, <1>8, <2>1, <2>2, EstadosExplicitos
<1>13. CASE Acusar(o) \/ Morir(o) \/ Vencer(o)
  <2>1. /\ doc' = doc /\ peticion' = peticion
        /\ \A x \in Obreros \ {o} : obrero'[x] = obrero[x]
        /\ obrero'[o].mem.estado = "RECIBIDO" /\ obrero'[o].pc # "aprobar"
    BY <1>1, <1>13 DEF Acusar, Morir, Vencer, SoloObrero, ObreroLibre, SinLeer
  <2>2. QED
    BY <1>1, <1>2, <2>1
<1>14. QED
  BY <1>3, <1>5, <1>6, <1>7, <1>9, <1>10, <1>11, <1>12, <1>13
     DEF PasoObrero, AvanceObrero

(* No step of a request leaves a gap in the history.                       *)
LEMMA HistoriaPeticion ==
    ASSUME TypeOK, HistoriaInv, NEW p \in Peticiones, PasoPeticion(p)
    PROVE  HistoriaInv'
<1>1. /\ doc \in Filas /\ HistoriaDe(doc) /\ PeticionConHistoria(p)
      /\ peticion \in [Peticiones -> EstadosPeticion]
      /\ peticion[p].mem \in Lecturas
      /\ peticion[p].destino \in DocumentProcessState
  BY EstadosExplicitos DEF TypeOK, HistoriaInv, EstadosPeticion
<1>2. ASSUME HistoriaDe(doc'), doc.alcanzados \subseteq doc'.alcanzados,
             obrero' = obrero, \A x \in Peticiones \ {p} : peticion'[x] = peticion[x],
             \/ peticion'[p].destino = peticion[p].destino
             \/ Fundado(peticion'[p].destino, doc.alcanzados)
      PROVE  HistoriaInv'
  <2>1. PeticionConHistoria(p)'
    BY <1>1, <1>2, FundadoCrece DEF PeticionConHistoria
  <2>2. QED
    BY <1>2, <2>1, HistoriaDeLosDemas DEF HistoriaInv
<1>3. /\ Fundado("RECIBIDO", doc.alcanzados)
      /\ doc.extr => Fundado("APROBADO", doc.alcanzados)
      /\ Fundado("DESCARTADO", doc.alcanzados)
  BY <1>1, SinPasado, SalidasExplicitas DEF HistoriaDe, Fundado
<1>4. CASE PedirReproceso(p)
  <2>1. PICK op \in Operaciones : \E d \in DestinosDeReproceso(op) :
           peticion' = [peticion EXCEPT ![p] =
              [pc |-> "escribir", op |-> op, mem |-> Leida, destino |-> d]]
    BY <1>4 DEF PedirReproceso
  <2>2. QED
    BY <1>1, <1>2, <1>4, <2>1, DestinosFundados DEF PedirReproceso
<1>5. CASE PedirJuicio(p)
  <2>1. PICK d \in {"APROBADO", "DESCARTADO"} : \E op : peticion' = [peticion EXCEPT ![p] =
              [pc |-> "escribir", op |-> op, mem |-> Leida, destino |-> d]]
    BY <1>5 DEF PedirJuicio, Juicio
  <2>2. QED
    BY <1>1, <1>2, <1>3, <1>5, <2>1 DEF PedirJuicio
<1>6. CASE PedirBorrado(p)
  <2>1. /\ UNCHANGED <<doc, obrero>>
        /\ \A x \in Peticiones \ {p} : peticion'[x] = peticion[x]
        /\ peticion'[p].destino = peticion[p].destino
    BY <1>1, <1>6 DEF PedirBorrado, EstadosPeticion
  <2>2. QED
    BY <1>1, <1>2, <2>1
<1>7. ASSUME doc' = Mover(doc, peticion[p].mem, peticion[p].destino)
      PROVE  HistoriaDe(doc') /\ doc.alcanzados \subseteq doc'.alcanzados
  BY <1>1, <1>7, MoverHistoria DEF PeticionConHistoria
<1>8. \A f \in Filas, b \in BOOLEAN :
         HistoriaDe(f) => /\ HistoriaDe([f EXCEPT !.err = b])
                          /\ HistoriaDe([f EXCEPT !.borrado = b])
                          /\ [f EXCEPT !.err = b].alcanzados = f.alcanzados
                          /\ [f EXCEPT !.borrado = b].alcanzados = f.alcanzados
  BY DEF HistoriaDe, Filas
<1>9. CASE Rebobinar(p)
  <2> DEFINE fila == Mover(doc, peticion[p].mem, peticion[p].destino)
  <2>1. /\ fila \in Filas /\ HistoriaDe(fila)
        /\ doc.alcanzados \subseteq fila.alcanzados
    BY <1>1, MoverTipo, MoverHistoria DEF PeticionConHistoria
  <2>2. doc' = [fila EXCEPT !.err = (fila.err /\ ~peticion[p].mem.err)]
    BY <1>9 DEF Rebobinar
  <2>3. (fila.err /\ ~peticion[p].mem.err) \in BOOLEAN
    OBVIOUS
  <2>4. HistoriaDe(doc') /\ doc.alcanzados \subseteq doc'.alcanzados
    BY <1>8, <2>1, <2>2, <2>3
  <2>5. /\ obrero' = obrero
        /\ \A x \in Peticiones \ {p} : peticion'[x] = peticion[x]
        /\ peticion'[p].destino = peticion[p].destino
    BY <1>1, <1>9 DEF Rebobinar, EstadosPeticion
  <2>6. QED
    BY <1>2, <2>4, <2>5
<1>10. ASSUME HistoriaDe(doc'), doc.alcanzados \subseteq doc'.alcanzados,
              obrero' = obrero, peticion' = [peticion EXCEPT ![p] = PeticionLibre]
       PROVE  HistoriaInv'
  BY <1>1, <1>2, <1>3, <1>10 DEF PeticionLibre
<1>11. CASE Encolar(p) \/ Borrar(p) \/ MorirWeb(p)
  <2>1. /\ doc' = doc \/ doc' = [doc EXCEPT !.err = TRUE]
                      \/ doc' = [doc EXCEPT !.borrado = TRUE]
        /\ obrero' = obrero /\ peticion' = [peticion EXCEPT ![p] = PeticionLibre]
    BY <1>11 DEF Encolar, Borrar, MorirWeb
  <2>2. HistoriaDe(doc') /\ doc.alcanzados \subseteq doc'.alcanzados
    BY <1>1, <1>8, <2>1
  <2>3. QED
    BY <1>10, <2>1, <2>2
<1>12. CASE Juzgar(p)
  BY <1>7, <1>10, <1>12 DEF Juzgar
<1>13. QED
  BY <1>4, <1>5, <1>6, <1>9, <1>11, <1>12 DEF PasoPeticion, AvancePeticion

(* The history of every document is complete at every moment.              *)
THEOREM HistoriaSiempre == Spec => []HistoriaInv
<1>1. Init => HistoriaInv
  <2> SUFFICES ASSUME Init PROVE HistoriaInv
    OBVIOUS
  <2>1. /\ doc.estado = "RECIBIDO" /\ doc.alcanzados = {}
        /\ ~doc.extr /\ ~doc.alm /\ ~doc.texto
    BY DEF Init, FilaNueva
  <2>2. HistoriaDe(doc)
    BY <2>1, SinPasado DEF HistoriaDe
  <2>3. QED
    BY <2>1, <2>2, SinPasado DEF Init, HistoriaInv, ObreroConHistoria,
       PeticionConHistoria, ObreroLibre, PeticionLibre, SinLeer
<1>2. Invariante /\ HistoriaInv /\ [Next]_vars => HistoriaInv'
  <2> SUFFICES ASSUME TypeOK, EntradaInv, HistoriaInv, [Next]_vars PROVE HistoriaInv'
    BY DEF Invariante, LimpioInv
  <2>1. CASE Next
    BY <2>1, HistoriaObrero, HistoriaPeticion DEF Next
  <2>2. CASE UNCHANGED vars
    BY <2>2 DEF vars, HistoriaInv, HistoriaDe, ObreroConHistoria, PeticionConHistoria
  <2>3. QED
    BY <2>1, <2>2
<1>3. QED
  BY <1>1, <1>2, InvarianteSiempre, PTL DEF Spec

(* The recorded history has no gap, whatever stale writes, redeliveries    *)
(* and rewinds do to the current state.                                    *)
THEOREM HistorialCompleto == Spec => []HistorialSinSaltos
<1>1. TypeOK /\ HistoriaInv => HistorialSinSaltos
  <2> SUFFICES ASSUME HistoriaDe(doc) PROVE HistorialSinSaltos
    BY DEF HistoriaInv
  <2> DEFINE alc == doc.alcanzados
  <2>1. /\ "ESCANEADO" \in alc => "VALIDADO" \in alc
        /\ "ALMACENADO" \in alc => "ESCANEADO" \in alc
        /\ "TEXTO_EXTRAIDO" \in alc => "ALMACENADO" \in alc
        /\ "CLASIFICADO" \in alc => "TEXTO_EXTRAIDO" \in alc
        /\ "EXTRAIDO" \in alc => "CLASIFICADO" \in alc
        /\ "NORMALIZADO" \in alc => "EXTRAIDO" \in alc
        /\ "PENDIENTE_REVISION" \in alc => "NORMALIZADO" \in alc
    BY PasosExplicitos DEF HistoriaDe, Entrada, Salida
  <2>2. \A i, j \in 2..9 : i < j /\ DOCUMENT_PIPELINE_ORDER[j] \in alc
           => DOCUMENT_PIPELINE_ORDER[i] \in alc
    <3>1. \A k \in 2..8 : DOCUMENT_PIPELINE_ORDER[k + 1] \in alc
             => DOCUMENT_PIPELINE_ORDER[k] \in alc
      BY <2>1 DEF DOCUMENT_PIPELINE_ORDER
    <3>2. \A i \in 2..9 : i = 2 \/ i = 3 \/ i = 4 \/ i = 5 \/ i = 6 \/ i = 7
                          \/ i = 8 \/ i = 9
      OBVIOUS
    <3>3. QED
      BY <3>2, <2>1 DEF DOCUMENT_PIPELINE_ORDER
  <2>3. "APROBADO" \in alc => "EXTRAIDO" \in alc
    BY DEF HistoriaDe, Fundado
  <2>4. QED
    BY <2>2, <2>3 DEF HistorialSinSaltos
<1>2. QED
  BY <1>1, HistoriaSiempre, TiposCorrectos, PTL

(***************************************************************************)
(* What the row offers is there.  Two pools are safe: one whose store      *)
(* returns what was written, and one with a single worker.  With several   *)
(* workers and a store that corrupts a copy, promote's answer to a wrong   *)
(* hash deletes the object another chain has already put in the row.       *)
(***************************************************************************)
UnSoloObrero == \A a, b \in Obreros : a = b

(* The row offers nothing that is not in the bucket; a single worker acts  *)
(* on a row that still says what it loaded, and promotes from a quarantine *)
(* copy that is there until its own delete.                                *)
AlmacenInv ==
    /\ CopiaInv
    /\ doc.alm => obj.def /\ ~doc.cuar
    /\ \A o \in Obreros :
          obrero[o].pc = "escribir" /\ obrero[o].msg.paso = "store"
             /\ obrero[o].res = "ok" => obj.def
    /\ UnSoloObrero => \A o \in Obreros :
          /\ obrero[o].pc \in {"actuar", "verificar"} /\ obrero[o].mem.cuar
                => doc.cuar
          /\ obrero[o].pc = "verificar" => obrero[o].mem.cuar /\ obj.cuar

(* What a commit does to the two references the row holds.                 *)
LEMMA ReferenciasDeMover ==
    ASSUME NEW fila \in Filas, NEW mem \in Lecturas,
           NEW nuevo \in DocumentProcessState
    PROVE  /\ Mover(fila, mem, nuevo).alm = fila.alm
           /\ Mover(fila, mem, nuevo).cuar = fila.cuar
           /\ MarcarFallo(fila, mem, nuevo).alm = fila.alm
           /\ MarcarFallo(fila, mem, nuevo).cuar = fila.cuar
<1>1. /\ Mover(fila, mem, nuevo).alm = fila.alm
      /\ Mover(fila, mem, nuevo).cuar = fila.cuar
  BY DEF Mover, Filas
<1>2. \A f \in Filas : /\ [f EXCEPT !.err = TRUE].alm = f.alm
                       /\ [f EXCEPT !.err = TRUE].cuar = f.cuar
  BY DEF Filas
<1>3. \E f \in {fila, Mover(fila, mem, nuevo)} :
         \/ MarcarFallo(fila, mem, nuevo) = f
         \/ MarcarFallo(fila, mem, nuevo) = [f EXCEPT !.err = TRUE]
  BY DEF MarcarFallo
<1>4. QED
  BY <1>1, <1>2, <1>3, MoverTipo

(* No step of a worker takes away what the row offers.                     *)
LEMMA AlmacenObrero ==
    ASSUME "hash" \notin Fallos \/ UnSoloObrero,
           TypeOK, AlmacenInv, NEW o \in Obreros, PasoObrero(o)
    PROVE  AlmacenInv'
<1>1. /\ doc \in Filas /\ obrero \in [Obreros -> EstadosObrero]
      /\ obj \in [cuar : BOOLEAN, def : BOOLEAN]
      /\ obrero[o].mem \in Lecturas /\ obrero[o].msg.paso \in Pasos
  BY DEF TypeOK, EstadosObrero, Mensajes
<1>2. ASSUME veredictos \subseteq veredictos', obj' = obj,
             doc'.alm => doc.alm \/ obj.def, doc'.alm => ~doc'.cuar,
             \A x \in Obreros \ {o} : obrero'[x] = obrero[x],
             obrero'[o].pc \notin {"actuar", "verificar", "retirar", "destruir"},
             obrero'[o].pc = "escribir" /\ obrero'[o].msg.paso = "store"
                => obrero'[o].res # "ok",
             \/ doc'.cuar = doc.cuar
             \/ obrero[o].pc = "escribir"
      PROVE  AlmacenInv'
  <2>1. CopiaInv'
    BY <1>2 DEF AlmacenInv, CopiaInv, FicheroNoSePierde
  <2>2. UnSoloObrero => \A x \in Obreros : x = o
    BY DEF UnSoloObrero
  <2>3. QED
    BY <1>2, <2>1, <2>2 DEF AlmacenInv, UnSoloObrero
<1>3. CASE Tomar(o)
  <2>1. PICK m \in Mensajes : obrero' = [obrero EXCEPT ![o] =
              IF Procede(m.paso)
              THEN [pc |-> PrimeraFase(m.paso), msg |-> m, mem |-> Leida,
                    res |-> "ok"]
              ELSE [pc |-> "publicar", msg |-> m, mem |-> SinLeer,
                    res |-> "ok"]]
    BY <1>3 DEF Tomar
  <2>2. /\ UNCHANGED <<doc, obj, veredictos>>
        /\ \A x \in Obreros \ {o} : obrero'[x] = obrero[x]
        /\ obrero'[o].pc \in {"actuar", "escribir", "publicar"}
        /\ obrero'[o].pc = "escribir" => obrero'[o].msg.paso # "store"
        /\ obrero'[o].pc = "actuar" => obrero'[o].mem.cuar = doc.cuar
    BY <1>1, <1>3, <2>1 DEF Tomar, PrimeraFase, Leida
  <2>3. QED
    BY <2>2 DEF AlmacenInv, CopiaInv, FicheroNoSePierde, UnSoloObrero
<1>4. CASE \/ ValidarFichero(o) \/ AnalisisFallido(o) \/ ReintentarAnalisis(o)
           \/ ExtraerTexto(o) \/ ExtraerDatos(o) \/ Normalizar(o)
  <2>1. /\ UNCHANGED <<doc, obj, veredictos>>
        /\ obrero[o].msg.paso # "store"
        /\ \E pc \in {"escribir", "acusar"} : \E res : Pasar(o, pc, res)
    BY <1>4 DEF ValidarFichero, AnalisisFallido, ReintentarAnalisis,
       ExtraerTexto, ExtraerDatos, Normalizar, SoloObrero, En
  <2>2. /\ \A x \in Obreros \ {o} : obrero'[x] = obrero[x]
        /\ obrero'[o].pc \in {"escribir", "acusar"}
        /\ obrero'[o].msg = obrero[o].msg
    BY <1>1, <2>1 DEF Pasar, EstadosObrero
  <2>3. QED
    BY <1>2, <2>1, <2>2 DEF AlmacenInv
<1>5. CASE Analizar(o)
  <2>1. /\ UNCHANGED <<doc, obj>> /\ veredictos \subseteq veredictos'
        /\ obrero[o].msg.paso = "scan"
        /\ \/ Pasar(o, "escribir", "ok")
           \/ Pasar(o, "destruir", "infectado") /\ "infectado" \in veredictos'
    BY <1>5, VeredictosAssumption DEF Analizar, En
  <2>2. /\ \A x \in Obreros \ {o} : obrero'[x] = obrero[x]
        /\ obrero'[o].msg = obrero[o].msg
        /\ \/ obrero'[o].pc = "escribir"
           \/ obrero'[o].pc = "destruir" /\ "infectado" \in veredictos'
    BY <1>1, <2>1 DEF Pasar, EstadosObrero
  <2>3. QED
    BY <2>1, <2>2 DEF AlmacenInv, CopiaInv, FicheroNoSePierde, UnSoloObrero
<1>6. CASE DestruirInfectado(o)
  <2>1. /\ UNCHANGED <<doc, veredictos>> /\ obj'.def = obj.def
        /\ obrero[o].msg.paso = "scan" /\ obrero[o].pc = "destruir"
        /\ Pasar(o, "escribir", "infectado")
    BY <1>1, <1>6 DEF DestruirInfectado, En
  <2>2. /\ \A x \in Obreros \ {o} : obrero'[x] = obrero[x]
        /\ obrero'[o].msg = obrero[o].msg
        /\ obrero'[o].pc = "escribir"
    BY <1>1, <2>1 DEF Pasar, EstadosObrero
  <2>3. QED
    BY <2>1, <2>2 DEF AlmacenInv, CopiaInv, FicheroNoSePierde, UnSoloObrero
<1>7. CASE Copiar(o)
  <2>1. /\ UNCHANGED <<doc, veredictos>> /\ obrero[o].pc = "actuar"
        /\ \/ /\ obrero[o].mem.cuar /\ obj.cuar /\ obj'.cuar /\ obj'.def
              /\ Pasar(o, "verificar", "ok")
           \/ obj' = obj /\ Pasar(o, "escribir", "error")
    BY <1>1, <1>7 DEF Copiar, Legible, En
  <2>2. /\ \A x \in Obreros \ {o} : obrero'[x] = obrero[x]
        /\ obrero'[o].mem = obrero[o].mem
        /\ \/ /\ obrero[o].mem.cuar /\ obj.cuar /\ obj'.cuar /\ obj'.def
              /\ obrero'[o].pc = "verificar"
           \/ /\ obj' = obj /\ obrero'[o].pc = "escribir"
              /\ obrero'[o].res = "error"
    BY <1>1, <2>1 DEF Pasar, EstadosObrero
  <2>3. QED
    BY <2>1, <2>2 DEF AlmacenInv, CopiaInv, FicheroNoSePierde, UnSoloObrero
<1>8. CASE Verificar(o)
  <2>1. /\ UNCHANGED <<doc, veredictos>> /\ obrero[o].pc = "verificar"
        /\ \/ obj.def /\ obj' = obj /\ Pasar(o, "retirar", "ok")
           \/ obj' = obj /\ Pasar(o, "escribir", "error")
           \/ /\ "hash" \in Fallos /\ obj' = [obj EXCEPT !.def = FALSE]
              /\ Pasar(o, "escribir", "error")
    BY <1>8 DEF Verificar, En
  <2>2. \A x \in Obreros \ {o} : obrero'[x] = obrero[x]
    BY <1>1, <2>1 DEF Pasar
  <2>3. CASE obj' = obj
    <3>1. \/ obj.def /\ obrero'[o].pc = "retirar"
          \/ obrero'[o].pc = "escribir" /\ obrero'[o].res = "error"
      BY <1>1, <2>1, <2>3 DEF Pasar, EstadosObrero
    <3>2. QED
      BY <2>1, <2>2, <2>3, <3>1
         DEF AlmacenInv, CopiaInv, FicheroNoSePierde, UnSoloObrero
  <2>4. CASE "hash" \in Fallos /\ obj' = [obj EXCEPT !.def = FALSE]
             /\ Pasar(o, "escribir", "error")
    <3>1. /\ UnSoloObrero /\ \A x \in Obreros : x = o
          /\ obrero[o].mem.cuar /\ obj.cuar /\ doc.cuar
      BY <2>1, <2>4 DEF AlmacenInv, UnSoloObrero
    <3>2. /\ ~doc.alm /\ obj'.cuar
          /\ obrero'[o].pc = "escribir" /\ obrero'[o].res = "error"
      BY <1>1, <2>4, <3>1 DEF AlmacenInv, Pasar, EstadosObrero
    <3>3. QED
      BY <2>1, <3>1, <3>2 DEF AlmacenInv, CopiaInv, FicheroNoSePierde, UnSoloObrero
  <2>5. QED
    BY <2>1, <2>3, <2>4
<1>9. CASE RetirarCuarentena(o)
  <2>1. /\ UNCHANGED <<doc, veredictos>> /\ obrero[o].pc = "retirar"
        /\ obj'.def = obj.def /\ Pasar(o, "escribir", "ok")
    BY <1>1, <1>9 DEF RetirarCuarentena, En
  <2>2. /\ \A x \in Obreros \ {o} : obrero'[x] = obrero[x]
        /\ obrero'[o].pc = "escribir" /\ obj.def
    BY <1>1, <2>1 DEF Pasar, EstadosObrero, AlmacenInv, CopiaInv
  <2>3. QED
    BY <2>1, <2>2 DEF AlmacenInv, CopiaInv, FicheroNoSePierde, UnSoloObrero
<1>10. CASE Completar(o)
  <2> DEFINE fila == ConResultado(doc, obrero[o].msg.paso)
  <2>1. /\ fila \in Filas
        /\ \/ fila.alm = doc.alm /\ fila.cuar = doc.cuar
           \/ obrero[o].msg.paso = "store" /\ ~fila.cuar
    BY <1>1, ConResultadoTipo DEF ConResultado, Filas
  <2>2. doc'.alm = fila.alm /\ doc'.cuar = fila.cuar
    BY <1>1, <1>10, <2>1, ReferenciasDeMover, TablaDePasos, EstadosExplicitos
       DEF Completar
  <2>3. /\ UNCHANGED <<obj, veredictos>>
        /\ \A x \in Obreros \ {o} : obrero'[x] = obrero[x]
        /\ obrero'[o].pc \in {"decidir", "publicar"}
        /\ obrero[o].pc = "escribir" /\ obrero[o].res = "ok"
    BY <1>1, <1>10 DEF Completar, EstadosObrero
  <2>4. QED
    BY <1>2, <2>1, <2>2, <2>3 DEF AlmacenInv
<1>11. CASE Fracasar(o) \/ Infectar(o) \/ AprobarSola(o)
  <2>1. /\ UNCHANGED <<obj, veredictos>>
        /\ \A x \in Obreros \ {o} : obrero'[x] = obrero[x]
        /\ obrero'[o].pc = "acusar"
        /\ obrero[o].pc = "escribir" \/ AprobarSola(o)
    BY <1>1, <1>11 DEF Fracasar, Infectar, AprobarSola, EstadosObrero
  <2>2. \/ \E nuevo \in {"RECHAZADO", "ERROR"} :
              doc' = MarcarFallo(doc, obrero[o].mem, nuevo)
        \/ Infectar(o) /\ doc' = Mover([doc EXCEPT !.cuar = FALSE], obrero[o].mem, "INFECTADO")
        \/ doc' = Mover(doc, obrero[o].mem, "APROBADO")
    BY <1>11 DEF Fracasar, Infectar, AprobarSola
  <2>3. [doc EXCEPT !.cuar = FALSE] \in Filas
    BY <1>1 DEF Filas
  <2>4. /\ doc'.alm = doc.alm
        /\ \/ doc'.cuar = doc.cuar
           \/ doc'.cuar = FALSE /\ Infectar(o)
    BY <1>1, <2>2, <2>3, ReferenciasDeMover, EstadosExplicitos DEF Filas
  <2>5. QED
    BY <1>2, <2>1, <2>4 DEF AlmacenInv, Infectar
<1>12. CASE \/ Decidir(o) \/ Publicar(o) \/ Acusar(o) \/ Morir(o) \/ Vencer(o)
  <2>1. /\ UNCHANGED <<doc, obj, veredictos>>
        /\ \A x \in Obreros \ {o} : obrero'[x] = obrero[x]
        /\ obrero'[o].pc \in {"acusar", "aprobar", "libre"}
    BY <1>1, <1>12 DEF Decidir, Publicar, Acusar, Morir, Vencer, Pasar,
       SoloObrero, ObreroLibre, EstadosObrero
  <2>2. QED
    BY <1>2, <2>1 DEF AlmacenInv
<1>13. QED
  BY <1>3, <1>4, <1>5, <1>6, <1>7, <1>8, <1>9, <1>10, <1>11, <1>12
     DEF PasoObrero, AvanceObrero

(* A request never touches the bytes nor the row's references to them.     *)
LEMMA AlmacenPeticion ==
    ASSUME TypeOK, AlmacenInv, NEW p \in Peticiones, PasoPeticion(p)
    PROVE  AlmacenInv'
<1>1. /\ doc \in Filas /\ peticion[p].mem \in Lecturas
      /\ peticion[p].destino \in DocumentProcessState
  BY EstadosExplicitos DEF TypeOK
<1>2. UNCHANGED <<obj, veredictos, obrero>>
  BY DEF PasoPeticion, AvancePeticion, PedirReproceso, PedirJuicio,
     PedirBorrado, Rebobinar, Encolar, Juzgar, Borrar, MorirWeb
<1> DEFINE fila == Mover(doc, peticion[p].mem, peticion[p].destino)
<1>3. /\ fila \in Filas /\ fila.alm = doc.alm /\ fila.cuar = doc.cuar
      /\ \A f \in Filas : \A b :
            /\ [f EXCEPT !.err = b].alm = f.alm /\ [f EXCEPT !.err = b].cuar = f.cuar
            /\ [f EXCEPT !.borrado = b].alm = f.alm
            /\ [f EXCEPT !.borrado = b].cuar = f.cuar
  BY <1>1, MoverTipo, ReferenciasDeMover DEF Filas
<1>4. doc'.alm = doc.alm /\ doc'.cuar = doc.cuar
  <2>1. CASE Rebobinar(p)
    <3>1. doc' = [fila EXCEPT !.err = (fila.err /\ ~peticion[p].mem.err)]
      BY <2>1 DEF Rebobinar
    <3> HIDE DEF fila
    <3>2. QED
      BY <1>3, <3>1
  <2>2. CASE ~Rebobinar(p)
    <3>1. \/ doc' = doc \/ doc' = fila
          \/ doc' = [doc EXCEPT !.err = TRUE] \/ doc' = [doc EXCEPT !.borrado = TRUE]
      BY <2>2 DEF PasoPeticion, AvancePeticion, PedirReproceso, PedirJuicio,
         PedirBorrado, Encolar, Juzgar, Borrar, MorirWeb
    <3> HIDE DEF fila
    <3>2. QED
      BY <1>1, <1>3, <3>1 DEF Filas
  <2>3. QED
    BY <2>1, <2>2
<1>5. QED
  BY <1>2, <1>4 DEF AlmacenInv, CopiaInv, FicheroNoSePierde, UnSoloObrero

(* The invariant of the bytes and of the row's references to them.         *)
THEOREM AlmacenSiempre ==
    ASSUME "hash" \notin Fallos \/ UnSoloObrero
    PROVE  Spec => []AlmacenInv
<1>1. Init => AlmacenInv
  BY DEF Init, FilaNueva, AlmacenInv, CopiaInv, FicheroNoSePierde, ObreroLibre
<1>2. TypeOK /\ AlmacenInv /\ [Next]_vars => AlmacenInv'
  <2> SUFFICES ASSUME TypeOK, AlmacenInv, [Next]_vars PROVE AlmacenInv'
    OBVIOUS
  <2>1. CASE Next
    BY <2>1, AlmacenObrero, AlmacenPeticion DEF Next
  <2>2. CASE UNCHANGED vars
    BY <2>2 DEF vars, AlmacenInv, CopiaInv, FicheroNoSePierde, UnSoloObrero
  <2>3. QED
    BY <2>1, <2>2
<1>3. QED
  BY <1>1, <1>2, TiposCorrectos, PTL DEF Spec

(* No original is lost: a copy exists somewhere until the antivirus        *)
(* condemns the file, wherever the workers die.                            *)
THEOREM NingunFicheroSePierde ==
    ASSUME "hash" \notin Fallos \/ UnSoloObrero
    PROVE  Spec => []FicheroNoSePierde
<1>1. AlmacenInv => FicheroNoSePierde
  BY DEF AlmacenInv, CopiaInv
<1>2. QED
  BY <1>1, AlmacenSiempre, PTL

(* A row offered for download points at an object that is there.           *)
THEOREM LoOfrecidoExiste ==
    ASSUME "hash" \notin Fallos \/ UnSoloObrero
    PROVE  Spec => []DisponibleExiste
<1>1. AlmacenInv => DisponibleExiste
  BY DEF AlmacenInv, DisponibleExiste
<1>2. QED
  BY <1>1, AlmacenSiempre, PTL

(***************************************************************************)
(* Where the bytes of a rewind are named.  Until a file is condemned its   *)
(* row names one of the two copies, and it names the definitive one exactly*)
(* when ALMACENADO is in its history; so a reprocess that settles on a     *)
(* state before that one read a row that named the quarantine copy.        *)
(***************************************************************************)
EnCuarentena == {"RECIBIDO", "VALIDADO", "ESCANEADO"}

PeticionConCopia(p) ==
    EsReproceso(peticion[p].op) /\ peticion[p].destino \in EnCuarentena
       => peticion[p].mem.cuar

NombradaInv ==
    "infectado" \notin veredictos =>
        /\ doc.cuar \/ doc.alm
        /\ \A o \in Obreros : obrero[o].pc # "destruir" /\ obrero[o].res # "infectado"
        /\ \A p \in Peticiones : PeticionConCopia(p)

(* A reprocess that settles on a state of the quarantine saw the copy named*)
(* by the row.                                                             *)
LEMMA DestinosDeCuarentena ==
    ASSUME TypeOK, HistoriaInv, doc.cuar \/ doc.alm, NEW op,
           NEW d \in DestinosDeReproceso(op), d \in EnCuarentena
    PROVE  doc.cuar
<1>1. CASE op = "reprocesar_inicio"
  BY <1>1 DEF DestinosDeReproceso, PrimerEstadoRepetible, EnCuarentena
<1>2. CASE op # "reprocesar_inicio"
  <2>1. PICK s \in MasLejano(doc.alcanzados) :
           d = IF Indice[s] > Indice["CLASIFICADO"] THEN "CLASIFICADO" ELSE s
    BY <1>2 DEF DestinosDeReproceso, UltimoEstadoBueno, _REPROCESS_CEILING
  <2>2. s \in EnCuarentena
    BY <2>1 DEF EnCuarentena
  <2>3. "ALMACENADO" \notin doc.alcanzados
    BY <2>2, IndicesExplicitos, OrdenExplicito DEF MasLejano, EnCuarentena
  <2>4. QED
    BY <2>3 DEF HistoriaInv, HistoriaDe
<1>3. QED
  BY <1>1, <1>2

(* No step of a worker makes the row name nothing, but on a verdict.       *)
LEMMA NombradaObrero ==
    ASSUME TypeOK, NombradaInv, NEW o \in Obreros, PasoObrero(o),
           "infectado" \notin veredictos'
    PROVE  /\ doc'.cuar \/ doc'.alm
           /\ \A x \in Obreros : obrero'[x].pc # "destruir" /\ obrero'[x].res # "infectado"
<1>1. /\ doc \in Filas /\ obrero \in [Obreros -> EstadosObrero]
      /\ obrero[o].mem \in Lecturas /\ obrero[o].msg.paso \in Pasos
      /\ veredictos \subseteq {"limpio", "infectado"}
  BY DEF TypeOK, EstadosObrero, Mensajes
<1>2. "infectado" \notin veredictos
  BY VeredictosCrecen DEF Next
<1>3. /\ doc.cuar \/ doc.alm
      /\ \A x \in Obreros : obrero[x].pc # "destruir" /\ obrero[x].res # "infectado"
  BY <1>2 DEF NombradaInv
<1>4. /\ ~DestruirInfectado(o) /\ ~Infectar(o)
      /\ Analizar(o) => obrero'[o].pc # "destruir" /\ obrero'[o].res # "infectado"
  BY <1>1, <1>3, VeredictosAssumption
     DEF DestruirInfectado, Infectar, Analizar, En, Pasar, EstadosObrero
<1>5. /\ \A x \in Obreros \ {o} : obrero'[x] = obrero[x]
      /\ obrero'[o].pc # "destruir" /\ obrero'[o].res # "infectado"
  <2>1. CASE Tomar(o)
    <3>1. \E m \in Mensajes : obrero' = [obrero EXCEPT ![o] =
              IF Procede(m.paso)
              THEN [pc |-> PrimeraFase(m.paso), msg |-> m, mem |-> Leida,
                    res |-> "ok"]
              ELSE [pc |-> "publicar", msg |-> m, mem |-> SinLeer,
                    res |-> "ok"]]
      BY <2>1 DEF Tomar
    <3>2. QED
      BY <1>1, <3>1 DEF PrimeraFase
  <2>2. CASE \/ Completar(o) \/ Fracasar(o) \/ AprobarSola(o) \/ Acusar(o)
             \/ Morir(o) \/ Vencer(o)
    BY <1>1, <1>3, <2>2 DEF Completar, Fracasar, AprobarSola, Acusar, Morir,
       Vencer, ObreroLibre, EstadosObrero
  <2>3. CASE \/ ValidarFichero(o) \/ AnalisisFallido(o) \/ ReintentarAnalisis(o)
             \/ Copiar(o) \/ Verificar(o) \/ RetirarCuarentena(o)
             \/ ExtraerTexto(o) \/ ExtraerDatos(o) \/ Normalizar(o) \/ Publicar(o)
    <3>1. \E pc \in {"escribir", "acusar", "verificar", "retirar"} :
             \E res \in {"ok", "error", "rechazo"} : Pasar(o, pc, res)
      BY <2>3 DEF ValidarFichero, AnalisisFallido, ReintentarAnalisis, Copiar,
         Verificar, RetirarCuarentena, ExtraerTexto, ExtraerDatos, Normalizar,
         Publicar
    <3>2. QED
      BY <1>1, <3>1 DEF Pasar, EstadosObrero
  <2>4. CASE Decidir(o)
    BY <1>1, <1>3, <2>4 DEF Decidir, Pasar, EstadosObrero
  <2>5. CASE Analizar(o)
    BY <1>1, <1>4, <2>5 DEF Analizar, Pasar
  <2>6. QED
    BY <1>4, <2>1, <2>2, <2>3, <2>4, <2>5 DEF PasoObrero, AvanceObrero
<1>6. doc'.cuar \/ doc'.alm
  <2>1. CASE Completar(o)
    <3> DEFINE fila == ConResultado(doc, obrero[o].msg.paso)
    <3>1. fila \in Filas /\ (fila.cuar \/ fila.alm)
      BY <1>1, <1>3, ConResultadoTipo DEF ConResultado, Filas
    <3>2. doc'.alm = fila.alm /\ doc'.cuar = fila.cuar
      BY <1>1, <2>1, <3>1, ReferenciasDeMover, TablaDePasos, EstadosExplicitos
         DEF Completar
    <3>3. QED
      BY <3>1, <3>2
  <2>2. CASE Fracasar(o) \/ AprobarSola(o)
    <3>1. \E nuevo \in DocumentProcessState :
             \/ doc' = MarcarFallo(doc, obrero[o].mem, nuevo)
             \/ doc' = Mover(doc, obrero[o].mem, nuevo)
      BY <2>2, EstadosExplicitos DEF Fracasar, AprobarSola
    <3>2. QED
      BY <1>1, <1>3, <3>1, ReferenciasDeMover
  <2>3. CASE ~Completar(o) /\ ~Fracasar(o) /\ ~AprobarSola(o)
    <3>1. doc' = doc
      BY <1>4, <2>3 DEF PasoObrero, AvanceObrero, Tomar, ValidarFichero,
         Analizar, AnalisisFallido, ReintentarAnalisis, Copiar, Verificar,
         RetirarCuarentena, ExtraerTexto, ExtraerDatos, Normalizar, Decidir,
         Publicar, Acusar, Morir, Vencer, SoloObrero
    <3>2. QED
      BY <1>3, <3>1
  <2>4. QED
    BY <2>1, <2>2, <2>3
<1>7. QED
  BY <1>3, <1>5, <1>6

(* Nor does a request; and one that asks for a reprocess settles on a state*)
(* of the quarantine only from a row that names the copy.                  *)
LEMMA NombradaPeticion ==
    ASSUME TypeOK, HistoriaInv, NombradaInv, "infectado" \notin veredictos,
           NEW p \in Peticiones, PasoPeticion(p)
    PROVE  (doc'.cuar \/ doc'.alm) /\ (\A x \in Peticiones : PeticionConCopia(x)')
<1>1. /\ doc \in Filas /\ peticion \in [Peticiones -> EstadosPeticion]
      /\ peticion[p].mem \in Lecturas
      /\ peticion[p].destino \in DocumentProcessState
  BY EstadosExplicitos DEF TypeOK, EstadosPeticion
<1>2. /\ doc.cuar \/ doc.alm
      /\ \A x \in Peticiones : PeticionConCopia(x)
  BY DEF NombradaInv
<1> DEFINE fila == Mover(doc, peticion[p].mem, peticion[p].destino)
<1>3. /\ fila \in Filas /\ fila.alm = doc.alm /\ fila.cuar = doc.cuar
      /\ \A f \in Filas : \A b :
            /\ [f EXCEPT !.err = b].alm = f.alm /\ [f EXCEPT !.err = b].cuar = f.cuar
            /\ [f EXCEPT !.borrado = b].alm = f.alm
            /\ [f EXCEPT !.borrado = b].cuar = f.cuar
  BY <1>1, MoverTipo, ReferenciasDeMover DEF Filas
<1>4. doc'.alm = doc.alm /\ doc'.cuar = doc.cuar
  <2>1. CASE Rebobinar(p)
    <3>1. doc' = [fila EXCEPT !.err = (fila.err /\ ~peticion[p].mem.err)]
      BY <2>1 DEF Rebobinar
    <3> HIDE DEF fila
    <3>2. QED
      BY <1>3, <3>1
  <2>2. CASE ~Rebobinar(p)
    <3>1. \/ doc' = doc \/ doc' = fila
          \/ doc' = [doc EXCEPT !.err = TRUE] \/ doc' = [doc EXCEPT !.borrado = TRUE]
      BY <2>2 DEF PasoPeticion, AvancePeticion, PedirReproceso, PedirJuicio,
         PedirBorrado, Encolar, Juzgar, Borrar, MorirWeb
    <3> HIDE DEF fila
    <3>2. QED
      BY <1>1, <1>3, <3>1 DEF Filas
  <2>3. QED
    BY <2>1, <2>2
<1>5. \A x \in Peticiones \ {p} : peticion'[x] = peticion[x]
  BY <1>1 DEF PasoPeticion, AvancePeticion, PedirReproceso, PedirJuicio,
     PedirBorrado, Rebobinar, Encolar, Juzgar, Borrar, MorirWeb
<1>6. PeticionConCopia(p)'
  <2>1. CASE PedirReproceso(p)
    <3>1. PICK op \in Operaciones : \E d \in DestinosDeReproceso(op) :
             peticion' = [peticion EXCEPT ![p] =
                [pc |-> "escribir", op |-> op, mem |-> Leida, destino |-> d]]
      BY <2>1 DEF PedirReproceso
    <3> PICK d \in DestinosDeReproceso(op) :
             peticion' = [peticion EXCEPT ![p] =
                [pc |-> "escribir", op |-> op, mem |-> Leida, destino |-> d]]
      BY <3>1
    <3>2. d \in EnCuarentena => doc.cuar
      BY <1>2, DestinosDeCuarentena
    <3>3. QED
      BY <1>1, <3>2 DEF PeticionConCopia, Leida
  <2>2. CASE PedirJuicio(p) \/ PedirBorrado(p)
    <3>1. ~EsReproceso(peticion'[p].op)
      BY <1>1, <2>2 DEF PedirJuicio, PedirBorrado, EsReproceso, EstadosPeticion
    <3>2. QED
      BY <3>1 DEF PeticionConCopia
  <2>3. CASE Rebobinar(p)
    <3>1. /\ peticion'[p].op = peticion[p].op
          /\ peticion'[p].destino = peticion[p].destino
          /\ peticion'[p].mem = peticion[p].mem
      BY <1>1, <2>3 DEF Rebobinar, EstadosPeticion
    <3>2. QED
      BY <1>2, <3>1 DEF PeticionConCopia
  <2>4. CASE Encolar(p) \/ Juzgar(p) \/ Borrar(p) \/ MorirWeb(p)
    <3>1. peticion'[p] = PeticionLibre
      BY <1>1, <2>4 DEF Encolar, Juzgar, Borrar, MorirWeb
    <3>2. QED
      BY <3>1 DEF PeticionConCopia, PeticionLibre, EsReproceso
  <2>5. QED
    BY <2>1, <2>2, <2>3, <2>4 DEF PasoPeticion, AvancePeticion
<1>7. QED
  BY <1>2, <1>4, <1>5, <1>6 DEF PeticionConCopia

(* The invariant of what a rewind was chosen from.                         *)
THEOREM NombradaSiempre == Spec => []NombradaInv
<1>1. Init => NombradaInv
  BY DEF Init, FilaNueva, NombradaInv, PeticionConCopia, ObreroLibre,
     PeticionLibre, EsReproceso
<1>2. TypeOK /\ HistoriaInv /\ NombradaInv /\ [Next]_vars => NombradaInv'
  <2> SUFFICES ASSUME TypeOK, HistoriaInv, NombradaInv, [Next]_vars,
                      "infectado" \notin veredictos'
               PROVE  NombradaInv'
    BY DEF NombradaInv
  <2>1. "infectado" \notin veredictos
    BY VeredictosCrecen
  <2>2. ASSUME NEW o \in Obreros, PasoObrero(o) PROVE NombradaInv'
    <3>1. peticion' = peticion
      BY <2>2 DEF PasoObrero, AvanceObrero, Tomar, ValidarFichero, Analizar,
         AnalisisFallido, ReintentarAnalisis, DestruirInfectado, Copiar,
         Verificar, RetirarCuarentena, ExtraerTexto, ExtraerDatos, Normalizar,
         Completar, Fracasar, Infectar, Decidir, AprobarSola, Publicar, Acusar,
         Morir, Vencer, SoloObrero
    <3>2. QED
      BY <2>1, <2>2, <3>1, NombradaObrero DEF NombradaInv, PeticionConCopia
  <2>3. ASSUME NEW p \in Peticiones, PasoPeticion(p) PROVE NombradaInv'
    <3>1. UNCHANGED <<obj, veredictos, obrero>>
      BY <2>3 DEF PasoPeticion, AvancePeticion, PedirReproceso, PedirJuicio,
         PedirBorrado, Rebobinar, Encolar, Juzgar, Borrar, MorirWeb
    <3>2. QED
      BY <2>1, <2>3, <3>1, NombradaPeticion DEF NombradaInv
  <2>4. CASE UNCHANGED vars
    BY <2>4 DEF vars, NombradaInv, PeticionConCopia
  <2>5. QED
    BY <2>2, <2>3, <2>4 DEF Next
<1>3. QED
  BY <1>1, <1>2, TiposCorrectos, HistoriaSiempre, PTL DEF Spec

(* A rewind finds the data its first task reads, whatever was written on   *)
(* the row since it was chosen: what was recorded as reached stays reached,*)
(* what was stored or read stays so, and a quarantine copy the row named is*)
(* there until it is promoted or condemned.                                *)
THEOREM ReanudarTieneInsumos ==
    ASSUME "hash" \notin Fallos \/ UnSoloObrero
    PROVE  Spec => []ReanudaConInsumos
<1>1. AlmacenInv /\ HistoriaInv /\ NombradaInv => ReanudaConInsumos
  <2> SUFFICES ASSUME AlmacenInv, HistoriaInv, NombradaInv, NEW p \in Peticiones,
                      EsReproceso(peticion[p].op)
               PROVE  /\ peticion[p].destino = "ALMACENADO" => doc.alm /\ obj.def
                      /\ peticion[p].destino \in {"TEXTO_EXTRAIDO", "CLASIFICADO"}
                            => doc.texto
                      /\ (/\ peticion[p].destino \in {"RECIBIDO", "VALIDADO", "ESCANEADO"}
                          /\ "infectado" \notin veredictos)
                         => /\ peticion[p].mem.cuar
                            /\ obj.def \/ (doc.cuar /\ obj.cuar)
    BY DEF ReanudaConInsumos
  <2>1. HistoriaDe(doc) /\ Fundado(peticion[p].destino, doc.alcanzados)
    BY DEF HistoriaInv, PeticionConHistoria
  <2>2. "CLASIFICADO" \in doc.alcanzados => "TEXTO_EXTRAIDO" \in doc.alcanzados
    BY <2>1, PasosExplicitos DEF HistoriaDe, Entrada, Salida
  <2>3. "infectado" \notin veredictos => obj.def \/ (doc.cuar /\ obj.cuar)
    BY DEF NombradaInv, AlmacenInv, CopiaInv, FicheroNoSePierde
  <2>4. /\ peticion[p].destino \in {"RECIBIDO", "VALIDADO", "ESCANEADO"}
        /\ "infectado" \notin veredictos
        => peticion[p].mem.cuar
    BY DEF NombradaInv, PeticionConCopia, EnCuarentena
  <2>5. QED
    BY <2>1, <2>2, <2>3, <2>4, SalidasExplicitas DEF HistoriaDe, Fundado, AlmacenInv
<1>2. QED
  BY <1>1, AlmacenSiempre, HistoriaSiempre, NombradaSiempre, PTL

(***************************************************************************)
(* One chain, one worker.  With a single worker the row cannot change      *)
(* between a load and its commit, so the chain only goes forward.  (With   *)
(* two it may go back: a worker that dies after publishing the next task   *)
(* has its own redelivered, the skipped task publishes that next one once  *)
(* more, and two workers act on the same input state.)                     *)
(***************************************************************************)
(* The states of the happy path up to s.                                   *)
Hasta(s) == {t \in EnOrden : Indice[t] <= Indice[s]}

(* Without an error, a row on the happy path has been through nothing that *)
(* lies beyond its state.                                                  *)
FilaEnCadena(fila) ==
    "ERROR" \notin fila.alcanzados =>
        /\ fila.estado # "ERROR"
        /\ fila.estado \in EnOrden => fila.alcanzados \subseteq Hasta(fila.estado)

UnaCadenaInv ==
    pedidas = 0 =>
        /\ FilaEnCadena(doc) /\ doc.estado # "DESCARTADO"
        /\ \A p \in Peticiones : peticion[p].pc = "libre"
        /\ \A o \in Obreros :
              /\ obrero[o].pc \notin {"libre", "decidir", "publicar", "acusar"}
                    => obrero[o].mem.estado = doc.estado
              /\ obrero[o].pc = "aprobar" => Permite(obrero[o].mem.estado, "APROBADO")

(* Every task leaves the state that follows its input, except for a        *)
(* validate that picks up a document in error; an approval leaves the last *)
(* state.                                                                  *)
LEMMA SalidaAvanza ==
    /\ \A paso \in Pasos : \A s \in Entrada[paso] \ {"ERROR"} :
          s \in EnOrden /\ Indice[Salida[paso]] > Indice[s]
    /\ \A s \in EnOrden \ {"APROBADO"} : Indice["APROBADO"] > Indice[s]
  BY PasosExplicitos, OrdenExplicito, IndicesExplicitos DEF Entrada, Salida

(* A commit by a session that loaded the row as it still is: a state       *)
(* further on, a terminal one or the error is new to the history.          *)
LEMMA MoverAdelante ==
    ASSUME NEW fila \in Filas, NEW mem \in Lecturas, mem.estado = fila.estado,
           FilaEnCadena(fila), NEW nuevo \in DocumentProcessState,
           \/ nuevo \in {"ERROR", fila.estado} \/ "ERROR" \in fila.alcanzados
           \/ fila.estado \in EnOrden /\ nuevo \in DOCUMENT_TERMINAL_STATES
           \/ /\ fila.estado \in EnOrden /\ nuevo \in EnOrden
              /\ Indice[nuevo] > Indice[fila.estado]
    PROVE  LET f == Mover(fila, mem, nuevo) IN
           /\ FilaEnCadena(f)
           /\ "ERROR" \notin fila.alcanzados /\ f.estado # fila.estado
                => f.estado \notin fila.alcanzados
           /\ f.estado \in {nuevo, fila.estado}
<1>1. CASE nuevo = fila.estado
  BY <1>1 DEF Mover
<1>2. CASE nuevo # fila.estado
  <2> DEFINE f == Mover(fila, mem, nuevo)
  <2>1. f.estado = nuevo /\ f.alcanzados = fila.alcanzados \cup {nuevo}
    BY <1>2 DEF Mover, Filas
  <2>2. CASE "ERROR" \in f.alcanzados
    BY <1>2, <2>1, <2>2 DEF FilaEnCadena
  <2>3. CASE "ERROR" \notin f.alcanzados
    <3>1. /\ fila.estado \in EnOrden /\ fila.alcanzados \subseteq Hasta(fila.estado)
          /\ \/ nuevo \in DOCUMENT_TERMINAL_STATES
             \/ nuevo \in EnOrden /\ Indice[nuevo] > Indice[fila.estado]
      BY <1>2, <2>1, <2>3 DEF FilaEnCadena
    <3>2. DOCUMENT_TERMINAL_STATES \cap EnOrden = {}
      BY OrdenExplicito DEF DOCUMENT_TERMINAL_STATES
    <3>3. \A s \in EnOrden : Indice[s] \in Nat
      BY OrdenExplicito, IndicesExplicitos
    <3>4. nuevo \notin fila.alcanzados
      BY <3>1, <3>2, <3>3 DEF Hasta
    <3>5. nuevo \in EnOrden => f.alcanzados \subseteq Hasta(nuevo)
      BY <2>1, <3>1, <3>2, <3>3 DEF Hasta
    <3>6. QED
      BY <2>1, <2>3, <3>4, <3>5 DEF FilaEnCadena
  <2>4. QED
    BY <2>2, <2>3
<1>3. QED
  BY <1>1, <1>2

(* What a row says of its chain does not depend on its other columns.      *)
LEMMA CadenaDeOtrasColumnas ==
    ASSUME NEW fila \in Filas, NEW b \in BOOLEAN, NEW paso
    PROVE  LET iguales(f) == f.estado = fila.estado /\ f.alcanzados = fila.alcanzados
           IN  /\ iguales([fila EXCEPT !.err = b])
               /\ iguales([fila EXCEPT !.cuar = b])
               /\ iguales([fila EXCEPT !.borrado = b])
               /\ iguales(ConResultado(fila, paso))
  BY DEF Filas, ConResultado

(* One worker, no request: its step goes forward or records an error.      *)
LEMMA CadenaObrero ==
    ASSUME UnSoloObrero, TypeOK, EntradaInv, UnaCadenaInv, pedidas = 0,
           NEW o \in Obreros, PasoObrero(o)
    PROVE  /\ UnaCadenaInv'
           /\ "ERROR" \notin doc.alcanzados /\ doc'.estado # doc.estado
                => doc'.estado \notin doc.alcanzados
<1> DEFINE Avanza == "ERROR" \notin doc.alcanzados /\ doc'.estado # doc.estado
                        => doc'.estado \notin doc.alcanzados
<1>1. /\ doc \in Filas /\ obrero \in [Obreros -> EstadosObrero]
      /\ obrero[o].mem \in Lecturas /\ obrero[o].msg.paso \in Pasos
      /\ FilaEnCadena(doc) /\ doc.estado # "DESCARTADO"
      /\ \A p \in Peticiones : peticion[p].pc = "libre"
      /\ \A x \in Obreros : x = o
  BY DEF TypeOK, EstadosObrero, Mensajes, UnaCadenaInv, UnSoloObrero
<1>2. ASSUME peticion' = peticion, FilaEnCadena(doc'), doc'.estado # "DESCARTADO",
             Avanza,
             obrero'[o].pc \notin {"libre", "decidir", "publicar", "acusar"}
                => obrero'[o].mem.estado = doc'.estado,
             obrero'[o].pc = "aprobar" => Permite(obrero'[o].mem.estado, "APROBADO")
      PROVE  UnaCadenaInv' /\ Avanza
  BY <1>1, <1>2 DEF UnaCadenaInv
<1>3. CASE Tomar(o)
  <2>1. /\ doc' = doc /\ peticion' = peticion
        /\ obrero'[o].pc \in {"actuar", "escribir", "publicar"}
        /\ obrero'[o].pc \in {"actuar", "escribir"} => obrero'[o].mem.estado = doc.estado
    BY <1>1, <1>3 DEF Tomar, PrimeraFase, Leida
  <2>2. QED
    BY <1>1, <1>2, <2>1
<1>4. CASE \/ ValidarFichero(o) \/ Analizar(o) \/ AnalisisFallido(o)
           \/ ReintentarAnalisis(o) \/ DestruirInfectado(o)
           \/ Copiar(o) \/ Verificar(o) \/ RetirarCuarentena(o)
           \/ ExtraerTexto(o) \/ ExtraerDatos(o) \/ Normalizar(o)
  <2>1. /\ doc' = doc /\ peticion' = peticion
        /\ obrero[o].pc \in {"actuar", "destruir", "verificar", "retirar"}
        /\ \E pc \in {"escribir", "destruir", "verificar", "retirar", "acusar"} : \E res :
              Pasar(o, pc, res)
    BY <1>4 DEF ValidarFichero, Analizar, AnalisisFallido, ReintentarAnalisis,
       DestruirInfectado, Copiar, Verificar, RetirarCuarentena, ExtraerTexto,
       ExtraerDatos, Normalizar, SoloObrero, En
  <2>2. /\ obrero'[o].mem = obrero[o].mem
        /\ obrero'[o].pc \in {"escribir", "destruir", "verificar", "retirar", "acusar"}
        /\ obrero[o].mem.estado = doc.estado
    BY <1>1, <2>1 DEF Pasar, EstadosObrero, UnaCadenaInv
  <2>3. QED
    BY <1>1, <1>2, <2>1, <2>2
<1>5. CASE Completar(o)
  <2> DEFINE paso == obrero[o].msg.paso
             fila == ConResultado(doc, paso)
  <2>1. /\ obrero[o].pc = "escribir" /\ peticion' = peticion
        /\ obrero'[o].pc \in {"decidir", "publicar"}
        /\ doc' = Mover(fila, obrero[o].mem, Salida[paso])
    BY <1>1, <1>5 DEF Completar, EstadosObrero
  <2>2. /\ obrero[o].mem.estado = doc.estado /\ doc.estado \in Entrada[paso]
        /\ fila \in Filas /\ fila.estado = doc.estado
        /\ fila.alcanzados = doc.alcanzados
    BY <1>1, <2>1, ConResultadoTipo, CadenaDeOtrasColumnas
       DEF UnaCadenaInv, EntradaInv
  <2>3. /\ Salida[paso] \in EnOrden /\ Salida[paso] \in DocumentProcessState
        /\ Salida[paso] # "DESCARTADO" /\ FilaEnCadena(fila)
    BY <1>1, <2>2, PasosExplicitos, TablaDePasos, EstadosExplicitos
       DEF Salida, FilaEnCadena
  <2>4. \/ "ERROR" \in fila.alcanzados
        \/ fila.estado \in EnOrden /\ Indice[Salida[paso]] > Indice[fila.estado]
    BY <1>1, <2>2, <2>3, SalidaAvanza DEF FilaEnCadena
  <2>5. FilaEnCadena(doc') /\ Avanza /\ doc'.estado # "DESCARTADO"
    BY <1>1, <2>1, <2>2, <2>3, <2>4, MoverAdelante
  <2>6. QED
    BY <1>2, <2>1, <2>5
<1>6. CASE Fracasar(o)
  <2>1. PICK nuevo \in {"RECHAZADO", "ERROR"} :
           /\ doc' = MarcarFallo(doc, obrero[o].mem, nuevo)
           /\ obrero[o].pc = "escribir" /\ peticion' = peticion
           /\ obrero'[o].pc = "acusar"
    BY <1>1, <1>6 DEF Fracasar, EstadosObrero
  <2>2. /\ obrero[o].mem.estado = doc.estado
        /\ doc.estado \in Entrada[obrero[o].msg.paso]
        /\ nuevo \in DocumentProcessState
        /\ nuevo = "ERROR" \/ nuevo \in DOCUMENT_TERMINAL_STATES
    BY <2>1, EstadosExplicitos DEF UnaCadenaInv, EntradaInv, DOCUMENT_TERMINAL_STATES
  <2>3. "ERROR" \in doc.alcanzados \/ doc.estado \in EnOrden
    BY <1>1, <2>2, SalidaAvanza DEF FilaEnCadena
  <2> DEFINE f == Mover(doc, obrero[o].mem, nuevo)
  <2>4. /\ FilaEnCadena(f) /\ f \in Filas /\ f.estado \in {nuevo, doc.estado}
        /\ "ERROR" \notin doc.alcanzados /\ f.estado # doc.estado
             => f.estado \notin doc.alcanzados
    BY <1>1, <2>2, <2>3, MoverAdelante, MoverTipo
  <2>5. PICK g \in {doc, f} : doc' = g \/ doc' = [g EXCEPT !.err = TRUE]
    BY <2>1 DEF MarcarFallo
  <2>6. doc'.estado = g.estado /\ doc'.alcanzados = g.alcanzados
    BY <1>1, <2>4, <2>5, CadenaDeOtrasColumnas
  <2>7. FilaEnCadena(doc') /\ Avanza /\ doc'.estado # "DESCARTADO"
    BY <1>1, <2>4, <2>6 DEF FilaEnCadena
  <2>8. QED
    BY <1>2, <2>1, <2>7
<1>7. CASE Infectar(o)
  <2> DEFINE fila == [doc EXCEPT !.cuar = FALSE]
  <2>1. /\ doc' = Mover(fila, obrero[o].mem, "INFECTADO")
        /\ obrero[o].pc = "escribir" /\ peticion' = peticion
        /\ obrero'[o].pc = "acusar"
    BY <1>1, <1>7 DEF Infectar, EstadosObrero
  <2>2. /\ obrero[o].mem.estado = doc.estado
        /\ doc.estado \in Entrada[obrero[o].msg.paso]
        /\ fila \in Filas /\ fila.estado = doc.estado
        /\ fila.alcanzados = doc.alcanzados
    BY <1>1, <2>1 DEF UnaCadenaInv, EntradaInv, Filas
  <2>3. /\ "ERROR" \in fila.alcanzados \/ fila.estado \in EnOrden
        /\ FilaEnCadena(fila) /\ "INFECTADO" \in DOCUMENT_TERMINAL_STATES
    BY <1>1, <2>2, SalidaAvanza DEF FilaEnCadena, DOCUMENT_TERMINAL_STATES
  <2>4. FilaEnCadena(doc') /\ Avanza /\ doc'.estado # "DESCARTADO"
    BY <1>1, <2>1, <2>2, <2>3, MoverAdelante, EstadosExplicitos
  <2>5. QED
    BY <1>2, <2>1, <2>4
<1>8. CASE Decidir(o)
  <2>1. /\ doc' = doc /\ peticion' = peticion
        /\ \/ Pasar(o, "acusar", "ok")
           \/ /\ Permite(doc.estado, "APROBADO")
              /\ obrero' = [obrero EXCEPT ![o].pc = "aprobar", ![o].mem = Leida]
    BY <1>8 DEF Decidir, SoloObrero
  <2>2. \/ obrero'[o].pc = "acusar"
        \/ /\ obrero'[o].pc = "aprobar" /\ obrero'[o].mem.estado = doc.estado
           /\ Permite(doc.estado, "APROBADO")
    BY <1>1, <2>1 DEF Pasar, Leida, EstadosObrero
  <2>3. QED
    BY <1>1, <1>2, <2>1, <2>2
<1>9. CASE AprobarSola(o)
  <2>1. /\ doc' = Mover(doc, obrero[o].mem, "APROBADO")
        /\ obrero[o].pc = "aprobar" /\ peticion' = peticion
        /\ obrero'[o].pc = "acusar"
    BY <1>1, <1>9 DEF AprobarSola, En, EstadosObrero
  <2>2. /\ obrero[o].mem.estado = doc.estado /\ Permite(doc.estado, "APROBADO")
        /\ "APROBADO" \in EnOrden
    BY <2>1, OrdenExplicito DEF UnaCadenaInv
  <2>3. doc.estado \in {"PENDIENTE_REVISION", "REVISADO", "APROBADO"}
    BY <1>1, <2>2, OrdenExplicito
       DEF Permite, ALLOWED_TRANSITIONS, Filas, DocumentProcessState,
           DOCUMENT_TERMINAL_STATES
  <2>4. \/ doc.estado = "APROBADO"
        \/ doc.estado \in EnOrden /\ Indice["APROBADO"] > Indice[doc.estado]
    BY <2>3, OrdenExplicito, SalidaAvanza
  <2>5. FilaEnCadena(doc') /\ Avanza /\ doc'.estado # "DESCARTADO"
    BY <1>1, <2>1, <2>2, <2>4, MoverAdelante, EstadosExplicitos
  <2>6. QED
    BY <1>2, <2>1, <2>5
<1>10. CASE Publicar(o) \/ Acusar(o) \/ Morir(o) \/ Vencer(o)
  <2>1. /\ doc' = doc /\ peticion' = peticion
        /\ obrero'[o].pc \in {"acusar", "libre"}
    BY <1>1, <1>10 DEF Publicar, Acusar, Morir, Vencer, SoloObrero, Pasar,
       ObreroLibre, EstadosObrero
  <2>2. QED
    BY <1>1, <1>2, <2>1
<1>11. QED
  BY <1>3, <1>4, <1>5, <1>6, <1>7, <1>8, <1>9, <1>10
     DEF PasoObrero, AvanceObrero

(* Until somebody asks for something no request is being served, and the   *)
(* first to ask ends the claim.                                            *)
LEMMA CadenaPeticion ==
    ASSUME TypeOK, UnaCadenaInv, NEW p \in Peticiones, PasoPeticion(p)
    PROVE  /\ UnaCadenaInv'
           /\ pedidas = 0 => doc' = doc
<1>1. CASE PedirReproceso(p) \/ PedirJuicio(p) \/ PedirBorrado(p)
  <2>1. pedidas' = pedidas + 1 /\ pedidas \in Nat /\ doc' = doc
    BY <1>1 DEF PedirReproceso, PedirJuicio, PedirBorrado, TypeOK
  <2>2. pedidas' # 0
    BY <2>1
  <2>3. QED
    BY <2>1, <2>2 DEF UnaCadenaInv
<1>2. CASE AvancePeticion(p) \/ MorirWeb(p)
  <2>1. peticion[p].pc # "libre" /\ pedidas' = pedidas
    BY <1>2 DEF AvancePeticion, Rebobinar, Encolar, Juzgar, Borrar, MorirWeb
  <2>2. pedidas # 0
    BY <2>1 DEF UnaCadenaInv
  <2>3. QED
    BY <2>1, <2>2 DEF UnaCadenaInv
<1>3. QED
  BY <1>1, <1>2 DEF PasoPeticion

(* With one worker a redelivery repeats no work, wherever it dies.         *)
THEOREM UnaReentregaNoRepite ==
    ASSUME UnSoloObrero
    PROVE  Spec => SinRepetirTrabajo
<1> DEFINE Avanza == pedidas = 0 /\ "ERROR" \notin doc.alcanzados
                        /\ doc'.estado # doc.estado
                          => doc'.estado \notin doc.alcanzados
<1>1. Init => UnaCadenaInv
  <2> SUFFICES ASSUME Init PROVE UnaCadenaInv
    OBVIOUS
  <2>1. doc.estado = "RECIBIDO" /\ doc.alcanzados = {}
    BY DEF Init, FilaNueva
  <2>2. QED
    BY <2>1 DEF Init, UnaCadenaInv, FilaEnCadena, ObreroLibre, PeticionLibre
<1>2. Invariante /\ UnaCadenaInv /\ [Next]_vars => UnaCadenaInv' /\ [Avanza]_vars
  <2> SUFFICES ASSUME TypeOK, EntradaInv, UnaCadenaInv, [Next]_vars
               PROVE  UnaCadenaInv' /\ Avanza
    BY DEF Invariante, LimpioInv
  <2>1. ASSUME NEW o \in Obreros, PasoObrero(o) PROVE UnaCadenaInv' /\ Avanza
    <3>1. pedidas' = pedidas
      BY <2>1 DEF PasoObrero, AvanceObrero, Tomar, ValidarFichero, Analizar,
         AnalisisFallido, ReintentarAnalisis, DestruirInfectado, Copiar, Verificar,
         RetirarCuarentena, ExtraerTexto, ExtraerDatos, Normalizar, Completar,
         Fracasar, Infectar, Decidir, AprobarSola, Publicar, Acusar, Morir, Vencer,
         SoloObrero
    <3>2. CASE pedidas = 0
      BY <2>1, <3>2, CadenaObrero
    <3>3. CASE pedidas # 0
      BY <3>1, <3>3 DEF UnaCadenaInv
    <3>4. QED
      BY <3>2, <3>3
  <2>2. ASSUME NEW p \in Peticiones, PasoPeticion(p) PROVE UnaCadenaInv' /\ Avanza
    BY <2>2, CadenaPeticion
  <2>3. CASE UNCHANGED vars
    BY <2>3 DEF vars, UnaCadenaInv, FilaEnCadena
  <2>4. QED
    BY <2>1, <2>2, <2>3 DEF Next
<1>3. QED
  BY <1>1, <1>2, InvarianteSiempre, PTL DEF Spec, SinRepetirTrabajo

(***************************************************************************)
(* Nobody leaves a document halfway.  While its state is one of the chain, *)
(* somebody has it in hand: the strengthening says who, and follows the    *)
(* document from the message to the worker that takes it, to the commit,   *)
(* and to the message it publishes.                                        *)
(***************************************************************************)
(* The broker takes every message, and no hard limit or death of the web   *)
(* process drops the one that carries the document.                        *)
NadieSueltaElMensaje == Fallos \cap {"cola", "web", "tiempo"} = {}

(* A failed read before the scan, or the end of its retries, does drop it. *)
AnalisisFiable == Fallos \cap {"almacen", "antivirus"} = {}

(* So a validated document may have nobody to scan it.                     *)
AnalisisPerdido == doc.estado = "VALIDADO" /\ (AnalisisFiable => AnalisisSinCopia)

EnCamino == {"RECIBIDO", "VALIDADO", "ESCANEADO", "ALMACENADO",
             "TEXTO_EXTRAIDO", "CLASIFICADO", "EXTRAIDO", "NORMALIZADO"}

EstadosAsentados == {"PENDIENTE_REVISION", "APROBADO", "ERROR"}
                       \cup DOCUMENT_TERMINAL_STATES

(* The place of a task in the chain: that of the state it takes.           *)
Turno(paso) == Indice[Salida[paso]] - 1

Actuando == {"actuar", "destruir", "verificar", "retirar", "escribir"}

(* Who will take the document on from the state s: a message of the task   *)
(* that takes it or of an earlier one, which will skip; a worker that acts *)
(* on it, or has an earlier task's successor to publish; a request that    *)
(* has the chain to publish.                                               *)
MensajeLaLleva(s) ==
    \E m \in Mensajes : cola[m] > 0 /\ Turno(m.paso) <= Indice[s]

ObreroLaLleva(o, s) ==
    \/ obrero[o].pc \in Actuando /\ obrero[o].mem.estado = s
    \/ obrero[o].pc = "publicar" /\ Turno(obrero[o].msg.paso) < Indice[s]

PeticionLaLleva(p, s) ==
    /\ peticion[p].pc = "encolar"
    /\ Turno(PasoDeReanudacion(peticion[p].destino)) <= Indice[s]

EnManos(s) == \/ MensajeLaLleva(s)
              \/ \E o \in Obreros : ObreroLaLleva(o, s)
              \/ \E p \in Peticiones : PeticionLaLleva(p, s)

AlguienLaLleva ==
    \/ doc.estado \in EstadosAsentados
    \/ doc.estado \in EnCamino /\ EnManos(doc.estado)
    \/ AnalisisPerdido

(* A reading without a quarantine copy is never out of date.               *)
SinCopiaParaTodos ==
    \A o \in Obreros :
        obrero[o].pc \in Actuando /\ ~obrero[o].mem.cuar => ~doc.cuar

RechazaAlValidar ==
    \A o \in Obreros : obrero[o].pc = "escribir" /\ obrero[o].res = "rechazo"
                          => obrero[o].msg.paso = "validate"

(* A reprocess goes to a state of the chain, a judgement to a settled one. *)
DestinosDePeticion ==
    \A p \in Peticiones :
        LET q == peticion[p] IN
        /\ q.pc # "libre" /\ EsReproceso(q.op) => q.destino \in EnCamino
        /\ q.pc # "libre" /\ q.op \in {"aprobar", "rechazar"}
              => q.destino \in EstadosAsentados

AvanceInv == /\ SinCopiaParaTodos
             /\ RechazaAlValidar
             /\ DestinosDePeticion
             /\ AlguienLaLleva

(* The tasks of the chain and the states they take and leave, as places    *)
(* in the order.                                                           *)
LEMMA TablaDeTurnos ==
    /\ \A s \in EnCamino : Indice[s] \in 1..8
    /\ \A paso \in Pasos : Turno(paso) \in 1..8
    /\ \A paso \in Pasos, s \in EnCamino :
          s \in Entrada[paso] <=> Turno(paso) = Indice[s]
    /\ \A paso \in Pasos :
          /\ Siguiente[paso] = "ninguno" => Turno(paso) = 8
          /\ Siguiente[paso] # "ninguno"
                => Siguiente[paso] \in Pasos
                   /\ Turno(Siguiente[paso]) = Turno(paso) + 1
          /\ paso # "finalize" => Salida[paso] \in EnCamino
          /\ Salida[paso] \notin Entrada[paso]
    /\ \A s \in EnCamino : PasoDeReanudacion(s) \in Pasos
                           /\ Turno(PasoDeReanudacion(s)) = Indice[s]
<1>1. \A s \in EnCamino : Indice[s] \in 1..8
  BY IndicesExplicitos DEF EnCamino
<1>2. /\ Turno("validate") = 1 /\ Turno("scan") = 2 /\ Turno("store") = 3
      /\ Turno("extract_text") = 4 /\ Turno("classify") = 5
      /\ Turno("ai_extract") = 6 /\ Turno("normalize") = 7
      /\ Turno("finalize") = 8
  BY IndicesExplicitos DEF Turno, Salida
<1>3. \A paso \in Pasos : Turno(paso) \in 1..8
  BY <1>2, PasosExplicitos
<1>4. \A paso \in Pasos, s \in EnCamino :
         s \in Entrada[paso] <=> Turno(paso) = Indice[s]
  BY <1>2, IndicesExplicitos, PasosExplicitos DEF Entrada, EnCamino
<1>5. \A paso \in Pasos :
         /\ Siguiente[paso] = "ninguno" => Turno(paso) = 8
         /\ Siguiente[paso] # "ninguno"
               => Siguiente[paso] \in Pasos
                  /\ Turno(Siguiente[paso]) = Turno(paso) + 1
         /\ paso # "finalize" => Salida[paso] \in EnCamino
         /\ Salida[paso] \notin Entrada[paso]
  BY <1>2, PasosExplicitos DEF Siguiente, Salida, Entrada, EnCamino
<1>6. \A s \in EnCamino : PasoDeReanudacion(s) \in Pasos
                          /\ Turno(PasoDeReanudacion(s)) = Indice[s]
  BY <1>2, IndicesExplicitos, PasosExplicitos
     DEF PasoDeReanudacion, RESUME_FROM, EnCamino
<1>7. QED
  BY <1>1, <1>3, <1>4, <1>5, <1>6

(* A reprocess rewinds to a state from which the chain goes on.            *)
LEMMA DestinosEnCamino ==
    ASSUME NEW op
    PROVE  DestinosDeReproceso(op) \subseteq EnCamino
<1>1. \A s \in EnOrden : Indice[s] <= 6 => s \in EnCamino
  BY OrdenExplicito, IndicesExplicitos DEF EnCamino
<1>2. \A s \in EnOrden : Indice[s] \in 1..11
  BY OrdenExplicito, IndicesExplicitos
<1>3. \A alc : MasLejano(alc) \subseteq EnOrden
  BY OrdenExplicito DEF MasLejano
<1>4. UltimoEstadoBueno(doc.alcanzados) \subseteq EnCamino
  BY <1>1, <1>2, <1>3, IndicesExplicitos
     DEF UltimoEstadoBueno, _REPROCESS_CEILING, EnCamino
<1>5. QED
  BY <1>4 DEF DestinosDeReproceso, PrimerEstadoRepetible, EnCamino

(* A step that leaves the state of the row alone, brings no copy back and  *)
(* touches only the worker o: who had the document in hand still has it,   *)
(* provided the messages and o answer for what they had.                   *)
LEMMA LosDemasLaLlevan ==
    ASSUME AlguienLaLleva, NEW o \in Obreros,
           doc'.estado = doc.estado, doc'.cuar => doc.cuar, obj'.cuar => obj.cuar,
           peticion' = peticion,
           \A x \in Obreros \ {o} : obrero'[x] = obrero[x],
           doc.estado \in EnCamino /\ MensajeLaLleva(doc.estado)
              => EnManos(doc.estado)',
           doc.estado \in EnCamino /\ ObreroLaLleva(o, doc.estado)
              => EnManos(doc.estado)' \/ AnalisisPerdido'
    PROVE  AlguienLaLleva'
<1>1. CASE doc.estado \in EstadosAsentados
  BY <1>1 DEF AlguienLaLleva
<1>2. CASE AnalisisPerdido
  BY <1>2 DEF AlguienLaLleva, AnalisisPerdido, AnalisisSinCopia
<1>3. CASE doc.estado \in EnCamino /\ EnManos(doc.estado)
  <2>1. ASSUME NEW x \in Obreros \ {o}, ObreroLaLleva(x, doc.estado)
        PROVE  EnManos(doc.estado)'
    BY <2>1 DEF ObreroLaLleva, EnManos
  <2>2. ASSUME NEW p \in Peticiones, PeticionLaLleva(p, doc.estado)
        PROVE  EnManos(doc.estado)'
    BY <2>2 DEF PeticionLaLleva, EnManos
  <2>3. EnManos(doc.estado)' \/ AnalisisPerdido'
    BY <1>3, <2>1, <2>2 DEF EnManos
  <2>4. QED
    BY <1>3, <2>3 DEF AlguienLaLleva
<1>4. QED
  BY <1>1, <1>2, <1>3 DEF AlguienLaLleva

(* While the queue keeps its messages, they answer for what they had.      *)
LEMMA LosMensajesQuedan ==
    ASSUME doc'.estado = doc.estado,
           \A m \in Mensajes : cola[m] > 0 => cola'[m] > 0
    PROVE  MensajeLaLleva(doc.estado) => EnManos(doc.estado)'
  BY DEF MensajeLaLleva, EnManos

(* A step between two phases of a task that acts: the worker still has in  *)
(* hand what it loaded.                                                    *)
LEMMA SigueActuando ==
    ASSUME TypeOK, AlguienLaLleva, NEW o \in Obreros, NEW pc \in Actuando, NEW res,
           obrero[o].pc \in Actuando, Pasar(o, pc, res),
           doc' = doc, obj'.cuar => obj.cuar,
           UNCHANGED <<cola, peticion>>
    PROVE  AlguienLaLleva'
<1>1. ObreroLaLleva(o, doc.estado) => EnManos(doc.estado)'
  <2>1. obrero'[o].pc = pc /\ obrero'[o].mem = obrero[o].mem
    BY DEF Pasar, TypeOK
  <2>2. ObreroLaLleva(o, doc.estado) => obrero[o].mem.estado = doc.estado
    BY DEF ObreroLaLleva, Actuando
  <2>3. QED
    BY <2>1, <2>2 DEF ObreroLaLleva, EnManos
<1>2. MensajeLaLleva(doc.estado) => EnManos(doc.estado)'
  BY LosMensajesQuedan
<1>3. \A x \in Obreros \ {o} : obrero'[x] = obrero[x]
  BY DEF Pasar, TypeOK
<1>4. QED
  BY <1>1, <1>2, <1>3, LosDemasLaLlevan

(* A worker that had nothing in hand does not leave the document halfway,  *)
(* whatever it does, while it leaves the state and the messages alone.     *)
LEMMA NoLaLlevaba ==
    ASSUME AlguienLaLleva, NEW o \in Obreros,
           doc.estado \in EnCamino => ~ObreroLaLleva(o, doc.estado),
           doc'.estado = doc.estado, doc'.cuar => doc.cuar, obj'.cuar => obj.cuar,
           peticion' = peticion,
           \A m \in Mensajes : cola[m] > 0 => cola'[m] > 0,
           \A x \in Obreros \ {o} : obrero'[x] = obrero[x]
    PROVE  AlguienLaLleva'
  BY LosDemasLaLlevan, LosMensajesQuedan

(* A worker takes a message.  If it carried the document and the state is  *)
(* the task's, the worker has loaded it; if the state is a later one, the  *)
(* task skips and has its successor to publish.                            *)
LEMMA AvanceTomar ==
    ASSUME TypeOK, AlguienLaLleva, NEW o \in Obreros, Tomar(o)
    PROVE  AlguienLaLleva'
<1>1. PICK m \in Mensajes :
         /\ obrero[o].pc = "libre" /\ cola[m] > 0
         /\ cola' = [cola EXCEPT ![m] = @ - 1]
         /\ obrero' = [obrero EXCEPT ![o] =
               IF Procede(m.paso)
               THEN [pc |-> PrimeraFase(m.paso), msg |-> m, mem |-> Leida,
                     res |-> "ok"]
               ELSE [pc |-> "publicar", msg |-> m, mem |-> SinLeer,
                     res |-> "ok"]]
         /\ UNCHANGED <<doc, obj, peticion>>
  BY DEF Tomar
<1>2. /\ \A n \in Mensajes \ {m} : cola'[n] = cola[n]
      /\ \A x \in Obreros \ {o} : obrero'[x] = obrero[x]
  BY <1>1 DEF TypeOK
<1>3. ASSUME doc.estado \in EnCamino, Turno(m.paso) <= Indice[doc.estado]
      PROVE  ObreroLaLleva(o, doc.estado)'
  <2>1. m.paso \in Pasos
    BY DEF Mensajes
  <2>2. CASE Procede(m.paso)
    <3>1. obrero'[o].pc = PrimeraFase(m.paso) /\ obrero'[o].mem = Leida
      BY <1>1, <2>2 DEF TypeOK
    <3>2. PrimeraFase(m.paso) \in Actuando /\ Leida.estado = doc.estado
      BY DEF PrimeraFase, Actuando, Leida
    <3>3. QED
      BY <1>1, <3>1, <3>2 DEF ObreroLaLleva
  <2>3. CASE ~Procede(m.paso)
    <3>1. obrero'[o].pc = "publicar" /\ obrero'[o].msg = m
      BY <1>1, <2>3 DEF TypeOK
    <3>2. Turno(m.paso) # Indice[doc.estado]
      BY <1>3, <2>1, <2>3, TablaDeTurnos DEF Procede
    <3>3. Turno(m.paso) < Indice[doc.estado]
      BY <1>3, <2>1, <3>2, TablaDeTurnos
    <3>4. QED
      BY <1>1, <3>1, <3>3 DEF ObreroLaLleva
  <2>4. QED
    BY <2>2, <2>3
<1>4. doc.estado \in EnCamino /\ MensajeLaLleva(doc.estado) => EnManos(doc.estado)'
  <2> SUFFICES ASSUME doc.estado \in EnCamino, MensajeLaLleva(doc.estado)
               PROVE  EnManos(doc.estado)'
    OBVIOUS
  <2>1. PICK n \in Mensajes : cola[n] > 0 /\ Turno(n.paso) <= Indice[doc.estado]
    BY DEF MensajeLaLleva
  <2>2. CASE n = m
    BY <1>3, <2>1, <2>2 DEF EnManos
  <2>3. CASE n # m
    BY <1>1, <1>2, <2>1, <2>3 DEF EnManos, MensajeLaLleva
  <2>4. QED
    BY <2>2, <2>3
<1>5. ~ObreroLaLleva(o, doc.estado)
  BY <1>1 DEF ObreroLaLleva, Actuando
<1>6. QED
  BY <1>1, <1>2, <1>4, <1>5, LosDemasLaLlevan

(* A scan that ends without a mark: if it had the document in hand, the    *)
(* document is validated and nobody will scan it.                          *)
LEMMA SueltaElAnalisis ==
    ASSUME TypeOK, EntradaInv, AlguienLaLleva, NEW o \in Obreros,
           obrero[o].pc = "actuar", obrero[o].msg.paso = "scan",
           Pasar(o, "acusar", "ok"), UNCHANGED <<doc, obj, peticion>>,
           \A m \in Mensajes : cola[m] > 0 => cola'[m] > 0,
           AnalisisFiable => ~doc.cuar \/ ~obj.cuar
    PROVE  AlguienLaLleva'
<1>1. obrero[o].mem.estado = "VALIDADO"
  BY DEF EntradaInv, Entrada
<1>2. ObreroLaLleva(o, doc.estado) => AnalisisPerdido'
  BY <1>1 DEF ObreroLaLleva, AnalisisPerdido, AnalisisSinCopia
<1>3. MensajeLaLleva(doc.estado) => EnManos(doc.estado)'
  BY LosMensajesQuedan
<1>4. \A x \in Obreros \ {o} : obrero'[x] = obrero[x]
  BY DEF Pasar, TypeOK
<1>5. QED
  BY <1>2, <1>3, <1>4, LosDemasLaLlevan

(* The phases of the tasks that act outside the database: the document     *)
(* stays in the worker's hands, except when scan finds no copy to read,    *)
(* which is the gap.                                                       *)
LEMMA AvanceActuar ==
    ASSUME TypeOK, EntradaInv, SinCopiaParaTodos, AlguienLaLleva,
           NEW o \in Obreros,
           \/ ValidarFichero(o) \/ Analizar(o) \/ AnalisisFallido(o)
           \/ DestruirInfectado(o) \/ Copiar(o) \/ Verificar(o)
           \/ RetirarCuarentena(o) \/ ExtraerTexto(o) \/ ExtraerDatos(o)
           \/ Normalizar(o)
    PROVE  AlguienLaLleva'
<1> USE DEF SoloObrero, En, Actuando
<1>1. CASE ValidarFichero(o) \/ Analizar(o)
  BY <1>1, SigueActuando DEF ValidarFichero, Analizar
<1>2. CASE AnalisisFallido(o)
  <2>1. CASE Pasar(o, "escribir", "error")
    BY <1>2, <2>1, SigueActuando DEF AnalisisFallido
  <2>2. CASE Pasar(o, "acusar", "ok") /\ (~Legible(o) \/ "almacen" \in Fallos)
    <3>1. /\ obrero[o].pc = "actuar" /\ obrero[o].msg.paso = "scan"
          /\ UNCHANGED <<doc, obj, cola, peticion>>
      BY <1>2 DEF AnalisisFallido
    <3>2. AnalisisFiable => ~doc.cuar \/ ~obj.cuar
      BY <2>2, <3>1 DEF AnalisisFiable, Legible, SinCopiaParaTodos
    <3>3. QED
      BY <2>2, <3>1, <3>2, SueltaElAnalisis
  <2>3. QED
    BY <1>2, <2>1, <2>2 DEF AnalisisFallido
<1>3. CASE DestruirInfectado(o) \/ RetirarCuarentena(o)
  <2>1. obj'.cuar => obj.cuar
    BY <1>3 DEF DestruirInfectado, RetirarCuarentena, TypeOK
  <2>2. QED
    BY <1>3, <2>1, SigueActuando DEF DestruirInfectado, RetirarCuarentena
<1>4. CASE Copiar(o) \/ Verificar(o)
  <2>1. obj'.cuar => obj.cuar
    BY <1>4 DEF Copiar, Verificar, TypeOK
  <2>2. QED
    BY <1>4, <2>1, SigueActuando DEF Copiar, Verificar
<1>5. CASE ExtraerTexto(o) \/ ExtraerDatos(o) \/ Normalizar(o)
  BY <1>5, SigueActuando DEF ExtraerTexto, ExtraerDatos, Normalizar
<1>6. QED
  BY <1>1, <1>2, <1>3, <1>4, <1>5

(* A scan that finds no antivirus publishes its retry, or has none left:   *)
(* then the document may stay validated.                                   *)
LEMMA AvanceReintentar ==
    ASSUME TypeOK, EntradaInv, AlguienLaLleva, NEW o \in Obreros,
           ReintentarAnalisis(o)
    PROVE  AlguienLaLleva'
<1>1. /\ obrero[o].pc = "actuar" /\ obrero[o].msg.paso = "scan"
      /\ Pasar(o, "acusar", "ok") /\ UNCHANGED <<doc, obj, peticion>>
      /\ ~AnalisisFiable
  BY DEF ReintentarAnalisis, En, AnalisisFiable
<1>2. \A m \in Mensajes : cola[m] > 0 => cola'[m] > 0
  <2>1. obrero[o].msg.reint < MaxReintentos
          => [obrero[o].msg EXCEPT !.reint = @ + 1] \in Mensajes
    BY MaximosAssumption DEF TypeOK, Mensajes
  <2>2. QED
    BY <2>1 DEF ReintentarAnalisis, Publicado, TypeOK
<1>3. QED
  BY <1>1, <1>2, SueltaElAnalisis

(* Publishing the next task puts the document in its message's hands; the  *)
(* last task has nothing to publish and no later state to carry.           *)
LEMMA AvancePublicar ==
    ASSUME TypeOK, AlguienLaLleva, NEW o \in Obreros, Publicar(o)
    PROVE  AlguienLaLleva'
<1> DEFINE paso == obrero[o].msg.paso
           sig == Siguiente[paso]
           m == [paso |-> sig, reint |-> 0]
<1>1. /\ obrero[o].pc = "publicar" /\ UNCHANGED <<doc, obj, peticion>>
      /\ Pasar(o, "acusar", "ok")
      /\ cola' = IF sig = "ninguno" THEN cola ELSE Publicado(m)
  BY DEF Publicar
<1>2. paso \in Pasos
  BY DEF TypeOK, Mensajes
<1>3. /\ \A n \in Mensajes : cola[n] > 0 => cola'[n] > 0
      /\ sig # "ninguno" => m \in Mensajes /\ cola'[m] > 0
  <2>1. sig # "ninguno" => m \in Mensajes
    BY <1>2, TablaDeTurnos, MaximosAssumption DEF Mensajes
  <2>2. QED
    BY <1>1, <2>1 DEF Publicado, TypeOK
<1>4. ASSUME doc.estado \in EnCamino, ObreroLaLleva(o, doc.estado)
      PROVE  EnManos(doc.estado)'
  <2>1. Turno(paso) < Indice[doc.estado]
    BY <1>1, <1>4 DEF ObreroLaLleva, Actuando
  <2>2. /\ Indice[doc.estado] \in 1..8 /\ Turno(paso) \in 1..8
        /\ sig = "ninguno" => Turno(paso) = 8
        /\ sig # "ninguno" => Turno(sig) = Turno(paso) + 1
    BY <1>2, <1>4, TablaDeTurnos
  <2>3. sig # "ninguno" /\ Turno(sig) <= Indice[doc.estado]
    BY <2>1, <2>2
  <2>4. m \in Mensajes /\ cola'[m] > 0 /\ m.paso = sig
    BY <1>3, <2>3
  <2>5. QED
    BY <1>1, <2>3, <2>4 DEF EnManos, MensajeLaLleva
<1>5. \A x \in Obreros \ {o} : obrero'[x] = obrero[x]
  BY <1>1 DEF Pasar, TypeOK
<1>6. QED
  BY <1>1, <1>3, <1>4, <1>5, LosDemasLaLlevan, LosMensajesQuedan

(* A death hands the document back to the message that is redelivered.     *)
LEMMA AvanceMorir ==
    ASSUME TypeOK, EntradaInv, AlguienLaLleva, NEW o \in Obreros, Morir(o)
    PROVE  AlguienLaLleva'
<1> DEFINE m == obrero[o].msg
<1>1. m \in Mensajes /\ m.paso \in Pasos
  BY DEF TypeOK, Mensajes
<1>2. /\ \A n \in Mensajes : cola[n] > 0 => cola'[n] > 0
      /\ cola'[m] > 0
  BY <1>1 DEF Morir, Publicado, TypeOK
<1>3. ASSUME doc.estado \in EnCamino, ObreroLaLleva(o, doc.estado)
      PROVE  EnManos(doc.estado)'
  <2>1. Turno(m.paso) <= Indice[doc.estado]
    <3>1. CASE obrero[o].pc = "publicar" /\ Turno(m.paso) < Indice[doc.estado]
      BY <1>1, <1>3, <3>1, TablaDeTurnos
    <3>2. CASE obrero[o].pc \in Actuando /\ obrero[o].mem.estado = doc.estado
      <4>1. doc.estado \in Entrada[m.paso]
        BY <3>2 DEF EntradaInv, Actuando
      <4>2. QED
        BY <1>1, <1>3, <4>1, TablaDeTurnos
    <3>3. QED
      BY <1>3, <3>1, <3>2 DEF ObreroLaLleva
  <2>2. doc' = doc
    BY DEF Morir
  <2>3. QED
    BY <1>1, <1>2, <2>1, <2>2 DEF EnManos, MensajeLaLleva
<1>4. /\ UNCHANGED <<doc, obj, peticion>>
      /\ \A x \in Obreros \ {o} : obrero'[x] = obrero[x]
  BY DEF Morir, TypeOK
<1>5. QED
  BY <1>2, <1>3, <1>4, LosDemasLaLlevan, LosMensajesQuedan

(* The commit of a task that succeeded: the document is in the state the   *)
(* task leaves, and in the hands of the worker, which has its successor to *)
(* publish, unless the state is the manager's.                             *)
LEMMA AvanceCompletar ==
    ASSUME TypeOK, EntradaInv, NEW o \in Obreros, Completar(o)
    PROVE  AlguienLaLleva'
<1> DEFINE paso == obrero[o].msg.paso
<1>1. /\ obrero[o].pc = "escribir"
      /\ doc' = Mover(ConResultado(doc, paso), obrero[o].mem, Salida[paso])
      /\ obrero' = [obrero EXCEPT
                       ![o].pc = IF paso = "finalize" THEN "decidir" ELSE "publicar",
                       ![o].mem = SinLeer]
  BY DEF Completar
<1>2. paso \in Pasos
  BY DEF TypeOK, Mensajes
<1>3. Salida[paso] # obrero[o].mem.estado
  BY <1>1, <1>2, TablaDeTurnos DEF EntradaInv
<1>4. doc'.estado = Salida[paso]
  BY <1>1, <1>3, ConResultadoTipo DEF Mover, TypeOK, Filas
<1>5. CASE paso = "finalize"
  BY <1>4, <1>5 DEF AlguienLaLleva, EstadosAsentados, Salida
<1>6. CASE paso # "finalize"
  <2>1. obrero'[o].pc = "publicar" /\ obrero'[o].msg = obrero[o].msg
    BY <1>1, <1>6 DEF TypeOK
  <2>2. Salida[paso] \in EnCamino
    BY <1>2, <1>6, TablaDeTurnos
  <2>3. Turno(paso) < Indice[Salida[paso]]
    BY <2>2, TablaDeTurnos DEF Turno
  <2>4. ObreroLaLleva(o, doc.estado)'
    BY <1>4, <2>1, <2>3 DEF ObreroLaLleva
  <2>5. QED
    BY <1>4, <2>2, <2>4 DEF AlguienLaLleva, EnManos
<1>7. QED
  BY <1>5, <1>6

(* A step that settles the document settles it.                            *)
LEMMA QuedaAsentado ==
    ASSUME doc'.estado \in EstadosAsentados PROVE AlguienLaLleva'
  BY DEF AlguienLaLleva

(* The commit of a task that failed: whoever had the document in hand had  *)
(* loaded its state, from which the failure may be written; a worker that  *)
(* loaded another state may find the move forbidden, and had nothing.      *)
LEMMA AvanceFracasar ==
    ASSUME TypeOK, EntradaInv, RechazaAlValidar, AlguienLaLleva,
           NEW o \in Obreros, Fracasar(o)
    PROVE  AlguienLaLleva'
<1> DEFINE mem == obrero[o].mem
           nuevo == IF obrero[o].res = "rechazo" THEN "RECHAZADO" ELSE "ERROR"
<1>1. /\ obrero[o].pc = "escribir"
      /\ doc' = MarcarFallo(doc, mem, nuevo)
      /\ UNCHANGED <<obj, cola, peticion>>
      /\ \A x \in Obreros \ {o} : obrero'[x] = obrero[x]
  BY DEF Fracasar, TypeOK
<1>2. doc'.cuar = doc.cuar /\ doc'.estado \in {doc.estado, nuevo}
  BY <1>1 DEF MarcarFallo, Mover, TypeOK, Filas
<1>3. CASE doc'.estado = nuevo
  BY <1>3, QuedaAsentado DEF EstadosAsentados, DOCUMENT_TERMINAL_STATES
<1>4. CASE doc'.estado = doc.estado /\ doc'.estado # nuevo
  <2>1. ASSUME doc.estado \in EnCamino, ObreroLaLleva(o, doc.estado)
        PROVE  FALSE
    <3>1. mem.estado = doc.estado
      BY <1>1, <2>1 DEF ObreroLaLleva
    <3>2. mem.estado \in Entrada[obrero[o].msg.paso]
      BY <1>1 DEF EntradaInv
    <3>3. nuevo = "RECHAZADO" => mem.estado = "RECIBIDO"
      BY <1>1, <2>1, <3>1, <3>2 DEF RechazaAlValidar, Entrada, EnCamino
    <3>4. Permite(mem.estado, nuevo) /\ mem.estado # nuevo
      BY <2>1, <3>1, <3>3 DEF Permite, ALLOWED_TRANSITIONS, EnCamino
    <3>5. doc'.estado = nuevo
      BY <1>1, <3>4 DEF MarcarFallo, Mover, TypeOK, Filas
    <3>6. QED
      BY <1>4, <3>5
  <2>2. QED
    BY <1>1, <1>2, <1>4, <2>1, NoLaLlevaba
<1>5. QED
  BY <1>2, <1>3, <1>4

(* The commit of an infected verdict settles the document.                 *)
LEMMA AvanceInfectar ==
    ASSUME TypeOK, EntradaInv, NEW o \in Obreros, Infectar(o)
    PROVE  AlguienLaLleva'
<1>1. /\ obrero[o].pc = "escribir"
      /\ doc' = Mover([doc EXCEPT !.cuar = FALSE], obrero[o].mem, "INFECTADO")
  BY DEF Infectar
<1>2. obrero[o].mem.estado # "INFECTADO"
  <2>1. obrero[o].msg.paso \in Pasos
    BY DEF TypeOK, Mensajes
  <2>2. \A paso \in Pasos : "INFECTADO" \notin Entrada[paso]
    BY PasosExplicitos DEF Entrada
  <2>3. QED
    BY <1>1, <2>1, <2>2 DEF EntradaInv
<1>3. doc'.estado = "INFECTADO"
  BY <1>1, <1>2 DEF Mover, TypeOK, Filas
<1>4. QED
  BY <1>3, QuedaAsentado DEF EstadosAsentados, DOCUMENT_TERMINAL_STATES

(* The end of a task: the automatic approval settles the document or       *)
(* leaves the row alone, and what is acknowledged was in nobody's hands.   *)
LEMMA AvanceCerrar ==
    ASSUME TypeOK, AlguienLaLleva, NEW o \in Obreros,
           Decidir(o) \/ AprobarSola(o) \/ Acusar(o)
    PROVE  AlguienLaLleva'
<1>1. /\ obrero[o].pc \in {"decidir", "aprobar", "acusar"}
      /\ UNCHANGED <<obj, cola, peticion>>
      /\ \A x \in Obreros \ {o} : obrero'[x] = obrero[x]
      /\ doc' \in {doc, Mover(doc, obrero[o].mem, "APROBADO")}
  BY DEF Decidir, AprobarSola, Acusar, En, Pasar, SoloObrero, TypeOK
<1>2. ~ObreroLaLleva(o, doc.estado)
  BY <1>1 DEF ObreroLaLleva, Actuando
<1>3. doc' = doc \/ doc'.estado = "APROBADO"
  BY <1>1 DEF Mover, TypeOK, Filas
<1>4. CASE doc' = doc
  BY <1>1, <1>2, <1>4, NoLaLlevaba
<1>5. CASE doc'.estado = "APROBADO"
  BY <1>5, QuedaAsentado DEF EstadosAsentados
<1>6. QED
  BY <1>3, <1>4, <1>5

(* No step of a worker leaves the document halfway.                        *)
LEMMA AvanceDelObrero ==
    ASSUME TypeOK, EntradaInv, AvanceInv, NadieSueltaElMensaje,
           NEW o \in Obreros, PasoObrero(o)
    PROVE  AlguienLaLleva'
<1> USE DEF AvanceInv
<1>1. CASE Tomar(o)
  BY <1>1, AvanceTomar
<1>2. CASE \/ ValidarFichero(o) \/ Analizar(o) \/ AnalisisFallido(o)
           \/ DestruirInfectado(o) \/ Copiar(o) \/ Verificar(o)
           \/ RetirarCuarentena(o) \/ ExtraerTexto(o) \/ ExtraerDatos(o)
           \/ Normalizar(o)
  BY <1>2, AvanceActuar
<1>3. CASE ReintentarAnalisis(o)
  BY <1>3, AvanceReintentar
<1>4. CASE Completar(o)
  BY <1>4, AvanceCompletar
<1>5. CASE Fracasar(o)
  BY <1>5, AvanceFracasar
<1>6. CASE Infectar(o)
  BY <1>6, AvanceInfectar
<1>7. CASE Decidir(o) \/ AprobarSola(o) \/ Acusar(o)
  BY <1>7, AvanceCerrar
<1>8. CASE Publicar(o)
  BY <1>8, AvancePublicar
<1>9. CASE Morir(o)
  BY <1>9, AvanceMorir
<1>10. CASE Vencer(o)
  BY <1>10 DEF Vencer, NadieSueltaElMensaje
<1>11. QED
  BY <1>1, <1>2, <1>3, <1>4, <1>5, <1>6, <1>7, <1>8, <1>9, <1>10
     DEF PasoObrero, AvanceObrero

(* No step brings the quarantine copy of the row back, so what a worker    *)
(* loaded without one stays right; and only validate turns a file down.    *)
LEMMA LecturasDelObrero ==
    ASSUME TypeOK, SinCopiaParaTodos, RechazaAlValidar,
           NEW o \in Obreros, PasoObrero(o)
    PROVE  SinCopiaParaTodos' /\ RechazaAlValidar'
<1> USE DEF Actuando
<1>1. ASSUME doc'.cuar => doc.cuar,
             \A x \in Obreros \ {o} : obrero'[x] = obrero[x],
             obrero'[o].pc \in Actuando => \/ obrero'[o].mem = Leida
                                           \/ /\ obrero'[o].mem = obrero[o].mem
                                              /\ obrero[o].pc \in Actuando,
             obrero'[o].pc = "escribir" /\ obrero'[o].res = "rechazo"
                => obrero'[o].msg.paso = "validate"
      PROVE  SinCopiaParaTodos' /\ RechazaAlValidar'
  <2>1. ASSUME NEW x \in Obreros, obrero'[x].pc \in Actuando, ~obrero'[x].mem.cuar
        PROVE  ~doc'.cuar
    <3>1. CASE x = o
      BY <1>1, <2>1, <3>1 DEF SinCopiaParaTodos, Leida
    <3>2. CASE x # o
      BY <1>1, <2>1, <3>2 DEF SinCopiaParaTodos
    <3>3. QED
      BY <3>1, <3>2
  <2>2. RechazaAlValidar'
    BY <1>1 DEF RechazaAlValidar
  <2>3. QED
    BY <2>1, <2>2 DEF SinCopiaParaTodos
<1>2. CASE Tomar(o)
  <2>1. \A m \in Mensajes : m.paso \in Pasos
    BY DEF Mensajes
  <2>2. QED
    BY <1>1, <1>2 DEF Tomar, TypeOK
<1>3. CASE \/ ValidarFichero(o) \/ Analizar(o) \/ AnalisisFallido(o)
           \/ DestruirInfectado(o) \/ Copiar(o) \/ Verificar(o)
           \/ RetirarCuarentena(o) \/ ExtraerTexto(o) \/ ExtraerDatos(o)
           \/ Normalizar(o) \/ ReintentarAnalisis(o) \/ Publicar(o)
  <2>1. doc' = doc /\ \E pc, res : /\ Pasar(o, pc, res)
                                   /\ pc \in Actuando => obrero[o].pc \in Actuando
                                   /\ res = "rechazo" => obrero[o].msg.paso = "validate"
    BY <1>3 DEF ValidarFichero, Analizar, AnalisisFallido, DestruirInfectado,
       Copiar, Verificar, RetirarCuarentena, ExtraerTexto, ExtraerDatos,
       Normalizar, ReintentarAnalisis, Publicar, En, SoloObrero
  <2>2. QED
    BY <1>1, <2>1 DEF Pasar, TypeOK
<1>4. CASE Completar(o) \/ Fracasar(o) \/ Infectar(o) \/ AprobarSola(o)
  <2>1. doc'.cuar => doc.cuar
    <3>1. CASE Completar(o)
      BY <3>1 DEF Completar, ConResultado, Mover, TypeOK, Filas
    <3>2. CASE Fracasar(o)
      BY <3>2 DEF Fracasar, MarcarFallo, Mover, TypeOK, Filas
    <3>3. CASE Infectar(o) \/ AprobarSola(o)
      BY <3>3 DEF Infectar, AprobarSola, Mover, TypeOK, Filas
    <3>4. QED
      BY <1>4, <3>1, <3>2, <3>3
  <2>2. /\ obrero'[o].pc \notin Actuando
        /\ \A x \in Obreros \ {o} : obrero'[x] = obrero[x]
    BY <1>4 DEF Completar, Fracasar, Infectar, AprobarSola, TypeOK
  <2>3. QED
    BY <1>1, <2>1, <2>2
<1>5. CASE Decidir(o) \/ Acusar(o) \/ Morir(o) \/ Vencer(o)
  <2>1. /\ doc' = doc /\ obrero'[o].pc \notin Actuando
        /\ \A x \in Obreros \ {o} : obrero'[x] = obrero[x]
    BY <1>5 DEF Decidir, Acusar, Morir, Vencer, En, Pasar, SoloObrero,
       ObreroLibre, TypeOK
  <2>2. QED
    BY <1>1, <2>1
<1>6. QED
  BY <1>2, <1>3, <1>4, <1>5 DEF PasoObrero, AvanceObrero

(* A step of a request that leaves the state of the row alone, and a       *)
(* request that was not about to publish: who had the document has it.     *)
LEMMA PeticionAjena ==
    ASSUME AlguienLaLleva, NEW p \in Peticiones, peticion[p].pc # "encolar",
           doc'.estado = doc.estado, doc'.cuar => doc.cuar, obj' = obj,
           UNCHANGED <<cola, obrero>>,
           \A q \in Peticiones \ {p} : peticion'[q] = peticion[q]
    PROVE  AlguienLaLleva'
<1>1. CASE doc.estado \in EstadosAsentados
  BY <1>1 DEF AlguienLaLleva
<1>2. CASE AnalisisPerdido
  BY <1>2 DEF AlguienLaLleva, AnalisisPerdido, AnalisisSinCopia
<1>3. CASE doc.estado \in EnCamino /\ EnManos(doc.estado)
  <2>1. EnManos(doc.estado)'
    BY <1>3 DEF EnManos, MensajeLaLleva, ObreroLaLleva, PeticionLaLleva
  <2>2. QED
    BY <1>3, <2>1 DEF AlguienLaLleva
<1>4. QED
  BY <1>1, <1>2, <1>3 DEF AlguienLaLleva

(* A rewind puts the document in the hands of its request, which has the   *)
(* chain to publish from there.                                            *)
LEMMA AvanceRebobinar ==
    ASSUME TypeOK, DestinosDePeticion, AlguienLaLleva,
           NEW p \in Peticiones, Rebobinar(p)
    PROVE  AlguienLaLleva'
<1> DEFINE q == peticion[p]
<1>1. /\ q.pc = "escribir" /\ EsReproceso(q.op)
      /\ doc' = [Mover(doc, q.mem, q.destino) EXCEPT !.err = @ /\ ~q.mem.err]
      /\ peticion' = [peticion EXCEPT ![p].pc = "encolar"]
      /\ UNCHANGED <<obj, cola, obrero>>
  BY DEF Rebobinar
<1>2. q.destino \in EnCamino
  BY <1>1 DEF DestinosDePeticion
<1>3. doc'.cuar = doc.cuar /\ doc'.estado \in {doc.estado, q.destino}
  BY <1>1 DEF Mover, TypeOK, Filas
<1>4. CASE doc'.estado = doc.estado
  BY <1>1, <1>3, <1>4, PeticionAjena DEF TypeOK
<1>5. CASE doc'.estado = q.destino
  <2>1. peticion'[p].pc = "encolar" /\ peticion'[p].destino = q.destino
    BY <1>1 DEF TypeOK
  <2>2. Turno(PasoDeReanudacion(q.destino)) <= Indice[q.destino]
    BY <1>2, TablaDeTurnos
  <2>3. PeticionLaLleva(p, doc.estado)'
    BY <1>5, <2>1, <2>2 DEF PeticionLaLleva
  <2>4. QED
    BY <1>2, <1>5, <2>3 DEF AlguienLaLleva, EnManos
<1>6. QED
  BY <1>3, <1>4, <1>5

(* Handing the chain to the broker, which takes it, puts the document in   *)
(* the hands of the message.                                               *)
LEMMA AvanceEncolar ==
    ASSUME TypeOK, AlguienLaLleva, NadieSueltaElMensaje, DestinosDePeticion,
           NEW p \in Peticiones, Encolar(p)
    PROVE  AlguienLaLleva'
<1> DEFINE paso == PasoDeReanudacion(peticion[p].destino)
           m == [paso |-> paso, reint |-> 0]
<1>1. /\ cola' = Publicado(m) /\ UNCHANGED <<doc, obj, obrero>>
      /\ \A q \in Peticiones \ {p} : peticion'[q] = peticion[q]
  BY DEF Encolar, NadieSueltaElMensaje, TypeOK
<1>2. m \in Mensajes
  <2>1. paso \in Pasos
    BY PasosExplicitos DEF PasoDeReanudacion, RESUME_FROM
  <2>2. QED
    BY <2>1, MaximosAssumption DEF Mensajes
<1>3. cola'[m] > 0 /\ \A n \in Mensajes : cola[n] > 0 => cola'[n] > 0
  BY <1>1, <1>2 DEF Publicado, TypeOK
<1>4. CASE doc.estado \in EstadosAsentados \/ AnalisisPerdido
  BY <1>1, <1>4 DEF AlguienLaLleva, AnalisisPerdido, AnalisisSinCopia
<1>5. CASE doc.estado \in EnCamino /\ EnManos(doc.estado)
  <2>1. MensajeLaLleva(doc.estado) \/ PeticionLaLleva(p, doc.estado)
           => MensajeLaLleva(doc.estado)'
    BY <1>1, <1>2, <1>3 DEF MensajeLaLleva, PeticionLaLleva
  <2>2. \A o \in Obreros :
           ObreroLaLleva(o, doc.estado) => ObreroLaLleva(o, doc.estado)'
    BY <1>1 DEF ObreroLaLleva
  <2>3. \A q \in Peticiones \ {p} :
           PeticionLaLleva(q, doc.estado) => PeticionLaLleva(q, doc.estado)'
    BY <1>1 DEF PeticionLaLleva
  <2>4. EnManos(doc.estado)'
    BY <1>5, <2>1, <2>2, <2>3 DEF EnManos
  <2>5. QED
    BY <1>1, <1>5, <2>4 DEF AlguienLaLleva
<1>6. QED
  BY <1>4, <1>5 DEF AlguienLaLleva

(* No step of a request leaves the document halfway, nor the request with  *)
(* a destination the chain does not go on from.                            *)
LEMMA AvanceDeLaPeticion ==
    ASSUME TypeOK, AvanceInv, NadieSueltaElMensaje,
           NEW p \in Peticiones, PasoPeticion(p)
    PROVE  AvanceInv'
<1> USE DEF AvanceInv
<1>1. doc'.cuar = doc.cuar /\ obrero' = obrero
  BY DEF PasoPeticion, AvancePeticion, PedirReproceso, PedirJuicio, PedirBorrado,
     Rebobinar, Encolar, Juzgar, Borrar, MorirWeb, Mover, TypeOK, Filas
<1>2. SinCopiaParaTodos' /\ RechazaAlValidar'
  BY <1>1 DEF SinCopiaParaTodos, RechazaAlValidar
<1>3. DestinosDePeticion'
  <2>1. CASE PedirReproceso(p)
    <3>1. PICK op, d :
             /\ EsReproceso(op) /\ d \in DestinosDeReproceso(op)
             /\ peticion' = [peticion EXCEPT ![p] =
                   [pc |-> "escribir", op |-> op, mem |-> Leida, destino |-> d]]
      BY <2>1 DEF PedirReproceso
    <3>2. d \in EnCamino /\ op \notin {"aprobar", "rechazar"}
      BY <3>1, DestinosEnCamino DEF EsReproceso
    <3>3. QED
      BY <3>1, <3>2 DEF DestinosDePeticion, TypeOK
  <2>2. CASE PedirJuicio(p)
    <3>1. PICK op \in {"aprobar", "rechazar"} :
             peticion' = [peticion EXCEPT ![p] =
                [pc |-> "escribir", op |-> op, mem |-> Leida,
                 destino |-> Juicio(op)]]
      BY <2>2 DEF PedirJuicio
    <3>2. Juicio(op) \in EstadosAsentados /\ ~EsReproceso(op)
      BY <3>1 DEF Juicio, EsReproceso, EstadosAsentados, DOCUMENT_TERMINAL_STATES
    <3>3. QED
      BY <3>1, <3>2 DEF DestinosDePeticion, TypeOK
  <2>3. CASE PedirBorrado(p)
    BY <2>3 DEF PedirBorrado, DestinosDePeticion, EsReproceso, TypeOK
  <2>4. CASE Rebobinar(p)
    BY <2>4 DEF Rebobinar, DestinosDePeticion, TypeOK
  <2>5. CASE Encolar(p) \/ Juzgar(p) \/ Borrar(p) \/ MorirWeb(p)
    <3>1. peticion' = [peticion EXCEPT ![p] = PeticionLibre]
      BY <2>5 DEF Encolar, Juzgar, Borrar, MorirWeb
    <3>2. QED
      BY <3>1 DEF PeticionLibre, DestinosDePeticion, TypeOK
  <2>6. QED
    BY <2>1, <2>2, <2>3, <2>4, <2>5 DEF PasoPeticion, AvancePeticion
<1>4. AlguienLaLleva'
  <2>1. CASE Rebobinar(p)
    BY <2>1, AvanceRebobinar
  <2>2. CASE Encolar(p)
    BY <2>2, AvanceEncolar
  <2>3. CASE MorirWeb(p)
    BY <2>3 DEF MorirWeb, NadieSueltaElMensaje
  <2>4. CASE \/ PedirReproceso(p) \/ PedirJuicio(p) \/ PedirBorrado(p)
             \/ Juzgar(p) \/ Borrar(p)
    <3>1. /\ peticion[p].pc # "encolar" /\ UNCHANGED <<obj, cola, obrero>>
          /\ \A q \in Peticiones \ {p} : peticion'[q] = peticion[q]
      BY <2>4 DEF PedirReproceso, PedirJuicio, PedirBorrado, Juzgar, Borrar, TypeOK
    <3>2. \/ doc'.estado = doc.estado
          \/ Juzgar(p) /\ doc'.estado = peticion[p].destino
      BY <2>4 DEF PedirReproceso, PedirJuicio, PedirBorrado, Juzgar, Borrar, Mover,
         TypeOK, Filas
    <3>3. CASE doc'.estado = doc.estado
      BY <1>1, <3>1, <3>3, PeticionAjena
    <3>4. CASE Juzgar(p) /\ doc'.estado = peticion[p].destino
      <4>1. doc'.estado \in EstadosAsentados
        BY <3>4 DEF Juzgar, DestinosDePeticion, EsReproceso
      <4>2. QED
        BY <4>1, QuedaAsentado
    <3>5. QED
      BY <3>2, <3>3, <3>4
  <2>5. QED
    BY <2>1, <2>2, <2>3, <2>4 DEF PasoPeticion, AvancePeticion
<1>5. QED
  BY <1>2, <1>3, <1>4

(* The upload leaves the document in the hands of its first message.       *)
LEMMA AvanceInicial ==
    ASSUME NadieSueltaElMensaje, Init
    PROVE  AvanceInv
<1>1. /\ doc = FilaNueva /\ PrimerMensaje \in Mensajes
      /\ cola = [m \in Mensajes |-> IF m = PrimerMensaje THEN 1 ELSE 0]
      /\ \A o \in Obreros : obrero[o].pc = "libre"
      /\ \A p \in Peticiones : peticion[p].pc = "libre"
  BY PrimerMensajeTipo
     DEF Init, NadieSueltaElMensaje, ObreroLibre, PeticionLibre
<1>2. cola[PrimerMensaje] = 1 /\ Turno(PrimerMensaje.paso) = Indice[doc.estado]
  <2>1. Turno("validate") = Indice["RECIBIDO"]
    BY IndicesExplicitos DEF Turno, Salida
  <2>2. QED
    BY <1>1, <2>1 DEF PrimerMensaje, FilaNueva
<1>3. doc.estado \in EnCamino /\ Indice[doc.estado] = 1
  BY <1>1, IndicesExplicitos DEF FilaNueva, EnCamino
<1>4. AlguienLaLleva
  BY <1>1, <1>2, <1>3 DEF AlguienLaLleva, EnManos, MensajeLaLleva
<1>5. QED
  BY <1>1, <1>4 DEF AvanceInv, SinCopiaParaTodos, RechazaAlValidar,
     DestinosDePeticion, Actuando

(* Somebody always has the document in hand, or it is settled, or it is    *)
(* validated and its scan was lost.                                        *)
THEOREM AvanceSiempre ==
    ASSUME NadieSueltaElMensaje
    PROVE  Spec => []AvanceInv
<1>1. Init => AvanceInv
  BY AvanceInicial
<1>2. Invariante /\ AvanceInv /\ [Next]_vars => AvanceInv'
  <2> SUFFICES ASSUME TypeOK, EntradaInv, AvanceInv, [Next]_vars
               PROVE  AvanceInv'
    BY DEF Invariante, LimpioInv
  <2>1. ASSUME NEW o \in Obreros, PasoObrero(o) PROVE AvanceInv'
    <3>1. AlguienLaLleva'
      BY <2>1, AvanceDelObrero
    <3>2. SinCopiaParaTodos' /\ RechazaAlValidar'
      BY <2>1, LecturasDelObrero DEF AvanceInv
    <3>3. peticion' = peticion
      BY <2>1 DEF PasoObrero, AvanceObrero, Tomar, ValidarFichero, Analizar,
         AnalisisFallido, ReintentarAnalisis, DestruirInfectado, Copiar, Verificar,
         RetirarCuarentena, ExtraerTexto, ExtraerDatos, Normalizar, Completar,
         Fracasar, Infectar, Decidir, AprobarSola, Publicar, Acusar, Morir, Vencer,
         SoloObrero
    <3>4. DestinosDePeticion'
      BY <3>3 DEF DestinosDePeticion, AvanceInv
    <3>5. QED
      BY <3>1, <3>2, <3>4 DEF AvanceInv
  <2>2. ASSUME NEW p \in Peticiones, PasoPeticion(p) PROVE AvanceInv'
    BY <2>2, AvanceDeLaPeticion
  <2>3. CASE UNCHANGED vars
    BY <2>3 DEF vars, AvanceInv, SinCopiaParaTodos, RechazaAlValidar,
       DestinosDePeticion, AlguienLaLleva, AnalisisPerdido, AnalisisSinCopia,
       EnManos, MensajeLaLleva, ObreroLaLleva, PeticionLaLleva
  <2>4. QED
    BY <2>1, <2>2, <2>3 DEF Next
<1>3. QED
  BY <1>1, <1>2, InvarianteSiempre, PTL DEF Spec

(* So when everybody rests and nothing is queued, the document is settled, *)
(* or is one whose scan was lost: whatever dies, fails or is asked for,    *)
(* and however many chains share the row, it is halfway in no other state. *)
THEOREM SoloSeCallaElAnalisis ==
    ASSUME NadieSueltaElMensaje
    PROVE  Spec => [](Reposo => Asentado \/ AnalisisPerdido)
<1>1. AvanceInv => (Reposo => Asentado \/ AnalisisPerdido)
  <2> SUFFICES ASSUME AlguienLaLleva, Reposo PROVE Asentado \/ AnalisisPerdido
    BY DEF AvanceInv
  <2>1. ~EnManos(doc.estado)
    BY DEF Reposo, EnManos, MensajeLaLleva, ObreroLaLleva, PeticionLaLleva,
       Actuando
  <2>2. QED
    BY <2>1 DEF AlguienLaLleva, Asentado, EstadosAsentados
<1>2. QED
  BY <1>1, AvanceSiempre, PTL

(* And while the store and the antivirus answer, only the copy that is     *)
(* gone, or that the row no longer names, leaves it there.                 *)
THEOREM NadieDejaNadaAMedias ==
    ASSUME NadieSueltaElMensaje, AnalisisFiable
    PROVE  Spec => []NadaAMedias
<1>1. (Reposo => Asentado \/ AnalisisPerdido) => NadaAMedias
  BY DEF NadaAMedias, AnalisisPerdido
<1>2. QED
  BY <1>1, SoloSeCallaElAnalisis, PTL

=============================================================================
