--------------------------- MODULE DocumentStates ---------------------------
(***************************************************************************)
(* The vocabulary of the document pipeline: the states of a document, the  *)
(* moves `document_service.transition` allows, the tasks of the Celery     *)
(* chain with the state each consumes and produces, and the rules that     *)
(* decide where a reprocess resumes.  Everything here is a constant-level  *)
(* operator; DocumentPipeline gives it processes and storage.              *)
(***************************************************************************)
EXTENDS Naturals, Sequences

(* The happy path, in order (DOCUMENT_PIPELINE_ORDER). *)
DOCUMENT_PIPELINE_ORDER ==
    <<"RECIBIDO", "VALIDADO", "ESCANEADO", "ALMACENADO", "TEXTO_EXTRAIDO",
      "CLASIFICADO", "EXTRAIDO", "NORMALIZADO", "PENDIENTE_REVISION",
      "REVISADO", "APROBADO">>

EnOrden == {DOCUMENT_PIPELINE_ORDER[i] : i \in 1..11}

Indice == [s \in EnOrden |->
              CHOOSE i \in 1..11 : DOCUMENT_PIPELINE_ORDER[i] = s]

DOCUMENT_TERMINAL_STATES == {"INFECTADO", "RECHAZADO", "DESCARTADO"}

DocumentProcessState == EnOrden \cup DOCUMENT_TERMINAL_STATES \cup {"ERROR"}

ALLOWED_TRANSITIONS ==
    [RECIBIDO       |-> {"VALIDADO", "RECHAZADO", "ERROR", "DESCARTADO"},
     VALIDADO       |-> {"ESCANEADO", "INFECTADO", "ERROR", "DESCARTADO"},
     ESCANEADO      |-> {"ALMACENADO", "ERROR", "DESCARTADO"},
     ALMACENADO     |-> {"TEXTO_EXTRAIDO", "ERROR", "DESCARTADO"},
     TEXTO_EXTRAIDO |-> {"CLASIFICADO", "ERROR", "DESCARTADO"},
     CLASIFICADO    |-> {"EXTRAIDO", "ERROR", "DESCARTADO"},
     EXTRAIDO       |-> {"NORMALIZADO", "ERROR", "DESCARTADO"},
     NORMALIZADO    |-> {"PENDIENTE_REVISION", "REVISADO", "ERROR",
                         "DESCARTADO"},
     PENDIENTE_REVISION |-> {"REVISADO", "APROBADO", "DESCARTADO", "ERROR"},
     REVISADO       |-> {"APROBADO", "PENDIENTE_REVISION", "DESCARTADO"},
     APROBADO       |-> {"PENDIENTE_REVISION", "DESCARTADO"},
     ERROR          |-> {"RECIBIDO", "VALIDADO", "ESCANEADO", "ALMACENADO",
                         "TEXTO_EXTRAIDO", "CLASIFICADO", "EXTRAIDO",
                         "NORMALIZADO", "DESCARTADO"},
     DESCARTADO     |-> {"PENDIENTE_REVISION", "REVISADO", "APROBADO"},
     INFECTADO      |-> {},
     RECHAZADO      |-> {}]

(* `transition` accepts a move to the same state (it returns at once) and  *)
(* the moves of the table; it raises InvalidTransition for the others.     *)
Permite(actual, nuevo) ==
    actual = nuevo \/ nuevo \in ALLOWED_TRANSITIONS[actual]

(* `_validar_retroceso`: what a rewind may do. *)
PermiteRetroceso(actual, nuevo) ==
    /\ actual \notin DOCUMENT_TERMINAL_STATES
    /\ nuevo \in EnOrden
    /\ \/ actual = "ERROR"
       \/ actual \in EnOrden /\ Indice[nuevo] < Indice[actual]

(***************************************************************************)
(* The chain.                                                              *)
(***************************************************************************)
PIPELINE == <<"validate", "scan", "store", "extract_text", "classify",
              "ai_extract", "normalize", "finalize">>

Pasos == {PIPELINE[i] : i \in 1..8}

(* The states from which a task acts instead of skipping (`_skip_unless`). *)
Entrada == [validate     |-> {"RECIBIDO", "ERROR"},
            scan         |-> {"VALIDADO"},
            store        |-> {"ESCANEADO"},
            extract_text |-> {"ALMACENADO"},
            classify     |-> {"TEXTO_EXTRAIDO"},
            ai_extract   |-> {"CLASIFICADO"},
            normalize    |-> {"EXTRAIDO"},
            finalize     |-> {"NORMALIZADO"}]

(* The state a task leaves when it succeeds. *)
Salida == [validate     |-> "VALIDADO",
           scan         |-> "ESCANEADO",
           store        |-> "ALMACENADO",
           extract_text |-> "TEXTO_EXTRAIDO",
           classify     |-> "CLASIFICADO",
           ai_extract   |-> "EXTRAIDO",
           normalize    |-> "NORMALIZADO",
           finalize     |-> "PENDIENTE_REVISION"]

(* The task the chain publishes next; the last one publishes nothing. *)
Siguiente == [validate |-> "scan", scan |-> "store", store |-> "extract_text",
              extract_text |-> "classify", classify |-> "ai_extract",
              ai_extract |-> "normalize", normalize |-> "finalize",
              finalize |-> "ninguno"]

RESUME_FROM == [RECIBIDO       |-> "validate",
                VALIDADO       |-> "scan",
                ESCANEADO      |-> "store",
                ALMACENADO     |-> "extract_text",
                TEXTO_EXTRAIDO |-> "classify",
                CLASIFICADO    |-> "ai_extract",
                EXTRAIDO       |-> "normalize",
                NORMALIZADO    |-> "finalize"]

(***************************************************************************)
(* Where a reprocess rewinds to.  Each is the SET of states the code may   *)
(* pick: empty when it raises a ConflictError, otherwise one state.        *)
(***************************************************************************)

(* The furthest of a set of reached states; RECIBIDO when there is none,   *)
(* because the upload itself records no transition.                        *)
MasLejano(alcanzados) ==
    {s \in (alcanzados \cap EnOrden) \cup {"RECIBIDO"} :
        \A t \in alcanzados \cap EnOrden : Indice[t] <= Indice[s]}

(* `_last_successful_state`, capped by _REPROCESS_CEILING. *)
_REPROCESS_CEILING == "CLASIFICADO"

(* Deliberate fault: one step too far, as if the step after the last one   *)
(* reached had been done as well.                                          *)
UnPasoDeMas(alcanzados) ==
    {DOCUMENT_PIPELINE_ORDER[Indice[s] + 1] :
        s \in {t \in MasLejano(alcanzados) : Indice[t] < 6}}

UltimoEstadoBueno(alcanzados) ==
    {IF Indice[s] > Indice[_REPROCESS_CEILING] THEN _REPROCESS_CEILING ELSE s :
        s \in MasLejano(alcanzados)}

(* Deliberate fault: a full reprocess that always goes back to the start.  *)
SiempreDesdeCuarentena(cuar, alm) == IF cuar \/ alm THEN {"RECIBIDO"} ELSE {}

(* `_earliest_replayable_state`: bounded by the copy the row still names.  *)
PrimerEstadoRepetible(cuar, alm) ==
    IF cuar THEN {"RECIBIDO"} ELSE IF alm THEN {"ALMACENADO"} ELSE {}
=============================================================================
