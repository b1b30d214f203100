------------------------------ MODULE BackupJobs ------------------------------
(***************************************************************************)
(* Full copies, restores and the retention purge, over the two stores they *)
(* share with everybody else: the table of documents and the object store. *)
(*                                                                         *)
(* A job is a row of its own, outside every copy.  The web asks for it,    *)
(* one worker runs it step by step while uploads and purges go on; the     *)
(* worker may die, and acks_late is off, so nobody runs the job again.     *)
(***************************************************************************)
EXTENDS Naturals, FiniteSets

CONSTANTS
    Trabajos,       \* bound: jobs ever asked for
    Docs,           \* bound: documents (content never changes under its key)
    Solicitudes     \* requests for a job served at once

ASSUME BackupAssumption == Trabajos \subseteq Nat \ {0}

VARIABLES
    filas,          \* where the committed row of each document says its original is
    objetos,        \* originals in the store, each in its bucket
    curso,          \* what is being done to the original of each, uncommitted
    trabajos,       \* the job rows, and how far the worker of each one is
    solicitud,      \* what each request for a job is doing
    guardadas,      \* copies people have kept
    solapadas,      \* two requests both found no job under way
    expuestas       \* documents caught between a job and the rest

varsCopias == <<filas, objetos, curso, trabajos, solicitud, guardadas, solapadas, expuestas>>

Cubos == {"documentos", "cuarentena"}

(* A row there is not, one whose original is gone for good, or its bucket. *)
Punteros == [Docs -> {"ninguna", "vacia"} \cup Cubos]
Objetos == Docs \X Cubos

Copia == [filas : Punteros, objetos : SUBSET Objetos, entera : BOOLEAN]
Vacia == [filas |-> [d \in Docs |-> "ninguna"], objetos |-> {}, entera |-> TRUE]
SinTrabajo == [tipo |-> "copia", estado |-> "nada", objeto |-> FALSE, copia |-> Vacia,
               paso |-> "fuera"]
Solicitud0 == [pc |-> "libre", t |-> 0, tipo |-> "copia", copia |-> Vacia, vista |-> FALSE]

TipoCopias ==
    /\ filas \in Punteros /\ objetos \subseteq Objetos /\ expuestas \subseteq Docs
    /\ curso \in [Docs -> {"libre", "subida", "copiada", "movida", "destruida", "purgada"}]
    /\ trabajos \in [Trabajos ->
          [tipo : {"copia", "restauracion"},
           estado : {"nada", "PENDIENTE", "EN_CURSO", "COMPLETADO", "ERROR"},
           objeto : BOOLEAN, copia : Copia,
           paso : {"fuera", "cola", "tablas", "objetos", "cuarentena", "limpiar", "muerto"}]]
    /\ solicitud \in [Solicitudes ->
          [pc : {"libre", "comprobada", "insertada", "guardada"}, t : Trabajos \cup {0},
           tipo : {"copia", "restauracion"}, copia : Copia, vista : BOOLEAN]]
    /\ guardadas \subseteq Copia
    /\ solapadas \in BOOLEAN

InitCopias ==
    /\ filas = [d \in Docs |-> "ninguna"] /\ objetos = {} /\ expuestas = {}
    /\ curso = [d \in Docs |-> "libre"]
    /\ trabajos = [t \in Trabajos |-> SinTrabajo]
    /\ solicitud = [p \in Solicitudes |-> Solicitud0]
    /\ guardadas = {}
    /\ solapadas = FALSE

activo(t) == trabajos[t].estado \in {"PENDIENTE", "EN_CURSO"}

descargable(t) ==
    trabajos[t].tipo = "copia" /\ trabajos[t].estado = "COMPLETADO" /\ trabajos[t].objeto

EnMarcha(tipo, paso) ==
    {t \in Trabajos : trabajos[t].tipo = tipo /\ trabajos[t].paso = paso}

(***************************************************************************)
(* The rest of the application, which no job stops.                        *)
(***************************************************************************)
Restaurando == {t \in Trabajos : trabajos[t].tipo = "restauracion"
                                 /\ trabajos[t].paso \in {"tablas", "objetos", "limpiar"}}

(* A copy has dumped a row that says d is in that bucket, and has not      *)
(* listed the bucket yet.                                                  *)
SinListar(d, cubo) ==
    \E t \in EnMarcha("copia", "objetos") \cup
             (IF cubo = "cuarentena" THEN EnMarcha("copia", "cuarentena") ELSE {}) :
        trabajos[t].copia.filas[d] = cubo

(* The original of d goes from one point to the next, in a transaction     *)
(* that knows of no job.                                                   *)
Obra(d, antes, despues) ==
    /\ curso[d] = antes
    /\ curso' = [curso EXCEPT ![d] = despues]
    /\ UNCHANGED <<trabajos, solicitud, guardadas, solapadas>>

Expone(d, si) ==
    expuestas' = IF si \/ Restaurando # {} THEN expuestas \cup {d} ELSE expuestas

(* An upload puts its bytes in quarantine and then commits its row.        *)
GuardarOriginal(d) ==
    /\ filas[d] = "ninguna" /\ \A cubo \in Cubos : <<d, cubo>> \notin objetos
    /\ Obra(d, "libre", "subida")
    /\ objetos' = objetos \cup {<<d, "cuarentena">>}
    /\ Expone(d, FALSE)
    /\ UNCHANGED filas

ConfirmarFila(d) ==
    /\ Obra(d, "subida", "libre")
    /\ filas' = [filas EXCEPT ![d] = "cuarentena"]
    /\ Expone(d, FALSE)
    /\ UNCHANGED objetos

(* A scanned file is copied to its place, read back, taken out of          *)
(* quarantine, and only then does its row follow.                          *)
EnCuarentena(d) == filas[d] = "cuarentena" /\ <<d, "cuarentena">> \in objetos

promote(d) ==
    /\ EnCuarentena(d)
    /\ Obra(d, "libre", "copiada")
    /\ objetos' = objetos \cup {<<d, "documentos">>}
    /\ Expone(d, FALSE)
    /\ UNCHANGED filas

BorrarDeCuarentena(d) ==
    /\ Obra(d, "copiada", "movida")
    /\ objetos' = objetos \ {<<d, "cuarentena">>}
    /\ Expone(d, SinListar(d, "cuarentena"))
    /\ UNCHANGED filas

(* A commit that finds no row of the document to write fails.              *)
store_document(d) ==
    /\ filas[d] # "ninguna"
    /\ Obra(d, "movida", "libre")
    /\ filas' = [filas EXCEPT ![d] = "documentos"]
    /\ Expone(d, FALSE)
    /\ UNCHANGED objetos

(* An infected file is destroyed at once, and its row says so after.       *)
scan_document(d) ==
    /\ EnCuarentena(d)
    /\ Obra(d, "libre", "destruida")
    /\ objetos' = objetos \ {<<d, "cuarentena">>}
    /\ Expone(d, SinListar(d, "cuarentena"))
    /\ UNCHANGED filas

ConfirmarInfectado(d) ==
    /\ filas[d] # "ninguna"
    /\ Obra(d, "destruida", "libre")
    /\ filas' = [filas EXCEPT ![d] = IF @ = "cuarentena" THEN "vacia" ELSE @]
    /\ Expone(d, FALSE)
    /\ UNCHANGED objetos

(* The transaction fails or its process dies: what it did to the store     *)
(* stays.  The bytes read back may be wrong, and are removed.              *)
PerderObra(d) ==
    \/ /\ Obra(d, "subida", "libre") /\ Expone(d, FALSE) /\ UNCHANGED <<filas, objetos>>
    \/ /\ Obra(d, "copiada", "libre")
       /\ objetos' \in {objetos, objetos \ {<<d, "documentos">>}}
       /\ Expone(d, SinListar(d, "documentos"))
       /\ UNCHANGED filas
    \/ /\ Obra(d, "movida", "libre") \/ Obra(d, "destruida", "libre")
       /\ Expone(d, TRUE)
       /\ UNCHANGED <<filas, objetos>>

(* apply_retention (not the dry run): it deletes one original after        *)
(* another and commits the rows once, at the end.                          *)
apply_retention(d) ==
    /\ filas[d] = "documentos"
    /\ Obra(d, "libre", "purgada")
    /\ objetos' = objetos \ {<<d, "documentos">>}
    /\ Expone(d, SinListar(d, "documentos"))
    /\ UNCHANGED filas

Purgadas == {d \in Docs : curso[d] = "purgada"}

TerminarPurga ==
    /\ Purgadas # {}
    /\ curso' = [d \in Docs |-> IF d \in Purgadas THEN "libre" ELSE curso[d]]
    /\ UNCHANGED <<objetos, trabajos, solicitud, guardadas, solapadas>>

ConfirmarPurga ==
    /\ TerminarPurga
    /\ \A d \in Purgadas : filas[d] # "ninguna"
    /\ filas' = [d \in Docs |-> IF d \in Purgadas /\ filas[d] = "documentos"
                               THEN "vacia" ELSE filas[d]]
    /\ UNCHANGED expuestas

(* The only commit fails, or the worker dies before it.                    *)
PerderPurga ==
    /\ TerminarPurga
    /\ expuestas' = expuestas \cup Purgadas
    /\ UNCHANGED filas

(***************************************************************************)
(* Asking for a job: what can be refused is refused first, then the row is *)
(* committed, and for a restore the uploaded ZIP is stored after that.     *)
(***************************************************************************)
_sin_otra_en_marcha == \A t \in Trabajos : ~activo(t)

Comprobar(p, tipo, c) ==
    /\ solicitud[p].pc = "libre"
    /\ _sin_otra_en_marcha
    /\ solicitud' = [solicitud EXCEPT ![p] =
          [pc |-> "comprobada", t |-> 0, tipo |-> tipo, copia |-> c, vista |-> FALSE]]
    /\ UNCHANGED <<filas, objetos, curso, trabajos, guardadas, solapadas, expuestas>>

solicitar_copia(p) == Comprobar(p, "copia", Vacia)

(* Any copy somebody kept, as it was or cut short on the way: its          *)
(* manifest and its passphrase are fine, the rest is looked at later.      *)
solicitar_restauracion(p) ==
    \E c \in guardadas, entera \in BOOLEAN :
        Comprobar(p, "restauracion", [c EXCEPT !.entera = entera])

_nuevo_trabajo(p) ==
    /\ solicitud[p].pc = "comprobada"
    /\ \E t \in Trabajos :
          /\ trabajos[t].estado = "nada"
          /\ \A u \in Trabajos : u < t => trabajos[u].estado # "nada"
          /\ trabajos' = [trabajos EXCEPT ![t] =
                [SinTrabajo EXCEPT !.estado = "PENDIENTE", !.tipo = solicitud[p].tipo]]
          /\ solicitud' = [q \in Solicitudes |->
                IF q = p
                THEN [solicitud[p] EXCEPT
                        !.t = t,
                        !.pc = IF solicitud[p].tipo = "copia" THEN "guardada" ELSE "insertada"]
                ELSE [solicitud[q] EXCEPT !.vista = @ \/ solicitud[q].pc = "comprobada"]]
    /\ solapadas' = (solapadas \/ solicitud[p].vista)
    /\ UNCHANGED <<filas, objetos, curso, guardadas, expuestas>>

GuardarZip(p) ==
    /\ solicitud[p].pc = "insertada"
    /\ trabajos' = [trabajos EXCEPT ![solicitud[p].t].objeto = TRUE,
                                    ![solicitud[p].t].copia = solicitud[p].copia]
    /\ solicitud' = [solicitud EXCEPT ![p].pc = "guardada"]
    /\ UNCHANGED <<filas, objetos, curso, guardadas, solapadas, expuestas>>

(* The store refuses the ZIP, or the web process dies: the row stays       *)
(* pending and nobody comes back for it.                                   *)
PerderSolicitud(p) ==
    /\ solicitud[p].pc \in {"insertada", "guardada"}
    /\ solicitud' = [solicitud EXCEPT ![p] = Solicitud0]
    /\ UNCHANGED <<filas, objetos, curso, trabajos, guardadas, solapadas, expuestas>>

(* The broker takes the task or the job is marked as failed.               *)
_despachar(p) ==
    /\ solicitud[p].pc = "guardada"
    /\ \/ trabajos' = [trabajos EXCEPT ![solicitud[p].t].paso = "cola"]
       \/ trabajos' = [trabajos EXCEPT ![solicitud[p].t].estado = "ERROR"]
    /\ solicitud' = [solicitud EXCEPT ![p] = Solicitud0]
    /\ UNCHANGED <<filas, objetos, curso, guardadas, solapadas, expuestas>>

(***************************************************************************)
(* The worker.  Only a pending job is started; an exception at any step    *)
(* rolls back what was not committed and marks the job.                    *)
(***************************************************************************)
_empezar(t) ==
    /\ trabajos[t].paso = "cola" /\ trabajos[t].estado = "PENDIENTE"
    /\ trabajos' = [trabajos EXCEPT ![t].estado = "EN_CURSO", ![t].paso = "tablas"]
    /\ UNCHANGED <<filas, objetos, curso, solicitud, guardadas, solapadas, expuestas>>

_terminar(t, trabajo) ==
    trabajos' = [trabajos EXCEPT ![t] = [trabajo EXCEPT !.estado = "COMPLETADO", !.paso = "fuera"]]

(* A truncated restore fails here too: every member is decrypted and       *)
(* counted before any is applied.                                          *)
_fallar(t) ==
    /\ trabajos[t].paso \in {"tablas", "objetos", "cuarentena", "limpiar"}
    /\ trabajos' = [trabajos EXCEPT ![t].estado = "ERROR", ![t].paso = "fuera"]
    /\ UNCHANGED <<filas, objetos, curso, solicitud, guardadas, solapadas, expuestas>>

(* The process is killed, the message already acknowledged: the row keeps  *)
(* saying the job is waiting or under way.                                 *)
MorirTrabajador(t) ==
    /\ trabajos[t].paso \in {"cola", "tablas", "objetos", "cuarentena", "limpiar"}
    /\ trabajos' = [trabajos EXCEPT ![t].paso = "muerto"]
    /\ UNCHANGED <<filas, objetos, curso, solicitud, guardadas, solapadas, expuestas>>

(* The rows first, then the documents, and the quarantine last.            *)
VolcarTablas(t) ==
    /\ t \in EnMarcha("copia", "tablas")
    /\ trabajos' = [trabajos EXCEPT ![t].copia.filas = filas, ![t].paso = "objetos"]
    /\ expuestas' = expuestas \cup {d \in Docs : curso[d] \in {"movida", "destruida", "purgada"}}
    /\ UNCHANGED <<filas, objetos, curso, solicitud, guardadas, solapadas>>

Listado(cubo) == objetos \cap (Docs \X {cubo})

(* A slip: the quarantine left out, what it holds being on its way.        *)
SoloDocumentos(c, cubo) ==
    [c EXCEPT !.objetos = IF cubo = "documentos" THEN @ \cup Listado(cubo) ELSE @]

_escribir_copia(c, cubo) == [c EXCEPT !.objetos = @ \cup Listado(cubo)]

VolcarDocumentos(t) ==
    /\ t \in EnMarcha("copia", "objetos")
    /\ trabajos' = [trabajos EXCEPT ![t].copia = _escribir_copia(@, "documentos"),
                                    ![t].paso = "cuarentena"]
    /\ UNCHANGED <<filas, objetos, curso, solicitud, guardadas, solapadas, expuestas>>

VolcarCuarentena(t) ==
    /\ t \in EnMarcha("copia", "cuarentena")
    /\ _terminar(t, [trabajos[t] EXCEPT !.copia = _escribir_copia(@, "cuarentena"),
                                        !.objeto = TRUE])
    /\ UNCHANGED <<filas, objetos, curso, solicitud, guardadas, solapadas, expuestas>>

_restaurar_objetos(c) == objetos \cup c.objetos

RestaurarObjetos(t) ==
    /\ t \in EnMarcha("restauracion", "tablas") /\ trabajos[t].copia.entera
    /\ objetos' = _restaurar_objetos(trabajos[t].copia)
    /\ trabajos' = [trabajos EXCEPT ![t].paso = "objetos"]
    /\ expuestas' = expuestas \cup {d \in Docs : curso[d] # "libre"}
    /\ UNCHANGED <<filas, curso, solicitud, guardadas, solapadas>>

(* Every table in one transaction.                                         *)
_restaurar_tablas(t) ==
    /\ t \in EnMarcha("restauracion", "objetos")
    /\ filas' = trabajos[t].copia.filas
    /\ trabajos' = [trabajos EXCEPT ![t].paso = "limpiar"]
    /\ UNCHANGED <<objetos, curso, solicitud, guardadas, solapadas, expuestas>>

_limpiar_objetos(t) ==
    /\ t \in EnMarcha("restauracion", "limpiar")
    /\ objetos' = objetos \cap trabajos[t].copia.objetos
    /\ _terminar(t, [trabajos[t] EXCEPT !.objeto = FALSE])
    /\ UNCHANGED <<filas, curso, solicitud, guardadas, solapadas, expuestas>>

(***************************************************************************)
(* Housekeeping.                                                           *)
(***************************************************************************)
descargar(t) ==
    /\ descargable(t)
    /\ guardadas' = guardadas \cup {trabajos[t].copia}
    /\ UNCHANGED <<filas, objetos, curso, trabajos, solicitud, solapadas, expuestas>>

eliminar(t) ==
    /\ trabajos[t].estado # "nada" /\ ~activo(t) /\ trabajos[t].objeto
    /\ trabajos' = [trabajos EXCEPT ![t].objeto = FALSE, ![t].copia = Vacia]
    /\ UNCHANGED <<filas, objetos, curso, solicitud, guardadas, solapadas, expuestas>>

NextCopias ==
    \/ \E d \in Docs :
          \/ GuardarOriginal(d)
          \/ ConfirmarFila(d)
          \/ promote(d)
          \/ BorrarDeCuarentena(d)
          \/ store_document(d)
          \/ scan_document(d)
          \/ ConfirmarInfectado(d)
          \/ PerderObra(d)
          \/ apply_retention(d)
    \/ ConfirmarPurga
    \/ PerderPurga
    \/ \E p \in Solicitudes :
          \/ solicitar_copia(p)
          \/ solicitar_restauracion(p)
          \/ _nuevo_trabajo(p)
          \/ GuardarZip(p)
          \/ PerderSolicitud(p)
          \/ _despachar(p)
    \/ \E t \in Trabajos :
          \/ _empezar(t)
          \/ _fallar(t)
          \/ MorirTrabajador(t)
          \/ VolcarTablas(t)
          \/ VolcarDocumentos(t)
          \/ VolcarCuarentena(t)
          \/ RestaurarObjetos(t)
          \/ _restaurar_tablas(t)
          \/ _limpiar_objetos(t)
          \/ descargar(t)
          \/ eliminar(t)

SpecCopias == InitCopias /\ [][NextCopias]_varsCopias

(***************************************************************************)
(* No document's row points at an original that is gone, at any step of a  *)
(* copy, of a restore (failed, killed or finished) or of a purge, and no   *)
(* finished copy would bring that back, except for the documents that were *)
(* overlapped: uploaded, promoted, destroyed or purged during a restore;   *)
(* promoted, destroyed or purged behind a copy that had already dumped the *)
(* row and had not listed the bucket (_escribir_copia, storage promote);   *)
(* or in a promotion or a purge that never committed.  Two jobs side by    *)
(* side (see UnTrabajoALaVez) are another matter.                          *)
(***************************************************************************)
ConOriginal(f, o, d) == f[d] \in Cubos => <<d, f[d]>> \in o

OriginalDeCadaFila ==
    ~solapadas => \A d \in Docs \ expuestas :
       /\ curso[d] \in {"libre", "subida", "copiada"} => ConOriginal(filas, objetos, d)
       /\ \A t \in Trabajos : descargable(t) =>
             ConOriginal(trabajos[t].copia.filas, trabajos[t].copia.objetos, d)

(***************************************************************************)
(* Copies and restores never run side by side, unless two requests looked  *)
(* at the jobs before either of them inserted its own.                     *)
(***************************************************************************)
UnTrabajoALaVez == solapadas \/ Cardinality({t \in Trabajos : activo(t)}) <= 1

(***************************************************************************)
(* What a copy is for: jobs one at a time, and no row without its original *)
(* now or in a copy that can be restored, but for the requests that looked *)
(* at the jobs at once.                                                    *)
(***************************************************************************)
RespaldoFiable ==
    /\ OriginalDeCadaFila
    /\ UnTrabajoALaVez
=============================================================================
