---------------------------- MODULE BackupProofs ----------------------------
(***************************************************************************)
(* Jobs run one at a time and no row is left without its original, now or  *)
(* in a copy that can be restored, for any documents, jobs and requests    *)
(* and any deaths of workers, restores and purges.                         *)
(*                                                                         *)
(* Neither half is inductive.  One job at a time needs to know that a      *)
(* request that found no job still finds none when it inserts its own.     *)
(* The originals need what each step of a job relies on until the next:    *)
(* between the dump of the rows and that of the objects, the objects of    *)
(* those rows, bucket by bucket; between putting the objects back and      *)
(* removing the others, those of the copy; and, all through a restore,     *)
(* that no upload, promotion, destruction or purge goes unnoticed.         *)
(***************************************************************************)
EXTENDS BackupJobs, SecretKeys,
        BackgroundProofs, AuditChainProofs, MCBackgroundJobs, FiniteSetTheorems, TLAPS

Corriendo == {"tablas", "objetos", "cuarentena", "limpiar"}
ConTrabajo == {"insertada", "guardada"}
Cursos == [Docs -> {"libre", "subida", "copiada", "movida", "destruida", "purgada"}]
Fichas == [tipo : {"copia", "restauracion"},
           estado : {"nada", "PENDIENTE", "EN_CURSO", "COMPLETADO", "ERROR"},
           objeto : BOOLEAN, copia : Copia,
           paso : {"fuera", "cola", "tablas", "objetos", "cuarentena", "limpiar", "muerto"}]

(* A job that runs is under way, and one a request holds waits for it.     *)
TrabajoEnOrden(t) ==
    /\ trabajos[t].paso = "cola" => trabajos[t].estado = "PENDIENTE"
    /\ trabajos[t].paso \in Corriendo => trabajos[t].estado = "EN_CURSO"

SolicitudEnOrden(p) ==
    solicitud[p].pc \in ConTrabajo =>
       /\ solicitud[p].t \in Trabajos
       /\ trabajos[solicitud[p].t].estado = "PENDIENTE"
       /\ trabajos[solicitud[p].t].paso = "fuera"
       /\ \A q \in Solicitudes \ {p} :
             solicitud[q].pc \in ConTrabajo => solicitud[q].t # solicitud[p].t

Formas ==
    /\ TipoCopias
    /\ \A t \in Trabajos : TrabajoEnOrden(t)
    /\ \A p \in Solicitudes : SolicitudEnOrden(p)

(* One job, and none for a request nobody has overtaken.                   *)
UnoSolo ==
    /\ \A t, u \in Trabajos : activo(t) /\ activo(u) => t = u
    /\ \A p \in Solicitudes :
          solicitud[p].pc = "comprobada" /\ ~solicitud[p].vista =>
             \A t \in Trabajos : ~activo(t)

(* Where the row of a document and its original are at each point of an    *)
(* upload, a promotion, a destruction and a purge.                         *)
EnSuPunto(d) ==
    /\ curso[d] = "libre" => ConOriginal(filas, objetos, d)
    /\ curso[d] = "subida" => filas[d] = "ninguna"
    /\ curso[d] \in {"subida", "copiada"} => <<d, "cuarentena">> \in objetos
    /\ curso[d] \in {"copiada", "movida", "destruida"} => filas[d] = "cuarentena"
    /\ curso[d] \in {"copiada", "movida"} => <<d, "documentos">> \in objetos
    /\ curso[d] = "purgada" => filas[d] = "documentos"

(* What a job relies on, of a document, until its next step.               *)
DatosDe(t, d) ==
    LET c == trabajos[t].copia IN
    /\ trabajos[t].tipo = "restauracion" \/ trabajos[t].estado = "COMPLETADO" =>
          ConOriginal(c.filas, c.objetos, d)
    /\ trabajos[t].tipo = "copia" /\ trabajos[t].paso = "objetos" =>
          ConOriginal(c.filas, objetos, d)
    /\ trabajos[t].tipo = "copia" /\ trabajos[t].paso = "cuarentena" =>
          /\ c.filas[d] = "documentos" => <<d, "documentos">> \in c.objetos
          /\ c.filas[d] = "cuarentena" => <<d, "cuarentena">> \in objetos
    /\ trabajos[t].tipo = "restauracion" /\ trabajos[t].paso \in {"objetos", "limpiar"} =>
          curso[d] = "libre"
    /\ trabajos[t].tipo = "restauracion" /\ trabajos[t].paso = "objetos" =>
          \A cubo \in Cubos : <<d, cubo>> \in c.objetos => <<d, cubo>> \in objetos
    /\ trabajos[t].tipo = "restauracion" /\ trabajos[t].paso = "limpiar" =>
          ConOriginal(filas, c.objetos, d)

DeDocumento(d) ==
    /\ EnSuPunto(d)
    /\ \A c \in guardadas : ConOriginal(c.filas, c.objetos, d)
    /\ \A p \in Solicitudes : ConOriginal(solicitud[p].copia.filas, solicitud[p].copia.objetos, d)
    /\ \A t \in Trabajos : DatosDe(t, d)

Originales == \A d \in Docs \ expuestas : DeDocumento(d)

(* A copy whose rows have their originals in it.                           *)
Buena(c) == \A d \in Docs \ expuestas : ConOriginal(c.filas, c.objetos, d)

InvCopias == Formas /\ (~solapadas => UnoSolo /\ Originales)

-----------------------------------------------------------------------------
(* The copy of nothing.                                                    *)
LEMMA CopiaVacia ==
    Vacia \in Copia /\ \A d \in Docs : ConOriginal(Vacia.filas, Vacia.objetos, d)
BY DEF Vacia, Copia, Punteros, ConOriginal, Cubos

(* Nothing has been asked for.                                             *)
LEMMA CopiasAlPrincipio == InitCopias => InvCopias
<1> SUFFICES ASSUME InitCopias PROVE InvCopias
    OBVIOUS
<1> USE DEF InitCopias, SinTrabajo, Solicitud0, Vacia
<1>1. TipoCopias
    BY DEF TipoCopias, Copia, Punteros
<1>2. Formas
    BY <1>1 DEF Formas, TrabajoEnOrden, SolicitudEnOrden, Corriendo, ConTrabajo
<1>3. UnoSolo
    BY DEF UnoSolo, activo
<1>4. Originales
    BY DEF Originales, DeDocumento, EnSuPunto, DatosDe, ConOriginal, Cubos
<1> QED
    BY <1>2, <1>3, <1>4 DEF InvCopias

(* A job that runs has no other beside it.                                 *)
LEMMA NadieMasCorre ==
    ASSUME Formas, UnoSolo, NEW t \in Trabajos, NEW u \in Trabajos, u # t,
           trabajos[t].paso \in Corriendo
    PROVE  trabajos[u].paso \notin Corriendo
BY DEF Formas, TrabajoEnOrden, UnoSolo, activo

-----------------------------------------------------------------------------
(* What is done to the originals touches no job and no request.            *)
LEMMA LosTrabajosSiguen ==
    ASSUME InvCopias, UNCHANGED <<trabajos, solicitud, guardadas, solapadas>>,
           filas' \in Punteros, objetos' \subseteq Objetos, curso' \in Cursos,
           expuestas' \subseteq Docs
    PROVE  Formas' /\ (~solapadas' => UnoSolo')
BY DEF InvCopias, Formas, TipoCopias, TrabajoEnOrden, SolicitudEnOrden, UnoSolo, activo, Cursos

(* Nothing is known anew of a document that is not touched.                *)
LEMMA DocumentoQuieto ==
    ASSUME NEW d \in Docs, DeDocumento(d), UNCHANGED <<trabajos, solicitud, guardadas>>,
           filas'[d] = filas[d], curso'[d] = curso[d],
           \A cubo \in Cubos : <<d, cubo>> \in objetos' <=> <<d, cubo>> \in objetos
    PROVE  DeDocumento(d)'
<1>1. EnSuPunto(d)'
    BY DEF DeDocumento, EnSuPunto, ConOriginal, Cubos
<1>2. ASSUME NEW t \in Trabajos PROVE DatosDe(t, d)'
    BY DEF DeDocumento, DatosDe, ConOriginal, Cubos
<1> QED
    BY <1>1, <1>2 DEF DeDocumento

(* One that is touched and is not an exception: no restore runs, and no    *)
(* copy still counts on what is taken out of the store.                    *)
LEMMA DocumentoTocado ==
    ASSUME Formas, NEW d \in Docs, DeDocumento(d), EnSuPunto(d)', NEW si, Expone(d, si),
           d \notin expuestas', UNCHANGED <<trabajos, solicitud, guardadas>>,
           \A cubo \in Cubos : <<d, cubo>> \in objetos /\ <<d, cubo>> \notin objetos' =>
                                 ~SinListar(d, cubo)
    PROVE  DeDocumento(d)'
<1>1. Restaurando = {}
    BY DEF Expone
<1>2. ASSUME NEW t \in Trabajos PROVE DatosDe(t, d)'
    <2>1. ~(trabajos[t].tipo = "restauracion" /\ trabajos[t].paso \in {"objetos", "limpiar"})
        BY <1>1 DEF Restaurando
    <2>2. DatosDe(t, d)
        BY DEF DeDocumento
    <2>3. CASE trabajos[t].tipo = "copia" /\ trabajos[t].paso = "objetos"
        <3>1. \A cubo \in Cubos : trabajos[t].copia.filas[d] = cubo => SinListar(d, cubo)
            BY <2>3 DEF SinListar, EnMarcha
        <3> QED
            BY <2>2, <2>3, <3>1 DEF DatosDe, ConOriginal
    <2>4. CASE trabajos[t].tipo = "copia" /\ trabajos[t].paso = "cuarentena"
        <3>1. trabajos[t].copia.filas[d] = "cuarentena" => SinListar(d, "cuarentena")
            BY <2>4 DEF SinListar, EnMarcha
        <3> QED
            BY <2>2, <2>4, <3>1 DEF DatosDe, ConOriginal, Cubos
    <2> QED
        BY <2>1, <2>2, <2>3, <2>4 DEF DatosDe, ConOriginal
<1> QED
    BY <1>2 DEF DeDocumento

(* A step of what is being done to the original of d: what remains to be   *)
(* shown of each is where it leaves the row and the original.              *)
LEMMA AlObrar ==
    ASSUME InvCopias, NEW d \in Docs, NEW antes,
           NEW despues \in {"libre", "subida", "copiada", "movida", "destruida", "purgada"},
           Obra(d, antes, despues), NEW si, Expone(d, si),
           NEW f \in {"ninguna", "vacia"} \cup Cubos, filas' = [filas EXCEPT ![d] = f],
           objetos' \subseteq Objetos,
           \A e \in Docs \ {d}, cubo \in Cubos :
              <<e, cubo>> \in objetos' <=> <<e, cubo>> \in objetos,
           \A cubo \in Cubos : <<d, cubo>> \in objetos /\ <<d, cubo>> \notin objetos' /\ ~si =>
                                 ~SinListar(d, cubo),
           d \notin expuestas' /\ EnSuPunto(d) => EnSuPunto(d)'
    PROVE  InvCopias'
<1>0. filas \in Punteros /\ curso \in Cursos /\ expuestas \subseteq Docs /\ Formas
    BY DEF InvCopias, Formas, TipoCopias, Cursos
<1>1. /\ UNCHANGED <<trabajos, solicitud, guardadas, solapadas>>
      /\ curso' = [curso EXCEPT ![d] = despues]
    BY DEF Obra
<1>2. /\ expuestas \subseteq expuestas' /\ expuestas' \subseteq Docs
      /\ si => d \in expuestas'
    BY <1>0 DEF Expone
<1>3. filas' \in Punteros /\ curso' \in Cursos
    BY <1>0, <1>1 DEF Punteros, Cursos
<1>4. Formas' /\ (~solapadas' => UnoSolo')
    BY <1>1, <1>2, <1>3, LosTrabajosSiguen
<1>5. ASSUME ~solapadas PROVE Originales'
    <2> SUFFICES ASSUME NEW e \in Docs, e \notin expuestas' PROVE DeDocumento(e)'
        BY DEF Originales
    <2>1. DeDocumento(e)
        BY <1>2, <1>5 DEF InvCopias, Originales
    <2>2. CASE e = d
        <3>1. EnSuPunto(d)'
            BY <2>1, <2>2 DEF DeDocumento
        <3> QED
            BY <1>0, <1>1, <1>2, <2>1, <2>2, <3>1, DocumentoTocado
    <2>3. CASE e # d
        <3>1. filas'[e] = filas[e] /\ curso'[e] = curso[e]
            BY <1>0, <1>1, <2>3 DEF Punteros, Cursos
        <3> QED
            BY <1>1, <2>1, <2>3, <3>1, DocumentoQuieto
    <2> QED
        BY <2>2, <2>3
<1> QED
    BY <1>1, <1>4, <1>5 DEF InvCopias

(* The row and the marks of a document, by name.                           *)
LEMMA LoDeUnDocumento ==
    ASSUME InvCopias, NEW d \in Docs
    PROVE  /\ filas[d] \in {"ninguna", "vacia"} \cup Cubos /\ filas = [filas EXCEPT ![d] = filas[d]]
           /\ filas \in Punteros /\ curso \in Cursos /\ objetos \subseteq Objetos
           /\ <<d, "cuarentena">> \in Objetos /\ <<d, "documentos">> \in Objetos
BY DEF InvCopias, Formas, TipoCopias, Punteros, Cursos, Objetos, Cubos

(* An upload stores the original before its row: no row points at it yet.  *)
LEMMA AlSubir ==
    ASSUME InvCopias, NEW d \in Docs, GuardarOriginal(d) \/ ConfirmarFila(d)
    PROVE  InvCopias'
<1>1. CASE GuardarOriginal(d)
    <2>1. /\ Obra(d, "libre", "subida") /\ Expone(d, FALSE) /\ filas[d] = "ninguna"
          /\ objetos' = objetos \cup {<<d, "cuarentena">>} /\ filas' = filas
        BY <1>1 DEF GuardarOriginal
    <2>2. EnSuPunto(d)'
        BY <2>1, LoDeUnDocumento DEF EnSuPunto, Obra, Cursos
    <2> QED
        BY <2>1, <2>2, LoDeUnDocumento, AlObrar DEF Objetos
<1>2. CASE ConfirmarFila(d)
    <2>1. /\ Obra(d, "subida", "libre") /\ Expone(d, FALSE) /\ objetos' = objetos
          /\ filas' = [filas EXCEPT ![d] = "cuarentena"]
        BY <1>2 DEF ConfirmarFila
    <2>2. EnSuPunto(d) => EnSuPunto(d)'
        BY <2>1, LoDeUnDocumento DEF EnSuPunto, Obra, Cursos, Punteros, ConOriginal
    <2> QED
        BY <2>1, <2>2, LoDeUnDocumento, AlObrar DEF Cubos
<1> QED
    BY <1>1, <1>2

(* A promotion: the row follows an original that is in its new place.      *)
LEMMA AlPromover ==
    ASSUME InvCopias, NEW d \in Docs,
           promote(d) \/ BorrarDeCuarentena(d) \/ store_document(d)
    PROVE  InvCopias'
<1>1. CASE promote(d)
    <2>1. /\ Obra(d, "libre", "copiada") /\ Expone(d, FALSE) /\ filas' = filas
          /\ filas[d] = "cuarentena" /\ <<d, "cuarentena">> \in objetos
          /\ objetos' = objetos \cup {<<d, "documentos">>}
        BY <1>1 DEF promote, EnCuarentena
    <2>2. EnSuPunto(d)'
        BY <2>1, LoDeUnDocumento DEF EnSuPunto, Obra, Cursos
    <2> QED
        BY <2>1, <2>2, LoDeUnDocumento, AlObrar DEF Objetos
<1>2. CASE BorrarDeCuarentena(d)
    <2>1. /\ Obra(d, "copiada", "movida") /\ Expone(d, SinListar(d, "cuarentena"))
          /\ filas' = filas /\ objetos' = objetos \ {<<d, "cuarentena">>}
        BY <1>2 DEF BorrarDeCuarentena
    <2>2. EnSuPunto(d) => EnSuPunto(d)'
        BY <2>1, LoDeUnDocumento DEF EnSuPunto, Obra, Cursos
    <2> QED
        BY <2>1, <2>2, LoDeUnDocumento, AlObrar DEF Objetos
<1>3. CASE store_document(d)
    <2>1. /\ Obra(d, "movida", "libre") /\ Expone(d, FALSE) /\ objetos' = objetos
          /\ filas' = [filas EXCEPT ![d] = "documentos"]
        BY <1>3 DEF store_document
    <2>2. EnSuPunto(d) => EnSuPunto(d)'
        BY <2>1, LoDeUnDocumento DEF EnSuPunto, Obra, Cursos, Punteros, ConOriginal
    <2> QED
        BY <2>1, <2>2, LoDeUnDocumento, AlObrar DEF Cubos
<1> QED
    BY <1>1, <1>2, <1>3

(* The row of a destroyed file, once committed, points at nothing.         *)
LEMMA AlDestruir ==
    ASSUME InvCopias, NEW d \in Docs, scan_document(d) \/ ConfirmarInfectado(d)
    PROVE  InvCopias'
<1>1. CASE scan_document(d)
    <2>1. /\ Obra(d, "libre", "destruida") /\ Expone(d, SinListar(d, "cuarentena"))
          /\ filas' = filas /\ filas[d] = "cuarentena"
          /\ objetos' = objetos \ {<<d, "cuarentena">>}
        BY <1>1 DEF scan_document, EnCuarentena
    <2>2. EnSuPunto(d)'
        BY <2>1, LoDeUnDocumento DEF EnSuPunto, Obra, Cursos
    <2> QED
        BY <2>1, <2>2, LoDeUnDocumento, AlObrar DEF Objetos
<1>2. CASE ConfirmarInfectado(d)
    <2> DEFINE f == IF filas[d] = "cuarentena" THEN "vacia" ELSE filas[d]
    <2>1. /\ Obra(d, "destruida", "libre") /\ Expone(d, FALSE) /\ objetos' = objetos
          /\ filas' = [filas EXCEPT ![d] = f]
        BY <1>2, LoDeUnDocumento DEF ConfirmarInfectado, Punteros
    <2>2. f \in {"ninguna", "vacia"} \cup Cubos /\ (filas[d] = "cuarentena" => f = "vacia")
        BY LoDeUnDocumento
    <2> HIDE DEF f
    <2>3. EnSuPunto(d) => EnSuPunto(d)'
        BY <2>1, <2>2, LoDeUnDocumento
           DEF EnSuPunto, Obra, Cursos, Punteros, ConOriginal, Cubos
    <2> QED
        BY <2>1, <2>2, <2>3, LoDeUnDocumento, AlObrar
<1> QED
    BY <1>1, <1>2

(* A transaction that is lost leaves the row where it was.                 *)
LEMMA AlPerderObra ==
    ASSUME InvCopias, NEW d \in Docs, PerderObra(d)
    PROVE  InvCopias'
<1>1. CASE Obra(d, "subida", "libre") /\ Expone(d, FALSE) /\ UNCHANGED <<filas, objetos>>
    <2>1. EnSuPunto(d) => EnSuPunto(d)'
        BY <1>1, LoDeUnDocumento DEF EnSuPunto, Obra, Cursos, ConOriginal, Cubos
    <2> QED
        BY <1>1, <2>1, LoDeUnDocumento, AlObrar
<1>2. CASE /\ Obra(d, "copiada", "libre") /\ Expone(d, SinListar(d, "documentos"))
           /\ objetos' \in {objetos, objetos \ {<<d, "documentos">>}} /\ UNCHANGED filas
    <2>1. EnSuPunto(d) => EnSuPunto(d)'
        BY <1>2, LoDeUnDocumento DEF EnSuPunto, Obra, Cursos, ConOriginal, Cubos
    <2> QED
        BY <1>2, <2>1, LoDeUnDocumento, AlObrar DEF Objetos
<1>3. ASSUME NEW antes, Obra(d, antes, "libre"), Expone(d, TRUE), UNCHANGED <<filas, objetos>>
      PROVE  InvCopias'
    <2>1. d \in expuestas'
        BY <1>3 DEF Expone
    <2> QED
        BY <1>3, <2>1, LoDeUnDocumento, AlObrar
<1> QED
    BY <1>1, <1>2, <1>3 DEF PerderObra

(* Retention takes an original away: its row follows, or is an exception.  *)
LEMMA AlPurgar ==
    ASSUME InvCopias, NEW d \in Docs, apply_retention(d)
    PROVE  InvCopias'
<1>1. /\ Obra(d, "libre", "purgada") /\ Expone(d, SinListar(d, "documentos"))
      /\ filas' = filas /\ filas[d] = "documentos"
      /\ objetos' = objetos \ {<<d, "documentos">>}
    BY DEF apply_retention
<1>2. EnSuPunto(d)'
    BY <1>1, LoDeUnDocumento DEF EnSuPunto, Obra, Cursos
<1> QED
    BY <1>1, <1>2, LoDeUnDocumento, AlObrar DEF Objetos

(* The purge commits or is lost; the rows it exposed stay among the        *)
(* exceptions.                                                             *)
LEMMA AlCerrarPurga ==
    ASSUME InvCopias, ConfirmarPurga \/ PerderPurga
    PROVE  InvCopias'
<1>0. filas \in Punteros /\ curso \in Cursos /\ expuestas \subseteq Docs
      /\ objetos \subseteq Objetos /\ Purgadas \subseteq Docs
    BY DEF InvCopias, Formas, TipoCopias, Cursos, Purgadas
<1>1. /\ UNCHANGED <<objetos, trabajos, solicitud, guardadas, solapadas>>
      /\ curso' = [d \in Docs |-> IF d \in Purgadas THEN "libre" ELSE curso[d]]
    BY DEF ConfirmarPurga, PerderPurga, TerminarPurga
<1>2. /\ curso' \in Cursos /\ filas' \in Punteros
      /\ expuestas \subseteq expuestas' /\ expuestas' \subseteq Docs
    BY <1>0, <1>1 DEF ConfirmarPurga, PerderPurga, Cursos, Punteros
<1>3. Formas' /\ (~solapadas' => UnoSolo')
    BY <1>0, <1>1, <1>2, LosTrabajosSiguen
<1>4. ASSUME ~solapadas PROVE Originales'
    <2> SUFFICES ASSUME NEW d \in Docs, d \notin expuestas' PROVE DeDocumento(d)'
        BY DEF Originales
    <2>1. DeDocumento(d)
        BY <1>2, <1>4 DEF InvCopias, Originales
    <2>2. CASE d \notin Purgadas
        <3>1. filas'[d] = filas[d] /\ curso'[d] = curso[d]
            BY <1>1, <2>2 DEF ConfirmarPurga, PerderPurga
        <3> QED
            BY <1>1, <2>1, <3>1, DocumentoQuieto
    <2>3. CASE d \in Purgadas
        <3>1. ConfirmarPurga
            BY <2>3 DEF PerderPurga
        <3>2. curso[d] = "purgada" /\ filas[d] = "documentos" /\ curso'[d] = "libre"
              /\ filas'[d] = "vacia"
            BY <1>1, <2>1, <2>3, <3>1 DEF ConfirmarPurga, Purgadas, DeDocumento, EnSuPunto
        <3>3. EnSuPunto(d)'
            BY <3>2 DEF EnSuPunto, ConOriginal, Cubos
        <3>4. ASSUME NEW t \in Trabajos PROVE DatosDe(t, d)'
            <4>1. ~(trabajos[t].tipo = "restauracion" /\ trabajos[t].paso \in {"objetos", "limpiar"})
                BY <2>1, <3>2 DEF DeDocumento, DatosDe
            <4> QED
                BY <1>1, <2>1, <4>1 DEF DeDocumento, DatosDe, ConOriginal
        <3> QED
            BY <1>1, <2>1, <3>3, <3>4 DEF DeDocumento
    <2> QED
        BY <2>2, <2>3
<1> QED
    BY <1>1, <1>3, <1>4 DEF InvCopias

-----------------------------------------------------------------------------
(* A step of a job or of a request, that touches no original: what has to  *)
(* be shown is what the copies it moves and the job it works on know.      *)
LEMMA SoloLosTrabajos ==
    ASSUME Originales, expuestas \subseteq expuestas', UNCHANGED <<filas, objetos, curso>>,
           \A c \in guardadas' : c \in guardadas \/ Buena(c),
           \A p \in Solicitudes : \/ solicitud'[p].copia = solicitud[p].copia
                                  \/ Buena(solicitud'[p].copia),
           \A t \in Trabajos : \/ trabajos'[t] = trabajos[t]
                               \/ \A d \in Docs \ expuestas' : DatosDe(t, d)'
    PROVE  Originales'
<1> SUFFICES ASSUME NEW d \in Docs, d \notin expuestas' PROVE DeDocumento(d)'
    BY DEF Originales
<1>1. DeDocumento(d)
    BY DEF Originales
<1>2. EnSuPunto(d)'
    BY <1>1 DEF DeDocumento, EnSuPunto, ConOriginal
<1>3. \A c \in guardadas' : ConOriginal(c.filas, c.objetos, d)
    BY <1>1 DEF DeDocumento, Buena
<1>4. ASSUME NEW p \in Solicitudes
      PROVE  ConOriginal(solicitud'[p].copia.filas, solicitud'[p].copia.objetos, d)
    BY <1>1 DEF DeDocumento, Buena
<1>5. ASSUME NEW t \in Trabajos PROVE DatosDe(t, d)'
    <2>1. CASE trabajos'[t] = trabajos[t]
        BY <1>1, <2>1 DEF DeDocumento, DatosDe, ConOriginal
    <2> QED
        BY <2>1
<1>6. /\ \A c \in guardadas' : ConOriginal(c.filas, c.objetos, d)'
      /\ \A p \in Solicitudes : ConOriginal(solicitud[p].copia.filas, solicitud[p].copia.objetos, d)'
    BY <1>3, <1>4 DEF ConOriginal
<1> QED
    BY <1>2, <1>5, <1>6 DEF DeDocumento

-----------------------------------------------------------------------------
(* A request looks at the jobs.                                            *)
LEMMA AlComprobar ==
    ASSUME InvCopias, NEW p \in Solicitudes, NEW tipo \in {"copia", "restauracion"},
           NEW c \in Copia, ~solapadas => Buena(c), Comprobar(p, tipo, c)
    PROVE  InvCopias'
<1> USE DEF Comprobar, InvCopias
<1>1. TipoCopias'
    BY DEF Formas, TipoCopias
<1>2. Formas'
    BY <1>1 DEF Formas, TipoCopias, TrabajoEnOrden, SolicitudEnOrden, ConTrabajo
<1>3. ~solapadas' => UnoSolo'
    BY DEF UnoSolo, activo, _sin_otra_en_marcha, Formas, TipoCopias
<1>4. ~solapadas' => Originales'
    <2>1. \A q \in Solicitudes : \/ solicitud'[q].copia = solicitud[q].copia
                                 \/ ~solapadas => Buena(solicitud'[q].copia)
        BY DEF Formas, TipoCopias
    <2> QED
        BY <2>1, SoloLosTrabajos
<1> QED
    BY <1>2, <1>3, <1>4

(* It inserts its row: nobody has, if it has not been overtaken.           *)
LEMMA AlInsertarTrabajo ==
    ASSUME InvCopias, NEW p \in Solicitudes, _nuevo_trabajo(p)
    PROVE  InvCopias'
<1> USE DEF InvCopias
<1>0. solicitud[p].pc = "comprobada"
    BY DEF _nuevo_trabajo
<1>1. PICK t \in Trabajos :
         /\ trabajos[t].estado = "nada"
         /\ trabajos' = [trabajos EXCEPT ![t] =
               [SinTrabajo EXCEPT !.estado = "PENDIENTE", !.tipo = solicitud[p].tipo]]
         /\ solicitud' = [q \in Solicitudes |->
               IF q = p
               THEN [solicitud[p] EXCEPT
                       !.t = t,
                       !.pc = IF solicitud[p].tipo = "copia" THEN "guardada" ELSE "insertada"]
               ELSE [solicitud[q] EXCEPT !.vista = @ \/ solicitud[q].pc = "comprobada"]]
    BY DEF _nuevo_trabajo
<1>2. /\ solapadas' = (solapadas \/ solicitud[p].vista)
      /\ UNCHANGED <<filas, objetos, curso, guardadas, expuestas>>
    BY DEF _nuevo_trabajo
<1> DEFINE ficha == [SinTrabajo EXCEPT !.estado = "PENDIENTE", !.tipo = solicitud[p].tipo]
<1>3. /\ ficha \in Fichas /\ ficha.estado = "PENDIENTE" /\ ficha.paso = "fuera"
      /\ ficha.copia = Vacia
    BY CopiaVacia DEF Formas, TipoCopias, SinTrabajo, Fichas
<1>4. trabajos' = [trabajos EXCEPT ![t] = ficha]
    BY <1>1
<1> HIDE DEF ficha
<1>5. trabajos' \in [Trabajos -> Fichas] /\ trabajos'[t] = ficha
      /\ \A u \in Trabajos \ {t} : trabajos'[u] = trabajos[u]
    BY <1>3, <1>4 DEF Formas, TipoCopias, Fichas
<1>6. /\ solicitud'[p].pc \in ConTrabajo /\ solicitud'[p].t = t
      /\ solicitud'[p].copia = solicitud[p].copia
      /\ \A q \in Solicitudes \ {p} :
            /\ solicitud'[q].pc = solicitud[q].pc /\ solicitud'[q].t = solicitud[q].t
            /\ solicitud'[q].copia = solicitud[q].copia
            /\ solicitud[q].pc = "comprobada" => solicitud'[q].vista
    BY <1>1 DEF Formas, TipoCopias, ConTrabajo
<1>7. TipoCopias'
    <2>1. solicitud' \in [Solicitudes ->
              [pc : {"libre", "comprobada", "insertada", "guardada"}, t : Trabajos \cup {0},
               tipo : {"copia", "restauracion"}, copia : Copia, vista : BOOLEAN]]
        BY <1>1 DEF Formas, TipoCopias
    <2>2. solapadas' \in BOOLEAN
        BY <1>2 DEF Formas, TipoCopias
    <2> QED
        BY <2>1, <2>2, <1>2, <1>5 DEF Formas, TipoCopias, Fichas
<1>8. Formas'
    <2>1. \A u \in Trabajos : TrabajoEnOrden(u)'
        BY <1>3, <1>5 DEF Formas, TrabajoEnOrden, Corriendo
    <2>2. \A q \in Solicitudes : SolicitudEnOrden(q)'
        <3> SUFFICES ASSUME NEW q \in Solicitudes, solicitud'[q].pc \in ConTrabajo
                     PROVE  SolicitudEnOrden(q)'
            BY DEF SolicitudEnOrden
        <3>1. \A r \in Solicitudes \ {p} :
                 solicitud[r].pc \in ConTrabajo => solicitud[r].t \in Trabajos \ {t}
            BY <1>1 DEF Formas, SolicitudEnOrden
        <3>2. CASE q = p
            BY <1>3, <1>5, <1>6, <3>1, <3>2 DEF SolicitudEnOrden
        <3>3. CASE q # p
            <4>1. solicitud[q].pc \in ConTrabajo /\ SolicitudEnOrden(q)
                BY <1>6, <3>3 DEF Formas
            <4> QED
                BY <1>5, <1>6, <3>1, <3>3, <4>1 DEF SolicitudEnOrden
        <3> QED
            BY <3>2, <3>3
    <2> QED
        BY <1>7, <2>1, <2>2 DEF Formas
<1>9. ASSUME ~solapadas' PROVE UnoSolo'
    <2>1. ~solapadas /\ ~solicitud[p].vista
        BY <1>2, <1>9
    <2>2. \A u \in Trabajos : ~activo(u)
        BY <2>1, <1>0 DEF UnoSolo
    <2>3. \A u \in Trabajos \ {t} : ~activo(u)'
        BY <2>2, <1>5 DEF activo
    <2>4. \A q \in Solicitudes : ~(solicitud'[q].pc = "comprobada" /\ ~solicitud'[q].vista)
        BY <1>6 DEF ConTrabajo
    <2> QED
        BY <2>3, <2>4 DEF UnoSolo
<1>10. ASSUME ~solapadas' PROVE Originales'
    <2>1. Originales
        BY <1>2, <1>10
    <2>2. \A d \in Docs : DatosDe(t, d)'
        BY <1>3, <1>5 DEF DatosDe, ConOriginal, Vacia, Cubos
    <2>3. \A q \in Solicitudes : solicitud'[q].copia = solicitud[q].copia
        BY <1>6
    <2>4. \A u \in Trabajos : trabajos'[u] = trabajos[u] \/ u = t
        BY <1>5
    <2> QED
        BY <2>1, <2>2, <2>3, <2>4, <1>2, SoloLosTrabajos
<1> QED
    BY <1>8, <1>9, <1>10

(* A restore keeps its ZIP; a request is lost; or it hands its job over,   *)
(* or gives it up.                                                         *)
LEMMA AlEntregar ==
    ASSUME InvCopias, NEW p \in Solicitudes,
           GuardarZip(p) \/ PerderSolicitud(p) \/ _despachar(p)
    PROVE  InvCopias'
<1> USE DEF InvCopias
<1>0. solicitud[p].pc \in ConTrabajo
    BY DEF GuardarZip, PerderSolicitud, _despachar, ConTrabajo
<1>1. PICK t \in Trabajos :
         /\ t = solicitud[p].t
         /\ trabajos[t].estado = "PENDIENTE" /\ trabajos[t].paso = "fuera"
         /\ trabajos[t] \in Fichas
    BY <1>0 DEF Formas, SolicitudEnOrden, TipoCopias, Fichas
<1>2. \A q \in Solicitudes \ {p} : solicitud[q].pc \in ConTrabajo => solicitud[q].t # t
    BY <1>0, <1>1 DEF Formas, SolicitudEnOrden
<1>3. UNCHANGED <<filas, objetos, curso, guardadas, solapadas, expuestas>>
    BY DEF GuardarZip, PerderSolicitud, _despachar
<1>4. PICK ficha \in Fichas :
         /\ trabajos' = [trabajos EXCEPT ![t] = ficha]
         /\ ficha.tipo = trabajos[t].tipo
         /\ \/ ficha.estado = "PENDIENTE" /\ ficha.paso \in {"fuera", "cola"}
            \/ ficha.estado = "ERROR" /\ ficha.paso = "fuera"
         /\ ficha.copia \in {trabajos[t].copia, solicitud[p].copia}
         /\ solicitud'[p].pc \in ConTrabajo => ficha.estado = "PENDIENTE" /\ ficha.paso = "fuera"
    <2>1. CASE GuardarZip(p)
        <3> DEFINE g == [trabajos[t] EXCEPT !.objeto = TRUE, !.copia = solicitud[p].copia]
        <3>1. g \in Fichas /\ g.tipo = trabajos[t].tipo /\ g.estado = "PENDIENTE"
              /\ g.paso = "fuera" /\ g.copia = solicitud[p].copia
            BY <1>1 DEF Formas, TipoCopias, Fichas
        <3>2. trabajos' = [trabajos EXCEPT ![t] = g]
            BY <2>1, <1>1 DEF GuardarZip, Formas, TipoCopias
        <3> QED
            BY <3>1, <3>2
    <2>2. CASE PerderSolicitud(p)
        <3>1. trabajos' = [trabajos EXCEPT ![t] = trabajos[t]]
            BY <2>2, <1>1 DEF PerderSolicitud, Formas, TipoCopias
        <3> QED
            BY <3>1, <1>1
    <2>3. CASE _despachar(p)
        <3> DEFINE g == [trabajos[t] EXCEPT !.paso = "cola"]
                   h == [trabajos[t] EXCEPT !.estado = "ERROR"]
        <3>1. g \in Fichas /\ g.tipo = trabajos[t].tipo /\ g.estado = "PENDIENTE"
              /\ g.paso = "cola" /\ g.copia = trabajos[t].copia
            BY <1>1 DEF Fichas
        <3>2. h \in Fichas /\ h.tipo = trabajos[t].tipo /\ h.estado = "ERROR"
              /\ h.paso = "fuera" /\ h.copia = trabajos[t].copia
            BY <1>1 DEF Fichas
        <3>3. trabajos' = [trabajos EXCEPT ![t] = g] \/ trabajos' = [trabajos EXCEPT ![t] = h]
            BY <2>3, <1>1 DEF _despachar, Formas, TipoCopias
        <3>4. solicitud'[p].pc \notin ConTrabajo
            BY <2>3 DEF _despachar, Formas, TipoCopias, Solicitud0, ConTrabajo
        <3> HIDE DEF g, h
        <3> QED
            BY <3>1, <3>2, <3>3, <3>4
    <2> QED
        BY <2>1, <2>2, <2>3
<1>5. /\ solicitud'[p].t = t \/ solicitud'[p].pc \notin ConTrabajo
      /\ solicitud'[p].pc # "comprobada"
      /\ solicitud'[p].copia = solicitud[p].copia \/ solicitud'[p].copia = Vacia
      /\ \A q \in Solicitudes \ {p} : solicitud'[q] = solicitud[q]
      /\ solicitud' \in [Solicitudes ->
              [pc : {"libre", "comprobada", "insertada", "guardada"}, t : Trabajos \cup {0},
               tipo : {"copia", "restauracion"}, copia : Copia, vista : BOOLEAN]]
    <2>0. solicitud[p] \in [pc : {"libre", "comprobada", "insertada", "guardada"},
               t : Trabajos \cup {0}, tipo : {"copia", "restauracion"}, copia : Copia,
               vista : BOOLEAN]
        BY DEF Formas, TipoCopias
    <2>1. CASE GuardarZip(p)
        <3>1. solicitud' = [solicitud EXCEPT ![p].pc = "guardada"]
            BY <2>1 DEF GuardarZip
        <3> QED
            BY <2>0, <3>1, <1>1 DEF Formas, TipoCopias, ConTrabajo
    <2>2. CASE PerderSolicitud(p) \/ _despachar(p)
        <3>1. solicitud' = [solicitud EXCEPT ![p] = Solicitud0]
            BY <2>2 DEF PerderSolicitud, _despachar
        <3>2. /\ Solicitud0 \in [pc : {"libre", "comprobada", "insertada", "guardada"},
                    t : Trabajos \cup {0}, tipo : {"copia", "restauracion"}, copia : Copia,
                    vista : BOOLEAN]
              /\ Solicitud0.pc = "libre" /\ Solicitud0.copia = Vacia
            BY CopiaVacia DEF Solicitud0
        <3> QED
            BY <3>1, <3>2 DEF Formas, TipoCopias, ConTrabajo
    <2> QED
        BY <2>1, <2>2
<1>6. /\ trabajos' \in [Trabajos -> Fichas] /\ trabajos'[t] = ficha
      /\ \A u \in Trabajos \ {t} : trabajos'[u] = trabajos[u]
    BY <1>1, <1>4 DEF Formas, TipoCopias, Fichas
<1>7. Formas'
    <2>1. TipoCopias'
        BY <1>3, <1>5, <1>6 DEF Formas, TipoCopias, Fichas
    <2>2. \A u \in Trabajos : TrabajoEnOrden(u)'
        BY <1>4, <1>6 DEF Formas, TrabajoEnOrden, Corriendo
    <2>3. \A q \in Solicitudes : SolicitudEnOrden(q)'
        <3> SUFFICES ASSUME NEW q \in Solicitudes, solicitud'[q].pc \in ConTrabajo
                     PROVE  SolicitudEnOrden(q)'
            BY DEF SolicitudEnOrden
        <3>1. CASE q = p
            BY <1>1, <1>2, <1>4, <1>5, <1>6, <3>1 DEF SolicitudEnOrden
        <3>2. CASE q # p
            <4>1. solicitud[q].pc \in ConTrabajo /\ SolicitudEnOrden(q) /\ solicitud[q].t # t
                BY <1>2, <1>5, <3>2 DEF Formas
            <4> QED
                BY <1>5, <1>6, <3>2, <4>1 DEF SolicitudEnOrden
        <3> QED
            BY <3>1, <3>2
    <2> QED
        BY <2>1, <2>2, <2>3 DEF Formas
<1>8. ASSUME ~solapadas PROVE UnoSolo'
    <2>1. \A u \in Trabajos : activo(u)' => activo(u)
        BY <1>1, <1>4, <1>6 DEF activo
    <2> QED
        BY <1>5, <1>8, <2>1 DEF UnoSolo
<1>9. ASSUME ~solapadas PROVE Originales'
    <2>1. Originales
        BY <1>9
    <2>2. \A q \in Solicitudes : \/ solicitud'[q].copia = solicitud[q].copia
                                 \/ Buena(solicitud'[q].copia)
        BY <1>5 DEF Buena, Vacia, ConOriginal, Cubos
    <2>3. \A d \in Docs \ expuestas' : DatosDe(t, d)'
        BY <2>1, <1>1, <1>3, <1>4, <1>6 DEF Originales, DeDocumento, DatosDe, ConOriginal
    <2>4. \A u \in Trabajos : trabajos'[u] = trabajos[u] \/ u = t
        BY <1>6
    <2> QED
        BY <2>1, <2>2, <2>3, <2>4, <1>3, SoloLosTrabajos
<1> QED
    BY <1>3, <1>7, <1>8, <1>9

-----------------------------------------------------------------------------
(* What a worker, or who deletes a copy, may do to the row of a job.       *)
LEMMA CambiaUnTrabajo ==
    ASSUME InvCopias, NEW t \in Trabajos, NEW ficha \in Fichas,
           trabajos' = [trabajos EXCEPT ![t] = ficha],
           UNCHANGED <<solicitud, solapadas>>,
           trabajos[t].paso # "fuera" \/ ~activo(t),
           ficha.estado \in {"PENDIENTE", "EN_CURSO"} => activo(t),
           ficha.paso = "cola" => ficha.estado = "PENDIENTE",
           ficha.paso \in Corriendo => ficha.estado = "EN_CURSO",
           filas' \in Punteros, objetos' \subseteq Objetos, curso' = curso,
           expuestas' \subseteq Docs, guardadas' \subseteq Copia
    PROVE  /\ Formas' /\ (~solapadas' => UnoSolo')
           /\ trabajos'[t] = ficha
           /\ \A u \in Trabajos \ {t} : trabajos'[u] = trabajos[u]
<1> USE DEF InvCopias
<1>1. /\ trabajos' \in [Trabajos -> Fichas] /\ trabajos'[t] = ficha
      /\ \A u \in Trabajos \ {t} : trabajos'[u] = trabajos[u]
    BY DEF Formas, TipoCopias, Fichas
<1>2. TipoCopias'
    BY <1>1 DEF Formas, TipoCopias, Fichas
<1>3. \A u \in Trabajos : TrabajoEnOrden(u)'
    BY <1>1 DEF Formas, TrabajoEnOrden
<1>4. \A q \in Solicitudes : SolicitudEnOrden(q)'
    <2> SUFFICES ASSUME NEW q \in Solicitudes PROVE SolicitudEnOrden(q)'
        OBVIOUS
    <2>1. SolicitudEnOrden(q)
        BY DEF Formas
    <2>2. solicitud[q].pc \in ConTrabajo => solicitud[q].t # t
        BY <2>1 DEF SolicitudEnOrden, activo
    <2> QED
        BY <1>1, <2>1, <2>2 DEF SolicitudEnOrden
<1>5. ASSUME ~solapadas PROVE UnoSolo'
    <2>1. \A u \in Trabajos : activo(u)' => activo(u)
        BY <1>1 DEF activo
    <2> QED
        BY <1>5, <2>1 DEF UnoSolo
<1> QED
    BY <1>1, <1>2, <1>3, <1>4, <1>5 DEF Formas

(* A job is taken, fails or dies: nothing it worked on moves.              *)
LEMMA AlSoltarTrabajo ==
    ASSUME InvCopias, NEW t \in Trabajos,
           _empezar(t) \/ _fallar(t) \/ MorirTrabajador(t) \/ eliminar(t)
    PROVE  InvCopias'
<1> USE DEF InvCopias
<1>1. trabajos[t] \in Fichas /\ TrabajoEnOrden(t)
    BY DEF Formas, TipoCopias, Fichas
<1>2. UNCHANGED <<filas, objetos, curso, solicitud, guardadas, solapadas, expuestas>>
    BY DEF _empezar, _fallar, MorirTrabajador, eliminar
<1>3. PICK ficha \in Fichas :
         /\ trabajos' = [trabajos EXCEPT ![t] = ficha]
         /\ trabajos[t].paso # "fuera" \/ ~activo(t)
         /\ ficha.estado \in {"PENDIENTE", "EN_CURSO"} => activo(t)
         /\ ficha.paso = "cola" => ficha.estado = "PENDIENTE"
         /\ ficha.paso \in Corriendo => ficha.estado = "EN_CURSO"
         /\ ficha.paso \notin {"objetos", "cuarentena", "limpiar"}
         /\ ficha.tipo = trabajos[t].tipo
         /\ ficha.estado = "COMPLETADO" => trabajos[t].estado = "COMPLETADO"
         /\ ficha.copia \in {trabajos[t].copia, Vacia}
    <2>1. CASE _empezar(t)
        <3> DEFINE g == [trabajos[t] EXCEPT !.estado = "EN_CURSO", !.paso = "tablas"]
        <3>1. g \in Fichas /\ g.estado = "EN_CURSO" /\ g.paso = "tablas"
              /\ g.tipo = trabajos[t].tipo /\ g.copia = trabajos[t].copia
            BY <1>1 DEF Fichas
        <3>2. trabajos' = [trabajos EXCEPT ![t] = g]
            BY <2>1 DEF _empezar, Formas, TipoCopias
        <3>3. activo(t) /\ trabajos[t].paso = "cola"
            BY <2>1 DEF _empezar, activo
        <3> HIDE DEF g
        <3> QED
            BY <3>1, <3>2, <3>3
    <2>2. CASE _fallar(t)
        <3> DEFINE g == [trabajos[t] EXCEPT !.estado = "ERROR", !.paso = "fuera"]
        <3>1. g \in Fichas /\ g.estado = "ERROR" /\ g.paso = "fuera"
              /\ g.tipo = trabajos[t].tipo /\ g.copia = trabajos[t].copia
            BY <1>1 DEF Fichas
        <3>2. trabajos' = [trabajos EXCEPT ![t] = g] /\ trabajos[t].paso # "fuera"
            BY <2>2 DEF _fallar, Formas, TipoCopias
        <3> HIDE DEF g
        <3> QED
            BY <3>1, <3>2 DEF Corriendo
    <2>3. CASE MorirTrabajador(t)
        <3> DEFINE g == [trabajos[t] EXCEPT !.paso = "muerto"]
        <3>1. g \in Fichas /\ g.estado = trabajos[t].estado /\ g.paso = "muerto"
              /\ g.tipo = trabajos[t].tipo /\ g.copia = trabajos[t].copia
            BY <1>1 DEF Fichas
        <3>2. trabajos' = [trabajos EXCEPT ![t] = g] /\ trabajos[t].paso # "fuera"
            BY <2>3 DEF MorirTrabajador, Formas, TipoCopias
        <3> HIDE DEF g
        <3> QED
            BY <3>1, <3>2 DEF Corriendo, activo
    <2>4. CASE eliminar(t)
        <3> DEFINE g == [trabajos[t] EXCEPT !.objeto = FALSE, !.copia = Vacia]
        <3>1. g \in Fichas /\ g.estado = trabajos[t].estado /\ g.paso = trabajos[t].paso
              /\ g.tipo = trabajos[t].tipo /\ g.copia = Vacia
            BY <1>1, CopiaVacia DEF Fichas
        <3>2. trabajos' = [trabajos EXCEPT ![t] = g] /\ ~activo(t)
            BY <2>4 DEF eliminar, Formas, TipoCopias
        <3>3. trabajos[t].paso \notin Corriendo \cup {"cola"}
            BY <3>2, <1>1 DEF TrabajoEnOrden, activo
        <3> HIDE DEF g
        <3> QED
            BY <3>1, <3>2, <3>3 DEF Corriendo, activo
    <2> QED
        BY <2>1, <2>2, <2>3, <2>4
<1>4. /\ Formas' /\ (~solapadas' => UnoSolo')
      /\ trabajos'[t] = ficha /\ \A u \in Trabajos \ {t} : trabajos'[u] = trabajos[u]
    BY <1>2, <1>3, CambiaUnTrabajo DEF Formas, TipoCopias
<1>5. ASSUME ~solapadas PROVE Originales'
    <2>1. Originales
        BY <1>5
    <2>2. \A d \in Docs \ expuestas' : DatosDe(t, d)'
        BY <2>1, <1>2, <1>3, <1>4
           DEF Originales, DeDocumento, DatosDe, ConOriginal, Vacia, Cubos
    <2>3. \A u \in Trabajos : trabajos'[u] = trabajos[u] \/ u = t
        BY <1>4
    <2> QED
        BY <2>1, <2>2, <2>3, <1>2, SoloLosTrabajos
<1> QED
    BY <1>2, <1>4, <1>5

(* The rows are dumped: those without an original now are exposed.         *)
LEMMA AlVolcarTablas ==
    ASSUME InvCopias, NEW t \in Trabajos, VolcarTablas(t)
    PROVE  InvCopias'
<1> USE DEF InvCopias
<1>1. trabajos[t] \in Fichas /\ TrabajoEnOrden(t) /\ trabajos[t].tipo = "copia"
      /\ trabajos[t].paso = "tablas"
    BY DEF Formas, TipoCopias, Fichas, VolcarTablas, EnMarcha
<1>2. /\ UNCHANGED <<filas, objetos, curso, solicitud, guardadas, solapadas>>
      /\ expuestas' = expuestas \cup {d \in Docs : curso[d] \in {"movida", "destruida", "purgada"}}
    BY DEF VolcarTablas
<1> DEFINE g == [trabajos[t] EXCEPT !.copia = [trabajos[t].copia EXCEPT !.filas = filas],
                                    !.paso = "objetos"]
<1>3. g \in Fichas /\ g.estado = "EN_CURSO" /\ g.paso = "objetos" /\ g.tipo = "copia"
      /\ g.copia.filas = filas
    BY <1>1 DEF Fichas, Copia, TrabajoEnOrden, Corriendo, Formas, TipoCopias
<1>4. trabajos' = [trabajos EXCEPT ![t] = g]
    BY <1>1 DEF VolcarTablas, Formas, TipoCopias, Fichas, Copia
<1> HIDE DEF g
<1>5. activo(t) /\ trabajos[t].paso # "fuera"
    BY <1>1 DEF activo, TrabajoEnOrden, Corriendo
<1>6. /\ Formas' /\ (~solapadas' => UnoSolo')
      /\ trabajos'[t] = g /\ \A u \in Trabajos \ {t} : trabajos'[u] = trabajos[u]
    BY <1>2, <1>3, <1>4, <1>5, CambiaUnTrabajo DEF Formas, TipoCopias
<1>7. ASSUME ~solapadas PROVE Originales'
    <2>1. Originales
        BY <1>7
    <2>2. ASSUME NEW d \in Docs, d \notin expuestas' PROVE DatosDe(t, d)'
        <3>1. EnSuPunto(d) /\ curso[d] \in {"libre", "subida", "copiada"}
            BY <2>1, <2>2, <1>2, LoDeUnDocumento DEF Originales, DeDocumento, Cursos
        <3>2. ConOriginal(filas, objetos, d)
            BY <3>1 DEF EnSuPunto, ConOriginal, Cubos
        <3> QED
            BY <3>2, <1>2, <1>3, <1>6 DEF DatosDe, ConOriginal
    <2>3. \A u \in Trabajos : trabajos'[u] = trabajos[u] \/ u = t
        BY <1>6
    <2>4. \A d \in Docs \ expuestas' : DatosDe(t, d)'
        BY <2>2
    <2> QED
        BY <2>1, <2>3, <2>4, <1>2, SoloLosTrabajos
<1> QED
    BY <1>2, <1>6, <1>7

(* A bucket is listed: the originals of the rows are there, in the end.    *)
LEMMA AlVolcarObjetos ==
    ASSUME InvCopias, NEW t \in Trabajos, VolcarDocumentos(t) \/ VolcarCuarentena(t)
    PROVE  InvCopias'
<1> USE DEF InvCopias
<1>1. trabajos[t] \in Fichas /\ TrabajoEnOrden(t) /\ trabajos[t].tipo = "copia"
      /\ trabajos[t].copia \in Copia /\ objetos \subseteq Objetos
      /\ trabajos[t].paso \in {"objetos", "cuarentena"}
    BY DEF Formas, TipoCopias, Fichas, VolcarDocumentos, VolcarCuarentena, EnMarcha
<1>2. UNCHANGED <<filas, objetos, curso, solicitud, guardadas, solapadas, expuestas>>
    BY DEF VolcarDocumentos, VolcarCuarentena
<1>3. ASSUME NEW cubo \in Cubos
      PROVE  LET c == _escribir_copia(trabajos[t].copia, cubo) IN
             /\ c \in Copia /\ c.filas = trabajos[t].copia.filas
             /\ \A d \in Docs, l \in Cubos : <<d, l>> \in c.objetos <=>
                   \/ <<d, l>> \in trabajos[t].copia.objetos
                   \/ l = cubo /\ <<d, l>> \in objetos
    BY <1>1 DEF _escribir_copia, Copia, Listado, Objetos
<1>4. PICK ficha \in Fichas :
         /\ trabajos' = [trabajos EXCEPT ![t] = ficha] /\ ficha.tipo = "copia"
         /\ \/ /\ trabajos[t].paso = "objetos" /\ ficha.estado = "EN_CURSO"
               /\ ficha.paso = "cuarentena"
               /\ ficha.copia = _escribir_copia(trabajos[t].copia, "documentos")
            \/ /\ trabajos[t].paso = "cuarentena" /\ ficha.estado = "COMPLETADO"
               /\ ficha.paso = "fuera"
               /\ ficha.copia = _escribir_copia(trabajos[t].copia, "cuarentena")
    <2>1. CASE VolcarDocumentos(t)
        <3> DEFINE g == [trabajos[t] EXCEPT !.copia = _escribir_copia(@, "documentos"),
                                            !.paso = "cuarentena"]
        <3>1. g \in Fichas /\ g.estado = "EN_CURSO" /\ g.paso = "cuarentena"
              /\ g.tipo = "copia" /\ g.copia = _escribir_copia(trabajos[t].copia, "documentos")
              /\ trabajos[t].paso = "objetos"
            BY <2>1, <1>1, <1>3
               DEF Fichas, TrabajoEnOrden, Corriendo, VolcarDocumentos, EnMarcha, Cubos
        <3>2. trabajos' = [trabajos EXCEPT ![t] = g]
            BY <2>1, <1>1 DEF VolcarDocumentos, Formas, TipoCopias, Fichas
        <3> HIDE DEF g
        <3> QED
            BY <3>1, <3>2
    <2>2. CASE VolcarCuarentena(t)
        <3> DEFINE g == [[trabajos[t] EXCEPT !.copia = _escribir_copia(@, "cuarentena"),
                                             !.objeto = TRUE]
                            EXCEPT !.estado = "COMPLETADO", !.paso = "fuera"]
        <3>1. g \in Fichas /\ g.estado = "COMPLETADO" /\ g.paso = "fuera"
              /\ g.tipo = "copia" /\ g.copia = _escribir_copia(trabajos[t].copia, "cuarentena")
              /\ trabajos[t].paso = "cuarentena"
            BY <2>2, <1>1, <1>3 DEF Fichas, VolcarCuarentena, EnMarcha, Cubos
        <3>2. trabajos' = [trabajos EXCEPT ![t] = g]
            BY <2>2 DEF VolcarCuarentena, _terminar
        <3> HIDE DEF g
        <3> QED
            BY <3>1, <3>2
    <2> QED
        BY <2>1, <2>2
<1>5. /\ Formas' /\ (~solapadas' => UnoSolo')
      /\ trabajos'[t] = ficha /\ \A u \in Trabajos \ {t} : trabajos'[u] = trabajos[u]
    <2>1. activo(t) /\ trabajos[t].paso # "fuera"
        BY <1>1 DEF activo, TrabajoEnOrden, Corriendo
    <2> QED
        BY <1>2, <1>4, <2>1, CambiaUnTrabajo DEF Formas, TipoCopias, Corriendo
<1>6. ASSUME ~solapadas PROVE Originales'
    <2>1. Originales
        BY <1>6
    <2>2. ASSUME NEW d \in Docs, d \notin expuestas' PROVE DatosDe(t, d)'
        <3>1. DatosDe(t, d)
            BY <2>1, <2>2, <1>2 DEF Originales, DeDocumento
        <3>2. CASE trabajos[t].paso = "objetos"
            <4>1. /\ ficha.estado = "EN_CURSO" /\ ficha.paso = "cuarentena"
                  /\ ficha.copia = _escribir_copia(trabajos[t].copia, "documentos")
                BY <1>4, <3>2
            <4>2. /\ ficha.copia.filas = trabajos[t].copia.filas
                  /\ <<d, "documentos">> \in objetos => <<d, "documentos">> \in ficha.copia.objetos
                BY <1>3, <4>1 DEF Cubos
            <4> QED
                BY <1>1, <1>2, <1>4, <1>5, <3>1, <3>2, <4>1, <4>2 DEF DatosDe, ConOriginal, Cubos
        <3>3. CASE trabajos[t].paso = "cuarentena"
            <4>1. /\ ficha.estado = "COMPLETADO" /\ ficha.paso = "fuera"
                  /\ ficha.copia = _escribir_copia(trabajos[t].copia, "cuarentena")
                BY <1>4, <3>3
            <4>2. /\ ficha.copia.filas = trabajos[t].copia.filas
                  /\ <<d, "cuarentena">> \in objetos => <<d, "cuarentena">> \in ficha.copia.objetos
                  /\ <<d, "documentos">> \in trabajos[t].copia.objetos =>
                        <<d, "documentos">> \in ficha.copia.objetos
                BY <1>3, <4>1 DEF Cubos
            <4> QED
                BY <1>1, <1>2, <1>4, <1>5, <3>1, <3>3, <4>1, <4>2 DEF DatosDe, ConOriginal, Cubos
        <3> QED
            BY <1>1, <3>2, <3>3
    <2>3. \A u \in Trabajos : trabajos'[u] = trabajos[u] \/ u = t
        BY <1>5
    <2>4. \A d \in Docs \ expuestas' : DatosDe(t, d)'
        BY <2>2
    <2> QED
        BY <2>1, <2>3, <2>4, <1>2, SoloLosTrabajos
<1> QED
    BY <1>2, <1>5, <1>6

(* While a restore runs, the other jobs only keep the copies they have.    *)
LEMMA LosDemasSiguen ==
    ASSUME Formas, UnoSolo, NEW t \in Trabajos, trabajos[t].paso \in Corriendo,
           NEW u \in Trabajos, u # t, NEW d \in Docs, DatosDe(u, d), trabajos'[u] = trabajos[u]
    PROVE  DatosDe(u, d)'
<1>1. trabajos[u].paso \notin Corriendo
    BY NadieMasCorre
<1> QED
    BY <1>1 DEF DatosDe, ConOriginal, Corriendo

(* The row of the job of a restore, in each of its steps.                  *)
LEMMA AvanzaLaRestauracion ==
    ASSUME InvCopias, NEW t \in Trabajos,
           RestaurarObjetos(t) \/ _restaurar_tablas(t) \/ _limpiar_objetos(t)
    PROVE  /\ Formas' /\ (~solapadas' => UnoSolo')
           /\ trabajos[t].paso \in Corriendo /\ trabajos[t].copia \in Copia
           /\ trabajos[t].tipo = "restauracion" /\ trabajos'[t].tipo = "restauracion"
           /\ trabajos'[t].copia = trabajos[t].copia
           /\ \A u \in Trabajos \ {t} : trabajos'[u] = trabajos[u]
           /\ RestaurarObjetos(t) => trabajos'[t].paso = "objetos"
           /\ _restaurar_tablas(t) => trabajos[t].paso = "objetos" /\ trabajos'[t].paso = "limpiar"
           /\ _limpiar_objetos(t) => trabajos[t].paso = "limpiar" /\ trabajos'[t].paso = "fuera"
           /\ UNCHANGED <<curso, solicitud, guardadas, solapadas>>
<1> USE DEF InvCopias
<1>1. trabajos[t] \in Fichas /\ TrabajoEnOrden(t) /\ trabajos[t].tipo = "restauracion"
      /\ trabajos[t].paso \in Corriendo
    BY DEF Formas, TipoCopias, Fichas, RestaurarObjetos, _restaurar_tablas, _limpiar_objetos,
           EnMarcha, Corriendo
<1>2. activo(t) /\ trabajos[t].paso # "fuera" /\ trabajos[t].estado = "EN_CURSO"
      /\ trabajos[t].copia \in Copia
    BY <1>1 DEF activo, TrabajoEnOrden, Corriendo, Fichas
<1>3. /\ UNCHANGED <<curso, solicitud, guardadas, solapadas>>
      /\ filas' \in Punteros /\ objetos' \subseteq Objetos /\ expuestas' \subseteq Docs
    BY <1>2 DEF RestaurarObjetos, _restaurar_tablas, _limpiar_objetos, _restaurar_objetos,
                Formas, TipoCopias, Copia
<1>4. PICK ficha \in Fichas :
         /\ trabajos' = [trabajos EXCEPT ![t] = ficha]
         /\ ficha.tipo = "restauracion" /\ ficha.copia = trabajos[t].copia
         /\ \/ ficha.estado = "EN_CURSO" /\ ficha.paso \in {"objetos", "limpiar"}
            \/ ficha.estado = "COMPLETADO" /\ ficha.paso = "fuera"
         /\ RestaurarObjetos(t) => ficha.paso = "objetos"
         /\ _restaurar_tablas(t) => trabajos[t].paso = "objetos" /\ ficha.paso = "limpiar"
         /\ _limpiar_objetos(t) => trabajos[t].paso = "limpiar" /\ ficha.paso = "fuera"
    <2>1. RestaurarObjetos(t) => trabajos[t].paso = "tablas"
        BY DEF RestaurarObjetos, EnMarcha
    <2>2. _restaurar_tablas(t) => trabajos[t].paso = "objetos"
        BY DEF _restaurar_tablas, EnMarcha
    <2>3. _limpiar_objetos(t) => trabajos[t].paso = "limpiar"
        BY DEF _limpiar_objetos, EnMarcha
    <2>4. CASE RestaurarObjetos(t)
        <3> DEFINE g == [trabajos[t] EXCEPT !.paso = "objetos"]
        <3>1. g \in Fichas /\ g.estado = "EN_CURSO" /\ g.paso = "objetos"
              /\ g.tipo = "restauracion" /\ g.copia = trabajos[t].copia
            BY <1>1, <1>2 DEF Fichas
        <3>2. trabajos' = [trabajos EXCEPT ![t] = g]
            BY <2>4 DEF RestaurarObjetos, Formas, TipoCopias
        <3> HIDE DEF g
        <3> QED
            BY <2>1, <2>2, <2>3, <2>4, <3>1, <3>2
    <2>5. CASE _restaurar_tablas(t)
        <3> DEFINE g == [trabajos[t] EXCEPT !.paso = "limpiar"]
        <3>1. g \in Fichas /\ g.estado = "EN_CURSO" /\ g.paso = "limpiar"
              /\ g.tipo = "restauracion" /\ g.copia = trabajos[t].copia
            BY <1>1, <1>2 DEF Fichas
        <3>2. trabajos' = [trabajos EXCEPT ![t] = g]
            BY <2>5 DEF _restaurar_tablas, Formas, TipoCopias
        <3> HIDE DEF g
        <3> QED
            BY <2>1, <2>2, <2>3, <2>5, <3>1, <3>2
    <2>6. CASE _limpiar_objetos(t)
        <3> DEFINE g == [[trabajos[t] EXCEPT !.objeto = FALSE]
                            EXCEPT !.estado = "COMPLETADO", !.paso = "fuera"]
        <3>1. g \in Fichas /\ g.estado = "COMPLETADO" /\ g.paso = "fuera"
              /\ g.tipo = "restauracion" /\ g.copia = trabajos[t].copia
            BY <1>1 DEF Fichas
        <3>2. trabajos' = [trabajos EXCEPT ![t] = g]
            BY <2>6 DEF _limpiar_objetos, _terminar
        <3> HIDE DEF g
        <3> QED
            BY <2>1, <2>2, <2>3, <2>6, <3>1, <3>2
    <2> QED
        BY <2>4, <2>5, <2>6
<1>5. /\ Formas' /\ (~solapadas' => UnoSolo')
      /\ trabajos'[t] = ficha /\ \A u \in Trabajos \ {t} : trabajos'[u] = trabajos[u]
    <2>1. ficha.paso \in Corriendo => ficha.estado = "EN_CURSO"
        BY <1>4 DEF Corriendo
    <2>2. /\ ficha.paso # "cola"
          /\ trabajos[t].paso # "fuera" \/ ~activo(t)
          /\ ficha.estado \in {"PENDIENTE", "EN_CURSO"} => activo(t)
          /\ guardadas' \subseteq Copia
        BY <1>2, <1>3, <1>4 DEF Formas, TipoCopias
    <2> HIDE DEF InvCopias
    <2> QED
        BY <1>3, <1>4, <2>1, <2>2, CambiaUnTrabajo
<1> QED
    BY <1>1, <1>2, <1>3, <1>4, <1>5

(* A step of a restore: of a document nobody else was at, what the copy    *)
(* has of it is in the store until its row is the one of the copy.         *)
LEMMA AlRestaurar ==
    ASSUME InvCopias, NEW t \in Trabajos,
           RestaurarObjetos(t) \/ _restaurar_tablas(t) \/ _limpiar_objetos(t)
    PROVE  InvCopias'
<1> DEFINE c == trabajos[t].copia
<1>1. /\ Formas' /\ (~solapadas' => UnoSolo')
      /\ trabajos[t].paso \in Corriendo /\ c \in Copia
      /\ trabajos[t].tipo = "restauracion" /\ trabajos'[t].tipo = "restauracion"
      /\ trabajos'[t].copia = c
      /\ \A u \in Trabajos \ {t} : trabajos'[u] = trabajos[u]
      /\ UNCHANGED <<curso, solicitud, guardadas, solapadas>>
    BY AvanzaLaRestauracion
<1>2. /\ RestaurarObjetos(t) => trabajos'[t].paso = "objetos"
      /\ _restaurar_tablas(t) => trabajos[t].paso = "objetos" /\ trabajos'[t].paso = "limpiar"
      /\ _limpiar_objetos(t) => trabajos[t].paso = "limpiar" /\ trabajos'[t].paso = "fuera"
    BY AvanzaLaRestauracion
<1>3. expuestas \subseteq expuestas'
    BY DEF RestaurarObjetos, _restaurar_tablas, _limpiar_objetos
<1>4. ASSUME ~solapadas, NEW d \in Docs, d \notin expuestas' PROVE DeDocumento(d)'
    <2>1. Formas /\ UnoSolo /\ DeDocumento(d)
        BY <1>3, <1>4 DEF InvCopias, Originales
    <2>2. EnSuPunto(d) /\ DatosDe(t, d) /\ ConOriginal(c.filas, c.objetos, d)
        BY <1>1, <2>1 DEF DeDocumento, DatosDe
    <2>3. \A u \in Trabajos \ {t} : DatosDe(u, d)'
        BY <1>1, <2>1, LosDemasSiguen DEF DeDocumento
    <2>4. /\ \A g \in guardadas : ConOriginal(g.filas, g.objetos, d)'
          /\ \A p \in Solicitudes :
                ConOriginal(solicitud[p].copia.filas, solicitud[p].copia.objetos, d)'
        BY <1>1, <2>1 DEF DeDocumento, ConOriginal
    <2>5. EnSuPunto(d)' /\ DatosDe(t, d)'
        <3>1. CASE RestaurarObjetos(t)
            <4>1. /\ filas' = filas /\ objetos' = objetos \cup c.objetos
                  /\ curso[d] = "libre"
                BY <1>1, <1>4, <3>1 DEF RestaurarObjetos, _restaurar_objetos
            <4> QED
                BY <1>1, <1>2, <2>2, <3>1, <4>1 DEF EnSuPunto, DatosDe, ConOriginal
        <3>2. CASE _restaurar_tablas(t)
            <4>1. /\ filas' = c.filas /\ objetos' = objetos
                  /\ curso[d] = "libre" /\ ConOriginal(c.filas, objetos, d)
                BY <1>1, <1>2, <2>2, <3>2 DEF _restaurar_tablas, DatosDe, ConOriginal
            <4> QED
                BY <1>1, <1>2, <2>2, <3>2, <4>1 DEF EnSuPunto, DatosDe, ConOriginal
        <3>3. CASE _limpiar_objetos(t)
            <4>1. /\ filas' = filas /\ objetos' = objetos \cap c.objetos
                  /\ curso[d] = "libre" /\ ConOriginal(filas, c.objetos, d)
                BY <1>1, <1>2, <2>2, <3>3 DEF _limpiar_objetos, DatosDe
            <4> QED
                BY <1>1, <1>2, <2>2, <3>3, <4>1 DEF EnSuPunto, DatosDe, ConOriginal
        <3> QED
            BY <3>1, <3>2, <3>3
    <2> QED
        BY <1>1, <2>3, <2>4, <2>5 DEF DeDocumento
<1> QED
    BY <1>1, <1>4 DEF InvCopias, Originales

(* A person keeps a finished copy.                                         *)
LEMMA AlDescargar ==
    ASSUME InvCopias, NEW t \in Trabajos, descargar(t)
    PROVE  InvCopias'
<1> USE DEF InvCopias, descargar
<1>1. trabajos[t].copia \in Copia
    BY DEF Formas, TipoCopias
<1>2. Formas'
    BY <1>1 DEF Formas, TipoCopias, TrabajoEnOrden, SolicitudEnOrden
<1>3. ~solapadas' => UnoSolo'
    BY DEF UnoSolo, activo
<1>4. ASSUME ~solapadas PROVE Originales'
    <2>1. Buena(trabajos[t].copia)
        BY <1>4 DEF Originales, DeDocumento, DatosDe, Buena, descargable
    <2> QED
        BY <1>4, <2>1, SoloLosTrabajos
<1> QED
    BY <1>2, <1>3, <1>4

-----------------------------------------------------------------------------
(* Every step keeps the invariant.                                         *)
LEMMA CopiasPaso == InvCopias /\ [NextCopias]_varsCopias => InvCopias'
<1> SUFFICES ASSUME InvCopias, [NextCopias]_varsCopias PROVE InvCopias'
    OBVIOUS
<1>1. ASSUME NEW d \in Docs,
             \/ GuardarOriginal(d) \/ ConfirmarFila(d)
             \/ promote(d) \/ BorrarDeCuarentena(d) \/ store_document(d)
             \/ scan_document(d) \/ ConfirmarInfectado(d)
             \/ PerderObra(d) \/ apply_retention(d)
      PROVE  InvCopias'
    BY <1>1, AlSubir, AlPromover, AlDestruir, AlPerderObra, AlPurgar
<1>2. CASE ConfirmarPurga \/ PerderPurga
    BY <1>2, AlCerrarPurga
<1>3. ASSUME NEW p \in Solicitudes, solicitar_copia(p) PROVE InvCopias'
    <2>1. Vacia \in Copia /\ Buena(Vacia)
        BY CopiaVacia DEF Buena
    <2> QED
        BY <1>3, <2>1, AlComprobar DEF solicitar_copia
<1>4. ASSUME NEW p \in Solicitudes, solicitar_restauracion(p) PROVE InvCopias'
    <2>1. PICK c \in guardadas, entera \in BOOLEAN :
             Comprobar(p, "restauracion", [c EXCEPT !.entera = entera])
        BY <1>4 DEF solicitar_restauracion
    <2>2. c \in Copia
        BY DEF InvCopias, Formas, TipoCopias
    <2>3. [c EXCEPT !.entera = entera] \in Copia
          /\ (~solapadas => Buena([c EXCEPT !.entera = entera]))
        BY <2>2 DEF Copia, InvCopias, Originales, DeDocumento, Buena, ConOriginal
    <2> QED
        BY <2>1, <2>3, AlComprobar
<1>5. ASSUME NEW p \in Solicitudes, _nuevo_trabajo(p) PROVE InvCopias'
    BY <1>5, AlInsertarTrabajo
<1>6. ASSUME NEW p \in Solicitudes, GuardarZip(p) \/ PerderSolicitud(p) \/ _despachar(p)
      PROVE  InvCopias'
    BY <1>6, AlEntregar
<1>7. ASSUME NEW t \in Trabajos,
             _empezar(t) \/ _fallar(t) \/ MorirTrabajador(t) \/ eliminar(t)
      PROVE  InvCopias'
    BY <1>7, AlSoltarTrabajo
<1>8. ASSUME NEW t \in Trabajos, VolcarTablas(t) \/ VolcarDocumentos(t) \/ VolcarCuarentena(t)
      PROVE  InvCopias'
    BY <1>8, AlVolcarTablas, AlVolcarObjetos
<1>9. ASSUME NEW t \in Trabajos,
             RestaurarObjetos(t) \/ _restaurar_tablas(t) \/ _limpiar_objetos(t)
      PROVE  InvCopias'
    BY <1>9, AlRestaurar
<1>10. ASSUME NEW t \in Trabajos, descargar(t) PROVE InvCopias'
    BY <1>10, AlDescargar
<1>11. CASE UNCHANGED varsCopias
    <2>1. Formas' /\ (~solapadas' => UnoSolo')
        BY <1>11 DEF varsCopias, InvCopias, Formas, TipoCopias, TrabajoEnOrden,
                     SolicitudEnOrden, UnoSolo, activo
    <2>2. ~solapadas' => Originales'
        BY <1>11, SoloLosTrabajos DEF varsCopias, InvCopias
    <2> QED
        BY <1>11, <2>1, <2>2 DEF varsCopias, InvCopias
<1> QED
    BY <1>1, <1>2, <1>3, <1>4, <1>5, <1>6, <1>7, <1>8, <1>9, <1>10, <1>11 DEF NextCopias

(* The invariant holds of every behaviour.                                 *)
LEMMA SiempreInvCopias == SpecCopias => []InvCopias
BY CopiasAlPrincipio, CopiasPaso, PTL DEF SpecCopias

(* Jobs, requests and copies never leave their types.                      *)
THEOREM TiposDeCopias == SpecCopias => []TipoCopias
<1>1. InvCopias => TipoCopias
    BY DEF InvCopias, Formas
<1> QED
    BY <1>1, SiempreInvCopias, PTL

(* Whatever dies, fails or is purged or uploaded meanwhile: jobs run one   *)
(* at a time and every row has its original, now and in any copy that can  *)
(* be restored, outside the exceptions the property names.                 *)
THEOREM ElRespaldoEsFiable == SpecCopias => []RespaldoFiable
<1>1. InvCopias => OriginalDeCadaFila
    BY DEF InvCopias, Originales, DeDocumento, EnSuPunto, OriginalDeCadaFila, DatosDe,
           ConOriginal, descargable, Cubos
<1>2. InvCopias => UnTrabajoALaVez
    <2> SUFFICES ASSUME InvCopias, ~solapadas
                 PROVE  Cardinality({t \in Trabajos : activo(t)}) <= 1
        BY DEF UnTrabajoALaVez
    <2> DEFINE A == {t \in Trabajos : activo(t)}
    <2>1. \A t, u \in A : t = u
        BY DEF InvCopias, UnoSolo
    <2>2. CASE A = {}
        <3>1. Cardinality(A) = 0
            BY <2>2, FS_EmptySet
        <3> QED
            BY <3>1
    <2>3. CASE A # {}
        <3>1. PICK t \in A : A = {t}
            BY <2>1, <2>3
        <3>2. Cardinality(A) = 1
            BY <3>1, FS_Singleton
        <3> QED
            BY <3>2
    <2> QED
        BY <2>2, <2>3
<1>3. InvCopias => RespaldoFiable
    BY <1>1, <1>2 DEF RespaldoFiable
<1> QED
    BY <1>3, SiempreInvCopias, PTL

-----------------------------------------------------------------------------
(***************************************************************************)
(* Once a rotation is over every secret opens with the current key and     *)
(* says what was last stored, for any secrets, keys and values.            *)
(*                                                                         *)
(* Not inductive: in the middle of a rotation a secret may be under either *)
(* key.  What is kept is that its value is right, that those outside the   *)
(* plan of the rotation are under the current key, and that those in it    *)
(* still are what the rotation read.                                       *)
(***************************************************************************)

BajoLaActual(s) == secretos[s].clave \in {0, entorno.actual}

(* What is known of a secret that is not among the exceptions.             *)
Sano(s) ==
    /\ secretos[s].valor = vigente[s]
    /\ rotacion.pc \in {"fuera", "hecho"} => BajoLaActual(s)
    /\ rotacion.pc = "leido" => IF s \in rotacion.plan THEN secretos[s] = rotacion.leidos[s]
                                                       ELSE BajoLaActual(s)

InvClaves == TipoClaves /\ \A s \in Secretos \ mezclados : Sano(s)

(* Nothing is stored yet.                                                  *)
LEMMA ClavesAlPrincipio == InitClaves => InvClaves
<1> SUFFICES ASSUME InitClaves PROVE InvClaves
    OBVIOUS
<1> USE SecretKeysAssumption DEF InitClaves, Ninguno, Rotacion0, Copiada0
<1>1. [clave |-> 0, valor |-> 0] \in Cifrado
    BY DEF Cifrado
<1>2. TipoClaves
    BY <1>1 DEF TipoClaves
<1>3. \A s \in Secretos : Sano(s)
    BY DEF Sano, BajoLaActual
<1> QED
    BY <1>2, <1>3 DEF InvClaves

(* A secret is stored: under the current key, unless a rotation has read   *)
(* the one it replaces, which makes it an exception.                       *)
LEMMA AlCifrar ==
    ASSUME InvClaves, NEW s \in Secretos, NEW v \in 1..MaxValor, encrypt_secret(s, v)
    PROVE  InvClaves'
<1> USE SecretKeysAssumption DEF InvClaves, encrypt_secret
<1>1. [clave |-> entorno.actual, valor |-> v] \in Cifrado
    BY DEF TipoClaves, Cifrado
<1>2. TipoClaves'
    BY <1>1 DEF TipoClaves
<1>3. \A t \in Secretos \ mezclados' : Sano(t)'
    <2> SUFFICES ASSUME NEW t \in Secretos, t \notin mezclados' PROVE Sano(t)'
        OBVIOUS
    <2>1. CASE t = s
        <3>1. ~(rotacion.pc = "leido" /\ s \in rotacion.plan)
            BY <2>1
        <3>2. secretos'[s] = [clave |-> entorno.actual, valor |-> v] /\ vigente'[s] = v
            BY DEF TipoClaves
        <3> QED
            BY <2>1, <3>1, <3>2 DEF Sano, BajoLaActual
    <2>2. CASE t # s
        <3>1. t \notin mezclados /\ secretos'[t] = secretos[t] /\ vigente'[t] = vigente[t]
            BY <2>2 DEF TipoClaves
        <3> QED
            BY <3>1 DEF Sano, BajoLaActual
    <2> QED
        BY <2>1, <2>2
<1> QED
    BY <1>2, <1>3

(* The key changes: until a rotation has read the secrets, only their      *)
(* values are known.                                                       *)
LEMMA AlCambiar ==
    ASSUME InvClaves, NEW g \in BOOLEAN, CambiarClave(g)
    PROVE  InvClaves'
<1> USE SecretKeysAssumption DEF InvClaves, CambiarClave
<1>1. entorno' \in [actual : 1..MaxClave, anterior : 0..MaxClave]
    BY DEF TipoClaves
<1>2. TipoClaves'
    BY <1>1 DEF TipoClaves
<1>3. \A s \in Secretos \ mezclados' : Sano(s)'
    BY DEF Sano, TipoClaves
<1> QED
    BY <1>2, <1>3

(* The rotation reads: what it will not rewrite is under the current key.  *)
LEMMA AlLeerSecretos ==
    ASSUME InvClaves, NEW a \in 0..MaxClave, recifrar(a)
    PROVE  InvClaves'
<1> USE DEF InvClaves, recifrar
<1>1. TipoClaves'
    BY DEF TipoClaves, _cifrados, Guardados
<1>2. \A s \in Secretos \ mezclados' : Sano(s)'
    BY DEF Sano, BajoLaActual, _cifrados, Guardados, TipoClaves
<1> QED
    BY <1>1, <1>2

(* The rotation commits what it read: what it rewrites is what it read.    *)
LEMMA AlRecifrar ==
    ASSUME InvClaves, ConfirmarRecifrado
    PROVE  InvClaves'
<1> USE SecretKeysAssumption DEF InvClaves, ConfirmarRecifrado
<1>1. rotacion'.pc = "hecho" /\ rotacion'.leidos = Ninguno /\ rotacion'.plan = {}
      /\ rotacion' \in [pc : {"fuera", "pendiente", "leido", "hecho"},
                        leidos : [Secretos -> Cifrado], plan : SUBSET Secretos]
    BY DEF Rotacion0, Ninguno, Cifrado
<1>2. secretos' \in [Secretos -> Cifrado]
    BY DEF TipoClaves, Cifrado
<1>3. TipoClaves'
    BY <1>1, <1>2 DEF TipoClaves
<1>4. \A s \in Secretos \ mezclados' : Sano(s)'
    <2> SUFFICES ASSUME NEW s \in Secretos, s \notin mezclados PROVE Sano(s)'
        OBVIOUS
    <2>1. CASE s \in rotacion.plan
        <3>1. secretos'[s] = [clave |-> entorno.actual, valor |-> rotacion.leidos[s].valor]
            BY <2>1
        <3> QED
            BY <2>1, <3>1, <1>1 DEF Sano, BajoLaActual
    <2>2. CASE s \notin rotacion.plan
        <3>1. secretos'[s] = secretos[s]
            BY <2>2
        <3> QED
            BY <2>2, <3>1, <1>1 DEF Sano, BajoLaActual
    <2> QED
        BY <2>1, <2>2
<1> QED
    BY <1>3, <1>4

(* The previous key is taken out of the environment: nothing needed it.    *)
LEMMA AlRetirar ==
    ASSUME InvClaves, RetirarAnterior
    PROVE  InvClaves'
<1> USE SecretKeysAssumption DEF InvClaves, RetirarAnterior
<1>1. rotacion'.pc = "fuera"
      /\ rotacion' \in [pc : {"fuera", "pendiente", "leido", "hecho"},
                        leidos : [Secretos -> Cifrado], plan : SUBSET Secretos]
    BY DEF Rotacion0, Ninguno, Cifrado
<1>2. entorno'.actual = entorno.actual
      /\ entorno' \in [actual : 1..MaxClave, anterior : 0..MaxClave]
    BY DEF TipoClaves
<1>3. TipoClaves'
    BY <1>1, <1>2 DEF TipoClaves
<1>4. \A s \in Secretos \ mezclados' : Sano(s)'
    BY <1>1, <1>2 DEF Sano, BajoLaActual
<1> QED
    BY <1>3, <1>4

(* A copy is restored: every row and every value are the copy's, under the *)
(* current key but for the exceptions.                                     *)
LEMMA AlRestaurarSecretos ==
    ASSUME InvClaves, _restaurar_claves
    PROVE  InvClaves'
<1> USE SecretKeysAssumption DEF InvClaves, _restaurar_claves
<1>1. _recifrar_copia \in [Secretos -> Cifrado]
    BY DEF _recifrar_copia, TipoClaves, Cifrado
<1>2. copiada' \in [hay : BOOLEAN, actual : 1..MaxClave, anterior : 0..MaxClave,
                    secretos : [Secretos -> Cifrado]]
    BY DEF Copiada0, Ninguno, Cifrado
<1>3. vigente' \in [Secretos -> 0..MaxValor]
    BY DEF TipoClaves, Cifrado
<1>4. TipoClaves'
    BY <1>1, <1>2, <1>3 DEF TipoClaves
<1>5. \A s \in Secretos \ mezclados' : Sano(s)'
    <2> SUFFICES ASSUME NEW s \in Secretos, s \notin mezclados' PROVE Sano(s)'
        OBVIOUS
    <2>1. ~(rotacion.pc = "leido" /\ s \in rotacion.plan)
        OBVIOUS
    <2>2. copiada.secretos[s] \in Cifrado
        BY DEF TipoClaves
    <2>3. secretos'[s].valor = copiada.secretos[s].valor
          /\ secretos'[s].clave \in {0, entorno.actual}
        <3>1. CASE copiada.actual = entorno.actual
            BY <3>1 DEF _recifrar_copia, Abre
        <3>2. CASE copiada.actual # entorno.actual
            BY <3>2, <2>2 DEF _recifrar_copia, Cifrado
        <3> QED
            BY <3>1, <3>2
    <2> QED
        BY <2>1, <2>3 DEF Sano, BajoLaActual
<1> QED
    BY <1>4, <1>5

(* Every step keeps the invariant.                                         *)
LEMMA ClavesPaso == InvClaves /\ [NextClaves]_varsClaves => InvClaves'
<1> SUFFICES ASSUME InvClaves, [NextClaves]_varsClaves PROVE InvClaves'
    OBVIOUS
<1>1. ASSUME NEW s \in Secretos, NEW v \in 1..MaxValor, encrypt_secret(s, v)
      PROVE  InvClaves'
    BY <1>1, AlCifrar
<1>2. ASSUME NEW g \in BOOLEAN, CambiarClave(g) PROVE InvClaves'
    BY <1>2, AlCambiar
<1>3. ASSUME NEW a \in 0..MaxClave, recifrar(a) PROVE InvClaves'
    BY <1>3, AlLeerSecretos
<1>4. CASE ConfirmarRecifrado
    BY <1>4, AlRecifrar
<1>5. CASE RetirarAnterior
    BY <1>5, AlRetirar
<1>6. CASE _escribir_copia_de_claves
    BY <1>6 DEF _escribir_copia_de_claves, InvClaves, TipoClaves, Sano, BajoLaActual
<1>7. CASE _restaurar_claves
    BY <1>7, AlRestaurarSecretos
<1>8. CASE UNCHANGED varsClaves
    BY <1>8 DEF varsClaves, InvClaves, TipoClaves, Sano, BajoLaActual
<1> QED
    BY <1>1, <1>2, <1>3, <1>4, <1>5, <1>6, <1>7, <1>8 DEF NextClaves

(* The invariant holds of every behaviour.                                 *)
LEMMA SiempreInvClaves == SpecClaves => []InvClaves
BY ClavesAlPrincipio, ClavesPaso, PTL DEF SpecClaves

(* Keys, secrets and copies never leave their types.                       *)
THEOREM TiposDeClaves == SpecClaves => []TipoClaves
<1>1. InvClaves => TipoClaves
    BY DEF InvClaves
<1> QED
    BY <1>1, SiempreInvClaves, PTL

(* However rotations, changes of secrets, copies and restores follow one   *)
(* another, when no rotation is under way every secret outside the named   *)
(* exceptions opens with the current key and is the one last stored.       *)
THEOREM NingunSecretoSePierde == SpecClaves => []SecretosEnPie
<1>1. InvClaves => SecretosEnPie
    BY DEF InvClaves, Sano, BajoLaActual, SecretosEnPie, Abre
<1> QED
    BY <1>1, SiempreInvClaves, PTL

(***************************************************************************)
(* The components side by side, as MCBackgroundJobs puts them.             *)
(***************************************************************************)

(* A behaviour starts with every component in its initial state.           *)
LEMMA AlPrincipioTodas ==
    InitDeUna =>
        /\ InitCopias
        /\ InitClaves
        /\ InitAjuste
        /\ InitRecomendaciones
        /\ InitAvisos
        /\ InitProveedores
        /\ InitLlamadas
        /\ InitFiabilidad
        /\ Init
BY DEF InitDeUna

(* A step of a behaviour is, for each component, a step of its own or one  *)
(* that leaves it still.                                                   *)
LEMMA PasoDeCadaUna ==
    [NextDeUna]_varsDeTodas =>
        /\ [NextCopias]_varsCopias
        /\ [NextClaves]_varsClaves
        /\ [NextAjuste]_varsAjuste
        /\ [NextRecomendaciones]_varsRecomendaciones
        /\ [NextAvisos]_varsAvisos
        /\ [NextProveedores]_varsProveedores
        /\ [NextLlamadas]_varsLlamadas
        /\ [NextFiabilidad]_varsFiabilidad
        /\ [Next]_vars
BY DEF NextDeUna, Quietas, varsDeTodas

(***************************************************************************)
(* Every behaviour of the components side by side is, seen from each of    *)
(* them, one of its own: what the theorems of this module, BackgroundProofs *)
(* and AuditChainProofs promise of the copies, the keys, the search, the   *)
(* notices, the calls, the readings and the trail, each from the           *)
(* specification of its component, holds of the specification that is      *)
(* checked, whatever its constants.                                        *)
(***************************************************************************)
THEOREM CadaUnaCumpleLoSuyo ==
    SpecDeUna =>
        /\ SpecCopias
        /\ SpecClaves
        /\ SpecAjuste
        /\ SpecRecomendaciones
        /\ SpecAvisos
        /\ SpecProveedores
        /\ SpecLlamadas
        /\ SpecFiabilidad
        /\ Spec
BY AlPrincipioTodas, PasoDeCadaUna, PTL
   DEF SpecDeUna, SpecCopias, SpecClaves, SpecAjuste, SpecRecomendaciones, SpecAvisos,
       SpecProveedores, SpecLlamadas, SpecFiabilidad, Spec

(* The variables of every component that works out of sight of a request   *)
(* stay in their domains, in whatever component the steps are.             *)
THEOREM TiposDeTodas == SpecDeUna => []TipoDeTodas
<1>1. ASSUME TipoCopias, TipoClaves, TipoAjuste, TipoRecomendaciones, TipoAvisos,
             TipoProveedores, TipoLlamadas, TipoFiabilidad, TypeOK
      PROVE  TipoDeTodas
    BY <1>1 DEF TipoDeTodas
<1> QED
    BY <1>1, CadaUnaCumpleLoSuyo, TiposDeCopias, TiposDeClaves, TiposDelAjuste,
       TiposDeRecomendaciones, TiposDeAvisos, TiposDeProveedores, TiposDeLlamadas,
       TiposDeLaLectura, AuditTipos, PTL
=============================================================================
