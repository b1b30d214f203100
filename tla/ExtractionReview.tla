--------------------------- MODULE ExtractionReview ---------------------------
(***************************************************************************)
(* From what was read out of a document to the itinerary of its trip.      *)
(*                                                                         *)
(* A document carries numbered versions of its extraction: the chain adds  *)
(* one each time it reads the document, a reviewer's correction adds       *)
(* another.  Approving one writes the services it describes onto rows of   *)
(* the itinerary, which people also create, edit, confirm and delete.  All *)
(* of it happens in sessions that load what they need and commit later,    *)
(* under READ COMMITTED, with one constraint (a document's version numbers *)
(* are unique) and no lock.                                                *)
(*                                                                         *)
(* Two kinds of document: a confirmation knows its services; the agency's  *)
(* sale stub (`talon_service`) only prices them, so it completes the row   *)
(* another document made, or proposes a provisional one that a             *)
(* confirmation adopts.  The i-th service of every document of the trip is *)
(* the same real service, on the same day.                                 *)
(***************************************************************************)
EXTENDS DocumentStates, FiniteSets

CONSTANTS
    Documentos,     \* the documents of one trip
    Talones,        \* those that are sale stubs
    Sesiones,       \* web requests and pipeline tasks running at once
    Valores,        \* what a field of a service may say
    Lecturas,       \* what the reader may make of a document
    MaxServicios,   \* bound: services a document may describe
    MaxFilas,       \* bound: rows ever created for one service
    MaxVersiones,   \* bound: versions of one document
    MaxPeticiones,  \* bound: requests ever served
    MaxTareas,      \* bound: tasks of the chain running at once
    MaxALaVez,      \* bound: from this many requests on, one thing at a time
    AutoAprobar     \* the setting DOCUMENTOS_AUTO_APROBAR

ASSUME TalonesAssumption == Talones \subseteq Documentos
ASSUME DocumentosAssumption == Documentos # {}
ASSUME MaximosRevisionAssumption ==
    /\ MaxServicios \in Nat /\ MaxFilas \in Nat /\ MaxPeticiones \in Nat
    /\ MaxTareas \in Nat /\ MaxALaVez \in Nat
    /\ MaxVersiones \in Nat \ {0}
ASSUME AutoAprobarRevisionAssumption == AutoAprobar \in BOOLEAN
ASSUME VacioAssumption == Valores \cap {"vacio", "ninguna"} = {}
ASSUME LecturasAssumption ==
    /\ Lecturas # {}
    /\ Lecturas \subseteq [n : 0..MaxServicios, valor : Valores \cup {"vacio"},
                           segura : BOOLEAN, fecha : BOOLEAN]
ASSUME NadieAssumption == "nadie" \notin Documentos

VARIABLES
    doc,        \* the state of each document
    version,    \* the versions of each document, by number
    fila,       \* the rows of the itinerary, by service
    sesion,     \* what each session is doing
    pedidas,    \* requests so far
    solapadas,  \* history: one approval committed while another was halfway
    pisada      \* history: a row changed while another session had it loaded

vars == <<doc, version, fila, sesion, pedidas, solapadas, pisada>>

Servicios == 1..MaxServicios
Numeros == 1..MaxVersiones
Ids == 1..MaxFilas

ExtractionState == {"PENDIENTE", "EN_REVISION", "APROBADA", "RECHAZADA",
                    "SUPERADA"}

(* A version: how many services it describes, what it says of them, how    *)
(* sure it is, and (for a stub) whether it names the day.                  *)
Versiones == [estado : ExtractionState \cup {"nada"}, vigente : BOOLEAN,
              n : 0..MaxServicios, valor : Valores \cup {"vacio"},
              segura : BOOLEAN, fecha : BOOLEAN]

SinVersion == [estado |-> "nada", vigente |-> FALSE, n |-> 0,
               valor |-> "vacio", segura |-> FALSE, fecha |-> FALSE]

(* A row: the document it came from, whether it is provisional, one field, *)
(* the newest provenance of that field (what it says, whether it is above  *)
(* the threshold), and the roll-up `requiere_revision`.                    *)
Filas == [estado : {"nada", "viva", "borrada"},
          origen : Documentos \cup {"nadie"}, prov : BOOLEAN,
          valor : Valores \cup {"vacio"},
          proc : Valores \cup {"vacio", "ninguna"}, seguro : BOOLEAN,
          revisar : BOOLEAN]

SinFila == [estado |-> "nada", origen |-> "nadie", prov |-> FALSE,
            valor |-> "vacio", proc |-> "ninguna", seguro |-> FALSE,
            revisar |-> FALSE]

OperacionesDeDocumento == {"aprobar", "corregir", "rechazar", "extraer",
                           "normalizar", "finalizar", "reprocesar"}

(* A session: what it was asked, and what it has loaded so far.            *)
EstadosSesion ==
    [pc : {"libre", "ultima", "vigentes", "filas", "escribir", "aplicar",
           "recargar", "guardar"},
     op : OperacionesDeDocumento \cup {"editar", "confirmar", "borrar"},
     d : Documentos, estado : DocumentProcessState, num : Numeros,
     v : Versiones, nueva : Versiones, ultima : 0..MaxVersiones,
     vigentes : SUBSET Numeros, superadas : SUBSET Numeros,
     filas : [Servicios -> [Ids -> Filas]],
     s : 0..MaxServicios, k : 0..MaxFilas, valor : Valores \cup {"vacio"}]

SinFilas == [s \in Servicios |-> [k \in Ids |-> SinFila]]

SesionDe(d) ==
    [pc |-> "libre", op |-> "aprobar", d |-> d, estado |-> "EXTRAIDO", num |-> 1,
     v |-> SinVersion, nueva |-> SinVersion, ultima |-> 0, vigentes |-> {},
     superadas |-> {}, filas |-> SinFilas, s |-> 0, k |-> 0, valor |-> "vacio"]

Libre == SesionDe(CHOOSE d \in Documentos : TRUE)

(* A version with what was read in it.                                     *)
Leida(l, estado) == [estado |-> estado, vigente |-> TRUE, n |-> l.n,
                     valor |-> l.valor, segura |-> l.segura, fecha |-> l.fecha]

(* Documents whose first version waits for review, or is still on its way. *)
Init ==
    /\ doc \in [Documentos -> {"EXTRAIDO", "PENDIENTE_REVISION"}]
    /\ \E l \in [Documentos -> Lecturas] :
          version = [d \in Documentos |-> [n \in Numeros |->
             IF n > 1 THEN SinVersion
             ELSE Leida(l[d], IF doc[d] = "EXTRAIDO" THEN "PENDIENTE"
                                                     ELSE "EN_REVISION")]]
    /\ fila = SinFilas
    /\ sesion = [p \in Sesiones |-> Libre]
    /\ pedidas = 0
    /\ solapadas = FALSE
    /\ pisada = [s \in Servicios |-> [k \in Ids |-> FALSE]]

(***************************************************************************)
(* Reading.                                                                *)
(***************************************************************************)
Existentes(d) == {n \in Numeros : version[d][n].estado # "nada"}
Vigentes(d) == {n \in Numeros : version[d][n].vigente}

(* `latest` of create_version: the highest number, 0 when there is none.   *)
Ultima(d) == IF Existentes(d) = {} THEN 0
             ELSE CHOOSE n \in Existentes(d) :
                     \A m \in Existentes(d) : m <= n

(* `Document.current_extraction` picks the last current version.           *)
EsActual(d, n) == n \in Vigentes(d) /\ \A m \in Vigentes(d) : m <= n

Aislada(p, campos) == sesion' = [sesion EXCEPT ![p] = campos]

SinEscribir == UNCHANGED <<doc, version, fila, solapadas, pisada>>

(***************************************************************************)
(* A request arrives: it loads the document and its current version.  What *)
(* it will do is known from its URL and its form.                          *)
(***************************************************************************)
Admite(op, estado, v) ==
    CASE op = "aprobar"    -> v.estado # "APROBADA"
      [] op = "corregir"   -> v.n > 0
      [] op = "rechazar"   -> TRUE
      [] op = "extraer"    -> estado = "CLASIFICADO"
      [] op = "normalizar" -> estado = "EXTRAIDO"
      [] op = "finalizar"  -> estado = "NORMALIZADO"
      [] op = "reprocesar" -> PermiteRetroceso(estado, "CLASIFICADO")

(* Tasks of the chain are not bounded: what starts them is a reprocess.    *)
Tareas == {"extraer", "normalizar", "finalizar"}

(* What a reviewer may type instead of what was read.                      *)
Correccion(v, x) == [v EXCEPT !.estado = "EN_REVISION", !.vigente = TRUE,
                              !.valor = x, !.segura = TRUE]

(* The bounds on what may start.                                           *)
Cabe(p) == pedidas >= MaxALaVez =>
              \A o \in Sesiones \ {p} : sesion[o].pc = "libre"
CabeTarea(p) ==
    /\ Cabe(p)
    /\ Cardinality({o \in Sesiones : /\ sesion[o].pc # "libre"
                                     /\ sesion[o].op \in Tareas}) < MaxTareas
CabePeticion(p) == pedidas < MaxPeticiones /\ Cabe(p)

PrimerPaso(op) == CASE op \in {"corregir", "extraer"} -> "ultima"
                    [] op = "aprobar" -> "filas"
                    [] OTHER -> "escribir"

Nuevas(op, v) ==
    CASE op = "extraer"  -> {Leida(l, "PENDIENTE") : l \in Lecturas}
      [] op = "corregir" -> {Correccion(v, x) : x \in Valores \ {v.valor}}
      [] OTHER           -> {v}

Pedir(p) ==
    /\ sesion[p].pc = "libre"
    /\ \E d \in Documentos, op \in OperacionesDeDocumento :
          \E n \in Numeros :
             LET v == version[d][n] IN
             /\ EsActual(d, n)
             /\ Admite(op, doc[d], v)
             /\ IF op \in Tareas THEN CabeTarea(p) ELSE CabePeticion(p)
             /\ pedidas' = IF op \in Tareas THEN pedidas ELSE pedidas + 1
             /\ \E nueva \in Nuevas(op, v) :
                   Aislada(p, [SesionDe(d) EXCEPT
                      !.pc = PrimerPaso(op), !.op = op, !.estado = doc[d],
                      !.num = n, !.v = v, !.nueva = nueva])
    /\ SinEscribir

(***************************************************************************)
(* create_version: the highest number first, then the versions in force.   *)
(***************************************************************************)
LeerUltima(p) ==
    LET q == sesion[p] IN
    /\ q.pc = "ultima"
    /\ Aislada(p, [q EXCEPT !.pc = "vigentes", !.ultima = Ultima(q.d)])
    /\ UNCHANGED pedidas /\ SinEscribir

(* Rows already in the session keep the state they were loaded with.       *)
Superables(q) ==
    {n \in Vigentes(q.d) :
        (IF n = q.num THEN q.v ELSE version[q.d][n]).estado
            \in {"PENDIENTE", "EN_REVISION"}}

(* Deliberate fault: the two queries the other way round.                  *)
LeerUltimaDespues(p) ==
    LET q == sesion[p] IN
    /\ q.pc = "vigentes"
    /\ Aislada(p, [q EXCEPT !.pc = IF q.op = "extraer" THEN "escribir"
                                                       ELSE "filas",
                            !.ultima = Ultima(q.d),
                            !.vigentes = {q.num}, !.superadas = {q.num}])
    /\ UNCHANGED pedidas /\ SinEscribir

LeerVigentes(p) ==
    LET q == sesion[p] IN
    /\ q.pc = "vigentes"
    /\ Aislada(p, [q EXCEPT !.pc = IF q.op = "extraer" THEN "escribir"
                                                       ELSE "filas",
                            !.vigentes = Vigentes(q.d),
                            !.superadas = Superables(q)])
    /\ UNCHANGED pedidas /\ SinEscribir

(* Approval looks for the rows its services belong on.                     *)
LeerFilas(p) ==
    LET q == sesion[p] IN
    /\ q.pc = "filas"
    /\ Aislada(p, [q EXCEPT !.pc = "aplicar", !.filas = fila])
    /\ UNCHANGED pedidas /\ SinEscribir

(***************************************************************************)
(* Writing.  An UPDATE sets the columns that differ from what was loaded.  *)
(***************************************************************************)
CreaVersion(op) == op \in {"corregir", "extraer"}

(* The unique constraint: the number was taken meanwhile.                  *)
Repetida(q) == /\ q.ultima < MaxVersiones
               /\ version[q.d][q.ultima + 1].estado # "nada"

(* The versions of a document once a new one is inserted.                  *)
ConVersion(q, estado) ==
    [n \in Numeros |->
        IF n = q.ultima + 1 THEN [q.nueva EXCEPT !.estado = estado]
        ELSE [version[q.d][n] EXCEPT
                 !.vigente = @ /\ n \notin q.vigentes,
                 !.estado = IF n \in q.superadas THEN "SUPERADA" ELSE @]]

(* Deliberate fault: the version takes the state of its document.          *)
ConEstadoAjeno(q, estado) == [version[q.d] EXCEPT ![q.num].estado = q.estado]

(* The loaded version takes a new state.                                   *)
ConEstado(q, estado) ==
    IF q.v.estado = estado THEN version[q.d]
    ELSE [version[q.d] EXCEPT ![q.num].estado = estado]

ConDocumento(q, nuevo) ==
    IF q.estado = nuevo THEN doc ELSE [doc EXCEPT ![q.d] = nuevo]

Terminar(p) == Aislada(p, Libre)

(* Every write marks the rows it changes under somebody else's feet.       *)
Anotar(p) ==
    pisada' = [s \in Servicios |-> [k \in Ids |->
        \/ pisada[s][k]
        \/ /\ fila'[s][k] # fila[s][k]
           /\ \E o \in Sesiones \ {p} :
                 /\ sesion[o].pc # "libre"
                 /\ sesion[o].filas[s][k].estado # "nada"]]

(***************************************************************************)
(* The tasks and the requests that touch no row of the itinerary.          *)
(***************************************************************************)
Destino(op) == CASE op = "extraer"    -> "EXTRAIDO"
                 [] op = "normalizar" -> "NORMALIZADO"
                 [] op = "finalizar"  -> "PENDIENTE_REVISION"
                 [] op = "reprocesar" -> "CLASIFICADO"
                 [] op = "rechazar"   -> "DESCARTADO"

Permitido(q) == q.op = "reprocesar" \/ Permite(q.estado, Destino(q.op))

(* finalize leaves the version in review and may go on to approve it.      *)
Escribir(p) ==
    LET q == sesion[p] IN
    /\ q.pc = "escribir" /\ Permitido(q)
    /\ ~(q.op = "extraer" /\ Repetida(q))
    /\ q.op = "extraer" => q.ultima < MaxVersiones
    /\ version' = [version EXCEPT ![q.d] =
          CASE q.op = "extraer"   -> ConVersion(q, "PENDIENTE")
            [] q.op = "finalizar" -> ConEstado(q, "EN_REVISION")
            [] q.op = "rechazar"  -> ConEstado(q, "RECHAZADA")
            [] OTHER              -> @]
    /\ doc' = ConDocumento(q, Destino(q.op))
    /\ IF q.op = "finalizar" /\ AutoAprobar
       THEN Aislada(p, [q EXCEPT !.pc = "recargar"])
       ELSE Terminar(p)
    /\ UNCHANGED <<fila, pedidas, solapadas, pisada>>

(* A forbidden transition or a repeated number: everything is rolled back. *)
Abortar(p) ==
    LET q == sesion[p] IN
    /\ \/ q.pc = "escribir" /\ ~Permitido(q)
       \/ q.pc = "escribir" /\ q.op = "extraer" /\ Repetida(q)
       \/ q.pc = "aplicar" /\ ~Permite(q.estado, "APROBADO")
       \/ q.pc = "aplicar" /\ q.op = "corregir" /\ Repetida(q)
    /\ Terminar(p)
    /\ UNCHANGED pedidas /\ SinEscribir

(* After finalize's commit the objects are loaded again, and the version is*)
(* approved by itself unless it is empty or somebody approved it first.    *)
Recargar(p) ==
    LET q == sesion[p]
        v == version[q.d][q.num] IN
    /\ q.pc = "recargar"
    /\ IF v.estado = "APROBADA" \/ v.n = 0 THEN Terminar(p)
       ELSE Aislada(p, [SesionDe(q.d) EXCEPT
               !.pc = "filas", !.estado = doc[q.d], !.num = q.num, !.v = v,
               !.nueva = v])
    /\ UNCHANGED pedidas /\ SinEscribir

(***************************************************************************)
(* Approval.                                                               *)
(***************************************************************************)

(* The live rows this service of this document made before.                *)
Propias(F, d, s) ==
    {k \in Ids : F[s][k].estado = "viva" /\ F[s][k].origen = d}

(* Deliberate fault: a confirmation does not look for a provisional row.   *)
AjenasSinAdoptar(F, d, s, soloProvisional) ==
    IF soloProvisional THEN {} ELSE
    LET todas == {k \in Ids : F[s][k].estado = "viva" /\ F[s][k].origen # d}
    IN IF Cardinality(todas) = 1 THEN todas ELSE {}

(* `_coincidente`: the row of another origin, when only one can be meant.  *)
Ajenas(F, d, s, soloProvisional) ==
    LET todas == {k \in Ids : /\ F[s][k].estado = "viva"
                              /\ F[s][k].origen # d
                              /\ soloProvisional => F[s][k].prov}
    IN IF Cardinality(todas) = 1 THEN todas ELSE {}

(* Deliberate fault: an approval does not look for the row it made before. *)
DestinosSinPropias(F, d, s) == Ajenas(F, d, s, d \notin Talones)

(* The rows a service may land on (`.first()` takes any of its own).       *)
Destinos(F, d, s) ==
    IF Propias(F, d, s) # {} THEN Propias(F, d, s)
    ELSE Ajenas(F, d, s, d \notin Talones)

(* A stub fills only the gaps of a row that is not its own.                *)
Escribe(r, d, v) ==
    v.valor # "vacio" /\ ~(d \in Talones /\ r.origen # d /\ r.valor # "vacio")

(* A confirmation that takes a row over becomes its origin.                *)
Aplicada(r, d, v) ==
    LET adopta == d \notin Talones /\ r.origen # d
        base == [r EXCEPT !.origen = IF adopta THEN d ELSE @,
                          !.prov = @ /\ ~adopta]
    IN IF Escribe(r, d, v)
       THEN [base EXCEPT !.valor = v.valor, !.proc = v.valor,
                         !.seguro = v.segura, !.revisar = ~v.segura]
       ELSE [base EXCEPT !.revisar = r.proc # "ninguna" /\ ~r.seguro]

FilaNueva(d, v) ==
    [Aplicada([SinFila EXCEPT !.origen = d], d, v) EXCEPT
        !.estado = "viva", !.prov = d \in Talones]

(* The row after an UPDATE by a session that loaded m and wants n; the     *)
(* provenance is a row of its own, appended when the field was applied.    *)
Escrita(f, m, n, anota) ==
    [estado  |-> IF n.estado # m.estado THEN n.estado ELSE f.estado,
     origen  |-> IF n.origen # m.origen THEN n.origen ELSE f.origen,
     prov    |-> IF n.prov # m.prov THEN n.prov ELSE f.prov,
     valor   |-> IF n.valor # m.valor THEN n.valor ELSE f.valor,
     proc    |-> IF anota THEN n.proc ELSE f.proc,
     seguro  |-> IF anota THEN n.seguro ELSE f.seguro,
     revisar |-> IF n.revisar # m.revisar THEN n.revisar ELSE f.revisar]

(* The roll-up is refreshed from the provenance there is by then.          *)
ConProcedencia(m, f) == [m EXCEPT !.proc = f.proc, !.seguro = f.seguro]

Libres(s) == {k \in Ids : fila[s][k].estado = "nada"}

Crea(q, s) == /\ s <= q.nueva.n /\ Destinos(q.filas, q.d, s) = {}
              /\ q.d \in Talones => q.nueva.fecha

(* One row of the itinerary after the approval: destino gives the row each *)
(* service lands on (0 for none).  What the document no longer describes is*)
(* withdrawn (`_retirar_sobrantes`).                                       *)
Resultado(q, destino, s, k) ==
    LET m == q.filas[s][k] IN
    IF s > q.nueva.n
    THEN IF m.estado = "viva" /\ m.origen = q.d
         THEN [fila[s][k] EXCEPT !.estado = "borrada"] ELSE fila[s][k]
    ELSE IF k # destino[s] THEN fila[s][k]
    ELSE IF Crea(q, s) THEN FilaNueva(q.d, q.nueva)
    ELSE Escrita(fila[s][k], m,
                 Aplicada(ConProcedencia(m, fila[s][k]), q.d, q.nueva),
                 Escribe(m, q.d, q.nueva))

Elegibles(q, s) ==
    IF s > q.nueva.n THEN {0}
    ELSE IF Crea(q, s) THEN {k \in Libres(s) : \A j \in Libres(s) : k <= j}
    ELSE IF Destinos(q.filas, q.d, s) = {} THEN {0}
    ELSE Destinos(q.filas, q.d, s)

Aplicar(p) ==
    LET q == sesion[p] IN
    /\ q.pc = "aplicar" /\ Permite(q.estado, "APROBADO")
    /\ q.op = "corregir" => ~Repetida(q) /\ q.ultima < MaxVersiones
    /\ \E destino \in [Servicios -> 0..MaxFilas] :
          /\ \A s \in Servicios : destino[s] \in Elegibles(q, s)
          /\ fila' = [s \in Servicios |-> [k \in Ids |->
                         Resultado(q, destino, s, k)]]
    /\ version' = [version EXCEPT ![q.d] =
          IF q.op = "corregir" THEN ConVersion(q, "APROBADA")
          ELSE ConEstado(q, "APROBADA")]
    /\ doc' = ConDocumento(q, "APROBADO")
    /\ solapadas' = (solapadas \/ \E o \in Sesiones \ {p} :
                                     sesion[o].pc = "aplicar")
    /\ Anotar(p) /\ Terminar(p)
    /\ UNCHANGED pedidas

(***************************************************************************)
(* People on the itinerary itself (itinerary_service).                     *)
(***************************************************************************)
Manual(r, x) == [r EXCEPT !.valor = x, !.proc = x, !.seguro = TRUE]

(* create_item: typed by a person, so above the threshold from the start.  *)
Crear(p) ==
    /\ sesion[p].pc = "libre" /\ CabePeticion(p)
    /\ pedidas' = pedidas + 1
    /\ \E s \in Servicios, x \in Valores \cup {"vacio"} :
          \E k \in Libres(s) :
             /\ \A j \in Libres(s) : k <= j
             /\ fila' = [fila EXCEPT ![s][k] =
                            [Manual(SinFila, x) EXCEPT !.estado = "viva"]]
    /\ UNCHANGED <<doc, version, sesion, solapadas, pisada>>

(* update_item, confirm_item and delete_item load one live row.            *)
PedirFila(p) ==
    /\ sesion[p].pc = "libre" /\ CabePeticion(p)
    /\ pedidas' = pedidas + 1
    /\ \E s \in Servicios, k \in Ids, op \in {"editar", "confirmar", "borrar"},
          x \in Valores :
          /\ fila[s][k].estado = "viva"
          /\ op = "confirmar" => fila[s][k].proc # "ninguna" /\ ~fila[s][k].seguro
          /\ op = "editar" => fila[s][k].valor # x
          /\ Aislada(p, [sesion[p] EXCEPT
                !.pc = "guardar", !.op = op, !.s = s, !.k = k, !.valor = x,
                !.filas = [SinFilas EXCEPT ![s][k] = fila[s][k]]])
    /\ SinEscribir

(* Deliberate fault: an edit leaves the mark «requiere revisión» alone.    *)
EditadaSinMarca(q, m) ==
    CASE q.op = "editar"    -> Manual(m, q.valor)
      [] q.op = "confirmar" -> [m EXCEPT !.seguro = TRUE, !.revisar = FALSE]
      [] q.op = "borrar"    -> [m EXCEPT !.estado = "borrada"]

(* What each of them makes of the row it loaded.                           *)
Editada(q, m) ==
    CASE q.op = "editar"    -> [Manual(m, q.valor) EXCEPT !.revisar = FALSE]
      [] q.op = "confirmar" -> [m EXCEPT !.seguro = TRUE, !.revisar = FALSE]
      [] q.op = "borrar"    -> [m EXCEPT !.estado = "borrada"]

Guardar(p) ==
    LET q == sesion[p]
        m == q.filas[q.s][q.k] IN
    /\ q.pc = "guardar"
    /\ fila' = [fila EXCEPT ![q.s][q.k] =
                   Escrita(@, m, Editada(q, m), q.op # "borrar")]
    /\ Anotar(p) /\ Terminar(p)
    /\ UNCHANGED <<doc, version, pedidas, solapadas>>

(***************************************************************************)
(* The specification.                                                      *)
(***************************************************************************)
Paso(p) == \/ Pedir(p) \/ LeerUltima(p) \/ LeerVigentes(p) \/ LeerFilas(p)
           \/ Escribir(p) \/ Abortar(p) \/ Recargar(p) \/ Aplicar(p)
           \/ Crear(p) \/ PedirFila(p) \/ Guardar(p)

Next == \E p \in Sesiones : Paso(p)

Spec == Init /\ [][Next]_vars

(***************************************************************************)
(* What must hold.                                                         *)
(***************************************************************************)

(* The type of every variable.                                             *)
TypeOK ==
    /\ doc \in [Documentos -> DocumentProcessState]
    /\ version \in [Documentos -> [Numeros -> Versiones]]
    /\ fila \in [Servicios -> [Ids -> Filas]]
    /\ sesion \in [Sesiones -> EstadosSesion]
    /\ pedidas \in Nat /\ solapadas \in BOOLEAN
    /\ pisada \in [Servicios -> [Ids -> BOOLEAN]]

(* Exactly one version of a document is in force, and it is the newest,    *)
(* whatever reviewers, tasks and redeliveries add at once: the only guard  *)
(* is the unique number, and it works because create_version asks for the  *)
(* highest number before it asks which ones are in force («Exactly one     *)
(* version per document carries this flag», extraction.py).                *)
UnaVigente ==
    \A d \in Documentos : Vigentes(d) = {Ultima(d)}

(* Approving a document again, with a correction, after a new reading or   *)
(* after people have edited and deleted its rows, never leaves two rows for*)
(* one of its services, unless two approvals overlapped.                   *)
SinDuplicados ==
    ~solapadas => \A d \in Documentos, s \in Servicios :
                     Cardinality(Propias(fila, d, s)) <= 1

(* The stub and the confirmation of a service meet in one row, whichever is*)
(* approved first, again, or after the row was withdrawn, unless a person  *)
(* typed a row of their own or approvals overlapped.  It is about one      *)
(* confirmation: a second one of the same service adds a row of its own.   *)
TalonYConfirmacion ==
    \A s \in Servicios :
        LET vivas == {k \in Ids : fila[s][k].estado = "viva"} IN
        ~solapadas /\ ~(\E k \in Ids : /\ fila[s][k].estado # "nada"
                                       /\ fila[s][k].origen = "nadie")
            => Cardinality(vivas) <= 1

(* The newest provenance of a field is about the value the row has, and the*)
(* mark «requiere revisión» about its confidence, after any sequence of    *)
(* approvals, completions, adoptions, edits and confirmations, as long as  *)
(* no two sessions wrote the same row from the same loaded state.          *)
ProcedenciaConcuerda ==
    \A s \in Servicios, k \in Ids :
        fila[s][k].estado = "viva" /\ ~pisada[s][k] =>
            /\ fila[s][k].proc # "ninguna" => fila[s][k].proc = fila[s][k].valor
            /\ fila[s][k].revisar <=> fila[s][k].proc # "ninguna"
                                      /\ ~fila[s][k].seguro

(***************************************************************************)
(* What the repository's documents say and the code does not do.           *)
(***************************************************************************)

(* extraction_service.py: approving again updates the row made before,     *)
(* rather than adding a second one.                                        *)
ReaprobarNoDuplica ==
    \A d \in Documentos, s \in Servicios : Cardinality(Propias(fila, d, s)) <= 1
=============================================================================
