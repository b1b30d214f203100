----------------------- MODULE ExtractionReviewProofs -----------------------
(***************************************************************************)
(* Proofs about ExtractionReview, for any documents, readings and bounds:  *)
(* types, that exactly one version of a document is ever in force, that    *)
(* the newest provenance of a field is about the value it has, that        *)
(* approving again adds no second row, and that a stub and the             *)
(* confirmation meet in one.                                               *)
(***************************************************************************)
EXTENDS ExtractionReview, FiniteSetTheorems, TLAPS

USE MaximosRevisionAssumption

(***************************************************************************)
(* The values the sessions work with.                                      *)
(***************************************************************************)

(* The states of a document, written out.                                  *)
LEMMA EstadosDeDocumento ==
  DocumentProcessState =
    {"RECIBIDO", "VALIDADO", "ESCANEADO", "ALMACENADO", "TEXTO_EXTRAIDO",
     "CLASIFICADO", "EXTRAIDO", "NORMALIZADO", "PENDIENTE_REVISION",
     "REVISADO", "APROBADO", "INFECTADO", "RECHAZADO", "DESCARTADO", "ERROR"}
<1>1. 1..11 = {1, 2, 3, 4, 5, 6, 7, 8, 9, 10, 11}
  OBVIOUS
<1>2. EnOrden =
        {"RECIBIDO", "VALIDADO", "ESCANEADO", "ALMACENADO", "TEXTO_EXTRAIDO",
         "CLASIFICADO", "EXTRAIDO", "NORMALIZADO", "PENDIENTE_REVISION",
         "REVISADO", "APROBADO"}
  BY <1>1 DEF EnOrden, DOCUMENT_PIPELINE_ORDER
<1> QED BY <1>2 DEF DocumentProcessState, DOCUMENT_TERMINAL_STATES

Itinerarios == [Servicios -> [Ids -> Filas]]

(* An empty itinerary is well typed.                                       *)
LEMMA SinFilaTipo == SinFila \in Filas /\ SinFilas \in Itinerarios
BY DEF SinFila, Filas, SinFilas, Itinerarios

(* So is a version that does not exist.                                    *)
LEMMA SinVersionTipo == SinVersion \in Versiones
BY DEF SinVersion, Versiones

(* A session just opened on a document is well typed.                      *)
LEMMA SesionDeTipo ==
  ASSUME NEW d \in Documentos
  PROVE  SesionDe(d) \in EstadosSesion
<1>1. 1 \in Numeros
  BY DEF Numeros
<1> QED
  BY <1>1, SinFilaTipo, SinVersionTipo, EstadosDeDocumento
     DEF SesionDe, EstadosSesion, OperacionesDeDocumento, Itinerarios

(* An idle session is well typed.                                          *)
LEMMA LibreTipo == Libre \in EstadosSesion /\ Libre.pc = "libre"
<1>1. (CHOOSE d \in Documentos : TRUE) \in Documentos
  BY DocumentosAssumption
<1> QED BY <1>1, SesionDeTipo DEF Libre, SesionDe

(* What was read is a version in force.                                    *)
LEMMA LeidaTipo ==
  ASSUME NEW l \in Lecturas, NEW e \in ExtractionState
  PROVE  /\ Leida(l, e) \in Versiones
         /\ Leida(l, e).vigente = TRUE
         /\ Leida(l, e).estado = e
BY LecturasAssumption DEF Leida, Versiones

(* What a request may bring along is a version; a reading and a correction *)
(* are in force from the start.                                            *)
LEMMA NuevasTipo ==
  ASSUME NEW op \in OperacionesDeDocumento, NEW v \in Versiones,
         NEW nueva \in Nuevas(op, v)
  PROVE  /\ nueva \in Versiones
         /\ CreaVersion(op) => nueva.vigente /\ nueva.estado # "nada"
<1>1. CASE op = "extraer"
  <2>1. PICK l \in Lecturas : nueva = Leida(l, "PENDIENTE")
    BY <1>1 DEF Nuevas
  <2> QED BY <2>1, LeidaTipo DEF ExtractionState
<1>2. CASE op = "corregir"
  <2>1. PICK x \in Valores \ {v.valor} : nueva = Correccion(v, x)
    BY <1>2 DEF Nuevas
  <2> QED BY <2>1 DEF Correccion, Versiones, ExtractionState
<1>3. CASE op \notin {"extraer", "corregir"}
  BY <1>3 DEF Nuevas, CreaVersion
<1> QED BY <1>1, <1>2, <1>3

(* What an approval makes of a row is a row, and so is a new one.          *)
LEMMA AplicadaTipo ==
  ASSUME NEW r \in Filas, NEW d \in Documentos, NEW v \in Versiones
  PROVE  Aplicada(r, d, v) \in Filas
<1> DEFINE adopta == d \notin Talones /\ r.origen # d
           base == [r EXCEPT !.origen = IF adopta THEN d ELSE @,
                             !.prov = @ /\ ~adopta]
<1>1. base \in Filas
  BY DEF Filas
<1>2. \A b \in Filas, x \in Valores \cup {"vacio"}, y \in BOOLEAN,
         z \in BOOLEAN :
        [b EXCEPT !.valor = x, !.proc = x, !.seguro = y, !.revisar = z] \in Filas
  BY DEF Filas
<1>4. /\ v.valor \in Valores \cup {"vacio"}
      /\ v.segura \in BOOLEAN /\ (~v.segura) \in BOOLEAN
  BY DEF Versiones
<1>3. \A b \in Filas :
        [b EXCEPT !.revisar = r.proc # "ninguna" /\ ~r.seguro] \in Filas
  BY DEF Filas
<1> QED BY <1>1, <1>2, <1>3, <1>4 DEF Aplicada

(* A row made from a version is a row.                                     *)
LEMMA FilaNuevaTipo ==
  ASSUME NEW d \in Documentos, NEW v \in Versiones
  PROVE  FilaNueva(d, v) \in Filas
<1>1. [SinFila EXCEPT !.origen = d] \in Filas
  BY SinFilaTipo DEF Filas
<1>2. Aplicada([SinFila EXCEPT !.origen = d], d, v) \in Filas
  BY <1>1, AplicadaTipo
<1>3. \A b \in Filas, z \in BOOLEAN :
        [b EXCEPT !.estado = "viva", !.prov = z] \in Filas
  BY DEF Filas
<1>4. (d \in Talones) \in BOOLEAN
  OBVIOUS
<1>5. [Aplicada([SinFila EXCEPT !.origen = d], d, v) EXCEPT
          !.estado = "viva", !.prov = d \in Talones] \in Filas
  BY <1>2, <1>3, <1>4, Zenon
<1> QED BY <1>5, Zenon DEF FilaNueva

(* A row after an UPDATE is a row.                                         *)
LEMMA EscritaTipo ==
  ASSUME NEW f \in Filas, NEW m \in Filas, NEW n \in Filas, NEW anota
  PROVE  Escrita(f, m, n, anota) \in Filas
BY DEF Escrita, Filas

(* Writing its provenance leaves a row a row.                              *)
LEMMA ConProcedenciaTipo ==
  ASSUME NEW m \in Filas, NEW f \in Filas
  PROVE  ConProcedencia(m, f) \in Filas
BY DEF ConProcedencia, Filas

(* What a person makes of a row is a row.                                  *)
LEMMA EditadaTipo ==
  ASSUME NEW q \in EstadosSesion, NEW m \in Filas,
         q.op \in {"editar", "confirmar", "borrar"}
  PROVE  Editada(q, m) \in Filas
<1>1. CASE q.op = "editar"
  BY <1>1 DEF Editada, Manual, Filas, EstadosSesion
<1>2. CASE q.op = "confirmar"
  BY <1>2 DEF Editada, Filas
<1>3. CASE q.op = "borrar"
  BY <1>3 DEF Editada, Filas
<1> QED BY <1>1, <1>2, <1>3

(***************************************************************************)
(* The inductive invariant.                                                *)
(***************************************************************************)
TiposVersion == [Documentos -> [Numeros -> Versiones]]

(* The versions a document has, and those in force.                        *)
Hay(V, d) == {n \in Numeros : V[d][n].estado # "nada"}
EnVigor(V, d) == {n \in Numeros : V[d][n].vigente}

(* Versions are numbered without gaps, and the last one is in force.       *)
NumeradoHasta(V, d, m) == Hay(V, d) = 1..m /\ EnVigor(V, d) = {m}

Numerado(V) == \A d \in Documentos : \E m \in Numeros : NumeradoHasta(V, d, m)

(* Each phase belongs to the operations that go through it, and works on a *)
(* version, or on a row, that exists.                                      *)
Coherente(q, V) ==
    /\ q.pc = "escribir" => q.op \in {"extraer", "normalizar", "finalizar",
                                      "rechazar", "reprocesar"}
    /\ q.pc \in {"ultima", "vigentes"} => q.op \in {"corregir", "extraer"}
    /\ q.pc \in {"filas", "aplicar"} => q.op \in {"aprobar", "corregir"}
    /\ q.pc = "recargar" => q.op = "finalizar"
    /\ q.pc = "guardar" => /\ q.op \in {"editar", "confirmar", "borrar"}
                           /\ q.s \in Servicios /\ q.k \in Ids
    /\ q.pc \notin {"libre", "guardar"} => q.num \in Hay(V, q.d)
    /\ q.pc \notin {"libre", "guardar"} /\ CreaVersion(q.op) =>
          q.nueva.vigente /\ q.nueva.estado # "nada"

(* A session about to add a version knows a number that was the highest;   *)
(* while it still is, what it will withdraw is that version.               *)
AlDia(q, V) ==
    /\ q.pc \in {"vigentes", "filas", "aplicar", "escribir"} /\ CreaVersion(q.op)
          => q.ultima \in Hay(V, q.d)
    /\ q.pc \in {"filas", "aplicar", "escribir"} /\ CreaVersion(q.op) =>
          /\ q.superadas \subseteq Hay(V, q.d)
          /\ EnVigor(V, q.d) = {q.ultima} => q.vigentes = {q.ultima}

RevisionInv ==
    /\ TypeOK
    /\ Numerado(version)
    /\ \A p \in Sesiones : Coherente(sesion[p], version) /\ AlDia(sesion[p], version)

(***************************************************************************)
(* What the writers do to the versions.                                    *)
(***************************************************************************)

(* Versions never go away, and what is in force changes only to a number   *)
(* that did not exist.                                                     *)
Crece(V, W) ==
    \A d \in Documentos :
        /\ Hay(V, d) \subseteq Hay(W, d)
        /\ \/ EnVigor(W, d) = EnVigor(V, d)
           \/ \E m \in Numeros \ Hay(V, d) : EnVigor(W, d) = {m}

(* Versions that stay as they are have grown.                              *)
LEMMA CreceQuieta == ASSUME NEW V PROVE Crece(V, V)
BY DEF Crece

(* What a session has loaded stays coherent when others write.             *)
LEMMA SesionResiste ==
  ASSUME NEW V, NEW W, NEW q \in EstadosSesion,
         Crece(V, W), Coherente(q, V), AlDia(q, V)
  PROVE  Coherente(q, W) /\ AlDia(q, W)
<1>1. q.d \in Documentos
  BY DEF EstadosSesion
<1>2. /\ Hay(V, q.d) \subseteq Hay(W, q.d)
      /\ \/ EnVigor(W, q.d) = EnVigor(V, q.d)
         \/ \E m \in Numeros \ Hay(V, q.d) : EnVigor(W, q.d) = {m}
  BY <1>1 DEF Crece
<1>3. Coherente(q, W)
  BY <1>2 DEF Coherente
<1>4. AlDia(q, W)
  BY <1>2 DEF AlDia
<1> QED BY <1>3, <1>4

(* `latest` is the last number.                                            *)
LEMMA UltimaEs ==
  ASSUME NEW d \in Documentos, NEW m \in Numeros, NumeradoHasta(version, d, m)
  PROVE  Ultima(d) = m /\ Vigentes(d) = {m} /\ Existentes(d) = 1..m
<1>1. Existentes(d) = 1..m /\ Vigentes(d) = {m}
  BY DEF NumeradoHasta, Hay, EnVigor, Existentes, Vigentes
<1>2. m \in Existentes(d) /\ \A n \in Existentes(d) : n <= m
  BY <1>1 DEF Numeros
<1>3. \A n \in Existentes(d) : (\A k \in Existentes(d) : k <= n) => n = m
  BY <1>1, <1>2 DEF Numeros
<1>4. Ultima(d) = m
  BY <1>2, <1>3 DEF Ultima
<1> QED BY <1>1, <1>4

(* A new state of the loaded version changes neither the numbers nor what  *)
(* is in force.                                                            *)
LEMMA ConEstadoQuieto ==
  ASSUME version \in TiposVersion, NEW q \in EstadosSesion,
         NEW e \in ExtractionState, q.num \in Hay(version, q.d)
  PROVE  /\ ConEstado(q, e) \in [Numeros -> Versiones]
         /\ \A n \in Numeros :
               /\ ConEstado(q, e)[n].vigente = version[q.d][n].vigente
               /\ ConEstado(q, e)[n].estado = "nada"
                     <=> version[q.d][n].estado = "nada"
<1>1. q.d \in Documentos /\ q.num \in Numeros
      /\ version[q.d] \in [Numeros -> Versiones]
  BY DEF EstadosSesion, TiposVersion
<1>2. CASE q.v.estado = e
  BY <1>1, <1>2 DEF ConEstado
<1>3. CASE q.v.estado # e
  <2>1. ConEstado(q, e) = [version[q.d] EXCEPT ![q.num].estado = e]
    BY <1>3 DEF ConEstado
  <2>2. version[q.d][q.num].estado # "nada" /\ e # "nada"
    BY DEF Hay, ExtractionState
  <2>3. \A r \in Versiones : /\ [r EXCEPT !.estado = e] \in Versiones
                             /\ [r EXCEPT !.estado = e].estado = e
                             /\ [r EXCEPT !.estado = e].vigente = r.vigente
    BY DEF Versiones
  <2> QED BY <1>1, <2>1, <2>2, <2>3
<1> QED BY <1>2, <1>3

(* The next version of a document, when its number was free: the numbers   *)
(* still have no gap, and it is the one in force.                          *)
LEMMA ConVersionSigue ==
  ASSUME version \in TiposVersion, Numerado(version),
         NEW q \in EstadosSesion, NEW e \in ExtractionState,
         q.pc \in {"filas", "aplicar", "escribir"}, CreaVersion(q.op),
         Coherente(q, version), AlDia(q, version),
         q.ultima < MaxVersiones, ~Repetida(q)
  PROVE  LET m == q.ultima + 1
             W == ConVersion(q, e)
         IN /\ W \in [Numeros -> Versiones]
            /\ m \in Numeros \ Hay(version, q.d)
            /\ {n \in Numeros : W[n].estado # "nada"} = 1..m
            /\ {n \in Numeros : W[n].vigente} = {m}
            /\ Hay(version, q.d) \subseteq 1..m
<1> DEFINE m == q.ultima + 1
           W == ConVersion(q, e)
<1>1. /\ q.d \in Documentos /\ q.ultima \in 0..MaxVersiones
      /\ q.nueva \in Versiones
      /\ version[q.d] \in [Numeros -> Versiones]
  BY DEF EstadosSesion, TiposVersion
<1>2. PICK u \in Numeros : NumeradoHasta(version, q.d, u)
  BY <1>1 DEF Numerado
<1>3. q.ultima \in 1..u
  BY <1>2 DEF AlDia, NumeradoHasta
<1>4. m \in Numeros /\ m \notin Hay(version, q.d)
  BY <1>1 DEF Repetida, Hay, Numeros
<1>5. u = q.ultima
  BY <1>2, <1>3, <1>4 DEF NumeradoHasta, Numeros
<1>6. q.vigentes = {u} /\ q.superadas \subseteq 1..u
  BY <1>2, <1>5 DEF AlDia, NumeradoHasta
<1>7. W = [n \in Numeros |->
              IF n = m THEN [q.nueva EXCEPT !.estado = e]
              ELSE [version[q.d][n] EXCEPT
                       !.vigente = @ /\ n \notin q.vigentes,
                       !.estado = IF n \in q.superadas THEN "SUPERADA" ELSE @]]
  BY DEF ConVersion
<1>8. \A r \in Versiones :
         /\ [r EXCEPT !.estado = e] \in Versiones
         /\ [r EXCEPT !.estado = e].vigente = r.vigente
         /\ [r EXCEPT !.estado = e].estado = e
  BY DEF Versiones
<1>9. W[m] = [q.nueva EXCEPT !.estado = e]
  BY <1>4, <1>7
<1>10. /\ W[m] \in Versiones /\ W[m].vigente /\ W[m].estado # "nada"
  <2>1. q.nueva.vigente /\ e # "nada"
    BY DEF Coherente, ExtractionState
  <2> QED BY <1>1, <1>8, <1>9, <2>1
<1>11. ASSUME NEW n \in Numeros, n # m
       PROVE  /\ W[n] \in Versiones
              /\ W[n].vigente <=> version[q.d][n].vigente /\ n \notin q.vigentes
              /\ W[n].estado = IF n \in q.superadas THEN "SUPERADA"
                               ELSE version[q.d][n].estado
  <2>1. version[q.d][n] \in Versiones
    BY <1>1
  <2>2. W[n] = [version[q.d][n] EXCEPT
                   !.vigente = @ /\ n \notin q.vigentes,
                   !.estado = IF n \in q.superadas THEN "SUPERADA" ELSE @]
    BY <1>7, <1>11
  <2> QED BY <2>1, <2>2 DEF Versiones, ExtractionState
<1>12. W \in [Numeros -> Versiones]
  <2>1. \A n \in Numeros : W[n] \in Versiones
    BY <1>10, <1>11
  <2> QED BY <1>7, <2>1, Zenon
<1>13. {n \in Numeros : W[n].vigente} = {m}
  BY <1>2, <1>4, <1>6, <1>10, <1>11 DEF NumeradoHasta, EnVigor
<1>14. {n \in Numeros : W[n].estado # "nada"} = 1..m
  <2>1. \A n \in Numeros : n # m => (W[n].estado # "nada" <=> n \in 1..u)
    BY <1>2, <1>6, <1>11 DEF NumeradoHasta, Hay
  <2>2. 1..m \subseteq Numeros /\ 1..m = 1..u \cup {m}
    BY <1>4, <1>5 DEF Numeros
  <2> QED BY <1>4, <1>10, <2>1, <2>2
<1>15. Hay(version, q.d) \subseteq 1..m
  BY <1>1, <1>2, <1>5 DEF NumeradoHasta
<1> QED BY <1>4, <1>12, <1>13, <1>14, <1>15

(* What follows for the versions of all the documents.                     *)
LEMMA NumeradoSigue ==
  ASSUME version \in TiposVersion, Numerado(version), NEW d \in Documentos,
         NEW W \in [Numeros -> Versiones], NEW V,
         V = [version EXCEPT ![d] = W],
         \/ \A n \in Numeros :
               /\ W[n].vigente = version[d][n].vigente
               /\ W[n].estado = "nada" <=> version[d][n].estado = "nada"
         \/ \E m \in Numeros \ Hay(version, d) :
               /\ {n \in Numeros : W[n].estado # "nada"} = 1..m
               /\ {n \in Numeros : W[n].vigente} = {m}
               /\ Hay(version, d) \subseteq 1..m
  PROVE  V \in TiposVersion /\ Numerado(V) /\ Crece(version, V)
<1>1. /\ V \in TiposVersion /\ V[d] = W
      /\ \A c \in Documentos : c # d => V[c] = version[c]
  BY DEF TiposVersion
<1>2. \A c \in Documentos : c # d => /\ Hay(V, c) = Hay(version, c)
                                     /\ EnVigor(V, c) = EnVigor(version, c)
  BY <1>1 DEF Hay, EnVigor
<1>3. CASE \A n \in Numeros :
               /\ W[n].vigente = version[d][n].vigente
               /\ W[n].estado = "nada" <=> version[d][n].estado = "nada"
  <2>1. Hay(V, d) = Hay(version, d) /\ EnVigor(V, d) = EnVigor(version, d)
    BY <1>1, <1>3 DEF Hay, EnVigor
  <2> QED BY <1>1, <1>2, <2>1 DEF Numerado, NumeradoHasta, Crece
<1>4. CASE \E m \in Numeros \ Hay(version, d) :
               /\ {n \in Numeros : W[n].estado # "nada"} = 1..m
               /\ {n \in Numeros : W[n].vigente} = {m}
               /\ Hay(version, d) \subseteq 1..m
  <2>1. PICK m \in Numeros \ Hay(version, d) :
               /\ Hay(V, d) = 1..m
               /\ EnVigor(V, d) = {m}
               /\ Hay(version, d) \subseteq 1..m
    BY <1>1, <1>4 DEF Hay, EnVigor
  <2> QED BY <1>1, <1>2, <2>1 DEF Numerado, NumeradoHasta, Crece
<1> QED BY <1>3, <1>4

(***************************************************************************)
(* What the writers do to the itinerary.                                   *)
(***************************************************************************)

(* The rows a service may land on are rows.                                *)
LEMMA DestinosSonIds ==
  ASSUME NEW F, NEW d, NEW s
  PROVE  Destinos(F, d, s) \subseteq Ids
BY DEF Destinos, Propias, Ajenas

(* Every row after an approval is a row.                                   *)
LEMMA ResultadoTipo ==
  ASSUME fila \in Itinerarios, NEW q \in EstadosSesion, NEW destino,
         NEW s \in Servicios, NEW k \in Ids
  PROVE  Resultado(q, destino, s, k) \in Filas
<1>1. /\ q.filas[s][k] \in Filas /\ fila[s][k] \in Filas
      /\ q.d \in Documentos /\ q.nueva \in Versiones
  BY DEF EstadosSesion, Itinerarios
<1>2. [fila[s][k] EXCEPT !.estado = "borrada"] \in Filas
  BY <1>1 DEF Filas
<1>3. FilaNueva(q.d, q.nueva) \in Filas
  BY <1>1, FilaNuevaTipo
<1>4. Aplicada(ConProcedencia(q.filas[s][k], fila[s][k]), q.d, q.nueva) \in Filas
  BY <1>1, ConProcedenciaTipo, AplicadaTipo
<1>5. Escrita(fila[s][k], q.filas[s][k],
              Aplicada(ConProcedencia(q.filas[s][k], fila[s][k]), q.d, q.nueva),
              Escribe(q.filas[s][k], q.d, q.nueva)) \in Filas
  BY <1>1, <1>4, EscritaTipo
<1> QED BY <1>1, <1>2, <1>3, <1>5 DEF Resultado

TiposPisada == [Servicios -> [Ids -> BOOLEAN]]

(* The mark of a row changed under somebody's feet is a mark.              *)
LEMMA AnotarTipo ==
  ASSUME NEW p \in Sesiones, Anotar(p)
  PROVE  pisada' \in TiposPisada
<1> DEFINE P(s, k) ==
        \/ pisada[s][k]
        \/ /\ fila'[s][k] # fila[s][k]
           /\ \E o \in Sesiones \ {p} :
                 /\ sesion[o].pc # "libre"
                 /\ sesion[o].filas[s][k].estado # "nada"
<1>1. pisada' = [s \in Servicios |-> [k \in Ids |-> P(s, k)]]
  BY DEF Anotar
<1>2. \A s \in Servicios, k \in Ids : P(s, k) \in BOOLEAN
  OBVIOUS
<1> HIDE DEF P
<1> QED BY <1>1, <1>2 DEF TiposPisada

(***************************************************************************)
(* Every step.                                                             *)
(***************************************************************************)

(* An idle session promises nothing.                                       *)
LEMMA LibreCoherente ==
  ASSUME NEW V
  PROVE  Coherente(Libre, V) /\ AlDia(Libre, V)
BY LibreTipo DEF Coherente, AlDia

(* A step keeps the invariant when it leaves the session that took it      *)
(* coherent and writes what its type allows.                               *)
LEMMA Cierra ==
  ASSUME RevisionInv, NEW p \in Sesiones, NEW r \in EstadosSesion,
         sesion' = [sesion EXCEPT ![p] = r],
         Coherente(r, version'), AlDia(r, version'),
         version' \in TiposVersion, Numerado(version'), Crece(version, version'),
         doc' \in [Documentos -> DocumentProcessState], fila' \in Itinerarios,
         pedidas' \in Nat, solapadas' \in BOOLEAN, pisada' \in TiposPisada
  PROVE  RevisionInv'
<1>1. sesion \in [Sesiones -> EstadosSesion]
  BY DEF RevisionInv, TypeOK
<1>2. sesion' \in [Sesiones -> EstadosSesion]
  BY <1>1
<1>3. TypeOK'
  BY <1>2 DEF TypeOK, TiposVersion, Itinerarios, TiposPisada
<1>4. ASSUME NEW o \in Sesiones
      PROVE  Coherente(sesion'[o], version') /\ AlDia(sesion'[o], version')
  <2>1. CASE o = p
    BY <1>1, <2>1
  <2>2. CASE o # p
    <3>1. sesion'[o] = sesion[o] /\ sesion[o] \in EstadosSesion
      BY <1>1, <2>2
    <3>2. Coherente(sesion[o], version) /\ AlDia(sesion[o], version)
      BY DEF RevisionInv
    <3> QED BY <3>1, <3>2, SesionResiste
  <2> QED BY <2>1, <2>2
<1> QED BY <1>3, <1>4 DEF RevisionInv

(* In particular when it writes nothing at all.                            *)
LEMMA CierraSinEscribir ==
  ASSUME RevisionInv, NEW p \in Sesiones, NEW r \in EstadosSesion,
         Aislada(p, r), SinEscribir, pedidas' \in Nat,
         Coherente(r, version), AlDia(r, version)
  PROVE  RevisionInv'
<1>1. /\ version' = version /\ doc' = doc /\ fila' = fila
      /\ solapadas' = solapadas /\ pisada' = pisada
      /\ sesion' = [sesion EXCEPT ![p] = r]
  BY DEF SinEscribir, Aislada
<1>2. /\ version \in TiposVersion /\ Numerado(version)
      /\ doc \in [Documentos -> DocumentProcessState] /\ fila \in Itinerarios
      /\ solapadas \in BOOLEAN /\ pisada \in TiposPisada
  BY DEF RevisionInv, TypeOK, TiposVersion, Itinerarios, TiposPisada
<1> QED BY <1>1, <1>2, Cierra, CreceQuieta

(* A request arrives.                                                      *)
LEMMA PedirMantiene ==
  ASSUME RevisionInv, NEW p \in Sesiones, Pedir(p)
  PROVE  RevisionInv'
<1>1. PICK d \in Documentos, op \in OperacionesDeDocumento, n \in Numeros :
         /\ EsActual(d, n)
         /\ pedidas' = IF op \in Tareas THEN pedidas ELSE pedidas + 1
         /\ \E nueva \in Nuevas(op, version[d][n]) :
               Aislada(p, [SesionDe(d) EXCEPT
                  !.pc = PrimerPaso(op), !.op = op, !.estado = doc[d],
                  !.num = n, !.v = version[d][n], !.nueva = nueva])
  BY DEF Pedir
<1>2. PICK nueva \in Nuevas(op, version[d][n]) :
               Aislada(p, [SesionDe(d) EXCEPT
                  !.pc = PrimerPaso(op), !.op = op, !.estado = doc[d],
                  !.num = n, !.v = version[d][n], !.nueva = nueva])
  BY <1>1
<1> DEFINE r == [SesionDe(d) EXCEPT
                  !.pc = PrimerPaso(op), !.op = op, !.estado = doc[d],
                  !.num = n, !.v = version[d][n], !.nueva = nueva]
<1>3. /\ version[d][n] \in Versiones /\ doc[d] \in DocumentProcessState
      /\ pedidas' \in Nat
  BY <1>1 DEF RevisionInv, TypeOK
<1>4. nueva \in Versiones /\ (CreaVersion(op) => nueva.vigente
                                                 /\ nueva.estado # "nada")
  BY <1>2, <1>3, NuevasTipo
<1>5. /\ PrimerPaso(op) \in {"ultima", "filas", "escribir"}
      /\ PrimerPaso(op) = "ultima" <=> op \in {"corregir", "extraer"}
      /\ PrimerPaso(op) = "filas" <=> op = "aprobar"
  BY DEF PrimerPaso
<1>6. /\ r \in EstadosSesion /\ r.pc = PrimerPaso(op) /\ r.op = op
      /\ r.d = d /\ r.num = n /\ r.nueva = nueva
  BY <1>3, <1>4, <1>5, SesionDeTipo DEF EstadosSesion, SesionDe
<1>7. n \in Hay(version, d)
  <2>1. PICK m \in Numeros : NumeradoHasta(version, d, m)
    BY DEF RevisionInv, Numerado
  <2> QED BY <1>1, <2>1, UltimaEs DEF EsActual, NumeradoHasta, Numeros
<1>8. Coherente(r, version)
  BY <1>4, <1>5, <1>6, <1>7 DEF Coherente, OperacionesDeDocumento
<1>9. AlDia(r, version)
  BY <1>5, <1>6 DEF AlDia, CreaVersion
<1> HIDE DEF r
<1>10. SinEscribir
  BY DEF Pedir
<1>11. Aislada(p, r)
  BY <1>2 DEF r
<1> QED BY <1>3, <1>6, <1>8, <1>9, <1>10, <1>11, CierraSinEscribir

(* The two queries of `create_version`, and the one of an approval.        *)
LEMMA LeerMantiene ==
  ASSUME RevisionInv, NEW p \in Sesiones,
         LeerUltima(p) \/ LeerVigentes(p) \/ LeerFilas(p)
  PROVE  RevisionInv'
<1> DEFINE q == sesion[p]
<1>1. /\ q \in EstadosSesion /\ Coherente(q, version) /\ AlDia(q, version)
      /\ q.d \in Documentos /\ pedidas \in Nat /\ fila \in Itinerarios
  BY DEF RevisionInv, TypeOK, EstadosSesion, Itinerarios
<1>2. PICK m \in Numeros : NumeradoHasta(version, q.d, m)
  BY <1>1 DEF RevisionInv, Numerado
<1>3. /\ Ultima(q.d) = m /\ Vigentes(q.d) = {m} /\ m \in Hay(version, q.d)
      /\ EnVigor(version, q.d) = {m}
  BY <1>1, <1>2, UltimaEs DEF NumeradoHasta, Numeros
<1>4. CASE LeerUltima(p)
  <2> DEFINE r == [q EXCEPT !.pc = "vigentes", !.ultima = Ultima(q.d)]
  <2>4. Ultima(q.d) \in 0..MaxVersiones
    BY <1>3 DEF Numeros
  <2>1. r \in EstadosSesion
    BY <1>1, <2>4 DEF EstadosSesion
  <2>2. Coherente(r, version) /\ AlDia(r, version)
    BY <1>1, <1>3, <1>4 DEF LeerUltima, Coherente, AlDia, EstadosSesion
  <2>3. Aislada(p, r) /\ SinEscribir /\ pedidas' \in Nat
    BY <1>1, <1>4 DEF LeerUltima
  <2> HIDE DEF r
  <2> QED BY <2>1, <2>2, <2>3, CierraSinEscribir
<1>5. CASE LeerVigentes(p)
  <2> DEFINE r == [q EXCEPT !.pc = IF q.op = "extraer" THEN "escribir"
                                                       ELSE "filas",
                            !.vigentes = Vigentes(q.d),
                            !.superadas = Superables(q)]
  <2>1. Superables(q) \subseteq {m}
    BY <1>3 DEF Superables
  <2>2. r \in EstadosSesion
    BY <1>1, <1>3, <2>1 DEF EstadosSesion
  <2>6. /\ r.pc = IF q.op = "extraer" THEN "escribir" ELSE "filas"
        /\ r.op = q.op /\ r.d = q.d /\ r.num = q.num /\ r.nueva = q.nueva
        /\ r.ultima = q.ultima /\ r.vigentes = {m} /\ r.superadas \subseteq {m}
    BY <1>1, <1>3, <2>1 DEF EstadosSesion
  <2> HIDE DEF r
  <2>3. Coherente(r, version) /\ AlDia(r, version)
    <3>1. q.pc = "vigentes" /\ q.op \in {"corregir", "extraer"}
      BY <1>1, <1>5 DEF LeerVigentes, Coherente
    <3>2. Coherente(r, version)
      BY <1>1, <2>6, <3>1 DEF Coherente
    <3>3. AlDia(r, version)
      BY <1>1, <1>3, <2>6, <3>1 DEF AlDia
    <3> QED BY <3>2, <3>3
  <2>4. Aislada(p, r) /\ SinEscribir /\ pedidas' \in Nat
    BY <1>1, <1>5 DEF LeerVigentes, r
  <2> QED BY <2>2, <2>3, <2>4, CierraSinEscribir
<1>6. CASE LeerFilas(p)
  <2> DEFINE r == [q EXCEPT !.pc = "aplicar", !.filas = fila]
  <2>1. r \in EstadosSesion
    BY <1>1 DEF EstadosSesion, Itinerarios
  <2>2. Coherente(r, version) /\ AlDia(r, version)
    BY <1>1, <1>6 DEF LeerFilas, Coherente, AlDia, EstadosSesion
  <2>3. Aislada(p, r) /\ SinEscribir /\ pedidas' \in Nat
    BY <1>1, <1>6 DEF LeerFilas
  <2> HIDE DEF r
  <2> QED BY <2>1, <2>2, <2>3, CierraSinEscribir
<1> QED BY <1>4, <1>5, <1>6

(* The tasks and the requests that touch no row.                           *)
LEMMA EscribirMantiene ==
  ASSUME RevisionInv, NEW p \in Sesiones, Escribir(p)
  PROVE  RevisionInv'
<1> DEFINE q == sesion[p]
<1>1. /\ q \in EstadosSesion /\ Coherente(q, version) /\ AlDia(q, version)
      /\ q.d \in Documentos /\ pedidas \in Nat /\ fila \in Itinerarios
      /\ version \in TiposVersion /\ Numerado(version)
      /\ doc \in [Documentos -> DocumentProcessState]
      /\ solapadas \in BOOLEAN /\ pisada \in TiposPisada
  BY DEF RevisionInv, TypeOK, EstadosSesion, Itinerarios, TiposVersion,
         TiposPisada
<1>2. /\ q.pc = "escribir" /\ q.num \in Hay(version, q.d)
      /\ q.op \in {"extraer", "normalizar", "finalizar", "rechazar",
                   "reprocesar"}
  BY <1>1 DEF Escribir, Coherente
<1>3. doc' \in [Documentos -> DocumentProcessState]
  <2>1. Destino(q.op) \in DocumentProcessState
    BY <1>2, EstadosDeDocumento DEF Destino
  <2> QED BY <1>1, <2>1 DEF Escribir, ConDocumento
<1>4. version' \in TiposVersion /\ Numerado(version') /\ Crece(version, version')
  <2>1. CASE q.op = "extraer"
    <3>1. version' = [version EXCEPT ![q.d] = ConVersion(q, "PENDIENTE")]
      BY <2>1 DEF Escribir
    <3>2. q.ultima < MaxVersiones /\ ~Repetida(q) /\ CreaVersion(q.op)
      BY <2>1 DEF Escribir, CreaVersion
    <3>3. "PENDIENTE" \in ExtractionState
      BY DEF ExtractionState
    <3>4. LET m == q.ultima + 1
              W == ConVersion(q, "PENDIENTE")
          IN /\ W \in [Numeros -> Versiones]
             /\ m \in Numeros \ Hay(version, q.d)
             /\ {n \in Numeros : W[n].estado # "nada"} = 1..m
             /\ {n \in Numeros : W[n].vigente} = {m}
             /\ Hay(version, q.d) \subseteq 1..m
      BY <1>1, <1>2, <3>2, <3>3, ConVersionSigue
    <3> QED BY <1>1, <3>1, <3>4, NumeradoSigue
  <2>2. CASE q.op \in {"finalizar", "rechazar"}
    <3>1. PICK e \in ExtractionState :
             version' = [version EXCEPT ![q.d] = ConEstado(q, e)]
      BY <2>2 DEF Escribir, ExtractionState
    <3> QED BY <1>1, <1>2, <3>1, ConEstadoQuieto, NumeradoSigue
  <2>3. CASE q.op \in {"normalizar", "reprocesar"}
    <3>1. version' = version
      BY <1>1, <2>3 DEF Escribir, TiposVersion
    <3> QED BY <1>1, <3>1, CreceQuieta
  <2> QED BY <1>2, <2>1, <2>2, <2>3
<1>5. UNCHANGED <<fila, pedidas, solapadas, pisada>>
  BY DEF Escribir
<1>6. CASE q.op = "finalizar" /\ AutoAprobar
  <2> DEFINE r == [q EXCEPT !.pc = "recargar"]
  <2>1. /\ r \in EstadosSesion /\ r.pc = "recargar" /\ r.op = "finalizar"
        /\ r.d = q.d /\ r.num = q.num
    BY <1>1, <1>6 DEF EstadosSesion
  <2>2. sesion' = [sesion EXCEPT ![p] = r]
    BY <1>6 DEF Escribir, Aislada
  <2> HIDE DEF r
  <2>3. q.num \in Hay(version', q.d)
    BY <1>1, <1>2, <1>4 DEF Crece
  <2>4. Coherente(r, version') /\ AlDia(r, version')
    BY <2>1, <2>3 DEF Coherente, AlDia, CreaVersion
  <2> QED BY <1>1, <1>3, <1>4, <1>5, <2>1, <2>2, <2>4, Cierra
<1>7. CASE ~(q.op = "finalizar" /\ AutoAprobar)
  <2>1. sesion' = [sesion EXCEPT ![p] = Libre]
    BY <1>7 DEF Escribir, Terminar, Aislada
  <2> QED BY <1>1, <1>3, <1>4, <1>5, <2>1, LibreTipo, LibreCoherente, Cierra
<1> QED BY <1>6, <1>7

(* A rollback, and the reload before an automatic approval.                *)
LEMMA AbortarMantiene ==
  ASSUME RevisionInv, NEW p \in Sesiones, Abortar(p) \/ Recargar(p)
  PROVE  RevisionInv'
<1> DEFINE q == sesion[p]
           r == [SesionDe(q.d) EXCEPT
                   !.pc = "filas", !.estado = doc[q.d], !.num = q.num,
                   !.v = version[q.d][q.num], !.nueva = version[q.d][q.num]]
<1>1. SinEscribir /\ pedidas' \in Nat
  BY DEF Abortar, Recargar, RevisionInv, TypeOK
<1>2. CASE Aislada(p, Libre)
  BY <1>1, <1>2, LibreTipo, LibreCoherente, CierraSinEscribir
<1>3. CASE Aislada(p, r) /\ q.pc = "recargar"
  <2>1. /\ q \in EstadosSesion /\ Coherente(q, version)
        /\ q.d \in Documentos /\ q.num \in Numeros
        /\ version[q.d][q.num] \in Versiones
        /\ doc[q.d] \in DocumentProcessState
    BY DEF RevisionInv, TypeOK, EstadosSesion
  <2>2. /\ r \in EstadosSesion /\ r.pc = "filas" /\ r.op = "aprobar"
        /\ r.d = q.d /\ r.num = q.num
    BY <2>1, SesionDeTipo DEF EstadosSesion, SesionDe
  <2>3. q.num \in Hay(version, q.d)
    BY <1>3, <2>1 DEF Coherente
  <2> HIDE DEF r
  <2>4. Coherente(r, version) /\ AlDia(r, version)
    BY <2>2, <2>3 DEF Coherente, AlDia, CreaVersion
  <2> QED BY <1>1, <1>3, <2>2, <2>4, CierraSinEscribir
<1> QED BY <1>2, <1>3 DEF Abortar, Recargar, Terminar

(* Approval.                                                               *)
LEMMA AplicarMantiene ==
  ASSUME RevisionInv, NEW p \in Sesiones, Aplicar(p)
  PROVE  RevisionInv'
<1> DEFINE q == sesion[p]
<1>1. /\ q \in EstadosSesion /\ Coherente(q, version) /\ AlDia(q, version)
      /\ q.d \in Documentos /\ pedidas \in Nat /\ fila \in Itinerarios
      /\ version \in TiposVersion /\ Numerado(version)
      /\ doc \in [Documentos -> DocumentProcessState]
  BY DEF RevisionInv, TypeOK, EstadosSesion, Itinerarios, TiposVersion
<1>2. /\ q.pc = "aplicar" /\ q.num \in Hay(version, q.d)
      /\ q.op \in {"aprobar", "corregir"}
  BY <1>1 DEF Aplicar, Coherente
<1>3. doc' \in [Documentos -> DocumentProcessState]
  BY <1>1, EstadosDeDocumento DEF Aplicar, ConDocumento
<1>4. "APROBADA" \in ExtractionState
  BY DEF ExtractionState
<1>5. version' \in TiposVersion /\ Numerado(version') /\ Crece(version, version')
  <2>1. CASE q.op = "corregir"
    <3>1. version' = [version EXCEPT ![q.d] = ConVersion(q, "APROBADA")]
      BY <2>1 DEF Aplicar
    <3>2. q.ultima < MaxVersiones /\ ~Repetida(q) /\ CreaVersion(q.op)
      BY <2>1 DEF Aplicar, CreaVersion
    <3>3. LET m == q.ultima + 1
              W == ConVersion(q, "APROBADA")
          IN /\ W \in [Numeros -> Versiones]
             /\ m \in Numeros \ Hay(version, q.d)
             /\ {n \in Numeros : W[n].estado # "nada"} = 1..m
             /\ {n \in Numeros : W[n].vigente} = {m}
             /\ Hay(version, q.d) \subseteq 1..m
      BY <1>1, <1>2, <1>4, <3>2, ConVersionSigue
    <3> QED BY <1>1, <3>1, <3>3, NumeradoSigue
  <2>2. CASE q.op # "corregir"
    <3>1. version' = [version EXCEPT ![q.d] = ConEstado(q, "APROBADA")]
      BY <2>2 DEF Aplicar
    <3> QED BY <1>1, <1>2, <1>4, <3>1, ConEstadoQuieto, NumeradoSigue
  <2> QED BY <2>1, <2>2
<1>6. fila' \in Itinerarios
  <2>1. PICK destino :
           fila' = [s \in Servicios |-> [k \in Ids |->
                       Resultado(q, destino, s, k)]]
    BY DEF Aplicar
  <2> QED BY <1>1, <2>1, ResultadoTipo DEF Itinerarios
<1>7. pisada' \in TiposPisada
  BY AnotarTipo DEF Aplicar
<1>8. solapadas' \in BOOLEAN /\ pedidas' = pedidas
  <2>1. \A a, b : (a \/ b) \in BOOLEAN
    OBVIOUS
  <2> QED BY <2>1 DEF Aplicar
<1>9. sesion' = [sesion EXCEPT ![p] = Libre]
  BY DEF Aplicar, Terminar, Aislada
<1> QED BY <1>1, <1>3, <1>5, <1>6, <1>7, <1>8, <1>9, LibreTipo,
           LibreCoherente, Cierra

(* A person types a row, or takes one up to edit, confirm or delete.       *)
LEMMA PedirFilaMantiene ==
  ASSUME RevisionInv, NEW p \in Sesiones, Crear(p) \/ PedirFila(p)
  PROVE  RevisionInv'
<1> DEFINE q == sesion[p]
<1>1. /\ q \in EstadosSesion /\ Coherente(q, version) /\ AlDia(q, version)
      /\ pedidas \in Nat /\ fila \in Itinerarios
      /\ version \in TiposVersion /\ Numerado(version)
      /\ doc \in [Documentos -> DocumentProcessState]
      /\ solapadas \in BOOLEAN /\ pisada \in TiposPisada
  BY DEF RevisionInv, TypeOK, Itinerarios, TiposVersion, TiposPisada
<1>2. CASE Crear(p)
  <2>1. PICK s \in Servicios, x \in Valores \cup {"vacio"}, k \in Ids :
           fila' = [fila EXCEPT ![s][k] =
                       [Manual(SinFila, x) EXCEPT !.estado = "viva"]]
    BY <1>2 DEF Crear, Libres
  <2>2. [Manual(SinFila, x) EXCEPT !.estado = "viva"] \in Filas
    BY SinFilaTipo DEF Manual, Filas
  <2>3. fila' \in Itinerarios
    BY <1>1, <2>1, <2>2 DEF Itinerarios
  <2>4. sesion' = [sesion EXCEPT ![p] = q]
    BY <1>2 DEF Crear, RevisionInv, TypeOK
  <2>5. /\ version' = version /\ doc' = doc /\ solapadas' = solapadas
        /\ pisada' = pisada /\ pedidas' \in Nat
    BY <1>1, <1>2 DEF Crear
  <2> HIDE DEF q
  <2> QED BY <1>1, <2>3, <2>4, <2>5, Cierra, CreceQuieta
<1>3. CASE PedirFila(p)
  <2>1. PICK s \in Servicios, k \in Ids, op \in {"editar", "confirmar", "borrar"},
             x \in Valores :
           Aislada(p, [q EXCEPT
                !.pc = "guardar", !.op = op, !.s = s, !.k = k, !.valor = x,
                !.filas = [SinFilas EXCEPT ![s][k] = fila[s][k]]])
    BY <1>3 DEF PedirFila
  <2> DEFINE F == [SinFilas EXCEPT ![s][k] = fila[s][k]]
             r == [q EXCEPT
                !.pc = "guardar", !.op = op, !.s = s, !.k = k, !.valor = x,
                !.filas = F]
  <2>2. F \in Itinerarios
    BY <1>1, SinFilaTipo DEF Itinerarios
  <2>3. s \in 0..MaxServicios /\ k \in 0..MaxFilas
    BY DEF Servicios, Ids
  <2>4. Aislada(p, r)
    BY <2>1
  <2> HIDE DEF F
  <2>5. /\ r \in EstadosSesion /\ r.pc = "guardar" /\ r.op = op
        /\ r.s = s /\ r.k = k
    BY <1>1, <2>2, <2>3 DEF EstadosSesion, Itinerarios
  <2> HIDE DEF r
  <2>6. Coherente(r, version) /\ AlDia(r, version)
    BY <2>5 DEF Coherente, AlDia
  <2>7. SinEscribir /\ pedidas' = pedidas + 1
    BY <1>3 DEF PedirFila
  <2>8. pedidas' \in Nat
    BY <1>1, <2>7
  <2> QED BY <2>4, <2>5, <2>6, <2>7, <2>8, CierraSinEscribir
<1> QED BY <1>2, <1>3

(* What a person asked of a row is written on it.                          *)
LEMMA GuardarMantiene ==
  ASSUME RevisionInv, NEW p \in Sesiones, Guardar(p)
  PROVE  RevisionInv'
<1> DEFINE q == sesion[p]
           m == q.filas[q.s][q.k]
<1>1. /\ q \in EstadosSesion /\ Coherente(q, version)
      /\ pedidas \in Nat /\ fila \in Itinerarios
      /\ version \in TiposVersion /\ Numerado(version)
      /\ doc \in [Documentos -> DocumentProcessState]
      /\ solapadas \in BOOLEAN
  BY DEF RevisionInv, TypeOK, Itinerarios, TiposVersion
<1>2. /\ q.op \in {"editar", "confirmar", "borrar"}
      /\ q.s \in Servicios /\ q.k \in Ids
  BY <1>1 DEF Guardar, Coherente
<1>3. m \in Filas /\ fila[q.s][q.k] \in Filas
  BY <1>1, <1>2 DEF EstadosSesion, Itinerarios
<1>4. Editada(q, m) \in Filas
  BY <1>1, <1>2, <1>3, EditadaTipo
<1>5. Escrita(fila[q.s][q.k], m, Editada(q, m), q.op # "borrar") \in Filas
  BY <1>3, <1>4, EscritaTipo
<1>6. fila' \in Itinerarios
  BY <1>1, <1>2, <1>5 DEF Guardar, Itinerarios
<1>7. pisada' \in TiposPisada
  BY AnotarTipo DEF Guardar
<1>8. sesion' = [sesion EXCEPT ![p] = Libre]
  BY DEF Guardar, Terminar, Aislada
<1>9. UNCHANGED <<doc, version, pedidas, solapadas>>
  BY DEF Guardar
<1> QED BY <1>1, <1>6, <1>7, <1>8, <1>9, LibreTipo, LibreCoherente, Cierra,
           CreceQuieta

(* Before anything happens each document has its first version, in force.  *)
LEMMA RevisionEmpieza == Init => RevisionInv
<1> SUFFICES ASSUME Init PROVE RevisionInv
  OBVIOUS
<1>1. PICK l \in [Documentos -> Lecturas] :
          version = [d \in Documentos |-> [n \in Numeros |->
             IF n > 1 THEN SinVersion
             ELSE Leida(l[d], IF doc[d] = "EXTRAIDO" THEN "PENDIENTE"
                                                     ELSE "EN_REVISION")]]
  BY DEF Init
<1>2. ASSUME NEW d \in Documentos, NEW n \in Numeros
      PROVE  /\ version[d][n] \in Versiones
             /\ n = 1 => version[d][n].vigente /\ version[d][n].estado # "nada"
             /\ n # 1 => ~version[d][n].vigente /\ version[d][n].estado = "nada"
  <2>1. CASE n = 1
    <3>1. PICK e \in ExtractionState : version[d][n] = Leida(l[d], e)
      BY <1>1, <2>1 DEF ExtractionState
    <3>2. l[d] \in Lecturas /\ e # "nada"
      BY DEF ExtractionState
    <3>3. Leida(l[d], e) \in Versiones /\ Leida(l[d], e).vigente = TRUE
          /\ Leida(l[d], e).estado = e
      BY <3>2, LeidaTipo
    <3> QED BY <2>1, <3>1, <3>2, <3>3
  <2>2. CASE n # 1
    <3>1. version[d][n] = SinVersion
      BY <1>1, <2>2 DEF Numeros
    <3> QED BY <2>2, <3>1, SinVersionTipo DEF SinVersion
  <2> QED BY <2>1, <2>2
<1>3. version \in TiposVersion
  BY <1>1, <1>2 DEF TiposVersion
<1>4. Numerado(version)
  <2>1. ASSUME NEW d \in Documentos PROVE NumeradoHasta(version, d, 1)
    BY <1>2 DEF NumeradoHasta, Hay, EnVigor, Numeros
  <2>2. 1 \in Numeros
    BY DEF Numeros
  <2> QED BY <2>1, <2>2 DEF Numerado
<1>5. TypeOK
  BY <1>3, LibreTipo, SinFilaTipo, EstadosDeDocumento
     DEF Init, TypeOK, TiposVersion, Itinerarios
<1>6. \A p \in Sesiones : sesion[p] = Libre
  BY DEF Init
<1> QED BY <1>4, <1>5, <1>6, LibreCoherente DEF RevisionInv

(***************************************************************************)
(* Theorems.                                                               *)
(***************************************************************************)

(* The inductive invariant holds always: versions are numbered without     *)
(* gaps, the last one is the one in force, and a session that will add one *)
(* either withdraws the one in force or meets a number that is taken.      *)
THEOREM RevisionInvSiempre == Spec => []RevisionInv
<1>1. RevisionInv /\ [Next]_vars => RevisionInv'
  <2> SUFFICES ASSUME RevisionInv, [Next]_vars PROVE RevisionInv'
    OBVIOUS
  <2>1. ASSUME NEW p \in Sesiones, Paso(p) PROVE RevisionInv'
    BY <2>1, PedirMantiene, LeerMantiene, EscribirMantiene, AbortarMantiene,
       AplicarMantiene, PedirFilaMantiene, GuardarMantiene DEF Paso
  <2>2. CASE UNCHANGED vars
    BY <2>2 DEF vars, RevisionInv, TypeOK
  <2> QED BY <2>1, <2>2 DEF Next
<1> QED BY <1>1, RevisionEmpieza, PTL DEF Spec

(* Every reachable state of the review is well typed.                      *)
THEOREM RevisionTipos == Spec => []TypeOK
<1>1. RevisionInv => TypeOK
  BY DEF RevisionInv
<1> QED BY <1>1, RevisionInvSiempre, PTL

(* However many reviewers and tasks read and write at once, and in whatever*)
(* order their queries fall, exactly one version of a document is in force *)
(* and it is the newest: the flag `is_current` needs no lock besides the   *)
(* unique number of a version.                                             *)
THEOREM SiempreUnaVigente == Spec => []UnaVigente
<1>1. RevisionInv => UnaVigente
  <2> SUFFICES ASSUME RevisionInv, NEW d \in Documentos
               PROVE  Vigentes(d) = {Ultima(d)}
    BY DEF UnaVigente
  <2>1. PICK m \in Numeros : NumeradoHasta(version, d, m)
    BY DEF RevisionInv, Numerado
  <2> QED BY <2>1, UltimaEs
<1> QED BY <1>1, RevisionInvSiempre, PTL

(***************************************************************************)
(* The itinerary.  What an approval does to a row depends on the copy of   *)
(* it the session loaded, so the invariant says how far that copy may be   *)
(* from the row: until somebody else writes the row it is the row; until   *)
(* another approval commits, no live row has appeared or changed hands     *)
(* since it was loaded (people's rows apart).                              *)
(***************************************************************************)
AlMasUno(S) == \A a, b \in S : a = b

(* The newest provenance is about the value, the mark about its confidence.*)
Concuerda(f) ==
    /\ f.proc # "ninguna" => f.proc = f.valor
    /\ f.revisar <=> f.proc # "ninguna" /\ ~f.seguro

(* A row is provisional exactly when it still belongs to a stub.           *)
Provisional(f) == f.estado # "nada" => (f.prov <=> f.origen \in Talones)

(* A loaded copy m of a row f.                                             *)
Cargada(m, f, pisado) ==
    m.estado # "nada" =>
        /\ f.estado # "nada" /\ Provisional(m)
        /\ m.origen = "nadie" <=> f.origen = "nadie"
        /\ ~pisado => m = f

(* Every live row of a document was live, and that document's, in F.       *)
AlCorriente(F) ==
    \A s \in Servicios, k \in Ids :
        fila[s][k].estado = "viva" =>
            \/ fila[s][k].origen = "nadie"
            \/ F[s][k].estado = "viva" /\ F[s][k].origen = fila[s][k].origen

FilasConcuerdan ==
    \A s \in Servicios, k \in Ids :
        /\ Provisional(fila[s][k])
        /\ fila[s][k].estado = "viva" /\ ~pisada[s][k] => Concuerda(fila[s][k])

CargasFieles ==
    \A p \in Sesiones : sesion[p].pc # "libre" =>
        \A s \in Servicios, k \in Ids :
            Cargada(sesion[p].filas[s][k], fila[s][k], pisada[s][k])

SinSolaparse ==
    ~solapadas =>
        /\ \A p \in Sesiones :
              sesion[p].pc = "aplicar" => AlCorriente(sesion[p].filas)
        /\ \A d \in Documentos, s \in Servicios : AlMasUno(Propias(fila, d, s))

(* Whoever is going to write one row loaded it alive.                      *)
GuardanVivas ==
    \A p \in Sesiones : LET q == sesion[p] IN
        q.pc = "guardar" => q.filas[q.s][q.k].estado = "viva"

FilasInv == FilasConcuerdan /\ CargasFieles /\ SinSolaparse /\ GuardanVivas

(* A set with at most one element, counted.                                *)
LEMMA CuentaDeUno ==
  ASSUME NEW S, AlMasUno(S)
  PROVE  Cardinality(S) <= 1
<1>1. CASE S = {}
  BY <1>1, FS_EmptySet
<1>2. CASE S # {}
  <2>1. PICK a \in S : S = {a}
    BY <1>2 DEF AlMasUno
  <2> QED BY <2>1, FS_Singleton
<1> QED BY <1>1, <1>2

(***************************************************************************)
(* What the writers make of one row.                                       *)
(***************************************************************************)

(* Column by column, what an approval makes of the row it loaded.          *)
LEMMA AplicadaColumnas ==
  ASSUME NEW r \in Filas, NEW d \in Documentos, NEW v \in Versiones
  PROVE  LET a == Aplicada(r, d, v)
             adopta == d \notin Talones /\ r.origen # d
         IN /\ a.estado = r.estado
            /\ a.origen = IF adopta THEN d ELSE r.origen
            /\ a.prov <=> r.prov /\ ~adopta
            /\ Escribe(r, d, v) => /\ a.valor = v.valor /\ a.proc = v.valor
                                   /\ a.seguro = v.segura
                                   /\ a.revisar <=> ~v.segura
            /\ ~Escribe(r, d, v) => /\ a.valor = r.valor /\ a.proc = r.proc
                                    /\ a.seguro = r.seguro
                                    /\ a.revisar <=> r.proc # "ninguna" /\ ~r.seguro
<1> DEFINE adopta == d \notin Talones /\ r.origen # d
           base == [r EXCEPT !.origen = IF adopta THEN d ELSE @,
                             !.prov = @ /\ ~adopta]
<1>1. /\ base \in Filas /\ base.estado = r.estado
      /\ base.origen = IF adopta THEN d ELSE r.origen
      /\ base.prov <=> r.prov /\ ~adopta
      /\ base.valor = r.valor /\ base.proc = r.proc /\ base.seguro = r.seguro
  BY DEF Filas
<1>2. Aplicada(r, d, v) =
        IF Escribe(r, d, v)
        THEN [base EXCEPT !.valor = v.valor, !.proc = v.valor,
                          !.seguro = v.segura, !.revisar = ~v.segura]
        ELSE [base EXCEPT !.revisar = r.proc # "ninguna" /\ ~r.seguro]
  BY DEF Aplicada
<1> HIDE DEF base
<1> QED BY <1>1, <1>2 DEF Filas

(* What an approval makes of the row it loaded is consistent, whatever the *)
(* row was: it writes value and provenance together or neither.            *)
LEMMA AplicadaConcuerda ==
  ASSUME NEW r \in Filas, NEW d \in Documentos, NEW v \in Versiones,
         Concuerda(r)
  PROVE  Concuerda(Aplicada(r, d, v))
<1>1. v.valor # "ninguna"
  BY VacioAssumption DEF Versiones
<1>2. Aplicada(r, d, v).revisar \in BOOLEAN
  BY AplicadaTipo DEF Filas
<1> QED BY <1>1, <1>2, AplicadaColumnas DEF Concuerda

(* An UPDATE by a session whose copy is the row writes what it wants.      *)
LEMMA EscritaSobreLoLeido ==
  ASSUME NEW f \in Filas, NEW n \in Filas, NEW anota \in BOOLEAN,
         anota \/ (n.proc = f.proc /\ n.seguro = f.seguro)
  PROVE  Escrita(f, f, n, anota) = n
BY DEF Escrita, Filas

(* A row an approval lands on was live when loaded, and a confirmation     *)
(* takes over only a provisional one.                                      *)
LEMMA DestinosLeidos ==
  ASSUME NEW F, NEW d, NEW s, NEW k \in Destinos(F, d, s)
  PROVE  /\ F[s][k].estado = "viva"
         /\ d \notin Talones /\ F[s][k].origen # d => F[s][k].prov
BY DEF Destinos, Propias, Ajenas

(* The hands a row passes to in an approval, whatever the row has become   *)
(* since it was loaded: it stays with its origin, or a confirmation takes  *)
(* over what was a stub's.                                                 *)
LEMMA EscritaOrigen ==
  ASSUME NEW f \in Filas, NEW m \in Filas, NEW d \in Documentos,
         NEW v \in Versiones, NEW anota,
         d \notin Talones /\ m.origen # d => m.prov
  PROVE  LET r == Escrita(f, m, Aplicada(ConProcedencia(m, f), d, v), anota)
         IN /\ r.estado = f.estado
            /\ \/ /\ r.origen = f.origen /\ r.prov = f.prov
                  /\ d \in Talones \/ m.origen = d
               \/ /\ r.origen = d /\ ~r.prov
                  /\ d \notin Talones /\ m.origen # d
<1> DEFINE c == ConProcedencia(m, f)
           n == Aplicada(c, d, v)
<1>1. /\ c \in Filas /\ c.estado = m.estado /\ c.origen = m.origen
      /\ c.prov = m.prov
  BY ConProcedenciaTipo DEF ConProcedencia, Filas
<1>2. n \in Filas
  BY <1>1, AplicadaTipo
<1>3. /\ n.estado = m.estado
      /\ n.origen = IF d \notin Talones /\ m.origen # d THEN d ELSE m.origen
      /\ n.prov <=> m.prov /\ ~(d \notin Talones /\ m.origen # d)
  BY <1>1, AplicadaColumnas
<1> HIDE DEF n, c
<1>4. LET r == Escrita(f, m, n, anota)
      IN /\ r.estado = f.estado
         /\ \/ /\ r.origen = f.origen /\ r.prov = f.prov
               /\ d \in Talones \/ m.origen = d
            \/ /\ r.origen = d /\ ~r.prov
               /\ d \notin Talones /\ m.origen # d
  BY <1>2, <1>3 DEF Escrita, Filas
<1> QED BY <1>4 DEF n, c

(* The row an approval creates.                                            *)
LEMMA FilaNuevaEs ==
  ASSUME NEW d \in Documentos, NEW v \in Versiones
  PROVE  LET n == FilaNueva(d, v)
         IN /\ n.estado = "viva" /\ n.origen = d
            /\ n.prov <=> d \in Talones
            /\ Concuerda(n)
<1> DEFINE r == [SinFila EXCEPT !.origen = d]
           a == Aplicada(r, d, v)
<1>1. r \in Filas /\ r.origen = d /\ Concuerda(r)
  BY SinFilaTipo DEF Filas, SinFila, Concuerda
<1> HIDE DEF r
<1>2. a \in Filas /\ a.origen = d /\ Concuerda(a)
  <2>1. a \in Filas
    BY <1>1, AplicadaTipo
  <2>2. a.origen = d
    BY <1>1, AplicadaColumnas
  <2>3. Concuerda(a)
    BY <1>1, AplicadaConcuerda
  <2> QED BY <2>1, <2>2, <2>3
<1>3. (d \in Talones) \in BOOLEAN
  OBVIOUS
<1> DEFINE esDeTalon == d \in Talones
           n == [a EXCEPT !.estado = "viva", !.prov = esDeTalon]
<1>4. FilaNueva(d, v) = n
  BY Zenon DEF FilaNueva, r
<1> HIDE DEF a, esDeTalon
<1>5. /\ n.estado = "viva" /\ n.origen = d /\ n.prov = esDeTalon
      /\ n.valor = a.valor /\ n.proc = a.proc /\ n.seguro = a.seguro
      /\ n.revisar = a.revisar
  BY <1>2 DEF Filas
<1> HIDE DEF n
<1> QED BY <1>2, <1>4, <1>5 DEF Concuerda, esDeTalon

(* What a person makes of a row: its hands do not change, it may be        *)
(* withdrawn, and if nobody wrote it meanwhile it stays consistent.        *)
LEMMA EditadaFila ==
  ASSUME NEW q \in EstadosSesion, NEW f \in Filas, NEW m \in Filas,
         q.op \in {"editar", "confirmar", "borrar"}, q.valor # "ninguna"
  PROVE  LET r == Escrita(f, m, Editada(q, m), q.op # "borrar")
         IN /\ r.origen = f.origen /\ r.prov = f.prov
            /\ r.estado \in {f.estado, "borrada"}
            /\ m = f /\ Concuerda(f) /\ r.estado = "viva" => Concuerda(r)
<1>1. CASE q.op = "editar"
  <2>1. Editada(q, m) = [m EXCEPT !.valor = q.valor, !.proc = q.valor,
                                  !.seguro = TRUE, !.revisar = FALSE]
    BY <1>1 DEF Editada, Manual, Filas
  <2> QED BY <1>1, <2>1 DEF Escrita, Filas, Concuerda
<1>2. CASE q.op = "confirmar"
  <2>1. Editada(q, m) = [m EXCEPT !.seguro = TRUE, !.revisar = FALSE]
    BY <1>2 DEF Editada
  <2> QED BY <1>2, <2>1 DEF Escrita, Filas, Concuerda
<1>3. CASE q.op = "borrar"
  <2>1. Editada(q, m) = [m EXCEPT !.estado = "borrada"]
    BY <1>3 DEF Editada
  <2>2. /\ Escrita(f, m, Editada(q, m), FALSE).origen = f.origen
        /\ Escrita(f, m, Editada(q, m), FALSE).prov = f.prov
        /\ Escrita(f, m, Editada(q, m), FALSE).estado \in {f.estado, "borrada"}
    BY <2>1 DEF Escrita, Filas
  <2>3. m = f => Escrita(f, m, Editada(q, m), FALSE).estado = "borrada"
    BY <2>1 DEF Escrita, Filas
  <2> QED BY <1>3, <2>2, <2>3
<1> QED BY <1>1, <1>2, <1>3

(***************************************************************************)
(* Steps that write no row.                                                *)
(***************************************************************************)

(* They keep the invariant when what they load of a row is the row.        *)
LEMMA QuietaFiel ==
  ASSUME RevisionInv, FilasInv, NEW p \in Sesiones, NEW r \in EstadosSesion,
         Aislada(p, r), UNCHANGED <<fila, solapadas, pisada>>,
         \/ r.pc = "libre"
         \/ \A s \in Servicios, k \in Ids :
               \/ r.filas[s][k].estado = "nada" \/ r.filas[s][k] = fila[s][k]
               \/ /\ sesion[p].pc # "libre"
                  /\ r.filas[s][k] = sesion[p].filas[s][k],
         r.pc = "aplicar" => r.filas = fila,
         r.pc = "guardar" => r.filas[r.s][r.k].estado = "viva"
  PROVE  FilasInv'
<1>1. /\ fila' = fila /\ solapadas' = solapadas /\ pisada' = pisada
      /\ sesion' = [sesion EXCEPT ![p] = r] /\ sesion \in [Sesiones -> EstadosSesion]
  BY DEF Aislada, RevisionInv, TypeOK
<1>2. FilasConcuerdan /\ CargasFieles /\ SinSolaparse /\ GuardanVivas
  BY DEF FilasInv
<1>3. sesion'[p] = r /\ \A o \in Sesiones \ {p} : sesion'[o] = sesion[o]
  BY <1>1
<1>4. FilasConcuerdan'
  BY <1>1, <1>2 DEF FilasConcuerdan, Provisional, Concuerda
<1>5. CargasFieles'
  <2> SUFFICES ASSUME NEW o \in Sesiones, sesion'[o].pc # "libre",
                      NEW s \in Servicios, NEW k \in Ids
               PROVE  Cargada(sesion'[o].filas[s][k], fila[s][k], pisada[s][k])
    BY <1>1 DEF CargasFieles, Cargada, Provisional
  <2>1. CASE o # p
    BY <1>2, <1>3, <2>1 DEF CargasFieles
  <2>2. CASE o = p
    <3>1. \/ r.filas[s][k].estado = "nada" \/ r.filas[s][k] = fila[s][k]
          \/ /\ sesion[p].pc # "libre"
             /\ r.filas[s][k] = sesion[p].filas[s][k]
      BY <1>3, <2>2
    <3>2. Cargada(fila[s][k], fila[s][k], pisada[s][k])
      BY <1>2 DEF FilasConcuerdan, Cargada
    <3>3. sesion[p].pc # "libre" =>
            Cargada(sesion[p].filas[s][k], fila[s][k], pisada[s][k])
      BY <1>2 DEF CargasFieles
    <3>4. r.filas[s][k].estado = "nada" =>
            Cargada(r.filas[s][k], fila[s][k], pisada[s][k])
      BY DEF Cargada
    <3>5. sesion'[o].filas[s][k] = r.filas[s][k]
      BY <1>3, <2>2
    <3> QED BY <3>1, <3>2, <3>3, <3>4, <3>5
  <2> QED BY <2>1, <2>2
<1>6. SinSolaparse'
  <2> SUFFICES ASSUME ~solapadas
               PROVE  /\ \A o \in Sesiones :
                            sesion'[o].pc = "aplicar" => AlCorriente(sesion'[o].filas)
                      /\ \A d \in Documentos, s \in Servicios :
                            AlMasUno(Propias(fila, d, s))
    BY <1>1 DEF SinSolaparse, AlCorriente, AlMasUno, Propias
  <2>1. AlCorriente(fila)
    BY DEF AlCorriente
  <2> QED BY <1>2, <1>3, <2>1 DEF SinSolaparse
<1>7. GuardanVivas'
  BY <1>2, <1>3 DEF GuardanVivas
<1> QED BY <1>4, <1>5, <1>6, <1>7 DEF FilasInv

(* Asking, reading, aborting, and the tasks that touch no row.             *)
LEMMA SinFilasFiel ==
  ASSUME RevisionInv, FilasInv, NEW p \in Sesiones,
         \/ Pedir(p) \/ LeerUltima(p) \/ LeerVigentes(p) \/ LeerFilas(p)
         \/ Escribir(p) \/ Abortar(p) \/ Recargar(p) \/ PedirFila(p)
  PROVE  FilasInv'
<1> DEFINE q == sesion[p]
           vacias == [s \in Servicios |-> [k \in Ids |-> SinFila]]
<1>1. q \in EstadosSesion /\ version \in TiposVersion /\ fila \in Itinerarios
      /\ doc \in [Documentos -> DocumentProcessState] /\ q.d \in Documentos
      /\ q.num \in Numeros
  BY DEF RevisionInv, TypeOK, TiposVersion, Itinerarios, EstadosSesion
<1>2. \A s \in Servicios, k \in Ids : SinFilas[s][k].estado = "nada"
  BY DEF SinFilas, SinFila
<1>3. UNCHANGED <<fila, solapadas, pisada>>
  BY DEF Pedir, LeerUltima, LeerVigentes, LeerFilas, Escribir, Abortar, Recargar,
         PedirFila, SinEscribir
<1>4. ASSUME NEW r \in EstadosSesion, Aislada(p, r),
             r.pc # "guardar", r.pc # "aplicar" \/ r.filas = fila,
             \/ r.pc = "libre" \/ r.filas \in {SinFilas, fila}
             \/ q.pc # "libre" /\ r.filas = q.filas
      PROVE  FilasInv'
  <2>1. \/ r.pc = "libre"
        \/ \A s \in Servicios, k \in Ids :
              \/ r.filas[s][k].estado = "nada" \/ r.filas[s][k] = fila[s][k]
              \/ sesion[p].pc # "libre" /\ r.filas[s][k] = sesion[p].filas[s][k]
    BY <1>2, <1>4
  <2> QED BY <1>3, <1>4, <2>1, QuietaFiel
<1>5. CASE Pedir(p)
  <2>1. PICK d \in Documentos, op \in OperacionesDeDocumento, n \in Numeros :
           \E nueva \in Nuevas(op, version[d][n]) :
              /\ sesion[p].pc = "libre"
              /\ Aislada(p, [SesionDe(d) EXCEPT
                    !.pc = PrimerPaso(op), !.op = op, !.estado = doc[d],
                    !.num = n, !.v = version[d][n], !.nueva = nueva])
    BY <1>5 DEF Pedir
  <2>2. PICK nueva \in Nuevas(op, version[d][n]) :
           Aislada(p, [SesionDe(d) EXCEPT
                    !.pc = PrimerPaso(op), !.op = op, !.estado = doc[d],
                    !.num = n, !.v = version[d][n], !.nueva = nueva])
    BY <2>1
  <2> DEFINE r == [SesionDe(d) EXCEPT
                    !.pc = PrimerPaso(op), !.op = op, !.estado = doc[d],
                    !.num = n, !.v = version[d][n], !.nueva = nueva]
  <2>3. PrimerPaso(op) \in {"ultima", "filas", "escribir"}
    BY DEF PrimerPaso
  <2>4. version[d][n] \in Versiones
    BY <1>1 DEF TiposVersion
  <2>5. nueva \in Versiones
    BY <2>4, NuevasTipo
  <2>6. r \in EstadosSesion /\ r.pc = PrimerPaso(op) /\ r.filas = SinFilas
    BY <1>1, <2>3, <2>4, <2>5, SesionDeTipo DEF EstadosSesion, SesionDe
  <2> QED BY <1>4, <2>2, <2>3, <2>6
<1>6. CASE LeerUltima(p) \/ LeerVigentes(p) \/ LeerFilas(p)
  <2>1. PICK r : /\ Aislada(p, r) /\ q.pc # "libre"
                 /\ \/ r = [q EXCEPT !.pc = "vigentes", !.ultima = Ultima(q.d)]
                    \/ r = [q EXCEPT
                              !.pc = IF q.op = "extraer" THEN "escribir" ELSE "filas",
                              !.vigentes = Vigentes(q.d),
                              !.superadas = Superables(q)]
                    \/ r = [q EXCEPT !.pc = "aplicar", !.filas = fila]
    BY <1>6 DEF LeerUltima, LeerVigentes, LeerFilas
  <2>2. Ultima(q.d) \in 0..MaxVersiones /\ Vigentes(q.d) \in SUBSET Numeros
        /\ Superables(q) \in SUBSET Numeros
    <3>1. PICK m \in Numeros : NumeradoHasta(version, q.d, m)
      BY <1>1 DEF RevisionInv, Numerado
    <3>2. Ultima(q.d) = m
      BY <1>1, <3>1, UltimaEs
    <3> QED BY <3>2 DEF Vigentes, Superables, Numeros
  <2>3. /\ r \in EstadosSesion /\ r.pc \notin {"guardar", "libre"}
        /\ r.pc # "aplicar" \/ r.filas = fila
        /\ r.filas = fila \/ r.filas = q.filas
    BY <1>1, <2>1, <2>2 DEF EstadosSesion, Itinerarios
  <2> QED BY <1>4, <2>1, <2>3
<1>7. CASE Escribir(p)
  <2>1. CASE q.op = "finalizar" /\ AutoAprobar
    <3>1. Aislada(p, [q EXCEPT !.pc = "recargar"]) /\ q.pc = "escribir"
      BY <1>7, <2>1 DEF Escribir
    <3>2. [q EXCEPT !.pc = "recargar"] \in EstadosSesion
      BY <1>1 DEF EstadosSesion
    <3>3. /\ [q EXCEPT !.pc = "recargar"].pc = "recargar"
          /\ [q EXCEPT !.pc = "recargar"].filas = q.filas
      BY <1>1 DEF EstadosSesion
    <3> QED BY <1>4, <3>1, <3>2, <3>3
  <2>2. CASE ~(q.op = "finalizar" /\ AutoAprobar)
    <3>1. Aislada(p, Libre)
      BY <1>7, <2>2 DEF Escribir, Terminar
    <3> QED BY <1>4, <3>1, LibreTipo
  <2> QED BY <2>1, <2>2
<1>8. CASE Abortar(p)
  <2>1. Aislada(p, Libre)
    BY <1>8 DEF Abortar, Terminar
  <2> QED BY <1>4, <2>1, LibreTipo
<1>9. CASE Recargar(p)
  <2> DEFINE v == version[q.d][q.num]
             r == [SesionDe(q.d) EXCEPT
                     !.pc = "filas", !.estado = doc[q.d], !.num = q.num, !.v = v,
                     !.nueva = v]
  <2>1. Aislada(p, Libre) \/ Aislada(p, r)
    BY <1>9 DEF Recargar, Terminar
  <2>2. v \in Versiones
    BY <1>1 DEF TiposVersion
  <2>3. r \in EstadosSesion /\ r.pc = "filas" /\ r.filas = SinFilas
    BY <1>1, <2>2, SesionDeTipo DEF EstadosSesion, SesionDe
  <2> HIDE DEF r
  <2> QED BY <1>4, <2>1, <2>3, LibreTipo
<1>10. CASE PedirFila(p)
  <2>1. PICK s \in Servicios, k \in Ids,
             op \in {"editar", "confirmar", "borrar"}, x \in Valores :
           /\ fila[s][k].estado = "viva" /\ q.pc = "libre"
           /\ Aislada(p, [q EXCEPT
                !.pc = "guardar", !.op = op, !.s = s, !.k = k, !.valor = x,
                !.filas = [SinFilas EXCEPT ![s][k] = fila[s][k]]])
    BY <1>10 DEF PedirFila
  <2> DEFINE F == [SinFilas EXCEPT ![s][k] = fila[s][k]]
             r == [q EXCEPT
                !.pc = "guardar", !.op = op, !.s = s, !.k = k, !.valor = x,
                !.filas = F]
  <2>2. F \in Itinerarios /\ F[s][k] = fila[s][k]
    BY <1>1, SinFilaTipo DEF Itinerarios
  <2>3. \A t \in Servicios, j \in Ids :
           F[t][j].estado = "nada" \/ F[t][j] = fila[t][j]
    BY <1>2, SinFilaTipo DEF Itinerarios
  <2> HIDE DEF F
  <2>4. s \in 0..MaxServicios /\ k \in 0..MaxFilas
    BY DEF Servicios, Ids
  <2>5. /\ r \in EstadosSesion /\ r.pc = "guardar" /\ r.filas = F
        /\ r.s = s /\ r.k = k
    BY <1>1, <2>2, <2>4 DEF EstadosSesion, Itinerarios
  <2>6. Aislada(p, r)
    BY <2>1 DEF F
  <2> HIDE DEF r
  <2> QED BY <1>3, <2>1, <2>2, <2>3, <2>5, <2>6, QuietaFiel
<1> QED BY <1>5, <1>6, <1>7, <1>8, <1>9, <1>10

(***************************************************************************)
(* Steps that write rows.                                                  *)
(***************************************************************************)

(* What any of them may make of a row: it does not vanish, it stays a      *)
(* person's or a document's, provisional exactly while it is a stub's, and *)
(* consistent unless it was written under somebody's feet.                 *)
Sucede(f, g, pisado) ==
    /\ f.estado # "nada" => /\ g.estado # "nada"
                            /\ f.origen = "nadie" <=> g.origen = "nadie"
    /\ Provisional(g)
    /\ g.estado = "viva" /\ ~pisado => Concuerda(g)

(* Others' copies stay faithful, because a row that changes while somebody *)
(* has it loaded is marked.                                                *)
LEMMA EscrituraFiel ==
  ASSUME RevisionInv, CargasFieles, GuardanVivas,
         NEW p \in Sesiones, NEW r, r.pc = "libre", Aislada(p, r),
         \A s \in Servicios, k \in Ids :
            /\ Sucede(fila[s][k], fila'[s][k], pisada[s][k])
            /\ pisada[s][k] => pisada'[s][k]
            /\ ~pisada'[s][k] =>
                 \A o \in Sesiones \ {p} :
                    sesion[o].pc # "libre" /\ sesion[o].filas[s][k].estado # "nada"
                       => fila'[s][k] = fila[s][k]
  PROVE  FilasConcuerdan' /\ CargasFieles' /\ GuardanVivas'
<1>1. /\ sesion' = [sesion EXCEPT ![p] = r]
      /\ sesion \in [Sesiones -> EstadosSesion]
  BY DEF Aislada, RevisionInv, TypeOK
<1>2. sesion'[p] = r /\ \A o \in Sesiones \ {p} : sesion'[o] = sesion[o]
  BY <1>1
<1>3. FilasConcuerdan'
  BY DEF FilasConcuerdan, Sucede, Provisional, Concuerda
<1>4. CargasFieles'
  <2> SUFFICES ASSUME NEW o \in Sesiones, sesion'[o].pc # "libre",
                      NEW s \in Servicios, NEW k \in Ids
               PROVE  Cargada(sesion'[o].filas[s][k], fila'[s][k], pisada'[s][k])
    BY DEF CargasFieles, Cargada, Provisional
  <2>1. o # p /\ sesion'[o] = sesion[o]
    BY <1>2
  <2> DEFINE m == sesion[o].filas[s][k]
  <2>2. Cargada(m, fila[s][k], pisada[s][k])
    BY <2>1 DEF CargasFieles
  <2>3. CASE m.estado = "nada"
    BY <2>1, <2>3 DEF Cargada
  <2>4. CASE m.estado # "nada"
    <3>1. /\ Sucede(fila[s][k], fila'[s][k], pisada[s][k])
          /\ pisada[s][k] => pisada'[s][k]
          /\ ~pisada'[s][k] => fila'[s][k] = fila[s][k]
      BY <2>1, <2>4
    <3> QED BY <2>1, <2>2, <2>4, <3>1 DEF Cargada, Sucede
  <2> QED BY <2>3, <2>4
<1>5. GuardanVivas'
  BY <1>2 DEF GuardanVivas
<1> QED BY <1>3, <1>4, <1>5

(* What is noted about a row.                                              *)
LEMMA AnotarFiel ==
  ASSUME NEW p \in Sesiones, Anotar(p), NEW s \in Servicios, NEW k \in Ids
  PROVE  /\ pisada[s][k] => pisada'[s][k]
         /\ ~pisada'[s][k] =>
              \A o \in Sesiones \ {p} :
                 sesion[o].pc # "libre" /\ sesion[o].filas[s][k].estado # "nada"
                    => fila'[s][k] = fila[s][k]
<1>1. pisada'[s][k] = (\/ pisada[s][k]
                       \/ /\ fila'[s][k] # fila[s][k]
                          /\ \E o \in Sesiones \ {p} :
                                /\ sesion[o].pc # "libre"
                                /\ sesion[o].filas[s][k].estado # "nada")
  BY DEF Anotar
<1> QED BY <1>1

(* A live row was live before and of the same hands, or a person's.        *)
Sobrevive(f, g) ==
    g.estado = "viva" =>
        \/ g.origen = "nadie"
        \/ f.estado = "viva" /\ f.origen = g.origen

(* People never add a document a row, so what an approval loaded is still  *)
(* all there is.                                                           *)
LEMMA SobrevivirNoSolapa ==
  ASSUME RevisionInv, SinSolaparse, NEW p \in Sesiones, NEW r, r.pc = "libre",
         Aislada(p, r), solapadas' = solapadas,
         \A s \in Servicios, k \in Ids : Sobrevive(fila[s][k], fila'[s][k])
  PROVE  SinSolaparse'
<1>1. /\ sesion' = [sesion EXCEPT ![p] = r]
      /\ sesion \in [Sesiones -> EstadosSesion]
  BY DEF Aislada, RevisionInv, TypeOK
<1>2. sesion'[p] = r /\ \A o \in Sesiones \ {p} : sesion'[o] = sesion[o]
  BY <1>1
<1> SUFFICES ASSUME ~solapadas
             PROVE  /\ \A o \in Sesiones : sesion'[o].pc = "aplicar" =>
                          AlCorriente(sesion[o].filas)'
                    /\ \A d \in Documentos, s \in Servicios :
                          AlMasUno(Propias(fila', d, s))
  BY DEF SinSolaparse, AlCorriente, AlMasUno, Propias
<1>3. ASSUME NEW o \in Sesiones, sesion'[o].pc = "aplicar"
      PROVE  AlCorriente(sesion[o].filas)'
  <2>1. sesion'[o] = sesion[o] /\ AlCorriente(sesion[o].filas)
    BY <1>2, <1>3 DEF SinSolaparse
  <2> QED BY <2>1 DEF AlCorriente, Sobrevive
<1>4. ASSUME NEW d \in Documentos, NEW s \in Servicios
      PROVE  AlMasUno(Propias(fila', d, s))
  <2>1. Propias(fila', d, s) \subseteq Propias(fila, d, s)
    BY NadieAssumption DEF Propias, Sobrevive
  <2> QED BY <2>1 DEF SinSolaparse, AlMasUno
<1> QED BY <1>3, <1>4

(* What a person asked of a row.                                           *)
LEMMA GuardarFiel ==
  ASSUME RevisionInv, FilasInv, NEW p \in Sesiones, Guardar(p)
  PROVE  /\ FilasInv'
         /\ \A s \in Servicios, k \in Ids :
               /\ Sucede(fila[s][k], fila'[s][k], pisada[s][k])
               /\ Sobrevive(fila[s][k], fila'[s][k])
               /\ fila'[s][k].estado = "viva" => fila[s][k].estado = "viva"
<1> DEFINE q == sesion[p]
           m == q.filas[q.s][q.k]
           f == fila[q.s][q.k]
           g == Escrita(f, m, Editada(q, m), q.op # "borrar")
<1>1. /\ q \in EstadosSesion /\ Coherente(q, version) /\ fila \in Itinerarios
      /\ FilasConcuerdan /\ CargasFieles /\ SinSolaparse /\ GuardanVivas
      /\ q.pc = "guardar"
  BY DEF RevisionInv, TypeOK, Itinerarios, FilasInv, Guardar
<1>2. /\ q.op \in {"editar", "confirmar", "borrar"}
      /\ q.s \in Servicios /\ q.k \in Ids /\ m.estado = "viva"
  BY <1>1 DEF Coherente, GuardanVivas
<1>3. m \in Filas /\ f \in Filas
  BY <1>1, <1>2 DEF EstadosSesion, Itinerarios
<1>4. fila' = [fila EXCEPT ![q.s][q.k] = g]
  BY DEF Guardar
<1>5. Cargada(m, f, pisada[q.s][q.k])
  BY <1>1, <1>2 DEF CargasFieles
<1>6. q.valor # "ninguna"
  BY <1>1, VacioAssumption DEF EstadosSesion
<1>7. /\ g.origen = f.origen /\ g.prov = f.prov
      /\ g.estado \in {f.estado, "borrada"}
      /\ m = f /\ Concuerda(f) /\ g.estado = "viva" => Concuerda(g)
  BY <1>1, <1>2, <1>3, <1>6, EditadaFila
<1> HIDE DEF g, m
<1>8. /\ f.estado # "nada" /\ Provisional(f)
      /\ ~pisada[q.s][q.k] => m = f
      /\ f.estado = "viva" /\ ~pisada[q.s][q.k] => Concuerda(f)
  BY <1>1, <1>2, <1>5 DEF Cargada, FilasConcuerdan
<1>9. Sucede(f, g, pisada[q.s][q.k])
  BY <1>3, <1>7, <1>8 DEF Sucede, Provisional
<1>10. /\ Sobrevive(f, g)
       /\ g.estado = "viva" => f.estado = "viva"
  BY <1>7 DEF Sobrevive
<1>11. ASSUME NEW s \in Servicios, NEW k \in Ids
       PROVE  /\ Sucede(fila[s][k], fila'[s][k], pisada[s][k])
              /\ Sobrevive(fila[s][k], fila'[s][k])
              /\ fila'[s][k].estado = "viva" => fila[s][k].estado = "viva"
  <2>1. CASE s = q.s /\ k = q.k
    <3>1. fila'[s][k] = g
      BY <1>1, <1>2, <1>4, <2>1 DEF Itinerarios
    <3> QED BY <1>9, <1>10, <2>1, <3>1
  <2>2. CASE ~(s = q.s /\ k = q.k)
    <3>1. fila'[s][k] = fila[s][k]
      BY <1>1, <1>2, <1>4, <2>2 DEF Itinerarios
    <3> QED BY <1>1, <3>1 DEF FilasConcuerdan, Sucede, Sobrevive
  <2> QED BY <2>1, <2>2
<1>12. Aislada(p, Libre) /\ Libre.pc = "libre" /\ solapadas' = solapadas
       /\ Anotar(p)
  BY LibreTipo DEF Guardar, Terminar
<1>13. FilasConcuerdan' /\ CargasFieles' /\ GuardanVivas'
  BY <1>1, <1>11, <1>12, AnotarFiel, EscrituraFiel
<1>14. SinSolaparse'
  BY <1>1, <1>11, <1>12, SobrevivirNoSolapa
<1> QED BY <1>11, <1>13, <1>14 DEF FilasInv

(* What a person types.                                                    *)
LEMMA CrearFiel ==
  ASSUME RevisionInv, FilasInv, NEW p \in Sesiones, Crear(p)
  PROVE  /\ FilasInv'
         /\ \A s \in Servicios, k \in Ids :
               \/ fila'[s][k] = fila[s][k]
               \/ fila'[s][k].estado # "nada" /\ fila'[s][k].origen = "nadie"
         /\ \A s \in Servicios, k \in Ids :
               Sucede(fila[s][k], fila'[s][k], pisada[s][k])
<1>1. /\ sesion \in [Sesiones -> EstadosSesion] /\ fila \in Itinerarios
      /\ FilasConcuerdan /\ CargasFieles /\ SinSolaparse /\ GuardanVivas
  BY DEF RevisionInv, TypeOK, Itinerarios, FilasInv
<1>2. PICK s \in Servicios, x \in Valores \cup {"vacio"} :
         \E k \in Libres(s) :
            fila' = [fila EXCEPT ![s][k] =
                        [Manual(SinFila, x) EXCEPT !.estado = "viva"]]
  BY DEF Crear
<1>3. PICK k \in Libres(s) :
         fila' = [fila EXCEPT ![s][k] =
                     [Manual(SinFila, x) EXCEPT !.estado = "viva"]]
  BY <1>2
<1> DEFINE n == [Manual(SinFila, x) EXCEPT !.estado = "viva"]
<1>4. k \in Ids /\ fila[s][k].estado = "nada"
  BY DEF Libres
<1>5. /\ n.estado = "viva" /\ n.origen = "nadie" /\ n.prov = FALSE
      /\ n.proc = n.valor /\ n.seguro = TRUE /\ n.revisar = FALSE
  BY DEF Manual, SinFila
<1> HIDE DEF n
<1>6. "nadie" \notin Talones
  BY NadieAssumption, TalonesAssumption
<1>7. Sucede(fila[s][k], n, pisada[s][k]) /\ Sobrevive(fila[s][k], n)
  BY <1>4, <1>5, <1>6 DEF Sucede, Sobrevive, Provisional, Concuerda
<1>8. ASSUME NEW t \in Servicios, NEW j \in Ids
      PROVE  /\ Sucede(fila[t][j], fila'[t][j], pisada[t][j])
             /\ Sobrevive(fila[t][j], fila'[t][j])
             /\ fila[t][j].estado # "nada" => fila'[t][j] = fila[t][j]
             /\ \/ fila'[t][j] = fila[t][j]
                \/ fila'[t][j].estado # "nada" /\ fila'[t][j].origen = "nadie"
  <2>1. CASE t = s /\ j = k
    <3>1. fila'[t][j] = n
      BY <1>1, <1>3, <1>4, <2>1 DEF Itinerarios, n
    <3> QED BY <1>4, <1>5, <1>7, <2>1, <3>1
  <2>2. CASE ~(t = s /\ j = k)
    <3>1. fila'[t][j] = fila[t][j]
      BY <1>1, <1>3, <1>4, <2>2 DEF Itinerarios
    <3> QED BY <1>1, <3>1 DEF FilasConcuerdan, Sucede, Sobrevive
  <2> QED BY <2>1, <2>2
<1>9. /\ sesion[p].pc = "libre" /\ Aislada(p, sesion[p])
      /\ solapadas' = solapadas /\ pisada' = pisada
  BY <1>1 DEF Crear, Aislada
<1>10. \A t \in Servicios, j \in Ids :
          /\ pisada[t][j] => pisada'[t][j]
          /\ ~pisada'[t][j] =>
               \A o \in Sesiones \ {p} :
                  sesion[o].pc # "libre" /\ sesion[o].filas[t][j].estado # "nada"
                     => fila'[t][j] = fila[t][j]
  BY <1>1, <1>8, <1>9 DEF CargasFieles, Cargada
<1>11. FilasConcuerdan' /\ CargasFieles' /\ GuardanVivas'
  BY <1>1, <1>8, <1>9, <1>10, EscrituraFiel
<1>12. SinSolaparse'
  BY <1>1, <1>8, <1>9, SobrevivirNoSolapa
<1> QED BY <1>8, <1>11, <1>12 DEF FilasInv

(* What an approval does to a service its version no longer describes.     *)
LEMMA ResultadoSobrante ==
  ASSUME NEW q, NEW destino, NEW s, NEW k, s > q.nueva.n
  PROVE  Resultado(q, destino, s, k) =
           IF q.filas[s][k].estado = "viva" /\ q.filas[s][k].origen = q.d
           THEN [fila[s][k] EXCEPT !.estado = "borrada"] ELSE fila[s][k]
BY DEF Resultado

(* The row a service of an approved version lands on, and every other row  *)
(* of that service.                                                        *)
TrasAprobar(q, destino, s, k, f, g) ==
    /\ Sucede(f, g, pisada[s][k])
    /\ g.estado = "viva" =>
         \/ f.estado = "viva" /\ g.origen = f.origen
         \/ /\ k = destino[s] /\ g.origen = q.d
            /\ Propias(q.filas, q.d, s) = {}
    /\ g.estado = "viva" =>
         \/ f.estado = "viva"
         \/ k = destino[s] /\ Crea(q, s)

(* What approving does to each row of each service: it writes the row it   *)
(* has chosen and no other.                                                *)
LEMMA FilaTrasAprobar ==
  ASSUME RevisionInv, FilasInv, NEW p \in Sesiones, sesion[p].pc = "aplicar",
         NEW s \in Servicios, NEW k \in Ids,
         NEW destino, destino[s] \in Elegibles(sesion[p], s)
  PROVE  TrasAprobar(sesion[p], destino, s, k, fila[s][k],
                     Resultado(sesion[p], destino, s, k))
<1> DEFINE q == sesion[p]
           d == q.d
           v == q.nueva
           f == fila[s][k]
           m == q.filas[s][k]
           g == Resultado(q, destino, s, k)
<1> SUFFICES /\ Sucede(f, g, pisada[s][k])
             /\ g.estado = "viva" =>
                  \/ f.estado = "viva" /\ g.origen = f.origen
                  \/ /\ k = destino[s] /\ g.origen = d
                     /\ Propias(q.filas, d, s) = {}
             /\ g.estado = "viva" =>
                  \/ f.estado = "viva"
                  \/ k = destino[s] /\ Crea(q, s)
  BY DEF TrasAprobar
<1>1. /\ q \in EstadosSesion /\ fila \in Itinerarios
      /\ FilasConcuerdan /\ CargasFieles
  BY DEF RevisionInv, TypeOK, Itinerarios, FilasInv
<1>2. /\ d \in Documentos /\ v \in Versiones /\ f \in Filas /\ m \in Filas
      /\ d # "nadie"
  BY <1>1, NadieAssumption DEF EstadosSesion, Itinerarios
<1>3. /\ Provisional(f)
      /\ f.estado = "viva" /\ ~pisada[s][k] => Concuerda(f)
      /\ Cargada(m, f, pisada[s][k])
  BY <1>1 DEF FilasConcuerdan, CargasFieles
<1>4. Sucede(f, f, pisada[s][k])
  BY <1>3 DEF Sucede
<1>5. CASE s > v.n
  <2>1. \/ g = f
        \/ g = [f EXCEPT !.estado = "borrada"] /\ m.estado = "viva"
    <3>1. g = IF m.estado = "viva" /\ m.origen = d
              THEN [f EXCEPT !.estado = "borrada"] ELSE f
      BY <1>5, ResultadoSobrante
    <3> HIDE DEF g, m, f
    <3> QED BY <3>1
  <2>2. CASE g = f
    BY <1>4, <2>2
  <2>3. CASE g = [f EXCEPT !.estado = "borrada"] /\ m.estado = "viva"
    <3>1. g.estado = "borrada" /\ g.origen = f.origen /\ g.prov = f.prov
      BY <1>2, <2>3 DEF Filas
    <3>2. f.estado # "nada"
      BY <1>3, <2>3 DEF Cargada
    <3> QED BY <1>3, <3>1, <3>2 DEF Sucede, Provisional
  <2> QED BY <2>1, <2>2, <2>3
<1>6. CASE s <= v.n /\ k # destino[s]
  <2>1. g = f
    BY <1>2, <1>6 DEF Resultado, Versiones, Servicios
  <2> QED BY <1>4, <2>1
<1>7. CASE s <= v.n /\ k = destino[s] /\ Crea(q, s)
  <2>1. g = FilaNueva(d, v)
    BY <1>2, <1>7 DEF Resultado, Versiones, Servicios
  <2>2. f.estado = "nada"
    BY <1>2, <1>7 DEF Elegibles, Libres, Versiones, Servicios
  <2>3. /\ g.estado = "viva" /\ g.origen = d /\ Concuerda(g)
        /\ g.prov <=> d \in Talones
    BY <1>2, <2>1, FilaNuevaEs
  <2>4. Propias(q.filas, d, s) = {}
    BY <1>7 DEF Crea, Destinos
  <2> HIDE DEF g
  <2> QED BY <1>7, <2>2, <2>3, <2>4 DEF Sucede, Provisional
<1>8. CASE s <= v.n /\ k = destino[s] /\ ~Crea(q, s)
  <2>1. k \in Destinos(q.filas, d, s)
    BY <1>2, <1>8 DEF Elegibles, Ids, Versiones, Servicios
  <2> DEFINE a == Aplicada(ConProcedencia(m, f), d, v)
  <2>2. g = Escrita(f, m, a, Escribe(m, d, v))
    BY <1>2, <1>8 DEF Resultado, Versiones, Servicios
  <2>3. /\ m.estado = "viva"
        /\ d \notin Talones /\ m.origen # d => m.prov
    BY <2>1, DestinosLeidos
  <2>4. /\ f.estado # "nada" /\ Provisional(m)
        /\ m.origen = "nadie" <=> f.origen = "nadie"
        /\ ~pisada[s][k] => m = f
    BY <1>3, <2>3 DEF Cargada
  <2>5. /\ g.estado = f.estado
        /\ \/ /\ g.origen = f.origen /\ g.prov = f.prov
              /\ d \in Talones \/ m.origen = d
           \/ /\ g.origen = d /\ ~g.prov
              /\ d \notin Talones /\ m.origen # d
    BY <1>2, <2>2, <2>3, EscritaOrigen
  <2>6. g.origen = f.origen /\ g.prov = f.prov =>
          Provisional(g) /\ (f.origen = "nadie" <=> g.origen = "nadie")
    BY <1>3, <2>5 DEF Provisional
  <2>7. g.origen = d /\ ~g.prov /\ d \notin Talones /\ m.origen # d =>
          /\ Provisional(g) /\ (f.origen = "nadie" <=> g.origen = "nadie")
          /\ Propias(q.filas, d, s) = {}
    <3>1. ASSUME d \notin Talones, m.origen # d
          PROVE  f.origen # "nadie" /\ Propias(q.filas, d, s) = {}
      <4>1. m.origen \in Talones
        BY <2>3, <2>4, <3>1 DEF Provisional
      <4>2. m.origen # "nadie"
        BY <4>1, NadieAssumption, TalonesAssumption
      <4>3. k \notin Propias(q.filas, d, s)
        BY <3>1 DEF Propias
      <4> QED BY <2>1, <2>4, <4>2, <4>3 DEF Destinos
    <3> QED BY <1>2, <3>1 DEF Provisional
  <2>8. ASSUME g.estado = "viva", ~pisada[s][k]
        PROVE  Concuerda(g)
    <3>1. m = f /\ Concuerda(f)
      BY <1>3, <2>4, <2>5, <2>8
    <3>2. ConProcedencia(m, f) = f
      BY <1>2, <3>1 DEF ConProcedencia, Filas
    <3>3. a = Aplicada(f, d, v) /\ a \in Filas
      BY <1>2, <3>2, AplicadaTipo
    <3>4. Escribe(m, d, v) \/ (a.proc = f.proc /\ a.seguro = f.seguro)
      BY <1>2, <3>1, <3>3, AplicadaColumnas
    <3>5. Escribe(m, d, v) \in BOOLEAN
      BY DEF Escribe
    <3>6. Escrita(f, f, a, Escribe(m, d, v)) = a
      <4> HIDE DEF a
      <4> QED BY <1>2, <3>3, <3>4, <3>5, EscritaSobreLoLeido
    <3>7. Concuerda(a)
      BY <1>2, <3>1, <3>3, AplicadaConcuerda
    <3> QED BY <2>2, <3>1, <3>6, <3>7
  <2> HIDE DEF g, m
  <2> QED BY <1>8, <2>4, <2>5, <2>6, <2>7, <2>8 DEF Sucede
<1>9. s <= v.n \/ s > v.n
  BY <1>2 DEF Versiones, Servicios
<1> QED BY <1>5, <1>6, <1>7, <1>8, <1>9

(* A service that no longer has a row of its own when the approval loads   *)
(* them still has none when it commits, if no other approval came between. *)
LEMMA SinPropiasAlAplicar ==
  ASSUME RevisionInv, FilasInv, NEW p \in Sesiones, sesion[p].pc = "aplicar",
         ~solapadas, NEW s \in Servicios,
         Propias(sesion[p].filas, sesion[p].d, s) = {}
  PROVE  Propias(fila, sesion[p].d, s) = {}
<1>1. AlCorriente(sesion[p].filas)
  BY DEF FilasInv, SinSolaparse
<1>2. sesion[p].d # "nadie"
  BY NadieAssumption DEF RevisionInv, TypeOK, EstadosSesion
<1> QED BY <1>1, <1>2 DEF AlCorriente, Propias

(* What an approval does to the whole itinerary.                           *)
LEMMA AplicarFiel ==
  ASSUME RevisionInv, FilasInv, NEW p \in Sesiones, Aplicar(p)
  PROVE  FilasInv'
<1> DEFINE q == sesion[p]
<1>1. PICK destino \in [Servicios -> 0..MaxFilas] :
         /\ \A s \in Servicios : destino[s] \in Elegibles(q, s)
         /\ fila' = [s \in Servicios |-> [k \in Ids |->
                        Resultado(q, destino, s, k)]]
  BY DEF Aplicar
<1>2. /\ q.pc = "aplicar" /\ Anotar(p) /\ Aislada(p, Libre)
      /\ sesion \in [Sesiones -> EstadosSesion]
      /\ CargasFieles /\ GuardanVivas /\ SinSolaparse
  BY DEF Aplicar, Terminar, RevisionInv, TypeOK, FilasInv
<1>3. \A s \in Servicios, k \in Ids :
         fila'[s][k] = Resultado(q, destino, s, k)
  BY <1>1
<1>4. \A s \in Servicios, k \in Ids :
         /\ Sucede(fila[s][k], fila'[s][k], pisada[s][k])
         /\ fila'[s][k].estado = "viva" =>
              \/ fila[s][k].estado = "viva" /\ fila'[s][k].origen = fila[s][k].origen
              \/ /\ k = destino[s] /\ fila'[s][k].origen = q.d
                 /\ Propias(q.filas, q.d, s) = {}
  <2> SUFFICES ASSUME NEW s \in Servicios, NEW k \in Ids
               PROVE  TrasAprobar(q, destino, s, k, fila[s][k],
                                  Resultado(q, destino, s, k))
    BY <1>3 DEF TrasAprobar
  <2>1. destino[s] \in Elegibles(q, s) /\ q.pc = "aplicar"
    BY <1>1, <1>2
  <2> QED BY <2>1, FilaTrasAprobar
<1>5. FilasConcuerdan' /\ CargasFieles' /\ GuardanVivas'
  BY <1>2, <1>4, LibreTipo, AnotarFiel, EscrituraFiel
<1>6. ASSUME ~solapadas'
      PROVE  /\ ~solapadas
             /\ \A o \in Sesiones : sesion'[o].pc # "aplicar"
  <2>1. /\ ~solapadas
        /\ \A o \in Sesiones \ {p} : sesion[o].pc # "aplicar"
    BY <1>6 DEF Aplicar
  <2>2. sesion' = [sesion EXCEPT ![p] = Libre]
    BY <1>2 DEF Aislada
  <2> QED BY <1>2, <2>1, <2>2, LibreTipo
<1>7. ASSUME ~solapadas', NEW d \in Documentos, NEW s \in Servicios
      PROVE  AlMasUno(Propias(fila', d, s))
  <2>1. AlMasUno(Propias(fila, d, s))
    BY <1>2, <1>6, <1>7 DEF SinSolaparse
  <2>2. CASE Propias(fila', d, s) \subseteq Propias(fila, d, s)
    BY <2>1, <2>2 DEF AlMasUno
  <2>3. CASE ~(Propias(fila', d, s) \subseteq Propias(fila, d, s))
    <3>1. PICK k \in Propias(fila', d, s) : k \notin Propias(fila, d, s)
      BY <2>3
    <3>2. d = q.d /\ Propias(q.filas, q.d, s) = {}
      BY <1>4, <3>1 DEF Propias
    <3>3. Propias(fila, d, s) = {}
      BY <1>2, <1>6, <1>7, <3>2, SinPropiasAlAplicar
    <3>4. Propias(fila', d, s) \subseteq {destino[s]}
      BY <1>4, <3>3 DEF Propias
    <3> QED BY <3>4 DEF AlMasUno
  <2> QED BY <2>2, <2>3
<1>8. SinSolaparse'
  BY <1>6, <1>7 DEF SinSolaparse, AlMasUno, Propias
<1> QED BY <1>5, <1>8 DEF FilasInv

(* Nothing is on the itinerary at first.                                   *)
LEMMA FilasEmpiezan == Init => FilasInv
<1> SUFFICES ASSUME Init PROVE FilasInv
  OBVIOUS
<1>1. \A s \in Servicios, k \in Ids : fila[s][k].estado = "nada"
  BY DEF Init, SinFilas, SinFila
<1>2. \A p \in Sesiones : sesion[p].pc = "libre"
  BY LibreTipo DEF Init
<1>3. FilasConcuerdan /\ CargasFieles /\ GuardanVivas
  BY <1>1, <1>2 DEF FilasConcuerdan, CargasFieles, GuardanVivas, Provisional
<1>4. SinSolaparse
  BY <1>1, <1>2 DEF SinSolaparse, AlMasUno, Propias
<1> QED BY <1>3, <1>4 DEF FilasInv

(* Always: a row is provisional exactly while it is a stub's, what a       *)
(* session loaded is the row until somebody writes it, and between two     *)
(* approvals that do not overlap a document has one live row per service.  *)
THEOREM FilasInvSiempre == Spec => []FilasInv
<1>1. FilasInv /\ RevisionInv /\ [Next]_vars => FilasInv'
  <2> SUFFICES ASSUME FilasInv, RevisionInv, [Next]_vars PROVE FilasInv'
    OBVIOUS
  <2>1. ASSUME NEW p \in Sesiones, Paso(p) PROVE FilasInv'
    BY <2>1, SinFilasFiel, AplicarFiel, CrearFiel, GuardarFiel DEF Paso
  <2>2. CASE UNCHANGED vars
    BY <2>2 DEF vars, FilasInv, FilasConcuerdan, CargasFieles, SinSolaparse,
       GuardanVivas, Provisional, Concuerda, Cargada, AlCorriente, AlMasUno,
       Propias
  <2> QED BY <2>1, <2>2 DEF Next
<1> QED BY <1>1, FilasEmpiezan, RevisionInvSiempre, PTL DEF Spec

(* The newest provenance of a row is about the value it has, and its mark  *)
(* about that confidence, unless two sessions wrote it from one state.     *)
THEOREM ProcedenciaSiempre == Spec => []ProcedenciaConcuerda
<1>1. FilasInv => ProcedenciaConcuerda
  BY DEF FilasInv, FilasConcuerdan, Concuerda, ProcedenciaConcuerda
<1> QED BY <1>1, FilasInvSiempre, PTL

(* Unless two approvals overlapped, no document ever has two live rows for *)
(* one of its services, however often it is approved again, corrected or   *)
(* read anew, and whatever people do to its rows in between.               *)
THEOREM AprobarNoDuplica == Spec => []SinDuplicados
<1>1. FilasInv => SinDuplicados
  <2> SUFFICES ASSUME FilasInv, ~solapadas, NEW d \in Documentos,
                      NEW s \in Servicios
               PROVE  Cardinality(Propias(fila, d, s)) <= 1
    BY DEF SinDuplicados
  <2>1. AlMasUno(Propias(fila, d, s))
    BY DEF FilasInv, SinSolaparse
  <2> QED BY <2>1, CuentaDeUno
<1> QED BY <1>1, FilasInvSiempre, PTL

(***************************************************************************)
(* The stub and the confirmation.  With one confirmation a service that    *)
(* nobody typed by hand has one live row: whoever is approved second finds *)
(* the first one's row, and to create one instead it would have to have    *)
(* loaded none.                                                            *)
(***************************************************************************)
UnaConfirmacion == \A a, b \in Documentos \ Talones : a = b

Vivas(F, s) == {k \in Ids : F[s][k].estado = "viva"}

SinManual(s) ==
    \A k \in Ids : fila[s][k].estado # "nada" => fila[s][k].origen # "nadie"

TalonInv ==
    ~solapadas => \A s \in Servicios : SinManual(s) =>
        /\ AlMasUno(Vivas(fila, s))
        /\ \A p \in Sesiones :
              sesion[p].pc = "aplicar" => AlMasUno(Vivas(sesion[p].filas, s))

(* Only LeerFilas takes a session to the point of writing, with the rows as*)
(* they are.                                                               *)
LEMMA AplicaLoLeido ==
  ASSUME RevisionInv, NEW p \in Sesiones,
         \/ Pedir(p) \/ LeerUltima(p) \/ LeerVigentes(p) \/ LeerFilas(p)
         \/ Escribir(p) \/ Abortar(p) \/ Recargar(p) \/ PedirFila(p)
  PROVE  /\ fila' = fila /\ solapadas' = solapadas
         /\ \A o \in Sesiones : sesion'[o].pc = "aplicar" =>
               \/ sesion[o].pc = "aplicar" /\ sesion'[o] = sesion[o]
               \/ sesion'[o].filas = fila
<1> DEFINE q == sesion[p]
<1>1. q \in EstadosSesion /\ sesion \in [Sesiones -> EstadosSesion]
      /\ q.d \in Documentos
  BY DEF RevisionInv, TypeOK, EstadosSesion
<1>2. fila' = fila /\ solapadas' = solapadas
  BY DEF Pedir, LeerUltima, LeerVigentes, LeerFilas, Escribir, Abortar, Recargar,
         PedirFila, SinEscribir
<1>3. \E r : Aislada(p, r) /\ (r.pc = "aplicar" => r.filas = fila)
  <2>1. CASE Pedir(p)
    <3>1. PICK d \in Documentos, op \in OperacionesDeDocumento, n \in Numeros :
             \E nueva \in Nuevas(op, version[d][n]) :
                Aislada(p, [SesionDe(d) EXCEPT
                    !.pc = PrimerPaso(op), !.op = op, !.estado = doc[d],
                    !.num = n, !.v = version[d][n], !.nueva = nueva])
      BY <2>1 DEF Pedir
    <3>2. PrimerPaso(op) # "aplicar"
      BY DEF PrimerPaso
    <3>3. ASSUME NEW nueva
          PROVE  [SesionDe(d) EXCEPT
                    !.pc = PrimerPaso(op), !.op = op, !.estado = doc[d],
                    !.num = n, !.v = version[d][n], !.nueva = nueva].pc
                 = PrimerPaso(op)
      BY DEF SesionDe
    <3> QED BY <3>1, <3>2, <3>3
  <2>2. CASE LeerUltima(p)
    <3>1. [q EXCEPT !.pc = "vigentes", !.ultima = Ultima(q.d)].pc = "vigentes"
      BY <1>1 DEF EstadosSesion
    <3> QED BY <2>2, <3>1 DEF LeerUltima
  <2>3. CASE LeerVigentes(p)
    <3> DEFINE fase == IF q.op = "extraer" THEN "escribir" ELSE "filas"
    <3>1. [q EXCEPT !.pc = fase, !.vigentes = Vigentes(q.d),
                    !.superadas = Superables(q)].pc = fase
      BY <1>1 DEF EstadosSesion
    <3>2. fase # "aplicar"
      OBVIOUS
    <3> HIDE DEF fase
    <3>3. Aislada(p, [q EXCEPT !.pc = fase, !.vigentes = Vigentes(q.d),
                               !.superadas = Superables(q)])
      BY <2>3 DEF LeerVigentes, fase
    <3> QED BY <3>1, <3>2, <3>3
  <2>4. CASE LeerFilas(p)
    <3>1. [q EXCEPT !.pc = "aplicar", !.filas = fila].filas = fila
      BY <1>1 DEF EstadosSesion
    <3> QED BY <2>4, <3>1 DEF LeerFilas
  <2>5. CASE Escribir(p)
    <3>1. [q EXCEPT !.pc = "recargar"].pc = "recargar"
      BY <1>1 DEF EstadosSesion
    <3> QED BY <2>5, <3>1, LibreTipo DEF Escribir, Terminar
  <2>6. CASE Abortar(p)
    BY <2>6, LibreTipo DEF Abortar, Terminar
  <2>7. CASE Recargar(p)
    <3>1. [SesionDe(q.d) EXCEPT
               !.pc = "filas", !.estado = doc[q.d], !.num = q.num,
               !.v = version[q.d][q.num], !.nueva = version[q.d][q.num]].pc
          = "filas"
      BY DEF SesionDe
    <3> QED BY <2>7, <3>1, LibreTipo DEF Recargar, Terminar
  <2>8. CASE PedirFila(p)
    <3>1. PICK s \in Servicios, k \in Ids,
               op \in {"editar", "confirmar", "borrar"}, x \in Valores :
             Aislada(p, [q EXCEPT
                !.pc = "guardar", !.op = op, !.s = s, !.k = k, !.valor = x,
                !.filas = [SinFilas EXCEPT ![s][k] = fila[s][k]]])
      BY <2>8 DEF PedirFila
    <3>2. [q EXCEPT
                !.pc = "guardar", !.op = op, !.s = s, !.k = k, !.valor = x,
                !.filas = [SinFilas EXCEPT ![s][k] = fila[s][k]]].pc = "guardar"
      BY <1>1 DEF EstadosSesion
    <3> QED BY <3>1, <3>2
  <2> QED BY <2>1, <2>2, <2>3, <2>4, <2>5, <2>6, <2>7, <2>8
<1>4. PICK r : /\ sesion' = [sesion EXCEPT ![p] = r]
               /\ r.pc = "aplicar" => r.filas = fila
  BY <1>3 DEF Aislada
<1> QED BY <1>1, <1>2, <1>4

(* A service nobody has typed a row of was so before.                      *)
LEMMA SinManualAntes ==
  ASSUME NEW s \in Servicios, SinManual(s)',
         \A k \in Ids : Sucede(fila[s][k], fila'[s][k], pisada[s][k])
  PROVE  SinManual(s)
BY DEF SinManual, Sucede

(* A document that creates a row for a service that already has one would  *)
(* have had to overlook it: there was one when it loaded them, and only    *)
(* one.                                                                    *)
LEMMA CrearEsPrimera ==
  ASSUME RevisionInv, FilasInv, TalonInv, UnaConfirmacion,
         NEW p \in Sesiones, sesion[p].pc = "aplicar", ~solapadas,
         NEW s \in Servicios, SinManual(s), Crea(sesion[p], s)
  PROVE  Vivas(fila, s) = {}
<1> DEFINE q == sesion[p]
           F == q.filas
           d == q.d
<1>1. SUFFICES ASSUME NEW j \in Ids, fila[s][j].estado = "viva"
               PROVE  FALSE
  BY DEF Vivas
<1>2. /\ d \in Documentos /\ fila[s][j].origen \in Documentos \cup {"nadie"}
      /\ AlCorriente(F) /\ CargasFieles
  BY DEF RevisionInv, TypeOK, EstadosSesion, Filas, FilasInv, SinSolaparse
<1>3. /\ fila[s][j].origen # "nadie" /\ F[s][j].estado = "viva"
      /\ F[s][j].origen = fila[s][j].origen
  BY <1>1, <1>2 DEF AlCorriente, SinManual
<1>4. Propias(F, d, s) = {} /\ Ajenas(F, d, s, d \notin Talones) = {}
  BY DEF Crea, Destinos
<1>5. F[s][j].origen # d
  BY <1>3, <1>4 DEF Propias
<1>6. d \notin Talones => F[s][j].prov
  <2>1. Provisional(F[s][j])
    BY <1>2, <1>3 DEF CargasFieles, Cargada
  <2>2. ASSUME d \notin Talones PROVE F[s][j].origen \in Talones
    BY <1>2, <1>3, <1>5, <2>2 DEF UnaConfirmacion
  <2> QED BY <1>3, <2>1, <2>2 DEF Provisional
<1> DEFINE todas == {k \in Ids : /\ F[s][k].estado = "viva"
                                 /\ F[s][k].origen # d
                                 /\ d \notin Talones => F[s][k].prov}
<1>7. todas = {j}
  <2>1. AlMasUno(Vivas(F, s))
    BY DEF TalonInv
  <2> QED BY <1>3, <1>5, <1>6, <2>1 DEF AlMasUno, Vivas
<1>8. Ajenas(F, d, s, d \notin Talones) =
        IF Cardinality(todas) = 1 THEN todas ELSE {}
  BY DEF Ajenas
<1> HIDE DEF todas
<1>9. Cardinality(todas) = 1
  BY <1>7, FS_Singleton
<1> QED BY <1>4, <1>7, <1>8, <1>9

(* Approving keeps one live row in a service with one confirmation.        *)
LEMMA AplicarTalon ==
  ASSUME RevisionInv, FilasInv, TalonInv, UnaConfirmacion,
         NEW p \in Sesiones, Aplicar(p)
  PROVE  TalonInv'
<1> DEFINE q == sesion[p]
<1>1. PICK destino \in [Servicios -> 0..MaxFilas] :
         /\ \A s \in Servicios : destino[s] \in Elegibles(q, s)
         /\ fila' = [s \in Servicios |-> [k \in Ids |->
                        Resultado(q, destino, s, k)]]
  BY DEF Aplicar
<1>2. q.pc = "aplicar" /\ sesion \in [Sesiones -> EstadosSesion]
  BY DEF Aplicar, RevisionInv, TypeOK
<1>3. ASSUME NEW s \in Servicios, NEW k \in Ids
      PROVE  TrasAprobar(q, destino, s, k, fila[s][k], fila'[s][k])
  <2>1. fila'[s][k] = Resultado(q, destino, s, k)
    BY <1>1
  <2>2. destino[s] \in Elegibles(q, s)
    BY <1>1
  <2> QED BY <1>2, <2>1, <2>2, FilaTrasAprobar
<1> SUFFICES ASSUME ~solapadas', NEW s \in Servicios, SinManual(s)'
             PROVE  /\ AlMasUno(Vivas(fila', s))
                    /\ \A o \in Sesiones : sesion'[o].pc # "aplicar"
  BY DEF TalonInv, AlMasUno, Vivas
<1>4. /\ ~solapadas
      /\ \A o \in Sesiones \ {p} : sesion[o].pc # "aplicar"
      /\ sesion' = [sesion EXCEPT ![p] = Libre]
  BY DEF Aplicar, Terminar, Aislada
<1>5. \A o \in Sesiones : sesion'[o].pc # "aplicar"
  BY <1>2, <1>4, LibreTipo
<1>6. SinManual(s)
  BY <1>3, SinManualAntes DEF TrasAprobar
<1>7. AlMasUno(Vivas(fila, s))
  BY <1>4, <1>6 DEF TalonInv
<1>8. CASE Crea(q, s)
  <2>1. Vivas(fila, s) = {}
    BY <1>2, <1>4, <1>6, <1>8, CrearEsPrimera
  <2>2. Vivas(fila', s) \subseteq {destino[s]}
    BY <1>3, <2>1 DEF TrasAprobar, Vivas
  <2> QED BY <1>5, <2>2 DEF AlMasUno
<1>9. CASE ~Crea(q, s)
  <2>1. Vivas(fila', s) \subseteq Vivas(fila, s)
    BY <1>3, <1>9 DEF TrasAprobar, Vivas
  <2> QED BY <1>5, <1>7, <2>1 DEF AlMasUno
<1> QED BY <1>8, <1>9

(* A person who types or edits a row keeps it too: the row that is typed   *)
(* is outside the claim.                                                   *)
LEMMA GenteTalon ==
  ASSUME RevisionInv, FilasInv, TalonInv, NEW p \in Sesiones,
         Crear(p) \/ Guardar(p)
  PROVE  TalonInv'
<1>1. /\ solapadas' = solapadas
      /\ \A o \in Sesiones : sesion'[o].pc = "aplicar" => sesion'[o] = sesion[o]
  BY LibreTipo DEF Crear, Guardar, Terminar, Aislada, RevisionInv, TypeOK
<1>2. \A s \in Servicios, k \in Ids :
         Sucede(fila[s][k], fila'[s][k], pisada[s][k])
  BY CrearFiel, GuardarFiel
<1> SUFFICES ASSUME ~solapadas, NEW s \in Servicios, SinManual(s)'
             PROVE  AlMasUno(Vivas(fila', s)) /\ SinManual(s)
  BY <1>1 DEF TalonInv, AlMasUno, Vivas
<1>3. SinManual(s)
  BY <1>2, SinManualAntes
<1>4. Vivas(fila', s) \subseteq Vivas(fila, s)
  <2>1. CASE Crear(p)
    BY <2>1, CrearFiel DEF SinManual, Vivas
  <2>2. CASE Guardar(p)
    BY <2>2, GuardarFiel DEF Vivas
  <2> QED BY <2>1, <2>2
<1> QED BY <1>3, <1>4 DEF TalonInv, AlMasUno

(* The reads that come before writing keep it, whatever they find.         *)
LEMMA LeerTalon ==
  ASSUME RevisionInv, TalonInv, NEW p \in Sesiones,
         \/ Pedir(p) \/ LeerUltima(p) \/ LeerVigentes(p) \/ LeerFilas(p)
         \/ Escribir(p) \/ Abortar(p) \/ Recargar(p) \/ PedirFila(p)
  PROVE  TalonInv'
<1>1. /\ fila' = fila /\ solapadas' = solapadas
      /\ \A o \in Sesiones : sesion'[o].pc = "aplicar" =>
            \/ sesion[o].pc = "aplicar" /\ sesion'[o] = sesion[o]
            \/ sesion'[o].filas = fila
  BY AplicaLoLeido
<1> QED BY <1>1 DEF TalonInv, AlMasUno, Vivas, SinManual

(* With one confirmation, and however many stubs, the documents of a       *)
(* service meet in one row in whatever order they are approved, as long as *)
(* nobody types a row of their own and approvals do not overlap.  With two *)
(* confirmations each makes its own row, as in the code.                   *)
THEOREM SeEncuentranEnUnaFila ==
  ASSUME UnaConfirmacion
  PROVE  Spec => []TalonYConfirmacion
<1>1. Init => TalonInv
  <2> SUFFICES ASSUME Init PROVE TalonInv
    OBVIOUS
  <2>1. \A s \in Servicios, k \in Ids : fila[s][k].estado = "nada"
    BY DEF Init, SinFilas, SinFila
  <2>2. \A p \in Sesiones : sesion[p].pc = "libre"
    BY LibreTipo DEF Init
  <2> QED BY <2>1, <2>2 DEF TalonInv, AlMasUno, Vivas
<1>2. TalonInv /\ FilasInv /\ RevisionInv /\ [Next]_vars => TalonInv'
  <2> SUFFICES ASSUME TalonInv, FilasInv, RevisionInv, [Next]_vars PROVE TalonInv'
    OBVIOUS
  <2>1. ASSUME NEW p \in Sesiones, Paso(p) PROVE TalonInv'
    BY <2>1, AplicarTalon, GenteTalon, LeerTalon DEF Paso
  <2>2. CASE UNCHANGED vars
    BY <2>2 DEF vars, TalonInv, SinManual, AlMasUno, Vivas
  <2> QED BY <2>1, <2>2 DEF Next
<1>3. TalonInv => TalonYConfirmacion
  <2> SUFFICES ASSUME TalonInv, NEW s \in Servicios, ~solapadas, SinManual(s)
               PROVE  Cardinality(Vivas(fila, s)) <= 1
    BY DEF TalonYConfirmacion, Vivas, SinManual
  <2>1. AlMasUno(Vivas(fila, s))
    BY DEF TalonInv
  <2> QED BY <2>1, CuentaDeUno
<1> QED BY <1>1, <1>2, <1>3, FilasInvSiempre, RevisionInvSiempre, PTL DEF Spec

=============================================================================
