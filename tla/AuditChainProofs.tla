--------------------------- MODULE AuditChainProofs ---------------------------
(***************************************************************************)
(* Proofs about AuditChain, for any set of sessions and any bounds.        *)
(***************************************************************************)
EXTENDS AuditChain, Integers, WellFoundedInduction, TLAPS

(* A nonempty set of naturals has a least element.                         *)
LEMMA MinimoExiste ==
  ASSUME NEW T \in SUBSET Nat, T # {}
  PROVE  \E x \in T : \A y \in T : x <= y
<1> DEFINE R == OpToRel(<, Nat)
<1>1. \A a, b \in Nat : <<a, b>> \in R <=> a < b
  BY DEF OpToRel
<1>2. IsWellFoundedOn(R, Nat)
  BY NatLessThanWellFounded
<1> HIDE DEF R
<1>3. PICK x \in T : \A y \in T : ~(<<y, x>> \in R)
  BY <1>2, WFMin
<1>4. \A y \in T : x <= y
  <2> SUFFICES ASSUME NEW y \in T PROVE x <= y
    OBVIOUS
  <2>1. ~(<<y, x>> \in R)
    BY <1>3
  <2>2. x \in Nat /\ y \in Nat
    OBVIOUS
  <2>3. ~(y < x)
    BY <2>1, <2>2, <1>1
  <2> QED BY <2>2, <2>3
<1> QED BY <1>4

(* A nonempty set of numbers up to N has a greatest element.               *)
LEMMA MaximoExiste ==
  ASSUME NEW N \in Nat, NEW T \in SUBSET (0..N), T # {}
  PROVE  \E x \in T : \A y \in T : y <= x
<1> DEFINE U == {N - y : y \in T}
<1>1. U \in SUBSET Nat
  OBVIOUS
<1>2. U # {}
  <2>1. PICK y \in T : TRUE
    OBVIOUS
  <2>2. N - y \in U
    OBVIOUS
  <2> QED BY <2>2
<1>3. PICK u \in U : \A v \in U : u <= v
  <2> HIDE DEF U
  <2> QED BY <1>1, <1>2, MinimoExiste
<1>4. PICK x \in T : u = N - x
  OBVIOUS
<1>5. \A y \in T : y <= x
  <2> SUFFICES ASSUME NEW y \in T PROVE y <= x
    OBVIOUS
  <2>1. u <= N - y
    BY <1>3
  <2> QED BY <2>1, <1>4
<1> QED BY <1>5

(* `_chain` reads the last row its session sees, or the genesis hash when  *)
(* it sees none.                                                           *)
LEMMA UltimaEsLaMayor ==
  ASSUME NEW w
  PROVE  /\ Visibles(w) = {} => Ultima(w) = GENESIS_HASH
         /\ Visibles(w) # {} => /\ Ultima(w) \in Visibles(w)
                                /\ \A j \in Visibles(w) : j <= Ultima(w)
<1>1. CASE Visibles(w) = {}
  BY <1>1 DEF Ultima
<1>2. CASE Visibles(w) # {}
  <2>1. Visibles(w) \in SUBSET (0..MaxEventos)
    BY MaximosAuditoriaAssumption DEF Visibles, Firmes, Propias, Ids
  <2> DEFINE T == Visibles(w)
  <2>2. \E i \in T : \A j \in T : j <= i
    <3> HIDE DEF T
    <3>1. T \in SUBSET (0..MaxEventos) /\ T # {}
      BY <2>1, <1>2 DEF T
    <3> QED BY <3>1, MaximoExiste, MaximosAuditoriaAssumption
  <2>3. Ultima(w) = CHOOSE i \in T : \A j \in T : j <= i
    BY <1>2 DEF Ultima
  <2> HIDE DEF T
  <2>4. Ultima(w) \in T /\ \A j \in T : j <= Ultima(w)
    BY <2>2, <2>3
  <2> QED BY <2>4, <1>2 DEF T
<1> QED BY <1>1, <1>2

(***************************************************************************)
(* The inductive invariant.                                                *)
(***************************************************************************)
Presentes == {i \in Ids : fila[i].estado \in {"pendiente", "firme"}}

Activo(w) == escritor[w].pc # "libre"

(* Every number handed out is below the next one; a row of an open         *)
(* transaction has a session behind it.                                    *)
Numeros ==
    /\ \A i \in firmadas : i < siguiente
    /\ \A i \in Ids :
          /\ fila[i].estado # "nada" => i < siguiente
          /\ fila[i].estado = "pendiente" =>
                fila[i].de \in Escritores /\ Activo(fila[i].de)

(* What a row, or a session about to write one, is linked to was visible,  *)
(* or belongs to the same transaction.                                     *)
Enlaces ==
    /\ Firmes \subseteq firmadas
    /\ \A i \in Firmes : fila[i].ant \in firmadas \cup {GENESIS_HASH}
    /\ \A i \in Ids : fila[i].estado = "pendiente" =>
          fila[i].ant \in firmadas \cup {GENESIS_HASH} \cup Propias(fila[i].de)
    /\ \A w \in Escritores : Activo(w) =>
          escritor[w].ant \in firmadas \cup {GENESIS_HASH} \cup Propias(w)

(* While sessions take turns: one is active, it has read the true tail, and*)
(* between a row and the one it is linked to there is none.                *)
Turnos ==
    ~solape =>
        /\ \A v, w \in Escritores : Activo(v) /\ Activo(w) => v = w
        /\ \A w \in Escritores : escritor[w].pc = "leido" =>
              \A k \in Presentes : k <= escritor[w].ant
        /\ \A i \in Presentes :
              /\ fila[i].ant < i
              /\ \A k \in Presentes : ~(fila[i].ant < k /\ k < i)

AuditInv == TypeOK /\ Numeros /\ Enlaces /\ Turnos

USE MaximosAuditoriaAssumption

(* The invariant holds of an empty trail.                                  *)
LEMMA InicialAudit == Init => AuditInv
<1> SUFFICES ASSUME Init PROVE AuditInv
  OBVIOUS
<1> USE DEF Init, SinFila, EscritorLibre, GENESIS_HASH
<1>1. TypeOK
  <2>1. SinFila \in Filas
    BY DEF Filas
  <2>2. siguiente \in 1..(MaxEventos + 1) /\ cambios \in 0..MaxCambios
    OBVIOUS
  <2>3. EscritorLibre \in [pc : {"libre", "leido", "insertado"}, ant : 0..MaxEventos]
    OBVIOUS
  <2> QED BY <2>1, <2>2, <2>3 DEF TypeOK
<1>2. Numeros
  BY DEF Numeros
<1>3. Enlaces
  BY DEF Enlaces, Firmes, Activo
<1>4. Turnos
  BY DEF Turnos, Presentes, Activo
<1> QED BY <1>1, <1>2, <1>3, <1>4 DEF AuditInv

(* Reading the tail keeps it: the session sees its own rows and the visible*)
(* ones, which while sessions take turns are all there are.                *)
LEMMA EncadenarAudit ==
  ASSUME NEW w \in Escritores, AuditInv, Encadenar(w)
  PROVE  AuditInv'
<1> USE DEF AuditInv, Encadenar
<1>1. /\ Ultima(w) \in Visibles(w) \cup {GENESIS_HASH}
      /\ \A j \in Visibles(w) : j <= Ultima(w)
  BY UltimaEsLaMayor
<1>2. Visibles(w) \subseteq firmadas \cup Propias(w) /\ Visibles(w) \subseteq Ids
  BY DEF Enlaces, Visibles, Firmes, Propias
<1>3. TypeOK'
  BY <1>1, <1>2 DEF TypeOK, Filas, Ids, GENESIS_HASH
<1>4. Numeros'
  BY DEF Numeros, Activo, TypeOK
<1>5. Enlaces'
  <2>1. Firmes' = Firmes /\ \A v \in Escritores : Propias(v)' = Propias(v)
    BY DEF Firmes, Propias
  <2>2. \A i \in Ids : fila[i].estado = "pendiente" => fila[i].de \in Escritores
    BY DEF Numeros
  <2>3. ASSUME NEW v \in Escritores, Activo(v)'
        PROVE  escritor'[v].ant \in firmadas \cup {GENESIS_HASH} \cup Propias(v)
    <3>1. CASE v = w
      BY <1>1, <1>2, <3>1 DEF TypeOK
    <3>2. CASE v # w
      BY <2>3, <3>2 DEF Enlaces, Activo, TypeOK
    <3> QED BY <3>1, <3>2
  <2> QED BY <2>1, <2>2, <2>3 DEF Enlaces
<1>6. Turnos'
  <2> SUFFICES ASSUME ~solape' PROVE Turnos'
    BY DEF Turnos
  <2>1. ~solape /\ \A v \in Escritores \ {w} : ~Activo(v)
    BY DEF Activo, TypeOK
  <2>2. Presentes' = Presentes
    BY DEF Presentes
  <2>3. Presentes \subseteq Visibles(w)
    <3> SUFFICES ASSUME NEW i \in Presentes PROVE i \in Visibles(w)
      OBVIOUS
    <3>1. CASE fila[i].estado = "firme"
      BY <3>1 DEF Presentes, Visibles, Firmes
    <3>2. CASE fila[i].estado = "pendiente"
      BY <3>2, <2>1 DEF Presentes, Visibles, Propias, Numeros
    <3> QED BY <3>1, <3>2 DEF Presentes
  <2>4. \A v \in Escritores : Activo(v)' => v = w
    BY <2>1 DEF Activo, TypeOK
  <2>5. escritor'[w].ant = Ultima(w)
    BY DEF TypeOK
  <2>6. \A v \in Escritores : escritor'[v].pc = "leido" =>
           \A k \in Presentes : k <= escritor'[v].ant
    BY <1>1, <2>3, <2>4, <2>5 DEF Activo
  <2> QED BY <2>1, <2>2, <2>4, <2>6 DEF Turnos
<1> QED BY <1>3, <1>4, <1>5, <1>6

(* Inserting keeps it: the new number is above every other, and what it is *)
(* linked to is below.                                                     *)
LEMMA InsertarAudit ==
  ASSUME NEW w \in Escritores, AuditInv, Insertar(w)
  PROVE  AuditInv'
<1> USE DEF AuditInv, Insertar
<1> DEFINE s == siguiente
<1>1. /\ s \in Ids /\ fila[s].estado = "nada" /\ s \notin firmadas
      /\ Activo(w) /\ escritor[w].pc = "leido"
  BY DEF TypeOK, Numeros, Ids, Activo
<1>2. /\ fila'[s] = [estado |-> "pendiente", de |-> w,
                     ant |-> escritor[w].ant, intacta |-> TRUE]
      /\ \A i \in Ids \ {s} : fila'[i] = fila[i]
      /\ escritor'[w].pc = "insertado" /\ escritor'[w].ant = escritor[w].ant
      /\ \A v \in Escritores \ {w} : escritor'[v] = escritor[v]
  BY <1>1 DEF TypeOK
<1>3. TypeOK'
  BY <1>1 DEF TypeOK, Filas, Ids
<1>4. Numeros'
  BY <1>1, <1>2 DEF Numeros, Activo, TypeOK, Ids
<1>5. /\ Firmes' = Firmes /\ Presentes' = Presentes \cup {s}
      /\ \A v : Propias(v) \subseteq Propias(v)'
      /\ Firmes \subseteq Ids \ {s}
  BY <1>1, <1>2 DEF Firmes, Presentes, Propias
<1>6. Enlaces'
  <2>1. \A i \in Firmes : fila'[i].ant \in firmadas \cup {GENESIS_HASH}
    BY <1>2, <1>5 DEF Enlaces
  <2>2. ASSUME NEW i \in Ids, fila'[i].estado = "pendiente"
        PROVE  (fila[i].ant \in
                  firmadas \cup {GENESIS_HASH} \cup Propias(fila[i].de))'
    <3>1. CASE i = s
      <4>1. fila'[i].de = w /\ fila'[i].ant = escritor[w].ant
        BY <1>2, <3>1
      <4>2. escritor[w].ant \in firmadas \cup {GENESIS_HASH} \cup Propias(w)'
        BY <1>1, <1>5 DEF Enlaces
      <4> QED BY <4>1, <4>2 DEF Propias
    <3>2. CASE i # s
      <4>1. fila'[i] = fila[i]
        BY <1>2, <3>2
      <4>2. fila[i].ant \in firmadas \cup {GENESIS_HASH} \cup Propias(fila[i].de)
        BY <4>1, <2>2 DEF Enlaces
      <4> QED BY <4>1, <4>2, <1>1, <1>2, <2>2 DEF Propias, TypeOK, Filas
    <3> QED BY <3>1, <3>2
  <2>3. \A v \in Escritores : Activo(v)' =>
          escritor'[v].ant \in firmadas \cup {GENESIS_HASH} \cup Propias(v)'
    BY <1>1, <1>2, <1>5 DEF Enlaces, Activo
  <2> QED BY <1>5, <2>1, <2>2, <2>3 DEF Enlaces
<1>7. Turnos'
  <2> SUFFICES ASSUME ~solape PROVE Turnos'
    BY DEF Turnos
  <2>1. \A v \in Escritores : Activo(v)' => v = w
    BY <1>1, <1>2 DEF Turnos, Activo
  <2>2. \A k \in Presentes : k <= escritor[w].ant /\ k < s /\ k \in Nat
    BY <1>1 DEF Turnos, Presentes, Numeros, Ids
  <2>3. escritor[w].ant < s /\ escritor[w].ant \in Nat
    <3>1. escritor[w].ant \in firmadas \cup {GENESIS_HASH} \cup Propias(w)
      BY <1>1 DEF Enlaces
    <3> QED BY <3>1, <1>1 DEF Numeros, Propias, TypeOK, GENESIS_HASH, Ids
  <2>4. ASSUME NEW i \in Presentes'
        PROVE  /\ fila'[i].ant < i
               /\ \A k \in Presentes' : ~(fila'[i].ant < k /\ k < i)
    <3>1. CASE i = s
      BY <3>1, <1>1, <1>2, <1>5, <2>2, <2>3 DEF Ids
    <3>2. CASE i # s
      <4>1. i \in Presentes /\ fila'[i] = fila[i] /\ i \in Ids
        BY <3>2, <1>2, <1>5 DEF Presentes
      <4>2. fila[i].ant < i /\ \A k \in Presentes : ~(fila[i].ant < k /\ k < i)
        BY <4>1 DEF Turnos
      <4>3. ~(s < i) /\ s \in Nat /\ i \in Nat
        BY <4>1, <2>2, <1>1 DEF Ids
      <4> QED BY <4>1, <4>2, <4>3, <1>5
    <3> QED BY <3>1, <3>2
  <2>5. \A v \in Escritores : escritor'[v].pc # "leido"
    BY <1>2, <2>1 DEF Activo
  <2> QED BY <2>1, <2>4, <2>5 DEF Turnos
<1> QED BY <1>3, <1>4, <1>6, <1>7

(* A commit keeps it: the rows of the session become visible together, and *)
(* nothing of another session changes.                                     *)
LEMMA ConfirmarAudit ==
  ASSUME NEW w \in Escritores, AuditInv, Confirmar(w)
  PROVE  AuditInv'
<1> USE DEF AuditInv, Confirmar
<1>1. \A i \in Ids : /\ fila'[i].ant = fila[i].ant /\ fila'[i].de = fila[i].de
                     /\ i \in Propias(w) => fila'[i].estado = "firme"
                     /\ i \notin Propias(w) => fila'[i].estado = fila[i].estado
  BY DEF TypeOK, Filas
<1>2. Propias(w) \subseteq Ids /\ Activo(w) /\ ~Activo(w)'
  BY DEF Propias, Activo, TypeOK, EscritorLibre
<1>3. TypeOK'
  BY <1>2 DEF TypeOK, Filas, EscritorLibre, GENESIS_HASH
<1>4. Numeros'
  BY <1>1, <1>2 DEF Numeros, Propias, Activo, TypeOK
<1>5. /\ Firmes' = Firmes \cup Propias(w) /\ Presentes' = Presentes
      /\ \A v \in Escritores \ {w} : Propias(v)' = Propias(v)
  BY <1>1 DEF Firmes, Propias, Presentes
<1>6. Enlaces'
  <2>1. \A i \in Firmes' : fila'[i].ant \in firmadas' \cup {GENESIS_HASH}
    BY <1>1, <1>5 DEF Enlaces, Propias, Firmes
  <2>2. ASSUME NEW i \in Ids, fila'[i].estado = "pendiente"
        PROVE  (fila[i].ant \in
                  firmadas \cup {GENESIS_HASH} \cup Propias(fila[i].de))'
    <3>1. /\ fila[i].estado = "pendiente" /\ fila[i].de \in Escritores \ {w}
          /\ fila'[i].ant = fila[i].ant /\ fila'[i].de = fila[i].de
      BY <2>2, <1>1 DEF Numeros, Propias
    <3>2. fila[i].ant \in firmadas \cup {GENESIS_HASH} \cup Propias(fila[i].de)
      BY <3>1 DEF Enlaces
    <3> QED BY <3>1, <3>2, <1>1, <2>2 DEF Propias
  <2>3. ASSUME NEW v \in Escritores, Activo(v)'
        PROVE  (escritor[v].ant \in firmadas \cup {GENESIS_HASH} \cup Propias(v))'
    <3>1. v # w /\ escritor'[v] = escritor[v] /\ Activo(v)
      BY <2>3, <1>2 DEF Activo, TypeOK
    <3> QED BY <3>1, <1>5 DEF Enlaces
  <2> QED BY <1>5, <2>1, <2>2, <2>3 DEF Enlaces
<1>7. Turnos'
  BY <1>1, <1>2, <1>5 DEF Turnos, Activo, TypeOK, Presentes, EscritorLibre
<1> QED BY <1>3, <1>4, <1>6, <1>7

(* A rollback keeps it: what goes away was linked to only by what goes away*)
LEMMA DeshacerAudit ==
  ASSUME NEW w \in Escritores, AuditInv, Deshacer(w)
  PROVE  AuditInv'
<1> USE DEF AuditInv, Deshacer
<1>1. \A i \in Ids : /\ i \in Propias(w) => fila'[i].estado = "nada"
                     /\ i \notin Propias(w) => fila'[i] = fila[i]
  BY DEF TypeOK, SinFila
<1>2. Activo(w) /\ ~Activo(w)'
  BY DEF Activo, TypeOK, EscritorLibre
<1>3. TypeOK'
  <2>1. SinFila \in Filas /\ EscritorLibre \in
           [pc : {"libre", "leido", "insertado"}, ant : 0..MaxEventos]
    BY DEF SinFila, EscritorLibre, Filas, GENESIS_HASH
  <2> QED BY <2>1 DEF TypeOK
<1>4. Numeros'
  BY <1>1, <1>2 DEF Numeros, Propias, Activo, TypeOK
<1>5. /\ Firmes' = Firmes /\ Presentes' \subseteq Presentes
      /\ \A i \in Presentes' : fila'[i] = fila[i]
      /\ \A v \in Escritores \ {w} : Propias(v)' = Propias(v)
  BY <1>1 DEF Firmes, Propias, Presentes
<1>6. Enlaces'
  <2>1. \A i \in Firmes : fila'[i].ant \in firmadas \cup {GENESIS_HASH}
    BY <1>1 DEF Enlaces, Propias, Firmes
  <2>2. ASSUME NEW i \in Ids, fila'[i].estado = "pendiente"
        PROVE  (fila[i].ant \in
                  firmadas \cup {GENESIS_HASH} \cup Propias(fila[i].de))'
    <3>1. /\ fila[i].estado = "pendiente" /\ fila[i].de \in Escritores \ {w}
          /\ fila'[i] = fila[i]
      BY <2>2, <1>1 DEF Numeros, Propias
    <3>2. fila[i].ant \in firmadas \cup {GENESIS_HASH} \cup Propias(fila[i].de)
      BY <3>1 DEF Enlaces
    <3> QED BY <3>1, <3>2, <1>1, <2>2 DEF Propias
  <2>3. ASSUME NEW v \in Escritores, Activo(v)'
        PROVE  (escritor[v].ant \in firmadas \cup {GENESIS_HASH} \cup Propias(v))'
    <3>1. v # w /\ escritor'[v] = escritor[v] /\ Activo(v)
      BY <2>3, <1>2 DEF Activo, TypeOK
    <3> QED BY <3>1, <1>5 DEF Enlaces
  <2> QED BY <1>5, <2>1, <2>2, <2>3 DEF Enlaces
<1>7. Turnos'
  BY <1>2, <1>5 DEF Turnos, Activo, TypeOK, EscritorLibre
<1> QED BY <1>3, <1>4, <1>6, <1>7

(* A direct change to a row keeps it: the links stay as they were.         *)
LEMMA CambioAudit ==
  ASSUME AuditInv, Modificar \/ Borrar
  PROVE  AuditInv'
<1> USE DEF AuditInv
<1>1. PICK i \in Firmes : \/ fila' = [fila EXCEPT ![i].intacta = FALSE]
                          \/ fila' = [fila EXCEPT ![i].estado = "borrada"]
  BY DEF Modificar, Borrar
<1>2. /\ cambios' \in 0..MaxCambios
      /\ UNCHANGED <<siguiente, escritor, solape, firmadas>>
  BY DEF Modificar, Borrar, TypeOK
<1>3. TypeOK'
  <2>1. i \in Ids /\ fila[i] \in Filas
    BY DEF Firmes, TypeOK
  <2>2. /\ [fila[i] EXCEPT !.intacta = FALSE] \in Filas
        /\ [fila[i] EXCEPT !.estado = "borrada"] \in Filas
    BY <2>1 DEF Filas
  <2>3. fila' \in [Ids -> Filas]
    BY <1>1, <2>1, <2>2 DEF TypeOK
  <2> QED BY <1>2, <2>3 DEF TypeOK
<1>4. \A k \in Ids : /\ fila'[k].ant = fila[k].ant /\ fila'[k].de = fila[k].de
                     /\ \/ fila'[k].estado = fila[k].estado
                        \/ fila[k].estado = "firme" /\ fila'[k].estado = "borrada"
  BY <1>1 DEF TypeOK, Filas, Firmes
<1>5. Numeros'
  BY <1>2, <1>4 DEF Numeros, Activo
<1>6. /\ Firmes' \subseteq Firmes /\ Presentes' \subseteq Presentes
      /\ \A v : Propias(v)' = Propias(v)
  BY <1>4 DEF Firmes, Propias, Presentes
<1>7. Enlaces'
  <2>1. \A k \in Firmes' : fila'[k].ant \in firmadas \cup {GENESIS_HASH}
    BY <1>4, <1>6 DEF Enlaces, Firmes
  <2>2. ASSUME NEW k \in Ids, fila'[k].estado = "pendiente"
        PROVE  (fila[k].ant \in
                  firmadas \cup {GENESIS_HASH} \cup Propias(fila[k].de))'
    <3>1. /\ fila[k].estado = "pendiente"
          /\ fila'[k].ant = fila[k].ant /\ fila'[k].de = fila[k].de
      BY <2>2, <1>4
    <3>2. fila[k].ant \in firmadas \cup {GENESIS_HASH} \cup Propias(fila[k].de)
      BY <3>1 DEF Enlaces
    <3> QED BY <3>1, <3>2, <1>2, <1>4 DEF Propias
  <2>3. \A v \in Escritores : Activo(v)' =>
          escritor'[v].ant \in firmadas \cup {GENESIS_HASH} \cup Propias(v)'
    BY <1>2, <1>6 DEF Enlaces, Activo
  <2> QED BY <1>2, <1>6, <2>1, <2>2, <2>3 DEF Enlaces
<1>8. Turnos'
  BY <1>2, <1>4, <1>6 DEF Turnos, Activo, Presentes
<1> QED BY <1>3, <1>5, <1>7, <1>8

(* The invariant holds of every reachable trail.                           *)
THEOREM AuditInvSiempre == Spec => []AuditInv
<1>1. AuditInv /\ [Next]_vars => AuditInv'
  <2> SUFFICES ASSUME AuditInv, [Next]_vars PROVE AuditInv'
    OBVIOUS
  <2>1. CASE \E w \in Escritores : Encadenar(w)
    BY <2>1, EncadenarAudit
  <2>2. CASE \E w \in Escritores : Insertar(w)
    BY <2>2, InsertarAudit
  <2>3. CASE \E w \in Escritores : Confirmar(w)
    BY <2>3, ConfirmarAudit
  <2>4. CASE \E w \in Escritores : Deshacer(w)
    BY <2>4, DeshacerAudit
  <2>5. CASE Modificar \/ Borrar
    BY <2>5, CambioAudit
  <2>6. CASE UNCHANGED vars
    BY <2>6 DEF vars, AuditInv, TypeOK, Numeros, Enlaces, Turnos, Activo,
                Firmes, Propias, Presentes
  <2> QED BY <2>1, <2>2, <2>3, <2>4, <2>5, <2>6 DEF Next
<1> QED BY <1>1, InicialAudit, PTL DEF Spec

(* Every reachable state of the trail is well typed.                       *)
THEOREM AuditTipos == Spec => []TypeOK
<1>1. AuditInv => TypeOK
  BY DEF AuditInv
<1> QED BY <1>1, AuditInvSiempre, PTL

(* No visible event is linked to one that never was.                       *)
THEOREM EnlacesConfirmados == Spec => []EnlaceConfirmado
<1>1. AuditInv => EnlaceConfirmado
  BY DEF AuditInv, Enlaces, EnlaceConfirmado
<1> QED BY <1>1, AuditInvSiempre, PTL

(* While sessions take turns the walk reports exactly the holes: the row   *)
(* before the walk's is below or at the link, and at it unless it is gone. *)
THEOREM LaCadenaSenalaElHueco == Spec => []SenalaElHueco
<1>1. ASSUME AuditInv PROVE SenalaElHueco
  <2> USE DEF AuditInv
  <2> SUFFICES ASSUME ~solape, NEW j \in Firmes
               PROVE  j \in EnlacesRotos <=>
                        /\ fila[j].ant \notin Firmes \cup {GENESIS_HASH}
                        /\ \E i \in Firmes : i < j
    BY <1>1 DEF SenalaElHueco, EnlacesRotos
  <2>1. /\ j \in Ids /\ j \in Presentes /\ Firmes \subseteq Presentes
        /\ Firmes \subseteq Ids /\ fila[j].ant \in 0..MaxEventos
    BY <1>1 DEF Firmes, Presentes, TypeOK, Filas
  <2>2. /\ fila[j].ant < j
        /\ \A k \in Firmes : ~(fila[j].ant < k /\ k < j)
    BY <1>1, <2>1 DEF Turnos
  <2>3. ASSUME NEW i \in Firmes, Precede(i, j), fila[j].ant # i
        PROVE  fila[j].ant \notin Firmes \cup {GENESIS_HASH}
    <3>1. i < j /\ \A k \in Firmes : ~(i < k /\ k < j)
      BY <2>3 DEF Precede
    <3>2. i \in 1..MaxEventos /\ j \in 1..MaxEventos
      BY <2>1 DEF Ids
    <3>3. ~(fila[j].ant < i /\ i < j)
      BY <2>2
    <3>4. i < fila[j].ant
      BY <3>1, <3>2, <3>3, <2>1, <2>3
    <3>5. fila[j].ant \notin Firmes
      BY <3>1, <3>4, <2>2
    <3> QED BY <3>2, <3>4, <3>5 DEF GENESIS_HASH
  <2>4. ASSUME fila[j].ant \notin Firmes, NEW h \in Firmes, h < j
        PROVE  \E i \in Firmes : Precede(i, j) /\ fila[j].ant # i
    <3> DEFINE T == {i \in Firmes : i < j}
    <3>1. T \in SUBSET (0..MaxEventos) /\ T # {}
      <4>1. h \in T
        BY <2>4
      <4>2. \A i \in Ids : i \in 0..MaxEventos
        BY DEF Ids
      <4> QED BY <4>1, <4>2, <2>1
    <3>2. PICK i \in T : \A k \in T : k <= i
      <4> HIDE DEF T
      <4> QED BY <3>1, MaximoExiste
    <3>3. Precede(i, j)
      BY <3>2, <2>1 DEF Precede, Ids
    <3> QED BY <3>3, <2>4
  <2>5. ASSUME NEW i \in Firmes, Precede(i, j)
        PROVE  i < j
    BY <2>5 DEF Precede
  <2> QED BY <2>3, <2>4, <2>5 DEF EnlacesRotos
<1> QED BY <1>1, AuditInvSiempre, PTL
=============================================================================
