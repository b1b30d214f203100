------------------------------ MODULE AuditChain ------------------------------
(***************************************************************************)
(* The audit trail: an append-only table whose rows are chained by hash.   *)
(*                                                                         *)
(* A row is sealed with a hash of its content and of the hash of the row   *)
(* before it, which the writer reads from the table without any lock.  Its *)
(* number comes from a sequence when it is inserted, and it is visible to  *)
(* others only when its transaction commits, which may be the transaction  *)
(* of the operation being audited.  The verification walks the visible rows*)
(* in order of number.                                                     *)
(*                                                                         *)
(* The hash of a row is represented by its number, and its content by      *)
(* whether it is still the one the hash was computed from.                 *)
(***************************************************************************)
EXTENDS Naturals

CONSTANTS
    Escritores,  \* sessions of web and worker processes
    MaxEventos,  \* bound: rows ever inserted
    MaxCambios   \* bound: rows edited or deleted directly in the database

ASSUME MaximosAuditoriaAssumption == MaxEventos \in Nat /\ MaxCambios \in Nat

VARIABLES
    fila,      \* the rows, by number
    siguiente, \* next value of the sequence
    escritor,  \* what each session is doing
    solape,    \* history: a session read the tail while another had read it
               \* and not yet finished
    firmadas,  \* history: the rows that were ever visible
    cambios    \* direct changes so far

vars == <<fila, siguiente, escritor, solape, firmadas, cambios>>

Ids == 1..MaxEventos
GENESIS_HASH == 0

(* estado: not inserted, in an open transaction, visible, deleted.         *)
Filas == [estado : {"nada", "pendiente", "firme", "borrada"},
          de : Escritores \cup {"nadie"}, ant : 0..MaxEventos, intacta : BOOLEAN]

SinFila == [estado |-> "nada", de |-> "nadie", ant |-> GENESIS_HASH,
            intacta |-> TRUE]

EscritorLibre == [pc |-> "libre", ant |-> GENESIS_HASH]

Init ==
    /\ fila = [i \in Ids |-> SinFila]
    /\ siguiente = 1
    /\ escritor = [w \in Escritores |-> EscritorLibre]
    /\ solape = FALSE
    /\ firmadas = {}
    /\ cambios = 0

Firmes == {i \in Ids : fila[i].estado = "firme"}
Propias(w) == {i \in Ids : fila[i].estado = "pendiente" /\ fila[i].de = w}

(* Deliberate fault: rows of open transactions are read too.               *)
VisiblesSinConfirmar(w) == {i \in Ids : fila[i].estado \in {"pendiente", "firme"}}

(* What a session sees under READ COMMITTED.                               *)
Visibles(w) == Firmes \cup Propias(w)

(* Deliberate fault: the oldest row is taken for the last.                 *)
Primera(w) ==
    IF Visibles(w) = {} THEN GENESIS_HASH
    ELSE CHOOSE i \in Visibles(w) : \A j \in Visibles(w) : i <= j

(* Deliberate fault: an empty trail does not fall back on the genesis hash.*)
UltimaSinGenesis(w) ==
    IF Visibles(w) = {} THEN MaxEventos + 1
    ELSE CHOOSE i \in Visibles(w) : \A j \in Visibles(w) : j <= i

(* The hash of the row with the highest number.                            *)
Ultima(w) ==
    IF Visibles(w) = {} THEN GENESIS_HASH
    ELSE CHOOSE i \in Visibles(w) : \A j \in Visibles(w) : j <= i

(* `_chain`: read the hash to link to.  A session whose transaction already*)
(* holds events may add another.                                           *)
Encadenar(w) ==
    /\ escritor[w].pc \in {"libre", "insertado"}
    /\ siguiente <= MaxEventos
    /\ escritor' = [escritor EXCEPT ![w] = [pc |-> "leido", ant |-> Ultima(w)]]
    /\ solape' = (solape \/ \E v \in Escritores \ {w} : escritor[v].pc # "libre")
    /\ UNCHANGED <<fila, siguiente, firmadas, cambios>>

(* The flush: the row gets its number.                                     *)
Insertar(w) ==
    /\ escritor[w].pc = "leido"
    /\ siguiente <= MaxEventos
    /\ fila' = [fila EXCEPT ![siguiente] =
                   [estado |-> "pendiente", de |-> w, ant |-> escritor[w].ant,
                    intacta |-> TRUE]]
    /\ siguiente' = siguiente + 1
    /\ escritor' = [escritor EXCEPT ![w].pc = "insertado"]
    /\ UNCHANGED <<solape, firmadas, cambios>>

(* The commit, of `record` itself or of the operation it joined.           *)
Confirmar(w) ==
    /\ escritor[w].pc = "insertado"
    /\ fila' = [i \in Ids |-> IF i \in Propias(w)
                              THEN [fila[i] EXCEPT !.estado = "firme"]
                              ELSE fila[i]]
    /\ firmadas' = firmadas \cup Propias(w)
    /\ escritor' = [escritor EXCEPT ![w] = EscritorLibre]
    /\ UNCHANGED <<siguiente, solape, cambios>>

(* The operation, or the insertion, fails, or the process dies: everything *)
(* of the transaction goes, but the numbers it took.                       *)
Deshacer(w) ==
    /\ escritor[w].pc # "libre"
    /\ fila' = [i \in Ids |-> IF i \in Propias(w)
                              THEN SinFila ELSE fila[i]]
    /\ escritor' = [escritor EXCEPT ![w] = EscritorLibre]
    /\ UNCHANGED <<siguiente, solape, firmadas, cambios>>

(* A row edited or deleted at the database level; the application never    *)
(* does (`_prevent_audit_update`, `_prevent_audit_delete`).                *)
Modificar ==
    /\ cambios < MaxCambios
    /\ cambios' = cambios + 1
    /\ \E i \in Firmes : fila' = [fila EXCEPT ![i].intacta = FALSE]
    /\ UNCHANGED <<siguiente, escritor, solape, firmadas>>

Borrar ==
    /\ cambios < MaxCambios
    /\ cambios' = cambios + 1
    /\ \E i \in Firmes : fila' = [fila EXCEPT ![i].estado = "borrada"]
    /\ UNCHANGED <<siguiente, escritor, solape, firmadas>>

Next == \/ \E w \in Escritores : \/ Encadenar(w) \/ Insertar(w)
                                 \/ Confirmar(w) \/ Deshacer(w)
        \/ Modificar \/ Borrar

Spec == Init /\ [][Next]_vars

(***************************************************************************)
(* `verify_chain` over the whole trail.                                    *)
(***************************************************************************)
Precede(i, j) ==
    /\ {i, j} \subseteq Firmes /\ i < j
    /\ \A k \in Firmes : ~(i < k /\ k < j)

(* Rows reported as «enlace_roto»: linked to something else than the row   *)
(* before them in the walk.  The first row of the walk has nothing to match*)
EnlacesRotos == {j \in Firmes : \E i \in Firmes : Precede(i, j) /\ fila[j].ant # i}

(* Rows reported as «contenido_alterado».                                  *)
Alteradas == {i \in Firmes : ~fila[i].intacta}

Integra == EnlacesRotos \cup Alteradas = {}

(***************************************************************************)
(* What must hold.                                                         *)
(***************************************************************************)

(* The type of every variable.                                             *)
TypeOK ==
    /\ fila \in [Ids -> Filas]
    /\ siguiente \in 1..(MaxEventos + 1)
    /\ escritor \in [Escritores -> [pc : {"libre", "leido", "insertado"},
                                    ant : 0..MaxEventos]]
    /\ solape \in BOOLEAN
    /\ firmadas \subseteq Ids
    /\ cambios \in 0..MaxCambios

(* Nothing visible is linked to an event that never happened: whatever     *)
(* transactions are rolled back, a row's predecessor was itself visible    *)
(* (`_chain` reads the tail from inside the writer's own transaction).     *)
EnlaceConfirmado ==
    \A i \in Firmes : fila[i].ant \in firmadas \cup {GENESIS_HASH}

(* While sessions take turns, the walk points at the concrete event: the   *)
(* links it reports are those to a row that has been deleted, all of them  *)
(* and no other, whatever was rolled back and whatever numbers were lost   *)
(* («señala el evento concreto», OPERACION.md; a row with none before it is*)
(* beyond what a chain can tell).                                          *)
SenalaElHueco ==
    ~solape => EnlacesRotos =
        {k \in Firmes : /\ fila[k].ant \notin Firmes \cup {GENESIS_HASH}
                        /\ \E j \in Firmes : j < k}

(***************************************************************************)
(* What the repository's documents say and the code does not do.           *)
(***************************************************************************)

(* OPERACION.md: a trail that does not verify means that a row was edited  *)
(* or deleted directly in the database.                                    *)
AlarmaEsManipulacion == cambios = 0 => Integra
=============================================================================
