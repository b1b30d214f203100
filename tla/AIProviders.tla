----------------------------- MODULE AIProviders -----------------------------
(***************************************************************************)
(* Which provider answers a task of the assistant.                         *)
(*                                                                         *)
(* Administrators keep the rows of `ai_provider_configs`: each may be      *)
(* switched on, and one of them carries the mark of default.  A task is    *)
(* answered by the provider bound to it while that is on, else by the      *)
(* default, else by the oldest one that is on, else by what the            *)
(* environment says.                                                       *)
(*                                                                         *)
(* A request reads its row, decides on what it read, and holds the rows it *)
(* has written until it commits.                                           *)
(***************************************************************************)
EXTENDS Naturals, FiniteSets, FiniteSetsExt

CONSTANTS
    MaxProveedores,   \* bound: rows ever inserted
    Encargos,         \* tasks of the assistant
    Administradores   \* requests that change the providers

ASSUME AIProvidersAssumption == MaxProveedores \in Nat

(* The rows are numbered as they are inserted; a number is never used      *)
(* again, and 0 is no row.                                                 *)
Proveedores == 1..MaxProveedores
SinProveedor == 0

VARIABLES
    altas,            \* rows ever inserted
    vivas,            \* those committed and not deleted
    encendidas,       \* `activo`
    marcadas,         \* `es_por_defecto`
    asignada,         \* the provider bound to each task
    peticion          \* what each request is doing; `sola`: no other met it

varsProveedores == <<altas, vivas, encendidas, marcadas, asignada, peticion>>

EnReposo ==
    [pc |-> "libre", sola |-> TRUE, op |-> "cambiar", fila |-> SinProveedor, activo |-> FALSE,
     es_por_defecto |-> FALSE, por_defecto |-> FALSE, suben |-> {}, bajan |-> {},
     enciende |-> {}, apaga |-> {}]

InitProveedores ==
    /\ altas = 0 /\ vivas = {} /\ encendidas = {} /\ marcadas = {}
    /\ asignada = [t \in Encargos |-> SinProveedor]
    /\ peticion = [a \in Administradores |-> EnReposo]

(***************************************************************************)
(* Selection.                                                              *)
(***************************************************************************)

MasAntigua(S) == Min(S)

(* `.first()` of the marked ones that are on, in no order.                 *)
_default_config ==
    IF marcadas \cap encendidas # {} THEN marcadas \cap encendidas
    ELSE IF encendidas # {} THEN {MasAntigua(encendidas)}
    ELSE {}

(* Who may answer a task; nobody means the environment decides.            *)
resolve(t) == IF asignada[t] \in encendidas THEN {asignada[t]} ELSE _default_config

(***************************************************************************)
(* Writing.  A request keeps what it will have written at its commit.      *)
(***************************************************************************)

Toca(p) == p.suben \cup p.bajan \cup p.enciende \cup p.apaga
           \cup (IF p.op = "eliminar" THEN {p.fila} ELSE {})

(* The rows another request has written and not committed.                 *)
Retenidas(a) ==
    UNION {Toca(peticion[b]) : b \in {b \in Administradores \ {a} :
                                        peticion[b].pc = "lista"}}

(* A plausible slip: the mark is set and nobody else's is taken away.      *)
SoloMarcar(f, yaEra) == [suben |-> IF yaEra THEN {} ELSE {f}, bajan |-> {}]

(* The others are cleared in one statement; the row itself is written only *)
(* if it was read without the mark.                                        *)
_make_default(f, yaEra) ==
    [suben |-> IF yaEra THEN {} ELSE {f}, bajan |-> vivas \ {f}]

_promote_another(f) ==
    IF encendidas \ {f} = {} THEN {} ELSE {MasAntigua(encendidas \ {f})}

EnCurso == {a \in Administradores : peticion[a].pc # "libre"}

(* A request begins: those under way, and it, are no longer alone.         *)
Empezar(a, p) ==
    /\ a \notin EnCurso
    /\ peticion' = [b \in Administradores |->
          IF b = a THEN [p EXCEPT !.sola = EnCurso = {}]
          ELSE IF b \in EnCurso THEN [peticion[b] EXCEPT !.sola = FALSE]
          ELSE peticion[b]]
    /\ UNCHANGED <<vivas, encendidas, marcadas, asignada>>

Prepara(a, p) ==
    /\ Toca(p) \cap Retenidas(a) = {}
    /\ peticion' = [peticion EXCEPT ![a] = [p EXCEPT
          !.pc = "lista", !.activo = FALSE, !.es_por_defecto = FALSE]]
    /\ UNCHANGED <<altas, vivas, encendidas, marcadas, asignada>>

(* A new row: the first one, or the one asked to be, takes the mark.       *)
create(a, activo, por_defecto) ==
    LET f == altas + 1
        marca == IF por_defecto \/ marcadas = {} THEN _make_default(f, FALSE)
                 ELSE [suben |-> {}, bajan |-> {}]
    IN
    /\ f \in Proveedores
    /\ marca.bajan \cap Retenidas(a) = {}
    /\ Empezar(a, [EnReposo EXCEPT
          !.pc = "lista", !.op = "crear", !.fila = f, !.por_defecto = por_defecto,
          !.enciende = IF activo THEN {f} ELSE {},
          !.suben = marca.suben, !.bajan = marca.bajan])
    /\ altas' = f

(* A form, a button: the request reads its row.                            *)
get_or_404(a, f) ==
    /\ f \in vivas
    /\ Empezar(a, [EnReposo EXCEPT
          !.pc = "recibida", !.fila = f,
          !.activo = f \in encendidas, !.es_por_defecto = f \in marcadas])
    /\ UNCHANGED altas

(* A form that says whether the row is on and whether it is the default.   *)
update(a, activo, por_defecto) ==
    LET p == peticion[a]
        deja == p.activo /\ ~activo /\ p.es_por_defecto
        marca == IF por_defecto THEN _make_default(p.fila, p.es_por_defecto)
                 ELSE IF deja THEN [suben |-> _promote_another(p.fila),
                                    bajan |-> {p.fila}]
                 ELSE [suben |-> {}, bajan |-> {}]
    IN
    /\ p.pc = "recibida" /\ p.fila \in vivas
    /\ por_defecto => activo
    /\ Prepara(a, [p EXCEPT
          !.por_defecto = por_defecto,
          !.enciende = IF activo /\ ~p.activo THEN {p.fila} ELSE {},
          !.apaga = IF ~activo /\ p.activo THEN {p.fila} ELSE {},
          !.suben = marca.suben, !.bajan = marca.bajan])

set_default(a) ==
    LET p == peticion[a]  marca == _make_default(p.fila, p.es_por_defecto) IN
    /\ p.pc = "recibida" /\ p.fila \in vivas
    /\ p.activo
    /\ Prepara(a, [p EXCEPT !.por_defecto = TRUE, !.suben = marca.suben,
                            !.bajan = marca.bajan])

(* Refused while a task is bound to it.                                    *)
delete(a) ==
    LET p == peticion[a] IN
    /\ p.pc = "recibida" /\ p.fila \in vivas
    /\ \A t \in Encargos : asignada[t] # p.fila
    /\ Prepara(a, [p EXCEPT !.op = "eliminar",
                            !.suben = IF p.es_por_defecto
                                      THEN _promote_another(p.fila) ELSE {}])

ConfirmarProveedor(a) ==
    LET p == peticion[a]
        borrada == IF p.op = "eliminar" THEN {p.fila} ELSE {}
    IN
    /\ p.pc = "lista"
    /\ vivas' = (vivas \cup (IF p.op = "crear" THEN {p.fila} ELSE {})) \ borrada
    /\ encendidas' = ((encendidas \cup p.enciende) \ p.apaga) \ borrada
    /\ marcadas' = ((marcadas \ p.bajan) \cup p.suben) \ borrada
    /\ peticion' = [peticion EXCEPT ![a] = EnReposo]
    /\ UNCHANGED <<altas, asignada>>

(* Refused, or the row is gone, or the database breaks a tie of locks, or  *)
(* the process dies.                                                       *)
Abandonar(a) ==
    /\ peticion[a].pc # "libre"
    /\ peticion' = [peticion EXCEPT ![a] = EnReposo]
    /\ UNCHANGED <<altas, vivas, encendidas, marcadas, asignada>>

(* One row per task; the foreign key makes it wait for a deletion under    *)
(* way and refuses a row that is gone.                                     *)
set_binding(t, f) ==
    /\ f \in (vivas \cup {SinProveedor}) \ {asignada[t]}
    /\ \A a \in Administradores :
          ~(peticion[a].pc = "lista" /\ peticion[a].op = "eliminar"
            /\ peticion[a].fila = f)
    /\ asignada' = [asignada EXCEPT ![t] = f]
    /\ UNCHANGED <<altas, vivas, encendidas, marcadas, peticion>>

NextProveedores ==
    \/ \E a \in Administradores :
          \/ \E activo, por_defecto \in BOOLEAN : create(a, activo, por_defecto)
          \/ \E f \in Proveedores : get_or_404(a, f)
          \/ \E activo, por_defecto \in BOOLEAN : update(a, activo, por_defecto)
          \/ set_default(a) \/ delete(a) \/ ConfirmarProveedor(a) \/ Abandonar(a)
    \/ \E t \in Encargos, f \in Proveedores \cup {SinProveedor} : set_binding(t, f)

SpecProveedores == InitProveedores /\ [][NextProveedores]_varsProveedores

(***************************************************************************)
(* Properties.                                                             *)
(***************************************************************************)

(* Type: every variable of the module stays in its domain, and a task is   *)
(* bound to a row that exists.                                             *)
TipoProveedores ==
    /\ altas \in 0..MaxProveedores /\ vivas \subseteq 1..altas
    /\ encendidas \subseteq vivas /\ marcadas \subseteq vivas
    /\ asignada \in [Encargos -> vivas \cup {SinProveedor}]
    /\ \A a \in Administradores :
          /\ peticion[a].pc \in {"libre", "recibida", "lista"}
          /\ Toca(peticion[a]) \subseteq 1..altas

(* The request a step commits, if it commits one.                          *)
Confirmada ==
    {a \in Administradores : peticion[a].pc = "lista" /\ peticion'[a].pc = "libre"
                             /\ <<vivas, encendidas, marcadas>>'
                                # <<vivas, encendidas, marcadas>>}

PideMarca == \E a \in Confirmada : peticion[a].por_defecto

(* A step changes who answers a task only if the task was bound anew, its  *)
(* own provider came or went, one that answered it was switched off or     *)
(* deleted, a default was asked for, or the mark was on nobody who is on   *)
(* or on two.                                                              *)
CambioPedido(t) ==
    \/ resolve(t)' \subseteq resolve(t)
    \/ asignada'[t] # asignada[t]
    \/ (asignada[t] \in encendidas) # (asignada'[t] \in encendidas')
    \/ ~(resolve(t) \subseteq encendidas')
    \/ PideMarca
    \/ marcadas \cap encendidas = {}
    \/ Cardinality(marcadas) > 1

(***************************************************************************)
(* `AIProviderConfig.es_por_defecto`, `_make_default`, `_promote_another`: *)
(* whatever marks earlier requests that overlapped have left, a request    *)
(* that meets no other leaves one row marked if it asks for the mark and   *)
(* no more than there were if it does not; while another provider is on,   *)
(* the mark of one that is switched off or deleted passes on; and no task  *)
(* moves to another provider by changing one that did not answer it.       *)
(***************************************************************************)
CambiaSoloLoPedido ==
    [][ \/ \E a \in Confirmada : ~peticion[a].sola
        \/ /\ PideMarca => Cardinality(marcadas') = 1
           /\ Cardinality(marcadas') <= Max({1, Cardinality(marcadas)})
           /\ \/ marcadas \cap encendidas = {} \/ encendidas' = {} \/ PideMarca
              \/ marcadas' \cap encendidas' # {}
           /\ \A t \in Encargos : CambioPedido(t) ]_varsProveedores
=====
