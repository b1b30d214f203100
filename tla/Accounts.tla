------------------------------ MODULE Accounts ------------------------------
(***************************************************************************)
(* The accounts of the organisation: the ones kept here, the ones of the   *)
(* corporate directory, their roles, and how they come and go.             *)
(*                                                                         *)
(* A directory account is created by its first sign-in or when somebody is *)
(* put on a trip.  A deleted account is kept, and a directory one may come *)
(* back.  Only a deletion looks at how many administrators are left, and   *)
(* it looks before it commits.                                             *)
(***************************************************************************)
EXTENDS Naturals, FiniteSets

CONSTANTS
    Locales,        \* people with a local account
    DelDirectorio,  \* people the directory knows
    Mapeados,       \* those whose groups a mapping of the installation names
    Inicial,        \* the administrator of the installation (flask create-admin)
    Peticiones      \* deletions served at once

ASSUME AccountsAssumption ==
    /\ Locales \cap DelDirectorio = {}
    /\ Mapeados \subseteq DelDirectorio
    /\ Inicial \in Locales

VARIABLES
    registro,       \* the row of each person
    directorio,     \* what the directory says of each person
    roles,          \* what the groups of each of Mapeados are mapped to
    borrado,        \* what each deletion is doing
    concedidos,     \* people given the administrator role since they came (back)
    degradado       \* an edit, the directory at a sign-in, or overlapped deletions,
                    \* took an administrator away

varsCuentas == <<registro, directorio, roles, borrado, concedidos, degradado>>

Gente == Locales \cup DelDirectorio

(* Of the roles the groups give, whether administrator is among them.      *)
Mapeos == {{}, {"usuario"}, {"admin"}}

Nula == [estado |-> "nada", rol |-> "usuario"]
Borrado0 == [pc |-> "libre", quien |-> Inicial, solapada |-> FALSE]

TipoCuentas ==
    /\ registro \in [Gente ->
          [estado : {"nada", "ACTIVO", "INACTIVO", "BORRADO"}, rol : {"usuario", "admin"}]]
    /\ directorio \in [DelDirectorio -> {"fuera", "dentro", "deshabilitada"}]
    /\ roles \in [Mapeados -> Mapeos]
    /\ borrado \in [Peticiones ->
          [pc : {"libre", "contado"}, quien : Gente, solapada : BOOLEAN]]
    /\ concedidos \subseteq Gente
    /\ degradado \in BOOLEAN

InitCuentas ==
    /\ registro = [g \in Gente |->
          IF g = Inicial THEN [estado |-> "ACTIVO", rol |-> "admin"] ELSE Nula]
    /\ directorio = [d \in DelDirectorio |-> "dentro"]
    /\ roles = [d \in Mapeados |-> {}]
    /\ borrado = [p \in Peticiones |-> Borrado0]
    /\ concedidos = {Inicial}
    /\ degradado = FALSE

AdministradoresActivos ==
    {g \in Gente : registro[g].estado = "ACTIVO" /\ registro[g].rol = "admin"}

_count_active_admins == Cardinality(AdministradoresActivos)

(***************************************************************************)
(* What an administrator does.                                             *)
(***************************************************************************)
create_user(g, rol) ==
    /\ AdministradoresActivos # {}
    /\ g \in Locales /\ registro[g] = Nula
    /\ registro' = [registro EXCEPT ![g] = [estado |-> "ACTIVO", rol |-> rol]]
    /\ concedidos' = IF rol = "admin" THEN concedidos \cup {g} ELSE concedidos
    /\ UNCHANGED <<directorio, roles, borrado, degradado>>

(* Nothing here asks whether an administrator is left.                     *)
update_user(g, estado, rol) ==
    /\ AdministradoresActivos # {}
    /\ registro[g].estado \in {"ACTIVO", "INACTIVO"}
    /\ registro[g] # [estado |-> estado, rol |-> rol]
    /\ registro' = [registro EXCEPT ![g] = [estado |-> estado, rol |-> rol]]
    /\ concedidos' = IF rol = "admin" THEN concedidos \cup {g} ELSE concedidos \ {g}
    /\ degradado' = (degradado \/ (g \in AdministradoresActivos
                                   /\ ~(estado = "ACTIVO" /\ rol = "admin")))
    /\ UNCHANGED <<directorio, roles, borrado>>

(* A plausible slip: the checks left to the screen.                        *)
PuedeBorrarCualquiera(actor, g) == actor \in Gente /\ g \in Gente

PuedeBorrar(actor, g) ==
    g # actor /\ (registro[g].rol = "admin" => _count_active_admins > 1)

(* delete_user: the checks...                                              *)
PedirBorrado(p, actor, g) ==
    /\ borrado[p].pc = "libre"
    /\ actor \in AdministradoresActivos
    /\ registro[g].estado \in {"ACTIVO", "INACTIVO"}
    /\ PuedeBorrar(actor, g)
    /\ borrado' = [borrado EXCEPT ![p] = [pc |-> "contado", quien |-> g, solapada |-> FALSE]]
    /\ UNCHANGED <<registro, directorio, roles, concedidos, degradado>>

(* ... and the commit, whatever was committed since.                       *)
ConfirmarBorrado(p) ==
    /\ borrado[p].pc = "contado"
    /\ registro' = [registro EXCEPT ![borrado[p].quien].estado = "BORRADO"]
    /\ concedidos' = concedidos \ {borrado[p].quien}
    /\ degradado' = (degradado \/ borrado[p].solapada)
    /\ borrado' = [q \in Peticiones |->
          IF q = p THEN Borrado0
          ELSE [borrado[q] EXCEPT !.solapada = borrado[q].pc # "libre"]]
    /\ UNCHANGED <<directorio, roles>>

(***************************************************************************)
(* The directory proves who somebody is.  A mapping of their groups, where *)
(* it gives any role, replaces the roles on every sign-in, upwards and     *)
(* downwards; with none, a new account is a plain one and the roles are    *)
(* left alone.                                                             *)
(***************************************************************************)
map_groups_to_roles(d) == IF d \in Mapeados THEN roles[d] ELSE {}

RolMapeado(d) == IF "admin" \in map_groups_to_roles(d) THEN "admin" ELSE "usuario"

_sync_attributes(d, fila) ==
    IF map_groups_to_roles(d) = {} THEN fila ELSE [fila EXCEPT !.rol = RolMapeado(d)]

provision_user(d) == [estado |-> "ACTIVO", rol |-> RolMapeado(d)]

(* The role is given by the groups, taken by them, or as it was.           *)
ConcedidosTras(d, antes) ==
    IF "admin" \in map_groups_to_roles(d) THEN antes \cup {d}
    ELSE IF map_groups_to_roles(d) # {} THEN antes \ {d} ELSE antes

(* The second bind is theirs; a disabled person is refused before it.  A   *)
(* directory that does not answer lets nobody in, and nothing changes.     *)
Autentica(d) == directorio[d] = "dentro"

(* A first sign-in creates the account, the next ones refresh the row they *)
(* find: a deleted or disabled one too, which gets no session.  Nothing    *)
(* here asks whether an administrator is left.                             *)
EntrarPorDirectorio(d) ==
    /\ Autentica(d)
    /\ registro' = [registro EXCEPT ![d] =
          IF @ = Nula THEN provision_user(d) ELSE _sync_attributes(d, @)]
    /\ concedidos' = ConcedidosTras(d, concedidos)
    /\ degradado' = (degradado \/ (d \in AdministradoresActivos
                                   /\ registro'[d].rol # "admin"))
    /\ UNCHANGED <<directorio, roles, borrado>>

(* The same row comes back with the basic role only.                       *)
_reactivar(d, fila) ==
    _sync_attributes(d, [fila EXCEPT !.estado = "ACTIVO", !.rol = "usuario"])

dar_de_alta_desde_el_directorio(d) ==
    /\ directorio[d] # "fuera"
    /\ registro[d].estado \in {"nada", "BORRADO"}
    /\ registro' = [registro EXCEPT ![d] =
          IF @ = Nula THEN provision_user(d) ELSE _reactivar(d, @)]
    /\ concedidos' = ConcedidosTras(d, concedidos \ {d})
    /\ UNCHANGED <<directorio, roles, borrado, degradado>>

(* People come and go in the directory, move between its groups, or an     *)
(* administrator changes the mapping.                                      *)
CambiaElDirectorio ==
    \/ /\ \E d \in DelDirectorio, v \in {"fuera", "dentro", "deshabilitada"} :
             directorio[d] # v /\ directorio' = [directorio EXCEPT ![d] = v]
       /\ UNCHANGED <<registro, roles, borrado, concedidos, degradado>>
    \/ /\ \E d \in Mapeados, v \in Mapeos :
             roles[d] # v /\ roles' = [roles EXCEPT ![d] = v]
       /\ UNCHANGED <<registro, directorio, borrado, concedidos, degradado>>

NextCuentas ==
    \/ \E g \in Gente, rol \in {"usuario", "admin"} :
          \/ create_user(g, rol)
          \/ \E estado \in {"ACTIVO", "INACTIVO"} : update_user(g, estado, rol)
    \/ \E p \in Peticiones :
          \/ \E actor, g \in Gente : PedirBorrado(p, actor, g)
          \/ ConfirmarBorrado(p)
    \/ \E d \in DelDirectorio :
          EntrarPorDirectorio(d) \/ dar_de_alta_desde_el_directorio(d)
    \/ CambiaElDirectorio

SpecCuentas == InitCuentas /\ [][NextCuentas]_varsCuentas

(***************************************************************************)
(* An administrator is left, unless an edit took the role or the account   *)
(* away, the directory's groups replaced the role at a sign-in (neither    *)
(* counts), or two deletions counted before either committed.              *)
(***************************************************************************)
QuedaAdministrador == AdministradoresActivos = {} => degradado

(***************************************************************************)
(* Whoever is an administrator was made one by an administrator since the  *)
(* account was created or brought back, or by their groups at a sign-in:   *)
(* neither a first sign-in, nor being put on a trip after a deletion,      *)
(* grants or restores the role.                                            *)
(***************************************************************************)
RolConcedido == AdministradoresActivos \subseteq concedidos

(* Somebody administers, and nobody who was not asked to.                  *)
CuentasEnOrden == QuedaAdministrador /\ RolConcedido
=============================================================================
