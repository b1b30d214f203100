---------------------------- MODULE IdentityProofs ----------------------------
(***************************************************************************)
(* What is proved of the accounts, of signing in to one and of its second  *)
(* factor, for any people, browsers, limits and secrets.                   *)
(*                                                                         *)
(* That an administrator is left is not inductive: a deletion has counted  *)
(* before it commits.  What it leaves behind is whoever asked for it, who  *)
(* was an administrator and is not the one deleted; only an edit, a sign-in *)
(* whose groups map to less, or another deletion can take that one away,   *)
(* and all three are the exceptions.                                       *)
(*                                                                         *)
(* The sign-in and the second factor share one argument: a request that    *)
(* nobody has overtaken holds the row as it is (PendienteAlDia,            *)
(* TramiteAlDia), so what it counts, bumps or spends follows from the row; *)
(* one that was overtaken is marked, and its write takes the promise off.  *)
(***************************************************************************)
EXTENDS Accounts, SignIn, SecondFactor,
        TripProofs, MCPeopleAndTrips, FiniteSetTheorems, TLAPS

(* Deleting the one it is about, this deletion leaves somebody.            *)
DejaAlguien(p) ==
    borrado[p].pc = "contado" /\ ~borrado[p].solapada /\ ~degradado =>
       \E g \in AdministradoresActivos : g # borrado[p].quien

InvCuentas ==
    /\ TipoCuentas
    /\ QuedaAdministrador
    /\ RolConcedido
    /\ \A p \in Peticiones : DejaAlguien(p)

(* The administrator of the installation is the only account.              *)
LEMMA CuentasAlPrincipio == InitCuentas => InvCuentas
<1> SUFFICES ASSUME InitCuentas PROVE InvCuentas
    OBVIOUS
<1> USE AccountsAssumption DEF InitCuentas
<1>1. Inicial \in Gente
    BY DEF Gente
<1>2. TipoCuentas
    BY <1>1 DEF TipoCuentas, Nula, Borrado0, Mapeos
<1>3. AdministradoresActivos = {Inicial}
    BY <1>1 DEF AdministradoresActivos, Nula
<1>4. QuedaAdministrador /\ RolConcedido
    BY <1>3 DEF QuedaAdministrador, RolConcedido
<1>5. \A p \in Peticiones : DejaAlguien(p)
    BY DEF DejaAlguien, Borrado0
<1> QED
    BY <1>2, <1>4, <1>5 DEF InvCuentas

(* A step that keeps the administrators there are, and touches no          *)
(* deletion, keeps somebody for each of them.                              *)
LEMMA NadieMenos ==
    ASSUME InvCuentas, UNCHANGED <<borrado, degradado>>,
           AdministradoresActivos \subseteq AdministradoresActivos'
    PROVE  QuedaAdministrador' /\ \A p \in Peticiones : DejaAlguien(p)'
BY DEF InvCuentas, QuedaAdministrador, DejaAlguien

(* An administrator opens an account.                                      *)
LEMMA AlCrear ==
    ASSUME InvCuentas, NEW g \in Gente, NEW rol \in {"usuario", "admin"},
           create_user(g, rol)
    PROVE  InvCuentas'
<1> USE DEF create_user, InvCuentas
<1>1. TipoCuentas'
    BY DEF TipoCuentas
<1>2. AdministradoresActivos' =
         AdministradoresActivos \cup (IF rol = "admin" THEN {g} ELSE {})
    BY DEF AdministradoresActivos, TipoCuentas, Nula
<1>3. RolConcedido'
    BY <1>2 DEF RolConcedido
<1>4. QuedaAdministrador' /\ \A p \in Peticiones : DejaAlguien(p)'
    BY <1>2, NadieMenos
<1> QED
    BY <1>1, <1>3, <1>4

(* An administrator edits one: taking an administrator away is noted.      *)
LEMMA AlEditar ==
    ASSUME InvCuentas, NEW g \in Gente, NEW estado \in {"ACTIVO", "INACTIVO"},
           NEW rol \in {"usuario", "admin"}, update_user(g, estado, rol)
    PROVE  InvCuentas'
<1> USE DEF update_user, InvCuentas
<1>1. TipoCuentas'
    BY DEF TipoCuentas
<1>2. AdministradoresActivos' =
         (AdministradoresActivos \ {g})
            \cup (IF estado = "ACTIVO" /\ rol = "admin" THEN {g} ELSE {})
    BY DEF AdministradoresActivos, TipoCuentas
<1>3. RolConcedido'
    BY <1>2 DEF RolConcedido
<1>4. QuedaAdministrador' /\ \A p \in Peticiones : DejaAlguien(p)'
    <2>1. CASE degradado'
        BY <2>1 DEF QuedaAdministrador, DejaAlguien
    <2>2. CASE ~degradado'
        <3>1. AdministradoresActivos \subseteq AdministradoresActivos'
              /\ UNCHANGED <<borrado, degradado>>
            BY <2>2, <1>2 DEF TipoCuentas
        <3> QED
            BY <3>1, NadieMenos
    <2> QED
        BY <2>1, <2>2
<1> QED
    BY <1>1, <1>3, <1>4

(* A deletion counts: whoever asks for it is the one it leaves.            *)
LEMMA AlPedirBorrado ==
    ASSUME InvCuentas, NEW p \in Peticiones, NEW actor \in Gente, NEW g \in Gente,
           PedirBorrado(p, actor, g)
    PROVE  InvCuentas'
<1> USE DEF PedirBorrado, InvCuentas
<1>1. TipoCuentas'
    BY DEF TipoCuentas
<1>2. AdministradoresActivos' = AdministradoresActivos
    BY DEF AdministradoresActivos
<1>3. QuedaAdministrador' /\ RolConcedido'
    BY <1>2 DEF QuedaAdministrador, RolConcedido
<1>4. \A q \in Peticiones : DejaAlguien(q)'
    <2> SUFFICES ASSUME NEW q \in Peticiones PROVE DejaAlguien(q)'
        OBVIOUS
    <2>1. CASE q = p
        <3>1. actor \in AdministradoresActivos' /\ actor # g
            BY <1>2 DEF PuedeBorrar
        <3>2. borrado'[p].quien = g
            BY DEF TipoCuentas
        <3> QED
            BY <3>1, <3>2, <2>1 DEF DejaAlguien
    <2>2. CASE q # p
        BY <2>2, <1>2 DEF DejaAlguien, TipoCuentas
    <2> QED
        BY <2>1, <2>2
<1> QED
    BY <1>1, <1>3, <1>4

(* A deletion commits: every other one has been overlapped, and this one   *)
(* leaves somebody unless it was.                                          *)
LEMMA AlBorrar ==
    ASSUME InvCuentas, NEW p \in Peticiones, ConfirmarBorrado(p)
    PROVE  InvCuentas'
<1> USE DEF ConfirmarBorrado, InvCuentas
<1>1. TipoCuentas'
    BY AccountsAssumption DEF TipoCuentas, Borrado0, Gente
<1>2. AdministradoresActivos' = AdministradoresActivos \ {borrado[p].quien}
    BY DEF AdministradoresActivos, TipoCuentas
<1>3. RolConcedido'
    BY <1>2 DEF RolConcedido
<1>4. QuedaAdministrador'
    BY <1>2 DEF QuedaAdministrador, DejaAlguien
<1>5. \A q \in Peticiones : DejaAlguien(q)'
    BY DEF DejaAlguien, Borrado0, TipoCuentas
<1> QED
    BY <1>1, <1>3, <1>4, <1>5

Filas == [estado : {"nada", "ACTIVO", "INACTIVO", "BORRADO"}, rol : {"usuario", "admin"}]

(* The directory changes nothing of a row but its role; an administrator's *)
(* is what the groups give, or what the row had when they give nothing.    *)
LEMMA SoloElRol ==
    ASSUME NEW d, NEW ficha \in Filas
    PROVE  /\ _sync_attributes(d, ficha) \in Filas
           /\ _sync_attributes(d, ficha).estado = ficha.estado
           /\ provision_user(d) \in Filas
           /\ _sync_attributes(d, ficha).rol = "admin" =>
                 \/ "admin" \in map_groups_to_roles(d)
                 \/ map_groups_to_roles(d) = {} /\ ficha.rol = "admin"
           /\ provision_user(d).rol = "admin" => "admin" \in map_groups_to_roles(d)
BY DEF _sync_attributes, provision_user, RolMapeado, Filas

(* The directory signs somebody in: the role it takes from an active       *)
(* administrator is noted, and the one it gives is its groups'.            *)
LEMMA AlEntrarPorDirectorio ==
    ASSUME InvCuentas, NEW d \in DelDirectorio, EntrarPorDirectorio(d)
    PROVE  InvCuentas'
<1> DEFINE ficha == IF registro[d] = Nula THEN provision_user(d)
                    ELSE _sync_attributes(d, registro[d])
<1> USE DEF InvCuentas
<1>0. d \in Gente /\ registro[d] \in Filas
    BY DEF Gente, TipoCuentas, Filas
<1>1. /\ registro' = [registro EXCEPT ![d] = ficha]
      /\ concedidos' = ConcedidosTras(d, concedidos)
      /\ degradado' = (degradado \/ (d \in AdministradoresActivos
                                     /\ registro'[d].rol # "admin"))
      /\ UNCHANGED <<borrado, directorio, roles>>
    BY <1>0 DEF EntrarPorDirectorio
<1>2. /\ ficha \in Filas
      /\ d \in AdministradoresActivos => ficha.estado = "ACTIVO"
      /\ ficha.estado = "ACTIVO" /\ ficha.rol = "admin" =>
            \/ "admin" \in map_groups_to_roles(d)
            \/ map_groups_to_roles(d) = {} /\ d \in AdministradoresActivos
    BY <1>0, SoloElRol DEF AdministradoresActivos, Nula
<1> HIDE DEF ficha
<1>3. registro' \in [Gente -> Filas] /\ registro'[d] = ficha
    BY <1>0, <1>1, <1>2 DEF TipoCuentas, Filas
<1>4. concedidos' \subseteq Gente /\ degradado' \in BOOLEAN
    BY <1>0, <1>1 DEF ConcedidosTras, TipoCuentas
<1>5. TipoCuentas'
    BY <1>1, <1>3, <1>4 DEF TipoCuentas, Filas
<1>6. AdministradoresActivos' =
         (AdministradoresActivos \ {d})
            \cup (IF ficha.estado = "ACTIVO" /\ ficha.rol = "admin" THEN {d} ELSE {})
    BY <1>0, <1>1, <1>3 DEF AdministradoresActivos, TipoCuentas
<1>7. RolConcedido'
    BY <1>1, <1>2, <1>6 DEF RolConcedido, ConcedidosTras
<1>8. QuedaAdministrador' /\ \A p \in Peticiones : DejaAlguien(p)'
    <2>1. CASE degradado'
        BY <2>1 DEF QuedaAdministrador, DejaAlguien
    <2>2. CASE ~degradado'
        <3>1. ~degradado /\ (d \in AdministradoresActivos => ficha.rol = "admin")
            BY <2>2, <1>1, <1>3
        <3>2. AdministradoresActivos \subseteq AdministradoresActivos'
            BY <3>1, <1>2, <1>6
        <3>3. UNCHANGED <<borrado, degradado>>
            BY <2>2, <3>1, <1>1, <1>4 DEF TipoCuentas
        <3> QED
            BY <3>2, <3>3, NadieMenos
    <2> QED
        BY <2>1, <2>2, <1>4
<1> QED
    BY <1>5, <1>7, <1>8

(* A manager puts somebody on a trip: an account that is new, or comes     *)
(* back, is an administrator's only if the groups say so.                  *)
LEMMA AlDarDeAlta ==
    ASSUME InvCuentas, NEW d \in DelDirectorio, dar_de_alta_desde_el_directorio(d)
    PROVE  InvCuentas'
<1> DEFINE otra == [registro[d] EXCEPT !.estado = "ACTIVO", !.rol = "usuario"]
           ficha == IF registro[d] = Nula THEN provision_user(d)
                    ELSE _sync_attributes(d, otra)
<1> USE DEF InvCuentas
<1>0. d \in Gente /\ registro[d] \in Filas /\ otra \in Filas /\ otra.rol = "usuario"
    BY DEF Gente, TipoCuentas, Filas
<1>1. /\ registro' = [registro EXCEPT ![d] = ficha]
      /\ concedidos' = ConcedidosTras(d, concedidos \ {d})
      /\ UNCHANGED <<borrado, directorio, roles, degradado>>
      /\ registro[d].estado \in {"nada", "BORRADO"}
    BY <1>0 DEF dar_de_alta_desde_el_directorio, _reactivar
<1> HIDE DEF otra
<1>2. ficha \in Filas /\ (ficha.rol = "admin" => "admin" \in map_groups_to_roles(d))
    BY <1>0, SoloElRol
<1> HIDE DEF ficha
<1>3. registro' \in [Gente -> Filas] /\ registro'[d] = ficha
    BY <1>0, <1>1, <1>2 DEF TipoCuentas, Filas
<1>4. concedidos' \subseteq Gente
    BY <1>0, <1>1 DEF ConcedidosTras, TipoCuentas
<1>5. TipoCuentas'
    BY <1>1, <1>3, <1>4 DEF TipoCuentas, Filas
<1>6. d \notin AdministradoresActivos
    BY <1>1 DEF AdministradoresActivos
<1>7. /\ AdministradoresActivos \subseteq AdministradoresActivos'
      /\ AdministradoresActivos' \subseteq
            AdministradoresActivos \cup (IF ficha.rol = "admin" THEN {d} ELSE {})
    BY <1>0, <1>1, <1>3, <1>6 DEF AdministradoresActivos, TipoCuentas
<1>8. RolConcedido'
    BY <1>1, <1>2, <1>6, <1>7 DEF RolConcedido, ConcedidosTras
<1>9. QuedaAdministrador' /\ \A p \in Peticiones : DejaAlguien(p)'
    BY <1>1, <1>7, NadieMenos
<1> QED
    BY <1>5, <1>8, <1>9

(* Every step keeps the invariant.                                         *)
LEMMA CuentasPaso == InvCuentas /\ [NextCuentas]_varsCuentas => InvCuentas'
<1> SUFFICES ASSUME InvCuentas, [NextCuentas]_varsCuentas PROVE InvCuentas'
    OBVIOUS
<1>1. ASSUME NEW g \in Gente, NEW rol \in {"usuario", "admin"}, create_user(g, rol)
      PROVE  InvCuentas'
    BY <1>1, AlCrear
<1>2. ASSUME NEW g \in Gente, NEW estado \in {"ACTIVO", "INACTIVO"},
             NEW rol \in {"usuario", "admin"}, update_user(g, estado, rol)
      PROVE  InvCuentas'
    BY <1>2, AlEditar
<1>3. ASSUME NEW p \in Peticiones, NEW actor \in Gente, NEW g \in Gente,
             PedirBorrado(p, actor, g)
      PROVE  InvCuentas'
    BY <1>3, AlPedirBorrado
<1>4. ASSUME NEW p \in Peticiones, ConfirmarBorrado(p) PROVE InvCuentas'
    BY <1>4, AlBorrar
<1>5. ASSUME NEW d \in DelDirectorio,
             EntrarPorDirectorio(d) \/ dar_de_alta_desde_el_directorio(d)
      PROVE  InvCuentas'
    BY <1>5, AlEntrarPorDirectorio, AlDarDeAlta
<1>6. CASE CambiaElDirectorio
    <2>1. UNCHANGED <<registro, borrado, concedidos, degradado>>
        BY <1>6 DEF CambiaElDirectorio
    <2>2. TipoCuentas
        BY DEF InvCuentas
    <2>3. directorio' \in [DelDirectorio -> {"fuera", "dentro", "deshabilitada"}]
        BY <1>6, <2>2 DEF CambiaElDirectorio, TipoCuentas
    <2>4. roles' \in [Mapeados -> Mapeos]
        BY <1>6, <2>2 DEF CambiaElDirectorio, TipoCuentas
    <2>5. TipoCuentas'
        BY <2>1, <2>2, <2>3, <2>4 DEF TipoCuentas
    <2> QED
        BY <2>1, <2>5 DEF InvCuentas, QuedaAdministrador, RolConcedido, DejaAlguien,
                          AdministradoresActivos
<1>7. CASE UNCHANGED varsCuentas
    BY <1>7 DEF varsCuentas, InvCuentas, TipoCuentas, QuedaAdministrador,
                RolConcedido, DejaAlguien, AdministradoresActivos
<1> QED
    BY <1>1, <1>2, <1>3, <1>4, <1>5, <1>6, <1>7 DEF NextCuentas

(* The invariant holds of every behaviour.                                 *)
LEMMA SiempreInvCuentas == SpecCuentas => []InvCuentas
BY CuentasAlPrincipio, CuentasPaso, PTL DEF SpecCuentas

(* The accounts never leave their types.                                   *)
THEOREM TiposDeCuentas == SpecCuentas => []TipoCuentas
<1>1. InvCuentas => TipoCuentas
    BY DEF InvCuentas
<1> QED
    BY <1>1, SiempreInvCuentas, PTL

(* Of any number of deletions, first sign-ins, edits and changes of the    *)
(* directory and its groups: an administrator is left unless an edit, the  *)
(* groups at a sign-in, or deletions that counted at once took the last    *)
(* away; and nobody holds the role but those an administrator or their     *)
(* groups gave it to since they came.                                      *)
THEOREM SiempreCuentasEnOrden == SpecCuentas => []CuentasEnOrden
<1>1. InvCuentas => CuentasEnOrden
    BY DEF InvCuentas, CuentasEnOrden
<1> QED
    BY <1>1, SiempreInvCuentas, PTL

-----------------------------------------------------------------------------
(***************************************************************************)
(* Signing in.                                                             *)
(***************************************************************************)
TiposCuenta == [clave : Claves, estado : Estados, fallos : 0..MaxIntentos + 1,
                bloqueo : Bloqueos, epoca : 0..MaxEpoca]
TiposSesion == [epoca : 0..MaxEpoca, hito : 0..MaxEpoca, excusada : BOOLEAN]
TiposIntento ==
    [pc : {"libre", "fallar", "acertar", "abrir", "cambiar", "desbloquear"},
     n : 0..MaxEpoca + MaxIntentos + 2, limpia : BOOLEAN, clave : Claves,
     estado : Estados, hito : 0..MaxEpoca, movida : BOOLEAN]
TiposRacha == [errados : 0..MaxIntentos + 1, reincide : BOOLEAN, solapada : BOOLEAN]

(* What a request that nobody has overtaken knows of the row c and of the  *)
(* changes h committed so far.                                             *)
PendienteAlDia(q, c, h) ==
    /\ q.pc = "cambiar" => q.n <= MaxEpoca
    /\ ~q.movida =>
         /\ q.pc \in {"fallar", "acertar", "abrir"} => q.hito = h
         /\ q.pc = "cambiar" => q.n > c.epoca
         /\ q.pc = "fallar" => q.n = c.fallos + 1 /\ c.bloqueo # "vigente"
         /\ q.pc \in {"acertar", "desbloquear"} =>
               /\ q.n = c.fallos
               /\ q.limpia <=> c.bloqueo # "no"

(* A session is of an epoch there has been; one of this epoch, of the last *)
(* change.                                                                 *)
SesionesAlDia ==
    \A s \in sesiones : ~s.excusada =>
        s.epoca <= cuenta.epoca /\ (s.epoca = cuenta.epoca => s.hito = hitos)

(* The counter of the row against the count by hand, before and after a    *)
(* lock has run out.                                                       *)
RachaDe(c, r) ==
    ~r.solapada =>
        /\ ~r.reincide => /\ r.errados = c.fallos /\ c.bloqueo # "vencido"
                          /\ c.bloqueo = "vigente" <=> c.fallos >= MaxIntentos
        /\ r.reincide => /\ c.fallos >= MaxIntentos
                         /\ \/ c.bloqueo = "vencido" /\ r.errados = 0
                            \/ c.bloqueo = "vigente" /\ r.errados >= 1

InvEntrada ==
    /\ TipoEntrada
    /\ SesionesAlDia
    /\ RachaDe(cuenta, racha)
    /\ \A p \in Navegadores : PendienteAlDia(intento[p], cuenta, hitos)

(* The types of the invariant, by name.                                    *)
LEMMA TiposEntrada ==
    TipoEntrada <=> /\ cuenta \in TiposCuenta /\ hitos \in 0..MaxEpoca
                    /\ sesiones \subseteq TiposSesion
                    /\ intento \in [Navegadores -> TiposIntento]
                    /\ racha \in TiposRacha
BY DEF TipoEntrada, TiposCuenta, TiposSesion, TiposIntento, TiposRacha

(* A request that is over asks for nothing.                                *)
LEMMA IntentoLibre ==
    /\ Intento0 \in TiposIntento /\ Intento0.pc = "libre"
    /\ \A c, h : PendienteAlDia(Intento0, c, h)
    /\ Racha0 \in TiposRacha /\ Racha0.errados = 0 /\ ~Racha0.reincide
    /\ ~Racha0.solapada
BY SignInAssumption
   DEF Intento0, TiposIntento, PendienteAlDia, Claves, Estados, Racha0, TiposRacha

(* Nobody has tried yet.                                                   *)
LEMMA EntradaAlPrincipio == InitEntrada => InvEntrada
<1> SUFFICES ASSUME InitEntrada PROVE InvEntrada
    OBVIOUS
<1>1. TipoEntrada
    BY TiposEntrada, IntentoLibre, SignInAssumption
       DEF InitEntrada, TiposCuenta, Claves, Estados, Bloqueos
<1>2. RachaDe(cuenta, racha)
    BY IntentoLibre, SignInAssumption DEF InitEntrada, RachaDe
<1> QED
    BY <1>1, <1>2, IntentoLibre DEF InitEntrada, InvEntrada, SesionesAlDia

(* A request that reads, or ends without writing the row.                  *)
LEMMA SinTocarLaCuenta ==
    ASSUME InvEntrada, NEW p \in Navegadores, NEW r \in TiposIntento,
           intento' = [intento EXCEPT ![p] = r], PendienteAlDia(r, cuenta, hitos),
           UNCHANGED <<cuenta, hitos, racha>>,
           sesiones' \subseteq TiposSesion, SesionesAlDia'
    PROVE  InvEntrada'
<1>1. /\ cuenta \in TiposCuenta /\ hitos \in 0..MaxEpoca
      /\ intento \in [Navegadores -> TiposIntento] /\ racha \in TiposRacha
    BY TiposEntrada DEF InvEntrada
<1>2. TipoEntrada'
    <2>1. intento' \in [Navegadores -> TiposIntento]
        BY <1>1
    <2> QED
        BY <1>1, <2>1
           DEF TipoEntrada, TiposCuenta, TiposSesion, TiposIntento, TiposRacha
<1>3. \A q \in Navegadores : PendienteAlDia(intento'[q], cuenta, hitos)
    BY <1>1 DEF InvEntrada
<1> QED
    BY <1>2, <1>3 DEF InvEntrada

(* A request that writes the row: everybody else is overtaken.             *)
LEMMA TocarLaCuenta ==
    ASSUME InvEntrada, NEW p \in Navegadores, NEW r \in TiposIntento,
           intento' = [q \in Navegadores |->
               IF q = p THEN r
               ELSE [intento[q] EXCEPT !.movida = intento[q].pc # "libre"]],
           cuenta' \in TiposCuenta, hitos' \in 0..MaxEpoca, racha' \in TiposRacha,
           sesiones' \subseteq TiposSesion,
           PendienteAlDia(r, cuenta', hitos'), RachaDe(cuenta', racha'),
           SesionesAlDia'
    PROVE  InvEntrada'
<1>1. intento \in [Navegadores -> TiposIntento]
    BY TiposEntrada DEF InvEntrada
<1>2. ASSUME NEW q \in Navegadores
      PROVE  intento'[q] \in TiposIntento /\ PendienteAlDia(intento'[q], cuenta', hitos')
    <2>1. CASE q = p
        BY <2>1
    <2>2. CASE q # p
        <3>1. intento'[q] = [intento[q] EXCEPT !.movida = intento[q].pc # "libre"]
            BY <2>2
        <3>2. (intento[q].pc # "libre") \in BOOLEAN
            OBVIOUS
        <3>3. /\ intento'[q] \in TiposIntento /\ intento'[q].pc = intento[q].pc
              /\ intento'[q].n = intento[q].n
              /\ intento'[q].pc # "libre" => intento'[q].movida
            BY <1>1, <3>1, <3>2 DEF TiposIntento
        <3>4. PendienteAlDia(intento[q], cuenta, hitos)
            BY DEF InvEntrada
        <3> QED
            BY <3>3, <3>4 DEF PendienteAlDia
    <2> QED
        BY <2>1, <2>2
<1>3. intento' \in [Navegadores -> TiposIntento]
    BY <1>2
<1>4. TipoEntrada'
    BY <1>3 DEF TipoEntrada, TiposCuenta, TiposSesion, TiposIntento, TiposRacha
<1> QED
    BY <1>2, <1>4 DEF InvEntrada

(* The row is looked up, and the lock and the password checked.            *)
LEMMA AlAutenticar ==
    ASSUME InvEntrada, NEW p \in Navegadores, NEW clave \in Claves,
           Autenticar(p, clave)
    PROVE  InvEntrada'
<1> DEFINE r == [Intento0 EXCEPT
              !.pc = IF clave = cuenta.clave THEN "acertar" ELSE "fallar",
              !.n = IF clave = cuenta.clave THEN cuenta.fallos
                    ELSE SiguienteFallo(cuenta.fallos),
              !.limpia = cuenta.bloqueo # "no",
              !.hito = hitos]
<1>1. /\ cuenta \in TiposCuenta /\ hitos \in 0..MaxEpoca
      /\ sesiones \subseteq TiposSesion
    BY TiposEntrada DEF InvEntrada
<1>2. (cuenta.bloqueo # "no") \in BOOLEAN
    OBVIOUS
<1>3. cuenta.fallos \in 0..MaxEpoca + MaxIntentos + 2
      /\ SiguienteFallo(cuenta.fallos) \in 0..MaxEpoca + MaxIntentos + 2
      /\ SiguienteFallo(cuenta.fallos) = cuenta.fallos + 1
    BY <1>1, SignInAssumption DEF TiposCuenta, SiguienteFallo
<1>4. /\ r \in TiposIntento
      /\ r.pc = IF clave = cuenta.clave THEN "acertar" ELSE "fallar"
      /\ r.n = IF clave = cuenta.clave THEN cuenta.fallos ELSE cuenta.fallos + 1
      /\ r.limpia <=> cuenta.bloqueo # "no"
      /\ r.hito = hitos
    BY <1>1, <1>2, <1>3, IntentoLibre DEF TiposIntento
<1>5. /\ intento' = [intento EXCEPT ![p] = r] /\ cuenta.bloqueo # "vigente"
      /\ UNCHANGED <<cuenta, hitos, sesiones, racha>>
    BY DEF Autenticar
<1> HIDE DEF r
<1>6. PendienteAlDia(r, cuenta, hitos)
    BY <1>4, <1>5 DEF PendienteAlDia
<1>7. SesionesAlDia'
    BY <1>5 DEF InvEntrada, SesionesAlDia
<1> QED
    BY <1>1, <1>4, <1>5, <1>6, <1>7, SinTocarLaCuenta

(* A failure is counted: on the row nobody else has written, it is one     *)
(* more than there were, and the lock follows the counter.                 *)
LEMMA AlFallar ==
    ASSUME InvEntrada, NEW p \in Navegadores, _register_failure(p)
    PROVE  InvEntrada'
<1> DEFINE n == IF intento[p].n > MaxIntentos THEN MaxIntentos + 1 ELSE intento[p].n
<1>1. /\ cuenta \in TiposCuenta /\ hitos \in 0..MaxEpoca
      /\ sesiones \subseteq TiposSesion /\ racha \in TiposRacha
      /\ intento[p] \in TiposIntento
    BY TiposEntrada DEF InvEntrada
<1>2. /\ intento[p].pc = "fallar"
      /\ cuenta' = [cuenta EXCEPT !.fallos = n,
                       !.bloqueo = IF n >= MaxIntentos THEN "vigente" ELSE @]
      /\ racha' = [racha EXCEPT !.errados = IF @ > MaxIntentos THEN @ ELSE @ + 1,
                                !.solapada = @ \/ intento[p].movida]
      /\ UNCHANGED <<hitos, sesiones>>
    BY DEF _register_failure
<1>3. n \in 0..MaxIntentos + 1
    BY <1>1, SignInAssumption DEF TiposIntento
<1> HIDE DEF n
<1>4. /\ cuenta' \in TiposCuenta /\ cuenta'.fallos = n /\ cuenta'.epoca = cuenta.epoca
      /\ cuenta'.bloqueo = IF n >= MaxIntentos THEN "vigente" ELSE cuenta.bloqueo
    BY <1>1, <1>2, <1>3 DEF TiposCuenta, Bloqueos
<1>5. /\ racha'.errados = IF racha.errados > MaxIntentos THEN racha.errados
                                                         ELSE racha.errados + 1
      /\ racha'.reincide = racha.reincide
      /\ racha'.solapada <=> racha.solapada \/ intento[p].movida
      /\ racha' \in TiposRacha
    <2> DEFINE e == IF racha.errados > MaxIntentos THEN racha.errados
                                                   ELSE racha.errados + 1
               b == racha.solapada \/ intento[p].movida
    <2>1. racha' = [racha EXCEPT !.errados = e, !.solapada = b]
        BY <1>2
    <2>2. e \in 0..MaxIntentos + 1
        BY <1>1, SignInAssumption DEF TiposRacha
    <2>3. b \in BOOLEAN
        OBVIOUS
    <2>4. ASSUME NEW e0 \in 0..MaxIntentos + 1, NEW b0 \in BOOLEAN,
                 racha' = [racha EXCEPT !.errados = e0, !.solapada = b0]
          PROVE  /\ racha'.errados = e0 /\ racha'.reincide = racha.reincide
                 /\ racha'.solapada = b0 /\ racha' \in TiposRacha
        BY <1>1, <2>4 DEF TiposRacha
    <2>5. /\ racha'.errados = e /\ racha'.reincide = racha.reincide
          /\ racha'.solapada = b /\ racha' \in TiposRacha
        BY <2>1, <2>2, <2>3, <2>4
    <2> QED
        BY <2>5
<1>6. RachaDe(cuenta', racha')
    <2> SUFFICES ASSUME ~racha.solapada, ~intento[p].movida PROVE RachaDe(cuenta', racha')
        BY <1>5 DEF RachaDe
    <2>1. /\ intento[p].n = cuenta.fallos + 1 /\ cuenta.bloqueo # "vigente"
          /\ cuenta.fallos \in Nat /\ racha.errados \in Nat
        BY <1>1, <1>2 DEF InvEntrada, PendienteAlDia, TiposCuenta, TiposRacha
    <2>2. CASE ~racha.reincide
        <3>1. racha.errados = cuenta.fallos /\ cuenta.fallos < MaxIntentos
              /\ cuenta.bloqueo # "vencido"
            BY <2>1, <2>2, SignInAssumption DEF InvEntrada, RachaDe
        <3>2. n = cuenta.fallos + 1 /\ racha'.errados = cuenta.fallos + 1
            BY <1>5, <2>1, <3>1, SignInAssumption DEF n
        <3> QED
            BY <1>4, <1>5, <2>1, <2>2, <3>1, <3>2, SignInAssumption DEF RachaDe
    <2>3. CASE racha.reincide
        <3>1. cuenta.fallos >= MaxIntentos /\ racha.errados = 0
            BY <2>1, <2>3 DEF InvEntrada, RachaDe
        <3>2. n = MaxIntentos + 1 /\ racha'.errados = 1
            BY <1>5, <2>1, <3>1, SignInAssumption DEF n
        <3> QED
            BY <1>4, <1>5, <2>3, <3>2, SignInAssumption DEF RachaDe
    <2> QED
        BY <2>2, <2>3
<1>7. SesionesAlDia'
    BY <1>2, <1>4 DEF InvEntrada, SesionesAlDia
<1>8. intento' = [q \in Navegadores |->
          IF q = p THEN Intento0
          ELSE [intento[q] EXCEPT !.movida = intento[q].pc # "libre"]]
    BY DEF _register_failure, TrasEscribir
<1> QED
    BY <1>1, <1>2, <1>4, <1>5, <1>6, <1>7, <1>8, IntentoLibre, TocarLaCuenta

(* Clearing the counter and the lock, from a row loaded before: a full     *)
(* clearing unless somebody wrote in between.                              *)
LEMMA AlLimpiar ==
    ASSUME InvEntrada, NEW p \in Navegadores,
           intento[p].pc \in {"acertar", "desbloquear"},
           cuenta' = Limpiar(p), racha' = RachaLimpia(p),
           UNCHANGED <<hitos, sesiones>>
    PROVE  /\ cuenta' \in TiposCuenta /\ racha' \in TiposRacha
           /\ RachaDe(cuenta', racha') /\ SesionesAlDia'
<1>1. /\ cuenta \in TiposCuenta /\ racha \in TiposRacha /\ intento[p] \in TiposIntento
    BY TiposEntrada DEF InvEntrada
<1>2. /\ cuenta' \in TiposCuenta /\ cuenta'.epoca = cuenta.epoca
      /\ cuenta'.fallos = IF intento[p].n # 0 THEN 0 ELSE cuenta.fallos
      /\ cuenta'.bloqueo = IF intento[p].limpia THEN "no" ELSE cuenta.bloqueo
    <2> DEFINE f == IF intento[p].n # 0 THEN 0 ELSE cuenta.fallos
               b == IF intento[p].limpia THEN "no" ELSE cuenta.bloqueo
    <2>1. cuenta' = [cuenta EXCEPT !.fallos = f, !.bloqueo = b]
        BY DEF Limpiar
    <2>2. f \in 0..MaxIntentos + 1 /\ b \in Bloqueos
        BY <1>1, SignInAssumption DEF TiposCuenta, Bloqueos
    <2> HIDE DEF f, b
    <2>3. /\ cuenta' \in TiposCuenta /\ cuenta'.epoca = cuenta.epoca
          /\ cuenta'.fallos = f /\ cuenta'.bloqueo = b
        BY <1>1, <2>1, <2>2 DEF TiposCuenta
    <2> QED
        BY <2>3 DEF f, b
<1>3. CASE intento[p].movida
    <2>1. racha' \in TiposRacha /\ racha'.solapada
        BY <1>1, <1>3 DEF RachaLimpia, TiposRacha
    <2> QED
        BY <1>2, <2>1 DEF RachaDe, InvEntrada, SesionesAlDia
<1>4. CASE ~intento[p].movida
    <2>1. racha' = Racha0
        BY <1>4 DEF RachaLimpia
    <2>2. intento[p].n = cuenta.fallos /\ (intento[p].limpia <=> cuenta.bloqueo # "no")
        BY <1>4 DEF InvEntrada, PendienteAlDia
    <2>3. cuenta'.fallos = 0 /\ cuenta'.bloqueo = "no"
        BY <1>2, <2>2
    <2>4. RachaDe(cuenta', racha')
        BY <2>1, <2>3, IntentoLibre, SignInAssumption DEF RachaDe
    <2> QED
        BY <1>2, <2>1, <2>4, IntentoLibre DEF InvEntrada, SesionesAlDia
<1> QED
    BY <1>3, <1>4

(* A right password clears both.                                           *)
LEMMA AlAcertar ==
    ASSUME InvEntrada, NEW p \in Navegadores, _register_success(p)
    PROVE  InvEntrada'
<1> DEFINE r == [intento[p] EXCEPT !.pc = "abrir"]
<1>1. /\ cuenta' \in TiposCuenta /\ racha' \in TiposRacha
      /\ RachaDe(cuenta', racha') /\ SesionesAlDia'
    BY AlLimpiar DEF _register_success
<1>2. /\ hitos \in 0..MaxEpoca /\ sesiones \subseteq TiposSesion
      /\ intento[p] \in TiposIntento
    BY TiposEntrada DEF InvEntrada
<1>3. /\ r \in TiposIntento /\ r.pc = "abrir" /\ r.hito = intento[p].hito
      /\ r.movida = intento[p].movida
    BY <1>2 DEF TiposIntento
<1>4. intento' = [q \in Navegadores |->
          IF q = p THEN r
          ELSE [intento[q] EXCEPT !.movida = intento[q].pc # "libre"]]
      /\ UNCHANGED <<hitos, sesiones>> /\ intento[p].pc = "acertar"
    BY DEF _register_success
<1> HIDE DEF r
<1>5. PendienteAlDia(r, cuenta', hitos')
    BY <1>3, <1>4 DEF InvEntrada, PendienteAlDia
<1> QED
    BY <1>1, <1>2, <1>3, <1>4, <1>5, TocarLaCuenta

(* So does an administrator's unlock.                                      *)
LEMMA AlDesbloquear ==
    ASSUME InvEntrada, NEW p \in Navegadores, unlock_user(p)
    PROVE  InvEntrada'
<1>1. /\ cuenta' \in TiposCuenta /\ racha' \in TiposRacha
      /\ RachaDe(cuenta', racha') /\ SesionesAlDia'
    BY AlLimpiar DEF unlock_user
<1>2. hitos \in 0..MaxEpoca /\ sesiones \subseteq TiposSesion
    BY TiposEntrada DEF InvEntrada
<1>3. intento' = [q \in Navegadores |->
          IF q = p THEN Intento0
          ELSE [intento[q] EXCEPT !.movida = intento[q].pc # "libre"]]
      /\ UNCHANGED <<hitos, sesiones>>
    BY DEF unlock_user, TrasEscribir
<1> QED
    BY <1>1, <1>2, <1>3, IntentoLibre, TocarLaCuenta

(* A session opens on the epoch of now; it is of the last change if nobody *)
(* wrote between the password and this.                                    *)
LEMMA AlAbrirSesion ==
    ASSUME InvEntrada, NEW p \in Navegadores, login_user(p)
    PROVE  InvEntrada'
<1> DEFINE s0 == [epoca |-> cuenta.epoca, hito |-> intento[p].hito,
                  excusada |-> intento[p].movida]
<1>1. /\ cuenta \in TiposCuenta /\ sesiones \subseteq TiposSesion
      /\ intento[p] \in TiposIntento /\ cuenta.epoca \in Nat
    BY TiposEntrada, SignInAssumption DEF InvEntrada, TiposCuenta
<1>2. s0 \in TiposSesion
    BY <1>1 DEF TiposCuenta, TiposIntento, TiposSesion
<1>3. /\ intento' = [intento EXCEPT ![p] = Intento0]
      /\ UNCHANGED <<cuenta, hitos, racha>>
      /\ sesiones' \subseteq sesiones \cup {s0}
    BY DEF login_user
<1>4. ~s0.excusada => s0.epoca = cuenta.epoca /\ s0.hito = hitos
    BY DEF InvEntrada, PendienteAlDia, login_user
<1> HIDE DEF s0
<1>5. SesionesAlDia'
    BY <1>1, <1>3, <1>4 DEF InvEntrada, SesionesAlDia
<1> QED
    BY <1>1, <1>2, <1>3, <1>5, IntentoLibre, SinTocarLaCuenta

(* A change of the account is prepared: its epoch is later than the row's. *)
LEMMA AlPreparar ==
    ASSUME InvEntrada, NEW p \in Navegadores, NEW clave \in Claves,
           NEW estado \in Estados, PrepararCambio(p, clave, estado)
    PROVE  InvEntrada'
<1> DEFINE r == [Intento0 EXCEPT !.pc = "cambiar", !.n = cuenta.epoca + Subidas(estado),
                                 !.clave = clave, !.estado = estado]
<1>1. cuenta.epoca \in Nat /\ sesiones \subseteq TiposSesion
    BY TiposEntrada, SignInAssumption DEF InvEntrada, TiposCuenta
<1>2. /\ cuenta.epoca + Subidas(estado) \in 0..MaxEpoca + MaxIntentos + 2
      /\ cuenta.epoca + Subidas(estado) > cuenta.epoca
      /\ cuenta.epoca + Subidas(estado) <= MaxEpoca
    BY <1>1, SignInAssumption DEF PrepararCambio, Subidas
<1>3. /\ r \in TiposIntento /\ r.pc = "cambiar" /\ r.n = cuenta.epoca + Subidas(estado)
    BY <1>2, IntentoLibre DEF TiposIntento
<1>4. /\ intento' = [intento EXCEPT ![p] = r]
      /\ UNCHANGED <<cuenta, hitos, sesiones, racha>>
    BY DEF PrepararCambio
<1> HIDE DEF r
<1>5. PendienteAlDia(r, cuenta, hitos)
    BY <1>2, <1>3 DEF PendienteAlDia
<1>6. SesionesAlDia'
    BY <1>4 DEF InvEntrada, SesionesAlDia
<1> QED
    BY <1>1, <1>3, <1>4, <1>5, <1>6, SinTocarLaCuenta

(* It is confirmed: every session was of an earlier epoch, or is excused.  *)
LEMMA AlConfirmar ==
    ASSUME InvEntrada, NEW p \in Navegadores, ConfirmarCambio(p)
    PROVE  InvEntrada'
<1>1. /\ cuenta \in TiposCuenta /\ hitos \in 0..MaxEpoca
      /\ sesiones \subseteq TiposSesion /\ racha \in TiposRacha
      /\ intento[p] \in TiposIntento
    BY TiposEntrada DEF InvEntrada
<1>2. /\ intento[p].pc = "cambiar" /\ hitos < MaxEpoca /\ hitos' = hitos + 1
      /\ UNCHANGED racha
      /\ cuenta' = [cuenta EXCEPT !.clave = intento[p].clave, !.epoca = intento[p].n,
                                  !.estado = intento[p].estado]
      /\ sesiones' = IF intento[p].movida
                     THEN {[s EXCEPT !.excusada = TRUE] : s \in sesiones} ELSE sesiones
    BY DEF ConfirmarCambio
<1>3. intento[p].n \in 0..MaxEpoca
    <2>1. intento[p].n <= MaxEpoca
        BY <1>2 DEF InvEntrada, PendienteAlDia
    <2> QED
        BY <1>1, <2>1, SignInAssumption DEF TiposIntento
<1>4. /\ cuenta' \in TiposCuenta /\ cuenta'.epoca = intento[p].n
      /\ cuenta'.fallos = cuenta.fallos /\ cuenta'.bloqueo = cuenta.bloqueo
    BY <1>1, <1>2, <1>3 DEF TiposCuenta, TiposIntento
<1>5. hitos' \in 0..MaxEpoca
    BY <1>1, <1>2, SignInAssumption
<1>6. RachaDe(cuenta', racha')
    BY <1>2, <1>4 DEF InvEntrada, RachaDe
<1>7. sesiones' \subseteq TiposSesion /\ SesionesAlDia'
    <2>1. CASE intento[p].movida
        <3> SUFFICES ASSUME NEW s \in sesiones
                     PROVE  LET t == [s EXCEPT !.excusada = TRUE]
                            IN  t \in TiposSesion /\ t.excusada
            BY <1>2, <2>1 DEF SesionesAlDia
        <3> QED
            BY <1>1 DEF TiposSesion
    <2>2. CASE ~intento[p].movida
        <3>1. intento[p].n > cuenta.epoca
            BY <1>2, <2>2 DEF InvEntrada, PendienteAlDia
        <3> SUFFICES ASSUME NEW s \in sesiones, ~s.excusada
                     PROVE  s.epoca <= cuenta'.epoca /\ s.epoca # cuenta'.epoca
            BY <1>1, <1>2, <2>2 DEF SesionesAlDia
        <3>2. s.epoca \in Nat /\ cuenta.epoca \in Nat /\ intento[p].n \in Nat
            BY <1>1, <1>3, SignInAssumption DEF TiposSesion, TiposCuenta
        <3> QED
            BY <1>4, <3>1, <3>2 DEF InvEntrada, SesionesAlDia
    <2> QED
        BY <2>1, <2>2
<1>8. intento' = [q \in Navegadores |->
          IF q = p THEN Intento0
          ELSE [intento[q] EXCEPT !.movida = intento[q].pc # "libre"]]
    BY DEF ConfirmarCambio, TrasEscribir
<1> QED
    BY <1>1, <1>2, <1>4, <1>5, <1>6, <1>7, <1>8, IntentoLibre, TocarLaCuenta

(* An unlock is asked for, on the row as loaded.                           *)
LEMMA AlPedirDesbloqueo ==
    ASSUME InvEntrada, NEW p \in Navegadores, PedirDesbloqueo(p)
    PROVE  InvEntrada'
<1> DEFINE r == [Intento0 EXCEPT !.pc = "desbloquear", !.n = cuenta.fallos,
                                 !.limpia = cuenta.bloqueo # "no"]
<1>1. cuenta.fallos \in 0..MaxIntentos + 1 /\ sesiones \subseteq TiposSesion
    BY TiposEntrada DEF InvEntrada, TiposCuenta
<1>2. (cuenta.bloqueo # "no") \in BOOLEAN
    OBVIOUS
<1>3. cuenta.fallos \in 0..MaxEpoca + MaxIntentos + 2
    BY <1>1, SignInAssumption
<1>7. /\ r \in TiposIntento /\ r.pc = "desbloquear" /\ r.n = cuenta.fallos
      /\ r.limpia <=> cuenta.bloqueo # "no"
    BY <1>2, <1>3, IntentoLibre DEF TiposIntento
<1>4. /\ intento' = [intento EXCEPT ![p] = r]
      /\ UNCHANGED <<cuenta, hitos, sesiones, racha>>
    BY DEF PedirDesbloqueo
<1> HIDE DEF r
<1>5. PendienteAlDia(r, cuenta, hitos)
    BY <1>7 DEF PendienteAlDia
<1>6. SesionesAlDia'
    BY <1>4 DEF InvEntrada, SesionesAlDia
<1> QED
    BY <1>1, <1>4, <1>5, <1>6, <1>7, SinTocarLaCuenta

(* The lock runs out: nobody who has not been overtaken was counting a     *)
(* failure on a locked row.                                                *)
LEMMA AlVencer ==
    ASSUME InvEntrada, VencerBloqueo
    PROVE  InvEntrada'
<1>1. /\ cuenta \in TiposCuenta /\ hitos \in 0..MaxEpoca /\ racha \in TiposRacha
      /\ sesiones \subseteq TiposSesion /\ intento \in [Navegadores -> TiposIntento]
    BY TiposEntrada DEF InvEntrada
<1>2. /\ cuenta.bloqueo = "vigente" /\ UNCHANGED <<hitos, sesiones, intento>>
      /\ cuenta' = [cuenta EXCEPT !.bloqueo = "vencido"]
      /\ racha' = [Racha0 EXCEPT !.reincide = TRUE, !.solapada = racha.solapada]
    BY DEF VencerBloqueo
<1>3. /\ cuenta' \in TiposCuenta /\ cuenta'.bloqueo = "vencido"
      /\ cuenta'.fallos = cuenta.fallos /\ cuenta'.epoca = cuenta.epoca
    BY <1>1, <1>2 DEF TiposCuenta, Bloqueos
<1>4. /\ racha' \in TiposRacha /\ racha'.reincide /\ racha'.errados = 0
      /\ racha'.solapada = racha.solapada
    BY <1>1, <1>2, IntentoLibre DEF TiposRacha
<1>5. RachaDe(cuenta', racha')
    BY <1>2, <1>3, <1>4 DEF InvEntrada, RachaDe
<1>6. \A p \in Navegadores : PendienteAlDia(intento'[p], cuenta', hitos')
    BY <1>2, <1>3 DEF InvEntrada, PendienteAlDia
<1>7. TipoEntrada' /\ SesionesAlDia'
    BY <1>1, <1>2, <1>3, <1>4
       DEF InvEntrada, SesionesAlDia, TipoEntrada, TiposCuenta, TiposSesion,
           TiposIntento, TiposRacha
<1> QED
    BY <1>5, <1>6, <1>7 DEF InvEntrada

(* Every step keeps the invariant.                                         *)
LEMMA EntradaPaso == InvEntrada /\ [NextEntrada]_varsEntrada => InvEntrada'
<1> SUFFICES ASSUME InvEntrada, [NextEntrada]_varsEntrada PROVE InvEntrada'
    OBVIOUS
<1>0. cuenta.clave \in Claves /\ cuenta.estado \in Estados /\ "BORRADO" \in Estados
    BY TiposEntrada DEF InvEntrada, TiposCuenta, Estados
<1>1. ASSUME NEW p \in Navegadores, NEW clave \in Claves, Autenticar(p, clave)
      PROVE  InvEntrada'
    BY <1>1, AlAutenticar
<1>2. ASSUME NEW p \in Navegadores, NEW clave \in Claves, change_password(p, clave)
      PROVE  InvEntrada'
    BY <1>0, <1>2, AlPreparar DEF change_password
<1>3. ASSUME NEW p \in Navegadores, NEW clave \in Claves, NEW estado \in Estados,
             update_user_sesiones(p, clave, estado)
      PROVE  InvEntrada'
    BY <1>3, AlPreparar DEF update_user_sesiones
<1>4. ASSUME NEW p \in Navegadores, delete_user_sesiones(p) PROVE InvEntrada'
    BY <1>0, <1>4, AlPreparar DEF delete_user_sesiones
<1>5. ASSUME NEW p \in Navegadores,
             \/ _register_failure(p) \/ _register_success(p) \/ login_user(p)
             \/ ConfirmarCambio(p) \/ PedirDesbloqueo(p) \/ unlock_user(p)
      PROVE  InvEntrada'
    BY <1>5, AlFallar, AlAcertar, AlAbrirSesion, AlConfirmar, AlPedirDesbloqueo,
       AlDesbloquear
<1>6. ASSUME NEW s \in sesiones, logout(s) PROVE InvEntrada'
    BY <1>6 DEF logout, InvEntrada, TipoEntrada, SesionesAlDia
<1>7. CASE VencerBloqueo
    BY <1>7, AlVencer
<1>8. CASE UNCHANGED varsEntrada
    BY <1>8 DEF varsEntrada, InvEntrada, TipoEntrada, SesionesAlDia
<1> QED
    BY <1>1, <1>2, <1>3, <1>4, <1>5, <1>6, <1>7, <1>8 DEF NextEntrada

(* The invariant holds of every behaviour.                                 *)
LEMMA SiempreInvEntrada == SpecEntrada => []InvEntrada
BY EntradaAlPrincipio, EntradaPaso, PTL DEF SpecEntrada

(* The row, the sessions and the requests never leave their types: no      *)
(* counter outgrows its limit, though each write is of a number loaded     *)
(* before.                                                                 *)
THEOREM TiposDeLaEntrada == SpecEntrada => []TipoEntrada
<1>1. InvEntrada => TipoEntrada
    BY DEF InvEntrada
<1> QED
    BY <1>1, SiempreInvEntrada, PTL

(* For any number of browsers, attempts and changes of the account: a      *)
(* session that works was opened after the last change that ends sessions, *)
(* and the lock is neither late nor gratuitous, but where two requests on  *)
(* the account overlapped.                                                 *)
THEOREM SiempreEntradaJusta == SpecEntrada => []EntradaJusta
<1>1. InvEntrada => EntradaJusta
    <2> SUFFICES ASSUME InvEntrada PROVE EntradaJusta
        OBVIOUS
    <2>1. SesionAlDia
        BY DEF InvEntrada, SesionesAlDia, SesionAlDia, load_user
    <2>2. /\ cuenta.fallos \in Nat /\ racha.errados \in Nat
          /\ cuenta.bloqueo \in {"no", "vigente", "vencido"}
        BY TiposEntrada DEF InvEntrada, TiposCuenta, TiposRacha, Bloqueos
    <2>3. BloqueoJusto
        BY <2>2, SignInAssumption DEF InvEntrada, RachaDe, BloqueoJusto
    <2> QED
        BY <2>1, <2>3 DEF EntradaJusta
<1> QED
    BY <1>1, SiempreInvEntrada, PTL

-----------------------------------------------------------------------------
(***************************************************************************)
(* The second factor.                                                      *)
(***************************************************************************)
TiposTramite == [pc : {"libre", "alta", "confirmar", "entrar", "recuperar"},
                 leida : Filas2F, k : Pasos, movida : BOOLEAN]
TiposHuella == [probado : Secretos, gastados : SUBSET Pasos, estuvo : BOOLEAN,
                repetido : BOOLEAN, solapado : BOOLEAN]

(* A request that nobody has overtaken holds the row as it is, and what it *)
(* checked of it still stands.                                             *)
TramiteAlDia(q, f) ==
    q.pc # "libre" /\ ~q.movida =>
       /\ q.leida = f
       /\ q.pc = "alta" => ~mfa_activo(f)
       /\ q.pc = "confirmar" => ~mfa_activo(f) /\ f.secreto # 0
       /\ q.pc = "entrar" => q.k > f.ultimo
       /\ q.pc = "recuperar" => ~f.usado

(* What has been spent of the secret of row f, and no confirmation has     *)
(* forgotten: nothing later than the last step the row remembers.          *)
GastoAlDia(f, h) ==
    /\ mfa_activo(f) => f.secreto = h.probado
    /\ ~h.repetido
    /\ \A k \in h.gastados : k <= f.ultimo

InvFactor ==
    /\ TipoFactor
    /\ ~huella.solapado =>
          /\ GastoAlDia(mfa, huella)
          /\ \A p \in Pestanas : TramiteAlDia(tramite[p], mfa)

(* The types of the invariant, by name.                                    *)
LEMMA TiposFactor ==
    TipoFactor <=> /\ mfa \in Filas2F /\ paso \in 1..MaxPaso
                   /\ tramite \in [Pestanas -> TiposTramite]
                   /\ huella \in TiposHuella
BY DEF TipoFactor, TiposTramite, TiposHuella

(* An account without a factor, and a request that does nothing.           *)
LEMMA FactorVacio ==
    /\ Fila2F0 \in Filas2F /\ ~mfa_activo(Fila2F0)
    /\ Tramite0 \in TiposTramite /\ Tramite0.pc = "libre"
BY SecondFactorAssumption
   DEF Fila2F0, Filas2F, Tramite0, TiposTramite, mfa_activo, Secretos, Pasos

(* Nobody has enrolled.                                                    *)
LEMMA FactorAlPrincipio == InitFactor => InvFactor
<1> SUFFICES ASSUME InitFactor PROVE InvFactor
    OBVIOUS
<1>1. huella \in TiposHuella
    BY SecondFactorAssumption DEF InitFactor, TiposHuella, Secretos
<1>2. paso \in 1..MaxPaso
    BY SecondFactorAssumption DEF InitFactor
<1>3. TipoFactor
    BY <1>1, <1>2, FactorVacio, TiposFactor DEF InitFactor
<1>4. GastoAlDia(mfa, huella)
    BY FactorVacio DEF InitFactor, GastoAlDia
<1>5. \A p \in Pestanas : TramiteAlDia(tramite[p], mfa)
    BY FactorVacio DEF InitFactor, TramiteAlDia
<1> QED
    BY <1>3, <1>4, <1>5 DEF InvFactor

(* A request loads the row: what it holds is what there is.                *)
LEMMA AlCargar ==
    ASSUME InvFactor, NEW p \in Pestanas, NEW k \in Pasos,
           NEW pc \in {"alta", "confirmar", "entrar", "recuperar"}, Cargar(p, pc, k),
           TramiteAlDia([pc |-> pc, leida |-> mfa, k |-> k, movida |-> FALSE], mfa)
    PROVE  InvFactor'
<1> DEFINE r == [pc |-> pc, leida |-> mfa, k |-> k, movida |-> FALSE]
<1>1. /\ mfa \in Filas2F /\ paso \in 1..MaxPaso /\ huella \in TiposHuella
      /\ tramite \in [Pestanas -> TiposTramite]
    BY TiposFactor DEF InvFactor
<1>2. r \in TiposTramite /\ TramiteAlDia(r, mfa)
    BY <1>1 DEF TiposTramite
<1>3. tramite' = [tramite EXCEPT ![p] = r] /\ UNCHANGED <<mfa, paso, huella>>
    BY DEF Cargar
<1> HIDE DEF r
<1>4. tramite' \in [Pestanas -> TiposTramite]
    BY <1>1, <1>2, <1>3
<1>5. TipoFactor'
    BY <1>1, <1>3, <1>4 DEF TipoFactor, TiposTramite, TiposHuella
<1>6. ASSUME NEW q \in Pestanas, TramiteAlDia(tramite[q], mfa)
      PROVE  TramiteAlDia(tramite'[q], mfa)
    BY <1>1, <1>2, <1>3, <1>6
<1> QED
    BY <1>3, <1>5, <1>6 DEF InvFactor

(* A request commits, or an administrator writes: everybody else is        *)
(* overtaken, so only the row and the trace are left to look at.           *)
LEMMA TocarElFactor ==
    ASSUME InvFactor,
           \/ \E p \in Pestanas : TrasConfirmar(p)
           \/ Avisar,
           UNCHANGED paso, mfa' \in Filas2F, huella' \in TiposHuella,
           ~huella'.solapado => GastoAlDia(mfa', huella')
    PROVE  InvFactor'
<1>1. paso \in 1..MaxPaso /\ tramite \in [Pestanas -> TiposTramite]
    BY TiposFactor DEF InvFactor
<1>2. ASSUME NEW q \in Pestanas
      PROVE  tramite'[q] \in TiposTramite /\ TramiteAlDia(tramite'[q], mfa')
    <2> DEFINE b == tramite[q].pc # "libre"
    <2>1. CASE tramite'[q] = Tramite0
        BY <2>1, FactorVacio DEF TramiteAlDia
    <2>2. CASE tramite'[q] = [tramite[q] EXCEPT !.movida = b]
        <3>1. b \in BOOLEAN /\ tramite[q] \in TiposTramite
            BY <1>1
        <3>2. b <=> tramite[q].pc # "libre"
            OBVIOUS
        <3> HIDE DEF b
        <3>3. /\ tramite'[q] \in TiposTramite /\ tramite'[q].pc = tramite[q].pc
              /\ tramite'[q].movida = b
            BY <2>2, <3>1 DEF TiposTramite
        <3> QED
            BY <3>2, <3>3 DEF TramiteAlDia
    <2> QED
        BY <2>1, <2>2 DEF TrasConfirmar, Avisar
<1>3. DOMAIN tramite' = Pestanas /\ tramite' = [q \in Pestanas |-> tramite'[q]]
    BY DEF TrasConfirmar, Avisar
<1>4. tramite' \in [Pestanas -> TiposTramite]
    BY <1>2, <1>3
<1>5. TipoFactor'
    BY <1>1, <1>4 DEF TipoFactor, TiposTramite, TiposHuella
<1> QED
    BY <1>2, <1>5 DEF InvFactor

(* Spending a code: it had been spent before only if the trace had it.     *)
LEMMA AlGastar ==
    ASSUME NEW h \in TiposHuella, NEW k \in Pasos, NEW m \in BOOLEAN, h = huella
    PROVE  LET g == Gastar(k, m)
           IN  /\ g \in TiposHuella /\ g.probado = h.probado
               /\ g.gastados = h.gastados \cup {k}
               /\ g.repetido <=> h.repetido \/ k \in h.gastados
               /\ g.solapado <=> h.solapado \/ m
<1> DEFINE a == h.gastados \cup {k}
           b == h.repetido \/ k \in h.gastados
           c == h.solapado \/ m
<1>1. a \in SUBSET Pasos
    BY DEF TiposHuella
<1>2. b \in BOOLEAN /\ c \in BOOLEAN
    OBVIOUS
<1>3. Gastar(k, m) = [h EXCEPT !.gastados = a, !.repetido = b, !.solapado = c]
    BY DEF Gastar
<1>4. /\ a = h.gastados \cup {k}
      /\ b <=> h.repetido \/ k \in h.gastados
      /\ c <=> h.solapado \/ m
    OBVIOUS
<1> HIDE DEF a, b, c
<1>5. /\ Gastar(k, m) \in TiposHuella /\ Gastar(k, m).probado = h.probado
      /\ Gastar(k, m).gastados = a /\ Gastar(k, m).repetido = b
      /\ Gastar(k, m).solapado = c
    BY <1>1, <1>2, <1>3 DEF TiposHuella
<1> QED
    BY <1>4, <1>5

(* A new secret is shown: none of its codes has been spent.                *)
LEMMA AlIniciarAlta ==
    ASSUME InvFactor, NEW p \in Pestanas, iniciar_alta(p)
    PROVE  InvFactor'
<1> DEFINE f == tramite[p].leida
           act == IF ActivoTrasAlta(f) # f.activo THEN ActivoTrasAlta(f) ELSE mfa.activo
           ult == IF f.ultimo # 0 THEN 0 ELSE mfa.ultimo
           sol == huella.solapado \/ tramite[p].movida
<1>1. mfa \in Filas2F /\ huella \in TiposHuella /\ tramite[p] \in TiposTramite
    BY TiposFactor DEF InvFactor
<1>2. f \in Filas2F /\ f.secreto < MaxSecreto /\ f.secreto + 1 \in Secretos
    BY <1>1, SecondFactorAssumption DEF iniciar_alta, TiposTramite, Filas2F, Secretos
<1>3. act \in BOOLEAN /\ ult \in Pasos /\ sol \in BOOLEAN
    <2>1. mfa.activo \in BOOLEAN /\ mfa.ultimo \in Pasos /\ 0 \in Pasos
        BY <1>1, SecondFactorAssumption DEF Filas2F, Pasos
    <2>2. act \in BOOLEAN
        BY <2>1 DEF ActivoTrasAlta
    <2> QED
        BY <2>1, <2>2
<1>4. mfa' = [mfa EXCEPT !.secreto = f.secreto + 1, !.activo = act, !.ultimo = ult]
    BY DEF iniciar_alta
<1>5. huella' = [huella EXCEPT !.gastados = {}, !.solapado = sol]
    BY DEF iniciar_alta
<1>6. /\ sol <=> huella.solapado \/ tramite[p].movida
      /\ f = mfa => ~act
    BY DEF ActivoTrasAlta
<1>7. f = tramite[p].leida
    OBVIOUS
<1> HIDE DEF f, act, ult, sol
<1>8. /\ mfa' \in Filas2F /\ mfa'.secreto = f.secreto + 1 /\ mfa'.activo = act
    BY <1>1, <1>2, <1>3, <1>4 DEF Filas2F
<1>9. /\ huella' \in TiposHuella /\ huella'.solapado = sol
      /\ huella'.gastados = {} /\ huella'.repetido = huella.repetido
    BY <1>1, <1>3, <1>5 DEF TiposHuella
<1>10. ~huella'.solapado => GastoAlDia(mfa', huella')
    <2> SUFFICES ASSUME ~huella.solapado, ~tramite[p].movida
                 PROVE  GastoAlDia(mfa', huella')
        BY <1>6, <1>9
    <2>1. f = mfa /\ ~mfa_activo(mfa) /\ GastoAlDia(mfa, huella)
        BY <1>7 DEF iniciar_alta, InvFactor, TramiteAlDia
    <2>2. ~mfa_activo(mfa')
        BY <1>6, <1>8, <2>1 DEF mfa_activo
    <2> QED
        BY <1>9, <2>1, <2>2 DEF GastoAlDia
<1> QED
    BY <1>8, <1>9, <1>10, TocarElFactor DEF iniciar_alta

(* An enrolment is confirmed: the code is the first of its secret, or what *)
(* was spent after the step recorded is forgotten.                         *)
LEMMA AlConfirmarAlta ==
    ASSUME InvFactor, NEW p \in Pestanas, confirmar_alta(p)
    PROVE  InvFactor'
<1>0. PICK n \in PasosDeLaPrueba(tramite[p].k) :
         /\ mfa' = [mfa EXCEPT !.activo = TRUE,
                       !.ultimo = IF n # tramite[p].leida.ultimo THEN n ELSE mfa.ultimo,
                       !.papel = mfa.papel + 1, !.usado = FALSE]
         /\ huella' = [huella EXCEPT !.probado = tramite[p].leida.secreto, !.estuvo = TRUE,
                          !.gastados = {k \in huella.gastados \cup {tramite[p].k} : k <= n},
                          !.solapado = huella.solapado \/ tramite[p].movida]
    BY DEF confirmar_alta
<1> DEFINE f == tramite[p].leida
           a == {k \in huella.gastados \cup {tramite[p].k} : k <= n}
           sol == huella.solapado \/ tramite[p].movida
<1>1. /\ mfa \in Filas2F /\ huella \in TiposHuella /\ tramite[p] \in TiposTramite
      /\ f \in Filas2F
    BY TiposFactor DEF InvFactor, TiposTramite
<1>2. n \in Pasos /\ a \in SUBSET Pasos /\ sol \in BOOLEAN /\ f.secreto \in Secretos
    BY <1>1, SecondFactorAssumption
       DEF PasosDeLaPrueba, TiposTramite, TiposHuella, Filas2F, Pasos
<1>3. mfa' = [mfa EXCEPT !.activo = TRUE,
                         !.ultimo = IF n # f.ultimo THEN n ELSE mfa.ultimo,
                         !.papel = mfa.papel + 1, !.usado = FALSE]
      /\ huella' = [huella EXCEPT !.probado = f.secreto, !.estuvo = TRUE,
                         !.gastados = a, !.solapado = sol]
      /\ mfa.papel < MaxSecreto /\ tramite[p].pc = "confirmar" /\ TrasConfirmar(p)
      /\ UNCHANGED paso
    BY <1>0 DEF confirmar_alta
<1>4. /\ f = tramite[p].leida /\ \A k \in a : k <= n
      /\ sol <=> huella.solapado \/ tramite[p].movida
    OBVIOUS
<1> HIDE DEF f, a, sol
<1>5. /\ huella' \in TiposHuella /\ huella'.probado = f.secreto
      /\ huella'.gastados = a /\ huella'.repetido = huella.repetido
      /\ huella'.solapado = sol
    BY <1>1, <1>2, <1>3 DEF TiposHuella
<1>6. /\ mfa' \in Filas2F /\ mfa'.secreto = mfa.secreto
      /\ mfa'.ultimo = IF n # f.ultimo THEN n ELSE mfa.ultimo
    <2>1. mfa.papel + 1 \in Secretos /\ (IF n # f.ultimo THEN n ELSE mfa.ultimo) \in Pasos
        BY <1>1, <1>2, <1>3, SecondFactorAssumption DEF Filas2F, Secretos
    <2> QED
        BY <1>1, <1>3, <2>1 DEF Filas2F
<1>7. ASSUME ~huella'.solapado PROVE GastoAlDia(mfa', huella')
    <2>1. f = mfa /\ GastoAlDia(mfa, huella)
        BY <1>3, <1>4, <1>5, <1>7 DEF InvFactor, TramiteAlDia
    <2>2. mfa'.ultimo = n
        BY <1>6, <2>1
    <2> QED
        BY <1>4, <1>5, <1>6, <2>1, <2>2 DEF GastoAlDia
<1> QED
    BY <1>3, <1>5, <1>6, <1>7, TocarElFactor

(* A code opens a session: it is later than any spent.                     *)
LEMMA AlAceptarCodigo ==
    ASSUME InvFactor, NEW p \in Pestanas, AceptarCodigo(p)
    PROVE  InvFactor'
<1> DEFINE k == tramite[p].k
           m == tramite[p].movida
<1>1. mfa \in Filas2F /\ huella \in TiposHuella /\ k \in Pasos /\ m \in BOOLEAN
    BY TiposFactor DEF InvFactor, TiposTramite
<1>2. /\ mfa' = [mfa EXCEPT !.ultimo = k] /\ huella' = Gastar(k, m)
      /\ tramite[p].pc = "entrar" /\ TrasConfirmar(p) /\ UNCHANGED paso
    BY DEF AceptarCodigo
<1>3. k = tramite[p].k /\ m = tramite[p].movida
    OBVIOUS
<1> HIDE DEF k, m
<1>4. /\ huella' \in TiposHuella /\ huella'.probado = huella.probado
      /\ huella'.gastados = huella.gastados \cup {k}
      /\ huella'.repetido <=> huella.repetido \/ k \in huella.gastados
      /\ huella'.solapado <=> huella.solapado \/ m
    BY <1>1, <1>2, AlGastar
<1>5. /\ mfa' \in Filas2F /\ mfa'.secreto = mfa.secreto /\ mfa'.activo = mfa.activo
      /\ mfa'.ultimo = k
    BY <1>1, <1>2 DEF Filas2F
<1>6. ASSUME ~huella'.solapado PROVE GastoAlDia(mfa', huella')
    <2>1. k > mfa.ultimo /\ GastoAlDia(mfa, huella)
        BY <1>2, <1>3, <1>4, <1>6 DEF InvFactor, TramiteAlDia
    <2>2. k \in Nat /\ mfa.ultimo \in Nat /\ \A x \in huella.gastados : x \in Nat
        BY <1>1 DEF Filas2F, TiposHuella, Pasos
    <2>3. k \notin huella.gastados /\ \A x \in huella'.gastados : x <= mfa'.ultimo
        BY <1>4, <1>5, <2>1, <2>2 DEF GastoAlDia
    <2> QED
        BY <1>4, <1>5, <2>1, <2>3 DEF GastoAlDia, mfa_activo
<1> QED
    BY <1>2, <1>4, <1>5, <1>6, TocarElFactor

(* A paper code opens a session.                                           *)
LEMMA AlRecuperar ==
    ASSUME InvFactor, NEW p \in Pestanas, consumir_codigo_de_recuperacion(p)
    PROVE  InvFactor'
<1>1. /\ mfa \in Filas2F /\ huella \in TiposHuella /\ paso \in 1..MaxPaso
      /\ tramite \in [Pestanas -> TiposTramite]
    BY TiposFactor DEF InvFactor
<1>2. CASE mfa.papel = tramite[p].leida.papel
    <2> DEFINE a == huella.repetido \/ mfa.usado
               b == huella.solapado \/ tramite[p].movida
    <2>1. /\ mfa' = [mfa EXCEPT !.usado = TRUE]
          /\ huella' = [huella EXCEPT !.repetido = a, !.solapado = b]
          /\ TrasConfirmar(p) /\ UNCHANGED paso /\ tramite[p].pc = "recuperar"
        BY <1>2 DEF consumir_codigo_de_recuperacion
    <2>2. /\ a \in BOOLEAN /\ b \in BOOLEAN
          /\ a <=> huella.repetido \/ mfa.usado
          /\ b <=> huella.solapado \/ tramite[p].movida
        OBVIOUS
    <2> HIDE DEF a, b
    <2>3. /\ huella' \in TiposHuella /\ huella'.probado = huella.probado
          /\ huella'.gastados = huella.gastados /\ huella'.repetido = a
          /\ huella'.solapado = b
        BY <1>1, <2>1, <2>2 DEF TiposHuella
    <2>4. /\ mfa' \in Filas2F /\ mfa'.secreto = mfa.secreto /\ mfa'.activo = mfa.activo
          /\ mfa'.ultimo = mfa.ultimo
        BY <1>1, <2>1 DEF Filas2F
    <2>5. ASSUME ~huella'.solapado PROVE GastoAlDia(mfa', huella')
        <3>1. ~mfa.usado /\ GastoAlDia(mfa, huella)
            BY <2>1, <2>2, <2>3, <2>5 DEF InvFactor, TramiteAlDia
        <3> QED
            BY <2>2, <2>3, <2>4, <3>1 DEF GastoAlDia, mfa_activo
    <2> QED
        BY <2>1, <2>3, <2>4, <2>5, TocarElFactor
<1>3. CASE mfa.papel # tramite[p].leida.papel
    <2>1. tramite' = [tramite EXCEPT ![p] = Tramite0] /\ UNCHANGED <<mfa, huella, paso>>
        BY <1>3 DEF consumir_codigo_de_recuperacion
    <2>2. tramite' \in [Pestanas -> TiposTramite]
        BY <1>1, <2>1, FactorVacio
    <2>3. TipoFactor'
        BY <1>1, <2>1, <2>2 DEF TipoFactor, TiposTramite, TiposHuella
    <2>4. ASSUME NEW q \in Pestanas, TramiteAlDia(tramite[q], mfa)
          PROVE  TramiteAlDia(tramite'[q], mfa)
        BY <1>1, <2>1, <2>4, FactorVacio DEF TramiteAlDia
    <2> QED
        BY <2>1, <2>3, <2>4 DEF InvFactor
<1> QED
    BY <1>2, <1>3

(* New paper codes, and the factor taken off.                              *)
LEMMA AlCambiarElFactor ==
    ASSUME InvFactor, emitir_codigos \/ desactivar
    PROVE  InvFactor'
<1>1. mfa \in Filas2F /\ huella \in TiposHuella
    BY TiposFactor DEF InvFactor
<1>2. CASE emitir_codigos
    <2>1. /\ mfa' = [mfa EXCEPT !.papel = mfa.papel + 1, !.usado = FALSE]
          /\ mfa.papel < MaxSecreto /\ UNCHANGED <<huella, paso>> /\ Avisar
        BY <1>2 DEF emitir_codigos
    <2>2. mfa.papel + 1 \in Secretos
        BY <1>1, <2>1, SecondFactorAssumption DEF Filas2F, Secretos
    <2>3. /\ mfa' \in Filas2F /\ mfa'.secreto = mfa.secreto /\ mfa'.activo = mfa.activo
          /\ mfa'.ultimo = mfa.ultimo
        BY <1>1, <2>1, <2>2 DEF Filas2F
    <2>4. ~huella'.solapado => GastoAlDia(mfa', huella')
        BY <2>1, <2>3 DEF InvFactor, GastoAlDia, mfa_activo
    <2> QED
        BY <1>1, <2>1, <2>3, <2>4, TocarElFactor
<1>3. CASE desactivar
    <2>1. /\ mfa' = Fila2F0 /\ UNCHANGED paso /\ Avisar
          /\ huella' = [huella EXCEPT !.gastados = {}, !.probado = 0]
        BY <1>3 DEF desactivar
    <2>2. /\ huella' \in TiposHuella /\ huella'.gastados = {}
          /\ huella'.repetido = huella.repetido /\ huella'.solapado = huella.solapado
        <3>1. 0 \in Secretos /\ {} \in SUBSET Pasos
            BY SecondFactorAssumption DEF Secretos
        <3> QED
            BY <1>1, <2>1, <3>1 DEF TiposHuella
    <2>3. ~huella'.solapado => GastoAlDia(mfa', huella')
        BY <2>1, <2>2, FactorVacio DEF InvFactor, GastoAlDia
    <2> QED
        BY <2>1, <2>2, <2>3, FactorVacio, TocarElFactor
<1> QED
    BY <1>2, <1>3

(* Every step keeps the invariant.                                         *)
LEMMA FactorPaso == InvFactor /\ [NextFactor]_varsFactor => InvFactor'
<1> SUFFICES ASSUME InvFactor, [NextFactor]_varsFactor PROVE InvFactor'
    OBVIOUS
<1>0. \A k \in 1..MaxPaso : k \in Pasos
    BY SecondFactorAssumption DEF Pasos
<1>00. 0 \in Pasos
    BY SecondFactorAssumption DEF Pasos
<1>1. ASSUME NEW p \in Pestanas, AbrirAlta(p) PROVE InvFactor'
    BY <1>1, <1>00, AlCargar DEF AbrirAlta, TramiteAlDia
<1>2. ASSUME NEW p \in Pestanas, NEW k \in 1..MaxPaso, MandarPrueba(p, k)
      PROVE  InvFactor'
    BY <1>0, <1>2, AlCargar DEF MandarPrueba, TramiteAlDia
<1>3. ASSUME NEW p \in Pestanas, NEW k \in 1..MaxPaso, MandarCodigo(p, k) PROVE InvFactor'
    BY <1>0, <1>3, AlCargar DEF MandarCodigo, verificar_codigo, TramiteAlDia
<1>4. ASSUME NEW p \in Pestanas, MandarPapel(p) PROVE InvFactor'
    BY <1>4, <1>00, AlCargar DEF MandarPapel, TramiteAlDia
<1>5. ASSUME NEW p \in Pestanas,
             \/ iniciar_alta(p) \/ confirmar_alta(p) \/ AceptarCodigo(p)
             \/ consumir_codigo_de_recuperacion(p)
      PROVE  InvFactor'
    BY <1>5, AlIniciarAlta, AlConfirmarAlta, AlAceptarCodigo, AlRecuperar
<1>6. CASE emitir_codigos \/ desactivar
    BY <1>6, AlCambiarElFactor
<1>7. CASE PasarPaso
    <2>1. UNCHANGED <<mfa, tramite, huella>> /\ paso' \in 1..MaxPaso
        BY <1>7, SecondFactorAssumption DEF PasarPaso, InvFactor, TipoFactor
    <2> QED
        BY <2>1 DEF InvFactor, TipoFactor
<1>8. CASE UNCHANGED varsFactor
    BY <1>8 DEF varsFactor, InvFactor, TipoFactor
<1> QED
    BY <1>1, <1>2, <1>3, <1>4, <1>5, <1>6, <1>7, <1>8 DEF NextFactor

(* The invariant holds of every behaviour.                                 *)
LEMMA SiempreInvFactor == SpecFactor => []InvFactor
BY FactorAlPrincipio, FactorPaso, PTL DEF SpecFactor

(* The columns of the factor, the requests and the trace never leave their *)
(* types.                                                                  *)
THEOREM TiposDelFactor == SpecFactor => []TipoFactor
<1>1. InvFactor => TipoFactor
    BY DEF InvFactor
<1> QED
    BY <1>1, SiempreInvFactor, PTL

(* For any number of tabs, secrets and steps of the clock, while no two    *)
(* requests overlap: the factor in force is one its owner has proved to    *)
(* have, and no code opens two sessions, nor one after confirming the      *)
(* enrolment, but those later than the step the confirmation recorded.     *)
THEOREM SiempreFactorProbado == SpecFactor => []FactorProbado
<1>1. InvFactor => FactorProbado
    BY DEF InvFactor, GastoAlDia, FactorProbado
<1> QED
    BY <1>1, SiempreInvFactor, PTL

(***************************************************************************)
(* The components side by side, as MCPeopleAndTrips puts them.             *)
(***************************************************************************)

(* A behaviour starts with every component in its initial state.           *)
LEMMA AlPrincipioTodas ==
    InitDeUna =>
        /\ InitReferencias
        /\ InitCiclo
        /\ InitAcceso
        /\ InitEntrada
        /\ InitFactor
        /\ InitCuentas
        /\ InitReglas
BY DEF InitDeUna

(* A step of a behaviour is, for each component, a step of its own or one  *)
(* that leaves it still.                                                   *)
LEMMA PasoDeCadaUna ==
    [NextDeUna]_varsDeTodas =>
        /\ [NextReferencias]_varsReferencias
        /\ [NextCiclo]_varsCiclo
        /\ [NextAcceso]_varsAcceso
        /\ [NextEntrada]_varsEntrada
        /\ [NextFactor]_varsFactor
        /\ [NextCuentas]_varsCuentas
        /\ [NextReglas]_varsReglas
BY DEF NextDeUna, Quietas, varsDeTodas

(***************************************************************************)
(* Every behaviour of the components side by side is, seen from each of    *)
(* them, one of its own: what the theorems of this module and of           *)
(* TripProofs promise of trips, accounts, sessions, factors and bookings,  *)
(* each from the specification of its component, holds of the              *)
(* specification that is checked, whatever its constants.                  *)
(***************************************************************************)
THEOREM CadaUnaCumpleLoSuyo ==
    SpecDeUna =>
        /\ SpecReferencias
        /\ SpecCiclo
        /\ SpecAcceso
        /\ SpecEntrada
        /\ SpecFactor
        /\ SpecCuentas
        /\ SpecReglas
BY AlPrincipioTodas, PasoDeCadaUna, PTL
   DEF SpecDeUna, SpecReferencias, SpecCiclo, SpecAcceso, SpecEntrada, SpecFactor,
       SpecCuentas, SpecReglas

(* The variables of every component about trips and the people who work on *)
(* them stay in their domains, in whatever component the steps are.        *)
THEOREM TiposDeTodas == SpecDeUna => []TipoDeTodas
<1>1. ASSUME TipoReferencias, TipoCiclo, TipoAcceso, TipoEntrada, TipoFactor,
             TipoCuentas, TipoReglas
      PROVE  TipoDeTodas
    BY <1>1 DEF TipoDeTodas
<1> QED
    BY <1>1, CadaUnaCumpleLoSuyo, TiposDeReferencias, TiposDelCiclo, TiposDelAcceso,
       TiposDeLaEntrada, TiposDelFactor, TiposDeCuentas, TiposDelItinerario, PTL
=============================================================================
