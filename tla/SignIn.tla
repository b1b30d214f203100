------------------------------- MODULE SignIn -------------------------------
(***************************************************************************)
(* Signing in to one local account, its lockout, and what ends its         *)
(* sessions.                                                               *)
(*                                                                         *)
(* Every request works on the row as its own session loaded it and writes  *)
(* back, with no lock and no version, only the columns it changed: the     *)
(* failure counter and the session epoch are both "what I loaded plus one".*)
(* A session cookie carries the epoch and is good while the row says the   *)
(* same.  The second factor is a module of its own (SecondFactor).         *)
(***************************************************************************)
EXTENDS Naturals, FiniteSets

CONSTANTS
    Navegadores,    \* requests served at once
    MaxIntentos,    \* LOGIN_MAX_ATTEMPTS
    MaxEpoca,       \* bound: session epochs
    MaxSesiones     \* bound: sessions open

ASSUME SignInAssumption ==
    MaxIntentos \in Nat \ {0} /\ MaxEpoca \in Nat /\ MaxSesiones \in Nat

VARIABLES
    cuenta,         \* the committed row
    hitos,          \* changes committed that must end the open sessions
    sesiones,       \* cookies handed out
    intento,        \* what each request is doing
    racha           \* wrong passwords counted by hand, to compare

varsEntrada == <<cuenta, hitos, sesiones, intento, racha>>

Claves == 1..2
Bloqueos == {"no", "vigente", "vencido"}
Estados == {"ACTIVO", "INACTIVO", "BORRADO"}

Intento0 == [pc |-> "libre", n |-> 0, limpia |-> FALSE, clave |-> 1,
             estado |-> "ACTIVO", hito |-> 0, movida |-> FALSE]
Racha0 == [errados |-> 0, reincide |-> FALSE, solapada |-> FALSE]

TipoEntrada ==
    /\ cuenta \in [clave : Claves, estado : Estados, fallos : 0..MaxIntentos + 1,
                   bloqueo : Bloqueos, epoca : 0..MaxEpoca]
    /\ hitos \in 0..MaxEpoca
    /\ sesiones \subseteq [epoca : 0..MaxEpoca, hito : 0..MaxEpoca, excusada : BOOLEAN]
    /\ intento \in [Navegadores ->
          [pc : {"libre", "fallar", "acertar", "abrir", "cambiar", "desbloquear"},
           n : 0..MaxEpoca + MaxIntentos + 2, limpia : BOOLEAN, clave : Claves,
           estado : Estados, hito : 0..MaxEpoca, movida : BOOLEAN]]
    /\ racha \in [errados : 0..MaxIntentos + 1, reincide : BOOLEAN, solapada : BOOLEAN]

InitEntrada ==
    /\ cuenta = [clave |-> 1, estado |-> "ACTIVO", fallos |-> 0, bloqueo |-> "no",
                 epoca |-> 0]
    /\ hitos = 0
    /\ sesiones = {}
    /\ intento = [p \in Navegadores |-> Intento0]
    /\ racha = Racha0

is_active_account == cuenta.estado = "ACTIVO" /\ cuenta.bloqueo # "vigente"

(* The account a cookie stands for, if any.                                *)
load_user(s) == is_active_account /\ s.epoca = cuenta.epoca

(* The request ends; whoever else is in the middle has a stale row.        *)
TrasEscribir(p) ==
    intento' = [q \in Navegadores |->
                  IF q = p THEN Intento0
                  ELSE [intento[q] EXCEPT !.movida = intento[q].pc # "libre"]]

(***************************************************************************)
(* authenticate: the row is looked up, the lock and the password checked.  *)
(***************************************************************************)
(* A slip: the counter is stored as it was loaded.                         *)
SinContar(n) == n

SiguienteFallo(n) == n + 1

Autenticar(p, clave) ==
    /\ intento[p].pc = "libre"
    /\ cuenta.estado # "BORRADO" /\ cuenta.bloqueo # "vigente"
    /\ clave = cuenta.clave => cuenta.estado = "ACTIVO"
    /\ intento' = [intento EXCEPT ![p] =
          [Intento0 EXCEPT
              !.pc = IF clave = cuenta.clave THEN "acertar" ELSE "fallar",
              !.n = IF clave = cuenta.clave THEN cuenta.fallos
                    ELSE SiguienteFallo(cuenta.fallos),
              !.limpia = cuenta.bloqueo # "no",
              !.hito = hitos]]
    /\ UNCHANGED <<cuenta, hitos, sesiones, racha>>

(* The failure is counted on what was loaded; the limit locks the account. *)
_register_failure(p) ==
    /\ intento[p].pc = "fallar"
    /\ LET n == IF intento[p].n > MaxIntentos THEN MaxIntentos + 1 ELSE intento[p].n
       IN  cuenta' = [cuenta EXCEPT !.fallos = n,
                         !.bloqueo = IF n >= MaxIntentos THEN "vigente" ELSE @]
    /\ racha' = [racha EXCEPT
          !.errados = IF @ > MaxIntentos THEN @ ELSE @ + 1,
          !.solapada = @ \/ intento[p].movida]
    /\ TrasEscribir(p)
    /\ UNCHANGED <<hitos, sesiones>>

(* Only what differs from the loaded row is written.                       *)
Limpiar(p) ==
    [cuenta EXCEPT !.fallos = IF intento[p].n # 0 THEN 0 ELSE @,
                   !.bloqueo = IF intento[p].limpia THEN "no" ELSE @]

RachaLimpia(p) ==
    IF intento[p].movida THEN [racha EXCEPT !.solapada = TRUE] ELSE Racha0

_register_success(p) ==
    /\ intento[p].pc = "acertar"
    /\ cuenta' = Limpiar(p)
    /\ racha' = RachaLimpia(p)
    /\ intento' = [q \in Navegadores |->
          IF q = p THEN [intento[p] EXCEPT !.pc = "abrir"]
          ELSE [intento[q] EXCEPT !.movida = intento[q].pc # "libre"]]
    /\ UNCHANGED <<hitos, sesiones>>

(* The row is read again: an account that stopped being usable meanwhile   *)
(* gets no session, and the epoch is the one of now.                       *)
login_user(p) ==
    /\ intento[p].pc = "abrir"
    /\ Cardinality(sesiones) < MaxSesiones
    /\ sesiones' = IF is_active_account
                   THEN sesiones \cup {[epoca |-> cuenta.epoca, hito |-> intento[p].hito,
                                        excusada |-> intento[p].movida]}
                   ELSE sesiones
    /\ intento' = [intento EXCEPT ![p] = Intento0]
    /\ UNCHANGED <<cuenta, hitos, racha>>

logout(s) ==
    /\ load_user(s)
    /\ sesiones' = sesiones \ {s}
    /\ UNCHANGED <<cuenta, hitos, intento, racha>>

(***************************************************************************)
(* The changes that end sessions: one's own password, an administrator's   *)
(* edit of the account (which replaces its roles), a deletion.  Each bump  *)
(* adds one to the epoch that was loaded.                                  *)
(***************************************************************************)
(* A slip: the epoch is stored as it was loaded.                        *)
SinSubirEpoca(estado) == 0

Subidas(estado) == IF estado = "INACTIVO" THEN 2 ELSE 1

PrepararCambio(p, clave, estado) ==
    /\ intento[p].pc = "libre"
    /\ cuenta.estado # "BORRADO"
    /\ cuenta.epoca + Subidas(estado) <= MaxEpoca /\ hitos < MaxEpoca
    /\ intento' = [intento EXCEPT ![p] =
          [Intento0 EXCEPT !.pc = "cambiar", !.n = cuenta.epoca + Subidas(estado),
                           !.clave = clave, !.estado = estado]]
    /\ UNCHANGED <<cuenta, hitos, sesiones, racha>>

change_password(p, clave) ==
    /\ \E s \in sesiones : load_user(s)
    /\ clave # cuenta.clave
    /\ PrepararCambio(p, clave, cuenta.estado)

update_user_sesiones(p, clave, estado) == estado # "BORRADO" /\ PrepararCambio(p, clave, estado)

delete_user_sesiones(p) == PrepararCambio(p, cuenta.clave, "BORRADO")

ConfirmarCambio(p) ==
    /\ intento[p].pc = "cambiar"
    /\ hitos < MaxEpoca
    /\ cuenta' = [cuenta EXCEPT !.clave = intento[p].clave, !.epoca = intento[p].n,
                                !.estado = intento[p].estado]
    /\ hitos' = hitos + 1
    /\ sesiones' = IF intento[p].movida
                   THEN {[s EXCEPT !.excusada = TRUE] : s \in sesiones} ELSE sesiones
    /\ TrasEscribir(p)
    /\ UNCHANGED racha

(* An administrator clears a lockout, from the row as loaded.              *)
PedirDesbloqueo(p) ==
    /\ intento[p].pc = "libre"
    /\ cuenta.estado # "BORRADO" /\ cuenta.fallos > 0
    /\ intento' = [intento EXCEPT ![p] =
          [Intento0 EXCEPT !.pc = "desbloquear", !.n = cuenta.fallos,
                           !.limpia = cuenta.bloqueo # "no"]]
    /\ UNCHANGED <<cuenta, hitos, sesiones, racha>>

unlock_user(p) ==
    /\ intento[p].pc = "desbloquear"
    /\ cuenta' = Limpiar(p)
    /\ racha' = RachaLimpia(p)
    /\ TrasEscribir(p)
    /\ UNCHANGED <<hitos, sesiones>>

(* The lock runs out; nothing resets the counter.                          *)
VencerBloqueo ==
    /\ cuenta.bloqueo = "vigente"
    /\ cuenta' = [cuenta EXCEPT !.bloqueo = "vencido"]
    /\ racha' = [Racha0 EXCEPT !.reincide = TRUE, !.solapada = racha.solapada]
    /\ UNCHANGED <<hitos, sesiones, intento>>

NextEntrada ==
    \/ \E p \in Navegadores :
          \/ \E clave \in Claves :
                \/ Autenticar(p, clave)
                \/ change_password(p, clave)
                \/ \E estado \in Estados : update_user_sesiones(p, clave, estado)
          \/ _register_failure(p)
          \/ _register_success(p)
          \/ login_user(p)
          \/ delete_user_sesiones(p)
          \/ ConfirmarCambio(p)
          \/ PedirDesbloqueo(p)
          \/ unlock_user(p)
    \/ \E s \in sesiones : logout(s)
    \/ VencerBloqueo

SpecEntrada == InitEntrada /\ [][NextEntrada]_varsEntrada

(***************************************************************************)
(* A session that still works was opened, with a password checked, after   *)
(* the last change that ends sessions (a new password, new roles, a        *)
(* deactivation), unless that change and the sign-in, or two such changes, *)
(* overlapped: two bumps from the same epoch write the same number.        *)
(***************************************************************************)
SesionAlDia ==
    \A s \in sesiones : load_user(s) => s.excusada \/ s.hito = hitos

(***************************************************************************)
(* The lockout is neither late nor gratuitous: with no two requests on the *)
(* account at once, an account that can still be tried has been failed     *)
(* fewer than LOGIN_MAX_ATTEMPTS times in a row, and one that is locked    *)
(* has been failed that often, or once after a lock that ran out (the      *)
(* counter survives it).                                                   *)
(***************************************************************************)
BloqueoJusto ==
    ~racha.solapada =>
       /\ cuenta.bloqueo # "vigente" => racha.errados < MaxIntentos
       /\ cuenta.bloqueo = "vigente" =>
             racha.errados >= (IF racha.reincide THEN 1 ELSE MaxIntentos)

(* Both promises of the sign-in at once.                                   *)
EntradaJusta == SesionAlDia /\ BloqueoJusto
=============================================================================
