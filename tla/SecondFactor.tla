---------------------------- MODULE SecondFactor ----------------------------
(***************************************************************************)
(* The second factor of one account: enrolment, the codes of the           *)
(* authenticator, the recovery codes, and taking it off.                   *)
(*                                                                         *)
(* A request checks the row its session loaded and commits afterwards, and *)
(* only the columns it changed.  Two browser tabs, or two sign-ins,        *)
(* interleave.                                                             *)
(***************************************************************************)
EXTENDS Naturals

CONSTANTS
    Pestanas,       \* requests served at once
    MaxSecreto,     \* bound: secrets issued
    MaxPaso         \* bound: steps of thirty seconds

ASSUME SecondFactorAssumption == MaxSecreto \in Nat /\ MaxPaso \in Nat \ {0}

VARIABLES
    mfa,            \* the columns of the account, and its recovery code
    paso,           \* the current step
    tramite,        \* what each request is doing: the row it loaded
    huella          \* what has been proved and spent, kept apart

varsFactor == <<mfa, paso, tramite, huella>>

Secretos == 0..MaxSecreto      \* 0: none
Pasos == 0..MaxPaso            \* 0: none

(* The paper codes are one: its issue (0: none) and whether it was used.   *)
Filas2F == [secreto : Secretos, activo : BOOLEAN, ultimo : Pasos,
            papel : Secretos, usado : BOOLEAN]
Fila2F0 == [secreto |-> 0, activo |-> FALSE, ultimo |-> 0, papel |-> 0, usado |-> FALSE]
Tramite0 == [pc |-> "libre", leida |-> Fila2F0, k |-> 0,
             movida |-> FALSE]

TipoFactor ==
    /\ mfa \in Filas2F
    /\ paso \in 1..MaxPaso
    /\ tramite \in [Pestanas ->
          [pc : {"libre", "alta", "confirmar", "entrar", "recuperar"},
           leida : Filas2F, k : Pasos, movida : BOOLEAN]]
    /\ huella \in [probado : Secretos, gastados : SUBSET Pasos, estuvo : BOOLEAN,
                   repetido : BOOLEAN, solapado : BOOLEAN]

InitFactor ==
    /\ mfa = Fila2F0
    /\ paso = 1
    /\ tramite = [p \in Pestanas |-> Tramite0]
    /\ huella = [probado |-> 0, gastados |-> {}, estuvo |-> FALSE, repetido |-> FALSE,
                 solapado |-> FALSE]

mfa_activo(f) == f.secreto # 0 /\ f.activo

(* A code is good one step either side of now.                             *)
VENTANA == 1

_paso_actual(k) == k + VENTANA >= paso /\ k <= paso + VENTANA

(* The code forgotten once it is accepted.                                 *)
ValidoSinMemoria(f, k) == f.secreto # 0 /\ _paso_actual(k)

(* A code already spent, or older than one, is refused.                    *)
verificar_codigo(f, k) == f.secreto # 0 /\ _paso_actual(k) /\ k > f.ultimo

(* The request begins: it works on the row it loads now.                   *)
Cargar(p, pc, k) ==
    /\ tramite[p].pc = "libre"
    /\ tramite' = [tramite EXCEPT ![p] =
          [pc |-> pc, leida |-> mfa, k |-> k, movida |-> FALSE]]
    /\ UNCHANGED <<mfa, paso, huella>>

TrasConfirmar(p) ==
    tramite' = [q \in Pestanas |->
                  IF q = p THEN Tramite0
                  ELSE [tramite[q] EXCEPT !.movida = tramite[q].pc # "libre"]]

(* A code opens a session: again, if it had been spent since its secret    *)
(* was issued and no confirmation has forgotten it.                        *)
Gastar(k, movida) ==
    [huella EXCEPT !.gastados = @ \cup {k},
                   !.repetido = @ \/ k \in huella.gastados,
                   !.solapado = @ \/ movida]

(***************************************************************************)
(* Enrolment: a fresh secret, not in force until it is proved.  Opening    *)
(* the page again, or a wrong code, starts over with another secret.  A    *)
(* column set to what was loaded is not written.                           *)
(***************************************************************************)
AbrirAlta(p) == ~mfa_activo(mfa) /\ mfa.secreto < MaxSecreto /\ Cargar(p, "alta", 0)

(* A plausible slip: in force as soon as the code is shown.                *)
ActivoDesdeElQR(f) == TRUE

ActivoTrasAlta(f) == FALSE

iniciar_alta(p) ==
    /\ tramite[p].pc = "alta"
    /\ tramite[p].leida.secreto < MaxSecreto
    /\ LET f == tramite[p].leida
       IN  mfa' = [mfa EXCEPT !.secreto = f.secreto + 1,
                     !.activo = IF ActivoTrasAlta(f) # f.activo THEN ActivoTrasAlta(f)
                                ELSE @,
                     !.ultimo = IF f.ultimo # 0 THEN 0 ELSE @]
    /\ huella' = [huella EXCEPT !.gastados = {}, !.solapado = @ \/ tramite[p].movida]
    /\ TrasConfirmar(p)
    /\ UNCHANGED paso

MandarPrueba(p, k) ==
    /\ ~mfa_activo(mfa) /\ mfa.secreto # 0 /\ _paso_actual(k)
    /\ Cargar(p, "confirmar", k)

(* The step recorded for the confirming code is worked out again from what *)
(* was typed, without taking its spaces out: a code typed with one, as the *)
(* telephone shows it, or whose step has passed meanwhile, leaves none.    *)
PasosDeLaPrueba(k) == IF _paso_actual(k) THEN {0, k} ELSE {0}

(* The paper codes are issued anew with the confirmation.  What was spent  *)
(* after the step it records is forgotten.                                 *)
confirmar_alta(p) ==
    /\ tramite[p].pc = "confirmar"
    /\ mfa.papel < MaxSecreto
    /\ \E nuevo \in PasosDeLaPrueba(tramite[p].k) :
          LET t == tramite[p] IN
          /\ mfa' = [mfa EXCEPT !.activo = TRUE,
                        !.ultimo = IF nuevo # t.leida.ultimo THEN nuevo ELSE @,
                        !.papel = @ + 1, !.usado = FALSE]
          /\ huella' = [huella EXCEPT !.probado = t.leida.secreto, !.estuvo = TRUE,
                           !.gastados = {k \in @ \cup {t.k} : k <= nuevo},
                           !.solapado = @ \/ t.movida]
    /\ TrasConfirmar(p)
    /\ UNCHANGED paso

(***************************************************************************)
(* The second step of a sign-in, after the password: a code of the phone,  *)
(* or a paper one.  It is asked of whoever signed in while the factor was  *)
(* in force, and is not checked again: a sign-in left pending outlives the *)
(* factor, and takes a code of an enrolment not yet confirmed.             *)
(***************************************************************************)
MandarCodigo(p, k) ==
    /\ huella.estuvo /\ verificar_codigo(mfa, k)
    /\ Cargar(p, "entrar", k)

AceptarCodigo(p) ==
    /\ tramite[p].pc = "entrar"
    /\ mfa' = [mfa EXCEPT !.ultimo = tramite[p].k]
    /\ huella' = Gastar(tramite[p].k, tramite[p].movida)
    /\ TrasConfirmar(p)
    /\ UNCHANGED paso

MandarPapel(p) ==
    /\ huella.estuvo /\ mfa.papel # 0 /\ ~mfa.usado
    /\ Cargar(p, "recuperar", 0)

(* A code reissued meanwhile is a row that is gone: the request fails.  A  *)
(* code used meanwhile is used again.                                      *)
consumir_codigo_de_recuperacion(p) ==
    /\ tramite[p].pc = "recuperar"
    /\ IF mfa.papel = tramite[p].leida.papel
       THEN /\ mfa' = [mfa EXCEPT !.usado = TRUE]
            /\ huella' = [huella EXCEPT !.repetido = @ \/ mfa.usado,
                                        !.solapado = @ \/ tramite[p].movida]
            /\ TrasConfirmar(p)
       ELSE tramite' = [tramite EXCEPT ![p] = Tramite0] /\ UNCHANGED <<mfa, huella>>
    /\ UNCHANGED paso

(* New paper codes, and the factor taken off: by its owner when no policy  *)
(* asks for it, or by an administrator.                                    *)
Avisar == tramite' = [q \in Pestanas |->
                        [tramite[q] EXCEPT !.movida = tramite[q].pc # "libre"]]

emitir_codigos ==
    /\ mfa_activo(mfa) /\ mfa.papel < MaxSecreto
    /\ mfa' = [mfa EXCEPT !.papel = @ + 1, !.usado = FALSE]
    /\ Avisar
    /\ UNCHANGED <<paso, huella>>

desactivar ==
    /\ mfa # Fila2F0
    /\ mfa' = Fila2F0
    /\ huella' = [huella EXCEPT !.gastados = {}, !.probado = 0]
    /\ Avisar
    /\ UNCHANGED paso

PasarPaso == paso < MaxPaso /\ paso' = paso + 1 /\ UNCHANGED <<mfa, tramite, huella>>

(* Bound: a behaviour is followed up to the first write over another's.    *)
SinSolape == ~huella.solapado

NextFactor ==
    /\ SinSolape
    /\ \/ \E p \in Pestanas :
             \/ AbrirAlta(p)
             \/ iniciar_alta(p)
             \/ \E k \in 1..MaxPaso : MandarCodigo(p, k) \/ MandarPrueba(p, k)
             \/ confirmar_alta(p)
             \/ AceptarCodigo(p)
             \/ MandarPapel(p)
             \/ consumir_codigo_de_recuperacion(p)
       \/ emitir_codigos
       \/ desactivar
       \/ PasarPaso

SpecFactor == InitFactor /\ [][NextFactor]_varsFactor

(***************************************************************************)
(* The factor in force is one its owner has proved to have, and no code,   *)
(* of the phone or on paper, opens a session twice, nor does the one that  *)
(* confirmed the enrolment open one.  Two exceptions.  Two requests on the *)
(* account overlap: an enrolment page that finishes loading after another  *)
(* tab confirmed replaces the secret and leaves it in force, and two       *)
(* sign-ins that checked the same row both spend the same code.  And the   *)
(* codes the confirmation forgot, those later than the step it recorded,   *)
(* which open one session more: the confirming code when it was typed with *)
(* a space, and one a sign-in still pending spent on the enrolment.        *)
(***************************************************************************)
FactorProbado ==
    ~huella.solapado =>
       /\ mfa_activo(mfa) => mfa.secreto = huella.probado
       /\ ~huella.repetido
=============================================================================
