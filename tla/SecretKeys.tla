------------------------------ MODULE SecretKeys ------------------------------
(***************************************************************************)
(* The key secrets are encrypted with: how it is changed, how what is      *)
(* stored follows it, and what a copy taken under one key becomes when it  *)
(* is restored under another.  decrypt_secret answers None for what no key *)
(* of the configuration opens, and nothing fails.                          *)
(***************************************************************************)
EXTENDS Naturals

CONSTANTS
    Columnas,       \* secrets kept in an encrypted column
    Ajustes,        \* secrets kept as a setting
    MaxClave,       \* bound: keys ever configured
    MaxValor        \* bound: values a secret is given

ASSUME SecretKeysAssumption ==
    Columnas \cap Ajustes = {} /\ MaxClave \in Nat \ {0} /\ MaxValor \in Nat \ {0}

VARIABLES
    entorno,        \* SECRETS_ENCRYPTION_KEY and _PREVIOUS (0: empty)
    secretos,       \* the key each stored secret is under (0: none), and its value
    vigente,        \* the value each secret should have
    rotacion,       \* the flask rotar-cifrado under way
    copiada,        \* the copy at hand, if any
    mezclados       \* secrets restored under a key nobody keeps, or rewritten from a stale read

varsClaves == <<entorno, secretos, vigente, rotacion, copiada, mezclados>>

Secretos == Columnas \cup Ajustes
Cifrado == [clave : 0..MaxClave, valor : 0..MaxValor]
Ninguno == [s \in Secretos |-> [clave |-> 0, valor |-> 0]]
Rotacion0 == [pc |-> "fuera", leidos |-> Ninguno, plan |-> {}]
Copiada0 == [hay |-> FALSE, actual |-> 1, anterior |-> 0, secretos |-> Ninguno]

TipoClaves ==
    /\ entorno \in [actual : 1..MaxClave, anterior : 0..MaxClave]
    /\ secretos \in [Secretos -> Cifrado]
    /\ vigente \in [Secretos -> 0..MaxValor]
    /\ rotacion \in [pc : {"fuera", "pendiente", "leido", "hecho"},
                     leidos : [Secretos -> Cifrado], plan : SUBSET Secretos]
    /\ copiada \in [hay : BOOLEAN, actual : 1..MaxClave, anterior : 0..MaxClave,
                    secretos : [Secretos -> Cifrado]]
    /\ mezclados \subseteq Secretos

InitClaves ==
    /\ entorno = [actual |-> 1, anterior |-> 0]
    /\ secretos = Ninguno
    /\ vigente = [s \in Secretos |-> 0]
    /\ rotacion = Rotacion0
    /\ copiada = Copiada0
    /\ mezclados = {}

(* What a pair of keys opens; empty values are not secrets.                *)
Abre(actual, anterior, c) == c.clave \in {0, actual, anterior}

Guardados(filas) == {s \in Secretos : filas[s].clave # 0}

(* Always with the current key, at any time: an API key, a second factor...*)
encrypt_secret(s, v) ==
    /\ v = vigente[s] + 1
    /\ secretos' = [secretos EXCEPT ![s] = [clave |-> entorno.actual, valor |-> v]]
    /\ vigente' = [vigente EXCEPT ![s] = v]
    /\ mezclados' = IF rotacion.pc = "leido" /\ s \in rotacion.plan
                    THEN mezclados \cup {s} ELSE mezclados \ {s}
    /\ UNCHANGED <<entorno, rotacion, copiada>>

(***************************************************************************)
(* The rotation.  setup.sh puts the new key in place, keeping the old one  *)
(* as the previous; by hand, it may be given the new key only, and finds   *)
(* the old one among its copies of the environment.  Every service has the *)
(* new environment before anything is rewritten.                           *)
(***************************************************************************)
CambiarClave(guardaAnterior) ==
    /\ rotacion.pc = "fuera" /\ entorno.anterior = 0
    /\ entorno.actual < MaxClave
    /\ entorno' = [actual |-> entorno.actual + 1,
                   anterior |-> IF guardaAnterior THEN entorno.actual ELSE 0]
    /\ rotacion' = [rotacion EXCEPT !.pc = "pendiente"]
    /\ UNCHANGED <<secretos, vigente, copiada, mezclados>>

(* A plausible slip: the columns are rewritten, the settings forgotten.    *)
SoloColumnas == {s \in Columnas : secretos[s].clave # 0}

_cifrados == Guardados(secretos)

(* Refused, without writing, when something opens with neither key.        *)
recifrar(anterior) ==
    /\ rotacion.pc = "pendiente"
    /\ anterior = entorno.anterior \/ (entorno.anterior = 0 /\ anterior < entorno.actual)
    /\ \A s \in _cifrados : Abre(entorno.actual, anterior, secretos[s])
    /\ rotacion' = [pc |-> "leido", leidos |-> secretos,
                    plan |-> {s \in _cifrados : secretos[s].clave # entorno.actual}]
    /\ UNCHANGED <<entorno, secretos, vigente, copiada, mezclados>>

(* One transaction, of what was read.                                      *)
ConfirmarRecifrado ==
    /\ rotacion.pc = "leido"
    /\ secretos' = [s \in Secretos |->
          IF s \in rotacion.plan
          THEN [clave |-> entorno.actual, valor |-> rotacion.leidos[s].valor]
          ELSE secretos[s]]
    /\ rotacion' = [Rotacion0 EXCEPT !.pc = "hecho"]
    /\ UNCHANGED <<entorno, vigente, copiada, mezclados>>

RetirarAnterior ==
    /\ rotacion.pc = "hecho"
    /\ entorno' = [entorno EXCEPT !.anterior = 0]
    /\ rotacion' = Rotacion0
    /\ UNCHANGED <<secretos, vigente, copiada, mezclados>>

(***************************************************************************)
(* Copies carry the rows as they are stored and both keys.                 *)
(***************************************************************************)
_escribir_copia_de_claves ==
    /\ ~copiada.hay
    /\ copiada' = [hay |-> TRUE, actual |-> entorno.actual, anterior |-> entorno.anterior,
                   secretos |-> secretos]
    /\ UNCHANGED <<entorno, secretos, vigente, rotacion, mezclados>>

(* Under the same current key the rows are taken as they are; under        *)
(* another every secret is translated, or nothing is restored.             *)
_recifrar_copia ==
    IF copiada.actual = entorno.actual THEN copiada.secretos
    ELSE [s \in Secretos |->
            IF copiada.secretos[s].clave = 0 THEN copiada.secretos[s]
            ELSE [copiada.secretos[s] EXCEPT !.clave = entorno.actual]]

_restaurar_claves ==
    /\ copiada.hay
    /\ copiada.actual # entorno.actual =>
          \A s \in Secretos : Abre(copiada.actual, copiada.anterior, copiada.secretos[s])
    /\ secretos' = _recifrar_copia
    /\ vigente' = [s \in Secretos |-> copiada.secretos[s].valor]
    /\ mezclados' = {s \in Secretos :
          \/ ~Abre(copiada.actual, 0, copiada.secretos[s]) /\ copiada.actual = entorno.actual
          \/ rotacion.pc = "leido" /\ s \in rotacion.plan}
    /\ copiada' = Copiada0
    /\ UNCHANGED <<entorno, rotacion>>

NextClaves ==
    \/ \E s \in Secretos, v \in 1..MaxValor : encrypt_secret(s, v)
    \/ \E guardaAnterior \in BOOLEAN : CambiarClave(guardaAnterior)
    \/ \E anterior \in 0..MaxClave : recifrar(anterior)
    \/ ConfirmarRecifrado
    \/ RetirarAnterior
    \/ _escribir_copia_de_claves
    \/ _restaurar_claves

SpecClaves == InitClaves /\ [][NextClaves]_varsClaves

(***************************************************************************)
(* Once a rotation is over, every stored secret opens with the current     *)
(* key and says what was last stored, whatever copies were restored; the   *)
(* exceptions are a secret changed, or restored, while it was being        *)
(* rewritten, and the rows of a copy taken in the middle of a rotation,    *)
(* which come back as they were if the current key is the same.            *)
(***************************************************************************)
SecretosEnPie ==
    rotacion.pc = "fuera" =>
        \A s \in Secretos \ mezclados :
            /\ Abre(entorno.actual, 0, secretos[s])
            /\ secretos[s].valor = vigente[s]
=============================================================================
