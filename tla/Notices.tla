------------------------------- MODULE Notices -------------------------------
(***************************************************************************)
(* Telling the people on a trip, once each, and mailing what they have not *)
(* read.                                                                   *)
(*                                                                         *)
(* A fact is told to several people in one commit; the same fact presents  *)
(* itself again and again, from processes that overlap, and a unique       *)
(* constraint per person and fact refuses the second telling.  The mail    *)
(* pass lists the oldest unread notices not yet mailed, sends one by one   *)
(* and commits its marks at the end.                                       *)
(***************************************************************************)
EXTENDS Naturals, FiniteSets, Sequences, SequencesExt

CONSTANTS
    Hechos,      \* the facts, in the order a recalculation tells them
    Interesados, \* the manager and the travellers of the trip
    SinBuzon,    \* those of them with no mail address
    Narradores,  \* processes that may be telling the facts
    Carteros,    \* processes that may be running the mail pass
    Limite,      \* notices one pass takes
    MaxCorreos,  \* bound: mails sent of one notice
    MaxAverias   \* bound: deaths of processes, switches of the mail setting

ASSUME NoticesAssumption ==
    /\ Limite \in Nat \ {0} /\ MaxCorreos \in Nat /\ MaxAverias \in Nat
    /\ SinBuzon \subseteq Interesados /\ IsFiniteSet(Interesados)

VARIABLES
    creadas,     \* the committed notices, oldest first
    leidas,      \* those their person has read
    enviadas,    \* those with `enviada_por_correo_en`
    narrador,    \* what each teller is doing
    cartero,     \* what each mail pass is doing
    correo,      \* is mail switched on
    salidas,     \* history: mails that left, by notice
    falsas,      \* history: those of them whose send raised all the same
    descuidos,   \* history: a pass died or two overlapped
    averias

varsAvisos == <<creadas, leidas, enviadas, narrador, cartero, correo, salidas, falsas,
                descuidos, averias>>

Noticias == {Hechos[i] : i \in DOMAIN Hechos} \X Interesados
Existentes == ToSet(creadas)

NarradorLibre == [pc |-> "libre", i |-> 1, faltan |-> {}]
CarteroLibre == [pc |-> "libre", lista |-> {}, marcar |-> {}]

InitAvisos ==
    /\ creadas = <<>> /\ leidas = {} /\ enviadas = {}
    /\ narrador = [n \in Narradores |-> NarradorLibre]
    /\ cartero = [c \in Carteros |-> CarteroLibre]
    /\ correo = TRUE
    /\ salidas = [n \in Noticias |-> 0]
    /\ falsas = [n \in Noticias |-> 0]
    /\ descuidos = FALSE /\ averias = 0

Averia == averias < MaxAverias /\ averias' = averias + 1

(***************************************************************************)
(* Telling.                                                                *)
(***************************************************************************)

EmpezarAContar(n) ==
    /\ narrador[n].pc = "libre"
    /\ narrador' = [narrador EXCEPT ![n] = [NarradorLibre EXCEPT !.pc = "buscar"]]
    /\ UNCHANGED <<creadas, leidas, enviadas, cartero, correo, salidas, falsas,
                   descuidos, averias>>

(* `notificar` for each person: who already has this fact is passed over.  *)
BuscarLasQueFaltan(n) ==
    LET hecho == Hechos[narrador[n].i] IN
    /\ narrador[n].pc = "buscar"
    /\ narrador' = [narrador EXCEPT
          ![n].pc = "guardar",
          ![n].faltan = {x \in Noticias : x[1] = hecho /\ x \notin Existentes}]
    /\ UNCHANGED <<creadas, leidas, enviadas, cartero, correo, salidas, falsas,
                   descuidos, averias>>

(* `commit=False` for each, one commit for all.                            *)
UnaAUna(faltan) == {faltan} \cup {{x} : x \in faltan}
LoteEntero(faltan) == {faltan}

(* `notificar_a_varios` commits: a constraint that refuses one takes the   *)
(* whole batch, and the facts still to tell, with it.                      *)
notificar_a_varios(n) ==
    LET p == narrador[n] IN
    /\ p.pc = "guardar"
    /\ \/ /\ p.faltan \cap Existentes = {}
          /\ \E guardadas \in LoteEntero(p.faltan) :
                creadas' = creadas \o SetToSeq(guardadas)
          /\ narrador' = [narrador EXCEPT ![n] =
                IF p.i < Len(Hechos) THEN [pc |-> "buscar", i |-> p.i + 1, faltan |-> {}]
                ELSE NarradorLibre]
       \/ /\ p.faltan \cap Existentes # {}
          /\ narrador' = [narrador EXCEPT ![n] = NarradorLibre]
          /\ UNCHANGED creadas
    /\ UNCHANGED <<leidas, enviadas, cartero, correo, salidas, falsas, descuidos, averias>>

MorirContando(n) ==
    /\ Averia
    /\ narrador[n].pc # "libre"
    /\ narrador' = [narrador EXCEPT ![n] = NarradorLibre]
    /\ UNCHANGED <<creadas, leidas, enviadas, cartero, correo, salidas, falsas, descuidos>>

(***************************************************************************)
(* Reading.                                                                *)
(***************************************************************************)

marcar_leida(x) ==
    /\ x \in Existentes \ leidas
    /\ leidas' = leidas \cup {x}
    /\ UNCHANGED <<creadas, enviadas, narrador, cartero, correo, salidas, falsas,
                   descuidos, averias>>

marcar_todas_leidas(p) ==
    LET suyas == {x \in Existentes \ leidas : x[2] = p} IN
    /\ suyas # {}
    /\ leidas' = leidas \cup suyas
    /\ UNCHANGED <<creadas, enviadas, narrador, cartero, correo, salidas, falsas,
                   descuidos, averias>>

(***************************************************************************)
(* Mailing.                                                                *)
(***************************************************************************)

(* An administrator turns mail on or off in the settings.                  *)
ConmutarCorreo ==
    /\ Averia
    /\ correo' = ~correo
    /\ UNCHANGED <<creadas, leidas, enviadas, narrador, cartero, salidas, falsas, descuidos>>

PorEnviar(x) == x \notin enviadas /\ x \notin leidas

(* The list holds places in `creadas`: the oldest ones first, `limit` them. *)
LasPrimeras(S, n) == {i \in S : Cardinality({j \in S : j < i}) < n}

ListarPendientes(c) ==
    LET pendientes == {i \in DOMAIN creadas : PorEnviar(creadas[i])} IN
    /\ cartero[c].pc = "libre" /\ correo /\ pendientes # {}
    /\ cartero' = [cartero EXCEPT ![c] =
          [pc |-> "enviar", marcar |-> {}, lista |-> LasPrimeras(pendientes, Limite)]]
    /\ descuidos' = (descuidos \/ \E d \in Carteros : cartero[d].pc # "libre")
    /\ UNCHANGED <<creadas, leidas, enviadas, narrador, correo, salidas, falsas, averias>>

(* The next of the list is marked: it left, or there is nobody to send it  *)
(* to, or mail was switched off meanwhile.  An exception of `enviar` marks *)
(* nothing, whether the server refused the message or had taken it and the *)
(* goodbye failed: that one is listed again and leaves again.              *)
SoloLasQueFallan(marcar, x, salio) == IF salio THEN marcar ELSE marcar \cup {x}
Marcadas(marcar, x, salio) == marcar \cup {x}

EnviarLaSiguiente(c) ==
    LET p == cartero[c]  i == Min(p.lista)  x == creadas[i] IN
    /\ p.pc = "enviar" /\ p.lista # {}
    /\ \/ /\ x[2] \in SinBuzon \/ ~correo
          /\ cartero' = [cartero EXCEPT ![c].lista = @ \ {i},
                                        ![c].marcar = Marcadas(@, x, FALSE)]
          /\ UNCHANGED <<salidas, falsas>>
       \/ /\ x[2] \notin SinBuzon /\ correo /\ salidas[x] < MaxCorreos
          /\ salidas' = [salidas EXCEPT ![x] = @ + 1]
          /\ \/ /\ cartero' = [cartero EXCEPT ![c].lista = @ \ {i},
                                              ![c].marcar = Marcadas(@, x, TRUE)]
                /\ UNCHANGED falsas
             \/ /\ cartero' = [cartero EXCEPT ![c].lista = @ \ {i}]
                /\ falsas' = [falsas EXCEPT ![x] = @ + 1]
       \/ /\ x[2] \notin SinBuzon /\ correo
          /\ cartero' = [cartero EXCEPT ![c].lista = @ \ {i}]
          /\ UNCHANGED <<salidas, falsas>>
    /\ UNCHANGED <<creadas, leidas, enviadas, narrador, correo, descuidos, averias>>

CerrarElPase(c) ==
    /\ cartero[c].pc = "enviar" /\ cartero[c].lista = {}
    /\ enviadas' = enviadas \cup cartero[c].marcar
    /\ cartero' = [cartero EXCEPT ![c] = CarteroLibre]
    /\ UNCHANGED <<creadas, leidas, narrador, correo, salidas, falsas, descuidos, averias>>

MorirEnviando(c) ==
    /\ Averia
    /\ cartero[c].pc # "libre"
    /\ cartero' = [cartero EXCEPT ![c] = CarteroLibre]
    /\ descuidos' = TRUE
    /\ UNCHANGED <<creadas, leidas, enviadas, narrador, correo, salidas, falsas>>

NextAvisos ==
    \/ \E n \in Narradores :
          \/ EmpezarAContar(n) \/ BuscarLasQueFaltan(n) \/ notificar_a_varios(n)
          \/ MorirContando(n)
    \/ \E x \in Noticias : marcar_leida(x)
    \/ \E p \in Interesados : marcar_todas_leidas(p)
    \/ ConmutarCorreo
    \/ \E c \in Carteros :
          \/ ListarPendientes(c) \/ EnviarLaSiguiente(c) \/ CerrarElPase(c)
          \/ MorirEnviando(c)

SpecAvisos == InitAvisos /\ [][NextAvisos]_varsAvisos

(***************************************************************************)
(* Properties.                                                             *)
(***************************************************************************)

(* Type: every variable of the module stays in its domain.                 *)
TipoAvisos ==
    /\ Existentes \subseteq Noticias /\ leidas \subseteq Existentes
    /\ enviadas \subseteq Existentes
    /\ \A n \in Narradores : narrador[n].faltan \subseteq Noticias
    /\ \A c \in Carteros : /\ cartero[c].lista \subseteq DOMAIN creadas
                           /\ cartero[c].marcar \subseteq Existentes
    /\ correo \in BOOLEAN /\ salidas \in [Noticias -> 0..MaxCorreos]
    /\ falsas \in [Noticias -> 0..MaxCorreos]
    /\ descuidos \in BOOLEAN /\ averias \in 0..MaxAverias

(* `notificar_a_varios`: a fact is known to everyone on the trip or to     *)
(* nobody, and to nobody twice, however the tellings overlap or die.       *)
TodosONadie ==
    /\ IsInjective(creadas)
    /\ \A i \in DOMAIN Hechos :
          LET saben == {p \in Interesados : <<Hechos[i], p>> \in Existentes}
          IN saben \in {{}, Interesados}

(* `enviar_pendientes_por_correo` ("this is the second delivery"): unless  *)
(* a pass died before its commit or two of them overlapped, a notice is    *)
(* mailed once, and again only for each time it left and the send raised.  *)
UnSoloCorreo == descuidos \/ \A x \in Noticias : salidas[x] <= falsas[x] + 1

(* A notice reaches everybody, once: in the application and by mail.       *)
AvisosEnteros == TodosONadie /\ UnSoloCorreo
==============================================================================
