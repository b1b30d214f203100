--------------------------- MODULE BackgroundProofs ---------------------------
(***************************************************************************)
(* What is proved of the work done out of sight of a request: the notices, *)
(* the recommendations, the calls to a model, the choice of the provider   *)
(* that answers, the search of its parameters and the trust in what it     *)
(* reads, for any people, pages, processes, models, providers, places and  *)
(* deaths of processes.                                                    *)
(***************************************************************************)
EXTENDS Notices, Advisories, AICalls, AIProviders, Autotune, Grounding,
        FunctionTheorems, FiniteSetTheorems, SequenceTheorems,
        WellFoundedInduction, TLAPS

(* A set of naturals that is not empty has a least one: the induction      *)
(* principle, in the form that takes a set.                                *)
LEMMA HayMenor ==
    ASSUME NEW S \in SUBSET Nat, S # {}
    PROVE  \E m \in S : \A k \in S : m <= k
<1>1. PICK m \in S : \A k \in S : ~(<<k, m>> \in OpToRel(<, Nat))
    BY NatLessThanWellFounded, WFMin
<1>2. \A k \in S : ~(k < m)
    BY <1>1 DEF OpToRel
<1> QED
    BY <1>2

(* The least of a set of naturals is in it.                                *)
LEMMA ElMenor ==
    ASSUME NEW S \in SUBSET Nat, S # {}
    PROVE  Min(S) \in S /\ \A k \in S : Min(S) <= k
BY HayMenor DEF Min

(* A finite set, put in a row: all of it, and nothing twice.               *)
LEMMA EnFila ==
    ASSUME NEW S, IsFiniteSet(S)
    PROVE  SetToSeq(S) \in Seq(S) /\ IsInjective(SetToSeq(S)) /\ ToSet(SetToSeq(S)) = S
<1> DEFINE n == Cardinality(S)
<1>1. n \in Nat /\ ExistsBijection(1..n, S)
    BY FS_CardinalityType
<1>2. \E f \in [1..n -> S] : IsInjective(f)
    BY <1>1, Fun_IsBij DEF ExistsBijection, Bijection, Injection
<1>3. SetToSeq(S) \in [1..n -> S] /\ IsInjective(SetToSeq(S))
    BY <1>2 DEF SetToSeq
<1>4. SetToSeq(S) \in Injection(1..n, S)
    BY <1>3 DEF Injection
<1>5. IsFiniteSet(1..n) /\ Cardinality(1..n) = n
    BY <1>1, FS_Interval
<1>6. SetToSeq(S) \in Surjection(1..n, S)
    BY <1>4, <1>5, FS_Injection
<1>7. ToSet(SetToSeq(S)) = S
    BY <1>3, <1>6 DEF ToSet, Surjection
<1> QED
    BY <1>1, <1>3, <1>7

(* Two rows with nothing in common, one after the other.                   *)
LEMMA UnaTrasOtra ==
    ASSUME NEW N, NEW s \in Seq(N), NEW t \in Seq(N), IsInjective(s), IsInjective(t),
           ToSet(s) \cap ToSet(t) = {}
    PROVE  /\ s \o t \in Seq(N) /\ IsInjective(s \o t)
           /\ ToSet(s \o t) = ToSet(s) \cup ToSet(t)
           /\ DOMAIN s \subseteq DOMAIN (s \o t)
           /\ \A i \in DOMAIN s : (s \o t)[i] = s[i]
<1>1. /\ s \o t \in Seq(N) /\ Len(s) \in Nat /\ Len(t) \in Nat
      /\ DOMAIN s = 1..Len(s) /\ DOMAIN t = 1..Len(t)
      /\ DOMAIN (s \o t) = 1..(Len(s) + Len(t))
    OBVIOUS
<1>2. /\ \A i \in 1..Len(s) : (s \o t)[i] = s[i]
      /\ \A i \in 1..Len(t) : (s \o t)[Len(s) + i] = t[i]
    BY <1>1
<1>3. ASSUME NEW i \in 1..(Len(s) + Len(t))
      PROVE  \/ i \in 1..Len(s)
             \/ i - Len(s) \in 1..Len(t) /\ (s \o t)[i] = t[i - Len(s)]
    BY <1>1, <1>2
<1>4. ToSet(s \o t) = ToSet(s) \cup ToSet(t)
    <2>1. ToSet(s \o t) \subseteq ToSet(s) \cup ToSet(t)
        BY <1>1, <1>2, <1>3 DEF ToSet
    <2>2. ToSet(s) \subseteq ToSet(s \o t)
        BY <1>1, <1>2 DEF ToSet
    <2>3. ToSet(t) \subseteq ToSet(s \o t)
        <3> SUFFICES ASSUME NEW i \in 1..Len(t) PROVE t[i] \in ToSet(s \o t)
            BY <1>1 DEF ToSet
        <3>1. Len(s) + i \in 1..(Len(s) + Len(t))
            BY <1>1
        <3>2. Len(s) + i \in DOMAIN (s \o t)
            BY <1>1, <3>1
        <3>3. (s \o t)[Len(s) + i] = t[i]
            BY <1>2
        <3> QED
            BY <3>2, <3>3 DEF ToSet
    <2> QED
        BY <2>1, <2>2, <2>3
<1>5. ASSUME NEW i \in 1..(Len(s) + Len(t)), NEW j \in 1..(Len(s) + Len(t)),
             (s \o t)[i] = (s \o t)[j]
      PROVE  i = j
    <2>1. CASE i \in 1..Len(s) /\ j \in 1..Len(s)
        BY <1>1, <1>2, <1>5, <2>1 DEF IsInjective
    <2>2. CASE i \notin 1..Len(s) /\ j \notin 1..Len(s)
        <3>1. t[i - Len(s)] = t[j - Len(s)]
            BY <1>3, <1>5, <2>2
        <3>2. i - Len(s) = j - Len(s)
            BY <1>1, <1>3, <2>2, <3>1 DEF IsInjective
        <3> QED
            BY <1>1, <3>2
    <2>3. ASSUME NEW a \in 1..(Len(s) + Len(t)), NEW b \in 1..(Len(s) + Len(t)),
                 a \in 1..Len(s), b \notin 1..Len(s), (s \o t)[a] = (s \o t)[b]
          PROVE  FALSE
        <3>1. s[a] \in ToSet(s) /\ t[b - Len(s)] \in ToSet(t)
            BY <1>1, <1>3, <2>3 DEF ToSet
        <3> QED
            BY <1>2, <1>3, <2>3, <3>1
    <2> QED
        BY <1>5, <2>1, <2>2, <2>3
<1>6. IsInjective(s \o t)
    BY <1>1, <1>5, Zenon DEF IsInjective
<1>7. DOMAIN s \subseteq DOMAIN (s \o t)
    BY <1>1
<1> QED
    BY <1>1, <1>2, <1>4, <1>6, <1>7

-----------------------------------------------------------------------------
(***************************************************************************)
(* Notices.  Both halves need what a process holds between two commits: a  *)
(* teller, nobody or all of those on the trip; a mail pass, places in the  *)
(* list whose notice nobody has mailed.                                    *)
(***************************************************************************)
TiposNarrador == [pc : {"libre", "buscar", "guardar"}, i : Nat, faltan : SUBSET Noticias]
TiposCartero == [pc : {"libre", "enviar"}, lista : SUBSET Nat, marcar : SUBSET Noticias]

FormaAvisos ==
    /\ creadas \in Seq(Noticias)
    /\ leidas \subseteq Existentes /\ enviadas \subseteq Existentes
    /\ narrador \in [Narradores -> TiposNarrador]
    /\ cartero \in [Carteros -> TiposCartero]
    /\ \A c \in Carteros : /\ cartero[c].lista \subseteq DOMAIN creadas
                           /\ cartero[c].marcar \subseteq Existentes
                           /\ cartero[c].pc = "libre" => cartero[c] = CarteroLibre
    /\ correo \in BOOLEAN /\ salidas \in [Noticias -> 0..MaxCorreos]
    /\ falsas \in [Noticias -> 0..MaxCorreos]
    /\ \A x \in Noticias : falsas[x] <= salidas[x]
    /\ descuidos \in BOOLEAN /\ averias \in 0..MaxAverias

(* Everybody's notice of one fact.                                         *)
LoteDe(h) == {x \in Noticias : x[1] = h}

GuardaEntero(n) ==
    narrador[n].pc = "guardar" =>
       \/ narrador[n].faltan = {}
       \/ \E i \in DOMAIN Hechos : narrador[n].faltan = LoteDe(Hechos[i])

(* With one pass at a time and no deaths: what it still has to send nobody *)
(* has marked, and what was sent without a complaint is marked or about to *)
(* be.                                                                     *)
CorreoEnOrden ==
    ~descuidos =>
       /\ \A c, d \in Carteros : c # d => cartero[c].pc = "libre" \/ cartero[d].pc = "libre"
       /\ \A c \in Carteros : \A i \in cartero[c].lista :
             creadas[i] \notin enviadas \cup cartero[c].marcar
       /\ \A x \in Noticias : salidas[x] # falsas[x] =>
             /\ salidas[x] = falsas[x] + 1
             /\ x \in enviadas \/ \E c \in Carteros : x \in cartero[c].marcar

InvAvisos ==
    /\ FormaAvisos
    /\ TodosONadie
    /\ \A n \in Narradores : GuardaEntero(n)
    /\ CorreoEnOrden

(* Nothing has happened yet.                                               *)
LEMMA AvisosAlPrincipio == InitAvisos => InvAvisos
<1> SUFFICES ASSUME InitAvisos PROVE InvAvisos
    OBVIOUS
<1> USE DEF InitAvisos
<1>1. creadas \in Seq(Noticias) /\ Existentes = {} /\ IsInjective(creadas)
    BY DEF Existentes, ToSet, IsInjective
<1>2. NarradorLibre \in TiposNarrador /\ CarteroLibre \in TiposCartero
      /\ NarradorLibre.pc = "libre" /\ CarteroLibre.lista = {} /\ CarteroLibre.marcar = {}
      /\ CarteroLibre.pc = "libre"
    BY DEF NarradorLibre, CarteroLibre, TiposNarrador, TiposCartero
<1>20. /\ \A n \in Narradores : narrador[n] = NarradorLibre
       /\ \A c \in Carteros : cartero[c] = CarteroLibre
       /\ narrador \in [Narradores -> TiposNarrador]
       /\ cartero \in [Carteros -> TiposCartero]
    BY <1>2
<1>21. /\ salidas \in [Noticias -> 0..MaxCorreos] /\ correo \in BOOLEAN
       /\ falsas \in [Noticias -> 0..MaxCorreos]
       /\ \A x \in Noticias : falsas[x] <= salidas[x] /\ falsas[x] = salidas[x]
       /\ averias \in 0..MaxAverias /\ descuidos \in BOOLEAN
    <2>1. 0 \in 0..MaxAverias /\ 0 \in 0..MaxCorreos
        BY ONLY NoticesAssumption DEF NoticesAssumption
    <2>2. salidas = [x \in Noticias |-> 0] /\ falsas = [x \in Noticias |-> 0]
        OBVIOUS
    <2>3. /\ salidas \in [Noticias -> 0..MaxCorreos]
          /\ falsas \in [Noticias -> 0..MaxCorreos]
          /\ \A x \in Noticias : falsas[x] <= salidas[x] /\ falsas[x] = salidas[x]
        BY ONLY <2>1, <2>2
    <2> QED
        BY <2>1, <2>3
<1>22. leidas \subseteq Existentes /\ enviadas \subseteq Existentes
    OBVIOUS
<1>3. FormaAvisos
    BY ONLY <1>1, <1>2, <1>20, <1>21, <1>22 DEF FormaAvisos
<1>4. TodosONadie
    BY <1>1 DEF TodosONadie
<1>5. \A n \in Narradores : GuardaEntero(n)
    BY <1>2 DEF GuardaEntero
<1>6. CorreoEnOrden
    BY <1>2, <1>21 DEF CorreoEnOrden
<1> QED
    BY <1>3, <1>4, <1>5, <1>6 DEF InvAvisos

(* A step that leaves the notices and the mail alone.                      *)
LEMMA SoloNarrador ==
    ASSUME InvAvisos, NEW n \in Narradores, NEW r \in TiposNarrador,
           narrador' = [narrador EXCEPT ![n] = r], averias' \in 0..MaxAverias,
           UNCHANGED <<creadas, leidas, enviadas, cartero, correo, salidas, falsas, descuidos>>,
           r.pc = "guardar" => \/ r.faltan = {}
                               \/ \E i \in DOMAIN Hechos : r.faltan = LoteDe(Hechos[i])
    PROVE  InvAvisos'
<1>1. FormaAvisos'
    <2>1. narrador' \in [Narradores -> TiposNarrador]
        BY DEF InvAvisos, FormaAvisos
    <2> QED
        BY <2>1 DEF InvAvisos, FormaAvisos, Existentes
<1>2. TodosONadie' /\ CorreoEnOrden'
    BY DEF InvAvisos, TodosONadie, CorreoEnOrden, Existentes
<1>3. \A m \in Narradores : GuardaEntero(m)'
    BY DEF InvAvisos, FormaAvisos, GuardaEntero
<1> QED
    BY <1>1, <1>2, <1>3 DEF InvAvisos

(* A step of the reader or of an administrator.                            *)
LEMMA SoloLectura ==
    ASSUME InvAvisos, leidas' \subseteq Existentes, correo' \in BOOLEAN,
           averias' \in 0..MaxAverias,
           UNCHANGED <<creadas, enviadas, narrador, cartero, salidas, falsas, descuidos>>
    PROVE  InvAvisos'
BY DEF InvAvisos, FormaAvisos, TodosONadie, CorreoEnOrden, GuardaEntero, Existentes

(* A fact is looked up: since each is known to all or to nobody, those     *)
(* still to be told are nobody or all.                                     *)
LEMMA AlBuscar ==
    ASSUME InvAvisos, NEW n \in Narradores, BuscarLasQueFaltan(n)
    PROVE  InvAvisos'
<1> DEFINE h == Hechos[narrador[n].i]
           f == {x \in Noticias : x[1] = h /\ x \notin Existentes}
           r == [narrador[n] EXCEPT !.pc = "guardar", !.faltan = f]
<1>1. narrador[n] \in TiposNarrador
    BY DEF InvAvisos, FormaAvisos
<1>2. narrador' = [narrador EXCEPT ![n] = r]
      /\ UNCHANGED <<creadas, leidas, enviadas, cartero, correo, salidas, falsas, descuidos, averias>>
    BY DEF BuscarLasQueFaltan
<1>3. f \in SUBSET Noticias
    OBVIOUS
<1>4. f = {} \/ \E i \in DOMAIN Hechos : f = LoteDe(Hechos[i])
    <2>1. CASE h \notin {Hechos[i] : i \in DOMAIN Hechos}
        BY <2>1 DEF Noticias
    <2>2. ASSUME NEW i \in DOMAIN Hechos, h = Hechos[i]
          PROVE  f = {} \/ f = LoteDe(Hechos[i])
        <3> DEFINE saben == {p \in Interesados : <<Hechos[i], p>> \in Existentes}
        <3>1. saben = {} \/ saben = Interesados
            BY DEF InvAvisos, TodosONadie
        <3>2. \A x \in LoteDe(Hechos[i]) : x[2] \in Interesados /\ x = <<Hechos[i], x[2]>>
            BY DEF LoteDe, Noticias
        <3>3. CASE saben = {}
            <4>1. \A x \in LoteDe(Hechos[i]) : x \notin Existentes
                BY <3>2, <3>3
            <4> QED
                BY <2>2, <4>1 DEF LoteDe
        <3>4. CASE saben = Interesados
            <4>1. \A x \in LoteDe(Hechos[i]) : x \in Existentes
                BY <3>2, <3>4
            <4> QED
                BY <2>2, <4>1 DEF LoteDe
        <3> QED
            BY <3>1, <3>3, <3>4
    <2> QED
        BY <2>1, <2>2
<1> HIDE DEF f
<1>5. r \in TiposNarrador /\ r.faltan = f
    BY <1>1, <1>3 DEF TiposNarrador
<1> HIDE DEF r
<1> QED
    BY <1>2, <1>4, <1>5, SoloNarrador DEF InvAvisos, FormaAvisos

(* The batch goes in whole.                                                *)
LEMMA AlGuardarElLote ==
    ASSUME InvAvisos, NEW n \in Narradores, NEW r \in TiposNarrador,
           r.pc # "guardar", narrador[n].pc = "guardar",
           narrador[n].faltan \cap Existentes = {},
           creadas' = creadas \o SetToSeq(narrador[n].faltan),
           narrador' = [narrador EXCEPT ![n] = r],
           UNCHANGED <<leidas, enviadas, cartero, correo, salidas, falsas, descuidos, averias>>
    PROVE  InvAvisos'
<1> DEFINE f == narrador[n].faltan  s == SetToSeq(f)
<1>1. f \subseteq Noticias /\ creadas \in Seq(Noticias)
    BY DEF InvAvisos, FormaAvisos, TiposNarrador
<1>2. IsFiniteSet(f)
    <2>1. CASE f = {}
        BY <2>1, FS_EmptySet
    <2>2. ASSUME NEW i \in DOMAIN Hechos, f = LoteDe(Hechos[i]) PROVE IsFiniteSet(f)
        <3>1. IsFiniteSet({Hechos[i]} \X Interesados)
            BY NoticesAssumption, FS_Singleton, FS_Product
        <3>2. f \in SUBSET ({Hechos[i]} \X Interesados)
            BY <2>2 DEF LoteDe, Noticias
        <3> QED
            BY <3>1, <3>2, FS_Subset
    <2> QED
        BY <2>1, <2>2 DEF InvAvisos, GuardaEntero
<1>3. s \in Seq(f) /\ IsInjective(s) /\ ToSet(s) = f
    BY <1>2, EnFila
<1>4. s \in Seq(Noticias)
    BY <1>1, <1>3
<1>5. IsInjective(creadas) /\ ToSet(creadas) \cap ToSet(s) = {}
    BY <1>3 DEF InvAvisos, TodosONadie, Existentes
<1>6. creadas' = creadas \o s /\ f = narrador[n].faltan
    OBVIOUS
<1> HIDE DEF f, s
<1>7. /\ creadas' \in Seq(Noticias) /\ IsInjective(creadas')
      /\ Existentes' = Existentes \cup f /\ DOMAIN creadas \subseteq DOMAIN creadas'
      /\ \A i \in DOMAIN creadas : creadas'[i] = creadas[i]
    BY <1>1, <1>3, <1>4, <1>5, <1>6, UnaTrasOtra DEF Existentes
<1>8. FormaAvisos'
    <2>1. narrador' \in [Narradores -> TiposNarrador]
        BY DEF InvAvisos, FormaAvisos
    <2> QED
        BY <1>7, <2>1 DEF InvAvisos, FormaAvisos
<1>9. TodosONadie'
    <2> SUFFICES ASSUME NEW i \in DOMAIN Hechos
                 PROVE  {p \in Interesados : <<Hechos[i], p>> \in Existentes'}
                            \in {{}, Interesados}
        BY <1>7 DEF TodosONadie
    <2>1. {p \in Interesados : <<Hechos[i], p>> \in Existentes} \in {{}, Interesados}
        BY DEF InvAvisos, TodosONadie
    <2>2. CASE f = {}
        BY <1>7, <2>1, <2>2
    <2>3. ASSUME NEW j \in DOMAIN Hechos, f = LoteDe(Hechos[j])
          PROVE  {p \in Interesados : <<Hechos[i], p>> \in Existentes'} \in {{}, Interesados}
        <3>1. \A p \in Interesados :
                 <<Hechos[i], p>> \in f <=> Hechos[i] = Hechos[j]
            BY <2>3 DEF LoteDe, Noticias
        <3>2. CASE Hechos[i] = Hechos[j]
            BY <1>7, <3>1, <3>2
        <3>3. CASE Hechos[i] # Hechos[j]
            BY <1>7, <2>1, <3>1, <3>3
        <3> QED
            BY <3>2, <3>3
    <2> QED
        BY <1>6, <2>2, <2>3 DEF InvAvisos, GuardaEntero
<1>10. \A m \in Narradores : GuardaEntero(m)'
    BY DEF InvAvisos, FormaAvisos, GuardaEntero
<1>11. CorreoEnOrden'
    <2>1. \A c \in Carteros : cartero[c].lista \subseteq DOMAIN creadas
        BY DEF InvAvisos, FormaAvisos
    <2> QED
        BY <1>7, <2>1 DEF InvAvisos, CorreoEnOrden
<1> QED
    BY <1>8, <1>9, <1>10, <1>11 DEF InvAvisos

(* A commit of a teller: the batch whole, or none of it.                   *)
LEMMA AlContar ==
    ASSUME InvAvisos, NEW n \in Narradores, notificar_a_varios(n)
    PROVE  InvAvisos'
<1> DEFINE p == narrador[n]
           r == IF p.i < Len(Hechos) THEN [pc |-> "buscar", i |-> p.i + 1, faltan |-> {}]
                ELSE NarradorLibre
<1>1. p \in TiposNarrador /\ averias \in 0..MaxAverias
    BY DEF InvAvisos, FormaAvisos
<1>2. NarradorLibre \in TiposNarrador /\ NarradorLibre.pc = "libre"
    BY DEF NarradorLibre, TiposNarrador
<1>3. r \in TiposNarrador /\ r.pc # "guardar"
    BY <1>1, <1>2 DEF TiposNarrador
<1>4. CASE /\ p.faltan \cap Existentes = {}
           /\ creadas' = creadas \o SetToSeq(p.faltan)
           /\ narrador' = [narrador EXCEPT ![n] = r]
    <2> HIDE DEF r
    <2> QED
        BY <1>3, <1>4, AlGuardarElLote DEF notificar_a_varios
<1>5. CASE narrador' = [narrador EXCEPT ![n] = NarradorLibre] /\ UNCHANGED creadas
    BY <1>1, <1>2, <1>5, SoloNarrador DEF notificar_a_varios
<1> QED
    BY <1>4, <1>5 DEF notificar_a_varios, LoteEntero

(* A pass lists: nobody else is sending, or it is noted.                   *)
LEMMA AlListar ==
    ASSUME InvAvisos, NEW c \in Carteros, ListarPendientes(c)
    PROVE  InvAvisos'
<1> DEFINE pend == {i \in DOMAIN creadas : PorEnviar(creadas[i])}
           l == LasPrimeras(pend, Limite)
           r == [pc |-> "enviar", marcar |-> {}, lista |-> l]
<1>1. l \subseteq DOMAIN creadas /\ \A i \in l : creadas[i] \notin enviadas
    BY DEF LasPrimeras, PorEnviar
<1>2. DOMAIN creadas \subseteq Nat
    BY DEF InvAvisos, FormaAvisos
<1>3. /\ cartero' = [cartero EXCEPT ![c] = r]
      /\ descuidos' = (descuidos \/ \E d \in Carteros : cartero[d].pc # "libre")
      /\ UNCHANGED <<creadas, leidas, enviadas, narrador, correo, salidas, falsas, averias>>
    BY DEF ListarPendientes
<1> HIDE DEF pend, l
<1>4. r \in TiposCartero /\ r.lista = l /\ r.marcar = {} /\ r.pc = "enviar"
    BY <1>1, <1>2 DEF TiposCartero
<1> HIDE DEF r
<1>5. FormaAvisos'
    <2>1. /\ cartero' \in [Carteros -> TiposCartero]
          /\ \A d \in Carteros : cartero'[d] = IF d = c THEN r ELSE cartero[d]
        BY <1>3, <1>4 DEF InvAvisos, FormaAvisos
    <2>2. descuidos' \in BOOLEAN
        BY <1>3
    <2>3. \A d \in Carteros : /\ cartero'[d].lista \subseteq DOMAIN creadas
                              /\ cartero'[d].marcar \subseteq Existentes
                              /\ cartero'[d].pc = "libre" => cartero'[d] = CarteroLibre
        BY <1>1, <1>4, <2>1 DEF InvAvisos, FormaAvisos
    <2> QED
        BY <1>3, <2>1, <2>2, <2>3 DEF InvAvisos, FormaAvisos, Existentes
<1>6. CorreoEnOrden'
    <2> SUFFICES ASSUME ~descuidos, \A d \in Carteros : cartero[d].pc = "libre"
                 PROVE  CorreoEnOrden'
        BY <1>3 DEF CorreoEnOrden
    <2>1. \A d \in Carteros : cartero[d].lista = {} /\ cartero[d].marcar = {}
        BY DEF InvAvisos, FormaAvisos, CarteroLibre
    <2>2. \A d \in Carteros : cartero'[d] = IF d = c THEN r ELSE cartero[d]
        BY <1>3 DEF InvAvisos, FormaAvisos
    <2> QED
        BY <1>1, <1>3, <1>4, <2>1, <2>2 DEF InvAvisos, CorreoEnOrden
<1>7. TodosONadie' /\ \A n \in Narradores : GuardaEntero(n)'
    BY <1>3 DEF InvAvisos, TodosONadie, GuardaEntero, Existentes
<1> QED
    BY <1>5, <1>6, <1>7 DEF InvAvisos

(* The next one of the list: marked or not, it is out of the list, and no  *)
(* other place holds the same notice.                                      *)
LEMMA AlEnviar ==
    ASSUME InvAvisos, NEW c \in Carteros, EnviarLaSiguiente(c)
    PROVE  InvAvisos'
<1> DEFINE i == Min(cartero[c].lista)
           x == creadas[i]
<1>1. /\ cartero[c] \in TiposCartero /\ cartero[c].lista \subseteq DOMAIN creadas
      /\ cartero[c].marcar \subseteq Existentes /\ creadas \in Seq(Noticias)
      /\ salidas \in [Noticias -> 0..MaxCorreos] /\ falsas \in [Noticias -> 0..MaxCorreos]
      /\ \A y \in Noticias : falsas[y] <= salidas[y]
    BY DEF InvAvisos, FormaAvisos
<1>2. i \in cartero[c].lista
    BY <1>1, ElMenor DEF EnviarLaSiguiente, TiposCartero
<1>3. x \in Existentes /\ x \in Noticias
    BY <1>1, <1>2 DEF Existentes, ToSet
<1>4. PICK m \in SUBSET Noticias, sale \in BOOLEAN, falsa \in BOOLEAN :
         /\ m = cartero[c].marcar \/ m = cartero[c].marcar \cup {x}
         /\ sale => salidas[x] < MaxCorreos
         /\ sale /\ ~falsa => m = cartero[c].marcar \cup {x}
         /\ falsa => sale /\ m = cartero[c].marcar
         /\ cartero' = [cartero EXCEPT ![c].lista = @ \ {i}, ![c].marcar = m]
         /\ salidas' = IF sale THEN [salidas EXCEPT ![x] = @ + 1] ELSE salidas
         /\ falsas' = IF falsa THEN [falsas EXCEPT ![x] = @ + 1] ELSE falsas
    <2>0. cartero' = [cartero EXCEPT ![c].lista = @ \ {i}]
             => cartero' = [cartero EXCEPT ![c].lista = @ \ {i},
                                           ![c].marcar = cartero[c].marcar]
        BY <1>1 DEF InvAvisos, FormaAvisos, TiposCartero
    <2>1. CASE /\ cartero' = [cartero EXCEPT ![c].lista = @ \ {i},
                                             ![c].marcar = cartero[c].marcar \cup {x}]
               /\ UNCHANGED <<salidas, falsas>>
        BY <1>1, <1>3, <2>1 DEF TiposCartero
    <2>2. CASE /\ salidas[x] < MaxCorreos /\ salidas' = [salidas EXCEPT ![x] = @ + 1]
               /\ cartero' = [cartero EXCEPT ![c].lista = @ \ {i},
                                             ![c].marcar = cartero[c].marcar \cup {x}]
               /\ UNCHANGED falsas
        BY <1>1, <1>3, <2>2 DEF TiposCartero
    <2>3. CASE cartero' = [cartero EXCEPT ![c].lista = @ \ {i}]
               /\ UNCHANGED <<salidas, falsas>>
        BY <1>1, <2>0, <2>3 DEF TiposCartero
    <2>4. CASE /\ salidas[x] < MaxCorreos /\ salidas' = [salidas EXCEPT ![x] = @ + 1]
               /\ cartero' = [cartero EXCEPT ![c].lista = @ \ {i}]
               /\ falsas' = [falsas EXCEPT ![x] = @ + 1]
        BY <1>1, <2>0, <2>4 DEF TiposCartero
    <2> QED
        BY <2>1, <2>2, <2>3, <2>4 DEF EnviarLaSiguiente, Marcadas
<1>5. /\ cartero[c].pc = "enviar"
      /\ UNCHANGED <<creadas, leidas, enviadas, narrador, correo, descuidos, averias>>
    BY DEF EnviarLaSiguiente
<1>6. x = creadas[i]
    OBVIOUS
<1> HIDE DEF i, x
<1>7. /\ cartero' \in [Carteros -> TiposCartero]
      /\ cartero'[c].lista = cartero[c].lista \ {i} /\ cartero'[c].marcar = m
      /\ cartero'[c].pc = "enviar"
      /\ \A d \in Carteros \ {c} : cartero'[d] = cartero[d]
    BY <1>1, <1>4, <1>5 DEF InvAvisos, FormaAvisos, TiposCartero
<1>8. /\ salidas' \in [Noticias -> 0..MaxCorreos] /\ falsas' \in [Noticias -> 0..MaxCorreos]
      /\ \A y \in Noticias :
            /\ salidas'[y] = IF sale /\ y = x THEN salidas[x] + 1 ELSE salidas[y]
            /\ falsas'[y] = IF falsa /\ y = x THEN falsas[x] + 1 ELSE falsas[y]
    <2>1. sale => salidas[x] + 1 \in 0..MaxCorreos
        BY <1>1, <1>3, <1>4, NoticesAssumption
    <2>2. falsa => falsas[x] + 1 \in 0..MaxCorreos
        BY <1>1, <1>3, <1>4, NoticesAssumption
    <2>3. /\ salidas' \in [Noticias -> 0..MaxCorreos]
          /\ \A y \in Noticias : salidas'[y] = IF sale /\ y = x THEN salidas[x] + 1 ELSE salidas[y]
        <3>1. CASE sale
            BY <1>1, <1>4, <2>1, <3>1
        <3>2. CASE ~sale
            BY <1>1, <1>4, <3>2
        <3> QED
            BY <3>1, <3>2
    <2>4. /\ falsas' \in [Noticias -> 0..MaxCorreos]
          /\ \A y \in Noticias : falsas'[y] = IF falsa /\ y = x THEN falsas[x] + 1 ELSE falsas[y]
        <3>1. CASE falsa
            BY <1>1, <1>4, <2>2, <3>1
        <3>2. CASE ~falsa
            BY <1>1, <1>4, <3>2
        <3> QED
            BY <3>1, <3>2
    <2> QED
        BY <2>3, <2>4
<1>80. \A y \in Noticias : falsas'[y] <= salidas'[y]
    <2>1. \A y \in Noticias : falsas[y] \in Nat /\ salidas[y] \in Nat
        BY <1>1, NoticesAssumption
    <2> QED
        BY <1>1, <1>3, <1>4, <1>8, <2>1
<1>9. FormaAvisos'
    <2>1. \A d \in Carteros : /\ cartero'[d].lista \subseteq DOMAIN creadas
                              /\ cartero'[d].marcar \subseteq Existentes
                              /\ cartero'[d].pc = "libre" => cartero'[d] = CarteroLibre
        BY <1>1, <1>3, <1>4, <1>7 DEF InvAvisos, FormaAvisos
    <2> QED
        BY <1>5, <1>7, <1>8, <1>80, <2>1 DEF InvAvisos, FormaAvisos, Existentes
<1>10. CorreoEnOrden'
    <2> SUFFICES ASSUME ~descuidos PROVE CorreoEnOrden'
        BY <1>5 DEF CorreoEnOrden
    <2>1. \A d \in Carteros \ {c} : cartero[d].lista = {} /\ cartero[d].marcar = {}
                                    /\ cartero[d].pc = "libre"
        BY <1>5 DEF InvAvisos, FormaAvisos, CorreoEnOrden, CarteroLibre
    <2>2. \A j \in cartero[c].lista \ {i} : creadas[j] # x
        BY <1>1, <1>2, <1>6 DEF InvAvisos, TodosONadie, IsInjective
    <2>3. \A j \in cartero[c].lista : creadas[j] \notin enviadas \cup cartero[c].marcar
        BY DEF InvAvisos, CorreoEnOrden
    <2>4. \A d \in Carteros : \A j \in cartero'[d].lista :
             creadas[j] \notin enviadas \cup cartero'[d].marcar
        BY <1>4, <1>7, <2>1, <2>2, <2>3
    <2>5. salidas[x] = falsas[x] /\ salidas[x] \in Nat
        BY <1>1, <1>2, <1>3, <1>6, <2>1, <2>3, NoticesAssumption DEF InvAvisos, CorreoEnOrden
    <2>6. \A y \in Noticias : salidas'[y] # falsas'[y] =>
             /\ salidas'[y] = falsas'[y] + 1
             /\ y \in enviadas \/ \E d \in Carteros : y \in cartero'[d].marcar
        <3> SUFFICES ASSUME NEW y \in Noticias, salidas'[y] # falsas'[y]
                     PROVE  /\ salidas'[y] = falsas'[y] + 1
                            /\ y \in enviadas \/ \E d \in Carteros : y \in cartero'[d].marcar
            OBVIOUS
        <3>1. CASE sale /\ y = x
            <4>1. ~falsa
                BY <1>8, <2>5, <3>1
            <4> QED
                BY <1>4, <1>7, <1>8, <2>5, <3>1, <4>1
        <3>2. CASE ~(sale /\ y = x)
            <4>0. salidas'[y] = salidas[y] /\ falsas'[y] = falsas[y]
                BY <1>4, <1>8, <3>2
            <4>1. salidas[y] = falsas[y] + 1
                  /\ (y \in enviadas \/ \E d \in Carteros : y \in cartero[d].marcar)
                BY <4>0 DEF InvAvisos, CorreoEnOrden
            <4> QED
                BY <1>4, <1>7, <2>1, <4>0, <4>1
        <3> QED
            BY <3>1, <3>2
    <2> QED
        BY <1>5, <1>7, <2>1, <2>4, <2>6 DEF CorreoEnOrden
<1>11. TodosONadie' /\ \A n \in Narradores : GuardaEntero(n)'
    BY <1>5 DEF InvAvisos, TodosONadie, GuardaEntero, Existentes
<1> QED
    BY <1>9, <1>10, <1>11 DEF InvAvisos

(* A pass ends, marks committed, or dies.                                  *)
LEMMA AlCerrarElPase ==
    ASSUME InvAvisos, NEW c \in Carteros, CerrarElPase(c) \/ MorirEnviando(c)
    PROVE  InvAvisos'
<1>1. /\ cartero' = [cartero EXCEPT ![c] = CarteroLibre]
      /\ UNCHANGED <<creadas, leidas, narrador, correo, salidas, falsas>>
    BY DEF CerrarElPase, MorirEnviando
<1>2. \/ /\ enviadas' = enviadas \cup cartero[c].marcar
         /\ UNCHANGED <<descuidos, averias>>
      \/ /\ descuidos' = TRUE /\ UNCHANGED enviadas
         /\ averias' \in 0..MaxAverias
    <2>1. CASE CerrarElPase(c)
        BY <2>1 DEF CerrarElPase
    <2>2. CASE MorirEnviando(c)
        <3>1. averias \in 0..MaxAverias /\ MaxAverias \in Nat
            BY NoticesAssumption DEF InvAvisos, FormaAvisos
        <3>2. averias' = averias + 1 /\ averias < MaxAverias
            BY <2>2 DEF MorirEnviando, Averia
        <3>3. averias' \in 0..MaxAverias
            BY ONLY <3>1, <3>2
        <3>4. descuidos' = TRUE /\ UNCHANGED enviadas
            BY <2>2 DEF MorirEnviando
        <3> QED
            BY ONLY <3>3, <3>4
    <2> QED
        BY <2>1, <2>2
<1>3. CarteroLibre \in TiposCartero /\ CarteroLibre.lista = {} /\ CarteroLibre.marcar = {}
      /\ CarteroLibre.pc = "libre"
    BY DEF CarteroLibre, TiposCartero
<1>4. /\ cartero' \in [Carteros -> TiposCartero]
      /\ \A d \in Carteros : cartero'[d] = IF d = c THEN CarteroLibre ELSE cartero[d]
    BY <1>1, <1>3 DEF InvAvisos, FormaAvisos
<1>5. FormaAvisos'
    BY <1>1, <1>2, <1>3, <1>4 DEF InvAvisos, FormaAvisos, Existentes
<1>6. CorreoEnOrden'
    <2> SUFFICES ASSUME ~descuidos, UNCHANGED descuidos,
                        enviadas' = enviadas \cup cartero[c].marcar, cartero[c].pc = "enviar"
                 PROVE  CorreoEnOrden'
        BY <1>2 DEF CorreoEnOrden, CerrarElPase, MorirEnviando
    <2>1. \A d \in Carteros \ {c} : cartero[d].lista = {} /\ cartero[d].marcar = {}
        BY DEF InvAvisos, FormaAvisos, CorreoEnOrden, CarteroLibre
    <2> QED
        BY <1>1, <1>3, <1>4, <2>1 DEF InvAvisos, CorreoEnOrden
<1>7. TodosONadie' /\ \A n \in Narradores : GuardaEntero(n)'
    BY <1>1 DEF InvAvisos, TodosONadie, GuardaEntero, Existentes
<1> QED
    BY <1>5, <1>6, <1>7 DEF InvAvisos

(* Every step keeps the invariant.                                         *)
LEMMA AvisosPaso == InvAvisos /\ [NextAvisos]_varsAvisos => InvAvisos'
<1> SUFFICES ASSUME InvAvisos, [NextAvisos]_varsAvisos PROVE InvAvisos'
    OBVIOUS
<1>0. /\ leidas \subseteq Existentes /\ correo \in BOOLEAN /\ averias \in 0..MaxAverias
      /\ \A n \in Narradores : narrador[n] \in TiposNarrador
    BY DEF InvAvisos, FormaAvisos
<1>00. Averia => averias' \in 0..MaxAverias
    BY <1>0, NoticesAssumption DEF Averia
<1>1. ASSUME NEW n \in Narradores, EmpezarAContar(n) PROVE InvAvisos'
    <2> DEFINE r == [NarradorLibre EXCEPT !.pc = "buscar"]
    <2>1. r \in TiposNarrador /\ r.pc # "guardar"
        BY DEF NarradorLibre, TiposNarrador
    <2>2. narrador' = [narrador EXCEPT ![n] = r]
        BY <1>1 DEF EmpezarAContar
    <2> HIDE DEF r
    <2> QED
        BY <1>0, <1>1, <2>1, <2>2, SoloNarrador DEF EmpezarAContar
<1>2. ASSUME NEW n \in Narradores, BuscarLasQueFaltan(n) PROVE InvAvisos'
    BY <1>2, AlBuscar
<1>3. ASSUME NEW n \in Narradores, notificar_a_varios(n) PROVE InvAvisos'
    BY <1>3, AlContar
<1>4. ASSUME NEW n \in Narradores, MorirContando(n) PROVE InvAvisos'
    <2>1. NarradorLibre \in TiposNarrador /\ NarradorLibre.pc # "guardar"
        BY DEF NarradorLibre, TiposNarrador
    <2> QED
        BY <1>00, <1>4, <2>1, SoloNarrador DEF MorirContando
<1>5. ASSUME NEW x \in Noticias, marcar_leida(x) PROVE InvAvisos'
    BY <1>0, <1>5, SoloLectura DEF marcar_leida
<1>6. ASSUME NEW p \in Interesados, marcar_todas_leidas(p) PROVE InvAvisos'
    BY <1>0, <1>6, SoloLectura DEF marcar_todas_leidas
<1>7. CASE ConmutarCorreo
    BY <1>0, <1>00, <1>7, SoloLectura DEF ConmutarCorreo
<1>8. ASSUME NEW c \in Carteros,
             \/ ListarPendientes(c) \/ EnviarLaSiguiente(c) \/ CerrarElPase(c)
             \/ MorirEnviando(c)
      PROVE  InvAvisos'
    BY <1>8, AlListar, AlEnviar, AlCerrarElPase
<1>9. CASE UNCHANGED varsAvisos
    BY <1>0, <1>9, SoloLectura DEF varsAvisos
<1> QED
    BY <1>1, <1>2, <1>3, <1>4, <1>5, <1>6, <1>7, <1>8, <1>9 DEF NextAvisos

(* The invariant holds of every behaviour.                                 *)
LEMMA SiempreInvAvisos == SpecAvisos => []InvAvisos
BY AvisosAlPrincipio, AvisosPaso, PTL DEF SpecAvisos

(* The notices, the tellers and the passes never leave their types.        *)
THEOREM TiposDeAvisos == SpecAvisos => []TipoAvisos
<1>1. InvAvisos => TipoAvisos
    <2> SUFFICES ASSUME InvAvisos PROVE TipoAvisos
        OBVIOUS
    <2>1. Existentes \subseteq Noticias
        BY DEF InvAvisos, FormaAvisos, Existentes, ToSet
    <2>2. \A n \in Narradores : narrador[n].faltan \subseteq Noticias
        BY DEF InvAvisos, FormaAvisos, TiposNarrador
    <2> QED
        BY <2>1, <2>2 DEF InvAvisos, FormaAvisos, TipoAvisos
<1> QED
    BY <1>1, SiempreInvAvisos, PTL

(* However many processes tell the facts, mail them or die: a fact is      *)
(* known to everyone on the trip or to nobody, to nobody twice, and unless *)
(* a pass died or two of them overlapped no notice is mailed again but for *)
(* the times it left and the send raised.                                  *)
THEOREM SiempreAvisosEnteros == SpecAvisos => []AvisosEnteros
<1>1. InvAvisos => AvisosEnteros
    <2> SUFFICES ASSUME InvAvisos PROVE AvisosEnteros
        OBVIOUS
    <2>1. ASSUME ~descuidos, NEW x \in Noticias PROVE salidas[x] <= falsas[x] + 1
        <3>1. salidas[x] \in Nat /\ falsas[x] \in Nat
            BY NoticesAssumption DEF InvAvisos, FormaAvisos
        <3>2. salidas[x] # falsas[x] => salidas[x] = falsas[x] + 1
            BY <2>1 DEF InvAvisos, CorreoEnOrden
        <3> QED
            BY <3>1, <3>2
    <2>2. UnSoloCorreo
        BY <2>1 DEF UnSoloCorreo
    <2> QED
        BY <2>2 DEF InvAvisos, AvisosEnteros
<1> QED
    BY <1>1, SiempreInvAvisos, PTL

-----------------------------------------------------------------------------
(***************************************************************************)
(* Recommendations.  What a generation holds uncommitted and what it has   *)
(* written are taken together: between them they speak of every            *)
(* destination behind it and of none ahead, whoever else writes meanwhile. *)
(***************************************************************************)
Cita == Fuentes \X (1..MaxVersion)
Fusion == [r : Recomendaciones, fuentes : SUBSET Cita, dice : SUBSET Destinos]
FilasNuevas == UNION {[S -> EscritasPosibles] : S \in SUBSET Recomendaciones}
TiposGenerador ==
    [pc : {"libre", "fuentes", "modelo"}, ronda : 0..MaxRondas, i : 1..(Len(Ruta) + 1),
     retirar : SUBSET Recomendaciones, oidas : SUBSET Cita, nuevas : FilasNuevas,
     fundidas : SUBSET Fusion]

FormaFuentes ==
    /\ pagina \in [Fuentes -> 1..MaxVersion]
    /\ lista \in [Fuentes -> {"activa", "inactiva", "borrada"}]
    /\ cacheada \in [Fuentes -> 0..MaxVersion]
    /\ consultada \subseteq Fuentes
    /\ vigia \in [pc : {"libre", "avisar", "regenerar"}, urls : SUBSET Fuentes,
                  leido : SUBSET Cita]
    /\ avisos \subseteq SUBSET Fuentes
    /\ contados \subseteq Cita /\ detectados \subseteq Cita

FormaFilas ==
    /\ escritas \in [Recomendaciones -> EscritasPosibles]
    /\ generacion \in [Generadores -> TiposGenerador]
    /\ rondas \in 0..MaxRondas
    /\ aLaVez \in BOOLEAN

(* Generation p has been at destination d.                                 *)
Visitado(p, d) == \E k \in 1..(p.i - 1) : d = Ruta[k]

(* It speaks of d, in the rows e or in what it has yet to commit.          *)
Dicho(p, e, d) ==
    \E r \in Recomendaciones :
       /\ r[1] = p.ronda
       /\ \/ d \in e[r].dice
          \/ r \in DOMAIN p.nuevas /\ d \in p.nuevas[r].dice
          \/ \E y \in p.fundidas : y.r = r /\ d \in y.dice

(* Generation p, over the rows e, when n have begun.                       *)
Recorre(p, e, n) ==
    p.pc # "libre" =>
       /\ p.ronda \in 1..n
       /\ p.pc = "modelo" => p.i <= Len(Ruta)
       /\ \A r \in Recomendaciones :
             r[1] = p.ronda /\ e[r] # SinEscribir => Visitado(p, r[2])
       /\ \A r \in DOMAIN p.nuevas :
             /\ r[1] = p.ronda /\ Visitado(p, r[2])
             /\ e[r] = SinEscribir /\ \A y \in p.fundidas : y.r # r
       /\ \A y \in p.fundidas : y.r[1] = p.ronda /\ Visitado(p, y.r[2])
       /\ \A j \in 1..(p.i - 1) : Dicho(p, e, Ruta[j])

SinEstrenar == \A r \in Recomendaciones : r[1] > rondas => escritas[r] = SinEscribir

RondasDistintas ==
    \A g, h \in Generadores :
       g # h /\ generacion[g].pc # "libre" /\ generacion[h].pc # "libre" =>
          generacion[g].ronda # generacion[h].ronda

(* While none has overlapped another: what is live is of one generation or *)
(* was written by hand since it began, and what is not of the one under    *)
(* way, nor written since, it will withdraw.                               *)
DeUnaEnUna ==
    ~aLaVez =>
       /\ \A g, h \in Generadores :
             g # h => generacion[g].pc = "libre" \/ generacion[h].pc = "libre"
       /\ \A r, s \in Vivas \cap Generadas : r[1] = s[1]
       /\ \A r \in Vivas \cap Generadas, m \in Vivas \cap AMano : m[2] >= r[1]
       /\ \A g \in Generadores : generacion[g].pc # "libre" =>
             \A r \in Vivas :
                \/ r \in generacion[g].retirar
                \/ r \in Generadas /\ r[1] = generacion[g].ronda
                \/ r \in AMano /\ r[2] >= generacion[g].ronda

InvFilas ==
    /\ FormaFilas
    /\ \A g \in Generadores : Recorre(generacion[g], escritas, rondas)
    /\ SinEstrenar /\ RondasDistintas /\ DeUnaEnUna

(* The number of a generation, the blank row, the idle generator.          *)
LEMMA CosasDeFilas ==
    /\ \A r \in Recomendaciones : r[1] \in 0..MaxRondas
    /\ \A m \in AMano : m[2] \in 0..MaxRondas
    /\ Generadas \subseteq Recomendaciones /\ AMano \subseteq Recomendaciones
    /\ \A r \in Recomendaciones : r \in Generadas \/ r \in AMano
    /\ SinEscribir \in EscritasPosibles /\ ~SinEscribir.viva
    /\ Parado \in TiposGenerador /\ Parado.pc = "libre"
    /\ Len(Ruta) \in Nat \ {0} /\ DOMAIN Ruta = 1..Len(Ruta)
<1>1. /\ \A r \in Recomendaciones : r[1] \in 0..MaxRondas
      /\ \A m \in AMano : m[2] \in 0..MaxRondas
      /\ Generadas \subseteq Recomendaciones /\ AMano \subseteq Recomendaciones
      /\ \A r \in Recomendaciones : r \in Generadas \/ r \in AMano
    BY AdvisoriesAssumption DEF Recomendaciones, Generadas, AMano
<1>2. SinEscribir \in EscritasPosibles /\ ~SinEscribir.viva
    BY DEF SinEscribir, EscritasPosibles, AdvisoryValidationState
<1>3. Len(Ruta) \in Nat \ {0} /\ DOMAIN Ruta = 1..Len(Ruta)
    BY AdvisoriesAssumption
<1>4. <<>> \in FilasNuevas
    <2>1. <<>> \in [{} -> EscritasPosibles]
        OBVIOUS
    <2> QED
        BY <2>1 DEF FilasNuevas
<1>5. Parado \in TiposGenerador /\ Parado.pc = "libre"
    BY <1>3, <1>4, AdvisoriesAssumption DEF Parado, TiposGenerador
<1> QED
    BY <1>1, <1>2, <1>3, <1>5

(* A row a generation has yet to commit.                                   *)
LEMMA FilaNueva ==
    ASSUME NEW f \in FilasNuevas
    PROVE  DOMAIN f \subseteq Recomendaciones /\ \A r \in DOMAIN f : f[r] \in EscritasPosibles
BY DEF FilasNuevas

(* Somebody else's writing: blank rows of this generation stay blank, and  *)
(* no row of it speaks of less.                                            *)
LEMMA OtraMano ==
    ASSUME NEW p, NEW e, NEW f, NEW n \in Nat, NEW m \in Nat, n <= m, Recorre(p, e, n),
           \A r \in Recomendaciones : r[1] = p.ronda =>
              /\ e[r] = SinEscribir => f[r] = SinEscribir
              /\ e[r].dice \subseteq f[r].dice,
           DOMAIN p.nuevas \subseteq Recomendaciones
    PROVE  Recorre(p, f, m)
<1> SUFFICES ASSUME p.pc # "libre" PROVE Recorre(p, f, m)
    BY DEF Recorre
<1>1. p.ronda \in 1..n
    BY DEF Recorre
<1>2. p.ronda \in 1..m
    BY <1>1
<1>3. \A j \in 1..(p.i - 1) : Dicho(p, f, Ruta[j])
    <2> TAKE j \in 1..(p.i - 1)
    <2>1. Dicho(p, e, Ruta[j])
        BY DEF Recorre
    <2> QED
        BY <2>1 DEF Dicho
<1> QED
    BY <1>2, <1>3 DEF Recorre

(* What a commit writes, row by row.                                       *)
LEMMA LoVolcado ==
    ASSUME FormaFilas, NEW p \in TiposGenerador
    PROVE  /\ Volcada(p) \in [Recomendaciones -> EscritasPosibles]
           /\ \A r \in DOMAIN p.nuevas : Volcada(p)[r] = p.nuevas[r]
           /\ \A r \in Recomendaciones \ DOMAIN p.nuevas :
                 /\ Volcada(p)[r].viva => escritas[r].viva /\ r \notin p.retirar
                 /\ escritas[r].dice \subseteq Volcada(p)[r].dice
                 /\ \A y \in p.fundidas : y.r = r => y.dice \subseteq Volcada(p)[r].dice
                 /\ escritas[r] = SinEscribir /\ (\A y \in p.fundidas : y.r # r)
                       => Volcada(p)[r] = SinEscribir
<1>1. /\ p.nuevas \in FilasNuevas /\ p.fundidas \subseteq Fusion
      /\ escritas \in [Recomendaciones -> EscritasPosibles]
    BY DEF FormaFilas, TiposGenerador
<1>2. DOMAIN p.nuevas \subseteq Recomendaciones
      /\ \A r \in DOMAIN p.nuevas : p.nuevas[r] \in EscritasPosibles
    BY <1>1, FilaNueva
<1> DEFINE V == [r \in Recomendaciones |->
               escritas[r].viva /\ r \notin p.retirar]
           F == [r \in Recomendaciones |->
               escritas[r].fuentes \cup UNION {x.fuentes : x \in {y \in p.fundidas : y.r = r}}]
           D == [r \in Recomendaciones |->
               escritas[r].dice \cup UNION {x.dice : x \in {y \in p.fundidas : y.r = r}}]
           W(r) == [escritas[r] EXCEPT !.viva = V[r], !.fuentes = F[r], !.dice = D[r]]
<1>3. ASSUME NEW r \in Recomendaciones
      PROVE  V[r] \in BOOLEAN /\ F[r] \in SUBSET Cita /\ D[r] \in SUBSET Destinos
    BY <1>1 DEF EscritasPosibles, Fusion, Cita
<1>4. ASSUME NEW r \in Recomendaciones
      PROVE  Volcada(p)[r] = IF r \in DOMAIN p.nuevas THEN p.nuevas[r] ELSE W(r)
    BY DEF Volcada
<1>5. Volcada(p) = [r \in Recomendaciones |-> Volcada(p)[r]]
    BY DEF Volcada
<1>6. ASSUME NEW r \in Recomendaciones \ DOMAIN p.nuevas
      PROVE  /\ V[r] => escritas[r].viva /\ r \notin p.retirar
             /\ escritas[r].dice \subseteq D[r]
             /\ \A y \in p.fundidas : y.r = r => y.dice \subseteq D[r]
    OBVIOUS
<1>7. ASSUME NEW r \in Recomendaciones, escritas[r] = SinEscribir,
             \A y \in p.fundidas : y.r # r
      PROVE  ~V[r] /\ F[r] = {} /\ D[r] = {}
    <2>1. {y \in p.fundidas : y.r = r} = {}
        BY <1>7
    <2>2. ~escritas[r].viva /\ escritas[r].fuentes = {} /\ escritas[r].dice = {}
        BY <1>7 DEF SinEscribir
    <2> QED
        BY <2>1, <2>2
<1> HIDE DEF V, F, D
<1>8. ASSUME NEW r \in Recomendaciones
      PROVE  /\ W(r) \in EscritasPosibles
             /\ W(r).viva = V[r] /\ W(r).fuentes = F[r] /\ W(r).dice = D[r]
             /\ W(r).estado = escritas[r].estado
    BY <1>1, <1>3 DEF EscritasPosibles, Cita
<1>9. ASSUME NEW r \in Recomendaciones \ DOMAIN p.nuevas, escritas[r] = SinEscribir,
             \A y \in p.fundidas : y.r # r
      PROVE  W(r) = SinEscribir
    <2>1. V[r] = FALSE /\ F[r] = {} /\ D[r] = {}
        BY <1>3, <1>7, <1>9
    <2>2. W(r) = [viva |-> W(r).viva, estado |-> W(r).estado, fuentes |-> W(r).fuentes,
                  dice |-> W(r).dice]
        <3>1. W(r) \in EscritasPosibles
            BY <1>8
        <3> HIDE DEF W
        <3> QED
            BY <3>1 DEF EscritasPosibles
    <2>3. W(r).viva = FALSE /\ W(r).fuentes = {} /\ W(r).dice = {}
          /\ W(r).estado = "VALIDADA"
        <3>1. escritas[r].estado = "VALIDADA"
            BY <1>9 DEF SinEscribir
        <3> HIDE DEF W
        <3> QED
            BY <1>8, <2>1, <3>1
    <2> HIDE DEF W
    <2> QED
        BY <2>2, <2>3 DEF SinEscribir
<1> HIDE DEF W
<1> QED
    BY <1>2, <1>4, <1>5, <1>6, <1>8, <1>9

(* A commit loses nothing of what the generation spoke of.                 *)
LEMMA AlVolcar ==
    ASSUME FormaFilas, NEW p \in TiposGenerador, Recorre(p, escritas, rondas)
    PROVE  /\ Limpia(p) \in TiposGenerador /\ Recorre(Limpia(p), Volcada(p), rondas)
           /\ Limpia(p).nuevas = <<>> /\ Limpia(p).retirar = {} /\ Limpia(p).fundidas = {}
           /\ Limpia(p).pc = p.pc /\ Limpia(p).i = p.i /\ Limpia(p).ronda = p.ronda
           /\ Limpia(p).oidas = p.oidas
<1> DEFINE q == Limpia(p)
           f == Volcada(p)
<1>1. <<>> \in FilasNuevas
    BY CosasDeFilas DEF Parado, TiposGenerador
<1>2. /\ q \in TiposGenerador /\ q.nuevas = <<>> /\ q.retirar = {} /\ q.fundidas = {}
      /\ q.pc = p.pc /\ q.i = p.i /\ q.ronda = p.ronda /\ q.oidas = p.oidas
    BY <1>1 DEF Limpia, TiposGenerador
<1>3. DOMAIN p.nuevas \subseteq Recomendaciones
    BY FilaNueva DEF TiposGenerador
<1>4. p.fundidas \subseteq Fusion
    BY DEF TiposGenerador
<1> HIDE DEF q, f
<1>5. Recorre(q, f, rondas)
    <2> SUFFICES ASSUME p.pc # "libre" PROVE Recorre(q, f, rondas)
        BY <1>2 DEF Recorre
    <2>1. ASSUME NEW r \in Recomendaciones, r[1] = p.ronda, f[r] # SinEscribir
          PROVE  Visitado(q, r[2])
        <3>1. Visitado(p, r[2])
            BY <2>1, LoVolcado DEF Recorre, f
        <3> QED
            BY <1>2, <3>1 DEF Visitado
    <2>2. ASSUME NEW j \in 1..(p.i - 1) PROVE Dicho(q, f, Ruta[j])
        <3>1. PICK r \in Recomendaciones :
                 /\ r[1] = p.ronda
                 /\ \/ Ruta[j] \in escritas[r].dice
                    \/ r \in DOMAIN p.nuevas /\ Ruta[j] \in p.nuevas[r].dice
                    \/ \E y \in p.fundidas : y.r = r /\ Ruta[j] \in y.dice
            BY DEF Recorre, Dicho
        <3>2. Ruta[j] \in f[r].dice
            <4>1. CASE r \in DOMAIN p.nuevas
                <5>1. escritas[r] = SinEscribir /\ \A y \in p.fundidas : y.r # r
                    BY <4>1 DEF Recorre
                <5>2. Ruta[j] \in p.nuevas[r].dice
                    BY <3>1, <5>1 DEF SinEscribir
                <5> QED
                    BY <4>1, <5>2, LoVolcado DEF f
            <4>2. CASE r \notin DOMAIN p.nuevas
                <5>1. /\ escritas[r].dice \subseteq f[r].dice
                      /\ \A y \in p.fundidas : y.r = r => y.dice \subseteq f[r].dice
                    BY <4>2, LoVolcado DEF f
                <5> QED
                    BY <3>1, <4>2, <5>1
            <4> QED
                BY <4>1, <4>2
        <3> QED
            BY <1>2, <3>1, <3>2 DEF Dicho
    <2> QED
        BY <1>2, <2>1, <2>2 DEF Recorre
<1> QED
    BY <1>2, <1>5 DEF q, f

(* The row of a destination, still to commit: the one ahead is behind.     *)
LEMMA AlPonerFila ==
    ASSUME NEW p \in TiposGenerador, NEW e, NEW n \in Nat, Recorre(p, e, n),
           p.pc # "libre", p.i <= Len(Ruta), n <= MaxRondas,
           NEW estado \in AdvisoryValidationState, NEW citas \in SUBSET Cita
    PROVE  /\ ConFila(p, <<p.ronda, Ruta[p.i]>>, estado, citas) \in TiposGenerador
           /\ Recorre(ConFila(p, <<p.ronda, Ruta[p.i]>>, estado, citas), e, n)
           /\ ConFila(p, <<p.ronda, Ruta[p.i]>>, estado, citas).retirar = p.retirar
           /\ ConFila(p, <<p.ronda, Ruta[p.i]>>, estado, citas).ronda = p.ronda
           /\ ConFila(p, <<p.ronda, Ruta[p.i]>>, estado, citas).pc = "fuentes"
<1> DEFINE r0 == <<p.ronda, Ruta[p.i]>>
           q == ConFila(p, r0, estado, citas)
           F == [viva |-> TRUE, estado |-> estado, fuentes |-> citas, dice |-> {Ruta[p.i]}]
           N == [x \in DOMAIN p.nuevas \cup {r0} |-> IF x = r0 THEN F ELSE p.nuevas[x]]
<1>1. /\ p.i \in 1..Len(Ruta) /\ p.ronda \in 1..n /\ p.ronda \in 1..MaxRondas
      /\ p.nuevas \in FilasNuevas /\ p.fundidas \subseteq Fusion
    BY CosasDeFilas, AdvisoriesAssumption DEF TiposGenerador, Recorre
<1>2. r0 \in Recomendaciones /\ Ruta[p.i] \in Destinos
    BY <1>1, CosasDeFilas DEF Recomendaciones, Destinos
<1>3. DOMAIN p.nuevas \subseteq Recomendaciones
      /\ \A r \in DOMAIN p.nuevas : p.nuevas[r] \in EscritasPosibles
    BY <1>1, FilaNueva
<1>4. F \in EscritasPosibles
    BY <1>2 DEF EscritasPosibles, Cita
<1>5. N \in FilasNuevas
    <2>1. N \in [DOMAIN p.nuevas \cup {r0} -> EscritasPosibles]
        BY <1>3, <1>4
    <2>2. DOMAIN p.nuevas \cup {r0} \in SUBSET Recomendaciones
        BY <1>2, <1>3
    <2> HIDE DEF N, r0, F
    <2> QED
        BY <2>1, <2>2 DEF FilasNuevas
<1>6. q = [p EXCEPT !.i = p.i + 1, !.pc = "fuentes", !.oidas = {}, !.nuevas = N]
    BY DEF ConFila, TiposGenerador
<1>7. ~Visitado(p, Ruta[p.i])
    BY <1>1, AdvisoriesAssumption DEF Visitado
<1>8. /\ e[r0] = SinEscribir /\ r0 \notin DOMAIN p.nuevas
      /\ \A y \in p.fundidas : y.r # r0
    BY <1>2, <1>7 DEF Recorre
<1>9. /\ DOMAIN N = DOMAIN p.nuevas \cup {r0}
      /\ \A x \in DOMAIN p.nuevas : N[x] = p.nuevas[x]
      /\ N[r0].dice = {Ruta[p.i]}
    BY <1>8
<1>10. r0[1] = p.ronda /\ r0[2] = Ruta[p.i]
    OBVIOUS
<1> HIDE DEF N, F, r0
<1>11. /\ q.pc = "fuentes" /\ q.ronda = p.ronda /\ q.i = p.i + 1 /\ q.nuevas = N
       /\ q.fundidas = p.fundidas /\ q.retirar = p.retirar
    BY <1>6 DEF TiposGenerador
<1>12. q \in TiposGenerador
    <2>1. p.i + 1 \in 1..(Len(Ruta) + 1)
        BY <1>1, CosasDeFilas
    <2> HIDE DEF q
    <2> QED
        BY <1>5, <1>6, <2>1 DEF TiposGenerador
<1> HIDE DEF q
<1>13. \A d : d = Ruta[p.i] \/ Visitado(p, d) => Visitado(q, d)
    BY <1>1, <1>11, CosasDeFilas DEF Visitado
<1>14. ASSUME NEW j \in 1..(q.i - 1) PROVE Dicho(q, e, Ruta[j])
    <2>1. CASE j = p.i
        BY <1>2, <1>9, <1>10, <1>11, <2>1 DEF Dicho
    <2>2. CASE j # p.i
        <3>1. j \in 1..(p.i - 1)
            BY <1>1, <1>11, <2>2, CosasDeFilas
        <3>2. Dicho(p, e, Ruta[j])
            BY <3>1 DEF Recorre
        <3> QED
            BY <1>9, <1>11, <3>2 DEF Dicho
    <2> QED
        BY <2>1, <2>2
<1>15. Recorre(q, e, n)
    <2>1. \A r \in Recomendaciones : r[1] = p.ronda /\ e[r] # SinEscribir => Visitado(q, r[2])
        BY <1>13 DEF Recorre
    <2>2. \A r \in DOMAIN N :
             /\ r[1] = p.ronda /\ Visitado(q, r[2])
             /\ e[r] = SinEscribir /\ \A y \in p.fundidas : y.r # r
        BY <1>8, <1>9, <1>10, <1>13 DEF Recorre
    <2>3. \A y \in p.fundidas : y.r[1] = p.ronda /\ Visitado(q, y.r[2])
        BY <1>13 DEF Recorre
    <2> QED
        BY <1>1, <1>11, <1>14, <2>1, <2>2, <2>3 DEF Recorre
<1> QED
    BY <1>11, <1>12, <1>15 DEF q, r0

(* A repeated risk joins the row that said it.                             *)
LEMMA AlFusionar ==
    ASSUME NEW p \in TiposGenerador, NEW e, NEW n \in Nat, Recorre(p, e, n),
           p.pc # "libre", p.i <= Len(Ruta), p.nuevas = <<>>,
           NEW r \in Recomendaciones, r[1] = p.ronda, Visitado(p, r[2]), NEW citadas
    PROVE  /\ _fusionar(p, r, citadas) \in TiposGenerador
           /\ Recorre(_fusionar(p, r, citadas), e, n)
           /\ _fusionar(p, r, citadas).retirar = p.retirar
           /\ _fusionar(p, r, citadas).ronda = p.ronda
           /\ _fusionar(p, r, citadas).pc = "fuentes"
<1> DEFINE S == {x \in p.oidas : \A c \in citadas : c[1] # x[1]}
           y0 == [r |-> r, fuentes |-> S, dice |-> {Ruta[p.i]}]
           q == _fusionar(p, r, citadas)
<1>1. /\ p.i \in 1..Len(Ruta) /\ p.fundidas \subseteq Fusion /\ p.oidas \subseteq Cita
    BY CosasDeFilas DEF TiposGenerador
<1>2. y0 \in Fusion /\ y0.r = r /\ y0.dice = {Ruta[p.i]}
    BY <1>1, CosasDeFilas DEF Fusion, Destinos
<1>3. q = [p EXCEPT !.i = p.i + 1, !.pc = "fuentes", !.oidas = {},
                    !.fundidas = p.fundidas \cup {y0}]
    BY DEF _fusionar, TiposGenerador
<1> HIDE DEF y0
<1>4. /\ q.pc = "fuentes" /\ q.ronda = p.ronda /\ q.i = p.i + 1 /\ q.nuevas = <<>>
      /\ q.fundidas = p.fundidas \cup {y0} /\ q.retirar = p.retirar
    BY <1>3 DEF TiposGenerador
<1>5. q \in TiposGenerador
    <2>1. p.i + 1 \in 1..(Len(Ruta) + 1)
        BY <1>1, CosasDeFilas
    <2> HIDE DEF q
    <2> QED
        BY <1>1, <1>2, <1>3, <2>1 DEF TiposGenerador
<1> HIDE DEF q
<1>6. \A d : Visitado(p, d) => Visitado(q, d)
    BY <1>1, <1>4, CosasDeFilas DEF Visitado
<1>7. ASSUME NEW j \in 1..(q.i - 1) PROVE Dicho(q, e, Ruta[j])
    <2>1. CASE j = p.i
        BY <1>2, <1>4, <2>1 DEF Dicho
    <2>2. CASE j # p.i
        <3>1. j \in 1..(p.i - 1)
            BY <1>1, <1>4, <2>2, CosasDeFilas
        <3>2. Dicho(p, e, Ruta[j])
            BY <3>1 DEF Recorre
        <3> QED
            BY <1>4, <3>2 DEF Dicho
    <2> QED
        BY <2>1, <2>2
<1>8. Recorre(q, e, n)
    <2>1. \A x \in Recomendaciones : x[1] = p.ronda /\ e[x] # SinEscribir => Visitado(q, x[2])
        BY <1>6 DEF Recorre
    <2>2. \A y \in q.fundidas : y.r[1] = p.ronda /\ Visitado(q, y.r[2])
        BY <1>2, <1>4, <1>6 DEF Recorre
    <2>3. DOMAIN q.nuevas = {}
        BY <1>4
    <2> QED
        BY <1>4, <1>7, <2>1, <2>2, <2>3 DEF Recorre
<1> QED
    BY <1>4, <1>5, <1>8 DEF q

(* A destination whose pages name it waits for the model.                  *)
LEMMA AlPedirModelo ==
    ASSUME NEW p \in TiposGenerador, NEW e, NEW n \in Nat, Recorre(p, e, n),
           p.pc # "libre", p.i <= Len(Ruta), NEW oidas \in SUBSET Cita
    PROVE  /\ [p EXCEPT !.pc = "modelo", !.oidas = oidas] \in TiposGenerador
           /\ Recorre([p EXCEPT !.pc = "modelo", !.oidas = oidas], e, n)
           /\ [p EXCEPT !.pc = "modelo", !.oidas = oidas].retirar = p.retirar
           /\ [p EXCEPT !.pc = "modelo", !.oidas = oidas].ronda = p.ronda
<1> DEFINE q == [p EXCEPT !.pc = "modelo", !.oidas = oidas]
<1>1. /\ q \in TiposGenerador /\ q.pc = "modelo" /\ q.ronda = p.ronda /\ q.i = p.i
      /\ q.nuevas = p.nuevas /\ q.fundidas = p.fundidas /\ q.retirar = p.retirar
    BY DEF TiposGenerador
<1> HIDE DEF q
<1>2. \A d : Visitado(p, d) => Visitado(q, d)
    BY <1>1 DEF Visitado
<1>3. \A d : Dicho(p, e, d) => Dicho(q, e, d)
    BY <1>1 DEF Dicho
<1>4. Recorre(q, e, n)
    BY <1>1, <1>2, <1>3 DEF Recorre
<1> QED
    BY <1>1, <1>4 DEF q

(* What stands still when the rows and the generations do.                 *)
LEMMA FilasQuietas ==
    ASSUME InvFilas, UNCHANGED <<escritas, generacion, rondas, aLaVez>>
    PROVE  InvFilas'
BY DEF InvFilas, FormaFilas, Recorre, Visitado, Dicho, SinEstrenar, RondasDistintas,
       DeUnaEnUna, Vivas

(* A generation moves on, or ends, without a commit.                       *)
LEMMA AlSeguir ==
    ASSUME InvFilas, NEW g \in Generadores, NEW q \in TiposGenerador,
           generacion' = [generacion EXCEPT ![g] = q],
           UNCHANGED <<escritas, rondas, aLaVez>>,
           q.pc # "libre" => /\ generacion[g].pc # "libre"
                             /\ q.ronda = generacion[g].ronda
                             /\ q.retirar = generacion[g].retirar
                             /\ Recorre(q, escritas, rondas)
    PROVE  InvFilas'
<1>1. \A h \in Generadores : generacion'[h] = IF h = g THEN q ELSE generacion[h]
    BY DEF InvFilas, FormaFilas
<1>2. FormaFilas'
    BY DEF InvFilas, FormaFilas
<1>3. \A h \in Generadores : Recorre(generacion'[h], escritas, rondas)
    BY <1>1 DEF InvFilas, Recorre
<1>4. RondasDistintas'
    BY <1>1 DEF InvFilas, RondasDistintas
<1>5. DeUnaEnUna'
    BY <1>1 DEF InvFilas, DeUnaEnUna, Vivas
<1> QED
    BY <1>2, <1>3, <1>4, <1>5 DEF InvFilas, SinEstrenar, Recorre, Visitado, Dicho

(* A generation commits what it held, and moves on or ends.                *)
LEMMA AlConfirmar ==
    ASSUME InvFilas, NEW g \in Generadores, NEW q \in TiposGenerador,
           generacion[g].pc # "libre",
           escritas' = Volcada(generacion[g]),
           generacion' = [generacion EXCEPT ![g] = q],
           UNCHANGED <<rondas, aLaVez>>,
           q.pc # "libre" => /\ q.ronda = generacion[g].ronda
                             /\ Recorre(q, Volcada(generacion[g]), rondas)
    PROVE  InvFilas'
<1> DEFINE p == generacion[g]
           f == Volcada(p)
<1>1. /\ FormaFilas /\ p \in TiposGenerador /\ Recorre(p, escritas, rondas)
      /\ rondas \in Nat /\ rondas <= MaxRondas
    BY AdvisoriesAssumption DEF InvFilas, FormaFilas
<1>2. DOMAIN p.nuevas \subseteq Recomendaciones
    BY <1>1, FilaNueva DEF TiposGenerador
<1>3. \A h \in Generadores : generacion'[h] = IF h = g THEN q ELSE generacion[h]
    BY DEF InvFilas, FormaFilas
<1>4. p.pc # "libre" /\ escritas' = f /\ (q.pc # "libre" => q.ronda = p.ronda)
    OBVIOUS
<1>5. f \in [Recomendaciones -> EscritasPosibles]
    BY <1>1, LoVolcado
<1>6. ASSUME NEW r \in Recomendaciones, r[1] # p.ronda
      PROVE  /\ escritas[r] = SinEscribir => f[r] = SinEscribir
             /\ escritas[r].dice \subseteq f[r].dice
    <2>1. r \notin DOMAIN p.nuevas /\ \A y \in p.fundidas : y.r # r
        BY <1>1, <1>4, <1>6 DEF Recorre
    <2> QED
        BY <1>1, <2>1, LoVolcado
<1>7. FormaFilas'
    BY <1>5 DEF InvFilas, FormaFilas
<1> HIDE DEF f
<1>8. ASSUME NEW h \in Generadores PROVE Recorre(generacion'[h], f, rondas)
    <2>1. CASE h = g
        BY <1>3, <2>1 DEF Recorre, f
    <2>2. CASE h # g
        <3> DEFINE o == generacion[h]
        <3>0. Recorre(o, escritas, rondas) /\ o \in TiposGenerador
            BY DEF InvFilas, FormaFilas
        <3>1. DOMAIN o.nuevas \subseteq Recomendaciones
            BY <3>0, FilaNueva DEF TiposGenerador
        <3>2. CASE o.pc = "libre"
            BY <1>3, <2>2, <3>2 DEF Recorre
        <3>3. CASE o.pc # "libre"
            <4>1. o.ronda # p.ronda
                BY <1>4, <2>2, <3>3 DEF InvFilas, RondasDistintas
            <4>2. \A r \in Recomendaciones : r[1] = o.ronda =>
                     /\ escritas[r] = SinEscribir => f[r] = SinEscribir
                     /\ escritas[r].dice \subseteq f[r].dice
                BY <1>6, <4>1
            <4> HIDE DEF o, p
            <4>3. Recorre(o, f, rondas)
                BY <1>1, <3>0, <3>1, <4>2, OtraMano
            <4> QED
                BY <1>3, <2>2, <4>3 DEF o
        <3> QED
            BY <3>2, <3>3
    <2> QED
        BY <2>1, <2>2
<1>9. SinEstrenar'
    <2>1. p.ronda \in 1..rondas
        BY <1>1, <1>4 DEF Recorre
    <2>2. \A r \in Recomendaciones : r[1] > rondas => r[1] # p.ronda
        BY <1>1, <2>1, CosasDeFilas
    <2> QED
        BY <1>4, <1>6, <2>2 DEF InvFilas, SinEstrenar
<1>10. RondasDistintas'
    BY <1>3, <1>4 DEF InvFilas, RondasDistintas
<1>11. DeUnaEnUna'
    <2> SUFFICES ASSUME ~aLaVez PROVE DeUnaEnUna'
        BY DEF DeUnaEnUna
    <2>1. \A h \in Generadores \ {g} : generacion[h].pc = "libre"
        BY <1>4 DEF InvFilas, DeUnaEnUna
    <2>2. ASSUME NEW r \in Vivas'
          PROVE  /\ r \in Recomendaciones
                 /\ \/ r \in Generadas /\ r[1] = p.ronda
                    \/ r \in AMano /\ r[2] >= p.ronda
        <3>1. r \in Recomendaciones /\ f[r].viva
            BY <1>4, <2>2 DEF Vivas
        <3>2. CASE r \in DOMAIN p.nuevas
            <4>1. r[1] = p.ronda /\ p.ronda \in 1..rondas
                BY <1>1, <1>4, <3>1, <3>2 DEF Recorre
            <4> QED
                BY <1>1, <3>1, <4>1 DEF Generadas
        <3>3. CASE r \notin DOMAIN p.nuevas
            <4>1. escritas[r].viva /\ r \notin p.retirar
                BY <1>1, <3>1, <3>3, LoVolcado DEF f
            <4> QED
                BY <1>4, <3>1, <4>1 DEF InvFilas, DeUnaEnUna, Vivas
        <3> QED
            BY <3>1, <3>2, <3>3
    <2>3. \A r \in Vivas' \cap Generadas : r[1] = p.ronda
        BY <2>2 DEF Generadas, AMano
    <2>4. \A m \in Vivas' \cap AMano : m[2] >= p.ronda
        BY <2>2 DEF Generadas, AMano
    <2> QED
        BY <1>3, <1>4, <2>1, <2>2, <2>3, <2>4 DEF DeUnaEnUna
<1> QED
    BY <1>4, <1>7, <1>8, <1>9, <1>10, <1>11 DEF InvFilas, Recorre, Visitado, Dicho

(* A generation starts: it holds what is live to withdraw it.              *)
LEMMA AlEmpezarGeneracion ==
    ASSUME InvFilas, NEW g \in Generadores, EmpezarGeneracion(g), UNCHANGED escritas,
           generacion[g].pc = "libre"
    PROVE  InvFilas'
<1> DEFINE q == [Parado EXCEPT !.pc = "fuentes", !.ronda = rondas + 1, !.retirar = Vivas]
<1>0. /\ rondas \in 0..MaxRondas /\ MaxRondas \in Nat /\ rondas < MaxRondas
      /\ rondas' = rondas + 1 /\ generacion' = [generacion EXCEPT ![g] = q]
      /\ aLaVez' = (aLaVez \/ \E h \in Generadores : generacion[h].pc # "libre")
    BY AdvisoriesAssumption DEF EmpezarGeneracion, InvFilas, FormaFilas, PorRetirar
<1>1. /\ q \in TiposGenerador /\ q.pc = "fuentes" /\ q.ronda = rondas + 1 /\ q.i = 1
      /\ q.retirar = Vivas /\ q.nuevas = <<>> /\ q.fundidas = {}
    <2>1. Parado \in TiposGenerador /\ Parado.i = 1 /\ Parado.nuevas = <<>>
          /\ Parado.fundidas = {}
        BY CosasDeFilas DEF Parado
    <2>2. Vivas \in SUBSET Recomendaciones /\ rondas + 1 \in 0..MaxRondas
        BY <1>0 DEF Vivas
    <2> QED
        BY <2>1, <2>2 DEF TiposGenerador
<1> HIDE DEF q
<1>2. \A h \in Generadores : generacion'[h] = IF h = g THEN q ELSE generacion[h]
    BY <1>0 DEF InvFilas, FormaFilas
<1>3. FormaFilas'
    <2>1. aLaVez' \in BOOLEAN
        BY <1>0
    <2>2. generacion' \in [Generadores -> TiposGenerador] /\ rondas' \in 0..MaxRondas
        BY <1>0, <1>1 DEF InvFilas, FormaFilas
    <2> QED
        BY <2>1, <2>2 DEF InvFilas, FormaFilas
<1>4. \A r \in Recomendaciones : r[1] \in Nat
    BY CosasDeFilas
<1>5. Recorre(q, escritas, rondas + 1)
    <2>1. \A r \in Recomendaciones : r[1] = rondas + 1 => escritas[r] = SinEscribir
        BY <1>0, <1>4 DEF InvFilas, SinEstrenar
    <2>2. DOMAIN q.nuevas = {} /\ 1..(q.i - 1) = {}
        BY <1>1
    <2> QED
        BY <1>0, <1>1, <2>1, <2>2 DEF Recorre
<1>6. ASSUME NEW h \in Generadores, h # g PROVE Recorre(generacion[h], escritas, rondas + 1)
    <2> DEFINE o == generacion[h]
    <2>1. Recorre(o, escritas, rondas) /\ o \in TiposGenerador
        BY DEF InvFilas, FormaFilas
    <2>2. DOMAIN o.nuevas \subseteq Recomendaciones
        BY <2>1, FilaNueva DEF TiposGenerador
    <2> HIDE DEF o
    <2>3. rondas \in Nat /\ rondas + 1 \in Nat /\ rondas <= rondas + 1
        BY <1>0
    <2>4. Recorre(o, escritas, rondas + 1)
        BY <2>1, <2>2, <2>3, OtraMano
    <2> QED
        BY <2>4 DEF o
<1>7. \A h \in Generadores : Recorre(generacion'[h], escritas, rondas')
    BY <1>0, <1>2, <1>5, <1>6
<1>8. SinEstrenar'
    BY <1>0, <1>4 DEF InvFilas, SinEstrenar
<1>9. RondasDistintas'
    <2>1. \A h \in Generadores : generacion[h].pc # "libre" => generacion[h].ronda \in 1..rondas
        BY DEF InvFilas, Recorre
    <2> QED
        BY <1>0, <1>1, <1>2, <2>1 DEF InvFilas, RondasDistintas
<1>10. DeUnaEnUna'
    <2> SUFFICES ASSUME ~aLaVez, \A h \in Generadores : generacion[h].pc = "libre"
                 PROVE  DeUnaEnUna'
        BY <1>0 DEF DeUnaEnUna
    <2>1. Vivas' = Vivas
        BY DEF Vivas
    <2> QED
        BY <1>1, <1>2, <2>1 DEF InvFilas, DeUnaEnUna
<1> QED
    BY <1>3, <1>7, <1>8, <1>9, <1>10 DEF InvFilas, Recorre, Visitado, Dicho

(* People's decisions: the rows that are live stay so, and they say what   *)
(* they said; only a row written by hand can become live.                  *)
LEMMA AlDecidir ==
    ASSUME InvFilas, escritas' \in [Recomendaciones -> EscritasPosibles],
           UNCHANGED <<generacion, rondas, aLaVez>>,
           \A r \in Recomendaciones :
              /\ escritas'[r].dice = escritas[r].dice
              /\ escritas'[r].viva => escritas[r].viva \/ (r \in AMano /\ r[2] = rondas)
              /\ escritas[r] = SinEscribir => escritas'[r] = SinEscribir \/ r[1] = 0
    PROVE  InvFilas'
<1>1. FormaFilas' /\ rondas \in Nat
    BY AdvisoriesAssumption DEF InvFilas, FormaFilas
<1>2. \A r \in Recomendaciones : r[1] \in Nat
    BY CosasDeFilas
<1>3. ASSUME NEW g \in Generadores PROVE Recorre(generacion[g], escritas', rondas)
    <2> DEFINE o == generacion[g]
    <2>1. Recorre(o, escritas, rondas) /\ o \in TiposGenerador
        BY DEF InvFilas, FormaFilas
    <2>2. DOMAIN o.nuevas \subseteq Recomendaciones
        BY <2>1, FilaNueva DEF TiposGenerador
    <2>3. CASE o.pc = "libre"
        BY <2>3 DEF Recorre
    <2>4. CASE o.pc # "libre"
        <3>1. o.ronda \in 1..rondas
            BY <2>1, <2>4 DEF Recorre
        <3>2. \A r \in Recomendaciones : r[1] = o.ronda =>
                 /\ escritas[r] = SinEscribir => escritas'[r] = SinEscribir
                 /\ escritas[r].dice \subseteq escritas'[r].dice
            BY <1>1, <3>1
        <3> HIDE DEF o
        <3>3. Recorre(o, escritas', rondas)
            BY <1>1, <2>1, <2>2, <3>2, OtraMano
        <3> QED
            BY <3>3 DEF o
    <2> QED
        BY <2>3, <2>4
<1>4. SinEstrenar'
    BY <1>1, <1>2 DEF InvFilas, SinEstrenar
<1>5. DeUnaEnUna'
    <2> SUFFICES ASSUME ~aLaVez PROVE DeUnaEnUna'
        BY DEF DeUnaEnUna
    <2>1. \A r \in Vivas' : r \in Vivas \/ (r \in AMano /\ r[2] = rondas)
        BY DEF Vivas
    <2>2. \A r \in Vivas : r[1] <= rondas
        <3> SUFFICES ASSUME NEW r \in Recomendaciones, escritas[r].viva, r[1] > rondas
                     PROVE  FALSE
            BY <1>1, <1>2 DEF Vivas
        <3>1. escritas[r] = SinEscribir
            BY DEF InvFilas, SinEstrenar
        <3> QED
            BY <3>1, CosasDeFilas
    <2>3. \A r \in Vivas' \cap Generadas : r \in Vivas /\ r[1] <= rondas /\ r[1] \in Nat
        BY <1>2, <2>1, <2>2, CosasDeFilas DEF Generadas, AMano
    <2>4. \A g \in Generadores : generacion[g].pc # "libre" =>
             generacion[g].ronda \in 1..rondas
        BY DEF InvFilas, Recorre
    <2>5. \A r, s \in Vivas' \cap Generadas : r[1] = s[1]
        BY <2>3 DEF InvFilas, DeUnaEnUna
    <2>6. \A r \in Vivas' \cap Generadas, m \in Vivas' \cap AMano : m[2] >= r[1]
        BY <1>1, <2>1, <2>3 DEF InvFilas, DeUnaEnUna
    <2>7. \A g \in Generadores : generacion[g].pc # "libre" =>
             \A r \in Vivas' :
                \/ r \in generacion[g].retirar
                \/ r \in Generadas /\ r[1] = generacion[g].ronda
                \/ r \in AMano /\ r[2] >= generacion[g].ronda
        BY <1>1, <2>1, <2>4 DEF InvFilas, DeUnaEnUna
    <2>8. \A g, h \in Generadores :
             g # h => generacion[g].pc = "libre" \/ generacion[h].pc = "libre"
        BY DEF InvFilas, DeUnaEnUna
    <2> QED
        BY <2>5, <2>6, <2>7, <2>8 DEF DeUnaEnUna
<1>6. RondasDistintas'
    BY DEF InvFilas, RondasDistintas
<1> QED
    BY <1>1, <1>3, <1>4, <1>5, <1>6 DEF InvFilas, Recorre, Visitado, Dicho

(* What is read of a page is a version it has or had.                      *)
LEMMA LoLeido ==
    ASSUME FormaFuentes, NEW pedir \in SUBSET Fuentes, NEW fallan, NEW conCache \in BOOLEAN
    PROVE  /\ Pedidas(pedir, conCache) \subseteq Fuentes
           /\ Leidas(pedir, fallan, conCache) \subseteq Cita
<1>1. Pedidas(pedir, conCache) \subseteq Fuentes
    BY DEF Pedidas
<1>2. ASSUME NEW f \in pedir, Autorizada(f)
      PROVE  <<f, IF f \in Pedidas(pedir, conCache) THEN pagina[f] ELSE cacheada[f]>> \in Cita
    <2>1. pagina[f] \in 1..MaxVersion /\ cacheada[f] \in 0..MaxVersion
        BY DEF FormaFuentes
    <2>2. CASE f \in Pedidas(pedir, conCache)
        BY <2>1, <2>2 DEF Cita
    <2>3. CASE f \notin Pedidas(pedir, conCache)
        <3>1. cacheada[f] # 0
            BY <1>2, <2>3 DEF Pedidas
        <3>2. cacheada[f] \in 1..MaxVersion
            BY <2>1, <3>1, AdvisoriesAssumption
        <3> QED
            BY <2>3, <3>2 DEF Cita
    <2> QED
        BY <2>2, <2>3
<1>3. Leidas(pedir, fallan, conCache) \subseteq Cita
    BY <1>2 DEF Leidas
<1> QED
    BY <1>1, <1>3

(* A page is stored as it reads.                                           *)
LEMMA AlGuardarPaginas ==
    ASSUME FormaFuentes, NEW pedidas \in SUBSET Fuentes, NEW fallan,
           GuardarPaginas(pedidas, fallan)
    PROVE  cacheada' \in [Fuentes -> 0..MaxVersion] /\ consultada' \subseteq Fuentes
<1>1. \A f \in Fuentes : /\ cacheada[f] \in 0..MaxVersion /\ 0 \in 0..MaxVersion
                         /\ pagina[f] \in 0..MaxVersion
    BY AdvisoriesAssumption DEF FormaFuentes
<1> QED
    BY <1>1 DEF GuardarPaginas, FormaFuentes

(* The watch reads what is cited and is live.                              *)
LEMMA AlReleer ==
    ASSUME FormaFuentes, FormaFilas, ReleerFuentes
    PROVE  FormaFuentes'
<1> DEFINE conFuentes == {r \in Vivas : escritas[r].fuentes # {}}
           citadas == {x[1] : x \in UNION {escritas[r].fuentes : r \in conFuentes}}
<1>1. citadas \subseteq Fuentes
    <2> SUFFICES ASSUME NEW r \in Recomendaciones, NEW x \in escritas[r].fuentes
                 PROVE  x[1] \in Fuentes
        BY DEF Vivas
    <2>1. escritas[r].fuentes \subseteq Cita
        BY DEF FormaFilas, EscritasPosibles, Cita
    <2> QED
        BY <2>1 DEF Cita
<1> DEFINE leidas0(fallan) == Leidas(citadas, fallan, FALSE)
<1>2. PICK fallan \in SUBSET Pedidas(citadas, FALSE) :
         /\ GuardarPaginas(Pedidas(citadas, FALSE), fallan)
         /\ \/ UNCHANGED <<vigia, detectados>>
            \/ \E urls, leido :
                  /\ urls \subseteq Fuentes /\ leido \subseteq Leidas(citadas, fallan, FALSE)
                  /\ vigia' = [pc |-> "avisar", urls |-> urls, leido |-> leido]
                  /\ detectados' = detectados \cup leido
    <2> DEFINE Cambio(fallan, r) == {x[1] : x \in {y \in escritas[r].fuentes :
                        \E z \in leidas0(fallan) : z[1] = y[1] /\ z[2] # y[2]}}
               movidas(fallan) == {r \in conFuentes : Cambio(fallan, r) # {}}
    <2>1. PICK fallan \in SUBSET Pedidas(citadas, FALSE) :
             /\ GuardarPaginas(Pedidas(citadas, FALSE), fallan)
             /\ \/ UNCHANGED <<vigia, detectados>>
                \/ \E primera \in [movidas(fallan) -> Fuentes] :
                      /\ vigia' = [pc |-> "avisar", urls |-> {primera[r] : r \in movidas(fallan)},
                                   leido |-> {x \in leidas0(fallan) :
                                                x[1] \in {primera[r] : r \in movidas(fallan)}}]
                      /\ detectados' = detectados \cup {x \in leidas0(fallan) :
                                                x[1] \in {primera[r] : r \in movidas(fallan)}}
        BY DEF ReleerFuentes
    <2>2. CASE UNCHANGED <<vigia, detectados>>
        BY <2>1, <2>2
    <2>3. ASSUME NEW primera \in [movidas(fallan) -> Fuentes],
                 /\ vigia' = [pc |-> "avisar", urls |-> {primera[r] : r \in movidas(fallan)},
                              leido |-> {x \in leidas0(fallan) :
                                           x[1] \in {primera[r] : r \in movidas(fallan)}}]
                 /\ detectados' = detectados \cup {x \in leidas0(fallan) :
                                           x[1] \in {primera[r] : r \in movidas(fallan)}}
          PROVE  \E urls, leido :
                    /\ urls \subseteq Fuentes /\ leido \subseteq Leidas(citadas, fallan, FALSE)
                    /\ vigia' = [pc |-> "avisar", urls |-> urls, leido |-> leido]
                    /\ detectados' = detectados \cup leido
        <3> HIDE DEF movidas, citadas
        <3> DEFINE urls == {primera[r] : r \in movidas(fallan)}
                   leido == {x \in leidas0(fallan) : x[1] \in urls}
        <3>1. urls \subseteq Fuentes /\ leido \subseteq Leidas(citadas, fallan, FALSE)
            OBVIOUS
        <3>2. vigia' = [pc |-> "avisar", urls |-> urls, leido |-> leido]
              /\ detectados' = detectados \cup leido
            BY <2>3
        <3> HIDE DEF urls, leido, leidas0
        <3> QED
            BY <3>1, <3>2
    <2> QED
        BY <2>1, <2>2, <2>3
<1> HIDE DEF citadas
<1>3. Pedidas(citadas, FALSE) \subseteq Fuentes /\ Leidas(citadas, fallan, FALSE) \subseteq Cita
    BY <1>1, LoLeido
<1>4. cacheada' \in [Fuentes -> 0..MaxVersion] /\ consultada' \subseteq Fuentes
    BY <1>2, <1>3, AlGuardarPaginas
<1>5. UNCHANGED <<pagina, lista, avisos, contados>>
    BY DEF ReleerFuentes
<1>6. /\ vigia' \in [pc : {"libre", "avisar", "regenerar"}, urls : SUBSET Fuentes,
                     leido : SUBSET Cita]
      /\ detectados' \subseteq Cita
    <2>1. CASE UNCHANGED <<vigia, detectados>>
        BY <2>1 DEF FormaFuentes
    <2>2. ASSUME NEW urls \in SUBSET Fuentes, NEW leido \in SUBSET Cita,
                 vigia' = [pc |-> "avisar", urls |-> urls, leido |-> leido],
                 detectados' = detectados \cup leido
          PROVE  /\ vigia' \in [pc : {"libre", "avisar", "regenerar"},
                                urls : SUBSET Fuentes, leido : SUBSET Cita]
                 /\ detectados' \subseteq Cita
        BY <2>2 DEF FormaFuentes
    <2> QED
        BY <1>2, <1>3, <2>1, <2>2
<1> QED
    BY <1>4, <1>5, <1>6 DEF FormaFuentes

(* A step that leaves alone all that FormaFuentes speaks of.               *)
LEMMA FuentesQuietas ==
    ASSUME FormaFuentes,
           UNCHANGED <<pagina, lista, cacheada, consultada, vigia, avisos, contados, detectados>>
    PROVE  FormaFuentes'
BY DEF FormaFuentes

(* The steps of the pages, of the list and of the watch.                   *)
LEMMA PasosDeFuentes ==
    ASSUME FormaFuentes, FormaFilas,
           \/ \E f \in Fuentes :
                 \/ CambiarPagina(f) \/ CaducarPagina(f) \/ EliminarFuente(f)
                 \/ cambiar_estado(f, "activa") \/ cambiar_estado(f, "inactiva")
           \/ PurgarCache \/ ReleerFuentes \/ AvisarDelCambio
    PROVE  FormaFuentes' /\ UNCHANGED <<escritas, generacion, rondas, aLaVez>>
<1>1. ASSUME NEW f \in Fuentes, CambiarPagina(f)
      PROVE  FormaFuentes' /\ UNCHANGED <<escritas, generacion, rondas, aLaVez>>
    <2>1. pagina[f] \in 1..MaxVersion /\ pagina[f] < MaxVersion /\ MaxVersion \in Nat
        BY <1>1, AdvisoriesAssumption DEF CambiarPagina, FormaFuentes
    <2>2. pagina[f] + 1 \in 1..MaxVersion
        BY <2>1
    <2> QED
        BY <1>1, <2>2 DEF CambiarPagina, FormaFuentes
<1>2. ASSUME NEW f \in Fuentes, CaducarPagina(f)
      PROVE  FormaFuentes' /\ UNCHANGED <<escritas, generacion, rondas, aLaVez>>
    <2>1. 0 \in 0..MaxVersion
        BY AdvisoriesAssumption
    <2> QED
        BY <1>2, <2>1 DEF CaducarPagina, FormaFuentes
<1>3. ASSUME NEW f \in Fuentes,
             EliminarFuente(f) \/ cambiar_estado(f, "activa") \/ cambiar_estado(f, "inactiva")
      PROVE  FormaFuentes' /\ UNCHANGED <<escritas, generacion, rondas, aLaVez>>
    BY <1>3 DEF EliminarFuente, cambiar_estado, FormaFuentes
<1>4. CASE PurgarCache
    BY <1>4 DEF PurgarCache, FormaFuentes
<1>5. CASE ReleerFuentes
    BY <1>5, AlReleer DEF ReleerFuentes
<1>6. CASE AvisarDelCambio
    <2>1. /\ avisos' = avisos \cup {vigia.urls}
          /\ contados' = contados \/ contados' = contados \cup vigia.leido
          /\ vigia' = [vigia EXCEPT !.pc = "regenerar"]
          /\ UNCHANGED <<pagina, lista, cacheada, consultada, escritas, generacion, rondas,
                         detectados, aLaVez>>
        BY <1>6 DEF AvisarDelCambio, ClaveDeAviso
    <2>2. vigia.urls \subseteq Fuentes /\ vigia.leido \subseteq Cita
        BY DEF FormaFuentes
    <2>3. vigia' \in [pc : {"libre", "avisar", "regenerar"}, urls : SUBSET Fuentes,
                      leido : SUBSET Cita]
        BY <2>1 DEF FormaFuentes
    <2> QED
        BY <2>1, <2>2, <2>3 DEF FormaFuentes
<1> QED
    BY <1>1, <1>2, <1>3, <1>4, <1>5, <1>6

(* A generation looks at the pages of its next destination.                *)
LEMMA AlConsultar ==
    ASSUME FormaFuentes, InvFilas, NEW g \in Generadores, ConsultarFuentes(g)
    PROVE  FormaFuentes' /\ InvFilas'
<1> DEFINE p == generacion[g]
           pedidas == Pedidas(Fuentes, TRUE)
           q == IF pedidas = {} THEN p ELSE Limpia(p)
           oidas(fallan) == {x \in Leidas(Fuentes, fallan, TRUE) : x[1] \in Nombra[Ruta[p.i]]}
           f == IF pedidas = {} THEN escritas ELSE Volcada(p)
<1>1. PICK fallan \in SUBSET pedidas :
         /\ GuardarPaginas(pedidas, fallan)
         /\ escritas' = f
         /\ generacion' = [generacion EXCEPT ![g] =
               IF oidas(fallan) = {} THEN _no_sources_advisory(q)
               ELSE [q EXCEPT !.pc = "modelo", !.oidas = oidas(fallan)]]
    BY DEF ConsultarFuentes
<1> DEFINE s == IF oidas(fallan) = {} THEN _no_sources_advisory(q)
                ELSE [q EXCEPT !.pc = "modelo", !.oidas = oidas(fallan)]
<1>2. /\ p.pc = "fuentes" /\ p.i <= Len(Ruta)
      /\ UNCHANGED <<pagina, lista, rondas, vigia, avisos, contados, detectados, aLaVez>>
    BY DEF ConsultarFuentes
<1>3. pedidas \subseteq Fuentes /\ oidas(fallan) \subseteq Cita
    BY LoLeido
<1>4. FormaFuentes'
    BY <1>1, <1>2, <1>3, AlGuardarPaginas DEF FormaFuentes
<1>5. /\ FormaFilas /\ p \in TiposGenerador /\ Recorre(p, escritas, rondas)
      /\ rondas \in Nat /\ rondas <= MaxRondas
    BY AdvisoriesAssumption DEF InvFilas, FormaFilas
<1>6. /\ q \in TiposGenerador /\ q.pc = "fuentes" /\ q.i <= Len(Ruta) /\ q.ronda = p.ronda
      /\ Recorre(q, f, rondas)
      /\ pedidas = {} => q.retirar = p.retirar
    BY <1>2, <1>5, AlVolcar
<1> HIDE DEF q, oidas
<1>7. /\ s \in TiposGenerador /\ Recorre(s, f, rondas) /\ s.retirar = q.retirar
      /\ s.ronda = q.ronda
    <2>1. CASE oidas(fallan) = {}
        <3>1. "PENDIENTE_VALIDACION" \in AdvisoryValidationState /\ {} \in SUBSET Cita
            BY DEF AdvisoryValidationState
        <3> HIDE DEF f
        <3> QED
            BY <1>5, <1>6, <2>1, <3>1, AlPonerFila DEF _no_sources_advisory
    <2>2. CASE oidas(fallan) # {}
        <3> HIDE DEF f
        <3> QED
            BY <1>3, <1>5, <1>6, <2>2, AlPedirModelo
    <2> QED
        BY <2>1, <2>2
<1>8. generacion' = [generacion EXCEPT ![g] = s]
    BY <1>1
<1> HIDE DEF s
<1>9. InvFilas'
    <2>1. CASE pedidas = {}
        <3>1. UNCHANGED <<escritas, rondas, aLaVez>> /\ p.pc # "libre"
            BY <1>1, <1>2, <2>1
        <3>2. s.ronda = p.ronda /\ s.retirar = p.retirar /\ Recorre(s, escritas, rondas)
            BY <1>6, <1>7, <2>1
        <3> QED
            BY <1>7, <1>8, <3>1, <3>2, AlSeguir
    <2>2. CASE pedidas # {}
        <3>1. escritas' = Volcada(p) /\ UNCHANGED <<rondas, aLaVez>> /\ p.pc # "libre"
            BY <1>1, <1>2, <2>2
        <3>2. s.ronda = p.ronda /\ Recorre(s, Volcada(p), rondas)
            BY <1>6, <1>7, <2>2
        <3> QED
            BY <1>7, <1>8, <3>1, <3>2, AlConfirmar
    <2> QED
        BY <2>1, <2>2
<1> QED
    BY <1>4, <1>9

(* The model answers, or does not.                                         *)
LEMMA AlAnalizar ==
    ASSUME FormaFuentes, InvFilas, NEW g \in Generadores, AnalizarRiesgos(g)
    PROVE  FormaFuentes' /\ InvFilas'
<1> DEFINE p == generacion[g]
           q == Limpia(p)
           f == Volcada(p)
<1>0. FormaFuentes' /\ UNCHANGED <<rondas, aLaVez>> /\ p.pc = "modelo"
    BY FuentesQuietas DEF AnalizarRiesgos
<1>1. /\ FormaFilas /\ p \in TiposGenerador /\ Recorre(p, escritas, rondas)
      /\ rondas \in Nat /\ rondas <= MaxRondas /\ p.i <= Len(Ruta)
    BY <1>0, AdvisoriesAssumption DEF InvFilas, FormaFilas, Recorre
<1>2. /\ q \in TiposGenerador /\ q.pc = "modelo" /\ q.i = p.i /\ q.ronda = p.ronda
      /\ q.nuevas = <<>> /\ Recorre(q, f, rondas)
      /\ q.pc # "libre" /\ q.i <= Len(Ruta)
    BY <1>0, <1>1, AlVolcar
<1>3. /\ "PENDIENTE_VALIDACION" \in AdvisoryValidationState /\ {} \in SUBSET Cita
      /\ "VALIDADA" \in AdvisoryValidationState /\ p.oidas \in SUBSET Cita
    BY <1>1 DEF AdvisoryValidationState, TiposGenerador
<1>4. CASE /\ escritas' = escritas
           /\ generacion' = [generacion EXCEPT ![g] = _no_sources_advisory(p)]
    <2> DEFINE s == _no_sources_advisory(p)
    <2>1. /\ s \in TiposGenerador /\ Recorre(s, escritas, rondas) /\ s.retirar = p.retirar
          /\ s.ronda = p.ronda
        <3> HIDE DEF p
        <3> QED
            BY <1>0, <1>1, <1>3, AlPonerFila DEF _no_sources_advisory
    <2>2. generacion' = [generacion EXCEPT ![g] = s]
        BY <1>4
    <2> HIDE DEF s
    <2> QED
        BY <1>0, <1>4, <2>1, <2>2, AlSeguir
<1>5. ASSUME NEW s \in TiposGenerador, escritas' = f, s.ronda = p.ronda,
             Recorre(s, f, rondas), generacion' = [generacion EXCEPT ![g] = s]
      PROVE  InvFilas'
    BY <1>0, <1>5, AlConfirmar
<1>6. CASE /\ escritas' = f
           /\ generacion' = [generacion EXCEPT ![g] = _no_sources_advisory(q)]
    <2> HIDE DEF q, f
    <2> DEFINE s == _no_sources_advisory(q)
    <2>1. s \in TiposGenerador /\ Recorre(s, f, rondas) /\ s.ronda = q.ronda
        <3>1. /\ q \in TiposGenerador /\ Recorre(q, f, rondas) /\ q.pc # "libre"
              /\ q.i <= Len(Ruta) /\ rondas \in Nat /\ rondas <= MaxRondas
            BY <1>1, <1>2
        <3> HIDE DEF p
        <3> QED
            BY ONLY <1>3, <3>1, AlPonerFila DEF _no_sources_advisory
    <2>2. generacion' = [generacion EXCEPT ![g] = s] /\ escritas' = f /\ s.ronda = p.ronda
        BY <1>2, <1>6, <2>1
    <2> HIDE DEF s
    <2> QED
        BY <1>0, <1>5, <2>1, <2>2
<1>7. CASE /\ escritas' = f
           /\ generacion' = [generacion EXCEPT ![g] =
                 ConFila(q, <<p.ronda, Ruta[p.i]>>, "VALIDADA", p.oidas)]
    <2> HIDE DEF q, f
    <2> DEFINE s == ConFila(q, <<q.ronda, Ruta[q.i]>>, "VALIDADA", p.oidas)
    <2>1. s \in TiposGenerador /\ Recorre(s, f, rondas) /\ s.ronda = q.ronda
        <3>1. /\ q \in TiposGenerador /\ Recorre(q, f, rondas) /\ q.pc # "libre"
              /\ q.i <= Len(Ruta) /\ rondas \in Nat /\ rondas <= MaxRondas
            BY <1>1, <1>2
        <3> HIDE DEF p
        <3> QED
            BY ONLY <1>3, <3>1, AlPonerFila
    <2>2. generacion' = [generacion EXCEPT ![g] = s] /\ escritas' = f /\ s.ronda = p.ronda
        BY <1>2, <1>7, <2>1
    <2> HIDE DEF s
    <2> QED
        BY <1>0, <1>5, <2>1, <2>2
<1>8. ASSUME NEW r \in Dichas(p), escritas' = f,
             generacion' = [generacion EXCEPT ![g] = _fusionar(q, r, f[r].fuentes)]
      PROVE  InvFilas'
    <2>1. r \in Recomendaciones /\ r[1] = p.ronda /\ Visitado(p, r[2])
        <3>1. CASE r \in DOMAIN p.nuevas
            <4>1. r \in Recomendaciones
                BY <1>1, <3>1, FilaNueva DEF TiposGenerador
            <4> QED
                BY <1>0, <1>1, <3>1, <4>1 DEF Recorre
        <3>2. CASE r \notin DOMAIN p.nuevas
            <4>1. r \in Recomendaciones /\ r[1] = p.ronda /\ escritas[r].fuentes # {}
                BY <1>8, <3>2 DEF Dichas
            <4>2. escritas[r] # SinEscribir
                BY <4>1 DEF SinEscribir
            <4> QED
                BY <1>0, <1>1, <4>1, <4>2 DEF Recorre
        <3> QED
            BY <3>1, <3>2
    <2>2. Visitado(q, r[2])
        BY <1>2, <2>1 DEF Visitado
    <2> HIDE DEF q, f
    <2> DEFINE s == _fusionar(q, r, f[r].fuentes)
    <2>3. s \in TiposGenerador /\ Recorre(s, f, rondas) /\ s.ronda = q.ronda
        BY <1>1, <1>2, <2>1, <2>2, AlFusionar
    <2>4. generacion' = [generacion EXCEPT ![g] = s]
        BY <1>8
    <2> HIDE DEF s
    <2> QED
        BY <1>2, <1>5, <1>8, <2>3, <2>4
<1> QED
    BY <1>0, <1>4, <1>6, <1>7, <1>8 DEF AnalizarRiesgos, SiNadaVale

(* A generation ends, or its process dies.                                 *)
LEMMA AlTerminarGeneracion ==
    ASSUME FormaFuentes, InvFilas, NEW g \in Generadores,
           TerminarGeneracion(g) \/ MorirGenerando(g)
    PROVE  FormaFuentes' /\ InvFilas'
<1>1. CASE TerminarGeneracion(g)
    <2>1. FormaFuentes'
        BY <1>1, FuentesQuietas DEF TerminarGeneracion
    <2>2. InvFilas'
        BY <1>1, CosasDeFilas, AlConfirmar DEF TerminarGeneracion
    <2> QED
        BY <2>1, <2>2
<1>2. CASE MorirGenerando(g)
    <2>1. FormaFuentes'
        BY <1>2, FuentesQuietas DEF MorirGenerando
    <2>2. InvFilas'
        BY <1>2, CosasDeFilas, AlSeguir DEF MorirGenerando
    <2> QED
        BY <2>1, <2>2
<1> QED
    BY <1>1, <1>2

(* Somebody decides on a row, writes one, or the night ages them.          *)
LEMMA AlDecidirAlguien ==
    ASSUME FormaFuentes, InvFilas,
           \/ \E r \in Recomendaciones : validate(r, TRUE) \/ validate(r, FALSE)
           \/ (\E n \in 1..MaxSucesos : create_manual(n)) \/ expire_stale
    PROVE  FormaFuentes' /\ InvFilas'
<1>0. escritas \in [Recomendaciones -> EscritasPosibles]
    BY DEF InvFilas, FormaFilas
<1>1. FormaFuentes' /\ UNCHANGED <<generacion, rondas, aLaVez>>
    BY FuentesQuietas DEF validate, create_manual, expire_stale
<1>2. ASSUME NEW r \in Recomendaciones, validate(r, TRUE) \/ validate(r, FALSE) PROVE InvFilas'
    <2>1. PICK estado \in AdvisoryValidationState :
             escritas' = [escritas EXCEPT ![r].estado = estado] /\ escritas[r].viva
        <3>1. "VALIDADA" \in AdvisoryValidationState /\ "RECHAZADA" \in AdvisoryValidationState
            BY DEF AdvisoryValidationState
        <3> QED
            BY <1>2, <3>1 DEF validate, Vivas
    <2>2. escritas[r] # SinEscribir
        BY <2>1, CosasDeFilas
    <2>3. escritas' \in [Recomendaciones -> EscritasPosibles]
        BY <1>0, <2>1 DEF EscritasPosibles
    <2>4. \A x \in Recomendaciones : /\ escritas'[x].dice = escritas[x].dice
                                     /\ escritas'[x].viva = escritas[x].viva
                                     /\ x # r => escritas'[x] = escritas[x]
        BY <1>0, <2>1 DEF EscritasPosibles
    <2> QED
        BY <1>1, <2>2, <2>3, <2>4, AlDecidir
<1>3. ASSUME NEW n \in 1..MaxSucesos, create_manual(n) PROVE InvFilas'
    <2> DEFINE r == <<0, rondas, n>>
    <2>1. r \in Recomendaciones /\ r[1] = 0 /\ r \in AMano /\ r[2] = rondas
        BY DEF Recomendaciones, AMano, InvFilas, FormaFilas
    <2>2. escritas' = [escritas EXCEPT ![r].viva = TRUE]
        BY <1>3 DEF create_manual
    <2> HIDE DEF r
    <2>3. escritas' \in [Recomendaciones -> EscritasPosibles]
        BY <1>0, <2>1, <2>2 DEF EscritasPosibles
    <2>4. \A x \in Recomendaciones : /\ escritas'[x].dice = escritas[x].dice
                                     /\ x # r => escritas'[x] = escritas[x]
        BY <1>0, <2>1, <2>2 DEF EscritasPosibles
    <2> QED
        BY <1>1, <2>1, <2>2, <2>3, <2>4, AlDecidir
<1>4. CASE expire_stale
    <2>1. PICK viejas \in SUBSET Vivas :
             escritas' = [x \in Recomendaciones |->
                IF x \in viejas THEN [escritas[x] EXCEPT !.estado = "CADUCADA"]
                ELSE escritas[x]]
        BY <1>4 DEF expire_stale
    <2>2. "CADUCADA" \in AdvisoryValidationState
        BY DEF AdvisoryValidationState
    <2>3. escritas' \in [Recomendaciones -> EscritasPosibles]
        BY <1>0, <2>1, <2>2 DEF EscritasPosibles
    <2>4. \A x \in Recomendaciones : /\ escritas'[x].dice = escritas[x].dice
                                     /\ escritas'[x].viva = escritas[x].viva
                                     /\ x \notin viejas => escritas'[x] = escritas[x]
        BY <1>0, <2>1 DEF EscritasPosibles
    <2>5. \A x \in viejas : escritas[x] # SinEscribir
        BY CosasDeFilas DEF Vivas
    <2> QED
        BY <1>1, <2>3, <2>4, <2>5, AlDecidir
<1> QED
    BY <1>1, <1>2, <1>3, <1>4

(* A generation begins, asked for by hand or by the watch.                 *)
LEMMA AlGenerar ==
    ASSUME FormaFuentes, InvFilas,
           (\E g \in Generadores : generate_for_trip(g)) \/ RegenerarTrasElCambio,
           generacion[Noche].pc = "libre" \/ vigia.pc # "regenerar"
    PROVE  FormaFuentes' /\ InvFilas'
<1>1. ASSUME NEW g \in Generadores, generate_for_trip(g) PROVE FormaFuentes' /\ InvFilas'
    BY <1>1, FuentesQuietas, AlEmpezarGeneracion DEF generate_for_trip
<1>2. CASE RegenerarTrasElCambio
    <2>1. /\ vigia' = [pc |-> "libre", urls |-> {}, leido |-> {}]
          /\ EmpezarGeneracion(Noche) \/ UNCHANGED <<rondas, generacion, aLaVez>>
          /\ UNCHANGED <<pagina, lista, cacheada, consultada, escritas, avisos,
                         contados, detectados>>
          /\ vigia.pc = "regenerar"
        BY <1>2 DEF RegenerarTrasElCambio
    <2>2. FormaFuentes'
        BY <2>1 DEF FormaFuentes
    <2>3. InvFilas'
        BY <2>1, AdvisoriesAssumption, AlEmpezarGeneracion, FilasQuietas
    <2> QED
        BY <2>2, <2>3
<1> QED
    BY <1>1, <1>2

(* The watch reads and tells while its process generates nothing.          *)
VigiaSolo == vigia.pc # "libre" => generacion[Noche].pc = "libre"

(* The watch does one thing at a time.                                     *)
LEMMA VigiaPaso ==
    ASSUME FormaFilas, VigiaSolo, NextRecomendaciones PROVE VigiaSolo'
<1>0. Noche \in Generadores /\ generacion \in [Generadores -> TiposGenerador]
      /\ Parado.pc = "libre"
    BY AdvisoriesAssumption, CosasDeFilas DEF FormaFilas
<1>1. CASE UNCHANGED <<vigia, generacion>>
    BY <1>1 DEF VigiaSolo
<1>2. ASSUME NEW g \in Generadores,
             \/ generate_for_trip(g) \/ ConsultarFuentes(g) \/ AnalizarRiesgos(g)
             \/ TerminarGeneracion(g) \/ MorirGenerando(g)
      PROVE  VigiaSolo'
    <2>1. UNCHANGED vigia
        BY <1>2 DEF generate_for_trip, ConsultarFuentes, AnalizarRiesgos,
                    TerminarGeneracion, MorirGenerando
    <2>2. \E q : generacion' = [generacion EXCEPT ![g] = q]
        BY <1>2 DEF generate_for_trip, EmpezarGeneracion, ConsultarFuentes, AnalizarRiesgos,
                    TerminarGeneracion, MorirGenerando
    <2>3. CASE g # Noche
        BY <1>0, <2>1, <2>2, <2>3 DEF VigiaSolo
    <2>4. CASE g = Noche /\ vigia.pc = "libre"
        BY <2>1, <2>4 DEF VigiaSolo
    <2>5. CASE g = Noche /\ vigia.pc # "libre"
        <3>1. generacion[Noche].pc = "libre"
            BY <2>5 DEF VigiaSolo
        <3> QED
            BY <1>2, <2>5, <3>1 DEF generate_for_trip, ConsultarFuentes, AnalizarRiesgos,
                                    TerminarGeneracion, MorirGenerando
    <2> QED
        BY <2>3, <2>4, <2>5
<1>3. CASE ReleerFuentes
    BY <1>3 DEF ReleerFuentes, VigiaSolo
<1>4. CASE AvisarDelCambio
    BY <1>4 DEF AvisarDelCambio, VigiaSolo
<1>5. CASE RegenerarTrasElCambio
    BY <1>5 DEF RegenerarTrasElCambio, VigiaSolo
<1> QED
    BY <1>1, <1>2, <1>3, <1>4, <1>5
       DEF NextRecomendaciones, CambiarPagina, CaducarPagina, EliminarFuente, cambiar_estado,
           PurgarCache, validate, create_manual, expire_stale

(* Nothing has been generated yet.                                         *)
LEMMA FilasAlPrincipio == InitRecomendaciones => FormaFuentes /\ InvFilas
<1> SUFFICES ASSUME InitRecomendaciones PROVE FormaFuentes /\ InvFilas
    OBVIOUS
<1>1. 1 \in 1..MaxVersion /\ 0 \in 0..MaxVersion /\ 0 \in 0..MaxRondas
    BY AdvisoriesAssumption
<1>2. FormaFuentes
    BY <1>1 DEF InitRecomendaciones, FormaFuentes
<1>3. /\ escritas = [r \in Recomendaciones |-> SinEscribir]
      /\ generacion = [g \in Generadores |-> Parado] /\ rondas = 0 /\ aLaVez = FALSE
    BY DEF InitRecomendaciones
<1>4. FormaFilas
    BY <1>1, <1>3, CosasDeFilas DEF FormaFilas
<1>5. Vivas = {}
    BY <1>3, CosasDeFilas DEF Vivas
<1> QED
    BY <1>2, <1>3, <1>4, <1>5, CosasDeFilas
       DEF InvFilas, Recorre, SinEstrenar, RondasDistintas, DeUnaEnUna

InvRecomendaciones == FormaFuentes /\ InvFilas /\ VigiaSolo

(* Every step keeps the invariant.                                         *)
LEMMA FilasPaso ==
    InvRecomendaciones /\ [NextRecomendaciones]_varsRecomendaciones => InvRecomendaciones'
<1> SUFFICES ASSUME InvRecomendaciones, [NextRecomendaciones]_varsRecomendaciones
             PROVE  InvRecomendaciones'
    OBVIOUS
<1>0. FormaFuentes /\ InvFilas /\ VigiaSolo /\ FormaFilas
    BY DEF InvRecomendaciones, InvFilas
<1>1. CASE UNCHANGED varsRecomendaciones
    BY <1>0, <1>1, FuentesQuietas, FilasQuietas
       DEF varsRecomendaciones, InvRecomendaciones, VigiaSolo
<1>2. CASE NextRecomendaciones
    <2>1. VigiaSolo'
        BY <1>0, <1>2, VigiaPaso
    <2>2. CASE \/ \E f \in Fuentes :
                     \/ CambiarPagina(f) \/ CaducarPagina(f) \/ EliminarFuente(f)
                     \/ cambiar_estado(f, "activa") \/ cambiar_estado(f, "inactiva")
               \/ PurgarCache \/ ReleerFuentes \/ AvisarDelCambio
        BY <1>0, <2>1, <2>2, PasosDeFuentes, FilasQuietas DEF InvRecomendaciones
    <2>3. CASE \E g \in Generadores : ConsultarFuentes(g)
        BY <1>0, <2>1, <2>3, AlConsultar DEF InvRecomendaciones
    <2>4. CASE \E g \in Generadores : AnalizarRiesgos(g)
        BY <1>0, <2>1, <2>4, AlAnalizar DEF InvRecomendaciones
    <2>5. CASE \E g \in Generadores : TerminarGeneracion(g) \/ MorirGenerando(g)
        BY <1>0, <2>1, <2>5, AlTerminarGeneracion DEF InvRecomendaciones
    <2>6. CASE (\E g \in Generadores : generate_for_trip(g)) \/ RegenerarTrasElCambio
        BY <1>0, <2>1, <2>6, AlGenerar DEF InvRecomendaciones, VigiaSolo
    <2>7. CASE \/ \E r \in Recomendaciones : validate(r, TRUE) \/ validate(r, FALSE)
               \/ (\E n \in 1..MaxSucesos : create_manual(n)) \/ expire_stale
        BY <1>0, <2>1, <2>7, AlDecidirAlguien DEF InvRecomendaciones
    <2> QED
        BY <1>2, <2>2, <2>3, <2>4, <2>5, <2>6, <2>7 DEF NextRecomendaciones
<1> QED
    BY <1>1, <1>2

(* The invariant holds of every behaviour.                                 *)
LEMMA SiempreInvRecomendaciones == SpecRecomendaciones => []InvRecomendaciones
<1>1. InitRecomendaciones => InvRecomendaciones
    BY FilasAlPrincipio DEF InvRecomendaciones, VigiaSolo, InitRecomendaciones
<1> QED
    BY <1>1, FilasPaso, PTL DEF SpecRecomendaciones

(* The pages, the rows, the generations and the watch keep their types.    *)
THEOREM TiposDeRecomendaciones == SpecRecomendaciones => []TipoRecomendaciones
<1>1. InvRecomendaciones => TipoRecomendaciones
    <2> SUFFICES ASSUME FormaFuentes, FormaFilas PROVE TipoRecomendaciones
        BY DEF InvRecomendaciones, InvFilas
    <2>1. ASSUME NEW g \in Generadores
          PROVE  /\ generacion[g].pc \in {"libre", "fuentes", "modelo"}
                 /\ generacion[g].i \in 1..(Len(Ruta) + 1)
                 /\ \A r \in DOMAIN generacion[g].nuevas :
                       r \in Recomendaciones /\ generacion[g].nuevas[r] \in EscritasPosibles
        <3>1. generacion[g] \in TiposGenerador
            BY DEF FormaFilas
        <3>2. generacion[g].nuevas \in FilasNuevas
            BY <3>1 DEF TiposGenerador
        <3> QED
            BY <3>1, <3>2, FilaNueva DEF TiposGenerador
    <2> QED
        BY <2>1 DEF FormaFuentes, FormaFilas, TipoRecomendaciones, Cita
<1> QED
    BY <1>1, SiempreInvRecomendaciones, PTL

(* `_retirar_anteriores`: whatever pages change, whoever decides and       *)
(* however many generations are cut short, unless two of them overlapped   *)
(* the generated rows a trip shows are of a single one, and none written   *)
(* by hand before it began is left beside them.                            *)
THEOREM SiempreUnaSolaGeneracion == SpecRecomendaciones => []UnaSolaGeneracion
<1>1. InvRecomendaciones => UnaSolaGeneracion
    BY DEF InvRecomendaciones, InvFilas, DeUnaEnUna, UnaSolaGeneracion
<1> QED
    BY <1>1, SiempreInvRecomendaciones, PTL

(* `_no_sources_advisory`: a generation that ends has a row of its own     *)
(* that speaks of each destination, even when others overlapped it.        *)
THEOREM NingunDestinoCalla == SpecRecomendaciones => TodoDestinoDice
<1> DEFINE Acaba == \A g \in Generadores :
              TerminarGeneracion(g) =>
                \A d \in Destinos : \E r \in Recomendaciones :
                   r[1] = generacion[g].ronda /\ d \in escritas'[r].dice
<1>1. InvRecomendaciones /\ [NextRecomendaciones]_varsRecomendaciones
         => [Acaba]_varsRecomendaciones
    <2> SUFFICES ASSUME InvRecomendaciones, NEW g \in Generadores, TerminarGeneracion(g),
                        NEW d \in Destinos
                 PROVE  \E r \in Recomendaciones :
                           r[1] = generacion[g].ronda /\ d \in escritas'[r].dice
        OBVIOUS
    <2> DEFINE p == generacion[g]
               q == Limpia(p)
    <2>1. /\ FormaFilas /\ p \in TiposGenerador /\ Recorre(p, escritas, rondas)
          /\ p.pc = "fuentes" /\ p.i > Len(Ruta) /\ escritas' = Volcada(p)
        BY DEF InvRecomendaciones, InvFilas, FormaFilas, TerminarGeneracion
    <2>2. /\ Recorre(q, escritas', rondas) /\ q.pc # "libre" /\ q.i = p.i
          /\ q.ronda = p.ronda /\ q.nuevas = <<>> /\ q.fundidas = {}
        BY <2>1, AlVolcar
    <2>3. PICK j \in 1..Len(Ruta) : d = Ruta[j]
        BY CosasDeFilas DEF Destinos
    <2>4. j \in 1..(q.i - 1)
        <3>1. p.i \in Nat /\ Len(Ruta) \in Nat
            BY <2>1, CosasDeFilas DEF TiposGenerador
        <3> QED
            BY <2>1, <2>2, <3>1
    <2> HIDE DEF q, p
    <2>5. Dicho(q, escritas', d)
        BY <2>2, <2>3, <2>4 DEF Recorre
    <2>6. DOMAIN q.nuevas = {}
        BY <2>2
    <2>7. \E r \in Recomendaciones : r[1] = q.ronda /\ d \in escritas'[r].dice
        BY <2>2, <2>5, <2>6 DEF Dicho
    <2> QED
        BY <2>2, <2>7 DEF p
<1> QED
    BY <1>1, SiempreInvRecomendaciones, PTL DEF SpecRecomendaciones, TodoDestinoDice

-----------------------------------------------------------------------------
(***************************************************************************)
(* Calls to a model.  What a call has learned is what its model refuses;   *)
(* that keeps the notes true whatever calls overlap.  That nothing is      *)
(* refused twice needs more: while no lesson has been lost one call at a   *)
(* time goes, over the notes as they are, and sends nothing refused.       *)
(***************************************************************************)
Notas == [token_param : Limites, sin_temperatura : BOOLEAN,
          sin_razonamiento_no_admitido : BOOLEAN, no_admitidos : [Modelos -> SUBSET Opcionales]]
Composiciones == {componer(g, e) : g \in Configuraciones, e \in BOOLEAN}
TiposLlamada ==
    [pc : {"libre", "enviar", "cerrar"}, modelo : Modelos, vista : Notas,
     guardadas : Configuraciones \cup {<<>>}, origen : Composiciones \cup {<<>>},
     envia : SUBSET Refusables, aprendido : SUBSET Refusables,
     fila : {"ninguna", "sin confirmar", "EN_CURSO", "COMPLETADA", "ERROR"},
     final : {"ninguno", "COMPLETADA", "ERROR"}]

FormaLlamadas ==
    /\ sin_razonamiento \in BOOLEAN /\ leccionesPerdidas \in BOOLEAN
    /\ notas \in Notas
    /\ llamada \in [Llamadas -> TiposLlamada]
    /\ rechazos \in [Modelos \X Refusables -> 0..2]
    /\ conmutaciones \in 0..MaxConmutaciones

NotasCiertas(n) == \A m \in Modelos : n.no_admitidos[m] \subseteq Rechaza[m]

(* The name of the limit that is sent is the one in the notes it read, or  *)
(* the other one once its model has refused that.                          *)
UnLimite(p) ==
    \/ p.envia \cap Limites = {p.vista.token_param}
    \/ /\ p.envia \cap Limites = {OtroLimite(p.vista.token_param)}
       /\ p.vista.token_param \in Rechaza[p.modelo]

Aprende(p) ==
    /\ p.pc = "enviar" =>
          /\ p.aprendido \subseteq Rechaza[p.modelo] \ {Razonar}
          /\ p.aprendido \cap Limites \subseteq {p.vista.token_param}
          /\ NotasCiertas(p.vista) /\ UnLimite(p)
          /\ \E e \in BOOLEAN : p.guardadas \in Configuraciones
                                /\ p.origen = componer(p.guardadas, e)
    /\ p.pc = "cerrar" =>
          p.final # "ninguno" /\ \E m \in Modelos : p.aprendido \subseteq Rechaza[m] \ {Razonar}

InvLlamadas ==
    /\ FormaLlamadas /\ NotasCiertas(notas)
    /\ \A c \in Llamadas : Aprende(llamada[c])

(* The two names of the limit.                                             *)
LEMMA DosLimites ==
    \A x \in Limites : /\ OtroLimite(x) \in Limites /\ OtroLimite(x) # x
                       /\ \A y \in Limites : y = x \/ y = OtroLimite(x)
BY DEF Limites, OtroLimite

(* The kinds of parameter are apart.                                       *)
LEMMA ClasesDeParametro ==
    /\ Temperatura \notin Limites /\ Razonar \notin Limites /\ Temperatura # Razonar
    /\ Opcionales \cap Limites = {} /\ Temperatura \notin Opcionales /\ Razonar \notin Opcionales
    /\ \A x \in Refusables : \/ x \in Opcionales \/ x = Temperatura \/ x = Razonar
                             \/ x \in Limites
    /\ Claves = Opcionales \cup {Temperatura}
    /\ Claves \subseteq Refusables /\ Limites \subseteq Refusables /\ Razonar \in Refusables
    /\ \A m \in Modelos : \A x \in Limites \cap Rechaza[m] : OtroLimite(x) \notin Rechaza[m]
<1>1. Temperatura \notin Limites /\ Razonar \notin Limites /\ Temperatura # Razonar
    BY DEF Temperatura, Razonar, Limites
<1>2. \A m \in Modelos : \A x \in Limites \cap Rechaza[m] : OtroLimite(x) \notin Rechaza[m]
    BY AICallsAssumption, DosLimites
<1> QED
    BY <1>1, <1>2, AICallsAssumption DEF Refusables, Claves

(* What a call sends comes from the layer that must win.                   *)
LEMMA LoCompuesto ==
    ASSUME NEW g \in Configuraciones, NEW e \in BOOLEAN
    PROVE  /\ DOMAIN componer(g, e) \subseteq Claves
           /\ Temperatura \in DOMAIN componer(g, e)
           /\ componer(g, e)[Temperatura] \in {"tarea", "perfil"}
           /\ \A k \in DOMAIN componer(g, e) \cap g["modelo"] : componer(g, e)[k] # "proveedor"
<1> DEFINE cs == capas(g, e)
           o == componer(g, e)
<1>1. /\ DOMAIN cs = 1..5
      /\ cs[1].nombre = "sistema" /\ cs[2].nombre = "proveedor" /\ cs[3].nombre = "modelo"
      /\ cs[4].nombre = "tarea" /\ cs[5].nombre = "perfil"
      /\ cs[3].pone = g["modelo"] /\ cs[4].pone = {Temperatura}
    BY DEF capas
<1> HIDE DEF cs
<1>2. o = [k \in {x \in Claves \ SinEquivalente : Ponen(cs, x) # {}} |->
              cs[Max(Ponen(cs, k))].nombre]
    BY DEF componer, cs
<1>3. ASSUME NEW k, Ponen(cs, k) # {}
      PROVE  /\ Max(Ponen(cs, k)) \in Ponen(cs, k)
             /\ \A i \in Ponen(cs, k) : i <= Max(Ponen(cs, k))
             /\ Ponen(cs, k) \subseteq 1..5
    <2>1. Ponen(cs, k) \subseteq 1..5
        BY <1>1 DEF Ponen
    <2>2. \E m \in Ponen(cs, k) : \A i \in Ponen(cs, k) : m >= i
        <3>1. CASE 5 \in Ponen(cs, k)
            BY <2>1, <3>1
        <3>2. CASE 5 \notin Ponen(cs, k) /\ 4 \in Ponen(cs, k)
            BY <2>1, <3>2
        <3>3. CASE Ponen(cs, k) \subseteq 1..3 /\ 3 \in Ponen(cs, k)
            BY <3>3
        <3>4. CASE Ponen(cs, k) \subseteq 1..2 /\ 2 \in Ponen(cs, k)
            BY <3>4
        <3>5. CASE Ponen(cs, k) \subseteq {1}
            BY <1>3, <3>5
        <3> QED
            BY <2>1, <3>1, <3>2, <3>3, <3>4, <3>5
    <2>3. Max(Ponen(cs, k)) \in Ponen(cs, k)
          /\ \A i \in Ponen(cs, k) : Max(Ponen(cs, k)) >= i
        BY <2>2 DEF Max
    <2> QED
        BY <2>1, <2>3
<1>4. Temperatura \in Claves \ SinEquivalente
    BY AICallsAssumption, ClasesDeParametro
<1>5. 4 \in Ponen(cs, Temperatura)
    BY <1>1 DEF Ponen
<1>6. Max(Ponen(cs, Temperatura)) \in {4, 5}
    BY <1>3, <1>5
<1>7. Temperatura \in DOMAIN o /\ o[Temperatura] \in {"tarea", "perfil"}
    BY <1>1, <1>2, <1>4, <1>5, <1>6
<1>8. ASSUME NEW k \in DOMAIN o, k \in g["modelo"] PROVE o[k] # "proveedor"
    <2>1. 3 \in Ponen(cs, k)
        BY <1>1, <1>8 DEF Ponen
    <2>2. Max(Ponen(cs, k)) \in {3, 4, 5}
        BY <1>3, <2>1
    <2>3. o[k] = cs[Max(Ponen(cs, k))].nombre
        BY <1>2, <1>8
    <2> QED
        BY <1>1, <2>2, <2>3
<1>9. DOMAIN o \subseteq Claves
    BY <1>2
<1> QED
    BY <1>7, <1>8, <1>9

(* An idle call.                                                           *)
LEMMA LaCallada ==
    /\ SinNotas \in Notas /\ NotasCiertas(SinNotas)
    /\ Callada \in TiposLlamada /\ Callada.pc = "libre" /\ Aprende(Callada)
    /\ SinRechazos \in [Modelos \X Refusables -> 0..2]
<1>1. SinNotas \in Notas
    BY DEF SinNotas, Notas, Limites
<1>2. NotasCiertas(SinNotas)
    BY DEF SinNotas, NotasCiertas
<1>3. (CHOOSE m \in Modelos : TRUE) \in Modelos
    BY AICallsAssumption
<1>4. Callada \in TiposLlamada /\ Callada.pc = "libre"
    BY <1>1, <1>3 DEF Callada, TiposLlamada
<1>5. Aprende(Callada)
    BY <1>4 DEF Aprende
<1>6. SinRechazos \in [Modelos \X Refusables -> 0..2]
    BY DEF SinRechazos
<1> QED
    BY <1>1, <1>2, <1>4, <1>5, <1>6

(* One call moves; the notes stay true.                                    *)
LEMMA UnaLlamadaSigue ==
    ASSUME InvLlamadas, NEW c \in Llamadas, NEW q \in TiposLlamada, Aprende(q),
           llamada' = [llamada EXCEPT ![c] = q],
           notas' \in Notas, NotasCiertas(notas'), leccionesPerdidas' \in BOOLEAN,
           rechazos' \in [Modelos \X Refusables -> 0..2],
           UNCHANGED <<sin_razonamiento, conmutaciones>>
    PROVE  InvLlamadas'
<1>1. llamada' \in [Llamadas -> TiposLlamada]
      /\ \A d \in Llamadas : llamada'[d] = IF d = c THEN q ELSE llamada[d]
    BY DEF InvLlamadas, FormaLlamadas
<1>2. FormaLlamadas'
    BY <1>1 DEF InvLlamadas, FormaLlamadas
<1>3. \A d \in Llamadas : Aprende(llamada'[d])
    BY <1>1 DEF InvLlamadas
<1> QED
    BY <1>2, <1>3 DEF InvLlamadas, NotasCiertas, Aprende, UnLimite

(* The count of refusals stays a count.                                    *)
LEMMA AlContarRechazos ==
    ASSUME FormaLlamadas, NEW cuenta \in [Modelos \X Refusables -> 0..2], Contar(cuenta)
    PROVE  rechazos' \in [Modelos \X Refusables -> 0..2]
BY LaCallada DEF Contar

(* The notes n tell that model m does not take x.                          *)
Sabido(n, m, x) ==
    \/ x \in n.no_admitidos[m]
    \/ x = Temperatura /\ n.sin_temperatura
    \/ x = Razonar /\ n.sin_razonamiento_no_admitido
    \/ x \in Limites /\ x # n.token_param

(* A call begins: nothing it sends is in the notes as refused.             *)
LEMMA AlLlamar ==
    ASSUME InvLlamadas, NEW c \in Llamadas, NEW m \in Modelos, NEW g \in Configuraciones,
           NEW e \in BOOLEAN, _run(c, m, g, e)
    PROVE  \E q \in TiposLlamada :
              /\ llamada' = [llamada EXCEPT ![c] = q] /\ Aprende(q)
              /\ q.pc = "enviar" /\ q.modelo = m /\ q.vista = notas /\ q.aprendido = {}
              /\ \A x \in q.envia : ~Sabido(notas, m, x)
<1> DEFINE o == componer(g, e)
           t == IF notas.sin_temperatura THEN {Temperatura} ELSE {}
           z == IF sin_razonamiento /\ ~notas.sin_razonamiento_no_admitido
                THEN {Razonar} ELSE {}
           s == ((DOMAIN o \ notas.no_admitidos[m]) \ t) \cup {notas.token_param} \cup z
           q == [Callada EXCEPT !.pc = "enviar", !.modelo = m, !.vista = notas,
                                !.fila = "sin confirmar", !.guardadas = g, !.origen = o,
                                !.envia = s]
<1>1. llamada' = [llamada EXCEPT ![c] = q]
    BY DEF _run
<1>2. /\ notas \in Notas /\ notas.token_param \in Limites /\ NotasCiertas(notas)
      /\ notas.no_admitidos[m] \subseteq Opcionales
    BY DEF InvLlamadas, FormaLlamadas, Notas
<1>3. DOMAIN o \subseteq Claves /\ o \in Composiciones
    BY LoCompuesto DEF Composiciones
<1> HIDE DEF o
<1>4. s \subseteq Refusables
    BY <1>2, <1>3, ClasesDeParametro
<1>5. s \cap Limites = {notas.token_param}
    BY <1>2, <1>3, ClasesDeParametro
<1>6. \A x \in s : ~Sabido(notas, m, x)
    BY <1>2, <1>3, ClasesDeParametro DEF Sabido
<1> HIDE DEF s
<1>7. /\ q \in TiposLlamada /\ q.pc = "enviar" /\ q.modelo = m /\ q.vista = notas
      /\ q.aprendido = {} /\ q.envia = s /\ q.guardadas = g /\ q.origen = o
    <2>1. Callada \in TiposLlamada /\ Callada.aprendido = {}
        BY LaCallada DEF Callada
    <2> QED
        BY <1>2, <1>3, <1>4, <2>1 DEF TiposLlamada
<1> HIDE DEF q
<1>8. Aprende(q)
    <2>1. UnLimite(q)
        BY <1>5, <1>7 DEF UnLimite
    <2>2. \E b \in BOOLEAN : q.guardadas \in Configuraciones /\ q.origen = componer(q.guardadas, b)
        BY <1>7 DEF o
    <2> QED
        BY <1>2, <1>7, <2>1, <2>2 DEF Aprende
<1> QED
    BY <1>1, <1>6, <1>7, <1>8

(* What is left of a call that ends.                                       *)
LEMMA LoQueQueda ==
    ASSUME NEW p \in TiposLlamada, NEW final \in {"COMPLETADA", "ERROR"}, NEW m \in Modelos,
           p.aprendido \subseteq Rechaza[m] \ {Razonar}
    PROVE  /\ PorCerrar(p, final) \in TiposLlamada /\ Aprende(PorCerrar(p, final))
           /\ PorCerrar(p, final).pc = "cerrar" /\ PorCerrar(p, final).final = final
           /\ PorCerrar(p, final).aprendido = p.aprendido
<1>1. Callada \in TiposLlamada
    BY LaCallada
<1>2. /\ PorCerrar(p, final) \in TiposLlamada /\ PorCerrar(p, final).pc = "cerrar"
      /\ PorCerrar(p, final).aprendido = p.aprendido /\ PorCerrar(p, final).final = final
    BY <1>1 DEF PorCerrar, TiposLlamada
<1> QED
    BY <1>2 DEF Aprende

(* A refused parameter is dropped or renamed.                              *)
LEMMA AlCorregir ==
    ASSUME NEW p \in TiposLlamada, Aprende(p), p.pc = "enviar",
           NEW x \in p.envia \cap Rechaza[p.modelo], x # Razonar
    PROVE  /\ _corregir(p, x) \in TiposLlamada /\ Aprende(_corregir(p, x))
           /\ _corregir(p, x).aprendido = p.aprendido \cup {x}
           /\ \/ /\ _corregir(p, x).pc = "enviar"
                 /\ _corregir(p, x).modelo = p.modelo /\ _corregir(p, x).vista = p.vista
                 /\ \A y \in _corregir(p, x).envia :
                       \/ y \in p.envia /\ y # x
                       \/ x \in Limites /\ y = OtroLimite(x)
              \/ /\ _corregir(p, x).pc = "cerrar"
                 /\ SinMasEnvios(Cardinality(p.aprendido \cup {x}))
<1> DEFINE s == (p.envia \ {x}) \cup (IF x \in Limites THEN {OtroLimite(x)} ELSE {})
           a == p.aprendido \cup {x}
           q == [p EXCEPT !.envia = s, !.aprendido = a]
           tp == p.vista.token_param
<1>1. /\ p.modelo \in Modelos /\ p.envia \subseteq Refusables /\ p.aprendido \subseteq Refusables
      /\ tp \in Limites /\ x \in Refusables
    BY DEF TiposLlamada, Notas
<1>2. s \subseteq Refusables /\ a \subseteq Refusables
    BY <1>1, DosLimites, ClasesDeParametro
<1>3. a \subseteq Rechaza[p.modelo] \ {Razonar}
    BY DEF Aprende
<1>4. x \in Limites => x = tp /\ p.envia \cap Limites = {tp}
    <2>1. \/ p.envia \cap Limites = {tp}
          \/ p.envia \cap Limites = {OtroLimite(tp)} /\ tp \in Rechaza[p.modelo]
        BY DEF Aprende, UnLimite
    <2>2. tp \in Rechaza[p.modelo] => OtroLimite(tp) \notin Rechaza[p.modelo]
        BY <1>1, ClasesDeParametro
    <2> QED
        BY <2>1, <2>2
<1>5. a \cap Limites \subseteq {tp}
    BY <1>4 DEF Aprende
<1>6. \/ s \cap Limites = {tp}
      \/ s \cap Limites = {OtroLimite(tp)} /\ tp \in Rechaza[p.modelo]
    <2>1. CASE x \in Limites
        BY <1>1, <1>4, <2>1, DosLimites
    <2>2. CASE x \notin Limites
        <3>1. s \cap Limites = p.envia \cap Limites
            BY <2>2
        <3> QED
            BY <3>1 DEF Aprende, UnLimite
    <2> QED
        BY <2>1, <2>2
<1>7. \A y \in s : (y \in p.envia /\ y # x) \/ (x \in Limites /\ y = OtroLimite(x))
    OBVIOUS
<1>8. _corregir(p, x) = IF SinMasEnvios(Cardinality(q.aprendido)) THEN PorCerrar(q, "ERROR")
                        ELSE q
    BY DEF _corregir, TiposLlamada
<1> HIDE DEF s, a
<1>9. /\ q \in TiposLlamada /\ q.pc = "enviar" /\ q.modelo = p.modelo /\ q.vista = p.vista
      /\ q.envia = s /\ q.aprendido = a /\ q.guardadas = p.guardadas /\ q.origen = p.origen
    BY <1>2 DEF TiposLlamada
<1> HIDE DEF q
<1>10. Aprende(q)
    BY <1>3, <1>5, <1>6, <1>9 DEF Aprende, UnLimite
<1>11. CASE SinMasEnvios(Cardinality(q.aprendido))
    <2>1. _corregir(p, x) = PorCerrar(q, "ERROR")
        BY <1>8, <1>11
    <2>2. /\ PorCerrar(q, "ERROR") \in TiposLlamada /\ Aprende(PorCerrar(q, "ERROR"))
          /\ PorCerrar(q, "ERROR").pc = "cerrar" /\ PorCerrar(q, "ERROR").aprendido = a
        BY <1>1, <1>3, <1>9, LoQueQueda
    <2> QED
        BY <1>9, <1>11, <2>1, <2>2 DEF a
<1>12. CASE ~SinMasEnvios(Cardinality(q.aprendido))
    BY <1>7, <1>8, <1>9, <1>10, <1>12 DEF a
<1> QED
    BY <1>11, <1>12

(* The notes written again over those the call had read.                   *)
LEMMA AlRecordar ==
    ASSUME InvLlamadas, NEW p \in TiposLlamada, Aprende(p), p.pc = "enviar"
    PROVE  /\ _recordar(p) \in Notas /\ NotasCiertas(_recordar(p))
           /\ p.vista = notas =>
                 /\ \A x \in p.aprendido : Sabido(_recordar(p), p.modelo, x)
                 /\ _recordar(p).sin_razonamiento_no_admitido
                       = notas.sin_razonamiento_no_admitido
                 /\ notas.sin_temperatura => _recordar(p).sin_temperatura
                 /\ \A m \in Modelos : notas.no_admitidos[m] \subseteq _recordar(p).no_admitidos[m]
                 /\ \/ _recordar(p).token_param = notas.token_param
                    \/ notas.token_param \in Rechaza[p.modelo]
<1>0. p.modelo \in Modelos /\ p.vista \in Notas /\ p.aprendido \subseteq Rechaza[p.modelo]
      /\ p.aprendido \subseteq Refusables /\ Razonar \notin p.aprendido
    BY DEF TiposLlamada, Aprende
<1>1. CASE p.aprendido = {}
    BY <1>1 DEF _recordar, InvLlamadas, FormaLlamadas
<1>2. CASE p.aprendido # {}
    <2> DEFINE v == p.vista
               tp == IF p.aprendido \cap Limites = {} THEN v.token_param
                     ELSE OtroLimite(v.token_param)
               st == (v.sin_temperatura \/ Temperatura \in p.aprendido)
               na == PorModelo(v.no_admitidos, p)
               n == [v EXCEPT !.token_param = tp, !.sin_temperatura = st, !.no_admitidos = na]
    <2>1. _recordar(p) = n
        BY <1>0, <1>2 DEF _recordar, Notas
    <2>2. st \in BOOLEAN
        OBVIOUS
    <2>3. tp \in Limites
        BY <1>0, DosLimites DEF Notas
    <2>4. v.no_admitidos \in [Modelos -> SUBSET Opcionales]
        BY <1>0 DEF Notas
    <2>5. /\ na \in [Modelos -> SUBSET Opcionales]
          /\ \A m \in Modelos : v.no_admitidos[m] \subseteq na[m]
          /\ \A m \in Modelos : na[m] \subseteq Rechaza[m]
          /\ p.aprendido \cap Opcionales \subseteq na[p.modelo]
        BY <1>0, <2>4 DEF PorModelo, Aprende, NotasCiertas
    <2>6. v.token_param \in p.aprendido \/ p.aprendido \cap Limites = {}
        BY DEF Aprende
    <2>7. p.aprendido \cap Limites \subseteq {v.token_param}
        BY DEF Aprende
    <2>8. Temperatura \in p.aprendido => st
        OBVIOUS
    <2>9. v.sin_temperatura => st
        OBVIOUS
    <2> HIDE DEF st, na
    <2>10. /\ n \in Notas /\ n.token_param = tp /\ n.sin_temperatura = st /\ n.no_admitidos = na
           /\ n.sin_razonamiento_no_admitido = v.sin_razonamiento_no_admitido
        BY <1>0, <2>2, <2>3, <2>5 DEF Notas
    <2> HIDE DEF n
    <2>11. NotasCiertas(n)
        BY <2>5, <2>10 DEF NotasCiertas
    <2>12. ASSUME NEW x \in p.aprendido PROVE Sabido(n, p.modelo, x)
        <3>1. CASE x \in Opcionales
            BY <2>5, <2>10, <3>1 DEF Sabido
        <3>2. CASE x = Temperatura
            BY <2>8, <2>10, <2>12, <3>2 DEF Sabido
        <3>3. CASE x \in Limites
            <4>1. x = v.token_param /\ tp = OtroLimite(x)
                BY <2>7, <3>3
            <4> QED
                BY <2>10, <3>3, <4>1, DosLimites DEF Sabido
        <3> QED
            BY <1>0, <3>1, <3>2, <3>3, ClasesDeParametro
    <2>13. tp = v.token_param \/ v.token_param \in Rechaza[p.modelo]
        BY <1>0, <2>6
    <2> HIDE DEF tp
    <2> QED
        BY <2>1, <2>5, <2>9, <2>10, <2>11, <2>12, <2>13
<1> QED
    BY <1>1, <1>2

(* The endpoint refuses a parameter: the call corrects itself, or leaves   *)
(* off «do not reason» and writes it down at once.                         *)
LEMMA AlRechazar ==
    ASSUME InvLlamadas, NEW c \in Llamadas, NEW x \in Refusables, Rechazar(c, x)
    PROVE  /\ llamada[c].pc = "enviar" /\ x \in llamada[c].envia
           /\ x \in Rechaza[llamada[c].modelo]
           /\ \/ /\ x # Razonar /\ UNCHANGED <<notas, leccionesPerdidas>>
                 /\ llamada' = [llamada EXCEPT ![c] = _corregir(llamada[c], x)]
              \/ /\ x = Razonar
                 /\ leccionesPerdidas' = (leccionesPerdidas \/ llamada[c].aprendido # {})
                 /\ notas' = [llamada[c].vista EXCEPT !.sin_razonamiento_no_admitido = TRUE]
                 /\ \E q \in TiposLlamada :
                       /\ llamada' = [llamada EXCEPT ![c] = q] /\ Aprende(q)
                       /\ q.pc = "enviar" /\ q.modelo = llamada[c].modelo
                       /\ q.vista = notas' /\ q.aprendido = {}
                       /\ q.envia = llamada[c].envia \ {Razonar}
           /\ InvLlamadas'
<1> DEFINE p == llamada[c]
<1>1. /\ p \in TiposLlamada /\ Aprende(p) /\ FormaLlamadas /\ NotasCiertas(notas)
      /\ notas \in Notas /\ p.vista \in Notas /\ p.envia \subseteq Refusables
    BY DEF InvLlamadas, FormaLlamadas, TiposLlamada
<1>2. /\ p.pc = "enviar" /\ x \in p.envia \cap Rechaza[p.modelo]
      /\ UNCHANGED <<sin_razonamiento, conmutaciones>>
    BY DEF Rechazar
<1>3. rechazos' \in [Modelos \X Refusables -> 0..2]
    <2> DEFINE y0 == <<p.modelo, x>>
               v == IF rechazos[y0] < 2 THEN rechazos[y0] + 1 ELSE 2
               r == [rechazos EXCEPT ![y0] = v]
    <2>1. Contar(r)
        BY DEF Rechazar
    <2>2. rechazos[y0] \in 0..2
        BY <1>1 DEF FormaLlamadas, TiposLlamada
    <2>3. v \in 0..2
        BY <2>2
    <2> HIDE DEF v, y0
    <2>4. r \in [Modelos \X Refusables -> 0..2]
        BY <1>1, <2>3 DEF FormaLlamadas
    <2> HIDE DEF r
    <2> QED
        BY <1>1, <2>1, <2>4, AlContarRechazos
<1>4. CASE /\ x # Razonar /\ UNCHANGED <<notas, leccionesPerdidas>>
           /\ llamada' = [llamada EXCEPT ![c] = _corregir(p, x)]
    <2>1. _corregir(p, x) \in TiposLlamada /\ Aprende(_corregir(p, x))
        <3> HIDE DEF p
        <3> QED
            BY <1>1, <1>2, <1>4, AlCorregir
    <2>2. leccionesPerdidas' \in BOOLEAN
        BY <1>1, <1>4 DEF FormaLlamadas
    <2>3. InvLlamadas'
        BY <1>1, <1>2, <1>3, <1>4, <2>1, <2>2, UnaLlamadaSigue
    <2> QED
        BY <1>2, <1>4, <2>3
<1>5. CASE /\ x = Razonar
           /\ notas' = [p.vista EXCEPT !.sin_razonamiento_no_admitido = TRUE]
           /\ llamada' = [llamada EXCEPT ![c] = [p EXCEPT
                 !.envia = @ \ {Razonar}, !.vista = notas', !.aprendido = {},
                 !.fila = "EN_CURSO"]]
           /\ leccionesPerdidas' = (leccionesPerdidas \/ p.aprendido # {})
    <2> DEFINE q == [p EXCEPT !.envia = p.envia \ {Razonar}, !.vista = notas',
                              !.aprendido = {}, !.fila = "EN_CURSO"]
    <2>1. /\ notas' \in Notas /\ notas'.no_admitidos = p.vista.no_admitidos
          /\ notas'.token_param = p.vista.token_param
        BY <1>1, <1>5 DEF Notas
    <2>2. NotasCiertas(notas')
        BY <1>1, <1>2, <2>1 DEF Aprende, NotasCiertas
    <2>3. /\ q \in TiposLlamada /\ q.pc = "enviar" /\ q.modelo = p.modelo /\ q.vista = notas'
          /\ q.aprendido = {} /\ q.envia = p.envia \ {Razonar}
          /\ q.guardadas = p.guardadas /\ q.origen = p.origen
        BY <1>1, <1>2, <2>1 DEF TiposLlamada
    <2>4. llamada' = [llamada EXCEPT ![c] = q]
        BY <1>1, <1>5 DEF TiposLlamada
    <2> HIDE DEF q
    <2>5. q.envia \cap Limites = p.envia \cap Limites
        BY <2>3, ClasesDeParametro
    <2>6. Aprende(q)
        BY <1>1, <1>2, <2>1, <2>2, <2>3, <2>5 DEF Aprende, UnLimite
    <2>7. leccionesPerdidas' \in BOOLEAN
        BY <1>1, <1>5 DEF FormaLlamadas
    <2>8. InvLlamadas'
        BY <1>2, <1>3, <2>1, <2>2, <2>3, <2>4, <2>6, <2>7, UnaLlamadaSigue
    <2> QED
        BY <1>2, <1>5, <2>3, <2>4, <2>6, <2>8
<1> QED
    BY <1>4, <1>5 DEF Rechazar

(* A call ends, one way or another: it goes on idle or about to close.     *)
LEMMA AlAcabar ==
    ASSUME InvLlamadas, NEW c \in Llamadas,
           \/ Responder(c) \/ SinRespuesta(c) \/ CerrarEjecucion(c) \/ MorirLlamando(c)
    PROVE  /\ \E q \in TiposLlamada : /\ llamada' = [llamada EXCEPT ![c] = q]
                                      /\ Aprende(q) /\ q.pc # "enviar"
           /\ InvLlamadas'
<1> DEFINE p == llamada[c]
<1>1. /\ p \in TiposLlamada /\ Aprende(p) /\ FormaLlamadas /\ NotasCiertas(notas)
      /\ notas \in Notas /\ p.modelo \in Modelos /\ p.fila \in {"ninguna", "sin confirmar",
         "EN_CURSO", "COMPLETADA", "ERROR"}
      /\ rechazos \in [Modelos \X Refusables -> 0..2] /\ leccionesPerdidas \in BOOLEAN
    BY DEF InvLlamadas, FormaLlamadas, TiposLlamada
<1>2. CASE Responder(c)
    <2>1. PICK final \in {"COMPLETADA", "ERROR"} :
             llamada' = [llamada EXCEPT ![c] = [PorCerrar(p, final) EXCEPT
                !.fila = IF p.aprendido = {} THEN @ ELSE "EN_CURSO"]]
        BY <1>2 DEF Responder
    <2> DEFINE o == PorCerrar(p, final)
               q == [o EXCEPT !.fila = IF p.aprendido = {} THEN o.fila ELSE "EN_CURSO"]
    <2>2. o \in TiposLlamada /\ Aprende(o) /\ o.pc = "cerrar"
        BY <1>1, <1>2, LoQueQueda DEF Responder, Aprende
    <2>3. llamada' = [llamada EXCEPT ![c] = q]
        BY <2>1, <2>2 DEF TiposLlamada
    <2> HIDE DEF o
    <2>4. /\ q \in TiposLlamada /\ q.pc = "cerrar" /\ q.aprendido = o.aprendido
          /\ q.final = o.final
        BY <2>2 DEF TiposLlamada
    <2>5. Aprende(q)
        BY <2>2, <2>4 DEF Aprende
    <2> HIDE DEF q
    <2>6. notas' \in Notas /\ NotasCiertas(notas')
        BY <1>1, <1>2, AlRecordar DEF Responder
    <2>7. UNCHANGED <<sin_razonamiento, rechazos, leccionesPerdidas, conmutaciones>>
        BY <1>2 DEF Responder
    <2>8. rechazos' \in [Modelos \X Refusables -> 0..2] /\ leccionesPerdidas' \in BOOLEAN
        BY <1>1, <2>7
    <2>9. InvLlamadas'
        BY <2>3, <2>4, <2>5, <2>6, <2>7, <2>8, UnaLlamadaSigue
    <2> QED
        BY <2>3, <2>4, <2>5, <2>9
<1>3. CASE SinRespuesta(c)
    <2> DEFINE q == PorCerrar(p, "ERROR")
    <2>1. q \in TiposLlamada /\ Aprende(q) /\ q.pc = "cerrar"
        BY <1>1, <1>3, LoQueQueda DEF SinRespuesta, Aprende
    <2>2. /\ llamada' = [llamada EXCEPT ![c] = q] /\ Contar(rechazos)
          /\ leccionesPerdidas' = (leccionesPerdidas \/ p.aprendido # {})
          /\ UNCHANGED <<sin_razonamiento, notas, conmutaciones>>
        BY <1>3 DEF SinRespuesta, Falla
    <2> HIDE DEF q
    <2>3. rechazos' \in [Modelos \X Refusables -> 0..2] /\ leccionesPerdidas' \in BOOLEAN
        BY <1>1, <2>2, AlContarRechazos
    <2>4. InvLlamadas'
        BY <1>1, <2>1, <2>2, <2>3, UnaLlamadaSigue
    <2> QED
        BY <2>1, <2>2, <2>4
<1>4. ASSUME NEW f \in {"ninguna", "sin confirmar", "EN_CURSO", "COMPLETADA", "ERROR",
                        "ninguno"},
             f # "ninguno"
      PROVE  /\ [Callada EXCEPT !.fila = f] \in TiposLlamada
             /\ Aprende([Callada EXCEPT !.fila = f])
             /\ [Callada EXCEPT !.fila = f].pc = "libre"
    <2> DEFINE q == [Callada EXCEPT !.fila = f]
    <2>1. q \in TiposLlamada /\ q.pc = "libre"
        BY <1>4, LaCallada DEF TiposLlamada
    <2> HIDE DEF q
    <2>2. Aprende(q)
        BY <2>1 DEF Aprende
    <2> QED
        BY <2>1, <2>2 DEF q
<1>5. CASE CerrarEjecucion(c) /\ p.final # "ninguno"
    <2> DEFINE q == [Callada EXCEPT !.fila = p.final]
    <2>1. q \in TiposLlamada /\ Aprende(q) /\ q.pc = "libre"
        BY <1>1, <1>4, <1>5 DEF TiposLlamada
    <2>2. /\ llamada' = [llamada EXCEPT ![c] = q]
          /\ UNCHANGED <<sin_razonamiento, notas, rechazos, leccionesPerdidas, conmutaciones>>
        BY <1>5 DEF CerrarEjecucion
    <2> HIDE DEF q
    <2>3. rechazos' \in [Modelos \X Refusables -> 0..2] /\ leccionesPerdidas' \in BOOLEAN
          /\ notas' \in Notas /\ NotasCiertas(notas')
        BY <1>1, <2>2
    <2>4. InvLlamadas'
        BY <2>1, <2>2, <2>3, UnaLlamadaSigue
    <2> QED
        BY <2>1, <2>2, <2>4
<1>6. CASE MorirLlamando(c)
    <2> DEFINE f == IF p.fila = "EN_CURSO" THEN "EN_CURSO" ELSE "ninguna"
               q == [Callada EXCEPT !.fila = f]
    <2>1. q \in TiposLlamada /\ Aprende(q) /\ q.pc = "libre"
        BY <1>4
    <2>2. /\ llamada' = [llamada EXCEPT ![c] = q]
          /\ leccionesPerdidas' = TRUE /\ rechazos' = SinRechazos
          /\ UNCHANGED <<sin_razonamiento, notas, conmutaciones>>
        BY <1>6 DEF MorirLlamando
    <2> HIDE DEF q
    <2>3. rechazos' \in [Modelos \X Refusables -> 0..2] /\ leccionesPerdidas' \in BOOLEAN
          /\ notas' \in Notas /\ NotasCiertas(notas')
        BY <1>1, <2>2, LaCallada
    <2>4. InvLlamadas'
        BY <2>1, <2>2, <2>3, UnaLlamadaSigue
    <2> QED
        BY <2>1, <2>2, <2>4
<1>7. CASE CerrarEjecucion(c) /\ p.final = "ninguno"
    BY <1>1, <1>7 DEF CerrarEjecucion, Aprende
<1> QED
    BY <1>2, <1>3, <1>5, <1>6, <1>7

(* No call, nothing refused.                                               *)
LEMMA LlamadasAlPrincipio == InitLlamadas => InvLlamadas
<1> SUFFICES ASSUME InitLlamadas PROVE InvLlamadas
    OBVIOUS
<1>1. FormaLlamadas
    <2>1. llamada \in [Llamadas -> TiposLlamada]
        BY LaCallada DEF InitLlamadas
    <2>2. conmutaciones \in 0..MaxConmutaciones
        BY AICallsAssumption DEF InitLlamadas
    <2> QED
        BY <2>1, <2>2, LaCallada DEF InitLlamadas, FormaLlamadas
<1>2. NotasCiertas(notas) /\ \A c \in Llamadas : Aprende(llamada[c])
    BY LaCallada DEF InitLlamadas
<1> QED
    BY <1>1, <1>2 DEF InvLlamadas

(* Any step keeps what a call has learned true.                            *)
LEMMA LlamadasPaso ==
    ASSUME InvLlamadas, [NextLlamadas]_varsLlamadas PROVE InvLlamadas'
<1>1. ASSUME NEW c \in Llamadas, NEW m \in Modelos, NEW g \in Configuraciones,
             NEW e \in BOOLEAN, _run(c, m, g, e)
      PROVE  InvLlamadas'
    <2>1. PICK q \in TiposLlamada : llamada' = [llamada EXCEPT ![c] = q] /\ Aprende(q)
        BY <1>1, AlLlamar
    <2>2. /\ UNCHANGED <<sin_razonamiento, notas, conmutaciones>> /\ Contar(rechazos)
          /\ leccionesPerdidas' = (leccionesPerdidas \/ EnVuelo # {})
        BY <1>1 DEF _run
    <2>3. /\ leccionesPerdidas' \in BOOLEAN /\ notas' \in Notas /\ NotasCiertas(notas')
          /\ rechazos' \in [Modelos \X Refusables -> 0..2]
        BY <2>2, AlContarRechazos DEF InvLlamadas, FormaLlamadas
    <2> QED
        BY <2>1, <2>2, <2>3, UnaLlamadaSigue
<1>2. CASE update_razonamiento
    <2>1. /\ conmutaciones < MaxConmutaciones /\ conmutaciones' = conmutaciones + 1
          /\ sin_razonamiento' = ~sin_razonamiento
          /\ notas' = [notas EXCEPT !.sin_razonamiento_no_admitido = FALSE]
          /\ leccionesPerdidas' = TRUE /\ rechazos' = SinRechazos /\ UNCHANGED llamada
        BY <1>2 DEF update_razonamiento
    <2>2. notas' \in Notas /\ NotasCiertas(notas')
        BY <2>1 DEF InvLlamadas, FormaLlamadas, Notas, NotasCiertas
    <2>3. conmutaciones' \in 0..MaxConmutaciones
        BY <2>1, AICallsAssumption DEF InvLlamadas, FormaLlamadas
    <2>4. FormaLlamadas'
        BY <2>1, <2>2, <2>3, LaCallada DEF InvLlamadas, FormaLlamadas
    <2>5. \A c \in Llamadas : Aprende(llamada'[c])
        BY <2>1 DEF InvLlamadas
    <2> QED
        BY <2>2, <2>4, <2>5 DEF InvLlamadas, NotasCiertas, Aprende, UnLimite
<1>3. CASE UNCHANGED varsLlamadas
    BY <1>3 DEF varsLlamadas, InvLlamadas, FormaLlamadas, NotasCiertas, Aprende, UnLimite
<1> QED
    BY <1>1, <1>2, <1>3, AlRechazar, AlAcabar DEF NextLlamadas

(* What a call has learned is what its model refuses.                      *)
LEMMA SiempreInvLlamadas == SpecLlamadas => []InvLlamadas
<1>1. InitLlamadas => InvLlamadas
    BY LlamadasAlPrincipio
<1>2. InvLlamadas /\ [NextLlamadas]_varsLlamadas => InvLlamadas'
    BY LlamadasPaso
<1> QED
    BY <1>1, <1>2, PTL DEF SpecLlamadas

(* Every variable of a call to a model stays in its domain.                *)
THEOREM TiposDeLlamadas == SpecLlamadas => []TipoLlamadas
<1>1. InvLlamadas => TipoLlamadas
    BY DEF InvLlamadas, FormaLlamadas, TiposLlamada, Notas, TipoLlamadas
<1> QED
    BY <1>1, SiempreInvLlamadas, PTL

(* No setting is kept from a model that takes it, and no layer below the   *)
(* task's undoes what the task asks for: whatever calls overlap or die.    *)
THEOREM NadaQueNoSeRechazara == SpecLlamadas => [](SoloLoRechazado /\ LaTareaPorEncima)
<1>1. ASSUME InvLlamadas PROVE SoloLoRechazado
    BY <1>1 DEF InvLlamadas, NotasCiertas, SoloLoRechazado
<1>2. ASSUME InvLlamadas, NEW c \in Llamadas, llamada[c].pc = "enviar"
      PROVE  /\ llamada[c].origen[Temperatura] \in {"tarea", "perfil"}
             /\ \A k \in DOMAIN llamada[c].origen \cap llamada[c].guardadas["modelo"] :
                   llamada[c].origen[k] # "proveedor"
    <2>1. PICK e \in BOOLEAN : /\ llamada[c].guardadas \in Configuraciones
                               /\ llamada[c].origen = componer(llamada[c].guardadas, e)
        BY <1>2 DEF InvLlamadas, Aprende
    <2> QED
        BY <2>1, LoCompuesto
<1>3. InvLlamadas => SoloLoRechazado /\ LaTareaPorEncima
    BY <1>1, <1>2 DEF LaTareaPorEncima
<1> QED
    BY <1>3, SiempreInvLlamadas, PTL

(* The corrections allowed are enough: a parameter a model refuses is      *)
(* dropped or renamed once ("token limit, temperature, and each optional   *)
(* parameter"), so it needs as many as the model refuses things.           *)
BastanCorrecciones ==
    \A m \in Modelos : /\ IsFiniteSet(Rechaza[m])
                       /\ Cardinality(Rechaza[m] \ {Razonar}) <= MaxCorrecciones

(* The limit has one name for the whole provider: its models do not refuse *)
(* one name and the other.                                                 *)
UnSoloNombre == \A m, n \in Modelos : ~(Limites \subseteq Rechaza[m] \cup Rechaza[n])

(* What a call has learned is no more than the corrections allowed.        *)
LEMMA LoAprendidoCabe ==
    ASSUME BastanCorrecciones, NEW m \in Modelos, NEW s, s \subseteq Rechaza[m] \ {Razonar}
    PROVE  Cardinality(s) <= MaxCorrecciones /\ ~SinMasEnvios(Cardinality(s))
<1>1. IsFiniteSet(Rechaza[m] \ {Razonar})
    BY FS_Subset DEF BastanCorrecciones
<1>2. /\ Cardinality(Rechaza[m] \ {Razonar}) \in Nat /\ IsFiniteSet(s) /\ Cardinality(s) \in Nat
      /\ Cardinality(s) <= Cardinality(Rechaza[m] \ {Razonar})
    BY <1>1, FS_Subset, FS_CardinalityType
<1> QED
    BY <1>2, AICallsAssumption DEF BastanCorrecciones, SinMasEnvios

(* Some call has learned, of model m, that it does not take x.             *)
Aprendiendo(m, x) ==
    \E c \in Llamadas : /\ llamada[c].pc = "enviar" /\ llamada[c].modelo = m
                        /\ x \in llamada[c].aprendido

(* A call over the notes as they are, sending nothing refused before.      *)
AlDia(p) == /\ p.vista = notas
            /\ \A x \in p.envia : rechazos[<<p.modelo, x>>] = 0

RechazosCiertos ==
    \A m \in Modelos, x \in Refusables : rechazos[<<m, x>>] # 0 => x \in Rechaza[m]

UnaEnVuelo ==
    \A c, d \in Llamadas : c # d => llamada[c].pc = "libre" \/ llamada[d].pc = "libre"

CadaRechazoConsta ==
    \A m \in Modelos, x \in Refusables :
       rechazos[<<m, x>>] # 0 =>
          rechazos[<<m, x>>] = 1 /\ (Sabido(notas, m, x) \/ Aprendiendo(m, x))

SinRepetir ==
    /\ RechazosCiertos
    /\ ~leccionesPerdidas =>
          /\ UnaEnVuelo /\ CadaRechazoConsta
          /\ \A c \in Llamadas : llamada[c].pc = "enviar" => AlDia(llamada[c])

(* What is known of a refusal is not forgotten when more is.               *)
SigueSabido(n) == \A m \in Modelos, x \in Refusables :
                     rechazos[<<m, x>>] # 0 /\ Sabido(notas, m, x) => Sabido(n, m, x)

(* The only call in flight goes on, or ends: enough for the invariant.     *)
LEMMA SigueSinRepetir ==
    ASSUME InvLlamadas, SinRepetir, InvLlamadas', ~leccionesPerdidas, ~leccionesPerdidas',
           NEW c \in Llamadas, NEW q, llamada' = [llamada EXCEPT ![c] = q],
           \A d \in Llamadas : d # c => llamada[d].pc = "libre",
           q.pc = "enviar" => AlDia(q)',
           RechazosCiertos',
           \A m \in Modelos, x \in Refusables :
              rechazos'[<<m, x>>] # 0 =>
                 /\ rechazos'[<<m, x>>] = 1
                 /\ \/ Sabido(notas', m, x)
                    \/ q.pc = "enviar" /\ q.modelo = m /\ x \in q.aprendido
    PROVE  SinRepetir'
<1>1. \A d \in Llamadas : llamada'[d] = IF d = c THEN q ELSE llamada[d]
    BY DEF InvLlamadas, FormaLlamadas
<1>2. UnaEnVuelo'
    BY <1>1 DEF UnaEnVuelo
<1>3. CadaRechazoConsta'
    <2>1. \A m, x : q.pc = "enviar" /\ q.modelo = m /\ x \in q.aprendido => Aprendiendo(m, x)'
        BY <1>1 DEF Aprendiendo
    <2> QED
        BY <2>1 DEF CadaRechazoConsta, Sabido
<1>4. \A d \in Llamadas : llamada'[d].pc = "enviar" => d = c
    BY <1>1
<1> QED
    BY <1>1, <1>2, <1>3, <1>4 DEF SinRepetir, AlDia

(* A call begins with nothing else in flight: it sends nothing refused.    *)
LEMMA LlamarSinRepetir ==
    ASSUME InvLlamadas, SinRepetir, InvLlamadas', ~leccionesPerdidas',
           NEW c \in Llamadas, NEW m \in Modelos, NEW g \in Configuraciones,
           NEW e \in BOOLEAN, _run(c, m, g, e)
    PROVE  SinRepetir'
<1>1. PICK q \in TiposLlamada :
         /\ llamada' = [llamada EXCEPT ![c] = q]
         /\ q.pc = "enviar" /\ q.modelo = m /\ q.vista = notas /\ q.aprendido = {}
         /\ \A x \in q.envia : ~Sabido(notas, m, x)
    BY AlLlamar
<1>2. /\ UNCHANGED notas /\ Contar(rechazos)
      /\ leccionesPerdidas' = (leccionesPerdidas \/ EnVuelo # {})
    BY DEF _run
<1>3. ~leccionesPerdidas /\ EnVuelo = {} /\ rechazos' = rechazos
    BY <1>2 DEF Contar
<1>4. \A d \in Llamadas : llamada[d].pc = "libre"
    BY <1>3 DEF EnVuelo
<1>5. ASSUME NEW n \in Modelos, NEW x \in Refusables, rechazos[<<n, x>>] # 0
      PROVE  rechazos[<<n, x>>] = 1 /\ Sabido(notas, n, x)
    BY <1>3, <1>4, <1>5 DEF SinRepetir, CadaRechazoConsta, Aprendiendo
<1>6. q.envia \subseteq Refusables
    BY DEF TiposLlamada
<1>7. \A x \in q.envia : rechazos[<<m, x>>] = 0
    BY <1>1, <1>5, <1>6
<1>8. AlDia(q)'
    BY <1>1, <1>2, <1>3, <1>7 DEF AlDia
<1>9. RechazosCiertos'
    BY <1>3 DEF SinRepetir, RechazosCiertos
<1>10. \A n \in Modelos, x \in Refusables :
          rechazos'[<<n, x>>] # 0 => rechazos'[<<n, x>>] = 1 /\ Sabido(notas', n, x)
    BY <1>2, <1>3, <1>5
<1> QED
    BY <1>1, <1>3, <1>4, <1>8, <1>9, <1>10, SigueSinRepetir

(* A refusal is of something not refused before, and it is noted.          *)
LEMMA RechazarSinRepetir ==
    ASSUME BastanCorrecciones, InvLlamadas, SinRepetir, InvLlamadas', ~leccionesPerdidas',
           NEW c \in Llamadas, NEW x \in Refusables, Rechazar(c, x)
    PROVE  SinRepetir'
<1> DEFINE p == llamada[c]
           m == p.modelo
           y0 == <<m, x>>
<1>1. /\ p \in TiposLlamada /\ Aprende(p) /\ p.pc = "enviar" /\ m \in Modelos
      /\ p.envia \subseteq Refusables /\ x \in p.envia \cap Rechaza[m]
      /\ rechazos \in [Modelos \X Refusables -> 0..2]
    BY AlRechazar DEF InvLlamadas, FormaLlamadas, TiposLlamada
<1>2. ~leccionesPerdidas
    BY AlRechazar
<1>3. /\ AlDia(p) /\ \A d \in Llamadas : d # c => llamada[d].pc = "libre"
    BY <1>1, <1>2 DEF SinRepetir, UnaEnVuelo
<1>4. rechazos[y0] = 0
    BY <1>1, <1>3 DEF AlDia
<1>5. rechazos' = [rechazos EXCEPT ![y0] = 1]
    <2>1. Contar([rechazos EXCEPT ![y0] = IF rechazos[y0] < 2 THEN rechazos[y0] + 1 ELSE 2])
        BY DEF Rechazar
    <2> QED
        BY <1>4, <2>1 DEF Contar
<1>6. ASSUME NEW n \in Modelos, NEW z \in Refusables
      PROVE  rechazos'[<<n, z>>] = IF n = m /\ z = x THEN 1 ELSE rechazos[<<n, z>>]
    <2>1. <<n, z>> \in Modelos \X Refusables /\ (<<n, z>> = y0 <=> n = m /\ z = x)
        OBVIOUS
    <2> HIDE DEF y0
    <2> QED
        BY <1>1, <1>5, <2>1
<1>7. RechazosCiertos'
    BY <1>1, <1>6 DEF SinRepetir, RechazosCiertos
<1>8. ASSUME NEW n \in Modelos, NEW z \in Refusables, rechazos[<<n, z>>] # 0
      PROVE  /\ rechazos[<<n, z>>] = 1
             /\ Sabido(notas, n, z) \/ (n = m /\ z \in p.aprendido)
    BY <1>2, <1>3, <1>8 DEF SinRepetir, CadaRechazoConsta, Aprendiendo
<1>9. CASE /\ x # Razonar /\ UNCHANGED notas
           /\ llamada' = [llamada EXCEPT ![c] = _corregir(p, x)]
    <2>0. PICK q : q = _corregir(p, x)
        OBVIOUS
    <2>1. p.aprendido \cup {x} \subseteq Rechaza[m] \ {Razonar}
        BY <1>1, <1>9 DEF Aprende
    <2>2. ~SinMasEnvios(Cardinality(p.aprendido \cup {x}))
        BY <1>1, <2>1, LoAprendidoCabe
    <2>3. /\ q.pc = "enviar" /\ q.modelo = m /\ q.vista = p.vista
          /\ q.aprendido = p.aprendido \cup {x}
          /\ \A y \in q.envia : (y \in p.envia /\ y # x) \/ (x \in Limites /\ y = OtroLimite(x))
        <3> HIDE DEF p
        <3> QED
            BY <1>1, <1>9, <2>0, <2>2, AlCorregir
    <2>4. ASSUME NEW y \in q.envia PROVE rechazos'[<<m, y>>] = 0
        <3>1. CASE y \in p.envia /\ y # x
            BY <1>1, <1>3, <1>6, <3>1 DEF AlDia
        <3>2. CASE x \in Limites /\ y = OtroLimite(x)
            <4>1. y \in Refusables /\ y # x /\ y \notin Rechaza[m]
                BY <1>1, <3>2, DosLimites, ClasesDeParametro
            <4> QED
                BY <1>1, <1>6, <4>1 DEF SinRepetir, RechazosCiertos
        <3> QED
            BY <2>3, <3>1, <3>2
    <2>5. AlDia(q)'
        BY <1>3, <1>9, <2>3, <2>4 DEF AlDia
    <2>6. ASSUME NEW n \in Modelos, NEW z \in Refusables, rechazos'[<<n, z>>] # 0
          PROVE  /\ rechazos'[<<n, z>>] = 1
                 /\ Sabido(notas', n, z) \/ (n = m /\ z \in q.aprendido)
        BY <1>6, <1>8, <1>9, <2>3, <2>6
    <2>7. llamada' = [llamada EXCEPT ![c] = q]
        BY <1>9, <2>0
    <2> QED
        BY <1>2, <1>3, <1>7, <2>3, <2>5, <2>6, <2>7, SigueSinRepetir
<1>10. CASE x = Razonar
    <2>1. PICK q \in TiposLlamada :
             /\ llamada' = [llamada EXCEPT ![c] = q]
             /\ q.pc = "enviar" /\ q.modelo = m /\ q.vista = notas' /\ q.aprendido = {}
             /\ q.envia = p.envia \ {Razonar}
        BY <1>10, AlRechazar
    <2>2. /\ leccionesPerdidas' = (leccionesPerdidas \/ p.aprendido # {})
          /\ notas' = [p.vista EXCEPT !.sin_razonamiento_no_admitido = TRUE]
        BY <1>10, AlRechazar
    <2>3. p.aprendido = {} /\ p.vista = notas /\ notas \in Notas
        BY <1>3, <2>2 DEF AlDia, InvLlamadas, FormaLlamadas
    <2>4. /\ notas'.sin_razonamiento_no_admitido /\ notas'.token_param = notas.token_param
          /\ notas'.sin_temperatura = notas.sin_temperatura
          /\ notas'.no_admitidos = notas.no_admitidos
        BY <2>2, <2>3 DEF Notas
    <2>5. AlDia(q)'
        BY <1>1, <1>3, <1>6, <1>10, <2>1 DEF AlDia
    <2>6. ASSUME NEW n \in Modelos, NEW z \in Refusables, rechazos'[<<n, z>>] # 0
          PROVE  rechazos'[<<n, z>>] = 1 /\ Sabido(notas', n, z)
        BY <1>6, <1>8, <1>10, <2>3, <2>4, <2>6 DEF Sabido
    <2> QED
        BY <1>2, <1>3, <1>7, <2>1, <2>5, <2>6, SigueSinRepetir
<1> QED
    BY <1>9, <1>10, AlRechazar

(* An answer: what was learned is on the notes, and nothing known is lost. *)
LEMMA ResponderSinRepetir ==
    ASSUME UnSoloNombre, InvLlamadas, SinRepetir, InvLlamadas', ~leccionesPerdidas',
           NEW c \in Llamadas, Responder(c)
    PROVE  SinRepetir'
<1> DEFINE p == llamada[c]
           m == p.modelo
<1>1. /\ p \in TiposLlamada /\ Aprende(p) /\ p.pc = "enviar" /\ m \in Modelos
      /\ notas' = _recordar(p) /\ UNCHANGED <<rechazos, leccionesPerdidas>>
    BY DEF InvLlamadas, FormaLlamadas, TiposLlamada, Responder
<1>2. PICK q \in TiposLlamada : llamada' = [llamada EXCEPT ![c] = q] /\ q.pc # "enviar"
    BY AlAcabar
<1>3. /\ AlDia(p) /\ \A d \in Llamadas : d # c => llamada[d].pc = "libre"
    BY <1>1 DEF SinRepetir, UnaEnVuelo
<1>4. /\ \A x \in p.aprendido : Sabido(notas', m, x)
      /\ notas'.sin_razonamiento_no_admitido = notas.sin_razonamiento_no_admitido
      /\ notas.sin_temperatura => notas'.sin_temperatura
      /\ \A n \in Modelos : notas.no_admitidos[n] \subseteq notas'.no_admitidos[n]
      /\ notas'.token_param = notas.token_param \/ notas.token_param \in Rechaza[m]
    <2> HIDE DEF p
    <2> QED
        BY <1>1, <1>3, AlRecordar DEF AlDia
<1>5. ASSUME NEW n \in Modelos, NEW x \in Refusables, rechazos[<<n, x>>] # 0,
             Sabido(notas, n, x)
      PROVE  Sabido(notas', n, x)
    <2>1. CASE x \in Limites /\ x # notas.token_param
        <3>1. x \in Rechaza[n]
            BY <1>5 DEF SinRepetir, RechazosCiertos
        <3>2. notas.token_param \in Limites
            BY DEF InvLlamadas, FormaLlamadas, Notas
        <3>3. Limites = {x, notas.token_param}
            BY <2>1, <3>2 DEF Limites
        <3>4. notas.token_param \notin Rechaza[m]
            BY <1>1, <3>1, <3>3 DEF UnSoloNombre
        <3> QED
            BY <1>4, <2>1, <3>4 DEF Sabido
    <2>2. CASE ~(x \in Limites /\ x # notas.token_param)
        BY <1>4, <1>5, <2>2 DEF Sabido
    <2> QED
        BY <2>1, <2>2
<1>6. ASSUME NEW n \in Modelos, NEW x \in Refusables, rechazos'[<<n, x>>] # 0
      PROVE  rechazos'[<<n, x>>] = 1 /\ Sabido(notas', n, x)
    <2>1. rechazos[<<n, x>>] = 1 /\ (Sabido(notas, n, x) \/ Aprendiendo(n, x))
        BY <1>1, <1>6 DEF SinRepetir, CadaRechazoConsta
    <2>2. Aprendiendo(n, x) => n = m /\ x \in p.aprendido
        BY <1>3 DEF Aprendiendo
    <2> QED
        BY <1>1, <1>4, <1>5, <2>1, <2>2
<1>7. RechazosCiertos'
    BY <1>1 DEF SinRepetir, RechazosCiertos
<1> QED
    BY <1>1, <1>2, <1>3, <1>6, <1>7, SigueSinRepetir

(* A call that ends without an answer has nothing to forget, or is lost.   *)
LEMMA AcabarSinRepetir ==
    ASSUME InvLlamadas, SinRepetir, InvLlamadas', ~leccionesPerdidas',
           NEW c \in Llamadas, SinRespuesta(c) \/ CerrarEjecucion(c)
    PROVE  SinRepetir'
<1> DEFINE p == llamada[c]
<1>1. PICK q \in TiposLlamada : llamada' = [llamada EXCEPT ![c] = q] /\ q.pc # "enviar"
    BY AlAcabar
<1>2. /\ UNCHANGED <<notas, rechazos>> /\ ~leccionesPerdidas /\ p.pc # "libre"
      /\ p.pc = "enviar" => p.aprendido = {}
    <2>1. CASE SinRespuesta(c)
        BY <2>1 DEF SinRespuesta, Falla, Contar
    <2>2. CASE CerrarEjecucion(c)
        BY <2>2 DEF CerrarEjecucion
    <2> QED
        BY <2>1, <2>2
<1>3. \A d \in Llamadas : d # c => llamada[d].pc = "libre"
    BY <1>2 DEF SinRepetir, UnaEnVuelo
<1>4. ASSUME NEW n \in Modelos, NEW x \in Refusables, rechazos'[<<n, x>>] # 0
      PROVE  rechazos'[<<n, x>>] = 1 /\ Sabido(notas', n, x)
    <2>1. rechazos[<<n, x>>] = 1 /\ (Sabido(notas, n, x) \/ Aprendiendo(n, x))
        BY <1>2, <1>4 DEF SinRepetir, CadaRechazoConsta
    <2>2. ~Aprendiendo(n, x)
        BY <1>2, <1>3 DEF Aprendiendo
    <2> QED
        BY <1>2, <2>1, <2>2
<1>5. RechazosCiertos'
    BY <1>2 DEF SinRepetir, RechazosCiertos
<1> QED
    BY <1>1, <1>2, <1>3, <1>4, <1>5, SigueSinRepetir

(* Any step keeps it, lost lessons or not.                                 *)
LEMMA SinRepetirPaso ==
    ASSUME BastanCorrecciones, UnSoloNombre, InvLlamadas, SinRepetir,
           [NextLlamadas]_varsLlamadas
    PROVE  SinRepetir'
<1>0. InvLlamadas'
    BY LlamadasPaso
<1>1. CASE UNCHANGED varsLlamadas
    BY <1>1 DEF varsLlamadas, SinRepetir, RechazosCiertos, UnaEnVuelo, CadaRechazoConsta,
                AlDia, Sabido, Aprendiendo
<1>2. CASE NextLlamadas /\ leccionesPerdidas'
    <2>1. rechazos' = SinRechazos \/ (UNCHANGED rechazos /\ UNCHANGED leccionesPerdidas)
        BY <1>2 DEF NextLlamadas, _run, Rechazar, Responder, SinRespuesta, CerrarEjecucion,
                    MorirLlamando, update_razonamiento, Contar
    <2>2. RechazosCiertos'
        BY <2>1 DEF SinRepetir, RechazosCiertos, SinRechazos
    <2> QED
        BY <1>2, <2>2 DEF SinRepetir
<1>3. CASE NextLlamadas /\ ~leccionesPerdidas'
    <2>1. ~update_razonamiento /\ \A c \in Llamadas : ~MorirLlamando(c)
        BY <1>3 DEF update_razonamiento, MorirLlamando
    <2> QED
        BY <1>0, <1>3, <2>1, LlamarSinRepetir, RechazarSinRepetir, ResponderSinRepetir,
           AcabarSinRepetir
        DEF NextLlamadas
<1> QED
    BY <1>1, <1>2, <1>3

(* "The wasted round trip happens once": where the corrections are enough  *)
(* and the provider's models do not disagree on the name of the limit,     *)
(* nothing is refused twice by a model while no lesson is lost, no call    *)
(* gives up on a request it has put right, no setting is kept from a model *)
(* that takes it and the task's layer is above the model's.                *)
THEOREM SiempreLlamadaEnOrden ==
    ASSUME BastanCorrecciones, UnSoloNombre
    PROVE  SpecLlamadas => []LlamadaEnOrden
<1>1. InitLlamadas => SinRepetir
    <2>1. ASSUME InitLlamadas PROVE SinRepetir
        BY <2>1, LaCallada
        DEF InitLlamadas, SinRechazos, SinRepetir, RechazosCiertos, UnaEnVuelo,
            CadaRechazoConsta
    <2> QED
        BY <2>1
<1>2. InvLlamadas /\ SinRepetir /\ [NextLlamadas]_varsLlamadas => SinRepetir'
    BY SinRepetirPaso
<1>3. SpecLlamadas => []SinRepetir
    BY <1>1, <1>2, SiempreInvLlamadas, PTL DEF SpecLlamadas
<1>4. ASSUME InvLlamadas, SinRepetir PROVE UnaSolaVez /\ NoSeRinde
    <2>1. UnaSolaVez
        <3>1. ASSUME ~leccionesPerdidas, NEW y \in Modelos \X Refusables
              PROVE  rechazos[y] <= 1
            <4>1. PICK m \in Modelos, x \in Refusables : y = <<m, x>>
                BY <3>1
            <4>2. rechazos[y] = 0 \/ rechazos[y] = 1
                BY <1>4, <3>1, <4>1 DEF SinRepetir, CadaRechazoConsta
            <4> QED
                BY <4>2
        <3> QED
            BY <3>1 DEF UnaSolaVez
    <2>2. NoSeRinde
        BY <1>4, LoAprendidoCabe DEF InvLlamadas, Aprende, NoSeRinde
    <2> QED
        BY <2>1, <2>2
<1>5. InvLlamadas /\ SinRepetir /\ SoloLoRechazado /\ LaTareaPorEncima => LlamadaEnOrden
    BY <1>4 DEF LlamadaEnOrden
<1> QED
    BY <1>3, <1>5, SiempreInvLlamadas, NadaQueNoSeRechazara, PTL

-----------------------------------------------------------------------------
(***************************************************************************)
(* Who answers a task.  A request keeps what it will write on rows that no *)
(* other is writing; one that has met no other has read the rows as they   *)
(* are, so that what it is about to write is what its form asks for.       *)
(***************************************************************************)
TiposPeticion ==
    [pc : {"libre", "recibida", "lista"}, sola : BOOLEAN, op : {"cambiar", "crear", "eliminar"},
     fila : 0..MaxProveedores, activo : BOOLEAN, es_por_defecto : BOOLEAN,
     por_defecto : BOOLEAN, suben : SUBSET Nat, bajan : SUBSET Nat,
     enciende : SUBSET Nat, apaga : SUBSET Nat]

FormaProveedores ==
    /\ altas \in 0..MaxProveedores
    /\ vivas \subseteq 1..altas /\ encendidas \subseteq vivas /\ marcadas \subseteq vivas
    /\ asignada \in [Encargos -> vivas \cup {SinProveedor}]
    /\ peticion \in [Administradores -> TiposPeticion]

(* What a request may be holding.                                          *)
Sostiene(p) ==
    /\ p.pc # "lista" => p.op = "cambiar" /\ Toca(p) = {}
    /\ p.pc = "lista" /\ p.op = "crear" =>
          /\ p.fila \in (1..altas) \ vivas /\ p.apaga = {}
          /\ p.suben \cup p.enciende \subseteq {p.fila} /\ p.bajan \subseteq vivas
    /\ p.pc = "lista" /\ p.op # "crear" => Toca(p) \subseteq vivas
    /\ p.pc = "lista" /\ p.op = "eliminar" =>
          p.fila \in vivas /\ \A t \in Encargos : asignada[t] # p.fila

(* Two requests hold different rows, and insert different ones.            *)
Aparte(p, q) ==
    p.pc = "lista" /\ q.pc = "lista" =>
       /\ Toca(p) \cap Toca(q) = {}
       /\ p.op = "crear" /\ q.op = "crear" => p.fila # q.fila

(* What a request that has met no other is about to write.                 *)
CambioCrear(p) ==
    /\ p.op = "crear" /\ p.fila \notin vivas /\ p.apaga = {} /\ p.enciende \subseteq {p.fila}
    /\ \/ p.suben = {p.fila} /\ p.bajan = vivas \ {p.fila} /\ (p.por_defecto \/ marcadas = {})
       \/ p.suben = {} /\ p.bajan = {} /\ ~p.por_defecto /\ marcadas # {}

CambioMarcar(p) ==
    /\ p.op = "cambiar" /\ p.por_defecto /\ p.fila \in vivas /\ p.apaga = {}
    /\ p.fila \in encendidas \cup p.enciende /\ p.enciende \subseteq {p.fila}
    /\ p.suben = {p.fila} \ marcadas /\ p.bajan = vivas \ {p.fila}

CambioDejar(p) ==
    /\ p.op = "cambiar" /\ ~p.por_defecto /\ p.fila \in encendidas \cap marcadas
    /\ p.apaga = {p.fila} /\ p.enciende = {} /\ p.bajan = {p.fila}
    /\ p.suben = _promote_another(p.fila)

CambioLlano(p) ==
    /\ p.op = "cambiar" /\ ~p.por_defecto /\ p.fila \in vivas
    /\ p.apaga \subseteq {p.fila} \ marcadas
    /\ p.suben = {} /\ p.bajan = {}

CambioEliminar(p) ==
    /\ p.op = "eliminar" /\ ~p.por_defecto /\ p.fila \in vivas
    /\ p.apaga = {} /\ p.enciende = {} /\ p.bajan = {}
    /\ p.suben = IF p.fila \in marcadas THEN _promote_another(p.fila) ELSE {}

LoQuePide(p) ==
    /\ p.pc = "recibida" =>
          /\ p.fila \in vivas => (p.activo <=> p.fila \in encendidas)
          /\ p.fila \in vivas => (p.es_por_defecto <=> p.fila \in marcadas)
    /\ p.pc = "lista" =>
          \/ CambioCrear(p) \/ CambioMarcar(p) \/ CambioDejar(p)
          \/ CambioLlano(p) \/ CambioEliminar(p)

Solitaria(a) ==
    peticion[a].pc # "libre" /\ peticion[a].sola => EnCurso = {a} /\ LoQuePide(peticion[a])

InvProveedores ==
    /\ FormaProveedores
    /\ \A a \in Administradores :
          Sostiene(peticion[a]) /\ (peticion[a].pc = "recibida" => ~peticion[a].por_defecto)
    /\ \A a, b \in Administradores : a # b => Aparte(peticion[a], peticion[b])
    /\ \A a \in Administradores : Solitaria(a)

(* The oldest of the rows that are left.                                   *)
LEMMA LaPromovida ==
    ASSUME FormaProveedores, NEW f
    PROVE  /\ _promote_another(f) \subseteq encendidas \ {f}
           /\ encendidas \ {f} # {} =>
                 \E r \in encendidas \ {f} : _promote_another(f) = {r}
<1>1. encendidas \ {f} \subseteq Nat
    <2>1. altas \in 0..MaxProveedores /\ encendidas \subseteq vivas /\ vivas \subseteq 1..altas
        BY DEF FormaProveedores
    <2>2. \A i \in 1..altas : i \in Nat
        BY <2>1, AIProvidersAssumption
    <2> QED
        BY <2>1, <2>2
<1>2. CASE encendidas \ {f} = {}
    BY <1>2 DEF _promote_another
<1>3. CASE encendidas \ {f} # {}
    <2>1. Min(encendidas \ {f}) \in encendidas \ {f}
        BY <1>1, <1>3, ElMenor
    <2> QED
        BY <1>3, <2>1 DEF _promote_another, MasAntigua
<1> QED
    BY <1>2, <1>3

(* Nothing asked.                                                          *)
LEMMA PeticionEnReposo ==
    /\ EnReposo \in TiposPeticion /\ EnReposo.pc = "libre" /\ Toca(EnReposo) = {}
    /\ EnReposo.op = "cambiar"
BY AIProvidersAssumption DEF EnReposo, TiposPeticion, SinProveedor, Toca

(* One request moves on and the rows stay as they are.                     *)
LEMMA UnaPeticionSigue ==
    ASSUME InvProveedores, NEW a \in Administradores, NEW q \in TiposPeticion,
           peticion' = [peticion EXCEPT ![a] = q],
           UNCHANGED <<altas, vivas, encendidas, marcadas, asignada>>,
           Sostiene(q), q.pc = "recibida" => ~q.por_defecto,
           \A b \in Administradores \ {a} : Aparte(q, peticion[b]),
           q.pc # "libre" => peticion[a].pc # "libre",
           q.sola = peticion[a].sola \/ q.pc = "libre",
           q.pc # "libre" /\ q.sola => LoQuePide(q)
    PROVE  InvProveedores'
<1>1. /\ peticion' \in [Administradores -> TiposPeticion]
      /\ \A b \in Administradores : peticion'[b] = IF b = a THEN q ELSE peticion[b]
    BY DEF InvProveedores, FormaProveedores
<1>2. FormaProveedores'
    BY <1>1 DEF InvProveedores, FormaProveedores
<1>3. \A b \in Administradores : Sostiene(peticion'[b])
    BY <1>1 DEF InvProveedores
<1>4. ASSUME NEW b \in Administradores PROVE Sostiene(peticion[b])'
    <2>1. Sostiene(peticion'[b])
        BY <1>3
    <2> QED
        BY <2>1 DEF Sostiene, Toca
<1>5. \A b, c \in Administradores : b # c => Aparte(peticion'[b], peticion'[c])
    BY <1>1 DEF InvProveedores, Aparte
<1>6. EnCurso' = IF q.pc = "libre" THEN EnCurso \ {a} ELSE EnCurso
    BY <1>1 DEF EnCurso
<1>7. ASSUME NEW b \in Administradores, peticion'[b].pc # "libre", peticion'[b].sola
      PROVE  EnCurso' = {b} /\ LoQuePide(peticion'[b])
    <2>1. CASE b = a
        BY <1>1, <1>6, <1>7, <2>1 DEF InvProveedores, Solitaria
    <2>2. CASE b # a
        <3>1. EnCurso = {b} /\ LoQuePide(peticion[b])
            BY <1>1, <1>7, <2>2 DEF InvProveedores, Solitaria
        <3> QED
            BY <1>1, <1>6, <2>2, <3>1
    <2> QED
        BY <2>1, <2>2
<1>8. ASSUME NEW b \in Administradores PROVE Solitaria(b)'
    <2>1. \A f : _promote_another(f)' = _promote_another(f)
        BY DEF _promote_another, MasAntigua, Min
    <2>2. ASSUME LoQuePide(peticion'[b]) PROVE LoQuePide(peticion[b])'
        BY <2>1, <2>2 DEF LoQuePide, CambioCrear, CambioMarcar, CambioDejar, CambioLlano,
                          CambioEliminar
    <2> QED
        BY <1>7, <2>2 DEF Solitaria
<1> QED
    BY <1>1, <1>2, <1>4, <1>5, <1>8 DEF InvProveedores, Aparte

(* A request begins: the others are no longer alone, and nor is it if      *)
(* there are others.                                                       *)
LEMMA EmpezarSigue ==
    ASSUME InvProveedores, NEW a \in Administradores, NEW p \in TiposPeticion, Empezar(a, p),
           altas' \in altas..MaxProveedores, p.pc # "libre", Sostiene(p)',
           p.pc = "recibida" => ~p.por_defecto,
           \A b \in Administradores \ {a} : Aparte(p, peticion[b]),
           EnCurso = {} => LoQuePide(p)
    PROVE  InvProveedores'
<1> DEFINE q == [p EXCEPT !.sola = (EnCurso = {})]
           m(b) == IF b = a THEN q
                   ELSE IF b \in EnCurso THEN [peticion[b] EXCEPT !.sola = FALSE]
                   ELSE peticion[b]
<1>1. /\ UNCHANGED <<vivas, encendidas, marcadas, asignada>>
      /\ peticion' = [b \in Administradores |-> m(b)]
      /\ a \notin EnCurso
    BY DEF Empezar
<1>2. FormaProveedores /\ altas \in 0..MaxProveedores
    BY DEF InvProveedores, FormaProveedores
<1>3. ASSUME NEW b \in Administradores
      PROVE  /\ m(b) \in TiposPeticion
             /\ b # a => /\ m(b).pc = peticion[b].pc /\ m(b).op = peticion[b].op
                         /\ m(b).fila = peticion[b].fila /\ m(b).suben = peticion[b].suben
                         /\ m(b).bajan = peticion[b].bajan /\ m(b).apaga = peticion[b].apaga
                         /\ m(b).enciende = peticion[b].enciende
                         /\ m(b).por_defecto = peticion[b].por_defecto
                         /\ b \in EnCurso => ~m(b).sola
             /\ b = a => /\ m(b).pc = p.pc /\ m(b).op = p.op /\ m(b).fila = p.fila
                         /\ m(b).suben = p.suben /\ m(b).bajan = p.bajan
                         /\ m(b).apaga = p.apaga /\ m(b).enciende = p.enciende
                         /\ m(b).por_defecto = p.por_defecto /\ m(b).activo = p.activo
                         /\ m(b).es_por_defecto = p.es_por_defecto
                         /\ m(b).sola = (EnCurso = {})
    <2>1. CASE b = a
        BY <2>1 DEF TiposPeticion
    <2>2. CASE b # a
        BY <1>2, <2>2 DEF FormaProveedores, TiposPeticion
    <2> QED
        BY <2>1, <2>2
<1> HIDE DEF m
<1>4. \A b \in Administradores : peticion'[b] = m(b)
    BY <1>1
<1> DEFINE o(b) == IF b = a THEN p ELSE peticion[b]
<1>12. ASSUME NEW b \in Administradores
       PROVE  /\ peticion'[b].pc = o(b).pc /\ peticion'[b].op = o(b).op
              /\ peticion'[b].fila = o(b).fila /\ peticion'[b].suben = o(b).suben
              /\ peticion'[b].bajan = o(b).bajan /\ peticion'[b].apaga = o(b).apaga
              /\ peticion'[b].enciende = o(b).enciende
              /\ peticion'[b].por_defecto = o(b).por_defecto
              /\ Toca(peticion'[b]) = Toca(o(b))
    <2>1. m(b) = peticion'[b]
        BY <1>4
    <2>2. CASE b = a
        BY <1>3, <2>1, <2>2 DEF Toca
    <2>3. CASE b # a
        BY <1>3, <2>1, <2>3 DEF Toca
    <2> QED
        BY <2>2, <2>3
<1>13. /\ peticion'[a].activo = p.activo /\ peticion'[a].es_por_defecto = p.es_por_defecto
       /\ o(a) = p
    BY <1>3, <1>4
<1> HIDE DEF o
<1>5. FormaProveedores'
    <2>1. altas' \in 0..MaxProveedores /\ vivas \subseteq 1..altas'
        <3>1. altas \in Nat /\ MaxProveedores \in Nat /\ altas' \in Int /\ altas' >= altas
            BY <1>2, AIProvidersAssumption
        <3>2. \A i \in 1..altas : i \in 1..altas'
            BY <3>1
        <3> QED
            BY <1>2, <3>1, <3>2 DEF FormaProveedores
    <2>2. peticion' \in [Administradores -> TiposPeticion]
        BY <1>1, <1>3
    <2> QED
        BY <1>1, <1>2, <2>1, <2>2 DEF FormaProveedores
<1>6. ASSUME NEW b \in Administradores
      PROVE  Sostiene(peticion[b])' /\ (peticion'[b].pc = "recibida" => ~peticion'[b].por_defecto)
    <2>1. CASE b = a
        <3>1. (peticion'[b].pc = "recibida" => ~peticion'[b].por_defecto)
            BY <1>12, <1>13, <2>1
        <3>2. Toca(p)' = Toca(p) /\ Toca(peticion[b])' = Toca(peticion'[b])
            BY DEF Toca
        <3> QED
            BY <1>12, <1>13, <2>1, <3>1, <3>2 DEF Sostiene
    <2>2. CASE b # a
        <3>3. o(b) = peticion[b]
            BY <2>2 DEF o
        <3>4. Toca(peticion[b])' = Toca(peticion'[b])
            BY DEF Toca
        <3>1. \A i \in (1..altas) \ vivas : i \in (1..altas') \ vivas
            BY <1>2, AIProvidersAssumption
        <3>2. Sostiene(peticion[b]) /\ (peticion[b].pc = "recibida" => ~peticion[b].por_defecto)
            BY DEF InvProveedores
        <3> QED
            <4> DEFINE s == peticion[b]
                       n == peticion'[b]
            <4>1. /\ n.pc = s.pc /\ n.op = s.op /\ n.fila = s.fila /\ n.suben = s.suben
                  /\ n.bajan = s.bajan /\ n.apaga = s.apaga /\ n.enciende = s.enciende
                  /\ n.por_defecto = s.por_defecto /\ Toca(n) = Toca(s)
                BY <1>12, <3>3
            <4>2. n.pc = "lista" /\ n.op = "crear" => n.fila \in (1..altas') \ vivas
                BY <3>1, <3>2, <4>1 DEF Sostiene
            <4> QED
                BY <1>1, <3>2, <3>4, <4>1, <4>2 DEF Sostiene
    <2> QED
        BY <2>1, <2>2
<1>7. ASSUME NEW b \in Administradores, NEW c \in Administradores, b # c
      PROVE  Aparte(peticion'[b], peticion'[c])
    <2>1. Aparte(peticion[b], peticion[c])
        BY <1>7 DEF InvProveedores
    <2>2. (b # a => Aparte(p, peticion[b])) /\ (c # a => Aparte(p, peticion[c]))
        OBVIOUS
    <2> QED
        BY <1>3, <1>4, <1>7, <2>1, <2>2 DEF Aparte, Toca
<1>8. ASSUME NEW b \in Administradores, peticion'[b].pc # "libre", peticion'[b].sola
      PROVE  b = a /\ EnCurso = {}
    <2>1. b # a => b \in EnCurso
        BY <1>3, <1>4, <1>8 DEF EnCurso
    <2> QED
        BY <1>3, <1>4, <1>8, <2>1
<1>9. ASSUME EnCurso = {}
      PROVE  EnCurso' = {a} /\ LoQuePide(peticion'[a])
    <2>1. \A b \in Administradores : b # a => peticion'[b].pc = "libre"
        BY <1>3, <1>4, <1>9 DEF EnCurso
    <2>2. EnCurso' = {a}
        BY <1>3, <1>4, <2>1 DEF EnCurso
    <2>3. LoQuePide(peticion'[a])
        BY <1>9, <1>12, <1>13 DEF LoQuePide, CambioCrear, CambioMarcar, CambioDejar,
                                  CambioLlano, CambioEliminar
    <2> QED
        BY <2>2, <2>3
<1>10. ASSUME NEW b \in Administradores PROVE Solitaria(b)'
    <2>1. \A f : _promote_another(f)' = _promote_another(f)
        BY <1>1 DEF _promote_another, MasAntigua, Min
    <2>2. ASSUME LoQuePide(peticion'[b]) PROVE LoQuePide(peticion[b])'
        BY <1>1, <2>1, <2>2 DEF LoQuePide, CambioCrear, CambioMarcar, CambioDejar, CambioLlano,
                                CambioEliminar
    <2> QED
        BY <1>8, <1>9, <2>2 DEF Solitaria
<1>11. \A b, c \in Administradores : b # c => Aparte(peticion[b], peticion[c])'
    BY <1>7 DEF Aparte, Toca
<1> QED
    BY <1>5, <1>6, <1>10, <1>11 DEF InvProveedores

(* A request decides what it will write, on rows nobody holds.             *)
LEMMA PrepararSigue ==
    ASSUME InvProveedores, NEW a \in Administradores, NEW q \in TiposPeticion, Prepara(a, q),
           peticion[a].pc = "recibida", q.sola = peticion[a].sola, q.op # "crear",
           Toca(q) \subseteq vivas,
           q.op = "eliminar" => q.fila \in vivas /\ \A t \in Encargos : asignada[t] # q.fila,
           q.sola => CambioMarcar(q) \/ CambioDejar(q) \/ CambioLlano(q) \/ CambioEliminar(q)
    PROVE  InvProveedores'
<1> DEFINE r == [q EXCEPT !.pc = "lista", !.activo = FALSE, !.es_por_defecto = FALSE]
<1>1. /\ peticion' = [peticion EXCEPT ![a] = r] /\ Toca(q) \cap Retenidas(a) = {}
      /\ UNCHANGED <<altas, vivas, encendidas, marcadas, asignada>>
    BY DEF Prepara
<1>2. /\ r \in TiposPeticion /\ r.pc = "lista" /\ r.op = q.op /\ r.fila = q.fila
      /\ r.suben = q.suben /\ r.bajan = q.bajan /\ r.apaga = q.apaga
      /\ r.enciende = q.enciende /\ r.por_defecto = q.por_defecto /\ r.sola = q.sola
    BY DEF TiposPeticion
<1> HIDE DEF r
<1>3. Toca(r) = Toca(q)
    BY <1>2 DEF Toca
<1>4. Sostiene(r)
    BY <1>2, <1>3 DEF Sostiene
<1>5. ASSUME NEW b \in Administradores \ {a} PROVE Aparte(r, peticion[b])
    <2>1. peticion[b].pc = "lista" => Toca(peticion[b]) \subseteq Retenidas(a)
        BY DEF Retenidas
    <2> QED
        BY <1>1, <1>2, <1>3, <2>1 DEF Aparte
<1>6. r.sola => LoQuePide(r)
    BY <1>2 DEF LoQuePide, CambioMarcar, CambioDejar, CambioLlano, CambioEliminar
<1> QED
    BY <1>1, <1>2, <1>4, <1>5, <1>6, UnaPeticionSigue

(* A new row.                                                              *)
LEMMA AlCrear ==
    ASSUME InvProveedores, NEW a \in Administradores, NEW activo \in BOOLEAN,
           NEW por_defecto \in BOOLEAN, create(a, activo, por_defecto)
    PROVE  InvProveedores'
<1>f. PICK f : f = altas + 1
    OBVIOUS
<1>s. PICK s, j, e : /\ s = (IF por_defecto \/ marcadas = {} THEN {f} ELSE {})
                     /\ j = (IF por_defecto \/ marcadas = {} THEN vivas \ {f} ELSE {})
                     /\ e = (IF activo THEN {f} ELSE {})
    OBVIOUS
<1>p. PICK p : p = [EnReposo EXCEPT !.pc = "lista", !.op = "crear", !.fila = f,
                                    !.por_defecto = por_defecto, !.enciende = e,
                                    !.suben = s, !.bajan = j]
    OBVIOUS
<1>0. /\ FormaProveedores /\ altas \in Nat /\ MaxProveedores \in Nat
      /\ vivas \subseteq 1..altas
    BY AIProvidersAssumption DEF InvProveedores, FormaProveedores
<1>1. /\ f \in 1..MaxProveedores /\ altas' = f /\ Empezar(a, p) /\ j \cap Retenidas(a) = {}
    BY <1>f, <1>s, <1>p DEF create, _make_default, Proveedores
<1>2. f \notin vivas /\ \A i \in 1..altas : i \in 1..f /\ i # f
    BY <1>0, <1>f
<1>3. s \subseteq {f} /\ e \subseteq {f} /\ j \subseteq vivas /\ f \in Nat
    BY <1>0, <1>f, <1>s
<1>4. \/ s = {f} /\ j = vivas \ {f} /\ (por_defecto \/ marcadas = {})
      \/ s = {} /\ j = {} /\ ~por_defecto /\ marcadas # {}
    BY <1>s
<1>5. s \in SUBSET Nat /\ e \in SUBSET Nat /\ j \in SUBSET Nat /\ f \in 0..MaxProveedores
    <2>1. \A i \in 1..altas : i \in Nat
        BY <1>0
    <2> QED
        BY <1>0, <1>1, <1>3, <2>1
<1>6. /\ p \in TiposPeticion /\ p.pc = "lista" /\ p.op = "crear" /\ p.fila = f
      /\ p.por_defecto = por_defecto /\ p.enciende = e /\ p.suben = s /\ p.bajan = j
      /\ p.apaga = {}
    BY <1>p, <1>5, PeticionEnReposo DEF TiposPeticion, EnReposo
<1>7. vivas' = vivas
    BY <1>1 DEF Empezar
<1>8. Sostiene(p)'
    <2>1. f \in (1..altas') \ vivas'
        BY <1>0, <1>1, <1>2, <1>7
    <2> QED
        BY <1>3, <1>6, <1>7, <2>1 DEF Sostiene, Toca
<1>9. ASSUME NEW b \in Administradores \ {a} PROVE Aparte(p, peticion[b])
    <2>1. peticion[b].pc = "lista" => Toca(peticion[b]) \subseteq Retenidas(a)
        BY DEF Retenidas
    <2>2. Sostiene(peticion[b])
        BY DEF InvProveedores
    <2>4. peticion[b].pc = "lista" /\ peticion[b].op = "crear" =>
             /\ peticion[b].fila \in 1..altas
             /\ Toca(peticion[b]) \subseteq {peticion[b].fila} \cup vivas
        BY <2>2 DEF Sostiene, Toca
    <2>5. peticion[b].pc = "lista" /\ peticion[b].op # "crear" =>
             Toca(peticion[b]) \subseteq vivas
        BY <2>2 DEF Sostiene
    <2>3. Toca(p) \subseteq {f} \cup j
        BY <1>3, <1>6 DEF Toca
    <2> QED
        BY <1>0, <1>1, <1>2, <1>6, <2>1, <2>3, <2>4, <2>5 DEF Aparte
<1>10. LoQuePide(p)
    BY <1>2, <1>3, <1>4, <1>6 DEF LoQuePide, CambioCrear
<1>11. altas' \in altas..MaxProveedores
    BY <1>0, <1>1, <1>f
<1> QED
    BY <1>1, <1>6, <1>8, <1>9, <1>10, <1>11, EmpezarSigue

(* A form or a button reads its row.                                       *)
LEMMA AlLeerFila ==
    ASSUME InvProveedores, NEW a \in Administradores, NEW f \in Proveedores, get_or_404(a, f)
    PROVE  InvProveedores'
<1>p. PICK p : p = [EnReposo EXCEPT !.pc = "recibida", !.fila = f,
                                    !.activo = (f \in encendidas),
                                    !.es_por_defecto = (f \in marcadas)]
    OBVIOUS
<1>1. Empezar(a, p) /\ altas' = altas /\ f \in vivas
    BY <1>p DEF get_or_404
<1>0. f \in 0..MaxProveedores
    BY AIProvidersAssumption DEF Proveedores
<1>2. /\ p \in TiposPeticion /\ p.pc = "recibida" /\ p.op = "cambiar" /\ ~p.por_defecto /\ p.fila = f
      /\ (p.activo <=> f \in encendidas) /\ (p.es_por_defecto <=> f \in marcadas)
      /\ p.suben = {} /\ p.bajan = {} /\ p.enciende = {} /\ p.apaga = {}
    <2>1. p \in TiposPeticion
        <3>0. (f \in encendidas) \in BOOLEAN /\ (f \in marcadas) \in BOOLEAN
            OBVIOUS
        <3>1. PICK x \in BOOLEAN, y \in BOOLEAN :
                 x = (f \in encendidas) /\ y = (f \in marcadas)
            BY <3>0, Zenon
        <3>2. p = [EnReposo EXCEPT !.pc = "recibida", !.fila = f, !.activo = x,
                                   !.es_por_defecto = y]
            BY <1>p, <3>1
        <3> QED
            BY <1>0, <3>2, PeticionEnReposo DEF TiposPeticion
    <2>2. p.pc = "recibida" /\ p.fila = f /\ p.op = "cambiar" /\ p.por_defecto = FALSE
        BY <1>p DEF EnReposo
    <2>3. p.suben = {} /\ p.bajan = {} /\ p.enciende = {} /\ p.apaga = {}
        BY <1>p DEF EnReposo
    <2>4. p.activo = (f \in encendidas) /\ p.es_por_defecto = (f \in marcadas)
        BY <1>p DEF EnReposo
    <2> QED
        BY <2>1, <2>2, <2>3, <2>4
<1>3. Sostiene(p)' /\ LoQuePide(p) /\ \A b \in Administradores : Aparte(p, peticion[b])
    BY <1>2 DEF Sostiene, Toca, LoQuePide, Aparte
<1>4. altas' \in altas..MaxProveedores
    BY <1>1, AIProvidersAssumption DEF InvProveedores, FormaProveedores
<1> QED
    BY <1>1, <1>2, <1>3, <1>4, EmpezarSigue

(* What a request that has only read knows.                                *)
LEMMA LeidaLaFila ==
    ASSUME InvProveedores, NEW a \in Administradores, NEW p, p = peticion[a],
           p.pc = "recibida"
    PROVE  /\ p \in TiposPeticion /\ p.op = "cambiar" /\ ~p.por_defecto
           /\ p.suben = {} /\ p.bajan = {} /\ p.enciende = {} /\ p.apaga = {}
           /\ (p.sola /\ p.fila \in vivas) =>
                 (p.activo <=> p.fila \in encendidas) /\ (p.es_por_defecto <=> p.fila \in marcadas)
<1>1. Sostiene(p) /\ Solitaria(a) /\ p \in TiposPeticion /\ ~p.por_defecto
    BY DEF InvProveedores, FormaProveedores
<1>2. p.op = "cambiar" /\ Toca(p) = {}
    BY <1>1 DEF Sostiene
<1>3. p.suben = {} /\ p.bajan = {} /\ p.enciende = {} /\ p.apaga = {}
    BY <1>2 DEF Toca
<1>4. p.sola => LoQuePide(p)
    BY <1>1 DEF Solitaria
<1>5. (p.sola /\ p.fila \in vivas) =>
         (p.activo <=> p.fila \in encendidas) /\ (p.es_por_defecto <=> p.fila \in marcadas)
    BY <1>4 DEF LoQuePide
<1> QED
    BY <1>1, <1>2, <1>3, <1>5

(* A form with whether it is on and whether it is the default.             *)
LEMMA AlActualizar ==
    ASSUME InvProveedores, NEW a \in Administradores, NEW activo \in BOOLEAN,
           NEW por_defecto \in BOOLEAN, update(a, activo, por_defecto)
    PROVE  InvProveedores'
<1> DEFINE p == peticion[a]
           f == p.fila
           deja == p.activo /\ ~activo /\ p.es_por_defecto
           s == IF por_defecto THEN IF p.es_por_defecto THEN {} ELSE {f}
                ELSE IF deja THEN _promote_another(f) ELSE {}
           j == IF por_defecto THEN vivas \ {f} ELSE IF deja THEN {f} ELSE {}
           e == IF activo /\ ~p.activo THEN {f} ELSE {}
           x == IF ~activo /\ p.activo THEN {f} ELSE {}
           q == [p EXCEPT !.por_defecto = por_defecto, !.enciende = e, !.apaga = x,
                          !.suben = s, !.bajan = j]
<1>1. /\ p.pc = "recibida" /\ f \in vivas /\ (por_defecto => activo)
    BY DEF update
<1>2. Prepara(a, q)
    <2>1. CASE por_defecto
        BY <2>1 DEF update, _make_default
    <2>2. CASE ~por_defecto /\ deja
        BY <2>2 DEF update
    <2>3. CASE ~por_defecto /\ ~deja
        BY <2>3 DEF update
    <2> QED
        BY <2>1, <2>2, <2>3
<1>3. /\ p \in TiposPeticion /\ p.op = "cambiar"
      /\ p.sola => (p.activo <=> f \in encendidas) /\ (p.es_por_defecto <=> f \in marcadas)
    BY <1>1, LeidaLaFila
<1>4. FormaProveedores /\ vivas \subseteq Nat /\ encendidas \subseteq vivas
    <2>1. FormaProveedores /\ altas \in Nat
        BY AIProvidersAssumption DEF InvProveedores, FormaProveedores
    <2>2. \A i \in 1..altas : i \in Nat
        BY <2>1
    <2> QED
        BY <2>1, <2>2 DEF FormaProveedores
<1>5. _promote_another(f) \subseteq encendidas
    BY <1>4, LaPromovida
<1>6. /\ s \subseteq vivas /\ j \subseteq vivas /\ e \subseteq {f} /\ x \subseteq {f}
      /\ por_defecto => s = (IF p.es_por_defecto THEN {} ELSE {f}) /\ j = vivas \ {f}
      /\ ~por_defecto /\ deja => s = _promote_another(f) /\ j = {f} /\ x = {f} /\ e = {}
      /\ ~por_defecto /\ ~deja => s = {} /\ j = {} /\ (p.es_por_defecto => x = {})
      /\ por_defecto => x = {} /\ (p.activo \/ e = {f})
    BY <1>1, <1>4, <1>5
<1> HIDE DEF s, j, e, x
<1>7. /\ q \in TiposPeticion /\ q.pc = p.pc /\ q.sola = p.sola /\ q.op = "cambiar" /\ q.fila = f
      /\ q.por_defecto = por_defecto /\ q.enciende = e /\ q.apaga = x
      /\ q.suben = s /\ q.bajan = j
    BY <1>1, <1>3, <1>4, <1>6 DEF TiposPeticion
<1> HIDE DEF q
<1>8. Toca(q) \subseteq vivas
    BY <1>1, <1>6, <1>7 DEF Toca
<1>9. ASSUME q.sola PROVE CambioMarcar(q) \/ CambioDejar(q) \/ CambioLlano(q)
    <2>1. CASE por_defecto
        BY <1>1, <1>3, <1>6, <1>7, <1>9, <2>1 DEF CambioMarcar
    <2>2. CASE ~por_defecto /\ deja
        BY <1>1, <1>3, <1>6, <1>7, <1>9, <2>2 DEF CambioDejar
    <2>3. CASE ~por_defecto /\ ~deja
        BY <1>1, <1>3, <1>6, <1>7, <1>9, <2>3 DEF CambioLlano
    <2> QED
        BY <2>1, <2>2, <2>3
<1> QED
    BY <1>1, <1>2, <1>7, <1>8, <1>9, PrepararSigue

(* The button that moves the mark.                                         *)
LEMMA AlMarcar ==
    ASSUME InvProveedores, NEW a \in Administradores, set_default(a)
    PROVE  InvProveedores'
<1> DEFINE p == peticion[a]
           f == p.fila
           s == IF p.es_por_defecto THEN {} ELSE {f}
           j == vivas \ {f}
           q == [p EXCEPT !.por_defecto = TRUE, !.suben = s, !.bajan = j]
<1>1. p.pc = "recibida" /\ f \in vivas /\ p.activo /\ Prepara(a, q)
    BY DEF set_default, _make_default
<1>3. /\ p \in TiposPeticion /\ p.op = "cambiar" /\ p.enciende = {} /\ p.apaga = {}
      /\ p.sola => (p.activo <=> f \in encendidas) /\ (p.es_por_defecto <=> f \in marcadas)
    BY <1>1, LeidaLaFila
<1>4. vivas \subseteq Nat
    <2>1. FormaProveedores /\ altas \in Nat
        BY AIProvidersAssumption DEF InvProveedores, FormaProveedores
    <2>2. \A i \in 1..altas : i \in Nat
        BY <2>1
    <2> QED
        BY <2>1, <2>2 DEF FormaProveedores
<1>7. /\ q \in TiposPeticion /\ q.pc = p.pc /\ q.sola = p.sola /\ q.op = "cambiar" /\ q.fila = f
      /\ q.por_defecto /\ q.enciende = {} /\ q.apaga = {} /\ q.suben = s /\ q.bajan = j
    BY <1>1, <1>3, <1>4 DEF TiposPeticion
<1> HIDE DEF q
<1>8. Toca(q) \subseteq vivas
    BY <1>1, <1>7 DEF Toca
<1>9. q.sola => CambioMarcar(q)
    BY <1>1, <1>3, <1>7 DEF CambioMarcar
<1> QED
    BY <1>1, <1>7, <1>8, <1>9, PrepararSigue

(* A row is to be deleted: its mark passes on.                             *)
LEMMA AlEliminar ==
    ASSUME InvProveedores, NEW a \in Administradores, delete(a)
    PROVE  InvProveedores'
<1> DEFINE p == peticion[a]
           f == p.fila
           s == IF p.es_por_defecto THEN _promote_another(f) ELSE {}
           q == [p EXCEPT !.op = "eliminar", !.suben = s]
<1>1. /\ p.pc = "recibida" /\ f \in vivas /\ \A t \in Encargos : asignada[t] # f
      /\ Prepara(a, q)
    BY DEF delete
<1>3. /\ p \in TiposPeticion /\ ~p.por_defecto
      /\ p.bajan = {} /\ p.enciende = {} /\ p.apaga = {}
      /\ p.sola => (p.es_por_defecto <=> f \in marcadas)
    BY <1>1, LeidaLaFila
<1>4. FormaProveedores /\ vivas \subseteq Nat /\ encendidas \subseteq vivas
    <2>1. FormaProveedores /\ altas \in Nat
        BY AIProvidersAssumption DEF InvProveedores, FormaProveedores
    <2>2. \A i \in 1..altas : i \in Nat
        BY <2>1
    <2> QED
        BY <2>1, <2>2 DEF FormaProveedores
<1>5. s \subseteq vivas
    BY <1>4, LaPromovida
<1> HIDE DEF s
<1>7. /\ q \in TiposPeticion /\ q.pc = p.pc /\ q.sola = p.sola /\ q.op = "eliminar"
      /\ q.fila = f /\ ~q.por_defecto /\ q.enciende = {} /\ q.apaga = {} /\ q.suben = s
      /\ q.bajan = {}
    BY <1>1, <1>3, <1>4, <1>5 DEF TiposPeticion
<1> HIDE DEF q
<1>8. Toca(q) \subseteq vivas
    BY <1>1, <1>5, <1>7 DEF Toca
<1>9. q.sola => CambioEliminar(q)
    BY <1>1, <1>3, <1>7 DEF CambioEliminar, s
<1> QED
    BY <1>1, <1>7, <1>8, <1>9, PrepararSigue

(* A request is refused, or dies.                                          *)
LEMMA AlAbandonar ==
    ASSUME InvProveedores, NEW a \in Administradores, Abandonar(a)
    PROVE  InvProveedores'
<1>1. Sostiene(EnReposo) /\ \A b \in Administradores : Aparte(EnReposo, peticion[b])
    BY PeticionEnReposo DEF Sostiene, Aparte
<1> QED
    BY <1>1, PeticionEnReposo, UnaPeticionSigue DEF Abandonar

(* A request commits what it held, and nothing else changes.               *)
LEMMA AlConfirmarProveedor ==
    ASSUME InvProveedores, NEW a \in Administradores, ConfirmarProveedor(a)
    PROVE  InvProveedores'
<1>p. PICK p : p = peticion[a]
    OBVIOUS
<1>n. PICK n, d : /\ n = (IF p.op = "crear" THEN {p.fila} ELSE {})
                  /\ d = (IF p.op = "eliminar" THEN {p.fila} ELSE {})
    OBVIOUS
<1>1. /\ p.pc = "lista"
      /\ vivas' = (vivas \cup n) \ d
      /\ encendidas' = ((encendidas \cup p.enciende) \ p.apaga) \ d
      /\ marcadas' = ((marcadas \ p.bajan) \cup p.suben) \ d
      /\ peticion' = [peticion EXCEPT ![a] = EnReposo]
      /\ altas' = altas /\ asignada' = asignada
    BY <1>p, <1>n DEF ConfirmarProveedor
<1>2. FormaProveedores /\ Sostiene(p)
    BY <1>p DEF InvProveedores
<1>3. /\ peticion' \in [Administradores -> TiposPeticion]
      /\ \A b \in Administradores : peticion'[b] = IF b = a THEN EnReposo ELSE peticion[b]
    BY <1>1, <1>2, PeticionEnReposo DEF FormaProveedores
<1>4. /\ n \subseteq (1..altas) \ vivas /\ d \subseteq vivas /\ n \cap d = {}
      /\ p.suben \cup p.enciende \subseteq vivas \cup n
      /\ d \subseteq Toca(p)
      /\ \A t \in Encargos : asignada[t] \notin d
    <2>1. CASE p.op = "crear"
        BY <1>1, <1>2, <1>n, <2>1 DEF Sostiene
    <2>2. CASE p.op # "crear"
        BY <1>1, <1>2, <1>n, <2>2 DEF Sostiene, Toca
    <2> QED
        BY <2>1, <2>2
<1>5. FormaProveedores'
    <2>1. vivas' \subseteq 1..altas' /\ encendidas' \subseteq vivas' /\ marcadas' \subseteq vivas'
        BY <1>1, <1>2, <1>4 DEF FormaProveedores
    <2>2. SinProveedor \notin vivas
        BY <1>2, AIProvidersAssumption DEF FormaProveedores, SinProveedor
    <2>3. \A t \in Encargos : asignada[t] \in vivas' \cup {SinProveedor}
        BY <1>1, <1>2, <1>4 DEF FormaProveedores
    <2>4. asignada' \in [Encargos -> vivas' \cup {SinProveedor}]
        BY <1>1, <1>2, <2>3 DEF FormaProveedores
    <2>5. altas' \in 0..MaxProveedores
        BY <1>1, <1>2 DEF FormaProveedores
    <2>6. peticion' \in [Administradores -> TiposPeticion]
        BY <1>3
    <2> QED
        BY <2>1, <2>4, <2>5, <2>6 DEF FormaProveedores
<1>6. ASSUME NEW b \in Administradores, b # a
      PROVE  Sostiene(peticion[b])'
    <2>1. Sostiene(peticion[b]) /\ Aparte(peticion[a], peticion[b]) /\ peticion'[b] = peticion[b]
        BY <1>3, <1>6 DEF InvProveedores
    <2>2. Toca(peticion[b])' = Toca(peticion[b])
        BY <2>1 DEF Toca
    <2>3. peticion[b].pc = "lista" => Toca(peticion[b]) \cap d = {}
        BY <1>p, <1>1, <1>4, <2>1 DEF Aparte
    <2>4. peticion[b].pc = "lista" /\ peticion[b].op = "crear" => peticion[b].fila \notin n
        BY <1>p, <1>n, <1>1, <2>1 DEF Aparte
    <2>q. PICK q : q = peticion[b]
        OBVIOUS
    <2>5. /\ q.bajan \subseteq Toca(q) /\ (q.op = "eliminar" => q.fila \in Toca(q))
        BY DEF Toca
    <2>6. q.pc = "lista" /\ q.op = "crear" =>
             /\ q.fila \in (1..altas') \ vivas' /\ q.apaga = {}
             /\ q.suben \cup q.enciende \subseteq {q.fila} /\ q.bajan \subseteq vivas'
        BY <1>1, <2>1, <2>3, <2>4, <2>5, <2>q DEF Sostiene
    <2>7. q.pc = "lista" /\ q.op # "crear" => Toca(q) \subseteq vivas'
        BY <1>1, <2>1, <2>3, <2>q DEF Sostiene
    <2>8. q.pc = "lista" /\ q.op = "eliminar" =>
             q.fila \in vivas' /\ \A t \in Encargos : asignada'[t] # q.fila
        BY <1>1, <2>1, <2>7, <2>5, <2>q DEF Sostiene
    <2>9. q.pc # "lista" => q.op = "cambiar" /\ Toca(q) = {}
        BY <2>1, <2>q DEF Sostiene
    <2> QED
        BY <2>1, <2>2, <2>6, <2>7, <2>8, <2>9, <2>q DEF Sostiene
<1>7. Sostiene(peticion[a])'
    <2>1. Toca(peticion[a])' = Toca(peticion'[a])
        BY DEF Toca
    <2> QED
        BY <1>3, <2>1, PeticionEnReposo DEF Sostiene
<1>8. \A b \in Administradores : peticion'[b].pc = "recibida" => ~peticion'[b].por_defecto
    BY <1>3, PeticionEnReposo DEF InvProveedores
<1>9. ASSUME NEW b \in Administradores, NEW c \in Administradores, b # c
      PROVE  Aparte(peticion[b], peticion[c])'
    <2>1. Aparte(peticion[b], peticion[c])
        BY <1>9 DEF InvProveedores
    <2>2. Aparte(peticion'[b], peticion'[c])
        BY <1>3, <2>1, PeticionEnReposo DEF Aparte
    <2> QED
        BY <2>2 DEF Aparte, Toca
<1>10. ASSUME NEW b \in Administradores PROVE Solitaria(b)'
    <2>1. CASE b = a
        BY <1>3, <2>1, PeticionEnReposo DEF Solitaria
    <2>2. CASE b # a
        <3>1. a \in EnCurso
            BY <1>1, <1>p DEF EnCurso
        <3>2. ~(peticion[b].pc # "libre" /\ peticion[b].sola)
            BY <2>2, <3>1 DEF InvProveedores, Solitaria
        <3> QED
            BY <1>3, <2>2, <3>2 DEF Solitaria
    <2> QED
        BY <2>1, <2>2
<1> QED
    BY <1>5, <1>6, <1>7, <1>8, <1>9, <1>10 DEF InvProveedores

(* A task is bound to another provider.                                    *)
LEMMA AlVincular ==
    ASSUME InvProveedores, NEW t \in Encargos, NEW f \in Proveedores \cup {SinProveedor},
           set_binding(t, f)
    PROVE  InvProveedores'
<1>1. /\ f \in vivas \cup {SinProveedor}
      /\ \A a \in Administradores :
            ~(peticion[a].pc = "lista" /\ peticion[a].op = "eliminar" /\ peticion[a].fila = f)
      /\ asignada' = [asignada EXCEPT ![t] = f]
      /\ UNCHANGED <<altas, vivas, encendidas, marcadas, peticion>>
    BY DEF set_binding
<1>2. FormaProveedores'
    BY <1>1 DEF InvProveedores, FormaProveedores
<1>3. \A u \in Encargos : asignada'[u] = IF u = t THEN f ELSE asignada[u]
    BY <1>1 DEF InvProveedores, FormaProveedores
<1>4. ASSUME NEW b \in Administradores PROVE Sostiene(peticion[b])'
    BY <1>1, <1>3 DEF InvProveedores, Sostiene, Toca
<1>5. ASSUME NEW b \in Administradores PROVE Solitaria(b)'
    <2>1. \A g : _promote_another(g)' = _promote_another(g)
        BY <1>1 DEF _promote_another, MasAntigua, Min
    <2>2. Solitaria(b)
        BY DEF InvProveedores
    <2> QED
        BY <1>1, <2>1, <2>2 DEF Solitaria, EnCurso, LoQuePide, CambioCrear, CambioMarcar,
                                CambioDejar, CambioLlano, CambioEliminar
<1> QED
    BY <1>1, <1>2, <1>4, <1>5 DEF InvProveedores, Aparte, Toca

(* Nobody has asked anything.                                              *)
LEMMA ProveedoresAlPrincipio == InitProveedores => InvProveedores
<1> SUFFICES ASSUME InitProveedores PROVE InvProveedores
    OBVIOUS
<1>1. \A a \in Administradores : peticion[a] = EnReposo
    BY DEF InitProveedores
<1>2. FormaProveedores
    BY AIProvidersAssumption, PeticionEnReposo DEF InitProveedores, FormaProveedores
<1>3. Sostiene(EnReposo)
    BY PeticionEnReposo DEF Sostiene
<1> QED
    BY <1>1, <1>2, <1>3, PeticionEnReposo DEF InvProveedores, Solitaria, Aparte

(* Every step keeps it.                                                    *)
LEMMA ProveedoresPaso ==
    InvProveedores /\ [NextProveedores]_varsProveedores => InvProveedores'
<1> SUFFICES ASSUME InvProveedores, [NextProveedores]_varsProveedores PROVE InvProveedores'
    OBVIOUS
<1>1. ASSUME NEW a \in Administradores, NEW activo \in BOOLEAN, NEW por_defecto \in BOOLEAN,
             create(a, activo, por_defecto)
      PROVE  InvProveedores'
    BY <1>1, AlCrear
<1>2. ASSUME NEW a \in Administradores, NEW f \in Proveedores, get_or_404(a, f)
      PROVE  InvProveedores'
    BY <1>2, AlLeerFila
<1>3. ASSUME NEW a \in Administradores, NEW activo \in BOOLEAN, NEW por_defecto \in BOOLEAN,
             update(a, activo, por_defecto)
      PROVE  InvProveedores'
    BY <1>3, AlActualizar
<1>4. ASSUME NEW a \in Administradores,
             set_default(a) \/ delete(a) \/ ConfirmarProveedor(a) \/ Abandonar(a)
      PROVE  InvProveedores'
    BY <1>4, AlMarcar, AlEliminar, AlConfirmarProveedor, AlAbandonar
<1>5. ASSUME NEW t \in Encargos, NEW f \in Proveedores \cup {SinProveedor}, set_binding(t, f)
      PROVE  InvProveedores'
    BY <1>5, AlVincular
<1>6. CASE UNCHANGED varsProveedores
    <2>1. UNCHANGED <<altas, vivas, encendidas, marcadas, asignada, peticion>>
        BY <1>6 DEF varsProveedores
    <2>2. \A g : _promote_another(g)' = _promote_another(g)
        BY <2>1 DEF _promote_another, MasAntigua, Min
    <2>3. FormaProveedores'
        BY <2>1 DEF InvProveedores, FormaProveedores
    <2>4. ASSUME NEW b \in Administradores PROVE Sostiene(peticion[b])'
        BY <2>1 DEF InvProveedores, Sostiene, Toca
    <2>5. ASSUME NEW b \in Administradores PROVE Solitaria(b)'
        <3>1. Solitaria(b)
            BY DEF InvProveedores
        <3> QED
            BY <2>1, <2>2, <3>1 DEF Solitaria, EnCurso, LoQuePide, CambioCrear, CambioMarcar,
                                    CambioDejar, CambioLlano, CambioEliminar
    <2> QED
        BY <2>1, <2>3, <2>4, <2>5 DEF InvProveedores, Aparte, Toca
<1> QED
    BY <1>1, <1>2, <1>3, <1>4, <1>5, <1>6 DEF NextProveedores

(* The invariant, always.                                                  *)
LEMMA SiempreInvProveedores == SpecProveedores => []InvProveedores
BY ProveedoresAlPrincipio, ProveedoresPaso, PTL DEF SpecProveedores

(* Every variable of the providers stays in its domain: a request that is  *)
(* about to commit holds only rows that exist, so that a mark never falls  *)
(* on one that was deleted, and a task stays bound to a row that exists.   *)
THEOREM TiposDeProveedores == SpecProveedores => []TipoProveedores
<1>1. InvProveedores => TipoProveedores
    <2> SUFFICES ASSUME InvProveedores PROVE TipoProveedores
        OBVIOUS
    <2>1. FormaProveedores
        BY DEF InvProveedores
    <2>2. ASSUME NEW a \in Administradores
          PROVE  /\ peticion[a].pc \in {"libre", "recibida", "lista"}
                 /\ Toca(peticion[a]) \subseteq 1..altas
        <3>1. peticion[a] \in TiposPeticion /\ Sostiene(peticion[a])
            BY <2>1 DEF InvProveedores, FormaProveedores
        <3>2. peticion[a].pc \in {"libre", "recibida", "lista"}
            BY <3>1 DEF TiposPeticion
        <3>3. CASE peticion[a].pc = "lista" /\ peticion[a].op = "crear"
            BY <2>1, <3>1, <3>3 DEF Sostiene, Toca, FormaProveedores
        <3>4. CASE ~(peticion[a].pc = "lista" /\ peticion[a].op = "crear")
            <4>1. Toca(peticion[a]) \subseteq vivas
                BY <3>1, <3>4 DEF Sostiene
            <4> QED
                BY <2>1, <3>2, <4>1 DEF FormaProveedores
        <3> QED
            BY <3>2, <3>3, <3>4
    <2> QED
        BY <2>1, <2>2 DEF FormaProveedores, TipoProveedores
<1> QED
    BY <1>1, SiempreInvProveedores, PTL

(* The larger of one and a count.                                          *)
LEMMA ElMayor ==
    ASSUME NEW n \in Nat
    PROVE  Max({1, n}) \in Nat /\ Max({1, n}) >= 1 /\ Max({1, n}) >= n
<1>1. \E x \in {1, n} : \A y \in {1, n} : x >= y
    <2>1. CASE n >= 1
        BY <2>1
    <2>2. CASE ~(n >= 1)
        BY <2>2
    <2> QED
        BY <2>1, <2>2
<1> QED
    BY <1>1 DEF Max

(* One for another, and the set has not grown.                             *)
LEMMA UnaPorOtra ==
    ASSUME NEW S, IsFiniteSet(S), NEW g \in S, NEW r
    PROVE  Cardinality((S \ {g}) \cup {r}) <= Cardinality(S)
<1>1. /\ IsFiniteSet(S \ {g}) /\ Cardinality(S \ {g}) = Cardinality(S) - 1
    BY FS_RemoveElement
<1>2. Cardinality((S \ {g}) \cup {r}) \in {Cardinality(S \ {g}), Cardinality(S \ {g}) + 1}
    BY <1>1, FS_AddElement
<1> QED
    BY <1>1, <1>2, FS_CardinalityType

(* What a request that has met no other leaves: the mark it asked for, or  *)
(* the marks there were with at most one passed on.                        *)
LEMMA LoQueDeja ==
    ASSUME InvProveedores, NEW a \in Administradores, ConfirmarProveedor(a), peticion[a].sola,
           NEW p, p = peticion[a]
    PROVE  /\ p.por_defecto => marcadas' = {p.fila}
           /\ \/ marcadas' \subseteq {p.fila}
              \/ marcadas' \subseteq marcadas
              \/ \E g \in marcadas : \E r : marcadas' = (marcadas \ {g}) \cup {r}
           /\ marcadas \cap encendidas # {} /\ encendidas' # {} /\ ~p.por_defecto =>
                 marcadas' \cap encendidas' # {}
           /\ marcadas # {} /\ ~p.por_defecto =>
                 marcadas' = marcadas \/ (p.fila \in marcadas /\ p.fila \notin encendidas')
<1>n. PICK d : d = (IF p.op = "eliminar" THEN {p.fila} ELSE {})
    OBVIOUS
<1>1. /\ p.pc = "lista"
      /\ encendidas' = ((encendidas \cup p.enciende) \ p.apaga) \ d
      /\ marcadas' = ((marcadas \ p.bajan) \cup p.suben) \ d
    BY <1>n DEF ConfirmarProveedor
<1>2. FormaProveedores /\ marcadas \subseteq vivas /\ encendidas \subseteq vivas
    BY DEF InvProveedores, FormaProveedores
<1>3. CambioCrear(p) \/ CambioMarcar(p) \/ CambioDejar(p) \/ CambioLlano(p) \/ CambioEliminar(p)
    BY <1>1 DEF InvProveedores, Solitaria, LoQuePide
<1>4. CASE CambioCrear(p)
    BY <1>n, <1>1, <1>2, <1>4 DEF CambioCrear
<1>5. CASE CambioMarcar(p)
    BY <1>n, <1>1, <1>2, <1>5 DEF CambioMarcar
<1>6. CASE CambioDejar(p)
    <2>1. /\ d = {} /\ p.fila \in marcadas /\ p.fila \in encendidas /\ ~p.por_defecto
          /\ encendidas' = encendidas \ {p.fila}
          /\ marcadas' = (marcadas \ {p.fila}) \cup _promote_another(p.fila)
        BY <1>n, <1>1, <1>6 DEF CambioDejar
    <2>2. CASE encendidas \ {p.fila} = {}
        BY <1>2, <2>1, <2>2, LaPromovida
    <2>3. CASE encendidas \ {p.fila} # {}
        <3>1. PICK r \in encendidas \ {p.fila} : _promote_another(p.fila) = {r}
            BY <1>2, <2>3, LaPromovida
        <3> QED
            BY <2>1, <3>1
    <2> QED
        BY <2>2, <2>3
<1>7. CASE CambioLlano(p)
    BY <1>n, <1>1, <1>2, <1>7 DEF CambioLlano
<1>8. CASE CambioEliminar(p)
    <2>1. /\ d = {p.fila} /\ ~p.por_defecto
          /\ encendidas' = encendidas \ {p.fila}
          /\ p.fila \notin marcadas => marcadas' = marcadas
          /\ p.fila \in marcadas =>
                marcadas' = (marcadas \cup _promote_another(p.fila)) \ {p.fila}
        BY <1>n, <1>1, <1>8 DEF CambioEliminar
    <2>2. CASE p.fila \notin marcadas
        BY <2>1, <2>2
    <2>3. CASE p.fila \in marcadas /\ encendidas \ {p.fila} = {}
        BY <1>2, <2>1, <2>3, LaPromovida
    <2>4. CASE p.fila \in marcadas /\ encendidas \ {p.fila} # {}
        <3>1. PICK r \in encendidas \ {p.fila} : _promote_another(p.fila) = {r}
            BY <1>2, <2>4, LaPromovida
        <3>2. marcadas' = (marcadas \ {p.fila}) \cup {r}
            BY <2>1, <2>4, <3>1
        <3> QED
            BY <2>1, <2>4, <3>1, <3>2
    <2> QED
        BY <2>2, <2>3, <2>4
<1> QED
    BY <1>3, <1>4, <1>5, <1>6, <1>7, <1>8

(* Who answers a task hangs on its binding, on which rows are on and on    *)
(* which are marked.                                                       *)
LEMMA RespondeLoMismo ==
    ASSUME NEW t \in Encargos, asignada'[t] = asignada[t], encendidas' = encendidas,
           marcadas' = marcadas
    PROVE  resolve(t)' = resolve(t)
BY DEF resolve, _default_config, MasAntigua, Min

(* `CambiaSoloLoPedido`: whatever marks overlapping requests left, one     *)
(* that meets no other leaves one row marked if it asks for the mark and   *)
(* no more than there were if it does not; while another provider is on,   *)
(* the mark passes on; and no task moves to another provider by changing   *)
(* one that did not answer it.                                             *)
THEOREM SiempreCambiaSoloLoPedido == SpecProveedores => CambiaSoloLoPedido
<1> DEFINE Vale == \/ \E a \in Confirmada : ~peticion[a].sola
                   \/ /\ PideMarca => Cardinality(marcadas') = 1
                      /\ Cardinality(marcadas') <= Max({1, Cardinality(marcadas)})
                      /\ \/ marcadas \cap encendidas = {} \/ encendidas' = {} \/ PideMarca
                         \/ marcadas' \cap encendidas' # {}
                      /\ \A t \in Encargos : CambioPedido(t)
<1>1. ASSUME InvProveedores
      PROVE  IsFiniteSet(marcadas) /\ Cardinality(marcadas) \in Nat
    <2>1. altas \in Int /\ marcadas \subseteq 1..altas
        BY <1>1, AIProvidersAssumption DEF InvProveedores, FormaProveedores
    <2>2. IsFiniteSet(1..altas)
        BY <2>1, FS_Interval
    <2> QED
        BY <2>1, <2>2, FS_Subset, FS_CardinalityType
<1>2. ASSUME InvProveedores, UNCHANGED <<vivas, encendidas, marcadas>>,
             \A t \in Encargos : asignada'[t] = asignada[t]
                                 \/ (\E f : set_binding(t, f))
      PROVE  Vale
    <2>1. Confirmada = {}
        BY <1>2 DEF Confirmada
    <2>2. ~PideMarca
        BY <2>1 DEF PideMarca
    <2>3. Cardinality(marcadas') <= Max({1, Cardinality(marcadas)})
        BY <1>1, <1>2, ElMayor
    <2>4. ASSUME NEW t \in Encargos PROVE CambioPedido(t)
        <3>1. CASE asignada'[t] = asignada[t]
            BY <1>2, <3>1, RespondeLoMismo DEF CambioPedido
        <3>2. CASE \E f : set_binding(t, f)
            BY <1>2, <3>2 DEF set_binding, CambioPedido, InvProveedores, FormaProveedores
        <3> QED
            BY <1>2, <3>1, <3>2
    <2> QED
        BY <1>2, <2>2, <2>3, <2>4
<1>3. ASSUME InvProveedores, NEW a \in Administradores, ConfirmarProveedor(a)
      PROVE  Vale
    <2>p. PICK p : p = peticion[a]
        OBVIOUS
    <2>1. asignada' = asignada /\ \A b \in Administradores : b # a => peticion'[b] = peticion[b]
        BY <1>3 DEF ConfirmarProveedor, InvProveedores, FormaProveedores
    <2>2. CASE UNCHANGED <<vivas, encendidas, marcadas>>
        BY <1>2, <1>3, <2>1, <2>2
    <2>3. CASE ~UNCHANGED <<vivas, encendidas, marcadas>>
        <3>1. Confirmada = {a}
            <4>1. peticion[a].pc = "lista" /\ peticion'[a].pc = "libre"
                BY <1>3, PeticionEnReposo DEF ConfirmarProveedor, InvProveedores,
                                              FormaProveedores
            <4>2. \A b \in Administradores : b \in Confirmada => b = a
                BY <2>1 DEF Confirmada
            <4>3. a \in Confirmada
                BY <2>3, <4>1 DEF Confirmada
            <4> QED
                BY <4>2, <4>3 DEF Confirmada
        <3>2. PideMarca <=> p.por_defecto
            BY <2>p, <3>1 DEF PideMarca
        <3>3. CASE ~p.sola
            BY <2>p, <3>1, <3>3
        <3>4. CASE p.sola
            <4>1. /\ p.por_defecto => marcadas' = {p.fila}
                  /\ \/ marcadas' \subseteq {p.fila}
                     \/ marcadas' \subseteq marcadas
                     \/ \E g \in marcadas : \E r : marcadas' = (marcadas \ {g}) \cup {r}
                  /\ marcadas \cap encendidas # {} /\ encendidas' # {} /\ ~p.por_defecto =>
                        marcadas' \cap encendidas' # {}
                  /\ marcadas # {} /\ ~p.por_defecto =>
                        marcadas' = marcadas \/ (p.fila \in marcadas /\ p.fila \notin encendidas')
                BY <1>3, <2>p, <3>4, LoQueDeja
            <4>2. PideMarca => Cardinality(marcadas') = 1
                BY <3>2, <4>1, FS_Singleton
            <4>3. Cardinality(marcadas') <= Max({1, Cardinality(marcadas)})
                <5>1. /\ IsFiniteSet(marcadas) /\ Cardinality(marcadas) \in Nat
                      /\ Max({1, Cardinality(marcadas)}) \in Nat
                      /\ Max({1, Cardinality(marcadas)}) >= 1
                      /\ Max({1, Cardinality(marcadas)}) >= Cardinality(marcadas)
                    BY <1>1, <1>3, ElMayor
                <5>2. CASE marcadas' \subseteq {p.fila}
                    <6>1. IsFiniteSet({p.fila}) /\ Cardinality({p.fila}) = 1
                        BY FS_Singleton
                    <6>2. Cardinality(marcadas') <= 1 /\ IsFiniteSet(marcadas')
                        BY <5>2, <6>1, FS_Subset
                    <6> QED
                        BY <5>1, <6>2, FS_CardinalityType
                <5>3. CASE marcadas' \subseteq marcadas
                    <6>1. Cardinality(marcadas') <= Cardinality(marcadas) /\ IsFiniteSet(marcadas')
                        BY <5>1, <5>3, FS_Subset
                    <6> QED
                        BY <5>1, <6>1, FS_CardinalityType
                <5>4. CASE \E g \in marcadas : \E r : marcadas' = (marcadas \ {g}) \cup {r}
                    <6>1. PICK g \in marcadas : \E r : marcadas' = (marcadas \ {g}) \cup {r}
                        BY <5>4
                    <6>2. PICK r : marcadas' = (marcadas \ {g}) \cup {r}
                        BY <6>1
                    <6>3. Cardinality(marcadas') <= Cardinality(marcadas)
                        BY <5>1, <6>2, UnaPorOtra
                    <6>4. IsFiniteSet(marcadas')
                        BY <5>1, <6>2, FS_RemoveElement, FS_AddElement
                    <6> QED
                        BY <5>1, <6>3, <6>4, FS_CardinalityType
                <5> QED
                    BY <4>1, <5>2, <5>3, <5>4
            <4>4. ASSUME NEW t \in Encargos PROVE CambioPedido(t)
                <5> SUFFICES ASSUME (asignada[t] \in encendidas) <=> (asignada[t] \in encendidas'),
                                    resolve(t) \subseteq encendidas', ~PideMarca,
                                    marcadas \cap encendidas # {}, ~(Cardinality(marcadas) > 1)
                             PROVE  resolve(t)' \subseteq resolve(t)
                    BY <2>1 DEF CambioPedido
                <5>1. PICK m : marcadas = {m}
                    <6>1. Cardinality(marcadas) = 0 \/ Cardinality(marcadas) = 1
                        BY <1>1, <1>3
                    <6> QED
                        BY <1>1, <1>3, <6>1, FS_EmptySet, FS_Singleton
                <5>2. m \in encendidas
                    BY <5>1
                <5>3. CASE asignada[t] \in encendidas
                    BY <2>1, <5>3 DEF resolve
                <5>4. CASE asignada[t] \notin encendidas
                    <6>1. resolve(t) = {m} /\ m \in encendidas'
                        BY <5>1, <5>2, <5>4 DEF resolve, _default_config
                    <6>2. marcadas' = {m}
                        BY <3>2, <4>1, <5>1, <6>1
                    <6>3. resolve(t)' = {m}
                        BY <2>1, <5>4, <6>1, <6>2 DEF resolve, _default_config
                    <6> QED
                        BY <6>1, <6>3
                <5> QED
                    BY <5>3, <5>4
            <4> QED
                BY <3>2, <4>1, <4>2, <4>3, <4>4
        <3> QED
            BY <3>3, <3>4
    <2> QED
        BY <2>2, <2>3
<1>4. ASSUME InvProveedores, NextProveedores PROVE Vale
    <2>1. ASSUME NEW a \in Administradores, NEW activo, NEW por_defecto,
                 create(a, activo, por_defecto) \/ update(a, activo, por_defecto)
          PROVE  Vale
        <3>1. UNCHANGED <<vivas, encendidas, marcadas, asignada>>
            BY <2>1 DEF create, update, Empezar, Prepara
        <3> QED
            BY <1>2, <1>4, <3>1
    <2>2. ASSUME NEW a \in Administradores, NEW f,
                 get_or_404(a, f) \/ set_default(a) \/ delete(a) \/ Abandonar(a)
          PROVE  Vale
        <3>1. UNCHANGED <<vivas, encendidas, marcadas, asignada>>
            BY <2>2 DEF get_or_404, set_default, delete, Abandonar, Empezar, Prepara
        <3> QED
            BY <1>2, <1>4, <3>1
    <2>3. ASSUME NEW a \in Administradores, ConfirmarProveedor(a) PROVE Vale
        BY <1>3, <1>4, <2>3
    <2>4. ASSUME NEW t \in Encargos, NEW f, set_binding(t, f) PROVE Vale
        <3>1. /\ UNCHANGED <<vivas, encendidas, marcadas>>
              /\ asignada' = [asignada EXCEPT ![t] = f]
            BY <2>4 DEF set_binding
        <3>2. \A u \in Encargos : u # t => asignada'[u] = asignada[u]
            BY <1>4, <3>1 DEF InvProveedores, FormaProveedores
        <3> QED
            BY <1>2, <1>4, <2>4, <3>1, <3>2
    <2> QED
        BY <1>4, <2>1, <2>2, <2>3, <2>4 DEF NextProveedores
<1>5. InvProveedores /\ [NextProveedores]_varsProveedores => [Vale]_varsProveedores
    BY <1>4
<1> QED
    BY <1>5, SiempreInvProveedores, PTL DEF SpecProveedores, CambiaSoloLoPedido

-----------------------------------------------------------------------------
(***************************************************************************)
(* The search of parameters.  The plan is a replay: after each of its      *)
(* steps it has read some of the recorded trials, and either wants one     *)
(* that is not there yet, or found one that is not its own, or goes on.    *)
(***************************************************************************)
Replica(e, g) ==
    g = [k \in 0..Len(Espacio) |->
           IF k = 0 THEN Probar(SinPlan, e, Base) ELSE Avanza(g[k - 1], Espacio[k], e)]

LosPasos(e) == CHOOSE g : Replica(e, g)

(* The first steps of a replay that stops earlier.                         *)
ReplicaHasta(e, g, n) ==
    g = [k \in 0..n |->
           IF k = 0 THEN Probar(SinPlan, e, Base) ELSE Avanza(g[k - 1], Espacio[k], e)]

(* What the constants of the search are.                                   *)
LEMMA DeLaBusqueda ==
    /\ Len(Espacio) \in Nat /\ Base \in Parametros /\ SinEnsayo \in Ensayo
    /\ \A k \in 1..Len(Espacio), p \in Parametros :
          [p EXCEPT ![Espacio[k][1]] = Espacio[k][2]] \in Parametros
<1>1. /\ Len(Espacio) \in Nat
      /\ \A k \in 1..Len(Espacio) :
            Espacio[k] \in (DOMAIN Base) \X {Espacio[i][2] : i \in 1..Len(Espacio)}
    BY AutotuneAssumption
<1>2. Base \in Parametros
    BY AutotuneAssumption DEF Parametros
<1>3. SinEnsayo \in Ensayo
    BY <1>2 DEF SinEnsayo, Ensayo
<1>4. ASSUME NEW k \in 1..Len(Espacio), NEW p \in Parametros
      PROVE  [p EXCEPT ![Espacio[k][1]] = Espacio[k][2]] \in Parametros
    BY <1>1 DEF Parametros
<1> QED
    BY <1>1, <1>2, <1>3, <1>4

(* A replay exists, however long the space.                                *)
LEMMA HayReplica ==
    ASSUME NEW e
    PROVE  \E g : Replica(e, g)
<1> DEFINE Sin == {n \in Nat : ~\E g : ReplicaHasta(e, g, n)}
<1>1. \E g : ReplicaHasta(e, g, 0)
    <2> DEFINE g == [k \in 0..0 |-> Probar(SinPlan, e, Base)]
    <2>1. g = [k \in 0..0 |-> IF k = 0 THEN Probar(SinPlan, e, Base)
                              ELSE Avanza(g[k - 1], Espacio[k], e)]
        OBVIOUS
    <2> QED
        BY <2>1 DEF ReplicaHasta
<1>2. ASSUME NEW n \in Nat, \E g : ReplicaHasta(e, g, n)
      PROVE  \E g : ReplicaHasta(e, g, n + 1)
    <2>1. PICK g : ReplicaHasta(e, g, n)
        BY <1>2
    <2> DEFINE h == [k \in 0..(n + 1) |->
                       IF k = n + 1 THEN Avanza(g[n], Espacio[k], e) ELSE g[k]]
    <2>2. \A k \in 0..(n + 1) :
             h[k] = IF k = 0 THEN Probar(SinPlan, e, Base) ELSE Avanza(h[k - 1], Espacio[k], e)
        <3> TAKE k \in 0..(n + 1)
        <3>1. CASE k = n + 1
            <4>1. h[k] = Avanza(g[n], Espacio[k], e) /\ h[k - 1] = g[n] /\ k # 0
                BY <3>1
            <4> QED
                BY <4>1
        <3>2. CASE k # n + 1
            <4>1. k \in 0..n /\ h[k] = g[k] /\ (k # 0 => k - 1 \in 0..n /\ h[k - 1] = g[k - 1])
                BY <3>2
            <4>2. g[k] = IF k = 0 THEN Probar(SinPlan, e, Base)
                         ELSE Avanza(g[k - 1], Espacio[k], e)
                BY <2>1, <4>1 DEF ReplicaHasta
            <4> QED
                BY <4>1, <4>2
        <3> QED
            BY <3>1, <3>2
    <2>3. h = [k \in 0..(n + 1) |-> h[k]]
        OBVIOUS
    <2> HIDE DEF h
    <2>4. h = [k \in 0..(n + 1) |->
                 IF k = 0 THEN Probar(SinPlan, e, Base) ELSE Avanza(h[k - 1], Espacio[k], e)]
        BY <2>2, <2>3
    <2> QED
        BY <2>4 DEF ReplicaHasta
<1>3. Sin = {}
    <2> SUFFICES ASSUME Sin # {} PROVE FALSE
        OBVIOUS
    <2>1. PICK m \in Sin : \A k \in Sin : m <= k
        BY HayMenor
    <2>2. m \in Nat /\ m # 0
        BY <1>1
    <2>3. m - 1 \in Nat /\ m - 1 \notin Sin
        BY <2>1, <2>2
    <2>4. \E g : ReplicaHasta(e, g, (m - 1) + 1)
        BY <1>2, <2>3
    <2> QED
        BY <2>2, <2>4
<1>4. \E g : ReplicaHasta(e, g, Len(Espacio))
    BY <1>3, DeLaBusqueda
<1> QED
    BY <1>4 DEF ReplicaHasta, Replica

(* The plan is what the replay ends with; each of its steps comes from the *)
(* one before.                                                             *)
LEMMA ElPlanEsSuReplica ==
    ASSUME NEW e
    PROVE  /\ _planificar(e) = LosPasos(e)[Len(Espacio)]
           /\ LosPasos(e)[0] = Probar(SinPlan, e, Base)
           /\ \A k \in 1..Len(Espacio) :
                 LosPasos(e)[k] = Avanza(LosPasos(e)[k - 1], Espacio[k], e)
<1>1. Replica(e, LosPasos(e))
    BY HayReplica DEF LosPasos
<1>2. _planificar(e) = LosPasos(e)[Len(Espacio)]
    BY DEF _planificar, LosPasos, Replica
<1> DEFINE g == LosPasos(e)
<1> HIDE DEF g
<1>3. g = [k \in 0..Len(Espacio) |->
             IF k = 0 THEN Probar(SinPlan, e, Base) ELSE Avanza(g[k - 1], Espacio[k], e)]
    BY <1>1 DEF Replica, g
<1>4. /\ g[0] = Probar(SinPlan, e, Base)
      /\ \A k \in 1..Len(Espacio) : g[k] = Avanza(g[k - 1], Espacio[k], e)
    <2>1. \A k \in 0..Len(Espacio) :
             g[k] = IF k = 0 THEN Probar(SinPlan, e, Base) ELSE Avanza(g[k - 1], Espacio[k], e)
        BY <1>3
    <2> QED
        BY <2>1, DeLaBusqueda
<1> QED
    BY <1>2, <1>4 DEF g

(* A replay at one of its steps.                                           *)
EnRepeticion(b, e) ==
    /\ b \in [n : Nat, mejor : Ensayo, probados : SUBSET Parametros,
              sigue : SUBSET Parametros, roto : BOOLEAN]
    /\ b.n <= Len(e)
    /\ b.sigue # {} => b.n = Len(e) /\ ~b.roto

BienMedido(b, e) ==
    b.sigue = {} /\ ~b.roto => b.n >= 1 /\ b.mejor.calidad >= e[1].calidad

(* Two replays, one of a list and one of the list with a trial more: the   *)
(* same until the first wants a trial, and the second has then read it if  *)
(* it is the one that was added.                                           *)
Comparten(b, c, e, x) ==
    IF b.sigue = {} THEN c = b
    ELSE x.par \in b.sigue => ~c.roto /\ c.n = Len(e) + 1

(* One trial wanted: not there, not that one, or read.                     *)
LEMMA UnaPrueba ==
    ASSUME NEW e \in Seq(Ensayo), NEW b, EnRepeticion(b, e), b.sigue = {}, ~b.roto,
           NEW c \in Parametros
    PROVE  /\ EnRepeticion(Probar(b, e, c), e)
           /\ b.n = Len(e) => /\ Probar(b, e, c).sigue = {c} /\ Probar(b, e, c).n = b.n
                              /\ ~Probar(b, e, c).roto
           /\ b.n < Len(e) /\ e[b.n + 1].par = c =>
                 /\ Probar(b, e, c).n = b.n + 1 /\ ~Probar(b, e, c).roto
                 /\ Probar(b, e, c).mejor = IF b.n = 0 \/ es_mejor(e[b.n + 1], b.mejor)
                                            THEN e[b.n + 1] ELSE b.mejor
           /\ b.n < Len(e) => Probar(b, e, c).sigue = {}
           /\ b.n < Len(e) /\ e[b.n + 1].par # c => Probar(b, e, c).roto
<1>1. /\ b \in [n : Nat, mejor : Ensayo, probados : SUBSET Parametros,
                sigue : SUBSET Parametros, roto : BOOLEAN]
      /\ b.n <= Len(e) /\ Len(e) \in Nat
    BY DEF EnRepeticion
<1>2. CASE b.n = Len(e)
    <2>1. Probar(b, e, c) = [b EXCEPT !.sigue = {c}]
        BY <1>1, <1>2 DEF Probar
    <2> QED
        BY <1>1, <1>2, <2>1 DEF EnRepeticion
<1>3. CASE b.n < Len(e) /\ e[b.n + 1].par # c
    <2>r. PICK r : r = Probar(b, e, c)
        OBVIOUS
    <2>1. r = [b EXCEPT !.roto = TRUE]
        BY <1>1, <1>3, <2>r DEF Probar
    <2>2. r.n = b.n /\ r.roto /\ r.sigue = b.sigue
        BY <1>1, <2>1
    <2>3. EnRepeticion(r, e)
        BY <1>1, <2>1 DEF EnRepeticion
    <2> QED
        BY <1>1, <1>3, <2>r, <2>2, <2>3
<1>4. CASE b.n < Len(e) /\ e[b.n + 1].par = c
    <2>p. PICK m : m = (IF b.n = 0 \/ es_mejor(e[b.n + 1], b.mejor) THEN e[b.n + 1]
                        ELSE b.mejor)
        OBVIOUS
    <2>r. PICK r : r = Probar(b, e, c)
        OBVIOUS
    <2>1. r = [b EXCEPT !.n = b.n + 1, !.probados = b.probados \cup {c}, !.mejor = m]
        BY <1>1, <1>4, <2>p, <2>r DEF Probar
    <2>2. e[b.n + 1] \in Ensayo
        BY <1>1, <1>4
    <2>3. m \in Ensayo
        BY <1>1, <2>p, <2>2
    <2>4. r.mejor = m /\ r.n = b.n + 1 /\ ~r.roto /\ r.sigue = {}
        BY <1>1, <2>1
    <2>5. EnRepeticion(r, e)
        <3>1. b.n + 1 \in Nat /\ b.n + 1 <= Len(e)
            BY <1>1, <1>4
        <3>2. b.probados \cup {c} \in SUBSET Parametros
            BY <1>1
        <3>3. r \in [n : Nat, mejor : Ensayo, probados : SUBSET Parametros,
                     sigue : SUBSET Parametros, roto : BOOLEAN]
            BY <1>1, <2>1, <2>3, <3>1, <3>2
        <3> QED
            BY <2>4, <3>1, <3>3 DEF EnRepeticion
    <2>6. b.n # Len(e)
        BY <1>1, <1>4
    <2> QED
        BY <1>4, <2>p, <2>r, <2>4, <2>5, <2>6
<1> QED
    BY <1>1, <1>2, <1>3, <1>4

(* A replay begins with nothing read.                                      *)
LEMMA SinPlanEnMarcha ==
    ASSUME NEW e \in Seq(Ensayo)
    PROVE  EnRepeticion(SinPlan, e) /\ SinPlan.sigue = {} /\ ~SinPlan.roto /\ SinPlan.n = 0
BY DeLaBusqueda DEF EnRepeticion, SinPlan

(* Each step of a replay leaves it well, and the best read so far never    *)
(* measured worse than the first.                                          *)
LEMMA PlanEnMarcha ==
    ASSUME NEW e \in Seq(Ensayo), NEW k \in 0..Len(Espacio)
    PROVE  EnRepeticion(LosPasos(e)[k], e) /\ BienMedido(LosPasos(e)[k], e)
<1>g. PICK g : g = LosPasos(e)
    OBVIOUS
<1>1. /\ g[0] = Probar(SinPlan, e, Base)
      /\ \A i \in 1..Len(Espacio) : g[i] = Avanza(g[i - 1], Espacio[i], e)
    BY <1>g, ElPlanEsSuReplica
<1> DEFINE Mal == {i \in 0..Len(Espacio) : ~(EnRepeticion(g[i], e) /\ BienMedido(g[i], e))}
<1>2. EnRepeticion(g[0], e) /\ BienMedido(g[0], e)
    <2>1. EnRepeticion(g[0], e)
        BY <1>1, SinPlanEnMarcha, UnaPrueba, DeLaBusqueda
    <2>2. BienMedido(g[0], e)
        <3>1. CASE Len(e) = 0
            BY <1>1, <3>1, SinPlanEnMarcha, UnaPrueba, DeLaBusqueda DEF BienMedido
        <3>2. CASE Len(e) # 0
            <4>1. 0 < Len(e) /\ e[1] \in Ensayo
                BY <3>2
            <4>2. CASE e[1].par = Base
                <5>1. g[0].n = 1 /\ g[0].mejor = e[1]
                    BY <1>1, <4>1, <4>2, SinPlanEnMarcha, UnaPrueba, DeLaBusqueda
                <5> QED
                    BY <4>1, <5>1 DEF BienMedido, Ensayo
            <4>3. CASE e[1].par # Base
                BY <1>1, <4>1, <4>3, SinPlanEnMarcha, UnaPrueba, DeLaBusqueda DEF BienMedido
            <4> QED
                BY <4>2, <4>3
        <3> QED
            BY <3>1, <3>2
    <2> QED
        BY <2>1, <2>2
<1>3. ASSUME NEW i \in 1..Len(Espacio), EnRepeticion(g[i - 1], e), BienMedido(g[i - 1], e)
      PROVE  EnRepeticion(g[i], e) /\ BienMedido(g[i], e)
    <2>b. PICK b : b = g[i - 1]
        OBVIOUS
    <2>c. PICK c : c = [b.mejor.par EXCEPT ![Espacio[i][1]] = Espacio[i][2]]
        OBVIOUS
    <2>1. b.mejor \in Ensayo /\ b.n \in Nat /\ b.n <= Len(e) /\ Len(e) \in Nat
        BY <1>3, <2>b DEF EnRepeticion
    <2>2. c \in Parametros
        BY <2>c, <2>1, DeLaBusqueda DEF Ensayo
    <2>3. g[i] = IF b.sigue # {} \/ b.roto \/ b.n >= Presupuesto \/ c \in b.probados
                 THEN b ELSE Probar(b, e, c)
        BY <1>1, <2>b, <2>c DEF Avanza
    <2>4. CASE b.sigue # {} \/ b.roto \/ b.n >= Presupuesto \/ c \in b.probados
        BY <1>3, <2>b, <2>3, <2>4
    <2>5. CASE ~(b.sigue # {} \/ b.roto \/ b.n >= Presupuesto \/ c \in b.probados)
        <3>1. g[i] = Probar(b, e, c)
            BY <2>3, <2>5
        <3>2. EnRepeticion(g[i], e)
            BY <1>3, <2>b, <2>2, <2>5, <3>1, UnaPrueba
        <3>3. BienMedido(g[i], e)
            <4>1. CASE b.n = Len(e)
                <5>1. g[i].sigue = {c}
                    BY <1>3, <2>b, <2>2, <2>5, <3>1, <4>1, UnaPrueba
                <5> QED
                    BY <5>1 DEF BienMedido
            <4>2. CASE b.n < Len(e) /\ e[b.n + 1].par # c
                BY <1>3, <2>b, <2>2, <2>5, <3>1, <4>2, UnaPrueba DEF BienMedido
            <4>3. CASE b.n < Len(e) /\ e[b.n + 1].par = c
                <5>1. b.n >= 1 /\ b.mejor.calidad >= e[1].calidad
                    BY <1>3, <2>b, <2>5 DEF BienMedido
                <5>2. /\ g[i].n = b.n + 1
                      /\ g[i].mejor = IF b.n = 0 \/ es_mejor(e[b.n + 1], b.mejor)
                                      THEN e[b.n + 1] ELSE b.mejor
                    BY <1>3, <2>b, <2>2, <2>5, <3>1, <4>3, UnaPrueba
                <5>3. e[b.n + 1] \in Ensayo /\ e[1] \in Ensayo
                    BY <2>1, <4>3, <5>1
                <5>4. /\ e[b.n + 1].calidad \in Int /\ e[1].calidad \in Int
                      /\ b.mejor.calidad \in Int
                    BY <2>1, <5>3 DEF Ensayo
                <5>5. g[i].mejor.calidad >= e[1].calidad
                    BY <2>1, <5>1, <5>2, <5>4 DEF es_mejor
                <5> QED
                    BY <2>1, <5>2, <5>5 DEF BienMedido
            <4> QED
                BY <2>1, <4>1, <4>2, <4>3
        <3> QED
            BY <3>2, <3>3
    <2> QED
        BY <2>4, <2>5
<1>4. Mal = {}
    <2> SUFFICES ASSUME Mal # {} PROVE FALSE
        OBVIOUS
    <2>1. PICK m \in Mal : \A i \in Mal : m <= i
        <3>1. Mal \in SUBSET Nat
            BY DeLaBusqueda
        <3> QED
            BY <3>1, HayMenor
    <2>2. m \in Nat /\ m # 0 /\ m \in 1..Len(Espacio)
        BY <1>2, DeLaBusqueda
    <2>3. m - 1 \in 0..Len(Espacio) /\ m - 1 \notin Mal
        BY <2>1, <2>2, DeLaBusqueda
    <2> QED
        BY <1>3, <2>2, <2>3
<1> QED
    BY <1>4, <1>g

(* Two replays stay together.                                              *)
LEMMA PruebasJuntas ==
    ASSUME NEW e \in Seq(Ensayo), NEW x \in Ensayo, NEW b, EnRepeticion(b, e),
           b.sigue = {}, ~b.roto, NEW c \in Parametros
    PROVE  Comparten(Probar(b, e, c), Probar(b, Append(e, x), c), e, x)
<1>f. PICK f : f = Append(e, x)
    OBVIOUS
<1>1. /\ f \in Seq(Ensayo) /\ Len(f) = Len(e) + 1 /\ Len(e) \in Nat /\ f[Len(e) + 1] = x
      /\ \A i \in 1..Len(e) : f[i] = e[i]
      /\ b.n \in Nat /\ b.n <= Len(e)
    BY <1>f DEF EnRepeticion
<1>2. EnRepeticion(b, f)
    BY <1>1 DEF EnRepeticion
<1>3. CASE b.n = Len(e)
    <2>1. Probar(b, e, c).sigue = {c}
        BY <1>3, UnaPrueba
    <2>2. f[b.n + 1].par = c => ~Probar(b, f, c).roto /\ Probar(b, f, c).n = b.n + 1
        BY <1>1, <1>2, <1>3, UnaPrueba
    <2> QED
        BY <1>f, <1>1, <1>3, <2>1, <2>2 DEF Comparten
<1>4. CASE b.n # Len(e)
    <2>1. b.n < Len(e) /\ f[b.n + 1] = e[b.n + 1] /\ ~(b.n >= Len(f)) /\ ~(b.n >= Len(e))
        BY <1>1, <1>4
    <2>2. Probar(b, f, c) = Probar(b, e, c)
        BY <2>1 DEF Probar
    <2>3. Probar(b, e, c).sigue = {}
        BY <2>1, UnaPrueba
    <2> QED
        BY <1>f, <2>2, <2>3 DEF Comparten
<1> QED
    BY <1>3, <1>4

(* ... through the whole space.                                            *)
LEMMA PlanComparte ==
    ASSUME NEW e \in Seq(Ensayo), NEW x \in Ensayo, NEW k \in 0..Len(Espacio)
    PROVE  Comparten(LosPasos(e)[k], LosPasos(Append(e, x))[k], e, x)
<1>g. PICK f, g, h : f = Append(e, x) /\ g = LosPasos(e) /\ h = LosPasos(f)
    OBVIOUS
<1>1. /\ g[0] = Probar(SinPlan, e, Base) /\ h[0] = Probar(SinPlan, f, Base)
      /\ \A i \in 1..Len(Espacio) : g[i] = Avanza(g[i - 1], Espacio[i], e)
      /\ \A i \in 1..Len(Espacio) : h[i] = Avanza(h[i - 1], Espacio[i], f)
    BY <1>g, ElPlanEsSuReplica
<1>2. /\ f \in Seq(Ensayo) /\ Len(f) = Len(e) + 1 /\ Len(e) \in Nat
      /\ \A i \in 0..Len(Espacio) : EnRepeticion(g[i], e) /\ EnRepeticion(h[i], f)
    <2>1. f \in Seq(Ensayo) /\ Len(f) = Len(e) + 1 /\ Len(e) \in Nat
        BY <1>g
    <2> QED
        BY <1>g, <2>1, PlanEnMarcha
<1> DEFINE Mal == {i \in 0..Len(Espacio) : ~Comparten(g[i], h[i], e, x)}
<1>3. Comparten(g[0], h[0], e, x)
    <2>1. EnRepeticion(SinPlan, e) /\ SinPlan.sigue = {} /\ ~SinPlan.roto /\ Base \in Parametros
        BY SinPlanEnMarcha, DeLaBusqueda
    <2> HIDE DEF Mal
    <2>2. Comparten(Probar(SinPlan, e, Base), Probar(SinPlan, Append(e, x), Base), e, x)
        BY <2>1, PruebasJuntas
    <2> QED
        BY <1>g, <1>1, <2>2
<1>4. ASSUME NEW i \in 1..Len(Espacio), Comparten(g[i - 1], h[i - 1], e, x)
      PROVE  Comparten(g[i], h[i], e, x)
    <2>b. PICK b, d : b = g[i - 1] /\ d = h[i - 1]
        OBVIOUS
    <2>0. i - 1 \in 0..Len(Espacio)
        BY DeLaBusqueda
    <2>1. EnRepeticion(b, e) /\ EnRepeticion(d, f) /\ b.mejor \in Ensayo /\ d.mejor \in Ensayo
        BY <1>2, <2>b, <2>0 DEF EnRepeticion
    <2>c. PICK c, cc : /\ c = [b.mejor.par EXCEPT ![Espacio[i][1]] = Espacio[i][2]]
                       /\ cc = [d.mejor.par EXCEPT ![Espacio[i][1]] = Espacio[i][2]]
        OBVIOUS
    <2>2. c \in Parametros /\ cc \in Parametros
        BY <2>c, <2>1, DeLaBusqueda DEF Ensayo
    <2>3. /\ g[i] = IF b.sigue # {} \/ b.roto \/ b.n >= Presupuesto \/ c \in b.probados
                    THEN b ELSE Probar(b, e, c)
          /\ h[i] = IF d.sigue # {} \/ d.roto \/ d.n >= Presupuesto \/ cc \in d.probados
                    THEN d ELSE Probar(d, f, cc)
        BY <1>1, <2>b, <2>c DEF Avanza
    <2>4. CASE b.sigue = {}
        <3>1. d = b /\ cc = c
            BY <1>4, <2>b, <2>c, <2>4 DEF Comparten
        <3>2. CASE b.roto \/ b.n >= Presupuesto \/ c \in b.probados
            BY <2>3, <2>4, <3>1, <3>2 DEF Comparten
        <3>3. CASE ~(b.roto \/ b.n >= Presupuesto \/ c \in b.probados)
            <4>1. g[i] = Probar(b, e, c) /\ h[i] = Probar(b, f, c)
                BY <2>3, <2>4, <3>1, <3>3
            <4> QED
                BY <1>g, <2>1, <2>2, <2>4, <3>3, <4>1, PruebasJuntas
        <3> QED
            BY <3>2, <3>3
    <2>5. CASE b.sigue # {}
        <3>1. g[i] = b
            BY <2>3, <2>5
        <3>2. ASSUME x.par \in b.sigue PROVE ~h[i].roto /\ h[i].n = Len(e) + 1
            <4>1. ~d.roto /\ d.n = Len(f)
                BY <1>2, <1>4, <2>b, <2>5, <3>2 DEF Comparten
            <4>2. CASE d.sigue # {} \/ d.n >= Presupuesto \/ cc \in d.probados
                BY <1>2, <2>3, <4>1, <4>2
            <4>3. CASE ~(d.sigue # {} \/ d.n >= Presupuesto \/ cc \in d.probados)
                <5>1. h[i] = Probar(d, f, cc)
                    BY <2>3, <4>1, <4>3
                <5>2. ~h[i].roto /\ h[i].n = d.n
                    BY <1>2, <2>1, <2>2, <4>1, <4>3, <5>1, UnaPrueba
                <5> QED
                    BY <1>2, <4>1, <5>2
            <4> QED
                BY <4>2, <4>3
        <3> QED
            BY <2>5, <3>1, <3>2 DEF Comparten
    <2> QED
        BY <2>4, <2>5
<1>5. Mal = {}
    <2> SUFFICES ASSUME Mal # {} PROVE FALSE
        OBVIOUS
    <2>1. PICK m \in Mal : \A i \in Mal : m <= i
        <3>1. Mal \in SUBSET Nat
            BY DeLaBusqueda
        <3> QED
            BY <3>1, HayMenor
    <2>2. m \in Nat /\ m # 0 /\ m \in 1..Len(Espacio)
        BY <1>3, DeLaBusqueda
    <2>3. m - 1 \in 0..Len(Espacio) /\ m - 1 \notin Mal
        BY <2>1, <2>2, DeLaBusqueda
    <2> QED
        BY <1>4, <2>2, <2>3
<1> QED
    BY <1>5, <1>g

(* What the plan says of a list of trials: what it wants is a set of       *)
(* parameters, and when it wants nothing and found nothing strange, the    *)
(* best was measured no worse than the first.                              *)
LEMMA LoQueDiceElPlan ==
    ASSUME NEW e \in Seq(Ensayo)
    PROVE  /\ _planificar(e).mejor \in Ensayo /\ _planificar(e).sigue \subseteq Parametros
           /\ _planificar(e).sigue = {} /\ ~_planificar(e).roto =>
                 Len(e) >= 1 /\ _planificar(e).mejor.calidad >= e[1].calidad
<1>p. PICK p : p = _planificar(e)
    OBVIOUS
<1>1. EnRepeticion(p, e) /\ BienMedido(p, e)
    BY <1>p, ElPlanEsSuReplica, PlanEnMarcha, DeLaBusqueda
<1>2. /\ p.mejor \in Ensayo /\ p.sigue \subseteq Parametros
      /\ p.n \in Nat /\ p.n <= Len(e) /\ Len(e) \in Nat
    BY <1>1 DEF EnRepeticion
<1>3. p.sigue = {} /\ ~p.roto => Len(e) >= 1 /\ p.mejor.calidad >= e[1].calidad
    BY <1>1, <1>2 DEF BienMedido
<1> QED
    BY <1>p, <1>2, <1>3

(* Trials recorded in the order the plan asked for them are a search.      *)
LEMMA UnEnsayoMas ==
    ASSUME NEW e \in Seq(Ensayo), NEW x \in Ensayo, x.par \in _planificar(e).sigue
    PROVE  ~_planificar(Append(e, x)).roto
BY PlanComparte, ElPlanEsSuReplica, DeLaBusqueda DEF Comparten

(* A search with no trials is a search.                                    *)
LEMMA SinEnsayosNoSeRompe == ~_planificar(<<>>).roto
<1>g. PICK g : g = LosPasos(<<>>)
    OBVIOUS
<1>1. /\ g[0] = Probar(SinPlan, <<>>, Base)
      /\ \A i \in 1..Len(Espacio) : g[i] = Avanza(g[i - 1], Espacio[i], <<>>)
      /\ _planificar(<<>>) = g[Len(Espacio)]
    BY <1>g, ElPlanEsSuReplica
<1> DEFINE Mal == {i \in 0..Len(Espacio) : g[i].roto \/ g[i].sigue = {}}
<1>2. 0 \notin Mal
    <2>0. <<>> \in Seq(Ensayo) /\ Len(<<>>) = 0
        OBVIOUS
    <2>e. PICK e \in Seq(Ensayo) : e = <<>> /\ Len(e) = 0
        BY <2>0, Zenon
    <2>1. /\ EnRepeticion(SinPlan, e) /\ SinPlan.sigue = {} /\ ~SinPlan.roto
          /\ SinPlan.n = Len(e) /\ Base \in Parametros
        BY <2>e, SinPlanEnMarcha, DeLaBusqueda
    <2>2. Probar(SinPlan, e, Base).sigue = {Base} /\ ~Probar(SinPlan, e, Base).roto
        BY <2>1, UnaPrueba
    <2> QED
        BY <1>1, <2>e, <2>2
<1>3. ASSUME NEW i \in 1..Len(Espacio), i - 1 \notin Mal
      PROVE  i \notin Mal
    <2>1. i - 1 \in 0..Len(Espacio)
        BY DeLaBusqueda
    <2>2. g[i - 1].sigue # {} /\ ~g[i - 1].roto
        BY <1>3, <2>1
    <2>3. g[i] = g[i - 1]
        BY <1>1, <2>2 DEF Avanza
    <2> QED
        BY <2>2, <2>3
<1>4. Mal = {}
    <2> SUFFICES ASSUME Mal # {} PROVE FALSE
        OBVIOUS
    <2>1. PICK m \in Mal : \A i \in Mal : m <= i
        <3>1. Mal \in SUBSET Nat
            BY DeLaBusqueda
        <3> QED
            BY <3>1, HayMenor
    <2>2. m \in Nat /\ m # 0 /\ m \in 1..Len(Espacio)
        BY <1>2, DeLaBusqueda
    <2>3. m - 1 \in 0..Len(Espacio) /\ m - 1 \notin Mal
        BY <2>1, <2>2, DeLaBusqueda
    <2> QED
        BY <1>3, <2>2, <2>3
<1> QED
    BY <1>1, <1>4, DeLaBusqueda

(***************************************************************************)
(* The search as it runs.                                                  *)
(***************************************************************************)
TiposPaso ==
    [pc : {"libre", "probando", "releido", "sigue", "publicar"}, ficha : 0..MaxFicha,
     candidato : Parametros, n : 0..(Presupuesto + 1), lista : Seq(Ensayo)]

FormaFila ==
    /\ ajuste \in [estado : {"PENDIENTE", "EN_CURSO", "COMPLETADO", "CANCELADO", "ERROR"},
                   ficha : 1..MaxFicha, ensayos : Seq(Ensayo), mejor : Ensayo,
                   aplicado : BOOLEAN, previos : Perfiles, aplicar_si_mejora : BOOLEAN]
    /\ Len(ajuste.ensayos) <= Presupuesto + 1
    /\ mensajes \subseteq 1..MaxFicha
    /\ perfil \in Perfiles
    /\ trato \in [cruce : BOOLEAN, huerfana : BOOLEAN]

FormaPaso(s) ==
    /\ s \in TiposPaso
    /\ s.pc # "libre" => s.ficha >= 1
    /\ s.pc = "releido" => Len(s.lista) <= Presupuesto + 1

FormaAjuste ==
    /\ FormaFila
    /\ paso \in [Pasos -> TiposPaso]
    /\ \A w \in Pasos : FormaPaso(paso[w])

(* A trial under way is the one the plan wants next, unless one has been   *)
(* recorded since; a list about to be written is the recorded one with one *)
(* more that the plan wanted, unless one has been recorded since.          *)
PasoEnRegla(s, e) ==
    /\ s.pc = "probando" => /\ s.n <= Len(e)
                            /\ s.n = Len(e) => s.candidato \in _planificar(e).sigue
    /\ s.pc = "releido" =>
          /\ Len(s.lista) <= Len(e) + 1
          /\ Len(s.lista) = Len(e) + 1 =>
                ~_planificar(s.lista).roto /\ (Len(e) >= 1 => s.lista[1] = e[1])

BuenosEnsayos(a) ==
    /\ ~_planificar(a.ensayos).roto
    /\ a.estado = "COMPLETADO" =>
          Len(a.ensayos) >= 1 /\ a.mejor.calidad >= a.ensayos[1].calidad

InvAjuste ==
    /\ FormaAjuste
    /\ ~trato.cruce => /\ BuenosEnsayos(ajuste)
                       /\ \A w \in Pasos : PasoEnRegla(paso[w], ajuste.ensayos)
    /\ ajuste.estado = "PENDIENTE" => \A w \in Pasos : paso[w].pc = "libre"
    /\ AlguienLaAvanza

(* The plan of a list hangs on nothing else.                               *)
LEMMA LasReglasNoCambian ==
    /\ \A e : _planificar(e)' = _planificar(e)
    /\ \A a : BuenosEnsayos(a)' <=> BuenosEnsayos(a)
    /\ \A s, e : PasoEnRegla(s, e)' <=> PasoEnRegla(s, e)
<1>1. \A e : _planificar(e)' = _planificar(e)
    BY DEF _planificar, Probar, Avanza, es_mejor, SinPlan
<1> QED
    BY <1>1 DEF BuenosEnsayos, PasoEnRegla

(* One step of the search moves on, or is dropped.                         *)
LEMMA UnPasoSigue ==
    ASSUME InvAjuste, NEW w \in Pasos, NEW s, paso' = [paso EXCEPT ![w] = s],
           FormaFila', FormaPaso(s),
           ~trato'.cruce => /\ ~trato.cruce /\ BuenosEnsayos(ajuste')
                            /\ PasoEnRegla(s, ajuste'.ensayos)
                            /\ \A v \in Pasos \ {w} : PasoEnRegla(paso[v], ajuste'.ensayos),
           ajuste'.estado = "PENDIENTE" => ajuste.estado = "PENDIENTE" /\ s.pc = "libre",
           ajuste'.estado \in {"PENDIENTE", "EN_CURSO"} /\ ~trato'.huerfana =>
              \/ ajuste'.ficha \in mensajes'
              \/ s.pc # "libre" /\ s.ficha = ajuste'.ficha
              \/ \E v \in Pasos \ {w} : paso[v].pc # "libre" /\ paso[v].ficha = ajuste'.ficha
    PROVE  InvAjuste'
<1>1. /\ paso' \in [Pasos -> TiposPaso]
      /\ \A v \in Pasos : paso'[v] = IF v = w THEN s ELSE paso[v]
    BY DEF InvAjuste, FormaAjuste, FormaPaso
<1>2. FormaAjuste'
    <2>1. \A v \in Pasos : FormaPaso(paso'[v])
        BY <1>1 DEF InvAjuste, FormaAjuste
    <2>2. ASSUME NEW v \in Pasos PROVE FormaPaso(paso[v])'
        BY <2>1 DEF FormaPaso, TiposPaso, Parametros, Ensayo
    <2> QED
        BY <1>1, <2>2 DEF FormaAjuste, TiposPaso, Parametros, Ensayo
<1>3. ~trato'.cruce => /\ BuenosEnsayos(ajuste')
                       /\ \A v \in Pasos : PasoEnRegla(paso'[v], ajuste'.ensayos)
    BY <1>1
<1>4. (~trato.cruce => /\ BuenosEnsayos(ajuste)
                       /\ \A v \in Pasos : PasoEnRegla(paso[v], ajuste.ensayos))'
    BY <1>3, LasReglasNoCambian DEF BuenosEnsayos, PasoEnRegla
<1>5. (ajuste.estado = "PENDIENTE" => \A v \in Pasos : paso[v].pc = "libre")'
    BY <1>1 DEF InvAjuste
<1>6. AlguienLaAvanza'
    <2> SUFFICES ASSUME ajuste'.estado \in {"PENDIENTE", "EN_CURSO"}, ~trato'.huerfana
                 PROVE  \/ ajuste'.ficha \in mensajes'
                        \/ \E v \in Pasos : paso'[v].pc # "libre" /\ paso'[v].ficha = ajuste'.ficha
        BY DEF AlguienLaAvanza, AjusteActivo
    <2> QED
        BY <1>1
<1> QED
    BY <1>2, <1>4, <1>5, <1>6 DEF InvAjuste

(* Somebody touches the row and no step does.                              *)
LEMMA LaFilaSigue ==
    ASSUME InvAjuste, UNCHANGED paso, FormaFila',
           ajuste'.ensayos = ajuste.ensayos, ajuste'.mejor = ajuste.mejor,
           trato'.cruce = trato.cruce,
           ajuste'.estado = ajuste.estado \/ ajuste'.estado = "CANCELADO",
           \/ ajuste'.ficha = ajuste.ficha /\ mensajes' = mensajes /\ trato' = trato
           \/ ajuste'.ficha \in mensajes'
           \/ trato'.huerfana
    PROVE  InvAjuste'
<1>1. FormaAjuste'
    <2>1. \A v \in Pasos : FormaPaso(paso[v])
        BY DEF InvAjuste, FormaAjuste
    <2>2. ASSUME NEW v \in Pasos PROVE FormaPaso(paso[v])'
        BY <2>1 DEF FormaPaso, TiposPaso, Parametros, Ensayo
    <2> QED
        BY <2>2 DEF InvAjuste, FormaAjuste, TiposPaso, Parametros, Ensayo
<1>2. ~trato'.cruce => /\ BuenosEnsayos(ajuste')
                       /\ \A v \in Pasos : PasoEnRegla(paso'[v], ajuste'.ensayos)
    <2>1. BuenosEnsayos(ajuste) => BuenosEnsayos(ajuste')
        BY DEF BuenosEnsayos
    <2> QED
        BY <2>1 DEF InvAjuste
<1>3. (~trato.cruce => /\ BuenosEnsayos(ajuste)
                       /\ \A v \in Pasos : PasoEnRegla(paso[v], ajuste.ensayos))'
    BY <1>2, LasReglasNoCambian DEF BuenosEnsayos, PasoEnRegla
<1>4. (ajuste.estado = "PENDIENTE" => \A v \in Pasos : paso[v].pc = "libre")'
    BY DEF InvAjuste
<1>5. AlguienLaAvanza'
    BY DEF InvAjuste, AlguienLaAvanza, AjusteActivo
<1> QED
    BY <1>1, <1>3, <1>4, <1>5 DEF InvAjuste

(* A step that is done with, and what it is made of.                       *)
LEMMA PasoLibre ==
    FormaPaso(Paso0) /\ Paso0.pc = "libre" /\ \A e : PasoEnRegla(Paso0, e)
<1>1. Paso0 \in TiposPaso
    BY DeLaBusqueda, AutotuneAssumption DEF Paso0, TiposPaso
<1>2. Paso0.pc = "libre"
    BY DEF Paso0
<1> QED
    BY <1>1, <1>2 DEF FormaPaso, PasoEnRegla

(* The invariant, in the pieces the steps use.                             *)
LEMMA LoQueSostieneLaBusqueda ==
    ASSUME InvAjuste
    PROVE  /\ FormaFila /\ ajuste.ensayos \in Seq(Ensayo) /\ Len(ajuste.ensayos) \in Nat
           /\ Len(ajuste.ensayos) <= Presupuesto + 1 /\ Presupuesto \in Nat
           /\ ajuste.ficha \in 1..MaxFicha /\ MaxFicha \in Nat
           /\ \A v \in Pasos : FormaPaso(paso[v]) /\ paso[v] \in TiposPaso
           /\ ~trato.cruce => /\ BuenosEnsayos(ajuste)
                              /\ \A v \in Pasos : PasoEnRegla(paso[v], ajuste.ensayos)
           /\ ajuste.estado \in {"PENDIENTE", "EN_CURSO"} /\ ~trato.huerfana =>
                 \/ ajuste.ficha \in mensajes
                 \/ \E v \in Pasos : paso[v].pc # "libre" /\ paso[v].ficha = ajuste.ficha
BY AutotuneAssumption DEF InvAjuste, FormaAjuste, FormaFila, AlguienLaAvanza, AjusteActivo

(* The row, rewritten in some of its fields.                               *)
LEMMA FilaBienEscrita ==
    ASSUME FormaFila, ajuste' \in [estado : {"PENDIENTE", "EN_CURSO", "COMPLETADO", "CANCELADO", "ERROR"},
                   ficha : 1..MaxFicha, ensayos : Seq(Ensayo), mejor : Ensayo,
                   aplicado : BOOLEAN, previos : Perfiles, aplicar_si_mejora : BOOLEAN],
           Len(ajuste'.ensayos) <= Presupuesto + 1, mensajes' \subseteq 1..MaxFicha,
           perfil' \in Perfiles, trato' \in [cruce : BOOLEAN, huerfana : BOOLEAN]
    PROVE  FormaFila'
BY DEF FormaFila, Ensayo, Parametros, Perfiles

(* What people do with the search, its result and its step.                *)
LEMMA AlTocarLaFila ==
    ASSUME InvAjuste, aplicar \/ revertir \/ save_profile \/ cancelar \/ reanudar
    PROVE  InvAjuste'
<1>1. FormaFila /\ MaxFicha \in Nat /\ ajuste.ficha \in 1..MaxFicha
    BY LoQueSostieneLaBusqueda
<1>2. CASE aplicar
    <2>1. /\ ajuste' = [ajuste EXCEPT !.aplicado = TRUE, !.previos = perfil]
          /\ perfil' = "ajuste" /\ UNCHANGED <<mensajes, paso, trato>>
        BY <1>2 DEF aplicar, ConPerfil
    <2>2. FormaFila'
        BY <1>1, <2>1, FilaBienEscrita DEF FormaFila, Perfiles
    <2>3. /\ ajuste'.ensayos = ajuste.ensayos /\ ajuste'.mejor = ajuste.mejor
          /\ ajuste'.estado = ajuste.estado /\ ajuste'.ficha = ajuste.ficha
        BY <1>1, <2>1 DEF FormaFila
    <2> QED
        BY <2>1, <2>2, <2>3, LaFilaSigue
<1>3. CASE revertir
    <2>1. /\ ajuste' = [ajuste EXCEPT !.aplicado = FALSE]
          /\ perfil' = ajuste.previos /\ UNCHANGED <<mensajes, paso, trato>>
        BY <1>3 DEF revertir
    <2>2. FormaFila'
        BY <1>1, <2>1, FilaBienEscrita DEF FormaFila
    <2>3. /\ ajuste'.ensayos = ajuste.ensayos /\ ajuste'.mejor = ajuste.mejor
          /\ ajuste'.estado = ajuste.estado /\ ajuste'.ficha = ajuste.ficha
        BY <1>1, <2>1 DEF FormaFila
    <2> QED
        BY <2>1, <2>2, <2>3, LaFilaSigue
<1>4. CASE save_profile
    <2>1. perfil' = "manual" /\ UNCHANGED <<ajuste, mensajes, paso, trato>>
        BY <1>4 DEF save_profile
    <2>2. FormaFila'
        BY <1>1, <2>1, FilaBienEscrita DEF FormaFila, Perfiles
    <2> QED
        BY <2>1, <2>2, LaFilaSigue
<1>5. CASE cancelar
    <2>1. /\ ajuste' = [ajuste EXCEPT !.estado = "CANCELADO"]
          /\ UNCHANGED <<mensajes, paso, perfil, trato>>
        BY <1>5 DEF cancelar
    <2>2. FormaFila'
        BY <1>1, <2>1, FilaBienEscrita DEF FormaFila
    <2>3. /\ ajuste'.ensayos = ajuste.ensayos /\ ajuste'.mejor = ajuste.mejor
          /\ ajuste'.estado = "CANCELADO" /\ ajuste'.ficha = ajuste.ficha
        BY <1>1, <2>1 DEF FormaFila
    <2> QED
        BY <2>1, <2>2, <2>3, LaFilaSigue
<1>6. CASE reanudar
    <2>1. /\ ajuste.ficha < MaxFicha /\ ajuste' = [ajuste EXCEPT !.ficha = ajuste.ficha + 1]
          /\ \/ mensajes' = mensajes \cup {ajuste.ficha + 1} /\ trato' = trato
             \/ trato' = [trato EXCEPT !.huerfana = TRUE] /\ mensajes' = mensajes
          /\ UNCHANGED <<paso, perfil>>
        BY <1>6 DEF reanudar
    <2>0. ajuste.ficha + 1 \in 1..MaxFicha
        BY <1>1, <2>1
    <2>2. /\ ajuste'.ensayos = ajuste.ensayos /\ ajuste'.mejor = ajuste.mejor
          /\ ajuste'.estado = ajuste.estado /\ ajuste'.ficha = ajuste.ficha + 1
        BY <1>1, <2>1 DEF FormaFila
    <2>3. trato'.cruce = trato.cruce /\ (ajuste'.ficha \in mensajes' \/ trato'.huerfana)
        BY <1>1, <2>1, <2>2 DEF FormaFila
    <2>4. mensajes' \subseteq 1..MaxFicha /\ trato' \in [cruce : BOOLEAN, huerfana : BOOLEAN]
        BY <1>1, <2>0, <2>1 DEF FormaFila
    <2>5. FormaFila'
        BY <1>1, <2>0, <2>1, <2>4, FilaBienEscrita DEF FormaFila
    <2> QED
        BY <2>1, <2>2, <2>3, <2>5, LaFilaSigue
<1> QED
    BY <1>2, <1>3, <1>4, <1>5, <1>6

(* A step hands over, or finds that the search is no longer its own.       *)
LEMMA AlContinuar ==
    ASSUME InvAjuste, NEW w \in Pasos, continuar(w)
    PROVE  InvAjuste'
<1>1. /\ paso[w].pc = "sigue" /\ UNCHANGED <<mensajes, perfil, trato>>
    BY DEF continuar
<1>2. CASE ajuste.ficha = paso[w].ficha
    <2>s. PICK s : s = [paso[w] EXCEPT !.pc = "publicar", !.ficha = ajuste.ficha + 1]
        OBVIOUS
    <2>1. /\ ajuste.ficha < MaxFicha /\ ajuste' = [ajuste EXCEPT !.ficha = ajuste.ficha + 1]
          /\ paso' = [paso EXCEPT ![w] = s]
        BY <1>2, <2>s DEF continuar, PorPublicar
    <2>2. ajuste.ficha + 1 \in 1..MaxFicha
        BY <2>1, LoQueSostieneLaBusqueda
    <2>3. /\ s \in TiposPaso /\ s.pc = "publicar" /\ s.ficha = ajuste.ficha + 1
        <3>1. paso[w] \in TiposPaso /\ ajuste.ficha + 1 \in 0..MaxFicha
            BY <2>2, LoQueSostieneLaBusqueda
        <3> QED
            BY <2>s, <3>1 DEF TiposPaso
    <2>4. FormaPaso(s) /\ \A e : PasoEnRegla(s, e)
        BY <2>2, <2>3 DEF FormaPaso, PasoEnRegla
    <2>5. /\ ajuste'.ensayos = ajuste.ensayos /\ ajuste'.mejor = ajuste.mejor
          /\ ajuste'.estado = ajuste.estado /\ ajuste'.ficha = ajuste.ficha + 1
        BY <2>1, LoQueSostieneLaBusqueda DEF FormaFila
    <2>6. FormaFila'
        BY <1>1, <2>1, <2>2, LoQueSostieneLaBusqueda, FilaBienEscrita DEF FormaFila
    <2>7. ajuste.estado # "PENDIENTE"
        BY <1>1 DEF InvAjuste
    <2>8. ~trato.cruce => /\ BuenosEnsayos(ajuste')
                          /\ \A v \in Pasos : PasoEnRegla(paso[v], ajuste'.ensayos)
        BY <2>5, LoQueSostieneLaBusqueda DEF BuenosEnsayos
    <2> QED
        BY <1>1, <2>1, <2>3, <2>4, <2>5, <2>6, <2>7, <2>8, UnPasoSigue
<1>3. CASE ajuste.ficha # paso[w].ficha
    <2>1. paso' = [paso EXCEPT ![w] = Paso0] /\ UNCHANGED ajuste
        BY <1>3 DEF continuar, Soltar
    <2>2. FormaFila'
        BY <1>1, <2>1, LoQueSostieneLaBusqueda, FilaBienEscrita DEF FormaFila
    <2>3. ajuste.estado \in {"PENDIENTE", "EN_CURSO"} /\ ~trato.huerfana =>
             \/ ajuste.ficha \in mensajes
             \/ \E v \in Pasos \ {w} : paso[v].pc # "libre" /\ paso[v].ficha = ajuste.ficha
        BY <1>3, LoQueSostieneLaBusqueda
    <2>4. ~trato.cruce => /\ BuenosEnsayos(ajuste)
                          /\ \A v \in Pasos : PasoEnRegla(paso[v], ajuste.ensayos)
        BY LoQueSostieneLaBusqueda
    <2> QED
        BY <1>1, <2>1, <2>2, <2>3, <2>4, PasoLibre, UnPasoSigue
<1> QED
    BY <1>2, <1>3

(* Its successor is published, or lost.                                    *)
LEMMA AlPublicar ==
    ASSUME InvAjuste, NEW w \in Pasos, Publicar(w) \/ MorirSinPublicar(w)
    PROVE  InvAjuste'
<1>1. /\ paso[w].pc = "publicar" /\ paso' = [paso EXCEPT ![w] = Paso0]
      /\ UNCHANGED <<ajuste, perfil>>
      /\ \/ mensajes' = mensajes \cup {paso[w].ficha} /\ trato' = trato
         \/ trato' = [trato EXCEPT !.huerfana = TRUE] /\ mensajes' = mensajes
    BY DEF Publicar, MorirSinPublicar
<1>2. paso[w].ficha \in 1..MaxFicha
    BY <1>1, LoQueSostieneLaBusqueda DEF FormaPaso, TiposPaso
<1>3. /\ trato'.cruce = trato.cruce /\ trato' \in [cruce : BOOLEAN, huerfana : BOOLEAN]
      /\ trato'.huerfana \/ (trato'.huerfana = trato.huerfana
                             /\ mensajes' = mensajes \cup {paso[w].ficha})
    BY <1>1, LoQueSostieneLaBusqueda DEF FormaFila
<1>4. FormaFila'
    BY <1>1, <1>2, <1>3, LoQueSostieneLaBusqueda, FilaBienEscrita DEF FormaFila
<1> QED
    BY <1>1, <1>3, <1>4, PasoLibre, LoQueSostieneLaBusqueda, UnPasoSigue

(* A step comes back to the queue, lost or still running.                  *)
LEMMA AlReentregar ==
    ASSUME InvAjuste, NEW w \in Pasos, Reentregar(w)
    PROVE  InvAjuste'
<1>s. PICK s : s \in {paso[w], Paso0} /\ paso' = [paso EXCEPT ![w] = s]
    BY DEF Reentregar, InvAjuste, FormaAjuste
<1>1. /\ paso[w].pc \in {"probando", "releido", "sigue"}
      /\ mensajes' = mensajes \cup {paso[w].ficha} /\ UNCHANGED <<ajuste, perfil, trato>>
    BY DEF Reentregar
<1>2. paso[w].ficha \in 1..MaxFicha
    BY <1>1, LoQueSostieneLaBusqueda DEF FormaPaso, TiposPaso
<1>3. FormaFila'
    BY <1>1, <1>2, LoQueSostieneLaBusqueda, FilaBienEscrita DEF FormaFila
<1>4. ajuste.estado # "PENDIENTE"
    BY <1>1 DEF InvAjuste
<1>5. FormaPaso(s) /\ (~trato.cruce => PasoEnRegla(s, ajuste.ensayos))
    BY <1>s, PasoLibre, LoQueSostieneLaBusqueda
<1> QED
    BY <1>s, <1>1, <1>3, <1>4, <1>5, LoQueSostieneLaBusqueda, UnPasoSigue

(* The model fails.                                                        *)
LEMMA AlFallarElEnsayo ==
    ASSUME InvAjuste, NEW w \in Pasos, marcar_error(w)
    PROVE  InvAjuste'
<1>1. /\ paso[w].pc = "probando" /\ paso' = [paso EXCEPT ![w] = Paso0]
      /\ UNCHANGED <<mensajes, perfil, trato>>
      /\ ajuste' = IF AjusteActivo THEN [ajuste EXCEPT !.estado = "ERROR"] ELSE ajuste
    BY DEF marcar_error
<1>2. /\ ajuste'.ensayos = ajuste.ensayos /\ ajuste'.mejor = ajuste.mejor
      /\ ajuste'.ficha = ajuste.ficha
      /\ ajuste'.estado \notin {"PENDIENTE", "EN_CURSO"}
      /\ ajuste'.estado = "COMPLETADO" => ajuste.estado = "COMPLETADO"
    BY <1>1, LoQueSostieneLaBusqueda DEF FormaFila, AjusteActivo
<1>3. FormaFila'
    <2>1. CASE AjusteActivo
        BY <1>1, <2>1, LoQueSostieneLaBusqueda, FilaBienEscrita DEF FormaFila
    <2>2. CASE ~AjusteActivo
        BY <1>1, <2>2, LoQueSostieneLaBusqueda, FilaBienEscrita DEF FormaFila
    <2> QED
        BY <2>1, <2>2
<1>4. ~trato.cruce => /\ BuenosEnsayos(ajuste')
                      /\ \A v \in Pasos : PasoEnRegla(paso[v], ajuste'.ensayos)
    BY <1>2, LoQueSostieneLaBusqueda DEF BuenosEnsayos
<1> QED
    BY <1>1, <1>2, <1>3, <1>4, PasoLibre, UnPasoSigue

(* What a step writes of itself when it takes a message.                   *)
LEMMA PasoQueSigue ==
    ASSUME InvAjuste, NEW w \in Pasos, NEW pc \in {"probando", "sigue"},
           NEW ficha \in 1..MaxFicha, NEW c \in Parametros, Sigue(w, pc, ficha, c),
           pc = "probando" => c \in _planificar(ajuste.ensayos).sigue
    PROVE  \E s : /\ paso' = [paso EXCEPT ![w] = s] /\ s.pc = pc /\ s.ficha = ficha
                  /\ FormaPaso(s) /\ PasoEnRegla(s, ajuste.ensayos)
<1>s. PICK s : s = [Paso0 EXCEPT !.pc = pc, !.ficha = ficha, !.candidato = c,
                                 !.n = Len(ajuste.ensayos)]
    OBVIOUS
<1>1. paso' = [paso EXCEPT ![w] = s]
    BY <1>s DEF Sigue
<1>2. /\ Len(ajuste.ensayos) \in 0..(Presupuesto + 1) /\ Paso0 \in TiposPaso
      /\ ficha \in 0..MaxFicha /\ ficha >= 1
    BY LoQueSostieneLaBusqueda, PasoLibre DEF FormaPaso
<1>3. /\ s \in TiposPaso /\ s.pc = pc /\ s.ficha = ficha /\ s.candidato = c
      /\ s.n = Len(ajuste.ensayos)
    BY <1>s, <1>2 DEF TiposPaso
<1>4. FormaPaso(s) /\ PasoEnRegla(s, ajuste.ensayos)
    BY <1>2, <1>3 DEF FormaPaso, PasoEnRegla
<1> QED
    BY <1>1, <1>3, <1>4

(* A message is taken.                                                     *)
LEMMA AlTomarElMensaje ==
    ASSUME InvAjuste, NEW w \in Pasos, NEW ficha \in mensajes, run_autotune(w, ficha)
    PROVE  InvAjuste'
<1>1. /\ paso[w].pc = "libre" /\ mensajes' = mensajes \ {ficha} /\ UNCHANGED trato
      /\ ficha \in 1..MaxFicha
    BY LoQueSostieneLaBusqueda DEF run_autotune, FormaFila
<1>2. /\ ~trato.cruce => /\ BuenosEnsayos(ajuste)
                         /\ \A v \in Pasos : PasoEnRegla(paso[v], ajuste.ensayos)
      /\ ajuste.estado \in {"PENDIENTE", "EN_CURSO"} /\ ~trato.huerfana =>
            \/ ajuste.ficha \in mensajes
            \/ \E v \in Pasos \ {w} : paso[v].pc # "libre" /\ paso[v].ficha = ajuste.ficha
    BY <1>1, LoQueSostieneLaBusqueda
<1>3. /\ FormaFila /\ mensajes' \subseteq 1..MaxFicha
      /\ ajuste.ensayos \in Seq(Ensayo) /\ Len(ajuste.ensayos) <= Presupuesto + 1
    BY <1>1, LoQueSostieneLaBusqueda DEF FormaFila
<1>4. CASE NoEsSuya(w, ficha)
    <2>1. /\ paso' = [paso EXCEPT ![w] = Paso0] /\ UNCHANGED <<ajuste, perfil>>
          /\ ajuste.ficha # ficha \/ ajuste.estado \notin {"PENDIENTE", "EN_CURSO"}
        BY <1>4 DEF NoEsSuya, Soltar, Suya, AjusteActivo
    <2>2. FormaFila'
        BY <1>1, <1>3, <2>1, FilaBienEscrita DEF FormaFila
    <2>3. ajuste.estado \in {"PENDIENTE", "EN_CURSO"} /\ ~trato.huerfana =>
             \/ ajuste.ficha \in mensajes'
             \/ \E v \in Pasos \ {w} : paso[v].pc # "libre" /\ paso[v].ficha = ajuste.ficha
        BY <1>1, <1>2, <2>1
    <2> QED
        BY <1>1, <1>2, <2>1, <2>2, <2>3, PasoLibre, UnPasoSigue
<1>5. CASE _empezar_ajuste(w, ficha)
    <2>1. /\ ajuste' = [ajuste EXCEPT !.estado = "EN_CURSO"] /\ UNCHANGED perfil
          /\ ajuste.ficha = ficha /\ ajuste.estado = "PENDIENTE"
          /\ Sigue(w, "sigue", ficha, Base)
        BY <1>5 DEF _empezar_ajuste, Suya
    <2>2. PICK s : /\ paso' = [paso EXCEPT ![w] = s] /\ s.pc = "sigue" /\ s.ficha = ficha
                   /\ FormaPaso(s) /\ PasoEnRegla(s, ajuste.ensayos)
        BY <1>1, <2>1, PasoQueSigue, DeLaBusqueda
    <2>3. /\ ajuste'.ensayos = ajuste.ensayos /\ ajuste'.mejor = ajuste.mejor
          /\ ajuste'.estado = "EN_CURSO" /\ ajuste'.ficha = ficha
        BY <1>3, <2>1 DEF FormaFila
    <2>4. FormaFila'
        BY <1>1, <1>3, <2>1, FilaBienEscrita DEF FormaFila
    <2>5. BuenosEnsayos(ajuste) => BuenosEnsayos(ajuste')
        BY <2>3 DEF BuenosEnsayos
    <2> QED
        BY <1>1, <1>2, <2>2, <2>3, <2>4, <2>5, UnPasoSigue
<1>6. CASE NoSePuedeReanudar(w)
    <2>1. /\ ajuste' = [ajuste EXCEPT !.estado = "ERROR"] /\ UNCHANGED perfil
          /\ paso' = [paso EXCEPT ![w] = Paso0]
        BY <1>6 DEF NoSePuedeReanudar, Soltar
    <2>3. /\ ajuste'.ensayos = ajuste.ensayos /\ ajuste'.mejor = ajuste.mejor
          /\ ajuste'.estado = "ERROR"
        BY <1>3, <2>1 DEF FormaFila
    <2>4. FormaFila'
        BY <1>1, <1>3, <2>1, FilaBienEscrita DEF FormaFila
    <2>5. BuenosEnsayos(ajuste) => BuenosEnsayos(ajuste')
        BY <2>3 DEF BuenosEnsayos
    <2> QED
        BY <1>1, <1>2, <2>1, <2>3, <2>4, <2>5, PasoLibre, UnPasoSigue
<1>7. CASE ajuste.ficha = ficha /\ ajuste.estado = "EN_CURSO" /\ _probar(w, ficha)
    <2>1. PICK c \in _planificar(ajuste.ensayos).sigue : Sigue(w, "probando", ficha, c)
        BY <1>7 DEF _probar
    <2>2. UNCHANGED <<ajuste, perfil>> /\ c \in Parametros
        BY <1>3, <1>7, <2>1, LoQueDiceElPlan DEF _probar
    <2>3. PICK s : /\ paso' = [paso EXCEPT ![w] = s] /\ s.pc = "probando" /\ s.ficha = ficha
                   /\ FormaPaso(s) /\ PasoEnRegla(s, ajuste.ensayos)
        BY <1>1, <2>1, <2>2, PasoQueSigue
    <2>4. FormaFila'
        BY <1>1, <1>3, <2>2, FilaBienEscrita DEF FormaFila
    <2> QED
        BY <1>1, <1>2, <1>7, <2>2, <2>3, <2>4, UnPasoSigue
<1>8. CASE _terminar_ajuste(w)
    <2>p. PICK plan : plan = _planificar(ajuste.ensayos)
        OBVIOUS
    <2>h. PICK hecho : hecho = [ajuste EXCEPT !.estado = "COMPLETADO", !.mejor = plan.mejor]
        OBVIOUS
    <2>1. /\ plan.sigue = {} /\ ~plan.roto /\ paso' = [paso EXCEPT ![w] = Paso0]
          /\ \/ ajuste' = ConPerfil(hecho) /\ perfil' = "ajuste"
             \/ ajuste' = hecho /\ perfil' = perfil
        BY <1>8, <2>p, <2>h DEF _terminar_ajuste, Soltar
    <2>2. /\ plan.mejor \in Ensayo /\ Len(ajuste.ensayos) >= 1
          /\ plan.mejor.calidad >= ajuste.ensayos[1].calidad
        BY <1>3, <2>p, <2>1, LoQueDiceElPlan
    <2>3. /\ hecho.ensayos = ajuste.ensayos /\ hecho.mejor = plan.mejor
          /\ hecho.estado = "COMPLETADO"
          /\ hecho \in [estado : {"PENDIENTE", "EN_CURSO", "COMPLETADO", "CANCELADO", "ERROR"},
                   ficha : 1..MaxFicha, ensayos : Seq(Ensayo), mejor : Ensayo,
                   aplicado : BOOLEAN, previos : Perfiles, aplicar_si_mejora : BOOLEAN]
        BY <1>3, <2>h, <2>2 DEF FormaFila
    <2>4. /\ ajuste'.ensayos = ajuste.ensayos /\ ajuste'.mejor = plan.mejor
          /\ ajuste'.estado = "COMPLETADO"
          /\ ajuste' \in [estado : {"PENDIENTE", "EN_CURSO", "COMPLETADO", "CANCELADO", "ERROR"},
                   ficha : 1..MaxFicha, ensayos : Seq(Ensayo), mejor : Ensayo,
                   aplicado : BOOLEAN, previos : Perfiles, aplicar_si_mejora : BOOLEAN]
          /\ perfil' \in Perfiles
        BY <1>3, <2>1, <2>3 DEF ConPerfil, FormaFila, Perfiles
    <2>5. FormaFila'
        BY <1>1, <1>3, <2>4, FilaBienEscrita DEF FormaFila
    <2>6. ~trato.cruce => BuenosEnsayos(ajuste')
        BY <2>p, <2>1, <2>2, <2>4 DEF BuenosEnsayos
    <2> QED
        BY <1>1, <1>2, <2>1, <2>4, <2>5, <2>6, PasoLibre, UnPasoSigue
<1> QED
    BY <1>4, <1>5, <1>6, <1>7, <1>8 DEF run_autotune, Suya

(* The trial is over, and the row is read again.                           *)
LEMMA AlReleerElAjuste ==
    ASSUME InvAjuste, NEW w \in Pasos, NEW calidad \in 0..1, NEW rapido \in BOOLEAN,
           ReleerAjuste(w, calidad, rapido)
    PROVE  InvAjuste'
<1>p. PICK p, e, x : /\ p = paso[w] /\ e = ajuste.ensayos
                     /\ x = [par |-> p.candidato, calidad |-> calidad, rapido |-> rapido]
    OBVIOUS
<1>s. PICK s : s = IF SigueSiendoSuya(w)
                   THEN [p EXCEPT !.pc = "releido", !.lista = Append(e, x)] ELSE Paso0
    OBVIOUS
<1>1. /\ p.pc = "probando" /\ Len(e) <= Presupuesto /\ paso' = [paso EXCEPT ![w] = s]
      /\ trato' = [trato EXCEPT !.cruce = trato.cruce \/ (Suya(p.ficha) /\ p.n # Len(e))]
      /\ UNCHANGED <<ajuste, mensajes, perfil>>
    BY <1>p, <1>s DEF ReleerAjuste
<1>2. /\ e \in Seq(Ensayo) /\ Len(e) \in Nat /\ Presupuesto \in Nat /\ p \in TiposPaso
      /\ p.ficha >= 1 /\ x \in Ensayo /\ x.par = p.candidato
      /\ Append(e, x) \in Seq(Ensayo) /\ Len(Append(e, x)) = Len(e) + 1
      /\ Len(e) >= 1 => Append(e, x)[1] = e[1]
    <2>1. /\ e \in Seq(Ensayo) /\ Len(e) \in Nat /\ Presupuesto \in Nat /\ p \in TiposPaso
          /\ FormaPaso(p)
        BY <1>p, LoQueSostieneLaBusqueda
    <2>2. p.ficha >= 1 /\ p.candidato \in Parametros
        BY <1>1, <2>1 DEF FormaPaso, TiposPaso
    <2>3. x \in Ensayo /\ x.par = p.candidato
        BY <1>p, <2>2 DEF Ensayo
    <2> QED
        BY <2>1, <2>2, <2>3
<1>3. /\ ~trato'.cruce => ~trato.cruce /\ (Suya(p.ficha) => p.n = Len(e))
      /\ trato'.huerfana = trato.huerfana /\ trato' \in [cruce : BOOLEAN, huerfana : BOOLEAN]
    <2>1. trato \in [cruce : BOOLEAN, huerfana : BOOLEAN]
        BY LoQueSostieneLaBusqueda DEF FormaFila
    <2>2. (trato.cruce \/ (Suya(p.ficha) /\ p.n # Len(e))) \in BOOLEAN
        OBVIOUS
    <2> QED
        BY <1>1, <2>1, <2>2
<1>4. FormaFila'
    BY <1>1, <1>3, LoQueSostieneLaBusqueda, FilaBienEscrita DEF FormaFila
<1>5. ajuste.estado # "PENDIENTE"
    BY <1>p, <1>1 DEF InvAjuste
<1>6. CASE SigueSiendoSuya(w)
    <2>1. ajuste.estado = "EN_CURSO" /\ Suya(p.ficha)
        BY <1>6, <1>p DEF SigueSiendoSuya
    <2>2. /\ s \in TiposPaso /\ s.pc = "releido" /\ s.lista = Append(e, x)
          /\ s.ficha = p.ficha
        BY <1>6, <1>s, <1>2 DEF TiposPaso
    <2>3. FormaPaso(s)
        BY <1>1, <1>2, <2>2 DEF FormaPaso
    <2>4. ~trato'.cruce => PasoEnRegla(s, e)
        <3> SUFFICES ASSUME ~trato'.cruce PROVE PasoEnRegla(s, e)
            OBVIOUS
        <3>1. p.n = Len(e) /\ PasoEnRegla(p, e)
            BY <1>p, <1>3, <2>1, LoQueSostieneLaBusqueda
        <3>2. x.par \in _planificar(e).sigue
            BY <1>1, <1>2, <3>1 DEF PasoEnRegla
        <3>3. ~_planificar(Append(e, x)).roto
            BY <1>2, <3>2, UnEnsayoMas
        <3> QED
            BY <1>2, <2>2, <3>3 DEF PasoEnRegla
    <2> QED
        BY <1>p, <1>1, <1>3, <1>4, <1>5, <2>1, <2>2, <2>3, <2>4, LoQueSostieneLaBusqueda,
           UnPasoSigue DEF Suya
<1>7. CASE ~SigueSiendoSuya(w)
    <2>1. s = Paso0 /\ (ajuste.estado # "EN_CURSO" \/ ajuste.ficha # p.ficha)
        BY <1>7, <1>s, <1>p DEF SigueSiendoSuya, Suya
    <2>2. ajuste.estado \in {"PENDIENTE", "EN_CURSO"} /\ ~trato.huerfana =>
             \/ ajuste.ficha \in mensajes
             \/ \E v \in Pasos \ {w} : paso[v].pc # "libre" /\ paso[v].ficha = ajuste.ficha
        BY <1>p, <1>5, <2>1, LoQueSostieneLaBusqueda
    <2>3. ~trato.cruce => /\ BuenosEnsayos(ajuste)
                          /\ \A v \in Pasos : PasoEnRegla(paso[v], ajuste.ensayos)
        BY LoQueSostieneLaBusqueda
    <2> QED
        BY <1>1, <1>3, <1>4, <1>5, <2>1, <2>2, <2>3, PasoLibre, UnPasoSigue
<1> QED
    BY <1>6, <1>7

(* The list is written, whatever the row holds by now.                     *)
LEMMA AlGuardarElEnsayo ==
    ASSUME InvAjuste, NEW w \in Pasos, GuardarEnsayo(w)
    PROVE  InvAjuste'
<1>p. PICK p, e, l : p = paso[w] /\ e = ajuste.ensayos /\ l = paso[w].lista
    OBVIOUS
<1>s. PICK s : s = [p EXCEPT !.pc = "sigue", !.lista = <<>>]
    OBVIOUS
<1>1. /\ p.pc = "releido" /\ ajuste' = [ajuste EXCEPT !.ensayos = l]
      /\ paso' = [paso EXCEPT ![w] = s]
      /\ trato' = [trato EXCEPT !.cruce = trato.cruce \/ Len(l) # Len(e) + 1]
      /\ UNCHANGED <<mensajes, perfil>>
    BY <1>p, <1>s DEF GuardarEnsayo
<1>2. /\ p \in TiposPaso /\ FormaPaso(p) /\ FormaFila
      /\ e \in Seq(Ensayo) /\ Len(e) \in Nat /\ Presupuesto \in Nat
    BY <1>p, LoQueSostieneLaBusqueda
<1>3. l \in Seq(Ensayo) /\ Len(l) <= Presupuesto + 1 /\ Len(l) \in Nat /\ p.ficha >= 1
    BY <1>p, <1>1, <1>2 DEF FormaPaso, TiposPaso
<1>4. /\ s \in TiposPaso /\ s.pc = "sigue" /\ s.ficha = p.ficha
      /\ FormaPaso(s) /\ \A f : PasoEnRegla(s, f)
    <2>1. <<>> \in Seq(Ensayo)
        OBVIOUS
    <2>2. s \in TiposPaso /\ s.pc = "sigue" /\ s.ficha = p.ficha
        BY <1>s, <1>2, <2>1 DEF TiposPaso
    <2> QED
        BY <1>3, <2>2 DEF FormaPaso, PasoEnRegla
<1>5. /\ ~trato'.cruce => ~trato.cruce /\ Len(l) = Len(e) + 1
      /\ trato'.huerfana = trato.huerfana /\ trato' \in [cruce : BOOLEAN, huerfana : BOOLEAN]
    <2>1. trato \in [cruce : BOOLEAN, huerfana : BOOLEAN]
        BY <1>2 DEF FormaFila
    <2>2. (trato.cruce \/ Len(l) # Len(e) + 1) \in BOOLEAN
        OBVIOUS
    <2> QED
        BY <1>1, <2>1, <2>2
<1>6. /\ ajuste'.ensayos = l /\ ajuste'.mejor = ajuste.mejor
      /\ ajuste'.estado = ajuste.estado /\ ajuste'.ficha = ajuste.ficha
    BY <1>1, <1>2 DEF FormaFila
<1>7. FormaFila'
    BY <1>1, <1>2, <1>3, <1>5, FilaBienEscrita DEF FormaFila
<1>8. ajuste.estado # "PENDIENTE"
    BY <1>p, <1>1 DEF InvAjuste
<1>9. ASSUME ~trato'.cruce
      PROVE  /\ BuenosEnsayos(ajuste')
             /\ \A v \in Pasos \ {w} : PasoEnRegla(paso[v], l)
    <2>1. /\ ~trato.cruce /\ Len(l) = Len(e) + 1 /\ BuenosEnsayos(ajuste)
          /\ \A v \in Pasos : PasoEnRegla(paso[v], e)
        BY <1>p, <1>5, <1>9, LoQueSostieneLaBusqueda
    <2>2. ~_planificar(l).roto /\ (Len(e) >= 1 => l[1] = e[1])
        BY <1>p, <1>1, <2>1 DEF PasoEnRegla
    <2>3. BuenosEnsayos(ajuste')
        BY <1>p, <1>2, <1>3, <1>6, <2>1, <2>2 DEF BuenosEnsayos
    <2>4. ASSUME NEW v \in Pasos PROVE PasoEnRegla(paso[v], l)
        <3>1. paso[v] \in TiposPaso /\ PasoEnRegla(paso[v], e)
            BY <2>1, LoQueSostieneLaBusqueda
        <3>2. paso[v].n \in Nat /\ Len(paso[v].lista) \in Nat
            BY <1>2, <3>1 DEF TiposPaso
        <3> QED
            BY <1>2, <1>3, <2>1, <3>1, <3>2 DEF PasoEnRegla
    <2> QED
        BY <2>3, <2>4
<1>10. ajuste.estado \in {"PENDIENTE", "EN_CURSO"} /\ ~trato.huerfana =>
          \/ ajuste.ficha \in mensajes
          \/ s.pc # "libre" /\ s.ficha = ajuste.ficha
          \/ \E v \in Pasos \ {w} : paso[v].pc # "libre" /\ paso[v].ficha = ajuste.ficha
    BY <1>p, <1>4, LoQueSostieneLaBusqueda
<1>11. ~trato'.cruce => /\ ~trato.cruce /\ BuenosEnsayos(ajuste')
                        /\ PasoEnRegla(s, ajuste'.ensayos)
                        /\ \A v \in Pasos \ {w} : PasoEnRegla(paso[v], ajuste'.ensayos)
    BY <1>4, <1>5, <1>6, <1>9
<1>12. ajuste'.estado \in {"PENDIENTE", "EN_CURSO"} /\ ~trato'.huerfana =>
          \/ ajuste'.ficha \in mensajes'
          \/ s.pc # "libre" /\ s.ficha = ajuste'.ficha
          \/ \E v \in Pasos \ {w} : paso[v].pc # "libre" /\ paso[v].ficha = ajuste'.ficha
    BY <1>1, <1>5, <1>6, <1>10
<1>13. ajuste'.estado # "PENDIENTE"
    BY <1>6, <1>8
<1>14. FormaPaso(s) /\ paso' = [paso EXCEPT ![w] = s]
    BY <1>1, <1>4
<1> QED
    BY <1>7, <1>11, <1>12, <1>13, <1>14, UnPasoSigue

(* A search that has just been asked for.                                  *)
LEMMA AjusteAlPrincipio == InitAjuste => InvAjuste
<1> SUFFICES ASSUME InitAjuste PROVE InvAjuste
    OBVIOUS
<1>1. /\ ajuste = [estado |-> "PENDIENTE", ficha |-> 1, ensayos |-> <<>>, mejor |-> SinEnsayo,
                   aplicado |-> FALSE, previos |-> "manual", aplicar_si_mejora |-> TRUE]
      /\ mensajes = {1} /\ paso = [w \in Pasos |-> Paso0] /\ perfil = "manual"
      /\ trato = [cruce |-> FALSE, huerfana |-> FALSE]
    BY DEF InitAjuste
<1>2. 1 \in 1..MaxFicha /\ <<>> \in Seq(Ensayo) /\ Len(<<>>) <= Presupuesto + 1
    BY AutotuneAssumption
<1>3. FormaFila
    BY <1>1, <1>2, DeLaBusqueda DEF FormaFila, Perfiles
<1>4. FormaAjuste
    BY <1>1, <1>3, PasoLibre DEF FormaAjuste, FormaPaso
<1>5. BuenosEnsayos(ajuste)
    BY <1>1, SinEnsayosNoSeRompe DEF BuenosEnsayos
<1>6. AlguienLaAvanza
    BY <1>1 DEF AlguienLaAvanza
<1> QED
    BY <1>1, <1>4, <1>5, <1>6, PasoLibre DEF InvAjuste

(* Every step keeps it.                                                    *)
LEMMA AjustePaso == InvAjuste /\ [NextAjuste]_varsAjuste => InvAjuste'
<1> SUFFICES ASSUME InvAjuste, [NextAjuste]_varsAjuste PROVE InvAjuste'
    OBVIOUS
<1>1. CASE aplicar \/ revertir \/ save_profile \/ cancelar \/ reanudar
    BY <1>1, AlTocarLaFila
<1>2. ASSUME NEW w \in Pasos,
             continuar(w) \/ Publicar(w) \/ marcar_error(w) \/ GuardarEnsayo(w)
             \/ Reentregar(w) \/ MorirSinPublicar(w)
      PROVE  InvAjuste'
    BY <1>2, AlContinuar, AlPublicar, AlFallarElEnsayo, AlGuardarElEnsayo, AlReentregar
<1>3. ASSUME NEW w \in Pasos, NEW ficha \in mensajes, run_autotune(w, ficha)
      PROVE  InvAjuste'
    BY <1>3, AlTomarElMensaje
<1>4. ASSUME NEW w \in Pasos, NEW calidad \in 0..1, NEW rapido \in BOOLEAN,
             ReleerAjuste(w, calidad, rapido)
      PROVE  InvAjuste'
    BY <1>4, AlReleerElAjuste
<1>5. CASE UNCHANGED varsAjuste
    <2>1. UNCHANGED <<ajuste, mensajes, paso, perfil, trato>>
        BY <1>5 DEF varsAjuste
    <2>2. FormaFila'
        BY <2>1, LoQueSostieneLaBusqueda, FilaBienEscrita DEF FormaFila
    <2> QED
        BY <2>1, <2>2, LaFilaSigue
<1> QED
    BY <1>1, <1>2, <1>3, <1>4, <1>5 DEF NextAjuste

(* The invariant, always.                                                  *)
LEMMA SiempreInvAjuste == SpecAjuste => []InvAjuste
BY AjusteAlPrincipio, AjustePaso, PTL DEF SpecAjuste

(* Every variable of the search stays in its domain: no more trials are    *)
(* ever recorded than the budget and one, and no step holds a token that   *)
(* was not issued.                                                         *)
THEOREM TiposDelAjuste == SpecAjuste => []TipoAjuste
<1>1. InvAjuste => TipoAjuste
    BY LoQueSostieneLaBusqueda DEF FormaFila, TiposPaso, TipoAjuste
<1> QED
    BY <1>1, SiempreInvAjuste, PTL

(* `BusquedaEntera`: unless the owner of the search found, or wrote over,  *)
(* a trial it had not planned on, the recorded trials are those of one     *)
(* search and its result never measured worse than what was configured;    *)
(* and unless a publication was lost, somebody has it in hand.             *)
THEOREM SiempreBusquedaEntera == SpecAjuste => []BusquedaEntera
<1>1. InvAjuste => BusquedaEntera
    BY DEF InvAjuste, BuenosEnsayos, BusquedaEntera, EnsayosDeUnaBusqueda
<1> QED
    BY <1>1, SiempreInvAjuste, PTL

-----------------------------------------------------------------------------
(***************************************************************************)
(* Readings.  A service as it comes out of the pages is backed by them;    *)
(* what each step of the normalisation does to it is said field by field,  *)
(* and what holds between the service read and the one it has become is    *)
(* carried from step to step.                                              *)
(***************************************************************************)
EsInstante(v) == v = [dia |-> v.dia, hora |-> v.hora, zona |-> v.zona, iso |-> v.iso]

EsServicio(s) ==
    /\ s = [campos |-> s.campos, confianzas |-> s.confianzas, completadas |-> s.completadas]
    /\ s.campos = [f \in CamposLeidos |-> s.campos[f]]
    /\ \A f \in Instantes : EsInstante(s.campos[f])
    /\ s.confianzas \in [CamposLeidos -> 0..100]
    /\ s.completadas \subseteq Instantes

(* What the pages b say of a service read in them.                         *)
Leido(b, s) ==
    /\ EsServicio(s)
    /\ \A f \in Rotulos : s.confianzas[f] >= UmbralRevision => _find_literal(b, s.campos[f])
    /\ \A f \in Instantes : s.confianzas[f] >= UmbralRevision =>
          Figuran(b, s.campos[f]) /\ f \notin s.completadas
    /\ s.campos["localizador"] # "nada" =>
          Escrito(b, s.campos["localizador"]) /\ NoEsElNumero(s.campos)
    /\ s.campos["importe"] # "nada" => _importe_escrito(b, s.campos["importe"])
    /\ \A f \in Instantes : AnioInventado(b, s.campos[f]) => s.confianzas[f] = 0

(* The fields, one by one.                                                 *)
LEMMA LosCampos ==
    /\ CamposLeidos = {"localizador", "numero", "importe", "lugar", "destino", "ciudad", "pais",
                       "desde", "hasta"}
    /\ Rotulos \cap Instantes = {} /\ CamposLeidos = Rotulos \cup Instantes
    /\ Rotulos \subseteq CamposLeidos /\ Instantes \subseteq CamposLeidos
    /\ Rotulos = {"localizador", "numero", "importe", "lugar", "destino", "ciudad", "pais"}
    /\ Instantes = {"desde", "hasta"}
BY DEF CamposLeidos, Rotulos, Instantes

(* Every service read is backed by the pages it was read in.               *)
LEMMA AlFundar ==
    ASSUME NEW b, NEW l, EsLeido(l)
    PROVE  Leido(b, _ground_in_document(b, l))
<1> DEFINE q == _descartar_lo_inventado(b, l.campos)
           hechas == PorCompletar(b, q)
           c == _completar_horas(b, q)
           k(f) == ConfianzaDe(b, c, l.dice, f)
           s == _ground_in_document(b, l)
<1>1. /\ q = [f \in CamposLeidos |-> q[f]]
      /\ \A f \in CamposLeidos \ {"localizador", "importe"} : q[f] = l.campos[f]
      /\ q["localizador"] # "nada" => Escrito(b, q["localizador"]) /\ NoEsElNumero(q)
      /\ q["importe"] # "nada" => _importe_escrito(b, q["importe"])
    BY LosCampos DEF _descartar_lo_inventado, EsLeido, NoEsElNumero
<1>2. hechas \subseteq Instantes
    BY DEF PorCompletar
<1>3. /\ c = [f \in CamposLeidos |-> c[f]]
      /\ \A f \in Rotulos : c[f] = q[f]
      /\ \A f \in Instantes : EsInstante(c[f])
    <2> DEFINE dia(f) == CHOOSE d \in DiasDeLaHora(b, q[f].hora) : TRUE
    <2>1. \A f \in Instantes : EsInstante(q[f])
        BY <1>1, LosCampos DEF EsLeido, EsInstante
    <2>2. \A f \in Rotulos : f \notin hechas
        BY <1>2, LosCampos
    <2>3. c = [f \in CamposLeidos |->
                  IF f \in hechas THEN [q[f] EXCEPT !.dia = dia(f), !.iso = TRUE] ELSE q[f]]
        BY DEF _completar_horas
    <2> HIDE DEF dia, q, hechas, c
    <2>4. c = [f \in CamposLeidos |-> c[f]] /\ \A f \in Rotulos : c[f] = q[f]
        BY <2>2, <2>3, LosCampos
    <2>5. ASSUME NEW f \in Instantes  PROVE EsInstante(c[f])
        <3>1. c[f] = IF f \in hechas THEN [q[f] EXCEPT !.dia = dia(f), !.iso = TRUE] ELSE q[f]
            BY <2>3, LosCampos
        <3> QED
            BY <3>1, <2>1 DEF EsInstante
    <2> QED
        BY <2>4, <2>5
<1>4. \A f \in CamposLeidos :
         /\ k(f) \in 0..85
         /\ f \in Rotulos => (k(f) >= 85 => _find_literal(b, c[f]))
         /\ f \in Instantes => (k(f) >= 85 => _find_literal_instante(b, c[f]))
    <2>1. l.dice \in {SinDecir} \cup 0..100 /\ SinDecir = -1
        BY DEF EsLeido, SinDecir
    <2> QED
        BY <2>1, LosCampos DEF ConfianzaDe, CONFIANZA_LITERAL, CONFIANZA_INFERIDA, Minimo
<1>5. /\ s.campos = c /\ s.completadas = hechas
      /\ s = [campos |-> s.campos, confianzas |-> s.confianzas, completadas |-> s.completadas]
      /\ s.confianzas = [f \in CamposLeidos |->
            IF f \in Instantes /\ AnioInventado(b, c[f]) THEN 0
            ELSE IF f \in hechas THEN Minimo(k(f), CONFIANZA_COMPLETADA) ELSE k(f)]
    BY DEF _ground_in_document
<1> HIDE DEF c, hechas, k, s, q
<1>6. \A f \in CamposLeidos :
         /\ s.confianzas[f] \in 0..100
         /\ s.confianzas[f] >= 85 => k(f) >= 85 /\ f \notin hechas
         /\ f \in Instantes /\ AnioInventado(b, c[f]) => s.confianzas[f] = 0
    BY <1>4, <1>5 DEF Minimo, CONFIANZA_COMPLETADA
<1>7. EsServicio(s)
    BY <1>2, <1>3, <1>5, <1>6 DEF EsServicio
<1>8. \A f \in Rotulos : s.confianzas[f] >= UmbralRevision => _find_literal(b, s.campos[f])
    BY <1>4, <1>5, <1>6, LosCampos DEF UmbralRevision
<1>9. \A f \in Instantes : s.confianzas[f] >= UmbralRevision =>
          Figuran(b, s.campos[f]) /\ f \notin s.completadas
    <2> SUFFICES ASSUME NEW f \in Instantes, s.confianzas[f] >= 85
                 PROVE  _find_literal_instante(b, c[f]) /\ f \notin hechas
        BY <1>5 DEF UmbralRevision, _find_literal_instante
    <2> QED
        BY <1>4, <1>6, LosCampos
<1>10. /\ s.campos["localizador"] # "nada" =>
             Escrito(b, s.campos["localizador"]) /\ NoEsElNumero(s.campos)
       /\ s.campos["importe"] # "nada" => _importe_escrito(b, s.campos["importe"])
    BY <1>1, <1>3, <1>5, LosCampos DEF NoEsElNumero
<1>11. \A f \in Instantes : AnioInventado(b, s.campos[f]) => s.confianzas[f] = 0
    BY <1>5, <1>6, LosCampos
<1> QED
    BY <1>7, <1>8, <1>9, <1>10, <1>11 DEF Leido, s

(* What normalising keeps of the service a: it rewrites no label but the   *)
(* locator, adds none but a city and a country, moves no day or hour, and  *)
(* gives no more trust but to the country.                                 *)
Desciende(a, t) ==
    /\ EsServicio(a) /\ EsServicio(t)
    /\ t.completadas = a.completadas
    /\ \A f \in CamposLeidos \ {"pais"} : t.confianzas[f] <= a.confianzas[f]
    /\ \A f \in Rotulos \ {"localizador", "ciudad", "pais"} : t.campos[f] \in {a.campos[f], "nada"}
    /\ \A f \in Instantes : /\ t.campos[f].dia = a.campos[f].dia
                            /\ t.campos[f].hora \in {a.campos[f].hora, SinHora}

(* The locator, once its form is looked at: the one read, as it is stored. *)
ConLocalizador(a, t) ==
    /\ t.confianzas["localizador"] >= 85 => t.campos["localizador"] \in Regulares \cup {"nada"}
    /\ t.campos["localizador"] # "nada" =>
          /\ a.campos["localizador"] # "nada"
          /\ t.campos["localizador"] = cleaned(a.campos["localizador"])

(* The city is printed, or the one of the place.                           *)
ConCiudad(b, t) ==
    t.campos["ciudad"] # "nada" /\ t.confianzas["ciudad"] >= 85 =>
        \/ _find_literal(b, t.campos["ciudad"])
        \/ t.campos["ciudad"] \in {r.ciudad : r \in Catalogo(t.campos["lugar"])}

(* The country is printed, or the one of a place.                          *)
PaisEscrito(b, t) ==
    t.campos["pais"] # "nada" /\ t.confianzas["pais"] >= 85 =>
        \/ _find_literal(b, t.campos["pais"])
        \/ t.campos["pais"] \in {r.pais : r \in FilasDelLugar(t)}

(* And so it is once a printed name has become a code.                     *)
ConPais(b, t) ==
    t.campos["pais"] # "nada" /\ t.confianzas["pais"] >= 85 =>
        \/ _find_literal(b, t.campos["pais"])
        \/ t.campos["pais"] \in {r.pais : r \in FilasDelLugar(t)}
        \/ \E n \in DOMAIN CodigoDelPais : t.campos["pais"] = CodigoDelPais[n] /\ _find_literal(b, n)

(* The zone of an instant is the one read, or the one of a place.          *)
ZonaDeFila(a, t) ==
    \A f \in Instantes : \/ t.campos[f].zona = a.campos[f].zona
                         \/ t.campos[f].zona \in {r.zona : r \in FilasDelLugar(t)}

(* Or the one of the country, or it is in doubt.                           *)
ConZona(a, t) ==
    \A f \in Instantes : t.campos[f].hora # SinHora /\ t.confianzas[f] >= 85 =>
        \/ t.campos[f].zona = a.campos[f].zona
        \/ t.campos[f].zona \in {r.zona : r \in FilasDelLugar(t)}
        \/ /\ t.campos["pais"] \in DOMAIN ZonaDelPais
           /\ t.campos[f].zona = ZonaDelPais[t.campos["pais"]]

(* What happens in a place the catalogue does not know is in doubt.        *)
ConCatalogo(t, codigo) == SinCatalogo(t, codigo) => t.confianzas[PuntoDe(codigo)] < 85

(* Every instant that is left has a day and a zone.                        *)
ConHora(t) ==
    \A f \in Instantes : t.campos[f].hora # SinHora => t.campos[f].dia # 0 /\ t.campos[f].zona \in ZonasValidas

(* And those the wrong way round are in doubt.                             *)
ConOrden(t) == AlReves(t.campos) => \A f \in Instantes : t.confianzas[f] < 85

-----------------------------------------------------------------------------
(* A written null is taken for an absent value.                            *)
LEMMA SinNulos ==
    ASSUME NEW b, NEW a, Leido(b, a)
    PROVE  LET t == _sin_nulos_escritos(a) IN
              /\ Desciende(a, t) /\ ConCiudad(b, t) /\ PaisEscrito(b, t)
              /\ t.campos["localizador"] \in {a.campos["localizador"], "nada"}
              /\ \A f \in Instantes : t.campos[f].zona = a.campos[f].zona
<1> DEFINE t == _sin_nulos_escritos(a)
<1>1. /\ t = [campos |-> t.campos, confianzas |-> a.confianzas, completadas |-> a.completadas]
      /\ t.campos = [f \in CamposLeidos |-> t.campos[f]]
      /\ \A f \in Rotulos : t.campos[f] \in {a.campos[f], "nada"}
      /\ \A f \in Instantes : t.campos[f] = a.campos[f]
      /\ t.confianzas = a.confianzas /\ t.completadas = a.completadas
    BY LosCampos DEF _sin_nulos_escritos, Leido, EsServicio
<1> HIDE DEF t
<1>2. a.confianzas \in [CamposLeidos -> 0..100] /\ a.completadas \subseteq Instantes
      /\ \A f \in Instantes : EsInstante(a.campos[f])
    BY DEF Leido, EsServicio
<1>3. EsServicio(t)
    BY <1>1, <1>2, LosCampos DEF EsServicio
<1>4. Desciende(a, t)
    BY <1>1, <1>2, <1>3, LosCampos DEF Desciende, Leido
<1>5. ConCiudad(b, t) /\ PaisEscrito(b, t)
    BY <1>1, LosCampos DEF Leido, ConCiudad, PaisEscrito, UmbralRevision
<1> QED
    BY <1>1, <1>4, <1>5, LosCampos DEF t

(* A locator of an unusual form is in doubt.                               *)
LEMMA ElLocalizador ==
    ASSUME NEW b, NEW a, NEW u, Desciende(a, u), ConCiudad(b, u), PaisEscrito(b, u),
           u.campos["localizador"] \in {a.campos["localizador"], "nada"},
           \A f \in Instantes : u.campos[f].zona = a.campos[f].zona
    PROVE  LET t == _normalize_locators(u) IN
              /\ Desciende(a, t) /\ ConLocalizador(a, t) /\ ConCiudad(b, t) /\ PaisEscrito(b, t)
              /\ \A f \in Instantes : t.campos[f].zona = a.campos[f].zona
<1> DEFINE t == _normalize_locators(u)
           x == IF u.campos["localizador"] = "nada" THEN "nada" ELSE cleaned(u.campos["localizador"])
           k == IF u.campos["localizador"] = "nada" \/ x \in Regulares THEN u.confianzas["localizador"]
                ELSE Minimo(u.confianzas["localizador"], 70)
           c == [u.campos EXCEPT !["localizador"] = x]
           d == [u.confianzas EXCEPT !["localizador"] = k]
<1>0. EsServicio(u)
    BY DEF Desciende
<1>1. t = [campos |-> c, confianzas |-> d, completadas |-> u.completadas]
    <2>1. CASE u.campos["localizador"] = "nada"
        <3>1. c = u.campos /\ d = u.confianzas
            BY <1>0, <2>1, LosCampos DEF EsServicio
        <3> QED
            BY <1>0, <2>1, <3>1 DEF _normalize_locators, EsServicio
    <2>2. CASE u.campos["localizador"] # "nada"
        BY <1>0, <2>2 DEF _normalize_locators, EsServicio
    <2> QED
        BY <2>1, <2>2
<1>2. /\ k \in 0..100 /\ k <= u.confianzas["localizador"]
      /\ k >= 85 => x \in Regulares \cup {"nada"}
      /\ x # "nada" => /\ a.campos["localizador"] # "nada"
                       /\ x = cleaned(a.campos["localizador"])
    BY <1>0, LosCampos DEF EsServicio, Minimo
<1> HIDE DEF t, k, x
<1>3. /\ d \in [CamposLeidos -> 0..100] /\ d["localizador"] = k
      /\ \A f \in CamposLeidos \ {"localizador"} : d[f] = u.confianzas[f]
      /\ c = [f \in CamposLeidos |-> c[f]] /\ c["localizador"] = x
      /\ \A f \in CamposLeidos \ {"localizador"} : c[f] = u.campos[f]
    BY <1>0, <1>2, LosCampos DEF EsServicio
<1> HIDE DEF c, d
<1>9. t.campos = c /\ t.confianzas = d /\ t.completadas = u.completadas
    BY <1>1
<1>4. EsServicio(t)
    BY <1>0, <1>1, <1>3, <1>9, LosCampos DEF EsServicio
<1>5. \A f \in CamposLeidos \ {"pais"} : t.confianzas[f] <= a.confianzas[f]
    <2> SUFFICES ASSUME NEW f \in CamposLeidos \ {"pais"}  PROVE d[f] <= a.confianzas[f]
        BY <1>9
    <2>1. /\ d[f] \in Int /\ u.confianzas[f] \in Int /\ a.confianzas[f] \in Int
          /\ u.confianzas[f] <= a.confianzas[f]
        BY <1>3 DEF Desciende, EsServicio
    <2>2. d[f] <= u.confianzas[f]
        BY <1>2, <1>3, <2>1
    <2> QED
        BY <2>1, <2>2
<1>6. Desciende(a, t)
    BY <1>3, <1>4, <1>5, <1>9, LosCampos DEF Desciende
<1>7. ConLocalizador(a, t)
    BY <1>2, <1>3, <1>9 DEF ConLocalizador
<1>8. ConCiudad(b, t) /\ PaisEscrito(b, t)
    BY <1>3, <1>9, LosCampos DEF ConCiudad, PaisEscrito, FilasDelLugar
<1>10. \A f \in Instantes : t.campos[f].zona = a.campos[f].zona
    BY <1>3, <1>9, LosCampos
<1> QED
    BY <1>6, <1>7, <1>8, <1>10 DEF t

(* What is known of a service whose place has been looked up.              *)
ConLugares(b, a, t) ==
    /\ Desciende(a, t) /\ ConLocalizador(a, t) /\ ConCiudad(b, t) /\ PaisEscrito(b, t)
    /\ ZonaDeFila(a, t) /\ ConCatalogo(t, "lugar")

(* A confidence cut to some tenths.                                        *)
LEMMA LaRedondeada ==
    ASSUME NEW c \in 0..100, NEW decimas \in {6, 7, 8}
    PROVE  Redondeo(c, decimas) \in 0..80 /\ Redondeo(c, decimas) <= c
BY DEF Redondeo

(* The catalogue does not know the place: its trust and that of its        *)
(* instant are cut.                                                        *)
LEMMA AlBajar ==
    ASSUME NEW a, NEW u, Desciende(a, u), NEW codigo \in {"lugar", "destino"}
    PROVE  LET t == Baja(u, {codigo, PuntoDe(codigo)}, 8) IN
              /\ Desciende(a, t) /\ t.campos = u.campos /\ t.confianzas[PuntoDe(codigo)] < 85
              /\ \A f \in CamposLeidos : t.confianzas[f] <= u.confianzas[f]
<1> DEFINE bajas == {codigo, PuntoDe(codigo)}
           t == Baja(u, bajas, 8)
<1>0. EsServicio(u) /\ EsServicio(a) /\ PuntoDe(codigo) \in Instantes
    BY LosCampos DEF Desciende, PuntoDe
<1>1. /\ t.campos = u.campos /\ t.completadas = u.completadas
      /\ t.confianzas = [f \in CamposLeidos |->
            IF f \in bajas THEN Redondeo(u.confianzas[f], 8) ELSE u.confianzas[f]]
      /\ t = [campos |-> t.campos, confianzas |-> t.confianzas, completadas |-> t.completadas]
    BY <1>0 DEF Baja, EsServicio
<1> HIDE DEF t
<1>2. \A f \in CamposLeidos : /\ t.confianzas[f] \in 0..100 /\ t.confianzas[f] <= u.confianzas[f]
                              /\ f \in bajas => t.confianzas[f] < 85
    <2> SUFFICES ASSUME NEW f \in CamposLeidos
                 PROVE  /\ t.confianzas[f] \in 0..100 /\ t.confianzas[f] <= u.confianzas[f]
                        /\ f \in bajas => t.confianzas[f] < 85
        OBVIOUS
    <2>1. u.confianzas[f] \in 0..100
        BY <1>0 DEF EsServicio
    <2>2. Redondeo(u.confianzas[f], 8) \in 0..80 /\ Redondeo(u.confianzas[f], 8) <= u.confianzas[f]
        BY <2>1, LaRedondeada
    <2>3. t.confianzas[f] = IF f \in bajas THEN Redondeo(u.confianzas[f], 8) ELSE u.confianzas[f]
        BY <1>1
    <2> QED
        BY <2>1, <2>2, <2>3
<1>3. EsServicio(t)
    BY <1>0, <1>1, <1>2 DEF EsServicio
<1>4. ASSUME NEW f \in CamposLeidos \ {"pais"}  PROVE t.confianzas[f] <= a.confianzas[f]
    <2>1. u.confianzas[f] \in Int /\ a.confianzas[f] \in Int /\ u.confianzas[f] <= a.confianzas[f]
        BY <1>0 DEF Desciende, EsServicio
    <2> QED
        BY <1>2, <2>1
<1>5. Desciende(a, t)
    BY <1>0, <1>1, <1>3, <1>4 DEF Desciende
<1> QED
    BY <1>0, <1>1, <1>2, <1>5, LosCampos DEF t

(* The zone of a row, given to an instant.                                 *)
LEMMA ElInstante ==
    ASSUME NEW u, EsServicio(u), NEW i \in Instantes, NEW z,
           NEW c, c = IF Falta(u.campos, i) THEN u.campos ELSE [u.campos EXCEPT ![i].zona = z]
    PROVE  /\ c = [f \in CamposLeidos |-> c[f]]
           /\ \A f \in Rotulos : c[f] = u.campos[f]
           /\ \A f \in Instantes :
                 /\ EsInstante(c[f]) /\ c[f].dia = u.campos[f].dia /\ c[f].hora = u.campos[f].hora
                 /\ c[f].zona \in {u.campos[f].zona, z}
<1>1. EsInstante(u.campos[i]) /\ \A f \in Instantes : EsInstante(u.campos[f])
    BY DEF EsServicio
<1>2. CASE Falta(u.campos, i)
    BY <1>1, <1>2, LosCampos DEF EsServicio
<1>3. CASE ~Falta(u.campos, i)
    <2> DEFINE w == [u.campos[i] EXCEPT !.zona = z]
    <2>1. w = [dia |-> u.campos[i].dia, hora |-> u.campos[i].hora, zona |-> z, iso |-> u.campos[i].iso]
        BY <1>1 DEF EsInstante
    <2>2. EsInstante(w) /\ w.dia = u.campos[i].dia /\ w.hora = u.campos[i].hora /\ w.zona = z
        BY <2>1 DEF EsInstante
    <2>3. c = [u.campos EXCEPT ![i] = w]
        BY <1>3
    <2> HIDE DEF w
    <2>4. /\ c = [f \in CamposLeidos |-> c[f]] /\ c[i] = w
          /\ \A f \in CamposLeidos \ {i} : c[f] = u.campos[f]
        BY <2>3, LosCampos DEF EsServicio
    <2> QED
        BY <1>1, <2>2, <2>4, LosCampos
<1> QED
    BY <1>2, <1>3

(* The row of the place of departure, field by field.                      *)
EnElLugar(u, fila, t) ==
    /\ EsServicio(t) /\ t.completadas = u.completadas
    /\ \A f \in Rotulos \ {"ciudad", "pais"} : t.campos[f] = u.campos[f]
    /\ t.campos["ciudad"] = IF u.campos["ciudad"] = "nada" THEN fila.ciudad ELSE u.campos["ciudad"]
    /\ t.campos["pais"] = fila.pais
    /\ \A f \in Instantes :
          /\ t.campos[f].dia = u.campos[f].dia /\ t.campos[f].hora = u.campos[f].hora
          /\ t.campos[f].zona \in {u.campos[f].zona, fila.zona}
    /\ \A f \in CamposLeidos \ {"pais"} : t.confianzas[f] = u.confianzas[f]

(* And that is what is done with it.                                       *)
LEMMA AlSituarElLugar ==
    ASSUME NEW u, EsServicio(u), NEW fila, NEW t, t = ConLugar(u, "lugar", fila)
    PROVE  EnElLugar(u, fila, t)
<1> DEFINE c == IF Falta(u.campos, "desde") THEN u.campos ELSE [u.campos EXCEPT !["desde"].zona = fila.zona]
           d == [c EXCEPT !["ciudad"] = IF c["ciudad"] = "nada" THEN fila.ciudad ELSE c["ciudad"],
                          !["pais"] = fila.pais]
           k == [u.confianzas EXCEPT !["pais"] = 90]
<1>1. /\ c = [f \in CamposLeidos |-> c[f]]
      /\ \A f \in Rotulos : c[f] = u.campos[f]
      /\ \A f \in Instantes :
            /\ EsInstante(c[f]) /\ c[f].dia = u.campos[f].dia /\ c[f].hora = u.campos[f].hora
            /\ c[f].zona \in {u.campos[f].zona, fila.zona}
    BY ElInstante, LosCampos
<1>2. t = [campos |-> d, confianzas |-> k, completadas |-> u.completadas]
    BY DEF ConLugar, PuntoDe, CONFIANZA_CATALOGO
<1> HIDE DEF c
<1>3. /\ d = [f \in CamposLeidos |-> d[f]]
      /\ \A f \in CamposLeidos \ {"ciudad", "pais"} : d[f] = c[f]
      /\ d["ciudad"] = IF c["ciudad"] = "nada" THEN fila.ciudad ELSE c["ciudad"]
      /\ d["pais"] = fila.pais
    BY <1>1, LosCampos
<1>4. k \in [CamposLeidos -> 0..100] /\ \A f \in CamposLeidos \ {"pais"} : k[f] = u.confianzas[f]
    BY LosCampos DEF EsServicio
<1> HIDE DEF d, k
<1>5. t.campos = d /\ t.confianzas = k /\ t.completadas = u.completadas
    BY <1>2
<1>6. EsServicio(t)
    BY <1>1, <1>2, <1>3, <1>4, <1>5, LosCampos DEF EsServicio
<1>7. /\ \A f \in Rotulos \ {"ciudad", "pais"} : d[f] = u.campos[f]
      /\ d["ciudad"] = IF u.campos["ciudad"] = "nada" THEN fila.ciudad ELSE u.campos["ciudad"]
      /\ \A f \in Instantes : d[f] = c[f]
    BY <1>1, <1>3, LosCampos
<1> QED
    BY <1>1, <1>3, <1>4, <1>5, <1>6, <1>7 DEF EnElLugar

(* The rows of a label are of the place.                                   *)
LEMMA LasFilas ==
    ASSUME NEW t, NEW f \in {"lugar", "destino", "ciudad"}
    PROVE  Catalogo(t.campos[f]) \subseteq FilasDelLugar(t)
BY DEF FilasDelLugar

(* Nothing has no rows.                                                    *)
LEMMA NadaNoEsLugar == Catalogo("nada") = {} /\ \A c \in Postales : Catalogo(c) = {}
BY LugaresAssumption DEF Catalogo

(* The place of departure, looked up.                                      *)
LEMMA ElLugar ==
    ASSUME NEW b, NEW a, NEW u, Desciende(a, u), ConLocalizador(a, u), ConCiudad(b, u), PaisEscrito(b, u),
           \A f \in Instantes : u.campos[f].zona = a.campos[f].zona,
           NEW t \in _normalize_locations(u, "lugar")
    PROVE  ConLugares(b, a, t)
<1> DEFINE filas == Catalogo(u.campos["lugar"])
<1>0. EsServicio(u) /\ EsServicio(a) /\ PuntoDe("lugar") = "desde"
    BY DEF Desciende, PuntoDe
<1>1. CASE u.campos["lugar"] = "nada"
    <2>1. t = u
        BY <1>1 DEF _normalize_locations
    <2>2. ConCatalogo(t, "lugar") /\ ZonaDeFila(a, t)
        BY <1>1, <2>1, LosCampos DEF ConCatalogo, SinCatalogo, Falta, ZonaDeFila
    <2> QED
        BY <2>1, <2>2 DEF ConLugares
<1>2. CASE u.campos["lugar"] # "nada" /\ filas = {}
    <2>1. t = Baja(u, {"lugar", PuntoDe("lugar")}, 8)
        BY <1>2 DEF _normalize_locations
    <2>2. /\ Desciende(a, t) /\ t.campos = u.campos /\ t.confianzas["desde"] < 85
          /\ \A f \in CamposLeidos : t.confianzas[f] <= u.confianzas[f]
        BY <1>0, <2>1, AlBajar
    <2>3. \A f \in CamposLeidos : t.confianzas[f] >= 85 => u.confianzas[f] >= 85
        BY <1>0, <2>2 DEF Desciende, EsServicio
    <2>4. ConLocalizador(a, t) /\ ConCiudad(b, t) /\ PaisEscrito(b, t)
        BY <2>2, <2>3, LosCampos DEF ConLocalizador, ConCiudad, PaisEscrito, FilasDelLugar
    <2>5. ConCatalogo(t, "lugar") /\ ZonaDeFila(a, t)
        BY <1>0, <2>2 DEF ConCatalogo, ZonaDeFila
    <2> QED
        BY <2>2, <2>4, <2>5 DEF ConLugares
<1>3. CASE u.campos["lugar"] # "nada" /\ filas # {}
    <2>1. PICK fila \in filas : t = ConLugar(u, "lugar", fila)
        BY <1>3 DEF _normalize_locations
    <2>2. EnElLugar(u, fila, t)
        BY <1>0, <2>1, AlSituarElLugar
    <2>6. Desciende(a, t)
        BY <1>0, <2>2 DEF EnElLugar, Desciende
    <2>7. ConLocalizador(a, t)
        BY <2>2, LosCampos DEF EnElLugar, ConLocalizador
    <2>8. t.campos["lugar"] = u.campos["lugar"] /\ fila \in Catalogo(t.campos["lugar"])
          /\ fila \in FilasDelLugar(t)
        BY <2>2, LasFilas, LosCampos DEF EnElLugar
    <2>9. ConCiudad(b, t)
        BY <2>2, <2>8, LosCampos DEF EnElLugar, ConCiudad
    <2>10. PaisEscrito(b, t)
        BY <2>2, <2>8 DEF EnElLugar, PaisEscrito
    <2>11. ZonaDeFila(a, t)
        BY <2>2, <2>8 DEF EnElLugar, ZonaDeFila
    <2>12. ConCatalogo(t, "lugar")
        BY <2>8 DEF ConCatalogo, SinCatalogo
    <2> QED
        BY <2>6, <2>7, <2>9, <2>10, <2>11, <2>12 DEF ConLugares
<1> QED
    BY <1>1, <1>2, <1>3

(* The place of arrival, looked up: it gives its zone and nothing else.    *)
LEMMA ElDestino ==
    ASSUME NEW b, NEW a, NEW u, ConLugares(b, a, u), NEW t \in _normalize_locations(u, "destino")
    PROVE  ConLugares(b, a, t) /\ ConCatalogo(t, "destino")
<1> DEFINE filas == Catalogo(u.campos["destino"])
<1>0. EsServicio(u) /\ EsServicio(a) /\ Desciende(a, u) /\ PuntoDe("destino") = "hasta" /\ PuntoDe("lugar") = "desde"
    BY DEF ConLugares, Desciende, PuntoDe
<1>1. CASE u.campos["destino"] = "nada"
    <2>1. t = u
        BY <1>1 DEF _normalize_locations
    <2>2. ConCatalogo(t, "destino")
        BY <1>1, <2>1, LosCampos DEF ConCatalogo, SinCatalogo, Falta
    <2> QED
        BY <2>1, <2>2
<1>2. CASE u.campos["destino"] # "nada" /\ filas = {}
    <2>1. t = Baja(u, {"destino", PuntoDe("destino")}, 8)
        BY <1>2 DEF _normalize_locations
    <2>2. /\ Desciende(a, t) /\ t.campos = u.campos /\ t.confianzas["hasta"] < 85
          /\ \A f \in CamposLeidos : t.confianzas[f] <= u.confianzas[f]
        BY <1>0, <2>1, AlBajar
    <2>3. \A f \in CamposLeidos : t.confianzas[f] >= 85 => u.confianzas[f] >= 85
        BY <1>0, <2>2 DEF Desciende, EsServicio
    <2>4. ConLocalizador(a, t) /\ ConCiudad(b, t) /\ PaisEscrito(b, t)
        BY <2>2, <2>3, LosCampos DEF ConLugares, ConLocalizador, ConCiudad, PaisEscrito, FilasDelLugar
    <2>5. ConCatalogo(t, "destino") /\ ConCatalogo(t, "lugar") /\ ZonaDeFila(a, t)
        <3>1. t.confianzas["desde"] \in Int /\ u.confianzas["desde"] \in Int
              /\ t.confianzas["desde"] <= u.confianzas["desde"]
            <4>1. "desde" \in CamposLeidos
                BY LosCampos
            <4>2. t.confianzas \in [CamposLeidos -> 0..100] /\ u.confianzas \in [CamposLeidos -> 0..100]
                BY <1>0, <2>2 DEF Desciende, EsServicio
            <4> QED
                BY <2>2, <4>1, <4>2
        <3>2. ConCatalogo(t, "destino")
            BY <1>0, <2>2 DEF ConCatalogo
        <3>3. ConCatalogo(t, "lugar")
            BY <1>0, <2>2, <3>1 DEF ConLugares, ConCatalogo, SinCatalogo
        <3>4. ZonaDeFila(a, t)
            BY <2>2 DEF ConLugares, ZonaDeFila, FilasDelLugar
        <3> QED
            BY <3>2, <3>3, <3>4
    <2> QED
        BY <2>2, <2>4, <2>5 DEF ConLugares
<1>3. CASE u.campos["destino"] # "nada" /\ filas # {}
    <2>1. PICK fila \in filas : t = ConLugar(u, "destino", fila)
        BY <1>3 DEF _normalize_locations
    <2> DEFINE c == IF Falta(u.campos, "hasta") THEN u.campos ELSE [u.campos EXCEPT !["hasta"].zona = fila.zona]
    <2>2. t = [campos |-> c, confianzas |-> u.confianzas, completadas |-> u.completadas]
        BY <1>0, <2>1 DEF ConLugar, EsServicio
    <2>3. /\ c = [f \in CamposLeidos |-> c[f]]
          /\ \A f \in Rotulos : c[f] = u.campos[f]
          /\ \A f \in Instantes :
                /\ EsInstante(c[f]) /\ c[f].dia = u.campos[f].dia /\ c[f].hora = u.campos[f].hora
                /\ c[f].zona \in {u.campos[f].zona, fila.zona}
        BY <1>0, ElInstante, LosCampos
    <2> HIDE DEF c
    <2>4. t.campos = c /\ t.confianzas = u.confianzas /\ t.completadas = u.completadas
        BY <2>2
    <2>5. EsServicio(t)
        BY <1>0, <2>2, <2>3, <2>4 DEF EsServicio
    <2>6. Desciende(a, t)
        BY <1>0, <2>3, <2>4, <2>5, LosCampos DEF Desciende
    <2>7. FilasDelLugar(t) = FilasDelLugar(u) /\ fila \in FilasDelLugar(t)
        BY <2>3, <2>4, LasFilas, LosCampos DEF FilasDelLugar
    <2>8. ConLocalizador(a, t) /\ ConCiudad(b, t) /\ PaisEscrito(b, t)
        BY <2>3, <2>4, <2>7, LosCampos DEF ConLugares, ConLocalizador, ConCiudad, PaisEscrito
    <2>9. ZonaDeFila(a, t)
        BY <2>3, <2>4, <2>7 DEF ConLugares, ZonaDeFila
    <2>10. ConCatalogo(t, "lugar") /\ ConCatalogo(t, "destino")
        BY <1>0, <1>3, <2>3, <2>4, LosCampos DEF ConLugares, ConCatalogo, SinCatalogo, Falta
    <2> QED
        BY <2>6, <2>8, <2>9, <2>10 DEF ConLugares
<1> QED
    BY <1>1, <1>2, <1>3

(* What is known of a service whose country is a code.                     *)
ConPaises(b, a, t) ==
    /\ Desciende(a, t) /\ ConLocalizador(a, t) /\ ConCiudad(b, t) /\ ConPais(b, t) /\ ConZona(a, t)
    /\ ConCatalogo(t, "lugar") /\ ConCatalogo(t, "destino")

(* A service with another country, or another city, and nothing else new.  *)
ConRotulo(u, g, p) == [u EXCEPT !.campos[g] = p]

(* It descends from the same one.                                          *)
LEMMA OtroRotulo ==
    ASSUME NEW a, NEW u, Desciende(a, u), NEW g \in {"ciudad", "pais"}, NEW p,
           NEW t, t = ConRotulo(u, g, p)
    PROVE  /\ Desciende(a, t) /\ t.confianzas = u.confianzas /\ t.campos[g] = p
           /\ \A f \in CamposLeidos \ {g} : t.campos[f] = u.campos[f]
<1> DEFINE c == [u.campos EXCEPT ![g] = p]
<1>0. EsServicio(u)
    BY DEF Desciende
<1>1. t = [campos |-> c, confianzas |-> u.confianzas, completadas |-> u.completadas]
    BY <1>0 DEF EsServicio, ConRotulo
<1>2. /\ c = [f \in CamposLeidos |-> c[f]] /\ c[g] = p
      /\ \A f \in CamposLeidos \ {g} : c[f] = u.campos[f]
    BY <1>0, LosCampos DEF EsServicio
<1> HIDE DEF c
<1>3. t.campos = c /\ t.confianzas = u.confianzas /\ t.completadas = u.completadas
    BY <1>1
<1>4. EsServicio(t)
    BY <1>0, <1>1, <1>2, <1>3, LosCampos DEF EsServicio
<1>5. Desciende(a, t)
    BY <1>2, <1>3, <1>4, LosCampos DEF Desciende
<1> QED
    BY <1>2, <1>3, <1>5

(* A place that is not known is as doubtful as it was.                     *)
LEMMA MismoCatalogo ==
    ASSUME NEW u, NEW t, NEW g \in {"lugar", "destino"}, ConCatalogo(u, g),
           t.campos[g] = u.campos[g], t.confianzas = u.confianzas
    PROVE  ConCatalogo(t, g)
<1>1. Falta(t.campos, g) <=> Falta(u.campos, g)
    BY LosCampos DEF Falta
<1> QED
    BY <1>1 DEF ConCatalogo, SinCatalogo

(* The country becomes a code, or nothing.                                 *)
LEMMA ElPais ==
    ASSUME NEW b, NEW a, NEW u, ConLugares(b, a, u), ConCatalogo(u, "destino"),
           NEW t, t = _normalize_countries(u)
    PROVE  ConPaises(b, a, t) /\ ZonaDeFila(a, t)
<1> DEFINE v == u.campos["pais"]
           p == IF v \in DOMAIN ZonaDelPais \cup Breves THEN v
                ELSE IF v \in DOMAIN CodigoDelPais THEN CodigoDelPais[v] ELSE "nada"
<1>1. Desciende(a, u)
    BY DEF ConLugares
<1>2. t = ConRotulo(u, "pais", p)
    BY DEF _normalize_countries, ConRotulo
<1> HIDE DEF p
<1>3. /\ Desciende(a, t) /\ t.confianzas = u.confianzas /\ t.campos["pais"] = p
      /\ \A f \in CamposLeidos \ {"pais"} : t.campos[f] = u.campos[f]
    BY <1>1, <1>2, OtroRotulo
<1>4. FilasDelLugar(t) = FilasDelLugar(u)
    BY <1>3, LosCampos DEF FilasDelLugar
<1>5. ConPais(b, t)
    <2> SUFFICES ASSUME p # "nada", u.confianzas["pais"] >= 85
                 PROVE  \/ _find_literal(b, p)
                        \/ p \in {r.pais : r \in FilasDelLugar(u)}
                        \/ \E n \in DOMAIN CodigoDelPais : p = CodigoDelPais[n] /\ _find_literal(b, n)
        BY <1>3, <1>4 DEF ConPais
    <2>1. v # "nada"
        BY PaisesAssumption DEF p
    <2>2. CASE _find_literal(b, v)
        BY <2>1, <2>2 DEF p
    <2>3. CASE v \in {r.pais : r \in FilasDelLugar(u)}
        <3>1. PICK f \in {"lugar", "destino", "ciudad"} : \E r \in Catalogo(u.campos[f]) : r.pais = v
            BY <2>3 DEF FilasDelLugar
        <3>2. v \in DOMAIN ZonaDelPais \cup Breves
            BY <2>1, <3>1, LugaresAssumption DEF Catalogo
        <3> QED
            BY <2>3, <3>2 DEF p
    <2> QED
        BY <2>1, <2>2, <2>3 DEF ConLugares, PaisEscrito
<1>6. ZonaDeFila(a, t)
    BY <1>3, <1>4, LosCampos DEF ConLugares, ZonaDeFila
<1>7. ConZona(a, t)
    BY <1>6 DEF ConZona, ZonaDeFila
<1>8. ConLocalizador(a, t) /\ ConCiudad(b, t)
    BY <1>3, LosCampos DEF ConLugares, ConLocalizador, ConCiudad
<1>9. ConCatalogo(t, "lugar") /\ ConCatalogo(t, "destino")
    <2>1. ConCatalogo(u, "lugar") /\ t.campos["lugar"] = u.campos["lugar"]
          /\ t.campos["destino"] = u.campos["destino"]
        BY <1>3, LosCampos DEF ConLugares
    <2> QED
        BY <1>3, <2>1, MismoCatalogo
<1> QED
    BY <1>3, <1>5, <1>6, <1>7, <1>8, <1>9 DEF ConPaises

(* What the catalogue says of a city: a zone and a country of its rows, or *)
(* the country asked for and its main zone.                                *)
LEMMA LoResuelto ==
    ASSUME NEW ciudad, NEW pais
    PROVE  LET l == resolver_lugar(ciudad, pais) IN
              \/ /\ l.zona \in {r.zona : r \in Catalogo(ciudad)}
                 /\ l.pais \in {r.pais : r \in Catalogo(ciudad)} \cup {"nada"}
              \/ pais \in DOMAIN ZonaDelPais /\ l.zona = ZonaDelPais[pais] /\ l.pais = pais
              \/ l.zona = "nada" /\ l.pais = "nada"
<1> DEFINE zonas == {f.zona : f \in Catalogo(ciudad)}
           paises == {f.pais : f \in Catalogo(ciudad)}
           z == CHOOSE x \in zonas : TRUE
           p == CHOOSE x \in paises : TRUE
<1>1. (\E x \in zonas : zonas = {x}) => z \in zonas
    OBVIOUS
<1>2. (\E x \in paises : paises = {x}) => p \in paises
    OBVIOUS
<1>3. resolver_lugar(ciudad, pais) =
         IF \E x \in zonas : zonas = {x}
         THEN [zona |-> z, pais |-> IF \E x \in paises : paises = {x} THEN p ELSE "nada"]
         ELSE IF pais \in DOMAIN ZonaDelPais THEN [zona |-> ZonaDelPais[pais], pais |-> pais]
         ELSE [zona |-> "nada", pais |-> "nada"]
    BY DEF resolver_lugar
<1> HIDE DEF zonas, paises, z, p
<1>4. \/ /\ resolver_lugar(ciudad, pais).zona \in zonas
         /\ resolver_lugar(ciudad, pais).pais \in paises \cup {"nada"}
      \/ /\ pais \in DOMAIN ZonaDelPais
         /\ resolver_lugar(ciudad, pais).zona = ZonaDelPais[pais]
         /\ resolver_lugar(ciudad, pais).pais = pais
      \/ resolver_lugar(ciudad, pais).zona = "nada" /\ resolver_lugar(ciudad, pais).pais = "nada"
    BY <1>1, <1>2, <1>3
<1> QED
    BY <1>4 DEF zonas, paises

(* The city and the country give their zone to the instants.               *)
LEMMA LaZona ==
    ASSUME NEW b, NEW a, NEW u, ConPaises(b, a, u), ZonaDeFila(a, u),
           NEW t, t = _normalize_place_timezones(u)
    PROVE  ConPaises(b, a, t)
<1> DEFINE ciudad == u.campos["ciudad"]
           pais == u.campos["pais"]
           l == resolver_lugar(ciudad, pais)
           gana == l.pais # "nada" /\ pais = "nada"
           zonado(v) == IF v.hora = SinHora \/ l.zona = "nada" THEN v ELSE [v EXCEPT !.zona = l.zona]
           p == IF gana THEN l.pais ELSE pais
           desde == zonado(u.campos["desde"])
           hasta == zonado(u.campos["hasta"])
           c == [u.campos EXCEPT !["pais"] = p, !["desde"] = desde, !["hasta"] = hasta]
           k == [u.confianzas EXCEPT !["pais"] = IF gana THEN 90 ELSE u.confianzas["pais"]]
<1>0. Desciende(a, u) /\ EsServicio(u) /\ EsServicio(a)
    BY DEF ConPaises, Desciende
<1>1. CASE t = u
    BY <1>1
<1>2. CASE t = [campos |-> c, confianzas |-> k, completadas |-> u.completadas]
    <2>1. \/ l.zona \in {r.zona : r \in Catalogo(ciudad)} /\ l.pais \in {r.pais : r \in Catalogo(ciudad)} \cup {"nada"}
          \/ pais \in DOMAIN ZonaDelPais /\ l.zona = ZonaDelPais[pais] /\ l.pais = pais
          \/ l.zona = "nada" /\ l.pais = "nada"
        BY LoResuelto
    <2>2. EsInstante(u.campos["desde"]) /\ EsInstante(u.campos["hasta"])
        BY <1>0, LosCampos DEF EsServicio
    <2>3. /\ EsInstante(desde) /\ desde.dia = u.campos["desde"].dia /\ desde.hora = u.campos["desde"].hora
          /\ desde.zona = u.campos["desde"].zona \/ (desde.zona = l.zona /\ l.zona # "nada")
        BY <2>2 DEF EsInstante
    <2>4. /\ EsInstante(hasta) /\ hasta.dia = u.campos["hasta"].dia /\ hasta.hora = u.campos["hasta"].hora
          /\ hasta.zona = u.campos["hasta"].zona \/ (hasta.zona = l.zona /\ l.zona # "nada")
        BY <2>2 DEF EsInstante
    <2> HIDE DEF l, desde, hasta, p
    <2>5. /\ c = [f \in CamposLeidos |-> c[f]] /\ c["pais"] = p /\ c["desde"] = desde /\ c["hasta"] = hasta
          /\ \A f \in Rotulos \ {"pais"} : c[f] = u.campos[f]
        BY <1>0, LosCampos DEF EsServicio
    <2>6. /\ k \in [CamposLeidos -> 0..100] /\ k["pais"] = IF gana THEN 90 ELSE u.confianzas["pais"]
          /\ \A f \in CamposLeidos \ {"pais"} : k[f] = u.confianzas[f]
        BY <1>0, LosCampos DEF EsServicio
    <2> HIDE DEF c, k
    <2>7. t.campos = c /\ t.confianzas = k /\ t.completadas = u.completadas
        BY <1>2
    <2>8. EsServicio(t)
        BY <1>0, <1>2, <2>3, <2>4, <2>5, <2>6, <2>7, LosCampos DEF EsServicio
    <2>9. Desciende(a, t)
        <3>1. \A f \in CamposLeidos \ {"pais"} : t.confianzas[f] <= a.confianzas[f]
            BY <1>0, <2>6, <2>7 DEF Desciende
        <3>2. \A f \in Rotulos \ {"localizador", "ciudad", "pais"} : t.campos[f] \in {a.campos[f], "nada"}
            BY <1>0, <2>5, <2>7 DEF Desciende
        <3>3. \A f \in Instantes : t.campos[f].dia = a.campos[f].dia /\ t.campos[f].hora \in {a.campos[f].hora, SinHora}
            BY <1>0, <2>3, <2>4, <2>5, <2>7, LosCampos DEF Desciende
        <3> QED
            BY <1>0, <2>7, <2>8, <3>1, <3>2, <3>3 DEF Desciende
    <2>10. FilasDelLugar(t) = FilasDelLugar(u) /\ Catalogo(ciudad) \subseteq FilasDelLugar(t)
        BY <2>5, <2>7, LosCampos DEF FilasDelLugar
    <2>11. ConLocalizador(a, t) /\ ConCiudad(b, t)
        BY <2>5, <2>6, <2>7, LosCampos DEF ConPaises, ConLocalizador, ConCiudad
    <2>12. ConPais(b, t)
        <3>1. CASE gana
            BY <2>1, <2>5, <2>7, <2>10, <3>1 DEF ConPais, p
        <3>2. CASE ~gana
            BY <2>5, <2>6, <2>7, <2>10, <3>2 DEF ConPaises, ConPais, p
        <3> QED
            BY <3>1, <3>2
    <2>13. ConZona(a, t)
        <3> SUFFICES ASSUME NEW f \in Instantes
                     PROVE  \/ t.campos[f].zona = a.campos[f].zona
                            \/ t.campos[f].zona \in {r.zona : r \in FilasDelLugar(t)}
                            \/ /\ t.campos["pais"] \in DOMAIN ZonaDelPais
                               /\ t.campos[f].zona = ZonaDelPais[t.campos["pais"]]
            BY DEF ConZona
        <3>1. t.campos[f].zona = u.campos[f].zona \/ (t.campos[f].zona = l.zona /\ l.zona # "nada")
            BY <2>3, <2>4, <2>5, <2>7, LosCampos
        <3>2. CASE t.campos[f].zona = u.campos[f].zona
            BY <2>10, <3>2 DEF ZonaDeFila
        <3>3. CASE t.campos[f].zona = l.zona /\ l.zona \in {r.zona : r \in Catalogo(ciudad)}
            BY <2>10, <3>3
        <3>4. CASE t.campos[f].zona = l.zona /\ pais \in DOMAIN ZonaDelPais /\ l.zona = ZonaDelPais[pais] /\ l.pais = pais
            BY <2>5, <2>7, <3>4 DEF p
        <3> QED
            BY <2>1, <3>1, <3>2, <3>3, <3>4
    <2>14. ConCatalogo(t, "lugar") /\ ConCatalogo(t, "destino")
        <3>1. \A g \in {"lugar", "destino"} : t.campos[g] = u.campos[g]
            BY <2>5, <2>7, LosCampos
        <3>2. \A f \in Instantes : t.confianzas[f] = u.confianzas[f]
            BY <2>6, <2>7, LosCampos
        <3>3. \A g \in {"lugar", "destino"} : PuntoDe(g) \in Instantes
            BY LosCampos DEF PuntoDe
        <3> QED
            BY <3>1, <3>2, <3>3, LosCampos DEF ConPaises, ConCatalogo, SinCatalogo, Falta
    <2> QED
        BY <2>9, <2>11, <2>12, <2>13, <2>14 DEF ConPaises
<1> QED
    BY <1>1, <1>2 DEF _normalize_place_timezones, CONFIANZA_CATALOGO

(* What is known of a service once its instants are made whole.            *)
ConInstantes(b, a, t) == ConPaises(b, a, t) /\ ConHora(t)

(* An instant made whole, or refused.                                      *)
Entero(v) == IF v.dia = 0 \/ v.zona \in ZonasValidas THEN _parse_datetime(v)
             ELSE [_parse_datetime(v) EXCEPT !.zona = ZonaPorDefecto]

(* And what it is worth.                                                   *)
Valor(v, c) == IF v.dia = 0 THEN Redondeo(c, 7) ELSE IF v.zona \in ZonasValidas THEN c ELSE Redondeo(c, 6)

(* A whole instant has its day, its hour and a zone, or it is in doubt.    *)
LEMMA AlMedir ==
    ASSUME NEW v, EsInstante(v), v.hora # SinHora, NEW c \in 0..100, NEW w, NEW k, w = Entero(v), k = Valor(v, c)
    PROVE  /\ EsInstante(w) /\ w.dia = v.dia /\ w.hora \in {v.hora, SinHora} /\ k \in 0..100 /\ k <= c
           /\ w.hora # SinHora => w.dia # 0 /\ w.zona \in ZonasValidas
           /\ w.zona # v.zona => k < 85
<1>1. CASE v.dia = 0
    <2>1. w = [dia |-> v.dia, hora |-> SinHora, zona |-> v.zona, iso |-> v.iso]
        BY <1>1 DEF Entero, _parse_datetime, EsInstante
    <2>2. EsInstante(w) /\ w.dia = v.dia /\ w.hora = SinHora /\ w.zona = v.zona
        BY <2>1 DEF EsInstante
    <2> QED
        BY <1>1, <2>2, LaRedondeada DEF Valor
<1>2. CASE v.dia # 0 /\ v.zona \in ZonasValidas
    <2>1. w = [dia |-> v.dia, hora |-> v.hora, zona |-> v.zona, iso |-> TRUE]
        BY <1>2 DEF Entero, _parse_datetime, EsInstante
    <2>2. EsInstante(w) /\ w.dia = v.dia /\ w.hora = v.hora /\ w.zona = v.zona
        BY <2>1 DEF EsInstante
    <2> QED
        BY <1>2, <2>2 DEF Valor
<1>3. CASE v.dia # 0 /\ v.zona \notin ZonasValidas
    <2>1. w = [dia |-> v.dia, hora |-> v.hora, zona |-> ZonaPorDefecto, iso |-> TRUE]
        <3> DEFINE p == _parse_datetime(v)
        <3>1. p = [dia |-> v.dia, hora |-> v.hora, zona |-> v.zona, iso |-> TRUE]
            BY <1>3 DEF _parse_datetime, EsInstante
        <3>2. w = [p EXCEPT !.zona = ZonaPorDefecto]
            BY <1>3 DEF Entero
        <3> HIDE DEF p
        <3> QED
            BY <3>1, <3>2
    <2>2. EsInstante(w) /\ w.dia = v.dia /\ w.hora = v.hora /\ w.zona = ZonaPorDefecto
        BY <2>1 DEF EsInstante
    <2>3. k \in 0..80 /\ k <= c
        BY <1>3, LaRedondeada DEF Valor
    <2> QED
        BY <1>3, <2>2, <2>3, ZonaAssumption
<1> QED
    BY <1>1, <1>2, <1>3

(* The instants are made whole.                                            *)
LEMMA LosInstantes ==
    ASSUME NEW b, NEW a, NEW u, ConPaises(b, a, u), NEW t, t = _normalize_instants(u)
    PROVE  ConInstantes(b, a, t)
<1> DEFINE v(f) == u.campos[f]
           w(f) == Entero(v(f))
           k(f) == Valor(v(f), u.confianzas[f])
           c == [f \in CamposLeidos |-> IF f \notin Instantes \/ Falta(u.campos, f) THEN v(f) ELSE w(f)]
           d == [f \in CamposLeidos |->
                    IF f \notin Instantes \/ Falta(u.campos, f) THEN u.confianzas[f] ELSE k(f)]
<1>0. Desciende(a, u) /\ EsServicio(u) /\ EsServicio(a)
    BY DEF ConPaises, Desciende
<1>1. t = [campos |-> c, confianzas |-> d, completadas |-> u.completadas]
    BY DEF _normalize_instants, Entero, Valor
<1>2. ASSUME NEW f \in Instantes, ~Falta(u.campos, f)
      PROVE  /\ EsInstante(w(f)) /\ w(f).dia = v(f).dia /\ w(f).hora \in {v(f).hora, SinHora}
             /\ k(f) \in 0..100 /\ k(f) <= u.confianzas[f]
             /\ w(f).hora # SinHora => w(f).dia # 0 /\ w(f).zona \in ZonasValidas
             /\ w(f).zona # v(f).zona => k(f) < 85
    <2>1. EsInstante(v(f)) /\ v(f).hora # SinHora /\ u.confianzas[f] \in 0..100
        BY <1>0, <1>2, LosCampos DEF EsServicio, Falta
    <2> HIDE DEF v
    <2> QED
        BY <2>1, AlMedir
<1>3. \A f \in Rotulos : c[f] = u.campos[f] /\ d[f] = u.confianzas[f]
    BY LosCampos
<1>4. ASSUME NEW f \in Instantes
      PROVE  /\ EsInstante(c[f]) /\ c[f].dia = v(f).dia /\ c[f].hora \in {v(f).hora, SinHora}
             /\ d[f] \in 0..100 /\ d[f] <= u.confianzas[f]
             /\ c[f].hora # SinHora => c[f].dia # 0 /\ c[f].zona \in ZonasValidas
             /\ c[f].zona # v(f).zona => d[f] < 85
    <2>1. CASE Falta(u.campos, f)
        <3>1. c[f] = v(f) /\ d[f] = u.confianzas[f] /\ v(f).hora = SinHora
            BY <2>1, LosCampos DEF Falta
        <3>2. EsInstante(v(f)) /\ u.confianzas[f] \in 0..100
            BY <1>0, LosCampos DEF EsServicio
        <3> HIDE DEF c, d, v
        <3> QED
            BY <3>1, <3>2
    <2>2. CASE ~Falta(u.campos, f)
        <3>1. c[f] = w(f) /\ d[f] = k(f)
            BY <2>2, LosCampos
        <3> HIDE DEF c, d, w, k
        <3> QED
            BY <1>2, <2>2, <3>1
    <2> QED
        BY <2>1, <2>2
<1>5. c = [f \in CamposLeidos |-> c[f]] /\ d = [f \in CamposLeidos |-> d[f]]
    OBVIOUS
<1> HIDE DEF c, d
<1>6. t.campos = c /\ t.confianzas = d /\ t.completadas = u.completadas
    BY <1>1
<1>7. d \in [CamposLeidos -> 0..100]
    BY <1>0, <1>3, <1>4, <1>5, LosCampos DEF EsServicio
<1>8. EsServicio(t)
    BY <1>0, <1>1, <1>4, <1>5, <1>6, <1>7 DEF EsServicio
<1>9. \A f \in CamposLeidos : d[f] <= u.confianzas[f] /\ (d[f] >= 85 => u.confianzas[f] >= 85)
    <2> TAKE f \in CamposLeidos
    <2>1. d[f] \in Int /\ u.confianzas[f] \in Int
        BY <1>0, <1>7 DEF EsServicio
    <2>2. d[f] <= u.confianzas[f]
        BY <1>3, <1>4, <2>1, LosCampos
    <2> QED
        BY <2>1, <2>2
<1>10. Desciende(a, t)
    <2>1. ASSUME NEW f \in CamposLeidos \ {"pais"}  PROVE t.confianzas[f] <= a.confianzas[f]
        <3>1. d[f] \in Int /\ u.confianzas[f] \in Int /\ a.confianzas[f] \in Int
              /\ u.confianzas[f] <= a.confianzas[f]
            BY <1>0, <1>7 DEF EsServicio, Desciende
        <3> QED
            BY <1>6, <1>9, <3>1
    <2>2. \A f \in Rotulos \ {"localizador", "ciudad", "pais"} : t.campos[f] \in {a.campos[f], "nada"}
        BY <1>0, <1>3, <1>6 DEF Desciende
    <2>3. \A f \in Instantes : t.campos[f].dia = a.campos[f].dia /\ t.campos[f].hora \in {a.campos[f].hora, SinHora}
        BY <1>0, <1>4, <1>6 DEF Desciende
    <2> QED
        BY <1>0, <1>6, <1>8, <2>1, <2>2, <2>3 DEF Desciende
<1>11. FilasDelLugar(t) = FilasDelLugar(u)
    BY <1>3, <1>6, LosCampos DEF FilasDelLugar
<1>12. ConLocalizador(a, t) /\ ConCiudad(b, t) /\ ConPais(b, t)
    BY <1>3, <1>6, <1>11, LosCampos DEF ConPaises, ConLocalizador, ConCiudad, ConPais
<1>13. ConZona(a, t)
    <2> SUFFICES ASSUME NEW f \in Instantes, c[f].hora # SinHora, d[f] >= 85
                 PROVE  \/ c[f].zona = a.campos[f].zona
                        \/ c[f].zona \in {r.zona : r \in FilasDelLugar(u)}
                        \/ /\ u.campos["pais"] \in DOMAIN ZonaDelPais
                           /\ c[f].zona = ZonaDelPais[u.campos["pais"]]
        BY <1>3, <1>6, <1>11, LosCampos DEF ConZona
    <2> HIDE DEF w, k
    <2>1. d[f] \in Int /\ f \in CamposLeidos
        BY <1>7, LosCampos
    <2>2. c[f].zona = u.campos[f].zona /\ u.campos[f].hora # SinHora /\ u.confianzas[f] >= 85
        BY <1>4, <1>9, <2>1
    <2> QED
        BY <2>2 DEF ConPaises, ConZona
<1>14. ConCatalogo(t, "lugar") /\ ConCatalogo(t, "destino")
    <2> SUFFICES ASSUME NEW g \in {"lugar", "destino"}  PROVE ConCatalogo(t, g)
        OBVIOUS
    <2>1. t.campos[g] = u.campos[g] /\ (Falta(t.campos, g) <=> Falta(u.campos, g))
        BY <1>3, <1>6, LosCampos DEF Falta
    <2>2. PuntoDe(g) \in CamposLeidos
        BY LosCampos DEF PuntoDe
    <2>3. t.confianzas[PuntoDe(g)] \in Int /\ u.confianzas[PuntoDe(g)] \in Int
          /\ t.confianzas[PuntoDe(g)] <= u.confianzas[PuntoDe(g)]
        BY <1>0, <1>6, <1>7, <1>9, <2>2 DEF EsServicio
    <2>4. ConCatalogo(u, g)
        BY DEF ConPaises
    <2> QED
        BY <2>1, <2>3, <2>4 DEF ConCatalogo, SinCatalogo
<1>15. ConHora(t)
    BY <1>4, <1>6 DEF ConHora
<1> QED
    BY <1>10, <1>12, <1>13, <1>14, <1>15 DEF ConInstantes, ConPaises

(* What is known of a normalised service.                                  *)
Normal(b, a, t) == ConInstantes(b, a, t) /\ ConOrden(t)

(* Two instants the wrong way round are in doubt.                          *)
LEMMA ElOrden ==
    ASSUME NEW b, NEW a, NEW u, ConInstantes(b, a, u), NEW t, t = _comprobar_orden(u)
    PROVE  Normal(b, a, t)
<1>0. Desciende(a, u) /\ EsServicio(u) /\ EsServicio(a)
    BY DEF ConInstantes, ConPaises, Desciende
<1>1. CASE ~AlReves(u.campos)
    <2>1. t = u
        BY <1>1 DEF _comprobar_orden
    <2> QED
        BY <1>1, <2>1 DEF Normal, ConOrden
<1>2. CASE AlReves(u.campos)
    <2> DEFINE d == [f \in CamposLeidos |->
                        IF f \in Instantes THEN Minimo(u.confianzas[f], 70) ELSE u.confianzas[f]]
    <2>1. t = [campos |-> u.campos, confianzas |-> d, completadas |-> u.completadas]
        BY <1>0, <1>2 DEF _comprobar_orden, EsServicio
    <2>2. \A f \in CamposLeidos : /\ d[f] \in 0..100 /\ d[f] <= u.confianzas[f]
                                  /\ d[f] >= 85 => u.confianzas[f] >= 85
                                  /\ f \in Instantes => d[f] < 85
        BY <1>0 DEF EsServicio, Minimo
    <2>3. d = [f \in CamposLeidos |-> d[f]]
        OBVIOUS
    <2>4. \A f \in Rotulos : d[f] = u.confianzas[f]
        BY LosCampos
    <2> HIDE DEF d
    <2>5. t.campos = u.campos /\ t.confianzas = d /\ t.completadas = u.completadas
        BY <2>1
    <2>6. EsServicio(t)
        BY <1>0, <2>1, <2>2, <2>3, <2>5 DEF EsServicio
    <2>7. Desciende(a, t)
        <3>1. ASSUME NEW f \in CamposLeidos \ {"pais"}  PROVE t.confianzas[f] <= a.confianzas[f]
            <4>1. d[f] \in Int /\ u.confianzas[f] \in Int /\ a.confianzas[f] \in Int
                  /\ u.confianzas[f] <= a.confianzas[f]
                BY <1>0, <2>2 DEF EsServicio, Desciende
            <4> QED
                BY <2>2, <2>5, <4>1
        <3> QED
            BY <1>0, <2>5, <2>6, <3>1 DEF Desciende
    <2>8. FilasDelLugar(t) = FilasDelLugar(u)
        BY <2>5 DEF FilasDelLugar
    <2>9. \A f \in Instantes : t.confianzas[f] < 85
        BY <2>2, <2>5, LosCampos
    <2>10. ConLocalizador(a, t) /\ ConCiudad(b, t) /\ ConPais(b, t)
        BY <2>4, <2>5, <2>8, LosCampos DEF ConInstantes, ConPaises, ConLocalizador, ConCiudad, ConPais
    <2>11. ConZona(a, t) /\ ConOrden(t)
        <3>1. \A f \in Instantes : t.confianzas[f] \in Int
            BY <2>6, LosCampos DEF EsServicio
        <3> QED
            BY <2>9, <3>1 DEF ConZona, ConOrden
    <2>12. ConCatalogo(t, "lugar") /\ ConCatalogo(t, "destino")
        <3>1. PuntoDe("lugar") \in Instantes /\ PuntoDe("destino") \in Instantes
            BY LosCampos DEF PuntoDe
        <3> QED
            BY <2>9, <3>1 DEF ConCatalogo
    <2>13. ConHora(t)
        BY <2>5 DEF ConInstantes, ConHora
    <2> QED
        BY <2>7, <2>10, <2>11, <2>12, <2>13 DEF Normal, ConInstantes, ConPaises
<1> QED
    BY <1>1, <1>2

(* A city of figures alone is dropped; the catalogue knew none.            *)
LEMMA LaCiudad ==
    ASSUME NEW b, NEW a, NEW u, Normal(b, a, u), NEW t, t = _descartar_ciudades_numericas(u)
    PROVE  Normal(b, a, t)
<1> DEFINE v == u.campos["ciudad"]
           p == IF v \in Postales THEN "nada" ELSE v
<1>0. Desciende(a, u) /\ EsServicio(u)
    BY DEF Normal, ConInstantes, ConPaises, Desciende
<1>1. t = ConRotulo(u, "ciudad", p)
    BY DEF _descartar_ciudades_numericas, ConRotulo
<1>2. Catalogo(p) = Catalogo(v) /\ (p # "nada" => p = v)
    BY NadaNoEsLugar
<1> HIDE DEF p
<1>3. /\ Desciende(a, t) /\ t.confianzas = u.confianzas /\ t.campos["ciudad"] = p
      /\ \A f \in CamposLeidos \ {"ciudad"} : t.campos[f] = u.campos[f]
    BY <1>0, <1>1, OtroRotulo
<1>4. FilasDelLugar(t) = FilasDelLugar(u)
    <2>1. \A f \in {"lugar", "destino", "ciudad"} : Catalogo(t.campos[f]) = Catalogo(u.campos[f])
        BY <1>2, <1>3, LosCampos
    <2> QED
        BY <2>1 DEF FilasDelLugar
<1>5. ConLocalizador(a, t) /\ ConPais(b, t)
    BY <1>3, <1>4, LosCampos DEF Normal, ConInstantes, ConPaises, ConLocalizador, ConPais
<1>6. ConCiudad(b, t)
    BY <1>2, <1>3, LosCampos DEF Normal, ConInstantes, ConPaises, ConCiudad
<1>7. ConZona(a, t) /\ ConHora(t)
    BY <1>3, <1>4, LosCampos DEF Normal, ConInstantes, ConPaises, ConZona, ConHora
<1>8. ConCatalogo(t, "lugar") /\ ConCatalogo(t, "destino")
    <2>1. /\ ConCatalogo(u, "lugar") /\ ConCatalogo(u, "destino")
          /\ t.campos["lugar"] = u.campos["lugar"] /\ t.campos["destino"] = u.campos["destino"]
        BY <1>3, LosCampos DEF Normal, ConInstantes, ConPaises
    <2> QED
        BY <1>3, <2>1, MismoCatalogo
<1>9. ConOrden(t)
    <2>1. t.campos["desde"] = u.campos["desde"] /\ t.campos["hasta"] = u.campos["hasta"]
        BY <1>3, LosCampos
    <2>2. AlReves(t.campos) <=> AlReves(u.campos)
        BY <2>1, LosCampos DEF AlReves, Falta
    <2> QED
        BY <1>3, <2>2 DEF Normal, ConOrden
<1> QED
    BY <1>3, <1>5, <1>6, <1>7, <1>8, <1>9 DEF Normal, ConInstantes, ConPaises

(* Normalising a service the pages back gives one that is as backed.       *)
LEMMA AlNormalizar ==
    ASSUME NEW b, NEW a, Leido(b, a), NEW c, NEW t \in normalize(a, c)
    PROVE  Normal(b, a, t)
<1> DEFINE n == _sin_nulos_escritos(a)
           l == _normalize_locators(n)
           fin(u) == _descartar_ciudades_numericas(_comprobar_orden(_normalize_instants(
                        IF c # "trayecto" THEN _normalize_place_timezones(_normalize_countries(u))
                        ELSE _normalize_countries(u))))
<1>0. PICK x \in _normalize_locations(l, "lugar") : \E u \in _normalize_locations(x, "destino") : t = fin(u)
    BY DEF normalize
<1>1. PICK u \in _normalize_locations(x, "destino") : t = fin(u)
    BY <1>0
<1>2. /\ Desciende(a, n) /\ ConCiudad(b, n) /\ PaisEscrito(b, n)
      /\ n.campos["localizador"] \in {a.campos["localizador"], "nada"}
      /\ \A f \in Instantes : n.campos[f].zona = a.campos[f].zona
    BY SinNulos
<1> HIDE DEF n
<1>3. /\ Desciende(a, l) /\ ConLocalizador(a, l) /\ ConCiudad(b, l) /\ PaisEscrito(b, l)
      /\ \A f \in Instantes : l.campos[f].zona = a.campos[f].zona
    BY <1>2, ElLocalizador
<1> HIDE DEF l
<1>4. ConLugares(b, a, x)
    BY <1>0, <1>3, ElLugar
<1>5. ConLugares(b, a, u) /\ ConCatalogo(u, "destino")
    BY <1>1, <1>4, ElDestino
<1> DEFINE p == _normalize_countries(u)
           z == IF c # "trayecto" THEN _normalize_place_timezones(p) ELSE p
<1>6. ConPaises(b, a, p) /\ ZonaDeFila(a, p)
    BY <1>5, ElPais
<1>7. t = _descartar_ciudades_numericas(_comprobar_orden(_normalize_instants(z)))
    BY <1>1
<1> HIDE DEF p
<1>8. ConPaises(b, a, z)
    BY <1>6, LaZona
<1> HIDE DEF z
<1>9. ConInstantes(b, a, _normalize_instants(z))
    BY <1>8, LosInstantes
<1>10. Normal(b, a, _comprobar_orden(_normalize_instants(z)))
    BY <1>9, ElOrden
<1> QED
    BY <1>7, <1>10, LaCiudad

-----------------------------------------------------------------------------
(* Two classes with the same points are never settled by the rules.        *)
LEMMA ElEmpate == EmpateNoBasta
<1> SUFFICES ASSUME NEW n \in 1..MaxPuntos  PROVE ConfianzaDeReglas(n, n) < MinConfianza
    BY DEF EmpateNoBasta, needs_ai_classification
<1> DEFINE m == Minimo(n, 12)
           total == n + n
           veces == 840 * total + 65 * m * total + 780 * (n - n)
           q == (2 * veces + 24 * total) \div (48 * total)
<1>1. n \in Nat /\ n > 0 /\ m \in 1..12
    BY PuntosAssumption DEF Minimo
<1>2. ConfianzaDeReglas(n, n) = Minimo(q, 99)
    BY <1>1 DEF ConfianzaDeReglas
<1>3. 2 * veces + 24 * total = n * (3408 + 260 * m) /\ 48 * total = n * 96
    BY <1>1
<1>4. q < 70
    <2> DEFINE x == n * (3408 + 260 * m)
               d == n * 96
    <2>1. x \in Nat /\ d \in Nat /\ d > 0 /\ x < 70 * d
        BY <1>1
    <2>2. q = x \div d
        BY <1>3
    <2> HIDE DEF x, d, q
    <2> QED
        BY <2>1, <2>2
<1>5. q \in Int
    BY <1>1
<1> HIDE DEF q
<1> QED
    BY <1>2, <1>4, <1>5 DEF Minimo, MinConfianza

(* What is known of the services at each stage: they are backed by the     *)
(* pages as they were read, and as they come out of the normalisation.     *)
EnPie(b, s) == IF fase = "extraido" THEN Leido(b, s) ELSE \E a : Leido(b, a) /\ Normal(b, a, s)

InvFiabilidad ==
    /\ fase \in {"subido", "clasificado", "extraido", "normalizado", "decidido", "error"}
    /\ clase \in Clases
    /\ texto \in Textos \cup {<<>>}
    /\ sola \in BOOLEAN /\ (sola => fase = "decidido" /\ servicios # <<>>)
    /\ fase \in {"subido", "clasificado", "error"} => servicios = <<>>
    /\ \A i \in DOMAIN servicios : EnPie(_document_blocks(texto), servicios[i])

(* A service as read has what its confidences say.                         *)
LEMMA RespaldoDeLoLeido ==
    ASSUME NEW s, fase = "extraido", Leido(_document_blocks(texto), s),
           NEW f \in Puestos(s), s.confianzas[f] >= UmbralRevision
    PROVE  Respaldado(s, f)
<1>1. f \in CamposLeidos /\ ~Falta(s.campos, f)
    BY DEF Puestos
<1>2. CASE f \in Instantes
    BY <1>2 DEF Leido, Respaldado
<1>3. CASE f = "localizador"
    BY <1>1, <1>3, LosCampos DEF Leido, Respaldado, Falta
<1>4. CASE f \in Rotulos \ {"localizador"}
    BY <1>4, LosCampos DEF Leido, Respaldado
<1> QED
    BY <1>1, <1>2, <1>3, <1>4, LosCampos

(* A locator as it is stored is a word of the document without hyphens.    *)
LEMMA LaDelPapel ==
    ASSUME NEW b, NEW a, NEW s, Leido(b, a), ConLocalizador(a, s), s.campos["localizador"] # "nada"
    PROVE  DelPapel(b, s.campos["localizador"])
<1> DEFINE w == compacto(a.campos["localizador"])
           x == <<"palabra", w>>
<1>1. x \in Impreso(b)
    BY DEF Leido, ConLocalizador, Escrito
<1>2. s.campos["localizador"] = SinGuion(w)
    BY DEF ConLocalizador, cleaned
<1>3. x[1] = "palabra" /\ x[2] = w
    OBVIOUS
<1> QED
    BY <1>1, <1>2, <1>3 DEF DelPapel

(* And so has a normalised one.                                            *)
LEMMA RespaldoDeLoNormal ==
    ASSUME NEW s, NEW a, fase # "extraido", Leido(_document_blocks(texto), a),
           Normal(_document_blocks(texto), a, s),
           NEW f \in Puestos(s), s.confianzas[f] >= UmbralRevision
    PROVE  Respaldado(s, f)
<1> DEFINE b == _document_blocks(texto)
<1>0. /\ Desciende(a, s) /\ ConLocalizador(a, s) /\ ConCiudad(b, s) /\ ConPais(b, s) /\ ConHora(s)
      /\ ConOrden(s) /\ ConCatalogo(s, "lugar") /\ ConCatalogo(s, "destino")
    BY DEF Normal, ConInstantes, ConPaises
<1>1. f \in CamposLeidos /\ ~Falta(s.campos, f) /\ UmbralRevision = 85
    BY DEF Puestos, UmbralRevision
<1>2. s.confianzas[f] \in Int /\ a.confianzas[f] \in Int
    BY <1>0, <1>1 DEF Desciende, EsServicio
<1>3. f # "pais" => a.confianzas[f] >= UmbralRevision
    BY <1>0, <1>1, <1>2 DEF Desciende
<1> HIDE DEF b
<1>4. CASE f \in Instantes
    <2> DEFINE v == s.campos[f]
               g == IF f = "desde" THEN "lugar" ELSE "destino"
    <2>1. v.hora # SinHora /\ v.hora = a.campos[f].hora /\ v.dia = a.campos[f].dia /\ f \notin a.completadas
        BY <1>0, <1>1, <1>3, <1>4, LosCampos DEF Desciende, Falta, Leido
    <2>2. Figuran(b, v) /\ f \notin s.completadas
        <3>1. Figuran(b, a.campos[f]) /\ f \notin a.completadas /\ s.completadas = a.completadas
            BY <1>0, <1>3, <1>4, LosCampos DEF Leido, Desciende, b
        <3> QED
            BY <2>1, <3>1 DEF Figuran
    <2>3. v.zona \in ZonasValidas
        BY <1>0, <1>4, <2>1 DEF ConHora
    <2>4. ~AlReves(s.campos)
        BY <1>0, <1>1, <1>2, <1>4 DEF ConOrden
    <2>5. ~SinCatalogo(s, g)
        <3>1. PuntoDe(g) = f /\ ConCatalogo(s, g)
            BY <1>0, <1>4, LosCampos DEF PuntoDe
        <3> QED
            BY <1>1, <1>2, <3>1 DEF ConCatalogo
    <2> QED
        BY <1>4, <2>2, <2>3, <2>4, <2>5 DEF Respaldado, b
<1>5. CASE f = "localizador"
    <2>1. s.campos["localizador"] # "nada"
        BY <1>1, <1>5, LosCampos DEF Falta
    <2>2. DelPapel(b, s.campos["localizador"])
        BY <1>0, <2>1, LaDelPapel DEF Leido, b
    <2>3. s.campos["localizador"] \in Regulares
        BY <1>0, <1>1, <1>5, <2>1 DEF ConLocalizador
    <2> QED
        BY <1>5, <2>2, <2>3, LosCampos DEF Respaldado, b
<1>6. CASE f = "ciudad"
    <2>1. s.campos["ciudad"] # "nada"
        BY <1>1, <1>6, LosCampos DEF Falta
    <2>2. _find_literal(b, s.campos["ciudad"]) \/ s.campos["ciudad"] \in {r.ciudad : r \in Catalogo(s.campos["lugar"])}
        BY <1>0, <1>1, <1>6, <2>1 DEF ConCiudad
    <2> QED
        BY <1>6, <2>2, LosCampos DEF Respaldado, b
<1>7. CASE f = "pais"
    <2>1. s.campos["pais"] # "nada"
        BY <1>1, <1>7, LosCampos DEF Falta
    <2>2. \/ _find_literal(b, s.campos["pais"])
          \/ s.campos["pais"] \in {r.pais : r \in FilasDelLugar(s)}
          \/ \E n \in DOMAIN CodigoDelPais : s.campos["pais"] = CodigoDelPais[n] /\ _find_literal(b, n)
        BY <1>0, <1>1, <1>7, <2>1 DEF ConPais
    <2> QED
        BY <1>7, <2>2, LosCampos DEF Respaldado, b
<1>8. CASE f \in Rotulos \ {"localizador", "ciudad", "pais"}
    <2>1. s.campos[f] # "nada" /\ s.campos[f] = a.campos[f]
        BY <1>0, <1>1, <1>8, LosCampos DEF Desciende, Falta
    <2>2. _find_literal(b, s.campos[f])
        BY <1>3, <1>8, <2>1, LosCampos DEF Leido, b
    <2> QED
        BY <1>8, <2>2, LosCampos DEF Respaldado, b
<1> QED
    BY <1>1, <1>4, <1>5, <1>6, <1>7, <1>8, LosCampos

(* Every service is one of the two.                                        *)
LEMMA TodoRespaldado ==
    ASSUME InvFiabilidad, NEW s \in Range(servicios)
    PROVE  /\ \A f \in Puestos(s) : s.confianzas[f] >= UmbralRevision => Respaldado(s, f)
           /\ s.confianzas \in [CamposLeidos -> 0..100]
           /\ ~Falta(s.campos, "localizador") =>
                 IF fase = "extraido" THEN Escrito(_document_blocks(texto), s.campos["localizador"])
                 ELSE DelPapel(_document_blocks(texto), s.campos["localizador"])
           /\ ~Falta(s.campos, "importe") => _importe_escrito(_document_blocks(texto), s.campos["importe"])
           /\ \A f \in Instantes \cap Puestos(s) :
                 /\ fase # "extraido" => s.campos[f].dia # 0
                 /\ fase = "extraido" /\ AnioInventado(_document_blocks(texto), s.campos[f])
                    => s.confianzas[f] = 0
<1> DEFINE b == _document_blocks(texto)
<1>1. PICK i \in DOMAIN servicios : s = servicios[i]
    BY DEF Range
<1>2. EnPie(b, s)
    BY <1>1 DEF InvFiabilidad
<1> HIDE DEF b
<1>3. CASE fase = "extraido"
    <2>1. Leido(b, s)
        BY <1>2, <1>3 DEF EnPie
    <2>2. \A f \in Puestos(s) : s.confianzas[f] >= UmbralRevision => Respaldado(s, f)
        BY <1>3, <2>1, RespaldoDeLoLeido DEF b
    <2>3. s.confianzas \in [CamposLeidos -> 0..100]
        BY <2>1 DEF Leido, EsServicio
    <2>4. /\ ~Falta(s.campos, "localizador") => Escrito(b, s.campos["localizador"])
          /\ ~Falta(s.campos, "importe") => _importe_escrito(b, s.campos["importe"])
        BY <2>1, LosCampos DEF Leido, Falta
    <2>5. \A f \in Instantes : AnioInventado(b, s.campos[f]) => s.confianzas[f] = 0
        BY <2>1 DEF Leido
    <2> QED
        BY <1>3, <2>2, <2>3, <2>4, <2>5 DEF b
<1>4. CASE fase # "extraido"
    <2>1. PICK a : Leido(b, a) /\ Normal(b, a, s)
        BY <1>2, <1>4 DEF EnPie
    <2>2. \A f \in Puestos(s) : s.confianzas[f] >= UmbralRevision => Respaldado(s, f)
        BY <1>4, <2>1, RespaldoDeLoNormal DEF b
    <2>3. Desciende(a, s) /\ ConHora(s)
        BY <2>1 DEF Normal, ConInstantes, ConPaises
    <2>4. s.confianzas \in [CamposLeidos -> 0..100]
        BY <2>3 DEF Desciende, EsServicio
    <2>5. ~Falta(s.campos, "importe") => s.campos["importe"] = a.campos["importe"] /\ a.campos["importe"] # "nada"
        BY <2>3, LosCampos DEF Desciende, Falta
    <2>6. /\ ~Falta(s.campos, "localizador") => DelPapel(b, s.campos["localizador"])
          /\ ~Falta(s.campos, "importe") => _importe_escrito(b, s.campos["importe"])
        <3>1. ~Falta(s.campos, "localizador") => s.campos["localizador"] # "nada"
            BY LosCampos DEF Falta
        <3>2. ConLocalizador(a, s)
            BY <2>1 DEF Normal, ConInstantes, ConPaises
        <3> QED
            BY <2>1, <2>5, <3>1, <3>2, LaDelPapel DEF Leido
    <2>7. \A f \in Instantes \cap Puestos(s) : s.campos[f].dia # 0
        BY <2>3 DEF ConHora, Puestos, Falta
    <2> QED
        BY <1>4, <2>2, <2>4, <2>6, <2>7 DEF b
<1> QED
    BY <1>3, <1>4

(* What the property says of each state follows.                           *)
LEMMA DelInvariante == InvFiabilidad => SeguroLoRespaldado /\ SolaConRespaldo /\ EmpateNoBasta
<1> SUFFICES ASSUME InvFiabilidad  PROVE SeguroLoRespaldado /\ SolaConRespaldo
    BY ElEmpate
<1>1. SeguroLoRespaldado
    BY TodoRespaldado DEF SeguroLoRespaldado
<1>2. SolaConRespaldo
    <2> DEFINE todas == UNION {{s.confianzas[f] : f \in Puestos(s)} : s \in Range(servicios)}
    <2> SUFFICES ASSUME sola, confianza_minima(servicios) >= UmbralRevision,
                        NEW s \in Range(servicios), NEW f \in Puestos(s)
                 PROVE  Respaldado(s, f)
        BY DEF InvFiabilidad, SolaConRespaldo
    <2>1. ASSUME NEW x \in todas  PROVE x \in Nat
        <3>1. PICK u \in Range(servicios) : x \in {u.confianzas[g] : g \in Puestos(u)}
            OBVIOUS
        <3>2. PICK g \in Puestos(u) : x = u.confianzas[g]
            BY <3>1
        <3>3. u.confianzas \in [CamposLeidos -> 0..100] /\ g \in CamposLeidos
            BY TodoRespaldado DEF Puestos
        <3> QED
            BY <3>2, <3>3
    <2>2. s.confianzas[f] \in todas
        OBVIOUS
    <2>3. confianza_minima(servicios) = Min(todas)
        BY <2>2 DEF confianza_minima
    <2> HIDE DEF todas
    <2>4. PICK m \in todas : \A k \in todas : m <= k
        BY <2>1, <2>2, HayMenor
    <2>5. Min(todas) \in todas /\ \A k \in todas : Min(todas) <= k
        BY <2>4 DEF Min
    <2>6. s.confianzas[f] >= UmbralRevision
        <3>1. Min(todas) \in Nat /\ s.confianzas[f] \in Nat /\ Min(todas) <= s.confianzas[f]
            BY <2>1, <2>2, <2>5
        <3>2. Min(todas) >= UmbralRevision
            BY <2>3
        <3> QED
            BY <3>1, <3>2 DEF UmbralRevision
    <2> QED
        BY <2>6, TodoRespaldado
<1> QED
    BY <1>1, <1>2

(* What the model is asked for is read one service at a time.              *)
LEMMA LasLecturas ==
    ASSUME NEW c \in Clases, NEW leida \in Lecturas[c], NEW forma,
           NEW i \in DOMAIN _coerce_envelope(forma, leida)
    PROVE  EsLeido(_coerce_envelope(forma, leida)[i])
<1>1. leida \in Seq(ToSet(leida)) /\ leida # <<>> /\ \A j \in DOMAIN leida : EsLeido(leida[j])
    BY LecturasAssumption
<1>2. Len(leida) \in Nat /\ DOMAIN leida = 1..Len(leida) /\ 1 \in DOMAIN leida
    BY <1>1
<1>3. CASE forma = "servicios"
    BY <1>1, <1>3 DEF _coerce_envelope
<1>4. CASE forma = "campos"
    <2>1. _coerce_envelope(forma, leida) = SubSeq(leida, 1, 1)
        BY <1>4 DEF _coerce_envelope
    <2> DEFINE n == SubSeq(leida, 1, 1)
    <2>2. /\ n \in Seq(ToSet(leida)) /\ Len(n) = 1 /\ \A j \in 1..1 : n[j] = leida[1 + j - 1]
        BY <1>1, <1>2, SubSeqProperties
    <2> HIDE DEF n
    <2>3. DOMAIN n = 1..1 /\ n[1] = leida[1]
        BY <2>2
    <2> QED
        BY <1>1, <1>2, <2>1, <2>3 DEF n
<1>5. CASE forma = "sueltos"
    <2> DEFINE l == leida[1]
               m == [l EXCEPT !.dice = SinDecir]
    <2>1. EsLeido(l)
        BY <1>1, <1>2
    <2>2. _coerce_envelope(forma, leida) = <<m>>
        BY <1>5 DEF _coerce_envelope
    <2> HIDE DEF l
    <2>3. m = [campos |-> l.campos, dice |-> SinDecir]
        BY <2>1 DEF EsLeido
    <2> HIDE DEF m
    <2>4. m.campos = l.campos /\ m.dice = SinDecir
        BY <2>3
    <2>5. EsLeido(m)
        BY <2>1, <2>3, <2>4 DEF EsLeido
    <2> QED
        BY <2>2, <2>5
<1>6. CASE forma \notin {"servicios", "campos", "sueltos"}
    <2>1. _coerce_envelope(forma, leida) = <<>>
        BY <1>6 DEF _coerce_envelope
    <2> QED
        BY <2>1
<1> QED
    BY <1>3, <1>4, <1>5, <1>6

(* Every step keeps the services backed, and normalising takes trust away. *)
LEMMA PasoFiabilidad ==
    /\ InitFiabilidad => InvFiabilidad
    /\ InvFiabilidad /\ [NextFiabilidad]_varsFiabilidad => InvFiabilidad'
<1>1. InitFiabilidad => InvFiabilidad
    <2> SUFFICES ASSUME InitFiabilidad  PROVE InvFiabilidad
        OBVIOUS
    <2>1. servicios = <<>> /\ DOMAIN servicios = {}
        BY DEF InitFiabilidad
    <2> QED
        BY <2>1 DEF InitFiabilidad, InvFiabilidad, Clases
<1>2. ASSUME InvFiabilidad, [NextFiabilidad]_varsFiabilidad  PROVE InvFiabilidad'
    <2>1. CASE Clasificar
        BY <1>2, <2>1 DEF Clasificar, InvFiabilidad, Clases, EnPie
    <2>2. CASE Extraer
        <3>1. PICK t \in Textos, forma \in {"servicios", "campos", "sueltos", "ninguno"},
                   leida \in Lecturas[clase] :
                 /\ texto' = t
                 /\ servicios' = [i \in DOMAIN _coerce_envelope(forma, leida) |->
                       _ground_in_document(_document_blocks(t), _coerce_envelope(forma, leida)[i])]
            BY <2>2 DEF Extraer
        <3> DEFINE leidos == _coerce_envelope(forma, leida)
        <3>2. clase \in Clases /\ fase' = "extraido" /\ clase' = clase /\ sola' = sola /\ ~sola
            BY <1>2, <2>2 DEF Extraer, InvFiabilidad
        <3>3. ASSUME NEW i \in DOMAIN servicios'  PROVE EnPie(_document_blocks(texto), servicios[i])'
            <4>1. i \in DOMAIN leidos /\ servicios'[i] = _ground_in_document(_document_blocks(t), leidos[i])
                BY <3>1
            <4>2. EsLeido(leidos[i])
                BY <3>2, <4>1, LasLecturas
            <4> HIDE DEF leidos
            <4>3. Leido(_document_blocks(t), servicios'[i])
                BY <4>1, <4>2, AlFundar
            <4> QED
                BY <3>1, <3>2, <4>3 DEF EnPie
        <3>4. texto' \in Textos
            BY <3>1
        <3> QED
            BY <1>2, <3>2, <3>3, <3>4 DEF InvFiabilidad
    <2>3. CASE NoSeEntiende
        BY <1>2, <2>3 DEF NoSeEntiende, InvFiabilidad, EnPie
    <2>4. CASE Normalizar
        <3>1. /\ fase = "extraido" /\ fase' = "normalizado" /\ clase' = clase /\ texto' = texto /\ sola' = sola
              /\ DOMAIN servicios' = DOMAIN servicios
              /\ \A i \in DOMAIN servicios : servicios'[i] \in normalize(servicios[i], clase)
            BY <2>4 DEF Normalizar
        <3>2. ASSUME NEW i \in DOMAIN servicios'  PROVE EnPie(_document_blocks(texto), servicios[i])'
            <4>1. Leido(_document_blocks(texto), servicios[i])
                BY <1>2, <3>1 DEF InvFiabilidad, EnPie
            <4>2. Normal(_document_blocks(texto), servicios[i], servicios'[i])
                BY <3>1, <4>1, AlNormalizar
            <4> QED
                BY <3>1, <4>1, <4>2 DEF EnPie
        <3> QED
            BY <1>2, <3>1, <3>2 DEF InvFiabilidad
    <2>5. CASE Decidir
        <3>1. /\ fase = "normalizado" /\ fase' = "decidido" /\ clase' = clase /\ texto' = texto
              /\ servicios' = servicios /\ sola' \in BOOLEAN /\ (sola' => servicios # <<>>)
            BY <2>5 DEF Decidir
        <3>2. ASSUME NEW i \in DOMAIN servicios'  PROVE EnPie(_document_blocks(texto), servicios[i])'
            BY <1>2, <3>1 DEF InvFiabilidad, EnPie
        <3> QED
            BY <1>2, <3>1, <3>2 DEF InvFiabilidad
    <2>6. CASE TerminaLectura \/ UNCHANGED varsFiabilidad
        BY <1>2, <2>6 DEF TerminaLectura, varsFiabilidad, InvFiabilidad, EnPie
    <2> QED
        BY <1>2, <2>1, <2>2, <2>3, <2>4, <2>5, <2>6 DEF NextFiabilidad
<1> QED
    BY <1>1, <1>2

(* Normalising what the pages back only takes trust away.                  *)
LEMMA SoloSeBaja ==
    ASSUME InvFiabilidad, [NextFiabilidad]_varsFiabilidad, ~UNCHANGED varsFiabilidad, fase = "extraido"
    PROVE  \A i \in DOMAIN servicios : SoloBaja(servicios[i], servicios'[i])
<1>1. Normalizar
    BY DEF NextFiabilidad, Clasificar, Extraer, NoSeEntiende, Decidir, TerminaLectura
<1> TAKE i \in DOMAIN servicios
<1>2. servicios'[i] \in normalize(servicios[i], clase)
    BY <1>1 DEF Normalizar
<1>3. Leido(_document_blocks(texto), servicios[i])
    BY DEF InvFiabilidad, EnPie
<1> DEFINE a == servicios[i]
           s == servicios'[i]
<1>4. Normal(_document_blocks(texto), a, s)
    BY <1>2, <1>3, AlNormalizar
<1>5. Desciende(a, s) /\ ConZona(a, s)
    BY <1>4 DEF Normal, ConInstantes, ConPaises
<1> HIDE DEF a, s
<1>6. SoloBaja(a, s)
    BY <1>5 DEF SoloBaja, Desciende, ConZona, Puestos, Falta, UmbralRevision
<1> QED
    BY <1>6 DEF a, s

(* No value of a reading is trusted beyond its evidence, before or after   *)
(* it is normalised (ai_service._ground_in_document, normalization_        *)
(* service.normalize), whatever the pages, the answers of the model and    *)
(* the catalogue.                                                          *)
THEOREM LecturasConRespaldo == SpecFiabilidad => LecturaRespaldada
<1>1. InvFiabilidad /\ [NextFiabilidad]_varsFiabilidad /\ ~UNCHANGED varsFiabilidad /\ fase = "extraido"
      => \A i \in DOMAIN servicios : SoloBaja(servicios[i], servicios'[i])
    BY SoloSeBaja
<1> QED
    BY <1>1, PasoFiabilidad, DelInvariante, PTL DEF SpecFiabilidad, LecturaRespaldada

(* Every variable of the reading stays in its domain, and every service    *)
(* has all its fields, each with its confidence.                           *)
THEOREM TiposDeLaLectura == SpecFiabilidad => []TipoFiabilidad
<1>1. InvFiabilidad => TipoFiabilidad
    <2> SUFFICES ASSUME InvFiabilidad, NEW i \in DOMAIN servicios
                 PROVE  /\ DOMAIN servicios[i].campos = CamposLeidos
                        /\ servicios[i].confianzas \in [CamposLeidos -> 0..100]
                        /\ servicios[i].completadas \subseteq Instantes
        BY DEF InvFiabilidad, TipoFiabilidad
    <2>1. EsServicio(servicios[i])
        BY DEF InvFiabilidad, EnPie, Leido, Normal, ConInstantes, ConPaises, Desciende
    <2> DEFINE c == servicios[i].campos
    <2>2. c = [f \in CamposLeidos |-> c[f]]
        BY <2>1 DEF EsServicio
    <2> HIDE DEF c
    <2>3. DOMAIN c = CamposLeidos
        BY <2>2
    <2> QED
        BY <2>1, <2>3 DEF EsServicio, c
<1> QED
    BY <1>1, PasoFiabilidad, PTL DEF SpecFiabilidad

=============================================================================
