------------------------------ MODULE Advisories ------------------------------
(***************************************************************************)
(* The recommendations of one open trip, the public sources they are       *)
(* written from, and the nightly watch that reads those sources again.     *)
(*                                                                         *)
(* A generation withdraws what is there, visits the destinations one by    *)
(* one and commits at the end; but a page that has to be fetched and a     *)
(* model that answers each commit too, the session being the same, so a    *)
(* half done generation is visible to whoever looks and survives a death.  *)
(* The watch compares digests, tells the people on the trip and starts a   *)
(* generation of its own, and nothing keeps it from one asked by hand.     *)
(***************************************************************************)
EXTENDS Naturals, Sequences, FiniteSets

CONSTANTS
    Ruta,          \* the destinations that are no stopover, in order
    Fuentes,       \* the pages of the authorised sources
    Nombra,        \* for each destination, the pages that name it
    Generadores,   \* processes that may be generating, the watch included
    Noche,         \* the one of them that is the watch
    MaxRondas,     \* bound: generations
    MaxVersion,    \* bound: versions of what a page says
    MaxSucesos     \* bound: changes of pages, sources and decisions, deaths

(* `_destinations_of` takes each destination once.                         *)
Destinos == {Ruta[i] : i \in DOMAIN Ruta}

ASSUME AdvisoriesAssumption ==
    /\ Ruta \in Seq(Destinos) /\ Ruta # <<>>
    /\ \A i, j \in DOMAIN Ruta : Ruta[i] = Ruta[j] => i = j
    /\ Noche \in Generadores /\ MaxRondas \in Nat
    /\ MaxVersion \in Nat \ {0} /\ MaxSucesos \in Nat
    /\ \A i \in DOMAIN Ruta : Nombra[Ruta[i]] \subseteq Fuentes

VARIABLES
    pagina,      \* what each page says now
    lista,       \* its source on the list: active, switched off, deleted
    cacheada,    \* the fresh stored copy of each page, 0 when there is none
    consultada,  \* pages with a stored row, an error included
    escritas,    \* the recommendations: one per generation and destination,
                 \* and those written by hand
    generacion,  \* what each generator is doing
    rondas,      \* generations begun
    vigia,       \* what the watch has found
    avisos,      \* keys of the notices this trip's people have had
    contados,    \* history: <<page, version>> a new notice told of
    detectados,  \* history: <<page, version>> the watch noticed
    aLaVez,      \* history: two generations overlapped
    sucesos

varsRecomendaciones ==
    <<pagina, lista, cacheada, consultada, escritas, generacion, rondas, vigia,
      avisos, contados, detectados, aLaVez, sucesos>>

(* A row a generation writes carries its number; one written by hand, how  *)
(* many generations had begun.                                             *)
Recomendaciones ==
    ((1..MaxRondas) \X Destinos) \cup ({0} \X (0..MaxRondas) \X (1..MaxSucesos))

Generadas == {r \in Recomendaciones : r[1] # 0}
AMano == {r \in Recomendaciones : r[1] = 0}

AdvisoryValidationState ==
    {"PENDIENTE_VALIDACION", "VALIDADA", "RECHAZADA", "CADUCADA"}

(* `fuentes` are the pages cited, each with the digest it had; `dice` the  *)
(* destinations whose risks the row tells, more than one after a fusion.   *)
SinEscribir == [viva |-> FALSE, estado |-> "VALIDADA", fuentes |-> {}, dice |-> {}]

Parado == [pc |-> "libre", ronda |-> 0, i |-> 1, retirar |-> {}, oidas |-> {},
           nuevas |-> <<>>, fundidas |-> {}]

InitRecomendaciones ==
    /\ pagina = [f \in Fuentes |-> 1]
    /\ lista = [f \in Fuentes |-> "activa"]
    /\ cacheada = [f \in Fuentes |-> 0]
    /\ consultada = {}
    /\ escritas = [r \in Recomendaciones |-> SinEscribir]
    /\ generacion = [g \in Generadores |-> Parado]
    /\ rondas = 0
    /\ vigia = [pc |-> "libre", urls |-> {}, leido |-> {}]
    /\ avisos = {}
    /\ contados = {} /\ detectados = {} /\ aLaVez = FALSE
    /\ sucesos = 0

(* Something that happens to the trip from outside.                        *)
Suceso == sucesos < MaxSucesos /\ sucesos' = sucesos + 1

Vivas == {r \in Recomendaciones : escritas[r].viva}

(***************************************************************************)
(* Public sources.                                                         *)
(***************************************************************************)

(* Somebody else: the site says something new.                             *)
CambiarPagina(f) ==
    /\ Suceso
    /\ pagina[f] < MaxVersion
    /\ pagina' = [pagina EXCEPT ![f] = @ + 1]
    /\ UNCHANGED <<lista, cacheada, consultada, escritas, generacion, rondas,
                   vigia, avisos, contados, detectados, aLaVez>>

(* The stored copy of a page stops being fresh.                            *)
CaducarPagina(f) ==
    /\ Suceso
    /\ cacheada[f] # 0
    /\ cacheada' = [cacheada EXCEPT ![f] = 0]
    /\ UNCHANGED <<pagina, lista, consultada, escritas, generacion, rondas,
                   vigia, avisos, contados, detectados, aLaVez>>

(* `purge_web_cache`: the stored rows past their time.                     *)
PurgarCache ==
    /\ Suceso
    /\ consultada # {}
    /\ consultada' = {f \in Fuentes : cacheada[f] # 0}
    /\ UNCHANGED <<pagina, lista, cacheada, escritas, generacion, rondas, vigia,
                   avisos, contados, detectados, aLaVez>>

cambiar_estado(f, a) ==
    /\ Suceso
    /\ lista[f] \in {"activa", "inactiva"} /\ lista[f] # a
    /\ lista' = [lista EXCEPT ![f] = a]
    /\ UNCHANGED <<pagina, cacheada, consultada, escritas, generacion, rondas,
                   vigia, avisos, contados, detectados, aLaVez>>

(* `eliminar`: a source that was ever consulted is only switched off.      *)
EliminarFuente(f) ==
    /\ Suceso
    /\ lista[f] # "borrada" /\ f \notin consultada
    /\ lista' = [lista EXCEPT ![f] = "borrada"]
    /\ UNCHANGED <<pagina, cacheada, consultada, escritas, generacion, rondas,
                   vigia, avisos, contados, detectados, aLaVez>>

(* `allowed_source`.                                                       *)
Autorizada(f) == lista[f] = "activa"

(* `fetch` of a set of pages, of which some do not answer; a stored error  *)
(* hides the fresh copy that was there.  Without the cache every page is   *)
(* asked for again.                                                        *)
Pedidas(pedir, conCache) ==
    {f \in pedir : Autorizada(f) /\ (conCache => cacheada[f] = 0)}

Leidas(pedir, fallan, conCache) ==
    {<<f, IF f \in Pedidas(pedir, conCache) THEN pagina[f] ELSE cacheada[f]>> :
         f \in {p \in pedir : Autorizada(p)} \ fallan}

GuardarPaginas(pedidas, fallan) ==
    /\ cacheada' = [f \in Fuentes |-> IF f \notin pedidas THEN cacheada[f]
                                      ELSE IF f \in fallan THEN 0
                                      ELSE pagina[f]]
    /\ consultada' = consultada \cup pedidas

(***************************************************************************)
(* A generation.                                                           *)
(***************************************************************************)

(* `_retirar_anteriores`: what is live when the generation starts.         *)
SinRetirar == {}
PorRetirar == Vivas

EmpezarGeneracion(g) ==
    /\ rondas < MaxRondas
    /\ rondas' = rondas + 1
    /\ generacion' = [generacion EXCEPT ![g] =
          [Parado EXCEPT !.pc = "fuentes", !.ronda = rondas + 1,
                         !.retirar = PorRetirar]]
    /\ aLaVez' = (aLaVez \/ \E h \in Generadores : generacion[h].pc # "libre")

generate_for_trip(g) ==
    /\ g # Noche /\ generacion[g].pc = "libre"
    /\ EmpezarGeneracion(g)
    /\ UNCHANGED <<pagina, lista, cacheada, consultada, escritas, vigia, avisos,
                   contados, detectados, sucesos>>

(* Whatever the session holds goes out with any commit.                    *)
Volcada(p) ==
    [r \in Recomendaciones |->
        IF r \in DOMAIN p.nuevas THEN p.nuevas[r]
        ELSE [escritas[r] EXCEPT
                 !.viva = @ /\ r \notin p.retirar,
                 !.fuentes = @ \cup UNION {x.fuentes : x \in {y \in p.fundidas : y.r = r}},
                 !.dice = @ \cup UNION {x.dice : x \in {y \in p.fundidas : y.r = r}}]]

Limpia(p) == [p EXCEPT !.retirar = {}, !.nuevas = <<>>, !.fundidas = {}]

(* The session gains a row; the destination is done.                       *)
ConFila(p, r, estado, fuentes) ==
    [p EXCEPT !.i = @ + 1, !.pc = "fuentes", !.oidas = {},
              !.nuevas = [x \in DOMAIN @ \cup {r} |->
                             IF x = r THEN [viva |-> TRUE, estado |-> estado,
                                            fuentes |-> fuentes, dice |-> {r[2]}]
                             ELSE @[x]]]

(* `_no_sources_advisory`: not checked is said, never kept silent.         *)
_no_sources_advisory(p) ==
    ConFila(p, <<p.ronda, Ruta[p.i]>>, "PENDIENTE_VALIDACION", {})

(* `_consultar_fuentes` and `_fuentes_sobre` for one destination.          *)
ConsultarFuentes(g) ==
    LET p == generacion[g] IN
    /\ p.pc = "fuentes" /\ p.i <= Len(Ruta)
    /\ \E fallan \in SUBSET Pedidas(Fuentes, TRUE) :
          LET pedidas == Pedidas(Fuentes, TRUE)
              oidas == {x \in Leidas(Fuentes, fallan, TRUE) :
                            x[1] \in Nombra[Ruta[p.i]]}
              q == IF pedidas = {} THEN p ELSE Limpia(p)
          IN /\ GuardarPaginas(pedidas, fallan)
             /\ escritas' = IF pedidas = {} THEN escritas ELSE Volcada(p)
             /\ generacion' = [generacion EXCEPT ![g] =
                   IF oidas = {} THEN _no_sources_advisory(q)
                   ELSE [q EXCEPT !.pc = "modelo", !.oidas = oidas]]
    /\ UNCHANGED <<pagina, lista, rondas, vigia, avisos, contados,
                   detectados, aLaVez, sucesos>>

(* The rows of this generation that tell a risk, in the session or out.    *)
Dichas(p) ==
    {r \in DOMAIN p.nuevas : p.nuevas[r].fuentes # {}}
        \cup {r \in Recomendaciones : r[1] = p.ronda /\ escritas[r].fuentes # {}}

(* `_fusionar`: a repeated risk joins the row that said it first, with the *)
(* pages that row did not cite.                                            *)
_fusionar(p, r, citadas) ==
    LET suma == {x \in p.oidas : \A c \in citadas : c[1] # x[1]}
    IN [p EXCEPT !.i = @ + 1, !.pc = "fuentes", !.oidas = {},
                 !.fundidas = @ \cup {[r |-> r, fuentes |-> suma, dice |-> {Ruta[p.i]}]}]

(* What the loop does with an answer none of whose risks is kept: they     *)
(* were about another country, or there were none.                         *)
CallarLoAjeno(p) == [p EXCEPT !.i = @ + 1, !.pc = "fuentes", !.oidas = {}]
SiNadaVale(p) == _no_sources_advisory(p)

(* `analyze_risks`, and the loop over its answer.  The execution's row is  *)
(* committed whether the model answers or fails, unless no provider could  *)
(* be chosen at all.                                                       *)
AnalizarRiesgos(g) ==
    LET p == generacion[g]  q == Limpia(p) IN
    /\ p.pc = "modelo"
    /\ \/ escritas' = escritas
          /\ generacion' = [generacion EXCEPT ![g] = _no_sources_advisory(p)]
       \/ escritas' = Volcada(p)
          /\ generacion' = [generacion EXCEPT ![g] = _no_sources_advisory(q)]
       \/ escritas' = Volcada(p)
          /\ generacion' = [generacion EXCEPT ![g] = SiNadaVale(q)]
       \/ escritas' = Volcada(p)
          /\ generacion' = [generacion EXCEPT ![g] =
                ConFila(q, <<p.ronda, Ruta[p.i]>>, "VALIDADA", p.oidas)]
       \/ \E r \in Dichas(p) :
             /\ escritas' = Volcada(p)
             /\ generacion' = [generacion EXCEPT ![g] = _fusionar(q, r, Volcada(p)[r].fuentes)]
    /\ UNCHANGED <<pagina, lista, cacheada, consultada, rondas, vigia, avisos,
                   contados, detectados, aLaVez, sucesos>>

TerminarGeneracion(g) ==
    LET p == generacion[g] IN
    /\ p.pc = "fuentes" /\ p.i > Len(Ruta)
    /\ escritas' = Volcada(p)
    /\ generacion' = [generacion EXCEPT ![g] = Parado]
    /\ UNCHANGED <<pagina, lista, cacheada, consultada, rondas, vigia, avisos,
                   contados, detectados, aLaVez, sucesos>>

(* The process dies; what it had not committed is lost.                    *)
MorirGenerando(g) ==
    /\ Suceso
    /\ generacion[g].pc # "libre"
    /\ generacion' = [generacion EXCEPT ![g] = Parado]
    /\ UNCHANGED <<pagina, lista, cacheada, consultada, escritas, rondas, vigia,
                   avisos, contados, detectados, aLaVez>>

(***************************************************************************)
(* The nightly watch.                                                      *)
(***************************************************************************)

(* Every cited page once, past the cache; the first one of each row that   *)
(* reads differently.                                                      *)
ReleerFuentes ==
    LET conFuentes == {r \in Vivas : escritas[r].fuentes # {}}
        citadas == {x[1] : x \in UNION {escritas[r].fuentes : r \in conFuentes}}
    IN
    /\ vigia.pc = "libre" /\ generacion[Noche].pc = "libre"
    /\ conFuentes # {}
    /\ \E fallan \in SUBSET Pedidas(citadas, FALSE) :
          LET leidas == Leidas(citadas, fallan, FALSE)
              Cambio(r) == {x[1] : x \in {y \in escritas[r].fuentes :
                               \E z \in leidas : z[1] = y[1] /\ z[2] # y[2]}}
              movidas == {r \in conFuentes : Cambio(r) # {}}
          IN /\ GuardarPaginas(Pedidas(citadas, FALSE), fallan)
             /\ \/ movidas = {} /\ UNCHANGED <<vigia, detectados>>
                \/ \E primera \in [movidas -> Fuentes] :
                      LET urls == {primera[r] : r \in movidas}
                          leido == {x \in leidas : x[1] \in urls}
                      IN /\ \A r \in movidas : primera[r] \in Cambio(r)
                         /\ movidas # {}
                         /\ vigia' = [pc |-> "avisar", urls |-> urls, leido |-> leido]
                         /\ detectados' = detectados \cup leido
    /\ UNCHANGED <<pagina, lista, escritas, generacion, rondas, avisos,
                   contados, aLaVez, sucesos>>

(* `_avisar_del_cambio`: the notice is keyed by the pages that changed,    *)
(* and whoever has one with that key gets no other.                        *)
ClaveDeAviso == vigia.urls

AvisarDelCambio ==
    /\ vigia.pc = "avisar"
    /\ avisos' = avisos \cup {ClaveDeAviso}
    /\ contados' = IF ClaveDeAviso \in avisos THEN contados
                   ELSE contados \cup vigia.leido
    /\ vigia' = [vigia EXCEPT !.pc = "regenerar"]
    /\ UNCHANGED <<pagina, lista, cacheada, consultada, escritas, generacion,
                   rondas, detectados, aLaVez, sucesos>>

(* With regeneration switched on the watch generates; without it, it ends. *)
RegenerarTrasElCambio ==
    /\ vigia.pc = "regenerar"
    /\ vigia' = [pc |-> "libre", urls |-> {}, leido |-> {}]
    /\ \/ EmpezarGeneracion(Noche)
       \/ UNCHANGED <<rondas, generacion, aLaVez>>
    /\ UNCHANGED <<pagina, lista, cacheada, consultada, escritas, avisos,
                   contados, detectados, sucesos>>

(***************************************************************************)
(* People, and time.                                                       *)
(***************************************************************************)

(* `validate`: approving what was already validated is refused.            *)
validate(r, aprobar) ==
    /\ Suceso
    /\ r \in Vivas /\ (aprobar => escritas[r].estado # "VALIDADA")
    /\ escritas' = [escritas EXCEPT ![r].estado = IF aprobar THEN "VALIDADA" ELSE "RECHAZADA"]
    /\ UNCHANGED <<pagina, lista, cacheada, consultada, generacion, rondas,
                   vigia, avisos, contados, detectados, aLaVez>>

(* `create_manual`, at any time: writing it is validating it, it cites no  *)
(* page, and it withdraws nothing.  The n-th since a generation last began. *)
create_manual(n) ==
    /\ Suceso
    /\ ~escritas[<<0, rondas, n>>].viva
    /\ \A k \in 1..(n - 1) : escritas[<<0, rondas, k>>].viva
    /\ escritas' = [escritas EXCEPT ![<<0, rondas, n>>].viva = TRUE]
    /\ UNCHANGED <<pagina, lista, cacheada, consultada, generacion, rondas,
                   vigia, avisos, contados, detectados, aLaVez>>

(* `expire_stale`: those validated whose time has passed.                  *)
expire_stale ==
    /\ Suceso
    /\ \E viejas \in SUBSET {r \in Vivas : escritas[r].estado = "VALIDADA"} :
          /\ viejas # {}
          /\ escritas' = [r \in Recomendaciones |->
                IF r \in viejas THEN [escritas[r] EXCEPT !.estado = "CADUCADA"]
                ELSE escritas[r]]
    /\ UNCHANGED <<pagina, lista, cacheada, consultada, generacion, rondas,
                   vigia, avisos, contados, detectados, aLaVez>>

NextRecomendaciones ==
    \/ \E f \in Fuentes :
          \/ CambiarPagina(f) \/ CaducarPagina(f) \/ EliminarFuente(f)
          \/ cambiar_estado(f, "activa") \/ cambiar_estado(f, "inactiva")
    \/ PurgarCache
    \/ \E g \in Generadores :
          \/ generate_for_trip(g) \/ ConsultarFuentes(g) \/ AnalizarRiesgos(g)
          \/ TerminarGeneracion(g) \/ MorirGenerando(g)
    \/ ReleerFuentes \/ AvisarDelCambio \/ RegenerarTrasElCambio
    \/ \E r \in Recomendaciones : validate(r, TRUE) \/ validate(r, FALSE)
    \/ \E n \in 1..MaxSucesos : create_manual(n)
    \/ expire_stale

SpecRecomendaciones == InitRecomendaciones /\ [][NextRecomendaciones]_varsRecomendaciones

(***************************************************************************)
(* Properties.                                                             *)
(***************************************************************************)

EscritasPosibles == [viva : BOOLEAN, estado : AdvisoryValidationState,
          fuentes : SUBSET (Fuentes \X (1..MaxVersion)), dice : SUBSET Destinos]

(* Type: every variable of the module stays in its domain.                 *)
TipoRecomendaciones ==
    /\ pagina \in [Fuentes -> 1..MaxVersion]
    /\ lista \in [Fuentes -> {"activa", "inactiva", "borrada"}]
    /\ cacheada \in [Fuentes -> 0..MaxVersion]
    /\ consultada \subseteq Fuentes
    /\ escritas \in [Recomendaciones -> EscritasPosibles]
    /\ \A g \in Generadores :
          /\ generacion[g].pc \in {"libre", "fuentes", "modelo"}
          /\ generacion[g].i \in 1..(Len(Ruta) + 1)
          /\ \A r \in DOMAIN generacion[g].nuevas :
                r \in Recomendaciones /\ generacion[g].nuevas[r] \in EscritasPosibles
    /\ rondas \in 0..MaxRondas
    /\ vigia.pc \in {"libre", "avisar", "regenerar"}
    /\ avisos \subseteq SUBSET Fuentes
    /\ contados \subseteq Fuentes \X (1..MaxVersion)
    /\ detectados \subseteq Fuentes \X (1..MaxVersion)
    /\ aLaVez \in BOOLEAN

(* `_retirar_anteriores` ("what the previous run said is superseded, not   *)
(* added to"): unless two generations overlapped, the generated rows a     *)
(* trip shows come from a single one, however many were cut short before;  *)
(* and of the rows written by hand only those that came after it had begun *)
(* stand beside them, the earlier ones being withdrawn with the rest.      *)
UnaSolaGeneracion ==
    aLaVez \/
      /\ \A r, s \in Vivas \cap Generadas : r[1] = s[1]
      /\ \A r \in Vivas \cap Generadas, m \in Vivas \cap AMano : m[2] >= r[1]

(* `_no_sources_advisory` ("tell no risks found from we could not check"): *)
(* the moment a generation ends, every destination is spoken of by one of  *)
(* its rows, even when its risk was folded into another destination's.     *)
TodoDestinoDice ==
    [][ \A g \in Generadores :
          TerminarGeneracion(g) =>
            \A d \in Destinos : \E r \in Recomendaciones :
               r[1] = generacion[g].ronda /\ d \in escritas'[r].dice
      ]_varsRecomendaciones

(* `_avisar_del_cambio` ("a source that moves again next month is told     *)
(* again"): of every change the watch noticed and was done with, somebody  *)
(* was told with a notice of its own.                                      *)
CadaCambioSeCuenta ==
    vigia.pc = "libre" => detectados \subseteq contados
==============================================================================
