----------------------------- MODULE AlertRules -----------------------------
(***************************************************************************)
(* What the alert rules find in the itinerary of a trip: the candidates of *)
(* one pass of the engine, and the keys the reconciler knows them by.      *)
(*                                                                         *)
(* A rule looks at the rows of one person at a time, those addressed to    *)
(* everybody included, or at the trip as a whole.                          *)
(***************************************************************************)
EXTENDS Itinerary

CONSTANTS
    Schengen,       \* the countries inside
    ReglasActivas,  \* the rules the administrator keeps on
    UmbralSchengen, UmbralInternacional, UmbralTraslado, MargenCritico,
    ExtraAeropuerto, ExtraTerminal,
    ToleranciaSolape, ToleranciaLlegada,
    UmbralHoras,    \* the clock change worth telling
    HorasAntes,     \* how soon a boarding pass is missed
    LimiteViaje, LimiteNoche, Antelacion,   \* the policy; 0 is no policy
    Moneda,         \* the currency of the policy
    Caducidad,      \* the day the passport of an assignment expires
    DiasExigidos, DiasAviso,
    ExigirLocalizador

ASSUME UmbralesAssumption ==
    /\ {UmbralSchengen, UmbralInternacional, UmbralTraslado, ExtraAeropuerto, ExtraTerminal,
        ToleranciaSolape, ToleranciaLlegada} \subseteq Nat

VARIABLES
    reloj,      \* the hour it is
    pases       \* the boarding passes attached to the trip

varsReglas == <<varsItinerario, reloj, pases>>

(***************************************************************************)
(* What a rule is given, and what it gives.                                *)
(***************************************************************************)

(* Deliberate fault: the rows for everybody are nobody's.                  *)
SoloLasPropias(v) == {f \in reservas : f.dueno = v}

(* `items_by_traveler`: the rows of one person.                            *)
FilasDe(v) == {f \in reservas : f.dueno = v \/ (f.dueno = Todos /\ v \in lista)}

Personados == lista \cup ({f.dueno : f \in reservas} \ {Todos})

(* A candidate: its rule, its person or Todos, the rows it is about, the   *)
(* names it gives them in the key, and its severity.                       *)
Hallazgo(codigo, v, sobre, nombres, severidad) ==
    [codigo |-> codigo, viajero |-> v, sobre |-> sobre, entidades |-> nombres,
     severidad |-> severidad]

Numeros(sobre) == {<<"fila", f.n>> : f \in sobre}

dedup_key(h) == <<h.codigo, h.viajero, h.entidades>>

(***************************************************************************)
(* overlaps.py                                                             *)
(***************************************************************************)
Comunes(a, b) == Min({a.fin, b.fin}) - Max({a.ini, b.ini})

Exentas(a, b) == /\ {a.kind, b.kind} \subseteq {"alojamiento", "vehiculo"}
                 /\ a.kind # b.kind

ConFechas(F) == {f \in F : ~SinFecha(f) /\ f.fin # SinHora}

SeSolapan(a, b) ==
    /\ ~Exentas(a, b)
    /\ a.ini < b.fin /\ b.ini < a.fin
    /\ Comunes(a, b) > ToleranciaSolape

segmentos_solapados(v) ==
    LET F == ConFechas(FilasDe(v)) IN
    {Hallazgo("segmentos_solapados", v, {p[1], p[2]}, Numeros({p[1], p[2]}), "alta") :
        p \in {q \in F \X F : Antes(q[1], q[2]) /\ SeSolapan(q[1], q[2])}}

(***************************************************************************)
(* connections.py                                                          *)
(***************************************************************************)
CONNECTABLE_SEGMENT_TYPES == {"vuelo", "tren", "autobus", "ferry", "traslado"}

PaisSalida(f) == IF f.desde = SinDato THEN SinDato ELSE PaisDe[f.desde]
PaisLlegada(f) == IF f.hasta = SinDato THEN SinDato ELSE Lugar(f).pais

UmbralBase(paises) == IF paises \subseteq Schengen THEN UmbralSchengen
                      ELSE UmbralInternacional

(* A country nobody knows is in no list, so the stricter threshold holds.  *)
_threshold_for(a, b) ==
    IF "traslado" \in {a.tipo, b.tipo} THEN UmbralTraslado
    ELSE UmbralBase({PaisSalida(a), PaisLlegada(a), PaisLlegada(b)})
         + CASE ~mismo_lugar(a, b) -> ExtraAeropuerto
             [] mismo_lugar(a, b) /\ a.termH # SinDato /\ b.termD # SinDato
                   /\ a.termH # b.termD -> ExtraTerminal
             [] OTHER -> 0

(* The pairs the rule judges.                                              *)
Conexiones(v) ==
    {p \in build_timeline(
              {f \in ConFechas(DeClase(FilasDe(v), "segmento")) :
                  f.tipo \in CONNECTABLE_SEGMENT_TYPES}) :
        es_conexion(p[2].ini - p[1].fin)}

conexion_margen_insuficiente(v) ==
    {Hallazgo("conexion_margen_insuficiente", v, {p[1], p[2]}, Numeros({p[1], p[2]}),
              IF p[2].ini - p[1].fin < MargenCritico THEN "critica" ELSE "alta") :
        p \in {q \in Conexiones(v) : q[2].ini - q[1].fin < _threshold_for(q[1], q[2])}}

(***************************************************************************)
(* lodging.py                                                              *)
(***************************************************************************)

(* The last arrival before the booking would end.                          *)
Llegada(F, r) ==
    LET antes == {f \in F : f.kind = "segmento" /\ f.fin # SinHora
                            /\ (r.fin = SinHora \/ f.fin <= r.fin)} IN
    {f \in antes : \A g \in antes : g.fin < f.fin \/ (g.fin = f.fin /\ g.n <= f.n)}

llegada_posterior_reserva(v) ==
    {Hallazgo("llegada_posterior_reserva", v, {p[1], p[2]}, Numeros({p[1], p[2]}), "media") :
        p \in {q \in FilasDe(v) \X FilasDe(v) :
                  /\ q[1].kind # "segmento" /\ ~SinFecha(q[1])
                  /\ q[2] \in Llegada(FilasDe(v), q[1])
                  /\ q[2].fin - q[1].ini > ToleranciaLlegada}}

(* The nights a row takes: from the local day it starts to the one it ends.*)
NochesDe(f) == local_date(f.ini, Zona[f.desde])..(local_date(f.fin, Zona[f.hasta]) - 1)

NochesDelViaje == IF SinHora \in {ventana.ini, ventana.fin} THEN {}
                  ELSE local_date(ventana.ini, ventana.zona)..
                          (local_date(ventana.fin, ventana.zona) - 1)

_uncovered_nights(v) ==
    NochesDelViaje \ UNION {NochesDe(f) : f \in
        {g \in ConFechas(FilasDe(v)) : g.kind \in {"alojamiento", "segmento"}}}

(* One finding for all of them, known by the first.                        *)
noche_sin_alojamiento(v) ==
    {Hallazgo("noche_sin_alojamiento", v, {}, {<<"noches", Min(n)>>}, "media") :
        n \in {_uncovered_nights(v)} \ {{}}}

(***************************************************************************)
(* timezones.py, boarding.py and documents.py                              *)
(***************************************************************************)
cambio_zona_horaria(v) ==
    {Hallazgo("cambio_zona_horaria", v, {f}, Numeros({f}), "informativa") :
        f \in {g \in DeClase(FilasDe(v), "segmento") :
                  /\ SinDato \notin {g.desde, g.hasta}
                  /\ LET d == Zona[g.hasta] - Zona[g.desde] IN
                     d # 0 /\ (d >= UmbralHoras \/ -d >= UmbralHoras)}}

(* A pass answers for the flight it was read from or names, and never for  *)
(* another person's.                                                       *)
cubre_segmento(p, f) ==
    \/ p.deFila = f.n
    \/ /\ Todos \in {p.dueno, f.dueno} \/ p.dueno = f.dueno
       /\ f.numero # SinDato /\ f.numero \in p.nombra

sin_tarjeta_de_embarque ==
    {Hallazgo("sin_tarjeta_de_embarque", f.dueno, {f}, Numeros({f}),
              IF 4 * (f.ini - reloj) <= HorasDelDia THEN "alta" ELSE "media") :
        f \in {g \in reservas :
                  /\ g.tipo = "vuelo" /\ ~SinFecha(g)
                  /\ g.ini - reloj \in 0..HorasAntes
                  /\ \A p \in pases : ~cubre_segmento(p, g)}}

documento_viajero_por_caducar ==
    LET margen(v) == Caducidad[v] - local_date(ventana.fin, ventana.zonaFin) IN
    {Hallazgo("documento_viajero_por_caducar", v, {}, {<<"persona", v>>},
              CASE margen(v) < 0 -> "critica"
                [] margen(v) \in 0..(DiasExigidos - 1) -> "alta"
                [] OTHER -> "informativa") :
        v \in {w \in lista : /\ ventana.fin # SinHora
                             /\ \/ margen(w) <= DiasExigidos
                                \/ margen(w) <= DiasAviso}}

(***************************************************************************)
(* data_quality.py                                                         *)
(***************************************************************************)
_missing_fields(f) ==
    \/ SinHora \in {f.ini, f.fin}
    \/ f.kind = "segmento" /\ SinDato \in {f.desde, f.hasta}
    \/ ExigirLocalizador /\ ~f.localizador /\ f.tipo # "traslado"

datos_incompletos ==
    {Hallazgo("datos_incompletos", f.dueno, {f}, Numeros({f}), "informativa") :
        f \in {g \in reservas : _missing_fields(g)}}
    \cup (IF lista # {} THEN {} ELSE
          {Hallazgo("datos_incompletos", Todos, {}, {<<"viaje", "todo">>}, "informativa")})
    \cup (IF SinHora \notin {ventana.ini, ventana.fin} THEN {} ELSE
          {Hallazgo("datos_incompletos", Todos, {}, {<<"viaje", "fechas">>}, "informativa")})

sin_documento_soporte ==
    {Hallazgo("sin_documento_soporte", f.dueno, {f}, Numeros({f}), "informativa") :
        f \in {g \in reservas : ~g.doc}}

(***************************************************************************)
(* policy.py                                                               *)
(***************************************************************************)
ConImporte == {f \in reservas : f.importe >= 0}

coste_total == MapThenSumSet(LAMBDA f : f.importe, ConImporte)

(* Amounts in several currencies cannot be added up.                       *)
coste_sobre_politica ==
    IF LimiteViaje = 0 \/ coste_total <= LimiteViaje THEN {}
    ELSE {Hallazgo("coste_sobre_politica", Todos, {}, {},
                   IF {f.moneda : f \in ConImporte} \subseteq {Moneda, SinDato}
                   THEN "alta" ELSE "informativa")}

noches(f) == IF f \in ConFechas({f}) THEN Cardinality(NochesDe(f)) ELSE 0

(* This rule alone names a row by its name, which two stays may share.     *)
coste_noche_sobre_politica(v) ==
    {Hallazgo("coste_noche_sobre_politica", v, {f}, {<<"nombre", f.nombre>>}, "media") :
        f \in {g \in FilasDe(v) \cap ConImporte :
                  /\ LimiteNoche > 0
                  /\ g.kind = "alojamiento" /\ g.moneda \in {Moneda, SinDato}
                  /\ noches(g) > 0 /\ g.importe > LimiteNoche * noches(g)}}

(* The trip was registered at hour 0.                                      *)
reserva_con_poca_antelacion ==
    IF /\ ventana.ini > 0 /\ ventana.ini >= reloj - HorasDelDia
       /\ ventana.ini \div HorasDelDia < Antelacion
    THEN {Hallazgo("reserva_con_poca_antelacion", Todos, {}, {}, "informativa")}
    ELSE {}

(***************************************************************************)
(* A pass of the engine, and what goes on meanwhile.                       *)
(***************************************************************************)
PorPersona(v) ==
    segmentos_solapados(v) \cup conexion_margen_insuficiente(v)
    \cup llegada_posterior_reserva(v) \cup noche_sin_alojamiento(v)
    \cup cambio_zona_horaria(v) \cup coste_noche_sobre_politica(v)

evaluate ==
    {h \in (UNION {PorPersona(v) : v \in Personados})
           \cup sin_tarjeta_de_embarque \cup documento_viajero_por_caducar
           \cup datos_incompletos \cup sin_documento_soporte
           \cup coste_sobre_politica \cup reserva_con_poca_antelacion :
        h.codigo \in ReglasActivas}

InitReglas == InitItinerario /\ reloj = 0 /\ pases = {}

(* A boarding pass is attached: for a person or for everybody, and read    *)
(* into the row of a flight or only naming its number.                     *)
AdjuntarPase(f, v, deFila) ==
    /\ Editada
    /\ f.tipo = "vuelo" /\ v \in lista \cup {Todos}
    /\ pases' = pases \cup {[dueno |-> v, deFila |-> IF deFila THEN f.n ELSE 0,
                             nombra |-> {f.numero} \ {SinDato}]}
    /\ UNCHANGED <<reservas, lista, retirados, destinos, ventana, reloj>>

PasarUnDia ==
    /\ Editada
    /\ reloj + HorasDelDia <= UltimaHora
    /\ reloj' = reloj + HorasDelDia
    /\ UNCHANGED <<reservas, lista, retirados, destinos, ventana, pases>>

NextReglas ==
    \/ NextItinerario /\ UNCHANGED <<reloj, pases>>
    \/ \E f \in reservas, v \in Asignaciones \cup {Todos}, deFila \in BOOLEAN :
          AdjuntarPase(f, v, deFila)
    \/ PasarUnDia

SpecReglas == InitReglas /\ [][NextReglas]_varsReglas

TipoReglas ==
    /\ TipoItinerario
    /\ reloj \in 0..UltimaHora
    /\ \A p \in pases : p.dueno \in lista \cup retirados \cup {Todos}
    /\ \A h \in evaluate :
          /\ h.viajero \in Personados \cup lista \cup {Todos}
          /\ h.sobre \subseteq reservas
          /\ h.severidad \in {"informativa", "media", "alta", "critica"}

(***************************************************************************)
(* What must hold of a pass, and of what an approval derives.              *)
(***************************************************************************)
Suyas(v) == {f \in reservas : f.dueno \in {v, Todos}}

Horas(f) == f.ini..(f.fin - 1)

EnDosSitios(a, b) == /\ ~Exentas(a, b)
                     /\ Cardinality(Horas(a) \cap Horas(b)) > ToleranciaSolape

De(codigo, v) == {h.sobre : h \in {g \in evaluate : g.codigo = codigo /\ g.viajero = v}}

(* Somebody is told to be in two places at once exactly when some hour is  *)
(* in two bookings of theirs.                                              *)
SolapesJustos ==
    "segmentos_solapados" \in ReglasActivas =>
        \A v \in lista : De("segmentos_solapados", v) =
            {{p[1], p[2]} : p \in {q \in ConFechas(Suyas(v)) \X ConFechas(Suyas(v)) :
                                       q[1] # q[2] /\ EnDosSitios(q[1], q[2])}}

(* The two rules never tell the same pair.                                 *)
NuncaLasDos ==
    \A v \in Personados : De("segmentos_solapados", v)
                           \cap De("conexion_margen_insuficiente", v) = {}

BienLeidos(F) == \A f \in F : f \in ConFechas(F) /\ f.ini < f.fin

Enlazables(F) == {f \in F : f.tipo \in CONNECTABLE_SEGMENT_TYPES}

UmbralMenor == Min({UmbralTraslado, UmbralSchengen, UmbralInternacional})

(* Where no overlap is tolerated, a change shorter than every threshold    *)
(* does not pass in silence: though the rule looks at neighbours only,     *)
(* some finding names the arriving leg.                                    *)
NingunApuroSeCalla ==
    /\ {"segmentos_solapados", "conexion_margen_insuficiente"} \subseteq ReglasActivas
    /\ ToleranciaSolape = 0
    => \A v \in lista : LET T == Enlazables(DeClase(Suyas(v), "segmento")) IN
          BienLeidos(T) => \A a, b \in T :
              /\ b.ini - a.fin \in 0..(UmbralMenor - 1)
              /\ es_conexion(b.ini - a.fin)
              => \E s \in De("segmentos_solapados", v)
                           \cup De("conexion_margen_insuficiente", v) : a \in s

(* The timeline and the rule call the same pairs connections, as           *)
(* connections.py:51-52 and itinerary_service.py:247-250 say of all.       *)
LasMismas(v) == Conexiones(v) = {p \in find_connections(reservas) : p[1].dueno = v}

(* They do where nobody shares a leg and all are of the kinds the rule     *)
(* looks at.                                                               *)
MismasConexiones ==
    \A v \in lista : LET T == DeClase(Suyas(v), "segmento") IN
        BienLeidos(T) /\ T = Enlazables(T) /\ Suyas(v) = {f \in reservas : f.dueno = v}
            => LasMismas(v)

(* Two findings of a pass have two keys, so neither hides the other from   *)
(* the reconciler, but for two stays of one name.                          *)
ClavesDistintas ==
    \A h, g \in evaluate : dedup_key(h) = dedup_key(g) =>
        h = g \/ (/\ h.codigo = "coste_noche_sobre_politica"
                 /\ {f.nombre : f \in h.sobre} = {f.nombre : f \in g.sobre})

(* A step adds no destination in a country that was already there, nor a   *)
(* city twice without one; and, whatever the order the rows are read in,   *)
(* an approval leaves nothing for a second derivation to add.              *)
DestinosDeUnPaso ==
    LET antes == Len(destinos) IN
    Cardinality(reservas') > Cardinality(reservas) =>
        /\ SubSeq(destinos', 1, antes) = destinos
        /\ \A i \in (antes + 1)..Len(destinos'), j \in DOMAIN destinos' : j < i =>
              /\ destinos'[j] # destinos'[i]
              /\ destinos'[j].pais = destinos'[i].pais => destinos'[i].pais = SinDato
              /\ destinos'[j].ciudad = destinos'[i].ciudad => destinos'[i].pais # SinDato
        /\ \A f \in reservas' \ reservas, c \in Candidatos(reservas') :
              f.doc => sync_destinations_from_itinerary(c, destinos') = destinos'

(* The alerts and destinations of a trip say what its bookings say.        *)
ItinerarioBienLeido ==
    [][/\ (SolapesJustos /\ NuncaLasDos /\ NingunApuroSeCalla
             /\ MismasConexiones /\ ClavesDistintas)'
       /\ DestinosDeUnPaso]_varsReglas
=============================================================================
