------------------------------ MODULE Itinerary ------------------------------
(***************************************************************************)
(* The itinerary of one trip as its bookings arrive, move and go, and what *)
(* the program derives from it: the timeline and its connections, the      *)
(* trip's destinations and its dates.                                      *)
(*                                                                         *)
(* A booking addressed to nobody is for everybody.  Approving a document   *)
(* writes its booking and derives destinations and dates in one commit;    *)
(* what people write by hand derives nothing.  An instant is a number of   *)
(* hours and a day has HorasDelDia of them.                                *)
(***************************************************************************)
EXTENDS Integers, FiniteSets, Sequences, SequencesExt

CONSTANTS
    Reservas,       \* the bookings that documents and people may bring
    Asignaciones,   \* the assignments of people to the trip, by id
    Ciudad,         \* the catalogue: the city of a place
    PaisDe,         \* the catalogue: its country, or SinDato
    Zona,           \* the hours a place is ahead of UTC
    AMano,          \* the destinations a person may add by hand
    HorasDelDia,    \* the hours of a day, CONEXION_MAX_HORAS too
    UltimaHora,     \* bound: no instant is later
    MaxReservas,    \* bound: bookings on the itinerary
    MaxDestinos,    \* bound: destinations of the trip
    MaxEdicionesViaje    \* bound: edits

SinHora == -1
SinDato == "nada"
Todos == "todos"

Kinds == {"segmento", "alojamiento", "vehiculo"}

(* What a booking is, and when.                                            *)
EsReserva(f) ==
    /\ f = [n |-> f.n, kind |-> f.kind, tipo |-> f.tipo, ini |-> f.ini, fin |-> f.fin,
            desde |-> f.desde, hasta |-> f.hasta, pais |-> f.pais, dueno |-> f.dueno,
            doc |-> f.doc, localizador |-> f.localizador, numero |-> f.numero,
            nombre |-> f.nombre, importe |-> f.importe, moneda |-> f.moneda,
            termD |-> f.termD, termH |-> f.termH]
    /\ f.n \in Nat /\ f.kind \in Kinds
    /\ f.ini \in Nat \cup {SinHora} /\ f.fin \in Nat \cup {SinHora}

EsDestino(d) == d = [pais |-> d.pais, ciudad |-> d.ciudad]

ASSUME ReservasAssumption == \A r \in Reservas : EsReserva(r)

ASSUME AManoAssumption == \A d \in AMano : EsDestino(d)

ASSUME HorasAssumption ==
    HorasDelDia \in Nat \ {0} /\ UltimaHora \in Nat /\ MaxEdicionesViaje \in Nat

VARIABLES
    reservas,       \* the live rows of the itinerary
    lista,          \* the people assigned to the trip
    retirados,      \* those assigned and removed
    destinos,       \* its destinations, in order
    ventana,        \* its dates
    edicionesViaje

varsItinerario == <<reservas, lista, retirados, destinos, ventana,
                    edicionesViaje>>

SinFechas == [ini |-> SinHora, zona |-> 0, fin |-> SinHora, zonaFin |-> 0]

InitItinerario ==
    /\ reservas = {} /\ lista = {} /\ retirados = {} /\ destinos = <<>>
    /\ ventana = SinFechas /\ edicionesViaje = 0

(***************************************************************************)
(* The timeline.                                                           *)
(***************************************************************************)
DeClase(F, k) == {f \in F : f.kind = k}

SinFecha(f) == f.ini = SinHora

(* Undated rows sort last, and stay visible.                               *)
Antes(a, b) ==
    \/ ~SinFecha(a) /\ (SinFecha(b) \/ a.ini < b.ini)
    \/ (SinFecha(a) <=> SinFecha(b)) /\ (SinFecha(a) \/ a.ini = b.ini) /\ a.n < b.n

local_date(t, zona) == (t + zona) \div HorasDelDia

(* Neither an overlap nor a stay between an outbound leg and its return.   *)
es_conexion(margen) == margen >= 0 /\ margen <= HorasDelDia

mismo_lugar(a, b) ==
    CASE a.hasta # SinDato /\ b.desde # SinDato -> a.hasta = b.desde
      [] OTHER -> FALSE

(* The timeline of some rows is their order: what is looked at in it are   *)
(* the pairs with nothing in between.                                      *)
build_timeline(F) ==
    {p \in F \X F : Antes(p[1], p[2])
                     /\ \A g \in F : ~(Antes(p[1], g) /\ Antes(g, p[2]))}

(* The timeline pairs the legs addressed to the same person, and those     *)
(* addressed to nobody among themselves.                                   *)
find_connections(F) ==
    UNION {{p \in build_timeline(
                   {f \in DeClase(F, "segmento") : f.dueno = v /\ f.fin # SinHora}) :
               p[2].ini # SinHora /\ es_conexion(p[2].ini - p[1].fin)} :
           v \in {f.dueno : f \in F}}

(***************************************************************************)
(* Dates.                                                                  *)
(***************************************************************************)

(* Every instant of the itinerary, with the zone of its place.             *)
Instantes(F) == {[t |-> f.ini, zona |-> Zona[f.desde]] : f \in {g \in F : g.ini # SinHora}}
                \cup {[t |-> f.fin, zona |-> Zona[f.hasta]] : f \in {g \in F : g.fin # SinHora}}

itinerary_span(F) ==
    [primero |-> CHOOSE i \in Instantes(F) : \A j \in Instantes(F) : i.t <= j.t,
     ultimo  |-> CHOOSE i \in Instantes(F) : \A j \in Instantes(F) : j.t <= i.t]

(* Only the dates that are missing.                                        *)
sync_dates_from_itinerary(F, v) ==
    IF Instantes(F) = {} \/ (v.ini # SinHora /\ v.fin # SinHora) THEN v
    ELSE LET s == itinerary_span(F) IN
         [ini  |-> IF v.ini = SinHora THEN s.primero.t ELSE v.ini,
          zona |-> IF v.ini = SinHora THEN s.primero.zona ELSE v.zona,
          fin  |-> IF v.fin = SinHora THEN s.ultimo.t ELSE v.fin,
          zonaFin |-> IF v.fin = SinHora THEN s.ultimo.zona ELSE v.zonaFin]

(* What a manager assigning somebody is offered.                           *)
propose_traveler_window(F, v) ==
    IF Instantes(F) # {}
    THEN [desde |-> itinerary_span(F).primero.t, hasta |-> itinerary_span(F).ultimo.t,
          origen |-> "itinerario"]
    ELSE IF v.ini # SinHora /\ v.fin # SinHora
    THEN [desde |-> v.ini, hasta |-> v.fin, origen |-> "viaje"]
    ELSE [desde |-> SinHora, hasta |-> SinHora, origen |-> "ninguno"]

(***************************************************************************)
(* Destinations.                                                           *)
(***************************************************************************)
_punto_de_partida(F) ==
    LET con == {f \in DeClase(F, "segmento") : ~SinFecha(f) /\ f.desde # SinDato} IN
    IF con = {} THEN SinDato
    ELSE (CHOOSE f \in con : \A g \in con : f = g \/ Antes(f, g)).desde

(* A leg whose arrival is left again soon enough to be a connection.       *)
_es_escala(s, F) ==
    LET salidas == {f.ini : f \in {g \in DeClase(F, "segmento") :
                       /\ g # s /\ g.desde = s.hasta /\ ~SinFecha(g)
                       /\ g.ini >= s.fin}} IN
    /\ s.fin # SinHora /\ salidas # {}
    /\ es_conexion((CHOOSE t \in salidas : \A u \in salidas : t <= u) - s.fin)

(* The rows that say where the trip goes.  A relationship has no order of  *)
(* its own: legs come before stays, and each in any order.                 *)
Candidatos(F) ==
    LET origen == _punto_de_partida(F)
        tramos == {f \in DeClase(F, "segmento") : /\ f.hasta \notin {SinDato, origen}
                                                  /\ ~_es_escala(f, F)}
        estancias == {f \in DeClase(F, "alojamiento") : f.hasta # SinDato} IN
    {a \o b : a \in SetToSeqs(tramos), b \in SetToSeqs(estancias)}

(* The place a row names, with the country its document gives or else the  *)
(* catalogue's.                                                            *)
Lugar(f) == [pais   |-> IF f.pais # SinDato THEN f.pais ELSE PaisDe[f.hasta],
             ciudad |-> Ciudad[f.hasta]]

YaEsta(l, D) ==
    \/ l \in D
    \/ l.pais # SinDato /\ \E d \in D : d.pais = l.pais
    \/ l.pais = SinDato /\ \E d \in D : d.ciudad = l.ciudad

add_destination(D, l) == Append(D, l)

SiFalta(D, l) == IF YaEsta(l, ToSet(D)) THEN D ELSE add_destination(D, l)

sync_destinations_from_itinerary(candidatos, D) ==
    LET hechos[i \in 0..Len(candidatos)] ==
            IF i = 0 THEN D ELSE SiFalta(hechos[i - 1], Lugar(candidatos[i]))
    IN  hechos[Len(candidatos)]

(***************************************************************************)
(* What people and documents do.                                           *)
(***************************************************************************)
Editada == edicionesViaje < MaxEdicionesViaje /\ edicionesViaje' = edicionesViaje + 1

Nueva(r) == /\ \A f \in reservas : f.n # r.n
            /\ Cardinality(reservas) < MaxReservas

Dirigida(r, v, conDocumento) == [r EXCEPT !.dueno = v, !.doc = conDocumento]

(* `approve`: the booking of a document, then what the trip derives.       *)
AprobarReserva(r, v) ==
    /\ Nueva(r) /\ Editada
    /\ v \in lista \cup {Todos}
    /\ reservas' = reservas \cup {Dirigida(r, v, TRUE)}
    /\ ventana' = sync_dates_from_itinerary(reservas', ventana)
    /\ \E c \in Candidatos(reservas') :
          destinos' = sync_destinations_from_itinerary(c, destinos)
    /\ Len(destinos') <= MaxDestinos
    /\ UNCHANGED <<lista, retirados>>

(* `create_item`: a booking typed by hand.                                 *)
AnotarReserva(r, v) ==
    /\ Nueva(r) /\ Editada
    /\ v \in lista \cup {Todos}
    /\ reservas' = reservas \cup {Dirigida(r, v, FALSE)}
    /\ UNCHANGED <<lista, retirados, destinos, ventana>>

(* `update_item`: the booking is put off by an hour.                       *)
RetrasarReserva(f) ==
    /\ Editada
    /\ f.ini # SinHora /\ f.fin \in 0..(UltimaHora - 1)
    /\ reservas' = (reservas \ {f}) \cup {[f EXCEPT !.ini = @ + 1, !.fin = @ + 1]}
    /\ UNCHANGED <<lista, retirados, destinos, ventana>>

(* `delete_item`.                                                          *)
BorrarReserva(f) ==
    /\ Editada
    /\ reservas' = reservas \ {f}
    /\ UNCHANGED <<lista, retirados, destinos, ventana>>

(* `add_traveler` and `remove_traveler`: the rows of somebody who leaves   *)
(* stay theirs, and coming back is another assignment.                     *)
SumarPersona(v) ==
    /\ Editada
    /\ v \notin lista \cup retirados
    /\ lista' = lista \cup {v}
    /\ UNCHANGED <<reservas, retirados, destinos, ventana>>

QuitarPersona(v) ==
    /\ Editada
    /\ v \in lista
    /\ lista' = lista \ {v} /\ retirados' = retirados \cup {v}
    /\ UNCHANGED <<reservas, destinos, ventana>>

PonerDestino(l) ==
    /\ Editada
    /\ Len(destinos) < MaxDestinos
    /\ destinos' = add_destination(destinos, l)
    /\ UNCHANGED <<reservas, lista, retirados, ventana>>

(* The rest close ranks.                                                   *)
remove_destination(i) ==
    /\ Editada
    /\ destinos' = RemoveAt(destinos, i)
    /\ UNCHANGED <<reservas, lista, retirados, ventana>>

NextItinerario ==
    \/ \E r \in Reservas, v \in Asignaciones \cup {Todos} :
          AprobarReserva(r, v) \/ AnotarReserva(r, v)
    \/ \E f \in reservas : RetrasarReserva(f) \/ BorrarReserva(f)
    \/ \E v \in Asignaciones : SumarPersona(v) \/ QuitarPersona(v)
    \/ \E l \in AMano : PonerDestino(l)
    \/ \E i \in DOMAIN destinos : remove_destination(i)

TipoItinerario ==
    /\ Cardinality({f.n : f \in reservas}) = Cardinality(reservas)
    /\ \A f \in reservas : /\ f.kind \in Kinds
                           /\ f.dueno \in lista \cup retirados \cup {Todos}
    /\ lista \in SUBSET Asignaciones /\ retirados \in SUBSET (Asignaciones \ lista)
    /\ \A i \in DOMAIN destinos : EsDestino(destinos[i])
    /\ DOMAIN ventana = DOMAIN SinFechas
    /\ LET w == propose_traveler_window(reservas, ventana) IN w.desde <= w.hasta
    /\ edicionesViaje \in 0..MaxEdicionesViaje
=============================================================================
