----------------------------- MODULE Grounding -----------------------------
(***************************************************************************)
(* How much a value read in a document may be trusted: the rules and the   *)
(* model that say what the document is, the answer of the model brought to *)
(* one shape, each value looked for in the pages, the catalogue's say, and *)
(* whether the reading waits for a person.                                 *)
(*                                                                         *)
(* A page is a sequence of marks, in the order they are printed:           *)
(*   <<"fecha", d>>   day d with the four figures of its year;             *)
(*   <<"corta", d>>   day d with two figures, or dated by its weekday;     *)
(*   <<"hora", h>>, <<"cifra", n>>, <<"palabra", w>>;                      *)
(*   <<"parte", w>>   letters that spell w once spaces and separators are  *)
(*                    out, of several words or within a longer one;        *)
(*   <<"dentro", n>>  the figures of the amount n as part of a longer one, *)
(*                    between its commas and points;                       *)
(*   <<"digitos", h>> those of the hour h in a row within other figures,   *)
(*                    or across several, once the separators are out.      *)
(* An hour is the number its four figures make, as a year is: 20:26 and    *)
(* 2026 are searched for alike, and a date alone has the hour 00:00.       *)
(* Confidences are hundredths.  An instant the model wrote in words has    *)
(* ~iso until it is normalised, and one given as the hour alone, dia = 0.  *)
(***************************************************************************)
EXTENDS Integers, Sequences, FiniteSets, SequencesExt, FiniteSetsExt

CONSTANTS
    Textos,         \* the documents: sequences of pages
    Lecturas,       \* what the model may find in a service, by class
    Anio,           \* the year of each day
    Lugares,        \* for each name the catalogue knows, its rows
    ZonaDelPais,    \* the main zone of each country of the catalogue
    CodigoDelPais,  \* the code of each country, by its name
    ZonasValidas, ZonaPorDefecto,
    SinEspacios,    \* for each value written with spaces, it without them
    SinGuiones,     \* for each value written with hyphens, it without them
    Regulares,      \* the locators of the usual five to eight signs
    Postales,       \* the cities that are only figures
    Breves,         \* the values too short to look for
    MaxPuntos,      \* the highest score of a class, in halves
    MaxTexto,       \* the marks that fit in a request
    Ventana         \* the marks before an hour that may date it

ASSUME ZonaAssumption == ZonaPorDefecto \in ZonasValidas

(* No place is called nothing, nor by figures alone, and a place has the   *)
(* code of its country, of two letters, or none.                           *)
ASSUME LugaresAssumption ==
    /\ DOMAIN Lugares \cap (Postales \cup {"nada"}) = {}
    /\ \A n \in DOMAIN Lugares : \A r \in Lugares[n] :
          r.pais \in DOMAIN ZonaDelPais \cup Breves \cup {"nada"}

ASSUME PaisesAssumption == "nada" \notin DOMAIN CodigoDelPais

ASSUME PuntosAssumption == MaxPuntos \in Nat

CONFIANZA_LITERAL == 85
CONFIANZA_INFERIDA == 50
CONFIANZA_COMPLETADA == 60
CONFIANZA_CATALOGO == 90
UmbralRevision == 85
MinConfianza == 70

SinDecir == -1
SinHora == -1

VARIABLES
    fase,           \* how far the document is
    clase,          \* what it is held to be
    texto,          \* its pages
    servicios,      \* what has been read in it
    sola            \* approved without waiting

varsFiabilidad == <<fase, clase, texto, servicios, sola>>

Instantes == {"desde", "hasta"}
Rotulos == {"localizador", "numero", "importe", "lugar", "destino", "ciudad",
            "pais"}
CamposLeidos == Rotulos \cup Instantes
Clases == {"trayecto", "estancia", "desconocido"}

(* What a model answers of one service: every field, the two instants in   *)
(* their parts, and how sure it says it is.                                *)
EsLeido(l) ==
    /\ l = [campos |-> l.campos, dice |-> l.dice] /\ l.dice \in {SinDecir} \cup 0..100
    /\ l.campos = [f \in CamposLeidos |-> l.campos[f]]
    /\ \A f \in Instantes : LET v == l.campos[f] IN
          v = [dia |-> v.dia, hora |-> v.hora, zona |-> v.zona, iso |-> v.iso]

ASSUME LecturasAssumption ==
    \A c \in Clases : \A lista \in Lecturas[c] :
       lista \in Seq(ToSet(lista)) /\ lista # <<>> /\ \A i \in DOMAIN lista : EsLeido(lista[i])

Falta(campos, f) ==
    IF f \in Instantes THEN campos[f].hora = SinHora ELSE campos[f] = "nada"

Minimo(a, b) == IF a < b THEN a ELSE b

NulosEscritos == {"null"}

Redondeo(c, decimas) == (c * decimas + 5) \div 10

(***************************************************************************)
(* What the document is.                                                   *)
(***************************************************************************)

(* `classify_by_rules`, from the two best scores in halves: what is        *)
(* certain, how strong the best is (six is all) and how far from the next. *)
ConfianzaDeReglas(mejor, otro) ==
    IF mejor = 0 THEN 0
    ELSE LET total == mejor + otro
             veces == 840 * total + 65 * Minimo(mejor, 12) * total
                          + 780 * (mejor - otro)
         IN  Minimo((2 * veces + 24 * total) \div (48 * total), 99)

needs_ai_classification(confianza) == confianza < MinConfianza

(* `classify_document`: the model fails, is hardly sure, or is sure.       *)
Dictamenes == {SinDecir, 30, 90}

(* A model is asked when the rules are not sure or nobody has said what    *)
(* the document is.  Its class stands only when it is surer; one that      *)
(* fails leaves the rules' word.                                           *)
Clasificar ==
    /\ fase = "subido"
    /\ \E mejor, otro \in 0..MaxPuntos, propuesta, suya \in Clases \ {"desconocido"},
          cuanto \in Dictamenes, declarado \in BOOLEAN :
          LET reglas == ConfianzaDeReglas(mejor, otro)
              pregunta == needs_ai_classification(reglas) \/ ~declarado
          IN  /\ otro <= mejor
              /\ clase' = IF pregunta /\ cuanto > reglas THEN suya
                          ELSE IF mejor = 0 THEN "desconocido" ELSE propuesta
    /\ fase' = "clasificado"
    /\ UNCHANGED <<texto, servicios, sola>>

(***************************************************************************)
(* The pages that travel, and what can be found in them.                   *)
(***************************************************************************)
Usado(t, i) == FoldLeft(LAMBDA n, p : n + Len(p), 0, SubSeq(t, 1, i - 1))

_document_blocks(t) ==
    [i \in DOMAIN t |->
        SubSeq(t[i], 1, Minimo(Len(t[i]), MaxTexto - Usado(t, i)))]

Seguido(b) == FlattenSeq(b)

Impreso(b) == UNION {Range(b[i]) : i \in DOMAIN b}

(* A value without its spaces; and a word without its hyphens.             *)
compacto(w) == IF w \in DOMAIN SinEspacios THEN SinEspacios[w] ELSE w
SinGuion(w) == IF w \in DOMAIN SinGuiones THEN SinGuiones[w] ELSE w
cleaned(w) == SinGuion(compacto(w))

(* As a word of its own, anywhere in the document.                         *)
Escrito(b, w) == <<"palabra", compacto(w)>> \in Impreso(b)

(* `_importe_escrito`, between figures that are not its own: a comma or a  *)
(* point is no figure.  An amount of nothing has to stand alone.           *)
_importe_escrito(b, n) ==
    \/ <<"cifra", n>> \in Impreso(b)
    \/ n # "cero" /\ <<"dentro", n>> \in Impreso(b)

(* `_find_literal`: without spaces, separators or capitals, on one page.   *)
_find_literal(b, w) ==
    /\ w \notin Breves \cup {"nada"}
    /\ \E i \in DOMAIN b : \E m \in Range(b[i]) :
          /\ m[1] \in {"palabra", "parte", "cifra", "dentro"}
          /\ cleaned(m[2]) = cleaned(w)

AniosDe(marcas) == {Anio[m[2]] : m \in {x \in marcas : x[1] = "fecha"}}

(* The runs of four figures an hour or a year may be found in.             *)
Cifras(marcas) ==
    AniosDe(marcas) \cup {m[2] : m \in {x \in marcas : x[1] \in {"hora", "digitos"}}}

(* `_find_literal_instante`: the figures of the hour and those of the      *)
(* year, on the same page, whatever they are figures of.                   *)
Figuran(b, v) ==
    \E i \in DOMAIN b : {v.hora, Anio[v.dia]} \subseteq Cifras(Range(b[i]))

_find_literal_instante(b, v) == v.iso /\ Figuran(b, v)

_ultima_fecha(marcas, i) ==
    LET antes == {j \in (i - Ventana)..(i - 1) :
                     j > 0 /\ marcas[j][1] \in {"fecha", "corta"}}
    IN  IF antes = {} THEN {} ELSE {marcas[Max(antes)][2]}

DiasDeLaHora(b, h) ==
    LET m == Seguido(b)
    IN  UNION {_ultima_fecha(m, i) : i \in {j \in DOMAIN m : m[j] = <<"hora", h>>}}

(* `_completar_horas`: an hour alone takes the day printed before it, when *)
(* every place it appears in gives the same.                               *)
PorCompletar(b, campos) ==
    {f \in Instantes : /\ campos[f].hora # SinHora /\ campos[f].dia = 0
                       /\ Cardinality(DiasDeLaHora(b, campos[f].hora)) = 1}

_completar_horas(b, campos) ==
    [f \in CamposLeidos |->
        IF f \in PorCompletar(b, campos)
        THEN [campos[f] EXCEPT !.dia = CHOOSE d \in DiasDeLaHora(b, campos[f].hora) : TRUE,
                                !.iso = TRUE]
        ELSE campos[f]]

NoEsElNumero(campos) == compacto(campos["localizador"]) # compacto(campos["numero"])

(* Deliberate fault: a locator found once the spaces are taken out.        *)
DescartarSinEspacios(b, campos) ==
    [campos EXCEPT
        !["localizador"] = IF _find_literal(b, @) /\ NoEsElNumero(campos) THEN @ ELSE "nada",
        !["importe"] = IF _importe_escrito(b, @) THEN @ ELSE "nada"]

(* `_descartar_lo_inventado`: a locator that is not a printed word, or is  *)
(* the number of the flight; an amount the document does not print.        *)
_descartar_lo_inventado(b, campos) ==
    [campos EXCEPT
        !["localizador"] = IF Escrito(b, @) /\ NoEsElNumero(campos) THEN @ ELSE "nada",
        !["importe"] = IF _importe_escrito(b, @) THEN @ ELSE "nada"]

ConfianzaDe(b, campos, dice, f) ==
    IF IF f \in Instantes THEN _find_literal_instante(b, campos[f])
                          ELSE _find_literal(b, campos[f])
    THEN CONFIANZA_LITERAL
    ELSE IF Falta(campos, f) THEN 0
    ELSE IF dice = SinDecir THEN CONFIANZA_INFERIDA
    ELSE Minimo(dice, CONFIANZA_INFERIDA)

(* `_flag_invented_years`: a year the document, which prints some, does not. *)
AnioInventado(b, v) ==
    LET impresos == AniosDe(Impreso(b))
    IN  v.iso /\ impresos # {} /\ Anio[v.dia] \notin impresos

(* `_ground_in_document`, for one service.                                 *)
_ground_in_document(b, leido) ==
    LET quedan == _descartar_lo_inventado(b, leido.campos)
        hechas == PorCompletar(b, quedan)
        campos == _completar_horas(b, quedan)
        cruda(f) == ConfianzaDe(b, campos, leido.dice, f)
    IN  [campos |-> campos,
         confianzas |-> [f \in CamposLeidos |->
            IF f \in Instantes /\ AnioInventado(b, campos[f]) THEN 0
            ELSE IF f \in hechas THEN Minimo(cruda(f), CONFIANZA_COMPLETADA)
            ELSE cruda(f)],
         completadas |-> hechas]

(***************************************************************************)
(* The answer of the model.                                                *)
(***************************************************************************)

(* `_coerce_envelope`: the list asked for, one service as documents had    *)
(* before, or the fields on their own, whose confidences are not theirs.   *)
_coerce_envelope(forma, lista) ==
    CASE forma = "servicios" -> lista
      [] forma = "campos" -> SubSeq(lista, 1, 1)
      [] forma = "sueltos" -> <<[lista[1] EXCEPT !.dice = SinDecir]>>
      [] OTHER -> <<>>

Extraer ==
    /\ fase = "clasificado"
    /\ \E t \in Textos, forma \in {"servicios", "campos", "sueltos", "ninguno"},
          lista \in Lecturas[clase] :
          LET b == _document_blocks(t)
              leidos == _coerce_envelope(forma, lista)
          IN  /\ Seguido(t) # <<>>
              /\ texto' = t
              /\ servicios' = [i \in DOMAIN leidos |-> _ground_in_document(b, leidos[i])]
    /\ fase' = "extraido"
    /\ UNCHANGED <<clase, sola>>

(* `_parse`: there is no text to send, or the answer is not JSON, or not   *)
(* what the schema asks.                                                   *)
NoSeEntiende ==
    /\ fase = "clasificado"
    /\ fase' = "error"
    /\ UNCHANGED <<clase, texto, servicios, sola>>

(***************************************************************************)
(* Normalisation: every service on its own, the steps in this order.       *)
(***************************************************************************)
Baja(s, campos, decimas) ==
    [s EXCEPT !.confianzas = [f \in CamposLeidos |->
        IF f \in campos THEN Redondeo(@[f], decimas) ELSE @[f]]]

(* `_sin_nulos_escritos`: "null" is an absent value, not one called null.  *)
_sin_nulos_escritos(s) ==
    [s EXCEPT !.campos = [f \in CamposLeidos |->
        IF f \in Rotulos /\ @[f] \in NulosEscritos THEN "nada" ELSE @[f]]]

(* The locator stored is the one read without its spaces and hyphens.      *)
_normalize_locators(s) ==
    LET limpio == cleaned(s.campos["localizador"]) IN
    IF s.campos["localizador"] = "nada" THEN s
    ELSE [s EXCEPT
             !.campos["localizador"] = limpio,
             !.confianzas["localizador"] = IF limpio \in Regulares THEN @ ELSE Minimo(@, 70)]

(* `_normalize_locations`: a code has one row; a name takes the first of   *)
(* those it matches, and the query asks for no order.                      *)
Catalogo(nombre) == IF nombre \in DOMAIN Lugares THEN Lugares[nombre] ELSE {}

PuntoDe(codigo) == IF codigo = "lugar" THEN "desde" ELSE "hasta"

ConLugar(s, codigo, fila) ==
    LET i == PuntoDe(codigo)
        zonados == IF Falta(s.campos, i) THEN s.campos
                   ELSE [s.campos EXCEPT ![i].zona = fila.zona]
    IN  IF codigo = "destino" THEN [s EXCEPT !.campos = zonados]
        ELSE [campos |-> [zonados EXCEPT
                             !["ciudad"] = IF @ = "nada" THEN fila.ciudad ELSE @,
                             !["pais"] = fila.pais],
              confianzas |-> [s.confianzas EXCEPT !["pais"] = CONFIANZA_CATALOGO],
              completadas |-> s.completadas]

_normalize_locations(s, codigo) ==
    LET filas == Catalogo(s.campos[codigo])
    IN  IF s.campos[codigo] = "nada" THEN {s}
        ELSE IF filas = {} THEN {Baja(s, {codigo, PuntoDe(codigo)}, 8)}
        ELSE {ConLugar(s, codigo, fila) : fila \in filas}

(* A code is kept, a name the catalogue knows becomes its code.            *)
_normalize_countries(s) ==
    [s EXCEPT !.campos["pais"] =
        IF @ \in DOMAIN ZonaDelPais \cup Breves THEN @
        ELSE IF @ \in DOMAIN CodigoDelPais THEN CodigoDelPais[@] ELSE "nada"]

(* `resolver_lugar`: the rows of the city when they agree about the zone;  *)
(* else the main zone of the country, when it is said.                     *)
resolver_lugar(ciudad, pais) ==
    LET filas == Catalogo(ciudad)
        zonas == {f.zona : f \in filas}
        paises == {f.pais : f \in filas}
    IN  IF \E z \in zonas : zonas = {z}
        THEN [zona |-> CHOOSE z \in zonas : TRUE,
              pais |-> IF \E p \in paises : paises = {p}
                       THEN CHOOSE p \in paises : TRUE ELSE "nada"]
        ELSE IF pais \in DOMAIN ZonaDelPais
        THEN [zona |-> ZonaDelPais[pais], pais |-> pais]
        ELSE [zona |-> "nada", pais |-> "nada"]

_normalize_place_timezones(s) ==
    LET lugar == resolver_lugar(s.campos["ciudad"], s.campos["pais"])
        gana == lugar.pais # "nada" /\ s.campos["pais"] = "nada"
        zonado(v) == IF v.hora = SinHora \/ lugar.zona = "nada" THEN v
                     ELSE [v EXCEPT !.zona = lugar.zona]
    IN  IF \A i \in Instantes : Falta(s.campos, i) THEN s
        ELSE [campos |-> [s.campos EXCEPT
                             !["pais"] = IF gana THEN lugar.pais ELSE @,
                             !["desde"] = zonado(@),
                             !["hasta"] = zonado(@)],
              confianzas |-> [s.confianzas EXCEPT
                             !["pais"] = IF gana THEN CONFIANZA_CATALOGO ELSE @],
              completadas |-> s.completadas]

(* `_parse_datetime`: any usual way of writing it, but not the hour alone. *)
_parse_datetime(v) ==
    IF v.dia = 0 THEN [v EXCEPT !.hora = SinHora] ELSE [v EXCEPT !.iso = TRUE]

(* `_normalize_instants`: half an instant is refused; a zone that does not *)
(* exist, or that nobody gave, is the house's and is said.                 *)
_normalize_instants(s) ==
    LET v(f) == s.campos[f]
        c(f) == s.confianzas[f]
    IN  [campos |-> [f \in CamposLeidos |->
            IF f \notin Instantes \/ Falta(s.campos, f) THEN v(f)
            ELSE IF v(f).dia = 0 \/ v(f).zona \in ZonasValidas THEN _parse_datetime(v(f))
            ELSE [_parse_datetime(v(f)) EXCEPT !.zona = ZonaPorDefecto]],
         confianzas |-> [f \in CamposLeidos |->
            IF f \notin Instantes \/ Falta(s.campos, f) THEN c(f)
            ELSE IF v(f).dia = 0 THEN Redondeo(c(f), 7)
            ELSE IF v(f).zona \in ZonasValidas THEN c(f)
            ELSE Redondeo(c(f), 6)],
         completadas |-> s.completadas]

AlReves(campos) ==
    /\ \A i \in Instantes : ~Falta(campos, i)
    /\ \/ campos["hasta"].dia < campos["desde"].dia
       \/ /\ campos["hasta"].dia = campos["desde"].dia
          /\ campos["hasta"].hora < campos["desde"].hora

_comprobar_orden(s) ==
    IF ~AlReves(s.campos) THEN s
    ELSE [s EXCEPT !.confianzas = [f \in CamposLeidos |->
             IF f \in Instantes THEN Minimo(@[f], 70) ELSE @[f]]]

_descartar_ciudades_numericas(s) ==
    [s EXCEPT !.campos["ciudad"] = IF @ \in Postales THEN "nada" ELSE @]

(* `normalize`, for one service: what it may come out as.                  *)
normalize(s, c) ==
    {_descartar_ciudades_numericas(_comprobar_orden(_normalize_instants(
        IF c # "trayecto"
        THEN _normalize_place_timezones(_normalize_countries(u))
        ELSE _normalize_countries(u)))) :
        u \in UNION {_normalize_locations(t, "destino") :
                        t \in _normalize_locations(_normalize_locators(_sin_nulos_escritos(s)), "lugar")}}

Normalizar ==
    /\ fase = "extraido"
    /\ fase' = "normalizado"
    /\ servicios' \in {n \in [DOMAIN servicios ->
                               UNION {normalize(servicios[i], clase) :
                                         i \in DOMAIN servicios}] :
                           \A i \in DOMAIN servicios :
                               n[i] \in normalize(servicios[i], clase)}
    /\ UNCHANGED <<clase, texto, sola>>

(***************************************************************************)
(* Whether a person looks first.                                           *)
(***************************************************************************)
Puestos(s) == {f \in CamposLeidos : ~Falta(s.campos, f)}

(* `puede_aprobarse_sola`: the administrator's switch, something to apply, *)
(* and an uploader who may approve; what is doubtful is marked, not held.  *)
Decidir ==
    /\ fase = "normalizado"
    /\ fase' = "decidido"
    /\ \E activada, gestiona \in BOOLEAN :
          sola' = (activada /\ servicios # <<>> /\ gestiona)
    /\ UNCHANGED <<clase, texto, servicios>>

TerminaLectura == fase \in {"decidido", "error"} /\ UNCHANGED varsFiabilidad

(* `confianza_minima`: what is absent is not unreliable.                   *)
confianza_minima(ss) ==
    LET todas == UNION {{s.confianzas[f] : f \in Puestos(s)} : s \in Range(ss)}
    IN  IF todas = {} THEN SinDecir ELSE Min(todas)

InitFiabilidad ==
    /\ fase = "subido"
    /\ clase = "desconocido"
    /\ texto = <<>>
    /\ servicios = <<>>
    /\ sola = FALSE

NextFiabilidad ==
    \/ Clasificar
    \/ Extraer
    \/ NoSeEntiende
    \/ Normalizar
    \/ Decidir
    \/ TerminaLectura

SpecFiabilidad == InitFiabilidad /\ [][NextFiabilidad]_varsFiabilidad

(***************************************************************************)
(* Properties.                                                             *)
(***************************************************************************)
TipoFiabilidad ==
    /\ fase \in {"subido", "clasificado", "extraido", "normalizado", "decidido",
                 "error"}
    /\ clase \in Clases
    /\ texto \in Textos \cup {<<>>}
    /\ sola \in BOOLEAN
    /\ \A i \in DOMAIN servicios :
          /\ DOMAIN servicios[i].campos = CamposLeidos
          /\ servicios[i].confianzas \in [CamposLeidos -> 0..100]
          /\ servicios[i].completadas \subseteq Instantes

FilasDelLugar(s) == UNION {Catalogo(s.campos[f]) : f \in {"lugar", "destino", "ciudad"}}

SinCatalogo(s, codigo) == ~Falta(s.campos, codigo) /\ Catalogo(s.campos[codigo]) = {}

(* What a word the document prints leaves without its hyphens.             *)
DelPapel(b, w) == \E x \in {m \in Impreso(b) : m[1] = "palabra"} : w = SinGuion(x[2])

(* What stands behind a value held to be as good as copied.                *)
Respaldado(s, f) ==
    LET b == _document_blocks(texto)
        v == s.campos[f]
    IN  IF f \in Instantes
        THEN /\ Figuran(b, v) /\ f \notin s.completadas
             /\ fase # "extraido" =>
                   /\ v.zona \in ZonasValidas
                   /\ ~AlReves(s.campos)
                   /\ ~SinCatalogo(s, IF f = "desde" THEN "lugar" ELSE "destino")
        ELSE IF f = "localizador"
        THEN IF fase = "extraido" THEN Escrito(b, v) /\ NoEsElNumero(s.campos)
             ELSE DelPapel(b, v) /\ v \in Regulares
        ELSE \/ _find_literal(b, v)
             \/ f = "ciudad" /\ v \in {r.ciudad : r \in Catalogo(s.campos["lugar"])}
             \/ /\ f = "pais"
                /\ \/ v \in {r.pais : r \in FilasDelLugar(s)}
                   \/ \E n \in DOMAIN CodigoDelPais :
                         v = CodigoDelPais[n] /\ _find_literal(b, n)

(* A value at the review threshold or above is one whose signs the pages   *)
(* sent hold (an hour, the figures of it and of its year on one page; the  *)
(* locator, as a word of its own, or that word without its hyphens once    *)
(* normalised), or the catalogue's; no locator and no amount is kept that  *)
(* they do not hold; a year they do not print, where they print some, is   *)
(* worth nothing; and half an instant never gets past normalisation.       *)
SeguroLoRespaldado ==
    \A s \in Range(servicios) :
        /\ \A f \in Puestos(s) :
              s.confianzas[f] >= UmbralRevision => Respaldado(s, f)
        /\ ~Falta(s.campos, "localizador") =>
              IF fase = "extraido"
              THEN Escrito(_document_blocks(texto), s.campos["localizador"])
              ELSE DelPapel(_document_blocks(texto), s.campos["localizador"])
        /\ ~Falta(s.campos, "importe") =>
              _importe_escrito(_document_blocks(texto), s.campos["importe"])
        /\ \A f \in Instantes \cap Puestos(s) :
              /\ fase # "extraido" => s.campos[f].dia # 0
              /\ fase = "extraido" /\ AnioInventado(_document_blocks(texto), s.campos[f])
                 => s.confianzas[f] = 0

(* Normalising never makes a value surer, but for the country the          *)
(* catalogue gives; a zone nobody gave is doubted unless a place gave it,  *)
(* and so is what happens in a place the catalogue does not know.          *)
SoloBaja(antes, s) ==
    /\ \A f \in CamposLeidos \ {"pais"} : s.confianzas[f] <= antes.confianzas[f]
    /\ \A f \in Instantes \cap Puestos(s) :
          s.campos[f].zona # antes.campos[f].zona
          /\ s.confianzas[f] >= UmbralRevision
          => \/ s.campos[f].zona \in {r.zona : r \in FilasDelLugar(s)}
             \/ /\ s.campos["pais"] \in DOMAIN ZonaDelPais
                /\ s.campos[f].zona = ZonaDelPais[s.campos["pais"]]

(* What is approved on its own describes something, and when its weakest   *)
(* value is at the threshold, all of it stands.                            *)
SolaConRespaldo ==
    sola => /\ servicios # <<>>
            /\ confianza_minima(servicios) >= UmbralRevision =>
                  \A s \in Range(servicios) : \A f \in Puestos(s) : Respaldado(s, f)

(* The rules never settle on their own a document that looks like two      *)
(* things alike.                                                           *)
EmpateNoBasta ==
    \A n \in 1..MaxPuntos : needs_ai_classification(ConfianzaDeReglas(n, n))

(* No value reaches the itinerary with more trust than its evidence: what  *)
(* is as good as copied is printed or the catalogue's, before and after    *)
(* normalising, which only takes trust away; a reading approved on its own *)
(* describes something, and a minimum at the threshold speaks for all of   *)
(* it; and a tie between two classes is never settled by the rules.        *)
LecturaRespaldada ==
    [][/\ (SeguroLoRespaldado /\ SolaConRespaldo /\ EmpateNoBasta)'
       /\ fase = "extraido" =>
             \A i \in DOMAIN servicios : SoloBaja(servicios[i], servicios'[i])]_varsFiabilidad
=============================================================================
