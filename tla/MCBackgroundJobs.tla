-------------------------- MODULE MCBackgroundJobs --------------------------
(***************************************************************************)
(* Small instances of the components that work out of sight of a request:  *)
(* the copies and the keys, the parameter search, the recommendations, the *)
(* notices, the providers of the assistant, its calls, what a reading      *)
(* of a document is worth, and the trail.  They share no state: a behaviour *)
(* takes one of them from its initial state and leaves the others still.   *)
(***************************************************************************)
EXTENDS BackupJobs, SecretKeys, Autotune, Advisories, Notices, AIProviders,
        AICalls, Grounding, AuditChain

VARIABLE parte      \* the component this behaviour is about

Partes ==
    {"copias",
     "claves",
     "ajuste",
     "recomendaciones",
     "avisos",
     "proveedores",
     "llamadas",
     "fiabilidad",
     "auditoria"}

varsDeTodas ==
    <<parte, varsCopias,
     varsClaves,
     varsAjuste,
     varsRecomendaciones,
     varsAvisos,
     varsProveedores,
     varsLlamadas,
     varsFiabilidad,
     vars>>

(* The components this behaviour leaves still.                             *)
Quietas ==
    /\ UNCHANGED parte
    /\ IF parte = "copias" THEN TRUE ELSE UNCHANGED varsCopias
    /\ IF parte = "claves" THEN TRUE ELSE UNCHANGED varsClaves
    /\ IF parte = "ajuste" THEN TRUE ELSE UNCHANGED varsAjuste
    /\ IF parte = "recomendaciones" THEN TRUE ELSE UNCHANGED varsRecomendaciones
    /\ IF parte = "avisos" THEN TRUE ELSE UNCHANGED varsAvisos
    /\ IF parte = "proveedores" THEN TRUE ELSE UNCHANGED varsProveedores
    /\ IF parte = "llamadas" THEN TRUE ELSE UNCHANGED varsLlamadas
    /\ IF parte = "fiabilidad" THEN TRUE ELSE UNCHANGED varsFiabilidad
    /\ IF parte = "auditoria" THEN TRUE ELSE UNCHANGED vars

InitDeUna ==
    /\ parte \in Partes
    /\ InitCopias
    /\ InitClaves
    /\ InitAjuste
    /\ InitRecomendaciones
    /\ InitAvisos
    /\ InitProveedores
    /\ InitLlamadas
    /\ InitFiabilidad
    /\ Init

NextDeUna ==
    \/ parte = "copias" /\ NextCopias /\ Quietas
    \/ parte = "claves" /\ NextClaves /\ Quietas
    \/ parte = "ajuste" /\ NextAjuste /\ Quietas
    \/ parte = "recomendaciones" /\ NextRecomendaciones /\ Quietas
    \/ parte = "avisos" /\ NextAvisos /\ Quietas
    \/ parte = "proveedores" /\ NextProveedores /\ Quietas
    \/ parte = "llamadas" /\ NextLlamadas /\ Quietas
    \/ parte = "fiabilidad" /\ NextFiabilidad /\ Quietas
    \/ parte = "auditoria" /\ Next /\ Quietas

SpecDeUna == InitDeUna /\ [][NextDeUna]_varsDeTodas

TipoDeTodas ==
    /\ TipoCopias
    /\ TipoClaves
    /\ TipoAjuste
    /\ TipoRecomendaciones
    /\ TipoAvisos
    /\ TipoProveedores
    /\ TipoLlamadas
    /\ TipoFiabilidad
    /\ TypeOK

(* The values of the constants a configuration file cannot write.           *)
EspacioMC == <<<<"t", 1>>, <<"t", 2>>, <<"p", 1>>>>

BaseMC == [c \in {"t", "p"} |-> 1]

RutaMC == <<"d1", "d2">>

NombraMC == [d1 |-> {1}, d2 |-> {1, 2}]

HechosMC == <<"h1">>

(* Processes are interchangeable: each component is given the same two.     *)
SimetriaDeTodas == Permutations(Escritores)

RechazaMC ==
    [grande |-> {"max_tokens", "temperatura", "p"}, chico |-> {"reasoning_effort"}]

ConfiguracionesMC ==
    {[proveedor |-> {"temperatura", "k"}, modelo |-> {"temperatura", "p"}, perfil |-> {}],
     [proveedor |-> {"p"}, modelo |-> {"p"}, perfil |-> {"temperatura", "p"}]}

TextosMC ==
    LET primeras == {<<>>,
            <<<<"fecha", 1>>, <<"hora", 800>>, <<"palabra", "ABC123">>, <<"cifra", "c120">>>>,
            <<<<"corta", 1>>, <<"hora", 800>>, <<"parte", "ABC123">>, <<"palabra", "MAD">>>>,
            <<<<"fecha", 1>>, <<"digitos", 0>>, <<"dentro", "c120">>, <<"palabra", "IB-1234">>>>,
            <<<<"fecha", 1>>, <<"hora", 800>>, <<"fecha", 3>>, <<"hora", 800>>,
              <<"palabra", "IB1234">>>>}
        segundas == {<<<<"hora", 900>>, <<"fecha", 2>>, <<"palabra", "LON">>>>,
                     <<<<"fecha", 4>>, <<"hora", 900>>, <<"palabra", "B-1">>>>}
        tercera == <<<<"fecha", 1>>, <<"hora", 800>>, <<"parte", "null">>, <<"palabra", "Espana">>>>
    IN  {<<p>> : p \in primeras \cup {tercera}} \cup {<<p, q>> : p \in primeras, q \in segundas}

SinEspaciosMC == [w \in {"ABC 123"} |-> "ABC123"]

SinGuionesMC == [w \in {"IB-1234", "B-1"} |-> IF w = "B-1" THEN "B1" ELSE "IB1234"]

AnioMC == <<2026, 2026, 2027, 2025>>

LugaresMC ==
    [MAD |-> {[zona |-> "zm", pais |-> "ES", ciudad |-> "Madrid"]},
     LON |-> {[zona |-> "zl", pais |-> "GB", ciudad |-> "Londres"]},
     Sur |-> {[zona |-> "zm", pais |-> "ES", ciudad |-> "Sur"],
              [zona |-> "zl", pais |-> "GB", ciudad |-> "Sur"]},
     Madrid |-> {[zona |-> "zm", pais |-> "ES", ciudad |-> "Madrid"]},
     Londres |-> {[zona |-> "zl", pais |-> "GB", ciudad |-> "Londres"]}]

ZonaDelPaisMC == [ES |-> "zm", GB |-> "zl"]

CodigoDelPaisMC == [Espana |-> "ES"]

LeidoMC(localizador, importe, lugar, ciudad, pais, desde, hasta, dice) ==
    [campos |-> [localizador |-> localizador,
                 numero |-> IF localizador = "nada" THEN "nada" ELSE "IB1234",
                 importe |-> importe,
                 lugar |-> lugar, destino |-> IF lugar = "nada" THEN "nada" ELSE "LON",
                 ciudad |-> ciudad, pais |-> pais, desde |-> desde, hasta |-> hasta],
     dice |-> dice]

MomentoMC(d, h, z) == [dia |-> d, hora |-> h, zona |-> z, iso |-> d \in 1..3]

NadieMC == MomentoMC(0, SinHora, "nada")

(* The hour 20:26 has the figures of the year 2026.                        *)
LecturasMC ==
    LET sinRotulos(h) ==
            LeidoMC("nada", "nada", "MAD", "nada", "nada", MomentoMC(1, h, "zm"), NadieMC, 90)
        codigos == {LeidoMC(l, i, "MAD", "nada", "nada", MomentoMC(1, 800, "zm"), NadieMC, 90) :
                      l \in {"nada", "ABC123", "ABC 123", "IB1234", "IB-1234", "LON", "B-1"},
                      i \in {"nada", "c120"}}
        horas(lugares, ciudades, paises, llegadas) ==
            {LeidoMC("nada", "nada", lugar, ciudad, pais, desde, hasta, SinDecir) :
               lugar \in lugares, ciudad \in ciudades, pais \in paises,
               desde \in {MomentoMC(1, 800, "zl"), MomentoMC(0, 800, "nada"),
                          MomentoMC(4, 900, "raro"), [MomentoMC(4, 900, "zm") EXCEPT !.iso = TRUE],
                          MomentoMC(1, 800, "nada")},
               hasta \in llegadas}
        unas(ss) == {<<s>> : s \in ss}
        dos(ss) == {<<a, b>> : a, b \in ss}
        llegadas == {NadieMC, MomentoMC(1, 900, "nada"), MomentoMC(2, 900, "zl")}
    IN  [trayecto |-> unas(codigos) \cup unas({sinRotulos(2026), sinRotulos(0)})
                     \cup dos({s \in codigos : s.campos["importe"] = "nada"})
                     \cup unas(horas({"nada", "MAD", "Sur", "Xyz"}, {"nada", "null"}, {"nada"},
                                         llegadas)),
         estancia |-> unas(horas({"nada"}, {"nada", "Londres", "Sur", "Postal", "null"},
                                 {"nada", "ES", "Espana", "raro"}, {MomentoMC(2, 900, "zl")})),
         desconocido |-> unas(horas({"nada"}, {"nada", "Sur"}, {"ES"}, {NadieMC}))]
=============================================================================
