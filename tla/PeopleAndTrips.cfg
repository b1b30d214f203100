SPECIFICATION SpecDeUna
CONSTANTS
    Creadores = {1, 2}
    Ejercicios = {2025, 2026}
    Base = 3
    MaxDia = 2
    Formularios = {1, 2}
    Encargos <- EncargosMC
    Viajeros = {"ana", "luis"}
    Gestores = {"gil"}
    Admin = "adm"
    Bloqueables = {"ana", "gil"}
    Inbox = "nadie"
    Navegadores = {1, 2}
    MaxIntentos = 2
    MaxEpoca = 2
    MaxSesiones = 1
    Pestanas = {1, 2}
    MaxSecreto = 2
    MaxPaso = 3
    Locales = {"a", "b"}
    DelDirectorio = {"e"}
    Mapeados = {"e"}
    Inicial = "a"
    Peticiones = {1, 2}
    Reservas <- ReservasMC
    Asignaciones = {"v1", "v2"}
    Ciudad <- CiudadMC
    PaisDe <- PaisMC
    Zona <- ZonaMC
    AMano <- AManoMC
    HorasDelDia = 4
    UltimaHora = 12
    MaxReservas = 3
    MaxDestinos = 3
    MaxEdicionesViaje = 4
    Schengen = {"es"}
    ReglasActivas = {"segmentos_solapados", "conexion_margen_insuficiente",
        "llegada_posterior_reserva", "noche_sin_alojamiento", "cambio_zona_horaria",
        "sin_tarjeta_de_embarque", "documento_viajero_por_caducar", "datos_incompletos",
        "sin_documento_soporte", "coste_sobre_politica", "coste_noche_sobre_politica",
        "reserva_con_poca_antelacion"}
    UmbralSchengen = 2
    UmbralInternacional = 3
    UmbralTraslado = 2
    MargenCritico = 1
    ExtraAeropuerto = 2
    ExtraTerminal = 1
    ToleranciaSolape = 0
    ToleranciaLlegada = 0
    UmbralHoras = 2
    HorasAntes = 4
    LimiteViaje = 4
    LimiteNoche = 1
    Antelacion = 2
    Moneda = "eur"
    Caducidad <- CaducidadMC
    DiasExigidos = 2
    DiasAviso = 3
    ExigirLocalizador = TRUE
INVARIANTS
    TipoDeTodas
    NumeracionCorrida
    SeListaLoQueSePuedeVer
    EntradaJusta
    FactorProbado
    CuentasEnOrden
PROPERTIES
    EstadoFundado
    ViajePasadoSeCierra
    PlanificaLoSuyo
    ItinerarioBienLeido
CHECK_DEADLOCK FALSE
