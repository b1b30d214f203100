SPECIFICATION SpecDeUna
CONSTANTS
    Docs = {"x"}
    Trabajos = {1, 2}
    Solicitudes = {w1, w2}
    Columnas = {"mfa"}
    Ajustes = {"ldap"}
    MaxClave = 3
    MaxValor = 2
    Espacio <- EspacioMC
    Base <- BaseMC
    Presupuesto = 2
    Pasos = {w1, w2}
    MaxFicha = 3
    Ruta <- RutaMC
    Fuentes = {1, 2}
    Nombra <- NombraMC
    Generadores = {"web", "noche"}
    Noche = "noche"
    MaxRondas = 2
    MaxVersion = 2
    MaxSucesos = 2
    Hechos <- HechosMC
    Interesados = {"gil", "ana"}
    SinBuzon = {"ana"}
    Narradores = {w1, w2}
    Carteros = {w1, w2}
    Limite = 1
    MaxCorreos = 2
    MaxAverias = 1
    Escritores = {w1, w2}
    MaxEventos = 4
    MaxCambios = 2
    MaxProveedores = 3
    Encargos = {"extraer"}
    Administradores = {w1, w2}
    Llamadas = {w1, w2}
    Modelos = {"grande", "chico"}
    Opcionales = {"p", "k"}
    SinEquivalente = {"k"}
    Rechaza <- RechazaMC
    Configuraciones <- ConfiguracionesMC
    MaxCorrecciones = 3
    MaxConmutaciones = 1
    Textos <- TextosMC
    Lecturas <- LecturasMC
    Anio <- AnioMC
    Lugares <- LugaresMC
    ZonaDelPais <- ZonaDelPaisMC
    CodigoDelPais <- CodigoDelPaisMC
    ZonasValidas = {"zm", "zl", "zc"}
    ZonaPorDefecto = "zc"
    SinEspacios <- SinEspaciosMC
    SinGuiones <- SinGuionesMC
    Regulares = {"ABC123", "IB1234"}
    Postales = {"Postal"}
    Breves = {"ES", "GB", "B-1"}
    MaxPuntos = 26
    MaxTexto = 6
    Ventana = 2
SYMMETRY SimetriaDeTodas
INVARIANTS
    LlamadaEnOrden
    TipoDeTodas
    RespaldoFiable
    SecretosEnPie
    BusquedaEntera
    UnaSolaGeneracion
    AvisosEnteros
    EnlaceConfirmado
    SenalaElHueco
PROPERTIES
    CambiaSoloLoPedido
    LecturaRespaldada
    TodoDestinoDice
CHECK_DEADLOCK FALSE
