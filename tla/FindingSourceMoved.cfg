SPECIFICATION SpecRecomendaciones
CONSTANTS
    Ruta <- UnDestino
    Fuentes = {1}
    Nombra <- UnaPagina
    Generadores = {"web", "noche"}
    Noche = "noche"
    MaxRondas = 2
    MaxVersion = 3
    MaxSucesos = 2
INVARIANTS
    CadaCambioSeCuenta
CHECK_DEADLOCK FALSE
