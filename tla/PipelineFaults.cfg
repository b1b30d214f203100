SPECIFICATION Spec
CONSTANTS
    o1 = o1
    o2 = o2
    p1 = p1
    Obreros = {o1}
    Peticiones = {p1}
    Operaciones = {"reprocesar", "reprocesar_inicio", "aprobar", "rechazar", "borrar"}
    Fallos = {"almacen", "hash", "borrado", "antivirus", "antivirus_error", "texto", "ia",
              "cola", "web", "tiempo"}
    Veredictos = {"limpio", "infectado"}
    AutoAprobar = TRUE
    MaxReintentos = 1
    MaxCaidas = 2
    MaxPeticiones = 1
INVARIANTS
    FicheroNoSePierde
    DisponibleExiste
PROPERTIES
    SinRepetirTrabajo
CHECK_DEADLOCK FALSE
