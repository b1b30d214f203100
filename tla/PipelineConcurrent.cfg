SPECIFICATION Spec
CONSTANTS
    o1 = o1
    o2 = o2
    p1 = p1
    Obreros = {o1, o2}
    Peticiones = {p1}
    Operaciones = {"reprocesar", "reprocesar_inicio", "aprobar", "rechazar"}
    Fallos = {"almacen", "antivirus_error", "ia"}
    Veredictos = {"limpio", "infectado"}
    AutoAprobar = TRUE
    MaxReintentos = 1
    MaxCaidas = 1
    MaxPeticiones = 1
INVARIANTS
    SoloLimpioAlmacenado
    HistorialSinSaltos
    ReanudaConInsumos
PROPERTIES
    CumpleCustodia
SYMMETRY Simetria
CHECK_DEADLOCK FALSE
