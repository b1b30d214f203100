SPECIFICATION FairSpec
CONSTANTS
    o1 = o1
    o2 = o2
    p1 = p1
    Obreros = {o1, o2}
    Peticiones = {p1}
    Operaciones = {"reprocesar", "reprocesar_inicio"}
    Fallos = {"antivirus_error", "texto"}
    Veredictos = {"limpio"}
    AutoAprobar = FALSE
    MaxReintentos = 1
    MaxCaidas = 1
    MaxPeticiones = 1
INVARIANTS
    NadaAMedias
PROPERTIES
    AcabaAsentado
CHECK_DEADLOCK FALSE
