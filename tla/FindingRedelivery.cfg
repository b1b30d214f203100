SPECIFICATION Spec
CONSTANTS
    o1 = o1
    o2 = o2
    p1 = p1
    Obreros = {o1}
    Peticiones = {p1}
    Operaciones = {}
    Fallos = {}
    Veredictos = {"limpio"}
    AutoAprobar = FALSE
    MaxReintentos = 3
    MaxCaidas = 1
    MaxPeticiones = 0
INVARIANTS
    ReentregaInocua
CHECK_DEADLOCK FALSE
