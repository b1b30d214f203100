SPECIFICATION FairSpec
CONSTANTS
    k1 = k1
    c1 = c1
    c2 = c2
    p1 = p1
    Claves = {k1}
    Corredores = {c1, c2}
    Personas = {p1}
    MaxEdiciones = 2
    MaxDecisiones = 2
    MaxFallos = 1
INVARIANTS
    AlDiaSinPendientes
    DecisionRespetada
    HistorialConcuerda
PROPERTIES
    AcabaAlDia
CHECK_DEADLOCK FALSE
