SPECIFICATION Spec
CONSTANTS
    billete = billete
    talon = talon
    s1 = s1
    s2 = s2
    x = x
    y = y
    Documentos = {billete, talon}
    Talones = {talon}
    Sesiones = {s1, s2}
    Valores = {x, y}
    Lecturas <- LecturasMC
    MaxServicios = 1
    MaxFilas = 2
    MaxVersiones = 3
    MaxPeticiones = 3
    MaxTareas = 1
    MaxALaVez = 3
    AutoAprobar = TRUE
INVARIANTS
    TypeOK
    UnaVigente
    SinDuplicados
    TalonYConfirmacion
    ProcedenciaConcuerda
SYMMETRY Simetria
CHECK_DEADLOCK FALSE
