SPECIFICATION Spec
CONSTANTS
    w1 = w1
    w2 = w2
    Escritores = {w1, w2}
    MaxEventos = 4
    MaxCambios = 2
INVARIANTS
    AlarmaEsManipulacion
SYMMETRY Simetria
CHECK_DEADLOCK FALSE
