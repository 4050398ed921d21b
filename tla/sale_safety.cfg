SPECIFICATION FairSpec
CONSTANTS
    u1 = u1
    u2 = u2
    a = a
    b = b
    casa = casa
    campo = campo
    Nadie = Nadie
    SinPlan = SinPlan
    Usuarios = {u1, u2}
    Planes = {a, b}
    Ubicaciones = {casa, campo}
    PlanesEn <- PlanesDe
INVARIANTS
    IInv
PROPERTIES
    ImplementsAgreement
    SolicitudesTerminan
CHECK_DEADLOCK FALSE
