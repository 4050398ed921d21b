SPECIFICATION Spec
CONSTANTS
    w1 = w1
    w2 = w2
    f1 = f1
    f2 = f2
    c1 = c1
    c2 = c2
    s1 = s1
    s2 = s2
    k1 = k1
    e1 = e1
    e2 = e2
    ninguno = ninguno
    Facturas = {f1, f2}
    Contratos = {c1, c2}
    Servicios = {s1}
    Codigos = {k1}
    SinCodigo = ninguno
    Empresas = {e1}
    Invocaciones = {w1, w2}
    ContratoDe <- FacturaDe
    ContratoServicio <- UnServicio
    EmpresaDe <- UnaEmpresa
    EmpresaCliente = e1
    Monto <- DosMontos
    Vence <- DosVencimientos
    Montos = {1}
    DiasCorte = 1
    MaxIntentos = 1
    MaxDia = 1
SYMMETRY BillingSymmetry
INVARIANTS
    IInv
    AnswersAreRegistered
PROPERTIES
    SanctionJustified
    ReactivationJustified
    CustomerClearedWithContracts
    ImplementsAccount
