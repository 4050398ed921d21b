SPECIFICATION LedgerSpec
CONSTANTS
  w1 = w1
  w2 = w2
  c1 = c1
  q1 = q1
  q2 = q2
  p1 = p1
  p2 = p2
  k1 = k1
  k2 = k2
  k3 = k3
  Invocaciones = {w1, w2}
  Convenios = {c1}
  Cuotas = {q1, q2}
  ConvenioDe <- Agreements
  MontoCuota <- MontosCuota
  Pagos = {p1, p2}
  MontoPago <- MontosPago
  DiaPago <- DiasPago
  Claves = {k1, k2, k3}
  MaxOperaciones = 3
  MaxMonto = 2
SYMMETRY Symmetry
INVARIANTS
  LedgerInv
PROPERTIES
  ImplementsAllocation
CHECK_DEADLOCK FALSE
