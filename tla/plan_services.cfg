SPECIFICATION Spec
CONSTANTS
  u1 = u1
  u2 = u2
  c1 = c1
  c2 = c2
  a = a
  b = b
  Usuarios = {u1}
  Contratos = {c1, c2}
  Planes = {a, b}
  PlanInicial <- PlanesFirmados
  Lote = 1
  MaxCambios = 3
  MaxDia = 2
INVARIANT ServicioSigueAlPlan
CHECK_DEADLOCK FALSE
