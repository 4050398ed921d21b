SPECIFICATION CareSpec
CONSTANTS
  t1 = t1
  t2 = t2
  s1 = s1
  r1 = r1
  n1 = n1
  n2 = n2
  k1 = k1
  k2 = k2
  u1 = u1
  u2 = u2
  Tickets = {t1}
  Solicitudes = {s1}
  Retiros = {r1}
  ConOrden = {}
  Notas = {n1}
  Pedidos = {k1}
  Usuarios = {u1, u2}
SYMMETRY CareSymmetry
PROPERTIES
  RetiroCerradoEsFinal
CHECK_DEADLOCK FALSE
