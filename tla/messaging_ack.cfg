SPECIFICATION Spec
CONSTANTS
  m1 = m1
  m2 = m2
  w1 = w1
  w2 = w2
  a1 = a1
  a2 = a2
  Mensajes = {m1}
  Alterados = {}
  Trabajadores = {w1, w2}
  Avisos = {a1}
INVARIANTS
  EntregaNoSePierde
CHECK_DEADLOCK FALSE
