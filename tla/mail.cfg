SPECIFICATION FairSpec
CONSTANTS
  timer = timer
  w1 = w1
  w2 = w2
  url1 = url1
  url2 = url2
  Workers = {timer, w1}
  Drainer = timer
  Enlaces = {url1}
  SinEnlace = SinEnlace
  MaxIntentos = 4
  MaxFallas = 1
  OperadorEspera = TRUE
  PdfPuntual = TRUE
INVARIANTS
  IInv
  ReintentoPosible
PROPERTIES
  ResultadoFinal
  EntregaSeResuelve
CHECK_DEADLOCK FALSE
