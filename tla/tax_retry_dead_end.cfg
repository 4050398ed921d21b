SPECIFICATION Spec
CONSTANTS
    p1 = p1
    p2 = p2
    timer = timer
    w1 = w1
    w2 = w2
    Nadie = Nadie
    Payments <- OnePayment
    Workers <- TimerAndTwo
    Drainer <- timer
    Profiles <- TwoProfiles
    Documentos <- OneDocument
    SinDocumento = SinDocumento
    LoteMax = 1
    MaxIntentos = 2
    MaxFallas = 2
SYMMETRY Requests
INVARIANTS
    ConfirmedFailureStaysRetryable
