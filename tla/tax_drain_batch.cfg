SPECIFICATION FairSpec
CONSTANTS
    p1 = p1
    p2 = p2
    timer = timer
    w1 = w1
    w2 = w2
    Nadie = Nadie
    Payments <- TwoPayments
    Workers <- TimerAndOne
    Drainer <- timer
    Profiles <- OneProfile
    Documentos <- OneDocument
    SinDocumento = SinDocumento
    LoteMax = 1
    MaxIntentos = 1
    MaxFallas = 1
PROPERTIES
    PendingJobsRecovered
