SPECIFICATION Spec
CONSTANTS
    w1 = w1
    w2 = w2
    w3 = w3
    Workers <- TwoWorkers
    MaxIntentos = 2
    MaxFallas = 2
SYMMETRY G1Symmetry
INVARIANTS
    IInv
    OneRequestInFlight
    AutomaticSendsOnce
    AuditTruthful
PROPERTIES
    CompletionIsFinal
    MarkerNeverDemoted
