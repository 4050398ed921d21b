SPECIFICATION Spec
CONSTANTS
    w1 = w1
    w2 = w2
    w3 = w3
    Workers <- TwoWorkers
    MaxIntentos = 2
    MaxFallas = 1
SYMMETRY G1Symmetry
PROPERTIES
    OutcomeAuditedBeforeReplaced
