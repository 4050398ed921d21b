SPECIFICATION Spec
CONSTANTS
    r1 = r1
    r2 = r2
    w1 = w1
    w2 = w2
    w3 = w3
    c1 = c1
    c2 = c2
    Ninguna = Ninguna
    SinCierre = SinCierre
    Solicitudes <- TwoRequests
    Workers <- TwoWorkers
    Cierres <- TwoClosures
    MaxFallas = 1
SYMMETRY G3Symmetry
INVARIANTS
    PipelineFollowsActivation
CHECK_DEADLOCK FALSE
