------------------------- MODULE MCInstallmentLedger --------------------------
\* One agreement of two installments, and two payments of different days.
EXTENDS InstallmentLedger, TLC

CONSTANTS w1, w2, c1, q1, q2, p1, p2, k1, k2, k3

Agreements == [q \in {q1, q2} |-> c1]
MontosCuota == q1 :> 1 @@ q2 :> 2
MontosPago == p1 :> 2 @@ p2 :> 1
DiasPago == p1 :> 1 @@ p2 :> 2
Symmetry == Permutations({w1, w2}) \cup Permutations({k1, k2, k3})
================================================================================
