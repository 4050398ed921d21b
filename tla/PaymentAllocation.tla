--------------------------- MODULE PaymentAllocation ---------------------------
(***************************************************************************)
(* What the ledger of allocations promises: at any time a part of each     *)
(* payment stands against each installment.  A part is put there or taken  *)
(* back, one payment at a time, never beyond the payment or the            *)
(* installment and never below nothing.                                    *)
(***************************************************************************)
EXTENDS Integers, FiniteSetsExt

CONSTANTS Pagos, Cuotas, MontoPago, MontoCuota

VARIABLE imputado   \* imputado[p][q]: the part of payment p against installment q

Posible(m) ==
    /\ \A p \in Pagos, q \in Cuotas : m[p][q] >= 0
    /\ \A p \in Pagos : SumFunction(m[p]) <= MontoPago[p]
    /\ \A q \in Cuotas : SumFunction([p \in Pagos |-> m[p][q]]) <= MontoCuota[q]

Init == imputado = [p \in Pagos |-> [q \in Cuotas |-> 0]]

\* Payment p gives a part to some installments.
Imputar(p) ==
    /\ \A q \in Cuotas : imputado'[p][q] >= imputado[p][q]
    /\ \A o \in Pagos \ {p} : imputado'[o] = imputado[o]

\* Payment p takes back a part of what one installment has of it.
Reversar(p, q) ==
    /\ imputado'[p][q] < imputado[p][q]
    /\ \A s \in Cuotas \ {q} : imputado'[p][s] = imputado[p][s]
    /\ \A o \in Pagos \ {p} : imputado'[o] = imputado[o]

Next ==
    /\ imputado' # imputado
    /\ \/ \E p \in Pagos : Imputar(p)
       \/ \E p \in Pagos, q \in Cuotas : Reversar(p, q)
    /\ Posible(imputado')

Spec == Init /\ [][Next]_imputado
================================================================================
