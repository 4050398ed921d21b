--------------------------- MODULE CustomerAccount ---------------------------
(***************************************************************************)
(* What billing promises about the invoices of one customer: the debt of   *)
(* an open invoice only shrinks, by one payment at a time and never below  *)
(* zero, and an invoice closes exactly with the payment that settles it.   *)
(* BillingLifecycle implements it.                                         *)
(***************************************************************************)
EXTENDS Naturals

CONSTANT Facturas

VARIABLES
    deuda,      \* per invoice, what is still owed
    cerrada     \* per invoice, whether it accepts no more payments

vars == <<deuda, cerrada>>

Init ==
    /\ deuda \in [Facturas -> Nat]
    /\ cerrada \in [Facturas -> BOOLEAN]

\* A payment of m on the open invoice f.
Abonar(f, m) ==
    /\ ~cerrada[f]
    /\ deuda' = [deuda EXCEPT ![f] = @ - m]
    /\ cerrada' = [cerrada EXCEPT ![f] = (m = deuda[f])]

Next == \E f \in Facturas : \E m \in 1..deuda[f] : Abonar(f, m)

Spec == Init /\ [][Next]_vars
==============================================================================
