-------------------------- MODULE MCBillingLifecycle --------------------------
(* Small instances of BillingLifecycle. *)
EXTENDS BillingLifecycle, TLC

CONSTANTS w1, w2, f1, f2, c1, c2, s1, s2, k1, e1, e2, ninguno

\* Invocations are interchangeable.
BillingSymmetry == Permutations({w1, w2})

\* One invoice per contract; the second one is due a day later.
FacturaDe == f1 :> c1 @@ f2 :> c2
UnaFactura == f1 :> c1
UnMonto == f1 :> 1
UnVencimiento == f1 :> 0
DosMontos == f1 :> 2 @@ f2 :> 1
DosVencimientos == f1 :> 0 @@ f2 :> 0

\* Both services under one contract, or one under each.
ServiciosJuntos == s1 :> c1 @@ s2 :> c1
ServiciosAparte == s1 :> c1 @@ s2 :> c2
UnServicio == s1 :> c1

\* The customer's company has both contracts, or one of them.
UnaEmpresa == c1 :> e1 @@ c2 :> e1
DosEmpresas == c1 :> e1 @@ c2 :> e2
UnContrato == c1 :> e1
===============================================================================
