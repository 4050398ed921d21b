----------------------------- MODULE SaleAgreement -----------------------------
(***************************************************************************)
(* What the sale of a service to a prospect promises, whatever the number  *)
(* of requests at work on it:                                              *)
(*   - the prospect has at most one agreement, for a plan that is offered  *)
(*     at the place where it is to be installed;                           *)
(*   - an agreement may be revised until it is signed, never afterwards:   *)
(*     what changes then is the plan in force, to any other plan and       *)
(*     whether it is offered there or not, and the agreement is kept;      *)
(*   - a prospect given up as lost is agreed with only after it was taken  *)
(*     up again, and one with an agreement is never given up.              *)
(***************************************************************************)
CONSTANTS Planes, Ubicaciones, PlanesEn, SinAcuerdo

VARIABLES
    fase,      \* "abierta", "perdida", "contratada" or "firmada"
    acuerdo,   \* the plan agreed and the place it is agreed for
    enVigor    \* the plan the contract has

abstractVars == <<fase, acuerdo, enVigor>>

Ofertas == {a \in [plan : Planes, ubicacion : Ubicaciones] : a.plan \in PlanesEn[a.ubicacion]}

AInit == fase = "abierta" /\ acuerdo = SinAcuerdo /\ enVigor = SinAcuerdo.plan

APerder == fase = "abierta" /\ fase' = "perdida" /\ UNCHANGED <<acuerdo, enVigor>>

AReactivar == fase = "perdida" /\ fase' = "abierta" /\ UNCHANGED <<acuerdo, enVigor>>

\* The first agreement, or the revision of one nobody has signed.
AContratar ==
    /\ fase \in {"abierta", "contratada"}
    /\ fase' = "contratada"
    /\ acuerdo' \in Ofertas
    /\ enVigor' = acuerdo'.plan

AFirmar == fase = "contratada" /\ fase' = "firmada" /\ UNCHANGED <<acuerdo, enVigor>>

ACambiar ==
    /\ fase = "firmada"
    /\ enVigor' \in Planes \ {enVigor}
    /\ UNCHANGED <<fase, acuerdo>>

ANext == APerder \/ AReactivar \/ AContratar \/ AFirmar \/ ACambiar

ASpec == AInit /\ [][ANext]_abstractVars
================================================================================
