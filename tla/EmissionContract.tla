---------------------------- MODULE EmissionContract ----------------------------
(***************************************************************************)
(* What the tax-emission pipeline promises for each payment, whatever the  *)
(* number of workers, crashes and operators:                               *)
(*   - the provider is asked to process a payment at most once;            *)
(*   - "no enviado" is only ever declared of a payment the provider never  *)
(*     received, and only such a payment is reopened;                      *)
(*   - "generado" is only declared of a document the provider issued, and  *)
(*     is final;                                                           *)
(*   - "incierto" is left only by recognising the issued document.         *)
(***************************************************************************)
EXTENDS Naturals

CONSTANT Payments

VARIABLES
    envios,      \* processing requests the provider received, per payment
    emitidos,    \* payments whose document the provider issued
    veredicto    \* what the CRM declares of the payment's emission

abstractVars == <<envios, emitidos, veredicto>>

AInit ==
    /\ envios = [p \in Payments |-> 0]
    /\ emitidos = {}
    /\ veredicto = [p \in Payments |-> "abierto"]

\* The one hand-over of the document; the provider may or may not issue it.
AEnviar(p) ==
    /\ envios[p] = 0
    /\ veredicto[p] \in {"abierto", "incierto"}
    /\ envios' = [envios EXCEPT ![p] = 1]
    /\ emitidos' \in {emitidos, emitidos \cup {p}}
    /\ UNCHANGED veredicto

\* The issued document is recognised, by the response or by an operator.
AGenerar(p) ==
    /\ veredicto[p] \in {"abierto", "incierto"}
    /\ p \in emitidos
    /\ veredicto' = [veredicto EXCEPT ![p] = "generado"]
    /\ UNCHANGED <<envios, emitidos>>

\* The outcome is unknown: nobody may hand the document over again.
ADudar(p) ==
    /\ veredicto[p] = "abierto"
    /\ veredicto' = [veredicto EXCEPT ![p] = "incierto"]
    /\ UNCHANGED <<envios, emitidos>>

\* A failure that is certainly previous to the hand-over.
AFallar(p) ==
    /\ veredicto[p] = "abierto"
    /\ envios[p] = 0
    /\ veredicto' = [veredicto EXCEPT ![p] = "no_enviado"]
    /\ UNCHANGED <<envios, emitidos>>

\* An explicit retry of a confirmed failure.
AReabrir(p) ==
    /\ veredicto[p] = "no_enviado"
    /\ veredicto' = [veredicto EXCEPT ![p] = "abierto"]
    /\ UNCHANGED <<envios, emitidos>>

ANext ==
    \E p \in Payments :
        \/ AEnviar(p) \/ AGenerar(p) \/ ADudar(p) \/ AFallar(p) \/ AReabrir(p)

ASpec == AInit /\ [][ANext]_abstractVars
================================================================================
