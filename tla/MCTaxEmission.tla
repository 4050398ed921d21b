---------------------------- MODULE MCTaxEmission ----------------------------
(* Small instances of TaxEmission: payments and invocations as model values. *)
EXTENDS TaxEmission, TLC

CONSTANTS p1, p2, timer, w1, w2

OnePayment == {p1}
TwoPayments == {p1, p2}
TimerAndOne == {timer, w1}
TimerAndTwo == {timer, w1, w2}
TwoProfiles == {"perfilA", "perfilB"}
OneProfile == {"perfilA"}
TwoDocuments == {"documentoA", "documentoB"}
OneDocument == {"documentoA"}

\* The two request threads are interchangeable; the timer's invocation is not.
Requests == Permutations({w1, w2})

--------------------------------------------------------------------------------
(* Two instances in one.  Either p1 is the only payment, with both requests at   *)
(* work on it, or p2 is queued behind it and the timer has company on p1 only.   *)
(* Only what has no fairness is restricted: new payments, repreparations,        *)
(* requests and failures.                                                        *)

EnCola(p) == job[p] # "SIN_COLA"

EnOrden == EnCola(p2)' => EnCola(p1)

\* With p2 queued: one request, which does not repeat an emission; one failure, one
\* document for p2, and the first profile unless p1 is stuck behind its intent.
DosEnCola ==
    EnCola(p2)' =>
        /\ pc'[w2] = "libre"
        /\ pc[w1] = "libre" /\ pc'[w1] # "libre" => pago'[w1] = p1 /\ intentos[p1] = 0
        /\ fallas' <= 1
        /\ perfil' = "perfilA" \/ RehechoTrasIntencion(p1)
        /\ documento'[p2] \in {SinDocumento, "documentoA"}

\* With a document rebuilt otherwise: one request and one failure.
OtroDocumento ==
    (\E p \in Payments : documento'[p] = "documentoB") =>
        /\ pc'[w2] = "libre"
        /\ EnCola(p2)' => pc'[w1] = "libre"
        /\ fallas' <= 1

\* Which profile the process starts with, and which document a payment gets first,
\* makes no difference.
PrimerDocumento ==
    \A p \in Payments :
        ~EnCola(p) /\ EnCola(p)' => documento'[p] \in {SinDocumento, "documentoA"}

MCInit == Init /\ perfil = "perfilA"
MCNext == Next /\ EnOrden /\ DosEnCola /\ OtroDocumento /\ PrimerDocumento
MCFairSpec == MCInit /\ [][MCNext]_vars /\ Fairness
================================================================================
