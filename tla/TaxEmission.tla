------------------------------ MODULE TaxEmission ------------------------------
(***************************************************************************)
(* Emission of one tax document per payment (facturacion.cl).              *)
(*                                                                         *)
(* Billing enqueues a TaxPaymentJob inside the payment's transaction.      *)
(* After the commit the request that registered the payment, the 15-second *)
(* drain and the operator's explicit retry all call processPayment, which  *)
(* walks one TaxEmissionIntent row through claim, check, authentication,   *)
(* durable send marker, one POST /wsds/procesar and completion.  Every     *)
(* await of the code is a step boundary here: other invocations, the stale *)
(* quarantine, operators and a process crash may come between any two.     *)
(*                                                                         *)
(* One company and one environment.  The company is enabled and its        *)
(* credentials are ready while the process runs (a company that is not     *)
(* makes every step return without effect); its fiscal profile is an       *)
(* opaque value that a restart of the process may change.                  *)
(***************************************************************************)
EXTENDS Naturals, FiniteSets

CONSTANTS
    Payments,      \* idPago
    Nadie,         \* the payment of an idle invocation
    Workers,       \* concurrent invocations of processPayment
    Drainer,       \* the invocation the interval timer drives (draining flag)
    Profiles,      \* fiscal profiles, identified by their hash
    Documentos,    \* contents a payment's document may have, identified by their fingerprint
    SinDocumento,  \* no document
    LoteMax,       \* jobs taken per drain (take: 10)
    MaxIntentos,   \* bound: request invocations start below this many claims
    MaxFallas      \* bound: aborted invocations and process restarts

ASSUME TaxConstants ==
    /\ Nadie \notin Payments
    /\ Drainer \in Workers
    /\ SinDocumento \notin Documentos
    /\ LoteMax \in Nat \ {0}
    /\ MaxIntentos \in Nat
    /\ MaxFallas \in Nat

VARIABLES
    job,        \* tax_payment_job.estado
    hash,       \* tax_payment_job.profile_hash
    documento,  \* tax_payment_job.documento
    antes,      \* fecha_creacion: the jobs created before this one
    perfil,     \* configured profile of the running process
    lote,       \* what is left of the drain's current batch
    estado,     \* tax_emission_intent.estado, "NINGUNA" without a row
    huella,     \* tax_emission_intent.fingerprint
    intentos,   \* tax_emission_intent.intentos
    enviado,    \* tax_emission_intent.fecha_envio is set
    pc,         \* next step of the invocation
    pago,       \* its payment
    explicito,  \* it is an explicit retry
    leido,      \* the document of the job it read
    claim,      \* the claimId it generated
    res,        \* the outcome it is about to write or return
    posts,      \* history: POST /wsds/procesar handed to the provider
    emitidos,   \* history: payments whose document the provider issued
    fallas      \* history: failures so far

colaVars == <<job, hash, documento, antes, perfil, lote>>
fila == <<estado, huella, intentos, enviado>>
invocacion == <<pc, pago, explicito, leido, claim, res>>
proveedor == <<posts, emitidos>>
vars == <<colaVars, fila, invocacion, proveedor, fallas>>

JobStates == {"SIN_COLA", "PENDIENTE", "PROCESADO", "DATOS_REQUERIDOS"}
Terminal == {"GENERADO", "FALLIDO", "RESULTADO_INDETERMINADO"}
IntentStates == Terminal \cup {"NINGUNA", "PENDIENTE", "EN_PROCESO"}
Pasos == {"libre", "leer", "bloquear", "previa", "preparar", "reclamar", "verificar",
          "autenticar", "marcar", "enviar", "terminar", "consultar", "cerrar"}

\* claimId is a fresh UUID written together with the increment of intentos; the
\* attempt number, unique among the claims of a row, stands for it.  FALLIDO is
\* only written together with CONFIRMED_NOT_SENT: ultimo_error follows from estado.
claimId(p) == intentos[p]

ColaTypeOK ==
    /\ job \in [Payments -> JobStates]
    /\ hash \in [Payments -> Profiles]
    /\ documento \in [Payments -> Documentos \cup {SinDocumento}]
    /\ antes \in [Payments -> SUBSET Payments]
    /\ perfil \in Profiles
    /\ lote \in SUBSET Payments

FilaTypeOK ==
    /\ estado \in [Payments -> IntentStates]
    /\ huella \in [Payments -> Documentos \cup {SinDocumento}]
    /\ intentos \in [Payments -> Nat]
    /\ enviado \in [Payments -> BOOLEAN]

InvocacionTypeOK ==
    /\ pc \in [Workers -> Pasos]
    /\ pago \in [Workers -> Payments \cup {Nadie}]
    /\ explicito \in [Workers -> BOOLEAN]
    /\ leido \in [Workers -> Documentos \cup {SinDocumento}]
    /\ claim \in [Workers -> Nat]
    /\ res \in [Workers -> Terminal \cup {"NINGUNA"}]
    /\ \A w \in Workers : pc[w] # "libre" => pago[w] \in Payments
    /\ \A w \in Workers : pc[w] = "terminar" => res[w] \in Terminal

TypeOK ==
    /\ ColaTypeOK
    /\ FilaTypeOK
    /\ InvocacionTypeOK
    /\ posts \in [Payments -> Nat]
    /\ emitidos \in SUBSET Payments
    /\ fallas \in Nat

\* Every invocation is idle: at start-up and after a crash.
SinInvocaciones(pcs, pagos, explicitos, leidos, claims, ress) ==
    /\ pcs = [w \in Workers |-> "libre"]
    /\ pagos = [w \in Workers |-> Nadie]
    /\ explicitos = [w \in Workers |-> FALSE]
    /\ leidos = [w \in Workers |-> SinDocumento]
    /\ claims = [w \in Workers |-> 0]
    /\ ress = [w \in Workers |-> "NINGUNA"]

Init ==
    /\ job = [p \in Payments |-> "SIN_COLA"]
    /\ perfil \in Profiles
    /\ hash = [p \in Payments |-> perfil]
    /\ documento = [p \in Payments |-> SinDocumento]
    /\ antes = [p \in Payments |-> {}]
    /\ lote = {}
    /\ estado = [p \in Payments |-> "NINGUNA"]
    /\ huella = [p \in Payments |-> SinDocumento]
    /\ intentos = [p \in Payments |-> 0]
    /\ enviado = [p \in Payments |-> FALSE]
    /\ SinInvocaciones(pc, pago, explicito, leido, claim, res)
    /\ posts = [p \in Payments |-> 0]
    /\ emitidos = {}
    /\ fallas = 0

-----------------------------------------------------------------------------
(* The queue: billing's transaction, the callers of processPayment and the  *)
(* operators' corrections.                                                   *)

\* enqueuePayment, in the payment's transaction: the document is built (PENDIENTE)
\* or its fiscal data are missing (DATOS_REQUERIDOS).
EnqueuePayment(p) ==
    /\ job[p] = "SIN_COLA"
    /\ \/ /\ job' = [job EXCEPT ![p] = "PENDIENTE"]
          /\ \E d \in Documentos : documento' = [documento EXCEPT ![p] = d]
       \/ /\ job' = [job EXCEPT ![p] = "DATOS_REQUERIDOS"]
          /\ UNCHANGED documento
    /\ hash' = [hash EXCEPT ![p] = perfil]
    /\ antes' = [antes EXCEPT ![p] = {q \in Payments : job[q] # "SIN_COLA"}]
    /\ UNCHANGED <<perfil, lote, fila, invocacion, proveedor, fallas>>

\* An invocation begins on payment p.
Invocar(w, p, explicita) ==
    /\ pc[w] = "libre"
    /\ pc' = [pc EXCEPT ![w] = "leer"]
    /\ pago' = [pago EXCEPT ![w] = p]
    /\ explicito' = [explicito EXCEPT ![w] = explicita]
    /\ UNCHANGED <<leido, claim, res>>

\* processPayment called by registerPayment after its commit, and again by every
\* replay of the same transaction code.
AvisoPostCommit(w, p) ==
    /\ w # Drainer
    /\ job[p] # "SIN_COLA"
    /\ intentos[p] < MaxIntentos
    /\ Invocar(w, p, FALSE)
    /\ UNCHANGED <<colaVars, fila, proveedor, fallas>>

\* The oldest LoteMax jobs that are PENDIENTE.
Pendientes == {p \in Payments : job[p] = "PENDIENTE"}
LoteSiguiente == {p \in Pendientes : Cardinality(antes[p] \cap Pendientes) < LoteMax}

\* drain: one at a time per process, over a list read once, oldest job first.
Drenar ==
    /\ lote = {}
    /\ pc[Drainer] = "libre"
    /\ lote' = LoteSiguiente
    /\ UNCHANGED <<job, hash, documento, antes, perfil, fila, invocacion, proveedor, fallas>>

DrenarSiguiente(p) ==
    /\ p \in lote
    /\ antes[p] \cap lote = {}
    /\ Invocar(Drainer, p, FALSE)
    /\ lote' = lote \ {p}
    /\ UNCHANGED <<job, hash, documento, antes, perfil, fila, proveedor, fallas>>

\* retryPayment: the operator sees a confirmed failure and asks again.
RetryPayment(w, p) ==
    /\ w # Drainer
    /\ estado[p] = "FALLIDO"
    /\ intentos[p] < MaxIntentos
    /\ Invocar(w, p, TRUE)
    /\ UNCHANGED <<colaVars, fila, proveedor, fallas>>

\* repreparePayment: rebuild a blocked job that has no intent yet, from the data of
\* today: its document may come out another one.
RepreparePayment(p) ==
    /\ job[p] = "DATOS_REQUERIDOS"
    /\ estado[p] = "NINGUNA"
    /\ job' = [job EXCEPT ![p] = "PENDIENTE"]
    /\ hash' = [hash EXCEPT ![p] = perfil]
    /\ \E d \in Documentos : documento' = [documento EXCEPT ![p] = d]
    /\ UNCHANGED <<antes, perfil, lote, fila, invocacion, proveedor, fallas>>

-----------------------------------------------------------------------------
(* processPayment and TaxEmissionIntentService.execute, await by await.      *)

Avanzar(w, paso) ==
    /\ pc' = [pc EXCEPT ![w] = paso]
    /\ UNCHANGED <<pago, explicito, leido, claim, res>>

Resultado(w, paso, resultado) ==
    /\ pc' = [pc EXCEPT ![w] = paso]
    /\ res' = [res EXCEPT ![w] = resultado]
    /\ UNCHANGED <<pago, explicito, leido, claim>>

Salir(w) ==
    /\ pc' = [pc EXCEPT ![w] = "libre"]
    /\ pago' = [pago EXCEPT ![w] = Nadie]
    /\ explicito' = [explicito EXCEPT ![w] = FALSE]
    /\ leido' = [leido EXCEPT ![w] = SinDocumento]
    /\ claim' = [claim EXCEPT ![w] = 0]
    /\ res' = [res EXCEPT ![w] = "NINGUNA"]

\* The job's document goes with the invocation from here on (a snapshot).
Preparable(w) ==
    /\ pc' = [pc EXCEPT ![w] = "previa"]
    /\ leido' = [leido EXCEPT ![w] = documento[pago[w]]]
    /\ UNCHANGED <<pago, explicito, claim, res>>

\* The job is read: blocked for its fiscal data it ends the call, and with another
\* profile than the configured one it is to be blocked.
LeerTrabajo(w) ==
    LET p == pago[w] IN
    /\ pc[w] = "leer"
    /\ \/ job[p] = "DATOS_REQUERIDOS" /\ Salir(w)
       \/ job[p] # "DATOS_REQUERIDOS" /\ hash[p] # perfil /\ Avanzar(w, "bloquear")
       \/ job[p] # "DATOS_REQUERIDOS" /\ hash[p] = perfil /\ Preparable(w)
    /\ UNCHANGED <<colaVars, fila, proveedor, fallas>>

\* CONFIGURATION_CHANGED, whatever the job's intent and whatever it became meanwhile.
BloquearTrabajo(w) ==
    /\ pc[w] = "bloquear"
    /\ job' = [job EXCEPT ![pago[w]] = "DATOS_REQUERIDOS"]
    /\ Salir(w)
    /\ UNCHANGED <<hash, documento, antes, perfil, lote, fila, proveedor, fallas>>

\* The existing intent is read: only an explicit retry goes on after a failure.
LeerIntencion(w) ==
    /\ pc[w] = "previa"
    /\ IF estado[pago[w]] = "FALLIDO" /\ ~explicito[w]
       THEN Salir(w)
       ELSE Avanzar(w, "preparar")
    /\ UNCHANGED <<colaVars, fila, proveedor, fallas>>

\* TAX_INTENT_CONTENT_CONFLICT unless the intent is new or of this document.
MismoContenido(w) == estado[pago[w]] = "NINGUNA" \/ huella[pago[w]] = leido[w]

\* store.prepare (upsert without update), and the tests on what it read: the content,
\* whose conflict ends the invocation, and the eligibility.
Preparar(w) ==
    LET p == pago[w] IN
    /\ pc[w] = "preparar"
    /\ \/ /\ MismoContenido(w)
          /\ estado[p] \in {"NINGUNA", "PENDIENTE", "FALLIDO"}
          /\ Avanzar(w, "reclamar")
       \/ /\ MismoContenido(w)
          /\ estado[p] \in {"GENERADO", "RESULTADO_INDETERMINADO"}
          /\ Resultado(w, "cerrar", estado[p])
       \/ /\ ~MismoContenido(w) \/ estado[p] = "EN_PROCESO"
          /\ Salir(w)
    /\ estado' = [estado EXCEPT ![p] = IF @ = "NINGUNA" THEN "PENDIENTE" ELSE @]
    /\ huella' = [huella EXCEPT ![p] = IF estado[p] = "NINGUNA" THEN leido[w] ELSE @]
    /\ UNCHANGED <<colaVars, intentos, enviado, proveedor, fallas>>

\* Mutant: the claim takes an uncertain intent again.
ReclamableIncierto(p) ==
    \/ estado[p] = "PENDIENTE" /\ intentos[p] = 0
    \/ estado[p] \in {"FALLIDO", "RESULTADO_INDETERMINADO"}

Reclamable(p) ==
    /\ ~enviado[p]
    /\ \/ estado[p] = "PENDIENTE" /\ intentos[p] = 0
       \/ estado[p] = "FALLIDO"

\* store.claim: one conditional update decides which invocation goes on.
Reclamar(w) ==
    LET p == pago[w] IN
    /\ pc[w] = "reclamar"
    /\ \/ /\ Reclamable(p)
          /\ estado' = [estado EXCEPT ![p] = "EN_PROCESO"]
          /\ intentos' = [intentos EXCEPT ![p] = @ + 1]
          /\ claim' = [claim EXCEPT ![w] = intentos[p] + 1]
          /\ pc' = [pc EXCEPT ![w] = "verificar"]
          /\ UNCHANGED <<pago, explicito, leido, res>>
       \/ /\ ~Reclamable(p)
          /\ Avanzar(w, "consultar")
          /\ UNCHANGED <<estado, intentos>>
    /\ UNCHANGED <<colaVars, huella, enviado, proveedor, fallas>>

MiReclamo(w) == estado[pago[w]] = "EN_PROCESO" /\ claimId(pago[w]) = claim[w]

\* dispatch re-reads the row and goes on only while it holds the claim; a document
\* that the issuance contract does not cover fails here as well.
VerificarReclamo(w) ==
    /\ pc[w] = "verificar"
    /\ \/ MiReclamo(w) /\ Avanzar(w, "autenticar")
       \/ Resultado(w, "terminar", "FALLIDO")
    /\ UNCHANGED <<colaVars, fila, proveedor, fallas>>

\* Authentication: a read error is certainly previous to the send, any other is not.
Autenticar(w) ==
    /\ pc[w] = "autenticar"
    /\ \/ Avanzar(w, "marcar")
       \/ Resultado(w, "terminar", "FALLIDO")
       \/ Resultado(w, "terminar", "RESULTADO_INDETERMINADO")
    /\ UNCHANGED <<colaVars, fila, proveedor, fallas>>

\* Mutant: the marker is written without the claim.
MarcarSinReclamo(w) ==
    LET p == pago[w] IN
    /\ pc[w] = "marcar"
    /\ \/ /\ ~enviado[p]
          /\ enviado' = [enviado EXCEPT ![p] = TRUE]
          /\ Avanzar(w, "enviar")
       \/ /\ enviado[p]
          /\ Resultado(w, "terminar", "RESULTADO_INDETERMINADO")
          /\ UNCHANGED enviado
    /\ UNCHANGED <<colaVars, estado, huella, intentos, proveedor, fallas>>

\* store.beginDispatch: the one-way marker.  Its answer may be lost after the write.
MarcarEnvio(w) ==
    LET p == pago[w] IN
    /\ pc[w] = "marcar"
    /\ \/ /\ MiReclamo(w) /\ ~enviado[p]
          /\ enviado' = [enviado EXCEPT ![p] = TRUE]
          /\ Avanzar(w, "enviar") \/ Resultado(w, "terminar", "RESULTADO_INDETERMINADO")
       \/ /\ ~(MiReclamo(w) /\ ~enviado[p])
          /\ Resultado(w, "terminar", "RESULTADO_INDETERMINADO")
          /\ UNCHANGED enviado
    /\ UNCHANGED <<colaVars, estado, huella, intentos, proveedor, fallas>>

\* Mutant: an error of the POST counts as a confirmed failure.
EnviarErrorFallido(w) ==
    LET p == pago[w] IN
    /\ pc[w] = "enviar"
    /\ posts' = [posts EXCEPT ![p] = @ + 1]
    /\ \/ emitidos' = emitidos \cup {p} /\ Resultado(w, "terminar", "GENERADO")
       \/ emitidos' \in {emitidos, emitidos \cup {p}} /\ Resultado(w, "terminar", "FALLIDO")
    /\ UNCHANGED <<colaVars, fila, fallas>>

\* POST /wsds/procesar.  Only a well-formed answer for the expected folio and type
\* counts as GENERADO; every other outcome is uncertain, issued or not.
Enviar(w) ==
    LET p == pago[w] IN
    /\ pc[w] = "enviar"
    /\ posts' = [posts EXCEPT ![p] = @ + 1]
    /\ \/ /\ emitidos' = emitidos \cup {p}
          /\ Resultado(w, "terminar", "GENERADO")
       \/ /\ emitidos' \in {emitidos, emitidos \cup {p}}
          /\ Resultado(w, "terminar", "RESULTADO_INDETERMINADO")
    /\ UNCHANGED <<colaVars, fila, fallas>>

\* store.finish: a completion that lost its claim is a conflict and writes nothing.
Terminar(w) ==
    /\ pc[w] = "terminar"
    /\ \/ /\ MiReclamo(w)
          /\ estado' = [estado EXCEPT ![pago[w]] = res[w]]
          /\ Avanzar(w, "consultar")
       \/ /\ ~MiReclamo(w)
          /\ Salir(w)
          /\ UNCHANGED estado
    /\ UNCHANGED <<colaVars, huella, intentos, enviado, proveedor, fallas>>

\* store.find, whose answer decides whether the job is closed.
Consultar(w) ==
    /\ pc[w] = "consultar"
    /\ IF estado[pago[w]] \in Terminal
       THEN Resultado(w, "cerrar", estado[pago[w]])
       ELSE Salir(w)
    /\ UNCHANGED <<colaVars, fila, proveedor, fallas>>

\* taxPaymentJob -> PROCESADO, unconditionally.
CerrarTrabajo(w) ==
    /\ pc[w] = "cerrar"
    /\ job' = [job EXCEPT ![pago[w]] = "PROCESADO"]
    /\ Salir(w)
    /\ UNCHANGED <<hash, documento, antes, perfil, lote, fila, proveedor, fallas>>

-----------------------------------------------------------------------------
(* Recovery.                                                                 *)

\* Mutant: only rows that reached the send marker are quarantined.
QuarantineSoloMarcadas(p) ==
    /\ estado[p] = "EN_PROCESO"
    /\ enviado[p]
    /\ estado' = [estado EXCEPT ![p] = "RESULTADO_INDETERMINADO"]
    /\ UNCHANGED <<colaVars, huella, intentos, enviado, invocacion, proveedor, fallas>>

\* quarantineStale: a claim older than five minutes, its worker dead or merely slow.
QuarantineStale(p) ==
    /\ estado[p] = "EN_PROCESO"
    /\ estado' = [estado EXCEPT ![p] = "RESULTADO_INDETERMINADO"]
    /\ UNCHANGED <<colaVars, huella, intentos, enviado, invocacion, proveedor, fallas>>

\* reconcilePayment: the administrator verifies the issued document and its folio.
ReconcilePayment(p) ==
    /\ estado[p] = "RESULTADO_INDETERMINADO"
    /\ p \in emitidos
    /\ hash[p] = perfil
    /\ estado' = [estado EXCEPT ![p] = "GENERADO"]
    /\ UNCHANGED <<colaVars, huella, intentos, enviado, invocacion, proveedor, fallas>>

\* An exception (database, serialization, folio index) ends one invocation.
Abortar(w) ==
    /\ pc[w] # "libre"
    /\ fallas < MaxFallas
    /\ fallas' = fallas + 1
    /\ Salir(w)
    /\ UNCHANGED <<colaVars, fila, proveedor>>

\* The process dies and starts again, possibly with another profile.
Reiniciar ==
    /\ fallas < MaxFallas
    /\ fallas' = fallas + 1
    /\ SinInvocaciones(pc', pago', explicito', leido', claim', res')
    /\ lote' = {}
    /\ perfil' \in Profiles
    /\ UNCHANGED <<job, hash, documento, antes, fila, proveedor>>

-----------------------------------------------------------------------------
PasoDe(w) ==
    \/ LeerTrabajo(w) \/ BloquearTrabajo(w) \/ LeerIntencion(w) \/ Preparar(w)
    \/ Reclamar(w) \/ VerificarReclamo(w) \/ Autenticar(w) \/ MarcarEnvio(w)
    \/ Enviar(w) \/ Terminar(w) \/ Consultar(w) \/ CerrarTrabajo(w)

Next ==
    \/ \E p \in Payments :
          \/ EnqueuePayment(p) \/ DrenarSiguiente(p) \/ RepreparePayment(p)
          \/ QuarantineStale(p) \/ ReconcilePayment(p)
    \/ \E w \in Workers, p \in Payments : AvisoPostCommit(w, p) \/ RetryPayment(w, p)
    \/ Drenar
    \/ \E w \in Workers : PasoDe(w) \/ Abortar(w)
    \/ Reiniciar

Spec == Init /\ [][Next]_vars

\* The interval timer keeps draining and quarantining, and what it has started runs
\* on; requests, operators and the post-commit call owe nothing and may hang for ever.
Fairness ==
    /\ WF_vars(Drenar)
    /\ \A p \in Payments : WF_vars(DrenarSiguiente(p)) /\ WF_vars(QuarantineStale(p))
    /\ WF_vars(PasoDe(Drainer))

FairSpec == Spec /\ Fairness
-----------------------------------------------------------------------------
(* Properties.                                                               *)

\* The send marker is durable before the provider can have received anything, and
\* it lives on: after any crash a payment that may have been sent is recognisable.
MarkedBeforeSent ==
    \A p \in Payments : posts[p] > 0 \/ p \in emitidos => enviado[p]

\* "Confirmed not sent" is the truth, also about invocations still running: no
\* payment declared FALLIDO was sent, and none is about to be sent.
FailureIsTruthful ==
    \A p \in Payments : estado[p] = "FALLIDO" =>
        /\ ~enviado[p]
        /\ posts[p] = 0
        /\ \A w \in Workers : ~(pc[w] = "enviar" /\ pago[w] = p)

\* A job only leaves the drain's queue as PROCESADO once its emission was decided
\* or is in the hands of a claim: no payment silently loses its tax document.
NoJobLost ==
    \A p \in Payments : job[p] = "PROCESADO" => intentos[p] > 0

\* Quarantine (and any uncertain completion) before the send marker closes the
\* window for good: a slow worker that wakes up afterwards cannot mark or send.
QuarantineIsFinal ==
    [][\A p \in Payments :
          estado[p] \in {"RESULTADO_INDETERMINADO", "GENERADO"} /\ ~enviado[p]
             => ~enviado'[p] /\ posts'[p] = posts[p]]_vars

\* The abstract contract of the pipeline, implemented by this module.
Veredicto(s) ==
    CASE s \in {"NINGUNA", "PENDIENTE", "EN_PROCESO"} -> "abierto"
      [] s = "FALLIDO" -> "no_enviado"
      [] s = "RESULTADO_INDETERMINADO" -> "incierto"
      [] s = "GENERADO" -> "generado"

Contract == INSTANCE EmissionContract WITH
    envios <- posts,
    veredicto <- [p \in Payments |-> Veredicto(estado[p])]

\* Every behaviour of the pipeline is one the contract allows: at most one POST per
\* payment, truthful and final verdicts, whatever is interleaved with whatever.
ImplementsContract == Contract!ASpec

\* A job whose document was rebuilt behind the intent prepared from the earlier one:
\* every later call of processPayment ends in TAX_INTENT_CONTENT_CONFLICT.
RehechoTrasIntencion(p) == estado[p] # "NINGUNA" /\ huella[p] # documento[p]

\* Jobs no drain takes further: they wait for an operator's retry, or for nobody.
Atascado(p) == estado[p] = "FALLIDO" \/ RehechoTrasIntencion(p)

\* What the drain does achieve: a queued job is processed or blocked for review,
\* unless it is stuck itself or a whole batch of older jobs is.
ColaAvanza ==
    \A p \in Payments :
        job[p] = "PENDIENTE" ~>
            \/ job[p] # "PENDIENTE" \/ Atascado(p)
            \/ Cardinality({q \in antes[p] \cap Pendientes : Atascado(q)}) >= LoteMax

\* "El trabajador recupera trabajos persistidos cada 15 segundos": what the documents
\* promise of every job whose emission has not failed.
PendingJobsRecovered ==
    \A p \in Payments :
        job[p] = "PENDIENTE" ~> (job[p] # "PENDIENTE" \/ estado[p] = "FALLIDO")

\* A confirmed failure previous to processing admits an explicit retry: its job is
\* not in the blocked state from which processPayment returns at once.
ConfirmedFailureStaysRetryable ==
    \A p \in Payments : estado[p] = "FALLIDO" => job[p] # "DATOS_REQUERIDOS"

-----------------------------------------------------------------------------
(* The inductive invariant behind the safety properties.                     *)

\* Invocations that hold, or believe they hold, the claim numbered claim[w].
ConReclamo(w) == pc[w] \in {"verificar", "autenticar", "marcar", "enviar", "terminar"}

\* The row: only a running, uncertain or generated row carries the marker, and a
\* generated row has an issued document.
FilaOK(p) ==
    /\ estado[p] \in {"NINGUNA", "PENDIENTE"} <=> intentos[p] = 0
    /\ enviado[p] => estado[p] \in {"EN_PROCESO", "GENERADO", "RESULTADO_INDETERMINADO"}
    /\ estado[p] = "GENERADO" => p \in emitidos
    /\ posts[p] \in {0, 1}
    /\ p \in emitidos => posts[p] = 1
    /\ posts[p] = 1 => enviado[p]
    /\ job[p] = "PROCESADO" => intentos[p] > 0

\* The invocation w, against the row of its payment p.
InvocacionOK(w, p) ==
    /\ ConReclamo(w) => claim[w] > 0 /\ claim[w] <= intentos[p]
    /\ pc[w] \in {"verificar", "autenticar", "marcar"} /\ claim[w] = claimId(p) => ~enviado[p]
    /\ pc[w] = "enviar" =>
          /\ claim[w] = claimId(p)
          /\ enviado[p]
          /\ posts[p] = 0
          /\ estado[p] \in {"EN_PROCESO", "RESULTADO_INDETERMINADO"}
    /\ pc[w] = "terminar" =>
          /\ res[w] = "GENERADO" => p \in emitidos
          /\ res[w] = "FALLIDO" /\ claim[w] = claimId(p) => ~enviado[p]
    /\ pc[w] = "cerrar" => intentos[p] > 0

\* No two invocations share a claim.
ReclamosUnicos ==
    \A v, w \in Workers :
        /\ ConReclamo(v) /\ ConReclamo(w)
        /\ pago[v] = pago[w]
        /\ claim[v] = claim[w]
        => v = w

FilasOK == \A p \in Payments : FilaOK(p)
InvocacionesOK == \A w \in Workers : pc[w] # "libre" => InvocacionOK(w, pago[w])

IInv ==
    /\ TypeOK
    /\ FilasOK
    /\ InvocacionesOK
    /\ ReclamosUnicos
================================================================================
