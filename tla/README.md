# Formal models of the ISP CRM backend

TLA+ specifications of the CRM's backend (`src/backend/src`, NestJS and Prisma over
PostgreSQL). The backend is one process that serves HTTP requests concurrently, drains
durable queues from interval timers and calls five systems it does not own: the tax
provider facturacion.cl, G3 (field installations), G1 (inventory), SMTP and WhatsApp.
Nothing in it holds a lock across a remote call. What keeps it correct is in its rows:
states, attempt numbers and conditional updates. Those protocols are what the modules
here describe.

## 1. The system and its parts

| Part | State it keeps | Operations | What is hard about it |
|---|---|---|---|
| Tax-document issuance (`tax-document-issuance/`) | `tax_payment_job`, `tax_emission_intent`, e-mail delivery columns | enqueue in the payment's transaction; post-commit call, 15 s drain, explicit retry, reconciliation, correction of fiscal data, stale quarantine | the POST must happen at most once whatever dies, is late or is repeated; a failure may only be declared when nothing was sent |
| G3 installations (`g3-integration/`) | `installation_tracking`, its inbox of events, contract, service and pipeline of the prospect | request, retry, state query, closure webhook, reconciliation | answers, webhooks and reconciliations of one order in any order; two orders for one contract; collections acting meanwhile |
| G1 activation (`g1-integration/g1-activation.service.ts`, `g3-integration/post-closure-work.ts`) | one activation record per closure, marker inside the closure's event, audit rows | recovery by repeated closures, explicit retry | a lease instead of a lock; late answers; audits that must be written once and truthfully |
| G1 inventory, warranties | nothing durable but the warranty | queries, one write | time-outs of a remote read |
| Billing (`billing/`) | invoices' states, payments, delinquency of contract and customer | partial payments from a desk or from G2, refresh of delinquency, suspension, notices, payment zones | concurrent payments of one invoice, repeated integration payments, reactivation against suspension |
| Installment ledger (`commercial/installment-allocation.service.ts`) | allocations and reversals, append-only | allocate, reverse, idempotent by key and hash | never exceed payment or installment under concurrent requests |
| Control book (`commercial/commercial-control-book.service.ts`) | agreements with their installments, extensions, payment days, charges, notices | create, approve, extend, change | checks on a debt that was read before |
| Contracts and plan changes (`contracts/`) | contract, scheduled changes | sign, change now or later, cancel, timer that applies due changes | timer against operators; one failing item and its batch |
| Services (`services/`) | operative state of services | create, activate, deactivate, order installation | check-then-create, counts under write skew |
| Prospects and customers (`prospects/`, `customers/`) | pipeline, location, quotes, contract and customer of a prospect | check feasibility, quote, give up and take up again, contract, claim | external queries between read and write; contracting and signing lock the same two rows in opposite order |
| Requests, withdrawals, local work orders (`requests/`, `g3-integration/service-withdrawal.service.ts`, `work-orders/`) | requests and withdrawals with their closing dates; historical orders | create, change state, answer feasibility | unconditional writes after reads |
| Messaging (`messaging/`) | WhatsApp outbox with provider identifiers | send, drain, status webhooks | crash between POST and identifier, statuses out of order |
| Tickets and G2 (`tickets/`, `g2-integration/`) | ticket, WiFi results | update, diagnose, register a result by request identifier | repeated and late results |
| External tax documents, coverage, plans, imports, inventory, TVIP | records | administrative edits | duplicates between check and create |
| Reports, monitoring, companies, users, authentication, audit, persistence | – | queries, checks of one request | – |
| Frontend (`src/frontend`) | none shared | user interface | – |

How they interact. `billing.registerPayment` enqueues the tax job in the payment's own
transaction and calls the issuer after the commit; it also reactivates contracts that
collections suspended. A closure in G3 activates service, contract and prospect in one
transaction and leaves in its event the work that is owed to G1; every later identical
closure resumes that work. A plan change and a withdrawal touch the same services that
billing suspends and G3 installs. All of them meet in the rows of one PostgreSQL
database: in the models a transaction, or one conditional `updateMany`, is one atomic
step, and every `await` between two of them is a place where anybody else may step in.

What makes each part correct is said where its module is described, in section 3; what is
not modelled, and why, is in section 5, and what could follow in section 6.

## 2. Reading the modules

* A component's module has the rows as variables (functions of the row's identity where
  there are several), the local variables of a running invocation as functions of
  `Workers`, and `pc[w]` for the place where invocation `w` waits. Names are those of the
  code: Spanish for the states and columns, the function's name for actions that are a
  whole function.
* Every module has `Init`, one action per step of a handler, `Next`, `Spec`, one `TypeOK`,
  then its properties, then its inductive invariant `IInv` where it has one. Two modules
  carry a prefix on these names (`LedgerSpec`, `LedgerInv` ... in `InstallmentLedger`,
  `CareSpec`, `CareInv` ... in `CustomerCare`), because their proofs share a module with
  those of another component: `AfterPayment_proofs` is about what a payment sets off
  (`TaxEmission`, `InstallmentLedger`), `CustomerContact_proofs` about the contact with a
  customer (`CustomerCare`, `Messaging`).
* `MC<module>` gives small instances and symmetry; the `.cfg` files are the runs.
* An operator introduced by "Mutant:" is a plausible bug in the operation defined after
  it; nothing in the specification uses it. Put in that operation's place it makes a
  property fail, which shows that the property depends on what the code does there.
* Variables marked "history" are not in the program: they count what the outside world
  received, so that a property can speak about it.
* A failure is one of: the invocation dies (request aborted, process killed), a database
  operation fails, the whole process restarts. `MaxFallas` bounds how many happen,
  `MaxIntentos` how often operators ask again.
* The runs are listed in `PROJECT.json`. The other `.cfg` files are further questions,
  described in section 3.10; run one with `tlc -config X.cfg MC<module>`.
* Deadlock is not checked (`CHECK_DEADLOCK FALSE`) where the modelled part may really be
  over: every request identifier or key is used, or every message and change decided.

## 3. What is modelled, checked and found

### 3.1 Emission of tax documents: `TaxEmission`, `EmissionContract`

`TaxEmission` follows one payment (or two) from `enqueuePayment` to the end of the
intent: `LeerTrabajo` ... `CerrarTrabajo` are the awaits of `processPayment`, of
`TaxEmissionIntentService.execute` and of the dispatcher; `Reclamar`, `MarcarEnvio` and
`Terminar` are the three conditional updates of the store. `Drenar` is the timer with its
`draining` flag and batch, `AvisoPostCommit` the call after the payment's commit,
`RetryPayment`, `RepreparePayment` and `ReconcilePayment` the operators', `QuarantineStale`
the quarantine of claims nobody finished, `Reiniciar` a restart (perhaps with another
fiscal profile), `Abortar` a dead request. The provider is external: a POST may be
processed, rejected before processing, or lost in either direction. A payment's document
is one of `Documentos`, told apart by its fingerprint: the job has the one it was queued
or rebuilt with (`documento`), an invocation the one it read (`leido`), the intent the
one it was prepared from (`huella`), and an invocation of another document than the
intent's ends in `TAX_INTENT_CONTENT_CONFLICT` (`MismoContenido`).

`EmissionContract` is what accounting is promised, in five actions over three variables:
at most one hand-over per payment, "no enviado" only when nothing was handed over,
"generado" only for an issued document and final, "incierto" left only by recognising the
document. `TaxEmission` implements it under a mapping of the six row states to the four
verdicts (`ImplementsContract`).

| Run | Instance | Shows |
|---|---|---|
| `tax` | 1 payment, timer + 2 requests, 2 profiles, 2 documents, 2 claims, 2 failures; or a second payment behind it, batch of 1 (1.8 million states) | `IInv`, `FailureIsTruthful`, `QuarantineIsFinal`, `ImplementsContract`, and `ColaAvanza` |

`ColaAvanza` is what the drain achieves: a queued job is eventually processed or blocked
for review, unless it is `Atascado` or a whole batch of older jobs is. A job is stuck in
two ways. Its confirmed failure was never closed, because the process died before
`CerrarTrabajo`: only an operator's retry takes it further. Or its document was rebuilt
while an invocation, which had read the earlier one, prepared the intent from it
(`RehechoTrasIntencion`): unless that invocation itself closes the job, every later call
ends in the conflict, and nobody can rebuild the job again. The documents promise more,
`PendingJobsRecovered`; section 3.10 shows how it fails.

Bounds. Payments share nothing but the batch. `MCFairSpec` is two instances in one: `p1`
alone with both requests, or `p2` queued behind it while the timer and one request work on
`p1`, with one failure and, unless `p1` is stuck behind its intent, the first profile only;
a job rebuilt with another document likewise has one request and one failure. These
restrict only what has no fairness (new payments, corrections, requests, failures). The
code's batch of ten behind which an eleventh payment waits behaves as one with two. Two
requests and the timer are the three callers the code has; two claims let a slow worker
meet its successor; two failures let the recovery of a failure fail too.

Fairness (`FairSpec`): weak fairness of the drain's start and continuation, of the stale
quarantine (the same timer, every 15 s) and of the steps of the timer's own invocation,
whose HTTP client has a time-out. Nothing is assumed of requests, operators or the
post-commit call: they may hang for ever with a claim in their hands.

### 3.2 Delivery of a tax document: `TaxDelivery`

What follows an issued document, `finishArtifactsAndDelivery`: `Leer`, `ObtenerEnlace`,
`DescargarPdf` (each may fail), `Reclamar` (the conditional update with the counter),
`Enviar`, `Anotar`. It is run by `ProcessPayment`, by the timer (`DrainPending`) and by
the operator's `RecoverArtifacts`. `QuarantineEmail` is the quarantine after five minutes,
`Vencer` the end of a retry's delay, `CorrectRecipient` and `ReconcileEmail` are the
administrators'. The mail server is external: it accepts, refuses for now or for good, or
is not heard, whether it accepted or not. `Reiniciar` may change the mode of the mail.

| Run | Instance | Shows |
|---|---|---|
| `mail` | 1 document, timer + 1 request, 4 attempts, 1 failure (782 thousand states) | `IInv` with `EntregaUnica` (one mail at most, and a state that tells the truth about it) and `UnIntento`, `ReintentoPosible`, `ResultadoFinal`, `EntregaSeResuelve` |

Two constants name what the code takes for granted, and section 3.10 shows what happens
without: `OperadorEspera` (an administrator who declares an attempt not accepted does so
when it is over, as the documented check of the mail server's log requires) and `PdfPuntual`
(link, login and PDF, each limited to 15 s, together take less than the 60 s of a retry's
delay).

Bounds. The timer and one request race for a claim; the code allows three attempts, so a
fourth, explicit one passes that limit; one crash may leave the claim or the PDF behind.
Fairness: started invocations go on, the timer drains and quarantines, delays expire.

### 3.3 Installation through G3: `G3Installation`

One contract, its prospect and its service; tracking rows `Solicitudes`; two concurrent
invocations. `SolicitarRevisar`/`SolicitarCrear` are the two halves of
`requestInstallation` (advisory lock, check, insert), `Retry`, `Enviar`, `Guardar`,
`Releer`, `ActualizarPipeline` and `ErrorInesperado` are `send` with its catch,
`Consultar`/`GuardarDetalle` the query (`referencia` says what the row knows of its order:
an answer with only the code of the order takes the identifier back), `AbrirCierre`/`ConfirmarCierre` the closure
transaction with `SELECT ... FOR UPDATE` held between the two, and its conditional
updates of service and contract (`SinCambios`). Collections (`EtiquetarMora`, `Suspender`)
and payments (`Reactivar`) act on the same contract at any time. G3 is external: orders
appear with a POST, whether or not its answer arrives, and end on their own.

| Run | Instance | Shows |
|---|---|---|
| `g3_safety` | 2 requests, 2 invocations, 2 closure contents, 1 failure (5 million states) | `IInv`, `ActivatedOnce`, `ClosureIsFinal` |

Bounds. Two requests are what lets a revived tracking meet its replacement; two
invocations and two contents let a closure race with a late answer or a different closure.

### 3.4 Activation in G1: `G1Activation`

The work owed after one closure: `AuditarG3`, `AfterG3Completion`, `MarcarG1` are
`recoverPostClosure` (with `post-closure-work.ts`); `Dispatch`, `Claim`, `SendActivation`,
`SaveOutcome`, `Releer`, `WithOutcomeAudit` are `dispatch`, shared by the automatic send
and by operators' `Retry`. The five-minute lease is the boolean `vencida`; it expires only
when no POST is running because the HTTP client ends every POST within 60 s
(`http-g1-inventory.client.ts`), but the worker may be arbitrarily slow *after* the answer.
A failed database operation follows the code's catch at each place.

| Run | Instance | Shows |
|---|---|---|
| `g1_safety` | 2 invocations, 2 claims for operators, 2 failures (4.8 million states) | `IInv`, `OneRequestInFlight`, `AutomaticSendsOnce`, `AuditTruthful`, `CompletionIsFinal`, `MarkerNeverDemoted` |

Bounds. `MaxIntentos` limits when an operator may start a retry; retries already running
can claim beyond it, so three attempts occur. Two failures let a lost audit's recovery be
lost as well.

### 3.5 Billing of a customer: `BillingLifecycle`, `CustomerAccount`

The invoices, contracts and services of one customer, perhaps with several companies, and
`Invocaciones` concurrent requests. `registerPayment` (from a desk, or `pagoG2` through
`registerIntegrationPayment`), `suspendContract` and `refreshDelinquency` run inside
`billingTransaction`: Serializable, up to three attempts. Each is two steps here. `Empezar`
takes the snapshot (`foto`) and takes the handler's early returns (`Aceptada`,
`YaRegistrado`); `RegisterPayment`, `SuspendContract` or `RefreshDelinquency` decides on
that snapshot and commits. `Perdida` is the database's refusal (P2034), followed by
`Reintentar` or `Conflicto`; `ReferenciaRepetida` is the unique index on the transaction
code (P2002), which a desk is told of and a notification of G2 resolves by running again.

Serializable is what PostgreSQL promises: of two transactions of billing that overlap the
first to commit wins, so the serial order is the order of commits. (PostgreSQL may let
both commit when their order does not matter; a repeated attempt gives the same rows.)
What runs at Read Committed does not take part in that: the activation by a closure
(`Activar`), the retirement of a service (`LeerBaja`, `ContarBaja`, `ConfirmarBaja`), the
reconciliation of the customer (`LeerCliente`, `EscribirCliente`) and extensions
(`CreateExtension`). Only a row both write stops a transaction of billing: `Confirmable`
asks that what it writes is as in the snapshot and not held by an open retirement
(`Bloqueado`).

`CustomerAccount` is what a customer is promised about the invoices: a debt shrinks only
by payments within it, one invoice at a time, and closes with the payment that settles it.

| Run | Instance | Shows |
|---|---|---|
| `billing_debts` | 2 invoices (of 2 and 1) of 2 contracts, 1 service, 2 requests, days 0 and 1 (2.2 million states) | `IInv`, `AnswersAreRegistered`, `SanctionJustified`, `ReactivationJustified`, `CustomerClearedWithContracts`, `ImplementsAccount` |
| `billing_retirement` | 2 services of a contract, another company's contract, 1 invoice, 2 requests, 2 attempts (1.8 million states) | `RetiredContractIsEmpty`, `RetirementIsFinal` |

Bounds. Two overlapping requests make every conflict, since each overlaps only with who
commits before it; one partial and one completing payment need an invoice of 2. A repeated
attempt is a new snapshot, so `billing_debts` has one attempt and `billing_retirement`
two, against three in the code. Two days and `DiasCorte` 1 (a suspension the day
after the due day; more days only move the threshold) give an invoice that is due,
late and extended. The customer's financial state with several companies is in
`billing_retirement` (which has a second company), with one in `billing_debts`.

### 3.6 Installments: `InstallmentLedger`, `PaymentAllocation`

The payments of one invoice and the installments of its agreements.
`installment-allocation.service.ts` runs `apply` and `reverse` as serializable
transactions: `Pedir` begins one and takes its snapshot (`foto`), `write` decides on the
snapshot - the key is known (`Repetir`), the operation does not fit (`Admisible`), another
one was registered meanwhile (`Conflicto`, then `Reintentar`) - and `Registrar` appends
the operation and recomputes state and day of the installments it moved. `Caer` is a
process that stops; `ApproveAgreement` is the approval in the control book that makes
installments payable. The snapshot argument is that of billing: the ledger of an invoice
is read as a whole, so two overlapping operations cannot both commit on it.

`PaymentAllocation` is the promise without keys, lines and retries: a part of each payment
against each installment, moved one payment at a time, within both and never below zero.

| Run | Instance | Shows |
|---|---|---|
| `ledger` | 2 requests, 3 keys, 2 payments, 2 installments, 3 operations of up to 2 (860 thousand states) | `LedgerInv` (`LibroCuadra`, `CuotasAlDia`, `RespuestaVeraz`) and `ImplementsAllocation` |

Bounds. Three operations are an allocation, its partial reversal and another of either
kind; two payments over two installments make each limit bind on its own.

### 3.7 Sale to a prospect: `ProspectSale`, `SaleAgreement`

One prospect from its registration to its installation. Requests read the prospect, wait
for coverage, the mail server or a row lock, and write later: the manual pipeline and the
loss (`LeerPipeline`, `LeerPerdida`, `CambiarEtapa`), the checks of feasibility
(`LeerFactibilidad`, `LeerTomodat` ... `GuardarFactibilidad`), quotes (`LeerCotizacion`,
`CrearCotizacion`, `AvanzarCotizada`), `contractPlan` (`LeerContratacion`,
`BloquearProspecto`, `ConfirmarContrato`) and the signature (`LeerFirma`,
`BloquearContrato`, `Firmar`). The contracting locks the prospect and then the contract,
with NOWAIT; the signature the contract and then the prospect. A prospect is created with
its place or, with coordinates, already with the answer about its coverage (`Init`).

Once signed, installed or not, a contract changes its plan: `changePlan` (`LeerCambio`,
`CambiarPlan`), now or scheduled, the timer (`AplicarProgramado`) and the cancellation
(`CancelarProgramado`). None of them asks whether the new plan is covered or quoted at the
contract's place. The model keeps the plan in force in the contract and, as the history of
changes does, the plan before the first change (`original`): `planAcordado` is the plan
that was signed. `SolicitarInstalacion` and `ActivarInstalacion` stand for
`G3Installation`. The first needs a verified quote of the plan in force
(`installation-integration.service.ts:497-504`), the second the plan that was requested
(`installation-activation.service.ts:32`).

What holds, then, is about the plan agreed: it was offered at the contract's place
(`ContratoCubierto`) and its quote is not invalidated behind it, nor that of a plan whose
installation was requested (`ContratoCotizado`). About the plan in force nothing of the
kind holds: after a change to a plan without a verified quote, and quotes are made while
it is offered at the prospect's place only, the installation of the signed contract is
refused; after a change behind a request, the closure of the order requested is.

`SaleAgreement` is the promise: one agreement, for a plan offered at its place, revised
until it is signed and never after, never made with a prospect that is lost; from the
signature on the plan in force changes, to any plan.

| Run | Instance | Shows |
|---|---|---|
| `sale_safety` | 2 requests, 2 plans, 2 places of different coverage (1.7 million states) | `IInv` (`UnContrato`, `ContratoCubierto`, `ContratoCotizado`, `EnUnaLista` ...), `ImplementsAgreement`, `SolicitudesTerminan` |

Bounds. The hazards are pairs of requests: two contractings, a contracting and a
signature, either with a check of feasibility. Fairness (strong, of each request's next
step): PostgreSQL grants a row lock in the order of those who wait, so that a request
whose step is enabled again and again is not passed over for ever; a deadlock would still
be one, because its steps would never be enabled.

### 3.8 Plan changes and messages: `PlanChange`, `Messaging`

`PlanChange` has contracts with their plan and history. A request reads contract and plan
(`LeerCambio`) and changes it under the contract's lock, now or on a later day
(`ConfirmarCambio`); `CancelPlanChange` cancels; the timer lists a batch of due changes
(`EmpezarTick`) and applies each in its own transaction (`AplicarDebido`) until one fails,
which ends the tick (`FallarTick`). Meanwhile services appear (`CrearServicio`), contracts
end (`BajaContrato`) and plans are deactivated (`DesactivarPlan`).

`Messaging` has the WhatsApp messages of one company. `Dispatch`, `Descartar`/`Reclamar`,
`Send` and `Anotar` are `dispatch`, run by the request that wrote the row (`Enqueue`) and
by the timer; `Cuarentena` is the quarantine of a claim that got no result.
`AcceptStatus`, `Aplicar` and `Ignorar` are the queries of `acceptStatus`, run by Meta's
webhook calls. Meta is external (`Notificar`): it notifies the statuses of what it
accepted, in any order, repeated, and again when a call was refused.

| Run | Instance | Shows |
|---|---|---|
| `plan_changes` | 2 contracts, 2 plans, 1 request, 3 changes, batch of 1, 2 days (641 thousand states) | `IInv` (`HistorialEncadenado`, `PendienteEsUltimo`, `NuncaAntes`), `DecididoUnaVez`, `CambiosSeDeciden` |
| `messaging` | 2 messages, one with an altered row, 2 dispatches, 2 webhook calls (104 thousand states) | `IInv` (`UnaVez`, `EstadoVeraz`), `NuncaRetrocede`, `MensajesTerminan` |
| `messaging_ack` | 1 message, 2 dispatches, 1 webhook call | violated: see 3.10 |

Bounds. A batch of one with several due changes behaves as the code's hundred with more;
three changes are a scheduled one and two around it. Two dispatches race for one message,
two notifications for one row.

Fairness. `PlanChange`: days pass, the interval ticks, and a transaction that is tried for
ever does not fail for ever. The last is an assumption on the data and not on scheduling:
a change whose transaction failed every time would keep the later ones waiting, since
`applyDuePlanChanges` catches nothing per change (`contracts.service.ts:321-345`) and
takes the oldest first. `CambiosSeDeciden` says that passing failures do not. `Messaging`: the timer quarantines and takes what is pending;
a process that stops starts again in the same mode, so that the first steps of a dispatch, which wait only
for the database, are completed in the end; nothing is assumed of Meta.

### 3.9 Customer care: `CustomerCare`

Tickets, G2's WiFi results, customer requests and withdrawals. A handler reads its record
(`LeerTicket`, `LeerSolicitud`, `LeerRetiro`, `LeerWifi`), decides on what it read and
writes later, each in the code's own way: a ticket (`UpdateStatus`, `RegisterDiagnosis`,
`AddTechnicalNote`) and a withdrawal (`UpdateWithdrawal`) without a condition, a request
(`UpdateRequestStatus`, `UpdateFeasibility`) where its state is still the one read, a
WiFi result (`RegisterWifiResult`) under a lock of the ticket and once per `request_id`.

| Run | Instance | Shows |
|---|---|---|
| `care` | 1 ticket, 1 request, 1 withdrawal, 2 users, one `request_id` with two payloads (1.5 million states) | `CareInv` (`FechaDeCierre`, `ResultadoUnico`), `SolicitudCerradaEsFinal`, `ResultadoSoloEnAbierto` |

The extra configuration `care_two_tickets` (1.2 million states, no error) checks the same
with two tickets, one of which has a historical work order that refuses a closure, so that
one `request_id` can also be sent for two tickets. Records of different kinds share no
row, and a hazard here is two handlers of one record.

`FechaDeCierre` is about the closing date only. `updateStatus` writes a ticket without a
condition (`tickets.service.ts:196`), so that an update which read the ticket open and is
slow does reopen one that was closed meanwhile; state and closing date then agree again,
and `CareInv` allows it.

### 3.10 Where the code and its documents disagree

The passing runs cover what the code does right. Some sentences of the documentation, or
of the code's own comments and messages, the code does not keep in every interleaving. One
is a run, listed as a finding in `PROJECT.json`:

* `messaging_ack` (`messaging.service.ts:85`, "Status can arrive before the POST response
  is persisted. Ask Meta to redeliver."): the identifier is stored between the query that
  looks for the message and the one that looks for undetermined ones; the notification is
  answered as accepted and the delivery is lost.

The others are configurations to run by hand; each ends with a trace of the violation
(`care_two_tickets`, above, is the only one that ends without an error):

| Configuration | Property | What the trace shows | Where the sentence is |
|---|---|---|---|
| `tax_drain_batch` | `PendingJobsRecovered` | a job whose confirmed failure was never closed (the process died in between) stays `PENDIENTE`; every drain takes the oldest first and that job ends without effect, so a full batch of them starves the newer ones. With `OnePayment`, `TwoDocuments` and `TwoProfiles` instead, one payment is enough: a job rebuilt behind its intent is drained for ever and ends in `TAX_INTENT_CONTENT_CONFLICT` each time | `docs/i3-facturacion-cl-integration.md:207`; `facturacion-cl.issuer.ts:257`; `tax-emission-intent.service.ts:61` |
| `tax_retry_dead_end` | `ConfirmedFailureStaysRetryable` | a confirmed failure whose job is also blocked for a change of fiscal profile can be neither retried nor corrected | the same document; `facturacion-cl.issuer.ts:188` |
| `mail_reconcile` | `UnCorreo` | an administrator declares "not accepted" while the attempt is still on its way (`OperadorEspera` FALSE), and a recovery sends a second mail | `docs/i3-smtp-automatic-email.md:63-65` |
| `mail_slow_pdf` | `ReintentoPosible` | a PDF slower than the retry's delay (`PdfPuntual` FALSE) decides on an old counter and schedules a retry that the timer never takes | `docs/i3-smtp-automatic-email.md:63,67` |
| `mail_recipient` | `DestinatarioCorregido` | an invocation that read the job before the recipient was corrected writes `SIN_DESTINATARIO` again | `facturacion-cl.issuer.ts:225` |
| `g3_pipeline` | `PipelineFollowsActivation` | `send` re-reads the tracking and then writes the prospect's pipeline unconditionally; a closure in between leaves an active service at "Instalacion en G3" | `docs/i3-g3-fsm-integration.md:104`; `installation-integration.service.ts:363` |
| `g1_audit` | `OutcomeAuditedBeforeReplaced` | a retry that reads the record while an attempt is in flight skips the previous outcome's audit and replaces it as soon as it is saved | `docs/i4-p0-05-recuperacion-post-cierre-g3.md:96-97`; `g1-activation.service.ts:111` |
| `billing_siblings` | `ContractFollowsServices` | the last two services of a contract, retired at once, count each other; the contract stays open without services | `docs/customer-management-flow-restructure.md:58`; `services.service.ts:349` |
| `billing_reconcile` | `FinancialStateIsBillings` | the reconciliation reads the customer and then writes the state unconditionally, over the sanction billing decided in between | `common/customer-lifecycle.ts:41`; `services.service.ts:707` |
| `sale_loss` | `PerdidoSoloReactiva` | a quote whose mail is being sent advances a prospect that was recorded as lost meanwhile | message of `prospects.service.ts:478`; the write is at L1281 |
| `plan_services` | `ServicioSigueAlPlan` | a change lists the services before its transaction; one that a closure creates in between keeps the type of the old plan | `docs/customer-management-flow-restructure.md:58`; `contracts.service.ts:258` |
| `care_notes` | `NotasNoSePierden` | two handlers add to the description of a ticket each had read; one note is lost | `docs/i4-p0-02-tickets-autoridad-g3.md:24`; `tickets.service.ts:277` |
| `care_withdrawal` | `RetiroCerradoEsFinal` | an update that read the withdrawal open writes it after another one closed it | message of `service-withdrawal.service.ts:84` |

## 4. What is proved

The theorems hold for every value of the constants: any number of payments, tracking
rows, closure contents, invoices, contracts, services, companies, plans, places,
messages, concurrent invocations, claims and failures. They assume only what each
module's `ASSUME` states (distinct null values, natural bounds, positive amounts, a
contract for each invoice, and so on) and, in three theorems of `TaxDelivery`, the two
named assumptions of section 3.2, which stand in the statements.

Each component has one inductive invariant, `IInv` (`LedgerInv`, `CareInv`), which its run
checks first and its proof module proves by one lemma per action or per conjunct and one
step per action.

* **`AfterPayment_proofs`, `TaxEmission`.** `TypeOK` and the promised properties are not inductive: that a
  slow worker cannot send rests on its claim being stale. `IInv` adds that claims are never
  shared and never exceed the row's attempt number, and that whoever holds the *current*
  claim before the marker meets an unmarked row. From it follow `TypeCorrect`,
  `MarkedBeforeSentCorrect`, `FailureIsTruthfulCorrect`, `NoJobLostCorrect`,
  `QuarantineIsFinalCorrect`, and step by step `PipelineImplementsContract`: every step is
  a step of `EmissionContract` or a stutter.
* **`AfterPayment_proofs`, `InstallmentLedger`.** Three arguments meet. *Sums*: what lines,
  payments and installments add up to is a fold over a finite set; that it does not depend
  on the order (`SumPick`), adds over disjoint sets (`SumUnion`), over the fibres of a map
  (`SumFibres`), and is positive only if a term is (`SumNat`) is proved from the fold's
  definition. *The ledger*: an operation at its end changes one payment and its
  installments by its lines (`NetoCuotaAppend`, `NetoPagoAppend`, `ParteAppend`,
  `VivoAppend`), the part of a payment against an installment is what is left of its
  allocations (`PartesVivas`, so never less than nothing: `ParteSigno`), and the day the
  code takes from the lines is the last of the payments that still have a part
  (`FechaEsDias`). *The transactions*: a snapshot is a prefix of the ledger
  (`FotoPrefijo`), and the whole of it when the database lets the transaction write. The
  promises are not inductive: `ReversasPropias` adds that a reversal names an earlier
  allocation of its own payment, `Limites` what no payment and no installment exceeds,
  `EnCurso` what a transaction under way was asked and has read. `LedgerCorrect`
  is `LedgerInv`; `LedgerImplementsAllocation` says that an operation written is a part
  given or taken back, and every other step a stutter of `PaymentAllocation`.
* **`CustomerContact_proofs`, `CustomerCare`.** `CareInv` adds to the closing dates and the
  single payload of a `request_id` what each handler holds of its reading (`LecturaVeraz`:
  the kind of its record, an open request without a closing date, one result of G2) and
  that a record keeps to the states of its kind (`EstadosPropios`). A step writes one
  record (lemma `UnRegistro`: a state of its kind with the closing date that follows it)
  and moves one user (lemma `UnUsuario`: what the others have read stays true, because no
  record is ever uncreated and no result taken back). That a slow update of a ticket cannot
  reopen one it read closed is the order of its states (`SinReabrir`). From it `CareCorrect`,
  `CareClosedRequest` (who writes a request read it open and finds it in that state) and
  `CareResultOnce`.
* **`TaxDelivery_proofs`.** `IInv` is `EntregaUnica` with `UnIntento`: one attempt on its
  way, over a claim in process or quarantined (`InvCorrect`, `EntregaUnicaCorrect`, under
  `OperadorEspera`). That a retry the row waits for exists is not inductive either:
  `ContadorVeraz` adds what an invocation with an old counter must find (settled, in
  process, or waiting), and with `PdfPuntual` gives `ReintentoPosibleCorrect`.
  `ResultadoFinalCorrect` needs neither assumption.
* **`G3Installation_proofs`.** `ActivatedOnce` is kept because a closure that commits found
  contract and service as it read them; `IInv` says what such a reading excludes
  (`ContratoOK`, `CierreOK`, lemma `CierreSinInstalar`: nothing is closed yet), that answers
  are about orders that exist, and that a row about to be created belongs to one invocation.
  From it: `ActivatedOnceCorrect`, `OnlyClosureCompletesCorrect`, `ClosureIsFinalCorrect`.
* **`G1Activation_proofs`.** The lease has no lock: `IInv` says that attempts are distinct,
  that whoever sends holds the unexpired lease of the current attempt, that an automatic
  claim started from zero attempts, and that what is on its way to the marker is already
  behind the evidence. Lemma `EvidenciaEstable` (a confirmed record and its audits do not
  change) carries the rest: `OneRequestInFlightCorrect`, `AutomaticSendsOnceCorrect`,
  `AuditTruthfulCorrect`, `MarkerBehindEvidenceCorrect`, `CompletionIsFinalCorrect`,
  `MarkerNeverDemotedCorrect`.
* **`BillingLifecycle_proofs`.** That payments fit their invoices depends on snapshots:
  `IInv` says that a snapshot nobody overtook is right about the money, about what is
  overdue (up to extensions granted since) and about suspensions and installed services
  (`FotoFiel`), so that what the handler required of it still holds at the commit
  (`DecisionFirme`). Every step that commits nothing of billing only moves days and due days
  on (`SoloAvanza`, lemma `FielMantenida`); a commit takes every other snapshot's validity.
  For retirements `UltimoDelContrato` says that who is about to retire a contract has no
  other service left, kept because nothing retired comes back (`BajasFirmes`, lemma
  `ConfirmarFirme`: a commit writes no row that was retired since). From it the type
  invariant and every property of the two runs, up to `ImplementsAccountCorrect`: a payment
  is a step of `CustomerAccount` (lemma `PagoAbona`), any other step a stutter.
* **`ProspectSale_proofs`.** `IInv` adds to the promises on the contract who holds which
  lock and what a request that waits for one has read (`SaleCorrect`). `SoloFirmado` is
  what ties the plan agreed to the plan in force: before the signature there is no change
  in the history, so that they are one. Then every step is a
  step of `SaleAgreement` or a stutter (`SaleImplementsAgreement`; lemma `AcuerdoConfirmar`
  for the contracting, `AcuerdoFirmado` for the signature); a change of plan keeps the
  agreement, because what it writes to the history is the plan it replaces.
* **`PlanChange_proofs`.** `HistorialEncadenado` speaks of the plan after the first *n*
  changes; it is kept because a change that waits is the last of its contract
  (`PendienteEsUltimo`), so that deciding it changes the plan after it and before nothing
  (lemmas `TrasSigue`, `TrasAplicado`). From it `PlanChangeCorrect`, and `DecididoUnaVezCorrect`.
* **`CustomerContact_proofs`, `Messaging`.** `IInv` gives each claimed message one owner and ties what
  dispatches and webhook calls carry to what Meta accepted and notified
  (`MessagingCorrect`); `NuncaRetrocedeCorrect` follows from the conditional updates and
  from the owner finding its row without an identifier.

Induction over data. The library states its induction theorems with an operator as their
parameter, which the provers at hand cannot instantiate. `AfterPayment_proofs` proves them
in the form of sets (`SubsetInduction`, `StrongSubsetInduction`, `CountInduction`: what
holds of the empty set, and of a set when it holds without one of its elements, holds of
every finite set) from the existence of minimal elements, and uses them with the set of the
cases the claim holds for.

Assumptions of the ledger. `LedgerConstants` asks for finitely many payments and
installments, which are rows of a table, positive amounts (the columns
of installments and applications require `monto > 0`, and the service refuses a payment whose
amount is not), and natural bounds on the length of the ledger and the amount of
an operation, which any run of the code has.

Only model-checked: the five liveness properties (`ColaAvanza`,
`EntregaSeResuelve`, `SolicitudesTerminan`, `CambiosSeDeciden`, `MensajesTerminan`), which
are outside what the proof system handles, as is anything about `ENABLED`; and the
violated configurations. Every invariant, action property and refinement that a passing
run checks is a theorem. The modules with theorems have no recursion.

## 5. What is abstracted or left out

* Contents: documents, snapshots, tokens, hashes and messages are opaque. Rejections of
  altered or inconsistent evidence (a snapshot whose hash does not match, a closure that
  does not correlate) are refusals without effect and are left out; the altered row of a
  message is in `Messaging`, because it ends the message.
* Companies and environments: one of each, except in billing; every query of the code is
  restricted to a company and no row is shared.
* Authorisation, validation and formatting of requests.
* In `TaxEmission` and `TaxDelivery`: disabled companies and missing credentials. A
  document whose first PDF failed, or whose process died before it was there, is recovered
  by an operator only (the drain takes documents whose PDF is available), and
  `EntregaSeResuelve` says no more than that.
* In `G3Installation`: manual changes of a service by an operator, requests for a contract
  with several services, historical closures, and changes of the contract's plan between
  the request and the closure, which are in `ProspectSale`.
* In `Messaging`: a restart in another mode, which stops the timer.
* In `G1Activation`: G1's inventory reads; the warranty that the closure may create.
* In `BillingLifecycle`: invoices without amount or annulled (they accept no payment and
  are never late), notices, zones, audit rows and the tax job of a payment (which starts
  `TaxEmission`), what else two payments under one code are compared by (date, means,
  authorisation), other ways to set a service or a customer (`services.update`, creation
  of services, an operator's change of the customer), so that no service is added to a
  contract while it is retired.
* In `InstallmentLedger`: installments that are overdue or cancelled and agreements that
  are annulled, which accept nothing; historical installments marked paid without a
  ledger; how often a transaction is tried again (three times in all).
* In `ProspectSale`: registration, data, attachments and searches of prospects, and the
  audit rows. A location may be moved by `verifyTomodat` after a contract exists: the
  contract keeps the place it was committed for. The days of a scheduled change, the order
  of the timer's batch and a plan's deactivation are in `PlanChange`; here a scheduled
  change is applied or cancelled at any moment.
* In `PlanChange`: prices, discounts and audit rows, which follow the plan; the digital
  documents of a contract.
* In `CustomerCare`: priorities of tickets, observations of requests, and local work
  orders beyond their effect on the closing of a ticket.

### Not modelled

`PROJECT.json` lists every component with its status. Those without a module are, in
short:

* records that one request edits at a time, whose duplicates a unique index refuses:
  external tax documents, commercial warranties, companies, users, zones, equipment, TVIP;
* the plan catalogue, whose edits lock the plan's row (what a deactivated plan means for
  running changes is in `PlanChange`);
* local work orders: creating, scheduling and completing them is refused since G3 owns the
  field work, and what creates them inside the backend cannot be reached. Only
  `cancelInstallation` still writes, for an order that was there before; it puts the
  service back to "Pendiente Instalacion" unconditionally;
* of the control book, agreements before their approval, changes of a payment day, charges
  and notices: one insert or one short transaction each (extensions and the approval are
  in `BillingLifecycle` and `InstallmentLedger`);
* imports (one transaction), queries, reports, start-up, authentication: no state over
  several steps;
* floating-point geometry of coverage, and the frontend, which keeps no shared state.

## 6. What could follow

In order of what it would add:

1. `BillingLifecycle` with the creation of services by hand and plan changes: a contract
   retired while a service is added to it (`services.service.ts:137`) is the one known
   hazard on those rows that no module covers.
2. The composition of `BillingLifecycle` and `InstallmentLedger`: payments are made in the
   one and allocated in the other, which today takes them as given.
3. Digital contract documents with their versions and sign status next to the signature of
   `ProspectSale`.
