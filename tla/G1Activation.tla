------------------------------ MODULE G1Activation ------------------------------
(***************************************************************************)
(* Work owed after a G3 closure: two G3 audits and the activation of the   *)
(* installed equipment in G1, the inventory system.                        *)
(*                                                                         *)
(* The closure's transaction leaves a durable marker (postClosure) in its  *)
(* event.  Identical webhooks and reconciliations run recoverPostClosure,  *)
(* operators run the explicit retry; both may run at once and die between  *)
(* any two awaits.  One closure, hence one activation record (event_id).   *)
(* Its snapshot, hashes and relations are consistent: the rejections of    *)
(* altered evidence are left out.                                          *)
(***************************************************************************)
EXTENDS Naturals, FiniteSets

CONSTANTS
    Workers,       \* concurrent invocations
    MaxIntentos,   \* bound: operators retry below this many claims
    MaxFallas      \* bound: failures

ASSUME G1Constants == MaxIntentos \in Nat /\ MaxFallas \in Nat

VARIABLES
    inicial,      \* state the record is created with: what the closure contains
    estado,       \* estadoIntegracion, "NINGUNO" without a record
    intentos,     \* intentos, the identity of the current attempt
    vencida,      \* ultimoIntento is older than the five-minute lease
    auditoria,    \* log_auditoria rows of the record
    auditoriasG3, \* times the pair of G3 audits was written
    marcaAudit,   \* postClosure.audit
    marcaG1,      \* postClosure.g1.state
    marcaPend,    \* postClosure.g1.auditPending
    pc,           \* next step of the invocation
    explicito,    \* it is an explicit retry
    leido,        \* record.intentos as dispatch read it
    intento,      \* the attempt it claimed, 0 before
    resp,         \* the outcome it is about to save
    out,          \* the record's state it is about to report
    outPend,      \* auditPending it is about to report
    envios,       \* history: POSTs of automatic and of explicit invocations
    confirmados,  \* history: attempts G1 confirmed with the equipment associated
    fallas        \* history: failures so far

registro == <<inicial, estado, intentos, vencida>>
marcador == <<marcaAudit, marcaG1, marcaPend, auditoriasG3>>
invocacion == <<pc, explicito, leido, intento, resp, out, outPend>>
remoto == <<envios, confirmados>>
vars == <<registro, auditoria, marcador, invocacion, remoto, fallas>>

Resultados == {"COMPLETADA", "PENDIENTE_SINCRONIZACION_G1", "ERROR_G1"}
SinResultado == {"ENVIANDO", "PENDIENTE_ENVIO"}
Iniciales == {"PENDIENTE_ENVIO", "PENDIENTE_DATOS_EQUIPO_G1", "ERROR_G1"}
Estados == Resultados \cup SinResultado \cup Iniciales \cup {"NINGUNO"}
Acciones == {"ENVIAR_ACTIVACION_G1", "REINTENTAR_ACTIVACION_G1",
             "ACTIVACION_G1_PENDIENTE", "ACTIVACION_G1_COMPLETADA"}
Pasos == {"libre", "auditarG3", "soloAuditarG3", "crear", "despachar", "previa",
          "reclamar", "enviar", "guardar", "releer", "auditar", "marcar"}

\* Steps at which the record need not exist: before it is created, or after an error.
SinRegistro == {"libre", "auditarG3", "soloAuditarG3", "crear", "marcar"}

RegistroTypeOK ==
    /\ inicial \in Iniciales
    /\ estado \in Estados
    /\ intentos \in Nat
    /\ vencida \in BOOLEAN
    /\ auditoria \subseteq [accion : Acciones, intento : Nat, http : Nat]

MarcadorTypeOK ==
    /\ auditoriasG3 \in Nat
    /\ marcaAudit \in {"PENDIENTE", "COMPLETADA"}
    /\ marcaG1 \in (Estados \ {"NINGUNO"}) \cup {"PENDIENTE_CREACION"}
    /\ marcaPend \in BOOLEAN

InvocacionTypeOK ==
    /\ pc \in [Workers -> Pasos]
    /\ explicito \in [Workers -> BOOLEAN]
    /\ leido \in [Workers -> Nat]
    /\ intento \in [Workers -> Nat]
    /\ resp \in [Workers -> Resultados \cup {"NINGUNO"}]
    /\ out \in [Workers -> Estados \cup {"PENDIENTE_CREACION"}]
    /\ outPend \in [Workers -> BOOLEAN]
    /\ \A w \in Workers :
          /\ pc[w] \notin SinRegistro => estado # "NINGUNO"
          /\ pc[w] \in {"previa", "auditar", "marcar"} => out[w] # "NINGUNO"
          /\ pc[w] = "guardar" => resp[w] # "NINGUNO"

TypeOK ==
    /\ RegistroTypeOK
    /\ MarcadorTypeOK
    /\ InvocacionTypeOK
    /\ envios \in [BOOLEAN -> Nat]
    /\ confirmados \subseteq Nat
    /\ fallas \in Nat

\* The closure has just been committed with its descriptor.
Init ==
    /\ inicial \in Iniciales
    /\ estado = "NINGUNO"
    /\ intentos = 0
    /\ vencida = FALSE
    /\ auditoria = {}
    /\ auditoriasG3 = 0
    /\ marcaAudit = "PENDIENTE"
    /\ marcaG1 = "PENDIENTE_CREACION"
    /\ marcaPend = FALSE
    /\ pc = [w \in Workers |-> "libre"]
    /\ explicito = [w \in Workers |-> FALSE]
    /\ leido = [w \in Workers |-> 0]
    /\ intento = [w \in Workers |-> 0]
    /\ resp = [w \in Workers |-> "NINGUNO"]
    /\ out = [w \in Workers |-> "NINGUNO"]
    /\ outPend = [w \in Workers |-> FALSE]
    /\ envios = [b \in BOOLEAN |-> 0]
    /\ confirmados = {}
    /\ fallas = 0

-----------------------------------------------------------------------------
(* Steps of an invocation.                                                   *)

Avanzar(w, paso) ==
    /\ pc' = [pc EXCEPT ![w] = paso]
    /\ UNCHANGED <<explicito, leido, intento, resp, out, outPend>>

Salir(w) ==
    /\ pc' = [pc EXCEPT ![w] = "libre"]
    /\ explicito' = [explicito EXCEPT ![w] = FALSE]
    /\ leido' = [leido EXCEPT ![w] = 0]
    /\ intento' = [intento EXCEPT ![w] = 0]
    /\ resp' = [resp EXCEPT ![w] = "NINGUNO"]
    /\ out' = [out EXCEPT ![w] = "NINGUNO"]
    /\ outPend' = [outPend EXCEPT ![w] = FALSE]

\* The answer of afterG3Completion goes to the marker, a retry's to its operator.
Concluir(w, e, pend) ==
    \/ /\ explicito[w]
       /\ Salir(w)
    \/ /\ ~explicito[w]
       /\ pc' = [pc EXCEPT ![w] = "marcar"]
       /\ out' = [out EXCEPT ![w] = e]
       /\ outPend' = [outPend EXCEPT ![w] = pend]
       /\ UNCHANGED <<explicito, leido, intento, resp>>

\* withOutcomeAudit on a record read as e: without an outcome there is nothing to audit.
IrAAuditar(w, e, paso) ==
    IF e \in SinResultado
    THEN Concluir(w, e, TRUE)
    ELSE /\ pc' = [pc EXCEPT ![w] = paso]
         /\ out' = [out EXCEPT ![w] = e]
         /\ UNCHANGED <<explicito, leido, intento, resp, outPend>>

-----------------------------------------------------------------------------
(* recoverPostClosure: called by an identical webhook or a reconciliation.    *)

\* A confirmed and audited activation is not looked at again.
RecoverPostClosure(w) ==
    /\ pc[w] = "libre"
    /\ Avanzar(w, IF marcaG1 # "COMPLETADA" \/ marcaPend THEN "auditarG3" ELSE "soloAuditarG3")
    /\ UNCHANGED <<registro, auditoria, marcador, remoto, fallas>>

\* The two G3 audits and their marker, in one transaction under the tracking's lock.
AuditarG3(w) ==
    /\ pc[w] \in {"auditarG3", "soloAuditarG3"}
    /\ auditoriasG3' = IF marcaAudit = "PENDIENTE" THEN auditoriasG3 + 1 ELSE auditoriasG3
    /\ marcaAudit' = "COMPLETADA"
    /\ IF pc[w] = "auditarG3" THEN Avanzar(w, "crear") ELSE Salir(w)
    /\ UNCHANGED <<registro, auditoria, marcaG1, marcaPend, remoto, fallas>>

\* afterG3Completion: the record by its event_id.  Only one never attempted, with a
\* complete payload, goes on to be sent.
AfterG3Completion(w) ==
    LET e == IF estado = "NINGUNO" THEN inicial ELSE estado IN
    /\ pc[w] = "crear"
    /\ estado' = e
    /\ IF e = "COMPLETADA" \/ inicial # "PENDIENTE_ENVIO" \/ intentos > 0
       THEN IrAAuditar(w, e, "auditar")
       ELSE Avanzar(w, "despachar")
    /\ UNCHANGED <<inicial, intentos, vencida, auditoria, marcador, remoto, fallas>>

\* Mutant: a slow worker overwrites the marker.
MarcarSiempre(w) ==
    /\ pc[w] = "marcar"
    /\ marcaG1' = out[w]
    /\ marcaPend' = outPend[w]
    /\ Salir(w)
    /\ UNCHANGED <<registro, auditoria, marcaAudit, auditoriasG3, remoto, fallas>>

\* The outcome goes to the marker, unless it would demote a confirmed one.
MarcarG1(w) ==
    /\ pc[w] = "marcar"
    /\ IF marcaG1 = "COMPLETADA" /\ (out[w] # "COMPLETADA" \/ ~marcaPend)
       THEN UNCHANGED <<marcaG1, marcaPend>>
       ELSE marcaG1' = out[w] /\ marcaPend' = outPend[w]
    /\ Salir(w)
    /\ UNCHANGED <<registro, auditoria, marcaAudit, auditoriasG3, remoto, fallas>>

-----------------------------------------------------------------------------
(* dispatch: the same code for the automatic first send and for a retry.      *)

\* An operator's request; the record must exist.
Retry(w) ==
    /\ pc[w] = "libre"
    /\ estado # "NINGUNO"
    /\ intentos < MaxIntentos
    /\ pc' = [pc EXCEPT ![w] = "despachar"]
    /\ explicito' = [explicito EXCEPT ![w] = TRUE]
    /\ UNCHANGED <<registro, auditoria, marcador, leido, intento, resp, out, outPend, remoto, fallas>>

\* Mutant: an attempted record is sent again by a duplicated closure.
AutomaticoYaIntentado(w) == FALSE

\* A duplicated closure never sends an attempted event again.
YaIntentado(w) == ~explicito[w] /\ intentos > 0

\* The record is read.  A completed one and an automatic repetition only recover
\* audits, a pending outcome is audited before it is replaced, and an incomplete
\* payload is rejected.
Dispatch(w) ==
    /\ pc[w] = "despachar"
    /\ \/ /\ estado = "COMPLETADA" \/ YaIntentado(w)
          /\ IrAAuditar(w, estado, "auditar")
       \/ /\ estado # "COMPLETADA" /\ ~YaIntentado(w)
          /\ inicial # "PENDIENTE_ENVIO"
          /\ Concluir(w, estado, TRUE)
       \/ /\ estado # "COMPLETADA" /\ ~YaIntentado(w)
          /\ inicial = "PENDIENTE_ENVIO"
          /\ pc' = [pc EXCEPT ![w] = IF intentos > 0 /\ estado # "ENVIANDO"
                                     THEN "previa" ELSE "reclamar"]
          /\ leido' = [leido EXCEPT ![w] = intentos]
          /\ out' = [out EXCEPT ![w] = estado]
          /\ UNCHANGED <<explicito, intento, resp, outPend>>
    /\ UNCHANGED <<registro, auditoria, marcador, remoto, fallas>>

\* Mutant: the lease is ignored.
ReclamableSinReserva(w) == intentos = leido[w] /\ estado # "COMPLETADA"

Reclamable(w) ==
    /\ intentos = leido[w]
    /\ estado # "COMPLETADA"
    /\ estado # "ENVIANDO" \/ vencida

\* Mutant: the claim does not count as an attempt.
ClaimSinIntento(w) ==
    /\ pc[w] = "reclamar"
    /\ \/ /\ Reclamable(w)
          /\ estado' = "ENVIANDO"
          /\ vencida' = FALSE
          /\ intento' = [intento EXCEPT ![w] = leido[w] + 1]
          /\ pc' = [pc EXCEPT ![w] = "enviar"]
          /\ UNCHANGED <<intentos, explicito, leido, resp, out, outPend>>
       \/ /\ ~Reclamable(w)
          /\ Concluir(w, estado, TRUE)
          /\ UNCHANGED <<estado, intentos, vencida>>
    /\ UNCHANGED <<inicial, auditoria, marcador, remoto, fallas>>

\* The conditional update that starts an attempt and its five-minute lease.
Claim(w) ==
    /\ pc[w] = "reclamar"
    /\ \/ /\ Reclamable(w)
          /\ estado' = "ENVIANDO"
          /\ intentos' = intentos + 1
          /\ vencida' = FALSE
          /\ intento' = [intento EXCEPT ![w] = leido[w] + 1]
          /\ pc' = [pc EXCEPT ![w] = "enviar"]
          /\ UNCHANGED <<explicito, leido, resp, out, outPend>>
       \/ /\ ~Reclamable(w)
          /\ Concluir(w, estado, TRUE)
          /\ UNCHANGED <<estado, intentos, vencida>>
    /\ UNCHANGED <<inicial, auditoria, marcador, remoto, fallas>>

\* POST /activaciones.  G1 confirms the association of every equipment, or leaves it
\* pending, or rejects; or there is no usable answer, whatever G1 did.
SendActivation(w) ==
    /\ pc[w] = "enviar"
    /\ envios' = [envios EXCEPT ![explicito[w]] = @ + 1]
    /\ \E r \in Resultados :
          /\ resp' = [resp EXCEPT ![w] = r]
          /\ confirmados' \in IF r = "COMPLETADA" THEN {confirmados \cup {intento[w]}}
                              ELSE {confirmados, confirmados \cup {intento[w]}}
    /\ pc' = [pc EXCEPT ![w] = "guardar"]
    /\ UNCHANGED <<registro, auditoria, marcador, explicito, leido, intento, out, outPend, fallas>>

\* Mutant: the outcome is saved whichever attempt is running.
MiIntentoCualquiera(w) == estado \in {"ENVIANDO"} \cup Resultados

MiIntento(w) == estado = "ENVIANDO" /\ intentos = intento[w]

\* saveOutcome, conditional on the attempt; a late worker changes nothing.
SaveOutcome(w) ==
    /\ pc[w] = "guardar"
    /\ estado' = IF MiIntento(w) THEN resp[w] ELSE estado
    /\ Avanzar(w, "releer")
    /\ UNCHANGED <<inicial, intentos, vencida, auditoria, marcador, remoto, fallas>>

Releer(w) ==
    /\ pc[w] = "releer"
    /\ IrAAuditar(w, estado, "auditar")
    /\ UNCHANGED <<registro, auditoria, marcador, remoto, fallas>>

-----------------------------------------------------------------------------
(* withOutcomeAudit, under the record's lock.                                 *)

acciones ==
    IF estado = "COMPLETADA"
    THEN {IF intentos > 1 THEN "REINTENTAR_ACTIVACION_G1" ELSE "ENVIAR_ACTIVACION_G1",
          "ACTIVACION_G1_COMPLETADA"}
    ELSE {IF intentos > 1 THEN "REINTENTAR_ACTIVACION_G1" ELSE "ACTIVACION_G1_PENDIENTE"}

Auditada(accion, n) == \E a \in auditoria : a.accion = accion /\ a.intento = n

\* Mutant: the HTTP status of a worker is attributed to whatever attempt it audits.
statusHttpDelWorker(w) == intento[w]

\* The HTTP status belongs to the worker's own attempt, otherwise it is unknown (0).
statusHttp(w) == IF pc[w] = "auditar" /\ intentos = intento[w] THEN intento[w] ELSE 0

EscribirAuditoria(w) ==
    auditoria' = auditoria \cup
        {[accion |-> a, intento |-> intentos, http |-> statusHttp(w)] :
            a \in {b \in acciones : ~Auditada(b, intentos)}}

\* The audits of the record's current outcome, each once.  After the audit of a
\* previous outcome the retry goes on to its claim.
WithOutcomeAudit(w) ==
    /\ pc[w] \in {"previa", "auditar"}
    /\ \/ /\ estado \in SinResultado
          /\ Concluir(w, estado, TRUE)
          /\ UNCHANGED auditoria
       \/ /\ estado \notin SinResultado
          /\ EscribirAuditoria(w)
          /\ IF pc[w] = "previa" THEN Avanzar(w, "reclamar") ELSE Concluir(w, estado, FALSE)
    /\ UNCHANGED <<registro, marcador, remoto, fallas>>

-----------------------------------------------------------------------------
(* Failures and time.                                                        *)

Falla == fallas < MaxFallas /\ fallas' = fallas + 1

\* The audit's transaction fails, or it commits and its acknowledgement is lost.
FalloAuditoria(w) ==
    /\ pc[w] \in {"previa", "auditar"}
    /\ Falla
    /\ \/ UNCHANGED auditoria
       \/ estado \notin SinResultado /\ EscribirAuditoria(w)
    /\ \E e \in {out[w], estado} : Concluir(w, e, TRUE)
    /\ UNCHANGED <<registro, marcador, remoto>>

\* The G3 audits roll back; the recovery goes on.
FalloAuditoriaG3(w) ==
    /\ pc[w] \in {"auditarG3", "soloAuditarG3"}
    /\ Falla
    /\ IF pc[w] = "auditarG3" THEN Avanzar(w, "crear") ELSE Salir(w)
    /\ UNCHANGED <<registro, auditoria, marcador, remoto>>

\* Saving the answer fails: the catch saves it as unconfirmed.
FalloGuardar(w) ==
    /\ pc[w] \in {"guardar", "releer"}
    /\ Falla
    /\ pc' = [pc EXCEPT ![w] = "guardar"]
    /\ resp' = [resp EXCEPT ![w] = "PENDIENTE_SINCRONIZACION_G1"]
    /\ UNCHANGED <<registro, auditoria, marcador, explicito, leido, intento, out, outPend, remoto>>

\* Any other database error leaves afterG3Completion or the retry.
Excepcion(w) ==
    /\ \/ pc[w] \in {"crear", "despachar", "reclamar"}
       \/ pc[w] \in {"guardar", "releer"} /\ resp[w] # "COMPLETADA"
    /\ Falla
    /\ Concluir(w, "PENDIENTE_CREACION", FALSE)
    /\ UNCHANGED <<registro, auditoria, marcador, remoto>>

\* The invocation dies, before or after what its step did.
Abortar(w) ==
    /\ pc[w] # "libre"
    /\ Falla
    /\ Salir(w)
    /\ UNCHANGED <<registro, auditoria, marcador, remoto>>

\* Five minutes pass; the HTTP client gives a POST at most sixty seconds.
ExpirarReserva ==
    /\ estado = "ENVIANDO"
    /\ ~vencida
    /\ \A w \in Workers : pc[w] # "enviar"
    /\ vencida' = TRUE
    /\ UNCHANGED <<inicial, estado, intentos, auditoria, marcador, invocacion, remoto, fallas>>

-----------------------------------------------------------------------------
PasoDe(w) ==
    \/ RecoverPostClosure(w) \/ AuditarG3(w) \/ AfterG3Completion(w) \/ MarcarG1(w)
    \/ Retry(w) \/ Dispatch(w) \/ Claim(w) \/ SendActivation(w) \/ SaveOutcome(w)
    \/ Releer(w) \/ WithOutcomeAudit(w)
    \/ FalloAuditoria(w) \/ FalloAuditoriaG3(w) \/ FalloGuardar(w) \/ Excepcion(w)
    \/ Abortar(w)

Next == (\E w \in Workers : PasoDe(w)) \/ ExpirarReserva

Spec == Init /\ [][Next]_vars
-----------------------------------------------------------------------------
(* Properties.                                                               *)

\* The lease keeps two workers from sending the activation at the same time.
OneRequestInFlight ==
    \A v, w \in Workers : pc[v] = "enviar" /\ pc[w] = "enviar" => v = w

\* Duplicated closures, however many and however interleaved, send the activation
\* once: every other POST was asked for by an operator.
AutomaticSendsOnce == envios[FALSE] <= 1

\* A confirmed activation stays confirmed and is not sent again, and only the
\* attempt that G1 confirmed can confirm it.
CompletionIsFinal ==
    [][/\ estado = "COMPLETADA" => estado' = "COMPLETADA" /\ envios' = envios
       /\ estado' = "COMPLETADA" => intentos' \in confirmados']_vars

\* A delayed worker cannot demote the marker of a confirmed outcome, nor ask again for
\* audits that were written.
MarkerNeverDemoted ==
    [][marcaG1 = "COMPLETADA" =>
          marcaG1' = "COMPLETADA" /\ (~marcaPend => ~marcaPend')]_vars

\* The audit trail tells the truth: one row per action and attempt, completion only
\* for a confirmed attempt, an HTTP status only for the attempt that received it.
AuditTruthful ==
    \A a \in auditoria :
        /\ \A b \in auditoria : a.accion = b.accion /\ a.intento = b.intento => a = b
        /\ a.http \in {0, a.intento}
        /\ a.accion = "ACTIVACION_G1_COMPLETADA" =>
              estado = "COMPLETADA" /\ a.intento = intentos /\ a.intento \in confirmados

\* The marker never runs ahead of the evidence: a closure that needs no more recovery
\* has its activation confirmed and its audits written, and the G3 audits exist once.
MarkerBehindEvidence ==
    /\ auditoriasG3 = IF marcaAudit = "COMPLETADA" THEN 1 ELSE 0
    /\ marcaG1 = "COMPLETADA" => estado = "COMPLETADA"
    /\ marcaG1 = "COMPLETADA" /\ ~marcaPend => \A a \in acciones : Auditada(a, intentos)

\* A pending outcome is audited before a new attempt replaces it.
OutcomeAuditedBeforeReplaced ==
    [][intentos' > intentos /\ estado \in Resultados
          => \A a \in acciones : Auditada(a, intentos)]_vars

-----------------------------------------------------------------------------
(* The inductive invariant.                                                  *)

\* The record: a confirmation is about the current attempt, and the automatic send
\* belongs to the first one.
RegistroOK ==
    /\ estado = "COMPLETADA" => intentos \in confirmados
    /\ intentos = 0 => envios[FALSE] = 0
    /\ AutomaticSendsOnce

\* An invocation that is sending holds the lease of the current attempt.
EnvioOK(w) ==
    /\ intento[w] <= intentos
    /\ pc[w] = "previa" => explicito[w]
    /\ pc[w] = "reclamar" /\ ~explicito[w] => leido[w] = 0
    /\ pc[w] = "enviar" =>
          /\ estado = "ENVIANDO"
          /\ ~vencida
          /\ intento[w] = intentos
          /\ intento[w] > 0
          /\ explicito[w] \/ envios[FALSE] = 0
    /\ pc[w] = "guardar" /\ resp[w] = "COMPLETADA" => intento[w] \in confirmados

\* No two invocations hold the same attempt.
IntentosUnicos ==
    \A v, w \in Workers : intento[v] > 0 /\ intento[v] = intento[w] => v = w

\* What an invocation reports to the marker is behind the evidence too.
InformeOK(w) ==
    /\ out[w] = "COMPLETADA" => estado = "COMPLETADA"
    /\ pc[w] = "marcar" /\ out[w] = "COMPLETADA" /\ ~outPend[w]
          => \A a \in acciones : Auditada(a, intentos)

EnviosOK == \A w \in Workers : EnvioOK(w)
InformesOK == \A w \in Workers : InformeOK(w)

IInv ==
    /\ TypeOK
    /\ RegistroOK
    /\ EnviosOK
    /\ IntentosUnicos
    /\ InformesOK
    /\ AuditTruthful
    /\ MarkerBehindEvidence
===============================================================================
