----------------------------- MODULE G3Installation -----------------------------
(***************************************************************************)
(* Installation of one contract's service through G3, the field-work       *)
(* system.  G8 persists a tracking row (outbox), posts it to G3 under a    *)
(* stable request_id, follows the remote order, and activates the customer *)
(* and the service when G3 reports the order's closure (inbox).            *)
(*                                                                         *)
(* One contract, its prospect and at most one service.  Invocations are    *)
(* HTTP requests of operators and G3's webhooks; every await is a step     *)
(* boundary.  G3 is external: an order exists once a POST reached it, and  *)
(* it then completes or is cancelled on its own.  Manual changes of the    *)
(* service's state by an operator are left out.                            *)
(***************************************************************************)
EXTENDS Naturals, FiniteSets

CONSTANTS
    Solicitudes,   \* request_id of the tracking rows
    Ninguna,       \* the row of an idle invocation
    Workers,       \* concurrent invocations
    Cierres,       \* contents a closure can have, identified by their hash
    SinCierre,     \* no closure recorded
    MaxFallas      \* bound: aborted or failed invocations

ASSUME G3Constants ==
    /\ Ninguna \notin Solicitudes
    /\ SinCierre \notin Cierres
    /\ MaxFallas \in Nat

VARIABLES
    estado,      \* estadoIntegracion, "NINGUNA" without a row
    referencia,  \* reference of the order: idOtG3, else codigoOtG3, else none
    evento,      \* payloadHash of the WORK_ORDER_COMPLETADA event of the inbox
    contrato,    \* contrato.estado
    servicio,    \* estadoOperativo of the contract's service
    pipeline,    \* prospecto.estadoPipeline
    orden,       \* G3: the work order created for the request_id
    pc,          \* next step of the invocation
    sol,         \* its tracking
    resp,        \* G3's answer it holds
    cierre,      \* the closure it processes
    vContrato,   \* the contract it read
    vServicio,   \* the service it read
    fallas       \* history: failures so far

tracking == <<estado, referencia, evento>>
comercial == <<contrato, servicio, pipeline>>
invocacion == <<pc, sol, resp, cierre, vContrato, vServicio>>
vars == <<tracking, comercial, orden, invocacion, fallas>>

Reintentables == {"PENDIENTE_ENVIO", "ENVIADA", "EN_SEGUIMIENTO", "FALLIDA_REINTENTABLE"}
ACTIVE_REQUEST_STATES == Reintentables \cup {"COMPLETADA"}
EstadosTracking == ACTIVE_REQUEST_STATES \cup {"NINGUNA", "FALLIDA_DEFINITIVA"}
ContratoInstalable == {"Firmado", "Activo"}
ServicioInstalable == {"ninguno", "pendiente"}
ServicioInstalado == {"activo", "suspendido"}
EstadosG3 == {"ABIERTA", "COMPLETADA", "CANCELADA", "DESCONOCIDA"}
Referencias == {"ninguna", "codigo", "id"}
Errores == {"FALLIDA_REINTENTABLE", "FALLIDA_DEFINITIVA"}
Pipelines == {"comercial", "Instalacion solicitada G3", "Instalacion en G3",
              "Seguimiento comercial", "Instalacion en seguimiento", "Servicio Activo"}
Pasos == {"libre", "crear", "enviar", "guardar", "releer", "pipeline", "detalle", "confirmar"}

TrackingTypeOK ==
    /\ estado \in [Solicitudes -> EstadosTracking]
    /\ referencia \in [Solicitudes -> Referencias]
    /\ evento \in [Solicitudes -> Cierres \cup {SinCierre}]
    /\ orden \in [Solicitudes -> {"NINGUNA", "ABIERTA", "COMPLETADA", "CANCELADA"}]

ComercialTypeOK ==
    /\ contrato \in ContratoInstalable \cup {"Moroso", "Suspendido"}
    /\ servicio \in ServicioInstalable \cup ServicioInstalado
    /\ pipeline \in Pipelines

InvocacionTypeOK ==
    /\ pc \in [Workers -> Pasos]
    /\ sol \in [Workers -> Solicitudes \cup {Ninguna}]
    /\ resp \in [Workers -> EstadosG3 \cup Errores \cup {"NINGUNA"}]
    /\ cierre \in [Workers -> Cierres \cup {SinCierre}]
    /\ vContrato \in [Workers -> ContratoInstalable]
    /\ vServicio \in [Workers -> ServicioInstalable]
    /\ \A w \in Workers : pc[w] # "libre" => sol[w] \in Solicitudes

TypeOK ==
    /\ TrackingTypeOK
    /\ ComercialTypeOK
    /\ InvocacionTypeOK
    /\ fallas \in Nat

\* A signed contract has no service or a pending one; an active one may have a new
\* pending installation.
Init ==
    /\ estado = [r \in Solicitudes |-> "NINGUNA"]
    /\ referencia = [r \in Solicitudes |-> "ninguna"]
    /\ evento = [r \in Solicitudes |-> SinCierre]
    /\ contrato \in ContratoInstalable
    /\ servicio \in ServicioInstalable
    /\ contrato = "Activo" => servicio = "pendiente"
    /\ pipeline = "comercial"
    /\ orden = [r \in Solicitudes |-> "NINGUNA"]
    /\ pc = [w \in Workers |-> "libre"]
    /\ sol = [w \in Workers |-> Ninguna]
    /\ resp = [w \in Workers |-> "NINGUNA"]
    /\ cierre = [w \in Workers |-> SinCierre]
    /\ vContrato = [w \in Workers |-> "Firmado"]
    /\ vServicio = [w \in Workers |-> "ninguno"]
    /\ fallas = 0

Cerradas == {r \in Solicitudes : estado[r] = "COMPLETADA"}

-----------------------------------------------------------------------------
(* Steps of an invocation.                                                   *)

Empezar(w, r, paso) ==
    /\ pc[w] = "libre"
    /\ pc' = [pc EXCEPT ![w] = paso]
    /\ sol' = [sol EXCEPT ![w] = r]

Avanzar(w, paso) ==
    /\ pc' = [pc EXCEPT ![w] = paso]
    /\ UNCHANGED <<sol, resp, cierre, vContrato, vServicio>>

Responder(w, paso, respuesta) ==
    /\ pc' = [pc EXCEPT ![w] = paso]
    /\ resp' = [resp EXCEPT ![w] = respuesta]
    /\ UNCHANGED <<sol, cierre, vContrato, vServicio>>

Salir(w) ==
    /\ pc' = [pc EXCEPT ![w] = "libre"]
    /\ sol' = [sol EXCEPT ![w] = Ninguna]
    /\ resp' = [resp EXCEPT ![w] = "NINGUNA"]
    /\ cierre' = [cierre EXCEPT ![w] = SinCierre]
    /\ vContrato' = [vContrato EXCEPT ![w] = "Firmado"]
    /\ vServicio' = [vServicio EXCEPT ![w] = "ninguno"]

\* A closure transaction holds the tracking row (SELECT ... FOR UPDATE).
Bloqueada(r) == \E v \in Workers : pc[v] = "confirmar" /\ sol[v] = r

NoTerminal(r) == estado[r] # "COMPLETADA" /\ evento[r] = SinCierre

\* What an answer of G3 means for the tracking and for the prospect's pipeline.
trackingState(s) == IF s \in {"DESCONOCIDA", "COMPLETADA"} THEN "EN_SEGUIMIENTO" ELSE "ENVIADA"

pipelineState(s) ==
    CASE s = "CANCELADA" -> "Seguimiento comercial"
      [] s = "DESCONOCIDA" -> "Instalacion en seguimiento"
      [] OTHER -> "Instalacion en G3"

-----------------------------------------------------------------------------
(* requestInstallation, retry and send.                                      *)

\* requestInstallation, up to the checks under the contract's advisory lock.
SolicitarRevisar(w, r) ==
    /\ \A v \in Workers : pc[v] # "crear"
    /\ \A s \in Solicitudes : estado[s] \notin ACTIVE_REQUEST_STATES
    /\ estado[r] = "NINGUNA"
    /\ contrato \in ContratoInstalable
    /\ servicio \in ServicioInstalable
    /\ Empezar(w, r, "crear")
    /\ UNCHANGED <<tracking, comercial, orden, resp, cierre, vContrato, vServicio, fallas>>

\* The tracking row and the pipeline, committed before anything is sent.
SolicitarCrear(w) ==
    /\ pc[w] = "crear"
    /\ estado' = [estado EXCEPT ![sol[w]] = "PENDIENTE_ENVIO"]
    /\ pipeline' = "Instalacion solicitada G3"
    /\ Avanzar(w, "enviar")
    /\ UNCHANGED <<referencia, evento, contrato, servicio, orden, fallas>>

\* retry: the same request_id and snapshot, unless completed or definitively failed.
Retry(w, r) ==
    /\ estado[r] \in Reintentables
    /\ evento[r] = SinCierre
    /\ Empezar(w, r, "enviar")
    /\ UNCHANGED <<tracking, comercial, orden, resp, cierre, vContrato, vServicio, fallas>>

\* POST of the installation, idempotent in G3 by request_id: accepted with the
\* order's state, rejected for good (4xx), or without a usable answer (429, 5xx,
\* time-out, network) whether or not the order was created.
OrdenCreada(r) == IF orden[r] = "NINGUNA" THEN "ABIERTA" ELSE orden[r]

Enviar(w) ==
    LET r == sol[w] IN
    /\ pc[w] = "enviar"
    /\ \/ /\ orden' = [orden EXCEPT ![r] = OrdenCreada(r)]
          /\ \E s \in {OrdenCreada(r), "DESCONOCIDA"} : Responder(w, "guardar", s)
       \/ /\ orden' \in {orden, [orden EXCEPT ![r] = OrdenCreada(r)]}
          /\ Responder(w, "guardar", "FALLIDA_REINTENTABLE")
       \/ /\ Responder(w, "guardar", "FALLIDA_DEFINITIVA")
          /\ UNCHANGED orden
    /\ UNCHANGED <<tracking, comercial, fallas>>

\* Mutant: the answer is written whatever the tracking became meanwhile.
GuardarSiempre(w) ==
    LET r == sol[w] IN
    /\ pc[w] = "guardar"
    /\ ~Bloqueada(r)
    /\ estado' = [estado EXCEPT ![r] =
                     IF resp[w] \in Errores THEN resp[w] ELSE trackingState(resp[w])]
    /\ \E ref \in {"codigo", "id"} :
          referencia' = [referencia EXCEPT ![r] = IF resp[w] \in Errores THEN @ ELSE ref]
    /\ IF resp[w] \in Errores THEN Salir(w) ELSE Avanzar(w, "releer")
    /\ UNCHANGED <<evento, comercial, orden, fallas>>

\* updateNonTerminalTracking with the answer or, in the catch, with the failure.  An
\* answer with the order's code alone takes back the identifier an earlier one gave.
Guardar(w) ==
    LET r == sol[w] IN
    /\ pc[w] = "guardar"
    /\ ~Bloqueada(r)
    /\ estado' = [estado EXCEPT ![r] =
                     IF ~NoTerminal(r) THEN @
                     ELSE IF resp[w] \in Errores THEN resp[w] ELSE trackingState(resp[w])]
    /\ \E ref \in {"codigo", "id"} :
          referencia' = [referencia EXCEPT ![r] =
                             IF NoTerminal(r) /\ resp[w] \notin Errores THEN ref ELSE @]
    /\ IF resp[w] \in Errores THEN Salir(w) ELSE Avanzar(w, "releer")
    /\ UNCHANGED <<evento, comercial, orden, fallas>>

\* The row is read again: a completed one leaves the pipeline alone.
Releer(w) ==
    /\ pc[w] = "releer"
    /\ IF NoTerminal(sol[w]) THEN Avanzar(w, "pipeline") ELSE Salir(w)
    /\ UNCHANGED <<tracking, comercial, orden, fallas>>

ActualizarPipeline(w) ==
    /\ pc[w] = "pipeline"
    /\ pipeline' = pipelineState(resp[w])
    /\ Salir(w)
    /\ UNCHANGED <<tracking, contrato, servicio, orden, fallas>>

\* A database error after an accepted POST falls into the same catch.
ErrorInesperado(w) ==
    /\ \/ pc[w] \in {"releer", "pipeline"}
       \/ pc[w] = "guardar" /\ resp[w] \notin Errores
    /\ fallas < MaxFallas
    /\ fallas' = fallas + 1
    /\ Responder(w, "guardar", "FALLIDA_REINTENTABLE")
    /\ UNCHANGED <<tracking, comercial, orden>>

-----------------------------------------------------------------------------
(* detail: GET of the order, then a conditional update.                      *)

Consultar(w, r) ==
    /\ referencia[r] # "ninguna"
    /\ estado[r] # "COMPLETADA"
    /\ Empezar(w, r, "detalle")
    /\ \E s \in {orden[r], "DESCONOCIDA"} : resp' = [resp EXCEPT ![w] = s]
    /\ UNCHANGED <<tracking, comercial, orden, cierre, vContrato, vServicio, fallas>>

GuardarDetalle(w) ==
    LET r == sol[w] IN
    /\ pc[w] = "detalle"
    /\ ~Bloqueada(r)
    /\ estado' = [estado EXCEPT ![r] = IF NoTerminal(r) THEN trackingState(resp[w]) ELSE @]
    /\ Salir(w)
    /\ UNCHANGED <<referencia, evento, comercial, orden, fallas>>

-----------------------------------------------------------------------------
(* The closure: webhook or reconciliation, through the same processor.       *)

\* Mutant: an already completed tracking is not refused, its event not looked up.
AbrirSinDeduplicar(w, r, c) ==
    /\ orden[r] = "COMPLETADA"
    /\ referencia[r] = "id"
    /\ ~Bloqueada(r)
    /\ contrato \in ContratoInstalable
    /\ Empezar(w, r, "confirmar")
    /\ cierre' = [cierre EXCEPT ![w] = c]
    /\ vContrato' = [vContrato EXCEPT ![w] = contrato]
    /\ vServicio' = [vServicio EXCEPT ![w] = IF servicio = "ninguno" THEN "ninguno" ELSE "pendiente"]
    /\ UNCHANGED <<tracking, comercial, orden, resp, fallas>>

\* The transaction opens: the tracking is locked, correlated and not yet closed, and
\* activate reads an eligible contract and service.  Anything else is rejected, and
\* an identical event is a duplicate: neither changes the installation.
AbrirCierre(w, r, c) ==
    /\ orden[r] = "COMPLETADA"
    /\ referencia[r] = "id"
    /\ ~Bloqueada(r)
    /\ NoTerminal(r)
    /\ contrato \in ContratoInstalable
    /\ servicio \in ServicioInstalable
    /\ Empezar(w, r, "confirmar")
    /\ cierre' = [cierre EXCEPT ![w] = c]
    /\ vContrato' = [vContrato EXCEPT ![w] = contrato]
    /\ vServicio' = [vServicio EXCEPT ![w] = servicio]
    /\ UNCHANGED <<tracking, comercial, orden, resp, fallas>>

\* Mutant: the service is updated without its expected state.
SinCambiosSoloContrato(w) == contrato = vContrato[w]

\* The conditional updates of activate find the rows as it read them.
SinCambios(w) ==
    /\ contrato = vContrato[w]
    /\ vServicio[w] = "pendiente" => servicio = "pendiente"

\* The transaction commits everything, or rolls back on a row that changed.
ConfirmarCierre(w) ==
    LET r == sol[w] IN
    /\ pc[w] = "confirmar"
    /\ \/ /\ SinCambios(w)
          /\ servicio' = "activo"
          /\ contrato' = "Activo"
          /\ pipeline' = "Servicio Activo"
          /\ estado' = [estado EXCEPT ![r] = "COMPLETADA"]
          /\ evento' = [evento EXCEPT ![r] = cierre[w]]
       \/ /\ ~SinCambios(w)
          /\ UNCHANGED <<comercial, estado, evento>>
    /\ Salir(w)
    /\ UNCHANGED <<referencia, orden, fallas>>

-----------------------------------------------------------------------------
(* Failures and the rest of the world.                                       *)

\* The invocation dies: an open transaction rolls back.
Abortar(w) ==
    /\ pc[w] # "libre"
    /\ fallas < MaxFallas
    /\ fallas' = fallas + 1
    /\ Salir(w)
    /\ UNCHANGED <<tracking, comercial, orden>>

\* Collections label a contract with overdue invoices, and take the label away.
EtiquetarMora ==
    /\ contrato \in {"Activo", "Moroso"}
    /\ contrato' \in {"Activo", "Moroso"} \ {contrato}
    /\ UNCHANGED <<servicio, pipeline, tracking, orden, invocacion, fallas>>

\* They suspend it, with its active service.
Suspender ==
    /\ contrato \in {"Activo", "Moroso", "Suspendido"}
    /\ contrato' = "Suspendido"
    /\ servicio' = IF servicio = "activo" THEN "suspendido" ELSE servicio
    /\ UNCHANGED <<pipeline, tracking, orden, invocacion, fallas>>

\* The payment of the last overdue invoice brings a suspended installed service back
\* with its contract, and takes a delinquent contract out of its label.
Reactivar ==
    /\ \/ contrato = "Suspendido" /\ servicio = "suspendido" /\ Cerradas # {}
       \/ contrato = "Moroso"
    /\ contrato' = "Activo"
    /\ servicio' = IF servicio = "suspendido" /\ contrato = "Suspendido" THEN "activo" ELSE servicio
    /\ UNCHANGED <<pipeline, tracking, orden, invocacion, fallas>>

\* G3 ends the order in the field.
TerminarOrden(r) ==
    /\ orden[r] = "ABIERTA"
    /\ orden' \in {[orden EXCEPT ![r] = s] : s \in {"COMPLETADA", "CANCELADA"}}
    /\ UNCHANGED <<tracking, comercial, invocacion, fallas>>

-----------------------------------------------------------------------------
PasoDe(w) ==
    \/ SolicitarCrear(w) \/ Enviar(w) \/ Guardar(w) \/ Releer(w) \/ ActualizarPipeline(w)
    \/ ErrorInesperado(w) \/ GuardarDetalle(w) \/ ConfirmarCierre(w) \/ Abortar(w)

Next ==
    \/ \E w \in Workers, r \in Solicitudes :
          \/ SolicitarRevisar(w, r) \/ Retry(w, r) \/ Consultar(w, r)
          \/ \E c \in Cierres : AbrirCierre(w, r, c)
    \/ \E w \in Workers : PasoDe(w)
    \/ \E r \in Solicitudes : TerminarOrden(r)
    \/ EtiquetarMora \/ Suspender \/ Reactivar

Spec == Init /\ [][Next]_vars
-----------------------------------------------------------------------------
(* Properties.                                                               *)

\* One installation activates the service, once: at most one tracking of the
\* contract is completed, and the service is installed exactly when one is.
ActivatedOnce ==
    /\ \A r, s \in Cerradas : r = s
    /\ servicio \in ServicioInstalado <=> Cerradas # {}

\* Only the closure of an order that G3 completed completes a tracking, never an
\* answer that merely says COMPLETADA; the event and the verdict go together.
OnlyClosureCompletes ==
    \A r \in Solicitudes :
        /\ estado[r] = "COMPLETADA" <=> evento[r] # SinCierre
        /\ estado[r] = "COMPLETADA" => orden[r] = "COMPLETADA" /\ referencia[r] = "id"

\* A processed closure is final: late answers, retries, details and a second closure
\* with another content leave it as it is.
ClosureIsFinal ==
    [][\A r \in Solicitudes : estado[r] = "COMPLETADA" =>
          /\ estado'[r] = "COMPLETADA"
          /\ evento'[r] = evento[r]
          /\ referencia'[r] = "id"]_vars

\* The closure takes the pipeline to "Servicio Activo": it stays there afterwards.
PipelineFollowsActivation ==
    servicio \in ServicioInstalado => pipeline = "Servicio Activo"

-----------------------------------------------------------------------------
(* The inductive invariant.                                                  *)

\* A signed contract was never activated, any other has a service.
ContratoOK ==
    /\ contrato = "Firmado" => servicio \in ServicioInstalable
    /\ contrato # "Firmado" => servicio # "ninguno"

\* An open closure transaction holds its row alone, and read an eligible contract.
CierreOK(w) ==
    pc[w] = "confirmar" =>
        /\ NoTerminal(sol[w])
        /\ referencia[sol[w]] = "id"
        /\ orden[sol[w]] = "COMPLETADA"
        /\ cierre[w] \in Cierres
        /\ vContrato[w] = "Activo" => vServicio[w] = "pendiente"
        /\ \A v \in Workers : pc[v] = "confirmar" /\ sol[v] = sol[w] => v = w

\* Answers are about orders that exist; a row about to be created does not exist yet.
InvocacionOK(w) ==
    /\ pc[w] \in {"guardar", "releer", "pipeline", "detalle"} /\ resp[w] \notin Errores
          => orden[sol[w]] # "NINGUNA"
    /\ pc[w] \in {"guardar", "releer", "pipeline", "detalle"} => resp[w] # "NINGUNA"
    /\ pc[w] \in {"releer", "pipeline", "detalle"} => resp[w] \notin Errores
    /\ pc[w] = "crear" =>
          /\ estado[sol[w]] = "NINGUNA"
          /\ \A v \in Workers : pc[v] = "crear" => v = w
    /\ pc[w] \notin {"libre", "crear"} => estado[sol[w]] # "NINGUNA"
    /\ CierreOK(w)

OrdenOK ==
    \A r \in Solicitudes : referencia[r] # "ninguna" => orden[r] # "NINGUNA" /\ estado[r] # "NINGUNA"

InvocacionesOK == \A w \in Workers : InvocacionOK(w)

IInv ==
    /\ TypeOK
    /\ ContratoOK
    /\ OrdenOK
    /\ InvocacionesOK
    /\ ActivatedOnce
    /\ OnlyClosureCompletes
===============================================================================
