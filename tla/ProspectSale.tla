----------------------------- MODULE ProspectSale -----------------------------
(***************************************************************************)
(* The sale of a service to one prospect: the manual pipeline, the         *)
(* feasibility checks, the quotes, the loss, the contract, its manual      *)
(* signature and the changes of its plan (prospects.service.ts,            *)
(* contracts.service.ts), up to the installation request and the           *)
(* activation that G3Installation details.                                 *)
(*                                                                         *)
(* Each request reads the prospect, waits for coverage, a mail server or a *)
(* row lock, and writes later: every such wait is a step boundary.  A row  *)
(* lock (SELECT ... FOR UPDATE, or an UPDATE not committed yet) is held in *)
(* bloqueoProspecto and bloqueoContrato; what a transaction wrote is seen  *)
(* by the others when it commits.  Coverage is a fixed function of the     *)
(* place.  Audit records and the mail itself change nothing here.          *)
(***************************************************************************)
EXTENDS Naturals, Sequences

CONSTANTS
    Usuarios,      \* concurrent requests on the prospect
    Nadie,         \* no request holds the lock
    Planes,        \* active plans of the prospect's company
    SinPlan,       \* a feasibility check is a verified quote without plan
    Ubicaciones,   \* places: coordinates with their address
    PlanesEn       \* plans commercially available at a place, {} without coverage

ASSUME SaleConstants ==
    /\ Nadie \notin Usuarios
    /\ SinPlan \notin Planes
    /\ PlanesEn \in [Ubicaciones -> SUBSET Planes]

VARIABLES
    pipeline,          \* prospecto.estadoPipeline
    ubicacion,         \* prospecto.latitud, longitud and direccion
    cliente,           \* prospecto.idCliente is set
    verificadas,       \* plans of its quotes with factibilidadVerificada, sent
    contratos,         \* its contracts, oldest first
    original,          \* plan before the first change in its history, SinPlan without one
    programado,        \* the change of plan scheduled and not decided yet
    solicitadas,       \* plans whose installation was requested from G3
    bloqueoProspecto,  \* request that holds the prospect's row
    bloqueoContrato,   \* request that holds the contract's row
    pc,                \* what a request waits for
    leido              \* what it read before

cambios == <<original, programado>>
prospecto == <<pipeline, ubicacion, cliente, verificadas, contratos, cambios, solicitadas>>
bloqueos == <<bloqueoProspecto, bloqueoContrato>>
vars == <<prospecto, bloqueos, pc, leido>>

PIPELINE_STATUSES ==
    <<"Prospecto Nuevo", "Contactado", "En Factibilidad", "Factible", "No Factible",
      "Cotizacion Enviada", "Contrato externo registrado", "Pendiente firma", "Aceptado",
      "Instalacion Programada", "Servicio Activo">>

\* Stages a request of this version of the program can write.  "Instalacion G3"
\* stands for the labels of the installation's progress at G3.
Etapas == {"Prospecto Nuevo", "Contactado", "En Factibilidad", "Factible", "No Factible",
           "Cotizacion Enviada", "Pendiente firma", "Pendiente activacion",
           "Instalacion G3", "Servicio Activo", "Perdido"}
Manuales == {"Prospecto Nuevo", "Contactado", "En Factibilidad"}
Factibilidad == Manuales \cup {"Factible", "No Factible"}
Cotizables == Factibilidad \cup {"Cotizacion Enviada"}
Firmados == {"Firmado", "Activo"}

\* A stage that is not in the list, such as "Pendiente activacion", counts as the first.
statusIndex(s) ==
    IF \E i \in DOMAIN PIPELINE_STATUSES : PIPELINE_STATUSES[i] = s
    THEN (CHOOSE i \in DOMAIN PIPELINE_STATUSES : PIPELINE_STATUSES[i] = s) - 1
    ELSE 0

Contrato == [estado : {"Pendiente firma contrato"} \cup Firmados,
             plan : Planes, ubicacion : Ubicaciones]
Lectura == [etapa : Etapas, destino : Etapas, ubicacion : Ubicaciones,
            plan : Planes \cup {SinPlan}, nuevo : Planes \cup {SinPlan}]

\* A row of historialCambioPlan that is Pendiente: idPlanAnterior and idPlanNuevo.
SinCambio == [anterior |-> SinPlan, nuevo |-> SinPlan]
Cambio == {c \in [anterior : Planes, nuevo : Planes] : c.nuevo # c.anterior} \cup {SinCambio}

Pasos == {"libre", "cambiar", "mover", "releer", "guardar", "cotizar", "avanzar",
          "contratar", "contratando", "firmar", "firmando", "cambiarPlan"}

TypeOK ==
    /\ pipeline \in Etapas
    /\ ubicacion \in Ubicaciones
    /\ cliente \in BOOLEAN
    /\ verificadas \in SUBSET (Planes \cup {SinPlan})
    /\ contratos \in Seq(Contrato)
    /\ original \in Planes \cup {SinPlan}
    /\ programado \in Cambio
    /\ solicitadas \in SUBSET Planes
    /\ bloqueoProspecto \in Usuarios \cup {Nadie}
    /\ bloqueoContrato \in Usuarios \cup {Nadie}
    /\ pc \in [Usuarios -> Pasos]
    /\ leido \in [Usuarios -> Lectura]

ultimo == contratos[Len(contratos)]
ContratoVivo == contratos # <<>>

\* What a request reads of the prospect, with what its caller asks for.
Leer(l, d, p) ==
    [etapa |-> pipeline, destino |-> d, ubicacion |-> l, plan |-> p, nuevo |-> SinPlan]

Pasar(u, paso) == pc' = [pc EXCEPT ![u] = paso]

\* A request that ends forgets what it read, so that equal situations are one state.
SinLectura == [etapa |-> "Prospecto Nuevo", destino |-> "Prospecto Nuevo",
               ubicacion |-> CHOOSE l \in Ubicaciones : TRUE, plan |-> SinPlan,
               nuevo |-> SinPlan]

Terminar(u) ==
    /\ Pasar(u, "libre")
    /\ leido' = [leido EXCEPT ![u] = SinLectura]

Empezar(u, paso, lectura) ==
    /\ pc[u] = "libre"
    /\ Pasar(u, paso)
    /\ leido' = [leido EXCEPT ![u] = lectura]
    /\ UNCHANGED <<prospecto, bloqueos>>

--------------------------------------------------------------------------------
\* updatePipeline: only the first three stages are set by hand, in order; a lost
\* prospect is only taken up again as new.
validatePipelineTransition(actual, siguiente) ==
    /\ siguiente \in Manuales
    /\ \/ actual = "Perdido" /\ siguiente = "Prospecto Nuevo"
       \/ actual \in Manuales /\ statusIndex(siguiente) >= statusIndex(actual)

LeerPipeline(u, siguiente) ==
    /\ validatePipelineTransition(pipeline, siguiente)
    /\ ~cliente /\ ~ContratoVivo
    /\ Empezar(u, "cambiar", Leer(ubicacion, siguiente, SinPlan))

\* recordLoss
LeerPerdida(u) ==
    /\ pipeline \in Cotizables \cup {"Perdido"}
    /\ ~cliente /\ ~ContratoVivo
    /\ Empezar(u, "cambiar", Leer(ubicacion, "Perdido", SinPlan))

\* manualChangeWhere: the update matches only the prospect that was read.
Intacto(u) == pipeline = leido[u].etapa /\ ~cliente /\ ~ContratoVivo

CambiarEtapa(u) ==
    /\ pc[u] = "cambiar"
    /\ bloqueoProspecto = Nadie
    /\ pipeline' = IF Intacto(u) THEN leido[u].destino ELSE pipeline
    /\ Terminar(u)
    /\ UNCHANGED <<ubicacion, cliente, verificadas, contratos, cambios, solicitadas, bloqueos>>

--------------------------------------------------------------------------------
\* verifyFeasibility asks for the coverage of the place it read.
LeerFactibilidad(u) ==
    /\ pipeline \in Factibilidad
    /\ Empezar(u, "releer", Leer(ubicacion, pipeline, SinPlan))

\* verifyTomodat asks for the coverage of a place it is given, and moves the
\* prospect there before it saves the answer.
LeerTomodat(u, l) ==
    /\ pipeline \in Factibilidad
    /\ Empezar(u, "mover", Leer(l, pipeline, SinPlan))

MoverTomodat(u) ==
    /\ pc[u] = "mover"
    /\ bloqueoProspecto = Nadie
    /\ ubicacion' = leido[u].ubicacion
    /\ Pasar(u, "releer")
    /\ UNCHANGED <<pipeline, cliente, verificadas, contratos, cambios, solicitadas, bloqueos, leido>>

\* saveFeasibility reads the prospect again.
RevisarEtapa(u) ==
    /\ pc[u] = "releer"
    /\ \/ /\ pipeline \in Factibilidad
          /\ Pasar(u, "guardar")
          /\ leido' = [leido EXCEPT ![u] = Leer(leido[u].ubicacion, pipeline, SinPlan)]
       \/ /\ pipeline \notin Factibilidad
          /\ Terminar(u)
    /\ UNCHANGED <<prospecto, bloqueos>>

\* Mutant: the update of the stage does not require the stage that was read.
GuardarSinCondicion(u) ==
    LET cubierta == PlanesEn[leido[u].ubicacion] # {}
    IN  /\ pc[u] = "guardar"
        /\ bloqueoProspecto = Nadie
        /\ pipeline' = IF cubierta THEN "Factible" ELSE "No Factible"
        /\ verificadas' = IF cubierta THEN {SinPlan} ELSE {}
        /\ Terminar(u)
        /\ UNCHANGED <<ubicacion, cliente, contratos, cambios, solicitadas, bloqueos>>

\* The earlier quotes stop being verified; a positive answer is a verified one.
GuardarFactibilidad(u) ==
    LET cubierta == PlanesEn[leido[u].ubicacion] # {}
        intacta == pipeline = leido[u].etapa
    IN  /\ pc[u] = "guardar"
        /\ bloqueoProspecto = Nadie
        /\ pipeline' = IF ~intacta THEN pipeline
                       ELSE IF cubierta THEN "Factible" ELSE "No Factible"
        /\ verificadas' = IF ~intacta THEN verificadas
                          ELSE IF cubierta THEN {SinPlan} ELSE {}
        /\ Terminar(u)
        /\ UNCHANGED <<ubicacion, cliente, contratos, cambios, solicitadas, bloqueos>>

\* updateLocation, under the prospect's lock and only without a contract.
UpdateLocation(u, l) ==
    /\ pc[u] = "libre"
    /\ bloqueoProspecto = Nadie
    /\ contratos = <<>>
    /\ ubicacion' = l
    /\ UNCHANGED <<pipeline, cliente, verificadas, contratos, cambios, solicitadas, bloqueos, pc, leido>>

--------------------------------------------------------------------------------
\* generateQuote: the checks, the quote, and after the mail the stage.
LeerCotizacion(u, p) ==
    /\ p \in PlanesEn[ubicacion]
    /\ pipeline # "Perdido"
    /\ Empezar(u, "cotizar", Leer(ubicacion, pipeline, p))

\* The new row refers to the prospect: it waits for whoever holds it FOR UPDATE.
CrearCotizacion(u) ==
    /\ pc[u] = "cotizar"
    /\ bloqueoProspecto = Nadie
    /\ verificadas' = verificadas \cup {leido[u].plan}
    /\ Pasar(u, "avanzar")
    /\ UNCHANGED <<pipeline, ubicacion, cliente, contratos, cambios, solicitadas, bloqueos, leido>>

\* The stage that was read decides; the one that is there now is not looked at.
AvanzarCotizada(u) ==
    /\ pc[u] = "avanzar"
    /\ bloqueoProspecto = Nadie
    /\ pipeline' = IF statusIndex(leido[u].etapa) < statusIndex("Cotizacion Enviada")
                   THEN "Cotizacion Enviada" ELSE pipeline
    /\ Terminar(u)
    /\ UNCHANGED <<ubicacion, cliente, verificadas, contratos, cambios, solicitadas, bloqueos>>

--------------------------------------------------------------------------------
\* contractPlan: the checks outside the transaction.
LeerContratacion(u, p) ==
    /\ ~cliente
    /\ pipeline \notin {"No Factible", "Perdido"}
    /\ p \in verificadas
    /\ p \in PlanesEn[ubicacion]
    /\ Empezar(u, "contratar", Leer(ubicacion, pipeline, p))

BloquearProspecto(u) ==
    /\ pc[u] = "contratar"
    /\ bloqueoProspecto = Nadie
    /\ bloqueoProspecto' = u
    /\ Pasar(u, "contratando")
    /\ UNCHANGED <<prospecto, bloqueoContrato, leido>>

\* The prospect is as it was read, as far as the checks depend on it.
Vigente(u) ==
    /\ ~cliente
    /\ pipeline \notin {"No Factible", "Perdido"}
    /\ ubicacion = leido[u].ubicacion
    /\ leido[u].plan \in verificadas

\* Mutant: whatever contract there is is used again.
ContratableFirmado(u) == contratos # <<>> => bloqueoContrato = Nadie

\* There is no contract, or one pending of signature that nobody is signing:
\* FOR UPDATE NOWAIT refuses instead of waiting for the signature.
Contratable(u) ==
    contratos # <<>> => /\ bloqueoContrato = Nadie
                        /\ ultimo.estado = "Pendiente firma contrato"

ConContrato(c) ==
    IF contratos = <<>> THEN <<c>> ELSE [contratos EXCEPT ![Len(contratos)] = c]

\* Mutant: FOR UPDATE without NOWAIT.
ConfirmarEsperando(u) ==
    /\ pc[u] = "contratando"
    /\ contratos # <<>> => bloqueoContrato = Nadie
    /\ \/ /\ Vigente(u) /\ Contratable(u)
          /\ contratos' = ConContrato([estado |-> "Pendiente firma contrato",
                                      plan |-> leido[u].plan, ubicacion |-> ubicacion])
          /\ pipeline' = "Pendiente firma"
       \/ /\ ~(Vigente(u) /\ Contratable(u))
          /\ UNCHANGED <<contratos, pipeline>>
    /\ bloqueoProspecto' = Nadie
    /\ Terminar(u)
    /\ UNCHANGED <<ubicacion, cliente, verificadas, cambios, solicitadas, bloqueoContrato>>

ConfirmarContrato(u) ==
    /\ pc[u] = "contratando"
    /\ \/ /\ Vigente(u) /\ Contratable(u)
          /\ contratos' = ConContrato([estado |-> "Pendiente firma contrato",
                                      plan |-> leido[u].plan, ubicacion |-> ubicacion])
          /\ pipeline' = "Pendiente firma"
       \/ /\ ~(Vigente(u) /\ Contratable(u))
          /\ UNCHANGED <<contratos, pipeline>>
    /\ bloqueoProspecto' = Nadie
    /\ Terminar(u)
    /\ UNCHANGED <<ubicacion, cliente, verificadas, cambios, solicitadas, bloqueoContrato>>

--------------------------------------------------------------------------------
\* confirmManualSignature: a signed contract is answered at once; the transaction
\* takes the contract's row and then waits for the prospect's.
LeerFirma(u) ==
    /\ ContratoVivo
    /\ ultimo.estado = "Pendiente firma contrato"
    /\ Empezar(u, "firmar", Leer(ubicacion, pipeline, SinPlan))

BloquearContrato(u) ==
    /\ pc[u] = "firmar"
    /\ bloqueoContrato = Nadie
    /\ bloqueoContrato' = u
    /\ Pasar(u, "firmando")
    /\ UNCHANGED <<prospecto, bloqueoProspecto, leido>>

\* The contract's customer is the prospect's: both are set by the activation.
Firmar(u) ==
    /\ pc[u] = "firmando"
    /\ cliente \/ bloqueoProspecto = Nadie
    /\ contratos' = [contratos EXCEPT ![Len(contratos)] = [ultimo EXCEPT !.estado = "Firmado"]]
    /\ pipeline' = IF cliente THEN pipeline ELSE "Pendiente activacion"
    /\ bloqueoContrato' = Nadie
    /\ Terminar(u)
    /\ UNCHANGED <<ubicacion, cliente, verificadas, cambios, solicitadas, bloqueoProspecto>>

--------------------------------------------------------------------------------
\* changePlan of a signed contract, installed or not, to any other active plan: neither
\* coverage nor a quote is asked for.
ContratoFirmado == ContratoVivo /\ ultimo.estado \in Firmados

LeerCambio(u, p) ==
    /\ ContratoFirmado
    /\ p # ultimo.plan
    /\ Empezar(u, "cambiarPlan", [SinLectura EXCEPT !.plan = ultimo.plan, !.nuevo = p])

\* Under the contract's lock: signed, of the plan that was read, no change pending.
Cambiable(u) ==
    /\ ContratoFirmado
    /\ ultimo.plan = leido[u].plan
    /\ programado = SinCambio

\* The contract takes its new plan and the history keeps the one it had.
AplicarCambio(anterior, nuevo) ==
    /\ contratos' = [contratos EXCEPT ![Len(contratos)] = [ultimo EXCEPT !.plan = nuevo]]
    /\ original' = IF original = SinPlan THEN anterior ELSE original

\* Effective today it is applied, later it is scheduled.
CambiarPlan(u) ==
    /\ pc[u] = "cambiarPlan"
    /\ bloqueoContrato = Nadie
    /\ \/ /\ Cambiable(u)
          /\ AplicarCambio(leido[u].plan, leido[u].nuevo)
          /\ UNCHANGED programado
       \/ /\ Cambiable(u)
          /\ programado' = [anterior |-> leido[u].plan, nuevo |-> leido[u].nuevo]
          /\ UNCHANGED <<contratos, original>>
       \/ /\ ~Cambiable(u)
          /\ UNCHANGED <<contratos, cambios>>
    /\ Terminar(u)
    /\ UNCHANGED <<pipeline, ubicacion, cliente, verificadas, solicitadas, bloqueos>>

\* applyDuePlanChanges, by the timer.
AplicarProgramado ==
    /\ programado # SinCambio
    /\ bloqueoContrato = Nadie
    /\ ContratoFirmado /\ ultimo.plan = programado.anterior
    /\ AplicarCambio(programado.anterior, programado.nuevo)
    /\ programado' = SinCambio
    /\ UNCHANGED <<pipeline, ubicacion, cliente, verificadas, solicitadas, bloqueos, pc, leido>>

\* cancelPlanChange, or the timer when the change holds no longer.
CancelarProgramado ==
    /\ programado # SinCambio
    /\ bloqueoContrato = Nadie
    /\ programado' = SinCambio
    /\ UNCHANGED <<pipeline, ubicacion, cliente, verificadas, contratos, original, solicitadas,
                   bloqueos, pc, leido>>

--------------------------------------------------------------------------------
\* G3Installation in detail: the request for the installation of the plan in force,
\* which needs a verified quote of that plan, the progress G3 reports, and the closure,
\* which is refused when the contract has another plan than was requested.
SolicitudAdmitida == ContratoFirmado /\ ultimo.plan \in verificadas

SolicitarInstalacion ==
    /\ SolicitudAdmitida
    /\ ~cliente
    /\ bloqueoProspecto = Nadie
    /\ solicitadas' = solicitadas \cup {ultimo.plan}
    /\ pipeline' = "Instalacion G3"
    /\ UNCHANGED <<ubicacion, cliente, verificadas, contratos, cambios, bloqueos, pc, leido>>

ActivarInstalacion ==
    /\ ~cliente
    /\ ContratoFirmado /\ ultimo.plan \in solicitadas
    /\ bloqueoContrato = Nadie /\ bloqueoProspecto = Nadie
    /\ cliente' = TRUE
    /\ pipeline' = "Servicio Activo"
    /\ contratos' = [contratos EXCEPT ![Len(contratos)] = [ultimo EXCEPT !.estado = "Activo"]]
    /\ UNCHANGED <<ubicacion, verificadas, cambios, solicitadas, bloqueos, pc, leido>>

--------------------------------------------------------------------------------
\* The two lists of prospects: those on sale, and those signed that wait for their
\* installation (the service, and with it the customer, appears at the activation).
activeProspectWhere == pipeline # "Perdido" /\ ~cliente /\ ~ContratoFirmado
pendingActivationWhere == ContratoFirmado /\ ~cliente

--------------------------------------------------------------------------------
\* create: with its coordinates, the coverage is asked for before the row is written.
Init ==
    /\ ubicacion \in Ubicaciones
    /\ \/ pipeline = "Prospecto Nuevo" /\ verificadas = {}
       \/ pipeline = "Factible" /\ verificadas = {SinPlan} /\ PlanesEn[ubicacion] # {}
       \/ pipeline = "No Factible" /\ verificadas = {} /\ PlanesEn[ubicacion] = {}
    /\ cliente = FALSE
    /\ contratos = <<>>
    /\ original = SinPlan
    /\ programado = SinCambio
    /\ solicitadas = {}
    /\ bloqueoProspecto = Nadie
    /\ bloqueoContrato = Nadie
    /\ pc = [u \in Usuarios |-> "libre"]
    /\ leido = [u \in Usuarios |-> SinLectura]

Pedir(u) ==
    \/ \E e \in Etapas : LeerPipeline(u, e)
    \/ LeerPerdida(u)
    \/ LeerFactibilidad(u)
    \/ \E l \in Ubicaciones : LeerTomodat(u, l) \/ UpdateLocation(u, l)
    \/ \E p \in Planes : LeerCotizacion(u, p) \/ LeerContratacion(u, p) \/ LeerCambio(u, p)
    \/ LeerFirma(u)

\* The next step of a request that has started.
Continuar(u) ==
    \/ CambiarEtapa(u)
    \/ MoverTomodat(u)
    \/ RevisarEtapa(u)
    \/ GuardarFactibilidad(u)
    \/ CrearCotizacion(u)
    \/ AvanzarCotizada(u)
    \/ BloquearProspecto(u)
    \/ ConfirmarContrato(u)
    \/ BloquearContrato(u)
    \/ Firmar(u)
    \/ CambiarPlan(u)

Next ==
    \/ \E u \in Usuarios : Pedir(u) \/ Continuar(u)
    \/ AplicarProgramado
    \/ CancelarProgramado
    \/ SolicitarInstalacion
    \/ ActivarInstalacion

Spec == Init /\ [][Next]_vars

\* A request that has started is carried on; PostgreSQL grants a row lock in the
\* order of the waiting requests, so that none waits for ever while others pass.
FairSpec == Spec /\ \A u \in Usuarios : SF_vars(Continuar(u))

--------------------------------------------------------------------------------
(* Properties *)

\* Row locks are held exactly by the transactions that took them.
BloqueosCoherentes ==
    \A u \in Usuarios :
        /\ bloqueoProspecto = u <=> pc[u] = "contratando"
        /\ bloqueoContrato = u <=> pc[u] = "firmando"

\* Two confirmations of the contracting of one prospect, however they interleave
\* with its signature, never leave it with two contracts.
UnContrato == Len(contratos) <= 1

\* A prospect recorded as lost has no contract, and one with a contract never
\* falls back to a stage in which its feasibility can be revised.
ContratoDespuesDeFactibilidad ==
    ContratoVivo => pipeline \notin Factibilidad \cup {"Perdido"}

\* The plan agreed: the one signed, which the history of the changes still tells when
\* the plan in force is another.
planAcordado == IF original = SinPlan THEN ultimo.plan ELSE original

\* Only what is signed changes its plan, and only what is signed is installed.
SoloFirmado ==
    original # SinPlan \/ programado # SinCambio \/ solicitadas # {} => ContratoFirmado

\* The plan agreed is one that coverage offered at the place the prospect had when the
\* contract was committed, although the coverage was asked before.  The plan in force
\* need not be: changePlan does not look.
ContratoCubierto == ContratoVivo => planAcordado \in PlanesEn[ultimo.ubicacion]

\* The verified quotes that the contract and the requests for its installation were
\* based on are not invalidated behind them: while its plan is the one agreed, the
\* installation of a signed contract can always be requested.
ContratoCotizado ==
    /\ ContratoVivo => planAcordado \in verificadas
    /\ solicitadas \subseteq verificadas

\* A prospect is never dropped from view nor shown twice: it is lost, on sale,
\* waiting for its installation, or a customer, and exactly one of them.
EnUnaLista ==
    /\ cliente => ContratoFirmado
    /\ pipeline = "Perdido" => ~cliente /\ ~pendingActivationWhere /\ ~activeProspectWhere
    /\ pipeline # "Perdido" /\ ~cliente => (activeProspectWhere <=> ~pendingActivationWhere)

\* What requests under way rely on.
LecturasFundadas ==
    \A u \in Usuarios :
        /\ pc[u] = "guardar" => leido[u].etapa \in Factibilidad
        /\ pc[u] \in {"cotizar", "avanzar", "contratar", "contratando"} => leido[u].plan \in Planes
        /\ pc[u] \in {"contratar", "contratando"} => leido[u].plan \in PlanesEn[leido[u].ubicacion]
        /\ pc[u] \in {"firmar", "firmando"} => ContratoVivo
        /\ pc[u] = "cambiarPlan" => leido[u].plan \in Planes /\ leido[u].nuevo \in Planes
        /\ pc[u] = "cambiarPlan" => leido[u].nuevo # leido[u].plan

\* The inductive invariant of the sale.
IInv ==
    /\ TypeOK
    /\ BloqueosCoherentes
    /\ UnContrato
    /\ SoloFirmado
    /\ ContratoDespuesDeFactibilidad
    /\ ContratoCubierto
    /\ ContratoCotizado
    /\ EnUnaLista
    /\ LecturasFundadas

\* The sale as its agreement: opened, lost, contracted, signed, with the plan in force.
SinAcuerdo == [plan |-> SinPlan, ubicacion |-> SinPlan]
fase ==
    IF ~ContratoVivo THEN (IF pipeline = "Perdido" THEN "perdida" ELSE "abierta")
    ELSE IF ultimo.estado \in Firmados THEN "firmada" ELSE "contratada"
acuerdo ==
    IF ~ContratoVivo THEN SinAcuerdo ELSE [plan |-> planAcordado, ubicacion |-> ultimo.ubicacion]
enVigor == IF ~ContratoVivo THEN SinPlan ELSE ultimo.plan
Acuerdo == INSTANCE SaleAgreement WITH fase <- fase, acuerdo <- acuerdo, enVigor <- enVigor
ImplementsAgreement == Acuerdo!ASpec

\* Signing and contracting take the two rows in opposite order; neither waits for
\* the other for ever, and every request gets its answer.
SolicitudesTerminan == \A u \in Usuarios : []<>(pc[u] = "libre")

\* "Un prospecto perdido no puede avanzar a cotizacion": a loss is only left by
\* taking the prospect up again as new.
PerdidoSoloReactiva ==
    [][pipeline = "Perdido" => pipeline' \in {"Perdido", "Prospecto Nuevo"}]_vars
================================================================================
