------------------------------- MODULE PlanChange -------------------------------
(***************************************************************************)
(* Changes of the plan of signed contracts (contracts.service.ts): at      *)
(* once, scheduled for a later day, cancelled, and applied by the timer    *)
(* of plan-change.processor.ts when they are due.                          *)
(*                                                                         *)
(* A request reads the contract with its services and the plan, and then   *)
(* runs a transaction under the contract's row lock: that transaction is   *)
(* one step.  So is each transaction of the timer, whose list of due       *)
(* changes was read before.  Prices and audit records follow the plan and  *)
(* decide nothing; they are left out.                                      *)
(***************************************************************************)
EXTENDS Naturals, Sequences, FiniteSets

CONSTANTS
    Usuarios,      \* concurrent requests
    Contratos,     \* contracts of the company
    Planes,        \* its plans
    PlanInicial,   \* the plan each contract was signed for
    Lote,          \* due changes read by one tick (100)
    MaxCambios,    \* bound: changes registered
    MaxDia         \* bound: last day

ASSUME PlanConstants ==
    /\ Contratos # {}
    /\ PlanInicial \in [Contratos -> Planes]
    /\ Lote \in Nat \ {0}
    /\ MaxCambios \in Nat
    /\ MaxDia \in Nat \ {0}

VARIABLES
    firmado,      \* isSignedContract(contrato.estado)
    plan,         \* contrato.idPlan
    servicio,     \* plan the contract's live service was last given, SinServicio before it exists
    activos,      \* plans with activo
    historial,    \* historialCambioPlan, in order of idCambioPlan
    hoy,          \* today, in days from the first
    pc,           \* whether a request waits for its transaction
    leido,        \* what it read
    corriendo,    \* PlanChangeProcessor.running
    lote          \* due changes of this tick that are left

filas == <<firmado, plan, servicio, activos, historial>>
timer == <<corriendo, lote>>
vars == <<filas, hoy, pc, leido, timer>>

Dias == 1 .. MaxDia
SinServicio == "sin servicio"
ASSUME ServicioAssumption == SinServicio \notin Planes

EstadosCambio == {"Pendiente", "Aplicado", "Cancelado"}
\* dia is fechaAplicacion, 0 while the change is not applied.
Cambio == [contrato : Contratos, anterior : Planes, nuevo : Planes, efectiva : Dias,
           estado : EstadosCambio, dia : 0 .. MaxDia]
Lectura == [contrato : Contratos, plan : Planes, nuevo : Planes, efectiva : Dias,
            programado : BOOLEAN, conServicio : BOOLEAN]
SinLectura == [contrato |-> CHOOSE c \in Contratos : TRUE, plan |-> CHOOSE p \in Planes : TRUE,
               nuevo |-> CHOOSE p \in Planes : TRUE, efectiva |-> 1, programado |-> FALSE,
               conServicio |-> FALSE]

Cambios == 1 .. Len(historial)

TypeOK ==
    /\ firmado \in [Contratos -> BOOLEAN]
    /\ plan \in [Contratos -> Planes]
    /\ servicio \in [Contratos -> Planes \cup {SinServicio}]
    /\ activos \in SUBSET Planes
    /\ historial \in Seq(Cambio)
    /\ hoy \in Dias
    /\ pc \in [Usuarios -> {"libre", "cambiar"}]
    /\ leido \in [Usuarios -> Lectura]
    /\ corriendo \in BOOLEAN
    /\ lote \in SUBSET Cambios

Pendiente(i) == historial[i].estado = "Pendiente"
PendienteDe(c) == \E i \in Cambios : historial[i].contrato = c /\ Pendiente(i)

Terminar(u) ==
    /\ pc' = [pc EXCEPT ![u] = "libre"]
    /\ leido' = [leido EXCEPT ![u] = SinLectura]

--------------------------------------------------------------------------------
\* changePlan: the checks on the contract and the plan that were read.
LeerCambio(u, c, p, dia) ==
    /\ pc[u] = "libre"
    /\ firmado[c]
    /\ plan[c] # p
    /\ p \in activos
    /\ dia >= hoy
    /\ pc' = [pc EXCEPT ![u] = "cambiar"]
    /\ leido' = [leido EXCEPT ![u] =
                    [contrato |-> c, plan |-> plan[c], nuevo |-> p, efectiva |-> dia,
                     programado |-> dia > hoy, conServicio |-> servicio[c] # SinServicio]]
    /\ UNCHANGED <<filas, hoy, timer>>

\* Mutant: the plan that was read is not compared under the lock.
VigenteFirmado(u) == firmado[leido[u].contrato]

\* Under the contract's lock: it is still as it was read.
Vigente(u) == firmado[leido[u].contrato] /\ plan[leido[u].contrato] = leido[u].plan

\* Mutant: a second change is registered next to one that waits.
AdmitidoSiempre(u) == Vigente(u)

Admitido(u) == Vigente(u) /\ ~PendienteDe(leido[u].contrato)

Registro(u) ==
    LET l == leido[u]
    IN  [contrato |-> l.contrato, anterior |-> l.plan, nuevo |-> l.nuevo, efectiva |-> l.efectiva,
         estado |-> IF l.programado THEN "Pendiente" ELSE "Aplicado",
         dia |-> IF l.programado THEN 0 ELSE hoy]

\* The services that were read receive the plan; one created since does not.
ConfirmarCambio(u) ==
    LET l == leido[u]
    IN  /\ pc[u] = "cambiar"
        /\ \/ /\ Admitido(u)
              /\ Len(historial) < MaxCambios
              /\ historial' = Append(historial, Registro(u))
              /\ plan' = IF l.programado THEN plan ELSE [plan EXCEPT ![l.contrato] = l.nuevo]
              /\ servicio' = IF l.programado \/ ~l.conServicio THEN servicio
                             ELSE [servicio EXCEPT ![l.contrato] = l.nuevo]
           \/ /\ ~Admitido(u)
              /\ UNCHANGED <<historial, plan, servicio>>
        /\ Terminar(u)
        /\ UNCHANGED <<firmado, activos, hoy, timer>>

\* The change with another state, applied on the given day.
Decidido(i, e, d) ==
    LET h == historial[i]
    IN  [contrato |-> h.contrato, anterior |-> h.anterior, nuevo |-> h.nuevo,
         efectiva |-> h.efectiva, estado |-> e, dia |-> d]
Decidir(i, e, d) == historial' = [historial EXCEPT ![i] = Decidido(i, e, d)]

\* cancelPlanChange, under the same lock.
CancelPlanChange(i) ==
    /\ Pendiente(i)
    /\ Decidir(i, "Cancelado", 0)
    /\ UNCHANGED <<firmado, plan, servicio, activos, hoy, pc, leido, timer>>

--------------------------------------------------------------------------------
\* The timer: the first Lote changes that are due, by date and identifier.
Debidos == {i \in Cambios : Pendiente(i) /\ historial[i].efectiva <= hoy}
Precede(i, j) ==
    \/ historial[i].efectiva < historial[j].efectiva
    \/ historial[i].efectiva = historial[j].efectiva /\ i < j
PrimerosDebidos == {i \in Debidos : Cardinality({j \in Debidos : Precede(j, i)}) < Lote}

EmpezarTick ==
    /\ ~corriendo
    /\ Debidos # {}
    /\ corriendo' = TRUE
    /\ lote' = PrimerosDebidos
    /\ UNCHANGED <<filas, hoy, pc, leido>>

Primero(i) == i \in lote /\ \A j \in lote \ {i} : Precede(i, j)

Aplicable(i) ==
    LET c == historial[i].contrato
    IN  firmado[c] /\ plan[c] = historial[i].anterior /\ historial[i].nuevo \in activos

\* Mutant: the change is not read again under the lock, only when it was listed.
AplicarSinReleer(i) ==
    LET c == historial[i].contrato
        p == historial[i].nuevo
    IN  /\ Primero(i)
        /\ \/ /\ ~Aplicable(i)
              /\ Decidir(i, "Cancelado", 0)
              /\ UNCHANGED <<plan, servicio>>
           \/ /\ Aplicable(i)
              /\ Decidir(i, "Aplicado", hoy)
              /\ plan' = [plan EXCEPT ![c] = p]
              /\ servicio' = IF servicio[c] = SinServicio THEN servicio ELSE [servicio EXCEPT ![c] = p]
        /\ lote' = lote \ {i}
        /\ corriendo' = (lote' # {})
        /\ UNCHANGED <<firmado, activos, hoy, pc, leido>>

\* One transaction of applyDuePlanChanges; the tick ends with its last change.
AplicarDebido(i) ==
    LET c == historial[i].contrato
        p == historial[i].nuevo
    IN  /\ Primero(i)
        /\ \/ /\ ~Pendiente(i)
              /\ UNCHANGED <<historial, plan, servicio>>
           \/ /\ Pendiente(i) /\ ~Aplicable(i)
              /\ Decidir(i, "Cancelado", 0)
              /\ UNCHANGED <<plan, servicio>>
           \/ /\ Pendiente(i) /\ Aplicable(i)
              /\ Decidir(i, "Aplicado", hoy)
              /\ plan' = [plan EXCEPT ![c] = p]
              /\ servicio' = IF servicio[c] = SinServicio THEN servicio ELSE [servicio EXCEPT ![c] = p]
        /\ lote' = lote \ {i}
        /\ corriendo' = (lote' # {})
        /\ UNCHANGED <<firmado, activos, hoy, pc, leido>>

\* Mutant: a tick that failed is never over.
FallarSinFinally ==
    /\ lote # {}
    /\ lote' = {}
    /\ UNCHANGED <<filas, hoy, pc, leido, corriendo>>

\* A transaction that throws ends the tick: the changes after it wait for the next one.
FallarTick ==
    /\ lote # {}
    /\ lote' = {}
    /\ corriendo' = FALSE
    /\ UNCHANGED <<filas, hoy, pc, leido>>

\* The process stops and starts again: what it had read is lost.
Reiniciar ==
    /\ corriendo \/ \E u \in Usuarios : pc[u] # "libre"
    /\ pc' = [u \in Usuarios |-> "libre"]
    /\ leido' = [u \in Usuarios |-> SinLectura]
    /\ corriendo' = FALSE
    /\ lote' = {}
    /\ UNCHANGED <<filas, hoy>>

--------------------------------------------------------------------------------
\* What other parts do to the same rows: G3's closure creates the service with the
\* plan the contract has, a retirement ends the contract, and a plan is withdrawn.
CrearServicio(c) ==
    /\ firmado[c]
    /\ servicio[c] = SinServicio
    /\ servicio' = [servicio EXCEPT ![c] = plan[c]]
    /\ UNCHANGED <<firmado, plan, activos, historial, hoy, pc, leido, timer>>

BajaContrato(c) ==
    /\ firmado[c]
    /\ firmado' = [firmado EXCEPT ![c] = FALSE]
    /\ UNCHANGED <<plan, servicio, activos, historial, hoy, pc, leido, timer>>

DesactivarPlan(p) ==
    /\ p \in activos
    /\ activos' = activos \ {p}
    /\ UNCHANGED <<firmado, plan, servicio, historial, hoy, pc, leido, timer>>

NuevoDia ==
    /\ hoy < MaxDia
    /\ hoy' = hoy + 1
    /\ UNCHANGED <<filas, pc, leido, timer>>

--------------------------------------------------------------------------------
Init ==
    /\ firmado = [c \in Contratos |-> TRUE]
    /\ plan = PlanInicial
    /\ servicio = [c \in Contratos |-> SinServicio]
    /\ activos = Planes
    /\ historial = <<>>
    /\ hoy = 1
    /\ pc = [u \in Usuarios |-> "libre"]
    /\ leido = [u \in Usuarios |-> SinLectura]
    /\ corriendo = FALSE
    /\ lote = {}

Next ==
    \/ \E u \in Usuarios, c \in Contratos, p \in Planes, d \in Dias : LeerCambio(u, c, p, d)
    \/ \E u \in Usuarios : ConfirmarCambio(u)
    \/ \E i \in Cambios : CancelPlanChange(i) \/ AplicarDebido(i)
    \/ EmpezarTick
    \/ FallarTick
    \/ Reiniciar
    \/ \E c \in Contratos : CrearServicio(c) \/ BajaContrato(c)
    \/ \E p \in Planes : DesactivarPlan(p)
    \/ NuevoDia

Spec == Init /\ [][Next]_vars

\* Days pass, the interval calls the timer again and again, and a transaction that
\* is tried for ever does not fail for ever.
FairSpec ==
    /\ Spec
    /\ WF_vars(NuevoDia)
    /\ WF_vars(EmpezarTick)
    /\ SF_vars(\E i \in Cambios : AplicarDebido(i))

--------------------------------------------------------------------------------
(* Properties *)

\* A change that waits is the last one registered for its contract: requests that
\* read the contract before it was registered do not slip another one in.
PendienteEsUltimo ==
    \A i, j \in Cambios : i < j /\ historial[i].contrato = historial[j].contrato => ~Pendiente(i)

\* Change i of the history h was applied to contract c.
Aplicado(h, c, i) == h[i].contrato = c /\ h[i].estado = "Aplicado"

\* p is the plan of contract c after the first n changes of the history h.
PlanTras(h, c, n, p) ==
    \/ p = PlanInicial[c] /\ \A i \in 1 .. n : ~Aplicado(h, c, i)
    \/ \E i \in 1 .. n : /\ Aplicado(h, c, i) /\ h[i].nuevo = p
                         /\ \A j \in i + 1 .. n : ~Aplicado(h, c, j)

\* The history accounts for the contract: the applied changes start at the plan that
\* was signed, each takes up the plan the one before it left, and the last left the
\* plan the contract has.
HistorialEncadenado ==
    /\ \A c \in Contratos : PlanTras(historial, c, Len(historial), plan[c])
    /\ \A i \in Cambios : historial[i].estado = "Aplicado" =>
           PlanTras(historial, historial[i].contrato, i - 1, historial[i].anterior)

\* No change takes effect before its day, whatever day its request was read on.
NuncaAntes ==
    \A i \in Cambios : historial[i].estado = "Aplicado" =>
        historial[i].efectiva <= historial[i].dia /\ historial[i].dia <= hoy

\* What requests and ticks under way rely on.
LecturasFundadas ==
    /\ \A u \in Usuarios : pc[u] = "cambiar" =>
           (leido[u].programado \/ leido[u].efectiva <= hoy)
    /\ \A i \in lote : historial[i].efectiva <= hoy

\* The inductive invariant of the changes.
IInv == TypeOK /\ PendienteEsUltimo /\ HistorialEncadenado /\ NuncaAntes /\ LecturasFundadas

\* A change is decided once: what was applied is never cancelled nor applied again,
\* although a tick lists it before another one, or a cancellation, decides it.
DecididoUnaVez ==
    [][\A i \in Cambios : ~Pendiente(i) => historial'[i] = historial[i]]_vars

\* Every scheduled change is applied or cancelled in the end: one whose transaction
\* fails does not keep the later ones waiting for ever.
CambiosSeDeciden ==
    \A i \in 1 .. MaxCambios :
        (i \in Cambios /\ Pendiente(i)) ~> (i \in Cambios /\ ~Pendiente(i))

\* "El cambio de plan [...] actualiza el tipo del servicio desde el nuevo plan."
ServicioSigueAlPlan ==
    \A c \in Contratos : firmado[c] /\ servicio[c] # SinServicio => servicio[c] = plan[c]
================================================================================
