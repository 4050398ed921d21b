------------------------------ MODULE CustomerCare -----------------------------
(***************************************************************************)
(* Records of customer care: support tickets (tickets.service.ts), the     *)
(* WiFi results G2 sends for them (g2-integration.service.ts), customer    *)
(* requests (requests.service.ts) and service withdrawals                  *)
(* (service-withdrawal.service.ts).                                        *)
(*                                                                         *)
(* A handler reads its record, decides on what it read and writes later:   *)
(* a ticket and a withdrawal without a condition, a request where its      *)
(* state is still the one read, a WiFi result under a lock of the ticket.  *)
(*                                                                         *)
(* Its names keep clear of those of Messaging, the other side of the       *)
(* contact with a customer: the proofs about the two share a module.       *)
(***************************************************************************)
EXTENDS Naturals

CONSTANTS
    Tickets, Solicitudes, Retiros,
    ConOrden,   \* tickets with a historical work order that was not completed
    Notas,      \* comments, diagnoses and technical notes
    Pedidos,    \* request_id of G2's WiFi results
    Usuarios    \* requests being handled at once, those of G2 among them

Registros == Tickets \cup Solicitudes \cup Retiros

ASSUME CareConstants ==
    /\ Tickets \cap Solicitudes = {}
    /\ Tickets \cap Retiros = {}
    /\ Solicitudes \cap Retiros = {}
    /\ ConOrden \subseteq Tickets
    /\ Registros # {} /\ Pedidos # {}

VARIABLES
    estadoDe,    \* state of each record, "sin crear" before it
    cierre,      \* its fechaCierre is set
    notas,       \* what the description of a ticket holds
    wifi,        \* tickets of category CAMBIO_CREDENCIALES_WIFI
    motivo,      \* requests with a motivoNoFactible
    resultados,  \* IntegracionResultadoWifiG2: request_id, ticket and whether it was applied
    etapa,       \* what each user is doing
    leido,       \* what its handler has read
    pedido       \* WiFi result it carries

registros == <<estadoDe, cierre, notas, wifi, motivo, resultados>>
atencion == <<etapa, leido, pedido>>
careVars == <<registros, atencion>>

\* 'abierto' is how the portal writes it; of the others, the order is that of the service.
TICKET_STATUSES == <<"Abierto", "En progreso", "Escalado", "Resuelto", "Cerrado">>
EstadosTicket == {TICKET_STATUSES[i] : i \in 1 .. 5} \cup {"abierto"}
indexOf(e) == IF e = "abierto" THEN 0 ELSE CHOOSE i \in 1 .. 5 : TICKET_STATUSES[i] = e
OPEN_TICKET_STATES == {"abierto", "Abierto", "En progreso", "Escalado"}

CLOSED_REQUEST_STATES == {"Cerrada", "No Factible", "Cancelada"}
EstadosSolicitud == CLOSED_REQUEST_STATES \cup {"Abierta", "En Gestion"}

RetirosCerrados == {"CANCELADA", "CERRADA"}
EstadosRetiro == RetirosCerrados \cup {"REGISTRADA", "EN_GESTION"}

EstadosRegistro == EstadosTicket \cup EstadosSolicitud \cup EstadosRetiro \cup {"sin crear"}
Fases == {"libre", "estado", "diagnostico", "nota", "wifi", "solicitud", "factibilidad", "retiro", "informado"}
Lectura == [registro : Registros, estado : EstadosRegistro, cierre : BOOLEAN, notas : SUBSET Notas, motivo : BOOLEAN]
Pedido == Pedidos \X Tickets \X BOOLEAN

SinLectura == [registro |-> CHOOSE r \in Registros : TRUE, estado |-> "sin crear", cierre |-> FALSE,
               notas |-> {}, motivo |-> FALSE]

CareTypeOK ==
    /\ estadoDe \in [Registros -> EstadosRegistro]
    /\ cierre \in [Registros -> BOOLEAN]
    /\ notas \in [Registros -> SUBSET Notas]
    /\ wifi \in SUBSET Tickets
    /\ motivo \in [Registros -> BOOLEAN]
    /\ resultados \in SUBSET Pedido
    /\ etapa \in [Usuarios -> Fases]
    /\ leido \in [Usuarios -> Lectura]
    /\ pedido \in [Usuarios -> SUBSET Pedido]

--------------------------------------------------------------------------------
(* Creation.  A user who creates a record carries nothing to a later step. *)

Crear(r, e, c, m) ==
    /\ estadoDe[r] = "sin crear"
    /\ estadoDe' = [estadoDe EXCEPT ![r] = e]
    /\ cierre' = [cierre EXCEPT ![r] = c]
    /\ motivo' = [motivo EXCEPT ![r] = m]
    /\ UNCHANGED <<notas, resultados, atencion>>

\* create of a ticket, or G2's.
CreateTicket(t, e, w) ==
    /\ e \in {"Abierto", "abierto"}
    /\ wifi' = IF w THEN wifi \cup {t} ELSE wifi
    /\ Crear(t, e, FALSE, FALSE)

\* create of a request, perhaps closed from the start, or judged not feasible.
CreateRequest(s, e, m) ==
    /\ e \in EstadosSolicitud
    /\ e = "No Factible" => m
    /\ Crear(s, e, e \in CLOSED_REQUEST_STATES, m)
    /\ UNCHANGED wifi

CreateWithdrawal(r) == Crear(r, "REGISTRADA", FALSE, FALSE) /\ UNCHANGED wifi

--------------------------------------------------------------------------------
(* Reading.  The fields chosen here are those of the body of the request. *)

Leer(u, r, f) ==
    /\ etapa[u] \in {"libre", "informado"}
    /\ estadoDe[r] # "sin crear"
    /\ etapa' = [etapa EXCEPT ![u] = f]
    /\ leido' = [leido EXCEPT ![u] = [registro |-> r, estado |-> estadoDe[r], cierre |-> cierre[r],
                                      notas |-> notas[r], motivo |-> motivo[r]]]
    /\ UNCHANGED registros

LeerTicket(u, t) ==
    /\ \E f \in {"estado", "diagnostico", "nota"} : Leer(u, t, f)
    /\ pedido' = [pedido EXCEPT ![u] = {}]

LeerSolicitud(u, s) ==
    /\ estadoDe[s] \notin CLOSED_REQUEST_STATES
    /\ \E f \in {"solicitud", "factibilidad"} : Leer(u, s, f)
    /\ pedido' = [pedido EXCEPT ![u] = {}]

LeerRetiro(u, r) ==
    /\ estadoDe[r] \notin RetirosCerrados
    /\ Leer(u, r, "retiro")
    /\ pedido' = [pedido EXCEPT ![u] = {}]

\* presentWifiResult: G2 has its answer.
Informar(u) ==
    /\ etapa[u] \in {"libre", "informado", "wifi"}
    /\ etapa' = [etapa EXCEPT ![u] = "informado"]
    /\ leido' = [leido EXCEPT ![u] = SinLectura]

\* Mutant: a known request_id is answered from its row without comparing the payloads.
LeerSinComparar(u, p) ==
    /\ p[2] \in wifi
    /\ pedido' = [pedido EXCEPT ![u] = {p}]
    /\ \/ /\ ~\E q \in resultados : q[1] = p[1]
          /\ Leer(u, p[2], "wifi")
       \/ /\ \E q \in resultados : q[1] = p[1]
          /\ Informar(u)
          /\ UNCHANGED registros

\* registerWifiResult, up to the transaction: another payload under the same
\* request_id is refused and the same one is answered from the row.
LeerWifi(u, p) ==
    /\ p[2] \in wifi
    /\ pedido' = [pedido EXCEPT ![u] = {p}]
    /\ \/ /\ ~\E q \in resultados : q[1] = p[1]
          /\ Leer(u, p[2], "wifi")
       \/ /\ p \in resultados
          /\ Informar(u)
          /\ UNCHANGED registros

--------------------------------------------------------------------------------
(* Writing. *)

Terminar(u) ==
    /\ etapa' = [etapa EXCEPT ![u] = "libre"]
    /\ leido' = [leido EXCEPT ![u] = SinLectura]
    /\ pedido' = [pedido EXCEPT ![u] = {}]

\* A request that is refused after its reading, and a process that stops, leave no trace.
Abandonar(u) ==
    /\ etapa[u] # "libre"
    /\ Terminar(u)
    /\ UNCHANGED registros

\* updateStatus of a ticket: the description is written back as it was read.
UpdateStatus(u, e, ns) ==
    LET l == leido[u]
    IN  /\ etapa[u] = "estado"
        /\ indexOf(e) >= indexOf(l.estado)
        /\ e \in {"Resuelto", "Cerrado"} => l.registro \notin ConOrden
        /\ estadoDe' = [estadoDe EXCEPT ![l.registro] = e]
        /\ cierre' = [cierre EXCEPT ![l.registro] = (e = "Cerrado") \/ l.cierre]
        /\ notas' = [notas EXCEPT ![l.registro] = l.notas \cup ns]
        /\ Terminar(u)
        /\ UNCHANGED <<wifi, motivo, resultados>>

RegisterDiagnosis(u, n) ==
    LET l == leido[u]
    IN  /\ etapa[u] = "diagnostico"
        /\ l.registro \notin ConOrden
        /\ estadoDe' = [estadoDe EXCEPT ![l.registro] = "Resuelto"]
        /\ cierre' = [cierre EXCEPT ![l.registro] = TRUE]
        /\ notas' = [notas EXCEPT ![l.registro] = l.notas \cup {n}]
        /\ Terminar(u)
        /\ UNCHANGED <<wifi, motivo, resultados>>

AddTechnicalNote(u, n) ==
    /\ etapa[u] = "nota"
    /\ notas' = [notas EXCEPT ![leido[u].registro] = leido[u].notas \cup {n}]
    /\ Terminar(u)
    /\ UNCHANGED <<estadoDe, cierre, wifi, motivo, resultados>>

UpdateCategory(t, w) ==
    /\ estadoDe[t] # "sin crear"
    /\ wifi' = IF w THEN wifi \cup {t} ELSE wifi \ {t}
    /\ UNCHANGED <<estadoDe, cierre, notas, motivo, resultados, atencion>>

\* Mutant: the transaction trusts the state of the ticket that was read before it.
WifiSinCandado(u) ==
    \E p \in pedido[u] :
        /\ etapa[u] = "wifi"
        /\ ~\E q \in resultados : q[1] = p[1]
        /\ leido[u].estado \in OPEN_TICKET_STATES
        /\ estadoDe' = [estadoDe EXCEPT ![p[2]] = IF p[3] THEN "Resuelto" ELSE "Escalado"]
        /\ cierre' = [cierre EXCEPT ![p[2]] = p[3]]
        /\ resultados' = resultados \cup {p}
        /\ Informar(u)
        /\ UNCHANGED <<notas, wifi, motivo, pedido>>

\* The transaction of a WiFi result, which locks the ticket: a repetition is answered
\* from the row, and the ticket must still be open.
RegisterWifiResult(u) ==
    \E p \in pedido[u] :
        /\ etapa[u] = "wifi"
        /\ Informar(u)
        /\ \/ p \in resultados /\ UNCHANGED registros
           \/ /\ ~\E q \in resultados : q[1] = p[1]
              /\ estadoDe[p[2]] \in OPEN_TICKET_STATES
              /\ estadoDe' = [estadoDe EXCEPT ![p[2]] = IF p[3] THEN "Resuelto" ELSE "Escalado"]
              /\ cierre' = [cierre EXCEPT ![p[2]] = p[3]]
              /\ resultados' = resultados \cup {p}
              /\ UNCHANGED <<notas, wifi, motivo>>
        /\ UNCHANGED pedido

\* Mutant: a request is written whatever its state has become.
SinVersion(u) == leido[u].registro \in Solicitudes

\* The update finds the request in the state that was read.
Vigente(u) == leido[u].registro \in Solicitudes /\ estadoDe[leido[u].registro] = leido[u].estado

UpdateRequestStatus(u, e) ==
    LET l == leido[u]
    IN  /\ etapa[u] = "solicitud"
        /\ e = "No Factible" => l.motivo
        /\ Vigente(u)
        /\ estadoDe' = [estadoDe EXCEPT ![l.registro] = e]
        /\ cierre' = [cierre EXCEPT ![l.registro] = e \in CLOSED_REQUEST_STATES]
        /\ Terminar(u)
        /\ UNCHANGED <<notas, wifi, motivo, resultados>>

UpdateFeasibility(u, factible) ==
    LET l == leido[u]
    IN  /\ etapa[u] = "factibilidad"
        /\ Vigente(u)
        /\ estadoDe' = [estadoDe EXCEPT ![l.registro] = IF factible THEN l.estado ELSE "No Factible"]
        /\ cierre' = [cierre EXCEPT ![l.registro] = ~factible \/ l.cierre]
        /\ motivo' = [motivo EXCEPT ![l.registro] = ~factible]
        /\ Terminar(u)
        /\ UNCHANGED <<notas, wifi, resultados>>

UpdateWithdrawal(u, e) ==
    /\ etapa[u] = "retiro"
    /\ estadoDe' = [estadoDe EXCEPT ![leido[u].registro] = e]
    /\ Terminar(u)
    /\ UNCHANGED <<cierre, notas, wifi, motivo, resultados>>

--------------------------------------------------------------------------------
CareInit ==
    /\ estadoDe = [r \in Registros |-> "sin crear"]
    /\ cierre = [r \in Registros |-> FALSE]
    /\ notas = [r \in Registros |-> {}]
    /\ wifi = {}
    /\ motivo = [r \in Registros |-> FALSE]
    /\ resultados = {}
    /\ etapa = [u \in Usuarios |-> "libre"]
    /\ leido = [u \in Usuarios |-> SinLectura]
    /\ pedido = [u \in Usuarios |-> {}]

DeTicket(t) ==
    \/ \E e \in EstadosTicket, w \in BOOLEAN : CreateTicket(t, e, w)
    \/ \E w \in BOOLEAN : UpdateCategory(t, w)
    \/ \E u \in Usuarios : LeerTicket(u, t)

DeSolicitud(s) ==
    \/ \E e \in EstadosSolicitud, m \in BOOLEAN : CreateRequest(s, e, m)
    \/ \E u \in Usuarios : LeerSolicitud(u, s)

DeRetiro(r) == CreateWithdrawal(r) \/ \E u \in Usuarios : LeerRetiro(u, r)

DeUsuario(u) ==
    \/ \E e \in EstadosTicket \ {"abierto"}, ns \in SUBSET Notas : UpdateStatus(u, e, ns)
    \/ \E n \in Notas : RegisterDiagnosis(u, n) \/ AddTechnicalNote(u, n)
    \/ \E p \in Pedido : LeerWifi(u, p)
    \/ RegisterWifiResult(u)
    \/ \E e \in EstadosSolicitud : UpdateRequestStatus(u, e)
    \/ \E factible \in BOOLEAN : UpdateFeasibility(u, factible)
    \/ \E e \in EstadosRetiro : UpdateWithdrawal(u, e)
    \/ Abandonar(u)

CareNext ==
    \/ \E t \in Tickets : DeTicket(t)
    \/ \E s \in Solicitudes : DeSolicitud(s)
    \/ \E r \in Retiros : DeRetiro(r)
    \/ \E u \in Usuarios : DeUsuario(u)

CareSpec == CareInit /\ [][CareNext]_careVars

--------------------------------------------------------------------------------
(* Properties *)

\* A ticket carries a closing date when it is closed and none while it is open, and a
\* request exactly when it is closed, whichever handlers overtook each other.
FechaDeCierre ==
    /\ \A t \in Tickets : /\ estadoDe[t] = "Cerrado" => cierre[t]
                          /\ estadoDe[t] \in OPEN_TICKET_STATES => ~cierre[t]
    /\ \A s \in Solicitudes : cierre[s] <=> estadoDe[s] \in CLOSED_REQUEST_STATES

\* A request_id of G2 is applied once, with one payload, and whoever is told of its
\* result finds it registered.
ResultadoUnico ==
    /\ \A p, q \in resultados : p[1] = q[1] => p = q
    /\ \A u \in Usuarios : etapa[u] = "informado" => pedido[u] \subseteq resultados /\ pedido[u] # {}

\* What the handlers have read is a state the record has been in.
LecturaVeraz ==
    \A u \in Usuarios :
        LET l == leido[u]
        IN  /\ etapa[u] \in {"estado", "diagnostico", "nota"} =>
                   /\ l.registro \in Tickets
                   /\ l.estado \in EstadosTicket
                   /\ estadoDe[l.registro] # "sin crear"
                   /\ l.estado = "Cerrado" => l.cierre
                   /\ l.estado \in OPEN_TICKET_STATES => ~l.cierre
            /\ etapa[u] \in {"solicitud", "factibilidad"} =>
                   /\ l.registro \in Solicitudes
                   /\ l.estado \in EstadosSolicitud \ CLOSED_REQUEST_STATES
                   /\ ~l.cierre
            /\ etapa[u] = "retiro" => l.registro \in Retiros
            /\ etapa[u] = "wifi" => \E p \in Pedido : pedido[u] = {p} /\ estadoDe[p[2]] \in EstadosTicket

\* Each record has the states of its kind.
EstadosPropios ==
    /\ \A t \in Tickets : estadoDe[t] \in EstadosTicket \cup {"sin crear"}
    /\ \A s \in Solicitudes : estadoDe[s] \in EstadosSolicitud \cup {"sin crear"}
    /\ \A r \in Retiros : estadoDe[r] \in EstadosRetiro \cup {"sin crear"}

CareInv == CareTypeOK /\ FechaDeCierre /\ ResultadoUnico /\ LecturaVeraz /\ EstadosPropios

\* A closed request is never touched again, whoever read it before.
SolicitudCerradaEsFinal ==
    [][\A s \in Solicitudes : estadoDe[s] \in CLOSED_REQUEST_STATES =>
          /\ estadoDe'[s] = estadoDe[s]
          /\ motivo'[s] = motivo[s]
          /\ cierre'[s] = cierre[s]]_careVars

\* A result of G2 takes a ticket only from an open state, and never twice: one that
\* comes late, or again, leaves a ticket that was resolved meanwhile as it is.
ResultadoSoloEnAbierto ==
    [][\A p \in resultados' \ resultados :
          estadoDe[p[2]] \in OPEN_TICKET_STATES /\ \A q \in resultados : q[1] # p[1]]_careVars

\* docs/i4-p0-02-tickets-autoridad-g3.md: "Se conservan causa raíz, problema, acciones,
\* observaciones y notas previas en la descripción del ticket."
NotasNoSePierden == [][\A t \in Tickets : notas[t] \subseteq notas'[t]]_careVars

\* "La solicitud de retiro ya esta cerrada": it stays so.
RetiroCerradoEsFinal ==
    [][\A r \in Retiros : estadoDe[r] \in RetirosCerrados => estadoDe'[r] \in RetirosCerrados]_careVars
================================================================================
