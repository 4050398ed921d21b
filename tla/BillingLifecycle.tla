-------------------------- MODULE BillingLifecycle --------------------------
(***************************************************************************)
(* Billing of one customer: concurrent payments (from a desk or notified   *)
(* by G2), the refresh of delinquency, the suspension of a contract, the   *)
(* extensions of an invoice, and the two operations of other services that *)
(* write the same rows: the activation of an installed service and the     *)
(* retirement of a service with the reconciliation of the customer.        *)
(*                                                                         *)
(* Billing's own operations run in Serializable transactions repeated up   *)
(* to MaxIntentos times.  Such a transaction has two steps here: it takes  *)
(* its snapshot and decides, then it commits, unless another transaction   *)
(* of billing has committed in between or a row it writes is no longer the *)
(* one of its snapshot.  The other operations run at Read Committed: each  *)
(* of their statements is a step of its own, they see what is committed    *)
(* and no conflict stops them.                                             *)
(*                                                                         *)
(* Amounts are integers (cents).  Contracts of several companies may       *)
(* belong to the customer.  Invoices without amount or annulled, which     *)
(* accept no payment and are never overdue, have no place here.            *)
(***************************************************************************)
EXTENDS Integers

CONSTANTS
    Facturas, Contratos, Servicios, Codigos, SinCodigo, Empresas,
    Invocaciones,
    ContratoDe,         \* invoice -> contract
    ContratoServicio,   \* service -> contract
    EmpresaDe,          \* contract -> company
    EmpresaCliente,     \* the customer's own company
    Monto,              \* invoice -> amount
    Vence,              \* invoice -> original due day
    Montos,             \* amounts of a payment
    DiasCorte,          \* BILLING_CUT_DAYS
    MaxIntentos,        \* attempts of a transaction
    MaxDia              \* bound on the calendar

ASSUME ConstantesOK ==
    /\ ContratoDe \in [Facturas -> Contratos]
    /\ ContratoServicio \in [Servicios -> Contratos]
    /\ EmpresaDe \in [Contratos -> Empresas]
    /\ EmpresaCliente \in Empresas
    /\ Monto \in [Facturas -> Nat \ {0}]
    /\ Vence \in [Facturas -> Nat]
    /\ Montos \subseteq Nat \ {0}
    /\ DiasCorte \in Nat \ {0}
    /\ MaxIntentos \in Nat \ {0}
    /\ MaxDia \in Nat
    /\ SinCodigo \notin Codigos

VARIABLES
    pagado,     \* invoice -> sum of its payments
    factura,    \* invoice -> stored state: open, or paid in full
    limite,     \* invoice -> due day after its approved extensions
    libro,      \* transaction code -> payments registered under it
    contrato, servicio, cliente,    \* stored states
    instalado,  \* services with evidence of an installation, or historical
    hoy,        \* the day
    fase,       \* invocation -> where it stands
    peticion,   \* invocation -> what was asked
    foto,       \* invocation -> what its transaction's snapshot showed
    vigente,    \* invocation -> billing has committed nothing since that snapshot
    intento,    \* invocation -> failed attempts
    respuesta,  \* invocation -> answer to its caller
    siguiente   \* invocation -> customer state it computed

dineroVars == <<pagado, factura, libro>>
estadoVars == <<contrato, servicio, cliente, instalado>>
datosVars == <<pagado, factura, limite, libro, contrato, servicio, cliente, instalado>>
txVars == <<foto, vigente, intento, respuesta>>
invocacionVars == <<fase, peticion, foto, vigente, intento, respuesta, siguiente>>
vars == <<datosVars, hoy, invocacionVars>>

EstadosContrato == {"Firmado", "Activo", "Moroso", "Suspendido", "Baja"}
EstadosServicio == {"Pendiente Instalacion", "Activo", "Suspendido", "Baja"}
EstadosCliente == {"Pendiente Instalacion", "Activo", "Moroso", "Suspendido", "Baja"}
Fases == {"libre", "leida", "fin", "baja", "quedan", "ultimo", "reconciliar", "escribir"}
Respuestas == {"ninguna", "registrado", "duplicado", "conflicto", "rechazo", "hecho"}

Pagos ==
    [op: {"pago"}, factura: Facturas, monto: Montos, codigo: Codigos \cup {SinCodigo}]
        \cup [op: {"pagoG2"}, factura: Facturas, monto: Montos, codigo: Codigos]
Suspensiones == [op: {"suspension"}, contrato: Contratos]
Refrescos == [op: {"refresco"}, alcance: {Empresas} \cup {{e} : e \in Empresas}]
Bajas == [op: {"baja"}, servicio: Servicios]
Nada == [op |-> "ninguna"]
Transacciones == Pagos \cup Suspensiones \cup Refrescos

-----------------------------------------------------------------------------
(* Balances and delinquency. *)

Saldo(f) == Monto[f] - pagado[f]

ConDeuda(f) == factura[f] = "Abierta" /\ Saldo(f) > 0

\* Mutant: an invoice is late by its date, paid or not.
AtrasoSinSaldo(f) == IF hoy > limite[f] THEN hoy - limite[f] ELSE 0

Atraso(f) == IF ConDeuda(f) /\ hoy > limite[f] THEN hoy - limite[f] ELSE 0

Vencidas == {f \in Facturas : Atraso(f) > 0}

\* Mutant: the balance of an invoice forgets its earlier payments.
FotoSinPagos ==
    [saldo |-> Monto, vencidas |-> Vencidas, dia |-> hoy,
     contrato |-> contrato, servicio |-> servicio, cliente |-> cliente, instalado |-> instalado]

\* What a transaction that starts now sees.
Foto ==
    [saldo |-> [f \in Facturas |-> Saldo(f)], vencidas |-> Vencidas, dia |-> hoy,
     contrato |-> contrato, servicio |-> servicio, cliente |-> cliente, instalado |-> instalado]

Fotos ==
    [saldo: [Facturas -> Nat], vencidas: SUBSET Facturas, dia: Nat,
     contrato: [Contratos -> EstadosContrato], servicio: [Servicios -> EstadosServicio],
     cliente: EstadosCliente, instalado: SUBSET Servicios]

FotoVacia ==
    [saldo |-> [f \in Facturas |-> 0], vencidas |-> {}, dia |-> 0,
     contrato |-> [c \in Contratos |-> "Baja"], servicio |-> [s \in Servicios |-> "Baja"],
     cliente |-> "Baja", instalado |-> {}]

DeEmpresa(e) == {c \in Contratos : EmpresaDe[c] = e}

\* A company may decide the customer's own state when the customer is its own
\* and has no contract anywhere else.
PuedeActualizarCliente(c) ==
    EmpresaDe[c] = EmpresaCliente /\ DeEmpresa(EmpresaDe[c]) = Contratos

-----------------------------------------------------------------------------
Init ==
    /\ pagado = [f \in Facturas |-> 0]
    /\ factura = [f \in Facturas |-> "Abierta"]
    /\ limite = Vence
    /\ libro = [k \in Codigos |-> {}]
    /\ contrato \in [Contratos -> {"Firmado", "Activo"}]
    /\ servicio = [s \in Servicios |-> IF contrato[ContratoServicio[s]] = "Activo"
                                       THEN "Activo" ELSE "Pendiente Instalacion"]
    /\ cliente = IF \E s \in Servicios : servicio[s] = "Activo"
                 THEN "Activo" ELSE "Pendiente Instalacion"
    /\ instalado \in SUBSET {s \in Servicios : servicio[s] = "Activo"}
    /\ hoy = 0
    /\ fase = [w \in Invocaciones |-> "libre"]
    /\ peticion = [w \in Invocaciones |-> Nada]
    /\ foto = [w \in Invocaciones |-> FotoVacia]
    /\ vigente = [w \in Invocaciones |-> FALSE]
    /\ intento = [w \in Invocaciones |-> 0]
    /\ respuesta = [w \in Invocaciones |-> "ninguna"]
    /\ siguiente = [w \in Invocaciones |-> "Activo"]

-----------------------------------------------------------------------------
(* A billing transaction: snapshot and decision. *)

\* What tells a repeated notification from another payment under the same code.
Datos(p) == [factura |-> p.factura, monto |-> p.monto]

\* G2 repeats a notification that is already in the ledger.
YaRegistrado(p) == p.op = "pagoG2" /\ libro[p.codigo] # {}

\* What the handler requires of its snapshot before it writes.
Aceptada(p) ==
    \/ /\ p \in Pagos
       /\ ConDeuda(p.factura)
       /\ p.monto <= Saldo(p.factura)
    \/ /\ p \in Suspensiones
       /\ contrato[p.contrato] \in {"Activo", "Moroso", "Suspendido"}
       /\ \E f \in Facturas : ContratoDe[f] = p.contrato /\ Atraso(f) >= DiasCorte
    \/ p \in Refrescos

Responde(w, r) ==
    /\ fase' = [fase EXCEPT ![w] = "fin"]
    /\ respuesta' = [respuesta EXCEPT ![w] = r]
    /\ intento' = [intento EXCEPT ![w] = 0]

\* The transaction ends without a commit, and its snapshot is gone.
Terminar(w, r) ==
    /\ Responde(w, r)
    /\ foto' = [foto EXCEPT ![w] = FotoVacia]
    /\ vigente' = [vigente EXCEPT ![w] = FALSE]

Repetida(p) == IF Datos(p) \in libro[p.codigo] THEN "duplicado" ELSE "conflicto"

\* One attempt, the n-th after failed ones: it answers or refuses, or it takes its
\* snapshot and goes on.
Intentar(w, p, n) ==
    \/ /\ YaRegistrado(p)
       /\ Terminar(w, Repetida(p))
    \/ /\ ~YaRegistrado(p)
       /\ ~Aceptada(p)
       /\ Terminar(w, "rechazo")
    \/ /\ ~YaRegistrado(p)
       /\ Aceptada(p)
       /\ fase' = [fase EXCEPT ![w] = "leida"]
       /\ foto' = [foto EXCEPT ![w] = Foto]
       /\ vigente' = [vigente EXCEPT ![w] = TRUE]
       /\ intento' = [intento EXCEPT ![w] = n]
       /\ UNCHANGED respuesta

Empezar(w, p) ==
    /\ fase[w] = "libre"
    /\ peticion' = [peticion EXCEPT ![w] = p]
    /\ Intentar(w, p, 0)
    /\ UNCHANGED <<datosVars, hoy, siguiente>>

\* The database refuses the transaction (P2034).
Perdida(w) ==
    /\ fase[w] = "leida"
    /\ \/ ~vigente[w]
       \/ foto[w].contrato # contrato
       \/ foto[w].servicio # servicio
       \/ foto[w].cliente # cliente

Reintentar(w) ==
    /\ Perdida(w)
    /\ intento[w] + 1 < MaxIntentos
    /\ Intentar(w, peticion[w], intento[w] + 1)
    /\ UNCHANGED <<datosVars, hoy, peticion, siguiente>>

Conflicto(w) ==
    /\ Perdida(w)
    /\ intento[w] + 1 = MaxIntentos
    /\ Terminar(w, "conflicto")
    /\ UNCHANGED <<datosVars, hoy, peticion, siguiente>>

\* The unique index refuses the code (P2002): a desk is told so, a notification of
\* G2 runs once more and finds the payment.
ReferenciaRepetida(w) ==
    LET p == peticion[w] IN
    /\ fase[w] = "leida"
    /\ p \in Pagos
    /\ p.codigo # SinCodigo
    /\ libro[p.codigo] # {}
    /\ Terminar(w, IF p.op = "pagoG2" THEN Repetida(p) ELSE "conflicto")
    /\ UNCHANGED <<datosVars, hoy, peticion, siguiente>>

Responder(w) ==
    /\ fase[w] = "fin"
    /\ fase' = [fase EXCEPT ![w] = "libre"]
    /\ peticion' = [peticion EXCEPT ![w] = Nada]
    /\ respuesta' = [respuesta EXCEPT ![w] = "ninguna"]
    /\ UNCHANGED <<datosVars, hoy, foto, vigente, intento, siguiente>>

-----------------------------------------------------------------------------
(* A billing transaction: commit. *)

\* A retirement that has written its service and not yet committed holds that row.
Bloqueado(s) ==
    \E v \in Invocaciones : fase[v] \in {"quedan", "ultimo"} /\ peticion[v].servicio = s

\* Mutant: the transaction runs at Repeatable Read.
ConfirmableSinAislamiento(w, contratos, servicios, clientes) ==
    /\ fase[w] = "leida"
    /\ \A c \in contratos : contrato[c] = foto[w].contrato[c]
    /\ \A s \in servicios : servicio[s] = foto[w].servicio[s] /\ ~Bloqueado(s)
    /\ clientes => cliente = foto[w].cliente

\* Mutant: it writes over rows that changed after its snapshot.
ConfirmableSinFilas(w, contratos, servicios, clientes) == fase[w] = "leida" /\ vigente[w]

\* The commit is accepted: no other transaction of billing has committed since the
\* snapshot, and the rows it writes are still those of the snapshot and not held.
Confirmable(w, contratos, servicios, clientes) ==
    /\ fase[w] = "leida"
    /\ vigente[w]
    /\ \A c \in contratos : contrato[c] = foto[w].contrato[c]
    /\ \A s \in servicios : servicio[s] = foto[w].servicio[s] /\ ~Bloqueado(s)
    /\ clientes => cliente = foto[w].cliente

\* The rows the transaction writes; every other transaction of billing has lost, and
\* its snapshot is of no more use.
Confirmar(w, r, contratos, aContrato, servicios, aServicio, clientes, aCliente) ==
    /\ Confirmable(w, contratos, servicios, clientes)
    /\ contrato' = [c \in Contratos |-> IF c \in contratos THEN aContrato[c] ELSE contrato[c]]
    /\ servicio' = [s \in Servicios |-> IF s \in servicios THEN aServicio ELSE servicio[s]]
    /\ cliente' = IF clientes THEN aCliente ELSE cliente
    /\ vigente' = [v \in Invocaciones |-> FALSE]
    /\ foto' = [v \in Invocaciones |-> FotoVacia]
    /\ Responde(w, r)
    /\ UNCHANGED <<limite, instalado, hoy, peticion, siguiente>>

\* The unique index on the transaction code, and a mutant without it.
CodigoLibreSiempre(p) == TRUE

CodigoLibre(p) == p.codigo # SinCodigo => libro[p.codigo] = {}

\* Mutant: the other overdue debt is not looked at.
AlDiaSinOtras(w) == foto[w].saldo[peticion[w].factura] = peticion[w].monto

\* The payment settles its invoice and the snapshot shows no other overdue debt of
\* the customer with the same company.
AlDia(w) ==
    LET f == peticion[w].factura IN
    /\ foto[w].saldo[f] = peticion[w].monto
    /\ \A g \in foto[w].vencidas \ {f} : EmpresaDe[ContratoDe[g]] # EmpresaDe[ContratoDe[f]]

\* Services of the contract c that a payment brings back.
Reactivables(w, c) ==
    {s \in foto[w].instalado : /\ ContratoServicio[s] = c
                               /\ foto[w].servicio[s] = "Suspendido"
                               /\ foto[w].contrato[c] = "Suspendido"}

\* Mutant: only the contract of the payment counts.
OtroSuspendidoNinguno(w, c, contratos) == FALSE

\* After the payment some contract with the company of c is still suspended.
OtroSuspendido(w, c, contratos) ==
    \E d \in DeEmpresa(EmpresaDe[c]) \ contratos : foto[w].contrato[d] = "Suspendido"

RegisterPayment(w) ==
    LET p == peticion[w]
        f == p.factura
        c == ContratoDe[f]
        servicios == IF AlDia(w) THEN Reactivables(w, c) ELSE {}
        contratos == IF AlDia(w) /\ (servicios # {} \/ foto[w].contrato[c] = "Moroso") THEN {c} ELSE {}
        clientes == /\ AlDia(w)
                    /\ ~OtroSuspendido(w, c, contratos)
                    /\ servicios # {} \/ foto[w].cliente = "Moroso"
                    /\ PuedeActualizarCliente(c)
                    /\ foto[w].cliente \in {"Moroso", "Suspendido"}
        activo == [d \in Contratos |-> "Activo"]
    IN
    /\ p \in Pagos
    /\ CodigoLibre(p)
    /\ pagado' = [pagado EXCEPT ![f] = @ + p.monto]
    /\ factura' = [factura EXCEPT ![f] = IF foto[w].saldo[f] = p.monto THEN "Pagada" ELSE @]
    /\ libro' = [k \in Codigos |-> IF k = p.codigo THEN libro[k] \cup {Datos(p)} ELSE libro[k]]
    /\ Confirmar(w, "registrado", contratos, activo, servicios, "Activo", clientes, "Activo")

SuspendContract(w) ==
    LET c == peticion[w].contrato
        activos == {s \in Servicios : ContratoServicio[s] = c /\ foto[w].servicio[s] = "Activo"}
        suspendido == [d \in Contratos |-> "Suspendido"]
    IN
    /\ peticion[w] \in Suspensiones
    /\ Confirmar(w, "hecho", {c}, suspendido, activos, "Suspendido",
                 PuedeActualizarCliente(c) /\ foto[w].cliente # "Baja", "Suspendido")
    /\ UNCHANGED dineroVars

\* Contracts follow their own overdue invoices, the customer all of the company's.
RefreshDelinquency(w) ==
    LET estado == [c \in Contratos |->
                    IF \E f \in foto[w].vencidas : ContratoDe[f] = c THEN "Moroso" ELSE "Activo"]
        evaluados == {c \in Contratos : /\ EmpresaDe[c] \in peticion[w].alcance
                                        /\ foto[w].contrato[c] \in {"Activo", "Moroso"}}
        deudor == foto[w].vencidas # {}
    IN
    /\ peticion[w] \in Refrescos
    /\ Confirmar(w, "hecho", {c \in evaluados : foto[w].contrato[c] # estado[c]}, estado, {}, "Activo",
                 /\ \E c \in evaluados : PuedeActualizarCliente(c)
                 /\ foto[w].cliente = IF deudor THEN "Activo" ELSE "Moroso",
                 IF deudor THEN "Moroso" ELSE "Activo")
    /\ UNCHANGED dineroVars

-----------------------------------------------------------------------------
(* Extensions of an invoice. *)

\* createExtension, and changePaymentCondition of the committed date: the due day in
\* force is the latest of the approved ones.  The handler reads the invoice before it
\* inserts: an earlier day, or a day for an invoice paid meanwhile, moves nothing.
CreateExtension(f, d) ==
    /\ ConDeuda(f)
    /\ d > limite[f]
    /\ limite' = [limite EXCEPT ![f] = d]
    /\ UNCHANGED <<dineroVars, estadoVars, hoy, invocacionVars>>

-----------------------------------------------------------------------------
(* Retirement of a service and reconciliation of the customer. *)

LeerBaja(w, s) ==
    /\ fase[w] = "libre"
    /\ servicio[s] # "Baja"
    /\ fase' = [fase EXCEPT ![w] = "baja"]
    /\ peticion' = [peticion EXCEPT ![w] = [op |-> "baja", servicio |-> s]]
    /\ UNCHANGED <<datosVars, hoy, txVars, siguiente>>

\* Mutant: nobody else is counted.
HermanosNinguno(s) == {}

Hermanos(s) == {t \in Servicios \ {s} : ContratoServicio[t] = ContratoServicio[s]}

\* The transaction writes its service, which it holds from here on, and counts the
\* ones of the contract that are not retired.
ContarBaja(w) ==
    LET s == peticion[w].servicio IN
    /\ fase[w] = "baja"
    /\ ~Bloqueado(s)
    /\ fase' = [fase EXCEPT ![w] =
            IF \E t \in Hermanos(s) : servicio[t] # "Baja" THEN "quedan" ELSE "ultimo"]
    /\ UNCHANGED <<datosVars, hoy, peticion, txVars, siguiente>>

ConfirmarBaja(w) ==
    LET s == peticion[w].servicio IN
    /\ fase[w] \in {"quedan", "ultimo"}
    /\ servicio' = [servicio EXCEPT ![s] = "Baja"]
    /\ contrato' = [contrato EXCEPT ![ContratoServicio[s]] = IF fase[w] = "ultimo" THEN "Baja" ELSE @]
    /\ fase' = [fase EXCEPT ![w] = "reconciliar"]
    /\ UNCHANGED <<dineroVars, limite, cliente, instalado, hoy, peticion, txVars, siguiente>>

\* The financial states are left to billing.
ResolveCustomerLifecycleStatus ==
    IF cliente \in {"Moroso", "Suspendido"} THEN cliente
    ELSE IF \E s \in Servicios : servicio[s] = "Activo" THEN "Activo"
    ELSE IF \/ \E s \in Servicios : servicio[s] = "Pendiente Instalacion"
            \/ \E c \in Contratos : contrato[c] \in {"Firmado", "Activo"}
         THEN "Pendiente Instalacion"
    ELSE IF /\ \A s \in Servicios : servicio[s] = "Baja"
            /\ \A c \in Contratos : contrato[c] = "Baja"
         THEN "Baja" ELSE cliente

LeerCliente(w) ==
    /\ fase[w] = "reconciliar"
    /\ IF ResolveCustomerLifecycleStatus = cliente
       THEN /\ fase' = [fase EXCEPT ![w] = "libre"]
            /\ peticion' = [peticion EXCEPT ![w] = Nada]
            /\ UNCHANGED siguiente
       ELSE /\ fase' = [fase EXCEPT ![w] = "escribir"]
            /\ siguiente' = [siguiente EXCEPT ![w] = ResolveCustomerLifecycleStatus]
            /\ UNCHANGED peticion
    /\ UNCHANGED <<datosVars, hoy, txVars>>

EscribirCliente(w) ==
    /\ fase[w] = "escribir"
    /\ cliente' = siguiente[w]
    /\ fase' = [fase EXCEPT ![w] = "libre"]
    /\ peticion' = [peticion EXCEPT ![w] = Nada]
    /\ siguiente' = [siguiente EXCEPT ![w] = "Activo"]
    /\ UNCHANGED <<dineroVars, limite, contrato, servicio, instalado, hoy, txVars>>

-----------------------------------------------------------------------------
(* The installation of a service is confirmed, and days pass. *)

Activar(s) ==
    LET c == ContratoServicio[s] IN
    /\ servicio[s] = "Pendiente Instalacion"
    /\ contrato[c] \in {"Firmado", "Activo"}
    /\ ~Bloqueado(s)
    /\ servicio' = [servicio EXCEPT ![s] = "Activo"]
    /\ contrato' = [contrato EXCEPT ![c] = "Activo"]
    /\ instalado' = instalado \cup {s}
    /\ UNCHANGED <<dineroVars, limite, cliente, hoy, invocacionVars>>

Tick ==
    /\ hoy < MaxDia
    /\ hoy' = hoy + 1
    /\ UNCHANGED <<datosVars, invocacionVars>>

-----------------------------------------------------------------------------
Cobranza(w) ==
    \/ \E p \in Transacciones : Empezar(w, p)
    \/ Reintentar(w) \/ Conflicto(w) \/ ReferenciaRepetida(w) \/ Responder(w)
    \/ RegisterPayment(w) \/ SuspendContract(w) \/ RefreshDelinquency(w)

Retirar(w) ==
    \/ \E s \in Servicios : LeerBaja(w, s)
    \/ ContarBaja(w) \/ ConfirmarBaja(w) \/ LeerCliente(w) \/ EscribirCliente(w)

Next ==
    \/ \E w \in Invocaciones : Cobranza(w) \/ Retirar(w)
    \/ \E f \in Facturas, d \in 1..MaxDia : CreateExtension(f, d)
    \/ \E s \in Servicios : Activar(s)
    \/ Tick

Spec == Init /\ [][Next]_vars

-----------------------------------------------------------------------------
DineroTypeOK ==
    /\ pagado \in [Facturas -> Nat]
    /\ factura \in [Facturas -> {"Abierta", "Pagada"}]
    /\ limite \in [Facturas -> Nat]
    /\ libro \in [Codigos -> SUBSET [factura: Facturas, monto: Montos]]
    /\ hoy \in 0..MaxDia

EstadoTypeOK ==
    /\ contrato \in [Contratos -> EstadosContrato]
    /\ servicio \in [Servicios -> EstadosServicio]
    /\ cliente \in EstadosCliente
    /\ instalado \subseteq Servicios

InvocacionTypeOK ==
    /\ fase \in [Invocaciones -> Fases]
    /\ peticion \in [Invocaciones -> Transacciones \cup Bajas \cup {Nada}]
    /\ vigente \in [Invocaciones -> BOOLEAN]
    /\ intento \in [Invocaciones -> 0..(MaxIntentos - 1)]
    /\ respuesta \in [Invocaciones -> Respuestas]
    /\ siguiente \in [Invocaciones -> EstadosCliente \ {"Moroso", "Suspendido"}]

FotoTypeOK == foto \in [Invocaciones -> Fotos]

TypeOK == DineroTypeOK /\ EstadoTypeOK /\ InvocacionTypeOK /\ FotoTypeOK

-----------------------------------------------------------------------------
(* The inductive invariant. *)

\* What is asked fits where the invocation stands.
PeticionDeFase(w) ==
    /\ fase[w] \in {"leida", "fin"} => peticion[w] \in Transacciones
    /\ fase[w] \in {"baja", "quedan", "ultimo", "reconciliar", "escribir"} => peticion[w] \in Bajas

\* No invoice is paid beyond its amount, and the stored state says which are settled.
SaldosCuadran ==
    \A f \in Facturas :
        /\ pagado[f] <= Monto[f]
        /\ factura[f] = "Pagada" => pagado[f] = Monto[f]
        /\ factura[f] = "Abierta" => pagado[f] < Monto[f]

LimiteNoRetrocede == \A f \in Facturas : Vence[f] <= limite[f]

Leida(w) == fase[w] = "leida" /\ vigente[w]

\* The money a valid snapshot shows is the money there is, and what it shows overdue
\* is; an extension may since have been granted, never taken back, what was installed
\* is, and no contract has been suspended.
FotoFiel(w) ==
    Leida(w) =>
        /\ foto[w].dia <= hoy
        /\ \A f \in Facturas : foto[w].saldo[f] = Saldo(f)
        /\ \A f \in foto[w].vencidas : ConDeuda(f) /\ Vence[f] < foto[w].dia
        /\ \A f \in Facturas : ConDeuda(f) /\ limite[f] < foto[w].dia => f \in foto[w].vencidas
        /\ \A c \in Contratos : contrato[c] = "Suspendido" => foto[w].contrato[c] = "Suspendido"
        /\ foto[w].instalado \subseteq instalado

\* What the handler required of its snapshot still holds when it may commit.
DecisionFirme(w) ==
    LET p == peticion[w] IN
    Leida(w) =>
        /\ p \in Pagos => ConDeuda(p.factura) /\ p.monto <= Saldo(p.factura)
        /\ p \in Suspensiones =>
               /\ foto[w].contrato[p.contrato] # "Baja"
               /\ \E f \in Facturas :
                     ContratoDe[f] = p.contrato /\ ConDeuda(f) /\ Vence[f] + DiasCorte <= hoy

\* A code stands for one payment, the one its caller was told of.
CodigoUnico == \A k \in Codigos : \A a, b \in libro[k] : a = b

\* A retired contract has no service left (deactivate counts them before it retires
\* the contract, while other retirements and activations run).
RetiredContractIsEmpty ==
    \A s \in Servicios : contrato[ContratoServicio[s]] = "Baja" => servicio[s] = "Baja"

\* Who is about to retire a contract has no service of it left but its own.
UltimoDelContrato(w) ==
    fase[w] = "ultimo" => \A t \in Hermanos(peticion[w].servicio) : servicio[t] = "Baja"

IInv ==
    /\ SaldosCuadran
    /\ LimiteNoRetrocede
    /\ CodigoUnico
    /\ RetiredContractIsEmpty
    /\ \A w \in Invocaciones :
           PeticionDeFase(w) /\ FotoFiel(w) /\ DecisionFirme(w) /\ UltimoDelContrato(w)

-----------------------------------------------------------------------------
(* Properties. *)

\* A caller that was told its payment is registered, or was already, finds under its
\* code that payment and no other (registerPayment, registerIntegrationPayment).
AnswersAreRegistered ==
    \A w \in Invocaciones :
        LET p == peticion[w] IN
        /\ fase[w] = "fin"
        /\ p \in Pagos
        /\ p.codigo # SinCodigo
        /\ respuesta[w] \in {"registrado", "duplicado"}
        => libro[p.codigo] = {Datos(p)}

\* The invoice f is unpaid and its original due day was d days ago or more.
DebeDesde(f, d) == ConDeuda(f) /\ Vence[f] + d <= hoy

\* A contract becomes Moroso only with an invoice of its own that is unpaid and past
\* its original due day, and Suspendido only DiasCorte after it; the customer is
\* sanctioned only with such an invoice.  Payments and extensions run meanwhile.
SanctionJustified ==
    [][/\ \A c \in Contratos :
             /\ contrato[c] # "Moroso" /\ contrato'[c] = "Moroso" =>
                    \E f \in Facturas : ContratoDe[f] = c /\ DebeDesde(f, 1)
             /\ contrato[c] # "Suspendido" /\ contrato'[c] = "Suspendido" =>
                    \E f \in Facturas : ContratoDe[f] = c /\ DebeDesde(f, DiasCorte)
       /\ cliente # cliente' /\ cliente' \in {"Moroso", "Suspendido"} =>
             \E f \in Facturas : DebeDesde(f, 1)]_vars

\* A suspended contract comes back only with a payment, with an installed service of
\* it brought back, and without any debt of the customer with that company that was
\* overdue on the day of the payment.
ReactivationJustified ==
    [][\A c \in Contratos :
          contrato[c] = "Suspendido" /\ contrato'[c] = "Activo" =>
              /\ \E s \in instalado : ContratoServicio[s] = c /\ servicio'[s] = "Activo"
              /\ \E w \in Invocaciones :
                    /\ fase[w] = "leida" /\ fase'[w] = "fin"
                    /\ peticion[w] \in Pagos
                    /\ \A g \in Facturas :
                          /\ EmpresaDe[ContratoDe[g]] = EmpresaDe[c]
                          /\ factura'[g] = "Abierta"
                          => foto[w].dia <= limite[g]]_vars

\* A payment that brings the customer back leaves no contract of his suspended.
CustomerClearedWithContracts ==
    [][pagado' # pagado /\ cliente' # cliente =>
          \A c \in Contratos : contrato'[c] # "Suspendido"]_vars

\* What was retired stays retired, whatever payment, suspension or refresh had read
\* it before.
RetirementIsFinal ==
    [][/\ \A c \in Contratos : contrato[c] = "Baja" => contrato'[c] = "Baja"
       /\ \A s \in Servicios : servicio[s] = "Baja" => servicio'[s] = "Baja"]_vars

\* The customer's invoices are an account whose debts only shrink.
Cuenta == INSTANCE CustomerAccount WITH
    deuda <- [f \in Facturas |-> Monto[f] - pagado[f]],
    cerrada <- [f \in Facturas |-> factura[f] # "Abierta"]

ImplementsAccount == Cuenta!Spec

-----------------------------------------------------------------------------
(* Claims of the repository the code does not keep. *)

\* customer-lifecycle.ts: the reconciliation does not overwrite a financial state.
FinancialStateIsBillings ==
    [][\A w \in Invocaciones :
          fase[w] = "escribir" /\ fase'[w] # "escribir" => cliente \notin {"Moroso", "Suspendido"}]_vars

\* The flow document: a retirement reconciles the contract with the services left.
ContractFollowsServices ==
    \A c \in Contratos :
        LET suyos == {s \in Servicios : ContratoServicio[s] = c} IN
        suyos # {} /\ (\A s \in suyos : servicio[s] = "Baja") => contrato[c] = "Baja"
=============================================================================
