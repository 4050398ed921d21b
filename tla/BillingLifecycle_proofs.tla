----------------------- MODULE BillingLifecycle_proofs -----------------------
(***************************************************************************)
(* Proofs about the billing of a customer, for every number of invoices,   *)
(* contracts, services, companies and concurrent requests.                 *)
(***************************************************************************)
EXTENDS BillingLifecycle, TLAPS

Inv == TypeOK /\ IInv

(***************************************************************************)
(* What requests and snapshots are made of.                                *)
(***************************************************************************)

LEMMA PagoCampos ==
    ASSUME NEW p \in Pagos
    PROVE  /\ p.factura \in Facturas
           /\ p.monto \in Montos
           /\ p.codigo \in Codigos \cup {SinCodigo}
           /\ Datos(p) \in [factura: Facturas, monto: Montos]
           /\ p \notin Suspensiones \cup Refrescos \cup Bajas \cup {Nada}
  BY DEF Pagos, Datos, Suspensiones, Refrescos, Bajas, Nada

LEMMA SuspensionCampos ==
    ASSUME NEW p \in Suspensiones
    PROVE  p.contrato \in Contratos /\ p \notin Pagos \cup Refrescos \cup Bajas \cup {Nada}
  BY DEF Pagos, Suspensiones, Refrescos, Bajas, Nada

LEMMA BajaCampos ==
    ASSUME NEW p \in Bajas
    PROVE  p.servicio \in Servicios /\ p \notin Transacciones
  BY DEF Transacciones, Pagos, Suspensiones, Refrescos, Bajas

LEMMA Ceros == 0 \in 0..MaxDia /\ 0 \in 0..(MaxIntentos - 1) /\ 0..MaxDia \subseteq Nat
  BY ConstantesOK DEF ConstantesOK

LEMMA FotoVaciaTypes == FotoVacia \in Fotos
  BY DEF FotoVacia, Fotos, EstadosContrato, EstadosServicio, EstadosCliente

\* A snapshot of a typed state in which no invoice is overpaid is typed.
LEMMA FotoTypes ==
    ASSUME DineroTypeOK, EstadoTypeOK, SaldosCuadran
    PROVE  Foto \in Fotos
<1>1. [f \in Facturas |-> Saldo(f)] \in [Facturas -> Nat]
  BY ConstantesOK DEF ConstantesOK, Saldo, DineroTypeOK, SaldosCuadran
<1>2. Vencidas \in SUBSET Facturas BY DEF Vencidas
<1>3. hoy \in Nat BY Ceros DEF DineroTypeOK
<1>4. QED BY <1>1, <1>2, <1>3 DEF Foto, Fotos, EstadoTypeOK

(***************************************************************************)
(* Type correctness of the steps.                                          *)
(***************************************************************************)

LEMMA TypeInit == Init => TypeOK
<1> SUFFICES ASSUME Init PROVE TypeOK
  OBVIOUS
<1>1. DineroTypeOK
  <2>1. pagado \in [Facturas -> Nat] /\ factura \in [Facturas -> {"Abierta", "Pagada"}] BY DEF Init
  <2>2. limite \in [Facturas -> Nat] BY ConstantesOK DEF ConstantesOK, Init
  <2>3. libro \in [Codigos -> SUBSET [factura: Facturas, monto: Montos]] BY DEF Init
  <2>4. hoy \in 0..MaxDia BY Ceros DEF Init
  <2>5. QED BY <2>1, <2>2, <2>3, <2>4 DEF DineroTypeOK
<1>2. EstadoTypeOK
  BY ConstantesOK DEF ConstantesOK, Init, EstadoTypeOK, EstadosContrato, EstadosServicio, EstadosCliente
<1>3. InvocacionTypeOK
  <2>1. fase \in [Invocaciones -> Fases] BY DEF Init, Fases
  <2>2. peticion \in [Invocaciones -> Transacciones \cup Bajas \cup {Nada}] BY DEF Init
  <2>3. vigente \in [Invocaciones -> BOOLEAN] BY DEF Init
  <2>4. intento \in [Invocaciones -> 0..(MaxIntentos - 1)] BY Ceros DEF Init
  <2>5. respuesta \in [Invocaciones -> Respuestas] BY DEF Init, Respuestas
  <2>6. siguiente \in [Invocaciones -> EstadosCliente \ {"Moroso", "Suspendido"}] BY DEF Init, EstadosCliente
  <2>7. QED BY <2>1, <2>2, <2>3, <2>4, <2>5, <2>6 DEF InvocacionTypeOK
<1>4. FotoTypeOK BY FotoVaciaTypes DEF Init, FotoTypeOK
<1>5. QED BY <1>1, <1>2, <1>3, <1>4 DEF TypeOK

\* Steps of a transaction that commit nothing.
LEMMA TerminarTypes ==
    ASSUME TypeOK, NEW w \in Invocaciones, NEW r \in Respuestas, Terminar(w, r),
           peticion' \in [Invocaciones -> Transacciones \cup Bajas \cup {Nada}], siguiente' = siguiente
    PROVE  InvocacionTypeOK' /\ FotoTypeOK'
<1>1. InvocacionTypeOK'
  <2>1. fase' \in [Invocaciones -> Fases] /\ respuesta' \in [Invocaciones -> Respuestas]
    BY DEF TypeOK, InvocacionTypeOK, Terminar, Responde, Fases
  <2>2. vigente' \in [Invocaciones -> BOOLEAN] BY DEF TypeOK, InvocacionTypeOK, Terminar
  <2>3. intento' \in [Invocaciones -> 0..(MaxIntentos - 1)]
    BY Ceros DEF TypeOK, InvocacionTypeOK, Terminar, Responde
  <2>4. siguiente' \in [Invocaciones -> EstadosCliente \ {"Moroso", "Suspendido"}] BY DEF TypeOK, InvocacionTypeOK
  <2>5. QED BY <2>1, <2>2, <2>3, <2>4 DEF InvocacionTypeOK
<1>2. FotoTypeOK' BY FotoVaciaTypes DEF TypeOK, FotoTypeOK, Terminar
<1>3. QED BY <1>1, <1>2

LEMMA IntentarTypes ==
    ASSUME TypeOK, SaldosCuadran, NEW w \in Invocaciones, NEW p \in Transacciones,
           NEW n \in 0..(MaxIntentos - 1), Intentar(w, p, n),
           peticion' \in [Invocaciones -> Transacciones \cup Bajas \cup {Nada}], siguiente' = siguiente
    PROVE  InvocacionTypeOK' /\ FotoTypeOK'
<1>1. Repetida(p) \in Respuestas /\ "rechazo" \in Respuestas BY DEF Repetida, Respuestas
<1>2. CASE Terminar(w, Repetida(p)) \/ Terminar(w, "rechazo") BY <1>1, <1>2, TerminarTypes
<1>3. CASE /\ fase' = [fase EXCEPT ![w] = "leida"]
           /\ foto' = [foto EXCEPT ![w] = Foto]
           /\ vigente' = [vigente EXCEPT ![w] = TRUE]
           /\ intento' = [intento EXCEPT ![w] = n]
           /\ UNCHANGED respuesta
  <2>1. InvocacionTypeOK' BY <1>3 DEF TypeOK, InvocacionTypeOK, Fases
  <2>2. FotoTypeOK' BY <1>3, FotoTypes DEF TypeOK, FotoTypeOK
  <2>3. QED BY <2>1, <2>2
<1>4. QED BY <1>2, <1>3 DEF Intentar

\* The rows a commit writes.
LEMMA ConfirmarTypes ==
    ASSUME TypeOK, NEW w \in Invocaciones, NEW r \in Respuestas,
           NEW contratos, NEW servicios, NEW clientes,
           NEW aContrato \in [Contratos -> EstadosContrato], NEW aServicio \in EstadosServicio,
           NEW aCliente \in EstadosCliente,
           Confirmar(w, r, contratos, aContrato, servicios, aServicio, clientes, aCliente)
    PROVE  EstadoTypeOK' /\ InvocacionTypeOK' /\ FotoTypeOK'
<1>1. EstadoTypeOK'
  <2>1. contrato' \in [Contratos -> EstadosContrato] BY DEF TypeOK, EstadoTypeOK, Confirmar
  <2>2. servicio' \in [Servicios -> EstadosServicio] BY DEF TypeOK, EstadoTypeOK, Confirmar
  <2>3. cliente' \in EstadosCliente BY DEF TypeOK, EstadoTypeOK, Confirmar
  <2>4. instalado' \subseteq Servicios BY DEF TypeOK, EstadoTypeOK, Confirmar
  <2>5. QED BY <2>1, <2>2, <2>3, <2>4 DEF EstadoTypeOK
<1>2. InvocacionTypeOK'
  <2>1. fase' \in [Invocaciones -> Fases] /\ respuesta' \in [Invocaciones -> Respuestas]
    BY DEF TypeOK, InvocacionTypeOK, Confirmar, Responde, Fases
  <2>2. vigente' \in [Invocaciones -> BOOLEAN] BY DEF Confirmar
  <2>3. intento' \in [Invocaciones -> 0..(MaxIntentos - 1)]
    BY Ceros DEF TypeOK, InvocacionTypeOK, Confirmar, Responde
  <2>4. peticion' = peticion /\ siguiente' = siguiente BY DEF Confirmar
  <2>5. QED BY <2>1, <2>2, <2>3, <2>4 DEF TypeOK, InvocacionTypeOK
<1>3. FotoTypeOK' BY FotoVaciaTypes DEF FotoTypeOK, Confirmar
<1>4. QED BY <1>1, <1>2, <1>3

LEMMA RegisterPaymentTypes ==
    ASSUME TypeOK, NEW w \in Invocaciones, RegisterPayment(w)
    PROVE  TypeOK'
<1> DEFINE p == peticion[w]
<1>1. p \in Pagos BY DEF RegisterPayment
<1>2. /\ p.factura \in Facturas
      /\ p.monto \in Nat
      /\ Datos(p) \in [factura: Facturas, monto: Montos]
  BY <1>1, PagoCampos, ConstantesOK DEF ConstantesOK
<1>3. DineroTypeOK'
  <2>1. pagado' \in [Facturas -> Nat]
    <3>1. pagado' = [pagado EXCEPT ![p.factura] = @ + p.monto] BY DEF RegisterPayment
    <3>2. pagado \in [Facturas -> Nat] BY DEF TypeOK, DineroTypeOK
    <3>3. QED BY <1>2, <3>1, <3>2
  <2>2. factura' \in [Facturas -> {"Abierta", "Pagada"}]
    BY <1>2 DEF TypeOK, DineroTypeOK, RegisterPayment
  <2>3. libro' \in [Codigos -> SUBSET [factura: Facturas, monto: Montos]]
    <3>1. libro' = [k \in Codigos |-> IF k = p.codigo THEN libro[k] \cup {Datos(p)} ELSE libro[k]]
      BY DEF RegisterPayment
    <3>2. libro \in [Codigos -> SUBSET [factura: Facturas, monto: Montos]] BY DEF TypeOK, DineroTypeOK
    <3>3. QED BY <1>2, <3>1, <3>2
  <2>4. limite' = limite /\ hoy' = hoy BY DEF RegisterPayment, Confirmar
  <2>5. QED BY <2>1, <2>2, <2>3, <2>4 DEF TypeOK, DineroTypeOK
<1>4. EstadoTypeOK' /\ InvocacionTypeOK' /\ FotoTypeOK'
  <2>1. PICK contratos, servicios, clientes :
           Confirmar(w, "registrado", contratos, [d \in Contratos |-> "Activo"], servicios, "Activo",
                     clientes, "Activo")
    BY DEF RegisterPayment
  <2>2. /\ [d \in Contratos |-> "Activo"] \in [Contratos -> EstadosContrato]
        /\ "Activo" \in EstadosServicio /\ "Activo" \in EstadosCliente /\ "registrado" \in Respuestas
    BY DEF EstadosContrato, EstadosServicio, EstadosCliente, Respuestas
  <2>3. QED BY <2>1, <2>2, ConfirmarTypes
<1>5. QED BY <1>3, <1>4 DEF TypeOK

LEMMA SuspendContractTypes ==
    ASSUME TypeOK, NEW w \in Invocaciones, SuspendContract(w)
    PROVE  TypeOK'
<1>1. PICK contratos, servicios, clientes :
         Confirmar(w, "hecho", contratos, [d \in Contratos |-> "Suspendido"], servicios, "Suspendido",
                   clientes, "Suspendido")
  BY DEF SuspendContract
<1>2. /\ [d \in Contratos |-> "Suspendido"] \in [Contratos -> EstadosContrato]
      /\ "Suspendido" \in EstadosServicio /\ "Suspendido" \in EstadosCliente /\ "hecho" \in Respuestas
  BY DEF EstadosContrato, EstadosServicio, EstadosCliente, Respuestas
<1>3. EstadoTypeOK' /\ InvocacionTypeOK' /\ FotoTypeOK' BY <1>1, <1>2, ConfirmarTypes
<1>4. DineroTypeOK' BY <1>1 DEF TypeOK, DineroTypeOK, SuspendContract, dineroVars, Confirmar
<1>5. QED BY <1>3, <1>4 DEF TypeOK

LEMMA RefreshDelinquencyTypes ==
    ASSUME TypeOK, NEW w \in Invocaciones, RefreshDelinquency(w)
    PROVE  TypeOK'
<1> DEFINE estado == [c \in Contratos |->
               IF \E f \in foto[w].vencidas : ContratoDe[f] = c THEN "Moroso" ELSE "Activo"]
<1> DEFINE aCliente == IF foto[w].vencidas # {} THEN "Moroso" ELSE "Activo"
<1>1. PICK contratos, clientes :
         Confirmar(w, "hecho", contratos, estado, {}, "Activo", clientes, aCliente)
  BY DEF RefreshDelinquency
<1>2. /\ estado \in [Contratos -> EstadosContrato]
      /\ "Activo" \in EstadosServicio /\ aCliente \in EstadosCliente /\ "hecho" \in Respuestas
  BY DEF EstadosContrato, EstadosServicio, EstadosCliente, Respuestas
<1>3. EstadoTypeOK' /\ InvocacionTypeOK' /\ FotoTypeOK' BY <1>1, <1>2, ConfirmarTypes
<1>4. DineroTypeOK' BY <1>1 DEF TypeOK, DineroTypeOK, RefreshDelinquency, dineroVars, Confirmar
<1>5. QED BY <1>3, <1>4 DEF TypeOK

\* Steps that commit one row outside billing.
LEMMA CreateExtensionTypes ==
    ASSUME TypeOK, NEW f \in Facturas, NEW d \in 1..MaxDia, CreateExtension(f, d)
    PROVE  TypeOK'
<1>1. DineroTypeOK'
  <2>1. limite' \in [Facturas -> Nat]
    <3>1. d \in Nat BY ConstantesOK DEF ConstantesOK
    <3>2. QED BY <3>1 DEF TypeOK, DineroTypeOK, CreateExtension
  <2>2. QED BY <2>1 DEF TypeOK, DineroTypeOK, CreateExtension, dineroVars
<1>2. EstadoTypeOK' BY DEF TypeOK, EstadoTypeOK, CreateExtension, estadoVars
<1>3. InvocacionTypeOK' /\ FotoTypeOK'
  BY DEF TypeOK, InvocacionTypeOK, FotoTypeOK, CreateExtension, invocacionVars
<1>4. QED BY <1>1, <1>2, <1>3 DEF TypeOK

LEMMA TickTypes ==
    ASSUME TypeOK, Tick
    PROVE  TypeOK'
<1>1. hoy' \in 0..MaxDia BY ConstantesOK DEF ConstantesOK, TypeOK, DineroTypeOK, Tick
<1>2. QED
  BY <1>1 DEF TypeOK, DineroTypeOK, EstadoTypeOK, InvocacionTypeOK, FotoTypeOK, Tick, datosVars,
              invocacionVars

LEMMA ActivarTypes ==
    ASSUME TypeOK, NEW s \in Servicios, Activar(s)
    PROVE  TypeOK'
<1>1. EstadoTypeOK'
  BY DEF TypeOK, EstadoTypeOK, Activar, EstadosServicio, EstadosContrato
<1>2. DineroTypeOK' BY DEF TypeOK, DineroTypeOK, Activar, dineroVars
<1>3. InvocacionTypeOK' /\ FotoTypeOK'
  BY DEF TypeOK, InvocacionTypeOK, FotoTypeOK, Activar, invocacionVars
<1>4. QED BY <1>1, <1>2, <1>3 DEF TypeOK

\* The steps of a retirement move its invocation and touch no transaction of billing.
LEMMA RetirarTypes ==
    ASSUME TypeOK, NEW w \in Invocaciones, Retirar(w)
    PROVE  TypeOK'
<1>1. UNCHANGED <<dineroVars, limite, hoy, txVars, instalado>>
  BY DEF Retirar, LeerBaja, ContarBaja, ConfirmarBaja, LeerCliente, EscribirCliente, datosVars,
         dineroVars, txVars
<1>2. DineroTypeOK' BY <1>1 DEF TypeOK, DineroTypeOK, dineroVars
<1>3. FotoTypeOK' BY <1>1 DEF TypeOK, FotoTypeOK, txVars
<1>4. fase' \in [Invocaciones -> Fases]
  BY DEF Retirar, LeerBaja, ContarBaja, ConfirmarBaja, LeerCliente, EscribirCliente, TypeOK,
         InvocacionTypeOK, Fases
<1>5. peticion' \in [Invocaciones -> Transacciones \cup Bajas \cup {Nada}]
  <2>1. \A s \in Servicios : [op |-> "baja", servicio |-> s] \in Bajas BY DEF Bajas
  <2>2. QED
    BY <2>1 DEF Retirar, LeerBaja, ContarBaja, ConfirmarBaja, LeerCliente, EscribirCliente, TypeOK,
                InvocacionTypeOK
<1>6. EstadoTypeOK' /\ siguiente' \in [Invocaciones -> EstadosCliente \ {"Moroso", "Suspendido"}]
  <2>1. CASE (\E s \in Servicios : LeerBaja(w, s)) \/ ContarBaja(w)
    BY <2>1 DEF LeerBaja, ContarBaja, datosVars, TypeOK, EstadoTypeOK, InvocacionTypeOK
  <2>2. CASE ConfirmarBaja(w)
    BY <2>2 DEF ConfirmarBaja, TypeOK, EstadoTypeOK, InvocacionTypeOK, EstadosServicio,
                EstadosContrato
  <2>3. CASE LeerCliente(w)
    <3>1. ResolveCustomerLifecycleStatus # cliente =>
             ResolveCustomerLifecycleStatus \in EstadosCliente \ {"Moroso", "Suspendido"}
      <4>1. CASE cliente \in {"Moroso", "Suspendido"} BY <4>1 DEF ResolveCustomerLifecycleStatus
      <4>2. CASE cliente \notin {"Moroso", "Suspendido"}
        <5>1. ResolveCustomerLifecycleStatus \in {"Activo", "Pendiente Instalacion", "Baja", cliente}
          BY <4>2 DEF ResolveCustomerLifecycleStatus
        <5>2. QED BY <5>1 DEF EstadosCliente
      <4>3. QED BY <4>1, <4>2
    <3>2. QED BY <2>3, <3>1 DEF LeerCliente, datosVars, TypeOK, EstadoTypeOK, InvocacionTypeOK
  <2>4. CASE EscribirCliente(w)
    BY <2>4 DEF EscribirCliente, TypeOK, EstadoTypeOK, InvocacionTypeOK, EstadosCliente
  <2>5. QED BY <2>1, <2>2, <2>3, <2>4 DEF Retirar
<1>7. vigente' = vigente /\ intento' = intento /\ respuesta' = respuesta BY <1>1 DEF txVars
<1>8. QED BY <1>2, <1>3, <1>4, <1>5, <1>6, <1>7 DEF TypeOK, InvocacionTypeOK

\* The steps of a transaction of billing.
LEMMA CobranzaTypes ==
    ASSUME TypeOK, SaldosCuadran, NEW w \in Invocaciones, PeticionDeFase(w), Cobranza(w)
    PROVE  TypeOK'
<1>1. CASE RegisterPayment(w) BY <1>1, RegisterPaymentTypes
<1>2. CASE SuspendContract(w) BY <1>2, SuspendContractTypes
<1>3. CASE RefreshDelinquency(w) BY <1>3, RefreshDelinquencyTypes
<1>4. CASE /\ UNCHANGED <<datosVars, hoy, siguiente>>
           /\ InvocacionTypeOK' /\ FotoTypeOK'
  BY <1>4 DEF TypeOK, DineroTypeOK, EstadoTypeOK, datosVars
<1>5. ASSUME NEW p \in Transacciones, Empezar(w, p) PROVE TypeOK'
  <2>1. peticion' \in [Invocaciones -> Transacciones \cup Bajas \cup {Nada}]
    BY <1>5 DEF Empezar, TypeOK, InvocacionTypeOK
  <2>2. Intentar(w, p, 0) /\ UNCHANGED <<datosVars, hoy, siguiente>> BY <1>5 DEF Empezar
  <2>3. InvocacionTypeOK' /\ FotoTypeOK' BY <2>1, <2>2, Ceros, IntentarTypes
  <2>4. QED BY <1>4, <2>2, <2>3
<1>6. CASE Reintentar(w)
  <2>1. peticion[w] \in Transacciones BY <1>6 DEF Reintentar, Perdida, PeticionDeFase
  <2>2. peticion' \in [Invocaciones -> Transacciones \cup Bajas \cup {Nada}]
    BY <1>6 DEF Reintentar, TypeOK, InvocacionTypeOK
  <2>3. intento[w] + 1 \in 0..(MaxIntentos - 1)
    <3>1. intento[w] \in 0..(MaxIntentos - 1) BY DEF TypeOK, InvocacionTypeOK
    <3>2. intento[w] + 1 < MaxIntentos BY <1>6 DEF Reintentar
    <3>3. MaxIntentos \in Nat BY ConstantesOK DEF ConstantesOK
    <3>4. QED BY <3>1, <3>2, <3>3
  <2>4. Intentar(w, peticion[w], intento[w] + 1) /\ UNCHANGED <<datosVars, hoy, siguiente>>
    BY <1>6 DEF Reintentar
  <2>5. InvocacionTypeOK' /\ FotoTypeOK' BY <2>1, <2>2, <2>3, <2>4, IntentarTypes
  <2>6. QED BY <1>4, <2>4, <2>5
<1>7. CASE Conflicto(w) \/ ReferenciaRepetida(w)
  <2>1. PICK r \in Respuestas : Terminar(w, r)
    BY <1>7 DEF Conflicto, ReferenciaRepetida, Repetida, Respuestas
  <2>2. UNCHANGED <<datosVars, hoy, peticion, siguiente>> BY <1>7 DEF Conflicto, ReferenciaRepetida
  <2>3. InvocacionTypeOK' /\ FotoTypeOK'
    BY <2>1, <2>2, TerminarTypes DEF TypeOK, InvocacionTypeOK
  <2>4. QED BY <1>4, <2>2, <2>3
<1>8. CASE Responder(w)
  <2>1. UNCHANGED <<datosVars, hoy, foto, vigente, intento, siguiente>> BY <1>8 DEF Responder
  <2>2. InvocacionTypeOK' /\ FotoTypeOK'
    BY <1>8, <2>1 DEF Responder, TypeOK, InvocacionTypeOK, FotoTypeOK, Fases, Respuestas
  <2>3. QED BY <1>4, <2>1, <2>2
<1>9. QED BY <1>1, <1>2, <1>3, <1>5, <1>6, <1>7, <1>8 DEF Cobranza

LEMMA TypeNext ==
    ASSUME TypeOK, IInv, [Next]_vars
    PROVE  TypeOK'
<1>1. ASSUME NEW w \in Invocaciones, Cobranza(w) PROVE TypeOK' BY <1>1, CobranzaTypes DEF IInv
<1>2. ASSUME NEW w \in Invocaciones, Retirar(w) PROVE TypeOK' BY <1>2, RetirarTypes
<1>3. ASSUME NEW f \in Facturas, NEW d \in 1..MaxDia, CreateExtension(f, d) PROVE TypeOK'
  BY <1>3, CreateExtensionTypes
<1>4. ASSUME NEW s \in Servicios, Activar(s) PROVE TypeOK' BY <1>4, ActivarTypes
<1>5. CASE Tick BY <1>5, TickTypes
<1>6. CASE UNCHANGED vars
  BY <1>6 DEF vars, datosVars, invocacionVars, TypeOK, DineroTypeOK, EstadoTypeOK, InvocacionTypeOK,
              FotoTypeOK
<1>7. QED BY <1>1, <1>2, <1>3, <1>4, <1>5, <1>6 DEF Next

(***************************************************************************)
(* Retirements are final.                                                  *)
(***************************************************************************)

BajasFirmes ==
    /\ \A c \in Contratos : contrato[c] = "Baja" => contrato'[c] = "Baja"
    /\ \A s \in Servicios : servicio[s] = "Baja" => servicio'[s] = "Baja"

SinNuevasBajas == \A c \in Contratos : contrato'[c] = "Baja" => contrato[c] = "Baja"

\* A commit that writes no row its snapshot shows retired retires nothing, and nothing
\* retired comes back: a row retired since the snapshot is not written.
LEMMA ConfirmarFirme ==
    ASSUME TypeOK, NEW w \in Invocaciones, NEW r, NEW contratos, NEW servicios, NEW clientes,
           NEW aContrato, NEW aServicio, NEW aCliente,
           Confirmar(w, r, contratos, aContrato, servicios, aServicio, clientes, aCliente),
           \A c \in contratos : foto[w].contrato[c] # "Baja",
           \A s \in servicios : foto[w].servicio[s] # "Baja",
           \A c \in Contratos : aContrato[c] # "Baja"
    PROVE  BajasFirmes /\ SinNuevasBajas
<1>1. /\ \A c \in contratos : contrato[c] # "Baja"
      /\ \A s \in servicios : servicio[s] # "Baja"
  BY DEF Confirmar, Confirmable
<1>2. /\ \A c \in Contratos : contrato'[c] = IF c \in contratos THEN aContrato[c] ELSE contrato[c]
      /\ \A s \in Servicios : servicio'[s] = IF s \in servicios THEN aServicio ELSE servicio[s]
  BY DEF Confirmar
<1>3. QED BY <1>1, <1>2 DEF BajasFirmes, SinNuevasBajas

\* The three transactions of billing write such rows only.
LEMMA CommitFirme ==
    ASSUME Inv, NEW w \in Invocaciones,
           RegisterPayment(w) \/ SuspendContract(w) \/ RefreshDelinquency(w)
    PROVE  BajasFirmes /\ SinNuevasBajas
<1>1. CASE RegisterPayment(w)
  <2> DEFINE c == ContratoDe[peticion[w].factura]
             servicios == IF AlDia(w) THEN Reactivables(w, c) ELSE {}
             contratos == IF AlDia(w) /\ (servicios # {} \/ foto[w].contrato[c] = "Moroso")
                          THEN {c} ELSE {}
             activo == [d \in Contratos |-> "Activo"]
  <2>1. PICK clientes : Confirmar(w, "registrado", contratos, activo, servicios, "Activo", clientes, "Activo")
    BY <1>1 DEF RegisterPayment
  <2>2. /\ \A s \in servicios : foto[w].servicio[s] # "Baja" /\ foto[w].contrato[c] = "Suspendido"
        /\ \A d \in contratos : foto[w].contrato[d] # "Baja"
    BY DEF Reactivables
  <2>3. \A d \in Contratos : activo[d] # "Baja" OBVIOUS
  <2> HIDE DEF servicios, contratos, activo
  <2>4. QED BY <2>1, <2>2, <2>3, ConfirmarFirme DEF Inv
<1>2. CASE SuspendContract(w)
  <2> DEFINE c == peticion[w].contrato
             activos == {s \in Servicios : ContratoServicio[s] = c /\ foto[w].servicio[s] = "Activo"}
             suspendido == [d \in Contratos |-> "Suspendido"]
  <2>1. PICK clientes : Confirmar(w, "hecho", {c}, suspendido, activos, "Suspendido", clientes, "Suspendido")
    BY <1>2 DEF SuspendContract
  <2>2. foto[w].contrato[c] # "Baja"
    <3>1. Leida(w) /\ peticion[w] \in Suspensiones
      BY <1>2 DEF SuspendContract, Confirmar, Confirmable, Leida
    <3>2. QED BY <3>1 DEF Inv, IInv, DecisionFirme
  <2>3. /\ \A d \in Contratos : suspendido[d] # "Baja"
        /\ \A s \in activos : foto[w].servicio[s] # "Baja"
        /\ \A d \in {c} : foto[w].contrato[d] # "Baja"
    BY <2>2
  <2> HIDE DEF activos, suspendido
  <2>4. QED BY <2>1, <2>3, ConfirmarFirme DEF Inv
<1>3. CASE RefreshDelinquency(w)
  <2> DEFINE estado == [c \in Contratos |->
                 IF \E f \in foto[w].vencidas : ContratoDe[f] = c THEN "Moroso" ELSE "Activo"]
             evaluados == {c \in Contratos : /\ EmpresaDe[c] \in peticion[w].alcance
                                             /\ foto[w].contrato[c] \in {"Activo", "Moroso"}}
             contratos == {c \in evaluados : foto[w].contrato[c] # estado[c]}
  <2>1. PICK clientes, aCliente : Confirmar(w, "hecho", contratos, estado, {}, "Activo", clientes, aCliente)
    BY <1>3 DEF RefreshDelinquency
  <2>2. /\ \A d \in Contratos : estado[d] # "Baja"
        /\ \A d \in contratos : foto[w].contrato[d] # "Baja"
    OBVIOUS
  <2> HIDE DEF estado, contratos
  <2>3. QED BY <2>1, <2>2, ConfirmarFirme DEF Inv
<1>4. QED BY <1>1, <1>2, <1>3

\* Steps of billing that commit nothing.
Quieta(w) ==
    \/ \E p \in Transacciones : Empezar(w, p)
    \/ Reintentar(w) \/ Conflicto(w) \/ ReferenciaRepetida(w) \/ Responder(w)

LEMMA QuietaNoCommit ==
    ASSUME NEW w \in Invocaciones, Quieta(w)
    PROVE  UNCHANGED <<datosVars, hoy, siguiente>>
  BY DEF Quieta, Empezar, Reintentar, Conflicto, ReferenciaRepetida, Responder

LEMMA FirmeNext ==
    ASSUME Inv, [Next]_vars
    PROVE  BajasFirmes
<1>1. ASSUME NEW w \in Invocaciones, Cobranza(w) PROVE BajasFirmes
  <2>1. CASE Quieta(w) BY <2>1, QuietaNoCommit DEF datosVars, BajasFirmes
  <2>2. QED BY <1>1, <2>1, CommitFirme DEF Cobranza, Quieta
<1>2. ASSUME NEW w \in Invocaciones, Retirar(w) PROVE BajasFirmes
  <2>1. CASE ConfirmarBaja(w) BY <2>1 DEF ConfirmarBaja, BajasFirmes, Inv, TypeOK, EstadoTypeOK
  <2>2. QED
    BY <1>2, <2>1 DEF Retirar, LeerBaja, ContarBaja, LeerCliente, EscribirCliente, datosVars, BajasFirmes
<1>3. ASSUME NEW f \in Facturas, NEW d \in 1..MaxDia, CreateExtension(f, d) PROVE BajasFirmes
  BY <1>3 DEF CreateExtension, estadoVars, BajasFirmes
<1>4. ASSUME NEW s \in Servicios, Activar(s) PROVE BajasFirmes
  BY <1>4 DEF Activar, BajasFirmes, Inv, TypeOK, EstadoTypeOK
<1>5. CASE Tick BY <1>5 DEF Tick, datosVars, BajasFirmes
<1>6. CASE UNCHANGED vars BY <1>6 DEF vars, datosVars, BajasFirmes
<1>7. QED BY <1>1, <1>2, <1>3, <1>4, <1>5, <1>6 DEF Next

(***************************************************************************)
(* The inductive invariant.                                                *)
(***************************************************************************)

Commit(w) == RegisterPayment(w) \/ SuspendContract(w) \/ RefreshDelinquency(w)

\* Steps that commit nothing of billing: money does not move, days and due days only
\* advance, no contract is suspended.
SoloAvanza ==
    /\ UNCHANGED dineroVars
    /\ hoy <= hoy'
    /\ \A f \in Facturas : limite[f] <= limite'[f]
    /\ \A c \in Contratos : contrato'[c] = "Suspendido" => contrato[c] = "Suspendido"
    /\ instalado \subseteq instalado'

LEMMA HoyNat == TypeOK => hoy \in Nat
  BY Ceros DEF TypeOK, DineroTypeOK

LEMMA SoloAvanzaQuieto ==
    ASSUME TypeOK, UNCHANGED <<dineroVars, limite, contrato, instalado, hoy>>
    PROVE  SoloAvanza
<1>1. hoy \in Nat /\ \A f \in Facturas : limite[f] \in Nat BY HoyNat DEF TypeOK, DineroTypeOK
<1>2. QED BY <1>1 DEF SoloAvanza

LEMMA AvanzaNext ==
    ASSUME TypeOK, [Next]_vars, \A w \in Invocaciones : ~Commit(w)
    PROVE  SoloAvanza
<1>1. ASSUME NEW w \in Invocaciones, Cobranza(w) PROVE SoloAvanza
  <2>1. Quieta(w) BY <1>1 DEF Cobranza, Quieta, Commit
  <2>2. UNCHANGED <<datosVars, hoy>> BY <2>1, QuietaNoCommit
  <2>3. QED BY <2>2, SoloAvanzaQuieto DEF datosVars, dineroVars
<1>2. ASSUME NEW w \in Invocaciones, Retirar(w) PROVE SoloAvanza
  <2>1. CASE ConfirmarBaja(w)
    <3>1. UNCHANGED <<dineroVars, limite, instalado, hoy>> BY <2>1 DEF ConfirmarBaja
    <3>2. \A c \in Contratos : contrato'[c] = "Suspendido" => contrato[c] = "Suspendido"
      BY <2>1 DEF ConfirmarBaja, TypeOK, EstadoTypeOK
    <3>3. hoy \in Nat /\ \A f \in Facturas : limite[f] \in Nat BY HoyNat DEF TypeOK, DineroTypeOK
    <3>4. QED BY <3>1, <3>2, <3>3 DEF SoloAvanza
  <2>2. CASE ~ConfirmarBaja(w)
    <3>1. UNCHANGED <<dineroVars, limite, contrato, instalado, hoy>>
      BY <1>2, <2>2 DEF Retirar, LeerBaja, ContarBaja, LeerCliente, EscribirCliente, datosVars, dineroVars
    <3>2. QED BY <3>1, SoloAvanzaQuieto
  <2>3. QED BY <2>1, <2>2
<1>3. ASSUME NEW f \in Facturas, NEW d \in 1..MaxDia, CreateExtension(f, d) PROVE SoloAvanza
  <2>1. d \in Nat /\ hoy \in Nat /\ limite \in [Facturas -> Nat]
    BY HoyNat, ConstantesOK DEF ConstantesOK, TypeOK, DineroTypeOK
  <2>2. limite' = [limite EXCEPT ![f] = d] /\ d > limite[f] BY <1>3 DEF CreateExtension
  <2>3. \A g \in Facturas : limite[g] <= limite'[g] BY <2>1, <2>2
  <2>4. UNCHANGED <<dineroVars, contrato, instalado, hoy>> BY <1>3 DEF CreateExtension, estadoVars
  <2>5. QED BY <2>1, <2>3, <2>4 DEF SoloAvanza
<1>4. ASSUME NEW s \in Servicios, Activar(s) PROVE SoloAvanza
  <2>1. (UNCHANGED <<dineroVars, limite, hoy>>) /\ instalado \subseteq instalado' BY <1>4 DEF Activar
  <2>2. \A c \in Contratos : contrato'[c] = "Suspendido" => contrato[c] = "Suspendido"
    BY <1>4 DEF Activar, TypeOK, EstadoTypeOK
  <2>3. hoy \in Nat /\ \A f \in Facturas : limite[f] \in Nat BY HoyNat DEF TypeOK, DineroTypeOK
  <2>4. QED BY <2>1, <2>2, <2>3 DEF SoloAvanza
<1>5. CASE Tick
  <2>1. UNCHANGED <<dineroVars, limite, contrato, instalado>> /\ hoy' = hoy + 1
    BY <1>5 DEF Tick, datosVars, dineroVars
  <2>2. hoy \in Nat /\ \A f \in Facturas : limite[f] \in Nat BY HoyNat DEF TypeOK, DineroTypeOK
  <2>3. QED BY <2>1, <2>2 DEF SoloAvanza
<1>6. CASE UNCHANGED vars
  BY <1>6, SoloAvanzaQuieto DEF vars, datosVars, dineroVars
<1>7. QED BY <1>1, <1>2, <1>3, <1>4, <1>5, <1>6 DEF Next, Cobranza

\* A payment that commits had a valid snapshot: it pays what is owed or less.
LEMMA PagoEnFirme ==
    ASSUME Inv, NEW w \in Invocaciones, RegisterPayment(w)
    PROVE  LET p == peticion[w] IN
           /\ p \in Pagos
           /\ ConDeuda(p.factura)
           /\ p.monto \in 1..Saldo(p.factura)
           /\ foto[w].saldo[p.factura] = Saldo(p.factura)
<1> DEFINE p == peticion[w]
<1>1. Leida(w) /\ p \in Pagos BY DEF RegisterPayment, Confirmar, Confirmable, Leida
<1>2. p.factura \in Facturas /\ p.monto \in Nat \ {0}
  BY <1>1, PagoCampos, ConstantesOK DEF ConstantesOK
<1>3. FotoFiel(w) /\ DecisionFirme(w) BY DEF Inv, IInv
<1>4. foto[w].saldo[p.factura] = Saldo(p.factura) BY <1>1, <1>2, <1>3 DEF FotoFiel
<1>5. ConDeuda(p.factura) /\ p.monto <= Saldo(p.factura) BY <1>1, <1>3 DEF DecisionFirme
<1>6. Saldo(p.factura) \in Int
  BY <1>2, ConstantesOK DEF ConstantesOK, Saldo, Inv, TypeOK, DineroTypeOK
<1>7. QED BY <1>1, <1>2, <1>4, <1>5, <1>6

\* What a payment leaves of every invoice.
LEMMA PagoAplicado ==
    ASSUME Inv, NEW w \in Invocaciones, RegisterPayment(w), NEW f \in Facturas
    PROVE  /\ f # peticion[w].factura => pagado'[f] = pagado[f] /\ factura'[f] = factura[f]
           /\ f = peticion[w].factura =>
                 /\ pagado'[f] = pagado[f] + peticion[w].monto
                 /\ factura'[f] = IF Saldo(f) = peticion[w].monto THEN "Pagada" ELSE factura[f]
<1> DEFINE p == peticion[w]
<1>1. p.factura \in Facturas /\ foto[w].saldo[p.factura] = Saldo(p.factura)
  BY PagoEnFirme, PagoCampos
<1>2. /\ pagado' = [pagado EXCEPT ![p.factura] = @ + p.monto]
      /\ factura' = [factura EXCEPT ![p.factura] =
                        IF foto[w].saldo[p.factura] = p.monto THEN "Pagada" ELSE @]
  BY DEF RegisterPayment
<1>3. pagado \in [Facturas -> Nat] /\ factura \in [Facturas -> {"Abierta", "Pagada"}]
  BY DEF Inv, TypeOK, DineroTypeOK
<1>4. QED BY <1>1, <1>2, <1>3

LEMMA SaldosNext ==
    ASSUME Inv, [Next]_vars
    PROVE  SaldosCuadran'
<1>1. ASSUME NEW w \in Invocaciones, RegisterPayment(w) PROVE SaldosCuadran'
  <2> SUFFICES ASSUME NEW f \in Facturas
               PROVE  /\ pagado'[f] <= Monto[f]
                      /\ factura'[f] = "Pagada" => pagado'[f] = Monto[f]
                      /\ factura'[f] = "Abierta" => pagado'[f] < Monto[f]
    BY DEF SaldosCuadran
  <2> DEFINE m == peticion[w].monto
  <2>1. /\ pagado[f] \in Nat /\ Monto[f] \in Nat
        /\ pagado[f] <= Monto[f]
        /\ factura[f] = "Pagada" => pagado[f] = Monto[f]
        /\ factura[f] = "Abierta" => pagado[f] < Monto[f]
    BY ConstantesOK DEF ConstantesOK, Inv, TypeOK, DineroTypeOK, IInv, SaldosCuadran
  <2>2. CASE f # peticion[w].factura BY <1>1, <2>1, <2>2, PagoAplicado
  <2>3. CASE f = peticion[w].factura
    <3>1. m \in 1..(Monto[f] - pagado[f]) /\ factura[f] = "Abierta"
      BY <1>1, <2>3, PagoEnFirme DEF Saldo, ConDeuda
    <3>2. /\ pagado'[f] = pagado[f] + m
          /\ factura'[f] = IF Monto[f] - pagado[f] = m THEN "Pagada" ELSE factura[f]
      BY <1>1, <2>3, PagoAplicado DEF Saldo
    <3> HIDE DEF m
    <3>3. QED BY <2>1, <3>1, <3>2
  <2>4. QED BY <2>2, <2>3
<1>2. CASE \A w \in Invocaciones : ~RegisterPayment(w)
  <2>1. UNCHANGED dineroVars
    <3>1. ASSUME NEW w \in Invocaciones, Commit(w) PROVE UNCHANGED dineroVars
      BY <1>2, <3>1 DEF Commit, SuspendContract, RefreshDelinquency
    <3>2. CASE \A w \in Invocaciones : ~Commit(w) BY <3>2, AvanzaNext DEF Inv, SoloAvanza
    <3>3. QED BY <3>1, <3>2
  <2>2. QED BY <2>1 DEF Inv, IInv, SaldosCuadran, dineroVars
<1>3. QED BY <1>1, <1>2

\* What a step other than a payment leaves of the money, and any step of the due days.
LEMMA SinPago ==
    ASSUME TypeOK, [Next]_vars, \A w \in Invocaciones : ~RegisterPayment(w)
    PROVE  UNCHANGED dineroVars
<1>1. ASSUME NEW w \in Invocaciones, Commit(w) PROVE UNCHANGED dineroVars
  BY <1>1 DEF Commit, SuspendContract, RefreshDelinquency
<1>2. CASE \A w \in Invocaciones : ~Commit(w) BY <1>2, AvanzaNext DEF SoloAvanza
<1>3. QED BY <1>1, <1>2

LEMMA LimiteNext ==
    ASSUME Inv, [Next]_vars
    PROVE  LimiteNoRetrocede'
<1>1. \A f \in Facturas : limite[f] <= limite'[f]
  <2>1. ASSUME NEW w \in Invocaciones, Commit(w) PROVE limite' = limite
    BY <2>1 DEF Commit, RegisterPayment, SuspendContract, RefreshDelinquency, Confirmar
  <2>2. CASE limite' = limite BY <2>2 DEF Inv, TypeOK, DineroTypeOK
  <2>3. CASE \A w \in Invocaciones : ~Commit(w) BY <2>3, AvanzaNext DEF Inv, SoloAvanza
  <2>4. QED BY <2>1, <2>2, <2>3
<1>2. \A f \in Facturas : Vence[f] \in Nat /\ limite[f] \in Nat /\ limite'[f] \in Nat
  BY TypeNext, ConstantesOK DEF ConstantesOK, Inv, TypeOK, DineroTypeOK
<1>3. \A f \in Facturas : Vence[f] <= limite[f] BY DEF Inv, IInv, LimiteNoRetrocede
<1>4. QED BY <1>1, <1>2, <1>3 DEF LimiteNoRetrocede

\* The ledger after a payment: a code that was taken keeps its payment.
LEMMA LibroAplicado ==
    ASSUME Inv, NEW w \in Invocaciones, RegisterPayment(w), NEW k \in Codigos
    PROVE  /\ k # peticion[w].codigo => libro'[k] = libro[k]
           /\ k = peticion[w].codigo => libro[k] = {} /\ libro'[k] = {Datos(peticion[w])}
<1>1. /\ libro' = [q \in Codigos |-> IF q = peticion[w].codigo THEN libro[q] \cup {Datos(peticion[w])}
                                     ELSE libro[q]]
      /\ CodigoLibre(peticion[w])
  BY DEF RegisterPayment
<1>2. k # SinCodigo BY ConstantesOK DEF ConstantesOK
<1>3. QED BY <1>1, <1>2 DEF CodigoLibre

LEMMA CodigoNext ==
    ASSUME Inv, [Next]_vars
    PROVE  CodigoUnico'
<1>1. ASSUME NEW w \in Invocaciones, RegisterPayment(w) PROVE CodigoUnico'
  BY <1>1, LibroAplicado DEF Inv, IInv, CodigoUnico
<1>2. CASE \A w \in Invocaciones : ~RegisterPayment(w)
  BY <1>2, SinPago DEF Inv, IInv, CodigoUnico, dineroVars
<1>3. QED BY <1>1, <1>2

\* Where an invocation may be after a step, and with which request.
LEMMA PeticionNext ==
    ASSUME Inv, [Next]_vars, NEW v \in Invocaciones
    PROVE  PeticionDeFase(v)'
<1>0. /\ PeticionDeFase(v)
      /\ fase \in [Invocaciones -> Fases]
      /\ peticion \in [Invocaciones -> Transacciones \cup Bajas \cup {Nada}]
  BY DEF Inv, IInv, TypeOK, InvocacionTypeOK
<1>1. ASSUME NEW w \in Invocaciones, Commit(w) PROVE PeticionDeFase(v)'
  <2>1. /\ peticion' = peticion /\ fase[w] = "leida"
        /\ fase' = [fase EXCEPT ![w] = "fin"]
    BY <1>1 DEF Commit, RegisterPayment, SuspendContract, RefreshDelinquency, Confirmar, Confirmable,
                Responde
  <2>2. QED BY <1>0, <2>1 DEF PeticionDeFase
<1>2. ASSUME NEW w \in Invocaciones, Quieta(w) PROVE PeticionDeFase(v)'
  <2>1. ASSUME NEW p \in Transacciones, Empezar(w, p) PROVE PeticionDeFase(v)'
    <3>1. /\ peticion' = [peticion EXCEPT ![w] = p]
          /\ fase' = [fase EXCEPT ![w] = "leida"] \/ fase' = [fase EXCEPT ![w] = "fin"]
      BY <2>1 DEF Empezar, Intentar, Terminar, Responde
    <3>2. QED BY <1>0, <2>1, <3>1 DEF PeticionDeFase
  <2>2. CASE Reintentar(w) \/ Conflicto(w) \/ ReferenciaRepetida(w)
    <3>1. /\ peticion' = peticion /\ fase[w] = "leida"
          /\ fase' = [fase EXCEPT ![w] = "leida"] \/ fase' = [fase EXCEPT ![w] = "fin"]
      BY <2>2 DEF Reintentar, Conflicto, ReferenciaRepetida, Perdida, Intentar, Terminar, Responde
    <3>2. QED BY <1>0, <3>1 DEF PeticionDeFase
  <2>3. CASE Responder(w)
    BY <1>0, <2>3 DEF Responder, PeticionDeFase
  <2>4. QED BY <1>2, <2>1, <2>2, <2>3 DEF Quieta
<1>3. ASSUME NEW w \in Invocaciones, Retirar(w) PROVE PeticionDeFase(v)'
  <2>1. ASSUME NEW s \in Servicios, LeerBaja(w, s) PROVE PeticionDeFase(v)'
    <3>1. [op |-> "baja", servicio |-> s] \in Bajas BY DEF Bajas
    <3>2. QED BY <1>0, <2>1, <3>1 DEF LeerBaja, PeticionDeFase
  <2>2. CASE ContarBaja(w) BY <1>0, <2>2 DEF ContarBaja, PeticionDeFase
  <2>3. CASE ConfirmarBaja(w) BY <1>0, <2>3 DEF ConfirmarBaja, PeticionDeFase
  <2>4. CASE LeerCliente(w) BY <1>0, <2>4 DEF LeerCliente, PeticionDeFase
  <2>5. CASE EscribirCliente(w) BY <1>0, <2>5 DEF EscribirCliente, PeticionDeFase
  <2>6. QED BY <1>3, <2>1, <2>2, <2>3, <2>4, <2>5 DEF Retirar
<1>4. CASE UNCHANGED invocacionVars BY <1>0, <1>4 DEF invocacionVars, PeticionDeFase
<1>5. QED
  BY <1>1, <1>2, <1>3, <1>4 DEF Next, Cobranza, Quieta, Commit, CreateExtension, Activar, Tick, vars

\* Retirements of the services of one contract.
LEMMA RetiroNext ==
    ASSUME Inv, [Next]_vars
    PROVE  RetiredContractIsEmpty' /\ \A v \in Invocaciones : UltimoDelContrato(v)'
<1>0. /\ BajasFirmes /\ RetiredContractIsEmpty
      /\ \A v \in Invocaciones : UltimoDelContrato(v) /\ PeticionDeFase(v)
      /\ fase \in [Invocaciones -> Fases]
      /\ ContratoServicio \in [Servicios -> Contratos]
  BY FirmeNext, ConstantesOK DEF ConstantesOK, Inv, IInv, TypeOK, InvocacionTypeOK
<1>1. RetiredContractIsEmpty'
  <2>1. CASE SinNuevasBajas BY <1>0, <2>1 DEF RetiredContractIsEmpty, BajasFirmes, SinNuevasBajas
  <2>2. ASSUME NEW w \in Invocaciones, ConfirmarBaja(w), fase[w] = "ultimo"
        PROVE  RetiredContractIsEmpty'
    <3> DEFINE s == peticion[w].servicio
    <3>1. s \in Servicios BY <1>0, <2>2, BajaCampos DEF PeticionDeFase
    <3>2. servicio' = [servicio EXCEPT ![s] = "Baja"]
          /\ contrato' = [contrato EXCEPT ![ContratoServicio[s]] = "Baja"]
      BY <2>2 DEF ConfirmarBaja
    <3>3. \A t \in Hermanos(s) : servicio[t] = "Baja" BY <1>0, <2>2 DEF UltimoDelContrato
    <3>4. servicio \in [Servicios -> EstadosServicio] /\ contrato \in [Contratos -> EstadosContrato]
      BY DEF Inv, TypeOK, EstadoTypeOK
    <3> HIDE DEF s
    <3>5. ASSUME NEW t \in Servicios, contrato'[ContratoServicio[t]] = "Baja"
          PROVE  servicio'[t] = "Baja"
      <4>1. CASE t = s BY <3>1, <3>2, <3>4, <4>1
      <4>2. CASE t # s /\ ContratoServicio[t] = ContratoServicio[s]
        <5>1. servicio[t] = "Baja" BY <3>3, <4>2 DEF Hermanos
        <5>2. QED BY <1>0, <5>1 DEF BajasFirmes
      <4>3. CASE ContratoServicio[t] # ContratoServicio[s]
        <5>1. ContratoServicio[t] \in Contratos BY <1>0
        <5>2. contrato[ContratoServicio[t]] = "Baja" BY <3>2, <3>4, <3>5, <4>3, <5>1
        <5>3. QED BY <1>0, <5>2 DEF RetiredContractIsEmpty, BajasFirmes
      <4>4. QED BY <4>1, <4>2, <4>3
    <3>6. QED BY <3>5 DEF RetiredContractIsEmpty
  <2>3. ASSUME NEW w \in Invocaciones, ConfirmarBaja(w), fase[w] # "ultimo" PROVE SinNuevasBajas
    BY <2>3 DEF ConfirmarBaja, SinNuevasBajas, Inv, TypeOK, EstadoTypeOK
  <2>4. ASSUME NEW s \in Servicios, Activar(s) PROVE SinNuevasBajas
    BY <2>4 DEF Activar, SinNuevasBajas, Inv, TypeOK, EstadoTypeOK
  <2>5. ASSUME NEW w \in Invocaciones, Commit(w) PROVE SinNuevasBajas
    BY <2>5, CommitFirme DEF Commit
  <2>6. ASSUME NEW w \in Invocaciones, Quieta(w) PROVE SinNuevasBajas
    BY <2>6, QuietaNoCommit DEF datosVars, SinNuevasBajas
  <2>7. ASSUME NEW w \in Invocaciones, Retirar(w), ~ConfirmarBaja(w) PROVE SinNuevasBajas
    BY <2>7 DEF Retirar, LeerBaja, ContarBaja, LeerCliente, EscribirCliente, datosVars, SinNuevasBajas
  <2>8. CASE UNCHANGED contrato BY <2>1, <2>8 DEF SinNuevasBajas
  <2>9. QED
    BY <2>1, <2>2, <2>3, <2>4, <2>5, <2>6, <2>7, <2>8
    DEF Next, Cobranza, Quieta, Commit, CreateExtension, estadoVars, Tick, vars, datosVars
<1>2. ASSUME NEW v \in Invocaciones PROVE UltimoDelContrato(v)'
  <2>1. CASE fase'[v] = "ultimo" /\ fase[v] = "ultimo" /\ peticion'[v] = peticion[v]
    BY <1>0, <2>1 DEF UltimoDelContrato, BajasFirmes, Hermanos
  <2>2. CASE ContarBaja(v) BY <1>0, <2>2 DEF ContarBaja, datosVars, UltimoDelContrato, Hermanos
  <2>3. CASE fase'[v] # "ultimo" BY <2>3 DEF UltimoDelContrato
  <2>4. CASE fase'[v] = fase[v] /\ peticion'[v] = peticion[v] BY <2>1, <2>3, <2>4
  <2>5. ASSUME NEW w \in Invocaciones, Cobranza(w)
        PROVE  fase'[v] # "ultimo" \/ (fase'[v] = fase[v] /\ peticion'[v] = peticion[v])
    <3>1. /\ fase' = [fase EXCEPT ![w] = fase'[w]]
          /\ peticion' = peticion \/ peticion' = [peticion EXCEPT ![w] = peticion'[w]]
          /\ fase'[w] \in {"leida", "fin", "libre"}
      BY <1>0, <2>5 DEF Cobranza, Empezar, Reintentar, Conflicto, ReferenciaRepetida, Responder, Intentar,
                  Terminar, Responde, RegisterPayment, SuspendContract, RefreshDelinquency, Confirmar,
                  Inv, TypeOK, InvocacionTypeOK
    <3>2. QED BY <1>0, <3>1 DEF Inv, TypeOK, InvocacionTypeOK
  <2>6. ASSUME NEW w \in Invocaciones, Retirar(w), ~ContarBaja(w)
        PROVE  fase'[v] # "ultimo" \/ (fase'[v] = fase[v] /\ peticion'[v] = peticion[v])
    BY <1>0, <2>6 DEF Retirar, LeerBaja, ConfirmarBaja, LeerCliente, EscribirCliente, Inv, TypeOK,
                      InvocacionTypeOK
  <2>7. ASSUME NEW w \in Invocaciones, ContarBaja(w), w # v
        PROVE  fase'[v] = fase[v] /\ peticion'[v] = peticion[v]
    BY <1>0, <2>7 DEF ContarBaja
  <2>8. CASE UNCHANGED invocacionVars BY <2>4, <2>8 DEF invocacionVars
  <2>9. QED
    BY <2>2, <2>3, <2>4, <2>5, <2>6, <2>7, <2>8 DEF Next, CreateExtension, Activar, Tick, vars
<1>3. QED BY <1>1, <1>2

\* A snapshot that was right stays right while billing commits nothing.
LEMMA FielMantenida ==
    ASSUME Inv, TypeOK', SoloAvanza, NEW v \in Invocaciones,
           fase'[v] = fase[v], peticion'[v] = peticion[v], foto'[v] = foto[v], vigente'[v] = vigente[v]
    PROVE  FotoFiel(v)' /\ DecisionFirme(v)'
<1> SUFFICES ASSUME Leida(v)' PROVE FotoFiel(v)' /\ DecisionFirme(v)'
  BY DEF FotoFiel, DecisionFirme
<1>1. Leida(v) /\ FotoFiel(v) /\ DecisionFirme(v) BY DEF Leida, Inv, IInv
<1>2. \A f \in Facturas : (Saldo(f)' = Saldo(f)) /\ (ConDeuda(f)' <=> ConDeuda(f))
  BY DEF SoloAvanza, dineroVars, Saldo, ConDeuda
<1>3. /\ hoy \in Nat /\ hoy' \in Nat /\ foto[v].dia \in Nat
      /\ \A f \in Facturas : limite[f] \in Nat /\ limite'[f] \in Nat
  BY HoyNat, Ceros DEF Inv, TypeOK, DineroTypeOK, FotoTypeOK, Fotos
<1>4. hoy <= hoy' /\ \A f \in Facturas : limite[f] <= limite'[f] BY DEF SoloAvanza
<1>5. FotoFiel(v)'
  <2>1. foto[v].dia <= hoy' BY <1>1, <1>3, <1>4 DEF FotoFiel
  <2>2. \A f \in Facturas : foto[v].saldo[f] = Saldo(f)' BY <1>1, <1>2 DEF FotoFiel
  <2>3. \A f \in foto[v].vencidas : ConDeuda(f)' /\ Vence[f] < foto[v].dia
    <3>1. foto[v].vencidas \subseteq Facturas BY DEF Inv, TypeOK, FotoTypeOK, Fotos
    <3>2. QED BY <1>1, <1>2, <3>1 DEF FotoFiel
  <2>4. \A f \in Facturas : ConDeuda(f)' /\ limite'[f] < foto[v].dia => f \in foto[v].vencidas
    <3>1. ASSUME NEW f \in Facturas, ConDeuda(f)', limite'[f] < foto[v].dia
          PROVE  ConDeuda(f) /\ limite[f] < foto[v].dia
      BY <1>2, <1>3, <1>4, <3>1
    <3>2. QED BY <1>1, <3>1 DEF FotoFiel
  <2>5. \A c \in Contratos : contrato'[c] = "Suspendido" => foto[v].contrato[c] = "Suspendido"
    BY <1>1 DEF FotoFiel, SoloAvanza
  <2>6. foto[v].instalado \subseteq instalado' BY <1>1 DEF FotoFiel, SoloAvanza
  <2>7. QED BY <2>1, <2>2, <2>3, <2>4, <2>5, <2>6 DEF FotoFiel
<1>6. DecisionFirme(v)'
  <2>1. ASSUME peticion[v] \in Pagos
        PROVE  (ConDeuda(peticion[v].factura) /\ peticion[v].monto <= Saldo(peticion[v].factura))'
    <3>1. peticion[v].factura \in Facturas BY <2>1, PagoCampos
    <3>2. ConDeuda(peticion[v].factura) /\ peticion[v].monto <= Saldo(peticion[v].factura)
      BY <1>1, <2>1 DEF DecisionFirme
    <3>3. QED BY <1>2, <3>1, <3>2 DEF SoloAvanza, dineroVars, Saldo, ConDeuda
  <2>2. ASSUME peticion[v] \in Suspensiones
        PROVE  \E f \in Facturas :
                   ContratoDe[f] = peticion[v].contrato /\ ConDeuda(f)' /\ Vence[f] + DiasCorte <= hoy'
    <3>1. PICK f \in Facturas :
              ContratoDe[f] = peticion[v].contrato /\ ConDeuda(f) /\ Vence[f] + DiasCorte <= hoy
      BY <1>1, <2>2 DEF DecisionFirme
    <3>2. Vence[f] + DiasCorte \in Nat BY ConstantesOK DEF ConstantesOK
    <3>3. Vence[f] + DiasCorte <= hoy' BY <1>3, <1>4, <3>1, <3>2
    <3>4. QED BY <1>2, <3>1, <3>3
  <2>3. peticion[v] \in Suspensiones => foto[v].contrato[peticion[v].contrato] # "Baja"
    BY <1>1 DEF DecisionFirme
  <2>4. QED BY <2>1, <2>2, <2>3 DEF DecisionFirme
<1>7. QED BY <1>5, <1>6

LEMMA AtrasoVencida ==
    ASSUME Inv, NEW f \in Facturas, Atraso(f) > 0
    PROVE  ConDeuda(f) /\ limite[f] < hoy /\ Atraso(f) = hoy - limite[f] /\ Vence[f] <= limite[f]
<1>1. hoy \in Nat /\ limite[f] \in Nat BY HoyNat DEF Inv, TypeOK, DineroTypeOK
<1>2. ConDeuda(f) /\ hoy > limite[f] BY DEF Atraso
<1>3. QED BY <1>1, <1>2 DEF Atraso, Inv, IInv, LimiteNoRetrocede

\* A snapshot that has just been taken is right.
LEMMA FielNueva ==
    ASSUME Inv, UNCHANGED <<datosVars, hoy>>, NEW v \in Invocaciones, NEW p \in Transacciones,
           peticion'[v] = p, foto'[v] = Foto, Aceptada(p)
    PROVE  FotoFiel(v)' /\ DecisionFirme(v)'
<1>1. /\ hoy \in Nat
      /\ \A f \in Facturas : limite[f] \in Nat /\ Vence[f] \in Nat
      /\ DiasCorte \in Nat \ {0}
  BY HoyNat, ConstantesOK DEF ConstantesOK, Inv, TypeOK, DineroTypeOK
<1>2. FotoFiel(v)'
  <2>1. /\ Foto.dia = hoy /\ Foto.vencidas = Vencidas /\ Foto.contrato = contrato
        /\ Foto.instalado = instalado
        /\ \A f \in Facturas : Foto.saldo[f] = Saldo(f)
    BY DEF Foto
  <2>2. hoy' = hoy /\ limite' = limite /\ contrato' = contrato /\ instalado' = instalado
        /\ \A f \in Facturas : (Saldo(f)' = Saldo(f)) /\ (ConDeuda(f)' <=> ConDeuda(f))
    BY DEF datosVars, Saldo, ConDeuda
  <2>3. \A f \in Vencidas : f \in Facturas /\ ConDeuda(f) /\ Vence[f] < hoy
    <3>1. ASSUME NEW f \in Vencidas PROVE f \in Facturas /\ ConDeuda(f) /\ Vence[f] < hoy
      <4>1. f \in Facturas /\ Atraso(f) > 0 BY DEF Vencidas
      <4>2. QED BY <1>1, <4>1, AtrasoVencida
    <3>2. QED BY <3>1
  <2>4. \A f \in Facturas : ConDeuda(f) /\ limite[f] < hoy => f \in Vencidas
    BY <1>1 DEF Vencidas, Atraso
  <2> QED BY <1>1, <2>1, <2>2, <2>3, <2>4 DEF FotoFiel
<1>3. DecisionFirme(v)'
  <2>1. ASSUME p \in Pagos PROVE (ConDeuda(p.factura) /\ p.monto <= Saldo(p.factura))'
    <3>1. ConDeuda(p.factura) /\ p.monto <= Saldo(p.factura)
      BY <2>1, PagoCampos DEF Aceptada
    <3>2. QED BY <3>1 DEF datosVars, Saldo, ConDeuda
  <2>2. ASSUME p \in Suspensiones
        PROVE  /\ Foto.contrato[p.contrato] # "Baja"
               /\ \E f \in Facturas :
                     ContratoDe[f] = p.contrato /\ ConDeuda(f)' /\ Vence[f] + DiasCorte <= hoy'
    <3>1. /\ contrato[p.contrato] \in {"Activo", "Moroso", "Suspendido"}
          /\ \E f \in Facturas : ContratoDe[f] = p.contrato /\ Atraso(f) >= DiasCorte
      BY <2>2, SuspensionCampos DEF Aceptada
    <3>2. PICK f \in Facturas : ContratoDe[f] = p.contrato /\ Atraso(f) >= DiasCorte BY <3>1
    <3>3. Atraso(f) \in Nat BY <1>1 DEF Atraso
    <3>4. Atraso(f) > 0 BY <1>1, <3>2, <3>3
    <3>5. ConDeuda(f) /\ Vence[f] + DiasCorte <= hoy
      BY <1>1, <3>2, <3>4, AtrasoVencida
    <3>6. ConDeuda(f)' /\ hoy' = hoy BY <3>5 DEF datosVars, Saldo, ConDeuda
    <3>7. Foto.contrato[p.contrato] # "Baja" BY <3>1 DEF Foto
    <3>8. QED BY <3>2, <3>5, <3>6, <3>7
  <2>3. QED BY <2>1, <2>2 DEF DecisionFirme
<1>4. QED BY <1>2, <1>3

LEMMA FotoNext ==
    ASSUME Inv, TypeOK', [Next]_vars, NEW v \in Invocaciones
    PROVE  FotoFiel(v)' /\ DecisionFirme(v)'
<1> DEFINE Igual == /\ fase'[v] = fase[v] /\ peticion'[v] = peticion[v]
                    /\ foto'[v] = foto[v] /\ vigente'[v] = vigente[v]
<1>0. fase \in [Invocaciones -> Fases] BY DEF Inv, TypeOK, InvocacionTypeOK
<1>1. CASE ~Leida(v)' BY <1>1 DEF FotoFiel, DecisionFirme
<1>2. ASSUME NEW w \in Invocaciones, Commit(w) PROVE ~Leida(v)'
  BY <1>2 DEF Commit, RegisterPayment, SuspendContract, RefreshDelinquency, Confirmar, Leida
<1>3. CASE Igual /\ SoloAvanza BY <1>3, FielMantenida
<1>4. ASSUME NEW w \in Invocaciones, Quieta(w), SoloAvanza PROVE FotoFiel(v)' /\ DecisionFirme(v)'
  <2>1. UNCHANGED <<datosVars, hoy>> BY <1>4, QuietaNoCommit
  <2>2. ASSUME NEW p, NEW n, Intentar(w, p, n), p \in Transacciones,
               (peticion' = peticion /\ peticion[w] = p) \/ peticion' = [peticion EXCEPT ![w] = p]
        PROVE  FotoFiel(v)' /\ DecisionFirme(v)'
    <3>1. CASE v = w
      <4>1. CASE fase'[w] = "leida"
        <5>1. foto'[w] = Foto /\ Aceptada(p)
          BY <1>0, <2>2, <4>1 DEF Intentar, Terminar, Responde, Inv, TypeOK, FotoTypeOK
        <5>2. peticion'[w] = p BY <2>2 DEF Inv, TypeOK, InvocacionTypeOK
        <5>3. QED BY <2>1, <2>2, <3>1, <5>1, <5>2, FielNueva
      <4>2. CASE fase'[w] # "leida" BY <1>1, <3>1, <4>2 DEF Leida
      <4>3. QED BY <4>1, <4>2
    <3>2. CASE v # w
      <4>1. Igual
        BY <2>2, <3>2 DEF Intentar, Terminar, Responde, Inv, TypeOK, InvocacionTypeOK, FotoTypeOK
      <4>2. QED BY <1>3, <1>4, <4>1
    <3>3. QED BY <3>1, <3>2
  <2>3. ASSUME NEW p \in Transacciones, Empezar(w, p) PROVE FotoFiel(v)' /\ DecisionFirme(v)'
    BY <2>2, <2>3 DEF Empezar
  <2>4. CASE Reintentar(w)
    <3>1. peticion[w] \in Transacciones BY <2>4 DEF Reintentar, Perdida, Inv, IInv, PeticionDeFase
    <3>2. QED BY <2>2, <2>4, <3>1 DEF Reintentar
  <2>5. CASE Conflicto(w) \/ ReferenciaRepetida(w) \/ Responder(w)
    <3>1. CASE v = w
      <4>1. fase'[w] # "leida"
        BY <1>0, <2>5 DEF Conflicto, ReferenciaRepetida, Responder, Terminar, Responde
      <4>2. QED BY <1>1, <3>1, <4>1 DEF Leida
    <3>2. CASE v # w
      <4>1. Igual
        BY <2>5, <3>2 DEF Conflicto, ReferenciaRepetida, Responder, Terminar, Responde, Inv, TypeOK,
                          InvocacionTypeOK, FotoTypeOK
      <4>2. QED BY <1>3, <1>4, <4>1
    <3>3. QED BY <3>1, <3>2
  <2>6. QED BY <1>4, <2>3, <2>4, <2>5 DEF Quieta
<1>5. ASSUME NEW w \in Invocaciones, Retirar(w), SoloAvanza PROVE FotoFiel(v)' /\ DecisionFirme(v)'
  <2>1. foto' = foto /\ vigente' = vigente
    BY <1>5 DEF Retirar, LeerBaja, ContarBaja, ConfirmarBaja, LeerCliente, EscribirCliente, txVars
  <2>2. CASE v = w
    <3>1. fase'[w] # "leida"
      BY <1>0, <1>5 DEF Retirar, LeerBaja, ContarBaja, ConfirmarBaja, LeerCliente, EscribirCliente
    <3>2. QED BY <1>1, <2>2, <3>1 DEF Leida
  <2>3. CASE v # w
    <3>1. fase'[v] = fase[v] /\ peticion'[v] = peticion[v]
      BY <1>5, <2>3 DEF Retirar, LeerBaja, ContarBaja, ConfirmarBaja, LeerCliente, EscribirCliente, Inv,
                        TypeOK, InvocacionTypeOK
    <3>2. QED BY <1>3, <1>5, <2>1, <3>1
  <2>4. QED BY <2>2, <2>3
<1>6. CASE (UNCHANGED invocacionVars) /\ SoloAvanza BY <1>3, <1>6 DEF invocacionVars
<1>7. CASE \A w \in Invocaciones : ~Commit(w)
  <2>1. SoloAvanza BY <1>7, AvanzaNext DEF Inv
  <2>2. QED
    BY <1>4, <1>5, <1>6, <1>7, <2>1
    DEF Next, Cobranza, Quieta, Commit, CreateExtension, Activar, Tick, vars
<1>8. QED BY <1>1, <1>2, <1>7

LEMMA InvInit == Init => Inv
<1> SUFFICES ASSUME Init PROVE Inv
  OBVIOUS
<1>1. TypeOK BY TypeInit
<1>2. SaldosCuadran
  <2>1. ASSUME NEW f \in Facturas
        PROVE  /\ pagado[f] <= Monto[f]
               /\ factura[f] = "Pagada" => pagado[f] = Monto[f]
               /\ factura[f] = "Abierta" => pagado[f] < Monto[f]
    <3>1. Monto[f] \in Nat \ {0} BY ConstantesOK DEF ConstantesOK
    <3>2. 0 <= Monto[f] /\ 0 < Monto[f] BY <3>1
    <3>3. pagado[f] = 0 /\ factura[f] = "Abierta" BY DEF Init
    <3>4. QED BY <3>2, <3>3
  <2>2. QED BY <2>1 DEF SaldosCuadran
<1>3. LimiteNoRetrocede
  <2>1. ASSUME NEW f \in Facturas PROVE Vence[f] <= limite[f]
    <3>1. Vence[f] \in Nat BY ConstantesOK DEF ConstantesOK
    <3>2. limite[f] = Vence[f] BY DEF Init
    <3>3. QED BY <3>1, <3>2
  <2>2. QED BY <2>1 DEF LimiteNoRetrocede
<1>4. CodigoUnico BY DEF Init, CodigoUnico
<1>5. RetiredContractIsEmpty
  <2>1. \A s \in Servicios : contrato[ContratoServicio[s]] # "Baja"
    BY ConstantesOK DEF ConstantesOK, Init
  <2>2. QED BY <2>1 DEF RetiredContractIsEmpty
<1>6. ASSUME NEW w \in Invocaciones
      PROVE  PeticionDeFase(w) /\ FotoFiel(w) /\ DecisionFirme(w) /\ UltimoDelContrato(w)
  <2>1. fase[w] = "libre" BY DEF Init
  <2>2. QED BY <2>1 DEF PeticionDeFase, FotoFiel, DecisionFirme, UltimoDelContrato, Leida
<1>7. QED BY <1>1, <1>2, <1>3, <1>4, <1>5, <1>6 DEF Inv, IInv

LEMMA InvNext == Inv /\ [Next]_vars => Inv'
<1> SUFFICES ASSUME Inv, [Next]_vars PROVE Inv'
  OBVIOUS
<1>1. TypeOK' BY TypeNext DEF Inv
<1>2. ASSUME NEW w \in Invocaciones
      PROVE  (PeticionDeFase(w) /\ FotoFiel(w) /\ DecisionFirme(w) /\ UltimoDelContrato(w))'
  BY <1>1, PeticionNext, FotoNext, RetiroNext
<1>3. QED BY <1>1, <1>2, SaldosNext, LimiteNext, CodigoNext, RetiroNext DEF Inv, IInv

THEOREM InvCorrect == Spec => []Inv
  BY InvInit, InvNext, PTL DEF Spec

\* Every row and every invocation has its type: in particular no balance is negative.
THEOREM TypeCorrect == Spec => []TypeOK
<1>1. Inv => TypeOK BY DEF Inv
<1>2. QED BY <1>1, InvCorrect, PTL

\* The inductive invariant: what a transaction of billing read is still true when it may
\* commit, no invoice is overpaid and a code stands for one payment (billing.service.ts).
THEOREM IInvCorrect == Spec => []IInv
<1>1. Inv => IInv BY DEF Inv
<1>2. QED BY <1>1, InvCorrect, PTL

\* A retired contract has no service left (services.service.ts, deactivate).
THEOREM RetiredContractIsEmptyCorrect == Spec => []RetiredContractIsEmpty
<1>1. Inv => RetiredContractIsEmpty BY DEF Inv, IInv
<1>2. QED BY <1>1, InvCorrect, PTL

\* No payment, suspension, refresh or activation takes a retirement back.
THEOREM RetirementIsFinalCorrect == Spec => RetirementIsFinal
<1>1. Inv /\ [Next]_vars =>
        [/\ \A c \in Contratos : contrato[c] = "Baja" => contrato'[c] = "Baja"
         /\ \A s \in Servicios : servicio[s] = "Baja" => servicio'[s] = "Baja"]_vars
  BY FirmeNext DEF BajasFirmes
<1>2. QED BY <1>1, InvCorrect, PTL DEF Spec, RetirementIsFinal

(***************************************************************************)
(* The answers to the callers.                                             *)
(***************************************************************************)

\* The payment the invocation asked for is in the ledger if it was told so.
LEMMA RespuestaNext ==
    ASSUME Inv, Inv', AnswersAreRegistered, [Next]_vars, NEW v \in Invocaciones,
           fase'[v] = "fin", peticion'[v] \in Pagos, peticion'[v].codigo # SinCodigo,
           respuesta'[v] \in {"registrado", "duplicado"}
    PROVE  libro'[peticion'[v].codigo] = {Datos(peticion'[v])}
<1> DEFINE p == peticion'[v]
<1>0. /\ fase \in [Invocaciones -> Fases] /\ respuesta \in [Invocaciones -> Respuestas]
      /\ peticion \in [Invocaciones -> Transacciones \cup Bajas \cup {Nada}]
      /\ p.codigo \in Codigos
  BY PagoCampos DEF Inv, TypeOK, InvocacionTypeOK
<1>1. CASE fase[v] = "fin" /\ peticion[v] = p /\ respuesta[v] = respuesta'[v]
  <2>1. libro[p.codigo] = {Datos(p)} BY <1>1 DEF AnswersAreRegistered
  <2>2. ASSUME NEW w \in Invocaciones, RegisterPayment(w) PROVE libro'[p.codigo] = libro[p.codigo]
    BY <1>0, <2>1, <2>2, LibroAplicado
  <2>3. CASE \A w \in Invocaciones : ~RegisterPayment(w) BY <2>1, <2>3, SinPago DEF Inv, dineroVars
  <2>4. QED BY <2>1, <2>2, <2>3
<1>2. CASE Commit(v)
  <2>1. respuesta'[v] = "registrado" => RegisterPayment(v)
    BY <1>0, <1>2 DEF Commit, SuspendContract, RefreshDelinquency, Confirmar, Responde
  <2>2. respuesta'[v] # "duplicado"
    BY <1>0, <1>2 DEF Commit, RegisterPayment, SuspendContract, RefreshDelinquency, Confirmar, Responde
  <2>3. RegisterPayment(v) /\ peticion' = peticion
    BY <2>1, <2>2 DEF RegisterPayment, Confirmar
  <2>4. QED BY <1>0, <2>3, LibroAplicado
<1>3. ASSUME NEW w \in Invocaciones, Quieta(w), w = v PROVE libro'[p.codigo] = {Datos(p)}
  <2>1. libro' = libro BY <1>3, QuietaNoCommit DEF datosVars
  <2>2. CASE Terminar(v, Repetida(p)) /\ libro[p.codigo] # {}
    <3>1. respuesta'[v] = Repetida(p) BY <1>0, <2>2 DEF Terminar, Responde
    <3>2. Datos(p) \in libro[p.codigo] BY <3>1 DEF Repetida
    <3>3. QED BY <1>0, <2>1, <3>2 DEF Inv, IInv, CodigoUnico
  <2>3. ASSUME NEW r, Terminar(v, r), r \in {"rechazo", "conflicto"} PROVE FALSE
    BY <1>0, <2>3 DEF Terminar, Responde
  <2>4. ASSUME NEW n, Intentar(v, p, n) PROVE libro'[p.codigo] = {Datos(p)}
    <3>1. fase' # [fase EXCEPT ![v] = "leida"] BY <1>0
    <3>2. QED BY <2>2, <2>3, <2>4, <3>1 DEF Intentar, YaRegistrado
  <2>5. ASSUME NEW q \in Transacciones, Empezar(v, q) PROVE libro'[p.codigo] = {Datos(p)}
    <3>1. q = p BY <1>0, <2>5 DEF Empezar
    <3>2. QED BY <2>4, <2>5, <3>1 DEF Empezar
  <2>6. CASE Reintentar(v) BY <2>4, <2>6 DEF Reintentar
  <2>7. CASE Conflicto(v) BY <2>3, <2>7 DEF Conflicto
  <2>8. CASE ReferenciaRepetida(v)
    <3>1. peticion[v] = p /\ libro[p.codigo] # {} BY <2>8 DEF ReferenciaRepetida
    <3>2. Terminar(v, Repetida(p)) \/ Terminar(v, "conflicto") BY <2>8, <3>1 DEF ReferenciaRepetida
    <3>3. QED BY <2>2, <2>3, <3>1, <3>2
  <2>9. CASE Responder(v) BY <1>0, <2>9 DEF Responder
  <2>10. QED BY <1>3, <2>5, <2>6, <2>7, <2>8, <2>9 DEF Quieta
<1>4. ASSUME NEW w \in Invocaciones, Cobranza(w), w # v
      PROVE  fase[v] = "fin" /\ peticion[v] = p /\ respuesta[v] = respuesta'[v]
  <2>1. /\ fase' = [fase EXCEPT ![w] = fase'[w]]
        /\ peticion' = peticion \/ peticion' = [peticion EXCEPT ![w] = peticion'[w]]
        /\ respuesta' = respuesta \/ respuesta' = [respuesta EXCEPT ![w] = respuesta'[w]]
    BY <1>0, <1>4 DEF Cobranza, Empezar, Reintentar, Conflicto, ReferenciaRepetida, Responder, Intentar,
                Terminar, Responde, RegisterPayment, SuspendContract, RefreshDelinquency, Confirmar
  <2>2. QED BY <1>0, <1>4, <2>1
<1>5. ASSUME NEW w \in Invocaciones, Retirar(w)
      PROVE  fase[v] = "fin" /\ peticion[v] = p /\ respuesta[v] = respuesta'[v]
  BY <1>0, <1>5 DEF Retirar, LeerBaja, ContarBaja, ConfirmarBaja, LeerCliente, EscribirCliente, txVars
<1>6. CASE UNCHANGED invocacionVars BY <1>1, <1>6 DEF invocacionVars
<1>7. QED
  BY <1>1, <1>2, <1>3, <1>4, <1>5, <1>6
  DEF Next, Cobranza, Quieta, Commit, CreateExtension, Activar, Tick, vars

\* Whoever is told that a payment is registered finds it, and only it, under its code.
THEOREM AnswersAreRegisteredCorrect == Spec => []AnswersAreRegistered
<1>1. Init => AnswersAreRegistered
  <2> SUFFICES ASSUME Init, NEW w \in Invocaciones PROVE fase[w] # "fin"
    BY DEF AnswersAreRegistered
  <2>1. QED BY DEF Init
<1>2. Inv /\ Inv' /\ AnswersAreRegistered /\ [Next]_vars => AnswersAreRegistered'
  BY RespuestaNext DEF AnswersAreRegistered
<1>3. QED BY <1>1, <1>2, InvCorrect, PTL DEF Spec

(***************************************************************************)
(* Sanctions and reactivations.                                            *)
(***************************************************************************)

Sancion ==
    /\ \A c \in Contratos :
          /\ contrato[c] # "Moroso" /\ contrato'[c] = "Moroso" =>
                 \E f \in Facturas : ContratoDe[f] = c /\ DebeDesde(f, 1)
          /\ contrato[c] # "Suspendido" /\ contrato'[c] = "Suspendido" =>
                 \E f \in Facturas : ContratoDe[f] = c /\ DebeDesde(f, DiasCorte)
    /\ cliente # cliente' /\ cliente' \in {"Moroso", "Suspendido"} =>
          \E f \in Facturas : DebeDesde(f, 1)

\* A step after which no contract and no customer is newly sanctioned.
LEMMA SinSancion ==
    ASSUME \A c \in Contratos : contrato'[c] = contrato[c] \/ contrato'[c] \in {"Activo", "Baja"},
           cliente' = cliente \/ cliente' \notin {"Moroso", "Suspendido"}
    PROVE  Sancion
  BY DEF Sancion

LEMMA SancionSuspender ==
    ASSUME Inv, NEW w \in Invocaciones, SuspendContract(w)
    PROVE  Sancion
<1> DEFINE c == peticion[w].contrato
<1>1. Leida(w) /\ peticion[w] \in Suspensiones
  BY DEF SuspendContract, Confirmar, Confirmable, Leida
<1>2. PICK f \in Facturas : ContratoDe[f] = c /\ ConDeuda(f) /\ Vence[f] + DiasCorte <= hoy
  BY <1>1 DEF Inv, IInv, DecisionFirme
<1>3. Vence[f] \in Nat /\ DiasCorte \in Nat \ {0} /\ hoy \in Nat
  BY HoyNat, ConstantesOK DEF ConstantesOK, Inv
<1>4. DebeDesde(f, 1) /\ DebeDesde(f, DiasCorte) BY <1>2, <1>3 DEF DebeDesde
<1>5. \A d \in Contratos : contrato'[d] = IF d = c THEN "Suspendido" ELSE contrato[d]
  BY DEF SuspendContract, Confirmar
<1>6. QED BY <1>2, <1>4, <1>5 DEF Sancion

LEMMA SancionRefrescar ==
    ASSUME Inv, NEW w \in Invocaciones, RefreshDelinquency(w)
    PROVE  Sancion
<1>1. Leida(w) BY DEF RefreshDelinquency, Confirmar, Confirmable, Leida
<1>2. ASSUME NEW f \in foto[w].vencidas PROVE f \in Facturas /\ DebeDesde(f, 1)
  <2>1. f \in Facturas /\ foto[w].dia \in Nat BY DEF Inv, TypeOK, FotoTypeOK, Fotos
  <2>2. ConDeuda(f) /\ Vence[f] < foto[w].dia /\ foto[w].dia <= hoy
    BY <1>1 DEF Inv, IInv, FotoFiel
  <2>3. Vence[f] \in Nat /\ hoy \in Nat BY <2>1, HoyNat, ConstantesOK DEF ConstantesOK, Inv
  <2>4. QED BY <2>1, <2>2, <2>3 DEF DebeDesde
<1>3. \A c \in Contratos :
          \/ contrato'[c] = contrato[c]
          \/ contrato'[c] = "Activo"
          \/ contrato'[c] = "Moroso" /\ \E f \in foto[w].vencidas : ContratoDe[f] = c
  BY DEF RefreshDelinquency, Confirmar
<1>4. \/ cliente' = cliente
      \/ cliente' = "Activo"
      \/ foto[w].vencidas # {}
  BY DEF RefreshDelinquency, Confirmar
<1>5. QED BY <1>2, <1>3, <1>4 DEF Sancion

LEMMA SancionNext ==
    ASSUME Inv, [Next]_vars
    PROVE  Sancion
<1>1. ASSUME NEW w \in Invocaciones, Cobranza(w) PROVE Sancion
  <2>1. CASE Quieta(w) BY <2>1, QuietaNoCommit, SinSancion DEF datosVars
  <2>2. CASE RegisterPayment(w)
    <3>1. \A c \in Contratos : contrato'[c] = contrato[c] \/ contrato'[c] = "Activo"
      BY <2>2 DEF RegisterPayment, Confirmar
    <3>2. cliente' = cliente \/ cliente' = "Activo" BY <2>2 DEF RegisterPayment, Confirmar
    <3>3. QED BY <3>1, <3>2, SinSancion
  <2>3. CASE SuspendContract(w) BY <2>3, SancionSuspender
  <2>4. CASE RefreshDelinquency(w) BY <2>4, SancionRefrescar
  <2>5. QED BY <1>1, <2>1, <2>2, <2>3, <2>4 DEF Cobranza, Quieta
<1>2. ASSUME NEW w \in Invocaciones, Retirar(w) PROVE Sancion
  <2>1. CASE ConfirmarBaja(w)
    BY <2>1, SinSancion DEF ConfirmarBaja, Inv, TypeOK, EstadoTypeOK
  <2>2. CASE EscribirCliente(w)
    BY <2>2, SinSancion DEF EscribirCliente, Inv, TypeOK, InvocacionTypeOK
  <2>3. CASE ~ConfirmarBaja(w) /\ ~EscribirCliente(w)
    BY <1>2, <2>3, SinSancion DEF Retirar, LeerBaja, ContarBaja, LeerCliente, datosVars
  <2>4. QED BY <2>1, <2>2, <2>3
<1>3. ASSUME NEW s \in Servicios, Activar(s) PROVE Sancion
  BY <1>3, SinSancion DEF Activar, Inv, TypeOK, EstadoTypeOK
<1>4. CASE UNCHANGED <<contrato, cliente>> BY <1>4, SinSancion
<1>5. QED
  BY <1>1, <1>2, <1>3, <1>4 DEF Next, CreateExtension, estadoVars, Tick, vars, datosVars

\* No contract and no customer is sanctioned without an unpaid invoice that old.
THEOREM SanctionJustifiedCorrect == Spec => SanctionJustified
<1>1. Inv /\ [Next]_vars =>
        [/\ \A c \in Contratos :
               /\ contrato[c] # "Moroso" /\ contrato'[c] = "Moroso" =>
                      \E f \in Facturas : ContratoDe[f] = c /\ DebeDesde(f, 1)
               /\ contrato[c] # "Suspendido" /\ contrato'[c] = "Suspendido" =>
                      \E f \in Facturas : ContratoDe[f] = c /\ DebeDesde(f, DiasCorte)
         /\ cliente # cliente' /\ cliente' \in {"Moroso", "Suspendido"} =>
               \E f \in Facturas : DebeDesde(f, 1)]_vars
  BY SancionNext DEF Sancion
<1>2. QED BY <1>1, InvCorrect, PTL DEF Spec, SanctionJustified

\* Only a payment brings a suspended contract back: a refresh evaluates none, and an
\* activation needs a contract in force.
LEMMA SoloPagoReactiva ==
    ASSUME Inv, [Next]_vars, NEW c \in Contratos, contrato[c] = "Suspendido", contrato'[c] = "Activo"
    PROVE  \E w \in Invocaciones : RegisterPayment(w)
<1>1. ASSUME NEW w \in Invocaciones, SuspendContract(w) PROVE FALSE
  <2>1. \A d \in Contratos : contrato'[d] = IF d = peticion[w].contrato THEN "Suspendido" ELSE contrato[d]
    BY <1>1 DEF SuspendContract, Confirmar
  <2>2. QED BY <2>1
<1>2. ASSUME NEW w \in Invocaciones, RefreshDelinquency(w) PROVE FALSE
  <2>1. contrato'[c] # contrato[c] =>
            foto[w].contrato[c] = contrato[c] /\ foto[w].contrato[c] \in {"Activo", "Moroso"}
    BY <1>2 DEF RefreshDelinquency, Confirmar, Confirmable
  <2>2. QED BY <2>1
<1>3. ASSUME NEW w \in Invocaciones, Quieta(w) PROVE FALSE
  BY <1>3, QuietaNoCommit DEF datosVars
<1>4. ASSUME NEW w \in Invocaciones, Retirar(w) PROVE FALSE
  BY <1>4 DEF Retirar, LeerBaja, ContarBaja, ConfirmarBaja, LeerCliente, EscribirCliente, datosVars,
              Inv, TypeOK, EstadoTypeOK
<1>5. ASSUME NEW s \in Servicios, Activar(s) PROVE FALSE
  BY <1>5 DEF Activar, Inv, TypeOK, EstadoTypeOK
<1>6. QED
  BY <1>1, <1>2, <1>3, <1>4, <1>5
  DEF Next, Cobranza, Quieta, CreateExtension, estadoVars, Tick, vars, datosVars

\* An open invoice that was overdue on the day of the snapshot is among those it shows.
LEMMA VistaComoVencida ==
    ASSUME Inv, NEW w \in Invocaciones, Leida(w), NEW g \in Facturas, factura[g] = "Abierta",
           g \notin foto[w].vencidas
    PROVE  foto[w].dia <= limite[g]
<1>1. foto[w].dia \in Nat /\ limite[g] \in Nat
  BY DEF Inv, TypeOK, FotoTypeOK, Fotos, DineroTypeOK
<1>2. pagado[g] \in Nat /\ Monto[g] \in Nat /\ pagado[g] < Monto[g]
  BY ConstantesOK DEF ConstantesOK, Inv, TypeOK, DineroTypeOK, IInv, SaldosCuadran
<1>3. ConDeuda(g) BY <1>2 DEF ConDeuda, Saldo
<1>4. ~(limite[g] < foto[w].dia) BY <1>3 DEF Inv, IInv, FotoFiel
<1>5. QED BY <1>1, <1>4

\* The guard of a reactivating payment, seen from the states before and after it.
LEMMA PagoReactiva ==
    ASSUME Inv, NEW w \in Invocaciones, RegisterPayment(w), NEW c \in Contratos,
           contrato[c] = "Suspendido", contrato'[c] = "Activo"
    PROVE  /\ \E s \in instalado : ContratoServicio[s] = c /\ servicio'[s] = "Activo"
           /\ fase[w] = "leida" /\ fase'[w] = "fin" /\ peticion[w] \in Pagos
           /\ \A g \in Facturas :
                 EmpresaDe[ContratoDe[g]] = EmpresaDe[c] /\ factura'[g] = "Abierta"
                     => foto[w].dia <= limite[g]
<1> DEFINE f == peticion[w].factura
           servicios == IF AlDia(w) THEN Reactivables(w, ContratoDe[f]) ELSE {}
           contratos == IF AlDia(w) /\ (servicios # {} \/ foto[w].contrato[ContratoDe[f]] = "Moroso")
                        THEN {ContratoDe[f]} ELSE {}
           activo == [d \in Contratos |-> "Activo"]
<1>1. PICK clientes : Confirmar(w, "registrado", contratos, activo, servicios, "Activo", clientes, "Activo")
  BY DEF RegisterPayment
<1>2. Leida(w) /\ peticion[w] \in Pagos /\ f \in Facturas
  BY PagoCampos DEF RegisterPayment, Confirmar, Confirmable, Leida
<1>3. /\ c \in contratos /\ foto[w].contrato[c] = "Suspendido"
      /\ \A s \in Servicios : s \in servicios => servicio'[s] = "Activo"
  <2> HIDE DEF servicios, contratos
  <2>1. \A d \in Contratos : contrato'[d] # contrato[d] => d \in contratos BY <1>1 DEF Confirmar
  <2>2. QED BY <1>1, <2>1 DEF Confirmar, Confirmable
<1>4. AlDia(w) /\ c = ContratoDe[f] /\ servicios # {} BY <1>3
<1>5. \A s \in servicios : s \in Servicios /\ s \in instalado /\ ContratoServicio[s] = c
  BY <1>2, <1>4 DEF Reactivables, Inv, IInv, FotoFiel, TypeOK, EstadoTypeOK
<1>6. \E s \in instalado : ContratoServicio[s] = c /\ servicio'[s] = "Activo" BY <1>3, <1>4, <1>5
<1>7. ASSUME NEW g \in Facturas, EmpresaDe[ContratoDe[g]] = EmpresaDe[c], factura'[g] = "Abierta"
      PROVE  foto[w].dia <= limite[g]
  <2>1. g # f
    <3>1. Saldo(f) = peticion[w].monto BY <1>4, PagoEnFirme DEF AlDia
    <3>2. QED BY <1>2, <1>7, <3>1, PagoAplicado
  <2>2. factura[g] = "Abierta" BY <1>7, <2>1, PagoAplicado
  <2>3. g \notin foto[w].vencidas BY <1>4, <1>7, <2>1 DEF AlDia
  <2>4. QED BY <1>2, <2>2, <2>3, VistaComoVencida
<1>8. fase[w] = "leida" /\ fase'[w] = "fin"
  BY <1>1 DEF Confirmar, Confirmable, Responde, Inv, TypeOK, InvocacionTypeOK
<1>9. QED BY <1>2, <1>6, <1>7, <1>8

\* A suspended contract comes back only with a payment that leaves nothing overdue.
THEOREM ReactivationJustifiedCorrect == Spec => ReactivationJustified
<1>1. Inv /\ [Next]_vars =>
        [\A c \in Contratos :
            contrato[c] = "Suspendido" /\ contrato'[c] = "Activo" =>
                /\ \E s \in instalado : ContratoServicio[s] = c /\ servicio'[s] = "Activo"
                /\ \E w \in Invocaciones :
                      /\ fase[w] = "leida" /\ fase'[w] = "fin"
                      /\ peticion[w] \in Pagos
                      /\ \A g \in Facturas :
                            /\ EmpresaDe[ContratoDe[g]] = EmpresaDe[c]
                            /\ factura'[g] = "Abierta"
                            => foto[w].dia <= limite[g]]_vars
  <2> SUFFICES ASSUME Inv, [Next]_vars, NEW c \in Contratos,
                      contrato[c] = "Suspendido", contrato'[c] = "Activo"
               PROVE  /\ \E s \in instalado : ContratoServicio[s] = c /\ servicio'[s] = "Activo"
                      /\ \E w \in Invocaciones :
                            /\ fase[w] = "leida" /\ fase'[w] = "fin"
                            /\ peticion[w] \in Pagos
                            /\ \A g \in Facturas :
                                  /\ EmpresaDe[ContratoDe[g]] = EmpresaDe[c]
                                  /\ factura'[g] = "Abierta"
                                  => foto[w].dia <= limite[g]
    OBVIOUS
  <2>1. PICK w \in Invocaciones : RegisterPayment(w) BY SoloPagoReactiva
  <2>2. QED BY <2>1, PagoReactiva
<1>2. QED BY <1>1, InvCorrect, PTL DEF Spec, ReactivationJustified

\* A payment that changes the customer leaves no contract suspended.
LEMMA ClienteConContratos ==
    ASSUME Inv, NEW w \in Invocaciones, RegisterPayment(w), cliente' # cliente, NEW d \in Contratos
    PROVE  contrato'[d] # "Suspendido"
<1> DEFINE c == ContratoDe[peticion[w].factura]
           servicios == IF AlDia(w) THEN Reactivables(w, c) ELSE {}
           contratos == IF AlDia(w) /\ (servicios # {} \/ foto[w].contrato[c] = "Moroso")
                        THEN {c} ELSE {}
           clientes == /\ AlDia(w)
                       /\ ~OtroSuspendido(w, c, contratos)
                       /\ servicios # {} \/ foto[w].cliente = "Moroso"
                       /\ PuedeActualizarCliente(c)
                       /\ foto[w].cliente \in {"Moroso", "Suspendido"}
           activo == [e \in Contratos |-> "Activo"]
<1>1. Confirmar(w, "registrado", contratos, activo, servicios, "Activo", clientes, "Activo")
  BY DEF RegisterPayment
<1>2. Leida(w) BY <1>1 DEF Confirmar, Confirmable, Leida
<1> HIDE DEF servicios, contratos
<1>3. clientes
  <2> HIDE DEF clientes
  <2>1. QED BY <1>1 DEF Confirmar
<1>4. DeEmpresa(EmpresaDe[c]) = Contratos BY <1>3 DEF PuedeActualizarCliente
<1>5. contrato'[d] = IF d \in contratos THEN "Activo" ELSE contrato[d]
  <2> HIDE DEF clientes
  <2>1. QED BY <1>1 DEF Confirmar
<1>6. d \notin contratos => foto[w].contrato[d] # "Suspendido" BY <1>3, <1>4 DEF OtroSuspendido
<1>7. contrato[d] = "Suspendido" => foto[w].contrato[d] = "Suspendido"
  BY <1>2 DEF Inv, IInv, FotoFiel
<1>8. QED BY <1>5, <1>6, <1>7

\* A customer cleared by a payment has no suspended contract left.
THEOREM CustomerClearedWithContractsCorrect == Spec => CustomerClearedWithContracts
<1>1. Inv /\ [Next]_vars =>
        [pagado' # pagado /\ cliente' # cliente =>
            \A c \in Contratos : contrato'[c] # "Suspendido"]_vars
  <2> SUFFICES ASSUME Inv, [Next]_vars, pagado' # pagado, cliente' # cliente, NEW c \in Contratos
               PROVE  contrato'[c] # "Suspendido"
    OBVIOUS
  <2>1. PICK w \in Invocaciones : RegisterPayment(w) BY SinPago DEF Inv, dineroVars
  <2>2. QED BY <2>1, ClienteConContratos
<1>2. QED BY <1>1, InvCorrect, PTL DEF Spec, CustomerClearedWithContracts

(***************************************************************************)
(* The account the invoices implement.                                     *)
(***************************************************************************)

\* A payment is a payment on the account.
LEMMA PagoAbona ==
    ASSUME Inv, NEW w \in Invocaciones, RegisterPayment(w)
    PROVE  Cuenta!Next
<1> DEFINE f == peticion[w].factura
           m == peticion[w].monto
           deuda == [g \in Facturas |-> Monto[g] - pagado[g]]
           cerrada == [g \in Facturas |-> factura[g] # "Abierta"]
<1>1. f \in Facturas /\ factura[f] = "Abierta" /\ m \in 1..(Monto[f] - pagado[f])
  BY PagoEnFirme, PagoCampos DEF ConDeuda, Saldo
<1>2. \A g \in Facturas : pagado[g] \in Nat /\ Monto[g] \in Nat
  BY ConstantesOK DEF ConstantesOK, Inv, TypeOK, DineroTypeOK
<1>3. \A g \in Facturas :
          /\ g # f => pagado'[g] = pagado[g] /\ factura'[g] = factura[g]
          /\ g = f => /\ pagado'[g] = pagado[g] + m
                      /\ factura'[g] = IF Monto[g] - pagado[g] = m THEN "Pagada" ELSE factura[g]
  BY PagoAplicado DEF Saldo
<1> HIDE DEF f, m
<1>4. deuda' = [deuda EXCEPT ![f] = @ - m]
  <2>1. \A g \in Facturas : Monto[g] - pagado'[g] = IF g = f THEN deuda[f] - m ELSE deuda[g]
    BY <1>1, <1>2, <1>3
  <2>2. QED BY <2>1
<1>5. cerrada' = [cerrada EXCEPT ![f] = (m = deuda[f])]
  <2>1. \A g \in Facturas : (factura'[g] # "Abierta") = IF g = f THEN (m = deuda[f]) ELSE cerrada[g]
    BY <1>1, <1>2, <1>3
  <2>2. QED BY <2>1
<1>6. ~cerrada[f] /\ m \in 1..deuda[f] BY <1>1
<1>7. QED BY <1>1, <1>4, <1>5, <1>6 DEF Cuenta!Next, Cuenta!Abonar

\* Billing keeps what it promises about the invoices: it implements the account.
THEOREM ImplementsAccountCorrect == Spec => ImplementsAccount
<1>1. Init => Cuenta!Init
  <2> SUFFICES ASSUME Init PROVE Cuenta!Init
    OBVIOUS
  <2>1. \A f \in Facturas : Monto[f] \in Nat BY ConstantesOK DEF ConstantesOK
  <2>2. \A f \in Facturas : pagado[f] = 0 BY DEF Init
  <2>3. ASSUME NEW f \in Facturas PROVE Monto[f] - pagado[f] \in Nat
    <3>1. pagado[f] = 0 /\ Monto[f] \in Nat BY <2>1, <2>2
    <3>2. \A m \in Nat : m - 0 \in Nat OBVIOUS
    <3>3. QED BY <3>1, <3>2
  <2>4. QED BY <2>3 DEF Cuenta!Init
<1>2. Inv /\ [Next]_vars => [Cuenta!Next]_(Cuenta!vars)
  <2> SUFFICES ASSUME Inv, [Next]_vars PROVE [Cuenta!Next]_(Cuenta!vars)
    OBVIOUS
  <2>1. CASE \E w \in Invocaciones : RegisterPayment(w) BY <2>1, PagoAbona
  <2>2. CASE \A w \in Invocaciones : ~RegisterPayment(w)
    BY <2>2, SinPago DEF Inv, dineroVars, Cuenta!vars
  <2>3. QED BY <2>1, <2>2
<1>3. QED BY <1>1, <1>2, InvCorrect, PTL DEF Spec, ImplementsAccount, Cuenta!Spec
==============================================================================
