--------------------------- MODULE G3Installation_proofs ---------------------------
(***************************************************************************)
(* Proofs about the installation of a contract's service, for every number *)
(* of tracking rows, concurrent invocations, closure contents and failures.*)
(***************************************************************************)
EXTENDS G3Installation, TLAPS

(***************************************************************************)
(* Type correctness.                                                       *)
(***************************************************************************)

\* The ways an invocation moves keep its local state typed.
LEMMA EmpezarTypes ==
    ASSUME InvocacionTypeOK, NEW w \in Workers, NEW r \in Solicitudes, NEW s \in Pasos,
           Empezar(w, r, s), UNCHANGED <<resp, cierre, vContrato, vServicio>>
    PROVE  InvocacionTypeOK'
  BY DEF InvocacionTypeOK, Empezar

LEMMA AvanzarTypes ==
    ASSUME InvocacionTypeOK, NEW w \in Workers, NEW s \in Pasos, pc[w] # "libre", Avanzar(w, s)
    PROVE  InvocacionTypeOK'
  BY DEF InvocacionTypeOK, Avanzar

LEMMA ResponderTypes ==
    ASSUME InvocacionTypeOK, NEW w \in Workers, NEW s \in Pasos,
           NEW a \in EstadosG3 \cup Errores, pc[w] # "libre", Responder(w, s, a)
    PROVE  InvocacionTypeOK'
  BY DEF InvocacionTypeOK, Responder

LEMMA SalirTypes ==
    ASSUME InvocacionTypeOK, NEW w \in Workers, Salir(w)
    PROVE  InvocacionTypeOK'
  BY DEF InvocacionTypeOK, Salir, Pasos, ContratoInstalable, ServicioInstalable

\* In the initial state every row and every invocation has its declared type.
LEMMA TypeInit == Init => TypeOK
  BY G3Constants DEF Init, TypeOK, TrackingTypeOK, ComercialTypeOK, InvocacionTypeOK,
     EstadosTracking, ACTIVE_REQUEST_STATES, Reintentables, ContratoInstalable,
     ServicioInstalable, Pipelines, Pasos, Referencias

\* Every step keeps every row and every invocation in its declared type.
LEMMA TypeStep == TypeOK /\ [Next]_vars => TypeOK'
<1> SUFFICES ASSUME TypeOK, [Next]_vars PROVE TypeOK'
  OBVIOUS
<1> USE G3Constants DEF TypeOK, vars, tracking, comercial, invocacion
<1>1. ASSUME NEW w \in Workers, NEW r \in Solicitudes, SolicitarRevisar(w, r) \/ Retry(w, r)
      PROVE  TypeOK'
  <2>1. InvocacionTypeOK' BY <1>1, EmpezarTypes DEF SolicitarRevisar, Retry, Pasos
  <2>2. QED BY <1>1, <2>1 DEF SolicitarRevisar, Retry, TrackingTypeOK, ComercialTypeOK
<1>2. ASSUME NEW w \in Workers, NEW r \in Solicitudes, Consultar(w, r) PROVE TypeOK'
  <2>1. PICK s \in {orden[r], "DESCONOCIDA"} : resp' = [resp EXCEPT ![w] = s]
    BY <1>2 DEF Consultar
  <2>2. s \in EstadosG3 \cup {"NINGUNA"} BY DEF TrackingTypeOK, EstadosG3
  <2>3. InvocacionTypeOK'
    BY <1>2, <2>1, <2>2 DEF Consultar, Empezar, InvocacionTypeOK, Pasos
  <2>4. QED BY <1>2, <2>3 DEF Consultar, TrackingTypeOK, ComercialTypeOK
<1>3. ASSUME NEW w \in Workers, NEW r \in Solicitudes, NEW c \in Cierres, AbrirCierre(w, r, c)
      PROVE  TypeOK'
  <2>1. InvocacionTypeOK' BY <1>3 DEF AbrirCierre, Empezar, InvocacionTypeOK, Pasos
  <2>2. QED BY <1>3, <2>1 DEF AbrirCierre, TrackingTypeOK, ComercialTypeOK
<1>4. ASSUME NEW w \in Workers, PasoDe(w) PROVE TypeOK'
  <2>0. pc[w] # "libre" => sol[w] \in Solicitudes BY DEF InvocacionTypeOK
  <2>1. CASE SolicitarCrear(w)
    <3>1. InvocacionTypeOK' BY <2>1, AvanzarTypes DEF SolicitarCrear, Pasos
    <3>2. QED BY <2>0, <2>1, <3>1 DEF SolicitarCrear, TrackingTypeOK, ComercialTypeOK,
                 EstadosTracking, ACTIVE_REQUEST_STATES, Reintentables, Pipelines
  <2>2. CASE Enviar(w)
    <3>1. OrdenCreada(sol[w]) \in {"ABIERTA", "COMPLETADA", "CANCELADA"}
      BY <2>0, <2>2 DEF Enviar, OrdenCreada, TrackingTypeOK
    <3>2. InvocacionTypeOK'
      BY <2>2, <3>1, ResponderTypes DEF Enviar, Pasos, EstadosG3, Errores
    <3>3. TrackingTypeOK' BY <2>2, <3>1 DEF Enviar, Responder, TrackingTypeOK
    <3>4. QED BY <2>2, <3>2, <3>3 DEF Enviar, ComercialTypeOK
  <2>3. CASE Guardar(w)
    <3>1. InvocacionTypeOK' BY <2>3, AvanzarTypes, SalirTypes DEF Guardar, Pasos
    <3>4. referencia' \in [Solicitudes -> Referencias]
      BY <2>0, <2>3 DEF Guardar, TrackingTypeOK, Referencias
    <3>5. estado' \in [Solicitudes -> EstadosTracking] /\ UNCHANGED <<evento, orden>>
      BY <2>0, <2>3 DEF Guardar, TrackingTypeOK, Errores, trackingState, EstadosTracking,
         ACTIVE_REQUEST_STATES, Reintentables
    <3>2. TrackingTypeOK'
      BY <3>4, <3>5 DEF TrackingTypeOK
    <3>3. QED BY <2>3, <3>1, <3>2 DEF Guardar, ComercialTypeOK
  <2>4. CASE Releer(w)
    <3>1. InvocacionTypeOK' BY <2>4, AvanzarTypes, SalirTypes DEF Releer, Pasos
    <3>2. QED BY <2>4, <3>1 DEF Releer, TrackingTypeOK, ComercialTypeOK
  <2>5. CASE ActualizarPipeline(w)
    <3>1. InvocacionTypeOK' BY <2>5, SalirTypes DEF ActualizarPipeline
    <3>2. QED BY <2>5, <3>1 DEF ActualizarPipeline, pipelineState, TrackingTypeOK,
                 ComercialTypeOK, Pipelines
  <2>6. CASE ErrorInesperado(w)
    <3>1. InvocacionTypeOK' BY <2>6, ResponderTypes DEF ErrorInesperado, Pasos, Errores
    <3>2. QED BY <2>6, <3>1 DEF ErrorInesperado, TrackingTypeOK, ComercialTypeOK
  <2>7. CASE GuardarDetalle(w)
    <3>1. InvocacionTypeOK' BY <2>7, SalirTypes DEF GuardarDetalle
    <3>2. TrackingTypeOK'
      BY <2>0, <2>7 DEF GuardarDetalle, TrackingTypeOK, trackingState, EstadosTracking,
         ACTIVE_REQUEST_STATES, Reintentables
    <3>3. QED BY <2>7, <3>1, <3>2 DEF GuardarDetalle, ComercialTypeOK
  <2>8. CASE ConfirmarCierre(w)
    <3>1. InvocacionTypeOK' BY <2>8, SalirTypes DEF ConfirmarCierre
    <3>2. cierre[w] \in Cierres \cup {SinCierre} BY DEF InvocacionTypeOK
    <3>3. TrackingTypeOK'
      BY <2>0, <2>8, <3>2 DEF ConfirmarCierre, TrackingTypeOK, EstadosTracking,
         ACTIVE_REQUEST_STATES
    <3>4. ComercialTypeOK'
      BY <2>8 DEF ConfirmarCierre, ComercialTypeOK, ContratoInstalable, ServicioInstalado, Pipelines
    <3>5. QED BY <2>8, <3>1, <3>3, <3>4 DEF ConfirmarCierre
  <2>9. CASE Abortar(w)
    <3>1. InvocacionTypeOK' BY <2>9, SalirTypes DEF Abortar
    <3>2. QED BY <2>9, <3>1 DEF Abortar, TrackingTypeOK, ComercialTypeOK
  <2>10. QED BY <1>4, <2>1, <2>2, <2>3, <2>4, <2>5, <2>6, <2>7, <2>8, <2>9 DEF PasoDe
<1>5. ASSUME NEW r \in Solicitudes, TerminarOrden(r) PROVE TypeOK'
  BY <1>5 DEF TerminarOrden, TrackingTypeOK, ComercialTypeOK, InvocacionTypeOK
<1>6. CASE EtiquetarMora \/ Suspender \/ Reactivar
  BY <1>6 DEF EtiquetarMora, Suspender, Reactivar, TrackingTypeOK, ComercialTypeOK,
     InvocacionTypeOK, ContratoInstalable, ServicioInstalable, ServicioInstalado
<1>7. CASE UNCHANGED vars
  BY <1>7 DEF TrackingTypeOK, ComercialTypeOK, InvocacionTypeOK
<1>8. QED BY <1>1, <1>2, <1>3, <1>4, <1>5, <1>6, <1>7 DEF Next

\* Every row and invocation always has its declared type: what send, detail and the
\* closure processor write stays within the columns' enumerations.
THEOREM TypeCorrect == Spec => []TypeOK
  BY TypeInit, TypeStep, PTL DEF Spec

(***************************************************************************)
(* The inductive invariant, one lemma per part.                            *)
(***************************************************************************)

LEMMA InvInit == Init => IInv
<1> SUFFICES ASSUME Init PROVE IInv
  OBVIOUS
<1>1. TypeOK BY TypeInit
<1>2. ContratoOK /\ OrdenOK BY DEF Init, ContratoOK, OrdenOK, ContratoInstalable, ServicioInstalable
<1>3. InvocacionesOK BY DEF Init, InvocacionesOK, InvocacionOK, CierreOK
<1>4. ActivatedOnce
  BY DEF Init, ActivatedOnce, Cerradas, ServicioInstalable, ServicioInstalado
<1>5. OnlyClosureCompletes BY DEF Init, OnlyClosureCompletes
<1>6. QED BY <1>1, <1>2, <1>3, <1>4, <1>5 DEF IInv

\* While a closure commits on rows that did not change, nothing is closed yet: the
\* service it read and still finds was never installed.
LEMMA CierreSinInstalar ==
    ASSUME IInv, NEW w \in Workers, pc[w] = "confirmar", SinCambios(w)
    PROVE  Cerradas = {}
<1>1. vContrato[w] \in {"Firmado", "Activo"}
  BY DEF IInv, TypeOK, InvocacionTypeOK, ContratoInstalable
<1>2. CierreOK(w) BY DEF IInv, InvocacionesOK, InvocacionOK
<1>3. servicio \in ServicioInstalable
  BY <1>1, <1>2 DEF IInv, SinCambios, CierreOK, ContratoOK, ServicioInstalable
<1>4. QED
  BY <1>3 DEF IInv, ActivatedOnce, ServicioInstalable, ServicioInstalado

\* Collections, payments and closures keep contract and service together.
LEMMA ContratoStep ==
    ASSUME IInv, [Next]_vars
    PROVE  ContratoOK'
<1> USE DEF IInv, TypeOK, ContratoOK, vars, tracking, comercial, invocacion
<1>1. ASSUME NEW w \in Workers, NEW r \in Solicitudes,
             SolicitarRevisar(w, r) \/ Retry(w, r) \/ Consultar(w, r)
      PROVE  ContratoOK'
  BY <1>1 DEF SolicitarRevisar, Retry, Consultar
<1>2. ASSUME NEW w \in Workers, NEW r \in Solicitudes, NEW c \in Cierres, AbrirCierre(w, r, c)
      PROVE  ContratoOK'
  BY <1>2 DEF AbrirCierre
<1>3. ASSUME NEW w \in Workers, PasoDe(w) PROVE ContratoOK'
  <2>1. CASE ConfirmarCierre(w)
    BY <2>1 DEF ConfirmarCierre
  <2>2. CASE ~ConfirmarCierre(w)
    BY <1>3, <2>2 DEF PasoDe, SolicitarCrear, Enviar, Guardar, Releer, ActualizarPipeline,
       ErrorInesperado, GuardarDetalle, Abortar
  <2>3. QED BY <2>1, <2>2
<1>4. ASSUME NEW r \in Solicitudes, TerminarOrden(r) PROVE ContratoOK'
  BY <1>4 DEF TerminarOrden
<1>5. CASE EtiquetarMora \/ Suspender \/ Reactivar
  BY <1>5 DEF EtiquetarMora, Suspender, Reactivar
<1>6. CASE UNCHANGED vars
  BY <1>6
<1>7. QED BY <1>1, <1>2, <1>3, <1>4, <1>5, <1>6 DEF Next

\* A known order exists, and so does its tracking.
LEMMA OrdenStep ==
    ASSUME IInv, [Next]_vars
    PROVE  OrdenOK'
<1> USE DEF IInv, TypeOK, TrackingTypeOK, InvocacionTypeOK, OrdenOK, vars, tracking, comercial,
            invocacion
<1>1. ASSUME NEW w \in Workers, NEW r \in Solicitudes,
             SolicitarRevisar(w, r) \/ Retry(w, r) \/ Consultar(w, r)
      PROVE  OrdenOK'
  BY <1>1 DEF SolicitarRevisar, Retry, Consultar
<1>2. ASSUME NEW w \in Workers, NEW r \in Solicitudes, NEW c \in Cierres, AbrirCierre(w, r, c)
      PROVE  OrdenOK'
  BY <1>2 DEF AbrirCierre
<1>3. ASSUME NEW w \in Workers, PasoDe(w) PROVE OrdenOK'
  <2>0. InvocacionOK(w) BY DEF InvocacionesOK
  <2>1. CASE SolicitarCrear(w)
    BY <2>1 DEF SolicitarCrear
  <2>2. CASE Enviar(w)
    BY <2>2 DEF Enviar, OrdenCreada
  <2>3. CASE Guardar(w)
    BY <2>0, <2>3 DEF Guardar, InvocacionOK, Errores, trackingState
  <2>4. CASE GuardarDetalle(w)
    BY <2>0, <2>4 DEF GuardarDetalle, trackingState
  <2>5. CASE ConfirmarCierre(w)
    BY <2>5 DEF ConfirmarCierre
  <2>6. CASE Releer(w) \/ ActualizarPipeline(w) \/ ErrorInesperado(w) \/ Abortar(w)
    BY <2>6 DEF Releer, ActualizarPipeline, ErrorInesperado, Abortar
  <2>7. QED BY <1>3, <2>1, <2>2, <2>3, <2>4, <2>5, <2>6 DEF PasoDe
<1>4. ASSUME NEW r \in Solicitudes, TerminarOrden(r) PROVE OrdenOK'
  BY <1>4 DEF TerminarOrden
<1>5. CASE EtiquetarMora \/ Suspender \/ Reactivar
  BY <1>5 DEF EtiquetarMora, Suspender, Reactivar
<1>6. CASE UNCHANGED vars
  BY <1>6
<1>7. QED BY <1>1, <1>2, <1>3, <1>4, <1>5, <1>6 DEF Next

\* Only the closure processor completes a tracking, and only of a completed order.
LEMMA CierresStep ==
    ASSUME IInv, [Next]_vars
    PROVE  OnlyClosureCompletes'
<1> USE DEF IInv, TypeOK, TrackingTypeOK, InvocacionTypeOK, OnlyClosureCompletes, vars, tracking,
            comercial, invocacion
<1>1. ASSUME NEW w \in Workers, NEW r \in Solicitudes,
             SolicitarRevisar(w, r) \/ Retry(w, r) \/ Consultar(w, r)
      PROVE  OnlyClosureCompletes'
  BY <1>1 DEF SolicitarRevisar, Retry, Consultar
<1>2. ASSUME NEW w \in Workers, NEW r \in Solicitudes, NEW c \in Cierres, AbrirCierre(w, r, c)
      PROVE  OnlyClosureCompletes'
  BY <1>2 DEF AbrirCierre
<1>3. ASSUME NEW w \in Workers, PasoDe(w) PROVE OnlyClosureCompletes'
  <2>0. InvocacionOK(w) BY DEF InvocacionesOK
  <2>1. CASE SolicitarCrear(w)
    BY <2>0, <2>1 DEF SolicitarCrear, InvocacionOK
  <2>2. CASE Enviar(w)
    BY <2>2 DEF Enviar, OrdenCreada
  <2>3. CASE Guardar(w)
    BY <2>3 DEF Guardar, NoTerminal, Errores, trackingState
  <2>4. CASE GuardarDetalle(w)
    BY <2>4 DEF GuardarDetalle, NoTerminal, trackingState
  <2>5. CASE ConfirmarCierre(w)
    <3>1. /\ sol[w] \in Solicitudes /\ cierre[w] # SinCierre
          /\ orden[sol[w]] = "COMPLETADA" /\ referencia[sol[w]] = "id"
      BY <2>0, <2>5, G3Constants DEF ConfirmarCierre, InvocacionOK, CierreOK
    <3>2. CASE SinCambios(w) BY <2>5, <3>1, <3>2 DEF ConfirmarCierre
    <3>3. CASE ~SinCambios(w) BY <2>5, <3>3 DEF ConfirmarCierre
    <3>4. QED BY <3>2, <3>3
  <2>6. CASE Releer(w) \/ ActualizarPipeline(w) \/ ErrorInesperado(w) \/ Abortar(w)
    BY <2>6 DEF Releer, ActualizarPipeline, ErrorInesperado, Abortar
  <2>7. QED BY <1>3, <2>1, <2>2, <2>3, <2>4, <2>5, <2>6 DEF PasoDe
<1>4. ASSUME NEW r \in Solicitudes, TerminarOrden(r) PROVE OnlyClosureCompletes'
  BY <1>4 DEF TerminarOrden
<1>5. CASE EtiquetarMora \/ Suspender \/ Reactivar
  BY <1>5 DEF EtiquetarMora, Suspender, Reactivar
<1>6. CASE UNCHANGED vars
  BY <1>6
<1>7. QED BY <1>1, <1>2, <1>3, <1>4, <1>5, <1>6 DEF Next

\* The service is installed exactly when one tracking is completed, and at most one is.
LEMMA ActivatedStep ==
    ASSUME IInv, [Next]_vars
    PROVE  ActivatedOnce'
<1> USE DEF TypeOK, TrackingTypeOK, InvocacionTypeOK, ActivatedOnce, Cerradas, vars, tracking,
            comercial, invocacion
<1>0. TypeOK /\ InvocacionesOK /\ ContratoOK /\ ActivatedOnce BY DEF IInv
<1>1. ASSUME NEW w \in Workers, NEW r \in Solicitudes,
             SolicitarRevisar(w, r) \/ Retry(w, r) \/ Consultar(w, r)
      PROVE  ActivatedOnce'
  BY <1>0, <1>1 DEF SolicitarRevisar, Retry, Consultar
<1>2. ASSUME NEW w \in Workers, NEW r \in Solicitudes, NEW c \in Cierres, AbrirCierre(w, r, c)
      PROVE  ActivatedOnce'
  BY <1>0, <1>2 DEF AbrirCierre
<1>3. ASSUME NEW w \in Workers, PasoDe(w) PROVE ActivatedOnce'
  <2>1. CASE SolicitarCrear(w)
    <3>1. Cerradas' = Cerradas
      BY <1>0, <2>1 DEF SolicitarCrear, InvocacionesOK, InvocacionOK
    <3>2. QED BY <1>0, <2>1, <3>1 DEF SolicitarCrear
  <2>2. CASE Guardar(w)
    <3>1. Cerradas' = Cerradas
      BY <1>0, <2>2 DEF Guardar, NoTerminal, Errores, trackingState
    <3>2. QED BY <1>0, <2>2, <3>1 DEF Guardar
  <2>3. CASE GuardarDetalle(w)
    <3>1. Cerradas' = Cerradas
      BY <1>0, <2>3 DEF GuardarDetalle, NoTerminal, trackingState
    <3>2. QED BY <1>0, <2>3, <3>1 DEF GuardarDetalle
  <2>4. CASE ConfirmarCierre(w)
    <3>1. CASE SinCambios(w)
      <4>1. Cerradas = {} BY <2>4, <3>1, CierreSinInstalar DEF ConfirmarCierre
      <4>2. Cerradas' = {sol[w]} BY <1>0, <2>4, <3>1, <4>1 DEF ConfirmarCierre
      <4>3. servicio' = "activo" BY <2>4, <3>1 DEF ConfirmarCierre
      <4>4. QED BY <4>2, <4>3 DEF ServicioInstalado
    <3>2. CASE ~SinCambios(w)
      BY <1>0, <2>4, <3>2 DEF ConfirmarCierre
    <3>3. QED BY <3>1, <3>2
  <2>5. CASE Enviar(w) \/ Releer(w) \/ ActualizarPipeline(w) \/ ErrorInesperado(w) \/ Abortar(w)
    BY <1>0, <2>5 DEF Enviar, Releer, ActualizarPipeline, ErrorInesperado, Abortar
  <2>6. QED BY <1>3, <2>1, <2>2, <2>3, <2>4, <2>5 DEF PasoDe
<1>4. ASSUME NEW r \in Solicitudes, TerminarOrden(r) PROVE ActivatedOnce'
  BY <1>0, <1>4 DEF TerminarOrden
<1>5. CASE EtiquetarMora \/ Suspender \/ Reactivar
  BY <1>0, <1>5 DEF EtiquetarMora, Suspender, Reactivar, ServicioInstalado
<1>6. CASE UNCHANGED vars
  BY <1>0, <1>6
<1>7. QED BY <1>1, <1>2, <1>3, <1>4, <1>5, <1>6 DEF Next

\* What an invocation holds stays true while nobody moves it, nobody writes its row and
\* nobody else begins to create or to close.
LEMMA InvocacionQuieta ==
    ASSUME NEW v \in Workers, InvocacionOK(v),
           pc'[v] = pc[v], sol'[v] = sol[v], resp'[v] = resp[v], cierre'[v] = cierre[v],
           vContrato'[v] = vContrato[v], vServicio'[v] = vServicio[v],
           pc[v] # "libre" => /\ estado'[sol[v]] = estado[sol[v]]
                              /\ evento'[sol[v]] = evento[sol[v]]
                              /\ referencia'[sol[v]] = referencia[sol[v]]
                              /\ orden'[sol[v]] = orden[sol[v]],
           \A u \in Workers : /\ pc'[u] = "crear" => pc[u] = "crear"
                              /\ pc'[u] = "confirmar" => pc[u] = "confirmar" /\ sol'[u] = sol[u]
    PROVE  InvocacionOK(v)'
<1>1. CierreOK(v)' BY DEF InvocacionOK, CierreOK, NoTerminal
<1>2. QED BY <1>1 DEF InvocacionOK

\* The new row is nobody else's: the others' answers are about other rows.
LEMMA CrearInvocaciones ==
    ASSUME TypeOK, InvocacionesOK, NEW w \in Workers, SolicitarCrear(w)
    PROVE  InvocacionesOK'
<1>0. InvocacionTypeOK /\ TrackingTypeOK BY DEF TypeOK
<1>1. sol[w] \in Solicitudes /\ estado[sol[w]] = "NINGUNA" /\ pc[w] = "crear"
  BY <1>0 DEF SolicitarCrear, InvocacionTypeOK, InvocacionesOK, InvocacionOK
<1>2. ASSUME NEW v \in Workers, v # w, pc[v] # "libre" PROVE pc[v] # "crear" /\ sol[v] # sol[w]
  BY <1>1, <1>2 DEF InvocacionesOK, InvocacionOK
<1>3. pc' = [pc EXCEPT ![w] = "enviar"] /\ UNCHANGED <<sol, resp, cierre, vContrato, vServicio>>
  BY DEF SolicitarCrear, Avanzar
<1>4. \A u \in Workers : /\ pc'[u] = "crear" => pc[u] = "crear"
                         /\ pc'[u] = "confirmar" => pc[u] = "confirmar" /\ sol'[u] = sol[u]
  BY <1>0, <1>3 DEF InvocacionTypeOK
<1>5. ASSUME NEW v \in Workers, v # w PROVE InvocacionOK(v)'
  <2>1. pc'[v] = pc[v] /\ InvocacionOK(v)
    BY <1>0, <1>3, <1>5 DEF InvocacionTypeOK, InvocacionesOK
  <2>2. pc[v] # "libre" => /\ estado'[sol[v]] = estado[sol[v]]
                           /\ evento'[sol[v]] = evento[sol[v]]
                           /\ referencia'[sol[v]] = referencia[sol[v]]
                           /\ orden'[sol[v]] = orden[sol[v]]
    BY <1>0, <1>2, <1>5 DEF SolicitarCrear, TrackingTypeOK, InvocacionTypeOK
  <2>3. QED BY <1>3, <1>4, <2>1, <2>2, InvocacionQuieta
<1>6. InvocacionOK(w)'
  <2>1. pc'[w] = "enviar" /\ sol'[w] = sol[w] /\ estado'[sol[w]] # "NINGUNA"
    BY <1>0, <1>1, <1>3 DEF SolicitarCrear, TrackingTypeOK, InvocacionTypeOK
  <2>2. QED BY <2>1 DEF InvocacionOK, CierreOK
<1>7. QED BY <1>5, <1>6 DEF InvocacionesOK

\* The row that a closure completes is nobody else's to close.
LEMMA ConfirmarInvocaciones ==
    ASSUME TypeOK, InvocacionesOK, NEW w \in Workers, ConfirmarCierre(w)
    PROVE  InvocacionesOK'
<1>0. InvocacionTypeOK /\ TrackingTypeOK BY DEF TypeOK
<1>1. sol[w] \in Solicitudes /\ estado[sol[w]] # "NINGUNA" /\ pc[w] = "confirmar"
  BY <1>0 DEF ConfirmarCierre, InvocacionTypeOK, InvocacionesOK, InvocacionOK
<1>2. ASSUME NEW v \in Workers, v # w, pc[v] \in {"crear", "confirmar"} PROVE sol[v] # sol[w]
  BY <1>1, <1>2 DEF InvocacionesOK, InvocacionOK, CierreOK
<1>3. /\ pc' = [pc EXCEPT ![w] = "libre"]
      /\ \A v \in Workers : v # w =>
            /\ sol'[v] = sol[v] /\ resp'[v] = resp[v] /\ cierre'[v] = cierre[v]
            /\ vContrato'[v] = vContrato[v] /\ vServicio'[v] = vServicio[v]
  BY <1>0 DEF ConfirmarCierre, Salir, InvocacionTypeOK
<1>4. \A u \in Workers : /\ pc'[u] = "crear" => pc[u] = "crear"
                         /\ pc'[u] = "confirmar" => pc[u] = "confirmar" /\ sol'[u] = sol[u]
  BY <1>0, <1>3 DEF InvocacionTypeOK
<1>5. /\ referencia' = referencia /\ orden' = orden
      /\ \A r \in Solicitudes : r # sol[w] => estado'[r] = estado[r] /\ evento'[r] = evento[r]
      /\ estado'[sol[w]] # "NINGUNA"
  <2>1. CASE SinCambios(w) BY <1>0, <1>1, <2>1 DEF ConfirmarCierre, TrackingTypeOK
  <2>2. CASE ~SinCambios(w) BY <1>1, <2>2 DEF ConfirmarCierre
  <2>3. QED BY <2>1, <2>2
<1>6. ASSUME NEW v \in Workers, v # w PROVE InvocacionOK(v)'
  <2>1. pc'[v] = pc[v] /\ InvocacionOK(v) /\ (pc[v] # "libre" => sol[v] \in Solicitudes)
    BY <1>0, <1>3, <1>6 DEF InvocacionTypeOK, InvocacionesOK
  <2>2. CASE pc[v] # "libre" => sol[v] # sol[w]
    BY <1>3, <1>4, <1>5, <1>6, <2>1, <2>2, InvocacionQuieta
  <2>3. CASE pc[v] # "libre" /\ sol[v] = sol[w]
    <3>1. pc[v] \notin {"crear", "confirmar"} BY <1>2, <1>6, <2>3
    <3>2. CierreOK(v)' BY <2>1, <3>1 DEF CierreOK
    <3>3. QED BY <1>3, <1>5, <1>6, <2>1, <2>3, <3>1, <3>2 DEF InvocacionOK
  <2>4. QED BY <2>2, <2>3
<1>7. InvocacionOK(w)'
  <2>1. pc'[w] = "libre" BY <1>0, <1>3 DEF InvocacionTypeOK
  <2>2. QED BY <2>1 DEF InvocacionOK, CierreOK
<1>8. QED BY <1>6, <1>7 DEF InvocacionesOK

\* What an invocation holds stays true of its row, whoever else moves.
LEMMA InvocacionesStep ==
    ASSUME IInv, [Next]_vars
    PROVE  InvocacionesOK'
<1> USE DEF TypeOK, TrackingTypeOK, InvocacionTypeOK, InvocacionesOK, InvocacionOK, CierreOK,
            NoTerminal, vars, tracking, comercial, invocacion
<1>0. TypeOK /\ InvocacionesOK /\ OrdenOK BY DEF IInv
<1>1. ASSUME NEW w \in Workers, NEW r \in Solicitudes, SolicitarRevisar(w, r) PROVE InvocacionesOK'
  BY <1>0, <1>1 DEF SolicitarRevisar, Empezar
<1>2. ASSUME NEW w \in Workers, NEW r \in Solicitudes, Retry(w, r) PROVE InvocacionesOK'
  BY <1>0, <1>2 DEF Retry, Empezar, Reintentables
<1>3. ASSUME NEW w \in Workers, NEW r \in Solicitudes, Consultar(w, r) PROVE InvocacionesOK'
  BY <1>0, <1>3 DEF Consultar, Empezar, OrdenOK, Errores
<1>4. ASSUME NEW w \in Workers, NEW r \in Solicitudes, NEW c \in Cierres, AbrirCierre(w, r, c)
      PROVE  InvocacionesOK'
  <2>1. contrato = "Activo" => servicio = "pendiente"
    BY <1>4 DEF IInv, AbrirCierre, ContratoOK, ServicioInstalable
  <2>2. orden[r] = "COMPLETADA" /\ referencia[r] = "id" /\ estado[r] # "NINGUNA"
    BY <1>0, <1>4 DEF AbrirCierre, OrdenOK
  <2>3. \A v \in Workers : pc[v] = "confirmar" => sol[v] # r
    BY <1>4 DEF AbrirCierre, Bloqueada
  <2>4. QED BY <1>0, <1>4, <2>1, <2>2, <2>3 DEF AbrirCierre, Empezar
<1>5. ASSUME NEW w \in Workers, PasoDe(w) PROVE InvocacionesOK'
  <2>1. CASE SolicitarCrear(w) BY <1>0, <2>1, CrearInvocaciones
  <2>2. CASE Enviar(w)
    BY <1>0, <2>2 DEF Enviar, Responder, OrdenCreada, Errores
  <2>3. CASE Guardar(w)
    BY <1>0, <2>3 DEF Guardar, Avanzar, Salir, Bloqueada, Errores, trackingState
  <2>4. CASE Releer(w) \/ ActualizarPipeline(w)
    BY <1>0, <2>4 DEF Releer, ActualizarPipeline, Avanzar, Salir
  <2>5. CASE ErrorInesperado(w)
    BY <1>0, <2>5 DEF ErrorInesperado, Responder, Errores
  <2>6. CASE GuardarDetalle(w)
    BY <1>0, <2>6 DEF GuardarDetalle, Salir, Bloqueada, trackingState
  <2>7. CASE ConfirmarCierre(w) BY <1>0, <2>7, ConfirmarInvocaciones
  <2>8. CASE Abortar(w)
    BY <1>0, <2>8 DEF Abortar, Salir
  <2>9. QED BY <1>5, <2>1, <2>2, <2>3, <2>4, <2>5, <2>6, <2>7, <2>8 DEF PasoDe
<1>6. ASSUME NEW r \in Solicitudes, TerminarOrden(r) PROVE InvocacionesOK'
  BY <1>0, <1>6 DEF TerminarOrden
<1>7. CASE EtiquetarMora \/ Suspender \/ Reactivar
  BY <1>0, <1>7 DEF EtiquetarMora, Suspender, Reactivar
<1>8. CASE UNCHANGED vars
  BY <1>0, <1>8
<1>9. QED BY <1>1, <1>2, <1>3, <1>4, <1>5, <1>6, <1>7, <1>8 DEF Next

\* The invariant is inductive.
LEMMA InvStep == IInv /\ [Next]_vars => IInv'
  BY TypeStep, ContratoStep, OrdenStep, InvocacionesStep, ActivatedStep, CierresStep DEF IInv

\* The inductive invariant always holds, for every number of tracking rows,
\* concurrent invocations, closure contents and failures.
THEOREM InvCorrect == Spec => []IInv
  BY InvInit, InvStep, PTL DEF Spec

(***************************************************************************)
(* What follows from it.                                                   *)
(***************************************************************************)

\* However many tracking rows, webhooks, reconciliations and late answers a contract
\* meets, the closure processor activates its service once.
THEOREM ActivatedOnceCorrect == Spec => []ActivatedOnce
<1>1. IInv => ActivatedOnce BY DEF IInv
<1>2. QED BY <1>1, InvCorrect, PTL

\* No answer of G3 to send or to detail completes a tracking: only the closure of an
\* order that G3 completed does, and its event is recorded with it.
THEOREM OnlyClosureCompletesCorrect == Spec => []OnlyClosureCompletes
<1>1. IInv => OnlyClosureCompletes BY DEF IInv
<1>2. QED BY <1>1, InvCorrect, PTL

\* No retry, late answer, query or other closure changes a completed tracking.
THEOREM ClosureIsFinalCorrect == Spec => ClosureIsFinal
<1> DEFINE Final == \A r \in Solicitudes : estado[r] = "COMPLETADA" =>
          /\ estado'[r] = "COMPLETADA"
          /\ evento'[r] = evento[r]
          /\ referencia'[r] = "id"
<1>1. IInv /\ [Next]_vars => [Final]_vars
  <2> SUFFICES ASSUME IInv, [Next]_vars PROVE [Final]_vars
    OBVIOUS
  <2> USE DEF vars, tracking, comercial, invocacion
  <2>0. /\ TrackingTypeOK /\ InvocacionTypeOK
        /\ \A r \in Solicitudes : estado[r] = "COMPLETADA" => referencia[r] = "id" /\ ~NoTerminal(r)
        /\ \A w \in Workers : InvocacionOK(w)
    BY DEF IInv, TypeOK, OnlyClosureCompletes, NoTerminal, InvocacionesOK
  <2>1. ASSUME NEW w \in Workers, NEW r \in Solicitudes,
               SolicitarRevisar(w, r) \/ Retry(w, r) \/ Consultar(w, r)
        PROVE  Final
    BY <2>0, <2>1 DEF SolicitarRevisar, Retry, Consultar
  <2>2. ASSUME NEW w \in Workers, NEW r \in Solicitudes, NEW c \in Cierres, AbrirCierre(w, r, c)
        PROVE  Final
    BY <2>0, <2>2 DEF AbrirCierre
  <2>3. ASSUME NEW w \in Workers, PasoDe(w) PROVE Final
    <3>1. CASE SolicitarCrear(w)
      BY <2>0, <3>1 DEF SolicitarCrear, InvocacionOK, TrackingTypeOK, InvocacionTypeOK
    <3>2. CASE Guardar(w) \/ GuardarDetalle(w)
      BY <2>0, <3>2 DEF Guardar, GuardarDetalle, TrackingTypeOK
    <3>3. CASE ConfirmarCierre(w)
      <4>1. estado[sol[w]] # "COMPLETADA"
        BY <2>0, <3>3 DEF ConfirmarCierre, InvocacionOK, CierreOK, NoTerminal
      <4>2. CASE SinCambios(w) BY <2>0, <3>3, <4>1, <4>2 DEF ConfirmarCierre, TrackingTypeOK
      <4>3. CASE ~SinCambios(w) BY <2>0, <3>3, <4>3 DEF ConfirmarCierre
      <4>4. QED BY <4>2, <4>3
    <3>4. CASE Enviar(w) \/ Releer(w) \/ ActualizarPipeline(w) \/ ErrorInesperado(w) \/ Abortar(w)
      BY <2>0, <3>4 DEF Enviar, Releer, ActualizarPipeline, ErrorInesperado, Abortar
    <3>5. QED BY <2>3, <3>1, <3>2, <3>3, <3>4 DEF PasoDe
  <2>4. ASSUME NEW r \in Solicitudes, TerminarOrden(r) PROVE Final
    BY <2>0, <2>4 DEF TerminarOrden
  <2>5. CASE EtiquetarMora \/ Suspender \/ Reactivar
    BY <2>0, <2>5 DEF EtiquetarMora, Suspender, Reactivar
  <2> QED BY <2>1, <2>2, <2>3, <2>4, <2>5 DEF Next
<1>2. QED BY <1>1, InvCorrect, PTL DEF Spec, ClosureIsFinal
================================================================================
