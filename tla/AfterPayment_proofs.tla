---------------------------- MODULE AfterPayment_proofs ---------------------------
(***************************************************************************)
(* Proofs about what a payment sets off: the emission of its document, for *)
(* every set of payments and every number of concurrent invocations,       *)
(* retries and failures; and its allocation to the installments, for every *)
(* ledger, every set of payments and installments and every interleaving   *)
(* of the transactions.                                                    *)
(*                                                                         *)
(*   1. TaxEmission: types, invariants, action properties                  *)
(*   2. Induction and sums over finite sets                                *)
(*   3. InstallmentLedger: what its lines add up to, its invariant, and    *)
(*      that it implements PaymentAllocation                               *)
(***************************************************************************)
EXTENDS TaxEmission, InstallmentLedger, FiniteSetTheorems, SequenceTheorems, TLAPS

--------------------------------------------------------------------------------
(* 1. The emission of the document of a payment *)

(***************************************************************************)
(* Type correctness.                                                       *)
(***************************************************************************)

\* The ways an invocation moves keep its local state typed.
LEMMA InvocarTypes ==
    ASSUME InvocacionTypeOK, NEW w \in Workers, NEW p \in Payments,
           NEW b \in BOOLEAN, Invocar(w, p, b)
    PROVE  InvocacionTypeOK'
  BY DEF InvocacionTypeOK, Invocar, Pasos

LEMMA AvanzarTypes ==
    ASSUME InvocacionTypeOK, NEW w \in Workers, NEW s \in Pasos \ {"terminar"},
           pc[w] # "libre", Avanzar(w, s)
    PROVE  InvocacionTypeOK'
  BY DEF InvocacionTypeOK, Avanzar, Pasos

LEMMA ResultadoTypes ==
    ASSUME InvocacionTypeOK, NEW w \in Workers, NEW s \in Pasos, NEW r \in Terminal,
           pc[w] # "libre", Resultado(w, s, r)
    PROVE  InvocacionTypeOK'
  BY DEF InvocacionTypeOK, Resultado, Pasos

LEMMA PreparableTypes ==
    ASSUME InvocacionTypeOK, ColaTypeOK, NEW w \in Workers, pc[w] # "libre", Preparable(w)
    PROVE  InvocacionTypeOK'
  BY DEF InvocacionTypeOK, ColaTypeOK, Preparable, Pasos

LEMMA SalirTypes ==
    ASSUME InvocacionTypeOK, NEW w \in Workers, Salir(w)
    PROVE  InvocacionTypeOK'
  BY DEF InvocacionTypeOK, Salir, Pasos

\* In the initial state every row and every invocation has its declared type.
LEMMA TypeInit == Init => TypeOK
  BY TaxConstants DEF Init, SinInvocaciones, TypeOK, ColaTypeOK, FilaTypeOK,
     InvocacionTypeOK, JobStates, IntentStates, Terminal, Pasos

\* Every step keeps every row and every invocation in its declared type.
LEMMA TypeStep == TypeOK /\ [Next]_vars => TypeOK'
<1> SUFFICES ASSUME TypeOK, [Next]_vars PROVE TypeOK'
  OBVIOUS
<1> USE TaxConstants DEF TypeOK
<1> USE DEF vars, colaVars, fila, invocacion, proveedor
<1>1. ASSUME NEW p \in Payments, EnqueuePayment(p) PROVE TypeOK'
  BY <1>1 DEF EnqueuePayment, ColaTypeOK, FilaTypeOK, InvocacionTypeOK, JobStates
<1>2. ASSUME NEW p \in Payments, RepreparePayment(p) PROVE TypeOK'
  BY <1>2 DEF RepreparePayment, ColaTypeOK, FilaTypeOK, InvocacionTypeOK, JobStates
<1>3. ASSUME NEW p \in Payments, QuarantineStale(p) \/ ReconcilePayment(p) PROVE TypeOK'
  BY <1>3 DEF QuarantineStale, ReconcilePayment, ColaTypeOK, FilaTypeOK, InvocacionTypeOK,
     IntentStates, Terminal
<1>4. ASSUME NEW w \in Workers, NEW p \in Payments, AvisoPostCommit(w, p) PROVE TypeOK'
  <2>1. InvocacionTypeOK' BY <1>4, InvocarTypes DEF AvisoPostCommit
  <2>2. QED BY <1>4, <2>1 DEF AvisoPostCommit, ColaTypeOK, FilaTypeOK
<1>5. ASSUME NEW w \in Workers, NEW p \in Payments, RetryPayment(w, p) PROVE TypeOK'
  <2>1. InvocacionTypeOK' BY <1>5, InvocarTypes DEF RetryPayment
  <2>2. QED BY <1>5, <2>1 DEF RetryPayment, ColaTypeOK, FilaTypeOK
<1>6. ASSUME NEW p \in Payments, DrenarSiguiente(p) PROVE TypeOK'
  <2>1. InvocacionTypeOK' BY <1>6, InvocarTypes DEF DrenarSiguiente
  <2>2. QED BY <1>6, <2>1 DEF DrenarSiguiente, ColaTypeOK, FilaTypeOK
<1>7. CASE Drenar
  <2>1. lote' \in SUBSET Payments BY <1>7 DEF Drenar, LoteSiguiente, Pendientes
  <2>2. QED BY <1>7, <2>1 DEF Drenar, ColaTypeOK, FilaTypeOK, InvocacionTypeOK
<1>8. ASSUME NEW w \in Workers, PasoDe(w) PROVE TypeOK'
  <2>1. CASE LeerTrabajo(w) \/ LeerIntencion(w)
    <3>1. InvocacionTypeOK'
      BY <2>1, AvanzarTypes, SalirTypes, PreparableTypes DEF LeerTrabajo, LeerIntencion, Pasos
    <3>2. QED BY <2>1, <3>1 DEF LeerTrabajo, LeerIntencion, ColaTypeOK, FilaTypeOK
  <2>11. CASE BloquearTrabajo(w)
    <3>1. InvocacionTypeOK' BY <2>11, SalirTypes DEF BloquearTrabajo
    <3>2. ColaTypeOK' BY <2>11 DEF BloquearTrabajo, ColaTypeOK, JobStates
    <3>3. QED BY <2>11, <3>1, <3>2 DEF BloquearTrabajo, FilaTypeOK
  <2>2. CASE Preparar(w)
    <3>1. InvocacionTypeOK'
      BY <2>2, AvanzarTypes, ResultadoTypes, SalirTypes DEF Preparar, Pasos, Terminal
    <3>2. FilaTypeOK' BY <2>2 DEF Preparar, FilaTypeOK, InvocacionTypeOK, IntentStates
    <3>3. QED BY <2>2, <3>1, <3>2 DEF Preparar, ColaTypeOK
  <2>3. CASE Reclamar(w)
    <3>1. FilaTypeOK' /\ InvocacionTypeOK'
      <4>1. CASE Reclamable(pago[w])
        BY <2>3, <4>1 DEF Reclamar, FilaTypeOK, InvocacionTypeOK, IntentStates, Pasos
      <4>2. CASE ~Reclamable(pago[w])
        BY <2>3, <4>2, AvanzarTypes DEF Reclamar, FilaTypeOK, Pasos
      <4>3. QED BY <4>1, <4>2
    <3>2. QED BY <2>3, <3>1 DEF Reclamar, ColaTypeOK
  <2>4. CASE VerificarReclamo(w)
    <3>1. InvocacionTypeOK'
      BY <2>4, AvanzarTypes, ResultadoTypes DEF VerificarReclamo, Pasos, Terminal
    <3>2. QED BY <2>4, <3>1 DEF VerificarReclamo, ColaTypeOK, FilaTypeOK
  <2>5. CASE Autenticar(w)
    <3>1. InvocacionTypeOK'
      BY <2>5, AvanzarTypes, ResultadoTypes DEF Autenticar, Pasos, Terminal
    <3>2. QED BY <2>5, <3>1 DEF Autenticar, ColaTypeOK, FilaTypeOK
  <2>6. CASE MarcarEnvio(w)
    <3>1. InvocacionTypeOK'
      BY <2>6, AvanzarTypes, ResultadoTypes DEF MarcarEnvio, Pasos, Terminal
    <3>2. FilaTypeOK' BY <2>6 DEF MarcarEnvio, FilaTypeOK
    <3>3. QED BY <2>6, <3>1, <3>2 DEF MarcarEnvio, ColaTypeOK
  <2>7. CASE Enviar(w)
    <3>1. InvocacionTypeOK' BY <2>7, ResultadoTypes DEF Enviar, Pasos, Terminal
    <3>2. pago[w] \in Payments BY <2>7 DEF Enviar, InvocacionTypeOK
    <3>3. posts' \in [Payments -> Nat] BY <2>7, <3>2 DEF Enviar
    <3>4. emitidos' \in SUBSET Payments BY <2>7, <3>2 DEF Enviar
    <3>5. QED BY <2>7, <3>1, <3>3, <3>4 DEF Enviar, ColaTypeOK, FilaTypeOK
  <2>8. CASE Terminar(w)
    <3>1. InvocacionTypeOK' BY <2>8, AvanzarTypes, SalirTypes DEF Terminar, Pasos
    <3>2. FilaTypeOK'
      BY <2>8 DEF Terminar, FilaTypeOK, InvocacionTypeOK, IntentStates
    <3>3. QED BY <2>8, <3>1, <3>2 DEF Terminar, ColaTypeOK
  <2>9. CASE Consultar(w)
    <3>1. InvocacionTypeOK' BY <2>9, ResultadoTypes, SalirTypes DEF Consultar, Pasos
    <3>2. QED BY <2>9, <3>1 DEF Consultar, ColaTypeOK, FilaTypeOK
  <2>10. CASE CerrarTrabajo(w)
    <3>1. InvocacionTypeOK' BY <2>10, SalirTypes DEF CerrarTrabajo
    <3>2. ColaTypeOK' BY <2>10 DEF CerrarTrabajo, ColaTypeOK, JobStates
    <3>3. QED BY <2>10, <3>1, <3>2 DEF CerrarTrabajo, FilaTypeOK
  <2>12. QED
    BY <1>8, <2>1, <2>2, <2>3, <2>4, <2>5, <2>6, <2>7, <2>8, <2>9, <2>10, <2>11 DEF PasoDe
<1>9. ASSUME NEW w \in Workers, Abortar(w) PROVE TypeOK'
  <2>1. InvocacionTypeOK' BY <1>9, SalirTypes DEF Abortar
  <2>2. QED BY <1>9, <2>1 DEF Abortar, ColaTypeOK, FilaTypeOK
<1>10. CASE Reiniciar
  <2>1. InvocacionTypeOK' BY <1>10 DEF Reiniciar, SinInvocaciones, InvocacionTypeOK, Pasos
  <2>2. QED BY <1>10, <2>1 DEF Reiniciar, ColaTypeOK, FilaTypeOK
<1>11. CASE UNCHANGED vars
  BY <1>11 DEF ColaTypeOK, FilaTypeOK, InvocacionTypeOK
<1>12. QED
  BY <1>1, <1>2, <1>3, <1>4, <1>5, <1>6, <1>7, <1>8, <1>9, <1>10, <1>11 DEF Next

\* Every row and invocation always has its declared type, for every set of payments
\* and invocations: what enqueuePayment, processPayment and the intent store write
\* stays within the columns' enumerations.
THEOREM TypeCorrect == Spec => []TypeOK
  BY TypeInit, TypeStep, PTL DEF Spec

(***************************************************************************)
(* The inductive invariant.                                                *)
(***************************************************************************)

\* The initial state satisfies the inductive invariant.
LEMMA InvInit == Init => IInv
<1> SUFFICES ASSUME Init PROVE IInv
  OBVIOUS
<1>1. TypeOK BY TypeInit
<1>2. FilasOK BY DEF Init, FilasOK, FilaOK
<1>3. InvocacionesOK /\ ReclamosUnicos
  BY DEF Init, SinInvocaciones, InvocacionesOK, ReclamosUnicos, ConReclamo
<1>4. QED BY <1>1, <1>2, <1>3 DEF IInv

\* No step breaks what is known of a row.
LEMMA FilasStep ==
    ASSUME IInv, [Next]_vars
    PROVE  FilasOK'
<1> USE DEF IInv, TypeOK, FilaTypeOK, vars, colaVars, fila, invocacion, proveedor
<1>1. ASSUME NEW p \in Payments, EnqueuePayment(p) PROVE FilasOK'
  BY <1>1 DEF EnqueuePayment, FilasOK, FilaOK, ColaTypeOK
<1>2. ASSUME NEW p \in Payments, RepreparePayment(p) PROVE FilasOK'
  BY <1>2 DEF RepreparePayment, FilasOK, FilaOK, ColaTypeOK
<1>3. ASSUME NEW p \in Payments, QuarantineStale(p) \/ ReconcilePayment(p) PROVE FilasOK'
  BY <1>3 DEF QuarantineStale, ReconcilePayment, FilasOK, FilaOK
<1>4. ASSUME NEW w \in Workers, NEW p \in Payments,
             AvisoPostCommit(w, p) \/ RetryPayment(w, p)
      PROVE  FilasOK'
  BY <1>4 DEF AvisoPostCommit, RetryPayment, FilasOK, FilaOK
<1>5. ASSUME NEW p \in Payments, DrenarSiguiente(p) PROVE FilasOK'
  BY <1>5 DEF DrenarSiguiente, FilasOK, FilaOK
<1>6. ASSUME NEW w \in Workers, PasoDe(w) PROVE FilasOK'
  <2>0. pc[w] # "libre" => pago[w] \in Payments /\ InvocacionOK(w, pago[w])
    BY DEF InvocacionTypeOK, InvocacionesOK
  <2>1. CASE LeerTrabajo(w) \/ BloquearTrabajo(w) \/ LeerIntencion(w)
    BY <2>1 DEF LeerTrabajo, BloquearTrabajo, LeerIntencion, FilasOK, FilaOK, ColaTypeOK
  <2>2. CASE Preparar(w)
    BY <2>2 DEF Preparar, FilasOK, FilaOK
  <2>3. CASE Reclamar(w)
    BY <2>3 DEF Reclamar, Reclamable, FilasOK, FilaOK
  <2>4. CASE VerificarReclamo(w) \/ Autenticar(w) \/ Consultar(w)
    BY <2>4 DEF VerificarReclamo, Autenticar, Consultar, FilasOK, FilaOK
  <2>5. CASE MarcarEnvio(w)
    BY <2>5 DEF MarcarEnvio, MiReclamo, FilasOK, FilaOK
  <2>6. CASE Enviar(w)
    BY <2>0, <2>6 DEF Enviar, InvocacionOK, FilasOK, FilaOK
  <2>7. CASE Terminar(w)
    BY <2>0, <2>7 DEF Terminar, MiReclamo, InvocacionTypeOK, InvocacionOK, Terminal, FilasOK, FilaOK
  <2>8. CASE CerrarTrabajo(w)
    BY <2>0, <2>8 DEF CerrarTrabajo, InvocacionOK, FilasOK, FilaOK, ColaTypeOK
  <2>9. QED BY <1>6, <2>1, <2>2, <2>3, <2>4, <2>5, <2>6, <2>7, <2>8 DEF PasoDe
<1>7. ASSUME NEW w \in Workers, Abortar(w) PROVE FilasOK'
  BY <1>7 DEF Abortar, FilasOK, FilaOK
<1>8. CASE Drenar \/ Reiniciar \/ UNCHANGED vars
  BY <1>8 DEF Drenar, Reiniciar, FilasOK, FilaOK
<1>9. QED
  BY <1>1, <1>2, <1>3, <1>4, <1>5, <1>6, <1>7, <1>8 DEF Next

\* No step breaks what is known of an invocation: its claim is at most the row's
\* last, and while it is the last the row's marker tells how far it has come.
LEMMA InvocacionesStep ==
    ASSUME IInv, [Next]_vars
    PROVE  InvocacionesOK'
<1> USE DEF IInv, TypeOK, FilaTypeOK, vars, colaVars, fila, invocacion, proveedor
<1>0. \A v \in Workers : pc[v] # "libre" => pago[v] \in Payments /\ InvocacionOK(v, pago[v])
  BY DEF InvocacionTypeOK, InvocacionesOK
<1>1. ASSUME NEW p \in Payments, EnqueuePayment(p) \/ RepreparePayment(p)
      PROVE  InvocacionesOK'
  BY <1>1 DEF EnqueuePayment, RepreparePayment, InvocacionesOK, InvocacionOK, ConReclamo, claimId
<1>2. ASSUME NEW p \in Payments, QuarantineStale(p) \/ ReconcilePayment(p)
      PROVE  InvocacionesOK'
  BY <1>0, <1>2 DEF QuarantineStale, ReconcilePayment, FilasOK, FilaOK,
     InvocacionesOK, InvocacionOK, ConReclamo, claimId
<1>3. ASSUME NEW w \in Workers, NEW p \in Payments,
             AvisoPostCommit(w, p) \/ RetryPayment(w, p)
      PROVE  InvocacionesOK'
  BY <1>3 DEF AvisoPostCommit, RetryPayment, Invocar, InvocacionTypeOK,
     InvocacionesOK, InvocacionOK, ConReclamo, claimId
<1>4. ASSUME NEW p \in Payments, DrenarSiguiente(p) PROVE InvocacionesOK'
  BY <1>4, TaxConstants DEF DrenarSiguiente, Invocar, InvocacionTypeOK,
     InvocacionesOK, InvocacionOK, ConReclamo, claimId
<1>5. ASSUME NEW w \in Workers, PasoDe(w) PROVE InvocacionesOK'
  <2> USE DEF InvocacionTypeOK
  <2>1. CASE LeerTrabajo(w) \/ BloquearTrabajo(w) \/ LeerIntencion(w) \/ Autenticar(w)
    BY <1>0, <2>1 DEF LeerTrabajo, Preparable, BloquearTrabajo, LeerIntencion, Autenticar, Avanzar,
       Resultado, Salir,
       InvocacionesOK, InvocacionOK, ConReclamo, claimId, Terminal
  <2>2. CASE VerificarReclamo(w)
    BY <1>0, <2>2 DEF VerificarReclamo, Avanzar, Resultado,
       InvocacionesOK, InvocacionOK, ConReclamo, claimId
  <2>3. CASE Consultar(w)
    BY <1>0, <2>3 DEF Consultar, Resultado, Salir, FilasOK, FilaOK, Terminal,
       InvocacionesOK, InvocacionOK, ConReclamo, claimId
  <2>4. CASE Preparar(w)
    BY <1>0, <2>4 DEF Preparar, Avanzar, Resultado, Salir, FilasOK, FilaOK,
       InvocacionesOK, InvocacionOK, ConReclamo, claimId
  <2>5. CASE Reclamar(w)
    BY <1>0, <2>5 DEF Reclamar, Reclamable, Avanzar, FilasOK, FilaOK,
       InvocacionesOK, InvocacionOK, ConReclamo, claimId
  <2>6. CASE MarcarEnvio(w)
    BY <1>0, <2>6 DEF MarcarEnvio, MiReclamo, Avanzar, Resultado, FilasOK, FilaOK,
       ReclamosUnicos, InvocacionesOK, InvocacionOK, ConReclamo, claimId
  <2>7. CASE Enviar(w)
    BY <1>0, <2>7 DEF Enviar, Resultado, ReclamosUnicos,
       InvocacionesOK, InvocacionOK, ConReclamo, claimId
  <2>8. CASE Terminar(w)
    BY <1>0, <2>8 DEF Terminar, MiReclamo, Avanzar, Salir, ReclamosUnicos,
       InvocacionesOK, InvocacionOK, ConReclamo, claimId
  <2>9. CASE CerrarTrabajo(w)
    BY <1>0, <2>9 DEF CerrarTrabajo, Salir, InvocacionesOK, InvocacionOK, ConReclamo, claimId
  <2>10. QED BY <1>5, <2>1, <2>2, <2>3, <2>4, <2>5, <2>6, <2>7, <2>8, <2>9 DEF PasoDe
<1>6. ASSUME NEW w \in Workers, Abortar(w) PROVE InvocacionesOK'
  BY <1>6 DEF Abortar, Salir, InvocacionTypeOK, InvocacionesOK, InvocacionOK, ConReclamo, claimId
<1>7. CASE Reiniciar
  BY <1>7 DEF Reiniciar, SinInvocaciones, InvocacionesOK
<1>8. CASE Drenar \/ UNCHANGED vars
  BY <1>8 DEF Drenar, InvocacionesOK, InvocacionOK, ConReclamo, claimId
<1>9. QED
  BY <1>1, <1>2, <1>3, <1>4, <1>5, <1>6, <1>7, <1>8 DEF Next

\* No step gives two invocations the same claim.
LEMMA UnicosStep ==
    ASSUME IInv, [Next]_vars
    PROVE  ReclamosUnicos'
<1> USE DEF IInv, TypeOK, FilaTypeOK, InvocacionTypeOK, vars, colaVars, fila, invocacion,
            proveedor, ReclamosUnicos, ConReclamo
<1>1. ASSUME NEW p \in Payments, EnqueuePayment(p) \/ RepreparePayment(p)
                                    \/ QuarantineStale(p) \/ ReconcilePayment(p)
      PROVE  ReclamosUnicos'
  BY <1>1 DEF EnqueuePayment, RepreparePayment, QuarantineStale, ReconcilePayment
<1>2. ASSUME NEW w \in Workers, NEW p \in Payments,
             AvisoPostCommit(w, p) \/ RetryPayment(w, p)
      PROVE  ReclamosUnicos'
  BY <1>2 DEF AvisoPostCommit, RetryPayment, Invocar
<1>3. ASSUME NEW p \in Payments, DrenarSiguiente(p) PROVE ReclamosUnicos'
  BY <1>3, TaxConstants DEF DrenarSiguiente, Invocar
<1>4. ASSUME NEW w \in Workers, PasoDe(w) PROVE ReclamosUnicos'
  <2>1. CASE LeerTrabajo(w) \/ BloquearTrabajo(w) \/ LeerIntencion(w) \/ Preparar(w)
              \/ VerificarReclamo(w) \/ Autenticar(w)
    BY <2>1 DEF LeerTrabajo, Preparable, BloquearTrabajo, LeerIntencion, Preparar,
       VerificarReclamo, Autenticar, Avanzar, Resultado, Salir
  <2>2. CASE Reclamar(w)
    BY <2>2 DEF Reclamar, Avanzar, InvocacionesOK, InvocacionOK
  <2>3. CASE MarcarEnvio(w) \/ Enviar(w) \/ Terminar(w) \/ Consultar(w) \/ CerrarTrabajo(w)
    BY <2>3 DEF MarcarEnvio, Enviar, Terminar, Consultar, CerrarTrabajo, Avanzar, Resultado, Salir
  <2>4. QED BY <1>4, <2>1, <2>2, <2>3 DEF PasoDe
<1>5. ASSUME NEW w \in Workers, Abortar(w) PROVE ReclamosUnicos'
  BY <1>5 DEF Abortar, Salir
<1>6. CASE Reiniciar
  BY <1>6 DEF Reiniciar, SinInvocaciones
<1>7. CASE Drenar \/ UNCHANGED vars
  BY <1>7 DEF Drenar
<1>8. QED
  BY <1>1, <1>2, <1>3, <1>4, <1>5, <1>6, <1>7 DEF Next

\* The invariant is inductive.
LEMMA InvStep == IInv /\ [Next]_vars => IInv'
  BY TypeStep, FilasStep, InvocacionesStep, UnicosStep DEF IInv

\* The inductive invariant always holds, for every number of payments, concurrent
\* invocations, explicit retries and failures.
THEOREM InvCorrect == Spec => []IInv
  BY InvInit, InvStep, PTL DEF Spec

(***************************************************************************)
(* The safety properties.                                                  *)
(***************************************************************************)

\* beginDispatch's marker precedes and outlives every POST of dispatch, whatever
\* crashes, in every reachable state.
THEOREM MarkedBeforeSentCorrect == Spec => []MarkedBeforeSent
<1>1. IInv => MarkedBeforeSent
  BY DEF IInv, TypeOK, FilaTypeOK, FilasOK, FilaOK, MarkedBeforeSent
<1>2. QED BY <1>1, InvCorrect, PTL

\* finish only writes FALLIDO for a payment that was not sent and that no running
\* invocation is about to send: retryPayment never duplicates a document.
THEOREM FailureIsTruthfulCorrect == Spec => []FailureIsTruthful
<1>1. IInv => FailureIsTruthful
  <2> SUFFICES ASSUME IInv, NEW p \in Payments, estado[p] = "FALLIDO"
               PROVE  /\ ~enviado[p]
                      /\ posts[p] = 0
                      /\ \A w \in Workers : ~(pc[w] = "enviar" /\ pago[w] = p)
    BY DEF FailureIsTruthful
  <2>1. ~enviado[p] BY DEF IInv, FilasOK, FilaOK
  <2>2. posts[p] = 0 BY <2>1 DEF IInv, FilasOK, FilaOK
  <2>3. ASSUME NEW w \in Workers, pc[w] = "enviar", pago[w] = p PROVE FALSE
    BY <2>3 DEF IInv, InvocacionesOK, InvocacionOK
  <2>4. QED BY <2>1, <2>2, <2>3
<1>2. QED BY <1>1, InvCorrect, PTL

\* processPayment closes no job whose payment was never claimed for emission.
THEOREM NoJobLostCorrect == Spec => []NoJobLost
<1>1. IInv => NoJobLost
  BY DEF IInv, FilasOK, FilaOK, NoJobLost
<1>2. QED BY <1>1, InvCorrect, PTL

\* Once quarantineStale (or finish) has settled an unmarked row, no step of any
\* invocation marks or sends it.
THEOREM QuarantineIsFinalCorrect == Spec => QuarantineIsFinal
<1> DEFINE Final == \A p \in Payments :
          estado[p] \in {"RESULTADO_INDETERMINADO", "GENERADO"} /\ ~enviado[p]
             => ~enviado'[p] /\ posts'[p] = posts[p]
<1>1. IInv /\ [Next]_vars => [Final]_vars
  <2> SUFFICES ASSUME IInv, [Next]_vars PROVE Final
    OBVIOUS
  <2> USE DEF IInv, TypeOK, FilaTypeOK, vars, colaVars, fila, invocacion, proveedor
  <2>1. CASE \E w \in Workers : MarcarEnvio(w)
    BY <2>1 DEF MarcarEnvio, MiReclamo
  <2>2. CASE \E w \in Workers : Enviar(w)
    BY <2>2 DEF Enviar, InvocacionesOK, InvocacionOK
  <2>3. CASE UNCHANGED <<enviado, posts>>
    BY <2>3
  <2>4. QED
    BY <2>1, <2>2, <2>3 DEF Next, PasoDe, EnqueuePayment, DrenarSiguiente, RepreparePayment,
       QuarantineStale, ReconcilePayment, AvisoPostCommit, RetryPayment, Drenar, LeerTrabajo,
       BloquearTrabajo, LeerIntencion, Preparar, Reclamar, VerificarReclamo, Autenticar, Terminar, Consultar, CerrarTrabajo,
       Abortar, Reiniciar
<1>2. QED BY <1>1, InvCorrect, PTL DEF Spec, QuarantineIsFinal

(***************************************************************************)
(* The pipeline implements the abstract contract.                          *)
(***************************************************************************)

\* Settling one row moves the abstract verdict of that payment only.
LEMMA VeredictoUpdate ==
    ASSUME FilaTypeOK, NEW p \in Payments, NEW s,
           estado' = [estado EXCEPT ![p] = s]
    PROVE  [q \in Payments |-> Veredicto(estado'[q])] =
           [[q \in Payments |-> Veredicto(estado[q])] EXCEPT ![p] = Veredicto(s)]
  BY DEF FilaTypeOK

\* Initial states map to initial states of the contract.
LEMMA ContractInit == Init => Contract!AInit
  BY DEF Init, Contract!AInit, Veredicto

\* Every step of the pipeline is a step of the contract or leaves it alone.
LEMMA ContractStep ==
    ASSUME IInv, [Next]_vars
    PROVE  [Contract!ANext]_(Contract!abstractVars)
<1> USE DEF IInv, TypeOK, vars, colaVars, fila, invocacion, proveedor
<1> DEFINE Step == Contract!ANext \/ UNCHANGED Contract!abstractVars
<1>0. \A w \in Workers : pc[w] # "libre" => pago[w] \in Payments /\ InvocacionOK(w, pago[w])
  BY DEF InvocacionTypeOK, InvocacionesOK
<1>1. ASSUME UNCHANGED <<posts, emitidos, estado>> PROVE Step
  BY <1>1 DEF Contract!abstractVars
<1>2. ASSUME NEW p \in Payments, QuarantineStale(p) PROVE Step
  <2>1. Contract!ADudar(p)
    BY <1>2, VeredictoUpdate DEF QuarantineStale, Contract!ADudar, Veredicto
  <2>2. QED BY <2>1 DEF Contract!ANext
<1>3. ASSUME NEW p \in Payments, ReconcilePayment(p) PROVE Step
  <2>1. Contract!AGenerar(p)
    BY <1>3, VeredictoUpdate DEF ReconcilePayment, Contract!AGenerar, Veredicto
  <2>2. QED BY <2>1 DEF Contract!ANext
<1>4. ASSUME NEW w \in Workers, Preparar(w) PROVE Step
  <2>1. pago[w] \in Payments BY <1>0, <1>4 DEF Preparar
  <2>2. \A q \in Payments : Veredicto(estado'[q]) = Veredicto(estado[q])
    BY <1>4, <2>1 DEF Preparar, Veredicto, FilaTypeOK
  <2>3. QED BY <1>4, <2>2 DEF Preparar, Contract!abstractVars
<1>5. ASSUME NEW w \in Workers, Reclamar(w) PROVE Step
  <2>1. pago[w] \in Payments BY <1>0, <1>5 DEF Reclamar
  <2>2. CASE Reclamable(pago[w]) /\ estado[pago[w]] = "FALLIDO"
    <3>1. estado' = [estado EXCEPT ![pago[w]] = "EN_PROCESO"]
      BY <1>5, <2>2 DEF Reclamar
    <3>2. Contract!AReabrir(pago[w])
      BY <1>5, <2>1, <2>2, <3>1, VeredictoUpdate DEF Reclamar, Contract!AReabrir, Veredicto
    <3>3. QED BY <2>1, <3>2 DEF Contract!ANext
  <2>3. CASE Reclamable(pago[w]) /\ estado[pago[w]] # "FALLIDO"
    <3>1. \A q \in Payments : Veredicto(estado'[q]) = Veredicto(estado[q])
      BY <1>5, <2>1, <2>3 DEF Reclamar, Reclamable, Veredicto, FilaTypeOK
    <3>2. QED BY <1>5, <3>1 DEF Reclamar, Contract!abstractVars
  <2>4. CASE ~Reclamable(pago[w])
    BY <1>1, <1>5, <2>4 DEF Reclamar
  <2>5. QED BY <2>2, <2>3, <2>4
<1>6. ASSUME NEW w \in Workers, Enviar(w) PROVE Step
  <2>1. pago[w] \in Payments BY <1>0, <1>6 DEF Enviar
  <2>2. posts[pago[w]] = 0 /\ estado[pago[w]] \in {"EN_PROCESO", "RESULTADO_INDETERMINADO"}
    BY <1>0, <1>6 DEF Enviar, InvocacionOK
  <2>3. Contract!AEnviar(pago[w])
    BY <1>6, <2>1, <2>2 DEF Enviar, Contract!AEnviar, Veredicto
  <2>4. QED BY <2>1, <2>3 DEF Contract!ANext
<1>7. ASSUME NEW w \in Workers, Terminar(w) PROVE Step
  <2>1. pago[w] \in Payments /\ InvocacionOK(w, pago[w]) /\ FilaOK(pago[w])
    BY <1>0, <1>7 DEF Terminar, FilasOK
  <2>2. CASE MiReclamo(w)
    <3>1. /\ estado' = [estado EXCEPT ![pago[w]] = res[w]]
          /\ res[w] \in Terminal
          /\ estado[pago[w]] = "EN_PROCESO"
          /\ UNCHANGED <<posts, emitidos>>
      BY <1>7, <2>2 DEF Terminar, MiReclamo, InvocacionTypeOK
    <3>2. CASE res[w] = "GENERADO"
      <4>1. pago[w] \in emitidos BY <1>7, <2>1, <3>2 DEF Terminar, InvocacionOK
      <4>2. Contract!AGenerar(pago[w])
        BY <2>1, <3>1, <3>2, <4>1, VeredictoUpdate DEF Contract!AGenerar, Veredicto
      <4>3. QED BY <2>1, <4>2 DEF Contract!ANext
    <3>3. CASE res[w] = "FALLIDO"
      <4>1. posts[pago[w]] = 0
        BY <1>7, <2>1, <2>2, <3>3 DEF Terminar, MiReclamo, InvocacionOK, FilaOK
      <4>2. Contract!AFallar(pago[w])
        BY <2>1, <3>1, <3>3, <4>1, VeredictoUpdate DEF Contract!AFallar, Veredicto
      <4>3. QED BY <2>1, <4>2 DEF Contract!ANext
    <3>4. CASE res[w] = "RESULTADO_INDETERMINADO"
      <4>1. Contract!ADudar(pago[w])
        BY <2>1, <3>1, <3>4, VeredictoUpdate DEF Contract!ADudar, Veredicto
      <4>2. QED BY <2>1, <4>1 DEF Contract!ANext
    <3>5. QED BY <3>1, <3>2, <3>3, <3>4 DEF Terminal
  <2>3. CASE ~MiReclamo(w)
    BY <1>1, <1>7, <2>3 DEF Terminar
  <2>4. QED BY <2>2, <2>3
<1>8. QED
  BY <1>1, <1>2, <1>3, <1>4, <1>5, <1>6, <1>7 DEF Next, PasoDe, EnqueuePayment, DrenarSiguiente,
     RepreparePayment, AvisoPostCommit, RetryPayment, Drenar, LeerTrabajo,
     BloquearTrabajo, LeerIntencion, VerificarReclamo, Autenticar, MarcarEnvio, Consultar, CerrarTrabajo, Abortar, Reiniciar

\* The whole pipeline keeps the contract: at most one POST /wsds/procesar per
\* payment, and verdicts that are truthful and final.
THEOREM PipelineImplementsContract == Spec => ImplementsContract
  BY ContractInit, ContractStep, InvCorrect, PTL DEF Spec, ImplementsContract, Contract!ASpec

--------------------------------------------------------------------------------
(* 2. Induction and sums over finite sets *)

(***************************************************************************)
(* Induction.  The library states it with an operator as its parameter,    *)
(* which no prover here can instantiate; stated with a set it follows from *)
(* the existence of minimal elements, and is used by naming the set.       *)
(***************************************************************************)

\* What holds of a set whenever it holds of its proper subsets holds of every subset
\* of a finite set.
LEMMA StrongSubsetInduction ==
    ASSUME NEW S, IsFiniteSet(S), NEW P,
           \A T \in SUBSET S : (\A U \in SUBSET T : U # T => U \in P) => T \in P
    PROVE  SUBSET S \subseteq P
<1>. DEFINE Bad == (SUBSET S) \ P
<1>1. SUFFICES ASSUME Bad # {} PROVE FALSE
  OBVIOUS
<1>2. Bad \subseteq FiniteSubsetsOf(S)
  BY FS_FiniteSubsetsOfFinite
<1>3. PICK T \in Bad : \A U \in Bad : ~(<<U, T>> \in StrictSubsetOrdering(S))
  <2>. HIDE DEF Bad
  <2>. QED BY <1>1, <1>2, WFMin, FS_StrictSubsetOrderingWellFounded
<1>4. ASSUME NEW U \in SUBSET T, U # T PROVE U \in P
  <2>1. <<U, T>> \in StrictSubsetOrdering(S)
    BY <1>4 DEF StrictSubsetOrdering
  <2>. QED BY <1>3, <2>1
<1>. QED BY <1>4

\* The same, one element at a time.
LEMMA SubsetInduction ==
    ASSUME NEW S, IsFiniteSet(S), NEW P, {} \in P,
           \A T \in SUBSET S : \A x \in T : T \ {x} \in P => T \in P
    PROVE  S \in P
<1>1. ASSUME NEW T \in SUBSET S, \A U \in SUBSET T : U # T => U \in P PROVE T \in P
  <2>1. CASE T = {}
    BY <2>1
  <2>2. CASE T # {}
    <3>1. PICK x : x \in T
      BY <2>2
    <3>2. T \ {x} \in P
      BY <1>1, <3>1
    <3>. QED BY <3>1, <3>2
  <2>. QED BY <2>1, <2>2
<1>. QED BY <1>1, StrongSubsetInduction

LEMMA CountInduction ==
    ASSUME NEW P, 0 \in P, \A n \in Nat : n \in P => n + 1 \in P
    PROVE  Nat \subseteq P
<1>. DEFINE Bad == Nat \ P
<1>1. SUFFICES ASSUME Bad # {} PROVE FALSE
  OBVIOUS
<1>2. PICK n \in Bad : \A m \in Bad : ~(<<m, n>> \in OpToRel(<, Nat))
  <2>1. Bad \subseteq Nat
    OBVIOUS
  <2>. HIDE DEF Bad
  <2>. QED BY <1>1, <2>1, WFMin, NatLessThanWellFounded, Zenon
<1>3. n \in Nat /\ n - 1 \in Nat /\ n - 1 < n
  OBVIOUS
<1>4. n - 1 \in P
  <2>1. <<n - 1, n>> \in {ss \in Nat \X Nat : ss[1] < ss[2]}
    BY <1>3
  <2>2. <<n - 1, n>> \in OpToRel(<, Nat)
    BY <2>1, Zenon DEF OpToRel
  <2>. QED BY <1>2, <1>3, <2>2
<1>. QED BY <1>3, <1>4

(***************************************************************************)
(* Sums.  SumFunctionOnSet is a fold: a function defined by recursion over *)
(* the subsets of a set, which takes their elements in the order of CHOOSE.*)
(***************************************************************************)

\* What that function does to each subset of D.
Some(s) == CHOOSE x \in s : TRUE
Sums(v, D, f) ==
    /\ f \in [SUBSET D -> Int]
    /\ \A s \in SUBSET D : f[s] = IF s = {} THEN 0 ELSE v[Some(s)] + f[s \ {Some(s)}]

LEMMA SomeIn == \A s : s # {} => Some(s) \in s
  BY DEF Some

\* It exists: the sums of the subsets of at most n elements, for every n.
LEMMA SumsExist ==
    ASSUME NEW D, IsFiniteSet(D), NEW v \in [D -> Int]
    PROVE  \E f : Sums(v, D, f)
<1>. DEFINE UpTo(n, f) == \A s \in SUBSET D : Cardinality(s) <= n =>
                             f[s] = IF s = {} THEN 0 ELSE v[Some(s)] + f[s \ {Some(s)}]
            P == {n \in Nat : \E f \in [SUBSET D -> Int] : UpTo(n, f)}
<1>1. \A s \in SUBSET D : /\ Cardinality(s) \in Nat
                          /\ Cardinality(s) <= Cardinality(D)
                          /\ Cardinality(s) = 0 <=> s = {}
                          /\ s # {} => /\ Some(s) \in s
                                       /\ Cardinality(s \ {Some(s)}) = Cardinality(s) - 1
  <2>1. \A s \in SUBSET D : IsFiniteSet(s) /\ Cardinality(s) <= Cardinality(D)
    BY FS_Subset
  <2>. QED BY <2>1, SomeIn, FS_CardinalityType, FS_EmptySet, FS_RemoveElement
<1>2. 0 \in P
  <2>1. UpTo(0, [s \in SUBSET D |-> 0])
    <3>1. \A n \in Nat : n <= 0 => n = 0
      OBVIOUS
    <3>2. \A s \in SUBSET D : Cardinality(s) <= 0 => s = {}
      BY <1>1, <3>1, Zenon
    <3>. QED BY <3>2
  <2>2. [s \in SUBSET D |-> 0] \in [SUBSET D -> Int]
    OBVIOUS
  <2>. HIDE DEF UpTo
  <2>. QED BY <2>1, <2>2
<1>3. ASSUME NEW n \in Nat, n \in P PROVE n + 1 \in P
  <2>1. PICK f \in [SUBSET D -> Int] : UpTo(n, f)
    BY <1>3
  <2>. DEFINE g == [s \in SUBSET D |-> IF s = {} THEN 0 ELSE v[Some(s)] + f[s \ {Some(s)}]]
  <2>2. g \in [SUBSET D -> Int]
    <3>1. ASSUME NEW s \in SUBSET D, s # {} PROVE v[Some(s)] + f[s \ {Some(s)}] \in Int
      <4>1. v[Some(s)] \in Int /\ f[s \ {Some(s)}] \in Int
        BY <1>1, <3>1
      <4>. QED BY <4>1
    <3>. QED BY <3>1
  <2>3. \A s \in SUBSET D : Cardinality(s) <= n => g[s] = f[s]
    BY <2>1
  <2>4. UpTo(n + 1, g)
    <3>1. SUFFICES ASSUME NEW s \in SUBSET D, Cardinality(s) <= n + 1, s # {}
                   PROVE  g[s] = v[Some(s)] + g[s \ {Some(s)}]
      OBVIOUS
    <3>2. Cardinality(s \ {Some(s)}) <= n
      BY <3>1, <1>1
    <3>3. g[s \ {Some(s)}] = f[s \ {Some(s)}]
      BY <3>2, <2>3
    <3>. QED BY <3>1, <3>3
  <2>. HIDE DEF UpTo, g
  <2>. QED BY <2>2, <2>4
<1>4. Cardinality(D) \in P
  <2>. HIDE DEF P
  <2>. QED BY <1>2, <1>3, CountInduction, FS_CardinalityType
<1>5. PICK f \in [SUBSET D -> Int] : UpTo(Cardinality(D), f)
  BY <1>4
<1>. QED BY <1>1, <1>5 DEF Sums

\* It is the function the fold of the community modules is defined with.
LEMMA SumIsSums ==
    ASSUME NEW D, NEW v, NEW s, IsFiniteSet(s), s \subseteq D, v \in [D -> Int]
    PROVE  \E f : Sums(v, s, f) /\ SumFunctionOnSet(v, s) = f[s]
<1>. DEFINE R(f) == f = [t \in SUBSET s |-> IF t = {} THEN 0
                           ELSE v[CHOOSE x \in t : TRUE] + f[t \ {CHOOSE x \in t : TRUE}]]
            f == CHOOSE g : R(g)
<1>1. \E g : Sums(v, s, g)
  <2>. DEFINE w == [x \in s |-> v[x]]
  <2>1. PICK g : Sums(w, s, g)
    BY SumsExist
  <2>2. Sums(v, s, g)
    BY <2>1, SomeIn DEF Sums
  <2>. QED BY <2>2
<1>2. R(f)
  <2>1. PICK g : Sums(v, s, g)
    BY <1>1
  <2>2. R(g)
    BY <2>1 DEF Sums, Some
  <2>. QED BY <2>2
<1>3. SumFunctionOnSet(v, s) = f[s]
  BY DEF SumFunctionOnSet, FoldFunctionOnSet, MapThenFoldSet
<1>. HIDE DEF f
<1>4. \A t \in SUBSET s : f[t] = IF t = {} THEN 0 ELSE v[Some(t)] + f[t \ {Some(t)}]
  BY <1>2 DEF Some
<1>5. f = [t \in SUBSET s |-> f[t]]
  BY <1>2
<1>6. \A t \in SUBSET s : f[t] \in Int
  <2>. DEFINE P == {t \in SUBSET s : f[t] \in Int}
  <2>1. ASSUME NEW t \in SUBSET s, \A u \in SUBSET t : u # t => u \in P PROVE t \in P
    <3>1. CASE t = {}
      <4>1. f[t] = 0
        BY <3>1, <1>4
      <4>. QED BY <4>1
    <3>2. CASE t # {}
      <4>1. Some(t) \in t
        BY <3>2, SomeIn
      <4>2. t \ {Some(t)} \in P /\ v[Some(t)] \in Int
        BY <2>1, <4>1
      <4>3. f[t] = v[Some(t)] + f[t \ {Some(t)}]
        BY <1>4, <3>2
      <4>. QED BY <4>2, <4>3
    <3>. QED BY <3>1, <3>2
  <2>2. SUBSET s \subseteq P
    <3>. HIDE DEF P
    <3>. QED BY <2>1, StrongSubsetInduction
  <2>. QED BY <2>2
<1>7. Sums(v, s, f)
  BY <1>4, <1>5, <1>6 DEF Sums
<1>. QED BY <1>3, <1>7

\* Only the values of the elements matter.
LEMMA SumsAgree ==
    ASSUME NEW v, NEW s, NEW f, Sums(v, s, f), NEW w, NEW t, NEW g, Sums(w, t, g),
           NEW u, IsFiniteSet(u), u \subseteq s, u \subseteq t, \A x \in u : v[x] = w[x]
    PROVE  f[u] = g[u]
<1>. DEFINE P == {a \in SUBSET u : f[a] = g[a]}
<1>1. ASSUME NEW a \in SUBSET u, \A b \in SUBSET a : b # a => b \in P PROVE a \in P
  <2>1. CASE a = {}
    BY <2>1 DEF Sums
  <2>2. CASE a # {}
    <3>1. Some(a) \in a
      BY <2>2, SomeIn
    <3>2. a \ {Some(a)} \in P
      BY <1>1, <3>1
    <3>3. f[a] = v[Some(a)] + f[a \ {Some(a)}]
      BY <2>2 DEF Sums
    <3>4. g[a] = w[Some(a)] + g[a \ {Some(a)}]
      BY <2>2 DEF Sums
    <3>. QED BY <3>1, <3>2, <3>3, <3>4
  <2>. QED BY <2>1, <2>2
<1>2. SUBSET u \subseteq P
  <2>. HIDE DEF P
  <2>. QED BY <1>1, StrongSubsetInduction
<1>. QED BY <1>2

\* Any element can be taken out first.
LEMMA SumsPick ==
    ASSUME NEW s, IsFiniteSet(s), NEW v, \A x \in s : v[x] \in Int, NEW f, Sums(v, s, f), NEW x \in s
    PROVE  f[s] = v[x] + f[s \ {x}]
<1>. DEFINE P == {t \in SUBSET s : \A y \in t : f[t] = v[y] + f[t \ {y}]}
<1>1. ASSUME NEW t \in SUBSET s, \A u \in SUBSET t : u # t => u \in P PROVE t \in P
  <2>1. SUFFICES ASSUME NEW y \in t PROVE f[t] = v[y] + f[t \ {y}]
    OBVIOUS
  <2>. DEFINE h == Some(t)
  <2>2. h \in t
    BY SomeIn
  <2>3. f[t] = v[h] + f[t \ {h}]
    BY DEF Sums
  <2>. HIDE DEF h
  <2>4. CASE y = h
    BY <2>3, <2>4
  <2>5. CASE y # h
    <3>1. t \ {h} \in P /\ t \ {y} \in P
      BY <1>1, <2>2
    <3>2. f[t \ {h}] = v[y] + f[(t \ {h}) \ {y}]
      BY <3>1, <2>5
    <3>3. f[t \ {y}] = v[h] + f[(t \ {y}) \ {h}]
      BY <3>1, <2>2, <2>5
    <3>4. (t \ {y}) \ {h} = (t \ {h}) \ {y}
      OBVIOUS
    <3>5. v[y] \in Int /\ v[h] \in Int /\ f[(t \ {h}) \ {y}] \in Int
      BY <2>2 DEF Sums
    <3>6. v[h] + (v[y] + f[(t \ {h}) \ {y}]) = v[y] + (v[h] + f[(t \ {h}) \ {y}])
      BY <3>5
    <3>. QED BY <2>3, <3>2, <3>3, <3>4, <3>6
  <2>. QED BY <2>4, <2>5
<1>2. SUBSET s \subseteq P
  <2>. HIDE DEF P
  <2>. QED BY <1>1, StrongSubsetInduction
<1>. QED BY <1>2

\* The facts every other one about sums follows from.
LEMMA SumEmpty ==
    ASSUME NEW D, NEW v \in [D -> Int]
    PROVE  SumFunctionOnSet(v, {}) = 0
<1>1. PICK f : Sums(v, {}, f) /\ SumFunctionOnSet(v, {}) = f[{}]
  BY SumIsSums, FS_EmptySet
<1>. QED BY <1>1 DEF Sums

LEMMA SumType ==
    ASSUME NEW D, NEW v \in [D -> Int], NEW s, IsFiniteSet(s), s \subseteq D
    PROVE  SumFunctionOnSet(v, s) \in Int
<1>1. PICK f : Sums(v, s, f) /\ SumFunctionOnSet(v, s) = f[s]
  BY SumIsSums
<1>. QED BY <1>1 DEF Sums

LEMMA SumPick ==
    ASSUME NEW D, NEW v \in [D -> Int], NEW s, IsFiniteSet(s), s \subseteq D, NEW x \in s
    PROVE  SumFunctionOnSet(v, s) = v[x] + SumFunctionOnSet(v, s \ {x})
<1>1. PICK f : Sums(v, s, f) /\ SumFunctionOnSet(v, s) = f[s]
  BY SumIsSums
<1>2. IsFiniteSet(s \ {x}) /\ s \ {x} \subseteq D
  BY FS_RemoveElement
<1>3. PICK g : Sums(v, s \ {x}, g) /\ SumFunctionOnSet(v, s \ {x}) = g[s \ {x}]
  BY <1>2, SumIsSums
<1>4. f[s \ {x}] = g[s \ {x}]
  BY <1>1, <1>2, <1>3, SumsAgree
<1>5. f[s] = v[x] + f[s \ {x}]
  BY <1>1, SumsPick
<1>. QED BY <1>1, <1>3, <1>4, <1>5

LEMMA SumCongruent ==
    ASSUME NEW D, NEW v \in [D -> Int], NEW E, NEW w \in [E -> Int],
           NEW s, IsFiniteSet(s), s \subseteq D, s \subseteq E, \A x \in s : v[x] = w[x]
    PROVE  SumFunctionOnSet(v, s) = SumFunctionOnSet(w, s)
<1>1. PICK f : Sums(v, s, f) /\ SumFunctionOnSet(v, s) = f[s]
  BY SumIsSums
<1>2. PICK g : Sums(w, s, g) /\ SumFunctionOnSet(w, s) = g[s]
  BY SumIsSums
<1>. QED BY <1>1, <1>2, SumsAgree

LEMMA SumSingleton ==
    ASSUME NEW D, NEW v \in [D -> Int], NEW x \in D
    PROVE  SumFunctionOnSet(v, {x}) = v[x]
<1>1. SumFunctionOnSet(v, {x}) = v[x] + SumFunctionOnSet(v, {x} \ {x})
  <2>1. IsFiniteSet({x}) /\ {x} \subseteq D /\ x \in {x}
    BY FS_Singleton
  <2>. QED BY <2>1, SumPick
<1>2. SumFunctionOnSet(v, {x} \ {x}) = 0
  <2>1. {x} \ {x} = {}
    OBVIOUS
  <2>. QED BY <2>1, SumEmpty
<1>. QED BY <1>1, <1>2

\* A sum of nothing but zeros.
LEMMA SumZero ==
    ASSUME NEW D, NEW v \in [D -> Int], NEW s, IsFiniteSet(s), s \subseteq D, \A x \in s : v[x] = 0
    PROVE  SumFunctionOnSet(v, s) = 0
<1>. DEFINE P == {t \in SUBSET s : SumFunctionOnSet(v, t) = 0}
<1>1. {} \in P
  BY SumEmpty
<1>2. ASSUME NEW t \in SUBSET s, NEW x \in t, t \ {x} \in P PROVE t \in P
  <2>1. SumFunctionOnSet(v, t) = v[x] + SumFunctionOnSet(v, t \ {x})
    BY SumPick, FS_Subset
  <2>. QED BY <1>2, <2>1
<1>3. s \in P
  <2>. HIDE DEF P
  <2>. QED BY <1>1, <1>2, SubsetInduction
<1>. QED BY <1>3

LEMMA SumUnion ==
    ASSUME NEW D, NEW v \in [D -> Int], NEW s, IsFiniteSet(s), s \subseteq D,
           NEW t, IsFiniteSet(t), t \subseteq D, s \cap t = {}
    PROVE  SumFunctionOnSet(v, s \cup t) = SumFunctionOnSet(v, s) + SumFunctionOnSet(v, t)
<1>. DEFINE S(a) == SumFunctionOnSet(v, a)
            P == {a \in SUBSET s : S(a \cup t) = S(a) + S(t)}
<1>1. \A a \in SUBSET s : IsFiniteSet(a) /\ IsFiniteSet(a \cup t) /\ S(a) \in Int /\ S(a \cup t) \in Int
  <2>1. \A a \in SUBSET s : IsFiniteSet(a) /\ IsFiniteSet(a \cup t)
    BY FS_Subset, FS_Union
  <2>. QED BY <2>1, SumType
<1>2. S(t) \in Int
  BY SumType
<1>3. {} \in P
  <2>1. {} \cup t = t
    OBVIOUS
  <2>2. S({}) = 0
    BY SumEmpty
  <2>. HIDE DEF S
  <2>. QED BY <1>2, <2>1, <2>2
<1>4. ASSUME NEW a \in SUBSET s, NEW x \in a, a \ {x} \in P PROVE a \in P
  <2>1. S(a) = v[x] + S(a \ {x})
    <3>1. IsFiniteSet(a) /\ a \subseteq D
      BY <1>1
    <3>. QED BY <3>1, SumPick
  <2>2. S(a \cup t) = v[x] + S((a \cup t) \ {x})
    <3>1. IsFiniteSet(a \cup t) /\ a \cup t \subseteq D /\ x \in a \cup t
      BY <1>1
    <3>. QED BY <3>1, SumPick
  <2>3. (a \cup t) \ {x} = (a \ {x}) \cup t
    OBVIOUS
  <2>4. v[x] \in Int /\ S(a \ {x}) \in Int
    BY <1>1
  <2>5. S((a \ {x}) \cup t) = S(a \ {x}) + S(t)
    BY <1>4
  <2>6. S(a \cup t) = v[x] + (S(a \ {x}) + S(t))
    BY <2>2, <2>3, <2>5
  <2>7. v[x] + (S(a \ {x}) + S(t)) = (v[x] + S(a \ {x})) + S(t)
    BY <1>2, <2>4
  <2>8. S(a \cup t) = S(a) + S(t)
    BY <2>1, <2>6, <2>7, Zenon
  <2>. QED BY <2>8
<1>5. s \in P
  <2>. HIDE DEF P
  <2>. QED BY <1>3, <1>4, SubsetInduction
<1>. QED BY <1>5

\* The elements may be renamed.
LEMMA SumImage ==
    ASSUME NEW D, NEW v \in [D -> Int], NEW E, NEW w \in [E -> Int],
           NEW s, IsFiniteSet(s), s \subseteq D, NEW g,
           \A x \in s : g[x] \in E /\ w[g[x]] = v[x],
           \A x, y \in s : g[x] = g[y] => x = y
    PROVE  /\ IsFiniteSet({g[x] : x \in s})
           /\ SumFunctionOnSet(w, {g[x] : x \in s}) = SumFunctionOnSet(v, s)
<1>. DEFINE Im(a) == {g[x] : x \in a}
            P == {a \in SUBSET s : IsFiniteSet(Im(a)) /\ SumFunctionOnSet(w, Im(a)) = SumFunctionOnSet(v, a)}
<1>1. {} \in P
  <2>1. Im({}) = {}
    OBVIOUS
  <2>. HIDE DEF Im
  <2>. QED BY <2>1, SumEmpty, FS_EmptySet
<1>2. ASSUME NEW a \in SUBSET s, NEW x \in a, a \ {x} \in P PROVE a \in P
  <2>1. Im(a) \ {g[x]} = Im(a \ {x}) /\ Im(a) = Im(a \ {x}) \cup {g[x]} /\ g[x] \in Im(a) /\ Im(a) \subseteq E
    OBVIOUS
  <2>. HIDE DEF Im
  <2>2. IsFiniteSet(Im(a))
    <3>1. IsFiniteSet(Im(a \ {x}))
      BY <1>2
    <3>2. IsFiniteSet(Im(a \ {x}) \cup {g[x]})
      BY <3>1, FS_AddElement
    <3>. QED BY <2>1, <3>2
  <2>3. SumFunctionOnSet(w, Im(a)) = w[g[x]] + SumFunctionOnSet(w, Im(a \ {x}))
    <3>1. \A I, y : IsFiniteSet(I) /\ I \subseteq E /\ y \in I =>
              SumFunctionOnSet(w, I) = w[y] + SumFunctionOnSet(w, I \ {y})
      BY SumPick
    <3>. QED BY <2>1, <2>2, <3>1, Zenon
  <2>4. SumFunctionOnSet(v, a) = v[x] + SumFunctionOnSet(v, a \ {x})
    BY SumPick, FS_Subset
  <2>. QED BY <1>2, <2>2, <2>3, <2>4
<1>3. s \in P
  <2>. HIDE DEF P
  <2>. QED BY <1>1, <1>2, SubsetInduction
<1>. QED BY <1>3

\* Two sums over the same elements add up to the sum of what they add up to.
LEMMA SumPointwise ==
    ASSUME NEW D, NEW v \in [D -> Int], NEW w \in [D -> Int], NEW u \in [D -> Int],
           NEW s, IsFiniteSet(s), s \subseteq D, \A x \in s : u[x] = v[x] + w[x]
    PROVE  SumFunctionOnSet(u, s) = SumFunctionOnSet(v, s) + SumFunctionOnSet(w, s)
<1>. DEFINE P == {a \in SUBSET s : SumFunctionOnSet(u, a) = SumFunctionOnSet(v, a) + SumFunctionOnSet(w, a)}
<1>1. {} \in P
  BY SumEmpty
<1>2. ASSUME NEW a \in SUBSET s, NEW x \in a, a \ {x} \in P PROVE a \in P
  <2>1. IsFiniteSet(a) /\ IsFiniteSet(a \ {x})
    BY FS_Subset
  <2>2. /\ SumFunctionOnSet(u, a) = u[x] + SumFunctionOnSet(u, a \ {x})
        /\ SumFunctionOnSet(v, a) = v[x] + SumFunctionOnSet(v, a \ {x})
        /\ SumFunctionOnSet(w, a) = w[x] + SumFunctionOnSet(w, a \ {x})
    BY <2>1, SumPick
  <2>3. /\ SumFunctionOnSet(v, a \ {x}) \in Int /\ SumFunctionOnSet(w, a \ {x}) \in Int
        /\ v[x] \in Int /\ w[x] \in Int /\ u[x] = v[x] + w[x]
    BY <2>1, SumType
  <2>. QED BY <1>2, <2>2, <2>3
<1>3. s \in P
  <2>. HIDE DEF P
  <2>. QED BY <1>1, <1>2, SubsetInduction
<1>. QED BY <1>3

\* A sum of natural numbers is one, and is positive when one of them is.
LEMMA SumNat ==
    ASSUME NEW D, NEW v \in [D -> Int], NEW s, IsFiniteSet(s), s \subseteq D, \A x \in s : v[x] >= 0
    PROVE  /\ SumFunctionOnSet(v, s) >= 0
           /\ SumFunctionOnSet(v, s) > 0 <=> \E x \in s : v[x] > 0
<1>. DEFINE P == {t \in SUBSET s : SumFunctionOnSet(v, t) >= 0}
<1>1. {} \in P
  BY SumEmpty
<1>2. ASSUME NEW t \in SUBSET s, NEW x \in t, t \ {x} \in P PROVE t \in P
  <2>1. SumFunctionOnSet(v, t) = v[x] + SumFunctionOnSet(v, t \ {x})
    BY SumPick, FS_Subset
  <2>2. SumFunctionOnSet(v, t \ {x}) \in Int
    BY SumType, FS_Subset
  <2>. QED BY <1>2, <2>1, <2>2
<1>3. \A t \in SUBSET s : t \in P
  <2>1. \A t \in SUBSET s : IsFiniteSet(t)
    BY FS_Subset
  <2>. HIDE DEF P
  <2>2. SUFFICES ASSUME NEW t \in SUBSET s PROVE t \in P
    OBVIOUS
  <2>. QED BY <1>1, <1>2, <2>1, SubsetInduction
<1>4. ASSUME NEW x \in s, v[x] > 0 PROVE SumFunctionOnSet(v, s) > 0
  <2>1. SumFunctionOnSet(v, s) = v[x] + SumFunctionOnSet(v, s \ {x})
    BY SumPick
  <2>2. SumFunctionOnSet(v, s \ {x}) >= 0 /\ SumFunctionOnSet(v, s \ {x}) \in Int
    BY <1>3, SumType, FS_Subset
  <2>. QED BY <1>4, <2>1, <2>2
<1>5. ASSUME ~\E x \in s : v[x] > 0 PROVE SumFunctionOnSet(v, s) = 0
  <2>1. \A x \in s : v[x] = 0
    BY <1>5
  <2>. QED BY <2>1, SumZero
<1>. QED BY <1>3, <1>4, <1>5

\* A sum can be taken class by class.
LEMMA SumFibres ==
    ASSUME NEW D, NEW v \in [D -> Int], NEW s, IsFiniteSet(s), s \subseteq D,
           NEW K, IsFiniteSet(K), NEW k, \A x \in s : k[x] \in K
    PROVE  LET f == [c \in K |-> SumFunctionOnSet(v, {x \in s : k[x] = c})]
           IN  f \in [K -> Int] /\ SumFunctionOnSet(v, s) = SumFunctionOnSet(f, K)
<1>. DEFINE Class(t, c) == {x \in t : k[x] = c}
            F(t) == [c \in K |-> SumFunctionOnSet(v, Class(t, c))]
            P == {t \in SUBSET s : SumFunctionOnSet(v, t) = SumFunctionOnSet(F(t), K)}
<1>1. \A t \in SUBSET s : IsFiniteSet(t) /\ \A c \in K : IsFiniteSet(Class(t, c)) /\ Class(t, c) \subseteq D
  BY FS_Subset
<1>2. \A t \in SUBSET s : F(t) \in [K -> Int]
  <2>1. \A t \in SUBSET s, c \in K : SumFunctionOnSet(v, Class(t, c)) \in Int
    BY <1>1, SumType
  <2>. QED BY <2>1
<1>3. {} \in P
  <2>1. \A c \in K : Class({}, c) = {}
    OBVIOUS
  <2>2. \A c \in K : F({})[c] = 0
    <3>. HIDE DEF Class
    <3>. QED BY <2>1, SumEmpty
  <2>. HIDE DEF F
  <2>. QED BY <1>2, <2>2, SumZero, SumEmpty
<1>4. ASSUME NEW t \in SUBSET s, NEW x \in t, t \ {x} \in P PROVE t \in P
  <2>. DEFINE c == k[x]
              T == t \ {x}
  <2>1. c \in K /\ T \in SUBSET s
    OBVIOUS
  <2>2. F(t)[c] = v[x] + F(T)[c]
    <3>1. x \in Class(t, c) /\ Class(t, c) \ {x} = Class(T, c)
      OBVIOUS
    <3>2. SumFunctionOnSet(v, Class(t, c)) = v[x] + SumFunctionOnSet(v, Class(T, c))
      <4>1. IsFiniteSet(Class(t, c)) /\ Class(t, c) \subseteq D
        BY <1>1, <2>1
      <4>. HIDE DEF Class, T, c
      <4>2. SumFunctionOnSet(v, Class(t, c)) = v[x] + SumFunctionOnSet(v, Class(t, c) \ {x})
        BY <3>1, <4>1, SumPick
      <4>. QED BY <3>1, <4>2
    <3>. QED BY <2>1, <3>2
  <2>3. \A d \in K \ {c} : F(t)[d] = F(T)[d]
    <3>1. \A d \in K \ {c} : Class(t, d) = Class(T, d)
      OBVIOUS
    <3>. HIDE DEF Class
    <3>. QED BY <3>1
  <2>. HIDE DEF F, c
  <2>4. SumFunctionOnSet(F(t), K) = F(t)[c] + SumFunctionOnSet(F(t), K \ {c})
    BY <1>2, <2>1, SumPick
  <2>5. SumFunctionOnSet(F(T), K) = F(T)[c] + SumFunctionOnSet(F(T), K \ {c})
    BY <1>2, <2>1, SumPick
  <2>6. SumFunctionOnSet(F(t), K \ {c}) = SumFunctionOnSet(F(T), K \ {c})
    <3>1. IsFiniteSet(K \ {c}) /\ K \ {c} \subseteq K
      BY FS_RemoveElement
    <3>2. F(t) \in [K -> Int] /\ F(T) \in [K -> Int]
      BY <1>2, <2>1
    <3>. QED BY <2>3, <3>1, <3>2, SumCongruent
  <2>7. SumFunctionOnSet(v, t) = v[x] + SumFunctionOnSet(v, T)
    BY <1>1, SumPick
  <2>8. v[x] \in Int /\ F(T)[c] \in Int /\ SumFunctionOnSet(F(T), K \ {c}) \in Int
    BY <1>2, <2>1, SumType, FS_RemoveElement
  <2>9. SumFunctionOnSet(v, T) = SumFunctionOnSet(F(T), K)
    BY <1>4
  <2>10. SumFunctionOnSet(v, t) = SumFunctionOnSet(F(t), K)
    <3>. HIDE DEF T
    <3>. QED BY <2>2, <2>4, <2>5, <2>6, <2>7, <2>8, <2>9
  <2>. QED BY <2>10
<1>5. s \in P
  <2>. HIDE DEF P
  <2>. QED BY <1>3, <1>4, SubsetInduction
<1>. QED BY <1>2, <1>5

\* A finite set of numbers that is not empty has a greatest one.
LEMMA MaxIn ==
    ASSUME NEW S, IsFiniteSet(S), S \subseteq Nat, S # {}
    PROVE  Max(S) \in S
<1>. DEFINE P == {T \in SUBSET S : T # {} => \E x \in T : \A y \in T : x >= y}
<1>1. {} \in P
  OBVIOUS
<1>2. ASSUME NEW T \in SUBSET S, NEW x \in T, T \ {x} \in P PROVE T \in P
  <2>1. CASE T \ {x} = {}
    BY <2>1
  <2>2. CASE T \ {x} # {}
    <3>1. PICK y \in T \ {x} : \A z \in T \ {x} : y >= z
      BY <1>2, <2>2
    <3>2. CASE y >= x
      BY <3>1, <3>2
    <3>3. CASE ~(y >= x)
      <4>1. \A z \in T : x >= z
        BY <3>1, <3>3
      <4>. QED BY <4>1
    <3>. QED BY <3>2, <3>3
  <2>. QED BY <2>1, <2>2
<1>3. S \in P
  <2>. HIDE DEF P
  <2>. QED BY <1>1, <1>2, SubsetInduction
<1>. QED BY <1>3 DEF Max

\* The values a function takes on a finite set are finitely many.
LEMMA ImageFinite ==
    ASSUME NEW f, NEW S, IsFiniteSet(S)
    PROVE  IsFiniteSet({f[x] : x \in S})
<1>. DEFINE Im(T) == {f[x] : x \in T}
            P == {T \in SUBSET S : IsFiniteSet(Im(T))}
<1>1. {} \in P
  <2>1. Im({}) = {}
    OBVIOUS
  <2>. HIDE DEF Im
  <2>. QED BY <2>1, FS_EmptySet
<1>2. ASSUME NEW T \in SUBSET S, NEW x \in T, T \ {x} \in P PROVE T \in P
  <2>1. Im(T) = Im(T \ {x}) \cup {f[x]}
    OBVIOUS
  <2>. HIDE DEF Im
  <2>2. IsFiniteSet(Im(T \ {x}))
    BY <1>2
  <2>3. IsFiniteSet(Im(T \ {x}) \cup {f[x]})
    BY <2>2, FS_AddElement
  <2>. QED BY <2>1, <2>3
<1>3. S \in P
  <2>. HIDE DEF P
  <2>. QED BY <1>1, <1>2, SubsetInduction
<1>. QED BY <1>3

--------------------------------------------------------------------------------
(* 3. The allocation of the payments to the installments *)

(***************************************************************************)
(* The lines of a ledger and what they add up to.                          *)
(***************************************************************************)

\* An operation moves something of some installments.
LEMMA OperacionLineas ==
    ASSUME NEW o \in Operacion
    PROVE  /\ DOMAIN o.lineas \subseteq Cuotas /\ DOMAIN o.lineas # {}
           /\ \A q \in DOMAIN o.lineas : o.lineas[q] \in Nat \ {0}
           /\ o.lineas \in [DOMAIN o.lineas -> Int]
           /\ o.pago \in Pagos /\ o.convenio \in Convenios /\ o.clave \in Claves
<1>1. o.lineas \in Lineas
  BY DEF Operacion
<1>2. PICK C \in (SUBSET Cuotas) \ {{}} : o.lineas \in [C -> 1 .. MaxMonto]
  BY <1>1 DEF Lineas
<1>3. DOMAIN o.lineas = C /\ \A q \in C : o.lineas[q] \in 1 .. MaxMonto
  BY <1>2
<1>4. \A n \in 1 .. MaxMonto : n \in Nat \ {0} /\ n \in Int
  BY LedgerConstants
<1>5. o.lineas \in [C -> Int]
  BY <1>2, <1>4
<1>. QED BY <1>3, <1>4, <1>5 DEF Operacion

LEMMA LineasIn ==
    ASSUME NEW h \in Seq(Operacion), NEW l
    PROVE  l \in LineasDe(h) <=> \E i \in 1 .. Len(h) : \E q \in DOMAIN h[i].lineas : l = <<i, q>>
  BY DEF LineasDe

LEMMA LineaTipo ==
    ASSUME NEW h \in Seq(Operacion), NEW l \in LineasDe(h)
    PROVE  /\ l[1] \in 1 .. Len(h) /\ h[l[1]] \in Operacion
           /\ l[2] \in DOMAIN h[l[1]].lineas /\ l[2] \in Cuotas
           /\ l = <<l[1], l[2]>> /\ l # SinOriginal
           /\ Monto(h, l) \in Nat \ {0}
<1>1. PICK i \in 1 .. Len(h) : \E q \in DOMAIN h[i].lineas : l = <<i, q>>
  BY LineasIn
<1>2. h[i] \in Operacion
  OBVIOUS
<1>3. l # SinOriginal
  BY <1>1 DEF SinOriginal
<1>. QED BY <1>1, <1>2, <1>3, OperacionLineas DEF Monto

LEMMA LineasFinitas ==
    ASSUME NEW h \in Seq(Operacion)
    PROVE  IsFiniteSet(LineasDe(h))
<1>1. LineasDe(h) \subseteq (1 .. Len(h)) \X Cuotas
  BY LineaTipo
<1>2. IsFiniteSet((1 .. Len(h)) \X Cuotas)
  <2>1. IsFiniteSet(1 .. Len(h))
    BY FS_Interval
  <2>. QED BY <2>1, FS_Product, LedgerConstants
<1>. QED BY <1>1, <1>2, FS_Subset

LEMMA SignadoTipo ==
    ASSUME NEW h \in Seq(Operacion)
    PROVE  /\ Signado(h) \in [LineasDe(h) -> Int]
           /\ \A l \in LineasDe(h) :
                  Signado(h)[l] = IF Reversa(h[l[1]]) THEN -Monto(h, l) ELSE Monto(h, l)
<1>1. \A l \in LineasDe(h) : (IF Reversa(h[l[1]]) THEN -Monto(h, l) ELSE Monto(h, l)) \in Int
  BY LineaTipo
<1>. QED BY <1>1 DEF Signado

LEMMA netTipo ==
    ASSUME NEW h \in Seq(Operacion), NEW s \in SUBSET LineasDe(h)
    PROVE  /\ IsFiniteSet(s) /\ net(h, s) \in Int
<1>1. IsFiniteSet(s)
  BY LineasFinitas, FS_Subset
<1>. QED BY <1>1, SignadoTipo, SumType DEF net

(***************************************************************************)
(* What an operation at the end of the ledger changes of it.               *)
(***************************************************************************)

Delta(o, q) == IF q \notin DOMAIN o.lineas THEN 0
               ELSE IF Reversa(o) THEN -o.lineas[q] ELSE o.lineas[q]
Nuevas(h, o) == {<<Len(h) + 1, q>> : q \in DOMAIN o.lineas}

LEMMA LineasAppend ==
    ASSUME NEW h \in Seq(Operacion), NEW o \in Operacion
    PROVE  LET H == Append(h, o)
           IN  /\ H \in Seq(Operacion) /\ Len(H) = Len(h) + 1 /\ H[Len(h) + 1] = o
               /\ \A i \in 1 .. Len(h) : H[i] = h[i]
               /\ LineasDe(H) = LineasDe(h) \cup Nuevas(h, o)
               /\ LineasDe(h) \cap Nuevas(h, o) = {}
               /\ \A l \in LineasDe(h) : l[1] \in 1 .. Len(h) /\ H[l[1]] = h[l[1]] /\ Monto(H, l) = Monto(h, l)
<1>. DEFINE H == Append(h, o)
<1>1. /\ H \in Seq(Operacion) /\ Len(H) = Len(h) + 1 /\ H[Len(h) + 1] = o
      /\ \A i \in 1 .. Len(h) : H[i] = h[i]
  OBVIOUS
<1>. HIDE DEF H
<1>2. \A l \in LineasDe(h) : l[1] \in 1 .. Len(h) /\ H[l[1]] = h[l[1]] /\ Monto(H, l) = Monto(h, l)
  BY <1>1, LineaTipo DEF Monto
<1>3. LineasDe(h) \cap Nuevas(h, o) = {}
  BY <1>2 DEF Nuevas
<1>4. ASSUME NEW l PROVE l \in LineasDe(H) <=> l \in LineasDe(h) \cup Nuevas(h, o)
  <2>1. l \in LineasDe(H) <=> \E i \in 1 .. Len(h) + 1 : \E q \in DOMAIN H[i].lineas : l = <<i, q>>
    BY <1>1, LineasIn
  <2>2. l \in LineasDe(h) <=> \E i \in 1 .. Len(h) : \E q \in DOMAIN h[i].lineas : l = <<i, q>>
    BY LineasIn
  <2>3. l \in Nuevas(h, o) <=> \E q \in DOMAIN H[Len(h) + 1].lineas : l = <<Len(h) + 1, q>>
    BY <1>1 DEF Nuevas
  <2>4. 1 .. Len(h) + 1 = (1 .. Len(h)) \cup {Len(h) + 1}
    OBVIOUS
  <2>. QED BY <1>1, <2>1, <2>2, <2>3, <2>4
<1>. QED BY <1>1, <1>2, <1>3, <1>4 DEF H

\* What some lines of the longer ledger add up to: the old ones as before, and the new ones.
LEMMA netAppend ==
    ASSUME NEW h \in Seq(Operacion), NEW o \in Operacion,
           NEW s \in SUBSET LineasDe(Append(h, o))
    PROVE  /\ net(Append(h, o), s) = net(h, s \cap LineasDe(h)) + net(Append(h, o), s \cap Nuevas(h, o))
           /\ net(h, s \cap LineasDe(h)) \in Int
           /\ net(Append(h, o), s \cap Nuevas(h, o)) \in Int
<1>. DEFINE H == Append(h, o)
            a == s \cap LineasDe(h)
            b == s \cap Nuevas(h, o)
<1>1. /\ H \in Seq(Operacion) /\ LineasDe(H) = LineasDe(h) \cup Nuevas(h, o)
      /\ LineasDe(h) \cap Nuevas(h, o) = {}
      /\ \A l \in LineasDe(h) : H[l[1]] = h[l[1]] /\ Monto(H, l) = Monto(h, l)
  BY LineasAppend
<1>. HIDE DEF H
<1>2. /\ s = a \cup b /\ a \cap b = {}
      /\ a \subseteq LineasDe(h) /\ a \subseteq LineasDe(H) /\ b \subseteq LineasDe(H)
  BY <1>1 DEF H
<1>3. IsFiniteSet(a) /\ IsFiniteSet(b) /\ net(h, a) \in Int /\ net(H, b) \in Int
  <2>. HIDE DEF a, b
  <2>. QED BY <1>1, <1>2, netTipo
<1>4. Signado(H) \in [LineasDe(H) -> Int] /\ Signado(h) \in [LineasDe(h) -> Int]
  BY <1>1, SignadoTipo
<1>5. net(H, a \cup b) = net(H, a) + net(H, b)
  <2>. HIDE DEF a, b
  <2>. QED BY <1>2, <1>3, <1>4, SumUnion DEF net
<1>6. net(H, a) = net(h, a)
  <2>. HIDE DEF a
  <2>1. \A l \in a : Signado(H)[l] = Signado(h)[l]
    BY <1>1, <1>2, SignadoTipo
  <2>. QED BY <1>2, <1>3, <1>4, <2>1, SumCongruent DEF net
<1>. QED BY <1>2, <1>3, <1>5, <1>6 DEF H

\* A new line, and all of them.
LEMMA netNueva ==
    ASSUME NEW h \in Seq(Operacion), NEW o \in Operacion, NEW q \in DOMAIN o.lineas
    PROVE  /\ net(Append(h, o), {<<Len(h) + 1, q>>}) = Delta(o, q)
           /\ Delta(o, q) \in Int
<1>. DEFINE H == Append(h, o)
            l == <<Len(h) + 1, q>>
<1>1. /\ H \in Seq(Operacion) /\ H[Len(h) + 1] = o /\ l \in LineasDe(H)
  BY LineasAppend DEF Nuevas
<1>2. Monto(H, l) = o.lineas[q]
  BY <1>1 DEF Monto
<1>3. H[l[1]] = o
  BY <1>1
<1>. HIDE DEF H, l
<1>4. Signado(H)[l] = Delta(o, q)
  BY <1>1, <1>2, <1>3, SignadoTipo DEF Delta
<1>5. net(H, {l}) = Signado(H)[l]
  BY <1>1, SignadoTipo, SumSingleton DEF net
<1>6. Delta(o, q) \in Int
  BY <1>1, <1>4, SignadoTipo
<1>. QED BY <1>4, <1>5, <1>6 DEF H, l

LEMMA netNuevas ==
    ASSUME NEW h \in Seq(Operacion), NEW o \in Operacion, ~Reversa(o)
    PROVE  net(Append(h, o), Nuevas(h, o)) = Total(o.lineas)
<1>. DEFINE H == Append(h, o)
            C == DOMAIN o.lineas
            g == [q \in C |-> <<Len(h) + 1, q>>]
<1>1. /\ H \in Seq(Operacion) /\ H[Len(h) + 1] = o /\ Nuevas(h, o) \subseteq LineasDe(H)
  BY LineasAppend
<1>2. o.lineas \in [C -> Int] /\ IsFiniteSet(C)
  BY OperacionLineas, FS_Subset, LedgerConstants
<1>3. Signado(H) \in [LineasDe(H) -> Int]
  BY <1>1, SignadoTipo
<1>4. \A q \in C : g[q] \in LineasDe(H) /\ Signado(H)[g[q]] = o.lineas[q]
  <2>1. SUFFICES ASSUME NEW q \in C PROVE g[q] \in LineasDe(H) /\ Signado(H)[g[q]] = o.lineas[q]
    OBVIOUS
  <2>2. g[q] \in LineasDe(H) /\ H[g[q][1]] = o /\ Monto(H, g[q]) = o.lineas[q]
    BY <1>1 DEF Nuevas, Monto
  <2>. HIDE DEF g, H
  <2>. QED BY <1>1, <2>2, SignadoTipo
<1>5. \A q, r \in C : g[q] = g[r] => q = r
  OBVIOUS
<1>6. Nuevas(h, o) = {g[q] : q \in C}
  BY DEF Nuevas
<1>7. SumFunctionOnSet(Signado(H), {g[q] : q \in C}) = SumFunctionOnSet(o.lineas, C)
  <2>. HIDE DEF g, H, C
  <2>. QED BY <1>2, <1>3, <1>4, <1>5, SumImage
<1>. QED BY <1>6, <1>7 DEF net, Total, SumFunction

LEMMA NetoCuotaAppend ==
    ASSUME NEW h \in Seq(Operacion), NEW o \in Operacion, NEW q
    PROVE  /\ NetoCuota(Append(h, o), q) = NetoCuota(h, q) + Delta(o, q)
           /\ NetoCuota(h, q) \in Int /\ Delta(o, q) \in Int
<1>. DEFINE H == Append(h, o)
            s == {l \in LineasDe(H) : l[2] = q}
            b == s \cap Nuevas(h, o)
<1>1. LineasDe(H) = LineasDe(h) \cup Nuevas(h, o)
  BY LineasAppend
<1>2. s \cap LineasDe(h) = {l \in LineasDe(h) : l[2] = q}
  BY <1>1
<1>3. net(H, b) = Delta(o, q) /\ Delta(o, q) \in Int
  <2>1. CASE q \in DOMAIN o.lineas
    <3>1. b = {<<Len(h) + 1, q>>}
      BY <1>1, <2>1 DEF Nuevas
    <3>. QED BY <2>1, <3>1, netNueva
  <2>2. CASE q \notin DOMAIN o.lineas
    <3>1. b = {}
      BY <2>2 DEF Nuevas
    <3>2. net(H, {}) = 0
      BY LineasAppend, SignadoTipo, SumEmpty DEF net
    <3>3. Delta(o, q) = 0
      BY <2>2 DEF Delta
    <3>. HIDE DEF b
    <3>. QED BY <3>1, <3>2, <3>3
  <2>. QED BY <2>1, <2>2
<1>4. s \subseteq LineasDe(H)
  OBVIOUS
<1>5. NetoCuota(H, q) = net(H, s) /\ NetoCuota(h, q) = net(h, s \cap LineasDe(h))
  BY <1>2 DEF NetoCuota
<1>6. net(H, s) = net(h, s \cap LineasDe(h)) + net(H, b) /\ net(h, s \cap LineasDe(h)) \in Int /\ net(H, b) \in Int
  <2>. HIDE DEF s
  <2>. QED BY <1>4, netAppend
<1>. HIDE DEF s, b, H
<1>7. QED BY <1>3, <1>5, <1>6 DEF H

LEMMA ParteAppend ==
    ASSUME NEW h \in Seq(Operacion), NEW o \in Operacion, NEW p, NEW q
    PROVE  /\ Parte(Append(h, o), p, q) = Parte(h, p, q) + (IF p = o.pago THEN Delta(o, q) ELSE 0)
           /\ Parte(h, p, q) \in Int
<1>. DEFINE H == Append(h, o)
            s == {l \in LineasDe(H) : l[2] = q /\ H[l[1]].pago = p}
            b == s \cap Nuevas(h, o)
<1>1. /\ LineasDe(H) = LineasDe(h) \cup Nuevas(h, o) /\ H[Len(h) + 1] = o
      /\ \A l \in LineasDe(h) : H[l[1]] = h[l[1]]
  BY LineasAppend
<1>2. s \cap LineasDe(h) = {l \in LineasDe(h) : l[2] = q /\ h[l[1]].pago = p}
  BY <1>1
<1>3. net(H, b) = IF p = o.pago THEN Delta(o, q) ELSE 0
  <2>0. \A l \in Nuevas(h, o) : H[l[1]] = o
    BY <1>1 DEF Nuevas
  <2>1. CASE q \in DOMAIN o.lineas /\ p = o.pago
    <3>1. b = {<<Len(h) + 1, q>>}
      BY <1>1, <2>0, <2>1 DEF Nuevas
    <3>. QED BY <2>1, <3>1, netNueva
  <2>2. CASE ~(q \in DOMAIN o.lineas /\ p = o.pago)
    <3>1. b = {}
      BY <2>0, <2>2 DEF Nuevas
    <3>2. net(H, {}) = 0
      BY LineasAppend, SignadoTipo, SumEmpty DEF net
    <3>3. q \notin DOMAIN o.lineas => Delta(o, q) = 0
      BY DEF Delta
    <3>. HIDE DEF b
    <3>. QED BY <2>2, <3>1, <3>2, <3>3
  <2>. QED BY <2>1, <2>2
<1>4. s \subseteq LineasDe(H)
  OBVIOUS
<1>5. Parte(H, p, q) = net(H, s) /\ Parte(h, p, q) = net(h, s \cap LineasDe(h))
  BY <1>2 DEF Parte
<1>6. net(H, s) = net(h, s \cap LineasDe(h)) + net(H, b) /\ net(h, s \cap LineasDe(h)) \in Int /\ net(H, b) \in Int
  <2>. HIDE DEF s
  <2>. QED BY <1>4, netAppend
<1>. HIDE DEF s, b, H
<1>7. QED BY <1>3, <1>5, <1>6 DEF H

LEMMA NetoPagoAppend ==
    ASSUME NEW h \in Seq(Operacion), NEW o \in Operacion, NEW p
    PROVE  /\ NetoPago(h, p) \in Int /\ NetoPago(Append(h, o), p) \in Int
           /\ p # o.pago => NetoPago(Append(h, o), p) = NetoPago(h, p)
           /\ p = o.pago /\ ~Reversa(o) => NetoPago(Append(h, o), p) = NetoPago(h, p) + Total(o.lineas)
           /\ p = o.pago /\ Reversa(o) /\ DOMAIN o.lineas = {o.original[2]} =>
                  NetoPago(Append(h, o), p) = NetoPago(h, p) - o.lineas[o.original[2]]
<1>. DEFINE H == Append(h, o)
            s == {l \in LineasDe(H) : H[l[1]].pago = p}
            b == s \cap Nuevas(h, o)
<1>1. /\ LineasDe(H) = LineasDe(h) \cup Nuevas(h, o) /\ H[Len(h) + 1] = o
      /\ \A l \in LineasDe(h) : H[l[1]] = h[l[1]]
  BY LineasAppend
<1>2. s \cap LineasDe(h) = {l \in LineasDe(h) : h[l[1]].pago = p}
  BY <1>1
<1>3. b = IF p = o.pago THEN Nuevas(h, o) ELSE {}
  BY <1>1 DEF Nuevas
<1>4. s \subseteq LineasDe(H)
  OBVIOUS
<1>5. NetoPago(H, p) = net(H, s) /\ NetoPago(h, p) = net(h, s \cap LineasDe(h))
  BY <1>2 DEF NetoPago
<1>6. net(H, s) = net(h, s \cap LineasDe(h)) + net(H, b) /\ net(h, s \cap LineasDe(h)) \in Int /\ net(H, b) \in Int
  <2>. HIDE DEF s
  <2>. QED BY <1>4, netAppend
<1>7. ASSUME p # o.pago PROVE NetoPago(H, p) = NetoPago(h, p)
  <2>1. net(H, {}) = 0
    BY LineasAppend, SignadoTipo, SumEmpty DEF net
  <2>. HIDE DEF s, b, H
  <2>. QED BY <1>3, <1>5, <1>6, <1>7, <2>1
<1>8. ASSUME p = o.pago, ~Reversa(o) PROVE NetoPago(H, p) = NetoPago(h, p) + Total(o.lineas)
  <2>1. net(H, Nuevas(h, o)) = Total(o.lineas)
    BY <1>8, netNuevas
  <2>. HIDE DEF s, b, H
  <2>. QED BY <1>3, <1>5, <1>6, <1>8, <2>1
<1>9. ASSUME p = o.pago, Reversa(o), DOMAIN o.lineas = {o.original[2]}
      PROVE  NetoPago(H, p) = NetoPago(h, p) - o.lineas[o.original[2]]
  <2>1. Nuevas(h, o) = {<<Len(h) + 1, o.original[2]>>}
    BY <1>9 DEF Nuevas
  <2>2. net(H, Nuevas(h, o)) = -o.lineas[o.original[2]] /\ o.lineas[o.original[2]] \in Int
    BY <1>9, <2>1, netNueva, OperacionLineas DEF Delta
  <2>. HIDE DEF s, b, H
  <2>3. NetoPago(H, p) = NetoPago(h, p) + net(H, Nuevas(h, o)) /\ NetoPago(h, p) \in Int
    BY <1>3, <1>5, <1>6, <1>9
  <2>. QED BY <2>2, <2>3
<1>10. NetoPago(h, p) \in Int /\ NetoPago(H, p) \in Int
  <2>. HIDE DEF s, b, H
  <2>. QED BY <1>5, <1>6
<1>. HIDE DEF H, s, b
<1>. QED BY <1>7, <1>8, <1>9, <1>10 DEF H

\* What a ledger promises about its reversals, and about what is left of its lines.
Propias(h) ==
    \A i \in DOMAIN h :
        Reversa(h[i]) => /\ h[i].original \in LineasDe(h) /\ h[i].original[1] < i
                         /\ ~Reversa(h[h[i].original[1]])
                         /\ h[h[i].original[1]].pago = h[i].pago
                         /\ DOMAIN h[i].lineas = {h[i].original[2]}
Cuadra(h) == \A l \in LineasDe(h) : ~Reversa(h[l[1]]) => Vivo(h, l) >= 0

LEMMA VivoTipo ==
    ASSUME NEW h \in Seq(Operacion), NEW l \in LineasDe(h)
    PROVE  Vivo(h, l) \in Int /\ net(h, Reversas(h, l)) \in Int
<1>1. Reversas(h, l) \subseteq LineasDe(h)
  BY DEF Reversas
<1>. QED BY <1>1, netTipo, LineaTipo DEF Vivo

\* A reversal takes of the line it names; an allocation takes of none.
LEMMA VivoAppend ==
    ASSUME NEW h \in Seq(Operacion), NEW o \in Operacion, NEW l \in LineasDe(h),
           Reversa(o) => DOMAIN o.lineas = {o.original[2]}
    PROVE  Vivo(Append(h, o), l) = Vivo(h, l) - (IF o.original = l THEN o.lineas[l[2]] ELSE 0)
<1>. DEFINE H == Append(h, o)
            s == Reversas(H, l)
            b == s \cap Nuevas(h, o)
<1>1. /\ LineasDe(H) = LineasDe(h) \cup Nuevas(h, o) /\ H[Len(h) + 1] = o
      /\ \A m \in LineasDe(h) : H[m[1]] = h[m[1]] /\ Monto(H, m) = Monto(h, m)
  BY LineasAppend
<1>2. s \cap LineasDe(h) = Reversas(h, l)
  BY <1>1 DEF Reversas
<1>3. s \subseteq LineasDe(H)
  BY DEF Reversas
<1>4. net(H, s) = net(h, Reversas(h, l)) + net(H, b)
  <2>. HIDE DEF s
  <2>. QED BY <1>2, <1>3, netAppend
<1>5. \A m \in Nuevas(h, o) : H[m[1]] = o
  BY <1>1 DEF Nuevas
<1>6. Monto(h, l) \in Int /\ net(h, Reversas(h, l)) \in Int
  BY VivoTipo, LineaTipo
<1>7. Vivo(H, l) = Monto(h, l) + net(H, s)
  BY <1>1 DEF Vivo
<1>8. CASE o.original = l
  <2>1. Reversa(o)
    BY <1>8, LineaTipo DEF Reversa
  <2>2. b = {<<Len(h) + 1, l[2]>>}
    <3>1. Nuevas(h, o) = {<<Len(h) + 1, l[2]>>}
      BY <1>8, <2>1 DEF Nuevas
    <3>2. b = Nuevas(h, o)
      BY <1>1, <1>5, <1>8 DEF Reversas
    <3>. QED BY <3>1, <3>2
  <2>3. net(H, b) = -o.lineas[l[2]] /\ o.lineas[l[2]] \in Int
    <3>. HIDE DEF b
    <3>. QED BY <1>8, <2>1, <2>2, netNueva, OperacionLineas DEF Delta
  <2>. HIDE DEF H, s, b
  <2>4. Vivo(H, l) = Vivo(h, l) - o.lineas[l[2]]
    BY <1>4, <1>6, <1>7, <2>3 DEF Vivo
  <2>. QED BY <1>8, <2>4 DEF H
<1>9. CASE o.original # l
  <2>1. b = {}
    BY <1>5, <1>9 DEF Reversas
  <2>2. net(H, {}) = 0
    BY LineasAppend, SignadoTipo, SumEmpty DEF net
  <2>. HIDE DEF H, s, b
  <2>3. Vivo(H, l) = Vivo(h, l)
    BY <1>4, <1>6, <1>7, <2>1, <2>2 DEF Vivo
  <2>4. Vivo(h, l) \in Int
    BY VivoTipo
  <2>. QED BY <1>9, <2>3, <2>4 DEF H
<1>. QED BY <1>8, <1>9

\* Nothing of a line that was just written is reversed.
LEMMA VivoNueva ==
    ASSUME NEW h \in Seq(Operacion), NEW o \in Operacion, NEW q \in DOMAIN o.lineas,
           Propias(h), ~Reversa(o)
    PROVE  Vivo(Append(h, o), <<Len(h) + 1, q>>) = o.lineas[q]
<1>. DEFINE H == Append(h, o)
            l == <<Len(h) + 1, q>>
<1>1. /\ H \in Seq(Operacion) /\ Len(H) = Len(h) + 1 /\ H[Len(h) + 1] = o
      /\ \A i \in 1 .. Len(h) : H[i] = h[i]
  BY LineasAppend
<1>2. Reversas(H, l) = {}
  <2>1. SUFFICES ASSUME NEW r \in LineasDe(H), H[r[1]].original = l PROVE FALSE
    BY DEF Reversas
  <2>2. r[1] \in 1 .. Len(h) + 1
    BY <1>1, LineaTipo
  <2>3. l # SinOriginal
    BY DEF SinOriginal
  <2>4. CASE r[1] = Len(h) + 1
    BY <1>1, <2>1, <2>3, <2>4 DEF Reversa
  <2>5. CASE r[1] \in 1 .. Len(h)
    <3>1. h[r[1]].original = l /\ Reversa(h[r[1]])
      BY <1>1, <2>1, <2>3, <2>5 DEF Reversa
    <3>2. l[1] < r[1]
      BY <2>5, <3>1 DEF Propias
    <3>. QED BY <2>5, <3>2
  <2>. QED BY <2>2, <2>4, <2>5
<1>3. net(H, {}) = 0
  BY LineasAppend, SignadoTipo, SumEmpty DEF net
<1>4. Monto(H, l) = o.lineas[q]
  BY <1>1 DEF Monto
<1>5. o.lineas[q] \in Int
  BY OperacionLineas
<1>. HIDE DEF H, l
<1>6. Vivo(H, l) = o.lineas[q]
  BY <1>2, <1>3, <1>4, <1>5 DEF Vivo
<1>. QED BY <1>6 DEF H, l

(***************************************************************************)
(* The parts of the payments: what the lines, the payments and the         *)
(* installments add up to are three ways of counting the same.             *)
(***************************************************************************)

LEMMA ParteTipo ==
    ASSUME NEW h \in Seq(Operacion)
    PROVE  /\ \A p, q : Parte(h, p, q) \in Int
           /\ \A p : NetoPago(h, p) \in Int
           /\ \A q : NetoCuota(h, q) \in Int
<1>1. \A s \in SUBSET LineasDe(h) : net(h, s) \in Int
  BY netTipo
<1>. QED BY <1>1 DEF Parte, NetoPago, NetoCuota

LEMMA PartesDePago ==
    ASSUME NEW h \in Seq(Operacion), NEW p
    PROVE  NetoPago(h, p) = SumFunctionOnSet([q \in Cuotas |-> Parte(h, p, q)], Cuotas)
<1>. DEFINE s == {l \in LineasDe(h) : h[l[1]].pago = p}
            k == [l \in s |-> l[2]]
            f == [q \in Cuotas |-> SumFunctionOnSet(Signado(h), {l \in s : k[l] = q})]
<1>1. s \subseteq LineasDe(h) /\ \A l \in s : k[l] \in Cuotas
  BY LineaTipo
<1>2. IsFiniteSet(s) /\ IsFiniteSet(Cuotas) /\ Signado(h) \in [LineasDe(h) -> Int]
  BY netTipo, SignadoTipo, LedgerConstants
<1>3. SumFunctionOnSet(Signado(h), s) = SumFunctionOnSet(f, Cuotas)
  <2>. HIDE DEF s, k
  <2>. QED BY <1>1, <1>2, SumFibres
<1>4. f = [q \in Cuotas |-> Parte(h, p, q)]
  <2>1. \A q \in Cuotas : {l \in s : k[l] = q} = {l \in LineasDe(h) : l[2] = q /\ h[l[1]].pago = p}
    OBVIOUS
  <2>. HIDE DEF s, k
  <2>. QED BY <2>1 DEF Parte, net
<1>. QED BY <1>3, <1>4 DEF NetoPago, net

LEMMA PartesDeCuota ==
    ASSUME NEW h \in Seq(Operacion), NEW q
    PROVE  NetoCuota(h, q) = SumFunctionOnSet([p \in Pagos |-> Parte(h, p, q)], Pagos)
<1>. DEFINE s == {l \in LineasDe(h) : l[2] = q}
            k == [l \in s |-> h[l[1]].pago]
            f == [p \in Pagos |-> SumFunctionOnSet(Signado(h), {l \in s : k[l] = p})]
<1>1. s \subseteq LineasDe(h) /\ \A l \in s : k[l] \in Pagos
  BY LineaTipo, OperacionLineas
<1>2. IsFiniteSet(s) /\ IsFiniteSet(Pagos) /\ Signado(h) \in [LineasDe(h) -> Int]
  BY netTipo, SignadoTipo, LedgerConstants
<1>3. SumFunctionOnSet(Signado(h), s) = SumFunctionOnSet(f, Pagos)
  <2>. HIDE DEF s, k
  <2>. QED BY <1>1, <1>2, SumFibres
<1>4. f = [p \in Pagos |-> Parte(h, p, q)]
  <2>1. \A p \in Pagos : {l \in s : k[l] = p} = {l \in LineasDe(h) : l[2] = q /\ h[l[1]].pago = p}
    OBVIOUS
  <2>. HIDE DEF s, k
  <2>. QED BY <2>1 DEF Parte, net
<1>. QED BY <1>3, <1>4 DEF NetoCuota, net

\* The allocations of payment p to installment q.
Altas(h, p, q) == {l \in LineasDe(h) : l[2] = q /\ h[l[1]].pago = p /\ ~Reversa(h[l[1]])}

LEMMA PartesVivas ==
    ASSUME NEW h \in Seq(Operacion), Propias(h), NEW p, NEW q
    PROVE  Parte(h, p, q) = SumFunctionOnSet([l \in Altas(h, p, q) |-> Vivo(h, l)], Altas(h, p, q))
<1>. DEFINE s == {l \in LineasDe(h) : l[2] = q /\ h[l[1]].pago = p}
            K == Altas(h, p, q)
            k == [l \in s |-> IF Reversa(h[l[1]]) THEN h[l[1]].original ELSE l]
            f == [a \in K |-> SumFunctionOnSet(Signado(h), {l \in s : k[l] = a})]
<1>1. ASSUME NEW l \in LineasDe(h), Reversa(h[l[1]])
      PROVE  /\ h[l[1]].original \in LineasDe(h) /\ h[l[1]].original[2] = l[2]
             /\ h[h[l[1]].original[1]].pago = h[l[1]].pago
             /\ ~Reversa(h[h[l[1]].original[1]])
  BY <1>1, LineaTipo DEF Propias
<1>2. s \subseteq LineasDe(h) /\ \A l \in s : k[l] \in K
  BY <1>1 DEF Altas
<1>3. IsFiniteSet(s) /\ IsFiniteSet(K)
  BY netTipo DEF Altas
<1>4. SumFunctionOnSet(Signado(h), s) = SumFunctionOnSet(f, K)
  <2>. HIDE DEF s, k, K
  <2>. QED BY <1>2, <1>3, SignadoTipo, SumFibres
<1>5. ASSUME NEW a \in K PROVE SumFunctionOnSet(Signado(h), {l \in s : k[l] = a}) = Vivo(h, a)
  <2>1. a \in LineasDe(h) /\ ~Reversa(h[a[1]]) /\ a \in s
    BY DEF Altas
  <2>2. {l \in s : k[l] = a} = Reversas(h, a) \cup {a} /\ a \notin Reversas(h, a)
    <3>1. \A l \in Reversas(h, a) : l \in LineasDe(h) /\ h[l[1]].original = a /\ Reversa(h[l[1]])
      BY <2>1, LineaTipo DEF Reversas, Reversa
    <3>2. \A l \in Reversas(h, a) : l \in s
      BY <1>1, <2>1, <3>1
    <3>3. \A l \in s : k[l] = a => l \in Reversas(h, a) \cup {a}
      BY DEF Reversas
    <3>4. \A l \in Reversas(h, a) \cup {a} : l \in s /\ k[l] = a
      BY <2>1, <3>1, <3>2
    <3>. HIDE DEF s, k
    <3>. QED BY <2>1, <3>1, <3>3, <3>4
  <2>3. /\ Reversas(h, a) \subseteq LineasDe(h) /\ IsFiniteSet(Reversas(h, a))
        /\ IsFiniteSet({a})
    BY <2>1, netTipo, FS_Singleton DEF Reversas
  <2>4. net(h, Reversas(h, a) \cup {a}) = net(h, Reversas(h, a)) + net(h, {a})
    <3>1. Reversas(h, a) \cap {a} = {} /\ {a} \subseteq LineasDe(h)
      BY <2>1, <2>2
    <3>. QED BY <2>3, <3>1, SignadoTipo, SumUnion DEF net
  <2>5. net(h, {a}) = Monto(h, a) /\ Monto(h, a) \in Int /\ net(h, Reversas(h, a)) \in Int
    BY <2>1, SignadoTipo, SumSingleton, LineaTipo, VivoTipo DEF net
  <2>6. net(h, Reversas(h, a) \cup {a}) = Vivo(h, a)
    BY <2>4, <2>5 DEF Vivo
  <2>. QED BY <2>2, <2>6 DEF net
<1>6. f = [l \in K |-> Vivo(h, l)]
  <2>. HIDE DEF s, k, K
  <2>. QED BY <1>5
<1>. QED BY <1>4, <1>6 DEF Parte, net

\* A payment has a part against an installment as long as something of one of its
\* allocations is left, and never less than nothing.
LEMMA ParteSigno ==
    ASSUME NEW h \in Seq(Operacion), Propias(h), Cuadra(h), NEW p, NEW q
    PROVE  /\ Parte(h, p, q) \in Int /\ Parte(h, p, q) >= 0
           /\ Parte(h, p, q) > 0 <=> \E l \in Altas(h, p, q) : Vivo(h, l) > 0
<1>. DEFINE K == Altas(h, p, q)
            f == [l \in K |-> Vivo(h, l)]
<1>1. IsFiniteSet(K) /\ f \in [K -> Int] /\ \A l \in K : f[l] = Vivo(h, l) /\ f[l] >= 0
  <2>1. \A l \in K : Vivo(h, l) \in Int /\ Vivo(h, l) >= 0
    BY VivoTipo DEF Altas, Cuadra
  <2>2. IsFiniteSet(K)
    BY netTipo DEF Altas
  <2>. QED BY <2>1, <2>2
<1>2. Parte(h, p, q) = SumFunctionOnSet(f, K)
  BY PartesVivas
<1>. HIDE DEF K, f
<1>3. /\ SumFunctionOnSet(f, K) >= 0
      /\ SumFunctionOnSet(f, K) > 0 <=> \E l \in K : f[l] > 0
  BY <1>1, SumNat
<1>. QED BY <1>1, <1>2, <1>3, ParteTipo DEF K

\* The day of an installment, by the lines that are alive or by the parts that are left.
Dias(h, q) == {DiaPago[p] : p \in {p \in Pagos : Parte(h, p, q) > 0}}

LEMMA FechaEsDias ==
    ASSUME NEW h \in Seq(Operacion), Propias(h), Cuadra(h), NEW q
    PROVE  Fecha(h, q) = IF NetoCuota(h, q) = MontoCuota[q] THEN Max(Dias(h, q)) ELSE 0
<1>. DEFINE vivas == {l \in LineasDe(h) : l[2] = q /\ ~Reversa(h[l[1]]) /\ Vivo(h, l) > 0}
            dias == {DiaPago[h[l[1]].pago] : l \in vivas}
<1>1. ASSUME NEW l \in vivas PROVE h[l[1]].pago \in Pagos /\ Parte(h, h[l[1]].pago, q) > 0
  <2>1. h[l[1]].pago \in Pagos
    BY LineaTipo, OperacionLineas
  <2>2. l \in Altas(h, h[l[1]].pago, q) /\ Vivo(h, l) > 0
    BY DEF Altas
  <2>. QED BY <2>1, <2>2, ParteSigno
<1>2. ASSUME NEW p \in Pagos, Parte(h, p, q) > 0 PROVE \E l \in vivas : h[l[1]].pago = p
  <2>1. PICK l \in Altas(h, p, q) : Vivo(h, l) > 0
    BY <1>2, ParteSigno
  <2>2. l \in vivas /\ h[l[1]].pago = p
    BY <2>1 DEF Altas
  <2>. QED BY <2>2
<1>3. dias = Dias(h, q)
  <2>. HIDE DEF vivas
  <2>. QED BY <1>1, <1>2 DEF Dias
<1>. QED BY <1>3 DEF Fecha

LEMMA DiasTipo ==
    ASSUME NEW h \in Seq(Operacion), Propias(h), Cuadra(h), NEW q \in Cuotas,
           NetoCuota(h, q) = MontoCuota[q]
    PROVE  Max(Dias(h, q)) \in Nat
<1>. DEFINE f == [p \in Pagos |-> Parte(h, p, q)]
            A == {p \in Pagos : Parte(h, p, q) > 0}
<1>1. f \in [Pagos -> Int] /\ IsFiniteSet(Pagos) /\ \A p \in Pagos : f[p] = Parte(h, p, q) /\ f[p] >= 0
  BY ParteSigno, LedgerConstants
<1>2. SumFunctionOnSet(f, Pagos) > 0
  BY PartesDeCuota, LedgerConstants
<1>3. \E p \in Pagos : f[p] > 0
  <2>. HIDE DEF f
  <2>. QED BY <1>1, <1>2, SumNat
<1>4. A # {} /\ IsFiniteSet(A)
  BY <1>1, <1>3, FS_Subset
<1>5. Dias(h, q) = {DiaPago[p] : p \in A}
  BY DEF Dias
<1>6. {DiaPago[p] : p \in A} \subseteq Nat /\ {DiaPago[p] : p \in A} # {}
  BY <1>4, LedgerConstants
<1>7. IsFiniteSet({DiaPago[p] : p \in A})
  <2>. HIDE DEF A
  <2>. QED BY <1>4, ImageFinite
<1>8. Max(Dias(h, q)) \in Dias(h, q) /\ Dias(h, q) \subseteq Nat
  <2>. HIDE DEF A
  <2>. QED BY <1>5, <1>6, <1>7, MaxIn
<1>. QED BY <1>8

(***************************************************************************)
(* An operation that was found compatible and admissible keeps the promises*)
(* of the ledger.                                                          *)
(***************************************************************************)

Caben(h) ==
    /\ \A p \in Pagos : NetoPago(h, p) <= MontoPago[p]
    /\ \A q \in Cuotas : NetoCuota(h, q) <= MontoCuota[q]

LEMMA PropiasAppend ==
    ASSUME NEW h \in Seq(Operacion), Propias(h), NEW o \in Operacion, Compatible(h, o)
    PROVE  Propias(Append(h, o))
<1>. DEFINE H == Append(h, o)
<1>1. /\ H \in Seq(Operacion) /\ Len(H) = Len(h) + 1 /\ H[Len(h) + 1] = o
      /\ \A i \in 1 .. Len(h) : H[i] = h[i]
      /\ LineasDe(h) \subseteq LineasDe(H)
      /\ \A l \in LineasDe(h) : l[1] \in 1 .. Len(h) /\ H[l[1]] = h[l[1]]
  BY LineasAppend
<1>. HIDE DEF H
<1>2. ASSUME NEW i \in 1 .. Len(h) + 1, Reversa(H[i])
      PROVE  /\ H[i].original \in LineasDe(H) /\ H[i].original[1] < i
             /\ ~Reversa(H[H[i].original[1]])
             /\ H[H[i].original[1]].pago = H[i].pago
             /\ DOMAIN H[i].lineas = {H[i].original[2]}
  <2>1. CASE i = Len(h) + 1
    BY <1>1, <1>2, <2>1 DEF Compatible
  <2>2. CASE i \in 1 .. Len(h)
    BY <1>1, <1>2, <2>2 DEF Propias
  <2>. QED BY <2>1, <2>2
<1>3. DOMAIN H = 1 .. Len(h) + 1
  BY <1>1
<1>4. Propias(H)
  BY <1>2, <1>3 DEF Propias
<1>. QED BY <1>4 DEF H

LEMMA CuadraAppend ==
    ASSUME NEW h \in Seq(Operacion), Propias(h), Cuadra(h), NEW o \in Operacion,
           Compatible(h, o), CabeEnOriginal(h, o)
    PROVE  Cuadra(Append(h, o))
<1>. DEFINE H == Append(h, o)
<1>1. /\ LineasDe(H) = LineasDe(h) \cup Nuevas(h, o) /\ H[Len(h) + 1] = o
      /\ \A l \in LineasDe(h) : H[l[1]] = h[l[1]]
  BY LineasAppend
<1>2. ASSUME NEW l \in LineasDe(h), ~Reversa(h[l[1]]) PROVE Vivo(H, l) >= 0
  <2>1. Vivo(H, l) = Vivo(h, l) - (IF o.original = l THEN o.lineas[l[2]] ELSE 0)
    BY VivoAppend DEF Compatible
  <2>2. Vivo(h, l) \in Int /\ Vivo(h, l) >= 0
    BY <1>2, VivoTipo DEF Cuadra
  <2>3. CASE o.original = l
    <3>1. Reversa(o) /\ l[2] \in DOMAIN o.lineas
      BY <2>3, LineaTipo DEF Reversa, Compatible
    <3>2. o.lineas[l[2]] <= Vivo(h, l) /\ o.lineas[l[2]] \in Int
      BY <2>3, <3>1, OperacionLineas DEF CabeEnOriginal
    <3>. QED BY <2>1, <2>2, <2>3, <3>2
  <2>4. CASE o.original # l
    BY <2>1, <2>2, <2>4
  <2>. QED BY <2>3, <2>4
<1>3. ASSUME NEW l \in Nuevas(h, o), ~Reversa(o) PROVE Vivo(H, l) >= 0
  <2>1. PICK q \in DOMAIN o.lineas : l = <<Len(h) + 1, q>>
    BY DEF Nuevas
  <2>2. Vivo(H, l) = o.lineas[q]
    BY <1>3, <2>1, VivoNueva
  <2>. QED BY <2>2, OperacionLineas
<1>4. \A l \in Nuevas(h, o) : H[l[1]] = o
  BY <1>1 DEF Nuevas
<1>. HIDE DEF H
<1>. QED BY <1>1, <1>2, <1>3, <1>4 DEF Cuadra, H

LEMMA CabenAppend ==
    ASSUME NEW h \in Seq(Operacion), Caben(h), NEW o \in Operacion,
           Compatible(h, o), CabeEnPago(h, o), CabeEnCuotas(h, o)
    PROVE  Caben(Append(h, o))
<1>. DEFINE H == Append(h, o)
<1>1. ASSUME NEW p \in Pagos PROVE NetoPago(H, p) <= MontoPago[p]
  <2>1. /\ NetoPago(h, p) \in Int /\ NetoPago(H, p) \in Int /\ MontoPago[p] \in Int
        /\ NetoPago(h, p) <= MontoPago[p]
    BY NetoPagoAppend, LedgerConstants DEF Caben
  <2>2. CASE p # o.pago
    BY <2>1, <2>2, NetoPagoAppend
  <2>3. CASE p = o.pago /\ ~Reversa(o)
    <3>1. NetoPago(H, p) = NetoPago(h, p) + Total(o.lineas)
      BY <2>3, NetoPagoAppend
    <3>2. Total(o.lineas) <= MontoPago[p] - NetoPago(h, p)
      BY <2>3 DEF CabeEnPago
    <3>3. Total(o.lineas) \in Int
      BY OperacionLineas, LedgerConstants, FS_Subset, SumType DEF Total, SumFunction
    <3>. HIDE DEF H
    <3>. QED BY <2>1, <3>1, <3>2, <3>3
  <2>4. CASE p = o.pago /\ Reversa(o)
    <3>1. NetoPago(H, p) = NetoPago(h, p) - o.lineas[o.original[2]]
      BY <2>4, NetoPagoAppend DEF Compatible
    <3>2. o.lineas[o.original[2]] \in Nat
      BY <2>4, OperacionLineas DEF Compatible
    <3>. HIDE DEF H
    <3>. QED BY <2>1, <3>1, <3>2
  <2>. QED BY <2>2, <2>3, <2>4
<1>2. ASSUME NEW q \in Cuotas PROVE NetoCuota(H, q) <= MontoCuota[q]
  <2>1. NetoCuota(H, q) = NetoCuota(h, q) + Delta(o, q) /\ NetoCuota(h, q) \in Int
    BY NetoCuotaAppend
  <2>2. NetoCuota(h, q) <= MontoCuota[q] /\ MontoCuota[q] \in Int
    BY LedgerConstants DEF Caben
  <2>3. CASE q \in DOMAIN o.lineas
    <3>1. o.lineas[q] \in Nat
      BY <2>3, OperacionLineas
    <3>2. (IF Reversa(o) THEN NetoCuota(h, q) - o.lineas[q] ELSE NetoCuota(h, q) + o.lineas[q]) <= MontoCuota[q]
      BY <2>2, <2>3 DEF CabeEnCuotas
    <3>. HIDE DEF H
    <3>. QED BY <2>1, <2>3, <3>1, <3>2 DEF Delta
  <2>4. CASE q \notin DOMAIN o.lineas
    <3>. HIDE DEF H
    <3>. QED BY <2>1, <2>2, <2>4 DEF Delta
  <2>. QED BY <2>3, <2>4
<1>. QED BY <1>1, <1>2 DEF Caben

(***************************************************************************)
(* The invariant: what it says of the rows, and of the calls.              *)
(***************************************************************************)

FilasTipo ==
    /\ libro \in Seq(Operacion) /\ Len(libro) <= MaxOperaciones
    /\ aprobado \subseteq Convenios
    /\ pagada \subseteq Cuotas
    /\ fechaPago \in [Cuotas -> Nat]
LlamadaTipo ==
    /\ fase \in [Invocaciones -> {"libre", "tx", "hecha"}]
    /\ peticion \in [Invocaciones -> Operacion \cup {SinPeticion}]
    /\ foto \in [Invocaciones -> [operaciones : 0 .. MaxOperaciones, aprobado : BOOLEAN]]
FilasInv == FilasTipo /\ LibroCuadra /\ CuotasAlDia /\ ReversasPropias /\ Limites
LlamadaInv == LlamadaTipo /\ RespuestaVeraz /\ EnCurso

LEMMA LedgerInvPartes == LedgerInv <=> FilasInv /\ LlamadaInv
  BY DEF LedgerInv, LedgerTypeOK, FilasInv, LlamadaInv, FilasTipo, LlamadaTipo

LEMMA FilasQuietas ==
    ASSUME FilasInv, UNCHANGED filas
    PROVE  FilasInv'
  BY DEF FilasInv, filas, FilasTipo, LibroCuadra, CuotasAlDia, ReversasPropias, Limites

\* An operation that is registered is so once.
LEMMA RegistradaUnaVez ==
    ASSUME NEW h \in Seq(Operacion), NEW o,
           \A i, j \in DOMAIN h : h[i].clave = h[j].clave => i = j
    PROVE  Cardinality({i \in DOMAIN h : h[i] = o}) = 1 <=> \E i \in DOMAIN h : h[i] = o
<1>. DEFINE s == {i \in DOMAIN h : h[i] = o}
<1>1. ASSUME Cardinality(s) = 1 PROVE s # {}
  <2>1. Cardinality({}) = 0
    BY FS_EmptySet
  <2>. HIDE DEF s
  <2>. QED BY <1>1, <2>1
<1>2. ASSUME NEW i \in s PROVE Cardinality(s) = 1
  <2>1. \A j \in s : j = i
    OBVIOUS
  <2>2. s = {i}
    BY <2>1
  <2>. QED BY <2>2, FS_Singleton
<1>. QED BY <1>1, <1>2

LEMMA PeticionTipo ==
    ASSUME FilasTipo, NEW o \in Peticiones
    PROVE  o \in Operacion
<1>1. ASSUME NEW k \in Claves, NEW p \in Pagos, NEW q \in Cuotas, NEW m \in Lineas
      PROVE  Alta(k, q, p, m) \in Operacion
  <2>1. SinOriginal \in Original /\ ConvenioDe[q] \in Convenios
    BY LedgerConstants DEF Original
  <2>. QED BY <2>1 DEF Operacion, Alta
<1>2. ASSUME NEW k \in Claves, NEW l \in LineasDe(libro), NEW n \in 1 .. MaxMonto
      PROVE  Devolucion(k, l, n) \in Operacion
  <2>. DEFINE m == [q \in {l[2]} |-> n]
  <2>1. /\ l[1] \in 1 .. Len(libro) /\ l[2] \in Cuotas /\ l = <<l[1], l[2]>>
        /\ libro[l[1]].convenio \in Convenios /\ libro[l[1]].pago \in Pagos
    BY LineaTipo, OperacionLineas DEF FilasTipo
  <2>2. l \in Original
    <3>1. l[1] \in 1 .. MaxOperaciones
      BY <2>1, LedgerConstants DEF FilasTipo
    <3>2. <<l[1], l[2]>> \in (1 .. MaxOperaciones) \X Cuotas
      BY <2>1, <3>1
    <3>. QED BY <2>1, <3>2 DEF Original
  <2>3. m \in Lineas
    <3>1. n \in Int /\ n <= MaxMonto
      BY LedgerConstants
    <3>2. m \in [{l[2]} -> Int] /\ DOMAIN m = {l[2]} /\ m[l[2]] = n
      BY <3>1
    <3>3. Total(m) = n
      <4>. HIDE DEF m
      <4>1. SumFunctionOnSet(m, {l[2]}) = m[l[2]]
        BY <3>2, SumSingleton
      <4>. QED BY <3>2, <4>1 DEF Total, SumFunction
    <3>4. m \in [{l[2]} -> 1 .. MaxMonto] /\ {l[2]} \in (SUBSET Cuotas) \ {{}}
      BY <2>1
    <3>. HIDE DEF m
    <3>5. m \in UNION {[C -> 1 .. MaxMonto] : C \in (SUBSET Cuotas) \ {{}}}
      BY <3>4
    <3>. QED BY <3>1, <3>3, <3>5 DEF Lineas
  <2>. HIDE DEF m
  <2>4. [clave |-> k, convenio |-> libro[l[1]].convenio, pago |-> libro[l[1]].pago,
         original |-> l, lineas |-> m] \in Operacion
    BY <2>1, <2>2, <2>3 DEF Operacion
  <2>. QED BY <2>4 DEF m, Devolucion
<1>3. \/ \E k \in Claves, q \in Cuotas, p \in Pagos, m \in Lineas : o = Alta(k, q, p, m)
      \/ \E k \in Claves, l \in LineasDe(libro), n \in 1 .. MaxMonto : o = Devolucion(k, l, n)
  BY DEF Peticiones
<1>. QED BY <1>1, <1>2, <1>3, Zenon

\* The snapshot is what the ledger was when it was shorter.
LEMMA FotoPrefijo ==
    ASSUME FilasTipo, LlamadaTipo, EnCurso, NEW w \in Invocaciones
    PROVE  /\ Foto(w) \in Seq(Operacion) /\ Len(Foto(w)) = foto[w].operaciones
           /\ foto[w].operaciones \in 0 .. Len(libro)
           /\ \A i \in 1 .. foto[w].operaciones : Foto(w)[i] = libro[i]
           /\ ~Conflicto(w) => Foto(w) = libro
<1>. DEFINE n == foto[w].operaciones
<1>1. n \in 0 .. Len(libro)
  BY LedgerConstants DEF LlamadaTipo, EnCurso, FilasTipo
<1>2. \A i \in 1 .. n : libro[i] \in Operacion
  BY <1>1 DEF FilasTipo
<1>3. /\ SubSeq(libro, 1, n) \in Seq(Operacion)
      /\ Len(SubSeq(libro, 1, n)) = IF 1 <= n THEN n - 1 + 1 ELSE 0
      /\ \A i \in 1 .. n - 1 + 1 : SubSeq(libro, 1, n)[i] = libro[1 + i - 1]
  <2>. HIDE DEF n
  <2>1. 1 \in Int /\ n \in Int
    BY <1>1
  <2>. QED BY <1>2, <2>1, SubSeqProperties
<1>4. /\ Len(SubSeq(libro, 1, n)) = n
      /\ \A i \in 1 .. n : SubSeq(libro, 1, n)[i] = libro[i]
  <2>. HIDE DEF n
  <2>1. n - 1 + 1 = n /\ \A i \in 1 .. n : 1 + i - 1 = i
    BY <1>1
  <2>. QED BY <1>1, <1>3, <2>1
<1>5. ASSUME n = Len(libro) PROVE SubSeq(libro, 1, n) = libro
  <2>. HIDE DEF n
  <2>. QED BY <1>3, <1>4, <1>5, SeqEqual DEF FilasTipo
<1>. QED BY <1>1, <1>3, <1>4, <1>5 DEF Foto, Conflicto

LEMMA PedirStep ==
    ASSUME LedgerInv, NEW w \in Invocaciones, NEW o \in Peticiones, Pedir(w, o)
    PROVE  LedgerInv'
<1>. USE LedgerInvPartes
<1>1. FilasInv /\ LlamadaInv
  OBVIOUS
<1>2. FilasInv'
  BY <1>1, FilasQuietas DEF Pedir
<1>3. o \in Operacion
  BY <1>1, PeticionTipo DEF FilasInv
<1>4. NuevaFoto(o) \in [operaciones : 0 .. MaxOperaciones, aprobado : BOOLEAN]
  BY <1>1, LedgerConstants DEF NuevaFoto, FilasInv, FilasTipo
<1>5. LlamadaTipo'
  BY <1>1, <1>3, <1>4 DEF LlamadaInv, LlamadaTipo, Pedir
<1>6. RespuestaVeraz'
  BY <1>1 DEF LlamadaInv, LlamadaTipo, RespuestaVeraz, Pedir, filas
<1>7. EnCurso'
  <2>1. ASSUME NEW u \in Invocaciones
        PROVE  /\ foto'[u].operaciones <= Len(libro)
               /\ fase'[u] = "tx" => /\ peticion'[u] \in Operacion
                                     /\ foto'[u].aprobado => peticion'[u].convenio \in aprobado
    <3>1. CASE u = w
      <4>1. foto'[w] = NuevaFoto(o) /\ peticion'[w] = o /\ Len(libro) <= Len(libro)
        BY <1>1 DEF LlamadaInv, LlamadaTipo, Pedir, FilasInv, FilasTipo
      <4>2. NuevaFoto(o).operaciones = Len(libro) /\ (NuevaFoto(o).aprobado => o.convenio \in aprobado)
        BY DEF NuevaFoto
      <4>. QED BY <1>3, <3>1, <4>1, <4>2
    <3>2. CASE u # w
      BY <1>1, <3>2 DEF LlamadaInv, LlamadaTipo, EnCurso, Pedir
    <3>. QED BY <3>1, <3>2
  <2>. QED BY <2>1 DEF EnCurso, Pedir, filas
<1>. QED BY <1>2, <1>5, <1>6, <1>7 DEF LlamadaInv, LedgerInv, LedgerTypeOK, FilasInv, FilasTipo, LlamadaTipo

LEMMA RechazarStep ==
    ASSUME LedgerInv, NEW w \in Invocaciones, Rechazar(w)
    PROVE  LedgerInv'
<1>1. FilasInv /\ LlamadaInv
  BY LedgerInvPartes
<1>2. FilasInv'
  BY <1>1, FilasQuietas DEF Rechazar
<1>3. SinFoto \in [operaciones : 0 .. MaxOperaciones, aprobado : BOOLEAN]
  BY LedgerConstants DEF SinFoto
<1>4. LlamadaTipo'
  BY <1>1, <1>3 DEF LlamadaInv, LlamadaTipo, Rechazar
<1>5. RespuestaVeraz'
  BY <1>1 DEF LlamadaInv, LlamadaTipo, RespuestaVeraz, Rechazar, filas
<1>6. EnCurso'
  BY <1>1 DEF LlamadaInv, LlamadaTipo, EnCurso, Rechazar, SinFoto, filas, FilasInv, FilasTipo
<1>. QED BY <1>2, <1>4, <1>5, <1>6 DEF LlamadaInv, LedgerInv, LedgerTypeOK, FilasInv, FilasTipo, LlamadaTipo

LEMMA ReintentarStep ==
    ASSUME LedgerInv, NEW w \in Invocaciones, fase[w] = "tx", Reintentar(w)
    PROVE  LedgerInv'
<1>1. FilasInv /\ LlamadaInv
  BY LedgerInvPartes
<1>2. CASE Rechazar(w)
  BY <1>2, RechazarStep
<1>3. CASE /\ foto' = [foto EXCEPT ![w] = NuevaFoto(peticion[w])]
           /\ UNCHANGED <<filas, fase, peticion>>
  <2>1. FilasInv'
    BY <1>1, <1>3, FilasQuietas
  <2>2. peticion[w] \in Operacion
    BY <1>1 DEF LlamadaInv, EnCurso
  <2>3. NuevaFoto(peticion[w]) \in [operaciones : 0 .. MaxOperaciones, aprobado : BOOLEAN]
    BY <1>1, LedgerConstants DEF NuevaFoto, FilasInv, FilasTipo
  <2>4. LlamadaTipo'
    BY <1>1, <1>3, <2>3 DEF LlamadaInv, LlamadaTipo
  <2>5. RespuestaVeraz'
    BY <1>1, <1>3 DEF LlamadaInv, RespuestaVeraz, filas
  <2>6. EnCurso'
    BY <1>1, <1>3, LedgerConstants DEF LlamadaInv, LlamadaTipo, EnCurso, NuevaFoto, filas, FilasInv, FilasTipo
  <2>. QED BY <2>1, <2>4, <2>5, <2>6 DEF LlamadaInv, LedgerInv, LedgerTypeOK, FilasInv, FilasTipo, LlamadaTipo
<1>. QED BY <1>2, <1>3 DEF Reintentar

\* A request is told of an operation that the ledger holds; what it held it still holds.
LEMMA ConfirmarStep ==
    ASSUME LlamadaInv, FilasTipo, FilasInv', NEW w \in Invocaciones, fase[w] = "tx", Confirmar(w),
           \E i \in DOMAIN libro' : libro'[i] = peticion[w],
           Len(libro) <= Len(libro'), aprobado \subseteq aprobado',
           \A i \in DOMAIN libro : i \in DOMAIN libro' /\ libro'[i] = libro[i],
           LibroCuadra
    PROVE  LlamadaInv'
<1>1. SinFoto \in [operaciones : 0 .. MaxOperaciones, aprobado : BOOLEAN]
  BY LedgerConstants DEF SinFoto
<1>2. LlamadaTipo'
  BY <1>1 DEF LlamadaInv, LlamadaTipo, Confirmar
<1>3. RespuestaVeraz'
  <2>1. /\ libro \in Seq(Operacion) /\ libro' \in Seq(Operacion)
        /\ \A i, j \in DOMAIN libro : libro[i].clave = libro[j].clave => i = j
        /\ \A i, j \in DOMAIN libro' : libro'[i].clave = libro'[j].clave => i = j
    BY DEF FilasInv, FilasTipo, LibroCuadra
  <2>2. ASSUME NEW u \in Invocaciones, fase'[u] = "hecha"
        PROVE  \E i \in DOMAIN libro' : libro'[i] = peticion[u]
    <3>1. CASE u = w
      BY <3>1
    <3>2. CASE u # w
      <4>1. fase[u] = "hecha"
        BY <2>2, <3>2 DEF LlamadaInv, LlamadaTipo, Confirmar
      <4>2. Cardinality({i \in DOMAIN libro : libro[i] = peticion[u]}) = 1
        BY <4>1 DEF LlamadaInv, RespuestaVeraz
      <4>3. \E i \in DOMAIN libro : libro[i] = peticion[u]
        BY <2>1, <4>2, RegistradaUnaVez
      <4>. QED BY <4>3
    <3>. QED BY <3>1, <3>2
  <2>3. ASSUME NEW u \in Invocaciones, fase'[u] = "hecha"
        PROVE  Cardinality({i \in DOMAIN libro' : libro'[i] = peticion[u]}) = 1
    <3>1. \E i \in DOMAIN libro' : libro'[i] = peticion[u]
      BY <2>2, <2>3
    <3>2. Cardinality({i \in DOMAIN libro' : libro'[i] = peticion[u]}) = 1
              <=> \E i \in DOMAIN libro' : libro'[i] = peticion[u]
      BY ONLY <2>1, RegistradaUnaVez
    <3>. QED BY <3>1, <3>2
  <2>. QED BY <2>3 DEF RespuestaVeraz, Confirmar
<1>4. EnCurso'
  <2>1. ASSUME NEW u \in Invocaciones
        PROVE  /\ foto'[u].operaciones <= Len(libro')
               /\ fase'[u] = "tx" => /\ peticion'[u] \in Operacion
                                     /\ foto'[u].aprobado => peticion'[u].convenio \in aprobado'
    <3>1. CASE u = w
      <4>1. foto'[u].operaciones = 0 /\ fase'[u] # "tx"
        BY <3>1 DEF LlamadaInv, LlamadaTipo, Confirmar, SinFoto
      <4>2. Len(libro') \in Nat
        BY DEF FilasInv, FilasTipo
      <4>. QED BY <4>1, <4>2
    <3>2. CASE u # w
      <4>1. foto'[u] = foto[u] /\ fase'[u] = fase[u] /\ peticion'[u] = peticion[u]
        BY <3>2 DEF LlamadaInv, LlamadaTipo, Confirmar
      <4>2. foto[u].operaciones \in Nat /\ foto[u].operaciones <= Len(libro)
        BY DEF LlamadaInv, LlamadaTipo, EnCurso
      <4>3. Len(libro) \in Nat /\ Len(libro') \in Nat
        BY DEF FilasInv, FilasTipo
      <4>4. foto'[u].operaciones <= Len(libro')
        BY <4>1, <4>2, <4>3
      <4>. QED BY <4>1, <4>4 DEF LlamadaInv, EnCurso
    <3>. QED BY <3>1, <3>2
  <2>. QED BY <2>1 DEF EnCurso
<1>. QED BY <1>2, <1>3, <1>4 DEF LlamadaInv

LEMMA LedgerInvPartesPrima == LedgerInv' <=> FilasInv' /\ LlamadaInv'
  BY DEF LedgerInv, LedgerTypeOK, FilasInv, LlamadaInv, FilasTipo, LlamadaTipo

LEMMA RepetirStep ==
    ASSUME LedgerInv, NEW w \in Invocaciones, fase[w] = "tx", Repetir(w, Foto(w), peticion[w])
    PROVE  LedgerInv'
<1>1. FilasInv /\ LlamadaInv
  BY LedgerInvPartes
<1>2. PICK i \in Anterior(Foto(w), peticion[w].clave) :
         \/ Foto(w)[i] = peticion[w] /\ Confirmar(w) /\ UNCHANGED filas
         \/ Foto(w)[i] # peticion[w] /\ Rechazar(w)
  BY DEF Repetir
<1>3. CASE Rechazar(w)
  BY <1>3, RechazarStep
<1>4. CASE Foto(w)[i] = peticion[w] /\ Confirmar(w) /\ UNCHANGED filas
  <2>1. FilasInv' /\ libro' = libro /\ aprobado' = aprobado
    BY <1>1, <1>4, FilasQuietas DEF filas
  <2>2. i \in DOMAIN libro /\ libro[i] = peticion[w] /\ Len(libro) \in Nat
    <3>1. /\ Foto(w) \in Seq(Operacion) /\ Len(Foto(w)) \in 0 .. Len(libro)
          /\ \A j \in 1 .. Len(Foto(w)) : Foto(w)[j] = libro[j]
      BY <1>1, FotoPrefijo DEF FilasInv, LlamadaInv
    <3>2. i \in 1 .. Len(Foto(w))
      BY <3>1 DEF Anterior
    <3>. QED BY <1>1, <1>4, <3>1, <3>2 DEF FilasInv, FilasTipo
  <2>3. LlamadaInv'
    BY <1>1, <1>4, <2>1, <2>2, ConfirmarStep DEF FilasInv
  <2>. QED BY <2>1, <2>3, LedgerInvPartesPrima
<1>. QED BY <1>2, <1>3, <1>4

LEMMA FilasInvDe ==
    /\ FilasInv <=> /\ FilasTipo /\ CuotasAlDia
                    /\ Cuadra(libro) /\ Propias(libro) /\ Caben(libro)
                    /\ \A i, j \in DOMAIN libro : libro[i].clave = libro[j].clave => i = j
                    /\ \A i \in DOMAIN libro : libro[i].convenio \in aprobado
    /\ FilasInv' <=> /\ FilasTipo' /\ CuotasAlDia'
                     /\ Cuadra(libro') /\ Propias(libro') /\ Caben(libro')
                     /\ \A i, j \in DOMAIN libro' : libro'[i].clave = libro'[j].clave => i = j
                     /\ \A i \in DOMAIN libro' : libro'[i].convenio \in aprobado'
  BY DEF FilasInv, LibroCuadra, ReversasPropias, Limites, Cuadra, Propias, Caben

\* The operation is written: what its rows say follows from the ledger it makes.
LEMMA RegistrarStep ==
    ASSUME LedgerInv, NEW w \in Invocaciones, NEW o, o = peticion[w], fase[w] = "tx",
           Compatible(Foto(w), o), Anterior(Foto(w), o.clave) = {}, Admisible(w, Foto(w), o),
           ~Conflicto(w), Registrar(w, o)
    PROVE  /\ LedgerInv' /\ o \in Operacion /\ Propias(libro) /\ Compatible(libro, o)
           /\ libro \in Seq(Operacion) /\ libro' = Append(libro, o)
<1>1. FilasInv /\ LlamadaInv /\ FilasTipo
  BY LedgerInvPartes DEF FilasInv
<1>2. Foto(w) = libro
  BY <1>1, FotoPrefijo DEF LlamadaInv
<1>3. /\ Compatible(libro, o) /\ Anterior(libro, o.clave) = {}
      /\ CabeEnOriginal(libro, o) /\ CabeEnPago(libro, o) /\ CabeEnCuotas(libro, o)
      /\ foto[w].aprobado
  BY <1>2 DEF Admisible
<1>4. o \in Operacion /\ o.convenio \in aprobado
  BY <1>1, <1>3 DEF LlamadaInv, EnCurso
<1>5. /\ libro \in Seq(Operacion) /\ Propias(libro) /\ Cuadra(libro) /\ Caben(libro)
      /\ \A i, j \in DOMAIN libro : libro[i].clave = libro[j].clave => i = j
      /\ \A i \in DOMAIN libro : libro[i].convenio \in aprobado
  BY <1>1, FilasInvDe DEF FilasTipo
<1>6. libro' = Append(libro, o) /\ aprobado' = aprobado
  BY DEF Registrar
<1>7. /\ libro' \in Seq(Operacion) /\ Len(libro') = Len(libro) + 1 /\ libro'[Len(libro) + 1] = o
      /\ \A i \in 1 .. Len(libro) : libro'[i] = libro[i]
  BY <1>4, <1>5, <1>6, LineasAppend
<1>8. Propias(libro') /\ Cuadra(libro') /\ Caben(libro')
  BY <1>3, <1>4, <1>5, <1>6, PropiasAppend, CuadraAppend, CabenAppend
<1>9. \A i, j \in DOMAIN libro' : libro'[i].clave = libro'[j].clave => i = j
  <2>1. \A i \in 1 .. Len(libro) : libro[i].clave # o.clave
    BY <1>3, <1>5 DEF Anterior
  <2>2. DOMAIN libro' = (1 .. Len(libro)) \cup {Len(libro) + 1} /\ DOMAIN libro = 1 .. Len(libro)
    BY <1>5, <1>7
  <2>. QED BY <1>5, <1>7, <2>1, <2>2
<1>10. \A i \in DOMAIN libro' : libro'[i].convenio \in aprobado'
  <2>1. DOMAIN libro' = (1 .. Len(libro)) \cup {Len(libro) + 1} /\ DOMAIN libro = 1 .. Len(libro)
    BY <1>5, <1>7
  <2>. QED BY <1>4, <1>5, <1>6, <1>7, <2>1
<1>11. ASSUME NEW q \in Cuotas
       PROVE  /\ Fecha(libro', q) \in Nat
              /\ Fecha(libro', q) = IF NetoCuota(libro', q) = MontoCuota[q] THEN Max(Dias(libro', q)) ELSE 0
  BY <1>7, <1>8, FechaEsDias, DiasTipo
<1>12. FilasTipo'
  <2>1. Len(libro') <= MaxOperaciones
    BY <1>5, <1>7, LedgerConstants DEF Registrar
  <2>2. fechaPago' \in [Cuotas -> Nat]
    BY <1>1, <1>11 DEF Registrar, FilasTipo
  <2>3. pagada' \subseteq Cuotas
    BY DEF Registrar
  <2>. QED BY <1>1, <1>6, <1>7, <2>1, <2>2, <2>3 DEF FilasTipo
<1>13. CuotasAlDia'
  <2>1. ASSUME NEW q \in Cuotas
        PROVE  /\ q \in pagada' <=> NetoCuota(libro', q) = MontoCuota[q]
               /\ fechaPago'[q] = IF q \in pagada' THEN Max(Dias(libro', q)) ELSE 0
    <3>1. CASE q \in DOMAIN o.lineas
      <4>1. q \in pagada' <=> NetoCuota(libro', q) = MontoCuota[q]
        BY <3>1 DEF Registrar
      <4>2. fechaPago'[q] = Fecha(libro', q)
        BY <3>1 DEF Registrar
      <4>. QED BY <1>11, <4>1, <4>2
    <3>2. CASE q \notin DOMAIN o.lineas
      <4>1. Delta(o, q) = 0
        BY <3>2 DEF Delta
      <4>2. NetoCuota(libro', q) = NetoCuota(libro, q)
        BY <1>4, <1>5, <1>6, <4>1, NetoCuotaAppend
      <4>3. \A p : Parte(libro', p, q) = Parte(libro, p, q)
        BY <1>4, <1>5, <1>6, <4>1, ParteAppend
      <4>4. Dias(libro', q) = Dias(libro, q)
        BY <4>3 DEF Dias
      <4>5. (q \in pagada' <=> q \in pagada) /\ fechaPago'[q] = fechaPago[q]
        BY <3>2 DEF Registrar
      <4>6. /\ q \in pagada <=> NetoCuota(libro, q) = MontoCuota[q]
            /\ fechaPago[q] = IF q \in pagada THEN Max(Dias(libro, q)) ELSE 0
        BY <1>1 DEF FilasInv, CuotasAlDia, Dias
      <4>. QED BY <4>2, <4>4, <4>5, <4>6
    <3>. QED BY <3>1, <3>2
  <2>. QED BY <2>1 DEF CuotasAlDia, Dias
<1>14. FilasInv'
  BY <1>8, <1>9, <1>10, <1>12, <1>13, FilasInvDe
<1>15. LlamadaInv'
  <2>1. /\ \E i \in DOMAIN libro' : libro'[i] = peticion[w]
        /\ Len(libro) <= Len(libro')
        /\ \A i \in DOMAIN libro : i \in DOMAIN libro' /\ libro'[i] = libro[i]
    <3>1. DOMAIN libro' = 1 .. Len(libro) + 1 /\ DOMAIN libro = 1 .. Len(libro) /\ Len(libro) \in Nat
      BY <1>5, <1>7
    <3>. QED BY <1>7, <3>1
  <2>2. Confirmar(w) /\ aprobado \subseteq aprobado' /\ LibroCuadra
    BY <1>1 DEF Registrar, FilasInv
  <2>. QED BY <1>1, <1>14, <2>1, <2>2, ConfirmarStep
<1>. QED BY <1>3, <1>4, <1>5, <1>6, <1>14, <1>15, LedgerInvPartesPrima

LEMMA ApproveAgreementStep ==
    ASSUME LedgerInv, NEW c \in Convenios, ApproveAgreement(c)
    PROVE  LedgerInv'
<1>1. LedgerTypeOK'
  BY DEF LedgerInv, LedgerTypeOK, ApproveAgreement, llamada
<1>2. LibroCuadra' /\ CuotasAlDia' /\ ReversasPropias' /\ Limites'
  BY DEF LedgerInv, ApproveAgreement, LibroCuadra, CuotasAlDia, ReversasPropias, Limites
<1>3. RespuestaVeraz'
  BY DEF LedgerInv, ApproveAgreement, RespuestaVeraz, llamada
<1>4. EnCurso'
  BY DEF LedgerInv, ApproveAgreement, EnCurso, llamada
<1>. QED BY <1>1, <1>2, <1>3, <1>4 DEF LedgerInv

LEMMA QuietaStep ==
    ASSUME LedgerInv, UNCHANGED ledgerVars
    PROVE  LedgerInv'
<1>1. FilasInv' /\ LlamadaInv
  BY LedgerInvPartes, FilasQuietas DEF ledgerVars
<1>2. LlamadaInv'
  BY <1>1 DEF LlamadaInv, LlamadaTipo, RespuestaVeraz, EnCurso, ledgerVars, llamada, filas
<1>. QED BY <1>1, <1>2, LedgerInvPartesPrima

LEMMA LedgerInitInv ==
    ASSUME LedgerInit
    PROVE  LedgerInv
<1>1. /\ libro \in Seq(Operacion) /\ Len(libro) = 0 /\ DOMAIN libro = {} /\ LineasDe(libro) = {}
  BY DEF LedgerInit, LineasDe
<1>2. \A p, q : Parte(libro, p, q) = 0 /\ NetoPago(libro, p) = 0 /\ NetoCuota(libro, q) = 0
  <2>1. net(libro, {}) = 0
    BY <1>1, SignadoTipo, SumEmpty DEF net
  <2>. QED BY <1>1, <2>1 DEF Parte, NetoPago, NetoCuota
<1>3. FilasTipo
  BY <1>1, LedgerConstants DEF LedgerInit, FilasTipo
<1>4. CuotasAlDia
  BY <1>2, LedgerConstants DEF LedgerInit, CuotasAlDia
<1>5. LibroCuadra /\ ReversasPropias
  BY <1>1 DEF LibroCuadra, ReversasPropias
<1>6. Limites
  BY <1>2, LedgerConstants DEF Limites
<1>7. LlamadaInv
  BY <1>1, LedgerConstants DEF LedgerInit, LlamadaInv, LlamadaTipo, RespuestaVeraz, EnCurso, SinFoto
<1>. QED BY <1>3, <1>4, <1>5, <1>6, <1>7, LedgerInvPartes DEF FilasInv

\* One transaction, whatever becomes of it.
LEMMA writeStep ==
    ASSUME LedgerInv, NEW w \in Invocaciones, write(w)
    PROVE  LedgerInv'
<1>. DEFINE h == Foto(w)
            o == peticion[w]
<1>0. fase[w] = "tx"
  BY DEF write
<1>1. CASE Rechazar(w)
  BY <1>1, RechazarStep
<1>2. CASE Repetir(w, h, o)
  BY <1>0, <1>2, RepetirStep
<1>3. CASE /\ Compatible(h, o) /\ Anterior(h, o.clave) = {} /\ Admisible(w, h, o)
           /\ IF Conflicto(w) THEN Reintentar(w) ELSE Registrar(w, o)
  BY <1>0, <1>3, ReintentarStep, RegistrarStep
<1>. QED BY <1>1, <1>2, <1>3 DEF write

\* The ledger of an invoice stays in balance, its installments follow it, and whoever is
\* told that an operation is registered finds it there once.
THEOREM LedgerCorrect == LedgerSpec => []LedgerInv
<1>1. LedgerInit => LedgerInv
  BY LedgerInitInv
<1>2. LedgerInv /\ [LedgerNext]_ledgerVars => LedgerInv'
  <2>1. SUFFICES ASSUME LedgerInv, [LedgerNext]_ledgerVars PROVE LedgerInv'
    OBVIOUS
  <2>2. ASSUME NEW w \in Invocaciones, NEW o \in Peticiones, Pedir(w, o) PROVE LedgerInv'
    BY <2>1, <2>2, PedirStep
  <2>3. ASSUME NEW w \in Invocaciones, write(w) PROVE LedgerInv'
    BY <2>1, <2>3, writeStep
  <2>4. ASSUME NEW w \in Invocaciones, Caer(w) PROVE LedgerInv'
    BY <2>1, <2>4, RechazarStep DEF Caer
  <2>5. ASSUME NEW c \in Convenios, ApproveAgreement(c) PROVE LedgerInv'
    BY <2>1, <2>5, ApproveAgreementStep
  <2>6. CASE UNCHANGED ledgerVars
    BY <2>1, <2>6, QuietaStep
  <2>. QED BY <2>1, <2>2, <2>3, <2>4, <2>5, <2>6 DEF LedgerNext
<1>. QED BY <1>1, <1>2, PTL DEF LedgerSpec

(***************************************************************************)
(* The ledger implements the allocation of the payments: an operation      *)
(* written is a part given or taken back, and every other step changes no  *)
(* part.                                                                   *)
(***************************************************************************)

Partes(h) == [p \in Pagos |-> [q \in Cuotas |-> Parte(h, p, q)]]

LEMMA PartesPosibles ==
    ASSUME NEW h \in Seq(Operacion), Propias(h), Cuadra(h), Caben(h)
    PROVE  Asignacion!Posible(Partes(h))
<1>1. \A p \in Pagos, q \in Cuotas : Partes(h)[p][q] >= 0
  BY ParteSigno DEF Partes
<1>2. ASSUME NEW p \in Pagos PROVE SumFunction(Partes(h)[p]) <= MontoPago[p]
  <2>1. Partes(h)[p] = [q \in Cuotas |-> Parte(h, p, q)]
    BY DEF Partes
  <2>2. SumFunction(Partes(h)[p]) = NetoPago(h, p)
    BY <2>1, PartesDePago DEF SumFunction
  <2>. QED BY <2>2 DEF Caben
<1>3. ASSUME NEW q \in Cuotas PROVE SumFunction([p \in Pagos |-> Partes(h)[p][q]]) <= MontoCuota[q]
  <2>1. [p \in Pagos |-> Partes(h)[p][q]] = [p \in Pagos |-> Parte(h, p, q)]
    BY DEF Partes
  <2>2. SumFunction([p \in Pagos |-> Partes(h)[p][q]]) = NetoCuota(h, q)
    BY <2>1, PartesDeCuota DEF SumFunction
  <2>. QED BY <2>2 DEF Caben
<1>4. ASSUME NEW m PROVE Asignacion!SumFunction(m) = SumFunction(m)
  BY DEF SumFunction, SumFunctionOnSet, FoldFunctionOnSet, MapThenFoldSet,
         Asignacion!SumFunction, Asignacion!SumFunctionOnSet, Asignacion!FoldFunctionOnSet,
         Asignacion!MapThenFoldSet
<1>. QED BY <1>1, <1>2, <1>3, <1>4 DEF Asignacion!Posible

\* What an operation adds to the parts: of its payment and its installments only.
LEMMA PartesAppend ==
    ASSUME NEW h \in Seq(Operacion), NEW o \in Operacion, Propias(h), Compatible(h, o)
    PROVE  LET m == Partes(h)
               n == Partes(Append(h, o))
           IN  /\ n # m
               /\ \A p \in Pagos \ {o.pago} : n[p] = m[p]
               /\ ~Reversa(o) => \A q \in Cuotas : n[o.pago][q] >= m[o.pago][q]
               /\ Reversa(o) => /\ o.original[2] \in Cuotas
                                /\ n[o.pago][o.original[2]] < m[o.pago][o.original[2]]
                                /\ \A q \in Cuotas \ {o.original[2]} : n[o.pago][q] = m[o.pago][q]
<1>. DEFINE m == Partes(h)
            n == Partes(Append(h, o))
<1>1. o.pago \in Pagos
  BY OperacionLineas
<1>2. ASSUME NEW p \in Pagos, NEW q \in Cuotas
      PROVE  m[p][q] \in Int /\ n[p][q] = m[p][q] + (IF p = o.pago THEN Delta(o, q) ELSE 0)
  BY ParteAppend DEF Partes
<1>3. ASSUME NEW q PROVE /\ q \notin DOMAIN o.lineas => Delta(o, q) = 0
                         /\ q \in DOMAIN o.lineas /\ ~Reversa(o) => Delta(o, q) \in Nat \ {0}
                         /\ q \in DOMAIN o.lineas /\ Reversa(o) => Delta(o, q) \in Int /\ Delta(o, q) < 0
  BY OperacionLineas DEF Delta
<1>4. PICK r \in DOMAIN o.lineas : r \in Cuotas
  BY OperacionLineas
<1>5. n # m
  <2>. HIDE DEF m, n
  <2>. QED BY <1>1, <1>2, <1>3, <1>4
<1>6. ASSUME NEW p \in Pagos \ {o.pago} PROVE n[p] = m[p]
  <2>1. \A q \in Cuotas : Parte(Append(h, o), p, q) = Parte(h, p, q)
    BY ParteAppend
  <2>. QED BY <2>1 DEF Partes
<1>7. ASSUME ~Reversa(o), NEW q \in Cuotas PROVE n[o.pago][q] >= m[o.pago][q]
  <2>. HIDE DEF m, n
  <2>. QED BY <1>1, <1>2, <1>3, <1>7
<1>8. ASSUME Reversa(o)
      PROVE  /\ o.original[2] \in Cuotas
             /\ n[o.pago][o.original[2]] < m[o.pago][o.original[2]]
             /\ \A q \in Cuotas \ {o.original[2]} : n[o.pago][q] = m[o.pago][q]
  <2>1. DOMAIN o.lineas = {o.original[2]} /\ o.original[2] \in Cuotas
    BY <1>8, OperacionLineas DEF Compatible
  <2>. HIDE DEF m, n
  <2>. QED BY <1>1, <1>2, <1>3, <1>8, <2>1
<1>. HIDE DEF m, n
<1>9. QED BY <1>5, <1>6, <1>7, <1>8 DEF m, n

\* The parts of the ledger are the state of the allocation, and its steps are these.
LEMMA AsignacionPasos ==
    ASSUME \/ libro' = libro
           \/ /\ Partes(libro') # Partes(libro)
              /\ Asignacion!Posible(Partes(libro'))
              /\ \/ \E p \in Pagos :
                        /\ \A q \in Cuotas : Partes(libro')[p][q] >= Partes(libro)[p][q]
                        /\ \A o \in Pagos \ {p} : Partes(libro')[o] = Partes(libro)[o]
                 \/ \E p \in Pagos, q \in Cuotas :
                        /\ Partes(libro')[p][q] < Partes(libro)[p][q]
                        /\ \A s \in Cuotas \ {q} : Partes(libro')[p][s] = Partes(libro)[p][s]
                        /\ \A o \in Pagos \ {p} : Partes(libro')[o] = Partes(libro)[o]
    PROVE  [Asignacion!Next]_(Partes(libro))
<1>1. [p \in Pagos |-> [q \in Cuotas |-> Parte(libro, p, q)]] = Partes(libro)
  BY DEF Partes
<1>2. [p \in Pagos |-> [q \in Cuotas |-> Parte(libro', p, q)]] = Partes(libro')
  BY DEF Partes
<1>3. CASE libro' = libro
  BY <1>3
<1>4. CASE libro' # libro
  BY <1>1, <1>2, <1>4, Zenon DEF Asignacion!Next, Asignacion!Imputar, Asignacion!Reversar
<1>. QED BY <1>3, <1>4

LEMMA RegistrarImplementa ==
    ASSUME LedgerInv, LedgerInv', NEW o \in Operacion, Propias(libro), Compatible(libro, o),
           libro \in Seq(Operacion), libro' = Append(libro, o)
    PROVE  [Asignacion!Next]_(Partes(libro))
<1>1. libro' \in Seq(Operacion) /\ Propias(libro') /\ Cuadra(libro') /\ Caben(libro')
  BY LedgerInvPartesPrima, FilasInvDe DEF FilasTipo
<1>2. Asignacion!Posible(Partes(libro'))
  BY <1>1, PartesPosibles
<1>3. o.pago \in Pagos
  BY OperacionLineas
<1>4. CASE ~Reversa(o)
  <2>1. /\ Partes(libro') # Partes(libro)
        /\ \A q \in Cuotas : Partes(libro')[o.pago][q] >= Partes(libro)[o.pago][q]
        /\ \A p \in Pagos \ {o.pago} : Partes(libro')[p] = Partes(libro)[p]
    BY <1>4, PartesAppend
  <2>. QED BY <1>2, <1>3, <2>1, AsignacionPasos
<1>5. CASE Reversa(o)
  <2>1. /\ Partes(libro') # Partes(libro) /\ o.original[2] \in Cuotas
        /\ Partes(libro')[o.pago][o.original[2]] < Partes(libro)[o.pago][o.original[2]]
        /\ \A q \in Cuotas \ {o.original[2]} : Partes(libro')[o.pago][q] = Partes(libro)[o.pago][q]
        /\ \A p \in Pagos \ {o.pago} : Partes(libro')[p] = Partes(libro)[p]
    BY <1>5, PartesAppend
  <2>. QED BY <1>2, <1>3, <2>1, AsignacionPasos
<1>. QED BY <1>4, <1>5

\* However the transactions interleave, are retried or repeated, an operation gives or takes
\* back a part of one payment, within what the payment and the installments allow.
THEOREM LedgerImplementsAllocation == LedgerSpec => ImplementsAllocation
<1>1. LedgerInit => Asignacion!Init
  <2>1. ASSUME LedgerInit PROVE \A p, q : Parte(libro, p, q) = 0
    <3>1. libro \in Seq(Operacion) /\ LineasDe(libro) = {}
      BY <2>1 DEF LedgerInit, LineasDe
    <3>2. net(libro, {}) = 0
      BY <3>1, SignadoTipo, SumEmpty DEF net
    <3>. QED BY <3>1, <3>2 DEF Parte
  <2>. QED BY <2>1 DEF Asignacion!Init
<1>2. LedgerInv /\ LedgerInv' /\ [LedgerNext]_ledgerVars => [Asignacion!Next]_(Partes(libro))
  <2>1. SUFFICES ASSUME LedgerInv, LedgerInv', [LedgerNext]_ledgerVars
                 PROVE  [Asignacion!Next]_(Partes(libro))
    OBVIOUS
  <2>2. CASE libro' = libro
    BY <2>2, AsignacionPasos
  <2>3. ASSUME NEW w \in Invocaciones, write(w), libro' # libro
        PROVE  [Asignacion!Next]_(Partes(libro))
    <3>. DEFINE h == Foto(w)
                o == peticion[w]
    <3>1. /\ fase[w] = "tx" /\ Compatible(h, o) /\ Anterior(h, o.clave) = {} /\ Admisible(w, h, o)
          /\ ~Conflicto(w) /\ Registrar(w, o)
      <4>1. ~Rechazar(w) /\ ~Repetir(w, h, o) /\ ~Reintentar(w)
        BY <2>3 DEF Rechazar, Repetir, Reintentar, filas
      <4>. QED BY <2>3, <4>1 DEF write
    <3>2. /\ o \in Operacion /\ Propias(libro) /\ Compatible(libro, o)
          /\ libro \in Seq(Operacion) /\ libro' = Append(libro, o)
      BY <2>1, <3>1, RegistrarStep
    <3>. QED BY <2>1, <3>2, RegistrarImplementa
  <2>4. CASE LedgerNext /\ libro' # libro
    BY <2>3, <2>4 DEF LedgerNext, Pedir, Caer, Rechazar, ApproveAgreement, filas
  <2>. QED BY <2>1, <2>2, <2>4 DEF ledgerVars, filas
<1>3. QED
  <2>1. LedgerSpec => []LedgerInv
    BY LedgerCorrect
  <2>2. LedgerInv /\ LedgerInv' /\ [LedgerNext]_ledgerVars =>
            [Asignacion!Next]_[p \in Pagos |-> [q \in Cuotas |-> Parte(libro, p, q)]]
    BY <1>2 DEF Partes
  <2>. QED BY <1>1, <2>1, <2>2, PTL DEF LedgerSpec, ImplementsAllocation, Asignacion!Spec
================================================================================
