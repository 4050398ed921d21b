---------------------------- MODULE G1Activation_proofs ----------------------------
(***************************************************************************)
(* Proofs about the activation owed to G1 after a closure, for every       *)
(* number of concurrent recoveries, explicit retries and failures.         *)
(***************************************************************************)
EXTENDS G1Activation, TLAPS

(***************************************************************************)
(* Type correctness.                                                       *)
(***************************************************************************)

\* The ways an invocation moves keep its local state typed; the record is never deleted.
LEMMA AvanzarTypes ==
    ASSUME InvocacionTypeOK, NEW w \in Workers, NEW s \in Pasos \ {"previa", "auditar", "marcar", "guardar"},
           Avanzar(w, s), estado # "NINGUNO" => estado' # "NINGUNO",
           s \notin SinRegistro => estado' # "NINGUNO"
    PROVE  InvocacionTypeOK'
  BY DEF InvocacionTypeOK, Avanzar

LEMMA SalirTypes ==
    ASSUME InvocacionTypeOK, NEW w \in Workers, Salir(w), estado # "NINGUNO" => estado' # "NINGUNO"
    PROVE  InvocacionTypeOK'
  BY DEF InvocacionTypeOK, Salir, Pasos, SinRegistro, Estados

LEMMA ConcluirTypes ==
    ASSUME InvocacionTypeOK, NEW w \in Workers,
           NEW e \in (Estados \cup {"PENDIENTE_CREACION"}) \ {"NINGUNO"}, NEW b \in BOOLEAN,
           Concluir(w, e, b), estado # "NINGUNO" => estado' # "NINGUNO"
    PROVE  InvocacionTypeOK'
<1>1. CASE explicito[w] BY <1>1, SalirTypes DEF Concluir
<1>2. CASE ~explicito[w]
  BY <1>2 DEF InvocacionTypeOK, Concluir, Pasos, SinRegistro
<1>3. QED BY <1>1, <1>2

LEMMA IrAAuditarTypes ==
    ASSUME InvocacionTypeOK, NEW w \in Workers, NEW e \in Estados \ {"NINGUNO"},
           IrAAuditar(w, e, "auditar"), estado' # "NINGUNO"
    PROVE  InvocacionTypeOK'
<1>1. CASE e \in SinResultado BY <1>1, ConcluirTypes DEF IrAAuditar
<1>2. CASE e \notin SinResultado
  BY <1>2 DEF IrAAuditar, InvocacionTypeOK, Pasos, SinRegistro
<1>3. QED BY <1>1, <1>2

\* What withOutcomeAudit writes are audit rows.
LEMMA EscribirTypes ==
    ASSUME RegistroTypeOK, InvocacionTypeOK, NEW w \in Workers, EscribirAuditoria(w)
    PROVE  auditoria' \subseteq [accion : Acciones, intento : Nat, http : Nat]
<1>1. acciones \subseteq Acciones BY DEF acciones, Acciones
<1>2. statusHttp(w) \in Nat BY DEF statusHttp, InvocacionTypeOK
<1>3. QED BY <1>1, <1>2 DEF EscribirAuditoria, RegistroTypeOK

\* In the initial state the record, the marker and every invocation have their types.
LEMMA TypeInit == Init => TypeOK
<1> SUFFICES ASSUME Init PROVE TypeOK
  OBVIOUS
<1>1. RegistroTypeOK BY DEF Init, RegistroTypeOK, Estados
<1>2. MarcadorTypeOK BY DEF Init, MarcadorTypeOK
<1>3. InvocacionTypeOK BY DEF Init, InvocacionTypeOK, Pasos, SinRegistro, Estados
<1>4. envios \in [BOOLEAN -> Nat] BY DEF Init
<1>5. QED BY <1>1, <1>2, <1>3, <1>4 DEF Init, TypeOK

\* Every step keeps them.
LEMMA TypeStep == TypeOK /\ [Next]_vars => TypeOK'
<1> SUFFICES ASSUME TypeOK, [Next]_vars PROVE TypeOK'
  OBVIOUS
<1> USE G1Constants DEF TypeOK, vars, registro, marcador, invocacion, remoto, Falla
<1>1. ASSUME NEW w \in Workers, RecoverPostClosure(w) PROVE TypeOK'
  <2>1. InvocacionTypeOK' BY <1>1, AvanzarTypes DEF RecoverPostClosure, Pasos, SinRegistro
  <2>2. QED BY <1>1, <2>1 DEF RecoverPostClosure, RegistroTypeOK, MarcadorTypeOK
<1>2. ASSUME NEW w \in Workers, AuditarG3(w) PROVE TypeOK'
  <2>1. InvocacionTypeOK' BY <1>2, AvanzarTypes, SalirTypes DEF AuditarG3, Pasos, SinRegistro
  <2>2. QED BY <1>2, <2>1 DEF AuditarG3, RegistroTypeOK, MarcadorTypeOK
<1>3. ASSUME NEW w \in Workers, AfterG3Completion(w) PROVE TypeOK'
  <2>1. estado' \in Estados \ {"NINGUNO"}
    BY <1>3 DEF AfterG3Completion, RegistroTypeOK, Estados, Iniciales
  <2>2. InvocacionTypeOK'
    <3>1. CASE IrAAuditar(w, estado', "auditar") BY <2>1, <3>1, IrAAuditarTypes
    <3>2. CASE Avanzar(w, "despachar") BY <2>1, <3>2, AvanzarTypes DEF Pasos
    <3>3. QED BY <1>3, <3>1, <3>2 DEF AfterG3Completion
  <2>3. QED BY <1>3, <2>1, <2>2 DEF AfterG3Completion, RegistroTypeOK, MarcadorTypeOK
<1>4. ASSUME NEW w \in Workers, MarcarG1(w) PROVE TypeOK'
  <2>1. InvocacionTypeOK' BY <1>4, SalirTypes DEF MarcarG1
  <2>2. out[w] \in (Estados \ {"NINGUNO"}) \cup {"PENDIENTE_CREACION"} /\ outPend[w] \in BOOLEAN
    BY <1>4 DEF MarcarG1, InvocacionTypeOK
  <2>3. MarcadorTypeOK' BY <1>4, <2>2 DEF MarcarG1, MarcadorTypeOK
  <2>4. QED BY <1>4, <2>1, <2>3 DEF MarcarG1, RegistroTypeOK
<1>5. ASSUME NEW w \in Workers, Retry(w) PROVE TypeOK'
  <2>1. InvocacionTypeOK' BY <1>5 DEF Retry, InvocacionTypeOK, Pasos, SinRegistro
  <2>2. QED BY <1>5, <2>1 DEF Retry, RegistroTypeOK, MarcadorTypeOK
<1>6. ASSUME NEW w \in Workers, Dispatch(w) PROVE TypeOK'
  <2>1. estado \in Estados \ {"NINGUNO"} /\ estado' = estado
    BY <1>6 DEF Dispatch, InvocacionTypeOK, RegistroTypeOK, SinRegistro
  <2>2. InvocacionTypeOK'
    <3>1. CASE IrAAuditar(w, estado, "auditar") BY <2>1, <3>1, IrAAuditarTypes
    <3>2. CASE Concluir(w, estado, TRUE) BY <2>1, <3>2, ConcluirTypes
    <3>3. CASE /\ pc' = [pc EXCEPT ![w] = IF intentos > 0 /\ estado # "ENVIANDO"
                                          THEN "previa" ELSE "reclamar"]
               /\ leido' = [leido EXCEPT ![w] = intentos]
               /\ out' = [out EXCEPT ![w] = estado]
               /\ UNCHANGED <<explicito, intento, resp, outPend>>
      BY <2>1, <3>3 DEF InvocacionTypeOK, RegistroTypeOK, Pasos, SinRegistro
    <3>4. QED BY <1>6, <3>1, <3>2, <3>3 DEF Dispatch
  <2>3. QED BY <1>6, <2>2 DEF Dispatch, RegistroTypeOK, MarcadorTypeOK
<1>7. ASSUME NEW w \in Workers, Claim(w) PROVE TypeOK'
  <2>1. estado \in Estados \ {"NINGUNO"}
    BY <1>7 DEF Claim, InvocacionTypeOK, RegistroTypeOK, SinRegistro
  <2>2. CASE Reclamable(w)
    <3>1. InvocacionTypeOK' BY <1>7, <2>2 DEF Claim, InvocacionTypeOK, Pasos, SinRegistro
    <3>2. RegistroTypeOK'
      <4>1. estado' \in Estados /\ intentos' \in Nat
        BY <1>7, <2>2 DEF Claim, RegistroTypeOK, Estados, SinResultado
      <4>2. vencida' \in BOOLEAN BY <1>7, <2>2 DEF Claim
      <4>3. QED BY <1>7, <4>1, <4>2 DEF Claim, RegistroTypeOK
    <3>3. QED BY <1>7, <3>1, <3>2 DEF Claim, MarcadorTypeOK
  <2>3. CASE ~Reclamable(w)
    <3>1. InvocacionTypeOK' BY <1>7, <2>1, <2>3, ConcluirTypes DEF Claim
    <3>2. QED BY <1>7, <2>3, <3>1 DEF Claim, RegistroTypeOK, MarcadorTypeOK
  <2>4. QED BY <2>2, <2>3
<1>8. ASSUME NEW w \in Workers, SendActivation(w) PROVE TypeOK'
  <2>1. PICK r \in Resultados :
          /\ resp' = [resp EXCEPT ![w] = r]
          /\ confirmados' \in {confirmados, confirmados \cup {intento[w]}}
    BY <1>8 DEF SendActivation
  <2>2. InvocacionTypeOK'
    BY <1>8, <2>1 DEF SendActivation, InvocacionTypeOK, Pasos, SinRegistro, Resultados
  <2>3. confirmados' \subseteq Nat BY <2>1 DEF InvocacionTypeOK
  <2>4. envios' \in [BOOLEAN -> Nat] BY <1>8 DEF SendActivation, InvocacionTypeOK
  <2>5. QED BY <1>8, <2>2, <2>3, <2>4 DEF SendActivation, RegistroTypeOK, MarcadorTypeOK
<1>9. ASSUME NEW w \in Workers, SaveOutcome(w) PROVE TypeOK'
  <2>1. resp[w] \in Resultados /\ estado \in Estados \ {"NINGUNO"}
    BY <1>9 DEF SaveOutcome, InvocacionTypeOK, RegistroTypeOK, SinRegistro
  <2>2. estado' \in Estados \ {"NINGUNO"}
    BY <1>9, <2>1 DEF SaveOutcome, Estados, Resultados
  <2>3. InvocacionTypeOK' BY <1>9, <2>2, AvanzarTypes DEF SaveOutcome, Pasos
  <2>4. QED BY <1>9, <2>2, <2>3 DEF SaveOutcome, RegistroTypeOK, MarcadorTypeOK
<1>10. ASSUME NEW w \in Workers, Releer(w) PROVE TypeOK'
  <2>1. estado \in Estados \ {"NINGUNO"}
    BY <1>10 DEF Releer, InvocacionTypeOK, RegistroTypeOK, SinRegistro
  <2>2. InvocacionTypeOK' BY <1>10, <2>1, IrAAuditarTypes DEF Releer
  <2>3. QED BY <1>10, <2>2 DEF Releer, RegistroTypeOK, MarcadorTypeOK
<1>11. ASSUME NEW w \in Workers, WithOutcomeAudit(w) PROVE TypeOK'
  <2>1. estado \in Estados \ {"NINGUNO"}
    BY <1>11 DEF WithOutcomeAudit, InvocacionTypeOK, RegistroTypeOK, SinRegistro
  <2>2. InvocacionTypeOK'
    <3>1. CASE Concluir(w, estado, TRUE) \/ Concluir(w, estado, FALSE)
      BY <1>11, <2>1, <3>1, ConcluirTypes DEF WithOutcomeAudit
    <3>2. CASE Avanzar(w, "reclamar")
      BY <1>11, <2>1, <3>2, AvanzarTypes DEF WithOutcomeAudit, Pasos
    <3>3. QED BY <1>11, <3>1, <3>2 DEF WithOutcomeAudit
  <2>3. auditoria' \subseteq [accion : Acciones, intento : Nat, http : Nat]
    BY <1>11, EscribirTypes DEF WithOutcomeAudit, RegistroTypeOK
  <2>4. QED BY <1>11, <2>2, <2>3 DEF WithOutcomeAudit, RegistroTypeOK, MarcadorTypeOK
<1>12. ASSUME NEW w \in Workers, FalloAuditoria(w) PROVE TypeOK'
  <2>1. {out[w], estado} \subseteq (Estados \cup {"PENDIENTE_CREACION"}) \ {"NINGUNO"}
    BY <1>12 DEF FalloAuditoria, InvocacionTypeOK, RegistroTypeOK, SinRegistro
  <2>2. InvocacionTypeOK' BY <1>12, <2>1, ConcluirTypes DEF FalloAuditoria
  <2>3. auditoria' \subseteq [accion : Acciones, intento : Nat, http : Nat]
    BY <1>12, EscribirTypes DEF FalloAuditoria, RegistroTypeOK
  <2>4. QED BY <1>12, <2>2, <2>3 DEF FalloAuditoria, RegistroTypeOK, MarcadorTypeOK
<1>13. ASSUME NEW w \in Workers, FalloAuditoriaG3(w) PROVE TypeOK'
  <2>1. InvocacionTypeOK'
    BY <1>13, AvanzarTypes, SalirTypes DEF FalloAuditoriaG3, Pasos, SinRegistro
  <2>2. QED BY <1>13, <2>1 DEF FalloAuditoriaG3, RegistroTypeOK, MarcadorTypeOK
<1>14. ASSUME NEW w \in Workers, FalloGuardar(w) PROVE TypeOK'
  <2>1. InvocacionTypeOK'
    BY <1>14 DEF FalloGuardar, InvocacionTypeOK, Pasos, SinRegistro, Resultados
  <2>2. QED BY <1>14, <2>1 DEF FalloGuardar, RegistroTypeOK, MarcadorTypeOK
<1>15. ASSUME NEW w \in Workers, Excepcion(w) PROVE TypeOK'
  <2>1. InvocacionTypeOK' BY <1>15, ConcluirTypes DEF Excepcion, Estados
  <2>2. QED BY <1>15, <2>1 DEF Excepcion, RegistroTypeOK, MarcadorTypeOK
<1>16. ASSUME NEW w \in Workers, Abortar(w) PROVE TypeOK'
  <2>1. InvocacionTypeOK' BY <1>16, SalirTypes DEF Abortar
  <2>2. QED BY <1>16, <2>1 DEF Abortar, RegistroTypeOK, MarcadorTypeOK
<1>17. CASE ExpirarReserva
  BY <1>17 DEF ExpirarReserva, RegistroTypeOK, MarcadorTypeOK, InvocacionTypeOK
<1>18. CASE UNCHANGED vars
  BY <1>18 DEF RegistroTypeOK, MarcadorTypeOK, InvocacionTypeOK
<1>19. QED
  BY <1>1, <1>2, <1>3, <1>4, <1>5, <1>6, <1>7, <1>8, <1>9, <1>10, <1>11, <1>12, <1>13, <1>14,
     <1>15, <1>16, <1>17, <1>18 DEF Next, PasoDe

\* What dispatch, withOutcomeAudit and recoverPostClosure write stays within the
\* columns' enumerations, and no outcome is reported without a record behind it.
THEOREM TypeCorrect == Spec => []TypeOK
  BY TypeInit, TypeStep, PTL DEF Spec

(***************************************************************************)
(* The inductive invariant.                                                *)
(***************************************************************************)

\* Invocation v does not move.
Quieta(v) ==
    /\ pc'[v] = pc[v]
    /\ explicito'[v] = explicito[v]
    /\ leido'[v] = leido[v]
    /\ intento'[v] = intento[v]
    /\ resp'[v] = resp[v]
    /\ out'[v] = out[v]
    /\ outPend'[v] = outPend[v]

\* Invocation w leaves its attempt, or keeps it without going back to send it.
Suelta(w) ==
    /\ pc'[w] \notin {"previa", "reclamar", "enviar", "guardar"}
    /\ intento'[w] \in {0, intento[w]}

\* Invocation w ends, or it takes e to the marker, its audits still owed or not.
Informa(w, e, b) ==
    \/ pc'[w] = "libre" /\ out'[w] = "NINGUNO"
    \/ pc'[w] = "marcar" /\ out'[w] = e /\ outPend'[w] = b

LEMMA AvanzarEfecto ==
    ASSUME InvocacionTypeOK, NEW w \in Workers, NEW s \in Pasos, Avanzar(w, s)
    PROVE  /\ \A v \in Workers : v # w => Quieta(v)
           /\ pc'[w] = s /\ out'[w] = out[w] /\ intento'[w] = intento[w]
           /\ explicito'[w] = explicito[w] /\ leido'[w] = leido[w]
  BY DEF InvocacionTypeOK, Avanzar, Quieta

LEMMA SalirEfecto ==
    ASSUME InvocacionTypeOK, NEW w \in Workers, Salir(w)
    PROVE  /\ \A v \in Workers : v # w => Quieta(v)
           /\ Suelta(w)
           /\ pc'[w] = "libre" /\ out'[w] = "NINGUNO" /\ intento'[w] = 0
  BY DEF InvocacionTypeOK, Salir, Quieta, Suelta

LEMMA ConcluirEfecto ==
    ASSUME InvocacionTypeOK, NEW w \in Workers, NEW e, NEW b \in BOOLEAN, Concluir(w, e, b)
    PROVE  /\ \A v \in Workers : v # w => Quieta(v)
           /\ Suelta(w)
           /\ Informa(w, e, b)
<1>1. CASE Salir(w) BY <1>1, SalirEfecto DEF Informa
<1>2. CASE ~Salir(w)
  BY <1>2 DEF InvocacionTypeOK, Concluir, Quieta, Suelta, Informa
<1>3. QED BY <1>1, <1>2

LEMMA IrAAuditarEfecto ==
    ASSUME InvocacionTypeOK, NEW w \in Workers, NEW e, IrAAuditar(w, e, "auditar")
    PROVE  /\ \A v \in Workers : v # w => Quieta(v)
           /\ Suelta(w)
           /\ Informa(w, e, TRUE) \/ (pc'[w] = "auditar" /\ out'[w] = e)
<1>1. CASE e \in SinResultado BY <1>1, ConcluirEfecto DEF IrAAuditar
<1>2. CASE e \notin SinResultado
  BY <1>2 DEF IrAAuditar, InvocacionTypeOK, Quieta, Suelta
<1>3. QED BY <1>1, <1>2

\* What is known of an invocation that does not move survives the steps of the others,
\* provided that none takes the current attempt from one that is sending.
LEMMA EnvioQuieta ==
    ASSUME NEW v \in Workers, EnvioOK(v), Quieta(v), intentos \in Nat, intentos' \in Nat,
           intento[v] \in Nat, intentos' >= intentos, confirmados \subseteq confirmados',
           pc[v] = "enviar" => /\ estado' = estado
                               /\ vencida' = vencida
                               /\ intentos' = intentos
                               /\ envios'[FALSE] = envios[FALSE]
    PROVE  EnvioOK(v)'
<1>1. intento'[v] <= intentos' BY DEF EnvioOK, Quieta
<1>2. pc'[v] = "previa" => explicito'[v] BY DEF EnvioOK, Quieta
<1>3. pc'[v] = "reclamar" /\ ~explicito'[v] => leido'[v] = 0 BY DEF EnvioOK, Quieta
<1>4. pc'[v] = "enviar" =>
          /\ estado' = "ENVIANDO"
          /\ ~vencida'
          /\ intento'[v] = intentos'
          /\ intento'[v] > 0
  BY DEF EnvioOK, Quieta
<1>5. pc'[v] = "enviar" => explicito'[v] \/ envios'[FALSE] = 0
  BY DEF EnvioOK, Quieta
<1>6. pc'[v] = "guardar" /\ resp'[v] = "COMPLETADA" => intento'[v] \in confirmados'
  BY DEF EnvioOK, Quieta
<1>7. QED BY <1>1, <1>2, <1>3, <1>4, <1>5, <1>6 DEF EnvioOK

\* An invocation that lets go of its attempt has nothing more to keep.
LEMMA EnvioSuelta ==
    ASSUME NEW w \in Workers, Suelta(w), intento[w] \in Nat, intentos \in Nat,
           intento[w] <= intentos, intentos' = intentos
    PROVE  EnvioOK(w)'
<1>1. intento'[w] <= intentos' BY DEF Suelta
<1>2. pc'[w] \notin {"previa", "reclamar", "enviar", "guardar"} BY DEF Suelta
<1>3. QED BY <1>1, <1>2, Zenon DEF EnvioOK

\* Two attempts stay distinct when one invocation leaves its own or all keep theirs.
LEMMA UnicosSuelta ==
    ASSUME IntentosUnicos, NEW w \in Workers, \A v \in Workers : v # w => Quieta(v),
           intento'[w] \in {0, intento[w]}
    PROVE  IntentosUnicos'
  BY DEF IntentosUnicos, Quieta

LEMMA InvInit == Init => IInv
<1> SUFFICES ASSUME Init PROVE IInv
  OBVIOUS
<1>1. TypeOK BY TypeInit
<1>2. RegistroOK BY DEF Init, RegistroOK, AutomaticSendsOnce, Iniciales
<1>3. EnviosOK /\ IntentosUnicos BY DEF Init, EnviosOK, EnvioOK, IntentosUnicos
<1>4. InformesOK BY DEF Init, InformesOK, InformeOK
<1>5. AuditTruthful /\ MarkerBehindEvidence BY DEF Init, AuditTruthful, MarkerBehindEvidence
<1>6. QED BY <1>1, <1>2, <1>3, <1>4, <1>5 DEF IInv

\* A confirmed record is left alone and no audit is ever withdrawn.
LEMMA EvidenciaEstable ==
    ASSUME IInv, [Next]_vars
    PROVE  /\ auditoria \subseteq auditoria'
           /\ confirmados \subseteq confirmados'
           /\ estado = "COMPLETADA" =>
                 estado' = "COMPLETADA" /\ intentos' = intentos /\ envios' = envios
<1> USE DEF vars, registro, marcador, invocacion, remoto
<1>1. ASSUME NEW w \in Workers, AfterG3Completion(w) PROVE UNCHANGED <<auditoria, confirmados, envios, intentos>>
        /\ (estado = "COMPLETADA" => estado' = "COMPLETADA")
  BY <1>1 DEF AfterG3Completion
<1>2. ASSUME NEW w \in Workers, Claim(w) PROVE UNCHANGED <<auditoria, confirmados, envios>>
        /\ (estado = "COMPLETADA" => estado' = "COMPLETADA" /\ intentos' = intentos)
  BY <1>2 DEF Claim, Reclamable
<1>3. ASSUME NEW w \in Workers, SendActivation(w) PROVE UNCHANGED <<auditoria, estado, intentos>>
        /\ confirmados \subseteq confirmados' /\ estado # "COMPLETADA"
  <2>1. estado = "ENVIANDO" BY <1>3 DEF IInv, EnviosOK, EnvioOK, SendActivation
  <2>2. QED BY <1>3, <2>1 DEF SendActivation
<1>4. ASSUME NEW w \in Workers, SaveOutcome(w) PROVE UNCHANGED <<auditoria, confirmados, envios, intentos>>
        /\ (estado = "COMPLETADA" => estado' = "COMPLETADA")
  BY <1>4 DEF SaveOutcome, MiIntento
<1>5. ASSUME NEW w \in Workers, WithOutcomeAudit(w) \/ FalloAuditoria(w)
      PROVE  UNCHANGED <<confirmados, envios, intentos, estado>> /\ auditoria \subseteq auditoria'
  BY <1>5 DEF WithOutcomeAudit, FalloAuditoria, EscribirAuditoria
<1>6. ASSUME NEW w \in Workers,
             \/ RecoverPostClosure(w) \/ AuditarG3(w) \/ MarcarG1(w) \/ Retry(w) \/ Dispatch(w)
             \/ Releer(w) \/ FalloAuditoriaG3(w) \/ FalloGuardar(w) \/ Excepcion(w) \/ Abortar(w)
      PROVE  UNCHANGED <<auditoria, confirmados, envios, intentos, estado>>
  BY <1>6 DEF RecoverPostClosure, AuditarG3, MarcarG1, Retry, Dispatch, Releer, FalloAuditoriaG3,
     FalloGuardar, Excepcion, Abortar
<1>7. CASE ExpirarReserva \/ UNCHANGED vars
  BY <1>7 DEF ExpirarReserva
<1>8. QED BY <1>1, <1>2, <1>3, <1>4, <1>5, <1>6, <1>7 DEF Next, PasoDe

\* Only the attempt that G1 confirmed confirms the record, and only the first automatic
\* claim leads to an automatic send.
LEMMA RegistroStep ==
    ASSUME IInv, [Next]_vars
    PROVE  RegistroOK'
<1> USE DEF vars, registro, marcador, invocacion, remoto, RegistroOK, AutomaticSendsOnce
<1>0. /\ RegistroTypeOK /\ InvocacionTypeOK /\ envios \in [BOOLEAN -> Nat]
      /\ RegistroOK /\ \A w \in Workers : EnvioOK(w)
  BY DEF IInv, TypeOK, EnviosOK
<1>1. ASSUME NEW w \in Workers, AfterG3Completion(w) PROVE RegistroOK'
  BY <1>0, <1>1 DEF AfterG3Completion, RegistroTypeOK, Iniciales
<1>2. ASSUME NEW w \in Workers, Claim(w) PROVE RegistroOK'
  <2>1. CASE Reclamable(w)
    <3>1. estado' = "ENVIANDO" /\ intentos' = intentos + 1 /\ envios' = envios
      BY <1>2, <2>1 DEF Claim
    <3>2. intentos' # 0 BY <1>0, <3>1 DEF RegistroTypeOK
    <3>3. QED BY <1>0, <3>1, <3>2
  <2>2. CASE ~Reclamable(w)
    BY <1>0, <1>2, <2>2 DEF Claim
  <2>3. QED BY <2>1, <2>2
<1>3. ASSUME NEW w \in Workers, SendActivation(w) PROVE RegistroOK'
  <2>1. /\ estado = "ENVIANDO" /\ intentos > 0
        /\ explicito[w] \/ envios[FALSE] = 0
    BY <1>0, <1>3 DEF SendActivation, EnvioOK
  <2>2. envios'[FALSE] <= 1
    <3>1. CASE explicito[w]
      <4>1. explicito[w] = TRUE BY <1>0, <3>1 DEF InvocacionTypeOK
      <4>2. envios' = [envios EXCEPT ![TRUE] = @ + 1] BY <1>3, <4>1 DEF SendActivation
      <4>3. envios'[FALSE] = envios[FALSE] BY <1>0, <4>2
      <4>4. QED BY <1>0, <4>3
    <3>2. CASE ~explicito[w]
      <4>1. explicito[w] = FALSE BY <1>0, <3>2 DEF InvocacionTypeOK
      <4>2. envios' = [envios EXCEPT ![FALSE] = @ + 1] BY <1>3, <4>1 DEF SendActivation
      <4>3. envios'[FALSE] = envios[FALSE] + 1 BY <1>0, <4>2
      <4>4. envios[FALSE] = 0 BY <2>1, <3>2, Zenon
      <4>5. QED BY <4>3, <4>4
    <3>3. QED BY <3>1, <3>2
  <2>3. estado' = estado /\ intentos' = intentos BY <1>3 DEF SendActivation
  <2>4. intentos' # 0 BY <1>0, <2>1, <2>3 DEF RegistroTypeOK
  <2>5. QED BY <2>1, <2>2, <2>3, <2>4
<1>4. ASSUME NEW w \in Workers, SaveOutcome(w) PROVE RegistroOK'
  BY <1>0, <1>4 DEF SaveOutcome, MiIntento, EnvioOK
<1>5. ASSUME NEW w \in Workers,
             \/ RecoverPostClosure(w) \/ AuditarG3(w) \/ MarcarG1(w) \/ Retry(w) \/ Dispatch(w)
             \/ Releer(w) \/ WithOutcomeAudit(w) \/ FalloAuditoria(w) \/ FalloAuditoriaG3(w)
             \/ FalloGuardar(w) \/ Excepcion(w) \/ Abortar(w)
      PROVE  RegistroOK'
  BY <1>0, <1>5 DEF RecoverPostClosure, AuditarG3, MarcarG1, Retry, Dispatch, Releer,
     WithOutcomeAudit, FalloAuditoria, FalloAuditoriaG3, FalloGuardar, Excepcion, Abortar
<1>6. CASE ExpirarReserva \/ UNCHANGED vars
  BY <1>0, <1>6 DEF ExpirarReserva
<1>7. QED BY <1>1, <1>2, <1>3, <1>4, <1>5, <1>6 DEF Next, PasoDe

\* The lease: whoever sends keeps the current attempt to itself until it saved.
LEMMA EnviosStep ==
    ASSUME IInv, [Next]_vars
    PROVE  EnviosOK'
<1> USE DEF vars, registro, marcador, invocacion, remoto
<1>0. /\ RegistroTypeOK /\ InvocacionTypeOK /\ confirmados \subseteq Nat
      /\ RegistroOK /\ IntentosUnicos /\ \A w \in Workers : EnvioOK(w)
  BY DEF IInv, TypeOK, EnviosOK
<1>a. \A v \in Workers : intento[v] \in Nat /\ intentos \in Nat /\ intento[v] <= intentos
  BY <1>0 DEF RegistroTypeOK, InvocacionTypeOK, EnvioOK
<1>b. ASSUME NEW w \in Workers, Suelta(w), \A v \in Workers : v # w => Quieta(v),
             UNCHANGED <<intentos, vencida, estado, envios, confirmados>>
      PROVE  EnviosOK'
  <2>1. EnvioOK(w)' BY <1>a, <1>b, EnvioSuelta
  <2>2. \A v \in Workers : v # w => EnvioOK(v)' BY <1>0, <1>a, <1>b, EnvioQuieta
  <2>3. QED BY <2>1, <2>2 DEF EnviosOK
<1>1. ASSUME NEW w \in Workers, \/ RecoverPostClosure(w) \/ AuditarG3(w) \/ FalloAuditoriaG3(w)
      PROVE  EnviosOK'
  <2>1. Suelta(w) /\ \A v \in Workers : v # w => Quieta(v)
    BY <1>0, <1>1, AvanzarEfecto, SalirEfecto
       DEF RecoverPostClosure, AuditarG3, FalloAuditoriaG3, Suelta, Pasos
  <2>2. QED BY <1>b, <1>1, <2>1 DEF RecoverPostClosure, AuditarG3, FalloAuditoriaG3
<1>2. ASSUME NEW w \in Workers, MarcarG1(w) \/ Abortar(w) PROVE EnviosOK'
  <2>1. Suelta(w) /\ \A v \in Workers : v # w => Quieta(v)
    BY <1>0, <1>2, SalirEfecto DEF MarcarG1, Abortar
  <2>2. QED BY <1>b, <1>2, <2>1 DEF MarcarG1, Abortar
<1>3. ASSUME NEW w \in Workers, Releer(w) \/ Excepcion(w) PROVE EnviosOK'
  <2>1. Suelta(w) /\ \A v \in Workers : v # w => Quieta(v)
    BY <1>0, <1>3, ConcluirEfecto, IrAAuditarEfecto DEF Releer, Excepcion
  <2>2. QED BY <1>b, <1>3, <2>1 DEF Releer, Excepcion
<1>4. ASSUME NEW w \in Workers, Retry(w) PROVE EnviosOK'
  <2>1. Suelta(w) /\ \A v \in Workers : v # w => Quieta(v)
    BY <1>0, <1>4 DEF Retry, InvocacionTypeOK, Suelta, Quieta
  <2>2. QED BY <1>b, <1>4, <2>1 DEF Retry
<1>5. ASSUME NEW w \in Workers, AfterG3Completion(w) PROVE EnviosOK'
  <2>1. Suelta(w) /\ \A v \in Workers : v # w => Quieta(v)
    BY <1>0, <1>5, AvanzarEfecto, IrAAuditarEfecto DEF AfterG3Completion, Suelta, Pasos
  <2>2. UNCHANGED <<intentos, vencida, envios, confirmados>> /\ (estado = "ENVIANDO" => estado' = estado)
    BY <1>5 DEF AfterG3Completion
  <2>3. EnvioOK(w)' BY <1>a, <2>1, <2>2, EnvioSuelta
  <2>4. ASSUME NEW v \in Workers, v # w PROVE EnvioOK(v)'
    <3>1. pc[v] = "enviar" => estado' = estado BY <1>0, <2>2 DEF EnvioOK
    <3>2. QED BY <1>0, <1>a, <2>1, <2>2, <2>4, <3>1, EnvioQuieta
  <2>5. QED BY <2>3, <2>4 DEF EnviosOK
<1>6. ASSUME NEW w \in Workers, Dispatch(w) PROVE EnviosOK'
  <2>0. UNCHANGED <<intentos, vencida, estado, envios, confirmados>> BY <1>6 DEF Dispatch
  <2>1. CASE IrAAuditar(w, estado, "auditar") \/ Concluir(w, estado, TRUE)
    <3>1. Suelta(w) /\ \A v \in Workers : v # w => Quieta(v)
      BY <1>0, <2>1, ConcluirEfecto, IrAAuditarEfecto
    <3>2. QED BY <1>b, <2>0, <3>1
  <2>2. CASE ~(IrAAuditar(w, estado, "auditar") \/ Concluir(w, estado, TRUE))
    <3>1. /\ ~YaIntentado(w)
          /\ pc' = [pc EXCEPT ![w] = IF intentos > 0 /\ estado # "ENVIANDO"
                                     THEN "previa" ELSE "reclamar"]
          /\ leido' = [leido EXCEPT ![w] = intentos]
          /\ out' = [out EXCEPT ![w] = estado]
          /\ UNCHANGED <<explicito, intento, resp, outPend>>
      BY <1>6, <2>2 DEF Dispatch
    <3>2. \A v \in Workers : v # w => Quieta(v) BY <1>0, <3>1 DEF InvocacionTypeOK, Quieta
    <3>3. explicito[w] \/ intentos = 0 BY <1>a, <3>1 DEF YaIntentado
    <3>4. /\ pc'[w] \in {"previa", "reclamar"} /\ (pc'[w] = "previa" => intentos > 0)
          /\ leido'[w] = intentos /\ intento'[w] = intento[w] /\ explicito'[w] = explicito[w]
      BY <1>0, <3>1 DEF InvocacionTypeOK
    <3>5. EnvioOK(w)'
      <4>1. intento'[w] <= intentos' BY <1>a, <2>0, <3>4
      <4>2. pc'[w] = "previa" => explicito'[w] BY <1>a, <3>3, <3>4
      <4>3. pc'[w] = "reclamar" /\ ~explicito'[w] => leido'[w] = 0 BY <1>a, <3>3, <3>4
      <4>4. pc'[w] \notin {"enviar", "guardar"} BY <3>4
      <4>5. QED BY <4>1, <4>2, <4>3, <4>4, Zenon DEF EnvioOK
    <3>6. \A v \in Workers : v # w => EnvioOK(v)' BY <1>0, <1>a, <2>0, <3>2, EnvioQuieta
    <3>7. QED BY <3>5, <3>6 DEF EnviosOK
  <2>3. QED BY <2>1, <2>2
<1>7. ASSUME NEW w \in Workers, Claim(w) PROVE EnviosOK'
  <2>1. CASE Reclamable(w)
    <3>1. /\ \A v \in Workers : v # w => Quieta(v)
          /\ pc'[w] = "enviar" /\ intento'[w] = leido[w] + 1 /\ explicito'[w] = explicito[w]
      BY <1>0, <1>7, <2>1 DEF Claim, InvocacionTypeOK, Quieta
    <3>2. /\ estado' = "ENVIANDO" /\ intentos' = intentos + 1 /\ vencida' = FALSE
          /\ UNCHANGED <<envios, confirmados>> /\ pc[w] = "reclamar"
      BY <1>7, <2>1 DEF Claim
    <3>3. intentos = leido[w] BY <2>1 DEF Reclamable
    <3>4. explicito[w] \/ envios[FALSE] = 0
      BY <1>0, <3>2, <3>3 DEF EnvioOK, RegistroOK
    <3>5. EnvioOK(w)'
      <4>1. intento'[w] = intentos' /\ intento'[w] > 0 /\ intento'[w] <= intentos'
        BY <1>a, <3>1, <3>2, <3>3
      <4>2. explicito'[w] \/ envios'[FALSE] = 0 BY <3>1, <3>2, <3>4
      <4>3. ~vencida' BY <3>2
      <4>4. QED BY <3>1, <3>2, <4>1, <4>2, <4>3, Zenon DEF EnvioOK
    <3>6. \A v \in Workers : pc[v] # "enviar"
      BY <1>0, <2>1 DEF Reclamable, EnvioOK
    <3>7. \A v \in Workers : v # w => EnvioOK(v)'
      BY <1>0, <1>a, <3>1, <3>2, <3>6, EnvioQuieta
    <3>8. QED BY <3>5, <3>7 DEF EnviosOK
  <2>2. CASE ~Reclamable(w)
    <3>1. Concluir(w, estado, TRUE) /\ UNCHANGED <<intentos, vencida, estado, envios, confirmados>>
      BY <1>7, <2>2 DEF Claim
    <3>2. QED BY <1>0, <1>b, <3>1, ConcluirEfecto
  <2>3. QED BY <2>1, <2>2
<1>8. ASSUME NEW w \in Workers, SendActivation(w) PROVE EnviosOK'
  <2>1. /\ \A v \in Workers : v # w => Quieta(v)
        /\ pc[w] = "enviar" /\ pc'[w] = "guardar" /\ intento'[w] = intento[w]
    BY <1>0, <1>8 DEF SendActivation, InvocacionTypeOK, Quieta
  <2>2. /\ UNCHANGED <<estado, intentos, vencida>> /\ confirmados \subseteq confirmados'
        /\ resp'[w] = "COMPLETADA" => intento[w] \in confirmados'
    BY <1>0, <1>8 DEF SendActivation, InvocacionTypeOK
  <2>3. EnvioOK(w)' BY <1>a, <2>1, <2>2 DEF EnvioOK
  <2>4. \A v \in Workers : v # w => pc[v] # "enviar"
    BY <1>0, <2>1 DEF EnvioOK, IntentosUnicos
  <2>5. ASSUME NEW v \in Workers, v # w PROVE EnvioOK(v)'
    <3>1. EnvioOK(v) /\ Quieta(v) /\ pc[v] # "enviar" BY <1>0, <2>1, <2>4, <2>5
    <3>2. intentos' \in Nat /\ intentos' >= intentos BY <1>a, <2>2
    <3>3. QED BY <1>a, <2>2, <3>1, <3>2, EnvioQuieta
  <2>6. QED BY <2>3, <2>5 DEF EnviosOK
<1>9. ASSUME NEW w \in Workers, SaveOutcome(w) PROVE EnviosOK'
  <2>1. Suelta(w) /\ \A v \in Workers : v # w => Quieta(v)
    BY <1>0, <1>9, AvanzarEfecto DEF SaveOutcome, Suelta, Pasos
  <2>2. UNCHANGED <<intentos, vencida, envios, confirmados>>
    BY <1>9 DEF SaveOutcome
  <2>3. EnvioOK(w)' BY <1>a, <2>1, <2>2, EnvioSuelta
  <2>4. ASSUME NEW v \in Workers, v # w PROVE EnvioOK(v)'
    <3>1. pc[v] = "enviar" => estado' = estado
      <4>1. pc[v] = "enviar" => intento[w] # intentos
        BY <1>0, <2>4 DEF EnvioOK, IntentosUnicos
      <4>2. QED BY <1>9, <4>1 DEF SaveOutcome, MiIntento
    <3>2. QED BY <1>0, <1>a, <2>1, <2>2, <2>4, <3>1, EnvioQuieta
  <2>5. QED BY <2>3, <2>4 DEF EnviosOK
<1>10. ASSUME NEW w \in Workers, WithOutcomeAudit(w) PROVE EnviosOK'
  <2>0. UNCHANGED <<intentos, vencida, estado, envios, confirmados>> BY <1>10 DEF WithOutcomeAudit
  <2>1. CASE Concluir(w, estado, TRUE) \/ Concluir(w, estado, FALSE)
    BY <1>0, <1>b, <2>0, <2>1, ConcluirEfecto
  <2>2. CASE pc[w] = "previa" /\ Avanzar(w, "reclamar")
    <3>1. /\ \A v \in Workers : v # w => Quieta(v)
          /\ pc'[w] = "reclamar" /\ intento'[w] = intento[w] /\ explicito'[w] = explicito[w]
      BY <1>0, <2>2, AvanzarEfecto DEF Pasos
    <3>2. explicito[w] BY <1>0, <2>2 DEF EnvioOK
    <3>3. EnvioOK(w)' BY <1>a, <2>0, <3>1, <3>2 DEF EnvioOK
    <3>4. \A v \in Workers : v # w => EnvioOK(v)' BY <1>0, <1>a, <2>0, <3>1, EnvioQuieta
    <3>5. QED BY <3>3, <3>4 DEF EnviosOK
  <2>3. QED BY <1>10, <2>1, <2>2 DEF WithOutcomeAudit
<1>11. ASSUME NEW w \in Workers, FalloAuditoria(w) PROVE EnviosOK'
  <2>1. Suelta(w) /\ \A v \in Workers : v # w => Quieta(v)
    BY <1>0, <1>11, ConcluirEfecto DEF FalloAuditoria
  <2>2. QED BY <1>b, <1>11, <2>1 DEF FalloAuditoria
<1>12. ASSUME NEW w \in Workers, FalloGuardar(w) PROVE EnviosOK'
  <2>1. /\ \A v \in Workers : v # w => Quieta(v)
        /\ pc'[w] = "guardar" /\ intento'[w] = intento[w] /\ resp'[w] # "COMPLETADA"
    BY <1>0, <1>12 DEF FalloGuardar, InvocacionTypeOK, Quieta
  <2>2. UNCHANGED <<intentos, vencida, estado, envios, confirmados>> BY <1>12 DEF FalloGuardar
  <2>3. EnvioOK(w)' BY <1>a, <2>1, <2>2 DEF EnvioOK
  <2>4. \A v \in Workers : v # w => EnvioOK(v)' BY <1>0, <1>a, <2>1, <2>2, EnvioQuieta
  <2>5. QED BY <2>3, <2>4 DEF EnviosOK
<1>13. CASE ExpirarReserva
  <2>1. /\ \A v \in Workers : Quieta(v) /\ pc[v] # "enviar"
        /\ UNCHANGED <<intentos, envios, confirmados>>
    BY <1>13 DEF ExpirarReserva, Quieta
  <2>2. QED BY <1>0, <1>a, <2>1, EnvioQuieta DEF EnviosOK
<1>14. CASE UNCHANGED vars
  <2>1. \A v \in Workers : Quieta(v) BY <1>14 DEF Quieta
  <2>2. QED BY <1>0, <1>a, <1>14, <2>1, EnvioQuieta DEF EnviosOK
<1>15. QED
  BY <1>1, <1>2, <1>3, <1>4, <1>5, <1>6, <1>7, <1>8, <1>9, <1>10, <1>11, <1>12, <1>13, <1>14
     DEF Next, PasoDe

\* Only a claim takes a new attempt, and it takes a fresh one.
LEMMA UnicosStep ==
    ASSUME IInv, [Next]_vars
    PROVE  IntentosUnicos'
<1> USE DEF vars, registro, marcador, invocacion, remoto
<1>0. /\ RegistroTypeOK /\ InvocacionTypeOK /\ IntentosUnicos
      /\ \A v \in Workers : intento[v] \in Nat /\ intentos \in Nat /\ intento[v] <= intentos
  BY DEF IInv, TypeOK, EnviosOK, EnvioOK, RegistroTypeOK, InvocacionTypeOK
<1>a. ASSUME NEW w \in Workers, \A v \in Workers : v # w => Quieta(v), intento'[w] \in {0, intento[w]}
      PROVE  IntentosUnicos'
  BY <1>0, <1>a, UnicosSuelta
<1>1. ASSUME NEW w \in Workers,
             RecoverPostClosure(w) \/ AuditarG3(w) \/ FalloAuditoriaG3(w) \/ SaveOutcome(w)
      PROVE  IntentosUnicos'
  <2>1. CASE Salir(w) BY <1>0, <1>a, <2>1, SalirEfecto
  <2>2. CASE ~Salir(w)
    BY <1>0, <1>a, <1>1, <2>2, AvanzarEfecto
       DEF RecoverPostClosure, AuditarG3, FalloAuditoriaG3, SaveOutcome, Pasos
  <2>3. QED BY <2>1, <2>2
<1>2. ASSUME NEW w \in Workers, MarcarG1(w) \/ Abortar(w) PROVE IntentosUnicos'
  BY <1>0, <1>a, <1>2, SalirEfecto DEF MarcarG1, Abortar
<1>3. ASSUME NEW w \in Workers, Releer(w) \/ Excepcion(w) \/ FalloAuditoria(w) PROVE IntentosUnicos'
  <2>1. Suelta(w) /\ \A v \in Workers : v # w => Quieta(v)
    BY <1>0, <1>3, ConcluirEfecto, IrAAuditarEfecto DEF Releer, Excepcion, FalloAuditoria
  <2>2. QED BY <1>a, <2>1 DEF Suelta
<1>4. ASSUME NEW w \in Workers, AfterG3Completion(w) PROVE IntentosUnicos'
  <2>1. intento'[w] \in {0, intento[w]} /\ \A v \in Workers : v # w => Quieta(v)
    BY <1>0, <1>4, AvanzarEfecto, IrAAuditarEfecto DEF AfterG3Completion, Suelta, Pasos
  <2>2. QED BY <1>a, <2>1
<1>5. ASSUME NEW w \in Workers, Retry(w) \/ SendActivation(w) \/ FalloGuardar(w) PROVE IntentosUnicos'
  <2>1. intento'[w] = intento[w] /\ \A v \in Workers : v # w => Quieta(v)
    BY <1>0, <1>5 DEF Retry, SendActivation, FalloGuardar, InvocacionTypeOK, Quieta
  <2>2. QED BY <1>a, <2>1
<1>6. ASSUME NEW w \in Workers, Dispatch(w) PROVE IntentosUnicos'
  <2>1. CASE IrAAuditar(w, estado, "auditar") \/ Concluir(w, estado, TRUE)
    <3>1. Suelta(w) /\ \A v \in Workers : v # w => Quieta(v)
      BY <1>0, <2>1, ConcluirEfecto, IrAAuditarEfecto
    <3>2. QED BY <1>a, <3>1 DEF Suelta
  <2>2. CASE ~(IrAAuditar(w, estado, "auditar") \/ Concluir(w, estado, TRUE))
    <3>1. intento' = intento BY <1>6, <2>2 DEF Dispatch
    <3>2. QED BY <1>0, <3>1 DEF IntentosUnicos
  <2>3. QED BY <2>1, <2>2
<1>7. ASSUME NEW w \in Workers, Claim(w) PROVE IntentosUnicos'
  <2>1. CASE Reclamable(w)
    <3>1. /\ \A v \in Workers : v # w => intento'[v] = intento[v]
          /\ intento'[w] = leido[w] + 1 /\ leido[w] = intentos
      BY <1>0, <1>7, <2>1 DEF Claim, Reclamable, InvocacionTypeOK
    <3>2. \A v \in Workers : v # w => intento'[v] < intento'[w]
      BY <1>0, <3>1
    <3>3. QED BY <1>0, <3>1, <3>2 DEF IntentosUnicos
  <2>2. CASE ~Reclamable(w)
    <3>1. Concluir(w, estado, TRUE) BY <1>7, <2>2 DEF Claim
    <3>2. QED BY <1>0, <1>a, <3>1, ConcluirEfecto DEF Suelta
  <2>3. QED BY <2>1, <2>2
<1>8. ASSUME NEW w \in Workers, WithOutcomeAudit(w) PROVE IntentosUnicos'
  <2>1. CASE Concluir(w, estado, TRUE) \/ Concluir(w, estado, FALSE)
    BY <1>0, <1>a, <2>1, ConcluirEfecto DEF Suelta
  <2>2. CASE Avanzar(w, "reclamar")
    BY <1>0, <1>a, <2>2, AvanzarEfecto DEF Pasos
  <2>3. QED BY <1>8, <2>1, <2>2 DEF WithOutcomeAudit
<1>9. CASE ExpirarReserva \/ UNCHANGED vars
  BY <1>0, <1>9 DEF ExpirarReserva, IntentosUnicos
<1>10. QED
  BY <1>1, <1>2, <1>3, <1>4, <1>5, <1>6, <1>7, <1>8, <1>9 DEF Next, PasoDe

\* The audits of a confirmed outcome stay written.
LEMMA AuditadasEstables ==
    ASSUME IInv, [Next]_vars, estado = "COMPLETADA",
           \A a \in acciones : Auditada(a, intentos)
    PROVE  (\A a \in acciones : Auditada(a, intentos))'
<1>1. estado' = estado /\ intentos' = intentos /\ auditoria \subseteq auditoria'
  BY EvidenciaEstable
<1>2. acciones' = acciones BY <1>1 DEF acciones
<1>3. QED BY <1>1, <1>2 DEF Auditada

\* Once withOutcomeAudit committed, the record's outcome is audited.
LEMMA AuditadasEscritas ==
    ASSUME NEW w \in Workers, EscribirAuditoria(w), UNCHANGED <<estado, intentos>>
    PROVE  (\A a \in acciones : Auditada(a, intentos))'
<1>1. acciones' = acciones BY DEF acciones
<1>2. ASSUME NEW a \in acciones PROVE \E x \in auditoria' : x.accion = a /\ x.intento = intentos
  <2>1. CASE Auditada(a, intentos) BY <2>1 DEF Auditada, EscribirAuditoria
  <2>2. CASE ~Auditada(a, intentos)
    <3>1. [accion |-> a, intento |-> intentos, http |-> statusHttp(w)] \in auditoria'
      BY <1>2, <2>2 DEF EscribirAuditoria
    <3>2. QED BY <3>1
  <2>3. QED BY <2>1, <2>2
<1>3. QED BY <1>1, <1>2 DEF Auditada

\* What is on its way to the marker stays behind the evidence.
LEMMA InformesStep ==
    ASSUME IInv, [Next]_vars
    PROVE  InformesOK'
<1> USE DEF vars, registro, marcador, invocacion, remoto
<1>0. /\ RegistroTypeOK /\ InvocacionTypeOK
      /\ \A w \in Workers : InformeOK(w)
      /\ estado = "COMPLETADA" => estado' = "COMPLETADA"
  BY EvidenciaEstable DEF IInv, TypeOK, InformesOK
<1>a. ASSUME NEW v \in Workers, Quieta(v) PROVE InformeOK(v)'
  <2>1. out'[v] = "COMPLETADA" => estado' = "COMPLETADA"
    BY <1>0, <1>a DEF InformeOK, Quieta
  <2>2. ASSUME pc'[v] = "marcar", out'[v] = "COMPLETADA", ~outPend'[v]
        PROVE  (\A a \in acciones : Auditada(a, intentos))'
    <3>1. ~outPend[v] BY <1>a, <2>2 DEF Quieta
    <3>2. pc[v] = "marcar" /\ out[v] = "COMPLETADA" BY <1>a, <2>2 DEF Quieta
    <3>3. estado = "COMPLETADA" /\ \A a \in acciones : Auditada(a, intentos)
      BY <1>0, <3>1, <3>2, Zenon DEF InformeOK
    <3>4. QED BY <3>3, AuditadasEstables
  <2>3. QED BY <2>1, <2>2, Zenon DEF InformeOK
<1>b. ASSUME NEW w \in Workers, \A v \in Workers : v # w => Quieta(v),
             out'[w] = "COMPLETADA" => estado' = "COMPLETADA",
             pc'[w] = "marcar" => out'[w] # "COMPLETADA" \/ outPend'[w] = TRUE
      PROVE  InformesOK'
  <2>1. InformeOK(w)' BY <1>b, Zenon DEF InformeOK
  <2>2. QED BY <1>a, <1>b, <2>1 DEF InformesOK
<1>c. ASSUME NEW w \in Workers, \A v \in Workers : v # w => Quieta(v), out'[w] = "NINGUNO"
      PROVE  InformesOK'
  BY <1>b, <1>c
<1>d. ASSUME NEW w \in Workers, NEW e, Concluir(w, e, TRUE), e = "COMPLETADA" => estado' = "COMPLETADA"
      PROVE  InformesOK'
  BY <1>0, <1>b, <1>d, ConcluirEfecto DEF Informa
<1>e. ASSUME NEW w \in Workers, IrAAuditar(w, estado', "auditar") PROVE InformesOK'
  BY <1>0, <1>b, <1>e, IrAAuditarEfecto DEF Informa
<1>f. ASSUME NEW w \in Workers, NEW s \in Pasos \ {"marcar"}, Avanzar(w, s) PROVE InformesOK'
  BY <1>0, <1>b, <1>f, AvanzarEfecto DEF InformeOK
<1>1. ASSUME NEW w \in Workers,
             RecoverPostClosure(w) \/ AuditarG3(w) \/ FalloAuditoriaG3(w) \/ SaveOutcome(w)
      PROVE  InformesOK'
  <2>1. CASE Salir(w) BY <1>0, <1>c, <2>1, SalirEfecto
  <2>2. CASE ~Salir(w)
    BY <1>1, <1>f, <2>2
       DEF RecoverPostClosure, AuditarG3, FalloAuditoriaG3, SaveOutcome, Pasos
  <2>3. QED BY <2>1, <2>2
<1>2. ASSUME NEW w \in Workers, MarcarG1(w) \/ Abortar(w) PROVE InformesOK'
  BY <1>0, <1>2, <1>c, SalirEfecto DEF MarcarG1, Abortar
<1>3. ASSUME NEW w \in Workers, AfterG3Completion(w) PROVE InformesOK'
  <2>1. IrAAuditar(w, estado', "auditar") \/ Avanzar(w, "despachar")
    BY <1>3 DEF AfterG3Completion
  <2>2. QED BY <2>1, <1>e, <1>f DEF Pasos
<1>4. ASSUME NEW w \in Workers, Releer(w) PROVE InformesOK'
  BY <1>4, <1>e DEF Releer
<1>5. ASSUME NEW w \in Workers, Retry(w) \/ SendActivation(w) \/ FalloGuardar(w) PROVE InformesOK'
  <2>1. /\ \A v \in Workers : v # w => Quieta(v)
        /\ out'[w] = out[w] /\ pc'[w] # "marcar"
    BY <1>0, <1>5 DEF Retry, SendActivation, FalloGuardar, InvocacionTypeOK, Quieta
  <2>2. QED BY <1>0, <1>b, <2>1 DEF InformeOK
<1>6. ASSUME NEW w \in Workers, Dispatch(w) PROVE InformesOK'
  <2>1. estado' = estado BY <1>6 DEF Dispatch
  <2>2. CASE IrAAuditar(w, estado, "auditar") BY <1>e, <2>1, <2>2
  <2>3. CASE Concluir(w, estado, TRUE) BY <1>d, <2>1, <2>3
  <2>4. CASE ~IrAAuditar(w, estado, "auditar") /\ ~Concluir(w, estado, TRUE)
    <3>1. /\ \A v \in Workers : v # w => Quieta(v)
          /\ out'[w] = estado /\ pc'[w] # "marcar"
      BY <1>0, <1>6, <2>4 DEF Dispatch, InvocacionTypeOK, Quieta
    <3>2. QED BY <1>b, <2>1, <3>1
  <2>5. QED BY <2>2, <2>3, <2>4
<1>7. ASSUME NEW w \in Workers, Claim(w) PROVE InformesOK'
  <2>1. CASE Reclamable(w)
    <3>1. /\ \A v \in Workers : v # w => Quieta(v)
          /\ out'[w] = out[w] /\ pc'[w] = "enviar"
      BY <1>0, <1>7, <2>1 DEF Claim, InvocacionTypeOK, Quieta
    <3>2. QED BY <1>0, <1>b, <3>1 DEF InformeOK
  <2>2. CASE ~Reclamable(w)
    <3>1. Concluir(w, estado, TRUE) /\ estado' = estado BY <1>7, <2>2 DEF Claim
    <3>2. QED BY <1>d, <3>1
  <2>3. QED BY <2>1, <2>2
<1>8. ASSUME NEW w \in Workers, WithOutcomeAudit(w) PROVE InformesOK'
  <2>1. estado' = estado /\ intentos' = intentos BY <1>8 DEF WithOutcomeAudit
  <2>2. CASE Concluir(w, estado, TRUE) BY <1>d, <2>1, <2>2
  <2>3. CASE Avanzar(w, "reclamar") BY <1>f, <2>3 DEF Pasos
  <2>4. CASE EscribirAuditoria(w) /\ Concluir(w, estado, FALSE)
    <3>1. (\A a \in acciones : Auditada(a, intentos))' BY <2>1, <2>4, AuditadasEscritas
    <3>2. Informa(w, estado, FALSE) /\ \A v \in Workers : v # w => Quieta(v)
      BY <1>0, <2>4, ConcluirEfecto
    <3>3. out'[w] = "COMPLETADA" => estado' = "COMPLETADA" BY <2>1, <3>2 DEF Informa
    <3>4. InformeOK(w)' BY <3>1, <3>3 DEF InformeOK
    <3>5. QED BY <1>a, <3>2, <3>4 DEF InformesOK
  <2>5. QED BY <1>8, <2>2, <2>3, <2>4 DEF WithOutcomeAudit
<1>9. ASSUME NEW w \in Workers, FalloAuditoria(w) PROVE InformesOK'
  <2>1. estado' = estado BY <1>9 DEF FalloAuditoria
  <2>2. PICK e \in {out[w], estado} : Concluir(w, e, TRUE) BY <1>9 DEF FalloAuditoria
  <2>3. e = "COMPLETADA" => estado' = "COMPLETADA" BY <1>0, <2>1 DEF InformeOK
  <2>4. QED BY <1>d, <2>2, <2>3
<1>10. ASSUME NEW w \in Workers, Excepcion(w) PROVE InformesOK'
  <2>1. Concluir(w, "PENDIENTE_CREACION", FALSE) BY <1>10 DEF Excepcion
  <2>2. /\ \A v \in Workers : v # w => Quieta(v)
        /\ Informa(w, "PENDIENTE_CREACION", FALSE)
    BY <1>0, <2>1, ConcluirEfecto
  <2>3. out'[w] # "COMPLETADA" BY <2>2 DEF Informa
  <2>4. QED BY <1>b, <2>2, <2>3
<1>11. CASE ExpirarReserva \/ UNCHANGED vars
  <2>1. \A v \in Workers : Quieta(v) BY <1>11 DEF ExpirarReserva, Quieta
  <2>2. QED BY <1>a, <2>1 DEF InformesOK
<1>12. QED
  BY <1>1, <1>2, <1>3, <1>4, <1>5, <1>6, <1>7, <1>8, <1>9, <1>10, <1>11 DEF Next, PasoDe

\* A new audit row is the first of its action and attempt, claims no other attempt's
\* status, and says completed only of a confirmed attempt.
LEMMA AuditStep ==
    ASSUME IInv, [Next]_vars
    PROVE  AuditTruthful'
<1> USE DEF vars, registro, marcador, invocacion, remoto
<1>0. /\ auditoria \subseteq auditoria'
      /\ confirmados \subseteq confirmados'
      /\ estado = "COMPLETADA" => estado' = "COMPLETADA" /\ intentos' = intentos
  BY EvidenciaEstable
<1>1. AuditTruthful /\ RegistroOK /\ RegistroTypeOK BY DEF IInv, TypeOK
<1>2. CASE auditoria' = auditoria
  BY <1>0, <1>1, <1>2 DEF AuditTruthful
<1>3. ASSUME NEW w \in Workers, WithOutcomeAudit(w) \/ FalloAuditoria(w), EscribirAuditoria(w)
      PROVE  AuditTruthful'
  <2> DEFINE Nuevas == {[accion |-> a, intento |-> intentos, http |-> statusHttp(w)] :
                           a \in {b \in acciones : ~Auditada(b, intentos)}}
  <2>1. auditoria' = auditoria \cup Nuevas BY <1>3 DEF EscribirAuditoria
  <2>2. UNCHANGED <<estado, intentos, confirmados>>
    BY <1>3 DEF WithOutcomeAudit, FalloAuditoria
  <2>3. ASSUME NEW x \in Nuevas
        PROVE  /\ x.intento = intentos /\ x.http \in {0, intentos}
               /\ x.accion \in acciones /\ ~Auditada(x.accion, intentos)
               /\ x = [accion |-> x.accion, intento |-> intentos, http |-> statusHttp(w)]
    <3>1. PICK a \in {b \in acciones : ~Auditada(b, intentos)} :
             x = [accion |-> a, intento |-> intentos, http |-> statusHttp(w)]
      OBVIOUS
    <3>2. statusHttp(w) \in {0, intentos} BY DEF statusHttp
    <3>3. QED BY <3>1, <3>2
  <2>4. ASSUME NEW x \in auditoria', NEW y \in auditoria', x.accion = y.accion, x.intento = y.intento
        PROVE  x = y
    <3>1. CASE x \in auditoria /\ y \in auditoria BY <1>1, <2>4, <3>1 DEF AuditTruthful
    <3>2. CASE x \in Nuevas /\ y \in Nuevas BY <2>3, <2>4, <3>2
    <3>3. CASE x \in auditoria /\ y \in Nuevas BY <2>3, <2>4, <3>3 DEF Auditada
    <3>4. CASE x \in Nuevas /\ y \in auditoria BY <2>3, <2>4, <3>4 DEF Auditada
    <3>5. QED BY <2>1, <3>1, <3>2, <3>3, <3>4
  <2>5. ASSUME NEW x \in auditoria' PROVE x.http \in {0, x.intento}
    BY <1>1, <2>1, <2>3 DEF AuditTruthful
  <2>6. ASSUME NEW x \in auditoria', x.accion = "ACTIVACION_G1_COMPLETADA"
        PROVE  estado' = "COMPLETADA" /\ x.intento = intentos' /\ x.intento \in confirmados'
    <3>1. CASE x \in auditoria BY <1>1, <2>2, <2>6, <3>1 DEF AuditTruthful
    <3>2. CASE x \in Nuevas
      <4>1. estado = "COMPLETADA" BY <2>3, <2>6, <3>2 DEF acciones
      <4>2. QED BY <1>1, <2>2, <2>3, <3>2, <4>1 DEF RegistroOK
    <3>3. QED BY <2>1, <3>1, <3>2
  <2>7. QED BY <2>4, <2>5, <2>6 DEF AuditTruthful
<1>4. \/ auditoria' = auditoria
      \/ \E w \in Workers : (WithOutcomeAudit(w) \/ FalloAuditoria(w)) /\ EscribirAuditoria(w)
  BY DEF Next, PasoDe, RecoverPostClosure, AuditarG3, AfterG3Completion, MarcarG1, Retry, Dispatch,
     Claim, SendActivation, SaveOutcome, Releer, WithOutcomeAudit, FalloAuditoria,
     FalloAuditoriaG3, FalloGuardar, Excepcion, Abortar, ExpirarReserva
<1>5. QED BY <1>2, <1>3, <1>4

\* The marker follows what is reported to it, which is behind the evidence.
LEMMA MarcaStep ==
    ASSUME IInv, [Next]_vars
    PROVE  MarkerBehindEvidence'
<1> USE DEF vars, registro, marcador, invocacion, remoto
<1>0. /\ estado = "COMPLETADA" => estado' = "COMPLETADA"
      /\ MarkerBehindEvidence /\ MarcadorTypeOK /\ InformesOK
  BY EvidenciaEstable DEF IInv, TypeOK
<1>1. ASSUME NEW w \in Workers, MarcarG1(w) PROVE MarkerBehindEvidence'
  <2>1. UNCHANGED <<estado, intentos, auditoria, auditoriasG3, marcaAudit>> /\ pc[w] = "marcar"
    BY <1>1 DEF MarcarG1
  <2>2. (\A a \in acciones : Auditada(a, intentos))' <=> \A a \in acciones : Auditada(a, intentos)
    BY <2>1 DEF acciones, Auditada
  <2>3. CASE UNCHANGED <<marcaG1, marcaPend>>
    BY <1>0, <2>1, <2>2, <2>3, Zenon DEF MarkerBehindEvidence
  <2>4. CASE marcaG1' = out[w] /\ marcaPend' = outPend[w]
    <3>1. marcaG1' = "COMPLETADA" => estado' = "COMPLETADA"
      BY <1>0, <2>1, <2>4 DEF InformesOK, InformeOK
    <3>2. marcaG1' = "COMPLETADA" /\ ~marcaPend' => \A a \in acciones : Auditada(a, intentos)
      BY <1>0, <2>1, <2>4, Zenon DEF InformesOK, InformeOK
    <3>3. auditoriasG3' = IF marcaAudit' = "COMPLETADA" THEN 1 ELSE 0
      BY <1>0, <2>1 DEF MarkerBehindEvidence
    <3>4. QED BY <2>2, <3>1, <3>2, <3>3, Zenon DEF MarkerBehindEvidence
  <2>5. QED BY <1>1, <2>3, <2>4 DEF MarcarG1
<1>2. CASE UNCHANGED <<marcaG1, marcaPend>>
           /\ auditoriasG3' = IF marcaAudit' = "COMPLETADA" THEN 1 ELSE 0
  <2>1. marcaG1' = "COMPLETADA" => estado' = "COMPLETADA"
    BY <1>0, <1>2 DEF MarkerBehindEvidence
  <2>2. ASSUME marcaG1' = "COMPLETADA", ~marcaPend'
        PROVE  (\A a \in acciones : Auditada(a, intentos))'
    <3>1. ~marcaPend BY <1>2, <2>2
    <3>2. marcaG1 = "COMPLETADA" BY <1>2, <2>2
    <3>3. estado = "COMPLETADA" /\ \A a \in acciones : Auditada(a, intentos)
      BY <1>0, <3>1, <3>2, Zenon DEF MarkerBehindEvidence
    <3>4. QED BY <3>3, AuditadasEstables
  <2>3. QED BY <1>2, <2>1, <2>2, Zenon DEF MarkerBehindEvidence
<1>3. ASSUME NEW w \in Workers, AuditarG3(w) PROVE MarkerBehindEvidence'
  <2>1. auditoriasG3' = IF marcaAudit' = "COMPLETADA" THEN 1 ELSE 0
    BY <1>0, <1>3 DEF AuditarG3, MarkerBehindEvidence, MarcadorTypeOK
  <2>2. QED BY <1>2, <1>3, <2>1 DEF AuditarG3
<1>4. CASE UNCHANGED marcador
  BY <1>0, <1>2, <1>4 DEF MarkerBehindEvidence
<1>5. QED
  BY <1>1, <1>3, <1>4 DEF Next, PasoDe, RecoverPostClosure, AfterG3Completion, Retry, Dispatch, Claim,
     SendActivation, SaveOutcome, Releer, WithOutcomeAudit, FalloAuditoria,
     FalloAuditoriaG3, FalloGuardar, Excepcion, Abortar, ExpirarReserva

\* The invariant is inductive.
LEMMA InvStep == IInv /\ [Next]_vars => IInv'
  BY TypeStep, RegistroStep, EnviosStep, UnicosStep, InformesStep, AuditStep, MarcaStep DEF IInv

\* The inductive invariant always holds, for every number of concurrent recoveries,
\* explicit retries and failures.
THEOREM InvCorrect == Spec => []IInv
  BY InvInit, InvStep, PTL DEF Spec

(***************************************************************************)
(* What follows from it.                                                   *)
(***************************************************************************)

\* The five-minute lease of dispatch lets one invocation send at a time.
THEOREM OneRequestInFlightCorrect == Spec => []OneRequestInFlight
<1>1. IInv => OneRequestInFlight
  BY DEF IInv, EnviosOK, EnvioOK, IntentosUnicos, OneRequestInFlight
<1>2. QED BY <1>1, InvCorrect, PTL

\* However often a closure is repeated, recoverPostClosure sends its activation once.
THEOREM AutomaticSendsOnceCorrect == Spec => []AutomaticSendsOnce
<1>1. IInv => AutomaticSendsOnce BY DEF IInv, RegistroOK
<1>2. QED BY <1>1, InvCorrect, PTL

\* The audit rows that withOutcomeAudit writes, late or repeated, are unique and true.
THEOREM AuditTruthfulCorrect == Spec => []AuditTruthful
<1>1. IInv => AuditTruthful BY DEF IInv
<1>2. QED BY <1>1, InvCorrect, PTL

\* The closure's marker never claims an activation or an audit that is not there.
THEOREM MarkerBehindEvidenceCorrect == Spec => []MarkerBehindEvidence
<1>1. IInv => MarkerBehindEvidence BY DEF IInv
<1>2. QED BY <1>1, InvCorrect, PTL

\* A confirmed activation is final and was confirmed by its own attempt.
THEOREM CompletionIsFinalCorrect == Spec => CompletionIsFinal
<1> DEFINE Final ==
      /\ estado = "COMPLETADA" => estado' = "COMPLETADA" /\ envios' = envios
      /\ estado' = "COMPLETADA" => intentos' \in confirmados'
<1>1. IInv /\ IInv' /\ [Next]_vars => [Final]_vars
  <2> SUFFICES ASSUME IInv, IInv', [Next]_vars PROVE Final
    OBVIOUS
  <2>1. estado = "COMPLETADA" => estado' = "COMPLETADA" /\ envios' = envios
    BY EvidenciaEstable
  <2>2. estado' = "COMPLETADA" => intentos' \in confirmados'
    BY DEF IInv, RegistroOK
  <2>3. QED BY <2>1, <2>2
<1>2. QED BY <1>1, InvCorrect, PTL DEF Spec, CompletionIsFinal

\* A slow recovery never takes a confirmed activation back from the closure's marker.
THEOREM MarkerNeverDemotedCorrect == Spec => MarkerNeverDemoted
<1> DEFINE Firme ==
      marcaG1 = "COMPLETADA" => marcaG1' = "COMPLETADA" /\ (~marcaPend => ~marcaPend')
<1>1. [Next]_vars => [Firme]_vars
  <2> SUFFICES ASSUME [Next]_vars PROVE Firme
    OBVIOUS
  <2> USE DEF vars, registro, marcador, invocacion, remoto
  <2>1. ASSUME NEW w \in Workers, MarcarG1(w) PROVE Firme
    <3>1. CASE UNCHANGED <<marcaG1, marcaPend>> BY <3>1
    <3>2. CASE ~UNCHANGED <<marcaG1, marcaPend>>
      BY <2>1, <3>2, Zenon DEF MarcarG1
    <3>3. QED BY <3>1, <3>2
  <2>2. CASE UNCHANGED <<marcaG1, marcaPend>> BY <2>2
  <2>3. QED
    BY <2>1, <2>2 DEF Next, PasoDe, RecoverPostClosure, AuditarG3, AfterG3Completion, Retry, Dispatch,
       Claim, SendActivation, SaveOutcome, Releer, WithOutcomeAudit, FalloAuditoria,
       FalloAuditoriaG3, FalloGuardar, Excepcion, Abortar, ExpirarReserva
<1>2. QED BY <1>1, PTL DEF Spec, MarkerNeverDemoted
================================================================================
