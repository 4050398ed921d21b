--------------------------- MODULE TaxDelivery_proofs --------------------------
(***************************************************************************)
(* For any number of invocations, attempts and failures: the customer gets *)
(* an issued document at most once, what the delivery's state says is      *)
(* true, and a retry that is announced can be made (TaxDelivery.tla).      *)
(***************************************************************************)
EXTENDS TaxDelivery, TLAPS

USE DEF fila, email, invocacion, entorno

LEMMA LecturaTipo == SinLectura \in Lectura /\ (TypeOK => Fila \in Lectura)
  BY DEF SinLectura, Lectura, EstadosEmail, Artefactos, TypeOK, Fila

--------------------------------------------------------------------------------
(* Types. *)

\* Forgetting what an invocation held, and moving it on.
LEMMA SoltarType ==
    ASSUME TypeOK, NEW w \in Workers, Soltar(w)
    PROVE  /\ pc' \in [Workers -> Pasos]
           /\ explicito' \in [Workers -> BOOLEAN]
           /\ paraQuien' \in [Workers -> BOOLEAN]
           /\ leido' \in [Workers -> Lectura]
           /\ res' \in [Workers -> Resultados]
  BY LecturaTipo DEF TypeOK, Soltar, Pasos, Resultados

LEMMA SeguirType ==
    ASSUME TypeOK, NEW w \in Workers, NEW paso \in Pasos, Seguir(w, paso)
    PROVE  /\ pc' \in [Workers -> Pasos]
           /\ explicito' \in [Workers -> BOOLEAN]
           /\ paraQuien' \in [Workers -> BOOLEAN]
           /\ leido' \in [Workers -> Lectura]
           /\ res' \in [Workers -> Resultados]
  BY DEF TypeOK, Seguir

LEMMA EntrarType ==
    ASSUME TypeOK, NEW w \in Workers, NEW paso \in Pasos, NEW e \in BOOLEAN, Entrar(w, paso, e)
    PROVE  TypeOK'
  BY DEF TypeOK, Entrar

LEMMA PasoType == ASSUME TypeOK, NEW w \in Workers, Paso(w) PROVE TypeOK'
<1>1. CASE CerrarTrabajo(w)
  BY <1>1 DEF TypeOK, CerrarTrabajo, Pasos
<1>2. CASE Leer(w)
  <2>1. CASE Soltar(w)
    BY <1>2, <2>1, SoltarType DEF Leer, TypeOK
  <2>2. CASE ~Soltar(w)
    BY <1>2, <2>2, LecturaTipo DEF Leer, TypeOK, Pasos
  <2>3. QED BY <2>1, <2>2
<1>3. CASE ObtenerEnlace(w)
  <2>1. enlace' \in Enlaces \cup {SinEnlace} /\ artefacto' \in Artefactos
    BY <1>3 DEF ObtenerEnlace, Artefactos
  <2>2. CASE Soltar(w)
    BY <1>3, <2>1, <2>2, SoltarType DEF ObtenerEnlace, TypeOK
  <2>3. CASE Seguir(w, "descargar")
    BY <1>3, <2>1, <2>3, SeguirType DEF ObtenerEnlace, TypeOK, Pasos
  <2>4. QED BY <1>3, <2>2, <2>3 DEF ObtenerEnlace
<1>4. CASE EnlaceFallido(w)
  BY <1>4, SoltarType DEF EnlaceFallido, TypeOK, Artefactos
<1>5. CASE DescargarPdf(w)
  BY <1>5, SeguirType DEF DescargarPdf, TypeOK, Artefactos, Pasos
<1>6. CASE PdfFallido(w)
  BY <1>6, SoltarType DEF PdfFallido, TypeOK, Artefactos
<1>7. CASE SinEntrega(w)
  <2>1. emailEstado' \in EstadosEmail
    BY <1>7 DEF SinEntrega, TypeOK, EstadosEmail
  <2>2. QED BY <1>7, <2>1, SoltarType DEF SinEntrega, TypeOK
<1>8. CASE Reclamar(w)
  <2>0. emailEstado' = "EN_PROCESO" /\ emailIntentos' = emailIntentos + 1 /\ espera' = FALSE
    BY <1>8 DEF Reclamar
  <2>1. emailEstado' \in EstadosEmail /\ espera' \in BOOLEAN
    BY <2>0 DEF EstadosEmail
  <2>2. emailIntentos' \in Nat
    BY <2>0 DEF TypeOK
  <2>3. Seguir(w, "enviar") /\ "enviar" \in Pasos
    BY <1>8 DEF Reclamar, Pasos
  <2>4. QED BY <1>8, <2>1, <2>2, <2>3, SeguirType DEF Reclamar, TypeOK
<1>9. CASE NoReclamar(w)
  BY <1>9, SoltarType DEF NoReclamar, TypeOK
<1>10. CASE \E r \in Resultados, llega \in BOOLEAN : Enviar(w, r, llega)
  BY <1>10 DEF Enviar, TypeOK, Pasos
<1>11. CASE Anotar(w)
  <2>1. EstadoFinal(w) \in EstadosEmail /\ Reintenta(w) \in BOOLEAN
    BY DEF EstadoFinal, EstadosEmail, Reintenta
  <2>2. emailEstado' \in EstadosEmail /\ espera' \in BOOLEAN
    BY <1>11, <2>1 DEF Anotar, TypeOK
  <2>3. QED BY <1>11, <2>2, SoltarType DEF Anotar, TypeOK
<1>12. QED
  BY <1>1, <1>2, <1>3, <1>4, <1>5, <1>6, <1>7, <1>8, <1>9, <1>10, <1>11 DEF Paso

LEMMA TypeStep == TypeOK /\ [Next]_vars => TypeOK'
<1> SUFFICES ASSUME TypeOK, [Next]_vars PROVE TypeOK'
  OBVIOUS
<1>1. ASSUME NEW w \in Workers, Invocacion(w) PROVE TypeOK'
  <2>1. CASE ProcessPayment(w)
    BY <2>1, EntrarType DEF ProcessPayment, Pasos
  <2>2. CASE RecoverArtifacts(w)
    BY <2>2, EntrarType DEF RecoverArtifacts, Pasos
  <2>3. CASE Abortar(w)
    BY <2>3, SoltarType DEF Abortar, TypeOK
  <2>4. QED BY <1>1, <2>1, <2>2, <2>3, PasoType DEF Invocacion
<1>2. CASE DrainPending
  BY <1>2, EntrarType, DeliveryConstants DEF DrainPending, DeliveryConstants, Pasos
<1>3. CASE Vencer
  BY <1>3 DEF Vencer, TypeOK
<1>4. CASE QuarantineEmail
  BY <1>4 DEF QuarantineEmail, TypeOK, EstadosEmail
<1>5. CASE CorrectRecipient
  BY <1>5 DEF CorrectRecipient, TypeOK, EstadosEmail
<1>6. CASE ReconcileEmail
  BY <1>6 DEF ReconcileEmail, TypeOK, EstadosEmail
<1>7. ASSUME NEW modo \in Modos, Reiniciar(modo) PROVE TypeOK'
  BY <1>7, LecturaTipo DEF Reiniciar, TypeOK, Pasos, Resultados
<1>8. CASE UNCHANGED vars
  BY <1>8 DEF vars, TypeOK
<1>9. QED BY <1>1, <1>2, <1>3, <1>4, <1>5, <1>6, <1>7, <1>8 DEF Next

LEMMA InitType == Init => TypeOK
<1> SUFFICES ASSUME Init PROVE TypeOK
  OBVIOUS
<1>1. /\ job \in {"PENDIENTE", "PROCESADO"}
      /\ enlace \in Enlaces \cup {SinEnlace}
      /\ artefacto \in Artefactos
  BY DEF Init, Artefactos
<1>2. emailEstado \in EstadosEmail
  BY DEF Init, EstadosEmail
<1>3. /\ pc \in [Workers -> Pasos]
      /\ explicito \in [Workers -> BOOLEAN]
      /\ paraQuien \in [Workers -> BOOLEAN]
      /\ leido \in [Workers -> Lectura]
      /\ res \in [Workers -> Resultados]
  BY LecturaTipo DEF Init, Pasos, Resultados
<1>4. QED BY <1>1, <1>2, <1>3 DEF Init, TypeOK

\* The delivery keeps its types whatever the invocations, operators and failures do.
THEOREM TypeCorrect == Spec => []TypeOK
  BY InitType, TypeStep, PTL DEF Spec

--------------------------------------------------------------------------------
(* One mail. *)

\* A step after which fewer attempts are on their way, nothing was accepted, and the
\* state is as it was or one that does not allow another mail.
LEMMA SinEnvioNuevo ==
    ASSUME IInv, TypeOK', aceptados' = aceptados,
           \A w \in Workers : EnVuelo(w)' => pc'[w] = pc[w] /\ res'[w] = res[w],
           \/ emailEstado' = emailEstado
           \/ emailEstado' = "RESULTADO_INDETERMINADO" /\ emailEstado = "EN_PROCESO"
           \/ /\ emailEstado \in {"PENDIENTE", "NO_CONFIGURADO", "SIN_DESTINATARIO"}
              /\ emailEstado' \in {"PENDIENTE", "NO_CONFIGURADO", "SIN_DESTINATARIO"}
    PROVE  IInv'
<1>1. \A w \in Workers : EnVuelo(w)' => EnVuelo(w) /\ pc'[w] = pc[w] /\ res'[w] = res[w]
  BY DEF EnVuelo
<1>2. EntregaUnica'
  BY <1>1 DEF IInv, EntregaUnica, PorEnviar
<1>3. UnIntento'
  <2>1. \A v, w \in Workers : EnVuelo(v)' /\ EnVuelo(w)' => v = w
    BY <1>1 DEF IInv, UnIntento
  <2>2. \A w \in Workers : EnVuelo(w)' => emailEstado' \in {"EN_PROCESO", "RESULTADO_INDETERMINADO", "ENVIADO"}
    BY <1>1 DEF IInv, UnIntento
  <2>3. \A w \in Workers : pc'[w] = "enviar" => aceptados' = 0
    BY <1>1 DEF IInv, UnIntento, EnVuelo
  <2>4. \A w \in Workers : pc'[w] = "anotar" => /\ res'[w] = "enviado" => aceptados' = 1
                                                /\ res'[w] \notin {"enviado", "incierto"} => aceptados' = 0
    BY <1>1 DEF IInv, UnIntento, EnVuelo
  <2>5. QED BY <2>1, <2>2, <2>3, <2>4 DEF UnIntento
<1>4. QED BY <1>2, <1>3 DEF IInv

\* An invocation that ends, or goes on short of its claim, sends nothing.
LEMMA SoltarLibre ==
    ASSUME TypeOK, NEW w \in Workers, Soltar(w)
    PROVE  \A v \in Workers : pc'[v] # "libre" => pc'[v] = pc[v] /\ res'[v] = res[v]
  BY DEF TypeOK, Soltar

LEMMA SeguirCorto ==
    ASSUME TypeOK, NEW w \in Workers, NEW paso \in Pasos \ {"enviar", "anotar"},
           pc' = [pc EXCEPT ![w] = paso], res' = res
    PROVE  \A v \in Workers : EnVuelo(v)' => pc'[v] = pc[v] /\ res'[v] = res[v]
  BY DEF TypeOK, EnVuelo

LEMMA ReclamarStep == ASSUME IInv, TypeOK', NEW w \in Workers, Reclamar(w) PROVE IInv'
<1>1. /\ emailEstado \in PorEnviar \cup {"FALLIDO"}
      /\ emailEstado' = "EN_PROCESO"
      /\ aceptados' = aceptados
      /\ pc' = [pc EXCEPT ![w] = "enviar"]
  BY DEF Reclamar, Reclamable, Elegibles, Seguir
<1>2. aceptados = 0 /\ \A v \in Workers : ~EnVuelo(v)
  BY <1>1 DEF IInv, EntregaUnica
<1>3. pc'[w] = "enviar" /\ \A v \in Workers : v # w => ~EnVuelo(v)'
  BY <1>1, <1>2 DEF IInv, TypeOK, EnVuelo
<1>4. EntregaUnica'
  BY <1>1, <1>2 DEF EntregaUnica, PorEnviar
<1>5. UnIntento'
  BY <1>1, <1>2, <1>3 DEF UnIntento, EnVuelo
<1>6. QED BY <1>4, <1>5 DEF IInv

LEMMA EnviarStep ==
    ASSUME IInv, TypeOK', NEW w \in Workers, NEW r \in Resultados, NEW llega \in BOOLEAN, Enviar(w, r, llega)
    PROVE  IInv'
<1>1. /\ pc[w] = "enviar" /\ pc' = [pc EXCEPT ![w] = "anotar"] /\ res' = [res EXCEPT ![w] = r]
      /\ emailEstado' = emailEstado
      /\ aceptados' = (IF llega THEN aceptados + 1 ELSE aceptados)
      /\ r = "enviado" => llega
      /\ llega => r \in {"enviado", "incierto"}
  BY DEF Enviar
<1>2. /\ EnVuelo(w) /\ aceptados = 0
      /\ \A v \in Workers : v # w => ~EnVuelo(v)
      /\ emailEstado \in {"EN_PROCESO", "RESULTADO_INDETERMINADO", "ENVIADO"}
  BY <1>1 DEF IInv, UnIntento, EnVuelo
<1>3. emailEstado # "ENVIADO"
  BY <1>2 DEF IInv, EntregaUnica
<1>4. pc'[w] = "anotar" /\ res'[w] = r /\ \A v \in Workers : v # w => ~EnVuelo(v)'
  BY <1>1, <1>2 DEF IInv, TypeOK, EnVuelo
<1>5. aceptados' \in {0, 1} /\ (r = "enviado" => aceptados' = 1) /\ (r \notin {"enviado", "incierto"} => aceptados' = 0)
  BY <1>1, <1>2
<1>6. EntregaUnica'
  BY <1>1, <1>2, <1>3, <1>5 DEF EntregaUnica, PorEnviar
<1>7. UnIntento'
  BY <1>1, <1>2, <1>4, <1>5 DEF UnIntento, EnVuelo
<1>8. QED BY <1>6, <1>7 DEF IInv

LEMMA AnotarStep == ASSUME IInv, TypeOK', NEW w \in Workers, Anotar(w) PROVE IInv'
<1>1. pc[w] = "anotar" /\ aceptados' = aceptados
  BY DEF Anotar
<1>2. \A v \in Workers : EnVuelo(v)' => pc'[v] = pc[v] /\ res'[v] = res[v]
  BY SoltarLibre DEF Anotar, IInv, EnVuelo
<1>3. CASE emailEstado # "EN_PROCESO"
  BY <1>1, <1>2, <1>3, SinEnvioNuevo DEF Anotar
<1>4. CASE emailEstado = "EN_PROCESO"
  <2>1. emailEstado' = EstadoFinal(w)
    BY <1>4 DEF Anotar
  <2>2. pc'[w] = "libre"
    BY DEF Anotar, Soltar, IInv, TypeOK
  <2>3. \A v \in Workers : ~EnVuelo(v)'
    BY <1>1, <1>2, <2>2 DEF IInv, UnIntento, EnVuelo
  <2>4. /\ aceptados \in {0, 1}
        /\ res[w] = "enviado" => aceptados = 1
        /\ res[w] \notin {"enviado", "incierto"} => aceptados = 0
    BY <1>1 DEF IInv, TypeOK, UnIntento, EntregaUnica
  <2>5. /\ EstadoFinal(w) = "ENVIADO" => res[w] = "enviado"
        /\ EstadoFinal(w) \in PorEnviar \cup {"FALLIDO", "SIN_DESTINATARIO"} => res[w] \notin {"enviado", "incierto"}
    BY DEF EstadoFinal, PorEnviar
  <2>6. EntregaUnica'
    BY <1>1, <2>1, <2>3, <2>4, <2>5 DEF EntregaUnica
  <2>7. UnIntento'
    BY <2>3 DEF UnIntento, EnVuelo
  <2>8. QED BY <2>6, <2>7 DEF IInv
<1>5. QED BY <1>3, <1>4

LEMMA PasoInv == ASSUME IInv, TypeOK', NEW w \in Workers, Paso(w) PROVE IInv'
<1>1. CASE CerrarTrabajo(w)
  BY <1>1, SeguirCorto, SinEnvioNuevo DEF CerrarTrabajo, IInv, Pasos
<1>2. CASE Leer(w)
  <2>1. CASE Soltar(w)
    BY <1>2, <2>1, SoltarLibre, SinEnvioNuevo DEF Leer, IInv, EnVuelo
  <2>2. CASE ~Soltar(w)
    BY <1>2, <2>2, SeguirCorto, SinEnvioNuevo DEF Leer, IInv, Pasos
  <2>3. QED BY <2>1, <2>2
<1>3. CASE ObtenerEnlace(w)
  <2>1. CASE Soltar(w)
    BY <1>3, <2>1, SoltarLibre, SinEnvioNuevo DEF ObtenerEnlace, IInv, EnVuelo
  <2>2. CASE Seguir(w, "descargar")
    BY <1>3, <2>2, SeguirCorto, SinEnvioNuevo DEF ObtenerEnlace, Seguir, IInv, Pasos
  <2>3. QED BY <1>3, <2>1, <2>2 DEF ObtenerEnlace
<1>4. CASE EnlaceFallido(w)
  BY <1>4, SoltarLibre, SinEnvioNuevo DEF EnlaceFallido, IInv, EnVuelo
<1>5. CASE DescargarPdf(w)
  BY <1>5, SeguirCorto, SinEnvioNuevo DEF DescargarPdf, Seguir, IInv, Pasos
<1>6. CASE PdfFallido(w)
  BY <1>6, SoltarLibre, SinEnvioNuevo DEF PdfFallido, IInv, EnVuelo
<1>7. CASE SinEntrega(w)
  <2>1. \A v \in Workers : EnVuelo(v)' => pc'[v] = pc[v] /\ res'[v] = res[v]
    BY <1>7, SoltarLibre DEF SinEntrega, IInv, EnVuelo
  <2>2. aceptados' = aceptados
    BY <1>7 DEF SinEntrega
  <2>3. \/ emailEstado' = emailEstado
        \/ /\ emailEstado \in {"PENDIENTE", "NO_CONFIGURADO"}
           /\ emailEstado' \in {"NO_CONFIGURADO", "SIN_DESTINATARIO"}
    BY <1>7 DEF SinEntrega
  <2>4. QED BY <2>1, <2>2, <2>3, SinEnvioNuevo
<1>8. CASE Reclamar(w)
  BY <1>8, ReclamarStep
<1>9. CASE NoReclamar(w)
  BY <1>9, SoltarLibre, SinEnvioNuevo DEF NoReclamar, IInv, EnVuelo
<1>10. CASE \E r \in Resultados, llega \in BOOLEAN : Enviar(w, r, llega)
  BY <1>10, EnviarStep
<1>11. CASE Anotar(w)
  BY <1>11, AnotarStep
<1>12. QED
  BY <1>1, <1>2, <1>3, <1>4, <1>5, <1>6, <1>7, <1>8, <1>9, <1>10, <1>11 DEF Paso

LEMMA EntrarInv ==
    ASSUME IInv, TypeOK', NEW w \in Workers, NEW paso \in Pasos \ {"enviar", "anotar"}, NEW e \in BOOLEAN, Entrar(w, paso, e)
    PROVE  IInv'
  BY SeguirCorto, SinEnvioNuevo DEF Entrar, IInv

\* A declaration of the operator, who waits for the attempt to end.
LEMMA ReconcileStep == ASSUME OperadorEspera, IInv, TypeOK', ReconcileEmail PROVE IInv'
<1>1. /\ emailEstado' = (IF aceptados > 0 THEN "ENVIADO" ELSE "FALLIDO")
      /\ aceptados' = aceptados /\ pc' = pc /\ res' = res
      /\ aceptados > 0 \/ ~\E w \in Workers : EnVuelo(w)
  BY DEF ReconcileEmail
<1>2. aceptados \in {0, 1}
  BY DEF IInv, TypeOK, EntregaUnica
<1>3. \A w \in Workers : EnVuelo(w)' = EnVuelo(w)
  BY <1>1 DEF EnVuelo
<1>4. EntregaUnica'
  BY <1>1, <1>2, <1>3 DEF EntregaUnica, PorEnviar
<1>5. UnIntento'
  BY <1>1, <1>2, <1>3 DEF IInv, UnIntento, EnVuelo
<1>6. QED BY <1>4, <1>5 DEF IInv

LEMMA InvStep == ASSUME OperadorEspera PROVE IInv /\ [Next]_vars => IInv'
<1> SUFFICES ASSUME IInv, [Next]_vars PROVE IInv'
  OBVIOUS
<1>0. TypeOK'
  BY TypeStep DEF IInv
<1>1. ASSUME NEW w \in Workers, Invocacion(w) PROVE IInv'
  <2>1. CASE ProcessPayment(w)
    BY <1>0, <2>1, EntrarInv DEF ProcessPayment, Pasos
  <2>2. CASE RecoverArtifacts(w)
    BY <1>0, <2>2, EntrarInv DEF RecoverArtifacts, Pasos
  <2>3. CASE Abortar(w)
    BY <1>0, <2>3, SoltarLibre, SinEnvioNuevo DEF Abortar, IInv, EnVuelo
  <2>4. QED BY <1>0, <1>1, <2>1, <2>2, <2>3, PasoInv DEF Invocacion
<1>2. CASE DrainPending
  BY <1>0, <1>2, EntrarInv, DeliveryConstants DEF DrainPending, DeliveryConstants, Pasos
<1>3. CASE Vencer
  BY <1>0, <1>3, SinEnvioNuevo DEF Vencer
<1>4. CASE QuarantineEmail
  BY <1>0, <1>4, SinEnvioNuevo DEF QuarantineEmail
<1>5. CASE CorrectRecipient
  BY <1>0, <1>5, SinEnvioNuevo DEF CorrectRecipient
<1>6. CASE ReconcileEmail
  BY <1>0, <1>6, ReconcileStep
<1>7. ASSUME NEW modo \in Modos, Reiniciar(modo) PROVE IInv'
  BY <1>0, <1>7, SinEnvioNuevo DEF Reiniciar, EnVuelo
<1>8. CASE UNCHANGED vars
  BY <1>0, <1>8, SinEnvioNuevo DEF vars
<1>9. QED BY <1>1, <1>2, <1>3, <1>4, <1>5, <1>6, <1>7, <1>8 DEF Next

LEMMA InitInv == Init => IInv
  BY InitType DEF Init, IInv, EntregaUnica, UnIntento, EnVuelo

\* If an operator declares "not accepted" only once the attempt is over, the customer
\* gets the document at most once and the state of the delivery is true.
THEOREM InvCorrect == ASSUME OperadorEspera PROVE Spec => []IInv
  BY InitInv, InvStep, PTL DEF Spec

THEOREM EntregaUnicaCorrect == ASSUME OperadorEspera PROVE Spec => []EntregaUnica
<1>1. IInv => EntregaUnica
  BY DEF IInv
<1>2. QED BY <1>1, InvCorrect, PTL

--------------------------------------------------------------------------------
(* The counter. *)

\* A step that makes no attempt, brings no invocation before its claim with an old
\* reading, and opens no delivery that an invocation missed.
LEMMA SinReclamo ==
    ASSUME IInv, ContadorVeraz, TypeOK',
           emailIntentos' = emailIntentos,
           \A w \in Workers :
               /\ leido'[w].intentos = leido[w].intentos \/ leido'[w].intentos = 0
                                                        \/ leido'[w].intentos = emailIntentos
               /\ pc'[w] \in {"enlazar", "descargar", "entregar"} /\ ~explicito'[w] =>
                      leido'[w].intentos = emailIntentos
                      \/ (/\ pc[w] \in {"enlazar", "descargar", "entregar"} /\ ~explicito[w]
                          /\ leido'[w].intentos = leido[w].intentos)
               /\ EnVuelo(w)' /\ ~explicito'[w] =>
                      EnVuelo(w) /\ ~explicito[w] /\ leido'[w].intentos = leido[w].intentos,
           espera' = espera,
           \/ emailEstado' = emailEstado
           \/ emailEstado' \in {"RESULTADO_INDETERMINADO", "ENVIADO", "FALLIDO"}
           \/ /\ emailEstado \in {"PENDIENTE", "NO_CONFIGURADO"}
              /\ emailEstado' \in {"NO_CONFIGURADO", "SIN_DESTINATARIO"}
    PROVE  ContadorVeraz'
<1>1. ReintentoPosible' /\ (emailEstado' \in {"PENDIENTE", "NO_CONFIGURADO", "SIN_DESTINATARIO"} => emailIntentos' = 0)
  BY DEF ContadorVeraz, ReintentoPosible
<1>2. emailEstado' \in PorEnviar => emailEstado \in PorEnviar
  BY DEF PorEnviar
<1>3. emailIntentos \in Nat /\ \A w \in Workers : leido[w].intentos \in Nat
  BY DEF IInv, TypeOK, Lectura
<1>4. ASSUME NEW w \in Workers
      PROVE  /\ leido'[w].intentos <= emailIntentos'
             /\ pc'[w] \in {"enlazar", "descargar", "entregar"} /\ ~explicito'[w] =>
                    leido'[w].intentos = emailIntentos' \/ emailEstado' \notin PorEnviar \/ espera'
             /\ EnVuelo(w)' /\ ~explicito'[w] /\ emailEstado' = "EN_PROCESO" =>
                    leido'[w].intentos + 1 = emailIntentos'
  <2>1. leido'[w].intentos <= emailIntentos'
    BY <1>3 DEF ContadorVeraz
  <2>2. pc'[w] \in {"enlazar", "descargar", "entregar"} /\ ~explicito'[w] =>
            leido'[w].intentos = emailIntentos' \/ emailEstado' \notin PorEnviar \/ espera'
    BY <1>2 DEF ContadorVeraz
  <2>3. EnVuelo(w)' /\ ~explicito'[w] /\ emailEstado' = "EN_PROCESO" => leido'[w].intentos + 1 = emailIntentos'
    BY DEF ContadorVeraz
  <2>4. QED BY <2>1, <2>2, <2>3
<1>5. QED BY <1>1, <1>4 DEF ContadorVeraz

\* What the end of an invocation does to its reading, and what its next step does.
LEMMA SoltarLectura ==
    ASSUME TypeOK, NEW w \in Workers, Soltar(w)
    PROVE  \A v \in Workers :
               /\ leido'[v].intentos = leido[v].intentos \/ leido'[v].intentos = 0
               /\ pc'[v] # "libre" => pc'[v] = pc[v] /\ explicito'[v] = explicito[v]
                                      /\ leido'[v] = leido[v] /\ v # w
  BY DEF TypeOK, Soltar, SinLectura

LEMMA SeguirLectura ==
    ASSUME TypeOK, NEW w \in Workers, NEW paso \in Pasos, pc' = [pc EXCEPT ![w] = paso]
    PROVE  pc'[w] = paso /\ \A v \in Workers : v # w => pc'[v] = pc[v]
  BY DEF TypeOK

\* Each way an invocation can end.
LEMMA SoltarContador ==
    ASSUME IInv, ContadorVeraz, TypeOK', NEW w \in Workers, Soltar(w),
           emailIntentos' = emailIntentos, espera' = espera,
           \/ emailEstado' = emailEstado
           \/ emailEstado' \in {"RESULTADO_INDETERMINADO", "ENVIADO", "FALLIDO"}
           \/ /\ emailEstado \in {"PENDIENTE", "NO_CONFIGURADO"}
              /\ emailEstado' \in {"NO_CONFIGURADO", "SIN_DESTINATARIO"}
    PROVE  ContadorVeraz'
<1>1. TypeOK
  BY DEF IInv
<1>2. \A v \in Workers :
          /\ leido'[v].intentos = leido[v].intentos \/ leido'[v].intentos = 0
          /\ pc'[v] # "libre" => pc'[v] = pc[v] /\ explicito'[v] = explicito[v] /\ leido'[v] = leido[v]
  BY <1>1, SoltarLectura
<1>3. QED BY <1>2, SinReclamo DEF EnVuelo

\* Each step of an invocation before its claim that keeps its reading.
LEMMA SeguirContador ==
    ASSUME IInv, ContadorVeraz, TypeOK', NEW w \in Workers, NEW paso \in Pasos,
           pc' = [pc EXCEPT ![w] = paso], explicito' = explicito, leido' = leido,
           paso \in {"enlazar", "descargar", "entregar"} => pc[w] \in {"enlazar", "descargar", "entregar"},
           paso \in {"enviar", "anotar"} => EnVuelo(w),
           UNCHANGED email
    PROVE  ContadorVeraz'
<1>1. TypeOK
  BY DEF IInv
<1>2. pc'[w] = paso /\ \A v \in Workers : v # w => pc'[v] = pc[v]
  BY <1>1, SeguirLectura
<1>3. QED BY <1>2, SinReclamo DEF EnVuelo

LEMMA LeerContador == ASSUME IInv, ContadorVeraz, TypeOK', NEW w \in Workers, Leer(w) PROVE ContadorVeraz'
<1>1. CASE Soltar(w)
  BY <1>1, SoltarContador DEF Leer
<1>2. CASE ~Soltar(w)
  <2>1. /\ pc' = [pc EXCEPT ![w] = IF PideEnlace(explicito[w], Fila) THEN "enlazar" ELSE "descargar"]
        /\ leido' = [leido EXCEPT ![w] = Fila]
        /\ explicito' = explicito
        /\ UNCHANGED email
    BY <1>2 DEF Leer
  <2>2. Fila.intentos = emailIntentos
    BY DEF Fila
  <2>3. pc'[w] \in {"enlazar", "descargar"} /\ leido'[w].intentos = emailIntentos
    BY <2>1, <2>2 DEF IInv, TypeOK
  <2>4. \A v \in Workers : v # w => pc'[v] = pc[v] /\ leido'[v] = leido[v]
    BY <2>1 DEF IInv, TypeOK
  <2>5. QED BY <2>1, <2>3, <2>4, SinReclamo DEF EnVuelo
<1>3. QED BY <1>1, <1>2

\* The claim raises the counter of the reading it rests on.
LEMMA ReclamarContador == ASSUME IInv, ContadorVeraz, TypeOK', NEW w \in Workers, Reclamar(w) PROVE ContadorVeraz'
<1>1. /\ emailEstado' = "EN_PROCESO"
      /\ emailIntentos' = emailIntentos + 1
      /\ pc' = [pc EXCEPT ![w] = "enviar"]
      /\ leido' = leido /\ explicito' = explicito
      /\ pc[w] = "entregar"
      /\ emailEstado \in PorEnviar \cup {"FALLIDO"}
      /\ ~explicito[w] => ~espera /\ emailEstado \in PorEnviar
  BY DEF Reclamar, Reclamable, Elegibles, Seguir
<1>2. \A v \in Workers : ~EnVuelo(v)
  BY <1>1 DEF IInv, EntregaUnica
<1>3. pc'[w] = "enviar" /\ \A v \in Workers : v # w => ~EnVuelo(v)'
  BY <1>1, <1>2 DEF IInv, TypeOK, EnVuelo
<1>4. ~explicito[w] => leido[w].intentos = emailIntentos
  BY <1>1 DEF ContadorVeraz
<1>5. emailIntentos \in Nat /\ \A v \in Workers : leido[v].intentos \in Nat
  BY DEF IInv, TypeOK, Lectura
<1>6. \A v \in Workers : leido'[v].intentos <= emailIntentos'
  BY <1>1, <1>5 DEF ContadorVeraz
<1>7. QED BY <1>1, <1>3, <1>4, <1>6 DEF ContadorVeraz, ReintentoPosible, PorEnviar

LEMMA AnotarContador == ASSUME IInv, ContadorVeraz, TypeOK', NEW w \in Workers, Anotar(w) PROVE ContadorVeraz'
<1>1. Soltar(w) /\ emailIntentos' = emailIntentos /\ pc[w] = "anotar"
  BY DEF Anotar
<1>2. CASE emailEstado # "EN_PROCESO"
  BY <1>1, <1>2, SoltarContador DEF Anotar
<1>3. CASE emailEstado = "EN_PROCESO" /\ ~Reintenta(w)
  <2>1. emailEstado' \in {"RESULTADO_INDETERMINADO", "ENVIADO", "FALLIDO", "SIMULADO"}
    BY <1>3 DEF Anotar, EstadoFinal
  <2>2. \A v \in Workers : leido'[v].intentos <= emailIntentos'
    BY <1>1, SoltarLectura DEF IInv, TypeOK, Lectura, ContadorVeraz
  <2>3. QED BY <2>1, <2>2 DEF ContadorVeraz, ReintentoPosible, PorEnviar
<1>4. CASE emailEstado = "EN_PROCESO" /\ Reintenta(w)
  <2>1. emailEstado' = "REINTENTO_PENDIENTE" /\ espera'
    BY <1>4 DEF Anotar, EstadoFinal, Reintenta
  <2>2. leido[w].intentos + 1 = emailIntentos /\ leido[w].intentos + 1 < MAX_EMAIL_ATTEMPTS
    BY <1>1, <1>4 DEF ContadorVeraz, EnVuelo, Reintenta
  <2>3. \A v \in Workers : leido'[v].intentos <= emailIntentos'
    BY <1>1, SoltarLectura DEF IInv, TypeOK, Lectura, ContadorVeraz
  <2>4. QED BY <1>1, <2>1, <2>2, <2>3 DEF ContadorVeraz, ReintentoPosible
<1>5. QED BY <1>2, <1>3, <1>4

LEMMA PasoContador == ASSUME IInv, ContadorVeraz, TypeOK', NEW w \in Workers, Paso(w) PROVE ContadorVeraz'
<1>1. CASE CerrarTrabajo(w)
  BY <1>1, SeguirContador DEF CerrarTrabajo, Pasos
<1>2. CASE Leer(w)
  BY <1>2, LeerContador
<1>3. CASE ObtenerEnlace(w)
  <2>1. CASE Soltar(w)
    BY <1>3, <2>1, SoltarContador DEF ObtenerEnlace
  <2>2. CASE Seguir(w, "descargar")
    BY <1>3, <2>2, SeguirContador DEF ObtenerEnlace, Seguir, Pasos
  <2>3. QED BY <1>3, <2>1, <2>2 DEF ObtenerEnlace
<1>4. CASE EnlaceFallido(w)
  BY <1>4, SoltarContador DEF EnlaceFallido
<1>5. CASE DescargarPdf(w)
  BY <1>5, SeguirContador DEF DescargarPdf, Seguir, Pasos
<1>6. CASE PdfFallido(w)
  BY <1>6, SoltarContador DEF PdfFallido
<1>7. CASE SinEntrega(w)
  <2>1. \/ emailEstado' = emailEstado
        \/ /\ emailEstado \in {"PENDIENTE", "NO_CONFIGURADO"}
           /\ emailEstado' \in {"NO_CONFIGURADO", "SIN_DESTINATARIO"}
    BY <1>7 DEF SinEntrega
  <2>2. QED BY <1>7, <2>1, SoltarContador DEF SinEntrega
<1>8. CASE Reclamar(w)
  BY <1>8, ReclamarContador
<1>9. CASE NoReclamar(w)
  BY <1>9, SoltarContador DEF NoReclamar
<1>10. CASE \E r \in Resultados, llega \in BOOLEAN : Enviar(w, r, llega)
  BY <1>10, SeguirContador DEF Enviar, EnVuelo, Pasos
<1>11. CASE Anotar(w)
  BY <1>11, AnotarContador
<1>12. QED
  BY <1>1, <1>2, <1>3, <1>4, <1>5, <1>6, <1>7, <1>8, <1>9, <1>10, <1>11 DEF Paso

LEMMA EntrarContador ==
    ASSUME IInv, ContadorVeraz, TypeOK', NEW w \in Workers, NEW e \in BOOLEAN,
           Entrar(w, "leer", e) \/ Entrar(w, "emitido", e)
    PROVE  ContadorVeraz'
<1>1. /\ pc'[w] \in {"leer", "emitido"}
      /\ leido' = leido /\ UNCHANGED email
      /\ \A v \in Workers : v # w => pc'[v] = pc[v] /\ explicito'[v] = explicito[v]
  BY DEF Entrar, IInv, TypeOK
<1>2. QED BY <1>1, SinReclamo DEF EnVuelo

\* The delay of a retry ends when no invocation that missed an attempt is before its claim.
LEMMA VencerContador == ASSUME PdfPuntual, IInv, ContadorVeraz, Vencer PROVE ContadorVeraz'
<1>1. /\ \A w \in Workers : pc[w] \in {"enlazar", "descargar", "entregar"} => leido[w].intentos = emailIntentos
      /\ UNCHANGED <<emailEstado, emailIntentos, pc, explicito, leido>>
  BY DEF Vencer
<1>2. \A w \in Workers : EnVuelo(w)' = EnVuelo(w)
  BY <1>1 DEF EnVuelo
<1>3. QED BY <1>1, <1>2 DEF ContadorVeraz, ReintentoPosible

LEMMA CorrectContador == ASSUME IInv, ContadorVeraz, CorrectRecipient PROVE ContadorVeraz'
<1>1. /\ emailIntentos = 0 /\ emailIntentos' = 0 /\ emailEstado' = "PENDIENTE"
      /\ UNCHANGED <<pc, explicito, leido>>
  BY DEF CorrectRecipient
<1>2. \A w \in Workers : leido'[w].intentos = 0
  BY <1>1 DEF ContadorVeraz, IInv, TypeOK, Lectura
<1>3. QED BY <1>1, <1>2 DEF ContadorVeraz, ReintentoPosible

LEMMA ContadorStep == ASSUME PdfPuntual PROVE IInv /\ IInv' /\ ContadorVeraz /\ [Next]_vars => ContadorVeraz'
<1> SUFFICES ASSUME IInv, IInv', ContadorVeraz, [Next]_vars PROVE ContadorVeraz'
  OBVIOUS
<1>0. TypeOK'
  BY DEF IInv
<1>1. ASSUME NEW w \in Workers, Invocacion(w) PROVE ContadorVeraz'
  <2>1. CASE ProcessPayment(w)
    BY <1>0, <2>1, EntrarContador DEF ProcessPayment
  <2>2. CASE RecoverArtifacts(w)
    BY <1>0, <2>2, EntrarContador DEF RecoverArtifacts
  <2>3. CASE Abortar(w)
    BY <1>0, <2>3, SoltarContador DEF Abortar
  <2>4. QED BY <1>0, <1>1, <2>1, <2>2, <2>3, PasoContador DEF Invocacion
<1>2. CASE DrainPending
  BY <1>0, <1>2, EntrarContador, DeliveryConstants DEF DrainPending, DeliveryConstants
<1>3. CASE Vencer
  BY <1>3, VencerContador
<1>4. ASSUME emailEstado' \in {"RESULTADO_INDETERMINADO", "ENVIADO", "FALLIDO"},
             UNCHANGED <<emailIntentos, pc, explicito, leido>>
      PROVE  ContadorVeraz'
  <2>1. \A w \in Workers : leido'[w].intentos <= emailIntentos'
    BY <1>4 DEF ContadorVeraz
  <2>2. QED BY <1>4, <2>1 DEF ContadorVeraz, ReintentoPosible, PorEnviar
<1>5. CASE QuarantineEmail
  BY <1>4, <1>5 DEF QuarantineEmail
<1>6. CASE ReconcileEmail
  BY <1>4, <1>6 DEF ReconcileEmail
<1>7. CASE CorrectRecipient
  BY <1>7, CorrectContador
<1>8. ASSUME NEW modo \in Modos, Reiniciar(modo) PROVE ContadorVeraz'
  <2>1. /\ \A w \in Workers : pc'[w] = "libre" /\ leido'[w].intentos = 0
        /\ UNCHANGED email
    BY <1>8 DEF Reiniciar, SinLectura
  <2>2. QED BY <1>0, <2>1, SinReclamo DEF EnVuelo
<1>9. CASE UNCHANGED vars
  BY <1>0, <1>9, SinReclamo DEF vars, EnVuelo
<1>10. QED BY <1>1, <1>2, <1>3, <1>5, <1>6, <1>7, <1>8, <1>9 DEF Next

LEMMA InitContador == Init => ContadorVeraz
  BY DEF Init, ContadorVeraz, ReintentoPosible, EnVuelo, SinLectura

\* If, besides, an invocation that read the delivery before an attempt is over before that
\* attempt's retry is due, a retry that is announced has an attempt left.
THEOREM ReintentoPosibleCorrect == ASSUME OperadorEspera, PdfPuntual PROVE Spec => []ReintentoPosible
<1>1. IInv /\ ContadorVeraz /\ [Next]_vars => (IInv /\ ContadorVeraz)'
  BY InvStep, ContadorStep
<1>2. ContadorVeraz => ReintentoPosible
  BY DEF ContadorVeraz
<1>3. QED BY <1>1, <1>2, InitInv, InitContador, PTL DEF Spec

--------------------------------------------------------------------------------
(* What is settled. *)

\* Of all the steps that write the state of a delivery, only a declaration of an
\* administrator touches an undetermined one, and none a settled one.
LEMMA FinalPaso ==
    ASSUME NEW w \in Workers, Paso(w), emailEstado \in {"ENVIADO", "SIMULADO", "RESULTADO_INDETERMINADO"}
    PROVE  emailEstado' = emailEstado
<1>1. CASE SinEntrega(w)
  BY <1>1 DEF SinEntrega
<1>2. CASE Reclamar(w)
  BY <1>2 DEF Reclamar, Reclamable, Elegibles, PorEnviar
<1>3. CASE Anotar(w)
  BY <1>3 DEF Anotar
<1>4. CASE \E r \in Resultados, llega \in BOOLEAN : Enviar(w, r, llega)
  BY <1>4 DEF Enviar
<1>5. CASE \/ CerrarTrabajo(w) \/ Leer(w) \/ ObtenerEnlace(w) \/ EnlaceFallido(w)
           \/ DescargarPdf(w) \/ PdfFallido(w) \/ NoReclamar(w)
  BY <1>5 DEF CerrarTrabajo, Leer, ObtenerEnlace, EnlaceFallido, DescargarPdf, PdfFallido, NoReclamar
<1>6. QED BY <1>1, <1>2, <1>3, <1>4, <1>5 DEF Paso

\* Whatever operators assume and however long a PDF takes.
THEOREM ResultadoFinalCorrect == Spec => ResultadoFinal
<1>1. [Next]_vars =>
          /\ emailEstado \in {"ENVIADO", "SIMULADO"} => emailEstado' = emailEstado
          /\ emailEstado = "RESULTADO_INDETERMINADO" =>
                 \/ emailEstado' = emailEstado
                 \/ emailEstado' = IF aceptados > 0 THEN "ENVIADO" ELSE "FALLIDO"
  <2> SUFFICES ASSUME [Next]_vars, emailEstado \in {"ENVIADO", "SIMULADO", "RESULTADO_INDETERMINADO"}
               PROVE  \/ emailEstado' = emailEstado
                      \/ emailEstado = "RESULTADO_INDETERMINADO" /\ ReconcileEmail
    BY DEF ReconcileEmail
  <2>1. ASSUME NEW w \in Workers, Invocacion(w) PROVE emailEstado' = emailEstado
    BY <2>1, FinalPaso DEF Invocacion, ProcessPayment, RecoverArtifacts, Entrar, Abortar
  <2>2. ASSUME NEW modo \in Modos, Reiniciar(modo) PROVE emailEstado' = emailEstado
    BY <2>2 DEF Reiniciar
  <2>3. CASE DrainPending \/ Vencer \/ QuarantineEmail \/ CorrectRecipient \/ UNCHANGED vars
    BY <2>3 DEF DrainPending, Entrar, Vencer, QuarantineEmail, CorrectRecipient, vars
  <2>4. CASE ReconcileEmail
    BY <2>4 DEF ReconcileEmail
  <2>5. QED BY <2>1, <2>2, <2>3, <2>4 DEF Next
<1>2. QED BY <1>1, PTL DEF Spec, ResultadoFinal
================================================================================
