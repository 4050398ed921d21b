------------------------------ MODULE TaxDelivery ------------------------------
(***************************************************************************)
(* Delivery of one issued tax document (the stage of facturacion-cl.issuer *)
(* that follows TaxEmission): the provider's link, the PDF, and the e-mail *)
(* under a durable claim with a counted, delayed retry.                    *)
(*                                                                         *)
(* The timer's invocation, the requests that finish processPayment and the *)
(* operator's recoverArtifacts all run finishArtifactsAndDelivery; each    *)
(* await is a step boundary.  A process may die anywhere and the mail      *)
(* server may accept a message and not be heard.                           *)
(*                                                                         *)
(* The company's fiscal configuration stays valid (see TaxEmission).       *)
(***************************************************************************)
EXTENDS Naturals

CONSTANTS
    Workers,        \* concurrent invocations
    Drainer,        \* the one the interval timer drives
    Enlaces,        \* links the provider has given to the PDF
    SinEnlace,
    MaxIntentos,    \* bound: explicit attempts are claimed below this count
    MaxFallas,      \* bound: aborted invocations and restarts
    OperadorEspera, \* assumption: "not accepted" is declared when no attempt is on its way
    PdfPuntual      \* assumption: link and PDF take less than a retry's delay (60 s)

ASSUME DeliveryConstants ==
    /\ Drainer \in Workers
    /\ SinEnlace \notin Enlaces
    /\ MaxIntentos \in Nat /\ MaxFallas \in Nat
    /\ OperadorEspera \in BOOLEAN /\ PdfPuntual \in BOOLEAN

VARIABLES
    job,            \* tax_payment_job.estado
    destino,        \* tax_payment_job.email has the shape of an address
    enlace,         \* tax_emission_intent.artefacto_url
    artefacto,      \* tax_emission_intent.artefacto_estado
    emailEstado,    \* tax_emission_intent.email_estado
    emailIntentos,  \* tax_emission_intent.email_intentos
    espera,         \* fecha_proximo_email lies in the future
    correo,         \* mode of the mail service, and delivery enabled
    pc,             \* next step of an invocation
    explicito,      \* explicitEmailRetry and refreshArtifact
    paraQuien,      \* job.email as the invocation read it
    leido,          \* the intent as it read it
    res,            \* how its attempt ended
    aceptados,      \* history: mails the server accepted
    fallas          \* history: failures so far

fila == <<job, destino, enlace, artefacto>>
email == <<emailEstado, emailIntentos, espera>>
invocacion == <<pc, explicito, paraQuien, leido, res>>
entorno == <<correo, fallas>>
vars == <<fila, email, invocacion, entorno, aceptados>>

MAX_EMAIL_ATTEMPTS == 3
EstadosEmail == {"PENDIENTE", "NO_CONFIGURADO", "SIN_DESTINATARIO", "EN_PROCESO", "REINTENTO_PENDIENTE",
                 "ENVIADO", "SIMULADO", "FALLIDO", "RESULTADO_INDETERMINADO"}
PorEnviar == {"PENDIENTE", "NO_CONFIGURADO", "REINTENTO_PENDIENTE"}
Artefactos == {"PENDIENTE", "DISPONIBLE", "FALLIDO"}
Modos == {"apagado", "smtp", "mock"}
Resultados == {"enviado", "simulado", "temporal", "definitivo", "incierto"}
Pasos == {"libre", "emitido", "leer", "enlazar", "descargar", "entregar", "enviar", "anotar"}
Lectura == [estado : EstadosEmail, intentos : Nat, artefacto : Artefactos, enlace : Enlaces \cup {SinEnlace}]

TypeOK ==
    /\ job \in {"PENDIENTE", "PROCESADO"}
    /\ destino \in BOOLEAN
    /\ enlace \in Enlaces \cup {SinEnlace}
    /\ artefacto \in Artefactos
    /\ emailEstado \in EstadosEmail
    /\ emailIntentos \in Nat
    /\ espera \in BOOLEAN
    /\ correo \in Modos
    /\ pc \in [Workers -> Pasos]
    /\ explicito \in [Workers -> BOOLEAN]
    /\ paraQuien \in [Workers -> BOOLEAN]
    /\ leido \in [Workers -> Lectura]
    /\ res \in [Workers -> Resultados]
    /\ aceptados \in Nat
    /\ fallas \in Nat

Fila == [estado |-> emailEstado, intentos |-> emailIntentos, artefacto |-> artefacto, enlace |-> enlace]
SinLectura == [estado |-> "PENDIENTE", intentos |-> 0, artefacto |-> "PENDIENTE", enlace |-> SinEnlace]

\* An attempt of w is with the mail server, or its result is still to be written.
EnVuelo(w) == pc[w] \in {"enviar", "anotar"}

--------------------------------------------------------------------------------
(* Invocations. *)

Entrar(w, paso, e) ==
    /\ pc[w] = "libre"
    /\ pc' = [pc EXCEPT ![w] = paso]
    /\ explicito' = [explicito EXCEPT ![w] = e]
    /\ paraQuien' = [paraQuien EXCEPT ![w] = destino]
    /\ UNCHANGED <<fila, email, leido, res, entorno, aceptados>>

\* processPayment, whose intent is GENERADO; the job was read before.  The drain only
\* takes a pending one, a replay of the payment comes at any time.
ProcessPayment(w) ==
    /\ w = Drainer => job = "PENDIENTE"
    /\ Entrar(w, "emitido", FALSE)

CerrarTrabajo(w) ==
    /\ pc[w] = "emitido"
    /\ job' = "PROCESADO"
    /\ pc' = [pc EXCEPT ![w] = "leer"]
    /\ UNCHANGED <<destino, enlace, artefacto, email, explicito, paraQuien, leido, res, entorno, aceptados>>

\* Mutant: the drain forgets the deliveries that wait for a retry.
DrenarSoloNuevas ==
    /\ correo # "apagado"
    /\ artefacto = "DISPONIBLE"
    /\ emailEstado \in PorEnviar \ {"REINTENTO_PENDIENTE"}
    /\ emailIntentos < MAX_EMAIL_ATTEMPTS
    /\ ~espera
    /\ Entrar(Drainer, "leer", FALSE)

\* The drain's pending deliveries.
DrainPending ==
    /\ correo # "apagado"
    /\ artefacto = "DISPONIBLE"
    /\ emailEstado \in PorEnviar
    /\ emailIntentos < MAX_EMAIL_ATTEMPTS
    /\ ~espera
    /\ Entrar(Drainer, "leer", FALSE)

RecoverArtifacts(w) == w # Drainer /\ Entrar(w, "leer", TRUE)

--------------------------------------------------------------------------------
(* finishArtifactsAndDelivery. *)

\* The invocation forgets what it holds.
Soltar(w) ==
    /\ pc' = [pc EXCEPT ![w] = "libre"]
    /\ explicito' = [explicito EXCEPT ![w] = FALSE]
    /\ paraQuien' = [paraQuien EXCEPT ![w] = FALSE]
    /\ leido' = [leido EXCEPT ![w] = SinLectura]
    /\ res' = [res EXCEPT ![w] = "incierto"]

Seguir(w, paso) == pc' = [pc EXCEPT ![w] = paso] /\ UNCHANGED <<explicito, paraQuien, leido, res>>

PideEnlace(e, l) == e \/ l.enlace = SinEnlace \/ l.artefacto = "FALLIDO"
NadaQueHacer(e, l) == ~e /\ l.artefacto = "DISPONIBLE" /\ l.estado \notin PorEnviar \cup {"FALLIDO"}

Leer(w) ==
    /\ pc[w] = "leer"
    /\ \/ /\ ~PideEnlace(explicito[w], Fila) /\ NadaQueHacer(explicito[w], Fila)
          /\ Soltar(w)
       \/ /\ PideEnlace(explicito[w], Fila) \/ ~NadaQueHacer(explicito[w], Fila)
          /\ pc' = [pc EXCEPT ![w] = IF PideEnlace(explicito[w], Fila) THEN "enlazar" ELSE "descargar"]
          /\ leido' = [leido EXCEPT ![w] = Fila]
          /\ UNCHANGED <<explicito, paraQuien, res>>
    /\ UNCHANGED <<fila, email, entorno, aceptados>>

ObtenerEnlace(w) ==
    /\ pc[w] = "enlazar"
    /\ enlace' \in Enlaces
    /\ artefacto' = "PENDIENTE"
    /\ IF NadaQueHacer(explicito[w], leido[w]) THEN Soltar(w) ELSE Seguir(w, "descargar")
    /\ UNCHANGED <<job, destino, email, entorno, aceptados>>

\* Only where the link is still the one that was read.
EnlaceFallido(w) ==
    /\ pc[w] = "enlazar"
    /\ artefacto' = IF enlace = leido[w].enlace THEN "FALLIDO" ELSE artefacto
    /\ Soltar(w)
    /\ UNCHANGED <<job, destino, enlace, email, entorno, aceptados>>

DescargarPdf(w) ==
    /\ pc[w] = "descargar"
    /\ artefacto' = "DISPONIBLE"
    /\ Seguir(w, "entregar")
    /\ UNCHANGED <<job, destino, enlace, email, entorno, aceptados>>

PdfFallido(w) ==
    /\ pc[w] = "descargar"
    /\ artefacto' = "FALLIDO"
    /\ Soltar(w)
    /\ UNCHANGED <<job, destino, enlace, email, entorno, aceptados>>

\* No mail service, or no address: the state says so, unless a mail is past that.
SinEntrega(w) ==
    /\ pc[w] = "entregar"
    /\ correo = "apagado" \/ ~paraQuien[w]
    /\ emailEstado' = IF emailEstado \notin {"PENDIENTE", "NO_CONFIGURADO"} THEN emailEstado
                      ELSE IF correo = "apagado" THEN "NO_CONFIGURADO" ELSE "SIN_DESTINATARIO"
    /\ Soltar(w)
    /\ UNCHANGED <<fila, emailIntentos, espera, entorno, aceptados>>

Elegibles(e) == PorEnviar \cup (IF e THEN {"FALLIDO"} ELSE {})

\* Mutant: the claim trusts the state that was read before the PDF was fetched.
ReclamablePorLectura(w) ==
    /\ leido[w].estado \in Elegibles(explicito[w])
    /\ IF explicito[w] THEN emailIntentos < MaxIntentos
                       ELSE emailIntentos < MAX_EMAIL_ATTEMPTS /\ ~espera

\* The row as it was read, and as the claim finds it.
Reclamable(w) ==
    /\ leido[w].estado \in Elegibles(explicito[w])
    /\ emailEstado \in Elegibles(explicito[w])
    /\ IF explicito[w] THEN emailIntentos < MaxIntentos
                       ELSE emailIntentos < MAX_EMAIL_ATTEMPTS /\ ~espera

Reclamar(w) ==
    /\ pc[w] = "entregar"
    /\ correo # "apagado" /\ paraQuien[w]
    /\ Reclamable(w)
    /\ emailEstado' = "EN_PROCESO"
    /\ emailIntentos' = emailIntentos + 1
    /\ espera' = FALSE
    /\ Seguir(w, "enviar")
    /\ UNCHANGED <<fila, entorno, aceptados>>

NoReclamar(w) ==
    /\ pc[w] = "entregar"
    /\ correo # "apagado" /\ paraQuien[w]
    /\ ~Reclamable(w)
    /\ Soltar(w)
    /\ UNCHANGED <<fila, email, entorno, aceptados>>

\* sendTaxDocument.  The preflight and a refusal with an SMTP code are sure; anything
\* else that goes wrong is uncertain, whether the server took the message or not.
Enviar(w, r, llega) ==
    /\ pc[w] = "enviar"
    /\ r \in IF correo = "mock" THEN {"simulado", "definitivo"} ELSE Resultados \ {"simulado"}
    /\ r = "enviado" => llega
    /\ llega => r \in {"enviado", "incierto"}
    /\ aceptados' = IF llega THEN aceptados + 1 ELSE aceptados
    /\ pc' = [pc EXCEPT ![w] = "anotar"]
    /\ res' = [res EXCEPT ![w] = r]
    /\ UNCHANGED <<fila, email, explicito, paraQuien, leido, entorno>>

\* Mutant: one attempt too many.
ReintentaUnoMas(w) ==
    res[w] = "temporal" /\ leido[w].intentos < MAX_EMAIL_ATTEMPTS /\ ~explicito[w]

\* Of a temporary refusal, what the counter that was read allows.
Reintenta(w) ==
    res[w] = "temporal" /\ leido[w].intentos + 1 < MAX_EMAIL_ATTEMPTS /\ ~explicito[w]

EstadoFinal(w) ==
    CASE res[w] = "enviado" -> "ENVIADO"
      [] res[w] = "simulado" -> "SIMULADO"
      [] res[w] = "incierto" -> "RESULTADO_INDETERMINADO"
      [] OTHER -> IF Reintenta(w) THEN "REINTENTO_PENDIENTE" ELSE "FALLIDO"

\* Mutant: the late result is written whatever the state has become.
AnotarSiempre(w) ==
    /\ pc[w] = "anotar"
    /\ emailEstado' = EstadoFinal(w)
    /\ espera' = Reintenta(w)
    /\ Soltar(w)
    /\ UNCHANGED <<fila, emailIntentos, entorno, aceptados>>

\* The result is written where the delivery is in process.
Anotar(w) ==
    /\ pc[w] = "anotar"
    /\ \/ /\ emailEstado = "EN_PROCESO"
          /\ emailEstado' = EstadoFinal(w)
          /\ espera' = Reintenta(w)
       \/ emailEstado # "EN_PROCESO" /\ UNCHANGED <<emailEstado, espera>>
    /\ Soltar(w)
    /\ UNCHANGED <<fila, emailIntentos, entorno, aceptados>>

--------------------------------------------------------------------------------
(* The clock, operators and failures. *)

\* The delay of a retry is over.  PdfPuntual: no invocation that missed an attempt is
\* still before its claim by then.
Vencer ==
    /\ espera
    /\ PdfPuntual => \A w \in Workers :
           pc[w] \in {"enlazar", "descargar", "entregar"} => leido[w].intentos = emailIntentos
    /\ espera' = FALSE
    /\ UNCHANGED <<fila, emailEstado, emailIntentos, invocacion, entorno, aceptados>>

\* The drain's quarantine of a claim that is five minutes old.
QuarantineEmail ==
    /\ emailEstado = "EN_PROCESO"
    /\ emailEstado' = "RESULTADO_INDETERMINADO"
    /\ espera' = FALSE
    /\ UNCHANGED <<fila, emailIntentos, invocacion, entorno, aceptados>>

CorrectRecipient ==
    /\ emailEstado = "SIN_DESTINATARIO" /\ emailIntentos = 0
    /\ destino' = TRUE
    /\ emailEstado' = "PENDIENTE"
    /\ espera' = FALSE
    /\ UNCHANGED <<job, enlace, artefacto, emailIntentos, invocacion, entorno, aceptados>>

\* An administrator has looked at the mail server's log.
ReconcileEmail ==
    /\ emailEstado = "RESULTADO_INDETERMINADO"
    /\ emailEstado' = IF aceptados > 0 THEN "ENVIADO" ELSE "FALLIDO"
    /\ OperadorEspera => aceptados > 0 \/ ~\E w \in Workers : EnVuelo(w)
    /\ espera' = FALSE
    /\ UNCHANGED <<fila, emailIntentos, invocacion, entorno, aceptados>>

\* A database error ends an invocation.
Abortar(w) ==
    /\ pc[w] # "libre" /\ fallas < MaxFallas
    /\ Soltar(w)
    /\ fallas' = fallas + 1
    /\ UNCHANGED <<fila, email, correo, aceptados>>

\* The process restarts, perhaps with another mail configuration.
Reiniciar(modo) ==
    /\ fallas < MaxFallas
    /\ fallas' = fallas + 1
    /\ correo' = modo
    /\ pc' = [w \in Workers |-> "libre"]
    /\ explicito' = [w \in Workers |-> FALSE]
    /\ paraQuien' = [w \in Workers |-> FALSE]
    /\ leido' = [w \in Workers |-> SinLectura]
    /\ res' = [w \in Workers |-> "incierto"]
    /\ UNCHANGED <<fila, email, aceptados>>

--------------------------------------------------------------------------------
\* The intent has just become GENERADO: by its emission, or by a reconciliation that
\* has found the document's link (whose job may be closed).
Init ==
    /\ destino \in BOOLEAN
    /\ \/ job = "PENDIENTE" /\ enlace = SinEnlace /\ artefacto = "PENDIENTE"
       \/ job \in {"PENDIENTE", "PROCESADO"} /\ enlace \in Enlaces /\ artefacto = "DISPONIBLE"
    /\ emailEstado = "PENDIENTE" /\ emailIntentos = 0 /\ espera = FALSE
    /\ correo \in Modos
    /\ pc = [w \in Workers |-> "libre"]
    /\ explicito = [w \in Workers |-> FALSE]
    /\ paraQuien = [w \in Workers |-> FALSE]
    /\ leido = [w \in Workers |-> SinLectura]
    /\ res = [w \in Workers |-> "incierto"]
    /\ aceptados = 0 /\ fallas = 0

Paso(w) ==
    \/ CerrarTrabajo(w)
    \/ Leer(w)
    \/ ObtenerEnlace(w)
    \/ EnlaceFallido(w)
    \/ DescargarPdf(w)
    \/ PdfFallido(w)
    \/ SinEntrega(w)
    \/ Reclamar(w)
    \/ NoReclamar(w)
    \/ \E r \in Resultados, llega \in BOOLEAN : Enviar(w, r, llega)
    \/ Anotar(w)

Invocacion(w) == ProcessPayment(w) \/ RecoverArtifacts(w) \/ Paso(w) \/ Abortar(w)

Next ==
    \/ \E w \in Workers : Invocacion(w)
    \/ DrainPending
    \/ Vencer
    \/ QuarantineEmail
    \/ CorrectRecipient
    \/ ReconcileEmail
    \/ \E modo \in Modos : Reiniciar(modo)

\* Invocations go on and the timer fires every 15 seconds.
Fairness ==
    /\ \A w \in Workers : WF_vars(Paso(w))
    /\ WF_vars(DrainPending)
    /\ WF_vars(Vencer)
    /\ WF_vars(QuarantineEmail)

Spec == Init /\ [][Next]_vars
FairSpec == Spec /\ Fairness

--------------------------------------------------------------------------------
(* Properties *)

\* The customer gets the document at most once, and the state of the delivery is true:
\* a state from which a mail may leave means that none was accepted and none is on its
\* way, and ENVIADO that one was.  Attempts, late answers, quarantine, operators and
\* crashes all write that state.
EntregaUnica ==
    /\ aceptados <= 1
    /\ emailEstado \in PorEnviar \cup {"FALLIDO", "SIN_DESTINATARIO"} =>
           aceptados = 0 /\ \A w \in Workers : ~EnVuelo(w)
    /\ emailEstado = "ENVIADO" => aceptados = 1

\* A delivery that waits for a retry has an attempt left, so that the timer takes it.
ReintentoPosible == emailEstado = "REINTENTO_PENDIENTE" => emailIntentos < MAX_EMAIL_ATTEMPTS

\* At most one attempt is on its way, over a claim that is in process or was quarantined.
UnIntento ==
    /\ \A v, w \in Workers : EnVuelo(v) /\ EnVuelo(w) => v = w
    /\ \A w \in Workers : EnVuelo(w) => emailEstado \in {"EN_PROCESO", "RESULTADO_INDETERMINADO", "ENVIADO"}
    /\ \A w \in Workers : pc[w] = "enviar" => aceptados = 0
    /\ \A w \in Workers : pc[w] = "anotar" =>
           /\ res[w] = "enviado" => aceptados = 1
           /\ res[w] \notin {"enviado", "incierto"} => aceptados = 0

IInv == TypeOK /\ EntregaUnica /\ UnIntento

\* The same of the mails alone: docs/i3-smtp-automatic-email.md has no automatic resend of
\* an attempt whose end is unknown.
UnCorreo == aceptados <= 1

\* What the invocations of the timer know of the counter: one that missed an attempt
\* finds the delivery settled, in process or waiting.
ContadorVeraz ==
    /\ ReintentoPosible
    /\ emailEstado \in {"PENDIENTE", "NO_CONFIGURADO", "SIN_DESTINATARIO"} => emailIntentos = 0
    /\ \A w \in Workers :
           /\ leido[w].intentos <= emailIntentos
           /\ pc[w] \in {"enlazar", "descargar", "entregar"} /\ ~explicito[w] =>
                  leido[w].intentos = emailIntentos \/ emailEstado \notin PorEnviar \/ espera
           /\ EnVuelo(w) /\ ~explicito[w] /\ emailEstado = "EN_PROCESO" =>
                  leido[w].intentos + 1 = emailIntentos

\* A delivery that is settled stays so, and one that is undetermined is only settled
\* by what the mail server did: a late answer, or another invocation, changes neither.
ResultadoFinal ==
    [][/\ emailEstado \in {"ENVIADO", "SIMULADO"} => emailEstado' = emailEstado
       /\ emailEstado = "RESULTADO_INDETERMINADO" =>
              \/ emailEstado' = emailEstado
              \/ emailEstado' = IF aceptados > 0 THEN "ENVIADO" ELSE "FALLIDO"]_vars

\* A document whose PDF is there and whose mail is due is tried until its delivery is
\* settled or waits for a person.
EntregaSeResuelve ==
    (artefacto = "DISPONIBLE" /\ emailEstado \in PorEnviar \cup {"EN_PROCESO"})
        ~> \/ emailEstado \notin PorEnviar \cup {"EN_PROCESO"}
           \/ artefacto # "DISPONIBLE"
           \/ correo = "apagado"

\* docs/i3-smtp-automatic-email.md: a recipient that was corrected is not missing.
DestinatarioCorregido == emailEstado = "SIN_DESTINATARIO" => ~destino
================================================================================
