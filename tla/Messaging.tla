------------------------------- MODULE Messaging -------------------------------
(***************************************************************************)
(* WhatsApp messages of one company (messaging.service.ts): the durable    *)
(* row of each message, the dispatch by the request that wrote it and by   *)
(* the timer, the provider's answer, and the status notifications that     *)
(* Meta delivers in any order, repeated, and again when they are refused.  *)
(*                                                                         *)
(* Each query of the service is a step of its own.  What a message says    *)
(* decides nothing: two requests with one correlation are one message.     *)
(***************************************************************************)
EXTENDS FiniteSets

CONSTANTS
    Mensajes,      \* correlations
    Alterados,     \* those whose row no longer carries its fingerprint
    Trabajadores,  \* dispatches under way: those of the requests and the timer's
    Avisos         \* webhook calls being handled at once

ASSUME MessagingConstants == Mensajes # {} /\ Alterados \subseteq Mensajes

VARIABLES
    estado,       \* LogNotificacion.estadoEnvio, SinFila before it is written
    reclamado,    \* intentos = 1
    conId,        \* providerMessageId is stored
    paso,         \* step of each dispatch
    tarea,        \* its message and the result of its POST
    enviados,     \* Meta: messages whose POST it accepted
    notificado,   \* Meta: statuses it has notified, of each message
    fase,         \* step of each webhook call
    aviso,        \* its message and status
    confirmado    \* Meta: notifications that were answered with 200

filas == <<estado, reclamado, conId>>
meta == <<enviados, notificado>>
trabajo == <<paso, tarea>>
webhook == <<fase, aviso, confirmado>>
vars == <<filas, trabajo, meta, webhook>>

SinFila == "sin fila"
Resultados == {"ENVIADO_PROVEEDOR", "FALLIDO", "RESULTADO_INDETERMINADO"}
Estados == Resultados \cup {SinFila, "PENDIENTE", "EN_PROCESO", "ENTREGADO", "LEIDO"}
EnVuelo == {"EN_PROCESO", "RESULTADO_INDETERMINADO"}

Status == {"sent", "delivered", "read", "failed"}
states(s) ==
    CASE s = "sent" -> "ENVIADO_PROVEEDOR" [] s = "delivered" -> "ENTREGADO"
      [] s = "read" -> "LEIDO"             [] s = "failed" -> "FALLIDO"

active == {"EN_PROCESO", "RESULTADO_INDETERMINADO", "ENVIADO_PROVEEDOR"}

\* Mutant: a status is taken from any state.
SinPrecedencia(s) == Estados \ {SinFila}

precedingStates(s) ==
    CASE s = "sent" -> EnVuelo
      [] s = "delivered" -> active \cup {"FALLIDO"}
      [] s = "read" -> active \cup {"FALLIDO", "ENTREGADO"}
      [] s = "failed" -> active

Tarea == [mensaje : Mensajes, resultado : Resultados]
SinTarea == [mensaje |-> CHOOSE m \in Mensajes : TRUE, resultado |-> "FALLIDO"]
Aviso == [mensaje : Mensajes, status : Status]
SinAviso == [mensaje |-> CHOOSE m \in Mensajes : TRUE, status |-> "sent"]

TypeOK ==
    /\ estado \in [Mensajes -> Estados]
    /\ reclamado \in [Mensajes -> BOOLEAN]
    /\ conId \in [Mensajes -> BOOLEAN]
    /\ paso \in [Trabajadores -> {"libre", "leido", "reclamado", "respondido"}]
    /\ tarea \in [Trabajadores -> Tarea]
    /\ enviados \in SUBSET Mensajes
    /\ notificado \in [Mensajes -> SUBSET Status]
    /\ fase \in [Avisos -> {"libre", "correlacionado", "desconocido"}]
    /\ aviso \in [Avisos -> Aviso]
    /\ confirmado \in SUBSET (Mensajes \X Status)

--------------------------------------------------------------------------------
\* enqueue, in the transaction of the request (billing.service.ts, sendNotification);
\* a repetition finds the row and goes on to its dispatch.
Enqueue(m) ==
    /\ estado[m] = SinFila
    /\ estado' = [estado EXCEPT ![m] = "PENDIENTE"]
    /\ UNCHANGED <<reclamado, conId, trabajo, meta, webhook>>

\* dispatch, by the request that wrote the row or by the timer's list.
Dispatch(w, m) ==
    /\ paso[w] = "libre"
    /\ estado[m] = "PENDIENTE"
    /\ ~reclamado[m]
    /\ paso' = [paso EXCEPT ![w] = "leido"]
    /\ tarea' = [tarea EXCEPT ![w] = [mensaje |-> m, resultado |-> "FALLIDO"]]
    /\ UNCHANGED <<filas, meta, webhook>>

Soltar(w) ==
    /\ paso' = [paso EXCEPT ![w] = "libre"]
    /\ tarea' = [tarea EXCEPT ![w] = SinTarea]

\* The row is not the message that was accepted.
Descartar(w) ==
    /\ paso[w] = "leido"
    /\ LET m == tarea[w].mensaje
       IN  /\ m \in Alterados
           /\ estado' = IF estado[m] = "PENDIENTE" THEN [estado EXCEPT ![m] = "FALLIDO"] ELSE estado
    /\ Soltar(w)
    /\ UNCHANGED <<reclamado, conId, meta, webhook>>

\* Mutant: the claim does not ask whether the row is still pending.
ReclamarSinCondicion(w) ==
    /\ paso[w] = "leido"
    /\ LET m == tarea[w].mensaje
       IN  /\ m \notin Alterados
           /\ estado' = [estado EXCEPT ![m] = "EN_PROCESO"]
           /\ reclamado' = [reclamado EXCEPT ![m] = TRUE]
           /\ paso' = [paso EXCEPT ![w] = "reclamado"]
    /\ UNCHANGED <<conId, tarea, meta, webhook>>

\* The conditional update that claims the row: one dispatch of several.
Reclamar(w) ==
    /\ paso[w] = "leido"
    /\ LET m == tarea[w].mensaje
       IN  /\ m \notin Alterados
           /\ \/ /\ estado[m] = "PENDIENTE" /\ ~reclamado[m]
                 /\ estado' = [estado EXCEPT ![m] = "EN_PROCESO"]
                 /\ reclamado' = [reclamado EXCEPT ![m] = TRUE]
                 /\ paso' = [paso EXCEPT ![w] = "reclamado"]
                 /\ UNCHANGED tarea
              \/ /\ ~(estado[m] = "PENDIENTE" /\ ~reclamado[m])
                 /\ Soltar(w)
                 /\ UNCHANGED <<estado, reclamado>>
    /\ UNCHANGED <<conId, meta, webhook>>

\* provider.send: Meta accepts the POST and answers, or its answer is lost or is not
\* understood; or it accepts nothing: a 4xx, an invalid configuration, or an error
\* the provider cannot tell from an accepted message.
Send(w) ==
    /\ paso[w] = "reclamado"
    /\ paso' = [paso EXCEPT ![w] = "respondido"]
    /\ LET m == tarea[w].mensaje
       IN  \E r \in Resultados :
               /\ tarea' = [tarea EXCEPT ![w] = [mensaje |-> m, resultado |-> r]]
               /\ \/ r # "FALLIDO" /\ enviados' = enviados \cup {m}
                  \/ r # "ENVIADO_PROVEEDOR" /\ UNCHANGED enviados
    /\ UNCHANGED <<filas, notificado, webhook>>

\* The answer is written where nothing has settled the message.
Anotar(w) ==
    /\ paso[w] = "respondido"
    /\ LET m == tarea[w].mensaje
           r == tarea[w].resultado
       IN  IF estado[m] \in EnVuelo
           THEN /\ estado' = [estado EXCEPT ![m] = r]
                /\ conId' = IF r = "ENVIADO_PROVEEDOR" THEN [conId EXCEPT ![m] = TRUE] ELSE conId
           ELSE UNCHANGED <<estado, conId>>
    /\ Soltar(w)
    /\ UNCHANGED <<reclamado, meta, webhook>>

\* Mutant: the drain only sends.
SinCuarentena(m) == FALSE /\ UNCHANGED vars

\* drain: a message that has been in process for five minutes, whether its process
\* died or is slow.
Cuarentena(m) ==
    /\ estado[m] = "EN_PROCESO"
    /\ estado' = [estado EXCEPT ![m] = "RESULTADO_INDETERMINADO"]
    /\ UNCHANGED <<reclamado, conId, trabajo, meta, webhook>>

\* The process stops: its dispatches and webhook calls end where they were.
Caer ==
    /\ paso' = [w \in Trabajadores |-> "libre"]
    /\ tarea' = [w \in Trabajadores |-> SinTarea]
    /\ fase' = [a \in Avisos |-> "libre"]
    /\ aviso' = [a \in Avisos |-> SinAviso]
    /\ UNCHANGED <<filas, meta, confirmado>>

--------------------------------------------------------------------------------
\* Meta tells what became of a message it accepted.
Notificar(m, s) ==
    /\ m \in enviados
    /\ notificado' = [notificado EXCEPT ![m] = @ \cup {s}]
    /\ UNCHANGED <<filas, trabajo, enviados, webhook>>

\* acceptStatus: the row is looked up by the identifier Meta gave the message.
AcceptStatus(a, m, s) ==
    /\ fase[a] = "libre"
    /\ s \in notificado[m]
    /\ fase' = [fase EXCEPT ![a] = IF conId[m] THEN "correlacionado" ELSE "desconocido"]
    /\ aviso' = [aviso EXCEPT ![a] = [mensaje |-> m, status |-> s]]
    /\ UNCHANGED <<filas, trabajo, meta, confirmado>>

Contestar(a, c) ==
    /\ fase' = [fase EXCEPT ![a] = "libre"]
    /\ aviso' = [aviso EXCEPT ![a] = SinAviso]
    /\ confirmado' = c

\* A known message takes the status if its state precedes it.
Aplicar(a) ==
    /\ fase[a] = "correlacionado"
    /\ LET m == aviso[a].mensaje
           s == aviso[a].status
       IN  /\ estado' = IF estado[m] \in precedingStates(s) THEN [estado EXCEPT ![m] = states(s)] ELSE estado
           /\ Contestar(a, confirmado \cup {<<m, s>>})
    /\ UNCHANGED <<reclamado, conId, trabajo, meta>>

\* An unknown one may be of a dispatch that has not stored its identifier: it is
\* refused while any is in flight, so that Meta delivers it again, and else ignored.
Ignorar(a) ==
    /\ fase[a] = "desconocido"
    /\ IF \E m \in Mensajes : estado[m] \in EnVuelo
       THEN Contestar(a, confirmado)
       ELSE Contestar(a, confirmado \cup {<<aviso[a].mensaje, aviso[a].status>>})
    /\ UNCHANGED <<filas, trabajo, meta>>

--------------------------------------------------------------------------------
Init ==
    /\ estado = [m \in Mensajes |-> SinFila]
    /\ reclamado = [m \in Mensajes |-> FALSE]
    /\ conId = [m \in Mensajes |-> FALSE]
    /\ paso = [w \in Trabajadores |-> "libre"]
    /\ tarea = [w \in Trabajadores |-> SinTarea]
    /\ enviados = {}
    /\ notificado = [m \in Mensajes |-> {}]
    /\ fase = [a \in Avisos |-> "libre"]
    /\ aviso = [a \in Avisos |-> SinAviso]
    /\ confirmado = {}

Next ==
    \/ \E m \in Mensajes : Enqueue(m) \/ Cuarentena(m)
    \/ \E w \in Trabajadores, m \in Mensajes : Dispatch(w, m)
    \/ \E w \in Trabajadores : Descartar(w) \/ Reclamar(w) \/ Send(w) \/ Anotar(w)
    \/ \E m \in Mensajes, s \in Status : Notificar(m, s)
    \/ \E a \in Avisos, m \in Mensajes, s \in Status : AcceptStatus(a, m, s)
    \/ \E a \in Avisos : Aplicar(a) \/ Ignorar(a)
    \/ Caer

Spec == Init /\ [][Next]_vars

\* The timer calls drain every 15 seconds, and a process that stops starts again: the
\* first steps of a dispatch, which wait for the database only, are completed in the end.
FairSpec ==
    /\ Spec
    /\ \A m \in Mensajes : WF_vars(Cuarentena(m))
    /\ \A m \in Mensajes : SF_vars(\E w \in Trabajadores : Dispatch(w, m))
    /\ \A w \in Trabajadores : SF_vars(Descartar(w) \/ Reclamar(w)) /\ WF_vars(Send(w) \/ Anotar(w))

--------------------------------------------------------------------------------
(* Properties *)

\* The dispatch that has the message between its claim and the writing of its answer.
Tiene(w, m) == paso[w] \in {"reclamado", "respondido"} /\ tarea[w].mensaje = m

\* A message is posted once at most: whatever requests and timers dispatch it, and
\* wherever a process stops, it is claimed once, by one of them.
UnaVez ==
    /\ \A m \in Mensajes : estado[m] \in {SinFila, "PENDIENTE"} => ~reclamado[m]
    /\ \A w \in Trabajadores, m \in Mensajes :
           Tiene(w, m) => reclamado[m] /\ estado[m] \in EnVuelo /\ ~conId[m]
    /\ \A v, w \in Trabajadores, m \in Mensajes : Tiene(v, m) /\ Tiene(w, m) => v = w
    /\ \A w \in Trabajadores : paso[w] = "reclamado" => tarea[w].mensaje \notin enviados

\* The row never says more than Meta: sent means accepted, delivered and read were
\* notified, and failed is a message that was not accepted or that Meta gave up.
EstadoVeraz ==
    \A m \in Mensajes :
        /\ estado[m] = "PENDIENTE" \/ estado[m] = SinFila => m \notin enviados
        /\ conId[m] => m \in enviados /\ estado[m] \notin EnVuelo
        /\ estado[m] = "ENVIADO_PROVEEDOR" => conId[m]
        /\ estado[m] = "ENTREGADO" => "delivered" \in notificado[m]
        /\ estado[m] = "LEIDO" => "read" \in notificado[m]
        /\ estado[m] = "FALLIDO" => m \notin enviados \/ "failed" \in notificado[m]

\* What dispatches and webhook calls under way carry.
EnCursoVeraz ==
    /\ \A w \in Trabajadores :
           /\ paso[w] = "leido" => estado[tarea[w].mensaje] # SinFila
           /\ paso[w] = "respondido" /\ tarea[w].resultado = "ENVIADO_PROVEEDOR" =>
                  tarea[w].mensaje \in enviados
           /\ paso[w] = "respondido" /\ tarea[w].resultado = "FALLIDO" =>
                  tarea[w].mensaje \notin enviados
    /\ \A a \in Avisos :
           /\ fase[a] # "libre" => aviso[a].status \in notificado[aviso[a].mensaje]
           /\ fase[a] = "correlacionado" => conId[aviso[a].mensaje]
    /\ \A m \in Mensajes : notificado[m] # {} => m \in enviados

IInv == TypeOK /\ UnaVez /\ EstadoVeraz /\ EnCursoVeraz

\* Delivered and read never go back, whatever order the notifications come in.
NuncaRetrocede ==
    [][\A m \in Mensajes :
          /\ estado[m] = "LEIDO" => estado'[m] = "LEIDO"
          /\ estado[m] = "ENTREGADO" => estado'[m] \in {"ENTREGADO", "LEIDO"}]_vars

\* A message is not left pending or in process: it is sent, failed or known to be uncertain.
MensajesTerminan ==
    \A m \in Mensajes : estado[m] = "PENDIENTE" ~> estado[m] \notin {SinFila, "PENDIENTE", "EN_PROCESO"}

\* "Status can arrive before the POST response is persisted. Ask Meta to redeliver.":
\* a delivery that was taken as notified is in the row.
EntregaNoSePierde ==
    \A m \in Mensajes : <<m, "delivered">> \in confirmado => estado[m] \in {"ENTREGADO", "LEIDO"}
================================================================================
