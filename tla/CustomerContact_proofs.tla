-------------------------- MODULE CustomerContact_proofs -------------------------
(***************************************************************************)
(* Proofs about the contact with a customer: the records of customer care, *)
(* for every set of records, users and requests of G2; and the messages to *)
(* the customer, for any number of messages, dispatches and webhook calls. *)
(*                                                                         *)
(*   1. CustomerCare: its invariant, what a closed request and a result of *)
(*      G2 never do                                                        *)
(*   2. Messaging: a message is posted once, its row never says more than  *)
(*      Meta, and a delivery never goes back                               *)
(***************************************************************************)
EXTENDS CustomerCare, Messaging, TLAPS

--------------------------------------------------------------------------------
(* 1. Records of customer care *)

(***************************************************************************)
(* The invariant: what it says of the records, and of each user.           *)
(***************************************************************************)

RegistrosTipo ==
    /\ estadoDe \in [Registros -> EstadosRegistro]
    /\ cierre \in [Registros -> BOOLEAN]
    /\ notas \in [Registros -> SUBSET Notas]
    /\ wifi \in SUBSET Tickets
    /\ motivo \in [Registros -> BOOLEAN]
    /\ resultados \in SUBSET Pedido
UnPayload == \A p, q \in resultados : p[1] = q[1] => p = q
RegistrosInv == RegistrosTipo /\ FechaDeCierre /\ EstadosPropios /\ UnPayload

AtencionTipo ==
    /\ etapa \in [Usuarios -> Fases]
    /\ leido \in [Usuarios -> Lectura]
    /\ pedido \in [Usuarios -> SUBSET Pedido]
UsuarioInv(u) ==
    /\ etapa[u] = "informado" => pedido[u] \subseteq resultados /\ pedido[u] # {}
    /\ etapa[u] \in {"estado", "diagnostico", "nota"} =>
           /\ leido[u].registro \in Tickets
           /\ leido[u].estado \in EstadosTicket
           /\ estadoDe[leido[u].registro] # "sin crear"
           /\ leido[u].estado = "Cerrado" => leido[u].cierre
           /\ leido[u].estado \in OPEN_TICKET_STATES => ~leido[u].cierre
    /\ etapa[u] \in {"solicitud", "factibilidad"} =>
           /\ leido[u].registro \in Solicitudes
           /\ leido[u].estado \in EstadosSolicitud \ CLOSED_REQUEST_STATES
           /\ ~leido[u].cierre
    /\ etapa[u] = "retiro" => leido[u].registro \in Retiros
    /\ etapa[u] = "wifi" => \E p \in Pedido : pedido[u] = {p} /\ estadoDe[p[2]] \in EstadosTicket

LEMMA CareInvPartes ==
    /\ CareInv <=> RegistrosInv /\ AtencionTipo /\ \A u \in Usuarios : UsuarioInv(u)
    /\ CareInv' <=> RegistrosInv' /\ AtencionTipo' /\ \A u \in Usuarios : UsuarioInv(u)'
  BY DEF CareInv, CareTypeOK, ResultadoUnico, LecturaVeraz, RegistrosInv, RegistrosTipo, UnPayload,
         AtencionTipo, UsuarioInv

LEMMA EstadosTicketSon ==
    /\ EstadosTicket = {"abierto", "Abierto", "En progreso", "Escalado", "Resuelto", "Cerrado"}
    /\ indexOf("abierto") = 0 /\ indexOf("Abierto") = 1 /\ indexOf("En progreso") = 2
    /\ indexOf("Escalado") = 3 /\ indexOf("Resuelto") = 4 /\ indexOf("Cerrado") = 5
<1>1. /\ TICKET_STATUSES[1] = "Abierto" /\ TICKET_STATUSES[2] = "En progreso"
      /\ TICKET_STATUSES[3] = "Escalado" /\ TICKET_STATUSES[4] = "Resuelto"
      /\ TICKET_STATUSES[5] = "Cerrado"
  BY DEF TICKET_STATUSES
<1>2. 1 .. 5 = {1, 2, 3, 4, 5}
  OBVIOUS
<1>3. EstadosTicket = {"abierto", "Abierto", "En progreso", "Escalado", "Resuelto", "Cerrado"}
  BY <1>1, <1>2 DEF EstadosTicket
<1>4. indexOf("abierto") = 0
  BY DEF indexOf
<1>5. \A i \in 1 .. 5 : i = 1 \/ i = 2 \/ i = 3 \/ i = 4 \/ i = 5
  OBVIOUS
<1>6. ASSUME NEW e, NEW k \in 1 .. 5, e # "abierto", \A i \in 1 .. 5 : TICKET_STATUSES[i] = e <=> i = k
      PROVE  indexOf(e) = k
  <2>1. TICKET_STATUSES[k] = e
    BY <1>6
  <2>2. indexOf(e) \in 1 .. 5 /\ TICKET_STATUSES[indexOf(e)] = e
    BY <1>6, <2>1 DEF indexOf
  <2>. QED BY <1>6, <2>2
<1>7. indexOf("Abierto") = 1
  <2>1. \A i \in 1 .. 5 : TICKET_STATUSES[i] = "Abierto" <=> i = 1
    BY <1>1, <1>5
  <2>2. 1 \in 1 .. 5 /\ "Abierto" # "abierto"
    OBVIOUS
  <2>. QED BY <1>6, <2>1, <2>2, Zenon
<1>8. indexOf("En progreso") = 2
  <2>1. \A i \in 1 .. 5 : TICKET_STATUSES[i] = "En progreso" <=> i = 2
    BY <1>1, <1>5
  <2>2. 2 \in 1 .. 5 /\ "En progreso" # "abierto"
    OBVIOUS
  <2>. QED BY <1>6, <2>1, <2>2, Zenon
<1>9. indexOf("Escalado") = 3
  <2>1. \A i \in 1 .. 5 : TICKET_STATUSES[i] = "Escalado" <=> i = 3
    BY <1>1, <1>5
  <2>2. 3 \in 1 .. 5 /\ "Escalado" # "abierto"
    OBVIOUS
  <2>. QED BY <1>6, <2>1, <2>2, Zenon
<1>10. indexOf("Resuelto") = 4
  <2>1. \A i \in 1 .. 5 : TICKET_STATUSES[i] = "Resuelto" <=> i = 4
    BY <1>1, <1>5
  <2>2. 4 \in 1 .. 5 /\ "Resuelto" # "abierto"
    OBVIOUS
  <2>. QED BY <1>6, <2>1, <2>2, Zenon
<1>11. indexOf("Cerrado") = 5
  <2>1. \A i \in 1 .. 5 : TICKET_STATUSES[i] = "Cerrado" <=> i = 5
    BY <1>1, <1>5
  <2>2. 5 \in 1 .. 5 /\ "Cerrado" # "abierto"
    OBVIOUS
  <2>. QED BY <1>6, <2>1, <2>2, Zenon
<1>. QED BY <1>3, <1>4, <1>7, <1>8, <1>9, <1>10, <1>11

LEMMA EstadosDistintos ==
    /\ "sin crear" \notin EstadosTicket /\ "sin crear" \notin EstadosSolicitud
    /\ "sin crear" \notin EstadosRetiro
    /\ OPEN_TICKET_STATES \subseteq EstadosTicket /\ "Resuelto" \in EstadosTicket /\ "Cerrado" \in EstadosTicket
    /\ "Resuelto" \notin OPEN_TICKET_STATES /\ "Cerrado" \notin OPEN_TICKET_STATES
    /\ CLOSED_REQUEST_STATES \subseteq EstadosSolicitud
  BY EstadosTicketSon DEF EstadosSolicitud, EstadosRetiro, CLOSED_REQUEST_STATES,
         RetirosCerrados, OPEN_TICKET_STATES

\* Records are created once and results are never taken back.
Avance ==
    /\ \A r \in Registros : estadoDe[r] # "sin crear" => estadoDe'[r] # "sin crear"
    /\ resultados \subseteq resultados'

\* A step of one user leaves what the others have read true.
LEMMA UnUsuario ==
    ASSUME CareInv, RegistrosInv', Avance, AtencionTipo', NEW u \in Usuarios, UsuarioInv(u)',
           \A v \in Usuarios \ {u} : etapa'[v] = etapa[v] /\ leido'[v] = leido[v] /\ pedido'[v] = pedido[v]
    PROVE  CareInv'
<1>1. ASSUME NEW v \in Usuarios \ {u} PROVE UsuarioInv(v)'
  <2>1. UsuarioInv(v) /\ pedido[v] \subseteq Pedido /\ leido[v] \in Lectura
    BY CareInvPartes DEF AtencionTipo
  <2>0. etapa'[v] = etapa[v] /\ leido'[v] = leido[v] /\ pedido'[v] = pedido[v]
    OBVIOUS
  <2>2. \A t \in Tickets : estadoDe[t] # "sin crear" => estadoDe'[t] # "sin crear" /\ estadoDe'[t] \in EstadosTicket
    BY DEF Avance, Registros, RegistrosInv, EstadosPropios
  <2>3. \A p \in Pedido : p[2] \in Tickets
    BY DEF Pedido
  <2>4. "sin crear" \notin EstadosTicket
    BY EstadosDistintos
  <2>5. etapa'[v] = "informado" => pedido'[v] \subseteq resultados' /\ pedido'[v] # {}
    BY <2>1 DEF UsuarioInv, Avance
  <2>6. etapa'[v] = "wifi" => \E p \in Pedido : pedido'[v] = {p} /\ estadoDe'[p[2]] \in EstadosTicket
    BY <2>0, <2>1, <2>2, <2>3, <2>4 DEF UsuarioInv
  <2>7. etapa'[v] \in {"estado", "diagnostico", "nota"} => estadoDe'[leido'[v].registro] # "sin crear"
    BY <2>0, <2>1, <2>2 DEF UsuarioInv
  <2>. QED BY <2>1, <2>5, <2>6, <2>7 DEF UsuarioInv
<1>. QED BY <1>1, CareInvPartes

\* A record that is written gets a state of its kind and a closing date that follows it.
Escrito(r, e, c) ==
    /\ c \in BOOLEAN
    /\ r \in Tickets => /\ e \in EstadosTicket
                        /\ e = "Cerrado" => c
                        /\ e \in OPEN_TICKET_STATES => ~c
    /\ r \in Solicitudes => e \in EstadosSolicitud /\ (c <=> e \in CLOSED_REQUEST_STATES)
    /\ r \in Retiros => e \in EstadosRetiro

LEMMA UnRegistro ==
    ASSUME RegistrosInv, NEW r \in Registros, NEW e, NEW c, Escrito(r, e, c),
           estadoDe' = [estadoDe EXCEPT ![r] = e], cierre' = [cierre EXCEPT ![r] = c],
           notas' \in [Registros -> SUBSET Notas], wifi' \in SUBSET Tickets,
           motivo' \in [Registros -> BOOLEAN], resultados' \in SUBSET Pedido,
           UnPayload', resultados \subseteq resultados'
    PROVE  RegistrosInv' /\ Avance
<1>1. e # "sin crear" /\ e \in EstadosRegistro
  BY EstadosDistintos DEF Registros, Escrito, EstadosRegistro
<1>2. /\ estadoDe \in [Registros -> EstadosRegistro] /\ cierre \in [Registros -> BOOLEAN]
      /\ c \in BOOLEAN
  BY DEF RegistrosInv, RegistrosTipo, Escrito
<1>3. /\ estadoDe'[r] = e /\ cierre'[r] = c
      /\ \A s \in Registros \ {r} : estadoDe'[s] = estadoDe[s] /\ cierre'[s] = cierre[s]
  BY <1>2
<1>4. RegistrosTipo'
  BY <1>1, <1>2 DEF RegistrosTipo
<1>5. FechaDeCierre'
  <2>1. ASSUME NEW t \in Tickets
        PROVE  /\ estadoDe'[t] = "Cerrado" => cierre'[t]
               /\ estadoDe'[t] \in OPEN_TICKET_STATES => ~cierre'[t]
    BY <1>3 DEF RegistrosInv, FechaDeCierre, Escrito, Registros
  <2>2. ASSUME NEW s \in Solicitudes PROVE cierre'[s] <=> estadoDe'[s] \in CLOSED_REQUEST_STATES
    BY <1>3 DEF RegistrosInv, FechaDeCierre, Escrito, Registros
  <2>. QED BY <2>1, <2>2 DEF FechaDeCierre
<1>6. EstadosPropios'
  BY <1>3 DEF RegistrosInv, EstadosPropios, Escrito, Registros
<1>7. Avance
  BY <1>1, <1>3 DEF Avance
<1>. QED BY <1>4, <1>5, <1>6, <1>7 DEF RegistrosInv

LEMMA RegistrosQuietos ==
    ASSUME RegistrosInv, UNCHANGED registros
    PROVE  RegistrosInv' /\ Avance
  BY DEF registros, RegistrosInv, RegistrosTipo, FechaDeCierre, EstadosPropios, UnPayload, Avance

LEMMA SinLecturaTipo == SinLectura \in Lectura
<1>1. (CHOOSE r \in Registros : TRUE) \in Registros
  BY CareConstants
<1>. QED BY <1>1 DEF SinLectura, Lectura, EstadosRegistro

\* A user who is done carries nothing.
LEMMA TerminarStep ==
    ASSUME CareInv, RegistrosInv', Avance, NEW u \in Usuarios, Terminar(u)
    PROVE  CareInv'
<1>1. AtencionTipo
  BY CareInvPartes
<1>2. AtencionTipo'
  BY <1>1, SinLecturaTipo DEF AtencionTipo, Terminar, Fases
<1>3. UsuarioInv(u)'
  BY <1>1 DEF UsuarioInv, AtencionTipo, Terminar
<1>4. \A v \in Usuarios \ {u} : etapa'[v] = etapa[v] /\ leido'[v] = leido[v] /\ pedido'[v] = pedido[v]
  BY <1>1 DEF AtencionTipo, Terminar
<1>. QED BY <1>2, <1>3, <1>4, UnUsuario

\* Nobody's reading changes.
LEMMA AtencionQuieta ==
    ASSUME CareInv, RegistrosInv', Avance, UNCHANGED atencion
    PROVE  CareInv'
<1>1. AtencionTipo'
  BY CareInvPartes DEF AtencionTipo, atencion
<1>2. ASSUME NEW u \in Usuarios PROVE UsuarioInv(u)'
  <2>1. UsuarioInv(u) /\ pedido[u] \subseteq Pedido
    BY CareInvPartes DEF AtencionTipo
  <2>2. \A t \in Tickets : estadoDe[t] # "sin crear" => estadoDe'[t] # "sin crear" /\ estadoDe'[t] \in EstadosTicket
    BY DEF Avance, Registros, RegistrosInv, EstadosPropios
  <2>3. \A p \in Pedido : p[2] \in Tickets
    BY DEF Pedido
  <2>4. etapa' = etapa /\ leido' = leido /\ pedido' = pedido
    BY DEF atencion
  <2>5. etapa[u] = "informado" => pedido[u] \subseteq resultados' /\ pedido[u] # {}
    BY <2>1 DEF UsuarioInv, Avance
  <2>6. etapa[u] = "wifi" => \E p \in Pedido : pedido[u] = {p} /\ estadoDe'[p[2]] \in EstadosTicket
    BY <2>1, <2>2, <2>3, EstadosDistintos DEF UsuarioInv
  <2>7. etapa[u] \in {"estado", "diagnostico", "nota"} => estadoDe'[leido[u].registro] # "sin crear"
    BY <2>1, <2>2 DEF UsuarioInv
  <2>. QED BY <2>1, <2>4, <2>5, <2>6, <2>7 DEF UsuarioInv
<1>. QED BY <1>1, <1>2, CareInvPartes

(***************************************************************************)
(* The steps: creation, reading and writing.                               *)
(***************************************************************************)

LEMMA CrearStep ==
    ASSUME CareInv, NEW r \in Registros, NEW e, NEW c, NEW m \in BOOLEAN, Escrito(r, e, c),
           wifi' \in SUBSET Tickets, Crear(r, e, c, m)
    PROVE  CareInv'
<1>1. RegistrosInv
  BY CareInvPartes
<1>2. motivo' \in [Registros -> BOOLEAN] /\ notas' = notas /\ resultados' = resultados
  BY <1>1 DEF Crear, RegistrosInv, RegistrosTipo
<1>3. notas' \in [Registros -> SUBSET Notas] /\ resultados' \in SUBSET Pedido /\ UnPayload'
  BY <1>1, <1>2 DEF RegistrosInv, RegistrosTipo, UnPayload
<1>4. RegistrosInv' /\ Avance
  BY <1>1, <1>2, <1>3, UnRegistro DEF Crear
<1>. QED BY <1>4, AtencionQuieta DEF Crear

LEMMA DeTicketStep ==
    ASSUME CareInv, NEW t \in Tickets,
           \/ \E e \in EstadosTicket, w \in BOOLEAN : CreateTicket(t, e, w)
           \/ \E w \in BOOLEAN : UpdateCategory(t, w)
    PROVE  CareInv'
<1>0. t \in Registros /\ t \notin Solicitudes /\ t \notin Retiros
  BY CareConstants DEF Registros
<1>1. RegistrosInv
  BY CareInvPartes
<1>2. ASSUME NEW w \in BOOLEAN, wifi' = IF w THEN wifi \cup {t} ELSE wifi
      PROVE  wifi' \in SUBSET Tickets
  BY <1>1, <1>2 DEF RegistrosInv, RegistrosTipo
<1>3. ASSUME NEW e \in EstadosTicket, NEW w \in BOOLEAN, CreateTicket(t, e, w) PROVE CareInv'
  <2>1. Escrito(t, e, FALSE)
    BY <1>0, <1>3 DEF Escrito, CreateTicket
  <2>. QED BY <1>0, <1>2, <1>3, <2>1, CrearStep DEF CreateTicket
<1>4. ASSUME NEW w \in BOOLEAN, UpdateCategory(t, w) PROVE CareInv'
  <2>1. wifi' \in SUBSET Tickets
    BY <1>1, <1>4 DEF RegistrosInv, RegistrosTipo, UpdateCategory
  <2>2. RegistrosInv' /\ Avance
    BY <1>1, <1>4, <2>1 DEF RegistrosInv, RegistrosTipo, FechaDeCierre, EstadosPropios, UnPayload,
                            Avance, UpdateCategory
  <2>. QED BY <1>4, <2>2, AtencionQuieta DEF UpdateCategory
<1>. QED BY <1>3, <1>4

LEMMA CreateRequestStep ==
    ASSUME CareInv, NEW s \in Solicitudes, NEW e \in EstadosSolicitud, NEW m \in BOOLEAN,
           CreateRequest(s, e, m)
    PROVE  CareInv'
<1>1. s \in Registros /\ s \notin Tickets /\ s \notin Retiros
  BY CareConstants DEF Registros
<1>2. Escrito(s, e, e \in CLOSED_REQUEST_STATES)
  BY <1>1 DEF Escrito
<1>3. wifi' \in SUBSET Tickets
  BY CareInvPartes DEF RegistrosInv, RegistrosTipo, CreateRequest
<1>. QED BY <1>1, <1>2, <1>3, CrearStep DEF CreateRequest

LEMMA CreateWithdrawalStep ==
    ASSUME CareInv, NEW r \in Retiros, CreateWithdrawal(r)
    PROVE  CareInv'
<1>1. r \in Registros /\ r \notin Tickets /\ r \notin Solicitudes
  BY CareConstants DEF Registros
<1>2. Escrito(r, "REGISTRADA", FALSE)
  BY <1>1 DEF Escrito, EstadosRetiro
<1>3. wifi' \in SUBSET Tickets
  BY CareInvPartes DEF RegistrosInv, RegistrosTipo, CreateWithdrawal
<1>. QED BY <1>1, <1>2, <1>3, CrearStep DEF CreateWithdrawal

\* A reading is typed, and true of the record as it stands.
LEMMA LeerStep ==
    ASSUME CareInv, NEW u \in Usuarios, NEW r \in Registros, NEW f \in Fases, Leer(u, r, f),
           NEW P \in SUBSET Pedido, pedido' = [pedido EXCEPT ![u] = P],
           f # "informado",
           f \in {"estado", "diagnostico", "nota"} => r \in Tickets,
           f \in {"solicitud", "factibilidad"} => r \in Solicitudes /\ estadoDe[r] \notin CLOSED_REQUEST_STATES,
           f = "retiro" => r \in Retiros,
           f = "wifi" => \E p \in Pedido : P = {p} /\ p[2] = r /\ r \in Tickets
    PROVE  CareInv'
<1>. DEFINE l == [registro |-> r, estado |-> estadoDe[r], cierre |-> cierre[r],
                  notas |-> notas[r], motivo |-> motivo[r]]
<1>1. RegistrosInv /\ AtencionTipo /\ RegistrosTipo
  BY CareInvPartes DEF RegistrosInv
<1>2. RegistrosInv' /\ Avance
  BY <1>1, RegistrosQuietos DEF Leer
<1>3. l \in Lectura
  BY <1>1 DEF RegistrosTipo, Lectura
<1>4. /\ etapa' = [etapa EXCEPT ![u] = f] /\ leido' = [leido EXCEPT ![u] = l]
      /\ estadoDe[r] # "sin crear" /\ estadoDe' = estadoDe
  BY DEF Leer, registros
<1>. HIDE DEF l
<1>5. AtencionTipo'
  BY <1>1, <1>3, <1>4 DEF AtencionTipo
<1>6. \A v \in Usuarios \ {u} : etapa'[v] = etapa[v] /\ leido'[v] = leido[v] /\ pedido'[v] = pedido[v]
  BY <1>1, <1>4 DEF AtencionTipo
<1>7. etapa'[u] = f /\ leido'[u] = l /\ pedido'[u] = P
  BY <1>1, <1>4 DEF AtencionTipo
<1>8. l.registro = r /\ l.estado = estadoDe[r] /\ l.cierre = cierre[r]
  BY DEF l
<1>9. f \in {"estado", "diagnostico", "nota"} =>
          /\ l.registro \in Tickets /\ l.estado \in EstadosTicket /\ estadoDe'[l.registro] # "sin crear"
          /\ l.estado = "Cerrado" => l.cierre
          /\ l.estado \in OPEN_TICKET_STATES => ~l.cierre
  BY <1>1, <1>4, <1>8 DEF RegistrosInv, FechaDeCierre, EstadosPropios
<1>10. f \in {"solicitud", "factibilidad"} =>
           /\ l.registro \in Solicitudes /\ l.estado \in EstadosSolicitud \ CLOSED_REQUEST_STATES
           /\ ~l.cierre
  BY <1>1, <1>4, <1>8 DEF RegistrosInv, FechaDeCierre, EstadosPropios
<1>11. f = "wifi" => \E p \in Pedido : P = {p} /\ estadoDe'[p[2]] \in EstadosTicket
  BY <1>1, <1>4 DEF RegistrosInv, EstadosPropios
<1>12. UsuarioInv(u)'
  BY <1>7, <1>8, <1>9, <1>10, <1>11 DEF UsuarioInv
<1>. QED BY <1>2, <1>5, <1>6, <1>12, UnUsuario

\* Whoever is told of a result finds it registered.
LEMMA InformarStep ==
    ASSUME CareInv, RegistrosInv', Avance, NEW u \in Usuarios, NEW p \in Pedido, Informar(u),
           p \in resultados', pedido' = [pedido EXCEPT ![u] = {p}]
    PROVE  CareInv'
<1>1. AtencionTipo
  BY CareInvPartes
<1>2. AtencionTipo'
  BY <1>1, SinLecturaTipo DEF AtencionTipo, Informar, Fases
<1>3. UsuarioInv(u)'
  BY <1>1 DEF UsuarioInv, AtencionTipo, Informar
<1>4. \A v \in Usuarios \ {u} : etapa'[v] = etapa[v] /\ leido'[v] = leido[v] /\ pedido'[v] = pedido[v]
  BY <1>1 DEF AtencionTipo, Informar
<1>. QED BY <1>2, <1>3, <1>4, UnUsuario

LEMMA LecturasStep ==
    ASSUME CareInv, NEW u \in Usuarios,
           \/ \E t \in Tickets : LeerTicket(u, t)
           \/ \E s \in Solicitudes : LeerSolicitud(u, s)
           \/ \E r \in Retiros : LeerRetiro(u, r)
           \/ \E p \in Pedido : LeerWifi(u, p)
    PROVE  CareInv'
<1>0. \A r : r \in Tickets \/ r \in Solicitudes \/ r \in Retiros => r \in Registros
  BY DEF Registros
<1>1. ASSUME NEW t \in Tickets, LeerTicket(u, t) PROVE CareInv'
  <2>1. PICK f \in {"estado", "diagnostico", "nota"} : Leer(u, t, f)
    BY <1>1 DEF LeerTicket
  <2>2. f \in Fases /\ {} \in SUBSET Pedido /\ t \in Registros
    BY <1>0 DEF Fases
  <2>. QED BY <1>1, <2>1, <2>2, LeerStep DEF LeerTicket
<1>2. ASSUME NEW s \in Solicitudes, LeerSolicitud(u, s) PROVE CareInv'
  <2>1. PICK f \in {"solicitud", "factibilidad"} : Leer(u, s, f)
    BY <1>2 DEF LeerSolicitud
  <2>2. f \in Fases /\ {} \in SUBSET Pedido /\ s \in Registros
    BY <1>0 DEF Fases
  <2>. QED BY <1>2, <2>1, <2>2, LeerStep DEF LeerSolicitud
<1>3. ASSUME NEW r \in Retiros, LeerRetiro(u, r) PROVE CareInv'
  <2>1. "retiro" \in Fases /\ {} \in SUBSET Pedido /\ r \in Registros
    BY <1>0 DEF Fases
  <2>2. Leer(u, r, "retiro") /\ pedido' = [pedido EXCEPT ![u] = {}]
    BY <1>3 DEF LeerRetiro
  <2>3. /\ "retiro" # "informado" /\ "retiro" # "wifi"
        /\ "retiro" \notin {"estado", "diagnostico", "nota"} /\ "retiro" \notin {"solicitud", "factibilidad"}
    OBVIOUS
  <2>. QED BY <2>1, <2>2, <2>3, LeerStep
<1>4. ASSUME NEW p \in Pedido, LeerWifi(u, p) PROVE CareInv'
  <2>1. p[2] \in Tickets /\ p[2] \in Registros /\ "wifi" \in Fases /\ {p} \in SUBSET Pedido
    BY <1>0 DEF Fases, Pedido
  <2>2. CASE Leer(u, p[2], "wifi")
    <3>. DEFINE P == {p}
                r == p[2]
    <3>1. /\ pedido' = [pedido EXCEPT ![u] = P] /\ P \in SUBSET Pedido
          /\ \E q \in Pedido : P = {q} /\ q[2] = r /\ r \in Tickets
          /\ r \in Registros /\ Leer(u, r, "wifi") /\ "wifi" \in Fases
      BY <1>4, <2>1, <2>2 DEF LeerWifi
    <3>2. /\ "wifi" # "informado" /\ "wifi" # "retiro"
          /\ "wifi" \notin {"estado", "diagnostico", "nota"} /\ "wifi" \notin {"solicitud", "factibilidad"}
      OBVIOUS
    <3>. HIDE DEF P, r
    <3>. QED BY <3>1, <3>2, LeerStep
  <2>3. CASE p \in resultados /\ Informar(u) /\ UNCHANGED registros
    <3>1. RegistrosInv' /\ Avance /\ resultados' = resultados
      BY <2>3, CareInvPartes, RegistrosQuietos DEF registros
    <3>. QED BY <1>4, <2>3, <3>1, InformarStep DEF LeerWifi
  <2>. QED BY <1>4, <2>2, <2>3 DEF LeerWifi
<1>. QED BY <1>1, <1>2, <1>3, <1>4

\* What the handler that writes has read, and the record it writes.
LEMMA Leido ==
    ASSUME CareInv, NEW u \in Usuarios
    PROVE  /\ RegistrosInv /\ UsuarioInv(u) /\ RegistrosTipo
           /\ leido[u] \in Lectura /\ leido[u].registro \in Registros
           /\ leido[u].notas \in SUBSET Notas /\ leido[u].cierre \in BOOLEAN
           /\ pedido[u] \subseteq Pedido
           /\ leido[u].registro \in Tickets => /\ leido[u].registro \notin Solicitudes
                                               /\ leido[u].registro \notin Retiros
           /\ leido[u].registro \in Solicitudes => /\ leido[u].registro \notin Tickets
                                                   /\ leido[u].registro \notin Retiros
           /\ leido[u].registro \in Retiros => /\ leido[u].registro \notin Tickets
                                               /\ leido[u].registro \notin Solicitudes
<1>1. RegistrosInv /\ UsuarioInv(u) /\ RegistrosTipo /\ leido[u] \in Lectura /\ pedido[u] \subseteq Pedido
  BY CareInvPartes DEF AtencionTipo, RegistrosInv
<1>. QED BY <1>1, CareConstants DEF Lectura

LEMMA SinReabrir ==
    ASSUME NEW e \in OPEN_TICKET_STATES, NEW f \in EstadosTicket, indexOf(e) >= indexOf(f)
    PROVE  f \in OPEN_TICKET_STATES
<1>1. \A g : /\ g = "abierto" => indexOf(g) = 0
             /\ g = "Abierto" => indexOf(g) = 1
             /\ g = "En progreso" => indexOf(g) = 2
             /\ g = "Escalado" => indexOf(g) = 3
             /\ g = "Resuelto" => indexOf(g) = 4
             /\ g = "Cerrado" => indexOf(g) = 5
  BY EstadosTicketSon, Zenon
<1>2. indexOf(e) = 0 \/ indexOf(e) = 1 \/ indexOf(e) = 2 \/ indexOf(e) = 3
  BY <1>1 DEF OPEN_TICKET_STATES
<1>3. f \in OPEN_TICKET_STATES \/ indexOf(f) = 4 \/ indexOf(f) = 5
  BY <1>1, EstadosTicketSon DEF OPEN_TICKET_STATES
<1>. QED BY <1>2, <1>3

LEMMA UpdateStatusStep ==
    ASSUME CareInv, NEW u \in Usuarios, NEW e \in EstadosTicket \ {"abierto"}, NEW ns \in SUBSET Notas,
           UpdateStatus(u, e, ns)
    PROVE  CareInv'
<1>. DEFINE r == leido[u].registro
            c == (e = "Cerrado") \/ leido[u].cierre
<1>1. /\ RegistrosInv /\ RegistrosTipo /\ r \in Registros /\ r \in Tickets
      /\ r \notin Solicitudes /\ r \notin Retiros
      /\ leido[u].estado \in EstadosTicket
      /\ leido[u].estado \in OPEN_TICKET_STATES => ~leido[u].cierre
      /\ leido[u].notas \in SUBSET Notas /\ leido[u].cierre \in BOOLEAN
  BY Leido DEF UsuarioInv, UpdateStatus
<1>2. indexOf(e) >= indexOf(leido[u].estado)
  BY DEF UpdateStatus
<1>3. e \in OPEN_TICKET_STATES => leido[u].estado \in OPEN_TICKET_STATES
  <2>. HIDE DEF r, c
  <2>. QED BY <1>1, <1>2, SinReabrir
<1>4. Escrito(r, e, c)
  BY <1>1, <1>3, EstadosDistintos DEF Escrito
<1>5. /\ estadoDe' = [estadoDe EXCEPT ![r] = e] /\ cierre' = [cierre EXCEPT ![r] = c]
      /\ notas' \in [Registros -> SUBSET Notas] /\ wifi' \in SUBSET Tickets
      /\ motivo' \in [Registros -> BOOLEAN] /\ resultados' \in SUBSET Pedido /\ UnPayload'
      /\ resultados \subseteq resultados'
  BY <1>1 DEF UpdateStatus, RegistrosInv, RegistrosTipo, UnPayload
<1>. HIDE DEF r, c
<1>6. RegistrosInv' /\ Avance
  BY <1>1, <1>4, <1>5, UnRegistro
<1>. QED BY <1>6, TerminarStep DEF UpdateStatus

LEMMA RegisterDiagnosisStep ==
    ASSUME CareInv, NEW u \in Usuarios, NEW n \in Notas, RegisterDiagnosis(u, n)
    PROVE  CareInv'
<1>. DEFINE r == leido[u].registro
<1>1. /\ RegistrosInv /\ RegistrosTipo /\ r \in Registros /\ r \in Tickets
      /\ r \notin Solicitudes /\ r \notin Retiros /\ leido[u].notas \in SUBSET Notas
  BY Leido DEF UsuarioInv, RegisterDiagnosis
<1>2. Escrito(r, "Resuelto", TRUE)
  BY <1>1, EstadosDistintos DEF Escrito
<1>3. /\ estadoDe' = [estadoDe EXCEPT ![r] = "Resuelto"] /\ cierre' = [cierre EXCEPT ![r] = TRUE]
      /\ notas' \in [Registros -> SUBSET Notas] /\ wifi' \in SUBSET Tickets
      /\ motivo' \in [Registros -> BOOLEAN] /\ resultados' \in SUBSET Pedido /\ UnPayload'
      /\ resultados \subseteq resultados'
  BY <1>1 DEF RegisterDiagnosis, RegistrosInv, RegistrosTipo, UnPayload
<1>. HIDE DEF r
<1>4. RegistrosInv' /\ Avance
  BY <1>1, <1>2, <1>3, UnRegistro
<1>. QED BY <1>4, TerminarStep DEF RegisterDiagnosis

LEMMA AddTechnicalNoteStep ==
    ASSUME CareInv, NEW u \in Usuarios, NEW n \in Notas, AddTechnicalNote(u, n)
    PROVE  CareInv'
<1>1. RegistrosInv /\ RegistrosTipo /\ leido[u].notas \in SUBSET Notas
  BY Leido
<1>2. RegistrosInv' /\ Avance
  BY <1>1 DEF AddTechnicalNote, RegistrosInv, RegistrosTipo, FechaDeCierre, EstadosPropios, UnPayload, Avance
<1>. QED BY <1>2, TerminarStep DEF AddTechnicalNote

LEMMA RegisterWifiResultStep ==
    ASSUME CareInv, NEW u \in Usuarios, RegisterWifiResult(u)
    PROVE  CareInv'
<1>0. PICK p \in pedido[u] :
          /\ etapa[u] = "wifi"
          /\ Informar(u)
          /\ \/ p \in resultados /\ UNCHANGED registros
             \/ /\ ~\E q \in resultados : q[1] = p[1]
                /\ estadoDe[p[2]] \in OPEN_TICKET_STATES
                /\ estadoDe' = [estadoDe EXCEPT ![p[2]] = IF p[3] THEN "Resuelto" ELSE "Escalado"]
                /\ cierre' = [cierre EXCEPT ![p[2]] = p[3]]
                /\ resultados' = resultados \cup {p}
                /\ UNCHANGED <<notas, wifi, motivo>>
          /\ UNCHANGED pedido
  BY DEF RegisterWifiResult
<1>1. RegistrosInv /\ RegistrosTipo /\ p \in Pedido
  BY Leido
<1>2. /\ p[2] \in Tickets /\ p[2] \in Registros /\ p[3] \in BOOLEAN
      /\ p[2] \notin Solicitudes /\ p[2] \notin Retiros
  BY <1>1, CareConstants DEF Pedido, Registros
<1>3. ASSUME p \in resultados, UNCHANGED registros PROVE RegistrosInv' /\ Avance /\ p \in resultados'
  BY <1>1, <1>3, RegistrosQuietos DEF registros
<1>4. ASSUME ~\E q \in resultados : q[1] = p[1],
             estadoDe' = [estadoDe EXCEPT ![p[2]] = IF p[3] THEN "Resuelto" ELSE "Escalado"],
             cierre' = [cierre EXCEPT ![p[2]] = p[3]], resultados' = resultados \cup {p},
             UNCHANGED <<notas, wifi, motivo>>
      PROVE  RegistrosInv' /\ Avance /\ p \in resultados'
  <2>. DEFINE e == IF p[3] THEN "Resuelto" ELSE "Escalado"
              c == p[3]
              r == p[2]
  <2>1. Escrito(r, e, c)
    BY <1>2, EstadosTicketSon DEF Escrito, OPEN_TICKET_STATES
  <2>2. UnPayload'
    BY <1>1, <1>4 DEF RegistrosInv, UnPayload
  <2>3. /\ notas' \in [Registros -> SUBSET Notas] /\ wifi' \in SUBSET Tickets
        /\ motivo' \in [Registros -> BOOLEAN] /\ resultados' \in SUBSET Pedido
        /\ resultados \subseteq resultados' /\ p \in resultados'
    BY <1>1, <1>4 DEF RegistrosTipo
  <2>4. estadoDe' = [estadoDe EXCEPT ![r] = e] /\ cierre' = [cierre EXCEPT ![r] = c] /\ r \in Registros
    BY <1>2, <1>4
  <2>. HIDE DEF e, c, r
  <2>. QED BY <1>1, <2>1, <2>2, <2>3, <2>4, UnRegistro
<1>5. RegistrosInv' /\ Avance /\ p \in resultados'
  BY <1>0, <1>3, <1>4
<1>6. AtencionTipo
  BY CareInvPartes
<1>7. AtencionTipo'
  BY <1>0, <1>6, SinLecturaTipo DEF AtencionTipo, Informar, Fases
<1>8. \A v \in Usuarios \ {u} : etapa'[v] = etapa[v] /\ leido'[v] = leido[v] /\ pedido'[v] = pedido[v]
  BY <1>0, <1>6 DEF AtencionTipo, Informar
<1>9. pedido'[u] = {p} /\ etapa'[u] = "informado"
  <2>1. PICK q \in Pedido : pedido[u] = {q}
    BY <1>0, Leido DEF UsuarioInv
  <2>2. q = p
    BY <2>1
  <2>. QED BY <1>0, <1>6, <2>1, <2>2 DEF AtencionTipo, Informar
<1>10. UsuarioInv(u)'
  BY <1>5, <1>9 DEF UsuarioInv
<1>. QED BY <1>5, <1>7, <1>8, <1>10, UnUsuario

LEMMA UpdateRequestStatusStep ==
    ASSUME CareInv, NEW u \in Usuarios, NEW e \in EstadosSolicitud, UpdateRequestStatus(u, e)
    PROVE  CareInv'
<1>. DEFINE r == leido[u].registro
            c == e \in CLOSED_REQUEST_STATES
<1>1. /\ RegistrosInv /\ RegistrosTipo /\ r \in Registros /\ r \in Solicitudes
      /\ r \notin Tickets /\ r \notin Retiros
  BY Leido DEF UsuarioInv, UpdateRequestStatus
<1>2. Escrito(r, e, c)
  BY <1>1 DEF Escrito
<1>3. /\ estadoDe' = [estadoDe EXCEPT ![r] = e] /\ cierre' = [cierre EXCEPT ![r] = c]
      /\ notas' \in [Registros -> SUBSET Notas] /\ wifi' \in SUBSET Tickets
      /\ motivo' \in [Registros -> BOOLEAN] /\ resultados' \in SUBSET Pedido /\ UnPayload'
      /\ resultados \subseteq resultados'
  BY <1>1 DEF UpdateRequestStatus, RegistrosInv, RegistrosTipo, UnPayload
<1>. HIDE DEF r, c
<1>4. RegistrosInv' /\ Avance
  BY <1>1, <1>2, <1>3, UnRegistro
<1>. QED BY <1>4, TerminarStep DEF UpdateRequestStatus

LEMMA UpdateFeasibilityStep ==
    ASSUME CareInv, NEW u \in Usuarios, NEW factible \in BOOLEAN, UpdateFeasibility(u, factible)
    PROVE  CareInv'
<1>. DEFINE r == leido[u].registro
            e == IF factible THEN leido[u].estado ELSE "No Factible"
            c == ~factible \/ leido[u].cierre
<1>1. /\ RegistrosInv /\ RegistrosTipo /\ r \in Registros /\ r \in Solicitudes
      /\ r \notin Tickets /\ r \notin Retiros
      /\ leido[u].estado \in EstadosSolicitud \ CLOSED_REQUEST_STATES /\ ~leido[u].cierre
  BY Leido DEF UsuarioInv, UpdateFeasibility
<1>2. Escrito(r, e, c)
  BY <1>1, EstadosDistintos DEF Escrito, CLOSED_REQUEST_STATES
<1>3. /\ estadoDe' = [estadoDe EXCEPT ![r] = e] /\ cierre' = [cierre EXCEPT ![r] = c]
      /\ notas' \in [Registros -> SUBSET Notas] /\ wifi' \in SUBSET Tickets
      /\ motivo' \in [Registros -> BOOLEAN] /\ resultados' \in SUBSET Pedido /\ UnPayload'
      /\ resultados \subseteq resultados'
  BY <1>1 DEF UpdateFeasibility, RegistrosInv, RegistrosTipo, UnPayload
<1>. HIDE DEF r, e, c
<1>4. RegistrosInv' /\ Avance
  BY <1>1, <1>2, <1>3, UnRegistro
<1>. QED BY <1>4, TerminarStep DEF UpdateFeasibility

LEMMA UpdateWithdrawalStep ==
    ASSUME CareInv, NEW u \in Usuarios, NEW e \in EstadosRetiro, UpdateWithdrawal(u, e)
    PROVE  CareInv'
<1>. DEFINE r == leido[u].registro
            c == cierre[r]
<1>1. /\ RegistrosInv /\ RegistrosTipo /\ r \in Registros /\ r \in Retiros
      /\ r \notin Tickets /\ r \notin Solicitudes
  BY Leido DEF UsuarioInv, UpdateWithdrawal
<1>2. Escrito(r, e, c)
  BY <1>1 DEF Escrito, RegistrosTipo
<1>3. /\ estadoDe' = [estadoDe EXCEPT ![r] = e] /\ cierre' = [cierre EXCEPT ![r] = c]
      /\ notas' \in [Registros -> SUBSET Notas] /\ wifi' \in SUBSET Tickets
      /\ motivo' \in [Registros -> BOOLEAN] /\ resultados' \in SUBSET Pedido /\ UnPayload'
      /\ resultados \subseteq resultados'
  BY <1>1 DEF UpdateWithdrawal, RegistrosInv, RegistrosTipo, UnPayload
<1>. HIDE DEF r, c
<1>4. RegistrosInv' /\ Avance
  BY <1>1, <1>2, <1>3, UnRegistro
<1>. QED BY <1>4, TerminarStep DEF UpdateWithdrawal

LEMMA DeUsuarioStep ==
    ASSUME CareInv, NEW u \in Usuarios, DeUsuario(u)
    PROVE  CareInv'
<1>1. ASSUME NEW e \in EstadosTicket \ {"abierto"}, NEW ns \in SUBSET Notas, UpdateStatus(u, e, ns)
      PROVE  CareInv'
  BY <1>1, UpdateStatusStep
<1>2. ASSUME NEW n \in Notas, RegisterDiagnosis(u, n) \/ AddTechnicalNote(u, n) PROVE CareInv'
  BY <1>2, RegisterDiagnosisStep, AddTechnicalNoteStep
<1>3. ASSUME NEW p \in Pedido, LeerWifi(u, p) PROVE CareInv'
  BY <1>3, LecturasStep
<1>4. CASE RegisterWifiResult(u)
  BY <1>4, RegisterWifiResultStep
<1>5. ASSUME NEW e \in EstadosSolicitud, UpdateRequestStatus(u, e) PROVE CareInv'
  BY <1>5, UpdateRequestStatusStep
<1>6. ASSUME NEW factible \in BOOLEAN, UpdateFeasibility(u, factible) PROVE CareInv'
  BY <1>6, UpdateFeasibilityStep
<1>7. ASSUME NEW e \in EstadosRetiro, UpdateWithdrawal(u, e) PROVE CareInv'
  BY <1>7, UpdateWithdrawalStep
<1>8. CASE Abandonar(u)
  <2>1. RegistrosInv' /\ Avance
    BY <1>8, CareInvPartes, RegistrosQuietos DEF Abandonar
  <2>. QED BY <1>8, <2>1, TerminarStep DEF Abandonar
<1>. QED BY <1>1, <1>2, <1>3, <1>4, <1>5, <1>6, <1>7, <1>8 DEF DeUsuario

LEMMA CareInitInv ==
    ASSUME CareInit
    PROVE  CareInv
<1>1. RegistrosTipo
  BY DEF CareInit, RegistrosTipo, EstadosRegistro
<1>2. FechaDeCierre
  BY EstadosDistintos DEF CareInit, FechaDeCierre, Registros
<1>3. EstadosPropios /\ UnPayload
  BY DEF CareInit, EstadosPropios, Registros, UnPayload
<1>4. AtencionTipo
  BY SinLecturaTipo DEF CareInit, AtencionTipo, Fases
<1>5. \A u \in Usuarios : UsuarioInv(u)
  BY DEF CareInit, UsuarioInv
<1>. QED BY <1>1, <1>2, <1>3, <1>4, <1>5, CareInvPartes DEF RegistrosInv

\* Closing dates follow the states, a request_id of G2 is applied with one payload, and what
\* the handlers have read is a state their record has been in.
THEOREM CareCorrect == CareSpec => []CareInv
<1>1. CareInit => CareInv
  BY CareInitInv
<1>2. CareInv /\ [CareNext]_careVars => CareInv'
  <2>1. SUFFICES ASSUME CareInv, [CareNext]_careVars PROVE CareInv'
    OBVIOUS
  <2>2. ASSUME NEW t \in Tickets, DeTicket(t) PROVE CareInv'
    BY <2>1, <2>2, DeTicketStep, LecturasStep DEF DeTicket
  <2>3. ASSUME NEW s \in Solicitudes, DeSolicitud(s) PROVE CareInv'
    BY <2>1, <2>3, CreateRequestStep, LecturasStep DEF DeSolicitud
  <2>4. ASSUME NEW r \in Retiros, DeRetiro(r) PROVE CareInv'
    BY <2>1, <2>4, CreateWithdrawalStep, LecturasStep DEF DeRetiro
  <2>5. ASSUME NEW u \in Usuarios, DeUsuario(u) PROVE CareInv'
    BY <2>1, <2>5, DeUsuarioStep
  <2>6. CASE UNCHANGED careVars
    <3>1. RegistrosInv' /\ Avance
      BY <2>1, <2>6, CareInvPartes, RegistrosQuietos DEF careVars
    <3>. QED BY <2>1, <2>6, <3>1, AtencionQuieta DEF careVars
  <2>. QED BY <2>1, <2>2, <2>3, <2>4, <2>5, <2>6 DEF CareNext
<1>. QED BY <1>1, <1>2, PTL DEF CareSpec

(***************************************************************************)
(* What a step never does.                                                 *)
(***************************************************************************)

\* Who writes a request read it in the state it is in, which is not a closed one; every
\* other handler writes a record of another kind.
LEMMA SolicitudCerradaStep ==
    ASSUME CareInv, CareNext, NEW s \in Solicitudes, estadoDe[s] \in CLOSED_REQUEST_STATES
    PROVE  estadoDe'[s] = estadoDe[s] /\ motivo'[s] = motivo[s] /\ cierre'[s] = cierre[s]
<1>. DEFINE Igual == estadoDe'[s] = estadoDe[s] /\ motivo'[s] = motivo[s] /\ cierre'[s] = cierre[s]
<1>0. /\ estadoDe \in [Registros -> EstadosRegistro] /\ cierre \in [Registros -> BOOLEAN]
      /\ motivo \in [Registros -> BOOLEAN] /\ s \in Registros /\ s \notin Tickets /\ s \notin Retiros
      /\ estadoDe[s] # "sin crear"
  BY CareInvPartes, CareConstants, EstadosDistintos DEF RegistrosInv, RegistrosTipo, Registros
<1>1. ASSUME NEW r, NEW e, NEW c, NEW m, Crear(r, e, c, m) PROVE Igual
  BY <1>0, <1>1 DEF Crear
<1>2. ASSUME NEW u \in Usuarios, NEW r, NEW f, Leer(u, r, f) PROVE Igual
  BY <1>2 DEF Leer, registros
<1>3. ASSUME NEW t \in Tickets, DeTicket(t) PROVE Igual
  BY <1>1, <1>2, <1>3 DEF DeTicket, CreateTicket, UpdateCategory, LeerTicket
<1>4. ASSUME NEW q \in Solicitudes, DeSolicitud(q) PROVE Igual
  BY <1>1, <1>2, <1>4 DEF DeSolicitud, CreateRequest, LeerSolicitud
<1>5. ASSUME NEW r \in Retiros, DeRetiro(r) PROVE Igual
  BY <1>1, <1>2, <1>5 DEF DeRetiro, CreateWithdrawal, LeerRetiro
<1>6. ASSUME NEW u \in Usuarios, DeUsuario(u) PROVE Igual
  <2>. DEFINE r == leido[u].registro
  <2>0. UsuarioInv(u) /\ r \in Registros /\ pedido[u] \subseteq Pedido
    BY Leido
  <2>1. ASSUME NEW e, NEW ns, UpdateStatus(u, e, ns) PROVE Igual
    BY <1>0, <2>0, <2>1 DEF UsuarioInv, UpdateStatus
  <2>2. ASSUME NEW n, RegisterDiagnosis(u, n) \/ AddTechnicalNote(u, n) PROVE Igual
    BY <1>0, <2>0, <2>2 DEF UsuarioInv, RegisterDiagnosis, AddTechnicalNote
  <2>3. ASSUME NEW p, LeerWifi(u, p) PROVE Igual
    BY <1>2, <2>3 DEF LeerWifi, registros
  <2>4. ASSUME RegisterWifiResult(u) PROVE Igual
    <3>1. \A p \in pedido[u] : p[2] # s
      BY <1>0, <2>0 DEF Pedido
    <3>. QED BY <1>0, <2>4, <3>1 DEF RegisterWifiResult, registros
  <2>5. ASSUME NEW e, UpdateRequestStatus(u, e) PROVE Igual
    <3>1. r # s
      BY <2>0, <2>5 DEF UsuarioInv, UpdateRequestStatus, Vigente
    <3>. QED BY <1>0, <2>5, <3>1 DEF UpdateRequestStatus
  <2>6. ASSUME NEW factible, UpdateFeasibility(u, factible) PROVE Igual
    <3>1. r # s
      BY <2>0, <2>6 DEF UsuarioInv, UpdateFeasibility, Vigente
    <3>. QED BY <1>0, <2>6, <3>1 DEF UpdateFeasibility
  <2>7. ASSUME NEW e, UpdateWithdrawal(u, e) PROVE Igual
    BY <1>0, <2>0, <2>7 DEF UsuarioInv, UpdateWithdrawal
  <2>8. ASSUME Abandonar(u) PROVE Igual
    BY <2>8 DEF Abandonar, registros
  <2>. HIDE DEF Igual, r
  <2>. QED BY <1>6, <2>1, <2>2, <2>3, <2>4, <2>5, <2>6, <2>7, <2>8 DEF DeUsuario
<1>. HIDE DEF Igual
<1>7. Igual
  BY <1>3, <1>4, <1>5, <1>6 DEF CareNext
<1>. QED BY <1>7 DEF Igual

\* A closed request is final, whoever read it before it was closed.
THEOREM CareClosedRequest == CareSpec => SolicitudCerradaEsFinal
<1>1. CareInv /\ [CareNext]_careVars =>
          [\A s \in Solicitudes : estadoDe[s] \in CLOSED_REQUEST_STATES =>
              /\ estadoDe'[s] = estadoDe[s]
              /\ motivo'[s] = motivo[s]
              /\ cierre'[s] = cierre[s]]_careVars
  BY SolicitudCerradaStep
<1>. QED BY <1>1, CareCorrect, PTL DEF CareSpec, SolicitudCerradaEsFinal

\* Only the transaction that locks the ticket registers a result.
LEMMA ResultadoStep ==
    ASSUME CareNext, NEW p \in resultados' \ resultados
    PROVE  estadoDe[p[2]] \in OPEN_TICKET_STATES /\ \A q \in resultados : q[1] # p[1]
<1>1. ASSUME NEW t \in Tickets, DeTicket(t) PROVE resultados' = resultados
  BY <1>1 DEF DeTicket, CreateTicket, Crear, UpdateCategory, LeerTicket, Leer, registros
<1>2. ASSUME NEW s \in Solicitudes, DeSolicitud(s) PROVE resultados' = resultados
  BY <1>2 DEF DeSolicitud, CreateRequest, Crear, LeerSolicitud, Leer, registros
<1>3. ASSUME NEW r \in Retiros, DeRetiro(r) PROVE resultados' = resultados
  BY <1>3 DEF DeRetiro, CreateWithdrawal, Crear, LeerRetiro, Leer, registros
<1>4. PICK u \in Usuarios : DeUsuario(u)
  BY <1>1, <1>2, <1>3 DEF CareNext
<1>5. ASSUME ~RegisterWifiResult(u) PROVE resultados' = resultados
  BY <1>4, <1>5 DEF DeUsuario, UpdateStatus, RegisterDiagnosis, AddTechnicalNote, LeerWifi, Leer,
                    UpdateRequestStatus, UpdateFeasibility, UpdateWithdrawal, Abandonar, registros
<1>6. RegisterWifiResult(u)
  BY <1>5
<1>. QED BY <1>6 DEF RegisterWifiResult, registros

\* A result of G2 takes a ticket only from an open state, and never twice.
THEOREM CareResultOnce == CareSpec => ResultadoSoloEnAbierto
<1>1. [CareNext]_careVars =>
          [\A p \in resultados' \ resultados :
              estadoDe[p[2]] \in OPEN_TICKET_STATES /\ \A q \in resultados : q[1] # p[1]]_careVars
  BY ResultadoStep
<1>. QED BY <1>1, PTL DEF CareSpec, ResultadoSoloEnAbierto

--------------------------------------------------------------------------------
(* 2. Messages *)

USE DEF filas, meta, trabajo, webhook, SinFila

\* The task of a dispatch and the notification of a call that are under way no more.
LEMMA SinTareaType == SinTarea \in Tarea /\ SinAviso \in Aviso
  BY MessagingConstants DEF MessagingConstants, SinTarea, SinAviso, Tarea, Aviso, Resultados, Status

\* What a dispatch and a webhook call carry.
LEMMA TareaTipos ==
    ASSUME TypeOK
    PROVE  /\ \A w \in Trabajadores : tarea[w].mensaje \in Mensajes /\ tarea[w].resultado \in Resultados
           /\ \A a \in Avisos : aviso[a].mensaje \in Mensajes /\ aviso[a].status \in Status
  BY DEF TypeOK, Tarea, Aviso

LEMMA InitStep == Init => IInv
<1> SUFFICES ASSUME Init PROVE IInv
  OBVIOUS
<1>1. TypeOK
  BY SinTareaType DEF Init, TypeOK, Estados
<1>2. UnaVez /\ EstadoVeraz /\ EnCursoVeraz
  BY DEF Init, UnaVez, EstadoVeraz, EnCursoVeraz, Tiene
<1>3. QED BY <1>1, <1>2 DEF IInv

LEMMA EnqueueStep == ASSUME IInv, NEW m \in Mensajes, Enqueue(m) PROVE IInv'
<1>1. TypeOK'
  BY SinTareaType DEF IInv, TypeOK, Enqueue, Estados, Resultados, EnVuelo, Tarea, Aviso
<1>2. UnaVez'
  BY TareaTipos DEF IInv, TypeOK, UnaVez, Tiene, Enqueue, EnVuelo
<1>3. EstadoVeraz'
  BY TareaTipos DEF IInv, TypeOK, EstadoVeraz, Enqueue, EnVuelo
<1>4. EnCursoVeraz'
  BY TareaTipos DEF IInv, TypeOK, EnCursoVeraz, Enqueue, EnVuelo
<1>5. QED BY <1>1, <1>2, <1>3, <1>4 DEF IInv

LEMMA DispatchStep == ASSUME IInv, NEW w \in Trabajadores, NEW m \in Mensajes, Dispatch(w, m) PROVE IInv'
<1>1. TypeOK'
  BY SinTareaType DEF IInv, TypeOK, Dispatch, Estados, Resultados, EnVuelo, Tarea, Aviso
<1>2. UnaVez'
  BY TareaTipos DEF IInv, TypeOK, UnaVez, Tiene, Dispatch, EnVuelo
<1>3. EstadoVeraz'
  BY TareaTipos DEF IInv, TypeOK, EstadoVeraz, Dispatch, EnVuelo
<1>4. EnCursoVeraz'
  BY TareaTipos DEF IInv, TypeOK, EnCursoVeraz, Dispatch, EnVuelo
<1>5. QED BY <1>1, <1>2, <1>3, <1>4 DEF IInv

LEMMA DescartarStep == ASSUME IInv, NEW w \in Trabajadores, Descartar(w) PROVE IInv'
<1> DEFINE m == tarea[w].mensaje
<1>1. m \in Mensajes
  BY TareaTipos DEF IInv
<1>2. \/ estado' = estado
      \/ estado[m] = "PENDIENTE" /\ estado' = [estado EXCEPT ![m] = "FALLIDO"]
  BY DEF Descartar
<1>3. /\ paso' = [paso EXCEPT ![w] = "libre"]
      /\ tarea' = [tarea EXCEPT ![w] = SinTarea]
      /\ UNCHANGED <<reclamado, conId, enviados, notificado, fase, aviso, confirmado>>
  BY DEF Descartar, Soltar
<1> HIDE DEF m
<1>4. /\ paso'[w] = "libre"
      /\ \A v \in Trabajadores : v # w => paso'[v] = paso[v] /\ tarea'[v] = tarea[v]
  BY <1>3 DEF IInv, TypeOK
<1>5. estado[m] = "PENDIENTE" => /\ m \notin enviados /\ ~conId[m]
                                 /\ \A v \in Trabajadores : ~Tiene(v, m)
  BY <1>1 DEF IInv, UnaVez, EstadoVeraz, EnVuelo
<1>6. estado' \in [Mensajes -> Estados]
  BY <1>1, <1>2 DEF IInv, TypeOK, Estados, Resultados
<1>7. \A n \in Mensajes : estado'[n] = estado[n] \/ (n = m /\ estado[m] = "PENDIENTE" /\ estado'[n] = "FALLIDO")
  BY <1>1, <1>2 DEF IInv, TypeOK
<1>8. TypeOK'
  BY <1>3, <1>6, SinTareaType DEF IInv, TypeOK
<1>9. UnaVez'
  <2>1. \A v \in Trabajadores, n \in Mensajes : Tiene(v, n)' => Tiene(v, n) /\ estado'[n] = estado[n]
    BY <1>4, <1>5, <1>7 DEF Tiene
  <2>2. ASSUME NEW v \in Trabajadores, paso'[v] = "reclamado" PROVE tarea'[v].mensaje \notin enviados'
    <3>1. v # w /\ paso[v] = "reclamado" /\ tarea'[v] = tarea[v] /\ enviados' = enviados
      BY <1>3, <1>4, <2>2
    <3>2. QED BY <3>1 DEF IInv, UnaVez
  <2>3. QED BY <1>3, <1>7, <2>1, <2>2 DEF IInv, UnaVez
<1>10. EstadoVeraz'
  BY <1>3, <1>5, <1>7 DEF IInv, EstadoVeraz, EnVuelo
<1>11. EnCursoVeraz'
  <2>1. ASSUME NEW v \in Trabajadores
        PROVE  (/\ paso[v] = "leido" => estado[tarea[v].mensaje] # SinFila
                /\ paso[v] = "respondido" /\ tarea[v].resultado = "ENVIADO_PROVEEDOR" =>
                       tarea[v].mensaje \in enviados
                /\ paso[v] = "respondido" /\ tarea[v].resultado = "FALLIDO" =>
                       tarea[v].mensaje \notin enviados)'
    <3>1. CASE v = w
      BY <1>4, <3>1
    <3>2. CASE v # w
      <4>1. paso'[v] = paso[v] /\ tarea'[v] = tarea[v] /\ tarea[v].mensaje \in Mensajes /\ enviados' = enviados
        BY <1>3, <1>4, <3>2, TareaTipos DEF IInv
      <4>2. QED BY <1>7, <4>1 DEF IInv, EnCursoVeraz
    <3>3. QED BY <3>1, <3>2
  <2>2. QED BY <1>3, <2>1 DEF IInv, EnCursoVeraz
<1>12. QED BY <1>8, <1>9, <1>10, <1>11 DEF IInv

LEMMA ReclamarStep == ASSUME IInv, NEW w \in Trabajadores, Reclamar(w) PROVE IInv'
<1> DEFINE m == tarea[w].mensaje
<1>1. m \in Mensajes
  BY TareaTipos DEF IInv
<1>2. UNCHANGED <<conId, enviados, notificado, fase, aviso, confirmado>>
  BY DEF Reclamar
<1>3. \/ /\ paso[w] = "leido"
         /\ estado[m] = "PENDIENTE" /\ ~reclamado[m]
         /\ estado' = [estado EXCEPT ![m] = "EN_PROCESO"]
         /\ reclamado' = [reclamado EXCEPT ![m] = TRUE]
         /\ paso' = [paso EXCEPT ![w] = "reclamado"]
         /\ tarea' = tarea
      \/ /\ paso' = [paso EXCEPT ![w] = "libre"]
         /\ tarea' = [tarea EXCEPT ![w] = SinTarea]
         /\ UNCHANGED <<estado, reclamado>>
  BY DEF Reclamar, Soltar
<1>4. CASE /\ paso[w] = "leido"
           /\ estado[m] = "PENDIENTE" /\ ~reclamado[m]
           /\ estado' = [estado EXCEPT ![m] = "EN_PROCESO"]
           /\ reclamado' = [reclamado EXCEPT ![m] = TRUE]
           /\ paso' = [paso EXCEPT ![w] = "reclamado"]
           /\ tarea' = tarea
  <2>1. m \notin enviados /\ ~conId[m] /\ notificado[m] = {} /\ \A v \in Trabajadores : ~Tiene(v, m)
    BY <1>1, <1>4 DEF IInv, TypeOK, UnaVez, EstadoVeraz, EnCursoVeraz, EnVuelo
  <2>2. tarea[w].mensaje = m
    OBVIOUS
  <2> HIDE DEF m
  <2>3. TypeOK'
    BY <1>1, <1>2, <1>4 DEF IInv, TypeOK, Estados
  <2>4. UnaVez'
    <3>1. paso'[w] = "reclamado" /\ \A v \in Trabajadores : v # w => paso'[v] = paso[v]
      BY <1>4 DEF IInv, TypeOK
    <3>2. /\ estado'[m] = "EN_PROCESO" /\ reclamado'[m]
          /\ \A n \in Mensajes : n # m => estado'[n] = estado[n] /\ reclamado'[n] = reclamado[n]
      BY <1>1, <1>4 DEF IInv, TypeOK
    <3>3. \A v \in Trabajadores, n \in Mensajes :
              Tiene(v, n)' => (v = w /\ n = m) \/ (v # w /\ n # m /\ Tiene(v, n))
      BY <1>4, <2>1, <2>2, <3>1 DEF Tiene
    <3>4. \A v \in Trabajadores : (paso[v] = "reclamado" => tarea[v].mensaje \notin enviados)'
      BY <1>2, <1>4, <2>1, <2>2, <3>1 DEF IInv, UnaVez
    <3>5. \A n \in Mensajes : (estado[n] \in {SinFila, "PENDIENTE"} => ~reclamado[n])'
      BY <3>2 DEF IInv, UnaVez
    <3>6. \A v \in Trabajadores, n \in Mensajes :
              (Tiene(v, n) => reclamado[n] /\ estado[n] \in EnVuelo /\ ~conId[n])'
      BY <1>2, <2>1, <3>2, <3>3 DEF IInv, UnaVez, EnVuelo
    <3>7. \A u, v \in Trabajadores, n \in Mensajes : (Tiene(u, n) /\ Tiene(v, n) => u = v)'
      BY <3>3 DEF IInv, UnaVez
    <3>8. QED BY <3>4, <3>5, <3>6, <3>7 DEF UnaVez
  <2>5. EstadoVeraz'
    BY <1>1, <1>2, <1>4, <2>1 DEF IInv, TypeOK, EstadoVeraz, EnVuelo
  <2>6. EnCursoVeraz'
    BY <1>1, <1>2, <1>4, <2>1, TareaTipos DEF IInv, TypeOK, EnCursoVeraz
  <2>7. QED BY <2>3, <2>4, <2>5, <2>6 DEF IInv
<1>5. CASE /\ paso' = [paso EXCEPT ![w] = "libre"]
           /\ tarea' = [tarea EXCEPT ![w] = SinTarea]
           /\ UNCHANGED <<estado, reclamado>>
  <2>1. /\ paso'[w] = "libre"
        /\ \A v \in Trabajadores : v # w => paso'[v] = paso[v] /\ tarea'[v] = tarea[v]
    BY <1>5 DEF IInv, TypeOK
  <2>2. TypeOK'
    BY <1>2, <1>5, SinTareaType DEF IInv, TypeOK
  <2>3. UnaVez'
    <3>1. \A v \in Trabajadores, n \in Mensajes : Tiene(v, n)' => Tiene(v, n)
      BY <2>1 DEF Tiene
    <3>2. \A v \in Trabajadores : (paso[v] = "reclamado" => tarea[v].mensaje \notin enviados)'
      BY <1>2, <2>1 DEF IInv, UnaVez
    <3>3. QED BY <1>2, <1>5, <3>1, <3>2 DEF IInv, UnaVez
  <2>4. EstadoVeraz'
    BY <1>2, <1>5 DEF IInv, EstadoVeraz
  <2>5. EnCursoVeraz'
    <3>1. ASSUME NEW v \in Trabajadores
          PROVE  (/\ paso[v] = "leido" => estado[tarea[v].mensaje] # SinFila
                  /\ paso[v] = "respondido" /\ tarea[v].resultado = "ENVIADO_PROVEEDOR" =>
                         tarea[v].mensaje \in enviados
                  /\ paso[v] = "respondido" /\ tarea[v].resultado = "FALLIDO" =>
                         tarea[v].mensaje \notin enviados)'
      <4>1. CASE v = w
        BY <2>1, <4>1
      <4>2. CASE v # w
        <5>1. paso'[v] = paso[v] /\ tarea'[v] = tarea[v] /\ estado' = estado /\ enviados' = enviados
          BY <1>2, <1>5, <2>1, <4>2
        <5>2. QED BY <5>1 DEF IInv, EnCursoVeraz
      <4>3. QED BY <4>1, <4>2
    <3>2. QED BY <1>2, <3>1 DEF IInv, EnCursoVeraz
  <2>6. QED BY <2>2, <2>3, <2>4, <2>5 DEF IInv
<1>6. QED BY <1>3, <1>4, <1>5

LEMMA SendStep == ASSUME IInv, NEW w \in Trabajadores, Send(w) PROVE IInv'
<1> DEFINE m == tarea[w].mensaje
<1>1. m \in Mensajes /\ Tiene(w, m) /\ paso[w] = "reclamado"
  BY TareaTipos DEF IInv, Send, Tiene
<1>2. PICK r \in Resultados :
          /\ tarea' = [tarea EXCEPT ![w] = [mensaje |-> m, resultado |-> r]]
          /\ \/ r # "FALLIDO" /\ enviados' = enviados \cup {m}
             \/ r # "ENVIADO_PROVEEDOR" /\ enviados' = enviados
  BY DEF Send
<1>3. /\ paso' = [paso EXCEPT ![w] = "respondido"]
      /\ UNCHANGED <<estado, reclamado, conId, notificado, fase, aviso, confirmado>>
  BY DEF Send
<1> HIDE DEF m
<1>4. /\ m \notin enviados /\ estado[m] \in EnVuelo /\ reclamado[m]
      /\ \A v \in Trabajadores : Tiene(v, m) => v = w
  BY <1>1 DEF IInv, UnaVez, Tiene
<1>5. /\ paso'[w] = "respondido" /\ tarea'[w].mensaje = m /\ tarea'[w].resultado = r
      /\ \A v \in Trabajadores : v # w => paso'[v] = paso[v] /\ tarea'[v] = tarea[v]
  BY <1>2, <1>3 DEF IInv, TypeOK
<1>6. TypeOK'
  BY <1>1, <1>2, <1>3 DEF IInv, TypeOK, Tarea
<1>7. UnaVez'
  <2>1. \A v \in Trabajadores, n \in Mensajes : Tiene(v, n)' => Tiene(v, n)
    BY <1>1, <1>5 DEF Tiene
  <2>2. ASSUME NEW v \in Trabajadores, paso'[v] = "reclamado" PROVE tarea'[v].mensaje \notin enviados'
    <3>1. v # w /\ tarea'[v] = tarea[v] /\ paso[v] = "reclamado" /\ tarea[v].mensaje \notin enviados
      BY <1>5, <2>2 DEF IInv, UnaVez
    <3>2. tarea[v].mensaje # m
      BY <1>1, <1>4, <3>1 DEF Tiene
    <3>3. QED BY <1>2, <3>1, <3>2
  <2>3. QED BY <1>3, <2>1, <2>2 DEF IInv, UnaVez
<1>8. EstadoVeraz'
  BY <1>1, <1>2, <1>3, <1>4 DEF IInv, EstadoVeraz, EnVuelo
<1>9. EnCursoVeraz'
  <2>1. \A v \in Trabajadores : v # w /\ paso[v] = "respondido" => tarea[v].mensaje # m
    BY <1>1, <1>4 DEF Tiene
  <2>2. r = "ENVIADO_PROVEEDOR" => m \in enviados'
    BY <1>2
  <2>3. r = "FALLIDO" => m \notin enviados'
    BY <1>2, <1>4
  <2>4. QED BY <1>2, <1>3, <1>4, <1>5, <2>1, <2>2, <2>3 DEF IInv, EnCursoVeraz
<1>10. QED BY <1>6, <1>7, <1>8, <1>9 DEF IInv

LEMMA AnotarStep == ASSUME IInv, NEW w \in Trabajadores, Anotar(w) PROVE IInv'
<1> DEFINE m == tarea[w].mensaje
           r == tarea[w].resultado
<1>1. /\ m \in Mensajes /\ r \in Resultados /\ Tiene(w, m)
      /\ r = "ENVIADO_PROVEEDOR" => m \in enviados
      /\ r = "FALLIDO" => m \notin enviados
  BY TareaTipos DEF IInv, Anotar, Tiene, EnCursoVeraz
<1>2. estado[m] \in EnVuelo /\ ~conId[m] /\ reclamado[m] /\ \A v \in Trabajadores : Tiene(v, m) => v = w
  BY <1>1 DEF IInv, UnaVez
<1>3. /\ estado' = [estado EXCEPT ![m] = r]
      /\ conId' = IF r = "ENVIADO_PROVEEDOR" THEN [conId EXCEPT ![m] = TRUE] ELSE conId
      /\ paso' = [paso EXCEPT ![w] = "libre"]
      /\ tarea' = [tarea EXCEPT ![w] = SinTarea]
      /\ UNCHANGED <<reclamado, enviados, notificado, fase, aviso, confirmado>>
  BY <1>2 DEF Anotar, Soltar
<1> HIDE DEF m, r
<1>4. /\ paso'[w] = "libre"
      /\ \A v \in Trabajadores : v # w => paso'[v] = paso[v] /\ tarea'[v] = tarea[v]
  BY <1>3 DEF IInv, TypeOK
<1>5. /\ estado'[m] = r
      /\ conId'[m] = (r = "ENVIADO_PROVEEDOR")
      /\ \A n \in Mensajes : n # m => estado'[n] = estado[n] /\ conId'[n] = conId[n]
  BY <1>1, <1>2, <1>3 DEF IInv, TypeOK
<1>6. TypeOK'
  BY <1>1, <1>3, SinTareaType DEF IInv, TypeOK, Estados
<1>7. UnaVez'
  <2>1. r \notin {SinFila, "PENDIENTE"}
    BY <1>1 DEF Resultados
  <2>2. \A v \in Trabajadores, n \in Mensajes : Tiene(v, n)' => v # w /\ n # m /\ Tiene(v, n)
    BY <1>2, <1>4 DEF Tiene
  <2>3. ASSUME NEW v \in Trabajadores, paso'[v] = "reclamado" PROVE tarea'[v].mensaje \notin enviados'
    <3>1. v # w /\ paso[v] = "reclamado" /\ tarea'[v] = tarea[v] /\ enviados' = enviados
      BY <1>3, <1>4, <2>3
    <3>2. QED BY <3>1 DEF IInv, UnaVez
  <2>4. QED BY <1>3, <1>5, <2>1, <2>2, <2>3 DEF IInv, UnaVez
<1>8. EstadoVeraz'
  BY <1>1, <1>3, <1>5 DEF IInv, EstadoVeraz, EnVuelo, Resultados
<1>9. EnCursoVeraz'
  <2>1. r # SinFila
    BY <1>1 DEF Resultados
  <2>2. \A n \in Mensajes : (estado[n] # SinFila => estado'[n] # SinFila) /\ (conId[n] => conId'[n])
    BY <1>2, <1>5, <2>1
  <2>3. ASSUME NEW v \in Trabajadores
        PROVE  (/\ paso[v] = "leido" => estado[tarea[v].mensaje] # SinFila
                /\ paso[v] = "respondido" /\ tarea[v].resultado = "ENVIADO_PROVEEDOR" =>
                       tarea[v].mensaje \in enviados
                /\ paso[v] = "respondido" /\ tarea[v].resultado = "FALLIDO" =>
                       tarea[v].mensaje \notin enviados)'
    <3>1. CASE v = w
      BY <1>4, <3>1
    <3>2. CASE v # w
      <4>1. paso'[v] = paso[v] /\ tarea'[v] = tarea[v] /\ tarea[v].mensaje \in Mensajes /\ enviados' = enviados
        BY <1>3, <1>4, <3>2, TareaTipos DEF IInv
      <4>2. QED BY <2>2, <4>1 DEF IInv, EnCursoVeraz
    <3>3. QED BY <3>1, <3>2
  <2>4. \A b \in Avisos : (/\ fase[b] # "libre" => aviso[b].status \in notificado[aviso[b].mensaje]
                           /\ fase[b] = "correlacionado" => conId[aviso[b].mensaje])'
    BY <1>3, <2>2, TareaTipos DEF IInv, EnCursoVeraz
  <2>5. QED BY <1>3, <2>3, <2>4 DEF IInv, EnCursoVeraz
<1>10. QED BY <1>6, <1>7, <1>8, <1>9 DEF IInv

LEMMA CuarentenaStep == ASSUME IInv, NEW m \in Mensajes, Cuarentena(m) PROVE IInv'
<1>1. TypeOK'
  BY SinTareaType DEF IInv, TypeOK, Cuarentena, Estados, Resultados, EnVuelo, Tarea, Aviso
<1>2. UnaVez'
  BY TareaTipos DEF IInv, TypeOK, UnaVez, Tiene, Cuarentena, EnVuelo
<1>3. EstadoVeraz'
  BY TareaTipos DEF IInv, TypeOK, EstadoVeraz, Cuarentena, EnVuelo
<1>4. EnCursoVeraz'
  BY TareaTipos DEF IInv, TypeOK, EnCursoVeraz, Cuarentena, EnVuelo
<1>5. QED BY <1>1, <1>2, <1>3, <1>4 DEF IInv

LEMMA CaerStep == ASSUME IInv, Caer PROVE IInv'
<1>1. TypeOK'
  BY SinTareaType DEF IInv, TypeOK, Caer, Estados, Resultados, EnVuelo, Tarea, Aviso
<1>2. UnaVez'
  BY TareaTipos DEF IInv, TypeOK, UnaVez, Tiene, Caer, EnVuelo
<1>3. EstadoVeraz'
  BY TareaTipos DEF IInv, TypeOK, EstadoVeraz, Caer, EnVuelo
<1>4. EnCursoVeraz'
  BY TareaTipos DEF IInv, TypeOK, EnCursoVeraz, Caer, EnVuelo
<1>5. QED BY <1>1, <1>2, <1>3, <1>4 DEF IInv

LEMMA NotificarStep == ASSUME IInv, NEW m \in Mensajes, NEW s \in Status, Notificar(m, s) PROVE IInv'
<1>1. TypeOK'
  BY SinTareaType DEF IInv, TypeOK, Notificar, Estados, Resultados, EnVuelo, Tarea, Aviso
<1>2. UnaVez'
  BY TareaTipos DEF IInv, TypeOK, UnaVez, Tiene, Notificar, EnVuelo
<1>3. EstadoVeraz'
  <2>1. UNCHANGED <<estado, conId, enviados>> /\ \A n \in Mensajes : notificado[n] \subseteq notificado'[n]
    BY DEF IInv, TypeOK, Notificar
  <2>2. QED BY <2>1 DEF IInv, EstadoVeraz
<1>4. EnCursoVeraz'
  <2>1. /\ m \in enviados
        /\ UNCHANGED <<estado, conId, paso, tarea, enviados, fase, aviso>>
        /\ \A n \in Mensajes : notificado[n] \subseteq notificado'[n] /\ (n # m => notificado'[n] = notificado[n])
    BY DEF IInv, TypeOK, Notificar
  <2>2. QED BY <2>1 DEF IInv, TypeOK, EnCursoVeraz, Tarea, Aviso
<1>5. QED BY <1>1, <1>2, <1>3, <1>4 DEF IInv

LEMMA AcceptStatusStep ==
    ASSUME IInv, NEW a \in Avisos, NEW m \in Mensajes, NEW s \in Status, AcceptStatus(a, m, s)
    PROVE  IInv'
<1>1. TypeOK'
  BY SinTareaType DEF IInv, TypeOK, AcceptStatus, Estados, Resultados, EnVuelo, Tarea, Aviso
<1>2. UnaVez'
  BY TareaTipos DEF IInv, TypeOK, UnaVez, Tiene, AcceptStatus, EnVuelo
<1>3. EstadoVeraz'
  BY TareaTipos DEF IInv, TypeOK, EstadoVeraz, AcceptStatus, EnVuelo
<1>4. EnCursoVeraz'
  BY TareaTipos DEF IInv, TypeOK, EnCursoVeraz, AcceptStatus, EnVuelo
<1>5. QED BY <1>1, <1>2, <1>3, <1>4 DEF IInv

LEMMA IgnorarStep == ASSUME IInv, NEW a \in Avisos, Ignorar(a) PROVE IInv'
<1>1. TypeOK'
  <2>1. <<aviso[a].mensaje, aviso[a].status>> \in Mensajes \X Status
    BY DEF IInv, TypeOK, Aviso
  <2>2. /\ fase' = [fase EXCEPT ![a] = "libre"]
        /\ aviso' = [aviso EXCEPT ![a] = SinAviso]
        /\ confirmado' = confirmado \/ confirmado' = confirmado \cup {<<aviso[a].mensaje, aviso[a].status>>}
        /\ UNCHANGED <<estado, reclamado, conId, paso, tarea, enviados, notificado>>
    BY DEF Ignorar, Contestar
  <2>3. QED BY <2>1, <2>2, SinTareaType DEF IInv, TypeOK
<1>2. UnaVez'
  BY TareaTipos DEF IInv, TypeOK, UnaVez, Tiene, Ignorar, Contestar, EnVuelo
<1>3. EstadoVeraz'
  BY TareaTipos DEF IInv, TypeOK, EstadoVeraz, Ignorar, Contestar, EnVuelo
<1>4. EnCursoVeraz'
  <2>1. /\ fase' = [fase EXCEPT ![a] = "libre"]
        /\ aviso' = [aviso EXCEPT ![a] = SinAviso]
        /\ UNCHANGED <<estado, conId, paso, tarea, enviados, notificado>>
    BY DEF Ignorar, Contestar
  <2>2. QED BY <2>1 DEF IInv, TypeOK, EnCursoVeraz, Tarea, Aviso
<1>5. QED BY <1>1, <1>2, <1>3, <1>4 DEF IInv

LEMMA AplicarStep == ASSUME IInv, NEW a \in Avisos, Aplicar(a) PROVE IInv'
<1> DEFINE m == aviso[a].mensaje
           s == aviso[a].status
<1>1. m \in Mensajes /\ s \in Status /\ s \in notificado[m] /\ conId[m]
  BY DEF IInv, TypeOK, EnCursoVeraz, Aplicar, Aviso
<1>2. \/ UNCHANGED estado
      \/ s = "sent" /\ estado[m] \in EnVuelo /\ estado' = [estado EXCEPT ![m] = "ENVIADO_PROVEEDOR"]
      \/ s = "delivered" /\ estado' = [estado EXCEPT ![m] = "ENTREGADO"]
      \/ s = "read" /\ estado' = [estado EXCEPT ![m] = "LEIDO"]
      \/ s = "failed" /\ estado' = [estado EXCEPT ![m] = "FALLIDO"]
  BY <1>1 DEF Aplicar, states, precedingStates, Status
<1>3. /\ fase' = [fase EXCEPT ![a] = "libre"]
      /\ aviso' = [aviso EXCEPT ![a] = SinAviso]
      /\ confirmado' = confirmado \cup {<<m, s>>}
      /\ UNCHANGED <<reclamado, conId, paso, tarea, enviados, notificado>>
  BY DEF Aplicar, Contestar
<1>4. m \in enviados /\ estado[m] \notin EnVuelo /\ estado[m] # SinFila /\ estado[m] # "PENDIENTE"
  BY <1>1 DEF IInv, EstadoVeraz, EnVuelo
<1>5. \A w \in Trabajadores : ~Tiene(w, m)
  BY <1>1, <1>4 DEF IInv, UnaVez
<1> HIDE DEF m, s
<1>6. TypeOK'
  <2>1. estado' \in [Mensajes -> Estados]
    BY <1>1, <1>2 DEF IInv, TypeOK, Estados, Resultados
  <2>2. <<m, s>> \in Mensajes \X Status
    BY <1>1
  <2>3. QED BY <1>3, <2>1, <2>2, SinTareaType DEF IInv, TypeOK
<1>7. UnaVez'
  <2>1. \A n \in Mensajes : n # m => estado'[n] = estado[n]
    BY <1>2 DEF IInv, TypeOK
  <2>2. estado'[m] \notin {SinFila, "PENDIENTE"}
    BY <1>1, <1>2, <1>4 DEF IInv, TypeOK
  <2>3. QED BY <1>3, <1>5, <2>1, <2>2 DEF IInv, TypeOK, UnaVez, Tiene, Tarea
<1>8. EstadoVeraz'
  BY <1>1, <1>2, <1>3, <1>4 DEF IInv, TypeOK, EstadoVeraz, EnVuelo
<1>9. EnCursoVeraz'
  BY <1>1, <1>2, <1>3, <1>4, <1>5 DEF IInv, TypeOK, EnCursoVeraz, Tarea, Aviso, EnVuelo
<1>10. QED BY <1>6, <1>7, <1>8, <1>9 DEF IInv

LEMMA NextStep == IInv /\ [Next]_vars => IInv'
<1> SUFFICES ASSUME IInv, [Next]_vars PROVE IInv'
  OBVIOUS
<1>1. CASE UNCHANGED vars
  BY <1>1 DEF vars, IInv, TypeOK, UnaVez, EstadoVeraz, EnCursoVeraz, Tiene
<1>2. CASE Next
  BY <1>2, EnqueueStep, DispatchStep, DescartarStep, ReclamarStep, SendStep, AnotarStep, CuarentenaStep,
     CaerStep, NotificarStep, AcceptStatusStep, AplicarStep, IgnorarStep DEF Next
<1>3. QED BY <1>1, <1>2

--------------------------------------------------------------------------------
\* A message is posted once at most and its row never says more than Meta.
THEOREM MessagingCorrect == Spec => []IInv
  BY InitStep, NextStep, PTL DEF Spec

\* What one step does to the row of a message that was delivered or read.
LEMMA EntregadoStep ==
    ASSUME IInv, Next, NEW m \in Mensajes, estado[m] \in {"ENTREGADO", "LEIDO"}
    PROVE  estado'[m] = estado[m] \/ (estado[m] = "ENTREGADO" /\ estado'[m] = "LEIDO")
<1>1. ASSUME NEW n \in Mensajes, Enqueue(n) \/ Cuarentena(n) PROVE estado'[m] = estado[m]
  BY <1>1 DEF IInv, TypeOK, Enqueue, Cuarentena
<1>2. ASSUME NEW w \in Trabajadores, Descartar(w) \/ Reclamar(w) \/ Anotar(w) PROVE estado'[m] = estado[m]
  BY <1>2 DEF IInv, TypeOK, Descartar, Reclamar, Anotar, EnVuelo, Tarea
<1>3. ASSUME NEW a \in Avisos, Aplicar(a)
      PROVE estado'[m] = estado[m] \/ (estado[m] = "ENTREGADO" /\ estado'[m] = "LEIDO")
  <2>1. CASE aviso[a].status = "sent"
    BY <1>3, <2>1 DEF IInv, TypeOK, Aviso, Aplicar, precedingStates, EnVuelo
  <2>2. CASE aviso[a].status = "delivered"
    BY <1>3, <2>2 DEF IInv, TypeOK, Aviso, Aplicar, precedingStates, active
  <2>3. CASE aviso[a].status = "read"
    BY <1>3, <2>3 DEF IInv, TypeOK, Aviso, Aplicar, precedingStates, states, active
  <2>4. CASE aviso[a].status = "failed"
    BY <1>3, <2>4 DEF IInv, TypeOK, Aviso, Aplicar, precedingStates, active
  <2>5. QED BY <2>1, <2>2, <2>3, <2>4 DEF IInv, TypeOK, Aviso, Status
<1>4. QED
  BY <1>1, <1>2, <1>3 DEF Next, Dispatch, Send, Notificar, AcceptStatus, Ignorar, Caer

\* Delivered and read never go back, whatever order the notifications come in.
THEOREM NuncaRetrocedeCorrect == Spec => NuncaRetrocede
<1>1. IInv /\ [Next]_vars
      => [\A m \in Mensajes :
             /\ estado[m] = "LEIDO" => estado'[m] = "LEIDO"
             /\ estado[m] = "ENTREGADO" => estado'[m] \in {"ENTREGADO", "LEIDO"}]_vars
  BY EntregadoStep
<1>2. QED BY <1>1, MessagingCorrect, PTL DEF Spec, NuncaRetrocede
================================================================================
