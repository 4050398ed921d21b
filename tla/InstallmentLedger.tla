--------------------------- MODULE InstallmentLedger ---------------------------
(***************************************************************************)
(* Allocation of the payments of an invoice to the installments of its     *)
(* agreements and their reversal (installment-allocation.service.ts): a    *)
(* ledger that only grows, written by serializable transactions that are   *)
(* retried, under a key the administrator repeats when an answer is lost.  *)
(*                                                                         *)
(* A transaction decides on the snapshot its first read takes; the         *)
(* database lets it write only if the ledger of the invoice, which it      *)
(* reads as a whole, is still the one of the snapshot.  How many times it  *)
(* is tried again (three in all) is left open.  Amounts are exact in the   *)
(* code (Decimal); here they are integers.                                 *)
(*                                                                         *)
(* Its names keep clear of those of TaxEmission, the other thing a payment *)
(* sets off: the proofs about the two share a module.                      *)
(***************************************************************************)
EXTENDS Integers, Sequences, FiniteSetsExt

CONSTANTS
    Invocaciones,   \* concurrent requests
    Convenios,      \* agreements of the invoice
    Cuotas,         \* their installments
    ConvenioDe,     \* agreement of each installment
    MontoCuota,
    Pagos,          \* payments of the invoice
    MontoPago,
    DiaPago,        \* day of each payment
    Claves,         \* keys of the administrators
    MaxOperaciones, \* bound: operations in the ledger
    MaxMonto        \* bound: amount of an operation

ASSUME LedgerConstants ==
    /\ IsFiniteSet(Cuotas) /\ IsFiniteSet(Pagos)
    /\ ConvenioDe \in [Cuotas -> Convenios]
    /\ MontoCuota \in [Cuotas -> Nat \ {0}]
    /\ MontoPago \in [Pagos -> Nat \ {0}]
    /\ DiaPago \in [Pagos -> Nat \ {0}]
    /\ MaxOperaciones \in Nat /\ MaxMonto \in Nat

VARIABLES
    libro,      \* OperacionImputacionCuota, in order of idOperacion
    aprobado,   \* agreements whose state is APROBADO
    pagada,     \* installments whose state is PAGADA
    fechaPago,  \* their fechaPago, 0 for none
    fase,       \* "libre", "tx", or "hecha" once it was told that its operation is registered
    peticion,   \* what it was asked
    foto        \* snapshot of its transaction

filas == <<libro, aprobado, pagada, fechaPago>>
llamada == <<fase, peticion, foto>>
ledgerVars == <<filas, llamada>>

--------------------------------------------------------------------------------
(* Operations: those of a reversal name the line they reverse. *)

Total(m) == SumFunction(m)
Lineas == {m \in UNION {[C -> 1 .. MaxMonto] : C \in (SUBSET Cuotas) \ {{}}} : Total(m) <= MaxMonto}
SinOriginal == <<0, "ninguna">>
Original == {SinOriginal} \cup ((1 .. MaxOperaciones) \X Cuotas)
Operacion == [clave : Claves, convenio : Convenios, pago : Pagos, original : Original, lineas : Lineas]

Reversa(o) == o.original # SinOriginal

\* The lines of a ledger, and what some of them add up to.
LineasDe(h) == UNION {{<<i, q>> : q \in DOMAIN h[i].lineas} : i \in DOMAIN h}
Monto(h, l) == h[l[1]].lineas[l[2]]
Signado(h) == [l \in LineasDe(h) |-> IF Reversa(h[l[1]]) THEN -Monto(h, l) ELSE Monto(h, l)]
net(h, ls) == SumFunctionOnSet(Signado(h), ls)

\* What stands against an installment, of a payment, and of a payment against an installment.
NetoCuota(h, q) == net(h, {l \in LineasDe(h) : l[2] = q})
NetoPago(h, p) == net(h, {l \in LineasDe(h) : h[l[1]].pago = p})
Parte(h, p, q) == net(h, {l \in LineasDe(h) : l[2] = q /\ h[l[1]].pago = p})
Reversas(h, l) == {r \in LineasDe(h) : h[r[1]].original = l}

\* What is left of a line after its reversals.
Vivo(h, l) == Monto(h, l) + net(h, Reversas(h, l))

\* Mutant: the day of a payment counts although its part was reversed.
FechaSinReversas(h, q) ==
    LET dias == {DiaPago[h[l[1]].pago] : l \in {m \in LineasDe(h) : m[2] = q /\ ~Reversa(h[m[1]])}}
    IN  IF NetoCuota(h, q) = MontoCuota[q] THEN Max(dias) ELSE 0

\* The day an installment was paid: the last of the payments that still stand for it.
Fecha(h, q) ==
    LET vivas == {l \in LineasDe(h) : l[2] = q /\ ~Reversa(h[l[1]]) /\ Vivo(h, l) > 0}
    IN  IF NetoCuota(h, q) = MontoCuota[q] THEN Max({DiaPago[h[l[1]].pago] : l \in vivas}) ELSE 0

--------------------------------------------------------------------------------
(* One transaction. *)

Foto(w) == SubSeq(libro, 1, foto[w].operaciones)

\* The original line of a reversal is an allocation of the same agreement, whose
\* payment and installment the operation takes over.
Compatible(h, o) ==
    /\ \A q \in DOMAIN o.lineas : ConvenioDe[q] = o.convenio
    /\ Reversa(o) =>
           /\ o.original \in LineasDe(h)
           /\ LET a == h[o.original[1]]
              IN  ~Reversa(a) /\ a.convenio = o.convenio /\ a.pago = o.pago
           /\ DOMAIN o.lineas = {o.original[2]}

Anterior(h, k) == {i \in DOMAIN h : h[i].clave = k}

\* What the operation may move, of its line, its payment and its installments.
CabeEnOriginal(h, o) == Reversa(o) => o.lineas[o.original[2]] <= Vivo(h, o.original)
CabeEnPago(h, o) ==
    LET usado == NetoPago(h, o.pago)
    IN  /\ 0 <= usado /\ usado <= MontoPago[o.pago]
        /\ Reversa(o) \/ Total(o.lineas) <= MontoPago[o.pago] - usado
CabeEnCuotas(h, o) ==
    \A q \in DOMAIN o.lineas :
        LET neto == NetoCuota(h, q)
            despues == IF Reversa(o) THEN neto - o.lineas[q] ELSE neto + o.lineas[q]
        IN  neto \in 0 .. MontoCuota[q] /\ despues \in 0 .. MontoCuota[q]

Admisible(w, h, o) ==
    /\ foto[w].aprobado
    /\ CabeEnOriginal(h, o)
    /\ CabeEnPago(h, o)
    /\ CabeEnCuotas(h, o)

SinFoto == [operaciones |-> 0, aprobado |-> FALSE]
SinPeticion == [clave |-> "ninguna"]

\* The administrator is told that the operation is registered.
Confirmar(w) ==
    /\ fase' = [fase EXCEPT ![w] = "hecha"]
    /\ foto' = [foto EXCEPT ![w] = SinFoto]
    /\ UNCHANGED peticion

\* An error is answered and nothing was written.
Rechazar(w) ==
    /\ fase' = [fase EXCEPT ![w] = "libre"]
    /\ peticion' = [peticion EXCEPT ![w] = SinPeticion]
    /\ foto' = [foto EXCEPT ![w] = SinFoto]
    /\ UNCHANGED filas

NuevaFoto(o) == [operaciones |-> Len(libro), aprobado |-> o.convenio \in aprobado]

\* apply and reverse: the transaction begins.
Pedir(w, o) ==
    /\ fase[w] # "tx"
    /\ fase' = [fase EXCEPT ![w] = "tx"]
    /\ peticion' = [peticion EXCEPT ![w] = o]
    /\ foto' = [foto EXCEPT ![w] = NuevaFoto(o)]
    /\ UNCHANGED filas

\* The key is known: the same operation was registered, or it stands for another one.
Repetir(w, h, o) ==
    \E i \in Anterior(h, o.clave) :
        \/ h[i] = o /\ Confirmar(w) /\ UNCHANGED filas
        \/ h[i] # o /\ Rechazar(w)

Registrar(w, o) ==
    /\ Len(libro) < MaxOperaciones
    /\ libro' = Append(libro, o)
    /\ pagada' = {q \in Cuotas : IF q \in DOMAIN o.lineas THEN NetoCuota(libro', q) = MontoCuota[q]
                                 ELSE q \in pagada}
    /\ fechaPago' = [q \in Cuotas |-> IF q \in DOMAIN o.lineas THEN Fecha(libro', q) ELSE fechaPago[q]]
    /\ Confirmar(w)
    /\ UNCHANGED aprobado

\* Mutant: only the rows that were updated conflict (repeatable read).
ConflictoDeFilas(w) ==
    \E i \in foto[w].operaciones + 1 .. Len(libro) :
        DOMAIN libro[i].lineas \cap DOMAIN peticion[w].lineas # {}

\* Another transaction wrote in the ledger this one has read.
Conflicto(w) == Len(libro) # foto[w].operaciones

\* The whole transaction again, from a new snapshot; the third conflict is answered.
Reintentar(w) ==
    \/ /\ foto' = [foto EXCEPT ![w] = NuevaFoto(peticion[w])]
       /\ UNCHANGED <<filas, fase, peticion>>
    \/ Rechazar(w)

write(w) ==
    LET h == Foto(w)
        o == peticion[w]
    IN  /\ fase[w] = "tx"
        /\ \/ ~Compatible(h, o) /\ Rechazar(w)
           \/ Compatible(h, o) /\ Repetir(w, h, o)
           \/ /\ Compatible(h, o) /\ Anterior(h, o.clave) = {} /\ ~Admisible(w, h, o)
              /\ Rechazar(w)
           \/ /\ Compatible(h, o) /\ Anterior(h, o.clave) = {} /\ Admisible(w, h, o)
              /\ IF Conflicto(w) THEN Reintentar(w) ELSE Registrar(w, o)

\* The process stops: the transaction is rolled back and nobody is answered.
Caer(w) ==
    /\ fase[w] = "tx"
    /\ Rechazar(w)

\* approveAgreement (commercial-control-book.service.ts).
ApproveAgreement(c) ==
    /\ c \notin aprobado
    /\ aprobado' = aprobado \cup {c}
    /\ UNCHANGED <<libro, pagada, fechaPago, llamada>>

--------------------------------------------------------------------------------
\* The requests considered: any payment, some installments or a line registered.
Alta(k, q, p, m) ==
    [clave |-> k, convenio |-> ConvenioDe[q], pago |-> p, original |-> SinOriginal, lineas |-> m]
Devolucion(k, l, n) ==
    [clave |-> k, convenio |-> libro[l[1]].convenio, pago |-> libro[l[1]].pago, original |-> l,
     lineas |-> [q \in {l[2]} |-> n]]
Peticiones ==
    {Alta(k, q, p, m) : k \in Claves, q \in Cuotas, p \in Pagos, m \in Lineas}
        \cup {Devolucion(k, l, n) : k \in Claves, l \in LineasDe(libro), n \in 1 .. MaxMonto}

LedgerInit ==
    /\ libro = <<>>
    /\ aprobado = {}
    /\ pagada = {}
    /\ fechaPago = [q \in Cuotas |-> 0]
    /\ fase = [w \in Invocaciones |-> "libre"]
    /\ peticion = [w \in Invocaciones |-> SinPeticion]
    /\ foto = [w \in Invocaciones |-> SinFoto]

LedgerNext ==
    \/ \E w \in Invocaciones, o \in Peticiones : Pedir(w, o)
    \/ \E w \in Invocaciones : write(w) \/ Caer(w)
    \/ \E c \in Convenios : ApproveAgreement(c)

LedgerSpec == LedgerInit /\ [][LedgerNext]_ledgerVars

--------------------------------------------------------------------------------
(* Properties *)

LedgerTypeOK ==
    /\ libro \in Seq(Operacion) /\ Len(libro) <= MaxOperaciones
    /\ aprobado \subseteq Convenios
    /\ pagada \subseteq Cuotas
    /\ fechaPago \in [Cuotas -> Nat]
    /\ fase \in [Invocaciones -> {"libre", "tx", "hecha"}]
    /\ peticion \in [Invocaciones -> Operacion \cup {SinPeticion}]
    /\ foto \in [Invocaciones -> [operaciones : 0 .. MaxOperaciones, aprobado : BOOLEAN]]

\* A line is never reversed beyond its amount, and a key stands for one operation.
LibroCuadra ==
    /\ \A l \in LineasDe(libro) : ~Reversa(libro[l[1]]) => Vivo(libro, l) >= 0
    /\ \A i, j \in DOMAIN libro : libro[i].clave = libro[j].clave => i = j
    /\ \A i \in DOMAIN libro : libro[i].convenio \in aprobado

\* An installment is paid when the parts against it add up to it, and its day is that
\* of the last payment that still has one.
CuotasAlDia ==
    \A q \in Cuotas :
        /\ q \in pagada <=> NetoCuota(libro, q) = MontoCuota[q]
        /\ fechaPago[q] = IF q \in pagada THEN Max({DiaPago[p] : p \in {p \in Pagos : Parte(libro, p, q) > 0}})
                          ELSE 0

\* Whoever is told that an operation is registered finds that very operation, once.
RespuestaVeraz ==
    \A w \in Invocaciones :
        fase[w] = "hecha" =>
            Cardinality({i \in DOMAIN libro : libro[i] = peticion[w]}) = 1

\* A reversal takes back an allocation that was there before it, of the same payment.
ReversasPropias ==
    \A i \in DOMAIN libro :
        LET o == libro[i]
        IN  Reversa(o) => /\ o.original \in LineasDe(libro) /\ o.original[1] < i
                          /\ ~Reversa(libro[o.original[1]])
                          /\ libro[o.original[1]].pago = o.pago
                          /\ DOMAIN o.lineas = {o.original[2]}

\* No payment and no installment is exceeded.
Limites ==
    /\ \A p \in Pagos : NetoPago(libro, p) <= MontoPago[p]
    /\ \A q \in Cuotas : NetoCuota(libro, q) <= MontoCuota[q]

\* A snapshot is of the ledger as it was, and its agreement has been approved since.
EnCurso ==
    \A w \in Invocaciones :
        /\ foto[w].operaciones <= Len(libro)
        /\ fase[w] = "tx" => /\ peticion[w] \in Operacion
                             /\ foto[w].aprobado => peticion[w].convenio \in aprobado

LedgerInv ==
    /\ LedgerTypeOK
    /\ LibroCuadra /\ CuotasAlDia /\ RespuestaVeraz
    /\ ReversasPropias /\ Limites /\ EnCurso

\* However the transactions interleave, are retried or repeated, the ledger is an
\* allocation of the payments to the installments.
Asignacion == INSTANCE PaymentAllocation WITH
    imputado <- [p \in Pagos |-> [q \in Cuotas |-> Parte(libro, p, q)]]
ImplementsAllocation == Asignacion!Spec
================================================================================
