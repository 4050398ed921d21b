-------------------------- MODULE ProspectSale_proofs --------------------------
(***************************************************************************)
(* Proofs about the sale to a prospect, for every set of concurrent        *)
(* requests, of plans and of places.                                       *)
(***************************************************************************)
EXTENDS ProspectSale, SequenceTheorems, TLAPS

\* Replacing the last contract leaves as many, and the new one is the last.
LEMMA ReemplazarUltimo ==
    ASSUME NEW S, NEW s \in Seq(S), s # <<>>, NEW c \in S
    PROVE  LET t == [s EXCEPT ![Len(s)] = c]
           IN  t \in Seq(S) /\ Len(t) = Len(s) /\ t # <<>> /\ t[Len(t)] = c
<1> DEFINE t == [s EXCEPT ![Len(s)] = c]
<1>1. Len(s) \in Nat /\ Len(s) > 0 /\ Len(s) \in 1 .. Len(s)
  BY EmptySeq
<1>2. t \in Seq(S) /\ Len(t) = Len(s) /\ t[Len(s)] = c
  BY <1>1, ExceptSeq
<1>3. t # <<>>
  BY <1>1, <1>2
<1>4. QED BY <1>2, <1>3

LEMMA UltimoEsContrato ==
    ASSUME contratos \in Seq(Contrato), contratos # <<>>
    PROVE  ultimo \in Contrato
  BY EmptySeq, ElementOfSeq DEF ultimo

\* What a request remembers before and after its work is well formed.
LEMMA SinLecturaType == ubicacion \in Ubicaciones => SinLectura \in Lectura
<1> SUFFICES ASSUME ubicacion \in Ubicaciones PROVE SinLectura \in Lectura
  OBVIOUS
<1>1. (CHOOSE l \in Ubicaciones : TRUE) \in Ubicaciones
  OBVIOUS
<1>2. QED BY <1>1 DEF SinLectura, Lectura, Etapas

LEMMA LeerType ==
    ASSUME pipeline \in Etapas, NEW l \in Ubicaciones, NEW d \in Etapas, NEW p \in Planes \cup {SinPlan}
    PROVE  Leer(l, d, p) \in Lectura
  BY DEF Leer, Lectura

--------------------------------------------------------------------------------
\* The part of the invariant that speaks of the prospect and its contract.
ContratoInv ==
    /\ UnContrato
    /\ SoloFirmado
    /\ ContratoDespuesDeFactibilidad
    /\ ContratoCubierto
    /\ ContratoCotizado
    /\ EnUnaLista

\* It depends on the prospect, its contracts and what was done with them alone.
LEMMA ContratoInvUnchanged ==
    ASSUME ContratoInv, UNCHANGED <<pipeline, cliente, verificadas, contratos, cambios, solicitadas>>
    PROVE  ContratoInv'
  BY DEF ContratoInv, UnContrato, SoloFirmado, planAcordado, cambios, ContratoDespuesDeFactibilidad, ContratoCubierto,
     ContratoCotizado, EnUnaLista, ContratoVivo, ultimo, ContratoFirmado, Firmados,
     activeProspectWhere, pendingActivationWhere

\* Any request may start: it keeps no lock and has read what its step relies on.
LEMMA EmpezarStep ==
    ASSUME IInv, NEW u \in Usuarios,
           NEW paso \in Pasos \ {"libre", "guardar", "contratando", "firmando", "cambiarPlan"},
           NEW l \in Ubicaciones, NEW d \in Etapas, NEW p \in Planes \cup {SinPlan},
           paso \in {"cotizar", "avanzar", "contratar"} => p \in Planes,
           paso = "contratar" => p \in PlanesEn[l],
           paso = "firmar" => ContratoVivo,
           Empezar(u, paso, Leer(l, d, p))
    PROVE  IInv'
<1>1. Leer(l, d, p) \in Lectura
  BY LeerType DEF IInv, TypeOK
<1>2. TypeOK'
  BY <1>1 DEF IInv, TypeOK, Empezar, Pasar, prospecto, cambios, bloqueos, Pasos
<1>3. BloqueosCoherentes'
  BY DEF IInv, TypeOK, BloqueosCoherentes, Empezar, Pasar, prospecto, cambios, bloqueos
<1>4. ContratoInv'
  BY ContratoInvUnchanged DEF IInv, ContratoInv, Empezar, prospecto
<1>5. LecturasFundadas'
  BY DEF IInv, TypeOK, LecturasFundadas, Empezar, Pasar, Leer, prospecto, ContratoVivo
<1>6. QED BY <1>2, <1>3, <1>4, <1>5 DEF IInv, ContratoInv

\* A request that ends without the locks changed leaves what the others rely on.
LEMMA TerminarTypes ==
    ASSUME IInv, NEW u \in Usuarios, Terminar(u)
    PROVE  pc' \in [Usuarios -> Pasos] /\ leido' \in [Usuarios -> Lectura]
  BY SinLecturaType DEF IInv, TypeOK, Terminar, Pasar, Pasos

LEMMA TerminarLecturas ==
    ASSUME IInv, NEW u \in Usuarios, Terminar(u), ContratoVivo => ContratoVivo'
    PROVE  LecturasFundadas'
  BY DEF IInv, TypeOK, LecturasFundadas, Terminar, Pasar

LEMMA TerminarBloqueos ==
    ASSUME IInv, NEW u \in Usuarios, Terminar(u), UNCHANGED bloqueos,
           pc[u] \notin {"contratando", "firmando"}
    PROVE  BloqueosCoherentes'
  BY DEF IInv, TypeOK, BloqueosCoherentes, Terminar, Pasar, bloqueos

\* The initial states satisfy the invariant.
LEMMA IInvInit == Init => IInv
<1> SUFFICES ASSUME Init PROVE IInv
  OBVIOUS
<1>1. TypeOK
  BY SaleConstants, SinLecturaType, EmptySeq DEF Init, TypeOK, Etapas, Pasos, Cambio
<1>2. BloqueosCoherentes /\ LecturasFundadas
  BY SaleConstants DEF Init, BloqueosCoherentes, LecturasFundadas
<1>3. ContratoInv
  <2>1. ~ContratoVivo /\ Len(contratos) = 0 /\ ~cliente /\ pipeline # "Perdido"
    BY EmptySeq DEF Init, ContratoVivo
  <2>2. UnContrato
    BY <2>1 DEF UnContrato
  <2>3. EnUnaLista
    BY <2>1 DEF EnUnaLista, ContratoFirmado, activeProspectWhere, pendingActivationWhere
  <2>4. SoloFirmado /\ solicitadas = {}
    BY DEF Init, SoloFirmado
  <2>5. QED
    BY <2>1, <2>2, <2>3, <2>4 DEF ContratoInv, ContratoDespuesDeFactibilidad, ContratoCubierto,
       ContratoCotizado
<1>4. QED BY <1>1, <1>2, <1>3 DEF IInv, ContratoInv

--------------------------------------------------------------------------------
(* One lemma per step of a request. *)

LEMMA LeerCambioStep ==
    ASSUME IInv, NEW u \in Usuarios, NEW p \in Planes, LeerCambio(u, p)
    PROVE  IInv'
<1> DEFINE l == [SinLectura EXCEPT !.plan = ultimo.plan, !.nuevo = p]
<1>1. ultimo.plan \in Planes
  BY UltimoEsContrato DEF LeerCambio, ContratoFirmado, ContratoVivo, IInv, TypeOK, Contrato
<1>2. l \in Lectura /\ l.plan = ultimo.plan /\ l.nuevo = p
  BY <1>1, SinLecturaType DEF IInv, TypeOK, SinLectura, Lectura
<1>3. Empezar(u, "cambiarPlan", l) /\ p # ultimo.plan
  BY DEF LeerCambio
<1> HIDE DEF l
<1>4. TypeOK'
  BY <1>2, <1>3 DEF IInv, TypeOK, Empezar, Pasar, prospecto, cambios, bloqueos, Pasos
<1>5. BloqueosCoherentes'
  BY <1>3 DEF IInv, TypeOK, BloqueosCoherentes, Empezar, Pasar, bloqueos
<1>6. ContratoInv'
  BY <1>3, ContratoInvUnchanged DEF IInv, ContratoInv, Empezar, prospecto
<1>7. LecturasFundadas'
  BY <1>1, <1>2, <1>3 DEF IInv, TypeOK, LecturasFundadas, Empezar, Pasar, prospecto, ContratoVivo
<1>8. QED BY <1>4, <1>5, <1>6, <1>7 DEF IInv, ContratoInv

LEMMA PedirStep == ASSUME IInv, NEW u \in Usuarios, Pedir(u) PROVE IInv'
<1> USE DEF Pasos
<1>0. ubicacion \in Ubicaciones /\ pipeline \in Etapas
  BY DEF IInv, TypeOK
<1>1. ASSUME NEW e \in Etapas, LeerPipeline(u, e) PROVE IInv'
  BY <1>0, <1>1, EmpezarStep DEF LeerPipeline
<1>2. ASSUME LeerPerdida(u) PROVE IInv'
  <2>1. "Perdido" \in Etapas BY DEF Etapas
  <2>2. QED BY <1>0, <1>2, <2>1, EmpezarStep DEF LeerPerdida
<1>3. ASSUME LeerFactibilidad(u) PROVE IInv'
  BY <1>0, <1>3, EmpezarStep DEF LeerFactibilidad
<1>4. ASSUME NEW l \in Ubicaciones, LeerTomodat(u, l) PROVE IInv'
  BY <1>0, <1>4, EmpezarStep DEF LeerTomodat
<1>5. ASSUME NEW l \in Ubicaciones, UpdateLocation(u, l) PROVE IInv'
  <2>1. TypeOK' /\ BloqueosCoherentes' /\ LecturasFundadas'
    BY <1>5 DEF IInv, TypeOK, cambios, BloqueosCoherentes, LecturasFundadas, UpdateLocation, bloqueos,
       ContratoVivo
  <2>2. ContratoInv'
    BY <1>5, ContratoInvUnchanged DEF IInv, ContratoInv, UpdateLocation
  <2>3. QED BY <2>1, <2>2 DEF IInv, ContratoInv
<1>6. ASSUME NEW p \in Planes, LeerCotizacion(u, p) PROVE IInv'
  BY <1>0, <1>6, EmpezarStep DEF LeerCotizacion
<1>7. ASSUME NEW p \in Planes, LeerContratacion(u, p) PROVE IInv'
  <2>1. p \in PlanesEn[ubicacion] /\ p \in Planes \cup {SinPlan}
    BY <1>7 DEF LeerContratacion
  <2>2. Empezar(u, "contratar", Leer(ubicacion, pipeline, p))
    BY <1>7 DEF LeerContratacion
  <2>3. "contratar" \in Pasos \ {"libre", "guardar", "contratando", "firmando", "cambiarPlan"}
    OBVIOUS
  <2>4. QED BY <1>0, <2>1, <2>2, <2>3, EmpezarStep
<1>8. ASSUME LeerFirma(u) PROVE IInv'
  <2>1. ContratoVivo /\ Empezar(u, "firmar", Leer(ubicacion, pipeline, SinPlan))
    BY <1>8 DEF LeerFirma
  <2>2. "firmar" \in Pasos \ {"libre", "guardar", "contratando", "firmando", "cambiarPlan"}
    OBVIOUS
  <2>3. QED BY <1>0, <2>1, <2>2, EmpezarStep
<1>9. ASSUME NEW p \in Planes, LeerCambio(u, p) PROVE IInv'
  BY <1>9, LeerCambioStep
<1>10. QED BY <1>1, <1>2, <1>3, <1>4, <1>5, <1>6, <1>7, <1>8, <1>9 DEF Pedir

\* The lists of prospects follow from the rest: a customer has a signed contract.
LEMMA ListasSuficientes ==
    ASSUME UnContrato, SoloFirmado, ContratoDespuesDeFactibilidad, ContratoCubierto, ContratoCotizado,
           cliente => ContratoFirmado
    PROVE  ContratoInv
  BY DEF ContratoInv, ContratoDespuesDeFactibilidad, EnUnaLista, ContratoFirmado,
     activeProspectWhere, pendingActivationWhere

LEMMA ListasSuficientesPrima ==
    ASSUME UnContrato', SoloFirmado', ContratoDespuesDeFactibilidad', ContratoCubierto', ContratoCotizado',
           (cliente => ContratoFirmado)'
    PROVE  ContratoInv'
  BY DEF ContratoInv, ContratoDespuesDeFactibilidad, EnUnaLista, ContratoFirmado,
     activeProspectWhere, pendingActivationWhere

\* Without a contract only the customer matters.
LEMMA SinContratoInv ==
    ASSUME IInv, ~ContratoVivo, UNCHANGED <<cliente, contratos, cambios, solicitadas>>
    PROVE  ContratoInv' /\ ~ContratoVivo'
<1>1. ~ContratoVivo' /\ Len(contratos') = 0
  BY EmptySeq DEF ContratoVivo
<1>2. ~cliente'
  BY DEF IInv, EnUnaLista, ContratoFirmado
<1>3. UnContrato'
  BY <1>1 DEF UnContrato
<1>4. SoloFirmado' /\ solicitadas' = {}
  BY DEF IInv, SoloFirmado, ContratoFirmado, cambios
<1>5. QED
  BY <1>1, <1>2, <1>3, <1>4, ListasSuficientesPrima DEF ContratoDespuesDeFactibilidad,
     ContratoCubierto, ContratoCotizado

LEMMA CambiarEtapaStep == ASSUME IInv, NEW u \in Usuarios, CambiarEtapa(u) PROVE IInv'
<1>1. pipeline' \in Etapas /\ leido[u] \in Lectura
  BY DEF IInv, TypeOK, CambiarEtapa, Lectura
<1>2. TypeOK' /\ BloqueosCoherentes' /\ LecturasFundadas'
  BY <1>1, TerminarTypes, TerminarLecturas, TerminarBloqueos
     DEF IInv, TypeOK, cambios, CambiarEtapa, bloqueos, ContratoVivo
<1>3. CASE Intacto(u)
  <2>1. ContratoInv'
    BY <1>3, SinContratoInv DEF CambiarEtapa, Intacto
  <2>2. QED BY <1>2, <2>1 DEF IInv, ContratoInv
<1>4. CASE ~Intacto(u)
  <2>1. ContratoInv'
    BY <1>4, ContratoInvUnchanged DEF CambiarEtapa, IInv, ContratoInv
  <2>2. QED BY <1>2, <2>1 DEF IInv, ContratoInv
<1>5. QED BY <1>3, <1>4

LEMMA MoverTomodatStep == ASSUME IInv, NEW u \in Usuarios, MoverTomodat(u) PROVE IInv'
<1>1. leido[u].ubicacion \in Ubicaciones
  BY DEF IInv, TypeOK, Lectura
<1>2. TypeOK' /\ BloqueosCoherentes' /\ LecturasFundadas'
  BY <1>1 DEF IInv, TypeOK, cambios, BloqueosCoherentes, LecturasFundadas, MoverTomodat, Pasar, Pasos,
     bloqueos, ContratoVivo
<1>3. ContratoInv'
  BY ContratoInvUnchanged DEF IInv, ContratoInv, MoverTomodat
<1>4. QED BY <1>2, <1>3 DEF IInv, ContratoInv

LEMMA RevisarEtapaStep == ASSUME IInv, NEW u \in Usuarios, RevisarEtapa(u) PROVE IInv'
<1>1. ContratoInv'
  BY ContratoInvUnchanged DEF IInv, ContratoInv, RevisarEtapa, prospecto
<1>2. CASE pipeline \in Factibilidad /\ Pasar(u, "guardar")
           /\ leido' = [leido EXCEPT ![u] = Leer(leido[u].ubicacion, pipeline, SinPlan)]
  <2>1. Leer(leido[u].ubicacion, pipeline, SinPlan) \in Lectura
    BY DEF IInv, TypeOK, Lectura, Leer
  <2>2. TypeOK'
    BY <1>2, <2>1 DEF IInv, TypeOK, RevisarEtapa, Pasar, Pasos, prospecto, cambios, bloqueos
  <2>3. BloqueosCoherentes'
    BY <1>2 DEF IInv, TypeOK, BloqueosCoherentes, RevisarEtapa, Pasar, prospecto, cambios, bloqueos
  <2>4. LecturasFundadas'
    BY <1>2 DEF IInv, TypeOK, LecturasFundadas, RevisarEtapa, Pasar, prospecto, Leer, ContratoVivo
  <2>5. QED BY <1>1, <2>2, <2>3, <2>4 DEF IInv, ContratoInv
<1>3. CASE pipeline \notin Factibilidad /\ Terminar(u)
  <2>1. TypeOK' /\ BloqueosCoherentes' /\ LecturasFundadas'
    BY <1>3, TerminarTypes, TerminarLecturas, TerminarBloqueos
       DEF IInv, TypeOK, RevisarEtapa, prospecto, cambios, bloqueos, ContratoVivo
  <2>2. QED BY <1>1, <2>1 DEF IInv, ContratoInv
<1>4. QED BY <1>2, <1>3 DEF RevisarEtapa

LEMMA GuardarFactibilidadStep == ASSUME IInv, NEW u \in Usuarios, GuardarFactibilidad(u) PROVE IInv'
<1>1. pipeline' \in Etapas /\ verificadas' \in SUBSET (Planes \cup {SinPlan})
  BY DEF IInv, TypeOK, GuardarFactibilidad, Etapas
<1>2. TypeOK' /\ BloqueosCoherentes' /\ LecturasFundadas'
  BY <1>1, TerminarTypes, TerminarLecturas, TerminarBloqueos
     DEF IInv, TypeOK, cambios, GuardarFactibilidad, bloqueos, ContratoVivo
<1>3. CASE pipeline = leido[u].etapa
  <2>1. ~ContratoVivo
    BY <1>3 DEF IInv, LecturasFundadas, GuardarFactibilidad, ContratoDespuesDeFactibilidad
  <2>2. ContratoInv'
    BY <2>1, SinContratoInv DEF GuardarFactibilidad
  <2>3. QED BY <1>2, <2>2 DEF IInv, ContratoInv
<1>4. CASE pipeline # leido[u].etapa
  <2>1. ContratoInv'
    BY <1>4, ContratoInvUnchanged DEF GuardarFactibilidad, IInv, ContratoInv
  <2>2. QED BY <1>2, <2>1 DEF IInv, ContratoInv
<1>5. QED BY <1>3, <1>4

LEMMA CrearCotizacionStep == ASSUME IInv, NEW u \in Usuarios, CrearCotizacion(u) PROVE IInv'
<1>1. leido[u].plan \in Planes
  BY DEF IInv, LecturasFundadas, CrearCotizacion
<1>2. TypeOK' /\ BloqueosCoherentes' /\ LecturasFundadas'
  BY <1>1 DEF IInv, TypeOK, cambios, BloqueosCoherentes, LecturasFundadas, CrearCotizacion, Pasar, Pasos,
     bloqueos, ContratoVivo
<1>3. ContratoInv'
  BY ListasSuficientesPrima DEF IInv, CrearCotizacion, UnContrato, ContratoDespuesDeFactibilidad,
     SoloFirmado, planAcordado, cambios, ContratoCubierto, ContratoCotizado, EnUnaLista,
     ContratoFirmado, ContratoVivo, ultimo
<1>4. QED BY <1>2, <1>3 DEF IInv, ContratoInv

LEMMA AvanzarCotizadaStep == ASSUME IInv, NEW u \in Usuarios, AvanzarCotizada(u) PROVE IInv'
<1>1. pipeline' \in {pipeline, "Cotizacion Enviada"} /\ pipeline' \in Etapas
  BY DEF IInv, TypeOK, AvanzarCotizada, Etapas
<1>2. TypeOK' /\ BloqueosCoherentes' /\ LecturasFundadas'
  BY <1>1, TerminarTypes, TerminarLecturas, TerminarBloqueos
     DEF IInv, TypeOK, cambios, AvanzarCotizada, bloqueos, ContratoVivo
<1>3. ContratoInv'
  BY <1>1, ListasSuficientesPrima DEF IInv, AvanzarCotizada, UnContrato,
     ContratoDespuesDeFactibilidad, Factibilidad, Manuales, ContratoCubierto, ContratoCotizado,
     SoloFirmado, planAcordado, cambios, EnUnaLista, ContratoFirmado, ContratoVivo, ultimo
<1>4. QED BY <1>2, <1>3 DEF IInv, ContratoInv

LEMMA BloqueoSteps ==
    ASSUME IInv, NEW u \in Usuarios, BloquearProspecto(u) \/ BloquearContrato(u)
    PROVE  IInv'
<1>1. ContratoInv'
  BY ContratoInvUnchanged DEF IInv, ContratoInv, BloquearProspecto, BloquearContrato, prospecto
<1>2. CASE BloquearProspecto(u)
  <2>1. TypeOK' /\ BloqueosCoherentes' /\ LecturasFundadas'
    BY <1>2, SaleConstants DEF IInv, TypeOK, cambios, BloqueosCoherentes, LecturasFundadas,
       BloquearProspecto, Pasar, Pasos, prospecto, ContratoVivo
  <2>2. QED BY <1>1, <2>1 DEF IInv, ContratoInv
<1>3. CASE BloquearContrato(u)
  <2>1. TypeOK' /\ BloqueosCoherentes' /\ LecturasFundadas'
    BY <1>3, SaleConstants DEF IInv, TypeOK, cambios, BloqueosCoherentes, LecturasFundadas,
       BloquearContrato, Pasar, Pasos, prospecto, ContratoVivo
  <2>2. QED BY <1>1, <2>1 DEF IInv, ContratoInv
<1>4. QED BY <1>2, <1>3

\* A contract committed now: it is the only one, of a plan that was verified and
\* covered at the place the prospect still has.
LEMMA ConfirmadoUnico ==
    ASSUME IInv, NEW u \in Usuarios, ConfirmarContrato(u), Vigente(u), Contratable(u)
    PROVE  /\ contratos' \in Seq(Contrato)
           /\ Len(contratos') = 1
           /\ ContratoVivo'
           /\ ultimo' = [estado |-> "Pendiente firma contrato", plan |-> leido[u].plan,
                         ubicacion |-> ubicacion]
           /\ pipeline' = "Pendiente firma"
           /\ leido[u].plan \in PlanesEn[ubicacion]
           /\ leido[u].plan \in Planes
<1> DEFINE c == [estado |-> "Pendiente firma contrato", plan |-> leido[u].plan,
                 ubicacion |-> ubicacion]
<1>1. pc[u] = "contratando"
  BY DEF ConfirmarContrato
<1>2. leido[u].plan \in Planes /\ leido[u].plan \in PlanesEn[ubicacion]
  BY <1>1 DEF IInv, LecturasFundadas, Vigente
<1>3. c \in Contrato
  BY <1>2 DEF IInv, TypeOK, Contrato
<1>4. contratos' = ConContrato(c) /\ pipeline' = "Pendiente firma"
  BY DEF ConfirmarContrato
<1>5. CASE contratos = <<>>
  <2>1. contratos' = <<c>>
    BY <1>4, <1>5 DEF ConContrato
  <2>2. contratos' \in Seq(Contrato) /\ Len(contratos') = 1 /\ contratos' # <<>>
        /\ contratos'[1] = c
    <3> HIDE DEF c
    <3>1. QED BY <1>3, <2>1
  <2>3. QED BY <1>2, <1>4, <2>2 DEF ContratoVivo, ultimo
<1>6. CASE contratos # <<>>
  <2>1. contratos' = [contratos EXCEPT ![Len(contratos)] = c]
    BY <1>4, <1>6 DEF ConContrato
  <2>2. contratos' \in Seq(Contrato) /\ Len(contratos') = Len(contratos)
        /\ contratos' # <<>> /\ contratos'[Len(contratos')] = c
    <3> HIDE DEF c
    <3>1. contratos \in Seq(Contrato)
      BY DEF IInv, TypeOK
    <3>2. QED BY <1>3, <1>6, <2>1, <3>1, ReemplazarUltimo
  <2>3. Len(contratos) = 1
    <3>1. contratos \in Seq(Contrato) /\ Len(contratos) <= 1
      BY DEF IInv, TypeOK, UnContrato
    <3>2. Len(contratos) \in Nat /\ Len(contratos) # 0
      BY <1>6, <3>1, EmptySeq
    <3>3. QED BY <3>1, <3>2
  <2>4. QED BY <1>2, <1>4, <2>2, <2>3 DEF ContratoVivo, ultimo
<1>7. QED BY <1>5, <1>6

LEMMA ConfirmarContratoStep == ASSUME IInv, NEW u \in Usuarios, ConfirmarContrato(u) PROVE IInv'
<1>1. BloqueosCoherentes'
  BY SaleConstants DEF IInv, TypeOK, BloqueosCoherentes, ConfirmarContrato, Terminar, Pasar
<1>2. pc' \in [Usuarios -> Pasos] /\ leido' \in [Usuarios -> Lectura]
  BY TerminarTypes DEF ConfirmarContrato
<1>3. CASE Vigente(u) /\ Contratable(u)
  <2>0. contratos' \in Seq(Contrato) /\ ContratoVivo' /\ pipeline' = "Pendiente firma"
    BY <1>3, ConfirmadoUnico
  <2>9. /\ UNCHANGED <<ubicacion, cliente, verificadas, cambios, solicitadas, bloqueoContrato>>
        /\ bloqueoProspecto' = Nadie
    BY DEF ConfirmarContrato
  <2>10. original = SinPlan /\ programado = SinCambio /\ solicitadas = {}
    BY <1>3 DEF IInv, SoloFirmado, ContratoFirmado, ContratoVivo, Contratable, Firmados
  <2>1. TypeOK'
    BY <1>2, <2>0, <2>9 DEF IInv, TypeOK, Etapas, cambios
  <2>2. LecturasFundadas'
    <3>1. Terminar(u)
      BY DEF ConfirmarContrato
    <3>2. QED BY <2>0, <3>1, TerminarLecturas
  <2>3. ~cliente' /\ leido[u].plan \in verificadas'
    BY <1>3 DEF ConfirmarContrato, Vigente
  <2>4. UnContrato'
    <3>1. Len(contratos') = 1
      BY <1>3, ConfirmadoUnico
    <3>2. QED BY <3>1 DEF UnContrato
  <2>5. ContratoDespuesDeFactibilidad' /\ ContratoCubierto' /\ ContratoCotizado'
    <3>1. ultimo' = [estado |-> "Pendiente firma contrato", plan |-> leido[u].plan,
                     ubicacion |-> ubicacion]
          /\ leido[u].plan \in PlanesEn[ubicacion]
      BY <1>3, ConfirmadoUnico
    <3>2. ultimo'.plan = leido[u].plan /\ ultimo'.ubicacion = ubicacion
      BY <3>1
    <3>3. planAcordado' = leido[u].plan /\ solicitadas' = {}
      BY <2>9, <2>10, <3>2 DEF planAcordado, cambios
    <3>4. QED
      BY <2>0, <2>3, <3>1, <3>2, <3>3 DEF ContratoDespuesDeFactibilidad, Factibilidad, Manuales,
         ContratoCubierto, ContratoCotizado
  <2>8. SoloFirmado'
    BY <2>9, <2>10 DEF SoloFirmado, cambios
  <2>6. ContratoInv'
    BY <2>3, <2>4, <2>5, <2>8, ListasSuficientesPrima
  <2>7. QED BY <1>1, <2>1, <2>2, <2>6 DEF IInv, ContratoInv
<1>4. CASE ~(Vigente(u) /\ Contratable(u))
  <2>1. UNCHANGED <<pipeline, ubicacion, cliente, verificadas, contratos, cambios, solicitadas,
                    bloqueoContrato>> /\ bloqueoProspecto' = Nadie
    BY <1>4 DEF ConfirmarContrato
  <2>2. TypeOK'
    BY <1>2, <2>1 DEF IInv, TypeOK, cambios
  <2>3. LecturasFundadas'
    BY <2>1, TerminarLecturas DEF ConfirmarContrato, ContratoVivo
  <2>4. ContratoInv'
    BY <2>1, ContratoInvUnchanged DEF IInv, ContratoInv
  <2>5. QED BY <1>1, <2>2, <2>3, <2>4 DEF IInv, ContratoInv
<1>5. QED BY <1>3, <1>4

\* A contract that is rewritten stays the only one.
LEMMA ReescritoUnico ==
    ASSUME IInv, ContratoVivo, NEW c \in Contrato,
           contratos' = [contratos EXCEPT ![Len(contratos)] = c]
    PROVE  /\ contratos' \in Seq(Contrato)
           /\ Len(contratos') = Len(contratos)
           /\ ContratoVivo'
           /\ ultimo' = c
<1>1. contratos' \in Seq(Contrato) /\ Len(contratos') = Len(contratos)
      /\ contratos' # <<>> /\ contratos'[Len(contratos')] = c
  BY ReemplazarUltimo DEF IInv, TypeOK, ContratoVivo
<1>2. QED BY <1>1 DEF ContratoVivo, ultimo

\* The signature and the activation keep its plan and place.
LEMMA FirmadoUnico ==
    ASSUME IInv, ContratoVivo, NEW e \in Firmados,
           contratos' = [contratos EXCEPT ![Len(contratos)] = [ultimo EXCEPT !.estado = e]]
    PROVE  /\ contratos' \in Seq(Contrato)
           /\ Len(contratos') = Len(contratos)
           /\ ContratoVivo'
           /\ ultimo'.plan = ultimo.plan /\ ultimo'.ubicacion = ultimo.ubicacion
           /\ ultimo'.estado = e
<1> DEFINE c == [ultimo EXCEPT !.estado = e]
<1>1. ultimo \in Contrato
  BY UltimoEsContrato DEF IInv, TypeOK, ContratoVivo
<1>2. c \in Contrato /\ c.plan = ultimo.plan /\ c.ubicacion = ultimo.ubicacion /\ c.estado = e
  BY <1>1 DEF Contrato, Firmados
<1> HIDE DEF c
<1>3. contratos' \in Seq(Contrato) /\ Len(contratos') = Len(contratos)
      /\ ContratoVivo' /\ ultimo' = c
  BY <1>2, ReescritoUnico DEF c
<1>4. QED BY <1>2, <1>3

\* A change of plan keeps its state and place, and the plan that was agreed.
LEMMA CambiadoUnico ==
    ASSUME IInv, ContratoFirmado, NEW p \in Planes, AplicarCambio(ultimo.plan, p)
    PROVE  /\ contratos' \in Seq(Contrato)
           /\ Len(contratos') = Len(contratos)
           /\ ContratoVivo' /\ ContratoFirmado'
           /\ ultimo'.plan = p /\ ultimo'.ubicacion = ultimo.ubicacion
           /\ ultimo'.estado = ultimo.estado
           /\ original' \in Planes
           /\ planAcordado' = planAcordado
<1> DEFINE c == [ultimo EXCEPT !.plan = p]
<1>1. ContratoVivo /\ ultimo \in Contrato
  BY UltimoEsContrato DEF ContratoFirmado, IInv, TypeOK, ContratoVivo
<1>2. /\ c \in Contrato /\ c.plan = p /\ c.ubicacion = ultimo.ubicacion
      /\ c.estado = ultimo.estado /\ ultimo.plan \in Planes
  BY <1>1 DEF Contrato
<1>3. contratos' = [contratos EXCEPT ![Len(contratos)] = c]
  BY DEF AplicarCambio
<1> HIDE DEF c
<1>4. contratos' \in Seq(Contrato) /\ Len(contratos') = Len(contratos)
      /\ ContratoVivo' /\ ultimo' = c
  BY <1>1, <1>2, <1>3, ReescritoUnico
<1>5. original' = planAcordado /\ planAcordado \in Planes
  BY <1>2 DEF AplicarCambio, planAcordado, IInv, TypeOK
<1>6. planAcordado' = planAcordado
  BY <1>5, SaleConstants DEF planAcordado
<1>7. ContratoFirmado'
  BY <1>2, <1>4 DEF ContratoFirmado
<1>8. QED BY <1>2, <1>4, <1>5, <1>6, <1>7

LEMMA AplicarCambioInv ==
    ASSUME IInv, ContratoFirmado, NEW p \in Planes, AplicarCambio(ultimo.plan, p),
           UNCHANGED <<pipeline, cliente, verificadas, solicitadas>>
    PROVE  ContratoInv'
<1>1. UnContrato'
  BY CambiadoUnico DEF IInv, UnContrato
<1>2. ContratoFirmado' /\ ContratoVivo /\ ContratoVivo'
  BY CambiadoUnico DEF ContratoFirmado
<1>3. ContratoCubierto' /\ ContratoCotizado'
  BY <1>2, CambiadoUnico DEF IInv, ContratoCubierto, ContratoCotizado
<1>4. ContratoDespuesDeFactibilidad' /\ SoloFirmado'
  BY <1>2 DEF IInv, ContratoDespuesDeFactibilidad, SoloFirmado
<1>5. QED BY <1>1, <1>2, <1>3, <1>4, ListasSuficientesPrima

\* An undecided change may come and go.
LEMMA ProgramarInv ==
    ASSUME IInv, programado' # SinCambio => ContratoFirmado,
           UNCHANGED <<pipeline, cliente, verificadas, contratos, original, solicitadas>>
    PROVE  ContratoInv'
<1>1. UNCHANGED <<ContratoVivo, ContratoFirmado, ultimo, planAcordado>>
  BY DEF ContratoVivo, ContratoFirmado, ultimo, planAcordado
<1>2. QED
  BY <1>1, ListasSuficientesPrima DEF IInv, UnContrato, SoloFirmado,
     ContratoDespuesDeFactibilidad, ContratoCubierto, ContratoCotizado, EnUnaLista

LEMMA CambiarPlanStep == ASSUME IInv, NEW u \in Usuarios, CambiarPlan(u) PROVE IInv'
<1>1. leido[u].plan \in Planes /\ leido[u].nuevo \in Planes /\ Terminar(u)
  BY DEF IInv, LecturasFundadas, CambiarPlan
<1>2. UNCHANGED <<pipeline, ubicacion, cliente, verificadas, solicitadas, bloqueos>>
  BY DEF CambiarPlan
<1>3. BloqueosCoherentes' /\ pc' \in [Usuarios -> Pasos] /\ leido' \in [Usuarios -> Lectura]
  BY <1>1, <1>2, TerminarTypes, TerminarBloqueos DEF CambiarPlan
<1>4. CASE Cambiable(u) /\ AplicarCambio(leido[u].plan, leido[u].nuevo) /\ UNCHANGED programado
  <2>1. ContratoFirmado /\ AplicarCambio(ultimo.plan, leido[u].nuevo)
    BY <1>4 DEF Cambiable
  <2>2. contratos' \in Seq(Contrato) /\ ContratoVivo' /\ original' \in Planes
    BY <1>1, <2>1, CambiadoUnico
  <2>3. ContratoInv'
    BY <1>1, <1>2, <2>1, AplicarCambioInv
  <2>4. LecturasFundadas'
    BY <1>1, <2>2, TerminarLecturas
  <2>5. TypeOK'
    BY <1>2, <1>3, <1>4, <2>2 DEF IInv, TypeOK, bloqueos
  <2> QED BY <1>3, <2>3, <2>4, <2>5 DEF IInv, ContratoInv
<1>5. CASE UNCHANGED <<contratos, original>>
           /\ (programado' # programado =>
                  /\ ContratoFirmado
                  /\ programado' = [anterior |-> leido[u].plan, nuevo |-> leido[u].nuevo])
  <2>1. LecturasFundadas'
    BY <1>1, <1>5, TerminarLecturas DEF ContratoVivo
  <2>2. ContratoInv'
    BY <1>2, <1>5, ProgramarInv DEF IInv, SoloFirmado
  <2>3. programado' \in Cambio
    <3>1. leido[u].nuevo # leido[u].plan
      BY DEF IInv, LecturasFundadas, CambiarPlan
    <3>2. programado \in Cambio
      BY DEF IInv, TypeOK
    <3> QED BY <1>1, <1>5, <3>1, <3>2 DEF Cambio
  <2>4. TypeOK'
    BY <1>2, <1>3, <1>5, <2>3 DEF IInv, TypeOK, bloqueos
  <2> QED BY <1>3, <2>1, <2>2, <2>4 DEF IInv, ContratoInv
<1>6. QED BY <1>4, <1>5 DEF CambiarPlan, Cambiable, cambios

LEMMA AplicarProgramadoStep == ASSUME IInv, AplicarProgramado PROVE IInv'
<1>1. programado.nuevo \in Planes
  BY DEF AplicarProgramado, IInv, TypeOK, Cambio
<1>2. ContratoFirmado /\ AplicarCambio(ultimo.plan, programado.nuevo)
  BY DEF AplicarProgramado
<1>3. /\ UNCHANGED <<pipeline, ubicacion, cliente, verificadas, solicitadas, bloqueos, pc, leido>>
      /\ programado' = SinCambio
  BY DEF AplicarProgramado
<1>4. contratos' \in Seq(Contrato) /\ ContratoVivo' /\ original' \in Planes
  BY <1>1, <1>2, CambiadoUnico
<1>5. ContratoInv'
  BY <1>1, <1>2, <1>3, AplicarCambioInv
<1>6. TypeOK' /\ BloqueosCoherentes' /\ LecturasFundadas'
  BY <1>3, <1>4 DEF IInv, TypeOK, Cambio, BloqueosCoherentes, LecturasFundadas, bloqueos
<1>7. QED BY <1>5, <1>6 DEF IInv, ContratoInv

LEMMA CancelarProgramadoStep == ASSUME IInv, CancelarProgramado PROVE IInv'
<1>1. ContratoInv'
  BY ProgramarInv DEF CancelarProgramado
<1>2. TypeOK' /\ BloqueosCoherentes' /\ LecturasFundadas'
  BY DEF CancelarProgramado, IInv, TypeOK, Cambio, BloqueosCoherentes, LecturasFundadas, bloqueos,
     ContratoVivo
<1>3. QED BY <1>1, <1>2 DEF IInv, ContratoInv

LEMMA FirmarStep == ASSUME IInv, NEW u \in Usuarios, Firmar(u) PROVE IInv'
<1>1. ContratoVivo
  BY DEF IInv, LecturasFundadas, Firmar
<1>2. /\ contratos' \in Seq(Contrato) /\ Len(contratos') = Len(contratos) /\ ContratoVivo'
      /\ ultimo'.plan = ultimo.plan /\ ultimo'.ubicacion = ultimo.ubicacion
      /\ ultimo'.estado = "Firmado"
  <2>1. "Firmado" \in Firmados
    BY DEF Firmados
  <2>2. QED BY <1>1, <2>1, FirmadoUnico DEF Firmar
<1>3. pipeline' \in {pipeline, "Pendiente activacion"} /\ pipeline' \in Etapas
  BY DEF IInv, TypeOK, Firmar, Etapas
<1>4. TypeOK'
  BY <1>2, <1>3, TerminarTypes DEF IInv, TypeOK, Firmar, cambios
<1>5. BloqueosCoherentes'
  BY SaleConstants DEF IInv, TypeOK, BloqueosCoherentes, Firmar, Terminar, Pasar
<1>6. LecturasFundadas'
  BY <1>2, TerminarLecturas DEF Firmar
<1>7. ContratoFirmado'
  BY <1>2 DEF ContratoFirmado, Firmados
<1>8. UnContrato' /\ ContratoDespuesDeFactibilidad' /\ ContratoCubierto' /\ ContratoCotizado'
      /\ SoloFirmado'
  BY <1>1, <1>2, <1>3, <1>7 DEF IInv, Firmar, UnContrato, ContratoDespuesDeFactibilidad,
     Factibilidad, Manuales, ContratoCubierto, ContratoCotizado, SoloFirmado, planAcordado, cambios
<1>9. ContratoInv'
  BY <1>7, <1>8, ListasSuficientesPrima
<1>10. QED BY <1>4, <1>5, <1>6, <1>9 DEF IInv, ContratoInv

LEMMA SolicitarInstalacionStep == ASSUME IInv, SolicitarInstalacion PROVE IInv'
<1>0. ultimo.plan \in Planes
  BY UltimoEsContrato DEF SolicitarInstalacion, SolicitudAdmitida, ContratoFirmado, ContratoVivo,
     IInv, TypeOK, Contrato
<1>1. TypeOK' /\ BloqueosCoherentes' /\ LecturasFundadas'
  BY <1>0 DEF IInv, TypeOK, Etapas, BloqueosCoherentes, LecturasFundadas, SolicitarInstalacion,
     cambios, bloqueos, ContratoVivo
<1>2. UnContrato' /\ ContratoDespuesDeFactibilidad' /\ ContratoCubierto' /\ ContratoCotizado'
      /\ SoloFirmado' /\ ~cliente'
  BY DEF IInv, SolicitarInstalacion, SolicitudAdmitida, UnContrato, ContratoDespuesDeFactibilidad,
     Factibilidad, Manuales, ContratoCubierto, ContratoCotizado, SoloFirmado, planAcordado, cambios,
     ContratoFirmado, ContratoVivo, ultimo
<1>3. ContratoInv'
  BY <1>2, ListasSuficientesPrima
<1>4. QED BY <1>1, <1>3 DEF IInv, ContratoInv

LEMMA ActivarInstalacionStep == ASSUME IInv, ActivarInstalacion PROVE IInv'
<1>1. ContratoVivo
  BY DEF ActivarInstalacion, ContratoFirmado
<1>2. /\ contratos' \in Seq(Contrato) /\ Len(contratos') = Len(contratos) /\ ContratoVivo'
      /\ ultimo'.plan = ultimo.plan /\ ultimo'.ubicacion = ultimo.ubicacion
      /\ ultimo'.estado = "Activo"
  <2>1. "Activo" \in Firmados
    BY DEF Firmados
  <2>2. QED BY <1>1, <2>1, FirmadoUnico DEF ActivarInstalacion
<1>3. TypeOK'
  BY <1>2 DEF IInv, TypeOK, ActivarInstalacion, Etapas, cambios, bloqueos
<1>4. BloqueosCoherentes' /\ LecturasFundadas'
  BY <1>2 DEF IInv, TypeOK, BloqueosCoherentes, LecturasFundadas, ActivarInstalacion, bloqueos
<1>5. ContratoFirmado'
  BY <1>2 DEF ContratoFirmado, Firmados
<1>6. UnContrato' /\ ContratoDespuesDeFactibilidad' /\ ContratoCubierto' /\ ContratoCotizado'
      /\ SoloFirmado'
  BY <1>1, <1>2, <1>5 DEF IInv, ActivarInstalacion, UnContrato, ContratoDespuesDeFactibilidad,
     Factibilidad, Manuales, ContratoCubierto, ContratoCotizado, SoloFirmado, planAcordado, cambios
<1>7. ContratoInv'
  BY <1>5, <1>6, ListasSuficientesPrima
<1>8. QED BY <1>3, <1>4, <1>7 DEF IInv, ContratoInv

LEMMA ContinuarStep == ASSUME IInv, NEW u \in Usuarios, Continuar(u) PROVE IInv'
  BY CambiarEtapaStep, MoverTomodatStep, RevisarEtapaStep, GuardarFactibilidadStep,
     CrearCotizacionStep, AvanzarCotizadaStep, BloqueoSteps, ConfirmarContratoStep, FirmarStep,
     CambiarPlanStep DEF Continuar

LEMMA IInvUnchanged == ASSUME IInv, UNCHANGED vars PROVE IInv'
<1>1. ContratoInv'
  BY ContratoInvUnchanged DEF IInv, ContratoInv, vars, prospecto
<1>2. TypeOK' /\ BloqueosCoherentes' /\ LecturasFundadas'
  BY DEF IInv, TypeOK, BloqueosCoherentes, LecturasFundadas, vars, prospecto, cambios, bloqueos,
     ContratoVivo
<1>3. QED BY <1>1, <1>2 DEF IInv, ContratoInv

LEMMA NextStep == IInv /\ [Next]_vars => IInv'
  BY PedirStep, ContinuarStep, AplicarProgramadoStep, CancelarProgramadoStep,
     SolicitarInstalacionStep, ActivarInstalacionStep, IInvUnchanged DEF Next

--------------------------------------------------------------------------------
\* The sale keeps its invariant: one contract, agreed on a plan covered and quoted at
\* the prospect's place, changed only once signed, requested from G3 only for plans
\* quoted, and in one list, however its requests interleave.
THEOREM SaleCorrect == Spec => []IInv
  BY IInvInit, NextStep, PTL DEF Spec

--------------------------------------------------------------------------------
(* The detailed sale implements its agreement: each step is one of the agreement *)
(* or leaves it as it was.                                                       *)

\* Steps that leave the contracts alone and neither lose the prospect nor recover it.
LEMMA AcuerdoIntacto ==
    ASSUME UNCHANGED <<contratos, original>>,
           ContratoVivo \/ (pipeline = "Perdido" <=> pipeline' = "Perdido")
    PROVE  UNCHANGED <<fase, acuerdo, enVigor>>
  BY DEF fase, acuerdo, enVigor, planAcordado, ContratoVivo, ultimo

\* A step on the stage of a prospect without contract loses it, recovers it or neither.
LEMMA AcuerdoSinContrato ==
    ASSUME contratos' = contratos, ~ContratoVivo
    PROVE  Acuerdo!ANext \/ UNCHANGED <<fase, acuerdo, enVigor>>
<1>1. ~ContratoVivo' /\ acuerdo = SinAcuerdo /\ acuerdo' = SinAcuerdo /\ enVigor' = enVigor
  BY DEF acuerdo, enVigor, ContratoVivo
<1>2. fase = IF pipeline = "Perdido" THEN "perdida" ELSE "abierta"
  BY DEF fase
<1>3. fase' = IF pipeline' = "Perdido" THEN "perdida" ELSE "abierta"
  BY <1>1 DEF fase
<1>4. CASE pipeline = "Perdido" /\ pipeline' # "Perdido"
  BY <1>1, <1>2, <1>3, <1>4 DEF Acuerdo!ANext, Acuerdo!AReactivar
<1>5. CASE pipeline # "Perdido" /\ pipeline' = "Perdido"
  BY <1>1, <1>2, <1>3, <1>5 DEF Acuerdo!ANext, Acuerdo!APerder
<1>6. CASE pipeline = "Perdido" <=> pipeline' = "Perdido"
  BY <1>1, <1>2, <1>3, <1>6
<1>7. QED BY <1>4, <1>5, <1>6

LEMMA AcuerdoPedir ==
    ASSUME IInv, NEW u \in Usuarios, Pedir(u)
    PROVE  UNCHANGED <<fase, acuerdo, enVigor>>
<1>1. UNCHANGED <<pipeline, contratos, original>>
  BY DEF Pedir, LeerCambio, cambios, LeerPipeline, LeerPerdida, LeerFactibilidad, LeerTomodat, UpdateLocation,
     LeerCotizacion, LeerContratacion, LeerFirma, Empezar, prospecto
<1>2. QED BY <1>1, AcuerdoIntacto

LEMMA AcuerdoConfirmar ==
    ASSUME IInv, NEW u \in Usuarios, ConfirmarContrato(u)
    PROVE  Acuerdo!ANext \/ UNCHANGED <<fase, acuerdo, enVigor>>
<1>1. CASE Vigente(u) /\ Contratable(u)
  <2>1. /\ ContratoVivo'
        /\ ultimo' = [estado |-> "Pendiente firma contrato", plan |-> leido[u].plan,
                      ubicacion |-> ubicacion]
        /\ leido[u].plan \in PlanesEn[ubicacion] /\ leido[u].plan \in Planes
    BY <1>1, ConfirmadoUnico
  <2>7. original' = SinPlan
    BY <1>1 DEF IInv, SoloFirmado, ContratoFirmado, ContratoVivo, Contratable, Firmados,
       ConfirmarContrato, cambios
  <2>2. acuerdo' = [plan |-> leido[u].plan, ubicacion |-> ubicacion]
        /\ enVigor' = acuerdo'.plan
    BY <2>1, <2>7 DEF acuerdo, enVigor, planAcordado
  <2>3. acuerdo' \in Acuerdo!Ofertas
    BY <2>1, <2>2 DEF Acuerdo!Ofertas, IInv, TypeOK
  <2>4. fase' = "contratada"
    BY <2>1 DEF fase, Firmados
  <2>5. fase \in {"abierta", "contratada"}
    BY <1>1 DEF fase, Vigente, Contratable, ContratoVivo, Firmados
  <2>6. QED BY <2>2, <2>3, <2>4, <2>5 DEF Acuerdo!ANext, Acuerdo!AContratar
<1>2. CASE ~(Vigente(u) /\ Contratable(u))
  BY <1>2, AcuerdoIntacto DEF ConfirmarContrato, cambios
<1>3. QED BY <1>1, <1>2

\* The signature and the activation keep the plan and the place agreed.
LEMMA AcuerdoFirmado ==
    ASSUME IInv, ContratoVivo, NEW e \in Firmados,
           contratos' = [contratos EXCEPT ![Len(contratos)] = [ultimo EXCEPT !.estado = e]],
           original' = original
    PROVE  Acuerdo!ANext \/ UNCHANGED <<fase, acuerdo, enVigor>>
<1>1. /\ ContratoVivo'
      /\ ultimo'.plan = ultimo.plan /\ ultimo'.ubicacion = ultimo.ubicacion
      /\ ultimo'.estado = e
  BY FirmadoUnico
<1>2. acuerdo' = acuerdo /\ enVigor' = enVigor
  BY <1>1 DEF acuerdo, enVigor, planAcordado
<1>3. fase' = "firmada" /\ fase \in {"contratada", "firmada"}
  BY <1>1 DEF fase
<1>4. QED BY <1>2, <1>3 DEF Acuerdo!ANext, Acuerdo!AFirmar

\* A change of plan leaves the agreement as it was and moves the plan in force.
LEMMA AcuerdoCambiado ==
    ASSUME IInv, ContratoFirmado, NEW p \in Planes, p # ultimo.plan, AplicarCambio(ultimo.plan, p)
    PROVE  Acuerdo!ANext
<1>1. /\ ContratoVivo /\ ContratoVivo'
      /\ ultimo'.plan = p /\ ultimo'.ubicacion = ultimo.ubicacion
      /\ ultimo'.estado = ultimo.estado /\ ultimo.estado \in Firmados
      /\ planAcordado' = planAcordado
  BY CambiadoUnico DEF ContratoFirmado
<1>2. acuerdo' = acuerdo
  BY <1>1 DEF acuerdo
<1>3. enVigor = ultimo.plan /\ enVigor' = p
  BY <1>1 DEF enVigor
<1>4. fase = "firmada" /\ fase' = "firmada"
  BY <1>1 DEF fase
<1>5. QED BY <1>2, <1>3, <1>4 DEF Acuerdo!ANext, Acuerdo!ACambiar

LEMMA AcuerdoContinuar ==
    ASSUME IInv, NEW u \in Usuarios, Continuar(u)
    PROVE  Acuerdo!ANext \/ UNCHANGED <<fase, acuerdo, enVigor>>
<1>1. CASE CambiarEtapa(u)
  <2>1. UNCHANGED <<contratos, original>> /\ (Intacto(u) => ~ContratoVivo)
        /\ (~Intacto(u) => pipeline' = pipeline)
    BY <1>1 DEF CambiarEtapa, Intacto, cambios
  <2>2. QED BY <2>1, AcuerdoSinContrato, AcuerdoIntacto
<1>2. CASE GuardarFactibilidad(u)
  <2>1. UNCHANGED <<contratos, original>>
    BY <1>2 DEF GuardarFactibilidad, cambios
  <2>2. QED BY <2>1, <1>2, AcuerdoSinContrato, AcuerdoIntacto
<1>3. CASE AvanzarCotizada(u)
  <2>1. UNCHANGED <<contratos, original>>
    BY <1>3 DEF AvanzarCotizada, cambios
  <2>2. QED BY <2>1, AcuerdoSinContrato, AcuerdoIntacto
<1>4. CASE ConfirmarContrato(u)
  BY <1>4, AcuerdoConfirmar
<1>5. CASE Firmar(u)
  <2>1. ContratoVivo
    BY <1>5 DEF IInv, LecturasFundadas, Firmar
  <2>2. "Firmado" \in Firmados
    BY DEF Firmados
  <2>3. contratos' = [contratos EXCEPT ![Len(contratos)] = [ultimo EXCEPT !.estado = "Firmado"]]
        /\ original' = original
    BY <1>5 DEF Firmar, cambios
  <2>4. QED BY <2>1, <2>2, <2>3, AcuerdoFirmado
<1>6. CASE MoverTomodat(u) \/ RevisarEtapa(u) \/ CrearCotizacion(u) \/ BloquearProspecto(u)
           \/ BloquearContrato(u)
  <2>1. UNCHANGED <<pipeline, contratos, original>>
    BY <1>6 DEF cambios, MoverTomodat, RevisarEtapa, CrearCotizacion, BloquearProspecto,
       BloquearContrato, prospecto
  <2>2. QED BY <2>1, AcuerdoIntacto
<1>7. CASE CambiarPlan(u)
  <2>1. leido[u].nuevo \in Planes /\ leido[u].nuevo # leido[u].plan
    BY <1>7 DEF IInv, LecturasFundadas, CambiarPlan
  <2>2. CASE Cambiable(u) /\ AplicarCambio(leido[u].plan, leido[u].nuevo)
    BY <2>1, <2>2, AcuerdoCambiado DEF Cambiable
  <2>3. CASE UNCHANGED <<pipeline, contratos, original>>
    BY <2>3, AcuerdoIntacto
  <2> QED BY <1>7, <2>2, <2>3 DEF CambiarPlan, cambios
<1>8. QED BY <1>1, <1>2, <1>3, <1>4, <1>5, <1>6, <1>7 DEF Continuar

LEMMA AcuerdoStep == IInv /\ [Next]_vars => [Acuerdo!ANext]_(Acuerdo!abstractVars)
<1> SUFFICES ASSUME IInv, [Next]_vars
             PROVE  Acuerdo!ANext \/ UNCHANGED <<fase, acuerdo, enVigor>>
  BY DEF Acuerdo!abstractVars
<1>1. CASE SolicitarInstalacion
  BY <1>1, AcuerdoIntacto DEF SolicitarInstalacion, SolicitudAdmitida, ContratoFirmado, cambios
<1>2. CASE ActivarInstalacion
  <2>1. "Activo" \in Firmados
    BY DEF Firmados
  <2>2. ContratoVivo
        /\ contratos' = [contratos EXCEPT ![Len(contratos)] = [ultimo EXCEPT !.estado = "Activo"]]
        /\ original' = original
    BY <1>2 DEF ActivarInstalacion, ContratoFirmado, cambios
  <2>3. QED BY <2>1, <2>2, AcuerdoFirmado
<1>3. CASE UNCHANGED vars
  BY <1>3, AcuerdoIntacto DEF vars, prospecto, cambios
<1>4. CASE AplicarProgramado
  <2>1. programado.nuevo \in Planes /\ programado.nuevo # ultimo.plan
    BY <1>4 DEF AplicarProgramado, IInv, TypeOK, Cambio
  <2>2. ContratoFirmado /\ AplicarCambio(ultimo.plan, programado.nuevo)
    BY <1>4 DEF AplicarProgramado
  <2> QED BY <2>1, <2>2, AcuerdoCambiado
<1>5. CASE CancelarProgramado
  BY <1>5, AcuerdoIntacto DEF CancelarProgramado
<1>6. QED
  BY <1>1, <1>2, <1>3, <1>4, <1>5, AcuerdoPedir, AcuerdoContinuar DEF Next

\* The sale implements the agreement: one plan, offered at its place, agreed anew only
\* until it is signed and never given up; what changes afterwards is the plan in force.
THEOREM SaleImplementsAgreement == Spec => ImplementsAgreement
<1>1. Init => Acuerdo!AInit
  BY DEF Init, Acuerdo!AInit, fase, acuerdo, enVigor, SinAcuerdo, ContratoVivo
<1>2. QED BY <1>1, AcuerdoStep, SaleCorrect, PTL DEF Spec, ImplementsAgreement, Acuerdo!ASpec
================================================================================
