---------------------------- MODULE PlanChange_proofs ----------------------------
(***************************************************************************)
(* Proofs about the changes of plan, for every set of requests, contracts  *)
(* and plans, every size of the timer's batch and every number of days.    *)
(***************************************************************************)
EXTENDS PlanChange, SequenceTheorems, TLAPS

--------------------------------------------------------------------------------
(* The history grows at its end, or one of its changes that waits is decided. *)

\* A change is added at the end.
Registrado(r) == r \in Cambio /\ historial' = Append(historial, r)

\* The change i, which waited, is decided.
DecididoEn(i, e, d) ==
    /\ i \in Cambios /\ Pendiente(i)
    /\ e \in {"Aplicado", "Cancelado"} /\ d \in 0 .. MaxDia
    /\ Decidir(i, e, d)

LEMMA RegistradoSeq ==
    ASSUME historial \in Seq(Cambio), NEW r, Registrado(r)
    PROVE  /\ historial' \in Seq(Cambio)
           /\ Len(historial) \in Nat
           /\ Len(historial') = Len(historial) + 1
           /\ Cambios' = Cambios \cup {Len(historial) + 1}
           /\ \A k \in Cambios : historial'[k] = historial[k]
           /\ historial'[Len(historial) + 1] = r
<1>1. r \in Cambio /\ historial' = Append(historial, r)
  BY DEF Registrado
<1>2. Len(historial) \in Nat
  BY LenProperties
<1>3. historial' \in Seq(Cambio) /\ Len(historial') = Len(historial) + 1
  BY <1>1, AppendProperties
<1>4. \A k \in 1 .. Len(historial) : historial'[k] = historial[k]
  BY <1>1, AppendProperties
<1>5. historial'[Len(historial) + 1] = r
  BY <1>1, AppendProperties
<1>6. Cambios' = Cambios \cup {Len(historial) + 1}
  BY <1>2, <1>3 DEF Cambios
<1>7. QED BY <1>2, <1>3, <1>4, <1>5, <1>6 DEF Cambios

LEMMA DecididoSeq ==
    ASSUME historial \in Seq(Cambio), NEW i, NEW e, NEW d, DecididoEn(i, e, d)
    PROVE  /\ historial' \in Seq(Cambio)
           /\ Len(historial) \in Nat
           /\ Len(historial') = Len(historial)
           /\ Cambios' = Cambios
           /\ \A k \in Cambios \ {i} : historial'[k] = historial[k]
           /\ historial'[i].contrato = historial[i].contrato
           /\ historial'[i].anterior = historial[i].anterior
           /\ historial'[i].nuevo = historial[i].nuevo
           /\ historial'[i].efectiva = historial[i].efectiva
           /\ historial'[i].estado = e
           /\ historial'[i].dia = d
<1>1. i \in 1 .. Len(historial) /\ historial' = [historial EXCEPT ![i] = Decidido(i, e, d)]
  BY DEF DecididoEn, Decidir, Cambios
<1>2. historial[i] \in Cambio
  BY <1>1, ElementOfSeq
<1>3. Decidido(i, e, d) \in Cambio
  BY <1>2 DEF Decidido, DecididoEn, Cambio, EstadosCambio
<1>4. historial' \in Seq(Cambio) /\ Len(historial') = Len(historial)
      /\ historial'[i] = Decidido(i, e, d)
      /\ \A k \in 1 .. Len(historial) \ {i} : historial'[k] = historial[k]
  BY <1>1, <1>3, ExceptSeq
<1>5. Len(historial) \in Nat
  BY LenProperties
<1>6. QED BY <1>4, <1>5 DEF Cambios, Decidido

--------------------------------------------------------------------------------
(* What the invariant becomes when the history grows. *)

LEMMA RegistradoPendiente ==
    ASSUME IInv, NEW r, Registrado(r), ~PendienteDe(r.contrato)
    PROVE  PendienteEsUltimo'
<1>1. historial \in Seq(Cambio)
  BY DEF IInv, TypeOK
<1>2. SUFFICES ASSUME NEW i \in Cambios', NEW j \in Cambios', i < j,
                      historial'[i].contrato = historial'[j].contrato
               PROVE  historial'[i].estado # "Pendiente"
  BY DEF PendienteEsUltimo, Pendiente
<1>3. i \in Cambios /\ historial'[i] = historial[i]
  BY <1>1, <1>2, RegistradoSeq DEF Cambios
<1>4. CASE j \in Cambios
  BY <1>1, <1>2, <1>3, <1>4, RegistradoSeq DEF IInv, PendienteEsUltimo, Pendiente
<1>5. CASE j = Len(historial) + 1
  BY <1>1, <1>2, <1>3, <1>5, RegistradoSeq DEF PendienteDe, Pendiente
<1>6. QED BY <1>1, <1>4, <1>5, RegistradoSeq

--------------------------------------------------------------------------------
(* What the contract's plan is after its changes, for any two histories. *)

LEMMA TrasIgual ==
    ASSUME NEW h, NEW g, NEW c, NEW n \in Nat, NEW p, PlanTras(h, c, n, p),
           \A k \in 1 .. n : /\ Aplicado(g, c, k) <=> Aplicado(h, c, k)
                             /\ Aplicado(h, c, k) => g[k].nuevo = h[k].nuevo
    PROVE  PlanTras(g, c, n, p)
<1>1. CASE p = PlanInicial[c] /\ \A i \in 1 .. n : ~Aplicado(h, c, i)
  BY <1>1 DEF PlanTras
<1>2. CASE \E i \in 1 .. n : /\ Aplicado(h, c, i) /\ h[i].nuevo = p
                             /\ \A j \in i + 1 .. n : ~Aplicado(h, c, j)
  <2>1. PICK i \in 1 .. n : /\ Aplicado(h, c, i) /\ h[i].nuevo = p
                            /\ \A j \in i + 1 .. n : ~Aplicado(h, c, j)
    BY <1>2
  <2>2. \A j \in i + 1 .. n : j \in 1 .. n
    BY <2>1
  <2>3. \A j \in i + 1 .. n : ~Aplicado(g, c, j)
    BY <2>1, <2>2
  <2>4. Aplicado(g, c, i) /\ g[i].nuevo = p
    BY <2>1
  <2>5. QED BY <2>3, <2>4 DEF PlanTras
<1>3. QED BY <1>1, <1>2 DEF PlanTras

LEMMA TrasSigue ==
    ASSUME NEW h, NEW c, NEW n \in Nat, NEW p, PlanTras(h, c, n, p), ~Aplicado(h, c, n + 1)
    PROVE  PlanTras(h, c, n + 1, p)
<1>0. \A k \in 1 .. n + 1 : k \in 1 .. n \/ k = n + 1
  OBVIOUS
<1>1. CASE p = PlanInicial[c] /\ \A i \in 1 .. n : ~Aplicado(h, c, i)
  BY <1>0, <1>1 DEF PlanTras
<1>2. CASE \E i \in 1 .. n : /\ Aplicado(h, c, i) /\ h[i].nuevo = p
                             /\ \A j \in i + 1 .. n : ~Aplicado(h, c, j)
  <2>1. PICK i \in 1 .. n : /\ Aplicado(h, c, i) /\ h[i].nuevo = p
                            /\ \A j \in i + 1 .. n : ~Aplicado(h, c, j)
    BY <1>2
  <2>2. \A j \in i + 1 .. n + 1 : j \in i + 1 .. n \/ j = n + 1
    BY <2>1
  <2>3. \A j \in i + 1 .. n + 1 : ~Aplicado(h, c, j)
    BY <2>1, <2>2
  <2>4. i \in 1 .. n + 1
    BY <2>1
  <2>5. QED BY <2>1, <2>3, <2>4 DEF PlanTras
<1>3. QED BY <1>1, <1>2 DEF PlanTras

LEMMA TrasAntes ==
    ASSUME NEW h, NEW c, NEW n \in Nat, NEW m \in 0 .. n, NEW p, PlanTras(h, c, n, p),
           \A k \in m + 1 .. n : ~Aplicado(h, c, k)
    PROVE  PlanTras(h, c, m, p)
<1>0. \A k \in 1 .. m : k \in 1 .. n
  OBVIOUS
<1>1. CASE p = PlanInicial[c] /\ \A i \in 1 .. n : ~Aplicado(h, c, i)
  BY <1>0, <1>1 DEF PlanTras
<1>2. CASE \E i \in 1 .. n : /\ Aplicado(h, c, i) /\ h[i].nuevo = p
                             /\ \A j \in i + 1 .. n : ~Aplicado(h, c, j)
  <2>1. PICK i \in 1 .. n : /\ Aplicado(h, c, i) /\ h[i].nuevo = p
                            /\ \A j \in i + 1 .. n : ~Aplicado(h, c, j)
    BY <1>2
  <2>2. i \in 1 .. m
    <3>1. i \in 1 .. m \/ i \in m + 1 .. n
      BY <2>1
    <3>2. QED BY <2>1, <3>1
  <2>3. \A j \in i + 1 .. m : j \in i + 1 .. n
    BY <2>1
  <2>4. QED BY <2>1, <2>2, <2>3 DEF PlanTras
<1>3. QED BY <1>1, <1>2 DEF PlanTras

LEMMA TrasAplicado ==
    ASSUME NEW h, NEW c, NEW n \in Nat, NEW i \in 1 .. n, Aplicado(h, c, i),
           \A j \in i + 1 .. n : ~Aplicado(h, c, j)
    PROVE  PlanTras(h, c, n, h[i].nuevo)
  BY DEF PlanTras

--------------------------------------------------------------------------------
(* The history stays a chain. *)

LEMMA RegistradoEncadenado ==
    ASSUME IInv, NEW r, Registrado(r),
           plan[r.contrato] = r.anterior,
           plan' = IF r.estado = "Aplicado" THEN [plan EXCEPT ![r.contrato] = r.nuevo] ELSE plan
    PROVE  HistorialEncadenado'
<1> DEFINE n == Len(historial)
<1>1. historial \in Seq(Cambio) /\ plan \in [Contratos -> Planes] /\ r \in Cambio
  BY DEF IInv, TypeOK, Registrado
<1>2. n \in Nat /\ Len(historial') = n + 1 /\ historial'[n + 1] = r
      /\ Cambios' = Cambios \cup {n + 1} /\ \A k \in Cambios : historial'[k] = historial[k]
  BY <1>1, RegistradoSeq
<1>3. r.contrato \in Contratos
  BY <1>1 DEF Cambio
<1>4. ASSUME NEW c \in Contratos, NEW m \in 0 .. n, NEW p, PlanTras(historial, c, m, p)
      PROVE  PlanTras(historial', c, m, p)
  <2>1. \A k \in 1 .. m : historial'[k] = historial[k]
    BY <1>2 DEF Cambios
  <2>2. \A k \in 1 .. m : /\ Aplicado(historial', c, k) <=> Aplicado(historial, c, k)
                          /\ Aplicado(historial, c, k) => historial'[k].nuevo = historial[k].nuevo
    BY <2>1 DEF Aplicado
  <2>3. QED BY <1>4, <2>2, TrasIgual
<1>5. ASSUME NEW c \in Contratos PROVE PlanTras(historial', c, n + 1, plan'[c])
  <2>1. CASE c = r.contrato /\ r.estado = "Aplicado"
    <3>1. Aplicado(historial', c, n + 1) /\ historial'[n + 1].nuevo = plan'[c]
      BY <1>1, <1>2, <2>1 DEF Aplicado
    <3>2. n + 1 \in 1 .. n + 1 /\ \A j \in (n + 1) + 1 .. n + 1 : FALSE
      BY <1>2
    <3>3. n + 1 \in Nat
      BY <1>2
    <3>4. PlanTras(historial', c, n + 1, historial'[n + 1].nuevo)
      <4> HIDE DEF n
      <4>1. \A j \in (n + 1) + 1 .. n + 1 : ~Aplicado(historial', c, j)
        BY <3>2
      <4>2. QED BY <3>1, <3>2, <3>3, <4>1, TrasAplicado
    <3>5. QED BY <3>1, <3>4
  <2>2. CASE ~(c = r.contrato /\ r.estado = "Aplicado")
    <3>1. PlanTras(historial, c, n, plan[c]) /\ n \in 0 .. n
      BY <1>2 DEF IInv, HistorialEncadenado
    <3>2. plan'[c] = plan[c]
      BY <1>1, <2>2
    <3>3. PlanTras(historial', c, n, plan[c])
      BY <1>4, <3>1
    <3>4. ~Aplicado(historial', c, n + 1)
      BY <1>2, <2>2 DEF Aplicado
    <3>5. QED BY <1>2, <3>2, <3>3, <3>4, TrasSigue
  <2>3. QED BY <2>1, <2>2
<1>6. ASSUME NEW i \in Cambios', historial'[i].estado = "Aplicado"
      PROVE  PlanTras(historial', historial'[i].contrato, i - 1, historial'[i].anterior)
  <2>1. CASE i \in Cambios
    <3>1. historial'[i] = historial[i]
      BY <1>2, <2>1
    <3>2. PlanTras(historial, historial[i].contrato, i - 1, historial[i].anterior)
      BY <1>6, <2>1, <3>1 DEF IInv, HistorialEncadenado
    <3>3. i - 1 \in 0 .. n /\ historial[i] \in Cambio
      BY <1>1, <1>2, <2>1, ElementOfSeq DEF Cambios
    <3>4. historial[i].contrato \in Contratos
      BY <3>3 DEF Cambio
    <3>5. QED BY <1>4, <3>1, <3>2, <3>3, <3>4
  <2>2. CASE i = n + 1
    <3>1. PlanTras(historial, r.contrato, n, r.anterior) /\ n \in 0 .. n
      BY <1>2, <1>3 DEF IInv, HistorialEncadenado
    <3>2. PlanTras(historial', r.contrato, n, r.anterior)
      BY <1>3, <1>4, <3>1
    <3>3. i - 1 = n
      BY <1>2, <2>2
    <3>4. QED BY <1>2, <2>2, <3>2, <3>3
  <2>3. QED BY <1>2, <2>1, <2>2
<1>7. QED BY <1>2, <1>5, <1>6 DEF HistorialEncadenado

LEMMA DecididoEncadenado ==
    ASSUME IInv, NEW i, NEW e, NEW d, DecididoEn(i, e, d),
           e = "Aplicado" => plan[historial[i].contrato] = historial[i].anterior,
           plan' = IF e = "Aplicado" THEN [plan EXCEPT ![historial[i].contrato] = historial[i].nuevo]
                   ELSE plan
    PROVE  HistorialEncadenado'
<1> DEFINE n == Len(historial)
           q == historial[i].contrato
<1>1. historial \in Seq(Cambio) /\ plan \in [Contratos -> Planes]
  BY DEF IInv, TypeOK
<1>2. i \in 1 .. n /\ historial[i].estado = "Pendiente"
  BY DEF DecididoEn, Pendiente, Cambios
<1>3. /\ n \in Nat /\ Len(historial') = n /\ Cambios' = 1 .. n
      /\ \A k \in 1 .. n : k # i => historial'[k] = historial[k]
      /\ historial'[i].contrato = q /\ historial'[i].anterior = historial[i].anterior
      /\ historial'[i].nuevo = historial[i].nuevo /\ historial'[i].estado = e
  BY <1>1, DecididoSeq DEF Cambios
<1>4. \A k \in 1 .. n : historial[k] \in Cambio /\ historial[k].contrato \in Contratos
  <2>1. \A k \in 1 .. n : historial[k] \in Cambio
    BY <1>1, ElementOfSeq
  <2>2. QED BY <2>1 DEF Cambio
<1>5. \A k \in i + 1 .. n : historial[k].contrato # q
  <2>1. PendienteEsUltimo
    BY DEF IInv
  <2>2. \A k \in i + 1 .. n : k \in Cambios /\ i \in Cambios /\ i < k
    BY <1>2, <1>3 DEF Cambios
  <2>3. Pendiente(i)
    BY <1>2 DEF Pendiente
  <2>4. QED BY <2>1, <2>2, <2>3 DEF PendienteEsUltimo
<1>6. \A c, k : k \in 1 .. n /\ k # i =>
          /\ Aplicado(historial', c, k) <=> Aplicado(historial, c, k)
          /\ historial'[k].nuevo = historial[k].nuevo
  BY <1>3 DEF Aplicado
<1>7. ASSUME NEW c \in Contratos, NEW m \in 0 .. n, NEW p, PlanTras(historial, c, m, p),
             e # "Aplicado" \/ c # q \/ m < i
      PROVE  PlanTras(historial', c, m, p)
  <2>1. ~Aplicado(historial, c, i)
    BY <1>2 DEF Aplicado
  <2>2. i \in 1 .. m => ~Aplicado(historial', c, i)
    BY <1>3, <1>7 DEF Aplicado
  <2>3. \A k \in 1 .. m : k \in 1 .. n
    BY <1>3
  <2>4. \A k \in 1 .. m : /\ Aplicado(historial', c, k) <=> Aplicado(historial, c, k)
                          /\ Aplicado(historial, c, k) => historial'[k].nuevo = historial[k].nuevo
    BY <1>6, <2>1, <2>2, <2>3
  <2>5. m \in Nat
    BY <1>3
  <2>6. QED BY <1>7, <2>4, <2>5, TrasIgual
<1>8. ASSUME NEW c \in Contratos PROVE PlanTras(historial', c, n, plan'[c])
  <2>1. PlanTras(historial, c, n, plan[c]) /\ n \in 0 .. n
    BY <1>3 DEF IInv, HistorialEncadenado
  <2>2. CASE e = "Aplicado" /\ c = q
    <3>1. Aplicado(historial', c, i) /\ historial'[i].nuevo = plan'[c]
      BY <1>1, <1>3, <2>2 DEF Aplicado
    <3>2. \A j \in i + 1 .. n : ~Aplicado(historial', c, j)
      <4>1. \A j \in i + 1 .. n : j \in 1 .. n /\ j # i
        BY <1>2, <1>3
      <4>2. \A j \in i + 1 .. n : ~Aplicado(historial, c, j)
        BY <1>5, <2>2 DEF Aplicado
      <4>3. QED BY <1>6, <4>1, <4>2
    <3>3. QED BY <1>2, <1>3, <3>1, <3>2, TrasAplicado
  <2>3. CASE ~(e = "Aplicado" /\ c = q)
    <3>1. plan'[c] = plan[c]
      BY <1>1, <2>3
    <3>2. QED BY <1>7, <2>1, <2>3, <3>1
  <2>4. QED BY <2>2, <2>3
<1>9. ASSUME NEW k \in 1 .. n, historial'[k].estado = "Aplicado"
      PROVE  PlanTras(historial', historial'[k].contrato, k - 1, historial'[k].anterior)
  <2>0. k - 1 \in 0 .. n
    BY <1>3
  <2>1. CASE k = i
    <3>1. PlanTras(historial, q, n, historial[i].anterior) /\ q \in Contratos
      BY <1>2, <1>3, <1>4, <1>9, <2>1 DEF IInv, HistorialEncadenado
    <3>2. \A j \in (i - 1) + 1 .. n : ~Aplicado(historial, q, j)
      <4>1. \A j \in (i - 1) + 1 .. n : j = i \/ j \in i + 1 .. n
        BY <1>2, <1>3
      <4>2. QED BY <1>2, <1>5, <4>1 DEF Aplicado
    <3>3. PlanTras(historial, q, i - 1, historial[i].anterior)
      BY <1>3, <2>0, <2>1, <3>1, <3>2, TrasAntes
    <3>4. i - 1 < i
      BY <1>2
    <3>5. PlanTras(historial', q, i - 1, historial[i].anterior)
      BY <1>7, <2>0, <2>1, <3>1, <3>3, <3>4
    <3>6. QED BY <1>3, <2>1, <3>5
  <2>2. CASE k # i
    <3>1. historial'[k] = historial[k]
      BY <1>3, <2>2
    <3>2. PlanTras(historial, historial[k].contrato, k - 1, historial[k].anterior)
      BY <1>9, <3>1 DEF IInv, HistorialEncadenado, Cambios
    <3>3. historial[k].contrato # q \/ k - 1 < i
      <4>1. k \in i + 1 .. n \/ k - 1 < i
        BY <1>2, <1>3
      <4>2. QED BY <1>5, <4>1
    <3>4. PlanTras(historial', historial[k].contrato, k - 1, historial[k].anterior)
      BY <1>4, <1>7, <2>0, <3>2, <3>3
    <3>5. QED BY <3>1, <3>4
  <2>3. QED BY <2>1, <2>2
<1>10. QED BY <1>3, <1>8, <1>9 DEF HistorialEncadenado

LEMMA DecididoPendiente ==
    ASSUME IInv, NEW i, NEW e, NEW d, DecididoEn(i, e, d)
    PROVE  PendienteEsUltimo'
<1>1. historial \in Seq(Cambio)
  BY DEF IInv, TypeOK
<1>2. SUFFICES ASSUME NEW j \in Cambios', NEW k \in Cambios', j < k,
                      historial'[j].contrato = historial'[k].contrato
               PROVE  historial'[j].estado # "Pendiente"
  BY DEF PendienteEsUltimo, Pendiente
<1>3. j \in Cambios /\ k \in Cambios
      /\ historial'[j].contrato = historial[j].contrato
      /\ historial'[k].contrato = historial[k].contrato
  BY <1>1, DecididoSeq
<1>4. historial[j].estado # "Pendiente"
  BY <1>2, <1>3 DEF IInv, PendienteEsUltimo, Pendiente
<1>5. historial'[j].estado \in {historial[j].estado, e}
  BY <1>1, <1>3, DecididoSeq
<1>6. QED BY <1>4, <1>5 DEF DecididoEn

\* Dates and reads are kept when the history changes and the day does not.
LEMMA DecididoFechas ==
    ASSUME IInv, NEW i, NEW e, NEW d, DecididoEn(i, e, d), hoy' = hoy,
           e = "Aplicado" => historial[i].efectiva <= hoy /\ d = hoy
    PROVE  NuncaAntes'
<1>1. historial \in Seq(Cambio) /\ hoy \in Nat
  BY DEF IInv, TypeOK, Dias
<1>2. SUFFICES ASSUME NEW k \in Cambios', historial'[k].estado = "Aplicado"
               PROVE  historial'[k].efectiva <= historial'[k].dia /\ historial'[k].dia <= hoy
  BY DEF NuncaAntes
<1>3. CASE k = i
  BY <1>1, <1>2, <1>3, DecididoSeq
<1>4. CASE k # i
  BY <1>1, <1>2, <1>4, DecididoSeq DEF IInv, NuncaAntes
<1>5. QED BY <1>3, <1>4

LEMMA RegistradoFechas ==
    ASSUME IInv, NEW r, Registrado(r), hoy' = hoy,
           r.estado = "Aplicado" => r.efectiva <= hoy /\ r.dia = hoy
    PROVE  NuncaAntes'
<1>1. historial \in Seq(Cambio) /\ hoy \in Nat
  BY DEF IInv, TypeOK, Dias
<1>2. SUFFICES ASSUME NEW k \in Cambios', historial'[k].estado = "Aplicado"
               PROVE  historial'[k].efectiva <= historial'[k].dia /\ historial'[k].dia <= hoy
  BY DEF NuncaAntes
<1>3. CASE k = Len(historial) + 1
  BY <1>1, <1>2, <1>3, RegistradoSeq
<1>4. CASE k \in Cambios
  BY <1>1, <1>2, <1>4, RegistradoSeq DEF IInv, NuncaAntes
<1>5. QED BY <1>1, <1>3, <1>4, RegistradoSeq

\* Steps that leave the history and the plans alone.
LEMMA HistorialIntacto ==
    ASSUME IInv, UNCHANGED <<plan, historial>>, hoy' \in Nat, hoy <= hoy'
    PROVE  PendienteEsUltimo' /\ HistorialEncadenado' /\ NuncaAntes'
<1>1. PendienteEsUltimo' /\ HistorialEncadenado'
  BY DEF IInv, PendienteEsUltimo, Pendiente, Cambios, HistorialEncadenado, PlanTras, Aplicado
<1>2. SUFFICES ASSUME NEW k \in Cambios', historial'[k].estado = "Aplicado"
               PROVE  historial'[k].efectiva <= historial'[k].dia /\ historial'[k].dia <= hoy'
  BY <1>1 DEF NuncaAntes
<1>3. k \in Cambios /\ historial[k].estado = "Aplicado" /\ historial'[k] = historial[k]
  BY <1>2 DEF Cambios
<1>4. historial[k] \in Cambio
  BY <1>3, ElementOfSeq DEF IInv, TypeOK, Cambios
<1>5. historial[k].dia \in Nat /\ hoy \in Nat
  BY <1>4 DEF Cambio, IInv, TypeOK, Dias
<1>6. historial[k].efectiva <= historial[k].dia /\ historial[k].dia <= hoy
  BY <1>3 DEF IInv, NuncaAntes
<1>7. QED BY <1>3, <1>5, <1>6

LEMMA SinLecturaType == SinLectura \in Lectura
<1>1. (CHOOSE c \in Contratos : TRUE) \in Contratos
  BY PlanConstants
<1>2. (CHOOSE p \in Planes : TRUE) \in Planes
  <2>1. \E p : p \in Planes
    BY <1>1, PlanConstants
  <2>2. QED BY <2>1
<1>3. 1 \in Dias
  BY PlanConstants DEF Dias
<1>4. QED BY <1>1, <1>2, <1>3 DEF SinLectura, Lectura

--------------------------------------------------------------------------------
LEMMA IInvInit == Init => IInv
<1> SUFFICES ASSUME Init PROVE IInv
  OBVIOUS
<1>1. historial = <<>> /\ Len(historial) = 0 /\ Cambios = {}
  BY EmptySeq DEF Init, Cambios
<1>2. TypeOK
  <2>1. 1 \in Dias
    BY PlanConstants DEF Dias
  <2>2. historial \in Seq(Cambio)
    BY <1>1, EmptySeq
  <2>3. QED BY <1>1, <2>1, <2>2, PlanConstants, SinLecturaType DEF Init, TypeOK
<1>3. PendienteEsUltimo /\ NuncaAntes
  BY <1>1 DEF PendienteEsUltimo, NuncaAntes
<1>4. HistorialEncadenado
  BY <1>1 DEF Init, HistorialEncadenado, PlanTras
<1>5. LecturasFundadas
  BY DEF Init, LecturasFundadas
<1>6. QED BY <1>2, <1>3, <1>4, <1>5 DEF IInv

LEMMA LeerCambioStep ==
    ASSUME IInv, NEW u \in Usuarios, NEW c \in Contratos, NEW p \in Planes, NEW d \in Dias,
           LeerCambio(u, c, p, d)
    PROVE  IInv'
<1> DEFINE l == [contrato |-> c, plan |-> plan[c], nuevo |-> p, efectiva |-> d,
                 programado |-> d > hoy, conServicio |-> servicio[c] # SinServicio]
<1>1. l \in Lectura /\ (l.programado \/ l.efectiva <= hoy)
  <2> DEFINE b == d > hoy
             e == servicio[c] # SinServicio
  <2>1. b \in BOOLEAN /\ e \in BOOLEAN
    <3>1. b \in BOOLEAN
      BY SMT
    <3>2. e \in BOOLEAN
      BY SMT
    <3>3. QED BY <3>1, <3>2
  <2>2. plan[c] \in Planes
    BY DEF IInv, TypeOK
  <2>3. b \/ d <= hoy
    BY DEF IInv, TypeOK, Dias
  <2>4. l = [contrato |-> c, plan |-> plan[c], nuevo |-> p, efectiva |-> d,
             programado |-> b, conServicio |-> e]
    OBVIOUS
  <2> HIDE DEF b, e, l
  <2>5. l \in Lectura
    BY <2>1, <2>2, <2>4 DEF Lectura
  <2>6. l.programado = b /\ l.efectiva = d
    BY <2>4, Zenon
  <2>7. QED BY <2>3, <2>5, <2>6
<1>2. leido' = [leido EXCEPT ![u] = l] /\ pc' = [pc EXCEPT ![u] = "cambiar"]
      /\ UNCHANGED <<filas, hoy, timer>>
  BY DEF LeerCambio
<1> HIDE DEF l
<1>3. TypeOK'
  BY <1>1, <1>2 DEF IInv, TypeOK, filas, timer, Cambios
<1>4. PendienteEsUltimo' /\ HistorialEncadenado' /\ NuncaAntes'
  BY <1>2, HistorialIntacto DEF IInv, TypeOK, Dias, filas
<1>5. LecturasFundadas'
  BY <1>1, <1>2 DEF IInv, TypeOK, LecturasFundadas, filas, timer
<1>6. QED BY <1>3, <1>4, <1>5 DEF IInv

LEMMA ConfirmarCambioStep ==
    ASSUME IInv, NEW u \in Usuarios, ConfirmarCambio(u)
    PROVE  IInv'
<1> DEFINE l == leido[u]
           r == Registro(u)
<1>1. l \in Lectura /\ pc[u] = "cambiar" /\ (l.programado \/ l.efectiva <= hoy)
  BY DEF IInv, TypeOK, ConfirmarCambio, LecturasFundadas
<1>2. /\ pc' = [pc EXCEPT ![u] = "libre"] /\ leido' = [leido EXCEPT ![u] = SinLectura]
      /\ UNCHANGED <<firmado, activos, hoy, corriendo, lote>>
  BY DEF ConfirmarCambio, Terminar, timer
<1>3. pc' \in [Usuarios -> {"libre", "cambiar"}] /\ leido' \in [Usuarios -> Lectura]
  BY <1>2, SinLecturaType DEF IInv, TypeOK
<1>4. hoy \in Nat /\ hoy \in 0 .. MaxDia
  BY PlanConstants DEF IInv, TypeOK, Dias
<1>5. CASE /\ Admitido(u)
           /\ historial' = Append(historial, Registro(u))
           /\ plan' = IF l.programado THEN plan ELSE [plan EXCEPT ![l.contrato] = l.nuevo]
           /\ servicio' = IF l.programado \/ ~l.conServicio THEN servicio
                          ELSE [servicio EXCEPT ![l.contrato] = l.nuevo]
  <2>1. /\ r.contrato = l.contrato /\ r.anterior = l.plan /\ r.nuevo = l.nuevo
        /\ r.efectiva = l.efectiva
        /\ r.estado = (IF l.programado THEN "Pendiente" ELSE "Aplicado")
        /\ r.dia = (IF l.programado THEN 0 ELSE hoy)
    BY DEF Registro
  <2>2. r \in Cambio
    BY <1>1, <1>4, PlanConstants DEF Registro, Cambio, Lectura, EstadosCambio
  <2>3. Registrado(r) /\ ~PendienteDe(r.contrato) /\ plan[r.contrato] = r.anterior
    BY <1>5, <2>1, <2>2 DEF Registrado, Admitido, Vigente
  <2>4. l.programado \in BOOLEAN
    BY <1>1 DEF Lectura
  <2>5. plan' = IF r.estado = "Aplicado" THEN [plan EXCEPT ![r.contrato] = r.nuevo] ELSE plan
    BY <1>5, <2>1, <2>4
  <2>6. r.estado = "Aplicado" => r.efectiva <= hoy /\ r.dia = hoy
    BY <1>1, <2>1, <2>4
  <2> HIDE DEF r
  <2>7. HistorialEncadenado'
    BY <2>3, <2>5, RegistradoEncadenado
  <2>8. PendienteEsUltimo'
    BY <2>3, RegistradoPendiente
  <2>9. NuncaAntes'
    BY <1>2, <2>3, <2>6, RegistradoFechas
  <2>10. historial \in Seq(Cambio)
    BY DEF IInv, TypeOK
  <2>11. historial' \in Seq(Cambio) /\ Cambios \subseteq Cambios'
         /\ \A k \in Cambios : historial'[k] = historial[k]
    BY <2>3, <2>10, RegistradoSeq
  <2>12. plan' \in [Contratos -> Planes]
         /\ servicio' \in [Contratos -> Planes \cup {SinServicio}]
    BY <1>1, <1>5 DEF IInv, TypeOK, Lectura
  <2>13. TypeOK'
    BY <1>2, <1>3, <2>11, <2>12 DEF IInv, TypeOK
  <2>14. LecturasFundadas'
    BY <1>2, <2>11 DEF IInv, TypeOK, LecturasFundadas
  <2>15. QED BY <2>7, <2>8, <2>9, <2>13, <2>14 DEF IInv
<1>6. CASE UNCHANGED <<historial, plan, servicio>>
  <2>1. PendienteEsUltimo' /\ HistorialEncadenado' /\ NuncaAntes'
    BY <1>2, <1>4, <1>6, HistorialIntacto
  <2>2. TypeOK'
    BY <1>2, <1>3, <1>6 DEF IInv, TypeOK, Cambios
  <2>3. LecturasFundadas'
    BY <1>2, <1>6 DEF IInv, TypeOK, LecturasFundadas
  <2>4. QED BY <2>1, <2>2, <2>3 DEF IInv
<1>7. QED BY <1>5, <1>6 DEF ConfirmarCambio

\* A change that waits is cancelled, by hand or because it no longer applies.
LEMMA CanceladoStep ==
    ASSUME IInv, NEW i \in Cambios, Pendiente(i), Decidir(i, "Cancelado", 0),
           UNCHANGED <<firmado, plan, servicio, activos, hoy, pc, leido>>,
           corriendo' \in BOOLEAN, lote' \subseteq lote
    PROVE  IInv'
<1>1. DecididoEn(i, "Cancelado", 0)
  BY PlanConstants DEF DecididoEn
<1>2. PendienteEsUltimo' /\ HistorialEncadenado' /\ NuncaAntes'
  BY <1>1, DecididoPendiente, DecididoEncadenado, DecididoFechas
<1>3. historial' \in Seq(Cambio) /\ Cambios' = Cambios
      /\ \A k \in Cambios : historial'[k].efectiva = historial[k].efectiva
  BY <1>1, DecididoSeq DEF IInv, TypeOK
<1>4. TypeOK'
  BY <1>3 DEF IInv, TypeOK
<1>5. LecturasFundadas'
  BY <1>3 DEF IInv, TypeOK, LecturasFundadas
<1>6. QED BY <1>2, <1>4, <1>5 DEF IInv

LEMMA AplicadoStep ==
    ASSUME IInv, NEW i \in lote, Pendiente(i), Aplicable(i), Decidir(i, "Aplicado", hoy),
           plan' = [plan EXCEPT ![historial[i].contrato] = historial[i].nuevo],
           servicio' \in [Contratos -> Planes \cup {SinServicio}],
           UNCHANGED <<firmado, activos, hoy, pc, leido>>,
           corriendo' \in BOOLEAN, lote' \subseteq lote
    PROVE  IInv'
<1>1. i \in Cambios /\ hoy \in 0 .. MaxDia /\ historial[i] \in Cambio
  BY PlanConstants, ElementOfSeq DEF IInv, TypeOK, Dias, Cambios
<1>2. DecididoEn(i, "Aplicado", hoy)
  BY <1>1 DEF DecididoEn
<1>3. historial[i].efectiva <= hoy
  BY DEF IInv, LecturasFundadas
<1>4. PendienteEsUltimo' /\ NuncaAntes'
  BY <1>2, <1>3, DecididoPendiente, DecididoFechas
<1>5. plan[historial[i].contrato] = historial[i].anterior
  BY DEF Aplicable
<1>6. HistorialEncadenado'
  BY <1>2, <1>5, DecididoEncadenado
<1>7. historial' \in Seq(Cambio) /\ Cambios' = Cambios
      /\ \A k \in Cambios : historial'[k].efectiva = historial[k].efectiva
  BY <1>2, DecididoSeq DEF IInv, TypeOK
<1>8. plan' \in [Contratos -> Planes]
  BY <1>1 DEF IInv, TypeOK, Cambio
<1>9. TypeOK'
  BY <1>7, <1>8 DEF IInv, TypeOK
<1>10. LecturasFundadas'
  BY <1>7 DEF IInv, TypeOK, LecturasFundadas
<1>11. QED BY <1>4, <1>6, <1>9, <1>10 DEF IInv

\* Steps of the timer, of the other parts and of the calendar.
LEMMA IntactoStep ==
    ASSUME IInv, UNCHANGED <<plan, historial>>,
           firmado' \in [Contratos -> BOOLEAN], activos' \in SUBSET Planes,
           servicio' \in [Contratos -> Planes \cup {SinServicio}],
           hoy' \in Dias, hoy <= hoy',
           \/ UNCHANGED <<pc, leido>>
           \/ /\ pc' = [u \in Usuarios |-> "libre"]
              /\ leido' = [u \in Usuarios |-> SinLectura],
           corriendo' \in BOOLEAN,
           lote' \subseteq lote \cup Debidos
    PROVE  IInv'
<1>1. PendienteEsUltimo' /\ HistorialEncadenado' /\ NuncaAntes'
  BY HistorialIntacto DEF Dias
<1>2. pc' \in [Usuarios -> {"libre", "cambiar"}] /\ leido' \in [Usuarios -> Lectura]
  BY SinLecturaType DEF IInv, TypeOK
<1>3. lote' \subseteq Cambios
  BY DEF IInv, TypeOK, Debidos
<1>4. TypeOK'
  BY <1>2, <1>3 DEF IInv, TypeOK, Cambios
<1>5. \A u \in Usuarios : pc'[u] = "cambiar" => leido'[u].programado \/ leido'[u].efectiva <= hoy'
  <2>1. SUFFICES ASSUME NEW u \in Usuarios, pc'[u] = "cambiar", ~leido'[u].programado
                 PROVE  leido'[u].efectiva <= hoy'
    OBVIOUS
  <2>2. pc[u] = "cambiar" /\ leido'[u] = leido[u]
    BY <2>1
  <2>3. leido[u].efectiva <= hoy
    BY <2>1, <2>2 DEF IInv, LecturasFundadas
  <2>4. leido[u].efectiva \in Nat /\ hoy \in Nat /\ hoy' \in Nat
    BY DEF IInv, TypeOK, Lectura, Dias
  <2>5. QED BY <2>2, <2>3, <2>4
<1>6. \A i \in lote' : historial'[i].efectiva <= hoy'
  <2>1. SUFFICES ASSUME NEW i \in lote' PROVE historial[i].efectiva <= hoy'
    OBVIOUS
  <2>2. i \in Cambios /\ historial[i].efectiva <= hoy
    BY <2>1, <1>3 DEF IInv, LecturasFundadas, Debidos
  <2>3. historial[i] \in Cambio
    BY <2>2, ElementOfSeq DEF IInv, TypeOK, Cambios
  <2>4. historial[i].efectiva \in Nat /\ hoy \in Nat /\ hoy' \in Nat
    BY <2>3 DEF IInv, TypeOK, Cambio, Dias
  <2>5. QED BY <2>2, <2>4
<1>7. LecturasFundadas'
  BY <1>5, <1>6 DEF LecturasFundadas
<1>8. QED BY <1>1, <1>4, <1>7 DEF IInv

LEMMA AplicarDebidoStep == ASSUME IInv, NEW i \in Cambios, AplicarDebido(i) PROVE IInv'
<1> DEFINE c == historial[i].contrato
           p == historial[i].nuevo
<1>1. /\ i \in lote
      /\ lote' = lote \ {i} /\ corriendo' = (lote' # {})
      /\ UNCHANGED <<firmado, activos, hoy, pc, leido>>
  BY DEF AplicarDebido, Primero
<1>2. corriendo' \in BOOLEAN /\ lote' \subseteq lote
  <2>1. corriendo' = (lote' # {})
    BY <1>1
  <2>2. corriendo' \in BOOLEAN
    BY ONLY <2>1
  <2>3. QED BY <1>1, <2>2
<1>3. historial[i] \in Cambio /\ p \in Planes
  <2>1. historial \in Seq(Cambio)
    BY DEF IInv, TypeOK
  <2>2. historial[i] \in Cambio
    BY <2>1, ElementOfSeq DEF Cambios
  <2>3. QED BY <2>2 DEF Cambio
<1>4. CASE UNCHANGED <<historial, plan, servicio>>
  <2>1. lote' \subseteq lote \cup Debidos /\ hoy \in Nat
    BY <1>1 DEF IInv, TypeOK, Dias
  <2>2. hoy <= hoy'
    BY <1>1, <2>1
  <2>3. UNCHANGED <<pc, leido>> /\ firmado' \in [Contratos -> BOOLEAN] /\ activos' \in SUBSET Planes
        /\ servicio' \in [Contratos -> Planes \cup {SinServicio}] /\ hoy' \in Dias
    BY <1>1, <1>4 DEF IInv, TypeOK
  <2>4. QED BY <1>2, <1>4, <2>1, <2>2, <2>3, IntactoStep
<1>5. CASE Pendiente(i) /\ Decidir(i, "Cancelado", 0) /\ UNCHANGED <<plan, servicio>>
  BY <1>1, <1>2, <1>5, CanceladoStep
<1>6. CASE /\ Pendiente(i) /\ Aplicable(i)
           /\ Decidir(i, "Aplicado", hoy)
           /\ plan' = [plan EXCEPT ![c] = p]
           /\ servicio' = IF servicio[c] = SinServicio THEN servicio ELSE [servicio EXCEPT ![c] = p]
  <2>1. servicio' \in [Contratos -> Planes \cup {SinServicio}]
    BY <1>3, <1>6 DEF IInv, TypeOK
  <2>2. QED BY <1>1, <1>2, <1>6, <2>1, AplicadoStep
<1>7. QED BY <1>4, <1>5, <1>6 DEF AplicarDebido

LEMMA OtrosPasos ==
    ASSUME IInv,
           \/ EmpezarTick
           \/ FallarTick
           \/ Reiniciar
           \/ \E c \in Contratos : CrearServicio(c) \/ BajaContrato(c)
           \/ \E p \in Planes : DesactivarPlan(p)
           \/ NuevoDia
           \/ UNCHANGED vars
    PROVE  IInv'
<1>1. hoy \in Nat /\ MaxDia \in Nat /\ hoy \in Dias
  BY PlanConstants DEF IInv, TypeOK, Dias
<1>2. UNCHANGED <<plan, historial>>
  BY DEF EmpezarTick, FallarTick, Reiniciar, CrearServicio, BajaContrato, DesactivarPlan, NuevoDia,
     vars, filas
<1>3. firmado' \in [Contratos -> BOOLEAN]
  BY DEF IInv, TypeOK, EmpezarTick, FallarTick, Reiniciar, CrearServicio, BajaContrato,
     DesactivarPlan, NuevoDia, vars, filas
<1>4. activos' \in SUBSET Planes
  BY DEF IInv, TypeOK, EmpezarTick, FallarTick, Reiniciar, CrearServicio, BajaContrato,
     DesactivarPlan, NuevoDia, vars, filas
<1>5. servicio' \in [Contratos -> Planes \cup {SinServicio}]
  BY DEF IInv, TypeOK, EmpezarTick, FallarTick, Reiniciar, CrearServicio, BajaContrato,
     DesactivarPlan, NuevoDia, vars, filas
<1>6. hoy' \in {hoy, hoy + 1} /\ (hoy' = hoy + 1 => hoy < MaxDia)
  BY <1>1 DEF EmpezarTick, FallarTick, Reiniciar, CrearServicio, BajaContrato,
     DesactivarPlan, NuevoDia, vars, filas
<1>7. hoy' \in Dias /\ hoy <= hoy'
  BY <1>1, <1>6 DEF Dias
<1>8. \/ UNCHANGED <<pc, leido>>
      \/ /\ pc' = [u \in Usuarios |-> "libre"]
         /\ leido' = [u \in Usuarios |-> SinLectura]
  BY DEF EmpezarTick, FallarTick, Reiniciar, CrearServicio, BajaContrato,
     DesactivarPlan, NuevoDia, vars
<1>9. corriendo' \in BOOLEAN
  BY DEF IInv, TypeOK, EmpezarTick, FallarTick, Reiniciar, CrearServicio, BajaContrato,
     DesactivarPlan, NuevoDia, vars, timer
<1>10. lote' \subseteq lote \cup Debidos
  BY DEF EmpezarTick, PrimerosDebidos, FallarTick, Reiniciar, CrearServicio, BajaContrato,
     DesactivarPlan, NuevoDia, vars, timer
<1>11. QED BY <1>2, <1>3, <1>4, <1>5, <1>7, <1>8, <1>9, <1>10, IntactoStep

LEMMA CancelPlanChangeStep == ASSUME IInv, NEW i \in Cambios, CancelPlanChange(i) PROVE IInv'
  BY CanceladoStep DEF CancelPlanChange, IInv, TypeOK, timer

LEMMA NextStep == IInv /\ [Next]_vars => IInv'
<1> SUFFICES ASSUME IInv, [Next]_vars PROVE IInv'
  OBVIOUS
<1>1. CASE \E u \in Usuarios, c \in Contratos, p \in Planes, d \in Dias : LeerCambio(u, c, p, d)
  BY <1>1, LeerCambioStep
<1>2. CASE \E u \in Usuarios : ConfirmarCambio(u)
  BY <1>2, ConfirmarCambioStep
<1>3. CASE \E i \in Cambios : CancelPlanChange(i) \/ AplicarDebido(i)
  BY <1>3, CancelPlanChangeStep, AplicarDebidoStep
<1>4. QED BY <1>1, <1>2, <1>3, OtrosPasos DEF Next

--------------------------------------------------------------------------------
\* The history of a contract always accounts for its plan, and nothing is applied
\* before its day.
THEOREM PlanChangeCorrect == Spec => []IInv
  BY IInvInit, NextStep, PTL DEF Spec

\* A change that is decided is never touched again.
LEMMA DecididoStep ==
    ASSUME IInv, [Next]_vars
    PROVE  \A i \in Cambios : ~Pendiente(i) => historial'[i] = historial[i]
<1> SUFFICES ASSUME NEW k \in Cambios, ~Pendiente(k) PROVE historial'[k] = historial[k]
  OBVIOUS
<1>0. historial \in Seq(Cambio)
  BY DEF IInv, TypeOK
<1>1. ASSUME NEW u \in Usuarios, ConfirmarCambio(u) PROVE historial'[k] = historial[k]
  <2>1. CASE historial' = Append(historial, Registro(u))
    BY <1>0, <2>1, AppendProperties DEF Cambios
  <2>2. CASE UNCHANGED historial
    BY <2>2
  <2>3. QED BY <1>1, <2>1, <2>2 DEF ConfirmarCambio
<1>2. ASSUME NEW i \in Cambios, Pendiente(i), NEW e, NEW d, Decidir(i, e, d)
      PROVE  historial'[k] = historial[k]
  <2>1. k # i
    BY <1>2
  <2>2. QED BY <1>0, <1>2, <2>1 DEF Decidir, Cambios
<1>3. ASSUME NEW i \in Cambios, CancelPlanChange(i) PROVE historial'[k] = historial[k]
  BY <1>2, <1>3 DEF CancelPlanChange
<1>4. ASSUME NEW i \in Cambios, AplicarDebido(i) PROVE historial'[k] = historial[k]
  BY <1>2, <1>4 DEF AplicarDebido
<1>5. CASE UNCHANGED historial
  BY <1>5
<1>6. QED
  BY <1>1, <1>3, <1>4, <1>5 DEF Next, LeerCambio, EmpezarTick, FallarTick, Reiniciar, CrearServicio,
     BajaContrato, DesactivarPlan, NuevoDia, vars, filas

THEOREM DecididoUnaVezCorrect == Spec => DecididoUnaVez
<1>1. IInv /\ [Next]_vars
      => [\A i \in 1 .. Len(historial) :
             ~(historial[i].estado = "Pendiente") => historial'[i] = historial[i]]_vars
  BY DecididoStep DEF Pendiente, Cambios
<1>2. QED BY <1>1, PlanChangeCorrect, PTL DEF Spec, DecididoUnaVez, Pendiente, Cambios
================================================================================
