----------------------------- MODULE Salida_proofs -----------------------------
(***************************************************************************)
(* Proofs about SalidaPortal, for every number of fragments and of         *)
(* requests on their way.                                                  *)
(***************************************************************************)
EXTENDS SalidaPortal, TLAPS

(* What the spool holds: what is lost is a range that begins right after   *)
(* what was acknowledged at the latest, and what is kept is all that came  *)
(* after both.                                                             *)
ColaBien ==
  /\ cola.ack <= cola.ultimo
  /\ \/ cola.desde = 0 /\ cola.hasta = 0
     \/ 1 <= cola.desde /\ cola.desde <= cola.ack + 1 /\ cola.ack < cola.hasta /\ cola.hasta <= cola.ultimo
  /\ cola.marcos = {m \in Numeros : cola.ack < m /\ cola.hasta < m /\ m <= cola.ultimo}

(* A job that does not exist has published nothing; a result is for good   *)
(* or nobody is left to change it.                                         *)
TrabajoBien ==
  /\ ~Existe => ~trabajo.instala /\ cola.ultimo = 0
  /\ trabajo.estado \in Finales => trabajo.terminado \/ ~trabajo.instala

(* The cursor lies between what the node purged and what it published, and *)
(* a result that is stored is that of the manifest.                        *)
PortalBien ==
  /\ cola.ack <= op.cursor /\ op.cursor <= cola.ultimo
  /\ op.final.estado \in Finales =>
       trabajo.estado = op.final.estado /\ op.final.ultimo = cola.ultimo
  /\ ~op.pedido => ~Existe /\ red = <<>> /\ turno.etapa \in {"libre", "decide"}
  /\ op.estado # "abierta" => En("libre")

(* Up to the cursor each number is recorded as one class; an outcome came  *)
(* after all of the output.                                                *)
ConsolaBien ==
  /\ \A f \in consola : f.clase \in {"texto", "perdida"} => 1 <= f.desde /\ f.hasta <= op.cursor
  /\ \A n \in 1..op.cursor : \E c \in {"texto", "perdida"} :
       {f.clase : f \in {g \in consola : Cubre(g, n)}} = {c}
  /\ Hito("disponible") \in consola =>
       op.estado = "confirmada" /\ op.final.estado = "confirmado" /\ op.cursor = cola.ultimo
  /\ Hito("fallo") \in consola /\ op.pedido => op.final.estado = "fallido" /\ op.cursor = cola.ultimo
  /\ Hito("fallo") \in consola /\ ~op.pedido => op.estado = "fallida"

(* No request on its way purges more than what is stored, and the one the  *)
(* tick waits for is the last.                                             *)
RedBien ==
  /\ \A i \in 1..Len(red) : red[i].tipo = "ack" => red[i].n <= op.cursor
  /\ turno.espera => red # <<>> /\ turno.etapa \in {"consulta", "lee", "confirma"}
  /\ turno.espera => ~turno.ack
  /\ ~En("libre") /\ ~turno.espera => Len(red) < EnCamino
  /\ turno.espera /\ En("lee") => red[Len(red)] = [tipo |-> "lectura", n |-> op.cursor]

(* What makes an answer acceptable, said of the answer in hand: it was     *)
(* true of the spool and of the cursor when it was given, and the cursor   *)
(* has not moved since.                                                    *)
LecturaBien(d) ==
  /\ d.ack <= op.cursor /\ op.cursor <= d.ultimo /\ d.ultimo <= cola.ultimo
  /\ d.hasta = 0 \/ (1 <= d.desde /\ d.desde <= op.cursor + 1 /\ op.cursor < d.hasta /\ d.hasta <= d.ultimo)
  /\ \E k \in Cuenta : k <= d.ultimo /\ d.marcos = {m \in Numeros : op.cursor < m /\ d.hasta < m /\ m <= k}
  /\ d.estado \in Finales => trabajo.estado = d.estado /\ d.ultimo = cola.ultimo
  /\ op.final.estado \in Finales => d.estado = op.final.estado

(* Only a tick that reads holds such an answer.                            *)
TurnoBien == En("lee") => op.pedido /\ (Llego => ~turno.espera /\ LecturaBien(turno.datos))

(* The inductive invariant.                                                *)
IInv == TypeOK /\ ColaBien /\ TrabajoBien /\ PortalBien /\ ConsolaBien /\ RedBien /\ TurnoBien
----------------------------------------------------------------------------
(* The operators of the model on sets of numbers.                          *)
LEMMA MayorEs ==
  ASSUME NEW s \in SUBSET Nat, NEW n \in s, \A m \in s : n >= m
  PROVE  Mayor(s) = n
<1>1. \E k \in s : \A m \in s : k >= m  OBVIOUS
<1>2. Mayor(s) \in s /\ \A m \in s : Mayor(s) >= m  BY <1>1 DEF Mayor
<1>3. Mayor(s) \in Nat /\ n \in Nat /\ Mayor(s) >= n /\ n >= Mayor(s)  BY <1>2
<1> QED  BY <1>3

LEMMA MenorEs ==
  ASSUME NEW s \in SUBSET Nat, NEW n \in s, \A m \in s : n <= m
  PROVE  Menor(s) = n
<1>1. \E k \in s : \A m \in s : k <= m  OBVIOUS
<1>2. Menor(s) \in s /\ \A m \in s : Menor(s) <= m  BY <1>1 DEF Menor
<1>3. Menor(s) \in Nat /\ n \in Nat /\ Menor(s) <= n /\ n <= Menor(s)  BY <1>2
<1> QED  BY <1>3

(* What is left of the requests on their way after one was served: the     *)
(* last ones, the same last one if any.                                    *)
LEMMA RestoDeRed ==
  ASSUME NEW S, NEW s \in Seq(S), NEW i \in 1..Len(s)
  PROVE  LET q == SubSeq(s, i + 1, Len(s))
         IN /\ q \in Seq(S) /\ Len(q) = Len(s) - i
            /\ \A j \in 1..Len(q) : i + j \in 1..Len(s) /\ q[j] = s[i + j]
            /\ i < Len(s) => q # <<>> /\ q[Len(q)] = s[Len(s)]
<1> DEFINE q == SubSeq(s, i + 1, Len(s))
<1>1. q \in Seq(S)  OBVIOUS
<1>2. Len(q) = Len(s) - i  OBVIOUS
<1>3. \A j \in 1..Len(q) : i + j \in 1..Len(s) /\ q[j] = s[i + j]  BY <1>2
<1>4. ASSUME i < Len(s) PROVE q # <<>> /\ q[Len(q)] = s[Len(s)]
  <2>1. Len(q) \in 1..Len(q) /\ i + Len(q) = Len(s)  BY <1>2, <1>4
  <2>2. q[Len(q)] = s[Len(s)]  BY <2>1, <1>3
  <2>3. q # <<>>
    <3> HIDE DEF q
    <3>1. SUFFICES ASSUME q = <<>> PROVE FALSE  OBVIOUS
    <3> QED  BY <3>1, <2>1
  <2> QED  BY <2>2, <2>3
<1> QED  BY <1>1, <1>2, <1>3, <1>4
----------------------------------------------------------------------------
(* The spool, after an acknowledgement of what the console holds.          *)
LEMMA PurgadaBien ==
  ASSUME TypeOKNodo, ColaBien, NEW n \in Cuenta, n <= cola.ultimo, cola' = Purgada(n)
  PROVE  /\ cola' \in Colas /\ ColaBien'
         /\ cola'.ultimo = cola.ultimo
         /\ cola'.ack = IF n <= cola.ack THEN cola.ack ELSE n
<1> USE MensajesNat DEF TypeOKNodo, Colas, Cuenta, Numeros
<1>1. CASE n <= cola.ack
  <2>1. cola' = cola  BY <1>1 DEF Purgada
  <2> QED  BY <2>1, <1>1 DEF ColaBien
<1>2. CASE ~(n <= cola.ack)
  <2> DEFINE mm == {m \in cola.marcos : m > n}
             a == IF n < cola.hasta THEN cola.desde ELSE 0
             b == IF n < cola.hasta THEN cola.hasta ELSE 0
  <2>1. mm = {m \in Numeros : n < m /\ b < m /\ m <= cola.ultimo}
    BY <1>2 DEF ColaBien
  <2>2. mm \in SUBSET Numeros /\ a \in Cuenta /\ b \in Cuenta  BY <2>1
  <2>3. cola' = [ultimo |-> cola.ultimo, ack |-> n, marcos |-> mm, desde |-> a, hasta |-> b]
    BY <1>2 DEF Purgada
  <2>4. \/ a = 0 /\ b = 0
        \/ 1 <= a /\ a <= n + 1 /\ n < b /\ b <= cola.ultimo
    BY <1>2 DEF ColaBien
  <2> HIDE DEF mm, a, b
  <2>5. cola' \in Colas  BY <2>2, <2>3
  <2> QED  BY <2>1, <2>2, <2>3, <2>4, <2>5, <1>2 DEF ColaBien
<1> QED  BY <1>1, <1>2

(* The spool, after a new fragment, whatever had to leave.                 *)
LEMMA AgregadaBien ==
  ASSUME TypeOKNodo, ColaBien, NEW corte \in Cuenta, NEW grande \in BOOLEAN,
         cola.ultimo < Mensajes, cola' = Agregada(Sobran(corte, grande))
  PROVE  /\ cola' \in Colas /\ ColaBien'
         /\ cola'.ultimo = cola.ultimo + 1 /\ cola'.ack = cola.ack
<1> USE MensajesNat DEF TypeOKNodo, Colas, Cuenta, Numeros
<1> DEFINE n == cola.ultimo + 1
           fuera == Sobran(corte, grande)
           tope == IF grande THEN n ELSE IF corte <= cola.ultimo THEN corte ELSE cola.ultimo
           base == IF cola.hasta = 0 THEN cola.ack + 1 ELSE cola.hasta + 1
<1>1. cola.marcos = {m \in Numeros : base <= m /\ m <= cola.ultimo}  BY DEF ColaBien
<1>2. fuera = {m \in Numeros : base <= m /\ m <= tope}
  BY <1>1 DEF ColaBien, Sobran
<1>3. n \in Numeros /\ base \in Numeros /\ base <= n /\ tope \in Cuenta /\ tope <= n
  BY DEF ColaBien
<1> DEFINE mm == (cola.marcos \cup {n}) \ fuera
           a == IF fuera = {} \/ cola.desde # 0 THEN cola.desde ELSE base
           b == IF fuera = {} THEN cola.hasta ELSE tope
<1>4. mm = {m \in Numeros : cola.ack < m /\ b < m /\ m <= n}
  BY <1>1, <1>2, <1>3 DEF ColaBien
<1>5. mm \in SUBSET Numeros /\ a \in Cuenta /\ b \in Cuenta  BY <1>4, <1>3
<1>6. fuera # {} => base \in fuera /\ tope \in fuera /\ base <= tope  BY <1>2, <1>3
<1>7. \/ a = 0 /\ b = 0
      \/ 1 <= a /\ a <= cola.ack + 1 /\ cola.ack < b /\ b <= n
  BY <1>3, <1>6 DEF ColaBien
<1> HIDE DEF tope, base
<1>8. fuera # {} => Menor(fuera) = base /\ Mayor(fuera) = tope
  <2>1. SUFFICES ASSUME fuera # {} PROVE Menor(fuera) = base /\ Mayor(fuera) = tope  OBVIOUS
  <2>2. fuera \in SUBSET Nat  BY <1>2
  <2>3. \A m \in fuera : base <= m /\ tope >= m  BY <1>2, <1>3
  <2> HIDE DEF fuera
  <2>4. Menor(fuera) = base  BY <2>1, <1>6, <2>2, <2>3, MenorEs
  <2>5. Mayor(fuera) = tope  BY <2>1, <1>6, <2>2, <2>3, MayorEs
  <2> QED  BY <2>4, <2>5
<1> HIDE DEF fuera
<1>9. cola' = [ultimo |-> n, ack |-> cola.ack, marcos |-> mm, desde |-> a, hasta |-> b]
  <2>1. cola' = Agregada(fuera)  BY DEF fuera
  <2> QED  BY <2>1, <1>8 DEF Agregada, ConPerdida
<1> HIDE DEF mm, a, b
<1>10. cola' \in Colas  BY <1>5, <1>9, <1>3
<1> QED  BY <1>3, <1>4, <1>5, <1>7, <1>9, <1>10 DEF ColaBien
----------------------------------------------------------------------------
(* What the node answers to any reading.                                   *)
LEMMA LecturasTipo ==
  ASSUME TypeOK, NEW n \in Cuenta, NEW d \in Lecturas(n)
  PROVE  d \in Datos
<1> USE MensajesNat DEF TypeOK, TypeOKNodo, Colas, Cuenta, Numeros
<1> DEFINE a == IF cola.hasta > n THEN cola.desde ELSE 0
           b == IF cola.hasta > n THEN cola.hasta ELSE 0
           nuevos == Nuevos(n)
<1>1. PICK corte \in Cuenta :
        d = [estado |-> trabajo.estado, ultimo |-> cola.ultimo, ack |-> cola.ack,
             marcos |-> {k \in nuevos : k <= corte}, desde |-> a, hasta |-> b]
  BY DEF Lecturas
<1>2. a \in Cuenta /\ b \in Cuenta /\ {k \in nuevos : k <= corte} \in SUBSET Numeros  BY DEF Nuevos
<1> HIDE DEF a, b, nuevos
<1> QED  BY <1>1, <1>2 DEF Datos, Manifiestos

(* What the node answers to the reading of the tick that holds the lease.  *)
LEMMA LecturasBien ==
  ASSUME TypeOK, ColaBien, TrabajoBien, PortalBien, NEW d \in Lecturas(op.cursor)
  PROVE  d \in Datos /\ LecturaBien(d)
<1> USE MensajesNat DEF TypeOK, TypeOKNodo, Colas, Cuenta, Numeros, Operaciones
<1> DEFINE pierde == cola.hasta > op.cursor
           nuevos == Nuevos(op.cursor)
           a == IF pierde THEN cola.desde ELSE 0
           b == IF pierde THEN cola.hasta ELSE 0
<1>1. PICK corte \in Cuenta :
        d = [estado |-> trabajo.estado, ultimo |-> cola.ultimo, ack |-> cola.ack,
             marcos |-> {k \in nuevos : k <= corte}, desde |-> a, hasta |-> b]
  BY DEF Lecturas
<1>2. nuevos = {m \in Numeros : op.cursor < m /\ b < m /\ m <= cola.ultimo}
  BY DEF Nuevos, ColaBien, PortalBien
<1>3. /\ a \in Cuenta /\ b \in Cuenta
      /\ b = 0 \/ (1 <= a /\ a <= op.cursor + 1 /\ op.cursor < b /\ b <= cola.ultimo)
  BY DEF ColaBien, PortalBien
<1> HIDE DEF a, b, pierde, nuevos
<1> DEFINE k == IF corte <= cola.ultimo THEN corte ELSE cola.ultimo
           mm == {m \in nuevos : m <= corte}
<1>4. mm = {m \in Numeros : op.cursor < m /\ b < m /\ m <= k} /\ k \in Cuenta /\ k <= cola.ultimo
  BY <1>2
<1>5. mm \in SUBSET Numeros  BY <1>4
<1> HIDE DEF k, mm
<1>6. d = [estado |-> trabajo.estado, ultimo |-> cola.ultimo, ack |-> cola.ack,
           marcos |-> mm, desde |-> a, hasta |-> b]
  BY <1>1 DEF mm
<1>7. d \in Datos  BY <1>6, <1>5, <1>3 DEF Datos, Manifiestos
<1>8. d.ack <= op.cursor /\ op.cursor <= d.ultimo /\ d.ultimo <= cola.ultimo  BY <1>6 DEF PortalBien
<1>9. d.hasta = 0 \/ (1 <= d.desde /\ d.desde <= op.cursor + 1 /\ op.cursor < d.hasta /\ d.hasta <= d.ultimo)
  BY <1>6, <1>3
<1>10. k \in Cuenta /\ k <= d.ultimo
       /\ d.marcos = {m \in Numeros : op.cursor < m /\ d.hasta < m /\ m <= k}
  BY <1>6, <1>4
<1>11. /\ d.estado \in Finales => trabajo.estado = d.estado /\ d.ultimo = cola.ultimo
       /\ op.final.estado \in Finales => d.estado = op.final.estado
  BY <1>6 DEF PortalBien
<1> QED  BY <1>7, <1>8, <1>9, <1>10, <1>11 DEF LecturaBien

(* The pieces of such an answer: they follow the cursor without a gap, and *)
(* no two of them cover the same number.                                   *)
LEMMA PiezasBien ==
  ASSUME TypeOK, PortalBien, NEW d \in Datos, LecturaBien(d)
  PROVE  /\ Fin(d) \in Cuenta /\ op.cursor <= Fin(d)
         /\ Fin(d) <= d.ultimo /\ Fin(d) <= cola.ultimo
         /\ Seguidas(d)
         /\ Piezas(d) = {} => Fin(d) = op.cursor
         /\ d.ultimo <= op.cursor => Piezas(d) = {}
         /\ \A p \in Piezas(d) : /\ p \in Fragmentos /\ p.clase \in {"texto", "perdida"}
                                 /\ op.cursor < p.desde /\ p.hasta <= Fin(d)
<1> USE MensajesNat DEF TypeOK, Cuenta, Numeros, Operaciones, Datos
<1>1. PICK k \in Cuenta : /\ k <= d.ultimo
                          /\ d.marcos = {m \in Numeros : op.cursor < m /\ d.hasta < m /\ m <= k}
  BY DEF LecturaBien
<1> DEFINE c == op.cursor
           textos == {Pieza("texto", m, m) : m \in d.marcos}
           perdidas == IF d.hasta = 0 THEN {} ELSE {Pieza("perdida", c + 1, d.hasta)}
           base == IF d.hasta = 0 THEN c ELSE d.hasta
           fin == IF base < k THEN k ELSE base
<1>2. c \in Cuenta /\ base \in Cuenta /\ c <= base /\ fin \in Cuenta /\ base <= fin
  BY DEF LecturaBien
<1>3. d.hasta # 0 => base <= d.ultimo /\ c < base  BY DEF LecturaBien
<1>4. d.marcos = {m \in Numeros : base < m /\ m <= k}  BY <1>1 DEF LecturaBien
<1>5. Piezas(d) = textos \cup perdidas
  <2>1. {m \in d.marcos : m > op.cursor} = d.marcos  BY <1>1
  <2>2. CASE d.hasta = 0
    BY <2>1, <2>2 DEF Piezas
  <2>3. CASE d.hasta # 0
    <3>0. d.desde \in Nat /\ d.desde <= c + 1 /\ c \in Nat  BY <2>3 DEF LecturaBien
    <3>1. (IF d.desde > op.cursor THEN d.desde ELSE op.cursor + 1) = c + 1
      BY <3>0
    <3>2. ~(d.hasta <= op.cursor)  BY <2>3 DEF LecturaBien
    <3> QED  BY <2>1, <2>3, <3>1, <3>2 DEF Piezas
  <2> QED  BY <2>2, <2>3
<1>6. \A p \in textos : \E m \in d.marcos : p = Pieza("texto", m, m)  OBVIOUS
<1>7. \A p \in perdidas : d.hasta # 0 /\ p = Pieza("perdida", c + 1, base)  OBVIOUS
<1>8. \A p \in Piezas(d) : /\ p \in Fragmentos /\ p.clase \in {"texto", "perdida"}
                           /\ c < p.desde /\ p.desde <= p.hasta /\ p.hasta <= fin /\ p.hasta <= d.ultimo
  <2>1. SUFFICES ASSUME NEW p \in Piezas(d)
                 PROVE  /\ p \in Fragmentos /\ p.clase \in {"texto", "perdida"}
                        /\ c < p.desde /\ p.desde <= p.hasta /\ p.hasta <= fin /\ p.hasta <= d.ultimo
    OBVIOUS
  <2>2. CASE p \in textos
    <3>1. PICK m \in d.marcos : p = Pieza("texto", m, m)  BY <2>2, <1>6
    <3>2. m \in Numeros /\ base < m /\ m <= k  BY <1>4
    <3> QED  BY <3>1, <3>2, <1>1, <1>2 DEF Pieza, Fragmentos
  <2>3. CASE p \in perdidas
    <3>1. d.hasta # 0 /\ p = Pieza("perdida", c + 1, base)  BY <2>3, <1>7
    <3>2. c + 1 \in Cuenta  BY <3>1, <1>3, <1>2
    <3> QED  BY <3>1, <3>2, <1>3, <1>2 DEF Pieza, Fragmentos
  <2> QED  BY <2>1, <2>2, <2>3, <1>5
<1>9. fin \in {c} \cup {p.hasta : p \in Piezas(d)}
  <2>1. CASE base < k
    <3>1. k \in d.marcos  BY <2>1, <1>4, <1>2
    <3>2. Pieza("texto", k, k) \in Piezas(d)  BY <3>1, <1>5
    <3>3. Pieza("texto", k, k).hasta = k  BY DEF Pieza
    <3> QED  BY <3>2, <3>3, <2>1
  <2>2. CASE ~(base < k) /\ d.hasta = 0
    BY <2>2
  <2>3. CASE ~(base < k) /\ d.hasta # 0
    <3>1. Pieza("perdida", c + 1, base) \in Piezas(d)  BY <2>3, <1>5
    <3>2. Pieza("perdida", c + 1, base).hasta = base  BY DEF Pieza
    <3> QED  BY <3>1, <3>2, <2>3
  <2> QED  BY <2>1, <2>2, <2>3
<1>10. Fin(d) = fin
  <2> DEFINE s == {c} \cup {p.hasta : p \in Piezas(d)}
  <2>1. s \in SUBSET Nat  BY <1>8, <1>2 DEF Fragmentos
  <2>2. \A m \in s : fin >= m  BY <1>8, <1>2
  <2>3. Fin(d) = Mayor(s)  BY DEF Fin
  <2> HIDE DEF s, fin
  <2>4. fin \in s  BY <1>9 DEF s
  <2> QED  BY <2>1, <2>2, <2>3, <2>4, MayorEs
<1>11. Seguidas(d)
  <2>1. SUFFICES ASSUME NEW n \in c + 1..fin
                 PROVE  \E p \in Piezas(d) : Cubre(p, n) /\ \A q \in Piezas(d) : Cubre(q, n) => q = p
    BY <1>10 DEF Seguidas
  <2>2. CASE n <= base
    <3> DEFINE p == Pieza("perdida", c + 1, base)
    <3>1. d.hasta # 0  BY <2>2, <1>2
    <3>2. p \in Piezas(d) /\ Cubre(p, n)  BY <3>1, <2>2, <1>5 DEF Pieza, Cubre
    <3>3. ASSUME NEW q \in Piezas(d), Cubre(q, n) PROVE q = p
      <4>1. CASE q \in textos
        <5>1. PICK m \in d.marcos : q = Pieza("texto", m, m)  BY <4>1, <1>6
        <5>2. m \in Nat /\ base < m /\ m <= n  BY <5>1, <1>4, <3>3 DEF Cubre, Pieza
        <5> QED  BY <5>2, <2>2, <1>2
      <4>2. CASE q \in perdidas  BY <4>2, <1>7
      <4> QED  BY <4>1, <4>2, <1>5
    <3> QED  BY <3>2, <3>3
  <2>3. CASE base < n
    <3> DEFINE p == Pieza("texto", n, n)
    <3>1. n \in d.marcos  BY <2>3, <1>4, <1>2
    <3>2. p \in Piezas(d) /\ Cubre(p, n)  BY <3>1, <1>5 DEF Pieza, Cubre
    <3>3. ASSUME NEW q \in Piezas(d), Cubre(q, n) PROVE q = p
      <4>1. CASE q \in textos
        <5>1. PICK m \in d.marcos : q = Pieza("texto", m, m)  BY <4>1, <1>6
        <5>2. m = n  BY <5>1, <1>4, <3>3 DEF Cubre, Pieza
        <5> QED  BY <5>1, <5>2
      <4>2. CASE q \in perdidas
        <5>1. n <= base  BY <4>2, <1>7, <3>3 DEF Cubre, Pieza
        <5> QED  BY <5>1, <2>3, <1>2
      <4> QED  BY <4>1, <4>2, <1>5
    <3> QED  BY <3>2, <3>3
  <2> QED  BY <2>2, <2>3, <1>2
<1>12. Piezas(d) = {} => fin = c  BY <1>9
<1>13. d.ultimo <= c => Piezas(d) = {}  BY <1>8, <1>2 DEF Fragmentos
<1>14. fin <= d.ultimo  BY <1>1, <1>2, <1>3 DEF LecturaBien
<1>15. fin <= cola.ultimo
  BY <1>14, <1>2 DEF LecturaBien, TypeOKNodo, Colas
<1> QED  BY <1>2, <1>8, <1>10, <1>11, <1>12, <1>13, <1>14, <1>15

(* Nothing the answer brings is refused.                                   *)
LEMMA SinConflictoSale == IInv => SinConflicto
<1> SUFFICES ASSUME IInv, En("lee"), Llego PROVE Aceptable(turno.datos)
  BY DEF SinConflicto
<1> DEFINE d == turno.datos
<1>1. d \in Datos /\ LecturaBien(d) /\ op.pedido  BY DEF IInv, TurnoBien, TypeOK, Ticks
<1> HIDE DEF d
<1>2. /\ Fin(d) <= d.ultimo /\ Seguidas(d)
      /\ d.ultimo <= op.cursor => Piezas(d) = {}
  BY <1>1, PiezasBien DEF IInv
<1>3. d.ack <= op.cursor  BY <1>1 DEF LecturaBien
<1>4. ~Cambia(d)
  <2>1. SUFFICES ASSUME op.final.estado \in Finales
                 PROVE  op.final = [estado |-> d.estado, ultimo |-> d.ultimo]
    BY DEF Cambia
  <2>2. op.final.estado = d.estado /\ op.final.ultimo = d.ultimo
    BY <2>1, <1>1 DEF LecturaBien, IInv, PortalBien
  <2> QED  BY <2>2 DEF IInv, TypeOK, Operaciones
<1>5. Cerrada => d.ultimo <= op.cursor
  BY <1>1 DEF Cerrada, LecturaBien, IInv, ConsolaBien, TypeOK, TypeOKNodo, Colas, Cuenta, Operaciones, Datos
<1> QED  BY <1>2, <1>3, <1>4, <1>5 DEF Aceptable, d

(* What is published is somewhere.                                         *)
LEMMA NadaSePierdeSale == IInv => NadaSePierde
<1> SUFFICES ASSUME IInv, NEW n \in 1..cola.ultimo
             PROVE  n \in cola.marcos \/ (cola.desde <= n /\ n <= cola.hasta) \/ Guardado(n)
  BY DEF NadaSePierde
<1> USE MensajesNat DEF IInv, TypeOK, TypeOKNodo, Colas, Operaciones, Cuenta, Numeros
<1>1. CASE n <= op.cursor
  <2>1. n \in 1..op.cursor  BY <1>1
  <2>2. {f.clase : f \in {g \in consola : Cubre(g, n)}} # {}  BY <2>1 DEF ConsolaBien
  <2> QED  BY <2>2 DEF Guardado
<1>2. CASE op.cursor < n
  BY <1>2 DEF ColaBien, PortalBien
<1> QED  BY <1>1, <1>2

(* What the console announces is the truth, and all the output precedes it.*)
LEMMA FinalCompletoSale == IInv => FinalCompleto
<1> SUFFICES ASSUME IInv PROVE FinalCompleto  OBVIOUS
<1> USE DEF IInv, TypeOK, TypeOKNodo, Colas, Operaciones, Cuenta, Finales
<1>1. Hito("disponible") \in consola => trabajo.estado = "confirmado"
  BY DEF ConsolaBien, PortalBien
<1>2. Hito("fallo") \in consola /\ op.pedido => trabajo.estado = "fallido"
  BY DEF ConsolaBien, PortalBien
<1>3. Cerrada => cola.ultimo <= op.cursor
  <2>1. ~op.pedido => cola.ultimo = 0  BY DEF PortalBien, TrabajoBien
  <2> QED  BY <2>1, MensajesNat DEF Cerrada, ConsolaBien
<1>4. ASSUME Cerrada, NEW n \in 1..cola.ultimo PROVE Guardado(n)
  <2>1. n \in 1..op.cursor  BY <1>3, <1>4, MensajesNat
  <2>2. {f.clase : f \in {g \in consola : Cubre(g, n)}} # {}  BY <2>1 DEF ConsolaBien
  <2> QED  BY <2>2 DEF Guardado
<1> QED  BY <1>1, <1>2, <1>3, <1>4 DEF FinalCompleto
----------------------------------------------------------------------------
(* The invariant holds at the start.                                       *)
LEMMA InicioBien == Init => IInv
<1> SUFFICES ASSUME Init PROVE IInv  OBVIOUS
<1> USE MensajesNat, EnCaminoNat DEF Init, InitNodo, Cuenta, Numeros
<1>1. TypeOK
  <2>1. 0 \in Cuenta /\ {} \in SUBSET Numeros /\ Len(red) <= EnCamino /\ red \in Seq(Mensajeria)  OBVIOUS
  <2>2. trabajo \in Manifiestos  BY DEF Manifiestos, Estados
  <2>3. cola \in Colas  BY <2>1 DEF Colas
  <2>4. Nulo \in Datos  BY <2>1 DEF Datos, Nulo, Estados
  <2>5. turno \in Ticks  BY <2>4 DEF Ticks, Libre
  <2>6. op \in Operaciones  BY <2>1 DEF Operaciones, Estados
  <2> QED  BY <2>1, <2>2, <2>3, <2>5, <2>6 DEF TypeOK, TypeOKNodo
<1>2. ColaBien /\ TrabajoBien  BY DEF ColaBien, TrabajoBien, Existe, Finales
<1>3. PortalBien /\ RedBien /\ TurnoBien
  BY DEF PortalBien, RedBien, TurnoBien, Existe, Finales, En, Libre
<1>4. ConsolaBien  BY DEF ConsolaBien
<1> QED  BY <1>1, <1>2, <1>3, <1>4 DEF IInv

(* A step of the installer: only while it runs and has given no result.    *)
LEMMA InstalaBien ==
  ASSUME IInv, Instala, UNCHANGED <<op, consola, turno, red, calma>>
  PROVE  IInv'
<1> USE DEF IInv
<1>1. ASSUME NEW corte \in Cuenta, NEW grande \in BOOLEAN, Emite(corte, grande) PROVE IInv'
  <2>1. /\ cola' \in Colas /\ ColaBien'
        /\ cola'.ultimo = cola.ultimo + 1 /\ cola'.ack = cola.ack
    BY <1>1, AgregadaBien DEF Emite, TypeOK
  <2>2. trabajo.estado \notin Finales /\ Existe /\ trabajo' = trabajo
    BY <1>1 DEF Emite, TrabajoBien, TypeOK, TypeOKNodo, Manifiestos
  <2>3. cola.ultimo \in Nat /\ op.cursor \in Nat
    BY MensajesNat DEF TypeOK, TypeOKNodo, Colas, Operaciones, Cuenta
  <2>4. TypeOK'  BY <2>1, <2>2 DEF TypeOK, TypeOKNodo
  <2>5. TrabajoBien'  BY <2>2 DEF TrabajoBien, Existe
  <2>6. PortalBien'  BY <2>1, <2>2, <2>3 DEF PortalBien, Existe, En
  <2>7. Hito("disponible") \notin consola /\ (Hito("fallo") \in consola => ~op.pedido)
    BY <2>2 DEF ConsolaBien, PortalBien, Finales
  <2>8. ConsolaBien'  BY <2>7 DEF ConsolaBien, Hito, Cubre
  <2>9. RedBien'  BY DEF RedBien, En
  <2>10. TurnoBien'
    <3>1. SUFFICES ASSUME En("lee"), Llego PROVE op.pedido /\ ~turno.espera /\ LecturaBien(turno.datos)'
      BY DEF TurnoBien, En, Llego, Nulo
    <3>2. op.pedido /\ ~turno.espera /\ LecturaBien(turno.datos) /\ turno.datos.ultimo \in Nat
      BY <3>1, MensajesNat DEF TurnoBien, TypeOK, Ticks, Datos, Cuenta
    <3> QED  BY <3>2, <2>1, <2>2, <2>3 DEF LecturaBien
  <2> QED  BY <2>1, <2>4, <2>5, <2>6, <2>8, <2>9, <2>10
<1>2. ASSUME trabajo.instala, cola' = cola,
             \/ Sale
             \/ \E e \in {"en_curso"} \cup Finales : Termina(e)
      PROVE  IInv'
  <2>1. /\ trabajo' \in Manifiestos /\ Existe' /\ Existe
        /\ trabajo.estado \in Finales => trabajo'.estado = trabajo.estado
        /\ trabajo'.estado \in Finales => trabajo'.terminado \/ ~trabajo'.instala
    BY <1>2 DEF TypeOK, TypeOKNodo, Manifiestos, Estados, Finales, TrabajoBien, Existe, Sale, Termina
  <2>2. TypeOK'  BY <1>2, <2>1 DEF TypeOK, TypeOKNodo
  <2>3. ColaBien' /\ TrabajoBien'  BY <1>2, <2>1 DEF ColaBien, TrabajoBien
  <2>4. PortalBien'  BY <1>2, <2>1 DEF PortalBien, En
  <2>5. ConsolaBien' /\ RedBien'  BY <1>2 DEF ConsolaBien, RedBien, Hito, Cubre, En
  <2>6. TurnoBien'
    <3>1. SUFFICES ASSUME En("lee"), Llego PROVE op.pedido /\ ~turno.espera /\ LecturaBien(turno.datos)'
      BY DEF TurnoBien, En, Llego, Nulo
    <3>2. op.pedido /\ ~turno.espera /\ LecturaBien(turno.datos)  BY <3>1 DEF TurnoBien
    <3> QED  BY <3>2, <2>1, <1>2 DEF LecturaBien
  <2> QED  BY <2>2, <2>3, <2>4, <2>5, <2>6
<1> QED  BY <1>1, <1>2 DEF Instala, Sale, Termina
----------------------------------------------------------------------------
(* Rows that record no output leave the output recorded as it was.         *)
LEMMA CubiertasIgual ==
  ASSUME NEW filas, \A f \in filas : f.clase \notin {"texto", "perdida"},
         consola' = consola \cup filas, NEW n
  PROVE  {g \in consola' : Cubre(g, n)} = {g \in consola : Cubre(g, n)}
BY DEF Cubre

(* A tick that says at most that it is checking, and ends.                 *)
LEMMA SueltaBien ==
  ASSUME IInv, Suelta, UNCHANGED <<varsNodo, red, calma>>, op' \in Operaciones,
         op'.estado = op.estado, op'.pedido = op.pedido, op'.cursor = op.cursor, op'.final = op.final,
         consola' = consola \/ consola' = consola \cup {Hito("comprobando")}
  PROVE  IInv'
<1> USE DEF IInv
<1>1. PICK filas \in {{}, {Hito("comprobando")}} : consola' = consola \cup filas  OBVIOUS
<1>2. \A f \in filas : f \in Fragmentos /\ f.clase \notin {"texto", "perdida"}
  BY MensajesNat DEF Hito, Fragmentos, Cuenta
<1>3. \A n : {g \in consola' : Cubre(g, n)} = {g \in consola : Cubre(g, n)}
  BY <1>1, <1>2, CubiertasIgual
<1>4. Hito("disponible") \notin filas /\ Hito("fallo") \notin filas  BY DEF Hito
<1>5. turno' = Libre /\ Libre \in Ticks /\ Libre.etapa = "libre" /\ Libre.espera = FALSE /\ ~Libre.ack
  BY MensajesNat DEF Suelta, Libre, Ticks, Datos, Nulo, Estados, Cuenta
<1>6. TypeOK'  BY <1>1, <1>2, <1>5 DEF TypeOK, TypeOKNodo, varsNodo
<1>7. ColaBien' /\ TrabajoBien'  BY DEF ColaBien, TrabajoBien, Existe, varsNodo
<1>8. PortalBien'  BY <1>5 DEF PortalBien, Existe, En, varsNodo
<1>9. ConsolaBien'
  <2>1. \A f \in consola' : f.clase \in {"texto", "perdida"} => 1 <= f.desde /\ f.hasta <= op'.cursor
    BY <1>1, <1>2 DEF ConsolaBien
  <2>2. \A n \in 1..op'.cursor : \E c \in {"texto", "perdida"} :
          {f.clase : f \in {g \in consola' : Cubre(g, n)}} = {c}
    BY <1>3 DEF ConsolaBien
  <2>3. \A h \in {"disponible", "fallo"} : Hito(h) \in consola' <=> Hito(h) \in consola
    BY <1>1, <1>4
  <2> QED  BY <2>1, <2>2, <2>3 DEF ConsolaBien, varsNodo, Hito
<1>10. RedBien'  BY <1>5 DEF RedBien, En
<1>11. TurnoBien'  BY <1>5 DEF TurnoBien, En
<1> QED  BY <1>6, <1>7, <1>8, <1>9, <1>10, <1>11
----------------------------------------------------------------------------
(* The tick that holds nothing.                                            *)
LEMMA NuloEsDato == Nulo \in Datos /\ Libre \in Ticks
<1>1. 0 \in Cuenta /\ {} \in SUBSET Numeros  BY MensajesNat DEF Cuenta
<1>2. Nulo \in Datos  BY <1>1 DEF Datos, Nulo, Estados
<1> QED  BY <1>2 DEF Ticks, Libre

(* A request of the tick that holds the lease is the last on its way.      *)
LEMMA EnviaBien ==
  ASSUME TypeOK, Len(red) < EnCamino, NEW tipo \in {"inicio", "estado", "lectura", "ack"}, NEW n \in Cuenta,
         NEW etapa \in {"consulta", "lee", "confirma"}, NEW datos \in Datos,
         Envia(tipo, n, etapa, datos)
  PROVE  /\ turno' \in Ticks /\ turno'.etapa = etapa /\ turno'.datos = datos /\ turno'.espera = TRUE /\ ~turno'.ack
         /\ red' \in Seq(Mensajeria) /\ Len(red') <= EnCamino /\ red' # <<>>
         /\ red'[Len(red')] = [tipo |-> tipo, n |-> n]
         /\ \A i \in 1..Len(red') :
              red'[i] = [tipo |-> tipo, n |-> n] \/ (i \in 1..Len(red) /\ red'[i] = red[i])
<1> USE EnCaminoNat DEF TypeOK, Envia
<1>1. turno' \in Ticks /\ turno'.etapa = etapa /\ turno'.datos = datos /\ turno'.espera = TRUE /\ ~turno'.ack
  BY DEF Ticks
<1> DEFINE m == [tipo |-> tipo, n |-> n]
<1>2. m \in Mensajeria  BY DEF Mensajeria
<1>3. red' = Append(red, m)  OBVIOUS
<1> HIDE DEF m
<1>4. red' \in Seq(Mensajeria) /\ Len(red') = Len(red) + 1  BY <1>2, <1>3
<1>5. red'[Len(red')] = m /\ \A i \in 1..Len(red') : i # Len(red') => i \in 1..Len(red) /\ red'[i] = red[i]
  BY <1>2, <1>3, <1>4
<1>6. red' # <<>>
  <2>1. Len(red') # 0  BY <1>4
  <2> QED  BY <2>1
<1> QED  BY <1>1, <1>4, <1>5, <1>6 DEF m

(* The beginning of a tick, and the start or the question of the executor. *)
LEMMA ReclamarBien ==
  ASSUME IInv, ReclamarEjecutor \/ ReclamarIngesta
  PROVE  IInv'
<1> USE DEF IInv
<1>1. /\ op' = op /\ consola' = consola /\ cola' = cola /\ trabajo' = trabajo /\ calma' = calma
      /\ op.estado = "abierta" /\ op.cursor \in Cuenta /\ Len(red) < EnCamino
  BY DEF ReclamarEjecutor, ReclamarIngesta, Quieto, varsNodo, Reclamable, TypeOK, Operaciones
<1>2. ColaBien' /\ TrabajoBien'  BY <1>1 DEF ColaBien, TrabajoBien, Existe
<1>3. ConsolaBien'  BY <1>1 DEF ConsolaBien, Hito, Cubre
<1>4. CASE ReclamarEjecutor
  <2>1. turno' \in Ticks /\ turno'.etapa = "decide" /\ ~turno'.espera /\ ~turno'.ack /\ red' = red
    BY <1>4, NuloEsDato DEF ReclamarEjecutor, Libre, Ticks
  <2>2. TypeOK'  BY <1>1, <2>1 DEF TypeOK, TypeOKNodo
  <2>3. PortalBien' /\ RedBien' /\ TurnoBien'
    BY <1>1, <2>1 DEF PortalBien, RedBien, TurnoBien, Existe, En
  <2> QED  BY <1>2, <1>3, <2>2, <2>3
<1>5. CASE ReclamarIngesta
  <2>1. op.pedido /\ Envia("lectura", op.cursor, "lee", Nulo)  BY <1>5 DEF ReclamarIngesta
  <2>2. /\ turno' \in Ticks /\ turno'.etapa = "lee" /\ turno'.datos = Nulo /\ turno'.espera = TRUE /\ ~turno'.ack
        /\ red' \in Seq(Mensajeria) /\ Len(red') <= EnCamino /\ red' # <<>>
        /\ red'[Len(red')] = [tipo |-> "lectura", n |-> op.cursor]
        /\ \A i \in 1..Len(red') :
             red'[i] = [tipo |-> "lectura", n |-> op.cursor] \/ (i \in 1..Len(red) /\ red'[i] = red[i])
    BY <1>1, <2>1, NuloEsDato, EnviaBien
  <2>3. TypeOK'  BY <1>1, <2>2 DEF TypeOK, TypeOKNodo
  <2>4. PortalBien'  BY <1>1, <2>1 DEF PortalBien, Existe
  <2>5. RedBien'
    <3>1. \A i \in 1..Len(red') : red'[i].tipo = "ack" => red'[i].n <= op'.cursor
      BY <1>1, <2>2 DEF RedBien
    <3> QED  BY <3>1, <1>1, <2>2 DEF RedBien
  <2>6. TurnoBien'  BY <1>1, <2>1, <2>2 DEF TurnoBien, Llego, Nulo
  <2> QED  BY <1>2, <1>3, <2>3, <2>4, <2>5, <2>6
<1> QED  BY <1>4, <1>5

(* An order that is closed as failed.                                      *)
LEMMA FracasaBien ==
  ASSUME IInv, Fracasa, op.estado = "abierta"
  PROVE  IInv'
<1> USE DEF IInv
<1> DEFINE filas == IF op.pedido THEN {} ELSE {Hito("fallo")}
<1>1. /\ consola' = consola \cup filas
      /\ cola' = cola /\ trabajo' = trabajo /\ calma' = calma /\ red' = red /\ turno' = Libre
      /\ op' = [op EXCEPT !.estado = "fallida"]
  BY DEF Fracasa, Escribe, Suelta, Quieto, varsNodo
<1>2. /\ op' \in Operaciones /\ op'.estado = "fallida" /\ op'.pedido = op.pedido
      /\ op'.cursor = op.cursor /\ op'.final = op.final /\ op.pedido \in BOOLEAN
  BY <1>1 DEF TypeOK, Operaciones
<1>3. \A f \in filas : f \in Fragmentos /\ f.clase \notin {"texto", "perdida"}
  BY MensajesNat DEF Hito, Fragmentos, Cuenta
<1>4. \A n : {g \in consola' : Cubre(g, n)} = {g \in consola : Cubre(g, n)}
  <2> HIDE DEF filas
  <2> QED  BY <1>1, <1>3, CubiertasIgual
<1>5. /\ Hito("disponible") \in consola' => Hito("disponible") \in consola
      /\ Hito("fallo") \in consola' /\ op.pedido => Hito("fallo") \in consola
  BY <1>1 DEF Hito
<1> HIDE DEF filas
<1>6. turno'.etapa = "libre" /\ ~turno'.espera /\ ~turno'.ack  BY <1>1 DEF Libre
<1>7. TypeOK'  BY <1>1, <1>2, <1>3, NuloEsDato DEF TypeOK, TypeOKNodo
<1>8. ColaBien' /\ TrabajoBien'  BY <1>1 DEF ColaBien, TrabajoBien, Existe
<1>9. PortalBien'  BY <1>1, <1>2, <1>6 DEF PortalBien, Existe, En
<1>10. ConsolaBien'
  <2>1. \A f \in consola' : f.clase \in {"texto", "perdida"} => 1 <= f.desde /\ f.hasta <= op'.cursor
    BY <1>1, <1>2, <1>3 DEF ConsolaBien
  <2>2. \A n \in 1..op'.cursor : \E c \in {"texto", "perdida"} :
          {f.clase : f \in {g \in consola' : Cubre(g, n)}} = {c}
    BY <1>4, <1>2 DEF ConsolaBien
  <2>3. Hito("disponible") \notin consola'  BY <1>5 DEF ConsolaBien
  <2> QED  BY <2>1, <2>2, <2>3, <1>1, <1>2, <1>5 DEF ConsolaBien, Hito
<1>11. RedBien' /\ TurnoBien'  BY <1>1, <1>2, <1>6 DEF RedBien, TurnoBien, En
<1> QED  BY <1>7, <1>8, <1>9, <1>10, <1>11

(* The executor, up to its request.                                        *)
LEMMA DecidirBien ==
  ASSUME IInv, Decidir
  PROVE  IInv'
<1> USE DEF IInv
<1>1. op.estado = "abierta"  BY DEF Decidir, PortalBien, En
<1>2. CASE ~op.cubierta  BY <1>1, <1>2, FracasaBien DEF Decidir
<1>3. CASE op.cubierta
  <2> DEFINE tipo == IF op.pedido THEN "estado" ELSE "inicio"
  <2>1. /\ op' = [op EXCEPT !.pedido = TRUE] /\ Envia(tipo, 0, "consulta", Nulo)
        /\ consola' = consola /\ cola' = cola /\ trabajo' = trabajo /\ calma' = calma
    BY <1>3 DEF Decidir, Quieto, varsNodo
  <2>2. 0 \in Cuenta /\ tipo \in {"inicio", "estado", "lectura", "ack"} /\ tipo # "ack"
    BY MensajesNat DEF Cuenta
  <2> HIDE DEF tipo
  <2>3. /\ op' \in Operaciones /\ op'.estado = "abierta" /\ op'.pedido
        /\ op'.cursor = op.cursor /\ op'.final = op.final
    BY <1>1, <2>1 DEF TypeOK, Operaciones
  <2>4. Len(red) < EnCamino /\ ~turno.espera  BY DEF Decidir, RedBien, En
  <2>5. /\ turno' \in Ticks /\ turno'.etapa = "consulta" /\ turno'.espera = TRUE /\ ~turno'.ack
        /\ red' \in Seq(Mensajeria) /\ Len(red') <= EnCamino /\ red' # <<>>
        /\ \A i \in 1..Len(red') :
             red'[i] = [tipo |-> tipo, n |-> 0] \/ (i \in 1..Len(red) /\ red'[i] = red[i])
    <3>1. TypeOK /\ Nulo \in Datos  BY NuloEsDato
    <3> HIDE DEF IInv
    <3>2. /\ turno' \in Ticks /\ turno'.etapa = "consulta" /\ turno'.datos = Nulo /\ turno'.espera = TRUE /\ ~turno'.ack
          /\ red' \in Seq(Mensajeria) /\ Len(red') <= EnCamino /\ red' # <<>>
          /\ red'[Len(red')] = [tipo |-> tipo, n |-> 0]
          /\ \A i \in 1..Len(red') :
               red'[i] = [tipo |-> tipo, n |-> 0] \/ (i \in 1..Len(red) /\ red'[i] = red[i])
      BY <2>1, <2>2, <2>4, <3>1, EnviaBien
    <3> QED  BY <3>2
  <2>6. TypeOK'  BY <2>1, <2>3, <2>5 DEF TypeOK, TypeOKNodo
  <2>7. ColaBien' /\ TrabajoBien'  BY <2>1 DEF ColaBien, TrabajoBien, Existe
  <2>8. PortalBien'  BY <2>1, <2>3, <2>5 DEF PortalBien, Existe, En
  <2>9. ConsolaBien'
    <3>1. Hito("disponible") \notin consola /\ (Hito("fallo") \in consola => op.pedido)
      BY <1>1 DEF ConsolaBien, TypeOK, Operaciones
    <3> QED  BY <3>1, <2>1, <2>3 DEF ConsolaBien, Hito, Cubre
  <2>10. RedBien'
    <3>1. \A i \in 1..Len(red') : red'[i].tipo = "ack" => red'[i].n <= op'.cursor
      BY <2>1, <2>2, <2>3, <2>5 DEF RedBien
    <3> QED  BY <3>1, <2>5 DEF RedBien, En
  <2>11. TurnoBien'  BY <2>5 DEF TurnoBien, En
  <2> QED  BY <2>6, <2>7, <2>8, <2>9, <2>10, <2>11
<1> QED  BY <1>2, <1>3 DEF TypeOK, Operaciones

(* The ends of a tick that record at most that it is checking.             *)
LEMMA AnotarBien ==
  ASSUME IInv, Anotar \/ Continuar \/ Abandonar
  PROVE  IInv'
<1> USE DEF IInv
<1>1. Suelta /\ UNCHANGED <<varsNodo, red, calma>>
  BY DEF Anotar, Continuar, Abandonar, Asentar, Quieto
<1>2. consola' = consola \/ consola' = consola \cup {Hito("comprobando")}
  BY DEF Anotar, Continuar, Abandonar, Escribe
<1>3. op' = op \/ op' = [op EXCEPT !.sinAck = ~turno.ack]
  BY DEF Anotar, Continuar, Abandonar, Asentar
<1>4. /\ op' \in Operaciones /\ op'.estado = op.estado /\ op'.pedido = op.pedido
      /\ op'.cursor = op.cursor /\ op'.final = op.final
  BY <1>3 DEF TypeOK, Operaciones, Ticks
<1> QED  BY <1>1, <1>2, <1>4, SueltaBien

(* The period of validity ends, or faults do.                              *)
LEMMA EntornoBien ==
  ASSUME IInv, Descubrir \/ Calmar
  PROVE  IInv'
<1> USE DEF IInv
<1>1. /\ cola' = cola /\ trabajo' = trabajo /\ consola' = consola /\ turno' = turno /\ red' = red
      /\ calma' \in BOOLEAN /\ (op' = op \/ op' = [op EXCEPT !.cubierta = FALSE])
  BY DEF Descubrir, Calmar, Quieto, varsNodo, TypeOK
<1>2. /\ op' \in Operaciones /\ op'.estado = op.estado /\ op'.pedido = op.pedido
      /\ op'.cursor = op.cursor /\ op'.final = op.final
  BY <1>1 DEF TypeOK, Operaciones
<1>3. TypeOK'  BY <1>1, <1>2 DEF TypeOK, TypeOKNodo
<1>4. ColaBien' /\ TrabajoBien'  BY <1>1 DEF ColaBien, TrabajoBien, Existe
<1>5. PortalBien' /\ RedBien'  BY <1>1, <1>2 DEF PortalBien, RedBien, Existe, En
<1>6. ConsolaBien'  BY <1>1, <1>2 DEF ConsolaBien, Hito, Cubre
<1>7. TurnoBien'  BY <1>1, <1>2 DEF TurnoBien, LecturaBien, Llego, Nulo, En
<1> QED  BY <1>3, <1>4, <1>5, <1>6, <1>7

(* A request is lost: those behind it, and whose they are, stay.           *)
LEMMA PerderBien ==
  ASSUME IInv, Perder
  PROVE  IInv'
<1> USE DEF IInv
<1>1. /\ op' = op /\ consola' = consola /\ cola' = cola /\ trabajo' = trabajo /\ calma' = calma
      /\ red # <<>> /\ red' = Tail(red) /\ turno' = [turno EXCEPT !.espera = @ /\ Len(red) > 1]
  BY DEF Perder, Quieto, varsNodo
<1>2. red \in Seq(Mensajeria) /\ Len(red) \in Nat /\ Len(red) <= EnCamino  BY DEF TypeOK
<1>3. Len(red) >= 1 /\ red' \in Seq(Mensajeria) /\ Len(red') = Len(red) - 1  BY <1>1, <1>2
<1>4. \A i \in 1..Len(red') : i + 1 \in 1..Len(red) /\ red'[i] = red[i + 1]  BY <1>1, <1>2, <1>3
<1> DEFINE sigue == turno.espera /\ Len(red) > 1
<1>5. /\ turno' \in Ticks /\ turno'.etapa = turno.etapa /\ turno'.datos = turno.datos /\ turno'.ack = turno.ack
      /\ turno'.espera = sigue /\ sigue \in BOOLEAN
  <2>1. sigue \in BOOLEAN  BY <1>2 DEF TypeOK, Ticks
  <2>2. turno' = [turno EXCEPT !.espera = sigue]  BY <1>1
  <2> HIDE DEF sigue
  <2> QED  BY <2>1, <2>2 DEF TypeOK, Ticks
<1>6. TypeOK'  BY <1>1, <1>2, <1>3, <1>5, EnCaminoNat DEF TypeOK, TypeOKNodo
<1>7. ColaBien' /\ TrabajoBien'  BY <1>1 DEF ColaBien, TrabajoBien, Existe
<1>8. PortalBien'  BY <1>1, <1>5 DEF PortalBien, Existe, En
<1>9. ConsolaBien'  BY <1>1 DEF ConsolaBien, Hito, Cubre
<1>10. RedBien'
  <2>1. \A i \in 1..Len(red') : red'[i].tipo = "ack" => red'[i].n <= op'.cursor
    BY <1>1, <1>4 DEF RedBien
  <2>2. sigue => red' # <<>> /\ red'[Len(red')] = red[Len(red)] /\ turno.espera
    <3>1. SUFFICES ASSUME sigue PROVE red' # <<>> /\ red'[Len(red')] = red[Len(red)]  OBVIOUS
    <3>2. Len(red') \in 1..Len(red') /\ Len(red') + 1 = Len(red)  BY <3>1, <1>3, <1>2
    <3>3. red' # <<>>
      <4>1. Len(red') # 0  BY <3>2
      <4> QED  BY <4>1
    <3> QED  BY <3>2, <3>3, <1>4
  <2>3. Len(red') < EnCamino  BY <1>2, <1>3, EnCaminoNat
  <2> HIDE DEF sigue
  <2> QED  BY <1>1, <1>5, <2>1, <2>2, <2>3 DEF RedBien, En
<1>11. TurnoBien'  BY <1>1, <1>5 DEF TurnoBien, LecturaBien, Llego, Nulo, En
<1> QED  BY <1>6, <1>7, <1>8, <1>9, <1>10, <1>11

(* The node serves a request.                                              *)
LEMMA AtenderBien ==
  ASSUME IInv, NEW i \in 1..Len(red), Atender(i)
  PROVE  IInv'
<1> USE DEF IInv
<1> DEFINE m == red[i]
<1>1. /\ ~Desconoce(m) /\ (IF Existe THEN UNCHANGED trabajo ELSE Admite)
      /\ cola' = IF m.tipo = "ack" THEN Purgada(m.n) ELSE cola
      /\ red' = SubSeq(red, i + 1, Len(red))
      /\ IF EsSuya(i) THEN Responde(m) ELSE UNCHANGED turno
      /\ op' = op /\ consola' = consola /\ calma' = calma
  BY DEF Atender
<1>2. red \in Seq(Mensajeria) /\ Len(red) \in Nat /\ Len(red) <= EnCamino /\ m \in Mensajeria
  BY DEF TypeOK
<1>3. /\ red' \in Seq(Mensajeria) /\ Len(red') = Len(red) - i
      /\ \A j \in 1..Len(red') : i + j \in 1..Len(red) /\ red'[j] = red[i + j]
      /\ i < Len(red) => red' # <<>> /\ red'[Len(red')] = red[Len(red)]
  BY <1>1, <1>2, RestoDeRed
<1>4. m.tipo = "ack" => m.n <= op.cursor /\ m.n \in Cuenta  BY <1>2 DEF RedBien, Mensajeria
<1> HIDE DEF m
<1>5. op.cursor \in Nat /\ cola.ultimo \in Nat /\ op.cursor <= cola.ultimo
  BY MensajesNat DEF TypeOK, TypeOKNodo, Colas, Operaciones, Cuenta, PortalBien
<1>6. /\ cola' \in Colas /\ ColaBien' /\ cola'.ultimo = cola.ultimo /\ cola'.ack <= op.cursor
  <2>1. CASE m.tipo = "ack"
    <3>1. m.n \in Cuenta /\ m.n <= cola.ultimo /\ cola' = Purgada(m.n)
      BY <2>1, <1>1, <1>4, <1>5, MensajesNat DEF Cuenta
    <3> HIDE DEF IInv
    <3>2. TypeOKNodo /\ ColaBien /\ cola.ack <= op.cursor  BY DEF IInv, TypeOK, PortalBien
    <3>3. /\ cola' \in Colas /\ ColaBien' /\ cola'.ultimo = cola.ultimo
          /\ cola'.ack = IF m.n <= cola.ack THEN cola.ack ELSE m.n
      BY <3>1, <3>2, PurgadaBien
    <3> QED  BY <3>2, <3>3, <2>1, <1>4
  <2>2. CASE m.tipo # "ack"
    <3>1. cola' = cola  BY <1>1, <2>2
    <3> QED  BY <3>1 DEF TypeOK, TypeOKNodo, ColaBien, PortalBien
  <2> QED  BY <2>1, <2>2
<1>7. /\ trabajo' \in Manifiestos /\ Existe'
      /\ Existe => trabajo' = trabajo
      /\ ~Existe => op.final.estado \notin Finales /\ cola.ultimo = 0
      /\ trabajo'.estado \in Finales => trabajo'.terminado \/ ~trabajo'.instala
  <2>1. CASE Existe
    <3>1. trabajo' = trabajo  BY <1>1, <2>1
    <3> QED  BY <2>1, <3>1 DEF TypeOK, TypeOKNodo, TrabajoBien, Existe
  <2>2. CASE ~Existe
    <3>1. Admite /\ op.final.estado \notin Finales /\ cola.ultimo = 0
      BY <1>1, <2>2 DEF Existe, PortalBien, Finales, TrabajoBien
    <3> QED  BY <2>2, <3>1 DEF Admite, Manifiestos, Estados, Finales, Existe
  <2> QED  BY <2>1, <2>2
<1>8. op.pedido  BY <1>2, MensajesNat DEF PortalBien
<1>9. /\ turno' \in Ticks /\ turno'.etapa = turno.etapa
      /\ turno'.espera => turno.espera /\ i < Len(red) /\ turno'.ack = turno.ack
      /\ En("lee") /\ Llego' => ~turno'.espera /\ (LecturaBien(turno.datos))'
  <2>1. CASE EsSuya(i)
    <3>1. Responde(m) /\ turno.espera /\ i = Len(red)  BY <1>1, <2>1 DEF EsSuya
    <3>2. CASE m.tipo = "ack"
      <4>1. turno' = [turno EXCEPT !.ack = TRUE, !.espera = FALSE]  BY <3>1, <3>2 DEF Responde
      <4>2. ~En("lee")  BY <3>1, <3>2 DEF RedBien, m
      <4> QED  BY <4>1, <4>2 DEF TypeOK, Ticks
    <3>3. CASE m.tipo = "lectura"
      <4>1. PICK d \in Lecturas(m.n) : turno' = [turno EXCEPT !.datos = d, !.espera = FALSE]
        BY <3>1, <3>3 DEF Responde
      <4>2. d \in Datos  BY <1>2, LecturasTipo DEF Mensajeria
      <4>3. turno' \in Ticks /\ turno'.etapa = turno.etapa /\ ~turno'.espera /\ turno'.datos = d
        BY <4>1, <4>2 DEF TypeOK, Ticks
      <4>4. ASSUME En("lee") PROVE (LecturaBien(turno.datos))'
        <5>1. m.n = op.cursor  BY <3>1, <4>4 DEF RedBien, m
        <5>2. LecturaBien(d)  BY <5>1, LecturasBien
        <5>3. trabajo' = trabajo  BY <1>1, <3>3, <1>7 DEF Desconoce
        <5> QED  BY <4>3, <5>2, <5>3, <1>1, <1>6 DEF LecturaBien
      <4> QED  BY <4>3, <4>4
    <3>4. CASE m.tipo \notin {"ack", "lectura"}
      <4>1. turno' = [turno EXCEPT !.datos = [Nulo EXCEPT !.estado = trabajo'.estado], !.espera = FALSE]
        BY <3>1, <3>4 DEF Responde
      <4>2. ~En("lee")  BY <3>1, <3>4 DEF RedBien, m
      <4>3. [Nulo EXCEPT !.estado = trabajo'.estado] \in Datos
        BY <1>7, NuloEsDato DEF Manifiestos, Datos
      <4> QED  BY <4>1, <4>2, <4>3 DEF TypeOK, Ticks
    <3> QED  BY <3>2, <3>3, <3>4
  <2>2. CASE ~EsSuya(i)
    <3>1. turno' = turno /\ (turno.espera => i < Len(red))  BY <1>1, <1>2, <2>2 DEF EsSuya
    <3>2. ASSUME En("lee"), Llego PROVE ~turno.espera /\ (LecturaBien(turno.datos))'
      <4>1. ~turno.espera /\ LecturaBien(turno.datos)  BY <3>2 DEF TurnoBien
      <4>2. turno.datos.estado \in Finales => trabajo' = trabajo
        BY <4>1, <1>7 DEF LecturaBien, Existe, Finales
      <4> QED  BY <4>1, <4>2, <3>1, <1>1, <1>6 DEF LecturaBien
    <3> QED  BY <3>1, <3>2 DEF TypeOK, Llego, Nulo
  <2> QED  BY <2>1, <2>2
<1>10. TypeOK'
  <2>1. Len(red') <= EnCamino  BY <1>2, <1>3, EnCaminoNat
  <2>2. turno' \in Ticks /\ red' \in Seq(Mensajeria)  BY <1>3, <1>9
  <2>3. TypeOKNodo'  BY <1>6, <1>7 DEF TypeOKNodo
  <2> QED  BY <1>1, <2>1, <2>2, <2>3 DEF TypeOK
<1>11. TrabajoBien'  BY <1>7 DEF TrabajoBien
<1>12. PortalBien'
  <2>1. op.final.estado \in Finales => trabajo' = trabajo  BY <1>7
  <2> QED  BY <2>1, <1>1, <1>5, <1>6, <1>8, <1>9 DEF PortalBien, En
<1>13. ConsolaBien'  BY <1>1, <1>6 DEF ConsolaBien, Hito, Cubre
<1>14. RedBien'
  <2>1. \A j \in 1..Len(red') : red'[j].tipo = "ack" => red'[j].n <= op'.cursor
    BY <1>1, <1>3 DEF RedBien
  <2>2. Len(red') < EnCamino  BY <1>2, <1>3, EnCaminoNat
  <2> QED  BY <2>1, <2>2, <1>1, <1>3, <1>9 DEF RedBien, En
<1>15. TurnoBien'  BY <1>1, <1>8, <1>9 DEF TurnoBien, En
<1> QED  BY <1>6, <1>10, <1>11, <1>12, <1>13, <1>14, <1>15

(* What the node answered enters the console, and its purge is asked for.  *)
LEMMA IngerirBien ==
  ASSUME IInv, Ingerir
  PROVE  IInv'
<1> DEFINE d == turno.datos
           siguiente == [Nulo EXCEPT !.estado = d.estado, !.ultimo = d.ultimo]
<1>1. /\ d \in Datos /\ LecturaBien(d) /\ op.pedido /\ op.estado = "abierta" /\ Len(red) < EnCamino
      /\ TypeOK /\ PortalBien /\ ConsolaBien
  BY DEF IInv, Ingerir, TurnoBien, PortalBien, RedBien, TypeOK, Ticks, En
<1>2. /\ consola' = consola \cup Piezas(d) /\ op' = Ingerida(d)
      /\ Envia("ack", Fin(d), "confirma", siguiente)
      /\ cola' = cola /\ trabajo' = trabajo /\ calma' = calma
  BY DEF Ingerir, Escribe, HastaConfirmada, Quieto, varsNodo
<1>3. siguiente \in Datos  BY <1>1, NuloEsDato DEF Datos
<1> HIDE DEF d, siguiente
<1>4. /\ Fin(d) \in Cuenta /\ op.cursor <= Fin(d) /\ Fin(d) <= cola.ultimo /\ Seguidas(d)
      /\ \A p \in Piezas(d) : /\ p \in Fragmentos /\ p.clase \in {"texto", "perdida"}
                              /\ op.cursor < p.desde /\ p.hasta <= Fin(d)
  BY <1>1, PiezasBien
<1>5. /\ turno' \in Ticks /\ turno'.etapa = "confirma" /\ turno'.espera = TRUE /\ ~turno'.ack
      /\ red' \in Seq(Mensajeria) /\ Len(red') <= EnCamino /\ red' # <<>>
      /\ \A i \in 1..Len(red') :
           red'[i] = [tipo |-> "ack", n |-> Fin(d)] \/ (i \in 1..Len(red) /\ red'[i] = red[i])
  BY <1>1, <1>2, <1>3, <1>4, EnviaBien
<1>6. UltimaVista(d) \in [estado : Estados, ultimo : Cuenta]
  <2>1. 0 \in Cuenta /\ d.estado \in Estados /\ d.ultimo \in Cuenta  BY <1>1, MensajesNat DEF Cuenta, Datos
  <2> QED  BY <2>1 DEF UltimaVista, Estados
<1>7. /\ op' \in Operaciones /\ op'.estado = "abierta" /\ op'.pedido /\ op'.cursor = Fin(d)
      /\ op'.final = UltimaVista(d)
  BY <1>1, <1>2, <1>4, <1>6 DEF Ingerida, TypeOK, Operaciones
<1>8. /\ d.estado \in Finales => op'.final = [estado |-> d.estado, ultimo |-> d.ultimo]
      /\ d.estado \notin Finales => op'.final.estado \notin Finales
  BY <1>7 DEF UltimaVista, Finales
<1>9. op.cursor \in Nat /\ Fin(d) \in Nat /\ cola.ultimo \in Nat /\ cola.ack \in Nat
  BY <1>1, <1>4, MensajesNat DEF TypeOK, TypeOKNodo, Colas, Operaciones, Cuenta
<1>10. TypeOK'  BY <1>1, <1>2, <1>4, <1>5, <1>7 DEF TypeOK, TypeOKNodo
<1>11. ColaBien' /\ TrabajoBien'  BY <1>2 DEF IInv, ColaBien, TrabajoBien, Existe
<1>12. PortalBien'
  <2>1. cola.ack <= Fin(d)  BY <1>1, <1>4, <1>9 DEF PortalBien
  <2>2. op'.final.estado \in Finales => trabajo.estado = op'.final.estado /\ op'.final.ultimo = cola.ultimo
    BY <1>1, <1>8 DEF LecturaBien
  <2> QED  BY <2>1, <2>2, <1>2, <1>4, <1>7 DEF PortalBien
<1>13. ConsolaBien'
  <2>1. \A f \in consola' : f.clase \in {"texto", "perdida"} => 1 <= f.desde /\ f.hasta <= op'.cursor
    <3>1. SUFFICES ASSUME NEW f \in consola', f.clase \in {"texto", "perdida"}
                   PROVE  1 <= f.desde /\ f.hasta <= op'.cursor
      OBVIOUS
    <3>2. f \in Fragmentos  BY <1>10 DEF TypeOK
    <3>3. f.desde \in Nat /\ f.hasta \in Nat  BY <3>2, MensajesNat DEF Fragmentos, Cuenta
    <3>4. CASE f \in consola
      <4>1. 1 <= f.desde /\ f.hasta <= op.cursor  BY <3>1, <3>4, <1>1 DEF ConsolaBien
      <4> QED  BY <4>1, <3>3, <1>4, <1>7, <1>9
    <3>5. CASE f \in Piezas(d)
      <4>1. op.cursor < f.desde /\ f.hasta <= Fin(d)  BY <3>5, <1>4
      <4> QED  BY <4>1, <3>3, <1>7, <1>9
    <3> QED  BY <3>4, <3>5, <1>2
  <2>2. \A n \in 1..op'.cursor : \E c \in {"texto", "perdida"} :
          {f.clase : f \in {g \in consola' : Cubre(g, n)}} = {c}
    <3>1. SUFFICES ASSUME NEW n \in 1..Fin(d)
                   PROVE  \E c \in {"texto", "perdida"} : {f.clase : f \in {g \in consola' : Cubre(g, n)}} = {c}
      BY <1>7
    <3>2. CASE n <= op.cursor
      <4>1. \A p \in Piezas(d) : ~Cubre(p, n)
        <5>1. \A p \in Piezas(d) : p.desde \in Nat  BY <1>4, MensajesNat DEF Fragmentos, Cuenta
        <5> QED  BY <5>1, <3>2, <1>4, <1>9 DEF Cubre
      <4>2. {g \in consola' : Cubre(g, n)} = {g \in consola : Cubre(g, n)}  BY <4>1, <1>2
      <4>3. n \in 1..op.cursor  BY <3>2, <1>9
      <4> QED  BY <4>2, <4>3, <1>1 DEF ConsolaBien
    <3>3. CASE op.cursor < n
      <4>1. \A f \in consola : ~Cubre(f, n)
        <5>1. \A f \in consola : f.hasta \in Nat  BY <1>1, MensajesNat DEF TypeOK, Fragmentos, Cuenta
        <5> QED  BY <5>1, <3>3, <1>1, <1>9 DEF Cubre, ConsolaBien
      <4>2. n \in op.cursor + 1..Fin(d)  BY <3>3, <1>9
      <4>3. PICK p \in Piezas(d) : Cubre(p, n) /\ \A q \in Piezas(d) : Cubre(q, n) => q = p
        BY <4>2, <1>4 DEF Seguidas
      <4>4. {g \in consola' : Cubre(g, n)} = {p}  BY <4>1, <4>3, <1>2
      <4>5. {f.clase : f \in {p}} = {p.clase} /\ p.clase \in {"texto", "perdida"}  BY <1>4
      <4> QED  BY <4>4, <4>5
    <3> QED  BY <3>2, <3>3, <1>9
  <2>3. \A h \in {"disponible", "fallo"} : Hito(h) \in consola' => Hito(h) \in consola
    BY <1>2, <1>4 DEF Hito
  <2>4. Hito("disponible") \notin consola'  BY <2>3, <1>1 DEF ConsolaBien
  <2>5. Hito("fallo") \in consola' => op'.final.estado = "fallido" /\ op'.cursor = cola.ultimo
    <3>1. SUFFICES ASSUME Hito("fallo") \in consola
                   PROVE  op'.final.estado = "fallido" /\ op'.cursor = cola.ultimo
      BY <2>3
    <3>2. op.final.estado = "fallido" /\ op.cursor = cola.ultimo  BY <3>1, <1>1 DEF ConsolaBien
    <3>3. d.estado = "fallido"  BY <3>2, <1>1 DEF LecturaBien, Finales
    <3> QED  BY <3>2, <3>3, <1>4, <1>7, <1>8, <1>9 DEF Finales
  <2> QED  BY <2>1, <2>2, <2>4, <2>5, <1>2, <1>7 DEF ConsolaBien, Hito
<1>14. RedBien'
  <2>1. \A i \in 1..Len(red') : red'[i].tipo = "ack" => red'[i].n <= op'.cursor
    <3>1. SUFFICES ASSUME NEW i \in 1..Len(red'), red'[i].tipo = "ack" PROVE red'[i].n <= Fin(d)
      BY <1>7
    <3>2. CASE i \in 1..Len(red) /\ red'[i] = red[i]
      <4>1. red[i] \in Mensajeria  BY <3>2, <1>1 DEF TypeOK
      <4>2. red[i].n \in Nat /\ red[i].n <= op.cursor
        BY <3>1, <3>2, <4>1, MensajesNat DEF IInv, RedBien, Mensajeria, Cuenta
      <4> QED  BY <3>2, <4>2, <1>4, <1>9
    <3>3. CASE red'[i] = [tipo |-> "ack", n |-> Fin(d)]
      BY <3>3, <1>9
    <3> QED  BY <3>2, <3>3, <1>5
  <2> QED  BY <2>1, <1>5 DEF RedBien, En
<1>15. TurnoBien'  BY <1>5 DEF TurnoBien, En
<1> QED  BY <1>10, <1>11, <1>12, <1>13, <1>14, <1>15 DEF IInv

(* The end is announced, or the tick goes on to it.                        *)
LEMMA AnunciaBien ==
  ASSUME IInv, NEW h \in {"comprobando", "fallo", "disponible"},
         consola' = consola \cup {Hito(h)}, UNCHANGED <<varsNodo, red, calma>>,
         op' \in Operaciones, op'.pedido = op.pedido, op'.cursor = op.cursor, op'.final = op.final,
         turno' \in Ticks, ~turno'.espera, ~En("lee")', op.pedido, op.estado = "abierta",
         \/ op'.estado = "abierta" /\ turno'.etapa \in {"falla", "verifica"} /\ Len(red) < EnCamino
         \/ turno'.etapa = "libre",
         h = "disponible" => op'.estado = "confirmada" /\ op.final.estado = "confirmado" /\ op.cursor = cola.ultimo,
         h = "fallo" => op.final.estado = "fallido" /\ op.cursor = cola.ultimo
  PROVE  IInv'
<1> USE DEF IInv
<1>1. cola' = cola /\ trabajo' = trabajo /\ red' = red  BY DEF varsNodo
<1>2. Hito(h) \in Fragmentos /\ Hito(h).clase \notin {"texto", "perdida"}
  BY MensajesNat DEF Hito, Fragmentos, Cuenta
<1>3. \A n : {g \in consola' : Cubre(g, n)} = {g \in consola : Cubre(g, n)}
  BY <1>2 DEF Cubre
<1>4. TypeOK'  BY <1>1, <1>2 DEF TypeOK, TypeOKNodo
<1>5. ColaBien' /\ TrabajoBien'  BY <1>1 DEF ColaBien, TrabajoBien, Existe
<1>6. PortalBien'  BY <1>1 DEF PortalBien, Existe, En
<1>7. ConsolaBien'
  <2>1. \A f \in consola' : f.clase \in {"texto", "perdida"} => 1 <= f.desde /\ f.hasta <= op'.cursor
    BY <1>2 DEF ConsolaBien
  <2>2. \A n \in 1..op'.cursor : \E c \in {"texto", "perdida"} :
          {f.clase : f \in {g \in consola' : Cubre(g, n)}} = {c}
    BY <1>3 DEF ConsolaBien
  <2>3. \A k \in {"disponible", "fallo"} : Hito(k) \in consola' => k = h \/ Hito(k) \in consola
    BY DEF Hito
  <2>4. Hito("disponible") \in consola' => h = "disponible"  BY <2>3 DEF ConsolaBien
  <2>5. Hito("fallo") \in consola' => op.final.estado = "fallido" /\ op.cursor = cola.ultimo
    BY <2>3 DEF ConsolaBien
  <2> QED  BY <2>1, <2>2, <2>4, <2>5, <1>1 DEF ConsolaBien, Hito
<1>8. RedBien'  BY <1>1 DEF RedBien, En
<1>9. TurnoBien'  BY DEF TurnoBien
<1> QED  BY <1>4, <1>5, <1>6, <1>7, <1>8, <1>9

(* The three steps that announce: each has what AnunciaBien asks for.      *)
LEMMA DesenlaceBien ==
  ASSUME IInv, AsentarFallo \/ AsentarExito \/ Verificar
  PROVE  IInv'
<1>1. UNCHANGED <<varsNodo, red, calma>> /\ turno \in Ticks /\ op \in Operaciones
  BY DEF AsentarFallo, AsentarExito, Verificar, Asentar, Quieto, IInv, TypeOK
<1>2. op.estado = "abierta" /\ op.pedido
  BY DEF AsentarFallo, AsentarExito, Verificar, Asentar, IInv, PortalBien, En
<1>3. \A e \in Finales : Admisible(e) => op.final.estado = e /\ op.cursor = cola.ultimo
  BY MensajesNat DEF Admisible, IInv, PortalBien, TypeOK, TypeOKNodo, Colas, Operaciones, Cuenta
<1>4. CASE AsentarFallo \/ AsentarExito
  <2>1. /\ op' = [op EXCEPT !.sinAck = ~turno.ack] /\ turno.ack
        /\ \/ AsentarFallo /\ consola' = consola \cup {Hito("fallo")} /\ turno' = [turno EXCEPT !.etapa = "falla"]
           \/ consola' = consola \cup {Hito("comprobando")} /\ turno' = [turno EXCEPT !.etapa = "verifica"]
    BY <1>4 DEF AsentarFallo, AsentarExito, Asentar, Falla, Logra, Escribe
  <2>2. /\ op' \in Operaciones /\ op'.estado = "abierta" /\ op'.pedido = op.pedido
        /\ op'.cursor = op.cursor /\ op'.final = op.final
    BY <1>1, <1>2, <2>1 DEF Operaciones, Ticks
  <2>3. /\ turno' \in Ticks /\ turno'.etapa \in {"falla", "verifica"} /\ turno'.espera = turno.espera
        /\ ~En("lee")'
    BY <1>1, <2>1 DEF Ticks, En
  <2>4. ~turno.espera /\ Len(red) < EnCamino
    BY <1>4, <2>1 DEF IInv, RedBien, AsentarFallo, AsentarExito, Asentar, En
  <2>5. CASE AsentarFallo /\ consola' = consola \cup {Hito("fallo")}
    <3>1. op.final.estado = "fallido" /\ op.cursor = cola.ultimo
      BY <1>3, <2>5 DEF AsentarFallo, Falla, Finales
    <3> QED  BY <1>1, <1>2, <2>2, <2>3, <2>4, <2>5, <3>1, AnunciaBien
  <2>6. CASE consola' = consola \cup {Hito("comprobando")}
    BY <1>1, <1>2, <2>2, <2>3, <2>4, <2>6, AnunciaBien
  <2> QED  BY <2>1, <2>5, <2>6
<1>5. CASE Verificar
  <2>1. /\ op' = [op EXCEPT !.estado = "confirmada"] /\ turno' = Libre
        /\ consola' = consola \cup {Hito("disponible")}
    BY <1>5 DEF Verificar, Escribe, Suelta
  <2>2. /\ op' \in Operaciones /\ op'.estado = "confirmada" /\ op'.pedido = op.pedido
        /\ op'.cursor = op.cursor /\ op'.final = op.final
    BY <1>1, <2>1 DEF Operaciones
  <2>3. turno' \in Ticks /\ turno'.etapa = "libre" /\ ~turno'.espera /\ ~En("lee")'
    BY <2>1, NuloEsDato DEF Libre, En
  <2>4. op.final.estado = "confirmado" /\ op.cursor = cola.ultimo
    BY <1>3, <1>5 DEF Verificar, Finales
  <2> QED  BY <1>1, <1>2, <2>1, <2>2, <2>3, <2>4, AnunciaBien
<1> QED  BY <1>4, <1>5

(* One case for each action.                                               *)
LEMMA PasoBien ==
  ASSUME IInv, [Next]_vars
  PROVE  IInv'
<1>1. CASE Instala /\ UNCHANGED <<op, consola, turno, red, calma>>  BY <1>1, InstalaBien
<1>2. CASE ReclamarEjecutor \/ ReclamarIngesta  BY <1>2, ReclamarBien
<1>3. CASE Tick
  <2>1. CASE Decidir  BY <2>1, DecidirBien
  <2>2. CASE Anotar \/ Continuar \/ Abandonar  BY <2>2, AnotarBien
  <2>3. CASE Ingerir  BY <2>3, IngerirBien
  <2>4. CASE AsentarFallo \/ AsentarExito \/ Verificar  BY <2>4, DesenlaceBien
  <2>5. CASE Fallar
    <3>1. op.estado = "abierta"  BY <2>5 DEF Fallar, IInv, PortalBien, En
    <3> QED  BY <2>5, <3>1, FracasaBien DEF Fallar
  <2>6. CASE Perder  BY <2>6, PerderBien
  <2>7. CASE \E i \in 1..Len(red) : Atender(i)  BY <2>7, AtenderBien
  <2> QED  BY <1>3, <2>1, <2>2, <2>3, <2>4, <2>5, <2>6, <2>7 DEF Tick
<1>4. CASE Descubrir \/ Calmar  BY <1>4, EntornoBien
<1>5. CASE UNCHANGED vars
  <2> USE <1>5 DEF vars, varsNodo
  <2>1. TypeOK' /\ ColaBien' /\ TrabajoBien'
    BY DEF IInv, TypeOK, TypeOKNodo, ColaBien, TrabajoBien, Existe
  <2>2. PortalBien' /\ ConsolaBien' /\ RedBien'
    BY DEF IInv, PortalBien, ConsolaBien, RedBien, Existe, En, Hito, Cubre
  <2>3. TurnoBien'  BY DEF IInv, TurnoBien, LecturaBien, Llego, Nulo, En
  <2> QED  BY <2>1, <2>2, <2>3 DEF IInv
<1> QED  BY <1>1, <1>2, <1>3, <1>4, <1>5 DEF Next

(* Every reachable state satisfies the inductive invariant.                *)
LEMMA IInvSiempre == Spec => []IInv
BY InicioBien, PasoBien, PTL DEF Spec
----------------------------------------------------------------------------
(* The states the tables, the manifest and the spool can hold.             *)
THEOREM TiposSiempre == Spec => []TypeOK
BY IInvSiempre, PTL DEF IInv

(* No fragment of the output disappears in silence: not when it is evicted *)
(* (_append), not when it is purged (ack_locked), however late the request.*)
THEOREM NadaSePierdeSiempre == Spec => []NadaSePierde
BY IInvSiempre, NadaSePierdeSale, PTL

(* ingerir never refuses what the node answers: the console cannot stop at *)
(* a conflict, whatever was evicted, purged or read in between.            *)
THEOREM SinConflictoSiempre == Spec => []SinConflicto
BY IInvSiempre, SinConflictoSale, PTL

(* The outcome the console announces is the one of the node, and all the   *)
(* output precedes it (emitir_hito).                                       *)
THEOREM FinalCompletoSiempre == Spec => []FinalCompleto
BY IInvSiempre, FinalCompletoSale, PTL
----------------------------------------------------------------------------
(* The refinement: what the console records, and the outcomes in it.       *)
ClasesDe(n) == {f.clase : f \in {g \in consola : Cubre(g, n)}}
Desenlace == {d \in {"disponible", "fallo"} : Hito(d) \in consola}
Anotados == [n \in 1..op.cursor |-> ClasesDe(n)]

(* The console begins as the record does.                                  *)
LEMMA InicioRegistro == Init => Registro!Init
BY DEF Init, InitNodo, Registro!Init, Hito

(* A step that records at most milestones records no output.               *)
LEMMA SoloHitos ==
  ASSUME NEW filas, \A f \in filas : f.clase \notin {"texto", "perdida"},
         consola' = consola \cup filas, op'.cursor = op.cursor
  PROVE  Anotados' = Anotados
<1>1. \A n : ClasesDe(n)' = ClasesDe(n)
  <2>1. SUFFICES ASSUME NEW n PROVE ClasesDe(n)' = ClasesDe(n)  OBVIOUS
  <2>2. {g \in consola' : Cubre(g, n)} = {g \in consola : Cubre(g, n)}  BY CubiertasIgual
  <2> QED  BY <2>2 DEF ClasesDe
<1> QED  BY <1>1 DEF Anotados

(* Such a step announces nothing, or concludes.                            *)
LEMMA PasoDeHito ==
  ASSUME IInv, NEW h \in {"comprobando", "fallo", "disponible"},
         consola' = consola \cup {Hito(h)}, cola' = cola, op'.cursor = op.cursor,
         h # "comprobando" => op.cursor = cola.ultimo /\ Desenlace \subseteq {h}
  PROVE  [Registro!Next]_(Registro!varsRegistro)
<1>1. Hito(h).clase \notin {"texto", "perdida"}  BY DEF Hito
<1>2. Anotados' = Anotados
  <2> DEFINE filas == {Hito(h)}
  <2>1. consola' = consola \cup filas /\ \A f \in filas : f.clase \notin {"texto", "perdida"}  BY <1>1
  <2> HIDE DEF filas
  <2> QED  BY <2>1, SoloHitos
<1>3. Desenlace' = Desenlace \cup ({h} \cap {"disponible", "fallo"})  BY DEF Desenlace, Hito
<1>4. CASE Desenlace' = Desenlace
  BY <1>2, <1>4 DEF Registro!varsRegistro, Anotados, ClasesDe, Desenlace
<1>5. CASE Desenlace' # Desenlace
  <2>1. h \in {"disponible", "fallo"} /\ Desenlace = {} /\ Desenlace' = {h} /\ op.cursor = cola.ultimo
    BY <1>3, <1>5
  <2>2. Registro!Concluir
    BY <2>1, <1>2 DEF Registro!Concluir, Registro!Desenlaces, Anotados, ClasesDe, Desenlace
  <2> QED  BY <2>2 DEF Registro!Next
<1> QED  BY <1>4, <1>5

(* A step that touches neither console, cursor nor last fragment.          *)
LEMMA PasoMudo ==
  ASSUME cola'.ultimo = cola.ultimo, op'.cursor = op.cursor, consola' = consola
  PROVE  UNCHANGED Registro!varsRegistro
BY DEF Registro!varsRegistro, Cubre, Hito

(* Publishing is a step of the installer, recording is Ingerir, concluding *)
(* is an outcome; every other step leaves the record as it is.             *)
LEMMA PasoRegistro ==
  ASSUME IInv, IInv', [Next]_vars
  PROVE  [Registro!Next]_(Registro!varsRegistro)
<1>1. CASE Instala /\ UNCHANGED <<op, consola, turno, red, calma>>
  <2>1. CASE cola' = cola  BY <1>1, <2>1, PasoMudo
  <2>2. CASE \E n \in Cuenta, g \in BOOLEAN : Emite(n, g)
    <3>1. PICK corte \in Cuenta, grande \in BOOLEAN : Emite(corte, grande)  BY <2>2
    <3>2. cola'.ultimo = cola.ultimo + 1
      BY <3>1, AgregadaBien DEF Emite, IInv, TypeOK
    <3>3. trabajo.estado \notin Finales /\ Existe
      BY <3>1 DEF Emite, IInv, TrabajoBien, TypeOK, TypeOKNodo, Manifiestos
    <3>4. Desenlace = {}
      BY <3>3 DEF Desenlace, IInv, ConsolaBien, PortalBien, Finales
    <3>5. Registro!Publicar
      BY <1>1, <3>2, <3>4 DEF Registro!Publicar, Desenlace, Cubre, Hito
    <3> QED  BY <3>5 DEF Registro!Next
  <2> QED  BY <1>1, <2>1, <2>2 DEF Instala, Termina, Sale
<1>2. CASE ReclamarEjecutor \/ ReclamarIngesta
  BY <1>2, PasoMudo DEF ReclamarEjecutor, ReclamarIngesta, Quieto, varsNodo
<1>3. CASE Decidir /\ op.cubierta
  <2>1. consola' = consola /\ cola' = cola /\ op'.cursor = op.cursor
    BY <1>3 DEF Decidir, Quieto, varsNodo, IInv, TypeOK, Operaciones
  <2> QED  BY <2>1, PasoMudo
<1>4. CASE Fracasa
  <2>1. cola' = cola /\ op'.cursor = op.cursor
    BY <1>4 DEF Fracasa, Quieto, varsNodo, IInv, TypeOK, Operaciones
  <2>2. CASE op.pedido
    <3>1. consola' = consola  BY <1>4, <2>2 DEF Fracasa, Escribe
    <3> QED  BY <2>1, <3>1, PasoMudo
  <2>3. CASE ~op.pedido
    <3>1. consola' = consola \cup {Hito("fallo")}  BY <1>4, <2>3 DEF Fracasa, Escribe
    <3>2. op.cursor = cola.ultimo
      BY <2>3, MensajesNat DEF IInv, PortalBien, TrabajoBien, TypeOK, TypeOKNodo, Operaciones, Colas, Cuenta
    <3>3. Hito("disponible") \notin consola
      <4>1. op.final.estado # "confirmado"
        BY <2>3 DEF IInv, PortalBien, Existe, Finales
      <4> QED  BY <4>1 DEF IInv, ConsolaBien
    <3>4. Desenlace \subseteq {"fallo"}  BY <3>3 DEF Desenlace
    <3> QED  BY <2>1, <3>1, <3>2, <3>4, PasoDeHito
  <2> QED  BY <2>2, <2>3
<1>5. CASE Anotar \/ Continuar \/ Abandonar \/ AsentarExito
  <2>1. cola' = cola /\ op'.cursor = op.cursor
    BY <1>5 DEF Anotar, Continuar, Abandonar, AsentarExito, Asentar, Quieto, varsNodo, IInv, TypeOK, Operaciones
  <2>2. consola' = consola \/ consola' = consola \cup {Hito("comprobando")}
    BY <1>5 DEF Anotar, Continuar, Abandonar, AsentarExito, Escribe
  <2> QED  BY <2>1, <2>2, PasoMudo, PasoDeHito
<1>6. CASE AsentarFallo \/ Verificar
  <2>1. PICK h \in {"fallo", "disponible"} :
          /\ consola' = consola \cup {Hito(h)}
          /\ op.final.estado = (IF h = "fallo" THEN "fallido" ELSE "confirmado")
          /\ op.cursor >= op.final.ultimo
          /\ h = "disponible" => op.estado = "abierta"
    <3>1. CASE AsentarFallo
      BY <3>1 DEF AsentarFallo, Escribe, Falla, Admisible
    <3>2. CASE Verificar
      BY <3>2 DEF Verificar, Escribe, Admisible, IInv, PortalBien, En
    <3> QED  BY <1>6, <3>1, <3>2
  <2>2. cola' = cola /\ op'.cursor = op.cursor
    BY <1>6 DEF AsentarFallo, Verificar, Asentar, Quieto, varsNodo, IInv, TypeOK, Operaciones
  <2>3. op.cursor = cola.ultimo
    BY <2>1, MensajesNat DEF IInv, PortalBien, TypeOK, TypeOKNodo, Operaciones, Colas, Cuenta, Finales
  <2>4. Desenlace \subseteq {h}
    <3>1. op.pedido  BY <1>6 DEF AsentarFallo, Verificar, Asentar, IInv, PortalBien, En
    <3> QED  BY <2>1, <3>1 DEF Desenlace, IInv, ConsolaBien
  <2> QED  BY <2>1, <2>2, <2>3, <2>4, PasoDeHito
<1>7. CASE Ingerir
  <2> DEFINE d == turno.datos
  <2>1. /\ d \in Datos /\ LecturaBien(d) /\ op.pedido
        /\ consola' = consola \cup Piezas(d) /\ op' = Ingerida(d) /\ cola' = cola
        /\ Piezas(d) # {} => ~Cerrada
        /\ TypeOK /\ PortalBien
    BY <1>7 DEF Ingerir, Escribe, Quieto, varsNodo, Aceptable, IInv, TurnoBien, TypeOK, Ticks
  <2> HIDE DEF d
  <2>2. /\ op.cursor <= Fin(d) /\ Fin(d) <= cola.ultimo /\ Fin(d) \in Cuenta
        /\ Piezas(d) = {} => Fin(d) = op.cursor
        /\ \A p \in Piezas(d) : /\ p \in Fragmentos /\ p.clase \in {"texto", "perdida"}
                                /\ op.cursor < p.desde /\ p.hasta <= Fin(d)
    BY <2>1, PiezasBien
  <2>3. op'.cursor = Fin(d) /\ op.cursor \in Nat /\ Fin(d) \in Nat
    BY <2>1, <2>2, MensajesNat DEF Ingerida, TypeOK, Operaciones, Cuenta
  <2>4. CASE Piezas(d) = {}
    BY <2>1, <2>2, <2>3, <2>4, PasoMudo
  <2>5. CASE Piezas(d) # {}
    <3>1. Desenlace = {} /\ Desenlace' = {}
      BY <2>1, <2>2, <2>5 DEF Desenlace, Cerrada, Hito
    <3>2. \A n \in 1..op.cursor : ClasesDe(n)' = ClasesDe(n)
      <4>1. SUFFICES ASSUME NEW n \in 1..op.cursor PROVE ClasesDe(n)' = ClasesDe(n)  OBVIOUS
      <4>2. \A p \in Piezas(d) : p.desde \in Nat  BY <2>2, MensajesNat DEF Fragmentos, Cuenta
      <4>3. \A p \in Piezas(d) : ~Cubre(p, n)  BY <4>2, <2>2, <2>3 DEF Cubre
      <4>4. {g \in consola' : Cubre(g, n)} = {g \in consola : Cubre(g, n)}  BY <4>3, <2>1
      <4> QED  BY <4>4 DEF ClasesDe
    <3>3. \A n \in 1..Fin(d) : ClasesDe(n)' \in Registro!Unicos
      BY <2>3 DEF IInv, ConsolaBien, ClasesDe, Registro!Unicos, Registro!Clases
    <3>4. Anotados' = [n \in 1..Fin(d) |-> ClasesDe(n)']  BY <2>3 DEF Anotados
    <3>5. Anotados' \in [1..Fin(d) -> Registro!Unicos]  BY <3>3, <3>4
    <3>6. \A n \in 1..op.cursor : Anotados'[n] = Anotados[n]
      BY <3>2, <3>4, <2>2, <2>3 DEF Anotados
    <3>7. CASE Fin(d) = op.cursor
      <4>1. Anotados' = Anotados  BY <3>7, <3>2, <3>4 DEF Anotados
      <4> QED  BY <4>1, <3>1, <3>7, <2>1, <2>3 DEF Registro!varsRegistro, Anotados, ClasesDe, Desenlace
    <3>8. CASE op.cursor < Fin(d)
      <4>1. Registro!Registrar
        BY <3>8, <3>1, <3>5, <3>6, <2>1, <2>2, <2>3
        DEF Registro!Registrar, Registro!Unicos, Registro!Clases, Anotados, ClasesDe, Desenlace
      <4> QED  BY <4>1 DEF Registro!Next
    <3> QED  BY <3>7, <3>8, <2>2, <2>3
  <2> QED  BY <2>4, <2>5
<1>8. CASE Perder \/ Descubrir \/ Calmar
  <2>1. cola' = cola /\ op'.cursor = op.cursor /\ consola' = consola
    BY <1>8 DEF Perder, Descubrir, Calmar, Quieto, varsNodo, IInv, TypeOK, Operaciones
  <2> QED  BY <2>1, PasoMudo
<1>9. CASE \E i \in 1..Len(red) : Atender(i)
  <2>1. PICK i \in 1..Len(red) : Atender(i)  BY <1>9
  <2>2. cola'.ultimo = cola.ultimo  BY <2>1 DEF Atender, Purgada
  <2> QED  BY <2>1, <2>2, PasoMudo DEF Atender
<1>10. CASE UNCHANGED vars
  BY <1>10, PasoMudo DEF vars, varsNodo
<1> QED  BY <1>1, <1>2, <1>3, <1>4, <1>5, <1>6, <1>7, <1>8, <1>9, <1>10
         DEF Next, Tick, Decidir, Fallar

(* Whatever is evicted, lost, late or repeated, the console keeps the      *)
(* promise of RegistroSalida: each number once, in order and for good, and *)
(* one outcome with nothing after it (ingerir, emitir_hito).               *)
THEOREM CumpleElRegistroSiempre == Spec => CumpleElRegistro
<1>1. IInv /\ IInv' /\ [Next]_vars => [Registro!Next]_(Registro!varsRegistro)
  BY PasoRegistro
<1> QED  BY <1>1, InicioRegistro, IInvSiempre, PTL DEF Spec, CumpleElRegistro, Registro!Spec
============================================================================
