------------------------- MODULE Vencimiento_proofs -------------------------
(***************************************************************************)
(* What holds of the authorised periods of a service whatever is approved, *)
(* by invariants over the sequence of approvals; that the job that pauses  *)
(* the service never takes one interval for another; and that the summary  *)
(* of the coverage, which joins sorted ranges, says what each instant says.*)
(***************************************************************************)
EXTENDS Vencimiento, TLAPS, SequenceTheorems, FiniteSetTheorems, WellFoundedInduction

Periodo == [inicio : Instantes, fin : Instantes, sustituye : 0..MaxPeriodos]

(* The periods, and that each is replaced once at most by a later one.     *)
PeriodosOK == periodos \in Seq(Periodo) /\ SustitucionUnica

(* After an approval the new period is in force and the one it names is    *)
(* not; the others stay as they were.                                      *)
LEMMA VigentesTrasAprobar ==
  ASSUME NEW p \in Periodo, periodos \in Seq(Periodo),
         periodos' = Append(periodos, p)
  PROVE  /\ DOMAIN periodos' = DOMAIN periodos \cup {Len(periodos) + 1}
         /\ \A k \in DOMAIN periodos : periodos'[k] = periodos[k]
         /\ periodos'[Len(periodos) + 1] = p
         /\ Vigentes(periodos') \subseteq
              (Vigentes(periodos) \ {p.sustituye}) \cup {Len(periodos) + 1}
  <1>1. /\ Len(periodos') = Len(periodos) + 1 /\ Len(periodos) \in Nat
        /\ DOMAIN periodos' = 1..Len(periodos') /\ DOMAIN periodos = 1..Len(periodos)
        /\ \A k \in 1..Len(periodos) : periodos'[k] = periodos[k]
        /\ periodos'[Len(periodos) + 1] = p
    BY AppendProperties, LenProperties
  <1>2. Vigentes(periodos') \subseteq
          (Vigentes(periodos) \ {p.sustituye}) \cup {Len(periodos) + 1}
    BY <1>1 DEF Vigentes
  <1>. QED  BY <1>1, <1>2

(* SustitucionUnica in every reachable state: an approval names a period   *)
(* that nobody replaced yet.                                               *)
THEOREM SustitucionUnicaSiempre == Spec => []SustitucionUnica
  <1>1. Init => PeriodosOK
    <2>1. ASSUME NEW i \in Instantes, NEW f \in Instantes,
                 periodos = <<[inicio |-> i, fin |-> f, sustituye |-> 0]>>
          PROVE  PeriodosOK
      <3>1. [inicio |-> i, fin |-> f, sustituye |-> 0] \in Periodo
        BY ParametrosVigencia DEF Periodo
      <3>. QED  BY <2>1, <3>1 DEF PeriodosOK, SustitucionUnica
    <2>. QED  BY <2>1 DEF Init
  <1>2. PeriodosOK /\ [Next]_vars => PeriodosOK'
    <2>. SUFFICES ASSUME PeriodosOK, [Next]_vars PROVE PeriodosOK'
      OBVIOUS
    <2>1. ASSUME NEW i \in Instantes, NEW f \in Instantes, NEW s \in 0..MaxPeriodos,
                 Aprobar([inicio |-> i, fin |-> f, sustituye |-> s])
          PROVE  PeriodosOK'
      <3>. DEFINE p == [inicio |-> i, fin |-> f, sustituye |-> s]
      <3>1. p \in Periodo /\ periodos' = Append(periodos, p)
            /\ Sustituible(s) /\ periodos \in Seq(Periodo)
        BY <2>1 DEF Aprobar, Periodo, PeriodosOK
      <3>2. periodos' \in Seq(Periodo)
        BY <3>1, AppendProperties
      <3>3. s = 0 \/ s \in Vigentes(periodos)
        BY <3>1 DEF Sustituible
      <3>4. s < Len(periodos) + 1
        BY <3>1, <3>3, LenProperties DEF Vigentes
      <3>5. s # 0 => \A n \in DOMAIN periodos : periodos[n].sustituye # s
        BY <3>3 DEF Vigentes
      <3>6. SustitucionUnica'
        <4>1. \A k \in DOMAIN periodos' : periodos'[k].sustituye < k
          BY <3>1, <3>4, VigentesTrasAprobar DEF PeriodosOK, SustitucionUnica
        <4>2. ASSUME NEW k \in DOMAIN periodos', NEW n \in DOMAIN periodos',
                     periodos'[k].sustituye = periodos'[n].sustituye,
                     periodos'[k].sustituye # 0
              PROVE  k = n
          <5>. HIDE DEF p
          <5>. p.sustituye = s
            BY DEF p
          <5>. QED
            BY <3>1, <3>5, <4>2, VigentesTrasAprobar DEF PeriodosOK, SustitucionUnica
        <4>. QED  BY <4>1, <4>2 DEF SustitucionUnica
      <3>. QED  BY <3>2, <3>6 DEF PeriodosOK
    <2>2. ASSUME UNCHANGED periodos PROVE PeriodosOK'
      BY <2>2 DEF PeriodosOK, SustitucionUnica
    <2>. QED
      BY <2>1, <2>2 DEF Next, vars, Avisar, Leer, Decidir, EnviarPausa,
             PausaObsoleta, ConfirmarPausa, FallarPausa, CerrarPausa, Iniciar, EncenderFuera, Avanzar
  <1>3. PeriodosOK => SustitucionUnica
    BY DEF PeriodosOK
  <1>. QED  BY <1>1, <1>2, <1>3, PTL DEF Spec

(* VigentesDisjuntos in every reachable state, for any approvals and any   *)
(* order of them: each was compared with the periods in force then, and    *)
(* those in force later are among them.                                    *)
THEOREM DisjuntosSiempre == Spec => []VigentesDisjuntos
  <1>. DEFINE I == periodos \in Seq(Periodo) /\ VigentesDisjuntos
  <1>1. Init => I
    <2>1. ASSUME NEW i \in Instantes, NEW f \in Instantes,
                 periodos = <<[inicio |-> i, fin |-> f, sustituye |-> 0]>>
          PROVE  I
      <3>1. [inicio |-> i, fin |-> f, sustituye |-> 0] \in Periodo
        BY ParametrosVigencia DEF Periodo
      <3>. QED  BY <2>1, <3>1 DEF VigentesDisjuntos, Vigentes
    <2>. QED  BY <2>1 DEF Init
  <1>2. I /\ [Next]_vars => I'
    <2>. SUFFICES ASSUME I, [Next]_vars PROVE I'
      OBVIOUS
    <2>1. ASSUME NEW i \in Instantes, NEW f \in Instantes, NEW s \in 0..MaxPeriodos,
                 Aprobar([inicio |-> i, fin |-> f, sustituye |-> s])
          PROVE  I'
      <3>. DEFINE p == [inicio |-> i, fin |-> f, sustituye |-> s]
      <3>1. p \in Periodo /\ periodos' = Append(periodos, p)
        BY <2>1 DEF Aprobar, Periodo
      <3>2. periodos' \in Seq(Periodo)
        BY <3>1, AppendProperties
      <3>3. \A k \in Vigentes(periodos) \ {p.sustituye} :
              ~Solapan(p, periodos[k]) /\ ~Solapan(periodos[k], p)
        BY <2>1 DEF Aprobar, Solapan
      <3>. HIDE DEF p
      <3>4. VigentesDisjuntos'
        <4>. SUFFICES ASSUME NEW k \in Vigentes(periodos'), NEW n \in Vigentes(periodos'), k # n
                      PROVE  ~Solapan(periodos'[k], periodos'[n])
          BY DEF VigentesDisjuntos
        <4>1. \A v \in Vigentes(periodos) : v \in DOMAIN periodos
          BY DEF Vigentes
        <4>. QED
          BY <3>1, <3>3, <4>1, VigentesTrasAprobar DEF VigentesDisjuntos
      <3>. QED  BY <3>2, <3>4
    <2>2. ASSUME UNCHANGED periodos PROVE I'
      BY <2>2 DEF VigentesDisjuntos
    <2>. QED
      BY <2>1, <2>2 DEF Next, vars, Avisar, Leer, Decidir, EnviarPausa,
             PausaObsoleta, ConfirmarPausa, FallarPausa, CerrarPausa, Iniciar, EncenderFuera, Avanzar
  <1>. QED  BY <1>1, <1>2, PTL DEF Spec
-----------------------------------------------------------------------------
(* A set of naturals has a least element: the initial segments below its   *)
(* elements are finite sets, ordered by inclusion.                         *)
LEMMA HayMenor ==
  ASSUME NEW S \in SUBSET Nat, S # {}
  PROVE  Min(S) \in S /\ \A y \in S : Min(S) <= y
  <1>. DEFINE O == StrictSubsetOrdering(Nat)
              T == {0..n : n \in S}
  <1>1. \A n \in S : IsFiniteSet(0..n)
    BY FS_Interval
  <1>2. T \subseteq FiniteSubsetsOf(Nat) /\ T # {}
    <2>1. \A n \in S : 0..n \in FiniteSubsetsOf(Nat)
      BY <1>1 DEF FiniteSubsetsOf
    <2>2. PICK n \in S : TRUE
      OBVIOUS
    <2>3. 0..n \in T
      BY <2>2
    <2>. QED  BY <2>1, <2>3
  <1>3. PICK x \in T : \A y \in T : ~(<<y, x>> \in O)
    <2>. HIDE DEF T, O
    <2>1. IsWellFoundedOn(O, FiniteSubsetsOf(Nat))
      BY FS_StrictSubsetOrderingWellFounded DEF O
    <2>. QED  BY <1>2, <2>1, WFMin
  <1>4. PICK m \in S : x = 0..m
    BY <1>3
  <1>5. ASSUME NEW n \in S, n < m PROVE FALSE
    <2>1. 0..n \in T /\ 0..n \in SUBSET Nat /\ 0..m \in SUBSET Nat
      OBVIOUS
    <2>2. 0..n \subseteq 0..m /\ m \in 0..m /\ m \notin 0..n
      BY <1>5
    <2>3. <<0..n, 0..m>> \in O
      <3>. DEFINE p == <<0..n, 0..m>>
      <3>1. p \in (SUBSET Nat) \X (SUBSET Nat) /\ p[1] = 0..n /\ p[2] = 0..m
        BY <2>1
      <3>2. p[1] \subseteq p[2] /\ p[1] # p[2]
        BY <2>2, <3>1
      <3>. HIDE DEF p
      <3>3. p \in O
        BY <3>1, <3>2 DEF StrictSubsetOrdering
      <3>. QED  BY <3>3 DEF p
    <2>. QED  BY <1>3, <1>4, <2>1, <2>3
  <1>6. m \in S /\ \A y \in S : m <= y
    BY <1>5
  <1>. QED  BY <1>6 DEF Min

(* A bounded one has a greatest element, the least distance to the bound.  *)
LEMMA HayMayor ==
  ASSUME NEW S \in SUBSET Nat, S # {}, NEW n \in Nat, \A y \in S : y <= n
  PROVE  Max(S) \in S /\ \A y \in S : y <= Max(S)
  <1>. DEFINE T == {n - y : y \in S}
              m == n - Min(T)
  <1>1. T \in SUBSET Nat /\ T # {}
    <2>1. PICK x \in S : TRUE
      OBVIOUS
    <2>2. n - x \in T
      BY <2>1
    <2>3. \A y \in S : n - y \in Nat
      OBVIOUS
    <2>. QED  BY <2>2, <2>3
  <1>2. Min(T) \in T /\ \A y \in T : Min(T) <= y
    BY <1>1, HayMenor
  <1>3. m \in S
    BY <1>2
  <1>4. ASSUME NEW y \in S PROVE m >= y
    <2>1. n - y \in T
      OBVIOUS
    <2>2. Min(T) <= n - y
      BY <1>2, <2>1
    <2>3. Min(T) \in Nat
      BY <1>1, <1>2
    <2>. HIDE DEF T
    <2>. QED  BY <2>2, <2>3
  <1>. HIDE DEF m
  <1>5. \A y \in S : Max(S) >= y
    BY <1>3, <1>4 DEF Max
  <1>6. Max(S) \in S
    BY <1>3, <1>4 DEF Max
  <1>. QED  BY <1>5, <1>6

Rango == [inicio : Instantes, fin : Instantes]

(* Instants are naturals up to the horizon.                                *)
LEMMA InstantesNat == Instantes \subseteq Nat /\ Horizonte \in Nat /\ \A t \in Instantes : t <= Horizonte
  BY ParametrosVigencia DEF Instantes

(* Ends and starts of coverage are instants; the end of an unbroken        *)
(* coverage is that of one of its ranges.                                  *)
LEMMA CambiosBien ==
  ASSUME NEW A \in SUBSET Rango
  PROVE  /\ Finales(A) \subseteq Instantes /\ Comienzos(A) \subseteq Instantes
         /\ \A t \in Instantes : t \in Finales(A) <=> Termina(A, t)
         /\ \A t \in Instantes : t \in Comienzos(A) <=> Empieza(A, t)
  <1>1. \A r \in A : r.inicio \in Instantes /\ r.fin \in Instantes
    BY DEF Rango
  <1>2. Finales(A) \subseteq Instantes /\ Comienzos(A) \subseteq Instantes
    BY <1>1 DEF Finales, Comienzos
  <1>3. ASSUME NEW t \in Instantes, Termina(A, t) PROVE t \in Finales(A)
    <2>1. PICK r \in A : Contiene(r, t - 1)
      BY <1>3 DEF Termina, CubiertoEn
    <2>2. ~Contiene(r, t)
      BY <1>3, <2>1 DEF Termina, CubiertoEn
    <2>3. r.inicio \in Nat /\ r.fin \in Nat /\ t \in Nat
      BY <1>1, InstantesNat
    <2>4. r.fin = t
      BY <2>1, <2>2, <2>3 DEF Contiene
    <2>. QED  BY <1>3, <2>1, <2>4 DEF Finales
  <1>4. ASSUME NEW t \in Instantes, Empieza(A, t) PROVE t \in Comienzos(A)
    <2>1. PICK r \in A : Contiene(r, t)
      BY <1>4 DEF Empieza, CubiertoEn
    <2>2. ~Contiene(r, t - 1)
      BY <1>4, <2>1 DEF Empieza, CubiertoEn
    <2>3. r.inicio \in Nat /\ r.fin \in Nat /\ t \in Nat
      BY <1>1, InstantesNat
    <2>4. r.inicio = t
      BY <2>1, <2>2, <2>3 DEF Contiene
    <2>. QED  BY <1>4, <2>1, <2>4 DEF Comienzos
  <1>. QED  BY <1>2, <1>3, <1>4 DEF Finales, Comienzos

(* Coverage that is missing now and there later starts in between.         *)
LEMMA HayComienzo ==
  ASSUME NEW A \in SUBSET Rango, NEW a \in Nat, NEW b \in Nat, a < b,
         ~CubiertoEn(A, a), CubiertoEn(A, b)
  PROVE  \E u \in Comienzos(A) : a < u /\ u <= b
  <1>. DEFINE S == {u \in Nat : a < u /\ u <= b /\ CubiertoEn(A, u)}
              m == Min(S)
  <1>1. b \in S /\ S \in SUBSET Nat
    OBVIOUS
  <1>2. m \in S /\ \A y \in S : m <= y
    <2>. HIDE DEF S
    <2>. QED  BY <1>1, HayMenor
  <1>. HIDE DEF m
  <1>3. m \in Nat /\ a < m /\ m <= b /\ CubiertoEn(A, m)
    BY <1>2
  <1>4. ~CubiertoEn(A, m - 1)
    <2>1. CASE m - 1 = a
      BY <2>1
    <2>2. CASE m - 1 # a
      <3>1. m - 1 \in Nat /\ a < m - 1 /\ m - 1 <= b /\ ~(m <= m - 1)
        BY <1>3, <2>2
      <3>. QED  BY <1>2, <3>1
    <2>. QED  BY <2>1, <2>2
  <1>5. m \in Instantes
    <2>1. PICK r \in A : Contiene(r, m)
      BY <1>3 DEF CubiertoEn
    <2>2. r.fin \in Instantes
      BY DEF Rango
    <2>. QED  BY <1>3, <2>1, <2>2, InstantesNat DEF Contiene, Rango, Instantes
  <1>6. m \in Comienzos(A)
    BY <1>3, <1>4, <1>5, CambiosBien DEF Empieza
  <1>. QED  BY <1>3, <1>6

(* Coverage that is there now and missing later ends in between.           *)
LEMMA HayFinal ==
  ASSUME NEW A \in SUBSET Rango, NEW a \in Nat, NEW b \in Nat, a < b,
         CubiertoEn(A, a), ~CubiertoEn(A, b)
  PROVE  \E u \in Finales(A) : a < u /\ u <= b
  <1>. DEFINE S == {u \in Nat : a < u /\ u <= b /\ ~CubiertoEn(A, u)}
              m == Min(S)
  <1>1. b \in S /\ S \in SUBSET Nat
    OBVIOUS
  <1>2. m \in S /\ \A y \in S : m <= y
    <2>. HIDE DEF S
    <2>. QED  BY <1>1, HayMenor
  <1>. HIDE DEF m
  <1>3. m \in Nat /\ a < m /\ m <= b /\ ~CubiertoEn(A, m)
    BY <1>2
  <1>4. m - 1 \in Nat /\ CubiertoEn(A, m - 1)
    <2>1. CASE m - 1 = a
      BY <2>1
    <2>2. CASE m - 1 # a
      <3>1. m - 1 \in Nat /\ a < m - 1 /\ m - 1 <= b /\ ~(m <= m - 1)
        BY <1>3, <2>2
      <3>. QED  BY <1>2, <3>1
    <2>. QED  BY <2>1, <2>2
  <1>5. m \in Instantes
    <2>1. PICK r \in A : Contiene(r, m - 1)
      BY <1>4 DEF CubiertoEn
    <2>2. r.inicio \in Nat /\ r.fin \in Instantes /\ r.fin \in Nat /\ r.fin <= Horizonte
      BY InstantesNat DEF Rango
    <2>. QED  BY <1>3, <1>4, <2>1, <2>2, InstantesNat DEF Contiene, Instantes
  <1>6. m \in Finales(A)
    BY <1>3, <1>4, <1>5, CambiosBien DEF Termina
  <1>. QED  BY <1>3, <1>6

(* What the boundary of an instant is.                                     *)
LEMMA LimiteBien ==
  ASSUME NEW A \in SUBSET Rango, NEW t \in Nat
  PROVE  /\ (\E u \in Finales(A) : u <= t) =>
              /\ Limite(A, t) \in Finales(A) /\ Limite(A, t) <= t
              /\ \A u \in Finales(A) : u <= t => u <= Limite(A, t)
         /\ ~(\E u \in Finales(A) : u <= t) /\ (\E u \in Comienzos(A) : t < u) =>
              /\ Limite(A, t) \in Comienzos(A) /\ t < Limite(A, t)
              /\ \A u \in Comienzos(A) : t < u => Limite(A, t) <= u
         /\ ~(\E u \in Finales(A) : u <= t) /\ ~(\E u \in Comienzos(A) : t < u) =>
              Limite(A, t) = Nada
  <1>. DEFINE F == {u \in Finales(A) : u <= t}
              C == {u \in Comienzos(A) : t < u}
  <1>1. F \in SUBSET Nat /\ C \in SUBSET Nat /\ Nada \notin Finales(A)
    BY CambiosBien, InstantesNat DEF Nada, Instantes
  <1>2. UltimoHasta(Finales(A), t) = IF F # {} THEN Max(F) ELSE Nada
    BY DEF UltimoHasta
  <1>3. PrimeroTras(Comienzos(A), t) = IF C # {} THEN Min(C) ELSE Nada
    BY DEF PrimeroTras
  <1>4. F # {} => Max(F) \in F /\ \A y \in F : y <= Max(F)
    <2>1. \A y \in F : y <= t
      OBVIOUS
    <2>. HIDE DEF F
    <2>. QED  BY <1>1, <2>1, HayMayor
  <1>5. C # {} => Min(C) \in C /\ \A y \in C : Min(C) <= y
    <2>. HIDE DEF C
    <2>. QED  BY <1>1, HayMenor
  <1>6. Limite(A, t) = IF F # {} THEN Max(F) ELSE IF C # {} THEN Min(C) ELSE Nada
    BY <1>1, <1>2, <1>3, <1>4 DEF Limite
  <1>. QED  BY <1>4, <1>5, <1>6

(* Time passes without coverage: the boundary stays.                       *)
LEMMA LimiteSigue ==
  ASSUME NEW A \in SUBSET Rango, NEW t \in Nat, ~CubiertoEn(A, t), ~CubiertoEn(A, t + 1)
  PROVE  Limite(A, t + 1) = Limite(A, t)
  <1>1. t + 1 \notin Finales(A) /\ t + 1 \notin Comienzos(A)
    BY DEF Finales, Comienzos, Termina, Empieza
  <1>2. \A u \in Finales(A) \cup Comienzos(A) : u \in Nat
    BY CambiosBien, InstantesNat
  <1>3. {u \in Finales(A) : u <= t + 1} = {u \in Finales(A) : u <= t}
    BY <1>1, <1>2
  <1>4. {u \in Comienzos(A) : t + 1 < u} = {u \in Comienzos(A) : t < u}
    BY <1>1, <1>2
  <1>5. UltimoHasta(Finales(A), t + 1) = UltimoHasta(Finales(A), t)
    <2>1. (\E u \in Finales(A) : u <= t + 1) <=> \E u \in Finales(A) : u <= t
      BY <1>3
    <2>. QED  BY <1>3, <2>1 DEF UltimoHasta
  <1>6. PrimeroTras(Comienzos(A), t + 1) = PrimeroTras(Comienzos(A), t)
    <2>1. (\E u \in Comienzos(A) : t + 1 < u) <=> \E u \in Comienzos(A) : t < u
      BY <1>4
    <2>. QED  BY <1>4, <2>1 DEF PrimeroTras
  <1>. QED  BY <1>5, <1>6 DEF Limite

(* When coverage ends, its end is the boundary.                            *)
LEMMA LimiteAlTerminar ==
  ASSUME NEW A \in SUBSET Rango, NEW t \in Nat, t + 1 \in Instantes,
         CubiertoEn(A, t), ~CubiertoEn(A, t + 1)
  PROVE  Limite(A, t + 1) = t + 1
  <1>1. t + 1 \in Finales(A)
    BY CambiosBien DEF Termina
  <1>2. Finales(A) \subseteq Nat
    BY CambiosBien, InstantesNat
  <1>. QED  BY <1>1, <1>2, LimiteBien

(* A range that does not cover the instant and has not passed leaves an    *)
(* answered boundary where it was, if it is past or was covered.           *)
LEMMA LimiteAlAgregar ==
  ASSUME NEW A \in SUBSET Rango, NEW r \in Rango, NEW t \in Nat, t < r.fin,
         ~CubiertoEn(A \cup {r}, t),
         NEW b \in Instantes, Limite(A \cup {r}, t) = b, b <= t \/ CubiertoEn(A, b)
  PROVE  Limite(A, t) = b
  <1>. DEFINE B == A \cup {r}
  <1>1. B \in SUBSET Rango /\ r.inicio \in Nat /\ r.fin \in Nat /\ b \in Nat /\ b # Nada
    BY InstantesNat DEF Rango, Instantes, Nada
  <1>2. t < r.inicio
    BY <1>1 DEF CubiertoEn, Contiene
  <1>3. \A u \in Int : CubiertoEn(A, u) => CubiertoEn(B, u)
    BY DEF CubiertoEn
  <1>4. \A u \in Int : u <= t /\ CubiertoEn(B, u) => CubiertoEn(A, u)
    BY <1>1, <1>2 DEF CubiertoEn, Contiene
  <1>. HIDE DEF B
  <1>5. ~CubiertoEn(A, t) /\ ~CubiertoEn(B, t)
    BY <1>3 DEF B
  <1>6. \A u \in Instantes : u <= t => (u \in Finales(A) <=> u \in Finales(B))
    <2>1. \A u \in Instantes : u <= t => (Termina(A, u) <=> Termina(B, u))
      BY <1>3, <1>4, InstantesNat DEF Termina
    <2>. QED  BY <1>1, <2>1, CambiosBien
  <1>7. /\ Finales(A) \subseteq Instantes /\ Finales(B) \subseteq Instantes
        /\ Comienzos(A) \subseteq Nat /\ Comienzos(B) \subseteq Nat
        /\ Finales(A) \subseteq Nat /\ Finales(B) \subseteq Nat
    BY <1>1, CambiosBien, InstantesNat
  <1>8. Limite(B, t) = b
    BY DEF B
  <1>9. CASE \E u \in Finales(A) : u <= t
    <2>1. \E u \in Finales(B) : u <= t
      BY <1>6, <1>7, <1>9
    <2>2. b \in Finales(B) /\ b <= t /\ \A u \in Finales(B) : u <= t => u <= b
      BY <1>1, <1>8, <2>1, LimiteBien
    <2>3. Limite(A, t) \in Finales(A) /\ Limite(A, t) <= t
          /\ \A u \in Finales(A) : u <= t => u <= Limite(A, t)
      BY <1>9, LimiteBien
    <2>. QED  BY <1>1, <1>6, <1>7, <2>2, <2>3
  <1>10. CASE ~\E u \in Finales(A) : u <= t
    <2>1. ~\E u \in Finales(B) : u <= t
      BY <1>6, <1>7, <1>10
    <2>2. \E u \in Comienzos(B) : t < u
      BY <1>1, <1>8, <2>1, LimiteBien
    <2>3. b \in Comienzos(B) /\ t < b /\ \A u \in Comienzos(B) : t < u => b <= u
      BY <1>1, <1>8, <2>1, <2>2, LimiteBien
    <2>4. CubiertoEn(A, b)
      BY <1>1, <2>3
    <2>5. PICK u \in Comienzos(A) : t < u /\ u <= b
      BY <1>1, <1>5, <2>3, <2>4, HayComienzo
    <2>. DEFINE L == Limite(A, t)
    <2>6. L \in Comienzos(A) /\ t < L /\ \A v \in Comienzos(A) : t < v => L <= v
      BY <1>10, <2>5, LimiteBien
    <2>. HIDE DEF L
    <2>7. L \in Nat /\ L <= b /\ CubiertoEn(A, L)
      <3>1. L \in Nat /\ u \in Nat /\ L <= u
        BY <1>7, <2>5, <2>6
      <3>2. CubiertoEn(A, L)
        BY <2>6 DEF Comienzos, Empieza
      <3>. QED  BY <1>1, <2>5, <3>1, <3>2
    <2>8. PICK v \in Comienzos(B) : t < v /\ v <= L
      BY <1>1, <1>3, <1>5, <2>6, <2>7, HayComienzo
    <2>9. b <= v /\ v \in Nat
      BY <1>7, <2>3, <2>8
    <2>10. L = b
      BY <1>1, <2>7, <2>8, <2>9
    <2>. QED  BY <2>10 DEF L
  <1>. QED  BY <1>9, <1>10

(* The ranges of the periods in force are ranges of instants.              *)
LEMMA RangosBien ==
  ASSUME NEW ps \in Seq(Periodo)
  PROVE  Rangos(ps) \in SUBSET Rango
  <1>1. \A k \in DOMAIN ps : ps[k] \in Periodo
    BY LenProperties
  <1>. QED  BY <1>1 DEF Rangos, Rango, Vigentes, Periodo

(* An approval names an instant for vence_at.                              *)
LEMMA ProyeccionBien ==
  ASSUME periodos \in Seq(Periodo), NEW p \in Periodo
  PROVE  Proyeccion(p) \in Instantes
  <1>. DEFINE S == {periodos[k].fin : k \in Vigentes(periodos)} \cup {p.fin}
  <1>1. \A k \in DOMAIN periodos : periodos[k] \in Periodo
    BY LenProperties
  <1>2. S \subseteq Instantes /\ S # {}
    BY <1>1 DEF Vigentes, Periodo
  <1>3. S \in SUBSET Nat /\ Horizonte \in Nat /\ \A y \in S : y <= Horizonte
    BY <1>2, InstantesNat
  <1>. HIDE DEF S
  <1>4. Max(S) \in S
    BY <1>2, <1>3, HayMayor
  <1>. QED  BY <1>2, <1>4 DEF Proyeccion, S

(* A boundary is an instant or none.                                       *)
LEMMA LimiteTipo ==
  ASSUME NEW A \in SUBSET Rango, NEW t \in Nat
  PROVE  Limite(A, t) \in 0..Horizonte
  BY LimiteBien, CambiosBien, InstantesNat DEF Instantes, Nada

(* The end of the coverage in force is an instant.                         *)
LEMMA FinActualBien ==
  ASSUME periodos \in Seq(Periodo), ahora \in Nat, FinActual # Nada
  PROVE  FinActual \in Instantes
  <1>. DEFINE S == {u \in Finales(Rangos(periodos)) : ahora < u}
  <1>1. FinActual = Min(S) /\ S # {}
    BY DEF FinActual, PrimeroTras
  <1>2. S \subseteq Instantes /\ S \in SUBSET Nat
    BY CambiosBien, RangosBien, InstantesNat
  <1>. HIDE DEF S
  <1>. QED  BY <1>1, <1>2, HayMenor

(* The first period and the empty answers have their types.                *)
LEMMA TiposInicio == Init => TypeOK
  <1>. SUFFICES ASSUME Init PROVE TypeOK
    OBVIOUS
  <1>1. PICK i \in Instantes, f \in Instantes :
          i < f /\ periodos = <<[inicio |-> i, fin |-> f, sustituye |-> 0]>> /\ vence = f
    BY DEF Init
  <1>2. [inicio |-> i, fin |-> f, sustituye |-> 0] \in Periodo
    BY ParametrosVigencia DEF Periodo
  <1>3. periodos \in Seq(Periodo)
    BY <1>1, <1>2
  <1>4. 1 \in Instantes /\ Nada \in 0..Horizonte
    BY ParametrosVigencia DEF Instantes, Nada
  <1>5. pausa \in {"ninguna", "admitida", "enviada"}
    BY DEF Init
  <1>. QED  BY <1>1, <1>3, <1>4, <1>5 DEF Init, TypeOK, Periodo

(* Every action keeps the types.                                           *)
LEMMA TiposPaso == TypeOK /\ [Next]_vars => TypeOK'
  <1>. SUFFICES ASSUME TypeOK, [Next]_vars PROVE TypeOK'
    OBVIOUS
  <1>0. periodos \in Seq(Periodo) /\ ahora \in Nat
    BY InstantesNat DEF TypeOK, Periodo
  <1>1. ASSUME NEW i \in Instantes, NEW f \in Instantes, NEW s \in 0..MaxPeriodos,
               Aprobar([inicio |-> i, fin |-> f, sustituye |-> s])
        PROVE  TypeOK'
    <2>. DEFINE p == [inicio |-> i, fin |-> f, sustituye |-> s]
    <2>1. p \in Periodo
      BY DEF Periodo
    <2>2. periodos' = Append(periodos, p) /\ vence' = Proyeccion(p)
          /\ UNCHANGED <<ahora, estado, pausa, pausaDe, leida, respuestas, perdidas, avisados>>
      BY <1>1 DEF Aprobar
    <2>. HIDE DEF p
    <2>3. periodos' \in Seq(Periodo) /\ vence' \in Instantes
      BY <1>0, <2>1, <2>2, AppendProperties, ProyeccionBien
    <2>. QED  BY <2>2, <2>3 DEF TypeOK, Periodo
  <1>2. CASE Avisar
    BY <1>0, <1>2, FinActualBien DEF Avisar, TypeOK
  <1>3. ASSUME NEW j \in Trabajos, Leer(j) PROVE TypeOK'
    BY <1>0, <1>3, LimiteTipo, RangosBien DEF Leer, TypeOK
  <1>4. ASSUME NEW j \in Trabajos, Decidir(j) PROVE TypeOK'
    <2>1. leida[j] \in Instantes
      BY <1>4, InstantesNat DEF Decidir, TypeOK, Nada, Instantes
    <2>2. respuestas' \subseteq Instantes
      BY <1>4, <2>1 DEF Decidir, TypeOK
    <2>3. leida' \in [Trabajos -> 0..Horizonte]
      BY <1>4, InstantesNat DEF Decidir, TypeOK, Nada
    <2>4. pausa' \in {"ninguna", "admitida", "enviada"}
      BY <1>4 DEF Decidir, TypeOK
    <2>5. pausaDe' \in 0..Horizonte
      BY <1>4 DEF Decidir, TypeOK
    <2>. QED  BY <1>4, <2>2, <2>3, <2>4, <2>5 DEF Decidir, TypeOK
  <1>5. CASE EnviarPausa \/ PausaObsoleta \/ ConfirmarPausa \/ FallarPausa \/ Iniciar
    <2>1. Nada \in 0..Horizonte
      BY InstantesNat DEF Nada
    <2>. QED
      BY <1>5, <2>1 DEF EnviarPausa, PausaObsoleta, ConfirmarPausa, FallarPausa, CerrarPausa,
           Iniciar, TypeOK
  <1>8. CASE EncenderFuera
    BY <1>0, <1>8, LimiteTipo, RangosBien DEF EncenderFuera, TypeOK
  <1>6. CASE Avanzar
    <2>1. ahora' \in Instantes
      BY <1>0, <1>6, InstantesNat DEF Avanzar, Instantes
    <2>. QED  BY <1>6, <2>1 DEF Avanzar, TypeOK
  <1>7. CASE UNCHANGED vars
    BY <1>7 DEF vars, TypeOK
  <1>. QED  BY <1>1, <1>2, <1>3, <1>4, <1>5, <1>6, <1>7, <1>8 DEF Next

(* Every variable of Vencimiento keeps its type.                           *)
THEOREM TiposSiempre == Spec => []TypeOK
  BY TiposInicio, TiposPaso, PTL DEF Spec

(* A boundary that was read or answered is past, or the start of a period  *)
(* that covers it: no end can take its name later.                         *)
Conocida(b) == b <= ahora \/ CubiertoEn(Rangos(periodos), b)

Claves == SinCorregir => \A b \in respuestas \cup {leida[j] : j \in Trabajos} : Conocida(b)

Respondidos == TypeOK /\ Claves /\ LimiteRespondido

(* While periods are only added, an approval adds its range and no other.  *)
LEMMA AlSumar ==
  ASSUME periodos \in Seq(Periodo), NEW p \in Periodo, periodos' = Append(periodos, p),
         SinCorregir'
  PROVE  /\ SinCorregir
         /\ Rangos(periodos)' = Rangos(periodos) \cup {[inicio |-> p.inicio, fin |-> p.fin]}
  <1>. DEFINE m == Len(periodos) + 1
              r == [inicio |-> p.inicio, fin |-> p.fin]
  <1>1. /\ DOMAIN periodos' = DOMAIN periodos \cup {m}
        /\ \A k \in DOMAIN periodos : periodos'[k] = periodos[k]
        /\ periodos'[m] = p
    BY VigentesTrasAprobar
  <1>2. DOMAIN periodos = 1..Len(periodos) /\ Len(periodos) \in Nat
    BY LenProperties
  <1>3. \A k \in DOMAIN periodos' : periodos'[k].sustituye = 0
    BY DEF SinCorregir
  <1>4. SinCorregir
    BY <1>1, <1>3 DEF SinCorregir
  <1>5. Vigentes(periodos) = DOMAIN periodos /\ Vigentes(periodos') = DOMAIN periodos'
    BY <1>1, <1>2, <1>3, <1>4 DEF Vigentes, SinCorregir
  <1>. HIDE DEF m
  <1>6. \A x : x \in Rangos(periodos') <=> x \in Rangos(periodos) \cup {r}
    <2>1. \A x : x \in Rangos(periodos') <=>
            \E k \in DOMAIN periodos' : x = [inicio |-> periodos'[k].inicio, fin |-> periodos'[k].fin]
      BY <1>5 DEF Rangos
    <2>2. \A x : x \in Rangos(periodos) <=>
            \E k \in DOMAIN periodos : x = [inicio |-> periodos[k].inicio, fin |-> periodos[k].fin]
      BY <1>5 DEF Rangos
    <2>. QED  BY <1>1, <2>1, <2>2
  <1>. QED  BY <1>4, <1>6

(* An approval hides no interval behind an answer given before.            *)
LEMMA AprobarRespeta ==
  ASSUME Respondidos, NEW p \in Periodo, Aprobar(p)
  PROVE  (Claves /\ LimiteRespondido)'
  <1>. SUFFICES ASSUME SinCorregir' PROVE (Claves /\ LimiteRespondido)'
    BY DEF Claves, LimiteRespondido
  <1>. DEFINE A == Rangos(periodos)
              r == [inicio |-> p.inicio, fin |-> p.fin]
  <1>1. /\ periodos \in Seq(Periodo) /\ ahora \in Nat /\ respuestas \subseteq Instantes
        /\ periodos' = Append(periodos, p) /\ ahora < p.fin
        /\ UNCHANGED <<ahora, estado, pausa, pausaDe, leida, respuestas, perdidas>>
    BY InstantesNat DEF Respondidos, TypeOK, Periodo, Aprobar
  <1>2. SinCorregir /\ Rangos(periodos') = A \cup {r}
    BY <1>1, AlSumar
  <1>3. A \in SUBSET Rango /\ r \in Rango /\ r.fin = p.fin
    BY <1>1, RangosBien DEF Rango, Periodo
  <1>4. \A b : CubiertoEn(A, b) => CubiertoEn(A \cup {r}, b)
    BY DEF CubiertoEn
  <1>5. Claves'
    BY <1>1, <1>2, <1>4 DEF Respondidos, Claves, Conocida
  <1>. HIDE DEF A, r
  <1>6. LimiteRespondido'
    <2>. SUFFICES ASSUME CorreSinCobertura', (LimiteActual \in respuestas)'
                  PROVE  (pausa' # "ninguna" /\ pausaDe' = LimiteActual')
                           \/ LimiteActual' \in perdidas'
      BY DEF LimiteRespondido
    <2>. DEFINE b == Limite(A \cup {r}, ahora)
    <2>0. LimiteActual' = b
      BY <1>1, <1>2 DEF LimiteActual
    <2>1. b \in respuestas /\ b \in Instantes
      BY <1>1, <2>0
    <2>2. b <= ahora \/ CubiertoEn(A, b)
      BY <1>2, <2>1 DEF Respondidos, Claves, Conocida, A
    <2>3. estado = "RUNNING" /\ ~CubiertoEn(A \cup {r}, ahora)
      BY <1>1, <1>2 DEF CorreSinCobertura, Cubierto
    <2>4. Limite(A, ahora) = b
      <3>. HIDE DEF b
      <3>1. b = Limite(A \cup {r}, ahora)
        BY DEF b
      <3>. QED  BY <1>1, <1>3, <2>1, <2>2, <2>3, <3>1, LimiteAlAgregar
    <2>5. CorreSinCobertura
      BY <1>4, <2>3 DEF CorreSinCobertura, Cubierto, A
    <2>6. LimiteActual = b
      BY <2>4 DEF A, LimiteActual
    <2>. HIDE DEF b
    <2>7. (pausa # "ninguna" /\ pausaDe = b) \/ b \in perdidas
      BY <1>2, <2>1, <2>5, <2>6 DEF Respondidos, LimiteRespondido
    <2>. QED  BY <1>1, <2>0, <2>7
  <1>. QED  BY <1>5, <1>6

(* Nor does the end of coverage, which was neither past nor covered        *)
(* before.                                                                 *)
LEMMA AvanzarRespeta ==
  ASSUME Respondidos, Avanzar
  PROVE  (Claves /\ LimiteRespondido)'
  <1>. DEFINE A == Rangos(periodos)
  <1>1. /\ periodos \in Seq(Periodo) /\ ahora \in Nat /\ respuestas \subseteq Instantes
        /\ leida \in [Trabajos -> 0..Horizonte]
        /\ ahora' = ahora + 1 /\ ahora + 1 \in Instantes
        /\ UNCHANGED <<periodos, estado, pausa, pausaDe, leida, respuestas, perdidas>>
    BY InstantesNat DEF Respondidos, TypeOK, Periodo, Avanzar, Instantes
  <1>2. A \in SUBSET Rango
    BY <1>1, RangosBien
  <1>3. Claves'
    <2>1. SinCorregir' <=> SinCorregir
      BY <1>1 DEF SinCorregir
    <2>2. ASSUME SinCorregir, NEW b \in respuestas \cup {leida[j] : j \in Trabajos}
          PROVE  b <= ahora + 1 \/ CubiertoEn(A, b)
      <3>1. b \in Nat
        BY <1>1, InstantesNat
      <3>2. b <= ahora \/ CubiertoEn(A, b)
        BY <2>2 DEF Respondidos, Claves, Conocida
      <3>. QED  BY <1>1, <3>1, <3>2
    <2>. QED  BY <1>1, <2>1, <2>2 DEF Claves, Conocida
  <1>. HIDE DEF A
  <1>4. LimiteRespondido'
    <2>. SUFFICES ASSUME SinCorregir, estado = "RUNNING", ~CubiertoEn(A, ahora + 1),
                         Limite(A, ahora + 1) \in respuestas
                  PROVE  (pausa # "ninguna" /\ pausaDe = Limite(A, ahora + 1))
                           \/ Limite(A, ahora + 1) \in perdidas
      BY <1>1 DEF LimiteRespondido, SinCorregir, CorreSinCobertura, Cubierto, LimiteActual, A
    <2>1. CASE CubiertoEn(A, ahora)
      <3>1. Limite(A, ahora + 1) = ahora + 1
        BY <1>1, <1>2, <2>1, LimiteAlTerminar
      <3>2. ahora + 1 <= ahora \/ CubiertoEn(A, ahora + 1)
        BY <3>1 DEF Respondidos, Claves, Conocida, A
      <3>. QED  BY <1>1, <3>2
    <2>2. CASE ~CubiertoEn(A, ahora)
      <3>1. Limite(A, ahora + 1) = Limite(A, ahora)
        BY <1>1, <1>2, <2>2, LimiteSigue
      <3>. QED
        BY <2>2, <3>1 DEF Respondidos, LimiteRespondido, CorreSinCobertura, Cubierto,
             LimiteActual, A
    <2>. QED  BY <2>1, <2>2
  <1>. QED  BY <1>3, <1>4

(* The job reads a known boundary, and answers it with a pause or under    *)
(* coverage.                                                               *)
LEMMA TrabajoRespeta ==
  ASSUME Respondidos, NEW j \in Trabajos, Leer(j) \/ Decidir(j)
  PROVE  (Claves /\ LimiteRespondido)'
  <1>. DEFINE A == Rangos(periodos)
  <1>1. /\ periodos \in Seq(Periodo) /\ ahora \in Nat
        /\ leida \in [Trabajos -> 0..Horizonte]
        /\ UNCHANGED <<periodos, ahora, estado>>
    BY InstantesNat DEF Respondidos, TypeOK, Periodo, Leer, Decidir
  <1>2. A \in SUBSET Rango
    BY <1>1, RangosBien
  <1>3. CASE Leer(j)
    <2>1. Conocida(Limite(A, ahora))
      <3>1. Limite(A, ahora) \in Comienzos(A) => CubiertoEn(A, Limite(A, ahora))
        BY DEF Comienzos, Empieza
      <3>. HIDE DEF A
      <3>2. Limite(A, ahora) <= ahora \/ CubiertoEn(A, Limite(A, ahora))
        BY <1>1, <1>2, <3>1, LimiteBien DEF Nada
      <3>. QED  BY <3>2 DEF Conocida, A
    <2>2. ASSUME SinCorregir, NEW k \in Trabajos PROVE Conocida(leida'[k])
      BY <1>1, <1>3, <2>1, <2>2 DEF Leer, Respondidos, Claves
    <2>3. Claves'
      BY <1>1, <1>3, <2>2 DEF Leer, Respondidos, Claves, Conocida, SinCorregir
    <2>4. LimiteRespondido'
      BY <1>1, <1>3
      DEF Leer, Respondidos, LimiteRespondido, SinCorregir, CorreSinCobertura, Cubierto, LimiteActual
    <2>. QED  BY <2>3, <2>4
  <1>4. CASE Decidir(j)
    <2>1. ASSUME SinCorregir, NEW k \in Trabajos PROVE Conocida(leida'[k])
      BY <1>1, <1>4, <2>1 DEF Decidir, Respondidos, Claves, Conocida, Nada
    <2>2. ASSUME SinCorregir, NEW b \in respuestas' PROVE Conocida(b)
      BY <1>4, <2>2 DEF Decidir, Respondidos, Claves
    <2>3. Claves'
      BY <1>1, <2>1, <2>2 DEF Claves, Conocida, SinCorregir
    <2>4. LimiteRespondido'
      <3>. DEFINE decide == leida[j] \notin respuestas /\ pausa = "ninguna"
      <3>1. LimiteActual' = LimiteActual /\ (SinCorregir' <=> SinCorregir)
            /\ (CorreSinCobertura' <=> CorreSinCobertura) /\ perdidas' = perdidas
        BY <1>1, <1>4 DEF LimiteActual, SinCorregir, CorreSinCobertura, Cubierto, Decidir
      <3>2. CASE ~decide
        BY <1>4, <3>1, <3>2 DEF Decidir, Respondidos, LimiteRespondido
      <3>3. CASE decide
        BY <1>4, <3>1, <3>3 DEF Decidir, Respondidos, LimiteRespondido, CorreSinCobertura
      <3>. QED  BY <3>2, <3>3
    <2>. QED  BY <2>3, <2>4
  <1>. QED  BY <1>3, <1>4

(* LimiteRespondido in every reachable state, for any periods added at any *)
(* moment and any number of executions of the job: what one of them read   *)
(* before it took the lock never names an interval that begins later, and  *)
(* a boundary whose order ended has its pause, or lost it.                 *)
THEOREM LimiteRespondidoSiempre == Spec => []LimiteRespondido
  <1>1. Init => Respondidos
    BY TiposInicio DEF Init, Respondidos, Claves, Conocida, LimiteRespondido, Nada
  <1>2. Respondidos /\ [Next]_vars => Respondidos'
    <2>. SUFFICES ASSUME Respondidos, [Next]_vars PROVE (Claves /\ LimiteRespondido)'
      BY TiposPaso DEF Respondidos
    <2>1. ASSUME NEW i \in Instantes, NEW f \in Instantes, NEW s \in 0..MaxPeriodos,
                 Aprobar([inicio |-> i, fin |-> f, sustituye |-> s])
          PROVE  (Claves /\ LimiteRespondido)'
      <3>. DEFINE p == [inicio |-> i, fin |-> f, sustituye |-> s]
      <3>1. p \in Periodo
        BY DEF Periodo
      <3>. QED  BY <2>1, <3>1, AprobarRespeta
    <2>2. CASE Avanzar
      BY <2>2, AvanzarRespeta
    <2>3. ASSUME NEW j \in Trabajos, Leer(j) \/ Decidir(j) PROVE (Claves /\ LimiteRespondido)'
      BY <2>3, TrabajoRespeta
    <2>4. CASE Avisar \/ UNCHANGED vars
      BY <2>4 DEF Avisar, vars, Respondidos, Claves, Conocida, LimiteRespondido, SinCorregir,
           CorreSinCobertura, Cubierto, LimiteActual
    <2>5. CASE EnviarPausa \/ PausaObsoleta \/ ConfirmarPausa \/ FallarPausa \/ Iniciar
               \/ EncenderFuera
      <3>1. UNCHANGED <<periodos, ahora, leida, respuestas>>
        BY <2>5 DEF EnviarPausa, PausaObsoleta, ConfirmarPausa, FallarPausa, CerrarPausa,
             Iniciar, EncenderFuera
      <3>2. LimiteActual' = LimiteActual /\ (SinCorregir' <=> SinCorregir)
            /\ (Cubierto' <=> Cubierto)
        BY <3>1 DEF LimiteActual, SinCorregir, Cubierto
      <3>3. Claves'
        BY <3>1, <3>2 DEF Respondidos, Claves, Conocida
      <3>4. LimiteRespondido'
        BY <2>5, <3>1, <3>2
        DEF EnviarPausa, PausaObsoleta, ConfirmarPausa, FallarPausa, CerrarPausa, Iniciar,
            EncenderFuera, Respondidos, LimiteRespondido, CorreSinCobertura, LimiteActual
      <3>. QED  BY <3>3, <3>4
    <2>. QED  BY <2>1, <2>2, <2>3, <2>4, <2>5 DEF Next
  <1>3. Respondidos => LimiteRespondido
    BY DEF Respondidos
  <1>. QED  BY <1>1, <1>2, <1>3, PTL DEF Spec

(* AvisoCumplido in every reachable state: the end announced was that of   *)
(* the coverage around the notice, and periods that are added take no      *)
(* instant away.                                                           *)
THEOREM AvisoSiempre == Spec => []AvisoCumplido
  <1>1. Init => AvisoCumplido
    BY DEF Init, AvisoCumplido
  <1>2. TypeOK /\ AvisoCumplido /\ [Next]_vars => AvisoCumplido'
    <2>. SUFFICES ASSUME TypeOK, AvisoCumplido, [Next]_vars, SinCorregir' PROVE AvisoCumplido'
      BY DEF AvisoCumplido
    <2>. DEFINE A == Rangos(periodos)
    <2>0. /\ periodos \in Seq(Periodo) /\ ahora \in Nat /\ A \in SUBSET Rango
          /\ avisados \subseteq Nat
      BY RangosBien, InstantesNat DEF TypeOK, Periodo
    <2>1. ASSUME NEW i \in Instantes, NEW f \in Instantes, NEW s \in 0..MaxPeriodos,
                 Aprobar([inicio |-> i, fin |-> f, sustituye |-> s])
          PROVE  AvisoCumplido'
      <3>. DEFINE p == [inicio |-> i, fin |-> f, sustituye |-> s]
      <3>1. p \in Periodo /\ periodos' = Append(periodos, p) /\ UNCHANGED <<ahora, avisados>>
        BY <2>1 DEF Aprobar, Periodo
      <3>. HIDE DEF p
      <3>2. SinCorregir /\ Rangos(periodos)' = A \cup {[inicio |-> p.inicio, fin |-> p.fin]}
        BY <2>0, <3>1, AlSumar
      <3>3. \A u : CubiertoEn(A, u) => CubiertoEn(Rangos(periodos)', u)
        BY <3>2 DEF CubiertoEn
      <3>. QED  BY <3>1, <3>2, <3>3 DEF AvisoCumplido
    <2>2. CASE Avisar
      <3>1. FinActual # Nada /\ avisados' = avisados \cup {FinActual}
            /\ UNCHANGED <<periodos, ahora>>
        BY <2>2 DEF Avisar
      <3>2. ASSUME NEW u \in Instantes, ahora <= u, u < FinActual PROVE CubiertoEn(A, u)
        <4>. DEFINE S == {x \in Finales(A) : ahora < x}
        <4>1. Cubierto /\ FinActual = Min(S) /\ S # {}
          BY <3>1 DEF FinActual, PrimeroTras
        <4>2. S \in SUBSET Nat
          BY <2>0, CambiosBien, InstantesNat
        <4>3. \A x \in S : FinActual <= x
          <5>. HIDE DEF S
          <5>. QED  BY <4>1, <4>2, HayMenor
        <4>4. CubiertoEn(A, ahora) /\ u \in Nat
          BY <4>1, InstantesNat DEF Cubierto
        <4>5. ASSUME ~CubiertoEn(A, u) PROVE FALSE
          <5>1. ahora < u
            BY <2>0, <3>2, <4>4, <4>5
          <5>2. PICK x \in Finales(A) : ahora < x /\ x <= u
            <6>. HIDE DEF A
            <6>. QED  BY <2>0, <4>4, <4>5, <5>1, HayFinal
          <5>3. FinActual <= x /\ x \in Nat /\ FinActual \in Nat
            BY <2>0, <4>3, <5>2, CambiosBien, FinActualBien, InstantesNat, <3>1
          <5>. QED  BY <3>2, <4>4, <5>2, <5>3
        <4>. QED  BY <4>5
      <3>3. SinCorregir /\ Rangos(periodos)' = A
        BY <3>1 DEF SinCorregir
      <3>. QED  BY <3>1, <3>2, <3>3 DEF AvisoCumplido
    <2>3. CASE Avanzar
      <3>1. ahora' = ahora + 1 /\ UNCHANGED <<periodos, avisados>> /\ SinCorregir
        BY <2>3 DEF Avanzar, SinCorregir
      <3>2. \A u \in Instantes : ahora + 1 <= u => ahora <= u
        BY <2>0, InstantesNat
      <3>. QED  BY <3>1, <3>2 DEF AvisoCumplido
    <2>4. ASSUME UNCHANGED <<periodos, ahora, avisados>> PROVE AvisoCumplido'
      BY <2>4 DEF AvisoCumplido, SinCorregir
    <2>. QED
      BY <2>1, <2>2, <2>3, <2>4 DEF Next, vars, Leer, Decidir, EnviarPausa, PausaObsoleta,
           ConfirmarPausa, FallarPausa, CerrarPausa, Iniciar, EncenderFuera
  <1>. QED  BY <1>1, <1>2, TiposSiempre, PTL DEF Spec
----------------------------------------------------------------------------
(* One equation of the loop.                                               *)
Paso(h, S) == IF S = {} THEN <<>> ELSE Unir(h[S \ {Ultimo(S)}], Ultimo(S))

(* Sets of ranges with at most n members.                                  *)
Hasta(A, n) == {S \in SUBSET A : Cardinality(S) <= n}

(* A set of ranges that is not empty has a last one in the order.         *)
LEMMA UltimoBien ==
  ASSUME NEW S \in SUBSET Rango, S # {}
  PROVE  Ultimo(S) \in S /\ \A q \in S \ {Ultimo(S)} : Antes(q, Ultimo(S))
  <1>. DEFINE I == {r.inicio : r \in S}
              i == Max(I)
              F == {r.fin : r \in {q \in S : q.inicio = i}}
              f == Max(F)
              z == [inicio |-> i, fin |-> f]
  <1>1. \A r \in S : r.inicio \in Instantes /\ r.fin \in Instantes
                     /\ r = [inicio |-> r.inicio, fin |-> r.fin]
    BY DEF Rango
  <1>2. I \in SUBSET Nat /\ I # {} /\ \A y \in I : y <= Horizonte
    BY <1>1, InstantesNat
  <1>3. i \in I /\ \A y \in I : y <= i
    <2>. HIDE DEF I
    <2>. QED  BY <1>2, HayMayor, InstantesNat
  <1>. HIDE DEF i
  <1>4. F \in SUBSET Nat /\ F # {} /\ \A y \in F : y <= Horizonte
    BY <1>1, <1>3, InstantesNat
  <1>5. f \in F /\ \A y \in F : y <= f
    <2>. HIDE DEF F
    <2>. QED  BY <1>4, HayMayor, InstantesNat
  <1>. HIDE DEF f
  <1>6. z \in S
    BY <1>1, <1>5
  <1>7. \A q \in S \ {z} : Antes(q, z)
    <2>. SUFFICES ASSUME NEW q \in S \ {z} PROVE Antes(q, z)
      OBVIOUS
    <2>1. q.inicio <= i /\ q.inicio \in Nat /\ i \in Nat /\ q.fin \in Nat
      BY <1>1, <1>2, <1>3, InstantesNat
    <2>2. q.inicio = i => q.fin <= f /\ f \in Nat /\ q.fin # f
      BY <1>1, <1>4, <1>5
    <2>. QED  BY <2>1, <2>2 DEF Antes
  <1>. HIDE DEF z
  <1>. QED  BY <1>6, <1>7 DEF Ultimo

(* The loop is defined on every subset: on those with n members because it *)
(* is on those with fewer.                                                 *)
LEMMA PasoDefinido ==
  ASSUME NEW A \in SUBSET Rango, IsFiniteSet(A)
  PROVE  \A n \in Nat : \E h : h = [S \in Hasta(A, n) |-> Paso(h, S)]
  <1>. DEFINE Malos == {n \in Nat : ~\E h : h = [S \in Hasta(A, n) |-> Paso(h, S)]}
  <1>. SUFFICES ASSUME Malos # {} PROVE FALSE
    OBVIOUS
  <1>. DEFINE m == Min(Malos)
  <1>1. m \in Malos /\ \A y \in Malos : m <= y
    <2>1. Malos \in SUBSET Nat
      OBVIOUS
    <2>. HIDE DEF Malos
    <2>. QED  BY <2>1, HayMenor
  <1>. HIDE DEF m
  <1>2. \A S \in SUBSET A : IsFiniteSet(S) /\ Cardinality(S) \in Nat
                             /\ (Cardinality(S) = 0 <=> S = {})
    BY FS_Subset, FS_CardinalityType, FS_EmptySet
  <1>3. CASE m = 0
    <2>. DEFINE h == [S \in Hasta(A, 0) |-> <<>>]
    <2>1. \A S \in Hasta(A, 0) : S = {}
      BY <1>2 DEF Hasta
    <2>2. h = [S \in Hasta(A, 0) |-> Paso(h, S)]
      BY <2>1 DEF Paso
    <2>. QED  BY <1>1, <1>3, <2>2
  <1>4. CASE m # 0
    <2>1. m \in Nat /\ m - 1 \in Nat /\ m - 1 \notin Malos
      BY <1>1, <1>4
    <2>2. PICK g : g = [S \in Hasta(A, m - 1) |-> Paso(g, S)]
      BY <2>1
    <2>. DEFINE h == [S \in Hasta(A, m) |-> Paso(g, S)]
    <2>3. ASSUME NEW S \in Hasta(A, m), S # {}
          PROVE  S \ {Ultimo(S)} \in Hasta(A, m - 1) /\ S \ {Ultimo(S)} \in Hasta(A, m)
      <3>1. Ultimo(S) \in S /\ S \in SUBSET A
        BY <2>3, UltimoBien DEF Hasta
      <3>2. Cardinality(S \ {Ultimo(S)}) = Cardinality(S) - 1
        BY <1>2, <3>1, FS_RemoveElement
      <3>3. S \ {Ultimo(S)} \in SUBSET A
        BY <3>1
      <3>. QED  BY <1>2, <2>1, <3>1, <3>2, <3>3 DEF Hasta
    <2>4. \A S \in Hasta(A, m - 1) : h[S] = g[S]
      <3>1. Hasta(A, m - 1) \subseteq Hasta(A, m)
        BY <1>2, <2>1 DEF Hasta
      <3>2. \A S \in Hasta(A, m - 1) : g[S] = Paso(g, S)
        BY <2>2
      <3>. QED  BY <3>1, <3>2
    <2>5. ASSUME NEW S \in Hasta(A, m) PROVE Paso(g, S) = Paso(h, S)
      <3>. HIDE DEF h
      <3>. QED  BY <2>3, <2>4 DEF Paso
    <2>6. h = [S \in Hasta(A, m) |-> Paso(h, S)]
      <3>1. [S \in Hasta(A, m) |-> Paso(g, S)] = [S \in Hasta(A, m) |-> Paso(h, S)]
        BY <2>5
      <3>. QED  BY <3>1
    <2>. QED  BY <1>1, <2>6
  <1>. QED  BY <1>3, <1>4

(* The loop, as a function that satisfies its equation.                    *)
LEMMA UnidosBien ==
  ASSUME NEW A \in SUBSET Rango, IsFiniteSet(A)
  PROVE  \E h : /\ \A S \in SUBSET A : h[S] = Paso(h, S)
                /\ Unidos(A) = Range(h[A])
  <1>. DEFINE h[S \in SUBSET A] ==
                IF S = {} THEN <<>> ELSE Unir(h[S \ {Ultimo(S)}], Ultimo(S))
  <1>1. Unidos(A) = Range(h[A])
    BY DEF Unidos
  <1>2. \E g : g = [S \in SUBSET A |-> IF S = {} THEN <<>> ELSE Unir(g[S \ {Ultimo(S)}], Ultimo(S))]
    <2>1. Cardinality(A) \in Nat
      BY FS_CardinalityType
    <2>2. Hasta(A, Cardinality(A)) = SUBSET A
      BY FS_Subset DEF Hasta
    <2>3. PICK g : g = [S \in SUBSET A |-> Paso(g, S)]
      BY <2>1, <2>2, PasoDefinido
    <2>. QED  BY <2>3 DEF Paso
  <1>3. h = [S \in SUBSET A |-> IF S = {} THEN <<>> ELSE Unir(h[S \ {Ultimo(S)}], Ultimo(S))]
    BY <1>2
  <1>. HIDE DEF h
  <1>4. \A S \in SUBSET A : h[S] = Paso(h, S)
    BY <1>3 DEF Paso
  <1>. QED  BY <1>1, <1>4

(* Ranges that are not empty.                                              *)
RangoLleno == {r \in Rango : r.inicio < r.fin}

(* What the loop has after the ranges of S: ranges in order, apart from    *)
(* one another, that begin and end where one of S does and cover what S    *)
(* covers.                                                                 *)
Unida(S, u) ==
  /\ u \in Seq(RangoLleno)
  /\ \A k, n \in 1..Len(u) : k < n => u[k].fin < u[n].inicio
  /\ \A k \in 1..Len(u) : /\ \E q \in S : q.inicio = u[k].inicio
                          /\ \E q \in S : q.fin = u[k].fin
  /\ \A t \in Nat : CubiertoEn(S, t) <=> \E k \in 1..Len(u) : Contiene(u[k], t)

(* One turn of the loop, with the last of the ranges.                      *)
LEMMA UnirBien ==
  ASSUME NEW S \in SUBSET RangoLleno, NEW r \in S, NEW u,
         \A q \in S \ {r} : Antes(q, r), Unida(S \ {r}, u)
  PROVE  Unida(S, Unir(u, r))
  <1>. DEFINE n == Len(u)
              w == Unir(u, r)
  <1>1. /\ u \in Seq(RangoLleno) /\ n \in Nat /\ \A k \in 1..n : u[k] \in RangoLleno
        /\ (u # <<>> <=> n # 0) /\ (n # 0 => Last(u) = u[n])
    BY LenProperties, EmptySeq DEF Unida, Last
  <1>2. \A q \in RangoLleno : q.inicio \in Nat /\ q.fin \in Nat /\ q.inicio < q.fin
                              /\ q.inicio \in Instantes /\ q.fin \in Instantes
    BY InstantesNat DEF RangoLleno, Rango
  <1>3. r \in RangoLleno
    OBVIOUS
  <1>4. \A k \in 1..n : u[k].inicio <= r.inicio
    <2>. SUFFICES ASSUME NEW k \in 1..n PROVE u[k].inicio <= r.inicio
      OBVIOUS
    <2>1. PICK q \in S \ {r} : q.inicio = u[k].inicio
      BY DEF Unida
    <2>. QED  BY <1>2, <2>1 DEF Antes
  <1>5. \A t \in Nat : CubiertoEn(S, t) <=> CubiertoEn(S \ {r}, t) \/ Contiene(r, t)
    BY DEF CubiertoEn
  <1>6. CASE n # 0 /\ r.inicio <= u[n].fin
    <2>. DEFINE f == Max({u[n].fin, r.fin})
    <2>1. f \in {u[n].fin, r.fin} /\ u[n].fin <= f /\ r.fin <= f
      <3>. DEFINE F == {u[n].fin, r.fin}
      <3>1. F \in SUBSET Nat /\ F # {} /\ Horizonte \in Nat /\ \A y \in F : y <= Horizonte
        BY <1>1, <1>2, <1>3, <1>6, InstantesNat
      <3>2. Max(F) \in F /\ \A y \in F : y <= Max(F)
        <4>. HIDE DEF F
        <4>. QED  BY <3>1, HayMayor
      <3>. QED  BY <3>2
    <2>2. w = [u EXCEPT ![n].fin = f]
      BY <1>1, <1>6 DEF Unir
    <2>. HIDE DEF f, w
    <2>3. n \in 1..n /\ u[n] \in RangoLleno
      BY <1>1, <1>6
    <2>4. [u[n] EXCEPT !.fin = f] \in RangoLleno
          /\ [u[n] EXCEPT !.fin = f].inicio = u[n].inicio /\ [u[n] EXCEPT !.fin = f].fin = f
      BY <1>2, <1>3, <2>1, <2>3 DEF RangoLleno, Rango
    <2>5. /\ w \in Seq(RangoLleno) /\ Len(w) = n
          /\ \A k \in 1..n : k # n => w[k] = u[k]
          /\ w[n].inicio = u[n].inicio /\ w[n].fin = f /\ w[n] \in RangoLleno
      BY <1>1, <2>2, <2>3, <2>4
    <2>6. \A k, j \in 1..Len(w) : k < j => w[k].fin < w[j].inicio
      BY <1>1, <2>5 DEF Unida
    <2>7. \A k \in 1..Len(w) : /\ \E q \in S : q.inicio = w[k].inicio
                               /\ \E q \in S : q.fin = w[k].fin
      <3>. SUFFICES ASSUME NEW k \in 1..n
                    PROVE  /\ \E q \in S : q.inicio = w[k].inicio
                           /\ \E q \in S : q.fin = w[k].fin
        BY <2>5
      <3>1. PICK p \in S, q \in S : p.inicio = u[k].inicio /\ q.fin = u[k].fin
        BY DEF Unida
      <3>2. CASE k # n
        BY <2>5, <3>1, <3>2
      <3>3. CASE k = n
        BY <2>1, <2>5, <3>1, <3>3
      <3>. QED  BY <3>2, <3>3
    <2>8. \A t \in Nat : Contiene(w[n], t) <=> Contiene(u[n], t) \/ Contiene(r, t)
      BY <1>2, <1>3, <1>4, <1>6, <2>1, <2>3, <2>5 DEF Contiene
    <2>9. \A t \in Nat : CubiertoEn(S, t) <=> \E k \in 1..Len(w) : Contiene(w[k], t)
      <3>. SUFFICES ASSUME NEW t \in Nat
                    PROVE  CubiertoEn(S, t) <=> \E k \in 1..n : Contiene(w[k], t)
        BY <2>5
      <3>1. CubiertoEn(S \ {r}, t) <=> \E k \in 1..n : Contiene(u[k], t)
        BY DEF Unida
      <3>. QED  BY <1>5, <2>3, <2>5, <2>8, <3>1
    <2>10. QED  BY <2>5, <2>6, <2>7, <2>9 DEF Unida, w
  <1>7. CASE ~(n # 0 /\ r.inicio <= u[n].fin)
    <2>1. w = Append(u, r)
      BY <1>1, <1>7 DEF Unir
    <2>. HIDE DEF w
    <2>2. /\ w \in Seq(RangoLleno) /\ Len(w) = n + 1
          /\ \A k \in 1..n : w[k] = u[k]
          /\ w[n + 1] = r
      BY <1>1, <1>3, <2>1, AppendProperties
    <2>3. \A k \in 1..n : u[k].fin < r.inicio
      <3>. SUFFICES ASSUME NEW k \in 1..n PROVE u[k].fin < r.inicio
        OBVIOUS
      <3>1. n \in 1..n /\ u[n].fin < r.inicio
        BY <1>1, <1>2, <1>3, <1>7
      <3>2. k # n => u[k].fin < u[n].inicio
        BY <1>1, <3>1 DEF Unida
      <3>. QED  BY <1>1, <1>2, <1>3, <3>1, <3>2
    <2>4. ASSUME NEW k \in 1..Len(w), NEW j \in 1..Len(w), k < j
          PROVE  w[k].fin < w[j].inicio
      <3>1. k \in 1..n /\ w[k] = u[k]
        BY <1>1, <2>2, <2>4
      <3>2. CASE j \in 1..n
        BY <2>2, <2>4, <3>1, <3>2 DEF Unida
      <3>3. CASE j = n + 1
        BY <2>2, <2>3, <3>1, <3>3
      <3>. QED  BY <1>1, <2>2, <3>2, <3>3
    <2>5. \A k \in 1..Len(w) : /\ \E q \in S : q.inicio = w[k].inicio
                               /\ \E q \in S : q.fin = w[k].fin
      BY <1>1, <2>2 DEF Unida
    <2>6. \A t \in Nat : CubiertoEn(S, t) <=> \E k \in 1..Len(w) : Contiene(w[k], t)
      <3>. SUFFICES ASSUME NEW t \in Nat
                    PROVE  CubiertoEn(S, t) <=> \E k \in 1..n + 1 : Contiene(w[k], t)
        BY <2>2
      <3>1. CubiertoEn(S \ {r}, t) <=> \E k \in 1..n : Contiene(u[k], t)
        BY DEF Unida
      <3>2. (\E k \in 1..n + 1 : Contiene(w[k], t))
              <=> (\E k \in 1..n : Contiene(u[k], t)) \/ Contiene(r, t)
        BY <1>1, <2>2
      <3>. QED  BY <1>5, <3>1, <3>2
    <2>. QED  BY <2>2, <2>4, <2>5, <2>6 DEF Unida, w
  <1>. QED  BY <1>6, <1>7

(* The loop joins what it is given, by the number of ranges.               *)
LEMMA HastaUnida ==
  ASSUME NEW A \in SUBSET RangoLleno, IsFiniteSet(A), NEW h,
         \A S \in SUBSET A : h[S] = Paso(h, S)
  PROVE  \A S \in SUBSET A : Unida(S, h[S])
  <1>. DEFINE Malos == {Cardinality(S) : S \in {S \in SUBSET A : ~Unida(S, h[S])}}
  <1>. SUFFICES ASSUME Malos # {} PROVE FALSE
    OBVIOUS
  <1>. DEFINE m == Min(Malos)
  <1>1. \A S \in SUBSET A : IsFiniteSet(S) /\ Cardinality(S) \in Nat
                             /\ (Cardinality(S) = 0 <=> S = {})
    BY FS_Subset, FS_CardinalityType, FS_EmptySet
  <1>2. m \in Malos /\ \A y \in Malos : m <= y
    <2>1. Malos \in SUBSET Nat
      BY <1>1
    <2>. HIDE DEF Malos
    <2>. QED  BY <2>1, HayMenor
  <1>3. PICK S \in SUBSET A : ~Unida(S, h[S]) /\ Cardinality(S) = m
    BY <1>2
  <1>4. CASE S = {}
    <2>1. h[S] = <<>>
      BY <1>4 DEF Paso
    <2>2. Unida({}, <<>>)
      BY DEF Unida, CubiertoEn
    <2>. QED  BY <1>3, <1>4, <2>1, <2>2
  <1>5. CASE S # {}
    <2>. DEFINE r == Ultimo(S)
                T == S \ {r}
    <2>1. S \in SUBSET RangoLleno /\ S \in SUBSET Rango
      BY DEF RangoLleno
    <2>2. r \in S /\ \A q \in T : Antes(q, r)
      BY <1>5, <2>1, UltimoBien
    <2>3. h[S] = Unir(h[T], r)
      BY <1>5 DEF Paso
    <2>. HIDE DEF r
    <2>4. T \in SUBSET A /\ Cardinality(T) = Cardinality(S) - 1
      BY <1>1, <2>2, FS_RemoveElement
    <2>5. Unida(T, h[T])
      <3>1. Cardinality(T) < m /\ Cardinality(T) \in Nat
        BY <1>1, <1>3, <2>4
      <3>. HIDE DEF m, T
      <3>2. Cardinality(T) \notin Malos
        <4>. HIDE DEF Malos
        <4>1. m \in Nat
          BY <1>1, <1>3
        <4>. QED  BY <1>2, <3>1, <4>1
      <3>. QED  BY <2>4, <3>2
    <2>6. Unida(S, Unir(h[T], r))
      <3>. HIDE DEF Malos, m
      <3>. QED  BY <2>1, <2>2, <2>5, UnirBien
    <2>. QED  BY <1>3, <2>3, <2>6
  <1>. QED  BY <1>4, <1>5

(* What the joined ranges say of the starts and the ends of coverage.      *)
LEMMA CambiosUnidos ==
  ASSUME NEW A \in SUBSET RangoLleno, NEW u, Unida(A, u)
  PROVE  /\ Finales(A) = {r.fin : r \in Range(u)}
         /\ Comienzos(A) = {r.inicio : r \in Range(u)}
         /\ Range(u) \subseteq RangoLleno
         /\ \A t \in Nat : CubiertoEn(A, t) <=> CubiertoEn(Range(u), t)
         /\ \A p, q \in Range(u) : p = q \/ p.fin < q.inicio \/ q.fin < p.inicio
  <1>. DEFINE U == Range(u)
  <1>1. /\ Len(u) \in Nat /\ DOMAIN u = 1..Len(u)
        /\ \A k \in 1..Len(u) : u[k] \in RangoLleno
    BY LenProperties DEF Unida
  <1>2. U = {u[k] : k \in 1..Len(u)}
    BY <1>1 DEF Range
  <1>3. U \subseteq RangoLleno
    BY <1>1, <1>2
  <1>4. \A t \in Nat : CubiertoEn(A, t) <=> CubiertoEn(U, t)
    BY <1>2 DEF Unida, CubiertoEn
  <1>5. \A p, q \in U : p = q \/ p.fin < q.inicio \/ q.fin < p.inicio
    <2>. SUFFICES ASSUME NEW k \in 1..Len(u), NEW j \in 1..Len(u)
                  PROVE  u[k] = u[j] \/ u[k].fin < u[j].inicio \/ u[j].fin < u[k].inicio
      BY <1>2
    <2>1. k = j \/ k < j \/ j < k
      BY <1>1
    <2>. QED  BY <2>1 DEF Unida
  <1>6. \A r \in U : /\ \E q \in A : q.inicio = r.inicio
                     /\ \E q \in A : q.fin = r.fin
    BY <1>2 DEF Unida
  <1>7. \A r \in RangoLleno : /\ r.inicio \in Nat /\ r.fin \in Nat /\ r.inicio < r.fin
                              /\ r.inicio \in Instantes /\ r.fin \in Instantes /\ 1 <= r.inicio
    BY InstantesNat DEF RangoLleno, Rango, Instantes
  <1>. HIDE DEF U
  <1>8. A \in SUBSET Rango
    BY DEF RangoLleno
  <1>9. ASSUME NEW r \in U PROVE Termina(A, r.fin) /\ Empieza(A, r.inicio)
    <2>1. /\ r.inicio \in Nat /\ r.fin \in Nat /\ r.inicio < r.fin /\ 1 <= r.inicio
          /\ r.fin - 1 \in Nat /\ r.inicio - 1 \in Nat
      BY <1>3, <1>7
    <2>2. CubiertoEn(U, r.fin - 1) /\ CubiertoEn(U, r.inicio)
      BY <2>1 DEF CubiertoEn, Contiene
    <2>3. ASSUME NEW q \in U, Contiene(q, r.fin) \/ Contiene(q, r.inicio - 1) PROVE FALSE
      BY <1>3, <1>5, <1>7, <2>1, <2>3 DEF Contiene
    <2>4. ~CubiertoEn(U, r.fin) /\ ~CubiertoEn(U, r.inicio - 1)
      BY <2>3 DEF CubiertoEn
    <2>. QED  BY <1>4, <2>1, <2>2, <2>4 DEF Termina, Empieza
  <1>10. ASSUME NEW t \in Finales(A) PROVE \E r \in U : r.fin = t
    <2>1. t \in Nat /\ t - 1 \in Nat /\ Termina(A, t)
      BY <1>8, CambiosBien, InstantesNat DEF Instantes
    <2>2. PICK r \in U : Contiene(r, t - 1)
      BY <1>4, <2>1 DEF Termina, CubiertoEn
    <2>3. ~Contiene(r, t)
      BY <1>4, <2>1 DEF Termina, CubiertoEn
    <2>4. r.inicio \in Nat /\ r.fin \in Nat
      BY <1>3, <1>7
    <2>. QED  BY <2>1, <2>2, <2>3, <2>4 DEF Contiene
  <1>11. ASSUME NEW t \in Comienzos(A) PROVE \E r \in U : r.inicio = t
    <2>1. t \in Nat /\ t - 1 \in Nat /\ Empieza(A, t)
      BY <1>8, CambiosBien, InstantesNat DEF Instantes
    <2>2. PICK r \in U : Contiene(r, t)
      BY <1>4, <2>1 DEF Empieza, CubiertoEn
    <2>3. ~Contiene(r, t - 1)
      BY <1>4, <2>1 DEF Empieza, CubiertoEn
    <2>4. r.inicio \in Nat /\ r.fin \in Nat
      BY <1>3, <1>7
    <2>. QED  BY <2>1, <2>2, <2>3, <2>4 DEF Contiene
  <1>12. Finales(A) = {r.fin : r \in U}
    <2>1. \A r \in U : r.fin \in Finales(A)
      BY <1>6, <1>9 DEF Finales
    <2>. QED  BY <1>10, <2>1
  <1>13. Comienzos(A) = {r.inicio : r \in U}
    <2>1. \A r \in U : r.inicio \in Comienzos(A)
      BY <1>6, <1>9 DEF Comienzos
    <2>. QED  BY <1>11, <2>1
  <1>. QED  BY <1>3, <1>4, <1>5, <1>12, <1>13 DEF U

(* The range of the joined ones that covers an instant is the unbroken     *)
(* coverage around it.                                                     *)
LEMMA ActualUnido ==
  ASSUME NEW A \in SUBSET RangoLleno, NEW u, Unida(A, u), NEW t \in Instantes,
         NEW r \in Range(u), Contiene(r, t)
  PROVE  /\ {q \in Range(u) : Contiene(q, t)} = {r}
         /\ r.fin = PrimeroTras(Finales(A), t)
         /\ r.inicio = UltimoHasta(Comienzos(A), t)
  <1>. DEFINE U == Range(u)
              F == {x \in Finales(A) : t < x}
              C == {x \in Comienzos(A) : x <= t}
  <1>1. /\ Finales(A) = {q.fin : q \in U} /\ Comienzos(A) = {q.inicio : q \in U}
        /\ U \subseteq RangoLleno
        /\ \A p, q \in U : p = q \/ p.fin < q.inicio \/ q.fin < p.inicio
    BY CambiosUnidos
  <1>2. \A q \in U : q.inicio \in Nat /\ q.fin \in Nat /\ q.inicio < q.fin
    BY <1>1, InstantesNat DEF RangoLleno, Rango
  <1>3. t \in Nat
    BY InstantesNat
  <1>. HIDE DEF U
  <1>4. r \in U
    BY DEF U
  <1>5. \A q \in U : Contiene(q, t) => q = r
    BY <1>1, <1>2, <1>3, <1>4 DEF Contiene
  <1>6. r.fin \in F /\ \A x \in F : r.fin <= x
    <2>1. \A q \in U : t < q.fin => r.fin <= q.fin
      BY <1>1, <1>2, <1>3, <1>4 DEF Contiene
    <2>. QED  BY <1>1, <1>4, <2>1 DEF Contiene
  <1>7. r.inicio \in C /\ \A x \in C : x <= r.inicio
    <2>1. \A q \in U : q.inicio <= t => q.inicio <= r.inicio
      BY <1>1, <1>2, <1>3, <1>4 DEF Contiene
    <2>. QED  BY <1>1, <1>4, <2>1 DEF Contiene
  <1>8. F \in SUBSET Nat /\ C \in SUBSET Nat
    BY <1>1, <1>2
  <1>9. Min(F) = r.fin
    <2>. HIDE DEF F
    <2>1. Min(F) \in F /\ \A x \in F : Min(F) <= x
      BY <1>6, <1>8, HayMenor
    <2>2. Min(F) \in Nat /\ r.fin \in Nat
      BY <1>2, <1>4, <1>8, <2>1
    <2>. QED  BY <1>6, <2>1, <2>2
  <1>10. Max(C) = r.inicio
    <2>1. \A x \in C : x <= t
      OBVIOUS
    <2>. HIDE DEF C
    <2>2. Max(C) \in C /\ \A x \in C : x <= Max(C)
      BY <1>3, <1>7, <1>8, <2>1, HayMayor
    <2>3. Max(C) \in Nat /\ r.inicio \in Nat
      BY <1>2, <1>4, <1>8, <2>2
    <2>. QED  BY <1>7, <2>2, <2>3
  <1>11. PrimeroTras(Finales(A), t) = r.fin
    BY <1>6, <1>9 DEF PrimeroTras
  <1>12. UltimoHasta(Comienzos(A), t) = r.inicio
    BY <1>7, <1>10 DEF UltimoHasta
  <1>. QED  BY <1>4, <1>5, <1>11, <1>12 DEF U

(* resumir_cobertura, for any set of ranges and any instant.               *)
LEMMA ResumenBien ==
  ASSUME NEW A \in SUBSET RangoLleno, IsFiniteSet(A), NEW t \in Instantes
  PROVE  ResumenFiel(A, t)
  <1>1. PICK h : /\ \A S \in SUBSET A : h[S] = Paso(h, S)
                 /\ Unidos(A) = Range(h[A])
    BY UnidosBien DEF RangoLleno
  <1>. DEFINE u == h[A]
              U == Range(u)
              actual == {r \in U : Contiene(r, t)}
              ant == FinAnterior(U, t)
              pro == ProximoInicio(U, t)
  <1>2. Unida(A, u)
    BY <1>1, HastaUnida
  <1>. HIDE DEF u
  <1>3. /\ Finales(A) = {q.fin : q \in U} /\ Comienzos(A) = {q.inicio : q \in U}
        /\ U \subseteq RangoLleno
        /\ \A x \in Nat : CubiertoEn(A, x) <=> CubiertoEn(U, x)
    BY <1>2, CambiosUnidos
  <1>4. t \in Nat /\ \A q \in U : /\ q.inicio \in Nat /\ q.fin \in Nat /\ q.inicio < q.fin
                                  /\ q.inicio \in Instantes /\ q.fin \in Instantes
    BY <1>3, InstantesNat DEF RangoLleno, Rango
  <1>5. CubiertoEn(A, t) <=> actual # {}
    BY <1>3, <1>4 DEF CubiertoEn
  <1>6. ASSUME CubiertoEn(A, t)
        PROVE  /\ (CHOOSE r \in actual : TRUE).fin = PrimeroTras(Finales(A), t)
               /\ (CHOOSE r \in actual : TRUE).inicio = UltimoHasta(Comienzos(A), t)
    <2>1. PICK r \in U : Contiene(r, t)
      BY <1>5, <1>6
    <2>2. actual = {r} /\ r.fin = PrimeroTras(Finales(A), t)
          /\ r.inicio = UltimoHasta(Comienzos(A), t)
      BY <1>2, <2>1, ActualUnido
    <2>. QED  BY <2>2
  <1>7. pro = PrimeroTras(Comienzos(A), t)
    <2>1. {x \in Comienzos(A) : t < x} = {r.inicio : r \in {q \in U : t < q.inicio}}
      BY <1>3
    <2>2. (\E x \in Comienzos(A) : t < x) <=> {r.inicio : r \in {q \in U : t < q.inicio}} # {}
      BY <2>1
    <2>. QED  BY <2>1, <2>2 DEF ProximoInicio, PrimeroTras
  <1>8. ant = UltimoHasta(Finales(A), t)
    <2>1. {x \in Finales(A) : x <= t} = {r.fin : r \in {q \in U : q.fin <= t}}
      BY <1>3
    <2>2. (\E x \in Finales(A) : x <= t) <=> {r.fin : r \in {q \in U : q.fin <= t}} # {}
      BY <2>1
    <2>. QED  BY <2>1, <2>2 DEF FinAnterior, UltimoHasta
  <1>9. ant # Nada <=> \E q \in U : q.fin <= t
    <2>. DEFINE S == {x \in Finales(A) : x <= t}
    <2>1. S \in SUBSET Nat /\ (\A x \in S : x <= t) /\ Nada \notin S
      BY <1>3, <1>4 DEF Nada, Instantes
    <2>2. (S # {}) <=> \E q \in U : q.fin <= t
      BY <1>3
    <2>3. S # {} => Max(S) \in S
      <3>. HIDE DEF S
      <3>. QED  BY <1>4, <2>1, HayMayor
    <2>4. ant = IF S # {} THEN Max(S) ELSE Nada
      BY <1>8 DEF UltimoHasta
    <2>. QED  BY <2>1, <2>2, <2>3, <2>4
  <1>10. pro # Nada <=> \E q \in U : t < q.inicio
    <2>. DEFINE S == {x \in Comienzos(A) : t < x}
    <2>1. S \in SUBSET Nat /\ Nada \notin S
      BY <1>3, <1>4 DEF Nada, Instantes
    <2>2. (S # {}) <=> \E q \in U : t < q.inicio
      BY <1>3
    <2>3. S # {} => Min(S) \in S
      <3>. HIDE DEF S
      <3>. QED  BY <2>1, HayMenor
    <2>4. pro = IF S # {} THEN Min(S) ELSE Nada
      BY <1>7 DEF PrimeroTras
    <2>. QED  BY <2>1, <2>2, <2>3, <2>4
  <1>11. ASSUME ~CubiertoEn(A, t)
         PROVE  /\ (\E x \in Instantes : x < t /\ CubiertoEn(A, x)) <=> ant # Nada
                /\ (\E x \in Instantes : t < x /\ CubiertoEn(A, x)) <=> pro # Nada
    <2>1. \A q \in U : q.fin <= t \/ t < q.inicio
      BY <1>3, <1>4, <1>11 DEF CubiertoEn, Contiene
    <2>2. \A q \in U : CubiertoEn(A, q.inicio)
      BY <1>3, <1>4 DEF CubiertoEn, Contiene
    <2>3. ASSUME NEW x \in Instantes, CubiertoEn(A, x) PROVE \E q \in U : q.inicio <= x /\ x < q.fin
      BY <1>3, <2>3, InstantesNat DEF CubiertoEn, Contiene
    <2>4. (\E x \in Instantes : x < t /\ CubiertoEn(A, x)) <=> \E q \in U : q.fin <= t
      <3>1. ASSUME NEW q \in U, q.fin <= t PROVE q.inicio < t /\ q.inicio \in Instantes
        BY <1>4, <3>1
      <3>2. ASSUME NEW x \in Instantes, x < t, CubiertoEn(A, x) PROVE \E q \in U : q.fin <= t
        <4>1. PICK q \in U : q.inicio <= x /\ x < q.fin
          BY <2>3, <3>2
        <4>2. x \in Nat
          BY InstantesNat
        <4>. QED  BY <1>4, <2>1, <3>2, <4>1, <4>2
      <3>. QED  BY <2>2, <3>1, <3>2
    <2>5. (\E x \in Instantes : t < x /\ CubiertoEn(A, x)) <=> \E q \in U : t < q.inicio
      <3>1. \A q \in U : q.inicio \in Instantes
        BY <1>4
      <3>2. ASSUME NEW x \in Instantes, t < x, CubiertoEn(A, x) PROVE \E q \in U : t < q.inicio
        <4>1. PICK q \in U : q.inicio <= x /\ x < q.fin
          BY <2>3, <3>2
        <4>2. x \in Nat
          BY InstantesNat
        <4>. QED  BY <1>4, <2>1, <3>2, <4>1, <4>2
      <3>. QED  BY <2>2, <3>1, <3>2
    <2>. QED  BY <1>9, <1>10, <2>4, <2>5
  <1>12. /\ Resumen(A, t).cubierto = (actual # {})
         /\ Resumen(A, t).inicio = IF actual = {} THEN Nada ELSE (CHOOSE r \in actual : TRUE).inicio
         /\ Resumen(A, t).fin = IF actual = {} THEN Nada ELSE (CHOOSE r \in actual : TRUE).fin
         /\ Resumen(A, t).proximo = pro
         /\ Resumen(A, t).anterior = ant
         /\ Resumen(A, t).estado =
              IF A = {} THEN "sin_regularizar"
              ELSE IF actual # {} THEN "con_cobertura"
              ELSE IF ant # Nada /\ pro # Nada THEN "receso"
              ELSE IF pro # Nada THEN "esperando_inicio" ELSE "vencido"
    BY <1>1 DEF Resumen, u
  <1>13. A = {} => ~CubiertoEn(A, t) /\ \A x \in Instantes : ~CubiertoEn(A, x)
    BY DEF CubiertoEn
  <1>. HIDE DEF actual, ant, pro
  <1>14. /\ Resumen(A, t).cubierto <=> CubiertoEn(A, t)
         /\ Resumen(A, t).fin = IF CubiertoEn(A, t) THEN PrimeroTras(Finales(A), t) ELSE Nada
         /\ Resumen(A, t).inicio = IF CubiertoEn(A, t) THEN UltimoHasta(Comienzos(A), t) ELSE Nada
         /\ Resumen(A, t).proximo = PrimeroTras(Comienzos(A), t)
         /\ Resumen(A, t).anterior = UltimoHasta(Finales(A), t)
    BY <1>5, <1>6, <1>7, <1>8, <1>12
  <1>. DEFINE antes == \E x \in Instantes : x < t /\ CubiertoEn(A, x)
              despues == \E x \in Instantes : t < x /\ CubiertoEn(A, x)
  <1>15. ~CubiertoEn(A, t) => (antes <=> ant # Nada) /\ (despues <=> pro # Nada)
    BY <1>11
  <1>16. A = {} => ~antes /\ ~despues
    BY <1>13
  <1>17. A # {} /\ ~CubiertoEn(A, t) => antes \/ despues
    <2>. SUFFICES ASSUME A # {}, ~CubiertoEn(A, t) PROVE antes \/ despues
      OBVIOUS
    <2>1. PICK q \in A : q \in RangoLleno
      OBVIOUS
    <2>2. q.inicio \in Instantes /\ q.inicio \in Nat /\ q.fin \in Nat /\ q.inicio < q.fin
      BY <2>1, InstantesNat DEF RangoLleno, Rango
    <2>3. CubiertoEn(A, q.inicio)
      BY <2>1, <2>2 DEF CubiertoEn, Contiene
    <2>4. q.inicio < t \/ t < q.inicio
      BY <1>4, <2>2, <2>3
    <2>. QED  BY <2>2, <2>3, <2>4
  <1>. HIDE DEF antes, despues
  <1>18. /\ Resumen(A, t).estado = "receso" <=> ~CubiertoEn(A, t) /\ antes /\ despues
         /\ Resumen(A, t).estado = "vencido" <=> ~CubiertoEn(A, t) /\ antes /\ ~despues
    BY <1>5, <1>12, <1>15, <1>16, <1>17
  <1>. QED  BY <1>14, <1>18 DEF ResumenFiel, antes, despues

(* An authorised period is never empty (validar_periodo).                  *)
Llenos == \A k \in DOMAIN periodos : periodos[k].inicio < periodos[k].fin

(* ResumenExacto in every reachable state, for any approvals and any       *)
(* horizon: the periods are finitely many, and none is empty.              *)
THEOREM ResumenSiempre == Spec => []ResumenExacto
  <1>1. Init => Llenos
    BY DEF Init, Llenos
  <1>2. TypeOK /\ Llenos /\ [Next]_vars => Llenos'
    <2>. SUFFICES ASSUME TypeOK, Llenos, [Next]_vars PROVE Llenos'
      OBVIOUS
    <2>1. ASSUME NEW i \in Instantes, NEW f \in Instantes, NEW s \in 0..MaxPeriodos,
                 Aprobar([inicio |-> i, fin |-> f, sustituye |-> s])
          PROVE  Llenos'
      <3>. DEFINE p == [inicio |-> i, fin |-> f, sustituye |-> s]
      <3>1. p \in Periodo /\ p.inicio < p.fin /\ periodos' = Append(periodos, p)
            /\ periodos \in Seq(Periodo)
        BY <2>1 DEF Aprobar, Periodo, TypeOK
      <3>. HIDE DEF p
      <3>. QED  BY <3>1, VigentesTrasAprobar DEF Llenos
    <2>2. ASSUME UNCHANGED periodos PROVE Llenos'
      BY <2>2 DEF Llenos
    <2>. QED
      BY <2>1, <2>2 DEF Next, vars, Avisar, Leer, Decidir, EnviarPausa,
             PausaObsoleta, ConfirmarPausa, FallarPausa, CerrarPausa, Iniciar, EncenderFuera, Avanzar
  <1>3. TypeOK /\ Llenos => ResumenExacto
    <2>. SUFFICES ASSUME TypeOK, Llenos PROVE ResumenExacto
      OBVIOUS
    <2>0. periodos \in Seq(Periodo)
      BY DEF TypeOK, Periodo
    <2>1. /\ DOMAIN periodos = 1..Len(periodos) /\ Len(periodos) \in Nat
          /\ \A k \in DOMAIN periodos : periodos[k] \in Periodo
      BY <2>0, LenProperties
    <2>2. ASSUME NEW ks \in SUBSET DOMAIN periodos
          PROVE  RangosDe(ks) \in SUBSET RangoLleno /\ IsFiniteSet(RangosDe(ks))
      <3>1. IsFiniteSet(ks)
        <4>1. IsFiniteSet(DOMAIN periodos)
          BY <2>1, FS_Interval
        <4>. QED  BY <4>1, FS_Subset
      <3>. DEFINE f == [k \in ks |-> [inicio |-> periodos[k].inicio, fin |-> periodos[k].fin]]
      <3>2. IsFiniteSet(RangosDe(ks))
        <4>1. f \in Surjection(ks, RangosDe(ks))
          BY DEF Surjection, RangosDe
        <4>. QED  BY <3>1, <4>1, FS_Surjection
      <3>3. RangosDe(ks) \in SUBSET RangoLleno
        BY <2>1 DEF RangosDe, Llenos, RangoLleno, Rango, Periodo
      <3>. QED  BY <3>2, <3>3
    <2>3. Rangos(periodos) = RangosDe(Vigentes(periodos))
          /\ Vigentes(periodos) \in SUBSET DOMAIN periodos
      BY DEF Rangos, RangosDe, Vigentes
    <2>4. \A A \in {Rangos(periodos), RangosDe(DOMAIN periodos)} : ResumenFiel(A, ahora)
      BY <2>2, <2>3, ResumenBien DEF TypeOK
    <2>. QED  BY <2>4 DEF ResumenExacto
  <1>. QED  BY <1>1, <1>2, <1>3, TiposSiempre, PTL DEF Spec
=============================================================================
