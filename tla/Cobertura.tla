----------------------------- MODULE Cobertura -----------------------------
(***************************************************************************)
(* resumir_cobertura and exigir_cobertura: what a set of authorised ranges *)
(* [inicio, fin) says about an instant.  Instants are positive.            *)
(***************************************************************************)
EXTENDS Integers, SequencesExt

Nada == 0  \* None

Antes(a, b) == a.inicio < b.inicio \/ (a.inicio = b.inicio /\ a.fin < b.fin)

(* Fault: ranges that only touch are not joined.                           *)
UnirSolapados(unidos, r) ==
  IF unidos # <<>> /\ r.inicio < Last(unidos).fin
    THEN [unidos EXCEPT ![Len(unidos)].fin = Max({@, r.fin})]
    ELSE Append(unidos, r)

Unir(unidos, r) ==
  IF unidos # <<>> /\ r.inicio <= Last(unidos).fin
    THEN [unidos EXCEPT ![Len(unidos)].fin = Max({@, r.fin})]
    ELSE Append(unidos, r)

(* The last of the ranges in their order.                                  *)
Ultimo(S) == CHOOSE r \in S : \A q \in S \ {r} : Antes(q, r)

(* The loop over the sorted ranges, from the last one back.                *)
Unidos(rangos) ==
  LET hasta[S \in SUBSET rangos] ==
        IF S = {} THEN <<>> ELSE Unir(hasta[S \ {Ultimo(S)}], Ultimo(S))
  IN Range(hasta[rangos])

Contiene(r, t) == r.inicio <= t /\ t < r.fin

(* exigir_cobertura                                                        *)
CubiertoEn(rangos, t) == \E r \in rangos : Contiene(r, t)

FinAnterior(unidos, t) ==
  LET fines == {r.fin : r \in {u \in unidos : u.fin <= t}}
  IN IF fines = {} THEN Nada ELSE Max(fines)

ProximoInicio(unidos, t) ==
  LET inicios == {r.inicio : r \in {u \in unidos : t < u.inicio}}
  IN IF inicios = {} THEN Nada ELSE Min(inicios)

(* resumir_cobertura                                                       *)
Resumen(rangos, t) ==
  LET unidos == Unidos(rangos)
      actual == {r \in unidos : Contiene(r, t)}
      proximo == ProximoInicio(unidos, t)
      anterior == FinAnterior(unidos, t)
  IN [cubierto |-> actual # {},
      inicio   |-> IF actual = {} THEN Nada ELSE (CHOOSE r \in actual : TRUE).inicio,
      fin      |-> IF actual = {} THEN Nada ELSE (CHOOSE r \in actual : TRUE).fin,
      proximo  |-> proximo,
      anterior |-> anterior,
      estado   |-> IF rangos = {} THEN "sin_regularizar"
                   ELSE IF actual # {} THEN "con_cobertura"
                   ELSE IF anterior # Nada /\ proximo # Nada THEN "receso"
                   ELSE IF proximo # Nada THEN "esperando_inicio" ELSE "vencido"]

----------------------------------------------------------------------------
(* What the summary amounts to, from the instants alone.                   *)
Empieza(rangos, t) == CubiertoEn(rangos, t) /\ ~CubiertoEn(rangos, t - 1)
Termina(rangos, t) == ~CubiertoEn(rangos, t) /\ CubiertoEn(rangos, t - 1)

Finales(rangos) == {t \in {r.fin : r \in rangos} : Termina(rangos, t)}
Comienzos(rangos) == {t \in {r.inicio : r \in rangos} : Empieza(rangos, t)}

UltimoHasta(S, t) == IF \E u \in S : u <= t THEN Max({u \in S : u <= t}) ELSE Nada
PrimeroTras(S, t) == IF \E u \in S : t < u THEN Min({u \in S : t < u}) ELSE Nada

(* Fault: the start to come names the interval when there is one.          *)
LimiteProximo(rangos, t) ==
  LET proximo == PrimeroTras(Comienzos(rangos), t)
  IN IF proximo # Nada THEN proximo ELSE UltimoHasta(Finales(rangos), t)

(* The instant that names an interval without coverage in the key of the   *)
(* expiry job: fin_anterior or proximo_inicio.                             *)
Limite(rangos, t) ==
  LET anterior == UltimoHasta(Finales(rangos), t)
  IN IF anterior # Nada THEN anterior ELSE PrimeroTras(Comienzos(rangos), t)
=============================================================================
