---------------------------- MODULE Vencimiento ----------------------------
(***************************************************************************)
(* The authorised periods of one service and the job that pauses it when   *)
(* no period covers the instant.  An order for a pause ends confirmed,     *)
(* obsolete or failed, and someone may start the container in Proxmox;     *)
(* what fails is nobody's to repeat (CicloServicio, PausaAlVencer).        *)
(***************************************************************************)
EXTENDS Cobertura

CONSTANTS
  Horizonte,    \* bound: the last instant
  MaxPeriodos,  \* bound: approved periods
  Anticipacion, \* AVISO_ANTICIPACION
  Trabajos      \* executions of the job that may overlap

ASSUME ParametrosVigencia ==
  /\ Horizonte \in Nat /\ MaxPeriodos \in Nat /\ Anticipacion \in Nat

VARIABLES
  periodos,   \* vigencias_autorizadas of the service, in order of approval
  ahora,      \* clock.now
  vence,      \* servicios.vence_at
  estado,     \* servicios.estado
  pausa,      \* the open order of type pausar: just admitted, or its stop sent
  pausaDe,    \* the boundary that names the open pause; Nada: a regularisation
  leida,      \* the boundary each execution read, before it takes the lock
  respuestas, \* boundaries with a stored decision
  perdidas,   \* history: boundaries whose pause failed or was undone in Proxmox
  avisados    \* ends of coverage with a notice in the history

vars == <<periodos, ahora, vence, estado, pausa, pausaDe, leida, respuestas, perdidas, avisados>>

Instantes == 1..Horizonte

(* periodos_vigentes: those no other period substitutes.                   *)
Vigentes(ps) ==
  {k \in DOMAIN ps : \A n \in DOMAIN ps : ps[n].sustituye # k}

Rangos(ps) == {[inicio |-> ps[k].inicio, fin |-> ps[k].fin] : k \in Vigentes(ps)}
RangosDe(ks) == {[inicio |-> periodos[k].inicio, fin |-> periodos[k].fin] : k \in ks}

Cubierto == CubiertoEn(Rangos(periodos), ahora)

(* Fault: the end of a coverage that has not begun is taken for the present*)
(* one's.                                                                  *)
FinSiguiente == PrimeroTras(Finales(Rangos(periodos)), ahora)

FinActual == IF Cubierto THEN PrimeroTras(Finales(Rangos(periodos)), ahora) ELSE Nada

(* Fault: only the two ends of the new period are looked for in the others.*)
SolapanPorExtremos(a, b) ==
  (b.inicio <= a.inicio /\ a.inicio < b.fin) \/ (b.inicio < a.fin /\ a.fin <= b.fin)

(* validar_periodo, for ranges that are not empty                          *)
Solapan(a, b) == a.inicio < b.fin /\ b.inicio < a.fin

(* Fault: what the request named is not looked up again at the approval.   *)
SustituibleSiempre(s) == s = 0 \/ s \in DOMAIN periodos

(* Every period was current once, so a request that names it may be        *)
(* pending; 0 is a plain renewal.                                          *)
Sustituible(s) == s = 0 \/ s \in Vigentes(periodos)

Proyeccion(p) == Max({periodos[k].fin : k \in Vigentes(periodos)} \cup {p.fin})

(* A service just delivered, or regularised: then its own transaction      *)
(* admits the pause if nothing covers it.                                  *)
Init ==
  /\ \E i, f \in Instantes :
       i < f /\ periodos = <<[inicio |-> i, fin |-> f, sustituye |-> 0]>> /\ vence = f
  /\ ahora = 1 /\ estado = "RUNNING" /\ pausa = (IF Cubierto THEN "ninguna" ELSE "admitida")
  /\ pausaDe = Nada /\ perdidas = {}
  /\ leida = [j \in Trabajos |-> Nada] /\ respuestas = {} /\ avisados = {}

(* The approval of a renewal or of a modification, with the dates the      *)
(* administrator chose.                                                    *)
Aprobar(p) ==
  /\ Len(periodos) < MaxPeriodos
  /\ p.inicio < p.fin /\ ahora < p.fin
  /\ Vigentes(periodos) # {}
  /\ Sustituible(p.sustituye)
  /\ \A k \in Vigentes(periodos) \ {p.sustituye} : ~Solapan(p, periodos[k])
  /\ periodos' = Append(periodos, p)
  /\ vence' = Proyeccion(p)
  /\ UNCHANGED <<ahora, estado, pausa, pausaDe, leida, respuestas, perdidas, avisados>>

(* avisar_vencimiento reads and writes under the lock.                     *)
Avisar ==
  /\ FinActual # Nada /\ FinActual <= ahora + Anticipacion
  /\ FinActual \notin avisados
  /\ avisados' = avisados \cup {FinActual}
  /\ UNCHANGED <<periodos, ahora, vence, estado, pausa, pausaDe, leida, respuestas, perdidas>>


PorPausar == FinActual = Nada /\ estado # "PAUSED"

Leer(j) ==
  /\ leida[j] = Nada /\ PorPausar
  /\ leida' = [leida EXCEPT ![j] = Limite(Rangos(periodos), ahora)]
  /\ UNCHANGED <<periodos, ahora, vence, estado, pausa, pausaDe, respuestas, perdidas, avisados>>

(* admitir_orden under the key of that boundary: the stored answer again,  *)
(* a refusal that leaves nothing behind, or a decision from the coverage   *)
(* of this moment.                                                         *)
Decidir(j) ==
  LET decide == leida[j] \notin respuestas /\ pausa = "ninguna"
      admite == decide /\ ~Cubierto
  IN /\ leida[j] # Nada
     /\ leida' = [leida EXCEPT ![j] = Nada]
     /\ respuestas' = IF decide THEN respuestas \cup {leida[j]} ELSE respuestas
     /\ pausa' = IF admite THEN "admitida" ELSE pausa
     /\ pausaDe' = IF admite THEN leida[j] ELSE pausaDe
     /\ UNCHANGED <<periodos, ahora, vence, estado, perdidas, avisados>>

(* The worker takes the order: once the stop is on its way, coverage that  *)
(* comes back does not undo it.                                            *)
EnviarPausa ==
  /\ pausa = "admitida" /\ ~Cubierto
  /\ pausa' = "enviada"
  /\ UNCHANGED <<periodos, ahora, vence, estado, pausaDe, leida, respuestas, perdidas, avisados>>

(* The order ends, and the boundary that named it keeps its stored answer. *)
CerrarPausa ==
  /\ pausa' = "ninguna" /\ pausaDe' = Nada
  /\ UNCHANGED <<periodos, ahora, vence, leida, respuestas, avisados>>

(* _cancel_obsolete_pause                                                  *)
PausaObsoleta ==
  /\ pausa = "admitida" /\ Cubierto
  /\ CerrarPausa /\ UNCHANGED <<estado, perdidas>>

(* _confirmed                                                              *)
ConfirmarPausa ==
  /\ pausa = "enviada"
  /\ CerrarPausa
  /\ estado' = "PAUSED" /\ UNCHANGED perdidas

(* _finish_failure: the preparation was refused, or the task of the stop   *)
(* failed.  The service stays as it was and nothing sends the pause again. *)
FallarPausa ==
  /\ pausa # "ninguna"
  /\ CerrarPausa
  /\ perdidas' = perdidas \cup {pausaDe} /\ UNCHANGED estado

(* admision_service.iniciar and its confirmation.                          *)
Iniciar ==
  /\ estado = "PAUSED" /\ pausa = "ninguna" /\ Cubierto
  /\ estado' = "RUNNING"
  /\ UNCHANGED <<periodos, ahora, vence, pausa, pausaDe, leida, respuestas, perdidas, avisados>>

(* Someone starts the container in Proxmox and estado_servicio_service     *)
(* takes the service for running.                                          *)
EncenderFuera ==
  /\ estado = "PAUSED" /\ pausa = "ninguna"
  /\ estado' = "RUNNING"
  /\ perdidas' = IF Cubierto THEN perdidas
                   ELSE perdidas \cup {Limite(Rangos(periodos), ahora)}
  /\ UNCHANGED <<periodos, ahora, vence, pausa, pausaDe, leida, respuestas, avisados>>

Avanzar ==
  /\ ahora < Horizonte /\ ahora' = ahora + 1
  /\ UNCHANGED <<periodos, vence, estado, pausa, pausaDe, leida, respuestas, perdidas, avisados>>

Next ==
  \/ \E i, f \in Instantes, s \in 0..MaxPeriodos :
       Aprobar([inicio |-> i, fin |-> f, sustituye |-> s])
  \/ Avisar
  \/ \E j \in Trabajos : Leer(j) \/ Decidir(j)
  \/ EnviarPausa \/ PausaObsoleta \/ ConfirmarPausa \/ FallarPausa
  \/ Iniciar \/ EncenderFuera \/ Avanzar

(* The worker takes every open order to an end and runs the expiry job     *)
(* every minute; one execution may stop for ever between its two steps.    *)
Justicia ==
  /\ WF_vars(EnviarPausa \/ PausaObsoleta \/ ConfirmarPausa \/ FallarPausa)
  /\ WF_vars(\E j \in Trabajos : Leer(j) \/ Decidir(j))

Spec == Init /\ [][Next]_vars
SpecJusta == Spec /\ Justicia
----------------------------------------------------------------------------
(* Every variable keeps its type (models/vigencia.py).                     *)
TypeOK ==
  /\ periodos \in Seq([inicio : Instantes, fin : Instantes, sustituye : 0..MaxPeriodos])
  /\ ahora \in Instantes /\ vence \in Instantes
  /\ estado \in {"RUNNING", "PAUSED"} /\ pausa \in {"ninguna", "admitida", "enviada"}
  /\ leida \in [Trabajos -> 0..Horizonte]
  /\ pausaDe \in 0..Horizonte /\ perdidas \subseteq 0..Horizonte
  /\ respuestas \subseteq Instantes /\ avisados \subseteq Instantes

(* Two periods in force never share an instant, whatever is renewed and    *)
(* modified and in whichever order: each approval compares the new period  *)
(* with the ones in force then (validar_periodo).                          *)
VigentesDisjuntos ==
  \A k, n \in Vigentes(periodos) : k # n => ~Solapan(periodos[k], periodos[n])

(* What resumir_cobertura, which joins sorted ranges, must say of t: the    *)
(* start and the end are those of the unbroken coverage around t, the next *)
(* start and the previous end the nearest changes, and a break is told     *)
(* from an expiry.                                                         *)
ResumenFiel(rangos, t) ==
  LET r == Resumen(rangos, t)
      actual == CubiertoEn(rangos, t)
      antes == \E u \in Instantes : u < t /\ CubiertoEn(rangos, u)
      despues == \E u \in Instantes : t < u /\ CubiertoEn(rangos, u)
  IN /\ r.cubierto <=> actual
     /\ r.fin = IF actual THEN PrimeroTras(Finales(rangos), t) ELSE Nada
     /\ r.inicio = IF actual THEN UltimoHasta(Comienzos(rangos), t) ELSE Nada
     /\ r.proximo = PrimeroTras(Comienzos(rangos), t)
     /\ r.anterior = UltimoHasta(Finales(rangos), t)
     /\ r.estado = "receso" <=> ~actual /\ antes /\ despues
     /\ r.estado = "vencido" <=> ~actual /\ antes /\ ~despues

(* The summary and what exigir_cobertura says of each instant agree, for   *)
(* the periods in force and for all that were approved, which overlap and  *)
(* touch.                                                                  *)
ResumenExacto ==
  \A rangos \in {Rangos(periodos), RangosDe(DOMAIN periodos)} : ResumenFiel(rangos, ahora)

(* A period is replaced once at most, by a later one, even when several    *)
(* requests to modify it were accepted before the first was approved.      *)
SustitucionUnica ==
  \A k, n \in DOMAIN periodos :
    /\ periodos[k].sustituye < k
    /\ periodos[k].sustituye = periodos[n].sustituye /\ periodos[k].sustituye # 0 => k = n

SinCorregir == \A k \in DOMAIN periodos : periodos[k].sustituye = 0

(* While periods are only added, nobody was told of an end that coverage   *)
(* does not reach: whatever was renewed before or after the notice, with   *)
(* gaps or without, the service is covered until the last end announced    *)
(* (avisar_vencimiento, whose notice names the day of the pause).          *)
AvisoCumplido ==
  SinCorregir =>
    \A f \in avisados, u \in Instantes :
      ahora <= u /\ u < f => CubiertoEn(Rangos(periodos), u)

CorreSinCobertura == estado = "RUNNING" /\ ~Cubierto

LimiteActual == Limite(Rangos(periodos), ahora)

(* While periods are only added, a service that runs uncovered has no      *)
(* stored answer for its boundary unless the pause it asked for is open,   *)
(* failed or was undone in Proxmox: the key of aplicar_vencimientos never  *)
(* hides an interval behind an earlier one, and a pause that a job asked   *)
(* for with a boundary it read long ago does not use up the answer of the  *)
(* present one.                                                            *)
LimiteRespondido ==
  SinCorregir /\ CorreSinCobertura /\ LimiteActual \in respuestas =>
    (pausa # "ninguna" /\ pausaDe = LimiteActual) \/ LimiteActual \in perdidas

(* While periods are only added, a running service without coverage is     *)
(* paused, unless coverage comes back or the pause of that very interval   *)
(* failed or was undone: also in a gap between two periods, with a job     *)
(* that read old coverage, after failures of earlier intervals and with    *)
(* renewals approved at any moment (aplicar_vencimientos).                 *)
PorAtender == CorreSinCobertura /\ SinCorregir /\ LimiteActual \notin perdidas


============================================================================
