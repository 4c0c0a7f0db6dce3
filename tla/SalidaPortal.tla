----------------------------- MODULE SalidaPortal -----------------------------
(***************************************************************************)
(* The portal's side of an installation (application_execution_service.py  *)
(* and consola_operacion_service.py): ticks that hold the lease of the     *)
(* operation send the start once, ask for the state, and bring the output  *)
(* of the node into the console: read, commit, acknowledge, and only then  *)
(* the outcome.  Requests are late or lost; a tick stalls, dies or loses   *)
(* the lease while its request is still on its way.                        *)
(***************************************************************************)
EXTENDS SalidaNodo, Sequences

CONSTANT EnCamino  \* bound of the model: requests on their way at once

ASSUME EnCaminoNat == EnCamino \in Nat

VARIABLES
  op,         \* the operation, its attempt and the header of its console
  consola,    \* the fragments of the console
  turno,      \* the tick that holds the lease: stage, what the node answered
  red,        \* the requests on their way, by lease generation: one per tick
  calma       \* whether faults are over

vars == <<varsNodo, op, consola, turno, red, calma>>

Datos == [estado : Estados, ultimo : Cuenta, ack : Cuenta, marcos : SUBSET Numeros,
          desde : Cuenta, hasta : Cuenta]
Nulo == [estado |-> "sin", ultimo |-> 0, ack |-> 0, marcos |-> {}, desde |-> 0, hasta |-> 0]

(* pedido: application_job_requested; cubierta: the validity period allows *)
(* it; cursor: ultimo_source_seq; final: consola_job_final; sinAck:        *)
(* application_console_ack_pending.                                        *)
Operaciones ==
  [estado : {"abierta", "fallida", "confirmada"}, pedido : BOOLEAN, cubierta : BOOLEAN,
   cursor : Cuenta, final : [estado : Estados, ultimo : Cuenta], sinAck : BOOLEAN]

Fragmentos ==
  [clase : {"texto", "perdida", "comprobando", "fallo", "disponible"}, desde : Cuenta, hasta : Cuenta]

(* A tick that loses the lease can commit nothing more: only its request   *)
(* is left of it.  espera: the request of this one is the last of red.     *)
Ticks ==
  [etapa : {"libre", "decide", "consulta", "lee", "confirma", "falla", "verifica"},
   datos : Datos, ack : BOOLEAN, espera : BOOLEAN]
Libre == [etapa |-> "libre", datos |-> Nulo, ack |-> FALSE, espera |-> FALSE]

Mensajeria == [tipo : {"inicio", "estado", "lectura", "ack"}, n : Cuenta]

Init ==
  /\ InitNodo
  /\ op = [estado |-> "abierta", pedido |-> FALSE, cubierta |-> TRUE, cursor |-> 0,
           final |-> [estado |-> "sin", ultimo |-> 0], sinAck |-> TRUE]
  /\ consola = {}
  /\ turno = Libre /\ red = <<>> /\ calma = FALSE
----------------------------------------------------------------------------
Hito(h) == [clase |-> h, desde |-> 0, hasta |-> 0]
Cerrada == Hito("fallo") \in consola \/ Hito("disponible") \in consola
En(etapa) == turno.etapa = etapa
Llego == turno.datos # Nulo

Suelta == turno' = Libre
Envia(tipo, n, etapa, datos) ==
  /\ red' = Append(red, [tipo |-> tipo, n |-> n])
  /\ turno' = [etapa |-> etapa, datos |-> datos, ack |-> FALSE, espera |-> TRUE]
Escribe(filas) == consola' = consola \cup filas
Quieto == UNCHANGED <<varsNodo, calma>>

(* reclamar: a new lease generation                                        *)
Reclamable == op.estado = "abierta" /\ En("libre") /\ Len(red) < EnCamino

(* procesar_una: of the executor before the start, of the reconciler after *)
ReclamarEjecutor ==
  /\ Reclamable /\ turno' = [Libre EXCEPT !.etapa = "decide"]
  /\ UNCHANGED <<op, consola, red>> /\ Quieto

(* procesar_ingesta_una, and the read of ingerir_trabajo                   *)
ReclamarIngesta ==
  /\ Reclamable /\ op.pedido /\ Envia("lectura", op.cursor, "lee", Nulo)
  /\ UNCHANGED <<op, consola>> /\ Quieto

(* _finish_failure: it closes the console itself only before the start.    *)
Fracasa ==
  /\ op' = [op EXCEPT !.estado = "fallida"]
  /\ Escribe(IF op.pedido THEN {} ELSE {Hito("fallo")})
  /\ Suelta /\ UNCHANGED red /\ Quieto

(* enviar_o_consultar, up to its request: the intention is committed       *)
(* before the start is sent.                                               *)
Decidir ==
  /\ En("decide")
  /\ IF ~op.cubierta THEN Fracasa
     ELSE /\ op' = [op EXCEPT !.pedido = TRUE]
          /\ Envia(IF op.pedido THEN "estado" ELSE "inicio", 0, "consulta", Nulo)
          /\ UNCHANGED consola /\ Quieto

(* enviar_o_consultar, from the answer on                                  *)
Anotar ==
  /\ En("consulta") /\ Llego
  /\ Escribe(IF turno.datos.estado = "confirmado" THEN {Hito("comprobando")} ELSE {})
  /\ Suelta /\ UNCHANGED <<op, red>> /\ Quieto
----------------------------------------------------------------------------
Nuevos(n) == {m \in cola.marcos : m > n /\ m > cola.ack}

(* read_locked: as many fragments as fit, at least one, and the loss.      *)
Lecturas(n) ==
  LET pierde == cola.hasta > n
  IN {[estado |-> trabajo.estado, ultimo |-> cola.ultimo, ack |-> cola.ack,
       marcos |-> {k \in Nuevos(n) : k <= corte},
       desde |-> IF pierde THEN cola.desde ELSE 0, hasta |-> IF pierde THEN cola.hasta ELSE 0] :
        corte \in {k \in Cuenta : Nuevos(n) = {} \/ \E j \in Nuevos(n) : j <= k}}

(* The answer to the tick that waits; of one without output, the state.    *)
Responde(m) ==
  IF m.tipo = "ack" THEN turno' = [turno EXCEPT !.ack = TRUE, !.espera = FALSE]
  ELSE \E d \in IF m.tipo = "lectura" THEN Lecturas(m.n)
                 ELSE {[Nulo EXCEPT !.estado = trabajo'.estado]} :
         turno' = [turno EXCEPT !.datos = d, !.espera = FALSE]

Desconoce(m) == ~Existe /\ m.tipo # "inicio"
EsSuya(i) == turno.espera /\ i = Len(red)

(* handle; those of the generations before are refused from then on        *)
(* (_match), and leave.                                                    *)
Atender(i) ==
  LET m == red[i]
  IN /\ ~Desconoce(m)
     /\ IF Existe THEN UNCHANGED trabajo ELSE Admite
     /\ cola' = IF m.tipo = "ack" THEN Purgada(m.n) ELSE cola
     /\ red' = SubSeq(red, i + 1, Len(red))
     /\ IF EsSuya(i) THEN Responde(m) ELSE UNCHANGED turno
     /\ UNCHANGED <<op, consola, calma>>

(* Lost on its way, or refused for want of a job                           *)
Perder ==
  /\ red # <<>> /\ (~calma \/ Desconoce(Head(red)))
  /\ red' = Tail(red) /\ turno' = [turno EXCEPT !.espera = @ /\ Len(red) > 1]
  /\ UNCHANGED <<op, consola>> /\ Quieto
----------------------------------------------------------------------------
Pieza(c, a, b) == [clase |-> c, desde |-> a, hasta |-> b]
Cubre(f, n) == f.clase \in {"texto", "perdida"} /\ f.desde <= n /\ n <= f.hasta

(* What an answer brings beyond the cursor; a range of loss that begins    *)
(* before it is cut.                                                       *)
Piezas(d) ==
  {Pieza("texto", m, m) : m \in {k \in d.marcos : k > op.cursor}}
    \cup (IF d.hasta <= op.cursor THEN {}
          ELSE {Pieza("perdida", IF d.desde > op.cursor THEN d.desde ELSE op.cursor + 1, d.hasta)})

Fin(d) == Mayor({op.cursor} \cup {p.hasta : p \in Piezas(d)})

(* The pieces follow the cursor, each where the one before it ends.        *)
Seguidas(d) ==
  \A n \in op.cursor + 1..Fin(d) :
    \E p \in Piezas(d) : Cubre(p, n) /\ \A q \in Piezas(d) : Cubre(q, n) => q = p

Cambia(d) == op.final.estado \in Finales /\ op.final # [estado |-> d.estado, ultimo |-> d.ultimo]

(* Fault: the node must have purged all that is stored.                    *)
AceptableAlDia(d) ==
  /\ d.ack = op.cursor /\ Fin(d) <= d.ultimo
  /\ Seguidas(d) /\ ~Cambia(d)
  /\ Piezas(d) # {} => ~Cerrada

Aceptable(d) ==
  /\ d.ack <= op.cursor /\ Fin(d) <= d.ultimo
  /\ Seguidas(d) /\ ~Cambia(d)
  /\ Piezas(d) # {} => ~Cerrada

UltimaVista(d) ==
  IF d.estado \in Finales THEN [estado |-> d.estado, ultimo |-> d.ultimo]
  ELSE [estado |-> "sin", ultimo |-> 0]

(* Fault: the cursor jumps to the last fragment the node announced.        *)
IngeridaHastaUltimo(d) == [op EXCEPT !.cursor = d.ultimo, !.final = UltimaVista(d)]

Ingerida(d) == [op EXCEPT !.cursor = Fin(d), !.final = UltimaVista(d)]

(* Fault: all the answer announced is acknowledged.                        *)
HastaTodo(d) == d.ultimo

(* ingerir_y_confirmar: what is stored is acknowledged.                    *)
HastaConfirmada(d) == Fin(d)

(* ingerir, whose commit precedes the request to purge                     *)
Ingerir ==
  LET d == turno.datos
  IN /\ En("lee") /\ Llego /\ Aceptable(d)
     /\ Escribe(Piezas(d)) /\ op' = Ingerida(d)
     /\ Envia("ack", HastaConfirmada(d), "confirma",
              [Nulo EXCEPT !.estado = d.estado, !.ultimo = d.ultimo])
     /\ Quieto

(* The rest of ingerir_trabajo, when the purge was answered or is given up *)
Asentar ==
  /\ En("confirma") /\ (calma => ~turno.espera)
  /\ op' = [op EXCEPT !.sinAck = ~turno.ack]
  /\ UNCHANGED red /\ Quieto

Completo == op.cursor >= turno.datos.ultimo

(* emitir_hito of an outcome                                               *)
Admisible(e) == op.final.estado = e /\ op.cursor >= op.final.ultimo

Falla == turno.ack /\ Completo /\ turno.datos.estado = "fallido" /\ Admisible("fallido")
Logra == turno.ack /\ Completo /\ turno.datos.estado = "confirmado"

AsentarFallo == Asentar /\ Falla /\ Escribe({Hito("fallo")}) /\ turno' = [turno EXCEPT !.etapa = "falla"]
AsentarExito == Asentar /\ Logra /\ Escribe({Hito("comprobando")}) /\ turno' = [turno EXCEPT !.etapa = "verifica"]

Continuar ==
  /\ Asentar /\ ~Falla /\ ~Logra
  /\ Escribe(IF Completo /\ turno.datos.estado = "confirmado" THEN {Hito("comprobando")} ELSE {})
  /\ Suelta

Fallar == En("falla") /\ Fracasa

(* verify: the probes succeed                                              *)
Verificar ==
  /\ En("verifica") /\ op.cubierta
  /\ Admisible("confirmado") /\ ~op.sinAck
  /\ op' = [op EXCEPT !.estado = "confirmada"]
  /\ Escribe({Hito("disponible")})
  /\ Suelta /\ UNCHANGED red /\ Quieto

(* The tick hears nothing, fails, dies, or loses the lease.                *)
Abandonar ==
  /\ ~En("libre")
  /\ \/ ~calma
     \/ En("verifica") /\ ~op.cubierta
     \/ turno.etapa \in {"consulta", "lee"} /\ ~turno.espera /\ ~Llego
  /\ Suelta
  /\ UNCHANGED <<op, consola, red>> /\ Quieto

Tick ==
  \/ Decidir \/ Anotar \/ Ingerir \/ AsentarFallo \/ AsentarExito \/ Continuar
  \/ Fallar \/ Verificar \/ Abandonar
  \/ Perder \/ \E i \in 1..Len(red) : Atender(i)

Descubrir ==
  /\ op.cubierta /\ op' = [op EXCEPT !.cubierta = FALSE]
  /\ UNCHANGED <<consola, turno, red>> /\ Quieto

Calmar ==
  /\ ~calma /\ calma' = TRUE
  /\ UNCHANGED <<varsNodo, op, consola, turno, red>>

Next ==
  \/ Instala /\ UNCHANGED <<op, consola, turno, red, calma>>
  \/ ReclamarEjecutor \/ ReclamarIngesta \/ Tick \/ Descubrir \/ Calmar

Spec == Init /\ [][Next]_vars
SpecJusta ==
  /\ Spec /\ WF_vars(Tick)
  /\ SF_vars(ReclamarEjecutor) /\ SF_vars(ReclamarIngesta)
----------------------------------------------------------------------------
TypeOK ==
  /\ TypeOKNodo
  /\ op \in Operaciones /\ consola \in SUBSET Fragmentos
  /\ turno \in Ticks /\ red \in Seq(Mensajeria) /\ Len(red) <= EnCamino
  /\ calma \in BOOLEAN

(* No output disappears in silence: each fragment the installer published  *)
(* is in the spool, in the loss the node will declare, or in the console.  *)
Guardado(n) == \E f \in consola : Cubre(f, n)
NadaSePierde ==
  \A n \in 1..cola.ultimo :
    n \in cola.marcos \/ (cola.desde <= n /\ n <= cola.hasta) \/ Guardado(n)

(* A tick that holds the lease never gets an answer it must refuse, however *)
(* late its request was served and whatever the ticks before it did: the   *)
(* console never stops at a conflict.                                      *)
SinConflicto == En("lee") /\ Llego => Aceptable(turno.datos)

(* The console announces an outcome only when the node reports that one    *)
(* for good and all its output is before it.                               *)
FinalCompleto ==
  /\ Hito("disponible") \in consola => trabajo.estado = "confirmado"
  /\ Hito("fallo") \in consola /\ op.pedido => trabajo.estado = "fallido"
  /\ Cerrada => \A n \in 1..cola.ultimo : Guardado(n)

(* The console keeps the promise of RegistroSalida: each number once, in   *)
(* order and for good, and one outcome, with nothing after it.             *)
Registro ==
  INSTANCE RegistroSalida WITH
    publicados <- cola.ultimo, leidos <- op.cursor,
    registro <- [n \in 1..op.cursor |-> {f.clase : f \in {g \in consola : Cubre(g, n)}}],
    resultado <- {d \in {"disponible", "fallo"} : Hito(d) \in consola}

CumpleElRegistro == Registro!Spec

(* Once faults are over, an installation that ended is settled.            *)
SeAsienta == trabajo.estado \in Finales /\ calma ~> op.estado # "abierta"

(* runner.md:89 of specs/011: before the portal's final record of a        *)
(* failure, the last of the job's output is ingested.                      *)
FalloTrasIngesta ==
  op.estado = "fallida" /\ op.pedido => \A n \in 1..cola.ultimo : Guardado(n)
============================================================================
