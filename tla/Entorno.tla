------------------------------ MODULE Entorno ------------------------------
(***************************************************************************)
(* What NAP does not decide: the thread of a dispatch, the tasks and the   *)
(* container in Proxmox, people who act on Proxmox directly, and the       *)
(* clock.                                                                  *)
(***************************************************************************)
EXTENDS EstadoPedido

NadaMas == UNCHANGED <<pedido, cobertura, ledger, identidad, servicio, op, corrida, vencida>>

(* The thread gave up before the POST, or Proxmox started no task.         *)
HiloMuere ==
  /\ hilo.etapa = "vuelo"
  /\ hilo' = [hilo EXCEPT !.etapa = "muerto"]
  /\ UNCHANGED ct /\ NadaMas

(* send compares the mark of an existing container before it posts.        *)
TareaEmpieza ==
  /\ hilo.etapa = "vuelo"
  /\ hilo.accion = "crear" \/ ct # "ausente"
  /\ hilo' = [hilo EXCEPT !.etapa = "corre"]
  /\ UNCHANGED ct /\ NadaMas

(* What the task of an action does to the container: <<before, after>>.    *)
Efecto(accion) ==
  CASE accion = "crear"     -> {<<"ausente", "corriendo">>}
    [] accion = "iniciar"   -> {<<"detenido", "corriendo">>}
    [] accion = "detener"   -> {<<"corriendo", "detenido">>}
    [] accion = "reiniciar" -> {<<"corriendo", "corriendo">>}
    [] accion = "eliminar"  -> {<<"detenido", "ausente">>}

TareaExito ==
  /\ hilo.etapa = "corre"
  /\ \E despues \in Cts : <<ct, despues>> \in Efecto(hilo.accion) /\ ct' = despues
  /\ hilo' = [hilo EXCEPT !.etapa = "exito"]
  /\ NadaMas

(* A creation that fails may leave a container behind, stopped.            *)
TareaFalla ==
  /\ hilo.etapa = "corre"
  /\ \/ ct' = ct
     \/ hilo.accion = "crear" /\ ct = "ausente" /\ ct' = "detenido"
  /\ hilo' = [hilo EXCEPT !.etapa = "fallo"]
  /\ NadaMas

(* The guest powers off, or someone stops it in Proxmox.                   *)
ExternoApaga ==
  /\ ct = "corriendo" /\ ct' = "detenido"
  /\ UNCHANGED hilo /\ NadaMas

ExternoEnciende ==
  /\ "enciende" \in EXTERNOS
  /\ ct = "detenido" /\ ct' = "corriendo"
  /\ UNCHANGED hilo /\ NadaMas

ExternoBorra ==
  /\ "borra" \in EXTERNOS
  /\ ct # "ausente" /\ ct' = "ausente"
  /\ UNCHANGED hilo /\ NadaMas

----------------------------------------------------------------------------
Comienza ==
  /\ cobertura = "futura" /\ cobertura' = "vigente"
  /\ UNCHANGED <<pedido, ledger, identidad, servicio, op, corrida, hilo, ct, vencida>>

(* A reservation expires with the period at the latest (expiracion_reserva).*)
Vence ==
  /\ cobertura = "vigente" /\ cobertura' = "vencida"
  /\ ledger' = [ledger EXCEPT !.expira = IF @ = "pendiente" THEN "pasada" ELSE @]
  /\ UNCHANGED <<pedido, identidad, servicio, op, corrida, hilo, ct, vencida>>

CaducaReserva ==
  /\ ledger.expira = "pendiente" /\ cobertura = "vigente"
  /\ ledger' = [ledger EXCEPT !.expira = "pasada"]
  /\ UNCHANGED <<pedido, cobertura, identidad, servicio, op, corrida, hilo, ct, vencida>>

(* The deadline of a dispatch outlives its thread (EnvioConLease).         *)
VencePlazo ==
  /\ op.fase \in {"dispatch_started", "tarea"} /\ Abierta /\ ~op.plazo
  /\ hilo.etapa # "vuelo"
  /\ op' = [op EXCEPT !.plazo = TRUE]
  /\ UNCHANGED <<pedido, cobertura, ledger, identidad, servicio, corrida, hilo, ct, vencida>>

Tarea == HiloMuere \/ TareaEmpieza \/ TareaExito \/ TareaFalla
Externo == ExternoApaga \/ ExternoEnciende \/ ExternoBorra
Reloj == Comienza \/ Vence \/ CaducaReserva \/ VencePlazo
============================================================================
