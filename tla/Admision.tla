------------------------------ MODULE Admision ------------------------------
(***************************************************************************)
(* The decisions about one order and its service: each is one transaction  *)
(* under the capacity lock that checks the rows, changes them and, where   *)
(* it asks for an effect, leaves an open operation for the executor.       *)
(* A decision that answers 4xx changes nothing and is not an action.       *)
(*                                                                         *)
(* People use a fresh Idempotency-Key per decision.  The scheduler jobs    *)
(* derive theirs from the row, so their stored answers are part of the     *)
(* state where a job can meet them again (vencida.decidida).               *)
(***************************************************************************)
EXTENDS EstadoPedido

(* One transition of the order, and nothing else of it.                    *)
Transicionar(estado) == pedido' = [pedido EXCEPT !.estado = estado]

(* Fault: the schedule is not compared with the decision in force.         *)
AgendaSinRevision == pedido.programada # 0

(* despliegue_revision_programada is that of the decision in force.        *)
AgendaVigente == pedido.programada = pedido.rev

(* Fault: the uncertain or dispatched operation is released with the rest. *)
LiberableSinMirarOrden == ledger.estado = "reservado"

(* Fault: an approved order that was never queued cannot be released.      *)
LiberableSoloDesplegando ==
  /\ pedido.estado = "EN_DESPLIEGUE" /\ ledger.estado = "reservado"
  /\ Abierta /\ op.fase = "preparacion" /\ op.estado # "incierta"

(* _liberar_pedido accepts: nothing was or may have been sent.             *)
Liberable ==
  /\ pedido.estado \in {"APROBADO", "EN_DESPLIEGUE"}
  /\ ledger.estado = "reservado"
  /\ pedido.estado = "EN_DESPLIEGUE" => Abierta
  /\ Abierta => op.fase = "preparacion" /\ op.estado # "incierta"

(* idempotencia_service finds no answer for the key of this boundary.      *)
LimiteSinDecidir == ~vencida.decidida

(* The service can take an order: alive, regular, nothing open.            *)
Operable == ServicioVivo /\ ~Abierta /\ LedgerAbierto /\ identidad # "retirada"

Conciliado == ledger.estado # "incierto" /\ identidad # "incierta"

(* Fault: the approval reserves the disk and forgets the compute.          *)
RetenidoTrasAprobar == [estado |-> "reservado", computo |-> FALSE, expira |-> "pendiente"]

LedgerReservado == [estado |-> "reservado", computo |-> TRUE, expira |-> "pendiente"]

----------------------------------------------------------------------------
(* aprobar: a revision with its period and its reservation; `inmediato'    *)
(* (or `programado' once the period began) also queues the deployment.     *)
Aprobar(intencion, periodo) ==
  /\ pedido.estado = "SOLICITADO" /\ ~pedido.baja /\ ~Abierta
  /\ pedido.rev < MaxRev
  /\ intencion = "inmediato" => periodo = "vigente"
  /\ intencion = "programado" => periodo = "futura"
  /\ pedido' = [pedido EXCEPT
       !.estado = IF intencion = "inmediato" THEN "EN_DESPLIEGUE" ELSE "APROBADO",
       !.rev = @ + 1,
       !.programada = IF intencion = "programado" THEN pedido.rev + 1 ELSE @,
       !.intencion = intencion]
  /\ cobertura' = periodo
  /\ ledger' = LedgerReservado
  /\ IF intencion = "inmediato" THEN NuevaOrden("desplegar", FALSE) ELSE UNCHANGED op
  /\ UNCHANGED <<identidad, servicio, corrida, hilo, ct, vencida>>

(* _queue_deploy: what desplegar and the schedule share.                   *)
EncolarDespliegue(programada) ==
  /\ pedido.estado = "APROBADO" /\ ~pedido.baja /\ ~Abierta
  /\ LedgerAbierto /\ ledger.expira # "pasada"
  /\ pedido' = [pedido EXCEPT !.estado = "EN_DESPLIEGUE", !.programada = programada]
  /\ NuevaOrden("desplegar", FALSE)
  /\ UNCHANGED <<cobertura, ledger, identidad, servicio, corrida, hilo, ct, vencida>>

Desplegar == Cubierto /\ EncolarDespliegue(pedido.programada)

(* procesar_agenda: a schedule of an older decision is dropped, one in     *)
(* force is queued from its first instant on.                              *)
AgendaObsoleta ==
  /\ pedido.estado = "APROBADO" /\ ~pedido.baja
  /\ pedido.programada # 0 /\ ~AgendaVigente
  /\ pedido' = [pedido EXCEPT !.programada = 0]
  /\ UNCHANGED <<cobertura, ledger, identidad, servicio, op, corrida, hilo, ct, vencida>>

AgendaDespacha ==
  /\ pedido.programada # 0 /\ AgendaVigente
  /\ Cubierto
  /\ EncolarDespliegue(0)

(* Fault: the reservation is freed and its operation stays open.           *)
OrdenSinCancelar == op

OrdenCancelada == [op EXCEPT !.estado = "fallida", !.fase = "cancelada"]

(* _liberar_pedido: cancels an operation still in preparation (the lease   *)
(* generation moves: the run that held it loses it), frees the             *)
(* reservation and revokes the period.                                     *)
LiberarPedido(estado, baja) ==
  /\ Liberable
  /\ pedido' = [pedido EXCEPT !.estado = estado, !.baja = baja]
  /\ cobertura' = "sin"
  /\ ledger' = LedgerLiberado
  /\ IF Abierta
       THEN /\ op' = OrdenCancelada
            /\ corrida' = SinCorrida
       ELSE UNCHANGED <<op, corrida>>
  /\ UNCHANGED <<identidad, servicio, hilo, ct, vencida>>

Revertir == ~pedido.baja /\ LiberarPedido("RECHAZADO", FALSE)

ExpirarReserva == ~pedido.baja /\ ledger.expira = "pasada" /\ LiberarPedido("RECHAZADO", FALSE)

Ajustar ==
  /\ ~pedido.baja
  /\ \/ LiberarPedido("REQUIERE_AJUSTE", FALSE)
     \/ /\ pedido.estado = "SOLICITADO" /\ ~Abierta
        /\ Transicionar("REQUIERE_AJUSTE")
        /\ UNCHANGED <<cobertura, ledger, identidad, servicio, op, corrida, hilo, ct, vencida>>

(* dar_de_baja: never while a service lives or an operation is open.       *)
DarDeBaja ==
  /\ ~pedido.baja /\ ~ServicioVivo
  /\ \/ LedgerAbierto /\ LiberarPedido("RECHAZADO", TRUE)
     \/ /\ ~LedgerAbierto /\ ~Abierta
        /\ pedido' = [pedido EXCEPT !.baja = TRUE]
        /\ UNCHANGED <<cobertura, ledger, identidad, servicio, op, corrida, hilo, ct, vencida>>

(* solicitud_service.resolver, and the condition that lets a failed order  *)
(* be closed as rejected: absence confirmed, or nothing ever sent.         *)
FalloSeguro ==
  /\ ~LedgerAbierto /\ ~ServicioVivo /\ ~Abierta
  /\ op.estado = "fallida"
  /\ \/ identidad = "retirada"
     \/ identidad = "no" /\ ~op.enviada

Resolver ==
  /\ ~pedido.baja
  /\ \/ /\ pedido.estado = "REQUIERE_AJUSTE"
        /\ Transicionar("SOLICITADO")
     \/ /\ pedido.estado \in {"SOLICITADO", "REQUIERE_AJUSTE"}
        /\ \E fin \in {"CANCELADO", "RECHAZADO"} : Transicionar(fin)
     \/ /\ pedido.estado = "ERROR" /\ FalloSeguro
        /\ Transicionar("RECHAZADO")
  /\ UNCHANGED <<cobertura, ledger, identidad, servicio, op, corrida, hilo, ct, vencida>>

----------------------------------------------------------------------------
(* reintentar: a repair of the resource that exists, never a new one; the  *)
(* container is observed under the lock.                                   *)
Reintentable ==
  /\ pedido.estado = "ERROR" /\ ~pedido.baja /\ ~Abierta
  /\ identidad \notin {"no", "retirada"} /\ LedgerAbierto
  /\ ct = "corriendo"

Reintentar ==
  /\ Reintentable
  /\ Transicionar("EN_DESPLIEGUE")
  /\ NuevaOrden("reparar", FALSE)
  /\ servicio' = [servicio EXCEPT !.preparado = FALSE]
  /\ UNCHANGED <<cobertura, ledger, identidad, corrida, hilo, ct, vencida>>

(* iniciar: compute is retained again before anything is sent.             *)
Iniciar ==
  /\ "iniciar" \in ORDENES
  /\ Operable /\ servicio.estado \in {"STOPPED", "PAUSED"}
  /\ Cubierto /\ Conciliado
  /\ ct # "ausente"
  /\ ledger' = [ledger EXCEPT !.computo = TRUE]
  /\ NuevaOrden("iniciar", FALSE)
  /\ UNCHANGED <<pedido, cobertura, identidad, servicio, corrida, hilo, ct, vencida>>

(* admitir_orden for people and for the inactivity job.                    *)
OrdenPermitida(tipo) ==
  \/ tipo = "eliminar"
  \/ tipo = "detener" /\ (servicio.estado = "RUNNING" \/ ledger.computo)
  \/ tipo = "reiniciar" /\ servicio.estado = "RUNNING" /\ Conciliado /\ Cubierto
  \/ tipo = "pausar" /\ servicio.estado = "RUNNING" /\ pedido.estado # "EN_DESPLIEGUE"

AdmitirOrden(tipo) ==
  /\ Operable
  /\ OrdenPermitida(tipo)
  /\ NuevaOrden(tipo, FALSE)
  /\ UNCHANGED <<pedido, cobertura, ledger, identidad, servicio, corrida, hilo, ct, vencida>>

(* A new SSH key or console user of a Linux service (iaas_acceso_service). *)
RepararAcceso ==
  /\ "reparar" \in ORDENES
  /\ IaaS /\ Operable /\ servicio.estado = "RUNNING"
  /\ NuevaOrden("reparar", FALSE)
  /\ servicio' = [servicio EXCEPT !.preparado = FALSE]
  /\ UNCHANGED <<pedido, cobertura, ledger, identidad, corrida, hilo, ct, vencida>>

(* aplicar_vencimientos: the key names the boundary, so the job asks once  *)
(* for each; the stored answer is replayed afterwards.                     *)
PorPausar == ServicioVivo /\ ~Cubierto /\ servicio.estado = "RUNNING"

AplicarVencimiento ==
  /\ PorPausar /\ Operable /\ LimiteSinDecidir
  /\ NuevaOrden("pausar", TRUE)
  /\ vencida' = [vencida EXCEPT !.decidida = TRUE]
  /\ UNCHANGED <<pedido, cobertura, ledger, identidad, servicio, corrida, hilo, ct>>

(* verificacion_acceso_service: the access of a prepared, covered, running *)
(* instance was proved from the network.                                   *)
VerificarAcceso ==
  /\ ServicioVivo /\ servicio.estado = "RUNNING" /\ servicio.preparado /\ Cubierto
  /\ pedido.estado = "EN_DESPLIEGUE" /\ Transicionar("ACTIVO")
  /\ UNCHANGED <<cobertura, ledger, identidad, servicio, op, corrida, hilo, ct, vencida>>

(* estado_servicio_service.actualizar: under the lock, from what Proxmox   *)
(* shows; resources that no longer match leave the rows uncertain.         *)
Sincronizar(coincide) ==
  /\ Operable /\ ct # "ausente"
  /\ servicio' = [servicio EXCEPT !.estado =
       IF ct = "corriendo" THEN "RUNNING" ELSE IF servicio.pausado THEN "PAUSED" ELSE "STOPPED"]
  /\ ledger' = IF coincide THEN LedgerMaterializado(ct = "corriendo") ELSE LedgerIncierto
  /\ identidad' = IF coincide THEN "materializada" ELSE "incierta"
  /\ UNCHANGED <<pedido, cobertura, op, corrida, hilo, ct, vencida>>

(* A renewal that was approved begins after the coverage had lapsed; the   *)
(* boundary the job derives its key from is the end of the new period.     *)
Renovar ==
  /\ ServicioVivo /\ LedgerAbierto /\ cobertura = "vencida"
  /\ vencida.renovaciones < MaxRenov
  /\ cobertura' = "vigente"
  /\ vencida' = [decidida |-> FALSE, renovaciones |-> vencida.renovaciones + 1]
  /\ UNCHANGED <<pedido, ledger, identidad, servicio, op, corrida, hilo, ct>>

Decision ==
  \/ \E i \in {"manual", "inmediato", "programado"}, p \in {"futura", "vigente"} : Aprobar(i, p)
  \/ Desplegar \/ AgendaObsoleta \/ AgendaDespacha
  \/ Revertir \/ ExpirarReserva \/ Ajustar \/ DarDeBaja \/ Resolver
  \/ Reintentar \/ Iniciar \/ RepararAcceso \/ VerificarAcceso \/ Renovar
  \/ \E t \in ORDENES \ {"iniciar", "reparar"} : AdmitirOrden(t)
  \/ AplicarVencimiento
  \/ \E coincide \in BOOLEAN : Sincronizar(coincide)
============================================================================
