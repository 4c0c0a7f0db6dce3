------------------------------ MODULE Ejecutor ------------------------------
(***************************************************************************)
(* procesar_lease, one run at a time (EnvioConLease proves that the lease  *)
(* serialises the writers).  Each block under _locked and each group of    *)
(* external reads is a step of its own, so what a run saw (corrida.obs)    *)
(* may be stale when the next block uses it.                               *)
(***************************************************************************)
EXTENDS EstadoPedido

EnTurno(fase) == corrida.pc = "turno" /\ op.fase = fase
Visto(para) == corrida.pc = "visto" /\ corrida.para = para
Presente == corrida.obs \in {"detenido", "corriendo"}

(* The loop of procesar_lease goes on from this phase.                     *)
Sigue(fase) ==
  /\ op' = [op EXCEPT !.fase = fase]
  /\ corrida' = [SinCorrida EXCEPT !.pc = "turno"]

(* Fault: an order whose dispatch gave no answer is sent again.            *)
OrdenDevuelta ==
  [op EXCEPT !.estado = "incierta", !.fase = IF @ = "dispatch_started" THEN "lista" ELSE @]

OrdenIncierta == [op EXCEPT !.estado = "incierta"]

(* _defer(uncertain=True): nothing is concluded and all is retained.       *)
Incierta ==
  /\ op' = OrdenIncierta
  /\ ledger' = IF LedgerAbierto THEN LedgerIncierto ELSE ledger
  /\ identidad' = IF identidad = "no" THEN "no" ELSE "incierta"
  /\ corrida' = SinCorrida
  /\ UNCHANGED <<pedido, cobertura, servicio, hilo, ct, vencida>>

(* Fault: a failure frees the capacity whenever there is no service yet.   *)
LiberaSinServicio(ausente) == ausente \/ servicio.estado = "no"

(* What lets a failure free the capacity: absence confirmed, or nothing    *)
(* claimed and nothing sent.                                               *)
LiberaAlFallar(ausente) == ausente \/ (~op.enviada /\ identidad = "no")

(* _finish_failure                                                         *)
Fallar(ausente) ==
  /\ identidad' = IF identidad = "no" THEN "no" ELSE IF ausente THEN "retirada" ELSE "incierta"
  /\ ledger' = IF ~LedgerAbierto THEN ledger
               ELSE IF LiberaAlFallar(ausente) THEN LedgerLiberado ELSE LedgerIncierto
  /\ pedido' = [pedido EXCEPT !.estado = IF @ = "EN_DESPLIEGUE" THEN "ERROR" ELSE @]
  /\ op' = [op EXCEPT !.estado = "fallida"]
  /\ corrida' = SinCorrida
  /\ UNCHANGED <<cobertura, servicio, hilo, ct, vencida>>

----------------------------------------------------------------------------
Reclamar ==
  /\ Abierta /\ corrida.pc = "libre"
  /\ op' = [op EXCEPT !.estado = "en_curso"]
  /\ corrida' = [SinCorrida EXCEPT !.pc = "turno"]
  /\ UNCHANGED <<pedido, cobertura, ledger, identidad, servicio, hilo, ct, vencida>>

(* The run ends and leaves the rows as they are: the process died, the     *)
(* lease was lost, the loop used its eight turns, the pool of the category *)
(* is not ready, or the task goes on within its deadline.                  *)
Ceder ==
  /\ corrida.pc # "libre"
  /\ corrida' = SinCorrida
  /\ UNCHANGED <<pedido, cobertura, ledger, identidad, servicio, op, hilo, ct, vencida>>

(* _prepare of a new resource: the decision is read again before the       *)
(* identity is claimed.  Its validation fails for many external reasons.   *)
PrepararCreacion ==
  /\ EnTurno("preparacion") /\ op.tipo = "desplegar"
  /\ LedgerAbierto /\ pedido.estado = "EN_DESPLIEGUE"
  /\ Cubierto /\ ledger.expira # "pasada"
  /\ identidad' = "reclamada"
  /\ Sigue("lista")
  /\ UNCHANGED <<pedido, cobertura, ledger, servicio, hilo, ct, vencida>>

RechazarPreparacion ==
  /\ EnTurno("preparacion") /\ op.tipo = "desplegar"
  /\ Fallar(FALSE)

PorMaterializar == op.tipo = "reparar" /\ servicio.estado = "no"

PrepararOrden ==
  /\ EnTurno("preparacion") /\ op.tipo # "desplegar" /\ ~PorMaterializar
  /\ identidad \notin {"no", "retirada"} /\ LedgerAbierto
  /\ Sigue("lista")
  /\ UNCHANGED <<pedido, cobertura, ledger, identidad, servicio, hilo, ct, vencida>>

EmpezarReparacion ==
  /\ EnTurno("lista") /\ op.tipo = "reparar"
  /\ Sigue("bootstrap")
  /\ UNCHANGED <<pedido, cobertura, ledger, identidad, servicio, hilo, ct, vencida>>

----------------------------------------------------------------------------
(* What the loop has to look at before it can decide.                      *)
MiraEnLista(para) ==
  \/ para = "obsoleta" /\ op.tipo = "pausar" /\ op.vencimiento /\ corrida.para = "nada"
  \/ para = "baja" /\ op.tipo = "eliminar" /\ corrida.para = "nada"
  \/ /\ para = "detener"
     /\ \/ op.tipo = "detener" \/ corrida.para = "detener"
        \/ op.tipo = "pausar" /\ ~op.vencimiento

(* Fault: only a task that still runs is found again.                      *)
TareaHallableEnCurso == hilo.etapa = "corre" /\ (ct # "ausente" \/ op.accion = "eliminar")

(* recuperar_upid finds the one task of the dispatch, while the resource   *)
(* is there (or was to be removed).                                        *)
TareaHallable == HayTarea /\ (ct # "ausente" \/ op.accion = "eliminar")

(* Fault: what is observed decides before the deadline.                    *)
PorObservacion == op.tipo \in {"detener", "pausar"} /\ op.accion = "detener"

(* A stop without a task may be confirmed by what is observed, once no     *)
(* thread can send it any more.                                            *)
PorPlazo == op.tipo \in {"detener", "pausar"} /\ op.accion = "detener" /\ op.plazo

Mira(para) ==
  \/ EnTurno("preparacion") /\ PorMaterializar /\ para = "materializar"
  \/ EnTurno("lista") /\ MiraEnLista(para)
  \/ EnTurno("detencion_necesaria") /\ para = "detener"
  \/ EnTurno("dispatch_started") /\ ~TareaHallable /\ PorPlazo /\ para = "plazo"
  \/ EnTurno("tarea") /\ hilo.etapa \in {"exito", "fallo"} /\ para = "tarea"
  \/ EnTurno("bootstrap") /\ para = "preparar"
  \/ corrida.pc = "preparado" /\ para = "entregar"

(* `ajena': not ours, locked by another task, or with other resources.     *)
Observar ==
  /\ \E para \in Miradas, obs \in {ct, "ajena"} :
       Mira(para) /\ corrida' = [pc |-> "visto", para |-> para, obs |-> obs]
  /\ UNCHANGED <<pedido, cobertura, ledger, identidad, servicio, op, hilo, ct, vencida>>

(* The same observation, after a check of the coverage under the lock.     *)
VistoPara(para) == op' = op /\ corrida' = [corrida EXCEPT !.para = para]

----------------------------------------------------------------------------
(* _dispatch: the mark is committed, then the thread is started.           *)
Enviar(accion) ==
  /\ op' = [op EXCEPT !.fase = "dispatch_started", !.accion = accion,
                      !.enviada = TRUE, !.plazo = FALSE]
  /\ corrida' = [SinCorrida EXCEPT !.pc = "espera"]
  /\ hilo' = [accion |-> accion, etapa |-> "vuelo"]
  /\ UNCHANGED <<pedido, cobertura, ledger, identidad, servicio, ct, vencida>>

CreacionHabilitada == Cubierto /\ LedgerAbierto /\ ledger.expira # "pasada"

DespacharCreacion ==
  /\ EnTurno("lista") /\ op.tipo = "desplegar"
  /\ CreacionHabilitada
  /\ Enviar("crear")

RechazarCreacion ==
  /\ EnTurno("lista") /\ op.tipo = "desplegar"
  /\ ~CreacionHabilitada
  /\ Fallar(FALSE)

(* Without coverage a start becomes a stop.                                *)
DespacharEncendido ==
  /\ EnTurno("lista") /\ op.tipo \in {"iniciar", "reiniciar"}
  /\ Enviar(IF Cubierto THEN op.tipo ELSE "detener")

DespacharDetencion ==
  /\ Visto("detener") /\ corrida.obs # "detenido"
  /\ Enviar("detener")

DespacharEliminacion ==
  /\ \/ EnTurno("eliminacion_necesaria")
     \/ Visto("baja") /\ corrida.obs = "detenido"
  /\ Enviar("eliminar")

(* The answer of the POST, or the one task that matches the dispatch.      *)
TomarUpid ==
  /\ \/ corrida.pc = "espera" /\ HayTarea
     \/ EnTurno("dispatch_started") /\ TareaHallable
  /\ Sigue("tarea")
  /\ UNCHANGED <<pedido, cobertura, ledger, identidad, servicio, hilo, ct, vencida>>

(* No task is found: the order waits, it never sends again.                *)
SinTarea ==
  /\ EnTurno("dispatch_started") /\ ~TareaHallable /\ ~PorPlazo
  /\ Incierta

TareaVencida == EnTurno("tarea") /\ hilo.etapa = "corre" /\ op.plazo /\ Incierta

----------------------------------------------------------------------------
(* _materialize                                                            *)
Materializar ==
  /\ \/ Visto("materializar")
     \/ Visto("tarea") /\ hilo.etapa = "exito" /\ op.accion = "crear"
  /\ Presente
  /\ servicio' = IF servicio.estado # "no" THEN servicio
       ELSE [servicio EXCEPT !.estado = IF corrida.obs = "corriendo" THEN "RUNNING" ELSE "STOPPED"]
  /\ identidad' = "materializada"
  /\ ledger' = LedgerMaterializado(ledger.computo)
  /\ Sigue("bootstrap")
  /\ UNCHANGED <<pedido, cobertura, hilo, ct, vencida>>

(* The state that a confirmed order leaves in the service.                 *)
EstadoConfirmado(accion) ==
  IF accion # "detener" THEN "RUNNING"
  ELSE IF op.tipo \in {"pausar", "desplegar", "iniciar", "reiniciar"} THEN "PAUSED" ELSE "STOPPED"

ObsConfirma(accion) == corrida.obs = IF accion = "detener" THEN "detenido" ELSE "corriendo"

(* Fault: a service that runs again does not wake the suspended order.     *)
PedidoSinReactivar(preparado, estado) ==
  IF preparado /\ IaaS /\ pedido.estado = "EN_DESPLIEGUE" THEN "ACTIVO"
  ELSE IF estado = "PAUSED" /\ pedido.estado = "ACTIVO" THEN "SUSPENDIDO"
  ELSE pedido.estado

PedidoConfirmado(preparado, estado) ==
  IF preparado /\ IaaS /\ pedido.estado = "EN_DESPLIEGUE" THEN "ACTIVO"
  ELSE IF estado = "PAUSED" /\ pedido.estado = "ACTIVO" THEN "SUSPENDIDO"
  ELSE IF estado = "RUNNING" /\ pedido.estado = "SUSPENDIDO" THEN "ACTIVO"
  ELSE pedido.estado

(* _confirmed, for a resource that is there                                *)
Confirmar(accion, preparado) ==
  /\ ServicioVivo /\ ObsConfirma(accion)
  /\ LET estado == EstadoConfirmado(accion)
     IN /\ servicio' = [estado |-> estado,
                        pausado |-> IF estado = "STOPPED" THEN servicio.pausado ELSE estado = "PAUSED",
                        preparado |-> servicio.preparado \/ preparado]
        /\ pedido' = [pedido EXCEPT !.estado = PedidoConfirmado(preparado, estado)]
  /\ ledger' = LedgerMaterializado(accion # "detener")
  /\ identidad' = "materializada"
  /\ op' = [op EXCEPT !.estado = "confirmada", !.fase = "verificacion", !.accion = accion]
  /\ corrida' = SinCorrida
  /\ UNCHANGED <<cobertura, hilo, ct, vencida>>

(* _confirmed, when `eliminar' finds the resource gone                     *)
ConfirmarBaja ==
  /\ Visto("baja") \/ (Visto("tarea") /\ op.accion = "eliminar")
  /\ op.tipo = "eliminar" /\ corrida.obs = "ausente"
  /\ identidad' = "retirada"
  /\ servicio' = [servicio EXCEPT !.estado = "retirado"]
  /\ ledger' = LedgerLiberado
  /\ op' = [op EXCEPT !.estado = "confirmada", !.fase = "verificacion"]
  /\ corrida' = SinCorrida
  /\ UNCHANGED <<pedido, cobertura, hilo, ct, vencida>>

----------------------------------------------------------------------------
(* _cancel_obsolete_pause, or the stop goes on.                            *)
RevisarPausa ==
  /\ Visto("obsoleta")
  /\ IF Cubierto /\ corrida.obs = "corriendo"
       THEN /\ ledger' = [ledger EXCEPT !.computo = TRUE]
            /\ op' = [op EXCEPT !.estado = "confirmada", !.fase = "verificacion"]
            /\ corrida' = SinCorrida
       ELSE /\ corrida' = [SinCorrida EXCEPT !.pc = "turno", !.para = "detener"]
            /\ UNCHANGED <<ledger, op>>
  /\ UNCHANGED <<pedido, cobertura, identidad, servicio, hilo, ct, vencida>>

(* A running resource is stopped before it is removed.                     *)
RevisarBaja ==
  /\ Visto("baja") /\ corrida.obs = "corriendo"
  /\ corrida' = [SinCorrida EXCEPT !.pc = "turno", !.para = "detener"]
  /\ UNCHANGED <<pedido, cobertura, ledger, identidad, servicio, op, hilo, ct, vencida>>

(* Already stopped: nothing is sent.                                       *)
YaDetenido ==
  /\ Visto("detener") /\ corrida.obs = "detenido"
  /\ op.tipo = "eliminar"
  /\ Sigue("eliminacion_necesaria")
  /\ UNCHANGED <<pedido, cobertura, ledger, identidad, servicio, hilo, ct, vencida>>

(* sin_cambios: accion_externa is written as `detener' and confirmed.      *)
ConfirmarDetenido ==
  /\ Visto("detener") /\ op.tipo # "eliminar"
  /\ Confirmar("detener", FALSE)

ConfirmarPorPlazo == Visto("plazo") /\ Confirmar(op.accion, FALSE)

TareaFallida ==
  /\ Visto("tarea") /\ hilo.etapa = "fallo"
  /\ ~(op.tipo = "eliminar" /\ op.accion = "eliminar" /\ corrida.obs = "ausente")
  /\ Fallar(corrida.obs = "ausente")

(* The steps after a task that succeeded.                                  *)
TareaLograda ==
  /\ Visto("tarea") /\ hilo.etapa = "exito"
  /\ \/ /\ op.tipo = "eliminar" /\ op.accion = "detener" /\ corrida.obs = "detenido"
        /\ Sigue("eliminacion_necesaria")
     \/ /\ op.accion \in {"iniciar", "reiniciar"} /\ ~Cubierto
        /\ Sigue("detencion_necesaria")
     \/ /\ op.accion \in {"iniciar", "reiniciar"} /\ Cubierto
        /\ VistoPara("encendido")
  /\ UNCHANGED <<pedido, cobertura, ledger, identidad, servicio, hilo, ct, vencida>>

ConfirmarTarea ==
  /\ \/ Visto("tarea") /\ hilo.etapa = "exito" /\ op.accion = "detener" /\ op.tipo # "eliminar"
     \/ Visto("encendido")
  /\ Confirmar(op.accion, FALSE)

(* Bootstrap: coverage is read before the guest is prepared and again      *)
(* before it is delivered.                                                 *)
RevisarCobertura ==
  /\ (Visto("preparar") /\ Presente) \/ Visto("entregar")
  /\ IF ~Cubierto THEN Sigue("detencion_necesaria")
     ELSE IF Visto("preparar")
       THEN op' = op /\ corrida' = [SinCorrida EXCEPT !.pc = "preparado"]
       ELSE VistoPara("entregado")
  /\ UNCHANGED <<pedido, cobertura, ledger, identidad, servicio, hilo, ct, vencida>>

PreparacionFallida == corrida.pc = "preparado" /\ Fallar(FALSE)

Entregar == Visto("entregado") /\ Confirmar(op.accion, TRUE)

----------------------------------------------------------------------------
(* The observation does not allow what the run meant to do with it.        *)
ObsSirve ==
  \/ corrida.para \in {"obsoleta", "detener", "entregar"}
  \/ corrida.para = "baja" /\ corrida.obs # "ajena"
  \/ corrida.para \in {"materializar", "preparar"} /\ Presente
  \/ corrida.para \in {"plazo", "encendido", "entregado"} /\ ObsConfirma(op.accion)
  \/ /\ corrida.para = "tarea"
     /\ \/ hilo.etapa = "fallo"
        \/ op.accion = "crear" /\ Presente
        \/ op.accion \in {"iniciar", "reiniciar"}
        \/ op.accion = "detener" /\ corrida.obs = "detenido"
        \/ op.accion = "eliminar" /\ corrida.obs = "ausente"

(* Steps in which the run reads Proxmox or the runner, or lacks an answer. *)
Lee ==
  \/ corrida.pc \in {"espera", "preparado"}
  \/ \E para \in Miradas : Mira(para)
  \/ EnTurno("dispatch_started") \/ EnTurno("tarea")
  \/ EnTurno("preparacion") /\ op.tipo = "desplegar"

(* InfraNoVerificable                                                      *)
NoVerificable ==
  /\ Lee \/ (corrida.pc = "visto" /\ ~ObsSirve)
  /\ Incierta

Turno ==
  \/ Reclamar \/ Ceder
  \/ PrepararCreacion \/ RechazarPreparacion \/ PrepararOrden \/ EmpezarReparacion
  \/ Observar
  \/ DespacharCreacion \/ RechazarCreacion \/ DespacharEncendido \/ DespacharDetencion
  \/ DespacharEliminacion \/ TomarUpid \/ SinTarea \/ TareaVencida
  \/ Materializar \/ RevisarPausa \/ RevisarBaja \/ YaDetenido \/ ConfirmarDetenido
  \/ ConfirmarPorPlazo \/ TareaFallida \/ TareaLograda \/ ConfirmarTarea \/ ConfirmarBaja
  \/ RevisarCobertura \/ PreparacionFallida \/ Entregar
  \/ NoVerificable
============================================================================
