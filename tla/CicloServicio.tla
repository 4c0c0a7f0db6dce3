--------------------------- MODULE CicloServicio ---------------------------
(***************************************************************************)
(* The life of one order and its container: decisions of people and of     *)
(* the scheduler jobs (Admision), the durable executor (Ejecutor), and     *)
(* Proxmox with its tasks and the clock (Entorno), in any interleaving.    *)
(***************************************************************************)
EXTENDS Admision, Ejecutor, Entorno

Next == Decision \/ Turno \/ Tarea \/ Externo \/ Reloj

Spec == Init /\ [][Next]_vars

----------------------------------------------------------------------------
(* Capacity is free only when the container is known to be gone and no     *)
(* creation can still appear: whatever released it (expiry, rejection,     *)
(* adjustment, a failure, a removal), nobody else may be sold those        *)
(* resources while Proxmox holds or may hold them.                         *)
CapacidadHastaAusencia ==
  ~LedgerAbierto => ct = "ausente" /\ ~(hilo.accion = "crear" /\ EnVuelo)

(* Compute is retained whenever the container runs or was told to run,     *)
(* also while a start races with a stop seen from outside.                 *)
ComputoRetenido ==
  EXTERNOS = {} =>
    (ct = "corriendo" \/ (EnVuelo /\ hilo.accion \in {"crear", "iniciar", "reiniciar"})
       => LedgerAbierto /\ ledger.computo)

(* An order that was sent back, cancelled, rejected or withdrawn has no    *)
(* open operation, no reservation and nothing in Proxmox.                  *)
DecisionRevocada ==
  (pedido.baja \/ pedido.estado \in {"SOLICITADO", "REQUIERE_AJUSTE", "CANCELADO", "RECHAZADO"})
    => /\ ~Abierta /\ ~LedgerAbierto
       /\ ct = "ausente" /\ ~EnVuelo

(* An open operation never loses its reservation or its identity, and a    *)
(* live service never loses its ledger: the branches of the executor for   *)
(* a missing ledger or a retired identity are unreachable.                 *)
CompromisoVigente ==
  /\ Abierta => /\ LedgerAbierto /\ identidad # "retirada"
                /\ op.fase # "preparacion" => identidad # "no"
  /\ ServicioVivo /\ "borra" \notin EXTERNOS => LedgerAbierto /\ identidad \notin {"no", "retirada"}

(* A suspended order keeps the mark of its automatic pause, with which the *)
(* observation of a stopped container shows it paused and not just off;    *)
(* every path that runs the service again and drops the mark wakes the     *)
(* order.                                                                  *)
SuspensionConPausa == pedido.estado = "SUSPENDIDO" => servicio.pausado

(* The schedule only deploys what the decision in force scheduled, however *)
(* often the order was adjusted and approved again.                        *)
AgendaSoloProgramada ==
  [][pedido.programada # 0 /\ pedido'.programada = 0 /\ pedido'.estado = "EN_DESPLIEGUE"
       => pedido.intencion = "programado"]_vars

(* Why capacity is never freed too soon: the links between the operation,  *)
(* the run that holds it, the request in flight and the ledger.  Their     *)
(* conjunction is inductive (CicloServicio_proofs).                        *)
PuedeExistir == ct # "ausente" \/ (hilo.accion = "crear" /\ EnVuelo)

EnEfecto == Abierta /\ op.fase \in {"dispatch_started", "tarea"}

(* Before the creation is sent nothing was, and all else comes after it.   *)
PorCrear == op.tipo = "desplegar" /\ op.fase \in {"preparacion", "lista"}

FaseDeVista ==
  /\ corrida.para \in {"tarea", "encendido"} => op.fase = "tarea" /\ hilo.etapa \in {"exito", "fallo"}
  /\ corrida.para = "plazo" => /\ op.fase = "dispatch_started" /\ op.accion = "detener" /\ op.plazo
                               /\ corrida.obs = "detenido" => ~EnVuelo
  /\ corrida.para \in {"obsoleta", "baja", "detener"} => op.fase \in {"lista", "detencion_necesaria"}
  /\ corrida.para = "materializar" => op.fase = "preparacion"
  /\ corrida.para \in {"preparar", "entregar", "entregado"} => op.fase = "bootstrap"
  /\ corrida.para # "nada"
  /\ corrida.obs = "ausente" => ~PuedeExistir

CorridaConOrden ==
  /\ corrida.pc # "libre" =>
       /\ Abierta
       /\ corrida.para \in {"obsoleta", "baja", "detener", "materializar"} => ~PorCrear
  /\ corrida.pc = "visto" => FaseDeVista
  /\ corrida.pc = "espera" => op.fase = "dispatch_started"
  /\ corrida.pc = "preparado" => op.fase = "bootstrap"

IdentidadAntesDelEnvio ==
  (Abierta /\ op.fase # "preparacion") \/ PuedeExistir => identidad # "no"

UnaCreacion ==
  /\ pedido.estado \in {"SOLICITADO", "REQUIERE_AJUSTE", "APROBADO"} => hilo.etapa = "no" /\ ~Abierta
  /\ Abierta => (PorCrear <=> hilo.etapa = "no")
  /\ PuedeExistir \/ servicio.estado # "no" => hilo.etapa # "no"
  /\ hilo.accion = "crear" /\ EnVuelo => ct = "ausente"
  /\ ledger.estado = "reservado" /\ hilo.etapa # "no" => EnEfecto /\ op.accion = "crear"

OrdenRespaldada ==
  /\ EnVuelo => EnEfecto /\ op.accion = hilo.accion /\ (op.plazo => hilo.etapa = "corre")
  /\ Abierta \/ PuedeExistir => LedgerAbierto
  /\ pedido.baja \/ pedido.estado \in {"SOLICITADO", "REQUIERE_AJUSTE", "CANCELADO", "RECHAZADO"}
       => ~Abierta /\ ~LedgerAbierto

Ligaduras == CorridaConOrden /\ IdentidadAntesDelEnvio /\ UnaCreacion /\ OrdenRespaldada

(* The whole system keeps the promise of RecursoReservado.                 *)
Recurso ==
  IF ct # "ausente" THEN "existe"
  ELSE IF hilo.etapa = "no" THEN "nunca"
  ELSE IF hilo.accion = "crear" /\ EnVuelo THEN "en_camino" ELSE "ya_no"

Promesa == INSTANCE RecursoReservado WITH
             reserva <- IF LedgerAbierto THEN "retenida" ELSE "libre",
             recurso <- Recurso

PromesaReserva == Promesa!Spec

(* What the order relies on about its dispatches, and EnvioConLease keeps. *)
FilaVista == IF ~Abierta THEN "cerrada" ELSE IF EnEfecto THEN "enviada" ELSE "lista"

Despacho == INSTANCE DespachoDeOrden WITH
              fila <- FilaVista, plazo <- EnEfecto /\ op.plazo,
              hilo <- IF hilo.etapa \in {"exito", "fallo"} THEN "fin" ELSE hilo.etapa

(* No decision, failure, repair or renewal sends a second request over one *)
(* that may still act, nor closes or opens an operation over it; the       *)
(* deadline alone decides when an answer never came.                       *)
DespachoEnOrden == Despacho!Spec
----------------------------------------------------------------------------
(* Fairness.  The worker claims and its runs go on or end (every wait has  *)
(* a timeout), the scheduler jobs and the clock keep going, and Proxmox    *)
(* ends what it starts: weak fairness.  A run may die, lose its lease or   *)
(* fail to read Proxmox any number of times, but not for ever:             *)
(* strong fairness of the steps that get through.  No decision of a person *)
(* is fair.                                                                *)
ObservarBien == Observar /\ corrida'.obs = ct

Concluir ==
  \/ Materializar \/ RevisarPausa \/ RevisarBaja \/ YaDetenido \/ ConfirmarDetenido
  \/ ConfirmarPorPlazo \/ TareaFallida \/ ConfirmarTarea \/ ConfirmarBaja \/ Entregar

Avanzar ==
  \/ PrepararOrden \/ EmpezarReparacion \/ RechazarCreacion \/ DespacharEncendido
  \/ DespacharDetencion \/ DespacharEliminacion \/ TomarUpid \/ SinTarea
  \/ ledger.expira = "pasada" /\ RechazarPreparacion

Justicia ==
  /\ WF_vars(Turno) /\ WF_vars(VencePlazo)
  /\ WF_vars(ExpirarReserva) /\ WF_vars(AplicarVencimiento) /\ WF_vars(Sincronizar(TRUE))
  /\ WF_vars(HiloMuere \/ TareaEmpieza) /\ WF_vars(TareaExito \/ TareaFalla)
  /\ SF_vars(Avanzar) /\ SF_vars(ObservarBien) /\ SF_vars(Concluir)
  /\ SF_vars(corrida.obs = ct /\ (TareaLograda \/ RevisarCobertura))

SpecJusta == Spec /\ Justicia

(* The comment beside TRANSICIONES_VALIDAS: a reservation that lapsed      *)
(* before its identity was claimed frees its capacity, queued or not, and  *)
(* whatever the preparation was doing then.  One that lapses later is not  *)
(* promised: the request is not sent, nothing exists, and the ledger stays *)
(* `incierto' for good (RechazarCreacion).                                 *)
ReservaCaduca == ledger.estado = "reservado" /\ ledger.expira = "pasada" /\ identidad = "no"

ReservaCaducaSeResuelve == ReservaCaduca ~> ~LedgerAbierto

(* The end of a task that Proxmox still shows, and whose effect nobody has *)
(* undone from outside, is noticed and acted upon, even if its UPID, its   *)
(* worker or some reads were lost.                                         *)
EfectoIntacto ==
  CASE hilo.accion \in {"crear", "iniciar", "reiniciar"} -> ct = "corriendo"
    [] hilo.accion = "detener" -> ct = "detenido"
    [] OTHER -> ct = "ausente"

TareaPorNotar ==
  /\ EnEfecto
  /\ \/ hilo.etapa = "fallo" /\ (ct # "ausente" \/ op.accion = "eliminar")
     \/ hilo.etapa = "exito" /\ EfectoIntacto

TareaSeNota == TareaPorNotar ~> ~TareaPorNotar

----------------------------------------------------------------------------
(* What documents of the repository say of the program, and a run of the   *)
(* kind `violation' refutes.                                                *)

(* FR-072: where a renewal, if any, begins later than the period ends, "el *)
(* sistema DEBE aplicar la pausa al vencer": a container that runs without *)
(* coverage stops, or its coverage begins again.                           *)
PausaAlVencer == (PorPausar /\ ct = "corriendo") ~> ~(PorPausar /\ ct = "corriendo")
============================================================================
