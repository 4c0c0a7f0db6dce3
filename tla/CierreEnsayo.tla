---------------------------- MODULE CierreEnsayo ----------------------------
(***************************************************************************)
(* The end of a trial (ensayo_cleanup_service): once it is discarded,      *)
(* published or overdue, its builder is closed, its containers are stopped *)
(* and deleted one step at a time, capacity is freed resource by resource, *)
(* and the space of the builder last; with Proxmox, and the whole system.  *)
(***************************************************************************)
EXTENDS Ensayo

VARIABLES
  cierre,  \* the cleanup operation: what its context remembers
  mano,    \* the run of the cleanup that holds its lease
  baja,    \* the latest stop or delete of each container: request and task
  tarde    \* history: the creations that the cleanup could not know of

vars == <<varsCasa, varsEnsayo, cierre, mano, baja, tarde>>

SinMano == [pc |-> "libre", obs |-> "nada"]

InitCierre ==
  /\ cierre = [cerrado |-> FALSE, tarea |-> "no"]
  /\ mano = SinMano
  /\ baja = [r \in R |-> [accion |-> "parar", etapa |-> "no"]]
  /\ tarde = [r \in R |-> FALSE]

Init == InitCasa /\ InitEnsayo /\ InitCierre

(* Every variable keeps its type: a closed trial never begins another      *)
(* generation, and no operation is asked for beyond the bounds             *)
(* (ensayo_service, ensayo_cleanup_service.solicitar).                     *)
TypeOK ==
  /\ TypeOKCasa /\ TypeOKEnsayo
  /\ cierre \in [cerrado : BOOLEAN, tarea : {"no", "suya", "rechazada"}]
  /\ mano \in [pc : {"libre", "tomada", "cierra", "visto", "post", "rechazado", "vacia"},
               obs : {"nada", "ausente", "detenido", "corriendo"}]
  /\ baja \in [R -> [accion : {"parar", "borrar"},
                     etapa : {"no", "vuelo", "corre", "exito", "fallo"}]]
  /\ tarde \in [R -> BOOLEAN]

(* The resource in turn: the first one not known to be absent              *)
Pendientes == {r \in R : ~rec[r].ausente}
Objetivo == CHOOSE r \in Pendientes : TRUE
----------------------------------------------------------------------------
(* Fault: the cleanup does not wait for leases or for known tasks.         *)
EfectosQuietosSinEsperar == TRUE

(* Fault: the cleanup waits for the worker to settle what it left open.    *)
EfectosQuietosSinAbiertas ==
  turno.pc = "libre" /\ ~Abierta(obra) /\ \A r \in R : ~Abierta(op[r])

(* No lease runs, 30 seconds have gone by since each dispatch, and each    *)
(* creation whose UPID is known has ended.                                 *)
EfectosQuietos ==
  /\ turno.pc = "libre"
  /\ \A r \in R : Abierta(op[r]) => ~op[r].reciente /\ (op[r].upid => hilo[r] # "corre")

(* The other operations of the trial fail with the first run of cleanup.   *)
TomarLimpieza ==
  /\ mano.pc = "libre" /\ ensayo.limpieza \in {"pendiente", "en_curso"} /\ EfectosQuietos
  /\ obra' = [obra EXCEPT !.estado = IF Abierta(obra) THEN "fallida" ELSE @]
  /\ op' = [r \in R |-> [op[r] EXCEPT !.estado = IF Abierta(op[r]) THEN "fallida" ELSE @]]
  /\ ensayo' = [ensayo EXCEPT !.limpieza = "en_curso"]
  /\ mano' = [mano EXCEPT !.pc = "tomada"]
  /\ UNCHANGED <<varsCasa, fallo, rec, turno, ct, hilo, cierre, baja>>

Cerrar ==
  /\ mano.pc = "tomada" /\ ~cierre.cerrado
  /\ red' = red \cup {[que |-> "cierre", n |-> 0, gen |-> ensayo.gen]}
  /\ mano' = [mano EXCEPT !.pc = "cierra"]
  /\ UNCHANGED <<casa, proceso, disco, recibidas, varsEnsayo, cierre, baja>>

CierreConfirmado == casa.cerrado /\ casa.cierre = "cancelled"

AnotarCierre ==
  /\ mano.pc = "cierra" /\ CierreConfirmado
  /\ cierre' = [cierre EXCEPT !.cerrado = TRUE]
  /\ mano' = [mano EXCEPT !.pc = "tomada"]
  /\ UNCHANGED <<varsCasa, varsEnsayo, baja>>

PorRetirar == mano.pc = "tomada" /\ cierre.cerrado /\ Pendientes # {}

Liberado(r) == [rec EXCEPT ![r].ausente = TRUE, ![r].ledger = "liberado"]

SoltarSinIdentidad ==
  /\ PorRetirar /\ ~rec[Objetivo].identidad
  /\ rec' = Liberado(Objetivo) /\ mano' = SinMano
  /\ UNCHANGED <<varsCasa, ensayo, obra, fallo, op, turno, ct, hilo, cierre, baja>>

MirarCierre ==
  /\ PorRetirar /\ rec[Objetivo].identidad
  /\ \E v \in Vistas(Objetivo) : mano' = [pc |-> "visto", obs |-> v]
  /\ UNCHANGED <<varsCasa, varsEnsayo, cierre, baja>>

(* After the look, the tasks that create under this VMID are listed: none  *)
(* of those that reached Proxmox runs.                                     *)
SinCreacion(r) == hilo[r] # "corre"

SoltarAusente ==
  /\ mano.pc = "visto" /\ mano.obs = "ausente" /\ SinCreacion(Objetivo)
  /\ rec' = Liberado(Objetivo)
  /\ cierre' = [cierre EXCEPT !.tarea = "no"] /\ mano' = SinMano
  /\ UNCHANGED <<varsCasa, ensayo, obra, fallo, op, turno, ct, hilo, baja>>

SigueAhi == mano.pc = "visto" /\ mano.obs # "ausente"

TareaDeBaja == IF cierre.tarea = "suya" THEN baja[Objetivo].etapa ELSE "fallo"

BajaEspera ==
  /\ SigueAhi /\ cierre.tarea # "no" /\ TareaDeBaja = "corre"
  /\ mano' = SinMano
  /\ UNCHANGED <<varsCasa, varsEnsayo, cierre, baja>>

TareaOlvidada == [cierre EXCEPT !.tarea = "no"]

BajaHecha ==
  /\ SigueAhi /\ cierre.tarea # "no" /\ TareaDeBaja = "exito"
  /\ cierre' = TareaOlvidada /\ mano' = SinMano
  /\ UNCHANGED <<varsCasa, varsEnsayo, baja>>

(* Stop what runs, delete what does not.  While another task holds the     *)
(* lock of the container, the task of this request fails.                  *)
EnviarBaja ==
  /\ SigueAhi /\ cierre.tarea = "no"
  /\ LET r == Objetivo
     IN IF baja[r].etapa \in {"vuelo", "corre"} \/ hilo[r] = "corre"
        THEN mano' = [mano EXCEPT !.pc = "rechazado"] /\ UNCHANGED baja
        ELSE /\ mano' = [mano EXCEPT !.pc = "post"]
             /\ baja' = [baja EXCEPT ![r] =
                  [accion |-> IF mano.obs = "corriendo" THEN "parar" ELSE "borrar", etapa |-> "vuelo"]]
  /\ UNCHANGED <<varsCasa, varsEnsayo, cierre>>

TomarBaja ==
  /\ \/ /\ mano.pc = "post" /\ baja[Objetivo].etapa \in {"corre", "exito", "fallo"}
        /\ cierre' = [cierre EXCEPT !.tarea = "suya"]
     \/ mano.pc = "rechazado" /\ cierre' = [cierre EXCEPT !.tarea = "rechazada"]
  /\ mano' = SinMano
  /\ UNCHANGED <<varsCasa, varsEnsayo, baja>>

Vaciar ==
  /\ mano.pc = "tomada" /\ cierre.cerrado /\ Pendientes = {}
  /\ red' = red \cup {[que |-> "limpieza", n |-> 0, gen |-> ensayo.gen]}
  /\ mano' = [mano EXCEPT !.pc = "vacia"]
  /\ UNCHANGED <<casa, proceso, disco, recibidas, varsEnsayo, cierre, baja>>

(* The space is freed last, never while an artifact nobody recorded stays. *)
AnotarLimpieza ==
  /\ mano.pc = "vacia" /\ casa.limpieza = "succeeded"
  /\ disco.artefacto => ensayo.artefacto
  /\ ensayo' = [ensayo EXCEPT !.limpieza = "confirmada", !.espacio = FALSE]
  /\ mano' = SinMano
  /\ UNCHANGED <<varsCasa, obra, fallo, op, rec, turno, ct, hilo, cierre, baja>>

(* Any exception of a run that still owns the cleanup: a person retries.   *)
FallaLimpieza ==
  /\ mano.pc # "libre"
  /\ ensayo' = [ensayo EXCEPT !.limpieza = "fallida"] /\ mano' = SinMano
  /\ UNCHANGED <<varsCasa, obra, fallo, op, rec, turno, ct, hilo, cierre, baja>>

PerderLimpieza ==
  /\ mano.pc # "libre" /\ mano' = SinMano
  /\ UNCHANGED <<varsCasa, varsEnsayo, cierre, baja>>

ReintentarLimpieza ==
  /\ ensayo.limpieza = "fallida"
  /\ ensayo' = [ensayo EXCEPT !.limpieza = "pendiente"]
  /\ UNCHANGED <<varsCasa, obra, fallo, op, rec, turno, ct, hilo, cierre, mano, baja>>

Limpiar ==
  \/ Cerrar \/ AnotarCierre \/ SoltarSinIdentidad \/ MirarCierre \/ SoltarAusente \/ BajaEspera
  \/ BajaHecha \/ EnviarBaja \/ TomarBaja \/ Vaciar \/ AnotarLimpieza
----------------------------------------------------------------------------
(* Proxmox: requests that arrive, sooner or later, or are lost, tasks that *)
(* end, and guests that power off by themselves.                           *)
SubeCreacion(r) ==
  /\ hilo[r] = "vuelo"
  /\ hilo' = [hilo EXCEPT ![r] = "corre"] /\ ct' = [ct EXCEPT ![r] = "detenido"]
  /\ tarde' = [tarde EXCEPT ![r] = @ \/ ~(op[r].reciente \/ Abierta(op[r]))]
  /\ UNCHANGED baja

SubeBaja(r) ==
  /\ baja[r].etapa = "vuelo" /\ baja' = [baja EXCEPT ![r].etapa = "corre"]
  /\ UNCHANGED <<hilo, ct, tarde>>

SePierdePeticion(r) ==
  /\ \/ hilo[r] = "vuelo" /\ hilo' = [hilo EXCEPT ![r] = "perdido"] /\ UNCHANGED baja
     \/ baja[r].etapa = "vuelo" /\ baja' = [baja EXCEPT ![r].etapa = "no"] /\ UNCHANGED hilo
  /\ UNCHANGED <<ct, tarde>>

(* The cleanup has looked for r, did not see it, and lists the tasks next. *)
NoVisto(r) == mano.pc = "visto" /\ mano.obs = "ausente" /\ Objetivo = r

CreacionTermina(r, e) ==
  /\ hilo[r] = "corre"
  /\ hilo' = [hilo EXCEPT ![r] = e]
  /\ ct' = [ct EXCEPT ![r] = IF e = "exito" THEN "corriendo" ELSE "ausente"]
  /\ tarde' = [tarde EXCEPT ![r] = @ \/ (e = "exito" /\ NoVisto(r))]
  /\ UNCHANGED baja

BajaTermina(r, e) ==
  /\ baja[r].etapa = "corre"
  /\ e = "exito" => ct[r] = IF baja[r].accion = "parar" THEN "corriendo" ELSE "detenido"
  /\ baja' = [baja EXCEPT ![r].etapa = e]
  /\ ct' = [ct EXCEPT ![r] = IF e = "fallo" THEN @
                             ELSE IF baja[r].accion = "parar" THEN "detenido" ELSE "ausente"]
  /\ UNCHANGED <<hilo, tarde>>

SeApaga(r) ==
  /\ ct[r] = "corriendo" /\ ct' = [ct EXCEPT ![r] = "detenido"]
  /\ UNCHANGED <<hilo, baja, tarde>>

Proxmox ==
  /\ \E r \in R :
       \/ SubeCreacion(r) \/ SubeBaja(r) \/ SePierdePeticion(r) \/ SeApaga(r)
       \/ \E e \in {"exito", "fallo"} : CreacionTermina(r, e) \/ BajaTermina(r, e)
  /\ UNCHANGED <<varsCasa, ensayo, obra, fallo, op, rec, turno, cierre, mano>>

Limpieza == TomarLimpieza \/ Limpiar \/ FallaLimpieza \/ PerderLimpieza \/ ReintentarLimpieza

Portal == Decidir \/ Trabajador

Next ==
  \/ Portal /\ UNCHANGED <<cierre, mano, baja, tarde>>
  \/ PasoCasa /\ UNCHANGED <<varsEnsayo, cierre, mano, baja, tarde>>
  \/ Limpieza /\ UNCHANGED tarde
  \/ Proxmox

Spec == Init /\ [][Next]_vars
----------------------------------------------------------------------------
(* Capacity of a trial is freed only when its container is gone and no     *)
(* creation of it runs, is inside its 30 seconds or can still be sent,     *)
(* whatever the worker, its lost answers and the cleanup did in which      *)
(* order (ensayo_cleanup_service.procesar).  Two creations escape it, and  *)
(* `tarde' names them: one that reaches Proxmox after those 30 seconds and *)
(* after the cleanup gave its operation up, and one that ends between the  *)
(* look at the container and the list of tasks.                            *)
CapacidadEnsayo ==
  \A r \in R : rec[r].ledger \in {"no", "liberado"} /\ ~tarde[r] =>
    /\ ct[r] = "ausente" /\ hilo[r] # "corre"
    /\ hilo[r] = "vuelo" => ~op[r].reciente
    /\ ~Abierta(op[r]) /\ turno.de # r

(* Not so for those two: capacity can be free while the container is there *)
(* (ensayo_cleanup_service.procesar, which lists tasks to prevent it).     *)
LiberadoSinContenedor == \A r \in R : rec[r].ledger = "liberado" => ct[r] = "ausente"

(* The space of the builder is freed only when nothing of the trial builds *)
(* there, nothing of it can start later, and its workspace is gone         *)
(* (builder/executor.execute, builder_capacity_service.liberar).           *)
EspacioSinObra ==
  ensayo.estado # "no" /\ ~ensayo.espacio =>
    /\ casa.cerrado /\ ~disco.obra
    /\ \A n \in Obras : proceso[n] # "corre"
    /\ disco.artefacto => ensayo.artefacto

(* Once the cleanup has recorded that the builder is closed, and before it *)
(* touches any resource, nothing of the trial builds and nothing starts to *)
(* again: neither the job a worker had marked and sends later, nor a late  *)
(* request, nor a process between its two looks at the state               *)
(* (builder/executor.execute, ensayo_worker.procesar_una).                 *)
CierreDetieneTodo ==
  cierre.cerrado => casa.cerrado /\ \A n \in Obras : proceso[n] # "corre"

(* Each resource of a trial keeps the promise of RecursoReservado, up to a *)
(* creation the cleanup could not know of.  A request nobody waits for any *)
(* more counts as lost.                                                    *)
EnCamino(r) == hilo[r] = "corre" \/ (hilo[r] = "vuelo" /\ Abierta(op[r]))

Recurso(r) ==
  IF ct[r] # "ausente" THEN "existe"
  ELSE IF hilo[r] = "no" THEN "nunca"
  ELSE IF EnCamino(r) THEN "en_camino" ELSE "ya_no"

Promesa(r) == INSTANCE RecursoReservado WITH
                reserva <- IF rec[r].ledger \in {"no", "liberado"} THEN "libre" ELSE "retenida",
                recurso <- Recurso(r)

PromesaEnsayo ==
  /\ \A r \in R : Promesa(r)!Init
  /\ [][\A r \in R : ~tarde'[r] => Promesa(r)!Next \/ UNCHANGED Promesa(r)!vars]_vars
----------------------------------------------------------------------------
(* Fairness.  The lease of a worker ends, the 30 seconds of a dispatch go  *)
(* by, the cleanup is taken when it may and its run goes on or fails for a *)
(* cause, the builder serves or loses what it was asked, and Proxmox ends  *)
(* what it took: weak fairness.  Runs of the cleanup die any number of     *)
(* times, but not for ever.  No decision of a person is fair.              *)
Pedida(que) == \E p \in red \cup recibidas : p.que = que

Causa ==
  \/ mano.pc = "cierra" /\ ~CierreConfirmado /\ (~Parable \/ ~Pedida("cierre"))
  \/ mano.pc = "vacia" /\ casa.limpieza # "succeeded" /\ (~Parable \/ ~Pedida("limpieza"))
  \/ mano.pc = "vacia" /\ disco.artefacto /\ ~ensayo.artefacto
  \/ mano.pc = "visto" /\ mano.obs = "ausente" /\ ~SinCreacion(Objetivo)
  \/ SigueAhi /\ cierre.tarea # "no" /\ TareaDeBaja = "fallo"
  \/ mano.pc = "post" /\ baja[Objetivo].etapa = "no"

(* What a run that waits for a task does looks like its death.             *)
TareaLeida == SigueAhi /\ cierre.tarea # "no" /\ TareaDeBaja \in {"corre", "exito"}

Consumida == \E p \in red \cup recibidas :
  p.que \notin TiposObra /\ (Admitir(p) \/ Detener(p) \/ SePierde(p))

Justicia ==
  /\ WF_vars(PerderTurno /\ UNCHANGED <<cierre, mano, baja, tarde>>)
  /\ \A r \in R : WF_vars(PasanTreinta(r) /\ UNCHANGED <<cierre, mano, baja, tarde>>)
  /\ WF_vars(TomarLimpieza /\ UNCHANGED tarde)
  /\ WF_vars((Limpiar \/ (Causa /\ FallaLimpieza)) /\ UNCHANGED tarde)
  /\ WF_vars(Consumida /\ UNCHANGED <<varsEnsayo, cierre, mano, baja, tarde>>)
  /\ \A r \in R : WF_vars(Proxmox /\ (hilo'[r] # hilo[r] \/ baja'[r] # baja[r]))
  /\ <>[][PerderLimpieza => TareaLeida]_vars /\ SF_vars(BajaHecha /\ UNCHANGED tarde)

SpecJusta == Spec /\ Justicia

(* A trial that was closed is cleaned, or its cleanup is shown as failed   *)
(* to whoever can retry it; it never waits for ever for a lease, a task or *)
(* a lost request.                                                         *)
CierreTermina == ensayo.cancelada ~> ensayo.limpieza \in {"confirmada", "fallida"}
============================================================================
