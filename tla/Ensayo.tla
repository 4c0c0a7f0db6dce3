------------------------------- MODULE Ensayo -------------------------------
(***************************************************************************)
(* One trial of an artifact (ensayo_service, ensayo_worker): decisions of  *)
(* administrators, and a worker that asks the builder for jobs, creates    *)
(* the resources of the trial in Proxmox and prepares them, one operation  *)
(* at a time under a lease.                                                *)
(***************************************************************************)
EXTENDS Constructor

CONSTANT R  \* the resources of the trial

ASSUME RecursosAssumption == "obra" \notin R

VARIABLES
  ensayo,  \* the row of the trial
  obra,    \* its latest builder operation
  fallo,   \* the kind of the latest builder operation that failed
  op,      \* the latest operation of each resource
  rec,     \* the resources: identity, health, absence, capacity ledger
  turno,   \* the run of the worker that holds the lease of an operation
  ct,      \* the containers in Proxmox
  hilo     \* the creation of each: request and task

varsEnsayo == <<ensayo, obra, fallo, op, rec, turno, ct, hilo>>

TRANSICIONES ==
  [no |-> {},
   pendiente |-> {"resolviendo", "fallida", "incierta", "descartada", "vencida"},
   resolviendo |-> {"esperando_confirmacion", "fallida", "incierta", "descartada", "vencida"},
   esperando_confirmacion |-> {"construyendo", "fallida", "descartada", "vencida"},
   construyendo |-> {"ensayando", "fallida", "incierta", "descartada", "vencida"},
   ensayando |-> {"lista_para_comprobar", "fallida", "incierta", "descartada", "vencida"},
   lista_para_comprobar |-> {"comprobada", "fallida", "descartada", "vencida"},
   comprobada |-> {"descartada", "vencida"},
   incierta |-> {"resolviendo", "construyendo", "ensayando", "fallida", "descartada", "vencida"},
   fallida |-> {"pendiente", "resolviendo", "construyendo", "ensayando", "descartada", "vencida"},
   descartada |-> {}, vencida |-> {}]

Estados == DOMAIN TRANSICIONES

EstadosOp == {"no", "abierta", "incierta", "confirmada", "fallida"}

Abierta(o) == o.estado \in {"abierta", "incierta"}

Admite(e) == e \in TRANSICIONES[ensayo.estado]

Ensayos ==
  [estado : Estados, gen : Gens, plazo : {"sin", "corre", "pasado"}, cancelada : BOOLEAN,
   publicada : BOOLEAN, artefacto : BOOLEAN, espacio : BOOLEAN,
   limpieza : {"no_solicitada", "pendiente", "en_curso", "confirmada", "fallida"}]

OpsObra ==
  [tipo : TiposObra, n : 0..MaxObras, estado : EstadosOp, enviada : BOOLEAN, valida : BOOLEAN]

OpsRecurso ==
  [tipo : {"crear", "bootstrap"}, estado : EstadosOp, enviada : BOOLEAN, reciente : BOOLEAN,
   upid : BOOLEAN]

Recursos ==
  [identidad : BOOLEAN, listo : BOOLEAN, ausente : BOOLEAN,
   ledger : {"no", "reservado", "materializado", "liberado"}]

Turnos ==
  [pc : {"libre", "tomada", "marca", "envio", "respuesta", "visto", "post", "prepara"},
   de : R \cup {"obra"}, gen : Gens,
   obs : {"nada", "propia", "ausente", "not_found", "accepted", "running", "succeeded", "failed",
          "cancelled"}]

(* The part of TypeOK about decisions, worker and Proxmox                  *)
TypeOKEnsayo ==
  /\ ensayo \in Ensayos /\ obra \in OpsObra /\ fallo \in TiposObra \cup {"no"}
  /\ op \in [R -> OpsRecurso] /\ rec \in [R -> Recursos] /\ turno \in Turnos
  /\ ct \in [R -> {"ausente", "detenido", "corriendo"}]
  /\ hilo \in [R -> {"no", "vuelo", "corre", "exito", "fallo", "perdido"}]

NuevaObra(tipo, n, valida) ==
  [tipo |-> tipo, n |-> n, estado |-> "abierta", enviada |-> FALSE, valida |-> valida]

NuevaOp(tipo) ==
  [tipo |-> tipo, estado |-> "abierta", enviada |-> FALSE, reciente |-> FALSE, upid |-> FALSE]

SinTurno == [pc |-> "libre", de |-> "obra", gen |-> 0, obs |-> "nada"]

InitEnsayo ==
  /\ ensayo = [estado |-> "no", gen |-> 0, plazo |-> "sin", cancelada |-> FALSE,
               publicada |-> FALSE, artefacto |-> FALSE, espacio |-> FALSE,
               limpieza |-> "no_solicitada"]
  /\ obra = [NuevaObra("resolver", 0, FALSE) EXCEPT !.estado = "no"]
  /\ fallo = "no"
  /\ op = [r \in R |-> [NuevaOp("crear") EXCEPT !.estado = "no"]]
  /\ rec = [r \in R |-> [identidad |-> FALSE, listo |-> FALSE, ausente |-> FALSE, ledger |-> "no"]]
  /\ turno = SinTurno
  /\ ct = [r \in R |-> "ausente"] /\ hilo = [r \in R |-> "no"]
----------------------------------------------------------------------------
(* Decisions.  Space in the builder and capacity for the resources are     *)
(* retained with the first operation; what fits is not modelled.           *)
Iniciar(plazo) ==
  /\ ensayo.estado = "no"
  /\ ensayo' = [ensayo EXCEPT !.estado = "pendiente", !.gen = 1, !.plazo = plazo, !.espacio = TRUE]
  /\ obra' = NuevaObra("resolver", 1, FALSE)
  /\ rec' = [r \in R |-> [rec[r] EXCEPT !.ledger = "reservado"]]
  /\ UNCHANGED <<varsCasa, fallo, op, turno, ct, hilo>>

Vigente == ensayo.estado # "no" /\ ~ensayo.cancelada /\ ensayo.plazo # "pasado"

(* One open builder operation at most: a unique index.                     *)
Encolar(tipo, valida) ==
  /\ ~Abierta(obra) /\ obra.n < MaxObras
  /\ obra' = NuevaObra(tipo, obra.n + 1, valida)

ConfirmarEntradas ==
  /\ Vigente /\ ensayo.estado = "esperando_confirmacion"
  /\ ensayo' = [ensayo EXCEPT !.estado = "construyendo"]
  /\ Encolar("construir", FALSE)
  /\ UNCHANGED <<varsCasa, fallo, op, rec, turno, ct, hilo>>

Cerrado(e) ==
  [ensayo EXCEPT !.estado = e, !.cancelada = TRUE, !.gen = @ + 1, !.limpieza = "pendiente"]

Descartar ==
  /\ Vigente /\ Admite("descartada")
  /\ ensayo' = Cerrado("descartada")
  /\ UNCHANGED <<varsCasa, obra, fallo, op, rec, turno, ct, hilo>>

HayIncierta == obra.estado = "incierta" \/ \E r \in R : op[r].estado = "incierta"

Reanuda ==
  [resolver |-> "resolviendo", construir |-> "construyendo", distribuir |-> "construyendo"]

(* The latest operation that is uncertain or failed is taken up again: an  *)
(* uncertain one under a new generation, a failed one as a new operation.  *)
Reintentar ==
  /\ Vigente /\ ensayo.estado \in {"incierta", "fallida"} /\ ensayo.gen + 1 < MaxGen
  /\ \/ /\ HayIncierta
        /\ ensayo' = [ensayo EXCEPT !.gen = @ + 1] /\ UNCHANGED obra
     \/ /\ fallo # "no" /\ (HayIncierta => obra.estado = "fallida")
        /\ Admite(Reanuda[fallo]) \/ ensayo.estado = Reanuda[fallo]
        /\ ensayo' = [ensayo EXCEPT !.gen = @ + 1, !.estado = Reanuda[fallo]]
        /\ Encolar(fallo, FALSE)
  /\ UNCHANGED <<varsCasa, fallo, op, rec, turno, ct, hilo>>

Comprobar ==
  /\ Vigente /\ ensayo.estado = "lista_para_comprobar" /\ ensayo.artefacto
  /\ \A r \in R : rec[r].identidad
  /\ ensayo' = [ensayo EXCEPT !.estado = "comprobada"]
  /\ Encolar("distribuir", TRUE)
  /\ UNCHANGED <<varsCasa, fallo, op, rec, turno, ct, hilo>>

(* Publishing keeps the artifact and asks for the cleanup of the rest.     *)
Publicar ==
  /\ Vigente /\ ensayo.estado = "comprobada"
  /\ obra.valida /\ obra.estado = "confirmada"
  /\ ensayo' = [Cerrado("comprobada") EXCEPT !.publicada = TRUE]
  /\ UNCHANGED <<varsCasa, obra, fallo, op, rec, turno, ct, hilo>>

PasaPlazo ==
  /\ ensayo.plazo = "corre" /\ ~ensayo.cancelada
  /\ ensayo' = [ensayo EXCEPT !.plazo = "pasado"]
  /\ UNCHANGED <<varsCasa, obra, fallo, op, rec, turno, ct, hilo>>

Vencer ==
  /\ ensayo.plazo = "pasado" /\ ~ensayo.cancelada
  /\ ensayo' = Cerrado("vencida")
  /\ UNCHANGED <<varsCasa, obra, fallo, op, rec, turno, ct, hilo>>

Decidir ==
  \/ \E plazo \in {"sin", "corre"} : Iniciar(plazo)
  \/ ConfirmarEntradas \/ Descartar \/ Reintentar \/ Comprobar \/ Publicar \/ PasaPlazo \/ Vencer
----------------------------------------------------------------------------
(* The worker.  A run writes only while its lease, the generation it took  *)
(* and the trial stand.                                                    *)
Dueno == turno.pc # "libre" /\ ~ensayo.cancelada /\ turno.gen = ensayo.gen

DeObra == turno.de = "obra"

Tomar(x) == turno' = [pc |-> "tomada", de |-> x, gen |-> ensayo.gen, obs |-> "nada"]

Reclamar ==
  /\ turno.pc = "libre" /\ Vigente
  /\ \/ /\ Abierta(obra) /\ Tomar("obra")
        /\ obra' = [obra EXCEPT !.estado = "abierta"] /\ UNCHANGED op
     \/ \E r \in R : /\ Abierta(op[r]) /\ Tomar(r)
                     /\ op' = [op EXCEPT ![r].estado = "abierta"] /\ UNCHANGED obra
  /\ UNCHANGED <<varsCasa, ensayo, fallo, rec, ct, hilo>>

(* The state of a trial whose resolution starts or is looked at again      *)
Resolviendo ==
  IF obra.tipo = "resolver" /\ ensayo.estado \in {"pendiente", "incierta", "fallida"}
  THEN "resolviendo" ELSE ensayo.estado

(* A job is marked as sent before it is, and sent once.  Between the mark  *)
(* and the sending nothing is looked at: the trial may be closed.  A run   *)
(* that loses its lease there dies, or its request is already on its way.  *)
MarcarObra ==
  /\ turno.pc = "tomada" /\ DeObra /\ Dueno /\ ~obra.enviada
  /\ obra' = [obra EXCEPT !.enviada = TRUE]
  /\ ensayo' = [ensayo EXCEPT !.estado = Resolviendo]
  /\ turno' = [turno EXCEPT !.pc = "marca"]
  /\ UNCHANGED <<varsCasa, fallo, op, rec, ct, hilo>>

EnviarObra ==
  /\ turno.pc = "marca" /\ DeObra
  /\ red' = red \cup {[que |-> obra.tipo, n |-> obra.n, gen |-> turno.gen]}
  /\ turno' = [turno EXCEPT !.pc = "envio"]
  /\ UNCHANGED <<casa, proceso, disco, recibidas, ensayo, obra, fallo, op, rec, ct, hilo>>

PreguntarObra ==
  /\ turno.pc = "tomada" /\ DeObra /\ Dueno /\ obra.enviada
  /\ ensayo' = [ensayo EXCEPT !.estado = Resolviendo]
  /\ LET e == casa.trabajo[obra.n].estado
     IN turno' = [turno EXCEPT !.pc = "respuesta", !.obs = IF e = "no" THEN "not_found" ELSE e]
  /\ UNCHANGED <<varsCasa, obra, fallo, op, rec, ct, hilo>>

ObraSigue ==
  /\ DeObra /\ Dueno
  /\ \/ turno.pc = "envio" /\ casa.trabajo[obra.n].estado # "no"
     \/ turno.pc = "respuesta" /\ turno.obs \in {"accepted", "running"}
  /\ turno' = SinTurno
  /\ UNCHANGED <<varsCasa, ensayo, obra, fallo, op, rec, ct, hilo>>

Dudoso ==
  IF ensayo.estado \in {"resolviendo", "construyendo", "ensayando"} THEN "incierta" ELSE ensayo.estado

ObraDesconocida ==
  /\ DeObra /\ Dueno /\ turno.pc = "respuesta" /\ turno.obs = "not_found"
  /\ obra' = [obra EXCEPT !.estado = "incierta"]
  /\ ensayo' = [ensayo EXCEPT !.estado = Dudoso]
  /\ turno' = SinTurno
  /\ UNCHANGED <<varsCasa, fallo, op, rec, ct, hilo>>

ObraFallida ==
  /\ DeObra /\ Dueno /\ turno.pc = "respuesta" /\ turno.obs \in {"failed", "cancelled"}
  /\ Admite("fallida")
  /\ obra' = [obra EXCEPT !.estado = "fallida"] /\ fallo' = obra.tipo
  /\ ensayo' = [ensayo EXCEPT !.estado = "fallida"]
  /\ turno' = SinTurno
  /\ UNCHANGED <<varsCasa, op, rec, ct, hilo>>

Resuelto ==
  /\ obra.tipo = "resolver" /\ Admite("esperando_confirmacion")
  /\ IF ensayo.plazo = "sin"
     THEN /\ obra.n < MaxObras /\ obra' = NuevaObra("construir", obra.n + 1, FALSE)
          /\ ensayo' = [ensayo EXCEPT !.estado = "construyendo"]
     ELSE /\ obra' = [obra EXCEPT !.estado = "confirmada"]
          /\ ensayo' = [ensayo EXCEPT !.estado = "esperando_confirmacion"]
  /\ UNCHANGED <<op, rec>>

Construido ==
  /\ obra.tipo = "construir" /\ obra.n < MaxObras
  /\ obra' = NuevaObra("distribuir", obra.n + 1, FALSE)
  /\ ensayo' = [ensayo EXCEPT !.artefacto = TRUE]
  /\ UNCHANGED <<op, rec>>

(* The identities of all the resources are claimed with the operations     *)
(* that create them, one open operation for each at most.                  *)
Distribuido ==
  /\ obra.tipo = "distribuir"
  /\ obra' = [obra EXCEPT !.estado = "confirmada"]
  /\ IF obra.valida THEN UNCHANGED <<ensayo, op, rec>>
     ELSE /\ \A r \in R : ~Abierta(op[r])
          /\ ensayo' = [ensayo EXCEPT !.estado =
                          IF @ \in {"incierta", "construyendo"} THEN "ensayando" ELSE @]
          /\ rec' = [r \in R |-> [rec[r] EXCEPT !.identidad = TRUE]]
          /\ op' = [r \in R |-> NuevaOp("crear")]

ObraLograda ==
  /\ DeObra /\ Dueno /\ turno.pc = "respuesta" /\ turno.obs = "succeeded"
  /\ Resuelto \/ Construido \/ Distribuido
  /\ turno' = SinTurno
  /\ UNCHANGED <<varsCasa, fallo, ct, hilo>>
----------------------------------------------------------------------------
Creando(r) == turno.de = r /\ op[r].tipo = "crear"

(* What an observation can tell: while a creation runs, its container may  *)
(* not be seen yet.                                                        *)
Vistas(r) == {ct[r]} \cup (IF hilo[r] = "corre" THEN {"ausente"} ELSE {})

Mirar(r) ==
  /\ Creando(r) /\ turno.pc = "tomada"
  /\ \E v \in Vistas(r) :
       turno' = [turno EXCEPT !.pc = "visto", !.obs = IF v = "ausente" THEN v ELSE "propia"]
  /\ UNCHANGED <<varsCasa, ensayo, obra, fallo, op, rec, ct, hilo>>

TareaVista(r) == hilo[r] \in {"corre", "exito", "fallo"}

(* A creation that was sent is looked for among the tasks of its VMID, and *)
(* read until it ends; while it does not, the run lets the lease go.       *)
CrearEspera(r) ==
  /\ Creando(r) /\ turno.pc = "visto" /\ Dueno /\ op[r].enviada
  /\ turno.obs = "propia" => hilo[r] \notin {"exito", "fallo"}
  /\ turno.obs = "ausente" /\ op[r].upid => hilo[r] # "fallo"
  /\ op' = [op EXCEPT ![r].upid = @ \/ TareaVista(r)]
  /\ turno' = SinTurno
  /\ UNCHANGED <<varsCasa, ensayo, obra, fallo, rec, ct, hilo>>

CrearHecho(r) ==
  /\ Creando(r) /\ turno.pc = "visto" /\ Dueno /\ turno.obs = "propia"
  /\ op[r].enviada => hilo[r] = "exito"
  /\ op' = [op EXCEPT ![r] = NuevaOp("bootstrap")]
  /\ rec' = [rec EXCEPT ![r].ledger = "materializado"]
  /\ turno' = SinTurno
  /\ UNCHANGED <<varsCasa, ensayo, obra, fallo, ct, hilo>>

(* Fault: a creation that cannot be seen is sent again.                    *)
DespachablesSinMarca(r) == ~op[r].upid

Despachables(r) == ~op[r].enviada

Marcada(r) == [op EXCEPT ![r].enviada = TRUE, ![r].reciente = TRUE]

(* The mark and its time are saved before the creation is sent.            *)
Despachar(r) ==
  /\ Creando(r) /\ turno.pc = "visto" /\ Dueno /\ turno.obs = "ausente" /\ Despachables(r)
  /\ op' = Marcada(r)
  /\ turno' = [turno EXCEPT !.pc = "marca"]
  /\ UNCHANGED <<varsCasa, ensayo, obra, fallo, rec, ct, hilo>>

EnviarCreacion(r) ==
  /\ turno.de = r /\ turno.pc = "marca"
  /\ hilo' = [hilo EXCEPT ![r] = "vuelo"]
  /\ turno' = [turno EXCEPT !.pc = "post"]
  /\ UNCHANGED <<varsCasa, ensayo, obra, fallo, op, rec, ct>>

TomarUpid(r) ==
  /\ Creando(r) /\ turno.pc = "post" /\ Dueno /\ TareaVista(r)
  /\ op' = [op EXCEPT ![r].upid = TRUE]
  /\ turno' = SinTurno
  /\ UNCHANGED <<varsCasa, ensayo, obra, fallo, rec, ct, hilo>>

MarcarBootstrap(r) ==
  /\ turno.de = r /\ op[r].tipo = "bootstrap" /\ turno.pc = "tomada" /\ Dueno
  /\ op' = Marcada(r)
  /\ turno' = [turno EXCEPT !.pc = "prepara"]
  /\ UNCHANGED <<varsCasa, ensayo, obra, fallo, rec, ct, hilo>>

(* The guest runner prepares a running container; when the last one is     *)
(* ready the trial is.                                                     *)
Preparado(r) ==
  /\ turno.de = r /\ op[r].tipo = "bootstrap" /\ turno.pc = "prepara" /\ Dueno
  /\ ct[r] = "corriendo"
  /\ rec' = [rec EXCEPT ![r].listo = TRUE]
  /\ op' = [op EXCEPT ![r].estado = "confirmada"]
  /\ LET e == IF ensayo.estado = "incierta" THEN "ensayando" ELSE ensayo.estado
         todos == \A s \in R : rec'[s].listo
     IN /\ todos => "lista_para_comprobar" \in TRANSICIONES[e]
        /\ ensayo' = [ensayo EXCEPT !.estado = IF todos THEN "lista_para_comprobar" ELSE e]
  /\ turno' = SinTurno
  /\ UNCHANGED <<varsCasa, obra, fallo, ct, hilo>>

(* Any exception of a run that still owns its operation                    *)
FallaTurno ==
  /\ Dueno
  /\ IF DeObra THEN obra' = [obra EXCEPT !.estado = "incierta"] /\ UNCHANGED op
     ELSE op' = [op EXCEPT ![turno.de].estado = "incierta"] /\ UNCHANGED obra
  /\ ensayo' = [ensayo EXCEPT !.estado = Dudoso]
  /\ turno' = SinTurno
  /\ UNCHANGED <<varsCasa, fallo, rec, ct, hilo>>

(* The worker dies, or finds its lease gone and its writes refused.        *)
PerderTurno ==
  /\ turno.pc # "libre" /\ turno' = SinTurno
  /\ UNCHANGED <<varsCasa, ensayo, obra, fallo, op, rec, ct, hilo>>

(* The 30 seconds after a dispatch go by.  Those of jobs are left out:     *)
(* nothing but the start of the cleanup waits for them.                    *)
PasanTreinta(r) ==
  /\ op[r].reciente /\ op' = [op EXCEPT ![r].reciente = FALSE]
  /\ UNCHANGED <<varsCasa, ensayo, obra, fallo, rec, turno, ct, hilo>>

Avanzar ==
  \/ MarcarObra \/ EnviarObra \/ PreguntarObra \/ ObraSigue \/ ObraDesconocida \/ ObraFallida
  \/ ObraLograda
  \/ \E r \in R : \/ Mirar(r) \/ CrearEspera(r) \/ CrearHecho(r) \/ Despachar(r)
                   \/ EnviarCreacion(r) \/ TomarUpid(r) \/ MarcarBootstrap(r) \/ Preparado(r)

Trabajador ==
  Reclamar \/ Avanzar \/ FallaTurno \/ PerderTurno \/ \E r \in R : PasanTreinta(r)
============================================================================
