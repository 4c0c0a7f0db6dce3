--------------------------- MODULE EnvioConLease ---------------------------
(***************************************************************************)
(* The lease protocol of the durable executor and the dispatch it guards.  *)
(*                                                                         *)
(* A row of operaciones_infraestructura is claimed by one procesar_una run *)
(* at a time (reclamar, a fenced lease that a heartbeat extends), and the  *)
(* claimant asks Proxmox for an effect from a thread that nobody can stop: *)
(* the wait for it ends after WRITE_TIMEOUT, the thread does not.  A       *)
(* successor that finds the mark `dispatch_started' without a UPID must    *)
(* never send again; it looks for the task, and once the deadline of the   *)
(* row has passed it may close the order from what it observes.            *)
(*                                                                         *)
(* Time is one integer clock shared by the workers (clock.now() and        *)
(* time.monotonic()).  A claimant is named by its process; the uuid4 that  *)
(* procesar_una draws for every claim is the pair of that name and `gen'.  *)
(***************************************************************************)
EXTENDS Integers

CONSTANTS
  Acciones,      \* accion_externa of the dispatches the orders may ask for
  Ajenas,        \* types of the tasks others start meanwhile on the container
  Ops,           \* rows of operaciones_infraestructura
  Trabajadores,  \* concurrent runs of procesar_una
  Nadie,         \* lease_owner IS NULL
  Lease,         \* lease_seconds of reclamar and heartbeat
  Espera,        \* WRITE_TIMEOUT: how long the claimant waits for the thread
  Transporte,    \* timeout of one HTTP request to Proxmox
  Presupuesto,   \* deadline_at - dispatch_started_at
  Retrasos,      \* delays ceder puts in next_poll_at
  MaxEnvios,     \* bound: dispatches of one order
  MaxReclamos,   \* bound: claims of one row
  Horizonte      \* bound: the clock stops here

(* The actions of TASK_TYPES, each one task type of Proxmox, in the order  *)
(* in which one order may ask for them: a start out of coverage is stopped *)
(* and a deletion stops what runs; no order asks twice for an action.      *)
Arranques == {"crear", "iniciar", "reiniciar"}
TIPOS == Arranques \cup {"detener", "eliminar"}
Turno(a) == IF a \in Arranques THEN 1 ELSE IF a = "detener" THEN 2 ELSE IF a = "eliminar" THEN 3 ELSE 0

ASSUME NadieAssumption == Nadie \notin Trabajadores \cup Ops
ASSUME AccionesAssumption == Acciones \subseteq TIPOS
(* External: what recuperar_upid rests on and cannot see.  While an order  *)
(* is open nobody outside the portal asks its container for the same       *)
(* action: such a task has the type, container and time of the order's.    *)
ASSUME AjenasAssumption == Acciones \cap Ajenas = {}
ASSUME PlazosAssumption ==
  /\ Lease \in Nat /\ Espera \in Nat /\ Transporte \in Nat /\ Presupuesto \in Nat
  /\ Retrasos \subseteq Nat
  /\ 0 < Transporte
  /\ Lease + Transporte <= Presupuesto
ASSUME CotasAssumption == MaxEnvios \in Nat \ {0} /\ MaxReclamos \in Nat /\ Horizonte \in Nat

VARIABLES
  reloj,     \* clock.now()
  fila,      \* estado, fase, deadline_at and dispatch count of a row
  marca,     \* accion_externa, int(dispatch_started_at) and upid of a row
  arriendo,  \* lease_owner, lease_generation, lease_until, next_poll_at
  trab,      \* what a run of procesar_una holds in memory
  hilo,      \* the thread of each dispatch (infraestructura_io._executor)
  tarea,     \* the Proxmox task each dispatch started ...
  registro   \* ... and what the node's history says of it: type, starttime

vars == <<reloj, fila, marca, arriendo, trab, hilo, tarea, registro>>

Envios == 1..MaxEnvios

(* A UPID by its dispatch: 0 is none, DeOtro a task no dispatch started.   *)
DeOtro == MaxEnvios + 1

ABIERTOS == {"pendiente", "en_curso", "incierta"}
Cierres == {"confirmada", "fallida"}
(* Fault: the mark of an earlier claimant is dispatched again.             *)
DespachablesConMarca == {"lista", "otra", "dispatch_started"}

(* "otra" stands for detencion_necesaria and eliminacion_necesaria.        *)
Despachables == {"lista", "otra"}
Libre == [pc |-> "libre", op |-> Nadie, gen |-> 0, envio |-> 0, vence |-> 0]

Filas == [estado : ABIERTOS \cup Cierres,
          fase : {"preparacion", "dispatch_started", "tarea", "cancelada"} \cup Despachables,
          envio : 0..MaxEnvios, plazo : Nat]
Marcas == [accion : TIPOS \cup {"ninguna"}, desde : Nat, upid : 0..DeOtro]
Arriendos == [dueno : Trabajadores \cup {Nadie}, gen : Nat, hasta : Nat, poll : Nat]
Tomas == [pc : {"libre", "activa", "espera", "sin_tarea"}, op : Ops \cup {Nadie},
          gen : Nat, envio : 0..MaxEnvios, vence : Nat]
Hilos == [etapa : {"ninguno", "cola", "verifica", "post", "hecho", "muerto"},
          limite : Nat, fin : Nat]
Registros == [tipo : TIPOS \cup {"ninguna"}, inicio : Nat]

TypeOK ==
  /\ reloj \in Nat
  /\ fila \in [Ops -> Filas]
  /\ marca \in [Ops -> Marcas]
  /\ arriendo \in [Ops -> Arriendos]
  /\ trab \in [Trabajadores -> Tomas]
  /\ hilo \in [Ops -> [Envios -> Hilos]]
  /\ tarea \in [Ops -> [Envios -> {"no", "corre", "fin"}]]
  /\ registro \in [Ops -> [Envios -> Registros]]

(* The clock starts at 1: what earlier orders left in the history is of 0. *)
Init ==
  /\ reloj = 1
  /\ fila = [o \in Ops |-> [estado |-> "pendiente", fase |-> "preparacion",
                            envio |-> 0, plazo |-> 0]]
  /\ marca = [o \in Ops |-> [accion |-> "ninguna", desde |-> 0, upid |-> 0]]
  /\ arriendo = [o \in Ops |-> [dueno |-> Nadie, gen |-> 0, hasta |-> 0, poll |-> 0]]
  /\ trab = [w \in Trabajadores |-> Libre]
  /\ hilo = [o \in Ops |-> [n \in Envios |->
              [etapa |-> "ninguno", limite |-> 0, fin |-> 0]]]
  /\ tarea = [o \in Ops |-> [n \in Envios |-> "no"]]
  /\ registro = [o \in Ops |-> [n \in Envios |-> [tipo |-> "ninguna", inicio |-> 0]]]

----------------------------------------------------------------------------
Abierta(o) == fila[o].estado \in ABIERTOS

(* The WHERE of every write: rowcount 1 exactly when this holds.           *)
CondicionLease(w, o) ==
  /\ arriendo[o].dueno = w
  /\ arriendo[o].gen = trab[w].gen
  /\ arriendo[o].hasta > reloj
  /\ Abierta(o)

(* A worker at `pc' that runs for o and still holds its lease.             *)
Vigente(w, o, pc) == trab[w].pc = pc /\ trab[w].op = o /\ CondicionLease(w, o)

(* Can the thread of dispatch n still reach Proxmox?                       *)
PuedeEfecto(o, n) ==
  \/ hilo[o][n].etapa = "post"
  \/ hilo[o][n].etapa \in {"cola", "verifica"} /\ reloj < hilo[o][n].limite

Soltar(w) == trab' = [trab EXCEPT ![w] = Libre]

EstadoCedido(incierta) == IF incierta THEN "incierta" ELSE "en_curso"

(* operacion_service.ceder: the lease is cleared, the row stays open.      *)
Ceder(o, incierta) ==
  /\ fila' = [fila EXCEPT ![o].estado = EstadoCedido(incierta)]
  /\ \E r \in Retrasos :
       arriendo' = [arriendo EXCEPT ![o].dueno = Nadie, ![o].hasta = 0, ![o].poll = reloj + r]

(* operacion_service.terminar; the phase of a closed row is not read again. *)
Terminar(o, final) ==
  /\ fila' = [fila EXCEPT ![o].estado = final]
  /\ arriendo' = [arriendo EXCEPT ![o].dueno = Nadie, ![o].hasta = 0]

(* Fault: the deadline counts the wait for the thread, not its request.    *)
PlazoDeEspera == reloj + Espera

PlazoNuevo == reloj + Presupuesto

(* Fault: a successor closes the order as soon as it sees the wanted state. *)
SinEsperarPlazo(o) == TRUE

PlazoVencido(o) == reloj >= fila[o].plazo

(* get_node_tasks of the container: what the order's own dispatches began, *)
(* and X of what others did: any action before the order, and a task of    *)
(* another type since its mark.                                            *)
Propias(o) ==
  {[tipo |-> registro[o][n].tipo, inicio |-> registro[o][n].inicio, de |-> n] :
     n \in {m \in Envios : tarea[o][m] # "no"}}

Otras ==
  [tipo : Acciones \cup Ajenas, inicio : {0}, de : {DeOtro}]
    \cup [tipo : Ajenas, inicio : {reloj}, de : {DeOtro}]

(* Fault: the filter asks for the time only.                               *)
CandidatasSinTipo(o, X) == {t \in Propias(o) \cup X : t.inicio >= marca[o].desde}

(* The filter of recuperar_upid: the type asked for, begun since the mark. *)
Candidatas(o, X) ==
  {t \in Propias(o) \cup X : t.tipo = marca[o].accion /\ t.inicio >= marca[o].desde}

(* get_task_status of the recorded UPID may answer e.                      *)
EstadoDeUpid(o, e) == marca[o].upid \in Envios => tarea[o][marca[o].upid] = e

----------------------------------------------------------------------------
(* Time passes; a request on the wire ends within its transport timeout.   *)
Avanza ==
  /\ reloj < Horizonte
  /\ \A o \in Ops, n \in Envios : hilo[o][n].etapa = "post" => reloj < hilo[o][n].fin
  /\ reloj' = reloj + 1
  /\ UNCHANGED <<fila, marca, arriendo, trab, hilo, tarea, registro>>

(* reclamar: due, open, and free or expired.  The ORDER BY picks one row,  *)
(* SKIP LOCKED may hide any of them: whichever is claimable can be chosen. *)
Reclamar(w, o) ==
  /\ trab[w].pc = "libre"
  /\ Abierta(o)
  /\ arriendo[o].poll <= reloj
  /\ arriendo[o].dueno = Nadie \/ arriendo[o].hasta <= reloj
  /\ arriendo[o].gen < MaxReclamos
  /\ arriendo' = [arriendo EXCEPT ![o].dueno = w, ![o].hasta = reloj + Lease, ![o].gen = @ + 1]
  /\ fila' = [fila EXCEPT ![o].estado = "en_curso"]
  /\ trab' = [trab EXCEPT ![w] = [pc |-> "activa", op |-> o, gen |-> arriendo[o].gen + 1,
                                  envio |-> 0, vence |-> 0]]
  /\ UNCHANGED <<reloj, marca, hilo, tarea, registro>>

(* The heartbeat task of the claimant; it stops when the CAS fails.        *)
Latir(w, o) ==
  /\ trab[w].op = o
  /\ CondicionLease(w, o)
  /\ arriendo' = [arriendo EXCEPT ![o].hasta = reloj + Lease]
  /\ UNCHANGED <<reloj, fila, marca, trab, hilo, tarea, registro>>

(* Any _locked or _cas that finds the lease gone: LeasePerdido, return.    *)
(* (A wait is left here at any time and its thread goes on: more than the  *)
(* code does, where the wait first ends and cancels a thread not begun.)   *)
LeasePerdido(w, o) ==
  /\ trab[w].pc # "libre" /\ trab[w].op = o
  /\ ~CondicionLease(w, o)
  /\ Soltar(w)
  /\ UNCHANGED <<reloj, fila, marca, arriendo, hilo, tarea, registro>>

(* _prepare ends: identity claimed, the order may be dispatched.           *)
Preparar(w, o) ==
  /\ Vigente(w, o, "activa")
  /\ fila[o].fase = "preparacion"
  /\ fila' = [fila EXCEPT ![o].fase = "lista"]
  /\ UNCHANGED <<reloj, marca, arriendo, trab, hilo, tarea, registro>>

(* _dispatch up to the commit of the mark; the thread is submitted after.  *)
Despachar(w, o) ==
  LET n == fila[o].envio + 1 IN
  /\ Vigente(w, o, "activa")
  /\ fila[o].fase \in Despachables
  /\ n \in Envios
  /\ \E a \in Acciones :
       /\ Turno(marca[o].accion) < Turno(a)
       /\ marca' = [marca EXCEPT ![o] = [accion |-> a, desde |-> reloj, upid |-> 0]]
       /\ registro' = [registro EXCEPT ![o][n].tipo = a]
  /\ fila' = [fila EXCEPT ![o].fase = "dispatch_started", ![o].envio = n,
                          ![o].plazo = PlazoNuevo]
  /\ hilo' = [hilo EXCEPT ![o][n] = [etapa |-> "cola", limite |-> arriendo[o].hasta, fin |-> 0]]
  /\ trab' = [trab EXCEPT ![w].pc = "espera", ![w].envio = n, ![w].vence = reloj + Espera]
  /\ UNCHANGED <<reloj, arriendo, tarea>>

(* send: deadline check, ownership check, deadline check, POST.            *)
HiloEmpieza(o, n) ==
  /\ hilo[o][n].etapa = "cola"
  /\ hilo' = [hilo EXCEPT ![o][n].etapa = IF reloj < hilo[o][n].limite THEN "verifica" ELSE "muerto"]
  /\ UNCHANGED <<reloj, fila, marca, arriendo, trab, tarea, registro>>

HiloEnvia(o, n) ==
  /\ hilo[o][n].etapa = "verifica"
  /\ reloj < hilo[o][n].limite
  /\ hilo' = [hilo EXCEPT ![o][n].etapa = "post", ![o][n].fin = reloj + Transporte]
  /\ UNCHANGED <<reloj, fila, marca, arriendo, trab, tarea, registro>>

(* Ownership not verified, deadline passed, or the request failed.         *)
HiloMuere(o, n) ==
  /\ hilo[o][n].etapa \in {"verifica", "post"}
  /\ hilo' = [hilo EXCEPT ![o][n].etapa = "muerto"]
  /\ UNCHANGED <<reloj, fila, marca, arriendo, trab, tarea, registro>>

(* Proxmox accepts the request: a task starts, whoever still waits for it. *)
HiloLlega(o, n) ==
  /\ hilo[o][n].etapa = "post"
  /\ hilo' = [hilo EXCEPT ![o][n].etapa = "hecho"]
  /\ tarea' = [tarea EXCEPT ![o][n] = "corre"]
  /\ registro' = [registro EXCEPT ![o][n].inicio = reloj]
  /\ UNCHANGED <<reloj, fila, marca, arriendo, trab>>

TareaTermina(o, n) ==
  /\ tarea[o][n] = "corre"
  /\ tarea' = [tarea EXCEPT ![o][n] = "fin"]
  /\ UNCHANGED <<reloj, fila, marca, arriendo, trab, hilo, registro>>

(* The UPID came back in time and is recorded under the lease.             *)
RecibirUpid(w, o) ==
  /\ Vigente(w, o, "espera")
  /\ trab[w].envio \in Envios
  /\ hilo[o][trab[w].envio].etapa = "hecho"
  /\ fila' = [fila EXCEPT ![o].fase = "tarea"]
  /\ marca' = [marca EXCEPT ![o].upid = trab[w].envio]
  /\ trab' = [trab EXCEPT ![w].pc = "activa"]
  /\ UNCHANGED <<reloj, arriendo, hilo, tarea, registro>>

(* wait_for ends without a usable answer: InfraNoVerificable, _defer as    *)
(* uncertain.  A thread that had not begun is cancelled, one that began    *)
(* goes on.                                                                *)
EsperaVencida(w, o) ==
  /\ Vigente(w, o, "espera")
  /\ trab[w].envio \in Envios
  /\ LET n == trab[w].envio IN
       /\ reloj >= trab[w].vence \/ hilo[o][n].etapa \in {"hecho", "muerto"}
       /\ hilo' = [hilo EXCEPT ![o][n].etapa = IF @ = "cola" THEN "muerto" ELSE @]
  /\ Ceder(o, TRUE)
  /\ Soltar(w)
  /\ UNCHANGED <<reloj, marca, tarea, registro>>

(* A successor finds the mark without a UPID: recuperar_upid takes the one *)
(* task of the history that passes its filter ...                          *)
RecuperarUpid(w, o) ==
  /\ Vigente(w, o, "activa")
  /\ fila[o].fase = "dispatch_started"
  /\ fila' = [fila EXCEPT ![o].fase = "tarea"]
  /\ \E X \in SUBSET Otras : \E t \in Candidatas(o, X) :
       /\ Candidatas(o, X) = {t}
       /\ marca' = [marca EXCEPT ![o].upid = t.de]
  /\ UNCHANGED <<reloj, arriendo, trab, hilo, tarea, registro>>

(* ... or records none: none or more than one passes, or the container is  *)
(* not seen as the order's own.  That proves nothing yet ...               *)
SinTarea(w, o) ==
  /\ Vigente(w, o, "activa")
  /\ fila[o].fase = "dispatch_started"
  /\ trab' = [trab EXCEPT ![w].pc = "sin_tarea"]
  /\ UNCHANGED <<reloj, fila, marca, arriendo, hilo, tarea, registro>>

(* ... unless the deadline of the row has passed and the resource is       *)
(* observed in the state the order wanted (detener and pausar).            *)
ConfirmarPorObservacion(w, o) ==
  /\ Vigente(w, o, "sin_tarea")
  /\ marca[o].accion = "detener"
  /\ PlazoVencido(o)
  /\ Terminar(o, "confirmada")
  /\ Soltar(w)
  /\ UNCHANGED <<reloj, marca, hilo, tarea, registro>>

(* Otherwise the order stays open and uncertain.                           *)
DispatchNoConfirmado(w, o) ==
  /\ Vigente(w, o, "sin_tarea")
  /\ Ceder(o, TRUE)
  /\ Soltar(w)
  /\ UNCHANGED <<reloj, marca, hilo, tarea, registro>>

(* get_task_status of a recorded UPID: still running, wait for it ...      *)
TareaSigue(w, o) ==
  /\ Vigente(w, o, "activa")
  /\ fila[o].fase = "tarea"
  /\ EstadoDeUpid(o, "corre")
  /\ Ceder(o, PlazoVencido(o))
  /\ Soltar(w)
  /\ UNCHANGED <<reloj, marca, hilo, tarea, registro>>

(* ... or ended, and the order needs one more effect ...                   *)
OtroEfecto(w, o) ==
  /\ Vigente(w, o, "activa")
  /\ fila[o].fase = "tarea"
  /\ EstadoDeUpid(o, "fin")
  /\ fila' = [fila EXCEPT ![o].fase = "otra"]
  /\ UNCHANGED <<reloj, marca, arriendo, trab, hilo, tarea, registro>>

(* ... or is done, well or badly.                                          *)
CerrarConTarea(w, o) ==
  /\ Vigente(w, o, "activa")
  /\ fila[o].fase = "tarea"
  /\ EstadoDeUpid(o, "fin")
  /\ \E final \in Cierres : Terminar(o, final)
  /\ Soltar(w)
  /\ UNCHANGED <<reloj, marca, hilo, tarea, registro>>

(* Already in the wanted state, or refused before sending anything.        *)
CerrarSinEnvio(w, o) ==
  /\ Vigente(w, o, "activa")
  /\ fila[o].fase \in Despachables \cup {"preparacion"}
  /\ \E final \in Cierres :
       /\ fila[o].fase = "preparacion" => final = "fallida"
       /\ Terminar(o, final)
  /\ Soltar(w)
  /\ UNCHANGED <<reloj, marca, hilo, tarea, registro>>

(* InfraNoVerificable or an unexpected exception anywhere but in a wait;   *)
(* only a pool that is not ready yet gives the row back as certain.        *)
FalloDeLectura(w, o) ==
  /\ Vigente(w, o, "activa")
  /\ \E incierta \in BOOLEAN :
       /\ incierta \/ fila[o].fase = "preparacion"
       /\ Ceder(o, incierta)
  /\ Soltar(w)
  /\ UNCHANGED <<reloj, marca, hilo, tarea, registro>>

(* CancelledError or the death of the process: the lease stays until it    *)
(* expires; a thread that has not sent may die with its process or not.    *)
Caida(w) ==
  /\ trab[w].pc # "libre"
  /\ Soltar(w)
  /\ \/ UNCHANGED hilo
     \/ \E o \in Ops, n \in Envios :
          /\ trab[w] = [trab[w] EXCEPT !.pc = "espera", !.op = o, !.envio = n]
          /\ hilo[o][n].etapa \in {"cola", "verifica"}
          /\ hilo' = [hilo EXCEPT ![o][n].etapa = "muerto"]
  /\ UNCHANGED <<reloj, fila, marca, arriendo, tarea, registro>>

(* An administrator cancels before dispatch: no lease is asked for, the    *)
(* generation moves so that the claimant's next write fails.               *)
Cancelar(o) ==
  /\ fila[o].estado \in {"pendiente", "en_curso"}
  /\ fila[o].fase = "preparacion"
  /\ fila' = [fila EXCEPT ![o].estado = "fallida", ![o].fase = "cancelada"]
  /\ arriendo' = [arriendo EXCEPT ![o].dueno = Nadie, ![o].hasta = 0, ![o].gen = @ + 1]
  /\ UNCHANGED <<reloj, marca, trab, hilo, tarea, registro>>

----------------------------------------------------------------------------
PasoTrabajador(w, o) ==
  \/ Reclamar(w, o)
  \/ Latir(w, o)
  \/ LeasePerdido(w, o)
  \/ Preparar(w, o)
  \/ Despachar(w, o)
  \/ RecibirUpid(w, o)
  \/ EsperaVencida(w, o)
  \/ RecuperarUpid(w, o)
  \/ SinTarea(w, o)
  \/ ConfirmarPorObservacion(w, o)
  \/ DispatchNoConfirmado(w, o)
  \/ TareaSigue(w, o)
  \/ OtroEfecto(w, o)
  \/ CerrarConTarea(w, o)
  \/ CerrarSinEnvio(w, o)
  \/ FalloDeLectura(w, o)

PasoHilo(o, n) ==
  \/ HiloEmpieza(o, n)
  \/ HiloEnvia(o, n)
  \/ HiloMuere(o, n)
  \/ HiloLlega(o, n)
  \/ TareaTermina(o, n)

Next ==
  \/ Avanza
  \/ \E o \in Ops : Cancelar(o)
  \/ \E w \in Trabajadores : Caida(w)
  \/ \E w \in Trabajadores, o \in Ops : PasoTrabajador(w, o)
  \/ \E o \in Ops, n \in Envios : PasoHilo(o, n)

Spec == Init /\ [][Next]_vars

----------------------------------------------------------------------------
(* A closed order has nothing left that could still reach Proxmox: neither *)
(* the thread of a claimant that stopped waiting nor one left by a crash   *)
(* can act after confirmada or fallida (dispatch deadlines of              *)
(* orquestacion_service._dispatch and procesar_lease).                     *)
CerradaSinVuelo ==
  \A o \in Ops, n \in Envios : ~Abierta(o) => ~PuedeEfecto(o, n)

(* A new dispatch of an order is sent only once the task of the previous   *)
(* one is known to have ended, across crashes, take-overs and lost         *)
(* answers: the mark is never sent again blindly.                          *)
EnvioTrasResultado ==
  \A o \in Ops, n \in Envios :
    n < fila[o].envio => tarea[o][n] = "fin" /\ ~PuedeEfecto(o, n)

(* The UPID recorded in a row names the task its latest dispatch started:  *)
(* neither a late answer to a former claimant, nor the history read after  *)
(* a crash, puts there the task of an earlier dispatch, of an earlier      *)
(* order or of somebody else (recuperar_upid and the CAS of _dispatch).    *)
UpidDelEnvio ==
  \A o \in Ops : fila[o].fase = "tarea" =>
    \E n \in Envios : n = fila[o].envio /\ marca[o].upid = n /\ tarea[o][n] # "no"

(* The strengthening that makes the three invariants above inductive.      *)
(* The dispatches of an order ask for different actions, each later in its *)
(* turn, and the mark of the latest is not of the history before it.       *)
TipoEnTurno(o, n) ==
  /\ n = fila[o].envio => registro[o][n].tipo = marca[o].accion
  /\ n < fila[o].envio => Turno(registro[o][n].tipo) < Turno(marca[o].accion)

MarcasEnOrden ==
  /\ reloj > 0
  /\ \A o \in Ops : fila[o].fase \in {"dispatch_started", "tarea"} =>
                     marca[o].accion \in Acciones /\ marca[o].desde > 0
  /\ \A o \in Ops : fila[o].fase = "tarea" => marca[o].upid = fila[o].envio
  /\ \A o \in Ops, n \in Envios : TipoEnTurno(o, n)

(* Leases end at most Lease from now; a claimant that still holds its      *)
(* lease while it waits is waiting for the row's latest dispatch.          *)
EsperaDe(w, o) ==
  /\ Vigente(w, o, "espera") =>
       fila[o].fase = "dispatch_started" /\ trab[w].envio = fila[o].envio
  /\ Vigente(w, o, "sin_tarea") => fila[o].fase = "dispatch_started"

EsperaDelEnvio ==
  /\ \A o \in Ops : arriendo[o].hasta <= reloj + Lease
  /\ \A w \in Trabajadores, o \in Ops : EsperaDe(w, o)

(* How far an order is, read off its threads and tasks.                    *)
EnvioEnOrden(o, n) ==
  /\ n > fila[o].envio => hilo[o][n].etapa = "ninguno"
  /\ n < fila[o].envio => tarea[o][n] = "fin"
  /\ tarea[o][n] = "no" <=> hilo[o][n].etapa # "hecho"
  /\ n = fila[o].envio /\ fila[o].fase = "tarea" => tarea[o][n] # "no"
  /\ n = fila[o].envio /\ fila[o].fase \notin {"dispatch_started", "tarea"} =>
       tarea[o][n] = "fin"

EnviosEnOrden ==
  /\ \A o \in Ops : fila[o].fase \in {"dispatch_started", "tarea"} => fila[o].envio \in Envios
  /\ \A o \in Ops, n \in Envios : EnvioEnOrden(o, n)

(* Everything a thread may still do, it does before the row's deadline.    *)
HiloAntesDelPlazo(o, n) ==
  /\ hilo[o][n].etapa \in {"cola", "verifica"} => hilo[o][n].limite + Transporte <= fila[o].plazo
  /\ hilo[o][n].etapa = "post" => reloj <= hilo[o][n].fin /\ hilo[o][n].fin < fila[o].plazo

PlazoCubreHilo == \A o \in Ops, n \in Envios : HiloAntesDelPlazo(o, n)

Inductivo ==
  TypeOK /\ MarcasEnOrden /\ EsperaDelEnvio /\ EnviosEnOrden /\ PlazoCubreHilo /\ CerradaSinVuelo

(* What the executor promises, whatever happens to its workers.            *)
Promesa == INSTANCE OrdenDuradera WITH
  abiertas <- {o \in Ops : Abierta(o)}, efecto <- tarea
PromesaSpec == Promesa!Spec

(* What each order may rely on about its dispatches, seen from its row.    *)
FilaVista(o) ==
  IF ~Abierta(o) THEN "cerrada"
  ELSE IF fila[o].fase \in {"dispatch_started", "tarea"} THEN "enviada" ELSE "lista"

HiloVisto(o) ==
  LET n == fila[o].envio
  IN IF n = 0 THEN "no"
     ELSE IF tarea[o][n] # "no" THEN tarea[o][n]
     ELSE IF PuedeEfecto(o, n) THEN "vuelo" ELSE "muerto"

Despacho(o) == INSTANCE DespachoDeOrden WITH
  fila <- FilaVista(o), plazo <- FilaVista(o) = "enviada" /\ PlazoVencido(o),
  hilo <- HiloVisto(o)

(* Every order sees DespachoDeOrden, however workers take over, crash and  *)
(* stop waiting: no deadline passes and no order is closed or sent again   *)
(* over a thread or a task that could still act (procesar_lease, _dispatch *)
(* and recuperar_upid).                                                    *)
DespachosEnOrden ==
  /\ \A o \in Ops : Despacho(o)!Init
  /\ [][\A o \in Ops : [Despacho(o)!Next]_(Despacho(o)!vars)]_vars
============================================================================
