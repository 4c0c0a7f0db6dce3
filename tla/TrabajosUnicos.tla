--------------------------- MODULE TrabajosUnicos ---------------------------
(***************************************************************************)
(* The lock of one periodic job (scheduler.py): a row with an owner token  *)
(* and a lease, renewed by a task of its own and checked once more when    *)
(* the body ends.  A body whose lease lapses is not interrupted.           *)
(***************************************************************************)
EXTENDS Naturals, FiniteSets

CONSTANTS
  Instancias,  \* processes that run the job: the worker, the manual endpoint
  Nadie,       \* no row in job_locks
  Muerta       \* a row whose owner_token no running execution holds

ASSUME InstanciasDistintas == Nadie \notin Instancias /\ Muerta \notin Instancias /\ Nadie # Muerta

VARIABLES
  cerrojo,    \* the row: whose token, and whether lease_until > now
  ejecucion   \* per instance: stage, whether it ended well, and whether
              \* another execution took the lock while its body ran (history)

varsCerrojo == <<cerrojo, ejecucion>>

EnReposo == [etapa |-> "fuera", exito |-> FALSE, relevada |-> FALSE]

Corre(i) == ejecucion[i].etapa = "corre"
Propio(i) == cerrojo.dueno = i

(* No row, or the one an execution that died left, or one of the version   *)
(* without tokens, read through LOCK_MAX_EDAD.                             *)
InitCerrojo ==
  /\ cerrojo \in [dueno : {Nadie}, vigente : {FALSE}] \cup [dueno : {Muerta}, vigente : BOOLEAN]
  /\ ejecucion = [i \in Instancias |-> EnReposo]

Tomable == cerrojo.dueno = Nadie \/ ~cerrojo.vigente

(* adquirir_job                                                            *)
Adquirir(i) ==
  /\ ejecucion[i].etapa = "fuera" /\ Tomable
  /\ cerrojo' = [dueno |-> i, vigente |-> TRUE]
  /\ ejecucion' = [j \in Instancias |->
       IF j = i THEN [EnReposo EXCEPT !.etapa = "corre"]
       ELSE [ejecucion[j] EXCEPT !.relevada = @ \/ Corre(j)]]

(* Thirty seconds without a renewal: the heartbeat is late, or its owner   *)
(* died.                                                                   *)
VenceCerrojo ==
  /\ cerrojo.vigente
  /\ cerrojo' = [cerrojo EXCEPT !.vigente = FALSE]
  /\ UNCHANGED ejecucion

(* Fault: only the heartbeat, which may be late, says whether it is lost.   *)
ConfirmaSinReleer(i) == TRUE

Confirma(i) == Propio(i) /\ cerrojo.vigente

Terminar(i, exito) ==
  /\ Corre(i)
  /\ ejecucion' = [ejecucion EXCEPT ![i].etapa = "suelta", ![i].exito = exito]
  /\ UNCHANGED cerrojo

(* The body returned: what tomar_lock does after its yield.                *)
Comprobar(i) == Terminar(i, Confirma(i))

(* The body raised, or its heartbeat, which renews only a lease that has   *)
(* not lapsed, found it lost or failed.                                    *)
FallaCuerpo(i) == Terminar(i, FALSE)

(* Fault: the row is deleted by the name of the job.                       *)
SueltaPorNombre(i) == TRUE

Suelta(i) == Propio(i)

(* liberar_job                                                             *)
Soltar(i) ==
  /\ ejecucion[i].etapa = "suelta"
  /\ cerrojo' = IF Suelta(i) THEN [dueno |-> Nadie, vigente |-> FALSE] ELSE cerrojo
  /\ ejecucion' = [ejecucion EXCEPT ![i] = EnReposo]

(* The process dies, or is restarted, whatever it was doing.               *)
Caida(i) ==
  /\ ejecucion[i].etapa # "fuera"
  /\ cerrojo' = IF Propio(i) THEN [cerrojo EXCEPT !.dueno = Muerta] ELSE cerrojo
  /\ ejecucion' = [ejecucion EXCEPT ![i] = EnReposo]

TypeOKCerrojo ==
  /\ cerrojo \in [dueno : Instancias \cup {Nadie, Muerta}, vigente : BOOLEAN]
  /\ ejecucion \in [Instancias -> [etapa : {"fuera", "corre", "suelta"},
                                   exito : BOOLEAN, relevada : BOOLEAN]]

(* An execution that reports success was alone from its lock to its end:   *)
(* no other took the lock while its body ran, however late the heartbeat   *)
(* noticed (tomar_lock reads the row again, and locks it).                 *)
ExitoExclusivo ==
  \A i \in Instancias : ejecucion[i].etapa = "suelta" /\ ejecucion[i].exito => ~ejecucion[i].relevada

(* Nobody takes or deletes the row of an execution that is still inside    *)
(* its lease: an execution that lost the lock does not release it under    *)
(* its successor (adquirir_job, liberar_job).                              *)
CerrojoRespetado ==
  [][\A i \in Instancias :
       Propio(i) /\ cerrojo.vigente /\ cerrojo'.dueno # i => ejecucion'[i].etapa = "fuera"]_varsCerrojo
============================================================================
