----------------------------- MODULE Constructor -----------------------------
(***************************************************************************)
(* The builder host of one trial (infra/builder/executor.py): a state file *)
(* under a lock, invocations of `execute' that hold it twice, with nothing *)
(* in between, and processes `work' that build.  Closing the trial is      *)
(* durable before anything is stopped, and generations order the requests, *)
(* which may arrive late or never; two requests alike count as one.        *)
(***************************************************************************)
EXTENDS Naturals

CONSTANTS MaxObras, MaxGen  \* bounds of the model: jobs asked for, generations

ASSUME CotasAssumption == MaxObras \in Nat \ {0} /\ MaxGen \in Nat /\ MaxGen >= 2

VARIABLES
  casa,       \* the state file: generation, closed, jobs, cancel, cleanup
  proceso,    \* the processes of the jobs
  disco,      \* the workspace and the artifact of the trial
  red,        \* requests on their way
  recibidas   \* those between the two locked sections of execute

varsCasa == <<casa, proceso, disco, red, recibidas>>

Obras == 1..MaxObras
Gens == 0..MaxGen
TiposObra == {"resolver", "construir", "distribuir"}
Tipos == TiposObra \cup {"cierre", "limpieza"}

Trabajos ==
  [que : TiposObra, estado : {"no", "accepted", "running", "succeeded", "failed", "cancelled"},
   gen : Gens, pid : BOOLEAN]

Casas ==
  [gen : Gens, cerrado : BOOLEAN, trabajo : [Obras -> Trabajos],
   cierre : {"no", "accepted", "cancelled"}, limpieza : {"no", "accepted", "succeeded"}]

Peticiones == [que : Tipos, n : 0..MaxObras, gen : Gens]

InitCasa ==
  /\ casa = [gen |-> 0, cerrado |-> FALSE, cierre |-> "no", limpieza |-> "no",
             trabajo |-> [n \in Obras |->
                            [que |-> "resolver", estado |-> "no", gen |-> 0, pid |-> FALSE]]]
  /\ proceso = [n \in Obras |-> "no"]
  /\ disco = [obra |-> FALSE, artefacto |-> FALSE]
  /\ red = {} /\ recibidas = {}
----------------------------------------------------------------------------
Activos == {n \in Obras : casa.trabajo[n].estado \in {"accepted", "running"}}

(* Fault: a job without a known process counts as stopped.                 *)
ParableSiempre == TRUE

(* stop refuses when a job runs and its process is not known.              *)
Parable == \A n \in Activos : casa.trabajo[n].pid \/ casa.trabajo[n].estado = "accepted"

(* What nobody reads of a job that ended is forgotten.                     *)
Acabado(n, e) == [casa.trabajo[n] EXCEPT !.estado = e, !.gen = 0, !.pid = FALSE]

TrabajosParados ==
  [n \in Obras |-> IF n \in Activos THEN Acabado(n, "cancelled") ELSE casa.trabajo[n]]

(* stop kills the group of each process it knows.                          *)
ProcesosParados ==
  [n \in Obras |-> IF n \in Activos /\ casa.trabajo[n].pid THEN "no" ELSE proceso[n]]

(* The checks of execute in its first locked section                       *)
Admisible(p) ==
  /\ p.gen >= casa.gen
  /\ casa.cerrado => p.que \in {"cierre", "limpieza"}
  /\ p.que = "limpieza" => casa.cerrado
  /\ p.gen > casa.gen /\ p.que # "cierre" => Parable

(* A job asked for again, or a cancel or cleanup already done, is answered.*)
YaTratada(p) ==
  CASE p.que = "cierre"   -> casa.cierre = "cancelled"
    [] p.que = "limpieza" -> casa.limpieza = "succeeded"
    [] OTHER              -> casa.trabajo[p.n].estado # "no"

(* The first section: generation, closure and the accepted job are written.*)
Admitir(p) ==
  LET releva == p.gen > casa.gen /\ p.que # "cierre"
      jobs == IF releva THEN TrabajosParados ELSE casa.trabajo
      nueva == ~YaTratada(p)
  IN /\ p \in red /\ Admisible(p)
     /\ casa' = [gen |-> p.gen, cerrado |-> casa.cerrado \/ p.que = "cierre",
                 cierre |-> IF nueva /\ p.que = "cierre" THEN "accepted" ELSE casa.cierre,
                 limpieza |-> IF nueva /\ p.que = "limpieza" THEN "accepted" ELSE casa.limpieza,
                 trabajo |-> IF nueva /\ p.que \in TiposObra
                   THEN [jobs EXCEPT ![p.n] = [que |-> p.que, estado |-> "accepted",
                                               gen |-> p.gen, pid |-> FALSE]]
                   ELSE jobs]
     /\ proceso' = IF releva THEN ProcesosParados ELSE proceso
     /\ recibidas' = IF nueva THEN recibidas \cup {p} ELSE recibidas
     /\ red' = red \ {p} /\ UNCHANGED disco

Lanzable(p) == ~casa.cerrado /\ casa.gen = p.gen

(* The second section of a job: Popen, and the process is written down     *)
(* unless execute dies first.                                              *)
Lanzar(p, anota) ==
  /\ p \in recibidas /\ p.que \in TiposObra
  /\ recibidas' = recibidas \ {p}
  /\ IF Lanzable(p)
     THEN /\ proceso' = [proceso EXCEPT ![p.n] = "nace"]
          /\ casa' = [casa EXCEPT !.trabajo[p.n].pid = anota]
     ELSE UNCHANGED <<casa, proceso>>
  /\ UNCHANGED <<disco, red>>

(* The second section of cancel and of cleanup                             *)
Detener(p) ==
  /\ p \in recibidas /\ p.que \notin TiposObra /\ Parable
  /\ recibidas' = recibidas \ {p}
  /\ proceso' = ProcesosParados
  /\ casa' = [casa EXCEPT !.trabajo = TrabajosParados,
                          !.cierre = IF p.que = "cierre" \/ @ = "accepted" THEN "cancelled" ELSE @,
                          !.limpieza = IF p.que = "limpieza" THEN "succeeded" ELSE @]
  /\ disco' = [disco EXCEPT !.obra = @ /\ p.que # "limpieza"]
  /\ UNCHANGED red

(* A request is lost or refused, or its execute dies or cannot stop a job. *)
SePierde(p) ==
  /\ p \in red \cup recibidas
  /\ red' = red \ {p} /\ recibidas' = recibidas \ {p}
  /\ UNCHANGED <<casa, proceso, disco>>
----------------------------------------------------------------------------
Relevado(n) == casa.cerrado \/ casa.trabajo[n].gen # casa.gen

(* Fault: work does not look at the state before it builds.                *)
EmpezarSinMirar(n) ==
  /\ proceso[n] = "nace"
  /\ casa' = [casa EXCEPT !.trabajo[n].estado = "running"]
  /\ proceso' = [proceso EXCEPT ![n] = "corre"] /\ disco' = [disco EXCEPT !.obra = TRUE]
  /\ UNCHANGED <<red, recibidas>>

Empezar(n) ==
  /\ proceso[n] = "nace"
  /\ casa' = IF Relevado(n) THEN [casa EXCEPT !.trabajo[n] = Acabado(n, "cancelled")]
             ELSE [casa EXCEPT !.trabajo[n].estado = "running"]
  /\ proceso' = [proceso EXCEPT ![n] = IF Relevado(n) THEN "no" ELSE "corre"]
  /\ disco' = [disco EXCEPT !.obra = @ \/ ~Relevado(n)]
  /\ UNCHANGED <<red, recibidas>>

(* execute_registered renames what it built before work can say so.        *)
Producir(n) ==
  /\ proceso[n] = "corre" /\ casa.trabajo[n].que = "construir"
  /\ disco' = [disco EXCEPT !.artefacto = TRUE]
  /\ UNCHANGED <<casa, proceso, red, recibidas>>

Terminar(n, e) ==
  /\ proceso[n] = "corre"
  /\ e = "succeeded" /\ casa.trabajo[n].que = "construir" => disco.artefacto
  /\ casa' = [casa EXCEPT !.trabajo[n] = Acabado(n, IF Relevado(n) THEN "cancelled" ELSE e)]
  /\ proceso' = [proceso EXCEPT ![n] = "no"]
  /\ UNCHANGED <<disco, red, recibidas>>

(* Killed by a stop that died before it wrote, or by the host              *)
Morir(n) ==
  /\ proceso[n] # "no" /\ proceso' = [proceso EXCEPT ![n] = "no"]
  /\ UNCHANGED <<casa, disco, red, recibidas>>

Servir ==
  \E p \in red \cup recibidas :
    Admitir(p) \/ Detener(p) \/ SePierde(p) \/ \E anota \in BOOLEAN : Lanzar(p, anota)

Construir ==
  \E n \in Obras :
    Empezar(n) \/ Producir(n) \/ Morir(n) \/ \E e \in {"succeeded", "failed"} : Terminar(n, e)

PasoCasa == Servir \/ Construir

(* The builder part of TypeOK                                              *)
TypeOKCasa ==
  /\ casa \in Casas
  /\ proceso \in [Obras -> {"no", "nace", "corre"}]
  /\ disco \in [obra : BOOLEAN, artefacto : BOOLEAN]
  /\ red \in SUBSET Peticiones /\ recibidas \in SUBSET Peticiones
============================================================================
