------------------------------- MODULE Consola -------------------------------
(***************************************************************************)
(* The console identities in Proxmox, which a periodic job brings to what  *)
(* the portal wants (identidad_consola_service.py and the node's           *)
(* console_identity.py), and the web terminals that use them               *)
(* (terminal_relay_service.py).  One service per category, which runs, and *)
(* its pool exists.  Executions of the job may overlap, because one whose  *)
(* lock lapses is not interrupted (TrabajosUnicos), and a call to a node   *)
(* may outlive the pass that made it.                                      *)
(***************************************************************************)
EXTENDS AccesoConsola

CONSTANTS
  Terminales,
  Trabajos,   \* executions of the job
  MaxPasadas, \* bound: accounts taken in hand
  MaxTardias  \* bound: calls that go on at a node

VARIABLES
  identidad,  \* the rows of identidades_consola
  pve,        \* the pools each identity has the console role on, in Proxmox
  tardias,    \* calls nobody waits for any more, which may still act
  pasada,     \* each execution of the job and the account it has in hand
  pasadas,    \* accounts taken in hand so far
  terminales  \* the browsers' terminals

varsConsola == <<identidad, pve, tardias, pasada, pasadas, terminales>>
vars == <<varsAcceso, varsConsola>>

Filas ==
  [estado : {"retirada", "en_preparacion", "lista"}, aplicados : SUBSET Categorias]

(* An ensure with these pools; with none, a retire.                        *)
Llamadas == [u : Usuarios, pools : SUBSET Categorias]

(* quitados: aplicados that are no longer wanted; lista: what the row said *)
(* when it was read; ajena: another call has given the identity something  *)
(* since this pass saw its own call answered (history).                    *)
Pasadas ==
  [fase : {"elegir", "otorgar", "cortar", "terminar", "probar", "guardar", "inventario", "completar"},
   u : Usuarios \cup {Nadie}, deseados : SUBSET Categorias,
   quitados : SUBSET Categorias, lista : BOOLEAN, ajena : BOOLEAN]

Reposo ==
  [fase |-> "elegir", u |-> Nadie, deseados |-> {}, quitados |-> {}, lista |-> FALSE, ajena |-> FALSE]

(* cierre: its end was asked for.                                          *)
Sesiones ==
  [etapa : {"fuera", "admitida", "conectada"}, u : Usuarios \cup {Nadie},
   c : SUBSET Categorias, cierre : BOOLEAN]

Fuera == [etapa |-> "fuera", u |-> Nadie, c |-> {}, cierre |-> FALSE]

(* The consoles have just been enabled, or everything is up to date.       *)
Init ==
  /\ InitAcceso
  /\ pve \in {[u \in Usuarios |-> {}], [u \in Usuarios |-> Alcance(u)]}
  /\ \A u \in Usuarios : cuenta[u].asignada = (pve[u] # {})
  /\ identidad = [u \in Usuarios |->
       [estado |-> IF pve[u] = {} THEN "retirada" ELSE "lista", aplicados |-> pve[u]]]
  /\ tardias = {} /\ pasadas = 0
  /\ pasada = [p \in Trabajos |-> Reposo]
  /\ terminales = [t \in Terminales |-> Fuera]

(* ciclo: what is only missing is looked at every thirty seconds.          *)
Urgentes ==
  {u \in Usuarios : \/ identidad[u].estado = "en_preparacion"
                    \/ identidad[u].aplicados \ Deseados(u) # {}}

Incompletos ==
  {u \in Usuarios : ~(Deseados(u) \subseteq identidad[u].aplicados)}

(* An account of the list, which is taken as if it were read again before  *)
(* each, and _datos: an identity that was retired comes back (with a new   *)
(* password, which a terminal admitted before does not have: it fails then *)
(* as any other).                                                          *)
Preparar(p, u) ==
  LET d == Deseados(u)
  IN /\ pasada[p].fase = "elegir" /\ u \in Urgentes \cup Incompletos
     /\ pasadas < MaxPasadas /\ pasadas' = pasadas + 1
     /\ pasada' = [pasada EXCEPT ![p] =
          [fase |-> "otorgar", u |-> u, deseados |-> d, quitados |-> identidad[u].aplicados \ d,
           lista |-> identidad[u].estado = "lista", ajena |-> FALSE]]
     /\ identidad' = IF identidad[u].estado = "retirada" /\ d # {}
                     THEN [identidad EXCEPT ![u].estado = "en_preparacion"]
                     ELSE identidad
     /\ UNCHANGED <<varsAcceso, pve, tardias, terminales>>

En(p, fase) == pasada[p].fase = fase
Pasa(p, fase) == pasada' = [pasada EXCEPT ![p].fase = fase]
Deja(p) == pasada' = [pasada EXCEPT ![p] = Reposo]
Otorgado(p) == pasada[p].fase \in {"cortar", "terminar", "probar", "guardar", "inventario", "completar"}

(* What the passes that were answered must know when an identity gains a   *)
(* pool.                                                                   *)
Cruzadas(u, pools) ==
  [p \in Trabajos |->
     IF Otorgado(p) /\ pasada[p].u = u /\ ~(pools \subseteq pve[u])
     THEN [pasada[p] EXCEPT !.ajena = TRUE]
     ELSE pasada[p]]

(* Fault: the node adds the pools that are wanted and removes none.        *)
OtorgarSinQuitar(p) ==
  LET s == pasada[p]
  IN /\ En(p, "otorgar")
     /\ pve' = [pve EXCEPT ![s.u] = @ \cup s.deseados]
     /\ pasada' = [Cruzadas(s.u, s.deseados) EXCEPT ![p] = [s EXCEPT !.fase = "cortar"]]
     /\ UNCHANGED <<varsAcceso, pasadas, identidad, tardias, terminales>>

(* ensure or retire, which look at the outcome before they answer          *)
Otorgar(p) ==
  LET s == pasada[p]
  IN /\ En(p, "otorgar")
     /\ pve' = [pve EXCEPT ![s.u] = s.deseados]
     /\ pasada' = [Cruzadas(s.u, s.deseados) EXCEPT ![p] = [s EXCEPT !.fase = "cortar"]]
     /\ UNCHANGED <<varsAcceso, pasadas, identidad, tardias, terminales>>

(* _en_algun_nodo: no answer, so the next node is tried (or the pass fails, *)
(* or its worker dies); the first may still be at work.                    *)
Abandonar(p) ==
  /\ En(p, "otorgar")
  /\ Cardinality(tardias) < MaxTardias
  /\ tardias' = tardias \cup {[u |-> pasada[p].u, pools |-> pasada[p].deseados]}
  /\ UNCHANGED <<varsAcceso, pasadas, identidad, pve, pasada, terminales>>

(* What a call that does not reach its end may leave: some of the pools it *)
(* is about, and some of the others.                                       *)
Parciales(u, pools) ==
  {n \in SUBSET (pve[u] \cup pools) : pve[u] \cap pools \subseteq n}

(* It acts in the end, in whole, in part or not at all.                    *)
Tardar(l) ==
  /\ l \in tardias /\ tardias' = tardias \ {l}
  /\ \E n \in Parciales(l.u, l.pools) :
       pve' = [pve EXCEPT ![l.u] = n] /\ pasada' = Cruzadas(l.u, n)
  /\ UNCHANGED <<varsAcceso, pasadas, identidad, terminales>>

(* Every failure ends in the same handler, which writes what the row said  *)
(* when it was read.                                                       *)
Falla(p) ==
  identidad' = [identidad EXCEPT ![pasada[p].u].estado =
    IF pasada[p].lista THEN "lista" ELSE "en_preparacion"]

(* The node may have changed some of the permissions.                      *)
FallaOtorgar(p) ==
  LET s == pasada[p]
  IN /\ En(p, "otorgar") /\ Falla(p)
     /\ \E n \in Parciales(s.u, s.deseados) :
          /\ pve' = [pve EXCEPT ![s.u] = n]
          /\ pasada' = [Cruzadas(s.u, n) EXCEPT ![p] = Reposo]
     /\ UNCHANGED <<varsAcceso, pasadas, tardias, terminales>>

FallaTerminar(p) ==
  /\ pasada[p].fase \in {"terminar", "probar"} /\ Falla(p) /\ Deja(p)
  /\ UNCHANGED <<varsAcceso, pasadas, pve, tardias, terminales>>

(* _cortar_terminales                                                      *)
Cortar(p) ==
  LET s == pasada[p]
  IN /\ En(p, "cortar")
     /\ terminales' = [t \in Terminales |->
          [terminales[t] EXCEPT !.cierre =
             @ \/ (terminales[t].u = s.u /\ terminales[t].c \cap s.quitados # {})]]
     /\ Pasa(p, "terminar")
     /\ UNCHANGED <<varsAcceso, pasadas, identidad, pve, tardias>>

Retira(p) == pasada[p].deseados = {}

(* terminar_sesiones, whoever holds them                                   *)
Terminar(p) ==
  /\ En(p, "terminar")
  /\ terminales' = [t \in Terminales |->
       IF terminales[t].etapa = "conectada" /\ terminales[t].c \cap pasada[p].quitados # {} THEN Fuera
       ELSE terminales[t]]
  /\ Pasa(p, IF Retira(p) THEN "probar" ELSE "guardar")
  /\ UNCHANGED <<varsAcceso, pasadas, identidad, pve, tardias>>

(* probe: the identity that was retired does not exist.                    *)
Probar(p) ==
  /\ En(p, "probar") /\ pve[pasada[p].u] = {}
  /\ Pasa(p, "guardar")
  /\ UNCHANGED <<varsAcceso, pasadas, identidad, pve, tardias, terminales>>

Guardar(p) ==
  /\ En(p, "guardar")
  /\ identidad' = [identidad EXCEPT ![pasada[p].u] =
       [estado |-> IF Retira(p) THEN "retirada" ELSE "lista", aplicados |-> pasada[p].deseados]]
  /\ Pasa(p, IF Retira(p) THEN "completar" ELSE "inventario")
  /\ UNCHANGED <<varsAcceso, pasadas, pve, tardias, terminales>>

(* _inventario                                                             *)
Inventariar(p) ==
  /\ En(p, "inventario")
  /\ cuenta' = [cuenta EXCEPT ![pasada[p].u].asignada = ~Retira(p)]
  /\ IF Retira(p) THEN Deja(p) ELSE Pasa(p, "completar")
  /\ UNCHANGED <<pasadas, titular, tramite, decisiones, identidad, pve, tardias, terminales>>

(* completar_tramites: only the procedure this pass carried out.           *)
Completa(p) == tramite[pasada[p].u].propuestos = pasada[p].deseados

Completar(p) ==
  LET u == pasada[p].u
  IN /\ En(p, "completar")
     /\ IF Completa(p) /\ Confirmable(u) THEN Confirmar(u) ELSE UNCHANGED varsAcceso
     /\ IF Retira(p) THEN Pasa(p, "inventario") ELSE Deja(p)
     /\ UNCHANGED <<pasadas, identidad, pve, tardias, terminales>>

(* The worker dies.                                                        *)
Muere(p) ==
  /\ pasada[p] # Reposo /\ Deja(p)
  /\ UNCHANGED <<varsAcceso, pasadas, identidad, pve, tardias, terminales>>

Reconciliar(p) ==
  \/ (\E u \in Usuarios : Preparar(p, u)) \/ Otorgar(p) \/ Abandonar(p) \/ FallaOtorgar(p)
  \/ Cortar(p) \/ Terminar(p) \/ FallaTerminar(p) \/ Probar(p) \/ Guardar(p)
  \/ Inventariar(p) \/ Completar(p) \/ Muere(p)

Pone(t, s) ==
  /\ terminales' = [terminales EXCEPT ![t] = s]
  /\ UNCHANGED <<varsAcceso, pasadas, identidad, pve, tardias, pasada>>

(* admitir, autorizar and abrir                                            *)
Admitir(t, u, c) ==
  /\ terminales[t] = Fuera
  /\ Visible(u, c)
  /\ identidad[u].estado = "lista" /\ c \in identidad[u].aplicados
  /\ Pone(t, [etapa |-> "admitida", u |-> u, c |-> {c}, cierre |-> FALSE])

(* conectar_con_reintento: Proxmox checks the permission.                  *)
Conectar(t) ==
  LET s == terminales[t]
  IN /\ s.etapa = "admitida" /\ s.c \subseteq pve[s.u]
     /\ Pone(t, [s EXCEPT !.etapa = "conectada"])

Seguir(s) == ~s.cierre /\ \A c \in s.c : Visible(s.u, c)

(* vigilante                                                               *)
Vigilar(t) ==
  /\ terminales[t].etapa = "conectada" /\ ~Seguir(terminales[t])
  /\ Pone(t, Fuera)

(* The connection fails or is refused, the person leaves, it is idle or    *)
(* breaks.                                                                 *)
Cerrar(t) == terminales[t] # Fuera /\ Pone(t, Fuera)

Next ==
  \/ Administrar /\ UNCHANGED varsConsola
  \/ (\E u \in Usuarios : ConfirmarConEvidencia(u)) /\ UNCHANGED varsConsola
  \/ \E p \in Trabajos : Reconciliar(p)
  \/ \E l \in tardias : Tardar(l)
  \/ \E t \in Terminales :
       \/ \E u \in Usuarios, c \in Categorias : Admitir(t, u, c)
       \/ Conectar(t) \/ Vigilar(t) \/ Cerrar(t)

Spec == Init /\ [][Next]_vars
----------------------------------------------------------------------------
TypeOK ==
  /\ TypeOKAcceso
  /\ identidad \in [Usuarios -> Filas] /\ pve \in [Usuarios -> SUBSET Categorias]
  /\ tardias \subseteq Llamadas
  /\ pasada \in [Trabajos -> Pasadas] /\ terminales \in [Terminales -> Sesiones]

(* The portal completes a procedure by itself only when the identity has   *)
(* no permission left but on the pools the procedure leaves, and none of   *)
(* the consoles the pass had to cut remains or slipped in after the        *)
(* withdrawal, although the pass may be an old one, its first call may     *)
(* still be at work and others overlap with it.  The one exception is      *)
(* that one of those gave a pool back after the node had confirmed its     *)
(* withdrawal.                                                             *)
CompletaConRetiro ==
  [][\A p \in Trabajos : \A u \in Usuarios :
       Completar(p) /\ Abierto(u) /\ tramite'[u] = SinTramite /\ ~pasada[p].ajena =>
         /\ pve[u] \subseteq tramite[u].propuestos
         /\ \A t \in Terminales :
              terminales[t].etapa = "conectada" /\ terminales[t].u = u =>
                terminales[t].c \cap pasada[p].quitados = {}]_vars

(* FR-013 of specs/022: while the withdrawal of an access is not           *)
(* confirmed, that access is not given to the new holder.                  *)
EntregaTrasRetiro ==
  [][\A c \in Categorias : \A u \in Usuarios \ {titular[c]}, v \in Usuarios :
       v = titular[c] /\ c \in pve'[v] \ pve[v] /\ c \notin Alcance(u) => c \notin pve[u]]_vars
============================================================================
