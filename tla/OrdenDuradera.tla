--------------------------- MODULE OrdenDuradera ---------------------------
(***************************************************************************)
(* What the durable executor promises of an infrastructure order, with no  *)
(* lease, worker, thread or clock in sight: an order asks Proxmox for its  *)
(* effects one at a time and each of them once, the next one only after    *)
(* the previous one has ended, and an order that was closed (confirmada or *)
(* fallida) never has another effect.                                      *)
(***************************************************************************)
EXTENDS Naturals

CONSTANTS
  Ops,        \* rows of operaciones_infraestructura
  MaxEnvios   \* most dispatches of one order (eliminar: detener, eliminar)

VARIABLES
  abiertas,   \* the orders not closed yet
  efecto      \* "no" | "corre" | "fin": what Proxmox did for each dispatch

vars == <<abiertas, efecto>>

Envios == 1..MaxEnvios

TypeOK ==
  /\ abiertas \subseteq Ops
  /\ efecto \in [Ops -> [Envios -> {"no", "corre", "fin"}]]

Init ==
  /\ abiertas = Ops
  /\ efecto = [o \in Ops |-> [n \in Envios |-> "no"]]

(* An effect starts: only for an open order, after every earlier one ended. *)
Empezar(o, n) ==
  /\ o \in abiertas
  /\ efecto[o][n] = "no"
  /\ \A m \in Envios : m < n => efecto[o][m] = "fin"
  /\ efecto' = [efecto EXCEPT ![o][n] = "corre"]
  /\ UNCHANGED abiertas

Acabar(o, n) ==
  /\ efecto[o][n] = "corre"
  /\ efecto' = [efecto EXCEPT ![o][n] = "fin"]
  /\ UNCHANGED abiertas

Cerrar(o) ==
  /\ o \in abiertas
  /\ abiertas' = abiertas \ {o}
  /\ UNCHANGED efecto

Next ==
  \E o \in Ops :
    \/ Cerrar(o)
    \/ \E n \in Envios : Empezar(o, n) \/ Acabar(o, n)

Spec == Init /\ [][Next]_vars
============================================================================
