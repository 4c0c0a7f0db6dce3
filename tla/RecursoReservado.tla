-------------------------- MODULE RecursoReservado --------------------------
(***************************************************************************)
(* What NAP promises about the capacity of one order: it is retained       *)
(* before anything is asked of Proxmox and until the resource is known to  *)
(* be gone, and the order creates at most one resource in all its life.    *)
(***************************************************************************)
VARIABLES
  reserva,  \* the capacity ledger of the order: "libre" or "retenida"
  recurso   \* "nunca", "en_camino", "existe" or "ya_no"

vars == <<reserva, recurso>>

Init == reserva = "libre" /\ recurso = "nunca"

Retener == reserva = "libre" /\ recurso = "nunca" /\ reserva' = "retenida" /\ UNCHANGED recurso

Enviar == reserva = "retenida" /\ recurso = "nunca" /\ recurso' = "en_camino" /\ UNCHANGED reserva

Nacer == recurso = "en_camino" /\ recurso' = "existe" /\ UNCHANGED reserva

Fracasar == recurso = "en_camino" /\ recurso' = "ya_no" /\ UNCHANGED reserva

Desaparecer == recurso = "existe" /\ recurso' = "ya_no" /\ UNCHANGED reserva

Liberar ==
  /\ reserva = "retenida" /\ recurso \in {"nunca", "ya_no"}
  /\ reserva' = "libre" /\ UNCHANGED recurso

Next == Retener \/ Enviar \/ Nacer \/ Fracasar \/ Desaparecer \/ Liberar

Spec == Init /\ [][Next]_vars
============================================================================
