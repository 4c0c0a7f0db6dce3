-------------------------- MODULE DespachoDeOrden --------------------------
(***************************************************************************)
(* What one order may rely on about its dispatches, without a lease or a   *)
(* clock: where the lease protocol (EnvioConLease) and the life of the     *)
(* order (CicloServicio) meet.  A dispatch is marked when nothing of the   *)
(* previous one can still act; the deadline of the row passes only after   *)
(* its thread ended; and an order that was sent goes on only when its task *)
(* ended, and is closed only then or after the deadline.                   *)
(***************************************************************************)
VARIABLES
  fila,   \* the open operation: "cerrada", "lista" or "enviada" (it has the mark)
  plazo,  \* deadline_at of the dispatch in force has passed
  hilo    \* the latest dispatch: "no", "vuelo" (its thread may still reach
          \* Proxmox), "muerto" (it never will), "corre" or "fin" (its task)

vars == <<fila, plazo, hilo>>

Init == fila \in {"cerrada", "lista"} /\ plazo = FALSE /\ hilo = "no"

Quieto == hilo \notin {"vuelo", "corre"}

Abrir == fila = "cerrada" /\ Quieto /\ fila' = "lista" /\ UNCHANGED <<plazo, hilo>>

Marcar ==
  /\ fila = "lista" /\ Quieto
  /\ fila' = "enviada" /\ plazo' = FALSE /\ hilo' = "vuelo"

Morir == hilo = "vuelo" /\ hilo' = "muerto" /\ UNCHANGED <<fila, plazo>>

Empezar ==
  /\ fila = "enviada" /\ ~plazo
  /\ hilo = "vuelo" /\ hilo' = "corre" /\ UNCHANGED <<fila, plazo>>

Acabar == hilo = "corre" /\ hilo' = "fin" /\ UNCHANGED <<fila, plazo>>

Vencer ==
  /\ fila = "enviada" /\ ~plazo /\ hilo # "vuelo"
  /\ plazo' = TRUE /\ UNCHANGED <<fila, hilo>>

(* The next effect of the order, or the steps that follow the last.        *)
Seguir ==
  /\ fila = "enviada" /\ hilo = "fin"
  /\ fila' = "lista" /\ plazo' = FALSE /\ UNCHANGED hilo

Cerrar ==
  /\ fila = "lista" \/ (fila = "enviada" /\ (hilo = "fin" \/ plazo))
  /\ fila' = "cerrada" /\ plazo' = FALSE /\ UNCHANGED hilo

Next ==
  \/ Abrir \/ Marcar \/ Seguir \/ Cerrar
  \/ Morir \/ Empezar \/ Acabar \/ Vencer

Spec == Init /\ [][Next]_vars
============================================================================
