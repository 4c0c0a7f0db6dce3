-------------------------- MODULE EntregaDeCorreo --------------------------
(***************************************************************************)
(* What the outbox promises of one e-mail, with no claim, lease or         *)
(* execution in sight: it is recorded as sent only if it arrived; it       *)
(* arrives again only once it is in doubt whether it did; what was sent or *)
(* cancelled stays so, and keeps no password.                              *)
(***************************************************************************)
EXTENDS Naturals

CONSTANT MaxEntregas  \* arrivals told apart

VARIABLES
  estado,    \* "ausente", "abierto", "enviada" or "cancelada"
  secreto,   \* the row holds a password
  entregas,  \* how often it arrived
  duda       \* a claim of it ended and nobody knew whether it had arrived

vars == <<estado, secreto, entregas, duda>>

Init == estado = "ausente" /\ secreto = FALSE /\ entregas = 0 /\ duda = FALSE

Encolar ==
  /\ estado = "ausente"
  /\ estado' = "abierto" /\ secreto' \in BOOLEAN
  /\ UNCHANGED <<entregas, duda>>

(* Also after it was cancelled: SMTP is not interrupted.                   *)
Llegar ==
  /\ estado # "ausente"
  /\ entregas = 0 \/ duda
  /\ entregas' = IF entregas < MaxEntregas THEN entregas + 1 ELSE entregas
  /\ duda' \in {duda, TRUE}
  /\ UNCHANGED <<estado, secreto>>

Dudar == estado = "abierto" /\ duda' = TRUE /\ UNCHANGED <<estado, secreto, entregas>>

Cerrar ==
  /\ estado = "abierto"
  /\ \/ estado' = "enviada" /\ entregas > 0
     \/ estado' = "cancelada"
  /\ secreto' = FALSE
  /\ UNCHANGED <<entregas, duda>>

Next == Encolar \/ Llegar \/ Dudar \/ Cerrar

Spec == Init /\ [][Next]_vars
============================================================================
