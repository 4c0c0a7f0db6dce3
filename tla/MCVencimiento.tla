--------------------------- MODULE MCVencimiento ---------------------------
(* Instances of Vencimiento for the model checker.                         *)
EXTENDS Vencimiento
============================================================================
