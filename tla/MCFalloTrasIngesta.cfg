SPECIFICATION Spec
CONSTANTS
  Mensajes = 2
  EnCamino = 2
INVARIANTS FalloTrasIngesta
CHECK_DEADLOCK FALSE
