SPECIFICATION SpecJusta
CONSTANTS
  Mensajes = 2
  EnCamino = 2
INVARIANTS NadaSePierde SinConflicto FinalCompleto
PROPERTIES CumpleElRegistro SeAsienta
CHECK_DEADLOCK FALSE
