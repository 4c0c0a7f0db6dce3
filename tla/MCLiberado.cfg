SPECIFICATION Spec
CONSTANTS
  ra = ra
  R = {ra}
  MaxObras = 4
  MaxGen = 3
INVARIANTS LiberadoSinContenedor
CHECK_DEADLOCK FALSE
