SPECIFICATION SpecJusta
CONSTANTS
  ra = ra
  R = {ra}
  MaxObras = 4
  MaxGen = 3
INVARIANTS CapacidadEnsayo EspacioSinObra CierreDetieneTodo
PROPERTIES PromesaEnsayo CierreTermina
CHECK_DEADLOCK FALSE
