SPECIFICATION SpecJusta
CONSTANTS
  IaaS = FALSE
  ORDENES <- SoloInicio
  EXTERNOS <- ConExternos
  MaxRev = 1
  MaxRenov = 0
PROPERTIES ReservaCaducaSeResuelve TareaSeNota
CHECK_DEADLOCK FALSE
