SPECIFICATION SpecJusta
CONSTANTS
  IaaS = TRUE
  ORDENES <- SoloBaja
  EXTERNOS <- SinExternos
  MaxRev = 1
  MaxRenov = 0
PROPERTIES PausaAlVencer
CHECK_DEADLOCK FALSE
