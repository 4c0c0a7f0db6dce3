SPECIFICATION Spec
CONSTANTS
  IaaS = TRUE
  ORDENES <- TodasLasOrdenes
  EXTERNOS <- SinExternos
  MaxRev = 2
  MaxRenov = 1
INVARIANTS SuspensionConPausa CapacidadHastaAusencia ComputoRetenido DecisionRevocada CompromisoVigente
PROPERTIES AgendaSoloProgramada PromesaReserva DespachoEnOrden
CHECK_DEADLOCK FALSE
