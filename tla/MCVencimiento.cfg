SPECIFICATION SpecJusta
CONSTANTS
  Horizonte = 4
  MaxPeriodos = 3
  Anticipacion = 2
  Trabajos = {j1}
INVARIANTS VigentesDisjuntos SustitucionUnica ResumenExacto AvisoCumplido LimiteRespondido
 
CHECK_DEADLOCK FALSE
