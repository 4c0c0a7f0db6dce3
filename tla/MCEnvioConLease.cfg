SPECIFICATION Spec
CONSTANTS
  w1 = w1
  w2 = w2
  Ops = {1}
  Trabajadores = {w1, w2}
  Nadie = Nadie
  Lease = 3
  Espera = 1
  Transporte = 1
  Presupuesto = 4
  Retrasos = {0}
  MaxEnvios = 2
  MaxReclamos = 3
  Horizonte = 6
  Acciones = {"detener", "eliminar"}
  Ajenas = {"reiniciar"}
SYMMETRY Simetria
CHECK_DEADLOCK FALSE
INVARIANTS
  CerradaSinVuelo
  UpidDelEnvio
PROPERTIES
  PromesaSpec
  DespachosEnOrden
