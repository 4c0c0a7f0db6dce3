SPECIFICATION SpecJusta
CONSTANTS
  i1 = i1
  i2 = i2
  m1 = m1
  Instancias = {i1, i2}
  Nadie = Nadie
  Muerta = Muerta
  Mensajes = {m1}
  MaxEntregas = 2
INVARIANTS ExitoExclusivo SecretoConMotivo DobleSoloEnDuda
PROPERTIES CerrojoRespetado ReclamoTermina EnviosCumplen
CHECK_DEADLOCK FALSE
