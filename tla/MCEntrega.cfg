\* The window before the inventory knows of a new identity.
SPECIFICATION Spec
CONSTANTS
  Usuarios = {a, b}
  Categorias = {c1}
  Terminales = {t1}
  Trabajos = {p1}
  Nadie = Nadie
  MaxDecisiones = 1
  MaxPasadas = 2
  MaxTardias = 0
PROPERTY EntregaTrasRetiro
CHECK_DEADLOCK FALSE
