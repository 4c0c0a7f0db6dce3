\* Two people and two categories; two passes that may overlap and a call that
\* outlives its own.
SPECIFICATION Spec
CONSTANTS
  Usuarios = {a, b}
  Categorias = {c1, c2}
  Terminales = {t1}
  Trabajos = {p1, p2}
  Nadie = Nadie
  MaxDecisiones = 2
  MaxPasadas = 2
  MaxTardias = 1
SYMMETRY Simetria
INVARIANTS UltimoAdmin
PROPERTIES CompletaConRetiro
CHECK_DEADLOCK FALSE
