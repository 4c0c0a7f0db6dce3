---------------------------- MODULE RegistroSalida ----------------------------
(***************************************************************************)
(* What the console of an installation promises, whatever is lost, late or *)
(* repeated on the way: the output is recorded in the order of its         *)
(* numbers, each number once, as text or as a declared loss, for good; one *)
(* outcome closes it, with all the output before and nothing after.        *)
(***************************************************************************)
EXTENDS Naturals

VARIABLES
  publicados,  \* numbers the installer has given
  leidos,      \* the last one the console has recorded
  registro,    \* how each of these was recorded
  resultado    \* the outcomes announced

varsRegistro == <<publicados, leidos, registro, resultado>>

Clases == {"texto", "perdida"}
Desenlaces == {"disponible", "fallo"}
Unicos == {{c} : c \in Clases}

Init == publicados = 0 /\ leidos = 0 /\ registro = [n \in 1..0 |-> {}] /\ resultado = {}

Publicar ==
  /\ resultado = {} /\ publicados' = publicados + 1
  /\ UNCHANGED <<leidos, registro, resultado>>

Registrar ==
  /\ resultado = {}
  /\ leidos < leidos' /\ leidos' <= publicados
  /\ registro' \in [1..leidos' -> Unicos]
  /\ \A n \in 1..leidos : registro'[n] = registro[n]
  /\ UNCHANGED <<publicados, resultado>>

Concluir ==
  /\ resultado = {} /\ leidos = publicados
  /\ \E d \in Desenlaces : resultado' = {d}
  /\ UNCHANGED <<publicados, leidos, registro>>

Next == Publicar \/ Registrar \/ Concluir

Spec == Init /\ [][Next]_varsRegistro
============================================================================
