------------------------------ MODULE MCConsola ------------------------------
(* Instance of Consola for model checking.                                 *)
EXTENDS Consola, TLC

(* Nothing tells people, categories or executions apart.                   *)
Simetria == Permutations(Usuarios) \cup Permutations(Categorias) \cup Permutations(Trabajos)
============================================================================
