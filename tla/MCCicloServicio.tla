-------------------------- MODULE MCCicloServicio --------------------------
(* CicloServicio on a small instance; the values are in the cfg files.     *)
EXTENDS CicloServicio

SoloBaja == {"eliminar"}
SoloInicio == {"iniciar"}
SinExternos == {}
ConExternos == {"enciende", "borra"}
============================================================================
