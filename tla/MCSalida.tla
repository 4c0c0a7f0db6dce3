------------------------------- MODULE MCSalida -------------------------------
(* Instance of SalidaPortal for model checking.                            *)
EXTENDS SalidaPortal
============================================================================
