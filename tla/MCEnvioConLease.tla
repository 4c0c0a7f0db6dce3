-------------------------- MODULE MCEnvioConLease --------------------------
(* EnvioConLease on small instances.  The unit of time is ten seconds:     *)
(* lease 30 s, waits and transport 10 s, budget of an action 60 s.         *)
EXTENDS EnvioConLease, TLC

CONSTANTS w1, w2

Simetria == Permutations({w1, w2})
============================================================================
