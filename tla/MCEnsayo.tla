------------------------------ MODULE MCEnsayo ------------------------------
EXTENDS CierreEnsayo
CONSTANT ra
============================================================================
