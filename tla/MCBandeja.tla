----------------------------- MODULE MCBandeja -----------------------------
EXTENDS Bandeja
CONSTANTS i1, i2, m1
============================================================================
