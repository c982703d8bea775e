---------------------------- MODULE MCFileValue ----------------------------
\* Model-checking instance of FileValue; no symmetry, as liveness is checked.
EXTENDS FileValue, TLC
=============================================================================
