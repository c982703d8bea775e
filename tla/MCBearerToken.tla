--------------------------- MODULE MCBearerToken ---------------------------
\* Model-checking instances of BearerToken.
EXTENDS BearerToken, TLC

EarlyBuffers == {-3, 0}
AllBuffers == {-3, 1}
Seeds == {3}
Lives == {0, 3}
Symmetry == Permutations(Callers)
=============================================================================
