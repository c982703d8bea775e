------------------------ MODULE MCBackchannelLogout ------------------------
\* Model-checking instance of BackchannelLogout.
EXTENDS BackchannelLogout, TLC

Symmetry == Permutations(Requests)
=============================================================================
