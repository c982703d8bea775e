---------------------------- MODULE MCLoginFlow ----------------------------
\* Model-checking instances of LoginFlow.
EXTENDS LoginFlow, TLC

Symmetry == Permutations(Tabs)
=============================================================================
