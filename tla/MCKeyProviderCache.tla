------------------------- MODULE MCKeyProviderCache -------------------------
(* TLC instance of KeyProviderCache: interchangeable callers and keys.      *)
EXTENDS KeyProviderCache, TLC

Symmetry == Permutations(Callers) \cup Permutations(KeyIDs) \cup Permutations(Digests)
=============================================================================
