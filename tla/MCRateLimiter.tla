--------------------------- MODULE MCRateLimiter ---------------------------
\* Model-checking instance of RateLimiter: three networks, one of them of two
\* addresses, behind up to two proxies.
EXTENDS RateLimiter, TLC

CONSTANTS a1, a2, b1, c1, p1, p2, net

const_NetOf == (a1 :> net) @@ (a2 :> net) @@ (b1 :> b1) @@ (c1 :> c1)
const_Routes == {<<>>, <<p1>>, <<p1, p2>>}
const_Hops == Clients \cup Trusted \cup {Malformed}
const_Headers == {<<>>} \cup {<<x>> : x \in const_Hops} \cup const_Hops \X const_Hops
Symmetry == Permutations(Requests) \cup Permutations({b1, c1})
=============================================================================
