----------------------------- MODULE ClientIP -----------------------------
(***************************************************************************)
(* clientip/clientip.go: the client a request is attributed to, from its   *)
(* TCP peer and its X-Forwarded-For hops, and the network the client       *)
(* counts for.  Addresses are canonical; Malformed stands for any hop that *)
(* is not an IP.                                                           *)
(***************************************************************************)
EXTENDS Integers, Sequences

CONSTANTS Clients,   \* addresses of clients
          Trusted,   \* addresses of the trusted proxies
          Malformed,
          NetOf      \* the /64 of an IPv6 client, an IPv4 client itself

ASSUME ClientAssumption ==
    Clients \cap Trusted = {} /\ Malformed \notin Clients \cup Trusted

isTrusted(ip) == ip \in Trusted

\* slices.Backward: the rightmost hop that is not trusted, 0 when all are.
RightmostUntrusted(hops) ==
    LET U == {i \in DOMAIN hops : ~isTrusted(hops[i])} IN
    IF U = {} THEN 0 ELSE CHOOSE i \in U : \A j \in U : j <= i

FromRequest(peer, hops) ==
    LET i == RightmostUntrusted(hops) IN
    IF ~isTrusted(peer) \/ i = 0 \/ hops[i] = Malformed THEN peer ELSE hops[i]

\* An address that is not a client's is its own network.
Network(ip) == IF ip \in Clients THEN NetOf[ip] ELSE ip

\* What arrives when a client sends the header value pre and the request
\* passes a route of proxies: each appends the address it got it from.
PeerOf(client, route) == IF route = <<>> THEN client ELSE route[Len(route)]
HopsOf(client, route, pre) ==
    IF route = <<>> THEN pre
    ELSE pre \o <<client>> \o SubSeq(route, 1, Len(route) - 1)
=============================================================================
