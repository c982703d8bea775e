---------------------------- MODULE LazyVerifier ----------------------------
(***************************************************************************)
(* oidc/oidc.go: LazyVerifier.ensure.  The first request discovers the     *)
(* provider; those that come meanwhile join its singleflight call, which   *)
(* is detached from every one of them.  A failure is given to those that   *)
(* waited and the next request tries again.  Only the call itself sets     *)
(* verifier, so all it does, up to the answers, is one step at its end.    *)
(* The module that extends this one says when ensure is called (ensure)    *)
(* and what follows when it returns (Returns).                             *)
(***************************************************************************)
EXTENDS Integers

CONSTANT Requests

VARIABLES verifier,    \* is LazyVerifier.verifier set?
          discovery,   \* is a call of LazyVerifier.discovery in progress?
          asking,      \* where each request is in ensure
          discovered   \* history: how often NewHTTPVerifier succeeded

lazyVars == <<verifier, discovery, asking, discovered>>

Asking == {"no", "miss", "wait", "ok", "err"}

LazyInit ==
    /\ verifier = FALSE /\ discovery = FALSE /\ discovered = 0
    /\ asking = [r \in Requests |-> "no"]

\* No verifier is cached.
ensure(r) ==
    /\ asking[r] = "no" /\ ~verifier
    /\ asking' = [asking EXCEPT ![r] = "miss"]
    /\ UNCHANGED <<verifier, discovery, discovered>>

DoChan(r) ==
    /\ asking[r] = "miss"
    /\ asking' = [asking EXCEPT ![r] = "wait"]
    /\ discovery' = TRUE
    /\ UNCHANGED <<verifier, discovered>>

\* ensure returns the verifier, cached or just discovered, or an error: that
\* of the discovery, or of a context that was done before or ended meanwhile.
Returns(r, ok) ==
    /\ \/ ok /\ (asking[r] = "ok" \/ (asking[r] = "no" /\ verifier))
       \/ ~ok /\ asking[r] # "miss"
    /\ asking' = [asking EXCEPT ![r] = "no"]
    /\ UNCHANGED <<verifier, discovery, discovered>>

\* The shared function looks again before it discovers.
Cached_Unchecked == FALSE

Cached == verifier

\* singleflight answers everyone who waits.
Answers(answer) ==
    asking' = [r \in Requests |-> IF asking[r] = "wait" THEN answer ELSE asking[r]]

Discover ==
    /\ discovery /\ discovery' = FALSE
    /\ \/ Cached /\ Answers("ok") /\ UNCHANGED <<verifier, discovered>>
       \/ ~Cached /\ Answers("ok") /\ verifier' = TRUE /\ discovered' = discovered + 1
       \/ ~Cached /\ Answers("err") /\ UNCHANGED <<verifier, discovered>>

LazyNext == (\E r \in Requests : DoChan(r)) \/ Discover

-----------------------------------------------------------------------------
(***************************************************************************)
(* "Once discovery succeeds the resolved HTTPVerifier is cached for the    *)
(* process lifetime" (Verify): however requests, their cancellations and   *)
(* failed discoveries interleave, discovery succeeds at most once, and a   *)
(* request is let through only with its result.                            *)
(***************************************************************************)
DiscoveredOnce ==
    discovered <= 1 /\ \A r \in Requests : asking[r] = "ok" => discovered = 1
=============================================================================
