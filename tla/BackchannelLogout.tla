------------------------- MODULE BackchannelLogout -------------------------
(***************************************************************************)
(* oidc/backchannel_logout.go: the OP posts a signed logout token, again   *)
(* when it saw no success, and the handler puts the sessions it names on   *)
(* the deny list that Gate consults (Session).  Several requests run at    *)
(* once; logoutJTICache lets one of them work on a token at a time and     *)
(* refuses a token that was already acted on.                              *)
(*                                                                         *)
(* The revoker is the caller's: a deny list, durable and idempotent.  One  *)
(* user holds every session here.  Time passes between any two steps; the  *)
(* sweep that keeps the map small may or may not be due.                   *)
(***************************************************************************)
EXTENDS Session, LazyVerifier

CONSTANTS Tokens,  \* logout tokens, by their jti
          logoutTokenMaxAge, logoutTokenSkew  \* in ticks

ASSUME LogoutAssumption ==
    /\ logoutTokenMaxAge \in Nat /\ logoutTokenSkew \in Nat
    /\ NONE \notin [at : Nat, pending : BOOLEAN]

VARIABLES tokens,     \* the tokens the OP has issued: iat and sessions named
          requests,
          seen,       \* logoutJTICache.seen, NONE for no entry
          completed,  \* history: how many requests completed each token
          acked,      \* history: sessions whose logout was answered 200
          stalled     \* history: did time pass between the checks of a request?

logoutVars == <<tokens, requests, seen, completed, acked, stalled>>
vars == <<clock, revoked, sessionVars, logoutVars, lazyVars>>

\* user: the token carries sub and no sid.
Token == [iat : Int, user : BOOLEAN, sids : SUBSET Logins]
Entry == [at : Nat, pending : BOOLEAN]
Request == [pc : {"idle", "verify", "accept", "revoke", "onRevoked", "finish"},
            jti : Tokens \cup {NONE}, at : Nat, ok : BOOLEAN]
NoRequest == [pc |-> "idle", jti |-> NONE, at |-> 0, ok |-> FALSE]

Working(r) == requests[r].pc \in {"revoke", "onRevoked", "finish"}

\* Type invariant: in particular, the reservation of a token outlasts the
\* request that works on it, however long that takes.
TypeOK ==
    /\ clock \in Nat /\ cookie \in Session \cup {NONE}
    /\ replies \subseteq Session \cup {NONE} /\ revoked \subseteq Logins
    /\ started \subseteq Logins /\ missed \in BOOLEAN
    /\ loginAt \in [Logins -> Nat] /\ seenAt \in [Logins -> Nat]
    /\ tokens \in [Tokens -> Token \cup {NONE}]
    /\ requests \in [Requests -> Request]
    /\ seen \in [Tokens -> Entry \cup {NONE}]
    /\ completed \in [Tokens -> Nat] /\ acked \subseteq Logins
    /\ stalled \in BOOLEAN
    /\ verifier \in BOOLEAN /\ discovery \in BOOLEAN /\ asking \in [Requests -> Asking]
    /\ \A r \in Requests : Working(r) =>
        seen[requests[r].jti] # NONE /\ seen[requests[r].jti].pending

Init ==
    /\ SessionInit /\ LazyInit
    /\ tokens = [t \in Tokens |-> NONE]
    /\ requests = [r \in Requests |-> NoRequest]
    /\ seen = [t \in Tokens |-> NONE]
    /\ completed = [t \in Tokens |-> 0] /\ acked = {} /\ stalled = FALSE

-----------------------------------------------------------------------------
Step(r, q) == requests' = [requests EXCEPT ![r] = q]
Goto(r, pc) == Step(r, [requests[r] EXCEPT !.pc = pc])

\* The OP issues a token, its clock off by at most the skew: for one session,
\* whose login may still be on its way, or for the user.
Issue(t, drift) ==
    /\ tokens[t] = NONE
    /\ \/ \E s \in Logins :
            tokens' = [tokens EXCEPT ![t] = [iat |-> clock + drift, user |-> FALSE, sids |-> {s}]]
       \/ tokens' = [tokens EXCEPT ![t] = [iat |-> clock + drift, user |-> TRUE, sids |-> started]]
    /\ UNCHANGED <<clock, revoked, sessionVars, lazyVars, requests, seen, completed, acked, stalled>>

\* The OP posts a token, for the first time or again.
Post(r, t) ==
    /\ requests[r].pc = "idle" /\ tokens[t] # NONE
    /\ Step(r, [NoRequest EXCEPT !.pc = "verify", !.jti = t])
    /\ UNCHANGED <<clock, revoked, sessionVars, lazyVars, tokens, seen, completed, acked, stalled>>

\* VerifyLogoutToken
Fresh(iat) == ~(iat > clock + logoutTokenSkew) /\ ~(clock - iat > logoutTokenMaxAge)

\* ServeHTTP asks the LazyVerifier.  That the OP's keys are out of reach ends
\* the request like a failed discovery.
Ensure(r) ==
    /\ requests[r].pc = "verify" /\ ensure(r)
    /\ UNCHANGED <<clock, revoked, sessionVars, logoutVars>>

Verify(r, ok) ==
    /\ requests[r].pc = "verify" /\ Returns(r, ok)
    /\ Step(r, IF ok /\ Fresh(tokens[requests[r].jti].iat)
               THEN [requests[r] EXCEPT !.pc = "accept", !.at = clock]
               ELSE NoRequest)
    /\ UNCHANGED <<clock, revoked, sessionVars, tokens, seen, completed, acked, stalled>>

\* logoutJTICache.accept
window_MaxAge == logoutTokenMaxAge

window == logoutTokenMaxAge + logoutTokenSkew

Expired(e) == e.at < clock - window

Dup(e) == e # NONE /\ (e.pending \/ ~Expired(e))

Swept(e) == IF e # NONE /\ ~e.pending /\ Expired(e) THEN NONE ELSE e

Accept(r, sweep) ==
    LET jti == requests[r].jti
        kept == IF sweep THEN [t \in Tokens |-> Swept(seen[t])] ELSE seen
    IN
    /\ requests[r].pc = "accept"
    /\ stalled' = (stalled \/ clock # requests[r].at)
    /\ IF Dup(kept[jti])
       THEN seen' = kept /\ Step(r, NoRequest)
       ELSE /\ seen' = [kept EXCEPT ![jti] = [at |-> clock, pending |-> TRUE]]
            /\ Step(r, [requests[r] EXCEPT !.pc = "revoke", !.at = 0])
    /\ UNCHANGED <<clock, revoked, sessionVars, lazyVars, tokens, completed, acked>>

\* RevokeSession; RevokeUser, which does nothing when it knows no session.
Named(t) == IF tokens[t].user THEN started ELSE tokens[t].sids

Revoke(r) ==
    /\ requests[r].pc = "revoke"
    /\ revoked' = revoked \cup Named(requests[r].jti)
    /\ Goto(r, "onRevoked")
    /\ UNCHANGED <<clock, sessionVars, lazyVars, tokens, seen, completed, acked, stalled>>

OnRevoked(r) ==
    /\ requests[r].pc = "onRevoked"
    /\ Step(r, [requests[r] EXCEPT !.pc = "finish", !.ok = TRUE])
    /\ UNCHANGED <<clock, revoked, sessionVars, lazyVars, tokens, seen, completed, acked, stalled>>

Fail(r) ==
    /\ requests[r].pc \in {"revoke", "onRevoked"}
    /\ Goto(r, "finish")
    /\ UNCHANGED <<clock, revoked, sessionVars, lazyVars, tokens, seen, completed, acked, stalled>>

\* The deferred finish, and the answer.
Finished_Kept(e, ok) == [e EXCEPT !.pending = FALSE]

Finished(e, ok) == IF ok THEN [at |-> clock, pending |-> FALSE] ELSE NONE

finish(r) ==
    LET q == requests[r] IN
    /\ q.pc = "finish"
    /\ seen' = [seen EXCEPT ![q.jti] = Finished(seen[q.jti], q.ok)]
    /\ completed' = [completed EXCEPT ![q.jti] = IF q.ok THEN @ + 1 ELSE @]
    /\ acked' = IF q.ok THEN acked \cup tokens[q.jti].sids ELSE acked
    /\ Step(r, NoRequest)
    /\ UNCHANGED <<clock, revoked, sessionVars, lazyVars, tokens, stalled>>

Tick ==
    /\ clock < MaxClock
    /\ clock' = clock + 1
    /\ UNCHANGED <<revoked, sessionVars, lazyVars, logoutVars>>

Next ==
    \/ SessionNext /\ UNCHANGED <<logoutVars, lazyVars>>
    \/ LazyNext /\ UNCHANGED <<clock, revoked, sessionVars, logoutVars>>
    \/ \E t \in Tokens, drift \in (-logoutTokenSkew)..logoutTokenSkew : Issue(t, drift)
    \/ \E r \in Requests :
        \/ \E t \in Tokens : Post(r, t)
        \/ Ensure(r)
        \/ \E ok \in BOOLEAN : Verify(r, ok)
        \/ \E sweep \in BOOLEAN : Accept(r, sweep)
        \/ Revoke(r) \/ OnRevoked(r) \/ Fail(r) \/ finish(r)
    \/ Tick

Spec == Init /\ [][Next]_vars

-----------------------------------------------------------------------------
\* Once the OP has been told 200, Gate admits no request of a session the
\* token named: not with a copy of the cookie that a late reply brought back,
\* and not when the login itself completes after the notification.
RevokedStaysOut == [][\A s \in acked : seenAt'[s] = seenAt[s]]_vars

\* A token is acted on once: accept refuses it while another request works on
\* it and for as long afterwards as VerifyLogoutToken takes it, provided no
\* time passes between the two checks.
ActedOnce == ~stalled => \A t \in Tokens : completed[t] <= 1

\* "Failed requests release their replay reservation so an OP that retries can
\* try again" (ServeHTTP): a token that no request works on and that none
\* completed is not taken for a replay.
RetryPossible ==
    \A t \in Tokens :
        /\ completed[t] = 0
        /\ \A r \in Requests : ~(Working(r) /\ requests[r].jti = t)
        => ~Dup(seen[t])
=============================================================================
