---------------------- MODULE BackchannelLogoutProofs ----------------------
(***************************************************************************)
(* Proofs about sessions, back-channel logout and the lazy verifier, for   *)
(* any number of sessions, tokens and requests, any timeouts, and replies  *)
(* that are reordered and lost in any way.                                 *)
(***************************************************************************)
EXTENDS BackchannelLogout, TLAPS

\* What is discovered stays, and is all that lets a request through.
LazyInv ==
    /\ verifier \in BOOLEAN /\ discovery \in BOOLEAN /\ asking \in [Requests -> Asking]
    /\ discovered = IF verifier THEN 1 ELSE 0
    /\ \A r \in Requests : asking[r] = "ok" => verifier

-----------------------------------------------------------------------------
\* The cap of a session is set at its login, and its expiry never passes it.
Cap(s) == loginAt[s] + SessionTTL
Fits(c) ==
    c = NONE \/ (c \in Session /\ c.sid \in started /\ c.abs = Cap(c.sid) /\ c.expiry <= c.abs)
CapInv ==
    /\ clock \in Nat /\ started \subseteq Logins /\ missed \in BOOLEAN
    /\ loginAt \in [Logins -> Nat] /\ seenAt \in [Logins -> Nat]
    /\ \A s \in Logins : loginAt[s] <= clock /\ seenAt[s] <= clock
    /\ Fits(cookie) /\ \A c \in replies : Fits(c)

\* While no extension is missed, the one copy under way, or else the one the
\* browser holds, is good for half of IdleTimeout after the last request.
Half == IdleTimeout \div 2
GoodFor(c) == c = NONE \/ c.expiry >= Earlier(seenAt[c.sid] + Half, Cap(c.sid))
IdleInv ==
    ~missed => /\ \A c, d \in replies : c = d
               /\ \A c \in replies : GoodFor(c)
               /\ replies = {} => GoodFor(cookie)

-----------------------------------------------------------------------------
\* A request that the handler works on has a token the OP issued.
RequestInv ==
    /\ clock \in Nat /\ revoked \subseteq Logins /\ started \subseteq Logins
    /\ tokens \in [Tokens -> Token \cup {NONE}] /\ requests \in [Requests -> Request]
    /\ seen \in [Tokens -> Entry \cup {NONE}] /\ completed \in [Tokens -> Nat]
    /\ acked \subseteq Logins /\ stalled \in BOOLEAN
    /\ \A t \in Tokens : tokens[t] # NONE /\ tokens[t].user => tokens[t].sids \subseteq started
    /\ \A r \in Requests : requests[r].pc # "idle" =>
        requests[r].jti \in Tokens /\ tokens[requests[r].jti] # NONE

\* An entry that is pending has one request at work on it, and only that; any
\* other entry is of a token that was completed.
WorksOn(r, t) == Working(r) /\ requests[r].jti = t
SeenInv ==
    \A t \in Tokens :
        /\ \A r \in Requests : WorksOn(r, t) => seen[t] # NONE /\ seen[t].pending
        /\ \A r, q \in Requests : WorksOn(r, t) /\ WorksOn(q, t) => r = q
        /\ seen[t] # NONE /\ seen[t].pending => \E r \in Requests : WorksOn(r, t)
        /\ seen[t] # NONE /\ ~seen[t].pending => completed[t] # 0

\* What is acknowledged has been revoked.
AckedInv ==
    /\ acked \subseteq revoked
    /\ \A r \in Requests :
        /\ requests[r].ok => requests[r].pc = "finish"
        /\ requests[r].ok \/ requests[r].pc = "onRevoked" =>
            tokens[requests[r].jti].sids \subseteq revoked

\* A token that was completed is remembered for as long as it is accepted.
TooOld(t) == clock - tokens[t].iat > logoutTokenMaxAge
OnceInv ==
    ~stalled =>
        /\ \A r \in Requests :
            /\ requests[r].pc = "accept" =>
                /\ requests[r].at <= clock
                /\ requests[r].at - tokens[requests[r].jti].iat <= logoutTokenMaxAge
                /\ tokens[requests[r].jti].iat <= requests[r].at + logoutTokenSkew
            /\ Working(r) => /\ completed[requests[r].jti] = 0
                             /\ tokens[requests[r].jti].iat <= clock + logoutTokenSkew
        /\ \A t \in Tokens : completed[t] # 0 =>
            /\ completed[t] = 1
            /\ tokens[t] # NONE
            /\ \/ TooOld(t)
               \/ /\ seen[t] # NONE /\ ~seen[t].pending /\ seen[t].at <= clock
                  /\ tokens[t].iat <= seen[t].at + logoutTokenSkew

LogoutInv == RequestInv /\ SeenInv /\ AckedInv /\ OnceInv
IndInv == LazyInv /\ CapInv /\ IdleInv /\ LogoutInv

-----------------------------------------------------------------------------
\* Discovery.
LEMMA LazyHolds ==
    /\ Init => LazyInv
    /\ LazyInv /\ [Next]_vars => LazyInv'
  <1>1. Init => LazyInv
    BY Zenon DEF Init, LazyInit, LazyInv, Asking
  <1>2. ASSUME LazyInv, [Next]_vars PROVE LazyInv'
    <2>1. CASE LazyNext
      <3>1. ASSUME NEW r \in Requests, DoChan(r) PROVE LazyInv'
        BY <1>2, <3>1 DEF DoChan, LazyInv, Asking
      <3>2. CASE Discover
        <4>1. PICK answer \in {"ok", "err"} : Answers(answer) /\ (answer = "ok" => verifier')
          BY <3>2 DEF Discover, Cached
        <4>2. /\ verifier' \in BOOLEAN /\ discovery' \in BOOLEAN /\ (verifier => verifier')
              /\ discovered' = IF verifier' THEN 1 ELSE 0
          <5>1. CASE UNCHANGED <<verifier, discovered>>
            BY Zenon, <1>2, <3>2, <5>1 DEF Discover, LazyInv
          <5>2. CASE ~verifier /\ verifier' = TRUE /\ discovered' = discovered + 1
            <6>1. discovered = 0
              BY <1>2, <5>2 DEF LazyInv
            <6>2. discovered' = 1
              BY <5>2, <6>1
            <6>3. QED
              BY Zenon, <3>2, <5>2, <6>2 DEF Discover
          <5>3. QED
            BY Zenon, <3>2, <5>1, <5>2 DEF Discover, Cached
        <4>3. asking' \in [Requests -> Asking] /\ \A r \in Requests : asking'[r] = "ok" => verifier'
          BY <1>2, <4>1, <4>2 DEF Answers, LazyInv, Asking
        <4>4. QED
          BY <4>2, <4>3 DEF LazyInv
      <3>3. QED
        BY <2>1, <3>1, <3>2 DEF LazyNext
    <2>2. ASSUME NEW r \in Requests, Ensure(r) PROVE LazyInv'
      BY <1>2, <2>2 DEF Ensure, ensure, LazyInv, Asking
    <2>3. ASSUME NEW r \in Requests, NEW ok \in BOOLEAN, Verify(r, ok) PROVE LazyInv'
      BY <1>2, <2>3 DEF Verify, Returns, LazyInv, Asking
    <2>4. CASE UNCHANGED <<verifier, discovery, asking, discovered>>
      BY <1>2, <2>4 DEF LazyInv
    <2>5. QED
      BY Zenon, <1>2, <2>1, <2>2, <2>3, <2>4
      DEF Next, vars, lazyVars, Issue, Post, Accept, Revoke, OnRevoked, Fail, finish, Tick
  <1>3. QED
    BY <1>1, <1>2

-----------------------------------------------------------------------------
\* The session.
LEMMA HalfFits == Half \in Nat /\ Half <= IdleTimeout
  BY SessionAssumption DEF Half

\* A copy that Gate leaves, extended or not, is good for Half from now.
LEMMA ExtendKeeps ==
    ASSUME CapInv, NEW c, c # NONE, Fits(c), Live(c)
    PROVE  /\ maybeExtendIdle(c) \in Session
           /\ maybeExtendIdle(c).sid = c.sid /\ maybeExtendIdle(c).abs = c.abs
           /\ maybeExtendIdle(c).expiry <= c.abs
           /\ maybeExtendIdle(c).expiry >= Earlier(clock + Half, c.abs)
  <1>1. /\ c \in Session /\ c.expiry \in Int /\ c.abs \in Int /\ c.expiry <= c.abs
        /\ clock \in Nat /\ clock <= c.expiry /\ IdleTimeout \in Nat
    BY SessionAssumption DEF CapInv, Fits, Live, Session
  <1> DEFINE e == Earlier(clock + IdleTimeout, c.abs)
             n == [c EXCEPT !.expiry = e]
  <1>2. e \in Int /\ e <= c.abs /\ e >= Earlier(clock + Half, c.abs)
    BY <1>1, HalfFits DEF Earlier
  <1>3. Extended(c) = n
    <2>1. c.abs # 0
      BY SessionAssumption DEF CapInv, Fits, Cap, Session
    <2>2. QED
      BY <1>1, <2>1 DEF Extended, Earlier
  <1> HIDE DEF e
  <1>4. n \in Session /\ n.sid = c.sid /\ n.abs = c.abs /\ n.expiry = e
    BY <1>1, <1>2 DEF Session
  <1> HIDE DEF n
  <1>5. CASE IdleTimeout <= 0 \/ c.expiry - clock > Half \/ ~(e > c.expiry)
    <2>1. maybeExtendIdle(c) = c
      BY <1>3, <1>4, <1>5 DEF maybeExtendIdle, Half
    <2>2. c.expiry >= Earlier(clock + Half, c.abs)
      BY <1>1, <1>2, <1>5, HalfFits DEF Earlier
    <2>3. QED
      BY <1>1, <2>1, <2>2
  <1>6. CASE ~(IdleTimeout <= 0 \/ c.expiry - clock > Half \/ ~(e > c.expiry))
    <2>1. maybeExtendIdle(c) = n
      BY <1>3, <1>4, <1>6 DEF maybeExtendIdle, Half
    <2>2. QED
      BY <1>2, <1>4, <2>1
  <1>7. QED
    BY <1>5, <1>6

\* A copy of the browser's session, extended or not, is under way.
LEMMA CopyKeeps ==
    ASSUME CapInv, IdleInv, Admit, NEW n \in Session, n.sid = cookie.sid, n.abs = cookie.abs,
           n.expiry <= n.abs,
           missed' \in BOOLEAN, missed \/ replies # {} => missed',
           \/ replies' = replies \cup {n}
           \/ replies' = replies /\ (n = cookie \/ missed'),
           missed' \/ n.expiry >= Earlier(clock + Half, n.abs)
    PROVE  CapInv' /\ IdleInv'
  <1>1. /\ cookie # NONE /\ cookie \in Session /\ cookie.sid \in started
        /\ cookie.abs = Cap(cookie.sid) /\ cookie.sid \in Logins
    BY DEF Admit, Admitted, Live, CapInv, Fits
  <1>2. /\ UNCHANGED <<clock, cookie, started, loginAt>>
        /\ seenAt' = [seenAt EXCEPT ![cookie.sid] = clock]
    BY DEF Admit
  <1>3. \A c : Fits(c) => Fits(c)'
    BY <1>2 DEF Fits, Cap
  <1>4. Fits(n)'
    BY <1>1, <1>2 DEF Fits, Cap
  <1>5. CapInv'
    <2>1. \A c \in replies' : Fits(c)'
      BY <1>3, <1>4 DEF CapInv
    <2>2. Fits(cookie)'
      BY <1>2, <1>3 DEF CapInv, Fits, Cap
    <2>3. seenAt' \in [Logins -> Nat] /\ \A s \in Logins : seenAt'[s] <= clock'
      BY <1>1, <1>2 DEF CapInv
    <2>4. QED
      BY <1>2, <2>1, <2>2, <2>3 DEF CapInv
  <1>6. IdleInv'
    <2> SUFFICES ASSUME ~missed'
                 PROVE  /\ \A c, d \in replies' : c = d
                        /\ \A c \in replies' : GoodFor(c)'
                        /\ replies' = {} => GoodFor(cookie)'
      BY DEF IdleInv
    <2>1. replies = {} /\ ~missed
      OBVIOUS
    <2>2. GoodFor(n)'
      BY <1>1, <1>2 DEF GoodFor, Cap, CapInv
    <2>3. QED
      BY <1>2, <2>1, <2>2 DEF GoodFor, Cap
  <1>7. QED
    BY <1>5, <1>6

LEMMA GateKeeps ==
    ASSUME CapInv, IdleInv, (\E sealed \in BOOLEAN : Gate(sealed)) \/ UpdateSession
    PROVE  CapInv' /\ IdleInv'
  <1>1. Admit /\ cookie # NONE /\ Live(cookie) /\ Fits(cookie) /\ cookie \in Session
    BY DEF Gate, UpdateSession, Admit, Admitted, Live, CapInv, Fits
  <1> DEFINE n == maybeExtendIdle(cookie)
  <1>2. /\ n \in Session /\ n.sid = cookie.sid /\ n.abs = cookie.abs /\ n.expiry <= n.abs
        /\ n.expiry >= Earlier(clock + Half, n.abs)
    BY <1>1, ExtendKeeps
  <1>3. missed \in BOOLEAN /\ cookie.expiry <= cookie.abs
    BY <1>1 DEF CapInv, Fits
  <1>4. ASSUME NEW sealed \in BOOLEAN, Gate(sealed) PROVE CapInv' /\ IdleInv'
    <2>1. \/ replies' = replies \cup {n} /\ missed' = (missed \/ replies # {})
          \/ replies' = replies /\ missed' = (missed \/ replies # {} \/ n # cookie)
      BY <1>4 DEF Gate, Reply
    <2> HIDE DEF n
    <2>2. missed' \in BOOLEAN /\ (missed \/ replies # {} => missed')
      BY Zenon, <1>3, <2>1
    <2>3. QED
      BY <1>1, <1>2, <2>1, <2>2, CopyKeeps
  <1>5. CASE UpdateSession
    <2>1. replies' = replies \cup {cookie} /\ missed' = (missed \/ replies # {} \/ n # cookie)
      BY <1>5 DEF UpdateSession
    <2> HIDE DEF n
    <2>2. missed' \in BOOLEAN /\ (missed \/ replies # {} => missed') /\ (missed' \/ n = cookie)
      BY Zenon, <1>3, <2>1
    <2>3. QED
      BY <1>1, <1>2, <1>3, <2>1, <2>2, CopyKeeps
  <1>6. QED
    BY <1>4, <1>5

LEMMA LoginKeeps ==
    ASSUME CapInv, IdleInv, NEW s \in Logins, Login(s)
    PROVE  CapInv' /\ IdleInv'
  <1> DEFINE x == clock + SessionTTL
             e == IF IdleTimeout > 0 /\ IdleTimeout < SessionTTL THEN clock + IdleTimeout ELSE x
             m == [sid |-> s, abs |-> x, expiry |-> e]
  <1>1. /\ NewSession(s) = m /\ s \notin started /\ started' = started \cup {s}
        /\ loginAt' = [loginAt EXCEPT ![s] = clock]
        /\ replies' = replies \cup {m} /\ missed' = (missed \/ replies # {})
        /\ UNCHANGED <<clock, cookie, seenAt>>
    BY DEF Login, Reply, NewSession
  <1>2. /\ x \in Int /\ e \in Int /\ e <= x /\ clock \in Nat /\ SessionTTL \in Nat
        /\ \A t \in Nat : t <= clock => e >= Earlier(t + Half, x)
    BY SessionAssumption, HalfFits DEF CapInv, Earlier
  <1>3. loginAt' \in [Logins -> Nat] /\ loginAt'[s] = clock
        /\ \A t \in Logins : t # s => loginAt'[t] = loginAt[t]
    BY <1>1, <1>2 DEF CapInv
  <1>4. x = loginAt'[s] + SessionTTL
    BY <1>3
  <1>5. PICK n \in Session : /\ n.sid = s /\ n.abs = loginAt'[s] + SessionTTL
                             /\ n.expiry <= n.abs /\ replies' = replies \cup {n}
                             /\ \A t \in Nat : t <= clock => n.expiry >= Earlier(t + Half, n.abs)
    <2> HIDE DEF x, e
    <2>1. m \in Session /\ m.sid = s /\ m.abs = x /\ m.expiry = e
      BY <1>2 DEF Session
    <2> HIDE DEF m
    <2>2. QED
      BY <1>1, <1>2, <1>4, <2>1
  <1> HIDE DEF x, e, m
  <1>6. ASSUME NEW c, Fits(c) PROVE Fits(c)' /\ (GoodFor(c) => GoodFor(c)')
    <2>1. CASE c = NONE
      BY <2>1 DEF Fits, GoodFor
    <2>2. CASE c # NONE
      <3>1. c.sid \in Logins /\ c.sid # s
        BY <1>1, <1>6, <2>2 DEF Fits, Session
      <3>2. QED
        BY <1>1, <1>3, <1>6, <2>2, <3>1 DEF Fits, GoodFor, Cap
    <2>3. QED
      BY <2>1, <2>2
  <1>7. Fits(n)'
    BY <1>1, <1>5 DEF Fits, Cap
  <1>8. CapInv'
    <2>1. (\A c \in replies' : Fits(c)') /\ Fits(cookie)'
      <3>1. ASSUME NEW c \in replies' PROVE Fits(c)'
        <4>1. CASE c \in replies
          BY <1>6, <4>1 DEF CapInv
        <4>2. CASE c = n
          BY <1>7, <4>2
        <4>3. QED
          BY <1>5, <4>1, <4>2
      <3>2. PICK c : c = cookie /\ Fits(c)
        BY DEF CapInv
      <3>3. Fits(c)' /\ cookie' = c
        BY <1>1, <1>6, <3>2
      <3>4. Fits(cookie)'
        BY <3>3 DEF Fits
      <3>5. QED
        BY <3>1, <3>4
    <2>2. \A t \in Logins : loginAt'[t] <= clock
      BY <1>2, <1>3 DEF CapInv
    <2>3. missed' \in BOOLEAN /\ started' \subseteq Logins
      BY <1>1 DEF CapInv
    <2>4. QED
      BY <1>1, <1>3, <2>1, <2>2, <2>3 DEF CapInv
  <1>9. IdleInv'
    <2>1. ASSUME ~missed'
          PROVE  (\A c, d \in replies' : c = d) /\ replies' # {} /\ \A c \in replies' : GoodFor(c)'
      <3>1. replies' = {n}
        BY Zenon, <1>1, <1>5, <2>1
      <3>2. seenAt'[s] \in Nat /\ seenAt'[s] <= clock
        BY <1>1 DEF CapInv
      <3>3. GoodFor(n)'
        BY <1>5, <3>2 DEF GoodFor, Cap
      <3>4. QED
        BY <3>1, <3>3
    <2>2. QED
      BY <2>1 DEF IdleInv
  <1>10. QED
    BY <1>8, <1>9

LEMMA SessionStep == CapInv /\ IdleInv /\ [Next]_vars => CapInv' /\ IdleInv'
  <1> SUFFICES ASSUME CapInv, IdleInv, [Next]_vars PROVE CapInv' /\ IdleInv'
    OBVIOUS
  <1>1. ASSUME UNCHANGED <<started, loginAt, seenAt>>, clock' \in Nat, clock <= clock',
               missed' \in BOOLEAN, missed => missed',
               Fits(cookie'), \A c \in replies' : Fits(c),
               missed' \/ ( /\ \A c, d \in replies' : c = d
                            /\ \A c \in replies' : GoodFor(c)
                            /\ replies' = {} => GoodFor(cookie'))
        PROVE  CapInv' /\ IdleInv'
    <2>1. \A s \in Logins : loginAt'[s] <= clock' /\ seenAt'[s] <= clock'
      BY <1>1 DEF CapInv
    <2>2. \A c : (Fits(c) => Fits(c)') /\ (GoodFor(c) => GoodFor(c)')
      BY <1>1 DEF Fits, GoodFor, Cap
    <2>3. Fits(cookie)' /\ \A c \in replies' : Fits(c)'
      BY <1>1 DEF Fits, Cap
    <2>4. IdleInv'
      BY <1>1 DEF IdleInv, GoodFor, Cap
    <2>5. QED
      BY <1>1, <2>1, <2>3, <2>4 DEF CapInv
  <1>2. ASSUME NEW c \in replies, Land(c) PROVE CapInv' /\ IdleInv'
    <2>1. /\ cookie' = c /\ replies' = replies \ {c} /\ Fits(c)
          /\ UNCHANGED <<clock, started, loginAt, seenAt, missed>>
      BY <1>2 DEF Land, sessionHistory, CapInv
    <2>2. QED
      BY <1>1, <2>1 DEF CapInv, IdleInv
  <1>3. ASSUME NEW c \in replies, Lose(c) PROVE CapInv' /\ IdleInv'
    BY <1>1, <1>3 DEF Lose, CapInv
  <1>4. CASE GateRevoked \/ Logout
    <2>1. /\ replies' = replies \cup {NONE} /\ missed' = (missed \/ replies # {})
          /\ UNCHANGED <<clock, cookie, started, loginAt, seenAt>>
      BY <1>4 DEF GateRevoked, Logout, Reply
    <2>2. Fits(NONE) /\ GoodFor(NONE)
      BY DEF Fits, GoodFor
    <2>3. missed' \in BOOLEAN /\ (missed => missed') /\ (replies # {} => missed')
      BY Zenon, <2>1 DEF CapInv
    <2>4. (\A c \in replies' : Fits(c)) /\ Fits(cookie')
      BY <2>1, <2>2 DEF CapInv
    <2>5. ~missed' => replies' = {NONE}
      BY <2>1, <2>3
    <2>6. clock \in Nat
      BY DEF CapInv
    <2>7. QED
      BY <1>1, <2>1, <2>2, <2>3, <2>4, <2>5, <2>6
  <1>5. CASE SessionNext
    BY <1>2, <1>3, <1>4, <1>5, GateKeeps, LoginKeeps DEF SessionNext
  <1>6. CASE clock' \in Nat /\ clock <= clock' /\ UNCHANGED sessionVars
    BY <1>1, <1>6 DEF sessionVars, sessionHistory, CapInv, IdleInv
  <1>7. clock \in Nat /\ (Tick => clock' \in Nat /\ clock <= clock')
    BY DEF CapInv, Tick
  <1>8. ASSUME NEW r \in Requests, (\E t \in Tokens : Post(r, t)) \/ Ensure(r) \/ Revoke(r)
                                    \/ OnRevoked(r) \/ Fail(r)
        PROVE  UNCHANGED <<clock, sessionVars>>
    BY Zenon, <1>8 DEF Post, Ensure, Revoke, OnRevoked, Fail
  <1>9. ASSUME NEW r \in Requests, NEW b \in BOOLEAN, Verify(r, b) \/ Accept(r, b) \/ finish(r)
        PROVE  UNCHANGED <<clock, sessionVars>>
    <2>1. Verify(r, b) => UNCHANGED <<clock, sessionVars>>
      BY DEF Verify
    <2>2. Accept(r, b) => UNCHANGED <<clock, sessionVars>>
      BY DEF Accept
    <2>3. finish(r) => UNCHANGED <<clock, sessionVars>>
      BY DEF finish
    <2>4. QED
      BY <1>9, <2>1, <2>2, <2>3
  <1>10. ASSUME NEW t \in Tokens, NEW d, Issue(t, d) PROVE UNCHANGED <<clock, sessionVars>>
    BY <1>10 DEF Issue
  <1>11. UNCHANGED vars => UNCHANGED <<clock, sessionVars>>
    BY DEF vars
  <1>12. Tick => UNCHANGED sessionVars
    BY DEF Tick
  <1>13. UNCHANGED clock => clock' \in Nat /\ clock <= clock'
    BY <1>7
  <1>14. QED
    BY Zenon, <1>5, <1>6, <1>7, <1>8, <1>9, <1>10, <1>11, <1>12, <1>13 DEF Next

-----------------------------------------------------------------------------
\* Back-channel logout.
LEMMA NoRequestFits == NoRequest \in Request /\ NoRequest.pc = "idle" /\ NoRequest.ok = FALSE
  BY DEF NoRequest, Request

\* What a step of one request does to all of them.
LEMMA OneSteps ==
    ASSUME RequestInv, NEW r \in Requests, NEW q \in Request, Step(r, q)
    PROVE  /\ requests' \in [Requests -> Request]
           /\ requests'[r] = q
           /\ \A p \in Requests : p # r => requests'[p] = requests[p]
  BY DEF RequestInv, Step

\* Steps that leave the handler alone: time passes, and logins complete.
LEMMA RestKeeps ==
    ASSUME LogoutInv, UNCHANGED logoutVars, UNCHANGED revoked, clock' \in Nat, clock <= clock',
           started \subseteq started', started' \subseteq Logins
    PROVE  LogoutInv'
  <1>1. UNCHANGED <<tokens, requests, seen, completed, acked, stalled>>
    BY DEF logoutVars
  <1>2. RequestInv /\ SeenInv /\ AckedInv /\ OnceInv /\ clock \in Nat
    BY Zenon DEF LogoutInv, RequestInv
  <1>3. RequestInv'
    BY <1>1, <1>2, Zenon DEF RequestInv
  <1>4. SeenInv' /\ AckedInv'
    BY <1>1, <1>2 DEF SeenInv, WorksOn, Working, AckedInv
  <1>5. OnceInv'
    <2> SUFFICES ASSUME ~stalled PROVE OnceInv'
      BY <1>1, Zenon DEF OnceInv
    <2>1. ASSUME NEW t \in Tokens, tokens[t] # NONE
          PROVE  /\ tokens[t].iat \in Int
                 /\ TooOld(t) => TooOld(t)'
                 /\ tokens[t].iat <= clock + logoutTokenSkew =>
                        tokens[t].iat <= clock' + logoutTokenSkew
      BY <1>1, <1>2, <2>1, LogoutAssumption DEF RequestInv, Token, TooOld
    <2>2. ASSUME NEW r \in Requests
          PROVE  /\ requests[r].pc = "accept" =>
                    /\ requests[r].at <= clock'
                    /\ requests[r].at - tokens[requests[r].jti].iat <= logoutTokenMaxAge
                    /\ tokens[requests[r].jti].iat <= requests[r].at + logoutTokenSkew
                 /\ Working(r) =>
                    /\ completed[requests[r].jti] = 0
                    /\ tokens[requests[r].jti].iat <= clock' + logoutTokenSkew
      <3>1. requests[r] \in Request /\ requests[r].at \in Nat
        BY <1>2 DEF RequestInv, Request
      <3>2. requests[r].pc # "idle" => requests[r].jti \in Tokens /\ tokens[requests[r].jti] # NONE
        BY <1>2, Zenon DEF RequestInv
      <3>3. QED
        BY <1>2, <2>1, <3>1, <3>2 DEF OnceInv, Working
    <2>3. ASSUME NEW t \in Tokens, completed[t] # 0
          PROVE  /\ completed[t] = 1 /\ tokens[t] # NONE
                 /\ \/ TooOld(t)'
                    \/ /\ seen[t] # NONE /\ ~seen[t].pending /\ seen[t].at <= clock'
                       /\ tokens[t].iat <= seen[t].at + logoutTokenSkew
      <3>1. seen[t] # NONE => seen[t].at \in Nat
        BY <1>2, Zenon DEF RequestInv, Entry
      <3>2. QED
        BY <1>2, <2>1, <2>3, <3>1 DEF OnceInv
    <2>4. QED
      BY <1>1, <2>2, <2>3, Zenon DEF OnceInv, Working, TooOld
  <1>6. QED
    BY <1>3, <1>4, <1>5 DEF LogoutInv

\* A request that works on no token goes where it works on none.
LEMMA MoveKeeps ==
    ASSUME LogoutInv, NEW r \in Requests, NEW q \in Request, Step(r, q),
           q.pc \in {"idle", "verify", "accept"}, ~Working(r), ~q.ok,
           q.pc # "idle" => q.jti \in Tokens /\ tokens[q.jti] # NONE,
           q.pc = "accept" => /\ q.at <= clock
                              /\ q.at - tokens[q.jti].iat <= logoutTokenMaxAge
                              /\ tokens[q.jti].iat <= q.at + logoutTokenSkew,
           UNCHANGED <<clock, revoked, started, tokens, seen, completed, acked, stalled>>
    PROVE  LogoutInv'
  <1>1. RequestInv /\ SeenInv /\ AckedInv /\ OnceInv
    BY Zenon DEF LogoutInv
  <1>2. /\ requests' \in [Requests -> Request] /\ requests'[r] = q
        /\ \A p \in Requests : p # r => requests'[p] = requests[p]
    BY <1>1, OneSteps, Zenon
  <1>3. RequestInv'
    BY <1>1, <1>2, Zenon DEF RequestInv
  <1>4. \A p \in Requests : /\ Working(p)' <=> Working(p)
                            /\ \A t \in Tokens : WorksOn(p, t)' <=> WorksOn(p, t)
    BY <1>2, Zenon DEF WorksOn, Working
  <1>5. SeenInv'
    BY <1>1, <1>4, Zenon DEF SeenInv
  <1>6. AckedInv'
    BY <1>1, <1>2, Zenon DEF AckedInv
  <1>7. OnceInv'
    BY <1>1, <1>2, <1>4 DEF OnceInv, TooOld, Working
  <1>8. QED
    BY <1>3, <1>5, <1>6, <1>7, Zenon DEF LogoutInv

\* A request at work stays at work on the same token.
LEMMA WorkKeeps ==
    ASSUME LogoutInv, NEW r \in Requests, NEW q \in Request, Step(r, q), Working(r),
           q.pc \in {"revoke", "onRevoked", "finish"}, q.jti = requests[r].jti,
           q.ok => q.pc = "finish",
           q.ok \/ q.pc = "onRevoked" => tokens[q.jti].sids \subseteq revoked',
           revoked \subseteq revoked', revoked' \subseteq Logins,
           UNCHANGED <<clock, started, tokens, seen, completed, acked, stalled>>
    PROVE  LogoutInv'
  <1>1. RequestInv /\ SeenInv /\ AckedInv /\ OnceInv
    BY Zenon DEF LogoutInv
  <1>2. /\ requests' \in [Requests -> Request] /\ requests'[r] = q
        /\ \A p \in Requests : p # r => requests'[p] = requests[p]
    BY Zenon, <1>1, OneSteps
  <1>3. RequestInv'
    BY <1>1, <1>2 DEF RequestInv, Working
  <1>4. \A p \in Requests : /\ Working(p)' <=> Working(p)
                            /\ \A t \in Tokens : WorksOn(p, t)' <=> WorksOn(p, t)
    BY <1>2, Zenon DEF WorksOn, Working
  <1>5. SeenInv'
    BY <1>1, <1>4, Zenon DEF SeenInv
  <1>6. AckedInv'
    BY <1>1, <1>2, Zenon DEF AckedInv
  <1>7. OnceInv'
    BY SMTT(30), <1>1, <1>2, <1>4 DEF OnceInv, TooOld, Working
  <1>8. QED
    BY Zenon, <1>3, <1>5, <1>6, <1>7 DEF LogoutInv

LEMMA IssueKeeps ==
    ASSUME LogoutInv, NEW t \in Tokens, NEW d \in Int, Issue(t, d)
    PROVE  LogoutInv'
  <1>1. RequestInv /\ SeenInv /\ AckedInv /\ OnceInv /\ clock \in Nat
    BY DEF LogoutInv, RequestInv
  <1>2. /\ tokens[t] = NONE
        /\ UNCHANGED <<clock, revoked, started, requests, seen, completed, acked, stalled>>
    BY DEF Issue, sessionVars
  <1>3. PICK n \in Token : /\ tokens' = [tokens EXCEPT ![t] = n]
                           /\ n.user => n.sids \subseteq started
    <2>1. ASSUME NEW s \in Logins
          PROVE  [iat |-> clock + d, user |-> FALSE, sids |-> {s}] \in Token
      BY <1>1 DEF Token
    <2>2. [iat |-> clock + d, user |-> TRUE, sids |-> started] \in Token
      BY <1>1 DEF Token, RequestInv
    <2>3. QED
      BY Zenon, <2>1, <2>2 DEF Issue
  <1>4. /\ tokens' \in [Tokens -> Token \cup {NONE}] /\ tokens'[t] = n
        /\ \A u \in Tokens : u # t => tokens'[u] = tokens[u]
    BY <1>1, <1>3, Zenon DEF RequestInv
  <1>5. \A r \in Requests : requests[r].pc # "idle" =>
            requests[r].jti \in Tokens /\ requests[r].jti # t
    BY <1>1, <1>2, Zenon DEF RequestInv
  <1>6. RequestInv'
    BY <1>1, <1>2, <1>3, <1>4, <1>5 DEF RequestInv
  <1>7. SeenInv'
    BY <1>1, <1>2 DEF SeenInv, WorksOn, Working
  <1>8. AckedInv'
    BY <1>1, <1>2, <1>4, <1>5, Zenon DEF AckedInv
  <1>9. OnceInv'
    <2>1. stalled \/ completed[t] = 0
      BY <1>1, <1>2, Zenon DEF OnceInv
    <2>2. QED
      BY <1>1, <1>2, <1>4, <1>5, <2>1, Zenon DEF OnceInv, TooOld, Working
  <1>10. QED
    BY <1>6, <1>7, <1>8, <1>9, Zenon DEF LogoutInv

LEMMA PostKeeps ==
    ASSUME LogoutInv, NEW r \in Requests, NEW t \in Tokens, Post(r, t)
    PROVE  LogoutInv'
  <1> DEFINE q == [NoRequest EXCEPT !.pc = "verify", !.jti = t]
  <1>1. q \in Request /\ q.pc = "verify" /\ q.jti = t /\ q.ok = FALSE
    BY Zenon DEF NoRequest, Request
  <1>2. /\ Step(r, q) /\ requests[r].pc = "idle" /\ tokens[t] # NONE
        /\ UNCHANGED <<clock, revoked, started, tokens, seen, completed, acked, stalled>>
    BY Zenon DEF Post, sessionVars
  <1> HIDE DEF q
  <1>3. QED
    BY <1>1, <1>2, MoveKeeps DEF Working

LEMMA VerifyKeeps ==
    ASSUME LogoutInv, NEW r \in Requests, NEW ok \in BOOLEAN, Verify(r, ok)
    PROVE  LogoutInv'
  <1>1. /\ requests[r] \in Request /\ requests[r].pc = "verify" /\ ~Working(r) /\ clock \in Nat
        /\ requests[r].jti \in Tokens /\ tokens[requests[r].jti] # NONE /\ ~requests[r].ok
        /\ UNCHANGED <<clock, revoked, started, tokens, seen, completed, acked, stalled>>
    BY DEF Verify, sessionVars, LogoutInv, RequestInv, AckedInv, Working
  <1>2. CASE ok /\ Fresh(tokens[requests[r].jti].iat)
    <2> DEFINE q == [requests[r] EXCEPT !.pc = "accept", !.at = clock]
    <2>1. q \in Request /\ q.pc = "accept" /\ q.at = clock /\ q.jti = requests[r].jti
          /\ q.ok = requests[r].ok
      BY Zenon, <1>1 DEF Request
    <2>2. Step(r, q)
      BY <1>2 DEF Verify
    <2>3. tokens[requests[r].jti].iat \in Int
      BY <1>1 DEF LogoutInv, RequestInv, Token
    <2>4. /\ clock - tokens[requests[r].jti].iat <= logoutTokenMaxAge
          /\ tokens[requests[r].jti].iat <= clock + logoutTokenSkew
      BY <1>1, <1>2, <2>3, LogoutAssumption DEF Fresh
    <2> HIDE DEF q
    <2>5. q.at <= clock
      BY <1>1, <2>1
    <2>6. /\ ~q.ok /\ q.jti \in Tokens /\ tokens[q.jti] # NONE
          /\ q.at - tokens[q.jti].iat <= logoutTokenMaxAge
          /\ tokens[q.jti].iat <= q.at + logoutTokenSkew
      BY Zenon, <1>1, <2>1, <2>4
    <2>7. QED
      BY Zenon, <1>1, <2>1, <2>2, <2>5, <2>6, MoveKeeps
  <1>3. CASE ~(ok /\ Fresh(tokens[requests[r].jti].iat))
    <2>1. Step(r, NoRequest)
      BY <1>3 DEF Verify
    <2>2. QED
      BY <1>1, <2>1, NoRequestFits, MoveKeeps
  <1>4. QED
    BY <1>2, <1>3

LEMMA RevokeKeeps ==
    ASSUME LogoutInv, NEW r \in Requests, Revoke(r) \/ OnRevoked(r) \/ Fail(r)
    PROVE  LogoutInv'
  <1> DEFINE j == requests[r].jti
  <1>1. /\ requests[r] \in Request /\ Working(r) /\ requests[r].pc # "finish" /\ ~requests[r].ok
        /\ j \in Tokens /\ tokens[j] # NONE /\ tokens[j] \in Token
        /\ requests[r].pc = "onRevoked" => tokens[j].sids \subseteq revoked
        /\ UNCHANGED <<clock, started, tokens, seen, completed, acked, stalled>>
    BY Zenon DEF Revoke, OnRevoked, Fail, sessionVars, LogoutInv, RequestInv, AckedInv, Working
  <1>2. CASE Revoke(r)
    <2> DEFINE q == [requests[r] EXCEPT !.pc = "onRevoked"]
    <2>1. q \in Request /\ q.pc = "onRevoked" /\ q.jti = j /\ q.ok = requests[r].ok
      BY <1>1 DEF Request
    <2>2. Step(r, q) /\ revoked' = revoked \cup Named(j)
      BY <1>2, Zenon DEF Revoke, Goto
    <2>3. tokens[j].sids \subseteq Named(j) /\ Named(j) \subseteq Logins
      BY <1>1, Zenon DEF Named, LogoutInv, RequestInv, Token
    <2>4. revoked \subseteq Logins
      BY Zenon DEF LogoutInv, RequestInv
    <2> HIDE DEF q
    <2>5. QED
      BY <1>1, <2>1, <2>2, <2>3, <2>4, WorkKeeps
  <1>3. CASE OnRevoked(r)
    <2> DEFINE q == [requests[r] EXCEPT !.pc = "finish", !.ok = TRUE]
    <2>1. q \in Request /\ q.pc = "finish" /\ q.jti = j
      BY Zenon, <1>1 DEF Request
    <2>2. Step(r, q) /\ revoked' = revoked /\ requests[r].pc = "onRevoked"
      BY <1>3, Zenon DEF OnRevoked
    <2>3. revoked \subseteq Logins
      BY DEF LogoutInv, RequestInv
    <2> HIDE DEF q
    <2>4. QED
      BY <1>1, <2>1, <2>2, <2>3, WorkKeeps
  <1>4. CASE Fail(r)
    <2> DEFINE q == [requests[r] EXCEPT !.pc = "finish"]
    <2>1. q \in Request /\ q.pc = "finish" /\ q.jti = j /\ q.ok = requests[r].ok
      BY <1>1 DEF Request
    <2>2. Step(r, q) /\ revoked' = revoked
      BY <1>4 DEF Fail, Goto
    <2>3. revoked \subseteq Logins
      BY DEF LogoutInv, RequestInv
    <2> HIDE DEF q
    <2>4. QED
      BY <1>1, <2>1, <2>2, <2>3, WorkKeeps
  <1>5. QED
    BY <1>2, <1>3, <1>4

\* accept: the sweep drops only what is too old to be accepted again, and a
\* token is reserved only when no request works on it.
LEMMA AcceptKeeps ==
    ASSUME LogoutInv, NEW r \in Requests, NEW sweep \in BOOLEAN, Accept(r, sweep)
    PROVE  LogoutInv'
  <1> DEFINE j == requests[r].jti
             old(t) == seen[t] # NONE /\ ~seen[t].pending /\ Expired(seen[t])
  <1>1. RequestInv /\ SeenInv /\ AckedInv /\ OnceInv /\ clock \in Nat
    BY DEF LogoutInv, RequestInv
  <1>2. /\ requests[r] \in Request /\ requests[r].pc = "accept" /\ ~Working(r) /\ ~requests[r].ok
        /\ j \in Tokens /\ tokens[j] # NONE
        /\ stalled' = (stalled \/ clock # requests[r].at)
        /\ UNCHANGED <<clock, revoked, started, tokens, completed, acked>>
    BY <1>1 DEF Accept, sessionVars, RequestInv, AckedInv, Working
  <1>3. PICK kept \in [Tokens -> Entry \cup {NONE}] :
            /\ \A t \in Tokens : kept[t] = seen[t] \/ (kept[t] = NONE /\ old(t))
            /\ IF Dup(kept[j])
               THEN seen' = kept /\ Step(r, NoRequest)
               ELSE /\ seen' = [kept EXCEPT ![j] = [at |-> clock, pending |-> TRUE]]
                    /\ Step(r, [requests[r] EXCEPT !.pc = "revoke", !.at = 0])
    <2> DEFINE k == IF sweep THEN [t \in Tokens |-> Swept(seen[t])] ELSE seen
    <2>1. k \in [Tokens -> Entry \cup {NONE}]
      BY <1>1 DEF RequestInv, Swept
    <2>2. \A t \in Tokens : k[t] = seen[t] \/ (k[t] = NONE /\ old(t))
      BY DEF Swept
    <2>3. IF Dup(k[j])
          THEN seen' = k /\ Step(r, NoRequest)
          ELSE /\ seen' = [k EXCEPT ![j] = [at |-> clock, pending |-> TRUE]]
               /\ Step(r, [requests[r] EXCEPT !.pc = "revoke", !.at = 0])
      BY DEF Accept
    <2> HIDE DEF k
    <2>4. QED
      BY <2>1, <2>2, <2>3, Zenon
  <1>4. /\ stalled' \in BOOLEAN
        /\ ~stalled' => ~stalled /\ requests[r].at = clock
    BY Zenon, <1>1, <1>2 DEF RequestInv
  \* Swept or not, a completed token is remembered or too old.
  <1>5. ASSUME ~stalled, NEW t \in Tokens, completed[t] # 0
        PROVE  /\ completed[t] = 1 /\ tokens[t] # NONE
               /\ \/ TooOld(t)
                  \/ /\ kept[t] = seen[t] /\ seen[t] # NONE /\ ~seen[t].pending
                     /\ ~Expired(seen[t]) /\ seen[t].at <= clock
                     /\ tokens[t].iat <= seen[t].at + logoutTokenSkew
    <2>1. /\ completed[t] = 1 /\ tokens[t] # NONE
          /\ \/ TooOld(t)
             \/ /\ seen[t] # NONE /\ ~seen[t].pending /\ seen[t].at <= clock
                /\ tokens[t].iat <= seen[t].at + logoutTokenSkew
      BY <1>1, <1>5, Zenon DEF OnceInv
    <2>2. tokens[t].iat \in Int /\ (seen[t] # NONE => seen[t].at \in Nat)
      BY <1>1, <2>1, Zenon DEF RequestInv, Token, Entry
    <2>3. ASSUME seen[t] # NONE, Expired(seen[t]),
                 tokens[t].iat <= seen[t].at + logoutTokenSkew
          PROVE  TooOld(t)
      BY <1>1, <2>2, <2>3, LogoutAssumption DEF Expired, window, TooOld
    <2>4. QED
      BY <1>3, <2>1, <2>3, Zenon
  <1>6. CASE Dup(kept[j])
    <2>1. seen' = kept /\ Step(r, NoRequest)
      BY <1>3, <1>6, Zenon
    <2>2. /\ requests' \in [Requests -> Request] /\ requests'[r] = NoRequest
          /\ \A p \in Requests : p # r => requests'[p] = requests[p]
      BY <1>1, <2>1, NoRequestFits, OneSteps, Zenon
    <2>3. RequestInv'
      BY <1>1, <1>2, <1>4, <2>1, <2>2, NoRequestFits, Zenon DEF RequestInv
    <2>4. \A p \in Requests : /\ Working(p)' <=> Working(p)
                              /\ \A t \in Tokens : WorksOn(p, t)' <=> WorksOn(p, t)
      BY <1>2, <2>2, NoRequestFits DEF WorksOn, Working
    <2>5. SeenInv'
      BY <1>1, <1>2, <1>3, <2>1, <2>4, Zenon DEF SeenInv
    <2>6. AckedInv'
      BY <1>1, <1>2, <2>2, NoRequestFits DEF AckedInv
    <2>7. OnceInv'
      <3> SUFFICES ASSUME ~stalled' PROVE OnceInv'
        BY DEF OnceInv
      <3>1. \A t \in Tokens : completed'[t] # 0 =>
                /\ completed'[t] = 1 /\ tokens'[t] # NONE
                /\ \/ TooOld(t)'
                   \/ /\ seen'[t] # NONE /\ ~seen'[t].pending /\ seen'[t].at <= clock'
                      /\ tokens'[t].iat <= seen'[t].at + logoutTokenSkew
        BY <1>2, <1>4, <1>5, <2>1, Zenon DEF TooOld
      <3>2. \A p \in Requests :
                /\ requests'[p].pc = "accept" =>
                    /\ requests'[p].at <= clock'
                    /\ requests'[p].at - tokens'[requests'[p].jti].iat <= logoutTokenMaxAge
                    /\ tokens'[requests'[p].jti].iat <= requests'[p].at + logoutTokenSkew
                /\ Working(p)' =>
                    /\ completed'[requests'[p].jti] = 0
                    /\ tokens'[requests'[p].jti].iat <= clock' + logoutTokenSkew
        BY Zenon, <1>1, <1>2, <1>4, <2>2, <2>4, NoRequestFits DEF OnceInv, Working
      <3>3. QED
        BY Zenon, <3>1, <3>2 DEF OnceInv
    <2>8. QED
      BY <2>3, <2>5, <2>6, <2>7 DEF LogoutInv
  <1>7. CASE ~Dup(kept[j])
    <2>1. PICK q \in Request : /\ q.pc = "revoke" /\ q.jti = j /\ ~q.ok /\ Step(r, q)
      <3> DEFINE q == [requests[r] EXCEPT !.pc = "revoke", !.at = 0]
      <3>1. q \in Request /\ q.pc = "revoke" /\ q.jti = j /\ q.ok = requests[r].ok
        BY Zenon, <1>2 DEF Request
      <3>2. Step(r, q)
        BY <1>3, <1>7
      <3> HIDE DEF q
      <3>3. QED
        BY Zenon, <1>2, <3>1, <3>2
    <2>2. PICK e \in Entry : e # NONE /\ e.pending /\ seen' = [kept EXCEPT ![j] = e]
      <3>1. [at |-> clock, pending |-> TRUE] \in Entry
        BY <1>1 DEF Entry
      <3>2. \A e \in Entry : e # NONE
        BY LogoutAssumption DEF Entry
      <3>3. QED
        BY <1>3, <1>7, <3>1, <3>2
    <2>3. /\ requests' \in [Requests -> Request] /\ requests'[r] = q
          /\ \A p \in Requests : p # r => requests'[p] = requests[p]
      BY <1>1, <2>1, OneSteps
    <2>4. /\ seen' \in [Tokens -> Entry \cup {NONE}] /\ seen'[j] = e
          /\ \A t \in Tokens : t # j => seen'[t] = kept[t]
      BY <1>2, <1>3, <2>2
    <2>5. RequestInv'
      BY Zenon, <1>1, <1>2, <1>4, <2>1, <2>3, <2>4 DEF RequestInv
    <2>6. /\ Working(r)' /\ \A p \in Requests : p # r => (Working(p)' <=> Working(p))
          /\ \A t \in Tokens : /\ (WorksOn(r, t)' <=> t = j)
                               /\ ~WorksOn(r, t)
                               /\ \A p \in Requests : p # r => (WorksOn(p, t)' <=> WorksOn(p, t))
      BY Zenon, <1>2, <2>1, <2>3 DEF WorksOn, Working
    <2>7. \A p \in Requests : ~WorksOn(p, j)
      BY <1>1, <1>2, <1>3, <1>7 DEF SeenInv, Dup
    <2>8. SeenInv'
      <3>1. ASSUME NEW t \in Tokens, t # j
            PROVE  /\ \A p \in Requests : WorksOn(p, t)' => seen'[t] # NONE /\ seen'[t].pending
                   /\ \A p, o \in Requests : WorksOn(p, t)' /\ WorksOn(o, t)' => p = o
                   /\ seen'[t] # NONE /\ seen'[t].pending => \E p \in Requests : WorksOn(p, t)'
                   /\ seen'[t] # NONE /\ ~seen'[t].pending => completed'[t] # 0
        BY <1>1, <1>2, <1>3, <2>4, <2>6, <3>1 DEF SeenInv
      <3>2. ASSUME NEW t \in Tokens, t = j
            PROVE  /\ \A p \in Requests : WorksOn(p, t)' => seen'[t] # NONE /\ seen'[t].pending
                   /\ \A p, o \in Requests : WorksOn(p, t)' /\ WorksOn(o, t)' => p = o
                   /\ seen'[t] # NONE /\ seen'[t].pending => \E p \in Requests : WorksOn(p, t)'
                   /\ seen'[t] # NONE /\ ~seen'[t].pending => completed'[t] # 0
        BY Zenon, <2>2, <2>4, <2>6, <2>7, <3>2
      <3>3. QED
        BY <3>1, <3>2 DEF SeenInv
    <2>9. AckedInv'
      BY Zenon, <1>1, <1>2, <2>1, <2>3 DEF AckedInv
    <2>10. ASSUME ~stalled' PROVE completed[j] = 0 /\ tokens[j].iat <= clock + logoutTokenSkew
      <3>1. clock - tokens[j].iat <= logoutTokenMaxAge /\ tokens[j].iat <= clock + logoutTokenSkew
        BY <1>1, <1>2, <1>4, <2>10 DEF OnceInv
      <3>2. tokens[j].iat \in Int
        BY <1>1, <1>2, Zenon DEF RequestInv, Token
      <3>3. ~TooOld(j)
        BY <1>1, <3>1, <3>2, LogoutAssumption DEF TooOld
      <3>4. QED
        BY <1>2, <1>4, <1>5, <1>7, <2>10, <3>1, <3>3, Zenon DEF Dup
    <2>11. OnceInv'
      <3> SUFFICES ASSUME ~stalled' PROVE OnceInv'
        BY DEF OnceInv
      <3>1. \A t \in Tokens : completed'[t] # 0 =>
                /\ completed'[t] = 1 /\ tokens'[t] # NONE
                /\ \/ TooOld(t)'
                   \/ /\ seen'[t] # NONE /\ ~seen'[t].pending /\ seen'[t].at <= clock'
                      /\ tokens'[t].iat <= seen'[t].at + logoutTokenSkew
        BY Zenon, <1>2, <1>4, <1>5, <2>4, <2>10 DEF TooOld
      <3>2. \A p \in Requests :
                /\ requests'[p].pc = "accept" =>
                    /\ requests'[p].at <= clock'
                    /\ requests'[p].at - tokens'[requests'[p].jti].iat <= logoutTokenMaxAge
                    /\ tokens'[requests'[p].jti].iat <= requests'[p].at + logoutTokenSkew
                /\ Working(p)' =>
                    /\ completed'[requests'[p].jti] = 0
                    /\ tokens'[requests'[p].jti].iat <= clock' + logoutTokenSkew
        BY Zenon, <1>1, <1>2, <1>4, <2>1, <2>3, <2>10 DEF OnceInv, Working
      <3>3. QED
        BY <3>1, <3>2, Zenon DEF OnceInv
    <2>12. QED
      BY <2>5, <2>8, <2>9, <2>11 DEF LogoutInv
  <1>8. QED
    BY <1>6, <1>7, Zenon

LEMMA FinishKeeps ==
    ASSUME LogoutInv, NEW r \in Requests, finish(r)
    PROVE  LogoutInv'
  <1>1. RequestInv /\ SeenInv /\ AckedInv /\ OnceInv /\ clock \in Nat
    BY Zenon DEF LogoutInv, RequestInv
  <1>2. PICK j \in Tokens : j = requests[r].jti /\ tokens[j] # NONE /\ tokens[j] \in Token
    BY <1>1 DEF finish, RequestInv
  <1>3. PICK ok \in BOOLEAN : ok = requests[r].ok
    BY <1>1 DEF RequestInv, Request
  <1>4. /\ requests[r].pc = "finish" /\ Working(r) /\ WorksOn(r, j) /\ Step(r, NoRequest)
        /\ seen' = [seen EXCEPT ![j] = Finished(seen[j], ok)]
        /\ completed' = [completed EXCEPT ![j] = IF ok THEN completed[j] + 1 ELSE completed[j]]
        /\ acked' = IF ok THEN acked \cup tokens[j].sids ELSE acked
        /\ UNCHANGED <<clock, revoked, started, tokens, stalled>>
    BY Zenon, <1>2, <1>3 DEF finish, sessionVars, WorksOn, Working
  <1>5. /\ requests' \in [Requests -> Request] /\ requests'[r] = NoRequest
        /\ \A p \in Requests : p # r => requests'[p] = requests[p]
    BY Zenon, <1>1, <1>4, NoRequestFits, OneSteps
  <1>6. PICK e \in Entry \cup {NONE} :
            /\ seen' = [seen EXCEPT ![j] = e]
            /\ ok => e # NONE /\ ~e.pending /\ e.at = clock
            /\ ~ok => e = NONE
    <2> DEFINE f == [at |-> clock, pending |-> FALSE]
    <2>1. f \in Entry /\ f.at = clock /\ ~f.pending
      BY <1>1 DEF Entry
    <2>2. f # NONE
      BY Zenon, <2>1, LogoutAssumption DEF Entry
    <2>3. Finished(seen[j], ok) = IF ok THEN f ELSE NONE
      BY Zenon DEF Finished
    <2> HIDE DEF f
    <2>4. QED
      BY Zenon, <1>4, <2>1, <2>2, <2>3
  <1>7. /\ seen' \in [Tokens -> Entry \cup {NONE}] /\ seen'[j] = e
        /\ \A t \in Tokens : t # j => seen'[t] = seen[t]
    BY <1>1, <1>6 DEF RequestInv
  <1>8. /\ completed' \in [Tokens -> Nat]
        /\ completed'[j] = IF ok THEN completed[j] + 1 ELSE completed[j]
        /\ \A t \in Tokens : t # j => completed'[t] = completed[t]
        /\ completed[j] \in Nat
    <2>1. completed \in [Tokens -> Nat] /\ completed[j] \in Nat
      BY Zenon, <1>1, <1>2 DEF RequestInv
    <2>2. PICK n \in Nat : n = IF ok THEN completed[j] + 1 ELSE completed[j]
      BY <2>1
    <2>3. completed' = [completed EXCEPT ![j] = n]
      BY Zenon, <1>4, <2>2
    <2>4. QED
      BY Zenon, <2>1, <2>2, <2>3
  <1>9. RequestInv'
    <2>1. acked' \subseteq Logins
      BY <1>1, <1>2, <1>4 DEF RequestInv, Token
    <2>2. tokens' = tokens /\ started' = started
      BY Zenon, <1>4
    <2>3. \A p \in Requests : requests'[p].pc # "idle" =>
              requests'[p].jti \in Tokens /\ tokens'[requests'[p].jti] # NONE
      <3>1. SUFFICES ASSUME NEW p \in Requests, requests'[p].pc # "idle"
                     PROVE  requests'[p].jti \in Tokens /\ tokens[requests'[p].jti] # NONE
        BY <2>2
      <3>2. requests'[p] = requests[p]
        BY <1>5, <3>1, NoRequestFits, Zenon
      <3>3. QED
        BY <1>1, <3>1, <3>2 DEF RequestInv
    <2>4. \A t \in Tokens : tokens'[t] # NONE /\ tokens'[t].user => tokens'[t].sids \subseteq started'
      BY <1>1, <2>2 DEF RequestInv
    <2>5. /\ clock' \in Nat /\ revoked' \subseteq Logins /\ started' \subseteq Logins
          /\ tokens' \in [Tokens -> Token \cup {NONE}] /\ stalled' \in BOOLEAN
      BY Zenon, <1>1, <1>4 DEF RequestInv
    <2>6. QED
      BY Zenon, <1>5, <1>7, <1>8, <2>1, <2>3, <2>4, <2>5 DEF RequestInv
  <1>10. /\ ~Working(r)' /\ \A p \in Requests : p # r => (Working(p)' <=> Working(p))
         /\ \A t \in Tokens : /\ ~WorksOn(r, t)'
                              /\ t # j => ~WorksOn(r, t)
                              /\ \A p \in Requests : p # r => (WorksOn(p, t)' <=> WorksOn(p, t))
    BY <1>2, <1>5, NoRequestFits, Zenon DEF WorksOn, Working
  <1>11. \A p \in Requests : p # r => ~WorksOn(p, j)
    BY <1>1, <1>4, Zenon DEF SeenInv
  <1>12. SeenInv'
    <2>1. ASSUME NEW t \in Tokens, t # j
          PROVE  /\ \A p \in Requests : WorksOn(p, t)' => seen'[t] # NONE /\ seen'[t].pending
                 /\ \A p, o \in Requests : WorksOn(p, t)' /\ WorksOn(o, t)' => p = o
                 /\ seen'[t] # NONE /\ seen'[t].pending => \E p \in Requests : WorksOn(p, t)'
                 /\ seen'[t] # NONE /\ ~seen'[t].pending => completed'[t] # 0
      <3>1. seen'[t] = seen[t] /\ completed'[t] = completed[t]
        BY Zenon, <1>7, <1>8, <2>1
      <3>2. \A p \in Requests : WorksOn(p, t)' <=> WorksOn(p, t)
        BY Zenon, <1>10, <2>1
      <3>3. /\ \A p \in Requests : WorksOn(p, t) => seen[t] # NONE /\ seen[t].pending
            /\ \A p, o \in Requests : WorksOn(p, t) /\ WorksOn(o, t) => p = o
            /\ seen[t] # NONE /\ seen[t].pending => \E p \in Requests : WorksOn(p, t)
            /\ seen[t] # NONE /\ ~seen[t].pending => completed[t] # 0
        BY Zenon, <1>1 DEF SeenInv
      <3>4. QED
        BY Zenon, <3>1, <3>2, <3>3
    <2>2. \A p \in Requests : ~WorksOn(p, j)'
      BY <1>10, <1>11
    <2>3. (seen'[j] # NONE => ok /\ ~seen'[j].pending) /\ (ok => completed'[j] # 0)
      BY <1>6, <1>7, <1>8
    <2>4. QED
      BY <2>1, <2>2, <2>3 DEF SeenInv
  <1>13. AckedInv'
    <2>1. ok => tokens[j].sids \subseteq revoked
      BY Zenon, <1>1, <1>2, <1>3 DEF AckedInv
    <2>2. acked' \subseteq revoked'
      BY Zenon, <1>1, <1>4, <2>1 DEF AckedInv
    <2>3. QED
      BY Zenon, <1>1, <1>4, <1>5, <2>2, NoRequestFits DEF AckedInv
  <1>14. OnceInv'
    <2> SUFFICES ASSUME ~stalled PROVE OnceInv'
      BY Zenon, <1>4 DEF OnceInv
    <2>1. completed[j] = 0 /\ tokens[j].iat <= clock + logoutTokenSkew
      BY Zenon, <1>1, <1>2, <1>4 DEF OnceInv
    <2>2. ASSUME NEW t \in Tokens, completed'[t] # 0
          PROVE  /\ completed'[t] = 1 /\ tokens'[t] # NONE
                 /\ \/ TooOld(t)'
                    \/ /\ seen'[t] # NONE /\ ~seen'[t].pending /\ seen'[t].at <= clock'
                       /\ tokens'[t].iat <= seen'[t].at + logoutTokenSkew
      <3>1. CASE t = j
        <4>1. ok /\ completed'[j] = 1
          BY <1>8, <2>1, <2>2, <3>1
        <4>2. /\ seen'[j] # NONE /\ ~seen'[j].pending /\ seen'[j].at = clock
          BY <1>6, <1>7, <4>1, Zenon
        <4>3. tokens' = tokens /\ clock' = clock
          BY <1>4
        <4>4. seen'[j].at <= clock'
          BY <1>1, <4>2, <4>3
        <4>5. QED
          BY Zenon, <1>2, <2>1, <3>1, <4>1, <4>2, <4>3, <4>4
      <3>2. CASE t # j
        BY Zenon, <1>1, <1>4, <1>7, <1>8, <2>2, <3>2 DEF OnceInv, TooOld
      <3>3. QED
        BY Zenon, <3>1, <3>2
    <2>3. ASSUME NEW p \in Requests
          PROVE  /\ requests'[p].pc = "accept" =>
                    /\ requests'[p].at <= clock'
                    /\ requests'[p].at - tokens'[requests'[p].jti].iat <= logoutTokenMaxAge
                    /\ tokens'[requests'[p].jti].iat <= requests'[p].at + logoutTokenSkew
                 /\ Working(p)' =>
                    /\ completed'[requests'[p].jti] = 0
                    /\ tokens'[requests'[p].jti].iat <= clock' + logoutTokenSkew
      <3>1. CASE p = r
        BY Zenon, <1>5, <1>10, <3>1, NoRequestFits
      <3>2. CASE p # r
        <4>1. requests'[p] = requests[p] /\ (Working(p)' <=> Working(p))
          BY <1>5, <1>10, <3>2
        <4>2. Working(p) => requests[p].jti \in Tokens /\ requests[p].jti # j
          BY <1>1, <1>11, <3>2 DEF RequestInv, Working, WorksOn
        <4>3. QED
          BY Zenon, <1>1, <1>4, <1>8, <4>1, <4>2 DEF OnceInv
      <3>3. QED
        BY <3>1, <3>2
    <2>4. QED
      BY <2>2, <2>3 DEF OnceInv
  <1>15. QED
    BY <1>9, <1>12, <1>13, <1>14 DEF LogoutInv

LEMMA LogoutStep == CapInv /\ CapInv' /\ LogoutInv /\ [Next]_vars => LogoutInv'
  <1> SUFFICES ASSUME CapInv, CapInv', LogoutInv, [Next]_vars PROVE LogoutInv'
    OBVIOUS
  <1>1. clock \in Nat /\ started \subseteq Logins /\ clock' \in Nat /\ started' \subseteq Logins
    BY DEF CapInv
  <1>2. CASE SessionNext /\ UNCHANGED <<logoutVars, lazyVars>>
    <2>1. started \subseteq started' /\ UNCHANGED <<clock, revoked>>
      BY <1>2 DEF SessionNext, Land, Lose, Login, Gate, Admit, UpdateSession, GateRevoked, Logout
    <2>2. QED
      BY <1>1, <1>2, <2>1, RestKeeps
  <1>3. CASE UNCHANGED <<clock, revoked, sessionVars, logoutVars>>
    BY <1>1, <1>3, RestKeeps DEF sessionVars
  <1>4. CASE Tick
    BY <1>1, <1>4, RestKeeps DEF Tick, sessionVars
  <1>5. ASSUME NEW t \in Tokens, NEW d \in (-logoutTokenSkew)..logoutTokenSkew, Issue(t, d)
        PROVE  LogoutInv'
    <2>1. d \in Int
      BY LogoutAssumption
    <2>2. QED
      BY <1>5, <2>1, IssueKeeps
  <1>6. ASSUME NEW r \in Requests, NEW b \in BOOLEAN,
               \/ (\E t \in Tokens : Post(r, t)) \/ Verify(r, b) \/ Accept(r, b)
               \/ Revoke(r) \/ OnRevoked(r) \/ Fail(r) \/ finish(r)
        PROVE  LogoutInv'
    BY <1>6, PostKeeps, VerifyKeeps, AcceptKeeps, RevokeKeeps, FinishKeeps
  <1>7. ASSUME NEW r \in Requests, Ensure(r) PROVE LogoutInv'
    BY <1>3, <1>7 DEF Ensure
  <1>8. CASE UNCHANGED vars
    BY <1>3, <1>8 DEF vars
  <1>9. QED
    BY Zenon, <1>2, <1>3, <1>4, <1>5, <1>6, <1>7, <1>8 DEF Next

LEMMA IndInvHolds == Spec => []IndInv
  <1>1. Init => CapInv /\ IdleInv
    <2> SUFFICES ASSUME Init PROVE CapInv /\ IdleInv
      OBVIOUS
    <2>1. /\ clock = 0 /\ cookie = NONE /\ replies = {} /\ started = {} /\ missed = FALSE
          /\ loginAt = [s \in Logins |-> 0] /\ seenAt = [s \in Logins |-> 0]
      BY DEF Init, SessionInit
    <2>2. Fits(cookie) /\ GoodFor(cookie)
      BY <2>1 DEF Fits, GoodFor
    <2>3. \A s \in Logins : loginAt[s] <= clock /\ seenAt[s] <= clock
      BY <2>1
    <2>4. QED
      BY Zenon, <2>1, <2>2, <2>3 DEF CapInv, IdleInv
  <1>2. Init => LogoutInv
    <2> SUFFICES ASSUME Init PROVE LogoutInv
      OBVIOUS
    <2>1. \A r \in Requests : requests[r] = NoRequest
      BY DEF Init
    <2>2. RequestInv
      BY Zenon, <2>1, NoRequestFits DEF Init, SessionInit, RequestInv
    <2>3. SeenInv /\ AckedInv /\ OnceInv
      BY Zenon, <2>1, NoRequestFits DEF Init, SeenInv, WorksOn, Working, AckedInv, OnceInv
    <2>4. QED
      BY <2>2, <2>3 DEF LogoutInv
  <1>3. QED
    BY <1>1, <1>2, LazyHolds, SessionStep, LogoutStep, PTL DEF Spec, IndInv

-----------------------------------------------------------------------------
\* Every reachable state is type-correct; in particular, the reservation of a
\* token outlasts the request that works on it, however long that takes.
THEOREM TypeCorrect == Spec => []TypeOK
  <1>1. IndInv => TypeOK
    <2> SUFFICES ASSUME IndInv PROVE TypeOK
      OBVIOUS
    <2>1. cookie \in Session \cup {NONE} /\ replies \subseteq Session \cup {NONE}
      BY Zenon DEF IndInv, CapInv, Fits
    <2>2. \A r \in Requests : Working(r) =>
              seen[requests[r].jti] # NONE /\ seen[requests[r].jti].pending
      BY DEF IndInv, LogoutInv, RequestInv, SeenInv, WorksOn, Working
    <2>3. QED
      BY Zenon, <2>1, <2>2 DEF IndInv, LazyInv, CapInv, LogoutInv, RequestInv, TypeOK
  <1>2. QED
    BY <1>1, IndInvHolds, PTL

\* NeverPastTheCap: however extensions, updates and replies interleave, no copy
\* of a session is good past SessionTTL from its login.
THEOREM SessionsAreCapped == Spec => []NeverPastTheCap
  <1>1. IndInv => NeverPastTheCap
    BY DEF IndInv, CapInv, Fits, Cap, Sealed, NeverPastTheCap
  <1>2. QED
    BY <1>1, IndInvHolds, PTL

\* ActiveStaysIn: maybeExtendIdle, from half the window on and cut at the cap,
\* keeps a browser logged in whose requests are at most that far apart.
THEOREM ActiveUsersStayIn == Spec => []ActiveStaysIn
  <1>1. IndInv => ActiveStaysIn
    BY DEF IndInv, IdleInv, GoodFor, Half, Cap, ActiveStaysIn
  <1>2. QED
    BY <1>1, IndInvHolds, PTL

\* RetryPossible: a failed request releases its reservation on every path.
THEOREM RetriesAreTaken == Spec => []RetryPossible
  <1>1. IndInv => RetryPossible
    BY DEF IndInv, LogoutInv, SeenInv, WorksOn, Dup, RetryPossible
  <1>2. QED
    BY <1>1, IndInvHolds, PTL

\* ActedOnce: logoutJTICache remembers a token for as long as
\* VerifyLogoutToken takes it.
THEOREM TokensAreActedOnOnce == Spec => []ActedOnce
  <1>1. IndInv => ActedOnce
    <2> SUFFICES ASSUME IndInv, ~stalled, NEW t \in Tokens PROVE completed[t] <= 1
      BY Zenon DEF ActedOnce
    <2>1. completed[t] = 0 \/ completed[t] = 1
      BY DEF IndInv, LogoutInv, OnceInv
    <2>2. QED
      BY <2>1
  <1>2. QED
    BY <1>1, IndInvHolds, PTL

\* DiscoveredOnce: the shared discovery of LazyVerifier succeeds at most once.
THEOREM OneDiscovery == Spec => []DiscoveredOnce
  <1>1. IndInv => DiscoveredOnce
    BY DEF IndInv, LazyInv, DiscoveredOnce
  <1>2. QED
    BY <1>1, IndInvHolds, PTL

\* RevokedStaysOut: Gate admits no copy of a session whose logout was
\* acknowledged, whichever reply brought the copy back.
THEOREM LogoutsHold == Spec => RevokedStaysOut
  <1>1. IndInv /\ [Next]_vars => (\A s \in acked : seenAt'[s] = seenAt[s]) \/ UNCHANGED vars
    <2> SUFFICES ASSUME IndInv, [Next]_vars, NEW s \in acked PROVE seenAt'[s] = seenAt[s]
      OBVIOUS
    <2>1. s \in revoked /\ s \in Logins /\ seenAt \in [Logins -> Nat]
      BY Zenon DEF IndInv, LogoutInv, AckedInv, RequestInv, CapInv
    <2>2. CASE SessionNext
      <3>1. CASE Admit
        BY <2>1, <3>1 DEF Admit, Admitted
      <3>2. CASE ~Admit
        BY <2>2, <3>2 DEF SessionNext, Land, Lose, Login, Gate, UpdateSession, GateRevoked,
                          Logout, sessionHistory
      <3>3. QED
        BY <3>1, <3>2
    <2>3. CASE UNCHANGED sessionVars
      BY <2>3 DEF sessionVars, sessionHistory
    <2>4. ASSUME NEW r \in Requests, (\E t \in Tokens : Post(r, t)) \/ Ensure(r) \/ Revoke(r)
                                      \/ OnRevoked(r) \/ Fail(r)
          PROVE  UNCHANGED sessionVars
      BY Zenon, <2>4 DEF Post, Ensure, Revoke, OnRevoked, Fail
    <2>5. ASSUME NEW r \in Requests, NEW b \in BOOLEAN PROVE Verify(r, b) => UNCHANGED sessionVars
      BY DEF Verify
    <2>6. ASSUME NEW r \in Requests, NEW b \in BOOLEAN PROVE Accept(r, b) => UNCHANGED sessionVars
      BY DEF Accept
    <2>7. ASSUME NEW r \in Requests PROVE finish(r) => UNCHANGED sessionVars
      BY Zenon DEF finish
    <2>8. ASSUME NEW t \in Tokens, NEW d PROVE Issue(t, d) => UNCHANGED sessionVars
      BY DEF Issue
    <2>9. Tick \/ UNCHANGED vars => UNCHANGED sessionVars
      BY DEF Tick, vars
    <2>10. QED
      BY Zenon, <2>2, <2>3, <2>4, <2>5, <2>6, <2>7, <2>8, <2>9 DEF Next
  <1>2. QED
    BY <1>1, IndInvHolds, PTL DEF Spec, RevokedStaysOut
=============================================================================
