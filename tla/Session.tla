------------------------------ MODULE Session ------------------------------
(***************************************************************************)
(* session/session.go: a session is a sealed cookie and nothing else.      *)
(* Gate judges each request by the copy of the session it carries, slides  *)
(* its expiry forward and seals it again; UpdateSession and LogoutHandler  *)
(* answer with a cookie of their own.  The browser keeps whichever reply   *)
(* reaches it last, so replies are delivered here in any order or lost.    *)
(*                                                                         *)
(* A request takes effect at once and its Set-Cookie stays under way.      *)
(* Requests that set nothing and admit no one (no live session, a          *)
(* cross-origin or cross-site refusal, a failed revocation check, an       *)
(* exempt path) change no state and have no action.  BackchannelLogout     *)
(* adds the steps that fill revoked.                                       *)
(***************************************************************************)
EXTENDS Integers, FiniteSets

CONSTANTS SessionTTL, IdleTimeout,  \* in ticks; IdleTimeout 0 disables it
          Logins,      \* the sessions a login may start, by their SID
          Members,     \* those whose groups hold RequiredGroup
          MaxClock,    \* bound: length of the run in ticks
          MaxReplies,  \* bound: replies under way
          NONE

ASSUME SessionAssumption ==
    /\ SessionTTL \in Nat \ {0} /\ IdleTimeout \in Nat
    /\ Members \subseteq Logins /\ MaxClock \in Nat /\ MaxReplies \in Nat
    /\ NONE \notin [sid : Logins, expiry : Int, abs : Int]

VARIABLES clock,
          cookie,   \* the browser's session cookie, NONE when it has none
          replies,  \* the Set-Cookie values under way; NONE clears
          revoked,  \* what IsRevoked answers: the SIDs on the deny list
          started,  \* SIDs of the logins completed
          loginAt,  \* history: when each login completed
          seenAt,   \* history: when Gate last admitted each session
          missed    \* history: did an extension not reach the browser?

sessionHistory == <<loginAt, seenAt, missed>>
sessionVars == <<cookie, replies, started, sessionHistory>>

Session == [sid : Logins, expiry : Int, abs : Int]

SessionInit ==
    /\ clock = 0 /\ cookie = NONE /\ replies = {} /\ revoked = {} /\ started = {}
    /\ loginAt = [s \in Logins |-> 0] /\ seenAt = [s \in Logins |-> 0]
    /\ missed = FALSE

-----------------------------------------------------------------------------
Earlier(a, b) == IF a < b THEN a ELSE b

\* A reply with a Set-Cookie.  Another one is under way: either may land last.
Reply(c) ==
    /\ Cardinality(replies) < MaxReplies
    /\ replies' = replies \cup {c}
    /\ missed' = (missed \/ replies # {})

Land(c) ==
    /\ c \in replies
    /\ cookie' = c /\ replies' = replies \ {c}
    /\ UNCHANGED <<clock, revoked, started, sessionHistory>>

Lose(c) ==
    /\ c \in replies
    /\ replies' = replies \ {c} /\ missed' = TRUE
    /\ UNCHANGED <<clock, revoked, cookie, started, loginAt, seenAt>>

\* NewSession
NewSession(s) ==
    LET abs == clock + SessionTTL IN
    [sid |-> s, abs |-> abs,
     expiry |-> IF IdleTimeout > 0 /\ IdleTimeout < SessionTTL
                THEN clock + IdleTimeout ELSE abs]

\* The end of CallbackHandler: NewSession, IssueSession.
Login(s) ==
    /\ s \notin started
    /\ started' = started \cup {s}
    /\ loginAt' = [loginAt EXCEPT ![s] = clock]
    /\ Reply(NewSession(s))
    /\ UNCHANGED <<clock, revoked, cookie, seenAt>>

\* readSession
Live(c) == c # NONE /\ ~(clock > c.expiry)

\* maybeExtendIdle.  A session without a cap, which NewSession never makes, has
\* abs 0, the zero time.
Extended_Uncapped(c) == [c EXCEPT !.expiry = clock + IdleTimeout]

Extended(c) ==
    LET e == clock + IdleTimeout IN
    [c EXCEPT !.expiry = IF c.abs # 0 /\ e > c.abs THEN c.abs ELSE e]

maybeExtendIdle_BelowCap(c) ==
    IF c.expiry - clock > IdleTimeout \div 2 \/ clock + IdleTimeout > c.abs
    THEN c ELSE Extended(c)

maybeExtendIdle(c) ==
    IF \/ IdleTimeout <= 0
       \/ c.expiry - clock > IdleTimeout \div 2
       \/ ~(Extended(c).expiry > c.expiry)
    THEN c ELSE Extended(c)

\* Gate turns a revoked session away and clears the cookie.
GateRevoked ==
    /\ Live(cookie) /\ cookie.sid \in revoked
    /\ Reply(NONE)
    /\ UNCHANGED <<clock, revoked, cookie, started, loginAt, seenAt>>

Admitted_Unchecked(c) == Live(c) /\ c.sid \in Members

Admitted(c) == Live(c) /\ c.sid \notin revoked /\ c.sid \in Members

\* Gate admits a request: its extension is sealed, unless there is none or
\* sealing fails.
Admit ==
    /\ Admitted(cookie)
    /\ seenAt' = [seenAt EXCEPT ![cookie.sid] = clock]
    /\ UNCHANGED <<clock, revoked, cookie, started, loginAt>>

Gate(sealed) ==
    LET next == maybeExtendIdle(cookie) IN
    /\ Admit
    /\ IF sealed /\ next # cookie
       THEN Reply(next)
       ELSE replies' = replies /\ missed' = (missed \/ replies # {} \/ next # cookie)

\* The handler behind Gate calls UpdateSession: its Set-Cookie follows that of
\* the extension in the same reply, and holds the expiry the request came with:
\* mutate changes what the consumer keeps in the session and neither expiry.
UpdateSession ==
    /\ Admit
    /\ Cardinality(replies) < MaxReplies
    /\ replies' = replies \cup {cookie}
    /\ missed' = (missed \/ replies # {} \/ maybeExtendIdle(cookie) # cookie)

\* LogoutHandler
Logout ==
    /\ Reply(NONE)
    /\ UNCHANGED <<clock, revoked, cookie, started, loginAt, seenAt>>

SessionNext ==
    \/ \E c \in replies : Land(c) \/ Lose(c)
    \/ \E s \in Logins : Login(s)
    \/ \E sealed \in BOOLEAN : Gate(sealed)
    \/ UpdateSession \/ GateRevoked \/ Logout

-----------------------------------------------------------------------------
Sealed == ({cookie} \cup replies) \ {NONE}

\* No extension, update or order of replies lets a session live past SessionTTL
\* from its login (AbsoluteExpiry "never moved afterward").
NeverPastTheCap ==
    \A c \in Sealed : c.expiry <= loginAt[c.sid] + SessionTTL

\* A browser whose requests are at most half of IdleTimeout apart is not logged
\* out before the cap: whenever Gate admits a request, the cookie it leaves is
\* good for that long.  This needs every extension to reach the browser, and a
\* handler that calls UpdateSession on the request that would extend undoes it.
ActiveStaysIn ==
    ~missed /\ replies = {} /\ cookie # NONE =>
        cookie.expiry >= Earlier(seenAt[cookie.sid] + IdleTimeout \div 2,
                                 loginAt[cookie.sid] + SessionTTL)
=============================================================================
