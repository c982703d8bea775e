----------------------------- MODULE LoginFlow -----------------------------
(***************************************************************************)
(* oidc/login.go: the OIDC authorization-code flow of Begin and            *)
(* CallbackHandler, run from several tabs of one browser.  The server      *)
(* keeps no state: the logins under way are sealed into the flow cookie,   *)
(* which every request carries as it was when the request left and every   *)
(* reply overwrites when it arrives.                                       *)
(*                                                                         *)
(* A login is its number in the order of Begin; its state, nonce and PKCE  *)
(* verifier are random and never mistaken for another's.  The cookie's own *)
(* Max-Age is left out: it is renewed with every write and so never ends   *)
(* before the deadlines sealed inside.                                     *)
(*                                                                         *)
(* The cookie's list of logins is the set of them: Begin adds its login at *)
(* the end and nothing moves one, so the list is in the order of Begin.    *)
(***************************************************************************)
EXTENDS Integers, FiniteSets

CONSTANTS Tabs,
          maxPendingFlows,
          flowTTL,     \* in ticks
          MaxLogins,   \* bound: logins begun
          MaxClock,    \* bound: length of the run in ticks
          MaxLost      \* bound: replies that are lost

Logins == 1..MaxLogins
Flow == [id : Logins, exp : Nat]
Cookie == SUBSET Flow

ASSUME ConstAssumption ==
    /\ maxPendingFlows \in Nat \ {0} /\ flowTTL \in Nat \ {0}
    /\ MaxLogins \in Nat /\ MaxClock \in Nat /\ MaxLost \in Nat

VARIABLES clock,
          cookie,    \* the browser's flow cookie, {} when there is none
          tabs,
          begun,     \* number of logins begun
          lost,
          deadline,  \* history: when each login begun expires
          answered,  \* history: logins whose callback was accepted
          overlap,   \* history: were two requests ever under way together?
          crowded    \* history: were logins dropped to keep a cookie small?

net == <<lost, overlap>>
history == <<deadline, answered, crowded>>
vars == <<clock, cookie, tabs, begun, net, history>>

\* What a reply does to the cookie: nothing, or it sets another.
Unset == {}
SetTo(c) == {c}

\* A tab: waiting for a reply to its request ("begin", "callback"), at the IdP,
\* or showing how a callback ended.  id is the login in the tab's URL (0: none),
\* got what the IdP answered; sent is the cookie of the request, set what the
\* reply does to it and then what the tab does next.
Tab == [pc : {"idle", "begin", "idp", "callback", "exchange", "reply", "shown"},
        id : Logins \cup {0}, got : {"code", "error", "nothing"},
        sent : Cookie, set : SUBSET Cookie, then : {"idle", "idp", "shown"}]
NoTab == [pc |-> "idle", id |-> 0, got |-> "nothing",
          sent |-> {}, set |-> Unset, then |-> "idle"]
UnderWay(t) == tabs[t].pc \in {"begin", "callback", "exchange", "reply"}

\* Type invariant: in particular, the cookie never outgrows maxPendingFlows.
TypeOK ==
    /\ clock \in Nat /\ begun \in 0..MaxLogins /\ lost \in Nat
    /\ cookie \in Cookie /\ Cardinality(cookie) <= maxPendingFlows
    /\ tabs \in [Tabs -> Tab]
    /\ deadline \in [Logins -> Nat] /\ answered \subseteq Logins
    /\ overlap \in BOOLEAN /\ crowded \in BOOLEAN

Init ==
    /\ clock = 0 /\ cookie = {} /\ tabs = [t \in Tabs |-> NoTab]
    /\ begun = 0 /\ lost = 0
    /\ deadline = [l \in Logins |-> 0] /\ answered = {}
    /\ overlap = FALSE /\ crowded = FALSE

-----------------------------------------------------------------------------
Step(t, r) == tabs' = [tabs EXCEPT ![t] = r]

\* The browser sends a request with its cookie as it is now.
Send(t, r) ==
    /\ Step(t, [r EXCEPT !.sent = cookie])
    /\ overlap' = (overlap \/ \E u \in Tabs \ {t} : UnderWay(u))

\* The server answers; set is what the reply does to the cookie.
Answer(t, set, then) ==
    Step(t, [tabs[t] EXCEPT !.pc = "reply", !.sent = {}, !.set = set, !.then = then])

\* pendingFlows
pendingFlows_All(c) == c

pendingFlows(c) == {f \in c : f.exp > clock}

\* LoginHandler, Begin: opened in a tab that is not waiting for anything.
OpenLogin(t) ==
    /\ ~UnderWay(t) /\ begun < MaxLogins
    /\ Send(t, [NoTab EXCEPT !.pc = "begin"])
    /\ UNCHANGED <<clock, cookie, begun, lost, history>>

\* The pending logins and f; of more than maxPendingFlows, the last ones.
Later(flows, f) == {g \in flows : g.id > f.id}

Remembered(c, f) ==
    LET flows == pendingFlows(c) \cup {f}
    IN {g \in flows : Cardinality(Later(flows, g)) < maxPendingFlows}

\* endpoint, authorizeURL: Begin sends the browser to the IdP, or nowhere when
\* the IdP cannot be discovered.
endpoint == {"idp", "idle"}

\* The cookie may be too large with the other logins; that the endpoint is
\* unknown is found out after the cookie is set.
Begin(t) ==
    LET f == [id |-> begun + 1, exp |-> clock + flowTTL]
        flows == Remembered(tabs[t].sent, f)
    IN
    /\ tabs[t].pc = "begin" /\ begun < MaxLogins
    /\ begun' = begun + 1
    /\ deadline' = [deadline EXCEPT ![f.id] = f.exp]
    /\ \E c \in {flows, {f}}, then \in endpoint :
        /\ Step(t, [NoTab EXCEPT !.pc = "reply", !.id = f.id, !.set = SetTo(c), !.then = then])
        /\ crowded' = (crowded \/ c # flows)
    /\ UNCHANGED <<clock, cookie, net, answered>>

\* No entropy, or a cookie too large even with this login alone.
BeginFails(t) ==
    /\ tabs[t].pc = "begin"
    /\ Answer(t, Unset, "idle")
    /\ UNCHANGED <<clock, cookie, begun, net, history>>

\* A reply arrives; what it sets replaces the cookie.
Receive(t) ==
    /\ tabs[t].pc = "reply"
    /\ cookie' \in IF tabs[t].set = Unset THEN {cookie} ELSE tabs[t].set
    /\ Step(t, [tabs[t] EXCEPT !.pc = tabs[t].then, !.set = Unset, !.then = "idle"])
    /\ UNCHANGED <<clock, begun, net, history>>

\* A reply is lost; after a callback the tab still has its URL.
Lose(t) ==
    /\ tabs[t].pc = "reply" /\ lost < MaxLost
    /\ lost' = lost + 1
    /\ Step(t, [tabs[t] EXCEPT !.pc = IF tabs[t].then = "shown" THEN "shown" ELSE "idle",
                               !.set = Unset, !.then = "idle"])
    /\ UNCHANGED <<clock, cookie, begun, overlap, history>>

-----------------------------------------------------------------------------
\* The IdP sends the tab back, with a code or an error; the user may reload.
Authenticate(t, got) ==
    /\ tabs[t].pc = "idp"
    /\ Send(t, [tabs[t] EXCEPT !.pc = "callback", !.got = got])
    /\ UNCHANGED <<clock, cookie, begun, lost, history>>

Reload(t) ==
    /\ tabs[t].pc = "shown"
    /\ Send(t, [tabs[t] EXCEPT !.pc = "callback"])
    /\ UNCHANGED <<clock, cookie, begun, lost, history>>

\* CallbackHandler up to the exchange.
matchFlow(flows, id) == \E f \in flows : f.id = id

consumeFlow_All(flows, id) == {}

consumeFlow_None(flows, id) == flows

consumeFlow(flows, id) == {f \in flows : f.id # id}

Callback(t) ==
    LET flows == pendingFlows(tabs[t].sent)
        id == tabs[t].id
        rest == consumeFlow(flows, id)
    IN
    /\ tabs[t].pc = "callback"
    /\ \/ /\ flows = {}
          /\ Answer(t, SetTo({}), "shown") /\ UNCHANGED <<answered, crowded>>
       \/ /\ flows # {} /\ ~matchFlow(flows, id)
          /\ Answer(t, Unset, "shown") /\ UNCHANGED <<answered, crowded>>
       \/ /\ matchFlow(flows, id)
          /\ answered' = answered \cup {id}
          /\ \E c \in {rest, {}} :
              /\ crowded' = (crowded \/ c # rest)
              /\ IF tabs[t].got = "code"
                 THEN Step(t, [tabs[t] EXCEPT !.pc = "exchange", !.sent = {}, !.set = SetTo(c)])
                 ELSE Answer(t, SetTo(c), "shown")
    /\ UNCHANGED <<clock, cookie, begun, net, deadline>>

\* The exchange, the ID token's checks and the session: done or refused, the
\* cookie is the same.  The session is Session's concern.
Exchange(t) ==
    /\ tabs[t].pc = "exchange"
    /\ Answer(t, tabs[t].set, "shown")
    /\ UNCHANGED <<clock, cookie, begun, net, history>>

Tick ==
    /\ clock < MaxClock
    /\ clock' = clock + 1
    /\ UNCHANGED <<cookie, tabs, begun, net, history>>

Next ==
    \/ \E t \in Tabs :
        \/ OpenLogin(t) \/ Begin(t) \/ BeginFails(t) \/ Receive(t) \/ Lose(t)
        \/ \E got \in {"code", "error", "nothing"} : Authenticate(t, got)
        \/ Reload(t) \/ Callback(t) \/ Exchange(t)
    \/ Tick

Spec == Init /\ [][Next]_vars

-----------------------------------------------------------------------------
Holds(c, id) == \E f \in c : f.id = id

\* The login a tab is at the IdP for is still in the cookie, unless it has
\* expired or as many later logins were begun as the cookie holds: tabs "log
\* in concurrently without the second clobbering the first's state"
\* (oidcFlowSet).
TabsDontClobber ==
    \A t \in Tabs :
        /\ tabs[t].pc = "idp" /\ ~crowded
        /\ clock < deadline[tabs[t].id] /\ begun - tabs[t].id < maxPendingFlows
        => Holds(cookie, tabs[t].id)

\* As long as no two requests of the browser overlap, it is so: no callback,
\* stale, failed or reloaded, ends the login of another tab.
PendingSurvives == overlap \/ TabsDontClobber

\* A login whose callback was accepted does not stay pending (consumeFlow),
\* when the browser got the reply and no other request crossed it.
AnsweredIsGone ==
    ~overlap /\ lost = 0 /\ (\A t \in Tabs : ~UnderWay(t)) =>
        \A id \in answered : ~Holds(cookie, id)

\* A callback ends its own login and no other.
EndsItsOwn == PendingSurvives /\ AnsweredIsGone

\* However often the cookie is sealed again, a login's callback is only
\* accepted before the login's own deadline (pendingFlows).
DeadlineHolds ==
    [][\A id \in answered' \ answered : clock < deadline[id]]_vars
=============================================================================
