-------------------------- MODULE LoginFlowProofs --------------------------
(***************************************************************************)
(* Safety of oidc/login.go for any number of tabs and logins: a callback   *)
(* ends its own login and no other, and only before its deadline; the flow *)
(* cookie stays small.                                                     *)
(***************************************************************************)
EXTENDS LoginFlow, FiniteSetTheorems, WellFoundedInduction, TLAPS

\* A cookie only holds logins that were begun, each with its own deadline, and
\* no more of them than it may.
Sound(c) ==
    /\ \A f \in c : f.id \in 1..begun /\ f.exp = deadline[f.id]
    /\ IsFiniteSet(c) /\ Cardinality(c) <= maxPendingFlows

CookieInv ==
    Sound(cookie) /\ \A t \in Tabs : Sound(tabs[t].sent) /\ \A c \in tabs[t].set : Sound(c)

\* No two tabs have the same login in their URL, and a tab that is past Begin has
\* one; only a reply to come has anything to do.
TabInv ==
    \A t \in Tabs :
        /\ tabs[t].id \in 0..begun
        /\ tabs[t].pc \in {"idp", "callback", "exchange", "shown"} => tabs[t].id # 0
        /\ tabs[t].then # "idle" => tabs[t].pc = "reply" /\ tabs[t].id # 0
        /\ tabs[t].set # Unset => tabs[t].pc \in {"exchange", "reply"}
        /\ \A u \in Tabs \ {t} : tabs[u].id = tabs[t].id => tabs[t].id = 0

\* While requests do not overlap, the one under way carries the browser's cookie.
TurnInv ==
    /\ \A t, u \in Tabs : UnderWay(t) /\ UnderWay(u) => t = u
    /\ \A t \in Tabs : tabs[t].pc \in {"begin", "callback"} => tabs[t].sent = cookie

\* A login that has neither expired nor been pushed out.
Alive(l) == clock < deadline[l] /\ begun - l < maxPendingFlows

\* A login at the IdP is in the cookie and in whatever is to replace it, and a
\* login on its way to the IdP is in the cookie that is set with it.
PendingInv ==
    \A t \in Tabs : Alive(tabs[t].id) =>
        /\ tabs[t].pc = "idp" =>
            Holds(cookie, tabs[t].id) /\ \A u \in Tabs : \A c \in tabs[u].set : Holds(c, tabs[t].id)
        /\ tabs[t].then = "idp" =>
            tabs[t].set # Unset /\ \A c \in tabs[t].set : Holds(c, tabs[t].id)

\* A login that was answered is in no cookie to come, and in the browser's only
\* as long as one is to come.
AnsweredInv ==
    \A id \in answered :
        /\ \A t \in Tabs : \A c \in tabs[t].set : ~Holds(c, id)
        /\ Holds(cookie, id) => \E t \in Tabs : tabs[t].set # Unset

LoginInv ==
    /\ TypeOK /\ TabInv /\ CookieInv /\ answered \subseteq 1..begun
    /\ ~overlap => /\ TurnInv
                   /\ ~crowded => PendingInv
                   /\ lost = 0 => AnsweredInv

-----------------------------------------------------------------------------
\* A set of flows has a first one.
LEMMA FirstFlow ==
    ASSUME NEW c \in Cookie, c # {}
    PROVE  \E f \in c : \A g \in c : f.id <= g.id
  <1> DEFINE N == {f.id : f \in c}
             LT == OpToRel(<, Nat)
  <1>1. N \subseteq Nat /\ N # {}
    BY DEF Cookie, Flow, Logins
  <1>2. IsWellFoundedOn(LT, Nat) /\ \A i, j \in Nat : i < j => <<i, j>> \in LT
    BY NatLessThanWellFounded DEF OpToRel
  <1> HIDE DEF LT, N
  <1>3. PICK n \in N : \A x \in N : ~(<<x, n>> \in LT)
    <2>1. IsWellFoundedOn(LT, Nat) /\ N \subseteq Nat /\ N # {}
      BY <1>1, <1>2
    <2>2. QED
      BY <2>1, WFMin, ZenonT(30)
  <1>4. ASSUME NEW x \in N
        PROVE  n <= x
    <2>1. n \in Nat /\ x \in Nat
      BY <1>1
    <2>2. ~(x < n)
      BY <1>2, <1>3, <2>1, Zenon
    <2>3. QED
      BY <2>1, <2>2
  <1>5. QED
    BY <1>3, <1>4 DEF N

\* Sound flows differ in their number: those after l are at most begun - l.
LEMMA FewLater ==
    ASSUME NEW F \in Cookie, NEW l \in Nat, NEW n \in Nat, l <= n,
           \A g \in F : g.id \in (l + 1)..n,
           \A g, h \in F : g.id = h.id => g = h
    PROVE  IsFiniteSet(F) /\ Cardinality(F) <= n - l
  <1> DEFINE I == (l + 1)..n
             num == [g \in F |-> g.id]
  <1>1. num \in Injection(F, I)
    BY DEF Injection, IsInjective
  <1>2. IsFiniteSet(I) /\ Cardinality(I) = n - l
    <2>1. l + 1 \in Int /\ n \in Int
      OBVIOUS
    <2>2. IsFiniteSet(I) /\ Cardinality(I) = IF l + 1 > n THEN 0 ELSE n - (l + 1) + 1
      BY <2>1, FS_Interval
    <2>3. QED
      BY <2>2
  <1> HIDE DEF I, num
  <1>3. QED
    BY <1>1, <1>2, FS_Injection

\* The newest maxPendingFlows of a set are that many at most.
LEMMA NewestFew ==
    ASSUME NEW F \in Cookie, IsFiniteSet(F), \A g, h \in F : g.id = h.id => g = h
    PROVE  LET N == {g \in F : Cardinality(Later(F, g)) < maxPendingFlows}
           IN  IsFiniteSet(N) /\ Cardinality(N) <= maxPendingFlows
  <1> DEFINE N == {g \in F : Cardinality(Later(F, g)) < maxPendingFlows}
  <1>1. N \in Cookie /\ N \subseteq F /\ IsFiniteSet(N)
    BY FS_Subset DEF Cookie
  <1>2. CASE N = {}
    BY <1>2, FS_EmptySet, ConstAssumption
  <1>3. CASE N # {}
    <2>1. PICK f \in N : \A g \in N : f.id <= g.id
      BY <1>1, <1>3, FirstFlow
    <2>2. N \ {f} \subseteq Later(F, f)
      <3>1. ASSUME NEW g \in N, g # f
            PROVE  g.id > f.id
        <4>1. g.id # f.id /\ f.id <= g.id
          BY <2>1, <3>1
        <4>2. g.id \in Nat /\ f.id \in Nat
          BY DEF Cookie, Flow, Logins
        <4>3. QED
          BY <4>1, <4>2
      <3>2. QED
        BY <3>1 DEF Later
    <2>3. IsFiniteSet(Later(F, f))
      BY FS_Subset DEF Later
    <2>4. /\ Cardinality(N \ {f}) <= Cardinality(Later(F, f))
          /\ Cardinality(Later(F, f)) \in Nat /\ Cardinality(N \ {f}) \in Nat
      BY <1>1, <2>2, <2>3, FS_Subset, FS_RemoveElement, FS_CardinalityType
    <2>5. Cardinality(N \ {f}) = Cardinality(N) - 1 /\ Cardinality(N) \in Nat
      BY <1>1, <2>1, FS_RemoveElement, FS_CardinalityType, Zenon
    <2>6. Cardinality(Later(F, f)) < maxPendingFlows
      BY <2>1
    <2>7. QED
      BY <1>1, <2>4, <2>5, <2>6, ConstAssumption
  <1>4. QED
    BY <1>2, <1>3

\* Begin's cookie: it holds the new login and, of the pending ones, each that has
\* fewer than maxPendingFlows - 1 begun after it.
LEMMA RememberedFits ==
    ASSUME TypeOK, NEW c \in Cookie, Sound(c), begun < MaxLogins,
           NEW f, f = [id |-> begun + 1, exp |-> clock + flowTTL]
    PROVE  /\ Remembered(c, f) \in Cookie
           /\ Remembered(c, f) \subseteq c \cup {f}
           /\ f \in Remembered(c, f)
           /\ IsFiniteSet(Remembered(c, f)) /\ Cardinality(Remembered(c, f)) <= maxPendingFlows
           /\ \A g \in c : g.exp > clock /\ begun + 1 - g.id < maxPendingFlows => g \in Remembered(c, f)
  <1> DEFINE F == pendingFlows(c) \cup {f}
             R == Remembered(c, f)
  <1>0. /\ begun \in Nat /\ clock \in Nat /\ flowTTL \in Nat /\ maxPendingFlows \in Nat \ {0}
        /\ f.id = begun + 1
    BY ConstAssumption DEF TypeOK
  <1>1. f \in Flow
    BY <1>0, ConstAssumption DEF Flow, Logins
  <1>2. pendingFlows(c) \subseteq c /\ F \in Cookie
    BY <1>1 DEF pendingFlows, Cookie
  <1>3. IsFiniteSet(F)
    <2>1. IsFiniteSet(pendingFlows(c))
      BY <1>2, FS_Subset DEF Sound
    <2>2. QED
      BY <2>1, FS_AddElement, Zenon
  <1>4. \A g \in F : g.id \in 1..(begun + 1) /\ (g # f => g \in c /\ g.id \in 1..begun)
    BY <1>0, <1>2 DEF Sound
  <1>5. ASSUME NEW g \in F, NEW h \in F, g.id = h.id
        PROVE  g = h
    <2>1. CASE g = f \/ h = f
      BY <1>0, <1>4, <1>5, <2>1
    <2>2. CASE g # f /\ h # f
      <3>1. g \in Flow /\ h \in Flow /\ g \in c /\ h \in c
        BY <1>2, <1>4, <2>2 DEF Cookie
      <3>2. g.exp = h.exp
        BY <1>5, <3>1 DEF Sound
      <3>3. QED
        BY <1>5, <3>1, <3>2 DEF Flow
    <2>3. QED
      BY <2>1, <2>2
  <1>6. R = {g \in F : Cardinality(Later(F, g)) < maxPendingFlows}
    BY DEF Remembered
  <1> HIDE DEF F, R
  <1>7. IsFiniteSet(R) /\ Cardinality(R) <= maxPendingFlows
    BY <1>2, <1>3, <1>5, <1>6, NewestFew
  <1>8. ASSUME NEW g \in F, begun + 1 - g.id < maxPendingFlows
        PROVE  g \in R
    <2> DEFINE L == Later(F, g)
    <2>1. g.id \in Nat /\ g.id <= begun + 1
      BY <1>0, <1>4
    <2>2. L \in Cookie /\ L \subseteq F
      BY <1>2 DEF Later, Cookie
    <2>3. \A h \in L : h.id \in (g.id + 1)..(begun + 1)
      BY <1>0, <1>4, <2>1 DEF Later
    <2>4. \A h, k \in L : h.id = k.id => h = k
      BY <1>5, <2>2
    <2> HIDE DEF L
    <2>5. IsFiniteSet(L) /\ Cardinality(L) <= (begun + 1) - g.id
      BY <1>0, <2>1, <2>2, <2>3, <2>4, FewLater
    <2>6. Cardinality(L) < maxPendingFlows
      BY <1>0, <1>8, <2>1, <2>5, FS_CardinalityType
    <2>7. QED
      BY <1>6, <2>6 DEF L
  <1>9. f \in R
    BY <1>0, <1>8 DEF F
  <1>10. R \in Cookie /\ R \subseteq c \cup {f}
    BY <1>2, <1>6 DEF Cookie, F
  <1>11. \A g \in c : g.exp > clock /\ begun + 1 - g.id < maxPendingFlows => g \in R
    BY <1>8 DEF F, pendingFlows
  <1>12. QED
    BY <1>7, <1>9, <1>10, <1>11 DEF R

-----------------------------------------------------------------------------
\* One tab becomes n; its login is the one it had, none, or the one just begun.
LEMMA TabStep ==
    ASSUME TypeOK, TabInv, NEW t \in Tabs, NEW n \in Tab, Step(t, n),
           begun' = begun \/ begun' = begun + 1,
           n.id \in {0, tabs[t].id} \/ (n.id = begun + 1 /\ begun' = begun + 1),
           n.pc \in {"idp", "callback", "exchange", "shown"} => n.id # 0,
           n.then # "idle" => n.pc = "reply" /\ n.id # 0,
           n.set # Unset => n.pc \in {"exchange", "reply"}
    PROVE  /\ tabs' \in [Tabs -> Tab] /\ TabInv'
           /\ tabs'[t] = n /\ \A u \in Tabs \ {t} : tabs'[u] = tabs[u]
  <1>1. tabs' \in [Tabs -> Tab] /\ tabs'[t] = n /\ \A u \in Tabs \ {t} : tabs'[u] = tabs[u]
    BY DEF TypeOK, Step
  <1>2. begun \in Nat /\ \A u \in Tabs : tabs[u].id \in Nat /\ tabs[u].id <= begun
    BY DEF TypeOK, TabInv
  <1>3. n.id \in 0..begun'
    BY <1>2
  <1>4. \A u \in Tabs \ {t} : n.id = tabs[u].id => n.id = 0
    BY <1>2 DEF TabInv
  <1>5. ASSUME NEW u \in Tabs
        PROVE  /\ tabs'[u].id \in 0..begun'
               /\ tabs'[u].pc \in {"idp", "callback", "exchange", "shown"} => tabs'[u].id # 0
               /\ tabs'[u].then # "idle" => tabs'[u].pc = "reply" /\ tabs'[u].id # 0
               /\ tabs'[u].set # Unset => tabs'[u].pc \in {"exchange", "reply"}
               /\ \A v \in Tabs \ {u} : tabs'[v].id = tabs'[u].id => tabs'[u].id = 0
    <2>1. CASE u = t
      BY <1>1, <1>3, <1>4, <2>1
    <2>2. CASE u # t
      <3>1. tabs'[u] = tabs[u] /\ tabs[u].id \in 0..begun'
        BY <1>1, <1>2, <2>2
      <3>2. ASSUME NEW v \in Tabs \ {u}, tabs'[v].id = tabs[u].id
            PROVE  tabs[u].id = 0
        <4>1. CASE v = t
          BY <1>1, <1>4, <2>2, <3>2, <4>1
        <4>2. CASE v # t
          BY <1>1, <3>2, <4>2 DEF TabInv
        <4>3. QED
          BY <4>1, <4>2
      <3>3. QED
        BY <3>1, <3>2 DEF TabInv
    <2>3. QED
      BY <2>1, <2>2
  <1>6. QED
    BY <1>1, <1>5 DEF TabInv, Unset

\* Sound cookies stay sound when a login is begun.
LEMMA SoundStays ==
    ASSUME TypeOK, NEW c, Sound(c),
           \/ begun' = begun /\ deadline' = deadline
           \/ begun' = begun + 1 /\ \E e : deadline' = [deadline EXCEPT ![begun + 1] = e]
    PROVE  Sound(c)'
  <1>1. begun \in Nat /\ \A f \in c : f.id \in 1..begun
    BY DEF TypeOK, Sound
  <1>2. \A f \in c : f.id \in 1..begun' /\ deadline'[f.id] = deadline[f.id]
    <2>1. CASE begun' = begun /\ deadline' = deadline
      BY <1>1, <2>1
    <2>2. CASE begun' = begun + 1 /\ \E e : deadline' = [deadline EXCEPT ![begun + 1] = e]
      <3>1. PICK e : deadline' = [deadline EXCEPT ![begun + 1] = e]
        BY <2>2, Zenon
      <3>2. ASSUME NEW f \in c
            PROVE  f.id \in 1..begun' /\ deadline'[f.id] = deadline[f.id]
        <4>1. f.id \in 1..begun /\ f.id # begun + 1 /\ f.id \in 1..begun'
          BY <1>1, <2>2
        <4>2. f.id \in DOMAIN deadline
          BY <4>1, ConstAssumption DEF TypeOK, Logins
        <4>3. QED
          BY <3>1, <4>1, <4>2
      <3>3. QED
        BY <3>2
    <2>3. QED
      BY <2>1, <2>2
  <1>3. QED
    BY <1>2 DEF Sound

LEMMA SoundSubset ==
    ASSUME NEW c, NEW d, Sound(c), d \subseteq c
    PROVE  Sound(d)
  <1>1. IsFiniteSet(d) /\ Cardinality(d) <= Cardinality(c)
    BY FS_Subset DEF Sound
  <1>2. Cardinality(d) \in Nat /\ Cardinality(c) \in Nat
    BY <1>1, FS_CardinalityType DEF Sound
  <1>3. QED
    BY <1>1, <1>2, ConstAssumption DEF Sound

LEMMA NoFlowsSound == Sound({})
  BY FS_EmptySet, ConstAssumption DEF Sound

\* The cookies of a step that begins no login.
LEMMA CookieStep ==
    ASSUME TypeOK, CookieInv, NEW t \in Tabs, NEW n,
           tabs'[t] = n, \A u \in Tabs \ {t} : tabs'[u] = tabs[u],
           begun' = begun, deadline' = deadline,
           Sound(n.sent), \A c \in n.set : Sound(c), Sound(cookie')
    PROVE  CookieInv'
  <1>1. \A c : Sound(c)' <=> Sound(c)
    BY DEF Sound
  <1>2. Sound(cookie)'
    BY DEF Sound
  <1>3. ASSUME NEW u \in Tabs
        PROVE  Sound(tabs[u].sent)' /\ \A c \in tabs'[u].set : Sound(c)'
    <2>1. Sound(tabs'[u].sent) /\ \A c \in tabs'[u].set : Sound(c)
      BY DEF CookieInv
    <2>2. Sound(tabs[u].sent)'
      BY <2>1 DEF Sound
    <2>3. QED
      BY <1>1, <2>1, <2>2
  <1>4. QED
    BY <1>2, <1>3 DEF CookieInv

\* A request leaves: of Begin, or a callback.
LEMMA SendKeeps ==
    ASSUME LoginInv, NEW t \in Tabs, ~UnderWay(t), NEW n \in Tab, Step(t, n),
           n.pc \in {"begin", "callback"}, n.sent = cookie, n.set = Unset, n.then = "idle",
           n.id \in {0, tabs[t].id}, n.pc = "callback" => n.id # 0,
           overlap' = (overlap \/ \E u \in Tabs \ {t} : UnderWay(u)),
           UNCHANGED <<clock, cookie, begun, lost, deadline, answered, crowded>>
    PROVE  LoginInv'
  <1>1. TypeOK /\ TabInv /\ CookieInv /\ answered \subseteq 1..begun
    BY DEF LoginInv
  <1>2. /\ tabs' \in [Tabs -> Tab] /\ TabInv'
        /\ tabs'[t] = n /\ \A u \in Tabs \ {t} : tabs'[u] = tabs[u]
    BY <1>1, TabStep
  <1>3. CookieInv'
    <2>1. Sound(n.sent) /\ Sound(cookie') /\ \A c \in n.set : Sound(c)
      BY <1>1 DEF CookieInv, Unset
    <2>2. QED
      BY <1>1, <1>2, <2>1, CookieStep
  <1>4. TypeOK'
    BY <1>1, <1>2 DEF TypeOK
  <1>5. ASSUME ~overlap'
        PROVE  TurnInv' /\ (~crowded' => PendingInv') /\ (lost' = 0 => AnsweredInv')
    <2>1. ~overlap /\ \A u \in Tabs \ {t} : ~UnderWay(u)
      BY <1>5, Zenon
    <2>2. \A u \in Tabs : ~UnderWay(u) /\ tabs[u].set = Unset
      BY <1>1, <2>1 DEF TabInv, UnderWay
    <2>3. TurnInv'
      <3>1. \A u \in Tabs \ {t} : ~(UnderWay(u)')
        BY <1>2, <2>1 DEF UnderWay
      <3>2. QED
        BY <1>2, <3>1 DEF TurnInv, UnderWay
    <2>4. \A u \in Tabs : tabs'[u].set = Unset
      BY <1>2, <2>2
    <2>5. ~crowded' => PendingInv'
      <3>1. \A l : Alive(l)' <=> Alive(l)
        BY Zenon DEF Alive
      <3>2. SUFFICES ASSUME ~crowded, NEW u \in Tabs \ {t}, tabs[u].pc = "idp", Alive(tabs[u].id)
                     PROVE  Holds(cookie, tabs[u].id)
        <4>1. tabs'[t].pc # "idp" /\ tabs'[t].then # "idp"
          BY <1>2
        <4>2. \A u \in Tabs \ {t} : tabs[u].then # "idp"
          BY <2>2, <1>1 DEF TabInv, UnderWay
        <4>3. QED
          BY <1>2, <2>4, <3>1, <3>2, <4>1, <4>2 DEF PendingInv, Alive, Unset, Holds
      <3>3. QED
        BY <2>1, <3>2 DEF LoginInv, PendingInv
    <2>6. lost' = 0 => AnsweredInv'
      <3>1. SUFFICES ASSUME lost = 0, NEW id \in answered
                     PROVE  ~Holds(cookie, id)
        BY <2>4 DEF AnsweredInv, Unset, Holds
      <3>2. QED
        BY <2>1, <2>2, <3>1 DEF LoginInv, AnsweredInv
    <2>7. QED
      BY <2>3, <2>5, <2>6
  <1>6. QED
    BY <1>1, <1>2, <1>3, <1>4, <1>5 DEF LoginInv

\* The server answers a request, or goes on to the exchange: the cookies it sets
\* hold the logins at the IdP, and none that was answered.
LEMMA AnswerKeeps ==
    ASSUME LoginInv, NEW t \in Tabs, UnderWay(t), NEW n \in Tab, Step(t, n),
           n.pc \in {"exchange", "reply"}, n.id = tabs[t].id, n.sent = {},
           n.pc = "exchange" => n.id # 0 /\ n.then = "idle",
           n.then # "idle" => n.then = "shown" /\ n.id # 0,
           \A c \in n.set : Sound(c),
           UNCHANGED <<clock, cookie, begun, lost, overlap, deadline>>,
           answered' \subseteq 1..begun, crowded' \in BOOLEAN, crowded => crowded',
           ~overlap /\ ~crowded' =>
               \A u \in Tabs \ {t} : tabs[u].pc = "idp" /\ Alive(tabs[u].id) =>
                   \A c \in n.set : Holds(c, tabs[u].id),
           ~overlap /\ lost = 0 =>
               \A id \in answered' : /\ \A c \in n.set : ~Holds(c, id)
                                     /\ Holds(cookie, id) => n.set # Unset
    PROVE  LoginInv'
  <1>1. TypeOK /\ TabInv /\ CookieInv /\ answered \subseteq 1..begun
    BY DEF LoginInv
  <1>2. /\ tabs' \in [Tabs -> Tab] /\ TabInv'
        /\ tabs'[t] = n /\ \A u \in Tabs \ {t} : tabs'[u] = tabs[u]
    <2>1. /\ n.id \in {0, tabs[t].id}
          /\ n.pc \in {"idp", "callback", "exchange", "shown"} => n.id # 0
          /\ n.then # "idle" => n.pc = "reply" /\ n.id # 0
      BY Zenon
    <2>2. QED
      BY <1>1, <2>1, TabStep
  <1>3. CookieInv'
    <2>1. Sound(n.sent) /\ Sound(cookie')
      BY <1>1, NoFlowsSound, Zenon DEF CookieInv
    <2>2. QED
      BY <1>1, <1>2, <2>1, CookieStep, Zenon
  <1>4. TypeOK'
    BY <1>1, <1>2, ConstAssumption DEF TypeOK, Logins
  <1>5. ASSUME ~overlap
        PROVE  TurnInv' /\ (~crowded' => PendingInv') /\ (lost' = 0 => AnsweredInv')
    <2>1. TurnInv /\ \A u \in Tabs \ {t} : ~UnderWay(u) /\ tabs[u].set = Unset /\ tabs[u].then = "idle"
      BY <1>1, <1>5, Zenon DEF LoginInv, TurnInv, TabInv, UnderWay
    <2>2. TurnInv'
      <3>1. \A u \in Tabs \ {t} : ~(UnderWay(u)')
        BY <1>2, <2>1 DEF UnderWay
      <3>2. QED
        BY <1>2, <3>1, Zenon DEF TurnInv, UnderWay
    <2>3. ASSUME ~crowded'
          PROVE  PendingInv'
      <3>1. ASSUME NEW u \in Tabs, Alive(tabs[u].id)'
            PROVE  /\ tabs'[u].then # "idp"
                   /\ tabs'[u].pc = "idp" =>
                        /\ Holds(cookie, tabs'[u].id)
                        /\ \A v \in Tabs : \A c \in tabs'[v].set : Holds(c, tabs'[u].id)
        <4>1. CASE u = t
          BY <1>2, <4>1, Zenon
        <4>2. CASE u # t
          <5>1. tabs'[u] = tabs[u] /\ Alive(tabs[u].id)
            BY <1>2, <3>1, <4>2 DEF Alive
          <5>2. \A v \in Tabs : v # t => tabs'[v].set = Unset
            BY <1>2, <2>1, Zenon
          <5>3. tabs[u].pc = "idp" => Holds(cookie, tabs[u].id)
            BY <1>5, <2>3, <5>1 DEF LoginInv, PendingInv
          <5>4. QED
            BY <1>2, <1>5, <2>1, <2>3, <4>2, <5>1, <5>2, <5>3 DEF Unset
        <4>3. QED
          BY <4>1, <4>2
      <3>2. QED
        BY <3>1, Zenon DEF PendingInv
    <2>4. ASSUME lost = 0
          PROVE  AnsweredInv'
      <3>1. \A u \in Tabs : u # t => tabs'[u].set = Unset
        BY <1>2, <2>1, Zenon
      <3>2. QED
        BY <1>2, <1>5, <2>4, <3>1, Zenon DEF AnsweredInv, Unset
    <2>5. QED
      BY <2>2, <2>3, <2>4
  <1>6. QED
    BY <1>1, <1>2, <1>3, <1>4, <1>5, Zenon DEF LoginInv

\* A reply arrives or is lost.
LEMMA ArriveKeeps ==
    ASSUME LoginInv, NEW t \in Tabs, tabs[t].pc = "reply", NEW n \in Tab, Step(t, n),
           n.pc \in {"idle", "idp", "shown"}, n.pc # "idle" => n.pc = tabs[t].then,
           n.id = tabs[t].id, n.sent = tabs[t].sent, n.set = Unset, n.then = "idle",
           UNCHANGED <<clock, begun, overlap, deadline, answered, crowded>>,
           \/ lost' = lost /\ cookie' \in IF tabs[t].set = Unset THEN {cookie} ELSE tabs[t].set
           \/ lost' = lost + 1 /\ cookie' = cookie /\ n.pc # "idp"
    PROVE  LoginInv'
  <1>1. TypeOK /\ TabInv /\ CookieInv /\ answered \subseteq 1..begun
    BY Zenon DEF LoginInv
  <1>2. /\ tabs' \in [Tabs -> Tab] /\ TabInv'
        /\ tabs'[t] = n /\ \A u \in Tabs \ {t} : tabs'[u] = tabs[u]
    <2>1. n.pc \in {"idp", "callback", "exchange", "shown"} => n.id # 0
      BY <1>1 DEF TabInv
    <2>2. QED
      BY <1>1, <2>1, TabStep, Zenon
  <1>3. cookie' \in Cookie /\ Sound(cookie')
    BY <1>1 DEF TypeOK, Tab, CookieInv
  <1>4. CookieInv'
    <2>1. Sound(n.sent) /\ \A c \in n.set : Sound(c)
      BY <1>1, Zenon DEF CookieInv, Unset
    <2>2. QED
      BY <1>1, <1>2, <1>3, <2>1, CookieStep, Zenon
  <1>5. TypeOK'
    <2>1. lost' \in Nat
      BY <1>1 DEF TypeOK
    <2>2. QED
      BY <1>1, <1>2, <1>3, <2>1, Zenon DEF TypeOK, Sound
  <1>6. ASSUME ~overlap
        PROVE  TurnInv' /\ (~crowded' => PendingInv') /\ (lost' = 0 => AnsweredInv')
    <2>1. \A u \in Tabs \ {t} : ~UnderWay(u) /\ tabs[u].set = Unset /\ tabs[u].then = "idle"
      BY <1>1, <1>6 DEF LoginInv, TurnInv, TabInv, UnderWay
    <2>2. TurnInv'
      <3>1. \A u \in Tabs : ~(UnderWay(u)') /\ tabs'[u].pc \notin {"begin", "callback"}
        BY <1>2, <2>1 DEF UnderWay
      <3>2. QED
        BY <3>1 DEF TurnInv
    <2>3. \A u \in Tabs : tabs'[u].set = Unset /\ tabs'[u].then = "idle"
      BY <1>2, <2>1
    <2>4. ASSUME ~crowded
          PROVE  PendingInv'
      <3>1. ASSUME NEW u \in Tabs, Alive(tabs[u].id)', tabs'[u].pc = "idp"
            PROVE  Holds(cookie', tabs'[u].id)
        <4>1. CASE u = t
          <5>1. tabs'[t].id = tabs[t].id /\ Alive(tabs[t].id) /\ tabs[t].then = "idp"
            BY <1>2, <3>1, <4>1, Zenon DEF Alive
          <5>2. tabs[t].set # Unset /\ \A c \in tabs[t].set : Holds(c, tabs[t].id)
            BY <1>6, <2>4, <5>1, Zenon DEF LoginInv, PendingInv
          <5>3. cookie' \in tabs[t].set
            BY <1>2, <3>1, <4>1, <5>2, Zenon
          <5>4. QED
            BY <4>1, <5>1, <5>2, <5>3, Zenon
        <4>2. CASE u # t
          <5>1. tabs'[u] = tabs[u] /\ Alive(tabs[u].id)
            BY <1>2, <3>1, <4>2, Zenon DEF Alive
          <5>2. Holds(cookie, tabs[u].id) /\ \A c \in tabs[t].set : Holds(c, tabs[u].id)
            BY <1>6, <2>4, <3>1, <5>1, Zenon DEF LoginInv, PendingInv
          <5>3. QED
            BY <5>1, <5>2, Zenon
        <4>3. QED
          BY <4>1, <4>2, Zenon
      <3>2. QED
        BY <2>3, <3>1 DEF PendingInv, Unset
    <2>5. ASSUME lost' = 0
          PROVE  AnsweredInv'
      <3>1. lost = 0 /\ cookie' \in IF tabs[t].set = Unset THEN {cookie} ELSE tabs[t].set
        BY <1>1, <2>5 DEF TypeOK
      <3>2. ASSUME NEW id \in answered
            PROVE  ~Holds(cookie', id)
        <4>1. CASE tabs[t].set = Unset
          <5>1. \A u \in Tabs : tabs[u].set = Unset
            BY <2>1, <4>1
          <5>2. QED
            BY <1>6, <3>1, <3>2, <4>1, <5>1, Zenon DEF LoginInv, AnsweredInv
        <4>2. CASE tabs[t].set # Unset
          BY <1>6, <3>1, <3>2, <4>2, Zenon DEF LoginInv, AnsweredInv
        <4>3. QED
          BY <4>1, <4>2
      <3>3. QED
        BY <2>3, <3>2 DEF AnsweredInv, Unset
    <2>6. QED
      BY <2>2, <2>4, <2>5, Zenon
  <1>7. QED
    BY <1>1, <1>2, <1>4, <1>5, <1>6, Zenon DEF LoginInv

\* Begin: no login is lost but those pushed out or dropped to keep the cookie
\* small, and none that was answered comes back.
LEMMA BeginKeeps ==
    ASSUME LoginInv, NEW t \in Tabs, Begin(t)
    PROVE  LoginInv'
  <1>1. TypeOK /\ TabInv /\ CookieInv /\ answered \subseteq 1..begun
    BY DEF LoginInv
  <1>2. PICK f : f = [id |-> begun + 1, exp |-> clock + flowTTL]
    BY Zenon
  <1>3. PICK S \in Cookie : S = tabs[t].sent
    BY <1>1 DEF TypeOK, Tab
  <1>4. PICK c \in {Remembered(S, f), {f}}, then \in endpoint :
            /\ Step(t, [NoTab EXCEPT !.pc = "reply", !.id = f.id, !.set = SetTo(c), !.then = then])
            /\ crowded' = (crowded \/ c # Remembered(S, f))
    BY <1>2, <1>3, Zenon DEF Begin
  <1>5. /\ tabs[t].pc = "begin" /\ begun < MaxLogins /\ begun' = begun + 1
        /\ deadline' = [deadline EXCEPT ![begun + 1] = clock + flowTTL]
        /\ UNCHANGED <<clock, cookie, lost, overlap, answered>>
    BY DEF Begin, net
  <1>6. /\ begun \in Nat /\ clock \in Nat /\ begun + 1 \in Logins /\ f.id = begun + 1
        /\ f \in Flow /\ clock + flowTTL \in Nat /\ maxPendingFlows \in Nat \ {0}
    BY <1>1, <1>2, <1>5, ConstAssumption DEF TypeOK, Logins, Flow
  <1>7. deadline' \in [Logins -> Nat] /\ deadline'[begun + 1] = clock + flowTTL
        /\ \A l \in 1..begun : deadline'[l] = deadline[l]
    BY <1>1, <1>5, <1>6, ConstAssumption DEF TypeOK, Logins
  <1>8. Sound(S)
    BY <1>1, <1>3 DEF CookieInv
  <1>9. /\ c \in Cookie /\ c \subseteq S \cup {f} /\ f \in c
        /\ IsFiniteSet(c) /\ Cardinality(c) <= maxPendingFlows
        /\ c = Remembered(S, f) =>
            \A g \in S : g.exp > clock /\ begun + 1 - g.id < maxPendingFlows => g \in c
    <2>1. /\ Remembered(S, f) \in Cookie /\ Remembered(S, f) \subseteq S \cup {f} /\ f \in Remembered(S, f)
          /\ IsFiniteSet(Remembered(S, f)) /\ Cardinality(Remembered(S, f)) <= maxPendingFlows
          /\ \A g \in S : g.exp > clock /\ begun + 1 - g.id < maxPendingFlows => g \in Remembered(S, f)
      BY <1>1, <1>2, <1>5, <1>8, RememberedFits
    <2>2. {f} \in Cookie /\ IsFiniteSet({f}) /\ Cardinality({f}) <= maxPendingFlows
      <3>1. {f} \in Cookie
        BY <1>6 DEF Cookie
      <3>2. IsFiniteSet({f}) /\ Cardinality({f}) = 1
        BY FS_Singleton, Zenon
      <3>3. QED
        BY <1>6, <3>1, <3>2
    <2>3. QED
      BY <1>4, <2>1, <2>2, Zenon
  <1> DEFINE n == [NoTab EXCEPT !.pc = "reply", !.id = f.id, !.set = SetTo(c), !.then = then]
  <1>10. /\ n \in Tab /\ n.pc = "reply" /\ n.id = begun + 1 /\ n.set = {c} /\ n.then = then
         /\ n.sent = {} /\ Step(t, n)
    BY <1>4, <1>6, <1>9, Zenon DEF NoTab, Tab, SetTo, endpoint, Cookie
  <1> HIDE DEF n
  <1>11. /\ tabs' \in [Tabs -> Tab] /\ TabInv'
         /\ tabs'[t] = n /\ \A u \in Tabs \ {t} : tabs'[u] = tabs[u]
    <2>1. n.id # 0
      BY <1>6, <1>10
    <2>2. QED
      BY <1>1, <1>5, <1>10, <2>1, TabStep, Zenon
  <1>12. \A d : Sound(d) => Sound(d)'
    BY <1>1, <1>5, SoundStays, Zenon
  <1>13. CookieInv'
    <2>1. Sound(cookie)'
      BY <1>1, <1>5, <1>12 DEF CookieInv, Sound
    <2>2. \A g \in c : g.id \in 1..begun' /\ g.exp = deadline'[g.id]
      <3>1. \A g \in S : g.id \in 1..begun' /\ g.exp = deadline'[g.id]
        BY <1>8, <1>12 DEF Sound
      <3>2. f.id \in 1..begun' /\ f.exp = deadline'[f.id]
        BY <1>2, <1>5, <1>6, <1>7
      <3>3. QED
        BY <1>9, <3>1, <3>2
    <2>3. Sound(c)'
      BY <1>9, <2>2 DEF Sound
    <2>4. Sound({})'
      BY FS_EmptySet, ConstAssumption DEF Sound
    <2>5. ASSUME NEW u \in Tabs
          PROVE  Sound(tabs[u].sent)' /\ \A d \in tabs'[u].set : Sound(d)'
      <3>1. CASE u = t
        BY <1>10, <1>11, <2>3, <2>4, <3>1, Zenon DEF Sound
      <3>2. CASE u # t
        <4>1. tabs'[u] = tabs[u]
          BY <1>11, <3>2
        <4>2. PICK s : s = tabs[u].sent
          OBVIOUS
        <4>3. Sound(s)' /\ \A d \in tabs[u].set : Sound(d)'
          BY <1>1, <1>12, <4>2 DEF CookieInv
        <4>4. QED
          BY <4>1, <4>2, <4>3 DEF Sound
      <3>3. QED
        BY <3>1, <3>2, Zenon
    <2>6. QED
      BY <2>1, <2>5 DEF CookieInv
  <1>14. TypeOK'
    BY <1>1, <1>4, <1>5, <1>6, <1>7, <1>11, ConstAssumption DEF TypeOK
  <1>15. answered' \subseteq 1..begun'
    BY <1>1, <1>5, <1>6
  <1>16. ASSUME ~overlap
         PROVE  TurnInv' /\ (~crowded' => PendingInv') /\ (lost' = 0 => AnsweredInv')
    <2>1. /\ S = cookie
          /\ \A u \in Tabs \ {t} : ~UnderWay(u) /\ tabs[u].set = Unset /\ tabs[u].then = "idle"
          /\ tabs[t].set = Unset
      BY <1>1, <1>3, <1>5, <1>16, Zenon DEF LoginInv, TurnInv, TabInv, UnderWay
    <2>2. TurnInv'
      <3>1. \A u \in Tabs \ {t} : ~(UnderWay(u)') /\ tabs'[u].pc \notin {"begin", "callback"}
        BY <1>11, <2>1, Zenon DEF UnderWay
      <3>2. QED
        BY <1>10, <1>11, <3>1, Zenon DEF TurnInv
    <2>3. \A u \in Tabs \ {t} : tabs'[u].set = Unset
      BY <1>11, <2>1, Zenon
    <2>4. ASSUME ~crowded'
          PROVE  PendingInv'
      <3>1. ~crowded /\ c = Remembered(S, f)
        BY <1>4, <2>4, Zenon
      <3>2. ASSUME NEW u \in Tabs \ {t}, tabs[u].pc = "idp", Alive(tabs[u].id)'
            PROVE  Holds(cookie, tabs[u].id) /\ Holds(c, tabs[u].id)
        <4>1. PICK l \in 1..begun : l = tabs[u].id
          BY <1>1, <1>6, <3>2 DEF TabInv
        <4>2. clock < deadline[l] /\ begun + 1 - l < maxPendingFlows
          <5>1. tabs'[u].id = l
            BY <1>11, <4>1
          <5>2. clock' < deadline'[l] /\ begun' - l < maxPendingFlows
            BY <3>2, <5>1 DEF Alive
          <5>3. QED
            BY <1>5, <1>6, <1>7, <4>1, <5>2
        <4>3. Alive(l)
          BY <1>6, <4>1, <4>2 DEF Alive
        <4>4. PICK g \in cookie : g.id = l
          BY <1>16, <3>1, <3>2, <4>1, <4>3 DEF LoginInv, PendingInv, Holds
        <4>5. g.exp > clock
          BY <1>8, <2>1, <4>2, <4>4 DEF Sound
        <4>6. QED
          BY <1>9, <2>1, <3>1, <4>1, <4>2, <4>4, <4>5, Zenon DEF Holds
      <3>3. Holds(c, begun + 1)
        BY <1>6, <1>9, Zenon DEF Holds
      <3>4. ASSUME NEW u \in Tabs, Alive(tabs[u].id)'
            PROVE  /\ tabs'[u].pc = "idp" =>
                        /\ Holds(cookie, tabs'[u].id)
                        /\ \A v \in Tabs : \A d \in tabs'[v].set : Holds(d, tabs'[u].id)
                   /\ tabs'[u].then = "idp" =>
                        tabs'[u].set # Unset /\ \A d \in tabs'[u].set : Holds(d, tabs'[u].id)
        <4>1. CASE u = t
          BY <1>10, <1>11, <3>3, <4>1 DEF Unset
        <4>2. CASE u # t
          <5>1. tabs'[u] = tabs[u] /\ tabs[u].then # "idp"
            BY <1>11, <2>1, <4>2, Zenon
          <5>2. tabs'[u].pc = "idp" => Holds(cookie, tabs[u].id) /\ Holds(c, tabs[u].id)
            BY <3>2, <3>4, <4>2, <5>1
          <5>3. \A v \in Tabs : \A d \in tabs'[v].set : d = c
            BY <1>10, <1>11, <2>3 DEF Unset
          <5>4. QED
            BY <5>1, <5>2, <5>3
        <4>3. QED
          BY <4>1, <4>2, Zenon
      <3>5. QED
        BY <1>5, <3>4 DEF PendingInv
    <2>5. ASSUME lost = 0
          PROVE  AnsweredInv'
      <3>1. ASSUME NEW id \in answered
            PROVE  ~Holds(cookie, id) /\ ~Holds(c, id)
        <4>1. ~Holds(cookie, id)
          BY <1>16, <2>1, <2>5, <3>1 DEF LoginInv, AnsweredInv
        <4>2. id # f.id
          BY <1>1, <1>6, <3>1
        <4>3. QED
          BY <1>9, <2>1, <4>1, <4>2, Zenon DEF Holds
      <3>2. \A v \in Tabs : \A d \in tabs'[v].set : d = c
        BY <1>10, <1>11, <2>3, Zenon DEF Unset
      <3>3. QED
        BY <1>5, <3>1, <3>2 DEF AnsweredInv
    <2>6. QED
      BY <1>5, <2>2, <2>4, <2>5, Zenon
  <1>17. QED
    BY <1>5, <1>11, <1>13, <1>14, <1>15, <1>16 DEF LoginInv

\* What a request at the server finds when no other is under way.
LEMMA ServedAlone ==
    ASSUME LoginInv, ~overlap, NEW t \in Tabs, tabs[t].pc \in {"begin", "callback"}
    PROVE  /\ tabs[t].sent = cookie
           /\ lost = 0 => \A id \in answered : ~Holds(cookie, id)
           /\ ~crowded => \A u \in Tabs \ {t} : tabs[u].pc = "idp" /\ Alive(tabs[u].id) =>
                            /\ Holds(pendingFlows(cookie), tabs[u].id)
                            /\ tabs[u].id # tabs[t].id
  <1>1. TabInv /\ CookieInv /\ TurnInv
    BY Zenon DEF LoginInv
  <1>2. \A u \in Tabs : tabs[u].set = Unset
    BY <1>1 DEF TabInv, TurnInv, UnderWay
  <1>3. ASSUME lost = 0, NEW id \in answered
        PROVE  ~Holds(cookie, id)
    BY <1>2, <1>3 DEF LoginInv, AnsweredInv
  <1>4. ASSUME ~crowded, NEW u \in Tabs \ {t}, tabs[u].pc = "idp", Alive(tabs[u].id)
        PROVE  Holds(pendingFlows(cookie), tabs[u].id) /\ tabs[u].id # tabs[t].id
    <2>1. PICK g \in cookie : g.id = tabs[u].id
      BY <1>4, Zenon DEF LoginInv, PendingInv, Holds
    <2>2. g.exp = deadline[g.id]
      BY <1>1 DEF CookieInv, Sound
    <2>3. g.exp > clock
      BY <1>4, <2>1, <2>2 DEF Alive
    <2>4. g \in pendingFlows(cookie)
      BY <2>3 DEF pendingFlows
    <2>5. tabs[u].id # tabs[t].id
      BY <1>1, <1>4 DEF TabInv
    <2>6. QED
      BY <2>1, <2>4, <2>5, Zenon DEF Holds
  <1>5. tabs[t].sent = cookie
    BY <1>1 DEF TurnInv
  <1>6. QED
    BY <1>3, <1>4, <1>5

\* CallbackHandler up to the exchange.
LEMMA CallbackKeeps ==
    ASSUME LoginInv, NEW t \in Tabs, Callback(t)
    PROVE  LoginInv'
  <1>1. /\ TypeOK /\ TabInv /\ CookieInv /\ answered \subseteq 1..begun
        /\ tabs[t] \in Tab /\ crowded \in BOOLEAN
    BY DEF LoginInv, TypeOK
  <1>2. PICK flows : flows = pendingFlows(tabs[t].sent)
    OBVIOUS
  <1>3. PICK id : id = tabs[t].id
    OBVIOUS
  <1>4. PICK rest : rest = consumeFlow(flows, id)
    OBVIOUS
  <1>5. /\ tabs[t].pc = "callback" /\ UnderWay(t) /\ id \in 1..begun /\ tabs[t].then = "idle"
        /\ UNCHANGED <<clock, cookie, begun, lost, overlap, deadline>>
    BY <1>1, <1>3 DEF Callback, net, TabInv, UnderWay, TypeOK
  <1>6. /\ flows \subseteq tabs[t].sent /\ rest \subseteq flows
        /\ flows \in Cookie /\ rest \in Cookie /\ {} \in Cookie
    BY <1>1, <1>2, <1>4, Zenon DEF pendingFlows, consumeFlow, Tab, Cookie
  <1>7. Sound(rest) /\ Sound({})
    <2>1. Sound(tabs[t].sent) /\ rest \subseteq tabs[t].sent
      BY <1>1, <1>6 DEF CookieInv
    <2>2. QED
      BY <2>1, SoundSubset, NoFlowsSound
  <1>8. \/ flows = {} /\ Answer(t, SetTo({}), "shown") /\ UNCHANGED <<answered, crowded>>
        \/ flows # {} /\ Answer(t, Unset, "shown") /\ UNCHANGED <<answered, crowded>>
        \/ /\ answered' = answered \cup {id}
           /\ \E c \in {rest, {}} :
                /\ crowded' = (crowded \/ c # rest)
                /\ IF tabs[t].got = "code"
                   THEN Step(t, [tabs[t] EXCEPT !.pc = "exchange", !.sent = {}, !.set = SetTo(c)])
                   ELSE Answer(t, SetTo(c), "shown")
    BY <1>2, <1>3, <1>4 DEF Callback
  <1>9. ASSUME NEW set \in SUBSET Cookie, NEW pc \in {"reply", "exchange"},
               NEW then \in {"idle", "shown"}, pc = "exchange" => then = "idle",
               Step(t, [tabs[t] EXCEPT !.pc = pc, !.sent = {}, !.set = set, !.then = then]),
               \A c \in set : Sound(c),
               answered' \subseteq 1..begun, crowded' \in BOOLEAN, crowded => crowded',
               ~overlap /\ ~crowded' =>
                   \A u \in Tabs \ {t} : tabs[u].pc = "idp" /\ Alive(tabs[u].id) =>
                       \A c \in set : Holds(c, tabs[u].id),
               ~overlap /\ lost = 0 =>
                   \A l \in answered' : /\ \A c \in set : ~Holds(c, l)
                                        /\ Holds(cookie, l) => set # Unset
        PROVE  LoginInv'
    <2> DEFINE n == [tabs[t] EXCEPT !.pc = pc, !.sent = {}, !.set = set, !.then = then]
    <2>1. /\ n \in Tab /\ n.pc = pc /\ n.id = id /\ n.sent = {} /\ n.set = set /\ n.then = then
          /\ Step(t, n)
      BY <1>1, <1>3, <1>6, <1>9, Zenon DEF Tab
    <2> HIDE DEF n
    <2>2. id # 0 /\ n.id = tabs[t].id
      BY <1>1, <1>3, <1>5, <2>1 DEF TypeOK
    <2>3. QED
      BY <1>5, <1>9, <2>1, <2>2, AnswerKeeps
  <1>10. ASSUME ~overlap
         PROVE  /\ tabs[t].sent = cookie
                /\ lost = 0 => \A l \in answered : ~Holds(cookie, l)
                /\ ~crowded => \A u \in Tabs \ {t} : tabs[u].pc = "idp" /\ Alive(tabs[u].id) =>
                                 Holds(flows, tabs[u].id) /\ tabs[u].id # id
    <2>1. tabs[t].pc \in {"begin", "callback"}
      BY <1>5, Zenon
    <2>2. /\ tabs[t].sent = cookie
          /\ lost = 0 => \A l \in answered : ~Holds(cookie, l)
          /\ ~crowded => \A u \in Tabs \ {t} : tabs[u].pc = "idp" /\ Alive(tabs[u].id) =>
                            Holds(pendingFlows(cookie), tabs[u].id) /\ tabs[u].id # tabs[t].id
      BY <1>10, <2>1, ServedAlone
    <2>3. QED
      BY <1>2, <1>3, <2>2
  <1>11. CASE flows = {} /\ Answer(t, SetTo({}), "shown") /\ UNCHANGED <<answered, crowded>>
    <2>1. /\ Step(t, [tabs[t] EXCEPT !.pc = "reply", !.sent = {}, !.set = {{}}, !.then = "shown"])
          /\ {{}} \in SUBSET Cookie /\ \A c \in {{}} : Sound(c)
      BY <1>6, <1>7, <1>11 DEF Answer, SetTo
    <2>2. answered' \subseteq 1..begun /\ crowded' \in BOOLEAN /\ (crowded => crowded')
      BY <1>1, <1>11, Zenon
    <2>3. ~overlap /\ ~crowded' =>
               \A u \in Tabs \ {t} : tabs[u].pc = "idp" /\ Alive(tabs[u].id) =>
                   \A c \in {{}} : Holds(c, tabs[u].id)
      BY <1>10, <1>11, Zenon DEF Holds
    <2>4. ~overlap /\ lost = 0 =>
               \A l \in answered' : /\ \A c \in {{}} : ~Holds(c, l)
                                    /\ Holds(cookie, l) => {{}} # Unset
      BY DEF Holds, Unset
    <2>5. QED
      BY <1>9, <2>1, <2>2, <2>3, <2>4, Zenon
  <1>12. CASE flows # {} /\ Answer(t, Unset, "shown") /\ UNCHANGED <<answered, crowded>>
    <2>1. /\ Step(t, [tabs[t] EXCEPT !.pc = "reply", !.sent = {}, !.set = Unset, !.then = "shown"])
          /\ Unset \in SUBSET Cookie /\ \A c \in Unset : Sound(c)
      BY <1>12 DEF Answer, Unset
    <2>2. answered' \subseteq 1..begun /\ crowded' \in BOOLEAN /\ (crowded => crowded')
      BY <1>1, <1>12
    <2>3. ~overlap /\ ~crowded' =>
               \A u \in Tabs \ {t} : tabs[u].pc = "idp" /\ Alive(tabs[u].id) =>
                   \A c \in Unset : Holds(c, tabs[u].id)
      BY DEF Unset
    <2>4. ~overlap /\ lost = 0 =>
               \A l \in answered' : /\ \A c \in Unset : ~Holds(c, l)
                                    /\ Holds(cookie, l) => Unset # Unset
      BY <1>10, <1>12 DEF Unset
    <2>5. QED
      BY <1>9, <2>1, <2>2, <2>3, <2>4, Zenon
  <1>13. ASSUME answered' = answered \cup {id}, NEW c \in {rest, {}},
                crowded' = (crowded \/ c # rest),
                IF tabs[t].got = "code"
                THEN Step(t, [tabs[t] EXCEPT !.pc = "exchange", !.sent = {}, !.set = SetTo(c)])
                ELSE Answer(t, SetTo(c), "shown")
         PROVE  LoginInv'
    <2>1. PICK pc \in {"reply", "exchange"}, then \in {"idle", "shown"} :
            /\ pc = "exchange" => then = "idle"
            /\ Step(t, [tabs[t] EXCEPT !.pc = pc, !.sent = {}, !.set = {c}, !.then = then])
      <3>1. CASE tabs[t].got = "code"
        <4>1. [tabs[t] EXCEPT !.pc = "exchange", !.sent = {}, !.set = {c}]
                = [tabs[t] EXCEPT !.pc = "exchange", !.sent = {}, !.set = {c}, !.then = "idle"]
          BY <1>1, <1>5, Zenon DEF Tab
        <4>2. QED
          BY <1>13, <3>1, <4>1 DEF SetTo
      <3>2. CASE tabs[t].got # "code"
        BY <1>13, <3>2 DEF SetTo, Answer
      <3>3. QED
        BY <3>1, <3>2
    <2>2. {c} \in SUBSET Cookie /\ \A d \in {c} : Sound(d)
      BY <1>6, <1>7, <1>13
    <2>3. answered' \subseteq 1..begun /\ crowded' \in BOOLEAN /\ (crowded => crowded')
      BY <1>1, <1>5, <1>13
    <2>4. ASSUME ~overlap, ~crowded', NEW u \in Tabs \ {t}, tabs[u].pc = "idp", Alive(tabs[u].id)
          PROVE  Holds(c, tabs[u].id)
      <3>1. ~crowded /\ c = rest
        BY <1>13, <2>4, Zenon
      <3>2. Holds(flows, tabs[u].id) /\ tabs[u].id # id
        BY <1>10, <2>4, <3>1
      <3>3. QED
        BY <1>4, <3>1, <3>2 DEF Holds, consumeFlow
    <2>5. ASSUME ~overlap, lost = 0, NEW l \in answered'
          PROVE  ~Holds(c, l)
      <3>1. CASE l = id
        BY <1>4, <1>13, <3>1 DEF Holds, consumeFlow
      <3>2. CASE l \in answered
        <4>1. ~Holds(cookie, l) /\ tabs[t].sent = cookie
          BY <1>10, <2>5, <3>2
        <4>2. QED
          BY <1>6, <1>13, <4>1 DEF Holds
      <3>3. QED
        BY <1>13, <2>5, <3>1, <3>2
    <2>6. {c} # Unset
      BY Zenon DEF Unset
    <2>7. QED
      BY <1>9, <2>1, <2>2, <2>3, <2>4, <2>5, <2>6, Zenon
  <1>14. QED
    BY <1>8, <1>11, <1>12, <1>13

\* The browser's requests: a login opened, the way back from the IdP, a reload.
LEMMA RequestKeeps ==
    ASSUME LoginInv, NEW t \in Tabs, NEW got \in {"code", "error", "nothing"},
           OpenLogin(t) \/ Authenticate(t, got) \/ Reload(t)
    PROVE  LoginInv'
  <1>1. TypeOK /\ TabInv /\ tabs[t] \in Tab /\ cookie \in Cookie
    BY DEF LoginInv, TypeOK
  <1>2. /\ ~UnderWay(t) /\ overlap' = (overlap \/ \E u \in Tabs \ {t} : UnderWay(u))
        /\ UNCHANGED <<clock, cookie, begun, lost, deadline, answered, crowded>>
    BY DEF OpenLogin, Authenticate, Reload, Send, UnderWay, history
  <1>3. tabs[t].set = Unset /\ tabs[t].then = "idle"
    BY <1>1, <1>2, Zenon DEF TabInv, UnderWay
  <1>4. PICK n \in Tab : /\ Step(t, n) /\ n.pc \in {"begin", "callback"} /\ n.sent = cookie
                         /\ n.set = Unset /\ n.then = "idle" /\ n.id \in {0, tabs[t].id}
                         /\ n.pc = "callback" => n.id # 0
    <2>1. CASE OpenLogin(t)
      <3>1. Step(t, [NoTab EXCEPT !.pc = "begin", !.sent = cookie])
        BY <2>1 DEF OpenLogin, Send
      <3>2. [NoTab EXCEPT !.pc = "begin", !.sent = cookie] \in Tab
        BY <1>1, Zenon DEF NoTab, Tab, Unset, Cookie
      <3>3. QED
        BY <3>1, <3>2, Zenon DEF NoTab
    <2>2. CASE Authenticate(t, got) \/ Reload(t)
      <3>1. tabs[t].id # 0
        BY <1>1, <2>2 DEF Authenticate, Reload, TabInv
      <3>2. PICK g \in {"code", "error", "nothing"} :
                Step(t, [tabs[t] EXCEPT !.pc = "callback", !.got = g, !.sent = cookie])
        <4>1. CASE Authenticate(t, got)
          BY <4>1, Zenon DEF Authenticate, Send
        <4>2. CASE Reload(t)
          <5>1. [tabs[t] EXCEPT !.pc = "callback", !.sent = cookie]
                  = [tabs[t] EXCEPT !.pc = "callback", !.got = tabs[t].got, !.sent = cookie]
            BY <1>1, Zenon DEF Tab
          <5>2. Step(t, [tabs[t] EXCEPT !.pc = "callback", !.sent = cookie])
            BY <4>2 DEF Reload, Send
          <5>3. QED
            BY <1>1, <5>1, <5>2, Zenon DEF Tab
        <4>3. QED
          BY <2>2, <4>1, <4>2
      <3>3. [tabs[t] EXCEPT !.pc = "callback", !.got = g, !.sent = cookie] \in Tab
        BY <1>1, Zenon DEF Tab
      <3>4. QED
        BY <1>1, <1>3, <3>1, <3>2, <3>3, Zenon DEF Tab
    <2>3. QED
      BY <2>1, <2>2
  <1>5. QED
    BY <1>2, <1>4, SendKeeps

\* A Begin that fails and the end of an exchange leave the logins as they are.
LEMMA OutcomeKeeps ==
    ASSUME LoginInv, NEW t \in Tabs, BeginFails(t) \/ Exchange(t)
    PROVE  LoginInv'
  <1>1. /\ TypeOK /\ TabInv /\ CookieInv /\ tabs[t] \in Tab
        /\ answered \subseteq 1..begun /\ crowded \in BOOLEAN
    BY Zenon DEF LoginInv, TypeOK
  <1>2. /\ UnderWay(t)
        /\ UNCHANGED <<clock, cookie, begun, lost, overlap, deadline, answered, crowded>>
    BY DEF BeginFails, Exchange, UnderWay, net, history
  <1>3. PICK then \in {"idle", "shown"} :
            /\ then = "shown" => tabs[t].id # 0
            /\ Answer(t, tabs[t].set, then)
    <2>1. CASE BeginFails(t)
      <3>1. tabs[t].set = Unset
        BY <1>1, <2>1, Zenon DEF BeginFails, TabInv
      <3>2. QED
        BY <2>1, <3>1 DEF BeginFails
    <2>2. CASE Exchange(t)
      BY <1>1, <2>2 DEF Exchange, TabInv
    <2>3. QED
      BY <2>1, <2>2, Zenon
  <1> DEFINE n == [tabs[t] EXCEPT !.pc = "reply", !.sent = {}, !.set = tabs[t].set, !.then = then]
  <1>4. /\ n \in Tab /\ n.pc = "reply" /\ n.id = tabs[t].id /\ n.sent = {} /\ n.set = tabs[t].set
        /\ n.then = then /\ Step(t, n)
    BY <1>1, <1>3, Zenon DEF Answer, Tab, Cookie
  <1> HIDE DEF n
  <1>5. \A c \in n.set : Sound(c)
    BY <1>1, <1>4 DEF CookieInv
  <1>6. ~overlap /\ ~crowded' =>
            \A u \in Tabs \ {t} : tabs[u].pc = "idp" /\ Alive(tabs[u].id) =>
                \A c \in n.set : Holds(c, tabs[u].id)
    BY <1>2, <1>4 DEF LoginInv, PendingInv
  <1>7. ASSUME ~overlap, lost = 0, NEW id \in answered'
        PROVE  (\A c \in n.set : ~Holds(c, id)) /\ (Holds(cookie, id) => n.set # Unset)
    <2>1. \A u \in Tabs : tabs[u].set # Unset => u = t
      BY <1>1, <1>2, <1>7 DEF LoginInv, TurnInv, TabInv, UnderWay
    <2>2. QED
      BY <1>2, <1>4, <1>7, <2>1 DEF LoginInv, AnsweredInv
  <1>8. QED
    BY <1>1, <1>2, <1>3, <1>4, <1>5, <1>6, <1>7, AnswerKeeps, Zenon

\* A reply arrives, or is lost.
LEMMA ReplyKeeps ==
    ASSUME LoginInv, NEW t \in Tabs, Receive(t) \/ Lose(t)
    PROVE  LoginInv'
  <1>1. TypeOK /\ tabs[t] \in Tab
    BY DEF LoginInv, TypeOK
  <1>2. /\ tabs[t].pc = "reply"
        /\ UNCHANGED <<clock, begun, overlap, deadline, answered, crowded>>
    BY DEF Receive, Lose, net, history
  <1>3. PICK pc \in {"idle", "idp", "shown"} :
            /\ pc # "idle" => pc = tabs[t].then
            /\ Step(t, [tabs[t] EXCEPT !.pc = pc, !.set = Unset, !.then = "idle"])
            /\ \/ lost' = lost /\ cookie' \in IF tabs[t].set = Unset THEN {cookie} ELSE tabs[t].set
               \/ lost' = lost + 1 /\ cookie' = cookie /\ pc # "idp"
    <2>1. CASE Receive(t)
      BY <1>1, <2>1, Zenon DEF Receive, Tab, net
    <2>2. CASE Lose(t)
      <3>1. PICK pc \in {"idle", "shown"} : pc = IF tabs[t].then = "shown" THEN "shown" ELSE "idle"
        OBVIOUS
      <3>2. Step(t, [tabs[t] EXCEPT !.pc = pc, !.set = Unset, !.then = "idle"])
        BY <2>2, <3>1 DEF Lose
      <3>3. pc # "idle" => pc = tabs[t].then
        BY <3>1
      <3>4. lost' = lost + 1 /\ cookie' = cookie
        BY <2>2 DEF Lose
      <3>5. QED
        BY <3>2, <3>3, <3>4, Zenon
    <2>3. QED
      BY <2>1, <2>2
  <1> DEFINE n == [tabs[t] EXCEPT !.pc = pc, !.set = Unset, !.then = "idle"]
  <1>4. /\ n \in Tab /\ n.pc = pc /\ n.id = tabs[t].id /\ n.sent = tabs[t].sent
        /\ n.set = Unset /\ n.then = "idle" /\ Step(t, n)
    BY <1>1, <1>3, Zenon DEF Tab, Unset
  <1> HIDE DEF n
  <1>5. QED
    BY <1>2, <1>3, <1>4, ArriveKeeps

\* Time only takes logins out of what PendingInv speaks of.
LEMMA TickKeeps ==
    ASSUME LoginInv, Tick
    PROVE  LoginInv'
  <1>1. /\ clock' = clock + 1 /\ clock \in Nat
        /\ UNCHANGED <<cookie, tabs, begun, lost, overlap, deadline, answered, crowded>>
    BY DEF LoginInv, TypeOK, Tick, net, history
  <1>2. TypeOK'
    BY <1>1 DEF LoginInv, TypeOK
  <1>3. TabInv'
    BY <1>1 DEF LoginInv, TabInv
  <1>4. CookieInv'
    BY <1>1 DEF LoginInv, CookieInv, Sound
  <1>5. TurnInv => TurnInv'
    BY <1>1, Zenon DEF TurnInv, UnderWay
  <1>6. PendingInv => PendingInv'
    <2>1. ASSUME NEW t \in Tabs, tabs[t].pc = "idp" \/ tabs[t].then = "idp", Alive(tabs[t].id)'
          PROVE  Alive(tabs[t].id)
      <3>1. tabs[t].id \in 1..begun
        BY <2>1 DEF LoginInv, TypeOK, TabInv
      <3>2. deadline[tabs[t].id] \in Nat
        BY <3>1, ConstAssumption DEF LoginInv, TypeOK, Logins
      <3>3. clock + 1 < deadline[tabs[t].id] /\ begun - tabs[t].id < maxPendingFlows
        BY <1>1, <2>1 DEF Alive
      <3>4. QED
        BY <1>1, <3>2, <3>3 DEF Alive
    <2>2. QED
      BY <1>1, <2>1 DEF PendingInv
  <1>7. AnsweredInv => AnsweredInv'
    BY <1>1 DEF AnsweredInv
  <1>8. QED
    BY <1>1, <1>2, <1>3, <1>4, <1>5, <1>6, <1>7 DEF LoginInv

LEMMA LoginStarts == Init => LoginInv
  <1> SUFFICES ASSUME Init PROVE LoginInv
    OBVIOUS
  <1>1. \A t \in Tabs : tabs[t] = NoTab
    BY DEF Init
  <1>2. NoTab \in Tab
    BY DEF NoTab, Tab, Unset, Cookie
  <1>3. Sound({}) /\ Cardinality({}) <= maxPendingFlows
    BY FS_EmptySet, ConstAssumption DEF Sound
  <1>4. TypeOK
    <2>1. cookie \in Cookie /\ Cardinality(cookie) <= maxPendingFlows
      BY <1>3 DEF Init, Cookie
    <2>2. tabs \in [Tabs -> Tab]
      BY <1>2 DEF Init
    <2>3. begun \in 0..MaxLogins
      BY ConstAssumption DEF Init
    <2>4. QED
      BY <2>1, <2>2, <2>3, Zenon DEF TypeOK, Init
  <1>5. TabInv
    BY <1>1 DEF TabInv, NoTab, Init
  <1>6. CookieInv
    BY <1>1, <1>3, Zenon DEF CookieInv, NoTab, Unset, Init
  <1>7. TurnInv
    BY <1>1 DEF TurnInv, UnderWay, NoTab
  <1>8. PendingInv
    BY <1>1 DEF PendingInv, NoTab
  <1>9. AnsweredInv
    BY DEF AnsweredInv, Init
  <1>10. answered \subseteq 1..begun
    BY DEF Init
  <1>11. QED
    BY <1>4, <1>5, <1>6, <1>7, <1>8, <1>9, <1>10 DEF LoginInv

LEMMA LoginInvHolds == Spec => []LoginInv
  <1>1. LoginInv /\ [Next]_vars => LoginInv'
    <2> SUFFICES ASSUME LoginInv, [Next]_vars PROVE LoginInv'
      OBVIOUS
    <2>1. ASSUME NEW t \in Tabs, OpenLogin(t) \/ Reload(t)
          PROVE  LoginInv'
      BY <2>1, RequestKeeps
    <2>2. ASSUME NEW t \in Tabs, NEW got \in {"code", "error", "nothing"}, Authenticate(t, got)
          PROVE  LoginInv'
      BY <2>2, RequestKeeps
    <2>3. ASSUME NEW t \in Tabs, Begin(t)
          PROVE  LoginInv'
      BY <2>3, BeginKeeps
    <2>4. ASSUME NEW t \in Tabs, BeginFails(t) \/ Exchange(t)
          PROVE  LoginInv'
      BY <2>4, OutcomeKeeps
    <2>5. ASSUME NEW t \in Tabs, Receive(t) \/ Lose(t)
          PROVE  LoginInv'
      BY <2>5, ReplyKeeps
    <2>6. ASSUME NEW t \in Tabs, Callback(t)
          PROVE  LoginInv'
      BY <2>6, CallbackKeeps
    <2>7. CASE Tick
      BY <2>7, TickKeeps
    <2>8. CASE UNCHANGED vars
      <3>1. UNCHANGED <<clock, cookie, tabs, begun, lost, overlap, deadline, answered, crowded>>
        BY <2>8 DEF vars, net, history
      <3>2. TypeOK'
        BY <3>1, Zenon DEF LoginInv, TypeOK
      <3>3. TabInv'
        BY <3>1, Zenon DEF LoginInv, TabInv
      <3>4. CookieInv'
        BY <3>1 DEF LoginInv, CookieInv, Sound
      <3>5. TurnInv => TurnInv'
        BY <3>1, Zenon DEF TurnInv, UnderWay
      <3>6. PendingInv => PendingInv'
        BY <3>1, Zenon DEF PendingInv, Alive
      <3>7. AnsweredInv => AnsweredInv'
        BY <3>1 DEF AnsweredInv
      <3>8. QED
        BY <3>1, <3>2, <3>3, <3>4, <3>5, <3>6, <3>7 DEF LoginInv
    <2>9. QED
      BY <2>1, <2>2, <2>3, <2>4, <2>5, <2>6, <2>7, <2>8 DEF Next
  <1>2. QED
    BY <1>1, LoginStarts, PTL DEF Spec

\* Begin and CallbackHandler: the cookie never holds more than maxPendingFlows
\* logins, however many tabs begin one and in whatever order replies arrive.
THEOREM FlowCookieFits == Spec => [](Cardinality(cookie) <= maxPendingFlows)
  <1>1. LoginInv => Cardinality(cookie) <= maxPendingFlows
    BY DEF LoginInv, TypeOK
  <1>2. QED
    BY <1>1, LoginInvHolds, PTL

\* Begin, consumeFlow: while no two requests of the browser overlap, a callback
\* ends its own login and no other; whatever is stale, failed, lost or reloaded.
THEOREM CallbackEndsItsOwn == Spec => []EndsItsOwn
  <1>1. LoginInv => EndsItsOwn
    <2> SUFFICES ASSUME LoginInv PROVE EndsItsOwn
      BY Zenon
    <2>1. PendingSurvives
      BY DEF LoginInv, PendingInv, Alive, PendingSurvives, TabsDontClobber
    <2>2. AnsweredIsGone
      <3>1. ASSUME ~overlap, lost = 0, \A t \in Tabs : ~UnderWay(t), NEW id \in answered
            PROVE  ~Holds(cookie, id)
        <4>1. \A t \in Tabs : tabs[t].set = Unset
          BY <3>1 DEF LoginInv, TabInv, UnderWay
        <4>2. QED
          BY <3>1, <4>1 DEF LoginInv, AnsweredInv
      <3>2. QED
        BY <3>1 DEF AnsweredIsGone
    <2>3. QED
      BY <2>1, <2>2 DEF EndsItsOwn
  <1>2. QED
    BY <1>1, LoginInvHolds, PTL

\* pendingFlows: a callback is accepted only before the deadline its login was
\* begun with, though the cookie that carries it was sealed anew many times,
\* by requests that crossed and replies that came late.
THEOREM CallbackMeetsDeadline == Spec => DeadlineHolds
  <1>1. LoginInv /\ [Next]_vars => [\A id \in answered' \ answered : clock < deadline[id]]_vars
    <2> SUFFICES ASSUME LoginInv, Next, NEW id \in answered' \ answered
                 PROVE  clock < deadline[id]
      OBVIOUS
    <2>1. PICK t \in Tabs : Callback(t)
      BY Zenon DEF Next, OpenLogin, Begin, BeginFails, Receive, Lose, Authenticate, Reload, Exchange,
             Tick, history
    <2>2. id = tabs[t].id /\ matchFlow(pendingFlows(tabs[t].sent), id)
      BY <2>1 DEF Callback
    <2>3. PICK f \in tabs[t].sent : f.id = id /\ f.exp > clock
      BY <2>2, Zenon DEF matchFlow, pendingFlows
    <2>4. f.exp = deadline[f.id]
      BY <2>3 DEF LoginInv, CookieInv, Sound
    <2>5. QED
      BY <2>3, <2>4
  <1>2. QED
    BY <1>1, LoginInvHolds, PTL DEF Spec, DeadlineHolds
=============================================================================
