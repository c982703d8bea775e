---------------------------- MODULE RateLimiter ----------------------------
(***************************************************************************)
(* ratelimit/ratelimit.go: a token bucket per source, in a map of bounded  *)
(* size that is swept of idle buckets when a new source is first seen;     *)
(* sources that find the map full share the overflow bucket.               *)
(*                                                                         *)
(* A request reads the clock, goes through allow, and through warnDue when *)
(* it is throttled; requests interleave between these steps.  The bucket   *)
(* is that of the network ClientIP makes of the request.  Exempt paths     *)
(* touch nothing and have no action.  The number of suppressed log lines   *)
(* is left out.  Time 0 is Go's zero Time.                                 *)
(***************************************************************************)
EXTENDS ClientIP, FiniteSets

CONSTANTS Requests,
          Routes,        \* bound: the chains of proxies requests pass
          Headers,       \* bound: the X-Forwarded-For values clients send
          overflowKey,
          RPS, Burst,    \* tokens per tick, and a bucket's capacity
          idleTTL, sweepInterval, warnInterval,  \* in ticks
          maxBuckets,
          MaxTime,      \* bound: length of the run in ticks
          Absent

Sources == {Network(ip) : ip \in Clients \cup Trusted}
Bucket == [tokens : 0..Burst, last : Nat, seen : Nat, lastWarn : Nat]

\* An evicted bucket would have been full: the code leaves this to its caller.
ASSUME LimiterAssumption ==
    /\ RPS \in Nat \ {0} /\ Burst \in Nat \ {0} /\ maxBuckets \in Nat /\ MaxTime \in Nat
    /\ idleTTL \in Nat /\ sweepInterval \in Nat /\ warnInterval \in Nat
    /\ idleTTL >= warnInterval
    /\ overflowKey \notin Sources /\ Absent \notin Bucket
    /\ Routes \subseteq Seq(Trusted) /\ Headers \subseteq Seq(Clients \cup Trusted \cup {Malformed})

VARIABLES time,
          buckets,    \* Limiter.buckets, Absent for no entry
          lastSweep,
          requests,
          meter,      \* history: when, in tokens, what each network or the overflow
                      \* bucket has been admitted will have leaked away at RPS
          over,       \* history: did a meter ever hold more than Burst?
          warned,     \* history: when a line was last logged for each bucket
          hasty,      \* history: did a line follow another within warnInterval?
          stalled     \* history: did a request use a clock reading that was out of date?

meters == <<meter, over, warned, hasty, stalled>>
limiterVars == <<time, buckets, lastSweep, requests, meters>>

Keys == Sources \cup {overflowKey}
Request == [pc : {"idle", "allow", "warn"}, key : Sources \cup {Absent},
            from : Sources \cup {Absent}, now : Nat]
NoRequest == [pc |-> "idle", key |-> Absent, from |-> Absent, now |-> 0]

\* Type invariant: in particular, a bucket's tokens stay within its burst.
LimiterTypeOK ==
    /\ time \in Nat /\ lastSweep \in Nat /\ stalled \in BOOLEAN /\ over \in BOOLEAN /\ hasty \in BOOLEAN
    /\ buckets \in [Keys -> Bucket \cup {Absent}]
    /\ requests \in [Requests -> Request]
    /\ meter \in [Keys -> Nat] /\ warned \in [Keys -> Nat]

\* New
LimiterInit ==
    /\ time = 1
    /\ buckets = [k \in Keys |-> Absent] /\ lastSweep = 0
    /\ requests = [r \in Requests |-> NoRequest]
    /\ meter = [k \in Keys |-> 0] /\ over = FALSE
    /\ warned = [k \in Keys |-> 0] /\ hasty = FALSE /\ stalled = FALSE

-----------------------------------------------------------------------------
Least(a, b) == IF a < b THEN a ELSE b
Most(a, b) == IF a > b THEN a ELSE b

\* The requests that may arrive: the network each is counted for (key), and
\* the one it really comes from (from, history).
Arrivals ==
    {[key |-> Network(FromRequest(PeerOf(client, route), HopsOf(client, route, pre))),
      from |-> Network(client)] : client \in Clients, route \in Routes, pre \in Headers}

\* Middleware up to time.Now().
Middleware(r, a) ==
    /\ requests[r].pc = "idle"
    /\ requests' = [requests EXCEPT ![r] =
           [pc |-> "allow", key |-> a.key, from |-> a.from, now |-> time]]
    /\ UNCHANGED <<time, buckets, lastSweep, meters>>

\* sweepLocked: what it leaves of the map.
Due(now) == lastSweep = 0 \/ now - lastSweep >= sweepInterval

Idle(b, now) == now - b.seen > idleTTL

sweepLocked(now) ==
    [k \in Keys |->
        IF Due(now) /\ buckets[k] # Absent /\ Idle(buckets[k], now) THEN Absent ELSE buckets[k]]

Full(m) == Cardinality({k \in Keys : m[k] # Absent}) >= maxBuckets

\* rate.NewLimiter and Limiter.AllowN.
NewLimiter == [tokens |-> Burst, last |-> 0, seen |-> 0, lastWarn |-> 0]

Refilled(b, now) == Least(Burst, b.tokens + RPS * (now - Least(b.last, now)))

AllowN(b, now) ==
    IF Refilled(b, now) >= 1
    THEN [b EXCEPT !.tokens = Refilled(b, now) - 1, !.last = now]
    ELSE b

Seen_AtCreation(b, now) == IF b.seen = 0 THEN now ELSE b.seen

Seen(b, now) == now

\* Key k has been admitted at now.
Metered(k, now) ==
    /\ meter' = [meter EXCEPT ![k] = Most(@, now * RPS) + 1]
    /\ over' = (over \/ meter'[k] - now * RPS > Burst)

allow(r) ==
    LET q == requests[r]
        known == buckets[q.key] # Absent
        m == IF known THEN buckets ELSE sweepLocked(q.now)
        key == IF ~known /\ Full(m) THEN overflowKey ELSE q.key
        b == IF m[key] = Absent THEN NewLimiter ELSE m[key]
        who == IF key = overflowKey THEN key ELSE q.from
        ok == Refilled(b, q.now) >= 1
    IN
    /\ q.pc = "allow"
    /\ lastSweep' = IF ~known /\ Due(q.now) THEN q.now ELSE lastSweep
    /\ buckets' = [m EXCEPT ![key] = [AllowN(b, q.now) EXCEPT !.seen = Seen(b, q.now)]]
    /\ requests' = [requests EXCEPT ![r] = IF ok THEN NoRequest ELSE [q EXCEPT !.pc = "warn"]]
    /\ IF ok THEN Metered(who, q.now) ELSE UNCHANGED <<meter, over>>
    /\ stalled' = (stalled \/ time # q.now)
    /\ UNCHANGED <<time, warned, hasty>>

\* warnDue: is a line due for this bucket, and the time it then records.
LineDue(b, now) == b.lastWarn = 0 \/ now - b.lastWarn >= warnInterval

Warned_Never(b, now) == b

Warned(b, now) == IF LineDue(b, now) THEN [b EXCEPT !.lastWarn = now] ELSE b

warnDue(r) ==
    LET q == requests[r]
        key == IF buckets[q.key] # Absent THEN q.key ELSE overflowKey
        b == buckets[key]
        line == b = Absent \/ LineDue(b, q.now)
    IN
    /\ q.pc = "warn"
    /\ buckets' = IF b = Absent THEN buckets ELSE [buckets EXCEPT ![key] = Warned(b, q.now)]
    /\ warned' = IF line THEN [warned EXCEPT ![key] = q.now] ELSE warned
    /\ stalled' = (stalled \/ time # q.now)
    /\ hasty' = (hasty \/ (line /\ warned[key] # 0 /\ q.now - warned[key] < warnInterval))
    /\ requests' = [requests EXCEPT ![r] = NoRequest]
    /\ UNCHANGED <<time, lastSweep, meter, over>>

TimePasses ==
    /\ time < MaxTime
    /\ time' = time + 1
    /\ UNCHANGED <<buckets, lastSweep, requests, meters>>

LimiterNext ==
    \/ \E r \in Requests :
        \/ \E a \in Arrivals : Middleware(r, a)
        \/ allow(r) \/ warnDue(r)
    \/ TimePasses

LimiterSpec == LimiterInit /\ [][LimiterNext]_limiterVars

-----------------------------------------------------------------------------
\* A bucket is full again after idleTTL. New takes any RPS and Burst.
Refills == idleTTL * RPS >= Burst

(***************************************************************************)
(* "A flood of distinct keys can neither grow memory nor mint fresh        *)
(* tokens" (maxBuckets): the map holds at most maxBuckets sources beside   *)
(* the overflow bucket, and over any stretch of time a network, whichever  *)
(* of its addresses, proxies and headers it uses, is admitted by its own   *)
(* bucket at most Burst requests plus RPS per tick, across every eviction  *)
(* (a meter that leaks at RPS never exceeds Burst), unless the rate is so  *)
(* low that idleTTL does not refill a bucket.                              *)
(***************************************************************************)
FloodContained ==
    /\ Cardinality({k \in Sources : buckets[k] # Absent}) <= maxBuckets
    /\ stalled \/ (Refills => ~over)

(***************************************************************************)
(* "At most one line is due per warnInterval per bucket" (warnDue), also   *)
(* when the bucket that remembers the last line is evicted in between.     *)
(***************************************************************************)
WarnPaced == stalled \/ ~hasty
=============================================================================
