---------------------------- MODULE BearerToken ----------------------------
(***************************************************************************)
(* api/bearer_token.go: BearerTokenManager, the bearer token shared by the *)
(* requests of an API client and refreshed by at most one of them.         *)
(*                                                                         *)
(* Tokens are numbered by age: 0 is the empty string, 1 a seeded token,    *)
(* i + 1 the token obtained by the i-th Refresher call.  A read- or        *)
(* write-locked region is one step; between the read-locked fast path, the *)
(* write-locked slow path, the detached refresh and the wake-up of its     *)
(* waiters anything may happen.  fresh() and the `now` read after it under *)
(* the same lock are one instant: when fresh is false it stays false.      *)
(* lastErr is set and cleared with nextAttempt and is left out.            *)
(***************************************************************************)
EXTENDS Integers

CONSTANTS Callers,       \* goroutines that call GetToken
          Buffers,       \* values of WithTokenRefreshBuffer, in ticks
          SeedExpiries,  \* ExpiresAt of a seeded token
          Lifetimes,     \* lifetimes of the tokens the Refresher returns
          MinRetry,      \* minRefreshRetry
          MaxRetry,      \* maxRefreshRetry
          MaxClock,      \* bound: length of the run in ticks
          MaxExpired,    \* bound: Refresher calls that may return an expired token
          MaxCalls       \* bound: Refresher calls

ASSUME ConstAssumption ==
    /\ Buffers \subseteq Int /\ SeedExpiries \subseteq Nat /\ Lifetimes \subseteq Int
    /\ MinRetry \in Nat \ {0} /\ MaxRetry \in Nat /\ MinRetry <= MaxRetry
    /\ MaxClock \in Nat /\ MaxExpired \in Nat
    /\ MaxCalls \in Nat /\ MaxCalls >= MaxClock + MaxExpired

VARIABLES
    clock,        \* time.Now(); the zero time is 0, the run starts at 1
    refresher,    \* is a Refresher configured?
    token,        \* BearerTokenManager.Token
    expiresAt,    \* BearerTokenManager.ExpiresAt
    lifetime,     \* BearerTokenManager.lifetime
    nextAttempt,  \* BearerTokenManager.nextAttempt; 0 is the zero time
    inflight,     \* number of the refreshCall in flight, 0 for nil
    calls,        \* calls[i]: the i-th refreshCall
    callers,      \* local state of each GetToken
    expiry,       \* history: expiry[t] = ExpiresAt of token t
    returned,     \* history: newest token any GetToken has returned
    ended         \* history: when the last Refresher call ended, and how

manager == <<token, expiresAt, lifetime, nextAttempt, inflight>>
vars == <<clock, refresher, manager, calls, callers, expiry, returned, ended>>

CallIDs == 1..MaxCalls
Tokens == 0..MaxCalls + 1

Call == [phase : {"new", "running", "report", "done"}, err : BOOLEAN]
Caller == [pc : {"idle", "slow", "wait", "result"}, buffer : Buffers \cup {0},
           stale : Tokens, staleExpiry : Int, call : CallIDs \cup {0},
           err : BOOLEAN, val : Tokens, floor : Tokens]
NoCall == [pc |-> "idle", buffer |-> 0, stale |-> 0, staleExpiry |-> 0,
           call |-> 0, err |-> FALSE, val |-> 0, floor |-> 0]

\* Type invariant: in particular, nobody waits on a nil refreshCall.
TypeOK ==
    /\ clock \in Nat /\ refresher \in BOOLEAN
    /\ token \in Tokens /\ expiresAt \in Int /\ lifetime \in Int
    /\ nextAttempt \in Nat
    /\ inflight \in CallIDs \cup {0}
    /\ calls \in [CallIDs -> Call]
    /\ callers \in [Callers -> Caller]
    /\ \A c \in Callers : callers[c].pc = "wait" => callers[c].call # 0
    /\ expiry \in [Tokens -> Int]
    /\ returned \in Tokens
    /\ ended \in [at : Nat, ok : BOOLEAN]

Init ==
    /\ clock = 1 /\ refresher \in BOOLEAN
    /\ \/ token = 0 /\ expiresAt = 0
       \/ token = 1 /\ expiresAt \in SeedExpiries
    /\ lifetime = 0 /\ nextAttempt = 0 /\ inflight = 0
    /\ calls = [i \in CallIDs |-> [phase |-> "new", err |-> FALSE]]
    /\ callers = [c \in Callers |-> NoCall]
    /\ expiry = [t \in Tokens |-> IF t = token THEN expiresAt ELSE 0]
    /\ returned = 0
    /\ ended = [at |-> 0, ok |-> FALSE]

Larger(a, b) == IF a >= b THEN a ELSE b
Smaller(a, b) == IF a <= b THEN a ELSE b

\* Go's division truncates towards zero.
Half(d) == IF d >= 0 THEN d \div 2 ELSE -((-d) \div 2)

fresh_Unclamped(b) == clock < expiresAt + b

fresh(b) ==
    LET buffer == IF b < 0 /\ lifetime > 0 THEN Larger(b, -Half(lifetime)) ELSE b
    IN clock < expiresAt + buffer

Answer(c, v) == [callers[c] EXCEPT !.pc = "result", !.val = v]
Fail(c) == [callers[c] EXCEPT !.pc = "result", !.err = TRUE]

\* GetToken's read-locked fast path.
GetToken(c, b) ==
    /\ callers[c].pc = "idle"
    /\ callers' = [callers EXCEPT ![c] =
           [pc |-> IF fresh(b) THEN "result" ELSE "slow", buffer |-> b,
            stale |-> 0, staleExpiry |-> 0, call |-> 0, err |-> FALSE,
            val |-> IF fresh(b) THEN token ELSE 0, floor |-> returned]]
    /\ UNCHANGED <<clock, refresher, manager, calls, expiry, returned, ended>>

usable == token # 0 /\ clock < expiresAt

Waiting(c, i) ==
    [callers[c] EXCEPT !.pc = "wait", !.call = i,
                       !.stale = token, !.staleExpiry = expiresAt]

\* The write-locked region of GetToken, one definition per way through it.
Recheck(c) ==
    /\ fresh(callers[c].buffer)
    /\ callers' = [callers EXCEPT ![c] = Answer(c, token)]
    /\ UNCHANGED <<inflight, calls>>

InFlight_Ignored(c) == FALSE

InFlight(c) == inflight # 0

Join(c) ==
    /\ ~fresh(callers[c].buffer) /\ InFlight(c)
    /\ callers' = [callers EXCEPT ![c] =
                     IF usable THEN Answer(c, token) ELSE Waiting(c, inflight)]
    /\ UNCHANGED <<inflight, calls>>

BackingOff(c) == clock < nextAttempt

Refuse(c) ==
    /\ ~fresh(callers[c].buffer) /\ ~InFlight(c)
    /\ ~refresher \/ BackingOff(c)
    /\ callers' = [callers EXCEPT ![c] = IF usable THEN Answer(c, token) ELSE Fail(c)]
    /\ UNCHANGED <<inflight, calls>>

Lead(c) ==
    /\ ~fresh(callers[c].buffer) /\ ~InFlight(c) /\ refresher /\ ~BackingOff(c)
    /\ \E i \in CallIDs :
         /\ calls[i].phase = "new"
         /\ \A j \in CallIDs : calls[j].phase = "new" => i <= j
         /\ inflight' = i
         /\ calls' = [calls EXCEPT ![i].phase = "running"]
         /\ callers' = [callers EXCEPT ![c] = Waiting(c, i)]

Slow(c) ==
    /\ callers[c].pc = "slow"
    /\ Recheck(c) \/ Join(c) \/ Refuse(c) \/ Lead(c)
    /\ UNCHANGED <<clock, refresher, token, expiresAt, lifetime, nextAttempt,
                   expiry, returned, ended>>

\* What a waiter makes of a failed refresh, judging its own stale token now.
AfterFailure_CurrentExpiry(c) ==
    IF callers[c].stale # 0 /\ clock < expiresAt
    THEN Answer(c, callers[c].stale) ELSE Fail(c)

AfterFailure(c) ==
    IF callers[c].stale # 0 /\ clock < callers[c].staleExpiry
    THEN Answer(c, callers[c].stale) ELSE Fail(c)

\* A waiter finds call.done closed; after a success it reads the token again.
Wake(c) ==
    /\ callers[c].pc = "wait"
    /\ calls[callers[c].call].phase = "done"
    /\ callers' = [callers EXCEPT ![c] =
           IF calls[callers[c].call].err THEN AfterFailure(c) ELSE Answer(c, token)]
    /\ UNCHANGED <<clock, refresher, manager, calls, expiry, returned, ended>>

CtxDone(c) ==
    /\ callers[c].pc = "wait"
    /\ callers' = [callers EXCEPT ![c] = NoCall]
    /\ UNCHANGED <<clock, refresher, manager, calls, expiry, returned, ended>>

Return(c) ==
    /\ callers[c].pc = "result"
    /\ callers' = [callers EXCEPT ![c] = NoCall]
    /\ returned' = Larger(returned, callers[c].val)
    /\ UNCHANGED <<clock, refresher, manager, calls, expiry, ended>>

\* runRefresh's write-locked region after the Refresher returned a token.
RefreshOK(i) ==
    /\ calls[i].phase = "running"
    /\ \E l \in Lifetimes :
         /\ l > 0 \/ i <= MaxExpired
         /\ token' = i + 1 /\ expiresAt' = clock + l /\ lifetime' = l
         /\ expiry' = [expiry EXCEPT ![i + 1] = clock + l]
    /\ nextAttempt' = 0 /\ inflight' = 0
    /\ calls' = [calls EXCEPT ![i] = [phase |-> "done", err |-> FALSE]]
    /\ ended' = [at |-> clock, ok |-> TRUE]
    /\ UNCHANGED <<clock, refresher, callers, returned>>

\* How long the Refresher is left alone after a failure.
pause_Swapped(remaining) == Larger(Smaller(Half(remaining), MinRetry), MaxRetry)

pause(remaining) == Smaller(Larger(Half(remaining), MinRetry), MaxRetry)

\* The same region after an error, a panic, a timeout or an empty token.
RefreshFail(i) ==
    /\ calls[i].phase = "running"
    /\ nextAttempt' = clock + pause(expiresAt - clock)
    /\ inflight' = 0
    /\ calls' = [calls EXCEPT ![i] = [phase |-> "report", err |-> TRUE]]
    /\ ended' = [at |-> clock, ok |-> FALSE]
    /\ UNCHANGED <<clock, refresher, token, expiresAt, lifetime, callers, expiry,
                   returned>>

\* OnRefreshError has returned or panicked; close(call.done).
Report_Wedged(i) == FALSE /\ UNCHANGED vars

Report(i) ==
    /\ calls[i].phase = "report"
    /\ calls' = [calls EXCEPT ![i].phase = "done"]
    /\ UNCHANGED <<clock, refresher, manager, callers, expiry, returned, ended>>

Tick ==
    /\ clock < MaxClock
    /\ clock' = clock + 1
    /\ UNCHANGED <<refresher, manager, calls, callers, expiry, returned, ended>>

CallerStep(c) == Slow(c) \/ Wake(c) \/ Return(c)
RefreshStep(i) == RefreshOK(i) \/ RefreshFail(i) \/ Report(i)

Next ==
    \/ \E c \in Callers, b \in Buffers : GetToken(c, b)
    \/ \E c \in Callers : CallerStep(c) \/ CtxDone(c)
    \/ \E i \in CallIDs : RefreshStep(i)
    \/ Tick

Spec == Init /\ [][Next]_vars

(***************************************************************************)
(* Fairness: goroutines are scheduled, and the detached Refresher call     *)
(* ends within refreshTimeout.  Nothing obliges a caller's ctx to end.     *)
(***************************************************************************)
FairSpec ==
    /\ Spec
    /\ \A c \in Callers : WF_vars(CallerStep(c))
    /\ \A i \in CallIDs : WF_vars(RefreshStep(i))

-----------------------------------------------------------------------------
\* What TokenSource keeps of the local state of a GetToken.
AskOf(r) ==
    [pc |-> CASE r.pc = "idle" -> "out"
              [] r.pc = "slow" -> "asked"
              [] r.pc = "wait" -> "looked"
              [] r.pc = "result" -> IF r.err THEN "failed" ELSE "answered",
     val |-> CASE r.pc = "wait" -> r.stale
               [] r.pc = "result" /\ ~r.err -> r.val
               [] OTHER -> 0]

Source == INSTANCE TokenSource WITH
              current <- token, renewing <- (inflight # 0),
              asks <- [c \in Callers |-> AskOf(callers[c])]

(***************************************************************************)
(* The manager is a token source: however fast paths, shared refreshes,    *)
(* their late ends and the waiters' wake-ups interleave, one refresh runs  *)
(* at a time, it only brings a newer token, and each GetToken answers with *)
(* a token that was the manager's at some moment of the call.              *)
(***************************************************************************)
ImplementsTokenSource == Source!Spec

(***************************************************************************)
(* At most one Refresher call runs at any time, however many callers find  *)
(* the token stale (runRefresh: "It owns the in-flight slot until it       *)
(* finishes").                                                             *)
(***************************************************************************)
SingleRefresher ==
    \A i, j \in CallIDs :
        calls[i].phase = "running" /\ calls[j].phase = "running" => i = j

(***************************************************************************)
(* Tokens do not go backwards: a GetToken that starts after another one    *)
(* has returned a token never answers with an older token, although        *)
(* refreshes end late and waiters answer with a token they saw earlier.    *)
(***************************************************************************)
TokensNeverRegress ==
    \A c \in Callers :
        callers[c].pc = "result" /\ ~callers[c].err => callers[c].val >= callers[c].floor

(***************************************************************************)
(* Expiry alone decides what GetToken does when it does not hand out the   *)
(* fruit of a refresh it waited for.  A token it serves without waiting,   *)
(* or after a failed refresh, has not expired (for a buffer that does not  *)
(* ask for more); an error means the token it held had expired ("the       *)
(* current token is still returned until it actually expires").            *)
(***************************************************************************)
JudgedByExpiry ==
    [][\A c \in Callers :
         LET r == callers'[c]
             refreshed == callers[c].pc = "wait" /\ ~calls[callers[c].call].err
             held == IF callers[c].pc = "wait" THEN callers[c].stale ELSE token
         IN callers[c].pc # "result" /\ r.pc = "result" /\ ~refreshed =>
              IF r.err THEN held = 0 \/ ~(clock < expiry[held])
              ELSE r.buffer <= 0 => clock < expiry[r.val]]_vars

(***************************************************************************)
(* The Refresher is left alone: for MinRetry ticks after a failed call,    *)
(* and for half the lifetime of the token a successful call returned,      *)
(* whatever refresh buffer callers ask for (fresh's clamp: otherwise       *)
(* "every call would run the Refresher").                                  *)
(***************************************************************************)
RefresherPaced ==
    [][inflight = 0 /\ inflight' # 0 /\ ended.at # 0 =>
         IF ended.ok THEN lifetime > 0 => 2 * (clock - ended.at) >= lifetime
                     ELSE clock >= ended.at + MinRetry]_vars

(***************************************************************************)
(* A failed refresh of a token that still has more than MinRetry to live   *)
(* is retried before the token expires: the pause never costs an outage.   *)
(***************************************************************************)
RetryBeforeExpiry ==
    nextAttempt # 0 /\ expiresAt - ended.at > MinRetry => nextAttempt < expiresAt

(***************************************************************************)
(* Every GetToken returns, also when its context never ends: waiters are   *)
(* released by every outcome of the refresh, a failing hook included.      *)
(***************************************************************************)
EveryGetTokenReturns ==
    \A c \in Callers : callers[c].pc # "idle" ~> callers[c].pc = "idle"
=============================================================================
