-------------------------- MODULE KeyProviderCache --------------------------
(***************************************************************************)
(* crypto/cache.go: the cache of unwrapped intermediate keys.              *)
(*                                                                         *)
(* Callers of ForKey, the detached goroutines of the singleflight group    *)
(* and Invalidate interleave at every lock boundary of the code: a lookup, *)
(* currentGeneration, DoChan, the root call and store are separate steps.  *)
(* Wrapped key bytes are represented by their digest (the code keeps only  *)
(* the digest); a provider by the material it was unwrapped from, plus the *)
(* generation that was current when the root call began (`born`, history). *)
(***************************************************************************)
EXTENDS Integers, FiniteSets

CONSTANTS Callers,   \* goroutines that call ForKey
          KeyIDs,
          Digests,   \* digests of distinct wrapped keys
          TTL,       \* KeyProviderCache.ttl, in clock ticks; 0 disables caching
          NONE,      \* Go's nil: no entry, no result, a nil wrappedKey
          MaxGen,    \* bound: number of Invalidate calls
          MaxClock,  \* bound: length of the run in ticks
          MaxFlights \* bound: calls arrive while fewer flights are in progress

ASSUME ConstAssumption ==
    /\ TTL \in Nat /\ MaxGen \in Nat /\ MaxClock \in Nat /\ MaxFlights \in Nat
    /\ NONE \notin Digests

VARIABLES
    clock,        \* time.Now()
    generation,   \* KeyProviderCache.generation
    entries,      \* KeyProviderCache.entries
    flights,      \* calls in progress in unwrapFlights
    callers,      \* local state of each ForKey call
    invalidated   \* history: invalidated[k] = the generations Invalidate(k) began

vars == <<clock, generation, entries, flights, callers, invalidated>>

Provider == [keyID : KeyIDs, digest : Digests, born : Nat]
CacheEntry == [provider : Provider, wrappedDigest : Digests, expiresAt : Nat]
Flight == [keyID : KeyIDs, gen : Nat, digest : Digests,
           phase : {"start", "unwrap", "store", "finish"},
           born : Nat, now : Nat, err : BOOLEAN, val : Provider \cup {NONE}]
Caller == [pc : {"idle", "missed", "gen", "wait", "result"},
           keyID : KeyIDs \cup {NONE}, digest : Digests \cup {NONE},
           arrived : Nat, gen : Nat,
           err : BOOLEAN, val : Provider \cup {NONE}]
NoCall == [pc |-> "idle", keyID |-> NONE, digest |-> NONE, arrived |-> 0,
           gen |-> 0, err |-> FALSE, val |-> NONE]

\* Type invariant: in particular, no entry ever holds a nil provider.
TypeOK ==
    /\ clock \in Nat
    /\ generation \in Nat
    /\ entries \in [KeyIDs -> CacheEntry \cup {NONE}]
    /\ flights \subseteq Flight
    /\ callers \in [Callers -> Caller]
    /\ invalidated \in [KeyIDs -> SUBSET Nat]

Init ==
    /\ clock = 0
    /\ generation = 0
    /\ entries = [k \in KeyIDs |-> NONE]
    /\ flights = {}
    /\ callers = [c \in Callers |-> NoCall]
    /\ invalidated = [k \in KeyIDs |-> {}]

(***************************************************************************)
(* lookup: the live provider cached for k and unwrapped from material with *)
(* digest d, or nil.  One read-locked region.                              *)
(***************************************************************************)
lookup_AnyDigest(k, d) ==
    IF entries[k] # NONE /\ clock < entries[k].expiresAt
    THEN entries[k].provider
    ELSE NONE

lookup(k, d) ==
    IF /\ entries[k] # NONE
       /\ entries[k].wrappedDigest = d
       /\ clock < entries[k].expiresAt
    THEN entries[k].provider
    ELSE NONE

\* ForKey up to and including the fast-path lookup.
ForKey(c, k, d) ==
    LET kp == IF d = NONE THEN NONE ELSE lookup(k, d) IN
    /\ callers[c].pc = "idle"
    /\ Cardinality(flights) < MaxFlights
    /\ callers' = [callers EXCEPT ![c] =
           [pc |-> IF d = NONE \/ kp # NONE THEN "result" ELSE "missed",
            keyID |-> k, digest |-> d, arrived |-> generation, gen |-> 0,
            err |-> FALSE, val |-> kp]]
    /\ UNCHANGED <<clock, generation, entries, flights, invalidated>>

currentGeneration(c) ==
    /\ callers[c].pc = "missed"
    /\ callers' = [callers EXCEPT ![c].pc = "gen", ![c].gen = generation]
    /\ UNCHANGED <<clock, generation, entries, flights, invalidated>>

\* flightKey: does call c share flight f?
flightKey(c, f) ==
    /\ f.keyID = callers[c].keyID
    /\ f.gen = callers[c].gen
    /\ f.digest = callers[c].digest

\* singleflight.DoChan: join the flight with this key, or start one.
DoChan(c) ==
    /\ callers[c].pc = "gen"
    /\ callers' = [callers EXCEPT ![c].pc = "wait"]
    /\ flights' = IF \E f \in flights : flightKey(c, f)
                  THEN flights
                  ELSE flights \cup
                       {[keyID |-> callers[c].keyID, gen |-> callers[c].gen,
                         digest |-> callers[c].digest, phase |-> "start",
                         born |-> 0, now |-> 0, err |-> FALSE, val |-> NONE]}
    /\ UNCHANGED <<clock, generation, entries, invalidated>>

Advance(f, g) == flights' = (flights \ {f}) \cup {g}

\* The shared function's re-check of the cache.
Recheck(f) ==
    /\ f.phase = "start"
    /\ LET kp == lookup(f.keyID, f.digest) IN
       Advance(f, IF kp # NONE
                  THEN [f EXCEPT !.phase = "finish", !.val = kp]
                  ELSE [f EXCEPT !.phase = "unwrap", !.born = generation])
    /\ UNCHANGED <<clock, generation, entries, callers, invalidated>>

\* rootKP.Unwrap answered; store has read time.Now() and not yet locked.
UnwrapOK(f) ==
    /\ f.phase = "unwrap"
    /\ Advance(f, [f EXCEPT !.phase = "store", !.now = clock,
                   !.val = [keyID |-> f.keyID, digest |-> f.digest,
                            born |-> f.born]])
    /\ UNCHANGED <<clock, generation, entries, callers, invalidated>>

\* rootKP.Unwrap failed, panicked, or ran into unwrapTimeout.
UnwrapFail(f) ==
    /\ f.phase = "unwrap"
    /\ Advance(f, [f EXCEPT !.phase = "finish", !.err = TRUE])
    /\ UNCHANGED <<clock, generation, entries, callers, invalidated>>

\* store's check that no invalidation happened while the unwrap ran.
SameGeneration_Unchecked(f) == TRUE

SameGeneration(f) == f.gen = generation

store(f) ==
    /\ f.phase = "store"
    /\ entries' =
         IF ~SameGeneration(f) THEN entries
         ELSE [k \in KeyIDs |->
                 IF k = f.keyID /\ TTL > 0
                 THEN [provider |-> f.val, wrappedDigest |-> f.digest,
                       expiresAt |-> f.now + TTL]
                 ELSE IF entries[k] # NONE /\ ~(f.now < entries[k].expiresAt)
                 THEN NONE
                 ELSE entries[k]]
    /\ Advance(f, [f EXCEPT !.phase = "finish"])
    /\ UNCHANGED <<clock, generation, callers, invalidated>>

(***************************************************************************)
(* singleflight.doCall, once the function has returned: under the group's  *)
(* lock, forget the key and send the result to every caller waiting on it. *)
(***************************************************************************)
Waiting_FirstOnly(f) ==
    LET W == {c \in Callers : callers[c].pc = "wait" /\ flightKey(c, f)} IN
    IF W = {} THEN {} ELSE {CHOOSE c \in W : TRUE}

Waiting(f) == {c \in Callers : callers[c].pc = "wait" /\ flightKey(c, f)}

Finish(f) ==
    /\ f.phase = "finish"
    /\ flights' = flights \ {f}
    /\ callers' = [c \in Callers |->
                     IF c \in Waiting(f)
                     THEN [callers[c] EXCEPT !.pc = "result",
                                               !.err = f.err, !.val = f.val]
                     ELSE callers[c]]
    /\ UNCHANGED <<clock, generation, entries, invalidated>>

\* The caller has its answer (a hit, or the flight's result) and may call again.
Return(c) ==
    /\ callers[c].pc = "result"
    /\ callers' = [callers EXCEPT ![c] = NoCall]
    /\ UNCHANGED <<clock, generation, entries, flights, invalidated>>

\* The caller's ctx ends while it waits: it returns ctx.Err(), the flight goes on.
CtxDone(c) ==
    /\ callers[c].pc = "wait"
    /\ callers' = [callers EXCEPT ![c] = NoCall]
    /\ UNCHANGED <<clock, generation, entries, flights, invalidated>>

Invalidate(k) ==
    /\ generation < MaxGen
    /\ generation' = generation + 1
    /\ entries' = [entries EXCEPT ![k] = NONE]
    /\ invalidated' = [invalidated EXCEPT ![k] = @ \cup {generation + 1}]
    /\ UNCHANGED <<clock, flights, callers>>

Tick ==
    /\ clock < MaxClock
    /\ clock' = clock + 1
    /\ UNCHANGED <<generation, entries, flights, callers, invalidated>>

CallerStep(c) ==
    currentGeneration(c) \/ DoChan(c) \/ Return(c)

FlightStep(f) ==
    Recheck(f) \/ UnwrapOK(f) \/ UnwrapFail(f) \/ store(f) \/ Finish(f)

Next ==
    \/ \E c \in Callers, k \in KeyIDs, d \in Digests \cup {NONE} : ForKey(c, k, d)
    \/ \E c \in Callers : CallerStep(c) \/ CtxDone(c)
    \/ \E f \in flights : FlightStep(f)
    \/ \E k \in KeyIDs : Invalidate(k)
    \/ Tick

Spec == Init /\ [][Next]_vars

(***************************************************************************)
(* Fairness: goroutines are scheduled, and unwrapTimeout bounds every root *)
(* call, so a flight always advances.  Nothing obliges a context to end.   *)
(***************************************************************************)
FairSpec ==
    /\ Spec
    /\ \A c \in Callers : WF_vars(CallerStep(c))
    /\ \A k \in KeyIDs, g \in 0..MaxGen, d \in Digests :
          WF_vars(\E f \in flights : /\ f.keyID = k /\ f.gen = g /\ f.digest = d
                                    /\ FlightStep(f))

-----------------------------------------------------------------------------
(***************************************************************************)
(* A provider handed to a caller that arrived after Invalidate(k) was      *)
(* unwrapped by a root call that began after that Invalidate: neither a    *)
(* late store nor a joined flight brings back key material the             *)
(* invalidation revoked (cache.go: "an unwrap that finishes after an       *)
(* invalidation cannot repopulate the cache with revoked material").       *)
(***************************************************************************)
FreshAfterInvalidate ==
    \A c \in Callers :
        callers[c].val # NONE =>
            \A n \in invalidated[callers[c].keyID] :
                n <= callers[c].arrived => n <= callers[c].val.born

(***************************************************************************)
(* A caller is only ever given the key unwrapped from the wrapped bytes it *)
(* passed for the keyID it named, whichever path - fast lookup, re-check,  *)
(* own or shared unwrap - the answer took, and however many rotations of   *)
(* the same keyID overlap.                                                 *)
(***************************************************************************)
OwnMaterial ==
    \A c \in Callers :
        callers[c].val # NONE =>
            /\ callers[c].val.keyID = callers[c].keyID
            /\ callers[c].val.digest = callers[c].digest

(***************************************************************************)
(* Every ForKey call returns, also when the caller that started the shared *)
(* unwrap gave up and when the root call fails.                            *)
(***************************************************************************)
EveryCallReturns ==
    \A c \in Callers : callers[c].pc # "idle" ~> callers[c].pc = "idle"
=============================================================================
