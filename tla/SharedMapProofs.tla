-------------------------- MODULE SharedMapProofs --------------------------
(***************************************************************************)
(* Proofs about two maps that all requests share behind a mutex.           *)
(*                                                                         *)
(* KeyProviderCache: safety of crypto/cache.go for every number of         *)
(* callers, keys, wrapped keys and invalidations and every TTL.            *)
(* FreshAfterInvalidate is not inductive: it says nothing of the entries   *)
(* and flights a caller's answer comes from.  IndInv adds that an entry    *)
(* survived every invalidation of its keyID so far, that a flight's result *)
(* survived those up to the generation the flight is keyed by, and that a  *)
(* caller joins a flight of a generation no older than its own arrival.    *)
(*                                                                         *)
(* RateLimiter, for every number of requests, clients, proxies and         *)
(* buckets: the map of buckets is bounded, no network is admitted more     *)
(* than its rate across evictions, and the lines logged for a bucket keep  *)
(* their distance.                                                         *)
(***************************************************************************)
EXTENDS KeyProviderCache, RateLimiter, FiniteSetTheorems, SequenceTheorems, TLAPS

Survived(p, k, g) == \A n \in invalidated[k] : n <= g => n <= p.born

HistoryInv == \A k \in KeyIDs : \A n \in invalidated[k] : n <= generation

EntriesInv ==
    \A k \in KeyIDs : entries[k] # NONE =>
        /\ entries[k].provider.keyID = k
        /\ entries[k].provider.digest = entries[k].wrappedDigest
        /\ Survived(entries[k].provider, k, generation)

FlightInv(f) ==
    /\ f.gen <= generation
    /\ f.phase = "unwrap" => f.gen <= f.born
    /\ f.phase = "store" \/ f.val # NONE =>
           /\ f.val \in Provider
           /\ f.val.keyID = f.keyID
           /\ f.val.digest = f.digest
           /\ Survived(f.val, f.keyID, f.gen)

CallerInv(c) ==
    /\ c.arrived <= generation
    /\ c.pc \in {"missed", "gen", "wait"} =>
           c.keyID \in KeyIDs /\ c.digest \in Digests
    /\ c.pc \in {"gen", "wait"} => c.arrived <= c.gen /\ c.gen <= generation
    /\ c.val # NONE => /\ c.keyID \in KeyIDs
                       /\ c.val.keyID = c.keyID
                       /\ c.val.digest = c.digest
                       /\ Survived(c.val, c.keyID, c.arrived)

IndInv ==
    /\ TypeOK
    /\ HistoryInv
    /\ EntriesInv
    /\ \A f \in flights : FlightInv(f)
    /\ \A c \in Callers : CallerInv(callers[c])

-----------------------------------------------------------------------------
(***************************************************************************)
(* lookup returns nothing, or a provider unwrapped from the requested      *)
(* material that outlived every invalidation of the keyID.                 *)
(***************************************************************************)
LEMMA LookupResult ==
    ASSUME TypeOK, EntriesInv, NEW k \in KeyIDs, NEW d \in Digests,
           lookup(k, d) # NONE
    PROVE  /\ lookup(k, d) \in Provider
           /\ lookup(k, d).keyID = k
           /\ lookup(k, d).digest = d
           /\ Survived(lookup(k, d), k, generation)
  BY Zenon DEF lookup, TypeOK, EntriesInv, CacheEntry

\* The empty cache satisfies the invariant.
LEMMA InitIndInv == Init => IndInv
  BY ConstAssumption
  DEF Init, IndInv, TypeOK, HistoryInv, EntriesInv, CallerInv, NoCall, Caller

(***************************************************************************)
(* Steps of a caller change nothing but that caller.                       *)
(***************************************************************************)
LEMMA CallerFrame ==
    ASSUME IndInv, NEW c \in Callers, NEW r \in Caller,
           callers' = [callers EXCEPT ![c] = r], CallerInv(r),
           UNCHANGED <<clock, generation, entries, flights, invalidated>>
    PROVE  IndInv'
  <1>1. TypeOK'
    BY DEF IndInv, TypeOK
  <1>2. HistoryInv' /\ EntriesInv'
    BY DEF IndInv, HistoryInv, EntriesInv, Survived
  <1>3. \A f \in flights' : FlightInv(f)'
    BY Zenon DEF IndInv, FlightInv, Survived
  <1>4. \A x \in Callers : CallerInv(callers[x])'
    <2>1. ASSUME NEW x \in Callers PROVE CallerInv(callers'[x])
      BY <2>1 DEF IndInv, TypeOK
    <2>2. QED
      BY <2>1 DEF CallerInv, Survived
  <1>5. QED
    BY <1>1, <1>2, <1>3, <1>4 DEF IndInv

\* The steps of a ForKey call that start no flight.
LEMMA CallerSteps ==
    ASSUME IndInv, NEW c \in Callers,
           \/ \E k \in KeyIDs, d \in Digests \cup {NONE} : ForKey(c, k, d)
           \/ currentGeneration(c)
           \/ Return(c)
           \/ CtxDone(c)
    PROVE  IndInv'
  <1>1. CASE \E k \in KeyIDs, d \in Digests \cup {NONE} : ForKey(c, k, d)
    <2>1. PICK k \in KeyIDs, d \in Digests \cup {NONE} : ForKey(c, k, d)
      BY <1>1
    <2> DEFINE kp == IF d = NONE THEN NONE ELSE lookup(k, d)
               r == [pc |-> IF d = NONE \/ kp # NONE THEN "result" ELSE "missed",
                     keyID |-> k, digest |-> d, arrived |-> generation, gen |-> 0,
                     err |-> FALSE, val |-> kp]
    <2>2. kp # NONE => /\ kp \in Provider /\ kp.keyID = k /\ kp.digest = d
                       /\ Survived(kp, k, generation)
      BY LookupResult, Zenon DEF IndInv
    <2>3. r \in Caller /\ CallerInv(r)
      BY <2>2 DEF IndInv, TypeOK, Caller, CallerInv
    <2>4. QED
      BY <2>1, <2>3, CallerFrame, Zenon DEF ForKey
  <1>2. CASE currentGeneration(c)
    <2> DEFINE r == [callers[c] EXCEPT !.pc = "gen", !.gen = generation]
    <2>1. callers[c] \in Caller /\ CallerInv(callers[c]) /\ generation \in Nat
      BY DEF IndInv, TypeOK
    <2>2. r \in Caller /\ CallerInv(r)
      <3>1. r \in Caller
        BY <2>1, Zenon DEF Caller
      <3>2. /\ r.pc = "gen" /\ r.gen = generation
            /\ r.keyID = callers[c].keyID /\ r.digest = callers[c].digest
            /\ r.arrived = callers[c].arrived /\ r.val = callers[c].val
        BY <2>1 DEF Caller
      <3>3. callers[c].pc = "missed"
        BY <1>2, Zenon DEF currentGeneration
      <3>4. CallerInv(r)
        BY <2>1, <3>2, <3>3 DEF CallerInv
      <3>5. QED
        BY <3>1, <3>4
    <2>3. callers' = [callers EXCEPT ![c] = r]
      BY <1>2, Zenon DEF currentGeneration, IndInv, TypeOK
    <2>4. QED
      BY <1>2, <2>2, <2>3, CallerFrame, Zenon DEF currentGeneration
  <1>3. CASE Return(c) \/ CtxDone(c)
    <2>1. NoCall \in Caller /\ CallerInv(NoCall)
      BY DEF NoCall, Caller, CallerInv, IndInv, TypeOK
    <2>2. QED
      BY <1>3, <2>1, CallerFrame, Zenon DEF Return, CtxDone
  <1>4. QED
    BY <1>1, <1>2, <1>3

(***************************************************************************)
(* A flight that advances without touching the cache or the callers.       *)
(***************************************************************************)
LEMMA FlightFrame ==
    ASSUME IndInv, NEW f \in flights, NEW g \in Flight, FlightInv(g), Advance(f, g),
           UNCHANGED <<clock, generation, entries, callers, invalidated>>
    PROVE  IndInv'
  <1>1. TypeOK'
    BY Zenon DEF IndInv, TypeOK, Advance
  <1>2. HistoryInv' /\ EntriesInv'
    BY DEF IndInv, HistoryInv, EntriesInv, Survived
  <1>3. \A x \in flights' : FlightInv(x)'
    <2>1. ASSUME NEW x \in flights' PROVE FlightInv(x)
      BY <2>1, Zenon DEF IndInv, Advance
    <2>2. QED
      BY <2>1 DEF FlightInv, Survived
  <1>4. \A x \in Callers : CallerInv(callers[x])'
    BY DEF IndInv, CallerInv, Survived
  <1>5. QED
    BY <1>1, <1>2, <1>3, <1>4 DEF IndInv

\* The steps of the shared function: re-check, root call, store and the
\* delivery of its result.
LEMMA FlightSteps ==
    ASSUME IndInv, NEW f \in flights, FlightStep(f)
    PROVE  IndInv'
  <1>0. f \in Flight /\ FlightInv(f) /\ clock \in Nat /\ generation \in Nat
    BY DEF IndInv, TypeOK
  <1>1. CASE Recheck(f)
    <2> DEFINE kp == lookup(f.keyID, f.digest)
               g == IF kp # NONE
                    THEN [f EXCEPT !.phase = "finish", !.val = kp]
                    ELSE [f EXCEPT !.phase = "unwrap", !.born = generation]
    <2>0. f.keyID \in KeyIDs /\ f.digest \in Digests
      BY <1>0, Zenon DEF Flight
    <2>1. kp # NONE => /\ kp \in Provider /\ kp.keyID = f.keyID
                       /\ kp.digest = f.digest /\ Survived(kp, f.keyID, generation)
      BY <2>0, LookupResult, Zenon DEF IndInv
    <2>2. f.gen \in Nat /\ \A n \in invalidated[f.keyID] : n \in Nat
      BY <1>0, <2>0, Zenon DEF IndInv, TypeOK, Flight
    <2>3. kp # NONE => Survived(kp, f.keyID, f.gen)
      BY <1>0, <2>1, <2>2 DEF Survived, FlightInv
    <2>4. g \in Flight
      BY <1>0, <2>1, Zenon DEF Flight
    <2>5. FlightInv(g)
      <3>1. CASE kp # NONE
        BY <3>1, <1>0, <2>1, <2>3 DEF Flight, FlightInv
      <3>2. CASE kp = NONE
        BY <3>2, <1>0, <2>2 DEF Flight, FlightInv
      <3>3. QED
        BY <3>1, <3>2
    <2>6. QED
      BY <1>1, <2>4, <2>5, FlightFrame DEF Recheck
  <1>2. CASE UnwrapOK(f)
    <2> DEFINE p == [keyID |-> f.keyID, digest |-> f.digest, born |-> f.born]
               g == [f EXCEPT !.phase = "store", !.now = clock, !.val = p]
    <2>1. p \in Provider /\ g \in Flight
      BY <1>0, Zenon DEF Flight, Provider
    <2>2. Survived(p, f.keyID, f.gen)
      BY <1>0, <1>2 DEF UnwrapOK, FlightInv, Flight, Survived, IndInv, TypeOK
    <2>3. FlightInv(g)
      BY <1>0, <2>1, <2>2 DEF Flight, FlightInv
    <2>4. QED
      BY <1>2, <2>1, <2>3, FlightFrame DEF UnwrapOK
  <1>3. CASE UnwrapFail(f)
    <2> DEFINE g == [f EXCEPT !.phase = "finish", !.err = TRUE]
    <2>1. g \in Flight /\ FlightInv(g)
      BY <1>0, Zenon DEF Flight, FlightInv
    <2>2. QED
      BY <1>3, <2>1, FlightFrame DEF UnwrapFail
  <1>4. CASE store(f)
    <2> DEFINE g == [f EXCEPT !.phase = "finish"]
               e == [provider |-> f.val, wrappedDigest |-> f.digest,
                     expiresAt |-> f.now + TTL]
    <2>1. /\ g \in Flight /\ FlightInv(g) /\ e \in CacheEntry
          /\ e.provider.keyID = f.keyID /\ e.provider.digest = e.wrappedDigest
      BY <1>0, <1>4, ConstAssumption DEF store, Flight, FlightInv, CacheEntry
    <2>2. SameGeneration(f) => Survived(e.provider, f.keyID, generation)
      BY <1>0, <1>4 DEF store, FlightInv, SameGeneration
    <2>3. \A k \in KeyIDs :
             \/ entries'[k] = entries[k]
             \/ entries'[k] = NONE
             \/ k = f.keyID /\ entries'[k] = e /\ SameGeneration(f)
      BY <1>4 DEF store
    <2>4. entries' \in [KeyIDs -> CacheEntry \cup {NONE}]
      BY <1>4, <2>1 DEF store, IndInv, TypeOK
    <2>5. TypeOK'
      BY <1>4, <2>1, <2>4 DEF store, Advance, IndInv, TypeOK
    <2>6. HistoryInv'
      BY <1>4, Zenon DEF store, IndInv, HistoryInv
    <2>7. EntriesInv'
      <3>1. SUFFICES ASSUME NEW k \in KeyIDs, entries'[k] # NONE
                     PROVE  /\ entries'[k].provider.keyID = k
                            /\ entries'[k].provider.digest = entries'[k].wrappedDigest
                            /\ Survived(entries'[k].provider, k, generation)
        BY <1>4, Zenon DEF store, EntriesInv, Survived
      <3>2. CASE entries'[k] = entries[k]
        BY <3>1, <3>2 DEF IndInv, EntriesInv
      <3>3. CASE k = f.keyID /\ entries'[k] = e /\ SameGeneration(f)
        BY <3>3, <2>1, <2>2
      <3>4. QED
        BY <2>3, <3>1, <3>2, <3>3, Zenon
    <2>8. \A x \in flights' : FlightInv(x)'
      <3>1. ASSUME NEW x \in flights' PROVE FlightInv(x)
        BY <1>4, <2>1, <3>1, Zenon DEF store, IndInv, Advance
      <3>2. QED
        BY <1>4, <3>1, Zenon DEF store, FlightInv, Survived
    <2>9. \A x \in Callers : CallerInv(callers[x])'
      BY <1>4 DEF store, IndInv, CallerInv, Survived
    <2>10. QED
      BY <2>5, <2>6, <2>7, <2>8, <2>9 DEF IndInv
  <1>5. CASE Finish(f)
    <2>1. ASSUME NEW c \in Callers
          PROVE  callers'[c] \in Caller /\ CallerInv(callers'[c])
      <3>1. CASE c \notin Waiting(f)
        BY <1>5, <3>1, Zenon DEF Finish, IndInv, TypeOK
      <3>2. CASE c \in Waiting(f)
        <4> DEFINE r == [callers[c] EXCEPT !.pc = "result", !.err = f.err, !.val = f.val]
        <4>1. callers[c] \in Caller /\ CallerInv(callers[c]) /\ callers'[c] = r
          BY <1>5, <3>2, Zenon DEF Finish, IndInv, TypeOK
        <4>2. /\ callers[c].pc = "wait" /\ f.keyID = callers[c].keyID
              /\ f.gen = callers[c].gen /\ f.digest = callers[c].digest
          BY <3>2 DEF Waiting, flightKey
        <4>3. r \in Caller
          BY <1>0, <4>1, Zenon DEF Caller, Flight
        <4>4. callers[c].arrived <= f.gen /\ f.gen \in Nat /\ callers[c].arrived \in Nat
          BY <1>0, <4>1, <4>2 DEF Caller, CallerInv, Flight
        <4>5. \A n \in invalidated[f.keyID] : n \in Nat
          BY <1>0, Zenon DEF IndInv, TypeOK, Flight
        <4>6. f.val # NONE => Survived(f.val, f.keyID, callers[c].arrived)
          BY <1>0, <4>4, <4>5 DEF FlightInv, Survived
        <4>7. CallerInv(r)
          BY <1>0, <4>1, <4>2, <4>6 DEF Caller, CallerInv, FlightInv
        <4>8. QED
          BY <4>1, <4>3, <4>7
      <3>3. QED
        BY <3>1, <3>2
    <2>2. callers' \in [Callers -> Caller]
      BY <1>5, <2>1, Zenon DEF Finish
    <2>3. TypeOK'
      BY <1>5, <2>2, Zenon DEF Finish, IndInv, TypeOK
    <2>4. HistoryInv' /\ EntriesInv'
      BY <1>5, Zenon DEF Finish, IndInv, HistoryInv, EntriesInv, Survived
    <2>5. \A x \in flights' : FlightInv(x)'
      BY <1>5, Zenon DEF Finish, IndInv, FlightInv, Survived
    <2>6. \A x \in Callers : CallerInv(callers[x])'
      BY <1>5, <2>1, Zenon DEF Finish, CallerInv, Survived
    <2>7. QED
      BY <2>3, <2>4, <2>5, <2>6 DEF IndInv
  <1>6. QED
    BY <1>1, <1>2, <1>3, <1>4, <1>5 DEF FlightStep

(***************************************************************************)
(* Joining or starting a flight: the new flight is keyed by a generation   *)
(* that has been reached and has no result yet.                            *)
(***************************************************************************)
LEMMA DoChanStep ==
    ASSUME IndInv, NEW c \in Callers, DoChan(c)
    PROVE  IndInv'
  <1> DEFINE r == [callers[c] EXCEPT !.pc = "wait"]
             f == [keyID |-> callers[c].keyID, gen |-> callers[c].gen,
                   digest |-> callers[c].digest, phase |-> "start",
                   born |-> 0, now |-> 0, err |-> FALSE, val |-> NONE]
  <1>0. callers[c] \in Caller /\ CallerInv(callers[c]) /\ callers[c].pc = "gen"
    BY DEF IndInv, TypeOK, DoChan
  <1>1. r \in Caller /\ CallerInv(r)
    BY <1>0, Zenon DEF Caller, CallerInv
  <1>2. f \in Flight /\ FlightInv(f)
    BY <1>0 DEF Caller, CallerInv, Flight, FlightInv
  <1>3. callers' = [callers EXCEPT ![c] = r] /\ flights' \subseteq flights \cup {f}
    BY DEF DoChan, IndInv, TypeOK
  <1>4. TypeOK'
    BY <1>1, <1>2, <1>3, Zenon DEF DoChan, IndInv, TypeOK
  <1>5. HistoryInv' /\ EntriesInv'
    BY DEF DoChan, IndInv, HistoryInv, EntriesInv, Survived
  <1>6. \A x \in flights' : FlightInv(x)'
    <2>1. ASSUME NEW x \in flights' PROVE FlightInv(x)
      BY <1>2, <1>3, <2>1, Zenon DEF IndInv
    <2>2. QED
      BY <2>1 DEF DoChan, FlightInv, Survived
  <1>7. \A x \in Callers : CallerInv(callers[x])'
    <2>1. ASSUME NEW x \in Callers PROVE CallerInv(callers'[x])
      BY <1>1, <1>3, Zenon DEF IndInv, TypeOK
    <2>2. QED
      BY <2>1 DEF DoChan, CallerInv, Survived
  <1>8. QED
    BY <1>4, <1>5, <1>6, <1>7, Zenon DEF IndInv

(***************************************************************************)
(* Invalidate opens a generation that no caller, flight or entry has seen, *)
(* and drops the one entry that has not survived it.                       *)
(***************************************************************************)
LEMMA InvalidateStep ==
    ASSUME IndInv, NEW k \in KeyIDs, Invalidate(k)
    PROVE  IndInv'
  <1>0. /\ generation \in Nat /\ generation' = generation + 1
        /\ invalidated \in [KeyIDs -> SUBSET Nat]
    BY Zenon DEF IndInv, TypeOK, Invalidate
  <1>1. TypeOK'
    BY <1>0 DEF IndInv, TypeOK, Invalidate
  <1>2. HistoryInv'
    BY <1>0 DEF IndInv, HistoryInv, Invalidate
  <1>3. \A x \in KeyIDs : \A n \in invalidated'[x] :
           n \in invalidated[x] \/ (x = k /\ n = generation + 1)
    BY <1>0, Zenon DEF Invalidate
  <1>4. EntriesInv'
    BY <1>0, <1>3, Zenon DEF IndInv, HistoryInv, EntriesInv, TypeOK, Survived, Invalidate
  <1>5. \A f \in flights' : FlightInv(f)'
    BY <1>0, <1>3 DEF IndInv, FlightInv, TypeOK, Flight, Survived, Invalidate
  <1>6. \A c \in Callers : CallerInv(callers[c])'
    BY <1>0, <1>3 DEF IndInv, CallerInv, TypeOK, Caller, Survived, Invalidate
  <1>7. QED
    BY <1>1, <1>2, <1>4, <1>5, <1>6, Zenon DEF IndInv

\* A step that changes no variable, or only the clock, keeps the invariant.
LEMMA Frame ==
    ASSUME IndInv, UNCHANGED <<generation, entries, flights, callers, invalidated>>,
           clock' \in Nat
    PROVE  IndInv'
  BY DEF IndInv, TypeOK, HistoryInv, EntriesInv, FlightInv, CallerInv, Survived

(***************************************************************************)
(* IndInv holds in every reachable state of the cache.                     *)
(***************************************************************************)
THEOREM Invariance == Spec => []IndInv
  <1>1. IndInv /\ [Next]_vars => IndInv'
    <2> SUFFICES ASSUME IndInv, [Next]_vars PROVE IndInv'
      BY Zenon
    <2>1. ASSUME NEW c \in Callers, NEW k \in KeyIDs, NEW d \in Digests \cup {NONE},
                 ForKey(c, k, d)
          PROVE  IndInv'
      BY <2>1, CallerSteps, Zenon
    <2>2. ASSUME NEW c \in Callers, CallerStep(c) \/ CtxDone(c) PROVE IndInv'
      BY <2>2, CallerSteps, DoChanStep DEF CallerStep
    <2>3. ASSUME NEW f \in flights, FlightStep(f) PROVE IndInv'
      BY <2>3, FlightSteps
    <2>4. ASSUME NEW k \in KeyIDs, Invalidate(k) PROVE IndInv'
      BY <2>4, InvalidateStep, Zenon
    <2>5. CASE Tick
      BY <2>5, Frame DEF Tick, IndInv, TypeOK
    <2>6. CASE UNCHANGED vars
      BY <2>6, Frame DEF vars, IndInv, TypeOK
    <2>7. QED
      BY <2>1, <2>2, <2>3, <2>4, <2>5, <2>6, Zenon DEF Next
  <1>2. QED
    BY <1>1, InitIndInv, PTL DEF Spec

(***************************************************************************)
(* Every state is type-correct: in particular, whatever a root call does,  *)
(* ForKey's cache never holds a nil provider.                              *)
(***************************************************************************)
THEOREM TypeCorrect == Spec => []TypeOK
  <1>1. IndInv => TypeOK
    BY DEF IndInv
  <1>2. QED
    BY <1>1, Invariance, PTL

(***************************************************************************)
(* ForKey never hands a caller key material revoked by an Invalidate that  *)
(* preceded the call, in any interleaving of any number of callers,        *)
(* unwraps and invalidations.                                              *)
(***************************************************************************)
THEOREM RevokedKeysStayRevoked == Spec => []FreshAfterInvalidate
  <1>1. IndInv => FreshAfterInvalidate
    BY Zenon DEF IndInv, CallerInv, Survived, FreshAfterInvalidate
  <1>2. QED
    BY <1>1, Invariance, PTL

(***************************************************************************)
(* ForKey's answer always belongs to the keyID and the wrapped bytes of    *)
(* the call.                                                               *)
(***************************************************************************)
THEOREM AnswersMatchTheCall == Spec => []OwnMaterial
  <1>1. IndInv => OwnMaterial
    BY Zenon DEF IndInv, CallerInv, OwnMaterial
  <1>2. QED
    BY <1>1, Invariance, PTL

-----------------------------------------------------------------------------
(* RateLimiter. *)

Present(k) == buckets[k] # Absent

\* What was admitted for k, less what has leaked since, and the tokens left in
\* k's bucket make up at most Burst; of a bucket that is gone nothing is left.
MeterInv(k) ==
    IF Present(k) THEN meter[k] + buckets[k].tokens <= buckets[k].last * RPS + Burst
    ELSE meter[k] <= time * RPS

\* seen is the latest of a bucket's times.
AgeInv(k) ==
    Present(k) => /\ buckets[k].last <= buckets[k].seen /\ buckets[k].lastWarn <= buckets[k].seen
                  /\ buckets[k].seen <= time

\* No line was logged for k, or none for long enough.
Quiet(k) == warned[k] = 0 \/ time - warned[k] >= warnInterval

\* A bucket knows of the last line, or that line is old.
LineInv(k) ==
    IF Present(k) THEN buckets[k].lastWarn = warned[k] \/ (buckets[k].lastWarn = 0 /\ Quiet(k))
    ELSE Quiet(k)

KeyPaced(k) == AgeInv(k) /\ LineInv(k)

\* The bucket warnDue finds, and that it is there since allow, not evicted.
BucketOf(r) == IF Present(requests[r].key) THEN requests[r].key ELSE overflowKey
WaitInv(r) ==
    requests[r].pc = "warn" /\ requests[r].now = time =>
        Present(BucketOf(r)) /\ buckets[BucketOf(r)].seen = time

\* Requests are counted for the network they come from; their clock reading is
\* not of the future.
KeyInv(r) ==
    /\ requests[r].pc # "idle" => requests[r].key \in Sources /\ requests[r].from = requests[r].key
    /\ requests[r].now <= time

SizeInv ==
    /\ IsFiniteSet({k \in Keys : Present(k)})
    /\ Cardinality({k \in Sources : Present(k)}) <= maxBuckets

\* No bucket has been charged too little.
Contained == ~over /\ \A k \in Keys : MeterInv(k)

\* The rest holds as long as no request acts on a clock reading that is out of
\* date.
LimiterInv ==
    /\ LimiterTypeOK /\ SizeInv /\ \A r \in Requests : KeyInv(r)
    /\ ~stalled => /\ ~hasty /\ \A k \in Keys : KeyPaced(k)
                   /\ \A r \in Requests : WaitInv(r)
    /\ ~stalled /\ Refills => Contained

-----------------------------------------------------------------------------
\* clientip.FromRequest finds the client behind any route of trusted proxies and
\* any header it sends: the rightmost hop that is not trusted is its address.
LEMMA ClientFound ==
    ASSUME NEW client \in Clients, NEW route \in Routes, NEW pre \in Headers
    PROVE  FromRequest(PeerOf(client, route), HopsOf(client, route, pre)) = client
  <1>0. client \notin Trusted /\ client # Malformed
    BY ClientAssumption
  <1>1. CASE route = <<>>
    BY <1>0, <1>1, Zenon DEF FromRequest, PeerOf, isTrusted
  <1>2. CASE route # <<>>
    <2> DEFINE n == Len(route)
               tail == SubSeq(route, 1, n - 1)
               h == HopsOf(client, route, pre)
               at == Len(pre) + 1
    <2>1. route \in Seq(Trusted) /\ pre \in Seq(Clients \cup Trusted \cup {Malformed})
      BY LimiterAssumption
    <2>2. n \in Nat \ {0} /\ route[n] \in Trusted
      BY <1>2, <2>1
    <2>3. tail \in Seq(Trusted) /\ Len(tail) = n - 1
      <3>1. \A i \in 1..(n - 1) : route[i] \in Trusted
        BY <2>1
      <3> HIDE DEF n
      <3>2. QED
        BY <2>2, <3>1, SubSeqProperties
    <2>4. h = pre \o <<client>> \o tail
      BY <1>2, Zenon DEF HopsOf
    <2>5. /\ Len(h) = Len(pre) + n /\ DOMAIN h = 1..Len(h)
          /\ h[at] = client
          /\ \A i \in DOMAIN h : i > at => h[i] = tail[i - at] /\ i - at \in 1..Len(tail)
      <3> DEFINE T == Clients \cup Trusted \cup {Malformed}
                 front == pre \o <<client>>
      <3>1. pre \in Seq(T) /\ <<client>> \in Seq(T) /\ tail \in Seq(T)
        BY <2>1, <2>3
      <3>2. front \in Seq(T) /\ Len(front) = at /\ front[at] = client
        BY <3>1
      <3>3. h = front \o tail
        BY <2>4
      <3> HIDE DEF tail, T, front, h, n
      <3>4. /\ front \o tail \in Seq(T) /\ Len(front \o tail) = Len(front) + Len(tail)
            /\ \A i \in 1..(Len(front) + Len(tail)) :
                    (front \o tail)[i] = IF i <= Len(front) THEN front[i] ELSE tail[i - Len(front)]
        BY <3>1, <3>2, ConcatProperties, Zenon
      <3>5. Len(pre) \in Nat /\ at \in Nat \ {0} /\ at + Len(tail) = Len(pre) + n
        BY <2>2, <2>3, <3>1
      <3> HIDE DEF at
      <3>6. /\ h \in Seq(T) /\ Len(h) = at + Len(tail)
            /\ \A i \in 1..(at + Len(tail)) :
                    h[i] = IF i <= at THEN front[i] ELSE tail[i - at]
        BY <3>2, <3>3, <3>4, Zenon
      <3>7. DOMAIN h = 1..Len(h) /\ Len(tail) \in Nat
        BY <3>1, <3>6
      <3>8. h[at] = client
        BY <3>2, <3>5, <3>6, <3>7
      <3>9. ASSUME NEW i \in DOMAIN h, i > at
            PROVE  h[i] = tail[i - at] /\ i - at \in 1..Len(tail)
        BY <3>5, <3>6, <3>7, <3>9
      <3>10. QED
        BY <3>5, <3>6, <3>7, <3>8, <3>9
    <2> HIDE DEF h, tail
    <2>6. \A i \in DOMAIN h : i > at => h[i] \in Trusted
      BY <2>3, <2>5
    <2>7. at \in DOMAIN h
      BY <2>1, <2>2, <2>5
    <2>8. RightmostUntrusted(h) = at
      <3> DEFINE U == {i \in DOMAIN h : ~isTrusted(h[i])}
      <3>1. at \in U /\ \A j \in U : j <= at
        BY <1>0, <2>1, <2>5, <2>6, <2>7 DEF isTrusted
      <3>2. \A i \in U : (\A j \in U : j <= i) => i = at
        BY <2>1, <2>5, <3>1
      <3> HIDE DEF U
      <3>3. (CHOOSE i \in U : \A j \in U : j <= i) = at
        BY <3>1, <3>2
      <3>4. QED
        BY <3>1, <3>3, Zenon DEF RightmostUntrusted, U
    <2>9. QED
      BY <1>0, <1>2, <2>1, <2>2, <2>5, <2>8 DEF FromRequest, PeerOf, isTrusted, h
  <1>3. QED
    BY <1>1, <1>2, Zenon

\* So every request is counted for the network it comes from.
LEMMA Attributed ==
    ASSUME NEW a \in Arrivals
    PROVE  a.key \in Sources /\ a.from = a.key
  <1>1. PICK client \in Clients, route \in Routes, pre \in Headers :
            a = [key |-> Network(FromRequest(PeerOf(client, route), HopsOf(client, route, pre))),
                 from |-> Network(client)]
    BY DEF Arrivals
  <1>2. a.key = Network(client) /\ a.from = Network(client)
    BY <1>1, ClientFound
  <1>3. QED
    BY <1>2, Zenon DEF Sources

\* The numbers among the constants.
LEMMA Numbers ==
    /\ RPS \in Nat /\ Burst \in Nat /\ Burst >= 1 /\ maxBuckets \in Nat
    /\ idleTTL \in Nat /\ warnInterval \in Nat /\ idleTTL >= warnInterval
    /\ idleTTL * RPS \in Nat
  BY LimiterAssumption

\* A slot without a request.
LEMMA Idling == NoRequest.pc = "idle" /\ NoRequest.now = 0 /\ \A t \in Nat : 0 <= t /\ t <= t
  BY DEF NoRequest

\* Time in tokens.
LEMMA Leaks ==
    ASSUME NEW s \in Nat, NEW t \in Nat, s <= t
    PROVE  /\ s * RPS \in Nat /\ t * RPS \in Nat /\ s * RPS <= t * RPS
           /\ RPS * (t - s) = t * RPS - s * RPS
  BY Numbers

\* In idleTTL a bucket is refilled.
LEMMA FullAgain ==
    ASSUME Refills, NEW m \in Nat, NEW last \in Nat, NEW now \in Nat,
           m <= last * RPS + Burst, last + idleTTL <= now
    PROVE  m <= now * RPS
  <1>1. last * RPS \in Nat /\ (last + idleTTL) * RPS <= now * RPS
    BY Numbers, Leaks
  <1>2. (last + idleTTL) * RPS = last * RPS + idleTTL * RPS
    BY Numbers
  <1>3. QED
    BY <1>1, <1>2, Numbers DEF Refills

\* rate.Limiter.AllowN on a bucket, and seen as allow sets it.
LEMMA AllowNFits ==
    ASSUME NEW b \in Bucket, NEW now \in Nat
    PROVE  LET c == [AllowN(b, now) EXCEPT !.seen = Seen(b, now)] IN
           /\ Refilled(b, now) \in 0..Burst
           /\ c \in Bucket /\ c.seen = now /\ c.lastWarn = b.lastWarn
           /\ IF Refilled(b, now) >= 1 THEN c.tokens = Refilled(b, now) - 1 /\ c.last = now
              ELSE c.tokens = b.tokens /\ c.last = b.last
  <1> DEFINE s == Least(b.last, now)
             R == Refilled(b, now)
  <1>1. /\ b.tokens \in 0..Burst /\ b.last \in Nat /\ b.seen \in Nat /\ b.lastWarn \in Nat
        /\ Burst \in Nat \ {0} /\ RPS \in Nat
    BY Numbers DEF Bucket
  <1>2. s \in Nat /\ s <= now
    BY <1>1 DEF Least
  <1>3. RPS * (now - s) \in Nat
    BY <1>1, <1>2
  <1>4. R \in 0..Burst
    <2> HIDE DEF s
    <2>1. \A x \in Nat : Least(Burst, b.tokens + x) \in 0..Burst
      BY <1>1 DEF Least
    <2>2. QED
      BY <1>3, <2>1 DEF Refilled, s
  <1> HIDE DEF R
  <1>5. CASE R >= 1
    <2> DEFINE d == [b EXCEPT !.tokens = R - 1, !.last = now]
    <2>1. AllowN(b, now) = d
      BY <1>5 DEF AllowN, R
    <2>2. /\ d \in Bucket /\ d.tokens = R - 1 /\ d.last = now /\ d.lastWarn = b.lastWarn
      <3>1. PICK x \in 0..Burst : x = R - 1
        BY <1>1, <1>4, <1>5
      <3>2. d = [b EXCEPT !.tokens = x, !.last = now]
        BY <3>1, Zenon
      <3> HIDE DEF d
      <3>3. QED
        BY <3>1, <3>2, Zenon DEF Bucket
    <2> HIDE DEF d
    <2>3. QED
      BY <1>4, <1>5, <2>1, <2>2 DEF Seen, Bucket, R
  <1>6. CASE ~(R >= 1)
    BY <1>1, <1>4, <1>6, Zenon DEF AllowN, Seen, Bucket, R
  <1>7. QED
    BY <1>4, <1>5, <1>6 DEF R

\* What AllowN admits fits into the meter: m is what the bucket's meter showed.
LEMMA AdmittedFits ==
    ASSUME NEW b \in Bucket, NEW now \in Nat, NEW m \in Nat, b.last <= now,
           m + b.tokens <= b.last * RPS + Burst
    PROVE  Most(m, now * RPS) + Refilled(b, now) <= now * RPS + Burst
  <1>1. /\ b.tokens \in Nat /\ b.last \in Nat /\ Burst \in Nat /\ b.tokens <= Burst
    BY LimiterAssumption DEF Bucket
  <1>2. PICK L \in Nat, T \in Nat :
            L = b.last * RPS /\ T = now * RPS /\ RPS * (now - b.last) = T - L /\ L <= T
    BY <1>1, Leaks, Zenon
  <1>3. Refilled(b, now) = Least(Burst, b.tokens + (T - L))
    BY <1>1, <1>2 DEF Refilled, Least
  <1>4. m + b.tokens <= L + Burst
    BY <1>2, Zenon
  <1>5. Most(m, T) + Least(Burst, b.tokens + (T - L)) <= T + Burst
    BY <1>1, <1>2, <1>4 DEF Most, Least
  <1>6. QED
    BY <1>2, <1>3, <1>5, Zenon

\* The last line of an evicted bucket is old.
LEMMA EvictedIsQuiet ==
    ASSUME NEW k \in Keys, LimiterTypeOK, KeyPaced(k), Present(k), Idle(buckets[k], time)
    PROVE  Quiet(k)
  <1>1. /\ buckets[k] \in Bucket /\ time \in Nat /\ warned[k] \in Nat
    BY Zenon DEF LimiterTypeOK, Present
  <1> DEFINE b == buckets[k]
  <1>2. b.seen \in Nat /\ b.lastWarn \in Nat
    BY <1>1, Zenon DEF Bucket
  <1>3. /\ b.lastWarn <= b.seen /\ time - b.seen > idleTTL
        /\ b.lastWarn = warned[k] \/ Quiet(k)
    BY Zenon DEF KeyPaced, AgeInv, LineInv, Idle
  <1> HIDE DEF b
  <1>4. QED
    BY <1>1, <1>2, <1>3, Numbers DEF Quiet

\* An evicted bucket was full again.
LEMMA EvictedIsFull ==
    ASSUME Refills, NEW k \in Keys, LimiterTypeOK, MeterInv(k), KeyPaced(k),
           Present(k), Idle(buckets[k], time)
    PROVE  meter[k] <= time * RPS
  <1>1. /\ buckets[k] \in Bucket /\ meter[k] \in Nat /\ time \in Nat
    BY Zenon DEF LimiterTypeOK, Present
  <1> DEFINE b == buckets[k]
  <1>2. /\ b.tokens \in Nat /\ b.last \in Nat /\ b.seen \in Nat
    BY <1>1, LimiterAssumption DEF Bucket
  <1>3. /\ b.last <= b.seen /\ time - b.seen > idleTTL
        /\ meter[k] + b.tokens <= b.last * RPS + Burst
    BY Zenon DEF KeyPaced, MeterInv, AgeInv, Idle
  <1> HIDE DEF b
  <1>4. meter[k] <= b.last * RPS + Burst /\ b.last + idleTTL <= time
    <2>1. b.last * RPS \in Nat
      BY <1>2, Numbers
    <2>2. QED
      BY <1>1, <1>2, <1>3, <2>1, Numbers
  <1>5. QED
    BY <1>1, <1>2, <1>4, FullAgain

-----------------------------------------------------------------------------
\* What allow does: it charges one bucket, K, that was b before and is c now,
\* in a map m that may have been swept.
Charges(r, m, K, b, c) ==
    LET q == requests[r]
        ok == Refilled(b, q.now) >= 1
    IN
    /\ m \in [Keys -> Bucket \cup {Absent}]
    /\ \A k \in Keys : \/ m[k] = buckets[k]
                       \/ m[k] = Absent /\ Present(k) /\ Idle(buckets[k], q.now)
    /\ IF m[K] = Absent THEN b = NewLimiter ELSE b = m[K]
    /\ c \in Bucket /\ c.seen = q.now /\ c.lastWarn = b.lastWarn
    /\ IF ok THEN c.tokens = Refilled(b, q.now) - 1 /\ c.last = q.now
       ELSE c.tokens = b.tokens /\ c.last = b.last
    /\ \/ K = q.key /\ m = buckets /\ Present(K)
       \/ K = q.key /\ ~Full(m)
       \/ K = overflowKey /\ m[q.key] = Absent
    /\ buckets' = [m EXCEPT ![K] = c]
    /\ requests' = [requests EXCEPT ![r] = IF ok THEN NoRequest ELSE [q EXCEPT !.pc = "warn"]]
    /\ IF ok THEN Metered(K, q.now) ELSE UNCHANGED <<meter, over>>

LEMMA AllowCharges ==
    ASSUME LimiterTypeOK, NEW r \in Requests, KeyInv(r), allow(r)
    PROVE  \E m, c : \E K \in Keys, b \in Bucket : Charges(r, m, K, b, c)
  <1> DEFINE q == requests[r]
             known == buckets[q.key] # Absent
             m == IF known THEN buckets ELSE sweepLocked(q.now)
             key == IF ~known /\ Full(m) THEN overflowKey ELSE q.key
             b == IF m[key] = Absent THEN NewLimiter ELSE m[key]
             c == [AllowN(b, q.now) EXCEPT !.seen = Seen(b, q.now)]
             who == IF key = overflowKey THEN key ELSE q.from
             ok == Refilled(b, q.now) >= 1
  <1>1. /\ q.key \in Sources /\ q.from = q.key /\ q.now \in Nat
        /\ q.key \in Keys /\ overflowKey \in Keys
        /\ buckets \in [Keys -> Bucket \cup {Absent}]
    BY Zenon DEF allow, KeyInv, LimiterTypeOK, Request, Keys
  <1>2. /\ buckets' = [m EXCEPT ![key] = c]
        /\ requests' = [requests EXCEPT ![r] = IF ok THEN NoRequest ELSE [q EXCEPT !.pc = "warn"]]
        /\ IF ok THEN Metered(who, q.now) ELSE UNCHANGED <<meter, over>>
    BY Zenon DEF allow
  <1>3. m \in [Keys -> Bucket \cup {Absent}]
    BY <1>1, Zenon DEF sweepLocked
  <1>4. \A k \in Keys : \/ m[k] = buckets[k]
                        \/ m[k] = Absent /\ Present(k) /\ Idle(buckets[k], q.now)
    BY <1>1, Zenon DEF sweepLocked, Present
  <1>5. key \in Keys /\ who = key
    BY <1>1, Zenon
  <1>6. \/ key = q.key /\ m = buckets /\ Present(key)
        \/ key = q.key /\ ~Full(m)
        \/ key = overflowKey /\ m[q.key] = Absent
    BY <1>1, <1>4, Zenon DEF Present
  <1> HIDE DEF m, key
  <1>7. b \in Bucket
    <2>1. NewLimiter \in Bucket
      BY Numbers DEF NewLimiter, Bucket
    <2>2. QED
      BY <1>3, <1>5, <2>1, Zenon
  <1> HIDE DEF b
  <1>8. /\ c \in Bucket /\ c.seen = q.now /\ c.lastWarn = b.lastWarn
        /\ IF ok THEN c.tokens = Refilled(b, q.now) - 1 /\ c.last = q.now
           ELSE c.tokens = b.tokens /\ c.last = b.last
    BY <1>1, <1>7, AllowNFits
  <1>9. IF m[key] = Absent THEN b = NewLimiter ELSE b = m[key]
    BY DEF b
  <1> HIDE DEF c
  <1>10. Charges(r, m, key, b, c)
    BY <1>2, <1>3, <1>4, <1>5, <1>6, <1>8, <1>9, Zenon DEF Charges
  <1>11. QED
    BY <1>5, <1>7, <1>10

\* The map stays bounded: only a map that is not full takes another source.
LEMMA ChargeFits ==
    ASSUME SizeInv, NEW r \in Requests, requests[r].key \in Sources,
           NEW m, NEW c, NEW K \in Keys, NEW b \in Bucket, Charges(r, m, K, b, c)
    PROVE  SizeInv'
  <1> DEFINE A == {k \in Keys : Present(k)}
             M == {k \in Keys : m[k] # Absent}
             S == {k \in Sources : Present(k)}
  <1>1. /\ M \subseteq A
        /\ A' \subseteq M \cup {K}
    BY Zenon DEF Charges, Present
  <1>2. IsFiniteSet(M) /\ IsFiniteSet(M \cup {K}) /\ IsFiniteSet(A')
    BY <1>1, FS_Subset, FS_AddElement, Zenon DEF SizeInv
  <1>3. Cardinality(S') <= maxBuckets
    <2>0. S \subseteq A /\ S' \subseteq A' /\ IsFiniteSet(S) /\ IsFiniteSet(S')
      <3>1. S \subseteq A /\ S' \subseteq A'
        BY Zenon DEF Keys
      <3>2. QED
        BY <1>2, <3>1, FS_Subset DEF SizeInv
    <2>1. CASE K = requests[r].key /\ m = buckets /\ Present(K)
      <3>1. S' \subseteq S
        BY <2>1, Zenon DEF Charges, Present, Keys
      <3>2. QED
        BY <2>0, <3>1, FS_Subset, FS_CardinalityType, Numbers DEF SizeInv
    <2>2. CASE K = requests[r].key /\ ~Full(m)
      <3>1. S' \subseteq M \cup {K}
        BY <1>1, <2>0, Zenon
      <3>2. Cardinality(M \cup {K}) <= Cardinality(M) + 1 /\ Cardinality(M) \in Nat
        <4>1. Cardinality(M) \in Nat
          BY <1>2, FS_CardinalityType, Zenon
        <4>2. Cardinality(M \cup {K}) = IF K \in M THEN Cardinality(M) ELSE Cardinality(M) + 1
          BY <1>2, FS_AddElement, Zenon
        <4> HIDE DEF M
        <4>3. QED
          BY <4>1, <4>2
      <3>3. Cardinality(M) < maxBuckets
        BY <2>2, <3>2, Numbers, SMTT(20) DEF Full
      <3>4. Cardinality(S') <= Cardinality(M \cup {K}) /\ Cardinality(S') \in Nat
            /\ Cardinality(M \cup {K}) \in Nat
        BY <1>2, <2>0, <3>1, FS_Subset, FS_CardinalityType
      <3>5. QED
        BY <3>2, <3>3, <3>4, Numbers
    <2>3. CASE K = overflowKey
      <3>1. S' \subseteq S
        BY <2>3, LimiterAssumption, Zenon DEF Charges, Present, Keys
      <3>2. QED
        BY <2>0, <3>1, FS_Subset, FS_CardinalityType, Numbers DEF SizeInv
    <2>4. QED
      BY <2>1, <2>2, <2>3, Zenon DEF Charges
  <1>4. QED
    BY <1>2, <1>3 DEF SizeInv

LEMMA ChargeTypes ==
    ASSUME LimiterTypeOK, \A s \in Requests : KeyInv(s), NEW r \in Requests, requests[r].key \in Sources,
           NEW m, NEW c, NEW K \in Keys, NEW b \in Bucket, Charges(r, m, K, b, c), allow(r)
    PROVE  LimiterTypeOK' /\ \A s \in Requests : KeyInv(s)'
  <1> DEFINE q == requests[r]
             ok == Refilled(b, q.now) >= 1
  <1>1. q \in Request /\ q.now \in Nat /\ RPS \in Nat
    BY Numbers DEF LimiterTypeOK, Request
  <1>2. NoRequest \in Request /\ [q EXCEPT !.pc = "warn"] \in Request
    BY <1>1 DEF NoRequest, Request
  <1>3. /\ requests' \in [Requests -> Request]
        /\ buckets' \in [Keys -> Bucket \cup {Absent}]
    BY <1>2, Zenon DEF LimiterTypeOK, Charges
  <1>4. meter' \in [Keys -> Nat] /\ over' \in BOOLEAN
    <2>1. CASE ~ok
      BY <2>1, Zenon DEF LimiterTypeOK, Charges
    <2>2. CASE ok
      <3>1. Most(meter[K], q.now * RPS) + 1 \in Nat
        BY <1>1 DEF LimiterTypeOK, Most
      <3>2. meter' = [meter EXCEPT ![K] = Most(meter[K], q.now * RPS) + 1] /\ over' \in BOOLEAN
        BY <2>2 DEF Charges, Metered
      <3>3. QED
        BY <3>1, <3>2, Zenon DEF LimiterTypeOK
    <2>3. QED
      BY <2>1, <2>2
  <1>5. /\ time' \in Nat /\ lastSweep' \in Nat /\ stalled' \in BOOLEAN /\ hasty' \in BOOLEAN
        /\ warned' \in [Keys -> Nat]
    BY <1>1, Zenon DEF LimiterTypeOK, allow
  <1>6. ASSUME NEW s \in Requests
        PROVE  KeyInv(s)'
    <2>1. \/ requests'[s] = requests[s]
          \/ requests'[s] = NoRequest
          \/ s = r /\ requests'[s] = [q EXCEPT !.pc = "warn"]
      BY DEF Charges, LimiterTypeOK
    <2>2. q.pc # "idle" /\ q.key \in Sources /\ q.from = q.key
      BY Zenon DEF allow, KeyInv
    <2>3. LET n == [q EXCEPT !.pc = "warn"] IN n.key = q.key /\ n.from = q.from /\ n.now = q.now
      BY <1>1, Zenon DEF Request
    <2>4. /\ KeyInv(s) /\ q.now <= time /\ time' = time
          /\ NoRequest.pc = "idle" /\ NoRequest.now <= time
      <3>1. time' = time
        BY Zenon DEF allow
      <3>2. NoRequest.pc = "idle" /\ NoRequest.now <= time
        BY Idling, Zenon DEF LimiterTypeOK
      <3>3. QED
        BY <3>1, <3>2 DEF KeyInv
    <2>5. QED
      BY <2>1, <2>2, <2>3, <2>4, Zenon DEF KeyInv
  <1>7. QED
    BY <1>3, <1>4, <1>5, <1>6, Zenon DEF LimiterTypeOK

\* The bucket that is charged: its own meter held what it admitted, and when it
\* is new there was nothing to make up for.
LEMMA ChargedBefore ==
    ASSUME LimiterTypeOK, NEW r \in Requests, requests[r].now = time,
           NEW m, NEW c, NEW K \in Keys, NEW b \in Bucket, Charges(r, m, K, b, c), KeyPaced(K)
    PROVE  /\ Refilled(b, time) >= 1 \/ (b = buckets[K] /\ Present(K))
           /\ b.last <= time /\ b.lastWarn <= time
           /\ b.lastWarn = warned[K] \/ (b.lastWarn = 0 /\ Quiet(K))
           /\ Refills /\ MeterInv(K) =>
                 Most(meter[K], time * RPS) + Refilled(b, time) <= time * RPS + Burst
  <1>0. time \in Nat /\ meter[K] \in Nat /\ time * RPS \in Nat /\ RPS \in Nat
    BY Numbers DEF LimiterTypeOK
  <1>1. CASE m[K] # Absent
    <2>1. b = buckets[K] /\ Present(K)
      BY <1>1, Zenon DEF Charges, Present
    <2>2. b.tokens \in Nat /\ b.last \in Nat /\ b.seen \in Nat /\ b.lastWarn \in Nat
      BY DEF Bucket
    <2>3. b.last <= time /\ b.lastWarn <= time
      BY <1>0, <2>1, <2>2 DEF KeyPaced, AgeInv
    <2>4. ASSUME MeterInv(K)
          PROVE  Most(meter[K], time * RPS) + Refilled(b, time) <= time * RPS + Burst
      <3>1. meter[K] + b.tokens <= b.last * RPS + Burst
        BY <2>1, <2>4 DEF MeterInv
      <3>2. QED
        BY <1>0, <2>3, <3>1, AdmittedFits, Zenon
    <2>5. Refilled(b, time) >= 1 \/ (b = buckets[K] /\ Present(K))
      BY <2>1, Zenon
    <2>6. b.lastWarn = warned[K] \/ (b.lastWarn = 0 /\ Quiet(K))
      BY <2>1, Zenon DEF KeyPaced, LineInv
    <2>7. QED
      BY <2>3, <2>4, <2>5, <2>6
  <1>2. CASE m[K] = Absent
    <2>1. b = NewLimiter
      BY <1>2 DEF Charges
    <2>2. Quiet(K) /\ (Refills /\ MeterInv(K) => meter[K] <= time * RPS)
      <3>1. CASE Present(K)
        <4>1. Idle(buckets[K], time)
          BY <1>2, <3>1, Zenon DEF Charges, Present
        <4>2. QED
          BY <3>1, <4>1, EvictedIsQuiet, EvictedIsFull
      <3>2. CASE ~Present(K)
        BY <3>2, Zenon DEF KeyPaced, MeterInv, LineInv
      <3>3. QED
        BY <3>1, <3>2, Zenon
    <2>3. b.tokens = Burst /\ b.last = 0 /\ b.lastWarn = 0
      BY <2>1, Zenon DEF NewLimiter
    <2>4. Refilled(b, time) = Burst
      <3>1. Least(0, time) = 0 /\ RPS * time \in Nat
        BY <1>0 DEF Least
      <3>2. QED
        BY <1>0, <2>3, <3>1, Numbers DEF Refilled, Least
    <2>5. ASSUME Refills, MeterInv(K)
          PROVE  Most(meter[K], time * RPS) + Refilled(b, time) <= time * RPS + Burst
      <3>1. Most(meter[K], time * RPS) = time * RPS
        BY <1>0, <2>2, <2>5 DEF Most
      <3>2. QED
        BY <1>0, <2>4, <3>1, Numbers
    <2>6. Refilled(b, time) >= 1 /\ b.last <= time /\ b.lastWarn <= time
      BY <1>0, <2>3, <2>4, Numbers
    <2>7. QED
      BY <2>2, <2>3, <2>5, <2>6, Zenon
  <1>3. QED
    BY <1>1, <1>2, Zenon

LEMMA ChargePaces ==
    ASSUME LimiterTypeOK, NEW r \in Requests, requests[r].now = time, allow(r),
           NEW m, NEW c, NEW K \in Keys, NEW b \in Bucket, Charges(r, m, K, b, c),
           \A k \in Keys : KeyPaced(k)
    PROVE  (\A k \in Keys : KeyPaced(k)') /\ (Refills /\ Contained => Contained')
  <1> DEFINE R == Refilled(b, time)
             T == time * RPS
  <1>0. /\ time \in Nat /\ time' = time /\ warned' = warned /\ T \in Nat
        /\ meter \in [Keys -> Nat] /\ buckets \in [Keys -> Bucket \cup {Absent}]
        /\ m \in [Keys -> Bucket \cup {Absent}] /\ c \in Bucket
    <2>1. time \in Nat /\ meter \in [Keys -> Nat] /\ buckets \in [Keys -> Bucket \cup {Absent}]
      BY DEF LimiterTypeOK
    <2>2. time' = time /\ warned' = warned
      BY Zenon DEF allow
    <2>3. m \in [Keys -> Bucket \cup {Absent}] /\ c \in Bucket
      BY Zenon DEF Charges
    <2>4. T \in Nat
      BY <2>1, Numbers, SMTT(20)
    <2>5. QED
      BY <2>1, <2>2, <2>3, <2>4, Zenon
  <1>1. /\ R >= 1 \/ (b = buckets[K] /\ Present(K))
        /\ b.last <= time /\ b.lastWarn <= time
        /\ b.lastWarn = warned[K] \/ (b.lastWarn = 0 /\ Quiet(K))
        /\ Refills /\ MeterInv(K) => Most(meter[K], T) + R <= T + Burst
    BY ChargedBefore, Zenon
  <1>2. /\ c.seen = time /\ c.lastWarn = b.lastWarn
        /\ IF R >= 1 THEN c.tokens = R - 1 /\ c.last = time
           ELSE c.tokens = b.tokens /\ c.last = b.last
        /\ IF R >= 1 THEN Metered(K, time) ELSE UNCHANGED <<meter, over>>
    BY DEF Charges
  <1>3. buckets'[K] = c /\ Present(K)' /\ \A k \in Keys : k # K => buckets'[k] = m[k]
    BY <1>0, LimiterAssumption, Zenon DEF Charges, Present
  <1>4. /\ R \in Nat /\ Most(meter[K], T) \in Nat /\ b.tokens \in Nat /\ b.last \in Nat
        /\ b.lastWarn \in Nat
    <2>1. R \in 0..Burst
      BY <1>0, AllowNFits, Zenon
    <2>2. b.tokens \in 0..Burst /\ b.last \in Nat /\ b.lastWarn \in Nat
      BY DEF Bucket
    <2> HIDE DEF R, T
    <2>3. Most(meter[K], T) \in Nat
      BY <1>0, Zenon DEF Most
    <2>4. QED
      BY <2>1, <2>2, <2>3, Numbers
  <1>5. \A k \in Keys : k # K => meter'[k] = meter[k]
    BY <1>0, <1>2, Zenon DEF Metered
  <1>6. R >= 1 => meter'[K] = Most(meter[K], T) + 1 /\ over' = (over \/ meter'[K] - T > Burst)
    BY <1>0, <1>2 DEF Metered
  <1> HIDE DEF R, T
  <1>7. KeyPaced(K)'
    <2>1. c.last <= time /\ c.lastWarn <= time /\ time <= time
      BY <1>0, <1>1, <1>2, Idling, Zenon
    <2>2. AgeInv(K)'
      BY <1>0, <1>2, <1>3, <2>1 DEF AgeInv
    <2>3. LineInv(K)'
      BY <1>0, <1>1, <1>2, <1>3, Zenon DEF LineInv, Quiet
    <2>4. QED
      BY <2>2, <2>3, Zenon DEF KeyPaced
  <1>8. ASSUME NEW k \in Keys, k # K
        PROVE  KeyPaced(k)'
    <2>1. CASE m[k] = buckets[k]
      BY <1>0, <1>3, <1>8, <2>1, Zenon DEF KeyPaced, AgeInv, LineInv, Quiet, Present
    <2>2. CASE m[k] = Absent /\ Present(k) /\ Idle(buckets[k], time)
      <3>1. Quiet(k)
        BY <2>2, EvictedIsQuiet, Zenon
      <3>2. QED
        BY <1>0, <1>3, <1>8, <2>2, <3>1, Zenon DEF KeyPaced, AgeInv, LineInv, Quiet, Present
    <2>3. QED
      BY <2>1, <2>2, Zenon DEF Charges
  <1>9. ASSUME Refills, Contained
        PROVE  Contained'
    <2>1. ~over /\ (\A k \in Keys : MeterInv(k)) /\ Most(meter[K], T) + R <= T + Burst
      BY <1>1, <1>9 DEF Contained
    <2>2. ~over' /\ MeterInv(K)'
      <3>1. CASE R >= 1
        <4>1. ~(meter'[K] - T > Burst)
          BY <1>0, <1>4, <1>6, <2>1, <3>1, Numbers
        <4>2. ~over'
          BY <1>6, <2>1, <3>1, <4>1, Zenon
        <4>3. meter'[K] + c.tokens <= T + Burst
          BY <1>0, <1>2, <1>4, <1>6, <2>1, <3>1, Numbers, SMTT(20)
        <4>4. QED
          BY <1>2, <1>3, <3>1, <4>2, <4>3, Zenon DEF MeterInv, T
      <3>2. CASE ~(R >= 1)
        BY <1>0, <1>1, <1>2, <1>3, <2>1, <3>2, Zenon DEF MeterInv
      <3>3. QED
        BY <3>1, <3>2, Zenon
    <2>3. ASSUME NEW k \in Keys, k # K
          PROVE  MeterInv(k)'
      <3>1. CASE m[k] = buckets[k]
        BY <1>0, <1>3, <1>5, <2>1, <2>3, <3>1, Zenon DEF MeterInv, Present
      <3>2. CASE m[k] = Absent /\ Present(k) /\ Idle(buckets[k], time)
        <4>1. meter[k] <= time * RPS
          BY <1>9, <2>1, <3>2, EvictedIsFull, Zenon
        <4>2. QED
          BY <1>0, <1>3, <1>5, <2>3, <3>2, <4>1, Zenon DEF MeterInv, Present
      <3>3. QED
        BY <3>1, <3>2 DEF Charges
    <2>4. QED
      BY <2>2, <2>3, Zenon DEF Contained
  <1>10. QED
    BY <1>7, <1>8, <1>9, Zenon

\* A throttled request still finds the bucket it was charged to: nothing seen in
\* this tick is evicted in it.
LEMMA ChargeWaits ==
    ASSUME LimiterTypeOK, \A s \in Requests : KeyInv(s) /\ WaitInv(s),
           NEW r \in Requests, requests[r].now = time, allow(r),
           NEW m, NEW c, NEW K \in Keys, NEW b \in Bucket, Charges(r, m, K, b, c),
           NEW s \in Requests
    PROVE  WaitInv(s)'
  <1>0. /\ buckets \in [Keys -> Bucket \cup {Absent}] /\ time \in Nat /\ time' = time
        /\ m \in [Keys -> Bucket \cup {Absent}] /\ c \in Bucket /\ c.seen = time
        /\ buckets' = [m EXCEPT ![K] = c]
        /\ requests[r] \in Request /\ requests[r].key \in Sources
    BY Zenon DEF LimiterTypeOK, allow, Charges, KeyInv
  <1>1. buckets'[K] = c /\ c # Absent /\ \A k \in Keys : k # K => buckets'[k] = m[k]
    BY <1>0, LimiterAssumption, Zenon
  <1>2. ASSUME NEW k \in Keys, Present(k), buckets[k].seen = time
        PROVE  buckets'[k] # Absent /\ buckets'[k].seen = time
    <2>1. ~Idle(buckets[k], time)
      BY <1>0, <1>2, Numbers DEF Idle
    <2>2. m[k] = buckets[k]
      BY <2>1, Zenon DEF Charges
    <2>3. QED
      BY <1>0, <1>1, <1>2, <2>2, Zenon DEF Present
  <1>3. overflowKey \in Keys /\ Sources \subseteq Keys /\ overflowKey \notin Sources
    BY LimiterAssumption DEF Keys
  <1>4. CASE s # r
    <2>1. requests'[s] = requests[s]
      BY <1>4 DEF Charges, LimiterTypeOK
    <2>2. SUFFICES ASSUME requests[s].pc = "warn", requests[s].now = time
                   PROVE  LET k == IF buckets'[requests[s].key] # Absent THEN requests[s].key
                                   ELSE overflowKey
                          IN buckets'[k] # Absent /\ buckets'[k].seen = time
      BY <1>0, <2>1, Zenon DEF WaitInv, BucketOf, Present
    <2>3. requests[s].key \in Sources
      BY <2>2, Zenon DEF KeyInv
    <2>4. Present(BucketOf(s)) /\ buckets[BucketOf(s)].seen = time
      BY <2>2 DEF WaitInv
    <2>5. CASE Present(requests[s].key)
      BY <1>2, <1>3, <2>3, <2>4, <2>5, Zenon DEF BucketOf
    <2>6. CASE ~Present(requests[s].key)
      <3>1. buckets'[overflowKey] # Absent /\ buckets'[overflowKey].seen = time
        BY <1>2, <1>3, <2>4, <2>6, Zenon DEF BucketOf
      <3>2. CASE requests[s].key = K
        BY <1>0, <1>1, <3>2, Zenon
      <3>3. CASE requests[s].key # K
        <4>1. buckets'[requests[s].key] = Absent
          BY <1>1, <1>3, <2>3, <2>6, <3>3 DEF Charges, Present
        <4>2. QED
          BY <3>1, <4>1, Zenon
      <3>4. QED
        BY <3>2, <3>3, Zenon
    <2>7. QED
      BY <2>5, <2>6, Zenon
  <1>5. CASE s = r
    <2>1. \/ requests'[r] = NoRequest
          \/ requests'[r] = [requests[r] EXCEPT !.pc = "warn"]
      BY Zenon DEF Charges, LimiterTypeOK
    <2>2. CASE requests'[r] = NoRequest
      BY <1>5, <2>2, Idling, Zenon DEF WaitInv
    <2>3. CASE requests'[r] = [requests[r] EXCEPT !.pc = "warn"]
      <3>1. requests'[r].key = requests[r].key
        BY <1>0, <2>3 DEF Request
      <3>2. BucketOf(r)' = K
        <4>1. CASE K = requests[r].key
          BY <1>1, <3>1, <4>1, Zenon DEF BucketOf, Present
        <4>2. CASE K = overflowKey /\ m[requests[r].key] = Absent
          <5>1. buckets'[requests[r].key] = Absent
            BY <1>0, <1>1, <1>3, <4>2, Zenon
          <5>2. QED
            BY <3>1, <4>2, <5>1, Zenon DEF BucketOf, Present
        <4>3. QED
          BY <4>1, <4>2, Zenon DEF Charges
      <3>3. QED
        BY <1>0, <1>1, <1>5, <3>2, Zenon DEF WaitInv, Present
    <2>4. QED
      BY <2>1, <2>2, <2>3
  <1>6. QED
    BY <1>4, <1>5

LEMMA AllowKeeps ==
    ASSUME LimiterInv, NEW r \in Requests, allow(r)
    PROVE  LimiterInv'
  <1>1. LimiterTypeOK /\ SizeInv /\ (\A s \in Requests : KeyInv(s)) /\ requests[r].key \in Sources
    BY Zenon DEF LimiterInv, allow, KeyInv
  <1>2. PICK m, c : \E K \in Keys, b \in Bucket : Charges(r, m, K, b, c)
    BY <1>1, AllowCharges
  <1>3. PICK K \in Keys, b \in Bucket : Charges(r, m, K, b, c)
    BY <1>2, Zenon
  <1>4. LimiterTypeOK' /\ SizeInv' /\ \A s \in Requests : KeyInv(s)'
    BY <1>1, <1>3, ChargeFits, ChargeTypes, Zenon
  <1>5. ASSUME ~stalled'
        PROVE  /\ ~hasty' /\ \A k \in Keys : KeyPaced(k)'
               /\ \A s \in Requests : WaitInv(s)'
               /\ Refills => Contained'
    <2>1. ~stalled /\ requests[r].now = time /\ hasty' = hasty
      BY <1>5, Zenon DEF allow
    <2>2. /\ ~hasty /\ \A k \in Keys : KeyPaced(k)
          /\ \A s \in Requests : WaitInv(s)
          /\ Refills => Contained
      BY <2>1, Zenon DEF LimiterInv
    <2>3. (\A k \in Keys : KeyPaced(k)') /\ (Refills => Contained')
      BY <1>1, <1>3, <2>1, <2>2, ChargePaces, Zenon
    <2>4. \A s \in Requests : WaitInv(s)'
      BY <1>1, <1>3, <2>1, <2>2, ChargeWaits
    <2>5. QED
      BY <2>1, <2>2, <2>3, <2>4
  <1>6. QED
    BY <1>4, <1>5 DEF LimiterInv

-----------------------------------------------------------------------------
\* What warnDue leaves of a bucket.
LEMMA WarnedFits ==
    ASSUME NEW b \in Bucket, NEW now \in Nat
    PROVE  /\ Warned(b, now) \in Bucket
           /\ Warned(b, now).tokens = b.tokens /\ Warned(b, now).last = b.last
           /\ Warned(b, now).seen = b.seen
           /\ Warned(b, now).lastWarn = IF LineDue(b, now) THEN now ELSE b.lastWarn
  BY Zenon DEF Warned, Bucket

\* warnDue's step, where K is the bucket it finds.
LEMMA WarnPaces ==
    ASSUME LimiterTypeOK, NEW r \in Requests, warnDue(r), requests[r].now = time, ~hasty,
           NEW K \in Keys, K = BucketOf(r), WaitInv(r), \A k \in Keys : KeyPaced(k)
    PROVE  /\ ~hasty' /\ \A k \in Keys : KeyPaced(k)'
           /\ \A k \in Keys : Present(k)' = Present(k) /\ (Present(k) => buckets'[k].seen = buckets[k].seen)
           /\ \A k \in Keys : MeterInv(k) => MeterInv(k)'
  <1> DEFINE b == buckets[K]
             line == LineDue(b, time)
  <1>0. /\ time \in Nat /\ buckets \in [Keys -> Bucket \cup {Absent}] /\ warned \in [Keys -> Nat]
        /\ time' = time /\ meter' = meter
    BY DEF LimiterTypeOK, warnDue
  <1>1. Present(K) /\ b \in Bucket /\ b.seen = time
    BY <1>0, Zenon DEF WaitInv, warnDue, Present
  <1>2. /\ buckets' = [buckets EXCEPT ![K] = Warned(b, time)]
        /\ warned' = IF line THEN [warned EXCEPT ![K] = time] ELSE warned
        /\ hasty' = (hasty \/ (line /\ warned[K] # 0 /\ time - warned[K] < warnInterval))
    BY <1>1, Zenon DEF warnDue, BucketOf, Present
  <1>3. b.lastWarn \in Nat /\ b.seen \in Nat /\ b.last \in Nat
    BY <1>1, Zenon DEF Bucket
  <1>4. b.lastWarn = warned[K] \/ Quiet(K)
    BY <1>1, Zenon DEF KeyPaced, LineInv
  <1>5. /\ buckets'[K] = Warned(b, time) /\ Warned(b, time) # Absent
        /\ \A k \in Keys : k # K => buckets'[k] = buckets[k] /\ warned'[k] = warned[k]
        /\ warned'[K] = IF line THEN time ELSE warned[K]
    BY <1>0, <1>1, <1>2, WarnedFits, LimiterAssumption, Zenon
  <1>6. ~hasty'
    <2>1. ~(line /\ warned[K] # 0 /\ time - warned[K] < warnInterval)
      BY <1>0, <1>3, <1>4, Numbers DEF LineDue, Quiet
    <2>2. QED
      BY <1>2, <2>1, Zenon
  <1>7. /\ Warned(b, time).tokens = b.tokens /\ Warned(b, time).last = b.last
        /\ Warned(b, time).seen = b.seen
        /\ Warned(b, time).lastWarn = IF line THEN time ELSE b.lastWarn
    BY <1>0, <1>1, WarnedFits, Zenon
  <1> HIDE DEF line
  <1>8. KeyPaced(K)'
    <2>1. AgeInv(K)'
      BY <1>0, <1>1, <1>3, <1>5, <1>7, Zenon DEF KeyPaced, AgeInv, Present
    <2>2. LineInv(K)'
      BY <1>0, <1>1, <1>5, <1>7 DEF KeyPaced, LineInv, Quiet, Present
    <2>3. QED
      BY <2>1, <2>2, Zenon DEF KeyPaced
  <1>9. ASSUME NEW k \in Keys, k # K
        PROVE  KeyPaced(k)'
    BY <1>0, <1>5, <1>9, Zenon DEF KeyPaced, AgeInv, LineInv, Quiet, Present
  <1>10. \A k \in Keys : Present(k)' = Present(k) /\ (Present(k) => buckets'[k].seen = buckets[k].seen)
    BY <1>1, <1>5, <1>7, Zenon DEF Present
  <1>11. ASSUME NEW k \in Keys, MeterInv(k)
         PROVE  MeterInv(k)'
    <2>1. CASE k = K
      BY <1>0, <1>1, <1>5, <1>7, <1>11, <2>1, Zenon DEF MeterInv, Present
    <2>2. CASE k # K
      BY <1>0, <1>5, <1>11, <2>2, Zenon DEF MeterInv, Present
    <2>3. QED
      BY <2>1, <2>2
  <1>12. QED
    BY <1>6, <1>8, <1>9, <1>10, <1>11, Zenon

LEMMA WarnKeeps ==
    ASSUME LimiterInv, NEW r \in Requests, warnDue(r)
    PROVE  LimiterInv'
  <1> DEFINE q == requests[r]
  <1>1. /\ LimiterTypeOK /\ SizeInv /\ (\A s \in Requests : KeyInv(s))
        /\ q \in Request /\ q.pc = "warn" /\ q.key \in Sources /\ q.now \in Nat
    BY Zenon DEF LimiterInv, warnDue, KeyInv, LimiterTypeOK, Request
  <1>2. PICK K \in Keys : K = BucketOf(r)
    BY <1>1 DEF BucketOf, Keys
  <1>3. /\ time' = time /\ lastSweep' = lastSweep /\ meter' = meter /\ over' = over
        /\ requests' = [requests EXCEPT ![r] = NoRequest]
        /\ buckets' = IF ~Present(K) THEN buckets ELSE [buckets EXCEPT ![K] = Warned(buckets[K], q.now)]
        /\ warned' \in {warned, [warned EXCEPT ![K] = q.now]}
        /\ stalled' = (stalled \/ time # q.now) /\ hasty' \in BOOLEAN
    BY <1>2, Zenon DEF warnDue, BucketOf, Present
  <1>4. /\ buckets' \in [Keys -> Bucket \cup {Absent}]
        /\ \A k \in Keys : Present(k)' = Present(k)
    <2>1. buckets \in [Keys -> Bucket \cup {Absent}]
      BY <1>1, Zenon DEF LimiterTypeOK
    <2>2. CASE ~Present(K)
      BY <1>3, <2>1, <2>2 DEF Present
    <2>3. CASE Present(K)
      <3>1. PICK w \in Bucket : w = Warned(buckets[K], q.now)
        BY <1>1, <2>1, <2>3, WarnedFits, Zenon DEF Present
      <3>2. buckets' = [buckets EXCEPT ![K] = w] /\ w # Absent
        BY <1>3, <2>3, <3>1, LimiterAssumption, Zenon
      <3>3. QED
        BY <2>1, <2>3, <3>2, Zenon DEF Present
    <2>4. QED
      BY <2>2, <2>3
  <1>5. LimiterTypeOK'
    BY <1>1, <1>3, <1>4, Zenon DEF LimiterTypeOK, NoRequest, Request
  <1>6. SizeInv'
    <2>1. /\ {k \in Keys : Present(k)}' = {k \in Keys : Present(k)}
          /\ {k \in Sources : Present(k)}' = {k \in Sources : Present(k)}
      BY <1>4, Zenon DEF Keys
    <2>2. QED
      BY <1>1, <2>1, Zenon DEF SizeInv
  <1>7. \A s \in Requests :
            requests'[s] = requests[s] \/ (requests'[s].pc = "idle" /\ requests'[s].now = 0)
    BY <1>1, <1>3, Idling, Zenon DEF LimiterTypeOK
  <1>8. \A s \in Requests : KeyInv(s)'
    BY <1>1, <1>3, <1>7, Idling, Zenon DEF KeyInv, LimiterTypeOK
  <1>9. ASSUME ~stalled'
        PROVE  /\ ~hasty' /\ \A k \in Keys : KeyPaced(k)'
               /\ \A s \in Requests : WaitInv(s)'
               /\ Refills => Contained'
    <2>1. ~stalled /\ q.now = time
      BY <1>3, <1>9, Zenon
    <2>2. /\ ~hasty /\ \A k \in Keys : KeyPaced(k)
          /\ \A s \in Requests : WaitInv(s)
          /\ Refills => Contained
      BY <2>1 DEF LimiterInv
    <2>3. /\ ~hasty' /\ \A k \in Keys : KeyPaced(k)'
          /\ \A k \in Keys : Present(k)' = Present(k) /\ (Present(k) => buckets'[k].seen = buckets[k].seen)
          /\ \A k \in Keys : MeterInv(k) => MeterInv(k)'
      BY <1>1, <1>2, <2>1, <2>2, WarnPaces, Zenon
    <2>4. ASSUME NEW s \in Requests
          PROVE  WaitInv(s)'
      <3>1. CASE requests'[s].pc = "idle"
        BY <3>1 DEF WaitInv
      <3>2. CASE requests'[s] = requests[s] /\ requests[s].pc = "warn" /\ requests[s].now = time
        <4>1. PICK k \in Keys : k = requests[s].key
          BY <1>1, <3>2, Zenon DEF KeyInv, Keys
        <4>2. overflowKey \in Keys
          BY DEF Keys
        <4>3. PICK B \in Keys : B = BucketOf(s)
          BY <4>1, <4>2, Zenon DEF BucketOf
        <4>4. BucketOf(s)' = B
          BY <2>3, <3>2, <4>1, <4>3, Zenon DEF BucketOf
        <4>5. Present(B) /\ buckets[B].seen = time
          BY <2>2, <3>2, <4>3, Zenon DEF WaitInv
        <4>6. QED
          BY <1>3, <2>3, <4>4, <4>5, Zenon DEF WaitInv
      <3>3. QED
        BY <1>3, <1>7, <3>1, <3>2, Zenon DEF WaitInv
    <2>5. Contained => Contained'
      BY <1>3, <2>3, Zenon DEF Contained
    <2>6. QED
      BY <2>2, <2>3, <2>4, <2>5, Zenon
  <1>10. QED
    BY <1>5, <1>6, <1>8, <1>9, Zenon DEF LimiterInv

-----------------------------------------------------------------------------
LEMMA LimiterStarts == LimiterInit => LimiterInv
  <1> SUFFICES ASSUME LimiterInit PROVE LimiterInv
    BY Zenon
  <1>1. LimiterTypeOK
    BY Zenon DEF LimiterInit, LimiterTypeOK, NoRequest, Request
  <1>2. \A k \in Keys : ~Present(k) /\ meter[k] = 0 /\ warned[k] = 0
    BY DEF LimiterInit, Present
  <1>3. SizeInv
    <2>1. {k \in Keys : Present(k)} = {} /\ {k \in Sources : Present(k)} = {}
      BY <1>2, Zenon DEF Keys
    <2>2. 0 <= maxBuckets
      BY Numbers
    <2>3. QED
      BY <2>1, <2>2, FS_EmptySet, Zenon DEF SizeInv
  <1>4. \A r \in Requests : KeyInv(r) /\ WaitInv(r)
    BY <1>1 DEF LimiterInit, NoRequest, KeyInv, WaitInv
  <1>5. time * RPS \in Nat
    BY Numbers DEF LimiterInit
  <1>6. \A k \in Keys : KeyPaced(k)
    BY <1>2, Zenon DEF KeyPaced, AgeInv, LineInv, Quiet
  <1>7. Contained
    BY <1>2, <1>5 DEF Contained, MeterInv, LimiterInit
  <1>8. QED
    BY <1>1, <1>3, <1>4, <1>6, <1>7 DEF LimiterInv, LimiterInit

\* A request that begins, and time that passes, leave the buckets alone.
LEMMA MiddlewareKeeps ==
    ASSUME LimiterInv, NEW r \in Requests, NEW a \in Arrivals, Middleware(r, a)
    PROVE  LimiterInv'
  <1> DEFINE n == [pc |-> "allow", key |-> a.key, from |-> a.from, now |-> time]
  <1>1. LimiterTypeOK /\ SizeInv /\ \A s \in Requests : KeyInv(s)
    BY Zenon DEF LimiterInv
  <1>2. /\ requests' = [requests EXCEPT ![r] = n]
        /\ UNCHANGED <<time, buckets, lastSweep, meter, over, warned, hasty, stalled>>
    BY Zenon DEF Middleware, meters
  <1>3. a.key \in Sources /\ a.from = a.key
    BY Attributed, Zenon
  <1>4. n \in Request /\ n.pc = "allow" /\ n.key = a.key /\ n.from = a.from /\ n.now = time
    BY <1>1, <1>3, Zenon DEF LimiterTypeOK, Request
  <1> HIDE DEF n
  <1>5. LimiterTypeOK'
    BY <1>1, <1>2, <1>4, Zenon DEF LimiterTypeOK
  <1>6. \A s \in Requests : requests'[s] = requests[s] \/ requests'[s] = n
    BY <1>1, <1>2, Zenon DEF LimiterTypeOK
  <1>7. \A s \in Requests : KeyInv(s)'
    BY <1>1, <1>2, <1>3, <1>4, <1>6, Idling, Zenon DEF KeyInv, LimiterTypeOK
  <1>8. SizeInv'
    BY <1>1, <1>2, Zenon DEF SizeInv, Present
  <1>9. \A k \in Keys : KeyPaced(k)' <=> KeyPaced(k)
    BY <1>2, Zenon DEF KeyPaced, AgeInv, LineInv, Quiet, Present
  <1>10. \A s \in Requests : WaitInv(s) => WaitInv(s)'
    BY <1>2, <1>4, <1>6, Zenon DEF WaitInv, BucketOf, Present
  <1>11. Contained' <=> Contained
    BY <1>2, Zenon DEF Contained, MeterInv, Present
  <1>12. QED
    BY <1>2, <1>5, <1>7, <1>8, <1>9, <1>10, <1>11 DEF LimiterInv

LEMMA TimeKeeps ==
    ASSUME LimiterInv, TimePasses
    PROVE  LimiterInv'
  <1>1. LimiterTypeOK /\ SizeInv /\ \A s \in Requests : KeyInv(s)
    BY Zenon DEF LimiterInv
  <1>2. /\ time' = time + 1 /\ time \in Nat
        /\ UNCHANGED <<buckets, lastSweep, requests, meter, over, warned, hasty, stalled>>
    BY <1>1 DEF TimePasses, meters, LimiterTypeOK
  <1>3. LimiterTypeOK' /\ SizeInv' /\ \A s \in Requests : KeyInv(s)'
    <2>1. LimiterTypeOK' /\ SizeInv'
      BY <1>1, <1>2 DEF LimiterTypeOK, SizeInv, Present
    <2>2. \A s \in Requests : requests[s].now \in Nat
      BY <1>1, Zenon DEF LimiterTypeOK, Request
    <2>3. \A s \in Requests : KeyInv(s)'
      BY <1>1, <1>2, <2>2 DEF KeyInv
    <2>4. QED
      BY <2>1, <2>3, Zenon
  <1>4. ASSUME ~stalled
        PROVE  /\ \A k \in Keys : KeyPaced(k)'
               /\ \A r \in Requests : WaitInv(r)'
    <2>1. ASSUME NEW k \in Keys
          PROVE  KeyPaced(k)'
      <3>1. /\ KeyPaced(k) /\ warned[k] \in Nat
            /\ (Present(k) => buckets[k] \in Bucket)
        BY <1>1, <1>4, Zenon DEF LimiterInv, LimiterTypeOK, Present
      <3>2. AgeInv(k)'
        BY <1>2, <3>1 DEF KeyPaced, AgeInv, Present, Bucket
      <3>3. Quiet(k) => Quiet(k)'
        BY <1>2, <3>1, Numbers DEF Quiet
      <3>4. LineInv(k)'
        BY <1>2, <3>1, <3>3, Zenon DEF KeyPaced, LineInv, Present
      <3>5. QED
        BY <3>2, <3>4, Zenon DEF KeyPaced
    <2>2. ASSUME NEW r \in Requests
          PROVE  WaitInv(r)'
      <3>1. requests'[r].now # time'
        BY <1>1, <1>2 DEF KeyInv, LimiterTypeOK
      <3>2. QED
        BY <3>1, Zenon DEF WaitInv
    <2>3. QED
      BY <2>1, <2>2
  <1>5. ASSUME Contained
        PROVE  Contained'
    <2>1. time * RPS \in Nat /\ time' * RPS \in Nat /\ time * RPS <= time' * RPS
      BY <1>2, Leaks
    <2>2. ASSUME NEW k \in Keys
          PROVE  MeterInv(k)'
      <3>1. MeterInv(k) /\ meter[k] \in Nat
        BY <1>1, <1>5 DEF Contained, LimiterTypeOK
      <3>2. QED
        BY <1>2, <2>1, <3>1 DEF MeterInv, Present
    <2>3. QED
      BY <1>2, <1>5, <2>2, Zenon DEF Contained
  <1>6. QED
    BY <1>2, <1>3, <1>4, <1>5 DEF LimiterInv

LEMMA LimiterInvHolds == LimiterSpec => []LimiterInv
  <1>1. LimiterInv /\ [LimiterNext]_limiterVars => LimiterInv'
    <2> SUFFICES ASSUME LimiterInv, [LimiterNext]_limiterVars PROVE LimiterInv'
      OBVIOUS
    <2>1. ASSUME NEW r \in Requests, NEW a \in Arrivals, Middleware(r, a)
          PROVE  LimiterInv'
      BY <2>1, MiddlewareKeeps
    <2>2. ASSUME NEW r \in Requests, allow(r)
          PROVE  LimiterInv'
      BY <2>2, AllowKeeps
    <2>3. ASSUME NEW r \in Requests, warnDue(r)
          PROVE  LimiterInv'
      BY <2>3, WarnKeeps
    <2>4. CASE TimePasses
      BY <2>4, TimeKeeps
    <2>5. CASE UNCHANGED limiterVars
      BY <2>5, Zenon DEF limiterVars, meters, LimiterInv, LimiterTypeOK, SizeInv, KeyInv, WaitInv, BucketOf,
                  KeyPaced, Contained, MeterInv, AgeInv, LineInv, Quiet, Present
    <2>6. QED
      BY <2>1, <2>2, <2>3, <2>4, <2>5 DEF LimiterNext
  <1>2. QED
    BY LimiterStarts, <1>1, PTL DEF LimiterSpec

\* For any number of requests, sources and buckets, any rate and burst: the map
\* holds at most maxBuckets sources. When idleTTL refills a bucket, no network,
\* whatever addresses, proxies and headers its requests use and however often its
\* bucket is evicted, is admitted more than Burst and RPS per tick (allow,
\* sweepLocked, FromRequest).
THEOREM FloodsAreContained == LimiterSpec => []FloodContained
  <1>1. LimiterInv => FloodContained
    BY DEF LimiterInv, SizeInv, FloodContained, Contained, Present
  <1>2. QED
    BY <1>1, LimiterInvHolds, PTL

\* For any number of requests and buckets: two lines logged for one bucket are
\* warnInterval apart, also when it was evicted between them (warnDue).
THEOREM WarningsArePaced == LimiterSpec => []WarnPaced
  <1>1. LimiterInv => WarnPaced
    BY DEF LimiterInv, WarnPaced
  <1>2. QED
    BY <1>1, LimiterInvHolds, PTL
=============================================================================
