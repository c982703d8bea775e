------------------------- MODULE BearerTokenProofs -------------------------
(***************************************************************************)
(* Proofs of the safety properties of BearerToken for any number of        *)
(* callers and refreshes, any lifetimes and any buffers.  The inductive    *)
(* invariant says that the running call is the one in the in-flight slot   *)
(* and the youngest ever started (so its token is newer than every other), *)
(* that the manager's and each waiter's token carries its own expiry, and  *)
(* that nextAttempt is the pause counted from the last failure.            *)
(***************************************************************************)
EXTENDS BearerToken, TLAPS

SlotInv ==
    /\ \A i \in CallIDs : calls[i].phase = "running" => i = inflight
    /\ \A i, j \in CallIDs : i < j /\ calls[i].phase = "new" => calls[j].phase = "new"
    /\ inflight # 0 => \A j \in CallIDs : j > inflight => calls[j].phase = "new"

TokenInv ==
    /\ token > 1 => calls[token - 1].phase = "done"
    /\ returned <= token
    /\ expiry[token] = expiresAt

PaceInv ==
    /\ nextAttempt # 0 =>
          /\ ~ended.ok
          /\ nextAttempt = ended.at + pause(expiresAt - ended.at)
    /\ ended.at # 0 /\ ~ended.ok => nextAttempt # 0
    /\ ended.at # 0 /\ ended.ok => expiresAt = ended.at + lifetime

CallerInv(r) ==
    /\ r.floor <= returned
    /\ r.val <= token
    /\ r.pc = "wait" => /\ r.floor <= r.stale
                        /\ r.stale <= token
                        /\ expiry[r.stale] = r.staleExpiry
                        /\ r.call # 0
    /\ r.pc = "result" /\ ~r.err => r.val >= r.floor
    /\ r.pc # "result" => r.err = FALSE

IndInv ==
    TypeOK /\ SlotInv /\ TokenInv /\ PaceInv /\ \A c \in Callers : CallerInv(callers[c])

(***************************************************************************)
(* runRefresh's clamps: the pause is at least MinRetry and, when more than *)
(* MinRetry remains, shorter than what remains.                            *)
(***************************************************************************)
LEMMA PauseBounds ==
    ASSUME NEW r \in Int
    PROVE  /\ pause(r) \in Nat /\ pause(r) >= MinRetry
           /\ r > MinRetry => pause(r) < r
  BY ConstAssumption DEF pause, Half, Larger, Smaller

(***************************************************************************)
(* fresh's clamp: a fresh token is unexpired unless the buffer is          *)
(* positive, and a token in the first half of its life is fresh.           *)
(***************************************************************************)
LEMMA FreshBounds ==
    ASSUME TypeOK, NEW b \in Int
    PROVE  /\ fresh(b) /\ b <= 0 => clock < expiresAt
           /\ ~fresh(b) /\ lifetime > 0 => 2 * (expiresAt - clock) <= lifetime
  BY DEF TypeOK, fresh, Half, Larger

\* The manager starts in the invariant: no call is in flight and no token was
\* handed out.
LEMMA InitIndInv == Init => IndInv
  <1> SUFFICES ASSUME Init PROVE IndInv
    OBVIOUS
  <1>1. 0 \in Tokens /\ 1 \in Tokens
    BY ConstAssumption DEF Tokens
  <1>2. NoCall \in Caller
    BY <1>1 DEF NoCall, Caller
  <1>3. TypeOK
    <2>1. token \in Tokens /\ expiresAt \in Int
      <3>1. CASE token = 0 /\ expiresAt = 0
        BY <1>1, <3>1
      <3>2. CASE token = 1 /\ expiresAt \in SeedExpiries
        BY <1>1, <3>2, ConstAssumption
      <3>3. QED
        BY <3>1, <3>2 DEF Init
    <2>2. calls \in [CallIDs -> Call] /\ expiry \in [Tokens -> Int]
      BY <2>1 DEF Init, Call
    <2>3. /\ callers \in [Callers -> Caller]
          /\ \A c \in Callers : callers[c].pc = "wait" => callers[c].call # 0
      BY <1>2 DEF Init, NoCall
    <2>4. QED
      BY <1>1, <2>1, <2>2, <2>3 DEF Init, TypeOK
  <1>4. SlotInv /\ TokenInv /\ PaceInv
    BY <1>1 DEF Init, SlotInv, TokenInv, PaceInv, CallIDs
  <1>5. \A c \in Callers : CallerInv(callers[c])
    <2>1. CallerInv(NoCall)
      BY DEF Init, NoCall, CallerInv
    <2>2. QED
      BY <2>1, Zenon DEF Init
  <1>6. QED
    BY <1>3, <1>4, <1>5 DEF IndInv

\* A step that changes nothing but the local state of one GetToken.
LEMMA CallerFrame ==
    ASSUME IndInv, NEW c \in Callers, NEW r \in Caller, CallerInv(r),
           callers' = [callers EXCEPT ![c] = r],
           UNCHANGED <<clock, refresher, manager, calls, expiry, returned, ended>>
    PROVE  IndInv'
  <1>1. \A x \in Callers : callers'[x] \in Caller /\ CallerInv(callers'[x])
    BY DEF IndInv, TypeOK
  <1>2. TypeOK'
    BY <1>1 DEF IndInv, TypeOK, CallerInv, manager
  <1>3. SlotInv' /\ TokenInv' /\ PaceInv'
    BY DEF IndInv, SlotInv, TokenInv, PaceInv, manager, pause, Half, Larger, Smaller
  <1>4. \A x \in Callers : CallerInv(callers[x])'
    BY <1>1 DEF CallerInv, manager
  <1>5. QED
    BY <1>2, <1>3, <1>4 DEF IndInv

\* A GetToken that answers with a token not behind its floor keeps the invariant of its
\* local state.
LEMMA AnswerOK ==
    ASSUME IndInv, NEW c \in Callers, NEW v \in Tokens,
           v <= token, callers[c].floor <= v
    PROVE  Answer(c, v) \in Caller /\ CallerInv(Answer(c, v))
  <1>1. callers[c] \in Caller /\ CallerInv(callers[c]) /\ v \in Int
    BY DEF IndInv, TypeOK, Tokens
  <1>2. /\ Answer(c, v) \in Caller /\ Answer(c, v).pc = "result"
        /\ Answer(c, v).floor = callers[c].floor /\ Answer(c, v).val = v
    BY <1>1, Zenon DEF Answer, Caller
  <1>3. callers[c].floor \in Int
    BY <1>1 DEF Caller, Tokens
  <1>4. QED
    BY <1>1, <1>2, <1>3 DEF CallerInv

\* A GetToken that answers with an error keeps the invariant of its local
\* state.
LEMMA FailOK ==
    ASSUME IndInv, NEW c \in Callers
    PROVE  Fail(c) \in Caller /\ CallerInv(Fail(c))
  <1>1. callers[c] \in Caller /\ CallerInv(callers[c])
    BY DEF IndInv, TypeOK
  <1>2. /\ Fail(c) \in Caller /\ Fail(c).pc = "result" /\ Fail(c).err = TRUE
        /\ Fail(c).floor = callers[c].floor /\ Fail(c).val = callers[c].val
    BY <1>1, Zenon DEF Fail, Caller
  <1>3. QED
    BY <1>1, <1>2 DEF CallerInv

\* A GetToken that begins to wait on a refresh keeps the invariant of its
\* local state.
LEMMA WaitingOK ==
    ASSUME IndInv, NEW c \in Callers, NEW i \in CallIDs, callers[c].pc = "slow"
    PROVE  Waiting(c, i) \in Caller /\ CallerInv(Waiting(c, i))
  <1>1. /\ callers[c] \in Caller /\ CallerInv(callers[c]) /\ token \in Tokens
        /\ expiresAt \in Int /\ i # 0
    BY DEF IndInv, TypeOK, CallIDs
  <1>2. /\ Waiting(c, i) \in Caller
        /\ Waiting(c, i).pc = "wait" /\ Waiting(c, i).call = i
        /\ Waiting(c, i).stale = token /\ Waiting(c, i).staleExpiry = expiresAt
        /\ Waiting(c, i).floor = callers[c].floor /\ Waiting(c, i).val = callers[c].val
        /\ Waiting(c, i).err = callers[c].err
    BY <1>1, Zenon DEF Waiting, Caller
  <1>3. callers[c].floor <= token /\ token <= token
    BY <1>1 DEF IndInv, TypeOK, Caller, CallerInv, TokenInv, Tokens
  <1>4. expiry[token] = expiresAt
    BY DEF IndInv, TokenInv
  <1>5. QED
    BY <1>1, <1>2, <1>3, <1>4 DEF CallerInv

\* The token a call must not fall behind is no newer than the one held.
LEMMA FloorBelowToken ==
    ASSUME IndInv, NEW c \in Callers
    PROVE  callers[c].floor <= token /\ token \in Tokens
  BY DEF IndInv, TypeOK, Caller, CallerInv, TokenInv, Tokens

\* The caller-side steps that leave the manager alone.
LEMMA ReadSteps ==
    ASSUME IndInv, NEW c \in Callers,
           \/ \E b \in Buffers : GetToken(c, b)
           \/ Slow(c) /\ (Recheck(c) \/ Join(c) \/ Refuse(c))
           \/ Wake(c)
           \/ CtxDone(c)
    PROVE  IndInv'
  <1>0. callers[c].floor <= token /\ token \in Tokens
    BY FloorBelowToken
  <1>1. CASE \E b \in Buffers : GetToken(c, b)
    <2>1. PICK b \in Buffers : GetToken(c, b)
      BY <1>1
    <2> DEFINE r == [pc |-> IF fresh(b) THEN "result" ELSE "slow", buffer |-> b,
                     stale |-> 0, staleExpiry |-> 0, call |-> 0, err |-> FALSE,
                     val |-> IF fresh(b) THEN token ELSE 0, floor |-> returned]
    <2>2. r \in Caller /\ CallerInv(r)
      <3>1. /\ returned \in Tokens /\ returned <= token /\ returned <= returned
            /\ 0 \in Tokens /\ 0 <= token
        BY <1>0, ConstAssumption DEF IndInv, TypeOK, TokenInv, Tokens
      <3>2. r \in Caller
        BY <1>0, <3>1 DEF Caller
      <3>3. CallerInv(r)
        BY <1>0, <3>1 DEF CallerInv, Tokens
      <3>4. QED
        BY <3>2, <3>3
    <2>3. QED
      BY <2>1, <2>2, CallerFrame, Zenon DEF GetToken
  <1>2. CASE Slow(c) /\ (Recheck(c) \/ Join(c) \/ Refuse(c))
    <2>1. /\ Answer(c, token) \in Caller /\ CallerInv(Answer(c, token))
          /\ Fail(c) \in Caller /\ CallerInv(Fail(c))
          /\ inflight # 0 => /\ Waiting(c, inflight) \in Caller
                             /\ CallerInv(Waiting(c, inflight))
      <3>1. token <= token /\ (inflight # 0 => inflight \in CallIDs)
        BY <1>0 DEF Tokens, IndInv, TypeOK
      <3>2. QED
        BY <1>0, <1>2, <3>1, AnswerOK, FailOK, WaitingOK DEF Slow
    <2>2. \E r \in Caller : CallerInv(r) /\ callers' = [callers EXCEPT ![c] = r]
      BY <1>2, <2>1 DEF Recheck, Join, Refuse, InFlight
    <2>3. QED
      BY <1>2, <2>2, CallerFrame, Zenon DEF Slow, Recheck, Join, Refuse, manager
  <1>3. CASE Wake(c)
    <2>1. /\ callers[c].stale \in Tokens /\ callers[c].stale <= token
          /\ callers[c].floor <= callers[c].stale
      BY <1>3, Zenon DEF Wake, IndInv, TypeOK, Caller, CallerInv
    <2>2. \E r \in Caller : CallerInv(r) /\ callers' = [callers EXCEPT ![c] = r]
      <3>1. /\ Answer(c, token) \in Caller /\ CallerInv(Answer(c, token))
            /\ Fail(c) \in Caller /\ CallerInv(Fail(c))
            /\ Answer(c, callers[c].stale) \in Caller
            /\ CallerInv(Answer(c, callers[c].stale))
        <4>1. token <= token
          BY <1>0 DEF Tokens
        <4>2. QED
          BY <1>0, <2>1, <4>1, AnswerOK, FailOK, Zenon
      <3>2. QED
        BY <1>3, <3>1, Zenon DEF Wake, AfterFailure
    <2>3. QED
      BY <1>3, <2>2, CallerFrame, Zenon DEF Wake
  <1>4. CASE CtxDone(c)
    <2>1. NoCall \in Caller /\ CallerInv(NoCall)
      BY ConstAssumption DEF NoCall, Caller, CallerInv, Tokens, IndInv, TypeOK
    <2>2. QED
      BY <1>4, <2>1, CallerFrame, Zenon DEF CtxDone
  <1>5. QED
    BY <1>1, <1>2, <1>3, <1>4

\* The caller returns: what it was given becomes the floor for the calls that
\* follow.
LEMMA ReturnStep ==
    ASSUME IndInv, NEW c \in Callers, Return(c)
    PROVE  IndInv'
  <1>1. NoCall \in Caller /\ CallerInv(NoCall)
    BY ConstAssumption DEF NoCall, Caller, CallerInv, Tokens, IndInv, TypeOK
  <1>2. /\ returned' \in Tokens /\ returned <= returned' /\ returned' <= token
        /\ \A x \in Callers : callers[x].floor \in Tokens
    BY DEF Return, Larger, IndInv, TypeOK, Caller, CallerInv, TokenInv, Tokens
  <1>3. \A x \in Callers : callers'[x] \in Caller /\ CallerInv(callers'[x])
    BY <1>1 DEF Return, IndInv, TypeOK
  <1>4. TypeOK'
    BY <1>2, <1>3, Zenon DEF Return, IndInv, TypeOK, CallerInv, manager
  <1>5. SlotInv' /\ TokenInv' /\ PaceInv'
    BY <1>2, Zenon DEF Return, IndInv, SlotInv, TokenInv, PaceInv, manager, pause, Half,
               Larger, Smaller
  <1>6. \A x \in Callers : CallerInv(callers[x])'
    <2>1. \A x \in Callers : callers'[x].floor \in Int
      BY <1>3 DEF Caller, Tokens
    <2>2. returned \in Int /\ returned' \in Int
      BY <1>2 DEF IndInv, TypeOK, Tokens
    <2>3. QED
      BY <1>2, <1>3, <2>1, <2>2 DEF Return, CallerInv, manager
  <1>7. QED
    BY <1>4, <1>5, <1>6 DEF IndInv

\* A caller takes the free slot: the least unused call becomes the youngest.
LEMMA LeadStep ==
    ASSUME IndInv, NEW c \in Callers, Slow(c), Lead(c)
    PROVE  IndInv'
  <1>1. PICK i \in CallIDs :
          /\ calls[i].phase = "new"
          /\ \A j \in CallIDs : calls[j].phase = "new" => i <= j
          /\ inflight' = i
          /\ calls' = [calls EXCEPT ![i].phase = "running"]
          /\ callers' = [callers EXCEPT ![c] = Waiting(c, i)]
    BY Zenon DEF Lead
  <1>2. /\ inflight = 0 /\ callers[c].floor <= token /\ token \in Tokens
        /\ UNCHANGED <<clock, refresher, token, expiresAt, lifetime, nextAttempt,
                       expiry, returned, ended>>
    BY FloorBelowToken DEF Slow, Lead, InFlight
  <1>3. i \in Nat /\ CallIDs \subseteq Nat /\ 0 \notin CallIDs
    BY DEF CallIDs
  <1>4. Waiting(c, i) \in Caller /\ CallerInv(Waiting(c, i))
    BY WaitingOK DEF Slow
  <1>5. \A x \in Callers : callers'[x] \in Caller /\ CallerInv(callers'[x])
    BY <1>1, <1>4 DEF IndInv, TypeOK
  <1>6. calls' \in [CallIDs -> Call] /\ \A j \in CallIDs :
           calls'[j].phase = (IF j = i THEN "running" ELSE calls[j].phase)
    BY <1>1 DEF IndInv, TypeOK, Call
  <1>7. TypeOK'
    BY <1>1, <1>2, <1>5, <1>6 DEF IndInv, TypeOK, CallerInv
  <1>8. SlotInv'
    <2> USE <1>1, <1>2, <1>3, <1>6 DEF Lead, manager
    <2>1. \A j \in CallIDs : calls'[j].phase = "running" => j = inflight'
      BY DEF IndInv, SlotInv
    <2>2. \A j, k \in CallIDs :
             j < k /\ calls'[j].phase = "new" => calls'[k].phase = "new"
      BY DEF IndInv, SlotInv
    <2>3. inflight' # 0 => \A j \in CallIDs : j > inflight' => calls'[j].phase = "new"
      BY DEF IndInv, SlotInv
    <2>4. QED
      BY <2>1, <2>2, <2>3 DEF SlotInv
  <1>9. TokenInv' /\ PaceInv'
    <2>1. token > 1 => token - 1 \in CallIDs
      BY <1>2, ConstAssumption DEF Tokens, CallIDs
    <2>2. QED
      BY <1>1, <1>2, <1>6, <2>1 DEF IndInv, TokenInv, PaceInv, pause, Half, Larger, Smaller
  <1>10. \A x \in Callers : CallerInv(callers[x])'
    BY <1>2, <1>5 DEF CallerInv
  <1>11. QED
    BY <1>7, <1>8, <1>9, <1>10 DEF IndInv

\* The running call is the youngest, so the token it brings is the newest.
LEMMA YoungestRuns ==
    ASSUME IndInv, NEW i \in CallIDs, calls[i].phase = "running"
    PROVE  inflight = i /\ i + 1 \in Tokens /\ token < i + 1
  <1>1. /\ inflight = i /\ i # 0 /\ i \in Nat /\ CallIDs \subseteq Nat
        /\ i + 1 \in Tokens /\ token \in Tokens /\ token \in Nat
    BY ConstAssumption DEF IndInv, TypeOK, SlotInv, CallIDs, Tokens
  <1>2. token > 1 => token - 1 \in CallIDs
    BY <1>1, ConstAssumption DEF Tokens, CallIDs
  <1>3. token > 1 => ~(token - 1 > i) /\ token - 1 # i
    BY <1>1, <1>2 DEF IndInv, SlotInv, TokenInv
  <1>4. QED
    BY <1>1, <1>3

\* runRefresh stores a token that the Refresher returned.
LEMMA RefreshOKStep ==
    ASSUME IndInv, NEW i \in CallIDs, RefreshOK(i)
    PROVE  IndInv'
  <1>1. PICK l \in Lifetimes :
          /\ token' = i + 1 /\ expiresAt' = clock + l /\ lifetime' = l
          /\ expiry' = [expiry EXCEPT ![i + 1] = clock + l]
    BY Zenon DEF RefreshOK
  <1>2. inflight = i /\ i + 1 \in Tokens /\ token < i + 1 /\ token \in Nat
    BY YoungestRuns DEF RefreshOK, IndInv, TypeOK, Tokens
  <1>3. /\ i \in Nat /\ i # 0 /\ CallIDs \subseteq Nat
        /\ clock \in Nat /\ l \in Int /\ (i + 1) - 1 = i
    BY ConstAssumption DEF IndInv, TypeOK, CallIDs
  <1>4. calls' \in [CallIDs -> Call] /\ \A j \in CallIDs :
           calls'[j].phase = (IF j = i THEN "done" ELSE calls[j].phase)
    BY DEF RefreshOK, IndInv, TypeOK, Call
  <1>5. /\ expiry' \in [Tokens -> Int]
        /\ expiry'[i + 1] = clock + l
        /\ \A t \in Tokens : t # i + 1 => expiry'[t] = expiry[t]
    BY <1>1, <1>2, <1>3 DEF IndInv, TypeOK
  <1>6. TypeOK'
    BY <1>1, <1>2, <1>3, <1>4, <1>5 DEF RefreshOK, IndInv, TypeOK
  <1>7. SlotInv'
    <2> USE <1>2, <1>3, <1>4 DEF RefreshOK, manager
    <2>1. \A j \in CallIDs : calls'[j].phase = "running" => j = inflight'
      BY Zenon DEF IndInv, SlotInv
    <2>2. \A j, k \in CallIDs :
             j < k /\ calls'[j].phase = "new" => calls'[k].phase = "new"
      BY Zenon DEF IndInv, SlotInv
    <2>3. inflight' # 0 => \A j \in CallIDs : j > inflight' => calls'[j].phase = "new"
      BY Zenon DEF IndInv, SlotInv
    <2>4. QED
      BY <2>1, <2>2, <2>3, Zenon DEF SlotInv
  <1>8. TokenInv'
    BY <1>1, <1>2, <1>3, <1>4, <1>5 DEF RefreshOK, IndInv, TypeOK, TokenInv, Tokens
  <1>9. PaceInv'
    BY <1>1, <1>3 DEF RefreshOK, IndInv, PaceInv
  <1>10. \A x \in Callers : CallerInv(callers[x])'
    <2>1. ASSUME NEW x \in Callers PROVE CallerInv(callers[x])'
      <3>1. /\ callers[x] \in Caller /\ CallerInv(callers[x])
            /\ callers' = callers /\ returned' = returned
        BY Zenon DEF RefreshOK, IndInv, TypeOK
      <3>2. callers[x].val \in Nat /\ callers[x].stale \in Tokens /\ callers[x].stale \in Nat
        BY <3>1 DEF Caller, Tokens
      <3>3. QED
        BY <1>1, <1>2, <1>3, <1>5, <3>1, <3>2 DEF CallerInv
    <2>2. QED
      BY <2>1, Zenon
  <1>11. QED
    BY <1>6, <1>7, <1>8, <1>9, <1>10 DEF IndInv

\* runRefresh records a failure and sets nextAttempt.
LEMMA RefreshFailStep ==
    ASSUME IndInv, NEW i \in CallIDs, RefreshFail(i)
    PROVE  IndInv'
  <1>1. inflight = i /\ token \in Tokens /\ clock \in Nat /\ expiresAt \in Int
    BY YoungestRuns DEF RefreshFail, IndInv, TypeOK
  <1>2. i \in Nat /\ i # 0 /\ CallIDs \subseteq Nat
    BY DEF CallIDs
  <1>3. calls' \in [CallIDs -> Call] /\ \A j \in CallIDs :
           calls'[j].phase = (IF j = i THEN "report" ELSE calls[j].phase)
    BY DEF RefreshFail, IndInv, TypeOK, Call
  <1>4. pause(expiresAt - clock) \in Nat /\ pause(expiresAt - clock) >= MinRetry
    BY <1>1, PauseBounds
  <1>5. nextAttempt' \in Nat /\ nextAttempt' # 0
    BY <1>1, <1>4, ConstAssumption DEF RefreshFail
  <1>6. TypeOK'
    BY <1>1, <1>3, <1>5, Zenon DEF RefreshFail, IndInv, TypeOK
  <1>7. SlotInv'
    <2> USE <1>1, <1>2, <1>3 DEF RefreshFail, manager
    <2>1. \A j \in CallIDs : calls'[j].phase = "running" => j = inflight'
      BY Zenon DEF IndInv, SlotInv
    <2>2. \A j, k \in CallIDs :
             j < k /\ calls'[j].phase = "new" => calls'[k].phase = "new"
      BY Zenon DEF IndInv, SlotInv
    <2>3. inflight' # 0 => \A j \in CallIDs : j > inflight' => calls'[j].phase = "new"
      BY Zenon DEF IndInv, SlotInv
    <2>4. QED
      BY <2>1, <2>2, <2>3, Zenon DEF SlotInv
  <1>8. TokenInv'
    <2>1. token > 1 => token - 1 \in CallIDs
      BY <1>1, ConstAssumption DEF Tokens, CallIDs
    <2>2. QED
      BY <1>3, <2>1 DEF RefreshFail, IndInv, TokenInv
  <1>9. PaceInv'
    BY <1>5, Zenon DEF RefreshFail, PaceInv, pause, Half, Larger, Smaller
  <1>10. \A x \in Callers : CallerInv(callers[x])'
    BY DEF RefreshFail, IndInv, CallerInv
  <1>11. QED
    BY <1>6, <1>7, <1>8, <1>9, <1>10 DEF IndInv

\* runRefresh has reported and closes done.
LEMMA ReportStep ==
    ASSUME IndInv, NEW i \in CallIDs, Report(i)
    PROVE  IndInv'
  <1>1. calls' \in [CallIDs -> Call] /\ \A j \in CallIDs :
           calls'[j].phase = (IF j = i THEN "done" ELSE calls[j].phase)
    BY DEF Report, IndInv, TypeOK, Call
  <1>2. TypeOK'
    BY <1>1 DEF Report, IndInv, TypeOK, manager
  <1>3. SlotInv'
    BY <1>1 DEF Report, IndInv, SlotInv, manager
  <1>4. TokenInv'
    <2>1. token > 1 => token - 1 \in CallIDs
      BY ConstAssumption DEF IndInv, TypeOK, Tokens, CallIDs
    <2>2. QED
      BY <1>1, <2>1 DEF Report, IndInv, TokenInv, manager
  <1>5. PaceInv' /\ \A x \in Callers : CallerInv(callers[x])'
    BY Zenon DEF Report, IndInv, PaceInv, CallerInv, manager, pause, Half, Larger, Smaller
  <1>6. QED
    BY <1>2, <1>3, <1>4, <1>5 DEF IndInv

\* The clock moves, and nothing else.
LEMMA TimePasses ==
    ASSUME IndInv, clock' \in Nat,
           UNCHANGED <<refresher, manager, calls, callers, expiry, returned, ended>>
    PROVE  IndInv'
  BY DEF IndInv, TypeOK, SlotInv, TokenInv, PaceInv, CallerInv, manager, pause,
         Half, Larger, Smaller

(***************************************************************************)
(* IndInv holds in every reachable state of the manager.                   *)
(***************************************************************************)
THEOREM Invariance == Spec => []IndInv
  <1>1. IndInv /\ [Next]_vars => IndInv'
    <2> SUFFICES ASSUME IndInv, [Next]_vars PROVE IndInv'
      OBVIOUS
    <2>1. ASSUME NEW c \in Callers, NEW b \in Buffers, GetToken(c, b) PROVE IndInv'
      BY <2>1, ReadSteps
    <2>2. ASSUME NEW c \in Callers, CallerStep(c) \/ CtxDone(c) PROVE IndInv'
      <3>1. CASE Slow(c)
        BY <3>1, ReadSteps, LeadStep DEF Slow
      <3>2. CASE Return(c)
        BY <3>2, ReturnStep
      <3>3. CASE Wake(c) \/ CtxDone(c)
        BY <3>3, ReadSteps
      <3>4. QED
        BY <2>2, <3>1, <3>2, <3>3, Zenon DEF CallerStep
    <2>3. ASSUME NEW i \in CallIDs, RefreshStep(i) PROVE IndInv'
      BY <2>3, RefreshOKStep, RefreshFailStep, ReportStep, Zenon DEF RefreshStep
    <2>4. CASE Tick
      BY <2>4, TimePasses DEF Tick, IndInv, TypeOK
    <2>5. CASE UNCHANGED vars
      BY <2>5, TimePasses DEF vars, IndInv, TypeOK
    <2>6. QED
      BY <2>1, <2>2, <2>3, <2>4, <2>5 DEF Next
  <1>2. QED
    BY <1>1, InitIndInv, PTL DEF Spec
(***************************************************************************)
(* Every state is type-correct; no GetToken waits on a nil refreshCall.    *)
(***************************************************************************)
THEOREM TypeCorrect == Spec => []TypeOK
  <1>1. IndInv => TypeOK
    BY DEF IndInv
  <1>2. QED
    BY <1>1, Invariance, PTL

(***************************************************************************)
(* runRefresh owns its slot: at most one Refresher call runs at a time.    *)
(***************************************************************************)
THEOREM OneRefresherAtATime == Spec => []SingleRefresher
  <1>1. IndInv => SingleRefresher
    BY DEF IndInv, SlotInv, SingleRefresher
  <1>2. QED
    BY <1>1, Invariance, PTL

(***************************************************************************)
(* No GetToken answers with a token older than one that had been returned  *)
(* when it began.                                                          *)
(***************************************************************************)
THEOREM AnswersMoveForward == Spec => []TokensNeverRegress
  <1>1. IndInv => TokensNeverRegress
    BY DEF IndInv, CallerInv, TokensNeverRegress
  <1>2. QED
    BY <1>1, Invariance, PTL

(***************************************************************************)
(* The back-off after a failed refresh leaves time for another attempt     *)
(* before the token expires.                                               *)
(***************************************************************************)
THEOREM BackoffLeavesTime == Spec => []RetryBeforeExpiry
  <1>1. IndInv => RetryBeforeExpiry
    <2> SUFFICES ASSUME IndInv, nextAttempt # 0, expiresAt - ended.at > MinRetry
                 PROVE  nextAttempt < expiresAt
      BY DEF RetryBeforeExpiry
    <2>1. ended.at \in Nat /\ expiresAt \in Int
      BY DEF IndInv, TypeOK
    <2>2. /\ pause(expiresAt - ended.at) \in Nat
          /\ pause(expiresAt - ended.at) < expiresAt - ended.at
      BY <2>1, PauseBounds
    <2>3. QED
      BY <2>1, <2>2 DEF IndInv, PaceInv
  <1>2. QED
    BY <1>1, Invariance, PTL
(***************************************************************************)
(* Only a leader fills the in-flight slot, and it has found the token in   *)
(* the second half of its life and the back-off over.                      *)
(***************************************************************************)
THEOREM RefresherIsPaced == Spec => RefresherPaced
  <1> DEFINE Paced == IF ended.ok THEN lifetime > 0 => 2 * (clock - ended.at) >= lifetime
                                  ELSE clock >= ended.at + MinRetry
  <1>1. IndInv /\ [Next]_vars =>
          [inflight = 0 /\ inflight' # 0 /\ ended.at # 0 => Paced]_vars
    <2> SUFFICES ASSUME IndInv, [Next]_vars, inflight = 0, inflight' # 0, ended.at # 0
                 PROVE  Paced
      BY Zenon
    <2>1. \E c \in Callers : Slow(c) /\ Lead(c)
      BY DEF Next, CallerStep, RefreshStep, GetToken, Slow, Recheck, Join, Refuse,
             Wake, CtxDone, Return, RefreshOK, RefreshFail, Report, Tick, vars, manager
    <2>2. PICK c \in Callers : Lead(c)
      BY <2>1
    <2>3. ~fresh(callers[c].buffer) /\ ~(clock < nextAttempt)
      BY <2>2 DEF Lead, BackingOff
    <2>4. /\ callers[c].buffer \in Int /\ ended.at \in Nat /\ ended.ok \in BOOLEAN
          /\ clock \in Nat /\ expiresAt \in Int /\ lifetime \in Int /\ nextAttempt \in Nat
      <3>1. callers[c].buffer \in Buffers \cup {0}
        BY DEF IndInv, TypeOK, Caller
      <3>2. \A b \in Buffers \cup {0} : b \in Int
        BY ConstAssumption
      <3>3. QED
        BY <3>1, <3>2 DEF IndInv, TypeOK
    <2>5. CASE ended.ok
      <3>1. expiresAt = ended.at + lifetime
        BY <2>5 DEF IndInv, PaceInv
      <3>2. lifetime > 0 => 2 * (expiresAt - clock) <= lifetime
        BY <2>3, <2>4, FreshBounds DEF IndInv
      <3>3. lifetime > 0 => 2 * (clock - ended.at) >= lifetime
        BY <2>4, <3>1, <3>2
      <3>4. QED
        BY <2>5, <3>3
    <2>6. CASE ~ended.ok
      <3>1. nextAttempt = ended.at + pause(expiresAt - ended.at)
        BY <2>6 DEF IndInv, PaceInv
      <3>2. pause(expiresAt - ended.at) \in Nat /\ pause(expiresAt - ended.at) >= MinRetry
        BY <2>4, PauseBounds
      <3>3. clock >= ended.at + MinRetry
        BY <2>3, <2>4, <3>1, <3>2, ConstAssumption
      <3>4. QED
        BY <2>6, <3>3
    <2>7. QED
      BY <2>4, <2>5, <2>6
  <1>2. QED
    BY <1>1, Invariance, PTL DEF Spec, RefresherPaced

(***************************************************************************)
(* GetToken serves a token without a refresh only while it is unexpired,   *)
(* and fails only once the token it held has expired.                      *)
(***************************************************************************)
THEOREM ExpiryDecides == Spec => JudgedByExpiry
  <1> DEFINE Judged(c) ==
         LET r == callers'[c]
             refreshed == callers[c].pc = "wait" /\ ~calls[callers[c].call].err
             held == IF callers[c].pc = "wait" THEN callers[c].stale ELSE token
         IN callers[c].pc # "result" /\ r.pc = "result" /\ ~refreshed =>
              IF r.err THEN held = 0 \/ ~(clock < expiry[held])
              ELSE r.buffer <= 0 => clock < expiry[r.val]
  <1>1. IndInv /\ [Next]_vars => [\A c \in Callers : Judged(c)]_vars
    <2> SUFFICES ASSUME IndInv, Next, NEW c \in Callers, callers[c].pc # "result",
                        callers'[c].pc = "result"
                 PROVE  Judged(c)
      BY Zenon
    <2>0. /\ callers[c] \in Caller /\ CallerInv(callers[c])
          /\ callers \in [Callers -> Caller] /\ expiry[token] = expiresAt
          /\ clock \in Nat /\ expiresAt \in Int
          /\ \A b \in Buffers \cup {0} : b \in Int
      BY ConstAssumption DEF IndInv, TypeOK, TokenInv
    <2>1. (\E b \in Buffers : GetToken(c, b)) \/ Slow(c) \/ Wake(c)
      <3>1. ASSUME NEW d \in Callers, NEW b \in Buffers, GetToken(d, b)
            PROVE  d = c
        BY <2>0, <3>1 DEF GetToken
      <3>2. ASSUME NEW d \in Callers, CallerStep(d) \/ CtxDone(d)
            PROVE  d = c /\ (Slow(d) \/ Wake(d))
        BY <2>0, <3>2 DEF CallerStep, CtxDone, Return, NoCall, Wake, Slow, Recheck,
                          Join, Refuse, Lead
      <3>3. ASSUME NEW i \in CallIDs, RefreshStep(i) PROVE FALSE
        BY <3>3 DEF RefreshStep, RefreshOK, RefreshFail, Report
      <3>4. CASE Tick
        BY <3>4, Zenon DEF Tick
      <3>5. QED
        BY <3>1, <3>2, <3>3, <3>4, Zenon DEF Next
    <2>2. CASE \E b \in Buffers : GetToken(c, b)
      <3>1. PICK b \in Buffers : GetToken(c, b)
        BY <2>2
      <3>2. /\ callers'[c].err = FALSE /\ callers'[c].buffer = b
            /\ fresh(b) /\ callers'[c].val = token /\ callers[c].pc = "idle"
        BY <2>0, <3>1, Zenon DEF GetToken
      <3>3. b <= 0 => clock < expiresAt
        BY <2>0, <3>2, FreshBounds, Zenon DEF IndInv
      <3>4. QED
        BY <2>0, <3>2, <3>3
    <2>3. CASE Slow(c)
      <3>1. callers[c].pc = "slow" /\ callers[c].buffer \in Int
        BY <2>0, <2>3 DEF Slow, Caller
      <3>2. /\ Answer(c, token).val = token /\ Answer(c, token).err = FALSE
            /\ Answer(c, token).buffer = callers[c].buffer
            /\ Fail(c).err = TRUE
            /\ \A i : Waiting(c, i).pc = "wait"
        BY <2>0, <3>1 DEF Answer, Fail, Waiting, Caller, CallerInv
      <3>3. \A r : callers' = [callers EXCEPT ![c] = r] => callers'[c] = r
        BY <2>0, Zenon
      <3>4. CASE Recheck(c)
        <4>1. callers[c].buffer <= 0 => clock < expiresAt
          BY <3>1, <3>4, FreshBounds, Zenon DEF IndInv, Recheck
        <4>2. QED
          BY <2>0, <3>1, <3>2, <3>3, <3>4, <4>1 DEF Recheck
      <3>5. CASE Join(c) \/ Refuse(c)
        <4>1. \/ callers'[c] = Answer(c, token) /\ usable
              \/ callers'[c] = Fail(c) /\ ~usable
          BY <3>2, <3>3, <3>5 DEF Join, Refuse
        <4>2. QED
          BY <2>0, <3>1, <3>2, <4>1, Zenon DEF usable
      <3>6. CASE Lead(c)
        BY <3>2, <3>3, <3>6, Zenon DEF Lead
      <3>7. QED
        BY <2>3, <3>4, <3>5, <3>6, Zenon DEF Slow
    <2>4. CASE Wake(c)
      <3>1. /\ callers[c].pc = "wait" /\ callers[c].err = FALSE
            /\ expiry[callers[c].stale] = callers[c].staleExpiry
        BY <2>0, <2>4, Zenon DEF Wake, CallerInv
      <3>2. CASE calls[callers[c].call].err
        <4>1. callers'[c] = AfterFailure(c)
          BY <2>0, <2>4, <3>2 DEF Wake
        <4>2. /\ Answer(c, callers[c].stale).val = callers[c].stale
              /\ Answer(c, callers[c].stale).err = FALSE /\ Fail(c).err = TRUE
          BY <2>0, <3>1 DEF Answer, Fail, Caller
        <4>3. QED
          BY <3>1, <4>1, <4>2, Zenon DEF AfterFailure
      <3>3. QED
        BY <3>1, <3>2, Zenon
    <2>5. QED
      BY <2>1, <2>2, <2>3, <2>4, Zenon
  <1>2. QED
    BY <1>1, Invariance, PTL DEF Spec, JudgedByExpiry
(***************************************************************************)
(* The refinement.  A step that replaces the local state of one GetToken   *)
(* by r sets that caller's entry of the abstract calls to AskOf(r).        *)
(***************************************************************************)
LEMMA MappedCaller ==
    ASSUME IndInv, NEW c \in Callers, NEW r,
           callers' = [callers EXCEPT ![c] = r]
    PROVE  [x \in Callers |-> AskOf(callers[x])]'
             = [[x \in Callers |-> AskOf(callers[x])] EXCEPT ![c] = AskOf(r)]
  <1>1. \A x \in Callers : callers'[x] = IF x = c THEN r ELSE callers[x]
    BY DEF IndInv, TypeOK
  <1>2. QED
    BY <1>1, Zenon DEF AskOf

\* AskOf by cases.
LEMMA AskOfCases ==
    ASSUME NEW r
    PROVE  /\ r.pc = "idle" => AskOf(r) = [pc |-> "out", val |-> 0]
           /\ r.pc = "slow" => AskOf(r) = [pc |-> "asked", val |-> 0]
           /\ r.pc = "wait" => AskOf(r) = [pc |-> "looked", val |-> r.stale]
           /\ r.pc = "result" /\ r.err => AskOf(r) = [pc |-> "failed", val |-> 0]
           /\ r.pc = "result" /\ ~r.err => AskOf(r) = [pc |-> "answered", val |-> r.val]
  <1>1. r.pc = "idle" => AskOf(r) = [pc |-> "out", val |-> 0]
    BY DEF AskOf
  <1>2. r.pc = "slow" => AskOf(r) = [pc |-> "asked", val |-> 0]
    BY DEF AskOf
  <1>3. r.pc = "wait" => AskOf(r) = [pc |-> "looked", val |-> r.stale]
    BY DEF AskOf
  <1>4. r.pc = "result" /\ r.err => AskOf(r) = [pc |-> "failed", val |-> 0]
    BY DEF AskOf
  <1>5. r.pc = "result" /\ ~r.err => AskOf(r) = [pc |-> "answered", val |-> r.val]
    BY Zenon DEF AskOf
  <1>6. QED
    BY <1>1, <1>2, <1>3, <1>4, <1>5

\* What AskOf makes of the local states that GetToken's steps produce.
LEMMA MappedState ==
    ASSUME IndInv, NEW c \in Callers, callers[c].pc \in {"slow", "wait"}
    PROVE  /\ \A v \in Tokens : AskOf(Answer(c, v)) = [pc |-> "answered", val |-> v]
           /\ AskOf(Fail(c)) = [pc |-> "failed", val |-> 0]
           /\ \A i \in CallIDs : AskOf(Waiting(c, i)) = [pc |-> "looked", val |-> token]
  <1>1. callers[c] \in Caller /\ callers[c].err = FALSE
    BY DEF IndInv, TypeOK, CallerInv
  <1>2. ASSUME NEW v \in Tokens
        PROVE  Answer(c, v).pc = "result" /\ Answer(c, v).val = v /\ ~Answer(c, v).err
    BY <1>1 DEF Answer, Caller
  <1>3. Fail(c).pc = "result" /\ Fail(c).err
    BY <1>1 DEF Fail, Caller
  <1>4. ASSUME NEW i \in CallIDs
        PROVE  Waiting(c, i).pc = "wait" /\ Waiting(c, i).stale = token
    BY <1>1 DEF Waiting, Caller
  <1>5. QED
    BY <1>2, <1>3, <1>4, AskOfCases

\* A step of a GetToken that only answers, fails or returns is one of the
\* abstract call.
LEMMA CallerSimulates ==
    ASSUME IndInv, NEW c \in Callers, NEW r, callers' = [callers EXCEPT ![c] = r],
           UNCHANGED <<token, inflight>>,
           \/ callers[c].pc = "idle" /\ AskOf(r) \in {[pc |-> "asked", val |-> 0],
                                                    [pc |-> "answered", val |-> token]}
           \/ callers[c].pc \in {"slow", "wait"} /\ AskOf(r) = [pc |-> "answered", val |-> token]
           \/ callers[c].pc = "wait" /\ AskOf(r) = [pc |-> "answered", val |-> callers[c].stale]
           \/ callers[c].pc \in {"slow", "wait"} /\ AskOf(r) = [pc |-> "failed", val |-> 0]
           \/ callers[c].pc \in {"wait", "result"} /\ AskOf(r) = [pc |-> "out", val |-> 0]
    PROVE  Source!Call(c) \/ Source!Answer(c) \/ Source!Fail(c) \/ Source!Leave(c)
  <1> DEFINE asks == [x \in Callers |-> AskOf(callers[x])]
  <1>1. asks' = [asks EXCEPT ![c] = AskOf(r)] /\ asks[c] = AskOf(callers[c])
    BY MappedCaller, Zenon
  <1>2. /\ callers[c].pc = "idle" => asks[c].pc = "out"
        /\ callers[c].pc = "slow" => asks[c].pc = "asked"
        /\ callers[c].pc = "wait" => asks[c] = [pc |-> "looked", val |-> callers[c].stale]
        /\ callers[c].pc = "result" => asks[c].pc \in {"answered", "failed"}
    BY <1>1, AskOfCases
  <1> HIDE DEF asks
  <1>3. CASE callers[c].pc = "idle" /\ AskOf(r) \in {[pc |-> "asked", val |-> 0],
                                                    [pc |-> "answered", val |-> token]}
    BY <1>1, <1>2, <1>3, Zenon DEF Source!Call, Source!Set, asks
  <1>4. CASE callers[c].pc \in {"slow", "wait"} /\ AskOf(r) = [pc |-> "answered", val |-> token]
    BY <1>1, <1>2, <1>4 DEF Source!Answer, Source!Set, asks
  <1>5. CASE callers[c].pc = "wait" /\ AskOf(r) = [pc |-> "answered", val |-> callers[c].stale]
    <2>1. asks[c].pc = "looked" /\ asks[c].val = callers[c].stale
      BY SMTT(30), <1>2, <1>5
    <2>2. asks' = [asks EXCEPT ![c] = [pc |-> "answered", val |-> asks[c].val]]
      BY <1>1, <1>5, <2>1, Zenon
    <2>3. Source!Set(c, "answered", asks[c].val)
      BY <2>2, Zenon DEF Source!Set, asks
    <2>4. QED
      BY <2>1, <2>3 DEF Source!Answer, asks
  <1>6. CASE callers[c].pc \in {"slow", "wait"} /\ AskOf(r) = [pc |-> "failed", val |-> 0]
    BY SMTT(30), <1>1, <1>2, <1>6 DEF Source!Fail, Source!Set, asks
  <1>7. CASE callers[c].pc \in {"wait", "result"} /\ AskOf(r) = [pc |-> "out", val |-> 0]
    BY SMTT(30), <1>1, <1>2, <1>7 DEF Source!Leave, Source!Set, asks
  <1>8. QED
    BY <1>3, <1>4, <1>5, <1>6, <1>7, Zenon

\* Slow, which may begin a refresh, is a look or an answer.
LEMMA SlowSimulates ==
    ASSUME IndInv, NEW c \in Callers, Slow(c)
    PROVE  Source!Look(c) \/ Source!Answer(c) \/ Source!Fail(c) \/ Source!Call(c)
             \/ Source!Leave(c)
  <1> DEFINE asks == [x \in Callers |-> AskOf(callers[x])]
  <1>1. /\ callers[c].pc = "slow" /\ UNCHANGED token
        /\ token \in Tokens /\ inflight \in CallIDs \cup {0} /\ 0 \notin CallIDs
    BY DEF Slow, IndInv, TypeOK, CallIDs
  <1>2. ASSUME NEW i \in CallIDs, callers' = [callers EXCEPT ![c] = Waiting(c, i)],
               inflight' = i
        PROVE  Source!Look(c)
    <2>1. AskOf(Waiting(c, i)) = [pc |-> "looked", val |-> token]
      BY <1>1, MappedState, Zenon
    <2>2. asks' = [asks EXCEPT ![c] = [pc |-> "looked", val |-> token]]
      BY <1>2, <2>1, MappedCaller, Zenon
    <2>3. asks[c].pc = "asked"
      BY <1>1, AskOfCases
    <2>4. inflight' # 0
      BY <1>1, <1>2
    <2>5. QED
      BY <1>1, <2>2, <2>3, <2>4, Zenon DEF Source!Look, Source!Set
  <1>3. ASSUME callers' = [callers EXCEPT ![c] = Answer(c, token)]
               \/ callers' = [callers EXCEPT ![c] = Fail(c)],
               UNCHANGED inflight
        PROVE  Source!Call(c) \/ Source!Answer(c) \/ Source!Fail(c) \/ Source!Leave(c)
    <2>1. PICK r : callers' = [callers EXCEPT ![c] = r] /\ r \in {Answer(c, token), Fail(c)}
      BY <1>3
    <2>2. AskOf(r) \in {[pc |-> "answered", val |-> token], [pc |-> "failed", val |-> 0]}
      <3>1. AskOf(Answer(c, token)) = [pc |-> "answered", val |-> token]
            /\ AskOf(Fail(c)) = [pc |-> "failed", val |-> 0]
        BY <1>1, MappedState
      <3>2. QED
        BY <2>1, <3>1
    <2>3. QED
      BY <1>1, <1>3, <2>1, <2>2, CallerSimulates, Zenon
  <1>4. CASE Recheck(c)
    BY <1>3, <1>4 DEF Recheck
  <1>5. CASE Join(c)
    <2>1. CASE usable
      BY <1>3, <1>5, <2>1, Zenon DEF Join
    <2>2. CASE ~usable
      BY <1>1, <1>2, <1>5, <2>2, Zenon DEF Join, InFlight
    <2>3. QED
      BY <2>1, <2>2, Zenon
  <1>6. CASE Refuse(c)
    BY <1>3, <1>6, Zenon DEF Refuse
  <1>7. CASE Lead(c)
    BY <1>2, <1>7, Zenon DEF Lead
  <1>8. QED
    BY <1>4, <1>5, <1>6, <1>7 DEF Slow

\* The end of a refresh is the end of the renewal.
LEMMA RefreshSimulates ==
    ASSUME IndInv, NEW i \in CallIDs, RefreshOK(i) \/ RefreshFail(i)
    PROVE  Source!Renew
  <1>1. inflight = i /\ i + 1 \in Tokens /\ token < i + 1 /\ i # 0
    BY YoungestRuns DEF RefreshOK, RefreshFail, CallIDs
  <1>2. inflight' = 0 /\ UNCHANGED callers /\ (token' = i + 1 \/ UNCHANGED token)
    BY DEF RefreshOK, RefreshFail
  <1>3. UNCHANGED [x \in Callers |-> AskOf(callers[x])]
    BY <1>2
  <1>4. (inflight # 0) /\ ~(inflight' # 0)
    BY <1>1, <1>2
  <1>5. \/ token' \in Tokens /\ token' > token
        \/ UNCHANGED token
    BY <1>1, <1>2 DEF Tokens
  <1>6. QED
    BY <1>3, <1>4, <1>5, Zenon DEF Source!Renew

(***************************************************************************)
(* The manager implements TokenSource: GetToken and runRefresh, with their *)
(* locks, back-off and detached calls, only ever do what a token source    *)
(* may do.                                                                 *)
(***************************************************************************)
THEOREM ManagerIsATokenSource == Spec => ImplementsTokenSource
  <1>1. Init => Source!Init
    <2> SUFFICES ASSUME Init PROVE Source!Init
      OBVIOUS
    <2>1. token \in Tokens /\ inflight = 0
      BY InitIndInv, Zenon DEF Init, IndInv, TypeOK
    <2>2. AskOf(NoCall) = [pc |-> "out", val |-> 0]
      BY AskOfCases, Zenon DEF NoCall
    <2>3. [c \in Callers |-> AskOf(callers[c])] = [c \in Callers |-> [pc |-> "out", val |-> 0]]
      BY <2>2 DEF Init
    <2>4. QED
      BY <2>1, <2>3, Zenon DEF Source!Init, Source!Out
  <1>2. IndInv /\ [Next]_vars => [Source!Next]_(Source!vars)
    <2> SUFFICES ASSUME IndInv, [Next]_vars
                 PROVE  Source!Next \/ UNCHANGED Source!vars
      BY Zenon
    <2>1. ASSUME NEW c \in Callers, NEW b \in Buffers, GetToken(c, b) PROVE Source!Next
      <3> DEFINE r == [pc |-> IF fresh(b) THEN "result" ELSE "slow", buffer |-> b,
                       stale |-> 0, staleExpiry |-> 0, call |-> 0, err |-> FALSE,
                       val |-> IF fresh(b) THEN token ELSE 0, floor |-> returned]
      <3>1. /\ callers' = [callers EXCEPT ![c] = r]
            /\ \/ r.pc = "result" /\ r.val = token /\ ~r.err
               \/ r.pc = "slow"
        BY <2>1, Zenon DEF GetToken
      <3> HIDE DEF r
      <3>2. AskOf(r) \in {[pc |-> "asked", val |-> 0], [pc |-> "answered", val |-> token]}
        BY <3>1, AskOfCases
      <3>3. callers[c].pc = "idle" /\ UNCHANGED <<token, inflight>>
        BY <2>1 DEF GetToken, manager
      <3>4. QED
        BY <3>1, <3>2, <3>3, CallerSimulates, Zenon DEF Source!Next
    <2>2. ASSUME NEW c \in Callers, Slow(c) PROVE Source!Next
      BY <2>2, SlowSimulates DEF Source!Next
    <2>3. ASSUME NEW c \in Callers, Wake(c) PROVE Source!Next
      <3>1. callers[c].pc = "wait" /\ UNCHANGED <<token, inflight>> /\ token \in Tokens
            /\ callers[c].stale \in Tokens
        BY <2>3, Zenon DEF Wake, manager, IndInv, TypeOK, Caller
      <3>2. \E r \in {Answer(c, token), Answer(c, callers[c].stale), Fail(c)} :
               callers' = [callers EXCEPT ![c] = r]
        BY <2>3, Zenon DEF Wake, AfterFailure
      <3>3. /\ AskOf(Answer(c, token)) = [pc |-> "answered", val |-> token]
            /\ AskOf(Answer(c, callers[c].stale)) = [pc |-> "answered", val |-> callers[c].stale]
            /\ AskOf(Fail(c)) = [pc |-> "failed", val |-> 0]
        BY <3>1, MappedState, Zenon
      <3>4. Source!Call(c) \/ Source!Answer(c) \/ Source!Fail(c) \/ Source!Leave(c)
        BY <3>1, <3>2, <3>3, CallerSimulates, Zenon
      <3>5. QED
        BY <3>4, Zenon DEF Source!Next
    <2>4. ASSUME NEW c \in Callers, CtxDone(c) \/ Return(c) PROVE Source!Next
      <3>1. /\ callers[c].pc \in {"wait", "result"} /\ UNCHANGED <<token, inflight>>
            /\ callers' = [callers EXCEPT ![c] = NoCall]
        BY <2>4, Zenon DEF CtxDone, Return, manager
      <3>2. AskOf(NoCall) = [pc |-> "out", val |-> 0]
        BY AskOfCases DEF NoCall
      <3>3. QED
        BY <3>1, <3>2, CallerSimulates, Zenon DEF Source!Next
    <2>5. ASSUME NEW i \in CallIDs, RefreshOK(i) \/ RefreshFail(i) PROVE Source!Next
      BY <2>5, RefreshSimulates DEF Source!Next
    <2>6. ASSUME UNCHANGED <<token, inflight, callers>> PROVE UNCHANGED Source!vars
      BY <2>6 DEF Source!vars
    <2>7. ASSUME (\E i \in CallIDs : Report(i)) \/ Tick \/ UNCHANGED vars
          PROVE  UNCHANGED Source!vars
      BY <2>6, <2>7 DEF Report, Tick, vars, manager
    <2>8. QED
      BY <2>1, <2>2, <2>3, <2>4, <2>5, <2>7 DEF Next, CallerStep, RefreshStep
  <1>3. QED
    BY <1>1, <1>2, Invariance, PTL DEF Spec, ImplementsTokenSource, Source!Spec
=============================================================================
