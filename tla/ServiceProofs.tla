--------------------------- MODULE ServiceProofs ---------------------------
(***************************************************************************)
(* Proofs about Service and Streams, for any number of requests, clients,  *)
(* components and any caps: Limits counts the running handlers, no         *)
(* consumer is left without a goroutine that deletes it, nobody waits for  *)
(* a lookup that is not in flight, and Group reports the failure that was  *)
(* sent first.                                                             *)
(*                                                                         *)
(* Proofs about Tracker, for streams of any length and any Max: the ring   *)
(* is the newest of what it covers, and is emptied only of another stream. *)
(***************************************************************************)
EXTENDS Service, Tracker, FiniteSetTheorems, SequenceTheorems, WellFoundedInduction, TLAPS

\* The type of the state the invariants speak of.
StreamsType ==
    /\ reqs \in [Requests -> Req]
    /\ cfg \in [MaxStreams : Nat, MaxPerClient : Nat]
    /\ total \in Nat /\ perClient \in [Clients -> Int]

StreamsInv == StreamsType /\ SlotsMatch /\ NoOrphan

\* NoOrphan for one request, and whether its handler runs.
Tidy(q) == q.cons => q.h = "messages" \/ q.reader \in {"next", "send", "closed"}
Runs(q) == q.h \notin {"new", "done"}

-----------------------------------------------------------------------------
\* The handlers that run are finitely many.
LEMMA FiniteHandlers ==
    /\ IsFiniteSet({r \in Requests : Active(r)})
    /\ \A k \in Clients : IsFiniteSet({r \in Requests : Active(r) /\ ClientKey[r] = k})
  <1>1. IsFiniteSet(Requests)
    BY StreamsAssumption
  <1>2. {r \in Requests : Active(r)} \in SUBSET Requests
    OBVIOUS
  <1>3. ASSUME NEW k \in Clients
        PROVE  {r \in Requests : Active(r) /\ ClientKey[r] = k} \in SUBSET Requests
    OBVIOUS
  <1>4. QED
    BY <1>1, <1>2, <1>3, FS_Subset

\* A step after which the same handlers run and no slot was touched keeps the
\* invariant if every request stays tidy.
LEMMA SameHandlers ==
    ASSUME StreamsInv, reqs' \in [Requests -> Req], UNCHANGED limits,
           \A r \in Requests : Runs(reqs'[r]) <=> Runs(reqs[r]),
           \A r \in Requests : Tidy(reqs'[r])
    PROVE  StreamsInv'
  <1>1. StreamsType'
    BY DEF StreamsInv, StreamsType, limits
  <1>2. \A r \in Requests : Active(r)' <=> Active(r)
    BY DEF Active, Runs
  <1>3. {r \in Requests : Active(r)}' = {r \in Requests : Active(r)}
    BY <1>2
  <1>4. \A k : {r \in Requests : Active(r) /\ ClientKey[r] = k}'
                 = {r \in Requests : Active(r) /\ ClientKey[r] = k}
    BY <1>2
  <1>5. SlotsMatch'
    BY <1>3, <1>4 DEF StreamsInv, SlotsMatch, limits
  <1>6. NoOrphan'
    BY DEF NoOrphan, Tidy
  <1>7. QED
    BY <1>1, <1>5, <1>6 DEF StreamsInv

\* The usual step: one request moves on and its handler goes on running, or
\* goes on not running.
LEMMA OneMoves ==
    ASSUME StreamsInv, NEW r \in Requests, NEW q \in Req, Step(r, q),
           UNCHANGED limits, Runs(q) <=> Runs(reqs[r]), Tidy(q)
    PROVE  StreamsInv'
  <1>1. reqs' \in [Requests -> Req]
    BY DEF StreamsInv, StreamsType, Step
  <1>2. \A s \in Requests : reqs'[s] = IF s = r THEN q ELSE reqs[s]
    BY DEF StreamsInv, StreamsType, Step
  <1>3. \A s \in Requests : Tidy(reqs[s])
    BY DEF StreamsInv, NoOrphan, Tidy
  <1>4. QED
    BY <1>1, <1>2, <1>3, SameHandlers

-----------------------------------------------------------------------------
\* Limits.acquire: a request that gets a slot is counted, one that is refused
\* is not.
LEMMA OpenKeeps ==
    ASSUME StreamsInv, NEW r \in Requests, Open(r)
    PROVE  StreamsInv'
  <1> DEFINE k == ClientKey[r]
             Refused == Full(total, cfg.MaxStreams) \/ Full(perClient[k], cfg.MaxPerClient)
  <1>1. k \in Clients
    BY StreamsAssumption
  <1>2. reqs \in [Requests -> Req] /\ reqs[r].h = "new" /\ Tidy(reqs[r])
    BY DEF StreamsInv, StreamsType, NoOrphan, Tidy, Open
  <1>3. CASE Refused
    <2> DEFINE q == [reqs[r] EXCEPT !.h = "done"]
    <2>1. Step(r, q) /\ UNCHANGED limits
      BY <1>3 DEF Open, Goto, limits
    <2>2. q \in Req /\ ~Runs(q) /\ ~Runs(reqs[r]) /\ Tidy(q)
      BY <1>2 DEF Req, Runs, Tidy
    <2>3. QED
      BY <2>1, <2>2, OneMoves
  <1>4. CASE ~Refused
    <2> DEFINE q == [reqs[r] EXCEPT !.h = "ensure"]
    <2>1. Step(r, q) /\ total' = total + 1 /\ perClient' = Count(perClient, k, 1) /\ cfg' = cfg
      BY <1>4 DEF Open, Goto
    <2>2. q \in Req /\ Runs(q) /\ ~Runs(reqs[r]) /\ Tidy(q)
      BY <1>2 DEF Req, Runs, Tidy
    <2>3. reqs' \in [Requests -> Req] /\ \A s \in Requests : reqs'[s] = IF s = r THEN q ELSE reqs[s]
      BY <1>2, <2>1, <2>2, Zenon DEF Step
    <2> HIDE DEF q
    <2>4. StreamsType'
      BY <1>1, <2>1, <2>3 DEF StreamsInv, StreamsType, Count
    <2>5. NoOrphan'
      BY <2>2, <2>3 DEF StreamsInv, NoOrphan, Tidy
    <2>6. ~Active(r) /\ \A s \in Requests : Active(s)' <=> (s = r \/ Active(s))
      BY <2>2, <2>3 DEF Active, Runs
    <2>7. {s \in Requests : Active(s)}' = {s \in Requests : Active(s)} \cup {r}
      BY <2>6
    <2>8. Cardinality({s \in Requests : Active(s)}') = Cardinality({s \in Requests : Active(s)}) + 1
      BY <2>6, <2>7, FiniteHandlers, FS_AddElement, Zenon
    <2>9. total' = Cardinality({s \in Requests : Active(s)})'
      BY <2>1, <2>8 DEF StreamsInv, SlotsMatch
    <2>10. ASSUME NEW l \in Clients, cfg.MaxPerClient > 0
           PROVE  perClient'[l] = Cardinality({s \in Requests : Active(s) /\ ClientKey[s] = l}')
      <3> DEFINE S == {s \in Requests : Active(s) /\ ClientKey[s] = l}
      <3>1. perClient[l] = Cardinality(S) /\ perClient \in [Clients -> Int] /\ IsFiniteSet(S)
        BY <2>10, FiniteHandlers DEF StreamsInv, SlotsMatch, StreamsType
      <3>2. CASE l = k
        <4>1. S' = S \cup {r} /\ r \notin S
          BY <2>6, <3>2
        <4>2. Cardinality(S \cup {r}) = Cardinality(S) + 1
          BY <3>1, <4>1, FS_AddElement, Zenon
        <4>3. perClient'[l] = perClient[l] + 1
          BY <1>1, <2>1, <2>10, <3>1, <3>2 DEF Count
        <4>4. QED
          BY <3>1, <4>1, <4>2, <4>3, Zenon
      <3>3. CASE l # k
        <4>1. S' = S
          BY <2>6, <3>3, Zenon
        <4>2. perClient'[l] = perClient[l]
          BY <1>1, <2>1, <2>10, <3>1, <3>3 DEF Count
        <4>3. QED
          BY <3>1, <4>1, <4>2
      <3>4. QED
        BY <3>2, <3>3
    <2>11. cfg.MaxStreams > 0 => total' <= cfg.MaxStreams
      BY <1>4, <2>1 DEF StreamsInv, StreamsType, Full
    <2>12. ASSUME NEW l \in Clients, cfg.MaxPerClient > 0
           PROVE  perClient'[l] <= cfg.MaxPerClient
      <3>1. /\ perClient[l] <= cfg.MaxPerClient /\ perClient \in [Clients -> Int]
            /\ cfg.MaxPerClient \in Nat
        BY <2>12, Zenon DEF StreamsInv, SlotsMatch, StreamsType
      <3>2. ~(perClient[k] >= cfg.MaxPerClient)
        BY <1>4, <2>12, Zenon DEF Full
      <3>3. perClient' = [perClient EXCEPT ![k] = @ + 1]
        BY <2>1, <2>12, Zenon DEF Count
      <3>4. QED
        BY <1>1, <3>1, <3>2, <3>3
    <2>13. SlotsMatch'
      BY <2>1, <2>9, <2>10, <2>11, <2>12 DEF SlotsMatch
    <2>14. QED
      BY <2>4, <2>5, <2>13 DEF StreamsInv
  <1>5. QED
    BY <1>3, <1>4

\* Limits.release: the handler returns and gives back what it took.
LEMMA ReturnKeeps ==
    ASSUME StreamsInv, NEW r \in Requests, Return(r)
    PROVE  StreamsInv'
  <1> DEFINE k == ClientKey[r]
             q == [reqs[r] EXCEPT !.h = "done", !.gone = FALSE, !.sub = TRUE]
  <1>1. k \in Clients
    BY StreamsAssumption
  <1>2. reqs \in [Requests -> Req] /\ reqs[r].h = "exit" /\ Tidy(reqs[r])
    BY DEF StreamsInv, StreamsType, NoOrphan, Tidy, Return
  <1>3. Step(r, q) /\ total' = total - 1 /\ perClient' = Count(perClient, k, -1) /\ cfg' = cfg
    BY DEF Return
  <1>4. q \in Req /\ ~Runs(q) /\ Runs(reqs[r]) /\ Tidy(q)
    BY <1>2, Zenon DEF Req, Runs, Tidy
  <1>5. reqs' \in [Requests -> Req] /\ \A s \in Requests : reqs'[s] = IF s = r THEN q ELSE reqs[s]
    BY <1>2, <1>3, <1>4, Zenon DEF Step
  <1> HIDE DEF q
  <1>6. Active(r) /\ \A s \in Requests : Active(s)' <=> (s # r /\ Active(s))
    BY <1>4, <1>5 DEF Active, Runs
  <1>7. {s \in Requests : Active(s)}' = {s \in Requests : Active(s)} \ {r}
    BY <1>6
  <1>8. /\ Cardinality({s \in Requests : Active(s)}') = Cardinality({s \in Requests : Active(s)}) - 1
        /\ Cardinality({s \in Requests : Active(s)}') \in Nat
    BY <1>6, <1>7, FiniteHandlers, FS_RemoveElement, FS_CardinalityType, Zenon
  <1>9. total' = Cardinality({s \in Requests : Active(s)})' /\ total' \in Nat
    BY <1>3, <1>8 DEF StreamsInv, SlotsMatch
  <1>10. StreamsType'
    BY <1>1, <1>3, <1>5, <1>9 DEF StreamsInv, StreamsType, Count
  <1>11. NoOrphan'
    BY <1>4, <1>5, Zenon DEF StreamsInv, NoOrphan, Tidy
  <1>12. ASSUME NEW l \in Clients, cfg.MaxPerClient > 0
         PROVE  perClient'[l] = Cardinality({s \in Requests : Active(s) /\ ClientKey[s] = l}')
    <2> DEFINE S == {s \in Requests : Active(s) /\ ClientKey[s] = l}
    <2>1. perClient[l] = Cardinality(S) /\ perClient \in [Clients -> Int] /\ IsFiniteSet(S)
      BY <1>12, FiniteHandlers DEF StreamsInv, SlotsMatch, StreamsType
    <2>2. CASE l = k
      <3>1. S' = S \ {r} /\ r \in S
        BY <1>6, <2>2, Zenon
      <3>2. Cardinality(S \ {r}) = Cardinality(S) - 1
        BY <2>1, <3>1, FS_RemoveElement, Zenon
      <3>3. perClient'[l] = perClient[l] - 1
        BY <1>1, <1>3, <1>12, <2>1, <2>2 DEF Count
      <3>4. QED
        BY <2>1, <3>1, <3>2, <3>3, Zenon
    <2>3. CASE l # k
      <3>1. S' = S
        BY <1>6, <2>3, Zenon
      <3>2. perClient'[l] = perClient[l]
        BY <1>1, <1>3, <1>12, <2>1, <2>3 DEF Count
      <3>3. QED
        BY <2>1, <3>1, <3>2
    <2>4. QED
      BY <2>2, <2>3
  <1>13. cfg.MaxStreams > 0 => total' <= cfg.MaxStreams
    BY <1>3 DEF StreamsInv, StreamsType, SlotsMatch
  <1>14. ASSUME NEW l \in Clients, cfg.MaxPerClient > 0
         PROVE  perClient'[l] <= cfg.MaxPerClient
    <2>1. /\ perClient[l] <= cfg.MaxPerClient /\ perClient \in [Clients -> Int]
          /\ cfg.MaxPerClient \in Nat
      BY <1>14, Zenon DEF StreamsInv, SlotsMatch, StreamsType
    <2>2. perClient' = [perClient EXCEPT ![k] = @ + (-1)]
      BY <1>3, <1>14, Zenon DEF Count
    <2>3. QED
      BY <1>1, <2>1, <2>2
  <1>15. SlotsMatch'
    BY <1>3, <1>9, <1>12, <1>13, <1>14, Zenon DEF SlotsMatch
  <1>16. QED
    BY <1>10, <1>11, <1>15 DEF StreamsInv

-----------------------------------------------------------------------------
\* The steps of a request that leave the slots alone.
LEMMA RequestKeeps ==
    ASSUME StreamsInv, NEW r \in Requests,
           \/ Leave(r) \/ CancelSub(r) \/ EnsureStream(r) \/ GiveUp(r) \/ Messages(r)
           \/ ServeEnds(r) \/ Heartbeat(r) \/ Receive(r)
           \/ NextMessage(r) \/ NextFails(r) \/ SendAborts(r) \/ ReaderEnds(r) \/ Watch(r)
           \/ \E ok \in BOOLEAN : CreateConsumer(r, ok) \/ Write(r, ok)
    PROVE  StreamsInv'
  <1>1. reqs[r] \in Req /\ Tidy(reqs[r])
    BY DEF StreamsInv, StreamsType, NoOrphan, Tidy
  <1> DEFINE Fine(q) == q \in Req /\ (Runs(q) <=> Runs(reqs[r])) /\ Tidy(q)
  <1>2. ASSUME NEW q, Fine(q), Step(r, q), UNCHANGED limits
        PROVE  StreamsInv'
    BY <1>2, OneMoves
  <1> HIDE DEF Fine
  <1>3. CASE Leave(r)
    <2> DEFINE q == [reqs[r] EXCEPT !.gone = TRUE, !.sub = TRUE]
    <2>1. Step(r, q) /\ UNCHANGED limits
      BY <1>3 DEF Leave, Served
    <2>2. Fine(q)
      BY <1>1, <1>3, Zenon DEF Fine, Req, Runs, Tidy, Leave, Served
    <2>3. QED
      BY <1>2, <2>1, <2>2
  <1>4. CASE CancelSub(r)
    <2> DEFINE q == [reqs[r] EXCEPT !.sub = TRUE]
    <2>1. Step(r, q) /\ UNCHANGED limits
      BY <1>4 DEF CancelSub, Served
    <2>2. Fine(q)
      BY <1>1, <1>4, Zenon DEF Fine, Req, Runs, Tidy, CancelSub, Served
    <2>3. QED
      BY <1>2, <2>1, <2>2
  <1>5. CASE GiveUp(r)
    <2> DEFINE q == [reqs[r] EXCEPT !.h = "exit"]
    <2>1. Step(r, q) /\ UNCHANGED limits
      BY <1>5 DEF GiveUp, Goto
    <2>2. Fine(q)
      BY <1>1, <1>5 DEF Fine, Req, Runs, Tidy, GiveUp, Goto
    <2>3. QED
      BY <1>2, <2>1, <2>2
  <1>6. CASE ServeEnds(r)
    <2> DEFINE q == [reqs[r] EXCEPT !.h = "exit"]
    <2>1. Step(r, q) /\ UNCHANGED limits
      BY <1>6 DEF ServeEnds, Goto
    <2>2. Fine(q)
      BY <1>1, <1>6 DEF Fine, Req, Runs, Tidy, ServeEnds, Goto
    <2>3. QED
      BY <1>2, <2>1, <2>2
  <1>7. CASE Heartbeat(r)
    <2> DEFINE q == [reqs[r] EXCEPT !.h = "write"]
    <2>1. Step(r, q) /\ UNCHANGED limits
      BY <1>7 DEF Heartbeat, Goto
    <2>2. Fine(q)
      BY <1>1, <1>7 DEF Fine, Req, Runs, Tidy, Heartbeat, Goto
    <2>3. QED
      BY <1>2, <2>1, <2>2
  <1>8. CASE Receive(r)
    <2> DEFINE q == [reqs[r] EXCEPT !.h = "write", !.reader = "next"]
    <2>1. Step(r, q) /\ UNCHANGED limits
      BY <1>8 DEF Receive
    <2>2. Fine(q)
      BY <1>1, <1>8, Zenon DEF Fine, Req, Runs, Tidy, Receive
    <2>3. QED
      BY <1>2, <2>1, <2>2
  <1>9. CASE NextMessage(r)
    <2> DEFINE q == [reqs[r] EXCEPT !.reader = "send"]
    <2>1. Step(r, q) /\ UNCHANGED limits
      BY <1>9 DEF NextMessage
    <2>2. Fine(q)
      BY <1>1, <1>9 DEF Fine, Req, Runs, Tidy, NextMessage
    <2>3. QED
      BY <1>2, <2>1, <2>2
  <1>10. CASE NextFails(r)
    <2> DEFINE q == [reqs[r] EXCEPT !.reader = "closed"]
    <2>1. Step(r, q) /\ UNCHANGED limits
      BY <1>10 DEF NextFails
    <2>2. Fine(q)
      BY <1>1, <1>10 DEF Fine, Req, Runs, Tidy, NextFails
    <2>3. QED
      BY <1>2, <2>1, <2>2
  <1>11. CASE SendAborts(r)
    <2> DEFINE q == [reqs[r] EXCEPT !.reader = "closed"]
    <2>1. Step(r, q) /\ UNCHANGED limits
      BY <1>11 DEF SendAborts
    <2>2. Fine(q)
      BY <1>1, <1>11 DEF Fine, Req, Runs, Tidy, SendAborts
    <2>3. QED
      BY <1>2, <2>1, <2>2
  <1>12. CASE ReaderEnds(r)
    <2> DEFINE q == releaseConsumer([reqs[r] EXCEPT !.reader = "ended", !.stopped = TRUE])
    <2>1. Step(r, q) /\ UNCHANGED limits
      BY <1>12 DEF ReaderEnds, releaseConsumer
    <2>2. Fine(q)
      BY <1>1, <1>12, Zenon DEF Fine, Req, Runs, Tidy, ReaderEnds, releaseConsumer
    <2>3. QED
      BY <1>2, <2>1, <2>2
  <1>13. CASE Watch(r)
    <2> DEFINE q == [reqs[r] EXCEPT !.watch = FALSE, !.stopped = TRUE]
    <2>1. Step(r, q) /\ UNCHANGED limits
      BY <1>13 DEF Watch
    <2>2. Fine(q)
      BY <1>1, <1>13, Zenon DEF Fine, Req, Runs, Tidy, Watch
    <2>3. QED
      BY <1>2, <2>1, <2>2
  <1>14. CASE EnsureStream(r)
    <2>1. UNCHANGED limits /\ (Step(r, [reqs[r] EXCEPT !.h = "create"]) \/ Step(r, [reqs[r] EXCEPT !.h = "wait"]) \/ Step(r, [reqs[r] EXCEPT !.h = "lookup"]))
      BY <1>14, Zenon DEF EnsureStream, Goto
    <2>2. Fine([reqs[r] EXCEPT !.h = "create"]) /\ Fine([reqs[r] EXCEPT !.h = "wait"]) /\ Fine([reqs[r] EXCEPT !.h = "lookup"])
      BY <1>1, <1>14 DEF Fine, Req, Runs, Tidy, EnsureStream, Goto
    <2>3. QED
      BY <1>2, <2>1, <2>2, Zenon
  <1>15. CASE Messages(r)
    <2>1. UNCHANGED limits /\ (Step(r, [reqs[r] EXCEPT !.h = "write", !.watch = TRUE, !.reader = "next"]) \/ Step(r, releaseConsumer([reqs[r] EXCEPT !.h = "exit"])))
      BY <1>15 DEF Messages, releaseConsumer
    <2>2. Fine([reqs[r] EXCEPT !.h = "write", !.watch = TRUE, !.reader = "next"]) /\ Fine(releaseConsumer([reqs[r] EXCEPT !.h = "exit"]))
      BY <1>1, <1>15, Zenon DEF Fine, Req, Runs, Tidy, Messages, releaseConsumer
    <2>3. QED
      BY <1>2, <2>1, <2>2
  <1>16. ASSUME NEW ok \in BOOLEAN, CreateConsumer(r, ok)
        PROVE  StreamsInv'
    <2> DEFINE q == [reqs[r] EXCEPT !.cons = ok, !.h = IF ok THEN "messages" ELSE "exit"]
    <2>1. Step(r, q) /\ UNCHANGED limits
      BY <1>16, Zenon DEF CreateConsumer
    <2>2. Fine(q)
      BY <1>1, <1>16, Zenon DEF Fine, Req, Runs, Tidy, CreateConsumer
    <2>3. QED
      BY <1>2, <2>1, <2>2
  <1>17. ASSUME NEW ok \in BOOLEAN, Write(r, ok)
        PROVE  StreamsInv'
    <2> DEFINE q == [reqs[r] EXCEPT !.h = IF ok THEN "serve" ELSE "exit"]
    <2>1. Step(r, q) /\ UNCHANGED limits
      BY <1>17 DEF Write, Goto
    <2>2. Fine(q)
      BY <1>1, <1>17, Zenon DEF Fine, Req, Runs, Tidy, Write, Goto
    <2>3. QED
      BY <1>2, <2>1, <2>2
  <1>18. QED
    BY <1>3, <1>4, <1>5, <1>6, <1>7, <1>8, <1>9, <1>10, <1>11, <1>12, <1>13, <1>14, <1>15, <1>16, <1>17

\* The end of a lookup, which also wakes the requests that wait for it.
LEMMA LookupKeeps ==
    ASSUME StreamsInv, NEW r \in Requests, NEW ok \in BOOLEAN, FetchStream(r, ok)
    PROVE  StreamsInv'
  <1>1. \A s \in Requests : reqs[s] \in Req /\ Tidy(reqs[s])
    BY DEF StreamsInv, StreamsType, NoOrphan, Tidy
  <1> DEFINE q(s) == IF s = r THEN [reqs[r] EXCEPT !.h = IF ok THEN "create" ELSE "exit"]
                     ELSE Woken(reqs[s])
  <1>2. reqs' = [s \in Requests |-> q(s)] /\ UNCHANGED limits /\ reqs[r].h = "lookup"
    BY Zenon DEF FetchStream
  <1>3. \A s \in Requests : q(s) \in Req /\ (Runs(q(s)) <=> Runs(reqs[s])) /\ Tidy(q(s))
    BY <1>1, <1>2 DEF Req, Runs, Tidy, Woken
  <1> HIDE DEF q
  <1>4. QED
    BY <1>2, <1>3, SameHandlers

\* Shutdown's timeout closes the connections of all handlers.
LEMMA TimeoutKeeps ==
    ASSUME StreamsInv, ShutdownTimeout
    PROVE  StreamsInv'
  <1>1. \A s \in Requests : reqs[s] \in Req /\ Tidy(reqs[s])
    BY DEF StreamsInv, StreamsType, NoOrphan, Tidy
  <1> DEFINE q(s) == IF Served(s) THEN [reqs[s] EXCEPT !.gone = TRUE, !.sub = TRUE] ELSE reqs[s]
  <1>2. reqs' = [s \in Requests |-> q(s)] /\ UNCHANGED limits
    BY Zenon DEF ShutdownTimeout
  <1>3. \A s \in Requests : q(s) \in Req /\ (Runs(q(s)) <=> Runs(reqs[s])) /\ Tidy(q(s))
    BY <1>1, Zenon DEF Req, Runs, Tidy
  <1> HIDE DEF q
  <1>4. QED
    BY <1>2, <1>3, SameHandlers

\* Every step of the service keeps the invariant of its streams.
LEMMA StreamsStep ==
    ASSUME StreamsInv, [Next]_vars
    PROVE  StreamsInv'
  <1>1. ASSUME UNCHANGED <<limits, reqs>>
        PROVE  StreamsInv'
    BY <1>1, Zenon DEF StreamsInv, StreamsType, SlotsMatch, NoOrphan, Active, limits
  <1>2. ASSUME StreamsNext
        PROVE  StreamsInv'
    <2>1. CASE Close
      BY <1>1, <2>1, Zenon DEF Close
    <2>2. ASSUME NEW r \in Requests, NEW ok \in BOOLEAN, FetchStream(r, ok)
          PROVE  StreamsInv'
      BY <2>2, LookupKeeps
    <2>3. ASSUME NEW r \in Requests, Return(r)
          PROVE  StreamsInv'
      BY <2>3, ReturnKeeps
    <2>4. QED
      BY <1>2, <2>1, <2>2, <2>3, RequestKeeps, Zenon DEF StreamsNext, Proceeds
  <1>3. ASSUME NEW r \in Requests, Open(r)
        PROVE  StreamsInv'
    BY <1>3, OpenKeeps
  <1>4. ASSUME GroupNext
        PROVE  StreamsInv'
    <2>1. CASE ShutdownTimeout
      BY <2>1, TimeoutKeeps
    <2>2. CASE ~ShutdownTimeout
      <3>1. UNCHANGED <<limits, reqs>>
        BY <1>4, <2>2 DEF GroupNext, Signal, ListenFails, ServeFails, Shutdown, ShutdownDone,
             WorkerReturns, Sends, GroupReturns, streamVars, limits
      <3>2. QED
        BY <1>1, <3>1, Zenon
    <2>3. QED
      BY <2>1, <2>2
  <1>5. CASE UNCHANGED vars
    BY <1>1, <1>5, Zenon DEF vars, streamVars, limits
  <1>6. QED
    BY <1>2, <1>3, <1>4, <1>5 DEF Next

LEMMA StreamsStart ==
    ASSUME Init
    PROVE  StreamsInv
  <1>1. StreamsType
    BY StreamsAssumption
    DEF Init, StreamsInit, NewLimits, NewReq, StreamsType, Req
  <1>2. \A r \in Requests : ~Active(r) /\ ~reqs[r].cons
    BY DEF Init, StreamsInit, NewReq, Active
  <1>3. /\ {r \in Requests : Active(r)} = {}
        /\ \A k : {r \in Requests : Active(r) /\ ClientKey[r] = k} = {}
    BY <1>2
  <1>4. SlotsMatch
    <2>1. total = 0 /\ perClient = [k \in Clients |-> 0]
      BY Zenon DEF Init, StreamsInit, NewLimits
    <2>2. Cardinality({r \in Requests : Active(r)}) = 0
      BY <1>3, FS_EmptySet, Zenon
    <2>3. \A k : Cardinality({r \in Requests : Active(r) /\ ClientKey[r] = k}) = 0
      BY <1>3, FS_EmptySet, Zenon
    <2>4. cfg.MaxStreams \in Nat /\ cfg.MaxPerClient \in Nat
      BY <1>1 DEF StreamsType
    <2>5. QED
      BY <2>1, <2>2, <2>3, <2>4 DEF SlotsMatch
  <1>5. QED
    BY <1>1, <1>2, <1>4, Zenon DEF StreamsInv, NoOrphan

\* Limits counts exactly the handlers that run and the caps hold, for any
\* number of requests, clients and any caps (Limits.acquire, release).
THEOREM SlotsAreCounted == Spec => []SlotsMatch
  <1>1. Init => StreamsInv
    BY StreamsStart
  <1>2. StreamsInv /\ [Next]_vars => StreamsInv'
    BY StreamsStep
  <1>3. StreamsInv => SlotsMatch
    BY DEF StreamsInv
  <1>4. QED
    BY <1>1, <1>2, <1>3, PTL DEF Spec

\* A consumer on the broker always has a goroutine that will delete it
\* (Subscribe's error path and the reader's deferred calls).
THEOREM ConsumersAreOwned == Spec => []NoOrphan
  <1>1. Init => StreamsInv
    BY StreamsStart
  <1>2. StreamsInv /\ [Next]_vars => StreamsInv'
    BY StreamsStep
  <1>3. StreamsInv => NoOrphan
    BY Zenon DEF StreamsInv
  <1>4. QED
    BY <1>1, <1>2, <1>3, PTL DEF Spec

-----------------------------------------------------------------------------
\* The steps of one request that are not of ensureStream's lookup.
LEMMA OthersKeepLookup ==
    ASSUME StreamsInv, LookupLed, NEW r \in Requests,
           \/ Leave(r) \/ CancelSub(r) \/ GiveUp(r) \/ Messages(r) \/ Return(r) \/ Open(r)
           \/ ServeEnds(r) \/ Heartbeat(r) \/ Receive(r)
           \/ NextMessage(r) \/ NextFails(r) \/ SendAborts(r) \/ ReaderEnds(r) \/ Watch(r)
           \/ \E ok \in BOOLEAN : CreateConsumer(r, ok) \/ Write(r, ok)
    PROVE  LookupLed'
  <1>1. reqs \in [Requests -> Req] /\ reqs[r] \in Req
    BY DEF StreamsInv, StreamsType
  <1> DEFINE Fine(q) == q.h = reqs[r].h \/ (reqs[r].h # "lookup" /\ q.h \notin {"lookup", "wait"})
  <1>2. ASSUME NEW q, Fine(q), Step(r, q), UNCHANGED lookup
        PROVE  LookupLed'
    <2>1. \A s \in Requests : reqs'[s] = IF s = r THEN q ELSE reqs[s]
      BY <1>1, <1>2, Zenon DEF Step
    <2>2. ASSUME NEW s \in Requests
          PROVE  /\ reqs'[s].h = "lookup" <=> lookup' = s
                 /\ reqs'[s].h = "wait" => lookup' # NONE
      <3>1. /\ reqs[s].h = "lookup" <=> lookup = s
            /\ reqs[s].h = "wait" => lookup # NONE
        BY Zenon DEF LookupLed
      <3>2. QED
        BY <1>2, <2>1, <3>1, Zenon
    <2>3. QED
      BY <2>2, Zenon DEF LookupLed
  <1>3. \E q : Fine(q) /\ Step(r, q) /\ UNCHANGED lookup
    <2>1. CASE Leave(r)
      BY <1>1, <2>1, Zenon DEF Leave, Req, source
    <2>2. CASE CancelSub(r)
      BY <1>1, <2>2, Zenon DEF CancelSub, Req, source
    <2>3. CASE GiveUp(r)
      BY <1>1, <2>3 DEF GiveUp, Goto, Req, source
    <2>4. CASE Messages(r)
      <3>1. PICK q \in {[reqs[r] EXCEPT !.h = "write", !.watch = TRUE, !.reader = "next"],
                        releaseConsumer([reqs[r] EXCEPT !.h = "exit"])} : Step(r, q)
        BY <2>4, Zenon DEF Messages
      <3>2. q.h \in {"write", "exit"} /\ reqs[r].h = "messages" /\ UNCHANGED lookup
        BY <1>1, <2>4, <3>1, Zenon DEF Messages, releaseConsumer, Req, source
      <3>3. QED
        BY <3>1, <3>2
    <2>5. CASE Return(r)
      BY <1>1, <2>5, Zenon DEF Return, Req, source
    <2>6. CASE Open(r)
      <3>1. Goto(r, "done") \/ Goto(r, "ensure")
        BY <2>6, Zenon DEF Open
      <3>2. reqs[r].h = "new" /\ UNCHANGED lookup
        BY <2>6, Zenon DEF Open, source
      <3>3. QED
        BY <1>1, <3>1, <3>2 DEF Goto, Req
    <2>7. CASE ServeEnds(r)
      BY <1>1, <2>7 DEF ServeEnds, Goto, Req, source
    <2>8. CASE Heartbeat(r)
      BY <1>1, <2>8 DEF Heartbeat, Goto, Req, source
    <2>9. CASE Receive(r)
      BY <1>1, <2>9, Zenon DEF Receive, Req, source
    <2>10. CASE NextMessage(r) \/ NextFails(r) \/ SendAborts(r)
      BY <1>1, <2>10 DEF NextMessage, NextFails, SendAborts, Req, source
    <2>11. CASE ReaderEnds(r)
      BY <1>1, <2>11, Zenon DEF ReaderEnds, releaseConsumer, Req, source
    <2>12. CASE Watch(r)
      BY <1>1, <2>12, Zenon DEF Watch, Req, source
    <2>13. ASSUME NEW ok \in BOOLEAN, CreateConsumer(r, ok)
           PROVE  \E q : Fine(q) /\ Step(r, q) /\ UNCHANGED lookup
      BY <1>1, <2>13, Zenon DEF CreateConsumer, Req, source
    <2>14. ASSUME NEW ok \in BOOLEAN, Write(r, ok)
           PROVE  \E q : Fine(q) /\ Step(r, q) /\ UNCHANGED lookup
      BY <1>1, <2>14 DEF Write, Goto, Req, source
    <2>15. QED
      BY <2>1, <2>2, <2>3, <2>4, <2>5, <2>6, <2>7, <2>8, <2>9, <2>10, <2>11, <2>12, <2>13, <2>14, Zenon
  <1>4. QED
    BY <1>2, <1>3, Zenon

\* Every step of the service leaves the lookup in flight with its request.
LEMMA LookupStep ==
    ASSUME StreamsInv, LookupLed, [Next]_vars
    PROVE  LookupLed'
  <1>1. reqs \in [Requests -> Req] /\ NONE \notin Requests
    BY StreamsAssumption DEF StreamsInv, StreamsType
  <1>2. ASSUME UNCHANGED <<lookup, reqs>>
        PROVE  LookupLed'
    BY <1>2, Zenon DEF LookupLed
  <1>3. ASSUME NEW r \in Requests, EnsureStream(r)
        PROVE  LookupLed'
    <2>1. PICK h : /\ Goto(r, h) /\ reqs[r].h = "ensure"
                   /\ \/ h = "create" /\ lookup' = lookup
                      \/ h = "wait" /\ lookup' = lookup /\ lookup # NONE
                      \/ h = "lookup" /\ lookup' = r /\ lookup = NONE
      BY <1>3, Zenon DEF EnsureStream
    <2>2. \A s \in Requests : reqs'[s].h = IF s = r THEN h ELSE reqs[s].h
      BY <1>1, <2>1 DEF Goto, Step, Req
    <2>3. \A s \in Requests : /\ reqs[s].h = "lookup" <=> lookup = s
                              /\ reqs[s].h = "wait" => lookup # NONE
      BY Zenon DEF LookupLed
    <2>4. ASSUME NEW s \in Requests
          PROVE  /\ reqs'[s].h = "lookup" <=> lookup' = s
                 /\ reqs'[s].h = "wait" => lookup' # NONE
      BY <1>1, <2>1, <2>2, <2>3
    <2>5. QED
      BY <2>4, Zenon DEF LookupLed
  <1>4. ASSUME NEW r \in Requests, NEW ok \in BOOLEAN, FetchStream(r, ok)
        PROVE  LookupLed'
    <2>1. lookup' = NONE /\ reqs[r].h = "lookup" /\ lookup = r
      BY <1>4, Zenon DEF FetchStream, LookupLed
    <2>2. ASSUME NEW s \in Requests
          PROVE  reqs'[s].h \notin {"lookup", "wait"}
      <3>1. CASE s = r
        BY <1>1, <1>4, <3>1 DEF FetchStream, Req
      <3>2. CASE s # r
        <4>1. reqs'[s] = Woken(reqs[s]) /\ reqs[s].h # "lookup" /\ reqs[s] \in Req
          BY <1>1, <1>4, <2>1, <3>2, Zenon DEF FetchStream, LookupLed
        <4>2. QED
          BY <4>1 DEF Woken, Req
      <3>3. QED
        BY <3>1, <3>2, Zenon
    <2>3. QED
      BY <1>1, <2>1, <2>2, Zenon DEF LookupLed
  <1>5. CASE ShutdownTimeout
    <2>1. lookup' = lookup
      BY <1>5, Zenon DEF ShutdownTimeout, source
    <2>2. ASSUME NEW s \in Requests
          PROVE  reqs'[s].h = reqs[s].h
      BY <1>1, <1>5, Zenon DEF ShutdownTimeout, Req
    <2>3. QED
      BY <2>1, <2>2, Zenon DEF LookupLed
  <1>6. CASE GroupNext /\ ~ShutdownTimeout
    <2>1. UNCHANGED <<lookup, reqs>>
      BY <1>6, Zenon DEF GroupNext, Signal, ListenFails, ServeFails, Shutdown, ShutdownDone,
           WorkerReturns, Sends, GroupReturns, streamVars
    <2>2. QED
      BY <1>2, <2>1
  <1>7. CASE Close \/ UNCHANGED vars
    BY <1>2, <1>7, Zenon DEF Close, vars, streamVars
  <1>8. QED
    BY <1>3, <1>4, <1>5, <1>6, <1>7, OthersKeepLookup, Zenon DEF Next, StreamsNext, Proceeds

\* ensureStream: at most one lookup runs, and a request waits only for one that is
\* in flight, for any number of requests and whichever lookups fail or are
\* cancelled (fetchStream's deferred release).
THEOREM LookupsAreLed == Spec => []LookupLed
  <1>1. Init => StreamsInv /\ LookupLed
    <2>1. ASSUME Init
          PROVE  LookupLed
      <3>1. lookup = NONE /\ \A r \in Requests : reqs[r].h = "new"
        BY <2>1 DEF Init, StreamsInit, NewSource, NewReq
      <3>2. QED
        BY <3>1, StreamsAssumption DEF LookupLed
    <2>2. QED
      BY <2>1, StreamsStart
  <1>2. StreamsInv /\ LookupLed /\ [Next]_vars => (StreamsInv /\ LookupLed)'
    BY StreamsStep, LookupStep
  <1>3. QED
    BY <1>1, <1>2, PTL DEF Spec

-----------------------------------------------------------------------------
\* What is sent, and where the first failure among it stands.  Until Group has
\* returned, failed is the error there; then every component has ended.
SentValues == {"nil", "canceled"} \cup Components
FirstAt(i) == i \in RealAt(errCh) /\ errCh[i] = failed /\ \A j \in RealAt(errCh) : i <= j

GroupInv ==
    /\ errCh \in Seq(SentValues) /\ failed \in Components \cup {NONE}
    /\ comps \in [Components -> {"run", "shutdown", "some", "ended"} \cup Outcomes]
    /\ returned = NONE /\ failed = NONE => RealAt(errCh) = {}
    /\ returned = NONE /\ failed # NONE => \E i \in DOMAIN errCh : FirstAt(i)
    /\ returned # NONE => \A c \in Components : comps[c] = "ended"
    /\ GroupReports

\* The loop over errCh finds the first error.
LEMMA FirstFinds ==
    ASSUME NEW i, FirstAt(i), errCh \in Seq(SentValues)
    PROVE  First(errCh) = failed
  <1>1. RealAt(errCh) \subseteq Nat /\ i \in RealAt(errCh)
    BY DEF RealAt, FirstAt
  <1> DEFINE n == CHOOSE k \in RealAt(errCh) : \A j \in RealAt(errCh) : k <= j
  <1>2. n \in RealAt(errCh) /\ \A j \in RealAt(errCh) : n <= j
    BY <1>1, Zenon DEF FirstAt
  <1>3. First(errCh) = errCh[n]
    BY <1>1 DEF First
  <1> HIDE DEF n
  <1>4. n <= i /\ i <= n
    BY <1>1, <1>2, Zenon DEF FirstAt
  <1>5. n = i
    BY <1>1, <1>2, <1>4
  <1>6. QED
    BY <1>3, <1>5, Zenon DEF FirstAt

\* A component's goroutine sends its outcome.
LEMMA SendKeeps ==
    ASSUME GroupInv, NEW c \in Components, Sends(c)
    PROVE  GroupInv'
  <1>1. PICK e \in Outcomes :
          /\ comps[c] \in {e, "some"}
          /\ errCh' = Append(errCh, IF e = "failed" THEN c ELSE e)
          /\ failed' = (IF e = "failed" /\ failed = NONE THEN c ELSE failed)
    BY Zenon DEF Sends
  <1>2. comps' = [comps EXCEPT ![c] = "ended"] /\ returned' = returned
    BY Zenon DEF Sends
  <1>3. returned = NONE /\ errCh \in Seq(SentValues) /\ Len(errCh) \in Nat
    BY <1>1 DEF GroupInv, Outcomes
  <1>4. PICK m \in SentValues : m = IF e = "failed" THEN c ELSE e
    BY Zenon DEF SentValues, Outcomes
  <1>5. Real(m) <=> e = "failed"
    BY <1>4, ServiceAssumption DEF Real, Outcomes, Components, Server
  <1>6. c # NONE
    BY ServiceAssumption DEF Components, Server
  <1>7. /\ errCh' \in Seq(SentValues) /\ Len(errCh') = Len(errCh) + 1 /\ errCh'[Len(errCh) + 1] = m
        /\ \A i \in 1..Len(errCh) : errCh'[i] = errCh[i]
    BY <1>1, <1>3, <1>4
  <1>8. RealAt(errCh') = IF e = "failed" THEN RealAt(errCh) \cup {Len(errCh) + 1} ELSE RealAt(errCh)
    <2>1. /\ DOMAIN errCh = 1..Len(errCh) /\ DOMAIN errCh' = 1..(Len(errCh) + 1)
      BY <1>3, <1>7
    <2>2. 1..(Len(errCh) + 1) = 1..Len(errCh) \cup {Len(errCh) + 1}
      BY <1>3
    <2>3. ASSUME NEW i
          PROVE  i \in RealAt(errCh') <=> (i \in RealAt(errCh) \/ (e = "failed" /\ i = Len(errCh) + 1))
      <3>1. Len(errCh) + 1 \notin 1..Len(errCh)
        BY <1>3
      <3>2. CASE i \in 1..Len(errCh)
        BY <1>7, <2>1, <2>2, <3>1, <3>2, Zenon DEF RealAt
      <3>3. CASE i = Len(errCh) + 1
        BY <1>5, <1>7, <2>1, <2>2, <3>1, <3>3, Zenon DEF RealAt
      <3>4. CASE i \notin 1..Len(errCh) /\ i # Len(errCh) + 1
        BY <2>1, <2>2, <3>4, Zenon DEF RealAt
      <3>5. QED
        BY <3>2, <3>3, <3>4, Zenon
    <2>4. QED
      BY <2>3, Zenon
  <1>9. failed' \in Components \cup {NONE} /\ (failed' = NONE => RealAt(errCh') = {})
    BY <1>1, <1>3, <1>6, <1>8, Zenon DEF GroupInv
  <1>10. ASSUME failed' # NONE
         PROVE  \E i \in DOMAIN errCh' : FirstAt(i)'
    <2>1. CASE failed = NONE
      <3>1. RealAt(errCh') = {Len(errCh) + 1} /\ failed' = m
        BY <1>1, <1>3, <1>4, <1>8, <1>10, <2>1, Zenon DEF GroupInv
      <3>2. Len(errCh) + 1 \in DOMAIN errCh' /\ Len(errCh) + 1 <= Len(errCh) + 1
        BY <1>3, <1>7
      <3>3. PICK i : i = Len(errCh) + 1
        BY Zenon
      <3>4. FirstAt(i)'
        BY <1>7, <3>1, <3>2, <3>3, Zenon DEF FirstAt
      <3>5. QED
        BY <3>2, <3>3, <3>4, Zenon
    <2>2. CASE failed # NONE
      <3>1. PICK i \in DOMAIN errCh : FirstAt(i)
        BY <1>3, <2>2, Zenon DEF GroupInv
      <3>2. i \in 1..Len(errCh) /\ i \in DOMAIN errCh' /\ i <= Len(errCh) + 1
        BY <1>3, <1>7, <3>1
      <3>3. failed' = failed /\ errCh'[i] = errCh[i]
        BY <1>1, <1>7, <2>2, <3>2, Zenon
      <3>4. FirstAt(i)'
        BY <1>8, <3>1, <3>2, <3>3, Zenon DEF FirstAt
      <3>5. QED
        BY <3>2, <3>4, Zenon
    <2>3. QED
      BY <2>1, <2>2, Zenon
  <1>11. comps' \in [Components -> {"run", "shutdown", "some", "ended"} \cup Outcomes]
    BY <1>2 DEF GroupInv
  <1>12. QED
    BY <1>2, <1>3, <1>7, <1>9, <1>10, <1>11, Zenon DEF GroupInv, GroupReports

LEMMA GroupStep ==
    ASSUME GroupInv, [Next]_vars
    PROVE  GroupInv'
  <1>1. ASSUME UNCHANGED <<comps, errCh, returned, failed>>
        PROVE  GroupInv'
    BY <1>1, Zenon DEF GroupInv, GroupReports, FirstAt, RealAt
  <1>2. ASSUME NEW c \in Components, NEW e \in {"shutdown", "some"} \cup Outcomes,
               comps[c] \in {"run", "shutdown"}, comps' = [comps EXCEPT ![c] = e],
               UNCHANGED <<errCh, returned, failed>>
        PROVE  GroupInv'
    BY <1>2, Zenon DEF GroupInv, GroupReports, FirstAt, RealAt
  <1>3. CASE \E c \in Workers : WorkerReturns(c)
    BY <1>2, <1>3, Zenon DEF WorkerReturns, Returns, Components
  <1>4. CASE ServeFails \/ Shutdown \/ ShutdownDone \/ ShutdownTimeout
    BY <1>2, <1>4, Zenon DEF ServeFails, Shutdown, ShutdownDone, ShutdownTimeout, Returns,
         Components, Outcomes
  <1>5. CASE GroupReturns
    <2>1. returned = NONE /\ returned' = First(errCh) /\ errCh' = <<>>
          /\ UNCHANGED <<comps, failed>> /\ \A c \in Components : comps[c] = "ended"
      BY <1>5, Zenon DEF GroupReturns
    <2>2. First(errCh) = IF failed = NONE THEN "nil" ELSE failed
      <3>1. CASE failed = NONE
        BY <2>1, <3>1, Zenon DEF GroupInv, First
      <3>2. CASE failed # NONE
        BY <2>1, <3>2, FirstFinds, Zenon DEF GroupInv
      <3>3. QED
        BY <3>1, <3>2, Zenon
    <2>3. returned' # NONE
      BY <2>1, <2>2, ServiceAssumption, Zenon
    <2>4. errCh' \in Seq(SentValues)
      BY <2>1
    <2>5. QED
      BY <2>1, <2>2, <2>3, <2>4, Zenon DEF GroupInv, GroupReports
  <1>6. CASE UNCHANGED vars
    BY <1>1, <1>6, Zenon DEF vars, groupVars
  <1>7. CASE Signal \/ ListenFails
    BY <1>1, <1>7, Zenon DEF Signal, ListenFails, groupVars
  <1>8. CASE UNCHANGED groupVars
    BY <1>1, <1>8 DEF groupVars
  <1>9. QED
    BY <1>3, <1>4, <1>5, <1>6, <1>7, <1>8, SendKeeps DEF Next, GroupNext

\* Group returns the failure that was sent first, and nil exactly when no component
\* failed for a reason of its own, for any number of components and every order in
\* which they return and send (the loop over errCh, after wg.Wait).
THEOREM FailuresAreReported == Spec => []GroupReports
  <1>1. ASSUME Init
        PROVE  GroupInv
    <2>1. errCh = <<>> /\ returned = NONE /\ failed = NONE
      BY <1>1, Zenon DEF Init
    <2>2. errCh \in Seq(SentValues) /\ RealAt(errCh) = {}
      BY <2>1 DEF RealAt
    <2>3. comps \in [Components -> {"run", "shutdown", "some", "ended"} \cup Outcomes]
      BY <1>1 DEF Init
    <2>4. QED
      BY <2>1, <2>2, <2>3, Zenon DEF GroupInv, GroupReports
  <1>2. GroupInv /\ [Next]_vars => GroupInv'
    BY GroupStep
  <1>3. GroupInv => GroupReports
    BY Zenon DEF GroupInv
  <1>4. QED
    BY <1>1, <1>2, <1>3, PTL DEF Spec

-----------------------------------------------------------------------------
\* The ring is sorted when there is a Less.
SortedRing(r) == \A i, j \in DOMAIN r : i < j => ~newer(r[j], r[i])

\* The records in the ring and in hand were read from this stream or an earlier
\* one, and only a subscription that is open has a consumer or a message.
ReadInv ==
    /\ config.less => SortedRing(ring)
    /\ \A i \in DOMAIN ring : ring[i].epoch <= epoch /\ keep(ring[i])
    /\ lastSeq = 0 => ring = <<>>
    /\ cons # 0 \/ hand # Nothing => pc = "ingest"
    /\ hand # Nothing => hand.epoch <= epoch /\ hand.seq > 0
    /\ hand # Nothing /\ hand.epoch = epoch => hand.seq <= Len(log) /\ hand = At(hand.seq)
    /\ hand # Nothing /\ cons # 0 => hand.epoch = epoch /\ hand.seq < cons

\* Does the ring hold anything of the stream that is there?
Current == epoch = 0 \/ \E i \in DOMAIN ring : ring[i].epoch = epoch

\* Then lastSeq is a sequence of this stream, and all that is to come is later.
ResumeInv ==
    Current =>
        /\ lastSeq <= Len(log)
        /\ pc = "create" => infoEpoch = epoch /\ lastSeq <= infoLast
        /\ cons # 0 => lastSeq < cons
        /\ hand # Nothing => hand.epoch = epoch /\ lastSeq < hand.seq

\* The first stream: what the ring holds and what is still to come.
Ordered ==
    /\ \A i \in DOMAIN ring : ring[i].seq \in 1..lastSeq /\ ring[i] = At(ring[i].seq)
    /\ \A i, j \in DOMAIN ring : i < j => Before(ring[i], ring[j])

NoGap ==
    /\ cons <= Len(log) + 1
    /\ pc = "create" => infoLast <= Len(log)
    /\ \A s \in match : base <= s /\ lastSeq < s /\ keep(At(s)) =>
         /\ hand # Nothing => hand.seq <= s
         /\ cons # 0 => cons <= s \/ (hand # Nothing /\ s = hand.seq)

TrackerInv ==
    /\ TrackerTypeOK /\ ReadInv /\ ResumeInv
    /\ epoch = 0 => Ordered /\ NoGap /\ NothingSkipped

-----------------------------------------------------------------------------
\* In a sorted ring the entries v is not newer than come first.
LEMMA PlaceFits ==
    ASSUME NEW r \in Seq(Record), NEW v \in Record,
           config.less => SortedRing(r), \A i \in DOMAIN r : keep(r[i]), keep(v)
    PROVE  /\ place(r, v) \in 0..Len(r)
           /\ config.less => \A i \in DOMAIN r : i <= place(r, v) <=> ~newer(v, r[i])
           /\ ~config.less => place(r, v) = 0
  <1>1. Len(r) \in Nat /\ DOMAIN r = 1..Len(r)
    OBVIOUS
  <1>2. CASE ~config.less
    BY <1>1, <1>2 DEF place
  <1>3. CASE config.less
    <2> DEFINE Splits(p) == \A i \in DOMAIN r : i <= p <=> ~newer(v, r[i])
    <2>1. \E p \in 0..Len(r) : Splits(p)
      <3> DEFINE After == {i \in 1..Len(r) : newer(v, r[i])}
      <3>1. CASE After = {}
        BY <1>1, <3>1
      <3>2. CASE After # {}
        <4>1. PICK m \in After : \A i \in After : m <= i
          <5>1. After \in SUBSET Nat /\ After # {}
            BY <1>1, <3>2
          <5> HIDE DEF After
          <5>2. IsWellFoundedOn(OpToRel(<, Nat), Nat)
            BY NatLessThanWellFounded, Zenon
          <5>3. PICK m \in After : \A i \in Nat : <<i, m>> \in OpToRel(<, Nat) => i \notin After
            BY <5>1, <5>2, WFMin, ZenonT(30)
          <5>4. \A i \in After : m <= i
            <6> SUFFICES ASSUME NEW i \in After PROVE m <= i
              BY Zenon
            <6>1. i \in Nat /\ m \in Nat
              BY <5>1
            <6>2. ~(i < m)
              BY <5>3, <6>1, Zenon DEF OpToRel
            <6>3. QED
              BY <6>1, <6>2
          <5>5. QED
            BY <5>4, Zenon
        <4>2. m \in 1..Len(r) /\ newer(v, r[m])
          BY Zenon
        <4>3. ASSUME NEW i \in 1..Len(r)
              PROVE  i <= m - 1 <=> ~newer(v, r[i])
          <5>1. CASE i < m
            BY <1>1, <4>1, <4>2, <5>1
          <5>2. CASE i = m
            BY <1>1, <4>2, <5>2
          <5>3. CASE m < i
            <6>1. ~newer(r[i], r[m])
              BY <1>1, <1>3, <4>2, <5>3, Zenon DEF SortedRing
            <6>2. newer(v, r[i])
              BY <1>1, <4>2, <6>1, Zenon DEF newer, keep
            <6>3. QED
              BY <1>1, <4>2, <5>3, <6>2
          <5>4. QED
            BY <1>1, <4>2, <5>1, <5>2, <5>3
        <4>4. m - 1 \in 0..Len(r)
          BY <1>1, <4>2
        <4> HIDE DEF After
        <4>5. QED
          BY <1>1, <4>3, <4>4, Zenon
      <3>3. QED
        BY <3>1, <3>2
    <2>2. place(r, v) = CHOOSE p \in 0..Len(r) : Splits(p)
      BY <1>3 DEF place
    <2> HIDE DEF Splits
    <2>3. place(r, v) \in 0..Len(r) /\ Splits(place(r, v))
      BY <2>1, <2>2, Zenon
    <2>4. QED
      BY <1>3, <2>3, Zenon DEF Splits
  <1>4. QED
    BY <1>2, <1>3

\* insert: v goes to its place, and only the last entry of a full ring is lost.
LEMMA InsertFits ==
    ASSUME NEW r \in Seq(Record), Len(r) <= MaxEvents, NEW v \in Record,
           NEW p \in 0..Len(r), p = place(r, v)
    PROVE  /\ insert(r, v) \in Seq(Record)
           /\ Len(insert(r, v)) = IF Len(r) < MaxEvents THEN Len(r) + 1 ELSE MaxEvents
           /\ DOMAIN insert(r, v) = 1..Len(insert(r, v))
           /\ \A i \in DOMAIN insert(r, v) :
                /\ i <= p => i \in DOMAIN r /\ insert(r, v)[i] = r[i]
                /\ i = p + 1 => insert(r, v)[i] = v
                /\ i > p + 1 => i - 1 \in DOMAIN r /\ insert(r, v)[i] = r[i - 1]
  <1>1. PICK len \in Nat : len = IF Len(r) < MaxEvents THEN Len(r) + 1 ELSE MaxEvents
    BY TrackerAssumption
  <1>2. /\ Len(r) \in Nat /\ DOMAIN r = 1..Len(r) /\ MaxEvents \in Nat
        /\ len <= Len(r) + 1 /\ \A i \in 1..Len(r) : r[i] \in Record
    BY <1>1, TrackerAssumption
  <1> DEFINE q == [i \in 1..len |-> IF i <= p THEN r[i] ELSE IF i = p + 1 THEN v ELSE r[i - 1]]
  <1>3. insert(r, v) = q
    BY <1>1, Zenon DEF insert
  <1>4. ASSUME NEW i \in 1..len
        PROVE  /\ i <= p => i \in 1..Len(r) /\ q[i] = r[i]
               /\ i = p + 1 => q[i] = v
               /\ i > p + 1 => i - 1 \in 1..Len(r) /\ q[i] = r[i - 1]
    BY <1>2, <1>4
  <1>5. \A i \in 1..len : q[i] \in Record
    BY <1>2, <1>4
  <1>6. q \in [1..len -> Record]
    BY <1>5, Zenon
  <1> HIDE DEF q
  <1>7. q \in Seq(Record) /\ DOMAIN q = 1..len
    BY <1>1, <1>6
  <1>8. Len(q) = len
    BY <1>1, <1>7, SMTT(20)
  <1>9. QED
    BY <1>1, <1>2, <1>3, <1>4, <1>7, <1>8, Zenon

\* What insert does to a ring: the new one is of the old entries and v, sorted if
\* the old one was, and an entry is missing only where the ring is full of others
\* that are not older.
LEMMA InsertKeeps ==
    ASSUME NEW r \in Seq(Record), Len(r) <= MaxEvents, NEW v \in Record,
           config.less => SortedRing(r), \A i \in DOMAIN r : keep(r[i]), keep(v)
    PROVE  LET q == insert(r, v) IN
           /\ q \in Seq(Record) /\ Len(q) <= MaxEvents /\ q # <<>>
           /\ \A i \in DOMAIN q : q[i] = v \/ \E j \in DOMAIN r : q[i] = r[j]
           /\ config.less => SortedRing(q)
           /\ \A i \in DOMAIN r : (\E j \in DOMAIN q : q[j] = r[i]) \/ Len(q) = MaxEvents
           /\ Len(r) = MaxEvents => Len(q) = MaxEvents
  <1>1. PICK p \in 0..Len(r) : p = place(r, v)
    BY PlaceFits, Zenon
  <1>2. PICK q : q = insert(r, v)
    OBVIOUS
  <1>3. PICK len \in Nat : len = IF Len(r) < MaxEvents THEN Len(r) + 1 ELSE MaxEvents
    BY TrackerAssumption
  <1>4. Len(r) \in Nat /\ DOMAIN r = 1..Len(r) /\ MaxEvents \in Nat \ {0}
    BY TrackerAssumption
  <1>5. /\ q \in Seq(Record) /\ Len(q) = len /\ DOMAIN q = 1..len
        /\ \A i \in 1..len : /\ i <= p => i \in DOMAIN r /\ q[i] = r[i]
                             /\ i = p + 1 => q[i] = v
                             /\ i > p + 1 => i - 1 \in DOMAIN r /\ q[i] = r[i - 1]
    BY <1>1, <1>2, <1>3, InsertFits
  <1>6. config.less => \A i \in DOMAIN r : i <= p <=> ~newer(v, r[i])
    BY <1>1, PlaceFits, Zenon
  <1>7. Len(q) <= MaxEvents /\ q # <<>> /\ (Len(r) = MaxEvents => Len(q) = MaxEvents)
    <2>1. 1 <= len /\ len <= MaxEvents
      BY <1>3, <1>4
    <2>2. Len(r) = MaxEvents => len = MaxEvents
      BY <1>3, <1>4
    <2>3. Len(q) = len /\ q # <<>>
      BY <1>5, <2>1
    <2>4. QED
      BY <2>1, <2>2, <2>3, Zenon
  <1>8. \A i \in 1..len : q[i] = v \/ \E j \in DOMAIN r : q[i] = r[j]
    <2>1. ASSUME NEW i \in 1..len
          PROVE  i <= p \/ i = p + 1 \/ i > p + 1
      OBVIOUS
    <2>2. QED
      BY <1>5, <2>1
  <1>9. ASSUME config.less, NEW i \in 1..len, NEW j \in 1..len, i < j
        PROVE  ~newer(q[j], q[i])
    <2>1. \A k, l \in DOMAIN r : k < l => ~newer(r[l], r[k])
      BY <1>9, Zenon DEF SortedRing
    <2>2. CASE j <= p
      BY <1>5, <1>9, <2>1, <2>2
    <2>3. CASE i > p + 1
      BY <1>5, <1>9, <2>1, <2>3
    <2>4. CASE i <= p /\ j > p + 1
      BY <1>5, <1>9, <2>1, <2>4
    <2>5. CASE i <= p /\ j = p + 1
      BY <1>5, <1>6, <1>9, <2>5, Zenon
    <2>6. CASE i = p + 1 /\ j > p + 1
      <3>1. j - 1 \in DOMAIN r /\ q[j] = r[j - 1] /\ q[i] = v /\ ~(j - 1 <= p)
        BY <1>5, <2>6
      <3>2. newer(v, r[j - 1])
        BY <1>6, <1>9, <3>1, Zenon
      <3>3. QED
        BY <3>1, <3>2, Zenon DEF newer
    <2>7. QED
      BY <1>9, <2>2, <2>3, <2>4, <2>5, <2>6
  <1>10. ASSUME NEW i \in DOMAIN r, len # MaxEvents
         PROVE  \E j \in 1..len : q[j] = r[i]
    <2>1. len = Len(r) + 1 /\ i \in 1..Len(r)
      BY <1>3, <1>4, <1>10, Zenon
    <2>2. CASE i <= p
      BY <1>5, <2>1, <2>2
    <2>3. CASE i > p
      <3>1. i + 1 \in 1..len /\ i + 1 > p + 1 /\ (i + 1) - 1 = i
        BY <2>1, <2>3
      <3>2. QED
        BY <1>5, <3>1, Zenon
    <2>4. QED
      BY <2>1, <2>2, <2>3
  <1>11. QED
    BY <1>2, <1>5, <1>7, <1>8, <1>9, <1>10 DEF SortedRing

\* Before is a strict order of events.
LEMMA BeforeOrders ==
    ASSUME NEW a \in Record, NEW b \in Record, NEW c \in Record,
           keep(a), keep(b), keep(c), Before(a, b), Before(b, c)
    PROVE  Before(a, c)
  <1>1. a.seq \in Nat /\ b.seq \in Nat /\ c.seq \in Nat
    BY Zenon DEF Record
  <1>2. CASE config.less
    <2>1. /\ newer(a, b) \/ (~newer(b, a) /\ a.seq < b.seq)
          /\ newer(b, c) \/ (~newer(c, b) /\ b.seq < c.seq)
      BY <1>2, Zenon DEF Before
    <2>2. newer(a, c) \/ (~newer(c, a) /\ a.seq < c.seq)
      BY <1>1, <2>1 DEF newer, keep
    <2>3. QED
      BY <1>2, <2>2, Zenon DEF Before
  <1>3. CASE ~config.less
    BY <1>1, <1>3 DEF Before
  <1>4. QED
    BY <1>2, <1>3, Zenon

\* A ring that does not change stays in order.
LEMMA OrderStays ==
    ASSUME UNCHANGED <<ring, config>>, \A i, j \in DOMAIN ring : i < j => Before(ring[i], ring[j])
    PROVE  (\A i, j \in DOMAIN ring : i < j => Before(ring[i], ring[j]))'
  <1>1. ASSUME NEW i \in DOMAIN ring, NEW j \in DOMAIN ring, i < j
        PROVE  Before(ring[i], ring[j])'
    <2>1. Before(ring[i], ring[j])
      BY <1>1, Zenon
    <2>2. QED
      BY <2>1 DEF Before, newer
  <1>2. QED
    BY <1>1, Zenon

\* insert of the latest arrival: what it puts after v comes after v, what it leaves
\* before v comes before v.
LEMMA PlaceSplits ==
    ASSUME NEW r \in Seq(Record), NEW v \in Record,
           config.less => SortedRing(r), \A i \in DOMAIN r : keep(r[i]), keep(v),
           \A i \in DOMAIN r : r[i].seq < v.seq
    PROVE  /\ \A i \in DOMAIN r : i <= place(r, v) => Before(r[i], v)
           /\ \A i \in DOMAIN r : ~(i <= place(r, v)) => Before(v, r[i])
  <1>1. CASE config.less
    BY <1>1, PlaceFits, Zenon DEF Before
  <1>2. CASE ~config.less
    <2>1. place(r, v) = 0 /\ \A i \in DOMAIN r : ~(i <= 0)
      BY <1>2, PlaceFits
    <2>2. \A i \in DOMAIN r : v.seq > r[i].seq
      <3>1. \A i \in DOMAIN r : r[i] \in Record
        OBVIOUS
      <3>2. QED
        BY <3>1, Zenon DEF Record
    <2>3. QED
      BY <1>2, <2>1, <2>2, Zenon DEF Before
  <1>3. QED
    BY <1>1, <1>2, Zenon

\* The ring stays in order, and an event that falls out of it, is not taken in or
\* was cut before comes after all that it holds.
LEMMA OrderKeeps ==
    ASSUME NEW r \in Seq(Record), Len(r) <= MaxEvents, NEW v \in Record,
           config.less => SortedRing(r), \A i \in DOMAIN r : keep(r[i]), keep(v),
           \A i \in DOMAIN r : r[i].seq < v.seq,
           \A i, j \in DOMAIN r : i < j => Before(r[i], r[j])
    PROVE  LET q == insert(r, v) IN
           /\ \A i, j \in DOMAIN q : i < j => Before(q[i], q[j])
           /\ \A e \in Record :
                keep(e) /\ (\/ e = v
                            \/ \E i \in DOMAIN r : r[i] = e
                            \/ Len(r) = MaxEvents /\ \A i \in DOMAIN r : Before(r[i], e))
                => (\/ \E j \in DOMAIN q : q[j] = e
                    \/ Len(q) = MaxEvents /\ \A j \in DOMAIN q : Before(q[j], e))
  <1>1. PICK p \in 0..Len(r) : p = place(r, v)
    BY PlaceFits, Zenon
  <1>2. PICK q : q = insert(r, v)
    BY Zenon
  <1>3. PICK len \in Nat : len = IF Len(r) < MaxEvents THEN Len(r) + 1 ELSE MaxEvents
    BY TrackerAssumption
  <1>4. Len(r) \in Nat /\ DOMAIN r = 1..Len(r) /\ MaxEvents \in Nat \ {0}
    BY TrackerAssumption
  <1>5. /\ q \in Seq(Record) /\ Len(q) = len /\ DOMAIN q = 1..len
        /\ \A i \in 1..len : /\ i <= p => i \in DOMAIN r /\ q[i] = r[i]
                             /\ i = p + 1 => q[i] = v
                             /\ i > p + 1 => i - 1 \in DOMAIN r /\ q[i] = r[i - 1]
    BY <1>1, <1>2, <1>3, InsertFits
  <1>6. /\ \A i \in DOMAIN r : i <= p => Before(r[i], v)
        /\ \A i \in DOMAIN r : ~(i <= p) => Before(v, r[i])
    BY <1>1, PlaceSplits, Zenon
  <1>7. ASSUME NEW i \in 1..len, NEW j \in 1..len, i < j
        PROVE  Before(q[i], q[j])
    <2>1. CASE j <= p
      BY <1>5, <1>7, <2>1
    <2>2. CASE i > p + 1
      BY <1>5, <1>7, <2>2
    <2>3. CASE i <= p /\ j > p + 1
      BY <1>5, <1>7, <2>3
    <2>4. CASE i <= p /\ j = p + 1
      BY <1>5, <1>6, <2>4, Zenon
    <2>5. CASE i = p + 1 /\ j > p + 1
      <3>1. j - 1 \in DOMAIN r /\ q[j] = r[j - 1] /\ q[i] = v /\ ~(j - 1 <= p)
        BY <1>5, <2>5
      <3>2. QED
        BY <1>6, <3>1, Zenon
    <2>6. QED
      BY <1>7, <2>1, <2>2, <2>3, <2>4, <2>5, SMTT(20)
  <1>8. ASSUME NEW e \in Record, keep(e),
               \/ e = v
               \/ \E i \in DOMAIN r : r[i] = e
               \/ Len(r) = MaxEvents /\ \A i \in DOMAIN r : Before(r[i], e)
        PROVE  \/ \E j \in 1..len : q[j] = e
               \/ len = MaxEvents /\ \A j \in 1..len : Before(q[j], e)
    <2>1. CASE p = MaxEvents
      <3>1. len = MaxEvents /\ Len(r) = MaxEvents /\ \A i \in 1..len : i <= p
        BY <1>3, <1>4, <2>1, SMTT(20)
      <3>2. 1..len = DOMAIN r /\ \A i \in 1..len : q[i] = r[i] /\ Before(q[i], v)
        BY <1>4, <1>5, <1>6, <3>1, Zenon
      <3>3. QED
        BY <1>8, <3>1, <3>2, Zenon
    <2>2. CASE p # MaxEvents
      <3>1. p + 1 \in 1..len /\ q[p + 1] = v
        BY <1>3, <1>4, <1>5, <2>2, SMTT(20)
      <3>2. CASE e = v
        BY <3>1, <3>2, Zenon
      <3>3. ASSUME NEW i \in DOMAIN r, r[i] = e
            PROVE  \/ \E j \in 1..len : q[j] = e
                   \/ len = MaxEvents /\ \A j \in 1..len : Before(q[j], e)
        <4>1. CASE i <= p
          BY <1>4, <1>5, <3>1, <3>3, <4>1
        <4>2. CASE i > p /\ i + 1 <= len
          <5>1. i + 1 \in 1..len /\ i + 1 > p + 1 /\ (i + 1) - 1 = i
            BY <1>4, <4>2
          <5>2. QED
            BY <1>5, <3>3, <5>1, Zenon
        <4>3. CASE i > p /\ i + 1 > len
          <5>1. i = len /\ len = MaxEvents /\ i = Len(r) /\ ~(i <= p)
            BY <1>3, <1>4, <4>3
          <5>2. ASSUME NEW j \in 1..len
                PROVE  Before(q[j], e)
            <6>1. CASE j <= p
              <7>1. j \in DOMAIN r /\ q[j] = r[j] /\ j < i
                BY <1>5, <4>3, <5>1, <6>1
              <7>2. QED
                BY <3>3, <7>1, Zenon
            <6>2. CASE j = p + 1
              BY <1>6, <3>1, <3>3, <5>1, <6>2, Zenon
            <6>3. CASE j > p + 1
              <7>1. j - 1 \in DOMAIN r /\ j - 1 < i /\ q[j] = r[j - 1]
                BY <1>5, <5>1, <6>3
              <7>2. QED
                BY <3>3, <7>1, Zenon
            <6>4. QED
              BY <6>1, <6>2, <6>3
          <5>3. QED
            BY <5>1, <5>2, Zenon
        <4>4. QED
          BY <1>4, <4>1, <4>2, <4>3
      <3>4. ASSUME Len(r) = MaxEvents, \A i \in DOMAIN r : Before(r[i], e)
            PROVE  len = MaxEvents /\ \A j \in 1..len : Before(q[j], e)
        <4>1. len = MaxEvents /\ p + 1 \in DOMAIN r /\ ~(p + 1 <= p)
          BY <1>3, <1>4, <2>2, <3>4
        <4>2. r[p + 1] \in Record /\ keep(r[p + 1])
          BY <4>1
        <4>3. Before(v, e)
          <5>1. Before(v, r[p + 1]) /\ Before(r[p + 1], e)
            BY <1>6, <3>4, <4>1, Zenon
          <5>2. QED
            BY <1>8, <4>2, <5>1, BeforeOrders, Zenon
        <4>4. ASSUME NEW j \in 1..len
              PROVE  Before(q[j], e)
          <5>1. CASE j = p + 1
            BY <3>1, <4>3, <5>1, Zenon
          <5>2. CASE j # p + 1
            BY <1>5, <3>4, <5>2
          <5>3. QED
            BY <5>1, <5>2
        <4>5. QED
          BY <4>1, <4>4, Zenon
      <3>5. QED
        BY <1>8, <3>2, <3>3, <3>4, Zenon
    <2>3. QED
      BY <2>1, <2>2, Zenon
  <1>9. QED
    BY <1>2, <1>5, <1>7, <1>8, Zenon

-----------------------------------------------------------------------------
\* The steps that leave the records, the ring and lastSeq alone: a subscription
\* ends or is asked for, records expire.
LEMMA QuietKeeps ==
    ASSUME TrackerInv,
           UNCHANGED <<log, epoch, published, lastSeq, ring, base, config>>,
           first' \in first..(Len(log) + 1), cons' \in {cons, 0},
           hand' = hand \/ (hand' = Nothing /\ cons' = 0),
           drops' \in Nat, ctx' \in BOOLEAN, infoLast' \in Nat, infoEpoch' \in Nat,
           pc' \in {"subscribe", "create", "ingest", "wait", "done"},
           pc' = "ingest" \/ (cons' = 0 /\ hand' = Nothing),
           pc' = "create" => \/ infoLast' = Len(log) /\ infoEpoch' = epoch
                             \/ pc = "create" /\ UNCHANGED <<infoLast, infoEpoch>>
    PROVE  TrackerInv'
  <1>1. /\ TrackerTypeOK /\ ReadInv /\ ResumeInv
        /\ Len(log) \in Nat /\ first \in Nat \ {0} /\ lastSeq \in Nat /\ base \in Nat
    BY DEF TrackerInv, TrackerTypeOK
  <1>2. TrackerTypeOK'
    <2>1. first' \in 1..(Len(log) + 1)
      BY <1>1 DEF TrackerTypeOK
    <2>2. QED
      BY <1>1, <2>1 DEF TrackerTypeOK
  <1>3. \A s : At(s)' = At(s)
    BY Zenon DEF At
  <1>4. match' \subseteq match
    BY <1>1 DEF match
  <1>5. ReadInv'
    BY <1>1, Zenon DEF ReadInv, SortedRing, newer, At, keep
  <1>6. ResumeInv'
    BY <1>1, Zenon DEF ResumeInv, Current
  <1>7. ASSUME epoch = 0
        PROVE  Ordered' /\ NoGap' /\ NothingSkipped'
    <2>1. Ordered /\ NoGap /\ NothingSkipped
      BY <1>7, Zenon DEF TrackerInv
    <2>2. Ordered'
      BY <2>1, OrderStays, Zenon DEF Ordered, At
    <2>3. NoGap'
      <3>1. cons' <= Len(log) + 1 /\ (pc' = "create" => infoLast' <= Len(log))
        BY <1>1, <2>1 DEF NoGap
      <3>2. ASSUME NEW s \in match', base <= s, lastSeq < s, keep(At(s))
            PROVE  /\ hand' # Nothing => hand'.seq <= s
                   /\ cons' # 0 => cons' <= s \/ (hand' # Nothing /\ s = hand'.seq)
        <4>1. /\ hand # Nothing => hand.seq <= s
              /\ cons # 0 => cons <= s \/ (hand # Nothing /\ s = hand.seq)
          BY <1>4, <2>1, <3>2, Zenon DEF NoGap
        <4>2. QED
          BY <4>1
      <3>3. QED
        BY <1>3, <3>1, <3>2, Zenon DEF NoGap, keep
    <2>4. NothingSkipped'
      BY <1>4, <1>7, <2>1, Zenon DEF NothingSkipped, Held, keep, Before, newer, At
    <2>5. QED
      BY <2>2, <2>3, <2>4
  <1>8. QED
    BY <1>2, <1>5, <1>6, <1>7, Zenon DEF TrackerInv

\* A record is published.
LEMMA PublishKeeps ==
    ASSUME TrackerInv, NEW k \in Kinds, Publish(k)
    PROVE  TrackerInv'
  <1>1. /\ TrackerTypeOK /\ ReadInv /\ ResumeInv /\ log \in Seq(Kinds)
        /\ Len(log) \in Nat /\ first \in Nat \ {0} /\ lastSeq \in Nat /\ base \in Nat /\ cons \in Nat
    BY DEF TrackerInv, TrackerTypeOK
  <1>2. /\ log' = Append(log, k) /\ published' = published + 1
        /\ UNCHANGED <<first, epoch, drops, config, ctx, pc, lastSeq, ring, infoLast, infoEpoch, base, cons, hand>>
    BY Zenon DEF Publish, run
  <1>3. /\ log' \in Seq(Kinds) /\ Len(log') = Len(log) + 1
        /\ \A s \in 1..Len(log) : log'[s] = log[s]
    BY <1>1, <1>2
  <1>4. TrackerTypeOK'
    BY <1>1, <1>2, <1>3 DEF TrackerTypeOK
  <1>5. \A s \in 1..Len(log) : At(s)' = At(s)
    BY <1>2, <1>3, Zenon DEF At
  <1>6. ReadInv'
    <2>1. ASSUME hand # Nothing, hand.epoch = epoch
          PROVE  hand.seq <= Len(log') /\ hand = At(hand.seq)'
      <3>1. PICK h \in Record : h = hand
        BY <1>1, <2>1, Zenon DEF TrackerTypeOK
      <3>2. h.seq \in 1..Len(log) /\ h = At(h.seq)
        BY <1>1, <2>1, <3>1 DEF ReadInv, Record
      <3>3. h = At(h.seq)'
        BY <1>5, <3>2, Zenon
      <3>4. hand = At(hand.seq)'
        BY <1>2, <3>1, <3>3, Zenon DEF At
      <3>5. QED
        BY <1>1, <1>3, <3>1, <3>2, <3>4
    <2>2. QED
      BY <1>1, <1>2, <2>1, Zenon DEF ReadInv, SortedRing, newer, keep
  <1>7. ResumeInv'
    <2>1. lastSeq <= Len(log) => lastSeq <= Len(log')
      BY <1>1, <1>3
    <2>2. QED
      BY <1>1, <1>2, <2>1, Zenon DEF ResumeInv, Current
  <1>8. ASSUME epoch = 0
        PROVE  Ordered' /\ NoGap' /\ NothingSkipped'
    <2>1. Ordered /\ NoGap /\ NothingSkipped /\ lastSeq <= Len(log)
      BY <1>1, <1>8, Zenon DEF TrackerInv, ResumeInv, Current
    <2>2. match' \subseteq match \cup {Len(log) + 1}
      BY <1>1, <1>2, <1>3 DEF match
    <2>3. Ordered'
      <3>1. ASSUME NEW i \in DOMAIN ring
            PROVE  ring[i] = At(ring[i].seq)' /\ ring[i].seq \in 1..lastSeq
        <4>1. PICK e : e = ring[i]
          OBVIOUS
        <4>2. e.seq \in 1..lastSeq /\ e = At(e.seq)
          BY <2>1, <4>1, Zenon DEF Ordered
        <4>3. e = At(e.seq)'
          BY <1>1, <1>5, <2>1, <4>2
        <4>4. QED
          BY <1>2, <4>1, <4>2, <4>3, Zenon DEF At
      <3>2. ASSUME NEW i \in DOMAIN ring'
            PROVE  (ring[i].seq \in 1..lastSeq /\ ring[i] = At(ring[i].seq))'
        BY <1>2, <3>1, Zenon DEF At
      <3>3. (\A i, j \in DOMAIN ring : i < j => Before(ring[i], ring[j]))'
        BY <1>2, <2>1, OrderStays, Zenon DEF Ordered
      <3>4. QED
        BY <3>2, <3>3, Zenon DEF Ordered
    <2>4. NoGap'
      <3>1. ASSUME hand # Nothing
            PROVE  hand.seq \in Nat /\ hand.seq <= Len(log)
        BY <1>1, <1>8, <3>1, Zenon DEF ReadInv, ResumeInv, Current, TrackerTypeOK, Record
      <3>2. ASSUME NEW s \in match', base <= s, lastSeq < s, keep(At(s)')
            PROVE  /\ hand # Nothing => hand.seq <= s
                   /\ cons # 0 => cons <= s \/ (hand # Nothing /\ s = hand.seq)
        <4>1. CASE s \in match
          <5>1. keep(At(s))
            <6>1. s \in 1..Len(log)
              BY <1>1, <4>1 DEF match
            <6>2. QED
              BY <1>5, <3>2, <6>1, Zenon
          <5>2. QED
            BY <2>1, <3>2, <4>1, <5>1, Zenon DEF NoGap
        <4>2. CASE s = Len(log) + 1
          BY <1>1, <2>1, <3>1, <4>2 DEF NoGap
        <4>3. QED
          BY <2>2, <4>1, <4>2, Zenon
      <3>3. cons <= Len(log') + 1
        BY <1>1, <1>3, <2>1 DEF NoGap
      <3>4. pc = "create" => infoLast <= Len(log')
        BY <1>1, <1>3, <2>1 DEF NoGap, TrackerTypeOK
      <3>5. QED
        BY <1>2, <3>2, <3>3, <3>4, Zenon DEF NoGap, keep, At
    <2>5. NothingSkipped'
      <3>1. ASSUME NEW s \in match', base <= s, s <= lastSeq, keep(At(s)')
            PROVE  \/ \E i \in DOMAIN ring : ring[i] = At(s)'
                   \/ Len(ring) = MaxEvents /\ \A i \in DOMAIN ring : Before(ring[i], At(s)')
        <4>1. s \in match /\ s \in 1..Len(log)
          BY <1>1, <2>1, <2>2, <3>1 DEF match
        <4>2. At(s)' = At(s)
          BY <1>5, <4>1
        <4>3. keep(At(s))
          BY <3>1, <4>2, Zenon
        <4>4. QED
          BY <1>8, <2>1, <3>1, <4>1, <4>2, <4>3, Zenon DEF NothingSkipped, Held
      <3>2. QED
        BY <1>2, <3>1, Zenon DEF NothingSkipped, Held, keep, Before, newer, At
    <2>6. QED
      BY <2>3, <2>4, <2>5, Zenon
  <1>9. QED
    BY <1>2, <1>4, <1>6, <1>7, <1>8, Zenon DEF TrackerInv

\* The stream is recreated: nothing of the new one has been read.
LEMMA RecreateKeeps ==
    ASSUME TrackerInv, Recreate
    PROVE  TrackerInv'
  <1>1. TrackerTypeOK /\ ReadInv /\ epoch \in Nat /\ ring \in Seq(Record)
    BY Zenon DEF TrackerInv, TrackerTypeOK
  <1>2. /\ log' = <<>> /\ first' = 1 /\ epoch' = epoch + 1 /\ cons' = 0
        /\ UNCHANGED <<published, drops, config, ctx, pc, lastSeq, ring, infoLast, infoEpoch, base, hand>>
    BY Zenon DEF Recreate, run
  <1>3. log' \in Seq(Kinds) /\ Len(log') = 0
    BY <1>2
  <1>4. TrackerTypeOK'
    BY <1>1, <1>2, <1>3 DEF TrackerTypeOK
  <1>5. /\ \A i \in DOMAIN ring : ring[i].epoch \in Nat /\ ring[i].epoch <= epoch
        /\ hand # Nothing => hand.epoch \in Nat /\ hand.epoch <= epoch
    <2>1. \A i \in DOMAIN ring : ring[i] \in Record
      BY <1>1
    <2>2. QED
      BY <1>1, <2>1 DEF ReadInv, TrackerTypeOK, Record
  <1>6. /\ \A i \in DOMAIN ring : ring[i].epoch <= epoch' /\ ring[i].epoch # epoch'
        /\ hand # Nothing => hand.epoch <= epoch' /\ hand.epoch # epoch'
    BY <1>1, <1>2, <1>5
  <1>7. ReadInv'
    BY <1>1, <1>2, <1>6, Zenon DEF ReadInv, SortedRing, newer, keep
  <1>8. ~Current' /\ epoch' # 0
    BY <1>1, <1>2, <1>6 DEF Current
  <1>9. QED
    BY <1>4, <1>7, <1>8, Zenon DEF TrackerInv, ResumeInv

\* A subscription opens where the last one stopped, or anew.
LEMMA StartKeeps ==
    ASSUME TrackerInv, StartConsumer
    PROVE  TrackerInv'
  <1>1. /\ TrackerTypeOK /\ ReadInv /\ ResumeInv
        /\ Len(log) \in Nat /\ first \in Nat \ {0} /\ lastSeq \in Nat /\ base \in Nat /\ infoLast \in Nat
    BY DEF TrackerInv, TrackerTypeOK
  <1>2. /\ pc = "create" /\ cons' \in Starts /\ base' = (IF Resumes THEN base ELSE cons')
        /\ pc' = "ingest"
        /\ UNCHANGED <<log, first, epoch, published, drops, config, ctx, lastSeq, ring, infoLast, infoEpoch, hand>>
    BY Zenon DEF StartConsumer, broker
  <1>3. hand = Nothing /\ cons = 0
    BY <1>1, <1>2 DEF ReadInv
  <1>4. /\ cons' \in Nat \ {0}
        /\ Resumes => lastSeq > 0 /\ lastSeq + 1 <= infoLast + 1
        /\ Resumes => cons' = lastSeq + 1 \/ (cons' = Len(log) + 1 /\ cons' < lastSeq + 1)
        /\ ~Resumes /\ infoEpoch = epoch => cons' <= Len(log) + 1
    <2>1. CASE Resumes
      BY <1>1, <1>2, <2>1 DEF Resumes, from, Starts
    <2>2. CASE ~Resumes
      BY <1>1, <1>2, <2>2 DEF Starts
    <2>3. QED
      BY <2>1, <2>2, Zenon
  <1>5. cons' \in Nat \ {0} /\ base' \in Nat
    BY <1>1, <1>2, <1>4
  <1>6. TrackerTypeOK'
    BY <1>1, <1>2, <1>5, Zenon DEF TrackerTypeOK
  <1>7. ReadInv'
    BY <1>1, <1>2, <1>3, Zenon DEF ReadInv, SortedRing, newer, keep
  <1>8. ASSUME Current
        PROVE  /\ lastSeq < cons' /\ infoEpoch = epoch /\ (~Resumes => lastSeq = 0)
               /\ Resumes => cons' = lastSeq + 1
    <2>1. infoEpoch = epoch /\ lastSeq <= infoLast /\ lastSeq <= Len(log)
      BY <1>1, <1>2, <1>8, Zenon DEF ResumeInv
    <2>2. ~Resumes => lastSeq = 0
      BY <1>1, <2>1 DEF Resumes, from
    <2>3. Resumes => cons' = lastSeq + 1
      BY <1>1, <1>4, <2>1
    <2>4. QED
      BY <1>1, <1>5, <2>1, <2>2, <2>3
  <1>9. ResumeInv'
    BY <1>1, <1>2, <1>3, <1>8 DEF ResumeInv, Current
  <1>10. ASSUME epoch = 0
         PROVE  Ordered' /\ NoGap' /\ NothingSkipped'
    <2>1. /\ Ordered /\ NoGap /\ NothingSkipped /\ infoEpoch = epoch /\ (~Resumes => lastSeq = 0)
          /\ Resumes => cons' = lastSeq + 1
      BY <1>8, <1>10, Zenon DEF TrackerInv, Current
    <2>2. Ordered'
      BY <1>2, <2>1, OrderStays, Zenon DEF Ordered, At
    <2>3. match' = match /\ \A s \in match : s \in Nat \ {0}
      BY <1>1, <1>2 DEF match
    <2>4. NoGap'
      <3>1. cons' <= Len(log) + 1
        BY <1>1, <1>2, <1>4, <2>1 DEF NoGap
      <3>2. ASSUME NEW s \in match, base' <= s, lastSeq < s
            PROVE  cons' <= s
        BY <1>1, <1>2, <1>4, <2>1, <2>3, <3>2
      <3>3. QED
        BY <1>2, <1>3, <2>3, <3>1, <3>2, Zenon DEF NoGap
    <2>5. NothingSkipped'
      <3>1. CASE Resumes
        BY <1>2, <2>1, <2>3, <3>1, Zenon DEF NothingSkipped, Held, keep, Before, newer, At
      <3>2. CASE ~Resumes
        <4>1. \A s \in match : ~(s <= lastSeq)
          BY <2>1, <2>3, <3>2
        <4>2. QED
          BY <1>2, <2>3, <4>1, Zenon DEF NothingSkipped
      <3>3. QED
        BY <3>1, <3>2
    <2>6. QED
      BY <2>2, <2>4, <2>5, Zenon
  <1>11. QED
    BY <1>2, <1>6, <1>7, <1>9, <1>10, Zenon DEF TrackerInv

\* The reader takes the consumer's next message.
LEMMA FetchKeeps ==
    ASSUME TrackerInv, Fetch
    PROVE  TrackerInv'
  <1>1. /\ TrackerTypeOK /\ ReadInv /\ ResumeInv /\ log \in Seq(Kinds) /\ epoch \in Nat
        /\ Len(log) \in Nat /\ first \in Nat \ {0} /\ lastSeq \in Nat /\ base \in Nat /\ cons \in Nat
    BY DEF TrackerInv, TrackerTypeOK
  <1>2. PICK m \in From(match, cons) : /\ \A s \in From(match, cons) : m <= s
                                       /\ hand' = (IF log[m] = "unreadable" THEN Nothing ELSE At(m))
                                       /\ cons' = m + 1
    BY Zenon DEF Fetch
  <1>3. /\ pc = "ingest" /\ cons # 0 /\ hand = Nothing
        /\ UNCHANGED <<log, first, epoch, published, drops, config, ctx, pc, lastSeq, ring, infoLast, infoEpoch, base>>
    BY Zenon DEF Fetch, broker, run
  <1>4. m \in match /\ m >= cons /\ m \in 1..Len(log)
    BY <1>1, <1>2 DEF From, match
  <1>5. /\ At(m) \in Record /\ At(m) # Nothing /\ At(m).epoch = epoch /\ At(m).seq = m
        /\ At(m)' = At(m) /\ m + 1 \in Nat
    <2>1. log[m] \in Kinds
      BY <1>1, <1>4
    <2>2. At(m) \in Record
      BY <1>1, <1>4, <2>1 DEF At, Record
    <2>3. QED
      BY <1>3, <1>4, <2>2, TrackerAssumption DEF At
  <1>6. TrackerTypeOK'
    BY <1>1, <1>2, <1>3, <1>5, Zenon DEF TrackerTypeOK
  <1>7. ReadInv'
    <2>1. hand' # Nothing => hand'.seq = m /\ hand'.epoch = epoch /\ hand' = At(hand.seq)'
      BY <1>2, <1>3, <1>5 DEF At
    <2>2. QED
      BY <1>1, <1>2, <1>3, <1>4, <2>1 DEF ReadInv, SortedRing, newer, keep
  <1>8. ResumeInv'
    <2>1. hand' # Nothing => hand'.seq = m /\ hand'.epoch = epoch
      BY <1>2, <1>5, Zenon
    <2>2. Current => lastSeq < cons /\ lastSeq <= Len(log)
      BY <1>1, <1>3, Zenon DEF ResumeInv
    <2>3. Current => lastSeq < m /\ lastSeq < m + 1
      BY <1>1, <1>4, <2>2
    <2>4. QED
      BY <1>2, <1>3, <2>1, <2>2, <2>3, Zenon DEF ResumeInv, Current
  <1>9. ASSUME epoch = 0
        PROVE  Ordered' /\ NoGap' /\ NothingSkipped'
    <2>1. Ordered /\ NoGap /\ NothingSkipped
      BY <1>9, Zenon DEF TrackerInv
    <2>2. match' = match /\ \A s \in match : s \in Nat
      BY <1>1, <1>3 DEF match
    <2>3. Ordered'
      BY <1>3, <2>1, OrderStays, Zenon DEF Ordered, At
    <2>4. NothingSkipped'
      BY <1>3, <2>1, <2>2, Zenon DEF NothingSkipped, Held, keep, Before, newer, At
    <2>5. ASSUME NEW s \in match, base <= s, lastSeq < s, keep(At(s))
          PROVE  m <= s /\ (m + 1 <= s \/ (hand' # Nothing /\ s = hand'.seq))
      <3>1. cons <= s
        BY <1>3, <2>1, <2>5 DEF NoGap
      <3>2. s \in From(match, cons)
        BY <1>1, <2>2, <3>1, Zenon DEF From
      <3>3. m <= s /\ (m + 1 <= s \/ s = m)
        BY <1>2, <1>4, <2>2, <3>2
      <3>4. s = m => hand' # Nothing /\ hand'.seq = m
        <4>1. log[s] # "unreadable"
          BY <2>5 DEF keep, At
        <4>2. QED
          BY <1>2, <1>5, <4>1, Zenon
      <3>5. QED
        BY <3>3, <3>4, Zenon
    <2>6. NoGap'
      <3>1. m + 1 <= Len(log) + 1 /\ (hand' # Nothing => hand'.seq = m)
        BY <1>1, <1>2, <1>4, <1>5
      <3>2. \A s : At(s)' = At(s)
        BY <1>3, Zenon DEF At
      <3>3. QED
        BY <1>2, <1>3, <1>5, <2>2, <2>5, <3>1, <3>2, Zenon DEF NoGap, keep
    <2>7. QED
      BY <2>3, <2>4, <2>6
  <1>10. QED
    BY <1>3, <1>6, <1>7, <1>8, <1>9, Zenon DEF TrackerInv

\* ingest takes the message; the entries of a stream that is gone are dropped when
\* its sequence went backwards, and no others.
LEMMA IngestTakes ==
    ASSUME TrackerInv, Ingest
    PROVE  /\ hand \in Record /\ pc = "ingest" /\ hand # Nothing
           /\ lastSeq' = hand.seq /\ hand' = Nothing
           /\ UNCHANGED <<log, first, epoch, published, drops, config, ctx, pc, infoLast, infoEpoch, base, cons>>
           /\ ring' \in Seq(Record) /\ Len(ring') <= MaxEvents
           /\ config.less => SortedRing(ring')
           /\ \A i \in DOMAIN ring' : \/ ring'[i] = hand /\ keep(hand)
                                      \/ \E j \in DOMAIN ring : ring'[i] = ring[j]
           /\ Current => /\ ring' = IF keep(hand) THEN insert(ring, hand) ELSE ring
                         /\ \A i \in DOMAIN ring :
                              (\E j \in DOMAIN ring' : ring'[j] = ring[i]) \/ Len(ring') = MaxEvents
  <1>1. /\ TrackerTypeOK /\ ReadInv /\ ResumeInv /\ ring \in Seq(Record) /\ Len(ring) <= MaxEvents
        /\ MaxEvents \in Nat \ {0}
    BY TrackerAssumption DEF TrackerInv, TrackerTypeOK
  <1>2. PICK old : old = IF WentBack(hand.seq) THEN <<>> ELSE ring
    BY Zenon
  <1>3. /\ pc = "ingest" /\ hand # Nothing /\ lastSeq' = hand.seq /\ hand' = Nothing
        /\ ring' = IF keep(hand) THEN insert(old, hand) ELSE old
        /\ UNCHANGED <<log, first, epoch, published, drops, config, ctx, pc, infoLast, infoEpoch, base, cons>>
    BY <1>2, Zenon DEF Ingest, broker, reset
  <1>4. hand \in Record
    BY <1>1, <1>3, Zenon DEF TrackerTypeOK
  <1>5. /\ old \in Seq(Record) /\ Len(old) <= MaxEvents /\ (config.less => SortedRing(old))
        /\ \A i \in DOMAIN old : keep(old[i])
        /\ \A i \in DOMAIN old : \E j \in DOMAIN ring : old[i] = ring[j]
    <2>1. CASE WentBack(hand.seq)
      BY <1>1, <1>2, <2>1 DEF SortedRing
    <2>2. CASE ~WentBack(hand.seq)
      BY <1>1, <1>2, <2>2, Zenon DEF ReadInv
    <2>3. QED
      BY <2>1, <2>2, Zenon
  <1>6. /\ ring' \in Seq(Record) /\ Len(ring') <= MaxEvents
        /\ config.less => SortedRing(ring')
        /\ \A i \in DOMAIN ring' : \/ ring'[i] = hand /\ keep(hand)
                                   \/ \E j \in DOMAIN old : ring'[i] = old[j]
        /\ \A i \in DOMAIN old : (\E j \in DOMAIN ring' : ring'[j] = old[i]) \/ Len(ring') = MaxEvents
    <2>1. CASE keep(hand)
      <3>1. ring' = insert(old, hand)
        BY <1>3, <2>1, Zenon
      <3>2. /\ insert(old, hand) \in Seq(Record) /\ Len(insert(old, hand)) <= MaxEvents
            /\ config.less => SortedRing(insert(old, hand))
            /\ \A i \in DOMAIN insert(old, hand) :
                  insert(old, hand)[i] = hand \/ \E j \in DOMAIN old : insert(old, hand)[i] = old[j]
            /\ \A i \in DOMAIN old :
                  \/ \E j \in DOMAIN insert(old, hand) : insert(old, hand)[j] = old[i]
                  \/ Len(insert(old, hand)) = MaxEvents
        BY <1>4, <1>5, <2>1, InsertKeeps
      <3>3. QED
        BY <2>1, <3>1, <3>2, Zenon
    <2>2. CASE ~keep(hand)
      BY <1>3, <1>5, <2>2, Zenon
    <2>3. QED
      BY <2>1, <2>2
  <1>7. \A i \in DOMAIN ring' : \/ ring'[i] = hand /\ keep(hand)
                                \/ \E j \in DOMAIN ring : ring'[i] = ring[j]
    BY <1>5, <1>6, Zenon
  <1>8. Current => old = ring
    <2>1. ASSUME Current
          PROVE  ~WentBack(hand.seq)
      <3>1. lastSeq < hand.seq
        BY <1>1, <1>3, <2>1, Zenon DEF ResumeInv
      <3>2. lastSeq \in Nat /\ hand.seq \in Nat
        BY <1>1, <1>4, Zenon DEF TrackerTypeOK, Record
      <3>3. QED
        BY <3>1, <3>2 DEF WentBack
    <2>2. QED
      BY <1>2, <2>1, Zenon
  <1>9. QED
    BY <1>3, <1>4, <1>6, <1>7, <1>8

LEMMA IngestKeeps ==
    ASSUME TrackerInv, Ingest
    PROVE  TrackerInv'
  <1>1. /\ TrackerTypeOK /\ ReadInv /\ ResumeInv /\ ring \in Seq(Record) /\ Len(ring) <= MaxEvents
        /\ lastSeq \in Nat /\ Len(log) \in Nat /\ first \in Nat \ {0} /\ cons \in Nat
    BY DEF TrackerInv, TrackerTypeOK
  <1>2. /\ hand \in Record /\ pc = "ingest" /\ hand # Nothing
        /\ lastSeq' = hand.seq /\ hand' = Nothing
        /\ UNCHANGED <<log, first, epoch, published, drops, config, ctx, pc, infoLast, infoEpoch, base, cons>>
    BY IngestTakes, Zenon
  <1>3. /\ ring' \in Seq(Record) /\ Len(ring') <= MaxEvents /\ (config.less => SortedRing(ring'))
        /\ \A i \in DOMAIN ring' : \/ ring'[i] = hand /\ keep(hand)
                                   \/ \E j \in DOMAIN ring : ring'[i] = ring[j]
    BY IngestTakes, Zenon
  <1>4. /\ hand.seq \in Nat \ {0} /\ hand.epoch <= epoch
        /\ hand.epoch = epoch => hand.seq <= Len(log) /\ hand = At(hand.seq)
        /\ cons # 0 => hand.epoch = epoch /\ hand.seq < cons
    <2>1. /\ hand.seq > 0 /\ hand.epoch <= epoch
          /\ hand.epoch = epoch => hand.seq <= Len(log) /\ hand = At(hand.seq)
          /\ cons # 0 => hand.epoch = epoch /\ hand.seq < cons
      BY <1>1, <1>2, Zenon DEF ReadInv
    <2>2. hand.seq \in Nat \ {0}
      BY <1>2, <2>1 DEF Record
    <2>3. QED
      BY <2>1, <2>2, Zenon
  <1>5. TrackerTypeOK'
    BY <1>1, <1>2, <1>3, <1>4 DEF TrackerTypeOK
  <1>6. ReadInv'
    <2>1. \A i \in DOMAIN ring' : ring'[i].epoch <= epoch /\ keep(ring'[i])
      BY <1>1, <1>3, <1>4, Zenon DEF ReadInv
    <2>2. config'.less => SortedRing(ring)'
      BY <1>2, <1>3, Zenon DEF SortedRing, newer
    <2>3. lastSeq' # 0
      BY <1>2, <1>4
    <2>4. QED
      BY <1>1, <1>2, <2>1, <2>2, <2>3, Zenon DEF ReadInv, keep
  <1>7. ASSUME Current'
        PROVE  hand.epoch = epoch
    <2>1. CASE Current
      BY <1>1, <1>2, <2>1 DEF ResumeInv
    <2>2. CASE ~Current
      BY <1>2, <1>3, <1>7, <2>2, Zenon DEF Current
    <2>3. QED
      BY <2>1, <2>2, Zenon
  <1>8. ResumeInv'
    BY <1>2, <1>4, <1>7, Zenon DEF ResumeInv
  <1>9. ASSUME epoch = 0
        PROVE  Ordered' /\ NoGap' /\ NothingSkipped'
    <2>1. Ordered /\ NoGap /\ NothingSkipped /\ Current
      BY <1>9, Zenon DEF TrackerInv, Current
    <2>2. /\ ring' = IF keep(hand) THEN insert(ring, hand) ELSE ring
          /\ \A i \in DOMAIN ring : keep(ring[i])
          /\ config.less => SortedRing(ring)
      BY <1>1, <2>1, IngestTakes, Zenon DEF ReadInv
    <2>3. hand = At(hand.seq) /\ lastSeq < hand.seq
      BY <1>1, <1>2, <1>4, <2>1, Zenon DEF ResumeInv
    <2>4. \A i \in DOMAIN ring : ring[i].seq \in 1..lastSeq /\ ring[i] = At(ring[i].seq)
      BY <2>1, Zenon DEF Ordered
    <2>5. \A i, j \in DOMAIN ring : i < j => Before(ring[i], ring[j])
      BY <2>1, Zenon DEF Ordered
    <2>6. \A i \in DOMAIN ring : ring[i].seq < hand.seq
      BY <1>1, <1>4, <2>3, <2>4
    <2>7. match' = match /\ \A s \in match : s \in Nat
      BY <1>1, <1>2 DEF match
    <2>8. \A s : At(s)' = At(s)
      BY <1>2, Zenon DEF At
    <2>9. Ordered'
      <3>1. ASSUME NEW i \in DOMAIN ring'
            PROVE  (ring[i].seq \in 1..lastSeq /\ ring[i] = At(ring[i].seq))'
        <4>1. PICK e : e = ring'[i]
          BY Zenon
        <4>2. e.seq \in 1..hand.seq /\ e = At(e.seq)
          BY <1>1, <1>3, <1>4, <2>3, <2>4, <3>1, <4>1
        <4>3. QED
          BY <1>2, <4>1, <4>2, Zenon DEF At
      <3>2. (\A i, j \in DOMAIN ring : i < j => Before(ring[i], ring[j]))'
        <4>1. CASE keep(hand)
          <5>1. \A i, j \in DOMAIN insert(ring, hand) : i < j =>
                  Before(insert(ring, hand)[i], insert(ring, hand)[j])
            BY <1>1, <1>2, <2>2, <2>6, <2>5, <4>1, OrderKeeps, Zenon
          <5>2. ASSUME NEW i \in DOMAIN ring', NEW j \in DOMAIN ring', i < j
                PROVE  Before(ring[i], ring[j])'
            <6>1. Before(ring'[i], ring'[j])
              BY <1>2, <2>2, <4>1, <5>1, <5>2, Zenon
            <6>2. config' = config
              BY <1>2, Zenon
            <6>3. QED
              BY <6>1, <6>2 DEF Before, newer
          <5>3. QED
            BY <5>2, Zenon
        <4>2. CASE ~keep(hand)
          <5>1. ring' = ring /\ config' = config
            BY <1>2, <2>2, <4>2, Zenon
          <5>2. QED
            BY <2>5, <5>1, OrderStays, Zenon
        <4>3. QED
          BY <4>1, <4>2, Zenon
      <3>3. QED
        BY <3>1, <3>2 DEF Ordered
    <2>10. NoGap'
      <3>1. ASSUME NEW s \in match, base <= s, hand.seq < s, keep(At(s)), cons # 0
            PROVE  cons <= s
        <4>1. lastSeq < s
          BY <1>1, <1>4, <2>3, <2>7, <3>1
        <4>2. cons <= s \/ s = hand.seq
          BY <2>1, <3>1, <4>1, Zenon DEF NoGap
        <4>3. QED
          BY <1>4, <2>7, <3>1, <4>2
      <3>2. QED
        BY <1>2, <2>1, <2>7, <2>8, <3>1, Zenon DEF NoGap, keep
    <2>11. ASSUME NEW s \in match, base <= s, s <= hand.seq, keep(At(s))
           PROVE  \/ \E i \in DOMAIN ring' : ring'[i] = At(s)
                  \/ Len(ring') = MaxEvents /\ \A i \in DOMAIN ring' : Before(ring'[i], At(s))
      <3>1. s <= lastSeq \/ At(s) = hand
        <4>1. lastSeq < s => hand.seq <= s
          BY <1>2, <2>1, <2>11, Zenon DEF NoGap
        <4>2. s <= lastSeq \/ s = hand.seq
          BY <1>1, <1>4, <2>7, <2>11, <4>1
        <4>3. QED
          BY <2>3, <4>2, Zenon
      <3>2. PICK e \in Record : e = At(s)
        <4>1. At(s) \in Record
          BY <1>1 DEF At, Record, match, TrackerTypeOK
        <4>2. QED
          BY <4>1, Zenon
      <3>3. \/ e = hand
            \/ \E i \in DOMAIN ring : ring[i] = e
            \/ Len(ring) = MaxEvents /\ \A i \in DOMAIN ring : Before(ring[i], e)
        BY <1>9, <2>1, <2>11, <3>1, <3>2, Zenon DEF NothingSkipped, Held
      <3>4. CASE ~keep(hand)
        BY <2>2, <2>11, <3>2, <3>3, <3>4, Zenon
      <3>5. CASE keep(hand)
        <4>1. \/ \E j \in DOMAIN insert(ring, hand) : insert(ring, hand)[j] = e
              \/ /\ Len(insert(ring, hand)) = MaxEvents
                 /\ \A j \in DOMAIN insert(ring, hand) : Before(insert(ring, hand)[j], e)
          BY <1>1, <1>2, <2>2, <2>6, <2>11, <2>5, <3>2, <3>3, <3>5, OrderKeeps, Zenon
        <4>2. QED
          BY <2>2, <3>2, <3>5, <4>1, Zenon
      <3>6. QED
        BY <3>4, <3>5, Zenon
    <2>12. NothingSkipped'
      BY <1>2, <2>7, <2>8, <2>11, Zenon DEF NothingSkipped, Held, keep, Before, newer
    <2>13. QED
      BY <2>9, <2>10, <2>12
  <1>10. QED
    BY <1>2, <1>5, <1>6, <1>8, <1>9, Zenon DEF TrackerInv

LEMMA TrackerStarts == TrackerInit => TrackerInv
  <1> SUFFICES ASSUME TrackerInit PROVE TrackerInv
    OBVIOUS
  <1>1. /\ log \in Seq(Kinds) /\ Len(log) \in Nat /\ first = 1 /\ epoch = 0 /\ ring = <<>>
        /\ lastSeq = 0 /\ cons = 0 /\ hand = Nothing /\ pc = "subscribe" /\ base = 0
        /\ infoEpoch = 0
    BY TrackerAssumption DEF TrackerInit
  <1>2. TrackerTypeOK
    <2>1. ring \in Seq(Record) /\ Len(ring) <= MaxEvents
      BY <1>1, TrackerAssumption
    <2>2. first \in 1..(Len(log) + 1)
      BY <1>1
    <2>3. published \in Nat /\ drops \in Nat /\ ctx \in BOOLEAN /\ infoLast \in Nat
          /\ config \in [retry : BOOLEAN, less : BOOLEAN]
      BY Zenon DEF TrackerInit
    <2>4. QED
      BY <1>1, <2>1, <2>2, <2>3, Zenon DEF TrackerTypeOK
  <1>3. ReadInv
    BY <1>1 DEF ReadInv, SortedRing
  <1>4. ResumeInv
    BY <1>1 DEF ResumeInv
  <1>5. Ordered
    BY <1>1 DEF Ordered
  <1>6. \A s \in match : s >= 1
    BY <1>1 DEF match
  <1>7. NoGap
    BY <1>1 DEF NoGap
  <1>8. NothingSkipped
    BY <1>1, <1>6 DEF NothingSkipped, match
  <1>9. QED
    BY <1>2, <1>3, <1>4, <1>5, <1>7, <1>8, Zenon DEF TrackerInv

LEMMA TrackerInvHolds == TrackerSpec => []TrackerInv
  <1>1. TrackerInv /\ [TrackerNext]_trackerVars => TrackerInv'
    <2> SUFFICES ASSUME TrackerInv, [TrackerNext]_trackerVars PROVE TrackerInv'
      OBVIOUS
    <2>1. ASSUME NEW k \in Kinds, Publish(k)
          PROVE  TrackerInv'
      BY <2>1, PublishKeeps, Zenon
    <2>2. CASE Recreate
      BY <2>2, RecreateKeeps
    <2>3. CASE StartConsumer
      BY <2>3, StartKeeps
    <2>4. CASE Fetch
      BY <2>4, FetchKeeps
    <2>5. CASE Ingest
      BY <2>5, IngestKeeps
    <2>6. CASE Expire \/ Drop \/ Cancel \/ Info \/ SubscribeFails \/ Closed \/ Wait \/ RunReturns
                \/ UNCHANGED trackerVars
      <3>1. /\ TrackerTypeOK /\ ReadInv /\ Len(log) \in Nat /\ first \in 1..(Len(log) + 1)
            /\ drops \in Nat /\ ctx \in BOOLEAN /\ infoLast \in Nat /\ infoEpoch \in Nat /\ epoch \in Nat
            /\ pc \in {"subscribe", "create", "ingest", "wait", "done"}
        BY DEF TrackerInv, TrackerTypeOK
      <3>2. pc = "ingest" \/ (cons = 0 /\ hand = Nothing)
        BY <3>1, Zenon DEF ReadInv
      <3>3. /\ UNCHANGED <<log, epoch, published, lastSeq, ring, base, config>>
            /\ first' \in first..(Len(log) + 1)
        <4>1. /\ first \in first..(Len(log) + 1)
              /\ first <= Len(log) => first + 1 \in first..(Len(log) + 1)
          BY <3>1, SMTT(20)
        <4>2. QED
          BY <2>6, <4>1, Zenon DEF Expire, Drop, Cancel, Info, SubscribeFails, Closed, Wait, RunReturns,
                                   trackerVars, broker, run
      <3>4. /\ cons' \in {cons, 0} /\ (hand' = hand \/ (hand' = Nothing /\ cons' = 0))
            /\ pc' = "ingest" \/ (cons' = 0 /\ hand' = Nothing)
        BY <2>6, <3>2 DEF Expire, Drop, Cancel, Info, SubscribeFails, Closed, Wait, RunReturns,
                          trackerVars, run
      <3>5. drops' \in Nat /\ ctx' \in BOOLEAN
        <4>1. drops' \in {drops, drops + 1}
          BY <2>6, Zenon DEF Expire, Drop, Cancel, Info, SubscribeFails, Closed, Wait, RunReturns,
                      trackerVars
        <4>2. ctx' = ctx \/ ctx' = TRUE
          BY <2>6, Zenon DEF Expire, Drop, Cancel, Info, SubscribeFails, Closed, Wait, RunReturns,
                      trackerVars
        <4>3. drops' \in Nat
          BY <3>1, <4>1
        <4>4. ctx' \in BOOLEAN
          BY <3>1, <4>2, Zenon
        <4>5. QED
          BY <4>3, <4>4, Zenon
      <3>6. UNCHANGED <<infoLast, infoEpoch>> \/ (Info /\ infoLast' = Len(log) /\ infoEpoch' = epoch)
        BY <2>6, Zenon DEF Expire, Drop, Cancel, Info, SubscribeFails, Closed, Wait, RunReturns,
                    trackerVars, run
      <3>7. Info \/ pc' \in {pc, "subscribe", "wait", "done"}
        BY <2>6, Zenon DEF Expire, Drop, Cancel, SubscribeFails, Closed, Wait, RunReturns,
                    AfterSource, trackerVars, run
      <3>8. Info => infoLast' = Len(log) /\ infoEpoch' = epoch /\ pc' = "create"
        BY Zenon DEF Info
      <3>9. /\ infoLast' \in Nat /\ infoEpoch' \in Nat
            /\ pc' \in {"subscribe", "create", "ingest", "wait", "done"}
            /\ pc' = "create" => \/ infoLast' = Len(log) /\ infoEpoch' = epoch
                                 \/ pc = "create" /\ UNCHANGED <<infoLast, infoEpoch>>
        BY <3>1, <3>6, <3>7, <3>8
      <3>10. QED
        BY <3>3, <3>4, <3>5, <3>9, QuietKeeps, Zenon
    <2>7. QED
      BY <2>1, <2>2, <2>3, <2>4, <2>5, <2>6 DEF TrackerNext, Run
  <1>2. QED
    BY <1>1, TrackerStarts, PTL DEF TrackerSpec

\* Run, insert: however often the subscription drops and is resumed, whatever
\* expires and whenever events come late, the ring is the first Max of the events
\* it covers in the order Before, each once ("nothing is duplicated or skipped",
\* ResubscribeWait), for streams of any length and any Max.
THEOREM RingStaysNewest == TrackerSpec => []RingIsNewest
  <1>1. TrackerInv => RingIsNewest
    <2> SUFFICES ASSUME TrackerInv PROVE RingIsNewest
      OBVIOUS
    <2>1. NothingSkipped
      BY Zenon DEF TrackerInv, NothingSkipped
    <2>2. NewestFirst
      BY Zenon DEF TrackerInv, Ordered, NewestFirst
    <2>3. QED
      BY <2>1, <2>2 DEF RingIsNewest
  <1>2. QED
    BY <1>1, TrackerInvHolds, PTL

\* ingest: the reset on a sequence that goes backwards never discards an entry of
\* the stream that is there, however often streams are recreated and whenever
\* that happens between two steps of Run, Subscribe and the reader, also between
\* StreamInfo and the consumer's creation.
THEOREM EntriesAreKept == TrackerSpec => ResetIsJustified
  <1>1. TrackerInv /\ [TrackerNext]_trackerVars =>
          [\A i \in DOMAIN ring : ring[i].epoch = epoch' =>
             \/ \E j \in DOMAIN ring' : ring'[j] = ring[i]
             \/ Len(ring') = MaxEvents]_trackerVars
    <2> SUFFICES ASSUME TrackerInv, TrackerNext, NEW i \in DOMAIN ring, ring[i].epoch = epoch'
                 PROVE  (\E j \in DOMAIN ring' : ring'[j] = ring[i]) \/ Len(ring') = MaxEvents
      BY Zenon
    <2>1. CASE Ingest
      <3>1. Current
        BY <2>1, IngestTakes, Zenon DEF Current
      <3>2. QED
        BY <2>1, <3>1, IngestTakes, Zenon
    <2>2. CASE ~Ingest
      <3>1. ring' = ring
        BY <2>2, Zenon DEF TrackerNext, Run, Publish, Expire, Drop, Recreate, Cancel, Info, StartConsumer,
                    SubscribeFails, Fetch, Closed, Wait, RunReturns, run
      <3>2. QED
        BY <3>1, Zenon
    <2>3. QED
      BY <2>1, <2>2, Zenon
  <1>2. QED
    BY <1>1, TrackerInvHolds, PTL DEF TrackerSpec, ResetIsJustified
=============================================================================
