--------------------------- MODULE DeliverPolicy ---------------------------
(***************************************************************************)
(* journal/jetstream/jetstream.go: how Subscribe turns a request (replay,  *)
(* startFromSeq) into the sequence its consumer starts at.  Stream.Info,   *)
(* every probe of replayStart and the creation of the consumer are calls   *)
(* to the broker, each a step of its own: publishers append to the stream, *)
(* and retention removes its oldest record, between any two of them.       *)
(***************************************************************************)
EXTENDS Journal

CONSTANTS MaxSeq,      \* bound: sequences the stream reaches
          MaxInit,     \* bound: records before the first Subscribe
          Replays,     \* values of replay
          Froms        \* values of startFromSeq

ASSUME ConstAssumption ==
    MaxSeq \in Nat /\ MaxInit \in Nat /\ Replays \subseteq Int /\ Froms \subseteq Nat

VARIABLES first, last, match,   \* the stream
          pc, req, info,        \* Subscribe: its arguments, StreamInfo.State
          good, bad, step,      \* replayStart
          policy, start         \* the DeliverPolicy; the consumer's start

stream == <<first, last, match>>
search == <<good, bad, step>>
vars == <<stream, pc, req, info, search, policy, start>>

Policies == [kind : {"ByStart", "All", "New"}, opt : Nat]
Policy(k, s) == [kind |-> k, opt |-> s]
NoRequest == [replay |-> 0, from |-> 0]
NoInfo == [first |-> 0, last |-> 0]
NoSearch == good' = 0 /\ bad' = 0 /\ step' = 0

\* Type invariant: in particular, the search never leaves the sequences.
TypeOK ==
    /\ first \in Nat \ {0} /\ last \in Nat
    /\ first <= last + 1 /\ match \subseteq first..last
    /\ pc \in {"idle", "info", "pick", "hi", "gallop", "bisect", "create", "live"}
    /\ req \in [replay : Int, from : Nat]
    /\ info \in [first : Nat, last : Nat]
    /\ good \in Nat /\ bad \in Nat /\ step \in Nat
    /\ policy \in Policies /\ start \in Nat

\* A stream holds its records from first on; a purged one starts at last + 1.
Init ==
    /\ last \in 0..MaxInit /\ first \in 1..(last + 1)
    /\ match \in SUBSET (first..last)
    /\ pc = "idle" /\ req = NoRequest /\ info = NoInfo
    /\ good = 0 /\ bad = 0 /\ step = 0
    /\ policy = Policy("New", 0) /\ start = 0

-----------------------------------------------------------------------------
\* The broker: a record is published, on our subject or on another one.
Publish(matches) ==
    /\ last < MaxSeq
    /\ last' = last + 1
    /\ match' = IF matches THEN match \cup {last + 1} ELSE match
    /\ UNCHANGED <<first, pc, req, info, search, policy, start>>

\* Retention removes the oldest record.
Expire ==
    /\ first <= last
    /\ first' = first + 1
    /\ match' = match \ {first}
    /\ UNCHANGED <<last, pc, req, info, search, policy, start>>

-----------------------------------------------------------------------------
Subscribe(replay, from) ==
    /\ pc = "idle"
    /\ req' = [replay |-> replay, from |-> from]
    /\ pc' = "info"
    /\ UNCHANGED <<stream, info, search, policy, start>>

Info ==
    /\ pc = "info"
    /\ info' = [first |-> first, last |-> last]
    /\ pc' = "pick"
    /\ UNCHANGED <<stream, req, search, policy, start>>

Choose(p) == pc' = "create" /\ policy' = p /\ NoSearch

\* pickDeliverPolicy's decision tree; the last arm starts replayStart, whose
\* first probe is at hi, the start of the newest n sequences.
Resumes == req.from > 0 /\ req.from <= info.last + 1

TailOnly == req.replay <= 0 \/ info.last = 0

hi == IF req.replay <= info.last /\ info.last - req.replay + 1 > info.first
      THEN info.last - req.replay + 1 ELSE info.first

pickDeliverPolicy ==
    /\ pc = "pick"
    /\ \/ Resumes /\ Choose(Policy("ByStart", req.from))
       \/ ~Resumes /\ TailOnly /\ Choose(Policy("New", 0))
       \/ /\ ~Resumes /\ ~TailOnly /\ req.replay >= info.last
          /\ Choose(Policy("All", 0))
       \/ /\ ~Resumes /\ ~TailOnly /\ req.replay < info.last
          /\ pc' = "hi" /\ bad' = hi /\ good' = 0 /\ step' = 1
          /\ UNCHANGED policy
    /\ UNCHANGED <<stream, req, info, start>>

\* Does a consumer starting at s have the n records asked for?
Enough_OffByOne(s) == pending(match, s) + 1 >= req.replay

Enough(s) == pending(match, s) >= req.replay

ProbeHi ==
    /\ pc = "hi"
    /\ \/ Enough(bad) /\ Choose(Policy("ByStart", bad))
       \/ ~Enough(bad) /\ bad = info.first /\ Choose(Policy("All", 0))
       \/ /\ ~Enough(bad) /\ bad # info.first /\ pc' = "gallop"
          /\ UNCHANGED <<search, policy>>
    /\ UNCHANGED <<stream, req, info, start>>

cand_Unclamped == bad - step

cand == IF bad - info.first > step THEN bad - step ELSE info.first

\* Gallop down from hi, doubling the step; bad never holds enough.
Gallop ==
    /\ pc = "gallop"
    /\ \/ /\ Enough(cand) /\ good' = cand /\ pc' = "bisect"
          /\ UNCHANGED <<bad, step, policy>>
       \/ /\ ~Enough(cand) /\ cand = info.first /\ Choose(Policy("All", 0))
       \/ /\ ~Enough(cand) /\ cand # info.first
          /\ bad' = cand /\ step' = 2 * step
          /\ UNCHANGED <<good, pc, policy>>
    /\ UNCHANGED <<stream, req, info, start>>

Adjacent_Loose == bad - good <= 2

Adjacent_Never == bad - good <= 0

Adjacent == bad - good <= 1

mid == good + (bad - good) \div 2

Bisect ==
    /\ pc = "bisect"
    /\ \/ Adjacent /\ Choose(Policy("ByStart", good))
       \/ ~Adjacent /\ Enough(mid) /\ good' = mid
          /\ UNCHANGED <<bad, step, pc, policy>>
       \/ ~Adjacent /\ ~Enough(mid) /\ bad' = mid
          /\ UNCHANGED <<good, step, pc, policy>>
    /\ UNCHANGED <<stream, req, info, start>>

\* CreateOrUpdateConsumer: the broker resolves the policy as it creates the
\* consumer.
StartOf(p) == IF p.kind = "ByStart" THEN p.opt
              ELSE IF p.kind = "All" THEN first ELSE last + 1

CreateConsumer ==
    /\ pc = "create"
    /\ start' = StartOf(policy)
    /\ pc' = "live"
    /\ UNCHANGED <<stream, req, info, search, policy>>

\* A broker call fails and Subscribe returns its error; or a live
\* subscription ends.
End ==
    /\ pc \in {"info", "hi", "gallop", "bisect", "create", "live"}
    /\ pc = "bisect" => ~Adjacent   \* the last bisection makes no call
    /\ pc' = "idle" /\ req' = NoRequest /\ info' = NoInfo /\ NoSearch
    /\ policy' = Policy("New", 0) /\ start' = 0
    /\ UNCHANGED stream

Step == Info \/ pickDeliverPolicy \/ ProbeHi \/ Gallop \/ Bisect \/ CreateConsumer

Next ==
    \/ \E m \in BOOLEAN : Publish(m)
    \/ Expire
    \/ \E r \in Replays, f \in Froms : Subscribe(r, f)
    \/ Step
    \/ End

Spec == Init /\ [][Next]_vars

\* A Subscribe that is running goes on.
FairSpec == Spec /\ WF_vars(Step)

-----------------------------------------------------------------------------
\* A live subscription that replays (it neither resumes nor only tails).
Replaying == pc = "live" /\ ~Resumes /\ req.replay > 0

\* While records are published and expire under the search, the window it
\* settles on still holds the newest replay records, or all there are
\* (pickDeliverPolicy, replayStart), on a stream that was not empty.
ReplaysNewest ==
    Replaying /\ info.last > 0 => WindowComplete(match, req.replay, start)

\* The window is no larger than asked for: beyond the replay records it holds
\* at most what was published since Subscribe looked at the stream ("good
\* holds exactly n", replayStart).
ReplaysNoMore ==
    Replaying => pending(match, start) <= req.replay + (last - info.last)

\* The promise of journal.Source as written: the most recent replay records,
\* clamped to what is available, followed by new records.
ReplayPromise == Replaying => WindowComplete(match, req.replay, start)

\* A running Subscribe settles on a start or fails: the gallop and the
\* bisection terminate although the stream moves under them.
Terminates == (pc # "idle") ~> (pc \in {"live", "idle"})
=============================================================================
