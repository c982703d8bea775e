------------------------------ MODULE Tracker ------------------------------
(***************************************************************************)
(* journal/tracker.go: a Tracker's ring of recent events, kept current by  *)
(* Run over the subscriptions of journal/jetstream's Source.  Publishers   *)
(* append to the stream, retention expires its oldest records, the broker  *)
(* drops the subscription or deletes and recreates the stream.             *)
(*                                                                         *)
(* Where a subscription starts is what DeliverPolicy guarantees of it.     *)
(* The consumer's reader goroutine holds one message at a time: the        *)
(* channel to ingest is unbuffered.                                        *)
(***************************************************************************)
EXTENDS Journal, Sequences

CONSTANTS MaxEvents,   \* TrackerConfig.Max
          InitLogs,    \* logs the stream may hold at first
          MaxSeq,      \* bound: records of one stream
          MaxPublish,  \* bound: records published during the run
          MaxDrops,    \* bound: dropped subscriptions and failed Subscribes
          Recreates,   \* bound: how often the stream is recreated
          Nothing      \* no message

\* A record is an event ("new", or "late": an older event published late), one
\* that Decode skips, one whose metadata decodeMsg cannot read, or one on another
\* subject.
Kinds == {"new", "late", "skip", "unreadable", "other"}
Record == [epoch : Nat, seq : Nat, kind : Kinds]

ASSUME TrackerAssumption ==
    /\ MaxEvents \in Nat \ {0} /\ MaxSeq \in Nat /\ MaxPublish \in Nat /\ MaxDrops \in Nat /\ Recreates \in Nat
    /\ InitLogs \subseteq Seq(Kinds) /\ Nothing \notin Record

VARIABLES log, first, epoch,   \* the stream: its records, oldest kept, incarnation
          published, drops,    \* how often the broker did so
          config,              \* TrackerConfig: ResubscribeWait > 0, Less # nil
          ctx,                 \* has Run's context been cancelled?
          pc, lastSeq, ring,   \* Run, ingest
          infoLast, infoEpoch, \* LastSeq in Subscribe's StreamInfo, and whose it is
          cons,                \* the consumer's next sequence, 0 when there is none
          hand,                \* the message the consumer's reader holds
          base                 \* history: where the ring's coverage begins

broker == <<log, first, epoch, published>>
run == <<pc, lastSeq, ring, infoLast, infoEpoch, base>>
trackerVars == <<broker, drops, config, ctx, run, cons, hand>>

At(s) == [epoch |-> epoch, seq |-> s, kind |-> log[s]]
match == {s \in first..Len(log) : log[s] # "other"}
keep(r) == r.kind \in {"new", "late"}

\* Type invariant: in particular, the ring never outgrows Max.
TrackerTypeOK ==
    /\ log \in Seq(Kinds) /\ first \in 1..(Len(log) + 1) /\ epoch \in Nat
    /\ published \in Nat /\ drops \in Nat
    /\ config \in [retry : BOOLEAN, less : BOOLEAN] /\ ctx \in BOOLEAN
    /\ pc \in {"subscribe", "create", "ingest", "wait", "done"}
    /\ lastSeq \in Nat /\ ring \in Seq(Record) /\ Len(ring) <= MaxEvents
    /\ infoLast \in Nat /\ infoEpoch \in Nat /\ base \in Nat
    /\ cons \in Nat /\ hand \in Record \cup {Nothing}

TrackerInit ==
    /\ log \in InitLogs /\ first = 1 /\ epoch = 0
    /\ published = 0 /\ drops = 0
    /\ config \in [retry : BOOLEAN, less : BOOLEAN] /\ ctx = FALSE
    /\ pc = "subscribe" /\ lastSeq = 0 /\ ring = <<>> /\ infoLast = 0 /\ infoEpoch = 0 /\ base = 0
    /\ cons = 0 /\ hand = Nothing

-----------------------------------------------------------------------------
\* The broker.
Publish(k) ==
    /\ Len(log) < MaxSeq /\ published < MaxPublish /\ published' = published + 1
    /\ log' = Append(log, k)
    /\ UNCHANGED <<first, epoch, drops, config, ctx, run, cons, hand>>

Expire ==
    /\ first <= Len(log)
    /\ first' = first + 1
    /\ UNCHANGED <<log, epoch, published, drops, config, ctx, run, cons, hand>>

\* The consumer is lost; the reader's next call to Next fails.
Drop ==
    /\ cons # 0 /\ drops < MaxDrops
    /\ cons' = 0 /\ drops' = drops + 1
    /\ UNCHANGED <<broker, config, ctx, run, hand>>

\* The stream is deleted, its consumers with it, and created anew; this may fall
\* between any two of Subscribe's calls.
Recreate ==
    /\ epoch < Recreates
    /\ log' = <<>> /\ first' = 1 /\ epoch' = epoch + 1
    /\ cons' = 0
    /\ UNCHANGED <<published, drops, config, ctx, run, hand>>

Cancel ==
    /\ ctx = FALSE
    /\ ctx' = TRUE
    /\ UNCHANGED <<broker, drops, config, run, cons, hand>>

-----------------------------------------------------------------------------
\* Run: subscribe, from after the last sequence ingested.
from_Again == lastSeq

from == IF lastSeq > 0 THEN lastSeq + 1 ELSE 0

Info ==
    /\ pc = "subscribe"
    /\ infoLast' = Len(log) /\ infoEpoch' = epoch /\ pc' = "create"
    /\ UNCHANGED <<broker, drops, config, ctx, lastSeq, ring, base, cons, hand>>

Resumes == from > 0 /\ from <= infoLast + 1

\* The starts DeliverPolicy allows.  What was computed for a stream recreated since
\* may be anywhere in the new one or past its end, where the broker waits for that
\* sequence or starts with the next record.
Starts ==
    IF Resumes THEN {from} \cup {s \in {Len(log) + 1} : s < from}
    ELSE IF infoLast = 0 THEN {Len(log) + 1}
    ELSE IF infoEpoch # epoch THEN (1..infoLast) \cup {Len(log) + 1}
    ELSE {s \in 1..(Len(log) + 1) :
            /\ WindowComplete(match, MaxEvents, s)
            /\ pending(match, s) <= MaxEvents + (Len(log) - infoLast)}

StartConsumer ==
    /\ pc = "create"
    /\ cons' \in Starts
    /\ base' = IF Resumes THEN base ELSE cons'
    /\ pc' = "ingest"
    /\ UNCHANGED <<broker, drops, config, ctx, lastSeq, ring, infoLast, infoEpoch, hand>>


AfterSource == IF config.retry THEN "wait" ELSE "done"

SubscribeFails ==
    /\ pc \in {"subscribe", "create"}
    /\ drops < MaxDrops /\ drops' = drops + 1
    /\ pc' = IF ctx THEN "done" ELSE AfterSource
    /\ UNCHANGED <<broker, config, ctx, lastSeq, ring, infoLast, infoEpoch, base, cons, hand>>

\* The reader: Next returns the consumer's next message, which is dropped when its
\* metadata is unreadable.
Fetch ==
    /\ pc = "ingest" /\ cons # 0 /\ hand = Nothing
    /\ \E s \in From(match, cons) :
        /\ \A t \in From(match, cons) : s <= t
        /\ hand' = IF log[s] = "unreadable" THEN Nothing ELSE At(s)
        /\ cons' = s + 1
    /\ UNCHANGED <<broker, drops, config, ctx, run>>

-----------------------------------------------------------------------------
newer(a, b) == a.kind = "new" /\ b.kind = "late"

\* insert: how many entries come before v.  Sorted stably by Less, those v is not
\* newer than (the ring was sorted before); else none, as v is the newest arrival.
place(r, v) ==
    IF config.less
    THEN CHOOSE p \in 0..Len(r) : \A i \in DOMAIN r : i <= p <=> ~newer(v, r[i])
    ELSE 0

\* The ring with v in its place, cut to Max.
insert(r, v) ==
    LET p == place(r, v)
        len == IF Len(r) < MaxEvents THEN Len(r) + 1 ELSE MaxEvents
    IN [i \in 1..len |-> IF i <= p THEN r[i] ELSE IF i = p + 1 THEN v ELSE r[i - 1]]

\* ingest: a sequence that goes backwards belongs to a recreated stream.
WentBack_Gap(seq) == lastSeq > 0 /\ seq # lastSeq + 1

WentBack(seq) == seq < lastSeq

\* The ring, emptied.
reset == <<>>

Ingest ==
    /\ pc = "ingest" /\ hand # Nothing
    /\ LET old == IF WentBack(hand.seq) THEN reset ELSE ring
       IN ring' = IF keep(hand) THEN insert(old, hand) ELSE old
    /\ lastSeq' = hand.seq
    /\ hand' = Nothing
    /\ UNCHANGED <<broker, drops, config, ctx, pc, infoLast, infoEpoch, base, cons>>

Closed ==
    /\ pc = "ingest" /\ cons = 0 /\ hand = Nothing
    /\ pc' = AfterSource
    /\ UNCHANGED <<broker, drops, config, ctx, lastSeq, ring, infoLast, infoEpoch, base, cons, hand>>

Wait ==
    /\ pc = "wait"
    /\ pc' = "subscribe"
    /\ UNCHANGED <<broker, drops, config, ctx, lastSeq, ring, infoLast, infoEpoch, base, cons, hand>>

\* Run notices the cancelled context in ingest, in a Subscribe that fails for
\* it, or while it waits; the reader lets its message go.
Noticing == {"subscribe", "create", "wait", "ingest"}

RunReturns ==
    /\ ctx /\ pc \in Noticing
    /\ pc' = "done" /\ cons' = 0 /\ hand' = Nothing
    /\ UNCHANGED <<broker, drops, config, ctx, lastSeq, ring, infoLast, infoEpoch, base>>

Run == Info \/ StartConsumer \/ Ingest \/ Closed \/ Wait

TrackerNext ==
    \/ \E k \in Kinds : Publish(k)
    \/ Expire \/ Drop \/ Recreate \/ Cancel
    \/ Run \/ Fetch \/ SubscribeFails \/ RunReturns

TrackerSpec == TrackerInit /\ [][TrackerNext]_trackerVars

\* Run and the reader are goroutines that are scheduled; the broker answers.
TrackerFairSpec == TrackerSpec /\ WF_trackerVars(Run) /\ WF_trackerVars(Fetch) /\ WF_trackerVars(RunReturns)

-----------------------------------------------------------------------------
Held(s) == \E i \in DOMAIN ring : ring[i] = At(s)

\* Does a stand before b?  By arrival, newest first, without a Less; with one, the
\* newer first and, of two that Less does not tell apart, the one that arrived first.
Before(a, b) ==
    IF config.less
    THEN newer(a, b) \/ (~newer(b, a) /\ a.seq < b.seq)
    ELSE a.seq > b.seq

\* Across dropped and resumed subscriptions to one stream nothing is skipped: an
\* event from where the ring's coverage begins up to the last sequence ingested
\* is in the ring, unless Max others that stand before it fill the ring.  With a
\* Less these may be events it ties with: of those the ring keeps the ones that
\* arrived first, and the latest arrival is cut.
NothingSkipped ==
    epoch = 0 => \A s \in match : base <= s /\ s <= lastSeq /\ keep(At(s)) =>
        \/ Held(s)
        \/ Len(ring) = MaxEvents /\ \A i \in DOMAIN ring : Before(ring[i], At(s))

\* Nothing is duplicated, and the ring is in order, events that tie included.
NewestFirst ==
    epoch = 0 => \A i, j \in DOMAIN ring : i < j => Before(ring[i], ring[j])

\* So across drops and resumptions the ring is exactly the first Max, in the order
\* Before, of the events ingested, each once.
RingIsNewest == NothingSkipped /\ NewestFirst

\* Entries of the stream that is still there are never dropped as another
\* stream's: they leave the ring only when Max others fill it.
ResetIsJustified ==
    [][\A i \in DOMAIN ring : ring[i].epoch = epoch' =>
         \/ \E j \in DOMAIN ring' : ring'[j] = ring[i]
         \/ Len(ring') = MaxEvents]_trackerVars

=============================================================================
