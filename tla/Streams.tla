------------------------------ MODULE Streams ------------------------------
(***************************************************************************)
(* journal/sse and the subscriptions behind it (journal/jetstream): each   *)
(* SSE request takes a slot of Limits, resolves the stream once for all    *)
(* (ensureStream), creates an ephemeral consumer on the broker and then    *)
(* runs as three goroutines, the handler, the reader that feeds it and the *)
(* watcher that stops the reader's iterator.  A request is used once; a    *)
(* reconnect is another one.                                               *)
(*                                                                         *)
(* Which records are delivered is the matter of DeliverPolicy and Tracker; *)
(* here a message is an event.  Calls to the broker and writes to the      *)
(* client end, well or badly: the client library and WriteTimeout bound    *)
(* them.  Service adds the server that the handlers run in.                *)
(***************************************************************************)
EXTENDS Integers, FiniteSets, Sequences

CONSTANTS Requests, Clients,
          ClientKey,  \* [Requests -> Clients]
          LimitsConfigs,  \* the caps tried, [MaxStreams, MaxPerClient], 0 for none
          NONE

ASSUME StreamsAssumption ==
    /\ IsFiniteSet(Requests) /\ NONE \notin Requests /\ ClientKey \in [Requests -> Clients]
    /\ LimitsConfigs \subseteq [MaxStreams : Nat, MaxPerClient : Nat]

VARIABLES gctx,       \* is the group's context cancelled (Handler.Done)?
          closing,    \* Source.Close was called
          stream,     \* is the stream resolved?
          lookup,     \* the request whose lookup is in flight, or NONE
          cfg, total, perClient,  \* Limits
          reqs

streamVars == <<closing, stream, lookup, cfg, total, perClient, reqs>>

\* h: the handler; gone: the client left; sub: the subscription's context is
\* cancelled; watch: the watcher runs; stopped: the iterator is; cons: there is
\* a consumer for this process to delete.
Req == [h : {"new", "ensure", "wait", "lookup", "create", "messages", "write",
             "serve", "exit", "done"},
        gone : BOOLEAN, sub : BOOLEAN, watch : BOOLEAN, stopped : BOOLEAN,
        reader : {"none", "next", "send", "closed", "ended"}, cons : BOOLEAN]
NewReq == [h |-> "new", gone |-> FALSE, sub |-> FALSE, watch |-> FALSE,
           stopped |-> FALSE, reader |-> "none", cons |-> FALSE]

Active(r) == reqs[r].h \notin {"new", "done"}
Cancelled(r) == reqs[r].sub
Served(r) == reqs[r].h \notin {"new", "exit", "done"}

NewSource == closing = FALSE /\ stream = FALSE /\ lookup = NONE

NewLimits ==
    cfg \in LimitsConfigs /\ total = 0 /\ perClient = [k \in Clients |-> 0]

StreamsInit ==
    gctx = FALSE /\ NewSource /\ NewLimits /\ reqs = [r \in Requests |-> NewReq]

-----------------------------------------------------------------------------
Step(r, q) == reqs' = [reqs EXCEPT ![r] = q]
Goto(r, h) == Step(r, [reqs[r] EXCEPT !.h = h])

limits == <<cfg, total, perClient>>
source == <<closing, stream, lookup>>

\* Limits.acquire
Full(n, max) == max > 0 /\ n >= max

Count(n, k, d) == IF cfg.MaxPerClient > 0 THEN [n EXCEPT ![k] = @ + d] ELSE n

\* A request that is refused, like one whose writer cannot flush, ends at once.
Open(r) ==
    LET k == ClientKey[r] IN
    /\ reqs[r].h = "new"
    /\ IF Full(total, cfg.MaxStreams) \/ Full(perClient[k], cfg.MaxPerClient)
       THEN Goto(r, "done") /\ UNCHANGED <<total, perClient>>
       ELSE /\ Goto(r, "ensure")
            /\ total' = total + 1 /\ perClient' = Count(perClient, k, 1)
    /\ UNCHANGED <<gctx, source, cfg>>

\* The client leaves: net/http cancels the request's context and with it the
\* subscription's.
Leave(r) ==
    /\ Served(r) /\ ~reqs[r].gone
    /\ Step(r, [reqs[r] EXCEPT !.gone = TRUE, !.sub = TRUE])
    /\ UNCHANGED <<gctx, source, limits>>

\* The goroutine that turns Done into a cancelled subscription.
CancelSub(r) ==
    /\ Served(r) /\ gctx /\ ~reqs[r].sub
    /\ Step(r, [reqs[r] EXCEPT !.sub = TRUE])
    /\ UNCHANGED <<gctx, source, limits>>

\* ensureStream: one round of its loop.
EnsureStream(r) ==
    /\ reqs[r].h = "ensure"
    /\ \/ stream /\ Goto(r, "create") /\ UNCHANGED lookup
       \/ ~stream /\ lookup # NONE /\ Goto(r, "wait") /\ UNCHANGED lookup
       \/ ~stream /\ lookup = NONE /\ Goto(r, "lookup") /\ lookup' = r
    /\ UNCHANGED <<gctx, closing, stream, limits>>

GiveUp(r) ==
    /\ reqs[r].h = "wait" /\ Cancelled(r)
    /\ Goto(r, "exit")
    /\ UNCHANGED <<gctx, source, limits>>

\* fetchStream: closing done sends every waiter round its loop again.
Woken_Forgotten(q) == q

Woken(q) == IF q.h = "wait" THEN [q EXCEPT !.h = "ensure"] ELSE q

FetchStream(r, ok) ==
    /\ reqs[r].h = "lookup"
    /\ stream' = ok /\ lookup' = NONE
    /\ reqs' = [s \in Requests |->
                    IF s = r THEN [reqs[r] EXCEPT !.h = IF ok THEN "create" ELSE "exit"]
                    ELSE Woken(reqs[s])]
    /\ UNCHANGED <<gctx, closing, limits>>

\* The rest of Subscribe: StreamInfo, the probe consumers that pendingFrom creates
\* and deletes before it returns, and the consumer.  One whose creation was not
\* answered or that could not be deleted is left to the broker's InactiveThreshold.
CreateConsumer(r, ok) ==
    /\ reqs[r].h = "create"
    /\ Step(r, [reqs[r] EXCEPT !.cons = ok, !.h = IF ok THEN "messages" ELSE "exit"])
    /\ UNCHANGED <<gctx, source, limits>>

releaseConsumer(q) == [q EXCEPT !.cons = FALSE]

Messages(r) ==
    /\ reqs[r].h = "messages"
    /\ \/ Step(r, [reqs[r] EXCEPT !.h = "write", !.watch = TRUE, !.reader = "next"])
       \/ Step(r, releaseConsumer([reqs[r] EXCEPT !.h = "exit"]))
    /\ UNCHANGED <<gctx, source, limits>>

-----------------------------------------------------------------------------
\* The handler's loop: a heartbeat, a message, or a reason to end.
Ends(r) == reqs[r].gone \/ gctx \/ reqs[r].reader \in {"closed", "ended"}

ServeEnds(r) ==
    /\ reqs[r].h = "serve" /\ Ends(r)
    /\ Goto(r, "exit")
    /\ UNCHANGED <<gctx, source, limits>>

Heartbeat(r) ==
    /\ reqs[r].h = "serve"
    /\ Goto(r, "write")
    /\ UNCHANGED <<gctx, source, limits>>

Receive(r) ==
    /\ reqs[r].h = "serve" /\ reqs[r].reader = "send"
    /\ Step(r, [reqs[r] EXCEPT !.h = "write", !.reader = "next"])
    /\ UNCHANGED <<gctx, source, limits>>

\* arm, write, flush.
Write(r, ok) ==
    /\ reqs[r].h = "write"
    /\ Goto(r, IF ok THEN "serve" ELSE "exit")
    /\ UNCHANGED <<gctx, source, limits>>

\* The deferred cancelSub and release.
Return_Slot(r) ==
    /\ reqs[r].h = "exit"
    /\ Step(r, [reqs[r] EXCEPT !.h = "done", !.gone = FALSE, !.sub = TRUE])
    /\ total' = total - 1 /\ UNCHANGED perClient
    /\ UNCHANGED <<gctx, source, cfg>>

Return(r) ==
    /\ reqs[r].h = "exit"
    /\ Step(r, [reqs[r] EXCEPT !.h = "done", !.gone = FALSE, !.sub = TRUE])
    /\ total' = total - 1 /\ perClient' = Count(perClient, ClientKey[r], -1)
    /\ UNCHANGED <<gctx, source, cfg>>

\* The reader goroutine: Next returns a message, or fails because the
\* iterator was stopped or the connection is gone.
NextMessage(r) ==
    /\ reqs[r].reader = "next" /\ ~reqs[r].stopped
    /\ Step(r, [reqs[r] EXCEPT !.reader = "send"])
    /\ UNCHANGED <<gctx, source, limits>>

NextFails(r) ==
    /\ reqs[r].reader = "next"
    /\ Step(r, [reqs[r] EXCEPT !.reader = "closed"])
    /\ UNCHANGED <<gctx, source, limits>>

\* Nobody will take the message: ctx.Done, closing.
GivesUp(r) == Cancelled(r) \/ closing

SendAborts(r) ==
    /\ reqs[r].reader = "send" /\ GivesUp(r)
    /\ Step(r, [reqs[r] EXCEPT !.reader = "closed"])
    /\ UNCHANGED <<gctx, source, limits>>

\* The last of the reader's deferred calls.
ReaderEnds_Early(r) ==
    /\ reqs[r].reader = "closed"
    /\ Step(r, [reqs[r] EXCEPT !.reader = "ended", !.stopped = TRUE])
    /\ UNCHANGED <<gctx, source, limits>>

ReaderEnds(r) ==
    /\ reqs[r].reader = "closed"
    /\ Step(r, releaseConsumer([reqs[r] EXCEPT !.reader = "ended", !.stopped = TRUE]))
    /\ UNCHANGED <<gctx, source, limits>>

\* The watcher.
Watch(r) ==
    /\ reqs[r].watch
    /\ Cancelled(r) \/ closing \/ reqs[r].reader \in {"closed", "ended"}
    /\ Step(r, [reqs[r] EXCEPT !.watch = FALSE, !.stopped = TRUE])
    /\ UNCHANGED <<gctx, source, limits>>

Close ==
    /\ ~closing /\ closing' = TRUE
    /\ UNCHANGED <<gctx, stream, lookup, limits, reqs>>

\* What each goroutine does when it can.
Proceeds(r) ==
    \/ EnsureStream(r) \/ GiveUp(r)
    \/ \E ok \in BOOLEAN : FetchStream(r, ok) \/ CreateConsumer(r, ok) \/ Write(r, ok)
    \/ Messages(r) \/ Return(r)
Reads(r) == SendAborts(r) \/ ReaderEnds(r) \/ (reqs[r].stopped /\ NextFails(r))

StreamsNext ==
    \/ \E r \in Requests :
        \/ Leave(r) \/ CancelSub(r) \/ Proceeds(r)
        \/ ServeEnds(r) \/ Heartbeat(r) \/ Receive(r)
        \/ NextMessage(r) \/ NextFails(r) \/ SendAborts(r) \/ ReaderEnds(r) \/ Watch(r)
    \/ Close

-----------------------------------------------------------------------------
\* Limits counts exactly the handlers that run, of each client and in all, on
\* every path a handler can end, so slots are never lost; and both caps hold.
SlotsMatch ==
    /\ total = Cardinality({r \in Requests : Active(r)})
    /\ cfg.MaxStreams > 0 => total <= cfg.MaxStreams
    /\ cfg.MaxPerClient > 0 => \A k \in Clients :
        /\ perClient[k] = Cardinality({r \in Requests : Active(r) /\ ClientKey[r] = k})
        /\ perClient[k] <= cfg.MaxPerClient

\* "Otherwise every (re)connect leaves one behind" (Subscribe): a consumer is
\* kept only while a goroutine is there that will delete it.
NoOrphan ==
    \A r \in Requests : reqs[r].cons =>
        reqs[r].h = "messages" \/ reqs[r].reader \in {"next", "send", "closed"}

\* "At most one lookup runs at a time" (ensureStream), and whoever waits does so
\* for one that is in flight: a lookup that fails, or that is cancelled with its
\* request, leaves nobody waiting for an answer that never comes (fetchStream's
\* deferred release).
LookupLed ==
    \A r \in Requests : /\ reqs[r].h = "lookup" <=> lookup = r
                        /\ reqs[r].h = "wait" => lookup # NONE

\* No handler and no goroutine of a subscription is left.
Quiet ==
    \A r \in Requests :
        ~Active(r) /\ reqs[r].reader \in {"none", "ended"} /\ ~reqs[r].watch
=============================================================================
