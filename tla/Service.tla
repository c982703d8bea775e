------------------------------ MODULE Service ------------------------------
(***************************************************************************)
(* run/run.go: a daemon whose components, an HTTPServer that serves event  *)
(* streams (Streams) and others, run under Group.  The first component to  *)
(* return cancels the rest; the server then waits for its handlers, whose  *)
(* contexts Shutdown does not cancel, and closes their connections when    *)
(* they take too long.                                                     *)
(***************************************************************************)
EXTENDS Streams

CONSTANT Workers  \* the other components

ASSUME ServiceAssumption == NONE \notin {"nil", "server"} \cup Workers /\ {"nil", "canceled"} \cap Workers = {}

VARIABLES listener,  \* the listener: serving, failed, or closed by Shutdown
          comps,     \* the components, as Group's goroutines run them
          errCh,
          returned,  \* what Group has returned, or NONE
          failed     \* history: the component whose error was sent first, or NONE

groupVars == <<listener, comps, errCh, returned, failed>>
vars == <<gctx, streamVars, groupVars>>

Server == "server"
Components == {Server} \cup Workers

\* What a component returns: nil, context.Canceled or another error, named in
\* errCh by the component.  Its goroutine is at that outcome until it has sent
\* it, or at "some": what another component returned is seen by nobody before it
\* is sent, and chosen then.
Outcomes == {"nil", "canceled", "failed"}

Init ==
    /\ StreamsInit
    /\ listener = "serving" /\ returned = NONE /\ errCh = <<>> /\ failed = NONE
    /\ comps = [c \in Components |-> "run"]

-----------------------------------------------------------------------------
\* A goroutine of Group: the component returns, and cancel() brings the rest
\* down.
Returns(c, e) ==
    comps' = [comps EXCEPT ![c] = e] /\ gctx' = TRUE

\* Its outcome is sent only then: others may return and send in between.  errCh
\* has room for all, since nobody receives before all are through.
Sends_Unbuffered(c) == FALSE /\ comps[c] = "some" /\ UNCHANGED vars

Sends(c) ==
    /\ \E e \in Outcomes :
        /\ comps[c] \in {e, "some"}
        /\ errCh' = Append(errCh, IF e = "failed" THEN c ELSE e)
        /\ failed' = IF e = "failed" /\ failed = NONE THEN c ELSE failed
    /\ comps' = [comps EXCEPT ![c] = "ended"]
    /\ UNCHANGED <<gctx, streamVars, listener, returned>>

\* A signal cancels the parent context.
Signal ==
    /\ ~gctx /\ gctx' = TRUE
    /\ UNCHANGED <<streamVars, groupVars>>

\* A component returns by itself, or because its context is cancelled.
WorkerReturns(c) ==
    /\ comps[c] = "run"
    /\ Returns(c, "some")
    /\ UNCHANGED <<streamVars, listener, errCh, returned, failed>>

\* HTTPServer: a listener that failed leaves its open connections, which can
\* bring another request, also after the component has returned.
Accepting == comps[Server] = "run" \/ listener = "failed"

ListenFails ==
    /\ comps[Server] = "run" /\ listener = "serving" /\ listener' = "failed"
    /\ UNCHANGED <<gctx, streamVars, comps, errCh, returned, failed>>

ServeFails ==
    /\ comps[Server] = "run" /\ listener = "failed"
    /\ Returns(Server, "failed")
    /\ UNCHANGED <<streamVars, listener, errCh, returned, failed>>

Shutdown ==
    /\ comps[Server] = "run" /\ gctx
    /\ comps' = [comps EXCEPT ![Server] = "shutdown"] /\ listener' = "closed"
    /\ UNCHANGED <<gctx, streamVars, errCh, returned, failed>>

ShutdownDone ==
    /\ comps[Server] = "shutdown" /\ \A r \in Requests : ~Active(r)
    /\ Returns(Server, "nil")
    /\ UNCHANGED <<streamVars, listener, errCh, returned, failed>>

\* shutdownTimeout passes: srv.Close closes the connections.
ShutdownTimeout ==
    /\ comps[Server] = "shutdown" /\ \E r \in Requests : Active(r)
    /\ Returns(Server, "failed")
    /\ reqs' = [r \in Requests |->
                   IF Served(r) THEN [reqs[r] EXCEPT !.gone = TRUE, !.sub = TRUE] ELSE reqs[r]]
    /\ UNCHANGED <<source, limits, listener, errCh, returned, failed>>

\* The end of Group: once all goroutines are through, the first of the sent
\* outcomes that is an error, and not the one the cancelled context gives.
Real_Any(e) == e # "nil"

Real(e) == e \notin {"nil", "canceled"}

RealAt(s) == {i \in DOMAIN s : Real(s[i])}
First(s) ==
    IF RealAt(s) = {} THEN "nil"
    ELSE s[CHOOSE i \in RealAt(s) : \A j \in RealAt(s) : i <= j]

GroupReturns ==
    /\ returned = NONE /\ \A c \in Components : comps[c] = "ended"
    /\ returned' = First(errCh) /\ errCh' = <<>>
    /\ UNCHANGED <<gctx, streamVars, listener, comps, failed>>

GroupNext ==
    \/ Signal \/ ListenFails \/ ServeFails \/ Shutdown \/ ShutdownDone \/ ShutdownTimeout
    \/ \E c \in Workers : WorkerReturns(c)
    \/ \E c \in Components : Sends(c)
    \/ GroupReturns

Next ==
    \/ StreamsNext /\ UNCHANGED groupVars
    \/ \E r \in Requests : Accepting /\ Open(r) /\ UNCHANGED groupVars
    \/ GroupNext

\* Something that can go on does, and a handler that finds the end of its loop
\* again and again takes it (select is fair, heartbeats are far apart).  One
\* condition each for all goroutines asks less of the scheduler than one per
\* goroutine; it is enough because every step but a write is taken finitely
\* often.  No client need leave, nothing need fail, shutdownTimeout need not
\* pass.
Progress ==
    \/ /\ UNCHANGED groupVars
       /\ \E r \in Requests : Proceeds(r) \/ CancelSub(r) \/ Reads(r) \/ Watch(r)
    \/ gctx /\ \E c \in Workers : WorkerReturns(c)
    \/ \E c \in Components : Sends(c)
    \/ ServeFails \/ Shutdown \/ ShutdownDone \/ GroupReturns

Fairness ==
    /\ WF_vars(Progress)
    /\ SF_vars(UNCHANGED groupVars /\ \E r \in Requests : ServeEnds(r))

Spec == Init /\ [][Next]_vars /\ Fairness

-----------------------------------------------------------------------------
\* Once the group is cancelled Group returns, without waiting for
\* shutdownTimeout, and leaves no handler and no goroutine of a subscription
\* behind: no stream outlives Done, whichever step of its setup or service it
\* is in and whatever its client does.
ShutdownIsClean == gctx ~> (returned # NONE /\ Quiet)

\* Group reports the first failure sent, and nil exactly when no component failed
\* for a reason of its own, in whatever order the goroutines return and send: the
\* failure of the only component that failed is not lost between cancel() and the
\* send, nor hidden by those that merely obeyed the cancelled context and sent
\* before it (the end of Group).
GroupReports == returned # NONE => returned = (IF failed = NONE THEN "nil" ELSE failed)
=============================================================================
