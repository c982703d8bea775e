------------------------------ MODULE CodeFlow ------------------------------
(***************************************************************************)
(* auth/oidcclient: RunCodeFlow over LoopbackCallback (codeflow.go,        *)
(* loopback.go).  The flow serves a loopback port, sends the user to the   *)
(* issuer, waits for the redirect and exchanges the code it carries.  The  *)
(* port is open to every local process: requests without this login's      *)
(* state reach the handler too, and a user who reloads or opens the page   *)
(* twice is redirected twice.                                              *)
(*                                                                         *)
(* One flow runs at a time here; flows share nothing.  Its genuine         *)
(* redirects are numbered in the order they reach the handler.             *)
(***************************************************************************)
EXTENDS Integers, Discovery

CONSTANT MaxRedirects  \* bound: genuine redirects of one login

ASSUME CodeAssumption == MaxRedirects \in Nat

VARIABLE code

\* What handle makes of a redirect: its code, or 0 for an error.
Redirects == 0..MaxRedirects
ServeError == -1
Nothing == -2

\* pc: where RunCodeFlow is; serving: the loopback server is up; done, result:
\* those of LoopbackCallback, Nothing for an empty channel; got: what Wait
\* returns, Nothing for a timeout or a cancelled context.
\* History: seen, the number of genuine redirects; first, what the first of
\* them said; told, those answered "Login successful".
CodeState ==
    [pc : {"off", "discover", "wait", "shut", "exchange", "failed"},
     serving : BOOLEAN, done : BOOLEAN, result : Redirects \cup {ServeError, Nothing},
     got : Redirects \cup {ServeError, Nothing}, seen : Redirects, first : Redirects \cup {Nothing},
     told : SUBSET Redirects]
NoCode == [pc |-> "off", serving |-> FALSE, done |-> FALSE, result |-> Nothing, got |-> Nothing,
           seen |-> 0, first |-> Nothing, told |-> {}]
CodeFails == code' = [NoCode EXCEPT !.pc = "failed"]

CodeInit == code = NoCode

-----------------------------------------------------------------------------
\* Up to StartLoopbackCallback: the random source or the listener may fail.
StartCode ==
    /\ code.pc = "off"
    /\ \/ code' = [NoCode EXCEPT !.pc = "discover", !.serving = TRUE]
       \/ CodeFails

\* The authorize URL must parse and be secure before the browser is opened;
\* otherwise the deferred listener.Close ends the server.
OpenBrowser ==
    /\ code.pc = "discover"
    /\ \E ep \in Resolved, parses \in BOOLEAN :
        IF parses /\ ep["authorize"].secure
        THEN code' = [code EXCEPT !.pc = "wait"]
        ELSE CodeFails

\* LoopbackCallback.serve, for the first request whose outcome counts.
Decide_Latest(v) == [code EXCEPT !.done = TRUE, !.result = v]

Decide(v) == IF code.done THEN code ELSE [code EXCEPT !.done = TRUE, !.result = v]

\* A request with another state is ignored; the callback stays open.
Stray_Counts == code' = Decide(0)

Stray == UNCHANGED code

StrayRequest == code.serving /\ Stray

\* A redirect with a code or with an error, once the user can have followed the
\* authorize URL; one that comes late is answered 409.
Redirect(ok) ==
    /\ code.serving /\ code.pc # "discover" /\ code.seen < MaxRedirects
    /\ LET n == code.seen + 1
           v == IF ok THEN n ELSE 0
       IN code' = [Decide(v) EXCEPT
                     !.seen = n, !.first = IF code.seen = 0 THEN v ELSE @,
                     !.told = IF ok /\ ~code.done THEN @ \cup {n} ELSE @]

\* Serve fails while the flow runs.
ServeFails == code.serving /\ ~code.done /\ code' = Decide(ServeError)

\* Wait's select: the result, if there is one, the timeout, or ctx.
Wait ==
    /\ code.pc = "wait"
    /\ \E v \in {code.result, Nothing} :
        code' = [code EXCEPT !.pc = "shut", !.got = v,
                             !.result = IF v = code.result THEN Nothing ELSE @]

\* Wait's deferred Shutdown, which lets running handlers end.
ShutdownCallback ==
    /\ code.pc = "shut"
    /\ IF code.got \in Redirects \ {0}
       THEN code' = [NoCode EXCEPT !.pc = "exchange", !.got = code.got,
                                   !.first = code.first, !.told = code.told]
       ELSE CodeFails

CodeSteps == StartCode \/ OpenBrowser \/ Wait \/ ShutdownCallback
CodeEnvironment == StrayRequest \/ (\E ok \in BOOLEAN : Redirect(ok)) \/ ServeFails

-----------------------------------------------------------------------------
\* The first genuine redirect decides the login: the code that is exchanged is
\* its code, whatever strays, reloads or a failing server do around it, and no
\* other redirect is told that the login succeeded (LoopbackCallback.serve).
FirstRedirectDecides ==
    /\ code.got \in Redirects => code.got = code.first
    /\ code.told \subseteq {code.first}
=============================================================================
