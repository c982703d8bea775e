------------------------------ MODULE CliLogin ------------------------------
(***************************************************************************)
(* auth/oidcclient/login.go: Login as a whole.  The token cache that       *)
(* helper processes share (TokenCache), with the code flow or the device   *)
(* flow that a login goes through before it takes the lock.  One login is  *)
(* in its flow at a time: flows of two logins share nothing.               *)
(***************************************************************************)
EXTENDS TokenCache, CodeFlow, DeviceFlow

flowVars == <<code, device>>
cliVars == <<vars, flowVars>>

NoFlow == code = NoCode /\ device = NoDevice

CliInit == Init /\ CodeInit /\ DeviceInit

-----------------------------------------------------------------------------
Login(p, c) ==
    /\ NoFlow /\ BeginLogin(p, c)
    /\ \/ StartCode /\ UNCHANGED device
       \/ StartDevice /\ UNCHANGED code

\* A step of the flow the login of p is in.
Flows(p) ==
    /\ procs[p].pc = "flow" /\ UNCHANGED vars
    /\ \/ code.pc # "off" /\ CodeSteps /\ UNCHANGED device
       \/ device.pc # "off" /\ DeviceSteps /\ UNCHANGED code

\* The flow ends: the code is exchanged, or the device was granted its tokens,
\* unless that call or its answer is bad; or the flow has failed.
Succeeds == code.pc = "exchange" \/ device.pc = "granted"
Fails == "failed" \in {code.pc, device.pc}

FlowEnds(p) ==
    /\ \/ Succeeds /\ LoggedIn(p)
       \/ (Succeeds \/ Fails) /\ LoginFails(p)
    /\ code' = NoCode /\ device' = NoDevice

\* What others do to the flow: the browser, strays, the user, the issuer.
Disturbs ==
    /\ UNCHANGED vars
    /\ \/ CodeEnvironment /\ UNCHANGED device
       \/ DeviceEnvironment /\ UNCHANGED code

\* The loopback port and the poll loop die with their process.
Dies(p) ==
    /\ Crash(p)
    /\ IF procs[p].pc = "flow" THEN code' = NoCode /\ device' = NoDevice
       ELSE UNCHANGED flowVars

CliNext ==
    \/ \E p \in Procs :
        \/ \E c \in Configs : Login(p, c)
        \/ Flows(p) \/ FlowEnds(p) \/ Dies(p)
        \/ \E op \in {"ensure", "logout"}, c \in Configs : Call(p, op, c) /\ UNCHANGED flowVars
        \/ (Work(p) \/ Locks(p) \/ LockFails(p) \/ Done(p)) /\ UNCHANGED flowVars
    \/ Disturbs
    \/ Age /\ UNCHANGED flowVars

CliSpec == CliInit /\ [][CliNext]_cliVars

\* A process runs on, an HTTP call is answered or fails, time passes (the code
\* flow's timeout, the device flow's sleeps), and polling the lock gets it when
\* it is free often enough.  Nothing makes lockTokens give up, and neither the
\* user nor a context need end a flow.
CliFairSpec ==
    /\ CliSpec
    /\ \A p \in Procs : /\ WF_cliVars(Work(p) /\ UNCHANGED flowVars)
                        /\ WF_cliVars(Flows(p) \/ FlowEnds(p))
                        /\ SF_cliVars(Locks(p) /\ UNCHANGED flowVars)
=============================================================================
