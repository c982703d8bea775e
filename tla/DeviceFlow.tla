----------------------------- MODULE DeviceFlow -----------------------------
(***************************************************************************)
(* auth/oidcclient/deviceflow.go: RunDeviceFlow polls the token endpoint   *)
(* until the user has approved the login on another device, leaving the    *)
(* issuer the interval it asked for, and longer after each slow_down.      *)
(*                                                                         *)
(* Time is counted in the five seconds a slow_down adds, down to the       *)
(* deadline (left) and to the end of the sleep (nap).                      *)
(***************************************************************************)
EXTENDS Integers, Discovery

CONSTANTS Intervals,    \* the intervals and lifetimes an issuer may answer,
          Lifetimes,    \* 0 for none
          DefaultInterval, DefaultLifetime,
          MaxSlowDowns  \* bound: slow_down answers

ASSUME DeviceAssumption ==
    /\ Intervals \subseteq Nat /\ Lifetimes \subseteq Nat /\ MaxSlowDowns \in Nat
    /\ DefaultInterval \in Nat \ {0} /\ DefaultLifetime \in Nat \ {0}

VARIABLE device

\* History: asked, the pause the issuer wants between two polls; since, the
\* time since it answered the last one.
DeviceState ==
    [pc : {"off", "authorize", "check", "sleep", "poll", "granted", "failed"},
     interval : Nat, left : Int, nap : Nat, slowed : 0..MaxSlowDowns,
     asked : Nat, since : Nat]
NoDevice == [pc |-> "off", interval |-> 0, left |-> 0, nap |-> 0, slowed |-> 0,
             asked |-> 0, since |-> 0]
DeviceEnds(pc) == device' = [NoDevice EXCEPT !.pc = pc]

DeviceInit == device = NoDevice

-----------------------------------------------------------------------------
OrDefault(n, d) == IF n <= 0 THEN d ELSE n

StartDevice ==
    /\ device.pc = "off"
    /\ device' = [NoDevice EXCEPT !.pc = "authorize"]

\* The device_authorization request: postForm refuses a cleartext endpoint, and
\* the call or its answer may be bad.
Authorize ==
    /\ device.pc = "authorize"
    /\ \/ \E ep \in Resolved, i \in Intervals, l \in Lifetimes :
            /\ ep["device"].secure
            /\ device' = [NoDevice EXCEPT !.pc = "check", !.interval = OrDefault(i, DefaultInterval),
                            !.left = OrDefault(l, DefaultLifetime), !.asked = OrDefault(i, DefaultInterval)]
       \/ DeviceEnds("failed")

\* The head of the loop.
CheckDeadline ==
    /\ device.pc = "check"
    /\ IF device.left < 0 THEN DeviceEnds("failed")
       ELSE device' = [device EXCEPT !.pc = "sleep", !.nap = device.interval]

DeviceCancelled == device.pc \in {"sleep", "poll"} /\ DeviceEnds("failed")

WakeUp ==
    /\ device.pc = "sleep" /\ device.nap = 0
    /\ device' = [device EXCEPT !.pc = "poll"]

\* slow_down adds five seconds, for good.
SlowDown_Ignored(d) == d

SlowDown(d) == [d EXCEPT !.interval = @ + 1]

Pending(d) == [d EXCEPT !.pc = "check", !.since = 0]

PollAnswered ==
    /\ device.pc = "poll"
    /\ \/ DeviceEnds("granted")
       \/ DeviceEnds("failed")
       \/ device' = Pending(device)
       \/ /\ device.slowed < MaxSlowDowns
          /\ device' = [Pending(SlowDown(device)) EXCEPT !.slowed = @ + 1, !.asked = @ + 1]

\* Five seconds pass, also while the token endpoint has the request.
Sleeping == device.pc = "sleep" /\ device.nap > 0
Elapses ==
    /\ Sleeping \/ (device.pc = "poll" /\ device.left >= 0)
    /\ device' = [device EXCEPT !.left = @ - 1, !.nap = IF @ > 0 THEN @ - 1 ELSE 0,
                                !.since = @ + 1]

DeviceSteps == StartDevice \/ Authorize \/ CheckDeadline \/ WakeUp \/ PollAnswered
                 \/ (Sleeping /\ Elapses)
DeviceEnvironment == DeviceCancelled \/ Elapses

-----------------------------------------------------------------------------
\* The issuer is polled no faster than it asked for, each slow_down included,
\* and a poll begins at most one interval after the device code has expired.
PollsPaced ==
    /\ device.pc = "poll" => device.since >= device.asked
    /\ device.pc = "sleep" => device.left - device.nap >= -device.interval
=============================================================================
