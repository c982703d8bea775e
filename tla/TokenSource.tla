---------------------------- MODULE TokenSource ----------------------------
(***************************************************************************)
(* What BearerTokenManager promises the requests of an API client: one     *)
(* token that is only ever replaced by a newer one, by one renewal at a    *)
(* time, and calls that are answered with a token that was the current one *)
(* at some moment of the call, or with an error.  BearerToken, with its    *)
(* locks, clocks and detached refreshes, implements it.                    *)
(***************************************************************************)
EXTENDS Naturals

CONSTANTS Callers,
          Tokens  \* numbered by age

VARIABLES current,   \* the token
          renewing,  \* is a renewal under way?
          asks       \* the call of each caller

vars == <<current, renewing, asks>>

Ask == [pc : {"out", "asked", "looked", "answered", "failed"}, val : Tokens \cup {0}]
Out == [pc |-> "out", val |-> 0]

Init == current \in Tokens /\ renewing = FALSE /\ asks = [c \in Callers |-> Out]

Set(c, pc, v) == asks' = [asks EXCEPT ![c] = [pc |-> pc, val |-> v]]

\* A call begins; a token that is fresh answers it at once.
Call(c) ==
    /\ asks[c].pc = "out"
    /\ Set(c, "asked", 0) \/ Set(c, "answered", current)
    /\ UNCHANGED <<current, renewing>>

\* A call notes the token and waits for the renewal under way, or starts one.
Look(c) ==
    /\ asks[c].pc = "asked" /\ Set(c, "looked", current)
    /\ renewing' = TRUE
    /\ UNCHANGED current

\* The answer is the current token or the one the call has noted.
Answer(c) ==
    /\ \/ asks[c].pc \in {"asked", "looked"} /\ Set(c, "answered", current)
       \/ asks[c].pc = "looked" /\ Set(c, "answered", asks[c].val)
    /\ UNCHANGED <<current, renewing>>

Fail(c) ==
    /\ asks[c].pc \in {"asked", "looked"} /\ Set(c, "failed", 0)
    /\ UNCHANGED <<current, renewing>>

\* The call returns, or its context ends while it waits.
Leave(c) ==
    /\ asks[c].pc \in {"looked", "answered", "failed"} /\ Set(c, "out", 0)
    /\ UNCHANGED <<current, renewing>>

\* The renewal ends, with a newer token or with none.
Renew ==
    /\ renewing /\ renewing' = FALSE
    /\ \/ current' \in Tokens /\ current' > current
       \/ UNCHANGED current
    /\ UNCHANGED asks

Next ==
    \/ \E c \in Callers : Call(c) \/ Look(c) \/ Answer(c) \/ Fail(c) \/ Leave(c)
    \/ Renew

Spec == Init /\ [][Next]_vars
=============================================================================
