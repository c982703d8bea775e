----------------------------- MODULE MCService -----------------------------
\* Model-checking instance of Service: two requests of one client.
EXTENDS Service

CONSTANTS r1, r2, k1, w1

const_Key == [r \in Requests |-> k1]
\* Two streams at once, with both counters; then each cap refusing the second.
const_Limits == {[MaxStreams |-> 2, MaxPerClient |-> 2],
                 [MaxStreams |-> 1, MaxPerClient |-> 0],
                 [MaxStreams |-> 0, MaxPerClient |-> 1]}
=============================================================================
