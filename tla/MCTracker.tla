----------------------------- MODULE MCTracker -----------------------------
\* Model-checking instances of Tracker.
EXTENDS Tracker

\* A stream that holds records already, some of another subject.
Started == {<<"new", "other">>, <<"late", "new">>}
=============================================================================
