------------------------------ MODULE Journal ------------------------------
(***************************************************************************)
(* journal/journal.go: what a Source promises of the backfill window of a  *)
(* subscription.  A stream retains the sequences first..last; match is the *)
(* set of those that carry the subscribed subject.                         *)
(***************************************************************************)
EXTENDS Integers, FiniteSets

\* What a consumer that starts at sequence s has to deliver (external: the
\* broker's NumPending for a consumer created at s).
From(match, s) == {m \in match : m >= s}

pending(match, s) == Cardinality(From(match, s))

\* The window that starts at s holds the most recent n records, clamped to
\* what is available.
WindowComplete(match, n, s) ==
    \/ pending(match, s) >= n
    \/ From(match, s) = match
=============================================================================
