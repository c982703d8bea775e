------------------------ MODULE DeliverPolicyProofs ------------------------
(***************************************************************************)
(* The replay window of journal/jetstream's Subscribe, for streams and     *)
(* requests of every size.                                                 *)
(*                                                                         *)
(* The properties speak of a live subscription only.  IndInv carries them  *)
(* through the search: the upper end of the bracket never held n records   *)
(* beyond those published since Stream.Info, the lower end has a complete  *)
(* window, and both facts survive whatever is published and expires        *)
(* between two probes.                                                     *)
(***************************************************************************)
EXTENDS DeliverPolicy, FiniteSetTheorems, TLAPS

Slack == req.replay + (last - info.last)
Tight(s) == pending(match, s) <= Slack
Fewer(s) == pending(match, s) < Slack
Window(s) == WindowComplete(match, req.replay, s)

InfoInv ==
    pc \notin {"idle", "info"} =>
        /\ 1 <= info.first /\ info.first <= first
        /\ info.last <= last /\ info.first <= info.last + 1

SearchInv ==
    pc \in {"hi", "gallop", "bisect"} =>
        /\ ~Resumes /\ req.replay > 0 /\ info.last > 0
        /\ info.first <= bad /\ bad <= info.last + 1

HiInv == pc = "hi" => bad >= info.last - req.replay + 1 /\ step >= 1

GallopInv == pc = "gallop" => info.first < bad /\ step >= 1 /\ Fewer(bad)

BisectInv ==
    pc = "bisect" => /\ info.first <= good /\ good < bad
                     /\ Fewer(bad) /\ Window(good)

CreateInv ==
    pc = "create" /\ ~Resumes /\ req.replay > 0 =>
        /\ policy.kind = "ByStart" =>
               policy.opt <= last + 1 /\ Window(policy.opt) /\ Tight(policy.opt)
        /\ policy.kind = "All" => Tight(first)
        /\ policy.kind = "New" => info.last = 0

LiveInv ==
    Replaying => /\ start <= last + 1 /\ Tight(start)
                 /\ info.last > 0 => Window(start)

IndInv ==
    /\ TypeOK /\ InfoInv /\ SearchInv /\ HiInv
    /\ GallopInv /\ BisectInv /\ CreateInv /\ LiveInv

-----------------------------------------------------------------------------
(***************************************************************************)
(* A consumer's NumPending is a number, and a smaller set of records to    *)
(* deliver has a smaller one.                                              *)
(***************************************************************************)
LEMMA PendingType ==
    ASSUME NEW M, IsFiniteSet(M), NEW s
    PROVE  IsFiniteSet(From(M, s)) /\ pending(M, s) \in Nat
  <1>1. From(M, s) \in SUBSET M
    BY DEF From
  <1>2. IsFiniteSet(From(M, s))
    BY <1>1, FS_Subset
  <1>3. QED
    BY <1>2, FS_CardinalityType DEF pending

\* Where the records pending are among those of another start and set, they
\* are no more numerous.
LEMMA PendingMono ==
    ASSUME NEW M, IsFiniteSet(M), NEW s, NEW N, NEW t, From(N, t) \subseteq From(M, s)
    PROVE  pending(N, t) <= pending(M, s) /\ pending(N, t) \in Nat
  <1>1. IsFiniteSet(From(M, s))
    BY PendingType
  <1>2. From(N, t) \in SUBSET From(M, s)
    OBVIOUS
  <1>3. /\ IsFiniteSet(From(N, t))
        /\ Cardinality(From(N, t)) <= Cardinality(From(M, s))
    BY <1>1, <1>2, FS_Subset
  <1>4. QED
    BY <1>3, FS_CardinalityType DEF pending

(***************************************************************************)
(* One more record to deliver adds at most one to the count.               *)
(***************************************************************************)
LEMMA PendingOneMore ==
    ASSUME NEW M, IsFiniteSet(M), NEW s, NEW N, NEW t, NEW x,
           From(N, t) \subseteq From(M, s) \cup {x}
    PROVE  pending(N, t) <= pending(M, s) + 1 /\ pending(N, t) \in Nat
  <1>1. IsFiniteSet(From(M, s)) /\ pending(M, s) \in Nat
    BY PendingType
  <1>2. /\ IsFiniteSet(From(M, s) \cup {x})
        /\ Cardinality(From(M, s) \cup {x}) <= pending(M, s) + 1
    <2>1. /\ IsFiniteSet(From(M, s) \cup {x})
          /\ Cardinality(From(M, s) \cup {x}) =
                IF x \in From(M, s) THEN Cardinality(From(M, s))
                ELSE Cardinality(From(M, s)) + 1
      BY <1>1, FS_AddElement
    <2>2. pending(M, s) = Cardinality(From(M, s))
      BY DEF pending
    <2>3. QED
      BY <1>1, <2>1, <2>2
  <1>3. From(N, t) \in SUBSET (From(M, s) \cup {x})
    OBVIOUS
  <1>4. /\ IsFiniteSet(From(N, t))
        /\ Cardinality(From(N, t)) <= Cardinality(From(M, s) \cup {x})
    BY <1>2, <1>3, FS_Subset
  <1>5. Cardinality(From(M, s) \cup {x}) \in Nat /\ Cardinality(From(N, t)) \in Nat
    BY <1>2, <1>4, FS_CardinalityType
  <1>6. QED
    BY <1>1, <1>2, <1>4, <1>5 DEF pending

(***************************************************************************)
(* A start s delivers at most one record per sequence from s to the end.   *)
(***************************************************************************)
LEMMA PendingInterval ==
    ASSUME NEW l \in Int, NEW f \in Int, NEW M, M \subseteq f..l,
           NEW s \in Int, s <= l + 1
    PROVE  pending(M, s) <= l - s + 1
  <1>1. From(M, s) \in SUBSET (s..l)
    <2>1. ASSUME NEW x \in From(M, s)
          PROVE  x \in s..l
      <3>1. x \in f..l /\ x >= s
        BY <2>1 DEF From
      <3>2. QED
        BY <3>1
    <2>2. QED
      BY <2>1
  <1>2. IsFiniteSet(s..l) /\ Cardinality(s..l) = l - s + 1
    BY FS_Interval
  <1>3. QED
    BY <1>1, <1>2, FS_Subset DEF pending

(***************************************************************************)
(* The retained records on our subject are finite.                         *)
(***************************************************************************)
LEMMA MatchFinite ==
    ASSUME TypeOK
    PROVE  IsFiniteSet(match)
  <1>1. first \in Int /\ last \in Int /\ match \in SUBSET (first..last)
    BY DEF TypeOK
  <1>2. IsFiniteSet(first..last)
    BY <1>1, FS_Interval
  <1>3. QED
    BY <1>1, <1>2, FS_Subset, Zenon

-----------------------------------------------------------------------------
(***************************************************************************)
(* Publishing a record keeps every window complete that may begin at a     *)
(* sequence of the stream, and adds at most one record to it.              *)
(***************************************************************************)
LEMMA PublishWindow ==
    ASSUME TypeOK, NEW n \in Int, NEW s \in Nat, NEW m \in BOOLEAN, Publish(m)
    PROVE  /\ s <= last + 1 /\ WindowComplete(match, n, s) => WindowComplete(match', n, s)
           /\ pending(match', s) <= pending(match, s) + 1
           /\ pending(match', s) \in Nat /\ pending(match, s) \in Nat
  <1>1. IsFiniteSet(match) /\ last \in Nat
    BY MatchFinite DEF TypeOK
  <1>2. match' \subseteq match \cup {last + 1} /\ match \subseteq match'
    BY DEF Publish
  <1>3. From(match', s) \subseteq From(match, s) \cup {last + 1}
    BY <1>2 DEF From
  <1>4. /\ pending(match', s) <= pending(match, s) + 1
        /\ pending(match', s) \in Nat /\ pending(match, s) \in Nat
    BY <1>1, <1>3, PendingOneMore, PendingType, Zenon
  <1>5. ASSUME s <= last + 1, WindowComplete(match, n, s)
        PROVE  WindowComplete(match', n, s)
    <2>1. CASE pending(match, s) >= n
      <3>1. IsFiniteSet(match')
        BY <1>1, FS_AddElement DEF Publish
      <3>2. From(match, s) \subseteq From(match', s)
        BY <1>2 DEF From
      <3>3. pending(match, s) <= pending(match', s)
        BY <3>1, <3>2, PendingMono
      <3>4. QED
        BY <2>1, <3>3, <1>4 DEF WindowComplete
    <2>2. CASE From(match, s) = match
      <3>1. From(match', s) = match'
        BY <1>1, <1>2, <1>5, <2>2 DEF From
      <3>2. QED
        BY <3>1 DEF WindowComplete
    <2>3. QED
      BY <1>5, <2>1, <2>2 DEF WindowComplete
  <1>6. QED
    BY <1>4, <1>5

(***************************************************************************)
(* Expiry of the oldest record keeps every complete window complete and    *)
(* adds nothing to it.                                                     *)
(***************************************************************************)
LEMMA ExpireWindow ==
    ASSUME TypeOK, NEW n \in Int, NEW s \in Nat, Expire
    PROVE  /\ WindowComplete(match, n, s) => WindowComplete(match', n, s)
           /\ pending(match', s) <= pending(match, s)
           /\ pending(match', s) \in Nat /\ pending(match, s) \in Nat
  <1>1. IsFiniteSet(match) /\ match' = match \ {first}
    BY MatchFinite DEF Expire
  <1>2. From(match', s) \subseteq From(match, s)
    BY <1>1 DEF From
  <1>3. /\ pending(match', s) <= pending(match, s)
        /\ pending(match', s) \in Nat /\ pending(match, s) \in Nat
    BY <1>1, <1>2, PendingMono, PendingType
  <1>4. ASSUME WindowComplete(match, n, s)
        PROVE  WindowComplete(match', n, s)
    <2>1. CASE s <= first
      <3>1. \A x \in match : x >= s
        BY <2>1 DEF TypeOK
      <3>2. From(match', s) = match'
        BY <1>1, <3>1 DEF From
      <3>3. QED
        BY <3>2 DEF WindowComplete
    <2>2. CASE first < s
      <3>1. From(match', s) = From(match, s)
        BY <1>1, <2>2 DEF From, TypeOK
      <3>2. CASE From(match, s) = match
        BY <1>1, <3>1, <3>2 DEF WindowComplete, From
      <3>3. CASE pending(match, s) >= n
        BY <3>1, <3>3 DEF WindowComplete, pending
      <3>4. QED
        BY <1>4, <3>2, <3>3 DEF WindowComplete
    <2>3. QED
      BY <2>1, <2>2 DEF TypeOK
  <1>5. QED
    BY <1>3, <1>4
-----------------------------------------------------------------------------
(***************************************************************************)
(* The broker's steps preserve the invariant.                              *)
(***************************************************************************)
LEMMA PublishStep ==
    ASSUME IndInv, NEW m \in BOOLEAN, Publish(m)
    PROVE  IndInv'
  <1>1. /\ first' = first /\ last' = last + 1
        /\ match' \subseteq match \cup {last + 1}
        /\ UNCHANGED <<pc, req, info, good, bad, step, policy, start>>
    BY DEF Publish, search
  <1>2. TypeOK'
    <2>1. match' \subseteq first..(last + 1)
      <3>1. /\ first \in Nat /\ last \in Nat /\ first <= last + 1
            /\ match \subseteq first..last
        BY DEF IndInv, TypeOK
      <3>2. last + 1 \in first..(last + 1) /\ first..last \subseteq first..(last + 1)
        BY <3>1
      <3>3. QED
        BY <1>1, <3>1, <3>2
    <2>2. QED
      BY <1>1, <2>1 DEF IndInv, TypeOK
  <1>3. \A s \in Nat :
          /\ s <= last + 1 /\ Window(s) => Window(s)'
          /\ Tight(s) => Tight(s)'
          /\ Fewer(s) => Fewer(s)'
    <2>1. TAKE s \in Nat
    <2>2. req.replay \in Int /\ info.last \in Nat /\ last \in Nat
      BY DEF IndInv, TypeOK
    <2>3. /\ s <= last + 1 /\ WindowComplete(match, req.replay, s)
                => WindowComplete(match', req.replay, s)
          /\ pending(match', s) <= pending(match, s) + 1
          /\ pending(match', s) \in Nat /\ pending(match, s) \in Nat
      BY <2>2, PublishWindow DEF IndInv
    <2>4. QED
      BY <1>1, <2>2, <2>3 DEF Window, Tight, Fewer, Slack
  <1>4. InfoInv' /\ SearchInv' /\ HiInv'
    BY <1>1 DEF IndInv, TypeOK, InfoInv, SearchInv, HiInv, Resumes
  <1>5. GallopInv' /\ BisectInv'
    <2>1. bad \in Nat /\ good \in Nat /\ last \in Nat /\ info.last \in Nat
      BY DEF IndInv, TypeOK
    <2>2. pc = "bisect" => good <= last + 1
      BY <2>1 DEF IndInv, SearchInv, BisectInv, InfoInv
    <2>3. /\ Fewer(bad) => Fewer(bad)'
          /\ good <= last + 1 /\ Window(good) => Window(good)'
      BY <1>1, <1>3, <2>1 DEF Fewer, Window
    <2>4. QED
      BY <1>1, <2>2, <2>3 DEF IndInv, GallopInv, BisectInv
  <1>6. CreateInv'
    <2>1. policy.opt \in Nat /\ first \in Nat /\ last \in Nat
      BY DEF IndInv, TypeOK, Policies
    <2>2. /\ Tight(policy.opt) => Tight(policy.opt)'
          /\ Tight(first) => Tight(first)'
          /\ policy.opt <= last + 1 /\ Window(policy.opt) => Window(policy.opt)'
      BY <1>1, <1>3, <2>1 DEF Tight, Window
    <2>3. QED
      BY <1>1, <2>1, <2>2 DEF IndInv, CreateInv, Resumes
  <1>7. LiveInv'
    <2>1. start \in Nat /\ last \in Nat
      BY DEF IndInv, TypeOK
    <2>2. /\ Tight(start) => Tight(start)'
          /\ start <= last + 1 /\ Window(start) => Window(start)'
      BY <1>1, <1>3, <2>1 DEF Tight, Window
    <2>3. QED
      BY <1>1, <2>1, <2>2 DEF IndInv, LiveInv, Replaying, Resumes
  <1>8. QED
    BY <1>2, <1>4, <1>5, <1>6, <1>7 DEF IndInv

\* Retention drops the oldest record: the search's bounds still hold.
LEMMA ExpireStep ==
    ASSUME IndInv, Expire
    PROVE  IndInv'
  <1>1. /\ first' = first + 1 /\ last' = last /\ match' = match \ {first}
        /\ first <= last
        /\ UNCHANGED <<pc, req, info, good, bad, step, policy, start>>
    BY DEF Expire, search
  <1>2. TypeOK'
    <2>1. match' \subseteq (first + 1)..last
      BY <1>1 DEF IndInv, TypeOK
    <2>2. QED
      BY <1>1, <2>1 DEF IndInv, TypeOK
  <1>3. \A s \in Nat :
          /\ Window(s) => Window(s)'
          /\ Tight(s) => Tight(s)'
          /\ Fewer(s) => Fewer(s)'
    <2>1. TAKE s \in Nat
    <2>2. req.replay \in Int /\ info.last \in Nat /\ last \in Nat
      BY DEF IndInv, TypeOK
    <2>3. /\ WindowComplete(match, req.replay, s) => WindowComplete(match', req.replay, s)
          /\ pending(match', s) <= pending(match, s)
          /\ pending(match', s) \in Nat /\ pending(match, s) \in Nat
      BY <2>2, ExpireWindow DEF IndInv
    <2>4. QED
      BY <1>1, <2>2, <2>3 DEF Window, Tight, Fewer, Slack
  <1>4. InfoInv' /\ SearchInv' /\ HiInv'
    BY <1>1 DEF IndInv, TypeOK, InfoInv, SearchInv, HiInv, Resumes
  <1>5. GallopInv' /\ BisectInv'
    <2>1. bad \in Nat /\ good \in Nat
      BY DEF IndInv, TypeOK
    <2>2. /\ Fewer(bad) => Fewer(bad)'
          /\ Window(good) => Window(good)'
      BY <1>1, <1>3, <2>1 DEF Fewer, Window
    <2>3. QED
      BY <1>1, <2>2 DEF IndInv, GallopInv, BisectInv
  <1>6. CreateInv'
    <2>1. /\ policy.opt \in Nat /\ first \in Nat /\ last \in Nat
          /\ req.replay \in Int /\ info.last \in Nat
      BY DEF IndInv, TypeOK, Policies
    <2>2. From(match', first') \subseteq From(match, first)
      <3>1. \A x \in match : x >= first
        BY <2>1 DEF IndInv, TypeOK
      <3>2. QED
        BY <1>1, <3>1 DEF From
    <2>3. pending(match', first') <= pending(match, first) /\ pending(match', first') \in Nat
      BY <2>2, MatchFinite, PendingMono DEF IndInv
    <2>4. pending(match, first) \in Nat
      BY MatchFinite, PendingType DEF IndInv
    <2>5. Tight(first) => Tight(first)'
      BY <1>1, <2>1, <2>3, <2>4 DEF Tight, Slack
    <2>6. /\ Tight(policy.opt) => Tight(policy.opt)'
          /\ Window(policy.opt) => Window(policy.opt)'
      BY <1>1, <1>3, <2>1 DEF Tight, Window
    <2>7. QED
      BY <1>1, <2>5, <2>6 DEF IndInv, CreateInv, Resumes
  <1>7. LiveInv'
    <2>1. start \in Nat
      BY DEF IndInv, TypeOK
    <2>2. /\ Tight(start) => Tight(start)'
          /\ Window(start) => Window(start)'
      BY <1>1, <1>3, <2>1 DEF Tight, Window
    <2>3. QED
      BY <1>1, <2>2 DEF IndInv, LiveInv, Replaying, Resumes
  <1>8. QED
    BY <1>2, <1>4, <1>5, <1>6, <1>7 DEF IndInv
-----------------------------------------------------------------------------
(***************************************************************************)
(* The count of an unmoved stream is a number; a start below every record  *)
(* counts them all; and adjacent starts differ by at most one record.      *)
(***************************************************************************)
LEMMA PendingFacts ==
    ASSUME TypeOK
    PROVE  /\ \A s \in Nat : pending(match, s) \in Nat
           /\ \A s \in Nat : s <= first => pending(match, first) = pending(match, s)
           /\ \A s \in Nat : pending(match, s) <= pending(match, s + 1) + 1
           /\ \A s \in Nat : s <= last + 1 => pending(match, s) <= last - s + 1
  <1>1. /\ IsFiniteSet(match) /\ first \in Nat /\ last \in Nat
        /\ match \subseteq first..last
    BY MatchFinite DEF TypeOK
  <1>2. \A s \in Nat : pending(match, s) \in Nat
    BY <1>1, PendingType
  <1>3. ASSUME NEW s \in Nat, s <= first
        PROVE  pending(match, first) = pending(match, s)
    <2>1. \A x \in match : x >= first /\ x >= s
      BY <1>1, <1>3
    <2>2. From(match, first) = From(match, s)
      BY <2>1 DEF From
    <2>3. QED
      BY <2>2 DEF pending
  <1>4. ASSUME NEW s \in Nat
        PROVE  pending(match, s) <= pending(match, s + 1) + 1
    <2>1. From(match, s) \subseteq From(match, s + 1) \cup {s}
      <3>1. \A x \in match : x \in Int
        BY <1>1
      <3>2. \A x \in match : x >= s => x >= s + 1 \/ x = s
        BY <3>1
      <3>3. QED
        BY <3>2 DEF From
    <2>2. QED
      BY <1>1, <2>1, PendingOneMore, Zenon
  <1>5. ASSUME NEW s \in Nat, s <= last + 1
        PROVE  pending(match, s) <= last - s + 1
    <2>1. last \in Int /\ first \in Int /\ s \in Int /\ s <= last + 1
      BY <1>1, <1>5
    <2>2. QED
      BY <1>1, <2>1, PendingInterval, Zenon
  <1>6. QED
    BY <1>2, <1>3, <1>4, <1>5

(***************************************************************************)
(* Subscribe's steps before the search preserve the invariant.             *)
(***************************************************************************)
LEMMA StartStep ==
    ASSUME IndInv, NEW r \in Replays, NEW f \in Froms, Subscribe(r, f)
    PROVE  IndInv'
  <1>1. r \in Int /\ f \in Nat
    BY ConstAssumption
  <1>2. QED
    BY <1>1, Zenon DEF IndInv, TypeOK, Subscribe, stream, search, InfoInv, SearchInv,
       HiInv, GallopInv, BisectInv, CreateInv, LiveInv, Replaying

\* stream.Info answers, or Subscribe ends with its error.
LEMMA InfoEndStep ==
    ASSUME IndInv, Info \/ End
    PROVE  IndInv'
  <1>1. CASE Info
    BY <1>1 DEF IndInv, TypeOK, Info, stream, search, InfoInv, SearchInv,
       HiInv, GallopInv, BisectInv, CreateInv, LiveInv, Replaying
  <1>2. CASE End
    BY <1>2 DEF IndInv, TypeOK, End, stream, NoRequest, NoInfo, NoSearch, Policy, Policies,
       InfoInv, SearchInv, HiInv, GallopInv, BisectInv, CreateInv, LiveInv, Replaying
  <1>3. QED
    BY <1>1, <1>2, Zenon

(***************************************************************************)
(* Settling on a policy preserves the invariant if the policy's window is  *)
(* what CreateInv asks for.                                                *)
(***************************************************************************)
LEMMA ChooseStep ==
    ASSUME IndInv, pc \in {"pick", "hi", "gallop", "bisect"},
           NEW p \in Policies, Choose(p), UNCHANGED <<stream, req, info, start>>,
           ~Resumes /\ req.replay > 0 =>
             /\ p.kind = "ByStart" =>
                    p.opt <= last + 1 /\ Window(p.opt) /\ Tight(p.opt)
             /\ p.kind = "All" => Tight(first)
             /\ p.kind = "New" => info.last = 0
    PROVE  IndInv'
  <1>1. /\ pc' = "create" /\ policy' = p
        /\ good' = 0 /\ bad' = 0 /\ step' = 0
        /\ UNCHANGED <<first, last, match, req, info, start>>
    BY DEF Choose, NoSearch, stream
  <1>2. TypeOK'
    BY <1>1, Zenon DEF IndInv, TypeOK
  <1>3. /\ InfoInv' /\ SearchInv' /\ HiInv' /\ GallopInv' /\ BisectInv' /\ LiveInv'
    BY <1>1 DEF IndInv, InfoInv, SearchInv, HiInv, GallopInv, BisectInv, LiveInv, Replaying
  <1>4. CreateInv'
    BY <1>1 DEF CreateInv, Window, Tight, Slack, Resumes
  <1>5. QED
    BY <1>2, <1>3, <1>4 DEF IndInv

\* pickDeliverPolicy's tree up to the search.
LEMMA PickStep ==
    ASSUME IndInv, pickDeliverPolicy
    PROVE  IndInv'
  <1> USE DEF IndInv
  <1>1. pc = "pick" /\ UNCHANGED <<stream, req, info, start>>
    BY DEF pickDeliverPolicy
  <1>2. /\ first \in Nat /\ last \in Nat /\ info.last \in Nat /\ info.first \in Nat
        /\ req.replay \in Int /\ req.from \in Nat
        /\ info.last <= last /\ info.first <= info.last + 1 /\ 1 <= info.first
    BY <1>1 DEF TypeOK, InfoInv
  <1>3. CASE Resumes /\ Choose(Policy("ByStart", req.from))
    <2>1. Policy("ByStart", req.from) \in Policies
      BY <1>2 DEF Policy, Policies
    <2>2. QED
      BY <1>1, <1>3, <2>1, ChooseStep
  <1>4. CASE ~Resumes /\ TailOnly /\ Choose(Policy("New", 0))
    <2>1. /\ Policy("New", 0) \in Policies /\ Policy("New", 0).kind = "New"
          /\ req.replay > 0 => info.last = 0
      BY <1>2, <1>4 DEF Policy, Policies, TailOnly
    <2>2. QED
      BY <1>1, <1>4, <2>1, ChooseStep
  <1>5. CASE /\ ~Resumes /\ ~TailOnly /\ req.replay >= info.last
             /\ Choose(Policy("All", 0))
    <2>1. Policy("All", 0) \in Policies /\ Policy("All", 0).kind = "All"
      BY Zenon DEF Policy, Policies
    <2>2. pending(match, first) <= last - first + 1 /\ first >= 1
      BY <1>2, PendingFacts DEF TypeOK
    <2>3. Tight(first)
      BY <1>2, <1>5, <2>2, PendingFacts DEF Tight, Slack
    <2>4. QED
      BY <1>1, <1>5, <2>1, <2>3, ChooseStep
  <1>6. CASE /\ ~Resumes /\ ~TailOnly /\ req.replay < info.last
             /\ pc' = "hi" /\ bad' = hi /\ good' = 0 /\ step' = 1
             /\ UNCHANGED policy
    <2>1. hi \in Nat /\ info.first <= hi /\ hi <= info.last + 1 /\ hi >= info.last - req.replay + 1
      BY <1>2, <1>6 DEF hi, TailOnly
    <2>2. UNCHANGED <<first, last, match, req, info, start>>
      BY <1>1 DEF stream
    <2>3. TypeOK'
      BY <1>6, <2>1, <2>2, Zenon DEF TypeOK
    <2>4. InfoInv' /\ SearchInv' /\ HiInv'
      BY <1>1, <1>2, <1>6, <2>1, <2>2 DEF InfoInv, SearchInv, HiInv, Resumes, TailOnly
    <2>5. GallopInv' /\ BisectInv' /\ CreateInv' /\ LiveInv'
      BY <1>6 DEF GallopInv, BisectInv, CreateInv, LiveInv, Replaying
    <2>6. QED
      BY <2>3, <2>4, <2>5
  <1>7. QED
    BY <1>3, <1>4, <1>5, <1>6 DEF pickDeliverPolicy
-----------------------------------------------------------------------------
(***************************************************************************)
(* What every probe of the search may rely on.                             *)
(***************************************************************************)
LEMMA ProbeFacts ==
    ASSUME IndInv, pc \in {"hi", "gallop", "bisect"}
    PROVE  /\ first \in Nat /\ last \in Nat /\ info.first \in Nat /\ info.last \in Nat
           /\ req.replay \in Int /\ bad \in Nat /\ good \in Nat /\ step \in Nat
           /\ 1 <= info.first /\ info.first <= first /\ info.last <= last
           /\ info.first <= bad /\ bad <= info.last + 1
           /\ \A s \in Nat : Enough(s) => Window(s)
           /\ ~Enough(info.first) => Tight(first)
           /\ \A s \in Nat : ~Enough(s) => Fewer(s)
           /\ \A s \in Nat : Fewer(s + 1) => Tight(s)
  <1> USE DEF IndInv
  <1>1. /\ first \in Nat /\ last \in Nat /\ info.first \in Nat /\ info.last \in Nat
        /\ req.replay \in Int /\ bad \in Nat /\ good \in Nat /\ step \in Nat
        /\ 1 <= info.first /\ info.first <= first /\ info.last <= last
        /\ info.first <= bad /\ bad <= info.last + 1
    BY DEF TypeOK, InfoInv, SearchInv
  <1>2. /\ \A s \in Nat : pending(match, s) \in Nat
        /\ pending(match, first) = pending(match, info.first)
        /\ \A s \in Nat : pending(match, s) <= pending(match, s + 1) + 1
    BY <1>1, PendingFacts
  <1>3. \A s \in Nat : Enough(s) => Window(s)
    BY DEF Enough, Window, WindowComplete
  <1>4. ~Enough(info.first) => Tight(first)
    BY <1>1, <1>2 DEF Enough, Tight, Slack
  <1>5. \A s \in Nat : ~Enough(s) => Fewer(s)
    BY <1>1, <1>2 DEF Enough, Fewer, Slack
  <1>6. \A s \in Nat : Fewer(s + 1) => Tight(s)
    <2>1. TAKE s \in Nat
    <2>2. s + 1 \in Nat
      OBVIOUS
    <2>3. QED
      BY <1>1, <1>2, <2>2 DEF Fewer, Tight, Slack
  <1>7. QED
    BY <1>1, <1>3, <1>4, <1>5, <1>6

(***************************************************************************)
(* A step that only moves the search on.                                   *)
(***************************************************************************)
LEMMA SearchFrame ==
    ASSUME IndInv, pc \in {"hi", "gallop", "bisect"}, pc' \in {"gallop", "bisect"},
           UNCHANGED <<stream, req, info, policy, start>>,
           bad' \in Nat, good' \in Nat, step' \in Nat,
           info.first <= bad', bad' <= info.last + 1,
           GallopInv', BisectInv'
    PROVE  IndInv'
  <1>1. UNCHANGED <<first, last, match, req, info, policy, start>>
    BY DEF stream
  <1>2. TypeOK'
    BY <1>1, Zenon DEF IndInv, TypeOK
  <1>3. InfoInv' /\ SearchInv' /\ HiInv' /\ CreateInv' /\ LiveInv'
    BY <1>1 DEF IndInv, InfoInv, SearchInv, HiInv, CreateInv, LiveInv, Replaying, Resumes
  <1>4. QED
    BY <1>2, <1>3 DEF IndInv

(***************************************************************************)
(* Giving up the search for all records preserves the invariant.           *)
(***************************************************************************)
LEMMA AllStep ==
    ASSUME IndInv, pc \in {"hi", "gallop", "bisect"}, ~Enough(info.first),
           Choose(Policy("All", 0)), UNCHANGED <<stream, req, info, start>>
    PROVE  IndInv'
  <1>1. Policy("All", 0) \in Policies /\ Policy("All", 0).kind = "All"
    BY DEF Policy, Policies
  <1>2. Tight(first)
    BY ProbeFacts
  <1>3. QED
    BY <1>1, <1>2, ChooseStep

\* replayStart's first probe, at hi.
LEMMA ProbeHiStep ==
    ASSUME IndInv, ProbeHi
    PROVE  IndInv'
  <1>1. pc = "hi" /\ UNCHANGED <<stream, req, info, start>>
    BY DEF ProbeHi
  <1>2. /\ req.replay > 0 /\ bad >= info.last - req.replay + 1
    BY <1>1 DEF IndInv, SearchInv, HiInv
  <1>3. CASE Enough(bad) /\ Choose(Policy("ByStart", bad))
    <2>1. /\ Policy("ByStart", bad) \in Policies /\ Policy("ByStart", bad).kind = "ByStart"
          /\ Policy("ByStart", bad).opt = bad
      BY <1>1, ProbeFacts DEF Policy, Policies
    <2>2. bad <= last + 1 /\ Window(bad)
      BY <1>1, <1>3, ProbeFacts
    <2>3. Tight(bad)
      <3>1. pending(match, bad) <= last - bad + 1 /\ pending(match, bad) \in Nat
        BY <1>1, <2>2, ProbeFacts, PendingFacts DEF IndInv
      <3>2. QED
        BY <1>1, <1>2, <3>1, ProbeFacts DEF Tight, Slack
    <2>4. QED
      BY <1>1, <1>3, <2>1, <2>2, <2>3, ChooseStep
  <1>4. CASE ~Enough(bad) /\ bad = info.first /\ Choose(Policy("All", 0))
    BY <1>1, <1>4, AllStep, Zenon
  <1>5. CASE /\ ~Enough(bad) /\ bad # info.first /\ pc' = "gallop"
             /\ UNCHANGED <<search, policy>>
    <2>1. UNCHANGED <<first, last, match, bad, good, step>>
      BY <1>1, <1>5 DEF stream, search
    <2>2. Fewer(bad) /\ info.first < bad /\ bad \in Nat /\ good \in Nat /\ step \in Nat
      BY <1>1, <1>5, ProbeFacts
    <2>3. step >= 1
      BY <1>1 DEF IndInv, HiInv
    <2>4. GallopInv' /\ BisectInv'
      BY <1>1, <1>5, <2>1, <2>2, <2>3 DEF GallopInv, BisectInv, Fewer, Slack
    <2>5. QED
      BY <1>1, <1>5, <2>1, <2>2, <2>4, ProbeFacts, SearchFrame
  <1>6. QED
    BY <1>3, <1>4, <1>5 DEF ProbeHi

\* One round of the gallop down from hi.
LEMMA GallopStep ==
    ASSUME IndInv, Gallop
    PROVE  IndInv'
  <1>1. pc = "gallop" /\ UNCHANGED <<stream, req, info, start>>
    BY DEF Gallop
  <1>2. info.first < bad /\ step >= 1 /\ Fewer(bad)
    BY <1>1 DEF IndInv, GallopInv
  <1>3. cand \in Nat /\ info.first <= cand /\ cand < bad
    BY <1>1, <1>2, ProbeFacts DEF cand
  <1>4. CASE /\ Enough(cand) /\ good' = cand /\ pc' = "bisect"
             /\ UNCHANGED <<bad, step, policy>>
    <2>1. Window(cand)
      BY <1>1, <1>3, <1>4, ProbeFacts
    <2>2. GallopInv' /\ BisectInv'
      BY <1>1, <1>2, <1>3, <1>4, <2>1
      DEF GallopInv, BisectInv, Fewer, Slack, Window, stream
    <2>3. QED
      BY <1>1, <1>3, <1>4, <2>2, ProbeFacts, SearchFrame
  <1>5. CASE ~Enough(cand) /\ cand = info.first /\ Choose(Policy("All", 0))
    BY <1>1, <1>5, AllStep
  <1>6. CASE /\ ~Enough(cand) /\ cand # info.first
             /\ bad' = cand /\ step' = 2 * step
             /\ UNCHANGED <<good, pc, policy>>
    <2>1. Fewer(cand) /\ info.first < cand
      BY <1>1, <1>3, <1>6, ProbeFacts
    <2>2. step' >= 1 /\ step' \in Nat /\ bad' <= info.last + 1
      BY <1>1, <1>2, <1>3, <1>6, ProbeFacts
    <2>3. GallopInv' /\ BisectInv'
      BY <1>1, <1>3, <1>6, <2>1, <2>2 DEF GallopInv, BisectInv, Fewer, Slack, stream
    <2>4. QED
      BY <1>1, <1>3, <1>6, <2>2, <2>3, ProbeFacts, SearchFrame, Zenon
  <1>7. QED
    BY <1>4, <1>5, <1>6 DEF Gallop

\* One round of the bisection between good and bad.
LEMMA BisectStep ==
    ASSUME IndInv, Bisect
    PROVE  IndInv'
  <1>1. pc = "bisect" /\ UNCHANGED <<stream, req, info, start>>
    BY DEF Bisect
  <1>2. info.first <= good /\ good < bad /\ Fewer(bad) /\ Window(good)
    BY <1>1 DEF IndInv, BisectInv
  <1>3. CASE Adjacent /\ Choose(Policy("ByStart", good))
    <2>1. /\ Policy("ByStart", good) \in Policies /\ Policy("ByStart", good).kind = "ByStart"
          /\ Policy("ByStart", good).opt = good
      BY <1>1, ProbeFacts DEF Policy, Policies
    <2>2. bad = good + 1 /\ good <= last + 1
      BY <1>1, <1>2, <1>3, ProbeFacts DEF Adjacent
    <2>3. Tight(good)
      BY <1>1, <1>2, <2>2, ProbeFacts
    <2>4. QED
      BY <1>1, <1>2, <1>3, <2>1, <2>2, <2>3, ChooseStep
  <1>4. CASE /\ ~Adjacent /\ Enough(mid) /\ good' = mid
             /\ UNCHANGED <<bad, step, pc, policy>>
    <2>1. mid \in Nat /\ good < mid /\ mid < bad
      BY <1>1, <1>2, <1>4, ProbeFacts DEF mid, Adjacent
    <2>2. Window(mid) /\ info.first <= mid
      BY <1>1, <1>2, <1>4, <2>1, ProbeFacts
    <2>3. GallopInv' /\ BisectInv'
      BY <1>1, <1>2, <1>4, <2>1, <2>2
      DEF GallopInv, BisectInv, Fewer, Slack, Window, stream
    <2>4. QED
      BY <1>1, <1>4, <2>1, <2>3, ProbeFacts, SearchFrame, Zenon
  <1>5. CASE /\ ~Adjacent /\ ~Enough(mid) /\ bad' = mid
             /\ UNCHANGED <<good, step, pc, policy>>
    <2>1. mid \in Nat /\ good < mid /\ mid < bad
      BY <1>1, <1>2, <1>5, ProbeFacts DEF mid, Adjacent
    <2>2. Fewer(mid) /\ info.first <= mid /\ mid <= info.last + 1
      BY <1>1, <1>2, <1>5, <2>1, ProbeFacts
    <2>3. GallopInv' /\ BisectInv'
      BY <1>1, <1>2, <1>5, <2>1, <2>2
      DEF GallopInv, BisectInv, Fewer, Slack, Window, stream
    <2>4. QED
      BY <1>1, <1>5, <2>1, <2>2, <2>3, ProbeFacts, SearchFrame
  <1>6. QED
    BY <1>3, <1>4, <1>5 DEF Bisect

(***************************************************************************)
(* The broker resolves the policy to a start with the promised window.     *)
(***************************************************************************)
LEMMA CreateStep ==
    ASSUME IndInv, CreateConsumer
    PROVE  IndInv'
  <1> USE DEF IndInv
  <1>1. /\ pc = "create" /\ pc' = "live" /\ start' = StartOf(policy)
        /\ UNCHANGED <<first, last, match, req, info, good, bad, step, policy>>
    BY DEF CreateConsumer, stream, search
  <1>2. /\ policy.kind \in {"ByStart", "All", "New"} /\ policy.opt \in Nat
        /\ first \in Nat /\ last \in Nat /\ first <= last + 1
        /\ req.replay \in Int /\ info.last \in Nat /\ info.last <= last
    BY <1>1 DEF TypeOK, Policies, InfoInv
  <1>3. StartOf(policy) \in Nat
    BY <1>2 DEF StartOf
  <1>4. TypeOK'
    BY <1>1, <1>3, Zenon DEF TypeOK
  <1>5. InfoInv' /\ SearchInv' /\ HiInv' /\ GallopInv' /\ BisectInv' /\ CreateInv'
    BY <1>1, Zenon DEF InfoInv, SearchInv, HiInv, GallopInv, BisectInv, CreateInv
  <1>6. ASSUME ~Resumes, req.replay > 0
        PROVE  /\ StartOf(policy) <= last + 1 /\ Tight(StartOf(policy))
               /\ info.last > 0 => Window(StartOf(policy))
    <2>1. CASE policy.kind = "ByStart"
      <3>1. StartOf(policy) = policy.opt
        BY <2>1 DEF StartOf
      <3>2. QED
        BY <1>1, <1>6, <2>1, <3>1 DEF CreateInv
    <2>2. CASE policy.kind = "All"
      <3>1. StartOf(policy) = first
        BY <2>2 DEF StartOf
      <3>2. \A x \in match : x >= first
        BY <1>2 DEF TypeOK
      <3>3. Window(first)
        BY <3>2 DEF Window, WindowComplete, From
      <3>4. QED
        BY <1>1, <1>2, <1>6, <2>2, <3>1, <3>3 DEF CreateInv
    <2>3. CASE policy.kind = "New"
      <3>1. StartOf(policy) = last + 1 /\ info.last = 0
        BY <1>1, <1>6, <2>3 DEF StartOf, CreateInv
      <3>2. last + 1 \in Nat
        BY <1>2
      <3>3. pending(match, last + 1) <= last - (last + 1) + 1 /\ pending(match, last + 1) \in Nat
        BY <1>2, <3>2, PendingFacts
      <3>4. Tight(last + 1)
        BY <1>2, <1>6, <3>1, <3>3 DEF Tight, Slack
      <3>5. QED
        BY <1>2, <3>1, <3>4
    <2>4. QED
      BY <1>2, <2>1, <2>2, <2>3
  <1>7. LiveInv'
    BY <1>1, <1>6, Zenon DEF LiveInv, Replaying, Resumes, Tight, Slack, Window
  <1>8. QED
    BY <1>4, <1>5, <1>7

\* Every initial stream satisfies the invariant.
LEMMA InitStep == Init => IndInv
  <1> SUFFICES ASSUME Init PROVE IndInv
    OBVIOUS
  <1>1. first \in Nat \ {0} /\ last \in Nat /\ first <= last + 1
    BY ConstAssumption DEF Init
  <1>2. TypeOK
    BY <1>1 DEF Init, TypeOK, NoRequest, NoInfo, Policy, Policies
  <1>3. QED
    BY <1>2 DEF Init, IndInv, InfoInv, SearchInv, HiInv, GallopInv, BisectInv,
       CreateInv, LiveInv, Replaying

\* IndInv holds in every reachable state: Subscribe's search stays inside its
\* bracket whatever is published or expires meanwhile.
THEOREM Invariance == Spec => []IndInv
  <1>1. IndInv /\ [Next]_vars => IndInv'
    <2> SUFFICES ASSUME IndInv, [Next]_vars PROVE IndInv'
      OBVIOUS
    <2>1. CASE \E m \in BOOLEAN : Publish(m)
      BY <2>1, PublishStep
    <2>2. CASE Expire
      BY <2>2, ExpireStep
    <2>3. CASE \E r \in Replays, f \in Froms : Subscribe(r, f)
      BY <2>3, StartStep
    <2>4. CASE Info \/ End
      BY <2>4, InfoEndStep
    <2>5. CASE pickDeliverPolicy \/ ProbeHi \/ Gallop \/ Bisect \/ CreateConsumer
      BY <2>5, PickStep, ProbeHiStep, GallopStep, BisectStep, CreateStep, Zenon
    <2>6. CASE UNCHANGED vars
      BY <2>6 DEF vars, stream, search, IndInv, TypeOK, InfoInv, SearchInv, HiInv, GallopInv,
         BisectInv, CreateInv, LiveInv, Replaying, Resumes, Tight, Fewer, Window, Slack
    <2>7. QED
      BY <2>1, <2>2, <2>3, <2>4, <2>5, <2>6 DEF Next, Step
  <1>2. QED
    BY <1>1, InitStep, PTL DEF Spec

(***************************************************************************)
(* Every state is type-correct: in particular, the gallop's subtraction    *)
(* never takes the search below the first sequence.                        *)
(***************************************************************************)
THEOREM TypeCorrect == Spec => []TypeOK
  <1>1. IndInv => TypeOK
    BY DEF IndInv
  <1>2. QED
    BY <1>1, Invariance, PTL

(***************************************************************************)
(* On every stream that was not empty, of any length and layout and        *)
(* whatever is published and expires meanwhile, a replaying subscription   *)
(* starts at the newest replay records, or at all there are.               *)
(***************************************************************************)
THEOREM NewestAreReplayed == Spec => []ReplaysNewest
  <1>1. IndInv => ReplaysNewest
    BY DEF IndInv, LiveInv, ReplaysNewest, Window
  <1>2. QED
    BY <1>1, Invariance, PTL

(***************************************************************************)
(* A replaying subscription delivers no more than it was asked for and     *)
(* what was published since it looked at the stream.                       *)
(***************************************************************************)
THEOREM NoMoreThanAsked == Spec => []ReplaysNoMore
  <1>1. IndInv => ReplaysNoMore
    BY DEF IndInv, LiveInv, ReplaysNoMore, Tight, Slack
  <1>2. QED
    BY <1>1, Invariance, PTL
=============================================================================
