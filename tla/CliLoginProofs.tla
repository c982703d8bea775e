--------------------------- MODULE CliLoginProofs ---------------------------
(***************************************************************************)
(* Proofs about CliLogin and the TokenCache it extends.  For any number of *)
(* processes, configurations, logins, rotations and faults: a rotated      *)
(* refresh token is presented only after a loss, tokens go to their own    *)
(* issuer only, and a logout under the lock is final.  For any number of   *)
(* redirects and whatever intervals and lifetimes an issuer answers: the   *)
(* first genuine redirect decides a code flow, and a device flow polls no  *)
(* faster than it was asked to.                                            *)
(***************************************************************************)
EXTENDS CliLogin, TLAPS

\* A refresh token the issuer still takes, or one of a login whose rotated
\* tokens were lost.
Good(t) == t.gen = live[t.fam] \/ t.fam \in lost

\* A refresh under way; a login whose tokens nobody else has seen yet.
Renewing(p) == procs[p].op = "ensure" /\ procs[p].pc \in {"post", "save"}
Unseen(p) == procs[p].op = "login" /\ procs[p].pc \in {"lock", "save"}

\* The operation of a process goes with its place, and its tokens are there.
PlaceInv ==
    \A p \in Procs :
        /\ procs[p].pc \in {"load", "config", "post"} => procs[p].op = "ensure"
        /\ procs[p].pc \in {"flow", "saveConfig"} => procs[p].op = "login"
        /\ procs[p].pc = "save" => procs[p].op \in {"ensure", "login"}
        /\ procs[p].pc = "config" => procs[p].got \in File
        /\ procs[p].pc = "saveConfig" \/ Renewing(p) \/ Unseen(p) =>
            procs[p].tok \in Token /\ procs[p].tok.cfg = procs[p].cfg

\* Refreshes and writes happen under the lock.
LockInv ==
    \A p \in Procs : procs[p].pc \in {"post", "save", "saveConfig"} => lock = p

\* An unbound cache is one no login has replaced: config.json goes with it.
BindInv ==
    /\ disk # NONE /\ disk.bound # NONE => disk.tok.cfg = disk.bound
    /\ disk # NONE /\ disk.bound = NONE =>
        disk.tok.cfg = config /\ \A p \in Procs : procs[p].pc # "saveConfig"
    /\ \A p \in Procs : procs[p].pc = "config" /\ lock = p =>
        procs[p].got.tok.cfg = config

\* Logins are numbered as they come.
Known(f) == f <= logins
FamInv ==
    /\ disk # NONE => Known(disk.tok.fam)
    /\ \A f \in loggedOut : Known(f)
    /\ \A f \in Fams : ~Known(f) => live[f] = 1
    /\ \A p \in Procs : /\ Renewing(p) \/ Unseen(p) => Known(procs[p].tok.fam)
                        /\ procs[p].pc = "config" => Known(procs[p].got.tok.fam)

\* The tokens of a login are nowhere else before it saves them.
OwnInv ==
    \A p \in Procs : Unseen(p) =>
        /\ disk # NONE => disk.tok.fam # procs[p].tok.fam
        /\ procs[p].tok.gen = live[procs[p].tok.fam]
        /\ \A q \in Procs \ {p} :
            /\ Renewing(q) \/ Unseen(q) => procs[q].tok.fam # procs[p].tok.fam
            /\ procs[q].pc = "config" => procs[q].got.tok.fam # procs[p].tok.fam

\* What is logged out is not saved again.
OutInv ==
    /\ LogoutSticks
    /\ \A p \in Procs :
        /\ Renewing(p) \/ Unseen(p) => procs[p].tok.fam \notin loggedOut
        /\ procs[p].pc = "config" /\ lock = p => procs[p].got.tok.fam \notin loggedOut

\* The cache lags behind the issuer only while the refresh that rotated holds
\* the lock.
GoodInv ==
    /\ \A p \in Procs :
        /\ Renewing(p) => Good(procs[p].tok)
        /\ procs[p].pc = "config" /\ lock = p =>
            procs[p].got.tok.gen = 0 \/ Good(procs[p].got.tok)
    /\ disk # NONE =>
        \/ disk.tok.gen = 0 \/ Good(disk.tok)
        \/ \E p \in Procs : Renewing(p) /\ procs[p].pc = "save"
                              /\ procs[p].tok.fam = disk.tok.fam
    /\ NoReuse

IndInv ==
    /\ TypeOK /\ PlaceInv /\ LockInv /\ BindInv /\ FamInv /\ OwnInv /\ OutInv /\ GoodInv

-----------------------------------------------------------------------------
\* What a step of one process does to all of them.
LEMMA OneSteps ==
    ASSUME TypeOK, NEW p \in Procs, NEW r \in Proc, Step(p, r)
    PROVE  /\ procs' \in [Procs -> Proc]
           /\ procs'[p] = r
           /\ \A q \in Procs : q # p => procs'[q] = procs[q]
  BY DEF TypeOK, Step

\* A step of p, which keeps no unseen tokens, leaves the others theirs if it
\* brings them nowhere.
LEMMA OwnKeeps ==
    ASSUME OwnInv, NEW p \in Procs, ~Unseen(p)',
           \A q \in Procs : q # p => procs'[q] = procs[q],
           \A q \in Procs : q # p => (Renewing(q)' <=> Renewing(q)) /\ (Unseen(q)' <=> Unseen(q)),
           \A q \in Procs : q # p /\ Unseen(q) =>
               /\ disk' # NONE => disk'.tok.fam # procs[q].tok.fam
               /\ live'[procs[q].tok.fam] = live[procs[q].tok.fam]
               /\ Renewing(p)' => procs'[p].tok.fam # procs[q].tok.fam
               /\ procs'[p].pc = "config" => procs'[p].got.tok.fam # procs[q].tok.fam
    PROVE  OwnInv'
  <1>1. SUFFICES ASSUME NEW q \in Procs, Unseen(q)'
                 PROVE  /\ disk' # NONE => disk'.tok.fam # procs'[q].tok.fam
                        /\ procs'[q].tok.gen = live'[procs'[q].tok.fam]
                        /\ \A o \in Procs \ {q} :
                            /\ Renewing(o)' \/ Unseen(o)' => procs'[o].tok.fam # procs'[q].tok.fam
                            /\ procs'[o].pc = "config" => procs'[o].got.tok.fam # procs'[q].tok.fam
    BY Zenon DEF OwnInv
  <1>2. q # p /\ Unseen(q) /\ procs'[q] = procs[q]
    BY Zenon, <1>1
  <1>3. /\ procs[q].tok.gen = live[procs[q].tok.fam]
        /\ \A o \in Procs \ {q} :
            /\ Renewing(o) \/ Unseen(o) => procs[o].tok.fam # procs[q].tok.fam
            /\ procs[o].pc = "config" => procs[o].got.tok.fam # procs[q].tok.fam
    BY Zenon, <1>2 DEF OwnInv
  <1>4. /\ disk' # NONE => disk'.tok.fam # procs'[q].tok.fam
        /\ procs'[q].tok.gen = live'[procs'[q].tok.fam]
    BY Zenon, <1>2, <1>3
  <1>5. ASSUME NEW o \in Procs \ {q}
        PROVE  /\ Renewing(o)' \/ Unseen(o)' => procs'[o].tok.fam # procs'[q].tok.fam
               /\ procs'[o].pc = "config" => procs'[o].got.tok.fam # procs'[q].tok.fam
    <2>1. CASE o = p
      BY Zenon, <1>2, <2>1
    <2>2. CASE o # p
      BY Zenon, <1>2, <1>3, <1>5, <2>2
    <2>3. QED
      BY Zenon, <2>1, <2>2
  <1>6. QED
    BY Zenon, <1>4, <1>5

\* A process goes where it holds no tokens: it begins, waits for the lock,
\* takes it, or returns.  If it leaves a save undone, the tokens are lost.
LEMMA LetsGo ==
    ASSUME IndInv, NEW p \in Procs, NEW r \in Proc, Step(p, r),
           r.pc \in {"idle", "load", "lock", "flow", "remove", "done"},
           r.pc = "load" => r.op = "ensure",
           r.pc = "flow" => r.op = "login",
           r.pc = "lock" => r.op # "login",
           \/ lock' = lock \/ lock' = Release(p) \/ (lock = NONE /\ lock' = p),
           lock' = p => r.pc \in Locked,
           UNCHANGED <<disk, config, issuer, reused, loggedOut>>, faults' \in Nat,
           lost \subseteq lost', lost' \subseteq Fams,
           Renewing(p) /\ procs[p].pc = "save" => procs[p].tok.fam \in lost'
    PROVE  IndInv'
  <1>1. /\ procs' \in [Procs -> Proc] /\ procs'[p] = r
        /\ \A q \in Procs : q # p => procs'[q] = procs[q]
    BY OneSteps DEF IndInv
  <1>2. lock' \in Procs \cup {NONE} /\ NONE \notin Procs
        /\ \A q \in Procs : q # p => (lock' = q <=> lock = q)
    BY ConstAssumption DEF IndInv, TypeOK, Release
  <1>3. ~Renewing(p)' /\ ~Unseen(p)'
        /\ \A q \in Procs : q # p => (Renewing(q)' <=> Renewing(q)) /\ (Unseen(q)' <=> Unseen(q))
    BY <1>1 DEF Renewing, Unseen
  <1>4. TypeOK'
    BY <1>1, <1>2 DEF IndInv, TypeOK, issuer
  <1>5. PlaceInv'
    BY <1>1, <1>3 DEF IndInv, PlaceInv
  <1>6. LockInv'
    BY <1>1, <1>2 DEF IndInv, LockInv
  <1>7. BindInv'
    BY <1>1, <1>2 DEF IndInv, BindInv
  <1>8. FamInv'
    BY <1>1, <1>3, Zenon DEF IndInv, FamInv, Known, issuer
  <1>9. OwnInv'
    BY <1>1, <1>3 DEF IndInv, OwnInv, issuer
  <1>10. OutInv'
    BY <1>1, <1>2, <1>3 DEF IndInv, OutInv, LogoutSticks
  <1>11. GoodInv'
    <2>1. \A t : Good(t) => Good(t)'
      BY DEF Good, issuer
    <2>2. NoReuse'
      BY Zenon DEF IndInv, GoodInv, NoReuse
    <2>3. \A q \in Procs :
            /\ Renewing(q)' => Good(procs[q].tok)'
            /\ procs'[q].pc = "config" /\ lock' = q =>
                procs'[q].got.tok.gen = 0 \/ Good(procs[q].got.tok)'
      BY <1>1, <1>2, <1>3, Zenon DEF IndInv, GoodInv, Good, issuer
    <2>4. ASSUME disk # NONE
          PROVE  \/ disk.tok.gen = 0 \/ Good(disk.tok)'
                 \/ \E q \in Procs : Renewing(q)' /\ procs'[q].pc = "save"
                                       /\ procs'[q].tok.fam = disk.tok.fam
      <3>1. CASE disk.tok.gen = 0 \/ Good(disk.tok)
        BY <3>1, Zenon DEF Good, issuer
      <3>2. ASSUME NEW q \in Procs, Renewing(q), procs[q].pc = "save",
                   procs[q].tok.fam = disk.tok.fam
            PROVE  Good(disk.tok)' \/ (Renewing(q)' /\ procs'[q].pc = "save"
                                          /\ procs'[q].tok.fam = disk.tok.fam)
        BY <1>1, <1>3, <3>2, Zenon DEF Good
      <3>3. QED
        BY <2>4, <3>1, <3>2 DEF IndInv, GoodInv
    <2>5. QED
      BY <2>2, <2>3, <2>4 DEF GoodInv
  <1>12. QED
    BY <1>4, <1>5, <1>6, <1>7, <1>8, <1>9, <1>10, <1>11 DEF IndInv

\* A call returns; if it leaves a save undone, the tokens are lost.
LEMMA ReturnKeeps ==
    ASSUME IndInv, NEW p \in Procs, NEW t \in Token \cup {NONE}, Return(p, t),
           UNCHANGED <<disk, config, issuer, reused, loggedOut>>, faults' \in Nat,
           lost \subseteq lost', lost' \subseteq Fams,
           Renewing(p) /\ procs[p].pc = "save" => procs[p].tok.fam \in lost'
    PROVE  IndInv'
  <1> DEFINE r == [procs[p] EXCEPT !.pc = "done", !.tok = t, !.got = NONE]
  <1>1. procs[p] \in Proc /\ NONE \notin Procs
    BY ConstAssumption DEF IndInv, TypeOK
  <1>2. r \in Proc /\ r.pc = "done" /\ Step(p, r) /\ lock' = Release(p)
    BY <1>1, Zenon DEF Return, Proc
  <1>3. lock' # p
    BY <1>1, <1>2 DEF Release
  <1> HIDE DEF r
  <1>4. QED
    BY <1>2, <1>3, LetsGo

-----------------------------------------------------------------------------
\* The interactive flow brings tokens that nobody has seen.
LEMMA LoggedInKeeps ==
    ASSUME IndInv, NEW p \in Procs, LoggedIn(p)
    PROVE  IndInv'
  <1> DEFINE r == [procs[p] EXCEPT !.pc = "lock",
                     !.tok = [cfg |-> procs[p].cfg, fam |-> logins + 1, gen |-> 1]]
  <1>1. /\ procs[p] \in Proc /\ procs[p].pc = "flow" /\ procs[p].op = "login"
        /\ logins \in Nat /\ logins < MaxLogins /\ MaxLogins \in Nat /\ lock # p
        /\ Step(p, r) /\ logins' = logins + 1
        /\ UNCHANGED <<disk, config, lock, live, faults, history>>
    BY ConstAssumption DEF IndInv, TypeOK, PlaceInv, LoggedIn, Locked
  <1>2. /\ r \in Proc /\ r.pc = "lock" /\ r.op = "login" /\ r.cfg = procs[p].cfg
        /\ r.tok \in Token /\ r.tok.cfg = r.cfg /\ r.tok.fam = logins + 1 /\ r.tok.gen = 1
    <2> DEFINE t == [cfg |-> procs[p].cfg, fam |-> logins + 1, gen |-> 1]
    <2>1. t \in Token /\ t.cfg = procs[p].cfg /\ t.fam = logins + 1 /\ t.gen = 1
      BY <1>1 DEF Proc, Token, Fams
    <2> HIDE DEF t
    <2>2. QED
      BY <1>1, <2>1, Zenon DEF Proc, t
  <1> HIDE DEF r
  <1>3. /\ procs' \in [Procs -> Proc] /\ procs'[p] = r
        /\ \A q \in Procs : q # p => procs'[q] = procs[q]
    BY <1>1, <1>2, OneSteps DEF IndInv
  <1>4. /\ ~Renewing(p)' /\ Unseen(p)' /\ ~Renewing(p) /\ ~Unseen(p)
        /\ \A q \in Procs : q # p => (Renewing(q)' <=> Renewing(q)) /\ (Unseen(q)' <=> Unseen(q))
    BY <1>1, <1>2, <1>3, Zenon DEF Renewing, Unseen
  <1>5. TypeOK'
    BY <1>1, <1>3 DEF IndInv, TypeOK, history
  <1>6. PlaceInv'
    BY <1>2, <1>3, <1>4 DEF IndInv, PlaceInv
  <1>7. LockInv'
    BY <1>1, <1>2, <1>3, Zenon DEF IndInv, LockInv
  <1>8. BindInv'
    BY <1>1, <1>2, <1>3, Zenon DEF IndInv, BindInv
  <1>9. /\ disk # NONE => disk.tok.fam \in Nat /\ disk.tok.fam <= logins
        /\ \A f \in loggedOut : f \in Nat /\ f <= logins
        /\ \A q \in Procs :
            /\ Renewing(q) \/ Unseen(q) => procs[q].tok.fam \in Nat /\ procs[q].tok.fam <= logins
            /\ procs[q].pc = "config" => procs[q].got.tok.fam \in Nat /\ procs[q].got.tok.fam <= logins
    BY DEF IndInv, FamInv, Known, TypeOK, PlaceInv, File, Token, Fams
  <1>10. FamInv'
    <2>1. \A f \in Fams : ~(f <= logins + 1) => live[f] = 1
      BY <1>1 DEF IndInv, FamInv, Known, Fams
    <2>2. QED
      BY <1>1, <1>2, <1>3, <1>4, <1>9, <2>1 DEF FamInv, Known, history
  <1>11. OwnInv'
    <2>1. live[logins + 1] = 1
      BY <1>1 DEF IndInv, FamInv, Known, Fams
    <2>2. \A q \in Procs : (Renewing(q) \/ Unseen(q) => procs[q].tok.fam # logins + 1)
                           /\ (procs[q].pc = "config" => procs[q].got.tok.fam # logins + 1)
      BY <1>1, <1>9
    <2>3. disk # NONE => disk.tok.fam # logins + 1
      BY <1>1, <1>9
    <2>4. QED
      BY <1>1, <1>2, <1>3, <1>4, <2>1, <2>2, <2>3 DEF IndInv, OwnInv
  <1>12. OutInv'
    <2>1. logins + 1 \notin loggedOut
      BY <1>1, <1>9
    <2>2. QED
      BY <1>1, <1>2, <1>3, <1>4, <2>1, Zenon DEF IndInv, OutInv, LogoutSticks, history
  <1>13. GoodInv'
    BY <1>1, <1>2, <1>3, <1>4, Zenon DEF IndInv, GoodInv, Good, NoReuse, history
  <1>14. QED
    BY <1>5, <1>6, <1>7, <1>8, <1>10, <1>11, <1>12, <1>13 DEF IndInv

\* A login gets the lock and turns to its save.
LEMMA LoginLocks ==
    ASSUME IndInv, NEW p \in Procs, Locks(p), procs[p].op = "login"
    PROVE  IndInv'
  <1> DEFINE r == [procs[p] EXCEPT !.pc = "save"]
  <1>1. /\ procs[p] \in Proc /\ procs[p].pc = "lock" /\ lock = NONE /\ lock' = p /\ NONE \notin Procs
        /\ Step(p, r) /\ UNCHANGED <<disk, config, issuer, faults, history>>
    BY ConstAssumption DEF IndInv, TypeOK, Locks, Free, Under
  <1>2. /\ r \in Proc /\ r.pc = "save" /\ r.op = "login" /\ r.cfg = procs[p].cfg
        /\ r.tok = procs[p].tok
    BY <1>1 DEF Proc
  <1> HIDE DEF r
  <1>3. /\ procs' \in [Procs -> Proc] /\ procs'[p] = r
        /\ \A q \in Procs : q # p => procs'[q] = procs[q]
    BY <1>1, <1>2, OneSteps DEF IndInv
  <1>4. /\ ~Renewing(p)' /\ Unseen(p)' /\ ~Renewing(p) /\ Unseen(p)
        /\ \A q \in Procs : q # p => (Renewing(q)' <=> Renewing(q)) /\ (Unseen(q)' <=> Unseen(q))
    BY <1>1, <1>2, <1>3 DEF Renewing, Unseen
  <1>5. TypeOK'
    BY <1>1, <1>2, <1>3, Zenon DEF IndInv, TypeOK, issuer, history, Locked
  <1>6. PlaceInv'
    BY <1>2, <1>3, <1>4 DEF IndInv, PlaceInv
  <1>7. LockInv'
    BY <1>1, <1>2, <1>3, Zenon DEF IndInv, LockInv
  <1>8. BindInv'
    BY <1>1, <1>2, <1>3, Zenon DEF IndInv, BindInv
  <1>9. FamInv'
    BY <1>1, <1>2, <1>3, <1>4, Zenon DEF IndInv, FamInv, Known, issuer, history
  <1>10. OwnInv'
    BY <1>1, <1>2, <1>3, <1>4 DEF IndInv, OwnInv, issuer
  <1>11. OutInv'
    BY <1>1, <1>2, <1>3, <1>4 DEF IndInv, OutInv, LogoutSticks, history
  <1>12. GoodInv'
    BY <1>1, <1>2, <1>3, <1>4 DEF IndInv, GoodInv, Good, NoReuse, issuer, history
  <1>13. QED
    BY <1>5, <1>6, <1>7, <1>8, <1>9, <1>10, <1>11, <1>12 DEF IndInv

\* An unbound cache was read, and config.json is next.
LEMMA ReadsUnbound ==
    ASSUME IndInv, NEW p \in Procs, procs[p].pc = "load", disk # NONE, disk.bound = NONE,
           Step(p, [procs[p] EXCEPT !.pc = "config", !.got = disk]),
           UNCHANGED <<disk, config, lock, issuer, faults, history>>
    PROVE  IndInv'
  <1> DEFINE r == [procs[p] EXCEPT !.pc = "config", !.got = disk]
  <1>1. procs[p] \in Proc /\ procs[p].op = "ensure" /\ disk \in File /\ Step(p, r)
    BY DEF IndInv, TypeOK, PlaceInv
  <1>2. r \in Proc /\ r.pc = "config" /\ r.op = "ensure" /\ r.got = disk
    BY <1>1, Zenon DEF Proc
  <1> HIDE DEF r
  <1>3. /\ procs' \in [Procs -> Proc] /\ procs'[p] = r
        /\ \A q \in Procs : q # p => procs'[q] = procs[q]
    BY <1>1, <1>2, OneSteps DEF IndInv
  <1>4. /\ ~Renewing(p)' /\ ~Unseen(p)' /\ ~Renewing(p) /\ ~Unseen(p)
        /\ \A q \in Procs : q # p => (Renewing(q)' <=> Renewing(q)) /\ (Unseen(q)' <=> Unseen(q))
    BY <1>1, <1>2, <1>3 DEF Renewing, Unseen
  <1>5. TypeOK'
    BY <1>2, <1>3 DEF IndInv, TypeOK, issuer, history, Locked
  <1>6. PlaceInv'
    BY <1>1, <1>2, <1>3, <1>4 DEF IndInv, PlaceInv
  <1>7. LockInv'
    BY <1>2, <1>3 DEF IndInv, LockInv
  <1>8. BindInv'
    BY <1>2, <1>3 DEF IndInv, BindInv
  <1>9. FamInv'
    BY <1>2, <1>3, <1>4, Zenon DEF IndInv, FamInv, Known, issuer, history
  <1>10. OwnInv'
    BY <1>2, <1>3, <1>4 DEF IndInv, OwnInv, issuer
  <1>11. OutInv'
    BY <1>2, <1>3, <1>4, Zenon DEF IndInv, OutInv, LogoutSticks, history
  <1>12. GoodInv'
    <2>1. lock = p => disk.tok.gen = 0 \/ Good(disk.tok)
      BY DEF IndInv, GoodInv, LockInv
    <2>2. QED
      BY <1>2, <1>3, <1>4, <2>1 DEF IndInv, GoodInv, Good, NoReuse, issuer, history
  <1>13. QED
    BY <1>5, <1>6, <1>7, <1>8, <1>9, <1>10, <1>11, <1>12 DEF IndInv

-----------------------------------------------------------------------------
\* Under the lock a process has found tokens that it may refresh.
LEMMA PostKeeps ==
    ASSUME IndInv, NEW p \in Procs, NEW t \in Token, procs[p].pc \in {"load", "config"}, lock = p,
           t.cfg = procs[p].cfg, Known(t.fam), t.fam \notin loggedOut, Good(t),
           \A q \in Procs : Unseen(q) => t.fam # procs[q].tok.fam,
           Step(p, [procs[p] EXCEPT !.pc = "post", !.tok = t, !.got = NONE]),
           UNCHANGED <<disk, config, lock, issuer, faults, history>>
    PROVE  IndInv'
  <1> DEFINE r == [procs[p] EXCEPT !.pc = "post", !.tok = t, !.got = NONE]
  <1>1. procs[p] \in Proc /\ procs[p].op = "ensure" /\ Step(p, r)
    BY DEF IndInv, TypeOK, PlaceInv
  <1>2. r \in Proc /\ r.pc = "post" /\ r.op = "ensure" /\ r.tok = t /\ r.cfg = procs[p].cfg
    BY <1>1, Zenon DEF Proc
  <1> HIDE DEF r
  <1>3. /\ procs' \in [Procs -> Proc] /\ procs'[p] = r
        /\ \A q \in Procs : q # p => procs'[q] = procs[q]
    BY <1>1, <1>2, OneSteps DEF IndInv
  <1>4. /\ Renewing(p)' /\ ~Unseen(p)' /\ ~Renewing(p) /\ ~Unseen(p)
        /\ \A q \in Procs : q # p => (Renewing(q)' <=> Renewing(q)) /\ (Unseen(q)' <=> Unseen(q))
    BY <1>1, <1>2, <1>3 DEF Renewing, Unseen
  <1>5. TypeOK'
    BY <1>2, <1>3 DEF IndInv, TypeOK, issuer, history, Locked
  <1>6. PlaceInv'
    BY <1>2, <1>3, <1>4 DEF IndInv, PlaceInv
  <1>7. LockInv'
    BY <1>2, <1>3 DEF IndInv, LockInv
  <1>8. BindInv'
    BY <1>2, <1>3 DEF IndInv, BindInv
  <1>9. FamInv'
    BY <1>2, <1>3, <1>4 DEF IndInv, FamInv, Known, issuer, history
  <1>10. OwnInv'
    BY <1>2, <1>3, <1>4 DEF IndInv, OwnInv, issuer
  <1>11. OutInv'
    BY <1>2, <1>3, <1>4, Zenon DEF IndInv, OutInv, LogoutSticks, history
  <1>12. GoodInv'
    BY <1>2, <1>3, <1>4 DEF IndInv, GoodInv, Good, NoReuse, issuer, history
  <1>13. QED
    BY <1>5, <1>6, <1>7, <1>8, <1>9, <1>10, <1>11, <1>12 DEF IndInv

\* EnsureFreshTokens judges tokens it has read.
LEMMA JudgeKeeps ==
    ASSUME IndInv, NEW p \in Procs, NEW f \in File, procs[p].pc \in {"load", "config"},
           lock = p => /\ f.tok.cfg = procs[p].cfg /\ Known(f.tok.fam)
                       /\ f.tok.fam \notin loggedOut
                       /\ f.tok.gen = 0 \/ Good(f.tok)
                       /\ \A q \in Procs : Unseen(q) => f.tok.fam # procs[q].tok.fam,
           Judge(p, f), UNCHANGED <<disk, config, issuer, faults, history>>
    PROVE  IndInv'
  <1>1. /\ procs[p] \in Proc /\ procs[p].op = "ensure" /\ ~Renewing(p) /\ f.tok \in Token
        /\ faults \in Nat /\ lost \subseteq Fams /\ NONE \notin Procs
    BY ConstAssumption, Zenon DEF IndInv, TypeOK, PlaceInv, Renewing, File
  <1>2. ASSUME NEW t \in Token \cup {NONE}, Return(p, t) PROVE IndInv'
    BY <1>1, <1>2, ReturnKeeps DEF history
  <1>3. ASSUME lock # p, UNCHANGED lock,
               Step(p, [procs[p] EXCEPT !.pc = "lock", !.got = NONE])
        PROVE  IndInv'
    <2> DEFINE r == [procs[p] EXCEPT !.pc = "lock", !.got = NONE]
    <2>1. r \in Proc /\ r.pc = "lock" /\ r.op # "login" /\ Step(p, r)
      BY <1>1, <1>3, Zenon DEF Proc
    <2> HIDE DEF r
    <2>2. QED
      BY <1>1, <1>3, <2>1, LetsGo DEF history
  <1>4. ASSUME lock = p, f.tok.gen # 0, UNCHANGED lock,
               Step(p, [procs[p] EXCEPT !.pc = "post", !.tok = f.tok, !.got = NONE])
        PROVE  IndInv'
    BY <1>1, <1>4, PostKeeps, Zenon
  <1>5. QED
    BY <1>1, <1>2, <1>3, <1>4, Zenon DEF Judge

LEMMA LoadKeeps ==
    ASSUME IndInv, NEW p \in Procs, Load(p)
    PROVE  IndInv'
  <1>1. /\ procs[p] \in Proc /\ procs[p].pc = "load" /\ ~Renewing(p) /\ disk \in File \cup {NONE}
        /\ faults \in Nat /\ lost \subseteq Fams /\ NONE \notin Procs /\ NONE \notin Configs
        /\ procs[p].cfg \in Configs /\ UNCHANGED <<disk, config, issuer, faults, history>>
    BY ConstAssumption DEF IndInv, TypeOK, Renewing, Load, Proc
  <1>2. CASE Return(p, NONE)
    BY <1>1, <1>2, ReturnKeeps, Zenon DEF history
  <1>3. CASE disk # NONE /\ BoundTo(disk, procs[p].cfg) /\ Judge(p, disk)
    <2>1. disk \in File /\ disk.tok.cfg = procs[p].cfg /\ Known(disk.tok.fam)
          /\ disk.tok.fam \notin loggedOut
      BY <1>1, <1>3, Zenon DEF IndInv, BindInv, BoundTo, FamInv, OutInv, LogoutSticks
    <2>2. \A q \in Procs : Unseen(q) => disk.tok.fam # procs[q].tok.fam
      BY <1>3, Zenon DEF IndInv, OwnInv
    <2>3. lock = p => disk.tok.gen = 0 \/ Good(disk.tok)
      BY <1>1, <1>3 DEF IndInv, GoodInv, LockInv
    <2>4. QED
      BY <1>1, <1>3, <2>1, <2>2, <2>3, JudgeKeeps, Zenon
  <1>4. CASE /\ disk # NONE /\ disk.bound = NONE /\ UNCHANGED lock
             /\ Step(p, [procs[p] EXCEPT !.pc = "config", !.got = disk])
    BY <1>1, <1>4, ReadsUnbound, Zenon
  <1>5. QED
    BY <1>2, <1>3, <1>4 DEF Load

LEMMA LoadConfigKeeps ==
    ASSUME IndInv, NEW p \in Procs, LoadConfig(p)
    PROVE  IndInv'
  <1>1. /\ procs[p] \in Proc /\ procs[p].pc = "config" /\ ~Renewing(p) /\ procs[p].got \in File
        /\ faults \in Nat /\ lost \subseteq Fams /\ NONE \notin Procs
        /\ UNCHANGED <<disk, config, issuer, faults, history>>
    BY ConstAssumption, Zenon DEF IndInv, TypeOK, PlaceInv, Renewing, LoadConfig
  <1>2. CASE Return(p, NONE)
    BY <1>1, <1>2, ReturnKeeps, Zenon DEF history
  <1>3. CASE NamedBy(procs[p].cfg) /\ Judge(p, procs[p].got)
    <2>1. lock = p => /\ procs[p].got.tok.cfg = procs[p].cfg
                      /\ procs[p].got.tok.fam \notin loggedOut
                      /\ procs[p].got.tok.gen = 0 \/ Good(procs[p].got.tok)
      BY <1>1, <1>3, Zenon DEF IndInv, BindInv, NamedBy, OutInv, GoodInv
    <2>2. Known(procs[p].got.tok.fam)
      BY <1>1 DEF IndInv, FamInv
    <2>3. ~Unseen(p) /\ \A q \in Procs : Unseen(q) => procs[p].got.tok.fam # procs[q].tok.fam
      BY <1>1 DEF IndInv, OwnInv, Unseen
    <2>4. QED
      BY <1>1, <1>3, <2>1, <2>2, <2>3, JudgeKeeps, Zenon
  <1>4. QED
    BY <1>2, <1>3, Zenon DEF LoadConfig

-----------------------------------------------------------------------------
\* The issuer takes the refresh token and rotates it, or keeps it.
LEMMA RefreshKeeps ==
    ASSUME IndInv, NEW p \in Procs, Refresh(p)
    PROVE  IndInv'
  <1> DEFINE t == procs[p].tok
             r == procs'[p]
  <1>1. /\ procs[p] \in Proc /\ procs[p].pc = "post" /\ procs[p].op = "ensure" /\ lock = p
        /\ t \in Token /\ t.cfg = procs[p].cfg /\ t.fam \in Fams /\ t.gen \in Nat
        /\ t.gen = live[t.fam] /\ live \in [Fams -> Nat]
        /\ reused' = reused /\ UNCHANGED <<disk, config, lock, logins, faults, lost, loggedOut>>
    BY Zenon DEF IndInv, TypeOK, PlaceInv, LockInv, Renewing, Refresh, Present, Token
  <1>2. /\ r \in Proc /\ r.pc = "save" /\ r.op = "ensure" /\ r.cfg = procs[p].cfg
        /\ r.tok \in Token /\ r.tok.cfg = t.cfg /\ r.tok.fam = t.fam /\ r.tok.gen = live'[t.fam]
        /\ live' \in [Fams -> Nat] /\ \A f \in Fams : f # t.fam => live'[f] = live[f]
        /\ procs' \in [Procs -> Proc]
        /\ \A q \in Procs : q # p => procs'[q] = procs[q]
    <2>1. CASE /\ live' = [live EXCEPT ![t.fam] = @ + 1]
               /\ Step(p, [procs[p] EXCEPT !.pc = "save", !.tok = Rotated(t)])
      <3> DEFINE u == Rotated(t)
                 n == [procs[p] EXCEPT !.pc = "save", !.tok = u]
      <3>1. u \in Token /\ u.cfg = t.cfg /\ u.fam = t.fam /\ u.gen = t.gen + 1
        BY <1>1 DEF Rotated, Token
      <3> HIDE DEF u
      <3>2. /\ n \in Proc /\ n.pc = "save" /\ n.op = "ensure" /\ n.cfg = procs[p].cfg
            /\ n.tok = u /\ Step(p, n)
        BY <1>1, <2>1, <3>1, Zenon DEF Proc, u
      <3> HIDE DEF n
      <3>3. /\ procs' \in [Procs -> Proc] /\ procs'[p] = n
            /\ \A q \in Procs : q # p => procs'[q] = procs[q]
        BY <3>2, OneSteps, Zenon DEF IndInv
      <3>4. live' \in [Fams -> Nat] /\ live'[t.fam] = t.gen + 1
            /\ \A f \in Fams : f # t.fam => live'[f] = live[f]
        BY <1>1, <2>1
      <3>5. QED
        BY <3>1, <3>2, <3>3, <3>4
    <2>2. CASE UNCHANGED live /\ Step(p, [procs[p] EXCEPT !.pc = "save"])
      <3> DEFINE n == [procs[p] EXCEPT !.pc = "save"]
      <3>1. /\ n \in Proc /\ n.pc = "save" /\ n.op = "ensure" /\ n.cfg = procs[p].cfg
            /\ n.tok = t /\ Step(p, n)
        BY <1>1, <2>2 DEF Proc
      <3> HIDE DEF n
      <3>2. /\ procs' \in [Procs -> Proc] /\ procs'[p] = n
            /\ \A q \in Procs : q # p => procs'[q] = procs[q]
        BY <3>1, OneSteps, Zenon DEF IndInv
      <3>3. QED
        BY <1>1, <2>2, <3>1, <3>2
    <2>3. QED
      BY <2>1, <2>2, Zenon DEF Refresh
  <1>3. /\ Renewing(p)' /\ ~Unseen(p)' /\ Renewing(p) /\ ~Unseen(p)
        /\ \A q \in Procs : q # p => (Renewing(q)' <=> Renewing(q)) /\ (Unseen(q)' <=> Unseen(q))
    BY <1>1, <1>2, Zenon DEF Renewing, Unseen
  <1>4. \A q \in Procs : q # p => ~Renewing(q) /\ lock # q
    BY <1>1, Zenon DEF IndInv, LockInv, Renewing
  <1>5. Known(t.fam) /\ t.fam \notin loggedOut
    BY <1>3, Zenon DEF IndInv, FamInv, OutInv
  <1>6. TypeOK'
    BY <1>1, <1>2, Zenon DEF IndInv, TypeOK, Locked
  <1>7. PlaceInv'
    BY SMTT(30), <1>1, <1>2, <1>3 DEF IndInv, PlaceInv
  <1>8. LockInv'
    BY <1>1, <1>2, Zenon DEF IndInv, LockInv
  <1>9. BindInv'
    BY <1>1, <1>2, <1>4 DEF IndInv, BindInv
  <1>10. FamInv'
    BY <1>1, <1>2, <1>3, <1>5, Zenon DEF IndInv, FamInv, Known
  <1>11. OwnInv'
    <2>1. ASSUME NEW q \in Procs, Unseen(q)
          PROVE  /\ procs[q].tok.fam # t.fam /\ procs[q].tok.fam \in Fams
      BY <1>3, <2>1, Zenon DEF IndInv, OwnInv, TypeOK, PlaceInv, Token
    <2>2. ASSUME NEW q \in Procs, q # p, Unseen(q)
          PROVE  /\ disk' # NONE => disk'.tok.fam # procs[q].tok.fam
                 /\ live'[procs[q].tok.fam] = live[procs[q].tok.fam]
                 /\ procs'[p].tok.fam # procs[q].tok.fam /\ procs'[p].pc # "config"
      BY <1>1, <1>2, <2>1, <2>2, Zenon DEF IndInv, OwnInv
    <2>3. QED
      BY <1>2, <1>3, <2>2, OwnKeeps, Zenon DEF IndInv
  <1>12. OutInv'
    BY <1>1, <1>2, <1>3, <1>4, <1>5, Zenon DEF IndInv, OutInv, LogoutSticks
  <1>13. GoodInv'
    <2>1. Good(procs[p].tok)'
      BY <1>2, Zenon DEF Good
    <2>2. ASSUME disk # NONE, disk.tok.fam # t.fam
          PROVE  disk.tok.gen = 0 \/ Good(disk.tok)'
      <3>1. disk.tok.fam \in Fams
        BY <2>2, Zenon DEF IndInv, TypeOK, File, Token
      <3>2. disk.tok.gen = 0 \/ Good(disk.tok)
        BY <1>1, <1>4, <2>2, Zenon DEF IndInv, GoodInv
      <3>3. QED
        BY <1>1, <1>2, <2>2, <3>1, <3>2 DEF Good
    <2>3. NoReuse'
      BY <1>1 DEF IndInv, GoodInv, NoReuse
    <2>4. QED
      BY <1>1, <1>2, <1>3, <1>4, <2>1, <2>2, <2>3, Zenon DEF GoodInv
  <1>14. QED
    BY <1>6, <1>7, <1>8, <1>9, <1>10, <1>11, <1>12, <1>13 DEF IndInv

\* The refresh fails.  If the issuer rotated, the new tokens are lost; if it
\* rejected the refresh token, tokens of that login were lost before.
LEMMA RefreshFailsKeeps ==
    ASSUME IndInv, NEW p \in Procs, RefreshFails(p)
    PROVE  IndInv'
  <1> DEFINE t == procs[p].tok
             r == [procs[p] EXCEPT !.pc = "done", !.tok = NONE, !.got = NONE]
  <1>1. /\ procs[p] \in Proc /\ procs[p].pc = "post" /\ procs[p].op = "ensure" /\ lock = p
        /\ t.fam \in Fams /\ t.gen \in Nat /\ live \in [Fams -> Nat] /\ lost \subseteq Fams
        /\ Good(t) /\ Known(t.fam) /\ NONE \notin Procs /\ faults \in Nat
        /\ UNCHANGED <<disk, config, logins, loggedOut>>
    BY ConstAssumption, Zenon DEF IndInv, TypeOK, PlaceInv, LockInv, GoodInv, FamInv, Renewing,
                           RefreshFails, Token
  <1>2. r \in Proc /\ r.pc = "done" /\ Step(p, r) /\ lock' = NONE
    BY <1>1, Zenon DEF RefreshFails, Return, Release, Proc
  <1> HIDE DEF r
  <1>3. /\ procs' \in [Procs -> Proc] /\ procs'[p] = r
        /\ \A q \in Procs : q # p => procs'[q] = procs[q]
    BY <1>2, OneSteps DEF IndInv
  <1>4. /\ ~Renewing(p)' /\ ~Unseen(p)' /\ Renewing(p) /\ ~Unseen(p)
        /\ \A q \in Procs : q # p => (Renewing(q)' <=> Renewing(q)) /\ (Unseen(q)' <=> Unseen(q))
    BY <1>1, <1>2, <1>3 DEF Renewing, Unseen
  <1>5. \A q \in Procs : q # p => ~Renewing(q) /\ lock # q
    BY <1>1 DEF IndInv, LockInv, Renewing
  <1>6. /\ live' \in [Fams -> Nat] /\ \A f \in Fams : f # t.fam => live'[f] = live[f]
        /\ live' = live \/ t.fam \in lost'
        /\ lost \subseteq lost' /\ lost' \subseteq Fams /\ faults' \in Nat
        /\ reused' = reused \/ (reused' = reused \cup {t.fam} /\ t.fam \in lost')
    <2>1. CASE t.gen # live[t.fam] /\ Present(t) /\ UNCHANGED <<live, faults, lost>>
      BY <1>1, <2>1, Zenon DEF Present, Good
    <2>2. CASE UNCHANGED <<reused, live, faults, lost>>
      BY <1>1, <2>2, Zenon
    <2>3. CASE /\ t.gen = live[t.fam] /\ faults' = faults + 1 /\ lost' = lost \cup {t.fam}
               /\ live' = [live EXCEPT ![t.fam] = @ + 1] /\ Present(t)
      BY <1>1, <2>3 DEF Present
    <2>4. QED
      BY <2>1, <2>2, <2>3, Zenon DEF RefreshFails
  <1> HIDE DEF t
  <1>7. TypeOK'
    BY <1>1, <1>2, <1>3, <1>6, Zenon DEF IndInv, TypeOK
  <1>8. PlaceInv'
    BY <1>2, <1>3, <1>4, Zenon DEF IndInv, PlaceInv
  <1>9. LockInv'
    BY <1>1, <1>2, <1>3, <1>5, Zenon DEF IndInv, LockInv
  <1>10. BindInv'
    BY <1>1, <1>2, <1>3, <1>5 DEF IndInv, BindInv
  <1>11. FamInv'
    BY <1>1, <1>2, <1>3, <1>4, <1>6, Zenon DEF IndInv, FamInv, Known
  <1>12. OwnInv'
    <2>1. ASSUME NEW q \in Procs, Unseen(q)
          PROVE  procs[q].tok.fam # t.fam /\ procs[q].tok.fam \in Fams
      BY <1>4, <2>1, Zenon DEF IndInv, OwnInv, TypeOK, PlaceInv, Token, t
    <2>2. ASSUME NEW q \in Procs, q # p, Unseen(q)
          PROVE  /\ disk' # NONE => disk'.tok.fam # procs[q].tok.fam
                 /\ live'[procs[q].tok.fam] = live[procs[q].tok.fam]
      BY <1>1, <1>6, <2>1, <2>2 DEF IndInv, OwnInv
    <2>3. procs'[p].pc # "config"
      BY <1>2, <1>3
    <2>4. QED
      BY <1>3, <1>4, <2>2, <2>3, OwnKeeps, Zenon DEF IndInv
  <1>13. OutInv'
    BY <1>1, <1>2, <1>3, <1>4, <1>5, Zenon DEF IndInv, OutInv, LogoutSticks
  <1>14. GoodInv'
    <2>1. NoReuse'
      BY <1>6, Zenon DEF IndInv, GoodInv, NoReuse
    <2>2. ASSUME disk # NONE PROVE disk.tok.gen = 0 \/ Good(disk.tok)'
      <3>1. disk.tok.fam \in Fams
        BY <2>2, Zenon DEF IndInv, TypeOK, File, Token
      <3>2. disk.tok.gen = 0 \/ Good(disk.tok)
        BY <1>1, <1>5, <2>2, Zenon DEF IndInv, GoodInv
      <3>3. QED
        BY <1>1, <1>6, <3>1, <3>2, Zenon DEF Good
    <2>3. \A q \in Procs : ~Renewing(q)' /\ lock' # q
      BY <1>1, <1>2, <1>4, <1>5
    <2>4. QED
      BY <1>1, <2>1, <2>2, <2>3, Zenon DEF GoodInv
  <1>15. QED
    BY <1>7, <1>8, <1>9, <1>10, <1>11, <1>12, <1>13, <1>14 DEF IndInv

-----------------------------------------------------------------------------
\* Tokens, refreshed or of a new login, replace the cache.
LEMMA SaveKeeps ==
    ASSUME IndInv, NEW p \in Procs, Save(p)
    PROVE  IndInv'
  <1> DEFINE t == procs[p].tok
             r == procs'[p]
  <1>1. /\ procs[p] \in Proc /\ procs[p].pc = "save" /\ procs[p].op \in {"ensure", "login"}
        /\ lock = p /\ NONE \notin Procs /\ NONE \notin Configs /\ (Renewing(p) \/ Unseen(p))
        /\ t \in Token /\ t.cfg = procs[p].cfg /\ t.fam \in Fams /\ procs[p].cfg \in Configs
        /\ UNCHANGED <<config, issuer, faults, history>>
    BY ConstAssumption DEF IndInv, TypeOK, PlaceInv, LockInv, Renewing, Unseen, Save, Token, Proc
  <1>2. Known(t.fam) /\ t.fam \notin loggedOut /\ Good(t)
    BY <1>1, Zenon DEF IndInv, FamInv, OutInv, GoodInv, OwnInv, Good
  <1>3. disk' \in File /\ disk'.tok = t /\ disk'.bound = procs[p].cfg
    BY <1>1 DEF Save, File
  <1>4. /\ r \in Proc /\ r.pc \in {"saveConfig", "done"} /\ r.op = procs[p].op
        /\ r.cfg = procs[p].cfg /\ r.tok = t
        /\ r.pc = "saveConfig" => r.op = "login" /\ lock' = p
        /\ r.pc = "done" => lock' = NONE
        /\ procs' \in [Procs -> Proc] /\ \A q \in Procs : q # p => procs'[q] = procs[q]
    <2>1. CASE procs[p].op = "login"
      <3> DEFINE n == [procs[p] EXCEPT !.pc = "saveConfig"]
      <3>1. /\ n \in Proc /\ n.pc = "saveConfig" /\ n.op = procs[p].op /\ n.cfg = procs[p].cfg
            /\ n.tok = t /\ Step(p, n) /\ UNCHANGED lock
        BY <1>1, <2>1, Zenon DEF Save, Proc
      <3> HIDE DEF n
      <3>2. QED
        BY <1>1, <2>1, <3>1, OneSteps DEF IndInv
    <2>2. CASE procs[p].op # "login"
      <3> DEFINE n == [procs[p] EXCEPT !.pc = "done", !.tok = t, !.got = NONE]
      <3>1. /\ n \in Proc /\ n.pc = "done" /\ n.op = procs[p].op /\ n.cfg = procs[p].cfg
            /\ n.tok = t /\ Step(p, n) /\ lock' = NONE
        BY <1>1, <2>2, Zenon DEF Save, Return, Release, Proc
      <3> HIDE DEF n
      <3>2. QED
        BY <1>1, <2>2, <3>1, OneSteps DEF IndInv
    <2>3. QED
      BY <2>1, <2>2, Zenon
  <1>5. /\ ~Renewing(p)' /\ ~Unseen(p)'
        /\ \A q \in Procs : q # p => (Renewing(q)' <=> Renewing(q)) /\ (Unseen(q)' <=> Unseen(q))
    BY <1>4, Zenon DEF Renewing, Unseen
  <1>6. \A q \in Procs : q # p => ~Renewing(q) /\ lock # q /\ lock' # q
    BY <1>1, <1>4 DEF IndInv, LockInv, Renewing
  <1> HIDE DEF t, r
  <1>7. TypeOK'
    BY <1>1, <1>3, <1>4, <1>6 DEF IndInv, TypeOK, Locked, issuer, history, r
  <1>8. PlaceInv'
    BY <1>1, <1>4, <1>5, Zenon DEF IndInv, PlaceInv, r
  <1>9. LockInv'
    BY <1>4, <1>6, Zenon DEF IndInv, LockInv, r
  <1>10. BindInv'
    BY <1>1, <1>3, <1>4, <1>6, Zenon DEF BindInv, r
  <1>11. FamInv'
    BY <1>1, <1>2, <1>3, <1>4, <1>5, Zenon DEF IndInv, FamInv, Known, issuer, history, r
  <1>12. OwnInv'
    <2>1. \A q \in Procs \ {p} : Unseen(q) => t.fam # procs[q].tok.fam
      BY <1>1, Zenon DEF IndInv, OwnInv, t
    <2>2. ASSUME NEW q \in Procs, q # p, Unseen(q)
          PROVE  /\ disk' # NONE => disk'.tok.fam # procs[q].tok.fam
                 /\ live'[procs[q].tok.fam] = live[procs[q].tok.fam]
      BY <1>1, <1>3, <2>1, <2>2, Zenon DEF issuer
    <2>3. procs'[p].pc # "config"
      BY <1>4 DEF r
    <2>4. QED
      BY <1>4, <1>5, <2>2, <2>3, OwnKeeps, Zenon DEF IndInv
  <1>13. OutInv'
    BY <1>1, <1>2, <1>3, <1>4, <1>5, <1>6, Zenon DEF IndInv, OutInv, LogoutSticks, history, r
  <1>14. GoodInv'
    BY <1>1, <1>2, <1>3, <1>4, <1>5, <1>6, Zenon DEF IndInv, GoodInv, Good, NoReuse, issuer, history, r
  <1>15. QED
    BY <1>7, <1>8, <1>9, <1>10, <1>11, <1>12, <1>13, <1>14 DEF IndInv

\* A login names its configuration in config.json and returns.
LEMMA SaveConfigKeeps ==
    ASSUME IndInv, NEW p \in Procs, SaveConfig(p)
    PROVE  IndInv'
  <1> DEFINE r == [procs[p] EXCEPT !.pc = "done", !.tok = procs[p].tok, !.got = NONE]
  <1>1. /\ procs[p] \in Proc /\ procs[p].pc = "saveConfig" /\ lock = p /\ NONE \notin Procs
        /\ procs[p].op = "login" /\ procs[p].cfg \in Configs /\ config' = procs[p].cfg
        /\ UNCHANGED <<disk, issuer, faults, history>>
    BY ConstAssumption, Zenon DEF IndInv, TypeOK, PlaceInv, LockInv, SaveConfig, Proc
  <1>2. r \in Proc /\ r.pc = "done" /\ Step(p, r) /\ lock' = NONE
    BY <1>1, Zenon DEF SaveConfig, Return, Release, Proc
  <1> HIDE DEF r
  <1>3. /\ procs' \in [Procs -> Proc] /\ procs'[p] = r
        /\ \A q \in Procs : q # p => procs'[q] = procs[q]
    BY <1>2, OneSteps DEF IndInv
  <1>4. /\ ~Renewing(p)' /\ ~Unseen(p)' /\ ~Renewing(p) /\ ~Unseen(p)
        /\ \A q \in Procs : q # p => (Renewing(q)' <=> Renewing(q)) /\ (Unseen(q)' <=> Unseen(q))
    BY <1>1, <1>2, <1>3, Zenon DEF Renewing, Unseen
  <1>5. \A q \in Procs : lock' # q /\ (q # p => lock # q)
    BY <1>1, <1>2
  <1>6. TypeOK'
    BY <1>1, <1>2, <1>3 DEF IndInv, TypeOK, issuer, history
  <1>7. PlaceInv'
    BY <1>2, <1>3, <1>4, Zenon DEF IndInv, PlaceInv
  <1>8. LockInv'
    BY <1>2, <1>3, <1>5, Zenon DEF IndInv, LockInv
  <1>9. BindInv'
    BY <1>1, <1>5, Zenon DEF IndInv, BindInv
  <1>10. FamInv'
    BY <1>1, <1>2, <1>3, <1>4 DEF IndInv, FamInv, Known, issuer, history
  <1>11. OwnInv'
    <2>1. ASSUME NEW q \in Procs, Unseen(q)
          PROVE  /\ disk' # NONE => disk'.tok.fam # procs[q].tok.fam
                 /\ live'[procs[q].tok.fam] = live[procs[q].tok.fam]
      BY <1>1, <2>1, Zenon DEF IndInv, OwnInv, issuer
    <2>2. procs'[p].pc # "config"
      BY <1>2, <1>3
    <2>3. QED
      BY <1>3, <1>4, <2>1, <2>2, OwnKeeps, Zenon DEF IndInv
  <1>12. OutInv'
    BY <1>1, <1>3, <1>4, <1>5 DEF IndInv, OutInv, LogoutSticks, history
  <1>13. GoodInv'
    BY <1>1, <1>3, <1>4, <1>5, Zenon DEF IndInv, GoodInv, Good, NoReuse, issuer, history
  <1>14. QED
    BY <1>6, <1>7, <1>8, <1>9, <1>10, <1>11, <1>12, <1>13 DEF IndInv

\* A logout removes the cache.  Under the lock nobody is refreshing it.
LEMMA RemoveKeeps ==
    ASSUME IndInv, NEW p \in Procs, Remove(p)
    PROVE  IndInv'
  <1> DEFINE r == [procs[p] EXCEPT !.pc = "done", !.tok = NONE, !.got = NONE]
  <1>1. /\ procs[p] \in Proc /\ procs[p].pc = "remove" /\ NONE \notin Procs /\ disk' = NONE
        /\ disk # NONE => disk \in File /\ disk.tok.fam \in Fams
        /\ UNCHANGED <<config, issuer, faults, reused, lost>>
    BY ConstAssumption DEF IndInv, TypeOK, Remove, File, Token
  <1>2. r \in Proc /\ r.pc = "done" /\ Step(p, r) /\ lock' = Release(p)
    BY <1>1, Zenon DEF Remove, Return, Proc
  <1> HIDE DEF r
  <1>3. /\ procs' \in [Procs -> Proc] /\ procs'[p] = r
        /\ \A q \in Procs : q # p => procs'[q] = procs[q]
    BY <1>2, OneSteps, Zenon DEF IndInv
  <1>4. /\ ~Renewing(p)' /\ ~Unseen(p)' /\ ~Renewing(p) /\ ~Unseen(p)
        /\ \A q \in Procs : q # p => (Renewing(q)' <=> Renewing(q)) /\ (Unseen(q)' <=> Unseen(q))
    BY <1>1, <1>2, <1>3 DEF Renewing, Unseen
  <1>5. /\ lock' \in Procs \cup {NONE} /\ lock' # p
        /\ \A q \in Procs : q # p => (lock' = q <=> lock = q)
    BY <1>1, <1>2, Zenon DEF IndInv, TypeOK, Release
  <1>6. \/ loggedOut' = loggedOut
        \/ /\ lock = p /\ disk # NONE /\ loggedOut' = loggedOut \cup {disk.tok.fam}
           /\ \A q \in Procs : q # p => ~Renewing(q) /\ lock # q
    BY Zenon DEF IndInv, LockInv, Renewing, Remove
  <1>7. TypeOK'
    BY <1>1, <1>2, <1>3, <1>5, <1>6, Zenon DEF IndInv, TypeOK, issuer
  <1>8. PlaceInv'
    BY <1>2, <1>3, <1>4, Zenon DEF IndInv, PlaceInv
  <1>9. LockInv'
    BY <1>2, <1>3, <1>5, Zenon DEF IndInv, LockInv
  <1>10. BindInv'
    BY <1>1, <1>3, <1>5 DEF IndInv, BindInv
  <1>11. FamInv'
    BY <1>1, <1>2, <1>3, <1>4, <1>6, Zenon DEF IndInv, FamInv, Known, issuer
  <1>12. OwnInv'
    <2>1. ASSUME NEW q \in Procs, Unseen(q)
          PROVE  /\ disk' # NONE => disk'.tok.fam # procs[q].tok.fam
                 /\ live'[procs[q].tok.fam] = live[procs[q].tok.fam]
      BY <1>1, <2>1, Zenon DEF IndInv, OwnInv, issuer
    <2>2. procs'[p].pc # "config"
      BY <1>2, <1>3, Zenon
    <2>3. QED
      BY <1>3, <1>4, <2>1, <2>2, OwnKeeps, Zenon DEF IndInv
  <1>13. OutInv'
    <2>1. LogoutSticks'
      BY <1>1, Zenon DEF LogoutSticks
    <2>2. ASSUME NEW q \in Procs, Renewing(q)' \/ Unseen(q)'
          PROVE  procs'[q].tok.fam \notin loggedOut'
      <3>1. q # p /\ procs'[q] = procs[q] /\ (Renewing(q) \/ Unseen(q))
        BY <1>3, <1>4, <2>2
      <3>2. procs[q].tok.fam \notin loggedOut
        BY Zenon, <3>1 DEF IndInv, OutInv
      <3>3. disk # NONE /\ Unseen(q) => procs[q].tok.fam # disk.tok.fam
        BY Zenon DEF IndInv, OwnInv
      <3>4. QED
        BY <1>6, <3>1, <3>2, <3>3
    <2>3. ASSUME NEW q \in Procs, procs'[q].pc = "config", lock' = q
          PROVE  procs'[q].got.tok.fam \notin loggedOut'
      BY <1>3, <1>5, <1>6, <2>3 DEF IndInv, OutInv
    <2>4. QED
      BY <2>1, <2>2, <2>3 DEF OutInv
  <1>14. GoodInv'
    BY <1>1, <1>3, <1>4, <1>5, Zenon DEF IndInv, GoodInv, Good, NoReuse, issuer
  <1>15. QED
    BY <1>7, <1>8, <1>9, <1>10, <1>11, <1>12, <1>13, <1>14 DEF IndInv

\* Age changes nothing the invariant speaks of.
LEMMA AgeKeeps ==
    ASSUME IndInv, Age
    PROVE  IndInv'
  <1>1. /\ disk \in File /\ disk # NONE /\ UNCHANGED <<config, lock, procs, issuer, faults, history>>
        /\ disk' \in File /\ disk'.tok = disk.tok /\ disk'.bound = disk.bound
    BY Zenon DEF IndInv, TypeOK, Age, File
  <1>2. /\ UNCHANGED <<logins, live, reused, lost, loggedOut>>
        /\ \A q \in Procs : (Renewing(q)' <=> Renewing(q)) /\ (Unseen(q)' <=> Unseen(q))
    BY <1>1, Zenon DEF Renewing, Unseen, issuer, history
  <1>3. TypeOK' /\ PlaceInv' /\ LockInv'
    BY <1>1, <1>2, Zenon DEF IndInv, TypeOK, PlaceInv, LockInv
  <1>4. BindInv' /\ FamInv' /\ OwnInv'
    BY <1>1, <1>2, Zenon DEF IndInv, BindInv, FamInv, Known, OwnInv
  <1>5. OutInv' /\ GoodInv'
    BY <1>1, <1>2 DEF IndInv, OutInv, LogoutSticks, GoodInv, Good, NoReuse
  <1>6. QED
    BY <1>3, <1>4, <1>5 DEF IndInv

-----------------------------------------------------------------------------
LEMMA InitHolds == Init => IndInv
  <1> SUFFICES ASSUME Init PROVE IndInv
    BY Zenon
  <1>1. PICK c \in Earlier, g \in 0..1, b \in BOOLEAN :
          /\ disk \in {NONE, [tok |-> [cfg |-> c, fam |-> 1, gen |-> g], stale |-> FALSE,
                              bound |-> IF Legacy /\ b THEN NONE ELSE c]}
          /\ config = c
          /\ procs = [p \in Procs |-> [op |-> "ensure", pc |-> "idle", cfg |-> c,
                                       got |-> NONE, tok |-> NONE]]
    BY Zenon DEF Init
  <1>2. /\ lock = NONE /\ logins = 1 /\ live = [f \in Fams |-> 1] /\ faults = 0
        /\ reused = {} /\ lost = {} /\ loggedOut = {} /\ c \in Configs
        /\ NONE \notin Procs /\ 1 \in Fams /\ 1 \in 0..MaxLogins
    BY SMTT(30), ConstAssumption DEF Init, Fams
  <1>3. /\ procs \in [Procs -> Proc]
        /\ \A p \in Procs : procs[p].pc = "idle" /\ ~Renewing(p) /\ ~Unseen(p)
    BY <1>1, <1>2, Zenon DEF Proc, Renewing, Unseen
  <1>4. disk # NONE => /\ disk \in File /\ disk.tok.cfg = c /\ disk.tok.fam = 1
                       /\ disk.tok.gen \in {0, 1} /\ disk.bound \in {NONE, c}
    <2> DEFINE t == [cfg |-> c, fam |-> 1, gen |-> g]
               n == IF Legacy /\ b THEN NONE ELSE c
    <2>1. t \in Token /\ t.cfg = c /\ t.fam = 1 /\ t.gen \in {0, 1}
      BY <1>2 DEF Token
    <2>2. n \in {NONE, c} /\ n \in Configs \cup {NONE}
      BY <1>2, Zenon
    <2> DEFINE d == [tok |-> t, stale |-> FALSE, bound |-> n]
    <2>3. disk # NONE => disk = d
      BY <1>1, Zenon
    <2> HIDE DEF t, n
    <2>4. d \in File /\ d.tok = t /\ d.bound = n
      BY <2>1, <2>2, Zenon DEF File
    <2> HIDE DEF d
    <2>5. QED
      BY <2>1, <2>2, <2>3, <2>4
  <1>5. TypeOK
    BY <1>1, <1>2, <1>3, <1>4, Zenon DEF TypeOK
  <1>6. PlaceInv /\ LockInv /\ OwnInv
    BY <1>3, Zenon DEF PlaceInv, LockInv, OwnInv
  <1>7. BindInv
    BY <1>1, <1>3, <1>4 DEF BindInv
  <1>8. FamInv
    BY <1>2, <1>3, <1>4 DEF FamInv, Known
  <1>9. OutInv /\ GoodInv
    BY <1>2, <1>3, <1>4, Zenon DEF OutInv, LogoutSticks, GoodInv, Good, NoReuse
  <1>10. QED
    BY <1>5, <1>6, <1>7, <1>8, <1>9 DEF IndInv

LEMMA CallKeeps ==
    ASSUME IndInv, NEW p \in Procs,
           \/ \E op \in {"ensure", "logout"}, c \in Configs : Call(p, op, c)
           \/ \E c \in Configs : BeginLogin(p, c)
    PROVE  IndInv'
  <1>1. /\ procs[p] \in Proc /\ procs[p].pc = "idle" /\ ~Renewing(p) /\ lock # p
        /\ faults \in Nat /\ lost \subseteq Fams
        /\ UNCHANGED <<disk, config, lock, issuer, faults, history>>
    BY Zenon DEF IndInv, TypeOK, Locked, Renewing, Call, BeginLogin
  <1>2. PICK r \in Proc : /\ Step(p, r) /\ r.pc \in {"load", "lock", "flow"}
                          /\ r.pc = "load" => r.op = "ensure"
                          /\ r.pc = "flow" => r.op = "login"
                          /\ r.pc = "lock" => r.op # "login"
    <2>1. ASSUME NEW op \in {"ensure", "logout"}, NEW c \in Configs, Call(p, op, c)
          PROVE  \E r \in Proc : /\ Step(p, r) /\ r.pc \in {"load", "lock", "flow"}
                                 /\ r.pc = "load" => r.op = "ensure"
                                 /\ r.pc = "flow" => r.op = "login"
                                 /\ r.pc = "lock" => r.op # "login"
      <3> DEFINE r == [procs[p] EXCEPT !.op = op, !.cfg = c,
                                       !.pc = IF op = "ensure" THEN "load" ELSE "lock"]
      <3>1. r \in Proc /\ r.op = op /\ r.pc = IF op = "ensure" THEN "load" ELSE "lock"
        BY <1>1, Zenon DEF Proc
      <3>2. Step(p, r)
        BY <2>1, Zenon DEF Call
      <3> HIDE DEF r
      <3>3. QED
        BY <3>1, <3>2
    <2>2. ASSUME NEW c \in Configs, BeginLogin(p, c)
          PROVE  \E r \in Proc : /\ Step(p, r) /\ r.pc = "flow" /\ r.op = "login"
      <3> DEFINE r == [procs[p] EXCEPT !.op = "login", !.cfg = c, !.pc = "flow"]
      <3>1. r \in Proc /\ r.op = "login" /\ r.pc = "flow"
        BY <1>1, Zenon DEF Proc
      <3>2. Step(p, r)
        BY <2>2, Zenon DEF BeginLogin
      <3> HIDE DEF r
      <3>3. QED
        BY <3>1, <3>2
    <2>3. QED
      BY <2>1, <2>2
  <1>3. QED
    BY <1>1, <1>2, LetsGo DEF history

\* Waiting for the lock ends.
LEMMA LockKeeps ==
    ASSUME IndInv, NEW p \in Procs, Locks(p) \/ LockFails(p)
    PROVE  IndInv'
  <1>1. /\ procs[p] \in Proc /\ procs[p].pc = "lock" /\ ~Renewing(p) /\ lock # p
        /\ procs[p].op \in {"ensure", "login", "logout"}
        /\ faults \in Nat /\ lost \subseteq Fams /\ NONE \notin Procs
        /\ UNCHANGED <<disk, config, issuer, faults, history>>
    BY ConstAssumption DEF IndInv, TypeOK, Locked, Renewing, Locks, LockFails, Proc
  <1>2. CASE Locks(p) /\ procs[p].op = "login"
    BY <1>2, LoginLocks, Zenon
  <1>3. CASE Locks(p) /\ procs[p].op # "login"
    <2> DEFINE r == [procs[p] EXCEPT !.pc = Under[procs[p].op]]
    <2>1. /\ r \in Proc /\ r.op = procs[p].op
          /\ r.pc = IF r.op = "ensure" THEN "load" ELSE "remove"
      BY <1>1, <1>3 DEF Proc, Under
    <2>2. Step(p, r) /\ lock = NONE /\ lock' = p
      BY <1>3, Zenon DEF Locks, Free
    <2> HIDE DEF r
    <2>3. QED
      BY <1>1, <2>1, <2>2, LetsGo DEF history, Locked
  <1>4. CASE Return(p, NONE)
    BY <1>1, <1>4, ReturnKeeps DEF history
  <1>5. CASE UNCHANGED lock /\ Step(p, [procs[p] EXCEPT !.pc = "remove"])
    <2> DEFINE r == [procs[p] EXCEPT !.pc = "remove"]
    <2>1. r \in Proc /\ r.pc = "remove" /\ Step(p, r)
      BY <1>1, <1>5 DEF Proc
    <2> HIDE DEF r
    <2>2. QED
      BY <1>1, <1>5, <2>1, LetsGo DEF history
  <1>6. QED
    BY <1>2, <1>3, <1>4, <1>5 DEF LockFails

\* A call fails, a process dies, a new call may begin.
LEMMA EndKeeps ==
    ASSUME IndInv, NEW p \in Procs, LoginFails(p) \/ FileFails(p) \/ Done(p) \/ Crash(p)
    PROVE  IndInv'
  <1>1. /\ procs[p] \in Proc /\ faults \in Nat /\ lost \subseteq Fams /\ NONE \notin Procs
        /\ Renewing(p) => procs[p].tok \in Token /\ procs[p].tok.fam \in Fams
        /\ UNCHANGED <<disk, config, issuer, reused, loggedOut>>
    BY ConstAssumption, Zenon DEF IndInv, TypeOK, PlaceInv, Token, LoginFails, FileFails, Done, Crash, history
  <1>2. lost' = Unsaved(p) => /\ lost \subseteq lost' /\ lost' \subseteq Fams
                              /\ Renewing(p) /\ procs[p].pc = "save" => procs[p].tok.fam \in lost'
    BY <1>1, Zenon DEF Unsaved, Renewing
  <1>3. CASE LoginFails(p)
    BY <1>1, <1>3, ReturnKeeps, Zenon DEF LoginFails, Renewing, history
  <1>4. CASE FileFails(p)
    BY SMTT(30), <1>1, <1>2, <1>4, ReturnKeeps DEF FileFails
  <1>5. CASE Done(p)
    <2> DEFINE r == [procs[p] EXCEPT !.pc = "idle", !.tok = NONE]
    <2>1. r \in Proc /\ r.pc = "idle" /\ Step(p, r) /\ lock # p
      BY <1>1, <1>5, Zenon DEF Done, Proc, IndInv, TypeOK, Locked
    <2> HIDE DEF r
    <2>2. QED
      BY <1>1, <1>5, <2>1, LetsGo DEF Done, Renewing, history
  <1>6. CASE Crash(p)
    <2> DEFINE r == [procs[p] EXCEPT !.pc = "idle", !.got = NONE, !.tok = NONE]
    <2>1. r \in Proc /\ r.pc = "idle" /\ Step(p, r) /\ lock' = Release(p)
      BY <1>1, <1>6, Zenon DEF Crash, Proc
    <2>2. lock' # p
      BY <1>1, <2>1 DEF Release
    <2> HIDE DEF r
    <2>3. QED
      BY <1>1, <1>2, <1>6, <2>1, <2>2, LetsGo DEF Crash
  <1>7. QED
    BY <1>3, <1>4, <1>5, <1>6

LEMMA StepKeeps == IndInv /\ [Next]_vars => IndInv'
  <1> SUFFICES ASSUME IndInv, [Next]_vars PROVE IndInv'
    OBVIOUS
  <1>1. CASE UNCHANGED vars
    <2>1. /\ disk' = disk /\ config' = config /\ lock' = lock /\ procs' = procs
          /\ logins' = logins /\ live' = live /\ faults' = faults
          /\ reused' = reused /\ lost' = lost /\ loggedOut' = loggedOut
      BY <1>1 DEF vars, issuer, history
    <2>2. TypeOK'
      BY Zenon, <2>1 DEF IndInv, TypeOK
    <2>3. PlaceInv'
      BY Zenon, <2>1 DEF IndInv, PlaceInv, Renewing, Unseen
    <2>4. LockInv' /\ BindInv'
      BY Zenon, <2>1 DEF IndInv, LockInv, BindInv
    <2>5. FamInv'
      BY Zenon, <2>1 DEF IndInv, FamInv, Known, Renewing, Unseen
    <2>6. OwnInv'
      BY Zenon, <2>1 DEF IndInv, OwnInv, Renewing, Unseen
    <2>7. OutInv'
      BY Zenon, <2>1 DEF IndInv, OutInv, LogoutSticks, Renewing, Unseen
    <2>8. GoodInv'
      BY Zenon, <2>1 DEF IndInv, GoodInv, Good, NoReuse, Renewing
    <2>9. QED
      BY <2>2, <2>3, <2>4, <2>5, <2>6, <2>7, <2>8 DEF IndInv
  <1>2. ASSUME NEW p \in Procs,
               \/ \E op \in {"ensure", "logout"}, c \in Configs : Call(p, op, c)
               \/ \E c \in Configs : BeginLogin(p, c)
               \/ LoggedIn(p) \/ LoginFails(p)
               \/ Work(p) \/ Locks(p) \/ LockFails(p) \/ Done(p) \/ Crash(p)
        PROVE  IndInv'
    <2>1. CASE Work(p)
      BY <2>1, LoadKeeps, LoadConfigKeeps, RefreshKeeps, RefreshFailsKeeps, SaveKeeps,
         SaveConfigKeeps, RemoveKeeps, EndKeeps, Zenon DEF Work
    <2>2. QED
      BY <1>2, <2>1, CallKeeps, LoggedInKeeps, LockKeeps, EndKeeps
  <1>3. QED
    BY <1>1, <1>2, AgeKeeps DEF Next

\* The login flows, whatever they do, only decide when a login of the cache
\* begins, ends well and fails: CliLogin implements TokenCache.
LEMMA FlowsHide == [CliNext]_cliVars => [Next]_vars
  <1> SUFFICES ASSUME [CliNext]_cliVars PROVE [Next]_vars
    OBVIOUS
  <1>1. CASE UNCHANGED cliVars
    BY <1>1, Zenon DEF cliVars
  <1>2. ASSUME NEW p \in Procs,
               \/ \E c \in Configs : Login(p, c)
               \/ Flows(p) \/ FlowEnds(p) \/ Dies(p)
               \/ \E op \in {"ensure", "logout"}, c \in Configs :
                     Call(p, op, c) /\ UNCHANGED flowVars
               \/ (Work(p) \/ Locks(p) \/ LockFails(p) \/ Done(p)) /\ UNCHANGED flowVars
        PROVE  [Next]_vars
    BY <1>2 DEF Next, Login, Flows, FlowEnds, Dies
  <1>3. QED
    BY <1>1, <1>2 DEF CliNext, Disturbs, Next

LEMMA IndInvHolds == Spec => []IndInv
  BY InitHolds, StepKeeps, PTL DEF Spec

\* A login goes through a code flow or a device flow; the cache that helper
\* processes share sees none of it but its end (oidcclient/login.go).
THEOREM LoginsRefineTheCache == CliSpec => Spec
  <1>1. CliInit => Init
    BY DEF CliInit
  <1>2. QED
    BY <1>1, FlowsHide, PTL DEF CliSpec, Spec

\* For any number of helpers, logins, rotations and faults: a refresh token that
\* was rotated is presented again only if rotated tokens of that login were lost
\* on their way to the disk (EnsureFreshTokens' lock, re-read and save).
THEOREM RefreshTokensAreNotBurnt == CliSpec => []NoReuse
  <1>1. IndInv => NoReuse
    BY Zenon DEF IndInv, GoodInv
  <1>2. QED
    BY <1>1, IndInvHolds, LoginsRefineTheCache, PTL

\* For any number of helpers and configurations: a refresh token is sent to the
\* issuer and client that issued it, also out of a cache that is not bound
\* (loadMatchingTokens).
THEOREM TokensGoHome == CliSpec => []RightIssuer
  <1>1. IndInv => RightIssuer
    BY DEF IndInv, PlaceInv, RightIssuer, Renewing
  <1>2. QED
    BY <1>1, IndInvHolds, LoginsRefineTheCache, PTL

\* For any number of helpers: no refresh under way brings back tokens that a
\* Logout removed under the lock.
THEOREM LogoutIsFinal == CliSpec => []LogoutSticks
  <1>1. IndInv => LogoutSticks
    BY Zenon DEF IndInv, OutInv
  <1>2. QED
    BY <1>1, IndInvHolds, LoginsRefineTheCache, PTL

-----------------------------------------------------------------------------
(* The interactive flows. *)
\* What the loopback callback knows.  Until the first outcome no redirect has
\* come; what is waiting in the result channel, or was taken from it, is what
\* the first redirect said.
CodeInv ==
    /\ code \in CodeState
    /\ code.told \subseteq {code.first}
    /\ code.result \in Redirects => code.result = code.first
    /\ code.got \in Redirects => code.got = code.first
    /\ code.serving /\ ~code.done => code.seen = 0
    /\ code.serving /\ code.seen = 0 =>
        code.told = {} /\ code.result \notin Redirects /\ code.got \notin Redirects

\* The poll loop waits as long as it was asked to: what is left of the sleep
\* makes up for what has not passed since the last answer.
DeviceInv ==
    /\ device \in DeviceState
    /\ device.interval = device.asked
    /\ device.pc = "sleep" => /\ device.since + device.nap >= device.interval
                              /\ device.left - device.nap >= -device.interval
    /\ device.pc = "poll" => device.since >= device.interval

-----------------------------------------------------------------------------
LEMMA NoCodeFits == NoCode \in CodeState /\ ServeError \notin Redirects /\ Nothing \notin Redirects
  BY CodeAssumption DEF NoCode, CodeState, Redirects, ServeError, Nothing

\* A flow that has not begun, has failed or has just found its port.
LEMMA Blank ==
    ASSUME code' = NoCode \/ CodeFails \/ StartCode
    PROVE  CodeInv'
  <1>1. /\ code' \in CodeState /\ code'.told = {} /\ code'.result = Nothing
        /\ code'.got = Nothing /\ code'.seen = 0
    <2>1. /\ NoCode.told = {} /\ NoCode.result = Nothing /\ NoCode.got = Nothing /\ NoCode.seen = 0
      BY DEF NoCode
    <2>2. CASE code' = NoCode
      BY <2>1, <2>2, NoCodeFits
    <2>3. CASE CodeFails
      BY <2>1, <2>3, NoCodeFits DEF CodeFails, CodeState
    <2>4. CASE code' = [NoCode EXCEPT !.pc = "discover", !.serving = TRUE]
      BY <2>1, <2>4, NoCodeFits, Zenon DEF CodeState
    <2>5. QED
      BY <2>2, <2>3, <2>4 DEF StartCode
  <1>2. QED
    BY <1>1, NoCodeFits DEF CodeInv

LEMMA CodeStep ==
    ASSUME CodeInv, CodeSteps \/ CodeEnvironment
    PROVE  CodeInv'
  <1>1. CASE StartCode
    BY <1>1, Blank
  <1>2. CASE OpenBrowser
    <2>1. CASE code' = [code EXCEPT !.pc = "wait"]
      BY <2>1 DEF CodeInv, CodeState
    <2>2. QED
      BY <1>2, <2>1, Blank DEF OpenBrowser
  <1>3. CASE StrayRequest
    BY <1>3, Zenon DEF CodeInv, StrayRequest, Stray
  <1>4. ASSUME NEW ok \in BOOLEAN, Redirect(ok) PROVE CodeInv'
    <2> DEFINE n == code.seen + 1
               v == IF ok THEN n ELSE 0
               d == Decide(v)
               f == IF code.seen = 0 THEN v ELSE code.first
               u == IF ok /\ ~code.done THEN code.told \cup {n} ELSE code.told
    <2>1. /\ code.serving /\ n \in Redirects /\ v \in Redirects /\ n # 0
          /\ code \in CodeState /\ f \in Redirects \cup {Nothing} /\ u \subseteq Redirects
      BY <1>4, CodeAssumption DEF CodeInv, CodeState, Redirect, Redirects, Nothing
    <2>2. /\ d \in CodeState /\ d.done = TRUE /\ d.got = code.got /\ d.pc = code.pc
          /\ d.serving = code.serving /\ d.first = code.first /\ d.told = code.told
          /\ d.result = IF code.done THEN code.result ELSE v
      BY <2>1, Zenon DEF Decide, CodeState
    <2>3. code' = [d EXCEPT !.seen = n, !.first = f, !.told = u]
      BY <1>4, <2>2, Zenon DEF Redirect
    <2>4. f = (IF code.seen = 0 THEN v ELSE code.first)
          /\ u = (IF ok /\ ~code.done THEN code.told \cup {n} ELSE code.told)
          /\ v = (IF ok THEN n ELSE 0)
      OBVIOUS
    <2> HIDE DEF n, v, d, f, u
    <2>5. /\ code' \in CodeState /\ code'.seen = n /\ code'.first = f /\ code'.told = u
          /\ code'.done = TRUE /\ code'.got = code.got /\ code'.result = d.result
          /\ code'.pc = code.pc /\ code'.serving = code.serving
      BY <2>1, <2>2, <2>3, Zenon DEF CodeState
    <2>6. u \subseteq {f} /\ (d.result \in Redirects => d.result = f)
          /\ (code.got \in Redirects => code.got = f)
      BY <2>1, <2>2, <2>4, Zenon DEF CodeInv
    <2>7. QED
      BY <2>1, <2>2, <2>5, <2>6 DEF CodeInv
  <1>5. CASE ServeFails
    <2>1. code.serving /\ ~code.done /\ code' = [code EXCEPT !.done = TRUE, !.result = ServeError]
      BY <1>5 DEF ServeFails, Decide
    <2>2. QED
      BY <2>1, NoCodeFits, Zenon DEF CodeInv, CodeState
  <1>6. CASE Wait
    <2>1. PICK v \in {code.result, Nothing} :
            code' = [code EXCEPT !.pc = "shut", !.got = v,
                                 !.result = IF v = code.result THEN Nothing ELSE @]
      BY <1>6, Zenon DEF Wait
    <2>2. /\ code' \in CodeState /\ code'.pc = "shut" /\ code'.got = v
          /\ code'.result \in {code.result, Nothing} /\ code'.seen = code.seen
          /\ code'.first = code.first /\ code'.told = code.told /\ code'.done = code.done
          /\ code'.serving = code.serving
      BY <2>1, Zenon DEF CodeInv, CodeState
    <2>3. QED
      BY <2>2, NoCodeFits, Zenon DEF CodeInv
  <1>7. CASE ShutdownCallback
    <2>1. CASE code' = [NoCode EXCEPT !.pc = "exchange", !.got = code.got,
                                      !.first = code.first, !.told = code.told]
      <3>1. /\ code' \in CodeState /\ code'.pc = "exchange" /\ code'.got = code.got
            /\ code'.first = code.first /\ code'.told = code.told /\ code'.result = Nothing
            /\ code'.serving = FALSE
        BY <2>1, NoCodeFits, Zenon DEF CodeInv, CodeState, NoCode
      <3>2. QED
        BY <3>1, NoCodeFits DEF CodeInv
    <2>2. QED
      BY <1>7, <2>1, Blank DEF ShutdownCallback
  <1>8. QED
    BY <1>1, <1>2, <1>3, <1>4, <1>5, <1>6, <1>7 DEF CodeSteps, CodeEnvironment

-----------------------------------------------------------------------------
LEMMA NoDeviceFits == NoDevice \in DeviceState
  BY DeviceAssumption DEF NoDevice, DeviceState

LEMMA DeviceBlank ==
    ASSUME device' = NoDevice \/ StartDevice \/ DeviceEnds("failed") \/ DeviceEnds("granted")
    PROVE  DeviceInv'
  <1>1. /\ device' \in DeviceState /\ device'.interval = device'.asked
        /\ device'.pc \in {"off", "authorize", "failed", "granted"}
    BY NoDeviceFits DEF NoDevice, DeviceState, StartDevice, DeviceEnds
  <1>2. QED
    BY <1>1 DEF DeviceInv

LEMMA DeviceStep ==
    ASSUME DeviceInv, DeviceSteps \/ DeviceEnvironment
    PROVE  DeviceInv'
  <1>1. CASE StartDevice \/ DeviceEnds("failed") \/ DeviceEnds("granted")
    BY <1>1, DeviceBlank
  <1>2. CASE Authorize
    <2>1. ASSUME NEW i \in Intervals, NEW l \in Lifetimes,
                 device' = [NoDevice EXCEPT !.pc = "check", !.interval = OrDefault(i, DefaultInterval),
                              !.left = OrDefault(l, DefaultLifetime),
                              !.asked = OrDefault(i, DefaultInterval)]
          PROVE  DeviceInv'
      <3> DEFINE n == OrDefault(i, DefaultInterval)
                 m == OrDefault(l, DefaultLifetime)
      <3>1. n \in Nat /\ m \in Nat
        BY DeviceAssumption DEF OrDefault
      <3> HIDE DEF n, m
      <3>2. device' = [NoDevice EXCEPT !.pc = "check", !.interval = n, !.left = m, !.asked = n]
        BY <2>1 DEF n, m
      <3>3. device' \in DeviceState /\ device'.pc = "check" /\ device'.interval = device'.asked
        <4> DEFINE d == [NoDevice EXCEPT !.pc = "check", !.interval = n]
        <4>1. d \in DeviceState /\ d.pc = "check" /\ d.interval = n
          BY <3>1, NoDeviceFits, Zenon DEF DeviceState
        <4>2. device' = [d EXCEPT !.left = m, !.asked = n] /\ m \in Int
          BY <3>1, <3>2
        <4> HIDE DEF d
        <4>3. QED
          BY <3>1, <4>1, <4>2, Zenon DEF DeviceState
      <3>4. QED
        BY <3>3 DEF DeviceInv
    <2>2. QED
      BY <1>1, <1>2, <2>1, Zenon DEF Authorize
  <1>3. CASE CheckDeadline
    <2>1. CASE device.left >= 0 /\ device' = [device EXCEPT !.pc = "sleep", !.nap = device.interval]
      <3>1. /\ device' \in DeviceState /\ device'.pc = "sleep" /\ device'.nap = device.interval
            /\ device'.left = device.left /\ device'.since = device.since
            /\ device'.interval = device.interval /\ device'.asked = device.asked
        BY <2>1, Zenon DEF DeviceInv, DeviceState
      <3>2. device.interval \in Nat /\ device.since \in Nat /\ device.left \in Int
        BY DEF DeviceInv, DeviceState
      <3>3. QED
        BY <2>1, <3>1, <3>2 DEF DeviceInv
    <2>2. device.left \in Int
      BY DEF DeviceInv, DeviceState
    <2>3. QED
      BY <1>1, <1>3, <2>1, <2>2 DEF CheckDeadline
  <1>4. CASE WakeUp
    <2>1. /\ device' \in DeviceState /\ device'.pc = "poll" /\ device.pc = "sleep" /\ device.nap = 0
          /\ device'.since = device.since /\ device'.interval = device.interval
          /\ device'.asked = device.asked /\ device.since \in Nat
      BY <1>4 DEF WakeUp, DeviceInv, DeviceState
    <2>2. QED
      BY <2>1 DEF DeviceInv
  <1>5. CASE PollAnswered
    <2>1. CASE device' = Pending(device)
      <3>1. device' \in DeviceState /\ device'.pc = "check" /\ device'.interval = device'.asked
        BY <2>1, Zenon DEF Pending, DeviceInv, DeviceState
      <3>2. QED
        BY <3>1 DEF DeviceInv
    <2>2. CASE /\ device.slowed < MaxSlowDowns
               /\ device' = [Pending(SlowDown(device)) EXCEPT !.slowed = @ + 1, !.asked = @ + 1]
      <3> DEFINE i == device.interval + 1
                 d == Pending([device EXCEPT !.interval = i])
                 n == d.slowed + 1
                 a == d.asked + 1
      <3>1. device \in DeviceState /\ i \in Nat
        BY DEF DeviceInv, DeviceState
      <3>2. device' = [d EXCEPT !.slowed = n, !.asked = a]
        BY <2>2 DEF SlowDown
      <3> HIDE DEF i
      <3>3. /\ d \in DeviceState /\ d.pc = "check" /\ d.interval = i
            /\ d.asked = device.asked /\ d.slowed = device.slowed
        BY <3>1, Zenon DEF Pending, DeviceState
      <3> HIDE DEF d
      <3>4. n \in 0..MaxSlowDowns /\ a \in Nat /\ a = i
        BY <2>2, <3>1, <3>3, DeviceAssumption DEF DeviceInv, DeviceState, i
      <3> HIDE DEF n, a
      <3>5. device' \in DeviceState /\ device'.pc = "check" /\ device'.interval = device'.asked
        BY <3>2, <3>3, <3>4, Zenon DEF DeviceState
      <3>6. QED
        BY <3>5 DEF DeviceInv
    <2>3. QED
      BY <1>1, <1>5, <2>1, <2>2 DEF PollAnswered
  <1>6. CASE Elapses
    <2>1. /\ device' \in DeviceState /\ device'.pc = device.pc /\ device'.left = device.left - 1
          /\ device'.nap = (IF device.nap > 0 THEN device.nap - 1 ELSE 0)
          /\ device'.since = device.since + 1 /\ device'.interval = device.interval
          /\ device'.asked = device.asked
      <3> DEFINE l == device.left - 1
                 n == IF device.nap > 0 THEN device.nap - 1 ELSE 0
                 s == device.since + 1
      <3>1. device \in DeviceState /\ l \in Int /\ n \in Nat /\ s \in Nat
        BY DEF DeviceInv, DeviceState
      <3>2. device' = [device EXCEPT !.left = l, !.nap = n, !.since = s]
        BY <1>6 DEF Elapses
      <3> HIDE DEF l, n, s
      <3>3. /\ device' \in DeviceState /\ device'.pc = device.pc /\ device'.left = l
            /\ device'.nap = n /\ device'.since = s /\ device'.interval = device.interval
            /\ device'.asked = device.asked
        BY <3>1, <3>2, Zenon DEF DeviceState
      <3>4. QED
        BY <3>3 DEF l, n, s
    <2>2. /\ device.interval \in Nat /\ device.since \in Nat /\ device.left \in Int
          /\ device.nap \in Nat /\ (device.pc = "sleep" => device.nap > 0)
      BY <1>6 DEF Elapses, Sleeping, DeviceInv, DeviceState
    <2>3. QED
      BY <2>1, <2>2 DEF DeviceInv
  <1>7. QED
    BY <1>1, <1>2, <1>3, <1>4, <1>5, <1>6 DEF DeviceSteps, DeviceEnvironment, DeviceCancelled

-----------------------------------------------------------------------------
LEMMA FlowsInit == CliInit => CodeInv /\ DeviceInv
  <1> SUFFICES ASSUME code = NoCode, device = NoDevice PROVE CodeInv /\ DeviceInv
    BY DEF CliInit, CodeInit, DeviceInit
  <1>1. /\ code.told = {} /\ code.result = Nothing /\ code.got = Nothing /\ code.seen = 0
        /\ device.interval = device.asked /\ device.pc = "off"
    BY Zenon DEF NoCode, NoDevice
  <1>2. QED
    BY <1>1, NoCodeFits, NoDeviceFits DEF CodeInv, DeviceInv

LEMMA FlowsStep == CodeInv /\ DeviceInv /\ [CliNext]_cliVars => CodeInv' /\ DeviceInv'
  <1> SUFFICES ASSUME CodeInv, DeviceInv, [CliNext]_cliVars PROVE CodeInv' /\ DeviceInv'
    OBVIOUS
  <1>1. UNCHANGED code => CodeInv'
    BY DEF CodeInv
  <1>2. UNCHANGED device => DeviceInv'
    BY DEF DeviceInv
  <1>3. code' = NoCode /\ device' = NoDevice => CodeInv' /\ DeviceInv'
    BY Blank, DeviceBlank
  <1>4. UNCHANGED flowVars => CodeInv' /\ DeviceInv'
    BY <1>1, <1>2 DEF flowVars
  <1>5. ASSUME NEW p \in Procs,
               (\E c \in Configs : Login(p, c)) \/ Flows(p) \/ FlowEnds(p) \/ Dies(p)
        PROVE  CodeInv' /\ DeviceInv'
    <2>1. CASE \E c \in Configs : Login(p, c)
      BY <1>1, <1>2, <2>1, Blank, DeviceBlank, Zenon DEF Login
    <2>2. CASE Flows(p)
      BY <1>1, <1>2, <2>2, CodeStep, DeviceStep DEF Flows
    <2>3. CASE FlowEnds(p) \/ Dies(p)
      BY <1>3, <1>4, <2>3 DEF FlowEnds, Dies
    <2>4. QED
      BY <1>5, <2>1, <2>2, <2>3
  <1>6. CASE Disturbs
    BY <1>1, <1>2, <1>6, CodeStep, DeviceStep DEF Disturbs
  <1>7. CASE UNCHANGED cliVars
    BY <1>4, <1>7 DEF cliVars
  <1>8. QED
    BY <1>4, <1>5, <1>6, <1>7 DEF CliNext

LEMMA FlowInvHolds == CliSpec => [](CodeInv /\ DeviceInv)
  BY FlowsInit, FlowsStep, PTL DEF CliSpec

\* For any number of redirects, strays and server failures: the code exchanged
\* is the one of the first genuine redirect, and nobody else was told that the
\* login succeeded (LoopbackCallback.serve and Wait).
THEOREM OneRedirectCounts == CliSpec => []FirstRedirectDecides
  <1>1. CodeInv => FirstRedirectDecides
    BY DEF CodeInv, FirstRedirectDecides
  <1>2. QED
    BY <1>1, FlowInvHolds, PTL

\* For any interval, lifetime and number of slow_down answers: polls keep the
\* distance the issuer asked for, and begin at most one interval after the
\* device code has expired (RunDeviceFlow).
THEOREM PollingIsPaced == CliSpec => []PollsPaced
  <1>1. DeviceInv => PollsPaced
    BY DEF DeviceInv, PollsPaced
  <1>2. QED
    BY <1>1, FlowInvHolds, PTL
=============================================================================
