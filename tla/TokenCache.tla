----------------------------- MODULE TokenCache -----------------------------
(***************************************************************************)
(* auth/oidcclient: the SSO token cache (tokens.json, config.json) that    *)
(* helper processes share: EnsureFreshTokens, Login and Logout under the   *)
(* advisory lock of lock_unix.go, and the issuer whose refresh tokens      *)
(* rotate on use.  A process may crash between any two steps; the kernel   *)
(* then releases its lock.  What happens between BeginLogin and LoggedIn   *)
(* is a matter of CliLogin, which adds the interactive flows.              *)
(*                                                                         *)
(* A token set is the login it stems from (fam, with its issuer/client     *)
(* cfg) and its place in that login's chain of refresh tokens (gen, 0 when *)
(* it has none).  Go's nil, a missing file and a failed call are NONE.     *)
(***************************************************************************)
EXTENDS Integers

CONSTANTS Procs, Configs,
          Earlier,        \* configurations of the login before the run
          MaxLogins,      \* bound: logins
          MaxRotations,   \* bound: refresh tokens of one login
          MaxFaults,      \* bound: crashes, lost responses, failed writes
          Legacy,         \* may the cache stem from before it was bound?
          NONE

ASSUME ConstAssumption ==
    /\ MaxLogins \in Nat \ {0} /\ MaxRotations \in Nat \ {0} /\ MaxFaults \in Nat
    /\ Legacy \in BOOLEAN /\ NONE \notin Configs /\ NONE \notin Procs
    /\ Earlier \subseteq Configs /\ Earlier # {}

VARIABLES disk,      \* tokens.json
          config,    \* config.json
          lock,      \* holder of .tokens.lock
          procs,
          logins,    \* the issuers: number of logins
          live,      \* the issuers: newest refresh token of each login
          faults,
          reused,    \* history: logins of which a rotated refresh token was presented
          lost,      \* history: logins of which rotated tokens were not saved
          loggedOut  \* history: logins a Logout removed under the lock

issuer == <<logins, live>>
history == <<reused, lost, loggedOut>>
vars == <<disk, config, lock, procs, issuer, faults, history>>

Fams == 1..MaxLogins
Token == [cfg : Configs, fam : Fams, gen : Nat]
File == [tok : Token, stale : BOOLEAN, bound : Configs \cup {NONE}]
Proc == [op : {"ensure", "login", "logout"},
         pc : {"idle", "flow", "load", "config", "lock", "post", "save", "saveConfig",
               "remove", "done"},
         cfg : Configs, got : File \cup {NONE}, tok : Token \cup {NONE}]
Locked == {"load", "config", "post", "save", "saveConfig", "remove"}

\* Type invariant: in particular, the lock is held only inside an operation.
TypeOK ==
    /\ disk \in File \cup {NONE} /\ config \in Configs \cup {NONE}
    /\ lock \in Procs \cup {NONE}
    /\ procs \in [Procs -> Proc]
    /\ \A p \in Procs : lock = p => procs[p].pc \in Locked
    /\ logins \in 0..MaxLogins /\ live \in [Fams -> Nat]
    /\ faults \in Nat /\ reused \subseteq Fams /\ lost \subseteq Fams /\ loggedOut \subseteq Fams

\* No cache, or the cache of an earlier login: bound to it or, from before
\* caches were bound, beside its config.json.
Init ==
    /\ \E c \in Earlier, g \in 0..1, b \in BOOLEAN :
        LET t == [cfg |-> c, fam |-> 1, gen |-> g] IN
        /\ disk \in {NONE, [tok |-> t, stale |-> FALSE,
                            bound |-> IF Legacy /\ b THEN NONE ELSE c]}
        /\ config = c
        /\ procs = [p \in Procs |-> [op |-> "ensure", pc |-> "idle", cfg |-> c,
                                     got |-> NONE, tok |-> NONE]]
    /\ lock = NONE /\ logins = 1 /\ live = [f \in Fams |-> 1]
    /\ faults = 0 /\ reused = {} /\ lost = {} /\ loggedOut = {}

-----------------------------------------------------------------------------
Step(p, r) == procs' = [procs EXCEPT ![p] = r]

Release_Never(p) == lock

Release(p) == IF lock = p THEN NONE ELSE lock

\* The call returns tokens t or an error (NONE); its defers release the lock.
Return(p, t) ==
    /\ Step(p, [procs[p] EXCEPT !.pc = "done", !.tok = t, !.got = NONE])
    /\ lock' = Release(p)

Call(p, op, c) ==
    /\ procs[p].pc = "idle"
    /\ op # "login"
    /\ Step(p, [procs[p] EXCEPT !.op = op, !.cfg = c,
                                !.pc = IF op = "ensure" THEN "load" ELSE "lock"])
    /\ UNCHANGED <<disk, config, lock, issuer, faults, history>>

\* Login: the interactive flow, which does not hold the lock, ends with the
\* tokens of a new login or fails.
BeginLogin(p, c) ==
    /\ procs[p].pc = "idle" /\ logins < MaxLogins
    /\ Step(p, [procs[p] EXCEPT !.op = "login", !.cfg = c, !.pc = "flow"])
    /\ UNCHANGED <<disk, config, lock, issuer, faults, history>>

LoggedIn(p) ==
    /\ procs[p].pc = "flow" /\ logins < MaxLogins
    /\ logins' = logins + 1
    /\ Step(p, [procs[p] EXCEPT !.pc = "lock",
                  !.tok = [cfg |-> procs[p].cfg, fam |-> logins + 1, gen |-> 1]])
    /\ UNCHANGED <<disk, config, lock, live, faults, history>>

LoginFails(p) ==
    /\ procs[p].pc = "flow"
    /\ Return(p, NONE)
    /\ UNCHANGED <<disk, config, issuer, faults, history>>

\* lockTokens: it polls until it has the lock, its context is done or flock
\* fails.  Only Logout goes on without the lock.
Under == [ensure |-> "load", login |-> "save", logout |-> "remove"]

Free_Ignored == TRUE

Free == lock = NONE

Locks(p) ==
    /\ procs[p].pc = "lock" /\ Free
    /\ lock' = p
    /\ Step(p, [procs[p] EXCEPT !.pc = Under[procs[p].op]])
    /\ UNCHANGED <<disk, config, issuer, faults, history>>

LockFails(p) ==
    /\ procs[p].pc = "lock"
    /\ \/ procs[p].op # "logout" /\ Return(p, NONE)
       \/ /\ procs[p].op = "logout" /\ UNCHANGED lock
          /\ Step(p, [procs[p] EXCEPT !.pc = "remove"])
    /\ UNCHANGED <<disk, config, issuer, faults, history>>

-----------------------------------------------------------------------------
\* EnsureFreshTokens with the tokens f: use them, take the lock and read them
\* again, or refresh them.
Judge_Once(p, f) ==
    \/ ~f.stale /\ Return(p, f.tok)
    \/ /\ f.stale /\ UNCHANGED lock
       /\ Step(p, [procs[p] EXCEPT !.pc = "post", !.tok = f.tok, !.got = NONE])

Judge(p, f) ==
    \/ ~f.stale /\ Return(p, f.tok)
    \/ /\ f.stale /\ lock # p /\ UNCHANGED lock
       /\ Step(p, [procs[p] EXCEPT !.pc = "lock", !.got = NONE])
    \/ f.stale /\ lock = p /\ f.tok.gen = 0 /\ Return(p, NONE)
    \/ /\ f.stale /\ lock = p /\ f.tok.gen # 0 /\ UNCHANGED lock
       /\ Step(p, [procs[p] EXCEPT !.pc = "post", !.tok = f.tok, !.got = NONE])

\* loadMatchingTokens: the cache is bound to our configuration, or unbound
\* and config.json, read next, names it.
BoundTo(f, c) == f.bound = c

Load(p) ==
    /\ procs[p].pc = "load"
    /\ \/ disk = NONE /\ Return(p, NONE)
       \/ disk # NONE /\ BoundTo(disk, procs[p].cfg) /\ Judge(p, disk)
       \/ /\ disk # NONE /\ disk.bound # NONE /\ ~BoundTo(disk, procs[p].cfg)
          /\ Return(p, NONE)
       \/ /\ disk # NONE /\ disk.bound = NONE /\ UNCHANGED lock
          /\ Step(p, [procs[p] EXCEPT !.pc = "config", !.got = disk])
    /\ UNCHANGED <<disk, config, issuer, faults, history>>

NamedBy_Any(c) == TRUE

NamedBy(c) == config = c

LoadConfig(p) ==
    /\ procs[p].pc = "config"
    /\ IF NamedBy(procs[p].cfg) THEN Judge(p, procs[p].got) ELSE Return(p, NONE)
    /\ UNCHANGED <<disk, config, issuer, faults, history>>

-----------------------------------------------------------------------------
\* Refresh: the issuer rotates the newest refresh token of a login, or keeps
\* it, and rejects any other; the response may be lost.
Present(t) == reused' = IF t.gen # live[t.fam] THEN reused \cup {t.fam} ELSE reused

\* The fresh tokens of a refresh die with the process or its failed write.
Unsaved(p) ==
    IF procs[p].op = "ensure" /\ procs[p].pc = "save"
    THEN lost \cup {procs[p].tok.fam} ELSE lost

Rotated(t) == [t EXCEPT !.gen = @ + 1]

Refresh(p) ==
    LET t == procs[p].tok IN
    /\ procs[p].pc = "post" /\ t.gen = live[t.fam]
    /\ Present(t)
    /\ \/ /\ t.gen < MaxRotations
          /\ live' = [live EXCEPT ![t.fam] = @ + 1]
          /\ Step(p, [procs[p] EXCEPT !.pc = "save", !.tok = Rotated(t)])
       \/ /\ UNCHANGED live
          /\ Step(p, [procs[p] EXCEPT !.pc = "save"])
    /\ UNCHANGED <<disk, config, lock, logins, faults, lost, loggedOut>>

RefreshFails(p) ==
    LET t == procs[p].tok IN
    /\ procs[p].pc = "post"
    /\ \/ t.gen # live[t.fam] /\ Present(t) /\ UNCHANGED <<live, faults, lost>>
       \/ UNCHANGED <<reused, live, faults, lost>>
       \/ /\ t.gen = live[t.fam] /\ t.gen < MaxRotations /\ faults < MaxFaults
          /\ faults' = faults + 1 /\ lost' = lost \cup {t.fam}
          /\ live' = [live EXCEPT ![t.fam] = @ + 1]
          /\ Present(t)
    /\ Return(p, NONE)
    /\ UNCHANGED <<disk, config, logins, loggedOut>>

\* saveTokens: WriteFileAtomic renames a complete file over the old one.  The
\* new access token may have expired already.
Save(p) ==
    /\ procs[p].pc = "save"
    /\ \E st \in BOOLEAN : disk' = [tok |-> procs[p].tok, stale |-> st, bound |-> procs[p].cfg]
    /\ IF procs[p].op = "login"
       THEN Step(p, [procs[p] EXCEPT !.pc = "saveConfig"]) /\ UNCHANGED lock
       ELSE Return(p, procs[p].tok)
    /\ UNCHANGED <<config, issuer, faults, history>>

SaveConfig(p) ==
    /\ procs[p].pc = "saveConfig"
    /\ config' = procs[p].cfg
    /\ Return(p, procs[p].tok)
    /\ UNCHANGED <<disk, issuer, faults, history>>

\* Any read, write or removal may fail; the cache is then as it was.
FileFails(p) ==
    /\ procs[p].pc \in {"load", "config", "save", "saveConfig", "remove"}
    /\ faults < MaxFaults /\ faults' = faults + 1 /\ lost' = Unsaved(p)
    /\ Return(p, NONE)
    /\ UNCHANGED <<disk, config, issuer, reused, loggedOut>>

\* Logout: config.json stays.
Remove(p) ==
    /\ procs[p].pc = "remove"
    /\ disk' = NONE
    /\ loggedOut' = IF lock = p /\ disk # NONE THEN loggedOut \cup {disk.tok.fam} ELSE loggedOut
    /\ Return(p, NONE)
    /\ UNCHANGED <<config, issuer, faults, reused, lost>>

-----------------------------------------------------------------------------
Done(p) ==
    /\ procs[p].pc = "done"
    /\ Step(p, [procs[p] EXCEPT !.pc = "idle", !.tok = NONE])
    /\ UNCHANGED <<disk, config, lock, issuer, faults, history>>

\* A process dies; the helper that is started in its place knows nothing.
Crash(p) ==
    /\ procs[p].pc \notin {"idle", "done"}
    /\ faults < MaxFaults /\ faults' = faults + 1 /\ lost' = Unsaved(p)
    /\ Step(p, [procs[p] EXCEPT !.pc = "idle", !.got = NONE, !.tok = NONE])
    /\ lock' = Release(p)
    /\ UNCHANGED <<disk, config, issuer, reused, loggedOut>>

\* The cached access token comes within accessSkew of its expiry.
Age ==
    /\ disk # NONE /\ ~disk.stale
    /\ disk' = [disk EXCEPT !.stale = TRUE]
    /\ UNCHANGED <<config, lock, procs, issuer, faults, history>>

Work(p) ==
    \/ Load(p) \/ LoadConfig(p) \/ Refresh(p) \/ RefreshFails(p) \/ Save(p)
    \/ SaveConfig(p) \/ FileFails(p) \/ Remove(p)

Next ==
    \/ \E p \in Procs :
        \/ \E op \in {"ensure", "logout"}, c \in Configs : Call(p, op, c)
        \/ \E c \in Configs : BeginLogin(p, c)
        \/ LoggedIn(p) \/ LoginFails(p)
        \/ Work(p) \/ Locks(p) \/ LockFails(p) \/ Done(p) \/ Crash(p)
    \/ Age

Spec == Init /\ [][Next]_vars

\* A process runs on, an HTTP call is answered or fails, and polling the lock
\* gets it when it is free often enough.  Nothing makes lockTokens give up: the
\* caller's context need not have a deadline.
FairSpec == Spec /\ \A p \in Procs : WF_vars(Work(p)) /\ SF_vars(Locks(p))

-----------------------------------------------------------------------------
\* Concurrent helpers never burn the refresh token: one that was rotated is
\* presented again only if rotated tokens of that login were lost on the way to
\* the disk (a crash, a lost response or a failed write after the issuer rotated
\* and before the rename; EnsureFreshTokens' lock and re-read, and its save
\* before it returns).  A crash at any other moment burns nothing.
NoReuse == reused \subseteq lost

\* A refresh token is only ever sent to the issuer and client it was issued
\* by, also from a cache that is not bound and whatever login runs beside
\* (loadMatchingTokens).
RightIssuer ==
    \A p \in Procs : procs[p].pc = "post" => procs[p].tok.cfg = procs[p].cfg

\* A logout that got the lock is final: no refresh that was under way saves
\* tokens of that login again (Logout waits out an in-flight refresh).
LogoutSticks == disk # NONE => disk.tok.fam \notin loggedOut

\* Every call returns: nobody is left waiting for the lock.
EveryCallReturns ==
    \A p \in Procs : (procs[p].pc # "idle") ~> (procs[p].pc \in {"done", "idle"})
=============================================================================
