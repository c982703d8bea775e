----------------------------- MODULE FileValue -----------------------------
(***************************************************************************)
(* tls/reloader/reload.go: fileValue, the hot-reload state machine behind  *)
(* CertLoader (a certificate and its key, two files) and CALoader (one     *)
(* bundle), with the rotator that replaces the files underneath it.        *)
(*                                                                         *)
(* A file holds material of some generation (0: a partial or corrupt       *)
(* write) and an mtime; files parse together when they hold the same       *)
(* generation, as tls.LoadX509KeyPair requires of a pair.  Each os.Stat    *)
(* and each read of a file is a step of its own, so the rotator may strike *)
(* between any two of them.  Go's nil is NONE.                             *)
(***************************************************************************)
EXTENDS Integers

CONSTANTS Callers,     \* goroutines in get: handshakes, RunPoll, Refresh
          NFiles,      \* number of files behind the value
          MaxGen,      \* bound: generations of the material
          MaxWrites,   \* bound: replacements by the rotator
          MaxClock,    \* bound: length of the run in ticks
          MaxStale,    \* CALoader.MaxStale in ticks; 0: no limit
          NONE

ASSUME ConstAssumption ==
    /\ NFiles \in Nat \ {0} /\ MaxGen \in Nat \ {0} /\ MaxWrites \in Nat
    /\ MaxClock \in Nat /\ MaxStale \in Nat
    /\ NONE \notin Callers /\ NONE \notin Nat /\ NONE \notin [1..NFiles -> Nat \cup {NONE}]

VARIABLES
    clock,
    disk,       \* disk[i]: the i-th file, NONE when it is missing
    past,       \* past[i]: every state file i has been in
    writes,     \* number of replacements, and the newest mtime
    restored,   \* history: was a file restored with its old mtime?
    val,        \* fileValue.val, 0 until loaded
    loaded, loadedAt, failedAt, statFailed, failSince,
    lock,       \* holder of fileValue.mu's write lock
    callers,
    firstFail   \* history: when the current run of failed loads began

value == <<val, loaded, loadedAt, failedAt, statFailed, failSince>>
world == <<disk, past, writes, restored>>
vars == <<clock, world, value, lock, callers, firstFail>>

FileIDs == 1..NFiles
Gens == 0..MaxGen
File == [mtime : Nat, gen : Gens]
Stamp == [FileIDs -> Nat]
Caller == [pc : {"idle", "stat", "fast", "lock", "read", "finish", "result"},
           forced : BOOLEAN, i : Nat, s : Stamp, ok : BOOLEAN, got : Gens,
           err : BOOLEAN, val : Gens, since : Nat]
NoCall == [pc |-> "idle", forced |-> FALSE, i |-> 1, s |-> [f \in FileIDs |-> 0],
           ok |-> TRUE, got |-> 0, err |-> FALSE, val |-> 0, since |-> 0]

\* Type invariant: in particular, a loaded value is never a failed read's.
TypeOK ==
    /\ clock \in Nat
    /\ disk \in [FileIDs -> File \cup {NONE}]
    /\ past \in [FileIDs -> SUBSET File]
    /\ writes \in Nat /\ restored \in BOOLEAN
    /\ val \in Gens /\ loaded \in BOOLEAN /\ (loaded => val # 0)
    /\ loadedAt \in Stamp \cup {NONE} /\ failedAt \in Stamp \cup {NONE}
    /\ statFailed \in BOOLEAN /\ failSince \in Nat
    /\ lock \in Callers \cup {NONE}
    /\ callers \in [Callers -> Caller]
    /\ firstFail \in Nat

Init ==
    /\ clock = 1
    /\ disk = [i \in FileIDs |-> [mtime |-> 0, gen |-> 1]]
    /\ past = [i \in FileIDs |-> {disk[i]}]
    /\ writes = 0 /\ restored = FALSE
    /\ val = 0 /\ loaded = FALSE /\ loadedAt = NONE /\ failedAt = NONE
    /\ statFailed = FALSE /\ failSince = 0
    /\ lock = NONE
    /\ callers = [c \in Callers |-> NoCall]
    /\ firstFail = 0

-----------------------------------------------------------------------------
\* The rotator: replace file i under a new mtime, remove it, or restore it.
Replace(i, f) ==
    /\ disk' = [disk EXCEPT ![i] = f]
    /\ past' = [past EXCEPT ![i] = IF f = NONE THEN @ ELSE @ \cup {f}]
    /\ UNCHANGED <<clock, value, lock, callers, firstFail>>

\* Material is renewed forwards: never older than any generation on disk.
Write(i, g) ==
    /\ writes < MaxWrites /\ writes' = writes + 1
    /\ g = 0 \/ \A j \in FileIDs : \A f \in past[j] : f.gen <= g
    /\ Replace(i, [mtime |-> writes + 1, gen |-> g])
    /\ UNCHANGED restored

Remove(i) ==
    /\ writes < MaxWrites /\ writes' = writes + 1
    /\ disk[i] # NONE
    /\ Replace(i, NONE)
    /\ UNCHANGED restored

Restore(i) ==
    /\ writes < MaxWrites /\ writes' = writes + 1
    /\ restored' = TRUE
    /\ \E f \in past[i] \ {disk[i]} : Replace(i, f)

Tick ==
    /\ clock < MaxClock
    /\ clock' = clock + 1
    /\ UNCHANGED <<world, value, lock, callers, firstFail>>

-----------------------------------------------------------------------------
\* settledLocked: nothing changed since the last load attempt.
settledLocked_WhileFailing(s, ok) ==
    /\ loaded
    /\ IF ~ok THEN statFailed ELSE failSince # 0 \/ s = loadedAt

settledLocked(s, ok) ==
    /\ loaded
    /\ IF ~ok THEN statFailed
       ELSE IF failSince = 0 THEN s = loadedAt ELSE s = failedAt

\* keptLocked: is the last good value past MaxStale?
tooStale(since) == MaxStale > 0 /\ since # 0 /\ clock - since > MaxStale

Step(c, r) == callers' = [callers EXCEPT ![c] = r]

keptLocked(c) ==
    [NoCall EXCEPT !.pc = "result", !.since = firstFail,
                   !.err = tooStale(failSince),
                   !.val = IF tooStale(failSince) THEN 0 ELSE val]

\* get is entered: forced skips the mtime gate.
get(c, forced) ==
    /\ callers[c].pc = "idle"
    /\ Step(c, [NoCall EXCEPT !.pc = "stat", !.forced = forced])
    /\ UNCHANGED <<clock, world, value, lock, firstFail>>

\* GetCertificate, GetClientCertificate or Pool, called by a handshake.
Handshake(c) == get(c, FALSE)

\* A tick of RunPoll takes the handshakes' lazy path, on bundles always and on
\* the certificate and key when PollCert is set.
Pool(c) == get(c, FALSE)
RunPoll(c) == Pool(c)

\* CertLoader.Reload; Refresh reloads each loader in turn, and they share nothing.
Reload(c) == get(c, TRUE)
Refresh(c) == Reload(c)

\* stat's loop over the files; a missing file ends it.
stat(c) ==
    LET i == callers[c].i IN
    /\ callers[c].pc = "stat"
    /\ Step(c, IF disk[i] = NONE
               THEN [callers[c] EXCEPT !.pc = "fast", !.ok = FALSE,
                                       !.s = NoCall.s, !.i = 1]
               ELSE [callers[c] EXCEPT !.s[i] = disk[i].mtime,
                                       !.i = IF i = NFiles THEN 1 ELSE i + 1,
                                       !.pc = IF i = NFiles THEN "fast" ELSE "stat"])
    /\ UNCHANGED <<clock, world, value, lock, firstFail>>

Settled(c) == ~callers[c].forced /\ settledLocked(callers[c].s, callers[c].ok)

\* The read-locked fast path.
FastPath(c) ==
    /\ callers[c].pc = "fast" /\ lock = NONE
    /\ Step(c, IF Settled(c) THEN keptLocked(c) ELSE [callers[c] EXCEPT !.pc = "lock"])
    /\ UNCHANGED <<clock, world, value, lock, firstFail>>

\* Taking the write lock and checking again.
Unlocked_Always(c) == TRUE

Unlocked(c) == lock = NONE

Lock(c) ==
    /\ callers[c].pc = "lock" /\ Unlocked(c)
    /\ IF Settled(c)
       THEN Step(c, keptLocked(c)) /\ UNCHANGED lock
       ELSE Step(c, [callers[c] EXCEPT !.pc = "read"]) /\ lock' = c
    /\ UNCHANGED <<clock, world, value, firstFail>>

\* LoadX509KeyPair: a key is refused unless it is the certificate's.
Matches(got, i) == i = 1 \/ got = disk[i].gen

\* f.read(), one file at a time; got is the generation read, 0 for an error.
read(c) ==
    LET i == callers[c].i
        g == IF disk[i] # NONE /\ Matches(callers[c].got, i) THEN disk[i].gen ELSE 0
    IN
    /\ callers[c].pc = "read"
    /\ Step(c, IF g = 0 \/ i = NFiles
               THEN [callers[c] EXCEPT !.got = g, !.i = 1, !.pc = "finish"]
               ELSE [callers[c] EXCEPT !.got = g, !.i = i + 1])
    /\ UNCHANGED <<clock, world, value, lock, firstFail>>

\* When the current run of failures began.
FailedSince_Latest == clock

FailedSince == IF failSince = 0 THEN clock ELSE failSince

LoadFailed(c) ==
    /\ callers[c].pc = "finish" /\ callers[c].got = 0
    /\ lock' = NONE
    /\ IF ~loaded
       THEN /\ Step(c, [NoCall EXCEPT !.pc = "result", !.err = TRUE])
            /\ UNCHANGED <<value, firstFail>>
       ELSE /\ failedAt' = IF callers[c].ok THEN callers[c].s ELSE NONE
            /\ statFailed' = ~callers[c].ok
            /\ failSince' = FailedSince
            /\ firstFail' = IF firstFail = 0 THEN clock ELSE firstFail
            /\ Step(c, [NoCall EXCEPT !.pc = "result", !.since = firstFail',
                          !.err = callers[c].forced \/ tooStale(failSince'),
                          !.val = IF tooStale(failSince') THEN 0 ELSE val])
            /\ UNCHANGED <<val, loaded, loadedAt>>
    /\ UNCHANGED <<clock, world>>

\* The mtimes that stand for what was loaded: those seen before the read.
LoadedAt_AfterRead(c) ==
    [i \in FileIDs |-> IF disk[i] = NONE THEN 0 ELSE disk[i].mtime]

LoadedAt(c) == IF callers[c].ok THEN callers[c].s ELSE loadedAt

Parsed(c) == callers[c].got # 0

LoadOK(c) ==
    /\ callers[c].pc = "finish" /\ Parsed(c)
    /\ lock' = NONE
    /\ val' = callers[c].got /\ loaded' = TRUE
    /\ failSince' = 0 /\ statFailed' = FALSE /\ failedAt' = NONE /\ firstFail' = 0
    /\ loadedAt' = LoadedAt(c)
    /\ Step(c, [NoCall EXCEPT !.pc = "result", !.val = callers[c].got])
    /\ UNCHANGED <<clock, world>>

\* get returns; the hooks it calls outside the lock keep nothing.
Return(c) ==
    /\ callers[c].pc = "result"
    /\ Step(c, NoCall)
    /\ UNCHANGED <<clock, world, value, lock, firstFail>>

CallerStep(c) ==
    \/ stat(c) \/ FastPath(c) \/ Lock(c) \/ read(c)
    \/ LoadFailed(c) \/ LoadOK(c) \/ Return(c)

Rotate ==
    \E i \in FileIDs : (\E g \in Gens : Write(i, g)) \/ Remove(i) \/ Restore(i)

Next ==
    \/ \E c \in Callers : Handshake(c) \/ RunPoll(c) \/ Refresh(c) \/ CallerStep(c)
    \/ Rotate
    \/ Tick

Spec == Init /\ [][Next]_vars

(***************************************************************************)
(* Fairness: goroutines are scheduled and get the lock (Go's RWMutex does  *)
(* not starve), and RunPoll's ticker keeps calling get.                    *)
(***************************************************************************)
FairSpec ==
    /\ Spec
    /\ \A c \in Callers : SF_vars(CallerStep(c))
    /\ WF_vars(\E c \in Callers : RunPoll(c))

-----------------------------------------------------------------------------
Stamps == [i \in FileIDs |-> IF disk[i] = NONE THEN NONE ELSE disk[i].mtime]

\* The generation all files hold, 0 when they do not parse together.
DiskGen ==
    IF \E g \in Gens \ {0} : \A i \in FileIDs : disk[i] # NONE /\ disk[i].gen = g
    THEN disk[1].gen ELSE 0

(***************************************************************************)
(* When get would trust the cache - the files carry the mtimes of the last *)
(* load - the cached value is what the files hold (stamp.equal: "a         *)
(* replacement that carries an older or preserved mtime (cp -p, a restored *)
(* backup) must still be picked up").                                      *)
(***************************************************************************)
SettledIsCurrent ==
    loaded /\ failSince = 0 /\ Stamps = loadedAt => val = DiskGen

(***************************************************************************)
(* A value handed out without an error is at most MaxStale older than the  *)
(* first failed reload of the current run of failures (CALoader.MaxStale:  *)
(* a removed CA must not stay trusted because reloads keep failing).       *)
(***************************************************************************)
StaleBounded ==
    [][\A c \in Callers :
         LET r == callers'[c] IN
         /\ callers[c].pc # "result" /\ r.pc = "result" /\ ~r.err
         /\ MaxStale > 0 /\ r.since # 0
         => clock - r.since <= MaxStale]_vars

(***************************************************************************)
(* SettledIsCurrent, as long as no file is restored under its old mtime:   *)
(* no rotation that strikes between get's stat and its read is missed.     *)
(***************************************************************************)
RotationSettles == restored \/ SettledIsCurrent

(***************************************************************************)
(* While the rotator only moves forwards, the loaded value does: a reload  *)
(* that read the files earlier never replaces what a later one loaded.     *)
(***************************************************************************)
ValueNeverRegresses == [][restored \/ val' >= val]_vars

(***************************************************************************)
(* Once the rotator has stopped, what it left on disk, if it parses, is    *)
(* eventually and from then on the value: no interleaving of stats, reads  *)
(* and rotations leaves the loader settled on something else or stuck in   *)
(* its failure state.                                                      *)
(***************************************************************************)
RotationLands ==
    <>[](restored \/ DiskGen = 0 \/ (val = DiskGen /\ failSince = 0))
=============================================================================
