-------------------------- MODULE FileValueProofs --------------------------
(***************************************************************************)
(* Proofs about FileValue, for any number of callers, files, generations   *)
(* and replacements: no rotation is missed, the value never goes back, and *)
(* no value is handed out past MaxStale.                                   *)
(***************************************************************************)
EXTENDS FileValue, TLAPS

\* A load under way, and the files it has read already.
Reading(c) == callers[c].pc \in {"read", "finish"}
HasRead(c, j) == callers[c].pc = "finish" \/ j < callers[c].i

\* Loads happen under the write lock, and begin with the first file.
PlaceInv ==
    \A c \in Callers :
        /\ callers[c].i \in FileIDs
        /\ Reading(c) => lock = c
        /\ callers[c].pc \in {"fast", "lock"} => callers[c].i = 1
        /\ callers[c].pc \in {"stat", "fast", "lock"} => callers[c].got = 0

\* The history of failures agrees with what the loader keeps of it.
FailInv == failSince = firstFail /\ clock # 0

\* Every mtime on disk or seen by a caller is one the rotator has given.
MtimeInv ==
    /\ \A i \in FileIDs : disk[i] # NONE => disk[i] \in past[i] /\ disk[i].mtime <= writes
    /\ loadedAt # NONE => \A i \in FileIDs : loadedAt[i] <= writes
    /\ \A c \in Callers, i \in FileIDs : callers[c].s[i] <= writes

\* If the files still carry the mtimes that will stand for what a caller has
\* read, they still hold it.
ReadInv ==
    \A c \in Callers : Reading(c) /\ callers[c].got # 0 /\ Stamps = LoadedAt(c) =>
        \A j \in FileIDs : HasRead(c, j) => disk[j] # NONE /\ disk[j].gen = callers[c].got

\* What is loaded or read was on disk, and what has come to the disk since is
\* no older.
Known(g) == \E i \in FileIDs : \E f \in past[i] : f.gen = g
NoOlder(i, g) == disk[i] # NONE /\ disk[i].gen # 0 => disk[i].gen >= g
AgeInv ==
    /\ val # 0 => Known(val)
    /\ \A i \in FileIDs : NoOlder(i, val)
    /\ \A c \in Callers : Reading(c) /\ callers[c].got # 0 =>
        /\ Known(callers[c].got) /\ callers[c].got >= val
        /\ \A j \in FileIDs : HasRead(c, j) => NoOlder(j, callers[c].got)

IndInv ==
    /\ TypeOK /\ PlaceInv /\ FailInv
    /\ restored \/ (MtimeInv /\ SettledIsCurrent /\ ReadInv /\ AgeInv)

-----------------------------------------------------------------------------
LEMMA Files == 1 \in FileIDs /\ NFiles \in FileIDs /\ FileIDs \subseteq Nat
  BY ConstAssumption DEF FileIDs

LEMMA NoCallFits ==
    /\ NoCall \in Caller /\ NoCall.pc = "idle" /\ NoCall.i = 1 /\ NoCall.got = 0
    /\ NoCall.since = 0 /\ \A i \in FileIDs : NoCall.s[i] = 0
  <1> DEFINE z == [f \in FileIDs |-> 0]
  <1>1. z \in Stamp /\ \A i \in FileIDs : z[i] = 0
    BY DEF Stamp
  <1>2. 0 \in Gens
    BY ConstAssumption DEF Gens
  <1>3. NoCall = [pc |-> "idle", forced |-> FALSE, i |-> 1, s |-> z, ok |-> TRUE, got |-> 0,
                  err |-> FALSE, val |-> 0, since |-> 0]
    BY DEF NoCall
  <1> HIDE DEF z
  <1>4. QED
    BY <1>1, <1>2, <1>3 DEF Caller

\* What a step of one caller does to all of them.
LEMMA OneSteps ==
    ASSUME TypeOK, NEW c \in Callers, NEW r \in Caller, Step(c, r)
    PROVE  /\ callers' \in [Callers -> Caller]
           /\ callers'[c] = r
           /\ \A d \in Callers : d # c => callers'[d] = callers[d]
  BY DEF TypeOK, Step

\* A caller goes where it reads nothing.
LEMMA Moves ==
    ASSUME IndInv, NEW c \in Callers, NEW r \in Caller, Step(c, r),
           r.pc \notin {"read", "finish"}, r.i \in FileIDs,
           r.pc \in {"fast", "lock"} => r.i = 1,
           r.pc \in {"stat", "fast", "lock"} => r.got = 0,
           restored \/ \A i \in FileIDs : r.s[i] <= writes,
           UNCHANGED <<clock, world, value, lock, firstFail>>
    PROVE  IndInv'
  <1>1. /\ callers' \in [Callers -> Caller] /\ callers'[c] = r
        /\ \A d \in Callers : d # c => callers'[d] = callers[d]
    BY OneSteps DEF IndInv
  <1>2. /\ UNCHANGED <<disk, past, writes, restored>>
        /\ UNCHANGED <<val, loaded, loadedAt, failedAt, statFailed, failSince>>
    BY DEF world, value
  <1>3. TypeOK'
    BY <1>1, <1>2 DEF IndInv, TypeOK
  <1>4. PlaceInv'
    BY <1>1 DEF IndInv, PlaceInv, Reading
  <1>5. FailInv'
    BY <1>2 DEF IndInv, FailInv
  <1>6. ASSUME ~restored PROVE MtimeInv' /\ SettledIsCurrent' /\ ReadInv' /\ AgeInv'
    <2>1. MtimeInv /\ SettledIsCurrent /\ ReadInv /\ AgeInv
      BY <1>6 DEF IndInv
    <2>2. MtimeInv'
      BY <1>1, <1>2, <1>6, <2>1 DEF MtimeInv
    <2>3. SettledIsCurrent'
      BY <1>2, <2>1 DEF SettledIsCurrent, Stamps, DiskGen
    <2>4. ~Reading(c)' /\ \A d \in Callers : d # c =>
            /\ Reading(d)' <=> Reading(d)
            /\ \A j \in FileIDs : HasRead(d, j)' <=> HasRead(d, j)
            /\ LoadedAt(d)' = LoadedAt(d)
      BY <1>1, <1>2 DEF Reading, HasRead, LoadedAt
    <2>5. Stamps' = Stamps
      BY <1>2 DEF Stamps
    <2>6. ReadInv'
      BY <1>1, <1>2, <2>1, <2>4, <2>5 DEF ReadInv
    <2>7. AgeInv'
      BY <1>1, <1>2, <2>1, <2>4 DEF AgeInv, Known, NoOlder
    <2>8. QED
      BY <2>2, <2>3, <2>6, <2>7
  <1>7. QED
    BY <1>2, <1>3, <1>4, <1>5, <1>6 DEF IndInv

LEMMA KeptFits ==
    ASSUME IndInv, NEW c \in Callers
    PROVE  /\ keptLocked(c) \in Caller /\ keptLocked(c).pc = "result" /\ keptLocked(c).i = 1
           /\ \A i \in FileIDs : keptLocked(c).s[i] = 0
           /\ keptLocked(c).since = firstFail /\ keptLocked(c).err = tooStale(failSince)
  <1> DEFINE e == tooStale(failSince)
             v == IF e THEN 0 ELSE val
  <1>1. e \in BOOLEAN /\ v \in Gens /\ firstFail \in Nat
    BY ConstAssumption DEF IndInv, TypeOK, tooStale, Gens
  <1>2. keptLocked(c) = [NoCall EXCEPT !.pc = "result", !.since = firstFail, !.err = e, !.val = v]
    BY DEF keptLocked
  <1> HIDE DEF e, v
  <1>3. /\ keptLocked(c) \in Caller /\ keptLocked(c).pc = "result" /\ keptLocked(c).i = NoCall.i
        /\ keptLocked(c).s = NoCall.s /\ keptLocked(c).since = firstFail /\ keptLocked(c).err = e
    BY Zenon, <1>1, <1>2, NoCallFits DEF Caller
  <1>4. QED
    BY <1>3, NoCallFits DEF e

-----------------------------------------------------------------------------
LEMMA GetKeeps ==
    ASSUME IndInv, NEW c \in Callers, NEW forced \in BOOLEAN, get(c, forced) \/ Return(c)
    PROVE  IndInv'
  <1>1. UNCHANGED <<clock, world, value, lock, firstFail>> /\ writes \in Nat
    BY DEF IndInv, TypeOK, get, Return
  <1>2. CASE get(c, forced)
    <2> DEFINE r == [NoCall EXCEPT !.pc = "stat", !.forced = forced]
    <2>1. /\ r \in Caller /\ r.pc = "stat" /\ r.i = 1 /\ r.got = 0
          /\ \A i \in FileIDs : r.s[i] = 0
      BY Zenon, NoCallFits DEF Caller
    <2>2. Step(c, r)
      BY <1>2 DEF get
    <2> HIDE DEF r
    <2>3. QED
      BY <1>1, <2>1, <2>2, Files, Moves
  <1>3. CASE Return(c)
    <2>1. Step(c, NoCall)
      BY <1>3 DEF Return
    <2>2. QED
      BY <1>1, <2>1, NoCallFits, Files, Moves
  <1>4. QED
    BY <1>2, <1>3

LEMMA StatKeeps ==
    ASSUME IndInv, NEW c \in Callers, stat(c)
    PROVE  IndInv'
  <1> DEFINE i == callers[c].i
  <1>1. /\ callers[c] \in Caller /\ callers[c].pc = "stat" /\ i \in FileIDs /\ callers[c].got = 0
        /\ writes \in Nat /\ (disk[i] # NONE => disk[i] \in File)
        /\ UNCHANGED <<clock, world, value, lock, firstFail>>
    BY DEF IndInv, TypeOK, PlaceInv, stat
  <1>2. CASE disk[i] = NONE
    <2> DEFINE z == NoCall.s
               r == [callers[c] EXCEPT !.pc = "fast", !.ok = FALSE, !.s = z, !.i = 1]
    <2>1. z \in Stamp /\ \A f \in FileIDs : z[f] = 0
      BY NoCallFits DEF Caller
    <2>2. Step(c, r)
      BY <1>2 DEF stat
    <2> HIDE DEF z
    <2>3. r \in Caller /\ r.pc = "fast" /\ r.i = 1 /\ r.got = callers[c].got /\ r.s = z
      BY Zenon, <1>1, <2>1 DEF Caller
    <2> HIDE DEF r
    <2>4. \A f \in FileIDs : r.s[f] <= writes
      BY <1>1, <2>1, <2>3
    <2>5. QED
      BY <1>1, <2>2, <2>3, <2>4, Files, Moves
  <1>3. CASE disk[i] # NONE
    <2> DEFINE z == [callers[c].s EXCEPT ![i] = disk[i].mtime]
               n == IF i = NFiles THEN 1 ELSE i + 1
               k == IF i = NFiles THEN "fast" ELSE "stat"
               r == [callers[c] EXCEPT !.s = z, !.i = n, !.pc = k]
    <2>1. z \in Stamp
      BY <1>1, <1>3 DEF Caller, Stamp, File
    <2>2. restored \/ \A f \in FileIDs : z[f] <= writes
      BY <1>1, <1>3 DEF IndInv, MtimeInv, Caller, Stamp
    <2>3. n \in FileIDs /\ n \in Nat /\ k \in {"fast", "stat"} /\ (k = "fast" => n = 1)
      BY <1>1, ConstAssumption DEF FileIDs
    <2>4. Step(c, r)
      BY <1>3 DEF stat
    <2> HIDE DEF z, n, k
    <2>5. r \in Caller /\ r.pc = k /\ r.i = n /\ r.got = callers[c].got /\ r.s = z
      BY Zenon, <1>1, <2>1, <2>3 DEF Caller
    <2> HIDE DEF r
    <2>6. QED
      BY <1>1, <2>2, <2>3, <2>4, <2>5, Moves
  <1>4. QED
    BY <1>2, <1>3

\* The fast path, and the second look under the lock, that find nothing to do.
LEMMA KeptKeeps ==
    ASSUME IndInv, NEW c \in Callers, Step(c, keptLocked(c)),
           UNCHANGED <<clock, world, value, lock, firstFail>>
    PROVE  IndInv'
  <1>1. writes \in Nat
    BY DEF IndInv, TypeOK
  <1> DEFINE r == keptLocked(c)
  <1>2. /\ r \in Caller /\ r.pc = "result" /\ r.i = 1 /\ \A i \in FileIDs : r.s[i] = 0
        /\ Step(c, r)
    BY KeptFits
  <1> HIDE DEF r
  <1>3. \A i \in FileIDs : r.s[i] <= writes
    BY <1>1, <1>2
  <1>4. QED
    BY <1>2, <1>3, Files, Moves

LEMMA FastPathKeeps ==
    ASSUME IndInv, NEW c \in Callers, FastPath(c)
    PROVE  IndInv'
  <1>1. /\ callers[c] \in Caller /\ callers[c].pc = "fast" /\ callers[c].i = 1
        /\ callers[c].got = 0 /\ (restored \/ \A i \in FileIDs : callers[c].s[i] <= writes)
        /\ UNCHANGED <<clock, world, value, lock, firstFail>>
    BY DEF IndInv, TypeOK, PlaceInv, MtimeInv, FastPath
  <1>2. CASE Step(c, [callers[c] EXCEPT !.pc = "lock"])
    <2> DEFINE r == [callers[c] EXCEPT !.pc = "lock"]
    <2>1. /\ r \in Caller /\ r.pc = "lock" /\ r.i = 1 /\ r.got = 0 /\ r.s = callers[c].s
          /\ Step(c, r)
      BY <1>1, <1>2 DEF Caller
    <2> HIDE DEF r
    <2>2. QED
      BY <1>1, <2>1, Files, Moves
  <1>3. QED
    BY <1>1, <1>2, KeptKeeps DEF FastPath

LEMMA LockKeeps ==
    ASSUME IndInv, NEW c \in Callers, Lock(c)
    PROVE  IndInv'
  <1>1. /\ callers[c] \in Caller /\ callers[c].pc = "lock" /\ callers[c].i = 1
        /\ callers[c].got = 0 /\ lock = NONE
        /\ UNCHANGED <<clock, world, value, firstFail>>
    BY DEF IndInv, TypeOK, PlaceInv, Lock, Unlocked
  <1>2. CASE Step(c, keptLocked(c)) /\ UNCHANGED lock
    BY <1>1, <1>2, KeptKeeps
  <1>3. CASE Step(c, [callers[c] EXCEPT !.pc = "read"]) /\ lock' = c
    <2> DEFINE r == [callers[c] EXCEPT !.pc = "read"]
    <2>1. /\ r \in Caller /\ r.pc = "read" /\ r.i = 1 /\ r.got = 0 /\ r.s = callers[c].s
          /\ Step(c, r)
      BY <1>1, <1>3 DEF Caller
    <2> HIDE DEF r
    <2>2. /\ callers' \in [Callers -> Caller] /\ callers'[c] = r
          /\ \A d \in Callers : d # c => callers'[d] = callers[d]
      BY <2>1, OneSteps DEF IndInv
    <2>3. /\ UNCHANGED <<disk, past, writes, restored>>
          /\ UNCHANGED <<val, loaded, loadedAt, failedAt, statFailed, failSince>>
      BY <1>1 DEF world, value
    <2>4. TypeOK' /\ FailInv'
      BY <1>1, <1>3, <2>2, <2>3 DEF IndInv, TypeOK, FailInv
    <2>5. \A d \in Callers : d # c => ~Reading(d) /\ ~Reading(d)'
      <3>1. \A d \in Callers : Reading(d) => lock = d
        BY DEF IndInv, PlaceInv
      <3>2. \A d \in Callers : d # c => (Reading(d)' <=> Reading(d))
        BY <2>2 DEF Reading
      <3>3. QED
        BY <1>1, <3>1, <3>2, ConstAssumption
    <2>6. PlaceInv'
      BY <1>3, <2>1, <2>2, <2>5, Files DEF IndInv, PlaceInv
    <2>7. ASSUME ~restored PROVE MtimeInv' /\ SettledIsCurrent' /\ ReadInv' /\ AgeInv'
      <3>1. MtimeInv /\ SettledIsCurrent /\ ReadInv /\ AgeInv
        BY <2>7 DEF IndInv
      <3>2. MtimeInv'
        BY <2>1, <2>2, <2>3, <3>1 DEF MtimeInv
      <3>3. SettledIsCurrent'
        BY <2>3, <3>1 DEF SettledIsCurrent, Stamps, DiskGen
      <3>4. ReadInv'
        BY <2>1, <2>2, <2>5, Zenon DEF ReadInv
      <3>5. AgeInv'
        BY <2>1, <2>2, <2>3, <2>5, <3>1, Zenon DEF AgeInv, Known, NoOlder
      <3>6. QED
        BY <3>2, <3>3, <3>4, <3>5
    <2>8. QED
      BY <2>3, <2>4, <2>6, <2>7 DEF IndInv
  <1>4. QED
    BY <1>1, <1>2, <1>3 DEF Lock

-----------------------------------------------------------------------------
\* The next file is read.
LEMMA ReadKeeps ==
    ASSUME IndInv, NEW c \in Callers, read(c)
    PROVE  IndInv'
  <1> DEFINE i == callers[c].i
             g == IF disk[i] # NONE /\ Matches(callers[c].got, i) THEN disk[i].gen ELSE 0
             r == callers'[c]
  <1>1. /\ callers[c] \in Caller /\ callers[c].pc = "read" /\ i \in FileIDs /\ i \in Nat /\ lock = c
        /\ g \in Gens /\ (g # 0 => disk[i] # NONE /\ disk[i].gen = g /\ (i = 1 \/ callers[c].got = g))
        /\ UNCHANGED <<clock, world, value, lock, firstFail>>
    BY SMTT(30), ConstAssumption DEF IndInv, TypeOK, PlaceInv, Reading, read, Matches, File, Gens, Caller
  <1>2. Step(c, IF g = 0 \/ i = NFiles
                THEN [callers[c] EXCEPT !.got = g, !.i = 1, !.pc = "finish"]
                ELSE [callers[c] EXCEPT !.got = g, !.i = i + 1])
    BY DEF read
  <1> HIDE DEF g
  <1>3. /\ callers' \in [Callers -> Caller] /\ r \in Caller
        /\ \A d \in Callers : d # c => callers'[d] = callers[d]
        /\ r.got = g /\ r.s = callers[c].s /\ r.ok = callers[c].ok /\ r.i \in FileIDs
        /\ r.pc \in {"read", "finish"}
        /\ g # 0 => \A j \in FileIDs : r.pc = "finish" \/ j < r.i => j < i \/ j = i
    <2>1. CASE g = 0 \/ i = NFiles
      <3> DEFINE n == [callers[c] EXCEPT !.got = g, !.i = 1, !.pc = "finish"]
      <3>1. /\ n \in Caller /\ n.got = g /\ n.s = callers[c].s /\ n.ok = callers[c].ok
            /\ n.i = 1 /\ n.pc = "finish" /\ Step(c, n)
        BY Zenon, <1>1, <1>2, <2>1 DEF Caller
      <3> HIDE DEF n
      <3>2. g # 0 => \A j \in FileIDs : j < i \/ j = i
        BY <2>1, ConstAssumption DEF FileIDs
      <3>3. QED
        BY <3>1, <3>2, Files, OneSteps DEF IndInv
    <2>2. CASE ~(g = 0 \/ i = NFiles)
      <3> DEFINE m == i + 1
                 n == [callers[c] EXCEPT !.got = g, !.i = m]
      <3>1. Step(c, n)
        BY <1>2, <2>2
      <3>2. /\ m \in Nat /\ m \in FileIDs /\ \A j \in FileIDs : j < m => j < i \/ j = i
        BY <1>1, <2>2, ConstAssumption DEF FileIDs
      <3> HIDE DEF m
      <3>3. /\ n \in Caller /\ n.got = g /\ n.s = callers[c].s /\ n.ok = callers[c].ok
            /\ n.i = m /\ n.pc = "read"
        BY Zenon, <1>1, <3>2 DEF Caller
      <3> HIDE DEF n
      <3>4. QED
        BY <3>1, <3>2, <3>3, OneSteps DEF IndInv
    <2>3. QED
      BY <2>1, <2>2, Zenon
  <1> HIDE DEF i, r
  <1>4. /\ UNCHANGED <<disk, past, writes, restored>>
        /\ UNCHANGED <<val, loaded, loadedAt, failedAt, statFailed, failSince>>
    BY <1>1 DEF world, value
  <1>5. Reading(c) /\ \A d \in Callers : d # c => ~Reading(d) /\ ~Reading(d)'
    BY <1>1, <1>3 DEF IndInv, PlaceInv, Reading
  <1>6. TypeOK' /\ FailInv'
    BY <1>1, <1>3, <1>4, Zenon DEF IndInv, TypeOK, FailInv
  <1>7. PlaceInv'
    BY <1>1, <1>3, <1>5 DEF IndInv, PlaceInv, r
  <1>8. ASSUME ~restored PROVE MtimeInv' /\ SettledIsCurrent' /\ ReadInv' /\ AgeInv'
    <2>1. MtimeInv /\ SettledIsCurrent /\ ReadInv /\ AgeInv
      BY <1>8 DEF IndInv
    <2>2. MtimeInv'
      BY <1>3, <1>4, <2>1 DEF MtimeInv, r
    <2>3. SettledIsCurrent'
      BY <1>4, <2>1 DEF SettledIsCurrent, Stamps, DiskGen
    <2>4. Stamps' = Stamps /\ LoadedAt(c)' = LoadedAt(c)
      BY <1>3, <1>4 DEF Stamps, LoadedAt, r
    <2>5. ASSUME NEW j \in FileIDs, HasRead(c, j)', g # 0
          PROVE  j = i \/ (callers[c].got = g /\ HasRead(c, j))
      <3>1. j < i \/ j = i
        BY <1>3, <2>5 DEF HasRead, r
      <3>2. j < i => i # 1
        BY Files DEF FileIDs
      <3>3. QED
        BY <1>1, <2>5, <3>1, <3>2 DEF HasRead, i
    <2>6. ReadInv'
      <3>1. ASSUME g # 0, Stamps = LoadedAt(c), NEW j \in FileIDs, HasRead(c, j)'
            PROVE  disk[j] # NONE /\ disk[j].gen = g
        BY <1>1, <1>5, <2>1, <2>5, <3>1, Zenon DEF ReadInv
      <3>2. QED
        BY <1>3, <1>4, <1>5, <2>4, <3>1 DEF ReadInv, r
    <2>7. AgeInv'
      <3>1. ASSUME g # 0 PROVE Known(g) /\ g >= val
        BY <1>1, <2>1, <3>1, Zenon DEF MtimeInv, AgeInv, Known, NoOlder
      <3>2. ASSUME g # 0, NEW j \in FileIDs, HasRead(c, j)' PROVE NoOlder(j, g)
        <4>1. CASE j = i
          BY <1>1, <3>2, <4>1 DEF NoOlder, Gens
        <4>2. CASE callers[c].got = g /\ HasRead(c, j)
          BY <1>5, <2>1, <3>2, <4>2 DEF AgeInv
        <4>3. QED
          BY <2>5, <3>2, <4>1, <4>2
      <3>3. QED
        BY <1>3, <1>4, <1>5, <2>1, <3>1, <3>2, Zenon DEF AgeInv, NoOlder, Known, r
    <2>8. QED
      BY <2>2, <2>3, <2>6, <2>7
  <1>9. QED
    BY <1>4, <1>6, <1>7, <1>8 DEF IndInv

-----------------------------------------------------------------------------
\* A load ends: the caller has its result, the lock is free, nobody reads.
LEMMA LoadEnds ==
    ASSUME IndInv, NEW c \in Callers, Reading(c), NEW r \in Caller, Step(c, r), lock' = NONE,
           r.pc = "result", r.i \in FileIDs, \A i \in FileIDs : r.s[i] = 0,
           UNCHANGED <<clock, world>>
    PROVE  /\ callers' \in [Callers -> Caller] /\ lock' \in Callers \cup {NONE}
           /\ PlaceInv' /\ ReadInv' /\ \A d \in Callers : ~Reading(d)'
           /\ MtimeInv => \A d \in Callers, i \in FileIDs : callers'[d].s[i] <= writes'
  <1>1. /\ callers' \in [Callers -> Caller] /\ callers'[c] = r
        /\ \A d \in Callers : d # c => callers'[d] = callers[d]
    BY OneSteps DEF IndInv
  <1>2. \A d \in Callers : ~Reading(d)'
    BY <1>1 DEF IndInv, PlaceInv, Reading
  <1>3. PlaceInv'
    BY <1>1, <1>2 DEF IndInv, PlaceInv
  <1>4. writes' = writes /\ writes \in Nat
    BY DEF world, IndInv, TypeOK
  <1>5. ASSUME MtimeInv, NEW d \in Callers, NEW i \in FileIDs PROVE callers'[d].s[i] <= writes
    BY <1>1, <1>4, <1>5 DEF MtimeInv
  <1>6. QED
    BY <1>1, <1>2, <1>3, <1>4, <1>5 DEF ReadInv

LEMMA LoadFailedKeeps ==
    ASSUME IndInv, NEW c \in Callers, LoadFailed(c)
    PROVE  IndInv'
  <1>1. /\ TypeOK /\ FailInv /\ clock \in Nat /\ firstFail \in Nat /\ val \in Gens /\ 0 \in Gens
        /\ callers[c] \in Caller /\ Reading(c) /\ lock' = NONE /\ UNCHANGED <<clock, world>>
    BY ConstAssumption DEF IndInv, TypeOK, LoadFailed, Reading, Gens
  <1>2. UNCHANGED <<disk, past, writes, restored>>
    BY <1>1 DEF world
  <1>3. PICK r \in Caller : /\ Step(c, r) /\ r.pc = "result" /\ r.i \in FileIDs
                            /\ \A i \in FileIDs : r.s[i] = 0
    <2>1. CASE ~loaded
      <3>1. [NoCall EXCEPT !.pc = "result", !.err = TRUE] \in Caller
        BY Zenon, NoCallFits DEF Caller
      <3>2. Step(c, [NoCall EXCEPT !.pc = "result", !.err = TRUE])
        BY <2>1 DEF LoadFailed
      <3> DEFINE r == [NoCall EXCEPT !.pc = "result", !.err = TRUE]
      <3>3. r.pc = "result" /\ r.i = 1 /\ \A i \in FileIDs : r.s[i] = 0
        BY NoCallFits DEF Caller
      <3> HIDE DEF r
      <3>4. QED
        BY Zenon, <3>1, <3>2, <3>3, Files DEF r
    <2>2. CASE loaded
      <3> DEFINE t == firstFail'
                 e == callers[c].forced \/ tooStale(failSince')
                 v == IF tooStale(failSince') THEN 0 ELSE val
                 r == [NoCall EXCEPT !.pc = "result", !.since = t, !.err = e, !.val = v]
      <3>1. t \in Nat /\ e \in BOOLEAN /\ v \in Gens /\ Step(c, r)
        BY <1>1, <2>2 DEF LoadFailed, tooStale, Caller
      <3>2. /\ r \in Caller /\ r.pc = "result" /\ r.i = 1
            /\ \A i \in FileIDs : r.s[i] = 0
        <4> HIDE DEF t, e, v
        <4>1. QED
          BY Zenon, <3>1, NoCallFits DEF Caller
      <3> HIDE DEF r
      <3>3. QED
        BY Zenon, <3>1, <3>2, Files
    <2>3. QED
      BY <1>1, <2>1, <2>2 DEF TypeOK
  <1>4. /\ callers' \in [Callers -> Caller] /\ lock' \in Callers \cup {NONE}
        /\ PlaceInv' /\ ReadInv' /\ \A d \in Callers : ~Reading(d)'
        /\ MtimeInv => \A d \in Callers, i \in FileIDs : callers'[d].s[i] <= writes'
    BY <1>1, <1>3, LoadEnds
  <1>5. /\ UNCHANGED <<val, loaded, loadedAt>>
        /\ FailInv' /\ failSince' \in Nat /\ firstFail' \in Nat
        /\ failedAt' \in Stamp \cup {NONE} /\ statFailed' \in BOOLEAN
        /\ SettledIsCurrent => SettledIsCurrent'
    <2>1. CASE ~loaded
      <3>1. UNCHANGED <<val, loaded, loadedAt, failedAt, statFailed, failSince, firstFail>>
        BY <2>1, Zenon DEF LoadFailed, value
      <3>2. QED
        BY <1>1, <1>2, <3>1 DEF TypeOK, FailInv, SettledIsCurrent, Stamps, DiskGen
    <2>2. CASE loaded
      <3>1. /\ UNCHANGED <<val, loaded, loadedAt>> /\ failSince' = FailedSince
            /\ firstFail' = IF firstFail = 0 THEN clock ELSE firstFail
            /\ failedAt' = IF callers[c].ok THEN callers[c].s ELSE NONE
            /\ statFailed' = ~callers[c].ok
        BY <2>2 DEF LoadFailed
      <3>2. failSince' # 0
        BY <1>1, <3>1 DEF FailInv, FailedSince
      <3>3. QED
        BY <1>1, <3>1, <3>2 DEF FailInv, FailedSince, SettledIsCurrent, Caller
    <2>3. QED
      BY <1>1, <2>1, <2>2 DEF TypeOK
  <1>6. TypeOK'
    BY <1>1, <1>2, <1>4, <1>5 DEF TypeOK
  <1>7. ASSUME ~restored PROVE MtimeInv' /\ SettledIsCurrent' /\ ReadInv' /\ AgeInv'
    <2>1. MtimeInv /\ SettledIsCurrent /\ AgeInv
      BY <1>7, Zenon DEF IndInv
    <2>2. MtimeInv'
      BY <1>2, <1>4, <1>5, <2>1, Zenon DEF MtimeInv
    <2>3. AgeInv'
      BY <1>2, <1>4, <1>5, <2>1, Zenon DEF AgeInv, Known, NoOlder
    <2>4. QED
      BY <1>4, <1>5, <2>1, <2>2, <2>3
  <1>8. QED
    BY <1>2, <1>4, <1>5, <1>6, <1>7 DEF IndInv

LEMMA LoadOKKeeps ==
    ASSUME IndInv, NEW c \in Callers, LoadOK(c)
    PROVE  IndInv'
  <1>1. /\ TypeOK /\ callers[c] \in Caller /\ callers[c].pc = "finish" /\ Reading(c)
        /\ callers[c].got \in Gens /\ callers[c].got # 0
        /\ lock' = NONE /\ UNCHANGED <<clock, world>>
        /\ val' = callers[c].got /\ loaded' = TRUE /\ loadedAt' = LoadedAt(c)
        /\ failSince' = 0 /\ statFailed' = FALSE /\ failedAt' = NONE /\ firstFail' = 0
    BY Zenon DEF IndInv, TypeOK, LoadOK, Parsed, Reading, Caller
  <1>2. UNCHANGED <<disk, past, writes, restored>>
    BY <1>1 DEF world
  <1> DEFINE v == callers[c].got
             r == [NoCall EXCEPT !.pc = "result", !.val = v]
  <1>3. r \in Caller /\ r.pc = "result" /\ r.i \in FileIDs /\ \A i \in FileIDs : r.s[i] = 0
    BY Zenon, <1>1, Files, NoCallFits DEF Caller
  <1>4. Step(c, r)
    BY DEF LoadOK
  <1> HIDE DEF r
  <1>5. /\ callers' \in [Callers -> Caller] /\ lock' \in Callers \cup {NONE}
        /\ PlaceInv' /\ ReadInv' /\ \A d \in Callers : ~Reading(d)'
        /\ MtimeInv => \A d \in Callers, i \in FileIDs : callers'[d].s[i] <= writes'
    BY <1>1, <1>3, <1>4, LoadEnds
  <1>6. TypeOK'
    <2>1. loadedAt' \in Stamp \cup {NONE}
      BY <1>1 DEF TypeOK, LoadedAt, Caller
    <2>2. QED
      BY Zenon, <1>1, <1>2, <1>5, <2>1 DEF TypeOK
  <1>7. FailInv'
    BY <1>1 DEF IndInv, FailInv
  <1>8. ASSUME ~restored PROVE MtimeInv' /\ SettledIsCurrent' /\ ReadInv' /\ AgeInv'
    <2>1. MtimeInv /\ ReadInv /\ AgeInv
      BY <1>8 DEF IndInv
    <2>2. \A j \in FileIDs : HasRead(c, j)
      BY <1>1, Zenon DEF HasRead
    <2>3. MtimeInv'
      <3>1. loadedAt' # NONE => \A i \in FileIDs : loadedAt'[i] <= writes
        BY <1>1, <2>1, Zenon DEF MtimeInv, LoadedAt
      <3>2. QED
        BY <1>2, <1>5, <2>1, <3>1, Zenon DEF MtimeInv
    <2>4. SettledIsCurrent'
      <3>1. ASSUME Stamps = LoadedAt(c) PROVE DiskGen = v
        <4>1. \A j \in FileIDs : disk[j] # NONE /\ disk[j].gen = v
          BY <1>1, <2>1, <2>2, <3>1 DEF ReadInv
        <4>2. QED
          BY <1>1, <4>1, Files, Zenon DEF DiskGen
      <3>2. Stamps' = Stamps /\ DiskGen' = DiskGen
        BY <1>2, Zenon DEF Stamps, DiskGen
      <3>3. QED
        BY <1>1, <3>1, <3>2, Zenon DEF SettledIsCurrent
    <2>5. AgeInv'
      <3>1. Known(v) /\ \A j \in FileIDs : NoOlder(j, v)
        BY <1>1, <2>1, <2>2 DEF AgeInv
      <3>2. QED
        BY <1>1, <1>2, <1>5, <3>1, Zenon DEF AgeInv, Known, NoOlder
    <2>6. QED
      BY <1>5, <2>3, <2>4, <2>5
  <1>9. QED
    BY <1>2, <1>5, <1>6, <1>7, <1>8 DEF IndInv

-----------------------------------------------------------------------------
\* The rotator replaces or removes a file under a new mtime: nothing that was
\* seen before stands for the files any more.
LEMMA NewMtime ==
    ASSUME IndInv, ~restored, NEW i \in FileIDs, NEW f \in File \cup {NONE}, Replace(i, f),
           f # NONE => f.mtime = writes + 1 /\
                       (f.gen = 0 \/ \A j \in FileIDs : \A h \in past[j] : h.gen <= f.gen),
           writes' = writes + 1
    PROVE  MtimeInv' /\ SettledIsCurrent' /\ ReadInv' /\ AgeInv'
  <1>1. /\ TypeOK /\ MtimeInv /\ AgeInv /\ writes \in Nat /\ i \in Nat
        /\ disk \in [FileIDs -> File \cup {NONE}] /\ past \in [FileIDs -> SUBSET File]
    BY Files DEF IndInv, TypeOK
  <1>2. /\ disk'[i] = f /\ \A j \in FileIDs : j # i => disk'[j] = disk[j]
        /\ \A j \in FileIDs : past[j] \subseteq past'[j]
        /\ f # NONE => f \in past'[i]
    BY <1>1 DEF Replace
  <1>3. /\ UNCHANGED <<val, loaded, loadedAt, failedAt, statFailed, failSince>>
        /\ UNCHANGED callers
    BY DEF Replace, value
  <1>4. ASSUME NEW e \in Stamp \cup {NONE}, e # NONE => \A j \in FileIDs : e[j] <= writes
        PROVE  Stamps' # e
    <2>1. CASE e = NONE
      <3>1. Stamps' \in [1..NFiles -> Nat \cup {NONE}]
        <4>1. \A j \in FileIDs : disk'[j] # NONE => disk'[j].mtime \in Nat
          BY <1>1, <1>2 DEF File
        <4>2. QED
          BY <4>1 DEF Stamps, FileIDs
      <3>2. QED
        BY <2>1, <3>1, ConstAssumption
    <2>2. CASE e # NONE
      <3>1. Stamps'[i] = IF f = NONE THEN NONE ELSE writes + 1
        BY <1>2 DEF Stamps
      <3>2. CASE f = NONE
        <4>1. Stamps'[i] = NONE
          BY <3>1, <3>2
        <4>2. QED
          BY <1>1, <1>4, <2>2, <4>1, ConstAssumption DEF Stamp
      <3>3. CASE f # NONE
        BY <1>1, <1>4, <2>2, <3>1, <3>3
      <3>4. QED
        BY <3>2, <3>3, Zenon
    <2>3. QED
      BY <2>1, <2>2
  <1>5. MtimeInv'
    <2>1. ASSUME NEW j \in FileIDs, disk'[j] # NONE
          PROVE  disk'[j] \in past'[j] /\ disk'[j].mtime <= writes + 1
      <3>1. CASE j = i
        BY <1>1, <1>2, <2>1, <3>1
      <3>2. CASE j # i
        <4>1. disk'[j] = disk[j] /\ disk[j] # NONE
          BY <1>2, <2>1, <3>2
        <4>2. disk[j] \in past[j] /\ disk[j].mtime <= writes
          BY <1>1, <4>1 DEF MtimeInv
        <4>3. disk[j] \in File
          BY <1>1, <4>1
        <4>4. disk[j].mtime \in Nat
          BY <4>3 DEF File
        <4>5. writes \in Nat
          BY <1>1
        <4>6. disk[j].mtime <= writes + 1
          BY <4>2, <4>4, <4>5
        <4>7. QED
          BY <1>2, <4>1, <4>2, <4>6, Zenon
      <3>3. QED
        BY <3>1, <3>2
    <2>2. loadedAt # NONE => \A j \in FileIDs : loadedAt[j] <= writes + 1
      BY <1>1 DEF MtimeInv, TypeOK, Stamp
    <2>3. ASSUME NEW c \in Callers, NEW j \in FileIDs PROVE callers[c].s[j] <= writes + 1
      <3>1. callers[c].s \in Stamp
        BY <1>1 DEF TypeOK, Caller
      <3>2. QED
        BY <1>1, <3>1 DEF MtimeInv, Stamp
    <2>4. QED
      BY <1>3, <2>1, <2>2, <2>3, Zenon DEF MtimeInv
  <1>6. SettledIsCurrent'
    <2>1. Stamps' # loadedAt
      BY <1>1, <1>4, Zenon DEF MtimeInv, TypeOK
    <2>2. QED
      BY <1>3, <2>1 DEF SettledIsCurrent
  <1>7. ReadInv'
    <2>1. ASSUME NEW c \in Callers PROVE Stamps' # LoadedAt(c)'
      <3>1. callers[c].s \in Stamp
        BY <1>1, Zenon DEF TypeOK, Caller
      <3>2. Stamps' # loadedAt /\ Stamps' # callers[c].s
        BY <1>1, <1>4, <3>1, Zenon DEF MtimeInv, TypeOK
      <3>3. QED
        BY <1>3, <3>2 DEF LoadedAt
    <2>2. QED
      BY <2>1, Zenon DEF ReadInv
  <1>8. AgeInv'
    <2>1. ASSUME NEW g \in Gens, Known(g), NEW j \in FileIDs, NoOlder(j, g)
          PROVE  disk'[j] # NONE /\ disk'[j].gen # 0 => disk'[j].gen >= g
      <3>1. CASE j = i
        <4>1. PICK k \in FileIDs : \E h \in past[k] : h.gen = g
          BY <2>1, Zenon DEF Known
        <4>2. f # NONE /\ f.gen # 0 => g <= f.gen
          BY <4>1
        <4>3. f # NONE => f.gen \in Nat
          BY ConstAssumption DEF File, Gens
        <4>4. QED
          BY <1>2, <3>1, <4>2, <4>3, Zenon DEF Gens
      <3>2. CASE j # i
        BY <1>2, <2>1, <3>2, Zenon DEF NoOlder
      <3>3. QED
        BY <3>1, <3>2, Zenon
    <2>2. \A j \in FileIDs : disk'[j] # NONE /\ disk'[j].gen # 0 => disk'[j].gen >= val
      <3>1. CASE val = 0
        <4>1. \A j \in FileIDs : disk'[j] # NONE => disk'[j].gen \in Nat
          BY <1>1, <1>2 DEF File, Gens
        <4>2. QED
          BY <3>1, <4>1
      <3>2. CASE val # 0
        BY <1>1, <2>1, <3>2, Zenon DEF AgeInv, TypeOK
      <3>3. QED
        BY <3>1, <3>2
    <2>3. \A g \in Gens : Known(g) => \E j \in FileIDs : \E h \in past'[j] : h.gen = g
      BY <1>2 DEF Known
    <2>4. ASSUME NEW c \in Callers, Reading(c), callers[c].got # 0
          PROVE  /\ callers[c].got \in Gens /\ Known(callers[c].got) /\ callers[c].got >= val
                 /\ \A j \in FileIDs : HasRead(c, j) => NoOlder(j, callers[c].got)
      BY <1>1, <2>4 DEF AgeInv, TypeOK, Caller
    <2>5. val \in Gens /\ (val # 0 => Known(val))
      BY <1>1 DEF AgeInv, TypeOK
    <2>6. QED
      BY <1>3, <2>1, <2>2, <2>3, <2>4, <2>5, Zenon DEF AgeInv, Known, NoOlder, Reading, HasRead
  <1>9. QED
    BY <1>5, <1>6, <1>7, <1>8, Zenon

LEMMA RotateKeeps ==
    ASSUME IndInv, Rotate
    PROVE  IndInv'
  <1>1. PICK i \in FileIDs : (\E g \in Gens : Write(i, g)) \/ Remove(i) \/ Restore(i)
    BY DEF Rotate
  <1>2. TypeOK /\ writes \in Nat
    BY DEF IndInv, TypeOK
  <1>3. ASSUME NEW f \in File \cup {NONE}, Replace(i, f), writes' = writes + 1,
               restored' \in BOOLEAN,
               restored' \/ (~restored /\ (f # NONE => f.mtime = writes + 1 /\
                   (f.gen = 0 \/ \A j \in FileIDs : \A h \in past[j] : h.gen <= f.gen)))
        PROVE  IndInv'
    <2>1. /\ UNCHANGED <<val, loaded, loadedAt, failedAt, statFailed, failSince>>
          /\ UNCHANGED <<clock, lock, callers, firstFail>>
      BY <1>3 DEF Replace, value
    <2>2. disk' \in [FileIDs -> File \cup {NONE}] /\ past' \in [FileIDs -> SUBSET File]
      BY <1>2, <1>3, Zenon DEF Replace, TypeOK
    <2>3. TypeOK'
      BY <1>2, <1>3, <2>1, <2>2 DEF TypeOK
    <2>4. PlaceInv' /\ FailInv'
      BY <2>1, Zenon DEF IndInv, PlaceInv, FailInv, Reading
    <2>5. restored' \/ (MtimeInv' /\ SettledIsCurrent' /\ ReadInv' /\ AgeInv')
      BY <1>3, NewMtime
    <2>6. QED
      BY <2>3, <2>4, <2>5 DEF IndInv
  <1>4. ASSUME NEW g \in Gens, Write(i, g) PROVE IndInv'
    <2> DEFINE f == [mtime |-> writes + 1, gen |-> g]
    <2>1. f \in File /\ f.mtime = writes + 1 /\ f.gen = g
      BY <1>2 DEF File
    <2>2. /\ Replace(i, f) /\ writes' = writes + 1 /\ restored' = restored
          /\ g = 0 \/ \A j \in FileIDs : \A h \in past[j] : h.gen <= g
      BY <1>4 DEF Write
    <2> HIDE DEF f
    <2>3. QED
      BY <1>2, <1>3, <2>1, <2>2 DEF TypeOK
  <1>5. CASE Remove(i)
    BY <1>2, <1>3, <1>5 DEF Remove, TypeOK
  <1>6. CASE Restore(i)
    BY <1>2, <1>3, <1>6 DEF Restore, TypeOK
  <1>7. QED
    BY <1>1, <1>4, <1>5, <1>6

LEMMA TickKeeps ==
    ASSUME IndInv, Tick
    PROVE  IndInv'
  <1>1. /\ UNCHANGED <<disk, past, writes, restored>>
        /\ UNCHANGED <<val, loaded, loadedAt, failedAt, statFailed, failSince>>
        /\ UNCHANGED <<lock, callers, firstFail>>
    BY DEF Tick, world, value
  <1>2. clock' \in Nat /\ clock' # 0
    BY ConstAssumption DEF Tick, IndInv, TypeOK
  <1>3. TypeOK' /\ PlaceInv' /\ FailInv'
    BY <1>1, <1>2, Zenon DEF IndInv, TypeOK, PlaceInv, FailInv, Reading
  <1>4. (MtimeInv => MtimeInv') /\ (SettledIsCurrent => SettledIsCurrent')
    BY <1>1, Zenon DEF MtimeInv, SettledIsCurrent, Stamps, DiskGen
  <1>5. (ReadInv => ReadInv') /\ (AgeInv => AgeInv')
    BY <1>1 DEF ReadInv, AgeInv, Reading, HasRead, LoadedAt, Stamps, Known, NoOlder
  <1>6. QED
    BY <1>1, <1>3, <1>4, <1>5 DEF IndInv

LEMMA InitHolds == Init => IndInv
  <1> SUFFICES ASSUME Init PROVE IndInv
    BY Zenon
  <1>1. /\ \A i \in FileIDs : disk[i] \in File /\ disk[i].mtime = 0 /\ disk[i].gen = 1
        /\ \A i \in FileIDs : past[i] = {disk[i]}
        /\ \A c \in Callers : callers[c] = NoCall
    BY ConstAssumption DEF Init, File, Gens
  <1>2. disk \in [FileIDs -> File \cup {NONE}] /\ past \in [FileIDs -> SUBSET File]
    BY <1>1 DEF Init
  <1>3. TypeOK
    <2>1. callers \in [Callers -> Caller]
      BY NoCallFits DEF Init
    <2>2. /\ clock \in Nat /\ writes \in Nat /\ val \in Gens /\ failSince \in Nat
          /\ firstFail \in Nat
      BY ConstAssumption DEF Init, Gens
    <2>3. /\ restored \in BOOLEAN /\ loaded \in BOOLEAN /\ (loaded => val # 0)
          /\ loadedAt \in Stamp \cup {NONE} /\ failedAt \in Stamp \cup {NONE}
          /\ statFailed \in BOOLEAN /\ lock \in Callers \cup {NONE}
      BY Zenon DEF Init
    <2>4. QED
      BY <1>2, <2>1, <2>2, <2>3 DEF TypeOK
  <1>4. PlaceInv /\ FailInv
    BY <1>1, Files, NoCallFits DEF Init, PlaceInv, FailInv, Reading
  <1>5. MtimeInv
    BY <1>1, NoCallFits DEF Init, MtimeInv
  <1>6. SettledIsCurrent /\ ReadInv
    BY <1>1, NoCallFits, Zenon DEF Init, SettledIsCurrent, ReadInv, Reading
  <1>7. AgeInv
    BY <1>1, NoCallFits DEF Init, AgeInv, NoOlder, Reading
  <1>8. QED
    BY <1>3, <1>4, <1>5, <1>6, <1>7 DEF IndInv

LEMMA StepKeeps == IndInv /\ [Next]_vars => IndInv'
  <1> SUFFICES ASSUME IndInv, [Next]_vars PROVE IndInv'
    OBVIOUS
  <1>1. ASSUME NEW c \in Callers, Handshake(c) \/ RunPoll(c) \/ Refresh(c) PROVE IndInv'
    BY Zenon, <1>1, GetKeeps DEF Handshake, RunPoll, Pool, Refresh, Reload
  <1>2. ASSUME NEW c \in Callers, CallerStep(c) PROVE IndInv'
    <2>1. CASE stat(c)
      BY <2>1, StatKeeps
    <2>2. CASE FastPath(c)
      BY <2>2, FastPathKeeps
    <2>3. CASE Lock(c)
      BY <2>3, LockKeeps
    <2>4. CASE read(c)
      BY <2>4, ReadKeeps
    <2>5. CASE LoadFailed(c)
      BY <2>5, LoadFailedKeeps
    <2>6. CASE LoadOK(c)
      BY <2>6, LoadOKKeeps
    <2>7. CASE Return(c)
      BY Zenon, <2>7, GetKeeps
    <2>8. QED
      BY <1>2, <2>1, <2>2, <2>3, <2>4, <2>5, <2>6, <2>7 DEF CallerStep
  <1>3. CASE Rotate
    BY <1>3, RotateKeeps
  <1>4. CASE Tick
    BY <1>4, TickKeeps
  <1>5. CASE UNCHANGED vars
    <2>1. /\ UNCHANGED <<disk, past, writes, restored>>
          /\ UNCHANGED <<val, loaded, loadedAt, failedAt, statFailed, failSince>>
          /\ UNCHANGED <<clock, lock, callers, firstFail>>
      BY <1>5 DEF vars, world, value
    <2>2. TypeOK' /\ PlaceInv' /\ FailInv'
      BY <2>1, Zenon DEF IndInv, TypeOK, PlaceInv, FailInv, Reading
    <2>3. (MtimeInv => MtimeInv') /\ (SettledIsCurrent => SettledIsCurrent')
      BY <2>1, Zenon DEF MtimeInv, SettledIsCurrent, Stamps, DiskGen
    <2>4. (ReadInv => ReadInv') /\ (AgeInv => AgeInv')
      BY <2>1 DEF ReadInv, AgeInv, Reading, HasRead, LoadedAt, Stamps, Known, NoOlder
    <2>5. QED
      BY <2>1, <2>2, <2>3, <2>4 DEF IndInv
  <1>6. QED
    BY <1>1, <1>2, <1>3, <1>4, <1>5 DEF Next

LEMMA IndInvHolds == Spec => []IndInv
  <1>1. QED
    BY InitHolds, StepKeeps, PTL DEF Spec

-----------------------------------------------------------------------------
(***************************************************************************)
(* RotationSettles: however many files, callers and rotations there are,   *)
(* files that carry the mtimes of the last load hold what it loaded,       *)
(* unless one was restored under its old mtime.                            *)
(***************************************************************************)
THEOREM NoRotationIsMissed == Spec => []RotationSettles
  <1>1. IndInv => RotationSettles
    BY DEF IndInv, RotationSettles
  <1>2. QED
    BY <1>1, IndInvHolds, PTL

\* Only a load that succeeds changes the value.
LEMMA OnlyLoadsChange ==
    ASSUME [Next]_vars
    PROVE  val' = val \/ \E c \in Callers : LoadOK(c)
  <1>1. ASSUME NEW c \in Callers, Handshake(c) \/ RunPoll(c) \/ Refresh(c) PROVE val' = val
    BY <1>1 DEF Handshake, RunPoll, Pool, Refresh, Reload, get, value
  <1>2. ASSUME NEW c \in Callers, CallerStep(c), ~LoadOK(c) PROVE val' = val
    BY <1>2, Zenon DEF CallerStep, stat, FastPath, Lock, read, LoadFailed, Return, value
  <1>3. CASE Rotate
    BY <1>3 DEF Rotate, Write, Remove, Restore, Replace, value
  <1>4. CASE Tick \/ UNCHANGED vars
    BY <1>4 DEF Tick, vars, value
  <1>5. QED
    BY <1>1, <1>2, <1>3, <1>4 DEF Next

(***************************************************************************)
(* ValueNeverRegresses: a reload that read its files before another one    *)
(* loaded newer ones never puts the older material back, because it reads  *)
(* and stores under the one write lock.                                    *)
(***************************************************************************)
THEOREM ReloadsMoveForward == Spec => ValueNeverRegresses
  <1>1. IndInv /\ [Next]_vars => (restored \/ val' >= val) \/ UNCHANGED vars
    <2> SUFFICES ASSUME IndInv, [Next]_vars, ~restored PROVE val' >= val
      OBVIOUS
    <2>1. CASE val' = val
      BY <2>1 DEF IndInv, TypeOK, Gens
    <2>2. ASSUME NEW c \in Callers, LoadOK(c) PROVE val' >= val
      <3>1. Reading(c) /\ callers[c].got # 0 /\ val' = callers[c].got
        BY <2>2, Zenon DEF LoadOK, Parsed, Reading
      <3>2. QED
        BY Zenon, <3>1 DEF IndInv, AgeInv
    <2>3. QED
      BY <2>1, <2>2, OnlyLoadsChange
  <1>2. QED
    BY <1>1, IndInvHolds, PTL DEF Spec, ValueNeverRegresses

-----------------------------------------------------------------------------
\* What StaleBounded says of one caller.
InTime(c) ==
    /\ callers[c].pc # "result" /\ callers'[c].pc = "result" /\ ~callers'[c].err
    /\ MaxStale > 0 /\ callers'[c].since # 0
    => clock - callers'[c].since <= MaxStale

LEMMA KeptInTime ==
    ASSUME IndInv, NEW c \in Callers, Step(c, keptLocked(c))
    PROVE  InTime(c)
  <1>1. callers'[c] = keptLocked(c)
    BY KeptFits, OneSteps DEF IndInv
  <1>2. keptLocked(c).since = firstFail /\ keptLocked(c).err = tooStale(failSince)
    BY KeptFits, Zenon
  <1>3. /\ failSince = firstFail /\ clock \in Nat /\ firstFail \in Nat /\ MaxStale \in Nat
    BY ConstAssumption DEF IndInv, TypeOK, FailInv
  <1>4. ~keptLocked(c).err => ~tooStale(failSince)
    BY <1>2
  <1>5. ~tooStale(failSince) /\ MaxStale > 0 /\ firstFail # 0 => clock - firstFail <= MaxStale
    BY <1>3 DEF tooStale
  <1>6. QED
    BY <1>1, <1>2, <1>4, <1>5, Zenon DEF InTime

LEMMA FailedInTime ==
    ASSUME IndInv, NEW c \in Callers, LoadFailed(c)
    PROVE  InTime(c)
  <1>1. /\ failSince = firstFail /\ clock \in Nat /\ firstFail \in Nat /\ MaxStale \in Nat
        /\ val \in Gens /\ 0 \in Gens /\ loaded \in BOOLEAN /\ callers[c] \in Caller
        /\ clock' = clock
    BY ConstAssumption DEF IndInv, TypeOK, FailInv, Gens, LoadFailed
  <1>2. CASE ~loaded
    <2> DEFINE r == [NoCall EXCEPT !.pc = "result", !.err = TRUE]
    <2>1. r \in Caller /\ r.err = TRUE
      BY Zenon, NoCallFits DEF Caller
    <2>2. Step(c, r)
      BY <1>2 DEF LoadFailed
    <2> HIDE DEF r
    <2>3. QED
      BY <2>1, <2>2, OneSteps DEF IndInv, InTime
  <1>3. CASE loaded
    <2> DEFINE t == firstFail'
               e == callers[c].forced \/ tooStale(failSince')
               v == IF tooStale(failSince') THEN 0 ELSE val
               r == [NoCall EXCEPT !.pc = "result", !.since = t, !.err = e, !.val = v]
    <2>1. t \in Nat /\ e \in BOOLEAN /\ v \in Gens /\ Step(c, r) /\ failSince' = t
      BY <1>1, <1>3 DEF LoadFailed, FailedSince, tooStale, Caller
    <2>2. ~e => ~(MaxStale > 0 /\ t # 0 /\ clock - t > MaxStale)
      BY <1>1, <2>1 DEF tooStale
    <2> HIDE DEF t, e, v
    <2>3. r \in Caller /\ r.since = t /\ r.err = e
      BY Zenon, <2>1, NoCallFits DEF Caller
    <2> HIDE DEF r
    <2>4. callers'[c] = r
      BY <2>1, <2>3, OneSteps DEF IndInv
    <2>5. QED
      BY <1>1, <2>1, <2>2, <2>3, <2>4 DEF InTime
  <1>4. QED
    BY <1>1, <1>2, <1>3

LEMMA OthersInTime ==
    ASSUME IndInv, NEW c \in Callers, NEW d \in Callers, d # c, NEW r, Step(c, r)
    PROVE  InTime(d)
  BY DEF IndInv, TypeOK, Step, InTime

(***************************************************************************)
(* StaleBounded: however reloads fail, recover and overlap, a value handed *)
(* out without an error is within MaxStale of the first failure.           *)
(***************************************************************************)
THEOREM StaleValuesAreRefused == Spec => StaleBounded
  <1>1. ASSUME IndInv, [Next]_vars, NEW d \in Callers PROVE InTime(d)
    <2>1. ASSUME NEW c \in Callers, Handshake(c) \/ RunPoll(c) \/ Refresh(c) PROVE InTime(d)
      <3>1. PICK forced \in BOOLEAN : Step(c, [NoCall EXCEPT !.pc = "stat", !.forced = forced])
        BY Zenon, <2>1 DEF Handshake, RunPoll, Pool, Refresh, Reload, get
      <3> DEFINE r == [NoCall EXCEPT !.pc = "stat", !.forced = forced]
      <3>2. r \in Caller /\ r.pc = "stat"
        BY Zenon, NoCallFits DEF Caller
      <3> HIDE DEF r
      <3>3. CASE d = c
        BY Zenon, <1>1, <3>1, <3>2, <3>3, OneSteps DEF IndInv, InTime, r
      <3>4. CASE d # c
        BY <1>1, <3>1, <3>4, OthersInTime
      <3>5. QED
        BY <3>3, <3>4
    <2>2. ASSUME NEW c \in Callers, CallerStep(c) PROVE InTime(d)
      <3>1. \E r : Step(c, r)
        BY <2>2 DEF CallerStep, stat, FastPath, Lock, read, LoadFailed, LoadOK, Return
      <3>2. CASE d # c
        BY <1>1, <3>1, <3>2, OthersInTime, Zenon
      <3>3. ASSUME stat(c) \/ read(c) \/ Return(c) PROVE callers'[c].pc # "result"
        <4>1. callers[c] \in Caller /\ callers \in [Callers -> Caller]
          BY <1>1 DEF IndInv, TypeOK
        <4>2. CASE stat(c)
          BY <4>1, <4>2 DEF stat, Step, Caller
        <4>3. CASE read(c)
          BY <4>1, <4>3, Zenon DEF read, Step, Caller
        <4>4. CASE Return(c)
          BY <4>1, <4>4 DEF Return, Step, NoCall
        <4>5. QED
          BY <3>3, <4>2, <4>3, <4>4
      <3>4. CASE FastPath(c) \/ Lock(c)
        <4>1. CASE Settled(c)
          <5>1. InTime(c)
            BY <1>1, <3>4, <4>1, KeptInTime DEF FastPath, Lock
          <5>2. QED
            BY <3>2, <5>1
        <4>2. CASE ~Settled(c)
          <5>1. callers[c] \in Caller /\ callers \in [Callers -> Caller]
            BY <1>1 DEF IndInv, TypeOK
          <5>2. callers'[c].pc # "result"
            BY <3>4, <4>2, <5>1 DEF FastPath, Lock, Step, Caller
          <5>3. QED
            BY <3>2, <5>2 DEF InTime
        <4>3. QED
          BY <4>1, <4>2
      <3>5. CASE LoadFailed(c)
        BY <1>1, <3>2, <3>5, FailedInTime
      <3>6. CASE LoadOK(c)
        <4> DEFINE v == callers[c].got
                   r == [NoCall EXCEPT !.pc = "result", !.val = v]
        <4>1. v \in Gens
          BY <1>1 DEF IndInv, TypeOK, Caller
        <4>2. Step(c, r)
          BY <3>6 DEF LoadOK
        <4> HIDE DEF v
        <4>3. r \in Caller /\ r.since = 0
          BY Zenon, <4>1, NoCallFits DEF Caller
        <4> HIDE DEF r
        <4>4. callers'[c].since = 0
          BY <1>1, <4>2, <4>3, OneSteps DEF IndInv
        <4>5. QED
          BY <3>2, <4>4 DEF InTime
      <3>7. QED
        BY <2>2, <3>2, <3>3, <3>4, <3>5, <3>6 DEF CallerStep, InTime
    <2>3. CASE Rotate \/ Tick \/ UNCHANGED vars
      <3>1. UNCHANGED callers
        BY <2>3 DEF Rotate, Write, Remove, Restore, Replace, Tick, vars
      <3>2. QED
        BY <3>1, Zenon DEF InTime
    <2>4. QED
      BY <1>1, <2>1, <2>2, <2>3 DEF Next
  <1>2. IndInv /\ [Next]_vars => (\A c \in Callers : InTime(c)) \/ UNCHANGED vars
    BY <1>1
  <1>3. QED
    BY <1>2, IndInvHolds, PTL DEF Spec, StaleBounded, InTime
=============================================================================
