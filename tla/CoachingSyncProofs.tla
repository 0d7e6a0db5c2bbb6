------------------------ MODULE CoachingSyncProofs ------------------------
(***************************************************************************)
(* Proofs about CoachingSync, for any players, accounts and runs.          *)
(* A lock belongs to the read its holder is at (LocksHaveReaders), and a   *)
(* run that is about to mark what it found has a report (Reported).        *)
(***************************************************************************)
EXTENDS CoachingSync, TLAPS

Place == {"invalidate", "history", "list", "recent", "save", "mark"}

\* A run in a sync has its subject.
Syncing == \A r \in Run : pc[r] \in Place => cur[r] \in Subject

\* Matches that are about to be marked as synced are in a report.
Reported ==
    \A r \in Run : pc[r] = "mark" /\ seen[r] > 0 => latest[Of[cur[r]]] # Null

IInv == TypeOK /\ Syncing /\ LocksHaveReaders /\ Reported /\ SyncedMeansReported

----------------------------------------------------------------------------
(* What a step of one run leaves alone.                                    *)

\* The other runs are where they were.
Others(r) ==
    \A q \in Run \ {r} : pc'[q] = pc[q] /\ cur'[q] = cur[q] /\ seen'[q] = seen[q]

\* The step leaves r without a lock, and nobody else with a new one.
Unlocks(r) ==
    \A k \in Key : holder'[k] # r /\ holder'[k] \in {Null, holder[k]}

\* A run that reads, reads for a player.
LEMMA KeyAtType ==
    ASSUME IInv, NEW r \in Run, Reading(r)
    PROVE  KeyAt(r) \in Key
BY DEF IInv, Syncing, Place, Reading, KeyAt, Key

\* A run holds no lock but that of the key it reads.
LEMMA NoOtherLock ==
    ASSUME IInv, NEW r \in Run, NEW k \in Key, holder[k] = r
    PROVE  k = KeyAt(r) /\ pc[r] \in {"history", "recent"}
<1>1. holder[k] # Null
  BY CoachingSyncAssumption
<1>2. pc[r] = k[2] /\ cur[r] = k[1]
  BY <1>1 DEF IInv, LocksHaveReaders
<1> QED  BY <1>2 DEF Key, KeyAt

\* A step of one run that frees what it leaves keeps LocksHaveReaders.
LEMMA LocksKept ==
    ASSUME IInv, NEW r \in Run, Others(r), Unlocks(r)
    PROVE  LocksHaveReaders'
<1> SUFFICES ASSUME NEW k \in Key, holder'[k] # Null
             PROVE  pc'[holder'[k]] = k[2] /\ cur'[holder'[k]] = k[1]
  BY DEF LocksHaveReaders
<1>1. holder'[k] = holder[k] /\ holder'[k] \in Run \ {r}
  BY DEF Unlocks, IInv, TypeOK
<1> QED  BY <1>1 DEF Others, IInv, LocksHaveReaders

\* A step of one run that knows its player keeps Syncing.
LEMMA SyncingKept ==
    ASSUME IInv, NEW r \in Run, Others(r), pc'[r] \in Place => cur'[r] \in Subject
    PROVE  Syncing'
BY DEF IInv, Syncing, Others

\* A player who has a report keeps it, what r is about to mark is reported, and
\* so is what the step has marked.
LEMMA ReportsKept ==
    ASSUME IInv, NEW r \in Run, Others(r),
           \A p \in Player : latest[p] # Null => latest'[p] # Null,
           pc'[r] = "mark" /\ seen'[r] > 0 => latest'[Of[cur'[r]]] # Null,
           \A a \in Account :
              \/ marked'[a] \in {Null, 0, marked[a]}
              \/ latest'[Of[Identity[a]]] # Null
    PROVE  Reported' /\ SyncedMeansReported'
<1>1. Reported'
  <2> SUFFICES ASSUME NEW q \in Run, pc'[q] = "mark", seen'[q] > 0, q # r
               PROVE  latest'[Of[cur'[q]]] # Null
    BY DEF Reported
  <2>1. pc[q] = "mark" /\ seen[q] > 0 /\ cur'[q] = cur[q] /\ cur[q] \in Subject
    BY DEF Others, IInv, Syncing, Place
  <2> QED  BY <2>1, CoachingSyncAssumption DEF IInv, Reported
<1>2. SyncedMeansReported'
  BY CoachingSyncAssumption DEF IInv, SyncedMeansReported
<1> QED  BY <1>1, <1>2

\* The next account of a sweep, or the end of the run.
LEMMA ProceedKeeps ==
    ASSUME IInv, NEW r \in Run, NEW left \in SUBSET Account, Proceed(r, left)
    PROVE  /\ pc' \in [Run -> PC] /\ todo' \in [Run -> SUBSET Account]
           /\ cur' \in [Run -> Subject \cup {Null}]
           /\ seen' \in [Run -> Nat] /\ value' \in [Run -> Nat]
           /\ Others(r)
           /\ pc'[r] \in {"sleep", "idle", "invalidate"}
           /\ pc'[r] \in Place => cur'[r] \in Subject
<1>1. CASE Go(r, Rest(r)) /\ todo' = [todo EXCEPT ![r] = {}] /\ cur' = [cur EXCEPT ![r] = Null]
  BY <1>1 DEF Proceed, Go, Rest, IInv, TypeOK, PC, Place, Others
<1>2. ASSUME NEW a \in left, Go(r, "invalidate"),
             todo' = [todo EXCEPT ![r] = left \ {a}], cur' = [cur EXCEPT ![r] = Identity[a]]
      PROVE  /\ pc' \in [Run -> PC] /\ todo' \in [Run -> SUBSET Account]
             /\ cur' \in [Run -> Subject \cup {Null}]
             /\ seen' \in [Run -> Nat] /\ value' \in [Run -> Nat]
             /\ Others(r)
             /\ pc'[r] \in {"sleep", "idle", "invalidate"}
             /\ pc'[r] \in Place => cur'[r] \in Subject
  <2>1. Identity[a] \in Subject
    BY CoachingSyncAssumption
  <2> QED  BY <1>2, <2>1 DEF Proceed, Go, IInv, TypeOK, PC, Place, Others
<1> QED  BY <1>1, <1>2 DEF Proceed

\* An error or the end of a sync, with the locks of r free.
LEMMA ProceedInvariant ==
    ASSUME IInv, NEW r \in Run, NEW left \in SUBSET Account, Proceed(r, left),
           Unlocks(r), holder' \in [Key -> Run \cup {Null}],
           UNCHANGED <<played, snap, linked, primary, latest, life>>,
           marked' \in [Account -> Nat \cup {Null}],
           \A a \in Account :
              \/ marked'[a] \in {Null, 0, marked[a]}
              \/ latest[Of[Identity[a]]] # Null
    PROVE  IInv'
<1>1. /\ pc' \in [Run -> PC] /\ todo' \in [Run -> SUBSET Account]
      /\ cur' \in [Run -> Subject \cup {Null}]
      /\ seen' \in [Run -> Nat] /\ value' \in [Run -> Nat]
      /\ Others(r)
      /\ pc'[r] \in {"sleep", "idle", "invalidate"}
      /\ pc'[r] \in Place => cur'[r] \in Subject
  BY ProceedKeeps
<1>2. TypeOK'
  BY <1>1 DEF IInv, TypeOK
<1>3. Syncing' /\ LocksHaveReaders'
  BY <1>1, SyncingKept, LocksKept
<1>4. Reported' /\ SyncedMeansReported'
  BY <1>1, ReportsKept
<1> QED  BY <1>2, <1>3, <1>4 DEF IInv

\* A step of r within a sync that leaves the accounts and reports alone.
LEMMA MoveInvariant ==
    ASSUME IInv, NEW r \in Run, TypeOK', Others(r), LocksHaveReaders',
           UNCHANGED <<marked, latest>>,
           pc'[r] \in Place => cur'[r] \in Subject,
           pc'[r] = "mark" /\ seen'[r] > 0 => latest[Of[cur'[r]]] # Null
    PROVE  IInv'
<1>1. Syncing'
  BY SyncingKept
<1>2. Reported' /\ SyncedMeansReported'
  BY ReportsKept
<1> QED  BY <1>1, <1>2 DEF IInv

\* What CancelSync and Mark may mark.
LEMMA MarkedByKeeps ==
    ASSUME IInv, NEW r \in Run, pc[r] = "mark"
    PROVE  /\ MarkedBy(r) \in [Account -> Nat \cup {Null}]
           /\ \A a \in Account :
                 \/ MarkedBy(r)[a] \in {Null, 0, marked[a]}
                 \/ latest[Of[Identity[a]]] # Null
<1>1. seen[r] \in Nat
  BY DEF IInv, TypeOK
<1>2. MarkedBy(r) \in [Account -> Nat \cup {Null}]
  BY <1>1 DEF MarkedBy, IInv, TypeOK
<1>3. ASSUME NEW a \in Account
      PROVE  \/ MarkedBy(r)[a] \in {Null, 0, marked[a]}
             \/ latest[Of[Identity[a]]] # Null
  <2>1. CASE a \in linked /\ Of[Identity[a]] = Of[cur[r]]
    BY <1>1, <2>1 DEF MarkedBy, IInv, Reported
  <2>2. CASE ~(a \in linked /\ Of[Identity[a]] = Of[cur[r]])
    BY <2>2 DEF MarkedBy
  <2> QED  BY <2>1, <2>2
<1> QED  BY <1>2, <1>3

\* A run that is not reading holds no lock.
LEMMA NoLockAway ==
    ASSUME IInv, NEW r \in Run, pc[r] \notin {"history", "recent"}, holder' = holder
    PROVE  Unlocks(r)
BY NoOtherLock DEF Unlocks

\* A run that has let go of its locks.
LEMMA ReleasedUnlocks ==
    ASSUME IInv, NEW r \in Run, holder' = Released(r)
    PROVE  Unlocks(r) /\ holder' \in [Key -> Run \cup {Null}]
BY CoachingSyncAssumption DEF Unlocks, Released, IInv, TypeOK

----------------------------------------------------------------------------
(* The invariant.                                                          *)

\* A run at rest is not in a sync.
LEMMA RestNotPlace ==
    \A r \in Run : Rest(r) \in {"sleep", "idle"}
BY DEF Rest

\* The program starts in the invariant.
LEMMA InitIInv == Init => IInv
<1> SUFFICES ASSUME Init PROVE IInv
  OBVIOUS
<1>1. TypeOK
  BY CoachingSyncAssumption, RestNotPlace DEF Init, TypeOK, PC
<1>2. Syncing /\ Reported
  BY RestNotPlace DEF Init, Syncing, Reported, Place
<1>3. LocksHaveReaders /\ SyncedMeansReported
  BY DEF Init, LocksHaveReaders, SyncedMeansReported
<1> QED  BY <1>1, <1>2, <1>3 DEF IInv

\* The steps of one run.
LEMMA RunIInv ==
    ASSUME IInv, NEW r \in Run, Step(r) \/ Read(r)
    PROVE  IInv'
<1>1. CASE Tracked(r)
  <2>1. primary \in SUBSET Account /\ Unlocks(r)
    BY <1>1, NoLockAway DEF Tracked, At, IInv, TypeOK
  <2> QED
    BY <1>1, <2>1, ProceedInvariant DEF Tracked, db, IInv, TypeOK
<1>2. CASE TrackedFails(r)
  <2>1. Unlocks(r)
    BY <1>2, NoLockAway DEF TrackedFails, At
  <2> QED
    BY <1>2, <2>1, ProceedInvariant DEF TrackedFails, db, IInv, TypeOK
<1>3. CASE Invalidate(r)
  <2>1. Unlocks(r) /\ Others(r)
    BY <1>3, NoLockAway DEF Invalidate, At, Go, Others, IInv, TypeOK
  <2>2. TypeOK'
    BY <1>3 DEF Invalidate, WithoutPlayer, db, Go, IInv, TypeOK, PC
  <2>3. pc[r] = "invalidate" /\ pc'[r] = "history" /\ cur' = cur
    BY <1>3 DEF Invalidate, At, Go, IInv, TypeOK
  <2> QED
    BY <1>3, <2>1, <2>2, <2>3, LocksKept, MoveInvariant
    DEF Invalidate, db, IInv, Syncing, Place
<1>4. CASE Put(r)
  <2>1. KeyAt(r) \in Key /\ cur[r] \in Subject /\ value[r] \in Nat
    BY <1>4, KeyAtType DEF Put, Reading, IInv, TypeOK, Syncing, Place
  <2>2. Unlocks(r)
    <3> SUFFICES ASSUME NEW k \in Key PROVE holder'[k] # r /\ holder'[k] \in {Null, holder[k]}
      BY DEF Unlocks
    <3>1. CASE k = KeyAt(r)
      BY <1>4, <2>1, <3>1, CoachingSyncAssumption DEF Put, IInv, TypeOK
    <3>2. CASE k # KeyAt(r)
      BY <1>4, <2>1, <3>2, NoOtherLock DEF Put, IInv, TypeOK
    <3> QED  BY <3>1, <3>2
  <2>3. TypeOK' /\ Others(r)
    BY <1>4, <2>1 DEF Put, Got, Go, db, IInv, TypeOK, PC, Others
  <2>4. pc'[r] \in {"list", "save"} /\ cur' = cur
    BY <1>4 DEF Put, Got, Go, IInv, TypeOK
  <2> QED
    BY <1>4, <2>1, <2>2, <2>3, <2>4, LocksKept, MoveInvariant DEF Put, db
<1>5. CASE List(r)
  <2>1. Unlocks(r) /\ Others(r)
    BY <1>5, NoLockAway DEF List, At, Go, Others, IInv, TypeOK
  <2>2. TypeOK'
    BY <1>5 DEF List, db, Go, IInv, TypeOK, PC
  <2>3. pc[r] = "list" /\ cur' = cur /\ seen' = seen
    BY <1>5 DEF List, At
  <2>4. pc'[r] = "mark" => ~(seen[r] > 0)
    BY <1>5 DEF List, NewReportNeeded, Go, IInv, TypeOK
  <2> QED
    BY <1>5, <2>1, <2>2, <2>3, <2>4, LocksKept, MoveInvariant
    DEF List, db, IInv, Syncing, Place
<1>6. CASE Save(r)
  <2>1. pc[r] = "save" /\ cur[r] \in Subject /\ value[r] \in Nat
    BY <1>6 DEF Save, At, IInv, TypeOK, Syncing, Place
  <2>2. Unlocks(r) /\ Others(r)
    BY <1>6, <2>1, NoLockAway DEF Save, Go, Others, IInv, TypeOK
  <2>3. TypeOK'
    BY <1>6, <2>1 DEF Save, Go, IInv, TypeOK, PC
  <2>4. cur' = cur /\ latest'[Of[cur[r]]] # Null
        /\ \A p \in Player : latest[p] # Null => latest'[p] # Null
    BY <1>6, <2>1, CoachingSyncAssumption DEF Save, IInv, TypeOK
  <2>5. Syncing' /\ LocksHaveReaders'
    BY <2>1, <2>2, <2>4, SyncingKept, LocksKept
  <2>6. Reported' /\ SyncedMeansReported'
    BY <1>6, <2>2, <2>4, ReportsKept DEF Save
  <2> QED  BY <2>3, <2>5, <2>6 DEF IInv
<1>7. CASE Mark(r)
  <2>1. Unlocks(r) /\ pc[r] = "mark" /\ todo[r] \in SUBSET Account
    BY <1>7, NoLockAway DEF Mark, At, IInv, TypeOK
  <2>2. /\ marked' \in [Account -> Nat \cup {Null}]
        /\ \A a \in Account :
              \/ marked'[a] \in {Null, 0, marked[a]}
              \/ latest[Of[Identity[a]]] # Null
    BY <1>7, <2>1, MarkedByKeeps DEF Mark
  <2> QED
    BY <1>7, <2>1, <2>2, ProceedInvariant DEF Mark, IInv, TypeOK
<1>8. CASE CallFails(r)
  <2>1. Unlocks(r) /\ todo[r] \in SUBSET Account
    BY <1>8, NoLockAway DEF CallFails, IInv, TypeOK
  <2> QED
    BY <1>8, <2>1, ProceedInvariant DEF CallFails, Throw, db, IInv, TypeOK
<1>9. CASE Hit(r)
  <2>1. KeyAt(r) \in Key /\ cur[r] \in Subject /\ snap[KeyAt(r)] \in Nat
    BY <1>9, KeyAtType DEF Hit, Reading, IInv, TypeOK, Syncing, Place
  <2>2. Unlocks(r)
    BY <1>9, NoOtherLock, CoachingSyncAssumption DEF Hit, Unlocks
  <2>3. TypeOK' /\ Others(r)
    BY <1>9, <2>1 DEF Hit, Got, Go, db, IInv, TypeOK, PC, Others
  <2>4. pc'[r] \in {"list", "save"} /\ cur' = cur
    BY <1>9 DEF Hit, Got, Go, IInv, TypeOK
  <2> QED
    BY <1>9, <2>1, <2>2, <2>3, <2>4, LocksKept, MoveInvariant DEF Hit, db
<1>10. CASE Miss(r)
  <2>1. KeyAt(r) \in Key /\ cur[r] \in Subject /\ played[Of[cur[r]]] \in Nat
    BY <1>10, KeyAtType, CoachingSyncAssumption DEF Miss, Reading, IInv, TypeOK, Syncing, Place
  <2>2. TypeOK' /\ Others(r)
    BY <1>10, <2>1 DEF Miss, db, IInv, TypeOK, Others
  <2>3. LocksHaveReaders'
    <3> SUFFICES ASSUME NEW k \in Key, holder'[k] # Null
                 PROVE  pc[holder'[k]] = k[2] /\ cur[holder'[k]] = k[1]
      BY <1>10 DEF Miss, LocksHaveReaders
    <3>1. CASE k = KeyAt(r)
      BY <1>10, <2>1, <3>1 DEF Miss, KeyAt, IInv, TypeOK
    <3>2. CASE k # KeyAt(r)
      BY <1>10, <2>1, <3>2 DEF Miss, IInv, TypeOK, LocksHaveReaders
    <3> QED  BY <3>1, <3>2
  <2>4. pc[r] \in {"history", "recent"} /\ pc' = pc /\ cur' = cur
    BY <1>10 DEF Miss, Reading
  <2> QED
    BY <1>10, <2>1, <2>2, <2>3, <2>4, MoveInvariant DEF Miss, db
<1>11. CASE ReadFails(r)
  <2>1. Unlocks(r) /\ holder' \in [Key -> Run \cup {Null}]
    BY <1>11, ReleasedUnlocks DEF ReadFails
  <2>2. CASE pc[r] = "history" /\ Got(r, 0) /\ UNCHANGED <<todo, cur>>
    <3>1. TypeOK' /\ Others(r)
      BY <1>11, <2>1, <2>2 DEF ReadFails, Got, Go, db, IInv, TypeOK, PC, Others
    <3>2. pc'[r] = "list" /\ cur[r] \in Subject
      BY <2>2 DEF Got, Go, IInv, TypeOK, Syncing, Place
    <3> QED
      BY <1>11, <2>1, <2>2, <3>1, <3>2, LocksKept, MoveInvariant DEF ReadFails, db
  <2>3. CASE Throw(r)
    <3>1. todo[r] \in SUBSET Account
      BY DEF IInv, TypeOK
    <3> QED
      BY <1>11, <2>1, <2>3, <3>1, ProceedInvariant DEF ReadFails, Throw, db, IInv, TypeOK
  <2> QED  BY <1>11, <2>2, <2>3 DEF ReadFails
<1> QED
  BY <1>1, <1>2, <1>3, <1>4, <1>5, <1>6, <1>7, <1>8, <1>9, <1>10, <1>11
  DEF Step, Read

\* A run begins.
LEMMA BeginIInv ==
    ASSUME IInv, NEW r \in Run,
           BeginSweep(r) \/ \E s \in Subject : BeginCall(r, s)
    PROVE  IInv'
<1>1. CASE BeginSweep(r)
  <2>1. pc[r] \in {"sleep", "idle"} /\ pc'[r] = "tracked"
    BY <1>1, RestNotPlace DEF BeginSweep, At, Go, IInv, TypeOK
  <2>2. TypeOK' /\ Others(r)
    BY <1>1 DEF BeginSweep, Go, db, IInv, TypeOK, PC, Others
  <2>3. LocksHaveReaders'
    BY <1>1, <2>1, <2>2, NoLockAway, LocksKept DEF BeginSweep
  <2> QED
    BY <1>1, <2>1, <2>2, <2>3, MoveInvariant DEF BeginSweep, db, Place
<1>2. ASSUME NEW s \in Subject, BeginCall(r, s)
      PROVE  IInv'
  <2>1. pc[r] = "idle" /\ pc'[r] = "invalidate" /\ cur'[r] = s
    BY <1>2 DEF BeginCall, At, Go, IInv, TypeOK
  <2>2. TypeOK' /\ Others(r)
    BY <1>2 DEF BeginCall, Go, db, IInv, TypeOK, PC, Others
  <2>3. LocksHaveReaders'
    BY <1>2, <2>1, <2>2, NoLockAway, LocksKept DEF BeginCall
  <2> QED
    BY <1>2, <2>1, <2>2, <2>3, MoveInvariant DEF BeginCall, db
<1> QED  BY <1>1, <1>2

\* The worker is cancelled, and what its storage call does after that.
LEMMA CancelIInv ==
    ASSUME IInv, CancelSync
    PROVE  IInv'
<1> DEFINE r == SyncWorker
<1>1. r \in Run
  BY DEF Run, Sweep
<1>2. Stop(r) /\ holder' = Released(r) /\ UNCHANGED <<played, linked, primary, life>>
  BY DEF CancelSync
<1>3. pc'[r] = "stopped" /\ Others(r)
  BY <1>1, <1>2 DEF Stop, Go, Others, IInv, TypeOK
<1>4. Unlocks(r) /\ holder' \in [Key -> Run \cup {Null}]
  BY <1>1, <1>2, ReleasedUnlocks
<1>5. /\ snap' \in [Key -> Nat \cup {Null}]
      /\ latest' \in [Player -> Nat \cup {Null}]
      /\ marked' \in [Account -> Nat \cup {Null}]
      /\ \A p \in Player : latest[p] # Null => latest'[p] # Null
      /\ \A a \in Account :
            \/ marked'[a] \in {Null, 0, marked[a]}
            \/ latest'[Of[Identity[a]]] # Null
  <2>1. CASE UNCHANGED <<snap, marked, latest>>
    BY <2>1 DEF IInv, TypeOK
  <2>2. CASE /\ pc[r] = "invalidate"
             /\ snap' = WithoutPlayer(r)
             /\ UNCHANGED <<marked, latest>>
    BY <2>2 DEF WithoutPlayer, IInv, TypeOK
  <2>3. CASE snap' = [snap EXCEPT ![KeyAt(r)] = value[r]] /\ UNCHANGED <<marked, latest>>
    BY <1>1, <2>3 DEF IInv, TypeOK
  <2>4. CASE /\ pc[r] = "save" /\ latest' = [latest EXCEPT ![Of[cur[r]]] = value[r]]
             /\ UNCHANGED <<snap, marked>>
    <3>1. value[r] \in Nat /\ value[r] # Null
      BY <1>1, CoachingSyncAssumption DEF IInv, TypeOK
    <3>2. /\ latest' \in [Player -> Nat \cup {Null}]
          /\ \A p \in Player : latest[p] # Null => latest'[p] # Null
      BY <2>4, <3>1 DEF IInv, TypeOK
    <3>3. snap' = snap /\ marked' = marked
      BY <2>4
    <3> QED  BY <3>2, <3>3 DEF IInv, TypeOK
  <2>5. CASE pc[r] = "mark" /\ marked' = MarkedBy(r) /\ UNCHANGED <<snap, latest>>
    BY <1>1, <2>5, MarkedByKeeps DEF IInv, TypeOK
  <2> QED  BY <2>1, <2>2, <2>3, <2>4, <2>5 DEF CancelSync
<1>6. TypeOK'
  BY <1>1, <1>2, <1>4, <1>5 DEF Stop, Go, IInv, TypeOK, PC
<1>7. Syncing' /\ LocksHaveReaders'
  BY <1>1, <1>3, <1>4, SyncingKept, LocksKept DEF Place
<1>8. Reported' /\ SyncedMeansReported'
  BY <1>1, <1>3, <1>5, ReportsKept
<1> QED  BY <1>6, <1>7, <1>8 DEF IInv

\* A process that ends or starts has no runs and no locks.
LEMMA RestartIInv ==
    ASSUME IInv, Crash \/ Start
    PROVE  IInv'
<1>1. MemoryLost /\ life' \in {"up", "closed"} /\ UNCHANGED <<played, snap, db>>
  BY DEF Crash, Start
<1>2. TypeOK'
  BY <1>1, CoachingSyncAssumption, RestNotPlace DEF MemoryLost, db, IInv, TypeOK, PC
<1>3. Syncing' /\ Reported'
  BY <1>1, RestNotPlace DEF MemoryLost, Syncing, Reported, Place
<1>4. LocksHaveReaders' /\ SyncedMeansReported'
  BY <1>1 DEF MemoryLost, db, IInv, LocksHaveReaders, SyncedMeansReported
<1> QED  BY <1>2, <1>3, <1>4 DEF IInv

\* Users link and unlink accounts; a new link is not marked.
LEMMA LinkIInv ==
    ASSUME IInv, NEW a \in Account, Link(a, TRUE) \/ Link(a, FALSE) \/ Unlink(a)
    PROVE  IInv'
<1>1. marked' = [marked EXCEPT ![a] = Null]
      /\ UNCHANGED <<played, snap, holder, latest, run, life>>
  BY DEF Link, Unlink
<1>2. linked' \in SUBSET Account /\ primary' \in SUBSET linked'
  BY DEF Link, Unlink, IInv, TypeOK
<1>3. TypeOK'
  BY <1>1, <1>2 DEF run, IInv, TypeOK
<1>4. Syncing' /\ Reported' /\ LocksHaveReaders'
  BY <1>1 DEF run, IInv, Syncing, Reported, LocksHaveReaders
<1>5. SyncedMeansReported'
  BY <1>1 DEF IInv, TypeOK, SyncedMeansReported
<1> QED  BY <1>3, <1>4, <1>5 DEF IInv

\* The lifespan, the players and the clock change nothing the invariant relates.
LEMMA WorldIInv ==
    ASSUME IInv,
           \/ Shutdown \/ SyncStopped \/ PruneStopped \/ Close
           \/ \E p \in Player : Play(p)
           \/ \E k \in Key : Expire(k)
           \/ UNCHANGED vars
    PROVE  IInv'
<1>1. UNCHANGED <<holder, db, run>>
  BY DEF Shutdown, SyncStopped, PruneStopped, Close, Play, Expire, vars
<1>2. /\ played' \in [Player -> Nat] /\ snap' \in [Key -> Nat \cup {Null}]
      /\ life' \in {"up", "stopSync", "stopPrune", "closing", "closed"}
  BY DEF Shutdown, SyncStopped, PruneStopped, Close, Play, Expire, vars, IInv, TypeOK
<1>3. TypeOK'
  BY <1>1, <1>2 DEF db, run, IInv, TypeOK
<1> QED
  BY <1>1, <1>3
  DEF db, run, IInv, Syncing, Reported, LocksHaveReaders, SyncedMeansReported

\* Every step keeps it, action by action.
LEMMA NextIInv == IInv /\ [Next]_vars => IInv'
<1> SUFFICES ASSUME IInv, [Next]_vars PROVE IInv'
  OBVIOUS
<1>1. ASSUME NEW r \in Sweep, BeginSweep(r) PROVE IInv'
  BY <1>1, BeginIInv DEF Run
<1>2. ASSUME NEW r \in Caller, NEW s \in Subject, BeginCall(r, s) PROVE IInv'
  BY <1>2, BeginIInv DEF Run
<1>3. ASSUME NEW r \in Run, Step(r) \/ Read(r) PROVE IInv'
  BY <1>3, RunIInv
<1>4. ASSUME NEW a \in Account, Link(a, TRUE) \/ Link(a, FALSE) \/ Unlink(a) PROVE IInv'
  BY <1>4, LinkIInv
<1> QED
  BY <1>1, <1>2, <1>3, <1>4, CancelIInv, RestartIInv, WorldIInv DEF Next

\* The inductive invariant.
THEOREM Invariance == Spec => []IInv
<1> QED  BY InitIInv, NextIInv, PTL DEF Spec

----------------------------------------------------------------------------
(* The theorems.                                                           *)

\* The variables of runs, accounts and the lifespan keep their types.
THEOREM TypeCorrect == Spec => []TypeOK
<1>1. IInv => TypeOK
  BY DEF IInv
<1> QED  BY <1>1, Invariance, PTL

\* Nothing that ends a run, an error, a cancellation or a crash, leaves a lock held
\* by a run that is no longer reading its key.
THEOREM LocksHaveReadersHolds == Spec => []LocksHaveReaders
<1>1. IInv => LocksHaveReaders
  BY DEF IInv
<1> QED  BY <1>1, Invariance, PTL

\* An account whose last sync found matches has a report of its player, whatever
\* runs overlap and wherever they fail or stop.
THEOREM SyncedMeansReportedHolds == Spec => []SyncedMeansReported
<1>1. IInv => SyncedMeansReported
  BY DEF IInv
<1> QED  BY <1>1, Invariance, PTL
============================================================================
