---------------------------- MODULE CoachingSync ----------------------------
(***************************************************************************)
(* Coaching synchronisation: sync_player_coaching, run for one player by a *)
(* request and for every tracked account by the background worker and by   *)
(* the administrator, under the lifespan that starts and stops the workers. *)
(*                                                                         *)
(* A match history is abstracted to the number of matches it knows of.  Its *)
(* two reads, of 20 matches and of the 5 a report is written from, go      *)
(* through _cached: a hit, or a fetch under the lock of the key.  A        *)
(* snapshot that is missing or over is Null.                               *)
(***************************************************************************)
EXTENDS Naturals

CONSTANTS
    Player,
    Subject,        \* players as they are asked for: with a region or none
    Of,             \* Of[s] is the player of subject s
    Account,        \* linked accounts
    Identity,       \* Identity[a] is the subject of account a
    User,           \* User[a] is the user who linked it
    SyncWorker,     \* the background task _run_coaching_sync_worker
    Admin,          \* requests for a sync of all tracked accounts
    Caller,         \* requests for a sync of one player
    Null,
    MaxPlayed       \* MaxPlayed[p] bounds the matches of p

Sweep == {SyncWorker} \cup Admin
Run == Sweep \cup Caller
Key == Subject \X {"history", "recent"}

ASSUME CoachingSyncAssumption ==
    /\ SyncWorker \notin Admin \cup Caller
    /\ Admin \cap Caller = {}
    /\ Null \notin Subject \cup Run \cup Nat
    /\ Of \in [Subject -> Player]
    /\ Identity \in [Account -> Subject]
    /\ MaxPlayed \in [Player -> Nat]

VARIABLES
    played,     \* the matches the providers know of
    snap,       \* the live snapshots of histories
    holder,     \* the run that fetches under the lock of a key
    linked,     \* rows of linked_player_accounts
    primary,    \* those with is_primary
    marked,     \* last_synced_at: the matches found by the sync that set it
    latest,     \* the matches the latest report of a player knows of
    pc,         \* where a run is
    todo,       \* the accounts a sweep has left
    cur,        \* who is being synced
    seen,       \* what was found in the history
    value,      \* what a run's fetch brings, and what its report is written from
    life        \* the lifespan: up, awaiting a cancelled worker, closing

db == <<linked, primary, marked, latest>>
run == <<pc, todo, cur, seen, value>>
vars == <<played, snap, holder, db, run, life>>

PC == {"idle", "sleep", "stopped", "tracked", "invalidate", "history", "list",
       "recent", "save", "mark"}

TypeOK ==
    /\ played \in [Player -> Nat]
    /\ snap \in [Key -> Nat \cup {Null}]
    /\ holder \in [Key -> Run \cup {Null}]
    /\ linked \in SUBSET Account
    /\ primary \in SUBSET linked
    /\ marked \in [Account -> Nat \cup {Null}]
    /\ latest \in [Player -> Nat \cup {Null}]
    /\ pc \in [Run -> PC]
    /\ todo \in [Run -> SUBSET Account]
    /\ cur \in [Run -> Subject \cup {Null}]
    /\ seen \in [Run -> Nat]
    /\ value \in [Run -> Nat]
    /\ life \in {"up", "stopSync", "stopPrune", "closing", "closed"}

\* Where a run is between two syncs.
Rest(r) == IF r = SyncWorker THEN "sleep" ELSE "idle"

Init ==
    /\ holder = [k \in Key |-> Null]
    /\ pc = [r \in Run |-> Rest(r)]
    /\ todo = [r \in Run |-> {}]
    /\ cur = [r \in Run |-> Null]
    /\ seen = [r \in Run |-> 0]
    /\ value = [r \in Run |-> 0]
    /\ life = "up"
    /\ played = [p \in Player |-> 0]
    /\ snap = [k \in Key |-> Null]
    /\ linked = {}
    /\ primary = {}
    /\ marked = [a \in Account |-> Null]
    /\ latest = [p \in Player |-> Null]

\* Tasks run until the lifespan cancels them; requests are over by then.
At(r, place) == life = "up" /\ pc[r] = place

Go(r, place) == pc' = [pc EXCEPT ![r] = place]

----------------------------------------------------------------------------
(* A run and its accounts.                                                 *)

\* The next account of a sweep, or the end of the run.
Proceed(r, left) ==
    /\ seen' = [seen EXCEPT ![r] = 0]
    /\ value' = [value EXCEPT ![r] = 0]
    /\ \/ /\ left = {}
          /\ Go(r, Rest(r))
          /\ todo' = [todo EXCEPT ![r] = {}]
          /\ cur' = [cur EXCEPT ![r] = Null]
       \/ \E a \in left :
             /\ Go(r, "invalidate")
             /\ todo' = [todo EXCEPT ![r] = left \ {a}]
             /\ cur' = [cur EXCEPT ![r] = Identity[a]]

\* The worker's interval is over, or the administrator asks.
BeginSweep(r) ==
    /\ At(r, Rest(r))
    /\ Go(r, "tracked")
    /\ UNCHANGED <<played, snap, holder, db, todo, cur, seen, value, life>>

Tracked(r) ==
    /\ At(r, "tracked")
    /\ Proceed(r, primary)
    /\ UNCHANGED <<played, snap, holder, db, life>>

\* Mutant: the worker's loop ends with the first error.
TrackedFailsForGood(r) ==
    /\ At(r, "tracked")
    /\ Go(r, IF r = SyncWorker THEN "stopped" ELSE "idle")
    /\ UNCHANGED <<played, snap, holder, db, todo, cur, seen, value, life>>

\* The worker logs the error and sleeps again; the administrator gets a 503.
TrackedFails(r) ==
    /\ At(r, "tracked")
    /\ Proceed(r, {})
    /\ UNCHANGED <<played, snap, holder, db, life>>

BeginCall(r, s) ==
    /\ At(r, "idle")
    /\ Go(r, "invalidate")
    /\ cur' = [cur EXCEPT ![r] = s]
    /\ UNCHANGED <<played, snap, holder, db, todo, seen, value, life>>

\* Mutant: an error ends the sweep.
ThrowOut(r) == Proceed(r, {})

\* An exception leaves sync_player_coaching: a sweep notes it and goes on.
Throw(r) == Proceed(r, todo[r])

----------------------------------------------------------------------------
(* sync_player_coaching.                                                   *)

\* invalidate_player_cache deletes every snapshot of the player, whatever the region.
WithoutPlayer(r) ==
    [k \in Key |-> IF Of[k[1]] = Of[cur[r]] THEN Null ELSE snap[k]]

Invalidate(r) ==
    /\ At(r, "invalidate")
    /\ snap' = WithoutPlayer(r)
    /\ Go(r, "history")
    /\ UNCHANGED <<played, holder, db, todo, cur, seen, value, life>>

\* A read of the history at hand has its answer.
Got(r, v) ==
    \/ /\ pc[r] = "history"
       /\ seen' = [seen EXCEPT ![r] = v]
       /\ value' = [value EXCEPT ![r] = 0]
       /\ Go(r, "list")
    \/ /\ pc[r] = "recent"
       /\ value' = [value EXCEPT ![r] = v]
       /\ Go(r, "save")
       /\ UNCHANGED seen

Reading(r) == life = "up" /\ pc[r] \in {"history", "recent"}
KeyAt(r) == <<cur[r], pc[r]>>

Hit(r) ==
    /\ Reading(r)
    /\ holder[KeyAt(r)] = Null
    /\ snap[KeyAt(r)] # Null
    /\ Got(r, snap[KeyAt(r)])
    /\ UNCHANGED <<played, snap, holder, db, todo, cur, life>>

Miss(r) ==
    /\ Reading(r)
    /\ holder[KeyAt(r)] = Null
    /\ snap[KeyAt(r)] = Null
    /\ holder' = [holder EXCEPT ![KeyAt(r)] = r]
    /\ value' = [value EXCEPT ![r] = played[Of[cur[r]]]]
    /\ UNCHANGED <<played, snap, db, pc, todo, cur, seen, life>>

Put(r) ==
    /\ Reading(r)
    /\ holder[KeyAt(r)] = r
    /\ holder' = [holder EXCEPT ![KeyAt(r)] = Null]
    /\ snap' = [snap EXCEPT ![KeyAt(r)] = value[r]]
    /\ Got(r, value[r])
    /\ UNCHANGED <<played, db, todo, cur, life>>

\* The lock of the key r reads is free again, if r held it.
Released(r) ==
    [k \in Key |-> IF holder[k] = r THEN Null ELSE holder[k]]

\* Mutant: a failed read counts as no history.
ReadFailsWithNothing(r) ==
    /\ Reading(r)
    /\ holder[KeyAt(r)] \in {r, Null}
    /\ holder' = Released(r)
    /\ \/ pc[r] = "history" /\ Got(r, Null) /\ UNCHANGED <<todo, cur>>
       \/ pc[r] = "recent" /\ Throw(r)
    /\ UNCHANGED <<played, snap, db, life>>

\* A provider or the store fails: the first read then counts as an empty history,
\* the second is an error.
ReadFails(r) ==
    /\ Reading(r)
    /\ holder[KeyAt(r)] \in {r, Null}
    /\ holder' = Released(r)
    /\ \/ pc[r] = "history" /\ Got(r, 0) /\ UNCHANGED <<todo, cur>>
       \/ pc[r] = "recent" /\ Throw(r)
    /\ UNCHANGED <<played, snap, db, life>>

\* list_coaching_reports, and the decision.
NewReportNeeded(r) == latest[Of[cur[r]]] = Null \/ seen[r] > 0

List(r) ==
    /\ At(r, "list")
    /\ Go(r, IF NewReportNeeded(r) /\ seen[r] > 0 THEN "recent" ELSE "mark")
    /\ UNCHANGED <<played, snap, holder, db, todo, cur, seen, value, life>>

\* The agents have written the report from the matches read; it is stored.
Save(r) ==
    /\ At(r, "save")
    /\ latest' = [latest EXCEPT ![Of[cur[r]]] = value[r]]
    /\ Go(r, "mark")
    /\ UNCHANGED <<played, snap, holder, linked, primary, marked, todo, cur, seen,
                   value, life>>

\* UPDATE linked_player_accounts ... WHERE game_name, tag_line
MarkedBy(r) ==
    [a \in Account |->
       IF a \in linked /\ Of[Identity[a]] = Of[cur[r]] THEN seen[r] ELSE marked[a]]

Mark(r) ==
    /\ At(r, "mark")
    /\ marked' = MarkedBy(r)
    /\ Proceed(r, todo[r])
    /\ UNCHANGED <<played, snap, holder, linked, primary, latest, life>>

\* Mutant: the account is marked in a finally clause.
CallFailsMarked(r) ==
    /\ life = "up"
    /\ pc[r] \in {"invalidate", "list", "save", "mark"}
    /\ marked' = MarkedBy(r)
    /\ Throw(r)
    /\ UNCHANGED <<played, snap, holder, linked, primary, latest, life>>

\* A storage call, or the agents before the save, fail.
CallFails(r) ==
    /\ life = "up"
    /\ pc[r] \in {"invalidate", "list", "save", "mark"}
    /\ Throw(r)
    /\ UNCHANGED <<played, snap, holder, db, life>>

----------------------------------------------------------------------------
(* The lifespan.                                                           *)

\* The server has answered its requests, and the application shuts down.
Shutdown ==
    /\ life = "up"
    /\ \A r \in Run \ {SyncWorker} : pc[r] = "idle"
    /\ life' = "stopSync"
    /\ UNCHANGED <<played, snap, holder, db, run>>

Stop(r) ==
    /\ Go(r, "stopped")
    /\ todo' = [todo EXCEPT ![r] = {}]
    /\ cur' = [cur EXCEPT ![r] = Null]
    /\ seen' = [seen EXCEPT ![r] = 0]
    /\ value' = [value EXCEPT ![r] = 0]

\* Mutant: the lock is taken and released by hand, without finally.
CancelSyncLocked ==
    /\ life = "stopSync" /\ pc[SyncWorker] # "stopped"
    /\ Stop(SyncWorker)
    /\ UNCHANGED <<played, snap, holder, db, life>>

\* Mutant: the worker's handler catches CancelledError with the other errors.
CancelSyncSwallowed ==
    LET r == SyncWorker IN
    /\ life = "stopSync" /\ pc[r] # "stopped"
    /\ Go(r, "sleep")
    /\ todo' = [todo EXCEPT ![r] = {}]
    /\ cur' = [cur EXCEPT ![r] = Null]
    /\ seen' = [seen EXCEPT ![r] = 0]
    /\ value' = [value EXCEPT ![r] = 0]
    /\ holder' = Released(r)
    /\ UNCHANGED <<played, snap, db, life>>

\* CancelledError reaches the sync worker at its await.  A storage call goes on in
\* its thread all the same and may take effect.
CancelSync ==
    LET r == SyncWorker IN
    /\ life = "stopSync" /\ pc[r] # "stopped"
    /\ Stop(r)
    /\ holder' = Released(r)
    /\ \/ UNCHANGED <<snap, marked, latest>>
       \/ /\ pc[r] = "invalidate"
          /\ snap' = WithoutPlayer(r)
          /\ UNCHANGED <<marked, latest>>
       \/ /\ pc[r] \in {"history", "recent"} /\ holder[KeyAt(r)] = r
          /\ snap' = [snap EXCEPT ![KeyAt(r)] = value[r]]
          /\ UNCHANGED <<marked, latest>>
       \/ /\ pc[r] = "save"
          /\ latest' = [latest EXCEPT ![Of[cur[r]]] = value[r]]
          /\ UNCHANGED <<snap, marked>>
       \/ /\ pc[r] = "mark"
          /\ marked' = MarkedBy(r)
          /\ UNCHANGED <<snap, latest>>
    /\ UNCHANGED <<played, linked, primary, life>>

SyncStopped ==
    /\ life = "stopSync" /\ pc[SyncWorker] = "stopped"
    /\ life' = "stopPrune"
    /\ UNCHANGED <<played, snap, holder, db, run>>

\* The prune worker, cancelled and awaited.  What it deletes is no live snapshot, so
\* nothing here depends on what it was doing.
PruneStopped ==
    /\ life = "stopPrune"
    /\ life' = "closing"
    /\ UNCHANGED <<played, snap, holder, db, run>>

\* service.close()
Close ==
    /\ life = "closing"
    /\ life' = "closed"
    /\ UNCHANGED <<played, snap, holder, db, run>>

\* All that a process had in memory is gone.
MemoryLost ==
    /\ holder' = [k \in Key |-> Null]
    /\ pc' = [r \in Run |-> Rest(r)]
    /\ todo' = [r \in Run |-> {}]
    /\ cur' = [r \in Run |-> Null]
    /\ seen' = [r \in Run |-> 0]
    /\ value' = [r \in Run |-> 0]

\* The process may end at any point.
Crash ==
    /\ life # "closed"
    /\ life' = "closed"
    /\ MemoryLost
    /\ UNCHANGED <<played, snap, db>>

Start ==
    /\ life = "closed"
    /\ life' = "up"
    /\ MemoryLost
    /\ UNCHANGED <<played, snap, db>>

----------------------------------------------------------------------------
(* Users, players and time.                                                *)

Link(a, isPrimary) ==
    /\ life = "up" /\ a \notin linked
    /\ linked' = linked \cup {a}
    /\ primary' = IF isPrimary
                  THEN {b \in primary : User[b] # User[a]} \cup {a} ELSE primary
    /\ marked' = [marked EXCEPT ![a] = Null]
    /\ UNCHANGED <<played, snap, holder, latest, run, life>>

Unlink(a) ==
    /\ life = "up" /\ a \in linked
    /\ linked' = linked \ {a}
    /\ primary' = primary \ {a}
    /\ marked' = [marked EXCEPT ![a] = Null]
    /\ UNCHANGED <<played, snap, holder, latest, run, life>>

Play(p) ==
    /\ played[p] < MaxPlayed[p]
    /\ played' = [played EXCEPT ![p] = @ + 1]
    /\ UNCHANGED <<snap, holder, db, run, life>>

Expire(k) ==
    /\ snap[k] # Null
    /\ snap' = [snap EXCEPT ![k] = Null]
    /\ UNCHANGED <<played, holder, db, run, life>>

----------------------------------------------------------------------------

\* The steps of a run under way.
Step(r) ==
    \/ Tracked(r) \/ TrackedFails(r) \/ Invalidate(r) \/ Put(r)
    \/ List(r) \/ Save(r) \/ Mark(r) \/ CallFails(r)

\* A read takes its turn at the lock.
Read(r) == Hit(r) \/ Miss(r) \/ ReadFails(r)

Next ==
    \/ \E r \in Sweep : BeginSweep(r)
    \/ \E r \in Caller, s \in Subject : BeginCall(r, s)
    \/ \E r \in Run : Step(r) \/ Read(r)
    \/ Shutdown \/ CancelSync \/ SyncStopped \/ PruneStopped \/ Close \/ Crash \/ Start
    \/ \E a \in Account : Link(a, TRUE) \/ Link(a, FALSE) \/ Unlink(a)
    \/ \E p \in Player : Play(p)
    \/ \E k \in Key : Expire(k)

Spec == Init /\ [][Next]_vars

\* asyncio.sleep ends, awaited calls end, with an answer or an error, and a lock is
\* granted in order of arrival, so a waiter gets its turn among any number of
\* others (SF); the lifespan goes on when what it awaits is over.
Fairness ==
    /\ WF_vars(BeginSweep(SyncWorker))
    /\ \A r \in Run : WF_vars(Step(r)) /\ SF_vars(Read(r))
    /\ WF_vars(CancelSync \/ SyncStopped \/ PruneStopped \/ Close)

FairSpec == Spec /\ Fairness
----------------------------------------------------------------------------

\* An account whose last sync found matches has a report of its player: the mark
\* is set after the report is stored, by whatever run, and never without it.
SyncedMeansReported ==
    \A a \in Account :
        marked[a] \notin {Null, 0} => latest[Of[Identity[a]]] # Null

\* A lock is held by a run that is reading its key: neither an error, nor the
\* cancellation of the worker, nor the end of the process leaves one behind.
LocksHaveReaders ==
    \A k \in Key :
        holder[k] # Null => pc[holder[k]] = k[2] /\ cur[holder[k]] = k[1]

\* No error ends the sync worker: as long as the process is up, it comes back to
\* its sleep, after a sweep that waited for the locks of others if it had to.
WorkerKeepsSweeping == <>[](life = "up") => []<>(pc[SyncWorker] = "sleep")

\* An account that stays tracked is synced again and again, however its own and
\* other accounts' syncs fail, unless the tracked accounts cannot be read.
TrackedAccountsAreSynced ==
    \A a \in Account :
        <>[](life = "up" /\ a \in primary) /\ []<><<Tracked(SyncWorker)>>_vars
            => []<>(cur[SyncWorker] = Identity[a])

\* A shutdown comes to its end: each worker stops where it is cancelled.
ShutdownCompletes == life \in {"stopSync", "stopPrune", "closing"} ~> life = "closed"
============================================================================
