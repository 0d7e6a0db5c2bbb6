---------------------------- MODULE PlayerCache ----------------------------
(***************************************************************************)
(* The read-through snapshot cache in front of the VALORANT data           *)
(* providers: PersistentPlayerService._cached, its callers, and the four   *)
(* operations of SQLPlayerStore on the player_snapshots table.             *)
(*                                                                         *)
(* Requests are coroutines of one process.  A request takes the asyncio    *)
(* lock of its key, reads the snapshot, and on a miss calls the providers  *)
(* and stores their answer; every await in between lets other coroutines   *)
(* and the prune worker run.  Data is abstracted to the number of the      *)
(* provider call that produced it: value n comes from the n-th call.       *)
(***************************************************************************)
EXTENDS Naturals, Sequences

CONSTANTS
    Request,        \* callers of _cached; each asks for one key, again and again
    Key,            \* request keys: hashes of an operation and its parameters
    Player,         \* player identities (game name and tag line)
    Null,
    KeyOf,          \* KeyOf[r] is the key request r asks for
    Owner,          \* Owner[k] is the player of key k, Null for a match detail
    TTL,            \* lifetime of a snapshot, in clock ticks
    MaxClock,       \* bound on the clock
    MaxArrivals     \* bound on the number of calls of _cached

Snapshot == [val : Nat, expires : Nat, valid : BOOLEAN]

ASSUME PlayerCacheAssumption ==
    /\ Null \notin Player \cup Nat \cup Snapshot
    /\ KeyOf \in [Request -> Key]
    /\ Owner \in [Key -> Player \cup {Null}]
    /\ TTL \in Nat
    /\ MaxClock \in Nat
    /\ MaxArrivals \in Nat

VARIABLES
    clock,      \* the database's and the service's UTC time
    pc,         \* where each request is in _cached
    queue,      \* _locks: the requests at the lock of a key, its holder first
    val,        \* the value a request holds: the number of a provider call
    stamp,      \* "now" as put read it, before its transaction
    snap,       \* player_snapshots, by key
    detail,     \* matches.detail: the last stored match detail, if any
    calls,      \* how many provider calls have begun
    arrivals,   \* how many requests have arrived
    past,       \* history: per key, what has been served and purged so far
    since       \* history: past of its key when the request arrived

vars == <<clock, pc, queue, val, stamp, snap, detail, calls, arrivals,
          past, since>>

MatchKey == {k \in Key : Owner[k] = Null}

\* served: the newest value a finished request returned; purged: the newest
\* value an invalidation deleted; begun: the calls begun at the last one.
History == [served : Nat, purged : Nat, begun : Nat]

NoHistory == [served |-> 0, purged |-> 0, begun |-> 0]

PC == {"idle", "wait", "fetch", "write", "done", "failed"}

TypeOK ==
    /\ clock \in Nat
    /\ pc \in [Request -> PC]
    /\ queue \in [Key -> Seq(Request)]
    /\ val \in [Request -> Nat]
    /\ stamp \in [Request -> Nat]
    /\ snap \in [Key -> Snapshot \cup {Null}]
    /\ detail \in [Key -> Nat \cup {Null}]
    /\ calls \in Nat
    /\ arrivals \in Nat
    /\ past \in [Key -> History]
    /\ since \in [Request -> History]

Init ==
    /\ clock = 0
    /\ pc = [r \in Request |-> "idle"]
    /\ queue = [k \in Key |-> <<>>]
    /\ val = [r \in Request |-> 0]
    /\ stamp = [r \in Request |-> 0]
    /\ snap = [k \in Key |-> Null]
    /\ detail = [k \in Key |-> Null]
    /\ calls = 0
    /\ arrivals = 0
    /\ past = [k \in Key |-> NoHistory]
    /\ since = [r \in Request |-> NoHistory]

----------------------------------------------------------------------------
(* What SQLPlayerStore.get answers.                                        *)

Live(k) == snap[k] # Null /\ snap[k].expires > clock

\* A live row whose payload the current schema rejects is refreshed.
Usable(k) == Live(k) /\ snap[k].valid

----------------------------------------------------------------------------
(* One call of _cached by request r.                                       *)

\* Mutant: no lock, any waiter may go on.
AtHeadWithoutLock(r) == queue[KeyOf[r]] # <<>>

AtHead(r) == queue[KeyOf[r]] # <<>> /\ Head(queue[KeyOf[r]]) = r

Waiting(r) == pc[r] = "wait" /\ AtHead(r)

\* Leaving "async with lock": the lock passes to the next waiter.
Release(r) == queue' = [queue EXCEPT ![KeyOf[r]] = Tail(@)]

Return(r, v) ==
    /\ pc' = [pc EXCEPT ![r] = "done"]
    /\ val' = [val EXCEPT ![r] = v]
    /\ stamp' = [stamp EXCEPT ![r] = 0]
    /\ past' = [past EXCEPT ![KeyOf[r]].served = v]
    /\ Release(r)

\* Mutant: an exception leaves the lock held.
RaiseHoldingLock(r) ==
    /\ pc' = [pc EXCEPT ![r] = "failed"]
    /\ val' = [val EXCEPT ![r] = 0]
    /\ stamp' = [stamp EXCEPT ![r] = 0]
    /\ UNCHANGED <<queue, past>>

Raise(r) ==
    /\ pc' = [pc EXCEPT ![r] = "failed"]
    /\ val' = [val EXCEPT ![r] = 0]
    /\ stamp' = [stamp EXCEPT ![r] = 0]
    /\ Release(r)
    /\ UNCHANGED past

Arrive(r) ==
    /\ pc[r] \in {"idle", "done", "failed"}
    /\ arrivals < MaxArrivals
    /\ arrivals' = arrivals + 1
    /\ pc' = [pc EXCEPT ![r] = "wait"]
    /\ queue' = [queue EXCEPT ![KeyOf[r]] = Append(@, r)]
    /\ val' = [val EXCEPT ![r] = 0]
    /\ since' = [since EXCEPT ![r] = past[KeyOf[r]]]
    /\ UNCHANGED <<clock, stamp, snap, detail, calls, past>>

\* store.get found a row that is neither expired nor rejected.
Hit(r) ==
    /\ Waiting(r)
    /\ Usable(KeyOf[r])
    /\ Return(r, snap[KeyOf[r]].val)
    /\ UNCHANGED <<clock, snap, detail, calls, arrivals, since>>

\* Mutant: a waiter that gets the lock does not read the snapshot again.
MissWithoutRecheck(r) ==
    /\ Waiting(r)
    /\ calls' = calls + 1
    /\ val' = [val EXCEPT ![r] = calls + 1]
    /\ pc' = [pc EXCEPT ![r] = "fetch"]
    /\ UNCHANGED <<clock, queue, stamp, snap, detail, arrivals, past,
                   since>>

\* No usable row: the provider call begins.
Miss(r) ==
    /\ Waiting(r)
    /\ ~Usable(KeyOf[r])
    /\ calls' = calls + 1
    /\ val' = [val EXCEPT ![r] = calls + 1]
    /\ pc' = [pc EXCEPT ![r] = "fetch"]
    /\ UNCHANGED <<clock, queue, stamp, snap, detail, arrivals, past,
                   since>>

GetFails(r) ==
    /\ Waiting(r)
    /\ Raise(r)
    /\ UNCHANGED <<clock, snap, detail, calls, arrivals, since>>

\* The provider answered; put starts and reads the time.
FetchReturns(r) ==
    /\ pc[r] = "fetch"
    /\ pc' = [pc EXCEPT ![r] = "write"]
    /\ stamp' = [stamp EXCEPT ![r] = clock]
    /\ UNCHANGED <<clock, queue, val, snap, detail, calls, arrivals,
                   past, since>>

\* Mutant: the fallback returns what get_match_record found, or did not.
FetchFallsBackToNothing(r) ==
    /\ pc[r] = "fetch"
    /\ KeyOf[r] \in MatchKey
    /\ pc' = [pc EXCEPT ![r] = "write"]
    /\ val' = [val EXCEPT ![r] = detail[KeyOf[r]]]
    /\ stamp' = [stamp EXCEPT ![r] = clock]
    /\ UNCHANGED <<clock, queue, snap, detail, calls, arrivals, past,
                   since>>

\* get_match only: Riot is unavailable and the stored detail stands in for it.
FetchFallsBack(r) ==
    /\ pc[r] = "fetch"
    /\ KeyOf[r] \in MatchKey
    /\ detail[KeyOf[r]] # Null
    /\ pc' = [pc EXCEPT ![r] = "write"]
    /\ val' = [val EXCEPT ![r] = detail[KeyOf[r]]]
    /\ stamp' = [stamp EXCEPT ![r] = clock]
    /\ UNCHANGED <<clock, queue, snap, detail, calls, arrivals, past,
                   since>>

\* Every provider failed, or the fallback's own storage call did.
FetchFails(r) ==
    /\ pc[r] = "fetch"
    /\ Raise(r)
    /\ UNCHANGED <<clock, snap, detail, calls, arrivals, since>>

\* Mutant: the match row is inserted once and never updated.
PutCommitsFirstDetail(r) ==
    LET k == KeyOf[r] IN
    /\ pc[r] = "write"
    /\ snap' = [snap EXCEPT ![k] =
                  [val |-> val[r], expires |-> stamp[r] + TTL, valid |-> TRUE]]
    /\ detail' = IF k \in MatchKey /\ detail[k] = Null
                 THEN [detail EXCEPT ![k] = val[r]] ELSE detail
    /\ Return(r, val[r])
    /\ UNCHANGED <<clock, calls, arrivals, since>>

\* put's transaction commits; a match detail is kept outside the snapshot too.
PutCommits(r) ==
    LET k == KeyOf[r] IN
    /\ pc[r] = "write"
    /\ snap' = [snap EXCEPT ![k] =
                  [val |-> val[r], expires |-> stamp[r] + TTL, valid |-> TRUE]]
    /\ detail' = IF k \in MatchKey THEN [detail EXCEPT ![k] = val[r]] ELSE detail
    /\ Return(r, val[r])
    /\ UNCHANGED <<clock, calls, arrivals, since>>

\* The transaction rolls back: the fetched value is lost to the caller too.
PutFails(r) ==
    /\ pc[r] = "write"
    /\ Raise(r)
    /\ UNCHANGED <<clock, snap, detail, calls, arrivals, since>>

----------------------------------------------------------------------------
(* The other operations on the table.  None of them takes a key's lock.    *)

\* Mutant: the deletion also asks for expires_at <= now.
InvalidateExpired(p) ==
    /\ snap' = [k \in Key |-> IF Owner[k] = p /\ ~Live(k) THEN Null ELSE snap[k]]
    /\ past' = [k \in Key |->
                  IF Owner[k] # p THEN past[k]
                  ELSE [past[k] EXCEPT
                          !.begun = calls,
                          !.purged = IF snap[k] = Null THEN @ ELSE snap[k].val]]
    /\ UNCHANGED <<clock, pc, queue, val, stamp, detail, calls,
                   arrivals, since>>

\* DELETE ... WHERE player_id = p
Invalidate(p) ==
    /\ snap' = [k \in Key |-> IF Owner[k] = p THEN Null ELSE snap[k]]
    /\ past' = [k \in Key |->
                  IF Owner[k] # p THEN past[k]
                  ELSE [past[k] EXCEPT
                          !.begun = calls,
                          !.purged = IF snap[k] = Null THEN @ ELSE snap[k].val]]
    /\ UNCHANGED <<clock, pc, queue, val, stamp, detail, calls,
                   arrivals, since>>

\* Mutant: the deletion asks for observed_at <= now.
PruneObserved(now) ==
    /\ snap' = [k \in Key |->
                  IF snap[k] # Null /\ snap[k].expires <= now + TTL THEN Null
                  ELSE snap[k]]
    /\ UNCHANGED <<clock, pc, queue, val, stamp, detail, calls, arrivals, past,
                   since>>

\* prune_expired_snapshots reads the time and deletes later, for the worker and for
\* administrators at once; a statement sent before a crash may still be carried out.
Prune(now) ==
    /\ snap' = [k \in Key |->
                  IF snap[k] # Null /\ snap[k].expires <= now THEN Null
                  ELSE snap[k]]
    /\ UNCHANGED <<clock, pc, queue, val, stamp, detail, calls, arrivals, past,
                   since>>

Tick ==
    /\ clock < MaxClock
    /\ clock' = clock + 1
    /\ UNCHANGED <<pc, queue, val, stamp, snap, detail, calls,
                   arrivals, past, since>>

\* The process stops, at any point, and starts again: requests and locks are
\* gone, the table stays.  A new release may reject payloads of the old one.
Restart(rejected) ==
    /\ pc' = [r \in Request |-> "idle"]
    /\ queue' = [k \in Key |-> <<>>]
    /\ val' = [r \in Request |-> 0]
    /\ stamp' = [r \in Request |-> 0]
    /\ since' = [r \in Request |-> NoHistory]
    /\ snap' = [k \in Key |->
                  IF snap[k] = Null THEN Null
                  ELSE [snap[k] EXCEPT !.valid = k \notin rejected]]
    /\ UNCHANGED <<clock, detail, calls, arrivals, past>>

----------------------------------------------------------------------------

Get(r) == Hit(r) \/ Miss(r) \/ GetFails(r)
Fetch(r) == FetchReturns(r) \/ FetchFallsBack(r) \/ FetchFails(r)
Put(r) == PutCommits(r) \/ PutFails(r)

Next ==
    \/ \E r \in Request : Arrive(r) \/ Get(r) \/ Fetch(r) \/ Put(r)
    \/ \E p \in Player : Invalidate(p)
    \/ \E now \in 0..clock : Prune(now)
    \/ Tick
    \/ \E rejected \in SUBSET Key : Restart(rejected)

Spec == Init /\ [][Next]_vars

\* The event loop resumes a coroutine whose await is over; a provider call ends
\* because its HTTP client has a timeout and a bounded number of retries; a
\* storage call ends.  Nothing obliges callers, workers or the clock to act.
Fairness == \A r \in Request : WF_vars(Get(r)) /\ WF_vars(Fetch(r)) /\ WF_vars(Put(r))

FairSpec == Spec /\ Fairness
----------------------------------------------------------------------------
(* What the cache promises.                                                *)

InFlight(r) == pc[r] \in {"fetch", "write"}

\* Concurrent requests for one key share one provider call: at most one of them
\* is between its miss and its commit (the lock of _cached).
SingleFlight ==
    \A r, s \in Request :
        InFlight(r) /\ InFlight(s) /\ KeyOf[r] = KeyOf[s] => r = s

\* A request never returns an older value than one that another request for the
\* key had returned before it arrived: not after an expiry, an invalidation, a
\* restart, or when a stored match detail stands in for Riot.
ReadsNeverGoBack ==
    \A r \in Request : pc[r] = "done" => val[r] >= since[r].served

\* A value that an invalidation deleted is not returned to a request that
\* arrives later.
PurgedNeverReturns ==
    \A r \in Request : pc[r] = "done" => val[r] > since[r].purged

\* A usable snapshot ends in three ways: it expires, an invalidation of its
\* player deletes it, or a new release rejects it.  Prune removes no row that
\* still serves and put overwrites none, though both read the clock earlier.
UsableRowsAreOnlyPurged ==
    [][\A k \in Key :
          Usable(k) /\ snap'[k] # snap[k] =>
              \/ snap'[k] = Null /\ past'[k].purged = snap[k].val
              \/ snap'[k] = [snap[k] EXCEPT !.valid = FALSE]]_vars

\* SnapshotCache says what a reader may rely on.  It knows of the table what is kept
\* and whether that serves, of a request whether it asks or renews and what it was
\* given, and of a key what was last served and purged; locks, clocks and the reads
\* and writes of an answer are its stutters.
Promise == INSTANCE SnapshotCache WITH
    Reader <- Request,
    None <- Null,
    kept <- [k \in Key |-> IF snap[k] = Null THEN Null ELSE snap[k].val],
    fresh <- {k \in Key : Usable(k)},
    at <- [r \in Request |-> IF InFlight(r) THEN "renewing"
                             ELSE IF pc[r] = "wait" THEN "asking" ELSE "out"],
    got <- [r \in Request |-> IF pc[r] = "done" THEN val[r] ELSE 0],
    newest <- [k \in Key |-> past[k].served],
    purged <- [k \in Key |-> past[k].purged]

\* The cache is one whose readers, however they interleave with each other, with
\* expiry, prune, invalidations and restarts, are given what is kept or renew it one
\* at a time, never over a value that serves; and no renewal is older than anything
\* ever given, or as old as what was purged.
KeepsPromise == Promise!Spec

\* Every request comes to an end: with a value, with an error, or with the
\* process.  No failure in between leaves its key locked.
RequestsEnd ==
    \A r \in Request :
        pc[r] \in {"wait", "fetch", "write"} ~> pc[r] \in {"idle", "done", "failed"}

\* The DELETE /players/{game_name}/{tag_line}/cache endpoint describes itself as
\* "forcing subsequent queries to fetch fresh data": a request that arrives after
\* an invalidation returns a value whose provider call began after it.
InvalidationForcesFreshData ==
    \A r \in Request :
        pc[r] = "done" /\ KeyOf[r] \notin MatchKey => val[r] > since[r].begun
============================================================================
