------------------------- MODULE StoreTransactions -------------------------
(***************************************************************************)
(* The write transactions of SQLPlayerStore under PostgreSQL's READ        *)
(* COMMITTED isolation, row by row: put, which writes a player, matches,   *)
(* the player's history and a snapshot, and the two deletions of           *)
(* snapshots, prune_expired_snapshots and invalidate_player_cache.  A      *)
(* statement locks the row it writes until its transaction ends; a second  *)
(* writer of the row waits.                                                *)
(*                                                                         *)
(* The lock of a key in _cached lets one put of that key run at a time, so *)
(* a put transaction is named by its key.                                  *)
(***************************************************************************)
EXTENDS Naturals, FiniteSets

CONSTANTS
    Key,            \* snapshot keys, and the put transaction of each
    Invalidation,   \* transactions of invalidate_player_cache
    Prune,          \* transactions of prune_expired_snapshots, the worker's and others
    Player, Match, Null,
    Owner,          \* Owner[k] is the player of key k, Null for a match detail
    ProfileKey,     \* keys of the operation "profile"
    HistoryKey,     \* keys of the operation "matches", one per player and limit
    DetailOf,       \* DetailOf[k] is the match of a detail's key
    Position,       \* order of the matches by (provider, match_id)
    LastPosition,   \* bound on Position
    PoolSize        \* connections to the database

DetailKey == {k \in Key : Owner[k] = Null}
Deletion == Invalidation \cup Prune
Txn == Key \cup Deletion

VARIABLES
    todo,       \* the rows a transaction has yet to write
    want,       \* the row it writes next, Null when none is left
    held,       \* the rows it has written and keeps locked
    rows,       \* the committed players and snapshots
    expired     \* the committed snapshots whose lifetime is over

vars == <<todo, want, held, rows, expired>>

----------------------------------------------------------------------------
(* Rows and the order in which put writes them.                            *)

PlayerRow(p) == [table |-> "players", player |-> p]
MatchRow(m) == [table |-> "matches", match |-> m]
HistoryRow(p, m) == [table |-> "history", player |-> p, match |-> m]
SnapshotRow(k) == [table |-> "snapshots", key |-> k]

PlayerRows == {PlayerRow(p) : p \in Player}
MatchRows == {MatchRow(m) : m \in Match}
HistoryRows == {HistoryRow(p, m) : p \in Player, m \in Match}
SnapshotRows == {SnapshotRow(k) : k \in Key}

Row == PlayerRows \cup MatchRows \cup HistoryRows \cup SnapshotRows

ASSUME StoreAssumption ==
    /\ Key \cap Deletion = {}
    /\ Prune \cap Invalidation = {}
    /\ Null \notin Player \cup Row
    /\ Owner \in [Key -> Player \cup {Null}]
    /\ ProfileKey \in SUBSET (Key \ DetailKey)
    /\ HistoryKey \in SUBSET (Key \ DetailKey)
    /\ ProfileKey \cap HistoryKey = {}
    /\ DetailOf \in [DetailKey -> Match]
    /\ Position \in [Match -> Nat]
    /\ \A m, n \in Match : Position[m] = Position[n] => m = n
    /\ LastPosition \in Nat
    /\ \A m \in Match : Position[m] <= LastPosition
    /\ PoolSize \in Nat

\* Mutant: no sort, so the order within a table is not fixed.
RankByTable(r) ==
    CASE r.table = "players" -> 0
      [] r.table = "matches" -> 1
      [] r.table = "history" -> 2
      [] r.table = "snapshots" -> 3

\* The player first, then per match, in the sorted order, the match and the
\* history row, the snapshot last.
Rank(r) ==
    CASE r.table = "players" -> 0
      [] r.table = "matches" -> 2 * Position[r.match] + 1
      [] r.table = "history" -> 2 * Position[r.match] + 2
      [] r.table = "snapshots" -> 2 * LastPosition + 3

\* The row that comes next when S is left.  A deletion takes its rows in the
\* order of its scan, by expiry or by place in the table: any order.
Choices(t, S) ==
    IF S = {} THEN {Null}
    ELSE IF t \in Deletion THEN S
    ELSE {r \in S : \A s \in S : Rank(r) <= Rank(s)}

Running(t) == want[t] # Null \/ held[t] # {}

TypeOK ==
    /\ todo \in [Txn -> SUBSET Row]
    /\ want \in [Txn -> Row \cup {Null}]
    /\ held \in [Txn -> SUBSET Row]
    /\ rows \in SUBSET (PlayerRows \cup SnapshotRows)
    /\ expired \in SUBSET (rows \cap SnapshotRows)

Init ==
    /\ todo = [t \in Txn |-> {}]
    /\ want = [t \in Txn |-> Null]
    /\ held = [t \in Txn |-> {}]
    /\ rows = {}
    /\ expired = {}

----------------------------------------------------------------------------
(* A transaction begins, with the rows its statements will write.          *)

Begin(t, S) ==
    /\ ~Running(t)
    /\ Cardinality({u \in Txn : Running(u)}) < PoolSize
    /\ todo' = [todo EXCEPT ![t] = S]
    /\ \E r \in Choices(t, S) : want' = [want EXCEPT ![t] = r]
    /\ UNCHANGED <<held, rows, expired>>

\* Mutant: every operation has a player.
WrittenForPlayer(k, matches) ==
    {SnapshotRow(k), PlayerRow(Owner[k])} \cup
    (IF k \in HistoryKey
     THEN {MatchRow(m) : m \in matches} \cup {HistoryRow(Owner[k], m) : m \in matches}
     ELSE {})

\* Mutant: a history is stored for every value of limit.
WrittenForEveryLimit(k, matches) ==
    (IF k \in DetailKey THEN {MatchRow(DetailOf[k])} ELSE {PlayerRow(Owner[k])}) \cup
    (IF k \in HistoryKey
     THEN {MatchRow(m) : m \in matches} \cup {HistoryRow(Owner[k], m) : m \in matches}
             \cup {SnapshotRow(j) : j \in HistoryKey}
     ELSE {SnapshotRow(k)})

\* What a put of key k writes if the providers answered with these matches.
Written(k, matches) ==
    {SnapshotRow(k)} \cup
    (IF k \in DetailKey THEN {MatchRow(DetailOf[k])} ELSE {PlayerRow(Owner[k])}) \cup
    (IF k \in HistoryKey
     THEN {MatchRow(m) : m \in matches} \cup {HistoryRow(Owner[k], m) : m \in matches}
     ELSE {})

BeginPut(k, matches) == Begin(k, Written(k, matches))

\* DELETE FROM player_snapshots WHERE player_id = p
BeginInvalidate(t, p) ==
    LET found == {SnapshotRow(k) : k \in {j \in Key : Owner[j] = p}} \cap rows IN
    found # {} /\ Begin(t, found)

\* DELETE FROM player_snapshots WHERE expires_at <= now
BeginPrune(t) == expired # {} /\ Begin(t, expired)

----------------------------------------------------------------------------
(* Its statements, row by row.                                             *)

Free(t, r) == \A u \in Txn : u # t => r \notin held[u]

\* INSERT INTO players ... ON CONFLICT DO NOTHING, for every operation but
\* "profile": a committed row is left alone and not locked.
Ignored(t, r) == t \in Key \ ProfileKey /\ r \in PlayerRows \cap rows

\* Mutant: a row is read again only to see whether it is still there.
Deleted(t, r) == t \in Deletion /\ r \notin rows

\* A deletion reads its row again when it gets it: another deletion has removed
\* it, or a put has renewed it and it no longer meets prune's condition.
Gone(t, r) ==
    /\ t \in Deletion
    /\ r \notin (IF t \in Prune THEN expired ELSE rows)

Advance(t, written) ==
    LET left == todo[t] \ {want[t]} IN
    /\ todo' = [todo EXCEPT ![t] = left]
    /\ held' = [held EXCEPT ![t] = @ \cup written]
    /\ \E r \in Choices(t, left) : want' = [want EXCEPT ![t] = r]
    /\ UNCHANGED <<rows, expired>>

Skip(t) ==
    /\ want[t] # Null
    /\ Ignored(t, want[t]) \/ (Gone(t, want[t]) /\ Free(t, want[t]))
    /\ Advance(t, {})

Write(t) ==
    /\ want[t] # Null
    /\ ~Ignored(t, want[t]) /\ ~Gone(t, want[t])
    /\ Free(t, want[t])
    /\ Advance(t, {want[t]})

----------------------------------------------------------------------------
(* It ends, and its locks with it.                                         *)

End(t) ==
    /\ todo' = [todo EXCEPT ![t] = {}]
    /\ want' = [want EXCEPT ![t] = Null]
    /\ held' = [held EXCEPT ![t] = {}]

Complete(t) == want[t] = Null /\ held[t] # {}

\* The written rows are there and the snapshot has a new expiry.  Whether a match
\* or a history row exists is not recorded: an upsert locks it either way.
CommitPut(k) ==
    /\ Complete(k)
    /\ rows' = rows \cup (held[k] \cap (PlayerRows \cup SnapshotRows))
    /\ expired' = expired \ held[k]
    /\ End(k)

CommitDeletion(t) ==
    /\ Complete(t)
    /\ rows' = rows \ held[t]
    /\ expired' = expired \ held[t]
    /\ End(t)

\* An error of the database or of the connection: everything is undone.
Rollback(t) ==
    /\ Running(t)
    /\ End(t)
    /\ UNCHANGED <<rows, expired>>

\* Everyone in D waits for a row that another of D has written.
Stuck(D) == D # {} /\ \A t \in D : \E u \in D \ {t} : want[t] \in held[u]

\* PostgreSQL's deadlock detector ends a transaction on a cycle of waiting ones:
\* one of a stuck set that has no smaller stuck set in it.
BreakDeadlock(t) ==
    /\ \E D \in SUBSET Txn :
          t \in D /\ Stuck(D) /\ \A E \in SUBSET D : Stuck(E) => E = D
    /\ End(t)
    /\ UNCHANGED <<rows, expired>>

Expire(r) ==
    /\ r \in (rows \cap SnapshotRows) \ expired
    /\ expired' = expired \cup {r}
    /\ UNCHANGED <<todo, want, held, rows>>

----------------------------------------------------------------------------

Next ==
    \/ \E k \in Key, matches \in SUBSET Match : BeginPut(k, matches)
    \/ \E t \in Invalidation, p \in Player : BeginInvalidate(t, p)
    \/ \E t \in Prune : BeginPrune(t)
    \/ \E t \in Txn : Skip(t) \/ Write(t) \/ Rollback(t) \/ BreakDeadlock(t)
    \/ \E k \in Key : CommitPut(k)
    \/ \E t \in Deletion : CommitDeletion(t)
    \/ \E r \in SnapshotRows : Expire(r)

Spec == Init /\ [][Next]_vars

----------------------------------------------------------------------------

\* "Shared match rows must acquire locks in the same order across players": no
\* set of puts can wait for one another, whatever their players and matches.
NoPutDeadlock == \A D \in SUBSET Key : ~Stuck(D)

\* A put writes one snapshot, and writes it last, so a deletion that waits for a
\* put waits for one that needs nothing more: puts are in no deadlock, and all
\* those there are, of prune and invalidate_player_cache, are among deletions.
DeadlocksAmongDeletions ==
    \A D \in SUBSET Txn : Stuck(D) => \E E \in SUBSET (D \cap Deletion) : Stuck(E)

\* A prune found its rows before it could lock them and a put may have renewed them
\* since: what it is about to delete has expired all the same.
PruneTakesOnlyExpired == \A t \in Prune : held[t] \subseteq expired
============================================================================
