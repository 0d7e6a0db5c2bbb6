---------------------- MODULE StoreTransactionsProofs ----------------------
(***************************************************************************)
(* Proofs about StoreTransactions, for any players, matches and keys and   *)
(* any number of connections.  A put writes its rows in the order of Rank  *)
(* (PutOrder), so along a chain of waiting puts the rank of the awaited    *)
(* row grows, and no chain is a cycle.                                     *)
(***************************************************************************)
EXTENDS StoreTransactions, WellFoundedInduction, TLAPS

\* Above every rank.
Top == 2 * LastPosition + 4

\* What a put has written ranks below what it has yet to write, which it takes
\* by rank; no two of its rows have one rank.
PutOrder ==
    \A k \in Key :
        /\ \A h \in held[k], r \in todo[k] : Rank(h) < Rank(r)
        /\ \A r, s \in todo[k] : Rank(r) = Rank(s) => r = s
        /\ want[k] # Null =>
              want[k] \in todo[k] /\ \A r \in todo[k] : Rank(want[k]) <= Rank(r)
        /\ want[k] = Null => todo[k] = {}

\* A deletion writes snapshots.
DeletionRows ==
    \A t \in Deletion :
        /\ todo[t] \subseteq SnapshotRows
        /\ want[t] # Null => want[t] \in todo[t]

\* A row is locked once.
Exclusive == \A t, u \in Txn : t # u => held[t] \cap held[u] = {}

IInv == TypeOK /\ PutOrder /\ DeletionRows /\ Exclusive /\ PruneTakesOnlyExpired

----------------------------------------------------------------------------
(* The rows of a put.                                                      *)

\* The rank of each kind of row, by the order of the statements in put.
LEMMA RankOf ==
    /\ \A p \in Player : Rank(PlayerRow(p)) = 0
    /\ \A m \in Match : Rank(MatchRow(m)) = 2 * Position[m] + 1
    /\ \A p \in Player, m \in Match : Rank(HistoryRow(p, m)) = 2 * Position[m] + 2
    /\ \A k \in Key : Rank(SnapshotRow(k)) = 2 * LastPosition + 3
<1>1. \A p \in Player : Rank(PlayerRow(p)) = 0
  BY DEF Rank, PlayerRow
<1>2. \A m \in Match : Rank(MatchRow(m)) = 2 * Position[m] + 1
  BY DEF Rank, MatchRow
<1>3. \A p \in Player, m \in Match : Rank(HistoryRow(p, m)) = 2 * Position[m] + 2
  BY DEF Rank, HistoryRow
<1>4. \A k \in Key : Rank(SnapshotRow(k)) = 2 * LastPosition + 3
  BY DEF Rank, SnapshotRow
<1> QED  BY <1>1, <1>2, <1>3, <1>4

\* Ranks are numbers below Top, and no row outranks a snapshot.
LEMMA RankBounds ==
    \A r \in Row :
        /\ Rank(r) \in Nat
        /\ Rank(r) < Top
        /\ \A s \in SnapshotRows : Rank(r) <= Rank(s)
<1>1. \A s \in SnapshotRows : Rank(s) = 2 * LastPosition + 3
  BY RankOf DEF SnapshotRows
<1>2. \A r \in Row : Rank(r) \in Nat /\ Rank(r) <= 2 * LastPosition + 3
  <2> SUFFICES ASSUME NEW r \in Row
               PROVE  Rank(r) \in Nat /\ Rank(r) <= 2 * LastPosition + 3
    OBVIOUS
  <2> LastPosition \in Nat /\ \A m \in Match : Position[m] \in Nat /\ Position[m] <= LastPosition
    BY StoreAssumption
  <2>1. CASE r \in PlayerRows
    BY <2>1, RankOf DEF PlayerRows
  <2>2. CASE r \in MatchRows
    <3>1. PICK m \in Match : r = MatchRow(m)
      BY <2>2 DEF MatchRows
    <3> QED  BY <3>1, RankOf
  <2>3. CASE r \in HistoryRows
    <3>1. PICK p \in Player, m \in Match : r = HistoryRow(p, m)
      BY <2>3 DEF HistoryRows
    <3> QED  BY <3>1, RankOf
  <2>4. CASE r \in SnapshotRows
    BY <2>4, <1>1
  <2> QED  BY <2>1, <2>2, <2>3, <2>4 DEF Row
<1> QED  BY <1>1, <1>2, StoreAssumption DEF Top

\* A put writes rows that exist, no two of one rank.
LEMMA WrittenRows ==
    ASSUME NEW k \in Key, NEW matches \in SUBSET Match
    PROVE  /\ Written(k, matches) \subseteq Row
           /\ Written(k, matches) # {}
           /\ \A r, s \in Written(k, matches) : Rank(r) = Rank(s) => r = s
<1>1. LastPosition \in Nat /\ \A m \in Match : Position[m] \in Nat /\ Position[m] <= LastPosition
  BY StoreAssumption
<1>2. Written(k, matches) # {}
  BY DEF Written
<1>3. CASE k \in DetailKey
  <2>1. Written(k, matches) = {SnapshotRow(k), MatchRow(DetailOf[k])}
    BY <1>3, StoreAssumption DEF Written
  <2>2. DetailOf[k] \in Match
    BY <1>3, StoreAssumption
  <2>3. Rank(MatchRow(DetailOf[k])) # Rank(SnapshotRow(k))
    BY <2>2, <1>1, RankOf
  <2> QED  BY <2>1, <2>2, <2>3, <1>2 DEF Row, SnapshotRows, MatchRows
<1>4. CASE k \notin DetailKey
  <2>1. Owner[k] \in Player
    BY <1>4, StoreAssumption DEF DetailKey
  <2>2. ASSUME NEW r \in Written(k, matches)
        PROVE  \/ r = SnapshotRow(k)
               \/ r = PlayerRow(Owner[k])
               \/ \E m \in Match : r = MatchRow(m)
               \/ \E m \in Match : r = HistoryRow(Owner[k], m)
    BY <1>4 DEF Written
  <2>3. Written(k, matches) \subseteq Row
    BY <2>1, <2>2 DEF Row, SnapshotRows, MatchRows, PlayerRows, HistoryRows
  <2>4. ASSUME NEW r \in Written(k, matches), NEW s \in Written(k, matches),
               Rank(r) = Rank(s)
        PROVE  r = s
    <3>1. \A m, n \in Match : Position[m] = Position[n] => m = n
      BY StoreAssumption
    <3>2. CASE r = SnapshotRow(k)
      BY <3>2, <2>1, <2>2, <2>4, <1>1, RankOf
    <3>3. CASE r = PlayerRow(Owner[k])
      BY <3>3, <2>1, <2>2, <2>4, <1>1, RankOf
    <3>4. ASSUME NEW m \in Match, r = MatchRow(m)
          PROVE  r = s
      BY <3>4, <3>1, <2>1, <2>2, <2>4, <1>1, RankOf
    <3>5. ASSUME NEW m \in Match, r = HistoryRow(Owner[k], m)
          PROVE  r = s
      <4>1. Rank(r) = 2 * Position[m] + 2 /\ Position[m] \in Nat /\ Position[m] <= LastPosition
        BY <3>5, <2>1, <1>1, RankOf
      <4>2. ASSUME NEW n \in Match, s = HistoryRow(Owner[k], n)
            PROVE  r = s
        <5>1. Rank(s) = 2 * Position[n] + 2 /\ Position[n] \in Nat
          BY <4>2, <2>1, <1>1, RankOf
        <5>2. Position[m] = Position[n]
          <6>1. 2 * Position[m] + 2 = 2 * Position[n] + 2
            BY <5>1, <4>1, <2>4
          <6>2. \A x, y \in Nat : 2 * x + 2 = 2 * y + 2 => x = y
            OBVIOUS
          <6> QED  BY <6>1, <6>2, <5>1, <4>1
        <5>3. m = n
          BY <5>2, <3>1
        <5> QED  BY <5>3, <4>2, <3>5
      <4>3. ASSUME NEW n \in Match, s = MatchRow(n)
            PROVE  r = s
        BY <4>3, <4>1, <2>4, <1>1, RankOf
      <4>4. s # SnapshotRow(k) /\ s # PlayerRow(Owner[k])
        BY <4>1, <2>4, <2>1, <1>1, RankOf
      <4> QED  BY <4>2, <4>3, <4>4, <2>2
    <3> QED  BY <2>2, <3>2, <3>3, <3>4, <3>5
  <2> QED  BY <2>3, <2>4, <1>2
<1> QED  BY <1>3, <1>4

----------------------------------------------------------------------------
(* The invariant is inductive.                                             *)

\* The row chosen next is one that is left, and a put chooses the lowest.
LEMMA ChoicesLeft ==
    ASSUME NEW t \in Txn, NEW S, NEW r \in Choices(t, S)
    PROVE  /\ S = {} => r = Null
           /\ S # {} => r \in S
           /\ S # {} /\ t \in Key => \A s \in S : Rank(r) <= Rank(s)
<1>1. t \in Key => t \notin Deletion
  BY StoreAssumption
<1> QED  BY <1>1 DEF Choices

\* Beginning a transaction keeps the invariant, whatever rows it is to write,
\* if they are rows of its kind.
LEMMA BeginStep ==
    ASSUME IInv, NEW t \in Txn, NEW S \in SUBSET Row, S # {}, Begin(t, S),
           t \in Deletion => S \subseteq SnapshotRows,
           t \in Key => \A r, s \in S : Rank(r) = Rank(s) => r = s
    PROVE  IInv'
<1> USE DEF IInv
<1>1. PICK w \in Choices(t, S) : want' = [want EXCEPT ![t] = w]
  BY DEF Begin
<1>2. w \in S
  BY <1>1, ChoicesLeft
<1>3. todo' = [todo EXCEPT ![t] = S] /\ held' = held /\ held[t] = {}
      /\ rows' = rows /\ expired' = expired
  BY DEF Begin, Running
<1>4. TypeOK'
  BY <1>1, <1>2, <1>3 DEF TypeOK
<1>5. w # Null
  BY <1>2, StoreAssumption
<1>6. PutOrder'
  <2> SUFFICES ASSUME NEW k \in Key
               PROVE  /\ \A h \in held'[k], r \in todo'[k] : Rank(h) < Rank(r)
                      /\ \A r, s \in todo'[k] : Rank(r) = Rank(s) => r = s
                      /\ want'[k] # Null =>
                            /\ want'[k] \in todo'[k]
                            /\ \A r \in todo'[k] : Rank(want'[k]) <= Rank(r)
                      /\ want'[k] = Null => todo'[k] = {}
    BY DEF PutOrder
  <2>0. k \in Txn
    BY DEF Txn
  <2>1. CASE k = t
    <3>1. want'[k] = w /\ todo'[k] = S /\ held'[k] = {}
      BY <2>0, <2>1, <1>1, <1>3 DEF TypeOK
    <3> QED  BY <3>1, <2>1, <1>2, <1>5, ChoicesLeft
  <2>2. CASE k # t
    <3>1. want'[k] = want[k] /\ todo'[k] = todo[k] /\ held'[k] = held[k]
      BY <2>0, <2>2, <1>1, <1>3 DEF TypeOK
    <3> QED  BY <3>1 DEF PutOrder
  <2> QED  BY <2>1, <2>2
<1>7. DeletionRows'
  BY <1>1, <1>2, <1>3 DEF DeletionRows, TypeOK, Txn
<1>8. Exclusive' /\ PruneTakesOnlyExpired'
  BY <1>3 DEF Exclusive, PruneTakesOnlyExpired
<1> QED  BY <1>4, <1>6, <1>7, <1>8

\* A statement keeps it, whether it writes its row or leaves it.
LEMMA AdvanceStep ==
    ASSUME IInv, NEW t \in Txn, want[t] # Null, NEW W \in SUBSET {want[t]},
           Advance(t, W), W # {} => Free(t, want[t]),
           W # {} /\ t \in Prune => want[t] \in expired
    PROVE  IInv'
<1> USE DEF IInv
<1> DEFINE left == todo[t] \ {want[t]}
<1>1. PICK w \in Choices(t, left) : want' = [want EXCEPT ![t] = w]
  BY DEF Advance
<1>2. todo' = [todo EXCEPT ![t] = left] /\ held' = [held EXCEPT ![t] = @ \cup W]
      /\ rows' = rows /\ expired' = expired
  BY DEF Advance
<1>3. want[t] \in todo[t] /\ left \in SUBSET Row /\ Null \notin left
  BY StoreAssumption DEF PutOrder, DeletionRows, TypeOK, Txn
<1>4. (left = {} => w = Null) /\ (left # {} => w \in left /\ w # Null)
  BY <1>1, <1>3, ChoicesLeft
<1>5. TypeOK'
  BY <1>1, <1>2, <1>3, <1>4 DEF TypeOK
<1>6. PutOrder'
  <2> SUFFICES ASSUME NEW k \in Key
               PROVE  /\ \A h \in held'[k], r \in todo'[k] : Rank(h) < Rank(r)
                      /\ \A r, s \in todo'[k] : Rank(r) = Rank(s) => r = s
                      /\ want'[k] # Null =>
                            /\ want'[k] \in todo'[k]
                            /\ \A r \in todo'[k] : Rank(want'[k]) <= Rank(r)
                      /\ want'[k] = Null => todo'[k] = {}
    BY DEF PutOrder
  <2>0. k \in Txn
    BY DEF Txn
  <2>1. CASE k = t
    <3>1. want'[k] = w /\ todo'[k] = left /\ held'[k] = held[t] \cup W
      BY <2>0, <2>1, <1>1, <1>2 DEF TypeOK
    <3>2. \A r \in left : Rank(want[t]) < Rank(r)
      <4> SUFFICES ASSUME NEW r \in left
                   PROVE  Rank(want[t]) < Rank(r)
        OBVIOUS
      <4>1. Rank(want[t]) <= Rank(r) /\ Rank(want[t]) # Rank(r)
        BY <2>1, <1>3 DEF PutOrder
      <4>2. Rank(want[t]) \in Nat /\ Rank(r) \in Nat
        BY <1>3, RankBounds DEF TypeOK
      <4> QED  BY <4>1, <4>2
    <3>3. \A h \in held[t] \cup W, r \in left : Rank(h) < Rank(r)
      BY <3>2, <2>1 DEF PutOrder
    <3>4. \A r, s \in left : Rank(r) = Rank(s) => r = s
      BY <2>1 DEF PutOrder
    <3>5. left # {} => \A r \in left : Rank(w) <= Rank(r)
      BY <2>1, ChoicesLeft
    <3> QED  BY <3>1, <3>3, <3>4, <3>5, <1>4
  <2>2. CASE k # t
    <3>1. want'[k] = want[k] /\ todo'[k] = todo[k] /\ held'[k] = held[k]
      BY <2>0, <2>2, <1>1, <1>2 DEF TypeOK
    <3> QED  BY <3>1 DEF PutOrder
  <2> QED  BY <2>1, <2>2
<1>7. DeletionRows'
  BY <1>1, <1>2, <1>4 DEF DeletionRows, TypeOK, Txn
<1>8. Exclusive'
  <2> SUFFICES ASSUME NEW u \in Txn, NEW v \in Txn, u # v
               PROVE  held'[u] \cap held'[v] = {}
    BY DEF Exclusive
  <2>1. \A x \in Txn : held'[x] = IF x = t THEN held[x] \cup W ELSE held[x]
    BY <1>2 DEF TypeOK
  <2>2. \A x \in Txn : x # t => W \cap held[x] = {}
    BY DEF Free
  <2> QED  BY <2>1, <2>2 DEF Exclusive
<1>9. PruneTakesOnlyExpired'
  <2>1. \A u \in Prune : held'[u] = IF u = t THEN held[t] \cup W ELSE held[u]
    BY <1>2 DEF TypeOK, Txn, Deletion
  <2> QED  BY <2>1, <1>2 DEF PruneTakesOnlyExpired
<1> QED  BY <1>5, <1>6, <1>7, <1>8, <1>9

\* The end of a transaction keeps it, if what it does to the rows keeps their
\* type and nothing that a prune holds is renewed.
LEMMA EndStep ==
    ASSUME IInv, NEW t \in Txn, End(t),
           (rows \in SUBSET (PlayerRows \cup SnapshotRows))',
           (expired \in SUBSET (rows \cap SnapshotRows))',
           \A r \in expired : r \notin expired' => r \in held[t]
    PROVE  IInv'
<1> USE DEF IInv
<1>1. \A u \in Txn : /\ todo'[u] = IF u = t THEN {} ELSE todo[u]
                     /\ want'[u] = IF u = t THEN Null ELSE want[u]
                     /\ held'[u] = IF u = t THEN {} ELSE held[u]
  BY DEF End, TypeOK
<1>2. TypeOK'
  BY DEF End, TypeOK
<1>3. PutOrder'
  <2> SUFFICES ASSUME NEW k \in Key
               PROVE  /\ \A h \in held'[k], r \in todo'[k] : Rank(h) < Rank(r)
                      /\ \A r, s \in todo'[k] : Rank(r) = Rank(s) => r = s
                      /\ want'[k] # Null =>
                            /\ want'[k] \in todo'[k]
                            /\ \A r \in todo'[k] : Rank(want'[k]) <= Rank(r)
                      /\ want'[k] = Null => todo'[k] = {}
    BY DEF PutOrder
  <2>0. k \in Txn
    BY DEF Txn
  <2> QED  BY <2>0, <1>1 DEF PutOrder
<1>4. DeletionRows'
  BY <1>1 DEF DeletionRows, Txn
<1>5. Exclusive'
  BY <1>1 DEF Exclusive
<1>6. PruneTakesOnlyExpired'
  <2>1. Prune \subseteq Txn
    BY DEF Txn, Deletion
  <2> QED  BY <2>1, <1>1 DEF Exclusive, PruneTakesOnlyExpired
<1> QED  BY <1>2, <1>3, <1>4, <1>5, <1>6

\* Nothing is running at first.
LEMMA InitIInv == Init => IInv
BY DEF Init, IInv, TypeOK, PutOrder, DeletionRows, Exclusive,
       PruneTakesOnlyExpired, Txn, Deletion

\* Every step of every transaction keeps the invariant.
LEMMA Invariance == IInv /\ [Next]_vars => IInv'
<1> SUFFICES ASSUME IInv, [Next]_vars
             PROVE  IInv'
  OBVIOUS
<1> USE DEF IInv
<1>0. /\ \A t \in Txn : t \in Key => t \notin Deletion
      /\ Prune \subseteq Deletion /\ Deletion \subseteq Txn /\ Key \subseteq Txn
      /\ Invalidation \subseteq Deletion /\ Prune \cap Invalidation = {}
  BY StoreAssumption DEF Txn, Deletion
<1>1. ASSUME NEW k \in Key, NEW matches \in SUBSET Match, BeginPut(k, matches)
      PROVE  IInv'
  <2>1. Begin(k, Written(k, matches))
    BY <1>1 DEF BeginPut
  <2> QED  BY <2>1, <1>0, WrittenRows, BeginStep
<1>2. ASSUME NEW t \in Invalidation, NEW p \in Player, BeginInvalidate(t, p)
      PROVE  IInv'
  <2> DEFINE found == {SnapshotRow(k) : k \in {j \in Key : Owner[j] = p}} \cap rows
  <2>1. Begin(t, found) /\ found # {}
    BY <1>2 DEF BeginInvalidate
  <2>2. found \subseteq SnapshotRows /\ found \subseteq Row
    BY DEF SnapshotRows, Row
  <2> QED  BY <2>1, <2>2, <1>0, BeginStep
<1>3. ASSUME NEW t \in Prune, BeginPrune(t)
      PROVE  IInv'
  <2>1. Begin(t, expired) /\ expired # {}
    BY <1>3 DEF BeginPrune
  <2>2. expired \subseteq SnapshotRows /\ expired \subseteq Row
    BY DEF TypeOK, Row
  <2> QED  BY <2>1, <2>2, <1>0, BeginStep
<1>4. ASSUME NEW t \in Txn, Skip(t)
      PROVE  IInv'
  <2>1. want[t] # Null /\ Advance(t, {})
    BY <1>4 DEF Skip
  <2> QED  BY <2>1, AdvanceStep
<1>5. ASSUME NEW t \in Txn, Write(t)
      PROVE  IInv'
  <2>1. want[t] # Null /\ Free(t, want[t]) /\ Advance(t, {want[t]}) /\ ~Gone(t, want[t])
    BY <1>5 DEF Write
  <2>2. t \in Prune => want[t] \in expired
    BY <2>1, <1>0 DEF Gone
  <2> QED  BY <2>1, <2>2, AdvanceStep
<1>6. ASSUME NEW t \in Txn, Rollback(t) \/ BreakDeadlock(t)
      PROVE  IInv'
  <2>1. End(t) /\ rows' = rows /\ expired' = expired
    BY <1>6 DEF Rollback, BreakDeadlock
  <2> QED  BY <2>1, EndStep DEF TypeOK
<1>7. ASSUME NEW k \in Key, CommitPut(k)
      PROVE  IInv'
  <2>1. End(k) /\ rows' = rows \cup (held[k] \cap (PlayerRows \cup SnapshotRows))
        /\ expired' = expired \ held[k]
    BY <1>7 DEF CommitPut
  <2>2. /\ (rows \in SUBSET (PlayerRows \cup SnapshotRows))'
        /\ (expired \in SUBSET (rows \cap SnapshotRows))'
    BY <2>1 DEF TypeOK
  <2> QED  BY <2>1, <2>2, <1>0, EndStep
<1>8. ASSUME NEW t \in Deletion, CommitDeletion(t)
      PROVE  IInv'
  <2>1. End(t) /\ rows' = rows \ held[t] /\ expired' = expired \ held[t]
    BY <1>8 DEF CommitDeletion
  <2>2. /\ (rows \in SUBSET (PlayerRows \cup SnapshotRows))'
        /\ (expired \in SUBSET (rows \cap SnapshotRows))'
    BY <2>1 DEF TypeOK
  <2> QED  BY <2>1, <2>2, <1>0, EndStep
<1>9. ASSUME NEW r \in SnapshotRows, Expire(r)
      PROVE  IInv'
  <2>1. TypeOK'
    BY <1>9 DEF Expire, TypeOK
  <2> QED  BY <2>1, <1>9 DEF Expire, PutOrder, DeletionRows, Exclusive,
                             PruneTakesOnlyExpired
<1>10. CASE UNCHANGED vars
  BY <1>10 DEF vars, TypeOK, PutOrder, DeletionRows, Exclusive,
               PruneTakesOnlyExpired
<1> QED  BY <1>1, <1>2, <1>3, <1>4, <1>5, <1>6, <1>7, <1>8, <1>9, <1>10 DEF Next

----------------------------------------------------------------------------
(* What follows from it.                                                   *)

\* A put that another put waits for waits for a row of higher rank itself, so
\* puts that wait for one another would climb for ever.
LEMMA OrderPreventsDeadlock == IInv => NoPutDeadlock
<1> SUFFICES ASSUME IInv, NEW D \in SUBSET Key, Stuck(D)
             PROVE  FALSE
  BY DEF NoPutDeadlock
<1> USE DEF IInv
<1> DEFINE Room(t) == Top - Rank(want[t])
           Rooms == {Room(t) : t \in D}
<1>1. Top \in Nat
  BY StoreAssumption DEF Top
<1>2. \A t \in D : want[t] \in Row /\ Room(t) \in Nat
  <2> SUFFICES ASSUME NEW t \in D
               PROVE  want[t] \in Row /\ Room(t) \in Nat
    OBVIOUS
  <2>1. want[t] \in Row
    BY DEF Stuck, TypeOK, Txn
  <2> QED  BY <2>1, <1>1, RankBounds
<1>3. \A t \in D : \E u \in D : Room(u) < Room(t)
  <2> SUFFICES ASSUME NEW t \in D
               PROVE  \E u \in D : Room(u) < Room(t)
    OBVIOUS
  <2>1. PICK u \in D : want[t] \in held[u]
    BY DEF Stuck
  <2>2. want[u] \in todo[u]
    BY <1>2, StoreAssumption DEF PutOrder
  <2>3. Rank(want[t]) < Rank(want[u])
    BY <2>1, <2>2 DEF PutOrder
  <2>4. Rank(want[t]) \in Nat /\ Rank(want[u]) \in Nat
    BY <1>2, RankBounds
  <2> QED  BY <2>3, <2>4, <1>1
<1>4. Rooms \subseteq Nat /\ Rooms # {}
  BY <1>2 DEF Stuck
<1>5. PICK x \in Rooms : \A y \in Rooms : ~(<<y, x>> \in OpToRel(<, Nat))
  <2> HIDE DEF Rooms
  <2> QED  BY <1>4, NatLessThanWellFounded, WFMin
<1>6. \A y \in Rooms : ~(y < x)
  BY <1>4, <1>5 DEF OpToRel
<1> QED  BY <1>3, <1>6

\* A put that holds its snapshot has nothing left to wait for.
LEMMA OrderKeepsPutsOut == IInv => DeadlocksAmongDeletions
<1> SUFFICES ASSUME IInv, NEW D \in SUBSET Txn, Stuck(D)
             PROVE  Stuck(D \cap Deletion)
  BY DEF DeadlocksAmongDeletions
<1> USE DEF IInv
<1>1. \A t \in D : want[t] \in Row
  BY DEF Stuck, TypeOK
<1>2. ASSUME NEW t \in D \cap Deletion, NEW u \in D, want[t] \in held[u]
      PROVE  u \in Deletion
  <2> SUFFICES ASSUME u \in Key
               PROVE  FALSE
    BY DEF Txn
  <2>1. want[t] \in SnapshotRows
    BY <1>1, StoreAssumption DEF DeletionRows
  <2>2. want[u] \in todo[u] /\ want[u] \in Row
    BY <1>1, StoreAssumption DEF PutOrder
  <2>3. Rank(want[t]) < Rank(want[u])
    BY <1>2, <2>2 DEF PutOrder
  <2>4. Rank(want[u]) <= Rank(want[t])
    BY <2>1, <2>2, RankBounds
  <2>5. Rank(want[u]) \in Nat /\ Rank(want[t]) \in Nat
    BY <1>1, RankBounds
  <2> QED  BY <2>3, <2>4, <2>5
<1>3. D \cap Deletion # {}
  <2> SUFFICES ASSUME D \in SUBSET Key
               PROVE  FALSE
    BY DEF Txn
  <2> QED  BY OrderPreventsDeadlock DEF NoPutDeadlock
<1> QED  BY <1>2, <1>3 DEF Stuck

----------------------------------------------------------------------------

\* The variables of the transactions keep their types.
THEOREM TypeCorrect == Spec => []TypeOK
<1>1. IInv => TypeOK
  BY DEF IInv
<1> QED  BY <1>1, InitIInv, Invariance, PTL DEF Spec

\* put's order of writes excludes deadlocks among puts: any number of them, for
\* any players that share any matches.
THEOREM NoPutDeadlockHolds == Spec => []NoPutDeadlock
BY InitIInv, Invariance, OrderPreventsDeadlock, PTL DEF Spec

\* With prune and invalidate_player_cache running too, only they can deadlock.
THEOREM DeadlocksAmongDeletionsHolds == Spec => []DeadlocksAmongDeletions
BY InitIInv, Invariance, OrderKeepsPutsOut, PTL DEF Spec

\* Prune deletes no snapshot that a put has renewed.
THEOREM PruneTakesOnlyExpiredHolds == Spec => []PruneTakesOnlyExpired
<1>1. IInv => PruneTakesOnlyExpired
  BY DEF IInv
<1> QED  BY <1>1, InitIInv, Invariance, PTL DEF Spec
============================================================================
