---------------------------- MODULE AnalyticsProofs ----------------------------
(***************************************************************************)
(* Proofs about what the service makes of a player's matches: the replay   *)
(* of a match, and the reports, the progression and the drafts.            *)
(*                                                                         *)
(* The replay, for every team, window and payload.  The sort of the kills  *)
(* puts them in the order of their times and loses none, so that the walk  *)
(* back from a kill finds the death it avenges; and a death is avenged     *)
(* once at most, so that trades never exceed deaths.                       *)
(*                                                                         *)
(* The insights, for every catalog, table and history.  The sort of the    *)
(* matches depends on which they are and not on their order; a report has  *)
(* a line of each agent; and every term of a composition's score but that  *)
(* of the duelists grows with the composition.                             *)
(***************************************************************************)
EXTENDS Timeline, Insights, FiniteSetTheorems, SequenceTheorems, TLAPS

----------------------------------------------------------------------------
(* Sorting.  The kills of a round are numbered by how many come before.    *)

\* The place of a kill in ks.
Slots(ks) == 1..Len(ks)

\* The parts of the kills in a list.
LEMMA KillsOf ==
    ASSUME NEW ks \in Seq(Kill)
    PROVE  /\ Len(ks) \in Nat /\ DOMAIN ks = Slots(ks)
           /\ \A i \in Slots(ks) :
                 /\ ks[i] \in Kill /\ ks[i].at \in Nat
                 /\ ks[i].killer \in Player /\ ks[i].victim \in Player
<1>1. Len(ks) \in Nat /\ DOMAIN ks = Slots(ks)
  BY LenProperties DEF Slots
<1>2. \A i \in Slots(ks) : ks[i] \in Kill
  BY <1>1, ElementOfSeq DEF Slots
<1>3. Times \subseteq Nat
  BY TimelineAssumption
<1> QED  BY <1>1, <1>2, <1>3 DEF Kill

\* Before is a strict total order of the kills.
LEMMA BeforeOrders ==
    ASSUME NEW ks \in Seq(Kill), NEW i \in Slots(ks), NEW j \in Slots(ks)
    PROVE  /\ ~Before(ks, i, i)
           /\ i = j \/ Before(ks, i, j) \/ Before(ks, j, i)
           /\ \A k \in Slots(ks) : Before(ks, k, i) /\ Before(ks, i, j) => Before(ks, k, j)
<1>1. \A k \in Slots(ks) : k \in Nat /\ ks[k].at \in Nat
  BY KillsOf DEF Slots
<1> QED  BY <1>1 DEF Before

\* The kills before the one at i, and how many they are.
Earlier(ks, i) == {j \in Slots(ks) : Before(ks, j, i)}
Rank(ks, i) == Cardinality(Earlier(ks, i))

\* How many kills come before one is a place in the list.
LEMMA RankOf ==
    ASSUME NEW ks \in Seq(Kill), NEW i \in Slots(ks)
    PROVE  /\ IsFiniteSet(Earlier(ks, i))
           /\ Rank(ks, i) \in 0..(Len(ks) - 1)
<1> DEFINE D == Slots(ks)
<1>1. Len(ks) \in Nat
  BY KillsOf
<1>2. IsFiniteSet(D) /\ Cardinality(D) = Len(ks)
  <2>1. 1 \in Int /\ Len(ks) \in Int
    BY <1>1
  <2>2. /\ IsFiniteSet(1..Len(ks))
        /\ Cardinality(1..Len(ks)) = IF 1 > Len(ks) THEN 0 ELSE Len(ks) - 1 + 1
    BY <2>1, FS_Interval
  <2> QED  BY <1>1, <2>2 DEF Slots
<1>3. IsFiniteSet(D \ {i}) /\ Cardinality(D \ {i}) = Len(ks) - 1
  BY <1>2, FS_RemoveElement
<1>4. Earlier(ks, i) \in SUBSET (D \ {i})
  BY BeforeOrders DEF Earlier
<1>5. IsFiniteSet(Earlier(ks, i)) /\ Rank(ks, i) <= Len(ks) - 1
  BY <1>3, <1>4, FS_Subset DEF Rank
<1>6. Rank(ks, i) \in Nat
  BY <1>5, FS_CardinalityType DEF Rank
<1> QED  BY <1>1, <1>5, <1>6

\* A kill that comes before another has fewer before it.
LEMMA RankIncreases ==
    ASSUME NEW ks \in Seq(Kill), NEW i \in Slots(ks), NEW j \in Slots(ks), Before(ks, i, j)
    PROVE  Rank(ks, i) < Rank(ks, j)
<1>1. Earlier(ks, i) \in SUBSET Earlier(ks, j)
  BY BeforeOrders DEF Earlier
<1>2. i \in Earlier(ks, j) /\ i \notin Earlier(ks, i)
  BY BeforeOrders DEF Earlier
<1>3. /\ IsFiniteSet(Earlier(ks, j)) /\ Rank(ks, i) \in Nat /\ Rank(ks, j) \in Nat
  BY RankOf
<1>4. /\ Rank(ks, i) <= Rank(ks, j)
      /\ Rank(ks, j) = Rank(ks, i) => Earlier(ks, j) = Earlier(ks, i)
  BY <1>1, <1>3, FS_Subset DEF Rank
<1> QED  BY <1>2, <1>3, <1>4

\* p tells where each of the sorted kills stands in ks.
Sorts(p, ks) ==
    /\ p \in [Slots(ks) -> Slots(ks)]
    /\ \A n, m \in Slots(ks) : n < m => Before(ks, p[n], p[m])
    /\ \A i \in Slots(ks) : \E n \in Slots(ks) : p[n] = i

\* Every kill has a place of its own among the sorted ones.
LEMMA EveryRankTaken ==
    ASSUME NEW ks \in Seq(Kill), NEW n \in Slots(ks)
    PROVE  \E i \in Slots(ks) : Rank(ks, i) = n - 1
<1> DEFINE D == Slots(ks)
           R == 0..(Len(ks) - 1)
           f == [i \in D |-> Rank(ks, i)]
<1>1. Len(ks) \in Nat
  BY KillsOf
<1>2. f \in [D -> R]
  BY RankOf
<1>3. ASSUME NEW i \in D, NEW j \in D, f[i] = f[j]
      PROVE  i = j
  <2>1. Rank(ks, i) = Rank(ks, j) /\ Rank(ks, i) \in Int
    BY <1>1, <1>3, RankOf
  <2> QED  BY <2>1, BeforeOrders, RankIncreases
<1>4. /\ IsFiniteSet(D) /\ IsFiniteSet(R) /\ Cardinality(D) = Cardinality(R)
  <2>1. /\ IsFiniteSet(1..Len(ks))
        /\ Cardinality(1..Len(ks)) = IF 1 > Len(ks) THEN 0 ELSE Len(ks) - 1 + 1
    BY <1>1, FS_Interval
  <2>2. /\ IsFiniteSet(0..(Len(ks) - 1))
        /\ Cardinality(0..(Len(ks) - 1))
             = IF 0 > Len(ks) - 1 THEN 0 ELSE Len(ks) - 1 - 0 + 1
    <3>1. 0 \in Int /\ Len(ks) - 1 \in Int
      BY <1>1
    <3> QED  BY <3>1, FS_Interval
  <2> QED  BY <1>1, <2>1, <2>2 DEF Slots
<1> HIDE DEF f, R
<1>5. f \in Injection(D, R)
  BY <1>2, <1>3 DEF Injection, IsInjective
<1>6. f \in Surjection(D, R)
  BY <1>4, <1>5, FS_Injection
<1>7. n - 1 \in R
  BY <1>1 DEF Slots, R
<1>8. \E i \in D : f[i] = n - 1
  BY <1>6, <1>7 DEF Surjection
<1> QED  BY <1>8 DEF f

\* The sort puts the kills in order and loses none.
LEMMA ChronologicalSorts ==
    ASSUME NEW ks \in Seq(Kill)
    PROVE  \E p : /\ Sorts(p, ks)
                  /\ Chronological(ks) = [n \in Slots(ks) |-> ks[p[n]]]
<1> DEFINE D == Slots(ks)
           Spot(n) == CHOOSE i \in D : Rank(ks, i) = n - 1
           p == [n \in D |-> Spot(n)]
<1>1. Len(ks) \in Nat /\ DOMAIN ks = D
  BY KillsOf
<1>2. \A n \in D : Spot(n) \in D /\ Rank(ks, Spot(n)) = n - 1
  BY EveryRankTaken
<1>3. Chronological(ks) = [n \in D |-> ks[Spot(n)]]
  BY <1>1 DEF Chronological, Rank, Earlier
<1> HIDE DEF Spot
<1>4. \A n \in D : p[n] \in D /\ p[n] = Spot(n) /\ Rank(ks, p[n]) = n - 1
  BY <1>2
<1>5. p \in [D -> D]
  BY <1>2
<1>6. Chronological(ks) = [n \in D |-> ks[p[n]]]
  BY <1>3
<1> HIDE DEF p
<1>7. ASSUME NEW n \in D, NEW m \in D, n < m
      PROVE  Before(ks, p[n], p[m])
  <2>1. n \in Nat /\ m \in Nat
    BY DEF Slots
  <2>2. Rank(ks, p[n]) = n - 1 /\ Rank(ks, p[m]) = m - 1 /\ p[n] \in D /\ p[m] \in D
    BY <1>4
  <2>3. Rank(ks, p[n]) < Rank(ks, p[m]) /\ ~(Rank(ks, p[m]) < Rank(ks, p[n]))
    BY <1>7, <2>1, <2>2
  <2>4. p[n] # p[m]
    BY <1>7, <2>1, <2>2
  <2>5. ~Before(ks, p[m], p[n])
    BY <2>2, <2>3, RankIncreases
  <2> QED  BY <2>2, <2>4, <2>5, BeforeOrders
<1>8. ASSUME NEW i \in D
      PROVE  \E n \in D : p[n] = i
  <2> DEFINE n == Rank(ks, i) + 1
  <2>1. n \in D /\ n - 1 = Rank(ks, i)
    BY <1>1, RankOf DEF Slots
  <2> HIDE DEF n
  <2>2. p[n] \in D /\ Rank(ks, p[n]) = Rank(ks, i) /\ Rank(ks, i) \in Int
    BY <1>1, <1>4, <2>1, RankOf
  <2>3. ~Before(ks, p[n], i) /\ ~Before(ks, i, p[n])
    BY <2>2, RankIncreases
  <2>4. p[n] = i
    BY <2>2, <2>3, BeforeOrders
  <2> QED  BY <2>1, <2>4
<1>9. Sorts(p, ks)
  BY <1>5, <1>7, <1>8 DEF Sorts
<1> QED  BY <1>6, <1>9

\* The sorted kills: p tells where they stand in ks.
Ordered(cs, p, ks) ==
    /\ cs \in Seq(Kill) /\ Slots(cs) = Slots(ks) /\ DOMAIN cs = Slots(ks)
    /\ \A n \in Slots(ks) : p[n] \in Slots(ks) /\ cs[n] = ks[p[n]]
    /\ \A n, m \in Slots(ks) : n < m => Before(ks, p[n], p[m])
    /\ \A n, m \in Slots(ks) : n <= m => cs[n].at <= cs[m].at
    /\ \A i \in Slots(ks) : \E n \in Slots(ks) : p[n] = i

\* The list sorted by time is a permutation of the kills that keeps Before.
LEMMA ChronologicalOrders ==
    ASSUME NEW ks \in Seq(Kill)
    PROVE  \E p : Ordered(Chronological(ks), p, ks)
<1> DEFINE D == Slots(ks)
           cs == Chronological(ks)
<1>1. PICK p : Sorts(p, ks) /\ cs = [n \in D |-> ks[p[n]]]
  BY ChronologicalSorts
<1> HIDE DEF cs
<1>2. Len(ks) \in Nat /\ \A n \in D : p[n] \in D /\ ks[p[n]] \in Kill
  BY <1>1, KillsOf DEF Sorts
<1>3. cs \in Seq(Kill) /\ Len(cs) = Len(ks) /\ DOMAIN cs = D
  <2>1. cs \in [1..Len(ks) -> Kill]
    BY <1>1, <1>2 DEF Slots
  <2> QED  BY <1>2, <2>1, SeqDef, LenProperties DEF Slots
<1>4. \A n \in D : cs[n] = ks[p[n]]
  BY <1>1
<1>5. ASSUME NEW n \in D, NEW m \in D, n <= m
      PROVE  cs[n].at <= cs[m].at
  <2>1. n = m \/ n < m
    BY <1>5 DEF Slots
  <2>2. ks[p[n]].at \in Nat /\ ks[p[m]].at \in Nat
    BY <1>2, KillsOf
  <2>3. CASE n < m
    <3>1. Before(ks, p[n], p[m])
      BY <1>1, <2>3 DEF Sorts
    <3> QED  BY <1>4, <2>2, <3>1 DEF Before
  <2> QED  BY <1>4, <2>1, <2>2, <2>3
<1>6. Slots(cs) = D
  BY <1>3 DEF Slots
<1> QED  BY <1>1, <1>2, <1>3, <1>4, <1>5, <1>6 DEF Ordered, Sorts, cs

----------------------------------------------------------------------------
(* Trades.                                                                 *)

\* The walk back ends at the first kill beyond the window; as the kills are in order,
\* that is as good as comparing with the death alone.
LEMMA TradesInOrder ==
    ASSUME NEW ks \in Seq(Kill), NEW cs \in Seq(Kill), NEW p, Ordered(cs, p, ks)
    PROVE  Trades(cs) = {i \in Slots(ks) : \E j \in 1..(i - 1) :
                            Avenges(cs, i, j) /\ cs[i].at <= cs[j].at + Window}
<1> DEFINE D == Slots(ks)
<1>1. Window \in Nat /\ Len(ks) \in Nat /\ DOMAIN cs = D
  BY TimelineAssumption, KillsOf DEF Ordered
<1>2. ASSUME NEW i \in D, NEW j \in 1..(i - 1)
      PROVE  (\A m \in j..(i - 1) : cs[i].at - cs[m].at <= Window)
                <=> cs[i].at <= cs[j].at + Window
  <2>1. i \in Nat /\ j \in D /\ j \in j..(i - 1)
    BY <1>1 DEF Slots
  <2>2. \A m \in D : cs[m].at \in Nat
    BY KillsOf DEF Ordered
  <2>3. ASSUME NEW m \in j..(i - 1)
        PROVE  m \in D /\ cs[j].at <= cs[m].at
    <3>1. m \in D /\ j <= m
      BY <1>1, <2>1 DEF Slots
    <3> QED  BY <2>1, <3>1 DEF Ordered
  <2>4. (cs[i].at - cs[j].at <= Window) <=> cs[i].at <= cs[j].at + Window
    BY <1>1, <2>1, <2>2
  <2>5. ASSUME cs[i].at <= cs[j].at + Window, NEW m \in j..(i - 1)
        PROVE  cs[i].at - cs[m].at <= Window
    <3>1. cs[m].at \in Nat /\ cs[i].at \in Nat /\ cs[j].at \in Nat /\ cs[j].at <= cs[m].at
      BY <2>1, <2>2, <2>3
    <3> QED  BY <1>1, <2>5, <3>1
  <2> QED  BY <2>1, <2>4, <2>5
<1> QED  BY <1>1, <1>2 DEF Trades

\* The kills the loop over the sorted list finds are the trades of the list as it came.
LEMMA TradesFound ==
    ASSUME NEW ks \in Seq(Kill)
    PROVE  {Chronological(ks)[i] : i \in Trades(Chronological(ks))} =
             {ks[i] : i \in {i \in DOMAIN ks : \E j \in DOMAIN ks :
                /\ Before(ks, j, i) /\ Avenges(ks, i, j)
                /\ ks[i].at <= ks[j].at + Window}}
<1> DEFINE D == Slots(ks)
           cs == Chronological(ks)
           Found == {i \in D : \E j \in D :
                        /\ Before(ks, j, i) /\ Avenges(ks, i, j)
                        /\ ks[i].at <= ks[j].at + Window}
           T == Trades(cs)
<1>1. PICK p : Ordered(cs, p, ks)
  BY ChronologicalOrders
<1> HIDE DEF cs
<1>2. cs \in Seq(Kill) /\ DOMAIN ks = D /\ Len(ks) \in Nat
  BY <1>1, KillsOf DEF Ordered
<1>3. T = {i \in D : \E j \in 1..(i - 1) :
              Avenges(cs, i, j) /\ cs[i].at <= cs[j].at + Window}
  BY <1>1, <1>2, TradesInOrder
<1> HIDE DEF T
<1>4. ASSUME NEW i \in T
      PROVE  cs[i] \in {ks[k] : k \in Found}
  <2>1. PICK j \in 1..(i - 1) : Avenges(cs, i, j) /\ cs[i].at <= cs[j].at + Window
    BY <1>3
  <2>2. i \in D /\ j \in D /\ j < i
    BY <1>2, <1>3 DEF Slots
  <2>3. /\ p[i] \in D /\ p[j] \in D /\ cs[i] = ks[p[i]] /\ cs[j] = ks[p[j]]
        /\ Before(ks, p[j], p[i])
    BY <1>1, <2>2 DEF Ordered
  <2>4. Avenges(ks, p[i], p[j]) /\ ks[p[i]].at <= ks[p[j]].at + Window
    BY <2>1, <2>3 DEF Avenges
  <2>5. p[i] \in Found
    BY <2>3, <2>4
  <2> QED  BY <2>3, <2>5
<1>5. ASSUME NEW i \in Found
      PROVE  ks[i] \in {cs[k] : k \in T}
  <2>1. PICK j \in D : /\ Before(ks, j, i) /\ Avenges(ks, i, j)
                       /\ ks[i].at <= ks[j].at + Window
    OBVIOUS
  <2>2. PICK n \in D : p[n] = i
    BY <1>1 DEF Ordered
  <2>3. PICK m \in D : p[m] = j
    BY <1>1 DEF Ordered
  <2>4. n \in Nat /\ m \in Nat
    BY DEF Slots
  <2>5. m < n
    <3>1. ~(n < m)
      <4>1. ~Before(ks, i, j)
        BY <2>1, BeforeOrders
      <4> QED  BY <1>1, <2>2, <2>3, <4>1 DEF Ordered
    <3>2. n # m
      BY <2>1, <2>2, <2>3, BeforeOrders
    <3> QED  BY <2>4, <3>1, <3>2
  <2>6. m \in 1..(n - 1)
    BY <2>4, <2>5 DEF Slots
  <2>7. cs[n] = ks[i] /\ cs[m] = ks[j]
    BY <1>1, <2>2, <2>3 DEF Ordered
  <2>8. Avenges(cs, n, m) /\ cs[n].at <= cs[m].at + Window
    BY <2>1, <2>7 DEF Avenges
  <2>9. n \in T
    BY <1>3, <2>6, <2>8
  <2> QED  BY <2>7, <2>9
<1>6. {cs[i] : i \in T} = {ks[i] : i \in Found}
  BY <1>4, <1>5
<1> QED  BY <1>2, <1>6 DEF cs, T

\* Two deaths of one player are further apart than a trade may be from its death.
Apart(ks) ==
    \A i, j \in Slots(ks) :
        i # j /\ ks[i].victim = ks[j].victim =>
            ks[i].at > ks[j].at + Window \/ ks[j].at > ks[i].at + Window

DeathsOf(t, ks) == {i \in DOMAIN ks : TeamOf[ks[i].victim] = t}

\* Each trade avenges a death of its own: there are no more trades than deaths.
LEMMA TradesAndDeaths ==
    ASSUME NEW ks \in Seq(Kill), Apart(ks), NEW t
    PROVE  LET cs == Chronological(ks)
               trades == Cardinality(TradesOf(t, cs))
               deaths == Cardinality(DeathsOf(t, cs))
           IN  trades \in Nat /\ deaths \in Nat /\ trades <= deaths
<1> DEFINE D == Slots(ks)
           cs == Chronological(ks)
           T == TradesOf(t, cs)
           V == DeathsOf(t, cs)
<1>1. PICK p : Ordered(cs, p, ks)
  BY ChronologicalOrders
<1> HIDE DEF cs
<1>2. cs \in Seq(Kill) /\ DOMAIN cs = D /\ Len(ks) \in Nat /\ Window \in Nat
  BY <1>1, KillsOf, TimelineAssumption DEF Ordered
<1>3. \A i \in D : cs[i].at \in Nat
  BY <1>1, <1>2, KillsOf DEF Ordered
<1>4. Trades(cs) = {i \in D : \E j \in 1..(i - 1) :
                       Avenges(cs, i, j) /\ cs[i].at <= cs[j].at + Window}
  BY <1>1, <1>2, TradesInOrder
<1>5. T \subseteq D /\ V \subseteq D
  BY <1>2, <1>4 DEF TradesOf, DeathsOf
<1>6. IsFiniteSet(D)
  BY <1>2, FS_Interval DEF Slots
<1>7. IsFiniteSet(T) /\ IsFiniteSet(V) /\ Cardinality(T) \in Nat /\ Cardinality(V) \in Nat
  BY <1>5, <1>6, FS_Subset, FS_CardinalityType
<1> DEFINE Dies(i) == CHOOSE j \in V : /\ j \in 1..(i - 1) /\ cs[j].killer = cs[i].victim
                                       /\ cs[i].at <= cs[j].at + Window
           f == [i \in T |-> Dies(i)]
<1>8. ASSUME NEW i \in T
      PROVE  /\ Dies(i) \in V /\ Dies(i) \in 1..(i - 1)
             /\ cs[Dies(i)].killer = cs[i].victim
             /\ cs[i].at <= cs[Dies(i)].at + Window
  <2>1. i \in D /\ i \in Trades(cs) /\ TeamOf[cs[i].killer] = t
    BY <1>4 DEF TradesOf
  <2>2. PICK j \in 1..(i - 1) : Avenges(cs, i, j) /\ cs[i].at <= cs[j].at + Window
    BY <1>4, <2>1
  <2>3. j \in D
    BY <1>2, <2>1 DEF Slots
  <2>4. j \in V /\ cs[j].killer = cs[i].victim
    BY <1>2, <2>1, <2>2, <2>3 DEF Avenges, DeathsOf
  <2> QED  BY <2>2, <2>4
<1> HIDE DEF Dies
<1>9. f \in [T -> V]
  BY <1>8
<1>10. ASSUME NEW i \in T, NEW k \in T, i < k
       PROVE  Dies(i) # Dies(k)
  <2> SUFFICES ASSUME Dies(i) = Dies(k) PROVE FALSE
    OBVIOUS
  <2> DEFINE j == Dies(i)
  <2>1. /\ j \in D /\ i \in D /\ k \in D /\ i \in Nat /\ k \in Nat /\ j < i
        /\ cs[i].victim = cs[k].victim
        /\ cs[k].at <= cs[j].at + Window
    BY <1>5, <1>8 DEF Slots
  <2>2. cs[j].at <= cs[i].at /\ cs[i].at <= cs[k].at
    <3>1. j \in Nat /\ j <= i /\ i <= k
      BY <1>10, <2>1 DEF Slots
    <3> QED  BY <1>1, <2>1, <3>1 DEF Ordered
  <2>3. ~(cs[i].at > cs[k].at + Window) /\ ~(cs[k].at > cs[i].at + Window)
    <3>1. cs[i].at \in Nat /\ cs[j].at \in Nat /\ cs[k].at \in Nat
      BY <1>3, <2>1
    <3> QED  BY <1>2, <2>1, <2>2, <3>1
  <2>4. p[i] \in D /\ p[k] \in D /\ cs[i] = ks[p[i]] /\ cs[k] = ks[p[k]] /\ p[i] # p[k]
    <3>1. /\ Before(ks, p[i], p[k]) /\ p[i] \in D /\ p[k] \in D
          /\ cs[i] = ks[p[i]] /\ cs[k] = ks[p[k]]
      BY <1>1, <1>10, <2>1 DEF Ordered
    <3> QED  BY <3>1, BeforeOrders
  <2> QED  BY <2>1, <2>3, <2>4 DEF Apart
<1>11. \A i, k \in T : f[i] = f[k] => i = k
  <2>1. \A i \in T : i \in Nat
    BY <1>5 DEF Slots
  <2> SUFFICES ASSUME NEW i \in T, NEW k \in T, f[i] = f[k], i # k PROVE FALSE
    OBVIOUS
  <2>2. i < k \/ k < i
    BY <2>1
  <2>3. Dies(i) = Dies(k)
    OBVIOUS
  <2> QED  BY <1>10, <2>2, <2>3
<1> HIDE DEF f
<1>12. f \in Injection(T, V)
  BY <1>9, <1>11 DEF Injection, IsInjective
<1>13. Cardinality(T) <= Cardinality(V)
  BY <1>7, <1>12, FS_Injection
<1> QED  BY <1>7, <1>13 DEF cs

----------------------------------------------------------------------------
(* A round.                                                                *)

\* What TeamsMirror says of the counts of two teams.
Mirror(us, them) ==
    /\ us["score"] = them["conceded"]
    /\ us["defTotal"] = them["atkTotal"] + (us["rounds"] - us["score"] - us["conceded"])
    /\ us["firstBloods"] <= them["firstDeaths"]
    /\ us["clutches"] = them["clutches"]
    /\ us["clutchWins"] + them["clutchWins"] <= us["clutches"]
    /\ us["retaken"] <= them["atkTotal"] - them["atkWon"]
    /\ us["trades"] <= us["deaths"]

LEMMA OneIs ==
    ASSUME NEW b \in BOOLEAN
    PROVE  One(b) \in {0, 1} /\ (b => One(b) = 1) /\ (~b => One(b) = 0)
BY DEF One

LEMMA PlusIs ==
    ASSUME NEW c \in [Counter -> Nat], NEW d \in [Counter -> Nat]
    PROVE  Plus(c, d) \in [Counter -> Nat] /\ \A x \in Counter : Plus(c, d)[x] = c[x] + d[x]
BY DEF Plus

\* The counts that the mirror is about.
LEMMA CountersAre ==
    {"rounds", "score", "conceded", "atkWon", "atkTotal", "defTotal", "firstBloods",
     "firstDeaths", "trades", "deaths", "clutches", "clutchWins", "retaken"} \subseteq Counter
BY DEF Counter

\* Counts that mirror each other do so after adding counts that do.
LEMMA MirrorAddsUp ==
    ASSUME NEW c \in [Counter -> Nat], NEW d \in [Counter -> Nat], Mirror(c, d),
           NEW a \in [Counter -> Nat], NEW b \in [Counter -> Nat], Mirror(a, b)
    PROVE  Mirror(Plus(c, a), Plus(d, b))
<1>1. \A x \in Counter : /\ c[x] \in Nat /\ d[x] \in Nat /\ a[x] \in Nat /\ b[x] \in Nat
                         /\ Plus(c, a)[x] = c[x] + a[x] /\ Plus(d, b)[x] = d[x] + b[x]
  BY PlusIs
<1> DEFINE e == Plus(c, a)
           g == Plus(d, b)
<1> HIDE DEF e, g
<1>2. \A x \in Counter : e[x] = c[x] + a[x] /\ g[x] = d[x] + b[x]
  BY <1>1 DEF e, g
<1>3. e["score"] = g["conceded"] /\ e["clutches"] = g["clutches"]
  BY <1>1, <1>2, CountersAre DEF Mirror
<1>4. e["defTotal"] = g["atkTotal"] + (e["rounds"] - e["score"] - e["conceded"])
  BY <1>1, <1>2, CountersAre DEF Mirror
<1>5. e["firstBloods"] <= g["firstDeaths"] /\ e["trades"] <= e["deaths"]
  BY <1>1, <1>2, CountersAre DEF Mirror
<1>6. e["clutchWins"] + g["clutchWins"] <= e["clutches"]
  BY <1>1, <1>2, CountersAre DEF Mirror
<1>7. e["retaken"] <= g["atkTotal"] - g["atkWon"]
  BY <1>1, <1>2, CountersAre DEF Mirror
<1> QED  BY <1>3, <1>4, <1>5, <1>6, <1>7 DEF Mirror, e, g

LEMMA AddsAre ==
    ASSUME NEW t, NEW r, NEW n, NEW ks,
           Cardinality(TradesOf(t, ks)) \in Nat, Cardinality(DeathsOf(t, ks)) \in Nat
    PROVE  /\ Adds(t, r, n, ks) \in [Counter -> Nat]
           /\ Adds(t, r, n, ks)["trades"] = Cardinality(TradesOf(t, ks))
           /\ Adds(t, r, n, ks)["deaths"] = Cardinality(DeathsOf(t, ks))
<1> DEFINE a == Adds(t, r, n, ks)
<1>1. \A b : One(b) \in Nat
  BY DEF One
<1>2. a = [c \in Counter |-> a[c]]
  BY ZenonT(60) DEF Adds, None
<1>3. \A c \in Counter : a[c] \in Nat
  BY <1>1 DEF Adds, None, Counter, DeathsOf
<1>4. a \in [Counter -> Nat]
  BY <1>2, <1>3
<1> QED  BY <1>4 DEF Adds, None, Counter, DeathsOf

LEMMA Opponents ==
    ASSUME NEW t \in Team
    PROVE  Opponent(t) \in Team /\ Opponent(t) # t /\ Team = {t, Opponent(t)}
BY DEF Team, Opponent

\* One team attacks where the other defends, unless the round is undecided.
LEMMA AttacksAre ==
    ASSUME NEW t \in Team, NEW r, NEW n
    PROVE  LET u == Opponent(t)
           IN  /\ Attacks(t, r, n) \in BOOLEAN
               /\ r.winner \in Team => (Attacks(u, r, n) <=> ~Attacks(t, r, n))
               /\ r.winner \notin Team => ~Attacks(u, r, n) /\ ~Attacks(t, r, n)
<1>1. Attackers(n) \in Team
  BY DEF Attackers, Team
<1> QED  BY <1>1 DEF Attacks, Opponent, Team

\* The two teams see the same round, whatever the payload says of it.
LEMMA RoundMirrors ==
    ASSUME NEW t \in Team, NEW r, NEW n, NEW ks \in Seq(Kill), Apart(ks)
    PROVE  LET cs == Chronological(ks)
           IN  /\ Adds(t, r, n, cs) \in [Counter -> Nat]
               /\ Mirror(Adds(t, r, n, cs), Adds(Opponent(t), r, n, cs))
<1> DEFINE cs == Chronological(ks)
           u == Opponent(t)
           a == Adds(t, r, n, cs)
           b == Adds(u, r, n, cs)
           wins(x) == r.winner = x
           first(x) == cs # <<>> /\ TeamOf[cs[1].killer] = x
           attacks(x) == Attacks(x, r, n)
<1>1. \A x : /\ Cardinality(TradesOf(x, cs)) \in Nat
             /\ Cardinality(DeathsOf(x, cs)) \in Nat
             /\ Cardinality(TradesOf(x, cs)) <= Cardinality(DeathsOf(x, cs))
  BY TradesAndDeaths
<1>2. u \in Team /\ u # t /\ Team = {t, u}
  BY Opponents
<1>3. /\ attacks(t) \in BOOLEAN
      /\ r.winner \in Team => (attacks(u) <=> ~attacks(t))
      /\ r.winner \notin Team => ~attacks(u) /\ ~attacks(t)
  BY AttacksAre
<1>4. /\ a \in [Counter -> Nat]
      /\ a["trades"] = Cardinality(TradesOf(t, cs)) /\ a["deaths"] = Cardinality(DeathsOf(t, cs))
  BY <1>1, AddsAre
<1>5. a["score"] = b["conceded"] /\ a["clutches"] = b["clutches"]
  <2>1. a["score"] = One(wins(t)) /\ b["conceded"] = One(~wins(u) /\ r.winner \in Team)
    BY CountersAre DEF Adds, None
  <2>2. a["clutches"] = One(r.ceremony = "clutch") /\ b["clutches"] = One(r.ceremony = "clutch")
    BY CountersAre DEF Adds, None
  <2>3. wins(t) <=> (~wins(u) /\ r.winner \in Team)
    BY <1>2
  <2> QED  BY <2>1, <2>2, <2>3 DEF One
<1>6. a["defTotal"] = b["atkTotal"] + (a["rounds"] - a["score"] - a["conceded"])
  <2>1. a["defTotal"] = One(~attacks(t)) /\ b["atkTotal"] = One(attacks(u))
    BY CountersAre DEF Adds, None
  <2>2. /\ a["rounds"] = 1 /\ a["score"] = One(wins(t))
        /\ a["conceded"] = One(~wins(t) /\ r.winner \in Team)
    BY CountersAre DEF Adds, None
  <2> HIDE DEF a, b, attacks
  <2> QED  BY <1>2, <1>3, <2>1, <2>2 DEF One
<1>7. a["firstBloods"] <= b["firstDeaths"]
  <2>1. a["firstBloods"] = One(first(t)) /\ b["firstDeaths"] = One(cs # <<>> /\ ~first(u))
    BY CountersAre DEF Adds, None
  <2>2. first(t) => cs # <<>> /\ ~first(u)
    BY <1>2
  <2> HIDE DEF a, b, first, cs
  <2> QED  BY <2>1, <2>2 DEF One
<1>8. a["trades"] <= a["deaths"]
  BY <1>1, <1>4
<1>9. a["clutchWins"] + b["clutchWins"] <= a["clutches"]
  <2>1. /\ a["clutchWins"] = One(r.ceremony = "clutch" /\ wins(t))
        /\ b["clutchWins"] = One(r.ceremony = "clutch" /\ wins(u))
        /\ a["clutches"] = One(r.ceremony = "clutch")
    BY CountersAre DEF Adds, None
  <2>2. ~(wins(t) /\ wins(u))
    BY <1>2
  <2> HIDE DEF a, b, wins
  <2> QED  BY <2>1, <2>2 DEF One
<1>10. a["retaken"] <= b["atkTotal"] - b["atkWon"]
  <2> DEFINE retakes == /\ r.planted /\ ~attacks(t) /\ wins(t)
                        /\ r.defused /\ WinType(r) = "Bomb defused"
  <2>1. /\ a["retaken"] = One(retakes)
        /\ b["atkTotal"] = One(attacks(u)) /\ b["atkWon"] = One(attacks(u) /\ wins(u))
    BY CountersAre DEF Adds, None
  <2>2. retakes => attacks(u) /\ ~wins(u)
    BY <1>2, <1>3
  <2> HIDE DEF a, b, wins, attacks, retakes
  <2> QED  BY <2>1, <2>2 DEF One
<1> HIDE DEF a, b
<1>11. a \in [Counter -> Nat] /\ Mirror(a, b)
  BY <1>4, <1>5, <1>6, <1>7, <1>8, <1>9, <1>10 DEF Mirror, a
<1> QED  BY <1>11 DEF a, b, cs, u

----------------------------------------------------------------------------
(* The request.                                                            *)

\* A request analyses no more matches than it was given.
Budget ==
    /\ analyzed + listed <= MaxMatches
    /\ at = "replay" => analyzed + listed < MaxMatches
    /\ at \in {"idle", "profile", "history"} => analyzed = 0

IInv == TypeOK /\ Budget /\ Apart(kills) /\ TeamsMirror

LEMMA NoneIs ==
    None \in [Counter -> Nat] /\ \A x \in Counter : None[x] = 0
BY DEF None

LEMMA EmptyTally ==
    /\ [t \in Team |-> None] \in [Team -> [Counter -> Nat]]
    /\ \A t \in Team : [s \in Team |-> None][t] = None
    /\ Mirror(None, None)
<1>1. Mirror(None, None)
  BY NoneIs, CountersAre DEF Mirror
<1> QED  BY <1>1, NoneIs

\* TeamsMirror, written with Mirror.
LEMMA MirrorIs ==
    TeamsMirror <=> /\ \A t \in Team : Mirror(tally[t], tally[Opponent(t)])
                    /\ total["trades"] <= total["deaths"]
BY DEF TeamsMirror, Mirror

LEMMA NoKills == <<>> \in Seq(Kill) /\ Len(<<>>) = 0 /\ Apart(<<>>)
<1>1. <<>> \in Seq(Kill) /\ Len(<<>>) = 0
  BY EmptySeq
<1>2. Slots(<<>>) = {}
  BY <1>1 DEF Slots
<1> QED  BY <1>1, <1>2 DEF Apart

LEMMA InitKeeps == Init => IInv
<1> SUFFICES ASSUME Init PROVE IInv
  OBVIOUS
<1>1. MaxMatches \in Nat /\ MaxKills \in Nat
  BY TimelineAssumption
<1>2. tally = [t \in Team |-> None] /\ kills = <<>> /\ total = None
  BY DEF Init
<1>3. TypeOK
  BY <1>1, EmptyTally, NoKills, NoneIs DEF Init, TypeOK, Team
<1>4. Budget
  BY <1>1 DEF Init, Budget
<1>5. Apart(kills)
  BY <1>2, NoKills
<1>6. TeamsMirror
  <2>1. \A t \in Team : Opponent(t) \in Team
    BY Opponents
  <2>2. total["trades"] <= total["deaths"]
    BY <1>2, NoneIs, CountersAre
  <2> QED  BY <1>2, <2>1, <2>2, EmptyTally, MirrorIs
<1> QED  BY <1>3, <1>4, <1>5, <1>6 DEF IInv

\* The steps of the request around the payloads.
RequestSteps ==
    \/ \E n \in 0..MaxMatches : Ask(n) \/ History(n)
    \/ \E by \in {"puuid", "name"} : Profile(by)
    \/ DetailFails
    \/ \E t \in Team : Detail(t)
    \/ Answer
    \/ UNCHANGED vars

LEMMA RequestKeeps ==
    ASSUME IInv, RequestSteps
    PROVE  IInv'
<1>1. /\ MaxMatches \in Nat /\ MaxKills \in Nat
      /\ analyzed \in Nat /\ listed \in Nat
  BY TimelineAssumption DEF IInv, TypeOK
<1>2. kills' = kills /\ tally' = tally /\ total' = total /\ analyzed' = analyzed
  BY DEF RequestSteps, Ask, History, Profile, DetailFails, Detail, Answer, vars, Keep
<1>3. Apart(kills)' /\ TeamsMirror'
  BY <1>2 DEF IInv, Apart, TeamsMirror
<1>4. /\ at' \in {"idle", "profile", "history", "details", "replay", "done"}
      /\ ident' \in {"none", "hash", "puuid", "name"}
      /\ leads' \in Team
  BY DEF RequestSteps, Ask, History, Profile, DetailFails, Detail, Answer, vars, Keep,
         IInv, TypeOK
<1>5. /\ listed' \in 0..MaxMatches
      /\ analyzed + listed' <= MaxMatches
      /\ at' = "replay" => analyzed + listed' < MaxMatches
      /\ at' \in {"idle", "profile", "history"} => analyzed = 0
  <2>1. ASSUME NEW n \in 0..MaxMatches, Ask(n) \/ History(n)
        PROVE  /\ listed' = n /\ at' # "replay" /\ analyzed = 0
    BY <2>1 DEF Ask, History, IInv, Budget
  <2>2. ASSUME NEW by \in {"puuid", "name"}, Profile(by)
        PROVE  /\ listed' = listed /\ at' # "replay" /\ analyzed = 0
    BY <2>2 DEF Profile, IInv, Budget
  <2>3. CASE DetailFails
    BY <1>1, <2>3 DEF DetailFails, IInv, Budget, TypeOK
  <2>4. ASSUME NEW t \in Team, Detail(t)
        PROVE  listed > 0 /\ listed' = listed - 1 /\ at' = "replay"
    BY <2>4 DEF Detail
  <2>5. CASE Answer \/ UNCHANGED vars
    BY <1>1, <2>5 DEF Answer, vars, IInv, Budget, TypeOK
  <2>6. analyzed + listed <= MaxMatches
    BY DEF IInv, Budget
  <2> QED  BY <1>1, <2>1, <2>2, <2>3, <2>4, <2>5, <2>6 DEF RequestSteps
<1>6. advice' \subseteq
        {"antiEco", "fewTrades", "trades", "converts", "wastes", "retakes", "attackers",
         "defenders", "balanced", "isolated", "defence", "consistent"}
  <2>1. CASE Answer
    BY <2>1 DEF Answer, Leaks
  <2>2. CASE ~Answer
    <3>1. advice' = advice
      BY <2>2 DEF RequestSteps, Ask, History, Profile, DetailFails, Detail, vars, Keep
    <3> QED  BY <3>1 DEF IInv, TypeOK
  <2> QED  BY <2>1, <2>2
<1>7. TypeOK'
  BY <1>2, <1>4, <1>5, <1>6 DEF IInv, TypeOK
<1>8. Budget'
  BY <1>2, <1>5 DEF Budget
<1> QED  BY <1>3, <1>7, <1>8 DEF IInv

LEMMA ListKillKeeps ==
    ASSUME IInv, NEW k \in Kill, ListKill(k)
    PROVE  IInv'
<1>1. /\ kills \in Seq(Kill) /\ Len(kills) \in Nat /\ DOMAIN kills = Slots(kills)
      /\ MaxKills \in Nat
  BY KillsOf, TimelineAssumption DEF IInv, TypeOK
<1>2. /\ kills' = Append(kills, k)
      /\ UNCHANGED <<at, ident, listed, leads, tally, total, analyzed, advice>>
      /\ \A i \in Slots(kills) :
            kills[i].victim = k.victim =>
               kills[i].at > k.at + Window \/ k.at > kills[i].at + Window
  BY <1>1 DEF ListKill
<1>3. /\ kills' \in Seq(Kill) /\ Len(kills') = Len(kills) + 1
      /\ \A i \in 1..Len(kills) : kills'[i] = kills[i]
      /\ kills'[Len(kills) + 1] = k
  BY <1>1, <1>2, AppendProperties
<1>4. Len(kills') <= MaxKills
  <2>1. /\ Team = {"Red", "Blue"} /\ "deaths" \in Counter
        /\ total["deaths"] \in Nat /\ tally["Red"]["deaths"] \in Nat
        /\ tally["Blue"]["deaths"] \in Nat
    BY CountersAre DEF Team, IInv, TypeOK
  <2>2. total["deaths"] + tally["Red"]["deaths"] + tally["Blue"]["deaths"] + Len(kills)
          < MaxKills
    BY DEF ListKill, MoreKills
  <2>3. Len(kills) + 1 <= MaxKills
    BY <1>1, <2>1, <2>2
  <2> QED  BY <1>3, <2>3
<1>5. Apart(kills')
  <2> SUFFICES ASSUME NEW i \in Slots(kills'), NEW j \in Slots(kills'), i # j,
                      kills'[i].victim = kills'[j].victim
               PROVE  \/ kills'[i].at > kills'[j].at + Window
                      \/ kills'[j].at > kills'[i].at + Window
    BY DEF Apart
  <2>1. \A x \in Slots(kills') : x \in Slots(kills) \/ x = Len(kills) + 1
    BY <1>1, <1>3 DEF Slots
  <2>2. \A x \in Slots(kills) : kills'[x] = kills[x]
    BY <1>3 DEF Slots
  <2>3. CASE i \in Slots(kills) /\ j \in Slots(kills)
    BY <2>2, <2>3 DEF IInv, Apart
  <2>4. CASE i \in Slots(kills) /\ j = Len(kills) + 1
    BY <1>2, <1>3, <2>2, <2>4
  <2>5. CASE j \in Slots(kills) /\ i = Len(kills) + 1
    BY <1>2, <1>3, <2>2, <2>5
  <2> QED  BY <2>1, <2>3, <2>4, <2>5
<1>6. TypeOK' /\ Budget'
  BY <1>2, <1>3, <1>4 DEF IInv, TypeOK, Budget
<1>7. TeamsMirror'
  BY <1>2 DEF IInv, TeamsMirror
<1>8. Apart(kills)'
  BY <1>5
<1> QED  BY <1>6, <1>7, <1>8 DEF IInv

LEMMA ParseRoundKeeps ==
    ASSUME IInv, NEW r \in Rounds, ParseRound(r)
    PROVE  IInv'
<1> DEFINE n == First + Shown
           add(t) == Adds(t, r, n, Chronological(kills))
<1>1. /\ tally' = [t \in Team |-> Plus(tally[t], add(t))] /\ kills' = <<>>
      /\ UNCHANGED <<at, ident, listed, leads, total, analyzed, advice>>
  BY DEF ParseRound
<1> HIDE DEF n
<1>2. kills \in Seq(Kill) /\ Apart(kills)
  BY DEF IInv, TypeOK
<1>3. ASSUME NEW t \in Team
      PROVE  /\ add(t) \in [Counter -> Nat]
             /\ Mirror(add(t), add(Opponent(t)))
  BY <1>2, RoundMirrors
<1> HIDE DEF add
<1>4. ASSUME NEW t \in Team
      PROVE  /\ tally[t] \in [Counter -> Nat]
             /\ tally'[t] = Plus(tally[t], add(t)) /\ tally'[t] \in [Counter -> Nat]
  <2>1. tally[t] \in [Counter -> Nat]
    BY DEF IInv, TypeOK
  <2>2. tally'[t] = Plus(tally[t], add(t))
    BY <1>1
  <2> QED  BY <1>3, <2>1, <2>2, PlusIs
<1>5. tally' \in [Team -> [Counter -> Nat]]
  BY <1>1, <1>4
<1>6. TeamsMirror'
  <2> SUFFICES ASSUME NEW t \in Team
               PROVE  Mirror(tally'[t], tally'[Opponent(t)])
    BY <1>1 DEF IInv, TeamsMirror, Mirror
  <2>1. Opponent(t) \in Team
    BY Opponents
  <2>2. Mirror(tally[t], tally[Opponent(t)])
    BY MirrorIs DEF IInv
  <2>3. Mirror(Plus(tally[t], add(t)), Plus(tally[Opponent(t)], add(Opponent(t))))
    BY <1>3, <1>4, <2>1, <2>2, MirrorAddsUp
  <2> QED  BY <1>4, <2>1, <2>3
<1>7. TypeOK' /\ Budget'
  <2>1. kills' \in Seq(Kill) /\ Len(kills') <= MaxKills
    BY <1>1, NoKills, TimelineAssumption
  <2> QED  BY <1>1, <1>5, <2>1 DEF IInv, TypeOK, Budget
<1>8. Apart(kills)'
  BY <1>1, NoKills
<1> QED  BY <1>6, <1>7, <1>8 DEF IInv

LEMMA EndMatchKeeps ==
    ASSUME IInv, EndMatch
    PROVE  IInv'
<1>1. /\ at = "replay" /\ at' = "details" /\ tally' = [t \in Team |-> None]
      /\ UNCHANGED <<ident, listed, leads, kills>>
  BY DEF EndMatch
<1>2. \/ UNCHANGED <<total, analyzed, advice>>
      \/ /\ total' = Plus(total, tally[Friendly]) /\ analyzed' = analyzed + 1
         /\ advice' = Takeaways(tally[Friendly])
  BY DEF EndMatch
<1>3. /\ analyzed \in Nat /\ listed \in Nat /\ MaxMatches \in Nat
      /\ analyzed + listed < MaxMatches
  BY <1>1, TimelineAssumption DEF IInv, TypeOK, Budget
<1>4. analyzed' \in 0..MaxMatches /\ analyzed' + listed <= MaxMatches
  BY <1>2, <1>3
<1>5. total' \in [Counter -> Nat]
  <2>1. Friendly \in Team
    BY TimelineAssumption DEF Friendly, IInv, TypeOK
  <2>2. total \in [Counter -> Nat] /\ tally[Friendly] \in [Counter -> Nat]
    BY <2>1 DEF IInv, TypeOK
  <2> QED  BY <1>2, <2>2, PlusIs
<1>6. advice' \subseteq
        {"antiEco", "fewTrades", "trades", "converts", "wastes", "retakes", "attackers",
         "defenders", "balanced", "isolated", "defence", "consistent"}
  <2>1. \A c : Takeaways(c) \subseteq
          {"antiEco", "fewTrades", "trades", "converts", "wastes", "retakes", "attackers",
           "defenders", "balanced"}
    BY DEF Takeaways
  <2> QED  BY <1>2, <2>1 DEF IInv, TypeOK
<1>7. tally' \in [Team -> [Counter -> Nat]]
  BY <1>1, EmptyTally
<1>8. total'["trades"] <= total'["deaths"]
  <2>1. Friendly \in Team
    BY TimelineAssumption DEF Friendly, IInv, TypeOK
  <2> DEFINE c == tally[Friendly]
  <2>2. /\ total \in [Counter -> Nat] /\ c \in [Counter -> Nat]
        /\ total["trades"] <= total["deaths"] /\ c["trades"] <= c["deaths"]
    BY <2>1 DEF IInv, TypeOK, TeamsMirror
  <2>3. total' = total \/ total' = Plus(total, c)
    BY <1>2
  <2> HIDE DEF c
  <2>4. /\ total["trades"] \in Nat /\ total["deaths"] \in Nat
        /\ c["trades"] \in Nat /\ c["deaths"] \in Nat
        /\ Plus(total, c)["trades"] = total["trades"] + c["trades"]
        /\ Plus(total, c)["deaths"] = total["deaths"] + c["deaths"]
    BY <2>2, CountersAre, PlusIs
  <2> QED  BY <2>2, <2>3, <2>4
<1>9. TeamsMirror'
  <2> SUFFICES ASSUME NEW t \in Team
               PROVE  Mirror(tally'[t], tally'[Opponent(t)])
    BY <1>8 DEF TeamsMirror, Mirror
  <2>1. tally'[t] = None /\ tally'[Opponent(t)] = None
    BY <1>1, Opponents, EmptyTally
  <2> QED  BY <2>1, EmptyTally
<1>10. TypeOK' /\ Budget'
  BY <1>1, <1>3, <1>4, <1>5, <1>6, <1>7 DEF IInv, TypeOK, Budget
<1>11. Apart(kills)'
  BY <1>1 DEF IInv, Apart
<1> QED  BY <1>9, <1>10, <1>11 DEF IInv

LEMMA NextKeeps == IInv /\ [Next]_vars => IInv'
<1> SUFFICES ASSUME IInv, [Next]_vars PROVE IInv'
  OBVIOUS
<1>1. CASE RequestSteps
  BY <1>1, RequestKeeps
<1>2. ASSUME NEW k \in Kill, ListKill(k) PROVE IInv'
  BY <1>2, ListKillKeeps
<1>3. ASSUME NEW r \in Rounds, ParseRound(r) PROVE IInv'
  BY <1>3, ParseRoundKeeps
<1>4. CASE EndMatch
  BY <1>4, EndMatchKeeps
<1> QED  BY <1>1, <1>2, <1>3, <1>4 DEF Next, RequestSteps

LEMMA Invariant == Spec => []IInv
<1>1. Init => IInv
  BY InitKeeps
<1>2. IInv /\ [Next]_vars => IInv'
  BY NextKeeps
<1> QED  BY <1>1, <1>2, PTL DEF Spec

\* Whatever details are served, the counts of an analysis are numbers, and the matches
\* analysed are no more than those that were listed.
THEOREM TypeCorrect == Spec => []TypeOK
<1>1. IInv => TypeOK
  BY DEF IInv
<1> QED  BY <1>1, Invariant, PTL

\* In whatever order the payload lists the kills of a round, those marked as trades are
\* the ones that avenge a teammate within the window.
THEOREM TradesCorrect == Spec => []TradesAreTrades
<1>1. IInv => TradesAreTrades
  BY TradesFound DEF IInv, TypeOK, TradesAreTrades
<1> QED  BY <1>1, Invariant, PTL

\* For every payload and every window, the counts of the two teams are those of one
\* match, and no death is traded twice, so that no rate exceeds 100 %.
THEOREM TeamsAgree == Spec => []TeamsMirror
<1>1. IInv => TeamsMirror
  BY DEF IInv
<1> QED  BY <1>1, Invariant, PTL

----------------------------------------------------------------------------
(* The matches of a history in time.  No two are at the same time, so that  *)
(* the place of a match is how many of the history are before it, whichever *)
(* way they are listed.                                                     *)

Sooner(S, m) == {x \in S : x.at < m.at}
Place(S, m) == Cardinality(Sooner(S, m))

\* The matches of a history.
Held(h) == {h[i] : i \in DOMAIN h}

LEMMA MatchesAre ==
    /\ \A m \in Match : m.at \in Nat
    /\ \A m, n \in Match : m.at = n.at => m = n
BY InsightsAssumption

\* How many matches are sooner than one is a place among them.
LEMMA PlaceOf ==
    ASSUME NEW S, S \subseteq Match, IsFiniteSet(S), NEW m \in S
    PROVE  IsFiniteSet(Sooner(S, m)) /\ Place(S, m) \in 0..(Cardinality(S) - 1)
<1>1. IsFiniteSet(S \ {m}) /\ Cardinality(S \ {m}) = Cardinality(S) - 1
  BY FS_RemoveElement
<1>2. Sooner(S, m) \in SUBSET (S \ {m})
  BY MatchesAre DEF Sooner
<1>3. IsFiniteSet(Sooner(S, m)) /\ Place(S, m) <= Cardinality(S) - 1
  BY <1>1, <1>2, FS_Subset DEF Place
<1>4. Place(S, m) \in Nat /\ Cardinality(S) \in Nat
  BY <1>3, FS_CardinalityType DEF Place
<1> QED  BY <1>3, <1>4

\* A sooner match has a smaller place.
LEMMA PlaceIncreases ==
    ASSUME NEW S, S \subseteq Match, IsFiniteSet(S), NEW m \in S, NEW n \in S, m.at < n.at
    PROVE  Place(S, m) < Place(S, n)
<1>1. Sooner(S, m) \in SUBSET Sooner(S, n)
  BY MatchesAre DEF Sooner
<1>2. m \in Sooner(S, n) /\ m \notin Sooner(S, m)
  BY MatchesAre DEF Sooner
<1>3. IsFiniteSet(Sooner(S, n)) /\ Place(S, m) \in Int /\ Place(S, n) \in Int
  BY PlaceOf
<1>4. /\ Place(S, m) <= Place(S, n)
      /\ Place(S, n) = Place(S, m) => Sooner(S, n) = Sooner(S, m)
  BY <1>1, <1>3, FS_Subset DEF Place
<1> QED  BY <1>2, <1>3, <1>4

\* Two matches have different places.
LEMMA PlacesDiffer ==
    ASSUME NEW S, S \subseteq Match, IsFiniteSet(S), NEW m \in S, NEW n \in S,
           Place(S, m) = Place(S, n)
    PROVE  m = n
<1>1. Place(S, m) \in Int /\ Place(S, n) \in Int
  BY PlaceOf
<1>2. ~(m.at < n.at) /\ ~(n.at < m.at)
  BY <1>1, PlaceIncreases
<1> QED  BY <1>2, MatchesAre

\* Every place is taken.
LEMMA PlacesTaken ==
    ASSUME NEW S, S \subseteq Match, IsFiniteSet(S), NEW n \in 1..Cardinality(S)
    PROVE  \E m \in S : Place(S, m) = n - 1
<1> DEFINE R == 0..(Cardinality(S) - 1)
           f == [m \in S |-> Place(S, m)]
<1>1. Cardinality(S) \in Nat
  BY FS_CardinalityType
<1>2. f \in [S -> R]
  BY PlaceOf
<1>3. \A m, x \in S : f[m] = f[x] => m = x
  BY PlacesDiffer
<1>4. IsFiniteSet(R) /\ Cardinality(R) = Cardinality(S)
  <2>1. 0 \in Int /\ Cardinality(S) - 1 \in Int
    BY <1>1
  <2>2. /\ IsFiniteSet(0..(Cardinality(S) - 1))
        /\ Cardinality(0..(Cardinality(S) - 1))
             = IF 0 > Cardinality(S) - 1 THEN 0 ELSE Cardinality(S) - 1 - 0 + 1
    BY <2>1, FS_Interval
  <2> QED  BY <1>1, <2>2
<1> HIDE DEF f, R
<1>5. f \in Injection(S, R)
  BY <1>2, <1>3 DEF Injection, IsInjective
<1>6. f \in Surjection(S, R)
  BY <1>4, <1>5, FS_Injection
<1>7. n - 1 \in R
  BY <1>1 DEF R
<1>8. \E m \in S : f[m] = n - 1
  BY <1>6, <1>7 DEF Surjection
<1> QED  BY <1>8 DEF f

LEMMA HistoryIs ==
    ASSUME NEW h \in Histories
    PROVE  /\ \E k \in 0..MaxHistory : h \in [1..k -> Match]
           /\ \A i, j \in DOMAIN h : h[i] = h[j] => i = j
           /\ Len(h) \in Nat /\ DOMAIN h = 1..Len(h) /\ Held(h) \subseteq Match
           /\ IsFiniteSet(DOMAIN h)
           /\ IsFiniteSet(Held(h)) /\ Cardinality(Held(h)) = Len(h)
<1>1. PICK k \in 0..MaxHistory : h \in [1..k -> Match]
  BY DEF Histories, Lists
<1>2. MaxHistory \in Nat
  BY InsightsAssumption
<1>3. k \in Nat
  BY <1>1, <1>2
<1>4. h \in Seq(Match) /\ Len(h) = k /\ DOMAIN h = 1..k
  BY <1>1, <1>3, SeqDef, LenProperties
<1>5. \A i, j \in DOMAIN h : h[i] = h[j] => i = j
  BY DEF Histories
<1>6. Held(h) \subseteq Match
  BY <1>1, <1>4 DEF Held
<1>7. IsFiniteSet(1..k) /\ Cardinality(1..k) = k
  <2>1. IsFiniteSet(1..k) /\ Cardinality(1..k) = IF 1 > k THEN 0 ELSE k - 1 + 1
    BY <1>3, FS_Interval
  <2> QED  BY <1>3, <2>1
<1>8. h \in Bijection(DOMAIN h, Held(h))
  <2>1. h \in [DOMAIN h -> Held(h)]
    BY <1>1, <1>4 DEF Held
  <2>2. h \in Injection(DOMAIN h, Held(h))
    BY <1>5, <2>1 DEF Injection, IsInjective
  <2>3. h \in Surjection(DOMAIN h, Held(h))
    BY <2>1 DEF Surjection, Held
  <2> QED  BY <2>2, <2>3 DEF Bijection
<1>9. IsFiniteSet(Held(h)) /\ Cardinality(Held(h)) = k
  <2>1. Held(h) = {h[i] : i \in DOMAIN h} /\ ExistsBijection(DOMAIN h, Held(h))
    BY <1>8 DEF Held, ExistsBijection
  <2>2. IsFiniteSet(Held(h))
    BY <1>4, <1>7, <1>8, FS_Surjection DEF Bijection
  <2> QED  BY <1>4, <1>7, <2>1, <2>2, FS_Bijection
<1> QED  BY <1>1, <1>3, <1>4, <1>5, <1>6, <1>7, <1>9

\* The rank of a match among the indices of a history is its place among the matches.
LEMMA RankIsPlace ==
    ASSUME NEW h \in Histories, NEW i \in DOMAIN h
    PROVE  Cardinality({j \in DOMAIN h : h[j].at < h[i].at}) = Place(Held(h), h[i])
<1> DEFINE J == {j \in DOMAIN h : h[j].at < h[i].at}
           P == Sooner(Held(h), h[i])
           f == [j \in J |-> h[j]]
<1>1. P = {h[j] : j \in J}
  BY DEF Held, Sooner
<1>2. \A j, l \in J : h[j] = h[l] => j = l
  BY HistoryIs
<1>3. IsFiniteSet(J)
  BY HistoryIs, FS_Subset
<1>4. h[i] \in Held(h)
  BY DEF Held
<1>5. IsFiniteSet(P)
  BY <1>4, HistoryIs, PlaceOf
<1> HIDE DEF J, P
<1>6. f \in [J -> P]
  BY <1>1
<1> HIDE DEF f
<1>7. f \in Bijection(J, P)
  <2>1. \A j \in J : f[j] = h[j]
    BY DEF f
  <2>2. f \in Injection(J, P)
    BY <1>2, <1>6, <2>1 DEF Injection, IsInjective
  <2>3. f \in Surjection(J, P)
    BY <1>1, <1>6, <2>1 DEF Surjection
  <2> QED  BY <2>2, <2>3 DEF Bijection
<1>8. ExistsBijection(J, P)
  BY <1>7 DEF ExistsBijection
<1>9. Cardinality(J) = Cardinality(P)
  BY <1>3, <1>5, <1>8, FS_Bijection
<1> QED  BY <1>9 DEF J, P, Place

\* The matches of S at their places.
InTime(S) == [n \in 1..Cardinality(S) |-> CHOOSE m \in S : Place(S, m) = n - 1]

\* The sort depends on the matches alone.
LEMMA ByTimeIs ==
    ASSUME NEW h \in Histories
    PROVE  ByTime(h, TRUE) = InTime(Held(h))
<1> DEFINE rank(i) == Cardinality({j \in DOMAIN h : h[j].at < h[i].at})
           spot(n) == CHOOSE i \in DOMAIN h : rank(i) = n - 1
<1>1. DOMAIN h = 1..Len(h)
  BY HistoryIs
<1>2. ByTime(h, TRUE) = [n \in DOMAIN h |-> h[spot(n)]]
  BY DEF ByTime
<1>3. \A i \in DOMAIN h : rank(i) = Place(Held(h), h[i]) /\ h[i] \in Held(h)
  BY RankIsPlace DEF Held
<1> HIDE DEF rank
<1>4. ASSUME NEW n \in 1..Len(h)
      PROVE  h[spot(n)] = CHOOSE m \in Held(h) : Place(Held(h), m) = n - 1
  <2> DEFINE c == CHOOSE m \in Held(h) : Place(Held(h), m) = n - 1
  <2>1. \E m \in Held(h) : Place(Held(h), m) = n - 1
    BY HistoryIs, PlacesTaken
  <2>2. c \in Held(h) /\ Place(Held(h), c) = n - 1
    BY <2>1
  <2>3. \E i \in DOMAIN h : rank(i) = n - 1
    BY <1>3, <2>1 DEF Held
  <2>4. spot(n) \in DOMAIN h /\ rank(spot(n)) = n - 1
    BY <2>3
  <2> HIDE DEF c, spot
  <2>5. h[spot(n)] \in Held(h) /\ Place(Held(h), h[spot(n)]) = Place(Held(h), c)
    BY <1>3, <2>2, <2>4
  <2>6. h[spot(n)] = c
    BY <2>2, <2>5, HistoryIs, PlacesDiffer
  <2> QED  BY <2>6 DEF c
<1> HIDE DEF spot
<1>5. Cardinality(Held(h)) = Len(h)
  BY HistoryIs
<1> QED  BY <1>1, <1>2, <1>4, <1>5 DEF InTime

\* The trends, of the sorted matches and how many they are.
TrendsOf(sorted, n) ==
    LET half == Most(1, n \div 2)
        kds == [i \in 1..n |-> Kd(sorted[i])]
        wins == [i \in 1..n |-> WinPct(sorted[i])]
        recent(s) == Average(s, n - half + 1, n)
        base(s) == Average(s, 1, half)
    IN [kd |-> Trend(Change(recent(kds), base(kds))),
        wins |-> Trend(recent(wins) - base(wins))]

\* Histories of the same matches have the same trends.
LEMMA TrendsOfMatches ==
    ASSUME NEW h \in Histories, NEW g \in Histories, Held(h) = Held(g)
    PROVE  Trends(h, TRUE) = Trends(g, TRUE)
<1>1. Len(h) = Len(g)
  BY HistoryIs
<1>2. ByTime(h, TRUE) = ByTime(g, TRUE)
  BY ByTimeIs
<1>3. \A x : Trends(x, TRUE) = TrendsOf(ByTime(x, TRUE), Len(x))
  BY DEF Trends, TrendsOf
<1> QED  BY <1>1, <1>2, <1>3

----------------------------------------------------------------------------
(* Reports.                                                                *)

LEMMA RoundedIs ==
    ASSUME NEW a \in Nat, NEW b \in Nat \ {0}
    PROVE  Rounded(a, b) \in Nat
<1>1. 2 * a + b \in Nat /\ 2 * b \in Nat /\ 2 * b > 0
  OBVIOUS
<1>2. \A x, y \in Nat : y > 0 => x \div y \in Nat
  OBVIOUS
<1> QED  BY <1>1, <1>2 DEF Rounded

LEMMA BonusIs ==
    ASSUME NEW least \in Nat, NEW base \in Nat, NEW a \in Nat, NEW b \in Nat
    PROVE  Most(least, base + Rounded(a, Most(1, b))) \in Nat
<1>1. Most(1, b) \in Nat \ {0}
  BY DEF Most
<1>2. Rounded(a, Most(1, b)) \in Nat
  BY <1>1, RoundedIs
<1> QED  BY <1>2 DEF Most

\* What an agent is given of the latest match, and of the statistics.
MatchGiven == Match \cup {Nothing}
StatsGiven == Statistics \cup {Nothing}

LEMMA GivenIs ==
    /\ \A m \in MatchGiven : \A d :
          /\ d \in Nat => \A key \in {"kills", "deaths", "assists"} : Get(m, key, d) \in Nat
          /\ d \in Agent => Get(m, "agent", d) \in Agent
    /\ \A s \in StatsGiven, d \in Nat :
          \A key \in {"kills", "deaths", "assists", "win_pct"} : Get(s, key, d) \in Nat
<1>1. ASSUME NEW m \in MatchGiven, NEW d
      PROVE  /\ d \in Nat => \A key \in {"kills", "deaths", "assists"} : Get(m, key, d) \in Nat
             /\ d \in Agent => Get(m, "agent", d) \in Agent
  <2>1. CASE m = Nothing
    BY <2>1 DEF Nothing, Get
  <2>2. CASE m \in Match
    <3>1. m \in [at : Nat \ {0}, kills : Nat, deaths : Nat, assists : Nat,
                 result : STRING, agent : Agent]
      BY <2>2, InsightsAssumption
    <3> QED  BY <3>1 DEF Get
  <2> QED  BY <2>1, <2>2 DEF MatchGiven
<1>2. ASSUME NEW s \in StatsGiven, NEW d \in Nat
      PROVE  \A key \in {"kills", "deaths", "assists", "win_pct"} : Get(s, key, d) \in Nat
  <2>1. CASE s = Nothing
    BY <2>1 DEF Nothing, Get
  <2>2. CASE s \in Statistics
    <3>1. s \in [kills : Nat, deaths : Nat, assists : Nat, win_pct : Nat, headshots : Nat]
      BY <2>2, InsightsAssumption
    <3> QED  BY <3>1 DEF Get
  <2> QED  BY <2>1, <2>2 DEF StatsGiven
<1> QED  BY <1>1, <1>2

LEMMA RoleAnalysisIs ==
    ASSUME NEW a \in Agent, NEW m \in MatchGiven, NEW s \in StatsGiven
    PROVE  \A r : r = RoleAnalysis(a, m, s) =>
             /\ DOMAIN r = {"role", "role_score", "main_mistake", "drill"}
             /\ r.role_score \in 0..1000
             /\ r.main_mistake \in Cause /\ r.drill \in Cause
<1> DEFINE role == IF RoleOf[a] = "none" THEN "Flex" ELSE RoleOf[a]
           slain == Get(m, "kills", Get(s, "kills", 12))
           died == Get(m, "deaths", Get(s, "deaths", 10))
           helped == Get(m, "assists", Get(s, "assists", 4))
           points ==
             CASE role = "Duelist" ->
                    Most(250, 500 + Rounded(250 * slain, Most(1, died)))
               [] role \in {"Initiator", "Controller"} ->
                    Most(300, 550 + Rounded(500 * helped, Most(1, slain + helped)))
               [] OTHER -> Most(350, 500 + 25 * Most(0, 15 - died))
<1>1. RoleAnalysis(a, m, s) = [role |-> role, role_score |-> Least(950, points),
                               main_mistake |-> role, drill |-> role]
  BY DEF RoleAnalysis
<1>2. role \in Cause
  BY CatalogAssumption DEF Role, Cause
<1>3. slain \in Nat /\ died \in Nat /\ helped \in Nat
  <2>1. /\ Get(s, "kills", 12) \in Nat /\ Get(s, "deaths", 10) \in Nat
        /\ Get(s, "assists", 4) \in Nat
    BY GivenIs
  <2> QED  BY <2>1, GivenIs
<1> HIDE DEF role, slain, died, helped
<1>4. points \in Nat
  <2>1. Most(250, 500 + Rounded(250 * slain, Most(1, died))) \in Nat
    <3>1. 250 * slain \in Nat
      BY <1>3
    <3> QED  BY <1>3, <3>1, BonusIs
  <2>2. Most(300, 550 + Rounded(500 * helped, Most(1, slain + helped))) \in Nat
    <3> DEFINE part == 500 * helped  whole == slain + helped
    <3>1. part \in Nat /\ whole \in Nat
      BY <1>3
    <3> HIDE DEF part, whole
    <3>2. Most(300, 550 + Rounded(part, Most(1, whole))) \in Nat
      BY <3>1, BonusIs
    <3> QED  BY <3>2 DEF part, whole
  <2>3. Most(350, 500 + 25 * Most(0, 15 - died)) \in Nat
    <3>1. Most(0, 15 - died) \in Nat
      BY <1>3 DEF Most
    <3> QED  BY <3>1 DEF Most
  <2> QED  BY <2>1, <2>2, <2>3
<1> HIDE DEF points
<1>5. Least(950, points) \in 0..1000
  BY <1>4 DEF Least
<1> QED  BY <1>1, <1>2, <1>5

LEMMA MatchAnalysisIs ==
    ASSUME NEW m, NEW s
    PROVE  \A r : r = MatchAnalysis(m, s) =>
             /\ DOMAIN r = {"main_mistake", "drill", "metrics"}
             /\ r.main_mistake \in Cause /\ r.drill \in Cause
BY DEF MatchAnalysis, Cause

LEMMA EconomyAnalysisIs ==
    ASSUME NEW m, NEW s
    PROVE  \A r : r = EconomyAnalysis(m, s) =>
             /\ DOMAIN r = {"economy_rating", "buy_discipline_score", "main_mistake", "drill"}
             /\ r.main_mistake \in Cause /\ r.drill \in Cause
BY DEF EconomyAnalysis, Cause

LEMMA ThreeLines ==
    ASSUME NEW x \in Cause, NEW y \in Cause, NEW z \in Cause
    PROVE  LET lines == {<<"combat", x>>, <<"economy", y>>, <<"role", z>>} IN
             lines \in SUBSET Line /\ Cardinality(lines) = 3
<1> DEFINE a == <<"combat", x>>  b == <<"economy", y>>  c == <<"role", z>>
<1>1. a # b /\ b # c /\ a # c /\ a \in Line /\ b \in Line /\ c \in Line
  BY DEF Line, Cause
<1> HIDE DEF a, b, c
<1>2. IsFiniteSet({a}) /\ Cardinality({a}) = 1
  BY FS_Singleton
<1>3. IsFiniteSet({a} \cup {b}) /\ Cardinality({a} \cup {b}) = 2
  BY <1>1, <1>2, FS_AddElement
<1>4. Cardinality(({a} \cup {b}) \cup {c}) = 3
  BY <1>1, <1>3, FS_AddElement
<1>5. {a, b, c} = ({a} \cup {b}) \cup {c}
  OBVIOUS
<1>6. {a, b, c} \in SUBSET Line /\ Cardinality({a, b, c}) = 3
  BY <1>1, <1>4, <1>5
<1> QED  BY <1>6 DEF a, b, c

\* Each of the three analyses has a flaw and a drill, and the first has no "kd_ratio".
LEMMA WrittenIs ==
    ASSUME NEW m, NEW e, NEW r,
           \A d \in {m, e, r} : /\ {"main_mistake", "drill"} \subseteq DOMAIN d
                                /\ d["main_mistake"] \in Cause /\ d["drill"] \in Cause,
           "kd_ratio" \notin DOMAIN m,
           "role_score" \in DOMAIN r, r["role_score"] \in 0..1000
    PROVE  Written(m, e, r) \in Payload
<1> DEFINE analyses == {<<"combat", m>>, <<"economy", e>>, <<"role", r>>}
           lines(key) == {<<a[1], a[2][key]>> : a \in {b \in analyses : key \in DOMAIN b[2]}}
           good == {IF Get(m, "kd_ratio", 100) >= 100 THEN "duels" ELSE "assists",
                    IF Get(e, "economy_rating", 700) >= 700 THEN "discipline" ELSE "utility"}
<1>1. Written(m, e, r) = [kd |-> Get(m, "kd_ratio", 100),
                          role_score |-> Get(r, "role_score", 700), key_strengths |-> good,
                          critical_flaws |-> lines("main_mistake"),
                          training_plan |-> lines("drill")]
  BY DEF Written
<1>2. ASSUME NEW key \in {"main_mistake", "drill"}
      PROVE  /\ lines(key) \in SUBSET Line /\ Cardinality(lines(key)) = 3
  <2>1. {b \in analyses : key \in DOMAIN b[2]} = analyses
    OBVIOUS
  <2>2. lines(key) = {<<"combat", m[key]>>, <<"economy", e[key]>>, <<"role", r[key]>>}
    <3>1. lines(key) = {<<a[1], a[2][key]>> : a \in analyses}
      BY <2>1
    <3>2. \A x, y : <<x, y>>[1] = x /\ <<x, y>>[2] = y
      OBVIOUS
    <3> QED  BY <3>1, <3>2
  <2>3. m[key] \in Cause /\ e[key] \in Cause /\ r[key] \in Cause
    OBVIOUS
  <2> HIDE DEF lines
  <2> QED  BY <2>2, <2>3, ThreeLines
<1>3. good \in SUBSET {"duels", "assists", "discipline", "utility"}
  OBVIOUS
<1>4. Get(m, "kd_ratio", 100) \in Nat /\ Get(r, "role_score", 700) \in 0..1000
  BY DEF Get
<1> HIDE DEF good, lines
<1> QED  BY <1>1, <1>2, <1>3, <1>4 DEF Payload

\* A report has the parts, and the numbers within the bounds, that its readers expect.
LEMMA ReportIs ==
    ASSUME NEW ms \in Histories, NEW s \in StatsGiven
    PROVE  Report(ms, s) \in Payload
<1> DEFINE match == IF ms = <<>> THEN [x \in {} |-> x] ELSE ms[1]
           agent == Get(match, "agent", "Unknown")
           m == MatchAnalysis(match, s)
           e == EconomyAnalysis(match, s)
           r == RoleAnalysis(agent, match, s)
<1>1. Report(ms, s) = Written(m, e, r)
  BY DEF Report
<1>2. match \in MatchGiven
  <2>1. CASE ms = <<>>
    BY <2>1 DEF MatchGiven, Nothing
  <2>2. CASE ms # <<>>
    <3>1. PICK k \in 0..MaxHistory : ms \in [1..k -> Match]
      BY HistoryIs
    <3>2. k # 0
      BY <2>2, <3>1
    <3>3. k \in Nat
      BY <3>1, InsightsAssumption
    <3>4. ms[1] \in Match
      BY <3>1, <3>2, <3>3
    <3> QED  BY <2>2, <3>4 DEF MatchGiven
  <2> QED  BY <2>1, <2>2
<1> HIDE DEF match
<1>3. agent \in Agent
  BY <1>2, GivenIs, InsightsAssumption
<1> HIDE DEF agent
<1>4. /\ DOMAIN m = {"main_mistake", "drill", "metrics"}
      /\ m.main_mistake \in Cause /\ m.drill \in Cause
  BY MatchAnalysisIs
<1>5. /\ DOMAIN e = {"economy_rating", "buy_discipline_score", "main_mistake", "drill"}
      /\ e.main_mistake \in Cause /\ e.drill \in Cause
  BY EconomyAnalysisIs
<1>6. /\ DOMAIN r = {"role", "role_score", "main_mistake", "drill"}
      /\ r.role_score \in 0..1000
      /\ r.main_mistake \in Cause /\ r.drill \in Cause
  BY <1>2, <1>3, RoleAnalysisIs
<1> HIDE DEF m, e, r
<1>7. Written(m, e, r) \in Payload
  BY <1>4, <1>5, <1>6, WrittenIs
<1> QED  BY <1>1, <1>7

----------------------------------------------------------------------------
(* Drafts.                                                                 *)

LEMMA ListIs ==
    ASSUME NEW S, NEW k \in Nat, NEW s \in Lists(S, k)
    PROVE  s \in Seq(S) /\ Len(s) \in 0..k
<1>1. PICK l \in 0..k : s \in [1..l -> S]
  BY DEF Lists
<1>2. s \in Seq(S) /\ Len(s) = l
  BY <1>1, SeqDef, LenProperties
<1> QED  BY <1>1, <1>2

LEMMA SeqIsList ==
    ASSUME NEW S, NEW k \in Nat, NEW s \in Seq(S), Len(s) <= k
    PROVE  s \in Lists(S, k)
<1>1. Len(s) \in 0..k /\ s \in [1..Len(s) -> S]
  BY LenProperties
<1> QED  BY <1>1 DEF Lists

LEMMA ResolvedIs ==
    ASSUME NEW s \in Seq(Name)
    PROVE  /\ Resolved(s) \in Seq(Agent) /\ Len(Resolved(s)) = Len(s)
           /\ \A n \in Name : Resolved(Append(s, n)) = Append(Resolved(s), AgentOf[n])
<1>1. Len(s) \in Nat /\ DOMAIN s = 1..Len(s) /\ \A i \in 1..Len(s) : s[i] \in Name
  BY LenProperties, ElementOfSeq
<1>2. AgentOf \in [Name -> Agent]
  BY CatalogAssumption
<1>3. Resolved(s) \in [1..Len(s) -> Agent]
  BY <1>1, <1>2 DEF Resolved
<1>4. Resolved(s) \in Seq(Agent) /\ Len(Resolved(s)) = Len(s)
  BY <1>1, <1>3, SeqDef, LenProperties
<1>5. ASSUME NEW n \in Name
      PROVE  Resolved(Append(s, n)) = Append(Resolved(s), AgentOf[n])
  <2> DEFINE a == Append(s, n)
             last == Len(s) + 1
  <2>1. /\ a \in Seq(Name) /\ Len(a) = last
        /\ \A i \in 1..Len(s) : a[i] = s[i]
        /\ a[last] = n
    BY AppendProperties
  <2>2. DOMAIN a = 1..last
    BY <2>1, LenProperties
  <2> HIDE DEF a
  <2>3. Resolved(a) = [i \in 1..last |-> AgentOf[a[i]]]
    BY <2>2 DEF Resolved
  <2>4. \A i \in 1..Len(s) : Resolved(s)[i] = AgentOf[s[i]]
    BY <1>1 DEF Resolved
  <2> DEFINE r == Append(Resolved(s), AgentOf[n])
  <2>5. /\ r \in Seq(Agent) /\ Len(r) = last
        /\ \A i \in 1..Len(s) : r[i] = Resolved(s)[i]
        /\ r[last] = AgentOf[n]
    BY <1>2, <1>4, AppendProperties
  <2>6. r \in [1..last -> Agent]
    BY <2>5, LenProperties
  <2> HIDE DEF r
  <2>7. \A i \in 1..last : r[i] = AgentOf[a[i]]
    BY <1>1, <2>1, <2>4, <2>5
  <2>8. r = [i \in 1..last |-> AgentOf[a[i]]]
    BY <2>6, <2>7
  <2> QED  BY <2>3, <2>8 DEF a, r
<1> QED  BY <1>4, <1>5

\* Slots of a sequence are finitely many.
LEMMA SlotsFinite ==
    ASSUME NEW S, NEW s \in Seq(S), NEW T, T \subseteq DOMAIN s
    PROVE  IsFiniteSet(T) /\ Cardinality(T) \in Nat
<1>1. DOMAIN s = 1..Len(s) /\ Len(s) \in Nat
  BY LenProperties
<1>2. 1 \in Int /\ Len(s) \in Int
  BY <1>1
<1>3. IsFiniteSet(DOMAIN s)
  BY <1>1, <1>2, FS_Interval
<1> QED  BY <1>3, FS_Subset, FS_CardinalityType

\* One more agent counts for his role, and no other.
LEMMA RoleCountIs ==
    ASSUME NEW team \in Seq(Agent), NEW role
    PROVE  /\ RoleCount(team, role) \in Nat
           /\ RoleCount(team, role) = 0 <=> \A i \in DOMAIN team : RoleOf[team[i]] # role
           /\ \A a \in Agent : RoleCount(Append(team, a), role)
                                 = RoleCount(team, role) + If(RoleOf[a] = role, 1)
<1> DEFINE T == {i \in DOMAIN team : RoleOf[team[i]] = role}
<1>1. IsFiniteSet(T) /\ Cardinality(T) \in Nat
  BY SlotsFinite
<1>2. Cardinality(T) = 0 <=> T = {}
  BY <1>1, FS_EmptySet
<1>3. ASSUME NEW a \in Agent
      PROVE  RoleCount(Append(team, a), role) = RoleCount(team, role) + If(RoleOf[a] = role, 1)
  <2> DEFINE t == Append(team, a)
             U == {i \in DOMAIN t : RoleOf[t[i]] = role}
  <2>1. /\ t \in Seq(Agent) /\ Len(t) = Len(team) + 1
        /\ \A i \in 1..Len(team) : t[i] = team[i]
        /\ t[Len(team) + 1] = a
    BY AppendProperties
  <2>2. Len(team) \in Nat /\ DOMAIN team = 1..Len(team) /\ DOMAIN t = 1..(Len(team) + 1)
    BY <2>1, LenProperties
  <2> HIDE DEF t
  <2>3. U = IF RoleOf[a] = role THEN T \cup {Len(team) + 1} ELSE T
    BY <2>1, <2>2
  <2>4. Len(team) + 1 \notin T
    BY <2>2
  <2> HIDE DEF T, U
  <2>5. Cardinality(U) = IF RoleOf[a] = role THEN Cardinality(T) + 1 ELSE Cardinality(T)
    BY <1>1, <2>3, <2>4, FS_AddElement
  <2>6. Cardinality(U) = Cardinality(T) + If(RoleOf[a] = role, 1)
    BY <1>1, <2>5 DEF If
  <2> QED  BY <2>6 DEF RoleCount, T, U, t
<1> QED  BY <1>1, <1>2, <1>3 DEF RoleCount

LEMMA FirstOfConcat ==
    ASSUME NEW s \in Seq(Role), NEW t \in Seq(Role), Len(s) > 0
    PROVE  s \o t \in Seq(Role) /\ Len(s \o t) > 0 /\ (s \o t)[1] = s[1]
<1>1. Len(s) \in Nat /\ Len(t) \in Nat
  BY LenProperties
<1>2. /\ s \o t \in Seq(Role) /\ Len(s \o t) = Len(s) + Len(t)
      /\ \A i \in 1..Len(s) + Len(t) :
            (s \o t)[i] = IF i <= Len(s) THEN s[i] ELSE t[i - Len(s)]
  BY ConcatProperties
<1> QED  BY <1>1, <1>2

\* A team without smokes has no controller, which is its first weakness.
LEMMA NeverUnsmoked ==
    ASSUME NEW team \in Seq(Agent)
    PROVE  ~Unsmoked(team)
<1> SUFFICES ASSUME ~Some(team, Smokes) PROVE Weaknesses(team)[1] = "Controller"
  BY DEF Unsmoked
<1>1. \A i \in DOMAIN team : team[i] \in Agent
  BY LenProperties, ElementOfSeq
<1>2. \A i \in DOMAIN team : RoleOf[team[i]] # "Controller"
  BY <1>1, DraftAssumption DEF Some
<1>3. RoleCount(team, "Controller") = 0
  BY <1>2, RoleCountIs
<1> DEFINE c == IF RoleCount(team, "Controller") = 0 THEN <<"Controller">> ELSE <<>>
           i == IF RoleCount(team, "Initiator") = 0 THEN <<"Initiator">> ELSE <<>>
           s == IF RoleCount(team, "Sentinel") = 0 THEN <<"Sentinel">> ELSE <<>>
           d == IF RoleCount(team, "Duelist") = 0 \/ RoleCount(team, "Duelist") > 2
                THEN <<"Duelist">> ELSE <<>>
<1>4. Weaknesses(team) = ((c \o i) \o s) \o d
  BY DEF Weaknesses
<1>5. /\ c \in Seq(Role) /\ i \in Seq(Role) /\ s \in Seq(Role) /\ d \in Seq(Role)
      /\ Len(c) > 0 /\ c[1] = "Controller"
  <2>1. <<>> \in Seq(Role)
    BY EmptySeq
  <2>2. ASSUME NEW r \in Role
        PROVE  <<r>> \in Seq(Role) /\ Len(<<r>>) = 1 /\ <<r>>[1] = r
    OBVIOUS
  <2>3. {"Controller", "Initiator", "Sentinel", "Duelist"} \subseteq Role
    BY DEF Role
  <2>4. c = <<"Controller">>
    BY <1>3
  <2>5. Len(c) = 1 /\ c[1] = "Controller" /\ c \in Seq(Role)
    BY <2>2, <2>3, <2>4
  <2>6. i \in Seq(Role) /\ s \in Seq(Role) /\ d \in Seq(Role)
    BY <2>1, <2>2, <2>3
  <2> QED  BY <2>5, <2>6
<1> HIDE DEF c, i, s, d
<1>6. c \o i \in Seq(Role) /\ Len(c \o i) > 0 /\ (c \o i)[1] = "Controller"
  BY <1>5, FirstOfConcat
<1>7. /\ (c \o i) \o s \in Seq(Role) /\ Len((c \o i) \o s) > 0
      /\ ((c \o i) \o s)[1] = "Controller"
  BY <1>5, <1>6, FirstOfConcat
<1> QED  BY <1>4, <1>5, <1>7, FirstOfConcat

\* t is s, with more agents perhaps.
Extends(t, s) == DOMAIN s \subseteq DOMAIN t /\ \A i \in DOMAIN s : t[i] = s[i]

LEMMA AppendExtends ==
    ASSUME NEW s \in Seq(Agent), NEW a \in Agent
    PROVE  /\ Append(s, a) \in Seq(Agent)
           /\ Extends(Append(s, a), s) /\ Extends(s, s)
<1>1. /\ Append(s, a) \in Seq(Agent) /\ Len(Append(s, a)) = Len(s) + 1
      /\ \A i \in 1..Len(s) : Append(s, a)[i] = s[i]
  BY AppendProperties
<1>2. Len(s) \in Nat /\ DOMAIN s = 1..Len(s) /\ DOMAIN Append(s, a) = 1..(Len(s) + 1)
  BY <1>1, LenProperties
<1> QED  BY <1>1, <1>2 DEF Extends

\* The points for roles fall only when a third duelist comes.
LEMMA RolePointsGrow ==
    ASSUME NEW s \in Seq(Agent)
    PROVE  /\ RolePoints(s) \in Int
           /\ \A a \in Agent : RoleCount(Append(s, a), "Duelist") # 3
                                  => RolePoints(Append(s, a)) >= RolePoints(s)
<1>1. RolePoints(s) \in Int
  <2> DEFINE c == RoleCount(s, "Controller")  i == RoleCount(s, "Initiator")
             n == RoleCount(s, "Sentinel")    d == RoleCount(s, "Duelist")
  <2>1. c \in Nat /\ i \in Nat /\ n \in Nat /\ d \in Nat
    BY RoleCountIs
  <2>2. RolePoints(s) = (IF c = 0 THEN -25 ELSE 6) + (IF i = 0 THEN -15 ELSE 5)
                        + (IF n = 0 THEN -8 ELSE 4)
                        + (IF d = 0 THEN -5 ELSE IF d > 2 THEN -14 ELSE 4)
    BY DEF RolePoints
  <2> HIDE DEF c, i, n, d
  <2> QED  BY <2>1, <2>2
<1>2. ASSUME NEW a \in Agent, RoleCount(Append(s, a), "Duelist") # 3
      PROVE  RolePoints(Append(s, a)) >= RolePoints(s)
  <2> DEFINE t == Append(s, a)
             c == RoleCount(s, "Controller")  cc == RoleCount(t, "Controller")
             i == RoleCount(s, "Initiator")   ii == RoleCount(t, "Initiator")
             e == RoleCount(s, "Sentinel")    ee == RoleCount(t, "Sentinel")
             d == RoleCount(s, "Duelist")     dd == RoleCount(t, "Duelist")
  <2>1. c \in Nat /\ i \in Nat /\ e \in Nat /\ d \in Nat
    BY RoleCountIs
  <2>2. \A role : \/ RoleCount(t, role) = RoleCount(s, role)
                  \/ RoleCount(t, role) = RoleCount(s, role) + 1
    <3>1. \A role : RoleCount(s, role) \in Nat
      BY RoleCountIs
    <3>2. \A role : RoleCount(t, role) = RoleCount(s, role) + If(RoleOf[a] = role, 1)
      BY RoleCountIs
    <3> QED  BY <3>1, <3>2 DEF If
  <2>3. /\ cc = c \/ cc = c + 1
        /\ ii = i \/ ii = i + 1
        /\ ee = e \/ ee = e + 1
        /\ dd = d \/ dd = d + 1
    BY <2>2
  <2>4. RolePoints(s) = (IF c = 0 THEN -25 ELSE 6) + (IF i = 0 THEN -15 ELSE 5)
                        + (IF e = 0 THEN -8 ELSE 4)
                        + (IF d = 0 THEN -5 ELSE IF d > 2 THEN -14 ELSE 4)
    BY DEF RolePoints
  <2>5. RolePoints(t) = (IF cc = 0 THEN -25 ELSE 6) + (IF ii = 0 THEN -15 ELSE 5)
                        + (IF ee = 0 THEN -8 ELSE 4)
                        + (IF dd = 0 THEN -5 ELSE IF dd > 2 THEN -14 ELSE 4)
    BY DEF RolePoints
  <2>6. dd # 3
    BY <1>2
  <2> HIDE DEF c, cc, i, ii, e, ee, d, dd, t
  <2> QED  BY <2>1, <2>3, <2>4, <2>5, <2>6 DEF t
<1> QED  BY <1>1, <1>2

\* The points for utility do not fall.
LEMMA UtilityPointsGrow ==
    ASSUME NEW s \in Seq(Agent), NEW t \in Seq(Agent), Extends(t, s)
    PROVE  UtilityPoints(s) \in Int /\ UtilityPoints(t) \in Int
           /\ UtilityPoints(t) >= UtilityPoints(s)
<1>1. ~Unsmoked(s) /\ ~Unsmoked(t)
  BY NeverUnsmoked
<1>2. \A set : Some(s, set) => Some(t, set)
  BY DEF Some, Extends
<1> QED  BY <1>1, <1>2 DEF UtilityPoints, If

\* The points for strong agents do not fall.
LEMMA MetaPointsGrow ==
    ASSUME NEW s \in Seq(Agent), NEW t \in Seq(Agent), Extends(t, s)
    PROVE  MetaPoints(s) \in Int /\ MetaPoints(t) \in Int /\ MetaPoints(t) >= MetaPoints(s)
<1> DEFINE S == {i \in DOMAIN s : s[i] \in Meta}
           T == {i \in DOMAIN t : t[i] \in Meta}
<1>1. S \subseteq T
  BY DEF Extends
<1>2. IsFiniteSet(T) /\ Cardinality(S) \in Nat /\ Cardinality(T) \in Nat
  BY SlotsFinite
<1>3. Cardinality(S) <= Cardinality(T)
  BY <1>1, <1>2, FS_Subset
<1>4. /\ MetaPoints(s) = Least(3 * Cardinality(S), 12)
      /\ MetaPoints(t) = Least(3 * Cardinality(T), 12)
  BY DEF MetaPoints
<1> HIDE DEF S, T
<1> QED  BY <1>2, <1>3, <1>4 DEF Least

\* More of either side counters no fewer.
LEMMA CounteredGrow ==
    ASSUME NEW s \in Seq(Agent), NEW t \in Seq(Agent), Extends(t, s),
           NEW e \in Seq(Agent), NEW f \in Seq(Agent), Extends(f, e)
    PROVE  /\ Cardinality(Countered(s, e)) \in Nat /\ Cardinality(Countered(t, f)) \in Nat
           /\ Cardinality(Countered(t, f)) >= Cardinality(Countered(s, e))
<1> DEFINE S == Countered(s, e)
           T == Countered(t, f)
<1>1. S \subseteq T
  BY DEF Extends, Countered
<1>2. S \subseteq DOMAIN e /\ T \subseteq DOMAIN f
  BY DEF Countered
<1> HIDE DEF S, T
<1>3. IsFiniteSet(T) /\ Cardinality(S) \in Nat /\ Cardinality(T) \in Nat
  BY <1>2, SlotsFinite
<1>4. Cardinality(S) <= Cardinality(T)
  BY <1>1, <1>3, FS_Subset
<1> QED  BY <1>3, <1>4 DEF S, T

LEMMA ClampIs ==
    /\ \A n \in Int : Clamp(n) \in 10..100
    /\ \A m, n \in Int : m <= n => Clamp(m) <= Clamp(n)
BY DEF Clamp, Most, Least

\* The score of a composition before it is clamped.
Points(team, enemies) ==
    75 + RolePoints(team) + UtilityPoints(team) + MetaPoints(team)
       + If(Cardinality(Countered(team, enemies)) >= 2, 5)

\* Hence the points fall only with those for roles.
LEMMA PointsGrow ==
    ASSUME NEW s \in Seq(Agent), NEW t \in Seq(Agent), Extends(t, s),
           NEW e \in Seq(Agent), NEW f \in Seq(Agent), Extends(f, e)
    PROVE  /\ Points(s, e) \in Int /\ Points(t, f) \in Int
           /\ RolePoints(t) >= RolePoints(s) => Points(t, f) >= Points(s, e)
<1>1. RolePoints(s) \in Int /\ RolePoints(t) \in Int
  BY RolePointsGrow
<1>2. /\ UtilityPoints(s) \in Int /\ UtilityPoints(t) \in Int
      /\ UtilityPoints(t) >= UtilityPoints(s)
  BY UtilityPointsGrow
<1>3. /\ MetaPoints(s) \in Int /\ MetaPoints(t) \in Int
      /\ MetaPoints(t) >= MetaPoints(s)
  BY MetaPointsGrow
<1> DEFINE k == If(Cardinality(Countered(s, e)) >= 2, 5)
           l == If(Cardinality(Countered(t, f)) >= 2, 5)
<1>4. k \in Int /\ l \in Int /\ l >= k
  BY CounteredGrow DEF If
<1> HIDE DEF k, l
<1>5. /\ Points(s, e) = 75 + RolePoints(s) + UtilityPoints(s) + MetaPoints(s) + k
      /\ Points(t, f) = 75 + RolePoints(t) + UtilityPoints(t) + MetaPoints(t) + l
  BY DEF Points, k, l
<1> QED  BY <1>1, <1>2, <1>3, <1>4, <1>5

\* The score of names is the clamped points of the agents they resolve to.
LEMMA ScoreIs ==
    ASSUME NEW a \in Seq(Name), NEW f \in Seq(Name)
    PROVE  /\ SynergyScore(a, f) = Clamp(Points(Resolved(a), Resolved(f)))
           /\ Points(Resolved(a), Resolved(f)) \in Int
           /\ SynergyScore(a, f) \in 10..100
<1>1. SynergyScore(a, f) = Clamp(Points(Resolved(a), Resolved(f)))
  BY DEF SynergyScore, Points
<1>2. Resolved(a) \in Seq(Agent) /\ Resolved(f) \in Seq(Agent)
  BY ResolvedIs
<1>3. \A s : Extends(s, s)
  BY DEF Extends
<1>4. Points(Resolved(a), Resolved(f)) \in Int
  BY <1>2, <1>3, PointsGrow
<1> QED  BY <1>1, <1>4, ClampIs

\* With one more name on either side, only a third duelist can lower the score.
LEMMA ScoreGrows ==
    ASSUME NEW a \in Seq(Name), NEW f \in Seq(Name), NEW n \in Name
    PROVE  /\ RoleCount(Resolved(Append(a, n)), "Duelist") # 3
                => SynergyScore(Append(a, n), f) >= SynergyScore(a, f)
           /\ SynergyScore(a, Append(f, n)) >= SynergyScore(a, f)
<1> DEFINE s == Resolved(a)  e == Resolved(f)  x == AgentOf[n]
<1>1. s \in Seq(Agent) /\ e \in Seq(Agent) /\ x \in Agent
  BY ResolvedIs, CatalogAssumption
<1>2. Append(a, n) \in Seq(Name) /\ Append(f, n) \in Seq(Name)
  BY AppendProperties
<1>3. Resolved(Append(a, n)) = Append(s, x) /\ Resolved(Append(f, n)) = Append(e, x)
  BY ResolvedIs
<1>4. /\ SynergyScore(a, f) = Clamp(Points(s, e)) /\ Points(s, e) \in Int
      /\ SynergyScore(Append(a, n), f) = Clamp(Points(Append(s, x), e))
      /\ Points(Append(s, x), e) \in Int
      /\ SynergyScore(a, Append(f, n)) = Clamp(Points(s, Append(e, x)))
      /\ Points(s, Append(e, x)) \in Int
  BY <1>2, <1>3, ScoreIs
<1> HIDE DEF s, e, x
<1>5. /\ Append(s, x) \in Seq(Agent) /\ Extends(Append(s, x), s) /\ Extends(s, s)
      /\ Append(e, x) \in Seq(Agent) /\ Extends(Append(e, x), e) /\ Extends(e, e)
  BY <1>1, AppendExtends
<1>6. RoleCount(Append(s, x), "Duelist") # 3 => Points(Append(s, x), e) >= Points(s, e)
  <2>1. RoleCount(Append(s, x), "Duelist") # 3 => RolePoints(Append(s, x)) >= RolePoints(s)
    BY <1>1, RolePointsGrow
  <2> QED  BY <1>1, <1>5, <2>1, PointsGrow
<1>7. Points(s, Append(e, x)) >= Points(s, e)
  <2>1. RolePoints(s) \in Int
    BY <1>1, RolePointsGrow
  <2>2. RolePoints(s) >= RolePoints(s)
    BY <2>1
  <2> QED  BY <1>1, <1>5, <2>2, PointsGrow
<1>8. RoleCount(Append(s, x), "Duelist") # 3
        => SynergyScore(Append(a, n), f) >= SynergyScore(a, f)
  BY <1>4, <1>6, ClampIs
<1>9. SynergyScore(a, Append(f, n)) >= SynergyScore(a, f)
  BY <1>4, <1>7, ClampIs
<1> QED  BY <1>3, <1>8, <1>9

LEMMA PicksAtMost ==
    ASSUME NEW a, NEW f, NEW h, NEW top \in Nat
    PROVE  Len(CounterPicks(a, f, h, top)) <= top
<1> DEFINE open == {i \in DOMAIN Agents : ~Some(Resolved(a), {Agents[i]})}
           k == Cardinality(open)
           score(i) == PickScore(Agents[i], Resolved(a), Resolved(f), h)
           above(i, j) == score(i) > score(j) \/ (score(i) = score(j) /\ i < j)
           ranked == [n \in 1..k |->
              Agents[CHOOSE i \in open : Cardinality({j \in open : above(j, i)}) = n - 1]]
           V == {ranked[n] : n \in 1..k}
<1>1. CounterPicks(a, f, h, top) = SubSeq(ranked, 1, Least(top, Len(ranked)))
  BY DEF CounterPicks
<1>2. k \in Nat
  BY CatalogAssumption, SlotsFinite
<1>3. DOMAIN ranked = 1..k
  OBVIOUS
<1> HIDE DEF ranked, k
<1>4. ranked \in [1..k -> V]
  <2>1. ranked = [n \in 1..k |-> ranked[n]]
    BY DEF ranked
  <2> QED  BY <2>1
<1>5. Len(ranked) = k
  BY <1>2, <1>4, SeqDef, LenProperties
<1> DEFINE l == Least(top, k)
<1>6. l \in Nat /\ l <= top /\ l <= k
  BY <1>2 DEF Least
<1> HIDE DEF l
<1>7. \A i \in 1..l : ranked[i] \in V
  BY <1>2, <1>6
<1> HIDE DEF V
<1>8. Len(SubSeq(ranked, 1, l)) = IF 1 <= l THEN l - 1 + 1 ELSE 0
  BY <1>6, <1>7, SubSeqProperties
<1> QED  BY <1>1, <1>5, <1>6, <1>8 DEF l

----------------------------------------------------------------------------
(* The counter picks.  A strict total order of a finite set puts each of    *)
(* its members at a rank of its own, and every rank is taken.               *)

Orders(R, S) ==
    /\ \A x \in S : <<x, x>> \notin R
    /\ \A x, y \in S : x # y => <<x, y>> \in R \/ <<y, x>> \in R
    /\ \A x, y, z \in S : <<x, y>> \in R /\ <<y, z>> \in R => <<x, z>> \in R

Higher(R, S, x) == {y \in S : <<y, x>> \in R}

\* Along an order of a finite set the number of members before one increases.
LEMMA RanksIncrease ==
    ASSUME NEW S, IsFiniteSet(S), NEW R, Orders(R, S),
           NEW x \in S, NEW y \in S, <<x, y>> \in R
    PROVE  Cardinality(Higher(R, S, x)) < Cardinality(Higher(R, S, y))
<1>1. Higher(R, S, x) \in SUBSET Higher(R, S, y)
  BY DEF Higher, Orders
<1>2. x \in Higher(R, S, y) /\ x \notin Higher(R, S, x)
  BY DEF Higher, Orders
<1>3. Higher(R, S, y) \in SUBSET S
  BY DEF Higher
<1>4. IsFiniteSet(Higher(R, S, y))
  BY <1>3, FS_Subset
<1>5. /\ IsFiniteSet(Higher(R, S, x))
      /\ Cardinality(Higher(R, S, x)) <= Cardinality(Higher(R, S, y))
      /\ Cardinality(Higher(R, S, y)) = Cardinality(Higher(R, S, x))
            => Higher(R, S, y) = Higher(R, S, x)
  BY <1>1, <1>4, FS_Subset
<1>6. Cardinality(Higher(R, S, x)) \in Nat /\ Cardinality(Higher(R, S, y)) \in Nat
  BY <1>4, <1>5, FS_CardinalityType
<1> QED  BY <1>2, <1>5, <1>6

\* Every place of a finite ordered set is taken by one member.
LEMMA RanksTaken ==
    ASSUME NEW S, IsFiniteSet(S), NEW R, Orders(R, S)
    PROVE  /\ Cardinality(S) \in Nat
           /\ \A x \in S : Cardinality(Higher(R, S, x)) \in 0..(Cardinality(S) - 1)
           /\ \A x, y \in S :
                Cardinality(Higher(R, S, x)) = Cardinality(Higher(R, S, y)) => x = y
           /\ \A n \in 1..Cardinality(S) : \E x \in S : Cardinality(Higher(R, S, x)) = n - 1
<1> DEFINE k == Cardinality(S)
           f == [x \in S |-> Cardinality(Higher(R, S, x))]
           V == 0..(k - 1)
<1>1. k \in Nat
  BY FS_CardinalityType
<1>2. ASSUME NEW x \in S
      PROVE  Cardinality(Higher(R, S, x)) \in V
  <2>1. IsFiniteSet(S \ {x}) /\ Cardinality(S \ {x}) = k - 1
    BY FS_RemoveElement
  <2>2. Higher(R, S, x) \in SUBSET (S \ {x})
    BY DEF Higher, Orders
  <2>3. IsFiniteSet(Higher(R, S, x)) /\ Cardinality(Higher(R, S, x)) <= k - 1
    BY <2>1, <2>2, FS_Subset
  <2>4. Cardinality(Higher(R, S, x)) \in Nat
    BY <2>3, FS_CardinalityType
  <2> HIDE DEF k
  <2> QED  BY <1>1, <2>3, <2>4
<1>3. ASSUME NEW x \in S, NEW y \in S,
             Cardinality(Higher(R, S, x)) = Cardinality(Higher(R, S, y))
      PROVE  x = y
  <2>1. Cardinality(Higher(R, S, x)) \in Nat /\ Cardinality(Higher(R, S, y)) \in Nat
    BY <1>1, <1>2
  <2>2. <<x, y>> \notin R /\ <<y, x>> \notin R
    BY <1>3, <2>1, RanksIncrease
  <2> QED  BY <2>2 DEF Orders
<1>4. IsFiniteSet(V) /\ Cardinality(V) = k
  <2> HIDE DEF k
  <2>1. 0 \in Int /\ k - 1 \in Int
    BY <1>1
  <2>2. IsFiniteSet(0..(k - 1)) /\ Cardinality(0..(k - 1)) = IF 0 > k - 1 THEN 0 ELSE k - 1 - 0 + 1
    BY <2>1, FS_Interval
  <2> QED  BY <1>1, <2>2
<1>5. f \in [S -> V] /\ \A x \in S : f[x] = Cardinality(Higher(R, S, x))
  BY <1>2
<1> HIDE DEF f, V
<1>6. f \in Injection(S, V)
  BY <1>3, <1>5 DEF Injection, IsInjective
<1>7. f \in Surjection(S, V)
  BY <1>4, <1>6, FS_Injection
<1>8. ASSUME NEW n \in 1..k
      PROVE  \E x \in S : Cardinality(Higher(R, S, x)) = n - 1
  <2>1. n - 1 \in V
    BY <1>1 DEF V
  <2>2. \E x \in S : f[x] = n - 1
    BY <1>7, <2>1 DEF Surjection
  <2> QED  BY <1>5, <2>2
<1> QED  BY <1>1, <1>2, <1>3, <1>8 DEF V

\* A score is a number.
LEMMA PickScoreIs ==
    ASSUME NEW b \in Agent, NEW t \in Seq(Agent), NEW e \in Seq(Agent),
           NEW h \in Seq([agent : Agent, won : BOOLEAN])
    PROVE  PickScore(b, t, e, h) \in 10..100
<1> DEFINE c == Cardinality({i \in DOMAIN e : e[i] \in Counters[b]})
           w == Cardinality(Won(h, b))
           p == Cardinality(Played(h, b))
           fresh == \A i \in DOMAIN t : RoleOf[t[i]] # RoleOf[b]
           s == 50 + 16 * c + If(b \in Meta, 15) + If(fresh, 12) + MasteryPoints(h, b)
<1>1. c \in Nat
  BY SlotsFinite
<1>2. p \in Nat /\ w \in Nat
  <2>1. Played(h, b) \subseteq DOMAIN h /\ Won(h, b) \subseteq DOMAIN h
    BY DEF Played, Won
  <2> QED  BY <2>1, SlotsFinite
<1>3. MasteryPoints(h, b) = If(p >= 2, Least(2 * p, 10) + If(2 * w >= p, 5))
  BY DEF MasteryPoints
<1>4. PickScore(b, t, e, h) = Clamp(s)
  BY DEF PickScore
<1> HIDE DEF c, w, p, fresh
<1>5. MasteryPoints(h, b) \in Int
  BY <1>2, <1>3 DEF If, Least
<1>6. If(b \in Meta, 15) \in Int /\ If(fresh, 12) \in Int
  BY DEF If
<1>7. s \in Int
  BY <1>1, <1>5, <1>6
<1> HIDE DEF s
<1> QED  BY <1>4, <1>7, ClampIs

\* Any numbers make an order of the catalog: by score, then by place.
LEMMA ScoresOrder ==
    ASSUME NEW S, S \subseteq Nat, NEW v \in [S -> Int],
           NEW R,
           R = {p \in S \X S : v[p[1]] > v[p[2]] \/ (v[p[1]] = v[p[2]] /\ p[1] < p[2])}
    PROVE  Orders(R, S)
<1>1. \A i, j \in S : <<i, j>> \in R <=> v[i] > v[j] \/ (v[i] = v[j] /\ i < j)
  OBVIOUS
<1>2. \A i \in S : v[i] \in Int /\ i \in Int
  OBVIOUS
<1>3. \A x \in S : <<x, x>> \notin R
  BY <1>1, <1>2
<1>4. \A x, y \in S : x # y => <<x, y>> \in R \/ <<y, x>> \in R
  BY <1>1, <1>2
<1>5. \A x, y, z \in S : <<x, y>> \in R /\ <<y, z>> \in R => <<x, z>> \in R
  BY <1>1, <1>2
<1> QED  BY <1>3, <1>4, <1>5 DEF Orders

LEMMA ListOf ==
    ASSUME NEW S, NEW n \in Nat, NEW s \in [1..n -> S]
    PROVE  s \in Seq(S) /\ Len(s) = n
BY SeqDef, LenProperties

\* The catalog's indices of the agents nobody has locked, in the order of the picks.
Unlocked(t) == {i \in DOMAIN Agents : ~Some(t, {Agents[i]})}

\* The picks are the first of them, by score: v has their scores, and o their order.
Ranked(picks, t, e, h, top) ==
    \E k \in Nat : \E v \in [Unlocked(t) -> Int], o \in [1..k -> Unlocked(t)] :
        /\ \A i \in Unlocked(t) : v[i] = PickScore(Agents[i], t, e, h)
        /\ \A i \in Unlocked(t) : \E n \in 1..k : o[n] = i
        /\ \A m, n \in 1..k : m < n => o[m] # o[n] /\ v[o[m]] >= v[o[n]]
        /\ picks = [n \in 1..Least(top, k) |-> Agents[o[n]]]

\* The picks are listed from the best: what a later place has scores no more.
LEMMA PicksInOrder ==
    ASSUME NEW a \in Seq(Name), NEW f \in Seq(Name),
           NEW h \in Seq([agent : Agent, won : BOOLEAN]), NEW top \in Nat
    PROVE  Ranked(CounterPicks(a, f, h, top), Resolved(a), Resolved(f), h, top)
<1> DEFINE t == Resolved(a)
           e == Resolved(f)
           S == Unlocked(t)
           k == Cardinality(S)
           v == [i \in S |-> PickScore(Agents[i], t, e, h)]
           R == {p \in S \X S : v[p[1]] > v[p[2]] \/ (v[p[1]] = v[p[2]] /\ p[1] < p[2])}
           score(i) == PickScore(Agents[i], t, e, h)
           above(i, j) == score(i) > score(j) \/ (score(i) = score(j) /\ i < j)
           rank(i) == Cardinality({j \in S : above(j, i)})
           o == [n \in 1..k |-> CHOOSE i \in S : rank(i) = n - 1]
           ranked == [n \in 1..k |-> Agents[CHOOSE i \in S : rank(i) = n - 1]]
<1>1. /\ Agents \in Seq(Agent) /\ DOMAIN Agents = 1..Len(Agents) /\ Len(Agents) \in Nat
      /\ \A i \in DOMAIN Agents : Agents[i] \in Agent
      /\ S \subseteq DOMAIN Agents /\ S \subseteq Nat
  <2>1. Agents \in Seq(Agent) /\ DOMAIN Agents = 1..Len(Agents) /\ Len(Agents) \in Nat
        /\ \A i \in DOMAIN Agents : Agents[i] \in Agent
    BY CatalogAssumption, LenProperties, ElementOfSeq
  <2> QED  BY <2>1 DEF Unlocked
<1>2. IsFiniteSet(S) /\ k \in Nat
  BY <1>1, SlotsFinite
<1>3. v \in [S -> Int] /\ \A i \in S : v[i] = score(i) /\ v[i] \in Int
  <2>1. t \in Seq(Agent) /\ e \in Seq(Agent)
    BY ResolvedIs
  <2>2. \A i \in S : score(i) \in 10..100
    BY <1>1, <2>1, PickScoreIs
  <2>3. \A n \in 10..100 : n \in Int
    OBVIOUS
  <2> HIDE DEF S, t, e
  <2> QED  BY <2>2, <2>3
<1>4. CounterPicks(a, f, h, top) = SubSeq(ranked, 1, Least(top, Len(ranked)))
  BY DEF CounterPicks, Unlocked
<1>5. \A i, j \in S : <<i, j>> \in R <=> above(i, j)
  <2> HIDE DEF S, v, score
  <2> QED  BY <1>3
<1> HIDE DEF S, k, v, score, t, e
<1>6. Orders(R, S)
  <2>1. S \subseteq Nat /\ v \in [S -> Int]
    BY <1>1, <1>3
  <2> QED  BY <2>1, ScoresOrder
<1> HIDE DEF R
<1>7. \A i \in S : rank(i) = Cardinality(Higher(R, S, i))
  <2>1. \A i \in S : {j \in S : above(j, i)} = Higher(R, S, i)
    BY <1>5 DEF Higher
  <2> QED  BY <2>1
<1>8. /\ \A i \in S : rank(i) \in 0..(k - 1)
      /\ \A i, j \in S : rank(i) = rank(j) => i = j
      /\ \A n \in 1..k : \E i \in S : rank(i) = n - 1
  <2>1. /\ \A x \in S : Cardinality(Higher(R, S, x)) \in 0..(Cardinality(S) - 1)
        /\ \A x, y \in S :
             Cardinality(Higher(R, S, x)) = Cardinality(Higher(R, S, y)) => x = y
        /\ \A n \in 1..Cardinality(S) : \E x \in S : Cardinality(Higher(R, S, x)) = n - 1
    BY <1>2, <1>6, RanksTaken
  <2> HIDE DEF rank
  <2> QED  BY <1>7, <2>1 DEF k
<1>9. \A i, j \in S : above(i, j) => rank(i) < rank(j)
  <2> SUFFICES ASSUME NEW i \in S, NEW j \in S, above(i, j)
               PROVE  rank(i) < rank(j)
    OBVIOUS
  <2>1. <<i, j>> \in R
    BY <1>5
  <2>2. Cardinality(Higher(R, S, i)) < Cardinality(Higher(R, S, j))
    BY <1>2, <1>6, <2>1, RanksIncrease
  <2> HIDE DEF rank, above
  <2> QED  BY <1>7, <2>2
<1>10. \A i, j \in S : rank(i) < rank(j) => v[i] >= v[j]
  <2> SUFFICES ASSUME NEW i \in S, NEW j \in S, rank(i) < rank(j), ~(v[i] >= v[j])
               PROVE  FALSE
    OBVIOUS
  <2> HIDE DEF rank
  <2>1. above(j, i)
    BY <1>3
  <2>2. rank(j) < rank(i)
    BY <1>9, <2>1
  <2>3. rank(i) \in Int /\ rank(j) \in Int
    BY <1>8
  <2> QED  BY <2>2, <2>3
<1> HIDE DEF rank
<1>11. \A n \in 1..k : o[n] \in S /\ rank(o[n]) = n - 1
  <2> SUFFICES ASSUME NEW n \in 1..k
               PROVE  o[n] \in S /\ rank(o[n]) = n - 1
    OBVIOUS
  <2>1. o[n] = CHOOSE i \in S : rank(i) = n - 1
    OBVIOUS
  <2>2. \E i \in S : rank(i) = n - 1
    BY <1>8
  <2> HIDE DEF o
  <2> QED  BY <2>1, <2>2
<1>12. o \in [1..k -> S]
  <2>1. o = [n \in 1..k |-> o[n]]
    OBVIOUS
  <2> HIDE DEF o
  <2> QED  BY <1>11, <2>1
<1>13. ranked = [n \in 1..k |-> Agents[o[n]]]
  OBVIOUS
<1> HIDE DEF o, ranked
<1>14. \A i \in S : \E n \in 1..k : o[n] = i
  <2> SUFFICES ASSUME NEW i \in S
               PROVE  \E n \in 1..k : o[n] = i
    OBVIOUS
  <2>1. rank(i) \in Int /\ rank(i) + 1 \in 1..k /\ rank(i) + 1 - 1 = rank(i)
    BY <1>2, <1>8
  <2>2. rank(o[rank(i) + 1]) = rank(i) /\ o[rank(i) + 1] \in S
    BY <1>11, <2>1
  <2> QED  BY <1>8, <2>1, <2>2
<1>15. \A m, n \in 1..k : m < n => o[m] # o[n] /\ v[o[m]] >= v[o[n]]
  <2> SUFFICES ASSUME NEW m \in 1..k, NEW n \in 1..k, m < n
               PROVE  o[m] # o[n] /\ v[o[m]] >= v[o[n]]
    OBVIOUS
  <2>1. rank(o[m]) < rank(o[n]) /\ rank(o[m]) # rank(o[n]) /\ o[m] \in S /\ o[n] \in S
    BY <1>2, <1>11
  <2> QED  BY <1>10, <2>1
<1>16. CounterPicks(a, f, h, top) = [n \in 1..Least(top, k) |-> Agents[o[n]]]
  <2> DEFINE l == Least(top, k)
  <2>1. l \in Nat /\ l <= k
    BY <1>2 DEF Least
  <2>2. ranked \in Seq(Agent) /\ Len(ranked) = k
    <3>1. ranked \in [1..k -> Agent]
      BY <1>1, <1>12, <1>13
    <3> QED  BY <1>2, <3>1, SeqDef, LenProperties
  <2> HIDE DEF l
  <2>3. \A i \in 1..l : ranked[i] \in Agent
    BY <1>2, <2>1, <2>2, ElementOfSeq
  <2>4. SubSeq(ranked, 1, l) = [n \in 1..l |-> ranked[n]]
    <3>1. SubSeq(ranked, 1, l) = [n \in 1..(l - 1 + 1) |-> ranked[n + 1 - 1]]
      BY <2>1, <2>2
    <3>2. l - 1 + 1 = l /\ \A n \in 1..l : n + 1 - 1 = n
      BY <2>1
    <3> QED  BY <3>1, <3>2
  <2>5. \A n \in 1..l : ranked[n] = Agents[o[n]]
    BY <1>2, <1>13, <2>1
  <2> QED  BY <1>4, <2>2, <2>4, <2>5 DEF l
<1>17. /\ \A i \in S : v[i] = PickScore(Agents[i], t, e, h)
       /\ \A i \in S : \E n \in 1..k : o[n] = i
       /\ \A m, n \in 1..k : m < n => o[m] # o[n] /\ v[o[m]] >= v[o[n]]
       /\ CounterPicks(a, f, h, top) = [n \in 1..Least(top, k) |-> Agents[o[n]]]
  BY <1>3, <1>14, <1>15, <1>16 DEF score
<1>18. k \in Nat /\ v \in [S -> Int] /\ o \in [1..k -> S]
  BY <1>2, <1>3, <1>12
<1> QED  BY <1>17, <1>18 DEF S, t, e, Ranked

----------------------------------------------------------------------------
(* The requests.                                                           *)

\* The parts of InsightsTypeOK: what is stored, the request under way, the answer to the
\* last one, and the draft.
ReportsOK == reports \in Seq(Payload) /\ Len(reports) <= MaxReports

RequestOK ==
    /\ op \in {"none", "report", "progression", "picks"}
    /\ step \in {"history", "stats", "reports", "store", "advise"}
    /\ matches \in Histories /\ timed \in BOOLEAN

AnswerOK(a) ==
    /\ "kd" \in DOMAIN a => a.kd \in {"improving", "declining", "stable"}
    /\ "score" \in DOMAIN a => a.score \in 10..100
    /\ "picks" \in DOMAIN a => Len(a.picks) <= Top

DraftOK == {allies, foes} \subseteq Lists(Name, MaxDraft)

LEMMA PartsOfTypeOK == InsightsTypeOK <=> ReportsOK /\ RequestOK /\ AnswerOK(answer) /\ DraftOK
BY DEF InsightsTypeOK, ReportsOK, RequestOK, AnswerOK, DraftOK

LEMMA EmptyLists ==
    /\ <<>> \in Histories
    /\ <<>> \in Lists(Name, MaxDraft) /\ <<>> \in Seq(Payload) /\ Len(<<>>) = 0
<1>1. MaxHistory \in Nat /\ MaxDraft \in Nat
  BY InsightsAssumption
<1>2. \A S : <<>> \in Seq(S) /\ Len(<<>>) = 0
  BY EmptySeq
<1>3. \A S : \A k \in Nat : <<>> \in Lists(S, k)
  <2> SUFFICES ASSUME NEW S, NEW k \in Nat PROVE <<>> \in Lists(S, k)
    OBVIOUS
  <2>1. <<>> \in Seq(S) /\ Len(<<>>) <= k
    BY <1>2
  <2> QED  BY <2>1, SeqIsList
<1>4. DOMAIN <<>> = {}
  OBVIOUS
<1> QED  BY <1>1, <1>2, <1>3, <1>4 DEF Histories

LEMMA InsightsInitKeeps == InsightsInit => InsightsTypeOK
<1> SUFFICES ASSUME InsightsInit PROVE InsightsTypeOK
  OBVIOUS
<1>1. MaxReports \in Nat
  BY InsightsAssumption
<1>2. ReportsOK /\ RequestOK /\ DraftOK
  BY <1>1, EmptyLists DEF InsightsInit, ReportsOK, RequestOK, DraftOK
<1>3. AnswerOK(answer)
  BY DEF InsightsInit, AnswerOK, Nothing
<1> QED  BY <1>2, <1>3, PartsOfTypeOK

LEMMA ReportsKeep ==
    ASSUME InsightsTypeOK, [InsightsNext]_insightsVars
    PROVE  ReportsOK'
<1>1. ReportsOK /\ matches \in Histories
  BY PartsOfTypeOK DEF RequestOK
<1>2. CASE UNCHANGED reports
  BY <1>1, <1>2 DEF ReportsOK
<1>3. ASSUME NEW s \in StatsGiven, reports' = Latest(<<Report(matches, s)>> \o reports)
      PROVE  ReportsOK'
  <2> DEFINE p == Report(matches, s)
             all == <<p>> \o reports
             n == Least(Len(all), MaxReports)
  <2>1. p \in Payload
    BY <1>1, ReportIs
  <2>2. <<p>> \in Seq(Payload) /\ reports \in Seq(Payload)
    BY <1>1, <2>1 DEF ReportsOK
  <2> HIDE DEF p
  <2>3. all \in Seq(Payload)
    BY <2>2, ConcatProperties
  <2> HIDE DEF all
  <2>4. Len(all) \in Nat /\ MaxReports \in Nat
    BY <2>3, LenProperties, InsightsAssumption
  <2>5. n \in Nat /\ n <= Len(all) /\ n <= MaxReports
    BY <2>4 DEF Least
  <2>6. reports' = SubSeq(all, 1, n)
    BY <1>3 DEF Latest, all, p
  <2> HIDE DEF n
  <2>7. \A i \in 1..n : all[i] \in Payload
    BY <2>3, <2>4, <2>5, ElementOfSeq
  <2>8. /\ SubSeq(all, 1, n) \in Seq(Payload)
        /\ Len(SubSeq(all, 1, n)) = IF 1 <= n THEN n - 1 + 1 ELSE 0
    BY <2>5, <2>7, SubSeqProperties
  <2>9. Len(SubSeq(all, 1, n)) <= MaxReports
    BY <2>4, <2>5, <2>8
  <2> QED  BY <2>6, <2>8, <2>9 DEF ReportsOK
<1>4. \/ UNCHANGED reports
      \/ \E s \in StatsGiven : reports' = Latest(<<Report(matches, s)>> \o reports)
  BY DEF InsightsNext, Request, ReadHistory, HistoryFails, ReadReports, Progress, StoreReport,
         Overview, Health, Lock, NewDraft, Recommend, insightsVars, StatsGiven
<1> QED  BY <1>2, <1>3, <1>4

LEMMA InsightsRequestKeeps ==
    ASSUME InsightsTypeOK, [InsightsNext]_insightsVars
    PROVE  RequestOK'
<1>1. RequestOK
  BY PartsOfTypeOK
<1>2. CASE UNCHANGED request
  BY <1>1, <1>2 DEF RequestOK, request
<1>3. ASSUME NEW a, Done(a)
      PROVE  RequestOK'
  BY <1>3, EmptyLists DEF Done, RequestOK
<1>4. ASSUME NEW s \in {"stats", "reports", "advise"}, Go(s)
      PROVE  RequestOK'
  BY <1>1, <1>4 DEF Go, RequestOK
<1>5. \A o : AfterHistory(o) \in {"stats", "reports", "advise"}
  BY DEF AfterHistory
<1>6. ASSUME NEW o \in {"report", "progression", "picks"}, Request(o)
      PROVE  RequestOK'
  BY <1>1, <1>6 DEF Request, RequestOK
<1>7. ASSUME NEW h \in Histories, NEW numeric \in BOOLEAN, ReadHistory(h, numeric)
      PROVE  RequestOK'
  BY <1>1, <1>5, <1>7 DEF ReadHistory, RequestOK
<1>8. CASE HistoryFails
  BY <1>3, <1>4, <1>5, <1>8 DEF HistoryFails
<1>9. CASE ReadReports
  BY <1>3, <1>4, <1>9 DEF ReadReports
<1>10. ASSUME NEW s, Progress(s) \/ StoreReport(s)
       PROVE  RequestOK'
  BY <1>3, <1>10 DEF Progress, StoreReport
<1>11. CASE Recommend
  BY <1>3, <1>11 DEF Recommend
<1>12. ASSUME \/ \E served \in SUBSET Section : Overview(served)
              \/ \E statuses \in SUBSET {"healthy", "degraded", "unhealthy"} : Health(statuses)
              \/ \E n \in Name, ours \in BOOLEAN : Lock(n, ours)
              \/ NewDraft
              \/ UNCHANGED insightsVars
       PROVE  UNCHANGED request
  BY <1>12 DEF Overview, Health, Lock, NewDraft, insightsVars
<1> QED  BY <1>2, <1>6, <1>7, <1>8, <1>9, <1>10, <1>11, <1>12 DEF InsightsNext

\* A lock adds a name on one side.
LEMMA LockIs ==
    ASSUME InsightsTypeOK, NEW n \in Name, NEW ours \in BOOLEAN, Lock(n, ours)
    PROVE  /\ allies \in Seq(Name) /\ foes \in Seq(Name)
           /\ Len(allies) \in Nat /\ Len(foes) \in Nat /\ MaxDraft \in Nat
           /\ Len(allies) + Len(foes) < MaxDraft
           /\ \/ allies' = Append(allies, n) /\ foes' = foes
              \/ allies' = allies /\ foes' = Append(foes, n)
           /\ allies' \in Seq(Name) /\ foes' \in Seq(Name)
<1>1. MaxDraft \in Nat
  BY InsightsAssumption
<1>2. allies \in Seq(Name) /\ foes \in Seq(Name)
  BY <1>1, PartsOfTypeOK, ListIs DEF DraftOK
<1>3. Append(allies, n) \in Seq(Name) /\ Append(foes, n) \in Seq(Name)
  BY <1>2, AppendProperties
<1>4. \/ allies' = Append(allies, n) /\ foes' = foes
      \/ allies' = allies /\ foes' = Append(foes, n)
  BY DEF Lock
<1> QED  BY <1>1, <1>2, <1>3, <1>4, LenProperties DEF Lock

LEMMA DraftKeeps ==
    ASSUME InsightsTypeOK, [InsightsNext]_insightsVars
    PROVE  DraftOK'
<1>1. DraftOK
  BY PartsOfTypeOK
<1>2. CASE UNCHANGED <<allies, foes>>
  BY <1>1, <1>2 DEF DraftOK
<1>3. ASSUME NEW n \in Name, NEW ours \in BOOLEAN, Lock(n, ours)
      PROVE  DraftOK'
  <2>1. Len(allies') <= MaxDraft /\ Len(foes') <= MaxDraft
    <3>1. Len(Append(allies, n)) = Len(allies) + 1 /\ Len(Append(foes, n)) = Len(foes) + 1
      BY <1>3, LockIs, AppendProperties
    <3> QED  BY <1>3, <3>1, LockIs
  <2>2. allies' \in Lists(Name, MaxDraft) /\ foes' \in Lists(Name, MaxDraft)
    BY <1>3, <2>1, LockIs, SeqIsList
  <2> QED  BY <2>2 DEF DraftOK
<1>4. CASE NewDraft
  BY <1>4, EmptyLists DEF NewDraft, DraftOK
<1>5. \/ UNCHANGED <<allies, foes>> \/ NewDraft
      \/ \E n \in Name, ours \in BOOLEAN : Lock(n, ours)
  BY DEF InsightsNext, Request, ReadHistory, HistoryFails, ReadReports, Progress, StoreReport,
         Overview, Health, Recommend, insightsVars
<1> QED  BY <1>2, <1>3, <1>4, <1>5

LEMMA AnswerKeeps ==
    ASSUME InsightsTypeOK, [InsightsNext]_insightsVars
    PROVE  AnswerOK(answer')
<1>1. AnswerOK(answer)
  BY PartsOfTypeOK
<1>2. AnswerOK(Nothing) /\ AnswerOK(Error) /\ AnswerOK([stored |-> TRUE])
  BY DEF AnswerOK, Nothing, Error
<1>3. ASSUME NEW s, Progress(s)
      PROVE  AnswerOK(answer')
  <2>1. answer' = Progression(matches, timed, s)
    BY <1>3 DEF Progress, Done
  <2>2. \A x : Trend(x) \in {"improving", "declining", "stable"}
    BY DEF Trend
  <2>3. Trends(matches, timed).kd \in {"improving", "declining", "stable"}
    BY <2>2 DEF Trends
  <2> QED  BY <2>1, <2>3 DEF Progression, AnswerOK
<1>4. ASSUME NEW n \in Name, NEW ours \in BOOLEAN, Lock(n, ours)
      PROVE  AnswerOK(answer')
  <2>1. SynergyScore(allies', foes') \in 10..100
    BY <1>4, LockIs, ScoreIs
  <2>2. answer' = [score |-> SynergyScore(allies', foes'),
                   tier |-> Tier(SynergyScore(allies', foes'))]
    BY <1>4 DEF Lock
  <2> QED  BY <2>1, <2>2 DEF AnswerOK
<1>5. CASE Recommend
  <2>1. PICK h : answer' = [picks |-> CounterPicks(allies, foes, h, Top),
                            threats |-> Threats(foes)]
    BY <1>5 DEF Recommend, Done
  <2>2. Len(CounterPicks(allies, foes, h, Top)) <= Top
    BY PicksAtMost, InsightsAssumption
  <2> QED  BY <2>1, <2>2 DEF AnswerOK
<1>6. ASSUME NEW served, Overview(served)
      PROVE  AnswerOK(answer')
  <2>1. answer' = [sections |-> served, unavailable |-> Section \ served] \/ answer' = Error
    BY <1>6 DEF Overview
  <2> QED  BY <1>2, <2>1 DEF AnswerOK
<1>7. ASSUME NEW statuses, Health(statuses)
      PROVE  AnswerOK(answer')
  BY <1>7 DEF Health, AnswerOK
<1>8. ASSUME \/ \E o \in {"report", "progression", "picks"} : Request(o)
             \/ \E h \in Histories, numeric \in BOOLEAN : ReadHistory(h, numeric)
             \/ HistoryFails \/ ReadReports \/ NewDraft
             \/ \E s \in StatsGiven : StoreReport(s)
             \/ UNCHANGED insightsVars
      PROVE  answer' \in {answer, Nothing, Error, [stored |-> TRUE]}
  BY <1>8 DEF Request, ReadHistory, HistoryFails, ReadReports, NewDraft, StoreReport, Done,
              insightsVars
<1>9. CASE answer' \in {answer, Nothing, Error, [stored |-> TRUE]}
  BY <1>1, <1>2, <1>9
<1> QED  BY <1>3, <1>4, <1>5, <1>6, <1>7, <1>8, <1>9 DEF InsightsNext, StatsGiven

\* Whatever is read and fails, every stored report has a flaw and a drill of each of the
\* three agents and a score in its range, the trends are words, the score of a composition
\* is between 10 and 100, and no more picks are advised than asked for.
THEOREM InsightsTypeCorrect == InsightsSpec => []InsightsTypeOK
<1>1. InsightsInit => InsightsTypeOK
  BY InsightsInitKeeps
<1>2. InsightsTypeOK /\ [InsightsNext]_insightsVars => InsightsTypeOK'
  <2> SUFFICES ASSUME InsightsTypeOK, [InsightsNext]_insightsVars PROVE InsightsTypeOK'
    OBVIOUS
  <2>1. ReportsOK' /\ RequestOK' /\ AnswerOK(answer)' /\ DraftOK'
    BY ReportsKeep, InsightsRequestKeeps, AnswerKeeps, DraftKeeps DEF AnswerOK
  <2> QED  BY <2>1 DEF InsightsTypeOK, ReportsOK, RequestOK, AnswerOK, DraftOK
<1> QED  BY <1>1, <1>2, PTL DEF InsightsSpec

\* What the progression makes of the reports does not depend on them: whatever flaws the
\* agents found, the active focus areas are the two fixed ones, and no flaw of an earlier
\* report is ever resolved.
FlawsAreUnread ==
    \A trend \in {"improving", "declining", "stable"} :
        FocusAreas(reports, trend) =
            [active |-> {"firstDuels", "ecoRounds"},
             resolved |-> IF trend = "improving" THEN {"crosshair"} ELSE {}]

\* The flaws of a report are never what a progression shows, in however many reports.
THEOREM FlawsAreUnreadHolds == InsightsSpec => []FlawsAreUnread
<1>1. \A p \in Payload : Weak(p) = {}
  BY DEF Payload, Weak, Get
<1>2. InsightsTypeOK => FlawsAreUnread
  <2> SUFFICES ASSUME InsightsTypeOK PROVE FlawsAreUnread
    OBVIOUS
  <2>1. reports \in Seq(Payload)
    BY DEF InsightsTypeOK
  <2>2. \A i \in 1..Len(reports) : Weak(reports[i]) = {}
    BY <1>1, <2>1
  <2>3. reports # <<>> => Weak(reports[1]) = {}
    BY <2>1, <2>2
  <2>4. UNION {Weak(reports[i]) : i \in 2..Len(reports)} = {}
    BY <2>1, <2>2
  <2> QED  BY <2>3, <2>4 DEF FlawsAreUnread, FocusAreas
<1> QED  BY <1>2, InsightsTypeCorrect, PTL

\* For any matches at different times, the trends are those of the matches in time: two
\* histories with the same matches have the same trends.
THEOREM TrendsCorrect == InsightsSpec => []TrendsIgnoreListing
<1>1. InsightsTypeOK => TrendsIgnoreListing
  <2> SUFFICES ASSUME InsightsTypeOK, NEW h \in Histories,
                      {h[i] : i \in DOMAIN h} = {matches[i] : i \in DOMAIN matches}
               PROVE  Trends(h, TRUE) = Trends(matches, TRUE)
    BY DEF TrendsIgnoreListing
  <2>1. matches \in Histories /\ Held(h) = Held(matches)
    BY DEF InsightsTypeOK, Held
  <2> QED  BY <2>1, TrendsOfMatches
<1> QED  BY <1>1, InsightsTypeCorrect, PTL

\* For every catalog, map and table of counters, and compositions of any size, one more
\* name lowers the score of a composition only as the third duelist among the allies.
THEOREM DraftsCorrect == InsightsSpec => OnlyThirdDuelistHurts
<1> DEFINE Third == /\ Len(allies') + Len(foes') = Len(allies) + Len(foes) + 1
                    /\ allies # <<>>
                    /\ RoleCount(Resolved(allies'), "Duelist") # 3
                    => SynergyScore(allies', foes') >= SynergyScore(allies, foes)
<1>1. InsightsTypeOK /\ [InsightsNext]_insightsVars => [Third]_insightsVars
  <2> SUFFICES ASSUME InsightsTypeOK, [InsightsNext]_insightsVars,
                      Len(allies') + Len(foes') = Len(allies) + Len(foes) + 1,
                      RoleCount(Resolved(allies'), "Duelist") # 3
               PROVE  SynergyScore(allies', foes') >= SynergyScore(allies, foes)
    OBVIOUS
  <2>1. Len(allies) \in Nat /\ Len(foes) \in Nat
    BY InsightsAssumption, PartsOfTypeOK, ListIs, LenProperties DEF DraftOK
  <2>2. ASSUME NEW n \in Name, NEW ours \in BOOLEAN, Lock(n, ours)
        PROVE  SynergyScore(allies', foes') >= SynergyScore(allies, foes)
    BY <2>2, LockIs, ScoreGrows
  <2>3. ~UNCHANGED <<allies, foes>>
    BY <2>1
  <2>4. ~NewDraft
    BY <2>1, EmptyLists DEF NewDraft
  <2>5. \/ UNCHANGED <<allies, foes>> \/ NewDraft
        \/ \E n \in Name, ours \in BOOLEAN : Lock(n, ours)
    BY DEF InsightsNext, Request, ReadHistory, HistoryFails, ReadReports, Progress, StoreReport,
           Overview, Health, Recommend, insightsVars
  <2> QED  BY <2>2, <2>3, <2>4, <2>5
<1> QED  BY <1>1, InsightsTypeCorrect, PTL DEF InsightsSpec, OnlyThirdDuelistHurts

\* The agents recommended against a draft, to a player of whatever history, are known
\* agents nobody has locked, none of them twice, the best first; and one is left out only
\* when as many as were asked for are no worse.
THEOREM PicksAreBest ==
    ASSUME NEW a \in Seq(Name), NEW f \in Seq(Name),
           NEW h \in Seq([agent : Agent, won : BOOLEAN]), NEW top \in Nat,
           NEW open, open = {b \in Agent : RoleOf[b] \in Role /\ ~Some(Resolved(a), {b})},
           NEW picks, picks = CounterPicks(a, f, h, top)
    PROVE  LET score(b) == PickScore(b, Resolved(a), Resolved(f), h) IN
           /\ picks \in Seq(open) /\ Len(picks) <= top
           /\ \A m, n \in 1..Len(picks) :
                m < n => picks[m] # picks[n] /\ score(picks[m]) >= score(picks[n])
           /\ \A b \in open : (\A n \in 1..Len(picks) : picks[n] # b) =>
                Len(picks) = top /\ \A n \in 1..Len(picks) : score(picks[n]) >= score(b)
<1> DEFINE S == Unlocked(Resolved(a))
           score(b) == PickScore(b, Resolved(a), Resolved(f), h)
<1>1. PICK k \in Nat : \E v \in [S -> Int], o \in [1..k -> S] :
        /\ \A i \in S : v[i] = score(Agents[i])
        /\ \A i \in S : \E n \in 1..k : o[n] = i
        /\ \A m, n \in 1..k : m < n => o[m] # o[n] /\ v[o[m]] >= v[o[n]]
        /\ picks = [n \in 1..Least(top, k) |-> Agents[o[n]]]
  <2>1. Ranked(picks, Resolved(a), Resolved(f), h, top)
    BY PicksInOrder
  <2> QED  BY <2>1 DEF Ranked
<1>2. PICK v \in [S -> Int], o \in [1..k -> S] :
        /\ \A i \in S : v[i] = score(Agents[i])
        /\ \A i \in S : \E n \in 1..k : o[n] = i
        /\ \A m, n \in 1..k : m < n => o[m] # o[n] /\ v[o[m]] >= v[o[n]]
        /\ picks = [n \in 1..Least(top, k) |-> Agents[o[n]]]
  BY <1>1
<1>3. /\ S \subseteq DOMAIN Agents
      /\ open = {Agents[i] : i \in S}
      /\ \A i, j \in S : Agents[i] = Agents[j] => i = j
  <2>1. S = {i \in DOMAIN Agents : ~Some(Resolved(a), {Agents[i]})}
    BY DEF Unlocked
  <2>2. /\ \A i \in DOMAIN Agents : Agents[i] \in Agent /\ RoleOf[Agents[i]] \in Role
        /\ \A b \in Agent : RoleOf[b] \in Role => \E i \in DOMAIN Agents : Agents[i] = b
    BY CatalogAssumption
  <2> HIDE DEF S
  <2>3. ASSUME NEW b \in open
        PROVE  \E i \in S : Agents[i] = b
    BY <2>1, <2>2
  <2>4. ASSUME NEW i \in S
        PROVE  Agents[i] \in open
    BY <2>1, <2>2
  <2>5. S \subseteq DOMAIN Agents
    BY <2>1
  <2>6. open = {Agents[i] : i \in S}
    BY <2>3, <2>4
  <2> QED  BY <2>5, <2>6, CatalogAssumption
<1> HIDE DEF S, score
<1> DEFINE l == Least(top, k)
<1>4. l \in Nat /\ l <= top /\ l <= k /\ (l < k => l = top)
  BY DEF Least
<1>5. picks \in Seq(open) /\ Len(picks) = l /\ \A n \in 1..l : picks[n] = Agents[o[n]]
  <2> HIDE DEF l
  <2>1. \A n \in 1..l : o[n] \in S
    BY <1>4
  <2>2. \A n \in 1..l : Agents[o[n]] \in open
    BY <1>3, <2>1
  <2>3. picks = [n \in 1..l |-> Agents[o[n]]]
    BY <1>2 DEF l
  <2>4. picks \in [1..l -> open]
    BY <2>2, <2>3
  <2>5. picks \in Seq(open) /\ Len(picks) = l
    BY <1>4, <2>4, ListOf
  <2> QED  BY <2>3, <2>5
<1> HIDE DEF l
<1>6. ASSUME NEW m \in 1..l
      PROVE  o[m] \in S /\ m \in 1..k /\ picks[m] = Agents[o[m]] /\ score(picks[m]) = v[o[m]]
  <2>1. m \in 1..k /\ o[m] \in S
    BY <1>4
  <2> QED  BY <1>2, <1>5, <2>1
<1>7. ASSUME NEW m \in 1..l, NEW n \in 1..l, m < n
      PROVE  picks[m] # picks[n] /\ score(picks[m]) >= score(picks[n])
  <2>1. o[m] # o[n] /\ v[o[m]] >= v[o[n]]
    BY <1>2, <1>6, <1>7
  <2> QED  BY <1>3, <1>6, <2>1
<1>8. ASSUME NEW b \in open, \A n \in 1..l : picks[n] # b
      PROVE  l = top /\ \A n \in 1..l : score(picks[n]) >= score(b)
  <2>1. PICK i \in S : b = Agents[i]
    BY <1>3
  <2>2. PICK j \in 1..k : o[j] = i
    BY <1>2
  <2>3. ~(j \in 1..l)
    BY <1>6, <1>8, <2>1, <2>2
  <2>4. l < j /\ l < k
    BY <1>4, <2>3
  <2>5. score(b) = v[o[j]]
    BY <1>2, <2>1, <2>2
  <2>6. \A n \in 1..l : score(picks[n]) >= score(b)
    <3> SUFFICES ASSUME NEW n \in 1..l
                 PROVE  score(picks[n]) >= score(b)
      OBVIOUS
    <3>1. n \in 1..k /\ n < j
      BY <1>4, <2>4
    <3>2. v[o[n]] >= v[o[j]]
      BY <1>2, <3>1
    <3> QED  BY <1>6, <2>5, <3>2
  <2> QED  BY <1>4, <2>4, <2>6
<1> QED  BY <1>4, <1>5, <1>7, <1>8 DEF score
===============================================================================
