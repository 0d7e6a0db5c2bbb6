------------------------- MODULE PlayerCacheProofs -------------------------
(***************************************************************************)
(* Proofs about PlayerCache, for any number of requests, keys and players, *)
(* any TTL and any bounds.  The lock discipline (LockHeld) carries single  *)
(* flight; single flight and the order of provider calls (ValuesOrdered)   *)
(* carry the rest.                                                         *)
(***************************************************************************)
EXTENDS PlayerCache, SequenceTheorems, TLAPS

\* A request past its miss is the first in the queue of its key: the lock is
\* held from the read of the snapshot to the end of put.
LockHeld == \A r \in Request : InFlight(r) => AtHead(r)

\* Rows, requests in flight and history agree on the order of provider calls.
RowsOrdered ==
    \A k \in Key :
        /\ past[k].served <= calls
        /\ past[k].purged <= calls
        /\ snap[k] # Null =>
              /\ past[k].served <= snap[k].val
              /\ past[k].purged < snap[k].val
              /\ snap[k].val <= calls

DetailsOrdered ==
    \A k \in MatchKey :
        /\ past[k].purged = 0
        /\ snap[k] # Null => detail[k] = snap[k].val
        /\ detail[k] # Null =>
              /\ past[k].served <= detail[k]
              /\ detail[k] <= calls
              /\ detail[k] > 0

FlightsOrdered ==
    \A r \in Request :
        InFlight(r) =>
            /\ past[KeyOf[r]].served <= val[r]
            /\ past[KeyOf[r]].purged < val[r]
            /\ val[r] <= calls
            /\ KeyOf[r] \notin MatchKey /\ snap[KeyOf[r]] # Null =>
                  snap[KeyOf[r]].val < val[r]

HistoryOrdered ==
    \A r \in Request :
        /\ since[r].served <= past[KeyOf[r]].served
        /\ since[r].purged <= past[KeyOf[r]].purged

ValuesOrdered ==
    RowsOrdered /\ DetailsOrdered /\ FlightsOrdered /\ HistoryOrdered

\* A provider is never called, and its answer never written, for a key whose
\* snapshot would still serve: nothing makes the row usable between the miss
\* of _cached and its put, whoever else runs in between.
NoRedundantFetch == \A r \in Request : InFlight(r) => ~Usable(KeyOf[r])

IInv ==
    /\ TypeOK
    /\ LockHeld
    /\ NoRedundantFetch
    /\ ValuesOrdered
    /\ ReadsNeverGoBack
    /\ PurgedNeverReturns

----------------------------------------------------------------------------
(* The operations on the lock's queue.                                     *)

\* Leaving the lock of r's key keeps every queue a sequence of requests and
\* leaves the queues of other keys alone.
LEMMA ReleaseType ==
    ASSUME PlayerCacheAssumption, TypeOK, NEW r \in Request,
           AtHead(r), Release(r)
    PROVE  queue' \in [Key -> Seq(Request)]
BY HeadTailProperties DEF PlayerCacheAssumption, TypeOK, AtHead, Release

\* Joining a queue does not change who is first in it.
LEMMA AppendKeepsHead ==
    ASSUME NEW S, NEW q \in Seq(S), NEW x \in S, q # <<>>
    PROVE  Append(q, x) # <<>> /\ Head(Append(q, x)) = Head(q)
BY HeadTailAppend, AppendProperties

----------------------------------------------------------------------------
(* Types.                                                                  *)

\* Every variable keeps its type: part of IInv, and the ground for the rest.
LEMMA TypeStep ==
    ASSUME PlayerCacheAssumption, TypeOK, LockHeld, [Next]_vars
    PROVE  TypeOK'
<1> USE PlayerCacheAssumption DEF PlayerCacheAssumption, TypeOK, PC, Snapshot,
       History, NoHistory
<1>1. ASSUME NEW r \in Request, Arrive(r)
      PROVE  TypeOK'
  <2>1. Append(queue[KeyOf[r]], r) \in Seq(Request)
    BY AppendProperties
  <2>2. queue' \in [Key -> Seq(Request)]
    BY <1>1, <2>1 DEF Arrive
  <2>3. pc' \in [Request -> PC] /\ val' \in [Request -> Nat]
    BY <1>1 DEF Arrive
  <2>4. arrivals' \in Nat /\ since' \in [Request -> History]
    BY <1>1 DEF Arrive
  <2>5. QED
    BY <1>1, <2>2, <2>3, <2>4 DEF Arrive
<1>2. ASSUME NEW r \in Request, Hit(r)
      PROVE  TypeOK'
  <2>1. queue' \in [Key -> Seq(Request)]
    BY <1>2, ReleaseType DEF Hit, Waiting, Return
  <2>2. QED
    BY <1>2, <2>1 DEF Hit, Usable, Live, Return
<1>3. ASSUME NEW r \in Request, Miss(r)
      PROVE  TypeOK'
  BY <1>3 DEF Miss
<1>4. ASSUME NEW r \in Request, GetFails(r)
      PROVE  TypeOK'
  <2>1. queue' \in [Key -> Seq(Request)]
    BY <1>4, ReleaseType DEF GetFails, Waiting, Raise
  <2>2. QED
    BY <1>4, <2>1 DEF GetFails, Raise
<1>5. ASSUME NEW r \in Request, FetchReturns(r)
      PROVE  TypeOK'
  BY <1>5 DEF FetchReturns
<1>6. ASSUME NEW r \in Request, FetchFallsBack(r)
      PROVE  TypeOK'
  BY <1>6 DEF FetchFallsBack, MatchKey
<1>7. ASSUME NEW r \in Request, FetchFails(r)
      PROVE  TypeOK'
  <2>1. queue' \in [Key -> Seq(Request)]
    BY <1>7, ReleaseType DEF FetchFails, Raise, LockHeld, InFlight
  <2>2. QED
    BY <1>7, <2>1 DEF FetchFails, Raise
<1>8. ASSUME NEW r \in Request, PutCommits(r)
      PROVE  TypeOK'
  <2>1. queue' \in [Key -> Seq(Request)]
    BY <1>8, ReleaseType DEF PutCommits, Return, LockHeld, InFlight
  <2>2. QED
    <3>1. snap' \in [Key -> Snapshot \cup {Null}]
      BY <1>8 DEF PutCommits
    <3>2. detail' \in [Key -> Nat \cup {Null}]
      BY <1>8 DEF PutCommits
    <3>3. past' \in [Key -> History]
      BY <1>8 DEF PutCommits, Return
    <3>4. QED
      BY <1>8, <2>1, <3>1, <3>2, <3>3 DEF PutCommits, Return
<1>9. ASSUME NEW r \in Request, PutFails(r)
      PROVE  TypeOK'
  <2>1. queue' \in [Key -> Seq(Request)]
    BY <1>9, ReleaseType DEF PutFails, Raise, LockHeld, InFlight
  <2>2. QED
    BY <1>9, <2>1 DEF PutFails, Raise
<1>10. ASSUME NEW p \in Player, Invalidate(p)
       PROVE  TypeOK'
  BY <1>10 DEF Invalidate
<1>11. ASSUME NEW now \in 0..clock, Prune(now)
       PROVE  TypeOK'
  BY <1>11 DEF Prune
<1>12. CASE Tick
  BY <1>12 DEF Tick
<1>13. ASSUME NEW rejected \in SUBSET Key, Restart(rejected)
       PROVE  TypeOK'
  <2>1. ASSUME NEW k \in Key, snap[k] # Null
        PROVE  [snap[k] EXCEPT !.valid = k \notin rejected] \in Snapshot
    <3>1. (k \notin rejected) \in BOOLEAN
      OBVIOUS
    <3>2. snap[k] \in Snapshot
      BY <2>1
    <3>3. QED
      BY <3>1, <3>2
  <2>2. snap' \in [Key -> Snapshot \cup {Null}]
    <3> HIDE DEF Snapshot
    <3>1. QED
      BY <1>13, <2>1 DEF Restart
  <2>3. QED
    BY <1>13, <2>2 DEF Restart
<1>14. CASE UNCHANGED vars
  BY <1>14 DEF vars
<1>15. QED
  BY <1>1, <1>2, <1>3, <1>4, <1>5, <1>6, <1>7, <1>8, <1>9, <1>10, <1>11,
     <1>12, <1>13, <1>14 DEF Next, Get, Fetch, Put

----------------------------------------------------------------------------
(* The lock discipline.                                                    *)

\* Only the first request of a queue leaves it, and a request in flight is
\* first: no step takes the lock from a request in flight.
LEMMA LockStep ==
    ASSUME PlayerCacheAssumption, TypeOK, LockHeld, [Next]_vars
    PROVE  LockHeld'
<1> USE PlayerCacheAssumption DEF PlayerCacheAssumption, TypeOK, LockHeld,
       InFlight, AtHead
<1> SUFFICES ASSUME NEW s \in Request, InFlight(s)'
             PROVE  AtHead(s)'
  OBVIOUS
<1>1. ASSUME NEW r \in Request, Arrive(r)
      PROVE  AtHead(s)'
  <2>1. s # r /\ InFlight(s)
    BY <1>1 DEF Arrive
  <2>2. QED
    <3>1. CASE KeyOf[s] = KeyOf[r]
      <4> DEFINE q == queue[KeyOf[r]]
      <4>1. q \in Seq(Request) /\ q # <<>> /\ Head(q) = s
        BY <2>1, <3>1
      <4>2. Append(q, r) # <<>> /\ Head(Append(q, r)) = s
        BY <4>1, AppendKeepsHead
      <4>3. queue'[KeyOf[s]] = Append(q, r)
        BY <1>1, <3>1 DEF Arrive
      <4>4. QED
        BY <4>2, <4>3
    <3>2. CASE KeyOf[s] # KeyOf[r]
      BY <1>1, <2>1, <3>2 DEF Arrive
    <3>3. QED
      BY <3>1, <3>2
<1>2. ASSUME NEW r \in Request, AtHead(r), Release(r), s # r, InFlight(s)
      PROVE  AtHead(s)'
  BY <1>2 DEF Release
<1>3. ASSUME NEW r \in Request, Get(r)
      PROVE  AtHead(s)'
  <2>1. CASE Miss(r)
    BY <2>1 DEF Miss, Waiting
  <2>2. CASE Hit(r) \/ GetFails(r)
    BY <2>2, <1>2 DEF Hit, GetFails, Waiting, Return, Raise
  <2>3. QED
    BY <1>3, <2>1, <2>2 DEF Get
<1>4. ASSUME NEW r \in Request, Fetch(r)
      PROVE  AtHead(s)'
  <2>1. CASE FetchReturns(r) \/ FetchFallsBack(r)
    BY <2>1 DEF FetchReturns, FetchFallsBack
  <2>2. CASE FetchFails(r)
    BY <2>2, <1>2 DEF FetchFails, Raise
  <2>3. QED
    BY <1>4, <2>1, <2>2 DEF Fetch
<1>5. ASSUME NEW r \in Request, Put(r)
      PROVE  AtHead(s)'
  BY <1>5, <1>2 DEF Put, PutCommits, PutFails, Return, Raise
<1>6. ASSUME NEW p \in Player, Invalidate(p)
      PROVE  AtHead(s)'
  BY <1>6 DEF Invalidate
<1>7. CASE (\E now \in 0..clock : Prune(now)) \/ Tick
  BY <1>7 DEF Prune, Tick
<1>8. ASSUME NEW rejected \in SUBSET Key, Restart(rejected)
      PROVE  AtHead(s)'
  BY <1>8 DEF Restart
<1>9. CASE UNCHANGED vars
  BY <1>9 DEF vars
<1>10. QED
  BY <1>1, <1>3, <1>4, <1>5, <1>6, <1>7, <1>8, <1>9 DEF Next

\* Two requests in flight for one key would both be first in its queue.
LEMMA LockGivesSingleFlight == LockHeld => SingleFlight
BY DEF LockHeld, SingleFlight, AtHead

----------------------------------------------------------------------------
(* No call for a key that would still serve.                               *)

\* A row becomes usable by put alone, and put is the last step in flight of the
\* only request in flight for the key; time and deletions only take away.
LEMMA NoRedundantStep ==
    ASSUME PlayerCacheAssumption, TypeOK, SingleFlight, NoRedundantFetch,
           [Next]_vars
    PROVE  NoRedundantFetch'
<1> USE PlayerCacheAssumption DEF PlayerCacheAssumption, TypeOK, InFlight,
       Usable, Live
<1> SUFFICES ASSUME NEW s \in Request, InFlight(s)'
             PROVE  ~Usable(KeyOf[s])'
  BY DEF NoRedundantFetch
<1> DEFINE k == KeyOf[s]
<1>1. ASSUME NEW r \in Request, Get(r)
      PROVE  ~Usable(k)'
  BY <1>1 DEF NoRedundantFetch, Get, Hit, Miss, GetFails, Return, Raise
<1>2. ASSUME NEW r \in Request, PutCommits(r)
      PROVE  ~Usable(k)'
  <2>1. s # r /\ InFlight(s) /\ InFlight(r)
    BY <1>2 DEF PutCommits, Return
  <2>2. KeyOf[r] # k
    BY <2>1 DEF SingleFlight
  <2>3. QED
    BY <1>2, <2>1, <2>2 DEF NoRedundantFetch, PutCommits
<1>3. ASSUME NEW r \in Request, Arrive(r) \/ Fetch(r) \/ PutFails(r)
      PROVE  ~Usable(k)'
  BY <1>3 DEF NoRedundantFetch, Arrive, Fetch, FetchReturns, FetchFallsBack,
     FetchFails, PutFails, Raise
<1>4. ASSUME NEW p \in Player, Invalidate(p)
      PROVE  ~Usable(k)'
  BY <1>4 DEF NoRedundantFetch, Invalidate
<1>5. ASSUME NEW now \in 0..clock, Prune(now)
      PROVE  ~Usable(k)'
  BY <1>5 DEF NoRedundantFetch, Prune
<1>6. CASE Tick
  <2>1. InFlight(s) /\ snap' = snap /\ clock' = clock + 1
    BY <1>6 DEF Tick
  <2>2. snap[k] # Null => snap[k] \in Snapshot
    OBVIOUS
  <2>3. QED
    BY <2>1, <2>2 DEF NoRedundantFetch, Snapshot
<1>7. ASSUME NEW rejected \in SUBSET Key, Restart(rejected)
      PROVE  ~Usable(k)'
  BY <1>7 DEF Restart
<1>8. CASE UNCHANGED vars
  BY <1>8 DEF NoRedundantFetch, vars
<1>9. QED
  BY <1>1, <1>2, <1>3, <1>4, <1>5, <1>6, <1>7, <1>8 DEF Next, Put

----------------------------------------------------------------------------
(* The order of values.                                                    *)

\* History read at an arrival stays below a history that only grows.
LEMMA HistoryGrows ==
    ASSUME PlayerCacheAssumption, TypeOK, HistoryOrdered, since' = since,
           \A k \in Key :
              /\ past'[k].served \in Nat /\ past'[k].served >= past[k].served
              /\ past'[k].purged \in Nat /\ past'[k].purged >= past[k].purged
    PROVE  HistoryOrdered'
<1> SUFFICES ASSUME NEW s \in Request
             PROVE  /\ since[s].served <= past'[KeyOf[s]].served
                    /\ since[s].purged <= past'[KeyOf[s]].purged
  BY DEF HistoryOrdered
<1>1. KeyOf[s] \in Key
  BY DEF PlayerCacheAssumption
<1>2. since[s] \in History /\ past[KeyOf[s]] \in History
  BY <1>1 DEF TypeOK
<1>3. /\ since[s].served \in Nat /\ since[s].purged \in Nat
      /\ past[KeyOf[s]].served \in Nat /\ past[KeyOf[s]].purged \in Nat
  BY <1>2 DEF History
<1>4. /\ since[s].served <= past[KeyOf[s]].served
      /\ since[s].purged <= past[KeyOf[s]].purged
  BY DEF HistoryOrdered
<1>5. QED
  BY <1>1, <1>3, <1>4

\* Served and purged values of a key only grow, calls are counted upwards, and
\* what a key holds stays between the values it served and the last call.
LEMMA ValuesStep ==
    ASSUME IInv, PlayerCacheAssumption, [Next]_vars
    PROVE  ValuesOrdered'
<1> USE PlayerCacheAssumption DEF PlayerCacheAssumption, TypeOK, InFlight,
       Snapshot, History, MatchKey
<1>0. SingleFlight
  BY LockGivesSingleFlight DEF IInv
<1> USE <1>0 DEF IInv, ValuesOrdered
<1>1. ASSUME NEW r \in Request, Arrive(r)
      PROVE  ValuesOrdered'
  <2>1. HistoryOrdered'
    BY <1>1, SMTT(30) DEF Arrive, HistoryOrdered
  <2>2. FlightsOrdered'
    BY <1>1 DEF Arrive, FlightsOrdered
  <2>3. RowsOrdered' /\ DetailsOrdered'
    BY <1>1 DEF Arrive, RowsOrdered, DetailsOrdered
  <2>4. QED
    BY <2>1, <2>2, <2>3
<1>2. ASSUME NEW r \in Request, Hit(r)
      PROVE  ValuesOrdered'
  <2> DEFINE k == KeyOf[r]
  <2>1. /\ snap[k] \in Snapshot /\ past[k].served <= snap[k].val
        /\ past' = [past EXCEPT ![k].served = snap[k].val]
        /\ snap' = snap /\ calls' = calls /\ detail' = detail /\ since' = since
        /\ \A s \in Request : InFlight(s)' => InFlight(s) /\ s # r
        /\ \A s \in Request : InFlight(s)' => val'[s] = val[s]
        /\ \A s \in Request : InFlight(s) => KeyOf[s] # k
    BY <1>2 DEF Hit, Usable, Live, Return, RowsOrdered, NoRedundantFetch
  <2>2. /\ \A j \in Key : j # k => past'[j] = past[j]
        /\ past'[k].served = snap[k].val /\ past'[k].purged = past[k].purged
    BY <2>1
  <2>3. RowsOrdered'
    <3> SUFFICES ASSUME NEW j \in Key
                 PROVE  /\ past'[j].served <= calls
                        /\ past'[j].purged <= calls
                        /\ snap[j] # Null =>
                              /\ past'[j].served <= snap[j].val
                              /\ past'[j].purged < snap[j].val
                              /\ snap[j].val <= calls
      BY <2>1, SMTT(30) DEF RowsOrdered
    <3>1. CASE j = k
      <4>1. past[k].purged <= calls /\ past[k].purged < snap[k].val
            /\ snap[k].val <= calls /\ snap[k].val \in Nat
        BY <1>2 DEF RowsOrdered, Hit, Usable, Live
      <4> HIDE DEF IInv, ValuesOrdered, TypeOK, Snapshot, History
      <4>2. QED
        BY <2>2, <3>1, <4>1
    <3>2. CASE j # k
      BY <2>1, <2>2, <3>2 DEF RowsOrdered
    <3>3. QED
      BY <3>1, <3>2
  <2>4. DetailsOrdered'
    <3>1. k \in MatchKey => detail[k] = snap[k].val
      BY <2>1, <1>2 DEF DetailsOrdered, Hit, Usable, Live
    <3>2. QED
      BY <2>1, <2>2, <3>1, SMTT(30) DEF DetailsOrdered
  <2>5. FlightsOrdered'
    BY <2>1, <2>2 DEF FlightsOrdered
  <2>6. HistoryOrdered'
    <3>1. snap[k].val \in Nat /\ past[k].served <= snap[k].val
      BY <2>1
    <3>2. \A j \in Key : past[j].served \in Nat /\ past[j].purged \in Nat
      OBVIOUS
    <3>3. QED
      <4>1. TypeOK /\ HistoryOrdered /\ PlayerCacheAssumption
        OBVIOUS
      <4> HIDE DEF IInv, ValuesOrdered, TypeOK, Snapshot, History,
             PlayerCacheAssumption
      <4>2. ASSUME NEW j \in Key
            PROVE  /\ past'[j].served \in Nat
                   /\ past'[j].served >= past[j].served
                   /\ past'[j].purged \in Nat
                   /\ past'[j].purged >= past[j].purged
        <5>1. CASE j = k
          BY <2>1, <2>2, <3>1, <3>2, <5>1
        <5>2. CASE j # k
          BY <2>2, <3>1, <3>2, <5>2
        <5>3. QED
          BY <5>1, <5>2
      <4>3. QED
        BY <2>1, <4>1, <4>2, HistoryGrows
  <2>7. QED
    BY <2>3, <2>4, <2>5, <2>6
<1>3. ASSUME NEW r \in Request, Miss(r)
      PROVE  ValuesOrdered'
  <2>1. RowsOrdered'
    BY <1>3 DEF Miss, RowsOrdered
  <2>2. DetailsOrdered'
    BY <1>3 DEF Miss, DetailsOrdered
  <2>3. FlightsOrdered'
    BY <1>3, SMTT(30) DEF Miss, FlightsOrdered, RowsOrdered
  <2>4. HistoryOrdered'
    BY <1>3 DEF Miss, HistoryOrdered
  <2>5. QED
    BY <2>1, <2>2, <2>3, <2>4
<1>4. ASSUME NEW r \in Request, GetFails(r) \/ FetchFails(r) \/ PutFails(r)
      PROVE  ValuesOrdered'
  <2>1. /\ UNCHANGED <<past, snap, calls, detail, since>>
        /\ \A s \in Request : InFlight(s)' => InFlight(s) /\ val'[s] = val[s]
    BY <1>4 DEF GetFails, FetchFails, PutFails, Raise
  <2>2. FlightsOrdered'
    BY <2>1 DEF FlightsOrdered
  <2>3. RowsOrdered' /\ DetailsOrdered' /\ HistoryOrdered'
    BY <2>1 DEF RowsOrdered, DetailsOrdered, HistoryOrdered
  <2>4. QED
    BY <2>2, <2>3
<1>5. ASSUME NEW r \in Request, FetchReturns(r)
      PROVE  ValuesOrdered'
  <2>1. FlightsOrdered'
    BY <1>5 DEF FetchReturns, FlightsOrdered
  <2>2. RowsOrdered' /\ DetailsOrdered' /\ HistoryOrdered'
    BY <1>5 DEF FetchReturns, RowsOrdered, DetailsOrdered, HistoryOrdered
  <2>3. QED
    BY <2>1, <2>2
<1>6. ASSUME NEW r \in Request, FetchFallsBack(r)
      PROVE  ValuesOrdered'
  <2>1. FlightsOrdered'
    BY <1>6 DEF FetchFallsBack, FlightsOrdered, DetailsOrdered
  <2>2. RowsOrdered' /\ DetailsOrdered' /\ HistoryOrdered'
    BY <1>6 DEF FetchFallsBack, RowsOrdered, DetailsOrdered, HistoryOrdered
  <2>3. QED
    BY <2>1, <2>2
<1>7. ASSUME NEW r \in Request, PutCommits(r)
      PROVE  ValuesOrdered'
  <2> DEFINE k == KeyOf[r]
  <2> DEFINE row == [val |-> val[r], expires |-> stamp[r] + TTL, valid |-> TRUE]
  <2>1. /\ past[k].served <= val[r] /\ past[k].purged < val[r] /\ val[r] <= calls
        /\ past' = [past EXCEPT ![k].served = val[r]]
        /\ snap' = [snap EXCEPT ![k] = row]
        /\ detail' = IF k \in MatchKey THEN [detail EXCEPT ![k] = val[r]] ELSE detail
        /\ calls' = calls /\ since' = since
        /\ \A s \in Request : InFlight(s)' => InFlight(s) /\ val'[s] = val[s]
        /\ \A s \in Request : InFlight(s)' => KeyOf[s] # k
    BY <1>7 DEF PutCommits, Return, FlightsOrdered, SingleFlight
  <2>2. /\ \A j \in Key : j # k =>
              past'[j] = past[j] /\ snap'[j] = snap[j] /\ detail'[j] = detail[j]
        /\ past'[k].served = val[r] /\ past'[k].purged = past[k].purged
        /\ snap'[k].val = val[r]
        /\ k \in MatchKey => detail'[k] = val[r]
    BY <2>1
  <2>3. RowsOrdered'
    BY <2>1, <2>2 DEF RowsOrdered
  <2>4. DetailsOrdered'
    BY <2>1, <2>2, SMTT(30) DEF DetailsOrdered
  <2>5. FlightsOrdered'
    BY <2>1, <2>2 DEF FlightsOrdered
  <2>6. HistoryOrdered'
    <3>1. \A j \in Key : past[j].served \in Nat /\ past[j].purged \in Nat
      OBVIOUS
    <3>2. val[r] \in Nat
      OBVIOUS
    <3>3. QED
      <4>1. TypeOK /\ HistoryOrdered /\ PlayerCacheAssumption
        OBVIOUS
      <4> HIDE DEF IInv, ValuesOrdered, TypeOK, Snapshot, History,
             PlayerCacheAssumption
      <4>2. ASSUME NEW j \in Key
            PROVE  /\ past'[j].served \in Nat
                   /\ past'[j].served >= past[j].served
                   /\ past'[j].purged \in Nat
                   /\ past'[j].purged >= past[j].purged
        <5>1. CASE j = k
          BY <2>1, <2>2, <3>1, <3>2, <5>1
        <5>2. CASE j # k
          BY <2>2, <3>1, <3>2, <5>2
        <5>3. QED
          BY <5>1, <5>2
      <4>3. QED
        BY <2>1, <4>1, <4>2, HistoryGrows
  <2>7. QED
    BY <2>3, <2>4, <2>5, <2>6
<1>8. ASSUME NEW p \in Player, Invalidate(p)
      PROVE  ValuesOrdered'
  <2>1. /\ UNCHANGED <<pc, val, detail, calls, since>>
        /\ \A j \in Key : Owner[j] # p => past'[j] = past[j] /\ snap'[j] = snap[j]
        /\ \A j \in Key : Owner[j] = p =>
              /\ snap'[j] = Null
              /\ past'[j].served = past[j].served
              /\ past'[j].purged = IF snap[j] = Null THEN past[j].purged
                                   ELSE snap[j].val
    BY <1>8 DEF Invalidate
  <2>2. RowsOrdered'
    BY <2>1 DEF RowsOrdered
  <2>3. DetailsOrdered'
    BY <2>1 DEF DetailsOrdered
  <2>4. FlightsOrdered'
    BY <2>1 DEF FlightsOrdered
  <2>5. HistoryOrdered'
    <3> SUFFICES ASSUME NEW j \in Key
                 PROVE  /\ past'[j].served \in Nat
                        /\ past'[j].served >= past[j].served
                        /\ past'[j].purged \in Nat
                        /\ past'[j].purged >= past[j].purged
      BY <2>1, HistoryGrows
    <3>1. past[j].served \in Nat /\ past[j].purged \in Nat
      OBVIOUS
    <3>2. snap[j] # Null => snap[j].val \in Nat /\ past[j].purged < snap[j].val
      BY DEF RowsOrdered
    <3>3. Owner[j] = p \/ Owner[j] # p
      OBVIOUS
    <3> HIDE DEF IInv, ValuesOrdered, TypeOK, Snapshot, History
    <3>4. QED
      BY <2>1, <3>1, <3>2, <3>3
  <2>6. QED
    BY <2>2, <2>3, <2>4, <2>5
<1>9. CASE (\E now \in 0..clock : Prune(now)) \/ Tick \/ UNCHANGED vars
  <2>1. /\ UNCHANGED <<pc, val, detail, calls, past, since>>
        /\ \A j \in Key : snap'[j] = Null \/ snap'[j] = snap[j]
    BY <1>9 DEF Prune, Tick, vars
  <2>2. RowsOrdered' /\ DetailsOrdered' /\ HistoryOrdered'
    BY <2>1 DEF RowsOrdered, DetailsOrdered, HistoryOrdered
  <2>3. FlightsOrdered'
    BY <2>1 DEF FlightsOrdered
  <2>4. QED
    BY <2>2, <2>3
<1>10. ASSUME NEW rejected \in SUBSET Key, Restart(rejected)
       PROVE  ValuesOrdered'
  <2>1. /\ UNCHANGED <<detail, calls, past>>
        /\ \A j \in Key : snap'[j] # Null =>
              snap[j] # Null /\ snap'[j].val = snap[j].val
        /\ \A s \in Request : ~InFlight(s)'
        /\ \A s \in Request : since'[s].served = 0 /\ since'[s].purged = 0
    BY <1>10 DEF Restart, NoHistory
  <2>2. RowsOrdered' /\ DetailsOrdered'
    BY <2>1 DEF RowsOrdered, DetailsOrdered
  <2>3. FlightsOrdered' /\ HistoryOrdered'
    BY <2>1 DEF FlightsOrdered, HistoryOrdered
  <2>4. QED
    BY <2>2, <2>3
<1>11. QED
  BY <1>1, <1>2, <1>3, <1>4, <1>5, <1>6, <1>7, <1>8, <1>9, <1>10
     DEF Next, Get, Fetch, Put

----------------------------------------------------------------------------
(* What a finished request holds.                                          *)

\* A request ends with a value that its key could serve when it returned, and
\* nothing touches the value of a request that has ended until it arrives again.
LEMMA AnswersStep ==
    ASSUME IInv, PlayerCacheAssumption, [Next]_vars
    PROVE  ReadsNeverGoBack' /\ PurgedNeverReturns'
<1> USE PlayerCacheAssumption DEF PlayerCacheAssumption, TypeOK, Snapshot,
       History, IInv
<1> SUFFICES ASSUME NEW s \in Request, (pc[s] = "done")'
             PROVE  /\ (val[s] >= since[s].served)'
                    /\ (val[s] > since[s].purged)'
  BY DEF ReadsNeverGoBack, PurgedNeverReturns
<1>1. since[s].served \in Nat /\ since[s].purged \in Nat /\ val[s] \in Nat
  OBVIOUS
<1>2. ASSUME pc[s] = "done", val'[s] = val[s], since'[s] = since[s]
      PROVE  /\ (val[s] >= since[s].served)'
             /\ (val[s] > since[s].purged)'
  BY <1>2 DEF ReadsNeverGoBack, PurgedNeverReturns
<1>3. ASSUME NEW v \in Nat, val'[s] = v, since' = since,
             past[KeyOf[s]].served <= v, past[KeyOf[s]].purged < v
      PROVE  /\ (val[s] >= since[s].served)'
             /\ (val[s] > since[s].purged)'
  <2>1. /\ past[KeyOf[s]].served \in Nat /\ past[KeyOf[s]].purged \in Nat
        /\ since[s].served <= past[KeyOf[s]].served
        /\ since[s].purged <= past[KeyOf[s]].purged
    BY DEF ValuesOrdered, HistoryOrdered
  <2>2. QED
    BY <1>1, <1>3, <2>1
<1>4. ASSUME NEW r \in Request, Hit(r)
      PROVE  /\ (val[s] >= since[s].served)'
             /\ (val[s] > since[s].purged)'
  <2>1. CASE r = s
    <3>1. /\ snap[KeyOf[s]] \in Snapshot /\ snap[KeyOf[s]].val \in Nat
          /\ past[KeyOf[s]].served <= snap[KeyOf[s]].val
          /\ past[KeyOf[s]].purged < snap[KeyOf[s]].val
      BY <1>4, <2>1 DEF Hit, Usable, Live, ValuesOrdered, RowsOrdered
    <3>2. val'[s] = snap[KeyOf[s]].val /\ since' = since
      BY <1>4, <2>1 DEF Hit, Return
    <3>3. QED
      BY <1>3, <3>1, <3>2
  <2>2. CASE r # s
    BY <1>4, <2>2, <1>2 DEF Hit, Return
  <2>3. QED
    BY <2>1, <2>2
<1>5. ASSUME NEW r \in Request, PutCommits(r)
      PROVE  /\ (val[s] >= since[s].served)'
             /\ (val[s] > since[s].purged)'
  <2>1. CASE r = s
    <3>1. past[KeyOf[s]].served <= val[s] /\ past[KeyOf[s]].purged < val[s]
      BY <1>5, <2>1 DEF PutCommits, InFlight, ValuesOrdered, FlightsOrdered
    <3>2. val'[s] = val[s] /\ since' = since
      BY <1>5, <2>1 DEF PutCommits, Return
    <3>3. QED
      BY <1>1, <1>3, <3>1, <3>2
  <2>2. CASE r # s
    BY <1>5, <2>2, <1>2 DEF PutCommits, Return
  <2>3. QED
    BY <2>1, <2>2
<1>6. ASSUME NEW r \in Request, Arrive(r) \/ Miss(r)
      PROVE  /\ (val[s] >= since[s].served)'
             /\ (val[s] > since[s].purged)'
  BY <1>6, <1>2 DEF Arrive, Miss
<1>7. ASSUME NEW r \in Request, GetFails(r) \/ FetchFails(r) \/ PutFails(r)
      PROVE  /\ (val[s] >= since[s].served)'
             /\ (val[s] > since[s].purged)'
  BY <1>7, <1>2 DEF GetFails, FetchFails, PutFails, Raise
<1>8. ASSUME NEW r \in Request, FetchReturns(r) \/ FetchFallsBack(r)
      PROVE  /\ (val[s] >= since[s].served)'
             /\ (val[s] > since[s].purged)'
  BY <1>8, <1>2 DEF FetchReturns, FetchFallsBack
<1>9. CASE \/ \E p \in Player : Invalidate(p)
           \/ (\E now \in 0..clock : Prune(now)) \/ Tick \/ UNCHANGED vars
  BY <1>9, <1>2 DEF Invalidate, Prune, Tick, vars
<1>10. ASSUME NEW rejected \in SUBSET Key, Restart(rejected)
       PROVE  /\ (val[s] >= since[s].served)'
              /\ (val[s] > since[s].purged)'
  BY <1>10 DEF Restart
<1>11. QED
  BY <1>4, <1>5, <1>6, <1>7, <1>8, <1>9, <1>10 DEF Next, Get, Fetch, Put

----------------------------------------------------------------------------
(* The theorems.                                                           *)

\* An empty cache satisfies the invariant.
LEMMA InitIInv == PlayerCacheAssumption /\ Init => IInv
BY DEF PlayerCacheAssumption, Init, IInv, TypeOK, PC, Snapshot, History,
   NoHistory, LockHeld, InFlight, NoRedundantFetch, ValuesOrdered, RowsOrdered,
   DetailsOrdered, FlightsOrdered, HistoryOrdered, ReadsNeverGoBack,
   PurgedNeverReturns, MatchKey

\* The invariant holds in every state of every behaviour.
LEMMA Invariance == Spec => []IInv
<1>1. Init => IInv
  BY InitIInv, PlayerCacheAssumption
<1>2. IInv /\ [Next]_vars => IInv'
  <2> SUFFICES ASSUME IInv, [Next]_vars
               PROVE  IInv'
    OBVIOUS
  <2>1. SingleFlight
    BY LockGivesSingleFlight DEF IInv
  <2>2. TypeOK' /\ LockHeld'
    BY PlayerCacheAssumption, TypeStep, LockStep DEF IInv
  <2>3. NoRedundantFetch'
    BY <2>1, PlayerCacheAssumption, NoRedundantStep DEF IInv
  <2>4. ValuesOrdered'
    BY PlayerCacheAssumption, ValuesStep
  <2>5. ReadsNeverGoBack' /\ PurgedNeverReturns'
    BY PlayerCacheAssumption, AnswersStep
  <2>6. QED
    BY <2>2, <2>3, <2>4, <2>5 DEF IInv
<1>3. QED
  BY <1>1, <1>2, PTL DEF Spec

\* Type correctness: every variable of the cache keeps its type.
THEOREM TypeCorrect == Spec => []TypeOK
<1>1. IInv => TypeOK
  BY DEF IInv
<1>2. QED
  BY <1>1, Invariance, PTL

\* The lock of _cached gives one provider call at a time per key.
THEOREM SingleFlightHolds == Spec => []SingleFlight
<1>1. IInv => SingleFlight
  BY LockGivesSingleFlight DEF IInv
<1>2. QED
  BY <1>1, Invariance, PTL

\* No provider call is under way for a key whose snapshot would serve.
THEOREM NoRedundantFetchHolds == Spec => []NoRedundantFetch
<1>1. IInv => NoRedundantFetch
  BY DEF IInv
<1>2. QED
  BY <1>1, Invariance, PTL

\* Reads of one key never go back to an older value, across expiry,
\* invalidation, restart and the stored-detail fallback.
THEOREM ReadsNeverGoBackHolds == Spec => []ReadsNeverGoBack
<1>1. IInv => ReadsNeverGoBack
  BY DEF IInv
<1>2. QED
  BY <1>1, Invariance, PTL

\* A value deleted by an invalidation is not served to later arrivals.
THEOREM PurgedNeverReturnsHolds == Spec => []PurgedNeverReturns
<1>1. IInv => PurgedNeverReturns
  BY DEF IInv
<1>2. QED
  BY <1>1, Invariance, PTL

\* While it is usable, a row is deleted by an invalidation of its player or
\* rejected by a new release, and touched by nothing else.
THEOREM UsableRowsAreOnlyPurgedHolds == Spec => UsableRowsAreOnlyPurged
<1> DEFINE Kept(k) ==
      Usable(k) /\ snap'[k] # snap[k] =>
         \/ snap'[k] = Null /\ past'[k].purged = snap[k].val
         \/ snap'[k] = [snap[k] EXCEPT !.valid = FALSE]
<1>1. IInv /\ [Next]_vars => [\A k \in Key : Kept(k)]_vars
  <2> SUFFICES ASSUME IInv, Next, NEW k \in Key, Usable(k), snap'[k] # snap[k]
               PROVE  \/ snap'[k] = Null /\ past'[k].purged = snap[k].val
                      \/ snap'[k] = [snap[k] EXCEPT !.valid = FALSE]
    OBVIOUS
  <2>1. ASSUME NEW r \in Request, PutCommits(r)
        PROVE  FALSE
    <3>1. KeyOf[r] # k
      BY <2>1 DEF IInv, NoRedundantFetch, InFlight, PutCommits
    <3>2. QED
      BY <2>1, <3>1 DEF PutCommits, IInv, TypeOK
  <2>2. ASSUME NEW p \in Player, Invalidate(p)
        PROVE  snap'[k] = Null /\ past'[k].purged = snap[k].val
    <3>1. past[k] \in [served : Nat, purged : Nat, begun : Nat]
      BY DEF IInv, TypeOK, History
    <3>2. Owner[k] = p /\ snap[k] # Null
      BY <2>2 DEF Invalidate, Usable, Live
    <3>3. QED
      BY <2>2, <3>1, <3>2 DEF Invalidate
  <2>3. ASSUME NEW now \in 0..clock, Prune(now)
        PROVE  FALSE
    <3>1. /\ snap[k] \in Snapshot /\ snap[k].expires > clock
          /\ now \in Nat /\ now <= clock /\ clock \in Nat
          /\ snap[k].expires <= now
      BY <2>3 DEF Prune, Usable, Live, IInv, TypeOK
    <3>2. snap[k].expires \in Nat
      BY <3>1 DEF Snapshot
    <3>3. QED
      BY <3>1, <3>2
  <2>4. ASSUME NEW rejected \in SUBSET Key, Restart(rejected)
        PROVE  snap'[k] = [snap[k] EXCEPT !.valid = FALSE]
    BY <2>4 DEF Restart, Usable, Live, IInv, TypeOK, Snapshot
  <2>5. CASE Tick
    BY <2>5 DEF Tick
  <2>6. ASSUME NEW r \in Request, Arrive(r) \/ Get(r) \/ Fetch(r) \/ PutFails(r)
        PROVE  FALSE
    BY <2>6 DEF Arrive, Get, Hit, Miss, GetFails, Fetch, FetchReturns,
       FetchFallsBack, FetchFails, PutFails
  <2>7. QED
    BY <2>1, <2>2, <2>3, <2>4, <2>5, <2>6 DEF Next, Put
<1>2. QED
  BY <1>1, Invariance, PTL DEF Spec, UsableRowsAreOnlyPurged

----------------------------------------------------------------------------
(* Every step is one of a cache as its readers see it, or none.            *)

\* What they see.
Kept == [k \in Key |-> IF snap[k] = Null THEN Null ELSE snap[k].val]
Fresh == {k \in Key : Usable(k)}
Stage == [r \in Request |-> IF InFlight(r) THEN "renewing"
                           ELSE IF pc[r] = "wait" THEN "asking" ELSE "out"]
Given == [r \in Request |-> IF pc[r] = "done" THEN val[r] ELSE 0]
Newest == [k \in Key |-> past[k].served]
Purged == [k \in Key |-> past[k].purged]

View == <<Kept, Fresh, Stage, Given, Newest, Purged>>

\* What a reader's step looks like, by the place in _cached it goes to.
LEMMA ReaderMoves ==
    ASSUME TypeOK, NEW r \in Request, NEW p, NEW v,
           pc' = [pc EXCEPT ![r] = p], val' = [val EXCEPT ![r] = v]
    PROVE  /\ p \in {"fetch", "write"} =>
                Stage' = [Stage EXCEPT ![r] = "renewing"] /\ Given' = [Given EXCEPT ![r] = 0]
           /\ p = "wait" =>
                Stage' = [Stage EXCEPT ![r] = "asking"] /\ Given' = [Given EXCEPT ![r] = 0]
           /\ p = "done" =>
                Stage' = [Stage EXCEPT ![r] = "out"] /\ Given' = [Given EXCEPT ![r] = v]
           /\ p = "failed" =>
                Stage' = [Stage EXCEPT ![r] = "out"] /\ Given' = [Given EXCEPT ![r] = 0]
BY DEF TypeOK, Stage, Given, InFlight

\* A table and a history that do not change look the same.
LEMMA TableSame ==
    ASSUME snap' = snap, past' = past, clock' = clock
    PROVE  UNCHANGED <<Kept, Fresh, Newest, Purged>>
BY DEF Kept, Fresh, Usable, Live, Newest, Purged

\* A new call asks.
LEMMA ArriveAsks ==
    ASSUME IInv, NEW r \in Request, Arrive(r)
    PROVE  Promise!Ask(r)
<1>1. TypeOK /\ pc[r] \in {"idle", "done", "failed"}
  BY DEF IInv, Arrive
<1>2. /\ pc' = [pc EXCEPT ![r] = "wait"] /\ val' = [val EXCEPT ![r] = 0]
      /\ snap' = snap /\ past' = past /\ clock' = clock
  BY DEF Arrive
<1>3. Stage' = [Stage EXCEPT ![r] = "asking"] /\ Given' = [Given EXCEPT ![r] = 0]
  BY <1>1, <1>2, ReaderMoves
<1>4. Stage[r] = "out"
  BY <1>1 DEF Stage, InFlight
<1>5. UNCHANGED <<Kept, Fresh, Newest, Purged>>
  BY <1>2, TableSame
<1> QED  BY <1>3, <1>4, <1>5 DEF Promise!Ask, Stage, Given, Kept, Fresh, Newest, Purged

\* The history of a key when v has been served.
LEMMA ServedIs ==
    ASSUME TypeOK, NEW k \in Key, NEW v, past' = [past EXCEPT ![k].served = v]
    PROVE  Newest' = [Newest EXCEPT ![k] = v] /\ Purged' = Purged
BY DEF TypeOK, History, Newest, Purged

\* A row that serves is given to its reader, and is what was served last.
LEMMA HitServes ==
    ASSUME IInv, NEW r \in Request, Hit(r)
    PROVE  Promise!Serve(r)
<1> DEFINE k == KeyOf[r]
<1>1. TypeOK /\ pc[r] = "wait" /\ k \in Key /\ Usable(k)
  BY PlayerCacheAssumption DEF PlayerCacheAssumption, IInv, Hit, Waiting
<1>2. /\ pc' = [pc EXCEPT ![r] = "done"] /\ val' = [val EXCEPT ![r] = snap[k].val]
      /\ past' = [past EXCEPT ![k].served = snap[k].val]
      /\ snap' = snap /\ clock' = clock
  BY DEF Hit, Return
<1>3. /\ Stage' = [Stage EXCEPT ![r] = "out"] /\ Given' = [Given EXCEPT ![r] = snap[k].val]
      /\ Newest' = [Newest EXCEPT ![k] = snap[k].val] /\ Purged' = Purged
  <2> HIDE DEF k
  <2>1. Stage' = [Stage EXCEPT ![r] = "out"] /\ Given' = [Given EXCEPT ![r] = snap[k].val]
    BY <1>1, <1>2, ReaderMoves
  <2>2. Newest' = [Newest EXCEPT ![k] = snap[k].val] /\ Purged' = Purged
    BY <1>1, <1>2, ServedIs
  <2> QED  BY <2>1, <2>2
<1>4. Stage[r] = "asking" /\ k \in Fresh /\ Kept[k] = snap[k].val
  BY <1>1 DEF Stage, InFlight, Fresh, Kept, Usable, Live
<1>5. Kept' = Kept /\ Fresh' = Fresh
  BY <1>2 DEF Kept, Fresh, Usable, Live
<1> QED  BY <1>3, <1>4, <1>5 DEF Promise!Serve, Promise!Give,
             Stage, Given, Kept, Fresh, Newest, Purged

\* Behind the lock of its key nobody else renews: the turn is r's.
LEMMA MissTurns ==
    ASSUME IInv, NEW r \in Request, Miss(r)
    PROVE  Promise!Turn(r)
<1> DEFINE k == KeyOf[r]
<1>1. TypeOK /\ LockHeld /\ pc[r] = "wait" /\ AtHead(r) /\ k \in Key /\ ~Usable(k)
  BY PlayerCacheAssumption DEF PlayerCacheAssumption, IInv, Miss, Waiting
<1>2. /\ pc' = [pc EXCEPT ![r] = "fetch"] /\ val' = [val EXCEPT ![r] = calls + 1]
      /\ snap' = snap /\ past' = past /\ clock' = clock
  BY DEF Miss
<1>3. Stage' = [Stage EXCEPT ![r] = "renewing"] /\ Given' = [Given EXCEPT ![r] = 0]
  BY <1>1, <1>2, ReaderMoves
<1>4. Given' = Given
  BY <1>1, <1>3 DEF Given
<1>5. Stage[r] = "asking" /\ k \notin Fresh
  BY <1>1 DEF Stage, InFlight, Fresh
<1>6. \A s \in Request : Stage[s] = "renewing" => KeyOf[s] # k
  BY <1>1 DEF Stage, InFlight, LockHeld, AtHead
<1>7. UNCHANGED <<Kept, Fresh, Newest, Purged>>
  BY <1>2, TableSame
<1> QED  BY <1>3, <1>4, <1>5, <1>6, <1>7 DEF Promise!Turn,
             Stage, Given, Kept, Fresh, Newest, Purged

\* An exception, wherever it is raised, gives nothing and changes nothing.
LEMMA RaiseFails ==
    ASSUME IInv, NEW r \in Request, GetFails(r) \/ FetchFails(r) \/ PutFails(r)
    PROVE  Promise!Fail(r)
<1>1. TypeOK /\ pc[r] \in {"wait", "fetch", "write"}
  BY DEF IInv, GetFails, FetchFails, PutFails, Waiting
<1>2. /\ pc' = [pc EXCEPT ![r] = "failed"] /\ val' = [val EXCEPT ![r] = 0]
      /\ snap' = snap /\ past' = past /\ clock' = clock
  BY DEF GetFails, FetchFails, PutFails, Raise
<1>3. Stage' = [Stage EXCEPT ![r] = "out"] /\ Given' = [Given EXCEPT ![r] = 0]
  BY <1>1, <1>2, ReaderMoves
<1>4. Stage[r] \in {"asking", "renewing"}
  BY <1>1 DEF Stage, InFlight
<1>5. UNCHANGED <<Kept, Fresh, Newest, Purged>>
  BY <1>2, TableSame
<1> QED  BY <1>3, <1>4, <1>5 DEF Promise!Fail, Stage, Given, Kept, Fresh, Newest, Purged

\* The provider's answer, or the stored detail in its place, is not given yet.
LEMMA FetchHidden ==
    ASSUME IInv, NEW r \in Request, FetchReturns(r) \/ FetchFallsBack(r)
    PROVE  UNCHANGED View
<1>1. TypeOK /\ pc[r] = "fetch"
  BY DEF IInv, FetchReturns, FetchFallsBack
<1>2. /\ pc' = [pc EXCEPT ![r] = "write"]
      /\ val' = val \/ val' = [val EXCEPT ![r] = detail[KeyOf[r]]]
      /\ snap' = snap /\ past' = past /\ clock' = clock
  BY DEF FetchReturns, FetchFallsBack
<1>3. Stage' = Stage /\ Given' = Given
  BY <1>1, <1>2 DEF TypeOK, Stage, Given, InFlight
<1>4. UNCHANGED <<Kept, Fresh, Newest, Purged>>
  BY <1>2, TableSame
<1> QED  BY <1>3, <1>4 DEF View

\* put renews: the row did not serve, and its answer is no older than any given and
\* newer than any purged.
LEMMA PutRenews ==
    ASSUME IInv, NEW r \in Request, PutCommits(r)
    PROVE  Promise!Renew(r, Given'[r])
<1> DEFINE k == KeyOf[r]
           row == [val |-> val[r], expires |-> stamp[r] + TTL, valid |-> TRUE]
<1>1. TypeOK /\ pc[r] = "write" /\ InFlight(r) /\ k \in Key /\ val[r] \in Nat /\ Null \notin Nat
  BY PlayerCacheAssumption DEF PlayerCacheAssumption, IInv, TypeOK, PutCommits, InFlight
<1>2. /\ pc' = [pc EXCEPT ![r] = "done"] /\ val' = [val EXCEPT ![r] = val[r]]
      /\ past' = [past EXCEPT ![k].served = val[r]]
      /\ snap' = [snap EXCEPT ![k] = row] /\ clock' = clock
  BY DEF PutCommits, Return
<1>3. /\ Stage' = [Stage EXCEPT ![r] = "out"] /\ Given' = [Given EXCEPT ![r] = val[r]]
      /\ Newest' = [Newest EXCEPT ![k] = val[r]] /\ Purged' = Purged
  <2> HIDE DEF k
  <2>1. Stage' = [Stage EXCEPT ![r] = "out"] /\ Given' = [Given EXCEPT ![r] = val[r]]
    BY <1>1, <1>2, ReaderMoves
  <2>2. Newest' = [Newest EXCEPT ![k] = val[r]] /\ Purged' = Purged
    BY <1>1, <1>2, ServedIs
  <2> QED  BY <2>1, <2>2
<1>4. Stage[r] = "renewing" /\ k \notin Fresh /\ Given'[r] = val[r]
  BY <1>1, <1>3 DEF Stage, Fresh, IInv, NoRedundantFetch, Given
<1>5. val[r] >= Newest[k] /\ val[r] > Purged[k]
  <2>1. past[k].served <= val[r] /\ past[k].purged < val[r]
    BY <1>1 DEF IInv, ValuesOrdered, FlightsOrdered
  <2>2. past[k] \in [served : Nat, purged : Nat, begun : Nat]
    BY <1>1 DEF TypeOK, History
  <2> QED  BY <1>1, <2>1, <2>2 DEF Newest, Purged
<1>6. /\ snap'[k] = row /\ row # Null /\ row.val = val[r]
      /\ \A j \in Key : j # k => snap'[j] = snap[j]
  <2>1. row # Null
    <3>1. row \in Snapshot
      BY <1>1, PlayerCacheAssumption DEF PlayerCacheAssumption, TypeOK, Snapshot
    <3> QED  BY <3>1, PlayerCacheAssumption DEF PlayerCacheAssumption
  <2> QED  BY <1>1, <1>2, <2>1 DEF TypeOK
<1> HIDE DEF row, k
<1>7. Kept' = [Kept EXCEPT ![k] = val[r]]
  BY <1>1, <1>6 DEF Kept
<1>8. Fresh' \in {Fresh, Fresh \cup {k}}
  <2>1. \A j \in Key : j # k => (Usable(j)' <=> Usable(j))
    BY <1>2, <1>6 DEF Usable, Live
  <2>2. CASE Usable(k)'
    <3>1. Fresh' = Fresh \cup {k}
      BY <1>1, <2>1, <2>2 DEF Fresh
    <3> QED  BY <3>1
  <2>3. CASE ~Usable(k)'
    <3>1. Fresh' = Fresh
      BY <1>4, <2>1, <2>3 DEF Fresh
    <3> QED  BY <3>1
  <2> QED  BY <2>2, <2>3
<1> QED  BY <1>3, <1>4, <1>5, <1>7, <1>8 DEF Promise!Renew, Promise!Give, k,
             Stage, Given, Kept, Fresh, Newest, Purged

\* invalidate_player_cache purges the keys of its player.
LEMMA InvalidatePurges ==
    ASSUME IInv, NEW p \in Player, Invalidate(p)
    PROVE  Promise!Purge({k \in Key : Owner[k] = p})
<1> DEFINE keys == {k \in Key : Owner[k] = p}
<1>1. /\ TypeOK /\ UNCHANGED <<clock, pc, val>>
      /\ snap' = [k \in Key |-> IF k \in keys THEN Null ELSE snap[k]]
      /\ \A k \in Key : past'[k] = IF k \notin keys THEN past[k]
                                   ELSE [past[k] EXCEPT
                                           !.begun = calls,
                                           !.purged = IF snap[k] = Null THEN @ ELSE snap[k].val]
  BY DEF IInv, Invalidate
<1> HIDE DEF keys
<1>2. Kept' = [k \in Key |-> IF k \in keys THEN Null ELSE Kept[k]]
  BY <1>1 DEF Kept
<1>3. Fresh' = Fresh \ keys
  BY <1>1 DEF Fresh, Usable, Live
<1>4. \A k \in Key : Kept[k] = Null <=> snap[k] = Null
  BY <1>1, PlayerCacheAssumption DEF PlayerCacheAssumption, TypeOK, Kept, Snapshot
<1>5. \A k \in Key : /\ past'[k].served = past[k].served
                     /\ past'[k].purged = IF k \in keys /\ snap[k] # Null
                                          THEN snap[k].val ELSE past[k].purged
  <2> SUFFICES ASSUME NEW k \in Key
               PROVE  /\ past'[k].served = past[k].served
                      /\ past'[k].purged = IF k \in keys /\ snap[k] # Null
                                           THEN snap[k].val ELSE past[k].purged
    OBVIOUS
  <2>1. past[k] \in [served : Nat, purged : Nat, begun : Nat]
    BY <1>1 DEF TypeOK, History
  <2> QED  BY <1>1, <2>1
<1>6. Newest' = Newest
  BY <1>5 DEF Newest
<1>7. Purged' = [k \in Key |-> IF k \in keys /\ Kept[k] # Null THEN Kept[k] ELSE Purged[k]]
  BY <1>4, <1>5 DEF Purged, Kept
<1>8. Stage' = Stage /\ Given' = Given
  BY <1>1 DEF Stage, Given, InFlight
<1> QED  BY <1>2, <1>3, <1>6, <1>7, <1>8 DEF Promise!Purge, keys,
             Stage, Given, Kept, Fresh, Newest, Purged

\* prune loses only rows that serve no longer, at its time or now.
LEMMA PruneLoses ==
    ASSUME IInv, NEW now \in 0..clock, Prune(now)
    PROVE  Promise!Lose
<1>1. /\ TypeOK /\ UNCHANGED <<clock, pc, val, past>>
      /\ now \in Nat /\ clock \in Nat /\ now <= clock
      /\ snap' = [k \in Key |->
                    IF snap[k] # Null /\ snap[k].expires <= now THEN Null ELSE snap[k]]
  BY DEF IInv, Prune, TypeOK
<1>2. ASSUME NEW k \in Key, snap'[k] # snap[k]
      PROVE  snap'[k] = Null /\ ~Usable(k) /\ ~Usable(k)'
  <2>1. snap[k] \in Snapshot /\ snap[k].expires <= now /\ snap'[k] = Null
    BY <1>1, <1>2 DEF TypeOK
  <2>2. ~(snap[k].expires > clock)
    BY <1>1, <2>1 DEF Snapshot
  <2> QED  BY <2>1, <2>2 DEF Usable, Live
<1>3. \A k \in Key : Kept'[k] # Kept[k] => Kept'[k] = Null /\ k \notin Fresh
  BY <1>2 DEF Kept, Fresh
<1>4. Fresh' = Fresh
  <2>1. \A k \in Key : snap'[k] = snap[k] => (Usable(k)' <=> Usable(k))
    BY <1>1 DEF Usable, Live
  <2> QED  BY <1>2, <2>1 DEF Fresh
<1>5. UNCHANGED <<Stage, Given, Newest, Purged>>
  BY <1>1 DEF Stage, Given, InFlight, Newest, Purged
<1> QED  BY <1>3, <1>4, <1>5 DEF Promise!Lose, Stage, Given, Kept, Fresh, Newest, Purged

\* As time goes on, rows stop to serve; none begins.
LEMMA TickFades ==
    ASSUME IInv, Tick
    PROVE  Promise!Fade
<1>1. TypeOK /\ UNCHANGED <<snap, pc, val, past>> /\ clock \in Nat /\ clock' = clock + 1
  BY DEF IInv, Tick, TypeOK
<1>2. Fresh' \in SUBSET Fresh
  <2>1. ASSUME NEW k \in Key, Usable(k)'
        PROVE  Usable(k)
    <3>1. snap[k] # Null /\ snap[k].expires > clock + 1 /\ snap[k].valid
      BY <1>1, <2>1 DEF Usable, Live
    <3>2. snap[k].expires \in Nat
      BY <1>1, <3>1 DEF TypeOK, Snapshot
    <3>3. snap[k].expires > clock
      BY <1>1, <3>1, <3>2
    <3> QED  BY <3>1, <3>3 DEF Usable, Live
  <2> QED  BY <2>1 DEF Fresh
<1>3. UNCHANGED <<Kept, Stage, Given, Newest, Purged>>
  BY <1>1 DEF Kept, Stage, Given, InFlight, Newest, Purged
<1> QED  BY <1>2, <1>3 DEF Promise!Fade, Stage, Given, Kept, Fresh, Newest, Purged

\* A restart ends all requests and keeps every value.
LEMMA RestartStops ==
    ASSUME IInv, NEW rejected \in SUBSET Key, Restart(rejected)
    PROVE  Promise!Stop
<1>1. /\ TypeOK /\ past' = past /\ pc' = [r \in Request |-> "idle"]
      /\ snap' = [k \in Key |-> IF snap[k] = Null THEN Null
                                 ELSE [snap[k] EXCEPT !.valid = k \notin rejected]]
  BY DEF IInv, Restart
<1>2. Stage' = [r \in Request |-> "out"] /\ Given' = [r \in Request |-> 0]
  BY <1>1 DEF Stage, Given, InFlight
<1>3. \A k \in Key : /\ snap'[k] = Null <=> snap[k] = Null
                     /\ snap[k] # Null => snap'[k].val = snap[k].val
  <2> SUFFICES ASSUME NEW k \in Key, snap[k] # Null
               PROVE  snap'[k] # Null /\ snap'[k].val = snap[k].val
    BY <1>1
  <2>1. snap[k] \in [val : Nat, expires : Nat, valid : BOOLEAN]
    BY <1>1 DEF TypeOK, Snapshot
  <2>2. snap'[k] = [snap[k] EXCEPT !.valid = k \notin rejected]
    BY <1>1
  <2>3. snap'[k] \in Snapshot
    BY <2>1, <2>2 DEF Snapshot
  <2> QED  BY <2>1, <2>2, <2>3, PlayerCacheAssumption DEF PlayerCacheAssumption
<1>4. Kept' = Kept
  BY <1>3 DEF Kept
<1>5. \A k \in Key : Kept[k] = Null <=> snap[k] = Null
  BY <1>1, PlayerCacheAssumption DEF PlayerCacheAssumption, TypeOK, Kept, Snapshot
<1>6. Fresh' \in SUBSET {k \in Key : Kept[k] # Null}
  BY <1>3, <1>5 DEF Fresh, Usable, Live
<1>7. UNCHANGED <<Newest, Purged>>
  BY <1>1 DEF Newest, Purged
<1> QED  BY <1>2, <1>4, <1>6, <1>7 DEF Promise!Stop,
             Stage, Given, Kept, Fresh, Newest, Purged

\* Each action is the step of SnapshotCache that the lemmas above say, or none.
LEMMA PromiseStep ==
    ASSUME IInv, [Next]_vars
    PROVE  [Promise!Next]_View
<1>1. ASSUME NEW r \in Request, Arrive(r) \/ Get(r) \/ Fetch(r) \/ Put(r)
      PROVE  UNCHANGED View \/ Promise!Next
  <2>1. CASE FetchReturns(r) \/ FetchFallsBack(r)
    BY <2>1, FetchHidden
  <2>2. CASE Arrive(r)
    BY <2>2, ArriveAsks DEF Promise!Next
  <2>3. CASE Hit(r)
    BY <2>3, HitServes DEF Promise!Next
  <2>4. CASE Miss(r)
    BY <2>4, MissTurns DEF Promise!Next
  <2>5. CASE GetFails(r) \/ FetchFails(r) \/ PutFails(r)
    BY <2>5, RaiseFails DEF Promise!Next
  <2>6. CASE PutCommits(r)
    BY <2>6, PutRenews DEF Promise!Next, Given
  <2> QED  BY <1>1, <2>1, <2>2, <2>3, <2>4, <2>5, <2>6 DEF Get, Fetch, Put
<1>2. ASSUME NEW p \in Player, Invalidate(p)
      PROVE  Promise!Next
  <2>1. Promise!Purge({k \in Key : Owner[k] = p})
    BY <1>2, InvalidatePurges
  <2>2. {k \in Key : Owner[k] = p} \in SUBSET Key
    OBVIOUS
  <2> QED  BY <2>1, <2>2 DEF Promise!Next
<1>3. CASE \E now \in 0..clock : Prune(now)
  BY <1>3, PruneLoses DEF Promise!Next
<1>4. CASE Tick
  BY <1>4, TickFades DEF Promise!Next
<1>5. CASE \E rejected \in SUBSET Key : Restart(rejected)
  BY <1>5, RestartStops DEF Promise!Next
<1>6. CASE UNCHANGED vars
  <2>1. UNCHANGED <<pc, val, snap, past, clock>>
    BY <1>6 DEF vars
  <2>2. UNCHANGED <<Kept, Fresh, Newest, Purged>>
    BY <2>1, TableSame
  <2>3. UNCHANGED <<Stage, Given>>
    BY <2>1 DEF Stage, Given, InFlight
  <2> QED  BY <2>2, <2>3 DEF View
<1> QED  BY <1>1, <1>2, <1>3, <1>4, <1>5, <1>6 DEF Next

\* The cache is a SnapshotCache, for any number of requests, keys and players, any TTL
\* and any number of restarts.
THEOREM KeepsPromiseHolds == Spec => KeepsPromise
<1>1. Init => IInv /\ Promise!Init
  <2> SUFFICES ASSUME Init PROVE Promise!Init
    BY InitIInv, PlayerCacheAssumption
  <2>1. /\ Kept = [k \in Key |-> Null] /\ Fresh = {}
        /\ Stage = [r \in Request |-> "out"] /\ Given = [r \in Request |-> 0]
        /\ Newest = [k \in Key |-> 0] /\ Purged = [k \in Key |-> 0]
    BY DEF Init, Kept, Fresh, Usable, Live, Stage, InFlight, Given, Newest, Purged, NoHistory
  <2> QED  BY <2>1 DEF Promise!Init, Kept, Fresh, Stage, Given, Newest, Purged
<1>2. IInv /\ [Next]_vars => [Promise!Next]_(Promise!vars)
  BY PromiseStep DEF View, Promise!vars, Kept, Fresh, Stage, Given, Newest, Purged
<1> QED  BY <1>1, <1>2, Invariance, PTL DEF Spec, KeepsPromise, Promise!Spec
===========================================================================
