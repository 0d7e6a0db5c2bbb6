---------------------- MODULE MCStoreTransactions ----------------------
(* One player: two histories (two values of limit) over the same matches,  *)
(* the profile and a match detail; an invalidation and two prunes.         *)
EXTENDS StoreTransactions

CONSTANTS h1, h2, profile, detail, p1, m1, m2

MCKey == {h1, h2, profile, detail}
MCOwner == [k \in MCKey |-> IF k = detail THEN Null ELSE p1]
MCDetailOf == [k \in {detail} |-> m1]
MCPosition == [m \in {m1, m2} |-> IF m = m1 THEN 1 ELSE 2]
========================================================================
