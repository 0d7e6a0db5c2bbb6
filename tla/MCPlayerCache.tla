-------------------------- MODULE MCPlayerCache --------------------------
(* Two callers of one player's rank and one of a match detail.             *)
EXTENDS PlayerCache

CONSTANTS r1, r2, r3, rank, match, p1

MCRequest == {r1, r2, r3}
MCKey == {rank, match}
MCKeyOf == [r \in MCRequest |-> IF r = r3 THEN match ELSE rank]
MCOwner == [k \in MCKey |-> IF k = match THEN Null ELSE p1]
==========================================================================
