-------------------------- MODULE MCCoachingSync --------------------------
(* One player, linked by two users in two regions, the worker and a caller *)
(* who may ask for either.                                                 *)
EXTENDS CoachingSync

CONSTANTS a1, a2, p, s1, s2, u1, u2

MCOf == [s \in {s1, s2} |-> p]
MCIdentity == [a \in {a1, a2} |-> IF a = a1 THEN s1 ELSE s2]
MCUser == [a \in {a1, a2} |-> IF a = a1 THEN u1 ELSE u2]

\* Bound: one match.
MCPlays == [q \in {p} |-> 1]
===========================================================================
