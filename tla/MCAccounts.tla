----------------------------- MODULE MCAccounts -----------------------------
(* A seeded user who has linked two accounts and may log in again, and a   *)
(* free address, which may be registered in two spellings.                 *)
EXTENDS Accounts

CONSTANTS l1, l2, s1, a, b, p1, p2

MCSecret == [u \in Seeded |-> p1]
MCAddress == [u \in Seeded |-> a]
MCLinked == [l \in Old |-> [user |-> s1, primary |-> l = l1]]
MCTyped == {[of |-> a, plain |-> FALSE]} \cup [of : {b}, plain : BOOLEAN]
=============================================================================
