---------------------------- MODULE PlayerLookup ----------------------------
(***************************************************************************)
(* What a caller may rely on in a read that several providers could serve: *)
(* those who can are asked in the order of preference, each once, until    *)
(* one of them serves it.  What any of them failed with stands, and when   *)
(* all have failed the error tells it: not found if they all say so.  How  *)
(* a provider comes by its data is its own affair.                         *)
(***************************************************************************)
CONSTANTS
    Provider, Kind, None,
    First(_)    \* First(S): whom of S to ask

VARIABLES
    asked,      \* the providers that can serve the read
    said,       \* said[p]: the failure of p, if it was asked and has failed
    result      \* the provider that serves the read, or the error

Silent == {p \in asked : said[p] = None}

Open == result = None /\ Silent # {}

Init == asked = {} /\ said = [p \in Provider |-> None] /\ result = None

\* Nobody may be there to be asked.
Ask ==
    /\ ~Open
    /\ asked' \in SUBSET Provider
    /\ said' = [p \in Provider |-> None]
    /\ result' = IF asked' = {} THEN "unavailable" ELSE None

Serve ==
    /\ Open
    /\ result' = First(Silent)
    /\ UNCHANGED <<asked, said>>

\* The error when nobody is left.
Told(failures) ==
    IF \A p \in asked : failures[p] = "notfound" THEN "notfound"
    ELSE IF \E p \in asked : failures[p] = "invalid" THEN "error"
    ELSE "unavailable"

Refuse ==
    /\ Open
    /\ \E k \in Kind : said' = [said EXCEPT ![First(Silent)] = k]
    /\ result' = IF Silent = {First(Silent)} THEN Told(said') ELSE None
    /\ UNCHANGED asked

Next == Ask \/ Serve \/ Refuse

Spec == Init /\ [][Next]_<<asked, said, result>>
=============================================================================
