---------------------------- MODULE Conversation ----------------------------
(***************************************************************************)
(* What a user may rely on in a chat, whatever is kept of it: his          *)
(* questions and their answers stand in the order they were made, an       *)
(* answer stands after its own question, what is forgotten is the oldest,  *)
(* and the only turn ever taken back is a question that failed.            *)
(***************************************************************************)
EXTENDS Naturals, Sequences

CONSTANTS Question, Answers(_)      \* Answers(q): the possible answers to q

VARIABLES
    turns,      \* the turns that are kept
    open        \* a question is in hand, the last of the turns

\* What is left when the oldest turns are forgotten.
Suffixes(s) == {SubSeq(s, k, Len(s)) : k \in 1..(Len(s) + 1)}

Init == turns = <<>> /\ open = FALSE

\* A question in hand is then left without an answer.
Ask ==
    /\ \E q \in Question : turns' \in Suffixes(Append(turns, q)) \ {<<>>}
    /\ open'

Answer ==
    /\ open /\ turns # <<>>
    /\ \E a \in Answers(turns[Len(turns)]) : turns' \in Suffixes(Append(turns, a))
    /\ open' = FALSE

Withdraw ==
    /\ open /\ turns # <<>>
    /\ turns' = SubSeq(turns, 1, Len(turns) - 1)
    /\ open' = FALSE

\* The oldest turns, or all, are forgotten, or a question in hand is left.
Forget == turns' \in Suffixes(turns) /\ open' = FALSE

Next == Ask \/ Answer \/ Withdraw \/ Forget

Spec == Init /\ [][Next]_<<turns, open>>
=============================================================================
