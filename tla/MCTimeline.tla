---------------------------- MODULE MCTimeline ----------------------------
(* One red, two blues; rounds twelve and thirteen, before and after the half. *)
EXTENDS Timeline, TLC

CONSTANTS r1, b1, b2

MCTeamOf == [p \in {r1, b1, b2} |-> IF p = r1 THEN "Red" ELSE "Blue"]

\* Times and money in units: the window is 1, a poor team has 1 and a rich one 3.
MCThrifty == [winner |-> 2, loser |-> 3]
MCAntiEco == [friendly |-> 2, enemy |-> 2]
MCAtLeast ==
    [deaths |-> 1, bloods |-> 1, retakes |-> 1, side |-> 1, leaks |-> 1,
     rounds |-> 1, defences |-> 1, allRetakes |-> 1]

Quiet == [winner |-> "Red", words |-> {"eliminated"}, ceremony |-> "none",
          planted |-> FALSE, defused |-> FALSE,
          loads |-> [t \in Team |-> 2]]

MCRounds ==
    {Quiet,
     [Quiet EXCEPT !.winner = "Blue", !.ceremony = "clutch"],
     [Quiet EXCEPT !.winner = Unknown, !.words = {}, !.planted = TRUE],
     [Quiet EXCEPT !.winner = "Blue", !.words = {"bomb", "defused"}, !.planted = TRUE,
                   !.defused = TRUE, !.loads = [Red |-> 3, Blue |-> 1]],
     [Quiet EXCEPT !.words = {"bomb", "detonated"}, !.planted = TRUE,
                   !.ceremony = "thrifty"]}

===========================================================================
