---------------------------- MODULE DraftAdvice ----------------------------
(***************************************************************************)
(* The synergy service: the score of a composition and the counter picks,  *)
(* as functions of the agents named and of the tables of the service.      *)
(* Scores are whole numbers, as in the code; its texts are left out.       *)
(***************************************************************************)
EXTENDS Catalog

CONSTANTS
    Smokes, Flashes, Recon,     \* SMOKE_AGENTS, FLASH_AGENTS, RECON_AGENTS
    Meta,       \* MAP_META_PICKS of the map
    Counters,   \* Counters[a]: the agents COUNTER_MATRIX has a counters
    Dangerous   \* the agents an enemy is a threat with

\* The agents with smokes are the controllers of the catalog.
ASSUME DraftAssumption ==
    /\ Smokes = {a \in Agent : RoleOf[a] = "Controller"}
    /\ Counters \in [Agent -> SUBSET Agent]

\* Mutant: the score is bounded below only.
ClampBelow(n) == Most(10, n)

\* max(10, min(100, score))
Clamp(n) == Most(10, Least(100, n))

RoleCount(team, role) == Cardinality({i \in DOMAIN team : RoleOf[team[i]] = role})

Some(team, set) == \E i \in DOMAIN team : team[i] \in set

Weaknesses(team) ==
    LET n(role) == RoleCount(team, role) IN
    (IF n("Controller") = 0 THEN <<"Controller">> ELSE <<>>)
    \o (IF n("Initiator") = 0 THEN <<"Initiator">> ELSE <<>>)
    \o (IF n("Sentinel") = 0 THEN <<"Sentinel">> ELSE <<>>)
    \o (IF n("Duelist") = 0 \/ n("Duelist") > 2 THEN <<"Duelist">> ELSE <<>>)

\* Mutant: a second controller is penalised like a third duelist.
RolePointsOfOne(team) ==
    LET n(role) == RoleCount(team, role) IN
      (IF n("Controller") # 1 THEN -25 ELSE 6)
      + (IF n("Initiator") = 0 THEN -15 ELSE 5)
      + (IF n("Sentinel") = 0 THEN -8 ELSE 4)
      + (IF n("Duelist") = 0 THEN -5 ELSE IF n("Duelist") > 2 THEN -14 ELSE 4)

RolePoints(team) ==
    LET n(role) == RoleCount(team, role) IN
      (IF n("Controller") = 0 THEN -25 ELSE 6)
      + (IF n("Initiator") = 0 THEN -15 ELSE 5)
      + (IF n("Sentinel") = 0 THEN -8 ELSE 4)
      + (IF n("Duelist") = 0 THEN -5 ELSE IF n("Duelist") > 2 THEN -14 ELSE 4)

\* weaknesses[0], read of a list that may be empty.
Unsmoked(team) ==
    ~Some(team, Smokes) /\ Weaknesses(team)[1] # "Controller"

UtilityPoints(team) ==
    If(Unsmoked(team), -10) + If(~Some(team, Recon) /\ ~Some(team, Flashes), -10)

MetaPoints(team) == Least(3 * Cardinality({i \in DOMAIN team : team[i] \in Meta}), 12)

Countered(team, enemies) ==
    {i \in DOMAIN enemies : \E j \in DOMAIN team : enemies[i] \in Counters[team[j]]}

SynergyScore(allies, foes) ==
    LET team == Resolved(allies)  enemies == Resolved(foes) IN
    Clamp(75 + RolePoints(team) + UtilityPoints(team) + MetaPoints(team)
             + If(Cardinality(Countered(team, enemies)) >= 2, 5))

Tier(score) ==
    CASE score >= 88 -> "S"
      [] score \in 75..87 -> "A"
      [] score \in 60..74 -> "B"
      [] score \in 45..59 -> "C"
      [] OTHER -> "D"

----------------------------------------------------------------------------
(* recommend_counter_picks.  history is a sequence of [agent, won].        *)

Played(history, a) == {i \in DOMAIN history : history[i].agent = a}
Won(history, a) == {i \in Played(history, a) : history[i].won}

MasteryPoints(history, a) ==
    LET n == Cardinality(Played(history, a)) IN
    If(n >= 2, Least(2 * n, 10) + If(2 * Cardinality(Won(history, a)) >= n, 5))

PickScore(a, team, enemies, history) ==
    Clamp(50 + 16 * Cardinality({i \in DOMAIN enemies : enemies[i] \in Counters[a]})
             + If(a \in Meta, 15)
             + If(\A i \in DOMAIN team : RoleOf[team[i]] # RoleOf[a], 12)
             + MasteryPoints(history, a))

\* The agents nobody has locked, by score; the sort keeps the order of the catalog.
CounterPicks(allies, foes, history, top) ==
    LET team == Resolved(allies)  enemies == Resolved(foes)
        open == {i \in DOMAIN Agents : ~Some(team, {Agents[i]})}
        score(i) == PickScore(Agents[i], team, enemies, history)
        above(i, j) == score(i) > score(j) \/ (score(i) = score(j) /\ i < j)
        ranked == [n \in 1..Cardinality(open) |->
                     Agents[CHOOSE i \in open : Cardinality({j \in open : above(j, i)}) = n - 1]]
    IN SubSeq(ranked, 1, Least(top, Len(ranked)))

Threats(foes) == {Resolved(foes)[i] : i \in DOMAIN foes} \cap Dangerous
=============================================================================
