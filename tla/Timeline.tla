------------------------------ MODULE Timeline ------------------------------
(***************************************************************************)
(* The round-by-round analysis of a player's matches: where the details    *)
(* come from, for which team they are read, and what the replay of a match *)
(* counts.  The tally of a match is kept for both teams, as the analysis   *)
(* of one match may be asked for a player of either; the analytics use     *)
(* that of the team they take for the player's.                            *)
(***************************************************************************)
EXTENDS Naturals, Sequences, FiniteSets

CONSTANTS
    Player,     \* the puuids in the kills of a match
    TeamOf,     \* TeamOf[p] is the team the match lists p for, or "Unknown"
    Hero,       \* the player whose analytics are asked for
    Window,     \* TRADE_KILL_WINDOW_MILLIS
    Half,       \* the rounds of the first half, 12
    Thrifty,    \* thresholds of the team's loadout: [winner, loser]
    AntiEco,    \* [friendly, enemy]
    AtLeast,      \* counts from which a takeaway or a leak is worded
    Rounds,     \* what the payload may say of a round beside its kills
    Times,      \* round times of kills, in ms
    First,      \* the number of the first round of a payload
    MaxRounds, MaxKills, MaxMatches     \* bounds of an analysis

Team == {"Red", "Blue"}
Unknown == "Unknown"

ASSUME TimelineAssumption ==
    /\ TeamOf \in [Player -> Team \cup {Unknown}]
    /\ Hero \in Player /\ TeamOf[Hero] \in Team
    /\ {Window, Half, First, MaxRounds, MaxKills, MaxMatches} \subseteq Nat
    /\ Times \subseteq Nat

Counter ==
    {"rounds", "score", "conceded", "atkWon", "atkTotal", "defWon", "defTotal",
     "firstBloods", "firstDeaths", "bloodWins", "trades", "deaths", "clutches",
     "clutchWins", "antiEco", "thrifty", "retakes", "retaken"}

None == [c \in Counter |-> 0]

VARIABLES
    at,         \* where the request is
    ident,      \* the player_identifier: "hash" of the store, "puuid" or "name"
    listed,     \* the matches whose details are still to be read
    leads,      \* the team of the first player in the payload at hand
    kills,      \* the kills of its round at hand, as listed
    tally,      \* its counts for each team
    total,      \* the counts summed over the matches
    analyzed,   \* the valid matches
    advice      \* the takeaways of the match analysed last; once done, the leaks

vars == <<at, ident, listed, leads, kills, tally, total, analyzed, advice>>

Kill == [killer : Player, victim : Player, at : Times]

TypeOK ==
    /\ at \in {"idle", "profile", "history", "details", "replay", "done"}
    /\ ident \in {"none", "hash", "puuid", "name"}
    /\ listed \in 0..MaxMatches /\ analyzed \in 0..MaxMatches
    /\ leads \in Team
    /\ kills \in Seq(Kill) /\ Len(kills) <= MaxKills
    /\ tally \in [Team -> [Counter -> Nat]] /\ total \in [Counter -> Nat]
    /\ advice \subseteq
         {"antiEco", "fewTrades", "trades", "converts", "wastes", "retakes", "attackers",
          "defenders", "balanced", "isolated", "defence", "consistent"}

Init ==
    /\ at = "idle" /\ ident = "none" /\ listed = 0 /\ leads = "Red"
    /\ kills = <<>> /\ tally = [t \in Team |-> None]
    /\ total = None /\ analyzed = 0 /\ advice = {}

----------------------------------------------------------------------------
(* The kills of a round.                                                   *)

Before(ks, i, j) == ks[i].at < ks[j].at \/ (ks[i].at = ks[j].at /\ i < j)

\* Mutant: the kills stay as the payload lists them, player by player.
ChronologicalAsListed(ks) == ks

\* kills.sort(key=round_time_millis), which is stable.
Chronological(ks) ==
    [n \in DOMAIN ks |->
       ks[CHOOSE i \in DOMAIN ks :
            Cardinality({j \in DOMAIN ks : Before(ks, j, i)}) = n - 1]]

\* The kill at i kills the killer of the one at j, for its victim's team.
Avenges(ks, i, j) ==
    /\ ks[i].victim = ks[j].killer
    /\ TeamOf[ks[i].killer] = TeamOf[ks[j].victim]

\* The kills marked is_trade_kill: the loop goes back from each until one is beyond
\* the window.
Trades(ks) ==
    {i \in DOMAIN ks : \E j \in 1..(i - 1) :
        /\ Avenges(ks, i, j)
        /\ \A m \in j..(i - 1) : ks[i].at - ks[m].at <= Window}

----------------------------------------------------------------------------
(* A round, for team t.  r is what the payload says of it, n its number.   *)

Attackers(n) == IF n <= Half THEN "Red" ELSE "Blue"

Opponent(t) == IF t = "Red" THEN "Blue" ELSE "Red"

\* The first keyword that the result contains.
WinType(r) ==
    CASE "eliminated" \in r.words -> "Eliminated"
      [] "eliminated" \notin r.words /\ "defused" \in r.words -> "Bomb defused"
      [] r.words \cap {"eliminated", "defused"} = {}
         /\ r.words \cap {"detonated", "bomb"} # {} -> "Bomb detonated"
      [] r.words \cap {"eliminated", "defused", "detonated", "bomb"} = {}
         /\ r.words \cap {"time", "expired"} # {} -> "Time out"
      [] r.words = {"surrender"} -> "Surrender"
      [] OTHER -> Unknown

LoadOf(r, t) == IF t \in Team THEN r.loads[t] ELSE 0

IsThrifty(r) ==
    \/ r.ceremony = "thrifty"
    \/ /\ LoadOf(r, r.winner) \in 1..(Thrifty.winner - 1)
       /\ LoadOf(r, Opponent(r.winner)) >= Thrifty.loser

IsAntiEcoLoss(r, t) ==
    /\ r.winner # t
    /\ LoadOf(r, t) >= AntiEco.friendly
    /\ LoadOf(r, r.winner) < AntiEco.enemy

\* Mutant: the side of the winner is taken for that of the team.
AttacksAsWinner(t, r, n) == r.winner = Attackers(n)

\* An undecided round has no winning side and counts as a defence.
Attacks(t, r, n) ==
    \/ r.winner = Attackers(n) /\ r.winner = t
    \/ r.winner \in Team \ {Attackers(n)} /\ r.winner # t

One(b) == IF b THEN 1 ELSE 0

TradesOf(t, ks) == {i \in Trades(ks) : TeamOf[ks[i].killer] = t}

\* What the round adds to each count of team t; ks are its kills in order.
Adds(t, r, n, ks) ==
    LET won == r.winner = t
        attacks == Attacks(t, r, n)
        first == ks # <<>> /\ TeamOf[ks[1].killer] = t
    IN [None EXCEPT
          !["rounds"] = 1,
          !["score"] = One(won),
          !["conceded"] = One(~won /\ r.winner \in Team),
          !["atkTotal"] = One(attacks),
          !["atkWon"] = One(attacks /\ won),
          !["defTotal"] = One(~attacks),
          !["defWon"] = One(~attacks /\ won),
          !["firstBloods"] = One(first),
          !["firstDeaths"] = One(ks # <<>> /\ ~first),
          !["bloodWins"] = One(first /\ won),
          !["trades"] = Cardinality(TradesOf(t, ks)),
          !["deaths"] = Cardinality({i \in DOMAIN ks : TeamOf[ks[i].victim] = t}),
          !["clutches"] = One(r.ceremony = "clutch"),
          !["clutchWins"] = One(r.ceremony = "clutch" /\ won),
          !["antiEco"] = One(IsAntiEcoLoss(r, t)),
          !["thrifty"] = One(IsThrifty(r) /\ won),
          !["retakes"] = One(r.planted /\ ~attacks),
          !["retaken"] = One(/\ r.planted /\ ~attacks /\ won
                             /\ r.defused /\ WinType(r) = "Bomb defused")]

Plus(c, d) == [x \in Counter |-> c[x] + d[x]]

\* round(100 * a / b, 1) in tenths, and 0 of nothing.
Rate(a, b) == IF b = 0 THEN 0 ELSE (2000 * a + b) \div (2 * b)

Takeaways(c) ==
    LET eff == Rate(c["trades"], c["deaths"])
        blood == Rate(c["bloodWins"], c["firstBloods"])
        atk == Rate(c["atkWon"], c["atkTotal"])
        def == Rate(c["defWon"], c["defTotal"])
        found ==
          {x \in {"antiEco"} : c["antiEco"] > 0}
          \cup {x \in {"fewTrades"} : eff < 250 /\ c["deaths"] >= AtLeast.deaths}
          \cup {x \in {"trades"} : eff >= 400}
          \cup {x \in {"converts"} : c["firstBloods"] >= AtLeast.bloods /\ blood >= 700}
          \cup {x \in {"wastes"} : c["firstBloods"] >= AtLeast.bloods /\ blood < 450}
          \cup {x \in {"retakes"} : /\ c["retakes"] >= AtLeast.retakes
                                    /\ Rate(c["retaken"], c["retakes"]) < 300}
          \cup {x \in {"attackers"} : /\ c["atkTotal"] >= AtLeast.side /\ c["defTotal"] >= AtLeast.side
                                      /\ atk >= def + 250}
          \cup {x \in {"defenders"} : /\ c["atkTotal"] >= AtLeast.side /\ c["defTotal"] >= AtLeast.side
                                      /\ def >= atk + 250}
    IN IF found = {} THEN {"balanced"} ELSE found

Leaks(c) ==
    LET found ==
          {x \in {"antiEco"} : c["antiEco"] >= AtLeast.leaks}
          \cup {x \in {"isolated"} : /\ Rate(c["trades"], c["deaths"]) < 250
                                     /\ c["rounds"] >= AtLeast.rounds}
          \cup {x \in {"defence"} : /\ Rate(c["defWon"], c["defTotal"]) < 400
                                    /\ c["defTotal"] >= AtLeast.defences}
          \cup {x \in {"retakes"} : /\ Rate(c["retaken"], c["retakes"]) < 250
                                    /\ c["retakes"] >= AtLeast.allRetakes}
    IN IF found = {} THEN {"consistent"} ELSE found

----------------------------------------------------------------------------
(* The request.                                                            *)

Keep == UNCHANGED <<leads, kills, tally, total, analyzed, advice>>

\* list_player_match_details: details of the store are analysed under the key of the
\* player there, without any we ask the providers.  A failure ends the request.
Ask(stored) ==
    /\ at = "idle"
    /\ listed' = stored
    /\ \/ stored > 0 /\ at' = "details" /\ ident' = "hash"
       \/ stored = 0 /\ at' = "profile" /\ ident' = "none"
    /\ Keep

\* get_player serves a profile, with a puuid or without one, or fails.
Profile(by) ==
    /\ at = "profile"
    /\ at' = "history" /\ ident' = by
    /\ UNCHANGED listed /\ Keep

\* get_recent_matches; its failure counts as no matches.
History(n) ==
    /\ at = "history"
    /\ at' = "details" /\ listed' = n
    /\ UNCHANGED ident /\ Keep

\* Mutant: the loop does not end with the last match.
DetailFailsAgain ==
    /\ at = "details" /\ ident # "hash"
    /\ listed' = listed - 1
    /\ UNCHANGED <<at, ident>> /\ Keep

\* A detail that cannot be read is left out; those of the store are there.
DetailFails ==
    /\ at = "details" /\ listed > 0 /\ ident # "hash"
    /\ listed' = listed - 1
    /\ UNCHANGED <<at, ident>> /\ Keep

Detail(t) ==
    /\ at = "details" /\ listed > 0
    /\ at' = "replay" /\ listed' = listed - 1
    /\ leads' = t
    /\ UNCHANGED <<ident, kills, tally, total, analyzed, advice>>

Shown == tally["Red"]["rounds"]

\* Bounds: the rounds of all matches, and about as many kills.
MoreRounds == total["rounds"] + Shown < MaxRounds

MoreKills ==
    total["deaths"] + tally["Red"]["deaths"] + tally["Blue"]["deaths"] + Len(kills) < MaxKills

\* The payload goes on.  A player who is revived is killed again later than a trade
\* could be.
ListKill(k) ==
    /\ at = "replay" /\ MoreRounds /\ MoreKills
    /\ \A i \in DOMAIN kills :
          kills[i].victim = k.victim =>
             kills[i].at > k.at + Window \/ k.at > kills[i].at + Window
    /\ kills' = Append(kills, k)
    /\ UNCHANGED <<at, ident, listed, leads, tally, total, analyzed, advice>>

ParseRound(r) ==
    /\ at = "replay" /\ MoreRounds
    /\ tally' = [t \in Team |->
          Plus(tally[t], Adds(t, r, First + Shown, Chronological(kills)))]
    /\ kills' = <<>>
    /\ UNCHANGED <<at, ident, listed, leads, total, analyzed, advice>>

\* friendly_team: that of the player if the identifier is his puuid or his name, else
\* that of the first player listed.
Friendly == IF ident \in {"puuid", "name"} THEN TeamOf[Hero] ELSE leads

\* The response of a match has its takeaways; without rounds it is not counted.
EndMatch ==
    /\ at = "replay" /\ kills = <<>>
    /\ at' = "details"
    /\ IF Shown = 0
       THEN UNCHANGED <<total, analyzed, advice>>
       ELSE /\ total' = Plus(total, tally[Friendly]) /\ analyzed' = analyzed + 1
            /\ advice' = Takeaways(tally[Friendly])
    /\ tally' = [t \in Team |-> None]
    /\ UNCHANGED <<ident, listed, leads, kills>>

Answer ==
    /\ at = "details" /\ listed = 0
    /\ at' = "done"
    /\ advice' = Leaks(total)
    /\ UNCHANGED <<ident, listed, leads, kills, tally, total, analyzed>>

Next ==
    \/ \E n \in 0..MaxMatches : Ask(n) \/ History(n)
    \/ \E by \in {"puuid", "name"} : Profile(by)
    \/ DetailFails
    \/ \E t \in Team : Detail(t)
    \/ \E k \in Kill : ListKill(k)
    \/ \E r \in Rounds : ParseRound(r)
    \/ EndMatch
    \/ Answer

Spec == Init /\ [][Next]_vars

----------------------------------------------------------------------------

\* The kills marked as trades are those that avenge a teammate's death within the
\* window, in whatever order the payload lists the kills.
TradesAreTrades ==
    LET ks == Chronological(kills) IN
    {ks[i] : i \in Trades(ks)} =
        {kills[i] : i \in {i \in DOMAIN kills : \E j \in DOMAIN kills :
            /\ Before(kills, j, i) /\ Avenges(kills, i, j)
            /\ kills[i].at <= kills[j].at + Window}}

\* The two teams see the same match: what one wins the other concedes, one attacks
\* where the other defends, one's first blood is the other's first death, a clutch or
\* a retake succeeds for one of them at most.  And no rate exceeds 100 %, for which
\* the response would be refused: a death is traded once at most, although trades and
\* deaths are counted apart.
TeamsMirror ==
    /\ \A t \in Team :
        LET us == tally[t]  them == tally[Opponent(t)]
            undecided == us["rounds"] - us["score"] - us["conceded"]
        IN /\ us["score"] = them["conceded"]
           /\ us["defTotal"] = them["atkTotal"] + undecided
           /\ us["firstBloods"] <= them["firstDeaths"]
           /\ us["clutches"] = them["clutches"]
           /\ us["clutchWins"] + them["clutchWins"] <= us["clutches"]
           /\ us["retaken"] <= them["atkTotal"] - them["atkWon"]
           /\ us["trades"] <= us["deaths"]
    /\ total["trades"] <= total["deaths"]

\* The analytics of a player are those of his team.
AnalyticsAreOfThePlayer == at = "replay" => Friendly = TeamOf[Hero]
=============================================================================
