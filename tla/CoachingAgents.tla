--------------------------- MODULE CoachingAgents ---------------------------
(***************************************************************************)
(* The agents' pipeline: three analyses of the latest match and the        *)
(* player's statistics, and the report written from them.  Dictionaries    *)
(* are records, read with a default as the code does; texts are tags, and   *)
(* the evidence is left out.                                               *)
(* Ratios are in hundredths and scores in tenths, rounded.                 *)
(***************************************************************************)
EXTENDS Catalog

\* dict.get
Get(d, key, default) == IF key \in DOMAIN d THEN d[key] ELSE default

Empty(d) == DOMAIN d = {}

Ratio(a, b) == Rounded(100 * a, Most(b, 1))

----------------------------------------------------------------------------

\* MatchAnalystAgent.run
MatchAnalysis(match, stats) ==
    LET kills == Get(stats, "kills", 0)
        deaths == Get(stats, "deaths", 0)
        assists == Get(stats, "assists", 0)
        result == Get(match, "result", Get(stats, "result", "Unknown"))
        kd == Ratio(kills, deaths)
        mistake == IF kd < 90 THEN "isolatedDuels"
                   ELSE IF kd >= 120 /\ result = "defeat" THEN "exitFrags"
                   ELSE "transitions"
    IN IF Empty(match) /\ Empty(stats)
       THEN [main_mistake |-> "noData", drill |-> "playMore",
             metrics |-> [status |-> "no_stats"]]
       ELSE [main_mistake |-> mistake, drill |-> mistake,
             metrics |-> [kd_ratio |-> kd, kda_ratio |-> Ratio(kills + assists, deaths),
                          trade_rate |-> Ratio(assists, deaths), result |-> result]]

\* What a round was bought as: the tests are tried in this order.
Purchase(r) ==
    IF r.buy = "eco" \/ r.loadout \in 1..1999 THEN "eco"
    ELSE IF r.buy = "force" \/ r.loadout \in 2000..3899 THEN "force"
    ELSE IF r.buy = "full" \/ r.loadout >= 3900 THEN "full"
    ELSE "other"

RoundsBought(match, purchases) ==
    LET rounds == Get(match, "rounds", <<>>) IN
    Cardinality({i \in DOMAIN rounds : Purchase(rounds[i]) \in purchases})

\* EconomyCoachAgent.run: without rounds, the win rate stands in for the purchases.
EconomyAnalysis(match, stats) ==
    LET force == RoundsBought(match, {"force"})
        bought == RoundsBought(match, {"eco", "force", "full"})
        winPct == Get(stats, "win_pct", 50)
        discipline == IF bought > 0
                      THEN Most(100, 1000 - Rounded(700 * force, bought))
                      ELSE Most(300, Least(950, 14 * winPct))
        rating == IF bought > 0
                  THEN Least(980, 600 + Rounded(35 * discipline, 100))
                  ELSE Most(400, Least(900, 500 + 4 * winPct))
        mistake == IF discipline < 600 \/ force > 3 THEN "buyingAlone" ELSE "overspending"
    IN [economy_rating |-> rating, buy_discipline_score |-> discipline,
        main_mistake |-> mistake, drill |-> mistake]

\* RoleCoachAgent.run
RoleAnalysis(agent, match, stats) ==
    LET role == IF RoleOf[agent] = "none" THEN "Flex" ELSE RoleOf[agent]
        kills == Get(match, "kills", Get(stats, "kills", 12))
        deaths == Get(match, "deaths", Get(stats, "deaths", 10))
        assists == Get(match, "assists", Get(stats, "assists", 4))
        points ==
          CASE role = "Duelist" ->
                 Most(250, 500 + Rounded(250 * kills, Most(1, deaths)))
            [] role \in {"Initiator", "Controller"} ->
                 Most(300, 550 + Rounded(500 * assists, Most(1, kills + assists)))
            [] OTHER -> Most(350, 500 + 25 * Most(0, 15 - deaths))
    IN [role |-> role, role_score |-> Least(950, points),
        main_mistake |-> role, drill |-> role]

----------------------------------------------------------------------------

\* ReportWriterAgent.run, for analyses as they are dumped.
Written(match, economy, role) ==
    LET kd == Get(match, "kd_ratio", 100)
        rating == Get(economy, "economy_rating", 700)
        analyses == {<<"combat", match>>, <<"economy", economy>>, <<"role", role>>}
        lines(key) == {<<a[1], a[2][key]>> : a \in {b \in analyses : key \in DOMAIN b[2]}}
    IN [kd |-> kd,
        role_score |-> Get(role, "role_score", 700),
        key_strengths |-> {IF kd >= 100 THEN "duels" ELSE "assists",
                           IF rating >= 700 THEN "discipline" ELSE "utility"},
        critical_flaws |-> lines("main_mistake"),
        training_plan |-> lines("drill")]

\* OrchestratorAgent.run, for the matches in the order they are listed.
Report(matches, stats) ==
    LET match == IF matches = <<>> THEN [x \in {} |-> x] ELSE matches[1]
        agent == Get(match, "agent", "Unknown")
    IN Written(MatchAnalysis(match, stats), EconomyAnalysis(match, stats),
               RoleAnalysis(agent, match, stats))
=============================================================================
