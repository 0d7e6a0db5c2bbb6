------------------------------ MODULE Insights ------------------------------
(***************************************************************************)
(* What the service makes of a player's history: coaching reports, the     *)
(* progression over matches and reports, the overview, and the advice for  *)
(* a draft.  A request asks its reads one after the other, and each may    *)
(* fail; a report is stored for the progression to find.                   *)
(***************************************************************************)
EXTENDS CoachingAgents, DraftAdvice

CONSTANTS
    Match,      \* the player's matches
    Statistics, \* what his statistics may be
    MaxHistory, MaxReports, MaxDraft, Top   \* bounds

ASSUME InsightsAssumption ==
    /\ Match \subseteq [at : Nat \ {0}, kills : Nat, deaths : Nat, assists : Nat,
                        result : STRING, agent : Agent]
    /\ \A m, n \in Match : m.at = n.at => m = n
    /\ Statistics \subseteq [kills : Nat, deaths : Nat, assists : Nat,
                             win_pct : Nat, headshots : Nat]
    /\ "Unknown" \in Agent
    /\ {MaxHistory, MaxReports, MaxDraft, Top} \subseteq Nat

VARIABLES
    reports,    \* the payloads stored for the player, newest first
    op,         \* the operation under way, or "none"
    step,       \* the read it waits for
    matches,    \* the history it has been given, in the order of its provider
    timed,      \* whether the timestamps there are numbers, or texts
    answer,     \* the answer to the last request
    allies, foes    \* a draft in the making: the names locked

request == <<op, step, matches, timed>>
insightsVars == <<reports, request, answer, allies, foes>>

Nothing == [x \in {} |-> x]

Section == {"rank", "stats", "recent_matches"}

Lists(S, n) == UNION {[1..k -> S] : k \in 0..n}

\* A history has every match once.
Histories == {h \in Lists(Match, MaxHistory) : \A i, j \in DOMAIN h : h[i] = h[j] => i = j}

\* A flaw, or a drill, and the agent it comes from.
Cause ==
    {"noData", "playMore", "isolatedDuels", "exitFrags", "transitions", "buyingAlone",
     "overspending", "Flex"} \cup Role
Line == {"combat", "economy", "role"} \X Cause

\* A report has a flaw and a drill of each of the three agents.
Payload ==
    {p \in [kd : Nat, role_score : 0..1000, key_strengths : SUBSET {"duels", "assists", "discipline", "utility"},
            critical_flaws : SUBSET Line, training_plan : SUBSET Line] :
        Cardinality(p.critical_flaws) = 3 /\ Cardinality(p.training_plan) = 3}

InsightsTypeOK ==
    /\ reports \in Seq(Payload) /\ Len(reports) <= MaxReports
    /\ op \in {"none", "report", "progression", "picks"}
    /\ step \in {"history", "stats", "reports", "store", "advise"}
    /\ matches \in Histories /\ timed \in BOOLEAN
    /\ {allies, foes} \subseteq Lists(Name, MaxDraft)
    /\ "kd" \in DOMAIN answer => answer.kd \in {"improving", "declining", "stable"}
    /\ "score" \in DOMAIN answer => answer.score \in 10..100
    /\ "picks" \in DOMAIN answer => Len(answer.picks) <= Top

InsightsInit ==
    /\ reports = <<>> /\ op = "none" /\ step = "history"
    /\ matches = <<>> /\ timed = TRUE /\ answer = Nothing
    /\ allies = <<>> /\ foes = <<>>

----------------------------------------------------------------------------
(* Progression.                                                            *)

SumOf(n, f(_)) ==
    LET sum[i \in 0..n] == IF i = 0 THEN 0 ELSE sum[i - 1] + f(i) IN sum[n]

\* Mutant: the history is taken for chronological.
ByTimeAsListed(ms, numeric) == ms

\* sorted(..., key = timestamp, or 0 unless it is a number), which is stable.
ByTime(ms, numeric) ==
    LET before(i, j) == numeric /\ ms[i].at < ms[j].at IN
    IF ~numeric THEN ms
    ELSE [n \in DOMAIN ms |->
            ms[CHOOSE i \in DOMAIN ms : Cardinality({j \in DOMAIN ms : before(j, i)}) = n - 1]]

\* The average of the values of s[from..to].
Average(s, from, to) ==
    Rounded(SumOf(to - from + 1, LAMBDA i : s[from + i - 1]), to - from + 1)

Trend(change) == IF change >= 50 THEN "improving" ELSE IF change <= -50 THEN "declining" ELSE "stable"

\* round(1000 * (recent - base) / base), of either sign.
Change(recent, base) ==
    IF recent >= base THEN Rounded(1000 * (recent - base), Most(1, base))
    ELSE -Rounded(1000 * (base - recent), Most(1, base))

Kd(m) == Ratio(m.kills, m.deaths)
WinPct(m) == If(m.result = "victory", 1000)

\* The later half of the matches against the earlier one.
Trends(ms, numeric) ==
    LET sorted == ByTime(ms, numeric)  n == Len(ms)
        half == Most(1, n \div 2)
        kds == [i \in 1..n |-> Kd(sorted[i])]
        wins == [i \in 1..n |-> WinPct(sorted[i])]
        recent(s) == Average(s, n - half + 1, n)
        base(s) == Average(s, 1, half)
    IN [kd |-> Trend(Change(recent(kds), base(kds))),
        wins |-> Trend(recent(wins) - base(wins))]

AgentTrends(ms) ==
    LET of(a) == {i \in DOMAIN ms : ms[i].agent = a} IN
    [a \in {ms[i].agent : i \in DOMAIN ms} |->
       [played |-> Cardinality(of(a)),
        wins |-> Cardinality({i \in of(a) : ms[i].result = "victory"})]]

\* The weaknesses of a payload, read under "critical_weaknesses"; the report writer
\* calls them critical_flaws.
Weak(payload) == Get(payload, "critical_weaknesses", {})

FocusAreas(rs, kdTrend) ==
    LET latest == IF rs = <<>> THEN {} ELSE Weak(rs[1])
        resolved == UNION {Weak(rs[i]) : i \in 2..Len(rs)} \ latest
    IN IF latest = {} /\ resolved = {}
       THEN [active |-> {"firstDuels", "ecoRounds"},
             resolved |-> IF kdTrend = "improving" THEN {"crosshair"} ELSE {}]
       ELSE [active |-> latest, resolved |-> resolved]

Progression(ms, numeric, stats) ==
    IF ms = <<>>
    THEN [total |-> 0, kd |-> "stable", wins |-> "stable", headshots |-> 20,
          active |-> {}, resolved |-> {}, agents |-> Nothing]
    ELSE LET t == Trends(ms, numeric)
             focus == FocusAreas(reports, t.kd)
         IN [total |-> Len(ms), kd |-> t.kd, wins |-> t.wins,
             headshots |-> LET hs == Get(stats, "headshots", 0) IN IF hs = 0 THEN 20 ELSE hs,
             active |-> focus.active, resolved |-> focus.resolved,
             agents |-> AgentTrends(ms)]

----------------------------------------------------------------------------
(* Requests.                                                               *)

At(o, s) == op = o /\ step = s

Go(s) == step' = s /\ UNCHANGED <<op, timed, matches>>

\* The request is answered, and what it kept is gone.
Done(a) ==
    /\ answer' = a
    /\ op' = "none" /\ step' = "history" /\ matches' = <<>> /\ timed' = TRUE

Error == [error |-> "unavailable"]

Request(o) ==
    /\ op = "none"
    /\ op' = o /\ answer' = Nothing
    /\ UNCHANGED <<step, matches, timed, reports, allies, foes>>

AfterHistory(o) == IF o = "report" THEN "stats" ELSE IF o = "progression" THEN "reports" ELSE "advise"

\* get_recent_matches
ReadHistory(h, numeric) ==
    /\ op # "none" /\ step = "history"
    /\ matches' = h /\ timed' = numeric
    /\ step' = AfterHistory(op)
    /\ UNCHANGED <<op, answer, reports, allies, foes>>

\* A report cannot do without it; the others go on with none.
HistoryFails ==
    /\ op # "none" /\ step = "history"
    /\ IF op = "report" THEN Done(Error) ELSE Go(AfterHistory(op)) /\ UNCHANGED answer
    /\ UNCHANGED <<reports, allies, foes>>

\* list_coaching_reports, without which there is no progression.
ReadReports ==
    /\ At("progression", "reports")
    /\ \/ Go("stats") /\ UNCHANGED answer
       \/ Done(Error)
    /\ UNCHANGED <<reports, allies, foes>>

\* get_stats_overview serves the statistics or, for an empty record, fails, which
\* the progression swallows.
Progress(stats) ==
    /\ At("progression", "stats")
    /\ Done(Progression(matches, timed, stats))
    /\ UNCHANGED <<reports, allies, foes>>

\* The reports that a progression reads.
Latest(rs) == SubSeq(rs, 1, Least(Len(rs), MaxReports))

\* generate_coaching_report: the agents run on what has been read, and the report is
\* stored, or the storage fails.
StoreReport(stats) ==
    /\ At("report", "stats")
    /\ \/ /\ reports' = Latest(<<Report(matches, stats)>> \o reports)
          /\ Done([stored |-> TRUE])
       \/ Done(Error) /\ UNCHANGED reports
    /\ UNCHANGED <<allies, foes>>

\* get_player_overview: the three sections are read at once, and those that fail are
\* listed.  The identity fails, or a read raises another error: so does the request.
Overview(served) ==
    /\ op = "none"
    /\ \/ answer' = [sections |-> served, unavailable |-> Section \ served]
       \/ answer' = Error
    /\ UNCHANGED <<request, reports, allies, foes>>

\* health: unhealthy if no provider is at least degraded.
Overall(statuses) ==
    IF statuses = {} THEN "degraded"
    ELSE IF statuses = {"healthy"} THEN "healthy"
    ELSE IF statuses \cap {"healthy", "degraded"} = {} THEN "unhealthy"
    ELSE "degraded"

Health(statuses) ==
    /\ op = "none"
    /\ answer' = [status |-> Overall(statuses)]
    /\ UNCHANGED <<request, reports, allies, foes>>

\* The composition is evaluated with one more ally or enemy.
Lock(n, ours) ==
    /\ op = "none"
    /\ Len(allies) + Len(foes) < MaxDraft
    /\ allies' = IF ours THEN Append(allies, n) ELSE allies
    /\ foes' = IF ours THEN foes ELSE Append(foes, n)
    /\ allies' # <<>>
    /\ answer' = LET score == SynergyScore(allies', foes') IN [score |-> score, tier |-> Tier(score)]
    /\ UNCHANGED <<request, reports>>

NewDraft ==
    /\ op = "none" /\ allies # <<>>
    /\ allies' = <<>> /\ foes' = <<>> /\ answer' = Nothing
    /\ UNCHANGED <<request, reports>>

\* The counter picks, with what the player has played.
Recommend ==
    /\ At("picks", "advise")
    /\ LET history == [i \in DOMAIN matches |->
             [agent |-> matches[i].agent, won |-> matches[i].result = "victory"]]
       IN Done([picks |-> CounterPicks(allies, foes, history, Top), threats |-> Threats(foes)])
    /\ UNCHANGED <<reports, allies, foes>>

InsightsNext ==
    \/ \E o \in {"report", "progression", "picks"} : Request(o)
    \/ \E h \in Histories, numeric \in BOOLEAN :
          (op # "progression" => numeric) /\ ReadHistory(h, numeric)
    \/ HistoryFails
    \/ ReadReports
    \/ \E stats \in Statistics \cup {Nothing} : Progress(stats) \/ StoreReport(stats)
    \/ \E served \in SUBSET Section : Overview(served)
    \/ \E statuses \in SUBSET {"healthy", "degraded", "unhealthy"} : Health(statuses)
    \/ \E n \in Name, ours \in BOOLEAN : Lock(n, ours)
    \/ NewDraft
    \/ Recommend

InsightsSpec == InsightsInit /\ [][InsightsNext]_insightsVars

----------------------------------------------------------------------------

\* With timestamps that are numbers, the trends are those of the matches in time,
\* whichever way the provider lists them.
TrendsIgnoreListing ==
    op = "progression" /\ timed /\ matches # <<>> =>
        \A h \in Histories :
            /\ Len(h) = Len(matches)
            /\ {h[i] : i \in DOMAIN h} = {matches[i] : i \in DOMAIN matches}
            => Trends(h, TRUE) = Trends(matches, TRUE)

\* One more ally lowers the score of a composition only as a third duelist, and one
\* more enemy never does, whatever the map and the tables.
OnlyThirdDuelistHurts ==
    [][/\ Len(allies') + Len(foes') = Len(allies) + Len(foes) + 1
       /\ allies # <<>>
       /\ RoleCount(Resolved(allies'), "Duelist") # 3
       => SynergyScore(allies', foes') >= SynergyScore(allies, foes)]_insightsVars
=============================================================================
