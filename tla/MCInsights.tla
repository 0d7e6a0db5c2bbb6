---------------------------- MODULE MCInsights ----------------------------
(* Three matches and four agents, one of them spelled in two ways.         *)
EXTENDS Insights

MCRoleOf ==
    [a \in {"Jett", "Sova", "Omen", "Killjoy", "Unknown"} |->
       CASE a = "Jett" -> "Duelist" [] a = "Sova" -> "Initiator"
         [] a = "Omen" -> "Controller" [] a = "Killjoy" -> "Sentinel" [] OTHER -> "none"]
MCAgents == <<"Jett", "Killjoy", "Omen", "Sova">>
MCName == {"Jett", "add6443a", "Sova", "Omen", "Killjoy"}
MCAgentOf == [n \in MCName |-> IF n = "add6443a" THEN "Jett" ELSE n]
MCCounters ==
    [a \in DOMAIN MCRoleOf |->
       CASE a = "Sova" -> {"Killjoy", "Jett"}
         [] a = "Killjoy" -> {"Jett"} [] a = "Omen" -> {"Jett", "Sova"} [] OTHER -> {}]

MCMatch ==
    {[at |-> 1, kills |-> 10, deaths |-> 10, assists |-> 3, result |-> "defeat", agent |-> "Jett"],
     [at |-> 2, kills |-> 14, deaths |-> 10, assists |-> 3, result |-> "defeat", agent |-> "Omen"],
     [at |-> 3, kills |-> 20, deaths |-> 9, assists |-> 3, result |-> "victory", agent |-> "Jett"]}

MCStatistics ==
    {[kills |-> 130, deaths |-> 100, assists |-> 30, win_pct |-> 40, headshots |-> 0]}

===========================================================================
