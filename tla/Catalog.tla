------------------------------ MODULE Catalog ------------------------------
(* The content catalog of agents, and the arithmetic its users share.      *)
EXTENDS Integers, Sequences, FiniteSets

CONSTANTS
    Agents,     \* the agents known, in alphabetical order
    Name,       \* what clients and providers send: names and uuids, in any case
    AgentOf,    \* AgentOf[n] is the agent n resolves to, which may be none known
    RoleOf      \* RoleOf[a], "none" for an agent that is not in the catalog

Agent == DOMAIN RoleOf
Role == {"Duelist", "Initiator", "Controller", "Sentinel"}

ASSUME CatalogAssumption ==
    /\ RoleOf \in [Agent -> Role \cup {"none"}]
    /\ Agents \in Seq(Agent)
    /\ {Agents[i] : i \in DOMAIN Agents} = {a \in Agent : RoleOf[a] \in Role}
    /\ \A i, j \in DOMAIN Agents : Agents[i] = Agents[j] => i = j
    /\ AgentOf \in [Name -> Agent]

\* resolve_agent_name
Resolved(names) == [i \in DOMAIN names |-> AgentOf[names[i]]]

Least(a, b) == IF a < b THEN a ELSE b
Most(a, b) == IF a > b THEN a ELSE b
If(b, n) == IF b THEN n ELSE 0

\* round(a / b), for naturals.
Rounded(a, b) == (2 * a + b) \div (2 * b)
=============================================================================
