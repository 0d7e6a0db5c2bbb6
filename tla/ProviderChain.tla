--------------------------- MODULE ProviderChain ---------------------------
(***************************************************************************)
(* One player request served by the configured providers in turn:          *)
(* PlayerService's fallback from Tracker.gg to Henrik to Riot, the HTTP    *)
(* calls each provider makes for a resource, the retry loop of             *)
(* BaseHTTPClient.request around every call, and the classification of the *)
(* failures by _raise_failure.  Of a payload, only the parts that its      *)
(* reader looks at are kept, and whether they are what it expects.         *)
(***************************************************************************)
EXTENDS Naturals, Sequences, FiniteSets

CONSTANTS
    Retries,        \* ProviderConfig.retries
    Limit,          \* the limit of a match history
    MaxHistory,     \* bound on the entries of Riot's matchlist
    Null

Provider == {"tracker", "henrik", "riot"}
Resource == {"profile", "rank", "stats", "matches", "detail"}
Endpoint == {"profile", "enrich", "matches", "account", "mmr", "list", "detail"}

\* One HTTP attempt: a payload that satisfies the contract, one that does not,
\* one that does but has nothing on the player, a status, a timeout or network
\* error, any other transport error.
Answer == {"ok", "malformed", "absent", "404", "401", "429", "4xx", "5xx",
           "timeout", "broken"}

Kind == {"notfound", "invalid", "other"}

ASSUME ProviderChainAssumption ==
    /\ Retries \in Nat
    /\ Limit \in 1..20
    /\ MaxHistory \in Nat
    /\ Null \notin Provider \cup Resource \cup Kind \cup {"error", "unavailable"}

VARIABLES
    configured, \* the providers create_player_service has built
    phase,      \* idle, calling (an attempt is sent), pausing (backoff), done
    resource,   \* what was asked for
    left,       \* the providers not tried yet
    at,         \* the provider being tried
    todo,       \* its HTTP calls, the current one first
    attempt,    \* attempts of the current call that have failed
    listed,     \* entries of Riot's matchlist
    usable,     \* details of them that made a match summary
    failed,     \* failed[p] is the kind of failure p ended with
    outcome,    \* the provider whose data is returned, or the error
    sent        \* history: the attempts of this request

vars == <<configured, phase, resource, left, at, todo, attempt, listed, usable,
          failed, outcome, sent>>

TypeOK ==
    /\ configured \in SUBSET Provider
    /\ phase \in {"idle", "calling", "pausing", "done"}
    /\ resource \in Resource \cup {Null}
    /\ left \in SUBSET Provider
    /\ at \in Provider \cup {Null}
    /\ todo \in Seq(Endpoint)
    /\ attempt \in 0..Retries
    /\ listed \in 0..MaxHistory
    /\ usable \in 0..Limit
    /\ failed \in [Provider -> Kind \cup {Null}]
    /\ outcome \in Provider \cup {"notfound", "error", "unavailable", Null}
    /\ sent \in Nat

Init ==
    /\ configured \in SUBSET Provider
    /\ phase = "idle"
    /\ resource = Null
    /\ left = {}
    /\ at = Null
    /\ todo = <<>>
    /\ attempt = 0
    /\ listed = 0
    /\ usable = 0
    /\ failed = [p \in Provider |-> Null]
    /\ outcome = Null
    /\ sent = 0

----------------------------------------------------------------------------
(* Who serves what, in which order, with which calls.                      *)

Applicable(res) ==
    CASE res \in {"profile", "matches"} -> Provider
      [] res = "rank" -> {"tracker", "henrik"}
      [] res = "stats" -> {"tracker"}
      [] res = "detail" -> {"riot"}

Turn(p) == CASE p = "tracker" -> 1 [] p = "henrik" -> 2 [] p = "riot" -> 3

FirstOf(S) == CHOOSE p \in S : \A q \in S : Turn(p) <= Turn(q)

\* known: the region (for Henrik) or the PUUID (for Riot) came with the request.
Calls(p, res, known) ==
    LET account == IF known THEN <<>> ELSE <<"account">> IN
    CASE p = "tracker" /\ res = "profile" -> <<"profile", "enrich">>
      [] p = "tracker" /\ res \in {"rank", "stats"} -> <<"profile">>
      [] p = "tracker" /\ res = "matches" -> <<"matches">>
      [] p \in {"henrik", "riot"} /\ res = "profile" -> <<"account">>
      [] p = "henrik" /\ res = "rank" -> account \o <<"mmr">>
      [] p = "henrik" /\ res = "matches" -> account \o <<"matches">>
      [] p = "riot" /\ res = "matches" -> account \o <<"list">>
      [] p = "riot" /\ res = "detail" -> <<"detail">>

\* The first provider of S is tried; the attempt of its first call is sent.
Try(S, res, n) ==
    /\ phase' = "calling"
    /\ at' = FirstOf(S)
    /\ left' = S \ {FirstOf(S)}
    /\ \E known \in BOOLEAN : todo' = Calls(FirstOf(S), res, known)
    /\ attempt' = 0
    /\ listed' = 0
    /\ usable' = 0
    /\ outcome' = Null
    /\ sent' = n + 1

Finish(result) ==
    /\ phase' = "done"
    /\ outcome' = result
    /\ at' = Null
    /\ left' = {}
    /\ todo' = <<>>
    /\ attempt' = 0

\* Mutant: one not found is enough.
VerdictOfAny(failures) ==
    IF \E p \in Provider : failures[p] = "notfound" THEN "notfound"
    ELSE IF \E p \in Provider : failures[p] = "invalid" THEN "error"
    ELSE "unavailable"

\* _raise_failure.
Verdict(failures) ==
    LET kinds == {failures[p] : p \in Provider} \ {Null} IN
    IF kinds = {"notfound"} THEN "notfound"
    ELSE IF "invalid" \in kinds THEN "error"
    ELSE "unavailable"

\* Mutant: only the last provider's error is kept.
FailUnrecorded(k) ==
    \/ left # {} /\ Try(left, resource, sent) /\ UNCHANGED failed
    \/ /\ left = {}
       /\ failed' = [failed EXCEPT ![at] = k]
       /\ Finish(Verdict(failed')) /\ UNCHANGED <<listed, usable, sent>>

\* The provider fails, with an error of kind k; the next one is tried.
Fail(k) ==
    LET failures == [failed EXCEPT ![at] = k] IN
    /\ failed' = failures
    /\ \/ left # {} /\ Try(left, resource, sent)
       \/ left = {} /\ Finish(Verdict(failures)) /\ UNCHANGED <<listed, usable, sent>>

----------------------------------------------------------------------------

\* Mutant: the loop's state is kept in the service, where the next request finds
\* and overwrites it.
AskOver(res) ==
    LET S == configured \cap Applicable(res)
        none == [p \in Provider |-> Null] IN
    /\ resource' = res
    /\ failed' = none
    /\ \/ S # {} /\ Try(S, res, 0)
       \/ S = {} /\ Finish(Verdict(none)) /\ listed' = 0 /\ usable' = 0 /\ sent' = 0
    /\ UNCHANGED configured

\* A request arrives.
Ask(res) ==
    LET S == configured \cap Applicable(res)
        none == [p \in Provider |-> Null] IN
    /\ phase \in {"idle", "done"}
    /\ resource' = res
    /\ failed' = none
    /\ \/ S # {} /\ Try(S, res, 0)
       \/ S = {} /\ Finish(Verdict(none)) /\ listed' = 0 /\ usable' = 0 /\ sent' = 0
    /\ UNCHANGED configured

Current == Head(todo)

\* The details of a match history, one call per listed match.
InHistory == resource = "matches" /\ at = "riot" /\ Current = "detail"

\* The next call of the same provider.
Continue(calls) ==
    /\ todo' = calls
    /\ attempt' = 0
    /\ sent' = sent + 1
    /\ UNCHANGED <<phase, at, left, failed, outcome>>

\* Mutant: a history without a usable match is returned.
DeliverAnything(n) ==
    /\ Finish(at)
    /\ usable' = n
    /\ UNCHANGED <<listed, failed, sent>>

\* The provider's last call is over; a history that lists matches but has no
\* usable one is malformed.
Deliver(n) ==
    \/ /\ listed > 0 /\ n = 0
       /\ Fail("invalid")
    \/ /\ listed = 0 \/ n > 0
       /\ Finish(at)
       /\ usable' = n
       /\ UNCHANGED <<listed, failed, sent>>

\* A call is answered as its contract says.
Succeed ==
    /\ phase = "calling"
    /\ Current # "list" /\ ~InHistory
    /\ \/ Len(todo) > 1 /\ Continue(Tail(todo)) /\ UNCHANGED <<listed, usable>>
       \/ Len(todo) = 1 /\ Deliver(usable)
    /\ UNCHANGED <<configured, resource>>

\* Mutant: the details of every listed match.
CallAllDetails(n) ==
    /\ phase = "calling"
    /\ Current = "list"
    /\ \/ /\ n > 0
          /\ listed' = n
          /\ Continue([i \in 1..n |-> "detail"])
          /\ UNCHANGED usable
       \/ /\ n = 0
          /\ Deliver(0)
    /\ UNCHANGED <<configured, resource>>

\* Riot's matchlist with n entries; of the first Limit, the details of those that
\* name a match are fetched.
List(n) ==
    /\ phase = "calling"
    /\ Current = "list"
    /\ \/ /\ n > 0
          /\ listed' = n
          /\ \E k \in 1..(IF n < Limit THEN n ELSE Limit) :
                Continue([i \in 1..k |-> "detail"])
          /\ UNCHANGED usable
       \/ /\ n > 0
          /\ Fail("invalid")
       \/ /\ n = 0
          /\ Deliver(0)
    /\ UNCHANGED <<configured, resource>>

\* A detail that makes a summary (n = 1), or one that is skipped (n = 0).
Summarize(n) ==
    /\ phase = "calling"
    /\ InHistory
    /\ \/ /\ Len(todo) > 1
          /\ usable' = usable + n
          /\ Continue(Tail(todo))
          /\ UNCHANGED listed
       \/ /\ Len(todo) = 1
          /\ Deliver(usable + n)
    /\ UNCHANGED <<configured, resource>>

Transient == {"429", "5xx", "timeout"}

\* Backoff before another attempt.
Pause(a) ==
    /\ phase = "calling"
    /\ a \in Transient
    /\ attempt < Retries
    /\ phase' = "pausing"
    /\ UNCHANGED <<configured, resource, left, at, todo, attempt, listed, usable,
                   failed, outcome, sent>>

Retry ==
    /\ phase = "pausing"
    /\ phase' = "calling"
    /\ attempt' = attempt + 1
    /\ sent' = sent + 1
    /\ UNCHANGED <<configured, resource, left, at, todo, listed, usable, failed,
                   outcome>>

----------------------------------------------------------------------------
(* What an answer that ends a call means.                                  *)

\* A part of a payload: what its reader expects, left out, an object of other
\* contents, or no such object at all.
Part == {"fine", "missing", "invalid", "alien"}

\* The parts that Tracker.gg's readers look at; stats are those of the overview
\* segment, and rows stands for the worst row of a history.
ProfilePayload ==
    [body : Part, data : Part, platformInfo : Part, userInfo : Part,
     segments : Part, stats : Part, rank : Part]
HistoryPayload == [body : Part, data : Part, matches : Part, rows : Part]

\* What Riot's account is read from.
AccountPayload == [body : Part, puuid : Part]

\* One check after the other.
Then(a, b) == IF a = "ok" THEN b ELSE a

\* Validated, or checked by type: an InvalidResponseError or a ValidationError.
Checked(part) == IF part = "fine" THEN "ok" ELSE "malformed"

\* Used unchecked: an AttributeError or TypeError if it has another type.
Used(part) == IF part = "alien" THEN "broken" ELSE "ok"

GetJson(x) == Checked(x.body)

GetProfile(x) == Then(GetJson(x), Checked(x.data))

GetPlayerProfile(x) ==
    Then(GetProfile(x), Then(Checked(x.platformInfo), Then(Used(x.userInfo),
         IF x.userInfo = "missing" THEN "ok" ELSE Checked(x.userInfo))))

\* Without segments the overview is empty, and its stats are missing; without one
\* of that type it is the first segment.
FindSegment(x) ==
    Then(Used(x.segments), IF x.segments = "missing" THEN "malformed" ELSE "ok")

\* The rank is optional, the figures are not.
ParseLifetimeStats(x) ==
    Then(Used(x.stats), Then(Checked(x.stats), Then(Used(x.rank),
         IF x.rank = "missing" THEN "ok" ELSE Checked(x.rank))))

GetPlayerStats(x) == Then(GetProfile(x), Then(FindSegment(x), ParseLifetimeStats(x)))

\* A player without a rank is one that was not found, for a request of the rank.
GetRank(x) ==
    Then(GetPlayerStats(x), IF x.rank = "missing" THEN "absent" ELSE "ok")

\* One malformed row makes the whole history malformed.
ParseMatch(x) == Checked(x.rows)

GetMatchHistory(x) ==
    Then(GetJson(x), Then(Checked(x.data), Then(Checked(x.matches),
         IF x.rows = "missing" THEN "ok" ELSE ParseMatch(x))))

GetPlayerByRiotId(x) == Then(Checked(x.body), Checked(x.puuid))

PlayerReadings == {GetPlayerProfile(x) : x \in ProfilePayload}
StatsReadings == {GetPlayerStats(x) : x \in ProfilePayload}
RankReadings == {GetRank(x) : x \in ProfilePayload}
HistoryReadings == {GetMatchHistory(x) : x \in HistoryPayload}
AccountReadings == {GetPlayerByRiotId(x) : x \in AccountPayload}

\* What a payload can turn out to be, by who reads it and for what.
Readings(p, call, res) ==
    CASE p = "tracker" /\ call = "matches" -> HistoryReadings
      [] p = "tracker" /\ res = "rank" -> RankReadings
      [] p = "tracker" /\ res = "profile" /\ call = "profile" -> PlayerReadings
      [] p = "tracker" /\ (call = "enrich" \/ res = "stats") -> StatsReadings
      [] p = "riot" /\ call = "account" -> AccountReadings
      [] OTHER -> {"ok", "malformed"}

\* The exception of a call, by the answer that ended it.
ErrorOf(a) ==
    CASE a \in {"404", "absent"} -> "NotFound"
      [] a = "401" -> "Authentication"
      [] a = "429" -> "RateLimit"
      [] a = "5xx" -> "Server"
      [] a = "malformed" -> "InvalidResponse"
      [] OTHER -> "Unexpected"

\* How each provider passes it on, "Unexpected" for its base class.
TrackerError(e) ==
    IF e \in {"InvalidResponse", "Authentication", "RateLimit", "NotFound", "Server"}
    THEN e ELSE "Unexpected"

HenrikError(e) ==
    IF e \in {"InvalidResponse", "Authentication", "NotFound", "RateLimit"}
    THEN e ELSE "Unexpected"

RiotError(e) ==
    IF e \in {"InvalidResponse", "Authentication", "NotFound", "RateLimit"}
    THEN e ELSE "Unexpected"

\* What the fallback makes of it.
KindOf(p, a) ==
    LET e == CASE p = "tracker" -> TrackerError(ErrorOf(a))
               [] p = "henrik" -> HenrikError(ErrorOf(a))
               [] p = "riot" -> RiotError(ErrorOf(a)) IN
    CASE e = "NotFound" -> "notfound"
      [] e = "InvalidResponse" -> "invalid"
      [] OTHER -> "other"

----------------------------------------------------------------------------

\* An answer that ends the call: final at once, or transient once too often.
\* Tracker's enrichment of a profile may fail and Riot skips a malformed detail
\* of a history; nothing else survives a failed call.
GiveUp(a) ==
    /\ phase = "calling"
    /\ a # "ok"
    /\ a \in {"malformed", "absent"} => a \in Readings(at, Current, resource)
    /\ a \in Transient => attempt = Retries
    /\ ~(InHistory /\ a = "malformed")
    /\ \/ Current = "enrich" /\ Deliver(usable)
       \/ Current # "enrich" /\ Fail(KindOf(at, a))
    /\ UNCHANGED <<configured, resource>>

----------------------------------------------------------------------------

Next ==
    \/ \E res \in Resource : Ask(res)
    \/ Succeed
    \/ \E n \in 0..MaxHistory : List(n)
    \/ \E n \in {0, 1} : Summarize(n)
    \/ \E a \in Answer : Pause(a) \/ GiveUp(a)
    \/ Retry

Spec == Init /\ [][Next]_vars

\* An attempt ends, with an answer or its timeout; a backoff ends.  No particular
\* answer is ever promised.
Respond ==
    \/ Succeed
    \/ \E n \in 0..MaxHistory : List(n)
    \/ \E n \in {0, 1} : Summarize(n)
    \/ \E a \in Answer : Pause(a) \/ GiveUp(a)
    \/ Retry

FairSpec == Spec /\ WF_vars(Respond)

----------------------------------------------------------------------------

Asked == configured \cap Applicable(resource)

\* "Every applicable provider confirmed that the resource was not found": a 404 for a
\* match of the history that Riot has just listed says nothing of that history.
DetailGone(p) ==
    failed[p] = "notfound" /\ p = "riot" /\ resource = "matches" /\ listed > 0

Confirms(p) == failed[p] = "notfound" /\ ~DetailGone(p)

\* What PlayerNotFoundError promises.
NotFoundIsConfirmed ==
    outcome = "notfound" => Asked # {} /\ \A p \in Asked : Confirms(p)

\* What it keeps of that: each applicable provider has failed, and not by an outage, a
\* rejected key or malformed data.  All have confirmed that the resource was not found,
\* unless it is a history whose listed match Riot no longer has.
NotFoundIsUnanimous ==
    outcome = "notfound" => Asked # {} /\ \A p \in Asked : Confirms(p) \/ DetailGone(p)

\* PlayerLookup says what a caller may rely on.  Of a request it knows who can serve
\* it, who has failed and how, and how it ended; calls, attempts and backoffs are
\* its stutters.
Lookup == INSTANCE PlayerLookup WITH
    None <- Null,
    First <- FirstOf,
    asked <- IF resource = Null THEN {} ELSE Asked,
    said <- failed,
    result <- outcome

\* The fallback is such a lookup: a provider is asked only when those preferred to it
\* have failed, once, and never after one has served; no failure is forgotten or
\* revised by the calls that follow it, and the error that ends the request is that
\* of all of them.
LooksUpInTurn == Lookup!Spec

\* An empty history is returned only if Riot listed no match: an outage or
\* malformed details never turn a history into an empty one.
EmptyHistoryIsReal ==
    outcome = "riot" /\ resource = "matches" => (usable = 0 <=> listed = 0)

\* The calls a request can need: one of Tracker.gg's, two of Henrik's, and Riot's
\* account, matchlist and details.
CallBudget == 5 + Limit

\* However the providers answer, a request sends a bounded number of attempts:
\* retries do not multiply across calls, details or providers.
AttemptsBounded == sent <= (Retries + 1) * CallBudget

\* Every request is answered, with data or an error.
RequestEnds == phase \in {"calling", "pausing"} ~> phase = "done"
============================================================================
