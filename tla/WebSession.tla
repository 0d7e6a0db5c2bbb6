------------------------------ MODULE WebSession ------------------------------
(***************************************************************************)
(* The web client: the token of the session, in memory and in the tab's    *)
(* sessionStorage, the guarded pages, and the calls in flight.  A call     *)
(* outlives the page that made it: its answer still reaches the token and  *)
(* the router, but the page's own signals no more.                         *)
(***************************************************************************)
EXTENDS Naturals, FiniteSets

CONSTANTS
    MaxLogins,      \* bound: logins that succeed
    MaxCalls        \* bound: calls in flight when the user acts

ASSUME WebAssumption == {MaxLogins, MaxCalls} \subseteq Nat

Page == {"resumen", "partidas", "informes", "marcador", "cuenta"}
Guarded == {"informes", "marcador"}

Token == 1..MaxLogins           \* named by the login it came from
NoToken == 0

\* The buttons that are disabled while their spinner turns, and the calls they make.
Spinner == {"form", "action", "report", "scan", "sync", "search"}

Makes(f) ==
    CASE f = "form" -> {"login", "register"}
      [] f = "action" -> {"link"}
      [] f = "search" -> {"player"}
      [] OTHER -> {f}

Kind ==
    (UNION {Makes(f) : f \in Spinner})
      \cup {"me", "linked", "progression", "matches", "stats", "reports", "timeline"}

VARIABLES
    token,      \* tokenSignal
    stored,     \* the token in sessionStorage
    expired,    \* the token's exp is over
    logins,
    page,
    back,       \* returnUrl of the account page
    user,       \* whose data the account page shows
    ready,      \* the page has what it needs: a profile found, an image chosen
    spinning,   \* the spinners that turn
    calls       \* the calls in flight

vars == <<token, stored, expired, logins, page, back, user, ready, spinning, calls>>

Call ==
    [id : Nat, kind : Kind, token : Token \cup {NoToken}, live : BOOLEAN,
     back : Page \cup {"none"}]

TypeOK ==
    /\ {token, stored} \subseteq Token \cup {NoToken}
    /\ expired \in BOOLEAN
    /\ logins \in 0..MaxLogins /\ token <= logins
    /\ page \in Page
    /\ back \in (Page \ {"cuenta"}) \cup {"none"}
    /\ user \in Token \cup {NoToken}
    /\ ready \in BOOLEAN
    /\ spinning \subseteq Spinner
    /\ calls \subseteq Call

Init ==
    /\ token = NoToken /\ stored = NoToken /\ expired = FALSE /\ logins = 0
    /\ page = "resumen" /\ back = "none" /\ user = NoToken
    /\ ready = FALSE /\ spinning = {} /\ calls = {}

----------------------------------------------------------------------------
(* Calls and pages.                                                        *)

\* cs and new calls of these kinds, with token t; whose it was matters to "me" only.
With(cs, kinds, t, live) ==
    LET free == CHOOSE n \in 0..Cardinality(cs) : \A c \in cs : c.id # n
    IN cs \cup {[id |-> free, kind |-> k, live |-> live, back |-> "none",
                   token |-> IF k = "me" /\ live THEN t ELSE NoToken] : k \in kinds}

\* hasToken() and not isExpired(), for the token t there is from now on.
SignedIn(t) == t # NoToken /\ ~expired'

\* authGuard.
Routed(p, t) == IF p \in Guarded /\ ~SignedIn(t) THEN "cuenta" ELSE p

\* What a page asks for when it is made.
Asks(p, t) ==
    CASE p = "cuenta" /\ t # NoToken -> {"me"}
      [] p = "informes" -> {"progression"}
      [] OTHER -> {}

\* The calls of a page that goes; one to log in remembers where it would go back to.
Orphaned(cs) ==
    {[c EXCEPT !.live = FALSE, !.token = NoToken,
               !.back = IF c.live /\ c.kind = "login" THEN back ELSE c.back] : c \in cs}

NewPage(p, t, cs) ==
    /\ page' = p
    /\ calls' = With(cs, Asks(p, t), t, TRUE)
    /\ user' = NoToken /\ ready' = FALSE /\ spinning' = {}

Stay(cs) ==
    /\ calls' = cs
    /\ UNCHANGED <<page, user, ready, spinning>>

\* A navigation to p, with token t and calls cs; a page that stays is not made again.
Navigate(p, t, cs) ==
    /\ back' = IF Routed(p, t) = p THEN "none" ELSE p
    /\ IF Routed(p, t) = page
       THEN Stay(cs)
       ELSE NewPage(Routed(p, t), t, Orphaned(cs))

SetToken(t) == token' = t /\ stored' = t /\ expired' = FALSE

\* Mutant: clearToken leaves the copy of the tab.
ClearMemory == token' = NoToken /\ UNCHANGED <<stored, expired>>

ClearToken == SetToken(NoToken)

----------------------------------------------------------------------------
(* The user.                                                               *)

Go(p) ==
    /\ p # page \/ back # "none"
    /\ Cardinality(calls) < MaxCalls
    /\ UNCHANGED <<token, stored, expired, logins>>
    /\ Navigate(p, token, calls)

\* F5: readInitialToken, and the guard of the page at hand.
Reload ==
    LET t == IF expired THEN NoToken ELSE stored IN
    /\ SetToken(t)
    /\ back' = IF Routed(page, t) = page THEN back ELSE page
    /\ NewPage(Routed(page, t), t, {})
    /\ UNCHANGED logins

Expire ==
    /\ token # NoToken /\ expired' = TRUE
    /\ UNCHANGED <<token, stored, logins, page, back, user, ready, spinning, calls>>

\* The button of f is on the page.
Shown(f) ==
    CASE f = "form" -> page = "cuenta" /\ token = NoToken
      [] f = "action" -> page = "cuenta" /\ token # NoToken
      [] f = "report" -> page = "informes"
      [] f = "scan" -> page = "marcador" /\ ready
      [] f = "search" -> page = "resumen"
      [] f = "sync" -> page = "resumen" /\ ready

\* And may be pressed.
Offered(f) == Shown(f) /\ f \notin spinning

Press(f, k) ==
    /\ Cardinality(calls) < MaxCalls
    /\ k \in Makes(f) /\ Offered(f)
    /\ calls' = With(calls, {k}, token, TRUE)
    /\ spinning' = spinning \cup {f}
    /\ UNCHANGED <<token, stored, expired, logins, page, back, user, ready>>

ChooseImage ==
    /\ page = "marcador" /\ ready' = TRUE
    /\ UNCHANGED <<token, stored, expired, logins, page, back, user, spinning, calls>>

InspectTimeline ==
    /\ page = "partidas" /\ Cardinality(calls) < MaxCalls
    /\ calls' = With(calls, {"timeline"}, token, TRUE)
    /\ UNCHANGED <<token, stored, expired, logins, page, back, user, ready, spinning>>

Logout ==
    /\ page = "cuenta" /\ token # NoToken
    /\ ClearToken /\ user' = NoToken
    /\ UNCHANGED <<logins, page, back, ready, spinning, calls>>

----------------------------------------------------------------------------
(* Answers.  A signal is set only for a page that is still there.          *)

\* The spinners that the handler of c stops: its own, and a list of matches that of
\* the search.
Stops(k) ==
    {f \in Spinner : k \in Makes(f)} \cup (IF k = "matches" THEN {"search"} ELSE {})

Stopped(c) == IF c.live THEN spinning \ Stops(c.kind) ELSE spinning

\* The calls that a handler makes next.
Follows(k) ==
    CASE k = "link" -> {"me"}
      [] k = "me" -> {"linked"}
      [] k = "player" -> {"matches", "stats", "reports"}
      [] k = "sync" -> {"matches", "stats"}
      [] OTHER -> {}

\* Every call but a login.  A player that is found is still searched for until his
\* matches are there.
Answer(c) ==
    /\ c \in calls /\ c.kind # "login"
    /\ calls' = With(calls \ {c}, Follows(c.kind), token, c.live)
    /\ spinning' = IF c.kind = "player" THEN spinning ELSE Stopped(c)
    /\ user' = IF c.kind = "me" /\ c.live THEN c.token ELSE user
    /\ ready' = IF c.kind = "player" /\ c.live THEN TRUE ELSE ready
    /\ UNCHANGED <<token, stored, expired, logins, page, back>>

\* The token is set, the user's data is asked for, and the page goes back to where it
\* came from.
LoginAnswer(c) ==
    LET t == logins + 1
        to == IF c.live THEN back ELSE c.back
        rest == With(calls \ {c}, {"me"}, t, c.live)
    IN /\ c \in calls /\ c.kind = "login" /\ t \in Token
       /\ SetToken(t) /\ logins' = t
       /\ IF to \in {"none", page}
          THEN /\ calls' = rest /\ spinning' = Stopped(c)
               /\ UNCHANGED <<page, back, user, ready>>
          ELSE Navigate(to, t, rest)

\* An error but 401.  That of the user's data ends the session as well.
Failure(c) ==
    /\ c \in calls
    /\ calls' = calls \ {c} /\ spinning' = Stopped(c)
    /\ IF c.kind = "me" THEN ClearToken ELSE UNCHANGED <<token, stored, expired>>
    /\ UNCHANGED <<logins, page, back, user, ready>>

\* Mutant: the interceptor leaves for the account page from there as well.
RefusalAnywhere(c) ==
    /\ c \in calls
    /\ ClearToken
    /\ back' = page
    /\ NewPage("cuenta", NoToken, Orphaned(calls \ {c}))
    /\ UNCHANGED logins

\* 401: errorInterceptor ends the session, whatever token was refused, and leaves for
\* the account page.
Refusal(c) ==
    /\ c \in calls
    /\ ClearToken
    /\ IF page = "cuenta"
       THEN /\ calls' = calls \ {c} /\ spinning' = Stopped(c)
            /\ UNCHANGED <<page, back, user, ready>>
       ELSE /\ back' = page
            /\ NewPage("cuenta", NoToken, Orphaned(calls \ {c}))
    /\ UNCHANGED logins

Next ==
    \/ \E p \in Page : Go(p)
    \/ Reload \/ Expire
    \/ \E f \in Spinner, k \in Kind : Press(f, k)
    \/ ChooseImage \/ InspectTimeline \/ Logout
    \/ \E c \in calls : Answer(c) \/ LoginAnswer(c) \/ Failure(c) \/ Refusal(c)

Spec == Init /\ [][Next]_vars

----------------------------------------------------------------------------

\* A spinner never turns for nothing, as its button would stay disabled: a call of the
\* page is in flight whose answer, whatever it is, stops it.  And but for a search,
\* which the matches of a sync may stop early, it turns as long as there is one, so
\* that no report is ordered twice.
SpinnersHaveCalls ==
    /\ \A f \in spinning : \E c \in calls :
          c.live /\ f \in Stops(c.kind)
    /\ \A f \in Spinner \ {"search"} :
          /\ \A c \in calls : c.live /\ c.kind \in Makes(f) => f \in spinning
          /\ \A c, d \in calls :
                {c.kind, d.kind} \subseteq Makes(f) /\ c.live /\ d.live => c = d

\* A session that ended, by logging out, by a refusal or by its age, does not come
\* back: not when the page is loaded again, nor by an answer that is late.
EndedSessionsStayEnded ==
    [][token' # token => token' = NoToken \/ token' > logins]_vars
=============================================================================
