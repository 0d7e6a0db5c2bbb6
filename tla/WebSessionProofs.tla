--------------------------- MODULE WebSessionProofs ---------------------------
(***************************************************************************)
(* Proofs about WebSession, for any number of logins and of calls in       *)
(* flight.  The calls that a page makes by itself start no spinner, and    *)
(* the memory and the tab always hold the same token.                      *)
(***************************************************************************)
EXTENDS WebSession, FiniteSetTheorems, TLAPS

\* The calls in flight are finitely many, so that a new one has a free name.
Finite == IsFiniteSet(calls)

\* A reload reads in the tab what was in memory.
InBoth == stored = token

IInv == TypeOK /\ Finite /\ InBoth /\ SpinnersHaveCalls

Kinds == {"login", "register", "link", "report", "scan", "sync", "player",
          "me", "linked", "progression", "matches", "stats", "reports", "timeline"}

\* The calls that no button makes.
Unasked == {"me", "linked", "progression", "matches", "stats", "reports", "timeline"}

----------------------------------------------------------------------------
(* Kinds of calls.                                                         *)

LEMMA KindsOfCalls ==
    /\ Kind = Kinds
    /\ \A f \in Spinner : Makes(f) \subseteq Kinds /\ Makes(f) \cap Unasked = {}
    /\ \A f, g \in Spinner : Makes(f) \cap Makes(g) # {} => f = g
<1>1. /\ Makes("form") = {"login", "register"} /\ Makes("action") = {"link"}
      /\ Makes("search") = {"player"} /\ Makes("report") = {"report"}
      /\ Makes("scan") = {"scan"} /\ Makes("sync") = {"sync"}
  BY DEF Makes
<1>2. \A f \in Spinner :
          \/ f = "form" \/ f = "action" \/ f = "report" \/ f = "scan"
          \/ f = "sync" \/ f = "search"
  BY DEF Spinner
<1>3. Kind = Kinds
  <2>1. UNION {Makes(f) : f \in Spinner}
           = {"login", "register", "link", "report", "scan", "sync", "player"}
    <3>1. Spinner = {"form", "action", "report", "scan", "sync", "search"}
      BY DEF Spinner
    <3>2. \A k : (\E f \in Spinner : k \in Makes(f)) <=>
                    k \in {"login", "register", "link", "report", "scan", "sync", "player"}
      BY <1>1, <1>2, <3>1
    <3> QED  BY <3>2
  <2>2. Kind = {"login", "register", "link", "report", "scan", "sync", "player"}
                  \cup {"me", "linked", "progression", "matches", "stats", "reports", "timeline"}
    BY <2>1 DEF Kind
  <2> QED  BY <2>2 DEF Kinds
<1>4. \A f \in Spinner : Makes(f) \subseteq Kinds /\ Makes(f) \cap Unasked = {}
  BY <1>1, <1>2 DEF Kinds, Unasked
<1>5. \A f, g \in Spinner : Makes(f) \cap Makes(g) # {} => f = g
  BY <1>1, <1>2
<1> QED  BY <1>3, <1>4, <1>5

\* A handler stops its own spinner, and that of matches the search's.
LEMMA StopsOf ==
    ASSUME NEW k
    PROVE  \A f \in Spinner :
              /\ f # "search" => (f \in Stops(k) <=> k \in Makes(f))
              /\ f = "search" => (f \in Stops(k) <=> k \in {"player", "matches"})
<1>1. Makes("search") = {"player"}
  BY DEF Makes
<1> QED  BY <1>1 DEF Stops

LEMMA FollowsOf ==
    ASSUME NEW k
    PROVE  /\ Follows(k) \subseteq Unasked /\ IsFiniteSet(Follows(k))
           /\ k = "player" => "matches" \in Follows(k)
<1>1. \/ Follows(k) = {} \/ Follows(k) = {"me"} \/ Follows(k) = {"linked"}
      \/ Follows(k) = {"matches", "stats", "reports"} \/ Follows(k) = {"matches", "stats"}
  BY DEF Follows
<1>2. k = "player" => Follows(k) = {"matches", "stats", "reports"}
  BY DEF Follows
<1>3. /\ IsFiniteSet({}) /\ IsFiniteSet({"me"}) /\ IsFiniteSet({"linked"})
      /\ IsFiniteSet({"matches"})
  BY FS_EmptySet, FS_Singleton
<1>4. IsFiniteSet({"matches", "stats"})
  <2>1. IsFiniteSet({"matches"} \cup {"stats"})
    BY <1>3, FS_AddElement
  <2> QED  BY <2>1
<1>5. IsFiniteSet({"matches", "stats", "reports"})
  <2>1. IsFiniteSet({"matches", "stats"} \cup {"reports"})
    BY <1>4, FS_AddElement
  <2> QED  BY <2>1
<1> QED  BY <1>1, <1>2, <1>3, <1>4, <1>5 DEF Unasked

LEMMA AsksOf ==
    ASSUME NEW p, NEW t
    PROVE  Asks(p, t) \subseteq Unasked /\ IsFiniteSet(Asks(p, t))
<1>1. Asks(p, t) = {} \/ Asks(p, t) = {"me"} \/ Asks(p, t) = {"progression"}
  BY DEF Asks
<1> QED  BY <1>1, FS_EmptySet, FS_Singleton, ZenonT(30) DEF Unasked

----------------------------------------------------------------------------
(* Sets of calls.                                                          *)

\* There is a free name: names from 0 to the number of calls are one too many.
LEMMA FreeName ==
    ASSUME NEW cs, IsFiniteSet(cs)
    PROVE  \E n \in 0..Cardinality(cs) : \A c \in cs : c.id # n
<1> DEFINE names == 0..Cardinality(cs)
           of == [n \in names |-> CHOOSE c \in cs : c.id = n]
<1>1. Cardinality(cs) \in Nat
  BY FS_CardinalityType
<1>2. IsFiniteSet(names) /\ Cardinality(names) = Cardinality(cs) + 1
  BY <1>1, FS_Interval
<1> SUFFICES ASSUME \A n \in names : \E c \in cs : c.id = n PROVE FALSE
  OBVIOUS
<1>3. of \in [names -> cs] /\ \A n \in names : of[n].id = n
  OBVIOUS
<1> HIDE DEF of, names
<1>4. \E x, y \in names : x # y /\ of[x] = of[y]
  BY <1>1, <1>2, <1>3, FS_PigeonHole
<1> QED  BY <1>3, <1>4

\* New calls join those in flight.
LEMMA WithCalls ==
    ASSUME NEW cs \in SUBSET Call, IsFiniteSet(cs), NEW kinds \in SUBSET Kinds,
           IsFiniteSet(kinds), NEW t \in Token \cup {NoToken}, NEW live \in BOOLEAN
    PROVE  /\ With(cs, kinds, t, live) \subseteq Call
           /\ IsFiniteSet(With(cs, kinds, t, live))
           /\ cs \subseteq With(cs, kinds, t, live)
           /\ \A c \in With(cs, kinds, t, live) \ cs : c.kind \in kinds /\ c.live = live
           /\ \A k \in kinds : \E c \in With(cs, kinds, t, live) : c.kind = k /\ c.live = live
           /\ \A c, d \in With(cs, kinds, t, live) \ cs : c.kind = d.kind => c = d
<1> DEFINE free == CHOOSE n \in 0..Cardinality(cs) : \A c \in cs : c.id # n
           new == [k \in kinds |->
                     [id |-> free, kind |-> k, live |-> live, back |-> "none",
                      token |-> IF k = "me" /\ live THEN t ELSE NoToken]]
           range == {new[k] : k \in kinds}
<1>1. free \in Nat
  <2>1. free \in 0..Cardinality(cs)
    BY FreeName
  <2> QED  BY <2>1, FS_CardinalityType
<1>2. With(cs, kinds, t, live) = cs \cup range
  BY DEF With
<1> HIDE DEF free
<1>3. \A k \in kinds : new[k] \in Call /\ new[k].kind = k /\ new[k].live = live
  BY <1>1, KindsOfCalls DEF Call, NoToken, Page
<1> HIDE DEF new
<1>4. IsFiniteSet(range)
  <2>1. DOMAIN new = kinds
    BY DEF new
  <2>2. new \in Surjection(kinds, range)
    BY <2>1 DEF Surjection, new
  <2> QED  BY <2>2, FS_Surjection
<1>5. IsFiniteSet(cs \cup range)
  BY <1>4, FS_Union
<1> QED  BY <1>2, <1>3, <1>5

LEMMA OrphanedCalls ==
    ASSUME TypeOK, NEW cs \in SUBSET Call, IsFiniteSet(cs)
    PROVE  /\ Orphaned(cs) \subseteq Call /\ IsFiniteSet(Orphaned(cs))
           /\ \A c \in Orphaned(cs) : ~c.live
<1> DEFINE turn == [c \in cs |->
                      [c EXCEPT !.live = FALSE, !.token = NoToken,
                                !.back = IF c.live /\ c.kind = "login" THEN back ELSE c.back]]
<1>1. Orphaned(cs) = {turn[c] : c \in cs}
  BY DEF Orphaned
<1>2. \A c \in cs : turn[c] \in Call /\ ~turn[c].live
  BY DEF Call, TypeOK
<1>3. turn \in Surjection(cs, {turn[c] : c \in cs})
  BY DEF Surjection
<1> HIDE DEF turn
<1> QED  BY <1>1, <1>2, <1>3, FS_Surjection

----------------------------------------------------------------------------
(* Steps.                                                                  *)

LEMMA InitInv == Init => IInv
<1> SUFFICES ASSUME Init PROVE IInv
  OBVIOUS
<1>1. Finite
  BY FS_EmptySet DEF Init, Finite
<1>2. InBoth /\ SpinnersHaveCalls
  BY DEF Init, InBoth, SpinnersHaveCalls
<1>3. TypeOK
  <2>1. MaxLogins \in Nat
    BY WebAssumption
  <2>2. 0 \in 0..MaxLogins
    BY <2>1
  <2>3. "resumen" \in Page /\ FALSE \in BOOLEAN /\ 0 <= 0
    BY DEF Page
  <2> QED  BY <2>2, <2>3 DEF Init, TypeOK, NoToken
<1> QED  BY <1>1, <1>2, <1>3 DEF IInv

\* Calls that a page makes by itself, beside the ones there are, are harmless: the
\* spinners that turn have their calls among the latter.
LEMMA MoreCalls ==
    ASSUME NEW cs \in SUBSET Call, NEW more \in SUBSET Call, cs \subseteq more,
           \A c \in more \ cs : c.kind \in Unasked
    PROVE  \A f \in Spinner :
              /\ \A c \in more : c.kind \in Makes(f) => c \in cs
              /\ (\E c \in cs : c.live /\ f \in Stops(c.kind)) =>
                    \E c \in more : c.live /\ f \in Stops(c.kind)
BY KindsOfCalls

\* A page that is made anew.
LEMMA NewPageStep ==
    ASSUME TypeOK, NEW p \in Page, NEW t \in Token \cup {NoToken},
           NEW cs \in SUBSET Call, IsFiniteSet(cs), \A c \in cs : ~c.live,
           NewPage(p, t, cs)
    PROVE  /\ page' \in Page /\ user' \in Token \cup {NoToken} /\ ready' \in BOOLEAN
           /\ spinning' \subseteq Spinner /\ calls' \subseteq Call
           /\ Finite' /\ SpinnersHaveCalls'
<1>1. Asks(p, t) \subseteq Unasked /\ IsFiniteSet(Asks(p, t)) /\ Unasked \subseteq Kinds
  BY AsksOf DEF Unasked, Kinds
<1>2. calls' = With(cs, Asks(p, t), t, TRUE)
  BY DEF NewPage
<1>3. /\ calls' \subseteq Call /\ IsFiniteSet(calls') /\ cs \subseteq calls'
      /\ \A c \in calls' \ cs : c.kind \in Unasked
  BY <1>1, <1>2, WithCalls
<1>4. spinning' = {} /\ page' = p /\ user' = NoToken /\ ready' = FALSE
  BY DEF NewPage
<1>5. \A f \in Spinner : \A c \in calls' : c.kind \in Makes(f) => ~c.live
  BY <1>3, MoreCalls
<1>6. SpinnersHaveCalls'
  BY <1>4, <1>5 DEF SpinnersHaveCalls
<1> QED  BY <1>3, <1>4, <1>6 DEF Finite

\* A handler that stops what its call has kept turning, and makes calls of its own.
LEMMA HandlerStep ==
    ASSUME IInv, NEW c \in calls, NEW cs \in SUBSET Call, calls \ {c} \subseteq cs,
           \A d \in cs \ (calls \ {c}) : d.kind \in Unasked,
           calls' = cs,
           \/ spinning' = Stopped(c)
           \/ /\ spinning' = spinning /\ c.kind = "player"
              /\ c.live => \E d \in cs : d.live /\ d.kind = "matches"
    PROVE  SpinnersHaveCalls' /\ spinning' \subseteq Spinner
<1>1. spinning' \subseteq spinning /\ spinning \subseteq Spinner /\ calls \subseteq Call
  BY DEF Stopped, IInv, TypeOK
<1>2. \A f \in Spinner : \A d \in cs : d.kind \in Makes(f) => d \in calls \ {c}
  BY KindsOfCalls
<1>3. ASSUME NEW f \in spinning'
      PROVE  \E d \in cs : d.live /\ f \in Stops(d.kind)
  <2>1. PICK d \in calls : d.live /\ f \in Stops(d.kind)
    BY <1>1, <1>3 DEF IInv, SpinnersHaveCalls
  <2>2. CASE d # c
    BY <2>1, <2>2
  <2>3. CASE d = c
    <3>1. spinning' # Stopped(c)
      BY <1>3, <2>1, <2>3 DEF Stopped
    <3>2. c.kind = "player" /\ c.live
      BY <2>1, <2>3, <3>1
    <3>3. f = "search"
      BY <1>1, <1>3, <2>1, <2>3, <3>2, StopsOf DEF Stops, Makes, Spinner
    <3>4. PICK e \in cs : e.live /\ e.kind = "matches"
      BY <3>1, <3>2
    <3> QED  BY <1>1, <1>3, <3>3, <3>4, StopsOf
  <2> QED  BY <2>2, <2>3
<1>4. ASSUME NEW f \in Spinner \ {"search"}, NEW d \in cs, d.live, d.kind \in Makes(f)
      PROVE  f \in spinning'
  <2>1. d \in calls /\ d # c /\ f \in spinning
    BY <1>2, <1>4 DEF IInv, SpinnersHaveCalls
  <2>2. c.live => c.kind \notin Makes(f)
    BY <1>4, <2>1 DEF IInv, SpinnersHaveCalls
  <2>3. c.live => f \notin Stops(c.kind)
    BY <2>2, StopsOf
  <2> QED  BY <2>1, <2>3 DEF Stopped
<1>5. ASSUME NEW f \in Spinner \ {"search"}, NEW d \in cs, NEW e \in cs,
             {d.kind, e.kind} \subseteq Makes(f), d.live, e.live
      PROVE  d = e
  <2>1. d \in calls /\ e \in calls
    BY <1>2, <1>5
  <2> QED  BY <1>5, <2>1 DEF IInv, SpinnersHaveCalls
<1> QED  BY <1>1, <1>3, <1>4, <1>5 DEF SpinnersHaveCalls

LEMMA RoutedPage ==
    ASSUME NEW p \in Page, NEW t
    PROVE  Routed(p, t) \in Page /\ (Routed(p, t) # p => p # "cuenta")
<1>1. p \in Guarded => p # "cuenta"
  BY DEF Guarded
<1>2. "cuenta" \in Page
  BY DEF Page
<1>3. CASE p \in Guarded /\ ~SignedIn(t)
  BY <1>1, <1>2, <1>3 DEF Routed
<1>4. CASE ~(p \in Guarded /\ ~SignedIn(t))
  BY <1>4 DEF Routed
<1> QED  BY <1>3, <1>4

LEMMA GoStep ==
    ASSUME IInv, NEW p \in Page, Go(p)
    PROVE  IInv'
<1>1. /\ UNCHANGED <<token, stored, expired, logins>> /\ Navigate(p, token, calls)
      /\ TypeOK /\ calls \in SUBSET Call /\ IsFiniteSet(calls) /\ token \in Token \cup {NoToken}
  BY DEF Go, IInv, TypeOK, Finite
<1>2. Routed(p, token) \in Page /\ back' \in (Page \ {"cuenta"}) \cup {"none"}
  BY <1>1, RoutedPage DEF Navigate
<1>3. CASE Routed(p, token) = page
  <2>1. UNCHANGED <<page, calls, user, ready, spinning>>
    BY <1>1, <1>3 DEF Navigate, Stay
  <2> QED  BY <1>1, <1>2, <2>1 DEF IInv, TypeOK, Finite, InBoth, SpinnersHaveCalls
<1>4. CASE Routed(p, token) # page
  <2>1. NewPage(Routed(p, token), token, Orphaned(calls))
    BY <1>1, <1>4 DEF Navigate
  <2>2. /\ Orphaned(calls) \in SUBSET Call /\ IsFiniteSet(Orphaned(calls))
        /\ \A c \in Orphaned(calls) : ~c.live
    BY <1>1, OrphanedCalls
  <2>3. /\ page' \in Page /\ user' \in Token \cup {NoToken} /\ ready' \in BOOLEAN
        /\ spinning' \subseteq Spinner /\ calls' \subseteq Call
        /\ Finite' /\ SpinnersHaveCalls'
    BY <1>1, <1>2, <2>1, <2>2, NewPageStep
  <2> QED  BY <1>1, <1>2, <2>3 DEF IInv, TypeOK, InBoth
<1> QED  BY <1>3, <1>4

LEMMA ReloadStep ==
    ASSUME IInv, Reload
    PROVE  IInv'
<1> DEFINE t == IF expired THEN NoToken ELSE stored
<1>1. /\ token' = t /\ stored' = t /\ expired' = FALSE /\ logins' = logins
      /\ back' = IF Routed(page, t) = page THEN back ELSE page
      /\ NewPage(Routed(page, t), t, {})
      /\ TypeOK /\ t \in Token \cup {NoToken}
  BY DEF Reload, SetToken, IInv, TypeOK
<1>2. t <= logins
  BY DEF IInv, TypeOK, InBoth, NoToken
<1>3. Routed(page, t) \in Page /\ back' \in (Page \ {"cuenta"}) \cup {"none"}
  BY <1>1, RoutedPage DEF TypeOK
<1> HIDE DEF t
<1>4. /\ page' \in Page /\ user' \in Token \cup {NoToken} /\ ready' \in BOOLEAN
      /\ spinning' \subseteq Spinner /\ calls' \subseteq Call
      /\ Finite' /\ SpinnersHaveCalls'
  <2>1. {} \in SUBSET Call /\ IsFiniteSet({}) /\ \A c \in {} : ~c.live
    BY FS_EmptySet
  <2> QED  BY <1>1, <1>3, <2>1, NewPageStep
<1> QED  BY <1>1, <1>2, <1>3, <1>4 DEF IInv, TypeOK, InBoth

\* A press starts the spinner of its button, which no other call of the button turns.
LEMMA PressStep ==
    ASSUME IInv, NEW f \in Spinner, NEW k \in Kind, Press(f, k)
    PROVE  IInv'
<1>1. /\ k \in Makes(f) /\ f \notin spinning
      /\ calls' = With(calls, {k}, token, TRUE) /\ spinning' = spinning \cup {f}
      /\ UNCHANGED <<token, stored, expired, logins, page, back, user, ready>>
      /\ TypeOK /\ calls \in SUBSET Call /\ IsFiniteSet(calls) /\ token \in Token \cup {NoToken}
  BY DEF Press, Offered, IInv, TypeOK, Finite
<1>2. {k} \in SUBSET Kinds /\ IsFiniteSet({k})
  BY KindsOfCalls, FS_Singleton
<1>3. /\ calls' \subseteq Call /\ IsFiniteSet(calls') /\ calls \subseteq calls'
      /\ \A c \in calls' \ calls : c.kind = k /\ c.live
      /\ \E c \in calls' : c.kind = k /\ c.live
      /\ \A c, d \in calls' \ calls : c.kind = d.kind => c = d
  <2>1. PICK kinds \in SUBSET Kinds : kinds = {k} /\ IsFiniteSet(kinds)
    BY <1>2
  <2>2. PICK live \in BOOLEAN : live = TRUE
    OBVIOUS
  <2>3. calls' = With(calls, kinds, token, live)
    BY <1>1, <2>1, <2>2
  <2>4. /\ calls' \subseteq Call /\ IsFiniteSet(calls') /\ calls \subseteq calls'
        /\ \A c \in calls' \ calls : c.kind \in kinds /\ c.live = live
        /\ \A j \in kinds : \E c \in calls' : c.kind = j /\ c.live = live
        /\ \A c, d \in calls' \ calls : c.kind = d.kind => c = d
    <3> DEFINE w == With(calls, kinds, token, live)
    <3>1. /\ w \subseteq Call /\ IsFiniteSet(w) /\ calls \subseteq w
          /\ \A c \in w \ calls : c.kind \in kinds /\ c.live = live
          /\ \A j \in kinds : \E c \in w : c.kind = j /\ c.live = live
          /\ \A c, d \in w \ calls : c.kind = d.kind => c = d
      <4>1. kinds \in SUBSET Kinds /\ IsFiniteSet(kinds) /\ live \in BOOLEAN
        BY <2>1
      <4>2. calls \in SUBSET Call /\ IsFiniteSet(calls) /\ token \in Token \cup {NoToken}
        BY <1>1
      <4> QED  BY <4>1, <4>2, WithCalls
    <3>2. calls' = w
      BY <2>3
    <3> HIDE DEF w
    <3> QED  BY <3>1, <3>2
  <2> QED  BY <2>1, <2>2, <2>4
<1>4. \A g \in spinning' : \E c \in calls' : c.live /\ g \in Stops(c.kind)
  <2>1. f \in Stops(k)
    BY <1>1 DEF Stops
  <2>2. \E c \in calls' : c.live /\ f \in Stops(c.kind)
    BY <1>3, <2>1
  <2>3. \A g \in spinning : \E c \in calls' : c.live /\ g \in Stops(c.kind)
    BY <1>3 DEF IInv, SpinnersHaveCalls
  <2> QED  BY <1>1, <2>2, <2>3
<1>5. ASSUME NEW g \in Spinner \ {"search"}, NEW c \in calls', c.live, c.kind \in Makes(g)
      PROVE  /\ g \in spinning'
             /\ c \in calls' \ calls => g = f
             /\ c \in calls => g # f
  <2>1. CASE c \in calls
    BY <1>1, <1>5, <2>1 DEF IInv, SpinnersHaveCalls
  <2>2. CASE c \notin calls
    BY <1>1, <1>3, <1>5, <2>2, KindsOfCalls
  <2> QED  BY <2>1, <2>2
<1>6. ASSUME NEW g \in Spinner \ {"search"}, NEW c \in calls', NEW d \in calls',
             {c.kind, d.kind} \subseteq Makes(g), c.live, d.live
      PROVE  c = d
  <2>1. CASE c \in calls /\ d \in calls
    BY <1>6, <2>1 DEF IInv, SpinnersHaveCalls
  <2>2. CASE c \notin calls /\ d \notin calls
    BY <1>3, <2>2
  <2> QED  BY <1>5, <1>6, <2>1, <2>2
<1>7. SpinnersHaveCalls'
  BY <1>4, <1>5, <1>6 DEF SpinnersHaveCalls
<1> QED  BY <1>1, <1>3, <1>7 DEF IInv, TypeOK, Finite, InBoth

LEMMA InspectTimelineStep ==
    ASSUME IInv, InspectTimeline
    PROVE  IInv'
<1>1. /\ calls' = With(calls, {"timeline"}, token, TRUE)
      /\ UNCHANGED <<token, stored, expired, logins, page, back, user, ready, spinning>>
      /\ calls \in SUBSET Call /\ IsFiniteSet(calls) /\ token \in Token \cup {NoToken}
  BY DEF InspectTimeline, IInv, TypeOK, Finite
<1>2. {"timeline"} \in SUBSET Kinds /\ IsFiniteSet({"timeline"})
  BY FS_Singleton DEF Kinds
<1>3. /\ calls' \in SUBSET Call /\ IsFiniteSet(calls') /\ calls \subseteq calls'
      /\ \A c \in calls' \ calls : c.kind \in Unasked
  BY <1>1, <1>2, WithCalls, ZenonT(30) DEF Unasked
<1>4. SpinnersHaveCalls'
  <2>1. \A f \in Spinner :
            /\ \A c \in calls' : c.kind \in Makes(f) => c \in calls
            /\ (\E c \in calls : c.live /\ f \in Stops(c.kind)) =>
                  \E c \in calls' : c.live /\ f \in Stops(c.kind)
    BY <1>1, <1>3, MoreCalls
  <2>2. spinning \subseteq Spinner /\ SpinnersHaveCalls
    BY DEF IInv, TypeOK
  <2> QED  BY <1>1, <2>1, <2>2 DEF SpinnersHaveCalls
<1> QED  BY <1>1, <1>3, <1>4 DEF IInv, TypeOK, Finite, InBoth

LEMMA AnswerStep ==
    ASSUME IInv, NEW c \in calls, Answer(c)
    PROVE  IInv'
<1>1. /\ calls' = With(calls \ {c}, Follows(c.kind), token, c.live)
      /\ spinning' = IF c.kind = "player" THEN spinning ELSE Stopped(c)
      /\ user' = IF c.kind = "me" /\ c.live THEN c.token ELSE user
      /\ ready' = IF c.kind = "player" /\ c.live THEN TRUE ELSE ready
      /\ UNCHANGED <<token, stored, expired, logins, page, back>>
      /\ c \in Call /\ TypeOK
  BY DEF Answer, IInv, TypeOK
<1>2. /\ calls \ {c} \in SUBSET Call /\ IsFiniteSet(calls \ {c})
      /\ token \in Token \cup {NoToken} /\ c.live \in BOOLEAN
  BY <1>1, FS_RemoveElement DEF TypeOK, IInv, Finite, Call
<1>3. Follows(c.kind) \in SUBSET Kinds /\ Follows(c.kind) \subseteq Unasked /\ IsFiniteSet(Follows(c.kind))
  BY FollowsOf DEF Unasked, Kinds
<1>4. /\ calls' \in SUBSET Call /\ IsFiniteSet(calls') /\ calls \ {c} \subseteq calls'
      /\ \A d \in calls' \ (calls \ {c}) : d.kind \in Unasked
      /\ \A k \in Follows(c.kind) : \E d \in calls' : d.kind = k /\ d.live = c.live
  <2> DEFINE cs == calls \ {c}
             w == With(cs, Follows(c.kind), token, c.live)
  <2>1. /\ w \subseteq Call /\ IsFiniteSet(w) /\ cs \subseteq w
        /\ \A d \in w \ cs : d.kind \in Follows(c.kind)
        /\ \A k \in Follows(c.kind) : \E d \in w : d.kind = k /\ d.live = c.live
    <3> HIDE DEF cs
    <3>1. cs \in SUBSET Call /\ IsFiniteSet(cs)
      BY <1>2 DEF cs
    <3> QED  BY <1>2, <1>3, <3>1, WithCalls
  <2>2. calls' = w
    BY <1>1
  <2> HIDE DEF w
  <2> QED  BY <1>3, <2>1, <2>2
<1>5. c.kind = "player" /\ c.live => \E d \in calls' : d.live /\ d.kind = "matches"
  BY <1>4, FollowsOf
<1>6. SpinnersHaveCalls' /\ spinning' \subseteq Spinner
  BY <1>1, <1>4, <1>5, HandlerStep, ZenonT(30)
<1>7. user' \in Token \cup {NoToken} /\ ready' \in BOOLEAN
  BY <1>1 DEF TypeOK, Call
<1> QED  BY <1>1, <1>4, <1>6, <1>7 DEF IInv, TypeOK, Finite, InBoth

\* What an answer leaves in flight.
LEMMA OtherCalls ==
    ASSUME IInv, NEW c \in calls
    PROVE  /\ calls \ {c} \in SUBSET Call /\ IsFiniteSet(calls \ {c})
           /\ c \in Call /\ c.live \in BOOLEAN
BY FS_RemoveElement DEF IInv, TypeOK, Finite, Call

\* A login goes back to a page only with its token, which no guard turns away.
LEMMA LoginAnswerStep ==
    ASSUME IInv, NEW c \in calls, LoginAnswer(c)
    PROVE  IInv'
<1> DEFINE t == logins + 1
           to == IF c.live THEN back ELSE c.back
           rest == With(calls \ {c}, {"me"}, t, c.live)
<1>1. /\ token' = t /\ stored' = t /\ expired' = FALSE /\ logins' = t
      /\ t \in Token /\ TypeOK /\ t # NoToken
      /\ \/ /\ to \in {"none", page} /\ calls' = rest /\ spinning' = Stopped(c)
            /\ UNCHANGED <<page, back, user, ready>>
         \/ to \notin {"none", page} /\ Navigate(to, t, rest)
  BY DEF LoginAnswer, SetToken, IInv, TypeOK, Token, NoToken
<1>2. /\ calls \ {c} \in SUBSET Call /\ IsFiniteSet(calls \ {c})
      /\ c \in Call /\ c.live \in BOOLEAN
  BY OtherCalls
<1>3. /\ rest \in SUBSET Call /\ IsFiniteSet(rest) /\ calls \ {c} \subseteq rest
      /\ \A d \in rest \ (calls \ {c}) : d.kind \in Unasked
  <2>1. PICK kinds \in SUBSET Kinds : kinds = {"me"} /\ IsFiniteSet(kinds)
    BY FS_Singleton DEF Kinds
  <2>2. PICK cs \in SUBSET Call : cs = calls \ {c} /\ IsFiniteSet(cs)
    BY <1>2
  <2>3. t \in Token \cup {NoToken}
    BY <1>1
  <2> HIDE DEF t
  <2>4. /\ With(cs, kinds, t, c.live) \subseteq Call /\ IsFiniteSet(With(cs, kinds, t, c.live))
        /\ cs \subseteq With(cs, kinds, t, c.live)
        /\ \A d \in With(cs, kinds, t, c.live) \ cs : d.kind \in kinds
    <3>1. kinds \in SUBSET Kinds /\ IsFiniteSet(kinds) /\ c.live \in BOOLEAN
      BY <1>2, <2>1
    <3>2. cs \in SUBSET Call /\ IsFiniteSet(cs)
      BY <2>2
    <3> QED  BY <2>3, <3>1, <3>2, WithCalls
  <2> QED  BY <2>1, <2>2, <2>4 DEF Unasked
<1>4. to \in (Page \ {"cuenta"}) \cup {"none", "cuenta"}
  BY <1>1, <1>2 DEF TypeOK, Call
<1> HIDE DEF rest, to
<1>5. token' <= logins' /\ logins' \in 0..MaxLogins /\ {token', stored'} \subseteq Token \cup {NoToken}
  BY <1>1, WebAssumption DEF Token
<1>6. CASE to \in {"none", page}
  <2>1. calls' = rest /\ spinning' = Stopped(c) /\ UNCHANGED <<page, back, user, ready>>
    BY <1>1, <1>6
  <2>2. SpinnersHaveCalls' /\ spinning' \subseteq Spinner
    BY <1>3, <2>1, HandlerStep
  <2> QED  BY <1>1, <1>3, <1>5, <2>1, <2>2 DEF IInv, TypeOK, Finite, InBoth
<1>7. CASE to \notin {"none", page}
  <2>1. to \in Page /\ Navigate(to, t, rest)
    BY <1>1, <1>4, <1>7 DEF Page
  <2>2. SignedIn(t)
    BY <1>1 DEF SignedIn
  <2>3. Routed(to, t) = to
    BY <2>2 DEF Routed
  <2> HIDE DEF t
  <2>4. NewPage(to, t, Orphaned(rest)) /\ back' = "none"
    BY <1>7, <2>1, <2>3 DEF Navigate
  <2>5. /\ Orphaned(rest) \in SUBSET Call /\ IsFiniteSet(Orphaned(rest))
        /\ \A d \in Orphaned(rest) : ~d.live
    BY <1>1, <1>3, OrphanedCalls
  <2>6. /\ page' \in Page /\ user' \in Token \cup {NoToken} /\ ready' \in BOOLEAN
        /\ spinning' \subseteq Spinner /\ calls' \subseteq Call
        /\ Finite' /\ SpinnersHaveCalls'
    BY <1>1, <2>1, <2>4, <2>5, NewPageStep
  <2> QED  BY <1>1, <1>5, <2>4, <2>6 DEF IInv, TypeOK, InBoth
<1> QED  BY <1>6, <1>7

LEMMA ClearedToken ==
    ASSUME IInv, ClearToken, UNCHANGED logins
    PROVE  /\ {token', stored'} \subseteq Token \cup {NoToken} /\ expired' \in BOOLEAN
           /\ logins' \in 0..MaxLogins /\ token' <= logins' /\ InBoth'
<1>1. token' = 0 /\ stored' = 0 /\ expired' = FALSE
  BY DEF ClearToken, SetToken, NoToken
<1>2. logins \in 0..MaxLogins /\ MaxLogins \in Nat
  BY WebAssumption DEF IInv, TypeOK
<1>3. 0 <= logins
  BY <1>2
<1> QED  BY <1>1, <1>2, <1>3 DEF InBoth, NoToken

LEMMA FailureStep ==
    ASSUME IInv, NEW c \in calls, Failure(c)
    PROVE  IInv'
<1>1. /\ calls' = calls \ {c} /\ spinning' = Stopped(c)
      /\ UNCHANGED <<logins, page, back, user, ready>>
      /\ ClearToken \/ UNCHANGED <<token, stored, expired>>
  BY DEF Failure
<1>2. calls' \in SUBSET Call /\ IsFiniteSet(calls')
  BY <1>1, OtherCalls
<1>3. SpinnersHaveCalls' /\ spinning' \subseteq Spinner
  BY <1>1, <1>2, HandlerStep
<1>4. /\ {token', stored'} \subseteq Token \cup {NoToken} /\ expired' \in BOOLEAN
      /\ logins' \in 0..MaxLogins /\ token' <= logins' /\ InBoth'
  <2>1. CASE ClearToken
    BY <1>1, <2>1, ClearedToken
  <2>2. CASE UNCHANGED <<token, stored, expired>>
    BY <1>1, <2>2 DEF IInv, TypeOK, InBoth
  <2> QED  BY <1>1, <2>1, <2>2
<1> QED  BY <1>1, <1>2, <1>3, <1>4 DEF IInv, TypeOK, Finite

LEMMA RefusalStep ==
    ASSUME IInv, NEW c \in calls, Refusal(c)
    PROVE  IInv'
<1>1. ClearToken /\ UNCHANGED logins /\ TypeOK
  BY DEF Refusal, IInv
<1>2. /\ {token', stored'} \subseteq Token \cup {NoToken} /\ expired' \in BOOLEAN
      /\ logins' \in 0..MaxLogins /\ token' <= logins' /\ InBoth'
  BY <1>1, ClearedToken
<1>3. calls \ {c} \in SUBSET Call /\ IsFiniteSet(calls \ {c})
  BY OtherCalls
<1>4. CASE page = "cuenta"
  <2>1. /\ calls' = calls \ {c} /\ spinning' = Stopped(c)
        /\ UNCHANGED <<page, back, user, ready>>
    BY <1>4 DEF Refusal
  <2>2. SpinnersHaveCalls' /\ spinning' \subseteq Spinner
    BY <1>3, <2>1, HandlerStep
  <2> QED  BY <1>1, <1>2, <1>3, <2>1, <2>2 DEF IInv, TypeOK, Finite
<1>5. CASE page # "cuenta"
  <2>1. back' = page /\ NewPage("cuenta", NoToken, Orphaned(calls \ {c}))
    BY <1>5 DEF Refusal
  <2>2. /\ Orphaned(calls \ {c}) \in SUBSET Call /\ IsFiniteSet(Orphaned(calls \ {c}))
        /\ \A d \in Orphaned(calls \ {c}) : ~d.live
    BY <1>1, <1>3, OrphanedCalls
  <2>3. "cuenta" \in Page /\ NoToken \in Token \cup {NoToken}
    BY DEF Page
  <2>4. /\ page' \in Page /\ user' \in Token \cup {NoToken} /\ ready' \in BOOLEAN
        /\ spinning' \subseteq Spinner /\ calls' \subseteq Call
        /\ Finite' /\ SpinnersHaveCalls'
    BY <1>1, <2>1, <2>2, <2>3, NewPageStep
  <2> QED  BY <1>1, <1>2, <1>5, <2>1, <2>4 DEF IInv, TypeOK
<1> QED  BY <1>4, <1>5

LEMMA StepInv == IInv /\ [Next]_vars => IInv'
<1> SUFFICES ASSUME IInv, [Next]_vars PROVE IInv'
  OBVIOUS
<1>1. CASE UNCHANGED vars
  BY <1>1 DEF vars, IInv, TypeOK, Finite, InBoth, SpinnersHaveCalls
<1>2. CASE Expire \/ ChooseImage
  <2>1. /\ UNCHANGED <<token, stored, logins, page, back, user, spinning, calls>>
        /\ expired' \in BOOLEAN /\ ready' \in BOOLEAN
    BY <1>2 DEF Expire, ChooseImage, IInv, TypeOK
  <2> QED  BY <2>1 DEF IInv, TypeOK, Finite, InBoth, SpinnersHaveCalls
<1>3. CASE Logout
  <2>1. /\ {token', stored'} \subseteq Token \cup {NoToken} /\ expired' \in BOOLEAN
        /\ logins' \in 0..MaxLogins /\ token' <= logins' /\ InBoth'
    BY <1>3, ClearedToken DEF Logout
  <2>2. UNCHANGED <<page, back, ready, spinning, calls>> /\ user' = NoToken
    BY <1>3 DEF Logout
  <2> QED  BY <2>1, <2>2 DEF IInv, TypeOK, Finite, SpinnersHaveCalls
<1>4. ASSUME NEW c \in calls, Answer(c) \/ LoginAnswer(c) \/ Failure(c) \/ Refusal(c)
      PROVE  IInv'
  BY <1>4, AnswerStep, LoginAnswerStep, FailureStep, RefusalStep
<1> QED  BY <1>1, <1>2, <1>3, <1>4, GoStep, ReloadStep, PressStep, InspectTimelineStep DEF Next

----------------------------------------------------------------------------
(* Theorems.                                                               *)

LEMMA Invariance == Spec => []IInv
<1> QED  BY InitInv, StepInv, PTL DEF Spec

\* The token, the page and the calls in flight have their types.
THEOREM TypeCorrect == Spec => []TypeOK
<1>1. IInv => TypeOK
  BY DEF IInv
<1> QED  BY <1>1, Invariance, PTL

\* No spinner turns without a call that will stop it, whatever answers, fails or
\* comes late, and no second call of its button is made while it turns.
THEOREM SpinnersHaveCallsHolds == Spec => []SpinnersHaveCalls
<1>1. IInv => SpinnersHaveCalls
  BY DEF IInv
<1> QED  BY <1>1, Invariance, PTL

\* The token changes to none or to that of a new login, also when the page is loaded
\* again.
LEMMA EndedStep ==
    ASSUME IInv, Next, token' # token
    PROVE  token' = NoToken \/ token' > logins
<1>1. CASE Reload
  BY <1>1 DEF Reload, SetToken, IInv, InBoth
<1>2. ASSUME NEW c \in calls, LoginAnswer(c)
      PROVE  token' > logins
  BY <1>2 DEF LoginAnswer, SetToken, IInv, TypeOK
<1>3. ASSUME NEW c \in calls, Answer(c) \/ Failure(c) \/ Refusal(c)
      PROVE  token' = NoToken
  BY <1>3 DEF Answer, Failure, Refusal, ClearToken, SetToken
<1>4. Logout => token' = NoToken
  BY DEF Logout, ClearToken, SetToken
<1>5. /\ ~Expire /\ ~ChooseImage /\ ~InspectTimeline
      /\ \A p \in Page : ~Go(p)
      /\ \A f \in Spinner, k \in Kind : ~Press(f, k)
  BY DEF Expire, ChooseImage, InspectTimeline, Go, Press
<1> QED  BY <1>1, <1>2, <1>3, <1>4, <1>5 DEF Next

\* No reload and no late answer brings back a session that has ended.
THEOREM EndedSessionsStayEndedHolds == Spec => EndedSessionsStayEnded
<1>1. IInv /\ [Next]_vars => [token' # token => token' = NoToken \/ token' > logins]_vars
  BY EndedStep
<1> QED  BY <1>1, Invariance, PTL DEF Spec, EndedSessionsStayEnded

=============================================================================
