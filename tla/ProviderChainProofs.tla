------------------------ MODULE ProviderChainProofs ------------------------
(***************************************************************************)
(* Proofs about ProviderChain, for any number of retries, any limit and    *)
(* matchlists of any length.  The loop over providers has failed with those *)
(* before the current one and has those after it left (Loop); what is left *)
(* of the current provider's calls has one of two shapes (Shape); and the  *)
(* calls still possible pay for the attempts still to be sent (Paid).      *)
(***************************************************************************)
EXTENDS ProviderChain, SequenceTheorems, TLAPS

Busy == phase \in {"calling", "pausing"}

\* The providers before the current one have failed, those after it are left.
Loop ==
    Busy =>
        /\ resource \in Resource
        /\ at \in Asked
        /\ left = {q \in Asked : Turn(at) < Turn(q)}
        /\ \A q \in Provider :
              failed[q] # Null <=> q \in Asked /\ Turn(q) < Turn(at)
        /\ outcome = Null

\* A request that is over has its answer for the same reason.
Ended ==
    ~Busy =>
        /\ at = Null
        /\ outcome \in Provider =>
              /\ failed[outcome] = Null
              /\ \A q \in Asked : failed[q] # Null <=> Turn(q) < Turn(outcome)

\* Riot's calls for a history: before its matchlist is known, and after.
Unlisted == todo \in {<<"account", "list">>, <<"list">>} /\ listed = 0 /\ usable = 0

Listed ==
    /\ listed > 0
    /\ todo # <<>> /\ \A i \in 1..Len(todo) : todo[i] = "detail"
    /\ usable + Len(todo) <= Limit

Shape ==
    Busy =>
        IF at = "riot" /\ resource = "matches" THEN Unlisted \/ Listed
        ELSE /\ Len(todo) \in {1, 2} /\ \A i \in 1..Len(todo) : todo[i] # "list"
             /\ listed = 0 /\ usable = 0

\* The calls a provider can need for a resource, the providers of S together,
\* and the request from now on.
Weight(p, res) ==
    CASE p = "tracker" -> IF res = "matches" THEN 1 ELSE 2
      [] p = "henrik" -> 2
      [] p = "riot" -> IF res = "matches" THEN 2 + Limit ELSE 1

Cost(S, res) ==
    (IF "tracker" \in S THEN Weight("tracker", res) ELSE 0) +
    (IF "henrik" \in S THEN Weight("henrik", res) ELSE 0) +
    (IF "riot" \in S THEN Weight("riot", res) ELSE 0)

Remaining ==
    Len(todo) + Cost(left, resource) +
    (IF at = "riot" /\ resource = "matches" /\ listed = 0 THEN Limit ELSE 0)

\* Attempts sent, and those the remaining calls may take, stay in the budget.
Paid ==
    /\ Busy => sent + (Retries + 1) * Remaining
                 <= (Retries + 1) * CallBudget + attempt + 1
    /\ AttemptsBounded

\* A backoff is followed by another attempt, so there is one left.
Pausing == phase = "pausing" => attempt < Retries

IInv ==
    /\ TypeOK /\ Loop /\ Ended /\ Shape /\ Paid /\ Pausing
    /\ NotFoundIsUnanimous /\ EmptyHistoryIsReal

----------------------------------------------------------------------------
(* Providers and their calls.                                              *)

\* No two providers have one turn.
LEMMA TurnType ==
    /\ \A p \in Provider : Turn(p) \in Nat
    /\ \A p, q \in Provider : p # q => Turn(p) # Turn(q)
<1>1. Turn("tracker") = 1 /\ Turn("henrik") = 2 /\ Turn("riot") = 3
  BY DEF Turn
<1> QED  BY <1>1 DEF Provider

\* The providers are tried in the order of Turn: FirstOf is of the set, before
\* all others in it.
LEMMA FirstOfSet ==
    ASSUME NEW S \in SUBSET Provider, S # {}
    PROVE  FirstOf(S) \in S /\ \A q \in S : q # FirstOf(S) => Turn(FirstOf(S)) < Turn(q)
<1>1. \E p \in S : \A q \in S : Turn(p) <= Turn(q)
  <2>1. CASE "tracker" \in S
    BY <2>1 DEF Provider, Turn
  <2>2. CASE "tracker" \notin S /\ "henrik" \in S
    BY <2>2 DEF Provider, Turn
  <2>3. CASE "tracker" \notin S /\ "henrik" \notin S
    BY <2>3 DEF Provider, Turn
  <2> QED  BY <2>1, <2>2, <2>3
<1>2. FirstOf(S) \in S /\ \A q \in S : Turn(FirstOf(S)) <= Turn(q)
  BY <1>1 DEF FirstOf
<1> QED  BY <1>2 DEF Provider, Turn

\* One or two calls, as sequences.
LEMMA ShortCalls ==
    ASSUME NEW a \in Endpoint, NEW b \in Endpoint, a # "list", b # "list"
    PROVE  /\ <<a>> \in Seq(Endpoint) /\ Len(<<a>>) = 1
           /\ \A i \in 1..Len(<<a>>) : <<a>>[i] # "list"
           /\ <<a, b>> \in Seq(Endpoint) /\ Len(<<a, b>>) = 2
           /\ \A i \in 1..Len(<<a, b>>) : <<a, b>>[i] # "list"
<1>1. \A i \in 1..1 : <<a>>[i] = a
  OBVIOUS
<1>2. \A i \in 1..2 : i = 1 \/ i = 2
  OBVIOUS
<1>3. <<a, b>>[1] = a /\ <<a, b>>[2] = b
  OBVIOUS
<1> QED  BY <1>1, <1>2, <1>3

\* Two calls in a row.
LEMMA TwoCalls ==
    ASSUME NEW a \in Endpoint, NEW b \in Endpoint
    PROVE  <<a>> \o <<b>> = <<a, b>> /\ <<>> \o <<b>> = <<b>>
<1>1. <<a>> \o <<b>> = <<a, b>>
  <2>1. <<a>> \in Seq(Endpoint) /\ <<b>> \in Seq(Endpoint) /\ <<a, b>> \in Seq(Endpoint)
    OBVIOUS
  <2>2. Len(<<a>> \o <<b>>) = 2 /\ (<<a>> \o <<b>>)[1] = a /\ (<<a>> \o <<b>>)[2] = b
    BY <2>1, ConcatProperties
  <2>3. \A i \in 1..2 : (<<a>> \o <<b>>)[i] = <<a, b>>[i]
    BY <2>2
  <2> QED  BY <2>1, <2>2, <2>3, ConcatProperties, SeqEqual
<1>2. <<>> \o <<b>> = <<b>>
  <2>1. <<b>> \in Seq(Endpoint)
    OBVIOUS
  <2> QED  BY <2>1, ConcatEmptySeq
<1> QED  BY <1>1, <1>2

\* What a provider is asked first for a resource fits its weight; a history of
\* Riot begins before its matchlist, no other resource has one.
LEMMA CallsFit ==
    ASSUME NEW res \in Resource, NEW p \in Applicable(res), NEW known \in BOOLEAN,
           NEW c, c = Calls(p, res, known)
    PROVE  /\ c \in Seq(Endpoint)
           /\ IF p = "riot" /\ res = "matches"
              THEN c \in {<<"account", "list">>, <<"list">>}
              ELSE Len(c) \in {1, 2} /\ \A i \in 1..Len(c) : c[i] # "list"
           /\ Len(c) + (IF p = "riot" /\ res = "matches" THEN Limit ELSE 0)
                <= Weight(p, res)
<1> USE ProviderChainAssumption DEF ProviderChainAssumption
<1> DEFINE Short == /\ c \in Seq(Endpoint)
                    /\ Len(c) \in {1, 2} /\ \A i \in 1..Len(c) : c[i] # "list"
<1>0. \A b \in Endpoint :
         <<"account">> \o <<b>> = <<"account", b>> /\ <<>> \o <<b>> = <<b>>
  BY TwoCalls DEF Endpoint
<1>1. CASE p = "tracker"
  <2>1. res # "detail"
    BY <1>1 DEF Applicable
  <2>2. c = IF res = "profile" THEN <<"profile", "enrich">>
            ELSE IF res = "matches" THEN <<"matches">> ELSE <<"profile">>
    BY <1>1, <2>1 DEF Calls, Resource
  <2>3. Short /\ (res = "matches" => Len(c) = 1)
    BY <2>2, ShortCalls, ZenonT(30) DEF Endpoint
  <2> QED  BY <1>1, <2>3 DEF Weight
<1>2. CASE p = "henrik"
  <2>1. res \in {"profile", "rank", "matches"}
    BY <1>2 DEF Applicable, Resource, Provider
  <2>2. c \in {<<"account">>, <<"mmr">>, <<"matches">>, <<"account", "mmr">>,
               <<"account", "matches">>}
    BY <1>2, <2>1, <1>0 DEF Calls, Endpoint
  <2>3. Short
    BY <2>2, ShortCalls, ZenonT(30) DEF Endpoint
  <2> QED  BY <1>2, <2>3 DEF Weight
<1>3. CASE p = "riot" /\ res # "matches"
  <2>1. res \in {"profile", "detail"}
    BY <1>3 DEF Applicable, Resource, Provider
  <2>2. c \in {<<"account">>, <<"detail">>}
    BY <1>3, <2>1 DEF Calls
  <2>3. Short /\ Len(c) = 1
    BY <2>2, ShortCalls DEF Endpoint
  <2> QED  BY <1>3, <2>3 DEF Weight
<1>4. CASE p = "riot" /\ res = "matches"
  <2>1. c = <<"list">> \/ c = <<"account", "list">>
    BY <1>4, <1>0 DEF Calls, Endpoint
  <2>2. Len(<<"list">>) = 1 /\ Len(<<"account", "list">>) = 2
    OBVIOUS
  <2>3. <<"list">> \in Seq(Endpoint) /\ <<"account", "list">> \in Seq(Endpoint)
    BY DEF Endpoint
  <2>4. c \in {<<"account", "list">>, <<"list">>} /\ c \in Seq(Endpoint)
    BY <2>1, <2>3
  <2>5. Len(c) = 1 \/ Len(c) = 2
    BY <2>1, <2>2, Zenon
  <2>6. Weight(p, res) = 2 + Limit
    BY <1>4 DEF Weight
  <2>7. Len(c) + Limit <= Weight(p, res)
    <3>1. \A l, w \in Int : (l = 1 \/ l = 2) /\ w = 2 + Limit => l + Limit <= w
      OBVIOUS
    <3>2. Len(c) \in Int /\ Weight(p, res) \in Int
      BY <2>4, <2>6
    <3> QED  BY <2>5, <2>6, <3>1, <3>2
  <2> QED  BY <1>4, <2>4, <2>7
<1> QED  BY <1>1, <1>2, <1>3, <1>4 DEF Applicable, Resource, Provider

\* The weight of one provider and of those after it.
LEMMA CostOfRest ==
    ASSUME NEW res \in Resource, NEW S \in SUBSET Provider, NEW p \in S
    PROVE  /\ Cost(S, res) \in Nat
           /\ Cost(S \ {p}, res) \in Nat
           /\ Weight(p, res) + Cost(S \ {p}, res) = Cost(S, res)
           /\ Cost(S, res) <= CallBudget
BY ProviderChainAssumption DEF ProviderChainAssumption, Cost, Weight, Provider, CallBudget

----------------------------------------------------------------------------
(* The invariant, step by step.                                            *)

\* Costs are natural numbers.
LEMMA CostType ==
    ASSUME NEW S, NEW res
    PROVE  Cost(S, res) \in Nat
BY ProviderChainAssumption DEF ProviderChainAssumption, Cost, Weight

\* A natural number of calls fewer pays for at least as many rounds of attempts.
LEMMA OneCallLess ==
    ASSUME NEW w \in Nat, NEW a \in Nat, NEW b \in Nat, a + 1 <= b
    PROVE  w * a + w <= w * b
<1>1. PICK d \in Nat : b = a + 1 + d
  <2>1. b - a - 1 \in Nat /\ b = a + 1 + (b - a - 1)
    OBVIOUS
  <2> QED  BY <2>1
<1>2. w * b = w * a + w + w * d
  BY <1>1
<1>3. w * d \in Nat
  OBVIOUS
<1>4. w * a \in Nat
  OBVIOUS
<1> QED  BY <1>2, <1>3, <1>4

\* The numbers in Paid are natural.
LEMMA RemainingType ==
    ASSUME TypeOK, Busy, Loop
    PROVE  /\ Remaining \in Nat
           /\ CallBudget \in Nat
           /\ (Retries + 1) * Remaining \in Nat
           /\ (Retries + 1) * CallBudget \in Nat
<1> USE ProviderChainAssumption DEF ProviderChainAssumption
<1>1. Len(todo) \in Nat
  BY DEF TypeOK
<1>2. Cost(left, resource) \in Nat
  BY CostType
<1>3. Remaining \in Nat /\ CallBudget \in Nat
  BY <1>1, <1>2 DEF Remaining, CallBudget
<1> QED  BY <1>3

\* While a call is on its way, the current provider has one left at least.
LEMMA CallLeft ==
    ASSUME TypeOK, Shape, Busy
    PROVE  Len(todo) >= 1 /\ todo # <<>>
<1>1. Len(<<"account", "list">>) = 2 /\ Len(<<"list">>) = 1
  OBVIOUS
<1>2. Unlisted => Len(todo) = 1 \/ Len(todo) = 2
  BY <1>1, Zenon DEF Unlisted
<1>3. Len(todo) = 0 <=> todo = <<>>
  BY EmptySeq DEF TypeOK
<1> QED  BY <1>2, <1>3 DEF Shape, Listed, TypeOK

\* Trying the first of S, when the providers asked before S have failed and no
\* others, sets the loop up: the invariant holds, and what remains costs no more
\* than S.
LEMMA TryKeeps ==
    ASSUME TypeOK, NEW S \in SUBSET Provider, S # {}, S \subseteq Asked',
           NEW n \in Nat, configured' = configured, resource' \in Resource,
           failed' \in [Provider -> Kind \cup {Null}],
           \A q \in Provider : failed'[q] # Null <=> q \in Asked' \ S,
           \A q \in Asked' \ S, p \in S : Turn(q) < Turn(p),
           Try(S, resource', n)
    PROVE  /\ TypeOK' /\ Loop' /\ Ended' /\ Shape'
           /\ NotFoundIsUnanimous' /\ EmptyHistoryIsReal'
           /\ Busy' /\ Pausing' /\ attempt' = 0 /\ sent' = n + 1
           /\ Remaining' <= Cost(S, resource')
<1> USE ProviderChainAssumption DEF ProviderChainAssumption
<1> DEFINE p == FirstOf(S)
<1>1. p \in S /\ \A q \in S : q # p => Turn(p) < Turn(q)
  BY FirstOfSet
<1>2. Asked' \subseteq Provider /\ p \in Applicable(resource')
  BY <1>1 DEF Asked, Provider, TypeOK
<1>3. PICK known \in BOOLEAN : todo' = Calls(p, resource', known)
  BY DEF Try
<1>4. /\ todo' \in Seq(Endpoint)
      /\ IF p = "riot" /\ resource' = "matches"
         THEN todo' \in {<<"account", "list">>, <<"list">>}
         ELSE Len(todo') \in {1, 2} /\ \A i \in 1..Len(todo') : todo'[i] # "list"
      /\ Len(todo') + (IF p = "riot" /\ resource' = "matches" THEN Limit ELSE 0)
           <= Weight(p, resource')
  BY <1>2, <1>3, CallsFit
<1>5. /\ at' = p /\ left' = S \ {p} /\ phase' = "calling" /\ attempt' = 0
      /\ listed' = 0 /\ usable' = 0 /\ outcome' = Null /\ sent' = n + 1
  BY DEF Try
<1> HIDE DEF p
<1>6. TypeOK'
  BY <1>1, <1>4, <1>5 DEF TypeOK
<1>7. left' = {q \in Asked' : Turn(p) < Turn(q)}
  BY <1>1, <1>2, <1>5, TurnType
<1>8. \A q \in Provider : failed'[q] # Null <=> q \in Asked' /\ Turn(q) < Turn(p)
  BY <1>1, <1>2, TurnType
<1>9. Loop' /\ Ended' /\ Busy' /\ Pausing'
  BY <1>1, <1>5, <1>7, <1>8 DEF Loop, Ended, Busy, Pausing
<1>10. Shape'
  BY <1>4, <1>5 DEF Shape, Unlisted
<1>11. NotFoundIsUnanimous' /\ EmptyHistoryIsReal'
  BY <1>5 DEF NotFoundIsUnanimous, Confirms, DetailGone, EmptyHistoryIsReal, Provider, Kind
<1>12. Remaining' <= Cost(S, resource')
  <2>1. /\ Weight(p, resource') + Cost(S \ {p}, resource') = Cost(S, resource')
        /\ Cost(S \ {p}, resource') \in Nat
    BY <1>1, CostOfRest
  <2>2. Len(todo') \in Nat
    BY <1>4
  <2>3. Weight(p, resource') \in Nat
    <3>1. p = "tracker" \/ p = "henrik" \/ p = "riot"
      BY <1>1 DEF Provider
    <3> QED  BY <3>1 DEF Weight
  <2>4. Remaining' = Len(todo') + Cost(S \ {p}, resource')
                     + (IF p = "riot" /\ resource' = "matches" THEN Limit ELSE 0)
    BY <1>5 DEF Remaining
  <2> QED  BY <1>4, <2>1, <2>2, <2>3, <2>4
<1> QED  BY <1>5, <1>6, <1>9, <1>10, <1>11, <1>12

\* One call less pays for one attempt more, and for those of a whole call.
LEMMA PayForOne ==
    ASSUME NEW w \in Nat, NEW c \in Nat, NEW r \in Nat, NEW r2 \in Nat, NEW a \in Nat,
           NEW s \in Nat, s + w * r <= w * c + a + 1, a < w, r2 + 1 <= r, r2 >= 1
    PROVE  (s + 1) + w * r2 <= w * c + 1 /\ s + 1 <= w * c
<1>1. w * r2 + w <= w * r
  BY OneCallLess
<1>2. w * 0 + w <= w * r2
  BY OneCallLess
<1>3. w * r2 \in Nat /\ w * r \in Nat /\ w * c \in Nat
  OBVIOUS
<1>4. s + w * r2 <= w * c
  BY <1>1, <1>3
<1> QED  BY <1>2, <1>3, <1>4

\* A step that sends an attempt of a later call keeps the books.
LEMMA PaidKeeps ==
    ASSUME IInv, Busy, TypeOK', Busy', Loop', Shape',
           Remaining' + 1 <= Remaining, attempt' = 0, sent' = sent + 1
    PROVE  Paid'
<1> USE ProviderChainAssumption DEF ProviderChainAssumption
<1> DEFINE W == Retries + 1
<1>1. Remaining \in Nat /\ CallBudget \in Nat
  BY RemainingType DEF IInv
<1>2. Len(todo') \in Nat /\ Cost(left', resource') \in Nat
  BY CostType DEF TypeOK
<1>3. Len(todo') >= 1
  <2>1. Len(<<"account", "list">>) = 2 /\ Len(<<"list">>) = 1
    OBVIOUS
  <2>2. Unlisted' => Len(todo') = 1 \/ Len(todo') = 2
    BY <2>1, Zenon DEF Unlisted
  <2>3. todo' # <<>> => Len(todo') \in Nat \ {0}
    BY EmptySeq DEF TypeOK
  <2> QED  BY <2>2, <2>3 DEF Shape, Listed
<1>4. Remaining' \in Nat /\ Remaining' >= 1
  BY <1>2, <1>3 DEF Remaining
<1>5. sent + W * Remaining <= W * CallBudget + attempt + 1 /\ attempt < W
  BY DEF IInv, Paid, TypeOK
<1>6. W \in Nat /\ attempt \in Nat /\ sent \in Nat
  BY DEF IInv, TypeOK
<1> HIDE DEF W
<1>7. (sent + 1) + W * Remaining' <= W * CallBudget + 1 /\ sent + 1 <= W * CallBudget
  BY <1>1, <1>4, <1>5, <1>6, PayForOne
<1>8. CallBudget' = CallBudget
  BY DEF CallBudget
<1>9. Busy' => sent' + (Retries + 1) * Remaining'
                  <= (Retries + 1) * CallBudget' + attempt' + 1
  <2>1. W * CallBudget + 1 = W * CallBudget' + attempt' + 1
    <3>1. W * CallBudget \in Int
      BY <1>1, <1>6
    <3> QED  BY <3>1, <1>8
  <2>2. sent' + W * Remaining' <= W * CallBudget' + attempt' + 1
    BY <1>7, <2>1
  <2> QED  BY <2>2 DEF W
<1>10. AttemptsBounded'
  BY <1>7, <1>8 DEF AttemptsBounded, W
<1> QED  BY <1>9, <1>10 DEF Paid

\* The next call of the same provider.
LEMMA ContinueKeeps ==
    ASSUME IInv, phase = "calling", UNCHANGED <<configured, resource>>,
           NEW calls \in Seq(Endpoint), Continue(calls), Shape',
           listed' \in 0..MaxHistory, usable' \in 0..Limit,
           Remaining' + 1 <= Remaining
    PROVE  IInv'
<1> USE ProviderChainAssumption DEF ProviderChainAssumption
<1>1. TypeOK'
  BY DEF IInv, TypeOK, Continue
<1>2. Busy /\ Busy' /\ Loop' /\ Ended' /\ Pausing'
  BY DEF IInv, Loop, Ended, Busy, Pausing, Continue, Asked
<1>3. NotFoundIsUnanimous' /\ EmptyHistoryIsReal'
  BY <1>2 DEF Loop, NotFoundIsUnanimous, Confirms, DetailGone, EmptyHistoryIsReal, Provider, Kind
<1>4. Paid'
  BY <1>1, <1>2, PaidKeeps DEF Continue
<1> QED  BY <1>1, <1>2, <1>3, <1>4 DEF IInv

\* The provider fails and the next is tried, or the failures are the answer.
LEMMA FailKeeps ==
    ASSUME IInv, phase = "calling", UNCHANGED <<configured, resource>>,
           NEW k \in Kind, Fail(k)
    PROVE  IInv'
<1> USE ProviderChainAssumption DEF ProviderChainAssumption
<1>1. Busy /\ TypeOK /\ Shape /\ at \in Asked /\ Asked' = Asked /\ Asked \subseteq Provider
  BY DEF IInv, Busy, Loop, Asked, TypeOK
<1>2. /\ left = {q \in Asked : Turn(at) < Turn(q)}
      /\ \A q \in Provider : failed[q] # Null <=> q \in Asked /\ Turn(q) < Turn(at)
  BY <1>1 DEF IInv, Loop
<1>3. failed' = [failed EXCEPT ![at] = k] /\ k # Null
  BY DEF Fail
<1>4. failed' \in [Provider -> Kind \cup {Null}]
  BY <1>1, <1>3 DEF TypeOK
<1>5. \A q \in Provider :
         failed'[q] # Null <=> q \in Asked /\ (q = at \/ Turn(q) < Turn(at))
  BY <1>1, <1>2, <1>3 DEF TypeOK
<1>6. CASE left # {} /\ Try(left, resource, sent)
  <2>1. \A q \in Provider : failed'[q] # Null <=> q \in Asked' \ left
    BY <1>1, <1>2, <1>5, TurnType
  <2>2. \A q \in Asked' \ left, p \in left : Turn(q) < Turn(p)
    BY <1>1, <1>2, TurnType
  <2>3. resource' \in Resource /\ sent \in Nat /\ left \in SUBSET Provider
    BY <1>1, <1>2 DEF IInv, Loop, TypeOK
  <2>4. Try(left, resource', sent) /\ left \subseteq Asked'
    BY <1>1, <1>2, <1>6
  <2>5. /\ TypeOK' /\ Loop' /\ Ended' /\ Shape'
        /\ NotFoundIsUnanimous' /\ EmptyHistoryIsReal'
        /\ Busy' /\ Pausing' /\ attempt' = 0 /\ sent' = sent + 1
        /\ Remaining' <= Cost(left, resource)
    BY <1>1, <1>4, <1>6, <2>1, <2>2, <2>3, <2>4, TryKeeps
  <2>6. Remaining' + 1 <= Remaining
    <3>1. Len(todo) \in Nat /\ Len(todo) >= 1
      BY <1>1, CallLeft DEF TypeOK
    <3>2. Cost(left, resource) \in Nat /\ Len(todo') \in Nat /\ Cost(left', resource') \in Nat
      BY <2>5, CostType DEF TypeOK
    <3>3. Remaining \in Int /\ Remaining' \in Int /\ Remaining >= 1 + Cost(left, resource)
      BY <3>1, <3>2 DEF Remaining
    <3>4. Remaining' <= Cost(left, resource)
      BY <2>5
    <3>5. \A a, b, c \in Int : a <= c /\ b >= 1 + c => a + 1 <= b
      OBVIOUS
    <3>6. Cost(left, resource) \in Int
      BY <3>2
    <3> QED  BY <3>3, <3>4, <3>5, <3>6
  <2>7. Paid'
    BY <1>1, <2>5, <2>6, PaidKeeps
  <2> QED  BY <2>5, <2>7 DEF IInv
<1>7. CASE left = {} /\ Finish(Verdict(failed')) /\ UNCHANGED <<listed, usable, sent>>
  <2>1. /\ phase' = "done" /\ at' = Null /\ left' = {} /\ todo' = <<>> /\ attempt' = 0
        /\ outcome' = Verdict(failed')
    BY <1>7 DEF Finish
  <2>2. outcome' \in {"notfound", "error", "unavailable"} /\ outcome' \notin Provider
    BY <2>1 DEF Verdict, Provider
  <2>3. TypeOK'
    BY <1>1, <1>4, <1>7, <2>1, <2>2 DEF TypeOK
  <2>4. ~Busy' /\ Loop' /\ Shape' /\ Ended' /\ Pausing'
    BY <2>1, <2>2 DEF Busy, Loop, Shape, Ended, Pausing
  <2>5. Paid'
    BY <1>7, <2>4 DEF IInv, Paid, AttemptsBounded, CallBudget
  <2>6. NotFoundIsUnanimous'
    <3>1. \A q \in Asked : failed'[q] # Null
      BY <1>1, <1>2, <1>5, <1>7, TurnType
    <3>2. outcome' = "notfound" => {failed'[q] : q \in Provider} \ {Null} = {"notfound"}
      BY <2>1 DEF Verdict
    <3> QED  BY <1>1, <3>1, <3>2 DEF NotFoundIsUnanimous, Confirms, DetailGone
  <2>7. EmptyHistoryIsReal'
    BY <2>2 DEF EmptyHistoryIsReal, Provider
  <2> QED  BY <2>3, <2>4, <2>5, <2>6, <2>7 DEF IInv
<1> QED  BY <1>3, <1>6, <1>7 DEF Fail

\* The last call of the provider is over: it is malformed, or the answer.
LEMMA DeliverKeeps ==
    ASSUME IInv, phase = "calling", UNCHANGED <<configured, resource>>,
           NEW n \in 0..Limit, listed = 0 => n = 0, Deliver(n)
    PROVE  IInv'
<1> USE ProviderChainAssumption DEF ProviderChainAssumption
<1>1. CASE Fail("invalid")
  BY <1>1, FailKeeps DEF Kind
<1>2. CASE /\ listed = 0 \/ n > 0
           /\ Finish(at) /\ usable' = n /\ UNCHANGED <<listed, failed, sent>>
  <2>1. /\ phase' = "done" /\ at' = Null /\ left' = {} /\ todo' = <<>> /\ attempt' = 0
        /\ outcome' = at
    BY <1>2 DEF Finish
  <2>2. Busy /\ Asked' = Asked /\ at \in Asked /\ Asked \subseteq Provider
    BY DEF IInv, Busy, Loop, Asked, TypeOK
  <2>3. TypeOK'
    BY <1>2, <2>1, <2>2 DEF IInv, TypeOK
  <2>4. ~Busy' /\ Loop' /\ Shape' /\ Pausing'
    BY <2>1 DEF Busy, Loop, Shape, Pausing
  <2>5. Ended'
    <3>1. failed[at] = Null
      BY <2>2, TurnType DEF IInv, Loop
    <3>2. \A q \in Asked : failed[q] # Null <=> Turn(q) < Turn(at)
      BY <2>2 DEF IInv, Loop
    <3> QED  BY <1>2, <2>1, <2>2, <3>1, <3>2 DEF Ended
  <2>6. Paid'
    BY <1>2, <2>4 DEF IInv, Paid, AttemptsBounded, CallBudget
  <2>7. NotFoundIsUnanimous'
    BY <2>1, <2>2 DEF NotFoundIsUnanimous, Confirms, DetailGone, Provider
  <2>8. EmptyHistoryIsReal'
    BY <1>2 DEF EmptyHistoryIsReal
  <2> QED  BY <2>3, <2>4, <2>5, <2>6, <2>7, <2>8 DEF IInv
<1> QED  BY <1>1, <1>2 DEF Deliver

\* A new request.
LEMMA AskKeeps ==
    ASSUME IInv, NEW res \in Resource, Ask(res)
    PROVE  IInv'
<1> USE ProviderChainAssumption DEF ProviderChainAssumption
<1> DEFINE S == configured \cap Applicable(res)
<1>1. resource' = res /\ configured' = configured /\ failed' = [p \in Provider |-> Null]
  BY DEF Ask
<1>2. Asked' = S /\ S \in SUBSET Provider
  BY <1>1 DEF Asked, IInv, TypeOK
<1>3. failed' \in [Provider -> Kind \cup {Null}]
  BY <1>1
<1>4. CASE S # {} /\ Try(S, res, 0)
  <2>1. \A q \in Provider : failed'[q] # Null <=> q \in Asked' \ S
    BY <1>1, <1>2
  <2>2. \A q \in Asked' \ S, p \in S : Turn(q) < Turn(p)
    BY <1>2
  <2>3. TypeOK /\ Try(S, resource', 0) /\ S # {} /\ S \subseteq Asked' /\ resource' \in Resource
    BY <1>1, <1>2, <1>4 DEF IInv
  <2> HIDE DEF S
  <2>4. /\ TypeOK' /\ Loop' /\ Ended' /\ Shape'
        /\ NotFoundIsUnanimous' /\ EmptyHistoryIsReal'
        /\ Busy' /\ Pausing' /\ attempt' = 0 /\ sent' = 0 + 1
        /\ Remaining' <= Cost(S, resource')
    BY <1>1, <1>2, <1>3, <2>1, <2>2, <2>3, TryKeeps
  <2>5. Cost(S, resource') \in Nat /\ Cost(S, resource') <= CallBudget
    BY <1>2, <2>3, CostOfRest
  <2>6. Paid'
    <3>1. CallBudget' = CallBudget /\ CallBudget \in Nat /\ CallBudget >= 1
      BY DEF CallBudget
    <3>2. Remaining' \in Nat
      <4>1. Len(todo') \in Nat /\ Cost(left', resource') \in Nat
        BY <2>4, CostType DEF TypeOK
      <4> QED  BY <4>1 DEF Remaining
    <3>3. \A w, r, k, c \in Nat :
             w >= 1 /\ c >= 1 /\ r <= k /\ k <= c => 1 + w * r <= w * c + 0 + 1 /\ 1 <= w * c
      <4> SUFFICES ASSUME NEW w \in Nat, NEW r \in Nat, NEW k \in Nat, NEW c \in Nat,
                          w >= 1, c >= 1, r <= k, k <= c
                   PROVE  1 + w * r <= w * c + 0 + 1 /\ 1 <= w * c
        OBVIOUS
      <4>1. w * 0 + w <= w * c
        BY OneCallLess
      <4>2. r = c \/ w * r + w <= w * c
        BY OneCallLess
      <4>3. w * r \in Nat /\ w * c \in Nat
        OBVIOUS
      <4> QED  BY <4>1, <4>2, <4>3
    <3>4. Retries + 1 \in Nat /\ Retries + 1 >= 1
      OBVIOUS
    <3>5. /\ 1 + (Retries + 1) * Remaining' <= (Retries + 1) * CallBudget + 0 + 1
          /\ 1 <= (Retries + 1) * CallBudget
      BY <2>4, <2>5, <3>1, <3>2, <3>3, <3>4
    <3>6. sent' = 1
      BY <2>4
    <3> QED  BY <2>4, <3>1, <3>5, <3>6 DEF Paid, AttemptsBounded
  <2> QED  BY <2>4, <2>6 DEF IInv
<1>5. CASE S = {} /\ Finish(Verdict(failed')) /\ listed' = 0 /\ usable' = 0 /\ sent' = 0
  <2>1. /\ phase' = "done" /\ at' = Null /\ left' = {} /\ todo' = <<>> /\ attempt' = 0
        /\ outcome' = Verdict(failed')
    BY <1>5 DEF Finish
  <2>2. {failed'[q] : q \in Provider} \ {Null} = {}
    BY <1>1
  <2>3. outcome' = "unavailable"
    BY <2>1, <2>2 DEF Verdict
  <2>4. TypeOK'
    BY <1>1, <1>3, <1>5, <2>1, <2>3 DEF IInv, TypeOK
  <2>5. ~Busy' /\ Loop' /\ Shape' /\ Pausing' /\ Ended'
    BY <2>1, <2>3 DEF Busy, Loop, Shape, Pausing, Ended, Provider
  <2>6. Paid'
    <3>1. (Retries + 1) * CallBudget' \in Nat
      BY DEF CallBudget
    <3> QED  BY <1>5, <2>5, <3>1 DEF Paid, AttemptsBounded
  <2>7. NotFoundIsUnanimous' /\ EmptyHistoryIsReal'
    BY <2>3 DEF NotFoundIsUnanimous, Confirms, DetailGone, EmptyHistoryIsReal
  <2> QED  BY <2>4, <2>5, <2>6, <2>7 DEF IInv
<1> QED  BY <1>1, <1>4, <1>5 DEF Ask

\* What is left of the current provider's calls, read off Shape: Riot's matchlist
\* is the last call known, and the details of a history come after it.
LEMMA CurrentCall ==
    ASSUME TypeOK, Shape, Busy
    PROVE  /\ Len(todo) >= 1 /\ todo # <<>> /\ Len(todo) \in Nat /\ Current = todo[1]
           /\ Current = "list" =>
                 /\ at = "riot" /\ resource = "matches" /\ todo = <<"list">>
                 /\ listed = 0 /\ usable = 0
           /\ InHistory => Listed
           /\ ~InHistory => listed = 0 /\ usable = 0
<1>1. Len(todo) >= 1 /\ todo # <<>> /\ Len(todo) \in Nat
  BY CallLeft DEF TypeOK
<1>2. Current = todo[1]
  BY <1>1 DEF Current, TypeOK
<1>3. <<"account", "list">>[1] = "account" /\ <<"list">>[1] = "list"
  OBVIOUS
<1>4. CASE at = "riot" /\ resource = "matches" /\ Unlisted
  <2>1. todo[1] = "list" => todo = <<"list">>
    BY <1>3, <1>4 DEF Unlisted
  <2>2. todo[1] # "detail"
    BY <1>3, <1>4 DEF Unlisted
  <2> QED  BY <1>1, <1>2, <1>4, <2>1, <2>2 DEF Unlisted, InHistory
<1>5. CASE at = "riot" /\ resource = "matches" /\ Listed
  <2>1. todo[1] = "detail"
    BY <1>1, <1>5 DEF Listed
  <2> QED  BY <1>1, <1>2, <1>5, <2>1 DEF InHistory
<1>6. CASE ~(at = "riot" /\ resource = "matches")
  <2>1. listed = 0 /\ usable = 0 /\ todo[1] # "list"
    BY <1>1, <1>6 DEF Shape
  <2> QED  BY <1>1, <1>2, <1>6, <2>1 DEF InHistory
<1> QED  BY <1>4, <1>5, <1>6 DEF Shape

\* The calls that are left after one of them.
LEMMA TailOfCalls ==
    ASSUME TypeOK, Len(todo) > 1
    PROVE  /\ Tail(todo) \in Seq(Endpoint) /\ Len(Tail(todo)) = Len(todo) - 1
           /\ \A i \in 1..Len(Tail(todo)) : Tail(todo)[i] = todo[i + 1]
BY HeadTailProperties DEF TypeOK

\* A call that is answered as its contract says.
LEMMA SucceedKeeps ==
    ASSUME IInv, Succeed
    PROVE  IInv'
<1> USE ProviderChainAssumption DEF ProviderChainAssumption
<1>1. /\ TypeOK /\ Shape /\ Busy /\ phase = "calling" /\ UNCHANGED <<configured, resource>>
      /\ Current # "list" /\ ~InHistory
  BY DEF IInv, Busy, Succeed
<1>2. listed = 0 /\ usable = 0 /\ Len(todo) \in Nat /\ Current = todo[1]
  BY <1>1, CurrentCall
<1>3. CASE Len(todo) > 1 /\ Continue(Tail(todo)) /\ UNCHANGED <<listed, usable>>
  <2>1. /\ Tail(todo) \in Seq(Endpoint) /\ Len(Tail(todo)) = Len(todo) - 1
        /\ \A i \in 1..Len(Tail(todo)) : Tail(todo)[i] = todo[i + 1]
    BY <1>1, <1>3, TailOfCalls
  <2>2. todo' = Tail(todo) /\ UNCHANGED <<phase, at, left>>
    BY <1>3 DEF Continue
  <2>3. Shape'
    <3>1. CASE at = "riot" /\ resource = "matches"
      <4>1. Unlisted /\ <<"account", "list">>[1] = "account" /\ <<"list">>[1] = "list"
        BY <1>1, <1>2, <3>1 DEF Shape, Listed
      <4>2. todo = <<"account", "list">>
        BY <1>1, <1>2, <4>1 DEF Unlisted
      <4>3. Tail(<<"account", "list">>) = <<"list">>
        OBVIOUS
      <4>4. Unlisted'
        BY <1>2, <1>3, <2>2, <4>2, <4>3 DEF Unlisted
      <4> QED  BY <1>1, <2>2, <3>1, <4>4 DEF Shape
    <3>2. CASE ~(at = "riot" /\ resource = "matches")
      <4>1. Len(todo) = 2 /\ \A i \in 1..Len(todo) : todo[i] # "list"
        BY <1>1, <1>3, <3>2 DEF Shape
      <4>2. Len(todo') = 1 /\ \A i \in 1..Len(todo') : todo'[i] # "list"
        BY <2>1, <2>2, <4>1
      <4> QED  BY <1>1, <1>2, <1>3, <2>2, <3>2, <4>2 DEF Shape
    <3> QED  BY <3>1, <3>2
  <2>4. Remaining' + 1 <= Remaining
    <3>1. Remaining' = Len(todo) - 1 + Cost(left, resource) +
                (IF at = "riot" /\ resource = "matches" /\ listed = 0 THEN Limit ELSE 0)
      BY <1>1, <1>3, <2>1, <2>2 DEF Remaining
    <3>2. Cost(left, resource) \in Nat
      BY CostType
    <3> QED  BY <1>2, <3>1, <3>2 DEF Remaining
  <2>5. listed' \in 0..MaxHistory /\ usable' \in 0..Limit
    BY <1>1, <1>3 DEF TypeOK
  <2> QED  BY <1>1, <1>3, <2>1, <2>3, <2>4, <2>5, ContinueKeeps
<1>4. CASE Len(todo) = 1 /\ Deliver(usable)
  BY <1>1, <1>2, <1>4, DeliverKeeps
<1> QED  BY <1>3, <1>4 DEF Succeed

\* Riot's matchlist: an empty one is the answer, or its first details are fetched.
LEMMA ListKeeps ==
    ASSUME IInv, NEW n \in 0..MaxHistory, List(n)
    PROVE  IInv'
<1> USE ProviderChainAssumption DEF ProviderChainAssumption
<1>1. /\ TypeOK /\ Shape /\ Busy /\ phase = "calling" /\ UNCHANGED <<configured, resource>>
      /\ Current = "list"
  BY DEF IInv, Busy, List
<1>2. /\ at = "riot" /\ resource = "matches" /\ todo = <<"list">>
      /\ listed = 0 /\ usable = 0
  BY <1>1, CurrentCall
<1>3. CASE /\ n > 0 /\ listed' = n /\ UNCHANGED usable
           /\ \E k \in 1..(IF n < Limit THEN n ELSE Limit) :
                 Continue([i \in 1..k |-> "detail"])
  <2>0. PICK m \in 1..(IF n < Limit THEN n ELSE Limit) :
                 Continue([i \in 1..m |-> "detail"])
    BY <1>3
  <2>1. m \in 1..Limit
    BY <1>3
  <2>2. /\ todo' = [i \in 1..m |-> "detail"] /\ UNCHANGED <<phase, at, left>>
    BY <2>0 DEF Continue
  <2>3. /\ todo' \in Seq(Endpoint) /\ Len(todo') = m
        /\ \A i \in 1..Len(todo') : todo'[i] = "detail"
    <3>1. todo' \in [1..m -> Endpoint] /\ m \in Nat
      BY <2>1, <2>2 DEF Endpoint
    <3>2. todo' \in Seq(Endpoint) /\ Len(todo') = m
      BY <3>1
    <3> QED  BY <2>2, <3>2
  <2>4. Shape'
    <3>1. todo' # <<>>
      BY <2>1, <2>3, EmptySeq
    <3>2. Listed'
      BY <1>2, <1>3, <2>1, <2>3, <3>1 DEF Listed
    <3> QED  BY <1>1, <1>2, <2>2, <3>2 DEF Shape
  <2>5. Remaining' + 1 <= Remaining
    <3>1. Cost(left, resource) \in Nat /\ Len(<<"list">>) = 1
      BY CostType
    <3>2. Remaining = 1 + Cost(left, resource) + Limit
      BY <1>2, <3>1 DEF Remaining
    <3>3. Remaining' = m + Cost(left, resource)
      BY <1>1, <1>2, <1>3, <2>1, <2>2, <2>3, <3>1 DEF Remaining
    <3> QED  BY <2>1, <3>1, <3>2, <3>3
  <2>6. listed' \in 0..MaxHistory /\ usable' \in 0..Limit
    BY <1>1, <1>3 DEF TypeOK
  <2> QED  BY <1>1, <1>3, <2>0, <2>2, <2>3, <2>4, <2>5, <2>6, ContinueKeeps
<1>4. CASE n = 0 /\ Deliver(0)
  BY <1>1, <1>4, DeliverKeeps
<1>5. CASE n > 0 /\ Fail("invalid")
  BY <1>1, <1>5, FailKeeps DEF Kind
<1> QED  BY <1>3, <1>4, <1>5 DEF List

\* A detail of a history, usable or skipped.
LEMMA SummarizeKeeps ==
    ASSUME IInv, NEW n \in {0, 1}, Summarize(n)
    PROVE  IInv'
<1> USE ProviderChainAssumption DEF ProviderChainAssumption
<1>1. /\ TypeOK /\ Shape /\ Busy /\ phase = "calling" /\ UNCHANGED <<configured, resource>>
      /\ InHistory
  BY DEF IInv, Busy, Summarize
<1>2. Listed /\ Len(todo) \in Nat /\ Len(todo) >= 1 /\ usable \in Nat /\ listed \in Nat
  BY <1>1, CurrentCall DEF TypeOK
<1>3. CASE Len(todo) > 1 /\ usable' = usable + n /\ Continue(Tail(todo)) /\ UNCHANGED listed
  <2>1. /\ Tail(todo) \in Seq(Endpoint) /\ Len(Tail(todo)) = Len(todo) - 1
        /\ \A i \in 1..Len(Tail(todo)) : Tail(todo)[i] = todo[i + 1]
    BY <1>1, <1>3, TailOfCalls
  <2>2. todo' = Tail(todo) /\ UNCHANGED <<phase, at, left>>
    BY <1>3 DEF Continue
  <2>3. \A i \in 1..Len(todo') : todo'[i] = "detail"
    BY <1>2, <2>1, <2>2 DEF Listed
  <2>4. todo' # <<>>
    <3>1. Len(todo') # 0
      BY <1>2, <1>3, <2>1, <2>2
    <3> QED  BY <3>1, EmptySeq
  <2>5. usable' + Len(todo') <= Limit /\ listed' > 0
    BY <1>2, <1>3, <2>1, <2>2 DEF Listed
  <2>6. Shape'
    <3>1. Listed'
      BY <2>3, <2>4, <2>5 DEF Listed
    <3> QED  BY <1>1, <2>2, <3>1 DEF Shape, InHistory
  <2>7. Remaining' + 1 <= Remaining
    <3>1. Cost(left, resource) \in Nat
      BY CostType
    <3>2. Remaining = Len(todo) + Cost(left, resource)
      BY <1>2, <3>1 DEF Remaining, Listed
    <3>3. Remaining' = Len(todo) - 1 + Cost(left, resource)
      BY <1>1, <1>2, <1>3, <2>1, <2>2, <3>1 DEF Remaining, Listed
    <3> QED  BY <1>2, <3>1, <3>2, <3>3
  <2>8. listed' \in 0..MaxHistory /\ usable' \in 0..Limit
    BY <1>1, <1>2, <1>3, <2>1, <2>2, <2>5 DEF TypeOK
  <2> QED  BY <1>1, <1>3, <2>1, <2>6, <2>7, <2>8, ContinueKeeps
<1>4. CASE Len(todo) = 1 /\ Deliver(usable + n)
  <2>1. usable + n \in 0..Limit /\ listed # 0
    BY <1>2, <1>4 DEF Listed
  <2> QED  BY <1>1, <1>4, <2>1, DeliverKeeps
<1> QED  BY <1>3, <1>4 DEF Summarize

\* A backoff begins.
LEMMA PauseKeeps ==
    ASSUME IInv, NEW a \in Answer, Pause(a)
    PROVE  IInv'
<1>1. Busy /\ Busy' /\ attempt < Retries
  BY DEF Pause, Busy
<1>2. UNCHANGED <<configured, resource, left, at, todo, attempt, listed, usable,
                  failed, outcome, sent>> /\ phase' = "pausing"
  BY DEF Pause
<1>3. TypeOK'
  BY <1>2 DEF IInv, TypeOK
<1>4. Loop' /\ Ended' /\ Shape' /\ Pausing'
  BY <1>1, <1>2 DEF IInv, Loop, Ended, Shape, Pausing, Asked, Unlisted, Listed
<1>5. Paid'
  BY <1>1, <1>2 DEF IInv, Paid, Remaining, AttemptsBounded, CallBudget
<1>6. NotFoundIsUnanimous' /\ EmptyHistoryIsReal'
  BY <1>2 DEF IInv, NotFoundIsUnanimous, Confirms, DetailGone, EmptyHistoryIsReal, Asked
<1> QED  BY <1>3, <1>4, <1>5, <1>6 DEF IInv

\* The backoff ends and the call is attempted again.
LEMMA RetryKeeps ==
    ASSUME IInv, Retry
    PROVE  IInv'
<1> USE ProviderChainAssumption DEF ProviderChainAssumption
<1>1. Busy /\ Busy' /\ phase' = "calling" /\ attempt' = attempt + 1 /\ sent' = sent + 1
      /\ UNCHANGED <<configured, resource, left, at, todo, listed, usable, failed, outcome>>
  BY DEF Retry, Busy
<1>2. attempt < Retries /\ attempt \in Nat /\ sent \in Nat
  BY DEF IInv, Pausing, Retry, TypeOK
<1>3. TypeOK'
  BY <1>1, <1>2 DEF IInv, TypeOK
<1>4. Loop' /\ Ended' /\ Shape' /\ Pausing'
  BY <1>1 DEF IInv, Loop, Ended, Shape, Pausing, Asked, Unlisted, Listed
<1>5. Paid'
  <2>1. TypeOK /\ Loop /\ Shape
    BY DEF IInv
  <2>2. /\ Remaining \in Nat /\ CallBudget \in Nat
        /\ (Retries + 1) * Remaining \in Nat /\ (Retries + 1) * CallBudget \in Nat
    BY <1>1, <2>1, RemainingType
  <2>3. Len(todo) \in Nat /\ Len(todo) >= 1 /\ Cost(left, resource) \in Nat
    BY <1>1, <2>1, CallLeft, CostType DEF TypeOK
  <2>4. Remaining >= 1
    BY <2>3 DEF Remaining
  <2>5. (Retries + 1) * 0 + (Retries + 1) <= (Retries + 1) * Remaining
    <3>1. 0 + 1 <= Remaining
      BY <2>2, <2>4
    <3>2. Retries + 1 \in Nat /\ 0 \in Nat
      OBVIOUS
    <3> QED  BY <2>2, <3>1, <3>2, OneCallLess
  <2>6. sent + (Retries + 1) * Remaining <= (Retries + 1) * CallBudget + attempt + 1
    BY <1>1 DEF IInv, Paid
  <2>7. \A r, s, a, x, y \in Nat :
           0 + (r + 1) <= x /\ s + x <= y + a + 1 /\ a < r =>
              s + 1 + x <= y + (a + 1) + 1 /\ s + 1 <= y
    OBVIOUS
  <2>8. (Retries + 1) * 0 = 0
    OBVIOUS
  <2>9. /\ sent + 1 + (Retries + 1) * Remaining
              <= (Retries + 1) * CallBudget + (attempt + 1) + 1
        /\ sent + 1 <= (Retries + 1) * CallBudget
    BY <1>2, <2>2, <2>5, <2>6, <2>7, <2>8
  <2>10. Remaining' = Remaining /\ CallBudget' = CallBudget
    BY <1>1 DEF Remaining, CallBudget
  <2> QED  BY <1>1, <2>9, <2>10 DEF Paid, AttemptsBounded
<1>6. NotFoundIsUnanimous' /\ EmptyHistoryIsReal'
  BY <1>1 DEF IInv, NotFoundIsUnanimous, Confirms, DetailGone, EmptyHistoryIsReal, Asked
<1> QED  BY <1>3, <1>4, <1>5, <1>6 DEF IInv

\* A call fails for good: the enrichment of a profile is tolerated, any other
\* failure is the provider's.
LEMMA GiveUpKeeps ==
    ASSUME IInv, NEW a \in Answer, GiveUp(a)
    PROVE  IInv'
<1>1. /\ TypeOK /\ Shape /\ Busy /\ phase = "calling" /\ UNCHANGED <<configured, resource>>
  BY DEF IInv, Busy, GiveUp
<1>2. CASE Current = "enrich" /\ Deliver(usable)
  <2>1. ~InHistory
    BY <1>2 DEF InHistory
  <2>2. listed = 0 /\ usable = 0 /\ usable \in 0..Limit
    BY <1>1, <2>1, CurrentCall DEF TypeOK
  <2> QED  BY <1>1, <1>2, <2>2, DeliverKeeps
<1>3. CASE Fail(KindOf(at, a))
  <2>1. KindOf(at, a) \in Kind
    BY DEF KindOf, Kind
  <2> QED  BY <1>1, <1>3, <2>1, FailKeeps
<1> QED  BY <1>2, <1>3 DEF GiveUp

----------------------------------------------------------------------------
(* The theorems.                                                           *)

\* The invariant holds before any request.
LEMMA InitInv == Init => IInv
<1> USE ProviderChainAssumption DEF ProviderChainAssumption
<1> SUFFICES ASSUME Init
             PROVE  IInv
  OBVIOUS
<1>1. TypeOK
  BY DEF Init, TypeOK
<1>2. ~Busy /\ Loop /\ Shape /\ Pausing /\ Ended
  BY DEF Init, Busy, Loop, Shape, Pausing, Ended, Provider
<1>3. Paid
  <2>1. (Retries + 1) * CallBudget \in Nat
    BY DEF CallBudget
  <2> QED  BY <1>2, <2>1 DEF Init, Paid, AttemptsBounded
<1>4. NotFoundIsUnanimous /\ EmptyHistoryIsReal
  BY DEF Init, NotFoundIsUnanimous, Confirms, DetailGone, EmptyHistoryIsReal, Kind, Provider
<1> QED  BY <1>1, <1>2, <1>3, <1>4 DEF IInv

\* And after every step.
LEMMA NextInv == IInv /\ [Next]_vars => IInv'
<1> SUFFICES ASSUME IInv, [Next]_vars
             PROVE  IInv'
  OBVIOUS
<1>1. CASE UNCHANGED vars
  BY <1>1 DEF vars, IInv, TypeOK, Loop, Ended, Shape, Paid, Pausing, Busy, Asked,
              Unlisted, Listed, Remaining, AttemptsBounded, CallBudget,
              NotFoundIsUnanimous, Confirms, DetailGone, EmptyHistoryIsReal
<1>2. CASE \E res \in Resource : Ask(res)
  BY <1>2, AskKeeps
<1>3. CASE Succeed
  BY <1>3, SucceedKeeps
<1>4. CASE \E n \in 0..MaxHistory : List(n)
  BY <1>4, ListKeeps
<1>5. CASE \E n \in {0, 1} : Summarize(n)
  BY <1>5, SummarizeKeeps
<1>6. CASE \E a \in Answer : Pause(a) \/ GiveUp(a)
  BY <1>6, PauseKeeps, GiveUpKeeps
<1>7. CASE Retry
  BY <1>7, RetryKeeps
<1> QED  BY <1>1, <1>2, <1>3, <1>4, <1>5, <1>6, <1>7 DEF Next

\* The invariant holds throughout.
THEOREM Invariance == Spec => []IInv
<1> QED  BY InitInv, NextInv, PTL DEF Spec

\* Every variable of a request keeps its type.
THEOREM TypeCorrect == Spec => []TypeOK
<1>1. IInv => TypeOK
  BY DEF IInv
<1> QED  BY <1>1, Invariance, PTL

\* PlayerNotFoundError is raised only when every applicable provider ended with an
\* answer of that kind: each confirmed that the resource does not exist, but for Riot
\* where a match is gone of the history it listed.
THEOREM NotFoundIsUnanimousHolds == Spec => []NotFoundIsUnanimous
<1>1. IInv => NotFoundIsUnanimous
  BY DEF IInv
<1> QED  BY <1>1, Invariance, PTL

\* The provider being tried, or whose data is returned, is the first that has
\* not failed: nobody is skipped, tried twice, or tried after a success.
FirstThatServes ==
    \A p \in Provider :
        p = at \/ p = outcome =>
            /\ failed[p] = Null
            /\ \A q \in Asked : failed[q] # Null <=> Turn(q) < Turn(p)

\* The provider in turn, or whose data is returned, is the first that has not
\* failed, whichever are configured.
THEOREM FirstThatServesHolds == Spec => []FirstThatServes
<1>1. IInv => FirstThatServes
  <2> SUFFICES ASSUME IInv, NEW p \in Provider, p = at \/ p = outcome
               PROVE  /\ failed[p] = Null
                      /\ \A q \in Asked : failed[q] # Null <=> Turn(q) < Turn(p)
    BY DEF FirstThatServes
  <2> USE ProviderChainAssumption DEF ProviderChainAssumption
  <2>1. Turn(p) \in Nat
    BY TurnType
  <2>2. CASE Busy
    <3>1. p = at /\ p \in Asked
      BY <2>2 DEF IInv, Loop
    <3>2. \A q \in Provider : failed[q] # Null <=> q \in Asked /\ Turn(q) < Turn(p)
      BY <2>2, <3>1 DEF IInv, Loop
    <3> QED  BY <2>1, <3>1, <3>2 DEF Asked, IInv, TypeOK
  <2>3. CASE ~Busy
    <3>1. p = outcome
      BY <2>3 DEF IInv, Ended
    <3>2. /\ \A q \in Asked : failed[q] # Null <=> Turn(q) < Turn(p)
          /\ failed[p] = Null
      BY <2>1, <2>3, <3>1 DEF IInv, Ended
    <3> QED  BY <3>2
  <2> QED  BY <2>2, <2>3
<1> QED  BY <1>1, Invariance, PTL

\* No outage and no malformed detail makes a listed history an empty one.
THEOREM EmptyHistoryIsRealHolds == Spec => []EmptyHistoryIsReal
<1>1. IInv => EmptyHistoryIsReal
  BY DEF IInv
<1> QED  BY <1>1, Invariance, PTL

\* A request sends at most Retries + 1 attempts for each call of the budget, for a
\* matchlist of any length.
THEOREM AttemptsBoundedHolds == Spec => []AttemptsBounded
<1>1. IInv => AttemptsBounded
  BY DEF IInv, Paid
<1> QED  BY <1>1, Invariance, PTL
----------------------------------------------------------------------------
(* Every step is one of a lookup, or none.                                 *)

\* A request that is over has its outcome, and there is none before the first.
Settled ==
    /\ phase = "done" => outcome # Null
    /\ resource \in Resource <=> phase # "idle"

\* Nothing but Ask changes what is asked for.
LEMMA ResourceKept ==
    ASSUME [Next]_vars, ~\E res \in Resource : Ask(res)
    PROVE  UNCHANGED <<configured, resource>>
BY DEF Next, vars, Succeed, List, Summarize, Pause, GiveUp, Retry

\* The lookup asks the provider in turn: those before it have failed.
LEMMA AskedInTurn ==
    ASSUME IInv, Busy
    PROVE  /\ at \in Asked /\ FirstOf(Lookup!Silent) = at
           /\ Lookup!Silent = left \cup {at} /\ at \notin left
           /\ Lookup!Open
<1> USE ProviderChainAssumption DEF ProviderChainAssumption
<1>1. /\ resource \in Resource /\ resource # Null /\ outcome = Null
      /\ at \in Asked /\ Asked \subseteq Provider
      /\ left = {q \in Asked : Turn(at) < Turn(q)}
      /\ \A q \in Provider : failed[q] # Null <=> q \in Asked /\ Turn(q) < Turn(at)
  BY DEF IInv, Loop, Asked, TypeOK
<1>2. Lookup!Silent = {q \in Asked : failed[q] = Null}
  BY <1>1 DEF Lookup!Silent
<1>3. Lookup!Silent = left \cup {at} /\ at \notin left
  BY <1>1, <1>2, TurnType
<1>4. FirstOf(Lookup!Silent) = at
  <2>1. /\ FirstOf(Lookup!Silent) \in Lookup!Silent
        /\ \A q \in Lookup!Silent :
              q # FirstOf(Lookup!Silent) => Turn(FirstOf(Lookup!Silent)) < Turn(q)
    BY <1>1, <1>3, FirstOfSet
  <2> QED  BY <1>1, <1>3, <2>1, TurnType
<1> QED  BY <1>1, <1>3, <1>4 DEF Lookup!Open

\* The error of _raise_failure is the one a lookup tells when nobody is left.
LEMMA VerdictTold ==
    ASSUME NEW S \in SUBSET Provider, S # {},
           NEW f \in [Provider -> Kind \cup {Null}],
           \A q \in Provider : f[q] # Null <=> q \in S
    PROVE  Verdict(f) = IF \A p \in S : f[p] = "notfound" THEN "notfound"
                        ELSE IF \E p \in S : f[p] = "invalid" THEN "error"
                        ELSE "unavailable"
<1> DEFINE kinds == {f[p] : p \in Provider} \ {Null}
<1>1. kinds = {f[p] : p \in S}
  OBVIOUS
<1>2. kinds = {"notfound"} <=> \A p \in S : f[p] = "notfound"
  BY <1>1
<1>3. "invalid" \in kinds <=> \E p \in S : f[p] = "invalid"
  BY <1>1
<1> QED  BY <1>2, <1>3 DEF Verdict

\* A provider fails: the lookup is refused by it.
LEMMA FailRefuses ==
    ASSUME IInv, phase = "calling", UNCHANGED <<configured, resource>>,
           NEW k \in Kind, Fail(k)
    PROVE  Lookup!Refuse
<1> USE ProviderChainAssumption DEF ProviderChainAssumption
<1>1. Busy /\ TypeOK /\ resource \in Resource /\ resource # Null /\ Asked' = Asked
      /\ Asked \subseteq Provider
  BY DEF IInv, Busy, Loop, Asked, TypeOK
<1>2. /\ at \in Asked /\ FirstOf(Lookup!Silent) = at
      /\ Lookup!Silent = left \cup {at} /\ at \notin left
      /\ Lookup!Open
  BY <1>1, AskedInTurn
<1>3. failed' = [failed EXCEPT ![at] = k]
  BY DEF Fail
<1>4. outcome' = IF Lookup!Silent = {at} THEN Lookup!Told(failed') ELSE Null
  <2>1. CASE left # {} /\ Try(left, resource, sent)
    BY <1>2, <2>1 DEF Try
  <2>2. CASE left = {} /\ Finish(Verdict(failed'))
    <3>1. \A q \in Provider : failed'[q] # Null <=> q \in Asked
      BY <1>1, <1>2, <1>3, <2>2, TurnType DEF IInv, Loop, TypeOK, Kind
    <3>2. failed' \in [Provider -> Kind \cup {Null}]
      BY <1>1, <1>3 DEF TypeOK
    <3>3. Verdict(failed') = IF \A p \in Asked : failed'[p] = "notfound" THEN "notfound"
                             ELSE IF \E p \in Asked : failed'[p] = "invalid" THEN "error"
                             ELSE "unavailable"
      BY <1>1, <1>2, <3>1, <3>2, VerdictTold
    <3> QED  BY <1>1, <1>2, <2>2, <3>3 DEF Finish, Lookup!Told
  <2> QED  BY <1>3, <2>1, <2>2 DEF Fail
<1>5. \E j \in Kind : failed' = [failed EXCEPT ![FirstOf(Lookup!Silent)] = j]
  BY <1>2, <1>3
<1>6. UNCHANGED (IF resource = Null THEN {} ELSE Asked)
  BY <1>1
<1> QED  BY <1>2, <1>4, <1>5, <1>6 DEF Lookup!Refuse

\* The last call of a provider is over: it refuses, or serves.
LEMMA DeliverDecides ==
    ASSUME IInv, phase = "calling", UNCHANGED <<configured, resource>>, NEW n, Deliver(n)
    PROVE  Lookup!Refuse \/ Lookup!Serve
<1>1. CASE Fail("invalid")
  BY <1>1, FailRefuses DEF Kind
<1>2. CASE Finish(at) /\ UNCHANGED <<listed, failed, sent>>
  <2>1. Busy /\ Asked' = Asked
    BY DEF Busy, Asked
  <2>2. FirstOf(Lookup!Silent) = at /\ Lookup!Open
    BY <2>1, AskedInTurn
  <2> QED  BY <1>2, <2>1, <2>2 DEF Finish, Lookup!Serve
<1> QED  BY <1>1, <1>2 DEF Deliver

\* A request begins a lookup.
LEMMA AskAsks ==
    ASSUME IInv, Settled, NEW res \in Resource, Ask(res)
    PROVE  Lookup!Ask
<1> USE ProviderChainAssumption DEF ProviderChainAssumption
<1> DEFINE S == configured \cap Applicable(res)
<1>1. /\ resource' = res /\ resource' # Null /\ Asked' = S
      /\ S \in SUBSET Provider
      /\ failed' = [p \in Provider |-> Null]
  BY DEF Ask, Asked, IInv, TypeOK
<1>2. ~Lookup!Open
  <2>1. CASE phase = "done"
    BY <2>1 DEF Settled, Lookup!Open
  <2>2. CASE phase = "idle"
    <3>1. resource = Null
      BY <2>2 DEF Settled, IInv, TypeOK
    <3> QED  BY <3>1 DEF Lookup!Open, Lookup!Silent
  <2> QED  BY <2>1, <2>2 DEF Ask
<1>3. outcome' = IF S = {} THEN "unavailable" ELSE Null
  <2>1. CASE S # {} /\ Try(S, res, 0)
    BY <2>1 DEF Try
  <2>2. CASE S = {} /\ Finish(Verdict(failed'))
    <3>1. {failed'[q] : q \in Provider} \ {Null} = {}
      BY <1>1
    <3> QED  BY <2>2, <3>1 DEF Finish, Verdict
  <2> QED  BY <1>1, <2>1, <2>2 DEF Ask
<1>4. (IF resource = Null THEN {} ELSE Asked)' = S
  BY <1>1
<1> QED  BY <1>1, <1>2, <1>3, <1>4 DEF Lookup!Ask

\* Each action is the step of PlayerLookup that the lemmas above say, or none.
LEMMA LookupStep ==
    ASSUME IInv, Settled, [Next]_vars
    PROVE  [Lookup!Next]_<<IF resource = Null THEN {} ELSE Asked, failed, outcome>>
<1> DEFINE Quiet == UNCHANGED <<IF resource = Null THEN {} ELSE Asked, failed, outcome>>
<1>1. CASE \E res \in Resource : Ask(res)
  BY <1>1, AskAsks DEF Lookup!Next
<1>2. CASE ~\E res \in Resource : Ask(res)
  <2>1. UNCHANGED <<configured, resource>> /\ Asked' = Asked
    BY <1>2, ResourceKept DEF Asked
  <2>2. CASE UNCHANGED <<failed, outcome>>
    BY <2>1, <2>2
  <2>3. ASSUME NEW n, phase = "calling", Deliver(n)
        PROVE  Lookup!Refuse \/ Lookup!Serve
    BY <2>1, <2>3, DeliverDecides
  <2>4. ASSUME NEW k \in Kind, phase = "calling", Fail(k)
        PROVE  Lookup!Refuse
    BY <2>1, <2>4, FailRefuses
  <2>5. CASE Succeed
    BY <2>2, <2>3, <2>5 DEF Succeed, Continue, Lookup!Next
  <2>6. ASSUME NEW n \in 0..MaxHistory, List(n)
        PROVE  Quiet \/ Lookup!Next
    BY <2>2, <2>3, <2>4, <2>6 DEF List, Continue, Kind, Lookup!Next
  <2>7. ASSUME NEW n \in {0, 1}, Summarize(n)
        PROVE  Quiet \/ Lookup!Next
    BY <2>2, <2>3, <2>7 DEF Summarize, Continue, Lookup!Next
  <2>8. ASSUME NEW a \in Answer, GiveUp(a)
        PROVE  Lookup!Next
    <3>1. KindOf(at, a) \in Kind
      BY DEF KindOf, Kind
    <3> QED  BY <2>3, <2>4, <2>8, <3>1 DEF GiveUp, Lookup!Next
  <2>9. CASE (\E a \in Answer : Pause(a)) \/ Retry \/ UNCHANGED vars
    BY <2>2, <2>9 DEF Pause, Retry, vars
  <2> QED  BY <1>2, <2>5, <2>6, <2>7, <2>8, <2>9 DEF Next
<1> QED  BY <1>1, <1>2

\* A request that is done has its outcome, whichever step ended it.
LEMMA SettledStep ==
    ASSUME IInv, Settled, [Next]_vars
    PROVE  Settled'
<1> USE ProviderChainAssumption DEF ProviderChainAssumption
<1> DEFINE Ends == phase' = "done" /\ outcome' # Null
           Goes == phase' \in {"calling", "pausing"}
<1>1. ASSUME NEW k, Fail(k)
      PROVE  Ends \/ Goes
  BY <1>1 DEF Fail, Try, Finish, Verdict
<1>2. ASSUME NEW n, phase = "calling", Deliver(n)
      PROVE  Ends \/ Goes
  <2>1. at # Null
    BY <1>2 DEF IInv, Loop, Busy, Asked, TypeOK
  <2> QED  BY <1>1, <1>2, <2>1 DEF Deliver, Finish
<1>3. CASE \E res \in Resource : Ask(res)
  <2>1. PICK res \in Resource : Ask(res)
    BY <1>3
  <2>2. resource' = res /\ (Ends \/ Goes)
    BY <2>1 DEF Ask, Try, Finish, Verdict
  <2> QED  BY <2>2 DEF Settled
<1>4. CASE UNCHANGED vars
  BY <1>4 DEF vars, Settled
<1>5. CASE Next /\ ~\E res \in Resource : Ask(res)
  <2>1. resource' = resource
    BY <1>5, ResourceKept
  <2>2. ASSUME Succeed
        PROVE  phase = "calling" /\ (Ends \/ Goes)
    <3>1. phase = "calling"
      BY <2>2 DEF Succeed
    <3>2. CASE Continue(Tail(todo))
      BY <3>1, <3>2 DEF Continue
    <3>3. CASE Deliver(usable)
      BY <1>2, <3>1, <3>3
    <3> QED  BY <2>2, <3>1, <3>2, <3>3 DEF Succeed
  <2>3. ASSUME NEW n \in 0..MaxHistory, List(n)
        PROVE  phase = "calling" /\ (Ends \/ Goes)
    BY <1>1, <1>2, <2>3 DEF List, Continue
  <2>4. ASSUME NEW n \in {0, 1}, Summarize(n)
        PROVE  phase = "calling" /\ (Ends \/ Goes)
    BY <1>2, <2>4 DEF Summarize, Continue
  <2>5. ASSUME NEW a \in Answer, Pause(a) \/ GiveUp(a)
        PROVE  phase = "calling" /\ (Ends \/ Goes)
    BY <1>1, <1>2, <2>5 DEF Pause, GiveUp
  <2>6. phase \in {"calling", "pausing"} /\ (Ends \/ Goes)
    <3>1. CASE Retry
      BY <3>1 DEF Retry
    <3> HIDE DEF Ends, Goes
    <3> QED  BY <1>5, <2>2, <2>3, <2>4, <2>5, <3>1 DEF Next
  <2> QED  BY <2>1, <2>6 DEF Settled
<1> QED  BY <1>3, <1>4, <1>5

\* However its providers answer, and in whatever calls, a request is a lookup: it asks
\* in turn, each provider once, until one serves, and tells the failure of all.
THEOREM LooksUpInTurnHolds == Spec => LooksUpInTurn
<1>1. Init => IInv /\ Settled /\ Lookup!Init
  <2> SUFFICES ASSUME Init PROVE Settled /\ Lookup!Init
    BY InitInv
  <2>1. resource = Null /\ Null \notin Resource
    BY ProviderChainAssumption DEF ProviderChainAssumption, Init
  <2> QED  BY <2>1 DEF Init, Settled, Lookup!Init
<1>2. IInv /\ Settled /\ [Next]_vars
        => /\ IInv' /\ Settled'
           /\ [Lookup!Next]_<<IF resource = Null THEN {} ELSE Asked, failed, outcome>>
  BY NextInv, SettledStep, LookupStep
<1> QED  BY <1>1, <1>2, PTL DEF Spec, LooksUpInTurn, Lookup!Spec
============================================================================
