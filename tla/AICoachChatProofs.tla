--------------------------- MODULE AICoachChatProofs ---------------------------
(***************************************************************************)
(* A proof that the coach's page keeps what Conversation promises, for     *)
(* every chain of models and all limits of the history.  The greeting      *)
(* never leaves the history, so that trimming it forgets the oldest turns  *)
(* only, and from the moment a question is sent until its outcome is shown *)
(* the question is the last turn, so that it is the one that a failure     *)
(* takes back.                                                             *)
(***************************************************************************)
EXTENDS AICoachChat, SequenceTheorems, WellFoundedInduction, TLAPS

Turn == Question \cup Reply \cup {Greeting}

\* The greeting comes first.
Greeted(h) == h \in Seq(Turn) /\ h # <<>> /\ h[1] = Greeting

InHand == {"sending", "replied", "failed"}

\* The question in hand is the last turn.
QuestionLast ==
    at \in InHand =>
        /\ Len(messages) >= 2
        /\ messages[Len(messages)] \in Question
        /\ messages[Len(messages)].of = asked

IInv == Greeted(messages) /\ asked \in 0..MaxAsked /\ QuestionLast

Fitting(h) == Bytes(h) <= MaxBytes /\ Len(h) <= 2 * MaxTurns + 2

\* t is the end of s.
EndOf(t, s) ==
    /\ Len(t) <= Len(s)
    /\ \A i \in 1..Len(t) : t[i] = s[Len(s) - Len(t) + i]

----------------------------------------------------------------------------
(* Sequences.                                                              *)

LEMMA SliceOf ==
    ASSUME NEW S, NEW s \in Seq(S), NEW m \in Nat \ {0}, NEW n \in 0..Len(s)
    PROVE  /\ SubSeq(s, m, n) \in Seq(S)
           /\ Len(SubSeq(s, m, n)) = IF m <= n THEN n - m + 1 ELSE 0
           /\ \A i \in 1..(n - m + 1) : SubSeq(s, m, n)[i] = s[m + i - 1]
<1>1. Len(s) \in Nat
  BY LenProperties
<1>2. \A i \in m..n : s[i] \in S
  BY <1>1, ElementOfSeq
<1> QED  BY <1>1, <1>2, SubSeqProperties

LEMMA OneOf ==
    ASSUME NEW S, NEW s \in Seq(S), NEW n \in 1..Len(s)
    PROVE  SubSeq(s, n, n) \in Seq(S) /\ Len(SubSeq(s, n, n)) = 1 /\ SubSeq(s, n, n)[1] = s[n]
<1>1. n \in Nat \ {0} /\ n \in 0..Len(s)
  BY LenProperties
<1>2. /\ SubSeq(s, n, n) \in Seq(S)
      /\ Len(SubSeq(s, n, n)) = IF n <= n THEN n - n + 1 ELSE 0
      /\ \A i \in 1..(n - n + 1) : SubSeq(s, n, n)[i] = s[n + i - 1]
  BY <1>1, SliceOf
<1>3. Len(SubSeq(s, n, n)) = 1
  BY <1>1, <1>2
<1>4. SubSeq(s, n, n)[1] = s[n + 1 - 1]
  BY <1>1, <1>2
<1> QED  BY <1>1, <1>2, <1>3, <1>4

LEMMA AfterFirst ==
    ASSUME NEW S, NEW s \in Seq(S), NEW n \in 1..Len(s), NEW t, t = SubSeq(s, 2, n)
    PROVE  /\ t \in Seq(S) /\ Len(t) = n - 1
           /\ \A i \in 1..(n - 1) : t[i] = s[i + 1]
<1>1. n \in Nat \ {0} /\ n \in 0..Len(s) /\ 2 \in Nat \ {0}
  BY LenProperties
<1>2. /\ SubSeq(s, 2, n) \in Seq(S)
      /\ Len(SubSeq(s, 2, n)) = IF 2 <= n THEN n - 2 + 1 ELSE 0
      /\ \A i \in 1..(n - 2 + 1) : SubSeq(s, 2, n)[i] = s[2 + i - 1]
  BY <1>1, SliceOf
<1>3. Len(t) = n - 1
  BY <1>1, <1>2
<1>4. ASSUME NEW i \in 1..(n - 1) PROVE t[i] = s[i + 1]
  <2>1. i \in 1..(n - 2 + 1) /\ 2 + i - 1 = i + 1
    BY <1>1
  <2> QED  BY <1>2, <2>1
<1> QED  BY <1>2, <1>3, <1>4

LEMMA FrontOf ==
    ASSUME NEW S, NEW s \in Seq(S), Len(s) >= 1, NEW t, t = SubSeq(s, 1, Len(s) - 1)
    PROVE  /\ t \in Seq(S) /\ Len(t) = Len(s) - 1
           /\ \A i \in 1..(Len(s) - 1) : t[i] = s[i]
<1> DEFINE n == Len(s) - 1
<1>1. n \in Nat /\ n \in 0..Len(s) /\ 1 \in Nat \ {0}
  BY LenProperties
<1> HIDE DEF n
<1>2. t = SubSeq(s, 1, n)
  BY DEF n
<1>3. /\ t \in Seq(S) /\ Len(t) = IF 1 <= n THEN n - 1 + 1 ELSE 0
      /\ \A i \in 1..(n - 1 + 1) : t[i] = s[1 + i - 1]
  BY <1>1, <1>2, SliceOf
<1>4. Len(t) = n
  BY <1>1, <1>3
<1>5. ASSUME NEW i \in 1..n PROVE t[i] = s[i]
  <2>1. i \in 1..(n - 1 + 1) /\ 1 + i - 1 = i
    BY <1>1
  <2> QED  BY <1>3, <2>1
<1> QED  BY <1>3, <1>4, <1>5 DEF n

LEMMA ConcatOf ==
    ASSUME NEW S, NEW s \in Seq(S), NEW t \in Seq(S), NEW u, u = s \o t
    PROVE  /\ u \in Seq(S) /\ Len(u) = Len(s) + Len(t)
           /\ \A i \in 1..Len(s) : u[i] = s[i]
           /\ \A i \in 1..Len(t) : u[Len(s) + i] = t[i]
<1>1. Len(s) \in Nat /\ Len(t) \in Nat
  BY LenProperties
<1>2. /\ s \o t \in Seq(S) /\ Len(s \o t) = Len(s) + Len(t)
      /\ \A i \in 1..(Len(s) + Len(t)) :
            (s \o t)[i] = IF i <= Len(s) THEN s[i] ELSE t[i - Len(s)]
  BY ConcatProperties
<1>3. ASSUME NEW i \in 1..Len(s) PROVE u[i] = s[i]
  BY <1>1, <1>2
<1>4. ASSUME NEW i \in 1..Len(t) PROVE u[Len(s) + i] = t[i]
  <2>1. /\ Len(s) + i \in 1..(Len(s) + Len(t)) /\ ~(Len(s) + i <= Len(s))
        /\ (Len(s) + i) - Len(s) = i
    BY <1>1
  <2> QED  BY <1>2, <2>1
<1> QED  BY <1>2, <1>3, <1>4

LEMMA OneMore ==
    ASSUME NEW a \in Nat, NEW b \in Nat, b = 0 \/ b = 1, NEW i \in 1..(a + b)
    PROVE  i \in 1..a \/ (b = 1 /\ i = a + 1)
OBVIOUS

LEMMA FromOf ==
    ASSUME NEW S, NEW s \in Seq(S), NEW k \in Nat \ {0}
    PROVE  /\ From(s, k) \in Seq(S)
           /\ Len(From(s, k)) = IF k <= Len(s) THEN Len(s) - k + 1 ELSE 0
           /\ \A i \in 1..(Len(s) - k + 1) : From(s, k)[i] = s[k + i - 1]
           /\ EndOf(From(s, k), s)
<1>1. Len(s) \in Nat
  BY LenProperties
<1>2. /\ From(s, k) \in Seq(S)
      /\ Len(From(s, k)) = IF k <= Len(s) THEN Len(s) - k + 1 ELSE 0
      /\ \A i \in 1..(Len(s) - k + 1) : From(s, k)[i] = s[k + i - 1]
  BY <1>1, SliceOf DEF From
<1>3. EndOf(From(s, k), s)
  <2>1. CASE k <= Len(s)
    BY <1>1, <1>2, <2>1 DEF EndOf
  <2>2. CASE ~(k <= Len(s))
    BY <1>1, <1>2, <2>2 DEF EndOf
  <2> QED  BY <2>1, <2>2
<1> QED  BY <1>2, <1>3

LEMMA EndOfEnd ==
    ASSUME NEW S, NEW s \in Seq(S), NEW t \in Seq(S), NEW u \in Seq(S),
           EndOf(t, s), EndOf(u, t)
    PROVE  EndOf(u, s)
<1>1. Len(s) \in Nat /\ Len(t) \in Nat /\ Len(u) \in Nat
  BY LenProperties
<1>2. Len(u) <= Len(s)
  BY <1>1 DEF EndOf
<1>3. ASSUME NEW i \in 1..Len(u)
      PROVE  u[i] = s[Len(s) - Len(u) + i]
  <2>1. /\ Len(t) - Len(u) + i \in 1..Len(t)
        /\ Len(s) - Len(t) + (Len(t) - Len(u) + i) = Len(s) - Len(u) + i
    BY <1>1 DEF EndOf
  <2>2. u[i] = t[Len(t) - Len(u) + i]
    BY DEF EndOf
  <2>3. t[Len(t) - Len(u) + i] = s[Len(s) - Len(t) + (Len(t) - Len(u) + i)]
    BY <2>1 DEF EndOf
  <2> QED  BY <2>1, <2>2, <2>3
<1> QED  BY <1>2, <1>3 DEF EndOf

\* What Conversation calls a suffix.
LEMMA EndIsSuffix ==
    ASSUME NEW S, NEW s \in Seq(S), NEW t \in Seq(S), EndOf(t, s)
    PROVE  t \in Promise!Suffixes(s)
<1>1. Len(s) \in Nat /\ Len(t) \in Nat
  BY LenProperties
<1> DEFINE k == Len(s) - Len(t) + 1
<1>2. k \in 1..(Len(s) + 1) /\ k \in Nat \ {0}
  BY <1>1 DEF EndOf
<1>3. /\ From(s, k) \in Seq(S)
      /\ Len(From(s, k)) = IF k <= Len(s) THEN Len(s) - k + 1 ELSE 0
      /\ \A i \in 1..(Len(s) - k + 1) : From(s, k)[i] = s[k + i - 1]
  BY <1>1, <1>2, FromOf
<1>4. Len(From(s, k)) = Len(t)
  BY <1>1, <1>2, <1>3
<1>5. \A i \in 1..Len(t) : From(s, k)[i] = t[i]
  <2> TAKE i \in 1..Len(t)
  <2>1. Len(s) - k + 1 = Len(t) /\ k + i - 1 = Len(s) - Len(t) + i
    BY <1>1
  <2>2. From(s, k)[i] = s[k + i - 1]
    BY <1>3, <2>1
  <2> QED  BY <2>1, <2>2 DEF EndOf
<1>6. From(s, k) = t
  BY <1>3, <1>4, <1>5, SeqEqual
<1> QED  BY <1>2, <1>6 DEF From, Promise!Suffixes

LEMMA EndOfAppend ==
    ASSUME NEW S, NEW s \in Seq(S), NEW t \in Seq(S), NEW e \in S, EndOf(t, s)
    PROVE  EndOf(Append(t, e), Append(s, e))
<1> DEFINE s1 == Append(s, e)
           t1 == Append(t, e)
<1>1. Len(s) \in Nat /\ Len(t) \in Nat /\ Len(t) <= Len(s)
  BY LenProperties DEF EndOf
<1>2. /\ Len(s1) = Len(s) + 1 /\ Len(t1) = Len(t) + 1
      /\ \A i \in 1..Len(t) : t1[i] = t[i]
      /\ \A i \in 1..Len(s) : s1[i] = s[i]
      /\ t1[Len(t) + 1] = e /\ s1[Len(s) + 1] = e
  BY AppendProperties
<1> HIDE DEF s1, t1
<1>3. ASSUME NEW i \in 1..Len(t1)
      PROVE  t1[i] = s1[Len(s1) - Len(t1) + i]
  <2>1. Len(s1) - Len(t1) + i = Len(s) - Len(t) + i
    BY <1>1, <1>2
  <2>2. CASE i = Len(t) + 1
    <3>1. Len(s) - Len(t) + i = Len(s) + 1
      BY <1>1, <2>2
    <3> QED  BY <1>2, <2>1, <2>2, <3>1
  <2>3. CASE i \in 1..Len(t)
    <3>1. Len(s) - Len(t) + i \in 1..Len(s)
      BY <1>1, <2>3
    <3>2. s1[Len(s) - Len(t) + i] = s[Len(s) - Len(t) + i]
      BY <1>2, <3>1
    <3>3. t[i] = s[Len(s) - Len(t) + i]
      BY <2>3 DEF EndOf
    <3> QED  BY <1>2, <2>1, <2>3, <3>2, <3>3
  <2>4. i = Len(t) + 1 \/ i \in 1..Len(t)
    BY <1>1, <1>2
  <2> QED  BY <2>2, <2>3, <2>4
<1>4. EndOf(t1, s1)
  BY <1>1, <1>2, <1>3 DEF EndOf
<1> QED  BY <1>4 DEF s1, t1

LEMMA LatestOf ==
    ASSUME NEW S, NEW s \in Seq(S), NEW n \in Nat
    PROVE  /\ Latest(s, n) \in Seq(S) /\ EndOf(Latest(s, n), s)
           /\ Len(Latest(s, n)) <= n
<1>1. Len(s) \in Nat
  BY LenProperties
<1>2. CASE Len(s) > n
  <2> DEFINE k == Len(s) - n + 1
  <2>1. k \in Nat \ {0} /\ (k <= Len(s) => Len(s) - k + 1 = n)
    BY <1>1, <1>2
  <2>2. Latest(s, n) = From(s, k)
    BY <1>2 DEF Latest
  <2> HIDE DEF k
  <2> QED  BY <2>1, <2>2, FromOf
<1>3. CASE ~(Len(s) > n)
  BY <1>1, <1>3 DEF Latest, EndOf
<1> QED  BY <1>2, <1>3

----------------------------------------------------------------------------
(* Sizes.                                                                  *)

LEMMA BytesOfNone == Bytes(<<>>) = 0
<1> DEFINE Sum(g) == [i \in 0..Len(<<>>) |-> IF i = 0 THEN 0 ELSE g[i - 1] + <<>>[i].size]
           w == [i \in 0..0 |-> 0]
<1>1. w = Sum(w)
  OBVIOUS
<1>2. ASSUME NEW g, g = Sum(g)
      PROVE  g[0] = 0
  BY <1>2
<1>3. Bytes(<<>>) = (CHOOSE g : g = Sum(g))[0]
  BY DEF Bytes
<1> HIDE DEF Sum
<1>4. (CHOOSE g : g = Sum(g)) = Sum(CHOOSE g : g = Sum(g))
  BY <1>1
<1> QED  BY <1>2, <1>3, <1>4

LEMMA BytesOfOne ==
    ASSUME NEW s, Len(s) = 1, s[1].size \in Nat
    PROVE  Bytes(s) = s[1].size
<1> DEFINE Sum(g) == [i \in 0..Len(s) |-> IF i = 0 THEN 0 ELSE g[i - 1] + s[i].size]
           w == [i \in 0..1 |-> IF i = 0 THEN 0 ELSE s[1].size]
<1>1. w = Sum(w)
  <2>1. \A i \in 0..1 : i = 0 \/ i = 1
    OBVIOUS
  <2>2. \A i \in 0..1 : (IF i = 0 THEN 0 ELSE s[1].size)
                           = (IF i = 0 THEN 0 ELSE w[i - 1] + s[i].size)
    BY <2>1
  <2> QED  BY <2>2
<1>2. ASSUME NEW g, g = Sum(g)
      PROVE  g[1] = s[1].size
  <2>1. g[0] = 0 /\ g[1] = g[0] + s[1].size
    BY <1>2
  <2> QED  BY <2>1
<1>3. Bytes(s) = (CHOOSE g : g = Sum(g))[1]
  BY DEF Bytes
<1> HIDE DEF Sum
<1>4. (CHOOSE g : g = Sum(g)) = Sum(CHOOSE g : g = Sum(g))
  BY <1>1
<1> QED  BY <1>2, <1>3, <1>4

\* There is a least number that is in K, or whose double is n at least.
LEMMA LeastCut ==
    ASSUME NEW n \in Nat, NEW K
    PROVE  \E k \in 0..n : /\ k \in K \/ 2 * k >= n
                           /\ \A j \in 0..(k - 1) : j \notin K
<1> DEFINE T == {k \in 0..n : k \in K \/ 2 * k >= n}
<1>1. n \in T /\ T \subseteq Nat
  OBVIOUS
<1>2. PICK x \in T : \A y \in T : ~(<<y, x>> \in OpToRel(<, Nat))
  BY <1>1, NatLessThanWellFounded, WFMin
<1>3. \A y \in T : ~(y < x)
  BY <1>1, <1>2 DEF OpToRel
<1>4. \A j \in 0..(x - 1) : j \notin K
  <2> SUFFICES ASSUME NEW j \in 0..(x - 1), j \in K
               PROVE  FALSE
    OBVIOUS
  <2>1. j \in T /\ j < x
    BY <1>1
  <2> QED  BY <1>3, <2>1
<1> QED  BY <1>4

----------------------------------------------------------------------------
(* Sums of sizes.  Bytes is a recursive function, so that what it is of a  *)
(* concatenation is proved by induction, on sets.                          *)

LEMMA Induction ==
    ASSUME NEW S, 0 \in S, \A n \in Nat : n \in S => n + 1 \in S
    PROVE  \A n \in Nat : n \in S
<1> SUFFICES ASSUME NEW m \in Nat, m \notin S
             PROVE  FALSE
  OBVIOUS
<1> DEFINE T == {n \in Nat : n \notin S}
<1>1. m \in T /\ T \subseteq Nat
  OBVIOUS
<1>2. PICK x \in T : \A y \in T : ~(<<y, x>> \in OpToRel(<, Nat))
  BY <1>1, NatLessThanWellFounded, WFMin
<1>3. \A y \in T : ~(y < x)
  BY <1>1, <1>2 DEF OpToRel
<1>4. x \in Nat /\ x \notin S /\ x # 0
  OBVIOUS
<1>5. x - 1 \in Nat /\ x - 1 < x /\ (x - 1) + 1 = x
  BY <1>4
<1>6. x - 1 \in S
  BY <1>3, <1>5
<1> QED  BY <1>4, <1>5, <1>6

\* g gives the sums of the first sizes of s.
Sums(g, s, n) ==
    /\ g \in [0..n -> Nat] /\ g[0] = 0
    /\ \A i \in 1..n : g[i] = g[i - 1] + s[i].size

LEMMA SizeOfTurn ==
    ASSUME NEW m \in Turn
    PROVE  m.size \in Nat
BY SizesAssumption, FitsAssumption DEF Turn, Question, Reply, Greeting

LEMMA SumsExist ==
    ASSUME NEW s \in Seq(Turn)
    PROVE  \E g : Sums(g, s, Len(s))
<1> DEFINE S == {n \in Nat : n <= Len(s) => \E g : Sums(g, s, n)}
<1>1. 0 \in S
  <2>1. Sums([i \in 0..0 |-> 0], s, 0)
    BY DEF Sums
  <2> QED  BY <2>1
<1>2. ASSUME NEW n \in Nat, n \in S, n + 1 <= Len(s)
      PROVE  \E g : Sums(g, s, n + 1)
  <2>1. PICK g : Sums(g, s, n)
    BY <1>2, LenProperties
  <2>2. n + 1 \in 1..Len(s)
    BY <1>2, LenProperties
  <2>3. s[n + 1] \in Turn
    BY <2>2, ElementOfSeq
  <2>4. s[n + 1].size \in Nat
    BY <2>3, SizeOfTurn
  <2> DEFINE z == s[n + 1].size
             k == [i \in 0..(n + 1) |-> IF i = n + 1 THEN g[n] + z ELSE g[i]]
  <2> HIDE DEF z
  <2>5. z \in Nat /\ g[n] \in Nat
    BY <2>1, <2>4 DEF Sums, z
  <2>6. \A i \in 0..n : k[i] = g[i] /\ g[i] \in Nat
    BY <2>1 DEF Sums
  <2>7. k[n + 1] = g[n] + z
    OBVIOUS
  <2>8. k \in [0..(n + 1) -> Nat]
    BY <2>1, <2>5 DEF Sums
  <2> HIDE DEF k
  <2>9. ASSUME NEW i \in 1..(n + 1)
        PROVE  k[i] = k[i - 1] + s[i].size
    <3>1. CASE i = n + 1
      <4>1. i - 1 = n /\ n \in 0..n
        BY <3>1
      <4> QED  BY <2>6, <2>7, <3>1, <4>1 DEF z
    <3>2. CASE i \in 1..n
      <4>1. i \in 0..n /\ i - 1 \in 0..n
        BY <3>2
      <4> QED  BY <2>1, <2>6, <3>2, <4>1 DEF Sums
    <3> QED  BY <3>1, <3>2
  <2>10. k[0] = 0
    BY <2>1, <2>6 DEF Sums
  <2>11. Sums(k, s, n + 1)
    BY <2>8, <2>9, <2>10 DEF Sums
  <2> QED  BY <2>11
<1>3. \A n \in Nat : n \in S => n + 1 \in S
  BY <1>2
<1> HIDE DEF S
<1>4. Len(s) \in S
  BY <1>1, <1>3, Induction, LenProperties
<1> QED  BY <1>4, LenProperties DEF S

LEMMA BytesAreSums ==
    ASSUME NEW s \in Seq(Turn)
    PROVE  \E g : Sums(g, s, Len(s)) /\ Bytes(s) = g[Len(s)]
<1> DEFINE Sum(g) == [i \in 0..Len(s) |-> IF i = 0 THEN 0 ELSE g[i - 1] + s[i].size]
           f == CHOOSE g : g = Sum(g)
<1>1. PICK w : Sums(w, s, Len(s))
  BY SumsExist
<1>2. w = Sum(w)
  BY <1>1, LenProperties DEF Sums
<1>3. Bytes(s) = f[Len(s)]
  BY DEF Bytes
<1> HIDE DEF Sum
<1>4. f = Sum(f)
  BY <1>2
<1> HIDE DEF f
<1>5. /\ DOMAIN f = 0..Len(s) /\ f[0] = 0
      /\ \A i \in 1..Len(s) : f[i] = f[i - 1] + s[i].size
  BY <1>4, LenProperties DEF Sum
<1> DEFINE S == {n \in Nat : n <= Len(s) => f[n] \in Nat}
<1>6. 0 \in S
  BY <1>5
<1>7. ASSUME NEW n \in Nat, n \in S, n + 1 <= Len(s)
      PROVE  f[n + 1] \in Nat
  <2>1. n + 1 \in 1..Len(s) /\ (n + 1) - 1 = n /\ f[n] \in Nat
    BY <1>7, LenProperties
  <2>2. s[n + 1].size \in Nat
    BY <2>1, ElementOfSeq, SizeOfTurn
  <2>3. f[n + 1] = f[n] + s[n + 1].size
    BY <1>5, <2>1
  <2> QED  BY <2>1, <2>2, <2>3
<1>8. \A n \in Nat : n \in S => n + 1 \in S
  BY <1>7
<1> HIDE DEF S
<1>9. \A n \in Nat : n \in S
  BY <1>6, <1>8, Induction
<1>10. \A n \in 0..Len(s) : f[n] \in Nat
  BY <1>9, LenProperties DEF S
<1>11. f \in [0..Len(s) -> Nat]
  <2>1. f = [n \in 0..Len(s) |-> f[n]]
    BY <1>4 DEF Sum
  <2> QED  BY <1>10, <2>1
<1> QED  BY <1>3, <1>5, <1>11 DEF Sums

\* f and g sum the same n sizes: f those of u from a on, g those of t.
SameSums(f, g, u, t, a, n) ==
    /\ g[0] = 0
    /\ \A i \in 0..n : f[a + i] \in Nat /\ g[i] \in Nat
    /\ \A i \in 1..n : /\ f[a + i] = f[a + (i - 1)] + u[a + i].size
                       /\ g[i] = g[i - 1] + t[i].size
                       /\ u[a + i].size = t[i].size /\ t[i].size \in Nat

\* They differ by what is at a.
LEMMA SumsShift ==
    ASSUME NEW n \in Nat, NEW a \in Nat, NEW f, NEW g, NEW u, NEW t,
           SameSums(f, g, u, t, a, n)
    PROVE  f[a + n] = f[a] + g[n]
<1> USE DEF SameSums
<1> DEFINE S == {m \in Nat : m <= n => f[a + m] = f[a] + g[m]}
<1>1. 0 \in S
  <2>1. f[a + 0] \in Nat /\ 0 \in 0..n /\ a + 0 = a
    OBVIOUS
  <2> QED  BY <2>1
<1>2. ASSUME NEW m \in Nat, m \in S, m + 1 <= n
      PROVE  f[a + (m + 1)] = f[a] + g[m + 1]
  <2>1. m + 1 \in 1..n /\ (m + 1) - 1 = m /\ m \in 0..n /\ 0 \in 0..n /\ a + 0 = a
    BY <1>2
  <2>2. f[a + m] = f[a] + g[m]
    BY <1>2, <2>1
  <2>3. f[a + (m + 1)] = f[a + m] + t[m + 1].size
    BY <2>1
  <2>4. g[m + 1] = g[m] + t[m + 1].size /\ t[m + 1].size \in Nat
    BY <2>1
  <2>5. f[a] \in Nat /\ g[m] \in Nat
    BY <2>1
  <2> QED  BY <2>2, <2>3, <2>4, <2>5
<1>3. \A m \in Nat : m \in S => m + 1 \in S
  BY <1>2
<1> HIDE DEF S
<1>4. n \in S
  BY <1>1, <1>3, Induction
<1> QED  BY <1>4 DEF S

\* The sizes of a concatenation add up.
LEMMA BytesOfConcat ==
    ASSUME NEW s \in Seq(Turn), NEW t \in Seq(Turn), NEW u, u = s \o t
    PROVE  /\ Bytes(u) = Bytes(s) + Bytes(t)
           /\ Bytes(s) \in Nat /\ Bytes(t) \in Nat
<1>1. /\ u \in Seq(Turn) /\ Len(u) = Len(s) + Len(t)
      /\ \A i \in 1..Len(s) : u[i] = s[i]
      /\ \A i \in 1..Len(t) : u[Len(s) + i] = t[i]
  BY ConcatOf
<1> DEFINE a == Len(s)
           n == Len(t)
<1>2. a \in Nat /\ n \in Nat /\ Len(u) = a + n
  BY <1>1, LenProperties
<1>3. PICK fu : Sums(fu, u, Len(u)) /\ Bytes(u) = fu[Len(u)]
  BY <1>1, BytesAreSums
<1>4. PICK fs : Sums(fs, s, Len(s)) /\ Bytes(s) = fs[Len(s)]
  BY BytesAreSums
<1>5. PICK ft : Sums(ft, t, Len(t)) /\ Bytes(t) = ft[Len(t)]
  BY BytesAreSums
<1>6. /\ \A i \in 1..a : u[i] = s[i] /\ s[i].size \in Nat
      /\ \A i \in 1..n : u[a + i] = t[i] /\ t[i].size \in Nat
  BY <1>1, ElementOfSeq, SizeOfTurn
<1>7. /\ fu \in [0..(a + n) -> Nat] /\ fu[0] = 0
      /\ \A i \in 1..(a + n) : fu[i] = fu[i - 1] + u[i].size
  BY <1>2, <1>3 DEF Sums
<1>8. /\ fs \in [0..a -> Nat] /\ fs[0] = 0
      /\ \A i \in 1..a : fs[i] = fs[i - 1] + s[i].size
  BY <1>4 DEF Sums
<1>9. /\ ft \in [0..n -> Nat] /\ ft[0] = 0
      /\ \A i \in 1..n : ft[i] = ft[i - 1] + t[i].size
  BY <1>5 DEF Sums
<1>10. Bytes(u) = fu[a + n] /\ Bytes(s) = fs[a] /\ Bytes(t) = ft[n]
  BY <1>2, <1>3, <1>4, <1>5
<1> HIDE DEF a, n
<1>11. fu[a] = fs[a]
  <2>1. \A i \in 0..a : fu[0 + i] \in Nat /\ fs[i] \in Nat
    BY <1>2, <1>7, <1>8
  <2>2. ASSUME NEW i \in 1..a
        PROVE  /\ fu[0 + i] = fu[0 + (i - 1)] + u[0 + i].size
               /\ fs[i] = fs[i - 1] + s[i].size
               /\ u[0 + i].size = s[i].size /\ s[i].size \in Nat
    <3>1. i \in 1..(a + n) /\ 0 + i = i /\ 0 + (i - 1) = i - 1
      BY <1>2
    <3> QED  BY <1>6, <1>7, <1>8, <3>1
  <2>3. SameSums(fu, fs, u, s, 0, a)
    BY <1>8, <2>1, <2>2 DEF SameSums
  <2>4. fu[0 + a] = fu[0] + fs[a]
    BY <1>2, <2>3, SumsShift
  <2> QED  BY <1>2, <1>7, <1>8, <2>4
<1>12. fu[a + n] = fu[a] + ft[n]
  <2>1. \A i \in 0..n : fu[a + i] \in Nat /\ ft[i] \in Nat
    BY <1>2, <1>7, <1>9
  <2>2. ASSUME NEW i \in 1..n
        PROVE  /\ fu[a + i] = fu[a + (i - 1)] + u[a + i].size
               /\ ft[i] = ft[i - 1] + t[i].size
               /\ u[a + i].size = t[i].size /\ t[i].size \in Nat
    <3>1. a + i \in 1..(a + n) /\ (a + i) - 1 = a + (i - 1)
      BY <1>2
    <3>2. fu[a + i] = fu[(a + i) - 1] + u[a + i].size
      BY <1>7, <3>1
    <3> QED  BY <1>6, <1>9, <3>1, <3>2
  <2>3. SameSums(fu, ft, u, t, a, n)
    BY <1>9, <2>1, <2>2 DEF SameSums
  <2> QED  BY <1>2, <2>3, SumsShift
<1>13. fs[a] \in Nat /\ ft[n] \in Nat
  BY <1>2, <1>8, <1>9
<1> QED  BY <1>10, <1>11, <1>12, <1>13

----------------------------------------------------------------------------
(* Trimming.                                                               *)

LEMMA Turns ==
    ASSUME NEW m \in Turn
    PROVE  /\ m.role = "user" <=> m \in Question
           /\ m \in Question => /\ m.size \in Nat /\ GreetingSize + m.size <= MaxBytes
                               /\ m.of \in 1..MaxAsked
BY SizesAssumption, FitsAssumption DEF Turn, Question, Reply, Greeting

\* Trimming forgets the oldest turns after the greeting, and not a question that is
\* the last turn; what it keeps is within both limits.
LEMMA TrimKeeps ==
    ASSUME NEW h, Greeted(h)
    PROVE  /\ Greeted(Trim(h)) /\ Fitting(Trim(h))
           /\ EndOf(From(Trim(h), 2), From(h, 2))
           /\ Len(h) >= 2 /\ h[Len(h)] \in Question =>
                 /\ Len(Trim(h)) >= 2
                 /\ Trim(h)[Len(Trim(h))] = h[Len(h)]
<1> USE SizesAssumption, FitsAssumption
<1>1. h \in Seq(Turn) /\ Len(h) \in Nat \ {0} /\ h[1] = Greeting /\ Greeting \in Turn
  BY EmptySeq DEF Greeted, Turn
<1>2. Opening(h) = <<Greeting>> /\ Len(Opening(h)) = 1
  <2>1. Greeting.role = "assistant"
    BY DEF Greeting
  <2>2. SubSeq(h, 1, 1) \in Seq(Turn) /\ Len(SubSeq(h, 1, 1)) = 1
        /\ SubSeq(h, 1, 1)[1] = h[1]
    BY <1>1, OneOf
  <2>3. <<Greeting>> \in Seq(Turn) /\ Len(<<Greeting>>) = 1 /\ <<Greeting>>[1] = Greeting
    BY <1>1
  <2>4. \A i \in 1..1 : SubSeq(h, 1, 1)[i] = <<Greeting>>[i]
    BY <1>1, <2>2, <2>3
  <2>5. SubSeq(h, 1, 1) = <<Greeting>>
    BY <2>2, <2>3, <2>4, SeqEqual
  <2> QED  BY <1>1, <2>1, <2>3, <2>5 DEF Opening, Greeted
<1> DEFINE first == 1 + Len(Opening(h))
           rest == From(h, first)
           ask == Pending(rest)
           asks == IF Bytes(ask) > MaxBytes THEN <<>> ELSE ask
           hello == IF Bytes(Opening(h)) + Bytes(asks) > MaxBytes THEN <<>> ELSE Opening(h)
           middle == SubSeq(h, first, Len(h) - Len(ask))
           recent == Latest(middle, 2 * MaxTurns)
           Fits(k) == Bytes(hello) + Bytes(asks) + Bytes(From(recent, 2 * k + 1)) <= MaxBytes
           cut == CHOOSE k \in 0..Len(recent) :
                     /\ Fits(k) \/ 2 * k >= Len(recent)
                     /\ \A j \in 0..(k - 1) : ~Fits(j)
           kept == From(recent, 2 * cut + 1)
<1>9. Trim(h) = hello \o kept \o asks
  BY DEF Trim
<1> HIDE DEF kept, cut, Fits, recent, middle, hello, asks, ask, rest, first
<1>3. /\ rest \in Seq(Turn) /\ Len(rest) = Len(h) - 1
      /\ \A i \in 1..Len(rest) : rest[i] = h[i + 1]
      /\ rest = From(h, 2)
  <2>1. rest = From(h, 2) /\ rest = SubSeq(h, 2, Len(h))
    BY <1>2 DEF rest, From, first
  <2>2. h \in Seq(Turn) /\ Len(h) \in 1..Len(h)
    BY <1>1
  <2>3. /\ rest \in Seq(Turn) /\ Len(rest) = Len(h) - 1
        /\ \A i \in 1..(Len(h) - 1) : rest[i] = h[i + 1]
    <3>1. rest \in Seq(Turn) /\ Len(rest) = Len(h) - 1
      BY <2>1, <2>2, AfterFirst
    <3>2. \A i \in 1..(Len(h) - 1) : rest[i] = h[i + 1]
      BY <2>1, <2>2, AfterFirst
    <3> QED  BY <3>1, <3>2
  <2> QED  BY <2>1, <2>3
<1>4. /\ ask \in Seq(Turn) /\ Len(ask) \in {0, 1} /\ Len(ask) <= Len(rest)
      /\ Len(ask) = 1 => ask[1] = h[Len(h)] /\ ask[1] \in Question
      /\ Len(ask) = 0 => ask = <<>>
      /\ Len(h) >= 2 /\ h[Len(h)] \in Question => Len(ask) = 1
  <2>1. CASE rest = <<>>
    <3>1. ask = <<>>
      BY <2>1 DEF ask, Pending
    <3>2. Len(rest) = 0 /\ Len(h) = 1
      BY <1>1, <1>3, <2>1
    <3> QED  BY <3>1, <3>2, EmptySeq
  <2>2. CASE rest # <<>>
    <3>1. Len(rest) \in Nat \ {0} /\ Len(h) >= 2 /\ rest[Len(rest)] = h[Len(h)]
      BY <1>1, <1>3, <2>2, EmptySeq
    <3>2. rest[Len(rest)] \in Turn
      BY <1>3, <3>1, ElementOfSeq
    <3>3. CASE rest[Len(rest)].role = "user"
      <4>1. ask = SubSeq(rest, Len(rest), Len(rest)) /\ Len(rest) \in 1..Len(rest)
        BY <2>2, <3>1, <3>3 DEF ask, Pending, From
      <4>2. ask \in Seq(Turn) /\ Len(ask) = 1 /\ ask[1] = rest[Len(rest)]
        BY <1>3, <4>1, OneOf
      <4> QED  BY <3>1, <3>2, <3>3, <4>2, Turns
    <3>4. CASE rest[Len(rest)].role # "user"
      <4>1. ask = <<>>
        BY <2>2, <3>4 DEF ask, Pending
      <4> QED  BY <3>1, <3>2, <3>4, <4>1, Turns, EmptySeq
    <3> QED  BY <3>3, <3>4
  <2> QED  BY <2>1, <2>2
<1>5. Bytes(ask) \in Nat /\ GreetingSize + Bytes(ask) <= MaxBytes
  <2>1. CASE Len(ask) = 1
    <3>1. ask[1] \in Question /\ ask[1] \in Turn
      BY <1>4, <2>1 DEF Turn
    <3> QED  BY <2>1, <3>1, BytesOfOne, Turns
  <2>2. CASE Len(ask) = 0
    <3>1. Bytes(ask) = 0
      BY <1>4, <2>2, BytesOfNone
    <3> QED  BY <3>1
  <2> QED  BY <1>4, <2>1, <2>2
<1>6. asks = ask /\ hello = <<Greeting>> /\ Bytes(hello) = GreetingSize
  <2>1. Len(<<Greeting>>) = 1 /\ <<Greeting>>[1].size = GreetingSize
    BY DEF Greeting
  <2>2. Bytes(Opening(h)) = GreetingSize
    BY <1>2, <2>1, BytesOfOne
  <2>3. asks = ask
    BY <1>5 DEF asks
  <2> QED  BY <1>2, <1>5, <2>2, <2>3 DEF hello
<1>0. /\ Len(h) \in Nat \ {0} /\ Len(ask) \in Nat /\ Len(ask) <= Len(h) - 1
      /\ Len(ask) = 0 \/ Len(ask) = 1
  BY <1>1, <1>3, <1>4
<1>7. /\ middle \in Seq(Turn) /\ Len(middle) = Len(h) - 1 - Len(ask)
      /\ \A i \in 1..Len(middle) : middle[i] = h[i + 1]
  <2>1. Len(h) - Len(ask) \in 1..Len(h)
    BY <1>0
  <2>2. middle = SubSeq(h, 2, Len(h) - Len(ask))
    BY <1>2 DEF middle, first
  <2>3. /\ middle \in Seq(Turn) /\ Len(middle) = Len(h) - Len(ask) - 1
        /\ \A i \in 1..(Len(h) - Len(ask) - 1) : middle[i] = h[i + 1]
    <3>1. middle \in Seq(Turn) /\ Len(middle) = Len(h) - Len(ask) - 1
      BY <1>1, <2>1, <2>2, AfterFirst
    <3>2. \A i \in 1..(Len(h) - Len(ask) - 1) : middle[i] = h[i + 1]
      BY <1>1, <2>1, <2>2, AfterFirst
    <3> QED  BY <3>1, <3>2
  <2>4. Len(h) - Len(ask) - 1 = Len(h) - 1 - Len(ask)
    BY <1>0
  <2> QED  BY <2>3, <2>4
<1>8. /\ recent \in Seq(Turn) /\ EndOf(recent, middle) /\ Len(recent) \in Nat
      /\ Len(recent) <= 2 * MaxTurns
  <2>1. 2 * MaxTurns \in Nat
    OBVIOUS
  <2>2. recent \in Seq(Turn) /\ EndOf(recent, middle) /\ Len(recent) <= 2 * MaxTurns
    BY <1>7, <2>1, LatestOf DEF recent
  <2> QED  BY <2>2, LenProperties
<1>10. cut \in 0..Len(recent) /\ (Fits(cut) \/ 2 * cut >= Len(recent))
  <2> DEFINE K == {k \in 0..Len(recent) : Fits(k)}
  <2>1. PICK k \in 0..Len(recent) : /\ k \in K \/ 2 * k >= Len(recent)
                                    /\ \A j \in 0..(k - 1) : j \notin K
    BY <1>8, LeastCut
  <2>2. Fits(k) \/ 2 * k >= Len(recent)
    BY <2>1
  <2>3. ASSUME NEW j \in 0..(k - 1) PROVE ~Fits(j)
    <3>1. j \in 0..Len(recent)
      BY <1>8
    <3> QED  BY <2>1, <3>1
  <2> QED  BY <2>2, <2>3 DEF cut
<1>11. /\ kept \in Seq(Turn) /\ Len(kept) \in Nat /\ EndOf(kept, middle)
       /\ Len(kept) <= 2 * MaxTurns
  <2>1. 2 * cut + 1 \in Nat \ {0}
    BY <1>8, <1>10
  <2>2. kept \in Seq(Turn) /\ EndOf(kept, recent)
    BY <1>8, <2>1, FromOf DEF kept
  <2>3. EndOf(kept, middle)
    BY <1>7, <1>8, <2>2, EndOfEnd
  <2>4. Len(kept) \in Nat /\ Len(kept) <= Len(recent)
    BY <2>2, LenProperties DEF EndOf
  <2> QED  BY <1>8, <2>2, <2>3, <2>4
<1>12. Len(kept) <= Len(h) - 1 - Len(ask)
  BY <1>7, <1>11 DEF EndOf
<1>13. ASSUME NEW i \in 1..Len(kept)
       PROVE  kept[i] = h[Len(h) - Len(ask) - Len(kept) + i]
  <2>1. kept[i] = middle[Len(middle) - Len(kept) + i]
    BY <1>11 DEF EndOf
  <2>2. Len(middle) - Len(kept) + i \in 1..Len(middle)
    BY <1>0, <1>7, <1>11, <1>12
  <2>3. middle[Len(middle) - Len(kept) + i] = h[Len(middle) - Len(kept) + i + 1]
    BY <1>7, <2>2
  <2>4. Len(middle) - Len(kept) + i + 1 = Len(h) - Len(ask) - Len(kept) + i
    BY <1>0, <1>7, <1>11
  <2> QED  BY <2>1, <2>3, <2>4
<1> DEFINE t == Trim(h)
<1>14. /\ t \in Seq(Turn) /\ Len(t) = 1 + Len(kept) + Len(ask) /\ t[1] = Greeting
       /\ \A i \in 1..Len(kept) : t[1 + i] = kept[i]
       /\ Len(ask) = 1 => t[Len(t)] = ask[1]
  <2> DEFINE g == <<Greeting>>
             gk == g \o kept
  <2>1. g \in Seq(Turn) /\ Len(g) = 1 /\ g[1] = Greeting
    BY <1>1
  <2> HIDE DEF g
  <2>2. /\ gk \in Seq(Turn) /\ Len(gk) = 1 + Len(kept) /\ gk[1] = Greeting
        /\ \A i \in 1..Len(kept) : gk[1 + i] = kept[i]
    <3> HIDE DEF gk
    <3>1. g \in Seq(Turn) /\ kept \in Seq(Turn) /\ gk = g \o kept
      BY <1>11, <2>1 DEF gk
    <3>2. /\ gk \in Seq(Turn) /\ Len(gk) = Len(g) + Len(kept)
          /\ \A i \in 1..Len(g) : gk[i] = g[i]
          /\ \A i \in 1..Len(kept) : gk[Len(g) + i] = kept[i]
      BY <3>1, ConcatOf
    <3>3. 1 \in 1..Len(g)
      BY <2>1
    <3> QED  BY <2>1, <3>2, <3>3
  <2> HIDE DEF gk
  <2>3. /\ t \in Seq(Turn) /\ Len(t) = Len(gk) + Len(ask)
        /\ \A i \in 1..Len(gk) : t[i] = gk[i]
        /\ \A i \in 1..Len(ask) : t[Len(gk) + i] = ask[i]
    <3>1. gk \in Seq(Turn) /\ ask \in Seq(Turn) /\ t = gk \o ask
      BY <1>4, <1>6, <1>9, <2>2 DEF gk, g
    <3> HIDE DEF t
    <3>2. t \in Seq(Turn) /\ Len(t) = Len(gk) + Len(ask)
      BY <3>1, ConcatOf
    <3>3. \A i \in 1..Len(gk) : t[i] = gk[i]
      BY <3>1, ConcatOf
    <3>4. \A i \in 1..Len(ask) : t[Len(gk) + i] = ask[i]
      BY <3>1, ConcatOf
    <3> QED  BY <3>2, <3>3, <3>4
  <2> HIDE DEF t
  <2>4. Len(t) = 1 + Len(kept) + Len(ask)
    BY <2>2, <2>3
  <2>5. t[1] = Greeting
    <3>1. 1 \in 1..Len(gk)
      BY <1>11, <2>2
    <3> QED  BY <2>2, <2>3, <3>1
  <2>6. ASSUME NEW i \in 1..Len(kept) PROVE t[1 + i] = kept[i]
    <3>1. 1 + i \in 1..Len(gk)
      BY <1>11, <2>2
    <3> QED  BY <2>2, <2>3, <3>1
  <2>7. ASSUME Len(ask) = 1 PROVE t[Len(t)] = ask[1]
    <3>1. 1 \in 1..Len(ask) /\ Len(t) = Len(gk) + 1
      BY <2>3, <2>7
    <3> QED  BY <2>3, <3>1
  <2> QED  BY <2>3, <2>4, <2>5, <2>6, <2>7
<1> HIDE DEF t
<1>15. Greeted(t)
  BY <1>4, <1>11, <1>14 DEF Greeted
<1>16. ASSUME Len(h) >= 2, h[Len(h)] \in Question
       PROVE  Len(t) >= 2 /\ t[Len(t)] = h[Len(h)]
  BY <1>0, <1>4, <1>11, <1>14, <1>16
<1>17. EndOf(From(t, 2), rest)
  <2>2. /\ Len(From(t, 2)) = Len(t) - 1
        /\ \A i \in 1..(Len(t) - 1) : From(t, 2)[i] = t[i + 1]
    <3>1. Len(t) \in 1..Len(t) /\ From(t, 2) = SubSeq(t, 2, Len(t))
      BY <1>0, <1>11, <1>14 DEF From
    <3> QED  BY <1>14, <3>1, AfterFirst
  <2>3. Len(From(t, 2)) = Len(kept) + Len(ask)
    BY <1>0, <1>11, <1>14, <2>2
  <2>4. Len(From(t, 2)) <= Len(rest)
    BY <1>0, <1>3, <1>11, <1>12, <2>3
  <2>5. ASSUME NEW i \in 1..Len(From(t, 2))
        PROVE  From(t, 2)[i] = rest[Len(rest) - Len(From(t, 2)) + i]
    <3>1. i \in 1..(Len(kept) + Len(ask)) /\ From(t, 2)[i] = t[1 + i]
      <4>1. i \in 1..(Len(t) - 1) /\ i + 1 = 1 + i
        BY <1>0, <1>11, <1>14, <2>3
      <4> QED  BY <2>2, <2>3, <4>1
    <3> DEFINE j == Len(rest) - (Len(kept) + Len(ask)) + i
    <3>2. j \in 1..Len(rest) /\ j + 1 = Len(h) - Len(ask) - Len(kept) + i
      BY <1>0, <1>3, <1>11, <1>12, <3>1
    <3>3. rest[j] = h[Len(h) - Len(ask) - Len(kept) + i]
      BY <1>3, <3>2
    <3>4. CASE i \in 1..Len(kept)
      <4>1. t[1 + i] = h[Len(h) - Len(ask) - Len(kept) + i]
        BY <1>13, <1>14, <3>4
      <4> QED  BY <2>3, <3>1, <3>3, <4>1
    <3>5. CASE Len(ask) = 1 /\ i = Len(kept) + 1
      <4>1. Len(ask) = 1 /\ 1 + i = Len(t) /\ Len(h) - Len(ask) - Len(kept) + i = Len(h)
        BY <1>0, <1>11, <1>14, <3>5
      <4>2. t[1 + i] = h[Len(h)]
        BY <1>4, <1>14, <4>1
      <4> QED  BY <2>3, <3>1, <3>3, <4>1, <4>2
    <3>6. i \in 1..Len(kept) \/ (Len(ask) = 1 /\ i = Len(kept) + 1)
      BY <1>0, <1>11, <3>1, OneMore
    <3> QED  BY <3>4, <3>5, <3>6
  <2> QED  BY <2>4, <2>5 DEF EndOf
<1>18. Bytes(kept) \in Nat /\ GreetingSize + Bytes(ask) + Bytes(kept) <= MaxBytes
  <2>1. Bytes(kept) \in Nat
    BY <1>11, BytesOfConcat
  <2>2. CASE Fits(cut)
    <3>1. GreetingSize + Bytes(ask) + Bytes(kept) <= MaxBytes
      BY <1>6, <2>2 DEF Fits, kept
    <3> QED  BY <2>1, <3>1
  <2>3. CASE 2 * cut >= Len(recent)
    <3>1. 2 * cut + 1 \in Nat \ {0} /\ ~(2 * cut + 1 <= Len(recent))
      BY <1>8, <1>10, <2>3
    <3>2. Len(kept) = 0
      BY <1>8, <3>1, FromOf DEF kept
    <3>3. Bytes(kept) = 0
      BY <1>11, <3>2, EmptySeq, BytesOfNone
    <3> QED  BY <1>5, <3>3
  <2> QED  BY <1>10, <2>2, <2>3
<1>19. Bytes(t) = GreetingSize + Bytes(ask) + Bytes(kept)
  <2> DEFINE gk == hello \o kept
  <2>1. hello \in Seq(Turn) /\ t = gk \o ask
    BY <1>1, <1>6, <1>9 DEF t
  <2>2. gk \in Seq(Turn) /\ Bytes(gk) = GreetingSize + Bytes(kept)
    <3> HIDE DEF gk
    <3>1. gk = hello \o kept
      BY DEF gk
    <3>2. gk \in Seq(Turn)
      BY <1>11, <2>1, <3>1, ConcatOf
    <3>3. Bytes(gk) = Bytes(hello) + Bytes(kept)
      BY <1>11, <2>1, <3>1, BytesOfConcat
    <3> QED  BY <1>6, <3>2, <3>3
  <2> HIDE DEF gk
  <2>3. Bytes(t) = Bytes(gk) + Bytes(ask)
    BY <1>4, <2>1, <2>2, BytesOfConcat
  <2> QED  BY <1>5, <1>18, <2>2, <2>3
<1>20. Fitting(t)
  <2> DEFINE m == 2 * MaxTurns
  <2>1. m \in Nat /\ Len(kept) <= m /\ Len(kept) \in Nat
    BY <1>11
  <2>2. Len(t) = 1 + Len(kept) + Len(ask)
    BY <1>14
  <2> HIDE DEF m
  <2>3. \A a, b \in Nat : a <= m /\ (b = 0 \/ b = 1) => 1 + a + b <= m + 2
    BY <2>1
  <2>4. 1 + Len(kept) + Len(ask) <= m + 2
    BY <1>0, <2>1, <2>3
  <2>5. Len(t) <= m + 2
    BY <2>2, <2>4
  <2> QED  BY <1>18, <1>19, <2>5 DEF Fitting, m
<1> QED  BY <1>3, <1>15, <1>16, <1>17, <1>20 DEF t

----------------------------------------------------------------------------
(* The page.                                                               *)

LEMMA TalkOf ==
    ASSUME NEW h, Greeted(h)
    PROVE  /\ Len(h) \in Nat \ {0} /\ From(h, 2) \in Seq(Turn)
           /\ Len(From(h, 2)) = Len(h) - 1
           /\ \A i \in 1..(Len(h) - 1) : From(h, 2)[i] = h[i + 1]
<1>1. h \in Seq(Turn) /\ Len(h) \in Nat \ {0}
  BY EmptySeq DEF Greeted
<1>2. Len(h) \in 1..Len(h) /\ From(h, 2) = SubSeq(h, 2, Len(h))
  BY <1>1 DEF From
<1> QED  BY <1>1, <1>2, AfterFirst

\* A turn is added to the history and to the talk.
LEMMA AppendKeeps ==
    ASSUME NEW h, Greeted(h), NEW m \in Turn
    PROVE  /\ Greeted(Append(h, m)) /\ Len(Append(h, m)) >= 2
           /\ Append(h, m)[Len(Append(h, m))] = m
           /\ From(Append(h, m), 2) = Append(From(h, 2), m)
<1> DEFINE a == Append(h, m)
           f == From(h, 2)
           b == Append(f, m)
           c == From(a, 2)
<1>1. /\ h \in Seq(Turn) /\ Len(h) \in Nat \ {0} /\ h[1] = Greeting
      /\ f \in Seq(Turn) /\ Len(f) = Len(h) - 1
      /\ \A i \in 1..(Len(h) - 1) : f[i] = h[i + 1]
  BY TalkOf DEF Greeted
<1> HIDE DEF f
<1>2. /\ a \in Seq(Turn) /\ a # <<>> /\ Len(a) = Len(h) + 1
      /\ \A i \in 1..Len(h) : a[i] = h[i]
      /\ a[Len(h) + 1] = m
  BY <1>1, AppendProperties
<1>3. /\ b \in Seq(Turn) /\ Len(b) = Len(f) + 1
      /\ \A i \in 1..Len(f) : b[i] = f[i]
      /\ b[Len(f) + 1] = m
  BY <1>1, AppendProperties
<1> HIDE DEF a, b
<1>4. Greeted(a)
  <2>1. 1 \in 1..Len(h)
    BY <1>1
  <2> QED  BY <1>1, <1>2, <2>1 DEF Greeted
<1>5. /\ c \in Seq(Turn) /\ Len(c) = Len(a) - 1
      /\ \A i \in 1..(Len(a) - 1) : c[i] = a[i + 1]
  BY <1>4, TalkOf
<1> HIDE DEF c
<1>6. Len(c) = Len(b) /\ Len(b) = Len(h)
  BY <1>1, <1>2, <1>3, <1>5
<1>7. ASSUME NEW i \in 1..Len(c) PROVE c[i] = b[i]
  <2>1. c[i] = a[i + 1]
    BY <1>1, <1>2, <1>5
  <2>2. CASE i = Len(h)
    BY <1>1, <1>2, <1>3, <2>1, <2>2
  <2>3. CASE i \in 1..(Len(h) - 1)
    <3>1. i \in 1..Len(f) /\ i + 1 \in 1..Len(h)
      BY <1>1, <2>3
    <3> QED  BY <1>1, <1>2, <1>3, <2>1, <2>3, <3>1
  <2>4. i = Len(h) \/ i \in 1..(Len(h) - 1)
    BY <1>1, <1>6
  <2> QED  BY <2>2, <2>3, <2>4
<1>8. c = b
  BY <1>3, <1>5, <1>6, <1>7, SeqEqual
<1> QED  BY <1>1, <1>2, <1>4, <1>8 DEF a, b, c, f

\* Taking the last turn back.
LEMMA PopKeeps ==
    ASSUME NEW h, Greeted(h), Len(h) >= 2, NEW p, p = SubSeq(h, 1, Len(h) - 1)
    PROVE  /\ Greeted(p)
           /\ From(p, 2) = SubSeq(From(h, 2), 1, Len(From(h, 2)) - 1)
<1> DEFINE f == From(h, 2)
           g == From(p, 2)
           q == SubSeq(f, 1, Len(f) - 1)
<1>1. /\ h \in Seq(Turn) /\ Len(h) \in Nat \ {0} /\ h[1] = Greeting
      /\ f \in Seq(Turn) /\ Len(f) = Len(h) - 1
      /\ \A i \in 1..(Len(h) - 1) : f[i] = h[i + 1]
  BY TalkOf DEF Greeted
<1> HIDE DEF f
<1>2. /\ p \in Seq(Turn) /\ Len(p) = Len(h) - 1
      /\ \A i \in 1..(Len(h) - 1) : p[i] = h[i]
  BY <1>1, FrontOf
<1>3. /\ q \in Seq(Turn) /\ Len(q) = Len(f) - 1
      /\ \A i \in 1..(Len(f) - 1) : q[i] = f[i]
  BY <1>1, FrontOf
<1> HIDE DEF q
<1>4. Greeted(p)
  <2>1. 1 \in 1..(Len(h) - 1) /\ p # <<>>
    BY <1>1, <1>2
  <2> QED  BY <1>1, <1>2, <2>1 DEF Greeted
<1>5. /\ g \in Seq(Turn) /\ Len(g) = Len(p) - 1
      /\ \A i \in 1..(Len(p) - 1) : g[i] = p[i + 1]
  BY <1>4, TalkOf
<1> HIDE DEF g
<1>6. Len(g) = Len(q)
  BY <1>1, <1>2, <1>3, <1>5
<1>7. ASSUME NEW i \in 1..Len(g) PROVE g[i] = q[i]
  <2>1. /\ i \in 1..(Len(p) - 1) /\ i + 1 \in 1..(Len(h) - 1)
        /\ i \in 1..(Len(f) - 1) /\ i \in 1..(Len(h) - 1)
    BY <1>1, <1>2, <1>5
  <2> QED  BY <1>1, <1>2, <1>3, <1>5, <2>1
<1>8. g = q
  BY <1>3, <1>5, <1>6, <1>7, SeqEqual
<1> QED  BY <1>4, <1>8 DEF g, q, f
----------------------------------------------------------------------------
(* Every step is one of the conversation.                                  *)

LEMMA InitKeeps == Init => IInv /\ Promise!Init
<1> SUFFICES ASSUME Init PROVE IInv /\ Promise!Init
  OBVIOUS
<1>1. messages = <<Greeting>> /\ at \notin InHand /\ asked = 0
  BY DEF Init, InHand
<1>2. Greeted(messages)
  <2>1. Greeting \in Turn
    BY DEF Turn
  <2>2. <<Greeting>> \in Seq(Turn) /\ <<Greeting>> # <<>> /\ <<Greeting>>[1] = Greeting
    BY <2>1
  <2> QED  BY <1>1, <2>2 DEF Greeted
<1>3. Talk = <<>>
  <2>1. Len(messages) = 1
    BY <1>1
  <2>2. Talk \in Seq(Turn) /\ Len(Talk) = 0
    BY <1>2, <2>1, TalkOf DEF Talk
  <2> QED  BY <2>2, EmptySeq
<1>4. MaxAsked \in Nat
  BY FitsAssumption
<1> QED  BY <1>1, <1>2, <1>3, <1>4 DEF IInv, QuestionLast, InHand, Promise!Init

\* A run of the page that leaves no question in hand and only shortens the talk.
LEMMA ForgetStep ==
    ASSUME IInv, Greeted(messages'), EndOf(Talk', Talk), at' \notin InHand, asked' = asked
    PROVE  IInv' /\ Promise!Forget
<1>1. Talk \in Seq(Turn) /\ Talk' \in Seq(Turn)
  BY TalkOf DEF IInv, Talk
<1>2. Talk' \in Promise!Suffixes(Talk)
  BY <1>1, EndIsSuffix
<1> QED  BY <1>2 DEF IInv, QuestionLast, InHand, Promise!Forget

LEMMA ResetStep == IInv /\ Reset => IInv' /\ Promise!Forget
<1> SUFFICES ASSUME IInv, Reset PROVE IInv' /\ Promise!Forget
  OBVIOUS
<1>1. messages' = <<Greeting>> /\ at' \notin InHand /\ asked' = asked
  BY DEF Reset, InHand, client
<1>2. Greeted(messages') /\ Len(messages') = 1
  <2>1. Greeting \in Turn
    BY DEF Turn
  <2>2. /\ <<Greeting>> \in Seq(Turn) /\ <<Greeting>> # <<>>
        /\ <<Greeting>>[1] = Greeting /\ Len(<<Greeting>>) = 1
    BY <2>1
  <2> QED  BY <1>1, <2>2 DEF Greeted
<1>3. Len(Talk') = 0 /\ Len(Talk) \in Nat
  <2>1. Len(Talk') = Len(messages') - 1
    BY <1>2, TalkOf DEF Talk
  <2>2. Talk \in Seq(Turn)
    BY TalkOf DEF Talk, IInv
  <2> QED  BY <1>2, <2>1, <2>2, LenProperties
<1>4. EndOf(Talk', Talk)
  BY <1>3 DEF EndOf
<1> QED  BY <1>1, <1>2, <1>4, ForgetStep

LEMMA RenderStep == IInv /\ (Starter \/ Render) => IInv' /\ Promise!Forget
<1> SUFFICES ASSUME IInv, Starter \/ Render PROVE IInv' /\ Promise!Forget
  OBVIOUS
<1>1. messages' = Trim(messages) /\ at' \notin InHand /\ asked' = asked
  BY DEF Starter, Render, InHand, client
<1>2. Greeted(messages') /\ EndOf(Talk', Talk)
  BY <1>1, TrimKeeps DEF IInv, Talk
<1> QED  BY <1>1, <1>2, ForgetStep

LEMMA AskStep ==
    ASSUME IInv, NEW size \in Sizes, Ask(size)
    PROVE  IInv' /\ Promise!Ask
<1> DEFINE q == [role |-> "user", of |-> asked', size |-> size]
           shown == Trim(messages)
           longer == Append(shown, q)
<1>1. /\ asked' = asked + 1 /\ asked' \in 1..MaxAsked /\ asked' \in 0..MaxAsked
      /\ messages' = Trim(longer) /\ at' = "sending" /\ at' \in InHand
  BY FitsAssumption DEF IInv, Ask, InHand
<1>2. q \in Question /\ q \in Turn /\ q.of = asked'
  BY <1>1 DEF Question, Turn
<1> HIDE DEF q, shown
<1>3. Greeted(shown) /\ EndOf(From(shown, 2), Talk)
  BY TrimKeeps DEF IInv, Talk, shown
<1>4. /\ Greeted(longer) /\ Len(longer) >= 2 /\ longer[Len(longer)] = q
      /\ From(longer, 2) = Append(From(shown, 2), q)
  BY <1>2, <1>3, AppendKeeps
<1> HIDE DEF longer
<1>5. /\ Greeted(messages') /\ EndOf(Talk', From(longer, 2))
      /\ Len(messages') >= 2 /\ messages'[Len(messages')] = q
  BY <1>1, <1>2, <1>4, TrimKeeps DEF Talk
<1>6. IInv'
  BY <1>1, <1>2, <1>5 DEF IInv, QuestionLast
<1>7. /\ Talk \in Seq(Turn) /\ From(shown, 2) \in Seq(Turn)
      /\ Talk' \in Seq(Turn) /\ Len(Talk') = Len(messages') - 1
      /\ Len(messages') \in Nat
  BY <1>3, <1>5, TalkOf DEF IInv, Talk
<1>8. Talk' # <<>>
  <2>1. Len(Talk') # 0
    BY <1>5, <1>7
  <2> QED  BY <2>1
<1>9. Talk' \in Promise!Suffixes(Append(Talk, q))
  <2>1. EndOf(Append(From(shown, 2), q), Append(Talk, q))
    BY <1>2, <1>3, <1>7, EndOfAppend
  <2>2. Append(From(shown, 2), q) \in Seq(Turn) /\ Append(Talk, q) \in Seq(Turn)
    BY <1>2, <1>7, AppendProperties
  <2>3. EndOf(Talk', Append(Talk, q))
    BY <1>4, <1>5, <1>7, <2>1, <2>2, EndOfEnd
  <2> QED  BY <1>7, <2>2, <2>3, EndIsSuffix
<1> QED  BY <1>1, <1>2, <1>6, <1>8, <1>9 DEF Promise!Ask, InHand

LEMMA ShowStep ==
    ASSUME IInv, NEW size \in ReplySizes, Show(size)
    PROVE  IInv' /\ Promise!Answer
<1> DEFINE reply == [role |-> "assistant", of |-> asked, size |-> size]
           longer == Append(messages, reply)
           q == Talk[Len(Talk)]
<1>1. /\ at = "replied" /\ at \in InHand /\ at' \notin InHand
      /\ messages' = Trim(longer) /\ asked' = asked
  BY DEF Show, InHand, client
<1>2. /\ Greeted(messages) /\ Len(messages) >= 2
      /\ messages[Len(messages)] \in Question /\ messages[Len(messages)].of = asked
  BY <1>1 DEF IInv, QuestionLast
<1>3. asked \in 1..MaxAsked
  BY <1>2 DEF Question
<1>4. reply \in Reply /\ reply \in Turn /\ reply.of = asked
  BY <1>3 DEF Reply, Turn
<1>5. /\ Talk \in Seq(Turn) /\ Len(Talk) = Len(messages) - 1 /\ Len(messages) \in Nat
      /\ \A i \in 1..(Len(messages) - 1) : Talk[i] = messages[i + 1]
  BY <1>2, TalkOf DEF Talk
<1>6. Talk # <<>> /\ q.of = asked
  <2>1. Len(Talk) # 0 /\ Len(Talk) \in 1..(Len(messages) - 1) /\ Len(Talk) + 1 = Len(messages)
    BY <1>2, <1>5
  <2>2. Talk[Len(Talk)] = messages[Len(Talk) + 1]
    BY <1>5, <2>1
  <2> QED  BY <1>2, <2>1, <2>2
<1> HIDE DEF reply, q
<1>7. /\ Greeted(longer) /\ From(longer, 2) = Append(Talk, reply)
  BY <1>2, <1>4, AppendKeeps DEF Talk
<1> HIDE DEF longer
<1>8. Greeted(messages') /\ EndOf(Talk', From(longer, 2))
  BY <1>1, <1>7, TrimKeeps DEF Talk
<1>9. IInv'
  BY <1>1, <1>8 DEF IInv, QuestionLast
<1>10. Talk' \in Promise!Suffixes(Append(Talk, reply))
  <2>1. Append(Talk, reply) \in Seq(Turn) /\ Talk' \in Seq(Turn)
    <3>1. Append(Talk, reply) \in Seq(Turn)
      BY <1>4, <1>5, AppendProperties
    <3>2. Talk' \in Seq(Turn)
      BY <1>8, TalkOf DEF Talk
    <3> QED  BY <3>1, <3>2
  <2> QED  BY <1>7, <1>8, <2>1, EndIsSuffix
<1>11. reply \in {a \in Reply : a.of = q.of}
  BY <1>4, <1>6
<1> QED  BY <1>1, <1>6, <1>9, <1>10, <1>11 DEF Promise!Answer, InHand, q

LEMMA FailStep == IInv /\ Fail => IInv' /\ Promise!Withdraw
<1> SUFFICES ASSUME IInv, Fail PROVE IInv' /\ Promise!Withdraw
  OBVIOUS
<1>1. /\ at = "failed" /\ at \in InHand /\ at' \notin InHand /\ asked' = asked
      /\ messages' = SubSeq(messages, 1, Len(messages) - 1)
  BY DEF Fail, InHand, client
<1>2. Greeted(messages) /\ Len(messages) >= 2
  BY <1>1 DEF IInv, QuestionLast
<1>3. Greeted(messages') /\ Talk' = SubSeq(Talk, 1, Len(Talk) - 1)
  BY <1>1, <1>2, PopKeeps DEF Talk
<1>4. Talk # <<>>
  <2>1. Len(Talk) = Len(messages) - 1 /\ Len(messages) \in Nat
    BY <1>2, TalkOf DEF Talk
  <2>2. Len(Talk) # 0
    BY <1>2, <2>1
  <2> QED  BY <2>2
<1> QED  BY <1>1, <1>3, <1>4 DEF IInv, QuestionLast, Promise!Withdraw, InHand

\* While the chain is tried the history stays and so does the question in hand.
LEMMA AttemptStep ==
    IInv /\ (Attempt \/ UNCHANGED vars)
        => IInv' /\ UNCHANGED <<Talk, at \in InHand>>
<1> SUFFICES ASSUME IInv, Attempt \/ UNCHANGED vars
             PROVE  IInv' /\ UNCHANGED <<Talk, at \in InHand>>
  OBVIOUS
<1>1. messages' = messages /\ asked' = asked
  BY DEF Attempt, Replies, Refused, Missing, Transient, vars, chat
<1>2. (at' \in InHand) = (at \in InHand)
  <2>1. CASE UNCHANGED vars
    BY <2>1 DEF vars
  <2>2. CASE Attempt
    <3>1. at = "sending"
      BY <2>2 DEF Attempt, Replies, Refused, Missing, Transient
    <3>2. at' \in {"sending", "replied", "failed"}
      BY <2>2, <3>1 DEF Attempt, Replies, Refused, Missing, Transient, NextModel
    <3> QED  BY <3>1, <3>2 DEF InHand
  <2> QED  BY <2>1, <2>2
<1>3. Talk' = Talk
  BY <1>1 DEF Talk, From
<1>4. IInv'
  BY <1>1, <1>2 DEF IInv, QuestionLast, Greeted
<1> QED  BY <1>2, <1>3, <1>4

LEMMA NextKeeps ==
    IInv /\ [Next]_vars => IInv' /\ [Promise!Next]_<<Talk, at \in InHand>>
<1> SUFFICES ASSUME IInv, [Next]_vars
             PROVE  IInv' /\ [Promise!Next]_<<Talk, at \in InHand>>
  OBVIOUS
<1>1. CASE Reset
  BY <1>1, ResetStep DEF Promise!Next
<1>2. CASE Starter \/ Render
  BY <1>2, RenderStep DEF Promise!Next
<1>3. CASE Fail
  BY <1>3, FailStep DEF Promise!Next
<1>4. ASSUME NEW size \in Sizes, Ask(size)
      PROVE  IInv' /\ Promise!Next
  BY <1>4, AskStep DEF Promise!Next
<1>5. ASSUME NEW size \in ReplySizes, Show(size)
      PROVE  IInv' /\ Promise!Next
  BY <1>5, ShowStep DEF Promise!Next
<1>6. CASE Attempt \/ UNCHANGED vars
  BY <1>6, AttemptStep
<1> QED  BY <1>1, <1>2, <1>3, <1>4, <1>5, <1>6 DEF Next

\* Whatever the limits of the history and the chain of models, the page implements
\* Conversation: the turns that the user sees are in order, an answer stands after its
\* own question, only the oldest are forgotten, and the pop of a failed call takes back
\* the question that failed.
THEOREM ChatKeepsConversation == Spec => KeepsConversation
<1>1. Init => IInv /\ Promise!Init
  BY InitKeeps
<1>2. IInv /\ [Next]_vars
        => IInv' /\ [Promise!Next]_<<Talk, at \in {"sending", "replied", "failed"}>>
  BY NextKeeps DEF InHand
<1> QED  BY <1>1, <1>2, PTL DEF Spec, KeepsConversation, Promise!Spec

----------------------------------------------------------------------------
(* The state stays within its types, the history within its limits.        *)

\* The oldest turn stays and the last one goes, with its bytes.
LEMMA PopFits ==
    ASSUME NEW h \in Seq(Turn), Len(h) >= 2, Fitting(h),
           NEW p, p = SubSeq(h, 1, Len(h) - 1)
    PROVE  p \in Seq(Turn) /\ Fitting(p)
<1> DEFINE n == Len(h)
           e == SubSeq(h, n, n)
           u == p \o e
<1>1. n \in Nat /\ n \in 1..n
  BY LenProperties
<1>2. /\ p \in Seq(Turn) /\ Len(p) = n - 1
      /\ \A i \in 1..(n - 1) : p[i] = h[i]
  BY FrontOf
<1>3. e \in Seq(Turn) /\ Len(e) = 1 /\ e[1] = h[n]
  BY <1>1, OneOf
<1> HIDE DEF e, n
<1>4. /\ u \in Seq(Turn) /\ Len(u) = Len(p) + Len(e)
      /\ \A i \in 1..Len(p) : u[i] = p[i]
      /\ \A i \in 1..Len(e) : u[Len(p) + i] = e[i]
  <2> HIDE DEF u
  <2>1. u = p \o e
    BY DEF u
  <2>2. p \in Seq(Turn) /\ e \in Seq(Turn)
    BY <1>2, <1>3
  <2>3. u \in Seq(Turn) /\ Len(u) = Len(p) + Len(e)
    BY <2>1, <2>2, ConcatOf
  <2>4. \A i \in 1..Len(p) : u[i] = p[i]
    BY <2>1, <2>2, ConcatOf
  <2>5. \A i \in 1..Len(e) : u[Len(p) + i] = e[i]
    BY <2>1, <2>2, ConcatOf
  <2> QED  BY <2>3, <2>4, <2>5
<1>5. Bytes(u) = Bytes(p) + Bytes(e) /\ Bytes(p) \in Nat /\ Bytes(e) \in Nat
  <2> HIDE DEF u
  <2>1. u = p \o e
    BY DEF u
  <2> QED  BY <1>2, <1>3, <2>1, BytesOfConcat
<1> HIDE DEF u
<1>6. Len(u) = n /\ Len(h) = n
  BY <1>1, <1>2, <1>3, <1>4 DEF n
<1>7. ASSUME NEW i \in 1..n
      PROVE  h[i] = u[i]
  <2>1. CASE i \in 1..(n - 1)
    BY <1>2, <1>4, <2>1
  <2>2. CASE i = n
    <3>1. 1 \in 1..Len(e) /\ Len(p) + 1 = n
      BY <1>1, <1>2, <1>3
    <3> QED  BY <1>3, <1>4, <2>2, <3>1
  <2> QED  BY <1>1, <2>1, <2>2
<1>8. h = u
  BY <1>4, <1>6, <1>7, SeqEqual
<1>9. MaxBytes \in Nat /\ MaxTurns \in Nat
  BY FitsAssumption, SizesAssumption
<1>10. Bytes(p) + Bytes(e) <= MaxBytes /\ n <= 2 * MaxTurns + 2
  BY <1>5, <1>6, <1>8 DEF Fitting
<1> QED  BY <1>1, <1>2, <1>5, <1>9, <1>10 DEF Fitting

LEMMA GreetingFits == <<Greeting>> \in Seq(Turn) /\ Fitting(<<Greeting>>)
<1>1. <<Greeting>> \in Seq(Turn) /\ Len(<<Greeting>>) = 1 /\ <<Greeting>>[1] = Greeting
  BY DEF Turn
<1>2. Greeting.size = GreetingSize /\ GreetingSize \in Nat /\ GreetingSize <= MaxBytes
  BY FitsAssumption DEF Greeting
<1>3. Bytes(<<Greeting>>) = GreetingSize
  BY <1>1, <1>2, BytesOfOne
<1>4. Len(<<Greeting>>) <= 2 * MaxTurns + 2
  BY <1>1, SizesAssumption
<1> QED  BY <1>1, <1>2, <1>3, <1>4 DEF Fitting

\* What a run of the page makes of the history fits.
LEMMA HistoryFits ==
    ASSUME IInv, TypeOK, [Next]_vars
    PROVE  messages' \in Seq(Turn) /\ Fitting(messages')
<1>1. Greeted(messages) /\ messages \in Seq(Turn) /\ Fitting(messages)
  BY DEF IInv, Greeted, TypeOK, Turn, Fitting
<1>2. ASSUME NEW h, Greeted(h), messages' = Trim(h)
      PROVE  messages' \in Seq(Turn) /\ Fitting(messages')
  BY <1>2, TrimKeeps DEF Greeted
<1>3. CASE Reset
  BY <1>3, GreetingFits DEF Reset
<1>4. CASE Starter \/ Render
  BY <1>1, <1>2, <1>4 DEF Starter, Render
<1>5. CASE Fail
  <2>1. Len(messages) >= 2 /\ messages' = SubSeq(messages, 1, Len(messages) - 1)
    BY <1>5 DEF Fail, IInv, QuestionLast, InHand
  <2> QED  BY <1>1, <2>1, PopFits
<1>6. ASSUME NEW size \in Sizes, Ask(size)
      PROVE  messages' \in Seq(Turn) /\ Fitting(messages')
  <2> DEFINE q == [role |-> "user", of |-> asked', size |-> size]
  <2>1. asked' \in 1..MaxAsked /\ messages' = Trim(Append(Trim(messages), q))
    BY <1>6, FitsAssumption DEF IInv, Ask
  <2>2. q \in Turn
    BY <2>1 DEF Question, Turn
  <2> HIDE DEF q
  <2>3. Greeted(Append(Trim(messages), q))
    BY <1>1, <2>2, TrimKeeps, AppendKeeps
  <2> QED  BY <1>2, <2>1, <2>3
<1>7. ASSUME NEW size \in ReplySizes, Show(size)
      PROVE  messages' \in Seq(Turn) /\ Fitting(messages')
  <2> DEFINE reply == [role |-> "assistant", of |-> asked, size |-> size]
  <2>1. at \in InHand /\ messages' = Trim(Append(messages, reply))
    BY <1>7 DEF Show, InHand
  <2>2. asked \in 1..MaxAsked
    BY <2>1 DEF IInv, QuestionLast, Question
  <2>3. reply \in Turn
    BY <2>2 DEF Reply, Turn
  <2> HIDE DEF reply
  <2>4. Greeted(Append(messages, reply))
    BY <1>1, <2>3, AppendKeeps
  <2> QED  BY <1>2, <2>1, <2>4
<1>8. CASE Attempt \/ UNCHANGED vars
  <2>1. messages' = messages
    BY <1>8 DEF Attempt, Replies, Refused, Missing, Transient, vars, chat
  <2> QED  BY <1>1, <2>1
<1> QED  BY <1>3, <1>4, <1>5, <1>6, <1>7, <1>8 DEF Next

\* The rest of the state: the page, and the client that walks the chain.
Typed ==
    /\ pending \in BOOLEAN /\ rejected \in BOOLEAN
    /\ fallback \in 0..Models \ {1}
    /\ at \in Yields \cup {"sending"}
    /\ asked \in 0..MaxAsked
    /\ model \in 1..Models /\ active \in 1..Models
    /\ attempt \in 1..MaxAttempts
    /\ last \in {"none", "missing", "transient"}
    /\ notice \in {"none", "configuration", "overloaded", "unexpected", "empty"}

LEMMA PageTyped ==
    ASSUME Typed, Reset \/ Starter \/ Render \/ Fail \/ UNCHANGED vars
    PROVE  Typed'
<1>1. 0 \in 0..Models \ {1}
  BY ModelsAssumption
<1> QED  BY <1>1 DEF Typed, Reset, Starter, Render, Fail, vars, chat, client, Yields

LEMMA AskTyped ==
    ASSUME Typed, NEW size \in Sizes, Ask(size)
    PROVE  Typed'
<1>1. 0 \in 0..Models \ {1} /\ 1 \in 1..Models /\ 1 \in 1..MaxAttempts
  BY ModelsAssumption
<1>2. asked' \in 0..MaxAsked
  BY FitsAssumption DEF Typed, Ask
<1> QED  BY <1>1, <1>2 DEF Typed, Ask, Yields

LEMMA ShowTyped ==
    ASSUME Typed, NEW size \in ReplySizes, Show(size)
    PROVE  Typed'
<1>1. fallback' = fallback \/ (active # 1 /\ fallback' = active)
  BY DEF Show
<1>2. fallback' \in 0..Models \ {1}
  BY <1>1, ModelsAssumption DEF Typed
<1>3. at' \in Yields
  BY DEF Show, Yields
<1> QED  BY <1>2, <1>3 DEF Typed, Show, client

LEMMA AttemptTyped ==
    ASSUME Typed, Attempt
    PROVE  Typed'
<1> USE DEF Typed, chat
<1>1. CASE Replies
  BY <1>1 DEF Replies, Yields
<1>2. ASSUME NEW error \in {"configuration", "unexpected", "empty"}, Refused(error)
      PROVE  Typed'
  BY <1>2 DEF Refused, Yields
<1>3. ASSUME NextModel
      PROVE  /\ model' \in 1..Models /\ attempt' \in 1..MaxAttempts
             /\ at' \in Yields \cup {"sending"}
             /\ notice' \in {"none", "configuration", "overloaded", "unexpected", "empty"}
  BY <1>3, ModelsAssumption DEF NextModel, Yields
<1>4. CASE Missing
  BY <1>3, <1>4 DEF Missing
<1>5. CASE Transient
  <2>1. CASE attempt < MaxAttempts
    <3>1. attempt' \in 1..MaxAttempts
      BY <1>5, <2>1, ModelsAssumption DEF Transient
    <3> QED  BY <1>5, <2>1, <3>1 DEF Transient
  <2>2. CASE ~(attempt < MaxAttempts)
    BY <1>3, <1>5, <2>2 DEF Transient
  <2> QED  BY <2>1, <2>2
<1> QED  BY <1>1, <1>2, <1>4, <1>5 DEF Attempt

LEMMA TypesKept ==
    ASSUME IInv, TypeOK, [Next]_vars
    PROVE  TypeOK'
<1>1. Typed
  BY DEF TypeOK, Typed
<1>2. Typed'
  BY <1>1, PageTyped, AskTyped, ShowTyped, AttemptTyped DEF Next
<1>3. messages' \in Seq(Turn) /\ Fitting(messages')
  BY HistoryFits
<1> QED  BY <1>2, <1>3 DEF TypeOK, Typed, Turn, Fitting

\* Whatever is asked and answered, and wherever a run of the page ends, the history the
\* session keeps, and sends with every question, is within both limits: the exchanges
\* and the bytes.  The model called is one of the chain and no attempt is one too many.
THEOREM TypeCorrect == Spec => []TypeOK
<1>1. Init => IInv /\ TypeOK
  <2> SUFFICES ASSUME Init PROVE TypeOK
    BY InitKeeps
  <2>1. messages \in Seq(Turn) /\ Fitting(messages)
    BY GreetingFits DEF Init
  <2>2. /\ 0 \in 0..Models \ {1} /\ 1 \in 1..Models /\ 1 \in 1..MaxAttempts
        /\ 0 \in 0..MaxAsked
    BY ModelsAssumption, FitsAssumption
  <2>3. Typed
    BY <2>2 DEF Init, Typed, Yields
  <2> QED  BY <2>1, <2>3 DEF TypeOK, Typed, Turn, Fitting
<1>2. IInv /\ TypeOK /\ [Next]_vars => IInv' /\ TypeOK'
  BY NextKeeps, TypesKept
<1> QED  BY <1>1, <1>2, PTL DEF Spec
=============================================================================
