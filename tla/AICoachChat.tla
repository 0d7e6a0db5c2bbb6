----------------------------- MODULE AICoachChat -----------------------------
(***************************************************************************)
(* The chat with the coach: the page, which Streamlit runs from the top at *)
(* every click, the history in the session, and the client, which tries a  *)
(* chain of models.  A click made while a run is under way takes effect at *)
(* the next call to Streamlit: the run ends there and another begins.      *)
(***************************************************************************)
EXTENDS Naturals, Sequences

CONSTANTS
    Models,             \* the length of the chain; the first is the configured one
    MaxAttempts,        \* MAX_ATTEMPTS_PER_MODEL
    MaxTurns,           \* MAX_HISTORY_TURNS, in exchanges
    MaxBytes,           \* MAX_HISTORY_BYTES
    Sizes,              \* the sizes of questions, and
    ReplySizes,         \* those of replies
    GreetingSize,
    MaxAsked            \* bound: the questions of a session

ASSUME ModelsAssumption == {Models, MaxAttempts} \subseteq Nat \ {0}

ASSUME SizesAssumption == Sizes \cup ReplySizes \subseteq Nat /\ MaxTurns \in Nat

\* A question has 4000 characters at most and the greeting is short.
ASSUME FitsAssumption ==
    /\ {GreetingSize, MaxBytes, MaxAsked} \subseteq Nat
    /\ GreetingSize <= MaxBytes
    /\ \A s \in Sizes : GreetingSize + s <= MaxBytes

VARIABLES
    messages,   \* coach_messages: of is the number of the question of a turn
    pending,    \* coach_pending_prompt is set
    fallback,   \* coach_fallback_model, as its place in the chain, or 0
    at,         \* where the page is
    asked,      \* the questions asked so far; the last is the one in hand
    model,      \* the place in the chain of the model called
    attempt,
    rejected,   \* model_rejected
    last,       \* last_transient
    active,     \* active_model
    notice      \* the error that send_message raised

chat == <<messages, pending, fallback, asked>>
client == <<model, attempt, rejected, last, active, notice>>
vars == <<chat, at, client>>

Question == [role : {"user"}, of : 1..MaxAsked, size : Sizes]
Reply == [role : {"assistant"}, of : 1..MaxAsked, size : ReplySizes]
Greeting == [role |-> "assistant", of |-> 0, size |-> GreetingSize]

\* Where the page calls Streamlit, so that a click may end its run.
Yields == {"idle", "rerun", "replied", "failed"}

Bytes(s) ==
    LET f[i \in 0..Len(s)] == IF i = 0 THEN 0 ELSE f[i - 1] + s[i].size
    IN f[Len(s)]

From(s, k) == SubSeq(s, k, Len(s))

\* The greeting, or the reply that stands first in its place.
Opening(h) ==
    IF h # <<>> /\ h[1].role = "assistant" THEN SubSeq(h, 1, 1) ELSE <<>>

Pending(h) ==
    IF h # <<>> /\ h[Len(h)].role = "user" THEN From(h, Len(h)) ELSE <<>>

\* Mutant: the slice takes the exchanges from the other end.
LatestFromStart(s, n) == IF Len(s) > n THEN SubSeq(s, 1, n) ELSE s

\* The last n of s.
Latest(s, n) == IF Len(s) > n THEN From(s, Len(s) - n + 1) ELSE s

\* trim_chat_history: the greeting, the latest exchanges that fit, the question last.
Trim(h) ==
    LET ask == Pending(From(h, 1 + Len(Opening(h))))
        asks == IF Bytes(ask) > MaxBytes THEN <<>> ELSE ask
        hello == IF Bytes(Opening(h)) + Bytes(asks) > MaxBytes THEN <<>> ELSE Opening(h)
        recent == Latest(SubSeq(h, 1 + Len(Opening(h)), Len(h) - Len(ask)), 2 * MaxTurns)
        Fits(k) == Bytes(hello) + Bytes(asks) + Bytes(From(recent, 2 * k + 1)) <= MaxBytes
        cut == CHOOSE k \in 0..Len(recent) :
                  /\ Fits(k) \/ 2 * k >= Len(recent)
                  /\ \A j \in 0..(k - 1) : ~Fits(j)
    IN hello \o From(recent, 2 * cut + 1) \o asks

TypeOK ==
    /\ messages \in Seq(Question \cup Reply \cup {Greeting})
    /\ Len(messages) <= 2 * MaxTurns + 2 /\ Bytes(messages) <= MaxBytes
    /\ pending \in BOOLEAN /\ rejected \in BOOLEAN
    /\ fallback \in 0..Models \ {1}
    /\ at \in Yields \cup {"sending"}
    /\ asked \in 0..MaxAsked
    /\ model \in 1..Models /\ active \in 1..Models
    /\ attempt \in 1..MaxAttempts
    /\ last \in {"none", "missing", "transient"}
    /\ notice \in {"none", "configuration", "overloaded", "unexpected", "empty"}

Init ==
    /\ messages = <<Greeting>>
    /\ pending = FALSE /\ fallback = 0
    /\ at = "idle" /\ asked = 0
    /\ model = 1 /\ attempt = 1 /\ active = 1
    /\ rejected = FALSE /\ last = "none" /\ notice = "none"

----------------------------------------------------------------------------
(* The runs of the page.  Each trims the history first.                    *)

\* "Reset chat", then st.rerun().
Reset ==
    /\ at \in Yields
    /\ messages' = <<Greeting>> /\ pending' = FALSE
    /\ at' = "rerun"
    /\ UNCHANGED <<fallback, asked, client>>

\* A suggested question, then st.rerun().  They are shown beside the greeting alone.
Starter ==
    /\ at \in Yields /\ Len(Trim(messages)) = 1
    /\ messages' = Trim(messages) /\ pending' = TRUE
    /\ at' = "rerun"
    /\ UNCHANGED <<fallback, asked, client>>

\* A run without a prompt; from elsewhere than "rerun", because the user clicked.
Render ==
    /\ at \in Yields /\ ~pending
    /\ messages' = Trim(messages) /\ fallback' = 0
    /\ at' = "idle"
    /\ UNCHANGED <<pending, asked, client>>

\* A run with a suggested question or one that is typed: it joins the history, which is
\* shown, and a client is made.  The suggested one goes first and the other is lost.
Ask(size) ==
    /\ at \in Yields /\ asked < MaxAsked
    /\ asked' = asked + 1
    /\ messages' =
         Trim(Append(Trim(messages), [role |-> "user", of |-> asked', size |-> size]))
    /\ pending' = FALSE /\ fallback' = 0
    /\ at' = "sending"
    /\ model' = 1 /\ attempt' = 1 /\ active' = 1
    /\ rejected' = FALSE /\ last' = "none" /\ notice' = "none"

\* Mutant: the history is trimmed for the next question only.
ShowUntrimmed(size) ==
    /\ at = "replied"
    /\ messages' = Append(messages, [role |-> "assistant", of |-> asked, size |-> size])
    /\ at' = "idle"
    /\ UNCHANGED <<pending, fallback, asked, client>>

\* The reply is shown and joins the history.  If that drops turns, the page is run
\* again, and the caption of a fallback model with it.
Show(size) ==
    LET reply == [role |-> "assistant", of |-> asked, size |-> size]
        longer == Append(messages, reply)
        retained == Trim(longer)
        trimmed == Len(retained) < Len(longer)
    IN /\ at = "replied"
       /\ messages' = retained
       /\ fallback' = IF trimmed /\ active # 1 /\ retained # <<>>
                         /\ retained[Len(retained)] = reply
                      THEN active ELSE fallback
       /\ at' = IF trimmed THEN "rerun" ELSE "idle"
       /\ UNCHANGED <<pending, asked, client>>

\* coach_messages.pop() after st.error.
Fail ==
    /\ at = "failed"
    /\ messages' = SubSeq(messages, 1, Len(messages) - 1)
    /\ at' = "idle"
    /\ UNCHANGED <<pending, fallback, asked, client>>

----------------------------------------------------------------------------
(* send_message: attempts of each model, models of the chain.              *)

Replies ==
    /\ at = "sending"
    /\ at' = "replied" /\ active' = model
    /\ UNCHANGED <<chat, model, attempt, rejected, last, notice>>

\* A rejected key, an answer without text or an error of any other kind ends it; so
\* does a client that cannot be made.
Refused(error) ==
    /\ at = "sending"
    /\ at' = "failed" /\ notice' = error
    /\ UNCHANGED <<chat, model, attempt, rejected, last, active>>

\* Mutant: the chain starts over after its last model.
NextModelAround ==
    /\ model' = IF model < Models THEN model + 1 ELSE 1
    /\ attempt' = 1
    /\ UNCHANGED <<at, notice>>

NextModel ==
    IF model < Models
    THEN /\ model' = model + 1 /\ attempt' = 1
         /\ UNCHANGED <<at, notice>>
    ELSE /\ at' = "failed"
         /\ notice' = IF rejected' /\ last' # "transient"
                      THEN "configuration" ELSE "overloaded"
         /\ UNCHANGED <<model, attempt>>

Missing ==
    /\ at = "sending"
    /\ rejected' = TRUE /\ last' = "missing"
    /\ NextModel
    /\ UNCHANGED <<chat, active>>

\* A saturated model is tried again after a pause.
Transient ==
    /\ at = "sending"
    /\ last' = "transient"
    /\ UNCHANGED <<chat, rejected, active>>
    /\ IF attempt < MaxAttempts
       THEN attempt' = attempt + 1 /\ UNCHANGED <<at, model, notice>>
       ELSE NextModel

Attempt ==
    \/ Replies
    \/ \E error \in {"configuration", "unexpected", "empty"} : Refused(error)
    \/ Missing
    \/ Transient

Next ==
    \/ Reset \/ Starter \/ Render \/ Fail
    \/ \E size \in Sizes : Ask(size)
    \/ \E size \in ReplySizes : Show(size)
    \/ Attempt

Spec == Init /\ [][Next]_vars

\* A call ends within REQUEST_TIMEOUT_MS, one way or another.
FairSpec == Spec /\ WF_vars(Attempt)

----------------------------------------------------------------------------

Talk == From(messages, 2)

Promise == INSTANCE Conversation WITH
    turns <- Talk,
    open <- at \in {"sending", "replied", "failed"},
    Answers <- LAMBDA q : {a \in Reply : a.of = q.of}

\* However the history is cut, and wherever a click ends a run of the page, the user
\* sees a conversation: nothing is out of order, and a failure takes back its own
\* question and no other turn, although the code pops whatever stands last.
KeepsConversation == Promise!Spec

\* Every call to the chain of models ends, with an answer or a notice.
SendEnds == at = "sending" ~> at \in {"replied", "failed"}
=============================================================================
