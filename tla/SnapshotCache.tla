--------------------------- MODULE SnapshotCache ---------------------------
(***************************************************************************)
(* What a reader of a cache may rely on: the cache keeps a value for a     *)
(* key, which serves or does not; who finds one that serves is given it,   *)
(* and of those who do not, one at a time has it renewed.  Values may fade *)
(* and be lost, but what takes their place is no older than what was ever  *)
(* given, and newer than what was purged.                                  *)
(***************************************************************************)
EXTENDS Naturals

CONSTANTS Reader, Key, None,
    KeyOf       \* KeyOf[r] is the key reader r asks for

VARIABLES
    kept,       \* kept[k]: the value kept for k, or None
    fresh,      \* the keys whose value serves
    at,         \* at[r]: out, asking or renewing
    got,        \* got[r]: what r was given, 0 while it waits or for a failure
    newest,     \* newest[k]: the last value given for k
    purged      \* purged[k]: the last value purged for k

vars == <<kept, fresh, at, got, newest, purged>>

Init ==
    /\ kept = [k \in Key |-> None] /\ fresh = {}
    /\ at = [r \in Reader |-> "out"] /\ got = [r \in Reader |-> 0]
    /\ newest = [k \in Key |-> 0] /\ purged = [k \in Key |-> 0]

Ask(r) ==
    /\ at[r] = "out"
    /\ at' = [at EXCEPT ![r] = "asking"] /\ got' = [got EXCEPT ![r] = 0]
    /\ UNCHANGED <<kept, fresh, newest, purged>>

\* The reader is given v.
Give(r, v) ==
    /\ at' = [at EXCEPT ![r] = "out"] /\ got' = [got EXCEPT ![r] = v]
    /\ newest' = [newest EXCEPT ![KeyOf[r]] = v]

Serve(r) ==
    /\ at[r] = "asking" /\ KeyOf[r] \in fresh
    /\ Give(r, kept[KeyOf[r]])
    /\ UNCHANGED <<kept, fresh, purged>>

Turn(r) ==
    /\ at[r] = "asking" /\ KeyOf[r] \notin fresh
    /\ \A s \in Reader : at[s] = "renewing" => KeyOf[s] # KeyOf[r]
    /\ at' = [at EXCEPT ![r] = "renewing"]
    /\ UNCHANGED <<kept, fresh, got, newest, purged>>

\* The new value may have faded by the time it is kept.
Renew(r, v) ==
    /\ at[r] = "renewing" /\ KeyOf[r] \notin fresh
    /\ v >= newest[KeyOf[r]] /\ v > purged[KeyOf[r]]
    /\ Give(r, v)
    /\ kept' = [kept EXCEPT ![KeyOf[r]] = v]
    /\ fresh' \in {fresh, fresh \cup {KeyOf[r]}}
    /\ UNCHANGED purged

Fail(r) ==
    /\ at[r] \in {"asking", "renewing"}
    /\ at' = [at EXCEPT ![r] = "out"] /\ got' = [got EXCEPT ![r] = 0]
    /\ UNCHANGED <<kept, fresh, newest, purged>>

Fade == fresh' \in SUBSET fresh /\ UNCHANGED <<kept, at, got, newest, purged>>

\* What serves is not lost.
Lose ==
    /\ \A k \in Key : kept'[k] # kept[k] => kept'[k] = None /\ k \notin fresh
    /\ UNCHANGED <<fresh, at, got, newest, purged>>

Purge(keys) ==
    /\ kept' = [k \in Key |-> IF k \in keys THEN None ELSE kept[k]]
    /\ fresh' = fresh \ keys
    /\ purged' = [k \in Key |-> IF k \in keys /\ kept[k] # None THEN kept[k] ELSE purged[k]]
    /\ UNCHANGED <<at, got, newest>>

\* The readers are gone, and it is decided anew which values serve.
Stop ==
    /\ at' = [r \in Reader |-> "out"] /\ got' = [r \in Reader |-> 0]
    /\ fresh' \in SUBSET {k \in Key : kept[k] # None}
    /\ UNCHANGED <<kept, newest, purged>>

Next ==
    \/ \E r \in Reader : Ask(r) \/ Serve(r) \/ Turn(r) \/ Renew(r, got'[r]) \/ Fail(r)
    \/ Fade \/ Lose \/ Stop
    \/ \E keys \in SUBSET Key : Purge(keys)

Spec == Init /\ [][Next]_vars
============================================================================
