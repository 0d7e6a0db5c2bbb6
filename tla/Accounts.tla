------------------------------ MODULE Accounts ------------------------------
(***************************************************************************)
(* Users, access tokens and linked player accounts: the handlers of the    *)
(* auth router as steps between the storage calls they await, against the  *)
(* users and linked_player_accounts tables under READ COMMITTED with row   *)
(* locks.  A user or a link has the identity of the request that creates   *)
(* it, as its id is drawn there.                                           *)
(***************************************************************************)
EXTENDS Naturals, FiniteSets

CONSTANTS
    Request,        \* the requests, each served once
    Seeded,         \* users registered before, with a PBKDF2 hash
    Mail,           \* e-mail addresses, whatever their case
    Typed,          \* the spellings that clients send
    Password,
    Secret,         \* Secret[u] is the password of a seeded user
    Address,        \* Address[u] is the e-mail of a seeded user
    Old,            \* links made before
    Linked,         \* Linked[l] is the row of such a link
    Admins,         \* ADMIN_EMAILS
    Null

ASSUME AccountsAssumption ==
    /\ Seeded \cap Request = {}
    /\ Secret \in [Seeded -> Password]
    /\ Address \in [Seeded -> Mail]
    /\ \A u, v \in Seeded : Address[u] = Address[v] => u = v
    /\ Typed \subseteq [of : Mail, plain : BOOLEAN]
    /\ Admins \subseteq Mail
    /\ Null \notin Seeded \cup Request \cup Password

User == Seeded \cup Request
LinkId == Old \cup Request
Spelling == [of : Mail, plain : BOOLEAN]
Hash == [of : Password, legacy : BOOLEAN]
UserRow == [email : Spelling, hash : Hash, active : BOOLEAN, admin : BOOLEAN]
LinkRow == [user : User, primary : BOOLEAN]

ASSUME RowAssumption ==
    /\ Null \notin UserRow \cup LinkRow
    /\ Old \cap Request = {}
    /\ Linked \in [Old -> [user : Seeded, primary : BOOLEAN]]
    /\ \A k, l \in Old : Linked[k].primary /\ Linked[l].primary /\
                         Linked[k].user = Linked[l].user => k = l

Operation == {"register", "login", "link", "unlink", "list", "admin"}
Step == {"idle", "selecting", "inserting", "reading", "rehashing",
         "authenticating", "link", "committing", "unlink", "list", "done"}

VARIABLES
    users,      \* the users table, by id
    links,      \* the linked_player_accounts table, by id
    tokens,     \* the subjects of the tokens issued
    req,        \* the requests
    overlapped, \* history: pairs of primary links one of which began its
                \* reset before the other's commit
    chosen      \* history: the password a user has registered with

vars == <<users, links, tokens, req, overlapped, chosen>>

Fresh ==
    [at |-> "idle", op |-> Null, mail |-> Null, pw |-> Null, sub |-> Null,
     primary |-> FALSE, rows |-> {}, held |-> {}, answer |-> "none"]

RequestRecord ==
    [at : Step, op : Operation \cup {Null}, mail : Spelling \cup {Null}, pw : Password \cup {Null},
     sub : User \cup {Null}, primary : BOOLEAN, rows : SUBSET LinkId,
     held : SUBSET LinkId, answer : {"none", "200", "401", "403", "404", "409", "503"}]

TypeOK ==
    /\ users \in [User -> UserRow \cup {Null}]
    /\ links \in [LinkId -> LinkRow \cup {Null}]
    /\ tokens \in SUBSET User
    /\ req \in [Request -> RequestRecord]
    /\ overlapped \in SUBSET (Request \X Request)
    /\ chosen \in [User -> Password \cup {Null}]

Init ==
    /\ users = [u \in User |->
          IF u \in Seeded
          THEN [email |-> [of |-> Address[u], plain |-> TRUE],
                hash |-> [of |-> Secret[u], legacy |-> TRUE],
                active |-> TRUE, admin |-> FALSE]
          ELSE Null]
    /\ links = [l \in LinkId |-> IF l \in Old THEN Linked[l] ELSE Null]
    /\ tokens = Seeded
    /\ req = [q \in Request |-> Fresh]
    /\ overlapped = {}
    /\ chosen = [u \in User |-> IF u \in Seeded THEN Secret[u] ELSE Null]

----------------------------------------------------------------------------

At(q, op, step) == req[q].op = op /\ req[q].at = step

Go(q, step) == req' = [req EXCEPT ![q].at = step]

\* The request is over, and what it kept in memory is gone.
Answer(q, code) ==
    req' = [req EXCEPT ![q] = [Fresh EXCEPT !.at = "done", !.answer = code]]

\* strip().lower()
Normal(e) == [e EXCEPT !.plain = TRUE]

Existing == {u \in User : users[u] # Null}

WithMail(e) == {u \in Existing : users[u].email = Normal(e)}

\* Mutant: a session that is not closed keeps the row locks of its transaction.
StorageFailsHolding(q) ==
    /\ req[q].at \notin {"idle", "rehashing", "done"}
    /\ req' = [req EXCEPT ![q] = [Fresh EXCEPT !.at = "done", !.answer = "503",
                                             !.held = req[q].held]]
    /\ UNCHANGED <<users, links, tokens, overlapped, chosen>>

\* A storage call raises: its transaction is rolled back, and SQLAlchemy's errors become PlayerServiceUnavailableError.
StorageFails(q) ==
    /\ req[q].at \notin {"idle", "rehashing", "done"}
    /\ Answer(q, "503")
    /\ UNCHANGED <<users, links, tokens, overlapped, chosen>>

----------------------------------------------------------------------------
(* register                                                                *)

Register(q, e, p) ==
    /\ req[q].at = "idle"
    /\ req' = [req EXCEPT ![q].at = "selecting", ![q].op = "register",
                          ![q].mail = e, ![q].pw = p]
    /\ UNCHANGED <<users, links, tokens, overlapped, chosen>>

SelectExisting(q) ==
    /\ At(q, "register", "selecting")
    /\ IF WithMail(req[q].mail) # {} THEN Answer(q, "409") ELSE Go(q, "inserting")
    /\ UNCHANGED <<users, links, tokens, overlapped, chosen>>

NewUser(q) ==
    [email |-> Normal(req[q].mail), hash |-> [of |-> req[q].pw, legacy |-> FALSE],
     active |-> TRUE, admin |-> req[q].mail.of \in Admins]

\* Mutant: the column is not unique, the SELECT is trusted.
InsertUnchecked(q) ==
    /\ At(q, "register", "inserting")
    /\ users' = [users EXCEPT ![q] = NewUser(q)] /\ Answer(q, "200")
    /\ chosen' = [chosen EXCEPT ![q] = req[q].pw]
    /\ UNCHANGED <<links, tokens, overlapped>>

\* The flush at the end of the transaction: a row committed since the SELECT
\* violates the unique e-mail, which is one more storage error.
InsertUser(q) ==
    /\ At(q, "register", "inserting")
    /\ IF WithMail(req[q].mail) # {}
       THEN Answer(q, "503") /\ UNCHANGED <<users, chosen>>
       ELSE /\ users' = [users EXCEPT ![q] = NewUser(q)] /\ Answer(q, "200")
            /\ chosen' = [chosen EXCEPT ![q] = req[q].pw]
    /\ UNCHANGED <<links, tokens, overlapped>>

----------------------------------------------------------------------------
(* login                                                                   *)

Login(q, e, p) ==
    /\ req[q].at = "idle"
    /\ req' = [req EXCEPT ![q].at = "reading", ![q].op = "login",
                          ![q].mail = e, ![q].pw = p]
    /\ UNCHANGED <<users, links, tokens, overlapped, chosen>>

Verified(p, h) == h.of = p

\* Mutant: the hash is renewed as soon as the row is read, and verified after it.
RehashFirst(q) ==
    /\ At(q, "login", "reading")
    /\ \E u \in WithMail(req[q].mail) :
          /\ req' = [req EXCEPT ![q].at = "rehashing", ![q].sub = u]
    /\ UNCHANGED <<users, links, tokens, overlapped, chosen>>

\* What the row read says of the login; the token is issued before any other
\* storage call unless the hash is a legacy one.
ReadUser(q) ==
    LET found == WithMail(req[q].mail) IN
    /\ At(q, "login", "reading")
    /\ \/ found = {} /\ Answer(q, "401") /\ UNCHANGED tokens
       \/ \E u \in found :
             \/ /\ ~Verified(req[q].pw, users[u].hash)
                /\ Answer(q, "401") /\ UNCHANGED tokens
             \/ /\ Verified(req[q].pw, users[u].hash) /\ ~users[u].active
                /\ Answer(q, "403") /\ UNCHANGED tokens
             \/ /\ Verified(req[q].pw, users[u].hash) /\ users[u].active
                /\ users[u].hash.legacy
                /\ req' = [req EXCEPT ![q].at = "rehashing", ![q].sub = u]
                /\ UNCHANGED tokens
             \/ /\ Verified(req[q].pw, users[u].hash) /\ users[u].active
                /\ ~users[u].hash.legacy
                /\ Answer(q, "200")
                /\ tokens' = tokens \cup {u}
    /\ UNCHANGED <<users, links, overlapped, chosen>>

\* Mutant: the password itself is stored.
RehashNot(q) ==
    /\ At(q, "login", "rehashing")
    /\ users' = [users EXCEPT ![req[q].sub].hash = req[q].pw]
    /\ tokens' = tokens \cup {req[q].sub}
    /\ Answer(q, "200")
    /\ UNCHANGED <<links, overlapped, chosen>>

\* update_password_hash, or its failure, which login swallows.
Rehash(q) ==
    /\ At(q, "login", "rehashing")
    /\ \/ users' = [users EXCEPT ![req[q].sub].hash = [of |-> req[q].pw, legacy |-> FALSE]]
       \/ UNCHANGED users
    /\ tokens' = tokens \cup {req[q].sub}
    /\ Answer(q, "200")
    /\ UNCHANGED <<links, overlapped, chosen>>

----------------------------------------------------------------------------
(* Requests with a token                                                   *)

\* The bearer token is decoded: its subject, or none if there is no token, or an
\* invalid or expired one.
Call(q, op, sub, primary) ==
    /\ req[q].at = "idle"
    /\ \/ sub = Null /\ Answer(q, "401")
       \/ /\ sub # Null
          /\ req' = [req EXCEPT ![q].at = "authenticating", ![q].op = op,
                                ![q].sub = sub, ![q].primary = primary]
    /\ UNCHANGED <<users, links, tokens, overlapped, chosen>>

IsAdmin(row) == row.admin \/ row.email.of \in Admins

\* get_current_user, and require_admin.
Authenticate(q) ==
    LET row == users[req[q].sub] IN
    /\ req[q].at = "authenticating"
    /\ \/ row = Null /\ Answer(q, "401")
       \/ row # Null /\ ~row.active /\ Answer(q, "403")
       \/ /\ row # Null /\ row.active /\ req[q].op = "admin"
          /\ Answer(q, IF IsAdmin(row) THEN "200" ELSE "403")
       \/ row # Null /\ row.active /\ req[q].op # "admin" /\ Go(q, req[q].op)
    /\ UNCHANGED <<users, links, tokens, overlapped, chosen>>

Owned(u) == {l \in LinkId : links[l] # Null /\ links[l].user = u}

\* No other transaction has updated the row and not yet committed.
Free(q, l) == \A p \in Request \ {q} : l \notin req[p].held

\* The live player may be unknown or unavailable; linking goes on.  The UPDATE of
\* a primary link is to reset the rows committed by now.
BeginLink(q) ==
    /\ At(q, "link", "link")
    /\ req' = [req EXCEPT ![q].at = "committing",
                          ![q].rows = IF req[q].primary THEN Owned(req[q].sub) ELSE {}]
    /\ UNCHANGED <<users, links, tokens, overlapped, chosen>>

\* The UPDATE comes to one of its rows, in whatever order it scans them, and waits
\* for the row's lock while it holds those it has got; a row deleted since is
\* passed over.
ResetPrimary(q) ==
    /\ At(q, "link", "committing")
    /\ \E l \in req[q].rows :
          /\ Free(q, l)
          /\ req' = [req EXCEPT ![q].rows = @ \ {l},
                                ![q].held = @ \cup ({l} \cap Owned(req[q].sub))]
    /\ UNCHANGED <<users, links, tokens, overlapped, chosen>>

InReset(u) ==
    {p \in Request : /\ req[p].op = "link" /\ req[p].sub = u /\ req[p].primary
                     /\ req[p].at = "committing"}

\* Mutant: the reset is lost, only the new row is committed.
CommitLinkOnly(q) ==
    /\ At(q, "link", "committing") /\ req[q].rows = {}
    /\ links' = [links EXCEPT ![q] = [user |-> req[q].sub, primary |-> req[q].primary]]
    /\ overlapped' = overlapped
    /\ Answer(q, "200")
    /\ UNCHANGED <<users, tokens, chosen>>

CommitLink(q) ==
    /\ At(q, "link", "committing") /\ req[q].rows = {}
    /\ links' = [l \in LinkId |->
          IF l = q THEN [user |-> req[q].sub, primary |-> req[q].primary]
          ELSE IF l \in req[q].held THEN [links[l] EXCEPT !.primary = FALSE]
          ELSE links[l]]
    /\ overlapped' = IF req[q].primary
                     THEN overlapped \cup ({q} \X (InReset(req[q].sub) \ {q}))
                     ELSE overlapped
    /\ Answer(q, "200")
    /\ UNCHANGED <<users, tokens, chosen>>

\* Mutant: the DELETE names the id alone.
UnlinkAny(q, l) ==
    /\ At(q, "unlink", "unlink")
    /\ Free(q, l)
    /\ IF links[l] # Null
       THEN links' = [links EXCEPT ![l] = Null] /\ Answer(q, "200")
       ELSE Answer(q, "404") /\ UNCHANGED links
    /\ UNCHANGED <<users, tokens, overlapped, chosen>>

Unlink(q, l) ==
    /\ At(q, "unlink", "unlink")
    /\ l \in Owned(req[q].sub) => Free(q, l)
    /\ IF l \in Owned(req[q].sub)
       THEN links' = [links EXCEPT ![l] = Null] /\ Answer(q, "200")
       ELSE Answer(q, "404") /\ UNCHANGED links
    /\ UNCHANGED <<users, tokens, overlapped, chosen>>

ListLinks(q) ==
    /\ At(q, "list", "list")
    /\ Answer(q, "200")
    /\ UNCHANGED <<users, links, tokens, overlapped, chosen>>

----------------------------------------------------------------------------
(* Around the program: an operator deactivates a user.                      *)

Deactivate(u) ==
    /\ users[u] # Null /\ users[u].active
    /\ users' = [users EXCEPT ![u].active = FALSE]
    /\ UNCHANGED <<links, tokens, req, overlapped, chosen>>

Arrive(q) ==
    \/ \E e \in Typed, p \in Password : Register(q, e, p) \/ Login(q, e, p)
    \/ \E sub \in tokens \cup {Null} :
          \/ \E op \in {"unlink", "list", "admin"} : Call(q, op, sub, FALSE)
          \/ \E primary \in BOOLEAN : Call(q, "link", sub, primary)

\* What a request under way does next.
Serve(q) ==
    \/ SelectExisting(q) \/ InsertUser(q)
    \/ ReadUser(q) \/ Rehash(q)
    \/ Authenticate(q)
    \/ BeginLink(q) \/ ResetPrimary(q) \/ CommitLink(q)
    \/ \E l \in LinkId : Unlink(q, l)
    \/ ListLinks(q)

Next ==
    \/ \E q \in Request : Arrive(q) \/ Serve(q) \/ StorageFails(q)
    \/ \E u \in User : Deactivate(u)

Spec == Init /\ [][Next]_vars

\* The requests that q waits for, as they hold rows it is to reset.
WaitsFor(q) == {p \in Request \ {q} : req[q].rows \cap req[p].held # {}}

\* q waits for requests that wait, one for another, for q.
Deadlocked(q) ==
    \A R \in SUBSET Request :
        WaitsFor(q) \subseteq R /\ (\A p \in R : WaitsFor(p) \subseteq R) => q \in R

\* A request under way goes on: its coroutine is scheduled, and a free row lock is
\* granted.  The database fails one of the requests of a deadlock.
Fairness ==
    \A q \in Request : WF_vars(Serve(q)) /\ WF_vars(Deadlocked(q) /\ StorageFails(q))

FairSpec == Spec /\ Fairness

----------------------------------------------------------------------------

\* However registrations of one address interleave and spell it, the address
\* belongs to one user: the SELECT alone would not see to it.
OneUserPerEmail ==
    \A u, v \in Existing : users[u].email.of = users[v].email.of => u = v

\* Logins of one user with right and wrong passwords, their transparent rehash and
\* its failures leave a hash that verifies the password the user registered with.
PasswordKept == \A u \in Existing : Verified(chosen[u], users[u].hash)

Primaries(u) == {l \in Owned(u) : links[l].primary}

\* A user has one primary account, unless two primary links overlapped: requests
\* that do not run at once are enough for the reset to work.
OnePrimaryUnlessOverlapped ==
    \A u \in User : \A k, l \in Primaries(u) :
        k = l \/ <<k, l>> \in overlapped \/ <<l, k>> \in overlapped

\* A linked account changes, comes or goes only in the transaction of a request
\* that carries a token of its user, and comes only as that user's.
OnlyOwnLinks ==
    [][\A l \in LinkId : links'[l] # links[l] =>
          \E q \in Request :
             /\ req[q].at # "done" /\ req'[q].answer = "200"
             /\ \/ links[l] # Null /\ links[l].user = req[q].sub
                \/ links[l] = Null /\ l = q /\ links'[l].user = req[q].sub]_vars

\* Every request is answered, although resets take the locks of their rows one by
\* one, wait for each other and may deadlock: neither a commit nor an error, the
\* database's answer to a deadlock included, leaves a lock behind.
RequestsEnd == <>[](\A q \in Request : req[q].at \in {"idle", "done"})
=============================================================================
