---------------------------- MODULE AccountsProofs ----------------------------
(***************************************************************************)
(* Proofs about Accounts, for any number of users and requests.  What a    *)
(* request remembers across its awaits stays true while others commit:     *)
(* the user of a rehash exists, the rows of a reset are the user's own,    *)
(* and a primary account it did not see was committed during it.           *)
(***************************************************************************)
EXTENDS Accounts, TLAPS

\* The table holds addresses in their normal spelling only.
Plain == \A u \in User : users[u] # Null => users[u].email.plain = TRUE

\* A user or a link exists only when the request that creates it is over.
Created == \A q \in Request : users[q] # Null \/ links[q] # Null => req[q].at = "done"

\* What a request has in memory.
Kept ==
    \A q \in Request :
        /\ req[q].at \in {"selecting", "inserting", "reading", "rehashing"} =>
              req[q].mail \in Spelling /\ req[q].pw \in Password
        /\ req[q].at \in {"rehashing", "authenticating", "link", "committing",
                          "unlink", "list"} => req[q].sub \in User
        /\ req[q].at = "authenticating" => req[q].op \in {"link", "unlink", "list", "admin"}
        /\ req[q].at = "committing" => req[q].op = "link"

\* A login rehashes the password that the user of its row has registered with.
RehashesWhatIsChosen ==
    \A q \in Request :
        req[q].at = "rehashing" =>
            /\ users[req[q].sub] \in UserRow
            /\ req[q].pw = chosen[req[q].sub]
            /\ req[q].sub \in Request => req[req[q].sub].at = "done"

\* The rows that an UPDATE has seen: those it has yet to come to, and those it holds.
Seen(q) == req[q].rows \cup req[q].held

\* They are rows of its user, made by requests that are over.
RowsAreOwn ==
    \A q \in Request :
        /\ Seen(q) # {} => req[q].at = "committing"
        /\ \A l \in Seen(q) :
              /\ l \in Request => req[l].at = "done"
              /\ links[l] # Null => links[l].user = req[q].sub

\* Nobody deletes a row that another holds.
HeldAreThere == \A q \in Request : \A l \in req[q].held : links[l] # Null

\* A primary account that a reset has not seen was committed during it.
UnseenOverlapped ==
    \A q \in Request :
        req[q].at = "committing" /\ req[q].primary =>
            \A l \in Primaries(req[q].sub) : l \in Seen(q) \/ <<l, q>> \in overlapped

IInv ==
    /\ TypeOK /\ Plain /\ Created /\ Kept
    /\ RehashesWhatIsChosen /\ RowsAreOwn /\ HeldAreThere /\ UnseenOverlapped
    /\ OneUserPerEmail /\ PasswordKept /\ OnePrimaryUnlessOverlapped

----------------------------------------------------------------------------
(* Records.                                                                *)

\* Two addresses of one mailbox that are both in their normal spelling are one.
LEMMA NormalIsOne ==
    ASSUME NEW e \in Spelling, NEW f \in Spelling, f.plain = TRUE, f.of = e.of
    PROVE  f = Normal(e)
BY DEF Spelling, Normal

\* Normalising keeps the address and is done once.
LEMMA NormalSpelling ==
    ASSUME NEW e \in Spelling
    PROVE  Normal(e) \in Spelling /\ Normal(e).of = e.of /\ Normal(e).plain = TRUE
BY DEF Spelling, Normal

\* A request that is answered forgets everything but its answer.
LEMMA AnswerType ==
    ASSUME TypeOK, NEW q \in Request,
           NEW code \in {"200", "401", "403", "404", "409", "503"}, Answer(q, code)
    PROVE  /\ req' \in [Request -> RequestRecord]
           /\ req'[q].at = "done" /\ req'[q].answer = code
           /\ req'[q].rows = {} /\ req'[q].held = {}
           /\ \A p \in Request \ {q} : req'[p] = req[p]
<1> DEFINE r == [Fresh EXCEPT !.at = "done", !.answer = code]
<1>1. r \in RequestRecord
  BY DEF Fresh, RequestRecord, Step, Operation
<1>2. r.at = "done" /\ r.rows = {} /\ r.held = {} /\ r.answer = code
  BY DEF Fresh
<1>3. req' = [req EXCEPT ![q] = r]
  BY DEF Answer
<1> HIDE DEF r
<1> QED  BY <1>1, <1>2, <1>3 DEF TypeOK

\* A request that goes on keeps its record and leaves the others'.
LEMMA GoType ==
    ASSUME TypeOK, NEW q \in Request, NEW step \in Step, Go(q, step)
    PROVE  /\ req' \in [Request -> RequestRecord]
           /\ req'[q] = [req[q] EXCEPT !.at = step]
           /\ \A p \in Request \ {q} : req'[p] = req[p]
BY DEF TypeOK, Go, RequestRecord

----------------------------------------------------------------------------
(* Steps.                                                                  *)

LEMMA InitInv == Init => IInv
<1> SUFFICES ASSUME Init PROVE IInv
  OBVIOUS
<1> USE AccountsAssumption
<1>1. TypeOK
  <2>1. users \in [User -> UserRow \cup {Null}]
    BY DEF Init, User, UserRow, Spelling, Hash
  <2>2. Fresh \in RequestRecord
    BY DEF Fresh, RequestRecord, Step
  <2>3. links \in [LinkId -> LinkRow \cup {Null}]
    BY RowAssumption DEF Init, LinkId, LinkRow, User
  <2> QED  BY <2>1, <2>2, <2>3 DEF Init, TypeOK, User
<1>2. Plain /\ OneUserPerEmail /\ PasswordKept
  BY DEF Init, Plain, OneUserPerEmail, PasswordKept, Existing, Verified, User
<1>3. Created
  BY RowAssumption DEF Init, Created, User, LinkId
<1>4. Kept /\ RehashesWhatIsChosen /\ RowsAreOwn /\ HeldAreThere /\ UnseenOverlapped
  BY DEF Init, Kept, RehashesWhatIsChosen, RowsAreOwn, HeldAreThere, UnseenOverlapped, Seen, Fresh
<1>5. OnePrimaryUnlessOverlapped
  BY RowAssumption DEF Init, LinkId, OnePrimaryUnlessOverlapped, Primaries, Owned
<1> QED  BY <1>1, <1>2, <1>3, <1>4, <1>5 DEF IInv

\* A request that goes on alone, with the tables as they are: what it must see to.
LEMMA QuietStep ==
    ASSUME IInv, NEW q \in Request, UNCHANGED <<users, links, overlapped, chosen>>,
           tokens' \in SUBSET User,
           req' \in [Request -> RequestRecord],
           \A p \in Request \ {q} : req'[p] = req[p],
           req[q].at # "done",
           \* what it keeps
           req'[q].at \in {"selecting", "inserting", "reading", "rehashing"} =>
              req'[q].mail \in Spelling /\ req'[q].pw \in Password,
           req'[q].at \in {"rehashing", "authenticating", "link", "committing",
                           "unlink", "list"} => req'[q].sub \in User,
           req'[q].at = "authenticating" =>
              req'[q].op \in {"link", "unlink", "list", "admin"},
           req'[q].at = "committing" => req'[q].op = "link",
           req'[q].at = "rehashing" =>
              /\ users[req'[q].sub] \in UserRow
              /\ users[req'[q].sub] # Null
              /\ req'[q].pw = chosen[req'[q].sub],
           Seen(q)' # {} => req'[q].at = "committing",
           \A l \in Seen(q)' :
              /\ l \in Request => req[l].at = "done"
              /\ links[l] # Null => links[l].user = req'[q].sub,
           \A l \in req'[q].held : links[l] # Null,
           req'[q].at = "committing" /\ req'[q].primary =>
              \A l \in Primaries(req'[q].sub) :
                  l \in Seen(q)' \/ <<l, q>> \in overlapped
    PROVE  IInv'
<1>1. TypeOK'
  BY DEF IInv, TypeOK
<1>2. (Plain /\ OneUserPerEmail /\ PasswordKept)'
  BY DEF IInv, Plain, OneUserPerEmail, PasswordKept, Existing
<1>3. Created'
  BY DEF IInv, Created
<1>4. Kept'
  BY DEF IInv, Kept
<1>5. RehashesWhatIsChosen'
  <2> SUFFICES ASSUME NEW p \in Request, req'[p].at = "rehashing"
               PROVE  /\ users[req'[p].sub] \in UserRow
                      /\ req'[p].pw = chosen[req'[p].sub]
                      /\ req'[p].sub \in Request => req'[req'[p].sub].at = "done"
    BY DEF RehashesWhatIsChosen
  <2>1. CASE p = q
    BY <2>1 DEF IInv, Created
  <2>2. CASE p # q
    BY <2>2 DEF IInv, RehashesWhatIsChosen
  <2> QED  BY <2>1, <2>2
<1>6. RowsAreOwn' /\ HeldAreThere'
  <2> SUFFICES ASSUME NEW p \in Request
               PROVE  /\ Seen(p)' # {} => req'[p].at = "committing"
                      /\ \A l \in Seen(p)' :
                            /\ l \in Request => req'[l].at = "done"
                            /\ links[l] # Null => links[l].user = req'[p].sub
                      /\ \A l \in req'[p].held : links[l] # Null
    BY DEF RowsAreOwn, HeldAreThere
  <2>1. CASE p = q
    BY <2>1
  <2>2. CASE p # q
    BY <2>2 DEF IInv, RowsAreOwn, HeldAreThere, Seen
  <2> QED  BY <2>1, <2>2
<1>7. UnseenOverlapped'
  BY DEF IInv, UnseenOverlapped, Seen, Primaries, Owned
<1>8. OnePrimaryUnlessOverlapped'
  BY DEF IInv, OnePrimaryUnlessOverlapped, Primaries, Owned
<1> QED  BY <1>1, <1>2, <1>3, <1>4, <1>5, <1>6, <1>7, <1>8 DEF IInv

\* An answer that changes no row.
LEMMA QuietAnswer ==
    ASSUME IInv, NEW q \in Request, NEW code \in {"200", "401", "403", "404", "409", "503"},
           Answer(q, code), req[q].at # "done", tokens' \in SUBSET User,
           UNCHANGED <<users, links, overlapped, chosen>>
    PROVE  IInv'
<1>1. /\ req' \in [Request -> RequestRecord]
      /\ req'[q].at = "done" /\ req'[q].rows = {} /\ req'[q].held = {}
      /\ \A p \in Request \ {q} : req'[p] = req[p]
  BY AnswerType DEF IInv
<1> QED  BY <1>1, QuietStep DEF Seen

LEMMA RegisterStep ==
    ASSUME IInv, NEW q \in Request, NEW e \in Typed, NEW p \in Password,
           Register(q, e, p) \/ Login(q, e, p)
    PROVE  IInv'
<1>1. e \in Spelling
  BY AccountsAssumption DEF Spelling
<1>2. /\ req[q].at = "idle" /\ UNCHANGED <<users, links, tokens, overlapped, chosen>>
      /\ \E op \in {"register", "login"}, at \in {"selecting", "reading"} :
            req' = [req EXCEPT ![q].at = at, ![q].op = op, ![q].mail = e, ![q].pw = p]
  BY DEF Register, Login
<1>3. PICK op \in {"register", "login"}, at \in {"selecting", "reading"} :
            req' = [req EXCEPT ![q].at = at, ![q].op = op, ![q].mail = e, ![q].pw = p]
  BY <1>2
<1>4. req'[q] = [req[q] EXCEPT !.at = at, !.op = op, !.mail = e, !.pw = p]
  BY <1>3 DEF IInv, TypeOK
<1>5. req[q] \in RequestRecord /\ req[q].rows = {} /\ req[q].held = {}
  BY <1>2 DEF IInv, TypeOK, RowsAreOwn, Seen
<1>6. /\ req' \in [Request -> RequestRecord]
      /\ req'[q].at \in {"selecting", "reading"}
      /\ req'[q].mail = e /\ req'[q].pw = p /\ Seen(q)' = {} /\ req'[q].held = {}
      /\ \A r \in Request \ {q} : req'[r] = req[r]
  <2>1. at \in Step /\ op \in Operation
    BY DEF Step, Operation
  <2>2. /\ req'[q] \in RequestRecord /\ req'[q].at = at
        /\ req'[q].mail = e /\ req'[q].pw = p /\ req'[q].rows = {} /\ req'[q].held = {}
    BY <1>1, <1>5, <1>4, <2>1 DEF RequestRecord
  <2> QED  BY <1>3, <2>2 DEF IInv, TypeOK, Seen
<1>7. tokens' \in SUBSET User
  BY <1>2 DEF IInv, TypeOK
<1> QED  BY <1>1, <1>2, <1>6, <1>7, QuietStep

LEMMA CallStep ==
    ASSUME IInv, NEW q \in Request, NEW sub \in tokens \cup {Null},
           NEW op \in {"unlink", "list", "admin", "link"}, NEW primary \in BOOLEAN,
           Call(q, op, sub, primary)
    PROVE  IInv'
<1>1. req[q].at = "idle" /\ UNCHANGED <<users, links, tokens, overlapped, chosen>>
  BY DEF Call
<1>2. tokens' \in SUBSET User
  BY <1>1 DEF IInv, TypeOK
<1>3. CASE Answer(q, "401")
  BY <1>1, <1>2, <1>3, QuietAnswer
<1>4. CASE sub # Null /\ req' = [req EXCEPT ![q].at = "authenticating", ![q].op = op,
                                          ![q].sub = sub, ![q].primary = primary]
  <2>1. req[q] \in RequestRecord /\ req[q].rows = {} /\ req[q].held = {} /\ sub \in User
    BY <1>1, <1>4 DEF IInv, TypeOK, RowsAreOwn, Seen
  <2>2. /\ req' \in [Request -> RequestRecord]
        /\ req'[q].at = "authenticating" /\ req'[q].op = op
        /\ req'[q].sub \in User /\ req'[q].rows = {} /\ req'[q].held = {}
        /\ \A r \in Request \ {q} : req'[r] = req[r]
    BY <1>4, <2>1, ZenonT(30) DEF IInv, TypeOK, RequestRecord, Step, Operation
  <2> QED  BY <1>1, <1>2, <2>2, QuietStep DEF Seen
<1> QED  BY <1>3, <1>4 DEF Call

LEMMA SelectExistingStep ==
    ASSUME IInv, NEW q \in Request, SelectExisting(q)
    PROVE  IInv'
<1>1. /\ req[q].at = "selecting" /\ UNCHANGED <<users, links, tokens, overlapped, chosen>>
      /\ Answer(q, "409") \/ Go(q, "inserting")
      /\ tokens' \in SUBSET User /\ TypeOK
  BY DEF SelectExisting, At, IInv, TypeOK
<1>2. CASE Answer(q, "409")
  BY <1>1, <1>2, QuietAnswer
<1>3. CASE Go(q, "inserting")
  <2>1. "inserting" \in Step
    BY DEF Step
  <2>2. /\ req' \in [Request -> RequestRecord]
        /\ req'[q] = [req[q] EXCEPT !.at = "inserting"]
        /\ \A p \in Request \ {q} : req'[p] = req[p]
    BY <1>1, <1>3, <2>1, GoType
  <2>3. req[q] \in RequestRecord /\ req[q].rows = {} /\ req[q].held = {}
        /\ req[q].mail \in Spelling /\ req[q].pw \in Password
    BY <1>1 DEF IInv, TypeOK, RowsAreOwn, Seen, Kept
  <2>4. /\ req'[q].at = "inserting" /\ req'[q].rows = {} /\ req'[q].held = {}
        /\ req'[q].mail \in Spelling /\ req'[q].pw \in Password
    BY <2>2, <2>3 DEF RequestRecord
  <2> QED  BY <1>1, <2>2, <2>4, QuietStep DEF Seen
<1> QED  BY <1>1, <1>2, <1>3

\* The commit of a registration: nobody has the address, and what the others
\* remember is of other users.
LEMMA InsertUserStep ==
    ASSUME IInv, NEW q \in Request, InsertUser(q)
    PROVE  IInv'
<1>1. /\ req[q].at = "inserting" /\ UNCHANGED <<links, tokens, overlapped>>
      /\ req[q].mail \in Spelling /\ req[q].pw \in Password
      /\ tokens' \in SUBSET User /\ TypeOK
  BY DEF InsertUser, At, IInv, TypeOK, Kept
<1>2. CASE WithMail(req[q].mail) # {}
  <2>1. Answer(q, "503") /\ UNCHANGED <<users, chosen>>
    BY <1>2 DEF InsertUser
  <2> QED  BY <1>1, <2>1, QuietAnswer
<1>3. CASE WithMail(req[q].mail) = {}
  <2>1. /\ users' = [users EXCEPT ![q] = NewUser(q)]
        /\ chosen' = [chosen EXCEPT ![q] = req[q].pw]
        /\ Answer(q, "200")
    BY <1>3 DEF InsertUser
  <2>2. /\ req' \in [Request -> RequestRecord]
        /\ req'[q].at = "done" /\ req'[q].rows = {} /\ req'[q].held = {}
        /\ \A p \in Request \ {q} : req'[p] = req[p]
    BY <1>1, <2>1, AnswerType
  <2>3. /\ NewUser(q) \in UserRow
        /\ NewUser(q).email = Normal(req[q].mail)
        /\ NewUser(q).hash.of = req[q].pw
    <3>1. Normal(req[q].mail) \in Spelling
      BY <1>1, NormalSpelling
    <3>2. [of |-> req[q].pw, legacy |-> FALSE] \in Hash
      BY <1>1 DEF Hash
    <3>3. (req[q].mail.of \in Admins) \in BOOLEAN
      OBVIOUS
    <3> QED  BY <3>1, <3>2, <3>3 DEF NewUser, UserRow
  <2>4. /\ users'[q] = NewUser(q) /\ chosen'[q] = req[q].pw
        /\ \A u \in User \ {q} : users'[u] = users[u] /\ chosen'[u] = chosen[u]
        /\ q \in User
    BY <1>1, <2>1 DEF TypeOK, User
  <2>5. TypeOK'
    BY <1>1, <2>1, <2>2, <2>3 DEF TypeOK
  <2>6. Plain'
    <3>1. NewUser(q).email.plain = TRUE
      BY <1>1, <2>3, NormalSpelling
    <3> QED  BY <2>4, <3>1 DEF IInv, Plain
  <2>7. Created' /\ Kept'
    BY <1>1, <2>2, <2>4 DEF IInv, Created, Kept, User
  <2>8. RehashesWhatIsChosen'
    <3> SUFFICES ASSUME NEW p \in Request, req'[p].at = "rehashing"
                 PROVE  /\ users'[req'[p].sub] \in UserRow
                        /\ req'[p].pw = chosen'[req'[p].sub]
                        /\ req'[p].sub \in Request => req'[req'[p].sub].at = "done"
      BY DEF RehashesWhatIsChosen
    <3>1. p # q /\ req'[p] = req[p]
      BY <2>2
    <3>2. req[p].sub # q /\ req[p].sub \in User
      BY <1>1, <3>1 DEF IInv, RehashesWhatIsChosen, Kept
    <3> QED  BY <2>2, <2>4, <3>1, <3>2 DEF IInv, RehashesWhatIsChosen
  <2>9. (RowsAreOwn /\ HeldAreThere)'
    BY <1>1, <2>2 DEF IInv, RowsAreOwn, HeldAreThere, Seen
  <2>10. (UnseenOverlapped /\ OnePrimaryUnlessOverlapped)'
    BY <1>1, <2>2 DEF IInv, UnseenOverlapped, Seen, OnePrimaryUnlessOverlapped, Primaries, Owned
  <2>11. OneUserPerEmail'
    <3>1. \A u \in Existing : users[u].email # Normal(req[q].mail)
      BY <1>3 DEF WithMail
    <3>2. \A u \in Existing : users[u].email.of # req[q].mail.of
      BY <1>1, <3>1, NormalIsOne DEF IInv, Plain, Existing, TypeOK, UserRow
    <3>3. NewUser(q).email.of = req[q].mail.of
      BY <1>1, <2>3, NormalSpelling
    <3> QED  BY <2>4, <3>2, <3>3 DEF IInv, OneUserPerEmail, Existing
  <2>12. PasswordKept'
    BY <2>3, <2>4 DEF IInv, PasswordKept, Existing, Verified
  <2> QED  BY <2>5, <2>6, <2>7, <2>8, <2>9, <2>10, <2>11, <2>12 DEF IInv
<1> QED  BY <1>2, <1>3

LEMMA ReadUserStep ==
    ASSUME IInv, NEW q \in Request, ReadUser(q)
    PROVE  IInv'
<1>1. /\ req[q].at = "reading" /\ UNCHANGED <<users, links, overlapped, chosen>>
      /\ req[q].mail \in Spelling /\ req[q].pw \in Password
      /\ req[q] \in RequestRecord /\ req[q].rows = {} /\ req[q].held = {} /\ TypeOK
  BY DEF ReadUser, At, IInv, TypeOK, Kept, RowsAreOwn, Seen
<1>2. CASE \E code \in {"401", "403"} : Answer(q, code) /\ UNCHANGED tokens
  <2>1. tokens' \in SUBSET User
    BY <1>1, <1>2 DEF TypeOK
  <2> QED  BY <1>1, <1>2, <2>1, QuietAnswer
<1>3. ASSUME NEW u \in WithMail(req[q].mail),
             \/ Answer(q, "200") /\ tokens' = tokens \cup {u}
             \/ /\ Verified(req[q].pw, users[u].hash)
                /\ req' = [req EXCEPT ![q].at = "rehashing", ![q].sub = u]
                /\ UNCHANGED tokens
      PROVE  IInv'
  <2>1. u \in User /\ users[u] # Null /\ users[u] \in UserRow
    BY <1>1 DEF WithMail, Existing, TypeOK
  <2>2. tokens' \in SUBSET User
    BY <1>1, <1>3, <2>1 DEF TypeOK
  <2>3. CASE Answer(q, "200")
    BY <1>1, <2>2, <2>3, QuietAnswer
  <2>4. CASE Verified(req[q].pw, users[u].hash)
               /\ req' = [req EXCEPT ![q].at = "rehashing", ![q].sub = u]
    <3>1. req[q].pw = chosen[u]
      BY <2>1, <2>4 DEF IInv, PasswordKept, Existing, Verified
    <3>2. /\ req' \in [Request -> RequestRecord]
          /\ req'[q].at = "rehashing" /\ req'[q].sub = u /\ req'[q].rows = {} /\ req'[q].held = {}
          /\ req'[q].mail = req[q].mail /\ req'[q].pw = req[q].pw
          /\ \A p \in Request \ {q} : req'[p] = req[p]
      BY <1>1, <2>1, <2>4 DEF TypeOK, RequestRecord, Step
    <3> QED  BY <1>1, <2>1, <2>2, <3>1, <3>2, QuietStep DEF Seen
  <2> QED  BY <1>3, <2>3, <2>4
<1>4. \/ \E code \in {"401", "403"} : Answer(q, code) /\ UNCHANGED tokens
      \/ \E u \in WithMail(req[q].mail) :
            \/ Answer(q, "200") /\ tokens' = tokens \cup {u}
            \/ /\ Verified(req[q].pw, users[u].hash)
               /\ req' = [req EXCEPT ![q].at = "rehashing", ![q].sub = u]
               /\ UNCHANGED tokens
  BY DEF ReadUser
<1> QED  BY <1>2, <1>3, <1>4

\* The rehash stores the password the user has registered with.
LEMMA RehashStep ==
    ASSUME IInv, NEW q \in Request, Rehash(q)
    PROVE  IInv'
<1> DEFINE u == req[q].sub
           h == [of |-> req[q].pw, legacy |-> FALSE]
<1>1. /\ req[q].at = "rehashing" /\ UNCHANGED <<links, overlapped, chosen>>
      /\ Answer(q, "200") /\ tokens' = tokens \cup {u}
      /\ u \in User /\ req[q].pw \in Password /\ TypeOK
      /\ users[u] \in UserRow /\ req[q].pw = chosen[u]
      /\ u \in Request => req[u].at = "done"
  BY DEF Rehash, At, IInv, TypeOK, Kept, RehashesWhatIsChosen
<1>2. tokens' \in SUBSET User
  BY <1>1 DEF TypeOK
<1>3. CASE UNCHANGED users
  BY <1>1, <1>2, <1>3, QuietAnswer
<1>4. CASE users' = [users EXCEPT ![u].hash = h]
  <2>1. /\ req' \in [Request -> RequestRecord]
        /\ req'[q].at = "done" /\ req'[q].rows = {} /\ req'[q].held = {}
        /\ \A p \in Request \ {q} : req'[p] = req[p]
    BY <1>1, AnswerType
  <2>2. h \in Hash /\ h.of = req[q].pw
    BY <1>1 DEF Hash
  <2>3. /\ users'[u] = [users[u] EXCEPT !.hash = h]
        /\ \A v \in User \ {u} : users'[v] = users[v]
        /\ DOMAIN users' = User
    BY <1>1, <1>4 DEF TypeOK
  <2> HIDE DEF h
  <2>4. /\ users'[u] \in UserRow /\ users'[u].hash = h
        /\ users'[u].email = users[u].email
    BY <1>1, <2>2, <2>3 DEF UserRow
  <2>5. users' \in [User -> UserRow \cup {Null}]
    BY <1>1, <1>4, <2>3, <2>4 DEF TypeOK
  <2>6. TypeOK'
    BY <1>1, <1>2, <2>1, <2>5 DEF TypeOK
  <2>7. u \notin Request \/ req[u].at = "done"
    BY <1>1
  <2>8. Created' /\ Kept'
    BY <1>1, <2>1, <2>3, <2>7 DEF IInv, Created, Kept, User
  <2>9. RehashesWhatIsChosen'
    <3> SUFFICES ASSUME NEW p \in Request, req'[p].at = "rehashing"
                 PROVE  /\ users'[req'[p].sub] \in UserRow
                        /\ req'[p].pw = chosen'[req'[p].sub]
                        /\ req'[p].sub \in Request => req'[req'[p].sub].at = "done"
      BY DEF RehashesWhatIsChosen
    <3>1. p # q /\ req'[p] = req[p] /\ req[p].sub \in User
      BY <2>1 DEF IInv, Kept
    <3> QED  BY <1>1, <2>1, <2>3, <2>4, <3>1 DEF IInv, RehashesWhatIsChosen
  <2>10. (RowsAreOwn /\ HeldAreThere)'
    BY <1>1, <2>1 DEF IInv, RowsAreOwn, HeldAreThere, Seen
  <2>11. (UnseenOverlapped /\ OnePrimaryUnlessOverlapped)'
    BY <1>1, <2>1 DEF IInv, UnseenOverlapped, Seen, OnePrimaryUnlessOverlapped, Primaries, Owned
  <2>12. (Plain /\ OneUserPerEmail)'
    <3>1. users[u] # Null
      BY <1>1, RowAssumption
    <3>2. Existing' \subseteq Existing /\ u \in Existing
      BY <1>1, <2>3, <3>1 DEF Existing
    <3>3. \A v \in Existing' : users'[v].email = users[v].email
      BY <2>3, <2>4, <3>2 DEF Existing
    <3> QED  BY <3>2, <3>3 DEF IInv, Plain, OneUserPerEmail, Existing
  <2>13. PasswordKept'
    BY <1>1, <2>2, <2>3, <2>4 DEF IInv, PasswordKept, Existing, Verified
  <2> QED  BY <2>6, <2>8, <2>9, <2>10, <2>11, <2>12, <2>13 DEF IInv
<1> QED  BY <1>1, <1>3, <1>4 DEF Rehash

LEMMA AuthenticateStep ==
    ASSUME IInv, NEW q \in Request, Authenticate(q)
    PROVE  IInv'
<1>1. /\ req[q].at = "authenticating" /\ UNCHANGED <<users, links, tokens, overlapped, chosen>>
      /\ req[q] \in RequestRecord /\ req[q].rows = {} /\ req[q].held = {} /\ req[q].sub \in User
      /\ tokens' \in SUBSET User /\ TypeOK
  BY DEF Authenticate, IInv, TypeOK, Kept, RowsAreOwn, Seen
<1>2. CASE \E code \in {"200", "401", "403"} : Answer(q, code)
  BY <1>1, <1>2, QuietAnswer
<1>3. CASE Go(q, req[q].op) /\ req[q].op \in {"link", "unlink", "list"}
  <2>1. req[q].op \in Step
    BY <1>3 DEF Step
  <2>2. /\ req' \in [Request -> RequestRecord]
        /\ req'[q] = [req[q] EXCEPT !.at = req[q].op]
        /\ \A p \in Request \ {q} : req'[p] = req[p]
    BY <1>1, <1>3, <2>1, GoType
  <2>3. /\ req'[q].at \in {"link", "unlink", "list"}
        /\ req'[q].rows = {} /\ req'[q].held = {} /\ req'[q].sub \in User
    BY <1>1, <1>3, <2>2 DEF RequestRecord
  <2> QED  BY <1>1, <2>2, <2>3, QuietStep DEF Seen
<1>4. req[q].op \in {"link", "unlink", "list", "admin"}
  BY <1>1 DEF IInv, Kept
<1> QED  BY <1>2, <1>3, <1>4 DEF Authenticate

\* An UPDATE that has to reset the primary accounts sees every one committed by now.
LEMMA BeginLinkStep ==
    ASSUME IInv, NEW q \in Request, BeginLink(q)
    PROVE  IInv'
<1>1. /\ req[q].at = "link" /\ req[q].op = "link"
      /\ UNCHANGED <<users, links, tokens, overlapped, chosen>>
      /\ req[q] \in RequestRecord /\ req[q].rows = {} /\ req[q].held = {} /\ req[q].sub \in User
      /\ tokens' \in SUBSET User /\ TypeOK
  BY DEF BeginLink, At, IInv, TypeOK, Kept, RowsAreOwn, Seen
<1>2. req' = [req EXCEPT ![q].at = "committing",
                        ![q].rows = IF req[q].primary THEN Owned(req[q].sub) ELSE {}]
  BY DEF BeginLink
<1>3. (IF req[q].primary THEN Owned(req[q].sub) ELSE {}) \in SUBSET LinkId
  BY DEF Owned
<1>4. /\ req' \in [Request -> RequestRecord]
      /\ req'[q].at = "committing" /\ req'[q].held = {}
      /\ req'[q].rows = IF req[q].primary THEN Owned(req[q].sub) ELSE {}
      /\ req'[q].sub = req[q].sub /\ req'[q].op = "link" /\ req'[q].primary = req[q].primary
      /\ \A p \in Request \ {q} : req'[p] = req[p]
  <2> HIDE DEF Owned
  <2> QED  BY <1>1, <1>2, <1>3 DEF TypeOK, RequestRecord, Step
<1>5. \A l \in Seen(q)' :
          /\ l \in Request => req[l].at = "done"
          /\ links[l] # Null => links[l].user = req'[q].sub
  BY <1>4 DEF Seen, Owned, IInv, Created
<1>6. req'[q].primary => \A l \in Primaries(req'[q].sub) : l \in Seen(q)'
  BY <1>4 DEF Seen, Primaries
<1>7. Seen(q)' # {} => req'[q].at = "committing"
  BY <1>4
<1> QED  BY <1>1, <1>4, <1>5, <1>6, <1>7, QuietStep

\* An UPDATE passes over a row only if it has been deleted.
LEMMA ResetPrimaryStep ==
    ASSUME IInv, NEW q \in Request, ResetPrimary(q)
    PROVE  IInv'
<1>1. /\ req[q].at = "committing" /\ req[q].op = "link"
      /\ UNCHANGED <<users, links, tokens, overlapped, chosen>>
      /\ req[q] \in RequestRecord /\ req[q].sub \in User
      /\ tokens' \in SUBSET User /\ TypeOK
  BY DEF ResetPrimary, At, IInv, TypeOK, Kept
<1>2. PICK l \in req[q].rows :
          req' = [req EXCEPT ![q].rows = @ \ {l},
                             ![q].held = @ \cup ({l} \cap Owned(req[q].sub))]
  BY DEF ResetPrimary
<1>3. l \in LinkId
  BY <1>1 DEF RequestRecord
<1>4. /\ req' \in [Request -> RequestRecord]
      /\ req'[q].at = "committing" /\ req'[q].op = "link"
      /\ req'[q].sub = req[q].sub /\ req'[q].primary = req[q].primary
      /\ req'[q].rows = req[q].rows \ {l}
      /\ req'[q].held = req[q].held \cup ({l} \cap Owned(req[q].sub))
      /\ \A p \in Request \ {q} : req'[p] = req[p]
  <2> HIDE DEF Owned
  <2> QED  BY <1>1, <1>2, <1>3 DEF TypeOK, RequestRecord
<1>5. Seen(q)' \subseteq Seen(q)
  BY <1>4 DEF Seen
<1>6. \A k \in Seen(q)' :
          /\ k \in Request => req[k].at = "done"
          /\ links[k] # Null => links[k].user = req'[q].sub
  BY <1>4, <1>5 DEF IInv, RowsAreOwn
<1>7. \A k \in req'[q].held : links[k] # Null
  BY <1>4 DEF IInv, HeldAreThere, Owned
<1>8. req'[q].primary =>
          \A k \in Primaries(req'[q].sub) : k \in Seen(q)' \/ <<k, q>> \in overlapped
  BY <1>1, <1>4 DEF IInv, UnseenOverlapped, Seen, Primaries
<1>9. Seen(q)' # {} => req'[q].at = "committing"
  BY <1>4
<1> QED  BY <1>1, <1>4, <1>6, <1>7, <1>8, <1>9, QuietStep

\* An answer that changes links only leaves what concerns users as it is.
LEMMA LinksChange ==
    ASSUME IInv, NEW q \in Request, Answer(q, "200"), req[q].at # "done",
           UNCHANGED <<users, tokens, chosen>>
    PROVE  /\ (Plain /\ Kept /\ RehashesWhatIsChosen /\ OneUserPerEmail /\ PasswordKept)'
           /\ \A p \in Request : users'[p] # Null => req'[p].at = "done"
<1>1. /\ req'[q].at = "done" /\ req'[q].rows = {} /\ req'[q].held = {}
      /\ \A p \in Request \ {q} : req'[p] = req[p]
  BY AnswerType DEF IInv
<1>2. (Plain /\ OneUserPerEmail /\ PasswordKept)'
  BY DEF IInv, Plain, OneUserPerEmail, PasswordKept, Existing
<1>3. Kept'
  BY <1>1 DEF IInv, Kept
<1>4. RehashesWhatIsChosen'
  BY <1>1 DEF IInv, RehashesWhatIsChosen, Kept
<1> QED  BY <1>1, <1>2, <1>3, <1>4 DEF IInv, Created

\* The commit of a link: the rows it has seen are reset, and the primary accounts that
\* it has not seen are recorded as overlapping with it.
LEMMA CommitLinkStep ==
    ASSUME IInv, NEW q \in Request, CommitLink(q)
    PROVE  IInv'
<1> DEFINE new == [user |-> req[q].sub, primary |-> req[q].primary]
<1>1. /\ req[q].at = "committing" /\ req[q].op = "link" /\ Answer(q, "200")
      /\ Seen(q) = req[q].held
      /\ UNCHANGED <<users, tokens, chosen>>
      /\ req[q] \in RequestRecord /\ req[q].sub \in User /\ req[q].primary \in BOOLEAN
      /\ TypeOK
  BY DEF CommitLink, At, IInv, TypeOK, Kept, RequestRecord, Seen
<1>2. /\ req' \in [Request -> RequestRecord]
      /\ req'[q].at = "done" /\ req'[q].rows = {} /\ req'[q].held = {}
      /\ \A p \in Request \ {q} : req'[p] = req[p]
  BY <1>1, AnswerType
<1>3. /\ DOMAIN links' = LinkId /\ q \in LinkId
      /\ links'[q] = new
      /\ \A l \in LinkId \ {q} :
            links'[l] = IF l \in req[q].held THEN [links[l] EXCEPT !.primary = FALSE] ELSE links[l]
  BY DEF CommitLink, LinkId
<1>4. new \in LinkRow /\ new.user = req[q].sub /\ new.primary = req[q].primary
  BY <1>1 DEF LinkRow
<1> HIDE DEF new
<1>5. \A l \in LinkId \ {q} :
          /\ l \in req[q].held => /\ links'[l] \in LinkRow /\ ~links'[l].primary
                        /\ links'[l].user = links[l].user
          /\ l \notin req[q].held => links'[l] = links[l]
  <2>1. \A l \in req[q].held : links[l] \in LinkRow
    BY <1>1 DEF TypeOK, RequestRecord, IInv, HeldAreThere
  <2> QED  BY <1>3, <2>1 DEF LinkRow
<1>6. overlapped' = IF req[q].primary
                    THEN overlapped \cup ({q} \X (InReset(req[q].sub) \ {q}))
                    ELSE overlapped
  BY DEF CommitLink
<1>7. TypeOK'
  <2>1. links' \in [LinkId -> LinkRow \cup {Null}]
    BY <1>1, <1>3, <1>4, <1>5 DEF CommitLink, TypeOK
  <2>2. overlapped' \in SUBSET (Request \X Request)
    BY <1>1, <1>6 DEF TypeOK, InReset
  <2> QED  BY <1>1, <1>2, <2>1, <2>2 DEF TypeOK
<1>8. /\ (Plain /\ Kept /\ RehashesWhatIsChosen /\ OneUserPerEmail /\ PasswordKept)'
      /\ \A p \in Request : users'[p] # Null => req'[p].at = "done"
  BY <1>1, LinksChange
<1>9. Created'
  <2>1. \A l \in LinkId \ {q} : links'[l] # Null => links[l] # Null
    BY <1>1, <1>5 DEF IInv, HeldAreThere
  <2> QED  BY <1>2, <1>8, <2>1 DEF Created, IInv, LinkId
<1>10. (RowsAreOwn /\ HeldAreThere)'
  <2> SUFFICES ASSUME NEW p \in Request
               PROVE  /\ Seen(p)' # {} => req'[p].at = "committing"
                      /\ \A l \in Seen(p)' :
                            /\ l \in Request => req'[l].at = "done"
                            /\ links'[l] # Null => links'[l].user = req'[p].sub
                      /\ \A l \in req'[p].held : links'[l] # Null
    BY DEF RowsAreOwn, HeldAreThere
  <2>1. CASE p = q
    BY <1>2, <2>1 DEF Seen
  <2>2. CASE p # q
    <3>1. req'[p] = req[p] /\ Seen(p)' = Seen(p) /\ Seen(p) \subseteq LinkId
      BY <1>1, <1>2, <2>2 DEF TypeOK, RequestRecord, Seen
    <3>2. ASSUME NEW l \in Seen(p)
          PROVE  /\ l \in Request => req'[l].at = "done"
                 /\ links'[l] # Null => links'[l].user = req[p].sub
                 /\ links[l] # Null => links'[l] # Null
      <4>1. l \in LinkId \ {q} /\ (l \in Request => req[l].at = "done")
        BY <1>1, <3>1 DEF IInv, RowsAreOwn
      <4>2. links'[l] # Null => links[l] # Null /\ links'[l].user = links[l].user
        BY <1>5, <4>1 DEF IInv, HeldAreThere
      <4>3. links[l] # Null => links'[l] # Null
        BY <1>5, <4>1, RowAssumption
      <4> QED  BY <1>2, <4>1, <4>2, <4>3 DEF IInv, RowsAreOwn
    <3> QED  BY <3>1, <3>2 DEF IInv, RowsAreOwn, HeldAreThere, Seen
  <2> QED  BY <2>1, <2>2
<1>11. \A u \in User : \A l \in Primaries(u)' \ {q} : l \in Primaries(u) /\ l \notin req[q].held
  BY <1>3, <1>5 DEF Primaries, Owned
<1>12. UnseenOverlapped'
  <2> SUFFICES ASSUME NEW p \in Request, req'[p].at = "committing",
                      req'[p].primary, NEW l \in Primaries(req[p].sub)'
               PROVE  l \in Seen(p)' \/ <<l, p>> \in overlapped'
    BY DEF UnseenOverlapped
  <2>1. p # q /\ req'[p] = req[p] /\ req[p].sub \in User /\ req[p].op = "link"
    BY <1>2 DEF IInv, Kept
  <2>2. CASE l = q
    <3>1. links'[q].user = req[p].sub /\ links'[q].primary
      BY <2>1, <2>2 DEF Primaries, Owned
    <3>2. req[q].primary /\ p \in InReset(req[q].sub) \ {q}
      BY <1>3, <1>4, <2>1, <3>1 DEF InReset
    <3> QED  BY <1>6, <2>2, <3>2
  <2>3. CASE l # q
    <3>1. l \in Primaries(req[p].sub)
      BY <1>11, <2>1, <2>3
    <3> QED  BY <1>6, <2>1, <3>1 DEF IInv, UnseenOverlapped, Seen
  <2> QED  BY <2>2, <2>3
<1>13. OnePrimaryUnlessOverlapped'
  <2> SUFFICES ASSUME NEW u \in User, NEW k \in Primaries(u)', NEW l \in Primaries(u)',
                      k # l
               PROVE  <<k, l>> \in overlapped' \/ <<l, k>> \in overlapped'
    BY DEF OnePrimaryUnlessOverlapped
  <2>1. ASSUME NEW j \in Primaries(u)' \ {q}, q \in Primaries(u)'
        PROVE  <<j, q>> \in overlapped'
    <3>1. u = req[q].sub /\ req[q].primary
      BY <1>3, <1>4, <2>1 DEF Primaries, Owned
    <3>2. j \in Primaries(u) /\ j \notin req[q].held /\ links[j] # Null
      BY <1>11, <2>1 DEF Primaries, Owned
    <3> QED  BY <1>1, <1>6, <3>1, <3>2 DEF IInv, UnseenOverlapped
  <2>2. CASE k = q \/ l = q
    BY <2>1, <2>2
  <2>3. CASE k # q /\ l # q
    BY <1>6, <1>11, <2>3 DEF IInv, OnePrimaryUnlessOverlapped
  <2> QED  BY <2>2, <2>3
<1> QED  BY <1>7, <1>8, <1>9, <1>10, <1>12, <1>13 DEF IInv

LEMMA UnlinkStep ==
    ASSUME IInv, NEW q \in Request, NEW l \in LinkId, Unlink(q, l)
    PROVE  IInv'
<1>1. /\ req[q].at = "unlink" /\ UNCHANGED <<users, tokens, overlapped, chosen>> /\ TypeOK
      /\ tokens' \in SUBSET User
  BY DEF Unlink, At, IInv, TypeOK
<1>2. CASE Answer(q, "404") /\ UNCHANGED links
  BY <1>1, <1>2, QuietAnswer
<1>3. CASE links' = [links EXCEPT ![l] = Null] /\ Answer(q, "200") /\ Free(q, l)
  <2>1. /\ req' \in [Request -> RequestRecord]
        /\ req'[q].at = "done" /\ req'[q].rows = {} /\ req'[q].held = {}
        /\ \A p \in Request \ {q} : req'[p] = req[p]
    BY <1>1, <1>3, AnswerType
  <2>2. links'[l] = Null /\ \A k \in LinkId \ {l} : links'[k] = links[k]
    BY <1>1, <1>3 DEF TypeOK
  <2>3. TypeOK'
    BY <1>1, <1>3, <2>1 DEF TypeOK
  <2>4. /\ (Plain /\ Kept /\ RehashesWhatIsChosen /\ OneUserPerEmail /\ PasswordKept)'
        /\ \A p \in Request : users'[p] # Null => req'[p].at = "done"
    BY <1>1, <1>3, LinksChange
  <2>5. Created'
    BY <2>1, <2>2, <2>4 DEF IInv, Created, LinkId
  <2>6. (RowsAreOwn /\ HeldAreThere)'
    <3>1. \A p \in Request : Seen(p) \subseteq LinkId /\ req[p].held \subseteq LinkId
      BY <1>1 DEF TypeOK, RequestRecord, Seen
    <3>2. \A p \in Request \ {q} : l \notin req[p].held
      BY <1>3 DEF Free
    <3>3. RowsAreOwn'
      BY <1>1, <2>1, <2>2, <3>1 DEF IInv, RowsAreOwn, Seen
    <3>4. HeldAreThere'
      BY <2>1, <2>2, <3>1, <3>2 DEF IInv, HeldAreThere
    <3> QED  BY <3>3, <3>4
  <2>7. \A u : Primaries(u)' \subseteq Primaries(u)
    BY <2>2 DEF Primaries, Owned
  <2>8. (UnseenOverlapped /\ OnePrimaryUnlessOverlapped)'
    BY <1>1, <2>1, <2>7 DEF IInv, UnseenOverlapped, Seen, OnePrimaryUnlessOverlapped
  <2> QED  BY <2>3, <2>4, <2>5, <2>6, <2>8 DEF IInv
<1> QED  BY <1>2, <1>3 DEF Unlink

LEMMA DeactivateStep ==
    ASSUME IInv, NEW u \in User, Deactivate(u)
    PROVE  IInv'
<1>1. /\ users[u] # Null /\ users' = [users EXCEPT ![u].active = FALSE] /\ TypeOK
      /\ UNCHANGED <<links, tokens, req, overlapped, chosen>>
  BY DEF Deactivate, IInv
<1>2. /\ users'[u] = [users[u] EXCEPT !.active = FALSE] /\ users[u] \in UserRow
      /\ \A v \in User \ {u} : users'[v] = users[v]
      /\ users' \in [User -> UserRow \cup {Null}]
  BY <1>1 DEF TypeOK, UserRow
<1>3. /\ users'[u] \in UserRow /\ users'[u].email = users[u].email
      /\ users'[u].hash = users[u].hash
  BY <1>2 DEF UserRow
<1>4. Existing' = Existing
  BY <1>1, <1>2, <1>3, RowAssumption DEF Existing
<1>5. \A v \in User : users[v] # Null =>
          users'[v] # Null /\ users'[v].email = users[v].email /\ users'[v].hash = users[v].hash
  BY <1>2, <1>3, RowAssumption
<1>6. (Plain /\ OneUserPerEmail /\ PasswordKept)'
  BY <1>1, <1>2, <1>4, <1>5 DEF IInv, Plain, OneUserPerEmail, PasswordKept, Existing, Verified
<1>7. TypeOK'
  BY <1>1, <1>2 DEF TypeOK
<1>8. Created'
  BY <1>1, <1>4 DEF IInv, Created, Existing, User
<1>9. Kept'
  BY <1>1 DEF IInv, Kept
<1>10. RehashesWhatIsChosen'
  BY <1>1, <1>2, <1>3 DEF IInv, RehashesWhatIsChosen, Kept
<1>11. (RowsAreOwn /\ HeldAreThere /\ UnseenOverlapped /\ OnePrimaryUnlessOverlapped)'
  BY <1>1 DEF IInv, RowsAreOwn, HeldAreThere, UnseenOverlapped, Seen, OnePrimaryUnlessOverlapped,
     Primaries, Owned
<1> QED  BY <1>6, <1>7, <1>8, <1>9, <1>10, <1>11 DEF IInv

LEMMA StepInv == IInv /\ [Next]_vars => IInv'
<1> SUFFICES ASSUME IInv, [Next]_vars PROVE IInv'
  OBVIOUS
<1>1. CASE UNCHANGED vars
  BY <1>1 DEF vars, IInv, TypeOK, Plain, Created, Kept, RehashesWhatIsChosen, RowsAreOwn,
     HeldAreThere, UnseenOverlapped, Seen, OneUserPerEmail, PasswordKept, OnePrimaryUnlessOverlapped,
     Existing, Primaries, Owned
<1>2. ASSUME NEW q \in Request, Arrive(q)
      PROVE  IInv'
  BY <1>2, RegisterStep, CallStep DEF Arrive
<1>3. ASSUME NEW q \in Request, Serve(q)
      PROVE  IInv'
  <2>1. CASE ListLinks(q)
    <3>1. /\ req[q].at = "list" /\ Answer(q, "200")
          /\ UNCHANGED <<users, links, tokens, overlapped, chosen>>
          /\ tokens' \in SUBSET User
      BY <2>1 DEF ListLinks, At, IInv, TypeOK
    <3> QED  BY <3>1, QuietAnswer
  <2> QED  BY <1>3, <2>1, SelectExistingStep, InsertUserStep, ReadUserStep, RehashStep,
              AuthenticateStep, BeginLinkStep, ResetPrimaryStep, CommitLinkStep, UnlinkStep
           DEF Serve
<1>4. ASSUME NEW q \in Request, StorageFails(q)
      PROVE  IInv'
  <2>1. /\ req[q].at # "done" /\ Answer(q, "503")
        /\ UNCHANGED <<users, links, tokens, overlapped, chosen>>
        /\ tokens' \in SUBSET User
    BY <1>4 DEF StorageFails, IInv, TypeOK
  <2> QED  BY <2>1, QuietAnswer
<1>5. ASSUME NEW u \in User, Deactivate(u)
      PROVE  IInv'
  BY <1>5, DeactivateStep
<1> QED  BY <1>1, <1>2, <1>3, <1>4, <1>5 DEF Next

----------------------------------------------------------------------------
(* Theorems.                                                               *)

LEMMA Invariance == Spec => []IInv
<1> QED  BY InitInv, StepInv, PTL DEF Spec

\* The users, links and tokens, and what each request keeps in memory, have their
\* types.
THEOREM TypeCorrect == Spec => []TypeOK
<1>1. IInv => TypeOK
  BY DEF IInv
<1> QED  BY <1>1, Invariance, PTL

\* However many registrations of an address interleave, and however it is spelled,
\* one user has it.
THEOREM OneUserPerEmailHolds == Spec => []OneUserPerEmail
<1>1. IInv => OneUserPerEmail
  BY DEF IInv
<1> QED  BY <1>1, Invariance, PTL

\* The transparent rehash of overlapping logins, and its failures, leave each user a
\* hash of the password registered.
THEOREM PasswordKeptHolds == Spec => []PasswordKept
<1>1. IInv => PasswordKept
  BY DEF IInv
<1> QED  BY <1>1, Invariance, PTL

\* Of two primary accounts of a user, one began its reset before the other was
\* committed.
THEOREM OnePrimaryUnlessOverlappedHolds == Spec => []OnePrimaryUnlessOverlapped
<1>1. IInv => OnePrimaryUnlessOverlapped
  BY DEF IInv
<1> QED  BY <1>1, Invariance, PTL

\* A step changes a link only for the user whose it is, or for whom it is new.
LEMMA OwnLinksStep ==
    ASSUME IInv, Next, NEW l \in LinkId, links'[l] # links[l]
    PROVE  \E q \in Request :
             /\ req[q].at # "done" /\ req'[q].answer = "200"
             /\ \/ links[l] # Null /\ links[l].user = req[q].sub
                \/ links[l] = Null /\ l = q /\ links'[l].user = req[q].sub
<1>1. TypeOK
  BY DEF IInv
<1>2. ASSUME NEW q \in Request, CommitLink(q)
      PROVE  /\ req[q].at # "done" /\ req'[q].answer = "200"
             /\ \/ links[l] # Null /\ links[l].user = req[q].sub
                \/ links[l] = Null /\ l = q /\ links'[l].user = req[q].sub
  <2>1. req[q].at = "committing" /\ Answer(q, "200")
    BY <1>2 DEF CommitLink, At
  <2>2. req'[q].answer = "200"
    BY <1>1, <2>1, AnswerType
  <2>3. CASE l = q
    <3>1. links[l] = Null
      BY <2>1, <2>3 DEF IInv, Created
    <3>2. links'[l].user = req[q].sub
      BY <1>2, <2>3 DEF CommitLink
    <3> QED  BY <2>1, <2>2, <2>3, <3>1, <3>2
  <2>4. CASE l # q
    <3>1. l \in req[q].held
      BY <1>2, <2>4 DEF CommitLink
    <3>2. links[l] # Null /\ links[l].user = req[q].sub
      BY <3>1 DEF IInv, RowsAreOwn, HeldAreThere, Seen
    <3> QED  BY <2>1, <2>2, <3>2
  <2> QED  BY <2>3, <2>4
<1>3. ASSUME NEW q \in Request, NEW k \in LinkId, Unlink(q, k)
      PROVE  /\ req[q].at # "done" /\ req'[q].answer = "200"
             /\ links[l] # Null /\ links[l].user = req[q].sub
  <2>1. /\ req[q].at = "unlink" /\ Answer(q, "200")
        /\ k \in Owned(req[q].sub) /\ links' = [links EXCEPT ![k] = Null]
    BY <1>3 DEF Unlink, At
  <2>2. req'[q].answer = "200"
    BY <1>1, <2>1, AnswerType
  <2>3. l = k
    BY <1>1, <2>1 DEF TypeOK
  <2> QED  BY <2>1, <2>2, <2>3 DEF Owned
<1>4. \E q \in Request : CommitLink(q) \/ \E k \in LinkId : Unlink(q, k)
  <2>1. \A q \in Request : Arrive(q) => UNCHANGED links
    BY ZenonT(30) DEF Arrive, Register, Login, Call
  <2>2. ASSUME NEW q \in Request, Serve(q)
        PROVE  UNCHANGED links \/ CommitLink(q) \/ \E k \in LinkId : Unlink(q, k)
    <3>1. SelectExisting(q) \/ InsertUser(q) \/ ReadUser(q) \/ Rehash(q) => UNCHANGED links
      BY DEF SelectExisting, InsertUser, ReadUser, Rehash
    <3>2. Authenticate(q) \/ BeginLink(q) \/ ResetPrimary(q) \/ ListLinks(q) => UNCHANGED links
      BY DEF Authenticate, BeginLink, ResetPrimary, ListLinks
    <3> QED  BY <2>2, <3>1, <3>2 DEF Serve
  <2>3. \A q \in Request : StorageFails(q) => UNCHANGED links
    BY DEF StorageFails
  <2>4. \A u \in User : Deactivate(u) => UNCHANGED links
    BY DEF Deactivate
  <2> QED  BY <2>1, <2>2, <2>3, <2>4 DEF Next
<1> QED  BY <1>2, <1>3, <1>4

\* A linked account changes only by the hand of its user.
THEOREM OnlyOwnLinksHolds == Spec => OnlyOwnLinks
<1>1. IInv /\ [Next]_vars =>
        [\A l \in LinkId : links'[l] # links[l] =>
            \E q \in Request :
               /\ req[q].at # "done" /\ req'[q].answer = "200"
               /\ \/ links[l] # Null /\ links[l].user = req[q].sub
                  \/ links[l] = Null /\ l = q /\ links'[l].user = req[q].sub]_vars
  BY OwnLinksStep
<1> QED  BY <1>1, Invariance, PTL DEF Spec, OnlyOwnLinks

=============================================================================
