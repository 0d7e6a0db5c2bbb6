# Specifications of ValorantAICoach

TLA+ specifications of the stateful core of ValorantAICoach, the TLC runs that
check them on small instances, and TLAPS proofs of their main theorems.  Paths
are relative to the root of the repository.

The program is a FastAPI backend (`backend/`), four coaching agents (`agents/`),
a Streamlit front end (`frontend/streamlit_app/`), an Angular front end
(`frontend/web/`) and a PostgreSQL schema (`database/`).  One uvicorn process
serves the API (`docker-compose.yml:6`); it keeps no state that matters across
a restart except in the database.

## 1. Inventory

| Component | State it keeps | Operations | Talks to |
|---|---|---|---|
| Read-through cache (`backend/app/storage/player_service.py`) | `_locks`, one asyncio lock per request key | `_cached` under `get_player`, `get_rank`, `get_stats_overview`, `get_recent_matches`, `get_match` | the store in threads, the provider chain |
| Player store (`backend/app/storage/repository.py`, `models.py`) | tables `players`, `player_snapshots`, `matches`, `player_match_history`, `coaching_reports`, `users`, `linked_player_accounts` | `get`, `put`, `prune_expired_snapshots`, `invalidate_player_cache`, reports, users, linked accounts | PostgreSQL, a connection pool |
| Provider chain (`backend/app/services/player_service.py`) | the configured providers; the failures of a request | five reads with fallback Tracker.gg, Henrik, Riot | provider clients |
| Provider clients (`backend/providers/`) | an HTTP session | `request` with retries; `RiotProvider`, `HenrikProvider`, `TrackerProvider` | remote HTTP APIs |
| Coaching sync and workers (`backend/main.py`) | two tasks of the lifespan | `_run_cache_prune_worker`, `_run_coaching_sync_worker`, `sync_all_tracked_accounts`, `sync_player_coaching` | cache, store, agents |
| Accounts (`backend/app/api/auth_router.py`) | `users`, `linked_player_accounts`; tokens in the hands of clients | register, login, link, unlink, list | store, password hashes, tokens |
| AI coach chat (`frontend/streamlit_app/utils/gemini_client.py`, `components/sections.py`) | the history in the session of a page | `send_message` over a chain of models, `trim_chat_history` | Gemini |
| Timeline (`backend/app/services/timeline_service.py`) | none | a match detail becomes rounds, trades, clutches, economy; analytics sum over matches | store, provider chain |
| Progression, overview, health (`backend/app/services/player_service.py`) | none; reads the stored reports | `get_player_progression`, `get_player_overview`, `health` | provider chain, store |
| Synergy (`backend/app/services/synergy_service.py`, `content/catalog.py`) | none | score of a composition, counter picks, threats | static tables |
| Agents (`agents/`) | none between runs | orchestrator over match analyst, economy coach, role coach, report writer | - |
| Vision (`backend/app/services/vision_service.py`) | none | image to match, then one `put` | an LLM, store |
| Web client (`frontend/web/`) | token in memory and in `sessionStorage`, signals of the pages | guard, interceptor, pages with their calls | API |
| HTTP layer, configuration, schemas, migrations, Streamlit pages | none of their own | validation, headers, rendering | all of the above |

What is hard about it, component by component:

- **Cache.** Coroutines interleave at each `await` between the read of a
  snapshot and the `put` of its replacement.  Invalidation, the prune worker and
  a restart take no lock and fall between any two of those steps; `put` and prune
  read the clock before their transactions.  A stored match detail may stand in
  for Riot.  Right means: one fetch per key at a time, no needless fetch, no
  answer older than one already given, no lock left behind.
- **Store.** `put` writes up to 42 rows of four tables in one transaction, over
  matches that several players share.  Right means: puts cannot deadlock, and
  prune deletes nothing that was renewed while it waited for a row lock.
- **Provider chain.** Retries within calls within providers, three kinds of
  failure, four that are tolerated.  Right means: "not found" is the answer of
  all who were asked, an outage never becomes an empty history, the work is
  bounded.
- **Sync.** Swallowed failures, overlapping syncs of one player, cancellation of
  a worker whose database call goes on in a thread, a crash between the report
  and its mark, one player under keys of several regions.
- **Accounts.** Each handler is several storage transactions.  Two registrations
  of one address both see none; a login rehashes the password it verified with a
  row read before; two links that set the primary account each reset only the
  rows they see, lock them one by one and may deadlock.  Right means: one user per
  address, a hash that still verifies the user's password, one primary account,
  nobody touches another's links, every request ends.
- **Chat.** Streamlit ends a run of the page at its next call when the user
  clicks, so a question may stand without an answer; the history is cut in
  exchanges and bytes; a failed question is taken back with `pop()`.  Right means:
  what remains is a conversation, and each call to the chain of models ends.
- **Timeline.** Kills are listed by player, not by time; the trade window, the
  change of sides and an undecided round are boundaries; the payload must be read
  for the player's team although the store knows him by a hash.
- **Progression, reports.** Reads that may fail one by one; averages over halves
  of a history whose order is the provider's; keys of a dictionary that writer and
  reader must agree on.
- **Synergy.** A score of many terms, clamped, which should not fall because a
  useful agent was added.
- **Web client.** Answers outlive the page that asked, and arrive in any order,
  also after a logout, a login as somebody else, or an expiry.  Right means: an
  ended session stays ended, and a button is disabled exactly as long as its call.

`PROJECT.json` lists these hazards one by one, at their lines, with the
properties that would catch each.

## 2. Modules

| Module | What it is |
|---|---|
| `SnapshotCache` | what a reader of the cache may rely on |
| `PlayerCache` | the read-through cache, which implements it: requests, locks, snapshots, prune, invalidation, restart |
| `MCPlayerCache` | the instance TLC checks |
| `PlayerCacheProofs` | its theorems, the refinement among them |
| `StoreTransactions` | the write transactions of the store, row lock by row lock |
| `MCStoreTransactions` | the instance TLC checks |
| `StoreTransactionsProofs` | its theorems |
| `PlayerLookup` | what a caller may rely on in a read that several providers could serve |
| `ProviderChain` | one request through providers, calls and attempts, which implements it |
| `MCProviderChain` | the instance TLC checks |
| `ProviderChainProofs` | its theorems, the refinement among them |
| `CoachingSync` | syncs of players, by requests and by the background worker, under the lifespan |
| `MCCoachingSync` | the instance TLC checks |
| `CoachingSyncProofs` | its theorems |
| `Accounts` | register, login, link, unlink, list, admission by token, between storage calls |
| `MCAccounts` | the instance TLC checks |
| `AccountsProofs` | its theorems |
| `Timeline` | the analysis of matches round by round, and the analytics over them |
| `MCTimeline` | the instance TLC checks |
| `Catalog` | agents, their names and roles |
| `CoachingAgents` | the agents' pipeline, as functions |
| `DraftAdvice` | the scores of the synergy service, as functions |
| `Insights` | the requests that use the last three: reports, progression, overview, drafts |
| `MCInsights` | the instance TLC checks |
| `AnalyticsProofs` | the theorems of `Timeline` and `Insights` |
| `Conversation` | what a user may rely on in a chat |
| `AICoachChat` | the coach's page and its client, which implement it |
| `AICoachChatProofs` | its theorems, the refinement among them |
| `WebSession` | token, pages and calls of the web client |
| `WebSessionProofs` | its theorems |

The specifications meet at their interfaces.  What `PlayerCache` calls a
provider call (`Miss` to `FetchReturns` or `FetchFails`) is a run of
`ProviderChain` from `Ask` to `phase = "done"`; what it calls `PutCommits` or
`PutFails` is a transaction of `StoreTransactions` from `BeginPut` to `CommitPut`
or `Rollback`.  `PlayerCache` needs of the first that it ends, which
`ProviderChain` checks as `RequestEnds`, and of the second that its snapshot
changes at one instant, which the row lock of the snapshot gives.
`StoreTransactions` needs of `PlayerCache` that one put of a key runs at a time,
its `SingleFlight`: a put transaction there is named by its key.
`CoachingSync` has the cache in a coarser form, `snap` and `holder`, with the
steps of `PlayerCache` that a sync can tell apart.  The one step `Save` of
`CoachingSync` is `Insights`' `StoreReport` there; `Link` and `Unlink` are
`Accounts`' `CommitLink` and `Unlink`.  The reads of `Insights` and `Timeline`
are those of `PlayerCache`, of which they need only that each returns or raises.

### PlayerCache and SnapshotCache

Data is abstracted to the number of the provider call that produced it.
`pc[r]` is the place of request `r` in `_cached` (`player_service.py:60-78`):

| `pc` | In the code |
|---|---|
| `wait` | waiting for, or inside, `async with lock`, up to the answer of `store.get` |
| `fetch` | in `await fetch()` |
| `write` | in `store.put`, which has read `now` (`stamp`) |
| `done`, `failed` | returned, raised |

`queue[k]` is the asyncio lock of key `k`: its holder first, then its waiters,
in the first-come order asyncio grants.  The lock lives in a
`WeakValueDictionary`, which holds it as long as anybody does, so a key has one
queue.  `snap[k]` is the row of `player_snapshots`; its `valid` says whether
`adapter.validate_python` accepts the payload, which only a new release changes
(`Restart`).  `Prune(now)` is the commit of a deletion that has read the clock
at `now`, at any time before; as it leaves nothing else behind, any number of
prunes may be under way at once, the worker's and administrators'.  `detail[k]`
is `matches.detail`, which `put` writes beside the snapshot of a match detail
and `get_match` falls back on.  `since` and `past` are history variables that
only properties read.

`Restart` is the end of the process and a new start.  Cancellation of a handler
is part of it: uvicorn cancels handlers only when it shuts down.
`ingest_vision_match` is left out: it puts under a key no read asks for.

`SnapshotCache` has none of the locks, clocks and calls: a value is kept for a key
and serves or does not; who finds one that serves is given it, and of those who do
not one at a time renews it.  A renewal is no older than what was ever given for the
key and newer than what was purged, and what is lost was serving nobody (`Lose`).
The refinement mapping of `Promise` makes a row's payload the value kept, a usable
row one that serves, `fetch` and `write` one renewal; the answer of the provider, or
the stored detail in its place, is a stutter until `put` commits.  That no provider
is called for a key whose snapshot serves is part of it.

### StoreTransactions

A transaction has rows to write (`todo`), one it writes next (`want`), and those
it has locked (`held`).  `put` takes them in the order of `Rank`: the player,
then match and history row of each match in sorted order, the snapshot last.  A
deletion takes its rows in any order, for the plan of a `DELETE` fixes none.
`Prune` is a set: the worker's deletion and an administrator's may overlap.
PostgreSQL's behaviour is external: a row lock is exclusive and lasts until the
end of the transaction; `ON CONFLICT DO NOTHING` neither locks nor changes a
committed row, and waits for an uncommitted one; a deletion that waited reads
its row again under READ COMMITTED (`Gone`); a cycle of waiting transactions
loses one of its members (`BreakDeadlock`).  Foreign keys take a share lock on
the key of their row that a non-key update does not conflict with, so they are
left out.  What the rows hold is not modelled.

### ProviderChain and PlayerLookup

One request at a time; `phase` says whether an attempt is on its way, a backoff
runs, or the request is done.  `left` and `at` are the loop over providers,
`todo` the HTTP calls the provider still makes for this resource, `attempt` the
loop of `BaseHTTPClient.request`.  `failed` is what `_record_failure` collects
and `Verdict` is `_raise_failure`.  `Answer` is what an attempt can bring, as far
as the code tells answers apart.

What an answer amounts to is computed where the code does.  A payload is a record
of the parts its reader looks at, each as expected, missing, of other contents or
of another type; `GetPlayerProfile`, `GetPlayerStats`, `GetRank` and
`GetMatchHistory` take them in the order of `TrackerProvider`'s methods,
`GetPlayerByRiotId` those of Riot's account.  What is validated or checked by type
is malformed, what is used unchecked raises something unclassified, a rank that is
left out is malformed for nobody and "absent" for a request of the rank, and one
malformed row makes a history malformed.  Henrik's models are strict, and Riot's
matchlist and details are checked by type: they are well formed or malformed.
`ErrorOf` is the exception an answer raises, `TrackerError`, `HenrikError` and
`RiotError` how each provider passes it on, and `KindOf` what `_raise_failure` makes
of that.  Of the entries of a matchlist within the limit any number may name a match;
those that do not are skipped without a call, and if none does the history is
malformed.

A 404 of one match detail ends Riot's part in a history as a not-found, as it does
in the code.  The model keeps apart what that is: `Confirms` is a not-found of what
was asked for, `DetailGone` that of a match of a history already listed.
`NotFoundIsConfirmed`, which the docstring of `PlayerNotFoundError` states, admits
the first only and fails (finding 3); `NotFoundIsUnanimous` says what the code keeps
of it.

`ProviderChain` implements `PlayerLookup` (`LooksUpInTurn`), which knows of a request
who can serve it, how those asked so far have failed, and how it ended: a provider
`Serve`s or `Refuse`s, in order of preference, and the error when all have refused is
the one they tell together.  Which calls a provider makes, how often each is
attempted and which failures of a detail it survives are stutters there; what the
abstraction rules out is that any of them costs another provider its turn or its
verdict.

### CoachingSync

A run is the worker's sweep, an administrator's sweep or a caller's sync;
`pc[r]` is the await it is at, in the order of `sync_player_coaching`:
`invalidate`, `history` (20 matches), `list` (the stored reports), `recent` (the
5 matches the report is written from, another key of the cache), `save`, `mark`
(`last_synced_at`).  What a run syncs is a subject, a player in a region, as the
cache's keys have the region; `Of` is its player, whom the invalidation, the
reports and the mark go by, whatever the region.  A sweep adds `tracked` before
the first account; between sweeps the worker is at `sleep`.  A match history is
the number of matches it knows of, so that `value[r]` at `save` can be compared
with `latest`, what the latest stored report knows of.  `holder[k]` is the run
that fetches under the lock of `k`; requests that wait for a lock are at
`history` or `recent` with the lock of another.  The mark is an UPDATE of
several rows and one step here; that it may be the victim of a deadlock is one
more way for it to fail (`CallFails`).  The order of a sweep's accounts is left
open, and so is what the agents write.  `life` follows the `finally` of the
lifespan: cancel and await the sync worker, then the prune worker, then close.
`CancelSync` has one disjunct per storage call that goes on in its thread after
its coroutine was cancelled.  `Crash` may come at any point, and takes all that
was in memory with it (`MemoryLost`); `Start` follows any end, any number of
times.

### Accounts

`req[q]` is a request and the storage call it is at; what stands between two
calls has no await and is one step.  Names follow the tables: `users` and `links`
map an id to a row or to `Null`, and a row's id is the request that inserts it.
An e-mail is an address and whether it is spelled as `strip().lower()` leaves it;
a hash is the password it is of and whether it has the legacy iteration count.
`Old` are links made before the requests of the instance, one primary at most for
each user.

| Step | In the code |
|---|---|
| `SelectExisting`, `InsertUser` | the SELECT and the flush of `create_user`; a row committed in between violates the unique column |
| `ReadUser`, `Rehash` | `get_user_by_email` with everything `login` decides from it; `update_password_hash`, whose failure is swallowed |
| `Call`, `Authenticate` | the bearer token; `get_current_user` and `require_admin` |
| `BeginLink` | the `UPDATE` of `link_player_account` takes its snapshot of the rows to reset (`rows`) |
| `ResetPrimary` | it gets to one of them, in any order, waits for its row lock while it holds those it has (`held`), and passes over one deleted since |
| `CommitLink` | the new row is inserted, and the transaction commits with what it has reset |
| `Unlink`, `ListLinks` | one transaction each |
| `StorageFails` | any storage call raises, and its transaction is rolled back with its locks |

An unlink or a second reset waits for a row that an uncommitted reset holds
(`Free`).  As a reset holds some rows and waits for others, and no plan fixes
the order of its rows, two of them may wait for each other (`WaitsFor`,
`Deadlocked`); PostgreSQL then fails one, which is a `StorageFails` the fairness
asks for.  An operator may deactivate a user at any time (`Deactivate`).
`overlapped` and `chosen` are history variables that only properties read.
`OnePrimaryUnlessOverlapped` says exactly how far the reset reaches: two primary
links that do not run at once leave one primary account, two that do may leave
two, which the run reaches.

### Timeline

A request is at `profile`, `history`, `details` or in the `replay` of one
payload, which TLC writes round by round: `ListKill` adds a kill wherever the
payload has it, `ParseRound` closes the round, `EndMatch` the match.  `tally`
counts what `parse_match_timeline` counts, for both teams at once, as the loop
depends on the team only through `friendly_team`; the response uses that of
`Friendly`.  `ident` is what the code compares players with: the store's hash,
which no payload contains, the puuid or the name.  Times and money are in units
of the instance, whose thresholds are constants.  A kill's victim is not killed
again within the window (Sage revives one; there is no second revival in a few
seconds).

### Catalog, CoachingAgents, DraftAdvice, Insights

`CoachingAgents` translates the four agents as functions on records read with
`dict.get`; a text is a tag of its own.  Ratios are integers: hundredths for K/D,
tenths for scores, rounded half up.  `DraftAdvice` sums the points of
`evaluate_composition_synergy` in the code's order, and ranks counter picks.
`Insights` is the service above: `Request` begins a request, `ReadHistory`,
`HistoryFails`, `ReadReports`, `Progress` and `StoreReport` are its reads in
order, each of which may fail in the way the code handles; `Lock` and
`Recommend` are a draft.  `ByTime` is the code's sort key, which is 0 for a
timestamp that is a text.

### AICoachChat and Conversation

`at` is where the page is.  At each of `Yields` the page calls Streamlit, so any
click (`Reset`, `Starter`, `Ask`, `Render`) may begin a new run there; `sending`
is inside `send_message`, which calls nothing of Streamlit, so no click takes
effect before it returns.  `Trim` is `trim_chat_history` and is applied at the
start of a run, after a question and after a reply, as in the code.  `model`,
`attempt`, `rejected`, `last` are the variables of the loop over the chain;
`Replies`, `Refused`, `Missing` and `Transient` are the classes it sorts errors
into.  A message is its role, the number of its question and a size in bytes.

`AICoachChat` implements `Conversation` (`INSTANCE`, with the turns after the
greeting as `turns` and a question in hand as `open`): `KeepsConversation`.  The
hard case is `Fail`, which pops whatever stands last.

### WebSession

A call of `calls` carries its `kind` and whether the page that made it is `live`;
a dead page's answer reaches the interceptor, the token and the router, but no
signal that is shown.  `Press`, `Go`, `Reload`, `Logout`, `ChooseImage`,
`InspectTimeline` are the user; `Answer`, `LoginAnswer`, `Failure` and `Refusal`
(401) the answers of any call, in any order.  `action` stands for linking and
unlinking an account, whose handlers agree.  `Routed` is the guard, `back` the
`returnUrl`, and `Expire` the token's age, which only the guard and a reload
notice.

## 3. Runs

| Run | Instance | Distinct states | What it shows |
|---|---|---|---|
| `player_cache` | two callers of one player's rank, one of a match detail; TTL 1, clock to 3, 3 arrivals | 363,571 | `SingleFlight`, `ReadsNeverGoBack`, `PurgedNeverReturns`, `KeepsPromise`, `UsableRowsAreOnlyPurged`, `RequestsEnd` |
| `store_transactions` | one player, two histories over two matches, the profile, a detail of a shared match, an invalidation, two prunes; 2 connections | 672,666 | `DeadlocksAmongDeletions`, `PruneTakesOnlyExpired` |
| `provider_chain` | every resource and every set of configured providers; 2 retries, limit 2, up to 3 listed matches | 15,732 | `NotFoundIsUnanimous`, `EmptyHistoryIsReal`, `AttemptsBounded`, `LooksUpInTurn`, `RequestEnds` |
| `coaching_sync` | one player in two regions, an account of each by two users, the worker, one caller; one match; under fairness | 395,117 | `SyncedMeansReported`, `LocksHaveReaders`, `WorkerKeepsSweeping`, `TrackedAccountsAreSynced`, `ShutdownCompletes` |
| `accounts` | three requests of any kind, a seeded user with two links, two addresses of which one in two spellings, two passwords; under fairness | 212,696 | `OneUserPerEmail`, `PasswordKept`, `OnePrimaryUnlessOverlapped`, `OnlyOwnLinks`, `RequestsEnd` |
| `timeline` | three players, payloads of up to two matches with two rounds, the 12th and 13th, and three kills in all | 1,812,774 | `TradesAreTrades`, `TeamsMirror` |
| `insights` | histories of up to three matches in every order, one stored report, drafts of up to four of five names | 3,375,453 | `TrendsIgnoreListing`, `OnlyThirdDuelistHurts` |
| `chat` | chain of 3 models, 2 attempts each; 5 questions, 2 exchanges and 7 bytes retained; under fairness | 111,451 | `KeepsConversation`, `SendEnds` |
| `web_session` | 2 logins, 3 calls in flight | 890,926 | `SpinnersHaveCalls`, `EndedSessionsStayEnded` |
| `stale_after_invalidate` | as `player_cache` | stops at the violation | finding 1 |
| `wrong_team` | as `timeline` | stops at the violation | finding 2 |
| `not_found_unconfirmed` | as `provider_chain` | stops at the violation | finding 3 |

Each passing run checks the type invariant of its module too.  Deadlock checking
is off in two of them, where the system really stops: requests that have all been
served (`accounts`), an analysis that has been answered (`timeline`).

Each property is stated, and the code behaviour it is about named, at its
definition.  The less obvious ones:

- `ReadsNeverGoBack` has a case one would not expect to hold: a stored match
  detail stands in for Riot after the snapshot expired.  It holds because `put`
  overwrites the stored detail in the transaction of the snapshot, so the detail
  is never older than what has been served.
- `KeepsPromise` is the refinement of `SnapshotCache`: whatever runs between a miss
  and its put, a serving value is neither renewed nor lost, and nothing older than
  what was given takes its place.
- `UsableRowsAreOnlyPurged` is about the two clocks read too early: prune's
  deletion condition is older than its deletion, and a put's expiry is older than
  its commit.
- `DeadlocksAmongDeletions` says how far the comment in `put` on lock order
  reaches: puts are safe, prune and invalidation are not ordered against each
  other, and a put is never the victim of such a cycle.
- `SyncedMeansReported` is about every way out of a sync: a mark may only follow
  the stored report of the same sync, although failures of the first read are
  swallowed, those of later steps are not, and runs for the same player overlap.
- `NotFoundIsUnanimous` excludes that an outage, a rejected key or malformed data of
  one provider hides behind the not-found of another, whatever came first and
  however many attempts each took.
- `TrackedAccountsAreSynced` assumes that the tracked accounts are read again and
  again; it says that no failure of one account starves another.
- `LooksUpInTurn` is the refinement above; that a provider serves or is tried only
  when exactly those before it have failed is a consequence (`FirstThatServes`, which
  is proved).
- `OneUserPerEmail` would fail if only the SELECT of `create_user` stood in the
  way; `PasswordKept` is about a rehash that writes what an older read verified.
- `RequestsEnd` of `Accounts` needs that every failure and every answer gives back
  the row locks, and that nothing but a deadlock, which the database breaks, keeps
  a request waiting for good.  Deadlocks of resets are reached in the run: without
  that part of the fairness the property fails.
- `TradesAreTrades` compares the code's backward loop over sorted kills with the
  definition of a trade on the kills as listed.
- `TeamsMirror` relates the analyses of one match for its two teams, and bounds
  trades by deaths, which are counted at different places and divided.
- `TrendsIgnoreListing`: the trends are a function of the set of matches.
- `OnlyThirdDuelistHurts` compares the scores before and after a draft step; the
  penalties and bonuses of the code are many, and clamped.
- `KeepsConversation` is the refinement above; `SpinnersHaveCalls` relates the
  buttons to the calls in flight, in both directions.

**Bounds.**  Two requests of one key are the fewest that contend for a lock, and
three arrivals let one of them return with a later view of the history.  TTL 1
and a clock to 3 let a snapshot expire, be renewed and expire again while a prune
that has read the clock before is yet to commit.  Two
connections let every pair of transactions meet, the deletions too; a put
deadlock of three or more transactions is excluded by the theorem, not the run.
Two retries tell a first attempt, a middle one and a last one apart; a matchlist
of 3 with limit 2 is the shortest that exceeds its limit by one after a usable
and an unusable detail.  One worker and one caller are the fewest that meet at a
lock; two accounts in two regions let one fail while the other waits, and let an
invalidation reach the other's key; one match tells a history with something to
report from an empty one.  `Admin` is empty: its sweep
takes the worker's steps.  Three account requests let two primary links meet
while a third unlinks, and let a registration, a rival of other spelling and a
login follow one another; the seeded user's two links are the fewest over which
two resets can deadlock, and the users who register are the others whose links
must be left alone.  Rounds 12 and 13 lie on either side of the half; three
kills make a trade, a kill between and a trade of a trade.  Three matches have an
unequal middle for the halves of a trend; four agents allow three duelists and an
enemy, or two of each side.  Three models have a first, a middle and a last; five
questions exceed two exchanges by enough to be cut more than once, and 7 bytes
make the size cut before the number does.  Two logins and three calls let answers
of two sessions and of two pages cross.  The bounds appear in guards (`MaxClock`,
`MaxArrivals`, `MaxPlayed`, `PoolSize`, `MaxRounds`, `MaxKills`,
`MaxDraft`, `MaxAsked`, `MaxLogins`, `MaxCalls`), as what is kept (`MaxReports`)
or as ranges of inputs (`MaxHistory`, `MaxMatches`).  The proofs assume nothing
of them but that they are numbers.

**Fairness.**  `PlayerCache` assumes that a request which can go on does: the
event loop resumes a coroutine whose await is over, a provider call ends
(`RequestEnds` of `ProviderChain`), a storage call ends.  Weak fairness is
enough, since the head of a queue stays the head until it acts.  `ProviderChain`
assumes that an attempt ends, with an answer or with the client's timeout, and
that a backoff ends.  `CoachingSync` assumes that the worker's
`asyncio.sleep` ends and awaited calls end, which is weak fairness of each run's
steps, and that a waiter for a lock gets its turn: strong fairness, because other
runs may hold the lock in between any number of times; asyncio grants it in order
of arrival.  A lifespan that has begun to shut down goes on.  `Accounts` assumes
that the storage call of a request ends, that PostgreSQL grants a row lock that
is free, and that it fails a transaction of a deadlock, as it does after its
`deadlock_timeout`.  `AICoachChat` assumes that a call to a model ends, as the client sets
`REQUEST_TIMEOUT_MS`.  Callers, users, operators, the clock and the prune worker
are never obliged to act, and no answer is promised to be a good one.
`StoreTransactions`, `Timeline`, `Insights` and `WebSession` assume none.

## 4. Findings

Three statements of the repository the code does not keep.  Each is a run that
expects a violation.

1. `stale_after_invalidate`.  The endpoint that deletes a player's snapshots
   describes itself as "forcing subsequent queries to fetch fresh data"
   (`backend/app/api/player_router.py:196`).  A request that missed before the
   deletion stores its answer after it, and later requests are served that
   answer until it expires.
2. `wrong_team`.  Analytics of the details in the store pass the store's key of
   the player (`backend/app/storage/player_service.py:354`) where
   `parse_match_timeline` looks for a puuid or a name
   (`backend/app/services/timeline_service.py:133`), the "Player PUUID or name to
   orient friendly team analysis" (`backend/app/api/match_router.py:46`): the
   friendly team is then that of the first player listed, whichever the player's
   is.
3. `not_found_unconfirmed`.  `PlayerNotFoundError` says that "Every applicable
   provider confirmed that the resource was not found."
   (`backend/app/domain/models.py:88`).  When Riot has listed a history and one of
   its matches answers 404, that error is raised for the history
   (`backend/providers/riot/provider.py:112`) and counts as Riot's not-found of it;
   if the others are not configured, or have none either, the caller is told that a
   player whose history exists was not found.

Seen while modelling, and kept in the model as the code has it, without a run of
their own:

- Storage.  A stored match detail that stands in for Riot is stored again under
  a full lifetime (`backend/app/storage/player_service.py:161`), although
  `docs/plans/2026-10-06-storage-and-robustness.md:49` says that expired data is
  not represented as fresh.  `get_tracked_accounts` filters by `is_primary` only,
  while `backend/main.py:284` speaks of active primary accounts.
- Sync.  A report is generated at every sync that finds any match
  (`backend/app/services/player_service.py:755`), while the endpoint says "if new
  matches were recorded" (`backend/app/api/player_router.py:237`).  A sync whose first
  read failed is marked like one that found nothing.  A sweep goes on with the
  accounts it has read at its start, whoever unlinks them meanwhile.
- Timeline.  Overtime rounds from the 25th on keep the sides of the second half;
  the breakdown of clutches counts the enemy's as well; the anti-eco threshold
  differs from the one its comment names.
- Agents.  The report writer reads `kd_ratio` of the match analysis, which has it
  under `metrics`, so K/D there is 1.0 always; statistics that are unavailable
  count as no kills.
- Progression.  It promises to use "previous coaching reports to distinguish
  resolved weaknesses from current bottlenecks"
  (`backend/app/api/player_router.py:218`) and reads them under
  "critical_weaknesses" (`backend/app/services/player_service.py:675`), where
  the report writer writes "critical_flaws"
  (`agents/report_writer/agent.py:97`): the active focus areas are the fixed
  ones whatever the reports say, which `FlawsAreUnreadHolds` proves.  Timestamps
  that are texts, as Tracker.gg's, are left in the order listed, newest first.
- Chat.  A rerun between a question and its answer leaves the question
  unanswered; a later cut in pairs may then drop a question and keep its answer,
  against the comment at `frontend/streamlit_app/utils/gemini_client.py:171`.  The
  fallback model's caption outlives a reset that overtakes it, and a typed
  question is lost when a suggested one is pending.
- Web client.  Any failure of `/auth/me` drops a valid session; a 401 to a call
  of an earlier session ends the current one; answers out of order show data of
  the player searched for before; a late timeline opens a panel that was closed;
  a late `/auth/me` shows the user before.
- Vision.  `ingest_vision_match` stores under a key no cached read asks for, with
  a random match id, so that a retry stores another.

`README.md:24` also speaks of "automatic circuit breaking"; there is no such
component, hence nothing to model.

## 5. Proofs

TLAPS checks these for every value of the constants that satisfies the
assumption of the module (`PlayerCacheAssumption`, `StoreAssumption`,
`ProviderChainAssumption`, `CoachingSyncAssumption`, `TimelineAssumption`,
`AccountsAssumption` with `RowAssumption`, `InsightsAssumption` with
`CatalogAssumption` and `DraftAssumption`, `ModelsAssumption`, `SizesAssumption` with
`FitsAssumption`, `WebAssumption`).  `PROJECT.json` lists the theorems.

**PlayerCacheProofs.**  None of the safety properties but the type is inductive.
`LockHeld` says that a request past its miss is the head of its queue: with it,
`SingleFlight` is immediate and every release is of one's own lock.
`NoRedundantFetch` is inductive once single flight is known, because only the
flight itself could make the row usable.  `ValuesOrdered` orders the numbers of
provider calls found in the table, in the stored details, with the requests in
flight and in the history: what was served is not newer than what is stored,
what was purged is older than what is stored or on its way.  `ReadsNeverGoBack`
and `PurgedNeverReturns` are then read off it.  `UsableRowsAreOnlyPurged`
follows step by step, as no prune has read a time ahead of the clock.

`KeepsPromiseHolds` is the refinement, one lemma per action.  `ReaderMoves` says
what a reader's step looks like from outside, `TableSame` that a step which
leaves table, clock and history alone shows nothing.  `MissTurns` needs
`LockHeld`, that nobody else is renewing; `PutRenews` needs `NoRedundantFetch`,
that the row does not serve, and `FlightsOrdered`, that the answer is not too
old; `PruneLoses`, that prune's time is not ahead of the clock.

**StoreTransactionsProofs.**  `PutOrder` is the invariant: what a put holds
ranks below what it still needs, and it waits for the lowest of those.  If a set
of puts were stuck, the awaited row of highest rank would be held by a member
that awaits a row of higher rank still; the argument is well-founded induction
on the distance to `Top`, above every rank.  With deletions in the set: a put
waiting for a deletion waits for a snapshot, which has the highest rank, so it
holds nothing a deletion could need but what it already waits for; hence a
deletion waits for a deletion, and the deletions of the set are stuck by
themselves.  `Exclusive` keeps prune's rows from being renewed under it.

**ProviderChainProofs.**  `Loop` says where the loop over providers stands: those
before the current one have failed and those after it are left, from which
`FirstThatServes` follows and, when none is left, `NotFoundIsUnanimous`.  `Shape`
tells the two stages of a Riot history apart, before its matchlist and among its
details, and gives `EmptyHistoryIsReal`.  `AttemptsBounded` is inductive as an
account: `Remaining` is the weight of the calls the request can still make, and
attempts sent plus `Retries + 1` for each of them never exceed the budget
(`Paid`); a step to the next call or the next provider spends one of them
(`PayForOne`), a retry is paid for by its own call (`Pausing`).

`LooksUpInTurnHolds` is the refinement.  By `Loop`, the providers that have not failed
are the current one and those left, so the first of them is the current one
(`AskedInTurn`), and a step of its calls either stutters or ends it: `FailRefuses` and
`DeliverDecides` map the two ends.  `VerdictTold` says that `_raise_failure`, which
looks at the kinds collected and not at who can serve, tells the same error.
`Settled` is needed for the next request, which may begin only when the last has its
outcome.

**CoachingSyncProofs.**  `SyncedMeansReported` needs `Reported`: a run at `mark`
that has found matches has a report of its player, because the only other way
from `list` to `mark` is with nothing found, and no step deletes a report.
`LocksHaveReaders` is inductive: a run holds no lock but that of the key it is
reading (`NoOtherLock`), so each way out of a read frees every lock it has.
`ReportsKept`, `LocksKept` and `SyncingKept` say what a step of one run must not
disturb; each action is then shown to keep to it.

**AccountsProofs.**  `OneUserPerEmail` is inductive once users are known to be
stored under normal spellings (`Plain`): the flush finds a rival row or there is
none.
`PasswordKept` needs what a login remembers: a request at `rehashing` holds the
password that its user has chosen, because it has verified it against a hash
which, by the property itself, is of that password; no step changes a choice once
made.  `OnePrimaryUnlessOverlapped` needs, of a primary link that has begun its
reset, that every primary row of its user it has not seen was committed during the
reset (`UnseenOverlapped`); those it has seen are still to come to or held.  The rows
held are its user's own (`RowsAreOwn`) and are there until it commits, because
nobody deletes a row that another holds (`HeldAreThere`).  `OnlyOwnLinks` is an action
property, by cases on `Next`, from the type and from the locks.

**AICoachChatProofs.**  `ChatKeepsConversation` is the refinement: every step of
the page is one of `Conversation` or a stutter.  Its invariant says that the
greeting heads the history and that, from the moment a question is sent until its
outcome is shown, it is the last turn.  `TrimKeeps` is the lemma both rest on: a
trimmed history keeps the greeting, its turns are an end of those before, and a
question that was last is last still.  It needs of the code's limits that the
greeting, and any question beside it, fit `MAX_HISTORY_BYTES` (`FitsAssumption`);
a history that could lose the question in hand would let the pop of a failure take
an older turn.  Which exchanges fit is not computed in the proof: that
there is a least cut (`LeastCut`) is enough.

`TypeCorrect` bounds the history in turns and in bytes.  `Bytes` is a recursive
function, and what the trimming needs of it are facts about sums: partial sums
exist and are what `Bytes` computes (`SumsExist`, `BytesAreSums`), they shift with
the turns they are of (`SumsShift`), and the bytes of two parts are the sum of theirs
(`BytesOfConcat`).  Each is proved by induction over a number, as the absence of a
least counterexample (`Induction`).  The
invariant adds to the type nothing but that of the refinement: a history that has
just been trimmed fits (`TrimKeeps`, `Fitting`), and the only turns appended
without a trim are the greeting of a reset and what takes a question back (`PopFits`,
`GreetingFits`).

**AnalyticsProofs, the replay.**  `Chronological` puts each kill at its rank,
the number of kills before it.  `Before` is a strict order (`BeforeOrders`), so
ranks grow with it (`RankIncreases`) and every rank is taken, since an injection
of a finite set into one of its size is onto (`EveryRankTaken`): the sorted list
is the given one in the order of time (`ChronologicalOrders`).
`TradesAreTrades` follows for every list of kills, without an induction over the
code's loop: what ends its backward search at the first kill beyond the window
is that all earlier ones are beyond it as well (`TradesFound`).  `TeamsMirror`
is inductive with `Apart`, that a victim of the kills listed so far is not
killed again within the window; the type needs `Budget` beside it, that a
request analyses no more matches than it was given.  A round adds to the
counters of one team what it takes from the other's (`RoundMirrors`), and sums
of mirrored numbers are mirrored (`MirrorAddsUp`).  That no team trades more
deaths than it has needs a map from the kills that are trades to the deaths they
avenge that is one to one (`TradesAndDeaths`): without `Apart` one kill could
trade two deaths of its victim's.

**AnalyticsProofs, the insights.**  `TrendsIgnoreListing` holds for histories of any
length because the sort depends on the matches alone: no two are at one time, so the
place of a match is the number of matches before it (`PlaceOf`, `PlaceIncreases`),
every place is taken (`PlacesTaken`), and the rank the code's sort gives an index is
that place (`RankIsPlace`, `ByTimeIs`).  Averages need not be looked into: they are
taken of equal lists.

`OnlyThirdDuelistHurts` goes through the points of the score term by term.  With one
more name no weakness appears but that of a third duelist (`RolePointsGrow`), smokes,
flashes and reconnaissance stay (`UtilityPointsGrow`), the meta picks and the enemies
countered only grow (`MetaPointsGrow`, `CounteredGrow`), and clamping keeps the order
(`ClampIs`).  `NeverUnsmoked` settles the read of `weaknesses[0]`: a team without
smokes has no controller, so there is a first weakness and it is that one, and the
penalty that asks for another is never given.

`InsightsTypeOK` is inductive by its parts, what is stored, the request, the answer and
the draft.  Its weight is in the reports: whatever the history and the statistics, the
match analyst, the economy coach and the role coach contribute a flaw and a drill each
(`MatchAnalysisIs`, `EconomyAnalysisIs`, `RoleAnalysisIs`), which the report has as
three (`ThreeLines`), with a role score within its range (`ReportIs`).

`FlawsAreUnread` says of the progression that it is blind to the reports: what is
stored are the agents' payloads, none of which has the key that is read.

`PicksAreBest` is about `CounterPicks` for every draft and history.  The code sorts by
score and keeps the order of the catalog; score and place are a strict total order
(`ScoresOrder`), the ranks of such an order increase and are all taken
(`RanksIncrease`, `RanksTaken`), so the picks are the first of all open agents in that
order (`PicksInOrder`).

**WebSessionProofs.**  `SpinnersHaveCalls` is inductive with the type and with
`Finite`: the calls in flight are finitely many, so that a new one has a free name
and an answer removes one call only.  Which spinner which handler stops is settled
once (`KindsOfCalls`, `StopsOf`, `FollowsOf`).  `EndedSessionsStayEnded` needs
`InBoth`, that memory and `sessionStorage` agree, without which a reload would
bring a token back.

**Model-checked only.**  Liveness (`RequestsEnd` of `PlayerCache` and of
`Accounts`, `RequestEnds`, `SendEnds`, `WorkerKeepsSweeping`,
`TrackedAccountsAreSynced`, `ShutdownCompletes`) is outside the prover: it needs
ENABLED and fairness.  Every invariant and action property of the passing runs has its
theorem.  Of the folds, the sums of `Average` are evaluated by TLC only; the theorems
need that they are functions of what is summed, not their values.

## 6. Not modelled, and what could follow

Left out:

- **Vision.**  Image decoding and an LLM call.  Its one store write is a put of
  `StoreTransactions`, under a key no cached read asks for.
- **HTTP layer and middleware, Streamlit pages and API client.**  Validation,
  headers, error mapping and rendering; they keep no state.  The steps of the
  routers are in the modules of what they call, and the one stateful page is
  `AICoachChat`.
- **Migrations, configuration, schemas.**  Run by hand before a release, or
  evaluated once at the start.  The schema modelled is the one the migrations
  produce; bounds of the schemas appear in type invariants.
- **Generated code** (`frontend/web/scripts/generate_api.py`) and the values in
  payloads: their parts are there and well formed or not.
- Pixels, prompts, wording and layout; password hashing and tokens, which are
  cryptography; the length of a backoff; averages of a progression that decide no
  trend.

What could follow: `SnapshotCache` read by several processes.  The locks are those of
one process; with a second one on the same database `SingleFlight` and the turns of
`SnapshotCache` hold in each process only.
