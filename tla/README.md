# CLUTCH: a verification project

CLUTCH is a social network for players: a Fastify backend (`src/backend`) over
Postgres and Redis, a presence service in Go (`src/backend/presence-service`)
and a Next.js frontend (`src/frontend`). This directory holds TLA+ modules of
its stateful parts, the TLC configurations that check them on small instances,
and proofs that TLAPS checks for every instance. `PROJECT.json` lists the
components, the runs, the lines each definition models, the hazards and the
theorems.

    tlc -workers 2 -config Friends.cfg MCFriends      # one run
    tlapm FriendsProofs.tla                           # one module of proofs

## 1. The system

| component | state | operations | what is hard |
|---|---|---|---|
| Refresh-session service (`refresh-token.service.ts`) | one Redis record per session; a chain of promises per session in each process | issue, rotate, revoke | read-decide-write over awaits, reuse detection, failing Redis commands, crashes |
| Token keys (`config/jwt.ts`) | keyring and signer, read when a process starts | sign, verify by kid or with every key | replicas with different keyrings during a rotation |
| Browser session (Next.js routes, `lib/api.ts`, auth store) | cookie jar, auth store of each tab, shared refresh promise | me, presence-token, refresh, proxy, login, logout | answers out of order, several refreshers with one cookie, lost answers |
| Presence hub (`hub.go`, `main.go`) | map user to connection, bounded channels | register, unregister, deliver, pumps of a connection | three goroutines per connection, closed channels, slow clients, reconnects |
| Presence client (`services/presence.ts`) | socket, timers, flags | connect, disconnect, reconnect with backoff | callbacks after disconnect |
| Presence store (`presence.repository.ts`) | Redis entry with a TTL, Postgres row, pub/sub | set, get, publish; Discord as a second writer | two stores written one after the other |
| Friends (`friends.routes.ts`, `friend.repository.ts`) | requests, friendships, counters, notifications | request, accept, remove | checks outside transactions, crossing requests |
| Account connections, social login | connected accounts, users; OAuth states and PKCE verifiers in memory | start, callback, link, connect, unlink, first login | check then act, repeated callbacks, lost answers, restarts |
| Steam and Epic library (`integrations.service.ts`) | one row per account, a library | manual and verified connection, sync, unlink, visibility | two flows that write one row |
| Anime list and showcase | entries with a rank | import, feature, unfeature | an import and a serializable transaction |
| Posts, reactions, comments, feed | posts, counters, reactions, comments, inbox | create, delete, toggle, comment, page, mark as read | queries without a transaction, pages of a moving feed |
| Communities | owner and members | create, join, leave | lookups that are old when used |
| Social continuity | none; computed when read | streaks, shared streaks | day boundaries, gaps |
| Query cache (`lib/query/social-cache.ts`) | cached answers, snapshots, mutations in flight | optimistic change, answer, rollback, refetch | crossing mutations, cancelled fetches |

The browser talks to the Next.js server, which holds no state and translates
cookies into tokens for the backend; the backend keeps sessions and presence in
Redis and the rest in Postgres, and publishes presence and notifications on
Redis, from where the hub delivers them to WebSockets. Friends, posts and
notifications meet in `notification.service.ts`; the hub and the client meet in
the socket; the browser and the session service meet in the refresh cookie; a
profile shows what the library, the showcase and the streaks left.

## 2. The modules

| module | models | composed with |
|---|---|---|
| `AtomicSessions` | what the session store promises: one life per session, every change atomic | |
| `RefreshSession` | the refresh-token service with its lock, Redis, its callers, failures, crashes | implements `AtomicSessions` |
| `SigningKeys` | keyrings, signing and verifying while keys are rotated and replicas restart | beside `RefreshSession` in `MCRefreshSession` |
| `BrowserSession` | cookie jar, tabs, route handlers | uses the actions of `AtomicSessions` as its backend |
| `PresenceHub` | hub goroutine, connection goroutines, channels | |
| `Friends` | the three friendship operations over their tables | |
| `AccountConnections` | first logins, links, the older Discord integration and unlinks over users and accounts | |
| `ConnectFlow` | the round trip of a browser through a provider, up to the stored account and the page shown | beside `AccountConnections` in `MCAccountConnections` |
| `UserIds` | the constants `Users` and `None` that the modules of accounts share | extended by `Handlers` and `AccountConnections` |
| `Handlers` | a request handler of the REST backend: one query after the other, any of which may fail | extended by `PresenceStore`, `Posts`, `Communities`, `Library`, `OtakuLibrary` and `ConnectFlow` |
| `AtomicPresence` | what the presence store promises | |
| `PresenceStore` | updates and reads of presence over Redis and Postgres | implements `AtomicPresence` |
| `Posts` | posts and their counter, reactions, comments, feed pages, notifications | |
| `Communities` | creation, joining, leaving | |
| `Library` | the Steam row under both flows, imports, visibility, the Epic row | |
| `OtakuLibrary` | the anime import and the ranks of the showcase | |
| `Continuity` | streaks as functions of days, against their meaning | |
| `PresenceClient` | the hook `usePresence`, its connection objects, their sockets and timers | `MCFrontend` |
| `SocialCache` | the query cache of a tab and its optimistic mutations | `MCFrontend` |
| `Ordering` | `ORDER BY` and `Array.prototype.sort`, for keys that differ, without recursion: the k-th row is the one that k rows do not come after | extended by `Posts` and `Continuity` |
| `Content` | the six components that share the handlers, one of them per behaviour (`area`) | `MCContent` |
| `*Proofs` | theorems about the modules they extend: `ProfileProofs` about the library, the showcase and the presence store, `SocialProofs` about communities, posts, streaks and all of `Content`, `FrontendProofs` about the tab, the others about the module they are named for | |
| `MC*` | constants, symmetry and composition for TLC | |

Components that share no state are composed by choice: the first state of a
behaviour picks one of them (`area`, `part`, `screen`) and the others stay where
they began, so that one run checks several state spaces and they add instead of
multiplying.

### RefreshSession
`store` is Redis, `lock` the Map `sessionLocks` of each process (`tail` and
`pending`), `pc`, `call`, `plan` and `result` a request handler between its
awaits. `Begin` is the synchronous part of `withSessionLock`, `HasTurn` the
resolved `previousTail`, `Read...` the GET with the decision taken on it,
`Write` the SET (which may fail before or after Redis executed it), `Leave` the
`finally` block. Tokens of a session are numbered in the order of signing; the
number stands for the jti and so for the hash Redis keeps.

### SigningKeys
`env` is what a process would find in `JWT_KEYS_JSON`, `JWT_ACTIVE_KID` and
`JWT_SECRET` if it started now, `config[r]` what replica `r` found. `Start`
refuses the configurations `resolveJwtKeyRotationConfig` refuses. The order of a
rotation is the team's and external, since the repository describes none beyond
the variables: a key is added, made active when every running replica has it,
and removed when no replica signs with it and no token of it lives. Two things
the model makes visible: a deployment that goes from `JWT_SECRET` to a keyring
must keep the old secret in it, because tokens without a kid are verified with
every key; and the Go presence service knows `JWT_SECRET` only and ignores the
kid, so it is no replica of this model: its secret is that of one key.

### BrowserSession
`jar` is the pair of cookies, `status` the auth store of each tab, `call` one
fetch with the jar it carries and what its answer does to the jar. `Serve...`
are the route handlers of Next.js; each is one step because the backend is
atomic (that is what `RefreshSession` shows) and the Next.js server keeps no
state between two awaits. `Deliver` is the arrival of an answer: cookies first,
then the continuation of the tab (`After...`). The slot of a tab is its
`refreshSessionPromise`.

### PresenceHub, PresenceClient
`reader[c]` is the handler and then `readPump`, `writer[c]` is `writePump`,
`send[c]` the number of messages in the channel of the connection. A send on a
closed channel and a second close are panics (`panicked`), which end the
process for everybody. In the client each action is one callback: an effect of
the hook, the end of the awaited credential, an event of a socket, a timer. The
hook drops an object after `disconnect()`, but its fetch and the events of its
sockets go on; `orphaned` and `overlap` name the two cases in which an earlier
sign-in disturbs the next one.

### Friends
`requests`, `friendships` and `friendCount` are tables; the reads of a handler
and its transaction are separate steps; `Notify` is the notification written
afterwards. Unique constraints are the guards of the transactions: a violation
rolls everything back.

### AccountConnections, ConnectFlow
`AccountConnections` is about the tables `users` and `platform_integrations`:
each action is the code between two awaits with its one database statement, the
unique constraints are the guards of `Create` and `Upsert`, `Abort` is a failure
or a crash after any step. `rival` marks requests that overtook each other's
check, `demoted` rows that the older Discord integration has turned into a
`CONNECTED_ACCOUNT`.

`ConnectFlow` is about the trip: `kept` is the state store and `verifiers` the
PKCE store, both in the memory of the process; `fresh` says which signed states
are younger than ten minutes. A callback checks, takes out the state and goes
on to the provider without an await, so that is one step. A browser may send a
callback again; `waiting[t]` is the request whose answer it shows, and `disturbed`
names the trips whose page may be wrong through nobody's fault.

### Handlers and the REST components
`pc[h]` is the query handler `h` awaits, `job[h]` the request with what it has
read, `ans[h]` its answer. Every query may fail (`QueryFails`); what was written
before stays. In `PresenceStore` a read is Redis, then Postgres; `doubt`, `span`
and `solo` are history, and the refinement mapping hides the two stores behind
the one value a reader is shown. In `Posts` a feed reader keeps its cursor
between pages while posts come and go. In `Library` the manual form and the
OpenID callback read, decide and upsert the same row some queries later;
`proved` is the history of what Steam vouched for and `held` that of the ids a
user ever had. In `OtakuLibrary` a change of the showcase works on a snapshot and
commits like a Serializable transaction.

### SocialCache
`server` and `cache` are the answer the server would give and what the tab
shows, per query; `slots` the mutations in flight, each with its snapshot;
`fetch` the fetch under way. A mutation cancels the fetches of the queries it
touches, as `cancelQueries` does, and a rollback restores a whole query.
`blurred` marks what may differ because two mutations of one query overlapped,
an answer was lost, or a fetch was crossed.

## 3. What the runs check

| run | instance | shows |
|---|---|---|
| `refresh_session` | sessions: 1 session, 1 process, 4 handlers; keys: 2 replicas, 2 kids, 3 secrets, 2 pairs of tokens | the lock table is exact; a token is rotated at most once; a closed session never revives; the service implements `AtomicSessions`; a rotation of keys signs nobody out |
| `liveness` | 3 handlers of one session; 2 connections of one user; both fair | whoever waits for a session lock is answered; a socket whose peer left, or that was cut off, is closed in the end |
| `presence_hub` | 2 users, 3 connections, channels of capacity 1 | a lone connection stays reachable and never makes the process panic |
| `friends` | 2 users, 4 handlers | friendship is mutual and had an accepted request, notifications are true, the counter never claims too many |
| `friend_count` | the same | violation, see the findings |
| `browser_session` | 2 tabs, 3 calls besides the silent refreshes, 2 sessions, 1 fault | the two cookies match; the refresh cookie is behind only while a newer one travels; reuse has two presenters or a loss; nobody waits for a refresh that does not run |
| `browser_sign_out` | 1 tab, 2 calls, no fault | violation, see the findings |
| `frontend` | presence: 1 tab, 2 sign-ins, 3 faults, fair; cache: one of five screens, 3 events, 1 failing request | one socket at a time, a truthful status, a tab that stays signed in is connected in the end; what is shown is the server's value as soon as its own mutation is done, except where `blurred` says why; the friend count settles without exception; the badge converges |
| `account_connections` | rows: 2 users, 2 login providers, 3 identities, 2 requests; trips: 2 trips, 2 accounts, 2 handlers, 2 callbacks each, 1 fault | nobody loses the last login and no row changes its identity, but for the overlaps the properties name; a trip is honoured once and its page tells what happened |
| `account_unlink` | the rows | violation, see the findings |
| `content` | 2 users, 3 handlers, one of six components at a time | the presence store implements `AtomicPresence` and its reads are regular; post counters and reactions add up to the requests that took effect; every stored comment is listed; a reader of the feed gets the newest first, misses and repeats nothing; memberships add up and owners are members; OFFICIAL accounts are proven and libraries hold own games; ranks of the showcase are unique and bounded; streaks are the runs of days they stand for |
| `steam_verified` | the library area | violation, see the findings |

**Bounds.** Every race in these components is between a read and a write of one
record (session, friendship, map entry, row, post), so one record and three or
four handlers produce all of them: one that read early and writes late, two that
compete, and one that undoes. Two records are there where one could be mistaken
for the other (two Steam ids, two slugs, two posts and a page size of one, two
titles). Channels of capacity one are full as soon as they
hold something. Handlers, calls and connections are used once, which bounds the
counters; `Expiring`, `MaxFaults`, `MaxDrops`, `MaxTries`, `MaxEvents` and `LastDay` bound
expiry, faults, repetitions, events and days. The client may create as many
sockets as it has sign-ins and faults, so a missing socket never hides a
reconnection. Two account requests at a time make every race between two; one
OAuth state at a time is enough there, since starting a flow changes nothing
else, and the trips have their own. Three secrets under two names let a key name
be used again while a token of its former secret lives.

**Fairness.** `RefreshSession`: a promise whose predecessor settled runs, Redis
answers or the command rejects, answers are sent (weak fairness on each). The
hub: goroutines that can run do; a `select` with several ready cases picks at
random, which is strong fairness on the cases of `writePump`; no fairness on what
peers do. The client: effects run, fetches end, sockets open and close, timers
fire; failures are bounded, users do as they like. The cache: polling of the
notifications goes on and is answered; nothing else is fair.

**Findings.**
- `friend_count`: two removals of one friendship cross; the second deletes
  nothing and still decrements `friendCount`, which becomes negative
  (`friend.repository.ts:103`, against `docs/social-continuity-model.md:69`).
- `browser_sign_out`: two requests of a tab meet an expired access token. The
  proxy clears the access cookie with every 401; the late 401 of one request
  deletes the cookie the refresh has just set, the retry of the other fails and
  ends the session of the tab (`lib/api.ts:79`), although the refresh succeeded,
  against the test "clears the session only when the silent refresh fails".
- `account_unlink`: the older Discord integration writes `CONNECTED_ACCOUNT` over
  the row a user signs in with (`discord-oauth.service.ts:67`); `unlink` looks at
  the other logins only for a `SOCIAL_LOGIN` row, so that it removes the last
  one, which `account-connection.service.ts:797` refuses. Two unlinks that cross
  reach the same state. One exception of `WayIn` is worth a look as well: a user
  of a first login with a verified email has a random password, but counts as
  one who can log in with it.
- `steam_verified`: the manual Steam form reads that no account is verified, the
  OpenID callback stores one, and the form's upsert replaces it by another id as
  MANUAL (`integrations.service.ts:357`, against the refusal at line 353).

## 4. What is proved

| theorem | argument |
|---|---|
| `RefreshSessionProofs!TypeCorrect`, `LockInvariant`, `LockExcludes`, `LockTableIsExact` | `LockInv`: the live places of a chain are consecutive, end at its tail, and the worker has the first; for any number of processes |
| `SessionInvariant`, `SignOutHolds`, `OneRotationPerToken`, `ServiceIsAtomic` | `SessionInv`: what a handler decided on is still in the store when it writes, unless it lapsed. Assumes `Sticky`: one process serves a session (docker-compose starts one backend); without it the lock, which is local to a process, protects nothing |
| `RefreshSessionProofs!RotationIsSafe` (of `SigningKeys`) | `KeysInv`: a key keeps its secret while anybody knows it, who signs (now or after the next start) signs with a key all running replicas have, and the key of a living token is still configured. For any number of replicas, keys and tokens, under the order of the rotation stated above |
| `FriendsProofs!FriendsTypeCorrect`, `FriendsInvariant`, `FriendshipStaysMutual`, `FriendshipNeedsConsent`, `NotificationsTellTheTruth` | `FriendsInv`: a handler that is about to notify has committed what it announces, and an accepted request stays accepted |
| `FriendCountIsBounded` | the counter moves with the set of friends, except that it may fall below |
| `PresenceHubProofs!OnlyConnectionsAreReached`, `PanicsHaveCause` | `HubInv`: the channel of a connection is closed by the one place that takes it out of the map, so that a lone connection is in the map exactly from its registration to its own unregistration, and its channel is open that long |
| `BrowserSessionProofs!CookiesBelongTogether` | every answer either treats both cookies alike or clears the access cookie, so no order of arrival separates them |
| `NobodyIsStranded` | `SlotInv`, `WaitInv`: the slot of a tab is taken as long as a refresh runs, and who waits for it waits for that refresh |
| `RefreshCookieIsCurrent`, `ReuseIsExplained` | `SpentInv`, `PairsInv`, `ReuseInv`: a refresh token behind the current one was presented before, and whoever carries it took it from the jar before the newer one arrived |
| `AccountConnectionsProofs!TypeCorrect`, `NobodyIsLockedOut` | `RemovalInv`: while one request is past its check, the login it counted on stays, and of two such requests both are marked; it needs `CreatedInv`, that requests speak only of users that exist, because their address decides. For every set of users, requests, providers and identities |
| `IdentitiesAreStable` | `StableInv`: a link that found no account and writes over one met a request that ran in between, and then it is marked |
| `AccountConnectionsProofs!TripsAreHonouredOnce`, `PagesAreTrue` (of `ConnectFlow`) | `FlowInv`: the first callback of a trip takes out its state, so any other is refused or marks the trip as disturbed; a trip presents its code in one request, and who holds the account got it from such a request. For any number of browsers' trips, handlers and users |
| `ProfileProofs!OfficialAccountsAreProven`, `LibraryHoldsOwnGames` | `LibraryInv`: between its decision and its write a handler carries an OFFICIAL standing only if it is proved, and games only of an account the user held; the histories only grow, so other handlers cannot take that away |
| `ProfileProofs!ShowcasesAreOrderly`, `ShowcasesAreBounded` (of `OtakuLibrary`) | `ShowcaseInv`: the snapshot a change works on is what is stored, or its commit fails; the import writes no rank |
| `ProfileProofs!ReadsRegular`, `PresenceIsAtomic` | `StoreInv`: a presence that is out of doubt is the same in both stores and is what was told last; every value a waiting reader may still answer is in its span. The refinement is proved step by step under the mapping of `ImplementsAtomicPresence` |
| `SocialProofs!OwnersAreMembers` (of `Communities`) | `CommunitiesInv`: past its lookup a handler speaks of a community that exists and goes on existing |
| `MembersAreCounted` | `CountInv`: the history of a membership moves with its row, one success at a time |
| `SocialProofs!CommentsStayListed` (of `Posts`) | `PostsInv`: a post that is gone stays away, and a comment goes only with its post, so the parent a reply looked up is there as long as the post it is inserted under |
| `PostsAreCounted`, `TogglesAlternate` | `TallyInv`: each creation, deletion or toggle that took effect moves one row and one request at a time; every other step leaves both counts alone |
| `FeedsAreFaithful` | `FeedInv` on top of `PostsInv`: the posts a reader has seen are in descending order and none is older than the cursor; what is owed was seen or is older than the cursor. Posts keep their relative place (`KeepsOrder`: an insertion appends, a deletion closes the gap), so other requests keep that; the page read next starts below the cursor (`RowsSort`, from `DescendingSorts`). For every page size |
| `StreaksMeanRuns` (of `Continuity`) | `ContinuityInv`, that no day is in the future, and what the sorted days say: there is a first gap (`GapExists`); up to it the k-th day is k - 1 days before the latest, and a longer run would have put a day into the gap (`StreakIsLongest`); days removed never make a run longer. For any number of people and days |
| `ContentIsTyped` (of `Content`) | `ContentInv`: the invariant of an area holds while the behaviour is that area's, its types hold always, because the other areas leave its tables alone |
| `FrontendProofs!OneSocket`, `StatusTruthful` (of `PresenceClient`) | `ClientInv`: which sockets an object still has, including those it let go of; an object the hook dropped has no timer and does not connect again, unless it awaited its credential. For any number of sign-ins, sockets and failures |
| `FrontendProofs!Undisturbed`, `FriendCount` (of `SocialCache`) | `CacheInv`: what is shown is the server's value plus the guesses of the mutations in flight; the snapshot of a request that overlaps no other is what the server has, so that its rollback is exact; a fetch that was not crossed brings what the server has; the server's friend count is the number of friends. For any posts, notifications and forms and any finite set of people |
| `FrontendProofs!TypeCorrect` (with `CacheTypeCorrect`) | the two sides of the tab share no state; what is shown is never newer than the server |

Each argument is an inductive invariant, because the property alone says nothing
of what a handler has read and not yet written. Each was checked by TLC on the
instance of its run before it was proved. Assumptions are the named `ASSUME`s of
the modules, which the runs evaluate: that `None` and the marks of a row are none
of the values they stand beside (`NullAssumption`, `EntryAssumption`,
`NoRowAssumption`, `NoTripAssumption`, `OldAssumption`, `AnswerAssumption`,
`SocketsAssumption`, the last conjunct of `CacheAssumption`), that bounds are
natural numbers or sets finite (`SlotsAssumption`, `KeepAssumption`,
`CacheAssumption` and the like).

Sorted rows needed a lemma of their own. `DescendingSorts` says that what
`Ordering!Descending` gives is a sequence of the set, in descending order, of its
length: its elements are numbered by how many do not come after them, no two have
the same number, and a number nobody has would leave n elements on n - 1 numbers
(`FS_PigeonHole`). `NewestFirst` and `DayKeys` are defined by it, so that the
feed and the streaks can be reasoned about without an induction over sequences.

Only model-checked is the liveness of the runs, which rests on fairness and is
out of the prover's reach. Every invariant and every action property of a
passing run is stated by a theorem.

## 5. Known behaviours without a property

They are steps of the models, but no text of the repository says what should
happen, so nothing is claimed of them:
- a logout whose backend call fails clears the cookies and leaves the session in
  Redis until its TTL (`BrowserSession`);
- a 401 of the proxy clears the access cookie, after which `presence-token`
  answers 401 without trying to refresh (`BrowserSession`);
- after accept and removal the old friend request keeps its unique key, so the
  same sender cannot ask again (`Friends`);
- a first login that fails between the user and the account leaves a user whose
  email is taken (`AccountConnections`);
- after a rollback that overlapped another mutation a reaction count may be off
  by one until the next fetch of the feed (`SocialCache`, `blurred`).

The state and PKCE stores are in the memory of one process: with several
backends and no sticky routing a callback would be refused on the other one.
`docker-compose.yml` starts one, and so do the models.

## 6. Not modelled, and what is left

- Re-authentication of an account: it applies to rows in `NEEDS_REAUTH`, a
  status that no service writes for these providers.
- The encryption of provider tokens at rest, issuer and audience of tokens.
- Requests to providers and the parsing of their answers; texts, media, badges.
- Media uploads, configuration, health, logging, rate limits, rendering, the
  seed and the scripts: no shared state, or formatting and parsing.
