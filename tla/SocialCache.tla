----------------------------- MODULE SocialCache -----------------------------
(***************************************************************************)
(* The query cache of one browser tab (lib/query/social-cache.ts, TanStack *)
(* Query) and the mutations of the components that change it.              *)
(*                                                                         *)
(* Reactions, friendships and notifications are optimistic: the mutation   *)
(* cancels the fetches of the queries it touches, keeps a snapshot of      *)
(* them, changes the cache, and sends its request; when that fails the     *)
(* snapshot is put back as a whole.  Forms (posts, comments, communities,  *)
(* accounts, showcase, settings) send first and refetch when it worked.    *)
(*                                                                         *)
(* The server changes for this user only through this tab, except that     *)
(* notifications arrive.  A refusal and a lost answer look the same to the *)
(* tab.  `slots' are the requests that may be in flight at once: a button  *)
(* is disabled while its own is.  What a form changes is a version number. *)
(***************************************************************************)
EXTENDS Integers, FiniteSets

CONSTANTS
    Pages,       \* post cards in the feed
    Others,      \* Others[p]: reactions of other users
    People,      \* users whose card or button is shown
    Notes,       \* notifications
    Forms,       \* bound: submissions of forms in flight
    MaxEvents,   \* bound: mutations that start, notifications that arrive
    MaxFaults,   \* bound: requests and fetches that fail
    MaxFetches   \* bound: no fetch starts by itself beside that many

ASSUME CacheAssumption ==
    /\ MaxEvents \in Nat /\ MaxFaults \in Nat /\ Others \in [Pages -> Nat]
    /\ IsFiniteSet(People) /\ "version" \notin Pages \cup People \cup Notes

VARIABLES
    server,    \* what the server would answer, per query
    cache,     \* what the tab shows, per query
    selected,  \* selectedTypes: posts whose reaction is shown as the user's
    mine,      \* posts the user has reacted to, which the feed does not tell
    fetch,     \* fetch[q]: [at, data, crossed]
    slots,     \* slots[s]: the request in flight
    events, failures,
    blurred,   \* history: <<q, part>> that may differ from the server
    outdated   \* history: queries whose last fetch failed

cacheVars == <<server, cache, selected, mine, fetch, slots, events, failures, blurred, outdated>>

Queries == {"feed", "friends", "requests", "profile", "inbox",
            "accounts", "comments", "communities", "otaku"}

Slots == Pages \cup People \cup Notes \cup {"all"} \cup Forms
Nobody == [op |-> "none"]

\* A query holds a part that is changed optimistically and a version.
Parts(q) ==
    CASE q = "feed"                    -> Pages
      [] q \in {"friends", "requests"} -> People
      [] q = "inbox"                   -> Notes
      [] OTHER                         -> {"count"}

View(v, q, i) ==
    CASE q = "feed" -> v.shows[i]
      [] q \in {"friends", "requests", "inbox"} -> i \in v.shows
      [] OTHER -> v.shows

NoFetch == [at |-> "idle", data |-> Nobody, crossed |-> FALSE]
Asked(crossed) == [at |-> "asked", data |-> Nobody, crossed |-> crossed]

\* A query loaded before; x has asked for friendship, the others are friends.
CacheInit ==
    \E reacted \in SUBSET Pages, asking \in SUBSET People :
        /\ mine = reacted
        /\ server = [q \in Queries |->
             [version |-> 0,
              shows |-> CASE q = "feed" -> [p \in Pages |-> Others[p] + (IF p \in reacted THEN 1 ELSE 0)]
                          [] q = "friends"  -> People \ asking
                          [] q = "requests" -> asking
                          [] q = "profile"  -> Cardinality(People \ asking)
                          [] OTHER -> {}]]
        /\ cache = server
        /\ selected = {} /\ events = 0 /\ failures = 0 /\ blurred = {} /\ outdated = {}
        /\ fetch = [q \in Queries |-> NoFetch]
        /\ slots = [s \in Slots |-> Nobody]

-----------------------------------------------------------------------------
(* The optimistic changes: value of a query before and after.              *)

NonNegative(n) == IF n < 0 THEN 0 ELSE n

\* applyFeedReactionDelta
Reacted(v, p, delta) == [v EXCEPT !.shows[p] = NonNegative(@ + delta)]
\* applyAcceptedFriendRequest, for the two lists of the receiver
Accepted(v, x)  == [v EXCEPT !.shows = @ \cup {x}]
Dropped(v, x)   == [v EXCEPT !.shows = @ \ {x}]
\* applyProfileFriendCountDelta
Counted(v, delta) == [v EXCEPT !.shows = NonNegative(@ + delta)]

\* snapshotQueryGroups: the queries a mutation cancels, keeps and restores.
Touched(op) ==
    CASE op = "react"  -> {"feed"}
      [] op = "accept" -> {"friends", "requests", "profile"}
      [] op = "remove" -> {"friends", "profile"}
      [] op \in {"readOne", "readAll"} -> {"inbox"}
      [] OTHER -> {}

\* The mutations in flight whose answer changes q.
Pending(q) == {s \in Slots : slots[s].op # "none" /\ q \in Touched(slots[s].op) \cup slots[s].refetch}

\* Mutant: a cancelled fetch is never asked for again.
CancelledForGood(Q) ==
    [q \in Queries |-> IF q \in Q /\ fetch[q].at # "idle"
                       THEN [fetch[q] EXCEPT !.at = "cancelled"] ELSE fetch[q]]

\* cancelQueries
Cancelled(Q) == [q \in Queries |-> IF q \in Q THEN NoFetch ELSE fetch[q]]

Whole(q) == {q} \X (Parts(q) \cup {"version"})

\* slots, once s takes part: what it overlaps is no longer alone.
Joined(s, request) ==
    LET met == UNION {Pending(q) : q \in Touched(request.op) \cup request.refetch} IN
    [t \in Slots |-> CASE t = s     -> [request EXCEPT !.alone = (met = {})]
                       [] t \in met -> [slots[t] EXCEPT !.alone = FALSE]
                       [] OTHER     -> slots[t]]

Happens == events < MaxEvents /\ events' = events + 1

Request(op, refetch) ==
    [op |-> op, refetch |-> refetch, stage |-> "sent", alone |-> TRUE, added |-> FALSE,
     snapshot |-> [q \in Touched(op) |-> cache[q]]]

(***************************************************************************)
(* onMutate, up to the request: the awaits in it end before any other      *)
(* event.  A refetch that is cancelled leaves the version behind.          *)
(***************************************************************************)
Mutate(s, op, refetch, changed, distorted) ==
    LET Q == Touched(op) IN
    /\ slots[s] = Nobody /\ Happens
    /\ slots' = Joined(s, Request(op, refetch))
    /\ cache' = [q \in Queries |-> IF q \in Q THEN changed[q] ELSE cache[q]]
    /\ fetch' = Cancelled(Q)
    /\ blurred' = blurred \cup distorted \cup {<<q, "version">> : q \in {r \in Q : fetch[r].at # "idle"}}
    /\ UNCHANGED <<server, mine, failures, outdated>>

\* A count of zero cannot follow a wrong guess down.
React(p) ==
    LET delta == IF p \in selected THEN -1 ELSE 1
        clamped == cache["feed"].shows[p] + delta < 0
    IN
    /\ Mutate(p, "react", {}, [feed |-> Reacted(cache["feed"], p, delta)],
              IF clamped THEN {<<"feed", p>>} ELSE {})
    /\ selected' = IF p \in selected THEN selected \ {p} ELSE selected \cup {p}

Accept(x) ==
    /\ x \in cache["requests"].shows
    /\ Mutate(x, "accept", {"profile"},
              [friends  |-> Accepted(cache["friends"], x),
               requests |-> Dropped(cache["requests"], x),
               profile  |-> Counted(cache["profile"], 1)], {})
    /\ UNCHANGED selected

Remove(x) ==
    /\ x \in cache["friends"].shows \ cache["requests"].shows
    /\ Mutate(x, "remove", {"profile"},
              [friends |-> Dropped(cache["friends"], x),
               profile |-> Counted(cache["profile"], -1)], {})
    /\ UNCHANGED selected

\* applyNotificationRead
ReadOne(n) ==
    /\ n \in cache["inbox"].shows
    /\ Mutate(n, "readOne", {}, [inbox |-> Dropped(cache["inbox"], n)], {})
    /\ UNCHANGED selected

\* applyAllNotificationsRead
ReadAll ==
    /\ cache["inbox"].shows # {}
    /\ Mutate("all", "readAll", {}, [inbox |-> [cache["inbox"] EXCEPT !.shows = {}]], {})
    /\ UNCHANGED selected

Submit(f, op, refetch) ==
    /\ slots[f] = Nobody /\ Happens
    /\ slots' = Joined(f, Request(op, refetch))
    /\ UNCHANGED <<server, cache, selected, mine, fetch, failures, blurred, outdated>>

SubmitPost(f)      == Submit(f, "post", {"feed"})
SubmitComment(f)   == Submit(f, "comment", {"feed", "comments"})
CreateGroup(f)     == Submit(f, "community", {"communities"})
JoinOrLeave(f)     == Submit(f, "membership", {"communities"})
ManageAccount(f)   == Submit(f, "account", {"accounts"})
FeatureEntry(f)    == Submit(f, "showcase", {"otaku", "profile"})
\* The settings form also writes the cache; the refetch brings the same.
SaveSettings(f)    == Submit(f, "settings", {"profile"})

-----------------------------------------------------------------------------
(* The server, and the answers.                                            *)

Bump(Q) == [q \in Queries |-> IF q \in Q THEN [server[q] EXCEPT !.version = @ + 1] ELSE server[q]]

\* What was read for these queries is old now.
Overtaken(Q) == [q \in Queries |-> IF q \in Q /\ fetch[q].at = "answered"
                                   THEN [fetch[q] EXCEPT !.crossed = TRUE] ELSE fetch[q]]

\* The server does what s asks for; a request for a friendship that is not
\* there, or no longer, is refused.
Serve(s) ==
    LET op == slots[s].op
        adds == s \notin mine
    IN
    /\ slots[s].op # "none" /\ slots[s].stage = "sent"
    /\ op = "accept" => s \in server["requests"].shows
    /\ op = "remove" => s \in server["friends"].shows
    /\ server' =
         CASE op = "react"   -> [server EXCEPT !["feed"].shows[s] = @ + (IF adds THEN 1 ELSE -1)]
           [] op = "accept"  -> [server EXCEPT !["friends"].shows = @ \cup {s},
                                               !["requests"].shows = @ \ {s},
                                               !["profile"].shows = @ + 1]
           [] op = "remove"  -> [server EXCEPT !["friends"].shows = @ \ {s},
                                               !["profile"].shows = @ - 1]
           [] op = "readOne" -> [server EXCEPT !["inbox"].shows = @ \ {s}]
           [] op = "readAll" -> [server EXCEPT !["inbox"].shows = {}]
           [] OTHER          -> Bump(slots[s].refetch)
    /\ mine' = IF op # "react" THEN mine ELSE IF adds THEN mine \cup {s} ELSE mine \ {s}
    /\ slots' = [slots EXCEPT ![s].stage = "served", ![s].added = (op = "react" /\ adds)]
    /\ fetch' = Overtaken(Touched(op) \cup slots[s].refetch)
    /\ UNCHANGED <<events, cache, selected, failures, blurred, outdated>>

\* invalidateQueries: fetches under way start again.
Invalidated(s, Q) ==
    [q \in Queries |-> IF q \in Q THEN Asked(Pending(q) \ {s} # {}) ELSE fetch[q]]

\* Mutant: the wrong guess is taken back, but not the right one applied.
CorrectedByOne(s) ==
    IF (s \in selected) = slots[s].added THEN cache["feed"]
    ELSE Reacted(cache["feed"], s, IF slots[s].added THEN 1 ELSE -1)

\* onSuccess of a reaction: the guess is corrected by two.
Corrected(s) ==
    IF (s \in selected) = slots[s].added THEN cache["feed"]
    ELSE Reacted(cache["feed"], s, IF slots[s].added THEN 2 ELSE -2)

Succeed(s) ==
    LET react == slots[s].op = "react" IN
    /\ slots[s].op # "none" /\ slots[s].stage = "served"
    /\ cache' = IF react THEN [cache EXCEPT !["feed"] = Corrected(s)] ELSE cache
    /\ selected' = CASE ~react -> selected
                     [] react /\ slots[s].added  -> selected \cup {s}
                     [] react /\ ~slots[s].added -> selected \ {s}
    /\ fetch' = Invalidated(s, slots[s].refetch)
    /\ slots' = [slots EXCEPT ![s] = Nobody]
    /\ UNCHANGED <<events, server, mine, failures, blurred, outdated>>

\* Mutant: a failed friendship mutation does not refetch the profile.
RefetchedOnError(s) == {}

\* onSettled of the friendship mutations; the others only refetch what is
\* not on the screen.
RefetchedAfterError(s) == IF slots[s].op \in {"accept", "remove"} THEN slots[s].refetch ELSE {}

\* restoreQuerySnapshots
Restored(s) ==
    [q \in Queries |-> IF q \in Touched(slots[s].op) THEN slots[s].snapshot[q] ELSE cache[q]]

(***************************************************************************)
(* onError.  The snapshot is exact when s overlapped no other mutation and *)
(* the server did nothing.                                                 *)
(***************************************************************************)
Fail(s) ==
    LET op == slots[s].op
        lost == slots[s].stage = "served"
        refused == \/ op = "accept" /\ s \notin server["requests"].shows
                   \/ op = "remove" /\ s \notin server["friends"].shows
    IN
    /\ op # "none"
    /\ IF ~lost /\ refused THEN UNCHANGED failures
       ELSE failures < MaxFaults /\ failures' = failures + 1
    /\ cache' = Restored(s)
    /\ selected' = CASE op # "react" -> selected
                     [] op = "react" /\ s \in selected -> selected \ {s}
                     [] op = "react" /\ s \notin selected -> selected \cup {s}
    /\ blurred' = IF slots[s].alone /\ ~lost THEN blurred
                  ELSE blurred \cup UNION {Whole(q) : q \in Touched(op) \cup slots[s].refetch}
    /\ fetch' = Invalidated(s, RefetchedAfterError(s))
    /\ slots' = [slots EXCEPT ![s] = Nobody]
    /\ UNCHANGED <<events, server, mine, outdated>>

-----------------------------------------------------------------------------
(* Fetches: on mount, by refetchInterval, after an invalidation.           *)

StartFetch(q) ==
    /\ Cardinality({r \in Queries : fetch[r].at # "idle"}) < MaxFetches
    /\ fetch[q].at = "idle"
    /\ fetch' = [fetch EXCEPT ![q] = Asked(Pending(q) # {})]
    /\ UNCHANGED <<events, server, cache, selected, mine, slots, failures, blurred, outdated>>

ServeFetch(q) ==
    /\ fetch[q].at = "asked"
    /\ fetch' = [fetch EXCEPT ![q].at = "answered", ![q].data = server[q]]
    /\ UNCHANGED <<events, server, cache, selected, mine, slots, failures, blurred, outdated>>

Arrive(q) ==
    /\ fetch[q].at = "answered"
    /\ cache' = [cache EXCEPT ![q] = fetch[q].data]
    /\ blurred' = IF fetch[q].crossed THEN blurred \cup Whole(q) ELSE blurred \ Whole(q)
    /\ outdated' = outdated \ {q}
    /\ fetch' = [fetch EXCEPT ![q] = NoFetch]
    /\ UNCHANGED <<events, server, selected, mine, slots, failures>>

\* After the retry.
FetchFails(q) ==
    /\ fetch[q].at \in {"asked", "answered"}
    /\ failures < MaxFaults /\ failures' = failures + 1
    /\ outdated' = outdated \cup {q}
    /\ blurred' = blurred \cup {<<q, "version">>}
    /\ fetch' = [fetch EXCEPT ![q] = NoFetch]
    /\ UNCHANGED <<events, server, cache, selected, mine, slots>>

\* Somebody else causes a notification.
NewNote(n) ==
    /\ n \notin server["inbox"].shows 
    /\ Happens
    /\ server' = [server EXCEPT !["inbox"] = [version |-> @.version + 1, shows |-> @.shows \cup {n}]]
    /\ blurred' = blurred \cup {<<"inbox", n>>, <<"inbox", "version">>}
    /\ fetch' = Overtaken({"inbox"})
    /\ UNCHANGED <<cache, selected, mine, slots, failures, outdated>>

FeedNext   == \/ \E p \in Pages : React(p)
              \/ \E f \in Forms : SubmitPost(f) \/ SubmitComment(f)
CircleNext == \E x \in People : Accept(x) \/ Remove(x)
InboxNext  == ReadAll \/ \E n \in Notes : ReadOne(n) \/ NewNote(n)
FormsNext  == \E f \in Forms : CreateGroup(f) \/ JoinOrLeave(f) \/ ManageAccount(f)
SelfNext   == \E f \in Forms : FeatureEntry(f) \/ SaveSettings(f)

Answers(Q) ==
    \/ \E s \in Slots : Serve(s) \/ Succeed(s) \/ Fail(s)
    \/ \E q \in Q : StartFetch(q) \/ ServeFetch(q) \/ Arrive(q) \/ FetchFails(q)

CacheNext == FeedNext \/ CircleNext \/ InboxNext \/ FormsNext \/ SelfNext \/ Answers(Queries)
CacheSpec == CacheInit /\ [][CacheNext]_cacheVars

\* refetchInterval of the notifications; the server answers.
Polling == /\ WF_cacheVars(StartFetch("inbox"))
           /\ WF_cacheVars(ServeFetch("inbox"))
           /\ WF_cacheVars(Arrive("inbox"))

-----------------------------------------------------------------------------
(* Properties *)

CacheTypeOK ==
    /\ selected \subseteq Pages /\ mine \subseteq Pages
    /\ events \in 0..MaxEvents /\ failures \in 0..MaxFaults
    /\ \A q \in Queries : /\ fetch[q].at \in {"idle", "asked", "answered"}
                           /\ cache[q].version <= server[q].version
    /\ blurred \subseteq UNION {Whole(q) : q \in Queries} /\ outdated \subseteq Queries

Waiting(q, i) ==
    \/ \E s \in Pending(q) : i \in {s, "count", "version"} \/ slots[s].op = "readAll"
    \/ i = "version" /\ fetch[q].at # "idle"

Same(q, i) == IF i = "version" THEN cache[q].version = server[q].version
              ELSE View(cache[q], q, i) = View(server[q], q, i)

(* What a card, a button, a list or a counter shows is what the server has *)
(* as soon as its own mutation is done, whatever other mutations, refusals *)
(* and refetches ran meanwhile: also when the tab guessed wrong.  The      *)
(* exceptions are those the code has no answer to, until the next fetch: a *)
(* rollback that overlapped another mutation of the query, an answer that  *)
(* was lost, a fetch that was asked while a mutation was in flight or was  *)
(* cancelled by one, and what others did.                                  *)
UndisturbedIsExact ==
    \A q \in Queries : \A i \in Parts(q) \cup {"version"} :
        <<q, i>> \in blurred \/ Waiting(q, i) \/ Same(q, i)

(* The friend count of the profile has none of these exceptions: each      *)
(* accept and removal ends with a refetch of its own, so that crossing     *)
(* mutations, rollbacks and lost answers leave the server's count, unless  *)
(* that fetch failed.                                                      *)
FriendCountSettles ==
    Pending("profile") = {} /\ fetch["profile"].at = "idle" /\ "profile" \notin outdated
        => cache["profile"].shows = server["profile"].shows

(* Polling repairs the badge: whatever rollbacks and cancelled fetches did *)
(* to the unread notifications, in the end they are the server's.          *)
BadgeConverges == <>[](cache["inbox"].shows = server["inbox"].shows)
=============================================================================
