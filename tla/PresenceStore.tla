--------------------------- MODULE PresenceStore ---------------------------
(***************************************************************************)
(* Presence in the REST backend: POST /presence, the Discord ingest        *)
(* endpoint and GET /presence/:userId over presence.repository.ts.         *)
(*                                                                         *)
(* An update writes Redis (a key that lapses after 300 s), then Postgres,  *)
(* then reads the friends and publishes to the channel of each.  Nothing   *)
(* makes the four steps atomic.  A read tries Redis and falls back to      *)
(* Postgres.                                                               *)
(*                                                                         *)
(* The friendships are those of module Friends, whose transactions change  *)
(* both rows at once; Befriend and Unfriend are their effect.  setOffline  *)
(* and getFriendsPresence have no caller.                                  *)
(***************************************************************************)
EXTENDS Handlers, FiniteSets

CONSTANTS
    Players,   \* bound: the users whose presence is updated
    Games, Details,
    Updates    \* bound: the presences that clients and Discord send

Presences == [status : {"IN_GAME", "OFFLINE"}, game : Games \cup {None},
              details : Details \cup {None}]
Offline   == [status |-> "OFFLINE", game |-> None, details |-> None]

ASSUME PlayersAssumption == Players \subseteq Users
ASSUME UpdatesAssumption == Updates \subseteq Presences
ASSUME NullAssumption == None \notin Handlers \cup Presences \* null is nothing else

VARIABLES
    redis,    \* redis[p]: the cached presence, None when the key lapsed
    pg,       \* pg[p]: the row in Postgres, Offline when there is none
    friends,  \* friends[p]: the friendships
    linked,   \* players with an active Discord integration
    told,     \* told[u][p]: the last presence of p published to u
    solo,     \* history: the update that ran alone so far, per player
    doubt,    \* history: the presences a reader of p may be shown
    span,     \* history: the presences in doubt while a reader waited
    circle    \* history: friends of p since the update in flight began

presenceTables  == <<redis, pg, friends, linked, told>>
presenceHistory == <<solo, doubt, span, circle>>
presenceVars    == <<presenceTables, presenceHistory>>

\* Readers are compared on what the profile shows; details follow their own rule.
Face(v) == [status |-> v.status, game |-> v.game]
Faces   == {Face(v) : v \in Presences}

Stored(p) == IF redis[p] # None THEN redis[p] ELSE pg[p]

ReadsOf(h, p) == Live(h) /\ job[h].op = "get" /\ job[h].user = p
UpdatesOf(p)  == {h \in Handlers : Live(h) /\ job[h].op = "set" /\ job[h].user = p}

PresenceInit ==
    /\ redis = [p \in Players |-> None]
    /\ pg = [p \in Players |-> Offline]
    /\ friends = [p \in Players |-> Users \ {p}]
    /\ linked = Players
    /\ told = [u \in Users |-> [p \in Players |-> None]]
    /\ solo = [p \in Players |-> None]
    /\ doubt = [p \in Players |-> {Face(Offline)}]
    /\ span = [h \in Handlers |-> {}]
    /\ circle = friends

-----------------------------------------------------------------------------
(* History: from here on readers may see v, and h runs alone if nobody     *)
(* else does.                                                              *)
Doubt(h, p, v) ==
    /\ doubt' = [doubt EXCEPT ![p] = @ \cup {Face(v)}]
    /\ span' = [g \in Handlers |-> IF ReadsOf(g, p) THEN span[g] \cup {Face(v)} ELSE span[g]]
    /\ IF UpdatesOf(p) = {}
       THEN solo' = [solo EXCEPT ![p] = h] /\ circle' = [circle EXCEPT ![p] = friends[p]]
       ELSE solo' = [solo EXCEPT ![p] = None] /\ UNCHANGED circle

\* POST /presence
SetBegins(h, p, v) ==
    /\ Begin(h, "redis", [op |-> "set", user |-> p, value |-> v, audience |-> {}])
    /\ Doubt(h, p, v)
    /\ UNCHANGED presenceTables

\* buildPresencePayload: OFFLINE clears the activity.
DiscordPayload(v) == IF v.status = "OFFLINE" THEN Offline ELSE v

(***************************************************************************)
(* POST /integrations/discord/presence: the account is looked up; an       *)
(* unlink after that does not stop the update.                             *)
(***************************************************************************)
IngestBegins(h, p, v) ==
    /\ p \in linked
    /\ SetBegins(h, p, DiscordPayload(v))

WriteRedis(h) ==
    /\ At(h, "set", "redis")
    /\ redis' = [redis EXCEPT ![job[h].user] = job[h].value]
    /\ Await(h, "postgres")
    /\ UNCHANGED <<pg, friends, linked, told, presenceHistory>>

\* Mutant: the game is left alone when the update names none.
KeepsGame(old, v) ==
    [v EXCEPT !.game = IF v.game = None THEN old.game ELSE v.game]

\* The upsert: gameDetails undefined leaves the column as it was.
Upserted(old, v) ==
    [v EXCEPT !.details = IF v.details = None THEN old.details ELSE v.details]

WritePostgres(h) ==
    LET p == job[h].user
        v == job[h].value
    IN
    /\ At(h, "set", "postgres")
    /\ pg' = [pg EXCEPT ![p] = Upserted(pg[p], v)]
    /\ doubt' = IF solo[p] = h THEN [doubt EXCEPT ![p] = {Face(v)}] ELSE doubt
    /\ Await(h, "friends")
    /\ UNCHANGED <<redis, friends, linked, told, solo, span, circle>>

\* Mutant: the recipients are those who were told before, not the friends.
FindSubscribers(h) ==
    LET p == job[h].user
        U == {u \in Users : told[u][p] # None} \cup friends[p]
    IN
    /\ At(h, "set", "friends")
    /\ AwaitWith(h, "publish", [job[h] EXCEPT !.audience = U])
    /\ UNCHANGED presenceVars

FindFriends(h) ==
    /\ At(h, "set", "friends")
    /\ AwaitWith(h, "publish", [job[h] EXCEPT !.audience = friends[job[h].user]])
    /\ UNCHANGED presenceVars

\* publishScopedUpdate, then the answer.
Publish(h) ==
    LET p == job[h].user IN
    /\ At(h, "set", "publish")
    /\ told' = [u \in Users |-> IF u \in job[h].audience \ {p}
                                THEN [told[u] EXCEPT ![p] = job[h].value] ELSE told[u]]
    /\ End(h)
    /\ UNCHANGED <<redis, pg, friends, linked, presenceHistory>>

-----------------------------------------------------------------------------
(* GET /presence/:userId, and the game of POST /posts.                     *)

GetBegins(h, p) ==
    /\ Begin(h, "cache", [op |-> "get", user |-> p, saw |-> None])
    /\ span' = [span EXCEPT ![h] = doubt[p]]
    /\ UNCHANGED <<presenceTables, solo, doubt, circle>>

ReadRedis(h) ==
    LET cached == redis[job[h].user] IN
    /\ At(h, "get", "cache")
    /\ IF cached # None
       THEN AnswerWith(h, "presence", [job[h] EXCEPT !.saw = cached])
       ELSE Await(h, "row")
    /\ UNCHANGED presenceVars

ReadPostgres(h) ==
    /\ At(h, "get", "row")
    /\ AnswerWith(h, "presence", [job[h] EXCEPT !.saw = pg[job[h].user]])
    /\ UNCHANGED presenceVars

-----------------------------------------------------------------------------
\* The Redis key expires, or Redis restarts without it.
Lapse(p) ==
    /\ redis[p] # None
    /\ redis' = [redis EXCEPT ![p] = None]
    /\ UNCHANGED <<pg, friends, linked, told, presenceHistory, handlerVars>>

Befriend(p, u) ==
    /\ u \notin friends[p] /\ u # p
    /\ friends' = [friends EXCEPT ![p] = @ \cup {u}]
    /\ circle' = [circle EXCEPT ![p] = @ \cup {u}]
    /\ UNCHANGED <<redis, pg, linked, told, solo, doubt, span, handlerVars>>

Unfriend(p, u) ==
    /\ u \in friends[p]
    /\ friends' = [friends EXCEPT ![p] = @ \ {u}]
    /\ UNCHANGED <<redis, pg, linked, told, presenceHistory, handlerVars>>

Unlink(p) ==
    /\ p \in linked
    /\ linked' = linked \ {p}
    /\ UNCHANGED <<redis, pg, friends, told, presenceHistory, handlerVars>>

PresenceNext ==
    \/ \E h \in Handlers :
         \/ \E p \in Players : GetBegins(h, p)
         \/ \E p \in Players, v \in Updates : SetBegins(h, p, v) \/ IngestBegins(h, p, v)
         \/ WriteRedis(h) \/ WritePostgres(h) \/ FindFriends(h) \/ Publish(h)
         \/ ReadRedis(h) \/ ReadPostgres(h)
         \/ QueryFails(h, {}) /\ UNCHANGED presenceVars
    \/ \E p \in Players :
         \/ Lapse(p) \/ Unlink(p)
         \/ \E u \in Users : Befriend(p, u) \/ Unfriend(p, u)

PresenceSpec ==
    HandlersInit /\ PresenceInit /\ [][PresenceNext]_<<handlerVars, presenceVars>>

-----------------------------------------------------------------------------
(* Properties *)

PresenceTypeOK ==
    /\ redis \in [Players -> Presences \cup {None}]
    /\ pg \in [Players -> Presences]
    /\ friends \in [Players -> SUBSET Users]
    /\ linked \subseteq Players
    /\ told \in [Users -> [Players -> Presences \cup {None}]]
    /\ solo \in [Players -> Handlers \cup {None}]
    /\ doubt \in [Players -> SUBSET Faces]
    /\ span \in [Handlers -> SUBSET Faces]
    /\ circle \in [Players -> SUBSET Users]

ToldFaces == [u \in Users |-> [p \in Players |->
                IF told[u][p] = None THEN None ELSE Face(told[u][p])]]

(* An update that ran alone is shown until the next one begins, also after *)
(* Redis forgets it; overlapping or half-failed updates leave only their   *)
(* own values in doubt; and a presence is announced only to those who were *)
(* friends while the update ran.                                           *)
Shown == INSTANCE AtomicPresence WITH
    Presences <- Faces, Nobody <- None,
    shown <- [p \in Players |-> Face(Stored(p))],
    told <- ToldFaces, doubt <- doubt, circle <- circle

ImplementsAtomicPresence == Shown!Spec

(* A read that misses Redis and falls back to Postgres, with updates in    *)
(* between, answers a presence that was in doubt while it waited: never    *)
(* one that was already replaced for good, or the game of another update.  *)
ReadsAreRegular ==
    \A h \in Handlers :
        job[h].op = "get" /\ Answered(h, "presence") => Face(job[h].saw) \in span[h]
=============================================================================
