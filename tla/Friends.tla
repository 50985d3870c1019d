------------------------------ MODULE Friends ------------------------------
(***************************************************************************)
(* Friend requests and friendships: the routes of friends.routes.ts and    *)
(* the Prisma operations of friend.repository.ts behind them.              *)
(*                                                                         *)
(* A handler reads the database, decides, and writes; every query is one   *)
(* step, and a prisma.$transaction is one atomic step that happens as a    *)
(* whole or, when a statement of it fails, not at all.  The database has   *)
(* two unique constraints: one request per (sender, receiver) whatever its *)
(* status, and one friendship per (user, friend).                          *)
(*                                                                         *)
(* A request is identified by its sender and receiver.  A handler is used  *)
(* once.  Lookups that answer 400, 403 or 404 at once change nothing and   *)
(* are left out.                                                           *)
(***************************************************************************)
EXTENDS Integers, FiniteSets

CONSTANTS
    Users,   \* user ids
    Reqs     \* request handlers

ASSUME UsersAssumption == IsFiniteSet(Users)

VARIABLES
    requests,     \* friend_requests: <<sender, receiver>> -> status
    friendships,  \* friendships: set of <<user, friend>>
    friendCount,  \* user_stats.friendCount
    inbox,        \* notifications written: <<receiver, type, other user>>
    pc,           \* progress of each handler
    job,          \* what each handler does: op, the caller, the other user
    seen,         \* which of the two reads of a send have come back
    result        \* the answer of each handler

vars == <<requests, friendships, friendCount, inbox, pc, job, seen, result>>

Pairs == {p \in Users \X Users : p[1] # p[2]}
Both(a, b) == {<<a, b>>, <<b, a>>}
Job   == [op : {"send", "accept", "remove"}, user : Users, other : Users]
NoJob == [op |-> "none"]

Init ==
    /\ requests = [p \in Pairs |-> "none"]
    /\ friendships = {}
    /\ friendCount = [u \in Users |-> 0]
    /\ inbox = {}
    /\ pc = [h \in Reqs |-> "idle"]
    /\ job = [h \in Reqs |-> NoJob]
    /\ seen = [h \in Reqs |-> {}]
    /\ result = [h \in Reqs |-> "none"]

Begin(h, op, u, v) ==
    /\ pc[h] = "idle"
    /\ u # v
    /\ job' = [job EXCEPT ![h] = [op |-> op, user |-> u, other |-> v]]
    /\ pc' = [pc EXCEPT ![h] = "checking"]
    /\ UNCHANGED <<requests, friendships, friendCount, inbox, seen, result>>

Answer(h, what) ==
    /\ pc' = [pc EXCEPT ![h] = "done"]
    /\ result' = [result EXCEPT ![h] = what]

Proceed(h, where) == pc' = [pc EXCEPT ![h] = where] /\ UNCHANGED result

-----------------------------------------------------------------------------
(* POST /friends/request/:targetId.  existsFriendship and existsRequest    *)
(* run in parallel (Promise.all): the two reads happen in either order.    *)

SendReads(h, table) ==
    LET u == job[h].user
        v == job[h].other
        found == CASE table = "friendship" -> <<u, v>> \in friendships
                   [] table = "request"    -> \E p \in Both(u, v) : requests[p] = "PENDING"
    IN
    /\ pc[h] = "checking" /\ job[h].op = "send"
    /\ table \notin seen[h]
    /\ seen' = [seen EXCEPT ![h] = @ \cup {table}]
    /\ IF found THEN Answer(h, "conflict")
       ELSE IF seen'[h] = {"friendship", "request"} THEN Proceed(h, "writing")
       ELSE UNCHANGED <<pc, result>>
    /\ UNCHANGED <<requests, friendships, friendCount, inbox, job>>

\* createRequest: the unique constraint rejects a second row, accepted or not.
CreateRequest(h) ==
    LET p == <<job[h].user, job[h].other>> IN
    /\ pc[h] = "writing" /\ job[h].op = "send"
    /\ IF requests[p] = "none"
       THEN requests' = [requests EXCEPT ![p] = "PENDING"] /\ Proceed(h, "notifying")
       ELSE UNCHANGED requests /\ Answer(h, "error")
    /\ UNCHANGED <<friendships, friendCount, inbox, job, seen>>

-----------------------------------------------------------------------------
(* POST /friends/accept/:requestId, called by the receiver.                *)

AcceptReads(h) ==
    LET status == requests[<<job[h].other, job[h].user>>] IN
    /\ pc[h] = "checking" /\ job[h].op = "accept"
    /\ status # "none"
    /\ IF status = "PENDING" THEN Proceed(h, "writing") ELSE Answer(h, "conflict")
    /\ UNCHANGED <<requests, friendships, friendCount, inbox, job, seen>>

\* Mutant: the status of the request is not updated.
AcceptForgetsStatus(h) ==
    LET v == job[h].user
        u == job[h].other
    IN
    /\ pc[h] = "writing" /\ job[h].op = "accept"
    /\ friendships \cap Both(u, v) = {}
    /\ friendships' = friendships \cup Both(u, v)
    /\ friendCount' = [w \in Users |-> friendCount[w] + IF w \in {u, v} THEN 1 ELSE 0]
    /\ Proceed(h, "notifying")
    /\ UNCHANGED <<requests, inbox, job, seen>>

\* Mutant: createMany skips duplicates, the increment happens anyway.
AcceptSkipsDuplicates(h) ==
    LET v == job[h].user
        u == job[h].other
    IN
    /\ pc[h] = "writing" /\ job[h].op = "accept"
    /\ requests' = [requests EXCEPT ![<<u, v>>] = "ACCEPTED"]
    /\ friendships' = friendships \cup Both(u, v)
    /\ friendCount' = [w \in Users |-> friendCount[w] + IF w \in {u, v} THEN 1 ELSE 0]
    /\ Proceed(h, "notifying")
    /\ UNCHANGED <<inbox, job, seen>>

\* Mutant: the notification goes out although the transaction was rolled back.
AcceptNotifiesAnyway(h) ==
    LET v == job[h].user
        u == job[h].other
    IN
    /\ pc[h] = "writing" /\ job[h].op = "accept"
    /\ IF friendships \cap Both(u, v) = {}
       THEN /\ requests' = [requests EXCEPT ![<<u, v>>] = "ACCEPTED"]
            /\ friendships' = friendships \cup Both(u, v)
            /\ friendCount' = [w \in Users |-> friendCount[w] + IF w \in {u, v} THEN 1 ELSE 0]
       ELSE UNCHANGED <<requests, friendships, friendCount>>
    /\ Proceed(h, "notifying")
    /\ UNCHANGED <<inbox, job, seen>>

\* acceptRequest: the transaction does not look at the status again.
AcceptCommits(h) ==
    LET v == job[h].user
        u == job[h].other
    IN
    /\ pc[h] = "writing" /\ job[h].op = "accept"
    /\ IF friendships \cap Both(u, v) = {}
       THEN /\ requests' = [requests EXCEPT ![<<u, v>>] = "ACCEPTED"]
            /\ friendships' = friendships \cup Both(u, v)
            /\ friendCount' = [w \in Users |-> friendCount[w] + IF w \in {u, v} THEN 1 ELSE 0]
            /\ Proceed(h, "notifying")
       ELSE UNCHANGED <<requests, friendships, friendCount>> /\ Answer(h, "error")
    /\ UNCHANGED <<inbox, job, seen>>

-----------------------------------------------------------------------------
(* DELETE /friends/:friendId                                               *)

RemoveReads(h) ==
    /\ pc[h] = "checking" /\ job[h].op = "remove"
    /\ IF <<job[h].user, job[h].other>> \in friendships
       THEN Proceed(h, "writing") ELSE Answer(h, "notFound")
    /\ UNCHANGED <<requests, friendships, friendCount, inbox, job, seen>>

\* removeFriendship: deleteMany may delete nothing, the decrement happens anyway.
RemoveCommits(h) ==
    LET u == job[h].user
        v == job[h].other
    IN
    /\ pc[h] = "writing" /\ job[h].op = "remove"
    /\ friendships' = friendships \ Both(u, v)
    /\ friendCount' = [w \in Users |-> friendCount[w] - IF w \in {u, v} THEN 1 ELSE 0]
    /\ Answer(h, "ok")
    /\ UNCHANGED <<requests, inbox, job, seen>>

-----------------------------------------------------------------------------
\* notificationService.create: the row that tells the other user.
Notify(h) ==
    LET type == IF job[h].op = "send" THEN "FRIEND_REQUEST" ELSE "FRIEND_ACCEPTED" IN
    /\ pc[h] = "notifying"
    /\ inbox' = inbox \cup {<<job[h].other, type, job[h].user>>}
    /\ Answer(h, "ok")
    /\ UNCHANGED <<requests, friendships, friendCount, job, seen>>

\* A query fails (connection, deadlock, crash): the handler ends there.
QueryFails(h) ==
    /\ pc[h] \in {"checking", "writing", "notifying"}
    /\ Answer(h, "error")
    /\ UNCHANGED <<requests, friendships, friendCount, inbox, job, seen>>

Next ==
    \E h \in Reqs :
        \/ \E op \in {"send", "accept", "remove"}, u, v \in Users : Begin(h, op, u, v)
        \/ \E table \in {"friendship", "request"} : SendReads(h, table)
        \/ CreateRequest(h)
        \/ AcceptReads(h) \/ AcceptCommits(h)
        \/ RemoveReads(h) \/ RemoveCommits(h)
        \/ Notify(h) \/ QueryFails(h)

Spec == Init /\ [][Next]_vars

-----------------------------------------------------------------------------
(* Properties *)

TypeOK ==
    /\ requests \in [Pairs -> {"none", "PENDING", "ACCEPTED"}]
    /\ friendships \subseteq Pairs
    /\ friendCount \in [Users -> Int]
    /\ inbox \subseteq Users \X {"FRIEND_REQUEST", "FRIEND_ACCEPTED"} \X Users
    /\ pc \in [Reqs -> {"idle", "checking", "writing", "notifying", "done"}]
    /\ job \in [Reqs -> Job \cup {NoJob}]
    /\ \A h \in Reqs : pc[h] \in {"checking", "writing", "notifying"}
                          => job[h] \in Job /\ job[h].user # job[h].other
    /\ seen \in [Reqs -> SUBSET {"friendship", "request"}]
    /\ result \in [Reqs -> {"none", "ok", "conflict", "notFound", "error"}]

\* findFriendIdsByUserId.
FriendsOf(u) == {v \in Users : <<u, v>> \in friendships}

(* Whatever requests, accepts and removals cross, friendship is mutual:    *)
(* neither side is left with half of it.                                   *)
FriendshipIsMutual ==
    \A p \in friendships : <<p[2], p[1]>> \in friendships

(* Nobody becomes a friend without a request, in either direction, that    *)
(* was accepted, even when a stale accept commits after a removal.         *)
FriendsConsented ==
    \A p \in friendships : \E q \in Both(p[1], p[2]) : requests[q] = "ACCEPTED"

(* The counter on the profile never claims more friends than there are: an *)
(* accept that races another one is rolled back with its increment.  (It   *)
(* may claim fewer: see FriendCountIsExact.)                               *)
FriendCountNeverOverstates ==
    \A u \in Users : friendCount[u] <= Cardinality(FriendsOf(u))

(* A notification speaks of something that was committed: a handler that   *)
(* fails half way never announces what did not happen.                     *)
NotificationsAreTrue ==
    \A n \in inbox :
        /\ n[2] = "FRIEND_REQUEST"  => requests[<<n[3], n[1]>>] # "none"
        /\ n[2] = "FRIEND_ACCEPTED" => requests[<<n[1], n[3]>>] = "ACCEPTED"

(* friendCount changes when a friendship is accepted or removed, and only  *)
(* then (docs/social-continuity-model.md:69).                              *)
FriendCountIsExact ==
    \A u \in Users : friendCount[u] = Cardinality(FriendsOf(u))
=============================================================================
