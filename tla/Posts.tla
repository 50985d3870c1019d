------------------------------- MODULE Posts -------------------------------
(***************************************************************************)
(* Posts, reactions, comments, the feed and the notifications they cause:  *)
(* posts.routes.ts and notifications.routes.ts over post.repository.ts and *)
(* notification.repository.ts.                                             *)
(*                                                                         *)
(* No route uses a transaction: creating a post and counting it, finding a *)
(* reaction and toggling it, reading a page of the feed and the next one   *)
(* are queries of their own.  The database rejects a second reaction of    *)
(* one user (unique constraint), a row of a post that is gone (foreign     *)
(* key), and deletes reactions and comments with their post (cascade).     *)
(*                                                                         *)
(* One reaction type stands for the five, which never meet.  The game a    *)
(* post shows is read from module PresenceStore and kept as data.          *)
(***************************************************************************)
EXTENDS Handlers, Ordering, SequencesExt

CONSTANTS
    PostIds, CommentIds,   \* bound: the posts and comments of a behaviour
    Readers,               \* bound: users who read feeds
    PageSize,              \* limit of a feed page
    OldPosts,              \* the posts there at the start, oldest first
    OldAuthor, OldComments

CommentRows == [post : PostIds, parent : CommentIds \cup {None}]

\* Replies are to comments of their own post that are no replies themselves.
IsThread(rows) ==
    \A c \in CommentIds : rows[c] # None /\ rows[c].parent # None =>
        rows[rows[c].parent] = [post |-> rows[c].post, parent |-> None]

ASSUME PageAssumption == PageSize \in Nat \ {0}
ASSUME OldAssumption ==
    /\ OldPosts \in Seq(PostIds) /\ IsInjective(OldPosts) /\ OldAuthor \in Users
    /\ OldComments \in [CommentIds -> {None} \cup CommentRows]
    /\ IsThread(OldComments)
    /\ \A c \in CommentIds : OldComments[c] # None => OldComments[c].post \in Range(OldPosts)
ASSUME NoRowAssumption == \* null is nothing else
    None \notin Users \cup PostIds \cup CommentIds \cup CommentRows
                \cup [what : {"added", "removed", "error"}, at : {"count", "remove", "notify"}]

VARIABLES
    timeline,   \* posts that exist, in the order of createdAt
    author,     \* author[p]: who wrote p (kept after its deletion)
    postCount,  \* user_stats.postCount
    reactions,  \* interactions: <<post, user>>
    comments,   \* comments[c]: its post and its parent
    friendsOf,  \* friendships, as module Friends leaves them
    inbox       \* inbox[h]: the notification handler h created

postsVars == <<timeline, author, postCount, reactions, comments, friendsOf, inbox>>

Existing == Range(timeline)
PostsBy(u) == {p \in Existing : author[p] = u}

PostsInit ==
    /\ timeline = OldPosts
    /\ author = [p \in PostIds |-> IF p \in Range(OldPosts) THEN OldAuthor ELSE None]
    /\ postCount = [u \in Users |-> Cardinality({p \in Range(OldPosts) : OldAuthor = u})]
    /\ reactions = {}
    /\ comments = OldComments
    /\ friendsOf = [u \in Users |-> Users \ {u}]
    /\ inbox = [h \in Handlers |-> None]

\* The lookup every route starts with; it ends the request when it fails.
FindPost(h, op, next, allowed) ==
    /\ At(h, op, "post")
    /\ IF job[h].post \in Existing /\ allowed THEN Await(h, next) ELSE End(h)
    /\ UNCHANGED postsVars

Mine(h) == author[job[h].post] = job[h].user

-----------------------------------------------------------------------------
(* POST /posts and DELETE /posts/:id, with the counter of the profile.     *)

CreateBegins(h, u) ==
    /\ Begin(h, "insert", [op |-> "create", user |-> u, post |-> None])
    /\ UNCHANGED postsVars

InsertPost(h, p) ==
    /\ At(h, "create", "insert")
    /\ author[p] = None
    /\ timeline' = Append(timeline, p)
    /\ author' = [author EXCEPT ![p] = job[h].user]
    /\ AwaitWith(h, "count", [job[h] EXCEPT !.post = p])
    /\ UNCHANGED <<postCount, reactions, comments, friendsOf, inbox>>

DeleteBegins(h, u, p) ==
    /\ author[p] # None
    /\ Begin(h, "post", [op |-> "delete", user |-> u, post |-> p])
    /\ UNCHANGED postsVars

FindOwnPost(h) == FindPost(h, "delete", "delete", Mine(h))

Place(p) == CHOOSE i \in 1..Len(timeline) : timeline[i] = p

Cascade(p) ==
    /\ timeline' = RemoveAt(timeline, Place(p))
    /\ reactions' = {r \in reactions : r[1] # p}
    /\ comments' = [c \in CommentIds |->
         IF comments[c] # None /\ comments[c].post = p THEN None ELSE comments[c]]

\* Mutant: deleteMany, which does not mind that the post is gone.
DeleteIfThere(h) ==
    /\ At(h, "delete", "delete")
    /\ IF job[h].post \in Existing
       THEN Cascade(job[h].post) ELSE UNCHANGED <<timeline, reactions, comments>>
    /\ Await(h, "count")
    /\ UNCHANGED <<author, postCount, friendsOf, inbox>>

\* post.delete rejects when another request deleted the post (P2025).
DeletePost(h) ==
    /\ At(h, "delete", "delete")
    /\ IF job[h].post \in Existing
       THEN Cascade(job[h].post) /\ Await(h, "count")
       ELSE End(h) /\ UNCHANGED <<timeline, reactions, comments>>
    /\ UNCHANGED <<author, postCount, friendsOf, inbox>>

CountPost(h) ==
    LET by == IF job[h].op = "create" THEN 1 ELSE -1 IN
    /\ pc[h] = "count"
    /\ postCount' = [postCount EXCEPT ![author[job[h].post]] = @ + by]
    /\ End(h)
    /\ UNCHANGED <<timeline, author, reactions, comments, friendsOf, inbox>>

-----------------------------------------------------------------------------
(* POST /posts/:id/interactions: a toggle.                                 *)

ToggleBegins(h, u, p) ==
    /\ author[p] # None
    /\ Begin(h, "post", [op |-> "toggle", user |-> u, post |-> p])
    /\ UNCHANGED postsVars

FindPostToReact(h) == FindPost(h, "toggle", "find", ~Mine(h))

Reaction(h) == <<job[h].post, job[h].user>>

FindReaction(h) ==
    /\ At(h, "toggle", "find")
    /\ Await(h, IF Reaction(h) \in reactions THEN "remove" ELSE "add")
    /\ UNCHANGED postsVars

RemoveReaction(h) ==
    /\ At(h, "toggle", "remove")
    /\ IF Reaction(h) \in reactions
       THEN reactions' = reactions \ {Reaction(h)} /\ Answer(h, "removed")
       ELSE UNCHANGED reactions /\ End(h)
    /\ UNCHANGED <<timeline, author, postCount, comments, friendsOf, inbox>>

\* Mutant: an upsert, for which a second reaction is no error.
UpsertReaction(h) ==
    /\ At(h, "toggle", "add")
    /\ IF job[h].post \in Existing
       THEN reactions' = reactions \cup {Reaction(h)} /\ Await(h, "notify")
       ELSE UNCHANGED reactions /\ End(h)
    /\ UNCHANGED <<timeline, author, postCount, comments, friendsOf, inbox>>

AddReaction(h) ==
    /\ At(h, "toggle", "add")
    /\ IF job[h].post \in Existing /\ Reaction(h) \notin reactions
       THEN reactions' = reactions \cup {Reaction(h)} /\ Await(h, "notify")
       ELSE UNCHANGED reactions /\ End(h)
    /\ UNCHANGED <<timeline, author, postCount, comments, friendsOf, inbox>>

-----------------------------------------------------------------------------
(* POST /posts/comments                                                    *)

CommentBegins(h, u, p, parent) ==
    /\ author[p] # None /\ parent \in {None} \cup {c \in CommentIds : comments[c] # None}
    /\ Begin(h, "post", [op |-> "comment", user |-> u, post |-> p, parent |-> parent])
    /\ UNCHANGED postsVars

FindPostToComment(h) ==
    FindPost(h, "comment", IF job[h].parent = None THEN "write" ELSE "parent", TRUE)

\* Mutant: a reply to a reply is let through.
FindAnyParent(h) ==
    LET parent == comments[job[h].parent] IN
    /\ At(h, "comment", "parent")
    /\ IF parent # None /\ parent.post = job[h].post
       THEN Await(h, "write") ELSE End(h)
    /\ UNCHANGED postsVars

FindParent(h) ==
    LET parent == comments[job[h].parent] IN
    /\ At(h, "comment", "parent")
    /\ IF parent # None /\ parent.post = job[h].post /\ parent.parent = None
       THEN Await(h, "write") ELSE End(h)
    /\ UNCHANGED postsVars

InsertComment(h, c) ==
    /\ At(h, "comment", "write")
    /\ IF /\ job[h].post \in Existing
          /\ job[h].parent # None => comments[job[h].parent] # None
       THEN /\ comments[c] = None
            /\ comments' = [comments EXCEPT ![c] = [post |-> job[h].post, parent |-> job[h].parent]]
            /\ IF Mine(h) THEN End(h) ELSE Await(h, "notify")
       ELSE UNCHANGED comments /\ End(h)
    /\ UNCHANGED <<timeline, author, postCount, reactions, friendsOf, inbox>>

\* findCommentsByPostId: the comments without a parent, and their replies.
Listed(p) ==
    LET top == {c \in CommentIds : comments[c] = [post |-> p, parent |-> None]} IN
    top \cup {c \in CommentIds : comments[c] # None /\ comments[c].parent \in top}

-----------------------------------------------------------------------------
(* Notifications: notificationService.create, and the two PATCH routes.    *)

NotifyAuthor(h) ==
    /\ pc[h] = "notify"
    /\ inbox' = [inbox EXCEPT ![h] = [to |-> author[job[h].post], by |-> job[h].user,
                                      read |-> FALSE]]
    /\ IF job[h].op = "toggle" THEN Answer(h, "added") ELSE End(h)
    /\ UNCHANGED <<timeline, author, postCount, reactions, comments, friendsOf>>

MarkRead(u, h) ==
    /\ inbox[h] # None /\ inbox[h].to = u
    /\ ~inbox[h].read
    /\ inbox' = [inbox EXCEPT ![h].read = TRUE]
    /\ UNCHANGED <<timeline, author, postCount, reactions, comments, friendsOf, handlerVars>>

MarkAllRead(u) ==
    /\ \E h \in Handlers : inbox[h] # None /\ inbox[h].to = u /\ ~inbox[h].read
    /\ inbox' = [h \in Handlers |-> IF inbox[h] # None /\ inbox[h].to = u
                                    THEN [inbox[h] EXCEPT !.read = TRUE] ELSE inbox[h]]
    /\ UNCHANGED <<timeline, author, postCount, reactions, comments, friendsOf, handlerVars>>

-----------------------------------------------------------------------------
(* GET /posts/feed/:userId, page after page: one handler stands for the    *)
(* reader who follows nextCursor.  owed is history: the posts that were    *)
(* there, by the reader or a friend, since the first page was asked for.   *)

FeedBegins(h, u) ==
    /\ Begin(h, "authors", [op |-> "feed", user |-> u, authors |-> {}, cursor |-> None,
                            seen |-> << >>, lost |-> FALSE, owed |-> Existing])
    /\ UNCHANGED postsVars

FeedFriends(h) ==
    LET authors == friendsOf[job[h].user] \cup {job[h].user} IN
    /\ At(h, "feed", "authors")
    /\ AwaitWith(h, "page", [job[h] EXCEPT !.authors = authors,
                               !.owed = {p \in @ : author[p] \in authors}])
    /\ UNCHANGED postsVars

\* orderBy createdAt desc.
NewestFirst(S) == Descending(S, [p \in S |-> Place(p)])

\* Mutant: the row of the cursor is not skipped.
RowsFromCursor(authors, cursor) ==
    LET wanted == {p \in Existing : author[p] \in authors}
    IN CASE cursor = None -> NewestFirst(wanted)
         [] cursor # None /\ cursor \notin Existing -> << >>
         [] OTHER -> NewestFirst({p \in wanted : Place(p) <= Place(cursor)})

\* The rows of findMany, newest first, from the cursor on (the row of the
\* cursor is skipped; a cursor that is gone selects nothing).
Rows(authors, cursor) ==
    LET wanted == {p \in Existing : author[p] \in authors}
        from == NewestFirst({p \in wanted : Place(p) <= Place(cursor)})
    IN CASE cursor = None -> NewestFirst(wanted)
         [] cursor # None /\ cursor \notin Existing -> << >>
         [] OTHER -> IF from = << >> THEN from ELSE Tail(from)

FeedPage(h) ==
    LET req == job[h]
        rows == Rows(req.authors, req.cursor)
        page == SubSeq(rows, 1, IF Len(rows) > PageSize THEN PageSize ELSE Len(rows))
        gone == /\ req.cursor # None
                /\ req.cursor \notin Existing \/ author[req.cursor] \notin req.authors
        read == [req EXCEPT !.seen = @ \o page, !.lost = @ \/ gone]
    IN
    /\ At(h, "feed", "page")
    /\ IF Len(rows) > PageSize
       THEN AwaitWith(h, "authors", [read EXCEPT !.cursor = Last(page)])
       ELSE AnswerWith(h, "end", read)
    /\ UNCHANGED postsVars

SetFriends(u, U) ==
    /\ U \subseteq Users \ {u} /\ U # friendsOf[u]
    /\ friendsOf' = [friendsOf EXCEPT ![u] = U]
    /\ UNCHANGED <<timeline, author, postCount, reactions, comments, inbox, handlerVars>>

-----------------------------------------------------------------------------
PostsNext ==
    \/ \E h \in Handlers :
         \/ \E u \in Users : CreateBegins(h, u) \/ MarkRead(u, h)
         \/ \E u \in Readers : FeedBegins(h, u)
         \/ \E u \in Users, p \in PostIds : DeleteBegins(h, u, p) \/ ToggleBegins(h, u, p)
         \/ \E u \in Users, p \in PostIds, c \in CommentIds \cup {None} : CommentBegins(h, u, p, c)
         \/ \E p \in PostIds : InsertPost(h, p)
         \/ \E c \in CommentIds : InsertComment(h, c)
         \/ FindOwnPost(h) \/ DeletePost(h) \/ CountPost(h)
         \/ FindPostToReact(h) \/ FindReaction(h) \/ RemoveReaction(h) \/ AddReaction(h)
         \/ FindPostToComment(h) \/ FindParent(h) \/ NotifyAuthor(h)
         \/ FeedFriends(h) \/ FeedPage(h)
         \/ QueryFails(h, {"count", "notify"}) /\ UNCHANGED postsVars
    \/ \E u \in Users : MarkAllRead(u)
    \/ \E u \in Readers, U \in SUBSET Users : SetFriends(u, U)

PostsSpec == HandlersInit /\ PostsInit /\ [][PostsNext]_<<handlerVars, postsVars>>

-----------------------------------------------------------------------------
(* Properties *)

PostsTypeOK ==
    /\ IsInjective(timeline) /\ Existing \subseteq PostIds
    /\ author \in [PostIds -> Users \cup {None}]
    /\ postCount \in [Users -> Int]
    /\ reactions \subseteq PostIds \X Users
    /\ comments \in [CommentIds -> {None} \cup CommentRows]
    /\ friendsOf \in [Users -> SUBSET Users]
    /\ inbox \in [Handlers -> {None} \cup [to : Users, by : Users, read : BOOLEAN]]

Uncounted(op, u) ==
    {h \in Handlers : /\ job[h].op = op /\ job[h].post # None /\ author[job[h].post] = u
                      /\ pc[h] = "count" \/ FailedAt(h, "count")}

(* postCount is the number of posts, up to the requests between the write  *)
(* of a post and that of the counter, and those that failed there: of two  *)
(* deletions of one post only one is counted (unlike friendCount).         *)
PostCountAddsUp ==
    \A u \in Users :
        postCount[u] = Cardinality(PostsBy(u)) - Cardinality(Uncounted("create", u))
                                               + Cardinality(Uncounted("delete", u))

Toggles(r) == {h \in Handlers : job[h].op = "toggle" /\ Reaction(h) = r}
Added(r)   == {h \in Toggles(r) : pc[h] = "notify" \/ FailedAt(h, "notify") \/ Answered(h, "added")}
Removed(r) == {h \in Toggles(r) : Answered(h, "removed")}

(* Toggles of one reaction that cross: those that took effect alternate,   *)
(* each changed the reaction from what it found, and the last one shows.   *)
ReactionsAddUp ==
    \A p \in Existing, u \in Users :
        Cardinality(Added(<<p, u>>)) - Cardinality(Removed(<<p, u>>))
            = IF <<p, u>> \in reactions THEN 1 ELSE 0

(* Every comment that was stored can be read: the list of a post has one   *)
(* level of replies, and no race of comments and deletions stores another. *)
EveryCommentIsListed ==
    \A c \in CommentIds : comments[c] # None =>
        comments[c].post \in Existing /\ c \in Listed(comments[c].post)

(* A reader who pages through the feed sees no post twice, newest first,   *)
(* and at the end has seen every post that was there all along, whatever   *)
(* was posted, deleted or unfriended meanwhile; except when the post a     *)
(* page ended with is itself gone from the feed.                           *)
FeedIsFaithful ==
    \A h \in Handlers : job[h].op = "feed" =>
        /\ IsInjective(job[h].seen)
        /\ \A i, k \in DOMAIN job[h].seen :
             i < k /\ {job[h].seen[i], job[h].seen[k]} \subseteq Existing
               => Place(job[h].seen[i]) > Place(job[h].seen[k])
        /\ Answered(h, "end") /\ ~job[h].lost
             => job[h].owed \cap Existing \subseteq Range(job[h].seen)
=============================================================================
