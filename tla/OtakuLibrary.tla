---------------------------- MODULE OtakuLibrary ----------------------------
(***************************************************************************)
(* Anime and manga of a user: the MyAnimeList import                       *)
(* (importMyAnimeListLists, integrations.service.ts) and the showcase of   *)
(* the profile (otaku-showcase.service.ts).                                *)
(*                                                                         *)
(* An import reads the connection, fetches both lists and upserts title    *)
(* by title, then stamps the connection.  A change of the showcase is one  *)
(* Serializable transaction: it works on a snapshot, and its commit fails  *)
(* (P2034) when rows it read or writes changed since.                      *)
(*                                                                         *)
(* MyAnimeList is external; a title stands for an entry of the user, since *)
(* there is one per user and title.                                        *)
(***************************************************************************)
EXTENDS Handlers, Integers, FiniteSets

CONSTANTS
    Fans,         \* bound: the users with a list
    Titles,       \* bound: the titles of a list
    MaxFeatured   \* OTAKU_SHOWCASE_MAX_FEATURED

ASSUME MaxFeaturedAssumption == MaxFeatured \in Nat \ {0}

VARIABLES
    mal,      \* mal[u]: the MYANIMELIST row of u
    media,    \* user_media_entries: media[u][t], None or status and rank
    stamped   \* users whose import was stamped on the connection

otakuVars == <<mal, media, stamped>>

Ranks  == 1..MaxFeatured
Unranked == 0

\* mapMyAnimeListStatus.  (Bound: two of its five values.)
Statuses == {"CONSUMING", "COMPLETED"}
Entry == [status : Statuses, rank : Ranks \cup {Unranked}]

\* null is no entry.
ASSUME EntryAssumption == None \notin Entry

RankOf(entry) == IF entry = None THEN Unranked ELSE entry.rank

OtakuInit ==
    /\ mal = [u \in Fans |-> None]
    /\ media = [u \in Fans |-> [t \in Titles |-> None]]
    /\ stamped = {}

\* The connection is made, renewed or lost (module AccountConnections); a
\* token that cannot be revealed counts as a connection to renew.
SetConnection(u, state) ==
    /\ mal[u] # state
    /\ mal' = [mal EXCEPT ![u] = state]
    /\ stamped' = stamped \ {u}
    /\ UNCHANGED <<media, handlerVars>>

-----------------------------------------------------------------------------
(* POST /integrations/myanimelist/import                                   *)

ImportBegins(h, u) ==
    /\ Begin(h, "connection", [op |-> "import", user |-> u, left |-> {}])
    /\ UNCHANGED otakuVars

\* The connection is read, then both lists are fetched.
FindConnection(h) ==
    /\ At(h, "import", "connection")
    /\ IF mal[job[h].user] = "CONNECTED" THEN Await(h, "lists") ELSE End(h)
    /\ UNCHANGED otakuVars

\* fetchList: whatever the first page of the lists holds, less the entries
\* without an id, a title or a status.
Lists == SUBSET Titles

FetchLists(h, T) ==
    /\ At(h, "import", "lists")
    /\ AwaitWith(h, IF T = {} THEN "stamp" ELSE "entries", [job[h] EXCEPT !.left = T])
    /\ UNCHANGED otakuVars

\* upsertOtakuMediaEntry: an update leaves showcaseRank alone.
ImportEntry(h, t, status) ==
    LET left == job[h].left \ {t}
        old == media[job[h].user][t]
    IN
    /\ At(h, "import", "entries") /\ t \in job[h].left
    /\ media' = [media EXCEPT ![job[h].user][t] = [status |-> status, rank |-> RankOf(old)]]
    /\ AwaitWith(h, IF left = {} THEN "stamp" ELSE "entries", [job[h] EXCEPT !.left = left])
    /\ UNCHANGED <<mal, stamped>>

\* touchPlatformIntegrationLastSyncAt rejects when the account was unlinked.
Stamp(h) ==
    /\ At(h, "import", "stamp")
    /\ stamped' = IF mal[job[h].user] = None THEN stamped ELSE stamped \cup {job[h].user}
    /\ End(h)
    /\ UNCHANGED <<mal, media>>

-----------------------------------------------------------------------------
(* PATCH /otaku/library/:entryId/showcase                                  *)

RankBegins(h, u, t, r) ==
    /\ Begin(h, "checks", [op |-> "rank", user |-> u, title |-> t, rank |-> r, base |-> None])
    /\ UNCHANGED otakuVars

Featured(entries) == {t \in Titles : RankOf(entries[t]) # Unranked}

\* The reads of the transaction: the entry, and how many are featured.
CheckLimit(h) ==
    LET entries == media[job[h].user]
        entry == entries[job[h].title]
        full == Cardinality(Featured(entries)) >= MaxFeatured
    IN
    /\ At(h, "rank", "checks")
    /\ IF entry = None \/ (job[h].rank # Unranked /\ entry.rank = Unranked /\ full)
       THEN End(h)
       ELSE AwaitWith(h, "commit", [job[h] EXCEPT !.base = entries])
    /\ UNCHANGED otakuVars

\* updateMany and update: whoever holds the rank loses it to the entry.
Placed(entries, t, r) ==
    [e \in Titles |->
        IF e = t THEN [entries[e] EXCEPT !.rank = r]
        ELSE IF r # Unranked /\ RankOf(entries[e]) = r
             THEN [entries[e] EXCEPT !.rank = Unranked] ELSE entries[e]]

\* The rows the transaction writes, and the entries once they are written.
OwnRows(h) ==
    LET base == job[h].base
        placed == Placed(base, job[h].title, job[h].rank)
    IN [e \in {t \in Titles : placed[t] # base[t]} |-> placed[e]]
Written(h) ==
    [e \in Titles |-> IF e \in DOMAIN OwnRows(h) THEN OwnRows(h)[e] ELSE media[job[h].user][e]]

\* Another request changed a row the transaction writes, or a rank it read.
Stale(h) ==
    \E e \in Titles :
        LET now == media[job[h].user][e]
            was == job[h].base[e]
        IN now # was /\ (e \in DOMAIN OwnRows(h) \/ RankOf(now) # RankOf(was))

\* Mutant: ReadCommitted; the rows found by the first reads are written.
CommitAnyway(h) ==
    /\ At(h, "rank", "commit")
    /\ media' = [media EXCEPT ![job[h].user] = Written(h)]
    /\ End(h)
    /\ UNCHANGED <<mal, stamped>>

\* Serializable: the commit is refused (409) when the snapshot is stale.
Commit(h) ==
    /\ At(h, "rank", "commit")
    /\ media' = IF Stale(h) THEN media ELSE [media EXCEPT ![job[h].user] = Written(h)]
    /\ End(h)
    /\ UNCHANGED <<mal, stamped>>

OtakuNext ==
    \/ \E h \in Handlers :
         \/ \E u \in Fans : ImportBegins(h, u)
         \/ \E u \in Fans, t \in Titles, r \in Ranks \cup {Unranked} : RankBegins(h, u, t, r)
         \/ \E T \in Lists : FetchLists(h, T)
         \/ \E t \in Titles, status \in Statuses : ImportEntry(h, t, status)
         \/ FindConnection(h) \/ Stamp(h) \/ CheckLimit(h) \/ Commit(h)
         \/ QueryFails(h, {}) /\ UNCHANGED otakuVars
    \/ \E u \in Fans, state \in {"CONNECTED", "NEEDS_REAUTH", None} : SetConnection(u, state)

OtakuSpec == HandlersInit /\ OtakuInit /\ [][OtakuNext]_<<handlerVars, otakuVars>>

-----------------------------------------------------------------------------
(* Properties *)

OtakuTypeOK ==
    /\ mal \in [Fans -> {"CONNECTED", "NEEDS_REAUTH", None}]
    /\ media \in [Fans -> [Titles -> Entry \cup {None}]]
    /\ stamped \subseteq Fans

(* However rank changes and imports cross, every place of the showcase is  *)
(* held by one entry, so that the profile shows at most MaxFeatured (of a  *)
(* rank each).                                                             *)
ShowcaseIsOrderly ==
    \A u \in Fans :
        \A t1, t2 \in Featured(media[u]) :
            media[u][t1].rank = media[u][t2].rank => t1 = t2
=============================================================================
