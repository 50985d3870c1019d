------------------------------ MODULE Library ------------------------------
(***************************************************************************)
(* The Steam account of a user and the game library: connectSteam,         *)
(* syncSteamLibrary and connectEpic (integrations.service.ts), the         *)
(* verified Steam OpenID callback, visibility and unlink                   *)
(* (account-connection.service.ts), and what the public profile shows.     *)
(*                                                                         *)
(* The same platform_integrations row is written by two flows.  The manual *)
(* form stores any valid SteamID as MANUAL; the OpenID callback stores the *)
(* id Steam vouches for as OFFICIAL.  Each reads the row, decides, and     *)
(* upserts it some queries later.  The database keeps one row per user     *)
(* and one per SteamID.  A library is imported game by game.               *)
(*                                                                         *)
(* Steam and Epic are external: which ids exist and which games they own   *)
(* is constant, and a call to them may fail.                               *)
(***************************************************************************)
EXTENDS Handlers, Integers, FiniteSets

CONSTANTS
    SteamIds,   \* bound: the SteamIDs of a behaviour
    Owns,       \* Owns[i]: the games of Steam account i
    EpicGames   \* the games of an Epic account

VARIABLES
    steam,     \* steam[u]: the STEAM row of u
    epic,      \* users with an EPIC row
    library,   \* user_game_library: library[u], a set of games
    proved,    \* history: <<u, i>>: Steam vouched that i is u
    held       \* history: <<u, i>>: i was the SteamID of u at some time

libraryVars == <<steam, epic, library, proved, held>>

AllGames == (UNION {Owns[i] : i \in SteamIds}) \cup EpicGames

SteamRow == [id : SteamIds, source : {"OFFICIAL", "MANUAL"}, visible : BOOLEAN]

LibraryInit ==
    /\ steam = [u \in Users |-> None]
    /\ epic = {}
    /\ library = [u \in Users |-> {}]
    /\ proved = {}
    /\ held = {}

IdOwner(i) == {u \in Users : steam[u] # None /\ steam[u].id = i}

\* Not connected, or connected to i.
MayHold(u, i) == steam[u] = None \/ steam[u].id = i

SteamRequest(op, u, i) == [op |-> op, user |-> u, id |-> i, source |-> "MANUAL", left |-> {}]

-----------------------------------------------------------------------------
(* POST /integrations/steam/connect                                        *)

\* validateSteamId: the id is one that Steam knows.
ConnectBegins(h, u, i) ==
    /\ Begin(h, "row", SteamRequest("manual", u, i))
    /\ UNCHANGED libraryVars

\* Mutant: a verified account is recognised without comparing its id.
ReadRowForManualAnyId(h) ==
    LET u == job[h].user
        verified == steam[u] # None /\ steam[u].source = "OFFICIAL"
    IN
    /\ At(h, "manual", "row")
    /\ AwaitWith(h, "identity",
                 [job[h] EXCEPT !.source = IF verified THEN "OFFICIAL" ELSE "MANUAL"])
    /\ UNCHANGED libraryVars

\* A verified account keeps its id, and its standing.
ReadRowForManual(h) ==
    LET u == job[h].user
        verified == steam[u] # None /\ steam[u].source = "OFFICIAL"
    IN
    /\ At(h, "manual", "row")
    /\ IF verified /\ steam[u].id # job[h].id
       THEN End(h)
       ELSE AwaitWith(h, "identity",
                      [job[h] EXCEPT !.source = IF verified THEN "OFFICIAL" ELSE "MANUAL"])
    /\ UNCHANGED libraryVars

-----------------------------------------------------------------------------
(* The OpenID callback: completeSteamOpenIdCallback, then completeLink.    *)

VerifyBegins(h, u, i) ==
    /\ Begin(h, "owner", [SteamRequest("link", u, i) EXCEPT !.source = "OFFICIAL"])
    /\ proved' = proved \cup {<<u, i>>}
    /\ UNCHANGED <<steam, epic, library, held>>

FindOwner(h) ==
    /\ At(h, "link", "owner")
    /\ IF IdOwner(job[h].id) \subseteq {job[h].user} THEN Await(h, "row") ELSE End(h)
    /\ UNCHANGED libraryVars

ReadRowForLink(h) ==
    /\ At(h, "link", "row")
    /\ IF MayHold(job[h].user, job[h].id) THEN Await(h, "identity") ELSE End(h)
    /\ UNCHANGED libraryVars

-----------------------------------------------------------------------------
(* connectExternalIdentity, which both flows end with.                     *)

FindIdentity(h) ==
    /\ job[h].op \in {"manual", "link"} /\ pc[h] = "identity"
    /\ IF IdOwner(job[h].id) \subseteq {job[h].user} THEN Await(h, "upsert") ELSE End(h)
    /\ UNCHANGED libraryVars

\* The upsert leaves publicProfileVisible as it was.
UpsertSteam(h) ==
    LET u == job[h].user
        visible == steam[u] # None /\ steam[u].visible
    IN
    /\ job[h].op \in {"manual", "link"} /\ pc[h] = "upsert"
    /\ IF IdOwner(job[h].id) \subseteq {u}
       THEN /\ steam' = [steam EXCEPT ![u] = [id |-> job[h].id, source |-> job[h].source,
                                              visible |-> visible]]
            /\ held' = held \cup {<<u, job[h].id>>}
            /\ IF job[h].op = "manual" THEN Await(h, "games") ELSE End(h)
       ELSE UNCHANGED <<steam, held>> /\ End(h)
    /\ UNCHANGED <<epic, library, proved>>

-----------------------------------------------------------------------------
(* POST /integrations/steam/sync, and the import both end with.            *)

SyncBegins(h, u) ==
    /\ \E i \in SteamIds : Begin(h, "row", SteamRequest("sync", u, i))
    /\ UNCHANGED libraryVars

\* Mutant: the id of the request, not the id of the row, is fetched.
ReadRowForSyncKeepsId(h) ==
    /\ At(h, "sync", "row")
    /\ IF steam[job[h].user] = None THEN End(h) ELSE Await(h, "games")
    /\ UNCHANGED libraryVars

ReadRowForSync(h) ==
    LET row == steam[job[h].user] IN
    /\ At(h, "sync", "row")
    /\ IF row = None THEN End(h) ELSE AwaitWith(h, "games", [job[h] EXCEPT !.id = row.id])
    /\ UNCHANGED libraryVars

\* getOwnedGames: the games of an account, or none when it keeps them private.
OwnedGames(i) == {Owns[i], {}}

\* A failure of getOwnedGames ends a sync and only skips the import of a connect.
FetchGames(h) ==
    /\ job[h].op \in {"manual", "sync"} /\ pc[h] = "games"
    /\ \E games \in OwnedGames(job[h].id) :
         IF games = {} THEN End(h)
         ELSE AwaitWith(h, "import", [job[h] EXCEPT !.left = games])
    /\ UNCHANGED libraryVars

\* One upsert per game; its IGDB cover is looked up first and may be missing.
ImportGame(h, g) ==
    LET left == job[h].left \ {g} IN
    /\ pc[h] = "import" /\ g \in job[h].left
    /\ library' = [library EXCEPT ![job[h].user] = @ \cup {g}]
    /\ IF left = {} THEN End(h) ELSE AwaitWith(h, "import", [job[h] EXCEPT !.left = left])
    /\ UNCHANGED <<steam, epic, proved, held>>

\* getLibrary: what the Epic adapter lists, which may be nothing.  An adapter
\* that is not configured, refuses or fails ends the request.
EpicLibrary == {EpicGames, {}}

\* POST /integrations/epic/connect: the games are fetched before the row is written.
ConnectEpic(h, u) ==
    /\ \E games \in EpicLibrary :
         Begin(h, "epic", [op |-> "epic", user |-> u, left |-> games])
    /\ UNCHANGED libraryVars

UpsertEpic(h) ==
    /\ At(h, "epic", "epic")
    /\ epic' = epic \cup {job[h].user}
    /\ IF job[h].left = {} THEN End(h) ELSE Await(h, "import")
    /\ UNCHANGED <<steam, library, proved, held>>

-----------------------------------------------------------------------------
(* DELETE and PATCH visibility of the connected account.                   *)

ManageBegins(h, op, u) ==
    /\ Begin(h, "find", [op |-> op, user |-> u])
    /\ UNCHANGED libraryVars

FindAccount(h) ==
    LET row == steam[job[h].user] IN
    /\ pc[h] = "find"
    /\ IF row # None /\ (job[h].op = "show" => row.source = "OFFICIAL")
       THEN Await(h, "write") ELSE End(h)
    /\ UNCHANGED libraryVars

\* deleteByUserProvider; the games stay in the library.
DeleteAccount(h) ==
    /\ At(h, "unlink", "write")
    /\ steam' = [steam EXCEPT ![job[h].user] = None]
    /\ End(h)
    /\ UNCHANGED <<epic, library, proved, held>>

\* Mutant: an upsert, which brings an unlinked account back.
UpdateVisibilityUpserts(h) ==
    LET u == job[h].user
        row == IF steam[u] = None THEN [id |-> None, source |-> "OFFICIAL", visible |-> FALSE]
               ELSE steam[u]
    IN
    /\ job[h].op \in {"show", "hide"} /\ pc[h] = "write"
    /\ steam' = [steam EXCEPT ![u] = [row EXCEPT !.visible = (job[h].op = "show")]]
    /\ End(h)
    /\ UNCHANGED <<epic, library, proved, held>>

\* repository.updateVisibility looks only whether there is a row.
UpdateVisibility(h) ==
    LET u == job[h].user IN
    /\ job[h].op \in {"show", "hide"} /\ pc[h] = "write"
    /\ steam' = IF steam[u] = None THEN steam
                ELSE [steam EXCEPT ![u].visible = (job[h].op = "show")]
    /\ End(h)
    /\ UNCHANGED <<epic, library, proved, held>>

\* findFullProfileByUsername: the connected accounts a profile shows.
OnProfile(u) == steam[u] # None /\ steam[u].visible /\ steam[u].source = "OFFICIAL"

LibraryNext ==
    \E h \in Handlers :
        \/ \E u \in Users, i \in SteamIds : ConnectBegins(h, u, i) \/ VerifyBegins(h, u, i)
        \/ \E u \in Users : SyncBegins(h, u) \/ ConnectEpic(h, u)
        \/ \E u \in Users, op \in {"unlink", "show", "hide"} : ManageBegins(h, op, u)
        \/ ReadRowForManual(h) \/ FindOwner(h) \/ ReadRowForLink(h)
        \/ FindIdentity(h) \/ UpsertSteam(h)
        \/ ReadRowForSync(h) \/ FetchGames(h) \/ UpsertEpic(h)
        \/ \E g \in AllGames : ImportGame(h, g)
        \/ FindAccount(h) \/ DeleteAccount(h) \/ UpdateVisibility(h)
        \/ QueryFails(h, {}) /\ UNCHANGED libraryVars

LibrarySpec ==
    HandlersInit /\ LibraryInit /\ [][LibraryNext]_<<handlerVars, libraryVars>>

-----------------------------------------------------------------------------
(* Properties *)

LibraryTypeOK ==
    /\ steam \in [Users -> SteamRow \cup {None}]
    /\ epic \subseteq Users
    /\ \A u \in Users : library[u] \subseteq AllGames
    /\ proved \subseteq Users \X SteamIds /\ held \subseteq Users \X SteamIds

(* However the manual form, the OpenID callback, unlinks and visibility    *)
(* changes cross, an account stored as OFFICIAL, and so any account on a   *)
(* public profile, is one whose ownership Steam confirmed for that user.   *)
OfficialIsProven ==
    \A u \in Users :
        /\ steam[u] # None /\ steam[u].source = "OFFICIAL" => <<u, steam[u].id>> \in proved
        /\ OnProfile(u) => <<u, steam[u].id>> \in proved

(* Imports and syncs that run while the account is replaced or unlinked    *)
(* bring in games of accounts the user had connected, never of another's.  *)
LibraryIsOwn ==
    \A u \in Users : \A g \in library[u] :
        \/ g \in EpicGames /\ u \in epic
        \/ \E i \in SteamIds : <<u, i>> \in held /\ g \in Owns[i]

(* "Use o fluxo verificado pela Steam para trocar a conta" (the refusal of *)
(* connectSteam): only an account that Steam verified replaces a verified  *)
(* one.                                                                    *)
VerifiedIsNotReplaced ==
    [][\A u \in Users :
         steam[u] # None /\ steam[u].source = "OFFICIAL" /\ steam'[u] # None
            => steam'[u].id = steam[u].id \/ steam'[u].source = "OFFICIAL"]_steam
=============================================================================
