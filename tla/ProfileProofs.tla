--------------------------- MODULE ProfileProofs ---------------------------
(* Results about what a profile shows, for any number of users, handlers,  *)
(* accounts, titles and presences: Library, OtakuLibrary, PresenceStore.   *)
(* Library: an account stored as OFFICIAL is one that Steam vouched for, a *)
(* library holds the games of the user's own accounts.  Showcase: no two   *)
(* entries share a place.  These flows write what they decided on some     *)
(* queries before.  The inductive invariants say what a handler may carry  *)
(* from its decision to its write: an OFFICIAL standing that is proved, an *)
(* id the user held, a list of games of that id; the rows a rank change    *)
(* has read.                                                               *)
(* Presence: the store implements the atomic presence of AtomicPresence,   *)
(* and its reads are regular.  The inductive invariant says where a        *)
(* presence on its way may be: what Redis, Postgres and the updates under  *)
(* way hold is in doubt, a reader that waits has seen every doubt since it *)
(* began, and an update that runs alone finds in Redis, once it was there, *)
(* nothing but its own value.                                              *)
EXTENDS Library, OtakuLibrary, PresenceStore, FiniteSetTheorems, TLAPS

-----------------------------------------------------------------------------
(* Library and showcase.                                                   *)

Queries == {"idle", "done", "row", "owner", "identity", "upsert", "games", "import",
            "epic", "find", "write"}

SteamJob == [op : {"manual", "link", "sync"}, user : Users, id : SteamIds,
             source : {"OFFICIAL", "MANUAL"}, left : SUBSET (UNION {Owns[i] : i \in SteamIds})]

\* Only the flows that connect write a row, and only with a proved standing.
CarriesProof(j) == j.op \in {"manual", "link"} /\ j.source = "OFFICIAL" => <<j.user, j.id>> \in proved

\* Who fetches the games of an account has held it, or syncs the one it read.
CarriesOwn(query, j) ==
    /\ query \in {"games", "import"} => <<j.user, j.id>> \in held
    /\ query = "import" => j.left \subseteq Owns[j.id]

JobInv(query, j) ==
    /\ j.op \in {"manual", "link", "sync"} =>
         j \in SteamJob /\ CarriesProof(j) /\ CarriesOwn(query, j)
    /\ j.op = "epic" => /\ j \in [op : {"epic"}, user : Users, left : SUBSET EpicGames]
                        /\ query = "import" => j.user \in epic
    /\ j.op \in {"unlink", "show", "hide"} => j.user \in Users
    /\ query = "import" => j.op \in {"manual", "link", "sync", "epic"}

RowsInv ==
    \A u \in Users : steam[u] # None =>
        /\ <<u, steam[u].id>> \in held
        /\ steam[u].source = "OFFICIAL" => <<u, steam[u].id>> \in proved

LibraryInv ==
    /\ pc \in [Handlers -> Queries]
    /\ DOMAIN job = Handlers /\ job = [h \in Handlers |-> job[h]]
    /\ steam \in [Users -> SteamRow \cup {None}]
    /\ DOMAIN library = Users /\ library = [u \in Users |-> library[u]]
    /\ \A h \in Handlers : JobInv(pc[h], job[h])
    /\ RowsInv
    /\ LibraryIsOwn

\* The handlers other than h keep what they carry: the histories only grow.
LEMMA OthersKeep ==
    ASSUME LibraryInv, NEW h \in Handlers, NEW query \in Queries, NEW j,
           pc' = [pc EXCEPT ![h] = query], job' = [job EXCEPT ![h] = j],
           proved \subseteq proved', held \subseteq held', epic \subseteq epic',
           JobInv(query, j)'
    PROVE  /\ pc' \in [Handlers -> Queries]
           /\ DOMAIN job' = Handlers /\ job' = [g \in Handlers |-> job'[g]]
           /\ \A g \in Handlers : JobInv(pc[g], job[g])'
<1>1. /\ pc' \in [Handlers -> Queries]
      /\ DOMAIN job' = Handlers /\ job' = [g \in Handlers |-> job'[g]]
    BY DEF LibraryInv
<1>2. ASSUME NEW g \in Handlers PROVE JobInv(pc[g], job[g])'
    <2>1. CASE g = h
        <3>1. pc'[g] = query /\ job'[g] = j
            BY <2>1 DEF LibraryInv
        <3> QED BY <3>1 DEF JobInv, CarriesProof, CarriesOwn
    <2>2. CASE g # h
        <3>1. pc'[g] = pc[g] /\ job'[g] = job[g]
            BY <2>2 DEF LibraryInv
        <3>2. JobInv(pc[g], job[g])
            BY DEF LibraryInv
        <3> QED BY <3>1, <3>2 DEF JobInv, CarriesProof, CarriesOwn
    <2> QED BY <2>1, <2>2
<1> QED BY <1>1, <1>2

LEMMA InitEstablishes == HandlersInit /\ LibraryInit => LibraryInv
BY DEF HandlersInit, LibraryInit, LibraryInv, Queries, JobInv, RowsInv, LibraryIsOwn

LEMMA InvImpliesProperties == LibraryInv => OfficialIsProven /\ LibraryIsOwn
BY DEF LibraryInv, RowsInv, OfficialIsProven, OnProfile

-----------------------------------------------------------------------------
(* Steps that write no table.                                              *)

\* What a handler carries is judged by tables that stay.
LEMMA ReadPreserves ==
    ASSUME LibraryInv, NEW h \in Handlers, NEW query \in Queries, NEW j,
           pc' = [pc EXCEPT ![h] = query], job' = [job EXCEPT ![h] = j],
           UNCHANGED <<steam, epic, library, held>>, proved \subseteq proved',
           JobInv(query, j)'
    PROVE  LibraryInv'
<1>1. held' = held /\ epic' = epic /\ steam' = steam /\ library' = library
    OBVIOUS
<1>2. /\ pc' \in [Handlers -> Queries]
      /\ DOMAIN job' = Handlers /\ job' = [g \in Handlers |-> job'[g]]
      /\ \A g \in Handlers : JobInv(pc[g], job[g])'
    BY <1>1, OthersKeep
<1>3. RowsInv'
    BY <1>1 DEF LibraryInv, RowsInv
<1>4. LibraryIsOwn'
    BY <1>1 DEF LibraryInv, LibraryIsOwn
<1> QED BY <1>1, <1>2, <1>3, <1>4 DEF LibraryInv

\* An answer carries nothing.
LEMMA EndPreserves ==
    ASSUME LibraryInv, NEW h \in Handlers, End(h), UNCHANGED libraryVars
    PROVE  LibraryInv'
<1>1. JobInv("done", [op |-> "none"])'
    BY DEF JobInv
<1> QED BY <1>1, ReadPreserves DEF End, libraryVars, Queries

\* The next query, where nothing is promised of it, carries what the last one did.
LEMMA AwaitPreserves ==
    ASSUME LibraryInv, NEW h \in Handlers, NEW query \in Queries \ {"games", "import"},
           Await(h, query), UNCHANGED libraryVars
    PROVE  LibraryInv'
<1>1. job' = [job EXCEPT ![h] = job[h]]
    BY DEF Await, LibraryInv
<1>2. JobInv(pc[h], job[h])
    BY DEF LibraryInv
<1>3. JobInv(query, job[h])
    BY <1>2 DEF JobInv, CarriesOwn
<1>4. steam' = steam /\ epic' = epic /\ library' = library /\ held' = held /\ proved' = proved
    BY DEF libraryVars
<1>5. \A j : JobInv(query, j)' <=> JobInv(query, j)
    BY <1>4 DEF JobInv, CarriesProof, CarriesOwn
<1> QED BY <1>1, <1>3, <1>4, <1>5, ReadPreserves DEF Await

\* The same with a value read, in the terms of the tables of now.
LEMMA AwaitWithPreserves ==
    ASSUME LibraryInv, NEW h \in Handlers, NEW query \in Queries, NEW j,
           AwaitWith(h, query, j), UNCHANGED libraryVars, JobInv(query, j)
    PROVE  LibraryInv'
<1>1. steam' = steam /\ epic' = epic /\ library' = library /\ held' = held /\ proved' = proved
    BY DEF libraryVars
<1>2. JobInv(query, j)'
    BY <1>1 DEF JobInv, CarriesProof, CarriesOwn
<1> QED BY <1>1, <1>2, ReadPreserves DEF AwaitWith

\* Requests begin with what their body says, which is MANUAL or proved.
LEMMA BeginPreserves ==
    ASSUME LibraryInv, NEW h \in Handlers, NEW u \in Users
    PROVE  /\ \A i \in SteamIds : ConnectBegins(h, u, i) \/ VerifyBegins(h, u, i) => LibraryInv'
           /\ SyncBegins(h, u) \/ ConnectEpic(h, u) => LibraryInv'
           /\ \A op \in {"unlink", "show", "hide"} : ManageBegins(h, op, u) => LibraryInv'
<1>1. ASSUME NEW i \in SteamIds, NEW op \in {"manual", "sync"},
             Begin(h, "row", SteamRequest(op, u, i)), UNCHANGED libraryVars
      PROVE  LibraryInv'
    <2>1. JobInv("row", SteamRequest(op, u, i))
        BY DEF JobInv, SteamRequest, SteamJob, CarriesProof, CarriesOwn
    <2> QED BY <1>1, <2>1, AwaitWithPreserves DEF Begin, AwaitWith, Queries
<1>2. ASSUME NEW i \in SteamIds, VerifyBegins(h, u, i) PROVE LibraryInv'
    <2> DEFINE j == [SteamRequest("link", u, i) EXCEPT !.source = "OFFICIAL"]
    <2>1. proved' = proved \cup {<<u, i>>} /\ UNCHANGED <<steam, epic, library, held>>
        BY <1>2 DEF VerifyBegins
    <2>2. j = [op |-> "link", user |-> u, id |-> i, source |-> "OFFICIAL", left |-> {}]
        BY DEF SteamRequest
    <2>3. JobInv("owner", j)'
        BY <2>1, <2>2 DEF JobInv, SteamJob, CarriesProof, CarriesOwn
    <2> QED BY <1>2, <2>1, <2>3, ReadPreserves DEF VerifyBegins, Begin, Queries
<1>3. ASSUME ConnectEpic(h, u) PROVE LibraryInv'
    <2>1. PICK games \in EpicLibrary : Begin(h, "epic", [op |-> "epic", user |-> u, left |-> games])
        BY <1>3 DEF ConnectEpic
    <2>2. JobInv("epic", [op |-> "epic", user |-> u, left |-> games])
        BY DEF JobInv, EpicLibrary
    <2> QED BY <1>3, <2>1, <2>2, AwaitWithPreserves DEF ConnectEpic, Begin, AwaitWith, Queries
<1>4. ASSUME NEW op \in {"unlink", "show", "hide"}, ManageBegins(h, op, u) PROVE LibraryInv'
    <2>1. JobInv("find", [op |-> op, user |-> u])
        BY DEF JobInv
    <2> QED BY <1>4, <2>1, AwaitWithPreserves DEF ManageBegins, Begin, AwaitWith, Queries
<1> QED BY <1>1, <1>2, <1>3, <1>4 DEF ConnectBegins, SyncBegins

\* A request to connect that keeps a verified standing keeps the proved id.
LEMMA ReadRowForManualPreserves ==
    ASSUME LibraryInv, NEW h \in Handlers, ReadRowForManual(h) PROVE LibraryInv'
<1> DEFINE u == job[h].user
           verified == steam[u] # None /\ steam[u].source = "OFFICIAL"
           j == [job[h] EXCEPT !.source = IF verified THEN "OFFICIAL" ELSE "MANUAL"]
<1>1. pc[h] = "row" /\ job[h].op = "manual" /\ UNCHANGED libraryVars
    BY DEF ReadRowForManual, At
<1>2. job[h] \in SteamJob
    BY <1>1 DEF LibraryInv, JobInv
<1>3. CASE verified /\ steam[u].id # job[h].id
    BY <1>1, <1>3, EndPreserves DEF ReadRowForManual
<1>4. CASE ~(verified /\ steam[u].id # job[h].id)
    <2>1. AwaitWith(h, "identity", j)
        BY <1>4 DEF ReadRowForManual
    <2>2. verified => <<u, job[h].id>> \in proved
        BY <1>2, <1>4 DEF LibraryInv, RowsInv, SteamJob
    <2>3. j = [op |-> "manual", user |-> u, id |-> job[h].id,
               source |-> IF verified THEN "OFFICIAL" ELSE "MANUAL", left |-> job[h].left]
        BY <1>1, <1>2 DEF SteamJob
    <2>4. JobInv("identity", j)
        <3>1. j \in SteamJob /\ j.op = "manual"
            BY <1>2, <2>3 DEF SteamJob
        <3>2. CarriesProof(j)
            BY <2>2, <2>3 DEF CarriesProof
        <3> QED BY <3>1, <3>2 DEF JobInv, CarriesOwn
    <2> HIDE DEF j
    <2> QED BY <1>1, <2>1, <2>4, AwaitWithPreserves DEF Queries
<1> QED BY <1>3, <1>4

\* The id and the games of a row that is there are its user's own.
LEMMA FetchPreserves ==
    ASSUME LibraryInv, NEW h \in Handlers, ReadRowForSync(h) \/ FetchGames(h) PROVE LibraryInv'
<1>1. UNCHANGED libraryVars
    BY DEF ReadRowForSync, FetchGames
<1>2. CASE End(h)
    BY <1>1, <1>2, EndPreserves
<1>3. CASE ReadRowForSync(h) /\ ~End(h)
    <2> DEFINE i == steam[job[h].user].id
               j == [job[h] EXCEPT !.id = i]
    <2>1. /\ job[h].op = "sync" /\ job[h] \in SteamJob
          /\ steam[job[h].user] # None /\ AwaitWith(h, "games", j)
        BY <1>3 DEF ReadRowForSync, At, LibraryInv, JobInv
    <2>2. <<job[h].user, i>> \in held /\ i \in SteamIds
        BY <2>1 DEF LibraryInv, RowsInv, SteamJob, SteamRow
    <2>3. j = [op |-> "sync", user |-> job[h].user, id |-> i, source |-> job[h].source,
               left |-> job[h].left]
        BY <2>1 DEF SteamJob
    <2>4. JobInv("games", j)
        BY <2>1, <2>2, <2>3 DEF JobInv, SteamJob, CarriesProof, CarriesOwn
    <2> HIDE DEF j
    <2> QED BY <1>1, <2>1, <2>4, AwaitWithPreserves DEF Queries
<1>4. CASE FetchGames(h) /\ ~End(h)
    <2>0. PICK games \in OwnedGames(job[h].id) :
            AwaitWith(h, "import", [job[h] EXCEPT !.left = games])
        BY <1>4 DEF FetchGames
    <2> DEFINE j == [job[h] EXCEPT !.left = games]
    <2>1. /\ job[h].op \in {"manual", "sync"} /\ pc[h] = "games"
          /\ job[h] \in SteamJob /\ AwaitWith(h, "import", j)
          /\ CarriesProof(job[h]) /\ CarriesOwn("games", job[h])
        BY <1>4, <2>0 DEF FetchGames, LibraryInv, JobInv
    <2>2. /\ j = [op |-> job[h].op, user |-> job[h].user, id |-> job[h].id,
                  source |-> job[h].source, left |-> games]
          /\ games \subseteq Owns[job[h].id]
        BY <2>0, <2>1 DEF SteamJob, OwnedGames
    <2>3. j \in SteamJob
        BY <2>1, <2>2 DEF SteamJob
    <2>4. JobInv("import", j)
        BY <2>1, <2>2, <2>3 DEF JobInv, CarriesProof, CarriesOwn
    <2> HIDE DEF j
    <2> QED BY <1>1, <2>1, <2>4, AwaitWithPreserves DEF Queries
<1> QED BY <1>2, <1>3, <1>4

-----------------------------------------------------------------------------
(* Steps that write a table.                                               *)

\* The row that is written is held from now on, and OFFICIAL only if proved.
LEMMA UpsertSteamPreserves ==
    ASSUME LibraryInv, NEW h \in Handlers, UpsertSteam(h) PROVE LibraryInv'
<1> DEFINE u == job[h].user
           i == job[h].id
           row == [id |-> i, source |-> job[h].source, visible |-> steam[u] # None /\ steam[u].visible]
<1>1. /\ job[h].op \in {"manual", "link"} /\ pc[h] = "upsert"
      /\ epic' = epic /\ library' = library /\ proved' = proved
    BY DEF UpsertSteam
<1>2. job[h] \in SteamJob /\ CarriesProof(job[h])
    BY <1>1 DEF LibraryInv, JobInv
<1>3. CASE IdOwner(i) \subseteq {u}
    <2>1. /\ steam' = [steam EXCEPT ![u] = row] /\ held' = held \cup {<<u, i>>}
          /\ IF job[h].op = "manual" THEN Await(h, "games") ELSE End(h)
        BY <1>3 DEF UpsertSteam
    <2>2. u \in Users /\ row \in SteamRow
        <3>1. (steam[u] # None /\ steam[u].visible) \in BOOLEAN
            BY <1>2 DEF LibraryInv, SteamJob, SteamRow
        <3> QED BY <1>2, <3>1 DEF SteamJob, SteamRow
    <2>3. /\ steam' \in [Users -> SteamRow \cup {None}]
          /\ steam'[u] = row /\ \A v \in Users \ {u} : steam'[v] = steam[v]
        BY <2>1, <2>2 DEF LibraryInv
    <2>4. RowsInv'
        <3> SUFFICES ASSUME NEW v \in Users, steam'[v] # None
                     PROVE  /\ <<v, steam'[v].id>> \in held'
                            /\ steam'[v].source = "OFFICIAL" => <<v, steam'[v].id>> \in proved'
            BY DEF RowsInv
        <3>1. CASE v = u
            BY <3>1, <1>1, <1>2, <2>1, <2>3 DEF CarriesProof
        <3>2. CASE v # u
            BY <3>2, <1>1, <2>1, <2>3 DEF LibraryInv, RowsInv
        <3> QED BY <3>1, <3>2
    <2>5. LibraryIsOwn'
        BY <1>1, <2>1 DEF LibraryInv, LibraryIsOwn
    <2>6. CASE job[h].op = "manual"
        <3>1. job' = [job EXCEPT ![h] = job[h]] /\ pc' = [pc EXCEPT ![h] = "games"]
            BY <2>1, <2>6 DEF Await, LibraryInv
        <3>2. <<u, i>> \in held'
            BY <2>1
        <3>3. \A j : j = job[h] => JobInv("games", j)'
            BY <1>1, <1>2, <2>6, <3>2 DEF JobInv, SteamJob, CarriesProof, CarriesOwn
        <3>4. /\ pc' \in [Handlers -> Queries]
              /\ DOMAIN job' = Handlers /\ job' = [g \in Handlers |-> job'[g]]
              /\ \A g \in Handlers : JobInv(pc[g], job[g])'
            <4>1. proved \subseteq proved' /\ held \subseteq held' /\ epic \subseteq epic'
                BY <1>1, <2>1
            <4> QED BY <3>1, <3>3, <4>1, OthersKeep DEF Queries
        <3> QED BY <1>1, <2>3, <2>4, <2>5, <3>4 DEF LibraryInv
    <2>7. CASE job[h].op = "link"
        <3>1. job' = [job EXCEPT ![h] = [op |-> "none"]] /\ pc' = [pc EXCEPT ![h] = "done"]
            BY <2>1, <2>7 DEF End
        <3>2. JobInv("done", [op |-> "none"])'
            BY DEF JobInv
        <3>3. /\ pc' \in [Handlers -> Queries]
              /\ DOMAIN job' = Handlers /\ job' = [g \in Handlers |-> job'[g]]
              /\ \A g \in Handlers : JobInv(pc[g], job[g])'
            <4>1. proved \subseteq proved' /\ held \subseteq held' /\ epic \subseteq epic'
                BY <1>1, <2>1
            <4> QED BY <3>1, <3>2, <4>1, OthersKeep DEF Queries
        <3> QED BY <1>1, <2>3, <2>4, <2>5, <3>3 DEF LibraryInv
    <2> QED BY <1>1, <2>6, <2>7
<1>4. CASE ~(IdOwner(i) \subseteq {u})
    BY <1>4, EndPreserves DEF UpsertSteam, libraryVars
<1> QED BY <1>3, <1>4

\* A game is imported for a user who held its account, or has an Epic row.
LEMMA ImportGamePreserves ==
    ASSUME LibraryInv, NEW h \in Handlers, NEW g, ImportGame(h, g) PROVE LibraryInv'
<1> DEFINE u == job[h].user
           left == job[h].left \ {g}
           j == [job[h] EXCEPT !.left = left]
<1>1. /\ pc[h] = "import" /\ g \in job[h].left
      /\ library' = [library EXCEPT ![u] = @ \cup {g}]
      /\ steam' = steam /\ epic' = epic /\ held' = held /\ proved' = proved
    BY DEF ImportGame
<1>2. /\ JobInv("import", job[h])
      /\ job[h].op \in {"manual", "link", "sync", "epic"} /\ u \in Users
    BY <1>1 DEF LibraryInv, JobInv, SteamJob
<1>3. /\ DOMAIN library' = Users /\ library' = [v \in Users |-> library'[v]]
      /\ library'[u] = library[u] \cup {g} /\ \A v \in Users \ {u} : library'[v] = library[v]
    BY <1>1, <1>2 DEF LibraryInv
<1>4. \/ g \in EpicGames /\ u \in epic
      \/ \E i \in SteamIds : <<u, i>> \in held /\ g \in Owns[i]
    BY <1>1, <1>2 DEF JobInv, SteamJob, CarriesOwn
<1>5. LibraryIsOwn'
    <2> SUFFICES ASSUME NEW v \in Users, NEW x \in library'[v]
                 PROVE  \/ x \in EpicGames /\ v \in epic
                        \/ \E i \in SteamIds : <<v, i>> \in held /\ x \in Owns[i]
        BY <1>1 DEF LibraryIsOwn
    <2>1. CASE v = u /\ x = g
        BY <2>1, <1>4
    <2>2. CASE ~(v = u /\ x = g)
        BY <2>2, <1>3 DEF LibraryInv, LibraryIsOwn
    <2> QED BY <2>1, <2>2
<1>6. RowsInv'
    BY <1>1 DEF LibraryInv, RowsInv
<1>7. CASE left = {}
    <2>1. job' = [job EXCEPT ![h] = [op |-> "none"]] /\ pc' = [pc EXCEPT ![h] = "done"]
        BY <1>7 DEF ImportGame, End
    <2>2. JobInv("done", [op |-> "none"])'
        BY DEF JobInv
    <2> QED BY <1>1, <1>3, <1>5, <1>6, <2>1, <2>2, OthersKeep DEF LibraryInv, Queries
<1>8. CASE left # {}
    <2>1. job' = [job EXCEPT ![h] = j] /\ pc' = [pc EXCEPT ![h] = "import"]
        BY <1>8 DEF ImportGame, AwaitWith
    <2>2. ASSUME NEW x, x = j, job[h].op = "epic" PROVE JobInv("import", x)'
        <3>1. x = [op |-> "epic", user |-> u, left |-> left]
            BY <1>2, <2>2 DEF JobInv
        <3> QED BY <1>1, <1>2, <2>2, <3>1 DEF JobInv
    <2>3. ASSUME NEW x, x = j, job[h].op # "epic" PROVE JobInv("import", x)'
        <3>1. job[h] \in SteamJob
            BY <1>2, <2>3 DEF JobInv
        <3>2. x = [op |-> job[h].op, user |-> u, id |-> job[h].id,
                   source |-> job[h].source, left |-> left]
            BY <2>3, <3>1 DEF SteamJob
        <3>3. x \in SteamJob
            BY <3>1, <3>2 DEF SteamJob
        <3> QED BY <1>1, <1>2, <2>3, <3>2, <3>3 DEF JobInv, CarriesProof, CarriesOwn
    <2>4. /\ pc' \in [Handlers -> Queries]
          /\ DOMAIN job' = Handlers /\ job' = [k \in Handlers |-> job'[k]]
          /\ \A k \in Handlers : JobInv(pc[k], job[k])'
        <3>1. proved \subseteq proved' /\ held \subseteq held' /\ epic \subseteq epic'
            BY <1>1
        <3> HIDE DEF j
        <3> QED BY <2>1, <2>2, <2>3, <3>1, OthersKeep DEF Queries
    <2> QED BY <1>1, <1>3, <1>5, <1>6, <2>4 DEF LibraryInv
<1> QED BY <1>7, <1>8

\* The Epic row is there before its games are.
LEMMA UpsertEpicPreserves ==
    ASSUME LibraryInv, NEW h \in Handlers, UpsertEpic(h) PROVE LibraryInv'
<1>1. /\ pc[h] = "epic" /\ job[h].op = "epic" /\ epic' = epic \cup {job[h].user}
      /\ steam' = steam /\ library' = library /\ held' = held /\ proved' = proved
    BY DEF UpsertEpic, At
<1>2. job[h] \in [op : {"epic"}, user : Users, left : SUBSET EpicGames]
    BY <1>1 DEF LibraryInv, JobInv
<1>3. RowsInv' /\ LibraryIsOwn'
    BY <1>1 DEF LibraryInv, RowsInv, LibraryIsOwn
<1>4. proved \subseteq proved' /\ held \subseteq held' /\ epic \subseteq epic'
    BY <1>1
<1>5. CASE job[h].left = {}
    <2>1. job' = [job EXCEPT ![h] = [op |-> "none"]] /\ pc' = [pc EXCEPT ![h] = "done"]
        BY <1>5 DEF UpsertEpic, End
    <2>2. JobInv("done", [op |-> "none"])'
        BY DEF JobInv
    <2>3. /\ pc' \in [Handlers -> Queries]
          /\ DOMAIN job' = Handlers /\ job' = [k \in Handlers |-> job'[k]]
          /\ \A k \in Handlers : JobInv(pc[k], job[k])'
        BY <1>4, <2>1, <2>2, OthersKeep DEF Queries
    <2> QED BY <1>1, <1>3, <2>3 DEF LibraryInv
<1>6. CASE job[h].left # {}
    <2>1. job' = [job EXCEPT ![h] = job[h]] /\ pc' = [pc EXCEPT ![h] = "import"]
        BY <1>6 DEF UpsertEpic, Await, LibraryInv
    <2>2. ASSUME NEW x, x = job[h] PROVE JobInv("import", x)'
        BY <1>1, <1>2, <2>2 DEF JobInv
    <2>3. /\ pc' \in [Handlers -> Queries]
          /\ DOMAIN job' = Handlers /\ job' = [k \in Handlers |-> job'[k]]
          /\ \A k \in Handlers : JobInv(pc[k], job[k])'
        BY <1>4, <2>1, <2>2, OthersKeep DEF Queries
    <2> QED BY <1>1, <1>3, <2>3 DEF LibraryInv
<1> QED BY <1>5, <1>6

\* A row that goes, or changes its visibility only, claims nothing new.
LEMMA ManagePreserves ==
    ASSUME LibraryInv, NEW h \in Handlers, DeleteAccount(h) \/ UpdateVisibility(h)
    PROVE  LibraryInv'
<1> DEFINE u == job[h].user
<1>1. /\ End(h) /\ job[h].op \in {"unlink", "show", "hide"}
      /\ epic' = epic /\ library' = library /\ held' = held /\ proved' = proved
    BY DEF DeleteAccount, UpdateVisibility, At
<1>2. u \in Users
    BY <1>1 DEF LibraryInv, JobInv
<1>3. \/ steam' = [steam EXCEPT ![u] = None]
      \/ steam' = steam
      \/ /\ steam[u] # None
         /\ \E seen \in BOOLEAN : steam' = [steam EXCEPT ![u].visible = seen]
    BY DEF DeleteAccount, UpdateVisibility
<1>4. /\ steam' \in [Users -> SteamRow \cup {None}]
      /\ \A v \in Users : steam'[v] # None =>
           /\ steam[v] # None
           /\ steam'[v].id = steam[v].id /\ steam'[v].source = steam[v].source
    <2>1. CASE steam' = [steam EXCEPT ![u] = None]
        BY <2>1, <1>2 DEF LibraryInv
    <2>2. CASE steam' = steam
        BY <2>2 DEF LibraryInv
    <2>3. ASSUME NEW seen \in BOOLEAN, steam[u] # None,
                 steam' = [steam EXCEPT ![u].visible = seen]
          PROVE  /\ steam' \in [Users -> SteamRow \cup {None}]
                 /\ \A v \in Users : steam'[v] # None =>
                      /\ steam[v] # None
                      /\ steam'[v].id = steam[v].id /\ steam'[v].source = steam[v].source
        <3> DEFINE row == [steam[u] EXCEPT !.visible = seen]
        <3>1. steam[u] \in SteamRow
            BY <1>2, <2>3 DEF LibraryInv
        <3>2. row \in SteamRow /\ row.id = steam[u].id /\ row.source = steam[u].source
            BY <3>1 DEF SteamRow
        <3>3. steam'[u] = row /\ \A v \in Users \ {u} : steam'[v] = steam[v]
            BY <1>2, <2>3 DEF LibraryInv
        <3>4. steam' = [steam EXCEPT ![u] = row]
            BY <2>3
        <3> HIDE DEF row
        <3> QED BY <1>2, <2>3, <3>2, <3>3, <3>4 DEF LibraryInv
    <2> QED BY <1>3, <2>1, <2>2, <2>3
<1>5. RowsInv' /\ LibraryIsOwn'
    BY <1>1, <1>4 DEF LibraryInv, RowsInv, LibraryIsOwn
<1>6. JobInv("done", [op |-> "none"])'
    BY DEF JobInv
<1>7. /\ pc' \in [Handlers -> Queries]
      /\ DOMAIN job' = Handlers /\ job' = [k \in Handlers |-> job'[k]]
      /\ \A k \in Handlers : JobInv(pc[k], job[k])'
    BY <1>1, <1>6, OthersKeep DEF End, Queries
<1> QED BY <1>1, <1>4, <1>5, <1>7 DEF LibraryInv

-----------------------------------------------------------------------------

\* The invariant is inductive.
LEMMA StepPreserves ==
    LibraryInv /\ [LibraryNext]_<<handlerVars, libraryVars>> => LibraryInv'
<1> SUFFICES ASSUME LibraryInv, [LibraryNext]_<<handlerVars, libraryVars>> PROVE LibraryInv'
    OBVIOUS
<1>1. CASE UNCHANGED <<handlerVars, libraryVars>>
    BY <1>1 DEF handlerVars, libraryVars, LibraryInv, JobInv, CarriesProof, CarriesOwn,
                RowsInv, LibraryIsOwn
<1>2. ASSUME NEW h \in Handlers, NEW u \in Users, NEW i \in SteamIds,
             ConnectBegins(h, u, i) \/ VerifyBegins(h, u, i)
      PROVE  LibraryInv'
    BY <1>2, BeginPreserves
<1>3. ASSUME NEW h \in Handlers, NEW u \in Users, SyncBegins(h, u) \/ ConnectEpic(h, u)
      PROVE  LibraryInv'
    BY <1>3, BeginPreserves
<1>4. ASSUME NEW h \in Handlers, NEW u \in Users, NEW op \in {"unlink", "show", "hide"},
             ManageBegins(h, op, u)
      PROVE  LibraryInv'
    BY <1>4, BeginPreserves
<1>5. ASSUME NEW h \in Handlers, ReadRowForManual(h) PROVE LibraryInv'
    BY <1>5, ReadRowForManualPreserves
<1>6. ASSUME NEW h \in Handlers,
             FindOwner(h) \/ ReadRowForLink(h) \/ FindIdentity(h) \/ FindAccount(h)
      PROVE  LibraryInv'
    <2>1. /\ UNCHANGED libraryVars
          /\ End(h) \/ \E query \in {"row", "identity", "upsert", "write"} : Await(h, query)
        BY <1>6 DEF FindOwner, ReadRowForLink, FindIdentity, FindAccount
    <2> QED BY <2>1, EndPreserves, AwaitPreserves DEF Queries
<1>7. ASSUME NEW h \in Handlers, UpsertSteam(h) PROVE LibraryInv'
    BY <1>7, UpsertSteamPreserves
<1>8. ASSUME NEW h \in Handlers, ReadRowForSync(h) \/ FetchGames(h) PROVE LibraryInv'
    BY <1>8, FetchPreserves
<1>9. ASSUME NEW h \in Handlers, UpsertEpic(h) PROVE LibraryInv'
    BY <1>9, UpsertEpicPreserves
<1>10. ASSUME NEW h \in Handlers, NEW g, ImportGame(h, g) PROVE LibraryInv'
    BY <1>10, ImportGamePreserves
<1>11. ASSUME NEW h \in Handlers, DeleteAccount(h) \/ UpdateVisibility(h) PROVE LibraryInv'
    BY <1>11, ManagePreserves
<1>12. ASSUME NEW h \in Handlers, QueryFails(h, {}), UNCHANGED libraryVars PROVE LibraryInv'
    BY <1>12, EndPreserves DEF QueryFails
<1> QED BY <1>1, <1>2, <1>3, <1>4, <1>5, <1>6, <1>7, <1>8, <1>9, <1>10, <1>11, <1>12
           DEF LibraryNext

(* For every number of users, handlers, Steam accounts and games: however  *)
(* connectSteam, completeSteamOpenIdCallback, unlinking and visibility     *)
(* changes cross, a row stored as OFFICIAL, and so any account on a public *)
(* profile, is one Steam vouched for.                                      *)
THEOREM OfficialAccountsAreProven == LibrarySpec => []OfficialIsProven
<1>1. LibraryInv => OfficialIsProven
    BY InvImpliesProperties
<1> QED BY <1>1, InitEstablishes, StepPreserves, PTL DEF LibrarySpec

(* And no import or sync, however long it runs while accounts are replaced *)
(* or unlinked, brings in a game of an account its user never connected    *)
(* (getOwnedGames and the upserts of connectSteam, syncSteamLibrary and    *)
(* connectEpic).                                                           *)
THEOREM LibraryHoldsOwnGames == LibrarySpec => []LibraryIsOwn
<1>1. LibraryInv => LibraryIsOwn
    BY InvImpliesProperties
<1> QED BY <1>1, InitEstablishes, StepPreserves, PTL DEF LibrarySpec

-----------------------------------------------------------------------------
(* The showcase of OtakuLibrary, for any number of users, titles, ranks    *)
(* and handlers.  A change of rank is decided on a snapshot; the inductive *)
(* invariant says that the snapshot was orderly too, and the commit that   *)
(* nothing it rests on has changed.                                        *)

Orderly(entries) ==
    \A t1, t2 \in Titles :
        RankOf(entries[t1]) # Unranked /\ RankOf(entries[t1]) = RankOf(entries[t2]) => t1 = t2

Entries   == [Titles -> Entry \cup {None}]
ImportJob == [op : {"import"}, user : Fans, left : SUBSET Titles]
RankJob   == [op : {"rank"}, user : Fans, title : Titles, rank : Ranks \cup {Unranked},
              base : Entries \cup {None}]

ShowcaseJob(query, j) ==
    /\ j.op \in {"none", "import", "rank"}
    /\ j.op = "import" => j \in ImportJob
    /\ j.op = "rank" => j \in RankJob
    /\ j.op = "rank" /\ query = "commit" =>
         j.base \in Entries /\ Orderly(j.base) /\ j.base[j.title] # None

ShowcaseInv ==
    /\ DOMAIN pc = Handlers
    /\ DOMAIN job = Handlers /\ job = [h \in Handlers |-> job[h]]
    /\ media \in [Fans -> Entries]
    /\ \A h \in Handlers : ShowcaseJob(pc[h], job[h])
    /\ \A u \in Fans : Orderly(media[u])

LEMMA RankType == ASSUME NEW entry \in Entry \cup {None} PROVE RankOf(entry) \in Ranks \cup {Unranked}
BY DEF RankOf, Entry

LEMMA ShowcaseInit == HandlersInit /\ OtakuInit => ShowcaseInv
BY DEF HandlersInit, OtakuInit, ShowcaseInv, ShowcaseJob, Entries, Orderly, RankOf

\* One handler moves and leaves the showcases orderly.
LEMMA ShowcaseStep ==
    ASSUME ShowcaseInv, NEW h \in Handlers, NEW query, NEW j, ShowcaseJob(query, j),
           pc' = [pc EXCEPT ![h] = query], job' = [job EXCEPT ![h] = j],
           media' \in [Fans -> Entries], \A u \in Fans : Orderly(media'[u])
    PROVE  ShowcaseInv'
<1>1. \A g \in Handlers : ShowcaseJob(pc'[g], job'[g])
    BY DEF ShowcaseInv
<1>2. DOMAIN pc' = Handlers /\ DOMAIN job' = Handlers /\ job' = [g \in Handlers |-> job'[g]]
    BY DEF ShowcaseInv
<1> QED BY <1>1, <1>2 DEF ShowcaseInv

LEMMA ShowcaseEnds ==
    ASSUME ShowcaseInv, NEW h \in Handlers, End(h),
           media' \in [Fans -> Entries], \A u \in Fans : Orderly(media'[u])
    PROVE  ShowcaseInv'
<1>1. \A j : j = [op |-> "none"] => ShowcaseJob("done", j)
    BY DEF ShowcaseJob
<1> QED BY <1>1, ShowcaseStep DEF End

LEMMA SameMedia ==
    ASSUME ShowcaseInv, media' = media
    PROVE  media' \in [Fans -> Entries] /\ \A u \in Fans : Orderly(media'[u])
BY DEF ShowcaseInv

-----------------------------------------------------------------------------
(* Imports leave the ranks alone. *)

LEMMA ImportPreserves ==
    ASSUME ShowcaseInv, NEW h \in Handlers,
           \/ FindConnection(h)
           \/ \E T \in Lists : FetchLists(h, T)
           \/ \E t \in Titles, status \in Statuses : ImportEntry(h, t, status)
           \/ Stamp(h)
    PROVE  ShowcaseInv'
<1>1. job[h].op = "import" /\ job[h] \in ImportJob
    BY DEF FindConnection, FetchLists, ImportEntry, Stamp, At, ShowcaseInv, ShowcaseJob
<1>2. \A query, T : T \in SUBSET Titles => ShowcaseJob(query, [job[h] EXCEPT !.left = T])
    BY <1>1 DEF ShowcaseJob, ImportJob
<1>3. CASE FindConnection(h)
    <2>1. media' = media
        BY <1>3 DEF FindConnection, otakuVars
    <2>2. CASE End(h)
        BY <2>1, <2>2, SameMedia, ShowcaseEnds
    <2>3. CASE Await(h, "lists")
        <3>1. pc' = [pc EXCEPT ![h] = "lists"] /\ job' = [job EXCEPT ![h] = job[h]]
            BY <2>3 DEF Await, ShowcaseInv
        <3>2. \A j : j = job[h] => ShowcaseJob("lists", j)
            BY <1>1 DEF ShowcaseJob
        <3> QED BY <2>1, <3>1, <3>2, SameMedia, ShowcaseStep
    <2> QED BY <1>3, <2>2, <2>3 DEF FindConnection
<1>4. ASSUME NEW T \in Lists, FetchLists(h, T) PROVE ShowcaseInv'
    <2>1. media' = media /\ T \in SUBSET Titles
        BY <1>4 DEF FetchLists, otakuVars, Lists
    <2>2. PICK query, j : /\ pc' = [pc EXCEPT ![h] = query] /\ job' = [job EXCEPT ![h] = j]
                          /\ j = [job[h] EXCEPT !.left = T]
        BY <1>4 DEF FetchLists, AwaitWith
    <2>3. ShowcaseJob(query, j)
        BY <1>2, <2>1, <2>2
    <2> QED BY <2>1, <2>2, <2>3, SameMedia, ShowcaseStep
<1>5. ASSUME NEW t \in Titles, NEW status \in Statuses, ImportEntry(h, t, status)
      PROVE  ShowcaseInv'
    <2> DEFINE u == job[h].user
               entry == [status |-> status, rank |-> RankOf(media[u][t])]
    <2>1. /\ u \in Fans /\ media[u] \in Entries /\ media[u][t] \in Entry \cup {None}
          /\ job[h].left \ {t} \in SUBSET Titles
        BY <1>1 DEF ImportJob, ShowcaseInv, Entries
    <2>2. media' = [media EXCEPT ![u][t] = entry]
        BY <1>5 DEF ImportEntry
    <2>3. entry \in Entry /\ RankOf(entry) = RankOf(media[u][t])
        <3>1. entry \in Entry /\ entry.rank = RankOf(media[u][t])
            BY <2>1, RankType DEF Entry
        <3> QED BY <3>1, EntryAssumption DEF RankOf
    <2> HIDE DEF entry
    <2>4. media' \in [Fans -> Entries]
        BY <2>1, <2>2, <2>3 DEF ShowcaseInv, Entries
    <2>5. \A v \in Fans, e \in Titles : RankOf(media'[v][e]) = RankOf(media[v][e])
        BY <2>1, <2>2, <2>3 DEF ShowcaseInv, Entries
    <2>6. \A v \in Fans : Orderly(media'[v])
        BY <2>5 DEF ShowcaseInv, Orderly
    <2>7. PICK query, j : /\ pc' = [pc EXCEPT ![h] = query] /\ job' = [job EXCEPT ![h] = j]
                          /\ j = [job[h] EXCEPT !.left = job[h].left \ {t}]
        BY <1>5 DEF ImportEntry, AwaitWith
    <2>8. ShowcaseJob(query, j)
        BY <1>2, <2>1, <2>7
    <2> QED BY <2>4, <2>6, <2>7, <2>8, ShowcaseStep
<1>6. CASE Stamp(h)
    BY <1>6, SameMedia, ShowcaseEnds DEF Stamp
<1> QED BY <1>3, <1>4, <1>5, <1>6

-----------------------------------------------------------------------------
(* Ranks. *)

\* The entry gets the rank, and nobody else has it.
LEMMA PlacedIsOrderly ==
    ASSUME NEW entries \in Entries, Orderly(entries), NEW t \in Titles, entries[t] # None,
           NEW r \in Ranks \cup {Unranked}
    PROVE  Placed(entries, t, r) \in Entries /\ Orderly(Placed(entries, t, r))
<1> DEFINE placed == Placed(entries, t, r)
<1>1. \A e \in Titles : entries[e] \in Entry \cup {None}
    BY DEF Entries
<1>2. ASSUME NEW entry \in Entry, NEW rank \in Ranks \cup {Unranked}
      PROVE  /\ [entry EXCEPT !.rank = rank] \in Entry
             /\ RankOf([entry EXCEPT !.rank = rank]) = rank
    <2>1. [entry EXCEPT !.rank = rank] \in Entry /\ [entry EXCEPT !.rank = rank].rank = rank
        BY DEF Entry
    <2> QED BY <2>1, EntryAssumption DEF RankOf
<1>3. ASSUME NEW e \in Titles
      PROVE  /\ placed[e] \in Entry \cup {None}
             /\ RankOf(placed[e]) = IF e = t THEN r
                                    ELSE IF r # Unranked /\ RankOf(entries[e]) = r THEN Unranked
                                    ELSE RankOf(entries[e])
    <2>1. placed[e] = IF e = t THEN [entries[e] EXCEPT !.rank = r]
                      ELSE IF r # Unranked /\ RankOf(entries[e]) = r
                           THEN [entries[e] EXCEPT !.rank = Unranked] ELSE entries[e]
        BY DEF Placed
    <2>2. CASE e = t
        BY <1>1, <1>2, <2>1, <2>2
    <2>3. CASE e # t /\ r # Unranked /\ RankOf(entries[e]) = r
        <3>1. entries[e] \in Entry
            BY <1>1, <2>3 DEF RankOf
        <3> QED BY <1>2, <2>1, <2>3, <3>1
    <2>4. CASE e # t /\ ~(r # Unranked /\ RankOf(entries[e]) = r)
        BY <1>1, <2>1, <2>4
    <2> QED BY <2>2, <2>3, <2>4
<1>4. placed \in Entries
    <2>1. placed = [e \in Titles |-> placed[e]]
        BY DEF Placed
    <2> HIDE DEF placed
    <2> QED BY <1>3, <2>1 DEF Entries
<1>5. Orderly(placed)
    <2> HIDE DEF placed
    <2> QED BY <1>3 DEF Orderly
<1> QED BY <1>4, <1>5

\* A request to rank, and the reads of its transaction.
LEMMA CheckLimitPreserves ==
    ASSUME ShowcaseInv, NEW h \in Handlers, CheckLimit(h) PROVE ShowcaseInv'
<1>1. /\ job[h].op = "rank" /\ job[h] \in RankJob /\ media' = media
      /\ job[h].user \in Fans /\ media[job[h].user] \in Entries /\ Orderly(media[job[h].user])
    BY DEF CheckLimit, At, ShowcaseInv, ShowcaseJob, RankJob, otakuVars
<1>2. CASE End(h)
    BY <1>1, <1>2, SameMedia, ShowcaseEnds
<1>3. CASE ~End(h)
    <2>1. PICK entries, j : /\ entries = media[job[h].user]
                            /\ j = [job[h] EXCEPT !.base = entries]
                            /\ pc' = [pc EXCEPT ![h] = "commit"]
                            /\ job' = [job EXCEPT ![h] = j]
                            /\ entries[job[h].title] # None
        BY <1>3 DEF CheckLimit, AwaitWith
    <2>2. ShowcaseJob("commit", j)
        <3>1. entries \in Entries /\ Orderly(entries)
            BY <1>1, <2>1
        <3>2. /\ j \in RankJob /\ j.op = "rank" /\ j.base = entries /\ j.title = job[h].title
            BY <1>1, <2>1, <3>1 DEF RankJob
        <3> QED BY <2>1, <3>1, <3>2 DEF ShowcaseJob
    <2> QED BY <1>1, <2>1, <2>2, SameMedia, ShowcaseStep
<1> QED BY <1>2, <1>3

\* What is committed ranks the entries as if nobody had come in between.
LEMMA CommitPreserves ==
    ASSUME ShowcaseInv, NEW h \in Handlers, Commit(h) PROVE ShowcaseInv'
<1>1. /\ pc[h] = "commit" /\ job[h] \in RankJob /\ job[h].op = "rank"
      /\ job[h].base \in Entries /\ Orderly(job[h].base) /\ job[h].base[job[h].title] # None
    BY DEF Commit, At, ShowcaseInv, ShowcaseJob
<1>2. PICK u \in Fans, t \in Titles, r \in Ranks \cup {Unranked}, base \in Entries :
        u = job[h].user /\ t = job[h].title /\ r = job[h].rank /\ base = job[h].base
    BY <1>1 DEF RankJob
<1>3. CASE Stale(h)
    BY <1>3, SameMedia, ShowcaseEnds DEF Commit
<1>4. CASE ~Stale(h)
    <2> DEFINE placed == Placed(base, t, r)
    <2>1. placed \in Entries /\ Orderly(placed)
        BY <1>1, <1>2, PlacedIsOrderly
    <2>2. /\ DOMAIN OwnRows(h) = {e \in Titles : placed[e] # base[e]}
          /\ \A e \in DOMAIN OwnRows(h) : OwnRows(h)[e] = placed[e]
        BY <1>2 DEF OwnRows
    <2>3. Written(h) = [e \in Titles |-> IF placed[e] # base[e] THEN placed[e] ELSE media[u][e]]
        BY <1>2, <2>2 DEF Written
    <2> HIDE DEF placed
    <2>4. media[u] \in Entries
        BY DEF ShowcaseInv
    <2>5. Written(h) \in Entries
        BY <2>1, <2>3, <2>4 DEF Entries
    <2>6. \A e \in Titles : RankOf(Written(h)[e]) = RankOf(placed[e])
        <3> SUFFICES ASSUME NEW e \in Titles, placed[e] = base[e]
                     PROVE  RankOf(media[u][e]) = RankOf(placed[e])
            BY <2>3
        <3> QED BY <1>2, <1>4, <2>2 DEF Stale
    <2>7. Orderly(Written(h))
        BY <2>1, <2>6 DEF Orderly
    <2>8. media' = [media EXCEPT ![u] = Written(h)]
        BY <1>2, <1>4 DEF Commit
    <2>9. media' \in [Fans -> Entries] /\ \A v \in Fans : Orderly(media'[v])
        BY <2>5, <2>7, <2>8 DEF ShowcaseInv
    <2> QED BY <2>9, ShowcaseEnds DEF Commit
<1> QED BY <1>3, <1>4

LEMMA ShowcasePreserved ==
    ShowcaseInv /\ [OtakuNext]_<<handlerVars, otakuVars>> => ShowcaseInv'
<1> SUFFICES ASSUME ShowcaseInv, [OtakuNext]_<<handlerVars, otakuVars>> PROVE ShowcaseInv'
    OBVIOUS
<1>1. CASE pc' = pc /\ job' = job /\ media' = media
    BY <1>1 DEF ShowcaseInv
<1>2. CASE UNCHANGED <<handlerVars, otakuVars>>
    BY <1>1, <1>2 DEF handlerVars, otakuVars
<1>3. ASSUME NEW u \in Fans, NEW state, SetConnection(u, state) PROVE ShowcaseInv'
    BY <1>1, <1>3 DEF SetConnection, handlerVars
<1>4. ASSUME NEW h \in Handlers, NEW u \in Fans, ImportBegins(h, u) PROVE ShowcaseInv'
    <2>1. PICK j : /\ j = [op |-> "import", user |-> u, left |-> {}]
                   /\ pc' = [pc EXCEPT ![h] = "connection"] /\ job' = [job EXCEPT ![h] = j]
        BY <1>4 DEF ImportBegins, Begin
    <2>2. ShowcaseJob("connection", j) /\ media' = media
        BY <1>4, <2>1 DEF ShowcaseJob, ImportJob, ImportBegins, otakuVars
    <2> QED BY <2>1, <2>2, SameMedia, ShowcaseStep
<1>5. ASSUME NEW h \in Handlers, NEW u \in Fans, NEW t \in Titles,
             NEW r \in Ranks \cup {Unranked}, RankBegins(h, u, t, r)
      PROVE  ShowcaseInv'
    <2>1. PICK j : /\ j = [op |-> "rank", user |-> u, title |-> t, rank |-> r, base |-> None]
                   /\ pc' = [pc EXCEPT ![h] = "checks"] /\ job' = [job EXCEPT ![h] = j]
        BY <1>5 DEF RankBegins, Begin
    <2>2. ShowcaseJob("checks", j) /\ media' = media
        BY <1>5, <2>1 DEF ShowcaseJob, RankJob, RankBegins, otakuVars
    <2> QED BY <2>1, <2>2, SameMedia, ShowcaseStep
<1>6. ASSUME NEW h \in Handlers,
             \/ FindConnection(h)
             \/ \E T \in Lists : FetchLists(h, T)
             \/ \E t \in Titles, status \in Statuses : ImportEntry(h, t, status)
             \/ Stamp(h)
      PROVE  ShowcaseInv'
    BY <1>6, ImportPreserves
<1>7. ASSUME NEW h \in Handlers, CheckLimit(h) PROVE ShowcaseInv'
    BY <1>7, CheckLimitPreserves
<1>8. ASSUME NEW h \in Handlers, Commit(h) PROVE ShowcaseInv'
    BY <1>8, CommitPreserves
<1>9. ASSUME NEW h \in Handlers, QueryFails(h, {}), UNCHANGED otakuVars PROVE ShowcaseInv'
    BY <1>9, SameMedia, ShowcaseEnds DEF QueryFails, otakuVars
<1> QED BY <1>2, <1>3, <1>4, <1>5, <1>6, <1>7, <1>8, <1>9 DEF OtakuNext

LEMMA OrderlyShowcases == ShowcaseInv => ShowcaseIsOrderly
BY DEF ShowcaseInv, ShowcaseIsOrderly, Orderly, Featured, RankOf, Unranked

(* For every number of users, titles and handlers: two entries of a user   *)
(* never hold the same place of the showcase, whatever imports and changes *)
(* of rank cross (otaku-showcase.service.ts under Serializable).           *)
THEOREM ShowcasesAreOrderly == OtakuSpec => []ShowcaseIsOrderly
<1> QED BY ShowcaseInit, ShowcasePreserved, OrderlyShowcases, PTL DEF OtakuSpec

\* The profile of a user lists this many entries.
ShowcaseIsBounded ==
    \A u \in Fans : /\ IsFiniteSet(Featured(media[u]))
                    /\ Cardinality(Featured(media[u])) <= MaxFeatured

(* Distinct places are at most as many as there are: a profile never shows *)
(* more than OTAKU_SHOWCASE_MAX_FEATURED entries.                          *)
THEOREM ShowcasesAreBounded == OtakuSpec => []ShowcaseIsBounded
<1>1. ShowcaseInv => ShowcaseIsBounded
    <2> SUFFICES ASSUME ShowcaseInv, NEW u \in Fans
                 PROVE  /\ IsFiniteSet(Featured(media[u]))
                        /\ Cardinality(Featured(media[u])) <= MaxFeatured
        BY DEF ShowcaseIsBounded
    <2> DEFINE places == [t \in Featured(media[u]) |-> RankOf(media[u][t])]
    <2>1. \A t \in Featured(media[u]) : t \in Titles /\ RankOf(media[u][t]) \in 1..MaxFeatured
        BY RankType DEF ShowcaseInv, Entries, Featured, Ranks
    <2>2. places \in [Featured(media[u]) -> 1..MaxFeatured]
        BY <2>1
    <2>3. IsInjective(places)
        BY <2>1 DEF IsInjective, ShowcaseInv, Orderly, Featured
    <2>4. IsFiniteSet(1..MaxFeatured) /\ Cardinality(1..MaxFeatured) = MaxFeatured
        BY MaxFeaturedAssumption, FS_Interval
    <2>5. places \in Injection(Featured(media[u]), 1..MaxFeatured)
        BY <2>2, <2>3 DEF Injection, IsInjective
    <2> HIDE DEF places
    <2>6. /\ IsFiniteSet(Featured(media[u]))
          /\ Cardinality(Featured(media[u])) <= Cardinality(1..MaxFeatured)
        BY <2>4, <2>5, FS_Injection
    <2> QED BY <2>4, <2>6
<1> QED BY <1>1, ShowcaseInit, ShowcasePreserved, PTL DEF OtakuSpec

-----------------------------------------------------------------------------
(* The presence store.                                                     *)

StoreQueries == {"idle", "done", "redis", "postgres", "friends", "publish", "cache", "row"}

SetJob == [op : {"set"}, user : Players, value : Presences, audience : SUBSET Users]
GetJob == [op : {"get"}, user : Players, saw : Presences \cup {None}]

UpdateInv(h) ==
    job[h].op = "set" =>
        /\ job[h] \in SetJob /\ pc[h] \in {"redis", "postgres", "friends", "publish"}
        /\ Face(job[h].value) \in doubt[job[h].user]
        /\ job[h].audience \subseteq circle[job[h].user]

ReadInv(h) ==
    job[h].op = "get" =>
        /\ job[h] \in GetJob /\ pc[h] \in {"cache", "row", "done"}
        /\ pc[h] = "done" => Face(job[h].saw) \in span[h]
        /\ pc[h] # "done" => doubt[job[h].user] \subseteq span[h]

StoredInv(p) ==
    /\ Face(pg[p]) \in doubt[p]
    /\ redis[p] # None => Face(redis[p]) \in doubt[p]
    /\ friends[p] \subseteq circle[p]

AloneInv(p, h) ==
    solo[p] = h =>
        /\ pc[h] # "idle"
        /\ UpdatesOf(p) \subseteq {h}
        /\ h \in UpdatesOf(p) /\ pc[h] = "postgres" /\ redis[p] # None
             => Face(redis[p]) = Face(job[h].value)

StoreInv ==
    /\ pc \in [Handlers -> StoreQueries]
    /\ DOMAIN job = Handlers /\ job = [h \in Handlers |-> job[h]]
    /\ DOMAIN ans = Handlers /\ ans = [h \in Handlers |-> ans[h]]
    /\ \A h \in Handlers : pc[h] = "idle" => job[h].op = "none"
    /\ PresenceTypeOK
    /\ \A h \in Handlers : UpdateInv(h) /\ ReadInv(h)
    /\ \A p \in Players : StoredInv(p)
    /\ \A p \in Players, h \in Handlers : AloneInv(p, h)

-----------------------------------------------------------------------------
(* Presences, and what readers see of them. *)

LEMMA OfflineIsPresence == Offline \in Presences
BY DEF Offline, Presences

LEMMA FaceType == ASSUME NEW v \in Presences PROVE Face(v) \in Faces
BY DEF Faces

\* The upsert keeps a detail that readers are not compared on.
LEMMA UpsertKeepsFace ==
    ASSUME NEW old \in Presences, NEW v \in Presences
    PROVE  Upserted(old, v) \in Presences /\ Face(Upserted(old, v)) = Face(v)
<1>1. Upserted(old, v) \in Presences
    BY DEF Upserted, Presences
<1>2. Upserted(old, v).status = v.status /\ Upserted(old, v).game = v.game
    BY DEF Upserted, Presences
<1> QED BY <1>1, <1>2 DEF Face

\* An update in flight is one whose request says so.
LEMMA UpdatesAreJobs ==
    ASSUME StoreInv, NEW p \in Players, NEW g \in Handlers
    PROVE  g \in UpdatesOf(p) <=> job[g].op = "set" /\ job[g].user = p
BY DEF StoreInv, UpdateInv, UpdatesOf, Live

LEMMA StoreBegins == HandlersInit /\ PresenceInit => StoreInv
<1> SUFFICES ASSUME HandlersInit, PresenceInit PROVE StoreInv
    OBVIOUS
<1>1. \A h \in Handlers : pc[h] = "idle" /\ job[h] = [op |-> "none"]
    BY DEF HandlersInit
<1>2. PresenceTypeOK
    BY OfflineIsPresence, FaceType, PlayersAssumption DEF PresenceInit, PresenceTypeOK
<1>3. \A p \in Players : StoredInv(p)
    BY DEF PresenceInit, StoredInv
<1>4. \A p \in Players, h \in Handlers : AloneInv(p, h)
    BY NullAssumption DEF PresenceInit, AloneInv
<1> QED BY <1>1, <1>2, <1>3, <1>4 DEF HandlersInit, StoreInv, UpdateInv, ReadInv, StoreQueries

-----------------------------------------------------------------------------
(* One step moves one handler, or none. *)

Moves(h) == \A g \in Handlers \ {h} : pc'[g] = pc[g] /\ job'[g] = job[g] /\ ans'[g] = ans[g]

InPlace == /\ pc' \in [Handlers -> StoreQueries]
          /\ DOMAIN job' = Handlers /\ job' = [h \in Handlers |-> job'[h]]
          /\ DOMAIN ans' = Handlers /\ ans' = [h \in Handlers |-> ans'[h]]

LEMMA OneMoves ==
    ASSUME StoreInv, NEW h \in Handlers, NEW query \in StoreQueries, NEW j, NEW answer,
           pc' = [pc EXCEPT ![h] = query], job' = [job EXCEPT ![h] = j],
           ans' = [ans EXCEPT ![h] = answer]
    PROVE  InPlace /\ Moves(h) /\ pc'[h] = query /\ job'[h] = j /\ ans'[h] = answer
BY DEF StoreInv, Moves, InPlace

\* The other updates in flight are the same.
LEMMA OtherUpdates ==
    ASSUME NEW h \in Handlers, Moves(h), NEW p \in Players, NEW g \in Handlers \ {h}
    PROVE  g \in UpdatesOf(p)' <=> g \in UpdatesOf(p)
BY DEF Moves, UpdatesOf, Live

\* A handler that reads, or fails, disturbs nobody.
LEMMA QuietPreserves ==
    ASSUME StoreInv, NEW h \in Handlers, InPlace, Moves(h), UNCHANGED presenceVars,
           UpdateInv(h)', ReadInv(h)', pc'[h] \notin {"idle", "postgres"},
           \A p \in Players : h \in UpdatesOf(p)' => h \in UpdatesOf(p)
    PROVE  StoreInv'
<1>1. /\ redis' = redis /\ pg' = pg /\ friends' = friends /\ linked' = linked /\ told' = told
      /\ solo' = solo /\ doubt' = doubt /\ span' = span /\ circle' = circle
    BY DEF presenceVars, presenceTables, presenceHistory
<1>2. PresenceTypeOK' /\ \A p \in Players : StoredInv(p)'
    BY <1>1 DEF StoreInv, PresenceTypeOK, StoredInv
<1>3. ASSUME NEW g \in Handlers
      PROVE  UpdateInv(g)' /\ ReadInv(g)' /\ (pc'[g] = "idle" => job'[g].op = "none")
    <2>1. CASE g = h
        BY <2>1
    <2>2. CASE g # h
        <3>1. pc'[g] = pc[g] /\ job'[g] = job[g]
            BY <2>2 DEF Moves
        <3> QED BY <1>1, <3>1 DEF StoreInv, UpdateInv, ReadInv
    <2> QED BY <2>1, <2>2
<1>4. ASSUME NEW p \in Players, NEW g \in Handlers, solo'[p] = g
      PROVE  AloneInv(p, g)'
    <2>1. AloneInv(p, g) /\ solo[p] = g
        BY <1>1, <1>4 DEF StoreInv
    <2>2. UpdatesOf(p)' \subseteq UpdatesOf(p)
        BY OtherUpdates DEF UpdatesOf
    <2>3. CASE g = h
        BY <2>1, <2>2, <2>3 DEF AloneInv
    <2>4. CASE g # h
        <3>1. pc'[g] = pc[g] /\ job'[g] = job[g]
            BY <2>4 DEF Moves
        <3> QED BY <1>1, <2>1, <2>2, <3>1 DEF AloneInv
    <2> QED BY <2>3, <2>4
<1>5. \A p \in Players, g \in Handlers : AloneInv(p, g)'
    BY <1>4 DEF AloneInv
<1> QED BY <1>2, <1>3, <1>5 DEF StoreInv, InPlace

LEMMA FailPreserves ==
    ASSUME StoreInv, NEW h \in Handlers, QueryFails(h, {}), UNCHANGED presenceVars
    PROVE  StoreInv'
<1>1. /\ pc' = [pc EXCEPT ![h] = "done"] /\ job' = [job EXCEPT ![h] = [op |-> "none"]]
      /\ ans' = [ans EXCEPT ![h] = ans[h]]
    BY DEF QueryFails, End, StoreInv
<1>2. InPlace /\ Moves(h) /\ pc'[h] = "done" /\ job'[h] = [op |-> "none"]
    BY <1>1, OneMoves DEF StoreQueries
<1>3. UpdateInv(h)' /\ ReadInv(h)' /\ \A p \in Players : h \notin UpdatesOf(p)'
    BY <1>2 DEF UpdateInv, ReadInv, UpdatesOf
<1> QED BY <1>2, <1>3, QuietPreserves

\* The recipients are friends, whom the circle of the update covers.
LEMMA FindFriendsPreserves ==
    ASSUME StoreInv, NEW h \in Handlers, FindFriends(h) PROVE StoreInv'
<1> DEFINE p == job[h].user
           read == [job[h] EXCEPT !.audience = friends[p]]
<1>1. /\ pc[h] = "friends" /\ job[h].op = "set" /\ UNCHANGED presenceVars
      /\ pc' = [pc EXCEPT ![h] = "publish"] /\ job' = [job EXCEPT ![h] = read]
      /\ ans' = [ans EXCEPT ![h] = ans[h]]
    BY DEF FindFriends, At, AwaitWith, StoreInv
<1>2. /\ job[h] \in SetJob /\ p \in Players /\ Face(job[h].value) \in doubt[p]
      /\ friends[p] \in SUBSET Users /\ friends[p] \subseteq circle[p]
    BY <1>1 DEF StoreInv, UpdateInv, SetJob, StoredInv, PresenceTypeOK
<1>3. /\ read \in SetJob /\ read.op = "set" /\ read.user = p /\ read.value = job[h].value
      /\ read.audience = friends[p]
    BY <1>2 DEF SetJob
<1> HIDE DEF read
<1>4. InPlace /\ Moves(h) /\ pc'[h] = "publish" /\ job'[h] = read
    BY <1>1, OneMoves DEF StoreQueries
<1>5. UpdateInv(h)' /\ ReadInv(h)'
    BY <1>1, <1>2, <1>3, <1>4 DEF UpdateInv, ReadInv, presenceVars, presenceHistory
<1>6. \A q \in Players : h \in UpdatesOf(q)' => h \in UpdatesOf(q)
    BY <1>1, <1>3, <1>4 DEF UpdatesOf, Live
<1> QED BY <1>1, <1>4, <1>5, <1>6, QuietPreserves

\* What a reader finds, in Redis or in Postgres, was in doubt while it waited.
LEMMA StoreReads ==
    ASSUME StoreInv, NEW h \in Handlers, ReadRedis(h) \/ ReadPostgres(h) PROVE StoreInv'
<1> DEFINE p == job[h].user
<1>1. /\ pc[h] \in {"cache", "row"} /\ job[h].op = "get" /\ UNCHANGED presenceVars
    BY DEF ReadRedis, ReadPostgres, At
<1>2. /\ job[h] \in GetJob /\ p \in Players /\ doubt[p] \subseteq span[h]
    BY <1>1 DEF StoreInv, ReadInv, GetJob
<1>3. span' = span /\ doubt' = doubt
    BY <1>1 DEF presenceVars, presenceHistory
<1>4. ASSUME NEW saw \in Presences, Face(saw) \in doubt[p],
             AnswerWith(h, "presence", [job[h] EXCEPT !.saw = saw])
      PROVE  StoreInv'
    <2> DEFINE read == [job[h] EXCEPT !.saw = saw]
    <2>1. read \in GetJob /\ read.op = "get" /\ read.saw = saw
        BY <1>2 DEF GetJob
    <2>2. PICK answer : /\ pc' = [pc EXCEPT ![h] = "done"] /\ job' = [job EXCEPT ![h] = read]
                        /\ ans' = [ans EXCEPT ![h] = answer]
        BY <1>4 DEF AnswerWith
    <2> HIDE DEF read
    <2>3. InPlace /\ Moves(h) /\ pc'[h] = "done" /\ job'[h] = read
        BY <2>2, OneMoves DEF StoreQueries
    <2>4. UpdateInv(h)' /\ ReadInv(h)' /\ \A q \in Players : h \notin UpdatesOf(q)'
        BY <1>2, <1>3, <1>4, <2>1, <2>3 DEF UpdateInv, ReadInv, UpdatesOf
    <2> QED BY <1>1, <2>3, <2>4, QuietPreserves
<1>5. CASE ReadRedis(h) /\ redis[p] = None
    <2>1. /\ pc' = [pc EXCEPT ![h] = "row"] /\ job' = [job EXCEPT ![h] = job[h]]
          /\ ans' = [ans EXCEPT ![h] = ans[h]]
        BY <1>5 DEF ReadRedis, Await, StoreInv
    <2>2. InPlace /\ Moves(h) /\ pc'[h] = "row" /\ job'[h] = job[h]
        BY <2>1, OneMoves DEF StoreQueries
    <2>3. UpdateInv(h)' /\ ReadInv(h)' /\ \A q \in Players : h \notin UpdatesOf(q)'
        BY <1>1, <1>2, <1>3, <2>2 DEF UpdateInv, ReadInv, UpdatesOf
    <2> QED BY <1>1, <2>2, <2>3, QuietPreserves
<1>6. CASE ReadRedis(h) /\ redis[p] # None
    <2>1. redis[p] \in Presences /\ Face(redis[p]) \in doubt[p]
        BY <1>2, <1>6 DEF StoreInv, PresenceTypeOK, StoredInv
    <2>2. \A saw : saw = redis[p] => AnswerWith(h, "presence", [job[h] EXCEPT !.saw = saw])
        BY <1>6 DEF ReadRedis
    <2> QED BY <1>4, <2>1, <2>2
<1>7. CASE ReadPostgres(h)
    <2>1. pg[p] \in Presences /\ Face(pg[p]) \in doubt[p]
        BY <1>2 DEF StoreInv, PresenceTypeOK, StoredInv
    <2>2. \A saw : saw = pg[p] => AnswerWith(h, "presence", [job[h] EXCEPT !.saw = saw])
        BY <1>7 DEF ReadPostgres
    <2> QED BY <1>4, <2>1, <2>2
<1> QED BY <1>5, <1>6, <1>7

\* A reader begins with the doubts of the moment.
LEMMA GetBeginsPreserves ==
    ASSUME StoreInv, NEW h \in Handlers, NEW p \in Players, GetBegins(h, p) PROVE StoreInv'
<1> DEFINE request == [op |-> "get", user |-> p, saw |-> None]
<1>1. /\ pc[h] = "idle"
      /\ pc' = [pc EXCEPT ![h] = "cache"] /\ job' = [job EXCEPT ![h] = request]
      /\ ans' = [ans EXCEPT ![h] = ans[h]]
    BY DEF GetBegins, Begin, StoreInv
<1>2. /\ InPlace /\ Moves(h) /\ pc'[h] = "cache" /\ job'[h] = request
    BY <1>1, OneMoves DEF StoreQueries
<1>3. /\ redis' = redis /\ pg' = pg /\ friends' = friends /\ linked' = linked /\ told' = told
      /\ solo' = solo /\ doubt' = doubt /\ circle' = circle
      /\ span' = [span EXCEPT ![h] = doubt[p]]
    BY DEF GetBegins, presenceTables
<1>4. /\ span' \in [Handlers -> SUBSET Faces] /\ span'[h] = doubt[p]
      /\ \A g \in Handlers \ {h} : span'[g] = span[g]
    BY <1>3 DEF StoreInv, PresenceTypeOK
<1>5. PresenceTypeOK' /\ \A q \in Players : StoredInv(q)'
    BY <1>3, <1>4 DEF StoreInv, PresenceTypeOK, StoredInv
<1>6. request \in GetJob /\ request.op = "get" /\ request.user = p
    BY DEF GetJob
<1> HIDE DEF request
<1>7. ASSUME NEW g \in Handlers
      PROVE  UpdateInv(g)' /\ ReadInv(g)' /\ (pc'[g] = "idle" => job'[g].op = "none")
    <2>1. CASE g = h
        BY <1>2, <1>3, <1>4, <1>6, <2>1 DEF UpdateInv, ReadInv
    <2>2. CASE g # h
        <3>1. pc'[g] = pc[g] /\ job'[g] = job[g] /\ span'[g] = span[g]
            BY <1>2, <1>4, <2>2 DEF Moves
        <3> QED BY <1>3, <3>1 DEF StoreInv, UpdateInv, ReadInv
    <2> QED BY <2>1, <2>2
<1>8. ASSUME NEW q \in Players, NEW g \in Handlers, solo'[q] = g PROVE AloneInv(q, g)'
    <2>1. AloneInv(q, g) /\ solo[q] = g /\ g # h
        BY <1>1, <1>3, <1>8 DEF StoreInv, AloneInv
    <2>2. UpdatesOf(q)' \subseteq UpdatesOf(q)
        BY <1>2, <1>6, OtherUpdates DEF UpdatesOf
    <2>3. pc'[g] = pc[g] /\ job'[g] = job[g]
        BY <1>2, <2>1 DEF Moves
    <2> QED BY <1>3, <2>1, <2>2, <2>3 DEF AloneInv
<1>9. \A q \in Players, g \in Handlers : AloneInv(q, g)'
    BY <1>8 DEF AloneInv
<1> QED BY <1>2, <1>5, <1>7, <1>9 DEF StoreInv, InPlace

-----------------------------------------------------------------------------
(* Updates. *)

\* An update begins: its value is in doubt from now on, and it runs alone or
\* nobody does.
LEMMA SetBeginsPreserves ==
    ASSUME StoreInv, NEW h \in Handlers, NEW p \in Players, NEW v \in Presences,
           SetBegins(h, p, v)
    PROVE  StoreInv'
<1> DEFINE request == [op |-> "set", user |-> p, value |-> v, audience |-> {}]
<1>1. /\ pc[h] = "idle"
      /\ pc' = [pc EXCEPT ![h] = "redis"] /\ job' = [job EXCEPT ![h] = request]
      /\ ans' = [ans EXCEPT ![h] = ans[h]]
    BY DEF SetBegins, Begin, StoreInv
<1>2. /\ InPlace /\ Moves(h) /\ pc'[h] = "redis" /\ job'[h] = request
    BY <1>1, OneMoves DEF StoreQueries
<1>3. /\ redis' = redis /\ pg' = pg /\ friends' = friends /\ linked' = linked /\ told' = told
      /\ doubt' = [doubt EXCEPT ![p] = doubt[p] \cup {Face(v)}]
      /\ span' = [g \in Handlers |-> IF ReadsOf(g, p) THEN span[g] \cup {Face(v)} ELSE span[g]]
      /\ \/ /\ UpdatesOf(p) = {} /\ solo' = [solo EXCEPT ![p] = h]
            /\ circle' = [circle EXCEPT ![p] = friends[p]]
         \/ /\ UpdatesOf(p) # {} /\ solo' = [solo EXCEPT ![p] = None] /\ circle' = circle
    BY DEF SetBegins, Doubt, presenceTables
<1>4. /\ doubt'[p] = doubt[p] \cup {Face(v)}
      /\ \A q \in Players \ {p} : /\ doubt'[q] = doubt[q] /\ solo'[q] = solo[q]
                                  /\ circle'[q] = circle[q]
      /\ \A g \in Handlers : span[g] \subseteq span'[g]
      /\ \A g \in Handlers : ReadsOf(g, p) => Face(v) \in span'[g]
    BY <1>3 DEF StoreInv, PresenceTypeOK
<1>5. PresenceTypeOK'
    <2>1. doubt' \in [Players -> SUBSET Faces] /\ span' \in [Handlers -> SUBSET Faces]
        BY <1>3, FaceType DEF StoreInv, PresenceTypeOK
    <2>2. solo' \in [Players -> Handlers \cup {None}] /\ circle' \in [Players -> SUBSET Users]
        BY <1>3 DEF StoreInv, PresenceTypeOK
    <2> QED BY <1>3, <2>1, <2>2 DEF StoreInv, PresenceTypeOK
<1>6. ASSUME NEW q \in Players PROVE StoredInv(q)'
    <2>1. StoredInv(q) /\ doubt[q] \subseteq doubt'[q]
        BY <1>4 DEF StoreInv
    <2>2. friends[q] \subseteq circle'[q]
        BY <1>3, <1>4, <2>1 DEF StoreInv, PresenceTypeOK, StoredInv
    <2> QED BY <1>3, <2>1, <2>2 DEF StoredInv
<1>7. /\ request \in SetJob /\ request.op = "set" /\ request.user = p /\ request.value = v
      /\ request.audience = {}
    BY DEF SetJob
<1> HIDE DEF request
<1>8. ASSUME NEW g \in Handlers
      PROVE  UpdateInv(g)' /\ ReadInv(g)' /\ (pc'[g] = "idle" => job'[g].op = "none")
    <2>1. CASE g = h
        BY <1>2, <1>4, <1>7, <2>1 DEF UpdateInv, ReadInv
    <2>2. CASE g # h
        <3>1. pc'[g] = pc[g] /\ job'[g] = job[g]
            BY <1>2, <2>2 DEF Moves
        <3>2. UpdateInv(g)'
            <4> SUFFICES ASSUME job[g].op = "set" PROVE UpdateInv(g)'
                BY <3>1 DEF UpdateInv
            <4>1. UpdateInv(g) /\ job[g].user \in Players
                BY DEF StoreInv, UpdateInv, SetJob
            <4>2. circle'[job[g].user] = circle[job[g].user]
                BY <1>3, <1>4, <4>1, UpdatesAreJobs
            <4> QED BY <1>4, <3>1, <4>1, <4>2 DEF UpdateInv
        <3>3. ReadInv(g)'
            <4> SUFFICES ASSUME job[g].op = "get" PROVE ReadInv(g)'
                BY <3>1 DEF ReadInv
            <4>1. ReadInv(g) /\ job[g].user \in Players
                BY DEF StoreInv, ReadInv, GetJob
            <4>2. ASSUME pc[g] # "done" PROVE doubt'[job[g].user] \subseteq span'[g]
                <5>1. job[g].user = p => ReadsOf(g, p)
                    BY <4>1, <4>2 DEF ReadInv, ReadsOf, Live
                <5> QED BY <1>4, <4>1, <4>2, <5>1 DEF ReadInv
            <4> QED BY <1>4, <3>1, <4>1, <4>2 DEF ReadInv
        <3> QED BY <3>1, <3>2, <3>3 DEF StoreInv
    <2> QED BY <2>1, <2>2
<1>9. ASSUME NEW q \in Players, NEW g \in Handlers, solo'[q] = g PROVE AloneInv(q, g)'
    <2>1. CASE q = p
        <3>1. UpdatesOf(p) = {} /\ g = h
            BY <1>3, <1>9, <2>1, NullAssumption DEF StoreInv, PresenceTypeOK
        <3>2. UpdatesOf(p)' \subseteq {h}
            BY <1>2, <3>1, OtherUpdates DEF UpdatesOf
        <3> QED BY <1>2, <2>1, <3>1, <3>2 DEF AloneInv
    <2>2. CASE q # p
        <3>1. AloneInv(q, g) /\ solo[q] = g /\ g # h
            BY <1>1, <1>4, <1>9, <2>2 DEF StoreInv, AloneInv
        <3>2. UpdatesOf(q)' \subseteq UpdatesOf(q)
            BY <1>2, <1>7, <2>2, OtherUpdates DEF UpdatesOf
        <3>3. pc'[g] = pc[g] /\ job'[g] = job[g]
            BY <1>2, <3>1 DEF Moves
        <3> QED BY <1>3, <3>1, <3>2, <3>3 DEF AloneInv
    <2> QED BY <2>1, <2>2
<1>10. \A q \in Players, g \in Handlers : AloneInv(q, g)'
    BY <1>9 DEF AloneInv
<1> QED BY <1>2, <1>5, <1>6, <1>8, <1>10 DEF StoreInv, InPlace

LEMMA IngestBeginsPreserves ==
    ASSUME StoreInv, NEW h \in Handlers, NEW p \in Players, NEW v \in Presences,
           IngestBegins(h, p, v)
    PROVE  StoreInv'
<1>1. DiscordPayload(v) \in Presences
    BY OfflineIsPresence DEF DiscordPayload
<1>2. \A w : w = DiscordPayload(v) => SetBegins(h, p, w)
    BY DEF IngestBegins
<1> QED BY <1>1, <1>2, SetBeginsPreserves

\* The value of the update is in doubt, so Redis may hold it.
LEMMA WriteRedisPreserves ==
    ASSUME StoreInv, NEW h \in Handlers, WriteRedis(h) PROVE StoreInv'
<1> DEFINE p == job[h].user
           v == job[h].value
<1>1. /\ pc[h] = "redis" /\ job[h].op = "set"
      /\ pc' = [pc EXCEPT ![h] = "postgres"] /\ job' = [job EXCEPT ![h] = job[h]]
      /\ ans' = [ans EXCEPT ![h] = ans[h]]
      /\ redis' = [redis EXCEPT ![p] = v]
      /\ pg' = pg /\ friends' = friends /\ linked' = linked /\ told' = told
      /\ solo' = solo /\ doubt' = doubt /\ span' = span /\ circle' = circle
    BY DEF WriteRedis, At, Await, StoreInv, presenceHistory
<1>2. /\ UpdateInv(h) /\ p \in Players /\ v \in Presences /\ Face(v) \in doubt[p]
    BY <1>1 DEF StoreInv, UpdateInv, SetJob
<1>3. InPlace /\ Moves(h) /\ pc'[h] = "postgres" /\ job'[h] = job[h]
    BY <1>1, OneMoves DEF StoreQueries
<1>4. /\ redis' \in [Players -> Presences \cup {None}] /\ redis'[p] = v
      /\ \A q \in Players \ {p} : redis'[q] = redis[q]
    BY <1>1, <1>2 DEF StoreInv, PresenceTypeOK
<1>5. PresenceTypeOK'
    BY <1>1, <1>4 DEF StoreInv, PresenceTypeOK
<1>6. \A q \in Players : StoredInv(q)'
    BY <1>1, <1>2, <1>4 DEF StoreInv, StoredInv
<1>7. ASSUME NEW g \in Handlers
      PROVE  UpdateInv(g)' /\ ReadInv(g)' /\ (pc'[g] = "idle" => job'[g].op = "none")
    BY <1>1, <1>2, <1>3 DEF StoreInv, Moves, UpdateInv, ReadInv
<1>8. ASSUME NEW q \in Players, NEW g \in Handlers, solo'[q] = g PROVE AloneInv(q, g)'
    <2>1. AloneInv(q, g) /\ solo[q] = g
        BY <1>1, <1>8 DEF StoreInv
    <2>2. UpdatesOf(q)' = UpdatesOf(q)
        <3>1. h \in UpdatesOf(q)' <=> h \in UpdatesOf(q)
            BY <1>1, <1>3 DEF UpdatesOf, Live
        <3>2. UpdatesOf(q) \subseteq Handlers /\ UpdatesOf(q)' \subseteq Handlers
            BY DEF UpdatesOf
        <3> QED BY <1>3, <3>1, <3>2, OtherUpdates
    <2>3. h \in UpdatesOf(p)
        BY <1>1, <1>2, UpdatesAreJobs
    <2>4. CASE g = h
        \* Who runs alone and is in flight writes its own player.
        <3>1. h \in UpdatesOf(q) => q = p
            BY <1>2, UpdatesAreJobs
        <3> QED BY <1>3, <1>4, <2>1, <2>2, <2>4, <3>1 DEF AloneInv
    <2>5. CASE g # h
        <3>1. q # p
            BY <2>1, <2>3, <2>5 DEF AloneInv
        <3>2. pc'[g] = pc[g] /\ job'[g] = job[g]
            BY <1>3, <2>5 DEF Moves
        <3> QED BY <1>4, <2>1, <2>2, <3>1, <3>2 DEF AloneInv
    <2> QED BY <2>4, <2>5
<1>9. \A q \in Players, g \in Handlers : AloneInv(q, g)'
    BY <1>8 DEF AloneInv
<1> QED BY <1>3, <1>5, <1>6, <1>7, <1>9 DEF StoreInv, InPlace

\* An update that ran alone leaves one doubt, which is what both stores hold.
LEMMA WritePostgresPreserves ==
    ASSUME StoreInv, NEW h \in Handlers, WritePostgres(h) PROVE StoreInv'
<1> DEFINE p == job[h].user
           v == job[h].value
<1>1. /\ pc[h] = "postgres" /\ job[h].op = "set"
      /\ pc' = [pc EXCEPT ![h] = "friends"] /\ job' = [job EXCEPT ![h] = job[h]]
      /\ ans' = [ans EXCEPT ![h] = ans[h]]
      /\ pg' = [pg EXCEPT ![p] = Upserted(pg[p], v)]
      /\ doubt' = IF solo[p] = h THEN [doubt EXCEPT ![p] = {Face(v)}] ELSE doubt
      /\ redis' = redis /\ friends' = friends /\ linked' = linked /\ told' = told
      /\ solo' = solo /\ span' = span /\ circle' = circle
    BY DEF WritePostgres, At, Await, StoreInv
<1>2. /\ UpdateInv(h) /\ p \in Players /\ v \in Presences /\ Face(v) \in doubt[p]
      /\ h \in UpdatesOf(p)
    BY <1>1, UpdatesAreJobs DEF StoreInv, UpdateInv, SetJob
<1>3. InPlace /\ Moves(h) /\ pc'[h] = "friends" /\ job'[h] = job[h]
    BY <1>1, OneMoves DEF StoreQueries
<1>4. /\ pg' \in [Players -> Presences] /\ Face(pg'[p]) = Face(v)
      /\ \A q \in Players \ {p} : pg'[q] = pg[q]
    BY <1>1, <1>2, UpsertKeepsFace DEF StoreInv, PresenceTypeOK
<1>5. /\ doubt' \in [Players -> SUBSET Faces] /\ Face(v) \in doubt'[p]
      /\ \A q \in Players : doubt'[q] \subseteq doubt[q]
      /\ \A q \in Players \ {p} : doubt'[q] = doubt[q]
      /\ solo[p] # h => doubt' = doubt
    BY <1>1, <1>2, FaceType DEF StoreInv, PresenceTypeOK
<1>6. PresenceTypeOK'
    BY <1>1, <1>4, <1>5 DEF StoreInv, PresenceTypeOK
<1>7. solo[p] = h => UpdatesOf(p) \subseteq {h} /\ (redis[p] # None => Face(redis[p]) = Face(v))
    BY <1>1, <1>2 DEF StoreInv, AloneInv
<1>8. ASSUME NEW q \in Players PROVE StoredInv(q)'
    <2>1. StoredInv(q)
        BY DEF StoreInv
    <2>2. CASE q = p
        BY <1>1, <1>4, <1>5, <1>7, <2>1, <2>2 DEF StoredInv
    <2>3. CASE q # p
        BY <1>1, <1>4, <1>5, <2>1, <2>3 DEF StoredInv
    <2> QED BY <2>2, <2>3
<1>9. ASSUME NEW g \in Handlers
      PROVE  UpdateInv(g)' /\ ReadInv(g)' /\ (pc'[g] = "idle" => job'[g].op = "none")
    <2>1. job'[g] = job[g] /\ (pc'[g] = pc[g] \/ g = h)
        BY <1>3 DEF Moves
    <2>2. UpdateInv(g)'
        <3> SUFFICES ASSUME job[g].op = "set" PROVE UpdateInv(g)'
            BY <2>1 DEF UpdateInv
        <3>1. UpdateInv(g) /\ job[g].user \in Players
            BY DEF StoreInv, UpdateInv, SetJob
        <3>2. Face(job[g].value) \in doubt'[job[g].user]
            <4>1. CASE g = h
                BY <1>5, <4>1
            <4>2. CASE g # h
                <5>1. job[g].user = p => solo[p] # h
                    BY <1>7, <3>1, <4>2, UpdatesAreJobs
                <5> QED BY <1>5, <3>1, <5>1 DEF UpdateInv
            <4> QED BY <4>1, <4>2
        <3> QED BY <1>1, <1>3, <2>1, <3>1, <3>2 DEF UpdateInv
    <2>3. ReadInv(g)'
        <3> SUFFICES ASSUME job[g].op = "get" PROVE ReadInv(g)'
            BY <2>1 DEF ReadInv
        <3>1. ReadInv(g) /\ job[g].user \in Players /\ g # h
            BY <1>1 DEF StoreInv, ReadInv, GetJob
        <3> QED BY <1>1, <1>5, <2>1, <3>1 DEF ReadInv
    <2>4. pc'[g] = "idle" => job'[g].op = "none"
        BY <1>3, <2>1 DEF StoreInv
    <2> QED BY <2>2, <2>3, <2>4
<1>10. ASSUME NEW q \in Players, NEW g \in Handlers, solo'[q] = g PROVE AloneInv(q, g)'
    <2>1. AloneInv(q, g) /\ solo[q] = g
        BY <1>1, <1>10 DEF StoreInv
    <2>2. UpdatesOf(q)' \subseteq UpdatesOf(q)
        BY <1>1, <1>3, OtherUpdates DEF UpdatesOf, Live
    <2>3. CASE g = h
        BY <1>3, <2>1, <2>2, <2>3 DEF AloneInv
    <2>4. CASE g # h
        <3>1. pc'[g] = pc[g] /\ job'[g] = job[g]
            BY <1>3, <2>4 DEF Moves
        <3> QED BY <1>1, <2>1, <2>2, <3>1 DEF AloneInv
    <2> QED BY <2>3, <2>4
<1>11. \A q \in Players, g \in Handlers : AloneInv(q, g)'
    BY <1>10 DEF AloneInv
<1> QED BY <1>3, <1>6, <1>8, <1>9, <1>11 DEF StoreInv, InPlace

LEMMA PublishPreserves ==
    ASSUME StoreInv, NEW h \in Handlers, Publish(h) PROVE StoreInv'
<1> DEFINE p == job[h].user
           v == job[h].value
<1>1. /\ pc[h] = "publish" /\ job[h].op = "set"
      /\ pc' = [pc EXCEPT ![h] = "done"] /\ job' = [job EXCEPT ![h] = [op |-> "none"]]
      /\ ans' = [ans EXCEPT ![h] = ans[h]]
      /\ told' = [u \in Users |-> IF u \in job[h].audience \ {p}
                                  THEN [told[u] EXCEPT ![p] = v] ELSE told[u]]
      /\ redis' = redis /\ pg' = pg /\ friends' = friends /\ linked' = linked
      /\ solo' = solo /\ doubt' = doubt /\ span' = span /\ circle' = circle
    BY DEF Publish, At, End, StoreInv, presenceHistory
<1>2. p \in Players /\ v \in Presences
    BY <1>1 DEF StoreInv, UpdateInv, SetJob
<1>3. InPlace /\ Moves(h) /\ pc'[h] = "done" /\ job'[h] = [op |-> "none"]
    BY <1>1, OneMoves DEF StoreQueries
<1>4. PresenceTypeOK'
    <2>1. told' \in [Users -> [Players -> Presences \cup {None}]]
        BY <1>1, <1>2 DEF StoreInv, PresenceTypeOK
    <2> QED BY <1>1, <2>1 DEF StoreInv, PresenceTypeOK
<1>5. \A q \in Players : StoredInv(q)'
    BY <1>1 DEF StoreInv, StoredInv
<1>6. ASSUME NEW g \in Handlers
      PROVE  UpdateInv(g)' /\ ReadInv(g)' /\ (pc'[g] = "idle" => job'[g].op = "none")
    <2>1. CASE g = h
        BY <1>3, <2>1 DEF UpdateInv, ReadInv
    <2>2. CASE g # h
        BY <1>1, <1>3, <2>2 DEF StoreInv, Moves, UpdateInv, ReadInv
    <2> QED BY <2>1, <2>2
<1>7. ASSUME NEW q \in Players, NEW g \in Handlers, solo'[q] = g PROVE AloneInv(q, g)'
    <2>1. AloneInv(q, g) /\ solo[q] = g
        BY <1>1, <1>7 DEF StoreInv
    <2>2. UpdatesOf(q)' \subseteq UpdatesOf(q)
        BY <1>3, OtherUpdates DEF UpdatesOf
    <2>3. CASE g = h
        BY <1>3, <2>1, <2>2, <2>3 DEF AloneInv
    <2>4. CASE g # h
        <3>1. pc'[g] = pc[g] /\ job'[g] = job[g]
            BY <1>3, <2>4 DEF Moves
        <3> QED BY <1>1, <2>1, <2>2, <3>1 DEF AloneInv
    <2> QED BY <2>3, <2>4
<1>8. \A q \in Players, g \in Handlers : AloneInv(q, g)'
    BY <1>7 DEF AloneInv
<1> QED BY <1>3, <1>4, <1>5, <1>6, <1>8 DEF StoreInv, InPlace

\* Redis forgets, friendships change, Discord is unlinked: no handler moves.
LEMMA TablesPreserve ==
    ASSUME StoreInv, NEW p \in Players, NEW u \in Users,
           Lapse(p) \/ Unlink(p) \/ Befriend(p, u) \/ Unfriend(p, u)
    PROVE  StoreInv'
<1>1. /\ pc' = pc /\ job' = job /\ ans' = ans /\ pg' = pg /\ told' = told
      /\ solo' = solo /\ doubt' = doubt /\ span' = span
      /\ linked' \subseteq linked
      /\ redis' = redis \/ redis' = [redis EXCEPT ![p] = None]
      /\ \/ friends' = friends /\ circle' = circle
         \/ friends' = [friends EXCEPT ![p] = friends[p] \ {u}] /\ circle' = circle
         \/ /\ friends' = [friends EXCEPT ![p] = friends[p] \cup {u}]
            /\ circle' = [circle EXCEPT ![p] = circle[p] \cup {u}]
    BY DEF Lapse, Unlink, Befriend, Unfriend, handlerVars, presenceHistory
<1>2. PresenceTypeOK'
    <2>1. redis' \in [Players -> Presences \cup {None}]
        BY <1>1 DEF StoreInv, PresenceTypeOK
    <2>2. friends' \in [Players -> SUBSET Users] /\ circle' \in [Players -> SUBSET Users]
        BY <1>1 DEF StoreInv, PresenceTypeOK
    <2> QED BY <1>1, <2>1, <2>2 DEF StoreInv, PresenceTypeOK
<1>3. \A q \in Players : /\ redis'[q] = redis[q] \/ redis'[q] = None
                         /\ circle[q] \subseteq circle'[q]
    BY <1>1 DEF StoreInv, PresenceTypeOK
<1>4. ASSUME NEW q \in Players PROVE StoredInv(q)'
    <2>1. StoredInv(q)
        BY DEF StoreInv
    <2>2. friends'[q] \subseteq circle'[q]
        BY <1>1, <2>1 DEF StoreInv, PresenceTypeOK, StoredInv
    <2> QED BY <1>1, <1>3, <2>1, <2>2 DEF StoredInv
<1>5. ASSUME NEW g \in Handlers PROVE UpdateInv(g)' /\ ReadInv(g)'
    <2>1. UpdateInv(g) /\ ReadInv(g) /\ (job[g].op = "set" => job[g].user \in Players)
        BY DEF StoreInv, UpdateInv, SetJob
    <2> QED BY <1>1, <1>3, <2>1 DEF UpdateInv, ReadInv
<1>6. \A q \in Players, g \in Handlers : AloneInv(q, g)'
    BY <1>1, <1>3 DEF StoreInv, AloneInv, UpdatesOf, Live
<1> QED BY <1>1, <1>2, <1>4, <1>5, <1>6 DEF StoreInv

LEMMA StoreSteps ==
    StoreInv /\ [PresenceNext]_<<handlerVars, presenceVars>> => StoreInv'
<1> SUFFICES ASSUME StoreInv, [PresenceNext]_<<handlerVars, presenceVars>> PROVE StoreInv'
    OBVIOUS
<1>1. CASE UNCHANGED <<handlerVars, presenceVars>>
    BY <1>1 DEF handlerVars, presenceVars, presenceTables, presenceHistory, StoreInv,
                PresenceTypeOK, UpdateInv, ReadInv, StoredInv, AloneInv, UpdatesOf, Live
<1>2. ASSUME NEW h \in Handlers, NEW p \in Players, GetBegins(h, p) PROVE StoreInv'
    BY <1>2, GetBeginsPreserves
<1>3. ASSUME NEW h \in Handlers, NEW p \in Players, NEW v \in Updates,
             SetBegins(h, p, v) \/ IngestBegins(h, p, v)
      PROVE  StoreInv'
    BY <1>3, UpdatesAssumption, SetBeginsPreserves, IngestBeginsPreserves
<1>4. ASSUME NEW h \in Handlers, WriteRedis(h) PROVE StoreInv'
    BY <1>4, WriteRedisPreserves
<1>5. ASSUME NEW h \in Handlers, WritePostgres(h) PROVE StoreInv'
    BY <1>5, WritePostgresPreserves
<1>6. ASSUME NEW h \in Handlers, FindFriends(h) PROVE StoreInv'
    BY <1>6, FindFriendsPreserves
<1>7. ASSUME NEW h \in Handlers, Publish(h) PROVE StoreInv'
    BY <1>7, PublishPreserves
<1>8. ASSUME NEW h \in Handlers, ReadRedis(h) \/ ReadPostgres(h) PROVE StoreInv'
    BY <1>8, StoreReads
<1>9. ASSUME NEW h \in Handlers, QueryFails(h, {}), UNCHANGED presenceVars PROVE StoreInv'
    BY <1>9, FailPreserves
<1>10. ASSUME NEW p \in Players, Lapse(p) \/ Unlink(p) PROVE StoreInv'
    BY <1>10, PlayersAssumption, TablesPreserve
<1>11. ASSUME NEW p \in Players, NEW u \in Users, Befriend(p, u) \/ Unfriend(p, u)
       PROVE  StoreInv'
    BY <1>11, TablesPreserve
<1> QED BY <1>1, <1>2, <1>3, <1>4, <1>5, <1>6, <1>7, <1>8, <1>9, <1>10, <1>11 DEF PresenceNext

-----------------------------------------------------------------------------
(* Reads. *)

AnswersInv == \A h \in Handlers : ans[h] # None => pc[h] = "done"

\* Only a handler that is done has answered.
LEMMA StepAnswers ==
    StoreInv /\ AnswersInv /\ [PresenceNext]_<<handlerVars, presenceVars>> => AnswersInv'
<1> SUFFICES ASSUME StoreInv, AnswersInv, [PresenceNext]_<<handlerVars, presenceVars>>
             PROVE  AnswersInv'
    OBVIOUS
<1>1. CASE pc' = pc /\ ans' = ans
    BY <1>1 DEF AnswersInv
<1>2. ASSUME NEW h \in Handlers, pc[h] # "done",
             \/ (\E query : pc' = [pc EXCEPT ![h] = query]) /\ ans' = ans
             \/ \E answer : /\ pc' = [pc EXCEPT ![h] = "done"]
                            /\ ans' = [ans EXCEPT ![h] = answer]
      PROVE  AnswersInv'
    BY <1>2 DEF StoreInv, AnswersInv
<1>3. CASE UNCHANGED <<handlerVars, presenceVars>>
    BY <1>1, <1>3 DEF handlerVars
<1>4. ASSUME NEW h \in Handlers, NEW p \in Players, GetBegins(h, p) PROVE AnswersInv'
    BY <1>2, <1>4 DEF GetBegins, Begin
<1>5. ASSUME NEW h \in Handlers, NEW p \in Players, NEW v \in Updates,
             SetBegins(h, p, v) \/ IngestBegins(h, p, v)
      PROVE  AnswersInv'
    BY <1>2, <1>5 DEF IngestBegins, SetBegins, Begin
<1>6. ASSUME NEW h \in Handlers,
             \/ WriteRedis(h) \/ WritePostgres(h) \/ FindFriends(h) \/ Publish(h)
             \/ ReadRedis(h) \/ ReadPostgres(h)
      PROVE  AnswersInv'
    BY <1>2, <1>6 DEF WriteRedis, WritePostgres, FindFriends, Publish, ReadRedis, ReadPostgres,
                      At, Await, AwaitWith, End, AnswerWith
<1>7. ASSUME NEW h \in Handlers, QueryFails(h, {}) PROVE AnswersInv'
    BY <1>2, <1>7 DEF QueryFails, Live, End
<1>8. ASSUME NEW p \in Players, NEW u,
             Lapse(p) \/ Unlink(p) \/ Befriend(p, u) \/ Unfriend(p, u)
      PROVE  AnswersInv'
    BY <1>1, <1>8 DEF Lapse, Unlink, Befriend, Unfriend, handlerVars
<1> QED BY <1>3, <1>4, <1>5, <1>6, <1>7, <1>8 DEF PresenceNext

(* For every number of players, friends and handlers: a read of a          *)
(* presence (GET /presence/:userId over presence.repository.ts) answers    *)
(* one that was in doubt while it waited, also when it falls back from     *)
(* Redis to Postgres and updates come in between.                          *)
THEOREM ReadsRegular == PresenceSpec => []ReadsAreRegular
<1>1. HandlersInit /\ PresenceInit => AnswersInv
    BY DEF HandlersInit, AnswersInv
<1>2. StoreInv /\ AnswersInv => ReadsAreRegular
    BY DEF StoreInv, AnswersInv, ReadInv, ReadsAreRegular, Answered
<1> QED BY <1>1, <1>2, StoreBegins, StoreSteps, StepAnswers, PTL DEF PresenceSpec

-----------------------------------------------------------------------------
(* The refinement. *)

Now == [p \in Players |-> Face(Stored(p))]

LEMMA StoredType ==
    ASSUME StoreInv, NEW p \in Players
    PROVE  Stored(p) \in Presences /\ Face(Stored(p)) \in Faces /\ Face(Stored(p)) \in doubt[p]
BY FaceType DEF StoreInv, PresenceTypeOK, StoredInv, Stored

\* Steps that touch the presence of one player, or of none.
LEMMA NowMoves ==
    ASSUME NEW p \in Players,
           \A q \in Players \ {p} : redis'[q] = redis[q] /\ pg'[q] = pg[q]
    PROVE  Now' = [Now EXCEPT ![p] = Now'[p]] /\ Now'[p] = Face(Stored(p))'
BY DEF Now, Stored

LEMMA NowStays == redis' = redis /\ pg' = pg => Now' = Now
BY DEF Now, Stored

LEMMA ToldStays == told' = told => ToldFaces' = ToldFaces
BY DEF ToldFaces

\* The actions of the atomic presence under the mapping.
LEMMA Mapped ==
    ASSUME NEW p \in Players
    PROVE  /\ UNCHANGED <<Now, ToldFaces, doubt, circle>> => UNCHANGED Shown!vars
           /\ Shown!Update(p) \/ Shown!Move(p) \/ Shown!Settle(p) \/ Shown!Announce(p)
                => Shown!Next
           /\ \A u \in Users : Shown!Befriend(p, u) => Shown!Next
BY DEF Shown!vars, Shown!Next, Now

LEMMA UpdateMaps ==
    ASSUME StoreInv, NEW h \in Handlers, NEW p \in Players, NEW v \in Presences,
           SetBegins(h, p, v)
    PROVE  Shown!Next
<1>1. /\ redis' = redis /\ pg' = pg /\ told' = told
      /\ doubt' = [doubt EXCEPT ![p] = doubt[p] \cup {Face(v)}]
      /\ circle' = [circle EXCEPT ![p] = friends[p]] \/ circle' = circle
    BY DEF SetBegins, Doubt, presenceTables
<1>2. Now' = Now /\ ToldFaces' = ToldFaces
    BY <1>1, NowStays, ToldStays
<1>3. friends[p] \in SUBSET circle[p]
    BY DEF StoreInv, StoredInv
<1>4. \E U \in SUBSET circle[p] : circle' = [circle EXCEPT ![p] = U]
    <2>1. CASE circle' = [circle EXCEPT ![p] = friends[p]]
        BY <1>3, <2>1
    <2>2. CASE circle' = circle
        <3>1. circle = [circle EXCEPT ![p] = circle[p]]
            BY DEF StoreInv, PresenceTypeOK
        <3> QED BY <2>2, <3>1
    <2> QED BY <1>1, <2>1, <2>2
<1>5. Shown!Update(p)
    BY <1>1, <1>2, <1>4, FaceType DEF Shown!Update, Now
<1> QED BY <1>5, Mapped

\* A write lands, or Redis forgets: what is shown stays in doubt.
LEMMA MoveMaps ==
    ASSUME StoreInv, NEW p \in Players,
           \A q \in Players \ {p} : redis'[q] = redis[q] /\ pg'[q] = pg[q],
           Face(Stored(p))' \in doubt[p], told' = told, circle' = circle,
           \/ doubt' = doubt
           \/ doubt' = [doubt EXCEPT ![p] = {Face(Stored(p))'}]
    PROVE  Shown!Next
<1>1. /\ Now' = [Now EXCEPT ![p] = Now'[p]] /\ Now'[p] = Face(Stored(p))'
      /\ ToldFaces' = ToldFaces
    BY NowMoves, ToldStays
<1>2. CASE doubt' = doubt
    <2>1. Shown!Move(p)
        BY <1>1, <1>2 DEF Shown!Move, Now
    <2> QED BY <2>1, Mapped
<1>3. CASE doubt' = [doubt EXCEPT ![p] = {Face(Stored(p))'}]
    <2>1. Shown!Settle(p)
        BY <1>1, <1>3 DEF Shown!Settle, Now
    <2> QED BY <2>1, Mapped
<1> QED BY <1>2, <1>3

LEMMA WriteMaps ==
    ASSUME StoreInv, StoreInv', NEW h \in Handlers, WriteRedis(h) \/ WritePostgres(h)
    PROVE  Shown!Next
<1>1. pc[h] \in {"redis", "postgres"} /\ job[h].op = "set" /\ told' = told /\ circle' = circle
    BY DEF WriteRedis, WritePostgres, At, presenceHistory
<1>2. PICK p \in Players, v \in Presences :
        /\ p = job[h].user /\ v = job[h].value /\ Face(v) \in doubt[p] /\ h \in UpdatesOf(p)
    <2>1. UpdateInv(h) /\ job[h].user \in Players /\ job[h].value \in Presences
        BY <1>1 DEF StoreInv, UpdateInv, SetJob
    <2> QED BY <1>1, <2>1, UpdatesAreJobs DEF UpdateInv
<1>3. CASE WriteRedis(h)
    <2>1. /\ redis' = [redis EXCEPT ![p] = v] /\ pg' = pg /\ doubt' = doubt
        BY <1>2, <1>3 DEF WriteRedis, presenceHistory
    <2>2. Stored(p)' = v
        BY <1>2, <2>1, NullAssumption DEF StoreInv, PresenceTypeOK, Stored
    <2>3. \A q \in Players \ {p} : redis'[q] = redis[q] /\ pg'[q] = pg[q]
        BY <2>1 DEF StoreInv, PresenceTypeOK
    <2>4. Face(Stored(p))' \in doubt[p]
        BY <1>2, <2>2 DEF Face
    <2> QED BY <1>1, <2>1, <2>3, <2>4, MoveMaps
<1>4. CASE WritePostgres(h)
    <2>1. /\ redis' = redis /\ pg' = [pg EXCEPT ![p] = Upserted(pg[p], v)]
          /\ doubt' = IF solo[p] = h THEN [doubt EXCEPT ![p] = {Face(v)}] ELSE doubt
          /\ pc[h] = "postgres"
        BY <1>2, <1>4 DEF WritePostgres, At
    <2>2. \A q \in Players \ {p} : redis'[q] = redis[q] /\ pg'[q] = pg[q]
        BY <2>1 DEF StoreInv, PresenceTypeOK
    <2>3. Face(pg'[p]) = Face(v) /\ StoredInv(p)
        BY <1>2, <2>1, UpsertKeepsFace DEF StoreInv, PresenceTypeOK
    <2>4. Face(Stored(p))' = IF redis[p] # None THEN Face(redis[p]) ELSE Face(v)
        BY <2>1, <2>3 DEF Stored, Face
    <2>5. Face(Stored(p))' \in doubt[p]
        BY <1>2, <2>3, <2>4 DEF StoredInv
    <2>6. solo[p] = h => Face(Stored(p))' = Face(v)
        BY <1>2, <2>1, <2>4 DEF StoreInv, AloneInv
    <2>7. doubt' = doubt \/ doubt' = [doubt EXCEPT ![p] = {Face(Stored(p))'}]
        BY <2>1, <2>6
    <2> QED BY <1>1, <1>2, <2>2, <2>5, <2>7, MoveMaps
<1> QED BY <1>3, <1>4

LEMMA LapseMaps ==
    ASSUME StoreInv, NEW p \in Players, Lapse(p) PROVE Shown!Next
<1>1. /\ redis' = [redis EXCEPT ![p] = None] /\ pg' = pg /\ told' = told /\ doubt' = doubt
      /\ circle' = circle
    BY DEF Lapse, presenceHistory
<1>2. Stored(p)' = pg[p]
    BY <1>1 DEF StoreInv, PresenceTypeOK, Stored
<1>3. Face(Stored(p))' \in doubt[p]
    BY <1>2 DEF StoreInv, StoredInv, Face
<1>4. \A q \in Players \ {p} : redis'[q] = redis[q] /\ pg'[q] = pg[q]
    BY <1>1 DEF StoreInv, PresenceTypeOK
<1> QED BY <1>1, <1>3, <1>4, MoveMaps

\* The recipients were friends while the update ran, and hear its value.
LEMMA AnnounceMaps ==
    ASSUME StoreInv, NEW h \in Handlers, Publish(h) PROVE Shown!Next
<1> DEFINE p == job[h].user
           v == job[h].value
           U == job[h].audience \ {p}
<1>1. /\ job[h].op = "set"
      /\ told' = [u \in Users |-> IF u \in U THEN [told[u] EXCEPT ![p] = v] ELSE told[u]]
      /\ redis' = redis /\ pg' = pg /\ doubt' = doubt /\ circle' = circle
    BY DEF Publish, At, presenceHistory
<1>2. /\ p \in Players /\ v \in Presences /\ v # None /\ Face(v) \in doubt[p]
      /\ U \in SUBSET circle[p]
    BY <1>1, NullAssumption DEF StoreInv, UpdateInv, SetJob
<1>3. Now' = Now
    BY <1>1, NowStays
<1>4. ToldFaces' = [u \in Users |-> IF u \in U THEN [ToldFaces[u] EXCEPT ![p] = Face(v)]
                                               ELSE ToldFaces[u]]
    <2>1. ASSUME NEW u \in Users
          PROVE  ToldFaces'[u] = IF u \in U THEN [ToldFaces[u] EXCEPT ![p] = Face(v)]
                                            ELSE ToldFaces[u]
        <3>1. /\ told'[u] = IF u \in U THEN [told[u] EXCEPT ![p] = v] ELSE told[u]
              /\ told[u] \in [Players -> Presences \cup {None}]
            BY <1>1 DEF StoreInv, PresenceTypeOK
        <3>2. /\ ToldFaces[u] = [q \in Players |-> IF told[u][q] = None THEN None
                                                   ELSE Face(told[u][q])]
              /\ ToldFaces'[u] = [q \in Players |-> IF told'[u][q] = None THEN None
                                                    ELSE Face(told'[u][q])]
            BY DEF ToldFaces, Face
        <3>3. CASE u \in U
            <4>1. told'[u][p] = v /\ \A q \in Players \ {p} : told'[u][q] = told[u][q]
                BY <1>2, <3>1, <3>3
            <4> QED BY <1>2, <3>2, <3>3, <4>1
        <3>4. CASE u \notin U
            BY <3>1, <3>2, <3>4
        <3> QED BY <3>3, <3>4
    <2>2. ToldFaces' = [u \in Users |-> ToldFaces'[u]]
        BY DEF ToldFaces
    <2> QED BY <2>1, <2>2
<1>5. Shown!Announce(p)
    BY <1>1, <1>2, <1>3, <1>4 DEF Shown!Announce, Now
<1> QED BY <1>2, <1>5, Mapped

LEMMA InitMaps == HandlersInit /\ PresenceInit => Shown!Init
<1> SUFFICES ASSUME PresenceInit PROVE Shown!Init
    OBVIOUS
<1>1. Now = [p \in Players |-> Face(Offline)] /\ Now \in [Players -> Faces]
    BY OfflineIsPresence, FaceType DEF PresenceInit, Now, Stored
<1>2. ToldFaces = [u \in Users |-> [p \in Players |-> None]]
    BY DEF PresenceInit, ToldFaces
<1>3. doubt = [p \in Players |-> {Now[p]}] /\ circle \in [Players -> SUBSET Users]
    BY <1>1 DEF PresenceInit
<1> QED BY <1>1, <1>2, <1>3 DEF Shown!Init, Now

\* Every step is one of the atomic presence, or changes nothing it speaks of.
LEMMA StepMaps ==
    StoreInv /\ StoreInv' /\ [PresenceNext]_<<handlerVars, presenceVars>>
        => [Shown!Next]_Shown!vars
<1> SUFFICES ASSUME StoreInv, StoreInv', [PresenceNext]_<<handlerVars, presenceVars>>
             PROVE  [Shown!Next]_Shown!vars
    OBVIOUS
<1>1. CASE redis' = redis /\ pg' = pg /\ told' = told /\ doubt' = doubt /\ circle' = circle
    <2>1. UNCHANGED <<Now, ToldFaces, doubt, circle>>
        BY <1>1, NowStays, ToldStays
    <2> QED BY <2>1 DEF Shown!vars, Now
<1>2. CASE UNCHANGED presenceVars
    BY <1>1, <1>2 DEF presenceVars, presenceTables, presenceHistory
<1>3. ASSUME NEW h \in Handlers, NEW p \in Players, GetBegins(h, p)
      PROVE  [Shown!Next]_Shown!vars
    BY <1>1, <1>3 DEF GetBegins, presenceTables
<1>4. ASSUME NEW h \in Handlers, NEW p \in Players, NEW v \in Updates,
             SetBegins(h, p, v) \/ IngestBegins(h, p, v)
      PROVE  Shown!Next
    <2>1. PICK w \in Presences : SetBegins(h, p, w)
        <3>1. v \in Presences /\ DiscordPayload(v) \in Presences
            BY UpdatesAssumption, OfflineIsPresence DEF DiscordPayload
        <3> QED BY <1>4, <3>1 DEF IngestBegins
    <2> QED BY <2>1, UpdateMaps
<1>5. ASSUME NEW h \in Handlers, WriteRedis(h) \/ WritePostgres(h) PROVE Shown!Next
    BY <1>5, WriteMaps
<1>6. ASSUME NEW h \in Handlers, FindFriends(h) \/ ReadRedis(h) \/ ReadPostgres(h)
      PROVE  [Shown!Next]_Shown!vars
    BY <1>2, <1>6 DEF FindFriends, ReadRedis, ReadPostgres
<1>7. ASSUME NEW h \in Handlers, Publish(h) PROVE Shown!Next
    BY <1>7, AnnounceMaps
<1>8. ASSUME NEW p \in Players, Lapse(p) PROVE Shown!Next
    BY <1>8, LapseMaps
<1>9. ASSUME NEW p \in Players, NEW u \in Users, Befriend(p, u) PROVE Shown!Next
    <2>1. Now' = Now /\ ToldFaces' = ToldFaces
        BY <1>9, NowStays, ToldStays DEF Befriend
    <2>2. Shown!Befriend(p, u)
        BY <1>9, <2>1 DEF Befriend, Shown!Befriend, Now
    <2> QED BY <2>2, Mapped
<1>10. ASSUME NEW p \in Players, NEW u, Unlink(p) \/ Unfriend(p, u)
       PROVE  [Shown!Next]_Shown!vars
    BY <1>1, <1>10 DEF Unlink, Unfriend, presenceHistory
<1>11. CASE UNCHANGED <<handlerVars, presenceVars>>
    BY <1>2, <1>11
<1> QED BY <1>2, <1>3, <1>4, <1>5, <1>6, <1>7, <1>8, <1>9, <1>10, <1>11 DEF PresenceNext

(* For every number of players, friends and handlers the store of          *)
(* presence.repository.ts, which writes Redis, then Postgres, then         *)
(* announces, implements the atomic presence: an update that ran alone is  *)
(* what everybody sees until the next one begins, and only friends of the  *)
(* player hear of it.                                                      *)
THEOREM PresenceIsAtomic == PresenceSpec => ImplementsAtomicPresence
<1> QED BY StoreBegins, StoreSteps, InitMaps, StepMaps, PTL
        DEF PresenceSpec, ImplementsAtomicPresence, Shown!Spec
=============================================================================
