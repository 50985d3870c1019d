--------------------------- MODULE FrontendProofs ---------------------------
(***************************************************************************)
(* Results about the browser tab: the query cache of SocialCache and the   *)
(* presence connection of PresenceClient, for any finite set of people,    *)
(* any posts, notifications, forms, sign-ins and sockets.                  *)
(*                                                                         *)
(* Cache: what a card or a counter shows is the server's value plus what   *)
(* the mutations in flight have guessed.  CacheInv says so part by part,   *)
(* with what makes a rollback harmless: the snapshot of a request that     *)
(* overlaps no other is still what the server has.                         *)
(*                                                                         *)
(* Connection: ObjectInv says which sockets an object has, including those *)
(* it has let go of; an object that is not the hook's any more neither     *)
(* waits for its timer nor connects again.                                 *)
(***************************************************************************)
EXTENDS MCFrontend, FiniteSetTheorems, TLAPS

-----------------------------------------------------------------------------
(* The inductive invariant of the cache.                                   *)

Ops == {"react", "accept", "remove", "readOne", "readAll",
        "post", "comment", "community", "membership", "account", "showcase", "settings"}

\* What the answer to a query may be.
Shows(q) ==
    CASE q = "feed"                    -> [Pages -> Nat]
      [] q \in {"friends", "requests"} -> SUBSET People
      [] q = "inbox"                   -> SUBSET Notes
      [] q = "profile"                 -> Nat
      [] OTHER                         -> {{}}
Values(q) == [version : Nat, shows : Shows(q)]

Snapshots(op) == {f \in [Touched(op) -> UNION {Values(q) : q \in Queries}] :
                    \A q \in Touched(op) : f[q] \in Values(q)}
Requests(op)  == [op : {op}, refetch : SUBSET Queries, stage : {"sent", "served"},
                  alone : BOOLEAN, added : BOOLEAN, snapshot : Snapshots(op)]

\* A request, and the slot it may have.
Fits(s, r) ==
    /\ r.op = "react" => s \in Pages /\ r.refetch = {}
    /\ r.op \in {"accept", "remove"} => s \in People /\ r.refetch = {"profile"}
    /\ r.op = "readOne" => s \in Notes /\ r.refetch = {}
    /\ r.op = "readAll" => s = "all" /\ r.refetch = {}

RequestInv(s) ==
    \/ slots[s] = Nobody
    \/ slots[s].op \in Ops /\ slots[s] \in Requests(slots[s].op) /\ Fits(s, slots[s])

Fetches(q) == {NoFetch, Asked(TRUE), Asked(FALSE)}
              \cup [at : {"answered"}, data : Values(q), crossed : BOOLEAN]

CacheShape ==
    /\ server = [q \in Queries |-> server[q]] /\ \A q \in Queries : server[q] \in Values(q)
    /\ cache  = [q \in Queries |-> cache[q]]  /\ \A q \in Queries : cache[q] \in Values(q)
    /\ fetch  = [q \in Queries |-> fetch[q]]  /\ \A q \in Queries : fetch[q] \in Fetches(q)
    /\ slots  = [s \in Slots |-> slots[s]]    /\ \A s \in Slots : RequestInv(s)
    /\ selected \subseteq Pages /\ mine \subseteq Pages

Befriended == server["friends"].shows

\* The tables behind the answers agree with each other.
ServerInv ==
    /\ \A p \in Pages : server["feed"].shows[p] = Others[p] + (IF p \in mine THEN 1 ELSE 0)
    /\ Befriended \cap server["requests"].shows = {}
    /\ server["profile"].shows = Cardinality(Befriended)

InFlight(s) == slots[s].op # "none"
Reach(r) == Touched(r.op) \cup r.refetch
Stage(s, ops, stage) == slots[s].op \in ops /\ slots[s].stage = stage

\* Two requests that meet in a query are not alone.
MeetingInv(s, t) ==
    s # t /\ InFlight(s) /\ InFlight(t) /\ Reach(slots[s]) \cap Reach(slots[t]) # {}
        => ~slots[s].alone

\* A fetch that was not crossed brings what the server has, and no mutation that
\* changes its query began since.
FetchInv(q) ==
    fetch[q].at # "idle" /\ ~fetch[q].crossed =>
        /\ \A s \in Slots : InFlight(s) => q \notin Touched(slots[s].op)
        /\ fetch[q].at = "answered" => fetch[q].data = server[q]

Alike(v, w, q, i) ==
    IF i = "version" THEN v.version = w.version ELSE View(v, q, i) = View(w, q, i)

\* What a lone request would put back is what the server has.
SnapshotInv(s) ==
    InFlight(s) /\ slots[s].alone /\ slots[s].stage = "sent" =>
        \A q \in Touched(slots[s].op) : \A i \in Parts(q) \cup {"version"} :
            <<q, i>> \in blurred \/ Alike(slots[s].snapshot[q], server[q], q, i)

\* What is shown, was fetched or would be put back is no newer than the server.
OldInv ==
    \A q \in Queries :
        /\ cache[q].version <= server[q].version
        /\ fetch[q].at = "answered" => fetch[q].data.version <= server[q].version
        /\ \A s \in Slots : InFlight(s) /\ q \in Touched(slots[s].op)
              => slots[s].snapshot[q].version <= server[q].version

VersionInv(q) ==
    \/ <<q, "version">> \in blurred
    \/ fetch[q].at # "idle"
    \/ \E s \in Slots : InFlight(s) /\ slots[s].stage = "served" /\ q \in slots[s].refetch
    \/ cache[q].version = server[q].version

Unit(up) == IF up THEN 1 ELSE -1

ReactionInv(p) ==
    <<"feed", p>> \in blurred \/
        cache["feed"].shows[p] = server["feed"].shows[p]
            + (IF slots[p].op = "react" THEN Unit(p \in selected) ELSE 0)
            - (IF Stage(p, {"react"}, "served") THEN Unit(slots[p].added) ELSE 0)

FriendInv(x) ==
    /\ \/ <<"friends", x>> \in blurred
       \/ slots[x].op = "accept" /\ x \in cache["friends"].shows
       \/ slots[x].op = "remove" /\ x \notin cache["friends"].shows
       \/ slots[x].op \notin {"accept", "remove"} /\ (x \in cache["friends"].shows <=> x \in Befriended)
    /\ \/ <<"requests", x>> \in blurred
       \/ slots[x].op = "accept" /\ x \notin cache["requests"].shows
       \/ /\ slots[x].op # "accept"
          /\ x \in cache["requests"].shows <=> x \in server["requests"].shows
    /\ Stage(x, {"accept"}, "served") => x \in Befriended /\ x \notin server["requests"].shows
    /\ Stage(x, {"remove"}, "served") => x \notin Befriended

\* Friendship mutations the server has not seen yet.
Sent(op) == {x \in People : Stage(x, {op}, "sent")}

CountInv ==
    \/ <<"profile", "count">> \in blurred
    \/ \E x \in Sent("remove") : x \notin Befriended
    \/ cache["profile"].shows = server["profile"].shows
          + Cardinality(Sent("accept")) - Cardinality(Sent("remove"))

\* The request in slot s marks n as read.
Reads(s, n) == (s = n /\ slots[s].op = "readOne") \/ (s = "all" /\ slots[s].op = "readAll")

NoteInv(n) ==
    <<"inbox", n>> \in blurred \/
        /\ \A s \in Slots : Reads(s, n) =>
              n \notin cache["inbox"].shows /\ (slots[s].stage = "served" => n \notin server["inbox"].shows)
        /\ (\A s \in Slots : ~Reads(s, n)) => (n \in cache["inbox"].shows <=> n \in server["inbox"].shows)

\* No accept or removal is in flight (or: served and not answered yet).
Quiet == \A x \in People : slots[x].op \notin {"accept", "remove"}
Settled == \A x \in People : ~Stage(x, {"accept", "remove"}, "served")

SettleInv ==
    /\ fetch["profile"].at = "answered" /\ Settled
         => fetch["profile"].data.shows = server["profile"].shows
    /\ fetch["profile"].at = "idle" /\ "profile" \notin outdated /\ Quiet
         => cache["profile"].shows = server["profile"].shows

CacheInv ==
    /\ CacheShape
    /\ ServerInv
    /\ OldInv
    /\ \A s, t \in Slots : MeetingInv(s, t)
    /\ \A s \in Slots : SnapshotInv(s)
    /\ \A q \in Queries : FetchInv(q) /\ VersionInv(q)
    /\ \A p \in Pages : ReactionInv(p)
    /\ \A x \in People : FriendInv(x)
    /\ CountInv
    /\ \A n \in Notes : NoteInv(n)
    /\ SettleInv

-----------------------------------------------------------------------------
(* Queries, requests and what they touch.                                  *)

LEMMA TouchedIs ==
    /\ Touched("react") = {"feed"} /\ Touched("accept") = {"friends", "requests", "profile"}
    /\ Touched("remove") = {"friends", "profile"}
    /\ Touched("readOne") = {"inbox"} /\ Touched("readAll") = {"inbox"}
    /\ \A op : op \notin {"react", "accept", "remove", "readOne", "readAll"} => Touched(op) = {}
    /\ \A op : Touched(op) \subseteq Queries
BY DEF Touched, Queries

LEMMA ShowsIs ==
    /\ Shows("feed") = [Pages -> Nat] /\ Shows("friends") = SUBSET People
    /\ Shows("requests") = SUBSET People /\ Shows("inbox") = SUBSET Notes
    /\ Shows("profile") = Nat
    /\ \A q \in {"accounts", "comments", "communities", "otaku"} : Shows(q) = {{}}
BY DEF Shows

LEMMA QueriesAre ==
    /\ {"feed", "friends", "requests", "profile", "inbox"} \subseteq Queries
    /\ Pages \subseteq Slots /\ People \subseteq Slots /\ Notes \subseteq Slots
    /\ "all" \in Slots /\ Forms \subseteq Slots
BY DEF Queries, Slots

\* What is known of a request that is in flight, by its slot.
LEMMA InFlightIs ==
    ASSUME CacheShape, NEW s \in Slots
    PROVE  /\ InFlight(s) <=> slots[s] # Nobody
           /\ InFlight(s) => /\ slots[s].op \in Ops /\ slots[s] \in Requests(slots[s].op)
                             /\ Fits(s, slots[s])
           /\ s \notin Pages => slots[s].op # "react"
           /\ s \notin People => slots[s].op \notin {"accept", "remove"}
           /\ s \notin Notes => slots[s].op # "readOne"
           /\ s # "all" => slots[s].op # "readAll"
<1>1. RequestInv(s)
    BY DEF CacheShape
<1>2. Nobody.op = "none" /\ "none" \notin Ops
    BY DEF Nobody, Ops
<1> QED BY <1>1, <1>2 DEF InFlight, RequestInv, Fits

-----------------------------------------------------------------------------
(* What a step leaves alone.                                               *)

KeepsRequest(t) ==
    /\ slots'[t].op = slots[t].op /\ slots'[t].refetch = slots[t].refetch
    /\ slots'[t].stage = slots[t].stage /\ slots'[t].added = slots[t].added
    /\ slots'[t].snapshot = slots[t].snapshot
    /\ slots'[t].alone => slots[t].alone

\* Nothing of query q that is blurred becomes sharp.
StaysBlurred(q) == \A i : <<q, i>> \in blurred => <<q, i>> \in blurred'

LEMMA MeetingStays ==
    ASSUME NEW s \in Slots, NEW t \in Slots, KeepsRequest(s), KeepsRequest(t), MeetingInv(s, t)
    PROVE  MeetingInv(s, t)'
BY DEF KeepsRequest, MeetingInv, InFlight, Reach

LEMMA SnapshotStays ==
    ASSUME NEW t \in Slots, KeepsRequest(t), SnapshotInv(t),
           slots'[t].alone => \A q \in Touched(slots[t].op) : \A i \in Parts(q) \cup {"version"} :
               /\ <<q, i>> \in blurred => <<q, i>> \in blurred'
               /\ <<q, i>> \in blurred' \/ Alike(server[q], server'[q], q, i)
    PROVE  SnapshotInv(t)'
<1> SUFFICES ASSUME InFlight(t)', slots'[t].alone, slots'[t].stage = "sent",
                    NEW q \in Touched(slots'[t].op), NEW i \in Parts(q) \cup {"version"}
             PROVE  <<q, i>> \in blurred' \/ Alike(slots'[t].snapshot[q], server'[q], q, i)
    BY DEF SnapshotInv
<1>1. <<q, i>> \in blurred \/ Alike(slots[t].snapshot[q], server[q], q, i)
    BY DEF KeepsRequest, SnapshotInv, InFlight
<1>2. /\ <<q, i>> \in blurred => <<q, i>> \in blurred'
      /\ <<q, i>> \in blurred' \/ Alike(server[q], server'[q], q, i)
    BY DEF KeepsRequest
<1>3. slots'[t].snapshot[q] = slots[t].snapshot[q]
    BY DEF KeepsRequest
<1> QED BY <1>1, <1>2, <1>3 DEF Alike

LEMMA FetchStays ==
    ASSUME NEW q \in Queries, fetch'[q] = fetch[q], server'[q] = server[q], FetchInv(q),
           \A s \in Slots : InFlight(s)' =>
               \/ q \notin Touched(slots'[s].op)
               \/ InFlight(s) /\ slots'[s].op = slots[s].op
    PROVE  FetchInv(q)'
BY DEF FetchInv

LEMMA OldStays ==
    ASSUME CacheShape, CacheShape', OldInv,
           \A q \in Queries :
               /\ server[q].version <= server'[q].version
               /\ \/ cache'[q].version = cache[q].version
                  \/ cache'[q].version <= server[q].version
               /\ fetch'[q].at = "answered" =>
                     \/ fetch[q].at = "answered" /\ fetch'[q].data = fetch[q].data
                     \/ fetch'[q].data = server[q],
           \A s \in Slots : InFlight(s)' =>
               \/ InFlight(s) /\ slots'[s].op = slots[s].op /\ slots'[s].snapshot = slots[s].snapshot
               \/ \A q \in Touched(slots'[s].op) : slots'[s].snapshot[q] = cache[q]
    PROVE  OldInv'
<1> SUFFICES ASSUME NEW q \in Queries
             PROVE  /\ cache'[q].version <= server'[q].version
                    /\ fetch'[q].at = "answered" => fetch'[q].data.version <= server'[q].version
                    /\ \A s \in Slots : InFlight(s)' /\ q \in Touched(slots'[s].op)
                          => slots'[s].snapshot[q].version <= server'[q].version
    BY DEF OldInv
<1>1. /\ cache[q].version \in Nat /\ server[q].version \in Nat
      /\ cache'[q].version \in Nat /\ server'[q].version \in Nat
      /\ server[q].version <= server'[q].version /\ cache[q].version <= server[q].version
    BY DEF CacheShape, Values, OldInv
<1>2. cache'[q].version <= server'[q].version
    BY <1>1
<1>3. ASSUME fetch'[q].at = "answered" PROVE fetch'[q].data.version <= server'[q].version
    <2>1. fetch'[q].data.version <= server[q].version
        BY <1>1, <1>3 DEF OldInv
    <2>2. fetch'[q].data.version \in Nat
        <3>1. fetch'[q] \in Fetches(q)'
            BY DEF CacheShape
        <3> QED BY <1>3, <3>1 DEF Fetches, NoFetch, Asked, Values
    <2> QED BY <1>1, <2>1, <2>2
<1>4. ASSUME NEW s \in Slots, InFlight(s)', q \in Touched(slots'[s].op)
      PROVE  slots'[s].snapshot[q].version <= server'[q].version
    <2>1. slots'[s].snapshot[q].version <= server[q].version
        BY <1>1, <1>4 DEF OldInv
    <2>2. slots'[s].snapshot[q].version \in Nat
        <3>1. slots'[s] \in Requests(slots'[s].op)
            BY <1>4 DEF CacheShape, RequestInv, InFlight, Nobody
        <3>2. slots'[s].snapshot \in Snapshots(slots'[s].op)
            BY <3>1 DEF Requests
        <3> QED BY <1>4, <3>2 DEF Snapshots, Values
    <2> QED BY <1>1, <2>1, <2>2
<1> QED BY <1>2, <1>3, <1>4

LEMMA ReactionStays ==
    ASSUME NEW p \in Pages, ReactionInv(p), StaysBlurred("feed"),
           cache'["feed"].shows[p] = cache["feed"].shows[p],
           server'["feed"].shows[p] = server["feed"].shows[p],
           p \in selected' <=> p \in selected,
           \/ KeepsRequest(p)
           \/ slots[p].op # "react" /\ slots'[p].op # "react"
    PROVE  ReactionInv(p)'
<1>1. CASE <<"feed", p>> \in blurred'
    BY <1>1 DEF ReactionInv
<1>2. CASE <<"feed", p>> \notin blurred'
    BY <1>2 DEF ReactionInv, StaysBlurred, KeepsRequest, Stage, Unit
<1> QED BY <1>1, <1>2

LEMMA FriendStays ==
    ASSUME NEW x \in People, FriendInv(x), StaysBlurred("friends"), StaysBlurred("requests"),
           x \in cache'["friends"].shows <=> x \in cache["friends"].shows,
           x \in cache'["requests"].shows <=> x \in cache["requests"].shows,
           x \in server'["friends"].shows <=> x \in server["friends"].shows,
           x \in server'["requests"].shows <=> x \in server["requests"].shows,
           \/ KeepsRequest(x)
           \/ /\ slots[x].op \notin {"accept", "remove"}
              /\ slots'[x].op \notin {"accept", "remove"}
    PROVE  FriendInv(x)'
BY DEF FriendInv, StaysBlurred, KeepsRequest, Stage, Befriended

LEMMA CountStays ==
    ASSUME CountInv, StaysBlurred("profile"),
           cache'["profile"].shows = cache["profile"].shows,
           server'["profile"].shows = server["profile"].shows,
           server'["friends"].shows = server["friends"].shows,
           \A x \in People :
               \/ KeepsRequest(x)
               \/ /\ slots[x].op \notin {"accept", "remove"}
                  /\ slots'[x].op \notin {"accept", "remove"}
    PROVE  CountInv'
<1>1. \A op \in {"accept", "remove"} : Sent(op)' = Sent(op)
    BY DEF Sent, Stage, KeepsRequest
<1> QED BY <1>1 DEF CountInv, StaysBlurred, Befriended

LEMMA NoteStays ==
    ASSUME NEW n \in Notes, NoteInv(n), StaysBlurred("inbox"),
           n \in cache'["inbox"].shows <=> n \in cache["inbox"].shows,
           n \in server'["inbox"].shows <=> n \in server["inbox"].shows,
           \A s \in Slots :
               \/ KeepsRequest(s)
               \/ ~Reads(s, n) /\ ~Reads(s, n)'
    PROVE  NoteInv(n)'
<1>1. \A s \in Slots : /\ Reads(s, n)' <=> Reads(s, n)
                       /\ Reads(s, n) => slots'[s].stage = slots[s].stage
    BY DEF Reads, KeepsRequest
<1> QED BY <1>1 DEF NoteInv, StaysBlurred

LEMMA SettleStays ==
    ASSUME SettleInv, fetch'["profile"] = fetch["profile"],
           server'["profile"].shows = server["profile"].shows,
           cache'["profile"].shows = cache["profile"].shows,
           "profile" \in outdated => "profile" \in outdated',
           \A x \in People :
               \/ KeepsRequest(x)
               \/ /\ slots[x].op \notin {"accept", "remove"}
                  /\ slots'[x].op \notin {"accept", "remove"}
    PROVE  SettleInv'
BY DEF SettleInv, Quiet, Settled, Stage, KeepsRequest

-----------------------------------------------------------------------------
(* A request takes its slot.                                               *)

\* The request of s is one among the others.
Enters(s, op, refetch) ==
    /\ slots' = [t \in Slots |-> slots'[t]]
    /\ slots'[s] \in Requests(op) /\ slots'[s].refetch = refetch /\ slots'[s].stage = "sent"
    /\ slots'[s].snapshot = [q \in Touched(op) |-> cache[q]]
    /\ slots'[s].alone => \A q \in Touched(op) \cup refetch : Pending(q) = {}
    /\ \A t \in Slots \ {s} :
          /\ KeepsRequest(t)
          /\ InFlight(t) /\ Reach(slots[t]) \cap (Touched(op) \cup refetch) # {}
                => ~slots'[t].alone
    /\ \A t \in Slots : RequestInv(t)'

\* A request that joins the others has entered.
LEMMA JoinedIs ==
    ASSUME CacheShape, NEW s \in Slots, slots[s] = Nobody, NEW op \in Ops,
           NEW refetch \in SUBSET Queries, Fits(s, [op |-> op, refetch |-> refetch]),
           slots' = Joined(s, Request(op, refetch))
    PROVE  Enters(s, op, refetch)
<1> DEFINE r == Request(op, refetch)
           met == UNION {Pending(q) : q \in Touched(op) \cup refetch}
<1>1. [q \in Touched(op) |-> cache[q]] \in Snapshots(op)
    BY TouchedIs DEF Snapshots, CacheShape
<1>2. /\ r \in Requests(op) /\ r.op = op /\ r.refetch = refetch /\ r.stage = "sent"
      /\ r.snapshot = [q \in Touched(op) |-> cache[q]]
    BY <1>1 DEF Request, Requests
<1>3. /\ [r EXCEPT !.alone = (met = {})] \in Requests(op)
      /\ [r EXCEPT !.alone = (met = {})].refetch = refetch
      /\ [r EXCEPT !.alone = (met = {})].stage = "sent"
      /\ [r EXCEPT !.alone = (met = {})].snapshot = [q \in Touched(op) |-> cache[q]]
      /\ [r EXCEPT !.alone = (met = {})].alone => met = {}
    <2> HIDE DEF r, met
    <2>1. (met = {}) \in BOOLEAN
        OBVIOUS
    <2> QED BY <1>2, <2>1 DEF Requests
<1>4. slots' = [t \in Slots |-> CASE t = s     -> [r EXCEPT !.alone = (met = {})]
                                  [] t \in met -> [slots[t] EXCEPT !.alone = FALSE]
                                  [] OTHER     -> slots[t]]
    BY <1>2 DEF Joined
<1>5. s \notin met
    BY DEF Pending, Nobody
<1>6. slots'[s] = [r EXCEPT !.alone = (met = {})] /\ slots' = [t \in Slots |-> slots'[t]]
    <2> HIDE DEF r, met
    <2> QED BY <1>4, <1>5
<1>7. ASSUME NEW t \in Slots \ {s}
      PROVE  /\ KeepsRequest(t) /\ RequestInv(t)'
             /\ InFlight(t) /\ Reach(slots[t]) \cap (Touched(op) \cup refetch) # {}
                   => ~slots'[t].alone
    <2>1. CASE t \in met
        <3>1. slots'[t] = [slots[t] EXCEPT !.alone = FALSE]
            BY <1>4, <1>7, <2>1
        <3>2. slots[t].op \in Ops /\ slots[t] \in Requests(slots[t].op) /\ Fits(t, slots[t])
            BY <2>1, InFlightIs DEF Pending, InFlight
        <3>3. /\ slots'[t] \in Requests(slots[t].op) /\ slots'[t].op = slots[t].op
              /\ slots'[t].refetch = slots[t].refetch
              /\ KeepsRequest(t) /\ slots'[t].alone = FALSE
            BY <3>1, <3>2 DEF Requests, KeepsRequest
        <3> QED BY <3>2, <3>3 DEF RequestInv, Fits
    <2>2. CASE t \notin met
        <3>1. slots'[t] = slots[t]
            BY <1>4, <1>7, <2>2
        <3>2. InFlight(t) => Reach(slots[t]) \cap (Touched(op) \cup refetch) = {}
            BY <2>2 DEF Pending, InFlight, Reach
        <3> QED BY <3>1, <3>2 DEF KeepsRequest, RequestInv, CacheShape, Fits
    <2> QED BY <2>1, <2>2
<1>8. RequestInv(s)'
    <2>1. slots'[s].op = op
        BY <1>3, <1>6 DEF Requests
    <2> QED BY <2>1, <1>3, <1>6 DEF RequestInv, Fits
<1> QED BY <1>3, <1>6, <1>7, <1>8 DEF Enters

LEMMA JoinedMeets ==
    ASSUME CacheInv, NEW f \in Slots, slots[f] = Nobody, NEW op \in Ops,
           NEW refetch \in SUBSET Queries, Fits(f, [op |-> op, refetch |-> refetch]),
           slots' = Joined(f, Request(op, refetch))
    PROVE  \A t, u \in Slots : MeetingInv(t, u)'
<1>1. CacheShape /\ \A t, u \in Slots : MeetingInv(t, u)
    BY DEF CacheInv
<1>2. /\ slots'[f] \in Requests(op) /\ slots'[f].refetch = refetch
      /\ slots'[f].alone => \A q \in Touched(op) \cup refetch : Pending(q) = {}
      /\ \A t \in Slots \ {f} :
            /\ KeepsRequest(t)
            /\ InFlight(t) /\ Reach(slots[t]) \cap (Touched(op) \cup refetch) # {} => ~slots'[t].alone
    <2>1. Enters(f, op, refetch)
        BY <1>1, JoinedIs
    <2> QED BY <2>1 DEF Enters
<1>3. slots'[f].op = op
    BY <1>2 DEF Requests
<1>4. ASSUME NEW t \in Slots, NEW u \in Slots PROVE MeetingInv(t, u)'
    <2>1. CASE t # f /\ u # f
        BY <1>1, <1>2, <2>1, MeetingStays
    <2>2. CASE t = f /\ u # f
        <3> SUFFICES ASSUME InFlight(u)', Reach(slots'[u]) \cap Reach(slots'[f]) # {}, slots'[f].alone
                     PROVE  FALSE
            BY <2>2 DEF MeetingInv
        <3>1. InFlight(u) /\ Reach(slots[u]) \cap (Touched(op) \cup refetch) # {}
            BY <1>2, <1>3, <2>2 DEF KeepsRequest, InFlight, Reach
        <3>2. PICK q \in Touched(op) \cup refetch : u \in Pending(q)
            BY <3>1 DEF Pending, InFlight, Reach
        <3> QED BY <1>2, <3>2
    <2>3. CASE t # f /\ u = f
        <3> SUFFICES ASSUME InFlight(t)', Reach(slots'[t]) \cap Reach(slots'[f]) # {}
                     PROVE  ~slots'[t].alone
            BY <2>3 DEF MeetingInv
        <3>1. InFlight(t) /\ Reach(slots[t]) \cap (Touched(op) \cup refetch) # {}
            BY <1>2, <1>3, <2>3 DEF KeepsRequest, InFlight, Reach
        <3> QED BY <1>2, <2>3, <3>1
    <2> QED BY <2>1, <2>2, <2>3 DEF MeetingInv
<1> QED BY <1>4

\* Counts are numbers, lists are sets.
LEMMA CountsAreNat ==
    ASSUME CacheShape
    PROVE  /\ \A p \in Pages : cache["feed"].shows[p] \in Nat /\ server["feed"].shows[p] \in Nat
           /\ cache["profile"].shows \in Nat /\ server["profile"].shows \in Nat
           /\ cache["friends"].shows \subseteq People /\ server["friends"].shows \subseteq People
           /\ cache["requests"].shows \subseteq People /\ server["requests"].shows \subseteq People
           /\ cache["inbox"].shows \subseteq Notes /\ server["inbox"].shows \subseteq Notes
<1>1. \A q \in Queries : cache[q].shows \in Shows(q) /\ server[q].shows \in Shows(q)
    BY DEF CacheShape, Values
<1>2. "feed" \in Queries /\ "friends" \in Queries /\ "requests" \in Queries
      /\ "profile" \in Queries /\ "inbox" \in Queries
    BY DEF Queries
<1> QED BY <1>1, <1>2, ShowsIs

-----------------------------------------------------------------------------
(* What is not waited for is what the server has.                          *)

LEMMA ViewsAgree ==
    ASSUME NEW q \in {"friends", "requests", "inbox"}, NEW i, NEW v, NEW w,
           i \in v.shows <=> i \in w.shows
    PROVE  View(v, q, i) = View(w, q, i)
<1>1. (i \in v.shows) = (i \in w.shows)
    OBVIOUS
<1> QED BY <1>1 DEF View

LEMMA PartIsExact ==
    ASSUME CacheInv, NEW q \in Queries, NEW i \in Parts(q),
           \A s \in Pending(q) : i \notin {s, "count"} /\ slots[s].op # "readAll"
    PROVE  <<q, i>> \in blurred \/ View(cache[q], q, i) = View(server[q], q, i)
<1> USE DEF CacheInv
<1>1. \A s \in Slots : InFlight(s) /\ q \in Touched(slots[s].op) => i \notin {s, "count"} /\ slots[s].op # "readAll"
    BY DEF Pending, InFlight
<1>2. CASE q = "feed"
    <2>1. i \in Pages
        BY <1>2 DEF Parts
    <2>2. slots[i].op # "react"
        BY <1>1, <1>2, <2>1, TouchedIs, QueriesAre DEF InFlight
    <2> QED BY <1>2, <2>1, <2>2, CountsAreNat DEF ReactionInv, Stage, View
<1>3. CASE q = "friends"
    <2>1. i \in People
        BY <1>3 DEF Parts
    <2>2. slots[i].op \notin {"accept", "remove"}
        BY <1>1, <1>3, <2>1, TouchedIs, QueriesAre DEF InFlight
    <2>3. <<q, i>> \in blurred \/ (i \in cache[q].shows <=> i \in server[q].shows)
        BY <1>3, <2>1, <2>2 DEF FriendInv, Befriended
    <2> QED BY <1>3, <2>3, ViewsAgree
<1>4. CASE q = "requests"
    <2>1. i \in People
        BY <1>4 DEF Parts
    <2>2. slots[i].op # "accept"
        BY <1>1, <1>4, <2>1, TouchedIs, QueriesAre DEF InFlight
    <2>3. <<q, i>> \in blurred \/ (i \in cache[q].shows <=> i \in server[q].shows)
        BY <1>4, <2>1, <2>2 DEF FriendInv
    <2> QED BY <1>4, <2>3, ViewsAgree
<1>5. CASE q = "profile"
    <2>1. i = "count"
        BY <1>5 DEF Parts
    <2>2. \A x \in People : slots[x].op \notin {"accept", "remove"}
        BY <1>1, <1>5, <2>1, TouchedIs, QueriesAre DEF InFlight
    <2>3. Sent("accept") = {} /\ Sent("remove") = {}
        BY <2>2 DEF Sent, Stage
    <2>4. Cardinality(Sent("accept")) = 0 /\ Cardinality(Sent("remove")) = 0
        BY <2>3, FS_EmptySet
    <2>5. <<"profile", "count">> \in blurred \/ cache["profile"].shows = server["profile"].shows
        <3>1. CountInv /\ server["profile"].shows \in Nat
            BY CountsAreNat
        <3> HIDE DEF CacheInv
        <3> QED BY <2>3, <2>4, <3>1 DEF CountInv
    <2> QED BY <1>5, <2>1, <2>5 DEF View
<1>6. CASE q = "inbox"
    <2>1. i \in Notes
        BY <1>6 DEF Parts
    <2>2. \A s \in Slots : ~Reads(s, i)
        BY <1>1, <1>6, TouchedIs DEF InFlight, Reads
    <2>3. <<q, i>> \in blurred \/ (i \in cache[q].shows <=> i \in server[q].shows)
        BY <1>6, <2>1, <2>2 DEF NoteInv
    <2> QED BY <1>6, <2>3, ViewsAgree
<1>7. CASE q \in {"accounts", "comments", "communities", "otaku"}
    <2>1. cache[q].shows = {} /\ server[q].shows = {}
        BY <1>7, ShowsIs DEF CacheShape, Values
    <2> QED BY <1>7, <2>1 DEF View
<1> QED BY <1>2, <1>3, <1>4, <1>5, <1>6, <1>7 DEF Queries

-----------------------------------------------------------------------------
(* An optimistic mutation begins.                                          *)

\* The changes of op, and what else they leave alone.
Changes(op, changed) ==
    \A q \in Touched(op) : changed[q] \in Values(q) /\ changed[q].version = cache[q].version

MutateFrame(s, op, changed, distorted) ==
    /\ slots[s] = Nobody /\ slots'[s].op = op /\ slots'[s].stage = "sent"
    /\ \A t \in Slots \ {s} : KeepsRequest(t)
    /\ \A q \in Queries : cache'[q] = IF q \in Touched(op) THEN changed[q] ELSE cache[q]
    /\ server' = server /\ distorted \subseteq blurred' /\ \A q \in Queries : StaysBlurred(q)

LEMMA MutateKeeps ==
    ASSUME CacheInv, NEW s \in Slots, NEW op \in Ops, NEW refetch \in SUBSET Queries,
           NEW changed, NEW distorted, Fits(s, [op |-> op, refetch |-> refetch]),
           Mutate(s, op, refetch, changed, distorted), Changes(op, changed), selected' \subseteq Pages
    PROVE  /\ CacheShape' /\ ServerInv' /\ OldInv' /\ SettleInv'
           /\ \A t, u \in Slots : MeetingInv(t, u)'
           /\ \A t \in Slots : SnapshotInv(t)'
           /\ \A q \in Queries : FetchInv(q)' /\ VersionInv(q)'
           /\ MutateFrame(s, op, changed, distorted)
<1> USE DEF CacheInv
<1>1. /\ slots[s] = Nobody /\ slots' = Joined(s, Request(op, refetch))
      /\ cache' = [q \in Queries |-> IF q \in Touched(op) THEN changed[q] ELSE cache[q]]
      /\ fetch' = [q \in Queries |-> IF q \in Touched(op) THEN NoFetch ELSE fetch[q]]
      /\ blurred' = blurred \cup distorted
                    \cup {<<q, "version">> : q \in {r \in Touched(op) : fetch[r].at # "idle"}}
      /\ UNCHANGED <<server, mine, failures, outdated>>
    BY DEF Mutate, Cancelled
<1>2. /\ slots' = [t \in Slots |-> slots'[t]]
      /\ slots'[s] \in Requests(op) /\ slots'[s].refetch = refetch /\ slots'[s].stage = "sent"
      /\ slots'[s].snapshot = [q \in Touched(op) |-> cache[q]]
      /\ slots'[s].alone => \A q \in Touched(op) \cup refetch : Pending(q) = {}
      /\ \A t \in Slots \ {s} :
            /\ KeepsRequest(t)
            /\ InFlight(t) /\ Reach(slots[t]) \cap (Touched(op) \cup refetch) # {} => ~slots'[t].alone
      /\ \A t \in Slots : RequestInv(t)'
    <2>1. Enters(s, op, refetch)
        BY <1>1, JoinedIs
    <2> QED BY <2>1 DEF Enters
<1>3. slots'[s].op = op /\ ~InFlight(s)
    BY <1>1, <1>2, InFlightIs DEF Requests
<1>4. \A q \in Queries : StaysBlurred(q)
    BY <1>1 DEF StaysBlurred
<1>5. MutateFrame(s, op, changed, distorted)
    BY <1>1, <1>2, <1>3, <1>4 DEF MutateFrame
<1>6. CacheShape'
    <2>1. cache' = [q \in Queries |-> cache'[q]] /\ \A q \in Queries : cache'[q] \in Values(q)
        BY <1>1 DEF CacheShape, Changes
    <2>2. fetch' = [q \in Queries |-> fetch'[q]] /\ \A q \in Queries : fetch'[q] \in Fetches(q)
        BY <1>1 DEF CacheShape, Fetches
    <2> QED BY <1>1, <1>2, <2>1, <2>2 DEF CacheShape
<1>7. ServerInv'
    BY <1>1 DEF ServerInv, Befriended
<1>8. \A t, u \in Slots : MeetingInv(t, u)'
    <2> HIDE DEF CacheInv
    <2> QED BY <1>1, JoinedMeets
<1>9. ASSUME NEW t \in Slots PROVE SnapshotInv(t)'
    <2>1. CASE t # s
        <3>1. KeepsRequest(t)
            BY <1>2, <2>1
        <3>2. \A q \in Touched(slots[t].op) : \A i \in Parts(q) \cup {"version"} :
                /\ <<q, i>> \in blurred => <<q, i>> \in blurred'
                /\ <<q, i>> \in blurred' \/ Alike(server[q], server'[q], q, i)
            BY <1>1, <1>4, TouchedIs DEF StaysBlurred, Alike
        <3> QED BY <3>1, <3>2, SnapshotStays
    <2>2. CASE t = s
        <3> SUFFICES ASSUME slots'[s].alone, NEW q \in Touched(op), NEW i \in Parts(q) \cup {"version"}
                     PROVE  <<q, i>> \in blurred' \/ Alike(slots'[s].snapshot[q], server'[q], q, i)
            BY <1>3, <2>2 DEF SnapshotInv
        <3>1. Pending(q) = {} /\ slots'[s].snapshot[q] = cache[q] /\ server'[q] = server[q] /\ q \in Queries
            BY <1>1, <1>2, TouchedIs
        <3>2. CASE i = "version"
            <4>1. \A r \in Slots : ~(InFlight(r) /\ q \in slots[r].refetch)
                BY <3>1 DEF Pending, InFlight
            <4>2. <<q, "version">> \in blurred' \/ cache[q].version = server[q].version
                BY <4>1, <3>1, <1>1 DEF VersionInv
            <4> QED BY <4>2, <3>1, <3>2 DEF Alike
        <3>3. CASE i # "version"
            <4>1. <<q, i>> \in blurred \/ View(cache[q], q, i) = View(server[q], q, i)
                BY <3>1, <3>3, PartIsExact
            <4> QED BY <4>1, <3>1, <3>3, <1>4 DEF Alike, StaysBlurred
        <3> QED BY <3>2, <3>3
    <2> QED BY <2>1, <2>2
<1>10. ASSUME NEW q \in Queries PROVE FetchInv(q)' /\ VersionInv(q)'
    <2>1. CASE q \in Touched(op)
        <3>1. fetch'[q].at = "idle"
            BY <1>1, <2>1 DEF NoFetch
        <3>2. VersionInv(q)'
            <4>1. CASE <<q, "version">> \in blurred'
                BY <4>1 DEF VersionInv
            <4>2. CASE <<q, "version">> \notin blurred'
                <5>1. <<q, "version">> \notin blurred /\ fetch[q].at = "idle"
                    BY <1>1, <2>1, <4>2
                <5>2. CASE cache[q].version = server[q].version
                    <6>1. cache'[q].version = server'[q].version
                        BY <1>1, <2>1, <5>2 DEF Changes
                    <6> QED BY <6>1 DEF VersionInv
                <5>3. CASE \E t \in Slots : InFlight(t) /\ slots[t].stage = "served" /\ q \in slots[t].refetch
                    <6>1. PICK t \in Slots : InFlight(t) /\ slots[t].stage = "served" /\ q \in slots[t].refetch
                        BY <5>3
                    <6>2. KeepsRequest(t)
                        BY <6>1, <1>2, <1>3
                    <6> QED BY <6>1, <6>2 DEF VersionInv, KeepsRequest, InFlight
                <5> QED BY <5>1, <5>2, <5>3 DEF VersionInv
            <4> QED BY <4>1, <4>2
        <3> QED BY <3>1, <3>2 DEF FetchInv
    <2>2. CASE q \notin Touched(op)
        <3>1. cache'[q] = cache[q] /\ fetch'[q] = fetch[q] /\ server'[q] = server[q]
            BY <1>1, <2>2
        <3>2. FetchInv(q)'
            <4>1. \A t \in Slots : InFlight(t)' => \/ q \notin Touched(slots'[t].op)
                                                   \/ InFlight(t) /\ slots'[t].op = slots[t].op
                BY <1>2, <1>3, <2>2 DEF KeepsRequest, InFlight
            <4> QED BY <3>1, <4>1, FetchStays
        <3>3. \A t \in Slots : InFlight(t) => KeepsRequest(t)
            BY <1>2, <1>3
        <3>4. VersionInv(q)'
            BY <3>1, <3>3, <1>4 DEF VersionInv, StaysBlurred, KeepsRequest, InFlight
        <3> QED BY <3>2, <3>4
    <2> QED BY <2>1, <2>2
<1>11. SettleInv'
    <2>1. CASE "profile" \in Touched(op)
        <3>1. fetch'["profile"].at = "idle"
            BY <1>1, <2>1, QueriesAre DEF NoFetch
        <3>2. op \in {"accept", "remove"} /\ s \in People
            BY <2>1, TouchedIs DEF Fits
        <3>3. ~Quiet'
            BY <1>3, <3>2 DEF Quiet
        <3> QED BY <3>1, <3>3 DEF SettleInv
    <2>2. CASE "profile" \notin Touched(op)
        <3>1. op \notin {"accept", "remove"} /\ slots[s].op \notin {"accept", "remove"}
            BY <1>1, <2>2, TouchedIs DEF Nobody
        <3>2. fetch'["profile"] = fetch["profile"] /\ cache'["profile"] = cache["profile"]
            BY <1>1, <2>2, QueriesAre
        <3>3. \A x \in People : \/ KeepsRequest(x)
                                \/ /\ slots[x].op \notin {"accept", "remove"}
                                   /\ slots'[x].op \notin {"accept", "remove"}
            BY <1>2, <1>3, <3>1, QueriesAre
        <3> QED BY <1>1, <3>2, <3>3, SettleStays
    <2> QED BY <2>1, <2>2
<1>12. OldInv'
    <2>1. \A q \in Queries :
            /\ server[q].version <= server'[q].version /\ cache'[q].version = cache[q].version
            /\ fetch'[q].at = "answered" => fetch[q].at = "answered" /\ fetch'[q].data = fetch[q].data
        <3>1. \A q \in Queries : server[q].version \in Nat /\ server'[q].version = server[q].version
            BY <1>1 DEF CacheShape, Values
        <3>2. \A q \in Queries : cache'[q].version = cache[q].version
            BY <1>1 DEF Changes
        <3>3. \A q \in Queries : fetch'[q] = NoFetch \/ fetch'[q] = fetch[q]
            BY <1>1
        <3> QED BY <3>1, <3>2, <3>3 DEF NoFetch
    <2>2. \A t \in Slots : InFlight(t)' =>
            \/ InFlight(t) /\ slots'[t].op = slots[t].op /\ slots'[t].snapshot = slots[t].snapshot
            \/ \A q \in Touched(slots'[t].op) : slots'[t].snapshot[q] = cache[q]
        BY <1>2, <1>3 DEF KeepsRequest, InFlight
    <2> QED BY <1>6, <2>1, <2>2, OldStays
<1> QED BY <1>5, <1>6, <1>7, <1>8, <1>9, <1>10, <1>11, <1>12

\* A mutation disturbs what its query shows only.
LEMMA UntouchedStay ==
    ASSUME CacheInv, NEW s \in Slots, NEW op \in Ops, NEW changed, NEW distorted,
           MutateFrame(s, op, changed, distorted)
    PROVE  /\ op # "react" /\ selected' = selected => \A p \in Pages : ReactionInv(p)'
           /\ op \notin {"accept", "remove"} => CountInv' /\ \A x \in People : FriendInv(x)'
           /\ op \notin {"readOne", "readAll"} => \A n \in Notes : NoteInv(n)'
<1>1. /\ slots[s].op = "none" /\ slots'[s].op = op /\ server' = server
      /\ \A t \in Slots \ {s} : KeepsRequest(t)
      /\ \A q \in Queries : StaysBlurred(q) /\ (q \notin Touched(op) => cache'[q] = cache[q])
    BY DEF MutateFrame, Nobody
<1>2. ASSUME op # "react", selected' = selected, NEW p \in Pages PROVE ReactionInv(p)'
    <2>1. cache'["feed"] = cache["feed"] /\ StaysBlurred("feed")
        BY <1>1, <1>2, TouchedIs, QueriesAre
    <2>2. KeepsRequest(p) \/ (slots[p].op # "react" /\ slots'[p].op # "react")
        BY <1>1, <1>2, QueriesAre
    <2> QED BY <1>1, <1>2, <2>1, <2>2, ReactionStays DEF CacheInv
<1>3. ASSUME op \notin {"accept", "remove"} PROVE CountInv' /\ \A x \in People : FriendInv(x)'
    <2>1. \A q \in {"friends", "requests", "profile"} : cache'[q] = cache[q] /\ StaysBlurred(q)
        BY <1>1, <1>3, TouchedIs, QueriesAre
    <2>2. \A x \in People : \/ KeepsRequest(x)
                            \/ /\ slots[x].op \notin {"accept", "remove"}
                               /\ slots'[x].op \notin {"accept", "remove"}
        BY <1>1, <1>3, QueriesAre
    <2>3. CountInv'
        BY <1>1, <2>1, <2>2, CountStays DEF CacheInv
    <2>4. ASSUME NEW x \in People PROVE FriendInv(x)'
        BY <1>1, <2>1, <2>2, FriendStays DEF CacheInv
    <2> QED BY <2>3, <2>4
<1>4. ASSUME op \notin {"readOne", "readAll"}, NEW n \in Notes PROVE NoteInv(n)'
    <2>1. cache'["inbox"] = cache["inbox"] /\ StaysBlurred("inbox")
        BY <1>1, <1>4, TouchedIs, QueriesAre
    <2>2. \A t \in Slots : KeepsRequest(t) \/ (~Reads(t, n) /\ ~Reads(t, n)')
        BY <1>1, <1>4 DEF Reads
    <2> QED BY <1>1, <2>1, <2>2, NoteStays DEF CacheInv
<1> QED BY <1>2, <1>3, <1>4

LEMMA ReactKeeps ==
    ASSUME CacheInv, NEW p \in Pages, React(p)
    PROVE  CacheInv'
<1> DEFINE delta == IF p \in selected THEN -1 ELSE 1
           changed == [feed |-> Reacted(cache["feed"], p, delta)]
           distorted == IF cache["feed"].shows[p] + delta < 0 THEN {<<"feed", p>>} ELSE {}
<1>1. /\ Mutate(p, "react", {}, changed, distorted)
      /\ selected' = IF p \in selected THEN selected \ {p} ELSE selected \cup {p}
    BY DEF React
<1>2. selected \subseteq Pages /\ cache["feed"] \in [version : Nat, shows : [Pages -> Nat]]
    BY ShowsIs DEF CacheInv, CacheShape, Queries, Values
<1>3. /\ changed["feed"] \in [version : Nat, shows : [Pages -> Nat]]
      /\ changed["feed"].version = cache["feed"].version
      /\ changed["feed"].shows[p] = NonNegative(cache["feed"].shows[p] + delta)
      /\ \A r \in Pages \ {p} : changed["feed"].shows[r] = cache["feed"].shows[r]
    <2>1. NonNegative(cache["feed"].shows[p] + delta) \in Nat
        BY <1>2 DEF NonNegative
    <2> QED BY <1>2, <2>1 DEF Reacted
<1> HIDE DEF changed, distorted
<1>4. Changes("react", changed) /\ p \in Slots /\ "react" \in Ops
      /\ Fits(p, [op |-> "react", refetch |-> {}])
    BY <1>3, TouchedIs, ShowsIs, QueriesAre DEF Changes, Values, Ops, Fits
<1>5. selected' \subseteq Pages
    BY <1>1, <1>2
<1>6. /\ CacheShape' /\ ServerInv' /\ OldInv' /\ SettleInv'
      /\ \A t, u \in Slots : MeetingInv(t, u)'
      /\ \A t \in Slots : SnapshotInv(t)'
      /\ \A q \in Queries : FetchInv(q)' /\ VersionInv(q)'
      /\ MutateFrame(p, "react", changed, distorted)
    BY <1>1, <1>4, <1>5, MutateKeeps
<1>7. /\ CountInv' /\ \A x \in People : FriendInv(x)'
      /\ \A n \in Notes : NoteInv(n)'
    BY <1>4, <1>6, UntouchedStay
<1>8. /\ slots[p] = Nobody /\ slots'[p].op = "react" /\ slots'[p].stage = "sent"
      /\ cache'["feed"] = changed["feed"] /\ server' = server
      /\ distorted \subseteq blurred' /\ StaysBlurred("feed")
      /\ \A t \in Slots \ {p} : KeepsRequest(t)
    BY <1>6, TouchedIs, QueriesAre DEF MutateFrame
<1>9. ASSUME NEW r \in Pages PROVE ReactionInv(r)'
    <2>1. CASE r # p
        BY <1>1, <1>3, <1>8, <2>1, ReactionStays, QueriesAre DEF CacheInv
    <2>2. CASE r = p
        <3>1. slots[p].op = "none" /\ cache["feed"].shows[p] \in Nat /\ server["feed"].shows[p] \in Nat
            BY <1>8, CountsAreNat DEF Nobody, CacheInv
        <3>2. <<"feed", p>> \in blurred \/ cache["feed"].shows[p] = server["feed"].shows[p]
            BY <3>1 DEF CacheInv, ReactionInv, Stage
        <3>3. delta = Unit(p \in selected')
            BY <1>1 DEF Unit
        <3>4. CASE cache["feed"].shows[p] + delta < 0
            BY <3>4, <1>8, <2>2 DEF distorted, ReactionInv
        <3>5. CASE ~(cache["feed"].shows[p] + delta < 0)
            <4>1. cache'["feed"].shows[p] = cache["feed"].shows[p] + delta
                BY <3>5, <1>3, <1>8 DEF NonNegative
            <4>2. ~Stage(p, {"react"}, "served")'
                BY <1>8 DEF Stage
            <4>3. \/ <<"feed", p>> \in blurred'
                  \/ cache'["feed"].shows[p] = server'["feed"].shows[p] + Unit(p \in selected') - 0
                BY <4>1, <3>1, <3>2, <3>3, <1>8 DEF StaysBlurred
            <4> QED BY <4>2, <4>3, <1>8, <2>2 DEF ReactionInv
        <3> QED BY <3>4, <3>5
    <2> QED BY <2>1, <2>2
<1> QED BY <1>6, <1>7, <1>9 DEF CacheInv

LEMMA FriendshipStarts ==
    ASSUME CacheInv, NEW x \in People, NEW op \in {"accept", "remove"}, NEW changed, NEW distorted,
           MutateFrame(x, op, changed, distorted)
    PROVE  /\ IsFiniteSet(Sent("accept")) /\ IsFiniteSet(Sent("remove"))
           /\ Cardinality(Sent(op)') = Cardinality(Sent(op)) + 1
           /\ \A o \in {"accept", "remove"} : o # op => Sent(o)' = Sent(o)
           /\ Sent(op)' = Sent(op) \cup {x} /\ x \notin Sent("accept") /\ x \notin Sent("remove")
<1>1. /\ slots[x].op = "none" /\ slots'[x].op = op /\ slots'[x].stage = "sent" /\ x \in Slots
      /\ \A y \in People \ {x} : KeepsRequest(y)
    BY QueriesAre DEF MutateFrame, Nobody
<1>2. \A o \in {"accept", "remove"} :
        Sent(o)' = (IF o = op THEN Sent(o) \cup {x} ELSE Sent(o)) /\ x \notin Sent(o)
    BY <1>1 DEF Sent, Stage, KeepsRequest
<1>3. \A o \in {"accept", "remove"} : IsFiniteSet(Sent(o))
    <2>1. \A o : Sent(o) \subseteq People
        BY DEF Sent
    <2> QED BY <2>1, FS_Subset, CacheAssumption
<1>4. Cardinality(Sent(op) \cup {x}) = Cardinality(Sent(op)) + 1
    BY <1>2, <1>3, FS_AddElement
<1>5. Sent(op)' = Sent(op) \cup {x}
    BY <1>2
<1> QED BY <1>2, <1>3, <1>4, <1>5

LEMMA AcceptKeeps ==
    ASSUME CacheInv, NEW x \in People, Accept(x)
    PROVE  CacheInv'
<1> DEFINE changed == [friends  |-> Accepted(cache["friends"], x),
                       requests |-> Dropped(cache["requests"], x),
                       profile  |-> Counted(cache["profile"], 1)]
<1>1. Mutate(x, "accept", {"profile"}, changed, {}) /\ selected' = selected
    BY DEF Accept
<1>2. /\ selected \subseteq Pages
      /\ cache["friends"] \in [version : Nat, shows : SUBSET People]
      /\ cache["requests"] \in [version : Nat, shows : SUBSET People]
      /\ cache["profile"] \in [version : Nat, shows : Nat]
    BY ShowsIs DEF CacheInv, CacheShape, Queries, Values
<1>3. /\ changed["friends"] \in [version : Nat, shows : SUBSET People]
      /\ changed["requests"] \in [version : Nat, shows : SUBSET People]
      /\ changed["profile"] \in [version : Nat, shows : Nat]
      /\ changed["friends"].version = cache["friends"].version
      /\ changed["requests"].version = cache["requests"].version
      /\ changed["profile"].version = cache["profile"].version
      /\ changed["friends"].shows = cache["friends"].shows \cup {x}
      /\ changed["requests"].shows = cache["requests"].shows \ {x}
      /\ changed["profile"].shows = cache["profile"].shows + 1
    <2>1. NonNegative(cache["profile"].shows + 1) = cache["profile"].shows + 1
        BY <1>2 DEF NonNegative
    <2> QED BY <1>2, <2>1 DEF Accepted, Dropped, Counted
<1> HIDE DEF changed
<1>4. Changes("accept", changed) /\ x \in Slots /\ "accept" \in Ops /\ {"profile"} \in SUBSET Queries
      /\ Fits(x, [op |-> "accept", refetch |-> {"profile"}])
    BY <1>3, TouchedIs, ShowsIs, QueriesAre DEF Changes, Values, Ops, Fits
<1>5. /\ CacheShape' /\ ServerInv' /\ OldInv' /\ SettleInv'
      /\ \A t, u \in Slots : MeetingInv(t, u)'
      /\ \A t \in Slots : SnapshotInv(t)'
      /\ \A q \in Queries : FetchInv(q)' /\ VersionInv(q)'
      /\ MutateFrame(x, "accept", changed, {})
    BY <1>1, <1>2, <1>4, MutateKeeps
<1>6. (\A p \in Pages : ReactionInv(p)') /\ \A n \in Notes : NoteInv(n)'
    BY <1>1, <1>4, <1>5, UntouchedStay
<1>7. /\ slots[x].op = "none" /\ slots'[x].op = "accept" /\ slots'[x].stage = "sent"
      /\ cache'["friends"] = changed["friends"] /\ cache'["requests"] = changed["requests"]
      /\ cache'["profile"] = changed["profile"] /\ server' = server
      /\ StaysBlurred("friends") /\ StaysBlurred("requests") /\ StaysBlurred("profile")
      /\ \A t \in Slots \ {x} : KeepsRequest(t)
    BY <1>5, TouchedIs, QueriesAre DEF MutateFrame, Nobody
<1>8. ASSUME NEW y \in People PROVE FriendInv(y)'
    <2>1. CASE y # x
        BY <1>3, <1>7, <2>1, FriendStays, QueriesAre DEF CacheInv
    <2>2. CASE y = x
        BY <1>3, <1>7, <2>2 DEF FriendInv, Stage
    <2> QED BY <2>1, <2>2
<1>9. CountInv'
    <2>1. /\ Cardinality(Sent("accept")') = Cardinality(Sent("accept")) + 1
          /\ Sent("remove")' = Sent("remove")
          /\ Cardinality(Sent("accept")) \in Nat /\ Cardinality(Sent("remove")) \in Nat
        BY <1>5, FriendshipStarts, FS_CardinalityType
    <2>2. CountInv /\ cache["profile"].shows \in Nat /\ server["profile"].shows \in Nat
        BY CountsAreNat DEF CacheInv
    <2> QED BY <1>3, <1>7, <2>1, <2>2 DEF CountInv, StaysBlurred, Befriended
<1> QED BY <1>5, <1>6, <1>8, <1>9 DEF CacheInv

LEMMA RemoveKeeps ==
    ASSUME CacheInv, NEW x \in People, Remove(x)
    PROVE  CacheInv'
<1> DEFINE changed == [friends |-> Dropped(cache["friends"], x),
                       profile |-> Counted(cache["profile"], -1)]
<1>1. Mutate(x, "remove", {"profile"}, changed, {}) /\ selected' = selected
    BY DEF Remove
<1>2. /\ selected \subseteq Pages
      /\ cache["friends"] \in [version : Nat, shows : SUBSET People]
      /\ cache["profile"] \in [version : Nat, shows : Nat]
    BY ShowsIs DEF CacheInv, CacheShape, Queries, Values
<1>3. /\ changed["friends"] \in [version : Nat, shows : SUBSET People]
      /\ changed["profile"] \in [version : Nat, shows : Nat]
      /\ changed["friends"].version = cache["friends"].version
      /\ changed["profile"].version = cache["profile"].version
      /\ changed["friends"].shows = cache["friends"].shows \ {x}
      /\ changed["profile"].shows = NonNegative(cache["profile"].shows - 1)
    <2>1. /\ NonNegative(cache["profile"].shows + (-1)) \in Nat
          /\ cache["profile"].shows + (-1) = cache["profile"].shows - 1
        BY <1>2 DEF NonNegative
    <2> QED BY <1>2, <2>1 DEF Dropped, Counted
<1> HIDE DEF changed
<1>4. Changes("remove", changed) /\ x \in Slots /\ "remove" \in Ops /\ {"profile"} \in SUBSET Queries
      /\ Fits(x, [op |-> "remove", refetch |-> {"profile"}])
    BY <1>3, TouchedIs, ShowsIs, QueriesAre DEF Changes, Values, Ops, Fits
<1>5. /\ CacheShape' /\ ServerInv' /\ OldInv' /\ SettleInv'
      /\ \A t, u \in Slots : MeetingInv(t, u)'
      /\ \A t \in Slots : SnapshotInv(t)'
      /\ \A q \in Queries : FetchInv(q)' /\ VersionInv(q)'
      /\ MutateFrame(x, "remove", changed, {})
    BY <1>1, <1>2, <1>4, MutateKeeps
<1>6. (\A p \in Pages : ReactionInv(p)') /\ \A n \in Notes : NoteInv(n)'
    BY <1>1, <1>4, <1>5, UntouchedStay
<1>7. /\ slots[x].op = "none" /\ slots'[x].op = "remove" /\ slots'[x].stage = "sent"
      /\ cache'["friends"] = changed["friends"] /\ cache'["requests"] = cache["requests"]
      /\ cache'["profile"] = changed["profile"] /\ server' = server
      /\ StaysBlurred("friends") /\ StaysBlurred("requests") /\ StaysBlurred("profile")
      /\ \A t \in Slots \ {x} : KeepsRequest(t)
    BY <1>5, TouchedIs, QueriesAre DEF MutateFrame, Nobody
<1>8. ASSUME NEW y \in People PROVE FriendInv(y)'
    <2>1. CASE y # x
        BY <1>3, <1>7, <2>1, FriendStays, QueriesAre DEF CacheInv
    <2>2. CASE y = x
        <3>1. FriendInv(x)
            BY DEF CacheInv
        <3> QED BY <3>1, <1>3, <1>7, <2>2 DEF FriendInv, Stage, StaysBlurred
    <2> QED BY <2>1, <2>2
<1>9. CountInv'
    <2>1. /\ Cardinality(Sent("remove")') = Cardinality(Sent("remove")) + 1
          /\ Sent("accept")' = Sent("accept") /\ Sent("remove")' = Sent("remove") \cup {x}
          /\ x \notin Sent("remove") /\ IsFiniteSet(Sent("remove"))
          /\ Cardinality(Sent("accept")) \in Nat /\ Cardinality(Sent("remove")) \in Nat
        BY <1>5, FriendshipStarts, FS_CardinalityType
    <2>2. CountInv /\ cache["profile"].shows \in Nat /\ server["profile"].shows \in Nat
        BY CountsAreNat DEF CacheInv
    <2>3. CASE \E y \in Sent("remove") \cup {x} : y \notin Befriended
        BY <1>7, <2>1, <2>3 DEF CountInv, Befriended
    <2>4. CASE Sent("remove") \cup {x} \subseteq Befriended
        <3>1. Befriended \subseteq People /\ server["profile"].shows = Cardinality(Befriended)
            BY CountsAreNat DEF CacheInv, ServerInv, Befriended
        <3>2. Cardinality(Sent("remove")') <= server["profile"].shows
            BY <2>1, <2>4, <3>1, FS_Subset, CacheAssumption
        <3>3. \/ <<"profile", "count">> \in blurred
              \/ cache["profile"].shows = server["profile"].shows
                    + Cardinality(Sent("accept")) - Cardinality(Sent("remove"))
            BY <2>2, <2>4 DEF CountInv
        <3>4. CASE <<"profile", "count">> \in blurred
            BY <3>4, <1>7 DEF CountInv, StaysBlurred
        <3>5. CASE cache["profile"].shows = server["profile"].shows
                      + Cardinality(Sent("accept")) - Cardinality(Sent("remove"))
            <4>1. cache'["profile"].shows = cache["profile"].shows - 1
                BY <1>3, <1>7, <2>1, <2>2, <3>2, <3>5 DEF NonNegative
            <4> QED BY <4>1, <1>7, <2>1, <2>2, <3>5 DEF CountInv
        <3> QED BY <3>3, <3>4, <3>5
    <2> QED BY <2>3, <2>4
<1> QED BY <1>5, <1>6, <1>8, <1>9 DEF CacheInv

LEMMA ReadKeeps ==
    ASSUME CacheInv, ReadAll \/ \E n \in Notes : ReadOne(n)
    PROVE  CacheInv'
<1>1. PICK s \in Slots, op \in {"readOne", "readAll"}, gone \in SUBSET Notes :
        /\ Mutate(s, op, {}, [inbox |-> [cache["inbox"] EXCEPT !.shows = @ \ gone]], {})
        /\ selected' = selected
        /\ op = "readOne" => s \in Notes /\ gone = {s}
        /\ op = "readAll" => s = "all" /\ gone = Notes
    <2>1. CASE ReadAll
        <3>1. cache["inbox"].shows \ Notes = {}
            BY CountsAreNat DEF CacheInv
        <3>2. [cache["inbox"] EXCEPT !.shows = {}] = [cache["inbox"] EXCEPT !.shows = @ \ Notes]
            BY <3>1
        <3> QED BY <2>1, <3>2, QueriesAre DEF ReadAll
    <2>2. CASE \E n \in Notes : ReadOne(n)
        <3>1. PICK n \in Notes : ReadOne(n)
            BY <2>2
        <3>2. /\ Mutate(n, "readOne", {}, [inbox |-> [cache["inbox"] EXCEPT !.shows = @ \ {n}]], {})
              /\ selected' = selected /\ n \in Slots /\ {n} \in SUBSET Notes
            BY <3>1, QueriesAre DEF ReadOne, Dropped
        <3> QED BY <3>2
    <2> QED BY <2>1, <2>2
<1> DEFINE changed == [inbox |-> [cache["inbox"] EXCEPT !.shows = @ \ gone]]
<1>2. selected \subseteq Pages /\ cache["inbox"] \in [version : Nat, shows : SUBSET Notes]
    BY ShowsIs DEF CacheInv, CacheShape, Queries, Values
<1>3. /\ changed["inbox"] \in [version : Nat, shows : SUBSET Notes]
      /\ changed["inbox"].version = cache["inbox"].version
      /\ changed["inbox"].shows = cache["inbox"].shows \ gone
    BY <1>2
<1>4. Mutate(s, op, {}, changed, {})
    BY <1>1
<1> HIDE DEF changed
<1>5. Changes(op, changed) /\ op \in Ops /\ Fits(s, [op |-> op, refetch |-> {}])
    BY <1>1, <1>3, TouchedIs, ShowsIs, QueriesAre DEF Changes, Values, Ops, Fits
<1>6. /\ CacheShape' /\ ServerInv' /\ OldInv' /\ SettleInv'
      /\ \A t, u \in Slots : MeetingInv(t, u)'
      /\ \A t \in Slots : SnapshotInv(t)'
      /\ \A q \in Queries : FetchInv(q)' /\ VersionInv(q)'
      /\ MutateFrame(s, op, changed, {})
    BY <1>1, <1>2, <1>4, <1>5, MutateKeeps
<1>7. /\ CountInv' /\ \A x \in People : FriendInv(x)'
      /\ \A p \in Pages : ReactionInv(p)'
    BY <1>1, <1>5, <1>6, UntouchedStay
<1>8. /\ slots[s].op = "none" /\ slots'[s].op = op /\ slots'[s].stage = "sent"
      /\ cache'["inbox"] = changed["inbox"] /\ server' = server /\ StaysBlurred("inbox")
      /\ \A t \in Slots \ {s} : KeepsRequest(t)
    BY <1>1, <1>6, TouchedIs, QueriesAre DEF MutateFrame, Nobody
<1>9. ASSUME NEW n \in Notes PROVE NoteInv(n)'
    <2>1. CASE n \in gone
        <3>1. \A t \in Slots : Reads(t, n)' => t = s \/ (Reads(t, n) /\ slots'[t].stage = slots[t].stage)
            BY <1>8 DEF Reads, KeepsRequest
        <3>2. Reads(s, n)' /\ n \notin cache'["inbox"].shows
            BY <1>1, <1>3, <1>8, <2>1 DEF Reads
        <3>3. NoteInv(n)
            BY DEF CacheInv
        <3> QED BY <3>1, <3>2, <3>3, <1>8 DEF NoteInv, StaysBlurred
    <2>2. CASE n \notin gone
        <3>1. \A t \in Slots : KeepsRequest(t) \/ (~Reads(t, n) /\ ~Reads(t, n)')
            BY <1>1, <1>8, <2>2 DEF Reads
        <3> QED BY <3>1, <1>3, <1>8, <2>2, NoteStays DEF CacheInv
    <2> QED BY <2>1, <2>2
<1> QED BY <1>6, <1>7, <1>9 DEF CacheInv

-----------------------------------------------------------------------------
(* A form is sent.                                                         *)

LEMMA SubmitKeeps ==
    ASSUME CacheInv, NEW f \in Forms, NEW op \in Ops, NEW refetch \in SUBSET Queries,
           op \notin {"react", "accept", "remove", "readOne", "readAll"},
           Submit(f, op, refetch)
    PROVE  CacheInv'
<1> USE DEF CacheInv
<1>1. /\ slots[f] = Nobody /\ slots' = Joined(f, Request(op, refetch)) /\ f \in Slots
      /\ UNCHANGED <<server, cache, selected, mine, fetch, failures, blurred, outdated>>
    BY QueriesAre DEF Submit
<1>2. Touched(op) = {} /\ Fits(f, [op |-> op, refetch |-> refetch])
    BY TouchedIs DEF Fits
<1>3. /\ slots' = [t \in Slots |-> slots'[t]]
      /\ slots'[f] \in Requests(op) /\ slots'[f].refetch = refetch /\ slots'[f].stage = "sent"
      /\ slots'[f].alone => \A q \in Touched(op) \cup refetch : Pending(q) = {}
      /\ \A t \in Slots \ {f} :
            /\ KeepsRequest(t)
            /\ InFlight(t) /\ Reach(slots[t]) \cap (Touched(op) \cup refetch) # {} => ~slots'[t].alone
      /\ \A t \in Slots : RequestInv(t)'
    <2> HIDE DEF CacheInv
    <2>1. CacheShape
        BY DEF CacheInv
    <2>2. Enters(f, op, refetch)
        BY <1>1, <1>2, <2>1, JoinedIs
    <2> QED BY <2>2 DEF Enters
<1>4. slots'[f].op = op /\ slots[f].op = "none" /\ ~InFlight(f)
    BY <1>1, <1>3 DEF Requests, Nobody, InFlight
<1>5. \A q \in Queries : StaysBlurred(q)
    BY <1>1 DEF StaysBlurred
<1>6. CacheShape'
    BY <1>1, <1>3 DEF CacheShape
<1>7. ServerInv'
    BY <1>1 DEF ServerInv, Befriended
<1>8. \A t, u \in Slots : MeetingInv(t, u)'
    <2> HIDE DEF CacheInv
    <2> QED BY <1>1, <1>2, JoinedMeets
<1>9. ASSUME NEW t \in Slots PROVE SnapshotInv(t)'
    <2>1. CASE t # f
        <3>1. \A q \in Touched(slots[t].op) : \A i \in Parts(q) \cup {"version"} :
                /\ <<q, i>> \in blurred => <<q, i>> \in blurred'
                /\ <<q, i>> \in blurred' \/ Alike(server[q], server'[q], q, i)
            BY <1>1 DEF Alike
        <3> QED BY <2>1, <3>1, <1>3, SnapshotStays
    <2>2. CASE t = f
        BY <2>2, <1>2, <1>4 DEF SnapshotInv
    <2> QED BY <2>1, <2>2
<1>10. ASSUME NEW q \in Queries PROVE FetchInv(q)' /\ VersionInv(q)'
    <2>1. \A t \in Slots : InFlight(t)' => \/ q \notin Touched(slots'[t].op)
                                           \/ InFlight(t) /\ slots'[t].op = slots[t].op
        BY <1>2, <1>3, <1>4 DEF KeepsRequest, InFlight
    <2>2. FetchInv(q)'
        BY <2>1, <1>1, FetchStays
    <2>3. \A t \in Slots : InFlight(t) => KeepsRequest(t)
        BY <1>3, <1>4
    <2>4. VersionInv(q)'
        BY <1>1, <2>3 DEF VersionInv, KeepsRequest, InFlight
    <2> QED BY <2>2, <2>4
<1>11. /\ \A p \in Pages : KeepsRequest(p) \/ (slots[p].op # "react" /\ slots'[p].op # "react")
       /\ \A x \in People : \/ KeepsRequest(x)
                            \/ /\ slots[x].op \notin {"accept", "remove"}
                               /\ slots'[x].op \notin {"accept", "remove"}
       /\ \A t \in Slots : \A n : KeepsRequest(t) \/ (~Reads(t, n) /\ ~Reads(t, n)')
    BY <1>3, <1>4, QueriesAre DEF Reads
<1>12. "feed" \in Queries /\ "friends" \in Queries /\ "requests" \in Queries
       /\ "profile" \in Queries /\ "inbox" \in Queries
    BY QueriesAre
<1>13. \A p \in Pages : ReactionInv(p)'
    BY <1>1, <1>5, <1>11, <1>12, ReactionStays
<1>14. \A x \in People : FriendInv(x)'
    BY <1>1, <1>5, <1>11, <1>12, FriendStays
<1>15. CountInv' /\ SettleInv'
    BY <1>1, <1>5, <1>11, <1>12, CountStays, SettleStays
<1>16. \A n \in Notes : NoteInv(n)'
    BY <1>1, <1>5, <1>11, <1>12, NoteStays
<1>17. OldInv'
    <2>1. \A q \in Queries : server[q].version <= server'[q].version
        BY <1>1 DEF CacheShape, Values
    <2>2. \A t \in Slots : InFlight(t)' =>
            \/ InFlight(t) /\ slots'[t].op = slots[t].op /\ slots'[t].snapshot = slots[t].snapshot
            \/ \A q \in Touched(slots'[t].op) : slots'[t].snapshot[q] = cache[q]
        BY <1>2, <1>3, <1>4 DEF KeepsRequest, InFlight
    <2> QED BY <1>1, <1>6, <2>1, <2>2, OldStays
<1> QED BY <1>6, <1>7, <1>8, <1>9, <1>10, <1>13, <1>14, <1>15, <1>16, <1>17

-----------------------------------------------------------------------------
(* Fetches and notifications.                                              *)

LEMMA SlotsStay ==
    ASSUME slots' = slots
    PROVE  /\ \A t : KeepsRequest(t)
           /\ \A t, u \in Slots : MeetingInv(t, u) => MeetingInv(t, u)'
<1>1. \A t : KeepsRequest(t)
    BY DEF KeepsRequest
<1> QED BY <1>1 DEF MeetingInv, InFlight, Reach

LEMMA CrossedOrNot ==
    ASSUME NEW q, NEW v \in Fetches(q)
    PROVE  /\ v.at \in {"idle", "asked", "answered"} /\ v.crossed \in BOOLEAN
           /\ v.at = "answered" => v.data \in Values(q)
           /\ v.at = "idle" => v = NoFetch
           /\ v.at = "asked" => v = Asked(v.crossed)
           /\ v.at = "answered" =>
                /\ [v EXCEPT !.crossed = TRUE] \in Fetches(q)
                /\ [v EXCEPT !.crossed = TRUE].at = "answered"
                /\ [v EXCEPT !.crossed = TRUE].crossed = TRUE
                /\ [v EXCEPT !.crossed = TRUE].data = v.data
<1>1. CASE v = NoFetch
    BY <1>1 DEF NoFetch
<1>2. ASSUME NEW c \in BOOLEAN, v = Asked(c)
      PROVE  v.at = "asked" /\ v.crossed = c
    BY <1>2 DEF Asked
<1>3. CASE v \in {Asked(TRUE), Asked(FALSE)}
    <2>1. PICK c \in BOOLEAN : v = Asked(c)
        BY <1>3
    <2>2. v.at = "asked" /\ v.crossed = c
        BY <1>2, <2>1
    <2> QED BY <2>1, <2>2
<1>4. CASE v \in [at : {"answered"}, data : Values(q), crossed : BOOLEAN]
    <2>1. /\ v.at = "answered" /\ v.data \in Values(q) /\ v.crossed \in BOOLEAN
        BY <1>4
    <2>2. [v EXCEPT !.crossed = TRUE] \in [at : {"answered"}, data : Values(q), crossed : BOOLEAN]
        BY <1>4
    <2>3. /\ [v EXCEPT !.crossed = TRUE].at = "answered"
          /\ [v EXCEPT !.crossed = TRUE].crossed = TRUE
          /\ [v EXCEPT !.crossed = TRUE].data = v.data
        BY <1>4
    <2> QED BY <2>1, <2>2, <2>3 DEF Fetches
<1> QED BY <1>1, <1>3, <1>4 DEF Fetches

\* A fetch of q begins, is served or fails.
LEMMA FetchKeeps ==
    ASSUME CacheInv, NEW q \in Queries, UNCHANGED <<server, cache, selected, mine, slots>>,
           \A r \in Queries : r # q => fetch'[r] = fetch[r],
           fetch' = [r \in Queries |-> fetch'[r]], fetch'[q] \in Fetches(q),
           \A r \in Queries : StaysBlurred(r),
           fetch'[q].at = "answered" => fetch'[q].data = server[q],
           FetchInv(q)', VersionInv(q)', SettleInv'
    PROVE  CacheInv'
<1>1. /\ CacheShape /\ ServerInv /\ OldInv /\ CountInv
      /\ \A t, u \in Slots : MeetingInv(t, u)
      /\ \A t \in Slots : SnapshotInv(t)
      /\ \A r \in Queries : FetchInv(r) /\ VersionInv(r)
      /\ \A p \in Pages : ReactionInv(p)
      /\ \A x \in People : FriendInv(x)
      /\ \A n \in Notes : NoteInv(n)
    BY DEF CacheInv
<1>2. /\ \A t : KeepsRequest(t)
      /\ \A t, u \in Slots : MeetingInv(t, u)'
    BY <1>1, SlotsStay
<1>3. "feed" \in Queries /\ "friends" \in Queries /\ "requests" \in Queries
      /\ "profile" \in Queries /\ "inbox" \in Queries
    BY QueriesAre
<1>4. CacheShape' /\ ServerInv'
    BY <1>1 DEF CacheShape, RequestInv, Fits, ServerInv, Befriended
<1>5. ASSUME NEW t \in Slots PROVE SnapshotInv(t)'
    <2>1. \A r \in Touched(slots[t].op) : \A i \in Parts(r) \cup {"version"} :
            /\ <<r, i>> \in blurred => <<r, i>> \in blurred'
            /\ <<r, i>> \in blurred' \/ Alike(server[r], server'[r], r, i)
        BY TouchedIs DEF StaysBlurred, Alike
    <2> QED BY <1>1, <1>2, <2>1, SnapshotStays
<1>6. ASSUME NEW r \in Queries PROVE FetchInv(r)' /\ VersionInv(r)'
    <2>1. CASE r = q
        BY <2>1
    <2>2. CASE r # q
        <3>1. FetchInv(r)'
            BY <1>1, <2>2, FetchStays DEF InFlight
        <3>2. VersionInv(r)'
            BY <1>1, <2>2 DEF VersionInv, StaysBlurred, InFlight
        <3> QED BY <3>1, <3>2
    <2> QED BY <2>1, <2>2
<1>7. \A p \in Pages : ReactionInv(p)'
    BY <1>1, <1>2, <1>3, ReactionStays
<1>8. \A x \in People : FriendInv(x)'
    BY <1>1, <1>2, <1>3, FriendStays
<1>9. CountInv'
    BY <1>1, <1>2, <1>3, CountStays
<1>10. \A n \in Notes : NoteInv(n)'
    BY <1>1, <1>2, <1>3, NoteStays
<1>11. OldInv'
    <2>1. \A r \in Queries : server[r].version <= server'[r].version
        BY <1>1 DEF CacheShape, Values
    <2>2. \A r \in Queries : fetch'[r].at = "answered" =>
            \/ fetch[r].at = "answered" /\ fetch'[r].data = fetch[r].data
            \/ fetch'[r].data = server[r]
        OBVIOUS
    <2> QED BY <1>1, <1>2, <1>4, <2>1, <2>2, OldStays DEF InFlight
<1> QED BY <1>2, <1>4, <1>5, <1>6, <1>7, <1>8, <1>9, <1>10, <1>11 DEF CacheInv

LEMMA SettledOutside ==
    ASSUME CacheInv, NEW q \in Queries, q # "profile", UNCHANGED <<server, cache, slots>>,
           fetch'["profile"] = fetch["profile"], "profile" \in outdated => "profile" \in outdated'
    PROVE  SettleInv'
<1>1. \A x \in People : KeepsRequest(x)
    BY SlotsStay
<1> QED BY <1>1, SettleStays DEF CacheInv

LEMMA StartFetchKeeps ==
    ASSUME CacheInv, NEW q \in Queries, StartFetch(q)
    PROVE  CacheInv'
<1>1. /\ fetch' = [fetch EXCEPT ![q] = Asked(Pending(q) # {})] /\ outdated' = outdated
      /\ UNCHANGED <<server, cache, selected, mine, slots>> /\ blurred' = blurred
    BY DEF StartFetch
<1>2. fetch = [r \in Queries |-> fetch[r]] /\ \A r \in Queries : fetch[r] \in Fetches(r)
    BY DEF CacheInv, CacheShape
<1>3. PICK c \in BOOLEAN : c <=> Pending(q) # {}
    OBVIOUS
<1>4. fetch'[q] = Asked(c) /\ \A r \in Queries : r # q => fetch'[r] = fetch[r]
    <2>1. c = (Pending(q) # {})
        BY <1>3
    <2> QED BY <2>1, <1>1, <1>2
<1>5. fetch' = [r \in Queries |-> fetch'[r]] /\ fetch'[q] \in Fetches(q)
    <2>1. fetch' = [r \in Queries |-> fetch'[r]]
        BY <1>1, <1>2
    <2>2. Asked(c) \in Fetches(q)
        BY DEF Fetches, Asked
    <2> QED BY <1>4, <2>1, <2>2
<1>6. FetchInv(q)'
    <2>1. fetch'[q].at = "asked" /\ fetch'[q].crossed = c
        BY <1>4 DEF Asked
    <2>2. ~c => \A s \in Slots : InFlight(s)' => q \notin Touched(slots'[s].op)
        BY <1>1, <1>3 DEF Pending, InFlight
    <2> QED BY <2>1, <2>2 DEF FetchInv
<1>7. VersionInv(q)'
    BY <1>4 DEF VersionInv, Asked
<1>8. SettleInv'
    <2>1. CASE q = "profile"
        BY <1>4, <2>1 DEF SettleInv, Asked
    <2>2. CASE q # "profile"
        BY <1>1, <1>4, <2>2, QueriesAre, SettledOutside
    <2> QED BY <2>1, <2>2
<1>9. /\ \A r \in Queries : StaysBlurred(r)
      /\ fetch'[q].at # "answered"
    BY <1>1, <1>4 DEF StaysBlurred, Asked
<1> QED BY <1>1, <1>4, <1>5, <1>6, <1>7, <1>8, <1>9, FetchKeeps

LEMMA ServeFetchKeeps ==
    ASSUME CacheInv, NEW q \in Queries, ServeFetch(q)
    PROVE  CacheInv'
<1>1. /\ fetch[q].at = "asked" /\ outdated' = outdated
      /\ fetch' = [fetch EXCEPT ![q].at = "answered", ![q].data = server[q]]
      /\ UNCHANGED <<server, cache, selected, mine, slots>> /\ blurred' = blurred
    BY DEF ServeFetch
<1>2. /\ fetch = [r \in Queries |-> fetch[r]] /\ \A r \in Queries : fetch[r] \in Fetches(r)
      /\ server[q] \in Values(q)
    BY DEF CacheInv, CacheShape
<1>3. fetch[q].crossed \in BOOLEAN /\ fetch[q] = Asked(fetch[q].crossed)
    BY <1>1, <1>2, CrossedOrNot
<1>4. /\ fetch'[q] = [at |-> "answered", data |-> server[q], crossed |-> fetch[q].crossed]
      /\ \A r \in Queries : r # q => fetch'[r] = fetch[r]
    BY <1>1, <1>2, <1>3 DEF Asked
<1>5. fetch' = [r \in Queries |-> fetch'[r]] /\ fetch'[q] \in Fetches(q)
    <2>1. fetch' = [r \in Queries |-> fetch'[r]]
        BY <1>1, <1>2
    <2>2. fetch'[q] \in [at : {"answered"}, data : Values(q), crossed : BOOLEAN]
        BY <1>2, <1>3, <1>4
    <2> QED BY <2>1, <2>2 DEF Fetches
<1>6. FetchInv(q)'
    <2>1. FetchInv(q)
        BY DEF CacheInv
    <2> QED BY <1>1, <1>4, <2>1 DEF FetchInv, InFlight
<1>7. VersionInv(q)'
    BY <1>4 DEF VersionInv
<1>8. SettleInv'
    <2>1. CASE q = "profile"
        BY <1>1, <1>4, <2>1 DEF SettleInv
    <2>2. CASE q # "profile"
        BY <1>1, <1>4, <2>2, QueriesAre, SettledOutside
    <2> QED BY <2>1, <2>2
<1>9. /\ \A r \in Queries : StaysBlurred(r)
      /\ fetch'[q].data = server[q]
    BY <1>1, <1>4 DEF StaysBlurred
<1> QED BY <1>1, <1>4, <1>5, <1>6, <1>7, <1>8, <1>9, FetchKeeps

LEMMA FetchFailsKeeps ==
    ASSUME CacheInv, NEW q \in Queries, FetchFails(q)
    PROVE  CacheInv'
<1>1. /\ fetch' = [fetch EXCEPT ![q] = NoFetch] /\ outdated' = outdated \cup {q}
      /\ UNCHANGED <<server, cache, selected, mine, slots>>
      /\ blurred' = blurred \cup {<<q, "version">>}
    BY DEF FetchFails
<1>2. fetch = [r \in Queries |-> fetch[r]] /\ \A r \in Queries : fetch[r] \in Fetches(r)
    BY DEF CacheInv, CacheShape
<1>3. fetch'[q] = NoFetch /\ \A r \in Queries : r # q => fetch'[r] = fetch[r]
    BY <1>1, <1>2
<1>4. fetch' = [r \in Queries |-> fetch'[r]] /\ fetch'[q] \in Fetches(q)
    BY <1>1, <1>2, <1>3 DEF Fetches
<1>5. FetchInv(q)' /\ VersionInv(q)'
    BY <1>1, <1>3 DEF FetchInv, VersionInv, NoFetch
<1>6. SettleInv'
    <2>1. CASE q = "profile"
        BY <1>1, <1>3, <2>1 DEF SettleInv, NoFetch
    <2>2. CASE q # "profile"
        BY <1>1, <1>3, <2>2, QueriesAre, SettledOutside
    <2> QED BY <2>1, <2>2
<1>7. /\ \A r \in Queries : StaysBlurred(r)
      /\ fetch'[q].at # "answered"
    BY <1>1, <1>3 DEF StaysBlurred, NoFetch
<1> QED BY <1>1, <1>3, <1>4, <1>5, <1>6, <1>7, FetchKeeps

LEMMA ArriveKeeps ==
    ASSUME CacheInv, NEW q \in Queries, Arrive(q)
    PROVE  CacheInv'
<1>1. /\ fetch[q].at = "answered" /\ cache' = [cache EXCEPT ![q] = fetch[q].data]
      /\ blurred' = (IF fetch[q].crossed THEN blurred \cup Whole(q) ELSE blurred \ Whole(q))
      /\ outdated' = outdated \ {q} /\ fetch' = [fetch EXCEPT ![q] = NoFetch]
      /\ UNCHANGED <<server, selected, mine, slots>>
    BY DEF Arrive
<1>2. /\ CacheShape /\ ServerInv /\ CountInv /\ SettleInv
      /\ \A t, u \in Slots : MeetingInv(t, u)
      /\ \A t \in Slots : SnapshotInv(t)
      /\ \A r \in Queries : FetchInv(r) /\ VersionInv(r)
      /\ \A p \in Pages : ReactionInv(p)
      /\ \A x \in People : FriendInv(x)
      /\ \A n \in Notes : NoteInv(n)
    BY DEF CacheInv
<1>3. fetch[q].crossed \in BOOLEAN /\ fetch[q].data \in Values(q)
    BY <1>1, <1>2, CrossedOrNot DEF CacheShape
<1>4. /\ cache'[q] = fetch[q].data /\ fetch'[q] = NoFetch
      /\ \A r \in Queries : r # q => cache'[r] = cache[r] /\ fetch'[r] = fetch[r]
    BY <1>1, <1>2 DEF CacheShape
<1>5. /\ \A t : KeepsRequest(t)
      /\ \A t, u \in Slots : MeetingInv(t, u)'
    BY <1>1, <1>2, SlotsStay
<1>6. \A r \in Queries : r # q =>
        /\ StaysBlurred(r) /\ \A i : <<r, i>> \in blurred' => <<r, i>> \in blurred
    BY <1>1 DEF StaysBlurred, Whole
<1>7. \/ \A i \in Parts(q) \cup {"version"} : <<q, i>> \in blurred'
      \/ /\ cache'[q] = server[q]
         /\ \A s \in Slots : InFlight(s) => q \notin Touched(slots[s].op)
    BY <1>1, <1>2, <1>3, <1>4 DEF Whole, FetchInv
<1>8. "feed" \in Queries /\ "friends" \in Queries /\ "requests" \in Queries
      /\ "profile" \in Queries /\ "inbox" \in Queries
    BY QueriesAre
<1>9. CacheShape' /\ ServerInv'
    <2>1. cache' = [r \in Queries |-> cache'[r]] /\ \A r \in Queries : cache'[r] \in Values(r)
        BY <1>1, <1>2, <1>3, <1>4 DEF CacheShape
    <2>2. fetch' = [r \in Queries |-> fetch'[r]] /\ \A r \in Queries : fetch'[r] \in Fetches(r)
        BY <1>1, <1>2, <1>4 DEF CacheShape, Fetches
    <2> QED BY <1>1, <1>2, <2>1, <2>2 DEF CacheShape, RequestInv, Fits, ServerInv, Befriended
<1>10. ASSUME NEW t \in Slots PROVE SnapshotInv(t)'
    <2>1. CASE ~InFlight(t)
        BY <1>1, <2>1 DEF SnapshotInv, InFlight
    <2>2. CASE InFlight(t)
        <3>1. ASSUME NEW r \in Touched(slots[t].op), NEW i \in Parts(r) \cup {"version"}
              PROVE  <<r, i>> \in blurred => <<r, i>> \in blurred'
            BY <1>6, <1>7, <2>2, <3>1, TouchedIs DEF StaysBlurred
        <3> QED BY <1>1, <1>2, <1>5, <3>1, SnapshotStays DEF Alike
    <2> QED BY <2>1, <2>2
<1>11. ASSUME NEW r \in Queries PROVE FetchInv(r)' /\ VersionInv(r)'
    <2>1. CASE r = q
        BY <1>1, <1>4, <1>7, <2>1 DEF FetchInv, VersionInv, NoFetch
    <2>2. CASE r # q
        <3>1. FetchInv(r)'
            BY <1>1, <1>2, <1>4, <2>2, FetchStays DEF InFlight
        <3>2. VersionInv(r)'
            BY <1>1, <1>2, <1>4, <1>6, <2>2 DEF VersionInv, StaysBlurred, InFlight
        <3> QED BY <3>1, <3>2
    <2> QED BY <2>1, <2>2
<1>12. ASSUME NEW p \in Pages PROVE ReactionInv(p)'
    <2>1. CASE q = "feed"
        <3>1. CASE <<"feed", p>> \in blurred'
            BY <3>1 DEF ReactionInv
        <3>2. CASE <<"feed", p>> \notin blurred'
            <4>1. /\ cache'["feed"] = server["feed"]
                  /\ \A s \in Slots : InFlight(s) => "feed" \notin Touched(slots[s].op)
                BY <1>7, <2>1, <3>2 DEF Parts
            <4>2. slots[p].op # "react"
                BY <4>1, TouchedIs, QueriesAre DEF InFlight
            <4>3. server["feed"].shows[p] \in Nat
                BY <1>2, CountsAreNat
            <4> QED BY <1>1, <4>1, <4>2, <4>3 DEF ReactionInv, Stage
        <3> QED BY <3>1, <3>2
    <2>2. CASE q # "feed"
        BY <1>1, <1>2, <1>4, <1>5, <1>6, <1>8, <2>2, ReactionStays
    <2> QED BY <2>1, <2>2
<1>13. ASSUME NEW x \in People PROVE FriendInv(x)'
    <2>1. CASE q \notin {"friends", "requests"}
        BY <1>1, <1>2, <1>4, <1>5, <1>6, <1>8, <2>1, FriendStays
    <2>2. CASE q = "friends"
        <3>1. \/ <<"friends", x>> \in blurred'
              \/ cache'["friends"] = server["friends"] /\ slots[x].op \notin {"accept", "remove"}
            BY <1>7, <2>2, TouchedIs, QueriesAre DEF Parts, InFlight
        <3>2. cache'["requests"] = cache["requests"] /\ StaysBlurred("requests")
            BY <1>4, <1>6, <1>8, <2>2
        <3> QED BY <1>1, <1>2, <3>1, <3>2 DEF FriendInv, StaysBlurred, Stage, Befriended
    <2>3. CASE q = "requests"
        <3>1. \/ <<"requests", x>> \in blurred'
              \/ cache'["requests"] = server["requests"] /\ slots[x].op # "accept"
            BY <1>7, <2>3, TouchedIs, QueriesAre DEF Parts, InFlight
        <3>2. cache'["friends"] = cache["friends"] /\ StaysBlurred("friends")
            BY <1>4, <1>6, <1>8, <2>3
        <3> QED BY <1>1, <1>2, <3>1, <3>2 DEF FriendInv, StaysBlurred, Stage, Befriended
    <2> QED BY <2>1, <2>2, <2>3
<1>14. CountInv'
    <2>1. CASE q # "profile"
        BY <1>1, <1>2, <1>4, <1>5, <1>6, <1>8, <2>1, CountStays
    <2>2. CASE q = "profile"
        <3>1. CASE <<"profile", "count">> \in blurred'
            BY <3>1 DEF CountInv
        <3>2. CASE <<"profile", "count">> \notin blurred'
            <4>1. /\ cache'["profile"] = server["profile"]
                  /\ \A s \in Slots : InFlight(s) => "profile" \notin Touched(slots[s].op)
                BY <1>7, <2>2, <3>2 DEF Parts
            <4>2. \A x \in People : slots[x].op \notin {"accept", "remove"}
                BY <4>1, TouchedIs, QueriesAre DEF InFlight
            <4>3. Sent("accept")' = {} /\ Sent("remove")' = {}
                BY <1>1, <4>2 DEF Sent, Stage
            <4>4. Cardinality(Sent("accept")') = 0 /\ Cardinality(Sent("remove")') = 0
                BY <4>3, FS_EmptySet
            <4>5. server["profile"].shows \in Nat
                BY <1>2, CountsAreNat
            <4> QED BY <1>1, <4>1, <4>4, <4>5 DEF CountInv
        <3> QED BY <3>1, <3>2
    <2> QED BY <2>1, <2>2
<1>15. ASSUME NEW n \in Notes PROVE NoteInv(n)'
    <2>1. CASE q # "inbox"
        BY <1>1, <1>2, <1>4, <1>5, <1>6, <1>8, <2>1, NoteStays
    <2>2. CASE q = "inbox"
        <3>1. \/ <<"inbox", n>> \in blurred'
              \/ /\ cache'["inbox"] = server["inbox"]
                 /\ \A s \in Slots : slots[s].op \notin {"readOne", "readAll"}
            BY <1>7, <2>2, TouchedIs DEF Parts, InFlight
        <3> QED BY <1>1, <3>1 DEF NoteInv, Reads
    <2> QED BY <2>1, <2>2
<1>16. SettleInv'
    <2>1. CASE q # "profile"
        BY <1>1, <1>2, <1>4, <1>5, <1>8, <2>1, SettleStays
    <2>2. CASE q = "profile"
        <3>1. fetch'["profile"].at = "idle"
            BY <1>4, <2>2 DEF NoFetch
        <3>2. Quiet' => Settled
            BY <1>1 DEF Quiet, Settled, Stage
        <3> QED BY <1>1, <1>2, <1>4, <2>2, <3>1, <3>2 DEF SettleInv
    <2> QED BY <2>1, <2>2
<1>17. OldInv'
    <2>1. OldInv
        BY DEF CacheInv
    <2>2. \A r \in Queries : /\ server[r].version <= server'[r].version
                             /\ fetch'[r].at = "answered" => fetch'[r] = fetch[r]
                             /\ \/ cache'[r].version = cache[r].version
                                \/ cache'[r].version <= server[r].version
        BY <1>1, <1>2, <1>4, <2>1 DEF CacheShape, Values, NoFetch, OldInv
    <2> QED BY <1>1, <1>2, <1>5, <1>9, <2>1, <2>2, OldStays DEF InFlight
<1> QED BY <1>5, <1>9, <1>10, <1>11, <1>12, <1>13, <1>14, <1>15, <1>16, <1>17 DEF CacheInv

LEMMA NewNoteKeeps ==
    ASSUME CacheInv, NEW n \in Notes, NewNote(n)
    PROVE  CacheInv'
<1>1. /\ server' = [server EXCEPT !["inbox"] = [version |-> @.version + 1, shows |-> @.shows \cup {n}]]
      /\ blurred' = blurred \cup {<<"inbox", n>>, <<"inbox", "version">>}
      /\ fetch' = Overtaken({"inbox"}) /\ UNCHANGED <<cache, selected, mine, slots, outdated>>
    BY DEF NewNote
<1>2. /\ CacheShape /\ ServerInv /\ CountInv /\ SettleInv
      /\ \A t, u \in Slots : MeetingInv(t, u)
      /\ \A t \in Slots : SnapshotInv(t)
      /\ \A r \in Queries : FetchInv(r) /\ VersionInv(r)
      /\ \A p \in Pages : ReactionInv(p)
      /\ \A x \in People : FriendInv(x)
      /\ \A m \in Notes : NoteInv(m)
    BY DEF CacheInv
<1>3. /\ "feed" \in Queries /\ "friends" \in Queries /\ "requests" \in Queries
      /\ "profile" \in Queries /\ "inbox" \in Queries /\ \A q \in Queries : fetch[q] \in Fetches(q)
      /\ server["inbox"] \in [version : Nat, shows : SUBSET Notes]
    BY <1>2, QueriesAre, ShowsIs DEF CacheShape, Values
<1>4. /\ server'["inbox"].shows = server["inbox"].shows \cup {n}
      /\ server'["inbox"] \in Values("inbox")
      /\ \A q \in Queries : q # "inbox" => server'[q] = server[q]
    BY <1>1, <1>2, <1>3, ShowsIs DEF CacheShape, Values
<1>5. /\ \A q \in Queries : fetch'[q] \in Fetches(q) /\ fetch'[q].at = fetch[q].at
      /\ \A q \in Queries : q # "inbox" => fetch'[q] = fetch[q]
      /\ fetch["inbox"].at = "answered" => fetch'["inbox"].crossed = TRUE
      /\ fetch["inbox"].at # "answered" => fetch'["inbox"] = fetch["inbox"]
    BY <1>1, <1>3, CrossedOrNot DEF Overtaken
<1>6. /\ \A t : KeepsRequest(t)
      /\ \A t, u \in Slots : MeetingInv(t, u)'
    BY <1>1, <1>2, SlotsStay
<1>7. \A q \in Queries : StaysBlurred(q)
    BY <1>1 DEF StaysBlurred
<1>8. CacheShape' /\ ServerInv'
    <2>1. server' = [q \in Queries |-> server'[q]] /\ fetch' = [q \in Queries |-> fetch'[q]]
        BY <1>1, <1>2 DEF CacheShape, Overtaken
    <2>2. \A q \in Queries : server'[q] \in Values(q)
        BY <1>2, <1>4 DEF CacheShape
    <2> QED BY <1>1, <1>2, <1>3, <1>4, <1>5, <2>1, <2>2
            DEF CacheShape, RequestInv, Fits, ServerInv, Befriended
<1>9. ASSUME NEW t \in Slots PROVE SnapshotInv(t)'
    <2>1. ASSUME NEW q \in Touched(slots[t].op), NEW i \in Parts(q) \cup {"version"}
          PROVE  /\ <<q, i>> \in blurred => <<q, i>> \in blurred'
                 /\ <<q, i>> \in blurred' \/ Alike(server[q], server'[q], q, i)
        <3>1. CASE q # "inbox"
            BY <1>4, <1>7, <3>1, TouchedIs DEF StaysBlurred, Alike
        <3>2. CASE q = "inbox" /\ i \in {n, "version"}
            BY <1>1, <3>2
        <3>3. CASE q = "inbox" /\ i \notin {n, "version"}
            <4>1. i \in server["inbox"].shows <=> i \in server'["inbox"].shows
                BY <1>4, <3>3
            <4> QED BY <1>1, <3>3, <4>1, ViewsAgree DEF Alike
        <3> QED BY <3>1, <3>2, <3>3
    <2> QED BY <1>2, <1>6, <2>1, SnapshotStays
<1>10. ASSUME NEW q \in Queries PROVE FetchInv(q)' /\ VersionInv(q)'
    <2>1. CASE q = "inbox"
        <3>1. VersionInv(q)'
            BY <1>1, <2>1 DEF VersionInv
        <3>2. FetchInv(q)'
            BY <1>1, <1>2, <1>5, <2>1 DEF FetchInv, InFlight
        <3> QED BY <3>1, <3>2
    <2>2. CASE q # "inbox"
        <3>1. FetchInv(q)'
            BY <1>1, <1>2, <1>4, <1>5, <2>2, FetchStays DEF InFlight
        <3>2. VersionInv(q)'
            BY <1>1, <1>2, <1>4, <1>5, <2>2 DEF VersionInv, InFlight
        <3> QED BY <3>1, <3>2
    <2> QED BY <2>1, <2>2
<1>11. \A p \in Pages : ReactionInv(p)'
    BY <1>1, <1>2, <1>3, <1>4, <1>6, <1>7, ReactionStays
<1>12. \A x \in People : FriendInv(x)'
    BY <1>1, <1>2, <1>3, <1>4, <1>6, <1>7, FriendStays
<1>13. CountInv' /\ SettleInv'
    BY <1>1, <1>2, <1>3, <1>4, <1>5, <1>6, <1>7, CountStays, SettleStays
<1>14. ASSUME NEW m \in Notes PROVE NoteInv(m)'
    <2>1. CASE m = n
        BY <1>1, <2>1 DEF NoteInv
    <2>2. CASE m # n
        BY <1>1, <1>2, <1>3, <1>4, <1>6, <1>7, <2>2, NoteStays
    <2> QED BY <2>1, <2>2
<1>15. OldInv'
    <2>1. OldInv
        BY DEF CacheInv
    <2>2. server'["inbox"].version = server["inbox"].version + 1 /\ server["inbox"].version \in Nat
        BY <1>1, <1>2, <1>3 DEF CacheShape
    <2>3. \A q \in Queries : server[q].version <= server'[q].version
        BY <1>2, <1>4, <2>2 DEF CacheShape, Values
    <2>4. \A q \in Queries : fetch'[q].at = "answered" => fetch[q].at = "answered" /\ fetch'[q].data = fetch[q].data
        BY <1>1, <1>3, CrossedOrNot DEF Overtaken
    <2> QED BY <1>1, <1>2, <1>6, <1>8, <2>1, <2>3, <2>4, OldStays DEF InFlight
<1> QED BY <1>6, <1>8, <1>9, <1>10, <1>11, <1>12, <1>13, <1>14, <1>15 DEF CacheInv

-----------------------------------------------------------------------------
(* The server serves a request.                                            *)

LEMMA BumpIs ==
    ASSUME CacheShape, NEW Q \in SUBSET Queries
    PROVE  \A q \in Queries :
              /\ Bump(Q)[q] \in Values(q) /\ Bump(Q)[q].shows = server[q].shows
              /\ server[q].version <= Bump(Q)[q].version
              /\ q \notin Q => Bump(Q)[q] = server[q]
<1>1. ASSUME NEW q \in Queries PROVE server[q] \in [version : Nat, shows : Shows(q)]
    BY DEF CacheShape, Values
<1> QED BY <1>1 DEF Bump, Values

\* What serving s changes on the server.
Served(s) ==
    LET op == slots[s].op IN
    /\ \A q \in Queries :
          /\ server'[q] \in Values(q)
          /\ q \notin Reach(slots[s]) => server'[q] = server[q]
          /\ q \notin slots[s].refetch => server'[q].version = server[q].version
          /\ server[q].version <= server'[q].version
    /\ server' = [q \in Queries |-> server'[q]] /\ mine' \subseteq Pages
    /\ \A p \in Pages : server'["feed"].shows[p] = server["feed"].shows[p]
          + (IF p = s /\ op = "react" THEN Unit(s \notin mine) ELSE 0)
    /\ \A p \in Pages : p # s \/ op # "react" => (p \in mine' <=> p \in mine)
    /\ op = "react" => (s \in mine' <=> s \notin mine)
    /\ server'["friends"].shows =
          CASE op = "accept" -> server["friends"].shows \cup {s}
            [] op = "remove" -> server["friends"].shows \ {s}
            [] OTHER -> server["friends"].shows
    /\ server'["requests"].shows =
          IF op = "accept" THEN server["requests"].shows \ {s} ELSE server["requests"].shows
    /\ server'["profile"].shows = server["profile"].shows
          + (CASE op = "accept" -> 1 [] op = "remove" -> -1 [] OTHER -> 0)
    /\ server'["inbox"].shows =
          CASE op = "readOne" -> server["inbox"].shows \ {s}
            [] op = "readAll" -> {}
            [] OTHER -> server["inbox"].shows

LEMMA ServedIs ==
    ASSUME CacheShape, ServerInv, NEW s \in Slots, Serve(s)
    PROVE  Served(s)
<1> DEFINE op == slots[s].op
<1>1. /\ InFlight(s) /\ op \in Ops /\ slots[s] \in Requests(op) /\ Fits(s, slots[s])
      /\ slots[s].refetch \in SUBSET Queries
    BY InFlightIs DEF Serve, InFlight, Requests
<1>2. /\ op = "accept" => s \in server["requests"].shows
      /\ op = "remove" => s \in server["friends"].shows
      /\ server' =
           CASE op = "react"   -> [server EXCEPT !["feed"].shows[s] = @ + (IF s \notin mine THEN 1 ELSE -1)]
             [] op = "accept"  -> [server EXCEPT !["friends"].shows = @ \cup {s},
                                                 !["requests"].shows = @ \ {s},
                                                 !["profile"].shows = @ + 1]
             [] op = "remove"  -> [server EXCEPT !["friends"].shows = @ \ {s},
                                                 !["profile"].shows = @ - 1]
             [] op = "readOne" -> [server EXCEPT !["inbox"].shows = @ \ {s}]
             [] op = "readAll" -> [server EXCEPT !["inbox"].shows = {}]
             [] OTHER          -> Bump(slots[s].refetch)
      /\ mine' = IF op # "react" THEN mine ELSE IF s \notin mine THEN mine \cup {s} ELSE mine \ {s}
    BY DEF Serve
<1>3. /\ server = [q \in Queries |-> server[q]] /\ mine \subseteq Pages
      /\ \A q \in Queries : server[q] \in Values(q)
      /\ server["feed"] \in [version : Nat, shows : [Pages -> Nat]]
      /\ server["friends"] \in [version : Nat, shows : SUBSET People]
      /\ server["requests"] \in [version : Nat, shows : SUBSET People]
      /\ server["profile"] \in [version : Nat, shows : Nat]
      /\ server["inbox"] \in [version : Nat, shows : SUBSET Notes]
    BY QueriesAre, ShowsIs DEF CacheShape, Values
<1>4. /\ Values("feed") = [version : Nat, shows : [Pages -> Nat]]
      /\ Values("friends") = [version : Nat, shows : SUBSET People]
      /\ Values("requests") = [version : Nat, shows : SUBSET People]
      /\ Values("profile") = [version : Nat, shows : Nat]
      /\ Values("inbox") = [version : Nat, shows : SUBSET Notes]
    BY ShowsIs DEF Values
<1>5. /\ mine' \subseteq Pages
      /\ \A p \in Pages : p # s \/ op # "react" => (p \in mine' <=> p \in mine)
      /\ op = "react" => (s \in mine' <=> s \notin mine)
    BY <1>1, <1>2, <1>3 DEF Fits
<1> HIDE DEF op
<1>6. CASE op = "react"
    <2>1. s \in Pages /\ Reach(slots[s]) = {"feed"}
        BY <1>1, <1>6, TouchedIs DEF Fits, Reach, op
    <2>2. server["feed"].shows[s] + Unit(s \notin mine) \in Nat
        <3>1. Others[s] \in Nat /\ server["feed"].shows[s] = Others[s] + (IF s \in mine THEN 1 ELSE 0)
            BY <2>1, CacheAssumption DEF ServerInv
        <3> QED BY <3>1 DEF Unit
    <2>3. /\ server' = [server EXCEPT !["feed"] = [@ EXCEPT !.shows[s] = server["feed"].shows[s] + Unit(s \notin mine)]]
        BY <1>2, <1>6 DEF Unit
    <2>4. /\ server'["feed"] = [server["feed"] EXCEPT !.shows[s] = server["feed"].shows[s] + Unit(s \notin mine)]
          /\ \A q \in Queries : q # "feed" => server'[q] = server[q]
          /\ server' = [q \in Queries |-> server'[q]]
        BY <1>3, <2>3, QueriesAre
    <2>5. /\ server'["feed"] \in Values("feed") /\ server'["feed"].version = server["feed"].version
          /\ \A p \in Pages : server'["feed"].shows[p] = server["feed"].shows[p]
                + (IF p = s THEN Unit(s \notin mine) ELSE 0)
        <3>1. PICK n \in Nat : n = server["feed"].shows[s] + Unit(s \notin mine)
            BY <2>2
        <3>2. PICK v \in [version : Nat, shows : [Pages -> Nat]] : v = server["feed"]
            BY <1>3
        <3>3. server'["feed"] = [v EXCEPT !.shows[s] = n]
            BY <2>4, <3>1, <3>2
        <3>4. /\ [v EXCEPT !.shows[s] = n] \in [version : Nat, shows : [Pages -> Nat]]
              /\ [v EXCEPT !.shows[s] = n].version = v.version
              /\ [v EXCEPT !.shows[s] = n].shows[s] = n
              /\ \A p \in Pages : p # s => [v EXCEPT !.shows[s] = n].shows[p] = v.shows[p] + 0
            BY <2>1
        <3> QED BY <1>4, <2>1, <3>1, <3>2, <3>3, <3>4
    <2>6. \A q \in Queries : server[q].version <= server'[q].version
        BY <1>3, <2>4, <2>5 DEF Values
    <2> QED BY <1>3, <1>5, <1>6, <2>1, <2>4, <2>5, <2>6, QueriesAre DEF Served, op
<1>7. CASE op = "accept"
    <2>1. s \in People /\ Reach(slots[s]) = {"friends", "requests", "profile"} /\ slots[s].refetch = {"profile"}
        BY <1>1, <1>7, TouchedIs DEF Fits, Reach, op
    <2>2. /\ server'["friends"] = [server["friends"] EXCEPT !.shows = @ \cup {s}]
          /\ server'["requests"] = [server["requests"] EXCEPT !.shows = @ \ {s}]
          /\ server'["profile"] = [server["profile"] EXCEPT !.shows = @ + 1]
          /\ \A q \in Queries : q \notin {"friends", "requests", "profile"} => server'[q] = server[q]
          /\ server' = [q \in Queries |-> server'[q]]
        BY <1>2, <1>3, <1>7, QueriesAre
    <2>3. /\ server'["friends"] \in Values("friends") /\ server'["requests"] \in Values("requests")
          /\ server'["profile"] \in Values("profile")
          /\ server'["friends"].version = server["friends"].version
          /\ server'["requests"].version = server["requests"].version
          /\ server'["friends"].shows = server["friends"].shows \cup {s}
          /\ server'["requests"].shows = server["requests"].shows \ {s}
          /\ server'["profile"].shows = server["profile"].shows + 1
        <3>1. s \in People
            BY <2>1
        <3>2. /\ server'["friends"] \in [version : Nat, shows : SUBSET People]
              /\ server'["friends"].version = server["friends"].version
              /\ server'["friends"].shows = server["friends"].shows \cup {s}
            BY <1>3, <2>2, <3>1
        <3>3. /\ server'["requests"] \in [version : Nat, shows : SUBSET People]
              /\ server'["requests"].version = server["requests"].version
              /\ server'["requests"].shows = server["requests"].shows \ {s}
            BY <1>3, <2>2
        <3>4. /\ server'["profile"] \in [version : Nat, shows : Nat]
              /\ server'["profile"].shows = server["profile"].shows + 1
            BY <1>3, <2>2
        <3> QED BY <1>4, <3>2, <3>3, <3>4
    <2>4. \A p \in Pages : server["feed"].shows[p] = server["feed"].shows[p] + 0
        BY <1>3
    <2>5. \A q \in Queries : /\ server'[q] \in Values(q)
                             /\ q \notin Reach(slots[s]) => server'[q] = server[q]
                             /\ q \notin slots[s].refetch => server'[q].version = server[q].version
                             /\ server[q].version <= server'[q].version
        <3>1. server'["profile"].version = server["profile"].version
            BY <1>3, <2>2
        <3>2. \A q \in Queries : server[q].version \in Nat
            BY <1>3 DEF Values
        <3>3. \A q \in Queries : server'[q].version = server[q].version
            BY <2>2, <2>3, <3>1
        <3>4. \A q \in Queries : server[q].version <= server'[q].version
            BY <3>2, <3>3
        <3>5. \A q \in Queries : server'[q] \in Values(q)
            BY <1>3, <2>2, <2>3
        <3> QED BY <2>1, <2>2, <3>3, <3>4, <3>5
    <2>6. /\ server'["feed"] = server["feed"] /\ server'["inbox"] = server["inbox"]
        BY <2>2, QueriesAre
    <2> QED BY <1>5, <1>7, <2>2, <2>3, <2>4, <2>5, <2>6 DEF Served, op
<1>8. CASE op = "remove"
    <2>1. s \in People /\ Reach(slots[s]) = {"friends", "profile"} /\ slots[s].refetch = {"profile"}
        BY <1>1, <1>8, TouchedIs DEF Fits, Reach, op
    <2>2. /\ server'["friends"] = [server["friends"] EXCEPT !.shows = @ \ {s}]
          /\ server'["profile"] = [server["profile"] EXCEPT !.shows = @ - 1]
          /\ \A q \in Queries : q \notin {"friends", "profile"} => server'[q] = server[q]
          /\ server' = [q \in Queries |-> server'[q]]
        BY <1>2, <1>3, <1>8, QueriesAre
    <2>3. server["profile"].shows - 1 \in Nat
        <3>1. /\ Befriended \subseteq People /\ s \in Befriended
              /\ server["profile"].shows = Cardinality(Befriended)
            BY <1>2, <1>3, <1>8 DEF ServerInv, Befriended
        <3>2. IsFiniteSet(Befriended)
            BY <3>1, FS_Subset, CacheAssumption
        <3>3. Cardinality(Befriended) \in Nat /\ Cardinality(Befriended) # 0
            BY <3>1, <3>2, FS_CardinalityType, FS_EmptySet
        <3> QED BY <3>1, <3>3
    <2>4. /\ server'["friends"] \in Values("friends") /\ server'["profile"] \in Values("profile")
          /\ server'["friends"].version = server["friends"].version
          /\ server'["friends"].shows = server["friends"].shows \ {s}
          /\ server'["profile"].shows = server["profile"].shows + (-1)
        BY <1>3, <1>4, <2>1, <2>2, <2>3
    <2>5. \A p \in Pages : server["feed"].shows[p] = server["feed"].shows[p] + 0
        BY <1>3
    <2>6. \A q \in Queries : /\ server'[q] \in Values(q)
                             /\ q \notin Reach(slots[s]) => server'[q] = server[q]
                             /\ q \notin slots[s].refetch => server'[q].version = server[q].version
                             /\ server[q].version <= server'[q].version
        <3>1. server'["profile"].version = server["profile"].version
            BY <1>3, <2>2
        <3>2. \A q \in Queries : server[q].version \in Nat
            BY <1>3 DEF Values
        <3>3. \A q \in Queries : server'[q].version = server[q].version
            BY <2>2, <2>4, <3>1
        <3>4. \A q \in Queries : server'[q] \in Values(q)
            BY <1>3, <2>2, <2>4
        <3> QED BY <2>1, <2>2, <3>2, <3>3, <3>4
    <2>7. \A q \in {"feed", "inbox", "requests"} : server'[q] = server[q]
        BY <2>2, QueriesAre
    <2> QED BY <1>5, <1>8, <2>2, <2>4, <2>5, <2>6, <2>7 DEF Served, op
<1>9. CASE op \in {"readOne", "readAll"}
    <2>1. Reach(slots[s]) = {"inbox"} /\ slots[s].refetch = {}
        BY <1>1, <1>9, TouchedIs DEF Fits, Reach, op
    <2>2. PICK left \in SUBSET Notes :
            left = IF op = "readOne" THEN server["inbox"].shows \ {s} ELSE {}
        BY <1>3
    <2>3. /\ server'["inbox"] = [server["inbox"] EXCEPT !.shows = left]
          /\ \A q \in Queries : q # "inbox" => server'[q] = server[q]
          /\ server' = [q \in Queries |-> server'[q]]
        BY <1>2, <1>3, <1>9, <2>2, QueriesAre
    <2>4. /\ server'["inbox"] \in Values("inbox") /\ server'["inbox"].shows = left
          /\ server'["inbox"].version = server["inbox"].version
        BY <1>3, <1>4, <2>3
    <2>5. /\ \A p \in Pages : server["feed"].shows[p] = server["feed"].shows[p] + 0
          /\ server["profile"].shows = server["profile"].shows + 0
        BY <1>3
    <2>6. \A q \in Queries : server[q].version <= server'[q].version
        BY <1>3, <2>3, <2>4 DEF Values
    <2> QED BY <1>3, <1>5, <1>9, <2>1, <2>2, <2>3, <2>4, <2>5, <2>6, QueriesAre DEF Served, op
<1>10. CASE op \notin {"react", "accept", "remove", "readOne", "readAll"}
    <2>1. Reach(slots[s]) = slots[s].refetch
        BY <1>10, TouchedIs DEF Reach, op
    <2>2. server' = Bump(slots[s].refetch)
        BY <1>2, <1>10
    <2>3. \A q \in Queries : /\ server'[q] \in Values(q) /\ server'[q].shows = server[q].shows
                             /\ q \notin slots[s].refetch => server'[q] = server[q]
                             /\ server[q].version <= server'[q].version
        BY <1>1, <2>2, BumpIs
    <2>4. server' = [q \in Queries |-> server'[q]]
        BY <2>2 DEF Bump
    <2>5. /\ \A p \in Pages : server["feed"].shows[p] = server["feed"].shows[p] + 0
          /\ server["profile"].shows = server["profile"].shows + 0
        BY <1>3
    <2> QED BY <1>5, <1>10, <2>1, <2>3, <2>4, <2>5, QueriesAre DEF Served, op
<1> QED BY <1>6, <1>7, <1>8, <1>9, <1>10

LEMMA ServeKeepsServer ==
    ASSUME CacheShape, ServerInv, NEW s \in Slots, Served(s), Serve(s)
    PROVE  ServerInv'
<1>1. /\ slots[s].op = "accept" => s \in People /\ s \in server["requests"].shows
      /\ slots[s].op = "remove" => s \in People /\ s \in server["friends"].shows
      /\ slots[s].op = "react" => s \in Pages
    BY InFlightIs DEF Serve, InFlight, Fits
<1>2. ASSUME NEW p \in Pages
      PROVE  server'["feed"].shows[p] = Others[p] + (IF p \in mine' THEN 1 ELSE 0)
    <2>1. Others[p] \in Nat /\ server["feed"].shows[p] = Others[p] + (IF p \in mine THEN 1 ELSE 0)
        BY CacheAssumption DEF ServerInv
    <2> QED BY <2>1, <1>1 DEF Served, Unit
<1>3. Befriended' \cap server'["requests"].shows = {}
    BY <1>1 DEF ServerInv, Befriended, Served
<1>4. server'["profile"].shows = Cardinality(Befriended')
    <2>1. Befriended \subseteq People /\ server["profile"].shows = Cardinality(Befriended)
        BY CountsAreNat DEF ServerInv, Befriended
    <2>2. IsFiniteSet(Befriended) /\ Cardinality(Befriended) \in Nat
        BY <2>1, FS_Subset, CacheAssumption, FS_CardinalityType
    <2>3. CASE slots[s].op = "accept"
        <3>1. s \notin Befriended /\ Befriended' = Befriended \cup {s}
            BY <1>1, <2>3 DEF ServerInv, Served, Befriended
        <3>2. Cardinality(Befriended') = Cardinality(Befriended) + 1
            BY <2>2, <3>1, FS_AddElement
        <3> QED BY <2>1, <2>3, <3>2 DEF Served
    <2>4. CASE slots[s].op = "remove"
        <3>1. s \in Befriended /\ Befriended' = Befriended \ {s}
            BY <1>1, <2>4 DEF Served, Befriended
        <3>2. Cardinality(Befriended') = Cardinality(Befriended) - 1
            BY <2>2, <3>1, FS_RemoveElement
        <3> QED BY <2>1, <2>2, <2>4, <3>2 DEF Served
    <2>5. CASE slots[s].op \notin {"accept", "remove"}
        BY <2>1, <2>2, <2>5 DEF Served, Befriended
    <2> QED BY <2>3, <2>4, <2>5
<1> QED BY <1>2, <1>3, <1>4 DEF ServerInv

LEMMA ServeKeeps ==
    ASSUME CacheInv, NEW s \in Slots, Serve(s)
    PROVE  CacheInv'
<1>1. /\ CacheShape /\ ServerInv /\ CountInv /\ SettleInv
      /\ \A t, u \in Slots : MeetingInv(t, u)
      /\ \A t \in Slots : SnapshotInv(t)
      /\ \A r \in Queries : FetchInv(r) /\ VersionInv(r)
      /\ \A p \in Pages : ReactionInv(p)
      /\ \A x \in People : FriendInv(x)
      /\ \A n \in Notes : NoteInv(n)
    BY DEF CacheInv
<1>2. Served(s) /\ ServerInv'
    BY <1>1, ServedIs, ServeKeepsServer
<1>3. PICK added \in BOOLEAN : added <=> slots[s].op = "react" /\ s \notin mine
    OBVIOUS
<1>4. /\ slots[s].op # "none" /\ slots[s].stage = "sent"
      /\ slots' = [slots EXCEPT ![s].stage = "served", ![s].added = added]
      /\ fetch' = Overtaken(Reach(slots[s]))
      /\ UNCHANGED <<cache, selected, blurred, outdated>>
      /\ slots[s].op = "accept" => s \in server["requests"].shows
      /\ slots[s].op = "remove" => s \in server["friends"].shows
    <2>1. added = (slots[s].op = "react" /\ s \notin mine)
        BY <1>3
    <2> QED BY <2>1 DEF Serve, Reach
<1>5. /\ InFlight(s) /\ slots[s].op \in Ops /\ slots[s] \in Requests(slots[s].op) /\ Fits(s, slots[s])
      /\ Reach(slots[s]) \subseteq Queries
    BY <1>1, <1>4, InFlightIs, TouchedIs DEF InFlight, Requests, Reach
<1>6. /\ slots'[s] \in Requests(slots[s].op) /\ slots'[s].op = slots[s].op
      /\ slots'[s].refetch = slots[s].refetch /\ slots'[s].alone = slots[s].alone
      /\ slots'[s].snapshot = slots[s].snapshot
      /\ slots'[s].stage = "served" /\ slots'[s].added = added
      /\ \A t \in Slots \ {s} : slots'[t] = slots[t]
      /\ slots' = [t \in Slots |-> slots'[t]]
    BY <1>1, <1>4, <1>5 DEF CacheShape, Requests
<1>7. \A t \in Slots \ {s} : KeepsRequest(t)
    BY <1>6 DEF KeepsRequest
<1>8. \A q \in Queries : StaysBlurred(q)
    BY <1>4 DEF StaysBlurred
<1>9. /\ \A q \in Queries : fetch'[q] \in Fetches(q) /\ fetch'[q].at = fetch[q].at
      /\ \A q \in Queries : fetch[q].at = "answered" => fetch'[q].data = fetch[q].data
      /\ \A q \in Queries : q \notin Reach(slots[s]) \/ fetch[q].at # "answered" => fetch'[q] = fetch[q]
      /\ \A q \in Reach(slots[s]) : fetch[q].at = "answered" => fetch'[q].crossed = TRUE
    <2>1. \A q \in Queries : fetch[q] \in Fetches(q)
        BY <1>1 DEF CacheShape
    <2> QED BY <1>4, <1>5, <2>1, CrossedOrNot DEF Overtaken
<1>10. "feed" \in Queries /\ "friends" \in Queries /\ "requests" \in Queries
       /\ "profile" \in Queries /\ "inbox" \in Queries
    BY QueriesAre
<1>11. CacheShape'
    <2>1. fetch' = [q \in Queries |-> fetch'[q]]
        BY <1>4 DEF Overtaken
    <2>2. \A t \in Slots : RequestInv(t)'
        BY <1>1, <1>5, <1>6 DEF CacheShape, RequestInv, Fits
    <2> QED BY <1>1, <1>2, <1>4, <1>6, <1>9, <2>1, <2>2 DEF CacheShape, Served
<1>12. \A t, u \in Slots : MeetingInv(t, u)'
    <2>1. \A t \in Slots : /\ slots'[t].op = slots[t].op /\ slots'[t].refetch = slots[t].refetch
                           /\ slots'[t].alone = slots[t].alone
        BY <1>6
    <2> QED BY <1>1, <2>1 DEF MeetingInv, InFlight, Reach
<1>13. ASSUME NEW t \in Slots PROVE SnapshotInv(t)'
    <2>1. CASE t = s
        BY <1>6, <2>1 DEF SnapshotInv
    <2>2. CASE t # s /\ ~InFlight(t)
        BY <1>6, <2>2 DEF SnapshotInv, InFlight
    <2>3. CASE t # s /\ InFlight(t)
        <3>1. ASSUME slots'[t].alone, NEW q \in Touched(slots[t].op), NEW i \in Parts(q) \cup {"version"}
              PROVE  /\ <<q, i>> \in blurred => <<q, i>> \in blurred'
                     /\ <<q, i>> \in blurred' \/ Alike(server[q], server'[q], q, i)
            <4>1. q \notin Reach(slots[s])
                BY <1>1, <1>5, <1>6, <2>3, <3>1 DEF MeetingInv, Reach
            <4>2. server'[q] = server[q]
                BY <1>2, <4>1, TouchedIs DEF Served
            <4> QED BY <1>4, <4>2 DEF Alike
        <3> QED BY <1>1, <1>7, <2>3, <3>1, SnapshotStays
    <2> QED BY <2>1, <2>2, <2>3
<1>14. ASSUME NEW q \in Queries PROVE FetchInv(q)'
    <2>1. \A t \in Slots : slots'[t].op = slots[t].op
        BY <1>6
    <2>2. CASE q \in Reach(slots[s]) /\ fetch[q].at = "answered"
        BY <1>9, <2>2 DEF FetchInv
    <2>3. CASE q \in Reach(slots[s]) /\ fetch[q].at # "answered"
        BY <1>1, <1>9, <2>1, <2>3 DEF FetchInv, InFlight
    <2>4. CASE q \notin Reach(slots[s])
        <3>1. fetch'[q] = fetch[q] /\ server'[q] = server[q]
            BY <1>2, <1>9, <2>4 DEF Served
        <3> QED BY <1>1, <2>1, <3>1, FetchStays DEF InFlight
    <2> QED BY <2>2, <2>3, <2>4
<1>15. ASSUME NEW q \in Queries PROVE VersionInv(q)'
    <2>1. CASE q \in slots[s].refetch
        BY <1>5, <1>6, <2>1 DEF VersionInv, InFlight
    <2>2. CASE q \notin slots[s].refetch
        <3>1. server'[q].version = server[q].version
            BY <1>2, <2>2 DEF Served
        <3>2. (\E t \in Slots : InFlight(t) /\ slots[t].stage = "served" /\ q \in slots[t].refetch)
                => \E t \in Slots : InFlight(t)' /\ slots'[t].stage = "served" /\ q \in slots'[t].refetch
            BY <1>6, <2>2 DEF InFlight
        <3> QED BY <1>1, <1>4, <1>9, <3>1, <3>2 DEF VersionInv
    <2> QED BY <2>1, <2>2
<1>16. ASSUME NEW p \in Pages PROVE ReactionInv(p)'
    <2>1. cache["feed"].shows[p] \in Nat /\ server["feed"].shows[p] \in Nat /\ p \in Slots
        BY <1>1, CountsAreNat, QueriesAre
    <2>2. CASE p # s \/ slots[s].op # "react"
        <3>1. server'["feed"].shows[p] = server["feed"].shows[p]
            BY <1>2, <2>1, <2>2 DEF Served
        <3>2. KeepsRequest(p) \/ (slots[p].op # "react" /\ slots'[p].op # "react")
            BY <1>6, <1>7, <2>1, <2>2
        <3> QED BY <1>1, <1>4, <1>8, <1>10, <3>1, <3>2, ReactionStays
    <2>3. CASE p = s /\ slots[s].op = "react"
        <3>1. server'["feed"].shows[p] = server["feed"].shows[p] + Unit(added)
            BY <1>2, <1>3, <2>3 DEF Served, Unit
        <3>2. \/ <<"feed", p>> \in blurred
              \/ cache["feed"].shows[p] = server["feed"].shows[p] + Unit(p \in selected)
            BY <1>1, <1>4, <2>1, <2>3 DEF ReactionInv, Stage, Unit
        <3>3. Stage(p, {"react"}, "served")' /\ slots'[p].op = "react" /\ slots'[p].added = added
            BY <1>6, <2>3 DEF Stage
        <3>4. Unit(added) \in Int /\ Unit(p \in selected) \in Int
            BY DEF Unit
        <3>5. \/ <<"feed", p>> \in blurred'
              \/ cache'["feed"].shows[p] = server'["feed"].shows[p] + Unit(p \in selected') - Unit(added)
            BY <1>4, <2>1, <3>1, <3>2, <3>4
        <3> QED BY <3>3, <3>5 DEF ReactionInv
    <2> QED BY <2>2, <2>3
<1>17. ASSUME NEW x \in People PROVE FriendInv(x)'
    <2>1. CASE x # s \/ slots[s].op \notin {"accept", "remove"}
        <3>1. /\ x \in server'["friends"].shows <=> x \in server["friends"].shows
              /\ x \in server'["requests"].shows <=> x \in server["requests"].shows
            BY <1>2, <2>1 DEF Served
        <3>2. \/ KeepsRequest(x)
              \/ /\ slots[x].op \notin {"accept", "remove"}
                 /\ slots'[x].op \notin {"accept", "remove"}
            BY <1>6, <1>7, <2>1, QueriesAre
        <3> QED BY <1>1, <1>4, <1>8, <1>10, <3>1, <3>2, FriendStays
    <2>2. CASE x = s /\ slots[s].op = "accept"
        <3>1. s \in Befriended' /\ s \notin server'["requests"].shows
            BY <1>2, <2>2 DEF Served, Befriended
        <3> QED BY <1>1, <1>4, <1>6, <2>2, <3>1 DEF FriendInv, Stage
    <2>3. CASE x = s /\ slots[s].op = "remove"
        <3>1. s \notin Befriended' /\ server'["requests"].shows = server["requests"].shows
            BY <1>2, <2>3 DEF Served, Befriended
        <3> QED BY <1>1, <1>4, <1>6, <2>3, <3>1 DEF FriendInv, Stage
    <2> QED BY <2>1, <2>2, <2>3
<1>18. CountInv'
    <2>1. CASE slots[s].op \notin {"accept", "remove"}
        <3>1. /\ server'["profile"].shows = server["profile"].shows
              /\ server'["friends"].shows = server["friends"].shows
            BY <1>1, <1>2, <2>1, CountsAreNat DEF Served
        <3>2. \A x \in People : \/ KeepsRequest(x)
                                \/ /\ slots[x].op \notin {"accept", "remove"}
                                   /\ slots'[x].op \notin {"accept", "remove"}
            BY <1>6, <1>7, <2>1, QueriesAre
        <3> QED BY <1>1, <1>4, <1>8, <1>10, <3>1, <3>2, CountStays
    <2>2. CASE slots[s].op \in {"accept", "remove"}
        <3>1. PICK op \in {"accept", "remove"} : op = slots[s].op
            BY <2>2
        <3>2. s \in People
            BY <1>5, <3>1 DEF Fits
        <3>3. \A o \in {"accept", "remove"} : Sent(o)' = IF o = op THEN Sent(o) \ {s} ELSE Sent(o)
            BY <1>4, <1>6, <3>1, <3>2, QueriesAre DEF Sent, Stage
        <3>4. s \in Sent(op) /\ \A o \in {"accept", "remove"} : o # op => s \notin Sent(o)
            BY <1>4, <3>1, <3>2 DEF Sent, Stage
        <3>5. \A o \in {"accept", "remove"} : IsFiniteSet(Sent(o))
            <4>1. \A o : Sent(o) \subseteq People
                BY DEF Sent
            <4> QED BY <4>1, FS_Subset, CacheAssumption
        <3>6. Cardinality(Sent(op) \ {s}) = Cardinality(Sent(op)) - 1
            BY <3>4, <3>5, FS_RemoveElement
        <3>7. Cardinality(Sent("accept")) \in Nat /\ Cardinality(Sent("remove")) \in Nat
            BY <3>5, FS_CardinalityType
        <3>8. /\ \A y \in Sent("remove") : y \notin Befriended => y \in Sent("remove")' /\ y \notin Befriended'
              /\ server'["profile"].shows = server["profile"].shows + (IF op = "accept" THEN 1 ELSE -1)
            BY <1>2, <1>4, <3>1, <3>3, <3>4 DEF Served, Befriended
        <3>9. cache["profile"].shows \in Nat /\ server["profile"].shows \in Nat
            BY <1>1, CountsAreNat
        <3>10. Cardinality(Sent("accept")') - Cardinality(Sent("remove")')
                 = Cardinality(Sent("accept")) - Cardinality(Sent("remove")) - (IF op = "accept" THEN 1 ELSE -1)
            <4>1. CASE op = "accept"
                <5>1. Sent("accept")' = Sent("accept") \ {s} /\ Sent("remove")' = Sent("remove")
                    BY <3>3, <4>1
                <5> QED BY <3>6, <3>7, <4>1, <5>1
            <4>2. CASE op = "remove"
                <5>1. Sent("accept")' = Sent("accept") /\ Sent("remove")' = Sent("remove") \ {s}
                    BY <3>3, <4>2
                <5> QED BY <3>6, <3>7, <4>2, <5>1
            <4> QED BY <4>1, <4>2
        <3>11. Cardinality(Sent("accept")') \in Nat /\ Cardinality(Sent("remove")') \in Nat
            <4>1. IsFiniteSet(Sent("accept")') /\ IsFiniteSet(Sent("remove")')
                BY <3>3, <3>5, FS_Subset
            <4> QED BY <4>1, FS_CardinalityType
        <3>12. CASE \/ <<"profile", "count">> \in blurred \/ \E y \in Sent("remove") : y \notin Befriended
            BY <1>4, <3>8, <3>12 DEF CountInv
        <3>13. CASE cache["profile"].shows = server["profile"].shows
                        + Cardinality(Sent("accept")) - Cardinality(Sent("remove"))
            <4>1. cache'["profile"].shows = server'["profile"].shows
                        + Cardinality(Sent("accept")') - Cardinality(Sent("remove")')
                BY <1>4, <3>7, <3>8, <3>9, <3>10, <3>11, <3>13
            <4> QED BY <4>1 DEF CountInv
        <3> QED BY <1>1, <3>12, <3>13 DEF CountInv
    <2> QED BY <2>1, <2>2
<1>19. ASSUME NEW n \in Notes PROVE NoteInv(n)'
    <2>1. CASE ~Reads(s, n)
        <3>1. ~Reads(s, n)'
            BY <1>6, <2>1 DEF Reads
        <3>2. n \in server'["inbox"].shows <=> n \in server["inbox"].shows
            BY <1>2, <1>5, <2>1 DEF Served, Reads, Fits
        <3>3. \A t \in Slots : KeepsRequest(t) \/ (~Reads(t, n) /\ ~Reads(t, n)')
            BY <1>7, <2>1, <3>1
        <3> QED BY <1>1, <1>4, <1>8, <1>10, <3>2, <3>3, NoteStays
    <2>2. CASE Reads(s, n)
        <3>1. /\ n \notin server'["inbox"].shows /\ Reads(s, n)'
              /\ \A t \in Slots : Reads(t, n)' => Reads(t, n)
            BY <1>2, <1>6, <2>2 DEF Served, Reads
        <3>2. <<"inbox", n>> \in blurred \/ n \notin cache["inbox"].shows
            BY <1>1, <2>2 DEF NoteInv
        <3> QED BY <1>4, <3>1, <3>2 DEF NoteInv
    <2> QED BY <2>1, <2>2
<1>20. SettleInv'
    <2>1. CASE slots[s].op \in {"accept", "remove"}
        <3>1. s \in People /\ ~Settled' /\ ~Quiet'
            BY <1>5, <1>6, <2>1 DEF Fits, Settled, Quiet, Stage
        <3> QED BY <3>1 DEF SettleInv
    <2>2. CASE slots[s].op \notin {"accept", "remove"}
        <3>1. server'["profile"].shows = server["profile"].shows
            BY <1>1, <1>2, <2>2, CountsAreNat DEF Served
        <3>2. \A x \in People : \/ slots'[x] = slots[x]
                                \/ /\ slots[x].op \notin {"accept", "remove"}
                                   /\ slots'[x].op \notin {"accept", "remove"}
            BY <1>6, <2>2, QueriesAre
        <3>3. (Settled' => Settled) /\ (Quiet' => Quiet)
            BY <3>2 DEF Settled, Quiet, Stage
        <3> QED BY <1>1, <1>4, <1>9, <1>10, <3>1, <3>3 DEF SettleInv
    <2> QED BY <2>1, <2>2
<1>21. OldInv'
    <2>1. OldInv
        BY DEF CacheInv
    <2>2. \A q \in Queries : server[q].version <= server'[q].version
        BY <1>2 DEF Served
    <2>3. \A q \in Queries : fetch'[q].at = "answered" => fetch[q].at = "answered" /\ fetch'[q].data = fetch[q].data
        BY <1>9
    <2>4. \A t \in Slots : slots'[t].op = slots[t].op /\ slots'[t].snapshot = slots[t].snapshot
        BY <1>6
    <2> QED BY <1>1, <1>4, <1>11, <2>1, <2>2, <2>3, <2>4, OldStays DEF InFlight
<1> QED BY <1>2, <1>11, <1>12, <1>13, <1>14, <1>15, <1>16, <1>17, <1>18, <1>19, <1>20, <1>21 DEF CacheInv

-----------------------------------------------------------------------------
(* A request is answered, or fails.                                        *)

\* Slot s is free again and the queries Q are fetched.
Leaves(s, Q) ==
    /\ slots' = [slots EXCEPT ![s] = Nobody] /\ server' = server /\ mine' = mine
    /\ fetch' = Invalidated(s, Q) /\ Q \subseteq slots[s].refetch
    /\ blurred \subseteq blurred' /\ outdated' = outdated

LEMMA LeavingKeeps ==
    ASSUME CacheInv, NEW s \in Slots, NEW Q, InFlight(s), Leaves(s, Q)
    PROVE  /\ slots'[s] = Nobody
           /\ \A t \in Slots \ {s} : slots'[t] = slots[t] /\ KeepsRequest(t)
           /\ \A t \in Slots : RequestInv(t)'
           /\ slots' = [t \in Slots |-> slots'[t]]
           /\ \A q \in Queries : StaysBlurred(q)
           /\ fetch' = [q \in Queries |-> fetch'[q]] /\ \A q \in Queries : fetch'[q] \in Fetches(q)
           /\ \A q \in Q : fetch'[q].at = "asked"
           /\ \A q \in Queries \ Q : fetch'[q] = fetch[q]
           /\ ServerInv'
           /\ \A t, u \in Slots : MeetingInv(t, u)'
           /\ \A t \in Slots : SnapshotInv(t)'
           /\ \A q \in Queries : FetchInv(q)'
<1>1. /\ CacheShape /\ ServerInv
      /\ \A t, u \in Slots : MeetingInv(t, u)
      /\ \A t \in Slots : SnapshotInv(t)
      /\ \A q \in Queries : FetchInv(q)
    BY DEF CacheInv
<1>2. /\ slots'[s] = Nobody /\ ~InFlight(s)'
      /\ \A t \in Slots \ {s} : slots'[t] = slots[t] /\ KeepsRequest(t)
      /\ slots' = [t \in Slots |-> slots'[t]]
    BY <1>1 DEF Leaves, CacheShape, KeepsRequest, InFlight, Nobody
<1>3. \A t \in Slots : RequestInv(t)'
    BY <1>1, <1>2 DEF CacheShape, RequestInv, Fits
<1>4. \A q \in Queries : StaysBlurred(q)
    BY DEF Leaves, StaysBlurred
<1>5. Q \subseteq Queries
    BY <1>1, InFlightIs DEF Leaves, Requests
<1>6. ASSUME NEW q \in Q
      PROVE  \E c \in BOOLEAN : fetch'[q] = Asked(c) /\ (c <=> Pending(q) \ {s} # {})
    <2>1. PICK c \in BOOLEAN : c <=> Pending(q) \ {s} # {}
        OBVIOUS
    <2>2. c = (Pending(q) \ {s} # {})
        BY <2>1
    <2> QED BY <1>5, <2>1, <2>2 DEF Leaves, Invalidated
<1>7. ASSUME NEW c \in BOOLEAN, NEW q
      PROVE  Asked(c) \in Fetches(q) /\ Asked(c).at = "asked" /\ Asked(c).crossed = c
    <2>1. Asked(c) \in {Asked(TRUE), Asked(FALSE)}
        OBVIOUS
    <2> QED BY <2>1 DEF Fetches, Asked
<1>8. /\ fetch' = [q \in Queries |-> fetch'[q]] /\ \A q \in Queries \ Q : fetch'[q] = fetch[q]
      /\ \A q \in Q : fetch'[q] \in Fetches(q) /\ fetch'[q].at = "asked"
    <2>1. fetch' = [q \in Queries |-> fetch'[q]] /\ \A q \in Queries \ Q : fetch'[q] = fetch[q]
        BY DEF Leaves, Invalidated
    <2> QED BY <2>1, <1>6, <1>7
<1>9. \A q \in Queries : fetch'[q] \in Fetches(q)
    BY <1>1, <1>8 DEF CacheShape
<1>10. ServerInv'
    BY <1>1 DEF Leaves, ServerInv, Befriended
<1>11. ASSUME NEW t \in Slots, NEW u \in Slots PROVE MeetingInv(t, u)'
    <2>1. CASE t = s \/ u = s
        BY <1>2, <2>1 DEF MeetingInv
    <2>2. CASE t # s /\ u # s
        BY <1>1, <1>2, <2>2, MeetingStays
    <2> QED BY <2>1, <2>2
<1>12. ASSUME NEW t \in Slots PROVE SnapshotInv(t)'
    <2>1. CASE t = s
        BY <1>2, <2>1 DEF SnapshotInv
    <2>2. CASE t # s
        <3>1. \A q \in Touched(slots[t].op) : \A i \in Parts(q) \cup {"version"} :
                /\ <<q, i>> \in blurred => <<q, i>> \in blurred'
                /\ <<q, i>> \in blurred' \/ Alike(server[q], server'[q], q, i)
            BY DEF Leaves, Alike
        <3> QED BY <1>1, <1>2, <2>2, <3>1, SnapshotStays
    <2> QED BY <2>1, <2>2
<1>13. ASSUME NEW q \in Queries PROVE FetchInv(q)'
    <2>1. CASE q \in Q
        <3>1. PICK c \in BOOLEAN : fetch'[q] = Asked(c) /\ (c <=> Pending(q) \ {s} # {})
            BY <1>6, <2>1
        <3>2. fetch'[q].at = "asked" /\ fetch'[q].crossed = c
            BY <1>7, <3>1
        <3>3. ~c => \A t \in Slots : InFlight(t)' => q \notin Touched(slots'[t].op)
            BY <1>2, <3>1 DEF Pending, InFlight
        <3> QED BY <3>2, <3>3 DEF FetchInv
    <2>2. CASE q \notin Q
        <3>1. fetch'[q] = fetch[q] /\ server'[q] = server[q]
            BY <1>8, <2>2 DEF Leaves
        <3>2. \A t \in Slots : InFlight(t)' => InFlight(t) /\ slots'[t].op = slots[t].op
            BY <1>2 DEF InFlight
        <3> QED BY <1>1, <3>1, <3>2, FetchStays
    <2> QED BY <2>1, <2>2
<1> QED BY <1>2, <1>3, <1>4, <1>8, <1>9, <1>10, <1>11, <1>12, <1>13

LEMMA SucceedKeeps ==
    ASSUME CacheInv, NEW s \in Slots, Succeed(s)
    PROVE  CacheInv'
<1> DEFINE Q == slots[s].refetch
<1>1. /\ CacheShape /\ ServerInv /\ CountInv /\ SettleInv
      /\ \A r \in Queries : VersionInv(r)
      /\ \A p \in Pages : ReactionInv(p)
      /\ \A x \in People : FriendInv(x)
      /\ \A n \in Notes : NoteInv(n)
    BY DEF CacheInv
<1>2. /\ InFlight(s) /\ slots[s].stage = "served" /\ Leaves(s, Q) /\ blurred' = blurred
      /\ cache' = IF slots[s].op = "react" THEN [cache EXCEPT !["feed"] = Corrected(s)] ELSE cache
      /\ slots[s].op # "react" => selected' = selected
      /\ slots[s].op = "react" => selected' = IF slots[s].added THEN selected \cup {s} ELSE selected \ {s}
    BY DEF Succeed, InFlight, Leaves
<1>3. /\ slots[s].op \in Ops /\ slots[s] \in Requests(slots[s].op) /\ Fits(s, slots[s])
      /\ Q \subseteq Queries /\ slots[s].added \in BOOLEAN
    BY <1>1, <1>2, InFlightIs DEF Requests
<1>4. /\ slots'[s] = Nobody /\ \A t \in Slots \ {s} : slots'[t] = slots[t] /\ KeepsRequest(t)
      /\ \A t \in Slots : RequestInv(t)'
      /\ slots' = [t \in Slots |-> slots'[t]]
      /\ \A q \in Queries : StaysBlurred(q)
      /\ fetch' = [q \in Queries |-> fetch'[q]] /\ \A q \in Queries : fetch'[q] \in Fetches(q)
      /\ \A q \in Q : fetch'[q].at = "asked"
      /\ \A q \in Queries \ Q : fetch'[q] = fetch[q]
      /\ ServerInv'
      /\ \A t, u \in Slots : MeetingInv(t, u)'
      /\ \A t \in Slots : SnapshotInv(t)'
      /\ \A q \in Queries : FetchInv(q)'
    BY <1>2, LeavingKeeps
<1> HIDE DEF Q
<1>5. /\ server' = server /\ mine' = mine /\ outdated' = outdated
      /\ slots'[s].op = "none" /\ ~InFlight(s)'
    BY <1>2, <1>4 DEF Leaves, Nobody, InFlight
<1>6. "feed" \in Queries /\ "friends" \in Queries /\ "requests" \in Queries
      /\ "profile" \in Queries /\ "inbox" \in Queries
    BY QueriesAre
<1>7. /\ cache' = [q \in Queries |-> cache'[q]] /\ \A q \in Queries : cache'[q] \in Values(q)
      /\ \A q \in Queries : cache'[q].version = cache[q].version
      /\ \A q \in Queries : q # "feed" => cache'[q] = cache[q]
      /\ slots[s].op # "react" => cache' = cache
      /\ slots[s].op = "react" =>
            /\ \A p \in Pages \ {s} : cache'["feed"].shows[p] = cache["feed"].shows[p]
            /\ cache'["feed"].shows[s] =
                  IF s \in selected <=> slots[s].added THEN cache["feed"].shows[s]
                  ELSE NonNegative(cache["feed"].shows[s] + (IF slots[s].added THEN 2 ELSE -2))
    <2>1. /\ cache = [q \in Queries |-> cache[q]] /\ \A q \in Queries : cache[q] \in Values(q)
          /\ Values("feed") = [version : Nat, shows : [Pages -> Nat]]
        BY <1>1, ShowsIs DEF CacheShape, Values
    <2>2. CASE slots[s].op # "react"
        BY <1>2, <2>1, <2>2
    <2>3. CASE slots[s].op = "react"
        <3>1. s \in Pages
            BY <1>3, <2>3 DEF Fits
        <3>2. PICK v \in [version : Nat, shows : [Pages -> Nat]] : v = cache["feed"]
            BY <1>6, <2>1
        <3>3. PICK d \in Int : d = IF slots[s].added THEN 2 ELSE -2
            OBVIOUS
        <3>4. PICK n \in Nat : n = NonNegative(v.shows[s] + d)
            BY <3>1, <3>2 DEF NonNegative
        <3>5. Corrected(s) = IF (s \in selected) = slots[s].added THEN v ELSE [v EXCEPT !.shows[s] = n]
            BY <3>1, <3>2, <3>3, <3>4 DEF Corrected, Reacted
        <3>6. /\ [v EXCEPT !.shows[s] = n] \in [version : Nat, shows : [Pages -> Nat]]
              /\ [v EXCEPT !.shows[s] = n].version = v.version
              /\ [v EXCEPT !.shows[s] = n].shows[s] = n
              /\ \A p \in Pages : p # s => [v EXCEPT !.shows[s] = n].shows[p] = v.shows[p]
            BY <3>1
        <3>7. /\ cache'["feed"] = Corrected(s) /\ \A q \in Queries : q # "feed" => cache'[q] = cache[q]
              /\ cache' = [q \in Queries |-> cache'[q]]
            BY <1>2, <1>6, <2>1, <2>3
        <3>8. ((s \in selected) = slots[s].added) <=> (s \in selected <=> slots[s].added)
            BY <1>3
        <3>9. /\ cache'["feed"] \in Values("feed") /\ cache'["feed"].version = cache["feed"].version
              /\ \A p \in Pages \ {s} : cache'["feed"].shows[p] = cache["feed"].shows[p]
              /\ cache'["feed"].shows[s] =
                    IF s \in selected <=> slots[s].added THEN cache["feed"].shows[s]
                    ELSE NonNegative(cache["feed"].shows[s] + (IF slots[s].added THEN 2 ELSE -2))
            <4>1. CASE s \in selected <=> slots[s].added
                <5>1. cache'["feed"] = v
                    BY <3>5, <3>7, <3>8, <4>1
                <5> QED BY <2>1, <3>2, <4>1, <5>1
            <4>2. CASE ~(s \in selected <=> slots[s].added)
                <5>1. cache'["feed"] = [v EXCEPT !.shows[s] = n]
                    BY <3>5, <3>7, <3>8, <4>2
                <5>2. n = NonNegative(cache["feed"].shows[s] + (IF slots[s].added THEN 2 ELSE -2))
                    BY <3>2, <3>3, <3>4
                <5> QED BY <2>1, <3>2, <3>6, <4>2, <5>1, <5>2
            <4> QED BY <4>1, <4>2
        <3> QED BY <2>1, <2>3, <3>7, <3>9
    <2> QED BY <2>2, <2>3
<1>8. CacheShape'
    <2>1. selected' \subseteq Pages /\ mine' \subseteq Pages
        BY <1>1, <1>2, <1>3, <1>5 DEF CacheShape, Fits
    <2> QED BY <1>1, <1>4, <1>5, <1>7, <2>1 DEF CacheShape
<1>9. ASSUME NEW q \in Queries PROVE VersionInv(q)'
    <2>1. CASE q \in Q
        BY <1>4, <2>1 DEF VersionInv
    <2>2. CASE q \notin Q
        <3>1. (\E t \in Slots : InFlight(t) /\ slots[t].stage = "served" /\ q \in slots[t].refetch)
                => \E t \in Slots : InFlight(t)' /\ slots'[t].stage = "served" /\ q \in slots'[t].refetch
            BY <1>4, <2>2 DEF InFlight, Q
        <3>2. /\ fetch'[q] = fetch[q] /\ cache'[q].version = cache[q].version /\ server'[q] = server[q]
              /\ StaysBlurred(q)
            BY <1>4, <1>5, <1>7, <2>2
        <3> QED BY <1>1, <3>1, <3>2 DEF VersionInv, StaysBlurred
    <2> QED BY <2>1, <2>2
<1>10. ASSUME NEW p \in Pages PROVE ReactionInv(p)'
    <2>1. p \in Slots /\ cache["feed"].shows[p] \in Nat /\ server["feed"].shows[p] \in Nat
        BY <1>1, CountsAreNat, QueriesAre
    <2>2. CASE p # s \/ slots[s].op # "react"
        <3>1. /\ cache'["feed"].shows[p] = cache["feed"].shows[p]
              /\ p \in selected' <=> p \in selected
            BY <1>2, <1>7, <2>2
        <3>2. KeepsRequest(p) \/ (slots[p].op # "react" /\ slots'[p].op # "react")
            BY <1>4, <1>5, <2>1, <2>2
        <3> QED BY <1>1, <1>4, <1>5, <1>6, <3>1, <3>2, ReactionStays
    <2>3. CASE p = s /\ slots[s].op = "react"
        <3>1. CASE <<"feed", p>> \in blurred
            BY <1>2, <3>1 DEF ReactionInv
        <3>2. CASE <<"feed", p>> \notin blurred
            <4>1. cache["feed"].shows[p] = server["feed"].shows[p] + Unit(p \in selected) - Unit(slots[p].added)
                BY <1>1, <1>2, <2>3, <3>2 DEF ReactionInv, Stage
            <4>2. cache'["feed"].shows[p] = server["feed"].shows[p]
                <5>1. CASE p \in selected <=> slots[p].added
                    <6>1. Unit(p \in selected) = Unit(slots[p].added) /\ Unit(slots[p].added) \in Int
                        BY <5>1 DEF Unit
                    <6>2. cache'["feed"].shows[p] = cache["feed"].shows[p]
                        BY <1>7, <2>3, <5>1
                    <6> QED BY <2>1, <4>1, <6>1, <6>2
                <5>2. CASE ~(p \in selected <=> slots[p].added)
                    <6>1. /\ Unit(p \in selected) - Unit(slots[p].added) = IF slots[p].added THEN -2 ELSE 2
                          /\ Unit(p \in selected) \in Int /\ Unit(slots[p].added) \in Int
                        BY <1>3, <2>3, <5>2 DEF Unit
                    <6>2. cache'["feed"].shows[p] =
                            NonNegative(cache["feed"].shows[p] + (IF slots[p].added THEN 2 ELSE -2))
                        BY <1>7, <2>3, <5>2
                    <6>3. cache["feed"].shows[p] + (IF slots[p].added THEN 2 ELSE -2) = server["feed"].shows[p]
                        BY <2>1, <4>1, <6>1
                    <6> QED BY <2>1, <6>2, <6>3 DEF NonNegative
                <5> QED BY <5>1, <5>2
            <4> QED BY <1>5, <2>1, <2>3, <4>2 DEF ReactionInv, Stage
        <3> QED BY <3>1, <3>2
    <2> QED BY <2>2, <2>3
<1>11. /\ cache'["friends"] = cache["friends"] /\ cache'["requests"] = cache["requests"]
       /\ cache'["profile"] = cache["profile"] /\ cache'["inbox"] = cache["inbox"]
    BY <1>6, <1>7
<1>12. ASSUME NEW x \in People PROVE FriendInv(x)'
    <2>1. CASE x # s \/ slots[s].op \notin {"accept", "remove"}
        <3>1. \/ KeepsRequest(x)
              \/ /\ slots[x].op \notin {"accept", "remove"}
                 /\ slots'[x].op \notin {"accept", "remove"}
            BY <1>4, <1>5, <2>1, QueriesAre
        <3> QED BY <1>1, <1>4, <1>5, <1>6, <1>11, <3>1, FriendStays
    <2>2. CASE x = s /\ slots[s].op \in {"accept", "remove"}
        <3>1. FriendInv(x) /\ slots[x].stage = "served" /\ slots'[x].op = "none"
            BY <1>1, <1>2, <1>5, <2>2
        <3> QED BY <1>2, <1>5, <1>11, <2>2, <3>1 DEF FriendInv, Stage, Befriended
    <2> QED BY <2>1, <2>2
<1>13. CountInv'
    <2>1. Sent("accept")' = Sent("accept") /\ Sent("remove")' = Sent("remove")
        BY <1>2, <1>4, <1>5, QueriesAre DEF Sent, Stage
    <2> QED BY <1>1, <1>2, <1>5, <1>11, <2>1 DEF CountInv, Befriended
<1>14. ASSUME NEW n \in Notes PROVE NoteInv(n)'
    <2>1. \A t \in Slots : Reads(t, n)' => /\ Reads(t, n) /\ slots'[t].stage = slots[t].stage
        BY <1>4, <1>5 DEF Reads
    <2>2. \A t \in Slots : Reads(t, n) => Reads(t, n)' \/ (t = s /\ slots[t].stage = "served")
        BY <1>2, <1>4 DEF Reads
    <2> QED BY <1>1, <1>2, <1>5, <1>11, <2>1, <2>2 DEF NoteInv
<1>15. SettleInv'
    <2>1. CASE "profile" \in Q
        BY <1>4, <2>1 DEF SettleInv
    <2>2. CASE "profile" \notin Q
        <3>1. slots[s].op \notin {"accept", "remove"}
            BY <1>3, <2>2 DEF Fits, Q
        <3>2. \A x \in People : \/ KeepsRequest(x)
                                \/ /\ slots[x].op \notin {"accept", "remove"}
                                   /\ slots'[x].op \notin {"accept", "remove"}
            BY <1>4, <1>5, <3>1, QueriesAre
        <3> QED BY <1>1, <1>4, <1>5, <1>6, <1>11, <2>2, <3>2, SettleStays
    <2> QED BY <2>1, <2>2
<1>16. OldInv'
    <2>1. OldInv
        BY DEF CacheInv
    <2>2. \A q \in Queries : server[q].version <= server'[q].version
        BY <1>1, <1>5 DEF CacheShape, Values
    <2>3. \A q \in Queries : fetch'[q].at = "answered" => fetch'[q] = fetch[q]
        BY <1>4
    <2>4. \A t \in Slots : InFlight(t)' => slots'[t] = slots[t]
        BY <1>4, <1>5
    <2> QED BY <1>1, <1>7, <1>8, <2>1, <2>2, <2>3, <2>4, OldStays DEF InFlight
<1> QED BY <1>4, <1>8, <1>9, <1>10, <1>12, <1>13, <1>14, <1>15, <1>16 DEF CacheInv

\* What a failed request puts back is the server's, or taken for blurred.
PutBack(s) ==
    \A q \in Touched(slots[s].op) : \A i \in Parts(q) \cup {"version"} :
        \/ <<q, i>> \in blurred'
        \/ /\ Alike(cache'[q], server[q], q, i)
           /\ \A t \in Slots \ {s} : InFlight(t) => q \notin Reach(slots[t])

LEMMA FailPutsBack ==
    ASSUME CacheInv, NEW s \in Slots, Fail(s)
    PROVE  /\ PutBack(s)
           /\ \A q \in slots[s].refetch : <<q, "version">> \in blurred' \/ slots[s].stage = "sent"
<1>1. InFlight(s) /\ slots[s] \in Requests(slots[s].op)
    BY InFlightIs DEF Fail, InFlight, CacheInv
<1>2. slots[s].stage # "served" => slots[s].stage = "sent"
    BY <1>1 DEF Requests
<1>3. CASE slots[s].alone /\ slots[s].stage = "sent"
    <2>1. cache' = Restored(s) /\ blurred' = blurred
        BY <1>3 DEF Fail
    <2>2. SnapshotInv(s) /\ \A t \in Slots : MeetingInv(s, t)
        BY DEF CacheInv
    <2>3. \A q \in Touched(slots[s].op) : cache'[q] = slots[s].snapshot[q]
        BY <2>1, TouchedIs DEF Restored
    <2> QED BY <1>1, <1>3, <2>1, <2>2, <2>3 DEF PutBack, SnapshotInv, MeetingInv, Alike, Reach
<1>4. CASE ~(slots[s].alone /\ slots[s].stage = "sent")
    <2>1. blurred' = blurred \cup UNION {Whole(q) : q \in Touched(slots[s].op) \cup slots[s].refetch}
        BY <1>2, <1>4 DEF Fail
    <2> QED BY <2>1 DEF PutBack, Whole
<1> QED BY <1>3, <1>4

LEMMA FailKeeps ==
    ASSUME CacheInv, NEW s \in Slots, Fail(s)
    PROVE  CacheInv'
<1> DEFINE Q == RefetchedAfterError(s)
<1>1. /\ CacheShape /\ ServerInv /\ CountInv /\ SettleInv
      /\ \A r \in Queries : VersionInv(r)
      /\ \A p \in Pages : ReactionInv(p)
      /\ \A x \in People : FriendInv(x)
      /\ \A n \in Notes : NoteInv(n)
    BY DEF CacheInv
<1>2. /\ InFlight(s) /\ Leaves(s, Q) /\ cache' = Restored(s)
      /\ slots[s].op # "react" => selected' = selected
      /\ slots[s].op = "react" => selected' = IF s \in selected THEN selected \ {s} ELSE selected \cup {s}
    BY DEF Fail, InFlight, Leaves, RefetchedAfterError
<1>3. /\ slots[s].op \in Ops /\ slots[s] \in Requests(slots[s].op) /\ Fits(s, slots[s])
      /\ slots[s].refetch \subseteq Queries /\ slots[s].snapshot \in Snapshots(slots[s].op)
    BY <1>1, <1>2, InFlightIs DEF Requests
<1>4. /\ slots'[s] = Nobody
      /\ \A t \in Slots \ {s} : slots'[t] = slots[t] /\ KeepsRequest(t)
      /\ \A t \in Slots : RequestInv(t)'
      /\ slots' = [t \in Slots |-> slots'[t]]
      /\ \A q \in Queries : StaysBlurred(q)
      /\ fetch' = [q \in Queries |-> fetch'[q]] /\ \A q \in Queries : fetch'[q] \in Fetches(q)
      /\ \A q \in Q : fetch'[q].at = "asked"
      /\ \A q \in Queries \ Q : fetch'[q] = fetch[q]
      /\ ServerInv'
      /\ \A t, u \in Slots : MeetingInv(t, u)'
      /\ \A t \in Slots : SnapshotInv(t)'
      /\ \A q \in Queries : FetchInv(q)'
    BY <1>2, LeavingKeeps
<1>5. Q = IF slots[s].op \in {"accept", "remove"} THEN {"profile"} ELSE {}
    BY <1>3 DEF RefetchedAfterError, Fits
<1> HIDE DEF Q
<1>6. /\ server' = server /\ mine' = mine /\ outdated' = outdated
      /\ slots'[s].op = "none" /\ ~InFlight(s)'
    BY <1>2, <1>4 DEF Leaves, Nobody, InFlight
<1>7. "feed" \in Queries /\ "friends" \in Queries /\ "requests" \in Queries
      /\ "profile" \in Queries /\ "inbox" \in Queries
    BY QueriesAre
<1>8. PutBack(s) /\ \A q \in slots[s].refetch : <<q, "version">> \in blurred' \/ slots[s].stage = "sent"
    BY FailPutsBack
<1>9. \A q \in Queries : cache'[q] = IF q \in Touched(slots[s].op) THEN slots[s].snapshot[q] ELSE cache[q]
    BY <1>2 DEF Restored
<1>10. CacheShape'
    <2>1. cache' = [q \in Queries |-> cache'[q]]
        BY <1>2 DEF Restored
    <2>2. \A q \in Queries : cache'[q] \in Values(q)
        BY <1>1, <1>3, <1>9 DEF CacheShape, Snapshots
    <2>3. selected' \subseteq Pages /\ mine' \subseteq Pages
        BY <1>1, <1>2, <1>3, <1>6 DEF CacheShape, Fits
    <2> QED BY <1>1, <1>4, <1>6, <2>1, <2>2, <2>3 DEF CacheShape
<1>11. ASSUME NEW q \in Queries PROVE VersionInv(q)'
    <2>1. CASE q \in Q
        BY <1>4, <2>1 DEF VersionInv
    <2>2. CASE q \notin Q /\ q \in Touched(slots[s].op)
        <3>1. <<q, "version">> \in blurred' \/ cache'[q].version = server'[q].version
            BY <1>6, <1>8, <2>2 DEF PutBack, Alike
        <3> QED BY <3>1 DEF VersionInv
    <2>3. CASE q \notin Q /\ q \notin Touched(slots[s].op)
        <3>1. /\ fetch'[q] = fetch[q] /\ cache'[q] = cache[q] /\ server'[q] = server[q]
              /\ StaysBlurred(q)
            BY <1>4, <1>6, <1>9, <2>3
        <3>2. CASE \E t \in Slots : InFlight(t) /\ slots[t].stage = "served" /\ q \in slots[t].refetch
            <4>1. PICK t \in Slots : InFlight(t) /\ slots[t].stage = "served" /\ q \in slots[t].refetch
                BY <3>2
            <4>2. CASE t = s
                BY <1>8, <4>1, <4>2 DEF VersionInv
            <4>3. CASE t # s
                BY <1>4, <4>1, <4>3 DEF VersionInv, InFlight
            <4> QED BY <4>2, <4>3
        <3>3. CASE ~\E t \in Slots : InFlight(t) /\ slots[t].stage = "served" /\ q \in slots[t].refetch
            <4>1. \/ <<q, "version">> \in blurred
                  \/ fetch[q].at # "idle"
                  \/ cache[q].version = server[q].version
                BY <1>1, <3>3 DEF VersionInv
            <4> QED BY <3>1, <4>1 DEF VersionInv, StaysBlurred
        <3> QED BY <3>2, <3>3
    <2> QED BY <2>1, <2>2, <2>3
<1>12. ASSUME NEW p \in Pages PROVE ReactionInv(p)'
    <2>1. CASE slots[s].op # "react"
        <3>1. "feed" \notin Touched(slots[s].op)
            BY <2>1, TouchedIs DEF Touched
        <3>2. cache'["feed"] = cache["feed"]
            BY <1>7, <1>9, <3>1
        <3>3. KeepsRequest(p) \/ (slots[p].op # "react" /\ slots'[p].op # "react")
            BY <1>4, <1>6, <2>1, QueriesAre
        <3> QED BY <1>1, <1>2, <1>4, <1>6, <1>7, <2>1, <3>2, <3>3, ReactionStays
    <2>2. CASE slots[s].op = "react"
        <3>1. \/ <<"feed", p>> \in blurred'
              \/ /\ Alike(cache'["feed"], server["feed"], "feed", p)
                 /\ \A t \in Slots \ {s} : InFlight(t) => "feed" \notin Reach(slots[t])
            BY <1>8, <2>2, TouchedIs DEF PutBack, Parts
        <3>2. CASE <<"feed", p>> \in blurred'
            BY <3>2 DEF ReactionInv
        <3>3. CASE /\ Alike(cache'["feed"], server["feed"], "feed", p)
                   /\ \A t \in Slots \ {s} : InFlight(t) => "feed" \notin Reach(slots[t])
            <4>1. slots'[p].op # "react"
                BY <1>4, <1>6, <3>3, TouchedIs, QueriesAre DEF InFlight, Reach
            <4>2. cache'["feed"].shows[p] = server["feed"].shows[p]
                BY <3>3, CacheAssumption DEF Alike, View
            <4>3. server["feed"].shows[p] \in Nat
                BY <1>1, CountsAreNat
            <4> QED BY <1>6, <4>1, <4>2, <4>3 DEF ReactionInv, Stage
        <3> QED BY <3>1, <3>2, <3>3
    <2> QED BY <2>1, <2>2
<1>13. ASSUME NEW q \in {"friends", "requests", "inbox"}, q \in Touched(slots[s].op), NEW i \in Parts(q)
       PROVE  \/ <<q, i>> \in blurred'
              \/ /\ i \in cache'[q].shows <=> i \in server[q].shows
                 /\ \A t \in Slots \ {s} : InFlight(t) => q \notin Reach(slots[t])
    <2>1. i # "version"
        BY <1>13, CacheAssumption DEF Parts
    <2>2. \/ <<q, i>> \in blurred'
          \/ /\ View(cache'[q], q, i) = View(server[q], q, i)
             /\ \A t \in Slots \ {s} : InFlight(t) => q \notin Reach(slots[t])
        BY <1>8, <1>13, <2>1 DEF PutBack, Alike
    <2>3. View(cache'[q], q, i) = (i \in cache'[q].shows) /\ View(server[q], q, i) = (i \in server[q].shows)
        BY <1>13 DEF View
    <2> QED BY <2>2, <2>3
<1>14. ASSUME NEW x \in People PROVE FriendInv(x)'
    <2>1. CASE slots[s].op \notin {"accept", "remove"}
        <3>1. "friends" \notin Touched(slots[s].op) /\ "requests" \notin Touched(slots[s].op)
            BY <2>1 DEF Touched
        <3>2. cache'["friends"] = cache["friends"] /\ cache'["requests"] = cache["requests"]
            BY <1>7, <1>9, <3>1
        <3>3. \/ KeepsRequest(x)
              \/ /\ slots[x].op \notin {"accept", "remove"}
                 /\ slots'[x].op \notin {"accept", "remove"}
            BY <1>4, <1>6, <2>1, QueriesAre
        <3> QED BY <1>1, <1>4, <1>6, <1>7, <3>2, <3>3, FriendStays
    <2>2. CASE slots[s].op \in {"accept", "remove"}
        <3>1. \/ <<"friends", x>> \in blurred'
              \/ /\ x \in cache'["friends"].shows <=> x \in server["friends"].shows
                 /\ \A t \in Slots \ {s} : InFlight(t) => "friends" \notin Reach(slots[t])
            BY <1>13, <2>2, TouchedIs DEF Parts
        <3>2. \/ <<"friends", x>> \in blurred'
              \/ /\ x \in cache'["friends"].shows <=> x \in Befriended'
                 /\ slots'[x].op \notin {"accept", "remove"}
            BY <1>4, <1>6, <3>1, TouchedIs, QueriesAre DEF InFlight, Reach, Befriended
        <3>3. \/ <<"requests", x>> \in blurred'
              \/ slots'[x].op = "accept" /\ x \notin cache'["requests"].shows
              \/ /\ slots'[x].op # "accept"
                 /\ x \in cache'["requests"].shows <=> x \in server'["requests"].shows
            <4>1. CASE slots[s].op = "accept"
                <5>1. \/ <<"requests", x>> \in blurred'
                      \/ /\ x \in cache'["requests"].shows <=> x \in server["requests"].shows
                         /\ \A t \in Slots \ {s} : InFlight(t) => "requests" \notin Reach(slots[t])
                    BY <1>13, <4>1, TouchedIs DEF Parts
                <5> QED BY <1>4, <1>6, <5>1, TouchedIs, QueriesAre DEF InFlight, Reach
            <4>2. CASE slots[s].op = "remove"
                <5>1. cache'["requests"] = cache["requests"] /\ StaysBlurred("requests")
                    BY <1>4, <1>7, <1>9, <4>2, TouchedIs
                <5> QED BY <1>1, <1>4, <1>6, <4>2, <5>1, QueriesAre DEF FriendInv, StaysBlurred
            <4> QED BY <2>2, <4>1, <4>2
        <3>4. /\ Stage(x, {"accept"}, "served")' => x \in Befriended' /\ x \notin server'["requests"].shows
              /\ Stage(x, {"remove"}, "served")' => x \notin Befriended'
            <4>1. slots'[x] = slots[x] \/ slots'[x].op = "none"
                BY <1>4, <1>6, QueriesAre
            <4> QED BY <1>1, <1>6, <4>1 DEF FriendInv, Stage, Befriended
        <3> QED BY <3>2, <3>3, <3>4 DEF FriendInv
    <2> QED BY <2>1, <2>2
<1>15. CountInv'
    <2>1. CASE slots[s].op \notin {"accept", "remove"}
        <3>1. "profile" \notin Touched(slots[s].op)
            BY <2>1 DEF Touched
        <3>2. cache'["profile"] = cache["profile"]
            BY <1>7, <1>9, <3>1
        <3>3. \A x \in People : \/ KeepsRequest(x)
                                \/ /\ slots[x].op \notin {"accept", "remove"}
                                   /\ slots'[x].op \notin {"accept", "remove"}
            BY <1>4, <1>6, <2>1, QueriesAre
        <3> QED BY <1>1, <1>4, <1>6, <1>7, <3>2, <3>3, CountStays
    <2>2. CASE slots[s].op \in {"accept", "remove"}
        <3>1. \/ <<"profile", "count">> \in blurred'
              \/ /\ Alike(cache'["profile"], server["profile"], "profile", "count")
                 /\ \A t \in Slots \ {s} : InFlight(t) => "profile" \notin Reach(slots[t])
            BY <1>8, <2>2, TouchedIs DEF PutBack, Parts
        <3>2. CASE <<"profile", "count">> \in blurred'
            BY <3>2 DEF CountInv
        <3>3. CASE /\ Alike(cache'["profile"], server["profile"], "profile", "count")
                   /\ \A t \in Slots \ {s} : InFlight(t) => "profile" \notin Reach(slots[t])
            <4>1. cache'["profile"].shows = server["profile"].shows
                BY <3>3 DEF Alike, View
            <4>2. \A x \in People : slots'[x].op \notin {"accept", "remove"}
                BY <1>4, <1>6, <3>3, TouchedIs, QueriesAre DEF InFlight, Reach
            <4>3. Sent("accept")' = {} /\ Sent("remove")' = {}
                BY <4>2 DEF Sent, Stage
            <4>4. Cardinality(Sent("accept")') = 0 /\ Cardinality(Sent("remove")') = 0
                BY <4>3, FS_EmptySet
            <4>5. server["profile"].shows \in Nat
                BY <1>1, CountsAreNat
            <4> QED BY <1>6, <4>1, <4>4, <4>5 DEF CountInv
        <3> QED BY <3>1, <3>2, <3>3
    <2> QED BY <2>1, <2>2
<1>16. ASSUME NEW n \in Notes PROVE NoteInv(n)'
    <2>1. CASE slots[s].op \notin {"readOne", "readAll"}
        <3>1. "inbox" \notin Touched(slots[s].op)
            BY <2>1 DEF Touched
        <3>2. cache'["inbox"] = cache["inbox"]
            BY <1>7, <1>9, <3>1
        <3>3. \A t \in Slots : KeepsRequest(t) \/ (~Reads(t, n) /\ ~Reads(t, n)')
            BY <1>4, <1>6, <2>1 DEF Reads
        <3> QED BY <1>1, <1>4, <1>6, <1>7, <3>2, <3>3, NoteStays
    <2>2. CASE slots[s].op \in {"readOne", "readAll"}
        <3>1. \/ <<"inbox", n>> \in blurred'
              \/ /\ n \in cache'["inbox"].shows <=> n \in server["inbox"].shows
                 /\ \A t \in Slots \ {s} : InFlight(t) => "inbox" \notin Reach(slots[t])
            BY <1>13, <2>2, TouchedIs DEF Parts
        <3>2. \/ <<"inbox", n>> \in blurred'
              \/ /\ n \in cache'["inbox"].shows <=> n \in server'["inbox"].shows
                 /\ \A t \in Slots : slots'[t].op \notin {"readOne", "readAll"}
            BY <1>4, <1>6, <3>1, TouchedIs DEF InFlight, Reach
        <3> QED BY <3>2 DEF NoteInv, Reads
    <2> QED BY <2>1, <2>2
<1>17. SettleInv'
    <2>1. CASE slots[s].op \in {"accept", "remove"}
        BY <1>4, <1>5, <2>1 DEF SettleInv
    <2>2. CASE slots[s].op \notin {"accept", "remove"}
        <3>1. "profile" \notin Touched(slots[s].op) /\ Q = {}
            BY <1>5, <2>2 DEF Touched
        <3>2. cache'["profile"] = cache["profile"] /\ fetch'["profile"] = fetch["profile"]
            BY <1>4, <1>7, <1>9, <3>1
        <3>3. \A x \in People : \/ KeepsRequest(x)
                                \/ /\ slots[x].op \notin {"accept", "remove"}
                                   /\ slots'[x].op \notin {"accept", "remove"}
            BY <1>4, <1>6, <2>2, QueriesAre
        <3> QED BY <1>1, <1>6, <3>2, <3>3, SettleStays
    <2> QED BY <2>1, <2>2
<1>18. OldInv'
    <2>1. OldInv
        BY DEF CacheInv
    <2>2. \A q \in Queries : server[q].version <= server'[q].version
        BY <1>1, <1>6 DEF CacheShape, Values
    <2>3. \A q \in Queries : fetch'[q].at = "answered" => fetch'[q] = fetch[q]
        BY <1>4
    <2>4. \A t \in Slots : InFlight(t)' => slots'[t] = slots[t]
        BY <1>4, <1>6
    <2>5. \A q \in Queries : \/ cache'[q].version = cache[q].version
                             \/ cache'[q].version <= server[q].version
        BY <1>2, <1>9, <2>1 DEF OldInv
    <2> QED BY <1>1, <1>10, <2>1, <2>2, <2>3, <2>4, <2>5, OldStays DEF InFlight
<1> QED BY <1>4, <1>10, <1>11, <1>12, <1>14, <1>15, <1>16, <1>17, <1>18 DEF CacheInv

-----------------------------------------------------------------------------

\* The tab starts with what the server has, and nothing in flight.
LEMMA CacheBegins == CacheInit => CacheInv
<1> SUFFICES ASSUME CacheInit PROVE CacheInv
    OBVIOUS
<1>1. PICK reacted \in SUBSET Pages, asking \in SUBSET People :
        /\ mine = reacted
        /\ server = [q \in Queries |->
             [version |-> 0,
              shows |-> CASE q = "feed" -> [p \in Pages |-> Others[p] + (IF p \in reacted THEN 1 ELSE 0)]
                          [] q = "friends"  -> People \ asking
                          [] q = "requests" -> asking
                          [] q = "profile"  -> Cardinality(People \ asking)
                          [] OTHER -> {}]]
        /\ cache = server
        /\ selected = {} /\ events = 0 /\ failures = 0 /\ blurred = {} /\ outdated = {}
        /\ fetch = [q \in Queries |-> NoFetch]
        /\ slots = [s \in Slots |-> Nobody]
    BY DEF CacheInit
<1>2. /\ server["feed"].shows = [p \in Pages |-> Others[p] + (IF p \in reacted THEN 1 ELSE 0)]
      /\ server["friends"].shows = People \ asking /\ server["requests"].shows = asking
      /\ server["profile"].shows = Cardinality(People \ asking) /\ server["inbox"].shows = {}
      /\ \A q \in {"accounts", "comments", "communities", "otaku"} : server[q].shows = {}
      /\ \A q \in Queries : server[q].version = 0
      /\ \A q \in Queries : server[q] = [version |-> 0, shows |-> server[q].shows]
      /\ server = [q \in Queries |-> server[q]]
    BY <1>1 DEF Queries
<1>3. Cardinality(People \ asking) \in Nat
    BY CacheAssumption, FS_Subset, FS_CardinalityType
<1>4. /\ server["feed"].shows \in [Pages -> Nat]
      /\ \A p \in Pages : server["feed"].shows[p] = Others[p] + (IF p \in mine THEN 1 ELSE 0)
    <2>1. \A p \in Pages : Others[p] \in Nat /\ Others[p] + (IF p \in reacted THEN 1 ELSE 0) \in Nat
        BY CacheAssumption
    <2>2. \A p \in Pages : server["feed"].shows[p] = Others[p] + (IF p \in mine THEN 1 ELSE 0)
        BY <1>1, <1>2
    <2>3. [p \in Pages |-> Others[p] + (IF p \in reacted THEN 1 ELSE 0)] \in [Pages -> Nat]
        BY <2>1
    <2> QED BY <1>2, <2>2, <2>3
<1>5. ASSUME NEW q \in Queries PROVE server[q] \in Values(q)
    <2>1. server[q].shows \in Shows(q)
        <3>1. CASE q = "feed"
            BY <1>4, <3>1, ShowsIs
        <3>2. CASE q = "friends"
            BY <1>2, <3>2, ShowsIs
        <3>3. CASE q = "requests"
            BY <1>2, <3>3, ShowsIs
        <3>4. CASE q = "profile"
            BY <1>2, <1>3, <3>4, ShowsIs
        <3>5. CASE q = "inbox"
            BY <1>2, <3>5, ShowsIs
        <3>6. CASE q \in {"accounts", "comments", "communities", "otaku"}
            BY <1>2, <3>6, ShowsIs
        <3> QED BY <3>1, <3>2, <3>3, <3>4, <3>5, <3>6 DEF Queries
    <2> QED BY <1>2, <2>1 DEF Values
<1>6. \A s \in Slots : slots[s] = Nobody /\ slots[s].op = "none" /\ ~InFlight(s)
    BY <1>1 DEF Nobody, InFlight
<1>7. \A q \in Queries : fetch[q] = NoFetch /\ fetch[q].at = "idle"
    BY <1>1 DEF NoFetch
<1>8. CacheShape
    <2>1. slots = [s \in Slots |-> slots[s]] /\ fetch = [q \in Queries |-> fetch[q]]
        BY <1>1
    <2> QED BY <1>1, <1>2, <1>5, <1>6, <1>7, <2>1 DEF CacheShape, RequestInv, Fetches
<1>9. ServerInv
    BY <1>2, <1>4 DEF ServerInv, Befriended
<1>10. \A p \in Pages : ReactionInv(p)
    BY <1>1, <1>6, <1>8, CountsAreNat, QueriesAre DEF ReactionInv, Stage
<1>11. \A x \in People : FriendInv(x)
    BY <1>1, <1>6, QueriesAre DEF FriendInv, Stage, Befriended
<1>12. CountInv
    <2>1. Sent("accept") = {} /\ Sent("remove") = {}
        BY <1>6, QueriesAre DEF Sent, Stage
    <2>2. Cardinality(Sent("accept")) = 0 /\ Cardinality(Sent("remove")) = 0
        BY <2>1, FS_EmptySet
    <2> QED BY <1>1, <1>2, <1>3, <2>2 DEF CountInv
<1>13. \A n \in Notes : NoteInv(n)
    BY <1>1, <1>6 DEF NoteInv, Reads
<1>14. SettleInv
    BY <1>1, <1>7, QueriesAre DEF SettleInv
<1>15. \A s, t \in Slots : MeetingInv(s, t) /\ SnapshotInv(s)
    BY <1>6 DEF MeetingInv, SnapshotInv
<1>16. \A q \in Queries : FetchInv(q) /\ VersionInv(q)
    BY <1>1, <1>7 DEF FetchInv, VersionInv
<1>17. OldInv
    BY <1>1, <1>6, <1>7, <1>8 DEF OldInv, CacheShape, Values
<1> QED BY <1>8, <1>9, <1>10, <1>11, <1>12, <1>13, <1>14, <1>15, <1>16, <1>17 DEF CacheInv

LEMMA FormsKeep ==
    ASSUME CacheInv, NEW f \in Forms,
           \/ SubmitPost(f) \/ SubmitComment(f) \/ CreateGroup(f) \/ JoinOrLeave(f)
           \/ ManageAccount(f) \/ FeatureEntry(f) \/ SaveSettings(f)
    PROVE  CacheInv'
<1>1. \E op \in Ops \ {"react", "accept", "remove", "readOne", "readAll"} :
         \E refetch \in SUBSET Queries : Submit(f, op, refetch)
    <2>1. CASE SubmitPost(f)
        BY <2>1 DEF SubmitPost, Ops, Queries
    <2>2. CASE SubmitComment(f)
        BY <2>2 DEF SubmitComment, Ops, Queries
    <2>3. CASE CreateGroup(f)
        BY <2>3 DEF CreateGroup, Ops, Queries
    <2>4. CASE JoinOrLeave(f)
        BY <2>4 DEF JoinOrLeave, Ops, Queries
    <2>5. CASE ManageAccount(f)
        BY <2>5 DEF ManageAccount, Ops, Queries
    <2>6. CASE FeatureEntry(f)
        BY <2>6 DEF FeatureEntry, Ops, Queries
    <2>7. CASE SaveSettings(f)
        BY <2>7 DEF SaveSettings, Ops, Queries
    <2> QED BY <2>1, <2>2, <2>3, <2>4, <2>5, <2>6, <2>7
<1>2. PICK op \in Ops \ {"react", "accept", "remove", "readOne", "readAll"},
           refetch \in SUBSET Queries : Submit(f, op, refetch)
    BY <1>1
<1> QED BY <1>2, SubmitKeeps

LEMMA CacheStutters == CacheInv /\ UNCHANGED cacheVars => CacheInv'
<1> SUFFICES ASSUME CacheInv, UNCHANGED cacheVars PROVE CacheInv'
    OBVIOUS
<1>1. UNCHANGED <<server, cache, selected, mine, fetch, slots, blurred, outdated>>
    BY DEF cacheVars
<1>2. /\ \A q \in Queries : StaysBlurred(q)
      /\ \A t : KeepsRequest(t)
    BY <1>1, SlotsStay DEF StaysBlurred
<1>3. /\ CacheShape' /\ ServerInv' /\ CountInv' /\ SettleInv'
    BY <1>1 DEF CacheInv, CacheShape, RequestInv, Fits, ServerInv, Befriended, CountInv, Sent, Stage,
                SettleInv, Settled, Quiet
<1>4. \A t, u \in Slots : MeetingInv(t, u)' /\ SnapshotInv(t)'
    BY <1>1 DEF CacheInv, MeetingInv, SnapshotInv, InFlight, Reach
<1>5. \A q \in Queries : FetchInv(q)' /\ VersionInv(q)'
    BY <1>1 DEF CacheInv, FetchInv, VersionInv, InFlight
<1>6. \A p \in Pages : ReactionInv(p)'
    BY <1>1 DEF CacheInv, ReactionInv, Stage
<1>7. \A x \in People : FriendInv(x)'
    BY <1>1 DEF CacheInv, FriendInv, Stage, Befriended
<1>8. \A n \in Notes : NoteInv(n)'
    BY <1>1 DEF CacheInv, NoteInv, Reads
<1>9. OldInv'
    BY <1>1 DEF CacheInv, OldInv, InFlight
<1> QED BY <1>3, <1>4, <1>5, <1>6, <1>7, <1>8, <1>9 DEF CacheInv

LEMMA CacheSteps == CacheInv /\ [CacheNext]_cacheVars => CacheInv'
<1> SUFFICES ASSUME CacheInv, [CacheNext]_cacheVars PROVE CacheInv'
    OBVIOUS
<1>1. CASE FeedNext
    BY <1>1, ReactKeeps, FormsKeep DEF FeedNext
<1>2. CASE CircleNext
    BY <1>2, AcceptKeeps, RemoveKeeps DEF CircleNext
<1>3. CASE InboxNext
    BY <1>3, ReadKeeps, NewNoteKeeps DEF InboxNext
<1>4. CASE FormsNext
    BY <1>4, FormsKeep DEF FormsNext
<1>5. CASE SelfNext
    BY <1>5, FormsKeep DEF SelfNext
<1>6. CASE Answers(Queries)
    BY <1>6, ServeKeeps, SucceedKeeps, FailKeeps, StartFetchKeeps, ServeFetchKeeps, ArriveKeeps,
       FetchFailsKeeps DEF Answers
<1>7. CASE UNCHANGED cacheVars
    BY <1>7, CacheStutters
<1> QED BY <1>1, <1>2, <1>3, <1>4, <1>5, <1>6, <1>7 DEF CacheNext

\* However mutations, refusals, lost answers and refetches cross, the cache is
\* what the server has and the mutations in flight have guessed.
THEOREM CacheInvariant == CacheSpec => []CacheInv
<1>1. CacheInit => CacheInv
    BY CacheBegins
<1>2. CacheInv /\ [CacheNext]_cacheVars => CacheInv'
    BY CacheSteps
<1> QED BY <1>1, <1>2, PTL DEF CacheSpec

LEMMA InvIsExact == CacheInv => UndisturbedIsExact
<1> SUFFICES ASSUME CacheInv, NEW q \in Queries, NEW i \in Parts(q) \cup {"version"},
                    <<q, i>> \notin blurred, ~Waiting(q, i)
             PROVE  Same(q, i)
    BY DEF UndisturbedIsExact
<1>1. CASE i = "version"
    <2>1. \A s \in Pending(q) : FALSE
        BY <1>1 DEF Waiting
    <2>2. fetch[q].at = "idle" /\ VersionInv(q)
        BY <1>1 DEF Waiting, CacheInv
    <2>3. cache[q].version = server[q].version
        BY <1>1, <2>1, <2>2 DEF VersionInv, Pending, InFlight
    <2> QED BY <1>1, <2>3 DEF Same
<1>2. CASE i # "version"
    <2>1. \A s \in Pending(q) : i \notin {s, "count"} /\ slots[s].op # "readAll"
        BY DEF Waiting
    <2>2. View(cache[q], q, i) = View(server[q], q, i)
        BY <1>2, <2>1, PartIsExact
    <2> QED BY <1>2, <2>2 DEF Same
<1> QED BY <1>1, <1>2

LEMMA InvSettles == CacheInv => FriendCountSettles
<1> SUFFICES ASSUME CacheInv, Pending("profile") = {}, fetch["profile"].at = "idle",
                    "profile" \notin outdated
             PROVE  cache["profile"].shows = server["profile"].shows
    BY DEF FriendCountSettles
<1>1. Quiet
    BY TouchedIs, QueriesAre DEF Quiet, Pending
<1> QED BY <1>1 DEF CacheInv, SettleInv

\* What is shown is what the server has as soon as the part's own mutation is
\* done, except where the code has no answer until the next fetch.
THEOREM Undisturbed == CacheSpec => []UndisturbedIsExact
<1>1. CacheInv => UndisturbedIsExact
    BY InvIsExact
<1> QED BY <1>1, CacheInvariant, PTL

\* The friend count settles at the server's after the last accept or removal,
\* whatever crossed, unless the fetch that ends it failed.
THEOREM FriendCount == CacheSpec => []FriendCountSettles
<1>1. CacheInv => FriendCountSettles
    BY InvSettles
<1> QED BY <1>1, CacheInvariant, PTL

-----------------------------------------------------------------------------
(* The presence connection: what an object owns.                           *)

Unfinished(o) == {k \in Sockets : sock[k].owner = o /\ ~Over(k)}

ObjectInv(o) ==
    /\ obj[o].socket # None => obj[o].socket \in Unfinished(o)
    /\ LiveSockets(o) \subseteq {obj[o].socket}
    /\ o = current \/ o \in orphaned => Unfinished(o) \subseteq {obj[o].socket}
    /\ o \in fetching => obj[o].socket = None
    /\ o \in fetching /\ o = current => obj[o].connecting
    /\ o # current => ~obj[o].timer
    /\ o \in used /\ o # current => ~obj[o].should
    /\ LiveSockets(o) # {} \/ o \in fetching => o = current \/ o \in orphaned
    /\ o \notin used => Unfinished(o) = {} /\ obj[o].socket = None

AloneInv ==
    ~overlap /\ current # None =>
        fetching \subseteq {current} /\ \A k \in Sockets : ~Over(k) => sock[k].owner = current

ClientInv ==
    /\ TypeOK
    /\ current \in (used \ orphaned) \cup {None}
    /\ \A o \in Objs : ObjectInv(o)
    /\ AloneInv
    /\ StatusIsTruthful

-----------------------------------------------------------------------------
(* What a step leaves alone.                                               *)

SocketStates == {"connecting", "open", "closing", "closed"}

\* A step that says nothing of o or its sockets.
Passes(o) ==
    /\ obj'[o] = obj[o] /\ (o \in fetching' <=> o \in fetching)
    /\ (o = current' <=> o = current)
    /\ (o \in orphaned' <=> o \in orphaned) /\ (o \in used' <=> o \in used)
    /\ \A k \in Sockets : sock'[k] = sock[k] \/ (sock[k].owner # o /\ sock'[k].owner # o)

\* A step that passes an object by leaves its part of the invariant true.
LEMMA PassedBy ==
    ASSUME NEW o \in Objs, ObjectInv(o), Passes(o)
    PROVE  ObjectInv(o)'
<1>1. Unfinished(o)' = Unfinished(o)
    BY DEF Passes, Unfinished, Over
<1>2. LiveSockets(o)' = LiveSockets(o)
    BY DEF Passes, LiveSockets
<1> QED BY <1>1, <1>2 DEF ObjectInv, Passes

\* A socket that was made has an owner.
LEMMA SocketTypes ==
    ASSUME TypeOK, NEW k \in Sockets, sock[k] # Unmade
    PROVE  sock[k] \in [owner : Objs, state : SocketStates]
BY DEF TypeOK, SocketStates

LEMMA ClientBegins == Init => ClientInv
<1> SUFFICES ASSUME Init PROVE ClientInv
    OBVIOUS
<1>1. TypeOK
    <2>1. Fresh \in Fields
        BY DEF Fresh, Fields
    <2>2. faults \in 0..MaxDrops
        BY SocketsAssumption DEF Init
    <2>3. obj \in [Objs -> Fields]
        BY <2>1 DEF Init
    <2>4. current # None <=> shown
        BY DEF Init
    <2> QED BY <2>2, <2>3, <2>4, Zenon DEF Init, TypeOK
<1>2. \A o \in Objs : ObjectInv(o)
    BY SocketsAssumption DEF Init, ObjectInv, Unfinished, LiveSockets, Over, Unmade, Fresh
<1> QED BY <1>1, <1>2 DEF ClientInv, Init, AloneInv, StatusIsTruthful

LEMMA SigningKeeps == ClientInv /\ (SignIn \/ SignOut) => ClientInv'
<1> SUFFICES ASSUME ClientInv, SignIn \/ SignOut PROVE ClientInv'
    OBVIOUS
<1>1. UNCHANGED <<shown, current, used, obj, fetching, sock, status, faults, orphaned, overlap>>
    BY DEF SignIn, SignOut
<1>2. TypeOK'
    <2>1. TypeOK /\ auth' \in BOOLEAN
        BY DEF SignIn, SignOut, ClientInv
    <2> QED BY <2>1, <1>1, Zenon DEF TypeOK
<1>3. \A o \in Objs : ObjectInv(o)'
    BY <1>1, PassedBy DEF ClientInv, Passes
<1> QED BY <1>1, <1>2, <1>3 DEF ClientInv, AloneInv, StatusIsTruthful, Over

LEMMA SignedOutKeeps == ClientInv /\ EffectSignedOut => ClientInv'
<1> SUFFICES ASSUME ClientInv, EffectSignedOut PROVE ClientInv'
    OBVIOUS
<1> USE DEF ClientInv
<1>1. PICK c \in Objs : c = current /\ c \in used /\ c \notin orphaned
    <2>1. current # None /\ used \subseteq Objs
        BY DEF EffectSignedOut, TypeOK
    <2> QED BY <2>1
<1>2. /\ obj[c] \in Fields /\ obj' = [obj EXCEPT ![c] = Disconnected(c)]
      /\ Disconnected(c) \in Fields /\ sock' = SocketsClosed(c)
    <2>1. obj[c] \in Fields
        BY <1>1 DEF TypeOK
    <2>2. Disconnected(c) \in Fields
        BY <2>1 DEF Fields, Disconnected
    <2> QED BY <1>1, <2>1, <2>2 DEF EffectSignedOut
<1>3. \A k \in Sockets : \/ sock'[k] = sock[k]
                         \/ /\ k = obj[c].socket /\ sock[k].state \in {"connecting", "open"}
                            /\ sock[k] \in [owner : Objs, state : SocketStates]
                            /\ sock[k].owner = c
                            /\ sock'[k] = [owner |-> c, state |-> "closing"]
    <2>1. CASE obj[c].socket # None /\ sock[obj[c].socket].state \in {"connecting", "open"}
        <3>1. obj[c].socket \in Sockets /\ sock[obj[c].socket].owner = c
            BY <1>1, <1>2, <2>1 DEF ObjectInv, Unfinished
        <3>2. sock[obj[c].socket] \in [owner : Objs, state : SocketStates]
            BY <3>1, <2>1, SocketTypes DEF Unmade
        <3> QED BY <1>2, <2>1, <3>1, <3>2 DEF SocketsClosed, TypeOK
    <2>2. CASE ~(obj[c].socket # None /\ sock[obj[c].socket].state \in {"connecting", "open"})
        BY <1>2, <2>2 DEF SocketsClosed
    <2> QED BY <2>1, <2>2
<1>4. TypeOK'
    <2>1. sock' \in [Sockets -> {Unmade} \cup [owner : Objs, state : SocketStates]]
        <3>1. \A k \in Sockets : sock'[k] \in {Unmade} \cup [owner : Objs, state : SocketStates]
            BY <1>1, <1>3 DEF TypeOK, SocketStates
        <3>2. sock' = [k \in Sockets |-> sock'[k]]
            BY <1>2 DEF SocketsClosed, TypeOK
        <3> QED BY <3>1, <3>2
    <2>2. obj' \in [Objs -> Fields]
        BY <1>2 DEF TypeOK
    <2>3. current' = None /\ shown' = FALSE /\ status' = "idle" /\ orphaned' \subseteq used'
        BY <1>1 DEF EffectSignedOut, RefCleared, TypeOK
    <2>4. UNCHANGED <<auth, used, fetching, faults, overlap>>
        BY DEF EffectSignedOut
    <2> QED BY <2>1, <2>2, <2>3, <2>4, Zenon DEF TypeOK, SocketStates
<1>5. ASSUME NEW o \in Objs \ {c} PROVE ObjectInv(o)'
    <2>1. Passes(o)
        BY <1>1, <1>2, <1>3, <1>5, SocketsAssumption DEF EffectSignedOut, Passes, TypeOK, RefCleared
    <2> QED BY <2>1, <1>5, PassedBy
<1>6. ObjectInv(c)'
    <2>1. ObjectInv(c) /\ current' # c /\ (c \in fetching => c \in orphaned') /\ c \in used'
          /\ fetching' = fetching /\ (c \in orphaned' => c \in orphaned \/ c \in fetching)
        BY <1>1, SocketsAssumption DEF EffectSignedOut, RefCleared
    <2>2. obj'[c].socket = None /\ ~obj'[c].should /\ ~obj'[c].timer
        BY <1>2 DEF TypeOK, Disconnected, Fields
    <2>3. Unfinished(c)' = Unfinished(c)
        BY <1>3 DEF Unfinished, Over
    <2>4. LiveSockets(c)' = {}
        <3> SUFFICES ASSUME NEW k \in Sockets, sock'[k].owner = c,
                            sock'[k].state \in {"connecting", "open"}
                     PROVE  FALSE
            BY DEF LiveSockets
        <3>1. sock'[k] = sock[k]
            BY <1>3
        <3>2. k = obj[c].socket /\ k # None
            BY <3>1, <2>1, SocketsAssumption DEF LiveSockets, ObjectInv
        <3>3. sock' = [sock EXCEPT ![k].state = "closing"]
            BY <1>2, <3>1, <3>2 DEF SocketsClosed
        <3>4. sock'[k].state = "closing"
            BY <3>3, <3>1, SocketTypes DEF TypeOK, Unmade
        <3> QED BY <3>4
    <2>5. Unfinished(c) \subseteq {obj[c].socket} /\ (c \in fetching => obj[c].socket = None)
        BY <1>1, <2>1 DEF ObjectInv
    <2>6. c \in orphaned' => Unfinished(c) \subseteq {None}
        BY <2>1, <2>5, <1>1
    <2> QED BY <2>1, <2>2, <2>3, <2>4, <2>5, <2>6 DEF ObjectInv
<1>7. AloneInv' /\ StatusIsTruthful' /\ current' = None
    BY DEF EffectSignedOut, AloneInv, StatusIsTruthful, RefCleared
<1> QED BY <1>4, <1>5, <1>6, <1>7

-----------------------------------------------------------------------------
\* A step that changes the object o to r, and of the sockets at most k, which
\* is o's.
ChangesObject(o, r) ==
    /\ r \in Fields /\ obj' = [obj EXCEPT ![o] = r]
    /\ used' = used /\ orphaned' = orphaned /\ current' = current
    /\ fetching' \subseteq used /\ \A p \in Objs \ {o} : p \in fetching' <=> p \in fetching

ChangesSocket(o, k, state) ==
    /\ state \in SocketStates
    /\ sock[k] = Unmade \/ sock[k].owner = o
    /\ sock' = [sock EXCEPT ![k] = [owner |-> o, state |-> state]]

\* The invariant of the other objects, and the types, survive it.
LEMMA ObjectChanged ==
    ASSUME ClientInv, NEW o \in Objs, NEW r, ChangesObject(o, r),
           \/ sock' = sock
           \/ \E k \in Sockets, state \in SocketStates : ChangesSocket(o, k, state)
    PROVE  /\ obj' \in [Objs -> Fields] /\ obj'[o] = r
           /\ sock' \in [Sockets -> {Unmade} \cup [owner : Objs, state : SocketStates]]
           /\ \A p \in Objs \ {o} : ObjectInv(p)'
           /\ ObjectInv(o)
<1> USE DEF ClientInv, ChangesObject
<1>1. obj \in [Objs -> Fields] /\ sock \in [Sockets -> {Unmade} \cup [owner : Objs, state : SocketStates]]
    BY DEF TypeOK, SocketStates
<1>2. /\ sock' \in [Sockets -> {Unmade} \cup [owner : Objs, state : SocketStates]]
      /\ \A p \in Objs \ {o}, k \in Sockets :
            sock'[k] = sock[k] \/ (sock[k].owner # p /\ sock'[k].owner # p)
    <2>1. CASE sock' = sock
        BY <1>1, <2>1
    <2>2. ASSUME NEW k \in Sockets, NEW state \in SocketStates, ChangesSocket(o, k, state)
          PROVE  /\ sock' \in [Sockets -> {Unmade} \cup [owner : Objs, state : SocketStates]]
                 /\ \A p \in Objs \ {o}, j \in Sockets :
                       sock'[j] = sock[j] \/ (sock[j].owner # p /\ sock'[j].owner # p)
        BY <1>1, <2>2, SocketsAssumption DEF ChangesSocket, Unmade
    <2> QED BY <2>1, <2>2
<1>3. ASSUME NEW p \in Objs \ {o} PROVE ObjectInv(p)'
    <2>1. Passes(p)
        BY <1>1, <1>2, <1>3 DEF Passes
    <2> QED BY <2>1, <1>3, PassedBy
<1>4. obj' \in [Objs -> Fields] /\ obj'[o] = r
    BY <1>1
<1> QED BY <1>1, <1>2, <1>3, <1>4

\* What becomes of the live and the unfinished sockets of the owner.
LEMMA SocketsOf ==
    ASSUME ClientInv, NEW o \in Objs, NEW k \in Sockets, NEW state, ChangesSocket(o, k, state)
    PROVE  /\ state \in {"connecting", "open"} => LiveSockets(o)' = LiveSockets(o) \cup {k}
           /\ state \notin {"connecting", "open"} => LiveSockets(o)' = LiveSockets(o) \ {k}
           /\ state # "closed" => Unfinished(o)' = Unfinished(o) \cup {k}
           /\ state = "closed" => Unfinished(o)' = Unfinished(o) \ {k}
           /\ sock'[k].state = state /\ sock'[k].owner = o
           /\ \A j \in Sockets \ {k} : sock'[j] = sock[j]
<1>1. sock \in [Sockets -> {Unmade} \cup [owner : Objs, state : SocketStates]]
    BY DEF ClientInv, TypeOK, SocketStates
<1>2. /\ sock'[k].state = state /\ sock'[k].owner = o
      /\ \A j \in Sockets \ {k} : sock'[j] = sock[j]
    BY <1>1 DEF ChangesSocket
<1>3. state \in SocketStates
    BY DEF ChangesSocket
<1>4. /\ state # "closed" => Unfinished(o)' = Unfinished(o) \cup {k}
      /\ state = "closed" => Unfinished(o)' = Unfinished(o) \ {k}
    BY <1>2, <1>3 DEF Unfinished, Over, SocketStates
<1>5. /\ state \in {"connecting", "open"} => LiveSockets(o)' = LiveSockets(o) \cup {k}
      /\ state \notin {"connecting", "open"} => LiveSockets(o)' = LiveSockets(o) \ {k}
    BY <1>2, <1>3 DEF LiveSockets, SocketStates
<1> QED BY <1>2, <1>4, <1>5

\* The same sockets are open or under way as before.
LEMMA SocketsStay ==
    ASSUME sock' = sock, NEW o \in Objs
    PROVE  LiveSockets(o)' = LiveSockets(o) /\ Unfinished(o)' = Unfinished(o)
BY DEF LiveSockets, Unfinished, Over

LEMMA SignedInKeeps == ClientInv /\ EffectSignedIn => ClientInv'
<1> SUFFICES ASSUME ClientInv, EffectSignedIn PROVE ClientInv'
    OBVIOUS
<1> USE DEF ClientInv
<1>1. PICK o \in Objs \ used :
        /\ current' = o /\ used' = used \cup {o}
        /\ obj' = [obj EXCEPT ![o] = Connected(Fresh)] /\ fetching' = fetching \cup {o}
    BY DEF EffectSignedIn
<1>2. Connected(Fresh) \in Fields /\ Connected(Fresh).socket = None /\ Connected(Fresh).connecting
      /\ ~Connected(Fresh).timer
    BY DEF Connected, Fresh, Fields
<1>3. obj' \in [Objs -> Fields] /\ obj'[o] = Connected(Fresh) /\ \A p \in Objs \ {o} : obj'[p] = obj[p]
    BY <1>1, <1>2 DEF TypeOK
<1>4. current = None /\ ~shown /\ shown' = TRUE /\ sock' = sock /\ orphaned' = orphaned /\ auth' = auth
      /\ faults' = faults /\ status' = "connecting"
    BY DEF EffectSignedIn, TypeOK
<1>5. TypeOK'
    <2>1. current' \in Objs /\ current' # None /\ used' \subseteq Objs /\ fetching' \subseteq used'
          /\ orphaned' \subseteq used'
        BY <1>1, <1>4, SocketsAssumption DEF TypeOK
    <2>2. overlap' \in BOOLEAN
        BY DEF EffectSignedIn
    <2> QED BY <2>1, <2>2, <1>3, <1>4, Zenon DEF TypeOK
<1>6. ASSUME NEW p \in Objs \ {o} PROVE ObjectInv(p)'
    <2>1. p # current /\ p # current'
        BY <1>1, <1>4, SocketsAssumption
    <2>2. Passes(p)
        BY <1>1, <1>3, <1>4, <2>1 DEF Passes
    <2> QED BY <2>2, PassedBy
<1>7. ObjectInv(o)'
    <2>1. Unfinished(o) = {} /\ LiveSockets(o)' = LiveSockets(o) /\ Unfinished(o)' = Unfinished(o)
          /\ LiveSockets(o) \subseteq Unfinished(o)
        BY <1>1, <1>4, SocketsStay DEF ObjectInv, LiveSockets, Unfinished, Over
    <2> QED BY <2>1, <1>1, <1>2, <1>3 DEF ObjectInv
<1>8. AloneInv'
    BY <1>1, <1>4 DEF AloneInv, EffectSignedIn, Over
<1>9. StatusIsTruthful'
    BY <1>1, <1>2, <1>3, <1>4 DEF StatusIsTruthful
<1>10. current' \in (used' \ orphaned') \cup {None}
    BY <1>1, <1>4 DEF TypeOK
<1> QED BY <1>5, <1>6, <1>7, <1>8, <1>9, <1>10

\* What all callbacks of an object have in common.
LEMMA CallbackKeeps ==
    ASSUME ClientInv, NEW o \in Objs, NEW r, ChangesObject(o, r),
           \/ sock' = sock
           \/ \E k \in Sockets, state \in SocketStates : ChangesSocket(o, k, state),
           shown' = shown, overlap' = overlap, auth' \in BOOLEAN, faults' \in 0..MaxDrops,
           status' \in {"idle", "connecting", "connected", "reconnecting", "error"},
           ObjectInv(o)', AloneInv', StatusIsTruthful'
    PROVE  ClientInv'
<1>1. /\ obj' \in [Objs -> Fields]
      /\ sock' \in [Sockets -> {Unmade} \cup [owner : Objs, state : SocketStates]]
      /\ \A p \in Objs \ {o} : ObjectInv(p)'
    BY ObjectChanged
<1>2. /\ used' = used /\ orphaned' = orphaned /\ current' = current /\ fetching' \subseteq used
    BY DEF ChangesObject
<1>3. TypeOK /\ current \in (used \ orphaned) \cup {None}
    BY DEF ClientInv
<1>4. TypeOK'
    BY <1>1, <1>2, <1>3, Zenon DEF TypeOK, SocketStates
<1> QED BY <1>1, <1>2, <1>3, <1>4 DEF ClientInv

\* Alone, a callback is one of the current connection.
LEMMA AloneStays ==
    ASSUME ClientInv, NEW o \in Objs, current' = current, overlap' = overlap,
           \/ o \in fetching \/ obj[o].timer
           \/ \E j \in Sockets : sock[j].owner = o /\ ~Over(j),
           fetching' \subseteq fetching \cup {o},
           \/ sock' = sock
           \/ \E k \in Sockets, state \in SocketStates : ChangesSocket(o, k, state)
    PROVE  AloneInv' /\ (~overlap /\ current # None => o = current)
<1>1. ~overlap /\ current # None => o = current
    BY DEF ClientInv, AloneInv, ObjectInv
<1>2. \A j \in Sockets : ~Over(j)' => sock'[j].owner = o \/ (~Over(j) /\ sock'[j].owner = sock[j].owner)
    <2>1. CASE sock' = sock
        BY <2>1 DEF Over
    <2>2. ASSUME NEW k \in Sockets, NEW state \in SocketStates, ChangesSocket(o, k, state)
          PROVE  \A j \in Sockets : ~Over(j)' => sock'[j].owner = o \/ (~Over(j) /\ sock'[j].owner = sock[j].owner)
        BY <2>2, SocketsOf DEF Over
    <2> QED BY <2>1, <2>2
<1> QED BY <1>1, <1>2 DEF ClientInv, AloneInv

LEMMA ArrivalKeeps ==
    ASSUME ClientInv, NEW o \in Objs, CredentialArrives(o)
    PROVE  ClientInv'
<1> USE DEF ClientInv
<1>1. PICK k \in Sockets : /\ sock[k] = Unmade
                           /\ sock' = [sock EXCEPT ![k] = [owner |-> o, state |-> "connecting"]]
                           /\ obj' = [obj EXCEPT ![o].socket = k]
    BY DEF CredentialArrives
<1> DEFINE r == [obj[o] EXCEPT !.socket = k]
<1>2. obj[o] \in Fields /\ r \in Fields /\ r.socket = k /\ r.should = obj[o].should
      /\ r.timer = obj[o].timer /\ r.connecting = obj[o].connecting
    BY DEF TypeOK, Fields
<1> HIDE DEF r
<1>3. ChangesObject(o, r)
    BY <1>1, <1>2 DEF CredentialArrives, ChangesObject, TypeOK, r
<1>4. ChangesSocket(o, k, "connecting")
    BY <1>1 DEF ChangesSocket, SocketStates
<1>5. obj'[o] = r /\ ObjectInv(o)
    BY <1>3, <1>4, ObjectChanged DEF SocketStates
<1>6. o \in fetching /\ o \notin fetching' /\ UNCHANGED <<auth, shown, current, used, status, faults, orphaned, overlap>>
    BY DEF CredentialArrives
<1>7. ObjectInv(o)'
    <2>1. /\ LiveSockets(o)' = LiveSockets(o) \cup {k} /\ Unfinished(o)' = Unfinished(o) \cup {k}
        BY <1>4, SocketsOf
    <2>2. LiveSockets(o) \subseteq {None} /\ Unfinished(o) \subseteq {None} /\ None \notin Sockets
        BY <1>5, <1>6, SocketsAssumption DEF ObjectInv
    <2>3. LiveSockets(o) = {} /\ Unfinished(o) = {}
        BY <2>2 DEF LiveSockets, Unfinished
    <2> QED BY <2>1, <2>3, <1>2, <1>5, <1>6 DEF ObjectInv, TypeOK
<1>8. AloneInv'
    BY <1>4, <1>6, AloneStays DEF SocketStates, CredentialArrives
<1>9. StatusIsTruthful'
    <2>1. sock'[k].state = "connecting" /\ \A j \in Sockets \ {k} : sock'[j] = sock[j]
        BY <1>4, SocketsOf
    <2>2. ~overlap /\ current # None => o = current
        BY <1>4, <1>6, AloneStays DEF SocketStates, CredentialArrives
    <2>3. sock[k].state = "none"
        BY <1>1 DEF Unmade
    <2> QED BY <2>1, <2>2, <2>3, <1>2, <1>5, <1>6 DEF StatusIsTruthful
<1> QED BY <1>3, <1>4, <1>6, <1>7, <1>8, <1>9, CallbackKeeps DEF SocketStates, TypeOK

LEMMA CredentialLostKeeps ==
    ASSUME ClientInv, NEW o \in Objs, CredentialFails(o) \/ CredentialRefused(o)
    PROVE  ClientInv'
<1> USE DEF ClientInv
<1>1. PICK r : /\ obj' = [obj EXCEPT ![o] = r] /\ r \in Fields
               /\ r.socket = obj[o].socket /\ r.should = obj[o].should
               /\ r.timer => obj[o].timer \/ obj[o].should
    <2>1. obj[o] \in Fields
        BY DEF TypeOK
    <2>2. /\ Scheduled([obj[o] EXCEPT !.connecting = FALSE]) \in Fields
          /\ Scheduled([obj[o] EXCEPT !.connecting = FALSE]).socket = obj[o].socket
          /\ Scheduled([obj[o] EXCEPT !.connecting = FALSE]).should = obj[o].should
          /\ Scheduled([obj[o] EXCEPT !.connecting = FALSE]).timer => obj[o].timer \/ obj[o].should
        BY <2>1 DEF Scheduled, Fields
    <2>3. /\ [obj[o] EXCEPT !.connecting = FALSE] \in Fields
          /\ [obj[o] EXCEPT !.connecting = FALSE].socket = obj[o].socket
          /\ [obj[o] EXCEPT !.connecting = FALSE].should = obj[o].should
          /\ [obj[o] EXCEPT !.connecting = FALSE].timer => obj[o].timer
        BY <2>1 DEF Fields
    <2> QED BY <2>2, <2>3 DEF CredentialFails, CredentialRefused
<1>2. /\ o \in fetching /\ fetching' = fetching \ {o}
      /\ UNCHANGED <<shown, current, used, sock, orphaned, overlap>>
      /\ status' \in {"idle", "error"} /\ auth' \in {auth, FALSE}
    BY DEF CredentialFails, CredentialRefused
<1>3. faults' \in 0..MaxDrops
    BY SocketsAssumption DEF CredentialFails, CredentialRefused, Fault, TypeOK
<1>4. ChangesObject(o, r)
    BY <1>1, <1>2 DEF ChangesObject, TypeOK
<1>5. obj'[o] = r /\ ObjectInv(o)
    BY <1>2, <1>4, ObjectChanged
<1>6. ObjectInv(o)'
    BY <1>1, <1>2, <1>5, SocketsStay DEF ObjectInv, TypeOK
<1>7. AloneInv' /\ (~overlap /\ current # None => o = current)
    BY <1>2, AloneStays
<1>8. StatusIsTruthful'
    BY <1>1, <1>2, <1>5, <1>7, SocketsAssumption DEF StatusIsTruthful, ObjectInv
<1>9. auth' \in BOOLEAN
    BY <1>2, Zenon DEF TypeOK
<1> QED BY <1>2, <1>3, <1>4, <1>6, <1>7, <1>8, <1>9, CallbackKeeps

\* A socket that is not over has an owner, who holds it if it is the current
\* connection or one that was disconnected too early.
LEMMA OwnerOf ==
    ASSUME ClientInv, NEW k \in Sockets, ~Over(k)
    PROVE  /\ sock[k].owner \in Objs /\ sock[k].owner \in used
           /\ k \in Unfinished(sock[k].owner)
           /\ sock[k].state \in {"connecting", "open", "closing"}
<1>1. sock[k] # Unmade
    BY DEF Over, Unmade
<1>2. sock[k] \in [owner : Objs, state : SocketStates]
    BY <1>1, SocketTypes DEF ClientInv
<1>3. k \in Unfinished(sock[k].owner)
    BY DEF Unfinished
<1> QED BY <1>2, <1>3 DEF ClientInv, ObjectInv, SocketStates, Over

LEMMA SocketChanges ==
    ASSUME ClientInv, NEW k \in Sockets, ~Over(k), NEW o, o = sock[k].owner,
           NEW state \in SocketStates, sock' = [sock EXCEPT ![k].state = state]
    PROVE  ChangesSocket(o, k, state)
<1>1. sock[k] \in [owner : Objs, state : SocketStates]
    BY SocketTypes DEF ClientInv, Over, Unmade
<1>2. [sock[k] EXCEPT !.state = state] = [owner |-> o, state |-> state]
    BY <1>1
<1>3. sock' = [sock EXCEPT ![k] = [owner |-> o, state |-> state]]
    BY <1>2
<1> QED BY <1>3 DEF ChangesSocket

LEMMA SocketOpensKeeps ==
    ASSUME ClientInv, NEW k \in Sockets, SocketOpens(k)
    PROVE  ClientInv'
<1> USE DEF ClientInv
<1>1. ~Over(k) /\ sock[k].state = "connecting" /\ sock' = [sock EXCEPT ![k].state = "open"]
      /\ UNCHANGED <<auth, shown, current, used, fetching, faults, orphaned, overlap>>
      /\ status' = "connected"
    BY DEF SocketOpens, Over
<1>2. PICK o \in Objs : o = sock[k].owner /\ o \in used
    BY <1>1, OwnerOf
<1> DEFINE r == [obj[o] EXCEPT !.connecting = FALSE, !.backoff = FALSE, !.ping = TRUE]
<1>3. /\ obj[o] \in Fields /\ r \in Fields /\ r.socket = obj[o].socket /\ r.should = obj[o].should
      /\ r.timer = obj[o].timer
    <2>1. obj[o] \in Fields
        BY DEF TypeOK
    <2> HIDE DEF ClientInv
    <2> QED BY <2>1 DEF Fields
<1>4. ChangesObject(o, r)
    BY <1>1, <1>2, <1>3 DEF SocketOpens, ChangesObject, TypeOK
<1> HIDE DEF r
<1>5. ChangesSocket(o, k, "open")
    BY <1>1, <1>2, SocketChanges DEF SocketStates
<1>6. obj'[o] = r /\ ObjectInv(o)
    BY <1>4, <1>5, ObjectChanged DEF SocketStates
<1>7. k \in LiveSockets(o) /\ k \in Unfinished(o)
    BY <1>1, <1>2 DEF LiveSockets, Unfinished
<1>8. ObjectInv(o)'
    <2>1. LiveSockets(o)' = LiveSockets(o) /\ Unfinished(o)' = Unfinished(o)
        BY <1>5, <1>7, SocketsOf
    <2>2. o \notin fetching
        BY <1>6, <1>7, SocketsAssumption DEF ObjectInv
    <2> QED BY <2>1, <2>2, <1>1, <1>3, <1>6 DEF ObjectInv
<1>9. AloneInv'
    BY <1>1, <1>2, <1>5, AloneStays DEF SocketStates
<1>10. StatusIsTruthful'
    <2>1. sock'[k].state = "open"
        BY <1>5, SocketsOf
    <2> QED BY <2>1, <1>1 DEF StatusIsTruthful
<1> QED BY <1>1, <1>4, <1>5, <1>8, <1>9, <1>10, CallbackKeeps DEF SocketStates, TypeOK

LEMMA SocketBreaksKeeps ==
    ASSUME ClientInv, NEW k \in Sockets, SocketBreaks(k)
    PROVE  ClientInv'
<1> USE DEF ClientInv
<1>1. ~Over(k) /\ sock[k].state \in {"connecting", "open"}
      /\ sock' = [sock EXCEPT ![k].state = "closing"]
      /\ UNCHANGED <<auth, shown, current, used, obj, fetching, status, orphaned, overlap>>
    BY DEF SocketBreaks, Over
<1>2. PICK o \in Objs : o = sock[k].owner
    BY <1>1, OwnerOf
<1>3. ChangesObject(o, obj[o])
    BY <1>1 DEF ChangesObject, TypeOK
<1>4. ChangesSocket(o, k, "closing")
    BY <1>1, <1>2, SocketChanges DEF SocketStates
<1>5. ObjectInv(o)
    OBVIOUS
<1>6. k \in LiveSockets(o) /\ k \in Unfinished(o)
    BY <1>1, <1>2 DEF LiveSockets, Unfinished
<1>7. /\ LiveSockets(o)' = LiveSockets(o) \ {k} /\ Unfinished(o)' = Unfinished(o)
      /\ sock'[k].state = "closing" /\ \A j \in Sockets \ {k} : sock'[j] = sock[j]
    BY <1>4, <1>6, SocketsOf
<1>8. ObjectInv(o)'
    BY <1>1, <1>5, <1>6, <1>7 DEF ObjectInv
<1>9. AloneInv'
    BY <1>1, <1>2, <1>4, AloneStays DEF SocketStates
<1>10. StatusIsTruthful'
    BY <1>1, <1>7 DEF StatusIsTruthful
<1>11. faults' \in 0..MaxDrops
    BY SocketsAssumption DEF SocketBreaks, Fault, TypeOK
<1> QED BY <1>1, <1>3, <1>4, <1>8, <1>9, <1>10, <1>11, CallbackKeeps DEF SocketStates, TypeOK

LEMMA SocketClosesKeeps ==
    ASSUME ClientInv, NEW k \in Sockets, SocketCloses(k)
    PROVE  ClientInv'
<1> USE DEF ClientInv
<1>1. ~Over(k) /\ sock[k].state = "closing"
      /\ sock' = [sock EXCEPT ![k].state = "closed"]
      /\ UNCHANGED <<auth, shown, current, used, fetching, faults, orphaned, overlap>>
      /\ status' \in {"error", "idle"}
    BY DEF SocketCloses, Over, StatusWhenClosed
<1>2. PICK o \in Objs : o = sock[k].owner /\ o \in used
    BY <1>1, OwnerOf
<1> DEFINE r == Scheduled([obj[o] EXCEPT !.ping = FALSE, !.socket = None, !.connecting = FALSE])
<1>3. /\ r \in Fields /\ r.socket = None /\ r.should = obj[o].should
      /\ r.timer => obj[o].timer \/ obj[o].should
    BY DEF TypeOK, Fields, Scheduled
<1>4. ChangesObject(o, r)
    BY <1>1, <1>2, <1>3 DEF SocketCloses, ChangesObject, TypeOK
<1> HIDE DEF r
<1>5. ChangesSocket(o, k, "closed")
    BY <1>1, <1>2, SocketChanges DEF SocketStates
<1>6. obj'[o] = r /\ ObjectInv(o)
    BY <1>4, <1>5, ObjectChanged DEF SocketStates
<1>7. k \in Unfinished(o)
    BY <1>1, <1>2 DEF Unfinished
<1>8. /\ LiveSockets(o)' = LiveSockets(o) \ {k} /\ Unfinished(o)' = Unfinished(o) \ {k}
      /\ \A j \in Sockets \ {k} : sock'[j] = sock[j]
    BY <1>5, SocketsOf
<1>9. ObjectInv(o)'
    <2>1. LiveSockets(o)' = {}
        <3>1. CASE o = current \/ o \in orphaned
            BY <3>1, <1>6, <1>7, <1>8 DEF ObjectInv
        <3>2. CASE o # current /\ o \notin orphaned
            BY <3>2, <1>6, <1>8 DEF ObjectInv
        <3> QED BY <3>1, <3>2
    <2>2. o = current \/ o \in orphaned => Unfinished(o)' = {} /\ o \notin fetching
        BY <1>6, <1>7, <1>8, SocketsAssumption DEF ObjectInv
    <2> QED BY <2>1, <2>2, <1>1, <1>2, <1>3, <1>6 DEF ObjectInv
<1>10. AloneInv'
    BY <1>1, <1>2, <1>5, AloneStays DEF SocketStates
<1>11. StatusIsTruthful'
    <2>1. ~overlap /\ current # None => o = current
        BY <1>1, <1>2, <1>5, AloneStays DEF SocketStates
    <2> QED BY <2>1, <1>1, <1>3, <1>6 DEF StatusIsTruthful
<1> QED BY <1>1, <1>4, <1>5, <1>9, <1>10, <1>11, CallbackKeeps DEF SocketStates, TypeOK

LEMMA TimerKeeps ==
    ASSUME ClientInv, NEW o \in Objs, TimerFires(o)
    PROVE  ClientInv'
<1> USE DEF ClientInv
<1>1. /\ obj[o].timer /\ o = current /\ o \in used
      /\ UNCHANGED <<auth, shown, current, used, sock, faults, orphaned, overlap>>
    BY SocketsAssumption DEF TimerFires, ObjectInv
<1>2. PICK r : /\ obj' = [obj EXCEPT ![o] = r] /\ r \in Fields /\ r.socket = obj[o].socket
               /\ \/ /\ fetching' = fetching /\ status' = status
                     /\ r.connecting = obj[o].connecting
                  \/ /\ fetching' = fetching \cup {o} /\ status' = "reconnecting"
                     /\ r.connecting /\ ~obj[o].connecting /\ obj[o].socket = None
    <2>1. obj[o] \in Fields
        BY DEF TypeOK
    <2> DEFINE r == [obj[o] EXCEPT !.timer = FALSE, !.backoff = TRUE]
    <2>2. /\ r \in Fields /\ r.socket = obj[o].socket /\ r.connecting = obj[o].connecting
          /\ Connected(r) \in Fields /\ Connected(r).socket = obj[o].socket /\ Connected(r).connecting
        BY <2>1 DEF Connected, Fields
    <2>3. CASE obj[o].connecting \/ obj[o].socket # None
        BY <2>2, <2>3 DEF TimerFires
    <2>4. CASE ~(obj[o].connecting \/ obj[o].socket # None)
        BY <2>2, <2>4 DEF TimerFires
    <2> QED BY <2>3, <2>4
<1>3. ChangesObject(o, r)
    BY <1>1, <1>2 DEF ChangesObject, TypeOK
<1>4. obj'[o] = r /\ ObjectInv(o)
    BY <1>1, <1>3, ObjectChanged
<1>5. ObjectInv(o)'
    BY <1>1, <1>2, <1>4, SocketsStay DEF ObjectInv
<1>6. AloneInv'
    BY <1>1, <1>2, AloneStays
<1>7. StatusIsTruthful'
    <2>1. CASE status' = status
        BY <2>1, <1>1, <1>2, <1>4 DEF StatusIsTruthful
    <2>2. CASE status' = "reconnecting" /\ obj[o].socket = None
        BY <2>2, <1>1, <1>2, <1>4 DEF StatusIsTruthful
    <2> QED BY <2>1, <2>2, <1>2
<1>8. status' \in {"idle", "connecting", "connected", "reconnecting", "error"}
    BY <1>2 DEF TypeOK
<1> QED BY <1>1, <1>3, <1>5, <1>6, <1>7, <1>8, CallbackKeeps DEF TypeOK

LEMMA ClientSteps == ClientInv /\ [Next]_vars => ClientInv'
<1> SUFFICES ASSUME ClientInv, [Next]_vars PROVE ClientInv'
    OBVIOUS
<1>1. CASE UNCHANGED vars
    <2>1. TypeOK'
        BY <1>1 DEF ClientInv, TypeOK, vars
    <2>2. \A o \in Objs : ObjectInv(o)'
        BY <1>1, PassedBy DEF ClientInv, Passes, vars
    <2> QED BY <1>1, <2>1, <2>2 DEF ClientInv, vars, AloneInv, StatusIsTruthful, Over
<1>2. CASE Next
    BY <1>2, SigningKeeps, SignedOutKeeps, SignedInKeeps, ArrivalKeeps, CredentialLostKeeps,
       TimerKeeps, SocketOpensKeeps, SocketBreaksKeeps, SocketClosesKeeps DEF Next, Effect
<1> QED BY <1>1, <1>2

\* However sign-ins, credentials, timers and socket events fall, every object
\* accounts for its sockets.
THEOREM ClientInvariant == Spec => []ClientInv
<1> QED BY ClientBegins, ClientSteps, PTL DEF Spec

\* An object holds or awaits one socket at most, and what lives belongs to the
\* connection of the hook or to one that was dropped awaiting its credential.
THEOREM OneSocket == Spec => []OneSocketAtATime
<1>1. ClientInv => OneSocketAtATime
    <2> SUFFICES ASSUME ClientInv, NEW o \in Objs
                 PROVE  /\ Cardinality(LiveSockets(o)) + (IF o \in fetching THEN 1 ELSE 0) <= 1
                        /\ LiveSockets(o) # {} \/ o \in fetching => o = current \/ o \in orphaned
        BY DEF OneSocketAtATime
    <2>1. ObjectInv(o) /\ None \notin Sockets
        BY SocketsAssumption DEF ClientInv
    <2>2. CASE LiveSockets(o) = {}
        BY <2>1, <2>2, FS_EmptySet DEF ObjectInv
    <2>3. CASE LiveSockets(o) # {}
        <3>1. o \notin fetching
            BY <2>1, <2>3 DEF ObjectInv, LiveSockets
        <3>2. LiveSockets(o) = {obj[o].socket}
            BY <2>1, <2>3 DEF ObjectInv
        <3>3. Cardinality(LiveSockets(o)) = 1
            BY <3>2, FS_Singleton
        <3> QED BY <2>1, <3>1, <3>3 DEF ObjectInv
    <2> QED BY <2>2, <2>3
<1> QED BY <1>1, ClientInvariant, PTL

\* The store says "connected" only of a socket that is open or closing, and the
\* open socket of an undisturbed connection is shown as connected.
THEOREM StatusTruthful == Spec => []StatusIsTruthful
<1>1. ClientInv => StatusIsTruthful
    BY DEF ClientInv
<1> QED BY <1>1, ClientInvariant, PTL

-----------------------------------------------------------------------------
(* The types of what only bounds and marks the behaviour.                  *)

Marked == UNION {Whole(q) : q \in Queries}

MarksInv ==
    /\ events \in 0..MaxEvents /\ failures \in 0..MaxFaults
    /\ blurred \subseteq Marked /\ outdated \subseteq Queries

\* The marks there are.
LEMMA MarkedIs ==
    /\ \A q \in Queries : Whole(q) \subseteq Marked /\ <<q, "version">> \in Marked
    /\ \A p \in Pages : <<"feed", p>> \in Marked
<1>1. \A q \in Queries : Whole(q) \subseteq Marked /\ <<q, "version">> \in Marked
    BY DEF Marked, Whole
<1>2. ASSUME NEW p \in Pages PROVE <<"feed", p>> \in Marked
    <2>1. Parts("feed") = Pages
        BY DEF Parts
    <2>2. <<"feed", p>> \in Whole("feed")
        BY <2>1 DEF Whole
    <2> QED BY <2>2, <1>1, QueriesAre
<1> QED BY <1>1, <1>2

LEMMA EventsCount == events \in 0..MaxEvents /\ Happens => events' \in 0..MaxEvents
BY CacheAssumption DEF Happens

LEMMA MutateMarks ==
    ASSUME MarksInv, NEW s, NEW op, NEW refetch, NEW changed, NEW distorted,
           distorted \subseteq Marked, Mutate(s, op, refetch, changed, distorted)
    PROVE  MarksInv'
<1>1. events' \in 0..MaxEvents /\ UNCHANGED <<failures, outdated>>
    BY EventsCount DEF Mutate, MarksInv
<1>2. blurred' \subseteq Marked
    BY MarkedIs, TouchedIs DEF Mutate, MarksInv
<1> QED BY <1>1, <1>2 DEF MarksInv

LEMMA TabMarks ==
    ASSUME MarksInv,
           \/ \E p \in Pages : React(p)
           \/ \E x \in People : Accept(x) \/ Remove(x)
           \/ ReadAll \/ \E n \in Notes : ReadOne(n)
    PROVE  MarksInv'
<1>1. ASSUME NEW p \in Pages, React(p) PROVE MarksInv'
    <2> DEFINE clamped == cache["feed"].shows[p] + (IF p \in selected THEN -1 ELSE 1) < 0
               distorted == IF clamped THEN {<<"feed", p>>} ELSE {}
    <2>1. distorted \subseteq Marked
        BY MarkedIs
    <2>2. \E changed : Mutate(p, "react", {}, changed, distorted)
        BY <1>1 DEF React
    <2> QED BY <2>1, <2>2, MutateMarks
<1>2. ASSUME NEW x \in People, Accept(x) \/ Remove(x) PROVE MarksInv'
    <2>1. \E op, refetch, changed : Mutate(x, op, refetch, changed, {})
        BY <1>2 DEF Accept, Remove
    <2> QED BY <2>1, MutateMarks
<1>3. ASSUME ReadAll PROVE MarksInv'
    <2>1. \E op, refetch, changed : Mutate("all", op, refetch, changed, {})
        BY <1>3 DEF ReadAll
    <2> QED BY <2>1, MutateMarks
<1>4. ASSUME NEW n \in Notes, ReadOne(n) PROVE MarksInv'
    <2>1. \E op, refetch, changed : Mutate(n, op, refetch, changed, {})
        BY <1>4 DEF ReadOne
    <2> QED BY <2>1, MutateMarks
<1> QED BY <1>1, <1>2, <1>3, <1>4

LEMMA FormsMark ==
    ASSUME MarksInv, NEW f, NEW op, NEW refetch, Submit(f, op, refetch)
    PROVE  MarksInv'
BY EventsCount DEF Submit, MarksInv

LEMMA NewNoteMarks ==
    ASSUME MarksInv, NEW n \in Notes, NewNote(n)
    PROVE  MarksInv'
<1>1. Parts("inbox") = Notes
    BY DEF Parts
<1>2. {<<"inbox", n>>, <<"inbox", "version">>} \subseteq Marked
    BY <1>1, MarkedIs, QueriesAre DEF Whole
<1> QED BY <1>2, EventsCount DEF NewNote, MarksInv

LEMMA AnswersMark ==
    ASSUME CacheInv, MarksInv, Answers(Queries)
    PROVE  MarksInv'
<1>1. ASSUME NEW s \in Slots, Serve(s) \/ Succeed(s) PROVE MarksInv'
    BY <1>1 DEF Serve, Succeed, MarksInv
<1>2. ASSUME NEW s \in Slots, Fail(s) PROVE MarksInv'
    <2>1. slots[s].refetch \subseteq Queries
        BY <1>2, InFlightIs DEF Fail, InFlight, CacheInv, Requests
    <2>2. UNION {Whole(q) : q \in Touched(slots[s].op) \cup slots[s].refetch} \subseteq Marked
        BY <2>1, TouchedIs, MarkedIs
    <2>3. blurred' \subseteq Marked
        BY <1>2, <2>2 DEF Fail, MarksInv
    <2>4. failures' \in 0..MaxFaults
        BY <1>2, CacheAssumption DEF Fail, MarksInv
    <2>5. UNCHANGED <<events, outdated>>
        BY <1>2 DEF Fail
    <2> QED BY <2>3, <2>4, <2>5 DEF MarksInv
<1>3. ASSUME NEW q \in Queries, StartFetch(q) \/ ServeFetch(q) PROVE MarksInv'
    BY <1>3 DEF StartFetch, ServeFetch, MarksInv
<1>4. ASSUME NEW q \in Queries, Arrive(q) PROVE MarksInv'
    BY <1>4, MarkedIs DEF Arrive, MarksInv
<1>5. ASSUME NEW q \in Queries, FetchFails(q) PROVE MarksInv'
    BY <1>5, MarkedIs, CacheAssumption DEF FetchFails, MarksInv
<1> QED BY <1>1, <1>2, <1>3, <1>4, <1>5 DEF Answers

LEMMA MarksKept == CacheInv /\ MarksInv /\ [CacheNext]_cacheVars => MarksInv'
<1> SUFFICES ASSUME CacheInv, MarksInv, [CacheNext]_cacheVars PROVE MarksInv'
    OBVIOUS
<1>1. CASE FeedNext \/ CircleNext \/ InboxNext \/ FormsNext \/ SelfNext
    <2>1. ASSUME NEW f, \/ SubmitPost(f) \/ SubmitComment(f) \/ CreateGroup(f) \/ JoinOrLeave(f)
                        \/ ManageAccount(f) \/ FeatureEntry(f) \/ SaveSettings(f)
          PROVE  MarksInv'
        BY <2>1, FormsMark DEF SubmitPost, SubmitComment, CreateGroup, JoinOrLeave, ManageAccount,
                               FeatureEntry, SaveSettings
    <2> QED BY <1>1, <2>1, TabMarks, NewNoteMarks DEF FeedNext, CircleNext, InboxNext, FormsNext, SelfNext
<1>2. CASE Answers(Queries)
    BY <1>2, AnswersMark
<1>3. CASE UNCHANGED cacheVars
    BY <1>3 DEF cacheVars, MarksInv
<1> QED BY <1>1, <1>2, <1>3 DEF CacheNext

\* The cache keeps its types and is never ahead of the server; only parts of
\* queries are ever marked as doubtful.
THEOREM CacheTypeCorrect == CacheSpec => []CacheTypeOK
<1>1. CacheInit => MarksInv
    BY CacheAssumption DEF CacheInit, MarksInv
<1>2. CacheInv /\ MarksInv /\ [CacheNext]_cacheVars => MarksInv'
    BY MarksKept
<1>3. CacheInv /\ MarksInv => CacheTypeOK
    <2> SUFFICES ASSUME CacheInv, MarksInv PROVE CacheTypeOK
        OBVIOUS
    <2>1. ASSUME NEW q \in Queries
          PROVE  fetch[q].at \in {"idle", "asked", "answered"} /\ cache[q].version <= server[q].version
        <3>1. fetch[q] \in Fetches(q)
            BY DEF CacheInv, CacheShape
        <3>2. fetch[q].at \in {"idle", "asked", "answered"}
            BY <3>1 DEF Fetches, NoFetch, Asked
        <3> QED BY <3>2 DEF CacheInv, OldInv
    <2>2. selected \subseteq Pages /\ mine \subseteq Pages
        BY DEF CacheInv, CacheShape
    <2> QED BY <2>1, <2>2 DEF CacheTypeOK, MarksInv, Marked
<1> QED BY <1>1, <1>2, <1>3, CacheInvariant, PTL DEF CacheSpec

-----------------------------------------------------------------------------
(* The tab as a whole: the connection and the cache side by side.          *)

LEMMA AnswersAmong ==
    ASSUME NEW Q \in SUBSET Queries, Answers(Q)
    PROVE  Answers(Queries)
BY DEF Answers

\* Every behaviour of the tab is one of the cache and one of the connection.
LEMMA TabIsBoth == FrontendSpec => CacheSpec /\ Spec
<1>1. FrontendInit => CacheInit /\ Init
    BY DEF FrontendInit
<1>2. [FrontendNext]_<<screen, cacheVars, vars>> => [CacheNext]_cacheVars /\ [Next]_vars
    <2> SUFFICES ASSUME [FrontendNext]_<<screen, cacheVars, vars>>
                 PROVE  [CacheNext]_cacheVars /\ [Next]_vars
        OBVIOUS
    <2>1. ASSUME NEW Q \in SUBSET Queries,
                 FeedNext \/ CircleNext \/ InboxNext \/ FormsNext \/ SelfNext \/ Answers(Q)
          PROVE  CacheNext
        BY <2>1, AnswersAmong DEF CacheNext
    <2>2. /\ {"feed"} \subseteq Queries /\ {"friends", "profile"} \subseteq Queries
          /\ {"inbox"} \subseteq Queries /\ {"otaku", "profile"} \subseteq Queries
          /\ {"accounts", "communities"} \subseteq Queries
        BY DEF Queries
    <2>3. CASE FrontendNext
        BY <2>1, <2>2, <2>3 DEF FrontendNext
    <2>4. CASE UNCHANGED <<screen, cacheVars, vars>>
        BY <2>4
    <2> QED BY <2>3, <2>4
<1> QED BY <1>1, <1>2, PTL DEF FrontendSpec, CacheSpec, Spec

\* Both parts of the tab keep their types, side by side.
THEOREM TypeCorrect == FrontendSpec => []FrontendTypeOK
<1>1. ClientInv => TypeOK
    BY DEF ClientInv
<1>2. CacheTypeOK /\ TypeOK => FrontendTypeOK
    BY DEF FrontendTypeOK
<1> QED BY <1>1, <1>2, TabIsBoth, CacheTypeCorrect, ClientInvariant, PTL
=============================================================================
