---------------------------- MODULE SocialProofs ----------------------------
(* Results about Communities, Posts and Continuity, and about all that     *)
(* module Content puts together, for any number of users, handlers, slugs, *)
(* posts and comments.                                                     *)
(* Sorting: what ORDER BY and Array.prototype.sort give, for keys that     *)
(* differ.                                                                 *)
(* Communities: exactly one owner, a member, whatever creations, joins and *)
(* leaves cross.  The inductive invariant adds what a handler knows from   *)
(* its lookup: a community that was there is still there when it writes.   *)
(* A second invariant, on top of it, counts the requests that took effect. *)
(* Posts: a comment that was stored is in the list of its post, and the    *)
(* counter of a profile and the reactions are what the requests add up to. *)
(* The inductive invariant says that a post that is gone stays away, so    *)
(* that the parent of a reply is there as long as its post is; the tally   *)
(* on top of it counts requests as for communities.                        *)
(* The feed: a reader sees every post once, newest first.  The invariant   *)
(* says where a reader is: what was read is no older than the cursor, and  *)
(* what is owed was read or is older.                                      *)
(* Continuity: the streak computed from sorted days is a run of days.      *)
(* Content: types, area by area.                                           *)
EXTENDS Content, ProfileProofs

-----------------------------------------------------------------------------
(* Sorting.                                                                *)

\* Keys of a finite set, no two of them equal.
Keyed(S, key) ==
    /\ IsFiniteSet(S) /\ key \in [S -> Int]
    /\ \A x, y \in S : key[x] = key[y] => x = y

\* The k-th element in descending order is the one that k elements do not
\* come after: numbers below n and elements correspond, or two elements had
\* the same number.
LEMMA DescendingSorts ==
    ASSUME NEW S, NEW key, Keyed(S, key)
    PROVE  /\ Descending(S, key) \in Seq(S) /\ Len(Descending(S, key)) = Cardinality(S)
           /\ Cardinality(S) \in Nat /\ Range(Descending(S, key)) = S
           /\ \A i, k \in 1..Cardinality(S) :
                i < k => key[Descending(S, key)[i]] > key[Descending(S, key)[k]]
<1> DEFINE n == Cardinality(S)
           upto(x) == Upto(S, key, x)
           rank == [x \in S |-> Cardinality(upto(x))]
           sorted == Descending(S, key)
<1>1. n \in Nat /\ IsFiniteSet(S) /\ \A x \in S : key[x] \in Int
    BY FS_CardinalityType DEF Keyed
<1>2. ASSUME NEW x \in S
      PROVE  /\ IsFiniteSet(upto(x)) /\ upto(x) \subseteq S /\ x \in upto(x)
             /\ Cardinality(upto(x)) \in 1..n
    <2>1. upto(x) \in SUBSET S /\ x \in upto(x)
        BY <1>1 DEF Upto
    <2> HIDE DEF upto
    <2>2. IsFiniteSet(upto(x)) /\ Cardinality(upto(x)) <= n
        BY <1>1, <2>1, FS_Subset
    <2>3. Cardinality(upto(x)) \in Nat /\ Cardinality(upto(x)) # 0
        BY <2>1, <2>2, FS_CardinalityType, FS_EmptySet
    <2> QED BY <1>1, <2>1, <2>2, <2>3
<1>3. ASSUME NEW x \in S, NEW y \in S, key[x] > key[y] PROVE rank[x] < rank[y]
    <2>1. upto(x) \cup {y} \in SUBSET upto(y) /\ y \notin upto(x)
        BY <1>1, <1>3 DEF Upto
    <2> HIDE DEF upto
    <2>2. IsFiniteSet(upto(x)) /\ IsFiniteSet(upto(y))
        BY <1>2
    <2>3. Cardinality(upto(x) \cup {y}) = Cardinality(upto(x)) + 1
        BY <2>1, <2>2, FS_AddElement
    <2>4. Cardinality(upto(x) \cup {y}) <= Cardinality(upto(y))
        BY <2>1, <2>2, FS_Subset
    <2>5. rank[x] \in Nat /\ rank[y] \in Nat
        BY <1>2
    <2> QED BY <2>3, <2>4, <2>5
<1>4. \A x, y \in S : rank[x] = rank[y] => x = y
    <2> SUFFICES ASSUME NEW x \in S, NEW y \in S, x # y PROVE rank[x] # rank[y]
        OBVIOUS
    <2>1. key[x] > key[y] \/ key[y] > key[x]
        BY <1>1 DEF Keyed
    <2>2. rank[x] \in Nat /\ rank[y] \in Nat
        BY <1>2
    <2> HIDE DEF rank
    <2> QED BY <1>3, <2>1, <2>2
<1>5. ASSUME NEW k \in 1..n PROVE \E x \in S : rank[x] = k
    <2> SUFFICES ASSUME \A x \in S : rank[x] # k PROVE FALSE
        OBVIOUS
    <2>1. rank \in [S -> (1..n) \ {k}]
        BY <1>2
    <2>2. IsFiniteSet(1..n) /\ Cardinality(1..n) = n
        BY <1>1, FS_Interval
    <2>3. IsFiniteSet((1..n) \ {k}) /\ Cardinality((1..n) \ {k}) = n - 1
        <3>1. PICK numbers : numbers = 1..n
            OBVIOUS
        <3>2. IsFiniteSet(numbers) /\ Cardinality(numbers) = n /\ k \in numbers
            BY <2>2, <3>1
        <3>3. IsFiniteSet(numbers \ {k}) /\ Cardinality(numbers \ {k}) = n - 1
            BY <3>2, FS_RemoveElement
        <3> QED BY <3>1, <3>3
    <2>4. PICK f : f = rank
        OBVIOUS
    <2>5. f \in [S -> (1..n) \ {k}] /\ \A x, y \in S : f[x] = f[y] => x = y
        BY <1>4, <2>1, <2>4
    <2> HIDE DEF rank
    <2>6. Cardinality((1..n) \ {k}) < Cardinality(S)
        BY <1>1, <2>3
    <2> QED BY <1>1, <2>3, <2>5, <2>6, FS_PigeonHole
<1>6. ASSUME NEW k \in 1..n PROVE sorted[k] \in S /\ rank[sorted[k]] = k
    <2>1. sorted[k] = CHOOSE x \in S : Cardinality(upto(x)) = k
        BY DEF Descending
    <2>2. \E x \in S : Cardinality(upto(x)) = k
        BY <1>5
    <2> QED BY <2>1, <2>2
<1>7. sorted \in Seq(S) /\ Len(sorted) = n /\ DOMAIN sorted = 1..n
    <2>1. sorted = [k \in 1..n |-> sorted[k]]
        BY DEF Descending
    <2> HIDE DEF sorted, n
    <2>2. sorted \in [1..n -> S] /\ DOMAIN sorted = 1..n
        BY <1>6, <2>1
    <2> QED BY <1>1, <2>2
<1>8. Range(sorted) = S
    <2>1. ASSUME NEW x \in S PROVE x \in Range(sorted)
        <3>1. rank[x] \in 1..n
            BY <1>2
        <3> HIDE DEF rank, sorted, n
        <3>2. sorted[rank[x]] = x
            BY <1>4, <1>6, <3>1
        <3> QED BY <1>7, <3>1, <3>2 DEF Range
    <2> HIDE DEF rank, sorted, n
    <2> QED BY <1>6, <1>7, <2>1 DEF Range
<1>9. ASSUME NEW i \in 1..n, NEW k \in 1..n, i < k PROVE key[sorted[i]] > key[sorted[k]]
    <2> HIDE DEF rank, sorted, n
    <2>1. /\ sorted[i] \in S /\ sorted[k] \in S
          /\ rank[sorted[i]] = i /\ rank[sorted[k]] = k
        BY <1>6
    <2>2. key[sorted[i]] # key[sorted[k]]
        BY <1>9, <2>1 DEF Keyed
    <2>3. ~(key[sorted[k]] > key[sorted[i]])
        BY <1>3, <1>9, <2>1
    <2> QED BY <1>1, <2>1, <2>2, <2>3
<1> QED BY <1>1, <1>7, <1>8, <1>9

-----------------------------------------------------------------------------
(* Communities.                                                            *)

CommunityQueries == {"idle", "done", "community", "transaction", "role", "member", "summary"}

\* Past the lookup, a handler speaks of a community that exists.
CommunityJob(query, j) ==
    query \notin {"idle", "done"} =>
        /\ {"op", "user", "slug"} \subseteq DOMAIN j
        /\ j.user \in Users /\ j.slug \in Slugs
        /\ j.op \in {"found", "join", "leave", "view"}
        /\ query = "role" => j.op # "found"
        /\ query \in {"role", "member", "summary"} => owner[j.slug] # None

CommunitiesInv ==
    /\ pc \in [Handlers -> CommunityQueries]
    /\ DOMAIN job = Handlers /\ job = [h \in Handlers |-> job[h]]
    /\ CommunitiesTypeOK
    /\ \A h \in Handlers : CommunityJob(pc[h], job[h])
    /\ OwnerIsMember

LEMMA CommunitiesStart == HandlersInit /\ CommunitiesInit => CommunitiesInv
BY FoundersAssumption, RoleAssumption
   DEF HandlersInit, CommunitiesInit, CommunitiesInv, CommunitiesTypeOK, CommunityQueries,
       CommunityJob, OwnerIsMember

\* The other handlers keep what they know: communities do not go away.
LEMMA OthersKeepCommunities ==
    ASSUME CommunitiesInv, NEW h \in Handlers, NEW query \in CommunityQueries, NEW j,
           pc' = [pc EXCEPT ![h] = query], job' = [job EXCEPT ![h] = j],
           \A s \in Slugs : owner[s] # None => owner'[s] # None,
           CommunityJob(query, j)'
    PROVE  /\ pc' \in [Handlers -> CommunityQueries]
           /\ DOMAIN job' = Handlers /\ job' = [g \in Handlers |-> job'[g]]
           /\ \A g \in Handlers : CommunityJob(pc[g], job[g])'
<1>1. /\ pc' \in [Handlers -> CommunityQueries]
      /\ DOMAIN job' = Handlers /\ job' = [g \in Handlers |-> job'[g]]
    BY DEF CommunitiesInv
<1>2. ASSUME NEW g \in Handlers PROVE CommunityJob(pc[g], job[g])'
    <2>1. CASE g = h
        <3>1. pc'[g] = query /\ job'[g] = j
            BY <2>1 DEF CommunitiesInv
        <3> QED BY <3>1 DEF CommunityJob
    <2>2. CASE g # h
        <3>1. pc'[g] = pc[g] /\ job'[g] = job[g]
            BY <2>2 DEF CommunitiesInv
        <3>2. CommunityJob(pc[g], job[g])
            BY DEF CommunitiesInv
        <3> QED BY <3>1, <3>2 DEF CommunityJob
    <2> QED BY <2>1, <2>2
<1> QED BY <1>1, <1>2

\* A step of a handler that writes no table.
LEMMA ReadKeepsCommunities ==
    ASSUME CommunitiesInv, NEW h \in Handlers, NEW query \in CommunityQueries, NEW j,
           pc' = [pc EXCEPT ![h] = query], job' = [job EXCEPT ![h] = j],
           UNCHANGED communityVars, CommunityJob(query, j)
    PROVE  CommunitiesInv'
<1>1. owner' = owner /\ role' = role
    BY DEF communityVars
<1>2. CommunityJob(query, j)'
    BY <1>1 DEF CommunityJob
<1>3. /\ pc' \in [Handlers -> CommunityQueries]
      /\ DOMAIN job' = Handlers /\ job' = [g \in Handlers |-> job'[g]]
      /\ \A g \in Handlers : CommunityJob(pc[g], job[g])'
    BY <1>1, <1>2, OthersKeepCommunities
<1> QED BY <1>1, <1>3 DEF CommunitiesInv, CommunitiesTypeOK, OwnerIsMember

\* An answer needs to know nothing.
LEMMA EndKeepsCommunities ==
    ASSUME CommunitiesInv, NEW h \in Handlers, UNCHANGED communityVars,
           End(h) \/ \E what, read : AnswerWith(h, what, read)
    PROVE  CommunitiesInv'
<1>1. PICK j : pc' = [pc EXCEPT ![h] = "done"] /\ job' = [job EXCEPT ![h] = j]
    BY DEF End, AnswerWith
<1>2. CommunityJob("done", j)
    BY DEF CommunityJob
<1> QED BY <1>1, <1>2, ReadKeepsCommunities DEF CommunityQueries

\* Each lookup lets a handler pass that found what it needs.
LEMMA LookupPreserves ==
    ASSUME CommunitiesInv, NEW h \in Handlers, FindCommunity(h) \/ FindRole(h)
    PROVE  CommunitiesInv'
<1>1. UNCHANGED communityVars /\ pc[h] \in {"community", "role"}
    BY DEF FindCommunity, FindRole
<1>2. CASE End(h)
    BY <1>1, <1>2, EndKeepsCommunities
<1>3. CASE ~End(h)
    <2>1. CommunityJob(pc[h], job[h])
        BY DEF CommunitiesInv
    <2>2. PICK query \in {"transaction", "role", "member"} :
            Await(h, query) /\ CommunityJob(query, job[h])
        <3>1. CASE FindCommunity(h)
            BY <3>1, <1>3, <2>1 DEF FindCommunity, CommunityJob
        <3>2. CASE FindRole(h)
            BY <3>2, <1>3, <2>1 DEF FindRole, CommunityJob
        <3> QED BY <3>1, <3>2
    <2>3. pc' = [pc EXCEPT ![h] = query] /\ job' = [job EXCEPT ![h] = job[h]]
        BY <2>2 DEF Await, CommunitiesInv
    <2>4. query \in CommunityQueries
        BY DEF CommunityQueries
    <2>5. \A j : j = job[h] => CommunityJob(query, j)
        BY <2>2
    <2> QED BY <1>1, <2>3, <2>4, <2>5, ReadKeepsCommunities
<1> QED BY <1>2, <1>3

\* The first to create a slug becomes its only owner.
LEMMA CreateCommunityPreserves ==
    ASSUME CommunitiesInv, NEW h \in Handlers, CreateCommunity(h) PROVE CommunitiesInv'
<1> DEFINE u == job[h].user
           s == job[h].slug
<1>1. u \in Users /\ s \in Slugs
    BY DEF CreateCommunity, At, CommunitiesInv, CommunityJob
<1>2. CASE owner[s] = None
    <2>1. /\ owner' = [owner EXCEPT ![s] = u]
          /\ role' = [role EXCEPT ![s][u] = "OWNER"]
          /\ pc' = [pc EXCEPT ![h] = "done"] /\ job' = [job EXCEPT ![h] = job[h]]
        BY <1>2 DEF CreateCommunity, Answer, AnswerWith
    <2>2. CommunitiesTypeOK'
        BY <1>1, <2>1 DEF CommunitiesInv, CommunitiesTypeOK
    <2>3. /\ owner'[s] = u /\ role'[s][u] = "OWNER"
          /\ \A v \in Users \ {u} : role'[s][v] = role[s][v]
          /\ \A t \in Slugs \ {s} : owner'[t] = owner[t] /\ role'[t] = role[t]
        BY <1>1, <2>1 DEF CommunitiesInv, CommunitiesTypeOK
    <2>4. OwnerIsMember'
        <3> SUFFICES ASSUME NEW t \in Slugs, NEW v \in Users
                     PROVE  /\ role'[t][v] = "OWNER" <=> owner'[t] = v
                            /\ owner'[t] = None => role'[t][v] = None
            BY DEF OwnerIsMember
        <3>1. CASE t = s
            \* Nobody was a member of a slug that was free.
            BY <3>1, <1>1, <1>2, <2>3, RoleAssumption DEF CommunitiesInv, OwnerIsMember
        <3>2. CASE t # s
            BY <3>2, <2>3 DEF CommunitiesInv, OwnerIsMember
        <3> QED BY <3>1, <3>2
    <2>5. \A t \in Slugs : owner[t] # None => owner'[t] # None
        BY <1>2, <2>3
    <2>6. \A j : CommunityJob("done", j)'
        BY DEF CommunityJob
    <2>7. /\ pc' \in [Handlers -> CommunityQueries]
          /\ DOMAIN job' = Handlers /\ job' = [g \in Handlers |-> job'[g]]
          /\ \A g \in Handlers : CommunityJob(pc[g], job[g])'
        BY <2>1, <2>5, <2>6, OthersKeepCommunities DEF CommunityQueries
    <2> QED BY <2>2, <2>4, <2>7 DEF CommunitiesInv
<1>3. CASE owner[s] # None
    BY <1>3, EndKeepsCommunities DEF CreateCommunity
<1> QED BY <1>2, <1>3

\* Who joins or leaves is not the owner, and the community stays.
LEMMA MemberPreserves ==
    ASSUME CommunitiesInv, NEW h \in Handlers, AddMember(h) \/ RemoveMember(h)
    PROVE  CommunitiesInv'
<1> DEFINE u == job[h].user
           s == job[h].slug
<1>1. pc[h] = "member" /\ owner' = owner
    BY DEF AddMember, RemoveMember, At
<1>2. /\ u \in Users /\ s \in Slugs /\ owner[s] # None
      /\ job[h].op \in {"found", "join", "leave", "view"}
    BY <1>1 DEF CommunitiesInv, CommunityJob
<1>3. CASE role' = role /\ End(h)
    BY <1>1, <1>3, EndKeepsCommunities DEF communityVars
<1>4. CASE ~(role' = role /\ End(h))
    <2>1. PICK mine \in {"MEMBER", None} :
            /\ role' = [role EXCEPT ![s][u] = mine] /\ role[s][u] # "OWNER"
            /\ Await(h, "summary")
        BY <1>4, RoleAssumption DEF AddMember, RemoveMember
    <2>2. CommunitiesTypeOK'
        BY <1>1, <1>2, <2>1 DEF CommunitiesInv, CommunitiesTypeOK
    <2>3. /\ role'[s][u] = mine /\ \A v \in Users \ {u} : role'[s][v] = role[s][v]
          /\ \A t \in Slugs \ {s} : role'[t] = role[t]
        BY <1>2, <2>1 DEF CommunitiesInv, CommunitiesTypeOK
    <2>4. OwnerIsMember'
        <3> SUFFICES ASSUME NEW t \in Slugs, NEW v \in Users
                     PROVE  /\ role'[t][v] = "OWNER" <=> owner[t] = v
                            /\ owner[t] = None => role'[t][v] = None
            BY <1>1 DEF OwnerIsMember
        <3>1. CASE t = s /\ v = u
            BY <3>1, <1>2, <2>1, <2>3, RoleAssumption DEF CommunitiesInv, OwnerIsMember
        <3>2. CASE t # s \/ v # u
            BY <3>2, <1>2, <2>3 DEF CommunitiesInv, OwnerIsMember
        <3> QED BY <3>1, <3>2
    <2>5. pc' = [pc EXCEPT ![h] = "summary"] /\ job' = [job EXCEPT ![h] = job[h]]
        BY <2>1 DEF Await, CommunitiesInv
    <2>6. ASSUME NEW j, j = job[h] PROVE CommunityJob("summary", j)'
        <3>1. {"op", "user", "slug"} \subseteq DOMAIN j
            BY <1>1, <2>6 DEF CommunitiesInv, CommunityJob
        <3> QED BY <1>1, <1>2, <2>6, <3>1 DEF CommunityJob
    <2>7. /\ pc' \in [Handlers -> CommunityQueries]
          /\ DOMAIN job' = Handlers /\ job' = [g \in Handlers |-> job'[g]]
          /\ \A g \in Handlers : CommunityJob(pc[g], job[g])'
        BY <1>1, <2>5, <2>6, OthersKeepCommunities DEF CommunityQueries
    <2> QED BY <2>2, <2>4, <2>7 DEF CommunitiesInv
<1> QED BY <1>3, <1>4

-----------------------------------------------------------------------------

\* The invariant is inductive.
LEMMA CommunitiesStep ==
    CommunitiesInv /\ [CommunitiesNext]_<<handlerVars, communityVars>> => CommunitiesInv'
<1> SUFFICES ASSUME CommunitiesInv, [CommunitiesNext]_<<handlerVars, communityVars>>
             PROVE  CommunitiesInv'
    OBVIOUS
<1>1. CASE UNCHANGED <<handlerVars, communityVars>>
    BY <1>1 DEF handlerVars, communityVars, CommunitiesInv, CommunitiesTypeOK, CommunityJob,
                OwnerIsMember
<1>2. ASSUME NEW h \in Handlers, NEW op \in {"found", "join", "leave", "view"},
             NEW u \in Users, NEW s \in Slugs, CommunityBegins(h, op, u, s)
      PROVE  CommunitiesInv'
    <2>1. CommunityJob("community", CommunityRequest(op, u, s))
        BY DEF CommunityJob, CommunityRequest
    <2> QED BY <1>2, <2>1, ReadKeepsCommunities DEF CommunityBegins, Begin, CommunityQueries
<1>3. ASSUME NEW h \in Handlers, FindCommunity(h) \/ FindRole(h) PROVE CommunitiesInv'
    BY <1>3, LookupPreserves
<1>4. ASSUME NEW h \in Handlers, CreateCommunity(h) PROVE CommunitiesInv'
    BY <1>4, CreateCommunityPreserves
<1>5. ASSUME NEW h \in Handlers, AddMember(h) \/ RemoveMember(h) PROVE CommunitiesInv'
    BY <1>5, MemberPreserves
<1>6. ASSUME NEW h \in Handlers, ReadSummary(h) PROVE CommunitiesInv'
    BY <1>6, EndKeepsCommunities DEF ReadSummary
<1>7. ASSUME NEW h \in Handlers, QueryFails(h, {"summary"}), UNCHANGED communityVars
      PROVE  CommunitiesInv'
    BY <1>7, EndKeepsCommunities DEF QueryFails, Answer
<1> QED BY <1>1, <1>2, <1>3, <1>4, <1>5, <1>6, <1>7 DEF CommunitiesNext

(* For every number of users, slugs and handlers: a community has one      *)
(* owner, its creator, who is its member, and a slug without a community   *)
(* has no members (create, join and leave of community.repository.ts).     *)
THEOREM OwnersAreMembers == CommunitiesSpec => []OwnerIsMember
<1>1. CommunitiesInv => OwnerIsMember
    BY DEF CommunitiesInv
<1> QED BY <1>1, CommunitiesStart, CommunitiesStep, PTL DEF CommunitiesSpec

-----------------------------------------------------------------------------
(* Counting.                                                               *)

Created(h, s) == Answered(h, "created") /\ job[h].slug = s

Membership(s, u) == IF role[s][u] = None THEN 0 ELSE 1

AddsUp(s, u) ==
    Cardinality(TookEffect("join", s, u)) - Cardinality(TookEffect("leave", s, u))
        = Membership(s, u)

\* An answered handler is done; one creation of a slug succeeds, and leaves
\* a community; finitely many requests took effect, and they took turns.
CountInv ==
    /\ DOMAIN ans = Handlers /\ ans = [h \in Handlers |-> ans[h]]
    /\ \A h \in Handlers : ans[h] # None => pc[h] = "done"
    /\ \A s \in Slugs, g \in Handlers :
         Created(g, s) => owner[s] # None /\ \A h \in Handlers : Created(h, s) => h = g
    /\ \A s \in Slugs, u \in Users :
         /\ IsFiniteSet(TookEffect("join", s, u)) /\ IsFiniteSet(TookEffect("leave", s, u))
         /\ owner[s] # u => AddsUp(s, u)

LEMMA InitCounts == HandlersInit /\ CommunitiesInit => CountInv
<1> SUFFICES ASSUME HandlersInit, CommunitiesInit PROVE CountInv
    OBVIOUS
<1>1. \A h \in Handlers : pc[h] = "idle" /\ ans[h] = None
    BY DEF HandlersInit
<1>2. \A s \in Slugs, u \in Users :
        TookEffect("join", s, u) = {} /\ TookEffect("leave", s, u) = {}
    BY <1>1 DEF TookEffect
<1>3. ASSUME NEW s \in Slugs, NEW u \in Users, owner[s] # u PROVE Membership(s, u) = 0
    BY <1>3, FoundersAssumption DEF CommunitiesInit, Membership
<1>4. DOMAIN ans = Handlers /\ ans = [h \in Handlers |-> ans[h]]
    BY DEF HandlersInit
<1> QED BY <1>1, <1>2, <1>3, <1>4, FS_EmptySet DEF CountInv, AddsUp, Created, Answered

\* One step moves one handler.
Goes(h, query, j, answer) ==
    /\ pc' = [pc EXCEPT ![h] = query]
    /\ job' = [job EXCEPT ![h] = j]
    /\ ans' = [ans EXCEPT ![h] = answer]

LEMMA OneRequestMoves ==
    ASSUME CommunitiesInv, CountInv, NEW h \in Handlers, NEW query, NEW j, NEW answer,
           Goes(h, query, j, answer)
    PROVE  /\ Moves(h)
           /\ pc'[h] = query /\ job'[h] = j /\ ans'[h] = answer
           /\ DOMAIN ans' = Handlers /\ ans' = [g \in Handlers |-> ans'[g]]
BY DEF CommunitiesInv, CountInv, Moves, Goes

\* The requests of one kind that took effect are as many as before, or one more.
LEMMA EffectsOfOne ==
    ASSUME NEW h \in Handlers, Moves(h), NEW op, NEW s, NEW u
    PROVE  /\ (h \in TookEffect(op, s, u) <=> h \in TookEffect(op, s, u)')
                => TookEffect(op, s, u)' = TookEffect(op, s, u)
           /\ h \in TookEffect(op, s, u)' => TookEffect(op, s, u)' = TookEffect(op, s, u) \cup {h}
<1>1. \A g \in Handlers \ {h} : g \in TookEffect(op, s, u)' <=> g \in TookEffect(op, s, u)
    BY DEF Moves, TookEffect
<1>2. /\ \A g \in TookEffect(op, s, u) : g \in Handlers
      /\ \A g \in TookEffect(op, s, u)' : g \in Handlers
    BY DEF TookEffect
<1> QED BY <1>1, <1>2

\* What a step that writes no table has to leave alone.
SameEffects(h) ==
    /\ ans'[h] # None => pc'[h] = "done"
    /\ \A s \in Slugs : Created(h, s)' => Created(h, s)
    /\ \A op \in {"join", "leave"}, s \in Slugs, u \in Users :
         h \in TookEffect(op, s, u) <=> h \in TookEffect(op, s, u)'

LEMMA SilentCounts ==
    ASSUME CommunitiesInv, CountInv, NEW h \in Handlers, Moves(h), SameEffects(h),
           DOMAIN ans' = Handlers /\ ans' = [g \in Handlers |-> ans'[g]],
           UNCHANGED communityVars
    PROVE  CountInv'
<1>1. owner' = owner /\ role' = role
    BY DEF communityVars
<1>2. \A g \in Handlers : ans'[g] # None => pc'[g] = "done"
    BY DEF CountInv, Moves, SameEffects
<1>3. \A g \in Handlers, s \in Slugs : Created(g, s)' => Created(g, s)
    BY DEF Moves, SameEffects, Created, Answered
<1>4. ASSUME NEW s \in Slugs, NEW u \in Users
      PROVE  /\ TookEffect("join", s, u)' = TookEffect("join", s, u)
             /\ TookEffect("leave", s, u)' = TookEffect("leave", s, u)
    BY EffectsOfOne DEF SameEffects
<1>5. ASSUME NEW s \in Slugs, NEW u \in Users
      PROVE  /\ IsFiniteSet(TookEffect("join", s, u)') /\ IsFiniteSet(TookEffect("leave", s, u)')
             /\ owner'[s] # u => AddsUp(s, u)'
    BY <1>1, <1>4 DEF CountInv, AddsUp, Membership
<1>6. \A s \in Slugs, g \in Handlers :
        Created(g, s)' => owner'[s] # None /\ \A f \in Handlers : Created(f, s)' => f = g
    BY <1>1, <1>3 DEF CountInv
<1> QED BY <1>2, <1>5, <1>6 DEF CountInv

\* The steps that leave both tables alone.
LEMMA ReadCounts ==
    ASSUME CommunitiesInv, CountInv, NEW h \in Handlers,
           UNCHANGED communityVars, Live(h) \/ pc[h] = "idle",
           \/ \E query \in {"community", "transaction", "role", "member"} : \E j :
                /\ pc[h] # "summary"
                /\ pc' = [pc EXCEPT ![h] = query] /\ job' = [job EXCEPT ![h] = j]
                /\ UNCHANGED ans
           \/ pc[h] # "summary" /\ End(h)
    PROVE  CountInv'
<1>1. pc[h] # "done" /\ ans[h] = None /\ pc[h] # "summary"
    BY DEF CountInv, Live
<1>2. PICK query, j : Goes(h, query, j, None) /\ query # "summary"
    <2>1. ans' = [ans EXCEPT ![h] = None]
        BY <1>1 DEF End, CountInv
    <2> QED BY <2>1 DEF End, Goes
<1>3. /\ Moves(h) /\ pc'[h] # "summary" /\ ans'[h] = None
      /\ DOMAIN ans' = Handlers /\ ans' = [g \in Handlers |-> ans'[g]]
    BY <1>2, OneRequestMoves
<1>4. SameEffects(h)
    BY <1>1, <1>3 DEF SameEffects, TookEffect, Created, Answered
<1> QED BY <1>3, <1>4, SilentCounts

\* The answer to a join or leave whose effect is there: the read that follows.
LEMMA AnswerCounts ==
    ASSUME CommunitiesInv, CountInv, NEW h \in Handlers, UNCHANGED communityVars,
           pc[h] = "summary",
           \E what \in {"joined", "left", "error"} : \E read :
             /\ AnswerWith(h, what, read)
             /\ read.op = job[h].op /\ read.user = job[h].user /\ read.slug = job[h].slug
    PROVE  CountInv'
<1>1. PICK what \in {"joined", "left", "error"} : \E read :
        /\ AnswerWith(h, what, read)
        /\ read.op = job[h].op /\ read.user = job[h].user /\ read.slug = job[h].slug
    OBVIOUS
<1>0. PICK read :
        /\ AnswerWith(h, what, read)
        /\ read.op = job[h].op /\ read.user = job[h].user /\ read.slug = job[h].slug
    BY <1>1
<1> DEFINE answer == [what |-> what, at |-> "summary"]
<1>2. answer # None /\ answer.what = what
    <2>1. answer \in [what : {"created", "joined", "left", "error"},
                      at : {"transaction", "summary"}]
        OBVIOUS
    <2> QED BY <2>1, AnswerAssumption
<1> HIDE DEF answer
<1>3. Goes(h, "done", read, answer)
    BY <1>0 DEF AnswerWith, answer, Goes
<1>4. /\ Moves(h) /\ pc'[h] = "done" /\ job'[h] = read /\ ans'[h] = answer
      /\ DOMAIN ans' = Handlers /\ ans' = [g \in Handlers |-> ans'[g]]
    BY <1>3, OneRequestMoves
<1>5. SameEffects(h)
    <2>1. \A s \in Slugs : ~Created(h, s)'
        BY <1>2, <1>4 DEF Created, Answered
    <2>2. \A op \in {"join", "leave"}, s \in Slugs, u \in Users :
            h \in TookEffect(op, s, u) <=> h \in TookEffect(op, s, u)'
        BY <1>0, <1>2, <1>4 DEF TookEffect
    <2> QED BY <1>4, <2>1, <2>2 DEF SameEffects
<1> QED BY <1>4, <1>5, SilentCounts

\* The slug was free, so nobody was told before that he created it.
LEMMA CreateCounts ==
    ASSUME CommunitiesInv, CountInv, NEW h \in Handlers, CreateCommunity(h) PROVE CountInv'
<1> DEFINE u == job[h].user
           s == job[h].slug
           answer == [what |-> "created", at |-> "transaction"]
<1>1. /\ u \in Users /\ s \in Slugs /\ pc[h] = "transaction" /\ job[h].op = "found"
      /\ ans[h] = None
    BY DEF CreateCommunity, At, CommunitiesInv, CommunityJob, CountInv
<1>2. CASE owner[s] = None
    <2>1. /\ owner' = [owner EXCEPT ![s] = u] /\ role' = [role EXCEPT ![s][u] = "OWNER"]
          /\ Goes(h, "done", job[h], answer)
        BY <1>1, <1>2 DEF CreateCommunity, Answer, AnswerWith, Goes
    <2>2. /\ Moves(h) /\ pc'[h] = "done" /\ job' = job
          /\ DOMAIN ans' = Handlers /\ ans' = [g \in Handlers |-> ans'[g]]
        <3>1. PICK j : j = job[h]
            OBVIOUS
        <3>2. /\ Moves(h) /\ pc'[h] = "done"
              /\ DOMAIN ans' = Handlers /\ ans' = [g \in Handlers |-> ans'[g]]
            BY <2>1, <3>1, OneRequestMoves
        <3> QED BY <2>1, <3>2 DEF CommunitiesInv, Goes
    <2>3. /\ owner'[s] = u /\ owner'[s] # None
          /\ \A v \in Users \ {u} : role'[s][v] = role[s][v]
          /\ \A t \in Slugs \ {s} : owner'[t] = owner[t] /\ role'[t] = role[t]
        BY <1>1, <2>1, RoleAssumption DEF CommunitiesInv, CommunitiesTypeOK
    <2>4. \A g \in Handlers : ans'[g] # None => pc'[g] = "done"
        BY <2>2 DEF CountInv, Moves
    <2>5. ASSUME NEW t \in Slugs, NEW g \in Handlers, Created(g, t)'
          PROVE  owner'[t] # None /\ \A f \in Handlers : Created(f, t)' => f = g
        <3>1. \A f \in Handlers : Created(f, t)' => Created(f, t) \/ (f = h /\ t = s)
            BY <2>2 DEF Moves, Created, Answered
        <3>2. CASE t = s
            BY <3>1, <3>2, <1>2, <2>3, <2>5 DEF CountInv
        <3>3. CASE t # s
            BY <3>1, <3>3, <2>3, <2>5 DEF CountInv
        <3> QED BY <3>2, <3>3
    <2>6. ASSUME NEW t \in Slugs, NEW v \in Users
          PROVE  /\ IsFiniteSet(TookEffect("join", t, v)')
                 /\ IsFiniteSet(TookEffect("leave", t, v)')
                 /\ owner'[t] # v => AddsUp(t, v)'
        <3>1. /\ TookEffect("join", t, v)' = TookEffect("join", t, v)
              /\ TookEffect("leave", t, v)' = TookEffect("leave", t, v)
            BY <1>1, <2>2, EffectsOfOne DEF TookEffect
        <3>2. owner'[t] # v => owner[t] # v /\ role'[t][v] = role[t][v]
            BY <1>2, <2>3, RoleAssumption
        <3> QED BY <3>1, <3>2 DEF CountInv, AddsUp, Membership
    <2> QED BY <2>2, <2>4, <2>5, <2>6 DEF CountInv
<1>3. CASE owner[s] # None
    BY <1>1, <1>3, ReadCounts DEF CreateCommunity, Live
<1> QED BY <1>2, <1>3

\* A join or leave that changes the role is one more that took effect.
LEMMA MemberCounts ==
    ASSUME CommunitiesInv, CountInv, NEW h \in Handlers, AddMember(h) \/ RemoveMember(h)
    PROVE  CountInv'
<1> DEFINE u == job[h].user
           s == job[h].slug
<1>1. /\ pc[h] = "member" /\ owner' = owner
      /\ AddMember(h) => job[h].op = "join" 
      /\ RemoveMember(h) => job[h].op = "leave"
    BY DEF AddMember, RemoveMember, At
<1>2. u \in Users /\ s \in Slugs /\ ans[h] = None
    BY <1>1 DEF CommunitiesInv, CommunityJob, CountInv
<1>3. CASE role' = role /\ End(h)
    BY <1>1, <1>3, ReadCounts DEF communityVars, Live
<1>4. CASE ~(role' = role /\ End(h))
    <2>1. /\ Await(h, "summary")
          /\ \/ /\ job[h].op = "join" /\ role[s][u] = None
                /\ role' = [role EXCEPT ![s][u] = "MEMBER"]
             \/ /\ job[h].op = "leave" /\ role[s][u] = "MEMBER"
                /\ role' = [role EXCEPT ![s][u] = None]
        BY <1>1, <1>4 DEF AddMember, RemoveMember
    <2>2. PICK j : Goes(h, "summary", j, None)
        <3>1. job' = [job EXCEPT ![h] = job[h]] /\ ans' = [ans EXCEPT ![h] = None]
            BY <1>2, <2>1 DEF Await, CommunitiesInv, CountInv
        <3> QED BY <2>1, <3>1, Zenon DEF Await, Goes
    <2>3. /\ Moves(h) /\ pc'[h] = "summary" /\ job' = job /\ ans' = ans
          /\ DOMAIN ans' = Handlers /\ ans' = [g \in Handlers |-> ans'[g]]
        <3>1. /\ Moves(h) /\ pc'[h] = "summary"
              /\ DOMAIN ans' = Handlers /\ ans' = [g \in Handlers |-> ans'[g]]
            BY <2>2, OneRequestMoves
        <3> QED BY <2>1, <3>1 DEF Await
    <2>4. \A g \in Handlers : ans'[g] # None => pc'[g] = "done"
        BY <1>2, <2>3 DEF CountInv, Moves
    <2>5. \A t \in Slugs, g \in Handlers :
            Created(g, t)' => owner'[t] # None /\ \A f \in Handlers : Created(f, t)' => f = g
        BY <1>1, <2>3 DEF CountInv, Created, Answered
    <2>6. /\ \A v \in Users \ {u} : role'[s][v] = role[s][v]
          /\ \A t \in Slugs \ {s} : role'[t] = role[t]
          /\ job[h].op = "join" => role'[s][u] = "MEMBER"
          /\ job[h].op = "leave" => role'[s][u] = None
        BY <1>2, <2>1 DEF CommunitiesInv, CommunitiesTypeOK
    <2>7. ASSUME NEW t \in Slugs, NEW v \in Users
          PROVE  /\ IsFiniteSet(TookEffect("join", t, v)')
                 /\ IsFiniteSet(TookEffect("leave", t, v)')
                 /\ owner'[t] # v => AddsUp(t, v)'
        <3> DEFINE joins == TookEffect("join", t, v)
                   leaves == TookEffect("leave", t, v)
        <3>1. /\ IsFiniteSet(joins) /\ IsFiniteSet(leaves)
              /\ Cardinality(joins) \in Nat /\ Cardinality(leaves) \in Nat
              /\ IsFiniteSet(joins \cup {h}) /\ IsFiniteSet(leaves \cup {h})
              /\ h \notin joins /\ h \notin leaves
              /\ Cardinality(joins \cup {h}) = Cardinality(joins) + 1
              /\ Cardinality(leaves \cup {h}) = Cardinality(leaves) + 1
            <4>1. IsFiniteSet(joins) /\ IsFiniteSet(leaves)
                BY DEF CountInv
            <4>2. h \notin joins /\ h \notin leaves
                BY <1>1, <1>2 DEF TookEffect
            <4> HIDE DEF joins, leaves
            <4> QED BY <4>1, <4>2, FS_AddElement, FS_CardinalityType
        <3>2. owner[t] # v => AddsUp(t, v)
            BY DEF CountInv
        <3>3. CASE t # s \/ v # u
            <4>1. joins' = joins /\ leaves' = leaves
                BY <1>1, <1>2, <2>3, <3>3, EffectsOfOne DEF TookEffect
            <4>2. role'[t][v] = role[t][v]
                BY <2>6, <3>3
            <4> QED BY <1>1, <4>1, <4>2, <3>1, <3>2 DEF AddsUp, Membership
        <3>4. CASE t = s /\ v = u /\ job[h].op = "join"
            <4>1. joins' = joins \cup {h} /\ leaves' = leaves
                <5>1. h \in TookEffect("join", t, v)' /\ h \notin TookEffect("leave", t, v)'
                    BY <2>3, <3>4 DEF TookEffect
                <5> QED BY <2>3, <3>1, <5>1, EffectsOfOne
            <4>2. Membership(t, v) = 0 /\ Membership(t, v)' = 1
                BY <2>1, <2>6, <3>4, RoleAssumption DEF Membership
            <4> QED BY <1>1, <4>1, <4>2, <3>1, <3>2 DEF AddsUp
        <3>5. CASE t = s /\ v = u /\ job[h].op = "leave"
            <4>1. joins' = joins /\ leaves' = leaves \cup {h}
                <5>1. h \notin TookEffect("join", t, v)' /\ h \in TookEffect("leave", t, v)'
                    BY <2>3, <3>5 DEF TookEffect
                <5> QED BY <2>3, <3>1, <5>1, EffectsOfOne
            <4>2. Membership(t, v) = 1 /\ Membership(t, v)' = 0
                BY <2>1, <2>6, <3>5, RoleAssumption DEF Membership
            <4>3. owner'[t] # v => AddsUp(t, v)'
                <5>1. Cardinality(leaves') = Cardinality(leaves) + 1
                      /\ Cardinality(joins') = Cardinality(joins)
                    BY <3>1, <4>1
                <5> QED BY <1>1, <4>2, <5>1, <3>1, <3>2 DEF AddsUp
            <4> QED BY <3>1, <4>1, <4>3
        <3> QED BY <2>1, <3>3, <3>4, <3>5
    <2> QED BY <2>3, <2>4, <2>5, <2>7 DEF CountInv
<1> QED BY <1>3, <1>4

-----------------------------------------------------------------------------

LEMMA StepCounts ==
    CommunitiesInv /\ CountInv /\ [CommunitiesNext]_<<handlerVars, communityVars>> => CountInv'
<1> SUFFICES ASSUME CommunitiesInv, CountInv, [CommunitiesNext]_<<handlerVars, communityVars>>
             PROVE  CountInv'
    OBVIOUS
<1>1. CASE UNCHANGED <<handlerVars, communityVars>>
    BY <1>1 DEF handlerVars, communityVars, CountInv, Created, Answered, AddsUp, Membership,
                TookEffect
<1>2. ASSUME NEW h \in Handlers, NEW op \in {"found", "join", "leave", "view"},
             NEW u \in Users, NEW s \in Slugs, CommunityBegins(h, op, u, s)
      PROVE  CountInv'
    BY <1>2, ReadCounts DEF CommunityBegins, Begin
<1>3. ASSUME NEW h \in Handlers, FindCommunity(h) \/ FindRole(h) PROVE CountInv'
    <2>1. pc[h] \in {"community", "role"} /\ UNCHANGED communityVars
        BY <1>3 DEF FindCommunity, FindRole
    <2>2. CASE End(h)
        BY <2>1, <2>2, ReadCounts DEF Live
    <2>3. CASE ~End(h)
        <3>1. CommunityJob(pc[h], job[h])
            BY DEF CommunitiesInv
        <3>2. PICK query \in {"transaction", "role", "member"} : Await(h, query)
            BY <1>3, <2>1, <2>3, <3>1 DEF FindCommunity, FindRole, CommunityJob
        <3>3. pc' = [pc EXCEPT ![h] = query] /\ job' = [job EXCEPT ![h] = job[h]] /\ ans' = ans
            BY <3>2 DEF Await, CommunitiesInv
        <3> QED BY <2>1, <3>3, ReadCounts DEF Live
    <2> QED BY <2>2, <2>3
<1>4. ASSUME NEW h \in Handlers, CreateCommunity(h) PROVE CountInv'
    BY <1>4, CreateCounts
<1>5. ASSUME NEW h \in Handlers, AddMember(h) \/ RemoveMember(h) PROVE CountInv'
    BY <1>5, MemberCounts
<1>6. ASSUME NEW h \in Handlers, ReadSummary(h) PROVE CountInv'
    <2>1. PICK what \in {"joined", "left"} : \E mine :
            AnswerWith(h, what, [job[h] EXCEPT !.seen = Detail(job[h].slug, mine)])
        BY <1>6 DEF ReadSummary
    <2>2. pc[h] = "summary" /\ {"op", "user", "slug"} \subseteq DOMAIN job[h]
        BY <1>6 DEF ReadSummary, CommunitiesInv, CommunityJob
    <2>3. \A seen : LET read == [job[h] EXCEPT !.seen = seen]
                    IN  /\ read.op = job[h].op /\ read.user = job[h].user
                        /\ read.slug = job[h].slug
        BY <2>2
    <2> QED BY <1>6, <2>1, <2>2, <2>3, AnswerCounts DEF ReadSummary
<1>7. ASSUME NEW h \in Handlers, QueryFails(h, {"summary"}), UNCHANGED communityVars
      PROVE  CountInv'
    <2>1. CASE pc[h] = "summary"
        BY <1>7, <2>1, AnswerCounts DEF QueryFails, Answer
    <2>2. CASE pc[h] # "summary"
        BY <1>7, <2>2, ReadCounts DEF QueryFails
    <2> QED BY <2>1, <2>2
<1> QED BY <1>1, <1>2, <1>3, <1>4, <1>5, <1>6, <1>7 DEF CommunitiesNext

(* For every number of users, slugs and handlers: of the requests that     *)
(* create one slug at most one reports success, and the joins of a user    *)
(* that took effect exceed his leaves by one while he is a member and by   *)
(* none while he is not (join and leave of community.service.ts).          *)
THEOREM MembersAreCounted == CommunitiesSpec => []MembershipAddsUp
<1>1. CountInv => MembershipAddsUp
    <2> SUFFICES ASSUME CountInv, NEW s \in Slugs
                 PROVE  Cardinality({h \in Handlers : Created(h, s)}) <= 1
        BY DEF MembershipAddsUp, Created, CountInv, AddsUp, Membership
    <2> DEFINE creators == {h \in Handlers : Created(h, s)}
    <2>1. CASE creators = {}
        BY <2>1, FS_EmptySet
    <2>2. CASE creators # {}
        <3>1. PICK g \in creators : TRUE
            BY <2>2
        <3>2. creators = {g}
            BY <3>1 DEF CountInv
        <3> QED BY <3>2, FS_Singleton
    <2> QED BY <2>1, <2>2
<1> QED BY <1>1, CommunitiesStart, InitCounts, CommunitiesStep, StepCounts, PTL DEF CommunitiesSpec

-----------------------------------------------------------------------------
(* Posts.                                                                  *)

LEMMA FiniteRange ==
    ASSUME NEW S, NEW s \in Seq(S) PROVE IsFiniteSet(Range(s))
<1>1. s \in Surjection(1..Len(s), Range(s)) /\ Len(s) \in Nat
    BY DEF Surjection, Range
<1>2. IsFiniteSet(1..Len(s))
    BY <1>1, FS_Interval
<1> QED BY <1>1, <1>2, FS_Surjection

\* Appending a new element to a sequence without duplicates.
LEMMA AppendAdds ==
    ASSUME NEW S, NEW s \in Seq(S), IsInjective(s), NEW x \in S, x \notin Range(s)
    PROVE  /\ Append(s, x) \in Seq(S) /\ IsInjective(Append(s, x))
           /\ Range(Append(s, x)) = Range(s) \cup {x}
<1> DEFINE t == Append(s, x)
<1>1. /\ t \in Seq(S) /\ Len(t) = Len(s) + 1 /\ Len(s) \in Nat
      /\ DOMAIN s = 1..Len(s) /\ DOMAIN t = 1..Len(t)
      /\ \A i \in 1..Len(s) : t[i] = s[i]
      /\ t[Len(s) + 1] = x
    OBVIOUS
<1> HIDE DEF t
<1>2. IsInjective(t)
    BY <1>1 DEF IsInjective, Range
<1>3. Range(t) = Range(s) \cup {x}
    BY <1>1 DEF Range
<1> QED BY <1>1, <1>2, <1>3 DEF t

LEMMA ConcatElement ==
    ASSUME NEW S, NEW s \in Seq(S), NEW t \in Seq(S), NEW k \in 1..(Len(s) + Len(t))
    PROVE  (s \o t)[k] = IF k <= Len(s) THEN s[k] ELSE t[k - Len(s)]
OBVIOUS

\* What the removal of one element leaves, and where.
LEMMA RemovedPlaces ==
    ASSUME NEW S, NEW s \in Seq(S), NEW i \in 1..Len(s)
    PROVE  /\ RemoveAt(s, i) \in Seq(S) /\ Len(RemoveAt(s, i)) = Len(s) - 1
           /\ \A k \in 1..(Len(s) - 1) :
                RemoveAt(s, i)[k] = IF k < i THEN s[k] ELSE s[k + 1]
<1> DEFINE before == SubSeq(s, 1, i - 1)
           after  == SubSeq(s, i + 1, Len(s))
           t      == RemoveAt(s, i)
<1>1. /\ before \in Seq(S) /\ Len(before) = i - 1
      /\ \A k \in 1..(i - 1) : before[k] = s[k]
    OBVIOUS
<1>2. /\ after \in Seq(S) /\ Len(after) = Len(s) - i
      /\ \A k \in 1..(Len(s) - i) : after[k] = s[i + k]
    OBVIOUS
<1>3. t = before \o after
    BY DEF RemoveAt
<1> HIDE DEF before, after, t
<1>4. t \in Seq(S) /\ Len(t) = Len(s) - 1 /\ Len(s) \in Nat
    BY <1>1, <1>2, <1>3
<1>5. ASSUME NEW k \in 1..Len(t) PROVE t[k] = IF k < i THEN s[k] ELSE s[k + 1]
    <2>1. CASE k < i
        BY <1>1, <1>2, <1>3, <1>4, <2>1
    <2>2. CASE ~(k < i)
        <3>0. /\ k \in 1..(Len(before) + Len(after)) /\ ~(k <= Len(before))
              /\ k - Len(before) = k - (i - 1)
            BY <1>1, <1>2, <1>4, <2>2
        <3>1. t[k] = after[k - (i - 1)]
            BY <1>1, <1>2, <1>3, <3>0, ConcatElement
        <3>2. k - (i - 1) \in 1..(Len(s) - i) /\ i + (k - (i - 1)) = k + 1
            BY <1>4, <2>2
        <3>3. after[k - (i - 1)] = s[i + (k - (i - 1))]
            BY <1>2, <3>2
        <3> QED BY <2>2, <3>1, <3>2, <3>3
    <2> QED BY <2>1, <2>2
<1> QED BY <1>4, <1>5 DEF t

\* Removing the only occurrence of an element.
LEMMA RemoveAtRemoves ==
    ASSUME NEW S, NEW s \in Seq(S), IsInjective(s), NEW i \in 1..Len(s)
    PROVE  /\ RemoveAt(s, i) \in Seq(S) /\ IsInjective(RemoveAt(s, i))
           /\ Range(RemoveAt(s, i)) = Range(s) \ {s[i]}
<1> DEFINE t == RemoveAt(s, i)
<1>1. /\ t \in Seq(S) /\ Len(s) \in Nat /\ Len(t) = Len(s) - 1
      /\ DOMAIN s = 1..Len(s) /\ DOMAIN t = 1..Len(t)
      /\ \A k \in 1..Len(t) : t[k] = IF k < i THEN s[k] ELSE s[k + 1]
    <2>1. /\ RemoveAt(s, i) \in Seq(S) /\ Len(RemoveAt(s, i)) = Len(s) - 1
          /\ \A k \in 1..(Len(s) - 1) :
               RemoveAt(s, i)[k] = IF k < i THEN s[k] ELSE s[k + 1]
        BY RemovedPlaces
    <2>2. /\ t \in Seq(S) /\ Len(t) = Len(s) - 1
          /\ \A k \in 1..(Len(s) - 1) : t[k] = IF k < i THEN s[k] ELSE s[k + 1]
        BY <2>1
    <2> HIDE DEF t
    <2> QED BY <2>2
<1> HIDE DEF t
<1>2. \A k, l \in 1..Len(s) : s[k] = s[l] => k = l
    BY <1>1 DEF IsInjective
<1>3. ASSUME NEW k \in 1..Len(t)
      PROVE  \E l \in 1..Len(s) : t[k] = s[l] /\ l # i /\ l = (IF k < i THEN k ELSE k + 1)
    BY <1>1
<1>5. IsInjective(t)
    <2> SUFFICES ASSUME NEW k \in 1..Len(t), NEW m \in 1..Len(t), t[k] = t[m] PROVE k = m
        BY <1>1 DEF IsInjective
    <2>1. PICK l1 \in 1..Len(s) : t[k] = s[l1] /\ l1 = (IF k < i THEN k ELSE k + 1)
        BY <1>3
    <2>2. PICK l2 \in 1..Len(s) : t[m] = s[l2] /\ l2 = (IF m < i THEN m ELSE m + 1)
        BY <1>3
    <2>3. l1 = l2
        BY <1>2, <2>1, <2>2
    <2> QED BY <2>1, <2>2, <2>3
<1>6. ASSUME NEW x \in Range(t) PROVE x \in Range(s) \ {s[i]}
    <2>1. PICK k \in 1..Len(t) : x = t[k]
        BY <1>1 DEF Range
    <2>2. PICK l \in 1..Len(s) : t[k] = s[l] /\ l # i
        BY <1>3
    <2> QED BY <1>1, <1>2, <2>1, <2>2 DEF Range
<1>4. ASSUME NEW x \in Range(s) \ {s[i]} PROVE x \in Range(t)
    <2>1. PICK k \in 1..Len(s) : s[k] = x /\ k # i
        BY <1>1 DEF Range
    <2>2. CASE k < i
        <3>1. k \in 1..Len(t) /\ t[k] = s[k]
            BY <1>1, <2>2
        <3> QED BY <1>1, <2>1, <3>1 DEF Range
    <2>3. CASE k > i
        <3>1. k - 1 \in 1..Len(t) /\ t[k - 1] = s[k]
            BY <1>1, <2>3
        <3> QED BY <1>1, <2>1, <3>1 DEF Range
    <2> QED BY <2>1, <2>2, <2>3
<1> QED BY <1>1, <1>4, <1>5, <1>6 DEF t

\* A finite set in which one element comes or goes.
Differs(S, T, h) ==
    /\ IsFiniteSet(T) /\ Cardinality(S) \in Nat /\ Cardinality(T) \in Nat
    /\ (h \in S <=> h \in T) => T = S
    /\ h \in T /\ h \notin S => Cardinality(T) = Cardinality(S) + 1
    /\ h \in S /\ h \notin T => Cardinality(T) = Cardinality(S) - 1

LEMMA OneDiffers ==
    ASSUME NEW S, NEW T, NEW h, IsFiniteSet(S), \A g : g # h => (g \in S <=> g \in T)
    PROVE  Differs(S, T, h)
<1>1. CASE h \in S <=> h \in T
    <2>1. T = S
        BY <1>1
    <2> QED BY <2>1, FS_CardinalityType DEF Differs
<1>2. CASE h \in T /\ h \notin S
    <2>1. T = S \cup {h}
        BY <1>2
    <2> QED BY <1>2, <2>1, FS_AddElement, FS_CardinalityType DEF Differs
<1>3. CASE h \in S /\ h \notin T
    <2>1. T = S \ {h}
        BY <1>3
    <2> QED BY <1>3, <2>1, FS_RemoveElement, FS_CardinalityType DEF Differs
<1> QED BY <1>1, <1>2, <1>3

PostQueries == {"idle", "done", "insert", "count", "post", "delete", "find", "remove", "add",
                "notify", "parent", "write", "authors", "page"}

AboutPost(j) == j.user \in Users /\ j.post \in PostIds /\ author[j.post] # None

\* The post of a request was there; the parent of a reply still is, if the
\* post is, when the reply is written.
PostJob(query, j) ==
    /\ query \notin {"idle", "done"} => j.op \in {"create", "delete", "toggle", "comment", "feed"}
    /\ query = "count" => j.op \in {"create", "delete"}
    /\ query = "notify" => j.op \in {"toggle", "comment"}
    /\ query = "parent" => j.op = "comment" /\ j.parent \in CommentIds
    /\ j.op = "create" => /\ j \in [op : {"create"}, user : Users, post : PostIds \cup {None}]
                          /\ query # "insert" => AboutPost(j)
    /\ j.op \in {"delete", "toggle", "comment"} => AboutPost(j)
    /\ j.op = "comment" =>
         /\ j.parent \in CommentIds \cup {None}
         /\ query = "write" /\ j.parent # None /\ j.post \in Existing =>
              comments[j.parent] = [post |-> j.post, parent |-> None]
    /\ j.op = "feed" => {"op", "user"} \subseteq DOMAIN j

\* An id is used once, and what points to a post goes with it.
TablesInv ==
    /\ timeline \in Seq(PostIds) /\ IsInjective(timeline)
    /\ author \in [PostIds -> Users \cup {None}]
    /\ \A p \in Existing : author[p] # None
    /\ reactions \subseteq Existing \X Users
    /\ comments \in [CommentIds -> {None} \cup CommentRows]
    /\ IsThread(comments)
    /\ \A c \in CommentIds : comments[c] # None => comments[c].post \in Existing
    /\ postCount \in [Users -> Int]

RequestsShape ==
    /\ pc \in [Handlers -> PostQueries]
    /\ DOMAIN job = Handlers /\ job = [h \in Handlers |-> job[h]]
    /\ DOMAIN ans = Handlers /\ ans = [h \in Handlers |-> ans[h]]
    /\ \A h \in Handlers : ans[h] # None => pc[h] = "done"

PostsInv ==
    /\ RequestsShape
    /\ \A h \in Handlers : PostJob(pc[h], job[h])
    /\ TablesInv

LEMMA PostsStart == HandlersInit /\ PostsInit => PostsInv
<1> SUFFICES ASSUME HandlersInit, PostsInit PROVE PostsInv
    OBVIOUS
<1>1. RequestsShape
    BY DEF HandlersInit, RequestsShape, PostQueries
<1>2. \A h \in Handlers : PostJob(pc[h], job[h])
    BY DEF HandlersInit, PostJob
<1>3. /\ timeline \in Seq(PostIds) /\ IsInjective(timeline)
      /\ comments \in [CommentIds -> {None} \cup CommentRows] /\ IsThread(comments)
      /\ \A c \in CommentIds : comments[c] # None => comments[c].post \in Existing
    BY OldAssumption DEF PostsInit, Existing
<1>4. Existing \subseteq PostIds
    BY <1>3 DEF Existing, Range
<1>5. /\ author \in [PostIds -> Users \cup {None}]
      /\ \A p \in Existing : author[p] # None
    BY <1>4, OldAssumption, NoRowAssumption DEF PostsInit, Existing
<1>6. postCount \in [Users -> Int]
    <2>1. IsFiniteSet(Range(OldPosts))
        BY OldAssumption, FiniteRange
    <2>2. ASSUME NEW u \in Users PROVE Cardinality({p \in Range(OldPosts) : OldAuthor = u}) \in Nat
        <3>1. {p \in Range(OldPosts) : OldAuthor = u} \in SUBSET Range(OldPosts)
            OBVIOUS
        <3> QED BY <2>1, <3>1, FS_Subset, FS_CardinalityType
    <2> DEFINE number(u) == Cardinality({p \in Range(OldPosts) : OldAuthor = u})
    <2>3. postCount = [u \in Users |-> number(u)]
        BY DEF PostsInit
    <2>4. \A u \in Users : number(u) \in Nat
        BY <2>2
    <2> HIDE DEF number
    <2> QED BY <2>3, <2>4
<1> QED BY <1>1, <1>2, <1>3, <1>5, <1>6 DEF PostsInit, PostsInv, TablesInv

LEMMA OneGoes ==
    ASSUME RequestsShape, NEW h \in Handlers, NEW query \in PostQueries, NEW j, NEW answer,
           Goes(h, query, j, answer), answer # None => query = "done"
    PROVE  /\ RequestsShape'
           /\ pc'[h] = query /\ job'[h] = j /\ ans'[h] = answer
           /\ \A g \in Handlers \ {h} : pc'[g] = pc[g] /\ job'[g] = job[g] /\ ans'[g] = ans[g]
BY DEF RequestsShape, Goes

\* Posts keep their author and do not come back; the comments of a post stay
\* as long as the post does.
Steady ==
    /\ \A p \in PostIds : author[p] # None =>
         author'[p] = author[p] /\ (p \in Existing' => p \in Existing)
    /\ \A c \in CommentIds : \A p \in Existing \cap Existing' :
         comments[c] = [post |-> p, parent |-> None] => comments'[c] = comments[c]

LEMMA SteadyJob ==
    ASSUME TablesInv, Steady, NEW query, NEW j, PostJob(query, j) PROVE PostJob(query, j)'
<1>1. AboutPost(j) => AboutPost(j)'
    BY DEF AboutPost, Steady
<1>2. ASSUME j.op = "comment", query = "write", j.parent # None, j.post \in Existing'
      PROVE  comments'[j.parent] = [post |-> j.post, parent |-> None]
    <2>1. j.parent \in CommentIds /\ j.post \in PostIds /\ author[j.post] # None
        BY <1>2 DEF PostJob, AboutPost
    <2>2. j.post \in Existing /\ comments[j.parent] = [post |-> j.post, parent |-> None]
        BY <1>2, <2>1 DEF Steady, PostJob
    <2> QED BY <1>2, <2>1, <2>2 DEF Steady
<1> QED BY <1>1, <1>2 DEF PostJob

LEMMA GoesPreserves ==
    ASSUME PostsInv, Steady, TablesInv', NEW h \in Handlers, NEW query \in PostQueries, NEW j,
           NEW answer, Goes(h, query, j, answer), answer # None => query = "done",
           PostJob(query, j)'
    PROVE  PostsInv'
<1>1. RequestsShape' /\ pc'[h] = query /\ job'[h] = j
    BY OneGoes DEF PostsInv
<1>2. ASSUME NEW g \in Handlers PROVE PostJob(pc[g], job[g])'
    <2>1. CASE g = h
        BY <1>1, <2>1 DEF PostJob, AboutPost
    <2>2. CASE g # h
        <3>1. PICK q, k : q = pc[g] /\ k = job[g]
            OBVIOUS
        <3>2. PostJob(q, k)
            BY <3>1 DEF PostsInv
        <3>3. pc'[g] = q /\ job'[g] = k
            BY <2>2, <3>1, OneGoes DEF PostsInv
        <3>4. PostJob(q, k)'
            BY <3>2, SteadyJob DEF PostsInv
        <3> QED BY <3>3, <3>4 DEF PostJob, AboutPost
    <2> QED BY <2>1, <2>2
<1> QED BY <1>1, <1>2 DEF PostsInv

\* The tables the other requests see.
Tables == <<timeline, author, postCount, reactions, comments>>

LEMMA SameTables ==
    ASSUME TablesInv, UNCHANGED Tables PROVE TablesInv' /\ Steady
<1>1. Existing' = Existing
    BY DEF Tables, Existing
<1> QED BY <1>1 DEF Tables, TablesInv, Steady, IsThread

LEMMA ReadKeepsPosts ==
    ASSUME PostsInv, UNCHANGED Tables, NEW h \in Handlers, NEW query \in PostQueries, NEW j,
           NEW answer, Goes(h, query, j, answer), answer # None => query = "done",
           PostJob(query, j)
    PROVE  PostsInv'
BY SameTables, SteadyJob, GoesPreserves DEF PostsInv

LEMMA EndKeepsPosts ==
    ASSUME PostsInv, UNCHANGED Tables, NEW h \in Handlers, End(h), Live(h) PROVE PostsInv'
<1>1. Goes(h, "done", [op |-> "none"], None)
    BY DEF End, Goes, Live, PostsInv, RequestsShape
<1> QED BY <1>1, ReadKeepsPosts DEF PostJob, PostQueries

\* The answers that keep the job.
LEMMA AnswerKeepsPosts ==
    ASSUME PostsInv, UNCHANGED Tables, NEW h \in Handlers, NEW what, Answer(h, what),
           pc[h] \in {"count", "notify", "remove"}
    PROVE  PostsInv'
<1>1. PICK j : j = job[h]
    OBVIOUS
<1>2. Goes(h, "done", j, [what |-> what, at |-> pc[h]])
    BY <1>1 DEF Answer, AnswerWith, Goes
<1>3. PostJob(pc[h], j)
    BY <1>1 DEF PostsInv
<1>4. PostJob("done", j)
    BY <1>3 DEF PostJob, AboutPost
<1> QED BY <1>2, <1>4, ReadKeepsPosts DEF PostQueries

\* The next query of a request that is under way.
LEMMA AwaitKeepsPosts ==
    ASSUME PostsInv, UNCHANGED Tables, NEW h \in Handlers, NEW query \in PostQueries,
           Await(h, query), Live(h), \A j : j = job[h] => PostJob(query, j)
    PROVE  PostsInv'
<1>1. PICK j : j = job[h]
    OBVIOUS
<1>2. Goes(h, query, j, None)
    BY <1>1 DEF Await, Goes, Live, PostsInv, RequestsShape
<1> QED BY <1>1, <1>2, ReadKeepsPosts

LEMMA BeginKeepsPosts ==
    ASSUME PostsInv, UNCHANGED Tables, NEW h \in Handlers, NEW query \in PostQueries, NEW j,
           Begin(h, query, j), PostJob(query, j)
    PROVE  PostsInv'
<1>1. Goes(h, query, j, None)
    BY DEF Begin, Goes, PostsInv, RequestsShape
<1> QED BY <1>1, ReadKeepsPosts

LEMMA LookupsKeepPosts ==
    ASSUME PostsInv, NEW h \in Handlers,
           \/ FindOwnPost(h) \/ FindPostToReact(h) \/ FindPostToComment(h)
           \/ FindReaction(h) \/ FindParent(h)
    PROVE  PostsInv'
<1>1. UNCHANGED Tables /\ Live(h)
    BY DEF FindOwnPost, FindPostToReact, FindPostToComment, FindReaction, FindParent, FindPost,
           postsVars, Tables, At, Live
<1>2. CASE End(h)
    BY <1>1, <1>2, EndKeepsPosts
<1>3. ASSUME NEW j, j = job[h], ~End(h)
      PROVE  \E query \in PostQueries : Await(h, query) /\ PostJob(query, j)
    <2>0. PostJob(pc[h], j)
        BY <1>3 DEF PostsInv
    <2>1. CASE FindOwnPost(h)
        <3>1. Await(h, "delete") /\ j.op = "delete" /\ pc[h] = "post"
            BY <1>3, <2>1 DEF FindOwnPost, FindPost, At
        <3> QED BY <2>0, <3>1 DEF PostJob, PostQueries
    <2>2. CASE FindPostToReact(h)
        <3>1. Await(h, "find") /\ j.op = "toggle" /\ pc[h] = "post"
            BY <1>3, <2>2 DEF FindPostToReact, FindPost, At
        <3> QED BY <2>0, <3>1 DEF PostJob, PostQueries
    <2>3. CASE FindPostToComment(h)
        <3>1. /\ j.op = "comment" /\ pc[h] = "post"
              /\ \/ j.parent = None /\ Await(h, "write")
                 \/ j.parent # None /\ Await(h, "parent")
            BY <1>3, <2>3 DEF FindPostToComment, FindPost, At
        <3> QED BY <2>0, <3>1 DEF PostJob, PostQueries
    <2>4. CASE FindReaction(h)
        <3>1. j.op = "toggle" /\ pc[h] = "find" /\ (Await(h, "remove") \/ Await(h, "add"))
            BY <1>3, <2>4 DEF FindReaction, At
        <3> QED BY <2>0, <3>1 DEF PostJob, PostQueries
    <2>5. CASE FindParent(h)
        <3>1. /\ j.op = "comment" /\ pc[h] = "parent" /\ Await(h, "write")
              /\ comments[j.parent] # None /\ comments[j.parent].post = j.post
              /\ comments[j.parent].parent = None
            BY <1>3, <2>5 DEF FindParent, At
        <3>2. j.parent \in CommentIds
            BY <2>0, <3>1 DEF PostJob
        <3>3. comments[j.parent] = [post |-> j.post, parent |-> None]
            BY <3>1, <3>2 DEF PostsInv, TablesInv, CommentRows
        <3> QED BY <2>0, <3>1, <3>3 DEF PostJob, PostQueries
    <2> QED BY <2>1, <2>2, <2>3, <2>4, <2>5
<1>4. CASE ~End(h)
    <2>1. PICK j : j = job[h]
        OBVIOUS
    <2>2. PICK query \in PostQueries : Await(h, query) /\ PostJob(query, j)
        BY <1>3, <1>4, <2>1
    <2> QED BY <1>1, <2>1, <2>2, AwaitKeepsPosts
<1> QED BY <1>2, <1>4

LEMMA FeedKeepsPosts ==
    ASSUME PostsInv, NEW h \in Handlers, FeedFriends(h) \/ FeedPage(h) PROVE PostsInv'
<1>1. /\ UNCHANGED Tables /\ job[h].op = "feed" /\ Live(h)
      /\ PostJob(pc[h], job[h])
    BY DEF FeedFriends, FeedPage, postsVars, Tables, At, Live, PostsInv
<1>2. {"op", "user"} \subseteq DOMAIN job[h]
    BY <1>1 DEF PostJob
<1>3. ASSUME NEW query \in {"authors", "page"}, NEW j, AwaitWith(h, query, j), j.op = "feed",
             {"op", "user"} \subseteq DOMAIN j
      PROVE  PostsInv'
    <2>1. Goes(h, query, j, None)
        BY <1>1, <1>3 DEF AwaitWith, Goes, Live, PostsInv, RequestsShape
    <2>2. PostJob(query, j) /\ query \in PostQueries
        BY <1>3 DEF PostJob, PostQueries
    <2> QED BY <1>1, <2>1, <2>2, ReadKeepsPosts
<1>4. CASE FeedFriends(h)
    <2>1. \A x, y : LET j == [job[h] EXCEPT !.authors = x, !.owed = y]
                    IN  j.op = "feed" /\ {"op", "user"} \subseteq DOMAIN j
        BY <1>1, <1>2
    <2> QED BY <1>3, <1>4, <2>1 DEF FeedFriends
<1>5. CASE FeedPage(h)
    <2>1. \A x, y : LET j == [job[h] EXCEPT !.seen = x, !.lost = y]
                    IN  j.op = "feed" /\ {"op", "user"} \subseteq DOMAIN j
        BY <1>1, <1>2
    <2>2. PICK j : /\ j.op = "feed" /\ {"op", "user"} \subseteq DOMAIN j
                   /\ \/ AwaitWith(h, "authors", j)
                      \/ AnswerWith(h, "end", j)
        <3>1. PICK x, y : LET read == [job[h] EXCEPT !.seen = x, !.lost = y] IN
                \/ \E z : AwaitWith(h, "authors", [read EXCEPT !.cursor = z])
                \/ AnswerWith(h, "end", read)
            BY <1>5 DEF FeedPage
        <3>2. \A z : LET j == [[job[h] EXCEPT !.seen = x, !.lost = y] EXCEPT !.cursor = z]
                     IN  j.op = "feed" /\ {"op", "user"} \subseteq DOMAIN j
            BY <1>1, <1>2
        <3> QED BY <2>1, <3>1, <3>2
    <2>3. CASE AnswerWith(h, "end", j)
        <3>1. Goes(h, "done", j, [what |-> "end", at |-> pc[h]])
            BY <2>3 DEF AnswerWith, Goes
        <3>2. PostJob("done", j)
            BY <2>2 DEF PostJob
        <3> QED BY <1>1, <3>1, <3>2, ReadKeepsPosts DEF PostQueries
    <2> QED BY <1>3, <2>2, <2>3
<1> QED BY <1>4, <1>5

-----------------------------------------------------------------------------

LEMMA InsertKeepsPosts ==
    ASSUME PostsInv, NEW h \in Handlers, NEW p \in PostIds, InsertPost(h, p) PROVE PostsInv'
<1>1. PICK j : j = [job[h] EXCEPT !.post = p]
    OBVIOUS
<1>2. /\ author[p] = None /\ timeline' = Append(timeline, p)
      /\ author' = [author EXCEPT ![p] = job[h].user]
      /\ UNCHANGED <<postCount, reactions, comments>>
      /\ Goes(h, "count", j, None)
    BY <1>1 DEF InsertPost, AwaitWith, Goes, At, PostsInv, RequestsShape
<1>3. /\ job[h].user \in Users
      /\ job[h] \in [op : {"create"}, user : Users, post : PostIds \cup {None}]
    BY DEF InsertPost, At, PostsInv, PostJob
<1>4. p \notin Existing
    BY <1>2 DEF PostsInv, TablesInv
<1>5. /\ timeline' \in Seq(PostIds) /\ IsInjective(timeline')
      /\ Existing' = Existing \cup {p}
    BY <1>2, <1>4, AppendAdds DEF PostsInv, TablesInv, Existing
<1>6. /\ author' \in [PostIds -> Users \cup {None}]
      /\ author'[p] = job[h].user /\ author'[p] # None
      /\ \A q \in PostIds \ {p} : author'[q] = author[q]
    BY <1>2, <1>3, NoRowAssumption DEF PostsInv, TablesInv
<1>7. Existing \subseteq PostIds
    BY DEF PostsInv, TablesInv, Existing, Range
<1>8. TablesInv'
    BY <1>2, <1>5, <1>6, <1>7 DEF PostsInv, TablesInv, IsThread
<1>9. Steady
    BY <1>2, <1>5, <1>6 DEF Steady
<1>10. PostJob("count", j)'
    <2>1. /\ j.op = "create" /\ j.user = job[h].user /\ j.post = p
          /\ j \in [op : {"create"}, user : Users, post : PostIds \cup {None}]
        BY <1>1, <1>3
    <2> QED BY <1>3, <1>6, <2>1 DEF PostJob, AboutPost
<1> QED BY <1>2, <1>8, <1>9, <1>10, GoesPreserves DEF PostQueries

\* What a deletion leaves: everything but the post, and what points to it.
LEMMA CascadeKeeps ==
    ASSUME PostsInv, NEW p \in Existing, Cascade(p), UNCHANGED <<author, postCount>>
    PROVE  /\ TablesInv' /\ Steady
           /\ Existing' = Existing \ {p}
           /\ \A q \in Existing', u \in Users : <<q, u>> \in reactions' <=> <<q, u>> \in reactions
<1>1. timeline \in Seq(PostIds) /\ IsInjective(timeline)
    BY DEF PostsInv, TablesInv
<1>2. Place(p) \in 1..Len(timeline) /\ timeline[Place(p)] = p
    BY <1>1 DEF Place, Existing, Range
<1>3. /\ timeline' \in Seq(PostIds) /\ IsInjective(timeline')
      /\ Existing' = Existing \ {p}
    BY <1>1, <1>2, RemoveAtRemoves DEF Cascade, Existing
<1>4. comments' = [c \in CommentIds |->
                     IF comments[c] # None /\ comments[c].post = p THEN None ELSE comments[c]]
    BY DEF Cascade
<1>5. comments' \in [CommentIds -> {None} \cup CommentRows]
    BY <1>4 DEF PostsInv, TablesInv
<1>6. ASSUME NEW c \in CommentIds, comments'[c] # None
      PROVE  /\ comments'[c] = comments[c] /\ comments[c].post # p
             /\ comments[c].post \in Existing
    BY <1>4, <1>6 DEF PostsInv, TablesInv
<1>7. IsThread(comments')
    <2> SUFFICES ASSUME NEW c \in CommentIds, comments'[c] # None, comments'[c].parent # None
                 PROVE  comments'[comments'[c].parent] =
                          [post |-> comments'[c].post, parent |-> None]
        BY DEF IsThread
    <2>1. comments[c].parent \in CommentIds
        BY <1>6 DEF PostsInv, TablesInv, CommentRows
    <2>2. comments[comments[c].parent] = [post |-> comments[c].post, parent |-> None]
        BY <1>6 DEF PostsInv, TablesInv, IsThread
    <2> QED BY <1>4, <1>6, <2>1, <2>2
<1>8. /\ reactions' = {r \in reactions : r[1] # p}
      /\ reactions \subseteq Existing \X Users
    BY DEF Cascade, PostsInv, TablesInv
<1>9. reactions' \subseteq Existing' \X Users
    BY <1>3, <1>8
<1>10. TablesInv'
    <2>1. \A c \in CommentIds : comments'[c] # None => comments'[c].post \in Existing'
        BY <1>3, <1>6
    <2>2. /\ author' \in [PostIds -> Users \cup {None}] /\ postCount' \in [Users -> Int]
          /\ \A q \in Existing' : author'[q] # None
        BY <1>3 DEF PostsInv, TablesInv
    <2> QED BY <1>3, <1>5, <1>7, <1>9, <2>1, <2>2 DEF TablesInv
<1>11. Steady
    BY <1>3, <1>4 DEF Steady
<1> QED BY <1>3, <1>8, <1>10, <1>11

LEMMA DeleteKeepsPosts ==
    ASSUME PostsInv, NEW h \in Handlers, DeletePost(h) PROVE PostsInv'
<1>1. PICK j : j = job[h]
    OBVIOUS
<1>2. PostJob("delete", j) /\ j.op = "delete" /\ Live(h) /\ UNCHANGED <<author, postCount>>
    BY <1>1 DEF DeletePost, At, Live, PostsInv
<1>3. CASE j.post \in Existing
    <2>1. Cascade(j.post) /\ Await(h, "count")
        BY <1>1, <1>3 DEF DeletePost
    <2>2. TablesInv' /\ Steady
        BY <1>2, <1>3, <2>1, CascadeKeeps
    <2>3. Goes(h, "count", j, None)
        BY <1>1, <1>2, <2>1 DEF Await, Goes, Live, PostsInv, RequestsShape
    <2>4. PostJob("count", j)
        BY <1>2 DEF PostJob
    <2>5. PostJob("count", j)'
        BY <2>2, <2>4, SteadyJob DEF PostsInv
    <2> QED BY <2>2, <2>3, <2>5, GoesPreserves DEF PostQueries
<1>4. CASE j.post \notin Existing
    BY <1>1, <1>2, <1>4, EndKeepsPosts DEF DeletePost, Tables
<1> QED BY <1>3, <1>4

LEMMA CountKeepsPosts ==
    ASSUME PostsInv, NEW h \in Handlers, CountPost(h) PROVE PostsInv'
<1>1. /\ End(h) /\ UNCHANGED <<timeline, author, reactions, comments>>
      /\ Live(h)
    BY DEF CountPost, Live
<1>2. Existing' = Existing
    BY <1>1 DEF Existing
<1>3. postCount' \in [Users -> Int]
    <2> DEFINE by == IF job[h].op = "create" THEN 1 ELSE -1
    <2>1. by \in Int /\ postCount' = [postCount EXCEPT ![author[job[h].post]] = @ + by]
        BY DEF CountPost
    <2> HIDE DEF by
    <2>2. PICK u : u = author[job[h].post]
        OBVIOUS
    <2>3. postCount \in [Users -> Int]
        BY DEF PostsInv, TablesInv
    <2>4. postCount' = [postCount EXCEPT ![u] = postCount[u] + by]
        BY <2>1, <2>2
    <2>5. \A v \in Users : v = u => postCount[v] + by \in Int
        BY <2>1, <2>3
    <2> QED BY <2>3, <2>4, <2>5
<1>4. TablesInv' /\ Steady
    BY <1>1, <1>2, <1>3 DEF PostsInv, TablesInv, Steady, IsThread
<1>5. Goes(h, "done", [op |-> "none"], None)
    BY <1>1 DEF End, Goes, Live, PostsInv, RequestsShape
<1>6. PostJob("done", [op |-> "none"])'
    BY DEF PostJob
<1> QED BY <1>4, <1>5, <1>6, GoesPreserves DEF PostQueries

\* A reaction is to a post that is there.
LEMMA ReactionsKeepPosts ==
    ASSUME PostsInv, NEW h \in Handlers, RemoveReaction(h) \/ AddReaction(h) PROVE PostsInv'
<1>1. PICK j : j = job[h]
    OBVIOUS
<1>2. /\ PostJob(pc[h], j) /\ j.op = "toggle" /\ Live(h) /\ pc[h] \in {"remove", "add"}
      /\ UNCHANGED <<timeline, author, postCount, comments>>
    BY <1>1 DEF RemoveReaction, AddReaction, At, Live, PostsInv
<1>3. CASE reactions' = reactions /\ End(h)
    BY <1>2, <1>3, EndKeepsPosts DEF Tables
<1>4. CASE ~(reactions' = reactions /\ End(h))
    <2>1. /\ reactions' \subseteq reactions \/
               (j.post \in Existing /\ reactions' = reactions \cup {<<j.post, j.user>>})
          /\ Answer(h, "removed") \/ Await(h, "notify")
        BY <1>1, <1>4 DEF RemoveReaction, AddReaction, Reaction
    <2>2. j.user \in Users
        BY <1>2 DEF PostJob, AboutPost
    <2>3. TablesInv' /\ Steady
        <3>1. Existing' = Existing
            BY <1>2 DEF Existing
        <3>2. reactions' \subseteq Existing' \X Users
            BY <2>1, <2>2, <3>1 DEF PostsInv, TablesInv
        <3> QED BY <1>2, <3>1, <3>2 DEF PostsInv, TablesInv, Steady, IsThread
    <2>4. PICK query \in {"done", "notify"} : \E answer :
            Goes(h, query, j, answer) /\ (answer # None => query = "done")
        <3>1. CASE Answer(h, "removed")
            <4>1. Goes(h, "done", j, [what |-> "removed", at |-> pc[h]])
                BY <1>1, <3>1 DEF Answer, AnswerWith, Goes
            <4> QED BY <4>1
        <3>2. CASE Await(h, "notify")
            <4>1. Goes(h, "notify", j, None)
                BY <1>1, <1>2, <3>2 DEF Await, Goes, Live, PostsInv, RequestsShape
            <4> QED BY <4>1
        <3> QED BY <2>1, <3>1, <3>2
    <2>5. PostJob(query, j)
        BY <1>2 DEF PostJob
    <2>6. PostJob(query, j)'
        BY <2>3, <2>5, SteadyJob DEF PostsInv
    <2> QED BY <2>3, <2>4, <2>6, GoesPreserves DEF PostQueries
<1> QED BY <1>3, <1>4

\* A comment is of a post that is there, a reply of one of its comments.
LEMMA CommentKeepsPosts ==
    ASSUME PostsInv, NEW h \in Handlers, NEW c \in CommentIds, InsertComment(h, c)
    PROVE  PostsInv'
<1>1. PICK j : j = job[h]
    OBVIOUS
<1>2. /\ PostJob("write", j) /\ j.op = "comment" /\ Live(h)
      /\ UNCHANGED <<timeline, author, postCount, reactions>>
    BY <1>1 DEF InsertComment, At, Live, PostsInv
<1>3. CASE comments' = comments /\ End(h)
    BY <1>2, <1>3, EndKeepsPosts DEF Tables
<1>4. CASE ~(comments' = comments /\ End(h))
    <2> DEFINE row == [post |-> j.post, parent |-> j.parent]
    <2>1. /\ j.post \in Existing /\ comments[c] = None
          /\ comments' = [comments EXCEPT ![c] = row]
          /\ End(h) \/ Await(h, "notify")
        BY <1>1, <1>4 DEF InsertComment
    <2>2. j.post \in PostIds /\ j.parent \in CommentIds \cup {None}
        BY <1>2 DEF PostJob, AboutPost
    <2>3. row \in CommentRows /\ row # None
        BY <2>2, NoRowAssumption DEF CommentRows
    <2>4. /\ comments' \in [CommentIds -> {None} \cup CommentRows]
          /\ comments'[c] = row /\ \A d \in CommentIds \ {c} : comments'[d] = comments[d]
        BY <2>1, <2>3 DEF PostsInv, TablesInv
    <2>5. IsThread(comments')
        <3> SUFFICES ASSUME NEW d \in CommentIds, comments'[d] # None, comments'[d].parent # None
                     PROVE  comments'[comments'[d].parent] =
                              [post |-> comments'[d].post, parent |-> None]
            BY DEF IsThread
        <3>1. CASE d = c
            <4>1. j.parent \in CommentIds /\ j.parent # None
                BY <2>2, <2>4, <3>1
            <4>2. comments[j.parent] = [post |-> j.post, parent |-> None]
                BY <1>2, <2>1, <4>1 DEF PostJob
            <4>3. j.parent # c
                <5>1. [post |-> j.post, parent |-> None] \in CommentRows
                    BY <2>2 DEF CommentRows
                <5> QED BY <2>1, <4>2, <5>1, NoRowAssumption
            <4> QED BY <2>4, <3>1, <4>1, <4>2, <4>3
        <3>2. CASE d # c
            <4>1. /\ comments'[d] = comments[d] /\ comments[d].parent \in CommentIds
                  /\ comments[comments[d].parent] = [post |-> comments[d].post, parent |-> None]
                  /\ comments[d].post \in PostIds
                BY <2>4, <3>2 DEF PostsInv, TablesInv, IsThread, CommentRows
            <4>2. comments[d].parent # c
                <5>1. [post |-> comments[d].post, parent |-> None] \in CommentRows
                    BY <4>1 DEF CommentRows
                <5> QED BY <2>1, <4>1, <5>1, NoRowAssumption
            <4> QED BY <2>4, <4>1, <4>2
        <3> QED BY <3>1, <3>2
    <2>6. TablesInv' /\ Steady
        <3>1. Existing' = Existing
            BY <1>2 DEF Existing
        <3>2. \A d \in CommentIds : comments'[d] # None => comments'[d].post \in Existing'
            BY <2>1, <2>4, <3>1 DEF PostsInv, TablesInv
        <3>3. TablesInv'
            BY <1>2, <2>4, <2>5, <3>1, <3>2 DEF PostsInv, TablesInv
        <3>4. ASSUME NEW d \in CommentIds, NEW p \in Existing,
                     comments[d] = [post |-> p, parent |-> None]
              PROVE  comments'[d] = comments[d]
            <4>1. p \in PostIds
                BY DEF PostsInv, TablesInv, Existing, Range
            <4>2. comments[d] \in CommentRows
                BY <3>4, <4>1 DEF CommentRows
            <4> QED BY <2>1, <2>4, <4>2, NoRowAssumption
        <3> QED BY <1>2, <3>1, <3>3, <3>4 DEF Steady
    <2>7. PICK query \in {"done", "notify"} : \E k :
            /\ Goes(h, query, k, None)
            /\ k = j \/ (k = [op |-> "none"] /\ query = "done")
        <3>1. CASE End(h)
            <4>1. Goes(h, "done", [op |-> "none"], None)
                BY <1>2, <3>1 DEF End, Goes, Live, PostsInv, RequestsShape
            <4> QED BY <4>1
        <3>2. CASE Await(h, "notify")
            <4>1. Goes(h, "notify", j, None)
                BY <1>1, <1>2, <3>2 DEF Await, Goes, Live, PostsInv, RequestsShape
            <4> QED BY <4>1
        <3> QED BY <2>1, <3>1, <3>2
    <2>8. PICK k : /\ Goes(h, query, k, None)
                   /\ k = j \/ (k = [op |-> "none"] /\ query = "done")
        BY <2>7
    <2>9. PostJob(query, k)
        BY <1>2, <2>8 DEF PostJob
    <2>10. PostJob(query, k)'
        BY <2>6, <2>9, SteadyJob DEF PostsInv
    <2> QED BY <2>6, <2>8, <2>10, GoesPreserves DEF PostQueries
<1> QED BY <1>3, <1>4

LEMMA PostsStep == PostsInv /\ [PostsNext]_<<handlerVars, postsVars>> => PostsInv'
<1> SUFFICES ASSUME PostsInv, [PostsNext]_<<handlerVars, postsVars>> PROVE PostsInv'
    OBVIOUS
<1>1. CASE UNCHANGED <<handlerVars, Tables>>
    <2>1. TablesInv' /\ Steady
        BY <1>1, SameTables DEF PostsInv
    <2>2. RequestsShape'
        BY <1>1 DEF handlerVars, RequestsShape, PostsInv
    <2>3. \A h \in Handlers : PostJob(pc[h], job[h])'
        <3> SUFFICES ASSUME NEW h \in Handlers PROVE PostJob(pc[h], job[h])'
            OBVIOUS
        <3>1. PICK q, j : q = pc[h] /\ j = job[h]
            OBVIOUS
        <3>2. PostJob(q, j)'
            BY <2>1, <3>1, SteadyJob DEF PostsInv
        <3>3. q = pc'[h] /\ j = job'[h]
            BY <1>1, <3>1 DEF handlerVars
        <3> QED BY <3>2, <3>3 DEF PostJob, AboutPost
    <2> QED BY <2>1, <2>2, <2>3 DEF PostsInv
<1>2. CASE UNCHANGED <<handlerVars, postsVars>>
    BY <1>1, <1>2 DEF postsVars, Tables
<1>3. ASSUME NEW h \in Handlers, NEW u \in Users, MarkRead(u, h) PROVE PostsInv'
    BY <1>1, <1>3 DEF MarkRead, Tables
<1>4. ASSUME NEW u \in Users, MarkAllRead(u) PROVE PostsInv'
    BY <1>1, <1>4 DEF MarkAllRead, Tables
<1>5. ASSUME NEW u, NEW U, SetFriends(u, U) PROVE PostsInv'
    BY <1>1, <1>5 DEF SetFriends, Tables
<1>6. ASSUME NEW h \in Handlers, NEW u \in Users, CreateBegins(h, u) PROVE PostsInv'
    <2>1. PostJob("insert", [op |-> "create", user |-> u, post |-> None])
        BY DEF PostJob
    <2> QED BY <1>6, <2>1, BeginKeepsPosts DEF CreateBegins, postsVars, Tables, PostQueries
<1>7. ASSUME NEW h \in Handlers, NEW u \in Readers, FeedBegins(h, u) PROVE PostsInv'
    <2>1. PICK j : /\ Begin(h, "authors", j) /\ j.op = "feed" /\ {"op", "user"} \subseteq DOMAIN j
        BY <1>7 DEF FeedBegins
    <2>2. PostJob("authors", j)
        BY <2>1 DEF PostJob
    <2> QED BY <1>7, <2>1, <2>2, BeginKeepsPosts DEF FeedBegins, postsVars, Tables, PostQueries
<1>8. ASSUME NEW h \in Handlers, NEW u \in Users, NEW p \in PostIds,
             DeleteBegins(h, u, p) \/ ToggleBegins(h, u, p)
      PROVE  PostsInv'
    <2>1. PICK op \in {"delete", "toggle"} :
            Begin(h, "post", [op |-> op, user |-> u, post |-> p])
        BY <1>8 DEF DeleteBegins, ToggleBegins
    <2>2. author[p] # None /\ UNCHANGED Tables
        BY <1>8 DEF DeleteBegins, ToggleBegins, postsVars, Tables
    <2>3. PostJob("post", [op |-> op, user |-> u, post |-> p])
        BY <2>2 DEF PostJob, AboutPost
    <2> QED BY <2>1, <2>2, <2>3, BeginKeepsPosts DEF PostQueries
<1>9. ASSUME NEW h \in Handlers, NEW u \in Users, NEW p \in PostIds,
             NEW c \in CommentIds \cup {None}, CommentBegins(h, u, p, c)
      PROVE  PostsInv'
    <2>1. PostJob("post", [op |-> "comment", user |-> u, post |-> p, parent |-> c])
        BY <1>9 DEF PostJob, AboutPost, CommentBegins
    <2> QED BY <1>9, <2>1, BeginKeepsPosts DEF CommentBegins, postsVars, Tables, PostQueries
<1>10. ASSUME NEW h \in Handlers, NEW p \in PostIds, InsertPost(h, p) PROVE PostsInv'
    BY <1>10, InsertKeepsPosts
<1>11. ASSUME NEW h \in Handlers, NEW c \in CommentIds, InsertComment(h, c) PROVE PostsInv'
    BY <1>11, CommentKeepsPosts
<1>12. ASSUME NEW h \in Handlers, DeletePost(h) PROVE PostsInv'
    BY <1>12, DeleteKeepsPosts
<1>13. ASSUME NEW h \in Handlers, CountPost(h) PROVE PostsInv'
    BY <1>13, CountKeepsPosts
<1>14. ASSUME NEW h \in Handlers, RemoveReaction(h) \/ AddReaction(h) PROVE PostsInv'
    BY <1>14, ReactionsKeepPosts
<1>15. ASSUME NEW h \in Handlers,
              \/ FindOwnPost(h) \/ FindPostToReact(h) \/ FindPostToComment(h)
              \/ FindReaction(h) \/ FindParent(h)
       PROVE  PostsInv'
    BY <1>15, LookupsKeepPosts
<1>16. ASSUME NEW h \in Handlers, FeedFriends(h) \/ FeedPage(h) PROVE PostsInv'
    BY <1>16, FeedKeepsPosts
<1>17. ASSUME NEW h \in Handlers, NotifyAuthor(h) PROVE PostsInv'
    BY <1>17, EndKeepsPosts, AnswerKeepsPosts DEF NotifyAuthor, Tables, Live
<1>18. ASSUME NEW h \in Handlers, QueryFails(h, {"count", "notify"}), UNCHANGED postsVars
       PROVE  PostsInv'
    BY <1>18, EndKeepsPosts, AnswerKeepsPosts DEF QueryFails, postsVars, Tables
<1> QED BY <1>2, <1>3, <1>4, <1>5, <1>6, <1>7, <1>8, <1>9, <1>10, <1>11, <1>12, <1>13, <1>14,
           <1>15, <1>16, <1>17, <1>18 DEF PostsNext

\* Who points to a comment of the post is one of its comments.
LEMMA CommentsAreListed == PostsInv => EveryCommentIsListed
<1> SUFFICES ASSUME PostsInv, NEW c \in CommentIds, comments[c] # None
             PROVE  comments[c].post \in Existing /\ c \in Listed(comments[c].post)
    BY DEF EveryCommentIsListed
<1>1. comments[c] \in CommentRows /\ comments[c].post \in Existing
    BY DEF PostsInv, TablesInv
<1>2. CASE comments[c].parent = None
    <2>1. comments[c] = [post |-> comments[c].post, parent |-> None]
        BY <1>1, <1>2 DEF CommentRows
    <2> QED BY <1>1, <2>1 DEF Listed
<1>3. CASE comments[c].parent # None
    <2>1. /\ comments[c].parent \in CommentIds
          /\ comments[comments[c].parent] = [post |-> comments[c].post, parent |-> None]
        BY <1>1, <1>3 DEF PostsInv, TablesInv, IsThread, CommentRows
    <2> QED BY <1>1, <2>1 DEF Listed
<1> QED BY <1>2, <1>3

(* For every number of users, posts, comments and handlers: a comment that *)
(* was stored belongs to a post that is there and is in its list, whatever *)
(* comments and deletions cross (createComment, deleteById of              *)
(* post.repository.ts).                                                    *)
THEOREM CommentsStayListed == PostsSpec => []EveryCommentIsListed
<1> QED BY PostsStart, PostsStep, CommentsAreListed, PTL DEF PostsSpec

-----------------------------------------------------------------------------
(* What posts and reactions add up to.                                     *)

CountAddsUp(u) ==
    postCount[u] = Cardinality(PostsBy(u)) - Cardinality(Uncounted("create", u))
                                           + Cardinality(Uncounted("delete", u))

ReactionAddsUp(p, u) ==
    Cardinality(Added(<<p, u>>)) - Cardinality(Removed(<<p, u>>))
        = IF <<p, u>> \in reactions THEN 1 ELSE 0

TallyInv ==
    /\ \A u \in Users :
         /\ IsFiniteSet(Uncounted("create", u)) /\ IsFiniteSet(Uncounted("delete", u))
         /\ CountAddsUp(u)
    /\ \A p \in PostIds, u \in Users :
         /\ IsFiniteSet(Added(<<p, u>>)) /\ IsFiniteSet(Removed(<<p, u>>))
         /\ p \in Existing => ReactionAddsUp(p, u)

LEMMA TallyStart == HandlersInit /\ PostsInit => TallyInv
<1> SUFFICES ASSUME HandlersInit, PostsInit PROVE TallyInv
    OBVIOUS
<1>1. \A h \in Handlers : pc[h] = "idle" /\ ans[h] = None /\ job[h].op = "none"
    BY DEF HandlersInit
<1>2. /\ \A u \in Users : Uncounted("create", u) = {} /\ Uncounted("delete", u) = {}
      /\ \A p \in PostIds, u \in Users : Added(<<p, u>>) = {} /\ Removed(<<p, u>>) = {}
    BY <1>1 DEF Uncounted, Added, Removed, Toggles
<1>3. IsFiniteSet({}) /\ Cardinality({}) = 0
    BY FS_EmptySet
<1>4. ASSUME NEW u \in Users PROVE CountAddsUp(u)
    <2>1. Existing \subseteq PostIds /\ Existing = Range(OldPosts)
        BY OldAssumption DEF PostsInit, Existing, Range
    <2>2. PostsBy(u) = {p \in Range(OldPosts) : OldAuthor = u}
        BY <2>1 DEF PostsInit, PostsBy
    <2>3. Cardinality(PostsBy(u)) \in Nat
        <3>1. IsFiniteSet(Existing) /\ PostsBy(u) \in SUBSET Existing
            BY <2>1, OldAssumption, FiniteRange DEF PostsBy
        <3> QED BY <3>1, FS_Subset, FS_CardinalityType
    <2> DEFINE number(v) == Cardinality({p \in Range(OldPosts) : OldAuthor = v})
    <2>4. postCount = [v \in Users |-> number(v)] /\ number(u) = Cardinality(PostsBy(u))
        BY <2>2 DEF PostsInit
    <2> HIDE DEF number
    <2>5. postCount[u] = Cardinality(PostsBy(u))
        BY <2>4
    <2>6. Cardinality(Uncounted("create", u)) = 0 /\ Cardinality(Uncounted("delete", u)) = 0
        BY <1>2, <1>3
    <2> QED BY <2>3, <2>5, <2>6 DEF CountAddsUp
<1>5. ASSUME NEW p \in PostIds, NEW u \in Users PROVE ReactionAddsUp(p, u)
    <2>1. Cardinality(Added(<<p, u>>)) = 0 /\ Cardinality(Removed(<<p, u>>)) = 0
        BY <1>2, <1>3
    <2>2. <<p, u>> \notin reactions
        BY DEF PostsInit
    <2> QED BY <2>1, <2>2 DEF ReactionAddsUp
<1> QED BY <1>2, <1>3, <1>4, <1>5 DEF TallyInv

\* A request of which neither the counter nor a reaction tells.
Silent(h) ==
    \/ pc[h] \notin {"count", "notify"} /\ ans[h] = None
    \/ job[h].op \in {"none", "comment", "feed"}

LEMMA SilentIsNowhere ==
    ASSUME NEW h, Silent(h)
    PROVE  /\ \A op \in {"create", "delete"} : \A u : h \notin Uncounted(op, u)
           /\ \A r : h \notin Added(r) /\ h \notin Removed(r)
BY DEF Silent, Uncounted, Added, Removed, Toggles, FailedAt, Answered

LEMMA SilentIsNowhereNext ==
    ASSUME NEW h, Silent(h)'
    PROVE  /\ \A op \in {"create", "delete"} : \A u : h \notin Uncounted(op, u)'
           /\ \A r : h \notin Added(r)' /\ h \notin Removed(r)'
BY DEF Silent, Uncounted, Added, Removed, Toggles, FailedAt, Answered

\* A step of one handler changes these sets by that handler.
LEMMA EffectsDiffer ==
    ASSUME PostsInv, TallyInv, Steady, NEW h \in Handlers, NEW query \in PostQueries, NEW j,
           NEW answer, Goes(h, query, j, answer), answer # None => query = "done"
    PROVE  /\ \A op \in {"create", "delete"}, u \in Users :
                Differs(Uncounted(op, u), Uncounted(op, u)', h)
           /\ \A p \in PostIds, u \in Users :
                /\ Differs(Added(<<p, u>>), Added(<<p, u>>)', h)
                /\ Differs(Removed(<<p, u>>), Removed(<<p, u>>)', h)
<1>1. \A g \in Handlers \ {h} : pc'[g] = pc[g] /\ job'[g] = job[g] /\ ans'[g] = ans[g]
    BY OneGoes DEF PostsInv
<1>2. ASSUME NEW op \in {"create", "delete"}, NEW u \in Users
      PROVE  Differs(Uncounted(op, u), Uncounted(op, u)', h)
    <2>1. ASSUME NEW g, g # h PROVE g \in Uncounted(op, u) <=> g \in Uncounted(op, u)'
        <3>1. CASE /\ g \in Handlers /\ job[g].op = op
                   /\ pc[g] = "count" \/ ans[g] # None
            <4>1. PostJob(pc[g], job[g]) /\ pc[g] \in {"count", "done"}
                BY <3>1 DEF PostsInv, RequestsShape
            <4>2. job[g].post \in PostIds /\ author[job[g].post] # None
                BY <3>1, <4>1 DEF PostJob, AboutPost
            <4>3. author'[job[g].post] = author[job[g].post]
                BY <4>2 DEF Steady
            <4> QED BY <1>1, <2>1, <3>1, <4>3 DEF Uncounted, FailedAt, Answered
        <3>2. CASE ~(/\ g \in Handlers /\ job[g].op = op
                     /\ pc[g] = "count" \/ ans[g] # None)
            BY <1>1, <2>1, <3>2 DEF Uncounted, FailedAt, Answered
        <3> QED BY <3>1, <3>2
    <2>2. IsFiniteSet(Uncounted(op, u))
        BY DEF TallyInv
    <2> QED BY <2>1, <2>2, OneDiffers
<1>3. ASSUME NEW p \in PostIds, NEW u \in Users
      PROVE  /\ Differs(Added(<<p, u>>), Added(<<p, u>>)', h)
             /\ Differs(Removed(<<p, u>>), Removed(<<p, u>>)', h)
    <2>1. ASSUME NEW g, g # h
          PROVE  /\ g \in Added(<<p, u>>) <=> g \in Added(<<p, u>>)'
                 /\ g \in Removed(<<p, u>>) <=> g \in Removed(<<p, u>>)'
        BY <1>1, <2>1 DEF Added, Removed, Toggles, Reaction, FailedAt, Answered
    <2>2. IsFiniteSet(Added(<<p, u>>)) /\ IsFiniteSet(Removed(<<p, u>>))
        BY DEF TallyInv
    <2> QED BY <2>1, <2>2, OneDiffers
<1> QED BY <1>2, <1>3

\* What a step that writes none of the tallied tables has to leave alone.
SameEffect(h) ==
    /\ \A op \in {"create", "delete"}, u \in Users :
         h \in Uncounted(op, u) <=> h \in Uncounted(op, u)'
    /\ \A p \in PostIds, u \in Users :
         /\ h \in Added(<<p, u>>) <=> h \in Added(<<p, u>>)'
         /\ h \in Removed(<<p, u>>) <=> h \in Removed(<<p, u>>)'

LEMMA QuietTally ==
    ASSUME PostsInv, TallyInv, Steady, NEW h \in Handlers, NEW query \in PostQueries, NEW j,
           NEW answer, Goes(h, query, j, answer), answer # None => query = "done",
           SameEffect(h), UNCHANGED <<timeline, author, postCount, reactions>>
    PROVE  TallyInv'
<1>1. Existing' = Existing
    BY DEF Existing
<1>2. ASSUME NEW u \in Users
      PROVE  /\ IsFiniteSet(Uncounted("create", u)') /\ IsFiniteSet(Uncounted("delete", u)')
             /\ CountAddsUp(u)'
    <2>1. PostsBy(u)' = PostsBy(u)
        BY <1>1 DEF PostsBy
    <2>2. /\ Uncounted("create", u)' = Uncounted("create", u)
          /\ Uncounted("delete", u)' = Uncounted("delete", u)
        BY EffectsDiffer DEF SameEffect, Differs
    <2> QED BY <2>1, <2>2 DEF TallyInv, CountAddsUp
<1>3. ASSUME NEW p \in PostIds, NEW u \in Users
      PROVE  /\ IsFiniteSet(Added(<<p, u>>)') /\ IsFiniteSet(Removed(<<p, u>>)')
             /\ p \in Existing' => ReactionAddsUp(p, u)'
    <2>1. /\ Added(<<p, u>>)' = Added(<<p, u>>)
          /\ Removed(<<p, u>>)' = Removed(<<p, u>>)
        BY EffectsDiffer DEF SameEffect, Differs
    <2> QED BY <1>1, <2>1 DEF TallyInv, ReactionAddsUp
<1> QED BY <1>2, <1>3 DEF TallyInv

\* The usual case: the request is silent before and after.
LEMMA SilentTally ==
    ASSUME PostsInv, TallyInv, Steady, NEW h \in Handlers, NEW query \in PostQueries, NEW j,
           NEW answer, Goes(h, query, j, answer), answer # None => query = "done",
           Silent(h), UNCHANGED <<timeline, author, postCount, reactions>>,
           \/ query \notin {"count", "notify"} /\ answer = None
           \/ j.op \in {"none", "comment", "feed"}
    PROVE  TallyInv'
<1>1. Silent(h)'
    BY OneGoes DEF Silent, PostsInv
<1>2. SameEffect(h)
    BY <1>1, SilentIsNowhere, SilentIsNowhereNext DEF SameEffect
<1> QED BY <1>2, QuietTally

LEMMA EndTally ==
    ASSUME PostsInv, TallyInv, Steady, NEW h \in Handlers, End(h), Live(h), Silent(h),
           UNCHANGED <<timeline, author, postCount, reactions>>
    PROVE  TallyInv'
<1>1. Goes(h, "done", [op |-> "none"], None)
    BY DEF End, Goes, Live, PostsInv, RequestsShape
<1> QED BY <1>1, SilentTally DEF PostQueries

\* The post is new: it counts for its author, and nobody reacted to it.
LEMMA InsertTally ==
    ASSUME PostsInv, TallyInv, PostsInv', NEW h \in Handlers, NEW p \in PostIds, InsertPost(h, p)
    PROVE  TallyInv'
<1> DEFINE w == job[h].user
<1>1. PICK j : j = [job[h] EXCEPT !.post = p]
    OBVIOUS
<1>2. /\ author[p] = None /\ timeline' = Append(timeline, p)
      /\ author' = [author EXCEPT ![p] = w]
      /\ UNCHANGED <<postCount, reactions, comments>>
      /\ pc[h] = "insert" /\ Goes(h, "count", j, None)
    BY <1>1 DEF InsertPost, AwaitWith, Goes, At, PostsInv, RequestsShape
<1>3. /\ w \in Users /\ job[h] \in [op : {"create"}, user : Users, post : PostIds \cup {None}]
      /\ ans[h] = None
    BY <1>2 DEF InsertPost, At, PostsInv, PostJob, RequestsShape
<1>4. p \notin Existing
    BY <1>2 DEF PostsInv, TablesInv
<1>5. Existing' = Existing \cup {p} /\ Existing \subseteq PostIds
    <2>1. Existing' = Existing \cup {p}
        BY <1>2, <1>4, AppendAdds DEF PostsInv, TablesInv, Existing
    <2>2. Existing \subseteq PostIds
        BY DEF PostsInv, TablesInv, Existing, Range
    <2> QED BY <2>1, <2>2
<1>6. /\ author'[p] = w
      /\ \A q \in PostIds \ {p} : author'[q] = author[q]
    BY <1>2, <1>3 DEF PostsInv, TablesInv
<1>7. Steady
    BY <1>2, <1>5, <1>6 DEF Steady
<1>8. pc'[h] = "count" /\ job'[h] = j /\ ans'[h] = None
    BY <1>2, OneGoes DEF PostsInv, PostQueries
<1>9. j.op = "create" /\ j.post = p /\ p # None
    BY <1>1, <1>3, NoRowAssumption
<1>10. ASSUME NEW op \in {"create", "delete"}, NEW u \in Users
       PROVE  /\ h \notin Uncounted(op, u)
              /\ h \in Uncounted(op, u)' <=> op = "create" /\ u = w
              /\ Differs(Uncounted(op, u), Uncounted(op, u)', h)
    <2>1. h \notin Uncounted(op, u)
        BY <1>2, <1>3 DEF Uncounted, FailedAt, Answered
    <2>2. h \in Uncounted(op, u)' <=> op = "create" /\ u = w
        BY <1>6, <1>8, <1>9 DEF Uncounted
    <2> QED BY <1>2, <1>7, <2>1, <2>2, EffectsDiffer DEF PostQueries
<1>11. ASSUME NEW u \in Users
       PROVE  /\ IsFiniteSet(Uncounted("create", u)') /\ IsFiniteSet(Uncounted("delete", u)')
              /\ CountAddsUp(u)'
    <2> DEFINE c == Cardinality(Uncounted("create", u))
               d == Cardinality(Uncounted("delete", u))
               n == Cardinality(PostsBy(u))
    <2>1. IsFiniteSet(PostsBy(u)) /\ n \in Nat
        <3>1. IsFiniteSet(Existing) /\ PostsBy(u) \in SUBSET Existing
            BY FiniteRange DEF PostsInv, TablesInv, Existing, PostsBy
        <3> QED BY <3>1, FS_Subset, FS_CardinalityType
    <2>2. /\ IsFiniteSet(Uncounted("create", u)') /\ IsFiniteSet(Uncounted("delete", u)')
          /\ c \in Nat /\ d \in Nat /\ d' = d
          /\ u = w => c' = c + 1
          /\ u # w => c' = c
        BY <1>10 DEF Differs
    <2>3. (u = w => n' = n + 1) /\ (u # w => n' = n)
        <3>1. CASE u = w
            <4>1. PostsBy(u)' = PostsBy(u) \cup {p} /\ p \notin PostsBy(u)
                BY <1>4, <1>5, <1>6, <3>1 DEF PostsBy
            <4> QED BY <2>1, <3>1, <4>1, FS_AddElement
        <3>2. CASE u # w
            <4>1. PostsBy(u)' = PostsBy(u)
                BY <1>4, <1>5, <1>6, <3>2 DEF PostsBy
            <4> QED BY <3>2, <4>1
        <3> QED BY <3>1, <3>2
    <2>4. postCount[u] = n - c + d
        BY DEF TallyInv, CountAddsUp
    <2>5. postCount'[u] = n' - c' + d'
        BY <1>2, <2>1, <2>2, <2>3, <2>4
    <2> QED BY <2>2, <2>5 DEF CountAddsUp
<1>12. ASSUME NEW q \in PostIds, NEW u \in Users
       PROVE  /\ IsFiniteSet(Added(<<q, u>>)') /\ IsFiniteSet(Removed(<<q, u>>)')
              /\ q \in Existing' => ReactionAddsUp(q, u)'
    <2>1. /\ Added(<<q, u>>)' = Added(<<q, u>>) /\ Removed(<<q, u>>)' = Removed(<<q, u>>)
          /\ IsFiniteSet(Added(<<q, u>>)) /\ IsFiniteSet(Removed(<<q, u>>))
        <3>1. /\ h \notin Added(<<q, u>>) /\ h \notin Removed(<<q, u>>)
              /\ h \notin Added(<<q, u>>)' /\ h \notin Removed(<<q, u>>)'
            BY <1>3, <1>8, <1>9 DEF Added, Removed, Toggles
        <3> QED BY <1>2, <1>7, <3>1, EffectsDiffer DEF Differs, TallyInv, PostQueries
    <2>2. CASE q # p
        BY <1>2, <1>5, <2>1, <2>2 DEF TallyInv, ReactionAddsUp
    <2>3. CASE q = p
        <3>1. ASSUME NEW g \in Handlers, job[g].op = "toggle" PROVE job[g].post # p
            BY <1>2, <3>1 DEF PostsInv, PostJob, AboutPost
        <3>2. Added(<<q, u>>) = {} /\ Removed(<<q, u>>) = {}
            BY <2>3, <3>1 DEF Added, Removed, Toggles, Reaction
        <3>3. <<q, u>> \notin reactions'
            BY <1>2, <1>4, <2>3 DEF PostsInv, TablesInv
        <3>4. Cardinality(Added(<<q, u>>)') = 0 /\ Cardinality(Removed(<<q, u>>)') = 0
            BY <2>1, <3>2, FS_EmptySet
        <3> QED BY <2>1, <3>3, <3>4 DEF ReactionAddsUp
    <2> QED BY <2>2, <2>3
<1> QED BY <1>11, <1>12 DEF TallyInv

\* Only the request that deletes the post is to be subtracted.
LEMMA DeleteTally ==
    ASSUME PostsInv, TallyInv, NEW h \in Handlers, DeletePost(h) PROVE TallyInv'
<1>1. PICK j : j = job[h]
    OBVIOUS
<1>2. /\ PostJob("delete", j) /\ j.op = "delete" /\ Live(h) /\ UNCHANGED <<author, postCount>>
      /\ pc[h] = "delete" /\ ans[h] = None
    BY <1>1 DEF DeletePost, At, Live, PostsInv, RequestsShape
<1>3. CASE j.post \in Existing
    <2> DEFINE p == j.post
               w == author[j.post]
    <2>1. Cascade(p) /\ Await(h, "count")
        BY <1>1, <1>3 DEF DeletePost
    <2>2. /\ Steady /\ Existing' = Existing \ {p}
          /\ \A q \in Existing', u \in Users : <<q, u>> \in reactions' <=> <<q, u>> \in reactions
        BY <1>2, <1>3, <2>1, CascadeKeeps
    <2>3. Goes(h, "count", j, None)
        BY <1>1, <1>2, <2>1 DEF Await, Goes, Live, PostsInv, RequestsShape
    <2>4. pc'[h] = "count" /\ job'[h] = j /\ ans'[h] = None
        BY <2>3, OneGoes DEF PostsInv, PostQueries
    <2>5. p \in PostIds /\ p # None /\ author' = author
        BY <1>2, NoRowAssumption DEF PostJob, AboutPost
    <2>6. ASSUME NEW op \in {"create", "delete"}, NEW u \in Users
          PROVE  /\ h \notin Uncounted(op, u)
                 /\ h \in Uncounted(op, u)' <=> op = "delete" /\ u = w
                 /\ Differs(Uncounted(op, u), Uncounted(op, u)', h)
        <3>1. h \notin Uncounted(op, u)
            BY <1>2 DEF Uncounted, FailedAt, Answered
        <3>2. h \in Uncounted(op, u)' <=> op = "delete" /\ u = w
            BY <1>2, <2>4, <2>5 DEF Uncounted
        <3> QED BY <2>2, <2>3, <3>1, <3>2, EffectsDiffer DEF PostQueries
    <2>7. ASSUME NEW u \in Users
          PROVE  /\ IsFiniteSet(Uncounted("create", u)') /\ IsFiniteSet(Uncounted("delete", u)')
                 /\ CountAddsUp(u)'
        <3> DEFINE c == Cardinality(Uncounted("create", u))
                   d == Cardinality(Uncounted("delete", u))
                   n == Cardinality(PostsBy(u))
        <3>1. IsFiniteSet(PostsBy(u)) /\ n \in Nat
            <4>1. IsFiniteSet(Existing) /\ PostsBy(u) \in SUBSET Existing
                BY FiniteRange DEF PostsInv, TablesInv, Existing, PostsBy
            <4> QED BY <4>1, FS_Subset, FS_CardinalityType
        <3>2. /\ IsFiniteSet(Uncounted("create", u)') /\ IsFiniteSet(Uncounted("delete", u)')
              /\ c \in Nat /\ d \in Nat /\ c' = c
              /\ u = w => d' = d + 1
              /\ u # w => d' = d
            BY <2>6 DEF Differs
        <3>3. (u = w => n' = n - 1) /\ (u # w => n' = n)
            <4>1. CASE u = w
                <5>1. PostsBy(u)' = PostsBy(u) \ {p} /\ p \in PostsBy(u)
                    BY <1>3, <2>2, <2>5, <4>1 DEF PostsBy
                <5> QED BY <3>1, <4>1, <5>1, FS_RemoveElement
            <4>2. CASE u # w
                <5>1. PostsBy(u)' = PostsBy(u)
                    BY <2>2, <2>5, <4>2 DEF PostsBy
                <5> QED BY <4>2, <5>1
            <4> QED BY <4>1, <4>2
        <3>4. postCount[u] = n - c + d
            BY DEF TallyInv, CountAddsUp
        <3>5. postCount'[u] = n' - c' + d'
            BY <1>2, <3>1, <3>2, <3>3, <3>4
        <3> QED BY <3>2, <3>5 DEF CountAddsUp
    <2>8. ASSUME NEW q \in PostIds, NEW u \in Users
          PROVE  /\ IsFiniteSet(Added(<<q, u>>)') /\ IsFiniteSet(Removed(<<q, u>>)')
                 /\ q \in Existing' => ReactionAddsUp(q, u)'
        <3>1. /\ h \notin Added(<<q, u>>) /\ h \notin Removed(<<q, u>>)
              /\ h \notin Added(<<q, u>>)' /\ h \notin Removed(<<q, u>>)'
            BY <1>1, <1>2, <2>4 DEF Added, Removed, Toggles
        <3>2. /\ Added(<<q, u>>)' = Added(<<q, u>>) /\ Removed(<<q, u>>)' = Removed(<<q, u>>)
              /\ IsFiniteSet(Added(<<q, u>>)) /\ IsFiniteSet(Removed(<<q, u>>))
            BY <2>2, <2>3, <3>1, EffectsDiffer DEF Differs, TallyInv, PostQueries
        <3> QED BY <2>2, <3>2 DEF TallyInv, ReactionAddsUp
    <2> QED BY <2>7, <2>8 DEF TallyInv
<1>4. CASE j.post \notin Existing
    <2>1. End(h) /\ UNCHANGED <<timeline, reactions, comments>>
        BY <1>1, <1>4 DEF DeletePost
    <2>2. Steady
        BY <1>2, <2>1 DEF Steady, Existing
    <2> QED BY <1>2, <2>1, <2>2, EndTally DEF Silent
<1> QED BY <1>3, <1>4

\* The counter follows, and the request is no longer to be subtracted.
LEMMA CountTally ==
    ASSUME PostsInv, TallyInv, NEW h \in Handlers, CountPost(h) PROVE TallyInv'
<1>1. PICK j : j = job[h]
    OBVIOUS
<1> DEFINE w == author[j.post]
           by == IF j.op = "create" THEN 1 ELSE -1
<1>2. /\ PostJob("count", j) /\ pc[h] = "count" /\ Live(h) /\ End(h)
      /\ postCount' = [postCount EXCEPT ![author[job[h].post]] = @ + by]
      /\ UNCHANGED <<timeline, author, reactions, comments>>
    BY <1>1 DEF CountPost, Live, PostsInv
<1>3. /\ j.op \in {"create", "delete"} /\ j.post \in PostIds /\ author[j.post] # None
      /\ j.post # None
    BY <1>2, NoRowAssumption DEF PostJob, AboutPost
<1>4. w \in Users
    BY <1>3 DEF PostsInv, TablesInv
<1>5. /\ postCount'[w] = postCount[w] + by
      /\ \A u \in Users \ {w} : postCount'[u] = postCount[u]
    BY <1>1, <1>2, <1>4 DEF PostsInv, TablesInv
<1>6. Goes(h, "done", [op |-> "none"], None)
    BY <1>2 DEF End, Goes, Live, PostsInv, RequestsShape
<1>7. Existing' = Existing /\ Steady
    BY <1>2 DEF Existing, Steady
<1>8. Silent(h)'
    BY <1>6, OneGoes DEF Silent, PostsInv, PostQueries
<1>9. ASSUME NEW op \in {"create", "delete"}, NEW u \in Users
      PROVE  /\ h \in Uncounted(op, u) <=> op = j.op /\ u = w
             /\ h \notin Uncounted(op, u)'
             /\ Differs(Uncounted(op, u), Uncounted(op, u)', h)
    <2>1. h \in Uncounted(op, u) <=> op = j.op /\ u = w
        BY <1>1, <1>2, <1>3 DEF Uncounted
    <2>2. h \notin Uncounted(op, u)'
        BY <1>8, SilentIsNowhereNext
    <2> QED BY <1>6, <1>7, <2>1, <2>2, EffectsDiffer DEF PostQueries
<1>10. ASSUME NEW u \in Users
       PROVE  /\ IsFiniteSet(Uncounted("create", u)') /\ IsFiniteSet(Uncounted("delete", u)')
              /\ CountAddsUp(u)'
    <2> DEFINE c == Cardinality(Uncounted("create", u))
               d == Cardinality(Uncounted("delete", u))
               n == Cardinality(PostsBy(u))
    <2>1. PostsBy(u)' = PostsBy(u)
        BY <1>2, <1>7 DEF PostsBy
    <2>2. n \in Nat
        <3>1. IsFiniteSet(Existing) /\ PostsBy(u) \in SUBSET Existing
            BY FiniteRange DEF PostsInv, TablesInv, Existing, PostsBy
        <3> QED BY <3>1, FS_Subset, FS_CardinalityType
    <2>3. /\ IsFiniteSet(Uncounted("create", u)') /\ IsFiniteSet(Uncounted("delete", u)')
          /\ c \in Nat /\ d \in Nat
          /\ c' = IF j.op = "create" /\ u = w THEN c - 1 ELSE c
          /\ d' = IF j.op = "delete" /\ u = w THEN d - 1 ELSE d
        BY <1>9 DEF Differs
    <2>4. postCount[u] = n - c + d
        BY DEF TallyInv, CountAddsUp
    <2>5. postCount'[u] = IF u = w THEN postCount[u] + by ELSE postCount[u]
        BY <1>5
    <2>6. postCount'[u] = n - c' + d'
        BY <1>3, <2>2, <2>3, <2>4, <2>5
    <2> QED BY <2>1, <2>3, <2>6 DEF CountAddsUp
<1>11. ASSUME NEW q \in PostIds, NEW u \in Users
       PROVE  /\ IsFiniteSet(Added(<<q, u>>)') /\ IsFiniteSet(Removed(<<q, u>>)')
              /\ q \in Existing' => ReactionAddsUp(q, u)'
    <2>1. /\ h \notin Added(<<q, u>>) /\ h \notin Removed(<<q, u>>)
          /\ h \notin Added(<<q, u>>)' /\ h \notin Removed(<<q, u>>)'
        BY <1>1, <1>3, <1>8, SilentIsNowhereNext DEF Added, Removed, Toggles
    <2>2. /\ Added(<<q, u>>)' = Added(<<q, u>>) /\ Removed(<<q, u>>)' = Removed(<<q, u>>)
          /\ IsFiniteSet(Added(<<q, u>>)) /\ IsFiniteSet(Removed(<<q, u>>))
        BY <1>6, <1>7, <2>1, EffectsDiffer DEF Differs, TallyInv, PostQueries
    <2> QED BY <1>2, <1>7, <2>2 DEF TallyInv, ReactionAddsUp
<1> QED BY <1>10, <1>11 DEF TallyInv

\* A toggle that takes effect changes the reaction it names, from the other value.
LEMMA ToggleTally ==
    ASSUME PostsInv, TallyInv, NEW h \in Handlers, RemoveReaction(h) \/ AddReaction(h)
    PROVE  TallyInv'
<1>1. PICK j : j = job[h]
    OBVIOUS
<1> DEFINE r == <<j.post, j.user>>
<1>2. /\ PostJob(pc[h], j) /\ j.op = "toggle" /\ Live(h) /\ pc[h] \in {"remove", "add"}
      /\ UNCHANGED <<timeline, author, postCount, comments>> /\ ans[h] = None
    BY <1>1 DEF RemoveReaction, AddReaction, At, Live, PostsInv, RequestsShape
<1>3. Existing' = Existing /\ Steady
    BY <1>2 DEF Existing, Steady
<1>4. CASE reactions' = reactions /\ End(h)
    BY <1>2, <1>3, <1>4, EndTally DEF Silent
<1>5. CASE ~(reactions' = reactions /\ End(h))
    <2>1. j.post \in PostIds /\ j.user \in Users
        BY <1>2 DEF PostJob, AboutPost
    <2>2. \/ /\ r \in reactions /\ reactions' = reactions \ {r}
             /\ Answer(h, "removed") /\ pc[h] = "remove"
          \/ r \notin reactions /\ reactions' = reactions \cup {r} /\ Await(h, "notify")
        BY <1>1, <1>5 DEF RemoveReaction, AddReaction, Reaction, At
    <2> DEFINE removed == [what |-> "removed", at |-> "remove"]
    <2>3. removed # None /\ removed.what = "removed"
        <3>1. removed \in [what : {"added", "removed", "error"}, at : {"count", "remove", "notify"}]
            OBVIOUS
        <3> QED BY <3>1, NoRowAssumption
    <2> HIDE DEF removed
    <2>9. PICK query \in {"done", "notify"} : \E answer :
            /\ Goes(h, query, j, answer) /\ (answer # None => query = "done")
            /\ \/ /\ r \in reactions /\ reactions' = reactions \ {r}
                  /\ query = "done" /\ answer = removed
               \/ /\ r \notin reactions /\ reactions' = reactions \cup {r}
                  /\ query = "notify" /\ answer = None
        <3>1. CASE Answer(h, "removed")
            <4>1. pc[h] = "remove" \/ pc[h] = "add"
                BY <1>2
            <4>2. CASE pc[h] = "remove"
                <5>1. Goes(h, "done", j, removed)
                    BY <1>1, <3>1, <4>2 DEF Answer, AnswerWith, Goes, removed
                <5>2. ~Await(h, "notify")
                    BY <1>2, <5>1 DEF Await, Goes, PostsInv, RequestsShape
                <5> QED BY <2>2, <5>1, <5>2
            <4>3. CASE pc[h] # "remove"
                <5>1. Await(h, "notify") /\ r \notin reactions /\ reactions' = reactions \cup {r}
                    BY <2>2, <4>3
                <5>2. Goes(h, "notify", j, None)
                    BY <1>1, <1>2, <5>1 DEF Await, Goes, PostsInv, RequestsShape
                <5> QED BY <5>1, <5>2
            <4> QED BY <4>2, <4>3
        <3>2. CASE ~Answer(h, "removed")
            <4>1. Await(h, "notify") /\ r \notin reactions /\ reactions' = reactions \cup {r}
                BY <2>2, <3>2
            <4>2. Goes(h, "notify", j, None)
                BY <1>1, <1>2, <4>1 DEF Await, Goes, PostsInv, RequestsShape
            <4> QED BY <4>1, <4>2
        <3> QED BY <3>1, <3>2
    <2>4. PICK answer :
            /\ Goes(h, query, j, answer) /\ (answer # None => query = "done")
            /\ \/ /\ r \in reactions /\ reactions' = reactions \ {r}
                  /\ query = "done" /\ answer = removed
               \/ /\ r \notin reactions /\ reactions' = reactions \cup {r}
                  /\ query = "notify" /\ answer = None
        BY <2>9
    <2>5. pc'[h] = query /\ job'[h] = j /\ ans'[h] = answer
        BY <2>4, OneGoes DEF PostsInv, PostQueries
    <2>6. ASSUME NEW q \in PostIds, NEW u \in Users
          PROVE  /\ h \notin Added(<<q, u>>) /\ h \notin Removed(<<q, u>>)
                 /\ h \in Added(<<q, u>>)' <=> query = "notify" /\ <<q, u>> = r
                 /\ h \in Removed(<<q, u>>)' <=> query = "done" /\ <<q, u>> = r
                 /\ Differs(Added(<<q, u>>), Added(<<q, u>>)', h)
                 /\ Differs(Removed(<<q, u>>), Removed(<<q, u>>)', h)
        <3>1. h \notin Added(<<q, u>>) /\ h \notin Removed(<<q, u>>)
            BY <1>2, SilentIsNowhere DEF Silent
        <3>2. h \in Toggles(<<q, u>>)' <=> <<q, u>> = r
            BY <1>2, <2>5 DEF Toggles, Reaction
        <3>3. /\ h \in Added(<<q, u>>)' <=> query = "notify" /\ <<q, u>> = r
              /\ h \in Removed(<<q, u>>)' <=> query = "done" /\ <<q, u>> = r
            BY <2>3, <2>4, <2>5, <3>2 DEF Added, Removed, FailedAt, Answered
        <3> QED BY <1>3, <2>4, <3>1, <3>3, EffectsDiffer DEF PostQueries
    <2>7. ASSUME NEW q \in PostIds, NEW u \in Users
          PROVE  /\ IsFiniteSet(Added(<<q, u>>)') /\ IsFiniteSet(Removed(<<q, u>>)')
                 /\ q \in Existing' => ReactionAddsUp(q, u)'
        <3> DEFINE a == Cardinality(Added(<<q, u>>))
                   d == Cardinality(Removed(<<q, u>>))
        <3>1. /\ IsFiniteSet(Added(<<q, u>>)') /\ IsFiniteSet(Removed(<<q, u>>)')
              /\ a \in Nat /\ d \in Nat
              /\ a' = IF query = "notify" /\ <<q, u>> = r THEN a + 1 ELSE a
              /\ d' = IF query = "done" /\ <<q, u>> = r THEN d + 1 ELSE d
            BY <2>6 DEF Differs
        <3>2. q \in Existing => a - d = IF <<q, u>> \in reactions THEN 1 ELSE 0
            BY DEF TallyInv, ReactionAddsUp
        <3>3. q \in Existing => a' - d' = IF <<q, u>> \in reactions' THEN 1 ELSE 0
            BY <2>4, <3>1, <3>2
        <3> QED BY <1>3, <3>1, <3>3 DEF ReactionAddsUp
    <2>8. ASSUME NEW u \in Users
          PROVE  /\ IsFiniteSet(Uncounted("create", u)') /\ IsFiniteSet(Uncounted("delete", u)')
                 /\ CountAddsUp(u)'
        <3>1. \A op \in {"create", "delete"} :
                h \notin Uncounted(op, u) /\ h \notin Uncounted(op, u)'
            BY <1>1, <1>2, <2>5 DEF Uncounted
        <3>2. /\ Uncounted("create", u)' = Uncounted("create", u)
              /\ Uncounted("delete", u)' = Uncounted("delete", u)
            BY <1>3, <2>4, <3>1, EffectsDiffer DEF Differs, PostQueries
        <3>3. PostsBy(u)' = PostsBy(u)
            BY <1>2, <1>3 DEF PostsBy
        <3> QED BY <1>2, <3>2, <3>3 DEF TallyInv, CountAddsUp
    <2> QED BY <2>7, <2>8 DEF TallyInv
<1> QED BY <1>4, <1>5

\* The answers, and the failures, of requests that took effect.
LEMMA AnswerTally ==
    ASSUME PostsInv, TallyInv, UNCHANGED Tables, NEW h \in Handlers,
           NEW what \in {"added", "error"}, Answer(h, what),
           \/ pc[h] = "count" /\ what = "error"
           \/ pc[h] = "notify" 
    PROVE  TallyInv'
<1>1. PICK j : j = job[h]
    OBVIOUS
<1> DEFINE answer == [what |-> what, at |-> pc[h]]
<1>2. answer # None /\ answer.what = what /\ answer.at = pc[h]
    <2>1. answer \in [what : {"added", "removed", "error"}, at : {"count", "remove", "notify"}]
        OBVIOUS
    <2> QED BY <2>1, NoRowAssumption
<1>3. Goes(h, "done", j, answer)
    BY <1>1 DEF Answer, AnswerWith, Goes
<1>4. pc'[h] = "done" /\ job'[h] = j /\ ans'[h] = answer
    BY <1>3, OneGoes DEF PostsInv, PostQueries
<1>5. Steady /\ UNCHANGED <<timeline, author, postCount, reactions>> /\ ans[h] = None
    BY SameTables DEF Tables, PostsInv, RequestsShape
<1> HIDE DEF answer
<1>6. PostJob(pc[h], j)
    BY <1>1 DEF PostsInv
<1>7. CASE pc[h] = "count" /\ what = "error"
    <2>1. j.op \in {"create", "delete"}
        BY <1>6, <1>7 DEF PostJob
    <2>2. SameEffect(h)
        BY <1>1, <1>2, <1>4, <1>5, <1>7, <2>1
           DEF SameEffect, Uncounted, Added, Removed, Toggles, FailedAt, Answered
    <2> QED BY <1>3, <1>5, <2>2, QuietTally DEF PostQueries
<1>8. CASE pc[h] = "notify"
    <2>1. j.op \in {"toggle", "comment"}
        BY <1>6, <1>8 DEF PostJob
    <2>2. \A p \in PostIds, u \in Users :
            h \in Toggles(<<p, u>>)' <=> h \in Toggles(<<p, u>>)
        BY <1>1, <1>4 DEF Toggles, Reaction
    <2>3. SameEffect(h)
        BY <1>1, <1>2, <1>4, <1>5, <1>8, <2>1, <2>2
           DEF SameEffect, Uncounted, Added, Removed, FailedAt, Answered
    <2> QED BY <1>3, <1>5, <2>3, QuietTally DEF PostQueries
<1> QED BY <1>7, <1>8

LEMMA LookupTally ==
    ASSUME PostsInv, TallyInv, NEW h \in Handlers,
           \/ FindOwnPost(h) \/ FindPostToReact(h) \/ FindPostToComment(h)
           \/ FindReaction(h) \/ FindParent(h)
    PROVE  TallyInv'
<1>1. /\ UNCHANGED Tables /\ Live(h) /\ pc[h] \in {"post", "find", "parent"}
    BY DEF FindOwnPost, FindPostToReact, FindPostToComment, FindReaction, FindParent, FindPost,
           postsVars, Tables, At, Live
<1>2. /\ Steady /\ UNCHANGED <<timeline, author, postCount, reactions>>
      /\ ans[h] = None /\ Silent(h)
    BY <1>1, SameTables DEF Tables, PostsInv, RequestsShape, Silent
<1>3. \/ End(h)
      \/ \E query \in {"delete", "find", "write", "parent", "remove", "add"} : Await(h, query)
    BY DEF FindOwnPost, FindPostToReact, FindPostToComment, FindReaction, FindParent, FindPost
<1>4. CASE End(h)
    BY <1>1, <1>2, <1>4, EndTally
<1>5. ASSUME NEW query \in {"delete", "find", "write", "parent", "remove", "add"}, Await(h, query)
      PROVE  TallyInv'
    <2>1. PICK j : j = job[h]
        OBVIOUS
    <2>2. Goes(h, query, j, None)
        BY <1>2, <1>5, <2>1 DEF Await, Goes, PostsInv, RequestsShape
    <2> QED BY <1>2, <1>5, <2>2, SilentTally DEF PostQueries
<1> QED BY <1>3, <1>4, <1>5

LEMMA FeedTally ==
    ASSUME PostsInv, TallyInv, NEW h \in Handlers, FeedFriends(h) \/ FeedPage(h) PROVE TallyInv'
<1>1. /\ UNCHANGED Tables /\ job[h].op = "feed" /\ Live(h) /\ PostJob(pc[h], job[h])
    BY DEF FeedFriends, FeedPage, postsVars, Tables, At, Live, PostsInv
<1>2. /\ {"op", "user"} \subseteq DOMAIN job[h] /\ Silent(h) /\ ans[h] = None
      /\ Steady /\ UNCHANGED <<timeline, author, postCount, reactions>>
    BY <1>1, SameTables DEF PostJob, Silent, Live, PostsInv, RequestsShape, Tables
<1>3. \A x, y, z :
        /\ [job[h] EXCEPT !.authors = x, !.owed = y].op = "feed"
        /\ [job[h] EXCEPT !.seen = x, !.lost = y].op = "feed"
        /\ [[job[h] EXCEPT !.seen = x, !.lost = y] EXCEPT !.cursor = z].op = "feed"
    BY <1>1, <1>2
<1>4. ASSUME NEW query \in {"page", "authors"}, NEW j, AwaitWith(h, query, j), j.op = "feed"
      PROVE  TallyInv'
    <2>1. Goes(h, query, j, None)
        BY <1>2, <1>4 DEF AwaitWith, Goes, PostsInv, RequestsShape
    <2> QED BY <1>2, <1>4, <2>1, SilentTally DEF PostQueries
<1>5. ASSUME NEW j, AnswerWith(h, "end", j), j.op = "feed" PROVE TallyInv'
    <2>1. Goes(h, "done", j, [what |-> "end", at |-> pc[h]])
        BY <1>5 DEF AnswerWith, Goes
    <2> QED BY <1>2, <1>5, <2>1, SilentTally DEF PostQueries
<1>6. CASE FeedFriends(h)
    <2>1. PICK x, y : AwaitWith(h, "page", [job[h] EXCEPT !.authors = x, !.owed = y])
        BY <1>6 DEF FeedFriends
    <2> QED BY <1>3, <1>4, <2>1
<1>7. CASE FeedPage(h)
    <2>1. PICK x, y : LET read == [job[h] EXCEPT !.seen = x, !.lost = y] IN
            \/ \E z : AwaitWith(h, "authors", [read EXCEPT !.cursor = z])
            \/ AnswerWith(h, "end", read)
        BY <1>7 DEF FeedPage
    <2>2. CASE AnswerWith(h, "end", [job[h] EXCEPT !.seen = x, !.lost = y])
        BY <1>3, <1>5, <2>2
    <2>3. CASE \E z : AwaitWith(h, "authors",
                                [[job[h] EXCEPT !.seen = x, !.lost = y] EXCEPT !.cursor = z])
        <3>1. PICK z : AwaitWith(h, "authors",
                                 [[job[h] EXCEPT !.seen = x, !.lost = y] EXCEPT !.cursor = z])
            BY <2>3
        <3>2. PICK j : j = [[job[h] EXCEPT !.seen = x, !.lost = y] EXCEPT !.cursor = z]
            OBVIOUS
        <3>3. j.op = "feed" /\ AwaitWith(h, "authors", j)
            BY <1>3, <3>1, <3>2
        <3> QED BY <1>4, <3>3
    <2> QED BY <2>1, <2>2, <2>3
<1> QED BY <1>6, <1>7

LEMMA TallyStep ==
    PostsInv /\ TallyInv /\ PostsInv' /\ [PostsNext]_<<handlerVars, postsVars>> => TallyInv'
<1> SUFFICES ASSUME PostsInv, TallyInv, PostsInv', [PostsNext]_<<handlerVars, postsVars>>
             PROVE  TallyInv'
    OBVIOUS
<1>1. CASE UNCHANGED <<handlerVars, Tables>>
    <2>1. Existing' = Existing
        BY <1>1 DEF Existing, Tables
    <2>2. \A op, u : Uncounted(op, u)' = Uncounted(op, u)
        BY <1>1 DEF handlerVars, Tables, Uncounted, FailedAt, Answered
    <2>3. \A r : Added(r)' = Added(r) /\ Removed(r)' = Removed(r)
        BY <1>1 DEF handlerVars, Added, Removed, Toggles, Reaction, FailedAt, Answered
    <2>4. \A u : PostsBy(u)' = PostsBy(u)
        BY <1>1, <2>1 DEF PostsBy, Tables
    <2> QED BY <1>1, <2>1, <2>2, <2>3, <2>4 DEF TallyInv, CountAddsUp, ReactionAddsUp, Tables
<1>2. CASE UNCHANGED <<handlerVars, postsVars>>
    BY <1>1, <1>2 DEF postsVars, Tables
<1>3. ASSUME NEW h \in Handlers, NEW u \in Users, MarkRead(u, h) PROVE TallyInv'
    BY <1>1, <1>3 DEF MarkRead, Tables
<1>4. ASSUME NEW u \in Users, MarkAllRead(u) PROVE TallyInv'
    BY <1>1, <1>4 DEF MarkAllRead, Tables
<1>5. ASSUME NEW u, NEW U, SetFriends(u, U) PROVE TallyInv'
    BY <1>1, <1>5 DEF SetFriends, Tables
<1>6. ASSUME NEW h \in Handlers, UNCHANGED Tables,
             NEW query \in {"insert", "authors", "post"}, NEW j, Begin(h, query, j)
      PROVE  TallyInv'
    <2>1. Goes(h, query, j, None) /\ pc[h] = "idle" /\ ans[h] = None
        BY <1>6 DEF Begin, Goes, PostsInv, RequestsShape
    <2>2. Steady /\ UNCHANGED <<timeline, author, postCount, reactions>> /\ Silent(h)
        BY <1>6, <2>1, SameTables DEF PostsInv, Tables, Silent
    <2> QED BY <2>1, <2>2, SilentTally DEF PostQueries
<1>7. ASSUME NEW h \in Handlers, NEW u, CreateBegins(h, u) \/ FeedBegins(h, u) PROVE TallyInv'
    BY <1>6, <1>7 DEF CreateBegins, FeedBegins, postsVars, Tables
<1>8. ASSUME NEW h \in Handlers, NEW u, NEW p, DeleteBegins(h, u, p) \/ ToggleBegins(h, u, p)
      PROVE  TallyInv'
    BY <1>6, <1>8 DEF DeleteBegins, ToggleBegins, postsVars, Tables
<1>9. ASSUME NEW h \in Handlers, NEW u, NEW p, NEW c, CommentBegins(h, u, p, c) PROVE TallyInv'
    BY <1>6, <1>9 DEF CommentBegins, postsVars, Tables
<1>10. ASSUME NEW h \in Handlers, NEW p \in PostIds, InsertPost(h, p) PROVE TallyInv'
    BY <1>10, InsertTally
<1>11. ASSUME NEW h \in Handlers, NEW c \in CommentIds, InsertComment(h, c) PROVE TallyInv'
    <2>1. /\ UNCHANGED <<timeline, author, postCount, reactions>> /\ job[h].op = "comment"
          /\ Live(h) /\ Silent(h) /\ ans[h] = None
        BY <1>11 DEF InsertComment, At, Live, Silent, PostsInv, RequestsShape
    <2>2. Existing' = Existing /\ Existing \subseteq PostIds
        BY <2>1 DEF Existing, PostsInv, TablesInv, Range
    <2>3. Steady
        <3>1. ASSUME NEW d \in CommentIds, NEW p \in Existing,
                     comments[d] = [post |-> p, parent |-> None]
              PROVE  comments'[d] = comments[d]
            <4>1. comments[d] \in CommentRows
                BY <2>2, <3>1 DEF CommentRows
            <4> QED BY <1>11, <4>1, NoRowAssumption DEF InsertComment, PostsInv, TablesInv
        <3> QED BY <2>1, <2>2, <3>1 DEF Steady
    <2>4. CASE End(h)
        BY <2>1, <2>3, <2>4, EndTally
    <2>5. CASE ~End(h)
        <3>1. PICK j : j = job[h]
            OBVIOUS
        <3>2. Await(h, "notify")
            BY <1>11, <2>5 DEF InsertComment
        <3>3. Goes(h, "notify", j, None)
            BY <2>1, <3>1, <3>2 DEF Await, Goes, PostsInv, RequestsShape
        <3> QED BY <2>1, <2>3, <3>1, <3>3, SilentTally DEF PostQueries
    <2> QED BY <2>4, <2>5
<1>12. ASSUME NEW h \in Handlers, DeletePost(h) PROVE TallyInv'
    BY <1>12, DeleteTally
<1>13. ASSUME NEW h \in Handlers, CountPost(h) PROVE TallyInv'
    BY <1>13, CountTally
<1>14. ASSUME NEW h \in Handlers, RemoveReaction(h) \/ AddReaction(h) PROVE TallyInv'
    BY <1>14, ToggleTally
<1>15. ASSUME NEW h \in Handlers,
              \/ FindOwnPost(h) \/ FindPostToReact(h) \/ FindPostToComment(h)
              \/ FindReaction(h) \/ FindParent(h)
       PROVE  TallyInv'
    BY <1>15, LookupTally
<1>16. ASSUME NEW h \in Handlers, FeedFriends(h) \/ FeedPage(h) PROVE TallyInv'
    BY <1>16, FeedTally
<1>17. ASSUME NEW h \in Handlers, UNCHANGED Tables, End(h), Live(h), Silent(h) PROVE TallyInv'
    BY <1>17, EndTally, SameTables DEF PostsInv, Tables
<1>18. ASSUME NEW h \in Handlers, NotifyAuthor(h) PROVE TallyInv'
    <2>1. pc[h] = "notify" /\ UNCHANGED Tables /\ Live(h) /\ job[h].op \in {"toggle", "comment"}
        BY <1>18 DEF NotifyAuthor, Tables, Live, PostsInv, PostJob
    <2>2. CASE job[h].op = "toggle"
        BY <1>18, <2>1, <2>2, AnswerTally DEF NotifyAuthor
    <2>3. CASE job[h].op = "comment"
        BY <1>17, <1>18, <2>1, <2>3 DEF NotifyAuthor, Silent
    <2> QED BY <2>1, <2>2, <2>3
<1>19. ASSUME NEW h \in Handlers, QueryFails(h, {"count", "notify"}), UNCHANGED postsVars
       PROVE  TallyInv'
    <2>1. UNCHANGED Tables /\ Live(h)
        BY <1>19 DEF QueryFails, postsVars, Tables
    <2>2. CASE pc[h] \in {"count", "notify"}
        BY <1>19, <2>1, <2>2, AnswerTally DEF QueryFails
    <2>3. CASE pc[h] \notin {"count", "notify"}
        <3>1. Silent(h)
            BY <2>1, <2>3 DEF Silent, Live, PostsInv, RequestsShape
        <3> QED BY <1>17, <1>19, <2>1, <2>3, <3>1 DEF QueryFails
    <2> QED BY <2>2, <2>3
<1> QED BY <1>2, <1>3, <1>4, <1>5, <1>7, <1>8, <1>9, <1>10, <1>11, <1>12, <1>13, <1>14,
           <1>15, <1>16, <1>18, <1>19 DEF PostsNext

LEMMA TallyMeans == TallyInv /\ PostsInv => PostCountAddsUp /\ ReactionsAddUp
<1> SUFFICES ASSUME TallyInv, PostsInv PROVE PostCountAddsUp /\ ReactionsAddUp
    OBVIOUS
<1>1. Existing \subseteq PostIds
    BY DEF PostsInv, TablesInv, Existing, Range
<1> QED BY <1>1 DEF TallyInv, CountAddsUp, ReactionAddsUp, PostCountAddsUp, ReactionsAddUp

(* For every number of users, posts and handlers: the counter of a profile *)
(* differs from the number of its posts by the requests that wrote a post  *)
(* and not yet, or never, the counter; two deletions of one post count     *)
(* once (create, deleteById of post.repository.ts).                        *)
THEOREM PostsAreCounted == PostsSpec => []PostCountAddsUp
<1> QED BY PostsStart, PostsStep, TallyStart, TallyStep, TallyMeans, PTL DEF PostsSpec

(* The toggles of one reaction that took effect alternate, and the last    *)
(* one shows, however they cross (toggleInteraction of                     *)
(* post.repository.ts under its unique constraint).                        *)
THEOREM TogglesAlternate == PostsSpec => []ReactionsAddUp
<1> QED BY PostsStart, PostsStep, TallyStart, TallyStep, TallyMeans, PTL DEF PostsSpec
-----------------------------------------------------------------------------
(* The feed, page after page.                                              *)

PlaceIn(s, p) == CHOOSE i \in 1..Len(s) : s[i] = p

LEMMA PlaceIs ==
    ASSUME NEW S, NEW s \in Seq(S), IsInjective(s), NEW p \in Range(s)
    PROVE  /\ PlaceIn(s, p) \in 1..Len(s) /\ s[PlaceIn(s, p)] = p
           /\ \A i \in 1..Len(s) : s[i] = p => i = PlaceIn(s, p)
<1>1. DOMAIN s = 1..Len(s)
    OBVIOUS
<1>2. \E i \in 1..Len(s) : s[i] = p
    BY <1>1 DEF Range
<1>3. PlaceIn(s, p) \in 1..Len(s) /\ s[PlaceIn(s, p)] = p
    BY <1>2 DEF PlaceIn
<1> QED BY <1>1, <1>3 DEF IsInjective

LEMMA PlaceOfPost ==
    ASSUME TablesInv
    PROVE  \A p \in Existing : Place(p) \in Nat /\ \A q \in Existing : Place(p) = Place(q) => p = q
<1>1. \A p \in Existing : Place(p) \in 1..Len(timeline) /\ timeline[Place(p)] = p
    BY PlaceIs DEF TablesInv, Existing, Place, PlaceIn
<1> QED BY <1>1

\* Posts keep their author and their order, and do not come back.
KeepsOrder ==
    /\ \A p \in PostIds : author[p] # None =>
         author'[p] = author[p] /\ (p \in Existing' => p \in Existing)
    /\ \A p, q \in Existing \cap Existing' :
         Place(p)' < Place(q)' <=> Place(p) < Place(q)

LEMMA AppendKeepsOrder ==
    ASSUME TablesInv, NEW p \in PostIds, author[p] = None,
           timeline' = Append(timeline, p), Existing' = Existing \cup {p},
           \A q \in PostIds \ {p} : author'[q] = author[q], TablesInv'
    PROVE  KeepsOrder
<1> DEFINE t == Append(timeline, p)
<1>1. /\ timeline \in Seq(PostIds) /\ IsInjective(timeline)
      /\ t \in Seq(PostIds) /\ IsInjective(t)
    BY DEF TablesInv
<1>2. /\ Len(t) = Len(timeline) + 1 /\ Len(timeline) \in Nat
      /\ \A i \in 1..Len(timeline) : t[i] = timeline[i]
    BY <1>1
<1>3. ASSUME NEW q \in Existing PROVE PlaceIn(t, q) = PlaceIn(timeline, q)
    <2>1. q \in Range(timeline) /\ q \in Range(t)
        BY DEF Existing
    <2>2. PlaceIn(timeline, q) \in 1..Len(timeline) /\ timeline[PlaceIn(timeline, q)] = q
        BY <1>1, <2>1, PlaceIs
    <2>3. \A i \in 1..Len(t) : t[i] = q => i = PlaceIn(t, q)
        BY <1>1, <2>1, PlaceIs
    <2> HIDE DEF t
    <2> QED BY <1>2, <2>2, <2>3
<1>4. \A q \in Existing : Place(q)' = Place(q)
    BY <1>3 DEF Place, PlaceIn
<1> QED BY <1>4 DEF KeepsOrder

LEMMA CascadeKeepsOrder ==
    ASSUME PostsInv, NEW p \in Existing, Cascade(p), UNCHANGED <<author, postCount>>
    PROVE  KeepsOrder
<1> DEFINE s == timeline
           i == PlaceIn(s, p)
           t == RemoveAt(s, i)
<1>1. s \in Seq(PostIds) /\ IsInjective(s) /\ Range(s) = Existing
    BY DEF PostsInv, TablesInv, Existing
<1>2. i \in 1..Len(s) /\ s[i] = p
    BY <1>1, PlaceIs
<1>3. timeline' = t
    BY DEF Cascade, Place, PlaceIn
<1>4. t \in Seq(PostIds) /\ IsInjective(t) /\ Range(t) = Existing \ {p}
    <2> HIDE DEF i, s
    <2> QED BY <1>1, <1>2, RemoveAtRemoves
<1>5. /\ Len(t) = Len(s) - 1 /\ Len(s) \in Nat
      /\ \A k \in 1..(Len(s) - 1) : t[k] = IF k < i THEN s[k] ELSE s[k + 1]
    <2> HIDE DEF i, s
    <2> QED BY <1>1, <1>2, RemovedPlaces
<1>6. ASSUME NEW q \in Existing \ {p}
      PROVE  /\ PlaceIn(s, q) \in 1..Len(s) /\ PlaceIn(s, q) # i
             /\ PlaceIn(t, q) = IF PlaceIn(s, q) < i THEN PlaceIn(s, q) ELSE PlaceIn(s, q) - 1
    <2> HIDE DEF i, s, t
    <2>1. PlaceIn(s, q) \in 1..Len(s) /\ s[PlaceIn(s, q)] = q
        BY <1>1, PlaceIs
    <2>2. \A k \in 1..Len(t) : t[k] = q => k = PlaceIn(t, q)
        BY <1>4, PlaceIs
    <2>3. PlaceIn(s, q) # i
        BY <1>2, <2>1
    <2>4. CASE PlaceIn(s, q) < i
        BY <1>2, <1>5, <2>1, <2>2, <2>4
    <2>5. CASE PlaceIn(s, q) > i
        <3>1. PlaceIn(s, q) - 1 \in 1..Len(t) /\ t[PlaceIn(s, q) - 1] = q
            BY <1>2, <1>5, <2>1, <2>5
        <3> QED BY <1>2, <2>1, <2>2, <2>5, <3>1
    <2> QED BY <1>2, <2>1, <2>3, <2>4, <2>5
<1>7. /\ \A q \in Existing : Place(q) = PlaceIn(s, q)
      /\ \A q \in Existing' : Place(q)' = PlaceIn(t, q)
    BY <1>3 DEF Place, PlaceIn
<1>8. Existing' = Existing \ {p}
    BY <1>3, <1>4 DEF Existing
<1>9. ASSUME NEW q \in Existing \ {p}, NEW r \in Existing \ {p}
      PROVE  PlaceIn(t, q) < PlaceIn(t, r) <=> PlaceIn(s, q) < PlaceIn(s, r)
    <2> HIDE DEF i, s, t
    <2> QED BY <1>2, <1>6
<1> HIDE DEF i, s, t
<1>10. \A q, r \in Existing \cap Existing' :
         Place(q)' < Place(r)' <=> Place(q) < Place(r)
    BY <1>7, <1>8, <1>9
<1> QED BY <1>8, <1>10 DEF KeepsOrder

\* What a reader has in hand: the posts he saw, newest first; those that he
\* is owed and did not see are older than the cursor, if it is still there.
FeedJob(query, j) ==
    /\ query \in {"authors", "page", "done"}
    /\ j = [op |-> "feed", user |-> j.user, authors |-> j.authors, cursor |-> j.cursor,
            seen |-> j.seen, lost |-> j.lost, owed |-> j.owed]
    /\ j.seen \in Seq(PostIds) /\ IsInjective(j.seen) /\ j.lost \in BOOLEAN
    /\ j.cursor \in PostIds \cup {None} /\ j.owed \subseteq PostIds
    /\ \A p \in Range(j.seen) \cup j.owed : author[p] # None
    /\ j.cursor = None => (query \in {"authors", "page"} => j.seen = << >>)
    /\ j.cursor # None => author[j.cursor] # None
    /\ \A i, k \in DOMAIN j.seen :
         i < k /\ {j.seen[i], j.seen[k]} \subseteq Existing => Place(j.seen[k]) < Place(j.seen[i])
    /\ j.cursor \in Existing => \A p \in Range(j.seen) \cap Existing :
         query # "done" => ~(Place(p) < Place(j.cursor))
    /\ query = "page" => \A p \in j.owed : author[p] \in j.authors
    /\ ~j.lost /\ query # "done" /\ j.cursor \in Existing =>
         \A p \in (j.owed \cap Existing) \ Range(j.seen) : Place(p) < Place(j.cursor)
    /\ ~j.lost /\ query = "done" => j.owed \cap Existing \subseteq Range(j.seen)

FeedInv == \A h \in Handlers : job[h].op = "feed" => FeedJob(pc[h], job[h])

LEMMA FeedStays ==
    ASSUME TablesInv, TablesInv', KeepsOrder, NEW query, NEW j, FeedJob(query, j) PROVE FeedJob(query, j)'
<1>1. \A p \in PostIds : author[p] # None =>
        author'[p] = author[p] /\ (p \in Existing' => p \in Existing)
    BY DEF KeepsOrder
<1>2. /\ j.seen \in Seq(PostIds) /\ j.owed \subseteq PostIds /\ Range(j.seen) \subseteq PostIds
      /\ DOMAIN j.seen = 1..Len(j.seen)
      /\ \A i \in DOMAIN j.seen : j.seen[i] \in Range(j.seen)
    BY DEF FeedJob, Range
<1>3. \A p \in Range(j.seen) \cup j.owed :
        author[p] # None /\ author'[p] = author[p] /\ (p \in Existing' => p \in Existing)
    BY <1>1, <1>2 DEF FeedJob
<1>4. j.cursor \in PostIds \cup {None}
    BY DEF FeedJob
<1>5. j.cursor # None => /\ author'[j.cursor] = author[j.cursor] /\ author[j.cursor] # None
                         /\ j.cursor \in Existing' => j.cursor \in Existing
    BY <1>1, <1>4 DEF FeedJob
<1>6. j.cursor \in Existing' => j.cursor \in Existing
    <2>1. None \notin Existing'
        BY NoRowAssumption DEF TablesInv, Existing, Range
    <2> QED BY <1>4, <1>5, <2>1
<1>7. \A i, k \in DOMAIN j.seen :
         i < k /\ {j.seen[i], j.seen[k]} \subseteq Existing'
           => Place(j.seen[k])' < Place(j.seen[i])'
    BY <1>2, <1>3 DEF FeedJob, KeepsOrder
<1>8. j.cursor \in Existing' => \A p \in Range(j.seen) \cap Existing' :
         query # "done" => ~(Place(p)' < Place(j.cursor)')
    BY <1>3, <1>6 DEF FeedJob, KeepsOrder
<1>9. ~j.lost /\ query # "done" /\ j.cursor \in Existing' =>
         \A p \in (j.owed \cap Existing') \ Range(j.seen) : Place(p)' < Place(j.cursor)'
    BY <1>3, <1>6 DEF FeedJob, KeepsOrder
<1>10. /\ query = "page" => \A p \in j.owed : author'[p] \in j.authors
       /\ ~j.lost /\ query = "done" => j.owed \cap Existing' \subseteq Range(j.seen)
    BY <1>3 DEF FeedJob
<1>11. /\ \A p \in Range(j.seen) \cup j.owed : author'[p] # None
       /\ j.cursor # None => author'[j.cursor] # None
    BY <1>3, <1>5
<1> QED BY <1>7, <1>8, <1>9, <1>10, <1>11 DEF FeedJob

Wanted(authors) == {p \in Existing : author[p] \in authors}

LEMMA NewestFirstSorts ==
    ASSUME TablesInv, NEW S, S \subseteq Existing
    PROVE  /\ NewestFirst(S) \in Seq(S) /\ Range(NewestFirst(S)) = S
           /\ \A i, k \in DOMAIN NewestFirst(S) :
                i < k => Place(NewestFirst(S)[k]) < Place(NewestFirst(S)[i])
<1> DEFINE place == [p \in S |-> Place(p)]
           sorted == Descending(S, place)
<1>1. S \in SUBSET Existing /\ IsFiniteSet(Existing)
    BY FiniteRange DEF TablesInv, Existing
<1>2. \A p \in S : Place(p) \in Nat /\ \A q \in S : Place(p) = Place(q) => p = q
    BY PlaceOfPost
<1>3. Keyed(S, place)
    <2>1. IsFiniteSet(S)
        BY <1>1, FS_Subset
    <2>2. \A p \in S : Place(p) \in Int
        BY <1>2
    <2> QED BY <1>2, <2>1, <2>2 DEF Keyed
<1> HIDE DEF place
<1>4. /\ sorted \in Seq(S) /\ Len(sorted) = Cardinality(S) /\ Range(sorted) = S
      /\ \A i, k \in 1..Cardinality(S) : i < k => place[sorted[i]] > place[sorted[k]]
    BY <1>3, DescendingSorts
<1>5. NewestFirst(S) = sorted
    BY DEF NewestFirst, place
<1> HIDE DEF sorted
<1>6. ASSUME NEW i \in DOMAIN sorted, NEW k \in DOMAIN sorted, i < k
      PROVE  Place(sorted[k]) < Place(sorted[i])
    <2>1. i \in 1..Cardinality(S) /\ k \in 1..Cardinality(S)
        BY <1>4
    <2>2. place[sorted[i]] > place[sorted[k]] /\ sorted[i] \in S /\ sorted[k] \in S
        BY <1>4, <1>6, <2>1
    <2>3. place[sorted[i]] = Place(sorted[i]) /\ place[sorted[k]] = Place(sorted[k])
        BY <2>2 DEF place
    <2> QED BY <1>2, <2>2, <2>3
<1> QED BY <1>4, <1>5, <1>6

\* The rows of a page and what follows: newest first, each older than the
\* cursor, and all of those the authors wrote that are.
RowsAreRight(rows, authors, cursor) ==
    /\ rows \in Seq(Existing)
    /\ \A i, k \in DOMAIN rows : i < k => Place(rows[k]) < Place(rows[i])
    /\ cursor = None => Range(rows) = Wanted(authors)
    /\ cursor # None => \A p \in Range(rows) : cursor \in Existing /\ Place(p) < Place(cursor)
    /\ cursor \in Wanted(authors) =>
         Range(rows) = {p \in Wanted(authors) : Place(p) < Place(cursor)}

LEMMA RowsSort ==
    ASSUME TablesInv, NEW authors, NEW cursor \in PostIds \cup {None}
    PROVE  RowsAreRight(Rows(authors, cursor), authors, cursor)
<1> SUFFICES ASSUME NEW rows, rows = Rows(authors, cursor)
             PROVE  RowsAreRight(rows, authors, cursor)
    OBVIOUS
<1> DEFINE upto == {p \in Wanted(authors) : Place(p) <= Place(cursor)}
           from == NewestFirst(upto)
<1>0. None \notin Existing
    BY NoRowAssumption DEF TablesInv, Existing, Range
<1>1. CASE cursor = None
    <2>1. rows = NewestFirst(Wanted(authors))
        BY <1>1 DEF Rows, Wanted
    <2>2. Wanted(authors) \subseteq Existing
        BY DEF Wanted
    <2>3. /\ rows \in Seq(Wanted(authors)) /\ Range(rows) = Wanted(authors)
          /\ \A i, k \in DOMAIN rows : i < k => Place(rows[k]) < Place(rows[i])
        BY <2>1, <2>2, NewestFirstSorts
    <2>4. cursor \notin Wanted(authors)
        BY <1>0, <1>1 DEF Wanted
    <2>5. rows \in Seq(Existing)
        BY <2>2, <2>3
    <2> QED BY <1>1, <2>3, <2>4, <2>5 DEF RowsAreRight
<1>2. CASE cursor # None /\ cursor \notin Existing
    <2>1. rows = << >>
        BY <1>2 DEF Rows
    <2>2. cursor \notin Wanted(authors)
        BY <1>2 DEF Wanted
    <2> QED BY <1>2, <2>1, <2>2 DEF RowsAreRight, Range
<1>3. CASE cursor \in Existing
    <2>1. cursor # None /\ rows = IF from = << >> THEN from ELSE Tail(from)
        BY <1>0, <1>3 DEF Rows, Wanted
    <2>2. upto \subseteq Existing
        BY DEF Wanted
    <2>3. /\ from \in Seq(upto) /\ Range(from) = upto
          /\ \A i, k \in DOMAIN from : i < k => Place(from[k]) < Place(from[i])
        BY <2>2, NewestFirstSorts
    <2>4. /\ Place(cursor) \in Nat
          /\ \A p \in upto : /\ Place(p) \in Nat /\ Place(p) <= Place(cursor)
                             /\ Place(p) = Place(cursor) => p = cursor
        BY <1>3, <2>2, PlaceOfPost
    <2>5. cursor \in Wanted(authors) => cursor \in upto
        BY <2>2, <1>3, PlaceOfPost
    <2> DEFINE older == {p \in Wanted(authors) : Place(p) < Place(cursor)}
    <2>11. upto \subseteq older \cup {cursor}
        BY <2>4
    <2>12. older \subseteq upto /\ cursor \notin older
        <3>1. \A p \in Wanted(authors) : Place(p) \in Nat
            BY PlaceOfPost DEF Wanted
        <3> QED BY <2>4, <3>1
    <2> HIDE DEF from, upto, older
    <2>6. CASE from = << >>
        <3>1. upto = {} /\ rows = << >>
            BY <2>1, <2>3, <2>6 DEF Range
        <3>2. rows \in Seq(Existing) /\ DOMAIN rows = {} /\ Range(rows) = {}
            BY <3>1 DEF Range
        <3>3. cursor \notin Wanted(authors)
            BY <2>5, <3>1
        <3> QED BY <2>1, <3>2, <3>3 DEF RowsAreRight
    <2>7. CASE from # << >>
        <3>1. /\ rows = Tail(from) /\ Len(from) \in Nat \ {0} /\ rows \in Seq(upto)
              /\ DOMAIN from = 1..Len(from)
              /\ Len(rows) = Len(from) - 1 /\ DOMAIN rows = 1..(Len(from) - 1)
              /\ \A i \in DOMAIN rows : rows[i] = from[i + 1] /\ i + 1 \in DOMAIN from
            BY <2>1, <2>3, <2>7
        <3>2. rows \in Seq(Existing)
            BY <2>2, <3>1
        <3>3. \A i, k \in DOMAIN rows : i < k => Place(rows[k]) < Place(rows[i])
            BY <2>3, <3>1
        <3>4. ASSUME NEW p \in Range(rows) PROVE p \in upto /\ Place(p) < Place(cursor)
            <4>1. PICK i \in DOMAIN rows : p = rows[i]
                BY DEF Range
            <4>2. i + 1 \in DOMAIN from /\ 1 \in DOMAIN from /\ 1 < i + 1 /\ p = from[i + 1]
                BY <3>1, <4>1
            <4>3. p \in upto /\ from[1] \in upto /\ Place(p) < Place(from[1])
                BY <2>3, <4>2 DEF Range
            <4> QED BY <2>4, <4>3
        <3>5. ASSUME cursor \in upto, NEW p \in older PROVE p \in Range(rows)
            <4>1. PICK i \in DOMAIN from, c \in DOMAIN from : from[i] = p /\ from[c] = cursor
                BY <2>3, <2>12, <3>5 DEF Range
            <4>2. i # 1
                <5> SUFFICES ASSUME i = 1 PROVE FALSE
                    OBVIOUS
                <5>1. c # 1 /\ 1 < c
                    BY <2>12, <3>1, <4>1, <3>5
                <5>2. Place(cursor) < Place(p)
                    BY <2>3, <4>1, <5>1
                <5> QED BY <2>4, <2>12, <5>2
            <4>3. i - 1 \in DOMAIN rows /\ rows[i - 1] = p
                BY <3>1, <4>1, <4>2
            <4> QED BY <4>3 DEF Range
        <3>6. cursor \in Wanted(authors) => Range(rows) = older
            <4>1. Range(rows) \subseteq older
                BY <2>11, <2>4, <3>4
            <4> QED BY <2>5, <3>5, <4>1
        <3> QED BY <1>3, <2>1, <3>2, <3>3, <3>4, <3>6 DEF RowsAreRight, older
    <2> QED BY <2>6, <2>7
<1> QED BY <1>1, <1>2, <1>3

\* A sequence that goes on with new elements.
Continues(u, s, t, S) ==
    /\ u \in Seq(S) /\ IsInjective(u) /\ Range(u) = Range(s) \cup Range(t)
    /\ DOMAIN u = 1..(Len(s) + Len(t))
    /\ \A i \in 1..(Len(s) + Len(t)) : u[i] = IF i <= Len(s) THEN s[i] ELSE t[i - Len(s)]

LEMMA ConcatAdds ==
    ASSUME NEW S, NEW s \in Seq(S), NEW t \in Seq(S), IsInjective(s), IsInjective(t),
           Range(s) \cap Range(t) = {}
    PROVE  Continues(s \o t, s, t, S)
<1> DEFINE u == s \o t
<1>1. /\ u \in Seq(S) /\ Len(s) \in Nat /\ Len(t) \in Nat
      /\ DOMAIN s = 1..Len(s) /\ DOMAIN t = 1..Len(t) /\ DOMAIN u = 1..(Len(s) + Len(t))
      /\ \A i \in 1..(Len(s) + Len(t)) : u[i] = IF i <= Len(s) THEN s[i] ELSE t[i - Len(s)]
    OBVIOUS
<1> HIDE DEF u
<1>2. /\ \A i \in DOMAIN s : i \in DOMAIN u /\ u[i] = s[i]
      /\ \A i \in DOMAIN t : i + Len(s) \in DOMAIN u /\ u[i + Len(s)] = t[i]
    <2>1. ASSUME NEW i \in DOMAIN s PROVE i \in DOMAIN u /\ u[i] = s[i]
        BY <1>1
    <2>2. ASSUME NEW i \in DOMAIN t PROVE i + Len(s) \in DOMAIN u /\ u[i + Len(s)] = t[i]
        <3>1. /\ i \in Nat /\ i >= 1 /\ i <= Len(t) /\ i + Len(s) \in 1..(Len(s) + Len(t))
              /\ ~(i + Len(s) <= Len(s)) /\ (i + Len(s)) - Len(s) = i
            BY <1>1
        <3> QED BY <1>1, <3>1
    <2> QED BY <2>1, <2>2
<1>3. \A i \in DOMAIN u : \/ i \in DOMAIN s /\ u[i] = s[i]
                          \/ i - Len(s) \in DOMAIN t /\ u[i] = t[i - Len(s)]
    BY <1>1
<1>4. Range(u) = Range(s) \cup Range(t)
    <2>1. Range(u) \subseteq Range(s) \cup Range(t)
        BY <1>3 DEF Range
    <2>2. Range(s) \subseteq Range(u)
        BY <1>2 DEF Range
    <2>3. Range(t) \subseteq Range(u)
        BY <1>2 DEF Range
    <2> QED BY <2>1, <2>2, <2>3
<1>5. ASSUME NEW i \in DOMAIN u, NEW k \in DOMAIN u, u[i] = u[k] PROVE i = k
    <2>1. \A m \in DOMAIN s, n \in DOMAIN t : s[m] # t[n]
        BY DEF Range
    <2>2. CASE i \in DOMAIN s /\ u[i] = s[i] /\ k \in DOMAIN s /\ u[k] = s[k]
        BY <1>5, <2>2 DEF IsInjective
    <2>3. CASE /\ i - Len(s) \in DOMAIN t /\ u[i] = t[i - Len(s)]
               /\ k - Len(s) \in DOMAIN t /\ u[k] = t[k - Len(s)]
        <3>1. i - Len(s) = k - Len(s)
            BY <1>5, <2>3 DEF IsInjective
        <3> QED BY <1>1, <3>1
    <2> QED BY <1>3, <1>5, <2>1, <2>2, <2>3
<1>6. Continues(u, s, t, S)
    BY <1>1, <1>4, <1>5 DEF IsInjective, Continues
<1> QED BY <1>6 DEF u

\* A request of the feed, field by field.
FeedRequest(user, authors, cursor, seen, lost, owed) ==
    [op |-> "feed", user |-> user, authors |-> authors, cursor |-> cursor, seen |-> seen,
     lost |-> lost, owed |-> owed]

Gone(j) == j.cursor # None /\ (j.cursor \notin Existing \/ author[j.cursor] \notin j.authors)

LEMMA BeginningOf ==
    ASSUME NEW S, NEW s \in Seq(S), NEW m \in 0..Len(s)
    PROVE  /\ SubSeq(s, 1, m) \in Seq(S) /\ Len(SubSeq(s, 1, m)) = m
           /\ \A i \in 1..m : SubSeq(s, 1, m)[i] = s[i]
OBVIOUS

\* The page read is new to the reader, and what he is owed is in it or follows.
LEMMA PageReads ==
    ASSUME TablesInv, NEW j, FeedJob("page", j),
           NEW rows, RowsAreRight(rows, j.authors, j.cursor),
           NEW m \in Nat, m = IF Len(rows) > PageSize THEN PageSize ELSE Len(rows),
           NEW page, page = SubSeq(rows, 1, m),
           NEW lost \in BOOLEAN, lost <=> (j.lost \/ Gone(j))
    PROVE  /\ Len(rows) > PageSize =>
                FeedJob("authors", FeedRequest(j.user, j.authors, Last(page), j.seen \o page,
                                               lost, j.owed))
           /\ ~(Len(rows) > PageSize) =>
                FeedJob("done", FeedRequest(j.user, j.authors, j.cursor, j.seen \o page,
                                            lost, j.owed))
<1> DEFINE seen == j.seen \o page
           more == Len(rows) > PageSize
<1> HIDE DEF seen
<1>0. Existing \subseteq PostIds /\ None \notin Existing
    BY NoRowAssumption DEF TablesInv, Existing, Range
<1>1. /\ \A p \in Existing : Place(p) \in Nat /\ author[p] # None
      /\ \A p, q \in Existing : Place(p) = Place(q) => p = q
    BY PlaceOfPost DEF TablesInv
<1>2. /\ j.seen \in Seq(PostIds) /\ IsInjective(j.seen) /\ j.lost \in BOOLEAN
      /\ j.cursor \in PostIds \cup {None} /\ j.owed \subseteq PostIds
      /\ \A p \in Range(j.seen) \cup j.owed : author[p] # None
      /\ j.cursor = None => j.seen = << >>
      /\ j.cursor # None => author[j.cursor] # None
      /\ \A p \in j.owed : author[p] \in j.authors
    BY DEF FeedJob
<1>3. /\ rows \in Seq(Existing) /\ DOMAIN rows = 1..Len(rows) /\ Len(rows) \in Nat
      /\ \A i \in DOMAIN rows : rows[i] \in Existing /\ rows[i] \in Range(rows)
    BY DEF RowsAreRight, Range
<1>4. /\ page \in Seq(Existing) /\ Len(page) = m /\ m <= Len(rows) /\ DOMAIN page = 1..m
      /\ \A i \in DOMAIN page : i \in DOMAIN rows /\ page[i] = rows[i]
    <2>0. PageSize \in Nat /\ Len(rows) \in Nat
        BY <1>3, PageAssumption
    <2>1. m \in 0..Len(rows)
        BY <2>0
    <2>2. /\ page \in Seq(Existing) /\ Len(page) = m
          /\ \A i \in 1..m : page[i] = rows[i]
        BY <1>3, <2>1, BeginningOf
    <2>3. DOMAIN page = 1..m
        BY <2>2
    <2>4. m <= Len(rows) /\ 1..m \subseteq 1..Len(rows)
        BY <2>0, <2>1
    <2>5. \A i \in 1..m : i \in DOMAIN rows
        BY <1>3, <2>4, Zenon
    <2> QED BY <2>2, <2>3, <2>4, <2>5, Zenon
<1>5. \A i, k \in DOMAIN page : i < k => Place(page[k]) < Place(page[i])
    BY <1>4 DEF RowsAreRight
<1>6. IsInjective(page) /\ page \in Seq(PostIds)
    <2>1. ASSUME NEW i \in DOMAIN page, NEW k \in DOMAIN page, page[i] = page[k] PROVE i = k
        <3>1. page[i] \in Existing /\ Place(page[i]) \in Nat /\ Place(page[k]) = Place(page[i])
            BY <1>1, <1>3, <1>4, <2>1
        <3>2. i \in Nat /\ k \in Nat /\ ~(i < k) /\ ~(k < i)
            BY <1>4, <1>5, <3>1
        <3> QED BY <3>2
    <2> QED BY <1>0, <1>4, <2>1 DEF IsInjective
<1>7. /\ \A p \in Range(page) : p \in Existing /\ p \in Range(rows)
      /\ Range(page) \subseteq Existing
    <2>1. ASSUME NEW p \in Range(page) PROVE p \in Existing /\ p \in Range(rows)
        <3>1. PICK i \in DOMAIN page : p = page[i]
            BY DEF Range
        <3> QED BY <1>3, <1>4, <3>1
    <2> QED BY <2>1
\* Every row is older than what the reader saw.
<1>8. ASSUME NEW p \in Range(rows), NEW q \in Range(j.seen) \cap Existing
      PROVE  Place(p) < Place(q)
    <2>1. j.cursor # None
        BY <1>2, <1>8 DEF Range
    <2>2. p \in Existing /\ j.cursor \in Existing /\ Place(p) < Place(j.cursor)
        BY <1>3, <2>1 DEF RowsAreRight, Range
    <2>3. ~(Place(q) < Place(j.cursor))
        BY <2>2 DEF FeedJob
    <2> QED BY <1>1, <2>2, <2>3
<1>9. Range(j.seen) \cap Range(page) = {}
    <2> SUFFICES ASSUME NEW p \in Range(j.seen), p \in Range(page) PROVE FALSE
        OBVIOUS
    <2>1. Place(p) < Place(p) /\ Place(p) \in Nat
        BY <1>1, <1>7, <1>8
    <2> QED BY <2>1
<1>10. /\ seen \in Seq(PostIds) /\ IsInjective(seen) /\ Range(seen) = Range(j.seen) \cup Range(page)
       /\ DOMAIN seen = 1..(Len(j.seen) + m)
       /\ \A i \in DOMAIN seen : seen[i] = IF i <= Len(j.seen) THEN j.seen[i]
                                                             ELSE page[i - Len(j.seen)]
    <2>1. PICK s, t : s = j.seen /\ t = page
        OBVIOUS
    <2>2. /\ s \in Seq(PostIds) /\ IsInjective(s) /\ t \in Seq(PostIds) /\ IsInjective(t)
          /\ Range(s) \cap Range(t) = {} /\ Len(t) = m
        BY <1>2, <1>4, <1>6, <1>9, <2>1
    <2>3. Continues(s \o t, s, t, PostIds)
        BY <2>2, ConcatAdds
    <2>4. seen = s \o t
        BY <2>1 DEF seen
    <2>5. Continues(seen, s, t, PostIds)
        BY <2>3, <2>4
    <2> QED BY <2>1, <2>2, <2>5 DEF Continues
<1>11. Len(j.seen) \in Nat /\ DOMAIN j.seen = 1..Len(j.seen)
    BY <1>2
<1>17. ASSUME NEW i \in DOMAIN seen
       PROVE  /\ i \in Nat
              /\ i <= Len(j.seen) => i \in DOMAIN j.seen /\ seen[i] = j.seen[i]
              /\ ~(i <= Len(j.seen)) => /\ i - Len(j.seen) \in DOMAIN page
                                       /\ seen[i] = page[i - Len(j.seen)]
    <2>0. PICK n \in Nat : n = Len(j.seen)
        BY <1>11
    <2>1. i \in 1..(n + m)
        BY <1>10, <1>17, <2>0
    <2>2. i \in Nat /\ i >= 1 /\ i <= n + m
        BY <2>1
    <2>3. i <= n => i \in 1..n
        BY <2>2
    <2>4. ~(i <= n) => i - n \in 1..m
        BY <2>2
    <2>5. seen[i] = IF i <= n THEN j.seen[i] ELSE page[i - n]
        BY <1>10, <1>17, <2>0
    <2>6. DOMAIN j.seen = 1..n /\ DOMAIN page = 1..m
        BY <1>4, <1>11, <2>0
    <2> QED BY <2>0, <2>2, <2>3, <2>4, <2>5, <2>6
<1>12. ASSUME NEW i \in DOMAIN seen, NEW k \in DOMAIN seen, i < k,
              {seen[i], seen[k]} \subseteq Existing
       PROVE  Place(seen[k]) < Place(seen[i])
    <2>0. i \in Nat /\ k \in Nat /\ Len(j.seen) \in Nat
        BY <1>11, <1>17
    <2>1. CASE k <= Len(j.seen)
        <3>1. i <= Len(j.seen)
            BY <1>12, <2>0, <2>1
        <3>2. i \in DOMAIN j.seen /\ k \in DOMAIN j.seen /\ seen[i] = j.seen[i] /\ seen[k] = j.seen[k]
            BY <1>17, <2>1, <3>1
        <3> QED BY <1>12, <3>2 DEF FeedJob
    <2>2. CASE i <= Len(j.seen) /\ ~(k <= Len(j.seen))
        <3>1. /\ i \in DOMAIN j.seen /\ k - Len(j.seen) \in DOMAIN page
              /\ seen[i] = j.seen[i] /\ seen[k] = page[k - Len(j.seen)]
            BY <1>17, <2>2
        <3>2. seen[i] \in Range(j.seen) /\ seen[k] \in Range(page)
            BY <3>1 DEF Range
        <3> QED BY <1>7, <1>8, <1>12, <3>2
    <2>3. CASE ~(i <= Len(j.seen))
        <3>1. ~(k <= Len(j.seen)) /\ i - Len(j.seen) < k - Len(j.seen)
            BY <1>12, <2>0, <2>3
        <3>2. /\ i - Len(j.seen) \in DOMAIN page /\ k - Len(j.seen) \in DOMAIN page
              /\ seen[i] = page[i - Len(j.seen)] /\ seen[k] = page[k - Len(j.seen)]
            BY <1>17, <2>3, <3>1
        <3> QED BY <1>5, <3>1, <3>2
    <2> QED BY <2>1, <2>2, <2>3
\* What he is owed and did not see comes in the rows.
<1>13. ASSUME ~lost, NEW p \in (j.owed \cap Existing) \ Range(j.seen) PROVE p \in Range(rows)
    <2>1. ~j.lost /\ ~Gone(j) /\ p \in Wanted(j.authors)
        BY <1>2, <1>13 DEF Wanted
    <2>2. CASE j.cursor = None
        BY <2>1, <2>2 DEF RowsAreRight
    <2>3. CASE j.cursor # None
        <3>1. j.cursor \in Wanted(j.authors) /\ j.cursor \in Existing
            BY <2>1, <2>3 DEF Gone, Wanted
        <3>2. Place(p) < Place(j.cursor)
            BY <2>1, <3>1 DEF FeedJob
        <3> QED BY <2>1, <3>1, <3>2 DEF RowsAreRight
    <2> QED BY <2>2, <2>3
<1>14. \A p \in Range(seen) \cup j.owed : author[p] # None
    BY <1>1, <1>2, <1>7, <1>10
<1>15. ASSUME ~more
       PROVE  FeedJob("done", FeedRequest(j.user, j.authors, j.cursor, seen, lost, j.owed))
    <2> DEFINE r == FeedRequest(j.user, j.authors, j.cursor, seen, lost, j.owed)
    <2>1. /\ r = FeedRequest(r.user, r.authors, r.cursor, r.seen, r.lost, r.owed)
          /\ r.cursor = j.cursor /\ r.seen = seen /\ r.lost = lost /\ r.owed = j.owed
          /\ r.authors = j.authors
        BY DEF FeedRequest
    <2>2. Range(rows) \subseteq Range(page)
        <3>1. m = Len(rows)
            BY <1>15
        <3> QED BY <1>3, <1>4, <3>1 DEF Range
    <2>3. ~lost => j.owed \cap Existing \subseteq Range(seen)
        BY <1>10, <1>13, <2>2
    <2> HIDE DEF r
    <2> SUFFICES FeedJob("done", r)
        BY DEF r
    <2> QED BY <1>2, <1>10, <1>12, <1>14, <2>1, <2>3 DEF FeedJob, FeedRequest
<1>16. ASSUME more
       PROVE  FeedJob("authors", FeedRequest(j.user, j.authors, Last(page), seen, lost, j.owed))
    <2> DEFINE c == Last(page)
               r == FeedRequest(j.user, j.authors, c, seen, lost, j.owed)
    <2>1. /\ r = FeedRequest(r.user, r.authors, r.cursor, r.seen, r.lost, r.owed)
          /\ r.cursor = c /\ r.seen = seen /\ r.lost = lost /\ r.owed = j.owed
          /\ r.authors = j.authors
        BY DEF FeedRequest
    <2>2. m \in DOMAIN page /\ c = page[m] /\ c = rows[m] /\ m \in DOMAIN rows
        BY <1>4, <1>16, PageAssumption DEF Last
    <2> HIDE DEF r, c
    <2>3. c \in Existing /\ c \in PostIds /\ c # None /\ author[c] # None /\ c \in Range(rows)
        BY <1>0, <1>1, <1>3, <2>2
    <2>4. ASSUME NEW p \in Range(seen) \cap Existing PROVE ~(Place(p) < Place(c))
        <3>1. CASE p \in Range(j.seen)
            BY <1>1, <1>8, <2>3, <2>4, <3>1
        <3>2. CASE p \in Range(page)
            <4>1. PICK i \in DOMAIN page : p = page[i]
                BY <3>2 DEF Range
            <4>2. i = m \/ i < m
                BY <1>4, <4>1
            <4>3. i = m \/ Place(c) < Place(p)
                BY <1>5, <2>2, <4>1, <4>2
            <4>4. p = c \/ Place(c) < Place(p)
                BY <2>2, <4>1, <4>3
            <4> QED BY <1>1, <2>3, <2>4, <4>4
        <3> QED BY <1>10, <2>4, <3>1, <3>2
    <2>5. ASSUME ~lost, NEW p \in (j.owed \cap Existing) \ Range(seen) PROVE Place(p) < Place(c)
        <3>1. p \in Range(rows) /\ p \notin Range(page)
            BY <1>10, <1>13, <2>5
        <3>2. PICK i \in DOMAIN rows : p = rows[i]
            BY <3>1 DEF Range
        <3>3. i \notin DOMAIN page
            BY <1>4, <3>1, <3>2 DEF Range
        <3>4. m < i
            <4>1. i \in 1..Len(rows) /\ i \notin 1..m /\ Len(rows) \in Nat
                <5>1. DOMAIN page = 1..m /\ DOMAIN rows = 1..Len(rows)
                    BY <1>3, <1>4
                <5> QED BY <1>3, <3>2, <3>3, <5>1
            <4> QED BY <4>1
        <3> QED BY <2>2, <3>2, <3>4 DEF RowsAreRight
    <2> SUFFICES FeedJob("authors", r)
        BY DEF r, c
    <2> QED BY <1>2, <1>10, <1>12, <1>14, <2>1, <2>3, <2>4, <2>5 DEF FeedJob, FeedRequest
<1> QED BY <1>15, <1>16 DEF seen

LEMMA FeedStart == HandlersInit /\ PostsInit => FeedInv
BY DEF HandlersInit, FeedInv

\* A step of one handler, that keeps the order of the posts.
LEMMA GoesKeepsFeed ==
    ASSUME PostsInv, TablesInv', FeedInv, KeepsOrder, NEW h \in Handlers,
           NEW query \in PostQueries, NEW j, NEW answer, Goes(h, query, j, answer),
           answer # None => query = "done", j.op = "feed" => FeedJob(query, j)
    PROVE  FeedInv'
<1> SUFFICES ASSUME NEW g \in Handlers, job'[g].op = "feed" PROVE FeedJob(pc[g], job[g])'
    BY DEF FeedInv
<1>1. /\ pc'[h] = query /\ job'[h] = j
      /\ g # h => pc'[g] = pc[g] /\ job'[g] = job[g]
    BY OneGoes DEF PostsInv
<1>2. PICK q, k : q = pc'[g] /\ k = job'[g]
    OBVIOUS
<1>3. FeedJob(q, k)
    BY <1>1, <1>2 DEF FeedInv
<1>4. FeedJob(q, k)'
    BY <1>3, FeedStays DEF PostsInv
<1> QED BY <1>2, <1>4 DEF FeedJob

LEMMA QuietKeepsOrder ==
    ASSUME PostsInv, UNCHANGED <<timeline, author>> PROVE KeepsOrder
<1>1. Existing' = Existing /\ \A p \in Existing : Place(p)' = Place(p)
    BY DEF Existing, Place
<1> QED BY <1>1 DEF KeepsOrder

\* A step of another request.
LEMMA OtherKeepsFeed ==
    ASSUME PostsInv, TablesInv', FeedInv, KeepsOrder, NEW h \in Handlers, Live(h) \/ pc[h] = "idle",
           \/ End(h)
           \/ \E query \in PostQueries : \E j : Begin(h, query, j) /\ j.op # "feed"
           \/ job[h].op # "feed" /\ \E query \in PostQueries : Await(h, query)
           \/ job[h].op # "feed" /\ \E what : Answer(h, what)
    PROVE  FeedInv'
<1>1. ans[h] = None /\ job = [job EXCEPT ![h] = job[h]] /\ ans = [ans EXCEPT ![h] = ans[h]]
    BY DEF PostsInv, RequestsShape, Live
<1>2. \E query, j, answer :
         /\ query \in PostQueries /\ Goes(h, query, j, answer) /\ j.op # "feed"
         /\ answer # None => query = "done"
    <2>1. CASE End(h)
        <3>1. Goes(h, "done", [op |-> "none"], None)
            BY <1>1, <2>1 DEF End, Goes
        <3> QED BY <3>1 DEF PostQueries
    <2>2. CASE \E query \in PostQueries : \E j : Begin(h, query, j) /\ j.op # "feed"
        <3>1. PICK query, j : query \in PostQueries /\ Begin(h, query, j) /\ j.op # "feed"
            BY <2>2
        <3>2. Goes(h, query, j, None)
            BY <1>1, <3>1 DEF Begin, Goes
        <3> QED BY <3>1, <3>2
    <2>3. CASE job[h].op # "feed" /\ \E query \in PostQueries : Await(h, query)
        <3>1. PICK query \in PostQueries : Await(h, query)
            BY <2>3
        <3>2. Goes(h, query, job[h], None)
            BY <1>1, <3>1 DEF Await, Goes
        <3> QED BY <2>3, <3>2
    <2>4. CASE job[h].op # "feed" /\ \E what : Answer(h, what)
        <3>1. PICK what : Answer(h, what)
            BY <2>4
        <3>2. Goes(h, "done", job[h], [what |-> what, at |-> pc[h]])
            BY <3>1 DEF Answer, AnswerWith, Goes
        <3> QED BY <2>4, <3>2 DEF PostQueries
    <2> QED BY <2>1, <2>2, <2>3, <2>4
<1>3. PICK query, j, answer :
         /\ query \in PostQueries /\ Goes(h, query, j, answer) /\ j.op # "feed"
         /\ answer # None => query = "done"
    BY <1>2
<1> QED BY <1>3, GoesKeepsFeed

LEMMA FeedBeginsKeeps ==
    ASSUME PostsInv, TablesInv', FeedInv, NEW h \in Handlers, NEW u, FeedBegins(h, u)
    PROVE  FeedInv'
<1>1. KeepsOrder
    BY QuietKeepsOrder DEF FeedBegins, postsVars
<1>2. PICK j : j = FeedRequest(u, {}, None, << >>, FALSE, Existing)
    OBVIOUS
<1>3. Goes(h, "authors", j, None)
    BY <1>2 DEF FeedBegins, FeedRequest, Begin, Goes, PostsInv, RequestsShape
<1>4. FeedJob("authors", j)
    <2>1. /\ j = FeedRequest(j.user, j.authors, j.cursor, j.seen, j.lost, j.owed)
          /\ j.cursor = None /\ j.seen = << >> /\ j.lost = FALSE /\ j.owed = Existing
        BY <1>2 DEF FeedRequest
    <2>2. Existing \subseteq PostIds /\ None \notin Existing /\ \A p \in Existing : author[p] # None
        BY NoRowAssumption DEF PostsInv, TablesInv, Existing, Range
    <2>3. /\ j.seen \in Seq(PostIds) /\ DOMAIN j.seen = {} /\ Range(j.seen) = {}
          /\ IsInjective(j.seen)
        BY <2>1 DEF Range, IsInjective
    <2> QED BY <2>1, <2>2, <2>3 DEF FeedJob, FeedRequest
<1> QED BY <1>1, <1>3, <1>4, GoesKeepsFeed DEF PostQueries

\* The only request with these values: records are equal by their fields.
OneRequest(user, authors, cursor, seen, lost, owed) ==
    [op : {"feed"}, user : {user}, authors : {authors}, cursor : {cursor}, seen : {seen},
     lost : {lost}, owed : {owed}]

LEMMA OneRequestIs ==
    ASSUME NEW user, NEW authors, NEW cursor, NEW seen, NEW lost, NEW owed,
           NEW j \in OneRequest(user, authors, cursor, seen, lost, owed)
    PROVE  j = FeedRequest(user, authors, cursor, seen, lost, owed)
<1>1. FeedRequest(user, authors, cursor, seen, lost, owed)
        \in OneRequest(user, authors, cursor, seen, lost, owed)
    BY DEF FeedRequest, OneRequest
<1> QED BY <1>1 DEF OneRequest

LEMMA FeedFriendsKeeps ==
    ASSUME PostsInv, TablesInv', FeedInv, NEW h \in Handlers, FeedFriends(h) PROVE FeedInv'
<1>1. KeepsOrder
    BY QuietKeepsOrder DEF FeedFriends, postsVars
<1>2. PICK j : j = job[h]
    OBVIOUS
<1>3. j.op = "feed" /\ FeedJob("authors", j) /\ pc[h] = "authors"
    BY <1>2 DEF FeedFriends, At, FeedInv
<1>4. PICK authors, owed :
        /\ owed = {p \in j.owed : author[p] \in authors}
        /\ AwaitWith(h, "page", [j EXCEPT !.authors = authors, !.owed = owed])
    BY <1>2 DEF FeedFriends
<1>5. j = FeedRequest(j.user, j.authors, j.cursor, j.seen, j.lost, j.owed)
    BY <1>3 DEF FeedJob, FeedRequest
<1>6. PICK k : k = FeedRequest(j.user, authors, j.cursor, j.seen, j.lost, owed)
    OBVIOUS
<1>7. [j EXCEPT !.authors = authors, !.owed = owed] = k
    <2>1. PICK user, old, cursor, seen, lost, had :
            /\ user = j.user /\ old = j.authors /\ cursor = j.cursor /\ seen = j.seen
            /\ lost = j.lost /\ had = j.owed
        OBVIOUS
    <2>2. j \in OneRequest(user, old, cursor, seen, lost, had)
        BY <1>5, <2>1 DEF FeedRequest, OneRequest
    <2>3. [j EXCEPT !.authors = authors, !.owed = owed]
            \in OneRequest(user, authors, cursor, seen, lost, owed)
        BY <2>2 DEF OneRequest
    <2> QED BY <1>6, <2>1, <2>3, OneRequestIs
<1>8. Goes(h, "page", k, None)
    BY <1>2, <1>3, <1>4, <1>7 DEF AwaitWith, Goes, PostsInv, RequestsShape
<1>9. FeedJob("page", k)
    <2>1. /\ k = FeedRequest(k.user, k.authors, k.cursor, k.seen, k.lost, k.owed)
          /\ k.authors = authors /\ k.cursor = j.cursor /\ k.seen = j.seen /\ k.lost = j.lost
          /\ k.owed = owed
        BY <1>6 DEF FeedRequest
    <2>2. owed \subseteq j.owed /\ \A p \in owed : author[p] \in authors
        BY <1>4
    <2> QED BY <1>3, <2>1, <2>2 DEF FeedJob, FeedRequest
<1> QED BY <1>1, <1>8, <1>9, GoesKeepsFeed DEF PostQueries

LEMMA FeedPageKeeps ==
    ASSUME PostsInv, TablesInv', FeedInv, NEW h \in Handlers, FeedPage(h) PROVE FeedInv'
<1>1. KeepsOrder
    BY QuietKeepsOrder DEF FeedPage, postsVars
<1>2. PICK j : j = job[h]
    OBVIOUS
<1>3. j.op = "feed" /\ FeedJob("page", j) /\ pc[h] = "page"
    BY <1>2 DEF FeedPage, At, FeedInv
<1>4. PICK rows : rows = Rows(j.authors, j.cursor)
    OBVIOUS
<1>5. RowsAreRight(rows, j.authors, j.cursor)
    BY <1>3, <1>4, RowsSort DEF PostsInv, FeedJob
<1>6. PICK m : m = IF Len(rows) > PageSize THEN PageSize ELSE Len(rows)
    OBVIOUS
<1>7. m \in Nat
    <2>1. PageSize \in Nat /\ Len(rows) \in Nat
        BY <1>5, PageAssumption DEF RowsAreRight
    <2> QED BY <1>6, <2>1
<1>8. PICK page : page = SubSeq(rows, 1, m)
    OBVIOUS
<1>9. PICK lost \in BOOLEAN : lost = (j.lost \/ Gone(j))
    OBVIOUS
<1>10. PICK seen : seen = j.seen \o page
    OBVIOUS
<1>11. /\ Len(rows) > PageSize =>
            FeedJob("authors", FeedRequest(j.user, j.authors, Last(page), seen, lost, j.owed))
       /\ ~(Len(rows) > PageSize) =>
            FeedJob("done", FeedRequest(j.user, j.authors, j.cursor, seen, lost, j.owed))
    BY <1>3, <1>5, <1>6, <1>7, <1>8, <1>9, <1>10, PageReads DEF PostsInv
<1>12. PICK read : read = [j EXCEPT !.seen = seen, !.lost = lost]
    OBVIOUS
<1>13. IF Len(rows) > PageSize
       THEN AwaitWith(h, "authors", [read EXCEPT !.cursor = Last(page)])
       ELSE AnswerWith(h, "end", read)
    BY <1>2, <1>4, <1>6, <1>8, <1>9, <1>10, <1>12 DEF FeedPage, Gone
<1>14. j = FeedRequest(j.user, j.authors, j.cursor, j.seen, j.lost, j.owed)
    BY <1>3 DEF FeedJob, FeedRequest
<1>15. /\ read = FeedRequest(j.user, j.authors, j.cursor, seen, lost, j.owed)
       /\ [read EXCEPT !.cursor = Last(page)]
            = FeedRequest(j.user, j.authors, Last(page), seen, lost, j.owed)
    <2>1. PICK user, authors, cursor, old, was, owed :
            /\ user = j.user /\ authors = j.authors /\ cursor = j.cursor /\ old = j.seen
            /\ was = j.lost /\ owed = j.owed
        OBVIOUS
    <2>2. j \in OneRequest(user, authors, cursor, old, was, owed)
        BY <1>14, <2>1 DEF FeedRequest, OneRequest
    <2>3. read \in OneRequest(user, authors, cursor, seen, lost, owed)
        BY <1>12, <2>2 DEF OneRequest
    <2>4. PICK last : last = Last(page)
        OBVIOUS
    <2>5. [read EXCEPT !.cursor = last] \in OneRequest(user, authors, last, seen, lost, owed)
        BY <2>3 DEF OneRequest
    <2> QED BY <2>1, <2>3, <2>4, <2>5, OneRequestIs
<1>16. CASE Len(rows) > PageSize
    <2>1. PICK k : k = FeedRequest(j.user, j.authors, Last(page), seen, lost, j.owed)
        OBVIOUS
    <2>2. Goes(h, "authors", k, None)
        BY <1>3, <1>13, <1>15, <1>16, <2>1 DEF AwaitWith, Goes, PostsInv, RequestsShape
    <2>3. FeedJob("authors", k)
        BY <1>11, <1>16, <2>1
    <2> QED BY <1>1, <2>2, <2>3, GoesKeepsFeed DEF PostQueries
<1>17. CASE ~(Len(rows) > PageSize)
    <2>1. PICK k : k = FeedRequest(j.user, j.authors, j.cursor, seen, lost, j.owed)
        OBVIOUS
    <2>2. Goes(h, "done", k, [what |-> "end", at |-> pc[h]])
        BY <1>13, <1>15, <1>17, <2>1 DEF AnswerWith, Goes
    <2>3. FeedJob("done", k)
        BY <1>11, <1>17, <2>1
    <2> QED BY <1>1, <2>2, <2>3, GoesKeepsFeed DEF PostQueries
<1> QED BY <1>16, <1>17

LEMMA InsertKeepsFeed ==
    ASSUME PostsInv, TablesInv', FeedInv, NEW h \in Handlers, NEW p \in PostIds, InsertPost(h, p)
    PROVE  FeedInv'
<1>1. PICK j : j = [job[h] EXCEPT !.post = p]
    OBVIOUS
<1>2. Goes(h, "count", j, None) /\ j.op # "feed"
    <2>1. job[h].op = "create" /\ job[h] \in [op : {"create"}, user : Users, post : PostIds \cup {None}]
        BY DEF InsertPost, At, PostsInv, PostJob
    <2>2. j.op = "create"
        BY <1>1, <2>1
    <2> QED BY <1>1, <2>2 DEF InsertPost, AwaitWith, Goes, At, PostsInv, RequestsShape
<1>3. p \notin Existing
    BY DEF InsertPost, PostsInv, TablesInv
<1>4. timeline' = Append(timeline, p) /\ Existing' = Existing \cup {p}
    BY <1>3, AppendAdds DEF InsertPost, PostsInv, TablesInv, Existing
<1>5. author[p] = None /\ \A q \in PostIds \ {p} : author'[q] = author[q]
    BY DEF InsertPost, PostsInv, TablesInv
<1>6. KeepsOrder
    BY <1>4, <1>5, AppendKeepsOrder DEF PostsInv
<1> QED BY <1>2, <1>6, GoesKeepsFeed DEF PostQueries

LEMMA DeleteKeepsFeed ==
    ASSUME PostsInv, TablesInv', FeedInv, NEW h \in Handlers, DeletePost(h) PROVE FeedInv'
<1>1. job[h].op # "feed" /\ Live(h) /\ UNCHANGED <<author, postCount>>
    BY DEF DeletePost, At, Live
<1>2. CASE job[h].post \in Existing
    <2>1. PICK p \in Existing : p = job[h].post
        BY <1>2
    <2>2. Cascade(p) /\ Await(h, "count")
        BY <1>2, <2>1 DEF DeletePost
    <2>3. KeepsOrder
        BY <1>1, <2>2, CascadeKeepsOrder
    <2> QED BY <1>1, <2>2, <2>3, OtherKeepsFeed DEF PostQueries
<1>3. CASE job[h].post \notin Existing
    BY <1>1, <1>3, QuietKeepsOrder, OtherKeepsFeed DEF DeletePost
<1> QED BY <1>2, <1>3

LEMMA FeedStep ==
    PostsInv /\ FeedInv /\ PostsInv' /\ [PostsNext]_<<handlerVars, postsVars>> => FeedInv'
<1> SUFFICES ASSUME PostsInv, FeedInv, PostsInv', [PostsNext]_<<handlerVars, postsVars>>
             PROVE  FeedInv'
    OBVIOUS
<1>0. TablesInv'
    BY DEF PostsInv
<1>1. CASE UNCHANGED <<handlerVars, timeline, author>>
    <2>1. KeepsOrder
        BY <1>1, QuietKeepsOrder
    <2> SUFFICES ASSUME NEW g \in Handlers, job'[g].op = "feed" PROVE FeedJob(pc[g], job[g])'
        BY DEF FeedInv
    <2>2. PICK q, k : q = pc[g] /\ k = job[g]
        OBVIOUS
    <2>3. q = pc'[g] /\ k = job'[g]
        BY <1>1, <2>2 DEF handlerVars
    <2>4. FeedJob(q, k)'
        BY <1>0, <2>1, <2>2, <2>3, FeedStays DEF FeedInv, PostsInv
    <2> QED BY <2>3, <2>4 DEF FeedJob
<1>2. ASSUME NEW h \in Handlers, UNCHANGED <<timeline, author>>, Live(h) \/ pc[h] = "idle",
             \/ End(h)
             \/ \E query \in PostQueries : \E j : Begin(h, query, j) /\ j.op # "feed"
             \/ job[h].op # "feed" /\ \E query \in PostQueries : Await(h, query)
             \/ job[h].op # "feed" /\ \E what : Answer(h, what)
      PROVE  FeedInv'
    BY <1>0, <1>2, QuietKeepsOrder, OtherKeepsFeed
<1>3. CASE UNCHANGED <<handlerVars, postsVars>>
    BY <1>1, <1>3 DEF postsVars
<1>4. ASSUME NEW h \in Handlers, NEW u \in Users, MarkRead(u, h) PROVE FeedInv'
    BY <1>1, <1>4 DEF MarkRead
<1>5. ASSUME NEW u \in Users, MarkAllRead(u) PROVE FeedInv'
    BY <1>1, <1>5 DEF MarkAllRead
<1>6. ASSUME NEW u, NEW U, SetFriends(u, U) PROVE FeedInv'
    BY <1>1, <1>6 DEF SetFriends
<1>7. ASSUME NEW h \in Handlers, NEW u, CreateBegins(h, u) PROVE FeedInv'
    <2>1. Begin(h, "insert", [op |-> "create", user |-> u, post |-> None]) /\ pc[h] = "idle"
        BY <1>7 DEF CreateBegins, Begin
    <2> QED BY <1>2, <1>7, <2>1 DEF CreateBegins, postsVars, PostQueries
<1>8. ASSUME NEW h \in Handlers, NEW u, NEW p, DeleteBegins(h, u, p) \/ ToggleBegins(h, u, p)
      PROVE  FeedInv'
    <2>1. PICK op \in {"delete", "toggle"} :
            Begin(h, "post", [op |-> op, user |-> u, post |-> p])
        BY <1>8 DEF DeleteBegins, ToggleBegins
    <2>2. pc[h] = "idle" /\ UNCHANGED <<timeline, author>>
        BY <1>8, <2>1 DEF DeleteBegins, ToggleBegins, Begin, postsVars
    <2> QED BY <1>2, <2>1, <2>2 DEF PostQueries
<1>9. ASSUME NEW h \in Handlers, NEW u, NEW p, NEW c, CommentBegins(h, u, p, c) PROVE FeedInv'
    <2>1. Begin(h, "post", [op |-> "comment", user |-> u, post |-> p, parent |-> c])
        BY <1>9 DEF CommentBegins
    <2>2. pc[h] = "idle" /\ UNCHANGED <<timeline, author>>
        BY <1>9, <2>1 DEF CommentBegins, Begin, postsVars
    <2> QED BY <1>2, <2>1, <2>2 DEF PostQueries
<1>10. ASSUME NEW h \in Handlers, NEW u, FeedBegins(h, u) PROVE FeedInv'
    BY <1>0, <1>10, FeedBeginsKeeps
<1>11. ASSUME NEW h \in Handlers, NEW p \in PostIds, InsertPost(h, p) PROVE FeedInv'
    BY <1>0, <1>11, InsertKeepsFeed
<1>12. ASSUME NEW h \in Handlers, DeletePost(h) PROVE FeedInv'
    BY <1>0, <1>12, DeleteKeepsFeed
<1>13. ASSUME NEW h \in Handlers, FeedFriends(h) \/ FeedPage(h) PROVE FeedInv'
    BY <1>0, <1>13, FeedFriendsKeeps, FeedPageKeeps
<1>14. ASSUME NEW h \in Handlers, NEW c \in CommentIds, InsertComment(h, c) PROVE FeedInv'
    <2>1. UNCHANGED <<timeline, author>> /\ job[h].op # "feed" /\ Live(h)
        BY <1>14 DEF InsertComment, At, Live
    <2>2. End(h) \/ Await(h, "notify")
        BY <1>14 DEF InsertComment
    <2> QED BY <1>2, <2>1, <2>2 DEF PostQueries
<1>15. ASSUME NEW h \in Handlers, CountPost(h) PROVE FeedInv'
    BY <1>2, <1>15 DEF CountPost, Live
<1>16. ASSUME NEW h \in Handlers, RemoveReaction(h) \/ AddReaction(h) PROVE FeedInv'
    <2>1. UNCHANGED <<timeline, author>> /\ job[h].op # "feed" /\ Live(h)
        BY <1>16 DEF RemoveReaction, AddReaction, At, Live
    <2>2. End(h) \/ Await(h, "notify") \/ Answer(h, "removed")
        BY <1>16 DEF RemoveReaction, AddReaction
    <2> QED BY <1>2, <2>1, <2>2 DEF PostQueries
<1>17. ASSUME NEW h \in Handlers,
              \/ FindOwnPost(h) \/ FindPostToReact(h) \/ FindPostToComment(h)
              \/ FindReaction(h) \/ FindParent(h)
       PROVE  FeedInv'
    <2>1. UNCHANGED <<timeline, author>> /\ job[h].op # "feed" /\ Live(h)
        BY <1>17 DEF FindOwnPost, FindPostToReact, FindPostToComment, FindReaction, FindParent,
                     FindPost, At, Live, postsVars
    <2>2. End(h) \/ \E query \in PostQueries : Await(h, query)
        BY <1>17 DEF FindOwnPost, FindPostToReact, FindPostToComment, FindReaction, FindParent,
                     FindPost, PostQueries
    <2> QED BY <1>2, <2>1, <2>2
<1>18. ASSUME NEW h \in Handlers, NotifyAuthor(h) PROVE FeedInv'
    <2>1. UNCHANGED <<timeline, author>> /\ job[h].op # "feed" /\ Live(h)
        BY <1>18 DEF NotifyAuthor, Live, PostsInv, PostJob
    <2>2. End(h) \/ Answer(h, "added")
        BY <1>18 DEF NotifyAuthor
    <2> QED BY <1>2, <2>1, <2>2
<1>19. ASSUME NEW h \in Handlers, QueryFails(h, {"count", "notify"}), UNCHANGED postsVars
       PROVE  FeedInv'
    <2>1. UNCHANGED <<timeline, author>> /\ Live(h)
        BY <1>19 DEF QueryFails, postsVars
    <2>2. End(h) \/ (job[h].op # "feed" /\ Answer(h, "error"))
        BY <1>19 DEF QueryFails, PostsInv, PostJob
    <2> QED BY <1>2, <2>1, <2>2
<1> QED BY <1>3, <1>4, <1>5, <1>6, <1>7, <1>8, <1>9, <1>10, <1>11, <1>12, <1>13, <1>14,
           <1>15, <1>16, <1>17, <1>18, <1>19 DEF PostsNext

LEMMA FeedMeans == PostsInv /\ FeedInv => FeedIsFaithful
<1> SUFFICES ASSUME PostsInv, FeedInv, NEW h \in Handlers, job[h].op = "feed"
             PROVE  /\ IsInjective(job[h].seen)
                    /\ \A i, k \in DOMAIN job[h].seen :
                         i < k /\ {job[h].seen[i], job[h].seen[k]} \subseteq Existing
                           => Place(job[h].seen[i]) > Place(job[h].seen[k])
                    /\ Answered(h, "end") /\ ~job[h].lost
                         => job[h].owed \cap Existing \subseteq Range(job[h].seen)
    BY DEF FeedIsFaithful
<1>1. FeedJob(pc[h], job[h])
    BY DEF FeedInv
<1>2. Answered(h, "end") => pc[h] = "done"
    BY DEF Answered, PostsInv, RequestsShape
<1>3. \A p \in Existing : Place(p) \in Nat
    BY PlaceOfPost DEF PostsInv
<1> QED BY <1>1, <1>2, <1>3 DEF FeedJob

(* For every number of users, posts, handlers and every size of a page:    *)
(* whatever is posted, deleted or unfriended between two pages, a reader   *)
(* who follows nextCursor sees the posts newest first, none of them twice, *)
(* and at the end has seen all that were there the whole time; unless the  *)
(* post his cursor names went (findFeed of post.repository.ts).            *)
THEOREM FeedsAreFaithful == PostsSpec => []FeedIsFaithful
<1> QED BY PostsStart, PostsStep, FeedStart, FeedStep, FeedMeans, PTL DEF PostsSpec

-----------------------------------------------------------------------------
(* Streaks.                                                                *)

\* A finite set of numbers has a least and a greatest.
LEMMA LeastExists ==
    ASSUME NEW S, IsFiniteSet(S), S # {}, \A x \in S : x \in Int
    PROVE  \E m \in S : \A x \in S : m <= x
<1> DEFINE key == [x \in S |-> -x]
           sorted == Descending(S, key)
<1>1. Keyed(S, key)
    BY DEF Keyed
<1>2. /\ sorted \in Seq(S) /\ Len(sorted) = Cardinality(S) /\ Cardinality(S) \in Nat
      /\ Range(sorted) = S
      /\ \A i, k \in 1..Cardinality(S) : i < k => key[sorted[i]] > key[sorted[k]]
    <2> HIDE DEF key
    <2> QED BY <1>1, DescendingSorts
<1>3. Cardinality(S) # 0
    BY FS_EmptySet
<1> HIDE DEF sorted
<1>4. 1 \in 1..Cardinality(S) /\ DOMAIN sorted = 1..Cardinality(S) /\ sorted[1] \in S
    BY <1>2, <1>3
<1>5. ASSUME NEW x \in S PROVE sorted[1] <= x
    <2>1. PICK k \in 1..Cardinality(S) : x = sorted[k]
        BY <1>2, <1>4 DEF Range
    <2>2. k = 1 \/ 1 < k
        BY <2>1
    <2>3. CASE 1 < k
        <3>1. key[sorted[1]] > key[x]
            BY <1>2, <1>4, <2>1, <2>3
        <3>2. -sorted[1] > -x
            BY <1>4, <3>1
        <3> QED BY <1>4, <3>2
    <2> QED BY <1>4, <2>1, <2>2, <2>3
<1> QED BY <1>4, <1>5

LEMMA GreatestExists ==
    ASSUME NEW S, IsFiniteSet(S), S # {}, \A x \in S : x \in Int
    PROVE  \E m \in S : \A x \in S : x <= m
<1> DEFINE key == [x \in S |-> x]
           sorted == Descending(S, key)
<1>1. Keyed(S, key)
    BY DEF Keyed
<1>2. /\ sorted \in Seq(S) /\ Len(sorted) = Cardinality(S) /\ Cardinality(S) \in Nat
      /\ Range(sorted) = S
      /\ \A i, k \in 1..Cardinality(S) : i < k => key[sorted[i]] > key[sorted[k]]
    <2> HIDE DEF key
    <2> QED BY <1>1, DescendingSorts
<1>3. Cardinality(S) # 0
    BY FS_EmptySet
<1> HIDE DEF sorted
<1>4. 1 \in 1..Cardinality(S) /\ DOMAIN sorted = 1..Cardinality(S) /\ sorted[1] \in S
    BY <1>2, <1>3
<1>5. ASSUME NEW x \in S PROVE x <= sorted[1]
    <2>1. PICK k \in 1..Cardinality(S) : x = sorted[k]
        BY <1>2, <1>4 DEF Range
    <2>2. k = 1 \/ 1 < k
        BY <2>1
    <2>3. CASE 1 < k
        <3>1. key[sorted[1]] > key[x]
            BY <1>2, <1>4, <2>1, <2>3
        <3> QED BY <1>4, <3>1
    <2> QED BY <1>4, <2>1, <2>2, <2>3
<1> QED BY <1>4, <1>5

-----------------------------------------------------------------------------
\* The days of a user, latest first.
Enumerates(keys, days) ==
    /\ keys \in Seq(days) /\ Range(keys) = days
    /\ \A i, k \in DOMAIN keys : i < k => keys[i] > keys[k]

LEMMA DayKeysEnumerate ==
    ASSUME NEW t \in Nat, NEW days, days \subseteq 0..t PROVE Enumerates(DayKeys(days), days)
<1> DEFINE key == [d \in days |-> d]
           keys == Descending(days, key)
<1>1. Keyed(days, key)
    <2>1. IsFiniteSet(0..t)
        BY FS_Interval
    <2>2. IsFiniteSet(days)
        BY <2>1, FS_Subset
    <2> QED BY <2>2 DEF Keyed
<1>2. /\ keys \in Seq(days) /\ Len(keys) = Cardinality(days) /\ Range(keys) = days
      /\ \A i, k \in 1..Cardinality(days) : i < k => key[keys[i]] > key[keys[k]]
    <2> HIDE DEF key
    <2> QED BY <1>1, DescendingSorts
<1>3. DayKeys(days) = keys
    BY DEF DayKeys
<1> HIDE DEF keys
<1>4. ASSUME NEW i \in DOMAIN keys, NEW k \in DOMAIN keys, i < k PROVE keys[i] > keys[k]
    <2>1. i \in 1..Cardinality(days) /\ k \in 1..Cardinality(days)
        BY <1>2
    <2>2. keys[i] \in days /\ keys[k] \in days
        BY <1>2, <2>1
    <2> QED BY <1>2, <1>4, <2>1, <2>2
<1> QED BY <1>2, <1>3, <1>4 DEF Enumerates

\* What a filter keeps is in the same order.
LEMMA FilteredEnumerates ==
    ASSUME NEW keys, NEW days, Enumerates(keys, days), NEW D, D \subseteq DOMAIN keys
    PROVE  Enumerates(Filtered(keys, D), {keys[i] : i \in D})
<1> DEFINE key == [i \in D |-> -i]
           position == Descending(D, key)
           n == Cardinality(D)
           kept == Filtered(keys, D)
           T == {keys[i] : i \in D}
<1>1. DOMAIN keys = 1..Len(keys) /\ Len(keys) \in Nat
    BY DEF Enumerates
<1>2. Keyed(D, key) /\ \A i \in D : i \in Nat
    <2>1. IsFiniteSet(1..Len(keys)) /\ \A i \in D : i \in Nat
        BY <1>1, FS_Interval
    <2>2. IsFiniteSet(D)
        BY <1>1, <2>1, FS_Subset
    <2> QED BY <2>1, <2>2 DEF Keyed
<1>3. /\ position \in Seq(D) /\ Len(position) = n /\ n \in Nat /\ Range(position) = D
      /\ \A i, k \in 1..n : i < k => key[position[i]] > key[position[k]]
    <2> HIDE DEF key
    <2> QED BY <1>2, DescendingSorts
<1>4. kept = [k \in 1..n |-> keys[position[k]]]
    BY DEF Filtered
<1> HIDE DEF position, kept, n
<1>5. DOMAIN position = 1..n /\ \A k \in 1..n : position[k] \in D
    BY <1>3
<1>6. \A i, k \in 1..n : i < k => position[i] < position[k]
    <2> SUFFICES ASSUME NEW i \in 1..n, NEW k \in 1..n, i < k PROVE position[i] < position[k]
        OBVIOUS
    <2>1. key[position[i]] > key[position[k]]
        BY <1>3
    <2>2. -position[i] > -position[k] /\ position[i] \in Nat /\ position[k] \in Nat
        BY <1>2, <1>5, <2>1
    <2> QED BY <2>2
<1> HIDE DEF key
<1>7. kept \in Seq(T) /\ DOMAIN kept = 1..n
    <2>1. \A k \in 1..n : keys[position[k]] \in T
        BY <1>5
    <2>2. kept \in [1..n -> T] /\ DOMAIN kept = 1..n
        BY <1>4, <2>1
    <2> QED BY <1>3, <2>2
<1>8. Range(kept) = T
    <2>1. ASSUME NEW i \in D PROVE keys[i] \in Range(kept)
        <3>1. PICK k \in 1..n : position[k] = i
            BY <1>3, <1>5 DEF Range
        <3> QED BY <1>4, <1>7, <3>1 DEF Range
    <2>2. \A x \in Range(kept) : x \in T
        BY <1>4, <1>5, <1>7 DEF Range
    <2> QED BY <2>1, <2>2
<1>9. ASSUME NEW i \in DOMAIN kept, NEW k \in DOMAIN kept, i < k PROVE kept[i] > kept[k]
    <2>1. /\ kept[i] = keys[position[i]] /\ kept[k] = keys[position[k]]
          /\ position[i] < position[k]
          /\ position[i] \in DOMAIN keys /\ position[k] \in DOMAIN keys
        BY <1>4, <1>5, <1>6, <1>7, <1>9
    <2> QED BY <2>1 DEF Enumerates
<1>10. Enumerates(kept, T)
    <2> HIDE DEF T
    <2> QED BY <1>7, <1>8, <1>9 DEF Enumerates
<1> QED BY <1>10 DEF kept

\* The longest run of days that ends on a day.
LEMMA LongestIs ==
    ASSUME NEW S, S \subseteq Int, NEW n \in S, \A m \in S : m <= n
    PROVE  Longest(S) = n
<1>1. /\ Longest(S) \in S
      /\ \A m \in S : m <= Longest(S)
    BY DEF Longest
<1>2. Longest(S) <= n /\ n <= Longest(S) /\ Longest(S) \in Int /\ n \in Int
    BY <1>1
<1> QED BY <1>2

LEMMA LongestRun ==
    ASSUME NEW days, NEW last \in Int, last >= -1
    PROVE  /\ RunEndingAt(days, last) \subseteq Nat
           /\ Longest(RunEndingAt(days, last)) \in RunEndingAt(days, last)
           /\ \A m \in RunEndingAt(days, last) : m <= Longest(RunEndingAt(days, last))
<1> DEFINE S == RunEndingAt(days, last)
<1>1. S \subseteq 0..(last + 1) /\ last + 1 \in Nat
    BY DEF RunEndingAt
<1>2. 0 \in S
    <2>1. 0 \in 0..(last + 1) /\ (last - 0 + 1)..last = {}
        OBVIOUS
    <2> QED BY <2>1 DEF RunEndingAt
<1> HIDE DEF S
<1>3. IsFiniteSet(S)
    <2>1. IsFiniteSet(0..(last + 1))
        BY <1>1, FS_Interval
    <2> QED BY <1>1, <2>1, FS_Subset
<1>4. S \subseteq Nat
    BY <1>1
<1>5. \E n \in S : \A m \in S : m <= n
    <2>1. S # {} /\ \A n \in S : n \in Int
        BY <1>2, <1>4
    <2> QED BY <1>3, <2>1, GreatestExists
<1>6. Longest(S) \in S /\ \A m \in S : m <= Longest(S)
    BY <1>5 DEF Longest
<1> QED BY <1>4, <1>6 DEF S

\* Nobody was active on the day: no run ends there.
LEMMA NoRun ==
    ASSUME NEW days, NEW last \in Int, last >= -1, last \notin days
    PROVE  Longest(RunEndingAt(days, last)) = 0
<1>1. PICK n : n = Longest(RunEndingAt(days, last))
    OBVIOUS
<1>2. n \in 0..(last + 1) /\ \A d \in (last - n + 1)..last : d \in days
    <2>1. n \in RunEndingAt(days, last)
        BY <1>1, LongestRun
    <2> QED BY <2>1 DEF RunEndingAt
<1>3. CASE n > 0
    <2>1. last \in (last - n + 1)..last
        BY <1>2, <1>3
    <2> QED BY <1>2, <2>1
<1> QED BY <1>1, <1>2, <1>3

Unbroken(keys, n) ==
    /\ \A i \in 2..n : keys[i - 1] - keys[i] = 1
    /\ n = Len(keys) \/ keys[n] - keys[n + 1] # 1

\* There is a first gap, or none before the end.
LEMMA GapExists ==
    ASSUME NEW keys, NEW days, days \subseteq Nat, keys \in Seq(days), keys # << >>
    PROVE  \E n \in 1..Len(keys) : Unbroken(keys, n)
<1> DEFINE l == Len(keys)
           gaps == {i \in 1..l : i = l \/ keys[i] - keys[i + 1] # 1}
<1>1. l \in Nat /\ l >= 1
    OBVIOUS
<1> HIDE DEF l
<1>2. l \in gaps /\ \A i \in gaps : i \in Int
    BY <1>1
<1>3. IsFiniteSet(gaps)
    <2>1. IsFiniteSet(1..l) /\ gaps \subseteq 1..l
        BY <1>1, FS_Interval
    <2> HIDE DEF gaps
    <2> QED BY <2>1, FS_Subset
<1>4. PICK n \in gaps : \A i \in gaps : n <= i
    <2> HIDE DEF gaps
    <2> QED BY <1>2, <1>3, LeastExists
<1>5. n \in 1..l /\ (n = l \/ keys[n] - keys[n + 1] # 1)
    BY <1>4
<1>6. ASSUME NEW i \in 2..n PROVE keys[i - 1] - keys[i] = 1
    <2>1. i - 1 \in 1..l /\ i - 1 # l /\ i - 1 < n /\ (i - 1) + 1 = i
        BY <1>1, <1>5
    <2>2. i - 1 \notin gaps
        <3>1. ~(n <= i - 1)
            BY <1>5, <2>1
        <3> HIDE DEF gaps
        <3> QED BY <1>4, <3>1
    <2> QED BY <2>1, <2>2
<1> QED BY <1>5, <1>6 DEF Unbroken, l

\* Up to the first gap the keys are the days that end with the latest.
LEMMA StreakIsLongest ==
    ASSUME NEW keys, NEW days, days \subseteq Nat, Enumerates(keys, days), keys # << >>,
           NEW n \in 1..Len(keys), Unbroken(keys, n)
    PROVE  Longest(RunEndingAt(days, keys[1])) = n
<1> DEFINE l == Len(keys)
           last == keys[1]
<1>1. /\ l \in Nat /\ l >= 1 /\ DOMAIN keys = 1..l /\ n \in 1..l
      /\ \A i \in 1..l : keys[i] \in days /\ keys[i] \in Nat
      /\ \A i, k \in 1..l : i < k => keys[i] > keys[k]
      /\ \A d \in days : \E i \in 1..l : keys[i] = d
    <2>1. keys \in Seq(days)
        BY DEF Enumerates
    <2>2. l \in Nat /\ l >= 1 /\ DOMAIN keys = 1..l
        BY <2>1
    <2>3. \A i \in 1..l : keys[i] \in days
        BY <2>1
    <2> HIDE DEF l
    <2>4. \A i, k \in 1..l : i < k => keys[i] > keys[k]
        BY <2>2 DEF Enumerates
    <2>5. \A d \in days : \E i \in 1..l : keys[i] = d
        BY <2>2 DEF Enumerates, Range
    <2>6. n \in 1..l
        BY DEF l
    <2> QED BY <2>2, <2>3, <2>4, <2>5, <2>6
<1>2. /\ \A i \in 2..n : keys[i - 1] - keys[i] = 1
      /\ n = l \/ keys[n] - keys[n + 1] # 1
    BY DEF Unbroken
<1>3. last \in Nat /\ 1 \in 1..l
    BY <1>1
<1> HIDE DEF l, last
<1>4. \A i \in 1..n : keys[i] = last - (i - 1)
    <2> DEFINE wrong == {i \in 1..n : keys[i] # last - (i - 1)}
    <2> SUFFICES ASSUME wrong # {} PROVE FALSE
        OBVIOUS
    <2>1. IsFiniteSet(wrong) /\ \A i \in wrong : i \in Int
        <3>1. IsFiniteSet(1..n) /\ wrong \subseteq 1..n /\ \A i \in 1..n : i \in Int
            BY <1>1, FS_Interval
        <3> HIDE DEF wrong
        <3> QED BY <3>1, FS_Subset
    <2>2. PICK m \in wrong : \A i \in wrong : m <= i
        <3> HIDE DEF wrong
        <3> QED BY <2>1, LeastExists
    <2>3. m \in 1..n /\ keys[m] # last - (m - 1)
        BY <2>2
    <2>4. m # 1
        BY <1>3, <2>3 DEF last
    <2>5. m \in 2..n /\ m - 1 \in 1..n /\ m \in 1..l /\ m - 1 \in 1..l
        BY <1>1, <2>3, <2>4
    <2>6. m - 1 \notin wrong
        <3>1. ~(m <= m - 1)
            BY <2>3
        <3> HIDE DEF wrong
        <3> QED BY <2>2, <3>1
    <2>7. keys[m - 1] = last - ((m - 1) - 1)
        BY <2>5, <2>6
    <2>8. keys[m - 1] - keys[m] = 1 /\ keys[m] \in Nat /\ keys[m - 1] \in Nat
        BY <1>1, <1>2, <2>5
    <2> HIDE DEF wrong
    <2> QED BY <1>3, <2>3, <2>5, <2>7, <2>8
<1>5. n \in Nat /\ n >= 1 /\ n <= l
    BY <1>1
<1>6. keys[n] = last - (n - 1) /\ keys[n] \in Nat
    BY <1>1, <1>4, <1>5
<1>7. n \in RunEndingAt(days, last)
    <2>1. n \in 0..(last + 1)
        BY <1>3, <1>5, <1>6
    <2>2. ASSUME NEW d \in (last - n + 1)..last PROVE d \in days
        <3>1. PICK i \in 1..n : d = last - (i - 1)
            <4>1. last - d + 1 \in 1..n /\ d = last - ((last - d + 1) - 1)
                BY <1>3, <1>5
            <4> QED BY <4>1
        <3>2. i \in 1..l
            BY <1>1, <1>5
        <3>3. keys[i] = d
            BY <1>4, <3>1
        <3> QED BY <1>1, <3>2, <3>3
    <2> QED BY <2>1, <2>2 DEF RunEndingAt
<1>8. ASSUME NEW m \in RunEndingAt(days, last), m > n PROVE FALSE
    <2>1. m \in 0..(last + 1) /\ \A d \in (last - m + 1)..last : d \in days
        BY DEF RunEndingAt
    <2>2. last - n \in (last - m + 1)..last
        BY <1>3, <1>5, <1>8, <2>1
    <2>3. PICK k \in 1..l : keys[k] = last - n
        BY <1>1, <2>1, <2>2
    <2>4. k > n
        <3> SUFFICES ASSUME k <= n PROVE FALSE
            BY <1>5
        <3>1. k = n \/ keys[k] > keys[n]
            BY <1>1, <1>5
        <3> QED BY <1>3, <1>5, <1>6, <2>3, <3>1
    <2>5. n + 1 \in 1..l /\ n \in 1..l /\ n # l /\ n < n + 1
        BY <1>1, <1>5, <2>3, <2>4
    <2>6. keys[n + 1] \in Nat /\ keys[n] > keys[n + 1]
        BY <1>1, <2>5
    <2>7. k = n + 1 \/ keys[n + 1] > keys[k]
        BY <1>1, <1>5, <2>3, <2>4, <2>5
    <2>8. keys[n] - keys[n + 1] = 1
        BY <1>3, <1>5, <1>6, <2>3, <2>6, <2>7
    <2> QED BY <1>2, <2>5, <2>8
<1>9. RunEndingAt(days, last) \subseteq Int
    BY <1>3, LongestRun
<1>10. \A m \in RunEndingAt(days, last) : m <= n
    BY <1>5, <1>8, <1>9
<1> QED BY <1>7, <1>9, <1>10, LongestIs DEF last

\* What is computed from the keys is the run of days up to today or yesterday.
LEMMA StreakOfKeys ==
    ASSUME today \in Nat, NEW days, days \subseteq 0..today, NEW keys, Enumerates(keys, days)
    PROVE  ActiveStreakDays(keys, today) = StreakMeans(days)
<1>1. /\ Len(keys) \in Nat /\ DOMAIN keys = 1..Len(keys)
      /\ \A i \in 1..Len(keys) : keys[i] \in days
      /\ \A i, k \in 1..Len(keys) : i < k => keys[i] > keys[k]
      /\ \A d \in days : \E i \in 1..Len(keys) : keys[i] = d
    BY DEF Enumerates, Range
<1>2. today - 1 \in Int /\ today - 1 >= -1 /\ today \in Int /\ today >= -1
    OBVIOUS
<1>3. CASE today \notin days /\ today - 1 \notin days
    <2>1. StreakMeans(days) = 0
        BY <1>2, <1>3, NoRun DEF StreakMeans
    <2>2. CASE keys = << >>
        BY <2>1, <2>2 DEF ActiveStreakDays
    <2>3. CASE keys # << >>
        <3>1. keys[1] \in days /\ Head(keys) = keys[1]
            BY <1>1, <2>3
        <3>0. keys[1] \in 0..today /\ keys[1] # today /\ keys[1] # today - 1
            BY <1>3, <3>1
        <3>2. today - Head(keys) > 1
            BY <3>0, <3>1
        <3> QED BY <2>1, <3>2 DEF ActiveStreakDays
    <2> QED BY <2>2, <2>3
<1>4. CASE today \in days \/ today - 1 \in days
    <2>1. keys # << >> /\ 1 \in 1..Len(keys)
        BY <1>1, <1>4
    <2>2. ASSUME NEW d \in days PROVE d <= keys[1] /\ keys[1] \in 0..today /\ d \in 0..today
        <3>1. PICK i \in 1..Len(keys) : keys[i] = d
            BY <1>1
        <3>2. i = 1 \/ 1 < i
            BY <3>1
        <3>3. i = 1 \/ keys[1] > d
            BY <1>1, <2>1, <3>1, <3>2
        <3>4. keys[1] \in 0..today /\ d \in 0..today
            BY <1>1, <2>1
        <3> QED BY <3>1, <3>3, <3>4
    <2>3. keys[1] = IF today \in days THEN today ELSE today - 1
        <3>1. CASE today \in days
            BY <2>2, <3>1
        <3>2. CASE today \notin days
            <4>1. keys[1] \in days /\ keys[1] # today
                BY <1>1, <2>1, <3>2
            <4> QED BY <1>4, <2>2, <3>2, <4>1
        <3> QED BY <3>1, <3>2
    <2>4. StreakMeans(days) = Longest(RunEndingAt(days, keys[1]))
        BY <2>3 DEF StreakMeans
    <2>5. ~(today - Head(keys) > 1)
        <3>1. Head(keys) = keys[1]
            BY <1>1, <2>1
        <3> QED BY <2>3, <3>1
    <2>6. PICK n : n = ActiveStreakDays(keys, today)
        OBVIOUS
    <2>7. days \subseteq Nat
        OBVIOUS
    <2>8. n \in 1..Len(keys) /\ Unbroken(keys, n)
        <3>1. \E k \in 1..Len(keys) : Unbroken(keys, k)
            BY <2>1, <2>7, GapExists DEF Enumerates
        <3>2. n = CHOOSE k \in 1..Len(keys) : Unbroken(keys, k)
            BY <2>1, <2>5, <2>6 DEF ActiveStreakDays, Unbroken
        <3> QED BY <3>1, <3>2
    <2> QED BY <2>1, <2>4, <2>6, <2>7, <2>8, StreakIsLongest
<1> QED BY <1>3, <1>4

\* Fewer days, no longer streak.
LEMMA FewerDays ==
    ASSUME today \in Nat, NEW few, NEW days, few \subseteq days
    PROVE  StreakMeans(few) <= StreakMeans(days)
<1>1. today - 1 \in Int /\ today - 1 >= -1 /\ today \in Int /\ today >= -1
    OBVIOUS
<1>2. ASSUME NEW last \in {today, today - 1}
      PROVE  Longest(RunEndingAt(few, last)) <= Longest(RunEndingAt(days, last))
    <2>1. RunEndingAt(few, last) \subseteq RunEndingAt(days, last)
        BY DEF RunEndingAt
    <2>2. last \in Int /\ last >= -1
        BY <1>1
    <2>3. /\ Longest(RunEndingAt(few, last)) \in RunEndingAt(few, last)
          /\ \A m \in RunEndingAt(days, last) : m <= Longest(RunEndingAt(days, last))
        BY <2>2, LongestRun
    <2> QED BY <2>1, <2>3
<1>3. CASE today \in few \/ today \notin days
    BY <1>2, <1>3 DEF StreakMeans
<1>4. CASE today \in days /\ today \notin few
    <2>1. PICK n : n = Longest(RunEndingAt(few, today - 1))
        OBVIOUS
    <2>2. /\ n \in RunEndingAt(few, today - 1) /\ n \in Nat
          /\ \A m \in RunEndingAt(days, today) : m <= Longest(RunEndingAt(days, today))
          /\ Longest(RunEndingAt(days, today)) \in Nat
        BY <1>1, <2>1, LongestRun
    <2>3. n \in 0..((today - 1) + 1) /\ \A d \in ((today - 1) - n + 1)..(today - 1) : d \in few
        BY <2>2 DEF RunEndingAt
    <2>4. n + 1 \in RunEndingAt(days, today)
        <3>1. n + 1 \in 0..(today + 1)
            BY <2>2, <2>3
        <3>2. ASSUME NEW d \in (today - (n + 1) + 1)..today PROVE d \in days
            <4>1. d = today \/ d \in ((today - 1) - n + 1)..(today - 1)
                BY <2>2
            <4> QED BY <1>4, <2>3, <4>1
        <3> QED BY <3>1, <3>2 DEF RunEndingAt
    <2>5. n + 1 <= Longest(RunEndingAt(days, today))
        BY <2>2, <2>4
    <2> QED BY <1>4, <2>1, <2>2, <2>5 DEF StreakMeans
<1> QED BY <1>3, <1>4

-----------------------------------------------------------------------------
\* Activity is of today, or of a day that was today.
ContinuityInv ==
    /\ today \in Nat
    /\ active \in [People -> SUBSET (0..today)]

LEMMA ContinuityStart == ContinuityInit => ContinuityInv
BY DEF ContinuityInit, ContinuityInv

LEMMA ContinuityStep == ContinuityInv /\ [ContinuityNext]_continuityVars => ContinuityInv'
<1> SUFFICES ASSUME ContinuityInv, [ContinuityNext]_continuityVars PROVE ContinuityInv'
    OBVIOUS
<1>1. CASE UNCHANGED continuityVars
    BY <1>1 DEF continuityVars, ContinuityInv
<1>2. CASE Midnight
    <2>1. today' \in Nat /\ 0..today \subseteq 0..today' /\ active' = active
        BY <1>2 DEF Midnight, ContinuityInv
    <2> QED BY <2>1 DEF ContinuityInv
<1>3. ASSUME NEW p \in People, Act(p) PROVE ContinuityInv'
    BY <1>3 DEF Act, ContinuityInv
<1>4. ASSUME NEW p \in People, NEW d, Erase(p, d) PROVE ContinuityInv'
    BY <1>4 DEF Erase, ContinuityInv
<1> QED BY <1>1, <1>2, <1>3, <1>4 DEF ContinuityNext

LEMMA StreaksMean == ContinuityInv => StreaksAreRuns
<1> SUFFICES ASSUME ContinuityInv PROVE StreaksAreRuns
    OBVIOUS
<1>1. today \in Nat /\ \A p \in People : active[p] \subseteq 0..today
    BY DEF ContinuityInv
<1>2. ASSUME NEW p \in People PROVE Enumerates(DayKeys(active[p]), active[p])
    <2>1. PICK t, days : t = today /\ days = active[p]
        BY <1>1
    <2>2. t \in Nat /\ days \subseteq 0..t
        BY <1>1, <2>1
    <2> QED BY <2>1, <2>2, DayKeysEnumerate
<1>3. ASSUME NEW p \in People PROVE Streak(p) = StreakMeans(active[p])
    BY <1>1, <1>2, StreakOfKeys DEF Streak
<1>4. ASSUME NEW p \in People, NEW q \in People
      PROVE  Shared(p, q) = StreakMeans(active[p] \cap active[q])
    <2>1. PICK keys, others, mine, theirs :
            /\ keys = DayKeys(active[p]) /\ others = DayKeys(active[q])
            /\ mine = active[p] /\ theirs = active[q]
        OBVIOUS
    <2>2. Enumerates(keys, mine) /\ Enumerates(others, theirs)
        BY <1>2, <2>1
    <2> DEFINE inBoth == {i \in DOMAIN keys : \E k \in DOMAIN others : others[k] = keys[i]}
    <2>3. {keys[i] : i \in inBoth} = mine \cap theirs
        BY <2>2 DEF Enumerates, Range
    <2>4. Enumerates(Filtered(keys, inBoth), {keys[i] : i \in inBoth})
        BY <2>2, FilteredEnumerates
    <2>5. Shared(p, q) = ActiveStreakDays(Filtered(keys, inBoth), today)
        BY <2>1 DEF Shared, SharedOffensive
    <2> HIDE DEF inBoth
    <2>6. Enumerates(Filtered(keys, inBoth), mine \cap theirs)
        BY <2>3, <2>4
    <2>7. mine \cap theirs \subseteq 0..today
        BY <1>1, <2>1
    <2> QED BY <1>1, <2>1, <2>5, <2>6, <2>7, StreakOfKeys
<1>5. ASSUME NEW p \in People, NEW q \in People
      PROVE  Shared(p, q) = Shared(q, p) /\ Shared(p, q) <= Streak(p)
    <2>1. active[p] \cap active[q] = active[q] \cap active[p]
        OBVIOUS
    <2>2. active[p] \cap active[q] \subseteq active[p]
        OBVIOUS
    <2>3. StreakMeans(active[p] \cap active[q]) <= StreakMeans(active[p])
        BY <1>1, <2>2, FewerDays
    <2>4. Shared(p, q) = Shared(q, p)
        BY <1>4, <2>1
    <2> QED BY <1>3, <1>4, <2>3, <2>4
<1> QED BY <1>3, <1>4, <1>5 DEF StreaksAreRuns

(* For every number of people and days: the streak computed from the       *)
(* sorted days is the longest run of days that ends today or yesterday,    *)
(* after gaps and deletions too, and a shared offensive is the same for    *)
(* both friends (calculateActiveStreakDays and calculateSharedOffensive of *)
(* social-continuity.service.ts).                                          *)
THEOREM StreaksMeanRuns == ContinuitySpec => []StreaksAreRuns
<1> QED BY ContinuityStart, ContinuityStep, StreaksMean, PTL DEF ContinuitySpec

-----------------------------------------------------------------------------
(* The types of the components that share the handlers.                    *)

\* What the invariants above leave out of the types: written only, or read
\* by no guard they depend on.
PostsRest ==
    /\ friendsOf \in [Users -> SUBSET Users]
    /\ inbox \in [Handlers -> {None} \cup [to : Users, by : Users, read : BOOLEAN]]

LibraryRest ==
    /\ epic \subseteq Users
    /\ proved \subseteq Users \X SteamIds /\ held \subseteq Users \X SteamIds

OtakuRest ==
    /\ mal \in [Fans -> {"CONNECTED", "NEEDS_REAUTH", None}]
    /\ stamped \subseteq Fans

LEMMA NotifyTypes ==
    ASSUME PostsInv, PostsRest, NEW h \in Handlers, NotifyAuthor(h) PROVE PostsRest'
<1>1. PICK j : j = job[h]
    OBVIOUS
<1>2. PostJob("notify", j)
    BY <1>1 DEF NotifyAuthor, PostsInv
<1>3. j.user \in Users /\ author[j.post] \in Users
    <2>1. AboutPost(j)
        BY <1>2 DEF PostJob
    <2> QED BY <2>1 DEF AboutPost, PostsInv, TablesInv
<1>4. PICK n : n = [to |-> author[j.post], by |-> j.user, read |-> FALSE]
    OBVIOUS
<1>5. n \in [to : Users, by : Users, read : BOOLEAN]
    BY <1>3, <1>4
<1>6. inbox' = [inbox EXCEPT ![h] = n] /\ friendsOf' = friendsOf
    BY <1>1, <1>4 DEF NotifyAuthor
<1> HIDE DEF PostsInv
<1> QED BY <1>5, <1>6 DEF PostsRest

LEMMA PostsRestStays ==
    PostsInv /\ PostsRest /\ [PostsNext]_<<handlerVars, postsVars>> => PostsRest'
<1> SUFFICES ASSUME PostsInv, PostsRest, [PostsNext]_<<handlerVars, postsVars>> PROVE PostsRest'
    OBVIOUS
<1>1. CASE UNCHANGED <<friendsOf, inbox>>
    BY <1>1 DEF PostsRest
<1>2. ASSUME NEW h \in Handlers, NotifyAuthor(h) PROVE PostsRest'
    BY <1>2, NotifyTypes
<1>3. ASSUME NEW h \in Handlers, NEW u \in Users, MarkRead(u, h) PROVE PostsRest'
    BY <1>3 DEF MarkRead, PostsRest
<1>4. ASSUME NEW u \in Users, MarkAllRead(u) PROVE PostsRest'
    BY <1>4 DEF MarkAllRead, PostsRest
<1>5. ASSUME NEW u, NEW U, SetFriends(u, U) PROVE PostsRest'
    <2>1. U \in SUBSET Users
        BY <1>5 DEF SetFriends
    <2> QED BY <1>5, <2>1 DEF SetFriends, PostsRest
<1>6. \/ UNCHANGED <<friendsOf, inbox>>
      \/ \E h \in Handlers : NotifyAuthor(h)
      \/ \E h \in Handlers : \E u \in Users : MarkRead(u, h)
      \/ \E u \in Users : MarkAllRead(u)
      \/ \E u \in Readers, U \in SUBSET Users : SetFriends(u, U)
    <2>1. ASSUME NEW h,
                 \/ \E u : CreateBegins(h, u) \/ FeedBegins(h, u)
                 \/ \E u, p : DeleteBegins(h, u, p) \/ ToggleBegins(h, u, p)
                 \/ \E u, p, c : CommentBegins(h, u, p, c)
                 \/ FindOwnPost(h) \/ FindPostToReact(h) \/ FindPostToComment(h) \/ FindParent(h)
                 \/ FindReaction(h) \/ FeedFriends(h) \/ FeedPage(h)
                 \/ QueryFails(h, {"count", "notify"}) /\ UNCHANGED postsVars
          PROVE  UNCHANGED <<friendsOf, inbox>>
        BY <2>1 DEF postsVars, CreateBegins, FeedBegins, DeleteBegins, ToggleBegins, CommentBegins,
                    FindOwnPost, FindPost, FindPostToReact, FindPostToComment, FindParent,
                    FindReaction, FeedFriends, FeedPage
    <2>2. ASSUME NEW h,
                 \/ \E p : InsertPost(h, p)
                 \/ \E c : InsertComment(h, c)
                 \/ DeletePost(h) \/ CountPost(h) \/ RemoveReaction(h) \/ AddReaction(h)
          PROVE  UNCHANGED <<friendsOf, inbox>>
        BY <2>2 DEF InsertPost, InsertComment, DeletePost, CountPost, RemoveReaction, AddReaction
    <2>3. CASE UNCHANGED <<handlerVars, postsVars>>
        BY <2>3 DEF postsVars
    <2> QED BY <2>1, <2>2, <2>3 DEF PostsNext
<1> QED BY <1>1, <1>2, <1>3, <1>4, <1>5, <1>6

LEMMA PostsTyped == PostsInv /\ PostsRest => PostsTypeOK
<1> SUFFICES ASSUME PostsInv, PostsRest PROVE PostsTypeOK
    OBVIOUS
<1>1. Existing \subseteq PostIds
    BY DEF PostsInv, TablesInv, Existing, Range
<1> QED BY <1>1 DEF PostsInv, TablesInv, PostsRest, PostsTypeOK

LEMMA LibraryRestStays ==
    LibraryInv /\ LibraryRest /\ [LibraryNext]_<<handlerVars, libraryVars>> => LibraryRest'
<1> SUFFICES ASSUME LibraryInv, LibraryRest, [LibraryNext]_<<handlerVars, libraryVars>>
             PROVE  LibraryRest'
    OBVIOUS
<1>1. CASE UNCHANGED <<epic, proved, held>>
    BY <1>1 DEF LibraryRest
<1>2. ASSUME NEW h \in Handlers, NEW u \in Users, NEW i \in SteamIds, VerifyBegins(h, u, i)
      PROVE  LibraryRest'
    BY <1>2 DEF VerifyBegins, LibraryRest
<1>3. ASSUME NEW h \in Handlers, UpsertSteam(h) PROVE LibraryRest'
    <2>1. PICK j : j = job[h]
        OBVIOUS
    <2>2. j \in SteamJob
        BY <1>3, <2>1 DEF UpsertSteam, LibraryInv, JobInv
    <2>3. j.user \in Users /\ j.id \in SteamIds
        BY <2>2 DEF SteamJob
    <2>4. held' = held \cup {<<j.user, j.id>>} \/ held' = held
        BY <1>3, <2>1 DEF UpsertSteam
    <2> QED BY <1>3, <2>3, <2>4 DEF UpsertSteam, LibraryRest
<1>4. ASSUME NEW h \in Handlers, UpsertEpic(h) PROVE LibraryRest'
    <2>1. job[h].user \in Users
        BY <1>4 DEF UpsertEpic, At, LibraryInv, JobInv
    <2> QED BY <1>4, <2>1 DEF UpsertEpic, LibraryRest
<1>5. \/ UNCHANGED <<epic, proved, held>>
      \/ \E h \in Handlers : \E u \in Users, i \in SteamIds : VerifyBegins(h, u, i)
      \/ \E h \in Handlers : UpsertSteam(h) \/ UpsertEpic(h)
    BY DEF LibraryNext, libraryVars, ConnectBegins, SyncBegins, ConnectEpic, ManageBegins,
           ReadRowForManual, FindOwner, ReadRowForLink, FindIdentity, ReadRowForSync, FetchGames,
           ImportGame, FindAccount, DeleteAccount, UpdateVisibility
<1> QED BY <1>1, <1>2, <1>3, <1>4, <1>5

LEMMA LibraryTyped == LibraryInv /\ LibraryRest => LibraryTypeOK
<1> SUFFICES ASSUME LibraryInv, LibraryRest PROVE LibraryTypeOK
    OBVIOUS
<1>1. ASSUME NEW u \in Users, NEW g \in library[u]
      PROVE  g \in AllGames
    <2>1. \/ g \in EpicGames
          \/ \E i \in SteamIds : g \in Owns[i]
        BY <1>1 DEF LibraryInv, LibraryIsOwn
    <2> QED BY <2>1 DEF AllGames
<1> QED BY <1>1 DEF LibraryInv, LibraryRest, LibraryTypeOK

LEMMA OtakuRestStays ==
    ShowcaseInv /\ OtakuRest /\ [OtakuNext]_<<handlerVars, otakuVars>> => OtakuRest'
<1> SUFFICES ASSUME ShowcaseInv, OtakuRest, [OtakuNext]_<<handlerVars, otakuVars>>
             PROVE  OtakuRest'
    OBVIOUS
<1>1. CASE UNCHANGED <<mal, stamped>>
    BY <1>1 DEF OtakuRest
<1>2. ASSUME NEW h \in Handlers, Stamp(h) PROVE OtakuRest'
    <2>1. job[h] \in ImportJob
        BY <1>2 DEF Stamp, At, ShowcaseInv, ShowcaseJob
    <2>2. job[h].user \in Fans
        BY <2>1 DEF ImportJob
    <2> QED BY <1>2, <2>2 DEF Stamp, OtakuRest
<1>3. ASSUME NEW u \in Fans, NEW state \in {"CONNECTED", "NEEDS_REAUTH", None},
             SetConnection(u, state)
      PROVE  OtakuRest'
    BY <1>3 DEF SetConnection, OtakuRest
<1>4. \/ UNCHANGED <<mal, stamped>>
      \/ \E h \in Handlers : Stamp(h)
      \/ \E u \in Fans, state \in {"CONNECTED", "NEEDS_REAUTH", None} : SetConnection(u, state)
    BY DEF OtakuNext, otakuVars, ImportBegins, FindConnection, FetchLists, ImportEntry, RankBegins,
           CheckLimit, Commit
<1> QED BY <1>1, <1>2, <1>3, <1>4

LEMMA OtakuTyped == ShowcaseInv /\ OtakuRest => OtakuTypeOK
BY DEF ShowcaseInv, OtakuRest, OtakuTypeOK, Entries

LEMMA StreaksTyped ==
    ASSUME ContinuityInv, ContinuityTypeOK, [ContinuityNext]_continuityVars
    PROVE  ContinuityTypeOK'
<1>1. CASE UNCHANGED continuityVars
    BY <1>1 DEF continuityVars, ContinuityTypeOK
<1>2. CASE Midnight
    BY <1>2, LastDayAssumption DEF Midnight, ContinuityTypeOK
<1>3. ASSUME NEW p \in People, Act(p) PROVE ContinuityTypeOK'
    BY <1>3 DEF Act, ContinuityTypeOK
<1>4. ASSUME NEW p \in People, NEW d, Erase(p, d) PROVE ContinuityTypeOK'
    BY <1>4 DEF Erase, ContinuityTypeOK
<1> QED BY <1>1, <1>2, <1>3, <1>4 DEF ContinuityNext

\* Only the area of the behaviour moves the handlers: the invariant of each
\* area holds while it is that area's, its types hold always.
PresenceHolds    == area = "presence" => StoreInv
PostsHold        == area = "posts" => PostsInv /\ PostsRest
CommunitiesHold  == area = "communities" => CommunitiesInv
LibraryHolds     == area = "library" => LibraryInv /\ LibraryRest
ShowcaseHolds    == area = "showcase" => ShowcaseInv /\ OtakuRest
StreaksHold      == area = "streaks" => ContinuityInv

ContentInv ==
    /\ PresenceHolds /\ PostsHold /\ CommunitiesHold
    /\ LibraryHolds /\ ShowcaseHolds /\ StreaksHold
    /\ ContentTypeOK

LEMMA ContentStart == ContentInit => ContentInv
<1> SUFFICES ASSUME ContentInit PROVE ContentInv
    OBVIOUS
<1>1. StoreInv /\ PostsInv /\ CommunitiesInv /\ LibraryInv /\ ShowcaseInv /\ ContinuityInv
    BY StoreBegins, PostsStart, CommunitiesStart, InitEstablishes, ShowcaseInit, ContinuityStart
       DEF ContentInit
<1>2. PostsRest
    BY DEF ContentInit, PostsInit, PostsRest
<1>3. LibraryRest
    BY DEF ContentInit, LibraryInit, LibraryRest
<1>4. OtakuRest
    BY DEF ContentInit, OtakuInit, OtakuRest
<1>5. PresenceTypeOK /\ CommunitiesTypeOK
    BY <1>1 DEF StoreInv, CommunitiesInv
<1>6. ContinuityTypeOK
    BY LastDayAssumption DEF ContentInit, ContinuityInit, ContinuityTypeOK
<1> QED BY <1>1, <1>2, <1>3, <1>4, <1>5, <1>6, PostsTyped, LibraryTyped, OtakuTyped, Zenon
        DEF ContentInv, ContentTypeOK, PresenceHolds, PostsHold, CommunitiesHold, LibraryHolds,
            ShowcaseHolds, StreaksHold

\* The tables of an area that is not the behaviour's stay.
LEMMA OthersTyped ==
    ASSUME ContentTypeOK
    PROVE  /\ UNCHANGED presenceVars => PresenceTypeOK'
           /\ UNCHANGED postsVars => PostsTypeOK'
           /\ UNCHANGED communityVars => CommunitiesTypeOK'
           /\ UNCHANGED libraryVars => LibraryTypeOK'
           /\ UNCHANGED otakuVars => OtakuTypeOK'
           /\ UNCHANGED continuityVars => ContinuityTypeOK'
<1>1. UNCHANGED presenceVars => PresenceTypeOK'
    BY DEF ContentTypeOK, presenceVars, presenceTables, presenceHistory, PresenceTypeOK
<1>2. UNCHANGED postsVars => PostsTypeOK'
    BY DEF ContentTypeOK, postsVars, PostsTypeOK, Existing
<1>3. UNCHANGED communityVars => CommunitiesTypeOK'
    BY DEF ContentTypeOK, communityVars, CommunitiesTypeOK
<1>4. UNCHANGED libraryVars => LibraryTypeOK'
    BY DEF ContentTypeOK, libraryVars, LibraryTypeOK
<1>5. UNCHANGED otakuVars => OtakuTypeOK'
    BY DEF ContentTypeOK, otakuVars, OtakuTypeOK
<1>6. UNCHANGED continuityVars => ContinuityTypeOK'
    BY DEF ContentTypeOK, continuityVars, ContinuityTypeOK
<1> QED BY <1>1, <1>2, <1>3, <1>4, <1>5, <1>6

LEMMA ContentStep == ContentInv /\ [ContentNext]_contentVars => ContentInv'
<1> SUFFICES ASSUME ContentInv, [ContentNext]_contentVars PROVE ContentInv'
    OBVIOUS
<1> USE DEF PresenceHolds, PostsHold, CommunitiesHold, LibraryHolds, ShowcaseHolds, StreaksHold
<1>1. area' = area /\ ContentTypeOK
    BY DEF ContentNext, contentVars, ContentInv
<1>2. ASSUME PresenceArea PROVE ContentInv'
    <2>1. area = "presence" /\ StoreInv'
        BY <1>2, StoreSteps DEF PresenceArea, ContentInv
    <2>2. PresenceTypeOK'
        BY <2>1 DEF StoreInv
    <2> QED BY <1>1, <1>2, <2>1, <2>2, OthersTyped DEF PresenceArea, ContentInv, ContentTypeOK
<1>3. ASSUME PostsArea PROVE ContentInv'
    <2>1. area = "posts" /\ PostsInv' /\ PostsRest'
        BY <1>3, PostsStep, PostsRestStays DEF PostsArea, ContentInv
    <2>2. PostsTypeOK'
        BY <2>1, PostsTyped, PTL
    <2> QED BY <1>1, <1>3, <2>1, <2>2, OthersTyped DEF PostsArea, ContentInv, ContentTypeOK
<1>4. ASSUME CommunitiesArea PROVE ContentInv'
    <2>1. area = "communities" /\ CommunitiesInv'
        BY <1>4, CommunitiesStep DEF CommunitiesArea, ContentInv
    <2>2. CommunitiesTypeOK'
        BY <2>1 DEF CommunitiesInv
    <2> QED BY <1>1, <1>4, <2>1, <2>2, OthersTyped DEF CommunitiesArea, ContentInv, ContentTypeOK
<1>5. ASSUME LibraryArea PROVE ContentInv'
    <2>1. area = "library" /\ LibraryInv' /\ LibraryRest'
        BY <1>5, StepPreserves, LibraryRestStays DEF LibraryArea, ContentInv
    <2>2. LibraryTypeOK'
        BY <2>1, LibraryTyped, PTL
    <2> QED BY <1>1, <1>5, <2>1, <2>2, OthersTyped DEF LibraryArea, ContentInv, ContentTypeOK
<1>6. ASSUME ShowcaseArea PROVE ContentInv'
    <2>1. area = "showcase" /\ ShowcaseInv' /\ OtakuRest'
        BY <1>6, ShowcasePreserved, OtakuRestStays DEF ShowcaseArea, ContentInv
    <2>2. OtakuTypeOK'
        BY <2>1, OtakuTyped, PTL
    <2> QED BY <1>1, <1>6, <2>1, <2>2, OthersTyped DEF ShowcaseArea, ContentInv, ContentTypeOK
<1>7. ASSUME StreaksArea PROVE ContentInv'
    <2>1. area = "streaks" /\ ContinuityInv' /\ ContinuityTypeOK'
        BY <1>7, ContinuityStep, StreaksTyped DEF StreaksArea, ContentInv, ContentTypeOK
    <2> QED BY <1>1, <1>7, <2>1, OthersTyped DEF StreaksArea, ContentInv, ContentTypeOK
<1>8. CASE UNCHANGED contentVars
    <2>1. ContentTypeOK'
        BY <1>1, <1>8, OthersTyped DEF contentVars, ContentTypeOK
    <2>2. area = "presence" => StoreInv'
        BY <1>8, StoreSteps DEF contentVars, ContentInv
    <2>3. area = "posts" => PostsInv' /\ PostsRest'
        BY <1>8, PostsStep, PostsRestStays DEF contentVars, ContentInv
    <2>4. area = "communities" => CommunitiesInv'
        BY <1>8, CommunitiesStep DEF contentVars, ContentInv
    <2>5. area = "library" => LibraryInv' /\ LibraryRest'
        BY <1>8, StepPreserves, LibraryRestStays DEF contentVars, ContentInv
    <2>6. area = "showcase" => ShowcaseInv' /\ OtakuRest'
        BY <1>8, ShowcasePreserved, OtakuRestStays DEF contentVars, ContentInv
    <2>7. area = "streaks" => ContinuityInv'
        BY <1>8, ContinuityStep DEF contentVars, ContentInv
    <2> QED BY <1>1, <2>1, <2>2, <2>3, <2>4, <2>5, <2>6, <2>7 DEF ContentInv
<1> QED BY <1>2, <1>3, <1>4, <1>5, <1>6, <1>7, <1>8 DEF ContentNext

(* Whichever of the components runs (presence, posts, communities, library,*)
(* showcase, streaks), with any number of users and requests: every row of *)
(* every table, and what the histories record, keeps its type.             *)
THEOREM ContentIsTyped == ContentSpec => []ContentTypeOK
<1>1. ContentInv => ContentTypeOK
    BY DEF ContentInv
<1> QED BY <1>1, ContentStart, ContentStep, PTL DEF ContentSpec
=============================================================================
