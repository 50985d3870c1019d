---------------------------- MODULE Communities ----------------------------
(***************************************************************************)
(* Public communities: community.service.ts and community.repository.ts    *)
(* behind /communities.                                                    *)
(*                                                                         *)
(* A community is created with its owner's membership in one transaction.  *)
(* Joining and leaving look up the community and the caller's role, write, *)
(* and read the community again for the answer; each query is one step.    *)
(* The database rejects a second community of a slug and a second          *)
(* membership of a user.  Nothing changes the slug, the visibility, the    *)
(* status or the owner of a community, and nothing deletes one.            *)
(*                                                                         *)
(* Names that normalise to one slug are the same model value.              *)
(***************************************************************************)
EXTENDS Handlers, Integers, FiniteSets

CONSTANTS
    Slugs,
    Founders   \* Founders[s]: who created s before, or None

ASSUME FoundersAssumption == Founders \in [Slugs -> Users \cup {None}]
ASSUME RoleAssumption == None \notin Users \cup {"OWNER", "MEMBER"}

\* null is none of the answers.
ASSUME AnswerAssumption ==
    None \notin [what : {"created", "joined", "left", "error"}, at : {"transaction", "summary"}]

VARIABLES
    owner,   \* owner[s]: the owner of the community with slug s
    role     \* community_members: role[s][u]

communityVars == <<owner, role>>

CommunitiesInit ==
    /\ owner = Founders
    /\ role = [s \in Slugs |-> [u \in Users |-> IF u = Founders[s] THEN "OWNER" ELSE None]]

Members(s) == {u \in Users : role[s][u] # None}

\* CommunityDetail: the summary with memberCount, and the caller's own role.
Detail(s, mine) == [count |-> Cardinality(Members(s)), role |-> mine]

CommunityRequest(op, u, s) == [op |-> op, user |-> u, slug |-> s, seen |-> None]

CommunityBegins(h, op, u, s) ==
    /\ Begin(h, "community", CommunityRequest(op, u, s))
    /\ UNCHANGED communityVars

\* The lookup every request starts with: a slug is free, or a community is there.
FindCommunity(h) ==
    LET s == job[h].slug
        op == job[h].op
    IN
    /\ pc[h] = "community"
    /\ CASE op = "found" -> IF owner[s] = None THEN Await(h, "transaction") ELSE End(h)
         [] op # "found" -> IF owner[s] # None THEN Await(h, "role") ELSE End(h)
    /\ UNCHANGED communityVars

\* Mutant: the owner's membership is created for whoever the handler serves,
\* outside the transaction, when the community was there already.
CreateOrTakeOver(h) ==
    LET s == job[h].slug
        u == job[h].user
    IN
    /\ At(h, "found", "transaction")
    /\ owner' = [owner EXCEPT ![s] = u]
    /\ role' = [role EXCEPT ![s][u] = "OWNER"]
    /\ Answer(h, "created")

(***************************************************************************)
(* community.create and communityMember.create in one transaction; a       *)
(* unique violation is answered as a conflict.                             *)
(***************************************************************************)
CreateCommunity(h) ==
    LET s == job[h].slug
        u == job[h].user
    IN
    /\ At(h, "found", "transaction")
    /\ IF owner[s] = None
       THEN /\ owner' = [owner EXCEPT ![s] = u]
            /\ role' = [role EXCEPT ![s][u] = "OWNER"]
            /\ Answer(h, "created")
       ELSE UNCHANGED communityVars /\ End(h)

FindRole(h) ==
    LET s == job[h].slug
        mine == role[s][job[h].user]
    IN
    /\ pc[h] = "role"
    /\ CASE job[h].op = "view"  -> End(h)
         [] job[h].op = "join"  -> IF mine = None THEN Await(h, "member") ELSE End(h)
         [] job[h].op = "leave" -> IF mine = "MEMBER" THEN Await(h, "member") ELSE End(h)
    /\ UNCHANGED communityVars

AddMember(h) ==
    LET s == job[h].slug
        u == job[h].user
    IN
    /\ At(h, "join", "member")
    /\ IF role[s][u] = None
       THEN role' = [role EXCEPT ![s][u] = "MEMBER"] /\ Await(h, "summary")
       ELSE UNCHANGED role /\ End(h)
    /\ UNCHANGED owner

\* Mutant: the number of rows deleted is not looked at.
RemoveAnyCount(h) ==
    LET s == job[h].slug
        u == job[h].user
    IN
    /\ At(h, "leave", "member")
    /\ role' = [role EXCEPT ![s][u] = IF @ = "MEMBER" THEN None ELSE @]
    /\ Await(h, "summary")
    /\ UNCHANGED owner

\* deleteMany where role = MEMBER, and the count of the rows it deleted.
RemoveMember(h) ==
    LET s == job[h].slug
        u == job[h].user
    IN
    /\ At(h, "leave", "member")
    /\ IF role[s][u] = "MEMBER"
       THEN role' = [role EXCEPT ![s][u] = None] /\ Await(h, "summary")
       ELSE UNCHANGED role /\ End(h)
    /\ UNCHANGED owner

\* The community is read again; the role in the answer is not.
ReadSummary(h) ==
    LET mine == IF job[h].op = "join" THEN "MEMBER" ELSE None IN
    /\ pc[h] = "summary"
    /\ AnswerWith(h, IF job[h].op = "join" THEN "joined" ELSE "left",
                  [job[h] EXCEPT !.seen = Detail(job[h].slug, mine)])
    /\ UNCHANGED communityVars

CommunitiesNext ==
    \E h \in Handlers :
        \/ \E op \in {"found", "join", "leave", "view"}, u \in Users, s \in Slugs :
             CommunityBegins(h, op, u, s)
        \/ FindCommunity(h) \/ CreateCommunity(h) \/ FindRole(h)
        \/ AddMember(h) \/ RemoveMember(h) \/ ReadSummary(h)
        \/ QueryFails(h, {"summary"}) /\ UNCHANGED communityVars

CommunitiesSpec ==
    HandlersInit /\ CommunitiesInit /\ [][CommunitiesNext]_<<handlerVars, communityVars>>

-----------------------------------------------------------------------------
(* Properties *)

CommunitiesTypeOK ==
    /\ owner \in [Slugs -> Users \cup {None}]
    /\ role \in [Slugs -> [Users -> {"OWNER", "MEMBER", None}]]

(* However creations, joins and leaves cross, a community has exactly one  *)
(* owner among its members, the user who created it, and nobody is a       *)
(* member of a community that does not exist.                              *)
OwnerIsMember ==
    \A s \in Slugs, u \in Users :
        /\ role[s][u] = "OWNER" <=> owner[s] = u
        /\ owner[s] = None => role[s][u] = None

TookEffect(op, s, u) ==
    {h \in Handlers : /\ job[h].op = op /\ job[h].user = u /\ job[h].slug = s
                      /\ pc[h] = "summary" \/ ans[h] # None}

(* Joins and leaves of one user that cross: those that report success took *)
(* turns, so that their number tells whether the user is a member; and one *)
(* creation per slug reports success.                                      *)
MembershipAddsUp ==
    \A s \in Slugs :
        /\ Cardinality({h \in Handlers : Answered(h, "created") /\ job[h].slug = s}) <= 1
        /\ \A u \in Users : owner[s] # u =>
             Cardinality(TookEffect("join", s, u)) - Cardinality(TookEffect("leave", s, u))
                 = IF role[s][u] = None THEN 0 ELSE 1
=============================================================================
