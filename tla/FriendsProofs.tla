--------------------------- MODULE FriendsProofs ---------------------------
(***************************************************************************)
(* Proofs about Friends, for every finite set of users and every set of    *)
(* handlers.  FriendsInv is inductive; friendCount follows from it.        *)
(***************************************************************************)
EXTENDS Friends, FiniteSetTheorems, TLAPS

(* A handler that is about to notify has committed what it announces; and  *)
(* requests never lose their status, so it stays true.                     *)
AnnouncedInv ==
    \A h \in Reqs : pc[h] = "notifying" =>
        \/ job[h].op = "send"   /\ requests[<<job[h].user, job[h].other>>] # "none"
        \/ job[h].op = "accept" /\ requests[<<job[h].other, job[h].user>>] = "ACCEPTED"

FriendsInv ==
    /\ TypeOK
    /\ FriendshipIsMutual
    /\ FriendsConsented
    /\ NotificationsAreTrue
    /\ AnnouncedInv

-----------------------------------------------------------------------------
LEMMA FriendsInvInit == Init => FriendsInv
  BY DEF Init, FriendsInv, TypeOK, FriendshipIsMutual, FriendsConsented,
         NotificationsAreTrue, AnnouncedInv, Pairs, NoJob

(* What all handlers that only read, answer or fail have in common.        *)
LEMMA QuietSteps ==
  ASSUME FriendsInv, NEW h \in Reqs,
         UNCHANGED <<requests, friendships, friendCount, inbox, job>>,
         seen' \in [Reqs -> SUBSET {"friendship", "request"}],
         pc[h] # "idle",
         NEW w \in {"checking", "writing", "done"}, pc' = [pc EXCEPT ![h] = w],
         result' \in [Reqs -> {"none", "ok", "conflict", "notFound", "error"}],
         w # "done" => pc[h] \in {"checking", "writing"}
  PROVE  FriendsInv'
<1>1. TypeOK'
  BY DEF FriendsInv, TypeOK
<1>2. FriendshipIsMutual' /\ FriendsConsented' /\ NotificationsAreTrue'
  BY DEF FriendsInv, FriendshipIsMutual, FriendsConsented, NotificationsAreTrue
<1>3. AnnouncedInv'
  BY DEF FriendsInv, AnnouncedInv, TypeOK
<1> QED
  BY <1>1, <1>2, <1>3 DEF FriendsInv

LEMMA BeginKeeps ==
  ASSUME FriendsInv, NEW h \in Reqs, NEW op \in {"send", "accept", "remove"},
         NEW u \in Users, NEW v \in Users, Begin(h, op, u, v)
  PROVE  FriendsInv'
<1> USE DEF Begin
<1>1. TypeOK'
  BY DEF FriendsInv, TypeOK, Job
<1>2. FriendshipIsMutual' /\ FriendsConsented' /\ NotificationsAreTrue'
  BY DEF FriendsInv, FriendshipIsMutual, FriendsConsented, NotificationsAreTrue
<1>3. AnnouncedInv'
  BY DEF FriendsInv, AnnouncedInv, TypeOK
<1> QED
  BY <1>1, <1>2, <1>3 DEF FriendsInv

LEMMA SendReadsKeeps ==
  ASSUME FriendsInv, NEW h \in Reqs, NEW table \in {"friendship", "request"},
         SendReads(h, table)
  PROVE  FriendsInv'
<1>1. /\ UNCHANGED <<requests, friendships, friendCount, inbox, job>>
      /\ pc[h] = "checking"
      /\ seen' = [seen EXCEPT ![h] = @ \cup {table}]
      /\ \/ Answer(h, "conflict") \/ Proceed(h, "writing") \/ UNCHANGED <<pc, result>>
  BY DEF SendReads
<1>2. seen' \in [Reqs -> SUBSET {"friendship", "request"}]
  BY <1>1 DEF FriendsInv, TypeOK
<1>3. CASE Answer(h, "conflict")
  BY <1>1, <1>2, <1>3, QuietSteps DEF Answer, FriendsInv, TypeOK
<1>4. CASE Proceed(h, "writing")
  BY <1>1, <1>2, <1>4, QuietSteps DEF Proceed, FriendsInv, TypeOK
<1>5. CASE UNCHANGED <<pc, result>>
  <2>1. pc' = [pc EXCEPT ![h] = "checking"]
    BY <1>1, <1>5 DEF FriendsInv, TypeOK
  <2> QED
    BY <1>1, <1>2, <1>5, <2>1, QuietSteps DEF FriendsInv, TypeOK
<1> QED
  BY <1>1, <1>3, <1>4, <1>5

LEMMA CreateRequestKeeps ==
  ASSUME FriendsInv, NEW h \in Reqs, CreateRequest(h)
  PROVE  FriendsInv'
<1> DEFINE p == <<job[h].user, job[h].other>>
<1>0. p \in Pairs /\ pc[h] = "writing" /\ job[h].op = "send"
  BY DEF CreateRequest, FriendsInv, TypeOK, Job, Pairs
<1>1. CASE requests[p] = "none"
  <2>0. /\ requests' = [requests EXCEPT ![p] = "PENDING"]
        /\ pc' = [pc EXCEPT ![h] = "notifying"]
        /\ UNCHANGED <<friendships, friendCount, inbox, job, seen, result>>
    BY <1>1 DEF CreateRequest, Proceed
  <2>1. TypeOK'
    BY <1>0, <2>0 DEF FriendsInv, TypeOK
  <2>2. /\ requests'[p] = "PENDING"
        /\ \A q \in Pairs : requests[q] # "none" => requests'[q] = requests[q]
    BY <1>0, <1>1, <2>0 DEF FriendsInv, TypeOK
  <2>3. FriendshipIsMutual' /\ FriendsConsented'
    BY <2>0, <2>2 DEF FriendsInv, FriendshipIsMutual, FriendsConsented, TypeOK, Pairs, Both
  <2>4. NotificationsAreTrue'
    <3> SUFFICES ASSUME NEW n \in inbox
                 PROVE  /\ n[2] = "FRIEND_REQUEST"  => requests'[<<n[3], n[1]>>] # "none"
                        /\ n[2] = "FRIEND_ACCEPTED" => requests'[<<n[1], n[3]>>] = "ACCEPTED"
      BY <2>0 DEF NotificationsAreTrue
    <3>1. n[1] \in Users /\ n[3] \in Users
      BY DEF FriendsInv, TypeOK
    <3> QED
      BY <1>1, <2>0, <3>1 DEF FriendsInv, TypeOK, NotificationsAreTrue
  <2>5. AnnouncedInv'
    <3> SUFFICES ASSUME NEW k \in Reqs, pc'[k] = "notifying"
                 PROVE  \/ job[k].op = "send"   /\ requests'[<<job[k].user, job[k].other>>] # "none"
                        \/ job[k].op = "accept" /\ requests'[<<job[k].other, job[k].user>>] = "ACCEPTED"
      BY <2>0 DEF AnnouncedInv
    <3>1. CASE k = h
      BY <1>0, <2>2, <3>1
    <3>2. CASE k # h
      <4>1. pc[k] = "notifying"
        BY <2>0, <3>2 DEF FriendsInv, TypeOK
      <4>2. <<job[k].user, job[k].other>> \in Pairs /\ <<job[k].other, job[k].user>> \in Pairs
        BY <4>1 DEF FriendsInv, TypeOK, Job, Pairs
      <4> QED
        BY <4>1, <4>2, <2>2 DEF FriendsInv, AnnouncedInv
    <3> QED
      BY <3>1, <3>2
  <2> QED
    BY <2>1, <2>3, <2>4, <2>5 DEF FriendsInv
<1>2. CASE requests[p] # "none"
  BY <1>2, QuietSteps DEF CreateRequest, Answer, FriendsInv, TypeOK
<1> QED
  BY <1>1, <1>2

LEMMA AcceptCommitsKeeps ==
  ASSUME FriendsInv, NEW h \in Reqs, AcceptCommits(h)
  PROVE  FriendsInv'
<1> DEFINE v == job[h].user
           u == job[h].other
<1>0. /\ pc[h] = "writing" /\ job[h].op = "accept"
      /\ u \in Users /\ v \in Users /\ u # v
      /\ <<u, v>> \in Pairs /\ <<v, u>> \in Pairs
  BY DEF AcceptCommits, FriendsInv, TypeOK, Job, Pairs
<1>1. CASE friendships \cap Both(u, v) = {}
  <2>0. /\ requests' = [requests EXCEPT ![<<u, v>>] = "ACCEPTED"]
        /\ friendships' = friendships \cup Both(u, v)
        /\ friendCount' = [w \in Users |-> friendCount[w] + IF w \in {u, v} THEN 1 ELSE 0]
        /\ pc' = [pc EXCEPT ![h] = "notifying"]
        /\ UNCHANGED <<inbox, job, seen, result>>
    BY <1>1 DEF AcceptCommits, Proceed
  <2>1. TypeOK'
    <3>1. friendCount' \in [Users -> Int]
      BY <2>0 DEF FriendsInv, TypeOK
    <3>2. friendships' \subseteq Pairs
      BY <1>0, <2>0 DEF FriendsInv, TypeOK, Both
    <3> QED
      BY <1>0, <2>0, <3>1, <3>2 DEF FriendsInv, TypeOK
  <2>2. /\ requests'[<<u, v>>] = "ACCEPTED"
        /\ \A q \in Pairs : requests'[q] # requests[q] => requests'[q] = "ACCEPTED"
    BY <1>0, <2>0 DEF FriendsInv, TypeOK
  <2>3. FriendshipIsMutual'
    <3> SUFFICES ASSUME NEW p \in friendships'
                 PROVE  <<p[2], p[1]>> \in friendships'
      BY DEF FriendshipIsMutual
    <3>1. CASE p \in friendships
      BY <2>0, <3>1 DEF FriendsInv, FriendshipIsMutual
    <3>2. CASE p = <<u, v>> \/ p = <<v, u>>
      BY <2>0, <3>2 DEF Both
    <3> QED
      BY <2>0, <3>1, <3>2 DEF Both
  <2>4. FriendsConsented'
    <3> SUFFICES ASSUME NEW p \in friendships'
                 PROVE  \E q \in Both(p[1], p[2]) : requests'[q] = "ACCEPTED"
      BY DEF FriendsConsented
    <3>1. CASE p \in Both(u, v)
      BY <3>1, <2>2 DEF Both
    <3>2. CASE p \in friendships
      <4>1. PICK q \in Both(p[1], p[2]) : requests[q] = "ACCEPTED"
        BY <3>2 DEF FriendsInv, FriendsConsented
      <4>2. q \in Pairs
        BY <3>2 DEF FriendsInv, TypeOK, Pairs, Both
      <4> QED
        BY <4>1, <4>2, <2>2
    <3> QED
      BY <3>1, <3>2, <2>0
  <2>5. NotificationsAreTrue'
    <3> SUFFICES ASSUME NEW n \in inbox
                 PROVE  /\ n[2] = "FRIEND_REQUEST"  => requests'[<<n[3], n[1]>>] # "none"
                        /\ n[2] = "FRIEND_ACCEPTED" => requests'[<<n[1], n[3]>>] = "ACCEPTED"
      BY <2>0 DEF NotificationsAreTrue
    <3>1. n[1] \in Users /\ n[3] \in Users
      BY DEF FriendsInv, TypeOK
    <3> QED
      BY <2>0, <3>1 DEF FriendsInv, TypeOK, NotificationsAreTrue
  <2>6. AnnouncedInv'
    <3> SUFFICES ASSUME NEW k \in Reqs, pc'[k] = "notifying"
                 PROVE  \/ job[k].op = "send"   /\ requests'[<<job[k].user, job[k].other>>] # "none"
                        \/ job[k].op = "accept" /\ requests'[<<job[k].other, job[k].user>>] = "ACCEPTED"
      BY <2>0 DEF AnnouncedInv
    <3>1. CASE k = h
      BY <1>0, <2>2, <3>1
    <3>2. CASE k # h
      <4>1. pc[k] = "notifying"
        BY <2>0, <3>2 DEF FriendsInv, TypeOK
      <4>2. <<job[k].user, job[k].other>> \in Pairs /\ <<job[k].other, job[k].user>> \in Pairs
        BY <4>1 DEF FriendsInv, TypeOK, Job, Pairs
      <4> QED
        BY <4>1, <4>2, <2>2 DEF FriendsInv, AnnouncedInv
    <3> QED
      BY <3>1, <3>2
  <2> QED
    BY <2>1, <2>3, <2>4, <2>5, <2>6 DEF FriendsInv
<1>2. CASE friendships \cap Both(u, v) # {}
  BY <1>0, <1>2, QuietSteps DEF AcceptCommits, Answer, FriendsInv, TypeOK
<1> QED
  BY <1>1, <1>2

LEMMA RemoveCommitsKeeps ==
  ASSUME FriendsInv, NEW h \in Reqs, RemoveCommits(h)
  PROVE  FriendsInv'
<1> DEFINE u == job[h].user
           v == job[h].other
<1>0. /\ pc[h] = "writing"
      /\ friendships' = friendships \ Both(u, v)
      /\ friendCount' = [w \in Users |-> friendCount[w] - IF w \in {u, v} THEN 1 ELSE 0]
      /\ pc' = [pc EXCEPT ![h] = "done"]
      /\ result' = [result EXCEPT ![h] = "ok"]
      /\ UNCHANGED <<requests, inbox, job, seen>>
  BY DEF RemoveCommits, Answer
<1>1. TypeOK'
  <2>1. friendCount' \in [Users -> Int]
    BY <1>0 DEF FriendsInv, TypeOK
  <2> QED
    BY <1>0, <2>1 DEF FriendsInv, TypeOK
<1>2. FriendshipIsMutual'
  <2> SUFFICES ASSUME NEW p \in friendships, p \notin Both(u, v)
               PROVE  <<p[2], p[1]>> \in friendships \ Both(u, v)
    BY <1>0 DEF FriendshipIsMutual
  <2>1. <<p[2], p[1]>> \in friendships
    BY DEF FriendsInv, FriendshipIsMutual
  <2>2. p = <<p[1], p[2]>>
    BY DEF FriendsInv, TypeOK, Pairs
  <2>3. ASSUME NEW a, NEW b, <<p[2], p[1]>> = <<a, b>> PROVE p = <<b, a>>
    BY <2>2, <2>3
  <2> QED
    BY <2>1, <2>3 DEF Both
<1>3. FriendsConsented' /\ NotificationsAreTrue' /\ AnnouncedInv'
  BY <1>0 DEF FriendsInv, FriendsConsented, NotificationsAreTrue, AnnouncedInv, TypeOK
<1> QED
  BY <1>1, <1>2, <1>3 DEF FriendsInv

LEMMA NotifyKeeps ==
  ASSUME FriendsInv, NEW h \in Reqs, Notify(h)
  PROVE  FriendsInv'
<1> DEFINE type == IF job[h].op = "send" THEN "FRIEND_REQUEST" ELSE "FRIEND_ACCEPTED"
           n == <<job[h].other, type, job[h].user>>
<1>0. /\ pc[h] = "notifying"
      /\ inbox' = inbox \cup {n}
      /\ pc' = [pc EXCEPT ![h] = "done"]
      /\ result' = [result EXCEPT ![h] = "ok"]
      /\ UNCHANGED <<requests, friendships, friendCount, job, seen>>
  BY DEF Notify, Answer
<1>1. job[h] \in Job
  BY <1>0 DEF FriendsInv, TypeOK
<1>2. TypeOK'
  BY <1>0, <1>1 DEF FriendsInv, TypeOK, Job
<1>3. FriendshipIsMutual' /\ FriendsConsented' /\ AnnouncedInv'
  BY <1>0 DEF FriendsInv, FriendshipIsMutual, FriendsConsented, AnnouncedInv, TypeOK
<1>4. NotificationsAreTrue'
  <2>1. /\ type = "FRIEND_REQUEST"  => requests[<<job[h].user, job[h].other>>] # "none"
        /\ type = "FRIEND_ACCEPTED" => requests[<<job[h].other, job[h].user>>] = "ACCEPTED"
    BY <1>0 DEF FriendsInv, AnnouncedInv
  <2>2. /\ n[2] = "FRIEND_REQUEST"  => requests[<<n[3], n[1]>>] # "none"
        /\ n[2] = "FRIEND_ACCEPTED" => requests[<<n[1], n[3]>>] = "ACCEPTED"
    <3>1. n[1] = job[h].other /\ n[2] = type /\ n[3] = job[h].user
      OBVIOUS
    <3> QED
      BY <2>1, <3>1
  <2>3. ASSUME NEW k \in inbox
        PROVE  /\ k[2] = "FRIEND_REQUEST"  => requests[<<k[3], k[1]>>] # "none"
               /\ k[2] = "FRIEND_ACCEPTED" => requests[<<k[1], k[3]>>] = "ACCEPTED"
    BY <2>3 DEF FriendsInv, NotificationsAreTrue
  <2> HIDE DEF n
  <2> QED
    BY <1>0, <2>2, <2>3 DEF NotificationsAreTrue
<1> QED
  BY <1>2, <1>3, <1>4 DEF FriendsInv

(* Friendship is mutual and consented, and notifications are true: no      *)
(* interleaving of sends, accepts, removals and failing queries leaves     *)
(* anything half done.                                                     *)
THEOREM FriendsInvariant == Spec => []FriendsInv
<1>1. Init => FriendsInv
  BY FriendsInvInit
<1>2. FriendsInv /\ [Next]_vars => FriendsInv'
  <2> SUFFICES ASSUME FriendsInv, [Next]_vars PROVE FriendsInv'
    OBVIOUS
  <2>1. CASE UNCHANGED vars
    BY <2>1 DEF vars, FriendsInv, TypeOK, FriendshipIsMutual, FriendsConsented,
                NotificationsAreTrue, AnnouncedInv
  <2>2. ASSUME NEW h \in Reqs, NEW op \in {"send", "accept", "remove"},
               NEW u \in Users, NEW v \in Users, Begin(h, op, u, v)
        PROVE  FriendsInv'
    BY <2>2, BeginKeeps
  <2>3. ASSUME NEW h \in Reqs, NEW table \in {"friendship", "request"}, SendReads(h, table)
        PROVE  FriendsInv'
    BY <2>3, SendReadsKeeps
  <2>4. ASSUME NEW h \in Reqs, CreateRequest(h) PROVE FriendsInv'
    BY <2>4, CreateRequestKeeps
  <2>5. ASSUME NEW h \in Reqs, AcceptReads(h) PROVE FriendsInv'
    BY <2>5, QuietSteps DEF AcceptReads, Answer, Proceed, FriendsInv, TypeOK
  <2>6. ASSUME NEW h \in Reqs, AcceptCommits(h) PROVE FriendsInv'
    BY <2>6, AcceptCommitsKeeps
  <2>7. ASSUME NEW h \in Reqs, RemoveReads(h) PROVE FriendsInv'
    BY <2>7, QuietSteps DEF RemoveReads, Answer, Proceed, FriendsInv, TypeOK
  <2>8. ASSUME NEW h \in Reqs, RemoveCommits(h) PROVE FriendsInv'
    BY <2>8, RemoveCommitsKeeps
  <2>9. ASSUME NEW h \in Reqs, Notify(h) PROVE FriendsInv'
    BY <2>9, NotifyKeeps
  <2>10. ASSUME NEW h \in Reqs, QueryFails(h) PROVE FriendsInv'
    BY <2>10, QuietSteps DEF QueryFails, Answer, FriendsInv, TypeOK
  <2> QED
    BY <2>1, <2>2, <2>3, <2>4, <2>5, <2>6, <2>7, <2>8, <2>9, <2>10 DEF Next
<1> QED
  BY <1>1, <1>2, PTL DEF Spec

(* Every reachable state is well typed.                                    *)
THEOREM FriendsTypeCorrect == Spec => []TypeOK
<1>1. FriendsInv => TypeOK
  BY DEF FriendsInv
<1> QED
  BY <1>1, FriendsInvariant, PTL

(* Neither side of a friendship is ever left with half of it.              *)
THEOREM FriendshipStaysMutual == Spec => []FriendshipIsMutual
<1>1. FriendsInv => FriendshipIsMutual
  BY DEF FriendsInv
<1> QED
  BY <1>1, FriendsInvariant, PTL

(* Nobody becomes a friend without an accepted request.                    *)
THEOREM FriendshipNeedsConsent == Spec => []FriendsConsented
<1>1. FriendsInv => FriendsConsented
  BY DEF FriendsInv
<1> QED
  BY <1>1, FriendsInvariant, PTL

(* A notification speaks of something that was committed.                  *)
THEOREM NotificationsTellTheTruth == Spec => []NotificationsAreTrue
<1>1. FriendsInv => NotificationsAreTrue
  BY DEF FriendsInv
<1> QED
  BY <1>1, FriendsInvariant, PTL

-----------------------------------------------------------------------------
(* friendCount *)

LEMMA FriendsFinite ==
  ASSUME NEW w PROVE IsFiniteSet(FriendsOf(w)) /\ Cardinality(FriendsOf(w)) \in Nat
<1>1. FriendsOf(w) \subseteq Users
  BY DEF FriendsOf
<1>2. IsFiniteSet(FriendsOf(w))
  BY <1>1, UsersAssumption, FS_Subset
<1> QED
  BY <1>2, FS_CardinalityType

(* The profile never claims more friends than there are.                   *)
THEOREM FriendCountIsBounded == Spec => []FriendCountNeverOverstates
<1>1. Init => FriendCountNeverOverstates
  BY FriendsFinite DEF Init, FriendCountNeverOverstates
<1>2. ASSUME FriendsInv, FriendCountNeverOverstates, [Next]_vars
      PROVE  FriendCountNeverOverstates'
  <2>1. CASE UNCHANGED <<friendships, friendCount>>
    BY <1>2, <2>1 DEF FriendCountNeverOverstates, FriendsOf
  <2>2. ASSUME NEW h \in Reqs, AcceptCommits(h),
               friendships \cap Both(job[h].other, job[h].user) = {}
        PROVE  FriendCountNeverOverstates'
    <3> DEFINE u == job[h].other
               v == job[h].user
    <3>0. /\ u \in Users /\ v \in Users /\ u # v
          /\ friendships' = friendships \cup Both(u, v)
          /\ friendCount' = [w \in Users |-> friendCount[w] + IF w \in {u, v} THEN 1 ELSE 0]
      BY <1>2, <2>2 DEF AcceptCommits, FriendsInv, TypeOK, Job
    <3> SUFFICES ASSUME NEW w \in Users
                 PROVE  friendCount'[w] <= Cardinality(FriendsOf(w))'
      BY DEF FriendCountNeverOverstates
    <3>1. friendCount[w] \in Int /\ friendCount[w] <= Cardinality(FriendsOf(w))
      BY <1>2 DEF FriendsInv, TypeOK, FriendCountNeverOverstates
    <3>2. CASE w \notin {u, v}
      <4>1. FriendsOf(w)' = FriendsOf(w)
        BY <3>0, <3>2 DEF FriendsOf, Both
      <4> QED
        BY <3>0, <3>1, <3>2, <4>1
    <3>3. ASSUME NEW x \in Users, x \notin FriendsOf(w), FriendsOf(w)' = FriendsOf(w) \cup {x},
                 friendCount'[w] = friendCount[w] + 1
          PROVE  friendCount'[w] <= Cardinality(FriendsOf(w))'
      <4>1. Cardinality(FriendsOf(w) \cup {x}) = Cardinality(FriendsOf(w)) + 1
        BY <3>3, FriendsFinite, FS_AddElement
      <4> QED
        BY <3>1, <3>3, <4>1, FriendsFinite
    <3>4. CASE w = u
      BY <2>2, <3>0, <3>3, <3>4 DEF FriendsOf, Both
    <3>5. CASE w = v
      BY <2>2, <3>0, <3>3, <3>5 DEF FriendsOf, Both
    <3> QED
      BY <3>2, <3>4, <3>5
  <2>3. ASSUME NEW h \in Reqs, RemoveCommits(h)
        PROVE  FriendCountNeverOverstates'
    <3> DEFINE u == job[h].user
               v == job[h].other
    <3>0. /\ u \in Users /\ v \in Users /\ u # v
          /\ friendships' = friendships \ Both(u, v)
          /\ friendCount' = [w \in Users |-> friendCount[w] - IF w \in {u, v} THEN 1 ELSE 0]
      BY <1>2, <2>3 DEF RemoveCommits, FriendsInv, TypeOK, Job
    <3> SUFFICES ASSUME NEW w \in Users
                 PROVE  friendCount'[w] <= Cardinality(FriendsOf(w))'
      BY DEF FriendCountNeverOverstates
    <3>1. friendCount[w] \in Int /\ friendCount[w] <= Cardinality(FriendsOf(w))
      BY <1>2 DEF FriendsInv, TypeOK, FriendCountNeverOverstates
    <3>2. CASE w \notin {u, v}
      <4>1. FriendsOf(w)' = FriendsOf(w)
        BY <3>0, <3>2 DEF FriendsOf, Both
      <4> QED
        BY <3>0, <3>1, <3>2, <4>1
    <3>3. ASSUME NEW x \in Users, FriendsOf(w)' = FriendsOf(w) \ {x},
                 friendCount'[w] = friendCount[w] - 1
          PROVE  friendCount'[w] <= Cardinality(FriendsOf(w))'
      <4>1. Cardinality(FriendsOf(w) \ {x})
              = IF x \in FriendsOf(w) THEN Cardinality(FriendsOf(w)) - 1 ELSE Cardinality(FriendsOf(w))
        BY FriendsFinite, FS_RemoveElement
      <4> QED
        BY <3>1, <3>3, <4>1, FriendsFinite
    <3>4. CASE w = u
      BY <3>0, <3>3, <3>4 DEF FriendsOf, Both
    <3>5. CASE w = v
      BY <3>0, <3>3, <3>5 DEF FriendsOf, Both
    <3> QED
      BY <3>2, <3>4, <3>5
  <2>4. \/ UNCHANGED <<friendships, friendCount>>
        \/ \E h \in Reqs : /\ AcceptCommits(h)
                           /\ friendships \cap Both(job[h].other, job[h].user) = {}
        \/ \E h \in Reqs : RemoveCommits(h)
    BY <1>2 DEF Next, vars, Begin, SendReads, CreateRequest, AcceptReads, AcceptCommits,
                RemoveReads, Notify, QueryFails
  <2> QED
    BY <2>1, <2>2, <2>3, <2>4
<1> QED
  BY <1>1, <1>2, FriendsInvariant, PTL DEF Spec
=============================================================================
