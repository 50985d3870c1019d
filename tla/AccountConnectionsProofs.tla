--------------------- MODULE AccountConnectionsProofs ---------------------
(***************************************************************************)
(* Proofs of WayIn and IdentityIsStable, for every set of users, requests, *)
(* providers and identities, and, at the end, of HonouredOnce and          *)
(* PageIsTrue of ConnectFlow.                                              *)
(*                                                                         *)
(* The first two are about what a request has checked and not yet written. *)
(* WayIn follows from what the check of an unlink has established: as long *)
(* as no other unlink of the user has passed its check too, the account it *)
(* counted on stays.  IdentityIsStable follows from what a callback has    *)
(* found in the row, in the same way.                                      *)
(***************************************************************************)
EXTENDS AccountConnections, ConnectFlow, TLAPS

Created(u) == u \in Users /\ user[u] # None

HasUser(r) ==
    \/ req[r].pc = "identity" /\ req[r].op = "link"
    \/ req[r].pc \in {"provider", "owner", "upsert", "check", "delete"}

(* Whoever a row, a state or a request speaks of has a row in users.       *)
CreatedInv ==
    /\ \A u \in member : Created(u)
    /\ \A u \in Users, p \in Providers : acct[u][p] # None => Created(u)
    /\ \A s \in states : s.op = "link" => Created(s.user)
    /\ \A r \in Reqs : HasUser(r) => Created(req[r].user)

(* r is about to remove a login account of its user.                       *)
Removing(r) == req[r].pc = "delete" /\ ProviderOf[req[r].id] \in LoginProviders

(* Another account at a login provider, demoted or not.                    *)
OtherAccount(u, p) == \E q \in LoginProviders \ {p} : acct[u][q] # None

(* Another login remains, unless the request has made no check, or two     *)
(* requests are removing one each, and then both are marked.               *)
RemovalInv ==
    /\ \A r \in Reqs : Removing(r) /\ ~req[r].rival /\ req[r].op # "drop" =>
         HasViablePasswordLogin(req[r].user) \/ OtherAccount(req[r].user, ProviderOf[req[r].id])
    /\ \A r, q \in Reqs :
         r # q /\ Removing(r) /\ Removing(q) /\ req[r].user = req[q].user => req[r].rival

AccountInv == TypeOK /\ CreatedInv /\ RemovalInv

USE ProviderAssumption, NoneAssumption

-----------------------------------------------------------------------------
LEMMA AccountInvInit == Init => AccountInv
  BY DEF Init, AccountInv, TypeOK, CreatedInv, HasUser, RemovalInv, Removing, Requests, Idle

LEMMA EndKeepsType ==
  ASSUME TypeOK, NEW r \in Reqs, Settle(r)
  PROVE  req' \in [Reqs -> Requests] /\ \A q \in Reqs : req'[q].pc # "idle" => req'[q].id \in Ids
  BY DEF TypeOK, Settle, Idle, Requests

LEMMA GotoKeepsType ==
  ASSUME TypeOK, NEW r \in Reqs, req[r].pc # "idle",
         NEW at \in {"email", "create", "provider", "owner", "upsert", "delete"}, Goto(r, at)
  PROVE  req' \in [Reqs -> Requests] /\ \A q \in Reqs : req'[q].pc # "idle" => req'[q].id \in Ids
<1>1. req[r] \in Requests /\ req' = [req EXCEPT ![r] = [req[r] EXCEPT !.pc = at]]
  BY DEF TypeOK, Goto
<1>2. [req[r] EXCEPT !.pc = at] \in Requests /\ [req[r] EXCEPT !.pc = at].id = req[r].id
  BY <1>1 DEF Requests
<1> QED
  BY <1>1, <1>2 DEF TypeOK

LEMMA PassKeepsType ==
  ASSUME TypeOK, NEW r \in Reqs, NEW next \in Requests, next.id \in Ids,
         NEW rivals \in SUBSET Reqs, Pass(r, next, rivals)
  PROVE  req' \in [Reqs -> Requests] /\ \A q \in Reqs : req'[q].pc # "idle" => req'[q].id \in Ids
<1> DEFINE past == [next EXCEPT !.rival = rivals # {}]
           marked(q) == [req[q] EXCEPT !.rival = TRUE]
<1>1. \A q \in Reqs : req[q] \in Requests
  BY DEF TypeOK
<1>2. past \in Requests /\ past.id = next.id
  BY DEF Requests
<1>3. \A q \in Reqs : /\ marked(q) \in Requests
                      /\ marked(q).id = req[q].id /\ marked(q).pc = req[q].pc
  BY <1>1 DEF Requests
<1>4. req' = [q \in Reqs |-> IF q = r THEN past ELSE IF q \in rivals THEN marked(q) ELSE req[q]]
  BY DEF Pass
<1> HIDE DEF past, marked
<1> QED
  BY <1>1, <1>2, <1>3, <1>4 DEF TypeOK

(* A request that only moves on.                                           *)
LEMMA Onward ==
  ASSUME TypeOK, NEW r \in Reqs, req[r].pc # "idle", NEW at \in {"owner", "delete"}
  PROVE  LET next == [req[r] EXCEPT !.pc = at]
         IN  /\ next \in Requests /\ next.id = req[r].id /\ next.id \in Ids
             /\ next.pc = at /\ next.op = req[r].op /\ next.user = req[r].user
<1>1. req[r] \in Requests /\ req[r].id \in Ids
  BY DEF TypeOK
<1> QED
  BY <1>1 DEF Requests

(* A step that leaves the tables alone keeps TypeOK if it does so for the  *)
(* requests.                                                               *)
LEMMA ReqStep ==
  ASSUME TypeOK, user' = user, acct' = acct, demoted' = demoted, states' \subseteq states,
         member' \subseteq Users,
         req' \in [Reqs -> Requests] /\ \A q \in Reqs : req'[q].pc # "idle" => req'[q].id \in Ids
  PROVE  TypeOK'
  BY DEF TypeOK

LEMMA TypeKept == TypeOK /\ CreatedInv /\ [Next]_vars => TypeOK'
<1> SUFFICES ASSUME TypeOK, CreatedInv, [Next]_vars PROVE TypeOK'
  OBVIOUS
<1>1. CASE UNCHANGED vars
  BY <1>1 DEF TypeOK, vars
<1>2. ASSUME NEW u \in Users, NEW email \in Emails, Register(u, email) PROVE TypeOK'
  BY <1>2 DEF Register, TypeOK
<1>3. ASSUME NEW p \in Providers, StartLogin(p) PROVE TypeOK'
  BY <1>3 DEF StartLogin, Store, TypeOK
<1>4. ASSUME NEW p \in Providers, NEW u \in Users, StartLink(u, p) PROVE TypeOK'
  BY <1>4 DEF StartLink, Store, TypeOK
<1>5. ASSUME NEW s \in states, Expire(s) PROVE TypeOK'
  BY <1>5 DEF Expire, TypeOK
<1>6. ASSUME NEW s \in states, NEW r \in Reqs, NEW i \in Ids, Callback(r, s, i) PROVE TypeOK'
  <2>1. s.op \in {"login", "link"} /\ s.user \in Users \cup {None}
    BY DEF TypeOK
  <2>3. req' \in [Reqs -> Requests] /\ \A q \in Reqs : req'[q].pc # "idle" => req'[q].id \in Ids
    BY <1>6, <2>1 DEF Callback, TypeOK, Requests
  <2> QED
    BY <1>6, <2>3, ReqStep DEF Callback, TypeOK
<1>7. ASSUME NEW r \in Reqs, FindIdentity(r) PROVE TypeOK'
  <2>1. member' \subseteq Users
    BY <1>7 DEF FindIdentity, Owners, TypeOK
  <2>2. Settle(r) \/ Goto(r, "email") \/ Goto(r, "provider")
    BY <1>7 DEF FindIdentity
  <2> QED
    BY <1>7, <2>1, <2>2, EndKeepsType, GotoKeepsType, ReqStep DEF FindIdentity
<1>8. ASSUME NEW r \in Reqs, FindEmail(r) PROVE TypeOK'
  <2>1. Settle(r) \/ Goto(r, "create")
    BY <1>8 DEF FindEmail
  <2> QED
    BY <1>8, <2>1, EndKeepsType, GotoKeepsType, ReqStep DEF FindEmail, TypeOK
<1>9. ASSUME NEW r \in Reqs, NEW u \in Users, Create(r, u) PROVE TypeOK'
  <2>1. CASE Taken(EmailFor(req[r].id))
    BY <1>9, <2>1, EndKeepsType, ReqStep DEF Create, TypeOK
  <2>2. CASE ~Taken(EmailFor(req[r].id))
    <3>1. /\ user' = [user EXCEPT ![u] = EmailFor(req[r].id)]
          /\ req' = [req EXCEPT ![r] = [req[r] EXCEPT !.pc = "provider", !.user = u]]
      BY <1>9, <2>2 DEF Create
    <3>2. req[r].id \in Ids
      BY <1>9 DEF Create, TypeOK
    <3>3. EmailFor(req[r].id) \in Emails \cup Ids
      BY <3>2 DEF EmailFor
    <3>4. user' \in [Users -> {None} \cup Emails \cup Ids]
      BY <3>1, <3>3 DEF TypeOK
    <3>5. req' \in [Reqs -> Requests] /\ \A q \in Reqs : req'[q].pc # "idle" => req'[q].id \in Ids
      <4> DEFINE next == [req[r] EXCEPT !.pc = "provider", !.user = u]
      <4>1. req[r] \in Requests
        BY DEF TypeOK
      <4>2. next \in Requests /\ next.id = req[r].id
        BY <4>1 DEF Requests
      <4> HIDE DEF next
      <4> QED
        BY <3>1, <3>2, <4>2 DEF TypeOK, next
    <3> QED
      BY <1>9, <3>4, <3>5 DEF Create, TypeOK
  <2> QED
    BY <2>1, <2>2
<1>10. ASSUME NEW r \in Reqs, FindProvider(r) PROVE TypeOK'
  <2> DEFINE next == [req[r] EXCEPT !.pc = "owner"]
             R == Rivals(r, req[r].user, req[r].id)
  <2>1. R \subseteq Reqs /\ next \in Requests /\ next.id \in Ids
    BY <1>10, Onward DEF Rivals, FindProvider
  <2>2. Settle(r) \/ Pass(r, next, R)
    BY <1>10 DEF FindProvider
  <2> HIDE DEF next, R
  <2> QED
    BY <1>10, <2>1, <2>2, EndKeepsType, PassKeepsType, ReqStep DEF FindProvider, TypeOK
<1>11. ASSUME NEW r \in Reqs, FindOwner(r) PROVE TypeOK'
  <2>1. Settle(r) \/ Goto(r, "upsert")
    BY <1>11 DEF FindOwner
  <2> QED
    BY <1>11, <2>1, EndKeepsType, GotoKeepsType, ReqStep DEF FindOwner, TypeOK
<1>12. ASSUME NEW r \in Reqs, Upsert(r) PROVE TypeOK'
  <2> DEFINE i == req[r].id
             w == req[r].user
  <2>0. i \in Ids /\ ProviderOf[i] \in Providers /\ w \in Users \cup {None}
    BY <1>12 DEF Upsert, TypeOK, Requests
  <2>1. CASE Constrained(i, w)
    BY <1>12, <2>1, EndKeepsType, ReqStep DEF Upsert, TypeOK
  <2>2. CASE ~Constrained(i, w)
    <3>1. /\ acct' = [acct EXCEPT ![w][ProviderOf[i]] = i]
          /\ demoted' \subseteq demoted \cup {<<w, ProviderOf[i]>>}
          /\ member' = IF req[r].op = "login" THEN member \cup {w} ELSE member
      BY <1>12, <2>2 DEF Upsert
    <3>2. acct' \in [Users -> [Providers -> Ids \cup {None}]]
      BY <3>1, <2>0 DEF TypeOK
    <3>3. \A u \in Users, p \in Providers :
            acct'[u][p] = IF u = w /\ p = ProviderOf[i] THEN i ELSE acct[u][p]
      BY <3>1, <2>0 DEF TypeOK
    <3>4. \A v \in Users \ {w} : acct[v][ProviderOf[i]] # i
      BY <2>2 DEF Constrained, OwnedByOther
    <3>5. ASSUME NEW u \in Users, NEW v \in Users, NEW p \in Providers,
                 acct'[u][p] # None, acct'[u][p] = acct'[v][p]
          PROVE  u = v
      BY <3>3, <3>4, <3>5 DEF TypeOK
    <3>6. member' \subseteq Users
      BY <1>12, <3>1 DEF Upsert, CreatedInv, HasUser, Created, TypeOK
    <3>8. demoted' \subseteq Users \X Providers
      BY <1>12, <2>0, <3>1 DEF Upsert, CreatedInv, HasUser, Created, TypeOK
    <3>7. \A u \in Users, p \in Providers : acct'[u][p] # None => ProviderOf[acct'[u][p]] = p
      BY <3>3 DEF TypeOK
    <3> QED
      BY <1>12, <3>2, <3>5, <3>6, <3>7, <3>8, EndKeepsType DEF Upsert, TypeOK
  <2> QED
    BY <2>1, <2>2
<1>13. ASSUME NEW r \in Reqs, CheckUnlink(r) PROVE TypeOK'
  <2> DEFINE next == [req[r] EXCEPT !.pc = "delete"]
             U == Unlinking(r, req[r].user)
  <2>1. U \subseteq Reqs /\ next \in Requests /\ next.id \in Ids
    BY <1>13, Onward DEF Unlinking, CheckUnlink
  <2>2. Settle(r) \/ Pass(r, next, U)
    BY <1>13 DEF CheckUnlink
  <2> HIDE DEF next, U
  <2> QED
    BY <1>13, <2>1, <2>2, EndKeepsType, PassKeepsType, ReqStep DEF CheckUnlink, TypeOK
<1>14. ASSUME NEW r \in Reqs, Delete(r) PROVE TypeOK'
  <2> DEFINE w == req[r].user
             p == ProviderOf[req[r].id]
  <2>1. acct' = [acct EXCEPT ![w][p] = None] /\ demoted' \subseteq demoted
    BY <1>14 DEF Delete
  <2>2. acct' \in [Users -> [Providers -> Ids \cup {None}]]
    BY <2>1 DEF TypeOK
  <2>3. \A u \in Users, q \in Providers :
          acct'[u][q] = IF u = w /\ q = p THEN None ELSE acct[u][q]
    BY <2>1 DEF TypeOK
  <2>4. \A u, v \in Users, q \in Providers :
          acct'[u][q] # None /\ acct'[u][q] = acct'[v][q] => u = v
    BY <2>3 DEF TypeOK
  <2> QED
    BY <1>14, <2>1, <2>2, <2>4, EndKeepsType DEF Delete, TypeOK
<1>15. ASSUME NEW r \in Reqs, Abort(r) PROVE TypeOK'
  BY <1>15, EndKeepsType, ReqStep DEF Abort, TypeOK
<1>16. ASSUME NEW r \in Reqs, NEW u \in Users, NEW p \in Providers, Unlink(r, u, p) PROVE TypeOK'
  <2> DEFINE new(at, op) ==
               [pc |-> at, op |-> op, user |-> u, id |-> acct[u][p], rival |-> FALSE]
             U == Unlinking(r, u)
  <2>1. \A at \in {"check", "delete"}, op \in {"unlink", "drop"} :
          new(at, op) \in Requests /\ new(at, op).id \in Ids
    BY <1>16 DEF Unlink, Requests, TypeOK
  <2>2. U \subseteq Reqs
    BY DEF Unlinking
  <2>3. \/ Pass(r, new("delete", "drop"), U)
        \/ \E at \in {"check", "delete"} : req' = [req EXCEPT ![r] = new(at, "unlink")]
    BY <1>16 DEF Unlink
  <2> HIDE DEF new, U
  <2>4. req' \in [Reqs -> Requests] /\ \A q \in Reqs : req'[q].pc # "idle" => req'[q].id \in Ids
    <3>1. CASE Pass(r, new("delete", "drop"), U)
      BY <2>1, <2>2, <3>1, PassKeepsType
    <3>2. CASE ~Pass(r, new("delete", "drop"), U)
      <4>1. PICK request \in Requests : req' = [req EXCEPT ![r] = request] /\ request.id \in Ids
        BY <2>1, <2>3, <3>2
      <4> QED
        BY <4>1 DEF TypeOK
    <3> QED
      BY <3>1, <3>2
  <2> QED
    BY <1>16, <2>4, ReqStep DEF Unlink, TypeOK
<1>17. ASSUME NEW r \in Reqs, NEW u \in Users, NEW i \in Ids, Connect(r, u, i) PROVE TypeOK'
  <2> DEFINE new == [pc |-> "owner", op |-> "connect", user |-> u, id |-> i, rival |-> FALSE]
             R == Rivals(r, u, i)
  <2>1. new \in Requests /\ new.id \in Ids /\ R \subseteq Reqs
    BY DEF Requests, Rivals
  <2>2. Pass(r, new, R)
    BY <1>17 DEF Connect
  <2> HIDE DEF new, R
  <2> QED
    BY <1>17, <2>1, <2>2, PassKeepsType, ReqStep DEF Connect, TypeOK
<1> QED
  BY <1>1, <1>2, <1>3, <1>4, <1>5, <1>6, <1>7, <1>8, <1>9, <1>10, <1>11, <1>12, <1>13,
     <1>14, <1>15, <1>16, <1>17 DEF Next, Step

-----------------------------------------------------------------------------
(* Rows of users are made, never changed.                                  *)
LEMMA UsersStay ==
  TypeOK /\ [Next]_vars => \A u \in Users : user[u] # None => user'[u] = user[u]
<1> SUFFICES ASSUME TypeOK, [Next]_vars, NEW u \in Users, user[u] # None
             PROVE  user'[u] = user[u]
  OBVIOUS
<1>1. CASE user' = user
  BY <1>1
<1>2. ASSUME NEW v \in Users, NEW email \in Emails, Register(v, email) PROVE user'[u] = user[u]
  BY <1>2 DEF Register, TypeOK
<1>3. ASSUME NEW r \in Reqs, NEW v \in Users, Create(r, v) PROVE user'[u] = user[u]
  BY <1>3 DEF Create, TypeOK
<1>4. \/ user' = user
      \/ \E v \in Users, email \in Emails : Register(v, email)
      \/ \E r \in Reqs, v \in Users : Create(r, v)
  BY DEF Next, Step, vars, StartLogin, StartLink, Store, Expire, Callback, FindIdentity,
         FindEmail, FindProvider, FindOwner, Upsert, CheckUnlink, Delete, Abort, Unlink, Connect
<1> QED
  BY <1>1, <1>2, <1>3, <1>4

(* What a request becomes.                                                 *)
LEMMA EndFields ==
  ASSUME TypeOK, NEW r \in Reqs, Settle(r)
  PROVE  \A q \in Reqs : /\ q = r => req'[q].pc = "idle"
                         /\ q # r => req'[q] = req[q]
  BY DEF TypeOK, Settle, Idle

LEMMA GotoFields ==
  ASSUME TypeOK, NEW r \in Reqs, NEW at, Goto(r, at)
  PROVE  \A q \in Reqs : /\ q = r => /\ req'[q].pc = at /\ req'[q].user = req[q].user
                                      /\ req'[q].op = req[q].op /\ req'[q].id = req[q].id
                         /\ q # r => req'[q] = req[q]
<1>1. req[r] \in Requests /\ req' = [req EXCEPT ![r] = [req[r] EXCEPT !.pc = at]]
  BY DEF TypeOK, Goto
<1>2. /\ [req[r] EXCEPT !.pc = at].pc = at /\ [req[r] EXCEPT !.pc = at].user = req[r].user
      /\ [req[r] EXCEPT !.pc = at].op = req[r].op /\ [req[r] EXCEPT !.pc = at].id = req[r].id
  BY <1>1 DEF Requests
<1> QED
  BY <1>1, <1>2 DEF TypeOK

Like(s, t) == s.user = t.user /\ s.op = t.op /\ s.id = t.id /\ s.pc = t.pc

Passed(r, next, rivals) ==
  \A q \in Reqs : /\ Like(req'[q], IF q = r THEN next ELSE req[q])
                  /\ q = r /\ rivals # {} => req'[q].rival = TRUE
                  /\ q # r /\ q \in rivals => req'[q].rival = TRUE
                  /\ q # r /\ q \notin rivals => req'[q] = req[q]

LEMMA PassFields ==
  ASSUME TypeOK, NEW r \in Reqs, NEW next \in Requests, NEW rivals, Pass(r, next, rivals)
  PROVE  Passed(r, next, rivals)
<1> DEFINE past == [next EXCEPT !.rival = rivals # {}]
           marked(q) == [req[q] EXCEPT !.rival = TRUE]
<1>1. \A q \in Reqs : req[q] \in Requests
  BY DEF TypeOK
<1>2. Like(past, next) /\ past.rival = (rivals # {})
  BY DEF Requests, Like
<1>3. \A q \in Reqs : Like(marked(q), req[q]) /\ marked(q).rival = TRUE
  BY <1>1 DEF Requests, Like
<1>4. \A q \in Reqs :
        req'[q] = IF q = r THEN past ELSE IF q \in rivals THEN marked(q) ELSE req[q]
  BY DEF Pass
<1> HIDE DEF past, marked
<1> SUFFICES ASSUME NEW q \in Reqs
             PROVE  /\ Like(req'[q], IF q = r THEN next ELSE req[q])
                    /\ q = r /\ rivals # {} => req'[q].rival = TRUE
                    /\ q # r /\ q \in rivals => req'[q].rival = TRUE
                    /\ q # r /\ q \notin rivals => req'[q] = req[q]
  BY DEF Passed
<1>5. CASE q = r
  BY <1>2, <1>4, <1>5
<1>6. CASE q # r /\ q \in rivals
  BY <1>3, <1>4, <1>6
<1>7. CASE q # r /\ q \notin rivals
  BY <1>4, <1>7 DEF Like
<1> QED
  BY <1>5, <1>6, <1>7

(* A step of requests that makes nobody up.                                *)
LEMMA CreatedReqStep ==
  ASSUME CreatedInv, \A u : Created(u) => Created(u)',
         \A u \in member' : Created(u), acct' = acct, states' \subseteq states,
         \A q \in Reqs : HasUser(q)' => HasUser(q) /\ req'[q].user = req[q].user
  PROVE  CreatedInv'
  BY DEF CreatedInv

LEMMA CreatedKept == TypeOK /\ CreatedInv /\ [Next]_vars => CreatedInv'
<1> SUFFICES ASSUME TypeOK, CreatedInv, [Next]_vars PROVE CreatedInv'
  OBVIOUS
<1>u. \A u : Created(u) => Created(u)'
  BY UsersStay DEF Created
<1>1. CASE UNCHANGED vars
  BY <1>1 DEF CreatedInv, HasUser, Created, vars
<1>2. ASSUME NEW u \in Users, NEW email \in Emails, Register(u, email) PROVE CreatedInv'
  <2>1. Created(u)'
    BY <1>2 DEF Register, TypeOK, Created
  <2> QED
    BY <1>2, <1>u, <2>1 DEF Register, CreatedInv, HasUser
<1>3. ASSUME NEW p \in Providers, StartLogin(p) PROVE CreatedInv'
  BY <1>3, <1>u DEF StartLogin, Store, CreatedInv, HasUser
<1>4. ASSUME NEW p \in Providers, NEW u \in Users, StartLink(u, p) PROVE CreatedInv'
  BY <1>4, <1>u DEF StartLink, Store, CreatedInv, HasUser
<1>5. ASSUME NEW s \in states, Expire(s) PROVE CreatedInv'
  BY <1>5, <1>u DEF Expire, CreatedInv, HasUser
<1>6. ASSUME NEW s \in states, NEW r \in Reqs, NEW i \in Ids, Callback(r, s, i) PROVE CreatedInv'
  BY <1>6, <1>u DEF Callback, CreatedInv, HasUser, TypeOK
<1>7. ASSUME NEW r \in Reqs, FindIdentity(r) PROVE CreatedInv'
  <2>1. req[r].id \in Ids /\ ProviderOf[req[r].id] \in Providers
    BY <1>7 DEF FindIdentity, TypeOK
  <2>2. \A u \in member' : Created(u)
    BY <1>7, <2>1 DEF FindIdentity, Owners, CreatedInv
  <2>3. CASE Settle(r)
    BY <1>7, <1>u, <2>2, <2>3, EndFields, CreatedReqStep DEF FindIdentity, HasUser
  <2>4. CASE Goto(r, "email")
    BY <1>7, <1>u, <2>2, <2>4, GotoFields, CreatedReqStep DEF FindIdentity, HasUser
  <2>5. CASE Goto(r, "provider") /\ req[r].op = "link"
    BY <1>7, <1>u, <2>2, <2>5, GotoFields, CreatedReqStep DEF FindIdentity, HasUser
  <2> QED
    BY <1>7, <2>3, <2>4, <2>5 DEF FindIdentity
<1>8. ASSUME NEW r \in Reqs, FindEmail(r) PROVE CreatedInv'
  <2>1. CASE Settle(r)
    BY <1>8, <1>u, <2>1, EndFields, CreatedReqStep DEF FindEmail, HasUser, CreatedInv
  <2>2. CASE Goto(r, "create")
    BY <1>8, <1>u, <2>2, GotoFields, CreatedReqStep DEF FindEmail, HasUser, CreatedInv
  <2> QED
    BY <1>8, <2>1, <2>2 DEF FindEmail
<1>9. ASSUME NEW r \in Reqs, NEW u \in Users, Create(r, u) PROVE CreatedInv'
  <2>1. CASE Taken(EmailFor(req[r].id))
    BY <1>9, <1>u, <2>1, EndFields, CreatedReqStep DEF Create, HasUser, CreatedInv
  <2>2. CASE ~Taken(EmailFor(req[r].id))
    <3>1. Created(u)'
      <4>1. user'[u] = EmailFor(req[r].id)
        BY <1>9, <2>2 DEF Create, TypeOK
      <4>2. EmailFor(req[r].id) \in Emails \cup Ids
        BY <1>9 DEF Create, TypeOK, EmailFor
      <4> QED
        BY <1>9, <4>1, <4>2 DEF Created
    <3>2. \A q \in Reqs : IF q = r THEN req'[q].user = u
                           ELSE req'[q] = req[q]
      <4>1. /\ req[r] \in Requests
            /\ req' = [req EXCEPT ![r] = [req[r] EXCEPT !.pc = "provider", !.user = u]]
        BY <1>9, <2>2 DEF Create, TypeOK
      <4>2. [req[r] EXCEPT !.pc = "provider", !.user = u].user = u
        BY <4>1 DEF Requests
      <4> QED
        BY <4>1, <4>2 DEF TypeOK
    <3> QED
      BY <1>9, <1>u, <3>1, <3>2 DEF Create, CreatedInv, HasUser
  <2> QED
    BY <2>1, <2>2
<1>10. ASSUME NEW r \in Reqs, FindProvider(r) PROVE CreatedInv'
  <2>1. CASE Settle(r)
    BY <1>10, <1>u, <2>1, EndFields, CreatedReqStep DEF FindProvider, HasUser, CreatedInv
  <2> DEFINE next == [req[r] EXCEPT !.pc = "owner"]
             R == Rivals(r, req[r].user, req[r].id)
  <2>2. CASE Pass(r, next, R)
    <3>0. /\ next \in Requests /\ next.pc = "owner"
          /\ next.user = req[r].user /\ next.op = req[r].op
      BY <1>10, Onward DEF FindProvider
    <3> HIDE DEF next, R
    <3>1. Passed(r, next, R)
      BY <2>2, <3>0, PassFields
    <3>2. \A q \in Reqs : /\ req'[q].user = req[q].user /\ req'[q].op = req[q].op
                          /\ req'[q].pc = IF q = r THEN "owner" ELSE req[q].pc
      BY <3>0, <3>1 DEF Passed, Like
    <3>3. \A q \in Reqs : HasUser(q)' => HasUser(q) /\ req'[q].user = req[q].user
      BY <1>10, <3>2 DEF FindProvider, HasUser
    <3> QED
      BY <1>10, <1>u, <3>3, CreatedReqStep DEF FindProvider, CreatedInv
  <2> QED
    BY <1>10, <2>1, <2>2 DEF FindProvider
<1>11. ASSUME NEW r \in Reqs, FindOwner(r) PROVE CreatedInv'
  <2>1. CASE Settle(r)
    BY <1>11, <1>u, <2>1, EndFields, CreatedReqStep DEF FindOwner, HasUser, CreatedInv
  <2>2. CASE Goto(r, "upsert")
    BY <1>11, <1>u, <2>2, GotoFields, CreatedReqStep DEF FindOwner, HasUser, CreatedInv
  <2> QED
    BY <1>11, <2>1, <2>2 DEF FindOwner
<1>12. ASSUME NEW r \in Reqs, Upsert(r) PROVE CreatedInv'
  <2> DEFINE w == req[r].user
  <2>1. Created(w) /\ req[r].id \in Ids
    BY <1>12 DEF Upsert, CreatedInv, HasUser, TypeOK
  <2>2. \A u \in member' : Created(u)
    BY <1>12, <2>1 DEF Upsert, CreatedInv
  <2>3. \A u \in Users, p \in Providers : acct'[u][p] # None => acct[u][p] # None \/ u = w
    BY <1>12 DEF Upsert, TypeOK
  <2>4. \A q \in Reqs : HasUser(q)' => HasUser(q) /\ req'[q].user = req[q].user
    BY <1>12, EndFields DEF Upsert, HasUser
  <2>5. states' = states
    BY <1>12 DEF Upsert
  <2> QED
    BY <1>u, <2>1, <2>2, <2>3, <2>4, <2>5 DEF CreatedInv
<1>13. ASSUME NEW r \in Reqs, CheckUnlink(r) PROVE CreatedInv'
  <2>1. CASE Settle(r)
    BY <1>13, <1>u, <2>1, EndFields, CreatedReqStep DEF CheckUnlink, HasUser, CreatedInv
  <2> DEFINE next == [req[r] EXCEPT !.pc = "delete"]
             U == Unlinking(r, req[r].user)
  <2>2. CASE Pass(r, next, U)
    <3>0. /\ next \in Requests /\ next.pc = "delete"
          /\ next.user = req[r].user /\ next.op = req[r].op
      BY <1>13, Onward DEF CheckUnlink
    <3> HIDE DEF next, U
    <3>1. Passed(r, next, U)
      BY <2>2, <3>0, PassFields
    <3>2. \A q \in Reqs : /\ req'[q].user = req[q].user /\ req'[q].op = req[q].op
                          /\ req'[q].pc = IF q = r THEN "delete" ELSE req[q].pc
      BY <3>0, <3>1 DEF Passed, Like
    <3>3. \A q \in Reqs : HasUser(q)' => HasUser(q) /\ req'[q].user = req[q].user
      BY <1>13, <3>2 DEF CheckUnlink, HasUser
    <3> QED
      BY <1>13, <1>u, <3>3, CreatedReqStep DEF CheckUnlink, CreatedInv
  <2> QED
    BY <1>13, <2>1, <2>2 DEF CheckUnlink
<1>14. ASSUME NEW r \in Reqs, Delete(r) PROVE CreatedInv'
  <2>1. \A u \in Users, p \in Providers : acct'[u][p] # None => acct[u][p] # None
    BY <1>14 DEF Delete, TypeOK
  <2>2. \A q \in Reqs : HasUser(q)' => HasUser(q) /\ req'[q].user = req[q].user
    BY <1>14, EndFields DEF Delete, HasUser
  <2> QED
    BY <1>14, <1>u, <2>1, <2>2 DEF Delete, CreatedInv
<1>15. ASSUME NEW r \in Reqs, Abort(r) PROVE CreatedInv'
  BY <1>15, <1>u, EndFields, CreatedReqStep DEF Abort, HasUser, CreatedInv
<1>16. ASSUME NEW r \in Reqs, NEW u \in Users, NEW p \in Providers, Unlink(r, u, p) PROVE CreatedInv'
  <2> DEFINE new(at, op) ==
               [pc |-> at, op |-> op, user |-> u, id |-> acct[u][p], rival |-> FALSE]
             U == Unlinking(r, u)
  <2>1. Created(u) /\ \A at \in {"check", "delete"}, op \in {"unlink", "drop"} :
          new(at, op) \in Requests /\ new(at, op).user = u
    BY <1>16 DEF Unlink, Requests, TypeOK, CreatedInv
  <2>2. \/ Pass(r, new("delete", "drop"), U)
        \/ \E at \in {"check", "delete"} : req' = [req EXCEPT ![r] = new(at, "unlink")]
    BY <1>16 DEF Unlink
  <2> HIDE DEF new, U
  <2>3. \A q \in Reqs : IF q = r THEN req'[q].user = u
                        ELSE /\ req'[q].user = req[q].user
                             /\ req'[q].pc = req[q].pc /\ req'[q].op = req[q].op
    <3>1. CASE Pass(r, new("delete", "drop"), U)
      <4>1. Passed(r, new("delete", "drop"), U)
        BY <2>1, <3>1, PassFields
      <4> QED
        BY <2>1, <4>1 DEF Passed, Like
    <3>2. CASE ~Pass(r, new("delete", "drop"), U)
      BY <2>1, <2>2, <3>2 DEF TypeOK
    <3> QED
      BY <3>1, <3>2
  <2> QED
    BY <1>16, <1>u, <2>1, <2>3 DEF Unlink, CreatedInv, HasUser
<1>17. ASSUME NEW r \in Reqs, NEW u \in Users, NEW i \in Ids, Connect(r, u, i) PROVE CreatedInv'
  <2> DEFINE new == [pc |-> "owner", op |-> "connect", user |-> u, id |-> i, rival |-> FALSE]
             R == Rivals(r, u, i)
  <2>1. Created(u) /\ new \in Requests /\ new.user = u
    BY <1>17 DEF Connect, Requests, CreatedInv
  <2>2. Pass(r, new, R)
    BY <1>17 DEF Connect
  <2> HIDE DEF new, R
  <2>3. \A q \in Reqs : IF q = r THEN req'[q].user = u
                        ELSE /\ req'[q].user = req[q].user
                             /\ req'[q].pc = req[q].pc /\ req'[q].op = req[q].op
    <3>1. Passed(r, new, R)
      BY <2>1, <2>2, PassFields
    <3> QED
      BY <2>1, <3>1 DEF Passed, Like
  <2> QED
    BY <1>17, <1>u, <2>1, <2>3 DEF Connect, CreatedInv, HasUser
<1> QED
  BY <1>1, <1>2, <1>3, <1>4, <1>5, <1>6, <1>7, <1>8, <1>9, <1>10, <1>11, <1>12, <1>13,
     <1>14, <1>15, <1>16, <1>17 DEF Next, Step

-----------------------------------------------------------------------------
(* The two clauses of RemovalInv.                                          *)
Safe(r) == Removing(r) /\ ~req[r].rival /\ req[r].op # "drop" =>
    HasViablePasswordLogin(req[r].user) \/ OtherAccount(req[r].user, ProviderOf[req[r].id])

Marked(r, q) ==
    r # q /\ Removing(r) /\ Removing(q) /\ req[r].user = req[q].user => req[r].rival

(* A step that removes no row and lets no request pass the check.          *)
LEMMA RemovalQuiet ==
  ASSUME TypeOK, CreatedInv, RemovalInv, \A u \in Users : user[u] # None => user'[u] = user[u],
         \A u \in Users, p \in Providers : acct[u][p] # None => acct'[u][p] # None,
         \A r \in Reqs : Removing(r)' => req'[r] = req[r]
  PROVE  RemovalInv'
<1>1. ASSUME NEW r \in Reqs PROVE Safe(r)'
  <2> SUFFICES ASSUME Removing(r)', ~req'[r].rival, req'[r].op # "drop"
               PROVE  \/ HasViablePasswordLogin(req[r].user)'
                      \/ OtherAccount(req[r].user, ProviderOf[req[r].id])'
    BY DEF Safe
  <2>1. req'[r] = req[r] /\ Removing(r) /\ Created(req[r].user)
    BY DEF Removing, CreatedInv, HasUser
  <2>2. HasViablePasswordLogin(req[r].user) \/ OtherAccount(req[r].user, ProviderOf[req[r].id])
    BY <2>1 DEF RemovalInv
  <2> QED
    BY <2>1, <2>2, ProviderAssumption DEF HasViablePasswordLogin, OtherAccount, Created
<1>2. \A r, q \in Reqs : Marked(r, q)'
  BY DEF Marked, RemovalInv, Removing
<1> QED
  BY <1>1, <1>2 DEF RemovalInv, Safe, Marked

LEMMA RemovalKept == AccountInv /\ [Next]_vars => RemovalInv'
<1> SUFFICES ASSUME TypeOK, CreatedInv, RemovalInv, [Next]_vars PROVE RemovalInv'
  BY DEF AccountInv
<1>u. \A u \in Users : user[u] # None => user'[u] = user[u]
  BY UsersStay
<1>1. ASSUME acct' = acct, req' = req PROVE RemovalInv'
  BY <1>u, <1>1, RemovalQuiet DEF Removing
<1>2. ASSUME NEW r \in Reqs, Settle(r), acct' = acct PROVE RemovalInv'
  BY <1>u, <1>2, EndFields, RemovalQuiet DEF Removing
<1>3. ASSUME NEW r \in Reqs, NEW at, Goto(r, at), at # "delete", acct' = acct PROVE RemovalInv'
  BY <1>u, <1>3, GotoFields, RemovalQuiet DEF Removing
<1>4. ASSUME NEW r \in Reqs, NEW s \in states, NEW i \in Ids, Callback(r, s, i) PROVE RemovalInv'
  BY <1>u, <1>4, RemovalQuiet DEF Callback, Removing, TypeOK
<1>5. ASSUME NEW r \in Reqs, NEW u \in Users, Create(r, u) PROVE RemovalInv'
  <2>1. CASE Taken(EmailFor(req[r].id))
    BY <1>2, <1>5, <2>1 DEF Create
  <2>2. CASE ~Taken(EmailFor(req[r].id))
    <3>1. /\ req[r] \in Requests
          /\ req' = [req EXCEPT ![r] = [req[r] EXCEPT !.pc = "provider", !.user = u]]
      BY <1>5, <2>2 DEF Create, TypeOK
    <3>2. [req[r] EXCEPT !.pc = "provider", !.user = u].pc = "provider"
      BY <3>1 DEF Requests
    <3>3. \A q \in Reqs : Removing(q)' => req'[q] = req[q]
      BY <3>1, <3>2 DEF Removing, TypeOK
    <3> QED
      BY <1>u, <1>5, <3>3, RemovalQuiet DEF Create
  <2> QED
    BY <2>1, <2>2
(* A pass that lets no request delete.                                     *)
<1>6. ASSUME NEW r \in Reqs, NEW u, NEW i, NEW next \in Requests, next.pc = "owner",
             Pass(r, next, Rivals(r, u, i)), acct' = acct
      PROVE  RemovalInv'
  <2>1. \A q \in Rivals(r, u, i) : q \in Reqs /\ q # r /\ req[q].pc # "delete"
    BY DEF Rivals
  <2>2. Passed(r, next, Rivals(r, u, i))
    BY <1>6, PassFields
  <2>3. \A q \in Reqs : Removing(q)' => req'[q] = req[q]
    BY <1>6, <2>1, <2>2 DEF Removing, Passed, Like
  <2> QED
    BY <1>u, <1>6, <2>3, RemovalQuiet
<1>7. ASSUME NEW r \in Reqs, Upsert(r) PROVE RemovalInv'
  <2>1. \A u \in Users, p \in Providers : acct[u][p] # None => acct'[u][p] # None
    BY <1>7 DEF Upsert, TypeOK
  <2> QED
    BY <1>u, <1>7, <2>1, EndFields, RemovalQuiet DEF Upsert, Removing
(* A pass that lets r delete: it has made its check, or needs none.        *)
<1>9. ASSUME NEW r \in Reqs, NEW w \in Users, NEW next \in Requests,
             next.user = w, next.pc = "delete", ~Removing(r),
             Pass(r, next, Unlinking(r, w)), acct' = acct, user' = user,
             \/ next.op = "drop"
             \/ OtherAccount(w, ProviderOf[next.id]) \/ HasViablePasswordLogin(w)
      PROVE  RemovalInv'
  <2> DEFINE U == Unlinking(r, w)
  <2>1. acct' = acct /\ user' = user /\ Passed(r, next, U)
    BY <1>9, PassFields
  <2>2. \A q \in Reqs : q # r => (Removing(q)' <=> Removing(q))
    BY <2>1 DEF Removing, Passed, Like
  <2>3. ASSUME NEW q \in Reqs PROVE Safe(q)'
    <3>1. CASE q = r
      BY <1>9, <2>1, <3>1 DEF Safe, Passed, Like, HasViablePasswordLogin, OtherAccount
    <3>2. CASE q # r
      <4> SUFFICES ASSUME Removing(q)', ~req'[q].rival, req'[q].op # "drop"
                   PROVE  \/ HasViablePasswordLogin(req[q].user)'
                          \/ OtherAccount(req[q].user, ProviderOf[req[q].id])'
        BY DEF Safe
      <4>1. req'[q] = req[q] /\ Removing(q)
        BY <2>1, <2>2, <3>2 DEF Passed
      <4>2. HasViablePasswordLogin(req[q].user) \/ OtherAccount(req[q].user, ProviderOf[req[q].id])
        BY <4>1 DEF RemovalInv
      <4> QED
        BY <2>1, <4>1, <4>2 DEF HasViablePasswordLogin, OtherAccount
    <3> QED
      BY <3>1, <3>2
  <2>4. ASSUME NEW q \in Reqs, NEW t \in Reqs, q # t, Removing(q)', Removing(t)',
               req'[q].user = req'[t].user
        PROVE  req'[q].rival
    <3>1. CASE q = r
      <4>1. t \in U
        BY <1>9, <2>1, <2>2, <2>4, <3>1 DEF Passed, Like, Unlinking, Removing
      <4> QED
        BY <2>1, <3>1, <4>1 DEF Passed
    <3>2. CASE t = r
      <4>1. q \in U
        BY <1>9, <2>1, <2>2, <2>4, <3>2 DEF Passed, Like, Unlinking, Removing
      <4> QED
        BY <2>1, <2>4, <3>2, <4>1 DEF Passed
    <3>3. CASE q # r /\ t # r
      <4>1. req[q].rival
        BY <2>1, <2>2, <2>4, <3>3 DEF Passed, Like, RemovalInv
      <4> QED
        BY <2>1, <3>3, <4>1 DEF Passed
    <3> QED
      BY <3>1, <3>2, <3>3
  <2> QED
    BY <2>3, <2>4 DEF RemovalInv, Safe
<1>10. ASSUME NEW r \in Reqs, Delete(r) PROVE RemovalInv'
  <2> DEFINE w == req[r].user
             p == ProviderOf[req[r].id]
  <2>1. Created(w) /\ req[r].id \in Ids /\ p \in Providers
    BY <1>10 DEF Delete, CreatedInv, HasUser, TypeOK
  <2>2. \A u \in Users, q \in Providers :
          acct'[u][q] = IF u = w /\ q = p THEN None ELSE acct[u][q]
    BY <1>10, <2>1 DEF Delete, TypeOK
  <2>3. user' = user /\ \A q \in Reqs : Removing(q)' => q # r /\ req'[q] = req[q] /\ Removing(q)
    BY <1>10, EndFields DEF Delete, Removing
  <2>4. ASSUME NEW q \in Reqs, Removing(q)', ~req'[q].rival, req'[q].op # "drop"
        PROVE  \/ HasViablePasswordLogin(req[q].user)'
               \/ OtherAccount(req[q].user, ProviderOf[req[q].id])'
    <3>1. q # r /\ req'[q] = req[q] /\ Removing(q) /\ ~req[q].rival /\ req[q].op # "drop"
      BY <2>3, <2>4
    <3>2. CASE req[q].user = w /\ p \in LoginProviders
      <4>1. Removing(r)
        BY <1>10, <3>2 DEF Delete, Removing
      <4> QED
        BY <3>1, <3>2, <4>1 DEF RemovalInv
    <3>3. CASE ~(req[q].user = w /\ p \in LoginProviders)
      <4>1. HasViablePasswordLogin(req[q].user) \/ OtherAccount(req[q].user, ProviderOf[req[q].id])
        BY <3>1 DEF RemovalInv
      <4>2. Created(req[q].user)
        BY <3>1 DEF Removing, CreatedInv, HasUser
      <4> QED
        BY <2>2, <2>3, <3>1, <3>3, <4>1, <4>2, ProviderAssumption
        DEF HasViablePasswordLogin, OtherAccount, Created
    <3> QED
      BY <3>2, <3>3
  <2>5. \A q, t \in Reqs : Marked(q, t)'
    BY <2>3 DEF Marked, RemovalInv
  <2> QED
    BY <2>4, <2>5 DEF RemovalInv, Marked
<1>11. ASSUME NEW r \in Reqs, FindProvider(r) PROVE RemovalInv'
  <2> DEFINE next == [req[r] EXCEPT !.pc = "owner"]
  <2>1. next \in Requests /\ next.pc = "owner"
    BY <1>11, Onward DEF FindProvider
  <2>2. Settle(r) \/ Pass(r, next, Rivals(r, req[r].user, req[r].id))
    BY <1>11 DEF FindProvider
  <2> HIDE DEF next
  <2> QED
    BY <1>2, <1>6, <1>11, <2>1, <2>2 DEF FindProvider
<1>12. ASSUME NEW r \in Reqs, NEW u \in Users, NEW i \in Ids, Connect(r, u, i) PROVE RemovalInv'
  <2> DEFINE new == [pc |-> "owner", op |-> "connect", user |-> u, id |-> i, rival |-> FALSE]
  <2>1. new \in Requests /\ new.pc = "owner"
    BY DEF Requests
  <2>2. Pass(r, new, Rivals(r, u, i)) /\ acct' = acct
    BY <1>12 DEF Connect
  <2> HIDE DEF new
  <2> QED
    BY <1>6, <2>1, <2>2
<1>13. ASSUME NEW r \in Reqs, CheckUnlink(r) PROVE RemovalInv'
  <2> DEFINE next == [req[r] EXCEPT !.pc = "delete"]
             w    == req[r].user
  <2>1. /\ next \in Requests /\ next.pc = "delete" /\ next.user = w /\ next.id = req[r].id
        /\ w \in Users /\ ~Removing(r)
    BY <1>13, Onward DEF CheckUnlink, CreatedInv, HasUser, Created, Removing
  <2>2. \/ Settle(r)
        \/ /\ Pass(r, next, Unlinking(r, w))
           /\ OtherAccount(w, ProviderOf[req[r].id]) \/ HasViablePasswordLogin(w)
    BY <1>13 DEF CheckUnlink, OtherLogin, OtherAccount
  <2> HIDE DEF next
  <2> QED
    BY <1>2, <1>9, <1>13, <2>1, <2>2 DEF CheckUnlink
<1>14. ASSUME NEW r \in Reqs, NEW u \in Users, NEW p \in Providers, Unlink(r, u, p)
       PROVE  RemovalInv'
  <2> DEFINE new(at, op) ==
               [pc |-> at, op |-> op, user |-> u, id |-> acct[u][p], rival |-> FALSE]
  <2>1. /\ acct[u][p] \in Ids /\ acct' = acct /\ user' = user /\ ~Removing(r)
        /\ ProviderOf[acct[u][p]] = p
    BY <1>14 DEF Unlink, TypeOK, Removing, Idle
  <2>2. CASE Pass(r, new("delete", "drop"), Unlinking(r, u))
    <3> DEFINE next == new("delete", "drop")
    <3>1. next \in Requests /\ next.pc = "delete" /\ next.user = u /\ next.op = "drop"
      BY <2>1 DEF Requests
    <3> HIDE DEF next
    <3> QED
      BY <1>9, <2>1, <2>2, <3>1 DEF next
  (* A row of another provider is no login account.                        *)
  <2>3. CASE \E at \in {"check", "delete"} :
               /\ req' = [req EXCEPT ![r] = new(at, "unlink")]
               /\ at = "delete" => p \notin LoginProviders
    <3>1. \A q \in Reqs : Removing(q)' => req'[q] = req[q]
      BY <2>1, <2>3 DEF Removing, TypeOK
    <3> QED
      BY <1>u, <2>1, <3>1, RemovalQuiet
  <2> QED
    BY <1>14, <2>2, <2>3 DEF Unlink
<1> QED
  BY <1>1, <1>2, <1>3, <1>4, <1>5, <1>7, <1>10, <1>11, <1>12, <1>13, <1>14
  DEF Next, Step, vars, Register, StartLogin, StartLink, Store, Expire, FindIdentity,
      FindEmail, FindOwner, Abort

-----------------------------------------------------------------------------
LEMMA AccountInvKept == AccountInv /\ [Next]_vars => AccountInv'
  BY TypeKept, CreatedKept, RemovalKept DEF AccountInv

THEOREM AccountsInvariant == Spec => []AccountInv
<1> QED
  BY AccountInvInit, AccountInvKept, PTL DEF Spec

(* The rows stay well formed and no identity has two owners.               *)
THEOREM TypeCorrect == Spec => []TypeOK
<1>1. AccountInv => TypeOK
  BY DEF AccountInv
<1> QED
  BY <1>1, AccountsInvariant, PTL

(* Nobody loses the last login but by the two causes WayIn names.          *)
THEOREM NobodyIsLockedOut == Spec => WayIn
<1> DEFINE Keeps ==
      \A u \in member :
         HasLogin(u) /\ ~HasLogin(u)' =>
            \/ HasViablePasswordLogin(u)
            \/ \E r \in Reqs : /\ req[r].user = u /\ req[r].pc = "delete"
                              /\ (req[r].rival \/ req[r].op = "drop")
<1>1. AccountInv /\ [Next]_vars => [Keeps]_vars
  <2> SUFFICES ASSUME AccountInv, [Next]_vars, NEW u \in member,
                      HasLogin(u), ~HasLogin(u)'
               PROVE  \/ HasViablePasswordLogin(u)
                      \/ \E r \in Reqs : /\ req[r].user = u /\ req[r].pc = "delete"
                                        /\ (req[r].rival \/ req[r].op = "drop")
    OBVIOUS
  <2>0. u \in Users
    BY DEF AccountInv, TypeOK
  <2>1. CASE acct' = acct
    BY <2>1 DEF HasLogin
  <2>2. ASSUME NEW r \in Reqs, Upsert(r) PROVE FALSE
    <3>0. TypeOK
      BY DEF AccountInv
    <3>1. \A p \in Providers : acct[u][p] # None => acct'[u][p] # None
      BY <2>0, <2>2, <3>0 DEF Upsert, TypeOK
    <3> QED
      BY <3>1, ProviderAssumption DEF HasLogin
  <2>3. ASSUME NEW r \in Reqs, Delete(r)
        PROVE  \/ HasViablePasswordLogin(u)
               \/ \E q \in Reqs : /\ req[q].user = u /\ req[q].pc = "delete"
                                 /\ (req[q].rival \/ req[q].op = "drop")
    <3> DEFINE p == ProviderOf[req[r].id]
    <3>1. req[r].pc = "delete" /\ p \in Providers
      BY <2>3 DEF Delete, AccountInv, TypeOK
    <3>2. /\ u # req[r].user => acct'[u] = acct[u]
          /\ \A q \in Providers \ {p} : acct'[u][q] = acct[u][q]
      BY <2>0, <2>3 DEF Delete, AccountInv, TypeOK
    <3>3. u = req[r].user /\ p \in LoginProviders /\ ~OtherAccount(u, p)
      BY <3>2, ProviderAssumption DEF HasLogin, OtherAccount
    <3> QED
      BY <3>1, <3>3 DEF AccountInv, RemovalInv, Removing
  <2>4. \/ acct' = acct
        \/ \E r \in Reqs : Upsert(r) \/ Delete(r)
    BY DEF Next, Step, vars, Register, StartLogin, StartLink, Store, Expire, Callback,
           FindIdentity, FindEmail, Create, FindProvider, FindOwner, CheckUnlink, Abort, Unlink, Connect
  <2> QED
    BY <2>1, <2>2, <2>3, <2>4
<1> QED
  BY <1>1, AccountsInvariant, PTL DEF Spec, WayIn

-----------------------------------------------------------------------------
(* A row keeps its identity.                                               *)

(* r has looked at the row it is about to write.                           *)
Placing(r) == req[r].pc \in {"owner", "upsert"}

SameRow(s, t) == s.user = t.user /\ ProviderOf[s.id] = ProviderOf[t.id]

(* What r found in the row is still there ...                              *)
Found(r) == Placing(r) /\ ~req[r].rival /\ req[r].op # "connect" => SameOrNone(r)

(* ... because of two requests that write one row both are marked.         *)
Overtaken(r, q) == r # q /\ Placing(r) /\ Placing(q) /\ SameRow(req[r], req[q]) => req[r].rival

StableInv ==
    /\ \A r \in Reqs : Found(r)
    /\ \A r, q \in Reqs : Overtaken(r, q)

(* The row a request writes exists in the model.                           *)
LEMMA PlacingTyped ==
  ASSUME AccountInv, NEW r \in Reqs, Placing(r)
  PROVE  req[r].user \in Users /\ req[r].id \in Ids /\ ProviderOf[req[r].id] \in Providers
  BY DEF AccountInv, CreatedInv, HasUser, Created, TypeOK, Placing

(* A step that lets no request past its look at the row, and writes none.  *)
LEMMA StableQuiet ==
  ASSUME AccountInv, StableInv,
         \A u \in Users, p \in Providers : acct'[u][p] \in {None, acct[u][p]},
         \A r \in Reqs : Placing(r)' =>
           /\ Placing(r) /\ req'[r].user = req[r].user /\ req'[r].id = req[r].id
           /\ req'[r].op = req[r].op /\ (req[r].rival => req'[r].rival)
  PROVE  StableInv'
<1>1. ASSUME NEW r \in Reqs, Placing(r)', ~req'[r].rival, req'[r].op # "connect"
      PROVE  SameOrNone(r)'
  <2>1. Placing(r) /\ SameOrNone(r) /\ req'[r].user = req[r].user /\ req'[r].id = req[r].id
    BY <1>1 DEF StableInv, Found
  <2>2. acct'[req[r].user][ProviderOf[req[r].id]]
          \in {None, acct[req[r].user][ProviderOf[req[r].id]]}
    BY <2>1, PlacingTyped
  <2> QED
    BY <2>1, <2>2 DEF SameOrNone
<1>2. \A r, q \in Reqs : Overtaken(r, q)'
  BY DEF StableInv, Overtaken, SameRow
<1> QED
  BY <1>1, <1>2 DEF StableInv, Found

LEMMA StableKept == AccountInv /\ StableInv /\ [Next]_vars => StableInv'
<1> SUFFICES ASSUME AccountInv, StableInv, [Next]_vars PROVE StableInv'
  OBVIOUS
<1>t. TypeOK
  BY DEF AccountInv
<1>1. ASSUME acct' = acct, req' = req PROVE StableInv'
  BY <1>1, StableQuiet DEF Placing
<1>2. ASSUME NEW r \in Reqs, Settle(r), acct' = acct PROVE StableInv'
  BY <1>t, <1>2, EndFields, StableQuiet DEF Placing
<1>3. ASSUME NEW r \in Reqs, NEW at, Goto(r, at), acct' = acct,
             at = "upsert" => req[r].pc = "owner", at # "owner"
      PROVE  StableInv'
  <2>1. \A q \in Reqs : Placing(q)' =>
          /\ Placing(q) /\ req'[q].user = req[q].user /\ req'[q].id = req[q].id
          /\ req'[q].op = req[q].op /\ (req[q].rival => req'[q].rival)
    <3>1. req[r] \in Requests /\ req' = [req EXCEPT ![r] = [req[r] EXCEPT !.pc = at]]
      BY <1>t, <1>3 DEF TypeOK, Goto
    <3>2. [req[r] EXCEPT !.pc = at].rival = req[r].rival
      BY <3>1 DEF Requests
    <3>3. req'[r].rival = req[r].rival
      BY <1>t, <3>1, <3>2 DEF TypeOK
    <3> QED
      BY <1>t, <1>3, <3>3, GotoFields DEF Placing
  <2> QED
    BY <1>3, <2>1, StableQuiet
(* A request that is not past its look becomes another such request.       *)
<1>4. ASSUME NEW r \in Reqs, NEW next, next.pc \notin {"owner", "upsert"},
             req' = [req EXCEPT ![r] = next], acct' = acct
      PROVE  StableInv'
  <2>1. req'[r] = next /\ \A q \in Reqs \ {r} : req'[q] = req[q]
    BY <1>t, <1>4 DEF TypeOK
  <2> QED
    BY <1>4, <2>1, StableQuiet DEF Placing
<1>5. ASSUME NEW r \in Reqs, NEW u \in Users, Create(r, u) PROVE StableInv'
  <2>1. CASE Taken(EmailFor(req[r].id))
    BY <1>2, <1>5, <2>1 DEF Create
  <2>2. CASE ~Taken(EmailFor(req[r].id))
    <3>1. /\ req[r] \in Requests /\ acct' = acct
          /\ req' = [req EXCEPT ![r] = [req[r] EXCEPT !.pc = "provider", !.user = u]]
      BY <1>5, <2>2 DEF Create, TypeOK, AccountInv
    <3>2. [req[r] EXCEPT !.pc = "provider", !.user = u].pc = "provider"
      BY <3>1 DEF Requests
    <3> QED
      BY <1>4, <3>1, <3>2
  <2> QED
    BY <2>1, <2>2
(* A request passes its look at the row: it found none or its own identity *)
(* there, or does not look; whoever else writes the row is marked with it. *)
<1>6. ASSUME NEW r \in Reqs, NEW next \in Requests, next.pc = "owner", ~Placing(r),
             Pass(r, next, Rivals(r, next.user, next.id)), acct' = acct,
             next.op # "connect" => acct[next.user][ProviderOf[next.id]] \in {None, next.id}
      PROVE  StableInv'
  <2> DEFINE R == Rivals(r, next.user, next.id)
  <2>1. Passed(r, next, R)
    BY <1>t, <1>6, PassFields
  <2>2. \A q \in Reqs : q \in R <=> q # r /\ Placing(q) /\ SameRow(req[q], next)
    BY DEF Rivals, Placing, SameRow
  <2>3. ASSUME NEW q \in Reqs, Placing(q)', ~req'[q].rival, req'[q].op # "connect"
        PROVE  SameOrNone(q)'
    <3>1. CASE q = r
      BY <1>6, <2>1, <2>3, <3>1 DEF Passed, Like, SameOrNone
    <3>2. CASE q # r
      BY <1>6, <2>1, <2>3, <3>2 DEF Passed, Placing, SameOrNone, StableInv, Found
    <3> QED
      BY <3>1, <3>2
  <2>4. ASSUME NEW q \in Reqs, NEW t \in Reqs, q # t, Placing(q)', Placing(t)',
               SameRow(req'[q], req'[t])
        PROVE  req'[q].rival
    <3>1. CASE q = r
      <4>1. t \in R
        BY <2>1, <2>2, <2>4, <3>1 DEF Passed, Like, Placing, SameRow
      <4> QED
        BY <2>1, <3>1, <4>1 DEF Passed
    <3>2. CASE t = r
      <4>1. q \in R
        BY <2>1, <2>2, <2>4, <3>2 DEF Passed, Like, Placing, SameRow
      <4> QED
        BY <2>1, <2>4, <3>2, <4>1 DEF Passed
    <3>3. CASE q # r /\ t # r
      <4>1. req[q].rival
        BY <2>1, <2>4, <3>3 DEF Passed, Like, Placing, SameRow, StableInv, Overtaken
      <4> QED
        BY <2>1, <3>3, <4>1 DEF Passed
    <3> QED
      BY <3>1, <3>2, <3>3
  <2> QED
    BY <2>3, <2>4 DEF StableInv, Found, Overtaken
(* A pass of unlinks concerns no request that writes.                      *)
<1>7. ASSUME NEW r \in Reqs, NEW u, NEW next \in Requests, next.pc = "delete",
             Pass(r, next, Unlinking(r, u)), acct' = acct
      PROVE  StableInv'
  <2>1. \A q \in Unlinking(r, u) : req[q].pc = "delete"
    BY DEF Unlinking
  <2>2. Passed(r, next, Unlinking(r, u))
    BY <1>t, <1>7, PassFields
  <2>3. \A q \in Reqs : Placing(q)' => req'[q] = req[q]
    BY <1>7, <2>1, <2>2 DEF Placing, Passed, Like
  <2> QED
    BY <1>7, <2>3, StableQuiet DEF Placing
(* The row is overwritten under those that are marked.                     *)
<1>8. ASSUME NEW r \in Reqs, Upsert(r) PROVE StableInv'
  <2>1. /\ Placing(r) /\ req[r].user \in Users /\ req[r].id \in Ids
        /\ ProviderOf[req[r].id] \in Providers
    BY <1>8, PlacingTyped DEF Upsert, Placing
  <2>2. \A q \in Reqs : Placing(q)' => q # r /\ req'[q] = req[q] /\ Placing(q)
    BY <1>t, <1>8, EndFields DEF Upsert, Placing
  <2>3. ASSUME NEW q \in Reqs, Placing(q)', ~req'[q].rival, req'[q].op # "connect"
        PROVE  SameOrNone(q)'
    <3>1. /\ q # r /\ req'[q] = req[q] /\ Placing(q) /\ SameOrNone(q)
          /\ req[q].user \in Users /\ ProviderOf[req[q].id] \in Providers
      BY <2>2, <2>3, PlacingTyped DEF StableInv, Found
    <3>2. ~SameRow(req[q], req[r])
      BY <2>1, <2>3, <3>1 DEF StableInv, Overtaken
    <3>3. acct'[req[q].user][ProviderOf[req[q].id]] = acct[req[q].user][ProviderOf[req[q].id]]
      BY <1>t, <1>8, <2>1, <3>1, <3>2 DEF Upsert, TypeOK, SameRow
    <3> QED
      BY <3>1, <3>3 DEF SameOrNone
  <2>4. \A q, t \in Reqs : Overtaken(q, t)'
    BY <2>2 DEF StableInv, Overtaken
  <2> QED
    BY <2>3, <2>4 DEF StableInv, Found
<1>9. ASSUME NEW r \in Reqs, Delete(r) PROVE StableInv'
  <2>1. \A u \in Users, p \in Providers : acct'[u][p] \in {None, acct[u][p]}
    BY <1>t, <1>9 DEF Delete, TypeOK
  <2> QED
    BY <1>t, <1>9, <2>1, EndFields, StableQuiet DEF Delete, Placing
<1>10. ASSUME NEW r \in Reqs, NEW s \in states, NEW i \in Ids, Callback(r, s, i)
       PROVE  StableInv'
  BY <1>4, <1>10 DEF Callback
<1>11. ASSUME NEW r \in Reqs, FindProvider(r) PROVE StableInv'
  <2> DEFINE next == [req[r] EXCEPT !.pc = "owner"]
  <2>1. /\ next \in Requests /\ next.pc = "owner" /\ ~Placing(r)
        /\ next.user = req[r].user /\ next.id = req[r].id
    BY <1>t, <1>11, Onward DEF FindProvider, Placing
  <2>2. \/ Settle(r)
        \/ SameOrNone(r) /\ Pass(r, next, Rivals(r, req[r].user, req[r].id))
    BY <1>11 DEF FindProvider
  <2> HIDE DEF next
  <2>3. CASE Settle(r)
    BY <1>2, <1>11, <2>3 DEF FindProvider
  <2>4. CASE SameOrNone(r) /\ Pass(r, next, Rivals(r, req[r].user, req[r].id))
    <3>1. Pass(r, next, Rivals(r, next.user, next.id))
      BY <2>1, <2>4
    <3>2. acct[next.user][ProviderOf[next.id]] \in {None, next.id}
      BY <2>1, <2>4 DEF SameOrNone
    <3>3. acct' = acct
      BY <1>11 DEF FindProvider
    <3> QED
      BY <1>6, <2>1, <3>1, <3>2, <3>3
  <2> QED
    BY <2>2, <2>3, <2>4
<1>12. ASSUME NEW r \in Reqs, NEW u \in Users, NEW i \in Ids, Connect(r, u, i) PROVE StableInv'
  <2> DEFINE new == [pc |-> "owner", op |-> "connect", user |-> u, id |-> i, rival |-> FALSE]
  <2>1. /\ new \in Requests /\ new.pc = "owner" /\ new.op = "connect"
        /\ new.user = u /\ new.id = i
    BY DEF Requests
  <2>2. Pass(r, new, Rivals(r, u, i)) /\ acct' = acct /\ ~Placing(r)
    BY <1>12 DEF Connect, Placing, Idle
  <2> HIDE DEF new
  <2>3. Pass(r, new, Rivals(r, new.user, new.id))
    BY <2>1, <2>2
  <2> QED
    BY <1>6, <2>1, <2>2, <2>3
<1>13. ASSUME NEW r \in Reqs, CheckUnlink(r) PROVE StableInv'
  <2> DEFINE next == [req[r] EXCEPT !.pc = "delete"]
  <2>1. next \in Requests /\ next.pc = "delete"
    BY <1>t, <1>13, Onward DEF CheckUnlink
  <2>2. Settle(r) \/ Pass(r, next, Unlinking(r, req[r].user))
    BY <1>13 DEF CheckUnlink
  <2> HIDE DEF next
  <2> QED
    BY <1>2, <1>7, <1>13, <2>1, <2>2 DEF CheckUnlink
<1>14. ASSUME NEW r \in Reqs, NEW u \in Users, NEW p \in Providers, Unlink(r, u, p)
       PROVE  StableInv'
  <2> DEFINE new(at, op) ==
               [pc |-> at, op |-> op, user |-> u, id |-> acct[u][p], rival |-> FALSE]
  <2>1. acct[u][p] \in Ids /\ acct' = acct
    BY <1>t, <1>14 DEF Unlink, TypeOK
  <2>2. CASE Pass(r, new("delete", "drop"), Unlinking(r, u))
    <3> DEFINE next == new("delete", "drop")
    <3>1. next \in Requests /\ next.pc = "delete"
      BY <2>1 DEF Requests
    <3> HIDE DEF next
    <3> QED
      BY <1>7, <2>1, <2>2, <3>1 DEF next
  <2>3. CASE \E at \in {"check", "delete"} : req' = [req EXCEPT ![r] = new(at, "unlink")]
    BY <1>4, <2>1, <2>3
  <2> QED
    BY <1>14, <2>2, <2>3 DEF Unlink
<1> QED
  BY <1>1, <1>2, <1>3, <1>5, <1>8, <1>9, <1>10, <1>11, <1>12, <1>13, <1>14
  DEF Next, Step, vars, Register, StartLogin, StartLink, Store, Expire, FindIdentity,
      FindEmail, FindOwner, Abort

(* For every set of users, requests, providers and identities: the account *)
(* a user has connected at a provider is replaced only by two callbacks    *)
(* that both looked before either wrote, or by the older Discord           *)
(* integration, which does not look (completeLink, completeCallback and    *)
(* connectExternalIdentity).                                               *)
THEOREM IdentitiesAreStable == Spec => IdentityIsStable
<1> DEFINE Stays ==
      \A u \in Users, p \in Providers :
         acct[u][p] # None /\ acct'[u][p] \notin {None, acct[u][p]}
             => \E r \in Reqs : /\ req[r].pc = "upsert" /\ req[r].user = u
                               /\ (req[r].rival \/ req[r].op = "connect")
<1>1. Init => StableInv
  BY DEF Init, Idle, StableInv, Found, Overtaken, Placing
<1>2. AccountInv /\ StableInv /\ [Next]_vars => [Stays]_vars
  <2> SUFFICES ASSUME AccountInv, StableInv, [Next]_vars,
                      NEW u \in Users, NEW p \in Providers,
                      acct[u][p] # None, acct'[u][p] \notin {None, acct[u][p]}
               PROVE  \E r \in Reqs : /\ req[r].pc = "upsert" /\ req[r].user = u
                                     /\ (req[r].rival \/ req[r].op = "connect")
    OBVIOUS
  <2>1. ASSUME NEW r \in Reqs, Delete(r) PROVE FALSE
    BY <2>1 DEF Delete, AccountInv, TypeOK
  <2>2. PICK r \in Reqs : Upsert(r)
    <3>1. acct' # acct
      OBVIOUS
    <3> QED
      BY <2>1, <3>1
      DEF Next, Step, vars, Register, StartLogin, StartLink, Store, Expire, Callback,
          FindIdentity, FindEmail, Create, FindProvider, FindOwner, CheckUnlink, Abort,
          Unlink, Connect
  <2>3. req[r].pc = "upsert" /\ Placing(r)
    BY <2>2 DEF Upsert, Placing
  <2>4. /\ u = req[r].user /\ p = ProviderOf[req[r].id] /\ acct'[u][p] = req[r].id
    BY <2>2, <2>3, PlacingTyped DEF Upsert, AccountInv, TypeOK
  <2>5. ~SameOrNone(r)
    BY <2>4 DEF SameOrNone
  <2> QED
    BY <2>3, <2>4, <2>5 DEF StableInv, Found
<1> QED
  BY <1>1, <1>2, AccountsInvariant, StableKept, PTL DEF Spec, IdentityIsStable

-----------------------------------------------------------------------------
(***************************************************************************)
(* ConnectFlow: trips are honoured once, and their pages are true.  Both   *)
(* follow from what ties a trip to its requests: its first callback takes  *)
(* out the state, so that a second one is refused or marks the trip as     *)
(* disturbed, and who holds an account got it from a trip.                 *)
(***************************************************************************)
FlowQueries == {"idle", "exchange", "login", "owner", "row", "identity", "store"}

\* What the variables hold.
FlowShape ==
    /\ pc \in [Handlers -> FlowQueries]
    /\ DOMAIN job = Handlers /\ job = [h \in Handlers |-> job[h]]
    /\ trip \in [Trips -> TripRows \cup {None}]
    /\ returned \in [Trips -> Accounts \cup {"denied", None}]
    /\ rows \in [ProviderNames -> [Users -> Accounts \cup {None}]]
    /\ shown \in [Trips -> Outcomes \cup {None}]
    /\ waiting \in [Trips -> Handlers \cup {None}]
    /\ presented \in [Trips -> Nat] /\ tries \in [Trips -> Nat]
    /\ fresh \subseteq Trips /\ kept \subseteq fresh /\ stored \subseteq Trips

\* h works on a callback of trip t.
Serves(h, t) == pc[h] # "idle" /\ job[h].trip = t

\* A handler knows of its trip what the state and the provider say.
RequestInv(h) ==
    pc[h] # "idle" =>
        LET t == job[h].trip IN
        /\ t \in Trips /\ trip[t] # None /\ returned[t] \in Accounts
        /\ job[h] = [op |-> trip[t].kind, trip |-> t, id |-> returned[t], user |-> trip[t].user]
        /\ pc[h] = "login" => trip[t].kind = "social"
        /\ trip[t].kind = "social" => pc[h] \in {"exchange", "login"}

\* No callback of t has come as far as the provider.
Unused(t) ==
    /\ presented[t] = 0 /\ t \notin stored
    /\ \A h \in Handlers : ~Serves(h, t)

Untouched(t) == Unused(t) /\ shown[t] = None /\ waiting[t] = None /\ returned[t] = None

\* The request that works on t is the only one, and the first to present its code.
OneRequest(t) ==
    \A h \in Handlers : Serves(h, t) =>
        /\ t \notin stored
        /\ pc[h] = "exchange" => presented[t] = 0
        /\ \A g \in Handlers : Serves(g, t) => g = h

\* How far a trip is, by its callbacks.
TripInv(t) ==
    /\ trip[t] = None => tries[t] = 0 /\ t \notin fresh
    /\ trip[t] # None /\ trip[t].kind # "social" => trip[t].user \in Users
    /\ tries[t] = 0 => Untouched(t)
    /\ t \in kept => trip[t].kind # "signed" /\ Unused(t)
    /\ trip[t] # None /\ (trip[t].kind # "signed" \/ t \notin disturbed) =>
         OneRequest(t) /\ presented[t] <= 1
    /\ t \notin disturbed => \A h \in Handlers : Serves(h, t) => waiting[t] = h
    /\ waiting[t] # None => shown[t] = None
    /\ t \in stored => returned[t] \in Accounts
    /\ tries[t] = 0 /\ t \in fresh /\ t \notin disturbed /\ trip[t].kind # "signed" =>
         t \in kept /\ (trip[t].kind = "pkce" => t \in verifiers)

\* Every row was stored by a trip.
RowInv(p, u) ==
    rows[p][u] # None =>
        \E s \in stored : /\ trip[s].kind # "social" /\ ProviderOfKind(trip[s].kind) = p
                          /\ trip[s].user = u /\ returned[s] = rows[p][u]

FlowInv ==
    /\ FlowShape
    /\ \A h \in Handlers : RequestInv(h)
    /\ \A t \in Trips : TripInv(t)
    /\ \A p \in ProviderNames, u \in Users : RowInv(p, u)
    /\ PageIsTrue

-----------------------------------------------------------------------------
LEMMA FlowStart == HandlersInit /\ ConnectInit => FlowInv
<1> SUFFICES ASSUME HandlersInit, ConnectInit PROVE FlowInv
    OBVIOUS
<1>1. FlowShape
    BY DEF HandlersInit, ConnectInit, FlowShape, FlowQueries
<1>2. \A h \in Handlers : pc[h] = "idle"
    BY DEF HandlersInit
<1>3. \A t \in Trips : TripInv(t) /\ shown[t] = None
    BY <1>2 DEF ConnectInit, TripInv, Untouched, Unused, Serves
<1>4. \A p \in ProviderNames, u \in Users : RowInv(p, u)
    BY DEF ConnectInit, RowInv
<1> QED
    BY <1>1, <1>2, <1>3, <1>4 DEF FlowInv, RequestInv, PageIsTrue

-----------------------------------------------------------------------------
(* What a step leaves alone.                                               *)

SameTrip(t) ==
    /\ trip'[t] = trip[t] /\ returned'[t] = returned[t] /\ presented'[t] = presented[t]
    /\ tries'[t] = tries[t] /\ (t \in fresh' <=> t \in fresh) /\ (t \in kept' <=> t \in kept)
    /\ t \in verifiers => t \in verifiers'
    /\ (t \in stored' <=> t \in stored) /\ (t \in disturbed' <=> t \in disturbed)
    /\ shown'[t] = shown[t] /\ waiting'[t] = waiting[t]
    /\ \A h \in Handlers : /\ Serves(h, t)' <=> Serves(h, t)
                           /\ Serves(h, t)' => pc'[h] = pc[h]

LEMMA TripStays ==
    ASSUME NEW t \in Trips, TripInv(t), SameTrip(t)
    PROVE  TripInv(t)'
<1>1. Unused(t)' <=> Unused(t)
    BY DEF SameTrip, Unused
<1>2. Untouched(t)' <=> Untouched(t)
    BY <1>1 DEF SameTrip, Untouched
<1>3. OneRequest(t) => OneRequest(t)'
    BY DEF SameTrip, OneRequest
<1> QED
    BY <1>1, <1>2, <1>3 DEF SameTrip, TripInv

(* The page of t, and what it says of the other trips.                     *)
Page(t) ==
    shown[t] # None =>
        LET p == ProviderOfKind(trip[t].kind)
            link == trip[t].kind # "social"
            others == {s \in stored \ {t} : ProviderOfKind(trip[s].kind) = p}
        IN
        /\ shown[t] = "success" => t \in stored
        /\ shown[t] = "success" /\ link =>
             \/ rows[p][trip[t].user] = returned[t]
             \/ \E s \in others : trip[s].user = trip[t].user
        /\ shown[t] # "success" => t \notin stored \/ t \in disturbed
        /\ shown[t] = "state" => t \notin fresh \/ t \in disturbed
        /\ shown[t] = "denied" => returned[t] = "denied"
        /\ shown[t] = "conflict" /\ link =>
             \E s \in others : trip[s].user = trip[t].user \/ returned[s] = returned[t]

\* What other trips stored stays known.
HistoryStays ==
    /\ stored \subseteq stored'
    /\ \A s \in stored : trip'[s] = trip[s] /\ returned'[s] = returned[s]

LEMMA PageStays ==
    ASSUME NEW t \in Trips, Page(t), HistoryStays, rows' = rows,
           shown'[t] = shown[t], shown[t] # None =>
             /\ trip'[t] = trip[t] /\ returned'[t] = returned[t]
             /\ t \in fresh' => t \in fresh
             /\ t \in stored' => t \in stored
             /\ t \in disturbed => t \in disturbed'
    PROVE  Page(t)'
<1> SUFFICES ASSUME shown[t] # None PROVE Page(t)'
    BY DEF Page
<1> DEFINE p == ProviderOfKind(trip[t].kind)
           others == {s \in stored \ {t} : ProviderOfKind(trip[s].kind) = p}
           others2 == {s \in stored' \ {t} : ProviderOfKind(trip'[s].kind) = p}
<1>1. \A s \in others : s \in others2 /\ trip'[s] = trip[s] /\ returned'[s] = returned[s]
    BY DEF HistoryStays
<1>2. ProviderOfKind(trip'[t].kind) = p
    OBVIOUS
<1>3. /\ shown[t] = "success" /\ trip[t].kind # "social" =>
           rows[p][trip[t].user] = returned[t] \/ \E s \in others : trip[s].user = trip[t].user
      /\ shown[t] = "conflict" /\ trip[t].kind # "social" =>
           \E s \in others : trip[s].user = trip[t].user \/ returned[s] = returned[t]
    BY DEF Page
<1>4. /\ shown'[t] = "success" /\ trip'[t].kind # "social" =>
           rows'[p][trip'[t].user] = returned'[t] \/ \E s \in others2 : trip'[s].user = trip'[t].user
      /\ shown'[t] = "conflict" /\ trip'[t].kind # "social" =>
           \E s \in others2 : trip'[s].user = trip'[t].user \/ returned'[s] = returned'[t]
    <2> HIDE DEF others, others2, p
    <2> QED BY <1>1, <1>3
<1>5. /\ shown'[t] = "success" => t \in stored'
      /\ shown'[t] # "success" => t \notin stored' \/ t \in disturbed'
      /\ shown'[t] = "state" => t \notin fresh' \/ t \in disturbed'
      /\ shown'[t] = "denied" => returned'[t] = "denied"
    BY DEF Page, HistoryStays
<1> QED BY <1>2, <1>4, <1>5 DEF Page

LEMMA RowsStay ==
    ASSUME NEW p \in ProviderNames, NEW u \in Users, RowInv(p, u), HistoryStays,
           rows'[p][u] = rows[p][u]
    PROVE  RowInv(p, u)'
BY DEF RowInv, HistoryStays

LEMMA PagesStay ==
    ASSUME PageIsTrue, HistoryStays, rows' = rows, NEW t \in Trips,
           \A s \in Trips \ {t} : SameTrip(s), Page(t)'
    PROVE  PageIsTrue'
<1>1. \A s \in Trips : Page(s)
    BY DEF PageIsTrue, Page
<1>2. \A s \in Trips \ {t} : Page(s)'
    BY <1>1, PageStays DEF SameTrip
<1>3. \A s \in Trips : Page(s)'
    BY <1>2
<1> QED BY <1>3 DEF PageIsTrue, Page

LEMMA HandlersUntouched ==
    ASSUME NEW s \in Trips, UNCHANGED <<pc, job>>
    PROVE  \A h \in Handlers : /\ Serves(h, s)' <=> Serves(h, s)
                               /\ Serves(h, s)' => pc'[h] = pc[h]
BY DEF Serves

-----------------------------------------------------------------------------
(* A trip begins.                                                          *)

LEMMA LeaveKeeps ==
    ASSUME FlowInv, NEW t \in Trips, NEW kind \in Kinds, NEW u \in Users \cup {None},
           Leaves(t, kind, u), kind # "social" => u \in Users,
           kept' = (IF kind = "signed" THEN kept ELSE kept \cup {t}),
           verifiers \subseteq verifiers', kind = "pkce" => t \in verifiers'
    PROVE  FlowInv'
<1> USE DEF FlowInv
<1>1. /\ FlowShape /\ TripInv(t)
      /\ trip[t] = None /\ tries[t] = 0 /\ t \notin fresh /\ t \notin kept /\ Untouched(t)
    BY DEF Leaves, TripInv, FlowShape
<1>2. /\ trip' = [trip EXCEPT ![t] = [kind |-> kind, user |-> u]] /\ fresh' = fresh \cup {t}
      /\ UNCHANGED <<pc, job, ans, returned, rows, waiting, shown, tries, disturbed, faults,
                     presented, stored>>
    BY DEF Leaves, handlerVars, browserVars
<1>3. [kind |-> kind, user |-> u] \in TripRows /\ [kind |-> kind, user |-> u] # None
    BY NoTripAssumption DEF TripRows
<1>4. trip'[t] = [kind |-> kind, user |-> u] /\ \A s \in Trips \ {t} : trip'[s] = trip[s]
    BY <1>1, <1>2 DEF FlowShape
<1>5. FlowShape'
    BY <1>1, <1>2, <1>3 DEF FlowShape
<1>6. \A h \in Handlers : RequestInv(h)'
    <2> SUFFICES ASSUME NEW h \in Handlers, pc[h] # "idle" PROVE RequestInv(h)'
        BY <1>2 DEF RequestInv
    <2>1. RequestInv(h)
        OBVIOUS
    <2>2. job[h].trip \in Trips \ {t}
        BY <2>1, <1>1 DEF RequestInv
    <2>3. trip'[job[h].trip] = trip[job[h].trip]
        BY <2>2, <1>4
    <2> QED BY <2>1, <2>3, <1>2 DEF RequestInv
<1>7. \A s \in Trips \ {t} : SameTrip(s)
    BY <1>2, <1>4, HandlersUntouched DEF SameTrip
<1>8. \A s \in Trips \ {t} : TripInv(s)'
    BY <1>7, TripStays
<1>9. TripInv(t)'
    <2>1. Unused(t)' /\ Untouched(t)' /\ OneRequest(t)'
        BY <1>1, <1>2 DEF Untouched, Unused, OneRequest, Serves
    <2> QED BY <2>1, <1>1, <1>2, <1>3, <1>4 DEF TripInv, Untouched, Unused, Serves
<1>10. HistoryStays
    BY <1>1, <1>2, <1>4 DEF HistoryStays, Untouched, Unused, FlowShape
<1>11. \A p \in ProviderNames, v \in Users : RowInv(p, v)'
    BY <1>2, <1>10, RowsStay
<1>12. Page(t)'
    BY <1>1, <1>2 DEF Page, Untouched
<1>13. PageIsTrue'
    BY <1>2, <1>7, <1>10, <1>12, PagesStay
<1> QED BY <1>5, <1>6, <1>8, <1>9, <1>11, <1>13

\* Ten minutes pass.
LEMMA ExpiryKeeps ==
    ASSUME FlowInv, NEW t \in Trips, StateExpires(t) PROVE FlowInv'
<1> USE DEF FlowInv
<1>1. /\ fresh' = fresh \ {t} /\ kept' = kept \ {t} /\ verifiers' = verifiers \ {t}
      /\ UNCHANGED <<pc, job, ans, trip, returned, rows, waiting, shown, tries, disturbed,
                     faults, presented, stored>>
    BY DEF StateExpires, handlerVars, browserVars
<1>2. FlowShape'
    BY <1>1 DEF FlowShape
<1>3. \A h \in Handlers : RequestInv(h)'
    BY <1>1 DEF RequestInv
<1>4. \A s \in Trips \ {t} : SameTrip(s)
    BY <1>1, HandlersUntouched DEF SameTrip
<1>5. \A s \in Trips \ {t} : TripInv(s)'
    BY <1>4, TripStays
<1>6. TripInv(t)'
    BY <1>1 DEF TripInv, Untouched, Unused, OneRequest, Serves
<1>7. HistoryStays
    BY <1>1 DEF HistoryStays
<1>8. \A p \in ProviderNames, u \in Users : RowInv(p, u)'
    BY <1>1, <1>7, RowsStay
<1>9. Page(t)
    BY DEF PageIsTrue, Page
<1>10. Page(t)'
    BY <1>1, <1>7, <1>9, PageStays
<1>11. PageIsTrue'
    BY <1>1, <1>4, <1>7, <1>10, PagesStay
<1> QED BY <1>2, <1>3, <1>5, <1>6, <1>8, <1>11

LEMMA RequestStays ==
    ASSUME NEW g \in Handlers, RequestInv(g), pc'[g] = pc[g], job'[g] = job[g], trip' = trip,
           \A s \in Trips : returned[s] \in Accounts => returned'[s] = returned[s]
    PROVE  RequestInv(g)'
<1> SUFFICES ASSUME pc[g] # "idle" PROVE RequestInv(g)'
    BY DEF RequestInv
<1>1. returned'[job[g].trip] = returned[job[g].trip]
    BY DEF RequestInv
<1> QED BY <1>1 DEF RequestInv

-----------------------------------------------------------------------------
(* A callback: h goes on with the code, or answers at once.                *)

LEMMA CallbackKeeps ==
    ASSUME FlowInv, NEW h \in Handlers, NEW t \in Trips, NEW kinds,
           NEW outcome \in Accounts \cup {"denied"},
           NEW accepted \in BOOLEAN, NEW refusal \in {"denied", "state"},
           CallsBack(h, t, kinds, outcome), Proceeds(h, t, outcome, accepted, refusal),
           kept' \in {kept, kept \ {t}}, verifiers' \in {verifiers, verifiers \ {t}},
           accepted => /\ outcome # "denied"
                       /\ trip[t].kind = "signed" \/ (t \in kept /\ kept' = kept \ {t}),
           ~accepted /\ refusal = "denied" => outcome = "denied",
           ~accepted /\ refusal = "state" /\ t \in fresh => t \in disturbed'
    PROVE  FlowInv'
<1> USE DEF FlowInv
<1>1. /\ FlowShape /\ TripInv(t) /\ pc[h] = "idle" /\ trip[t] # None
      /\ returned[t] \in {None, outcome}
      /\ UNCHANGED <<ans, trip, fresh, rows, faults, presented, stored>>
    BY DEF CallsBack, Proceeds
<1>2. /\ returned'[t] = outcome /\ tries'[t] = tries[t] + 1
      /\ waiting'[t] = (IF accepted THEN h ELSE None)
      /\ shown'[t] = (IF accepted THEN None ELSE refusal)
      /\ disturbed' = IF tries[t] = 0 THEN disturbed ELSE disturbed \cup {t}
    BY <1>1 DEF CallsBack, Proceeds, FlowShape
<1>3. \A s \in Trips \ {t} :
        /\ returned'[s] = returned[s] /\ tries'[s] = tries[s] /\ waiting'[s] = waiting[s]
        /\ shown'[s] = shown[s] /\ (s \in disturbed' <=> s \in disturbed)
        /\ (s \in kept' <=> s \in kept) /\ (s \in verifiers' <=> s \in verifiers)
    BY <1>1, <1>2 DEF CallsBack, Proceeds, FlowShape
<1>4. /\ \A g \in Handlers \ {h} : pc'[g] = pc[g] /\ job'[g] = job[g]
      /\ accepted => /\ pc'[h] = "exchange"
                     /\ job'[h] = [op |-> trip[t].kind, trip |-> t, id |-> outcome,
                                   user |-> trip[t].user]
      /\ ~accepted => pc' = pc /\ job' = job
    BY <1>1 DEF Proceeds, FlowShape
<1>5. returned[t] \in Accounts => returned'[t] = returned[t]
    BY <1>1, <1>2, NoTripAssumption
<1>6. \A s \in Trips : returned[s] \in Accounts => returned'[s] = returned[s]
    BY <1>3, <1>5
<1>7. FlowShape'
    <2>1. pc' \in [Handlers -> FlowQueries] /\ DOMAIN job' = Handlers
          /\ job' = [g \in Handlers |-> job'[g]]
        BY <1>1 DEF Proceeds, FlowShape, FlowQueries
    <2>2. /\ returned' \in [Trips -> Accounts \cup {"denied", None}]
          /\ shown' \in [Trips -> Outcomes \cup {None}]
          /\ waiting' \in [Trips -> Handlers \cup {None}] /\ tries' \in [Trips -> Nat]
        BY <1>1 DEF Proceeds, CallsBack, FlowShape, Outcomes
    <2> QED BY <2>1, <2>2, <1>1 DEF FlowShape
<1>8. \A g \in Handlers \ {h} : RequestInv(g)'
    BY <1>1, <1>4, <1>6, RequestStays
<1>9. RequestInv(h)'
    <2>1. CASE accepted
        <3>1. /\ job'[h].trip = t /\ trip'[t] = trip[t] /\ pc'[h] = "exchange"
              /\ job'[h] = [op |-> trip[t].kind, trip |-> t, id |-> outcome, user |-> trip[t].user]
              /\ returned'[t] = outcome /\ outcome \in Accounts
            BY <2>1, <1>1, <1>2, <1>4
        <3> QED BY <3>1, <1>1 DEF RequestInv
    <2>2. CASE ~accepted
        BY <2>2, <1>1, <1>4 DEF RequestInv
    <2> QED BY <2>1, <2>2
<1>10. /\ accepted => Serves(h, t)' /\ \A s \in Trips \ {t} : ~Serves(h, s)'
       /\ ~accepted => \A s \in Trips : ~Serves(h, s)'
       /\ \A s \in Trips : ~Serves(h, s)
       /\ \A g \in Handlers \ {h}, s \in Trips : (Serves(g, s)' <=> Serves(g, s)) /\ pc'[g] = pc[g]
    BY <1>1, <1>4 DEF Serves
<1>11. \A s \in Trips \ {t} : SameTrip(s)
    BY <1>1, <1>3, <1>10 DEF SameTrip
<1>12. \A s \in Trips \ {t} : TripInv(s)'
    BY <1>11, TripStays
<1>13. TripInv(t)'
    <2>1. tries[t] \in Nat /\ tries'[t] # 0 /\ h # None
        BY <1>1, <1>2, NoTripAssumption DEF FlowShape
    <2>2. accepted /\ (trip[t].kind # "signed" \/ t \notin disturbed') => Unused(t)
        BY <1>1, <1>2 DEF TripInv, Untouched
    <2>3. Unused(t) => OneRequest(t)' /\ presented'[t] <= 1
        BY <1>1, <1>10 DEF Unused, OneRequest
    <2>4. ~accepted /\ OneRequest(t) => OneRequest(t)'
        BY <1>1, <1>4, <1>10 DEF OneRequest
    <2>5. t \notin disturbed' => Unused(t) /\ t \notin disturbed
        BY <1>1, <1>2 DEF TripInv, Untouched
    <2>6. \A g \in Handlers : t \notin disturbed' /\ Serves(g, t)' => waiting'[t] = g
        BY <2>5, <1>2, <1>10 DEF Unused
    <2>7. t \in kept' => ~accepted /\ t \in kept /\ Unused(t)'
        <3>1. t \in kept' => t \in kept /\ Unused(t) /\ trip[t].kind # "signed"
            BY <1>1 DEF TripInv
        <3>2. ~accepted /\ Unused(t) => Unused(t)'
            BY <1>1, <1>10 DEF Unused
        <3> QED BY <3>1, <3>2
    <2>8. trip[t].kind # "signed" \/ t \notin disturbed' => OneRequest(t)' /\ presented'[t] <= 1
        <3>1. CASE accepted
            BY <3>1, <2>2, <2>3
        <3>2. CASE ~accepted
            BY <3>2, <2>4, <2>5, <1>1 DEF TripInv
        <3> QED BY <3>1, <3>2
    <2>9. t \in kept' => trip[t].kind # "signed"
        BY <2>7, <1>1 DEF TripInv
    <2>10. waiting'[t] # None => shown'[t] = None
        BY <1>2
    <2>11. t \in stored' => returned'[t] \in Accounts
        BY <1>1, <1>5 DEF TripInv
    <2>12. trip'[t] # None /\ (trip'[t].kind # "social" => trip'[t].user \in Users)
        BY <1>1 DEF TripInv
    <2>13. trip'[t] = trip[t]
        BY <1>1
    <2> QED BY <2>1, <2>6, <2>7, <2>8, <2>9, <2>10, <2>11, <2>12, <2>13 DEF TripInv
<1>14. HistoryStays
    BY <1>1, <1>6 DEF HistoryStays, TripInv, FlowShape
<1>15. \A p \in ProviderNames, u \in Users : RowInv(p, u)'
    BY <1>1, <1>14, RowsStay
<1>16. Page(t)'
    <2>1. CASE accepted
        BY <2>1, <1>2 DEF Page
    <2>2. CASE ~accepted
        <3>1. shown'[t] = refusal /\ refusal # "success" /\ refusal # "conflict"
            BY <2>2, <1>2
        <3>2. t \notin stored' \/ t \in disturbed'
            BY <1>1, <1>2 DEF TripInv, Untouched, Unused
        <3>3. shown'[t] = "state" => t \notin fresh' \/ t \in disturbed'
            BY <2>2, <3>1, <1>1
        <3>4. shown'[t] = "denied" => returned'[t] = "denied"
            BY <2>2, <3>1, <1>2
        <3> QED BY <3>1, <3>2, <3>3, <3>4 DEF Page
    <2> QED BY <2>1, <2>2
<1>17. PageIsTrue'
    BY <1>1, <1>11, <1>14, <1>16, PagesStay
<1> QED BY <1>7, <1>8, <1>9, <1>12, <1>13, <1>15, <1>17

-----------------------------------------------------------------------------
(* What h knows of its trip.                                               *)

LEMMA TripOf ==
    ASSUME FlowInv, NEW h \in Handlers, pc[h] # "idle", NEW t \in Trips, t = job[h].trip
    PROVE  /\ Serves(h, t) /\ trip[t] # None /\ returned[t] \in Accounts /\ tries[t] # 0
           /\ t \notin kept /\ trip[t] \in TripRows /\ tries[t] \in Nat /\ presented[t] \in Nat
           /\ job[h] = [op |-> trip[t].kind, trip |-> t, id |-> returned[t], user |-> trip[t].user]
           /\ t \notin disturbed => waiting[t] = h /\ shown[t] = None
           /\ trip[t].kind # "signed" \/ t \notin disturbed =>
                /\ t \notin stored
                /\ pc[h] = "exchange" => presented[t] = 0
                /\ \A g \in Handlers : Serves(g, t) => g = h
                /\ presented[t] <= 1
<1>1. FlowShape /\ RequestInv(h) /\ TripInv(t) /\ Serves(h, t)
    BY DEF FlowInv, Serves
<1>2. ~Unused(t) /\ h # None
    BY <1>1, NoTripAssumption DEF Unused
<1> QED BY <1>1, <1>2 DEF RequestInv, TripInv, Untouched, OneRequest, FlowShape

LEMMA GoOnKeeps ==
    ASSUME FlowInv, NEW h \in Handlers, pc[h] # "idle",
           NEW query \in {"login", "owner", "row", "identity", "store"}, GoesOn(h, query),
           (query = "login") <=> (job[h].op = "social"),
           UNCHANGED <<rows, stored>>,
           \/ presented' = presented
           \/ pc[h] = "exchange" /\ presented' = [presented EXCEPT ![job[h].trip] = @ + 1]
    PROVE  FlowInv'
<1> USE DEF FlowInv
<1>1. PICK t \in Trips : t = job[h].trip
    BY DEF RequestInv
<1> DEFINE kind == trip[t].kind
<1>2. /\ Serves(h, t) /\ trip[t] # None /\ returned[t] \in Accounts /\ tries[t] # 0
      /\ t \notin kept /\ presented[t] \in Nat
      /\ job[h] = [op |-> kind, trip |-> t, id |-> returned[t], user |-> trip[t].user]
      /\ kind # "signed" \/ t \notin disturbed =>
           /\ t \notin stored
           /\ pc[h] = "exchange" => presented[t] = 0
           /\ \A g \in Handlers : Serves(g, t) => g = h
           /\ presented[t] <= 1
    BY <1>1, TripOf
<1>3. /\ FlowShape /\ TripInv(t) /\ RequestInv(h)
      /\ UNCHANGED <<job, ans, trip, fresh, kept, verifiers, returned, waiting, shown, tries,
                     disturbed>>
      /\ pc' = [pc EXCEPT ![h] = query] /\ query # "idle"
    BY DEF GoesOn, Await, storeVars, browserVars
<1>4. /\ pc'[h] = query /\ \A g \in Handlers \ {h} : pc'[g] = pc[g]
      /\ \A g \in Handlers, s \in Trips : Serves(g, s)' <=> Serves(g, s)
    BY <1>3 DEF FlowShape, Serves
<1>5. /\ presented' \in [Trips -> Nat] /\ \A s \in Trips \ {t} : presented'[s] = presented[s]
      /\ \/ presented'[t] = presented[t]
         \/ pc[h] = "exchange" /\ presented'[t] = presented[t] + 1
    BY <1>1, <1>2, <1>3 DEF FlowShape
<1>6. FlowShape'
    BY <1>3, <1>5 DEF FlowShape, FlowQueries
<1>7. \A g \in Handlers \ {h} : RequestInv(g)'
    BY <1>3, <1>4, RequestStays
<1>8. RequestInv(h)'
    BY <1>1, <1>2, <1>3, <1>4 DEF RequestInv
<1>9. \A s \in Trips \ {t} : SameTrip(s)
    BY <1>1, <1>3, <1>4, <1>5 DEF SameTrip, Serves
<1>10. \A s \in Trips \ {t} : TripInv(s)'
    BY <1>9, TripStays
<1>11. TripInv(t)'
    <2>1. kind # "signed" \/ t \notin disturbed => OneRequest(t)' /\ presented'[t] <= 1
        BY <1>2, <1>3, <1>4, <1>5 DEF OneRequest
    <2> QED BY <2>1, <1>2, <1>3, <1>4 DEF TripInv
<1>12. HistoryStays
    BY <1>3 DEF HistoryStays
<1>13. \A p \in ProviderNames, u \in Users : RowInv(p, u)'
    BY <1>12, RowsStay
<1>14. Page(t)'
    <2>1. Page(t)
        BY DEF PageIsTrue, Page
    <2> QED BY <2>1, <1>3, <1>12, PageStays
<1>15. PageIsTrue'
    BY <1>9, <1>12, <1>14, PagesStay
<1> QED BY <1>6, <1>7, <1>8, <1>10, <1>11, <1>13, <1>15

(* An answer, up to what it says and what it stored.                       *)
LEMMA ReplyKeepsTrips ==
    ASSUME FlowInv, NEW h \in Handlers, pc[h] # "idle", NEW t \in Trips, t = job[h].trip,
           NEW outcome \in Outcomes, Replies(h, outcome),
           disturbed' \in {disturbed, disturbed \cup {t}},
           stored' \in {stored, stored \cup {t}},
           rows' \in [ProviderNames -> [Users -> Accounts \cup {None}]],
           \/ presented' = presented
           \/ pc[h] = "exchange" /\ presented' = [presented EXCEPT ![t] = @ + 1]
    PROVE  /\ FlowShape' /\ \A g \in Handlers : RequestInv(g)'
           /\ \A s \in Trips : TripInv(s)'
           /\ HistoryStays /\ UNCHANGED <<trip, fresh, returned>>
           /\ \A s \in Trips \ {t} : /\ shown'[s] = shown[s] /\ (s \in stored' <=> s \in stored)
                                     /\ (s \in disturbed' <=> s \in disturbed)
           /\ shown'[t] = IF waiting[t] = h THEN outcome ELSE shown[t]
<1> USE DEF FlowInv
<1> DEFINE kind == trip[t].kind
<1>2. /\ Serves(h, t) /\ trip[t] # None /\ returned[t] \in Accounts /\ tries[t] # 0
      /\ t \notin kept /\ presented[t] \in Nat
      /\ job[h] = [op |-> kind, trip |-> t, id |-> returned[t], user |-> trip[t].user]
      /\ t \notin disturbed => waiting[t] = h
      /\ kind # "signed" \/ t \notin disturbed =>
           /\ pc[h] = "exchange" => presented[t] = 0
           /\ \A g \in Handlers : Serves(g, t) => g = h
           /\ presented[t] <= 1
    BY TripOf
<1>3. /\ FlowShape /\ TripInv(t)
      /\ UNCHANGED <<ans, trip, fresh, kept, verifiers, returned, tries>>
      /\ pc' = [pc EXCEPT ![h] = "idle"] /\ job' = [job EXCEPT ![h] = [op |-> "none"]]
      /\ shown' = IF waiting[t] = h THEN [shown EXCEPT ![t] = outcome] ELSE shown
      /\ waiting' = IF waiting[t] = h THEN [waiting EXCEPT ![t] = None] ELSE waiting
    BY DEF Replies, storeVars
<1>4. /\ pc'[h] = "idle" /\ \A g \in Handlers \ {h} : pc'[g] = pc[g] /\ job'[g] = job[g]
      /\ \A s \in Trips : ~Serves(h, s)'
      /\ \A s \in Trips \ {t} : ~Serves(h, s)
      /\ \A g \in Handlers \ {h}, s \in Trips : Serves(g, s)' <=> Serves(g, s)
    BY <1>3 DEF FlowShape, Serves
<1>5. /\ presented' \in [Trips -> Nat] /\ \A s \in Trips \ {t} : presented'[s] = presented[s]
      /\ \/ presented'[t] = presented[t]
         \/ pc[h] = "exchange" /\ presented'[t] = presented[t] + 1
    BY <1>2, <1>3 DEF FlowShape
<1>6. /\ shown'[t] = IF waiting[t] = h THEN outcome ELSE shown[t]
      /\ waiting'[t] = IF waiting[t] = h THEN None ELSE waiting[t]
      /\ \A s \in Trips \ {t} : shown'[s] = shown[s] /\ waiting'[s] = waiting[s]
      /\ shown' \in [Trips -> Outcomes \cup {None}]
      /\ waiting' \in [Trips -> Handlers \cup {None}]
    BY <1>3 DEF FlowShape
<1>7. FlowShape'
    <2>1. pc' \in [Handlers -> FlowQueries] /\ DOMAIN job' = Handlers
          /\ job' = [g \in Handlers |-> job'[g]]
        BY <1>3 DEF FlowShape, FlowQueries
    <2> QED BY <2>1, <1>3, <1>5, <1>6 DEF FlowShape
<1>8. \A g \in Handlers \ {h} : RequestInv(g)'
    BY <1>3, <1>4, RequestStays
<1>9. RequestInv(h)'
    BY <1>4 DEF RequestInv
<1>10. \A s \in Trips \ {t} : SameTrip(s)
    BY <1>3, <1>4, <1>5, <1>6 DEF SameTrip, Serves
<1>11. \A s \in Trips \ {t} : TripInv(s)'
    BY <1>10, TripStays
<1>12. TripInv(t)'
    <2>1. kind # "signed" \/ t \notin disturbed => OneRequest(t)' /\ presented'[t] <= 1
        BY <1>2, <1>4, <1>5 DEF OneRequest
    <2>2. \A g \in Handlers : t \notin disturbed' /\ Serves(g, t)' => waiting'[t] = g
        BY <1>2, <1>3, <1>4 DEF TripInv
    <2>3. t \notin disturbed' => t \notin disturbed
        OBVIOUS
    <2> QED BY <2>1, <2>2, <2>3, <1>2, <1>3, <1>6 DEF TripInv
<1>13. HistoryStays
    BY <1>3 DEF HistoryStays
<1> QED BY <1>3, <1>6, <1>7, <1>8, <1>9, <1>11, <1>12, <1>13

LEMMA RefusalKeeps ==
    ASSUME FlowInv, NEW h \in Handlers, pc[h] # "idle",
           NEW outcome \in {"provider", "conflict"}, Replies(h, outcome), NEW t \in Trips, t = job[h].trip,
           disturbed' \in {disturbed, disturbed \cup {t}}, UNCHANGED <<rows, stored>>,
           \/ presented' = presented
           \/ pc[h] = "exchange" /\ presented' = [presented EXCEPT ![t] = @ + 1],
           outcome = "conflict" /\ trip[t].kind # "social" =>
             \E s \in stored \ {t} : /\ ProviderOfKind(trip[s].kind) = ProviderOfKind(trip[t].kind)
                                     /\ trip[s].user = trip[t].user \/ returned[s] = returned[t]
    PROVE  FlowInv'
<1> USE DEF FlowInv
<1>1. /\ FlowShape' /\ \A g \in Handlers : RequestInv(g)'
      /\ \A s \in Trips : TripInv(s)'
      /\ HistoryStays /\ UNCHANGED <<trip, fresh, returned>>
      /\ \A s \in Trips \ {t} : /\ shown'[s] = shown[s] /\ (s \in stored' <=> s \in stored)
                                /\ (s \in disturbed' <=> s \in disturbed)
      /\ shown'[t] = IF waiting[t] = h THEN outcome ELSE shown[t]
    BY ReplyKeepsTrips DEF Outcomes, FlowShape
<1>2. \A p \in ProviderNames, u \in Users : RowInv(p, u)'
    BY <1>1, RowsStay
<1>3. \A s \in Trips : Page(s)
    BY DEF PageIsTrue, Page
<1>4. \A s \in Trips \ {t} : Page(s)'
    BY <1>1, <1>3, PageStays
<1>5. Page(t)'
    <2>1. CASE waiting[t] # h
        BY <2>1, <1>1, <1>3, PageStays
    <2>2. CASE waiting[t] = h
        <3>1. shown'[t] = outcome
            BY <2>2, <1>1
        <3>2. t \notin stored' \/ t \in disturbed'
            BY TripOf
        <3>3. shown'[t] = "conflict" /\ trip'[t].kind # "social" =>
                \E s \in {s \in stored' \ {t} :
                            ProviderOfKind(trip'[s].kind) = ProviderOfKind(trip'[t].kind)} :
                    trip'[s].user = trip'[t].user \/ returned'[s] = returned'[t]
            BY <3>1, <1>1
        <3> QED BY <3>1, <3>2, <3>3 DEF Page
    <2> QED BY <2>1, <2>2
<1>6. PageIsTrue'
    BY <1>4, <1>5 DEF PageIsTrue, Page
<1> QED BY <1>1, <1>2, <1>6

LEMMA RowWritten ==
    ASSUME NEW table \in [ProviderNames -> [Users -> Accounts \cup {None}]],
           NEW p \in ProviderNames, NEW u \in Users, NEW a \in Accounts
    PROVE  /\ [table EXCEPT ![p][u] = a] \in [ProviderNames -> [Users -> Accounts \cup {None}]]
           /\ [table EXCEPT ![p][u] = a][p][u] = a
           /\ \A q \in ProviderNames, v \in Users :
                 [table EXCEPT ![p][u] = a][q][v] = table[q][v] \/ (q = p /\ v = u)
OBVIOUS

LEMMA SuccessKeeps ==
    ASSUME FlowInv, NEW h \in Handlers, pc[h] # "idle", Replies(h, "success"),
           NEW t \in Trips, t = job[h].trip, UNCHANGED <<presented, disturbed>>,
           stored' = stored \cup {t},
           \/ trip[t].kind = "social" /\ rows' = rows
           \/ /\ trip[t].kind # "social"
              /\ rows' = [rows EXCEPT ![ProviderOfKind(job[h].op)][job[h].user] = job[h].id]
    PROVE  FlowInv'
<1> USE DEF FlowInv
<1> DEFINE p == ProviderOfKind(trip[t].kind)
           u == trip[t].user
<1>1. /\ Serves(h, t) /\ trip[t] # None /\ returned[t] \in Accounts /\ trip[t] \in TripRows
      /\ job[h] = [op |-> trip[t].kind, trip |-> t, id |-> returned[t], user |-> u]
      /\ t \notin disturbed => waiting[t] = h
      /\ trip[t].kind # "social" => u \in Users
    BY TripOf DEF TripInv
<1>2. p \in ProviderNames
    BY <1>1 DEF TripRows, ProviderNames
<1>3. /\ rows' \in [ProviderNames -> [Users -> Accounts \cup {None}]]
      /\ trip[t].kind # "social" => rows'[p][u] = returned[t]
      /\ \A q \in ProviderNames, v \in Users :
           rows'[q][v] = rows[q][v] \/ (trip[t].kind # "social" /\ q = p /\ v = u)
    <2>1. CASE rows' = rows /\ trip[t].kind = "social"
        BY <2>1 DEF FlowShape
    <2>2. CASE trip[t].kind # "social" /\ rows' = [rows EXCEPT ![p][u] = returned[t]]
        <3>1. /\ rows \in [ProviderNames -> [Users -> Accounts \cup {None}]]
              /\ u \in Users /\ returned[t] \in Accounts
            BY <2>2, <1>1 DEF FlowShape
        <3> HIDE DEF p, u, FlowInv
        <3> QED BY <2>2, <3>1, <1>2, RowWritten
    <2>3. \/ trip[t].kind = "social" /\ rows' = rows
          \/ trip[t].kind # "social" /\ rows' = [rows EXCEPT ![p][u] = returned[t]]
        BY <1>1
    <2> HIDE DEF p, u, FlowInv
    <2> QED BY <2>1, <2>2, <2>3
<1>4. /\ FlowShape' /\ \A g \in Handlers : RequestInv(g)'
      /\ \A s \in Trips : TripInv(s)'
      /\ HistoryStays /\ UNCHANGED <<trip, fresh, returned>>
      /\ \A s \in Trips \ {t} : /\ shown'[s] = shown[s] /\ (s \in stored' <=> s \in stored)
                                /\ (s \in disturbed' <=> s \in disturbed)
      /\ shown'[t] = IF waiting[t] = h THEN "success" ELSE shown[t]
    BY <1>3, ReplyKeepsTrips DEF Outcomes
<1>5. \A q \in ProviderNames, v \in Users : RowInv(q, v)'
    <2> SUFFICES ASSUME NEW q \in ProviderNames, NEW v \in Users PROVE RowInv(q, v)'
        OBVIOUS
    <2>1. CASE rows'[q][v] = rows[q][v]
        BY <2>1, <1>4, RowsStay
    <2>2. CASE rows'[q][v] # rows[q][v]
        <3>1. trip[t].kind # "social" /\ q = p /\ v = u
            BY <2>2, <1>3
        <3>2. /\ t \in stored' /\ trip'[t].kind # "social" /\ ProviderOfKind(trip'[t].kind) = q
              /\ trip'[t].user = v /\ returned'[t] = rows'[q][v]
            BY <3>1, <1>3, <1>4
        <3> QED BY <3>2 DEF RowInv
    <2> QED BY <2>1, <2>2
<1>6. \A s \in Trips : Page(s)
    BY DEF PageIsTrue, Page
<1>7. \A s \in Trips \ {t} : Page(s)'
    <2> SUFFICES ASSUME NEW s \in Trips \ {t}, shown[s] # None PROVE Page(s)'
        BY <1>4 DEF Page
    <2> DEFINE others == {r \in stored \ {s} :
                            ProviderOfKind(trip[r].kind) = ProviderOfKind(trip[s].kind)}
               others2 == {r \in stored' \ {s} :
                            ProviderOfKind(trip'[r].kind) = ProviderOfKind(trip'[s].kind)}
               q == ProviderOfKind(trip[s].kind)
    <2>1. others \subseteq others2 /\ (p = q => t \in others2)
        BY <1>4
    <2>2. /\ trip[s] \in TripRows /\ trip[s].kind \in Kinds
          /\ trip[s].kind # "social" => trip[s].user \in Users
        <3>1. TripInv(s) /\ trip[s] \in TripRows \cup {None} /\ waiting[s] \in Handlers \cup {None}
            BY DEF FlowShape
        <3>2. trip[s] # None
            BY <3>1 DEF TripInv, Untouched
        <3> QED BY <3>1, <3>2 DEF TripInv, TripRows
    <2>3. q \in ProviderNames
        BY <2>2 DEF ProviderNames
    <2>4. shown[s] = "success" /\ trip[s].kind # "social" =>
            rows[q][trip[s].user] = returned[s] \/ \E r \in others : trip[r].user = trip[s].user
        BY <1>6 DEF Page
    <2>5. shown[s] = "conflict" /\ trip[s].kind # "social" =>
            \E r \in others : trip[r].user = trip[s].user \/ returned[r] = returned[s]
        BY <1>6 DEF Page
    <2>6. shown[s] = "success" /\ trip[s].kind # "social" =>
            rows'[q][trip[s].user] = returned[s] \/ \E r \in others2 : trip[r].user = trip[s].user
        <3> HIDE DEF others, others2, p, q
        <3> SUFFICES ASSUME shown[s] = "success", trip[s].kind # "social"
                     PROVE  \/ rows'[q][trip[s].user] = returned[s]
                            \/ \E r \in others2 : trip[r].user = trip[s].user
            OBVIOUS
        <3>1. CASE rows'[q][trip[s].user] = rows[q][trip[s].user]
            BY <3>1, <2>1, <2>4
        <3>2. CASE rows'[q][trip[s].user] # rows[q][trip[s].user]
            BY <3>2, <1>3, <2>1, <2>2, <2>3
        <3> QED BY <3>1, <3>2
    <2>7. shown'[s] = "success" /\ trip'[s].kind # "social" =>
            \/ rows'[ProviderOfKind(trip'[s].kind)][trip'[s].user] = returned'[s]
            \/ \E r \in others2 : trip'[r].user = trip'[s].user
        BY <2>6, <1>4
    <2>8. shown'[s] = "conflict" /\ trip'[s].kind # "social" =>
            \E r \in others2 : trip'[r].user = trip'[s].user \/ returned'[r] = returned'[s]
        <3> HIDE DEF others, others2
        <3> QED BY <2>1, <2>5, <1>4
    <2>9. /\ shown'[s] = "success" => s \in stored'
          /\ shown'[s] # "success" => s \notin stored' \/ s \in disturbed'
          /\ shown'[s] = "state" => s \notin fresh' \/ s \in disturbed'
          /\ shown'[s] = "denied" => returned'[s] = "denied"
        BY <1>4, <1>6 DEF Page
    <2> QED BY <2>7, <2>8, <2>9 DEF Page
<1>8. Page(t)'
    <2>1. t \in stored' /\ (trip'[t].kind # "social" =>
             rows'[ProviderOfKind(trip'[t].kind)][trip'[t].user] = returned'[t])
        BY <1>3, <1>4
    <2>2. CASE waiting[t] = h
        BY <2>1, <2>2, <1>4 DEF Page
    <2>3. CASE waiting[t] # h
        <3>1. Page(t) /\ t \in disturbed' /\ shown'[t] = shown[t]
            BY <2>3, <1>1, <1>4, <1>6
        <3>2. shown[t] = "conflict" /\ trip[t].kind # "social" =>
                \E s \in {s \in stored \ {t} : ProviderOfKind(trip[s].kind) = p} :
                    trip[s].user = trip[t].user \/ returned[s] = returned[t]
            BY <3>1, NoTripAssumption DEF Page, Outcomes
        <3>3. shown'[t] = "conflict" /\ trip'[t].kind # "social" =>
                \E s \in {s \in stored' \ {t} :
                            ProviderOfKind(trip'[s].kind) = ProviderOfKind(trip'[t].kind)} :
                    trip'[s].user = trip'[t].user \/ returned'[s] = returned'[t]
            BY <3>1, <3>2, <1>4
        <3>4. shown'[t] = "denied" => returned'[t] = "denied"
            BY <3>1, <1>4, NoTripAssumption DEF Page, Outcomes
        <3> QED BY <2>1, <3>1, <3>3, <3>4 DEF Page
    <2> QED BY <2>2, <2>3
<1>9. PageIsTrue'
    BY <1>7, <1>8 DEF PageIsTrue, Page
<1> QED BY <1>4, <1>5, <1>9

-----------------------------------------------------------------------------
(* Faults of the connection and of the process.                            *)

LEMMA BreakKeeps ==
    ASSUME FlowInv, NEW t \in Trips, ConnectionBreaks(t) PROVE FlowInv'
<1> USE DEF FlowInv
<1>1. /\ FlowShape /\ TripInv(t) /\ waiting[t] # None
      /\ waiting' = [waiting EXCEPT ![t] = None] /\ shown' = [shown EXCEPT ![t] = "lost"]
      /\ disturbed' = disturbed \cup {t}
      /\ UNCHANGED <<pc, job, ans, trip, fresh, kept, verifiers, returned, rows, tries,
                     presented, stored>>
    BY DEF ConnectionBreaks, handlerVars, storeVars
<1>2. /\ waiting'[t] = None /\ shown'[t] = "lost"
      /\ \A s \in Trips \ {t} : waiting'[s] = waiting[s] /\ shown'[s] = shown[s]
      /\ waiting' \in [Trips -> Handlers \cup {None}] /\ shown' \in [Trips -> Outcomes \cup {None}]
    BY <1>1 DEF FlowShape, Outcomes
<1>3. FlowShape'
    BY <1>1, <1>2 DEF FlowShape
<1>4. \A h \in Handlers : RequestInv(h)'
    BY <1>1, RequestStays
<1>5. \A s \in Trips \ {t} : SameTrip(s)
    BY <1>1, <1>2, HandlersUntouched DEF SameTrip
<1>6. \A s \in Trips \ {t} : TripInv(s)'
    BY <1>5, TripStays
<1>7. TripInv(t)'
    <2>1. tries[t] # 0
        BY <1>1 DEF TripInv, Untouched
    <2>2. (Unused(t)' <=> Unused(t)) /\ (OneRequest(t)' <=> OneRequest(t))
        BY <1>1 DEF Unused, OneRequest, Serves
    <2> QED BY <2>1, <2>2, <1>1, <1>2 DEF TripInv
<1>8. HistoryStays
    BY <1>1 DEF HistoryStays
<1>9. \A p \in ProviderNames, u \in Users : RowInv(p, u)'
    BY <1>1, <1>8, RowsStay
<1>10. Page(t)'
    BY <1>1, <1>2 DEF Page
<1>11. PageIsTrue'
    BY <1>1, <1>5, <1>8, <1>10, PagesStay
<1> QED BY <1>3, <1>4, <1>6, <1>7, <1>9, <1>11

LEMMA RestartKeeps == ASSUME FlowInv, BackendRestarts PROVE FlowInv'
<1> USE DEF FlowInv
<1>1. /\ FlowShape /\ kept' = {}
      /\ pc' = [h \in Handlers |-> "idle"] /\ job' = [h \in Handlers |-> [op |-> "none"]]
      /\ shown' = [t \in Trips |-> IF waiting[t] # None THEN "lost" ELSE shown[t]]
      /\ waiting' = [t \in Trips |-> None]
      /\ disturbed' = disturbed \cup {t \in Trips : trip[t] # None /\ shown[t] = None}
      /\ UNCHANGED <<ans, trip, fresh, returned, rows, tries, presented, stored>>
    BY DEF BackendRestarts
<1>2. FlowShape'
    BY <1>1 DEF FlowShape, FlowQueries, Outcomes
<1>3. \A h \in Handlers : RequestInv(h)' /\ \A t \in Trips : ~Serves(h, t)'
    BY <1>1 DEF RequestInv, Serves
<1>4. \A t \in Trips : /\ waiting[t] # None => trip[t] # None /\ shown[t] = None
                       /\ tries[t] = 0 => waiting[t] = None /\ shown[t] = None
    BY DEF TripInv, Untouched
<1>5. \A t \in Trips : TripInv(t)'
    <2> SUFFICES ASSUME NEW t \in Trips PROVE TripInv(t)'
        OBVIOUS
    <2>1. TripInv(t) /\ (Unused(t) => Unused(t)') /\ OneRequest(t)'
        BY <1>1, <1>3 DEF Unused, OneRequest
    <2>2. tries[t] = 0 => Untouched(t)'
        BY <1>1, <1>4, <2>1 DEF TripInv, Untouched
    <2>3. ~(tries'[t] = 0 /\ t \in fresh' /\ t \notin disturbed')
        BY <1>1, <1>4, <2>1 DEF TripInv
    <2>4. t \notin disturbed' => t \notin disturbed
        BY <1>1
    <2> QED BY <2>1, <2>2, <2>3, <2>4, <1>1, <1>3 DEF TripInv
<1>6. HistoryStays
    BY <1>1 DEF HistoryStays
<1>7. \A p \in ProviderNames, u \in Users : RowInv(p, u)'
    BY <1>1, <1>6, RowsStay
<1>8. \A t \in Trips : Page(t)'
    <2> SUFFICES ASSUME NEW t \in Trips PROVE Page(t)'
        OBVIOUS
    <2>1. CASE waiting[t] = None
        <3>1. Page(t) /\ shown'[t] = shown[t] /\ (t \in disturbed => t \in disturbed')
            BY <2>1, <1>1 DEF PageIsTrue, Page
        <3> QED BY <3>1, <1>1, <1>6, PageStays
    <2>2. CASE waiting[t] # None
        BY <2>2, <1>1, <1>4 DEF Page
    <2> QED BY <2>1, <2>2
<1>9. PageIsTrue'
    BY <1>8 DEF PageIsTrue, Page
<1> QED BY <1>2, <1>3, <1>5, <1>7, <1>9

-----------------------------------------------------------------------------
(* The actions.                                                            *)

LEMMA StartsKeep ==
    ASSUME FlowInv, NEW t \in Trips, NEW u \in Users,
           \/ \E kind \in Kinds : StartOAuthFlow(t, kind, u)
           \/ StartSteamOpenIdFlow(t, u)
           \/ GetAuthorizationUrl(t, u)
    PROVE  FlowInv'
<1>1. ASSUME NEW kind \in Kinds, StartOAuthFlow(t, kind, u) PROVE FlowInv'
    <2>1. /\ Leaves(t, kind, u) /\ kind \in {"oauth", "pkce"} /\ kept' = kept \cup {t}
          /\ verifiers \subseteq verifiers' /\ (kind = "pkce" => t \in verifiers')
        BY <1>1 DEF StartOAuthFlow
    <2> QED BY <2>1, LeaveKeeps DEF Kinds
<1>2. CASE StartSteamOpenIdFlow(t, u)
    <2>1. Leaves(t, "openid", u) /\ kept' = kept \cup {t} /\ verifiers' = verifiers
        BY <1>2 DEF StartSteamOpenIdFlow
    <2> QED BY <2>1, LeaveKeeps DEF Kinds
<1>3. CASE GetAuthorizationUrl(t, u)
    <2>1. Leaves(t, "signed", u) /\ kept' = kept /\ verifiers' = verifiers
        BY <1>3 DEF GetAuthorizationUrl, storeVars
    <2> QED BY <2>1, LeaveKeeps DEF Kinds
<1> QED BY <1>1, <1>2, <1>3

(* The first callback of a trip that nothing disturbed finds its state, and *)
(* its verifier, unless they are too old.                                  *)
LEMMA FirstCallback ==
    ASSUME FlowInv, NEW t \in Trips, NEW h \in Handlers, NEW kinds,
           NEW outcome \in Accounts \cup {"denied"}, CallsBack(h, t, kinds, outcome),
           t \in fresh, t \notin disturbed', trip[t].kind # "signed"
    PROVE  t \in kept /\ (trip[t].kind = "pkce" => t \in verifiers)
BY DEF FlowInv, TripInv, CallsBack

LEMMA CallbacksKeep ==
    ASSUME FlowInv, NEW t \in Trips, NEW h \in Handlers, NEW outcome \in Accounts \cup {"denied"},
           \/ CompleteCallback(h, t, outcome)
           \/ CompleteOAuthCallback(h, t, outcome)
           \/ CompleteSteamOpenIdCallback(h, t, outcome)
           \/ CompleteDiscordCallback(h, t, outcome)
    PROVE  FlowInv'
<1>1. CASE CompleteCallback(h, t, outcome)
    <2> DEFINE asked == outcome # "denied" /\ LoginState(t)
    <2>1. PICK accepted \in BOOLEAN : accepted = (asked /\ t \in kept)
        OBVIOUS
    <2>2. /\ CallsBack(h, t, {"social"}, outcome)
          /\ Proceeds(h, t, outcome, accepted, Refusal(outcome))
          /\ kept' = (IF asked THEN kept \ {t} ELSE kept) /\ verifiers' = verifiers
        BY <1>1, <2>1 DEF CompleteCallback, TakenOut
    <2>3. trip[t].kind = "social"
        BY <2>2 DEF CallsBack
    <2>4. /\ Refusal(outcome) \in {"denied", "state"}
          /\ Refusal(outcome) = "denied" => outcome = "denied"
          /\ Refusal(outcome) = "state" => outcome # "denied"
        BY DEF Refusal
    <2>5. accepted => outcome # "denied" /\ t \in kept /\ kept' = kept \ {t}
        BY <2>1, <2>2
    <2>6. ~accepted /\ Refusal(outcome) = "state" /\ t \in fresh => t \in disturbed'
        BY <2>1, <2>2, <2>3, <2>4, FirstCallback DEF LoginState
    <2>7. kept' \in {kept, kept \ {t}}
        BY <2>2
    <2> QED BY <2>2, <2>4, <2>5, <2>6, <2>7, CallbackKeeps
<1>2. CASE CompleteOAuthCallback(h, t, outcome)
    <2> DEFINE asked == outcome # "denied" /\ \E kind \in {"oauth", "pkce"} : LinkState(t, kind)
               known == asked /\ t \in kept
    <2>1. PICK accepted \in BOOLEAN :
             accepted = (known /\ (trip[t].kind = "pkce" => t \in verifiers))
        OBVIOUS
    <2>2. /\ CallsBack(h, t, {"oauth", "pkce"}, outcome)
          /\ Proceeds(h, t, outcome, accepted, Refusal(outcome))
          /\ kept' = (IF asked THEN kept \ {t} ELSE kept)
          /\ verifiers' \in {verifiers, verifiers \ {t}}
        BY <1>2, <2>1 DEF CompleteOAuthCallback, TakenOut
    <2>3. trip[t].kind \in {"oauth", "pkce"}
        BY <2>2 DEF CallsBack
    <2>4. /\ Refusal(outcome) \in {"denied", "state"}
          /\ Refusal(outcome) = "denied" => outcome = "denied"
          /\ Refusal(outcome) = "state" => outcome # "denied"
        BY DEF Refusal
    <2>5. accepted => outcome # "denied" /\ t \in kept /\ kept' = kept \ {t}
        BY <2>1, <2>2
    <2>6. ~accepted /\ Refusal(outcome) = "state" /\ t \in fresh => t \in disturbed'
        BY <2>1, <2>2, <2>3, <2>4, FirstCallback DEF LinkState
    <2>7. kept' \in {kept, kept \ {t}}
        BY <2>2
    <2> QED BY <2>2, <2>4, <2>5, <2>6, <2>7, CallbackKeeps
<1>3. CASE CompleteSteamOpenIdCallback(h, t, outcome)
    <2> DEFINE asked == LinkState(t, "openid")
               known == asked /\ t \in kept
    <2>1. PICK accepted \in BOOLEAN : accepted = (known /\ outcome # "denied")
        OBVIOUS
    <2>2. PICK refusal \in {"denied", "state"} :
             refusal = (IF known THEN Refusal(outcome) ELSE "state")
        BY DEF Refusal
    <2>3. /\ CallsBack(h, t, {"openid"}, outcome)
          /\ Proceeds(h, t, outcome, accepted, refusal)
          /\ kept' = (IF asked THEN kept \ {t} ELSE kept) /\ verifiers' = verifiers
        BY <1>3, <2>1, <2>2 DEF CompleteSteamOpenIdCallback, TakenOut
    <2>4. trip[t].kind = "openid"
        BY <2>3 DEF CallsBack
    <2>5. ~accepted /\ refusal = "denied" => outcome = "denied"
        BY <2>2 DEF Refusal
    <2>6. accepted => outcome # "denied" /\ t \in kept /\ kept' = kept \ {t}
        BY <2>1, <2>3
    <2>7. ~accepted /\ refusal = "state" /\ t \in fresh => t \in disturbed'
        BY <2>1, <2>2, <2>3, <2>4, FirstCallback DEF LinkState, Refusal
    <2>8. kept' \in {kept, kept \ {t}}
        BY <2>3
    <2> QED BY <2>3, <2>5, <2>6, <2>7, <2>8, CallbackKeeps
<1>4. CASE CompleteDiscordCallback(h, t, outcome)
    <2>1. PICK accepted \in BOOLEAN : accepted = (outcome # "denied" /\ DiscordState(t))
        OBVIOUS
    <2>2. /\ CallsBack(h, t, {"signed"}, outcome)
          /\ Proceeds(h, t, outcome, accepted, Refusal(outcome))
          /\ kept' = kept /\ verifiers' = verifiers
        BY <1>4, <2>1 DEF CompleteDiscordCallback, storeVars
    <2>3. trip[t].kind = "signed"
        BY <2>2 DEF CallsBack
    <2>4. /\ Refusal(outcome) \in {"denied", "state"}
          /\ Refusal(outcome) = "denied" => outcome = "denied"
          /\ Refusal(outcome) = "state" => outcome # "denied"
        BY DEF Refusal
    <2>5. accepted => outcome # "denied" /\ trip[t].kind = "signed"
        BY <2>1, <2>3
    <2>6. ~accepted /\ Refusal(outcome) = "state" /\ t \in fresh => t \in disturbed'
        BY <2>1, <2>3, <2>4 DEF DiscordState
    <2> QED BY <2>2, <2>4, <2>5, <2>6, CallbackKeeps
<1> QED BY <1>1, <1>2, <1>3, <1>4

LEMMA ExchangesKeep ==
    ASSUME FlowInv, NEW h \in Handlers,
           \/ ExchangeSocialCode(h) \/ ExchangeMyAnimeListCode(h)
           \/ VerifySteamCallback(h) \/ ExchangeDiscordCode(h)
    PROVE  FlowInv'
<1>1. PICK query \in {"login", "owner", "row", "identity", "store"} :
        /\ pc[h] = "exchange" /\ Exchanged(h, query)
        /\ presented' = [presented EXCEPT ![job[h].trip] = @ + 1]
        /\ (query = "login") <=> (job[h].op = "social")
    BY DEF ExchangeSocialCode, ExchangeMyAnimeListCode, VerifySteamCallback, ExchangeDiscordCode,
           Presents
<1>2. PICK t \in Trips : t = job[h].trip
    BY <1>1 DEF FlowInv, RequestInv
<1>3. CASE presented[t] > 0
    <2>1. Replies(h, "provider") /\ UNCHANGED <<disturbed, rows, stored>>
        BY <1>1, <1>2, <1>3 DEF Exchanged
    <2> QED BY <1>1, <1>2, <2>1, RefusalKeeps
<1>4. CASE ~(presented[t] > 0)
    <2>1. GoesOn(h, query) /\ UNCHANGED <<rows, stored>>
        BY <1>1, <1>2, <1>4 DEF Exchanged
    <2> QED BY <1>1, <1>2, <2>1, GoOnKeeps
<1> QED BY <1>3, <1>4

(* Who holds an account, or the row, got it from a trip.                   *)
LEMMA ConflictHasCause ==
    ASSUME FlowInv, NEW h \in Handlers, pc[h] \in {"owner", "row", "identity", "store"},
           NEW t \in Trips, t = job[h].trip,
           HeldByOther(h) \/ Row(h) \notin {None, job[h].id}
    PROVE  \E s \in stored \ {t} : /\ ProviderOfKind(trip[s].kind) = ProviderOfKind(trip[t].kind)
                                   /\ trip[s].user = trip[t].user \/ returned[s] = returned[t]
<1>1. /\ trip[t] \in TripRows /\ returned[t] \in Accounts
      /\ job[h] = [op |-> trip[t].kind, trip |-> t, id |-> returned[t], user |-> trip[t].user]
      /\ RequestInv(h) /\ TripInv(t)
      /\ \A q \in ProviderNames, v \in Users : RowInv(q, v)
    BY TripOf DEF FlowInv
<1>2. trip[t].user \in Users /\ returned[t] # None /\ trip[t] # None
    BY <1>1, NoTripAssumption DEF RequestInv, TripInv
<1>3. PICK u \in Users : u = trip[t].user
    BY <1>2
<1>4. PICK p \in ProviderNames : p = ProviderOfKind(trip[t].kind)
    BY <1>1 DEF TripRows, ProviderNames
<1>5. job[h].user = u /\ job[h].id = returned[t] /\ ProviderOfKind(job[h].op) = p
    BY <1>1, <1>3, <1>4
<1>6. \A v \in Users : rows[p][v] # None =>
        \E s \in stored : /\ ProviderOfKind(trip[s].kind) = p
                          /\ trip[s].user = v /\ returned[s] = rows[p][v]
    BY <1>1 DEF RowInv
<1>7. CASE HeldByOther(h)
    <2>1. PICK v \in Users \ {u} : rows[p][v] = returned[t]
        BY <1>5, <1>7 DEF HeldByOther
    <2>2. PICK s \in stored : /\ ProviderOfKind(trip[s].kind) = p
                              /\ trip[s].user = v /\ returned[s] = returned[t]
        BY <1>2, <1>6, <2>1
    <2> QED BY <1>3, <1>4, <2>1, <2>2
<1>8. CASE Row(h) \notin {None, job[h].id}
    <2>1. rows[p][u] # None /\ rows[p][u] # returned[t]
        BY <1>5, <1>8 DEF Row
    <2>2. PICK s \in stored : /\ ProviderOfKind(trip[s].kind) = p
                              /\ trip[s].user = u /\ returned[s] = rows[p][u]
        BY <1>6, <2>1
    <2> QED BY <1>3, <1>4, <2>1, <2>2
<1> QED BY <1>7, <1>8

LEMMA ChecksKeep ==
    ASSUME FlowInv, NEW h \in Handlers,
           FindByProviderExternalId(h) \/ FindByUserProvider(h) \/ ConnectFindsOwner(h)
    PROVE  FlowInv'
<1>1. PICK next \in {"row", "identity", "store"}, conflict \in BOOLEAN :
        /\ conflict => HeldByOther(h) \/ Row(h) \notin {None, job[h].id}
        /\ pc[h] \in {"owner", "row", "identity"}
        /\ IF conflict THEN Replies(h, "conflict") /\ UNCHANGED disturbed ELSE GoesOn(h, next)
        /\ UNCHANGED <<rows, faults, presented, stored>>
    <2>1. CASE FindByProviderExternalId(h)
        <3>1. PICK conflict \in BOOLEAN : conflict = HeldByOther(h)
            BY DEF HeldByOther
        <3> QED BY <2>1, <3>1 DEF FindByProviderExternalId, ChecksConflict
    <2>2. CASE FindByUserProvider(h)
        <3>1. PICK conflict \in BOOLEAN : conflict = (Row(h) \notin {None, job[h].id})
            OBVIOUS
        <3> QED BY <2>2, <3>1 DEF FindByUserProvider, ChecksConflict
    <2>3. CASE ConnectFindsOwner(h)
        <3>1. PICK conflict \in BOOLEAN : conflict = HeldByOther(h)
            BY DEF HeldByOther
        <3> QED BY <2>3, <3>1 DEF ConnectFindsOwner, ChecksConflict
    <2> QED BY <2>1, <2>2, <2>3
<1>2. PICK t \in Trips : t = job[h].trip
    BY <1>1 DEF FlowInv, RequestInv
<1>3. CASE conflict
    <2>1. \E s \in stored \ {t} : /\ ProviderOfKind(trip[s].kind) = ProviderOfKind(trip[t].kind)
                                  /\ trip[s].user = trip[t].user \/ returned[s] = returned[t]
        BY <1>1, <1>2, <1>3, ConflictHasCause
    <2> QED BY <1>1, <1>2, <1>3, <2>1, RefusalKeeps
<1>4. CASE ~conflict
    <2>1. trip[t].kind # "social"
        BY <1>1, <1>2 DEF FlowInv, RequestInv
    <2>2. job[h] = [op |-> trip[t].kind, trip |-> t, id |-> returned[t], user |-> trip[t].user]
        BY <1>1, <1>2, TripOf
    <2> QED BY <1>1, <1>4, <2>1, <2>2, GoOnKeeps
<1> QED BY <1>3, <1>4

LEMMA StoreKeeps == ASSUME FlowInv, NEW h \in Handlers, StoreAccount(h) PROVE FlowInv'
<1>1. pc[h] = "store" /\ UNCHANGED <<faults, presented, disturbed>>
    BY DEF StoreAccount
<1>2. PICK t \in Trips : t = job[h].trip
    BY <1>1 DEF FlowInv, RequestInv
<1>3. CASE HeldByOther(h)
    <2>1. \E s \in stored \ {t} : /\ ProviderOfKind(trip[s].kind) = ProviderOfKind(trip[t].kind)
                                  /\ trip[s].user = trip[t].user \/ returned[s] = returned[t]
        BY <1>1, <1>2, <1>3, ConflictHasCause
    <2>2. Replies(h, "conflict") /\ UNCHANGED <<rows, stored>>
        BY <1>3 DEF StoreAccount
    <2> QED BY <1>1, <1>2, <2>1, <2>2, RefusalKeeps
<1>4. CASE ~HeldByOther(h)
    <2>1. trip[t].kind # "social"
        BY <1>1, <1>2 DEF FlowInv, RequestInv
    <2>2. /\ Replies(h, "success") /\ stored' = stored \cup {t}
          /\ rows' = [rows EXCEPT ![ProviderOfKind(job[h].op)][job[h].user] = job[h].id]
        BY <1>2, <1>4 DEF StoreAccount
    <2> QED BY <1>1, <1>2, <2>1, <2>2, SuccessKeeps
<1> QED BY <1>3, <1>4

LEMMA SignInKeeps ==
    ASSUME FlowInv, NEW h \in Handlers, NEW outcome \in {"success", "provider", "conflict"},
           SignIn(h, outcome)
    PROVE  FlowInv'
<1>1. pc[h] = "login" /\ Replies(h, outcome) /\ UNCHANGED <<rows, faults, presented, disturbed>>
    BY DEF SignIn
<1>2. PICK t \in Trips : t = job[h].trip
    BY <1>1 DEF FlowInv, RequestInv
<1>3. trip[t].kind = "social"
    BY <1>1, <1>2 DEF FlowInv, RequestInv
<1>4. stored' = IF outcome = "success" THEN stored \cup {t} ELSE stored
    BY <1>2 DEF SignIn
<1>5. CASE outcome = "success"
    BY <1>1, <1>2, <1>3, <1>4, <1>5, SuccessKeeps
<1>6. CASE outcome # "success"
    BY <1>1, <1>2, <1>3, <1>4, <1>6, RefusalKeeps
<1> QED BY <1>5, <1>6

LEMMA FailureKeeps == ASSUME FlowInv, NEW h \in Handlers, CallbackFails(h) PROVE FlowInv'
<1>1. /\ pc[h] # "idle" /\ Replies(h, "provider") /\ disturbed' = disturbed \cup {job[h].trip}
      /\ UNCHANGED <<rows, stored>>
      /\ \/ presented' = presented
         \/ pc[h] = "exchange" /\ presented' = [presented EXCEPT ![job[h].trip] = @ + 1]
    BY DEF CallbackFails, Live
<1>2. PICK t \in Trips : t = job[h].trip
    BY <1>1 DEF FlowInv, RequestInv
<1> QED BY <1>1, <1>2, RefusalKeeps

LEMMA FlowStep == FlowInv /\ [ConnectNext]_<<handlerVars, connectVars>> => FlowInv'
<1> SUFFICES ASSUME FlowInv, [ConnectNext]_<<handlerVars, connectVars>> PROVE FlowInv'
    OBVIOUS
<1>1. ASSUME NEW t \in Trips, StartSocialLogin(t) PROVE FlowInv'
    <2>1. Leaves(t, "social", None) /\ kept' = kept \cup {t} /\ verifiers' = verifiers
        BY <1>1 DEF StartSocialLogin
    <2> QED BY <2>1, LeaveKeeps DEF Kinds
<1>2. ASSUME NEW t \in Trips, NEW u \in Users,
             \/ \E kind \in Kinds : StartOAuthFlow(t, kind, u)
             \/ StartSteamOpenIdFlow(t, u) \/ GetAuthorizationUrl(t, u)
      PROVE  FlowInv'
    BY <1>2, StartsKeep
<1>3. ASSUME NEW t \in Trips, StateExpires(t) \/ ConnectionBreaks(t) PROVE FlowInv'
    BY <1>3, ExpiryKeeps, BreakKeeps
<1>4. ASSUME NEW t \in Trips, NEW h \in Handlers, NEW outcome \in Accounts \cup {"denied"},
             \/ CompleteCallback(h, t, outcome) \/ CompleteOAuthCallback(h, t, outcome)
             \/ CompleteSteamOpenIdCallback(h, t, outcome)
             \/ CompleteDiscordCallback(h, t, outcome)
      PROVE  FlowInv'
    BY <1>4, CallbacksKeep
<1>5. ASSUME NEW h \in Handlers,
             \/ ExchangeSocialCode(h) \/ ExchangeMyAnimeListCode(h)
             \/ VerifySteamCallback(h) \/ ExchangeDiscordCode(h)
             \/ FindByProviderExternalId(h) \/ FindByUserProvider(h)
             \/ ConnectFindsOwner(h) \/ StoreAccount(h)
             \/ \E outcome \in {"success", "provider", "conflict"} : SignIn(h, outcome)
             \/ CallbackFails(h)
      PROVE  FlowInv'
    BY <1>5, ExchangesKeep, ChecksKeep, StoreKeeps, SignInKeeps, FailureKeeps
<1>6. CASE BackendRestarts
    BY <1>6, RestartKeeps
<1>7. CASE UNCHANGED <<handlerVars, connectVars>>
    <2>1. UNCHANGED <<pc, job, trip, fresh, kept, verifiers, returned, rows, waiting, shown,
                      tries, presented, stored, disturbed>>
        BY <1>7 DEF handlerVars, connectVars
    <2> QED BY <2>1 DEF FlowInv, FlowShape, RequestInv, TripInv, RowInv, Untouched, Unused,
                       OneRequest, Serves, PageIsTrue
<1> QED BY <1>1, <1>2, <1>3, <1>4, <1>5, <1>6, <1>7 DEF ConnectNext

(* A state is taken out of its store by the first callback, and there is   *)
(* one request per trip from then on, which presents the code once.        *)
THEOREM TripsAreHonouredOnce == ConnectSpec => []HonouredOnce
<1>1. FlowInv => HonouredOnce
    BY DEF FlowInv, TripInv, Unused, HonouredOnce
<1> QED BY <1>1, FlowStart, FlowStep, PTL DEF ConnectSpec

(* The browser shows what its last request was answered, and what that     *)
(* request found, stored or was refused goes on being so.                  *)
THEOREM PagesAreTrue == ConnectSpec => []PageIsTrue
<1>1. FlowInv => PageIsTrue
    BY DEF FlowInv
<1> QED BY <1>1, FlowStart, FlowStep, PTL DEF ConnectSpec
=============================================================================
