------------------------ MODULE AccountConnections ------------------------
(***************************************************************************)
(* Who may log in as whom: first logins through a provider                 *)
(* (social-auth.service.ts), linking and unlinking of provider accounts    *)
(* (account-connection.service.ts, connected-account.service.ts), the      *)
(* older Discord integration (discord-oauth.service.ts) and the rows of    *)
(* platform_integrations they share.                                       *)
(*                                                                         *)
(* A request is a chain of awaits; each action is the code between two of  *)
(* them, with the one database statement in it.  Nothing is transactional: *)
(* what a request has read may be stale when it writes.  The database      *)
(* enforces one user per email, one row per user and provider, one owner   *)
(* per identity.                                                           *)
(*                                                                         *)
(* A login asks only whether some row holds the identity.  An unlink asks  *)
(* for the type of the row as well: the older Discord integration writes   *)
(* CONNECTED_ACCOUNT where a link writes SOCIAL_LOGIN, and a row it has    *)
(* written is here "demoted".                                              *)
(*                                                                         *)
(* An identity is an account at a provider.  The nonce and signature of an *)
(* OAuth state, the tokens, the choice of a username, the visibility of a  *)
(* row and re-authentication (no code marks a row of these providers as    *)
(* needing it) are left out.                                               *)
(***************************************************************************)
EXTENDS UserIds, Integers, FiniteSets

CONSTANTS
    Reqs,            \* requests the server works on at a time
    Providers,       \* GOOGLE, DISCORD, MYANIMELIST
    LoginProviders,  \* those that are a SOCIAL_LOGIN: GOOGLE, DISCORD
    DirectProviders, \* those with an integration of their own: DISCORD
    Ids,             \* identities
    ProviderOf,      \* the provider of an identity
    VerifiedEmail,   \* the verified email of an identity, or None
    Emails,
    MaxStates        \* bound: OAuth states that wait for their callback

ASSUME ProviderAssumption ==
    /\ LoginProviders \subseteq Providers
    /\ DirectProviders \subseteq Providers
    /\ ProviderOf \in [Ids -> Providers]
    /\ VerifiedEmail \in [Ids -> Emails \cup {None}]
ASSUME NoneAssumption ==
    /\ None \notin Users /\ None \notin Ids /\ None \notin Emails
    /\ Ids \cap Emails = {}
ASSUME BoundAssumption == MaxStates \in Nat

VARIABLES
    user,        \* user[u]: the email of the row, or None
    acct,        \* acct[u][p]: the identity in the row of u and p, or None
    demoted,     \* <<u, p>>: the row is a CONNECTED_ACCOUNT that still logs u in
    states,      \* OAuth states in the store: [op, user, provider]
    req,         \* the progress of each request
    member       \* users a session was issued to

vars == <<user, acct, demoted, states, req, member>>

\* "rival" is history: another request has overtaken the check of this one, or
\* this one that of another.
Idle == [pc |-> "idle", op |-> "none", user |-> None, id |-> None, rival |-> FALSE]

Init ==
    /\ user = [u \in Users |-> None]
    /\ acct = [u \in Users |-> [p \in Providers |-> None]]
    /\ demoted = {}
    /\ states = {}
    /\ req = [r \in Reqs |-> Idle]
    /\ member = {}

\* buildPlaceholderEmail: an address made from the identity stands for itself.
EmailFor(i) == IF VerifiedEmail[i] = None THEN i ELSE VerifiedEmail[i]

Taken(email) == \E u \in Users : user[u] = email

\* findByProviderExternalId
OwnedByOther(i, u) == \E v \in Users \ {u} : acct[v][ProviderOf[i]] = i

\* hasViablePasswordLogin: the address is not a placeholder.
HasViablePasswordLogin(u) == user[u] \notin Ids

Goto(r, pc) == req' = [req EXCEPT ![r].pc = pc]
Settle(r)    == req' = [req EXCEPT ![r] = Idle]

\* r becomes "next", past a check that the requests "rivals" have passed too.
Pass(r, next, rivals) ==
    req' = [q \in Reqs |->
              IF q = r THEN [next EXCEPT !.rival = rivals # {}]
              ELSE IF q \in rivals THEN [req[q] EXCEPT !.rival = TRUE] ELSE req[q]]

-----------------------------------------------------------------------------
(* POST /auth/register: the unique constraints decide. *)

Register(u, email) ==
    /\ user[u] = None /\ ~Taken(email)
    /\ user' = [user EXCEPT ![u] = email]
    /\ member' = member \cup {u}
    /\ UNCHANGED <<acct, demoted, states, req>>

-----------------------------------------------------------------------------
(* OAuth states. *)

Store(s) ==
    /\ s \notin states /\ Cardinality(states) < MaxStates
    /\ states' = states \cup {s}
    /\ UNCHANGED <<user, acct, demoted, req, member>>

StartLogin(p) ==
    /\ p \in LoginProviders
    /\ Store([op |-> "login", user |-> None, provider |-> p])

StartLink(u, p) ==
    /\ u \in member
    /\ Store([op |-> "link", user |-> u, provider |-> p])

\* Its time to live passes, or the process restarts: the store is in memory.
Expire(s) ==
    /\ states' = states \ {s}
    /\ UNCHANGED <<user, acct, demoted, req, member>>

\* The callback of a state that is in the store; any other is refused.
Callback(r, s, i) ==
    /\ req[r] = Idle /\ ProviderOf[i] = s.provider
    /\ states' = states \ {s}
    /\ req' = [req EXCEPT ![r] = [pc |-> "identity", op |-> s.op, user |-> s.user,
                                  id |-> i, rival |-> FALSE]]
    /\ UNCHANGED <<user, acct, demoted, member>>

-----------------------------------------------------------------------------
(* completeCallback and completeLink after the exchange of the code. *)

Owners(i) == {u \in Users : acct[u][ProviderOf[i]] = i}

\* A login of an identity that has an owner is done: issueAuthSession.
FindIdentity(r) ==
    /\ req[r].pc = "identity"
    /\ \/ /\ req[r].op = "login" /\ Owners(req[r].id) # {}
          /\ Settle(r)
          /\ member' = member \cup Owners(req[r].id)
       \/ /\ req[r].op = "login" /\ Owners(req[r].id) = {}
          /\ Goto(r, "email")
          /\ UNCHANGED member
       \/ /\ req[r].op = "link"
          /\ IF OwnedByOther(req[r].id, req[r].user) THEN Settle(r) ELSE Goto(r, "provider")
          /\ UNCHANGED member
    /\ UNCHANGED <<user, acct, demoted, states>>

FindEmail(r) ==
    /\ req[r].pc = "email"
    /\ LET email == VerifiedEmail[req[r].id]
       IN  IF email # None /\ Taken(email) THEN Settle(r) ELSE Goto(r, "create")
    /\ UNCHANGED <<user, acct, demoted, states, member>>

\* users.create with a random password nobody knows.
Create(r, u) ==
    /\ req[r].pc = "create" /\ user[u] = None
    /\ LET email == EmailFor(req[r].id)
       IN  IF Taken(email)
           THEN Settle(r) /\ UNCHANGED user
           ELSE /\ user' = [user EXCEPT ![u] = email]
                /\ req' = [req EXCEPT ![r] = [@ EXCEPT !.pc = "provider", !.user = u]]
    /\ UNCHANGED <<acct, demoted, states, member>>

\* Mutant: only the owner of the identity is checked.
AnyOrNone(r) == TRUE

\* The row of the user and the provider holds this identity or none.
SameOrNone(r) == acct[req[r].user][ProviderOf[req[r].id]] \in {None, req[r].id}

\* Other requests that have passed this point for the same row.
Rivals(r, u, i) == {q \in Reqs \ {r} :
                       /\ req[q].pc \in {"owner", "upsert"} /\ req[q].user = u
                       /\ ProviderOf[req[q].id] = ProviderOf[i]}

FindProvider(r) ==
    /\ req[r].pc = "provider"
    /\ IF SameOrNone(r)
       THEN Pass(r, [req[r] EXCEPT !.pc = "owner"], Rivals(r, req[r].user, req[r].id))
       ELSE Settle(r)
    /\ UNCHANGED <<user, acct, demoted, states, member>>

\* The callback of the older Discord integration.  Its state is signed but not
\* stored, and the row of the user is not looked at.
Connect(r, u, i) ==
    /\ req[r] = Idle /\ u \in member /\ ProviderOf[i] \in DirectProviders
    /\ Pass(r, [pc |-> "owner", op |-> "connect", user |-> u, id |-> i, rival |-> FALSE],
            Rivals(r, u, i))
    /\ UNCHANGED <<user, acct, demoted, states, member>>

\* connectExternalIdentity
FindOwner(r) ==
    /\ req[r].pc = "owner"
    /\ IF OwnedByOther(req[r].id, req[r].user) THEN Settle(r) ELSE Goto(r, "upsert")
    /\ UNCHANGED <<user, acct, demoted, states, member>>

\* P2002 on platform and externalId.
Constrained(i, u) == OwnedByOther(i, u)

\* The row is made or overwritten; a login then issues a session.
Upsert(r) ==
    /\ req[r].pc = "upsert"
    /\ LET i == req[r].id
           u == req[r].user
       IN  IF Constrained(i, u)
           THEN UNCHANGED <<acct, demoted, member>>
           ELSE /\ acct' = [acct EXCEPT ![u][ProviderOf[i]] = i]
                /\ demoted' = IF req[r].op = "connect"
                              THEN demoted \cup {<<u, ProviderOf[i]>>}
                              ELSE demoted \ {<<u, ProviderOf[i]>>}
                /\ member' = IF req[r].op = "login" THEN member \cup {u} ELSE member
    /\ Settle(r)
    /\ UNCHANGED <<user, states>>

-----------------------------------------------------------------------------
(* unlink *)

\* Mutant: the account that is removed counts as one that remains.
SomeLogin(u, p) == \E q \in LoginProviders : acct[u][q] # None

OtherLogin(u, p) ==
    \E q \in LoginProviders \ {p} : acct[u][q] # None /\ <<u, q>> \notin demoted

\* Other unlinks of a login method of u that are past the check.
Unlinking(r, u) == {q \in Reqs \ {r} :
                       /\ req[q].pc = "delete" /\ req[q].user = u
                       /\ ProviderOf[req[q].id] \in LoginProviders}

\* The row is found.  One that is no SOCIAL_LOGIN is not checked further: a row
\* of another provider, or ("drop") one that still logs the user in.
Unlink(r, u, p) ==
    /\ req[r] = Idle
    /\ u \in member /\ acct[u][p] # None
    /\ LET asks(pc, op) == [pc |-> pc, op |-> op, user |-> u, id |-> acct[u][p], rival |-> FALSE]
       IN  IF p \notin LoginProviders
           THEN req' = [req EXCEPT ![r] = asks("delete", "unlink")]
           ELSE IF <<u, p>> \in demoted
           THEN Pass(r, asks("delete", "drop"), Unlinking(r, u))
           ELSE req' = [req EXCEPT ![r] = asks("check", "unlink")]
    /\ UNCHANGED <<user, acct, demoted, states, member>>

\* assertCanRemoveAccount
CheckUnlink(r) ==
    /\ req[r].pc = "check"
    /\ LET u == req[r].user
       IN  IF HasViablePasswordLogin(u) \/ OtherLogin(u, ProviderOf[req[r].id])
           THEN Pass(r, [req[r] EXCEPT !.pc = "delete"], Unlinking(r, u))
           ELSE Settle(r)
    /\ UNCHANGED <<user, acct, demoted, states, member>>

\* deleteByUserProvider: whatever identity the row holds by now.
Delete(r) ==
    /\ req[r].pc = "delete"
    /\ acct' = [acct EXCEPT ![req[r].user][ProviderOf[req[r].id]] = None]
    /\ demoted' = demoted \ {<<req[r].user, ProviderOf[req[r].id]>>}
    /\ Settle(r)
    /\ UNCHANGED <<user, states, member>>

\* A provider or the database fails, or the process crashes.
Abort(r) ==
    /\ req[r] # Idle
    /\ Settle(r)
    /\ UNCHANGED <<user, acct, demoted, states, member>>

-----------------------------------------------------------------------------
Step(r) ==
    \/ FindIdentity(r) \/ FindEmail(r) \/ FindProvider(r) \/ FindOwner(r) \/ Upsert(r)
    \/ \E u \in Users : Create(r, u)
    \/ CheckUnlink(r) \/ Delete(r) \/ Abort(r)

Next ==
    \/ \E u \in Users, email \in Emails : Register(u, email)
    \/ \E p \in Providers : StartLogin(p) \/ (\E u \in Users : StartLink(u, p))
    \/ \E s \in states : Expire(s) \/ (\E r \in Reqs, i \in Ids : Callback(r, s, i))
    \/ \E r \in Reqs : Step(r) \/ (\E u \in Users : \/ \E p \in Providers : Unlink(r, u, p)
                                               \/ \E i \in Ids : Connect(r, u, i))

Spec == Init /\ [][Next]_vars

-----------------------------------------------------------------------------
Requests ==
    [pc : {"idle", "identity", "email", "create", "provider", "owner", "upsert",
           "check", "delete"},
     op : {"none", "login", "link", "connect", "unlink", "drop"},
     user : Users \cup {None}, id : Ids \cup {None}, rival : BOOLEAN]

\* Type correctness, with what the unique constraints promise.
TypeOK ==
    /\ user \in [Users -> {None} \cup Emails \cup Ids]
    /\ acct \in [Users -> [Providers -> Ids \cup {None}]]
    /\ demoted \subseteq Users \X Providers
    /\ states \subseteq [op : {"login", "link"}, user : Users \cup {None}, provider : Providers]
    /\ req \in [Reqs -> Requests]
    /\ \A r \in Reqs : req[r].pc # "idle" => req[r].id \in Ids
    /\ member \subseteq Users
    /\ \A u \in Users, p \in Providers : acct[u][p] # None => ProviderOf[acct[u][p]] = p
    /\ \A u, v \in Users, p \in Providers :
         acct[u][p] # None /\ acct[u][p] = acct[v][p] => u = v

HasLogin(u) == \E p \in LoginProviders : acct[u][p] # None

\* Nobody who was ever signed in loses the last way back, whatever links and
\* unlinks fall together: the step that removes the last login account is one
\* of a user with a password.  Three exceptions are the code's: two unlinks that
\* both passed their check before either deleted; a row the older Discord
\* integration has demoted, which is removed without a check; and a user of a
\* first login with a verified email, whom hasViablePasswordLogin takes for one
\* with a password although the password is random.
WayIn ==
    [][\A u \in member :
          HasLogin(u) /\ ~HasLogin(u)' =>
              \/ HasViablePasswordLogin(u)
              \/ \E r \in Reqs : /\ req[r].user = u /\ req[r].pc = "delete"
                                /\ (req[r].rival \/ req[r].op = "drop")]_vars

\* A row never changes its identity in place: to link another account of a
\* provider one has to unlink the first.  The exceptions are two callbacks of
\* one user that both looked before either wrote, and the older Discord
\* integration, which does not look.
IdentityIsStable ==
    [][\A u \in Users, p \in Providers :
          acct[u][p] # None /\ acct'[u][p] \notin {None, acct[u][p]}
              => \E r \in Reqs : /\ req[r].pc = "upsert" /\ req[r].user = u
                                /\ (req[r].rival \/ req[r].op = "connect")]_vars

\* What the refusal of unlink says: the last method of login cannot be removed.
\* Stated for users without an email of their own.
LastLoginStays ==
    \A u \in member : ~HasViablePasswordLogin(u) => HasLogin(u)
=============================================================================
