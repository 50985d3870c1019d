---------------------------- MODULE ConnectFlow ----------------------------
(***************************************************************************)
(* The round trips of a browser through a provider: a login (GOOGLE or     *)
(* DISCORD), the link of such an account ("oauth"), of MyAnimeList         *)
(* ("pkce") and of Steam ("openid"), and the older Discord integration     *)
(* ("signed").  The backend signs a state, the provider sends the browser  *)
(* back with it, and the callback, which carries no session, acts for the  *)
(* user the state names.                                                   *)
(*                                                                         *)
(* Where a state is kept it is kept in memory for ten minutes, and taken   *)
(* out by its first callback; the verifier of MyAnimeList likewise.  The   *)
(* older integration keeps nothing.  Checks and stores run without an      *)
(* await, so that a callback comes as far as its request to the provider   *)
(* in one step.  A browser repeats a callback that is reloaded, or whose   *)
(* connection broke, and shows the answer to its last request.             *)
(*                                                                         *)
(* What a login does with an identity is in AccountConnections; here it    *)
(* succeeds or fails.  Providers are external: a code or an assertion is   *)
(* good once.                                                              *)
(***************************************************************************)
EXTENDS Handlers, Integers, FiniteSets

CONSTANTS
    Trips,      \* bound: the round trips of a behaviour
    Accounts,   \* accounts at the providers
    MaxTries,   \* bound: callbacks of one trip
    MaxFaults   \* bound: restarts, broken connections, failing queries

VARIABLES
    trip,       \* trip[t]: [kind, user]
    fresh,      \* trips whose state was issued less than ten minutes ago
    kept,       \* the state store: trips whose callback may come
    verifiers,  \* the PKCE store
    returned,   \* returned[t]: the account whose code came back, or "denied"
    rows,       \* rows[p][u]: platform_integrations
    waiting,    \* waiting[t]: the handler whose answer the browser awaits
    shown,      \* shown[t]: the outcome on the page
    tries,      \* tries[t]: callbacks sent
    faults,
    presented,  \* presented[t]: how often the code went to the provider
    stored,     \* history: trips whose account was stored
    disturbed   \* history: trips that met a failure, a restart or a repeated callback

connectVars == <<trip, fresh, kept, verifiers, returned, rows, waiting, shown,
                 tries, faults, presented, stored, disturbed>>

Kinds == {"social", "oauth", "pkce", "openid", "signed"}

ProviderOfKind(kind) == CASE kind = "pkce"   -> "MYANIMELIST"
                      [] kind = "openid" -> "STEAM"
                      [] OTHER           -> "DISCORD"
ProviderNames == {ProviderOfKind(kind) : kind \in Kinds}
Outcomes == {"success", "denied", "state", "provider", "conflict", "lost"}
TripRows == [kind : Kinds, user : Users \cup {None}]

ASSUME NoTripAssumption == \* null is nothing else
    None \notin Handlers \cup Accounts \cup Outcomes \cup TripRows

ConnectInit ==
    /\ trip = [t \in Trips |-> None]
    /\ fresh = {} /\ kept = {} /\ verifiers = {}
    /\ returned = [t \in Trips |-> None]
    /\ rows = [p \in ProviderNames |-> [u \in Users |-> None]]
    /\ waiting = [t \in Trips |-> None]
    /\ shown = [t \in Trips |-> None]
    /\ tries = [t \in Trips |-> 0]
    /\ faults = 0
    /\ presented = [t \in Trips |-> 0]
    /\ stored = {} /\ disturbed = {}

storeVars   == <<kept, verifiers>>
browserVars == <<waiting, shown, tries, disturbed>>

-----------------------------------------------------------------------------
(* The way out.                                                            *)

\* Bound: trips through different providers have nothing in common.
OneProvider(kind) == \A t \in Trips : trip[t] # None => ProviderOfKind(trip[t].kind) = ProviderOfKind(kind)

Leaves(t, kind, u) ==
    /\ trip[t] = None /\ OneProvider(kind)
    /\ trip' = [trip EXCEPT ![t] = [kind |-> kind, user |-> u]]
    /\ fresh' = fresh \cup {t}
    /\ UNCHANGED <<handlerVars, returned, rows, browserVars, faults, presented, stored>>

StartSocialLogin(t) ==
    /\ Leaves(t, "social", None)
    /\ kept' = kept \cup {t}
    /\ UNCHANGED verifiers

\* startLink for the OAuth providers
StartOAuthFlow(t, kind, u) ==
    /\ kind \in {"oauth", "pkce"}
    /\ Leaves(t, kind, u)
    /\ kept' = kept \cup {t}
    /\ verifiers' = IF kind = "pkce" THEN verifiers \cup {t} ELSE verifiers

StartSteamOpenIdFlow(t, u) ==
    /\ Leaves(t, "openid", u)
    /\ kept' = kept \cup {t}
    /\ UNCHANGED verifiers

\* GET /integrations/discord/auth: the state is signed, not kept.
GetAuthorizationUrl(t, u) ==
    /\ Leaves(t, "signed", u)
    /\ UNCHANGED storeVars

\* Ten minutes pass: both stores drop the trip, verifyStateValue refuses it.
StateExpires(t) ==
    /\ t \in fresh
    /\ fresh' = fresh \ {t}
    /\ kept' = kept \ {t}
    /\ verifiers' = verifiers \ {t}
    /\ UNCHANGED <<handlerVars, trip, returned, rows, browserVars, faults,
                   presented, stored>>

-----------------------------------------------------------------------------
(* The callback, up to its request to the provider.                        *)

\* The browser comes back with the code of an account, or without consent.  The
\* page of a link redirects when it is answered, that of the older integration
\* stays and can be reloaded.
CallsBack(h, t, kinds, outcome) ==
    /\ pc[h] = "idle"
    /\ trip[t] # None /\ trip[t].kind \in kinds
    /\ returned[t] \in {None, outcome}
    /\ returned' = [returned EXCEPT ![t] = outcome]
    /\ shown[t] \in {None, "lost"} \/ "signed" \in kinds
    /\ tries[t] < MaxTries
    /\ tries' = [tries EXCEPT ![t] = @ + 1]
    /\ disturbed' = IF tries[t] = 0 THEN disturbed ELSE disturbed \cup {t}

\* The handler goes on with the code, or answers at once.
Proceeds(h, t, outcome, accepted, refusal) ==
    /\ waiting' = [waiting EXCEPT ![t] = IF accepted THEN h ELSE None]
    /\ shown' = [shown EXCEPT ![t] = IF accepted THEN None ELSE refusal]
    /\ pc' = [pc EXCEPT ![h] = IF accepted THEN "exchange" ELSE "idle"]
    /\ job' = IF accepted
              THEN [job EXCEPT ![h] = [op |-> trip[t].kind, trip |-> t, id |-> outcome,
                                       user |-> trip[t].user]]
              ELSE job
    /\ UNCHANGED <<ans, trip, fresh, rows, faults, presented, stored>>

\* Mutant: the state stays until it expires.
KeptAfter(t) == kept

\* consume
TakenOut(t) == kept \ {t}

\* error instead of code and state: the state is not looked at.
Refusal(outcome) == IF outcome = "denied" THEN "denied" ELSE "state"

\* verifyStateValue of the login, of the links, and of the older integration: a
\* state is signed, for one kind of trip, and not older than ten minutes.
LoginState(t)      == t \in fresh /\ trip[t].kind = "social"
LinkState(t, kind) == t \in fresh /\ trip[t].kind = kind
DiscordState(t)    == t \in fresh /\ trip[t].kind = "signed"

CompleteCallback(h, t, outcome) ==
    LET asked == outcome # "denied" /\ LoginState(t) IN
    /\ CallsBack(h, t, {"social"}, outcome)
    /\ kept' = IF asked THEN TakenOut(t) ELSE kept
    /\ Proceeds(h, t, outcome, asked /\ t \in kept, Refusal(outcome))
    /\ UNCHANGED verifiers

\* Without the verifier the state is gone all the same.
CompleteOAuthCallback(h, t, outcome) ==
    LET asked == outcome # "denied" /\ \E kind \in {"oauth", "pkce"} : LinkState(t, kind)
        known == asked /\ t \in kept
        pkce  == trip[t].kind = "pkce"
    IN
    /\ CallsBack(h, t, {"oauth", "pkce"}, outcome)
    /\ kept' = IF asked THEN TakenOut(t) ELSE kept
    /\ verifiers' = IF known THEN verifiers \ {t} ELSE verifiers
    /\ Proceeds(h, t, outcome, known /\ (pkce => t \in verifiers), Refusal(outcome))

\* Steam says with the state that it was cancelled: the state is taken out first.
CompleteSteamOpenIdCallback(h, t, outcome) ==
    LET asked == LinkState(t, "openid")
        known == asked /\ t \in kept
    IN
    /\ CallsBack(h, t, {"openid"}, outcome)
    /\ kept' = IF asked THEN TakenOut(t) ELSE kept
    /\ Proceeds(h, t, outcome, known /\ outcome # "denied",
                IF known THEN Refusal(outcome) ELSE "state")
    /\ UNCHANGED verifiers

CompleteDiscordCallback(h, t, outcome) ==
    /\ CallsBack(h, t, {"signed"}, outcome)
    /\ Proceeds(h, t, outcome, outcome # "denied" /\ DiscordState(t), Refusal(outcome))
    /\ UNCHANGED storeVars

-----------------------------------------------------------------------------
(* The answer of the handler: a page, if the browser still waits for it.   *)

Replies(h, outcome) ==
    LET t == job[h].trip IN
    /\ pc' = [pc EXCEPT ![h] = "idle"]
    /\ job' = [job EXCEPT ![h] = [op |-> "none"]]
    /\ shown' = IF waiting[t] = h THEN [shown EXCEPT ![t] = outcome] ELSE shown
    /\ waiting' = IF waiting[t] = h THEN [waiting EXCEPT ![t] = None] ELSE waiting
    /\ UNCHANGED <<ans, trip, fresh, storeVars, returned, tries>>

GoesOn(h, query) == Await(h, query) /\ UNCHANGED <<trip, fresh, storeVars, returned, browserVars>>

Presents(h, kinds) ==
    LET t == job[h].trip IN
    /\ pc[h] = "exchange" /\ job[h].op \in kinds
    /\ presented' = [presented EXCEPT ![t] = @ + 1]

\* Code for tokens, tokens for the user they belong to.
Exchanged(h, query) ==
    /\ IF presented[job[h].trip] > 0
       THEN Replies(h, "provider") /\ UNCHANGED disturbed
       ELSE GoesOn(h, query)
    /\ UNCHANGED <<rows, faults, stored>>

ExchangeSocialCode(h) ==
    Presents(h, {"social", "oauth"}) /\ Exchanged(h, IF job[h].op = "social" THEN "login" ELSE "owner")
ExchangeMyAnimeListCode(h) == Presents(h, {"pkce"})   /\ Exchanged(h, "owner")
VerifySteamCallback(h)     == Presents(h, {"openid"}) /\ Exchanged(h, "owner")
ExchangeDiscordCode(h)     == Presents(h, {"signed"}) /\ Exchanged(h, "identity")

-----------------------------------------------------------------------------
(* completeLink, then connectExternalIdentity.                             *)

Row(h) == rows[ProviderOfKind(job[h].op)][job[h].user]
HeldByOther(h) == \E u \in Users \ {job[h].user} : rows[ProviderOfKind(job[h].op)][u] = job[h].id

ChecksConflict(h, query, conflict, next) ==
    /\ pc[h] = query
    /\ IF conflict THEN Replies(h, "conflict") /\ UNCHANGED disturbed ELSE GoesOn(h, next)
    /\ UNCHANGED <<rows, faults, presented, stored>>

FindByProviderExternalId(h) == ChecksConflict(h, "owner", HeldByOther(h), "row")
FindByUserProvider(h)       == ChecksConflict(h, "row", Row(h) \notin {None, job[h].id}, "identity")
ConnectFindsOwner(h)        == ChecksConflict(h, "identity", HeldByOther(h), "store")

\* Mutant: a unique constraint is taken for success.
StoreOrIgnore(h) ==
    /\ pc[h] = "store"
    /\ Replies(h, "success")
    /\ IF HeldByOther(h) THEN UNCHANGED <<rows, stored>>
       ELSE /\ rows' = [rows EXCEPT ![ProviderOfKind(job[h].op)][job[h].user] = job[h].id]
            /\ stored' = stored \cup {job[h].trip}
    /\ UNCHANGED <<faults, presented, disturbed>>

\* upsertConnectedAccount, and the answer.
StoreAccount(h) ==
    /\ pc[h] = "store"
    /\ IF HeldByOther(h)
       THEN Replies(h, "conflict") /\ UNCHANGED <<rows, stored>>
       ELSE /\ Replies(h, "success")
            /\ rows' = [rows EXCEPT ![ProviderOfKind(job[h].op)][job[h].user] = job[h].id]
            /\ stored' = stored \cup {job[h].trip}
    /\ UNCHANGED <<faults, presented, disturbed>>

\* A session, with its cookies, or one of the refusals of a login.
SignIn(h, outcome) ==
    /\ pc[h] = "login"
    /\ Replies(h, outcome)
    /\ stored' = IF outcome = "success" THEN stored \cup {job[h].trip} ELSE stored
    /\ UNCHANGED <<rows, faults, presented, disturbed>>

-----------------------------------------------------------------------------
(* Faults.                                                                 *)

Faulty == faults < MaxFaults /\ faults' = faults + 1

\* The provider or a query fails; a code may have been used up by then.
CallbackFails(h) ==
    /\ Live(h) /\ Faulty
    /\ Replies(h, "provider")
    /\ disturbed' = disturbed \cup {job[h].trip}
    /\ \/ UNCHANGED presented
       \/ /\ pc[h] = "exchange"
          /\ presented' = [presented EXCEPT ![job[h].trip] = @ + 1]
    /\ UNCHANGED <<rows, stored>>

\* The connection breaks while the handler runs on: the page of an error.
ConnectionBreaks(t) ==
    /\ waiting[t] # None /\ Faulty
    /\ waiting' = [waiting EXCEPT ![t] = None]
    /\ shown' = [shown EXCEPT ![t] = "lost"]
    /\ disturbed' = disturbed \cup {t}
    /\ UNCHANGED <<handlerVars, trip, fresh, storeVars, returned, rows, tries,
                   presented, stored>>

\* Both stores are in memory.
BackendRestarts ==
    /\ Faulty
    /\ kept' = {} /\ verifiers' = {}
    /\ pc' = [h \in Handlers |-> "idle"]
    /\ job' = [h \in Handlers |-> [op |-> "none"]]
    /\ shown' = [t \in Trips |-> IF waiting[t] # None THEN "lost" ELSE shown[t]]
    /\ waiting' = [t \in Trips |-> None]
    /\ disturbed' = disturbed \cup {t \in Trips : trip[t] # None /\ shown[t] = None}
    /\ UNCHANGED <<ans, trip, fresh, returned, rows, tries, presented, stored>>

ConnectNext ==
    \/ \E t \in Trips :
         \/ StartSocialLogin(t)
         \/ \E u \in Users : \/ \E kind \in Kinds : StartOAuthFlow(t, kind, u)
                             \/ StartSteamOpenIdFlow(t, u) \/ GetAuthorizationUrl(t, u)
         \/ StateExpires(t) \/ ConnectionBreaks(t)
         \/ \E h \in Handlers, outcome \in Accounts \cup {"denied"} :
              \/ CompleteCallback(h, t, outcome) \/ CompleteOAuthCallback(h, t, outcome)
              \/ CompleteSteamOpenIdCallback(h, t, outcome)
              \/ CompleteDiscordCallback(h, t, outcome)
    \/ \E h \in Handlers :
         \/ ExchangeSocialCode(h) \/ ExchangeMyAnimeListCode(h)
         \/ VerifySteamCallback(h) \/ ExchangeDiscordCode(h)
         \/ FindByProviderExternalId(h) \/ FindByUserProvider(h)
         \/ ConnectFindsOwner(h) \/ StoreAccount(h)
         \/ \E outcome \in {"success", "provider", "conflict"} : SignIn(h, outcome)
         \/ CallbackFails(h)
    \/ BackendRestarts

ConnectSpec == HandlersInit /\ ConnectInit /\ [][ConnectNext]_<<handlerVars, connectVars>>

-----------------------------------------------------------------------------
(* Properties *)

ConnectTypeOK ==
    /\ trip \in [Trips -> TripRows \cup {None}]
    /\ fresh \subseteq Trips /\ kept \subseteq fresh /\ verifiers \subseteq fresh
    /\ returned \in [Trips -> Accounts \cup {"denied", None}]
    /\ rows \in [ProviderNames -> [Users -> Accounts \cup {None}]]
    /\ shown \in [Trips -> Outcomes \cup {None}]
    /\ waiting \in [Trips -> Handlers \cup {None}]

(* A trip is honoured at most once, however often its callback is sent,    *)
(* whatever fails and in whatever order the copies run: its code reaches   *)
(* the provider once, and a trip whose state is still in the store has     *)
(* done nothing.  The older Discord integration keeps no state and leaves  *)
(* that to the provider.  No trip without consent stores an account.       *)
HonouredOnce ==
    \A t \in Trips : trip[t] # None =>
        /\ trip[t].kind # "signed" => presented[t] <= 1
        /\ t \in stored => returned[t] \in Accounts
        /\ t \in kept => presented[t] = 0 /\ t \notin stored

(* The page tells what happened.  Success: the account is stored, and is   *)
(* still there unless another trip of the user has stored another.  A      *)
(* failure: nothing is stored, unless an answer was lost or the callback   *)
(* repeated.  A refusal has its cause: the state is refused only when it   *)
(* is too old or the trip was disturbed, and a conflict is with the        *)
(* account of another trip.                                                *)
PageIsTrue ==
    \A t \in Trips : shown[t] # None =>
        LET p == ProviderOfKind(trip[t].kind)
            link == trip[t].kind # "social"
            others == {s \in stored \ {t} : ProviderOfKind(trip[s].kind) = p}
        IN
        /\ shown[t] = "success" => t \in stored
        /\ shown[t] = "success" /\ link =>
             \/ rows[p][trip[t].user] = returned[t]
             \/ \E s \in others : trip[s].user = trip[t].user
        /\ shown[t] # "success" => t \notin stored \/ t \in disturbed
        /\ shown[t] = "state" => t \notin fresh \/ t \in disturbed
        /\ shown[t] = "denied" => returned[t] = "denied"
        /\ shown[t] = "conflict" /\ link =>
             \E s \in others : trip[s].user = trip[t].user \/ returned[s] = returned[t]
=============================================================================
