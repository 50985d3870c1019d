--------------------------- MODULE BrowserSession ---------------------------
(***************************************************************************)
(* One browser signed in to CLUTCH: its tabs, the cookie jar they share,   *)
(* the route handlers of the Next.js server between the browser and the    *)
(* backend, and the backend's refresh sessions.                            *)
(*                                                                         *)
(* The jar holds two httpOnly cookies: clutch_session (the access token)   *)
(* and clutch_refresh.  A request carries the jar as it was when it left;  *)
(* its answer changes the jar when it arrives, and answers arrive in any   *)
(* order.  Every access token is signed with the refresh token of the same *)
(* rotation, so one pair <<session, number>> names both.                   *)
(*                                                                         *)
(* A call is one fetch of a tab, with the retry apiRequest gives it.  It   *)
(* is used once; the slot of a tab is its shared promise of                *)
(* POST /api/auth/refresh and is used again and again.                     *)
(*                                                                         *)
(* The backend is the abstract session store (AtomicSessions), which the   *)
(* refresh-token service implements.  A page that is reloaded is another   *)
(* tab.  The TTL of sessions (days) does not end within a behaviour.       *)
(***************************************************************************)
EXTENDS Integers, FiniteSets

CONSTANTS
    Tabs, Calls,
    Sessions,    \* session ids the backend can hand out
    Expiring,    \* bound: access tokens up to this number may expire
    MaxFaults,   \* bound: requests or answers that fail on the way
    None, Keep   \* no cookie, and a cookie the answer does not mention

ASSUME BoundAssumption == Expiring \in Nat /\ MaxFaults \in Nat
ASSUME SlotsAssumption == Calls \cap Tabs = {} /\ None \notin Tabs
ASSUME KeepAssumption  ==
    None # Keep /\ {None, Keep} \cap [sess : Sessions, num : Nat] = {}

VARIABLES
    store, closed,  \* the backend (AtomicSessions)
    jar,            \* the cookies: access and refresh
    expired,        \* access tokens that have expired
    status,         \* status[t]: the auth store of tab t; "new" before it mounts
    pc, call,       \* every slot: its progress, and what it is about
    faults,
    lost,           \* history: token pairs that were signed and never arrived
    presented       \* history: who presented which refresh token to the backend

backend == <<store, closed>>
history == <<faults, lost, presented>>
vars    == <<backend, jar, expired, status, pc, call, history>>

Backend == INSTANCE AtomicSessions WITH
    Sessions <- Sessions, store <- store, closed <- closed

Slots == Calls \cup Tabs

Pair(s, n) == [sess |-> s, num |-> n]
Pairs      == [sess : Sessions, num : Nat]
Signed(p)  == 0 < p.num /\ p.num <= store[p.sess].token

Cookies   == [access : Pairs \cup {None}, refresh : Pairs \cup {None}]
SetCookie == [access : Pairs \cup {None, Keep}, refresh : Pairs \cup {None, Keep}]

NoCookies == [access |-> None, refresh |-> None]
Untouched == [access |-> Keep, refresh |-> Keep]
Both(p)   == [access |-> p, refresh |-> p]

Kinds   == {"none", "api", "me", "token", "login", "logout"}
Routes  == {"none", "proxy", "refresh", "me", "token", "login", "logout"}
Answers == {"none", "ok", "unauthorized", "unavailable", "lost"}

\* kind: the function that fetches; route: the handler it calls now;
\* renewed: how the refresh it waited for ended; cleared: it ended the session
\* of its tab; carried: the jar when the request left; cookies: what the
\* answer does to the jar.
Idle(t) == [kind |-> "none", tab |-> t, route |-> "none", renewed |-> "none",
            cleared |-> FALSE, carried |-> NoCookies, answer |-> "none",
            cookies |-> Untouched]

Valid(access) == access # None /\ access \notin expired

-----------------------------------------------------------------------------
\* The browser is signed in already (a tab is open) or not yet.
Init ==
    /\ \E t \in Tabs, s \in Sessions, signedIn \in BOOLEAN :
         /\ status = [u \in Tabs |-> IF signedIn /\ u = t THEN "authenticated" ELSE "new"]
         /\ store = [q \in Sessions |-> IF signedIn /\ q = s THEN Backend!Active(1)
                                                             ELSE Backend!Absent]
         /\ jar = IF signedIn THEN Both(Pair(s, 1)) ELSE NoCookies
    /\ closed = {} /\ expired = {}
    /\ pc = [c \in Slots |-> "idle"]
    /\ call = [c \in Slots |-> Idle(IF c \in Tabs THEN c ELSE None)]
    /\ faults = 0 /\ lost = {} /\ presented = {}

Expire(p) ==
    /\ Signed(p) /\ p.num <= Expiring
    /\ expired' = expired \cup {p}
    /\ UNCHANGED <<backend, jar, status, pc, call, history>>

-----------------------------------------------------------------------------
(* The tabs start calls. *)

Leaves(c, kind, t, route) ==
    /\ pc[c] = "idle"
    /\ pc' = [pc EXCEPT ![c] = "sent"]
    /\ call' = [call EXCEPT ![c] =
                 [Idle(t) EXCEPT !.kind = kind, !.route = route, !.carried = jar]]

\* AuthProvider mounts: setLoading, then GET /api/auth/me without a retry.
Mount(c, t) ==
    /\ status[t] = "new"
    /\ status' = [status EXCEPT ![t] = "loading"]
    /\ Leaves(c, "me", t, "me")
    /\ UNCHANGED <<backend, jar, expired, history>>

\* apiRequest, the credential of the presence socket, or a logout, which
\* publishes OFFLINE through the proxy first.
Call(c, t) ==
    /\ status[t] = "authenticated"
    /\ \/ Leaves(c, "api", t, "proxy")
       \/ Leaves(c, "token", t, "token")
       \/ Leaves(c, "logout", t, "proxy")
    /\ UNCHANGED <<backend, jar, expired, status, history>>

Login(c, t) ==
    /\ status[t] \in {"loading", "unauthenticated"}
    /\ Leaves(c, "login", t, "login")
    /\ UNCHANGED <<backend, jar, expired, status, history>>

\* A call goes on after what it waited for: the retry, or the logout proper.
Resume(c) ==
    /\ pc[c] = "ready"
    /\ pc' = [pc EXCEPT ![c] = "sent"]
    /\ call' = [call EXCEPT ![c].carried = jar]
    /\ UNCHANGED <<backend, jar, expired, status, history>>

-----------------------------------------------------------------------------
(* The Next.js route handlers. *)

Answer(c, answer, cookies) ==
    /\ pc' = [pc EXCEPT ![c] = "answered"]
    /\ call' = [call EXCEPT ![c].answer = answer, ![c].cookies = cookies]

Fault == faults < MaxFaults /\ faults' = faults + 1

Live(p)     == p # None /\ store[p.sess].status = "active"
Accepted(p) == p # None /\ store[p.sess] = Backend!Active(p.num)
Successor(p)    == Pair(p.sess, p.num + 1)

\* POST /auth/refresh of the backend with the cookie the request carries.
RefreshAtBackend(c) ==
    LET p == call[c].carried.refresh
    IN  /\ presented' = IF p = None THEN presented
                                     ELSE presented \cup {[who |-> c, pair |-> p]}
        /\ \/ /\ Accepted(p)
              /\ store' = [store EXCEPT ![p.sess] = Backend!Active(p.num + 1)]
              /\ Backend!Rotate(p.sess)
           \/ /\ Live(p) /\ ~Accepted(p)
              /\ store' = [store EXCEPT ![p.sess] =
                             Backend!Revoked(@.token, "refresh_token_reuse")]
              /\ Backend!Close(p.sess)
           \/ /\ ~Live(p)
              /\ UNCHANGED backend

\* The backend cannot be reached, or its answer is lost.
RefreshBreaks(c) ==
    LET p == call[c].carried.refresh
    IN  /\ Fault
        /\ \/ UNCHANGED <<backend, lost, presented>>
           \/ /\ RefreshAtBackend(c)
              /\ lost' = IF Accepted(p) THEN lost \cup {Successor(p)} ELSE lost

\* Mutant: the refresh cookie of the backend is not passed on.
RefreshWithoutCookie(c) ==
    LET p == call[c].carried.refresh
    IN  \/ /\ RefreshAtBackend(c)
           /\ IF Accepted(p) THEN Answer(c, "ok", [access |-> Successor(p), refresh |-> Keep])
                             ELSE Answer(c, "unauthorized", NoCookies)
           /\ UNCHANGED <<faults, lost>>
        \/ /\ RefreshBreaks(c)
           /\ Answer(c, "unavailable", NoCookies)

\* refreshAuthSession and what each route makes of it: two fresh cookies, or
\* two cleared ones.
Refresh(c) ==
    LET p == call[c].carried.refresh
    IN  \/ /\ RefreshAtBackend(c)
           /\ IF Accepted(p) THEN Answer(c, "ok", Both(Successor(p)))
                             ELSE Answer(c, "unauthorized", NoCookies)
           /\ UNCHANGED <<faults, lost>>
        \/ /\ RefreshBreaks(c)
           /\ Answer(c, "unavailable", NoCookies)

Serves(c, route) ==
    /\ pc[c] = "sent" /\ call[c].route = route
    /\ UNCHANGED <<jar, expired, status>>

ServeRefresh(c) == Serves(c, "refresh") /\ Refresh(c)

\* Mutant: an error after the renewal is answered without cookies.
AfterBrokenRestoreNone(p) == {Untouched}

\* The renewal succeeded and the second validation did not: the backend could
\* not be reached, or it rejected the new token.
AfterBrokenRestore(p) == {Both(Successor(p)), [access |-> None, refresh |-> Successor(p)]}

\* Validate the access token, renew an expired one and validate the new one.
Restore(c) ==
    LET access == call[c].carried.access
        p == call[c].carried.refresh
    IN  \/ /\ access = None
           /\ Answer(c, "unauthorized", Untouched)
           /\ UNCHANGED <<backend, history>>
        \/ /\ Valid(access)
           /\ Answer(c, "ok", Untouched)
           /\ UNCHANGED <<backend, history>>
        \/ /\ access # None /\ Fault
           /\ Answer(c, "unavailable", Untouched)
           /\ UNCHANGED <<backend, lost, presented>>
        \/ /\ access # None /\ ~Valid(access)
           /\ Refresh(c)
        \/ /\ access # None /\ ~Valid(access)
           /\ Accepted(p) /\ RefreshAtBackend(c) /\ Fault
           /\ \E cookies \in AfterBrokenRestore(p) : Answer(c, "unavailable", cookies)
           /\ UNCHANGED lost

ServeMe(c)    == Serves(c, "me") /\ Restore(c)
ServeToken(c) == Serves(c, "token") /\ Restore(c)

\* The proxy knows only the access token; a 401 clears its cookie.
ServeProxy(c) ==
    /\ Serves(c, "proxy")
    /\ \/ /\ IF Valid(call[c].carried.access)
               THEN Answer(c, "ok", Untouched)
               ELSE Answer(c, "unauthorized", [Untouched EXCEPT !.access = None])
          /\ UNCHANGED history
       \/ /\ Fault
          /\ Answer(c, "unavailable", Untouched)
          /\ UNCHANGED <<lost, presented>>
    /\ UNCHANGED backend

OpenAtBackend(s) ==
    /\ store' = [store EXCEPT ![s] = Backend!Active(1)]
    /\ Backend!Open(s)

ServeLogin(c) ==
    /\ Serves(c, "login")
    /\ \/ \E s \in Sessions :
            /\ store[s] = Backend!Absent /\ OpenAtBackend(s)
            /\ \/ /\ Answer(c, "ok", Both(Pair(s, 1)))
                  /\ UNCHANGED history
               \/ /\ Fault
                  /\ Answer(c, "unavailable", Untouched)
                  /\ lost' = lost \cup {Pair(s, 1)}
                  /\ UNCHANGED presented
       \/ /\ Answer(c, "unauthorized", Untouched)
          /\ UNCHANGED <<backend, history>>
       \/ /\ Fault
          /\ Answer(c, "unavailable", Untouched)
          /\ UNCHANGED <<backend, lost, presented>>

\* The backend revokes the session of the refresh cookie, however old.
CloseAtBackend(p) ==
    IF Live(p)
    THEN /\ store' = [store EXCEPT ![p.sess] = Backend!Revoked(@.token, "logout")]
         /\ Backend!Close(p.sess)
    ELSE UNCHANGED backend

\* Both cookies are cleared even if the backend could not be reached.
ServeLogout(c) ==
    /\ Serves(c, "logout")
    /\ \/ /\ CloseAtBackend(call[c].carried.refresh)
          /\ UNCHANGED faults
       \/ /\ Fault
          /\ UNCHANGED backend
    /\ Answer(c, "ok", NoCookies)
    /\ UNCHANGED <<lost, presented>>

Serve(c) ==
    \/ ServeRefresh(c) \/ ServeMe(c) \/ ServeToken(c)
    \/ ServeProxy(c) \/ ServeLogin(c) \/ ServeLogout(c)

-----------------------------------------------------------------------------
(* An answer arrives: the browser applies its cookies, then the tab goes   *)
(* on.  A request or an answer that gets lost makes fetch reject.          *)

Tab(c) == call[c].tab

Finishes(c, a) ==
    /\ pc' = [pc EXCEPT ![c] = "done"]
    /\ call' = [call EXCEPT ![c].answer = a]

SignIn(t)    == status' = [status EXCEPT ![t] = "authenticated"]
SignOut(t)   == status' = [status EXCEPT ![t] = "unauthenticated"]

\* The first 401 waits for the refresh of the tab, starting one if none runs.
AwaitsRefresh(c) ==
    LET t == Tab(c)
    IN  /\ pc' = [pc EXCEPT ![c] = "waiting", ![t] = IF @ = "idle" THEN "ready" ELSE @]
        /\ call' = IF pc[t] = "idle"
                   THEN [call EXCEPT ![t] = [Idle(t) EXCEPT !.route = "refresh"]]
                   ELSE call
        /\ UNCHANGED status

\* publishPresenceState has ended, one way or the other: log out.
GoesOnToLogout(c) ==
    /\ pc' = [pc EXCEPT ![c] = "ready"]
    /\ call' = [call EXCEPT ![c].route = "logout"]

AfterProxy(c, a) ==
    /\ call[c].route = "proxy"
    /\ \/ /\ a = "unauthorized" /\ call[c].renewed = "none"
          /\ AwaitsRefresh(c)
       \/ /\ a = "unauthorized" /\ call[c].renewed = "ok" /\ call[c].kind = "api"
          /\ pc' = [pc EXCEPT ![c] = "done"]
          /\ call' = [call EXCEPT ![c].cleared = TRUE]
          /\ SignOut(Tab(c))
       \/ /\ a # "unauthorized" /\ call[c].kind = "api"
          /\ Finishes(c, a) /\ UNCHANGED status
       \/ /\ a # "unauthorized" \/ call[c].renewed = "ok"
          /\ call[c].kind = "logout"
          /\ GoesOnToLogout(c) /\ UNCHANGED status

\* Mutant: a fetch that rejects is not caught and wakes nobody.
WaitersUncaught(t, a) ==
    {c \in Calls : pc[c] = "waiting" /\ Tab(c) = t /\ a # "lost"}

\* Everybody who awaits refreshSessionPromise of tab t when it settles with a.
Waiters(t, a) == {c \in Calls : pc[c] = "waiting" /\ Tab(c) = t}

\* The promise is forgotten; those who wait retry, or end with the 401 they had
\* (a publication of OFFLINE ends and the logout goes on).
AfterRefresh(t, a) ==
    LET renewed == IF a = "ok" THEN "ok" ELSE "failed"
        waiters == Waiters(t, a)
        ended   == {c \in waiters : a # "ok" /\ call[c].kind = "api"}
        leaving == {c \in waiters : a # "ok" /\ call[c].kind = "logout"}
    IN  /\ call[t].route = "refresh"
        /\ pc' = [c \in Slots |-> IF c = t THEN "idle"
                                  ELSE IF c \in ended THEN "done"
                                  ELSE IF c \in waiters THEN "ready" ELSE pc[c]]
        /\ call' = [c \in Slots |->
             IF c = t THEN Idle(t)
             ELSE IF c \in leaving
             THEN [call[c] EXCEPT !.renewed = renewed, !.route = "logout"]
             ELSE IF c \in waiters
             THEN [call[c] EXCEPT !.renewed = renewed, !.cleared = c \in ended]
             ELSE call[c]]
        /\ IF ended # {} THEN SignOut(t) ELSE UNCHANGED status

\* The bootstrap changes a tab only while it is loading; if fetch rejects,
\* nothing catches it.
AfterMe(c, a) ==
    /\ call[c].route = "me"
    /\ Finishes(c, a)
    /\ IF status[Tab(c)] # "loading" \/ a = "lost" THEN UNCHANGED status
       ELSE IF a = "ok" THEN SignIn(Tab(c)) ELSE SignOut(Tab(c))

\* onAuthFailure; other failures make the socket try again later.
AfterToken(c, a) ==
    /\ call[c].route = "token"
    /\ Finishes(c, a)
    /\ IF a = "unauthorized" THEN SignOut(Tab(c)) ELSE UNCHANGED status

AfterLogin(c, a) ==
    /\ call[c].route = "login"
    /\ Finishes(c, a)
    /\ IF a = "ok" THEN SignIn(Tab(c)) ELSE UNCHANGED status

AfterLogout(c, a) ==
    /\ call[c].route = "logout"
    /\ Finishes(c, a)
    /\ SignOut(Tab(c))

\* What the tab of c does with the answer a.
After(c, a) ==
    \/ AfterProxy(c, a)
    \/ AfterRefresh(c, a)
    \/ AfterMe(c, a)
    \/ AfterToken(c, a)
    \/ AfterLogin(c, a)
    \/ AfterLogout(c, a)

Written(old, new) == IF new = Keep THEN old ELSE new

Deliver(c) ==
    /\ pc[c] = "answered"
    /\ jar' = [access  |-> Written(jar.access, call[c].cookies.access),
               refresh |-> Written(jar.refresh, call[c].cookies.refresh)]
    /\ After(c, call[c].answer)
    /\ UNCHANGED <<backend, expired, history>>

Lose(c) ==
    /\ pc[c] \in {"sent", "answered"}
    /\ Fault
    /\ lost' = lost \cup ({call[c].cookies.refresh} \ {None, Keep})
    /\ After(c, "lost")
    /\ UNCHANGED <<backend, jar, expired, presented>>

-----------------------------------------------------------------------------
Next ==
    \/ \E c \in Calls, t \in Tabs : Mount(c, t) \/ Call(c, t) \/ Login(c, t)
    \/ \E c \in Slots : Resume(c) \/ Serve(c) \/ Deliver(c) \/ Lose(c)
    \/ \E s \in Sessions : \E n \in 1..Expiring : Expire(Pair(s, n))

Spec == Init /\ [][Next]_vars

-----------------------------------------------------------------------------
CallRecord ==
    [kind : Kinds, tab : Tabs \cup {None}, route : Routes,
     renewed : {"none", "ok", "failed"}, cleared : BOOLEAN,
     carried : Cookies, answer : Answers, cookies : SetCookie]

\* Type correctness of the jar, the tabs, the calls and the sessions.
TypeOK ==
    /\ jar \in Cookies
    /\ expired \subseteq Pairs /\ lost \subseteq Pairs
    /\ presented \subseteq [who : Slots, pair : Pairs]
    /\ status \in [Tabs -> {"new", "loading", "authenticated", "unauthenticated"}]
    /\ pc \in [Slots -> {"idle", "sent", "answered", "waiting", "ready", "done"}]
    /\ call \in [Slots -> CallRecord]
    /\ closed \subseteq Sessions
    /\ DOMAIN store = Sessions
    /\ faults \in 0..MaxFaults

\* Whatever the order of the answers, the two cookies of the browser never come
\* from two rotations: an access token in the jar has its refresh token beside
\* it (every route that sets one sets or keeps the other accordingly).
CookiesMatch == jar.access # None => jar.refresh = jar.access

\* The refresh cookie is behind its session only while the newer one is on its
\* way to the browser, or has been lost (so a call that leaves with an old
\* cookie overlaps the call that renewed it).
CookieIsCurrent ==
    \A s \in Sessions : \A n \in 1..store[s].token :
        (jar.refresh = Pair(s, n) /\ store[s].status = "active" /\ n # store[s].token)
            => \/ Pair(s, store[s].token) \in lost
               \/ \E c \in Slots : /\ pc[c] = "answered"
                                   /\ call[c].cookies.refresh = Pair(s, store[s].token)

\* The shared promise of apiRequest does its work: the silent refreshes of one
\* tab never present the same refresh token twice, so a session is ended for
\* reuse only if a token was lost or two different callers (two tabs, or a tab
\* and one of its /me or presence-token calls) presented the same one.
ReuseHasCause ==
    \A s \in Sessions :
        store[s].reason = "refresh_token_reuse" =>
            \/ \E p \in lost : p.sess = s
            \/ \E x, y \in presented : /\ x.who # y.who
                                       /\ x.pair = y.pair /\ x.pair.sess = s

\* Nobody waits for something that will not come: a call waits for the refresh
\* only while the refresh of its tab runs, however that ends, and a tab is
\* loading only while its bootstrap runs (or after the bootstrap was lost: its
\* rejection is caught nowhere).
NobodyWaitsInVain ==
    /\ \A c \in Calls : pc[c] = "waiting" => pc[Tab(c)] # "idle"
    /\ \A t \in Tabs : status[t] = "loading" =>
         \E c \in Calls : /\ call[c].kind = "me" /\ Tab(c) = t
                          /\ pc[c] # "done" \/ call[c].answer = "lost"

\* The unit test of apiRequest (tests/unit/lib/api.test.ts) is called "clears
\* the session only when the silent refresh fails".
ClearedOnlyWhenRefreshFails ==
    \A c \in Calls : call[c].cleared => call[c].renewed = "failed"
=============================================================================
