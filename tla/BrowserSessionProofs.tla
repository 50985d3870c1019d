------------------------ MODULE BrowserSessionProofs ------------------------
(***************************************************************************)
(* The two cookies of the browser belong together, for any number of tabs, *)
(* calls, sessions and faults: no order of answers can pair an access      *)
(* token with the refresh token of another rotation.                       *)
(***************************************************************************)
EXTENDS BrowserSession, TLAPS

(* What an answer may do to the jar: set both cookies from one pair, clear *)
(* both, leave both, or clear the access cookie whatever it does to the    *)
(* refresh cookie.                                                         *)
Coherent(w) == w.access = w.refresh \/ w.access = None

AnswersAreCoherent == \A c \in Slots : Coherent(call[c].cookies)

CallsAreRecords ==
    /\ DOMAIN call = Slots
    /\ \A c \in Slots : "cookies" \in DOMAIN call[c]

CookiesInv == CookiesMatch /\ AnswersAreCoherent /\ CallsAreRecords

-----------------------------------------------------------------------------
LEMMA CookiesInvInit == Init => CookiesInv
  BY DEF Init, CookiesInv, CookiesMatch, AnswersAreCoherent, CallsAreRecords, Coherent, Idle,
         Untouched, Both, NoCookies

LEMMA AnswerKeeps ==
  ASSUME CookiesInv, NEW c \in Slots, NEW a, NEW w, Coherent(w),
         Answer(c, a, w), UNCHANGED jar
  PROVE  CookiesInv'
  BY DEF CookiesInv, CookiesMatch, AnswersAreCoherent, CallsAreRecords, Answer

\* Every set of cookies the route handlers send is coherent.
LEMMA CookieShapes ==
  /\ Coherent(NoCookies) /\ Coherent(Untouched)
  /\ Coherent([Untouched EXCEPT !.access = None])
  /\ \A p : Coherent(Both(p)) /\ Coherent([access |-> None, refresh |-> p])
  BY DEF Coherent, NoCookies, Untouched, Both

LEMMA RefreshKeeps ==
  ASSUME CookiesInv, NEW c \in Slots, Refresh(c), UNCHANGED jar
  PROVE  CookiesInv'
<1>1. PICK a, w : Answer(c, a, w) /\ Coherent(w)
  BY CookieShapes DEF Refresh
<1> QED
  BY <1>1, AnswerKeeps

LEMMA RestoreKeeps ==
  ASSUME CookiesInv, NEW c \in Slots, Restore(c), UNCHANGED jar
  PROVE  CookiesInv'
<1>1. CASE Refresh(c)
  BY <1>1, RefreshKeeps
<1>2. CASE ~Refresh(c)
  <2>1. \A p : \A w \in AfterBrokenRestore(p) : Coherent(w)
    BY CookieShapes DEF AfterBrokenRestore
  <2>2. PICK a, w : Answer(c, a, w) /\ Coherent(w)
    BY <1>2, <2>1, CookieShapes DEF Restore
  <2> QED
    BY <2>2, AnswerKeeps
<1> QED
  BY <1>1, <1>2

LEMMA ServeKeeps ==
  ASSUME CookiesInv, NEW c \in Slots, Serve(c)
  PROVE  CookiesInv'
<1>0. UNCHANGED jar
  BY DEF Serve, ServeRefresh, ServeMe, ServeToken, ServeProxy, ServeLogin, ServeLogout, Serves
<1>1. CASE ServeRefresh(c)
  BY <1>0, <1>1, RefreshKeeps DEF ServeRefresh
<1>2. CASE ServeMe(c) \/ ServeToken(c)
  BY <1>0, <1>2, RestoreKeeps DEF ServeMe, ServeToken
<1>3. CASE ServeProxy(c)
  <2>1. PICK a, w : Answer(c, a, w) /\ Coherent(w)
    BY <1>3, CookieShapes DEF ServeProxy
  <2> QED
    BY <1>0, <2>1, AnswerKeeps
<1>4. CASE ServeLogin(c)
  <2>1. PICK a, w : Answer(c, a, w) /\ Coherent(w)
    BY <1>4, CookieShapes DEF ServeLogin
  <2> QED
    BY <1>0, <2>1, AnswerKeeps
<1>5. CASE ServeLogout(c)
  BY <1>0, <1>5, AnswerKeeps, CookieShapes DEF ServeLogout
<1> QED
  BY <1>1, <1>2, <1>3, <1>4, <1>5 DEF Serve

(* Whatever a tab does with an answer, it does not touch what other        *)
(* answers carry.                                                          *)
LEMMA AfterKeepsAnswers ==
  ASSUME CookiesInv, NEW c \in Slots, NEW a, After(c, a)
  PROVE  AnswersAreCoherent' /\ CallsAreRecords'
<1> DEFINE Kept == /\ DOMAIN call' = Slots
                   /\ \A d \in Slots : /\ "cookies" \in DOMAIN call'[d]
                                       /\ call'[d].cookies \in {call[d].cookies, Untouched}
<1>0. CallsAreRecords /\ AnswersAreCoherent
  BY DEF CookiesInv
<1> SUFFICES Kept
  BY <1>0, CookieShapes DEF CallsAreRecords, AnswersAreCoherent
<1>1. CASE UNCHANGED call
  BY <1>0, <1>1 DEF CallsAreRecords
<1>2. CASE call' = [call EXCEPT ![c].answer = a]
  BY <1>0, <1>2 DEF CallsAreRecords
<1>3. CASE call' = [call EXCEPT ![c].cleared = TRUE]
  BY <1>0, <1>3 DEF CallsAreRecords
<1>4. CASE call' = [call EXCEPT ![c].route = "logout"]
  BY <1>0, <1>4 DEF CallsAreRecords
<1>5. CASE AwaitsRefresh(c)
  <2> DEFINE fresh == [Idle(Tab(c)) EXCEPT !.route = "refresh"]
  <2>1. "cookies" \in DOMAIN fresh /\ fresh.cookies = Untouched
    BY DEF Idle
  <2>2. call' = [call EXCEPT ![Tab(c)] = fresh] \/ call' = call
    BY <1>5 DEF AwaitsRefresh
  <2> HIDE DEF fresh
  <2> QED
    BY <1>0, <2>1, <2>2 DEF CallsAreRecords
<1>6. CASE AfterRefresh(c, a)
  <2> SUFFICES ASSUME NEW d \in Slots
               PROVE  /\ "cookies" \in DOMAIN call'[d]
                      /\ call'[d].cookies \in {call[d].cookies, Untouched}
    BY <1>6 DEF AfterRefresh
  <2>1. \/ call'[d] = Idle(c)
        \/ call'[d] = call[d]
        \/ \E renewed : call'[d] = [call[d] EXCEPT !.renewed = renewed, !.route = "logout"]
        \/ \E renewed, cleared :
             call'[d] = [call[d] EXCEPT !.renewed = renewed, !.cleared = cleared]
    BY <1>6, Zenon DEF AfterRefresh
  <2>2. "cookies" \in DOMAIN Idle(c) /\ Idle(c).cookies = Untouched
    BY DEF Idle
  <2> QED
    BY <1>0, <2>1, <2>2 DEF CallsAreRecords
<1> QED
  BY <1>1, <1>2, <1>3, <1>4, <1>5, <1>6
  DEF After, AfterProxy, AfterMe, AfterToken, AfterLogin, AfterLogout, Finishes, GoesOnToLogout

LEMMA DeliverKeeps ==
  ASSUME CookiesInv, NEW c \in Slots, Deliver(c)
  PROVE  CookiesInv'
<1>1. AnswersAreCoherent' /\ CallsAreRecords'
  BY AfterKeepsAnswers DEF Deliver
<1>2. CookiesMatch'
  BY KeepAssumption DEF CookiesInv, CookiesMatch, AnswersAreCoherent, CallsAreRecords, Coherent, Deliver, Written
<1> QED
  BY <1>1, <1>2 DEF CookiesInv

LEMMA CookiesInvNext == CookiesInv /\ [Next]_vars => CookiesInv'
<1> SUFFICES ASSUME CookiesInv, [Next]_vars PROVE CookiesInv'
  OBVIOUS
<1>1. ASSUME NEW c \in Calls, NEW t \in Tabs, Mount(c, t) \/ Call(c, t) \/ Login(c, t)
      PROVE  CookiesInv'
  BY <1>1, CookieShapes
  DEF Mount, Call, Login, Leaves, Idle, CookiesInv, CookiesMatch, AnswersAreCoherent, CallsAreRecords, Slots
<1>2. ASSUME NEW c \in Slots, Resume(c) PROVE CookiesInv'
  BY <1>2 DEF Resume, CookiesInv, CookiesMatch, AnswersAreCoherent, CallsAreRecords
<1>3. ASSUME NEW c \in Slots, Serve(c) PROVE CookiesInv'
  BY <1>3, ServeKeeps
<1>4. ASSUME NEW c \in Slots, Deliver(c) PROVE CookiesInv'
  BY <1>4, DeliverKeeps
<1>5. ASSUME NEW c \in Slots, Lose(c) PROVE CookiesInv'
  BY <1>5, AfterKeepsAnswers DEF Lose, CookiesInv, CookiesMatch
<1>6. ASSUME NEW p, Expire(p) PROVE CookiesInv'
  BY <1>6 DEF Expire, CookiesInv, CookiesMatch, AnswersAreCoherent, CallsAreRecords
<1>7. CASE UNCHANGED vars
  BY <1>7 DEF vars, CookiesInv, CookiesMatch, AnswersAreCoherent, CallsAreRecords
<1> QED
  BY <1>1, <1>2, <1>3, <1>4, <1>5, <1>6, <1>7 DEF Next

\* The access cookie is never beside the refresh cookie of another rotation.
THEOREM CookiesBelongTogether == Spec => []CookiesMatch
<1>1. CookiesInv => CookiesMatch
  BY DEF CookiesInv
<1> QED
  BY <1>1, CookiesInvInit, CookiesInvNext, PTL DEF Spec

-----------------------------------------------------------------------------
(* The slots: what a tab does with an answer, slot by slot.                *)

Progress == {"idle", "sent", "answered", "waiting", "ready", "done"}

SlotsTyped == pc \in [Slots -> Progress] /\ call \in [Slots -> CallRecord]

\* Calls fetch for a tab and never refresh; the slot of a tab does nothing else.
RoutesInv ==
    /\ \A c \in Calls :
         /\ call[c].route # "refresh"
         /\ pc[c] = "idle" => call[c].kind = "none"
         /\ pc[c] # "idle" => call[c].tab \in Tabs
         /\ call[c].kind = "me" => call[c].route = "me"
         /\ pc[c] = "waiting" => call[c].route = "proxy"
    /\ \A t \in Tabs :
         /\ call[t].tab = t /\ call[t].kind = "none"
         /\ pc[t] \in {"idle", "ready", "sent", "answered"}
         /\ pc[t] # "idle" => call[t].route = "refresh"

Stays(d)       == pc'[d] = pc[d] /\ call'[d] = call[d]
Finished(d, a) == pc'[d] = "done" /\ call'[d] = [call[d] EXCEPT !.answer = a]
Ended(d)       == /\ call[d].kind = "api" /\ pc'[d] = "done"
                  /\ call'[d] = [call[d] EXCEPT !.cleared = TRUE]
Waits(d)       == /\ call[d].route = "proxy" /\ pc'[Tab(d)] # "idle"
                  /\ pc'[d] = "waiting" /\ call'[d] = call[d]
LogsOut(d)     == /\ call[d].route = "proxy" /\ call[d].kind = "logout"
                  /\ pc'[d] = "ready" /\ call'[d] = [call[d] EXCEPT !.route = "logout"]
Starts(t)      == /\ pc[t] = "idle" /\ pc'[t] = "ready"
                  /\ call'[t] = [Idle(t) EXCEPT !.route = "refresh"]
Settles(t)     == pc'[t] = "idle" /\ call'[t] = Idle(t)
Woken(d)       == /\ pc[d] = "waiting" /\ pc'[d] \in {"ready", "done"}
                  /\ pc'[d] = "done" => call[d].kind = "api"
                  /\ \E renewed \in {"ok", "failed"} :
                       \/ /\ call[d].kind = "logout"
                          /\ call'[d] = [call[d] EXCEPT !.renewed = renewed, !.route = "logout"]
                       \/ \E cleared \in BOOLEAN :
                            call'[d] = [call[d] EXCEPT !.renewed = renewed, !.cleared = cleared]

\* What becomes of slot d when the tab of c does something with the answer a:
\* nobody goes on waiting for c.
AfterSlot(c, d, a) ==
    \/ d # c /\ Stays(d) /\ (d \in Calls /\ pc[d] = "waiting" => Tab(d) # c)
    \/ d = c /\ d \in Calls /\ (Finished(d, a) \/ Ended(d) \/ Waits(d) \/ LogsOut(d))
    \/ d # c /\ d \in Tabs /\ Starts(d)
    \/ d = c /\ d \in Tabs /\ Settles(d)
    \/ d # c /\ d \in Calls /\ Tab(d) = c /\ Woken(d)

LEMMA AfterSlots ==
    ASSUME SlotsTyped, RoutesInv, NEW c \in Slots, pc[c] \in {"sent", "answered"},
           NEW a \in Answers, After(c, a)
    PROVE  /\ DOMAIN pc' = Slots /\ pc' = [d \in Slots |-> pc'[d]]
           /\ DOMAIN call' = Slots /\ call' = [d \in Slots |-> call'[d]]
           /\ \A d \in Slots : AfterSlot(c, d, a)
<1>0. /\ DOMAIN pc = Slots /\ pc = [d \in Slots |-> pc[d]]
      /\ DOMAIN call = Slots /\ call = [d \in Slots |-> call[d]]
    BY DEF SlotsTyped
<1>1. c \in Tabs => call[c].route = "refresh"
    BY DEF RoutesInv
<1>2. CASE call[c].route # "refresh"
    <2>1. c \in Calls /\ Tab(c) \in Tabs /\ Tab(c) \in Slots /\ c # Tab(c)
        BY <1>1, <1>2, SlotsAssumption DEF Slots, RoutesInv, Tab
    <2>0. \A d \in Calls : pc[d] = "waiting" => Tab(d) # c
        BY <2>1, SlotsAssumption DEF RoutesInv, Tab
    <2>2. CASE Finishes(c, a)
        BY <1>0, <2>0, <2>1, <2>2 DEF Finishes, AfterSlot, Stays, Finished
    <2>3. CASE GoesOnToLogout(c) /\ call[c].kind = "logout" /\ call[c].route = "proxy"
        BY <1>0, <2>0, <2>1, <2>3 DEF GoesOnToLogout, AfterSlot, Stays, LogsOut
    <2>4. CASE /\ pc' = [pc EXCEPT ![c] = "done"] /\ call[c].kind = "api"
               /\ call' = [call EXCEPT ![c].cleared = TRUE]
        BY <1>0, <2>0, <2>1, <2>4 DEF AfterSlot, Stays, Ended
    <2>5. CASE AwaitsRefresh(c) /\ call[c].route = "proxy"
        <3>1. /\ pc' = [d \in Slots |-> IF d = c THEN "waiting"
                                         ELSE IF d = Tab(c) /\ pc[d] = "idle" THEN "ready"
                                         ELSE pc[d]]
            BY <1>0, <2>1, <2>5 DEF AwaitsRefresh
        <3>2. DOMAIN call' = Slots /\ call' = [d \in Slots |-> call'[d]]
            BY <1>0, <2>5 DEF AwaitsRefresh
        <3>3. /\ call'[c] = call[c]
              /\ \A d \in Slots \ {Tab(c)} : call'[d] = call[d]
              /\ IF pc[Tab(c)] = "idle"
                 THEN call'[Tab(c)] = [Idle(Tab(c)) EXCEPT !.route = "refresh"]
                 ELSE call'[Tab(c)] = call[Tab(c)]
            BY <1>0, <2>1, <2>5 DEF AwaitsRefresh
        <3>4. Waits(c)
            BY <2>1, <2>5, <3>1, <3>3 DEF Waits
        <3>5. ASSUME NEW d \in Slots, d # c
              PROVE  Stays(d) \/ (d \in Tabs /\ Starts(d))
            BY <2>1, <3>1, <3>3, <3>5 DEF Stays, Starts
        <3> QED BY <2>0, <2>1, <3>1, <3>2, <3>4, <3>5 DEF AfterSlot
    <2> QED BY <1>2, <2>2, <2>3, <2>4, <2>5
            DEF After, AfterProxy, AfterRefresh, AfterMe, AfterToken, AfterLogin, AfterLogout
<1>3. CASE call[c].route = "refresh"
    <2>1. AfterRefresh(c, a) /\ c \in Tabs /\ c \notin Calls
        BY <1>3, SlotsAssumption
           DEF After, AfterProxy, AfterMe, AfterToken, AfterLogin, AfterLogout, RoutesInv, Slots
    <2>2. Settles(c)
        BY <2>1 DEF AfterRefresh, Settles
    <2>3. ASSUME NEW d \in Slots, d # c
          PROVE  \/ Stays(d) /\ (d \in Calls /\ pc[d] = "waiting" => Tab(d) # c)
                 \/ d \in Calls /\ Tab(d) = c /\ Woken(d)
        <3>1. CASE d \notin Waiters(c, a)
            <4>1. Stays(d)
                BY <2>1, <2>3, <3>1 DEF AfterRefresh, Stays
            <4> QED BY <3>1, <4>1 DEF Waiters
        <3>2. CASE d \in Waiters(c, a)
            <4>1. d \in Calls /\ Tab(d) = c /\ pc[d] = "waiting"
                BY <3>2 DEF Waiters
            <4>2. pc'[d] = IF a # "ok" /\ call[d].kind = "api" THEN "done" ELSE "ready"
                BY <2>1, <2>3, <3>2 DEF AfterRefresh
            <4>3. call'[d] =
                    LET renewed == IF a = "ok" THEN "ok" ELSE "failed"
                    IN  IF a # "ok" /\ call[d].kind = "logout"
                        THEN [call[d] EXCEPT !.renewed = renewed, !.route = "logout"]
                        ELSE [call[d] EXCEPT !.renewed = renewed,
                                !.cleared = d \in {e \in Waiters(c, a) :
                                                     a # "ok" /\ call[e].kind = "api"}]
                BY <2>1, <2>3, <3>2, Zenon DEF AfterRefresh
            <4>4. Woken(d)
                <5>1. CASE a # "ok" /\ call[d].kind = "logout"
                    BY <4>1, <4>2, <4>3, <5>1, Zenon DEF Woken
                <5>2. CASE ~(a # "ok" /\ call[d].kind = "logout")
                    <6> DEFINE renewed == IF a = "ok" THEN "ok" ELSE "failed"
                               cleared == d \in {e \in Waiters(c, a) :
                                                   a # "ok" /\ call[e].kind = "api"}
                    <6>1. call'[d] = [call[d] EXCEPT !.renewed = renewed, !.cleared = cleared]
                        BY <4>3, <5>2
                    <6>2. renewed \in {"ok", "failed"} /\ cleared \in BOOLEAN
                        OBVIOUS
                    <6> HIDE DEF renewed, cleared
                    <6> QED BY <4>1, <4>2, <6>1, <6>2 DEF Woken
                <5> QED BY <5>1, <5>2
            <4> QED BY <4>1, <4>4
        <3> QED BY <3>1, <3>2
    <2>4. DOMAIN pc' = Slots /\ pc' = [d \in Slots |-> pc'[d]]
        BY <2>1 DEF AfterRefresh
    <2>5. DOMAIN call' = Slots /\ call' = [d \in Slots |-> call'[d]]
        <3> DEFINE renewed == IF a = "ok" THEN "ok" ELSE "failed"
                   ended   == {d \in Waiters(c, a) : a # "ok" /\ call[d].kind = "api"}
                   leaving == {d \in Waiters(c, a) : a # "ok" /\ call[d].kind = "logout"}
                   Fate(d) ==
                     IF d = c THEN Idle(c)
                     ELSE IF d \in leaving
                     THEN [call[d] EXCEPT !.renewed = renewed, !.route = "logout"]
                     ELSE IF d \in Waiters(c, a)
                     THEN [call[d] EXCEPT !.renewed = renewed, !.cleared = d \in ended]
                     ELSE call[d]
        <3>1. call' = [d \in Slots |-> Fate(d)]
            BY <2>1, Zenon DEF AfterRefresh
        <3> HIDE DEF Fate
        <3> QED BY <3>1
    <2> QED BY <2>5, <2>1, <2>2, <2>3, <2>4 DEF AfterSlot
<1> QED BY <1>2, <1>3

-----------------------------------------------------------------------------
(* The slots keep their type and their routes.                             *)

SlotInv == SlotsTyped /\ RoutesInv /\ jar \in Cookies

LEMMA IdleTyped ==
    ASSUME jar \in Cookies, NEW t \in Tabs \cup {None}
    PROVE  /\ Idle(t) \in CallRecord /\ [Idle(t) EXCEPT !.route = "refresh"] \in CallRecord
           /\ \A kind \in Kinds, route \in Routes :
                [Idle(t) EXCEPT !.kind = kind, !.route = route, !.carried = jar] \in CallRecord
BY DEF Idle, CallRecord, Kinds, Routes, Answers, SetCookie, Cookies, NoCookies, Untouched

LEMMA AfterKeepsSlots ==
    ASSUME SlotInv, NEW c \in Slots, pc[c] \in {"sent", "answered"},
           NEW a \in Answers, After(c, a)
    PROVE  SlotsTyped' /\ RoutesInv'
<1>1. /\ DOMAIN pc' = Slots /\ pc' = [d \in Slots |-> pc'[d]]
      /\ DOMAIN call' = Slots /\ call' = [d \in Slots |-> call'[d]]
      /\ \A d \in Slots : AfterSlot(c, d, a)
    BY AfterSlots DEF SlotInv
<1>2. ASSUME NEW d \in Slots PROVE pc'[d] \in Progress /\ call'[d] \in CallRecord
    <2>1. pc[d] \in Progress /\ call[d] \in CallRecord
        BY DEF SlotInv, SlotsTyped
    <2>2. CASE Stays(d) \/ Waits(d)
        BY <2>1, <2>2 DEF Stays, Waits, Progress
    <2>3. CASE Finished(d, a)
        BY <2>1, <2>3 DEF Finished, Progress, CallRecord
    <2>4. CASE Ended(d)
        BY <2>1, <2>4 DEF Ended, Progress, CallRecord
    <2>5. CASE LogsOut(d)
        BY <2>1, <2>5 DEF LogsOut, Progress, CallRecord, Routes
    <2>6. CASE d \in Tabs /\ (Starts(d) \/ Settles(d))
        BY <2>6, IdleTyped DEF SlotInv, Starts, Settles, Progress
    <2>7. CASE Woken(d)
        <3>1. pc'[d] \in Progress
            BY <2>7 DEF Woken, Progress
        <3>2. PICK renewed \in {"ok", "failed"} :
                \/ call'[d] = [call[d] EXCEPT !.renewed = renewed, !.route = "logout"]
                \/ \E cleared \in BOOLEAN :
                     call'[d] = [call[d] EXCEPT !.renewed = renewed, !.cleared = cleared]
            BY <2>7 DEF Woken
        <3> QED BY <2>1, <3>1, <3>2 DEF CallRecord, Routes
    <2> QED BY <1>1, <2>2, <2>3, <2>4, <2>5, <2>6, <2>7 DEF AfterSlot
<1>3. ASSUME NEW d \in Calls
      PROVE  /\ call'[d].route # "refresh"
             /\ pc'[d] = "idle" => call'[d].kind = "none"
             /\ pc'[d] # "idle" => call'[d].tab \in Tabs
             /\ call'[d].kind = "me" => call'[d].route = "me"
             /\ pc'[d] = "waiting" => call'[d].route = "proxy"
    <2>1. /\ call[d] \in CallRecord /\ call[d].route # "refresh"
          /\ pc[d] = "idle" => call[d].kind = "none"
          /\ pc[d] # "idle" => call[d].tab \in Tabs
          /\ call[d].kind = "me" => call[d].route = "me"
          /\ pc[d] = "waiting" => call[d].route = "proxy"
        BY DEF SlotInv, SlotsTyped, RoutesInv, Slots
    <2>2. d \in Slots /\ d \notin Tabs
        BY SlotsAssumption DEF Slots
    <2>3. CASE Stays(d)
        BY <2>1, <2>3 DEF Stays
    <2>4. CASE d = c
        BY <1>1, <2>1, <2>2, <2>4
           DEF AfterSlot, Finished, Ended, Waits, LogsOut, CallRecord
    <2>5. CASE Woken(d)
        <3>1. /\ pc[d] = "waiting" /\ pc'[d] \in {"ready", "done"}
              /\ call'[d].kind = call[d].kind /\ call'[d].tab = call[d].tab
            BY <2>1, <2>5 DEF Woken, CallRecord
        <3>2. call'[d].route \in {call[d].route, "logout"}
            BY <2>1, <2>5 DEF Woken, CallRecord
        <3> QED BY <2>1, <3>1, <3>2
    <2> QED BY <1>1, <2>2, <2>3, <2>4, <2>5 DEF AfterSlot
<1>4. ASSUME NEW t \in Tabs
      PROVE  /\ call'[t].tab = t /\ call'[t].kind = "none"
             /\ pc'[t] \in {"idle", "ready", "sent", "answered"}
             /\ pc'[t] # "idle" => call'[t].route = "refresh"
    <2>1. t \in Slots /\ t \notin Calls
        BY SlotsAssumption DEF Slots
    <2>2. Stays(t) \/ Starts(t) \/ Settles(t)
        BY <1>1, <2>1 DEF AfterSlot
    <2> QED BY <2>2 DEF Stays, Starts, Settles, Idle, SlotInv, RoutesInv
<1>5. SlotsTyped'
    BY <1>1, <1>2 DEF SlotsTyped
<1> QED BY <1>3, <1>4, <1>5 DEF RoutesInv

\* A step of one slot that leaves its tab, and what it is about, alone.
LEMMA OneSlotKeeps ==
    ASSUME SlotInv, NEW c \in Slots, NEW p \in Progress, NEW r \in CallRecord,
           pc' = [pc EXCEPT ![c] = p], call' = [call EXCEPT ![c] = r],
           p \in {"sent", "answered"}, pc[c] # "idle",
           r.kind = call[c].kind, r.tab = call[c].tab, r.route = call[c].route
    PROVE  SlotsTyped' /\ RoutesInv'
<1>1. SlotsTyped'
    BY DEF SlotInv, SlotsTyped
<1>2. /\ pc'[c] = p /\ call'[c] = r
      /\ \A d \in Slots \ {c} : pc'[d] = pc[d] /\ call'[d] = call[d]
    BY DEF SlotInv, SlotsTyped
<1> QED BY <1>1, <1>2 DEF SlotInv, RoutesInv, Slots

-----------------------------------------------------------------------------
(* What serving a request does to the sessions and the tokens under way.   *)

Carried(c) == call[c].carried.refresh

\* A new pair leaves with the answer, or is lost at once.
Signs(q, w) ==
    \/ w.refresh = q /\ lost' = lost
    \/ w.refresh \in {None, Keep} /\ lost' = lost \cup {q}

SignsIn(w) ==
    /\ \E s \in Sessions :
         /\ store[s] = Backend!Absent
         /\ store' = [store EXCEPT ![s] = Backend!Active(1)]
         /\ Signs(Pair(s, 1), w)
    /\ presented' = presented

LogsOff(p, w) ==
    /\ p \in Pairs /\ Live(p) /\ w.refresh = None
    /\ store' = [store EXCEPT ![p.sess] = Backend!Revoked(@.token, "logout")]
    /\ UNCHANGED <<lost, presented>>

Presents(c, p, w) ==
    /\ p \in Pairs /\ call[c].route \in {"refresh", "me", "token"}
    /\ presented' = presented \cup {[who |-> c, pair |-> p]}
    /\ \/ /\ Accepted(p) /\ Signs(Successor(p), w)
          /\ store' = [store EXCEPT ![p.sess] = Backend!Active(p.num + 1)]
       \/ /\ Live(p) /\ ~Accepted(p) /\ w.refresh = None /\ lost' = lost
          /\ store' = [store EXCEPT ![p.sess] = Backend!Revoked(@.token, "refresh_token_reuse")]
       \/ ~Live(p) /\ w.refresh = None /\ UNCHANGED <<store, lost>>

ServeEffect(c, w) ==
    \/ w.refresh \in {None, Keep} /\ UNCHANGED <<store, lost, presented>>
    \/ call[c].route # "proxy" /\ SignsIn(w)
    \/ LogsOff(Carried(c), w)
    \/ Presents(c, Carried(c), w)

\* Serving answers, and changes nothing else of the browser.
Serving(c) ==
    \E a \in Answers, w \in SetCookie : Answer(c, a, w) /\ ServeEffect(c, w)

LEMMA CookieTypes ==
    /\ NoCookies \in SetCookie /\ NoCookies.refresh = None
    /\ Untouched \in SetCookie /\ Untouched.refresh = Keep
    /\ [Untouched EXCEPT !.access = None] \in SetCookie
    /\ [Untouched EXCEPT !.access = None].refresh = Keep
    /\ \A p \in Pairs : /\ Both(p) \in SetCookie /\ Both(p).refresh = p
                        /\ [access |-> None, refresh |-> p] \in SetCookie
    /\ \A p \in Pairs : Successor(p) \in Pairs
    /\ \A s \in Sessions : Pair(s, 1) \in Pairs
BY DEF NoCookies, Untouched, SetCookie, Both, Successor, Pair, Pairs

\* POST /auth/refresh of the backend, by what became of the token presented.
LEMMA AtBackend ==
    ASSUME NEW c \in Slots, RefreshAtBackend(c), Carried(c) \in Pairs \cup {None}
    PROVE  LET p == Carried(c)
           IN  /\ \/ Accepted(p) /\ store' = [store EXCEPT ![p.sess] = Backend!Active(p.num + 1)]
                  \/ /\ Live(p) /\ ~Accepted(p)
                     /\ store' = [store EXCEPT ![p.sess] =
                                    Backend!Revoked(@.token, "refresh_token_reuse")]
                  \/ ~Live(p) /\ ~Accepted(p) /\ store' = store
               /\ IF p = None THEN ~Live(p) /\ ~Accepted(p) /\ presented' = presented
                  ELSE p \in Pairs /\ presented' = presented \cup {[who |-> c, pair |-> p]}
<1> DEFINE p == Carried(c)
<1>1. Accepted(p) => Live(p)
    BY DEF Accepted, Live, Backend!Active
<1>2. p = None => ~Live(p) /\ ~Accepted(p)
    BY DEF Accepted, Live
<1>3. p = call[c].carried.refresh
    BY DEF Carried
<1> HIDE DEF p
<1>4. /\ \/ Accepted(p) /\ store' = [store EXCEPT ![p.sess] = Backend!Active(p.num + 1)]
         \/ /\ Live(p) /\ ~Accepted(p)
            /\ store' = [store EXCEPT ![p.sess] =
                           Backend!Revoked(@.token, "refresh_token_reuse")]
         \/ ~Live(p) /\ store' = store
      /\ presented' = IF p = None THEN presented ELSE presented \cup {[who |-> c, pair |-> p]}
    BY <1>3 DEF RefreshAtBackend, backend
<1> QED BY <1>1, <1>2, <1>4 DEF p

LEMMA RefreshServes ==
    ASSUME SlotInv, NEW c \in Slots, Refresh(c), call[c].route \in {"refresh", "me", "token"}
    PROVE  Serving(c)
<1> DEFINE p == Carried(c)
<1>1. p \in Pairs \cup {None}
    BY DEF Carried, SlotInv, SlotsTyped, CallRecord, Cookies
<1>2. CASE RefreshAtBackend(c) /\ UNCHANGED lost
           /\ IF Accepted(p) THEN Answer(c, "ok", Both(Successor(p)))
                             ELSE Answer(c, "unauthorized", NoCookies)
    <2>1. CASE Accepted(p)
        <3>1. p \in Pairs /\ Both(Successor(p)) \in SetCookie /\ Both(Successor(p)).refresh = Successor(p)
            BY <1>1, <2>1, CookieTypes DEF Accepted
        <3>2. Presents(c, p, Both(Successor(p)))
            BY <1>1, <1>2, <2>1, <3>1, AtBackend DEF Presents, Signs
        <3> QED BY <1>2, <2>1, <3>1, <3>2 DEF Serving, ServeEffect, Answers
    <2>2. CASE ~Accepted(p)
        <3>1. ServeEffect(c, NoCookies)
            BY <1>1, <1>2, <2>2, AtBackend, CookieTypes DEF ServeEffect, Presents
        <3>2. NoCookies \in SetCookie /\ "unauthorized" \in Answers
            BY CookieTypes DEF Answers
        <3> QED BY <1>2, <2>2, <3>1, <3>2 DEF Serving
    <2> QED BY <2>1, <2>2
<1>3. CASE RefreshBreaks(c) /\ Answer(c, "unavailable", NoCookies)
    <2>1. ServeEffect(c, NoCookies)
        <3>1. CASE UNCHANGED <<backend, lost, presented>>
            BY <3>1, CookieTypes DEF backend, ServeEffect
        <3>2. CASE RefreshAtBackend(c)
                   /\ lost' = IF Accepted(p) THEN lost \cup {Successor(p)} ELSE lost
            BY <1>1, <3>2, AtBackend, CookieTypes DEF ServeEffect, Presents, Signs
        <3> QED BY <1>3, <3>1, <3>2 DEF RefreshBreaks, Carried
    <2>2. NoCookies \in SetCookie /\ "unavailable" \in Answers
        BY CookieTypes DEF Answers
    <2> QED BY <1>3, <2>1, <2>2 DEF Serving
<1> QED BY <1>2, <1>3 DEF Refresh, Carried

LEMMA RestoreServes ==
    ASSUME SlotInv, NEW c \in Slots, Restore(c), call[c].route \in {"me", "token"}
    PROVE  Serving(c)
<1> DEFINE p == Carried(c)
<1>1. p \in Pairs \cup {None}
    BY DEF Carried, SlotInv, SlotsTyped, CallRecord, Cookies
<1>2. CASE Refresh(c)
    BY <1>2, RefreshServes
<1>3. CASE /\ UNCHANGED <<backend, lost, presented>>
           /\ \E a \in {"ok", "unauthorized", "unavailable"} : Answer(c, a, Untouched)
    BY <1>3, CookieTypes DEF Serving, ServeEffect, backend, Answers
<1>4. CASE /\ Accepted(p) /\ RefreshAtBackend(c) /\ UNCHANGED lost
           /\ \E w \in AfterBrokenRestore(p) : Answer(c, "unavailable", w)
    <2>1. PICK w \in AfterBrokenRestore(p) : Answer(c, "unavailable", w)
        BY <1>4
    <2>2. p \in Pairs /\ Successor(p) \in Pairs
        BY <1>1, <1>4, CookieTypes DEF Accepted
    <2>3. w \in SetCookie /\ w.refresh = Successor(p)
        <3> DEFINE q == Successor(p)
        <3>1. w = Both(q) \/ w = [access |-> None, refresh |-> q]
            BY <2>1 DEF AfterBrokenRestore
        <3> HIDE DEF q
        <3>2. q \in Pairs
            BY <2>2 DEF q
        <3>3. CASE w = Both(q)
            BY <3>2, <3>3, CookieTypes DEF q
        <3>4. CASE w = [access |-> None, refresh |-> q]
            <4>1. w \in SetCookie /\ w.refresh = q
                BY <3>2, <3>4 DEF SetCookie
            <4> QED BY <4>1 DEF q
        <3> QED BY <3>1, <3>3, <3>4
    <2>4. Presents(c, p, w)
        BY <1>1, <1>4, <2>2, <2>3, AtBackend DEF Presents, Signs
    <2> QED BY <2>1, <2>3, <2>4 DEF Serving, ServeEffect, Answers
<1> QED BY <1>2, <1>3, <1>4 DEF Restore, Carried, history

\* The session a sign-in opens is new; its pair arrives or is lost.
LEMMA ServeServes == ASSUME SlotInv, NEW c \in Slots, Serve(c) PROVE Serving(c)
<1>1. Carried(c) \in Pairs \cup {None}
    BY DEF Carried, SlotInv, SlotsTyped, CallRecord, Cookies
<1>2. CASE ServeRefresh(c)
    BY <1>2, RefreshServes DEF ServeRefresh, Serves
<1>3. CASE ServeMe(c) \/ ServeToken(c)
    BY <1>3, RestoreServes DEF ServeMe, ServeToken, Serves
<1>4. CASE ServeProxy(c)
    <2>1. PICK a \in {"ok", "unauthorized", "unavailable"},
               w \in {Untouched, [Untouched EXCEPT !.access = None]} : Answer(c, a, w)
        BY <1>4 DEF ServeProxy
    <2>2. w \in SetCookie /\ w.refresh \in {None, Keep}
        BY <2>1, CookieTypes
    <2>3. UNCHANGED <<store, lost, presented>>
        BY <1>4 DEF ServeProxy, history, backend
    <2> QED BY <2>1, <2>2, <2>3 DEF Serving, ServeEffect, Answers
<1>5. CASE ServeLogin(c)
    <2>1. CASE /\ UNCHANGED <<backend, lost, presented>>
               /\ \E a \in {"unauthorized", "unavailable"} : Answer(c, a, Untouched)
        BY <2>1, CookieTypes DEF Serving, ServeEffect, backend, Answers
    <2>2. ASSUME NEW s \in Sessions, store[s] = Backend!Absent, OpenAtBackend(s),
                 \/ Answer(c, "ok", Both(Pair(s, 1))) /\ UNCHANGED history
                 \/ /\ Answer(c, "unavailable", Untouched) /\ lost' = lost \cup {Pair(s, 1)}
                    /\ UNCHANGED presented
          PROVE  Serving(c)
        <3> DEFINE q == Pair(s, 1)
        <3>1. q \in Pairs /\ Both(q) \in SetCookie /\ Both(q).refresh = q
            BY CookieTypes
        <3>2. PICK a \in {"ok", "unavailable"}, w \in {Both(q), Untouched} :
                Answer(c, a, w) /\ Signs(q, w) /\ presented' = presented
            BY <2>2, <3>1, CookieTypes DEF Signs, history
        <3>3. SignsIn(w)
            BY <2>2, <3>2 DEF SignsIn, OpenAtBackend
        <3>4. call[c].route # "proxy" /\ w \in SetCookie
            BY <1>5, <3>1, <3>2, CookieTypes DEF ServeLogin, Serves
        <3> QED BY <3>2, <3>3, <3>4 DEF Serving, ServeEffect, Answers
    <2> QED BY <1>5, <2>1, <2>2 DEF ServeLogin, history
<1>6. CASE ServeLogout(c)
    <2>1. Answer(c, "ok", NoCookies) /\ UNCHANGED <<lost, presented>>
        BY <1>6 DEF ServeLogout
    <2>2. CASE CloseAtBackend(call[c].carried.refresh) /\ Live(Carried(c))
        <3>1. LogsOff(Carried(c), NoCookies)
            BY <1>1, <2>1, <2>2, CookieTypes DEF CloseAtBackend, LogsOff, Carried, Live
        <3> QED BY <2>1, <3>1, CookieTypes DEF Serving, ServeEffect, Answers
    <2>3. CASE UNCHANGED backend
        BY <2>1, <2>3, CookieTypes DEF Serving, ServeEffect, backend, Answers
    <2> QED BY <1>6, <2>2, <2>3 DEF ServeLogout, CloseAtBackend, Carried
<1> QED BY <1>2, <1>3, <1>4, <1>5, <1>6 DEF Serve

-----------------------------------------------------------------------------
(* The slots' invariant is inductive.                                      *)

LEMMA SlotInvInit == Init => SlotInv
<1> SUFFICES ASSUME Init PROVE SlotInv
    OBVIOUS
<1>1. jar \in Cookies
    BY DEF Init, Cookies, Both, Pair, Pairs, NoCookies
<1>2. \A c \in Slots : (IF c \in Tabs THEN c ELSE None) \in Tabs \cup {None}
    OBVIOUS
<1>3. SlotsTyped
    BY <1>1, <1>2, IdleTyped DEF Init, SlotsTyped, Progress
<1>4. RoutesInv
    BY SlotsAssumption DEF Init, RoutesInv, Idle, Slots
<1> QED BY <1>1, <1>3, <1>4 DEF SlotInv

\* A call that leaves: api, token, logout, me or login, by the route of that name.
LEMMA LeavesKeeps ==
    ASSUME SlotInv, NEW c \in Calls, NEW t \in Tabs, UNCHANGED jar,
           Mount(c, t) \/ Call(c, t) \/ Login(c, t)
    PROVE  SlotInv'
<1>1. PICK kind \in Kinds, route \in Routes :
        /\ Leaves(c, kind, t, route)
        /\ route # "refresh"
        /\ kind = "me" => route = "me"
    BY DEF Mount, Call, Login, Kinds, Routes
<1>2. PICK r \in CallRecord :
        /\ r.kind = kind /\ r.route = route /\ r.tab = t
        /\ pc' = [pc EXCEPT ![c] = "sent"] /\ call' = [call EXCEPT ![c] = r]
    <2> DEFINE r == [Idle(t) EXCEPT !.kind = kind, !.route = route, !.carried = jar]
    <2>1. r \in CallRecord
        BY IdleTyped DEF SlotInv
    <2>2. r.kind = kind /\ r.route = route /\ r.tab = t
        BY DEF Idle
    <2>3. pc' = [pc EXCEPT ![c] = "sent"] /\ call' = [call EXCEPT ![c] = r]
        BY <1>1 DEF Leaves
    <2> HIDE DEF r
    <2> QED BY <2>1, <2>2, <2>3
<1>3. /\ SlotsTyped' /\ pc'[c] = "sent" /\ call'[c] = r
      /\ \A d \in Slots \ {c} : pc'[d] = pc[d] /\ call'[d] = call[d]
    BY <1>2 DEF SlotInv, SlotsTyped, Slots, Progress
<1>4. RoutesInv'
    <2>1. \A d \in (Calls \cup Tabs) \ {c} : pc'[d] = pc[d] /\ call'[d] = call[d]
        BY <1>3 DEF Slots
    <2>2. c \notin Tabs
        BY SlotsAssumption
    <2>3. \A d \in Calls \ {c} :
            /\ call'[d].route # "refresh"
            /\ pc'[d] = "idle" => call'[d].kind = "none"
            /\ pc'[d] # "idle" => call'[d].tab \in Tabs
            /\ call'[d].kind = "me" => call'[d].route = "me"
            /\ pc'[d] = "waiting" => call'[d].route = "proxy"
        BY <2>1 DEF SlotInv, RoutesInv
    <2>4. \A d \in Tabs :
            /\ call'[d].tab = d /\ call'[d].kind = "none"
            /\ pc'[d] \in {"idle", "ready", "sent", "answered"}
            /\ pc'[d] # "idle" => call'[d].route = "refresh"
        BY <2>1, <2>2 DEF SlotInv, RoutesInv
    <2>5. /\ call'[c].route # "refresh" /\ pc'[c] = "sent" /\ call'[c].tab \in Tabs
          /\ call'[c].kind = "me" => call'[c].route = "me"
        BY <1>1, <1>2, <1>3
    <2> QED BY <2>3, <2>4, <2>5 DEF RoutesInv
<1> QED BY <1>3, <1>4 DEF SlotInv

LEMMA SlotInvNext == SlotInv /\ [Next]_vars => SlotInv'
<1> SUFFICES ASSUME SlotInv, [Next]_vars PROVE SlotInv'
    OBVIOUS
<1>1. ASSUME NEW c \in Calls, NEW t \in Tabs, Mount(c, t) \/ Call(c, t) \/ Login(c, t)
      PROVE  SlotInv'
    BY <1>1, LeavesKeeps DEF Mount, Call, Login
<1>2. ASSUME NEW c \in Slots, Resume(c) PROVE SlotInv'
    <2>1. call[c] \in CallRecord
        BY DEF SlotInv, SlotsTyped
    <2>2. PICK r \in CallRecord :
            /\ call' = [call EXCEPT ![c] = r]
            /\ r.kind = call[c].kind /\ r.tab = call[c].tab /\ r.route = call[c].route
        <3> DEFINE r == [call[c] EXCEPT !.carried = jar]
        <3>1. r \in CallRecord
            BY <2>1 DEF CallRecord, SlotInv
        <3>2. r.kind = call[c].kind /\ r.tab = call[c].tab /\ r.route = call[c].route
            BY <2>1 DEF CallRecord
        <3>3. call' = [call EXCEPT ![c] = r]
            BY <1>2 DEF Resume
        <3> HIDE DEF r
        <3> QED BY <3>1, <3>2, <3>3
    <2>3. SlotsTyped' /\ RoutesInv'
        BY <1>2, <2>2, OneSlotKeeps DEF Resume, Progress
    <2> QED BY <1>2, <2>3 DEF Resume, SlotInv
<1>3. ASSUME NEW c \in Slots, Serve(c) PROVE SlotInv'
    <2>1. pc[c] = "sent" /\ UNCHANGED jar
        BY <1>3 DEF Serve, ServeRefresh, ServeMe, ServeToken, ServeProxy, ServeLogin, ServeLogout,
                    Serves
    <2>2. PICK a \in Answers, w \in SetCookie : Answer(c, a, w)
        BY <1>3, ServeServes DEF Serving
    <2>3. call[c] \in CallRecord
        BY DEF SlotInv, SlotsTyped
    <2>4. PICK r \in CallRecord :
            /\ call' = [call EXCEPT ![c] = r]
            /\ r.kind = call[c].kind /\ r.tab = call[c].tab /\ r.route = call[c].route
        <3> DEFINE r == [call[c] EXCEPT !.answer = a, !.cookies = w]
        <3>1. r \in CallRecord
            BY <2>3 DEF CallRecord
        <3>2. r.kind = call[c].kind /\ r.tab = call[c].tab /\ r.route = call[c].route
            BY <2>3 DEF CallRecord
        <3>3. call' = [call EXCEPT ![c] = r]
            BY <2>2 DEF Answer
        <3> HIDE DEF r
        <3> QED BY <3>1, <3>2, <3>3
    <2>5. SlotsTyped' /\ RoutesInv'
        BY <2>1, <2>2, <2>4, OneSlotKeeps DEF Answer, Progress
    <2> QED BY <2>1, <2>5 DEF SlotInv
<1>4. ASSUME NEW c \in Slots, Deliver(c) PROVE SlotInv'
    <2>1. call[c].answer \in Answers /\ call[c].cookies \in SetCookie
        BY DEF SlotInv, SlotsTyped, CallRecord
    <2>2. \E a \in Answers : After(c, a)
        BY <1>4, <2>1 DEF Deliver
    <2>3. SlotsTyped' /\ RoutesInv'
        BY <1>4, <2>2, AfterKeepsSlots DEF Deliver
    <2>4. jar' \in Cookies
        BY <1>4, <2>1 DEF Deliver, Written, Cookies, SetCookie, SlotInv
    <2> QED BY <2>3, <2>4 DEF SlotInv
<1>5. ASSUME NEW c \in Slots, Lose(c) PROVE SlotInv'
    <2>1. SlotsTyped' /\ RoutesInv'
        BY <1>5, AfterKeepsSlots DEF Lose, Answers
    <2> QED BY <1>5, <2>1 DEF Lose, SlotInv
<1>6. ASSUME NEW p, Expire(p) PROVE SlotInv'
    BY <1>6 DEF Expire, SlotInv, SlotsTyped, RoutesInv
<1>7. CASE UNCHANGED vars
    BY <1>7 DEF vars, SlotInv, SlotsTyped, RoutesInv
<1> QED BY <1>1, <1>2, <1>3, <1>4, <1>5, <1>6, <1>7 DEF Next

-----------------------------------------------------------------------------
(* Nobody waits in vain.                                                   *)

WaitInv ==
    /\ status \in [Tabs -> {"new", "loading", "authenticated", "unauthenticated"}]
    /\ NobodyWaitsInVain

\* The bootstrap of tab t: under way, or lost on the way.
Boots(c, t) ==
    call[c].kind = "me" /\ Tab(c) = t /\ (pc[c] # "done" \/ call[c].answer = "lost")

LEMMA AfterWaits ==
    ASSUME SlotInv, WaitInv, NEW c \in Slots, pc[c] \in {"sent", "answered"},
           NEW a \in Answers, After(c, a)
    PROVE  WaitInv'
<1>1. \A d \in Slots : AfterSlot(c, d, a)
    BY AfterSlots DEF SlotInv
<1>2. c \in Calls => Tab(c) \in Tabs
    BY DEF SlotInv, RoutesInv, Tab
<1>3. \/ UNCHANGED status
      \/ \E t : SignIn(t) \/ SignOut(t)
    BY DEF After, AfterProxy, AwaitsRefresh, AfterRefresh, AfterMe, AfterToken, AfterLogin,
           AfterLogout
<1>4. /\ status' \in [Tabs -> {"new", "loading", "authenticated", "unauthenticated"}]
      /\ \A t \in Tabs : status'[t] = "loading" => status[t] = "loading"
    BY <1>3 DEF SignIn, SignOut, WaitInv
<1>5. ASSUME NEW d \in Calls, NEW t \in Tabs, Boots(d, t), status'[t] = "loading"
      PROVE  Boots(d, t)'
    <2>1. /\ d \in Slots /\ d \notin Tabs /\ call[d] \in CallRecord
          /\ call[d].route = "me" /\ pc[d] # "waiting"
        BY <1>5, SlotsAssumption DEF SlotInv, SlotsTyped, RoutesInv, Boots, Slots
    <2>2. CASE d # c
        BY <1>1, <1>5, <2>1, <2>2 DEF AfterSlot, Woken, Stays, Boots, Tab
    <2>3. CASE d = c
        <3>1. AfterMe(c, a)
            BY <2>1, <2>3 DEF After, AfterProxy, AfterRefresh, AfterToken, AfterLogin, AfterLogout
        <3>2. status[t] = "loading" /\ Tab(c) = t
            BY <1>4, <1>5, <2>3 DEF Boots
        <3>3. a = "lost"
            BY <1>5, <3>1, <3>2 DEF AfterMe, SignIn, SignOut, WaitInv
        <3>4. call'[d] = [call[d] EXCEPT !.answer = a]
            BY <2>1, <2>3, <3>1 DEF AfterMe, Finishes, SlotInv, SlotsTyped
        <3> QED BY <1>5, <2>1, <3>3, <3>4 DEF Boots, Tab, CallRecord
    <2> QED BY <2>2, <2>3
<1>6. ASSUME NEW d \in Calls, pc'[d] = "waiting" PROVE pc'[Tab(d)'] # "idle"
    <2>1. d \in Slots /\ d \notin Tabs
        BY SlotsAssumption DEF Slots
    <2>2. \/ Waits(d)
          \/ Stays(d) /\ (pc[d] = "waiting" => Tab(d) # c)
        BY <1>1, <1>6, <2>1 DEF AfterSlot, Finished, Ended, LogsOut, Woken
    <2>3. Tab(d)' = Tab(d)
        BY <2>2 DEF Waits, Stays, Tab
    <2>4. CASE Waits(d)
        BY <2>3, <2>4 DEF Waits
    <2>5. CASE Stays(d) /\ (pc[d] = "waiting" => Tab(d) # c)
        <3>1. pc[d] = "waiting" /\ pc[Tab(d)] # "idle" /\ Tab(d) \in Tabs /\ Tab(d) # c
            BY <1>6, <2>5 DEF Stays, WaitInv, NobodyWaitsInVain, SlotInv, RoutesInv, Tab
        <3>2. Tab(d) \in Slots /\ Tab(d) \notin Calls
            BY <3>1, SlotsAssumption DEF Slots
        <3>3. Stays(Tab(d))
            BY <1>1, <3>1, <3>2 DEF AfterSlot, Starts
        <3> QED BY <2>3, <3>1, <3>3 DEF Stays
    <2> QED BY <2>2, <2>4, <2>5
<1> QED BY <1>4, <1>5, <1>6 DEF WaitInv, NobodyWaitsInVain, Boots

\* A step of one slot that neither ends nor waits changes nothing for those who wait.
LEMMA OneSlotWaits ==
    ASSUME SlotInv, WaitInv, NEW c \in Slots, pc[c] # "done", pc'[c] \in {"sent", "answered"},
           \A d \in Slots \ {c} : pc'[d] = pc[d] /\ call'[d] = call[d],
           call'[c].kind = call[c].kind /\ call'[c].tab = call[c].tab,
           UNCHANGED status
    PROVE  WaitInv'
<1>1. \A d \in Calls, t \in Tabs : Boots(d, t) => Boots(d, t)'
    BY DEF Boots, Tab, Slots
<1>2. ASSUME NEW d \in Calls, pc'[d] = "waiting" PROVE pc'[Tab(d)'] # "idle"
    <2>1. pc[d] = "waiting" /\ Tab(d)' = Tab(d) /\ Tab(d) \in Tabs /\ pc[Tab(d)] # "idle"
        BY <1>2 DEF Slots, Tab, WaitInv, NobodyWaitsInVain, SlotInv, RoutesInv
    <2> QED BY <2>1 DEF Slots
<1> QED BY <1>1, <1>2 DEF WaitInv, NobodyWaitsInVain, Boots

LEMMA WaitInvNext == SlotInv /\ WaitInv /\ [Next]_vars => WaitInv'
<1> SUFFICES ASSUME SlotInv, WaitInv, [Next]_vars PROVE WaitInv'
    OBVIOUS
<1>1. ASSUME NEW c \in Calls, NEW t \in Tabs, Mount(c, t) \/ Call(c, t) \/ Login(c, t)
      PROVE  WaitInv'
    <2>1. PICK kind, route : Leaves(c, kind, t, route) /\ (Mount(c, t) => kind = "me")
        BY <1>1 DEF Mount, Call, Login
    <2>2. /\ pc[c] = "idle" /\ pc'[c] = "sent" /\ call[c].kind = "none"
          /\ call'[c].kind = kind /\ call'[c].tab = t
          /\ \A d \in Slots \ {c} : pc'[d] = pc[d] /\ call'[d] = call[d]
        BY <2>1 DEF Leaves, Idle, SlotInv, SlotsTyped, RoutesInv, Slots
    <2>3. \A d \in Calls, u \in Tabs : Boots(d, u) => Boots(d, u)'
        BY <2>2 DEF Boots, Tab, Slots
    <2>4. Mount(c, t) => Boots(c, t)'
        BY <2>1, <2>2 DEF Boots, Tab
    <2>5. /\ status' \in [Tabs -> {"new", "loading", "authenticated", "unauthenticated"}]
          /\ \A u \in Tabs : status'[u] = "loading" =>
               status[u] = "loading" \/ (Mount(c, t) /\ u = t)
        <3>1. CASE Mount(c, t)
            <4>1. status' = [status EXCEPT ![t] = "loading"]
                BY <3>1 DEF Mount
            <4> QED BY <3>1, <4>1 DEF WaitInv
        <3>2. CASE UNCHANGED status
            BY <3>2 DEF WaitInv
        <3> QED BY <1>1, <3>1, <3>2 DEF Call, Login
    <2>6. ASSUME NEW d \in Calls, pc'[d] = "waiting" PROVE pc'[Tab(d)'] # "idle"
        <3>1. pc[d] = "waiting" /\ Tab(d)' = Tab(d) /\ Tab(d) \in Tabs /\ pc[Tab(d)] # "idle"
            BY <2>2, <2>6 DEF Slots, Tab, WaitInv, NobodyWaitsInVain, SlotInv, RoutesInv
        <3> QED BY <2>2, <3>1 DEF Slots
    <2> QED BY <2>3, <2>4, <2>5, <2>6 DEF WaitInv, NobodyWaitsInVain, Boots
<1>2. ASSUME NEW c \in Slots, Resume(c) PROVE WaitInv'
    <2>1. /\ pc[c] = "ready" /\ pc'[c] = "sent" /\ UNCHANGED status
          /\ \A d \in Slots \ {c} : pc'[d] = pc[d] /\ call'[d] = call[d]
          /\ call'[c] = [call[c] EXCEPT !.carried = jar] /\ call[c] \in CallRecord
        BY <1>2 DEF Resume, SlotInv, SlotsTyped
    <2> QED BY <2>1, OneSlotWaits DEF CallRecord
<1>3. ASSUME NEW c \in Slots, Serve(c) PROVE WaitInv'
    <2>1. pc[c] = "sent" /\ UNCHANGED status
        BY <1>3 DEF Serve, ServeRefresh, ServeMe, ServeToken, ServeProxy, ServeLogin, ServeLogout,
                    Serves
    <2>2. PICK a, w : Answer(c, a, w)
        BY <1>3, ServeServes DEF Serving
    <2>3. /\ pc'[c] = "answered"
          /\ \A d \in Slots \ {c} : pc'[d] = pc[d] /\ call'[d] = call[d]
          /\ call'[c] = [call[c] EXCEPT !.answer = a, !.cookies = w] /\ call[c] \in CallRecord
        BY <2>2 DEF Answer, SlotInv, SlotsTyped
    <2> QED BY <2>1, <2>3, OneSlotWaits DEF CallRecord
<1>4. ASSUME NEW c \in Slots, Deliver(c) PROVE WaitInv'
    <2>1. call[c].answer \in Answers
        BY DEF SlotInv, SlotsTyped, CallRecord
    <2>2. \E a \in Answers : After(c, a)
        BY <1>4, <2>1 DEF Deliver
    <2> QED BY <1>4, <2>2, AfterWaits DEF Deliver
<1>5. ASSUME NEW c \in Slots, Lose(c) PROVE WaitInv'
    BY <1>5, AfterWaits DEF Lose, Answers
<1>6. ASSUME NEW p, Expire(p) PROVE WaitInv'
    BY <1>6 DEF Expire, WaitInv, NobodyWaitsInVain, Tab
<1>7. CASE UNCHANGED vars
    BY <1>7 DEF vars, WaitInv, NobodyWaitsInVain, Tab
<1> QED BY <1>1, <1>2, <1>3, <1>4, <1>5, <1>6, <1>7 DEF Next

(* For any number of tabs and calls: a call waits for a refresh only while *)
(* the refresh of its tab runs, and a tab is loading only while its        *)
(* bootstrap runs or was lost (refreshSessionPromise of api.ts, the        *)
(* bootstrap of AuthProvider).                                             *)
THEOREM NobodyIsStranded == Spec => []NobodyWaitsInVain
<1>1. Init => WaitInv
    BY SlotsAssumption DEF Init, WaitInv, NobodyWaitsInVain, Slots
<1>2. WaitInv => NobodyWaitsInVain
    BY DEF WaitInv
<1> QED BY <1>1, <1>2, SlotInvInit, SlotInvNext, WaitInvNext, PTL DEF Spec

-----------------------------------------------------------------------------
(* The refresh tokens: where each pair is.                                 *)

\* The refresh cookie an answer under way brings.
Coming(d) == IF pc[d] = "answered" THEN call[d].cookies.refresh ELSE None

Newest(p) == p \in Pairs /\ p.num > 0 /\ p.num = store[p.sess].token

\* The browser has received it: it is neither lost nor under way.
Delivered(p) ==
    p # None => /\ p \in Pairs /\ 0 < p.num /\ p.num <= store[p.sess].token
                /\ p \notin lost /\ \A d \in Slots : Coming(d) # p

Life(s) ==
    /\ store[s].token \in Nat
    /\ store[s] = Backend!Absent <=> store[s].token = 0
    /\ store[s].status = "active" => store[s] = Backend!Active(store[s].token)

Current(p) ==
    LET newest == Pair(p.sess, store[p.sess].token)
    IN  p = newest \/ newest \in lost \/ \E d \in Slots : Coming(d) = newest

PairsInv ==
    /\ DOMAIN store = Sessions /\ \A s \in Sessions : Life(s)
    /\ Delivered(jar.refresh) /\ (jar.refresh # None => Current(jar.refresh))
    /\ \A d \in Slots : Delivered(Carried(d))
    /\ \A x \in presented : x.pair # None /\ Delivered(x.pair)
    /\ \A d \in Slots : Coming(d) \notin {None, Keep} =>
         /\ Newest(Coming(d)) /\ Coming(d) \notin lost
         /\ \A e \in Slots : Coming(e) = Coming(d) => e = d
    /\ \A p \in lost : Newest(p)

\* Only an answer that is under way brings a refresh token; the proxy brings none.
SpentInv ==
    \A d \in Slots : pc[d] \in {"sent", "waiting", "ready"} \/ call[d].route = "proxy" =>
        call[d].cookies.refresh \in {None, Keep}

\* A step that signs nothing and delivers nothing.
LEMMA PairsQuiet ==
    ASSUME PairsInv, UNCHANGED <<jar, lost>>,
           \A x \in presented' : x \in presented \/ (x.pair # None /\ Delivered(x.pair)),
           DOMAIN store' = Sessions, \A s \in Sessions : Life(s)' /\ store'[s].token = store[s].token,
           \A d \in Slots : \/ Coming(d)' = Coming(d)
                            \/ Coming(d) = None /\ Coming(d)' \in {None, Keep},
           \A d \in Slots : Carried(d)' \in {Carried(d), jar.refresh, None}
    PROVE  PairsInv'
<1>1. \A d \in Slots : Coming(d)' \in {Coming(d), None, Keep}
    OBVIOUS
<1>2. ASSUME NEW p, Delivered(p), p # None
      PROVE  /\ p \in Pairs /\ 0 < p.num /\ p.num <= store'[p.sess].token
             /\ p \notin lost' /\ \A d \in Slots : Coming(d)' # p
    <2>1. p \in Pairs /\ p \notin {None, Keep} /\ p.sess \in Sessions
        BY <1>2, KeepAssumption DEF Delivered, Pairs
    <2> QED BY <1>1, <1>2, <2>1 DEF Delivered
<1>3. Delivered(jar.refresh)' /\ \A d \in Slots : Delivered(Carried(d))'
    BY <1>2 DEF PairsInv, Delivered
<1>4. ASSUME NEW x \in presented' PROVE x.pair # None /\ Delivered(x.pair)'
    <2>1. x.pair # None /\ Delivered(x.pair)
        BY <1>4 DEF PairsInv
    <2> QED BY <1>2, <2>1 DEF Delivered
<1>5. \A p : Newest(p) => Newest(p)'
    BY DEF Newest, Pairs
<1>6. ASSUME NEW d \in Slots, Coming(d)' \notin {None, Keep}
      PROVE  /\ Newest(Coming(d))' /\ Coming(d)' \notin lost'
             /\ \A e \in Slots : Coming(e)' = Coming(d)' => e = d
    <2>1. PICK p : p = Coming(d)
        OBVIOUS
    <2>2. Coming(d)' = p /\ Newest(p) /\ p \notin lost
        BY <1>6, <2>1 DEF PairsInv
    <2>3. Newest(Coming(d))'
        BY <1>5, <2>2 DEF Newest
    <2> QED BY <1>1, <1>6, <2>1, <2>2, <2>3 DEF PairsInv
<1>7. jar'.refresh # None => Current(jar.refresh)'
    <2> SUFFICES ASSUME jar.refresh # None PROVE Current(jar.refresh)'
        OBVIOUS
    <2>1. PICK p : p = jar.refresh
        OBVIOUS
    <2>2. PICK q : q = Pair(p.sess, store[p.sess].token)
        OBVIOUS
    <2>3. p \in Pairs /\ p.sess \in Sessions
        BY <2>1 DEF PairsInv, Delivered, Pairs
    <2>4. q \notin {None, Keep}
        BY <2>2, <2>3, KeepAssumption DEF PairsInv, Life, Pair
    <2>5. p = q \/ q \in lost \/ \E d \in Slots : Coming(d) = q
        BY <2>1, <2>2 DEF PairsInv, Current
    <2>6. p = q \/ q \in lost' \/ \E d \in Slots : Coming(d)' = q
        BY <2>4, <2>5
    <2>7. jar'.refresh = p /\ q = Pair(p.sess, store'[p.sess].token)
        BY <2>1, <2>2, <2>3
    <2> QED BY <2>6, <2>7 DEF Current
<1> QED BY <1>3, <1>4, <1>5, <1>6, <1>7 DEF PairsInv

\* A new pair is under way or lost; nothing older of its session is.
LEMMA PairsSign ==
    ASSUME PairsInv, NEW c \in Slots, NEW q \in Pairs, q.num = store[q.sess].token + 1,
           UNCHANGED jar,
           store' = [store EXCEPT ![q.sess] = Backend!Active(q.num)],
           Coming(c) = None,
           \/ Coming(c)' = q /\ lost' = lost
           \/ Coming(c)' \in {None, Keep} /\ lost' = lost \cup {q},
           \A d \in Slots \ {c} : Coming(d)' = Coming(d),
           \A d \in Slots : Carried(d)' = Carried(d),
           \A x \in presented' : x \in presented \/ (x.pair = Carried(c) /\ Carried(c) # None),
           \A p \in lost : p.sess # q.sess,
           \A d \in Slots : Coming(d) \in Pairs => Coming(d).sess # q.sess
    PROVE  PairsInv'
<1>0. q \notin {None, Keep} /\ q.sess \in Sessions /\ q.num \in Nat /\ q.num > 0
    BY KeepAssumption DEF Pairs, PairsInv, Life
<1>1. /\ DOMAIN store' = Sessions /\ store'[q.sess].token = q.num
      /\ \A s \in Sessions \ {q.sess} : store'[s] = store[s]
      /\ \A s \in Sessions : Life(s)'
    <2>1. /\ DOMAIN store' = Sessions /\ store'[q.sess] = Backend!Active(q.num)
          /\ \A s \in Sessions \ {q.sess} : store'[s] = store[s]
        BY <1>0 DEF PairsInv
    <2>2. Life(q.sess)'
        BY <1>0, <2>1 DEF Life, Backend!Active, Backend!Absent
    <2> QED BY <2>1, <2>2 DEF PairsInv, Life, Backend!Active
<1>2. ASSUME NEW p, Delivered(p), p # None
      PROVE  /\ p \in Pairs /\ 0 < p.num /\ p.num <= store'[p.sess].token
             /\ p \notin lost' /\ \A d \in Slots : Coming(d)' # p
    <2>1. /\ p \in Pairs /\ p \notin {None, Keep} /\ p.sess \in Sessions
          /\ 0 < p.num /\ p.num <= store[p.sess].token /\ p.num \in Nat
        BY <1>2, KeepAssumption DEF Delivered, Pairs
    <2>2. p # q /\ p.num <= store'[p.sess].token
        BY <1>0, <1>1, <2>1 DEF PairsInv, Life
    <2> QED BY <1>2, <2>1, <2>2 DEF Delivered
<1>3. Delivered(jar.refresh)' /\ \A d \in Slots : Delivered(Carried(d))'
    BY <1>2 DEF PairsInv, Delivered
<1>4. ASSUME NEW x \in presented' PROVE x.pair # None /\ Delivered(x.pair)'
    <2>1. x.pair # None /\ Delivered(x.pair)
        BY <1>4 DEF PairsInv
    <2> QED BY <1>2, <2>1 DEF Delivered
<1>5. /\ \A p : Newest(p) /\ p.sess # q.sess => Newest(p)'
      /\ Newest(q)'
    BY <1>0, <1>1 DEF Newest, Pairs
<1>6. ASSUME NEW d \in Slots, Coming(d)' \notin {None, Keep}
      PROVE  /\ Newest(Coming(d))' /\ Coming(d)' \notin lost'
             /\ \A e \in Slots : Coming(e)' = Coming(d)' => e = d
    <2>1. CASE d = c
        <3>1. Coming(c)' = q /\ lost' = lost /\ q \notin lost
            BY <1>6, <2>1
        <3>2. \A e \in Slots \ {c} : Coming(e)' # q
            OBVIOUS
        <3>3. Newest(Coming(c))'
            BY <3>1, <1>5 DEF Newest
        <3> QED BY <2>1, <3>1, <3>2, <3>3
    <2>2. CASE d # c
        <3>1. PICK p : p = Coming(d)
            OBVIOUS
        <3>2. /\ Coming(d)' = p /\ Newest(p) /\ p \notin lost /\ p \in Pairs /\ p.sess # q.sess
              /\ \A e \in Slots : Coming(e) = p => e = d
            BY <1>6, <2>2, <3>1 DEF PairsInv, Newest
        <3>3. Newest(Coming(d))'
            BY <1>5, <3>2 DEF Newest
        <3>4. p \notin lost' /\ p # Coming(c)'
            BY <1>6, <3>2
        <3>5. \A e \in Slots : Coming(e)' = p => e = d
            BY <3>2, <3>4
        <3> QED BY <3>2, <3>3, <3>4, <3>5
    <2> QED BY <2>1, <2>2
<1>7. jar'.refresh # None => Current(jar.refresh)'
    <2> SUFFICES ASSUME jar.refresh # None PROVE Current(jar.refresh)'
        OBVIOUS
    <2>1. PICK p : p = jar.refresh
        OBVIOUS
    <2>2. p \in Pairs /\ p.sess \in Sessions
        BY <2>1 DEF PairsInv, Delivered, Pairs
    <2>3. CASE p.sess = q.sess
        <3>1. q = Pair(p.sess, store'[p.sess].token)
            BY <1>1, <2>3 DEF Pair, Pairs
        <3>2. q \in lost' \/ Coming(c)' = q
            OBVIOUS
        <3> QED BY <2>1, <3>1, <3>2 DEF Current
    <2>4. CASE p.sess # q.sess
        <3>1. PICK r : r = Pair(p.sess, store[p.sess].token)
            OBVIOUS
        <3>2. r \notin {None, Keep} /\ r = Pair(p.sess, store'[p.sess].token)
            BY <1>1, <2>2, <2>4, <3>1, KeepAssumption DEF PairsInv, Life, Pair
        <3>3. p = r \/ r \in lost \/ \E d \in Slots : Coming(d) = r
            BY <2>1, <3>1 DEF PairsInv, Current
        <3>4. p = r \/ r \in lost' \/ \E d \in Slots : Coming(d)' = r
            BY <3>2, <3>3
        <3> QED BY <2>1, <3>2, <3>4 DEF Current
    <2> QED BY <2>3, <2>4
<1>8. \A p \in lost' : Newest(p)'
    BY <1>5 DEF PairsInv
<1> QED BY <1>1, <1>3, <1>4, <1>6, <1>7, <1>8 DEF PairsInv

\* An answer is delivered or lost: its pair, if it brings one, arrives in the
\* jar or is lost.
LEMMA PairsArrive ==
    ASSUME PairsInv, NEW c \in Slots, UNCHANGED <<store, presented>>,
           \/ lost' = lost /\ jar'.refresh = Written(jar.refresh, Coming(c))
           \/ jar' = jar /\ lost' = lost \cup ({Coming(c)} \ {None, Keep}),
           Coming(c)' = None,
           \A d \in Slots \ {c} : Coming(d)' = Coming(d),
           \A d \in Slots : Carried(d)' \in {Carried(d), None}
    PROVE  PairsInv'
<1>1. PICK q : q = Coming(c)
    OBVIOUS
<1>2. q \in {None, Keep} \/ (Newest(q) /\ q \notin lost /\ \A d \in Slots \ {c} : Coming(d) # q)
    BY <1>1 DEF PairsInv
<1>3. ASSUME NEW p, Delivered(p), p # None
      PROVE  /\ p \in Pairs /\ 0 < p.num /\ p.num <= store'[p.sess].token
             /\ p \notin lost' /\ \A d \in Slots : Coming(d)' # p
    BY <1>1, <1>3 DEF Delivered
<1>4. jar'.refresh = jar.refresh \/ (jar'.refresh = q /\ q # Keep /\ lost' = lost)
    BY <1>1 DEF Written
<1>5. Delivered(jar.refresh)'
    <2>1. CASE jar'.refresh = jar.refresh
        BY <1>3, <2>1 DEF PairsInv, Delivered
    <2>2. CASE jar'.refresh = q /\ q # Keep /\ lost' = lost
        <3>1. q # None => \A d \in Slots : Coming(d)' # q
            BY <1>2, <2>2
        <3>2. q # None => q \in Pairs /\ 0 < q.num /\ q.num <= store[q.sess].token /\ q \notin lost
            BY <1>2, <2>2 DEF Newest, Pairs
        <3> QED BY <2>2, <3>1, <3>2 DEF Delivered
    <2> QED BY <1>4, <2>1, <2>2
<1>6. \A d \in Slots : Delivered(Carried(d))'
    BY <1>3 DEF PairsInv, Delivered
<1>7. \A x \in presented' : x.pair # None /\ Delivered(x.pair)'
    BY <1>3 DEF PairsInv, Delivered
<1>8. \A p \in lost' : Newest(p)'
    BY <1>1, <1>2 DEF PairsInv, Newest
<1>9. ASSUME NEW d \in Slots, Coming(d)' \notin {None, Keep}
      PROVE  /\ Newest(Coming(d))' /\ Coming(d)' \notin lost'
             /\ \A e \in Slots : Coming(e)' = Coming(d)' => e = d
    <2>1. PICK p : p = Coming(d)
        OBVIOUS
    <2>2. /\ d # c /\ Coming(d)' = p /\ Newest(p) /\ p \notin lost /\ p # q
          /\ \A e \in Slots : Coming(e) = p => e = d
        BY <1>1, <1>9, <2>1 DEF PairsInv
    <2>3. Newest(Coming(d))'
        BY <2>2 DEF Newest
    <2> QED BY <1>1, <1>9, <2>2, <2>3
<1>10. jar'.refresh # None => Current(jar.refresh)'
    <2>1. CASE jar'.refresh = jar.refresh /\ jar.refresh # None
        <3>1. PICK p, r : p = jar.refresh /\ r = Pair(p.sess, store[p.sess].token)
            OBVIOUS
        <3>2. p \in Pairs /\ r \notin {None, Keep}
            BY <2>1, <3>1, KeepAssumption DEF PairsInv, Delivered, Life, Pair, Pairs
        <3>3. p = r \/ r \in lost \/ \E d \in Slots : Coming(d) = r
            BY <2>1, <3>1 DEF PairsInv, Current
        <3>4. p = r \/ r \in lost' \/ \E d \in Slots : Coming(d)' = r
            \* If r was the pair that arrives, the jar holds it now, or it is lost.
            BY <1>1, <1>4, <2>1, <3>1, <3>2, <3>3 DEF Written
        <3> QED BY <2>1, <3>1, <3>4 DEF Current
    <2>2. CASE jar'.refresh = q /\ q # Keep /\ q # None
        BY <1>2, <2>2 DEF Current, Newest, Pair, Pairs
    <2> QED BY <1>4, <2>1, <2>2
<1> QED BY <1>5, <1>6, <1>7, <1>8, <1>9, <1>10 DEF PairsInv, Life

LEMMA AfterObserved ==
    ASSUME SlotInv, SpentInv, NEW c \in Slots, pc[c] \in {"sent", "answered"},
           NEW a \in Answers, After(c, a)
    PROVE  /\ Coming(c)' = None /\ \A d \in Slots \ {c} : Coming(d)' = Coming(d)
           /\ \A d \in Slots : Carried(d)' \in {Carried(d), None}
           /\ SpentInv'
<1>1. \A d \in Slots : AfterSlot(c, d, a)
    BY AfterSlots DEF SlotInv
<1>2. ASSUME NEW d \in Slots
      PROVE  /\ Coming(d)' = IF d = c THEN None ELSE Coming(d)
             /\ Carried(d)' \in {Carried(d), None}
             /\ pc'[d] \in {"sent", "waiting", "ready"} \/ call'[d].route = "proxy" =>
                  call'[d].cookies.refresh \in {None, Keep}
    <2>1. /\ call[d] \in CallRecord
          /\ pc[d] \in {"sent", "waiting", "ready"} \/ call[d].route = "proxy" =>
               call[d].cookies.refresh \in {None, Keep}
        BY DEF SlotInv, SlotsTyped, SpentInv
    <2>2. CASE Stays(d) /\ d # c
        BY <2>1, <2>2 DEF Stays, Coming, Carried
    <2>3. CASE d = c /\ (Finished(d, a) \/ Ended(d) \/ Waits(d) \/ LogsOut(d))
        BY <2>1, <2>3 DEF Finished, Ended, Waits, LogsOut, Coming, Carried, CallRecord
    <2>4. CASE d # c /\ Starts(d)
        BY <2>4 DEF Starts, Coming, Carried, Idle, NoCookies, Untouched
    <2>5. CASE d = c /\ Settles(d)
        BY <2>5 DEF Settles, Coming, Carried, Idle, NoCookies, Untouched
    <2>6. CASE d # c /\ Woken(d)
        <3>1. /\ pc[d] = "waiting" /\ pc'[d] \in {"ready", "done"}
              /\ call'[d].carried = call[d].carried /\ call'[d].cookies = call[d].cookies
            BY <2>1, <2>6 DEF Woken, CallRecord
        <3> QED BY <2>1, <2>6, <3>1 DEF Coming, Carried
    <2> QED BY <1>1, <2>2, <2>3, <2>4, <2>5, <2>6 DEF AfterSlot
<1> QED BY <1>2 DEF SpentInv

\* A signed-in session is new: none of its pairs is anywhere.
LEMMA ServePairs ==
    ASSUME SlotInv, PairsInv, NEW c \in Slots, pc[c] = "sent", UNCHANGED jar, Serving(c)
    PROVE  PairsInv'
<1>1. PICK a \in Answers, w \in SetCookie : Answer(c, a, w) /\ ServeEffect(c, w)
    BY DEF Serving
<1>2. /\ Coming(c) = None /\ Coming(c)' = w.refresh
      /\ \A d \in Slots \ {c} : Coming(d)' = Coming(d)
      /\ \A d \in Slots : Carried(d)' = Carried(d)
    <2>1. /\ pc' = [pc EXCEPT ![c] = "answered"] /\ call[c] \in CallRecord
          /\ call' = [call EXCEPT ![c] = [call[c] EXCEPT !.answer = a, !.cookies = w]]
        BY <1>1 DEF Answer, SlotInv, SlotsTyped
    <2>2. /\ pc'[c] = "answered" /\ call'[c] = [call[c] EXCEPT !.answer = a, !.cookies = w]
          /\ \A d \in Slots \ {c} : pc'[d] = pc[d] /\ call'[d] = call[d]
        BY <2>1 DEF SlotInv, SlotsTyped
    <2>3. call'[c].cookies = w /\ call'[c].carried = call[c].carried
        <3>1. PICK r \in CallRecord : r = call[c]
            BY <2>1
        <3>2. [r EXCEPT !.answer = a, !.cookies = w].cookies = w
              /\ [r EXCEPT !.answer = a, !.cookies = w].carried = r.carried
            BY DEF CallRecord
        <3> QED BY <2>2, <3>1, <3>2
    <2> QED BY <2>2, <2>3 DEF Coming, Carried
<1>3. /\ DOMAIN store = Sessions
      /\ \A p \in lost : Newest(p)
      /\ \A d \in Slots : Coming(d) \in Pairs => Newest(Coming(d))
    BY KeepAssumption DEF PairsInv, Pairs
<1>4. CASE w.refresh \in {None, Keep} /\ UNCHANGED <<store, lost, presented>>
    <2>1. DOMAIN store' = Sessions /\ \A s \in Sessions : Life(s)' /\ store'[s].token = store[s].token
        BY <1>4 DEF PairsInv, Life
    <2> QED BY <1>2, <1>4, <2>1, PairsQuiet
<1>5. CASE SignsIn(w)
    <2>1. PICK s \in Sessions : /\ store[s] = Backend!Absent
                                /\ store' = [store EXCEPT ![s] = Backend!Active(1)]
                                /\ Signs(Pair(s, 1), w)
        BY <1>5 DEF SignsIn
    <2>2. PICK q \in Pairs : q = Pair(s, 1)
        BY CookieTypes
    <2>3. /\ q.sess = s /\ q.num = 1 /\ store[s].token = 0
          /\ q.num = store[q.sess].token + 1
          /\ store' = [store EXCEPT ![q.sess] = Backend!Active(q.num)]
        BY <2>1, <2>2 DEF Pair, Backend!Absent
    <2>4. /\ \A p \in lost : p.sess # s
          /\ \A d \in Slots : Coming(d) \in Pairs => Coming(d).sess # s
        BY <1>3, <2>3 DEF Newest
    <2>5. \/ Coming(c)' = q /\ lost' = lost
          \/ Coming(c)' \in {None, Keep} /\ lost' = lost \cup {q}
        BY <1>2, <2>1, <2>2 DEF Signs
    <2>6. \A x \in presented' : x \in presented \/ (x.pair = Carried(c) /\ Carried(c) # None)
        BY <1>5 DEF SignsIn
    <2> QED BY <1>2, <2>3, <2>4, <2>5, <2>6, PairsSign
<1>6. CASE LogsOff(Carried(c), w)
    <2>1. PICK p \in Pairs : p = Carried(c)
        BY <1>6 DEF LogsOff
    <2>2. /\ Live(p) /\ w.refresh = None /\ lost' = lost /\ presented' = presented
          /\ store' = [store EXCEPT ![p.sess] = Backend!Revoked(@.token, "logout")]
        BY <1>6, <2>1 DEF LogsOff
    <2>3. DOMAIN store' = Sessions /\ \A s \in Sessions : Life(s)' /\ store'[s].token = store[s].token
        BY <2>2 DEF Live, PairsInv, Life, Backend!Revoked, Backend!Absent, Pairs
    <2> QED BY <1>2, <2>2, <2>3, PairsQuiet
<1>7. CASE Presents(c, Carried(c), w)
    <2>1. PICK p \in Pairs : p = Carried(c)
        BY <1>7 DEF Presents
    <2>2. /\ presented' = presented \cup {[who |-> c, pair |-> p]}
          /\ p.sess \in Sessions /\ p.num \in Nat /\ p \notin {None, Keep}
          /\ p \notin lost /\ \A d \in Slots : Coming(d) # p
        BY <1>7, <2>1, KeepAssumption DEF Presents, PairsInv, Delivered, Pairs
    <2>3. CASE /\ Accepted(p) /\ Signs(Successor(p), w)
               /\ store' = [store EXCEPT ![p.sess] = Backend!Active(p.num + 1)]
        <3>1. PICK q \in Pairs : q = Successor(p) /\ q.sess = p.sess /\ q.num = p.num + 1
            BY CookieTypes DEF Successor, Pair
        <3>2. store[p.sess].token = p.num
            BY <2>3 DEF Accepted, Backend!Active
        <3>3. /\ \A r \in lost : r.sess # q.sess
              /\ \A d \in Slots : Coming(d) \in Pairs => Coming(d).sess # q.sess
            \* The only pair of the session that could be there is p.
            BY <1>3, <2>2, <3>1, <3>2 DEF Newest, Pairs
        <3>4. \/ Coming(c)' = q /\ lost' = lost
              \/ Coming(c)' \in {None, Keep} /\ lost' = lost \cup {q}
            BY <1>2, <2>3, <3>1 DEF Signs
        <3>5. \A x \in presented' : x \in presented \/ (x.pair = Carried(c) /\ Carried(c) # None)
            BY <2>1, <2>2
        <3> QED BY <1>2, <2>3, <3>1, <3>2, <3>3, <3>4, <3>5, PairsSign
    <2>4. ASSUME w.refresh = None, lost' = lost, DOMAIN store' = Sessions,
                 \A s \in Sessions : Life(s)' /\ store'[s].token = store[s].token
          PROVE  PairsInv'
        <3>1. Delivered(p)
            BY <2>1 DEF PairsInv
        <3>2. \A x \in presented' : x \in presented \/ (x.pair # None /\ Delivered(x.pair))
            BY <2>2, <3>1
        <3> QED BY <1>2, <2>4, <3>2, PairsQuiet
    <2>5. CASE /\ Live(p) /\ ~Accepted(p) /\ w.refresh = None /\ lost' = lost
               /\ store' = [store EXCEPT ![p.sess] = Backend!Revoked(@.token, "refresh_token_reuse")]
        <3>1. DOMAIN store' = Sessions /\ \A s \in Sessions : Life(s)' /\ store'[s].token = store[s].token
            BY <2>5 DEF Live, PairsInv, Life, Backend!Revoked, Backend!Absent, Pairs
        <3> QED BY <2>4, <2>5, <3>1
    <2>6. CASE ~Live(p) /\ w.refresh = None /\ UNCHANGED <<store, lost>>
        <3>1. DOMAIN store' = Sessions /\ \A s \in Sessions : Life(s)' /\ store'[s].token = store[s].token
            BY <2>6 DEF PairsInv, Life
        <3> QED BY <2>4, <2>6, <3>1
    <2> QED BY <1>7, <2>1, <2>3, <2>5, <2>6 DEF Presents
<1> QED BY <1>1, <1>4, <1>5, <1>6, <1>7 DEF ServeEffect

\* The answer to a served request, as the slots see it.
LEMMA ServedSlots ==
    ASSUME SlotInv, NEW c \in Slots, NEW a \in Answers, NEW w \in SetCookie, Answer(c, a, w)
    PROVE  /\ pc'[c] = "answered" /\ call'[c].cookies = w /\ call'[c].route = call[c].route
           /\ \A d \in Slots \ {c} : pc'[d] = pc[d] /\ call'[d] = call[d]
<1>1. PICK r \in CallRecord : r = call[c]
    BY DEF SlotInv, SlotsTyped
<1>2. /\ [r EXCEPT !.answer = a, !.cookies = w].cookies = w
      /\ [r EXCEPT !.answer = a, !.cookies = w].route = r.route
    BY DEF CallRecord
<1>3. /\ pc'[c] = "answered" /\ call'[c] = [r EXCEPT !.answer = a, !.cookies = w]
      /\ \A d \in Slots \ {c} : pc'[d] = pc[d] /\ call'[d] = call[d]
    BY <1>1 DEF Answer, SlotInv, SlotsTyped
<1> QED BY <1>1, <1>2, <1>3

LEMMA PairsInvInit == Init => SpentInv /\ PairsInv
<1> SUFFICES ASSUME Init PROVE SpentInv /\ PairsInv
    OBVIOUS
<1>1. \A c \in Slots : /\ pc[c] = "idle" /\ Coming(c) = None /\ Carried(c) = None
                       /\ call[c].cookies.refresh = Keep
    BY DEF Init, Coming, Carried, Idle, NoCookies, Untouched
<1>2. SpentInv
    BY <1>1 DEF SpentInv
<1>3. PICK s \in Sessions, signedIn \in BOOLEAN :
        /\ store = [q \in Sessions |-> IF signedIn /\ q = s THEN Backend!Active(1)
                                                          ELSE Backend!Absent]
        /\ jar = IF signedIn THEN Both(Pair(s, 1)) ELSE NoCookies
    BY DEF Init
<1>4. DOMAIN store = Sessions /\ \A q \in Sessions : Life(q)
    BY <1>3 DEF Life, Backend!Active, Backend!Absent
<1>5. lost = {} /\ presented = {}
    BY DEF Init
<1>6. Delivered(jar.refresh) /\ (jar.refresh # None => Current(jar.refresh))
    <2>1. CASE signedIn
        <3>1. jar.refresh = Pair(s, 1) /\ store[s].token = 1
            BY <1>3, <2>1 DEF Both, Backend!Active
        <3>2. Pair(s, 1) \in Pairs /\ Pair(s, 1) # None /\ Pair(s, 1).sess = s /\ Pair(s, 1).num = 1
            BY KeepAssumption DEF Pair, Pairs
        <3> QED BY <1>1, <1>5, <3>1, <3>2 DEF Delivered, Current
    <2>2. CASE ~signedIn
        BY <1>3, <2>2 DEF NoCookies, Delivered
    <2> QED BY <2>1, <2>2
<1>7. \A d \in Slots : Delivered(Carried(d))
    BY <1>1 DEF Delivered
<1> QED BY <1>1, <1>2, <1>4, <1>5, <1>6, <1>7 DEF PairsInv

LEMMA PairsInvNext ==
    SlotInv /\ SpentInv /\ PairsInv /\ [Next]_vars => SpentInv' /\ PairsInv'
<1> SUFFICES ASSUME SlotInv, SpentInv, PairsInv, [Next]_vars PROVE SpentInv' /\ PairsInv'
    OBVIOUS
<1> DEFINE Lives == /\ DOMAIN store' = Sessions
                    /\ \A s \in Sessions : Life(s)' /\ store'[s].token = store[s].token
<1>0. UNCHANGED store => Lives
    BY DEF PairsInv, Life
<1>1. ASSUME NEW c \in Calls, NEW t \in Tabs, Mount(c, t) \/ Call(c, t) \/ Login(c, t)
      PROVE  SpentInv' /\ PairsInv'
    <2>1. /\ UNCHANGED <<store, jar, lost, presented>>
          /\ \E kind, route : Leaves(c, kind, t, route)
        BY <1>1 DEF Mount, Call, Login, backend, history
    <2>2. /\ pc[c] = "idle" /\ pc'[c] = "sent" /\ call'[c].carried = jar
          /\ call'[c].cookies.refresh = Keep
          /\ \A d \in Slots \ {c} : pc'[d] = pc[d] /\ call'[d] = call[d]
        BY <2>1 DEF Leaves, Idle, Untouched, SlotInv, SlotsTyped, Slots
    <2>3. SpentInv'
        BY <2>2 DEF SpentInv
    <2>4. \A d \in Slots : Coming(d)' = Coming(d) /\ Carried(d)' \in {Carried(d), jar.refresh}
        BY <2>2 DEF Coming, Carried
    <2> QED BY <1>0, <2>1, <2>3, <2>4, PairsQuiet
<1>2. ASSUME NEW c \in Slots, Resume(c) PROVE SpentInv' /\ PairsInv'
    <2>1. /\ pc[c] = "ready" /\ pc'[c] = "sent" /\ UNCHANGED <<store, jar, lost, presented>>
          /\ \A d \in Slots \ {c} : pc'[d] = pc[d] /\ call'[d] = call[d]
          /\ call'[c] = [call[c] EXCEPT !.carried = jar] /\ call[c] \in CallRecord
        BY <1>2 DEF Resume, SlotInv, SlotsTyped, backend, history
    <2>2. call'[c].carried = jar /\ call'[c].cookies = call[c].cookies
        BY <2>1 DEF CallRecord
    <2>3. SpentInv'
        BY <2>1, <2>2 DEF SpentInv
    <2>4. \A d \in Slots : Coming(d)' = Coming(d) /\ Carried(d)' \in {Carried(d), jar.refresh}
        BY <2>1, <2>2 DEF Coming, Carried
    <2> QED BY <1>0, <2>1, <2>3, <2>4, PairsQuiet
<1>3. ASSUME NEW c \in Slots, Serve(c) PROVE SpentInv' /\ PairsInv'
    <2>1. pc[c] = "sent" /\ UNCHANGED jar
        BY <1>3 DEF Serve, ServeRefresh, ServeMe, ServeToken, ServeProxy, ServeLogin, ServeLogout,
                    Serves
    <2>2. Serving(c)
        BY <1>3, ServeServes
    <2>3. PICK a \in Answers, w \in SetCookie : Answer(c, a, w) /\ ServeEffect(c, w)
        BY <2>2 DEF Serving
    <2>4. call[c].route = "proxy" => w.refresh \in {None, Keep}
        BY <2>3 DEF ServeEffect, LogsOff, Presents
    <2>5. /\ pc'[c] = "answered" /\ call'[c].cookies = w /\ call'[c].route = call[c].route
          /\ \A d \in Slots \ {c} : pc'[d] = pc[d] /\ call'[d] = call[d]
        BY <2>3, ServedSlots
    <2>6. SpentInv'
        BY <2>4, <2>5 DEF SpentInv
    <2> QED BY <2>1, <2>2, <2>6, ServePairs
<1>4. ASSUME NEW c \in Slots, Deliver(c) PROVE SpentInv' /\ PairsInv'
    <2>1. call[c].answer \in Answers
        BY DEF SlotInv, SlotsTyped, CallRecord
    <2>2. /\ pc[c] = "answered" /\ UNCHANGED <<store, lost, presented>>
          /\ \E a \in Answers : After(c, a)
          /\ jar'.refresh = Written(jar.refresh, Coming(c))
        BY <1>4, <2>1 DEF Deliver, backend, history, Coming
    <2> QED BY <2>2, AfterObserved, PairsArrive
<1>5. ASSUME NEW c \in Slots, Lose(c) PROVE SpentInv' /\ PairsInv'
    <2>1. /\ pc[c] \in {"sent", "answered"} /\ UNCHANGED <<store, jar, presented>>
          /\ \E a \in Answers : After(c, a)
        BY <1>5 DEF Lose, backend, Answers
    <2>2. lost' = lost \cup ({Coming(c)} \ {None, Keep})
        BY <1>5, <2>1 DEF Lose, SpentInv, Coming
    <2> QED BY <2>1, <2>2, AfterObserved, PairsArrive
<1>6. CASE UNCHANGED <<store, jar, lost, presented, pc, call>>
    <2>1. \A d \in Slots : Coming(d)' = Coming(d) /\ Carried(d)' = Carried(d)
        BY <1>6 DEF Coming, Carried
    <2> QED BY <1>0, <1>6, <2>1, PairsQuiet DEF SpentInv
<1>7. (UNCHANGED vars \/ \E p : Expire(p)) => UNCHANGED <<store, jar, lost, presented, pc, call>>
    BY DEF vars, Expire, backend, history
<1> QED BY <1>1, <1>2, <1>3, <1>4, <1>5, <1>6, <1>7 DEF Next

(* For any number of tabs, calls, sessions and lost messages: the refresh  *)
(* cookie of the browser is the newest token of its session, or the newest *)
(* one is on its way or was lost (the cookies every route handler sets).   *)
THEOREM RefreshCookieIsCurrent == Spec => []CookieIsCurrent
<1>1. PairsInv => CookieIsCurrent
    <2> SUFFICES ASSUME PairsInv, NEW s \in Sessions, NEW n \in 1..store[s].token,
                        jar.refresh = Pair(s, n), n # store[s].token
                 PROVE  \/ Pair(s, store[s].token) \in lost
                        \/ \E c \in Slots : /\ pc[c] = "answered"
                                            /\ call[c].cookies.refresh = Pair(s, store[s].token)
        BY DEF CookieIsCurrent
    <2>1. PICK q : q = Pair(s, store[s].token)
        OBVIOUS
    <2>2. store[s].token \in Nat
        BY DEF PairsInv, Life
    <2>3. jar.refresh # None /\ jar.refresh.sess = s /\ jar.refresh # q /\ q # None
        BY <2>1, <2>2, KeepAssumption DEF Pair
    <2>4. q \in lost \/ \E c \in Slots : Coming(c) = q
        BY <2>1, <2>3 DEF PairsInv, Current
    <2> QED BY <2>1, <2>3, <2>4 DEF Coming
<1> QED BY <1>1, SlotInvInit, SlotInvNext, PairsInvInit, PairsInvNext, PTL DEF Spec

-----------------------------------------------------------------------------
(* Reuse has a cause.                                                      *)

\* A session that a repeated token does not end, or whose end is explained.
Harmless(s) == store[s].status # "active" \/ \E p \in lost : p.sess = s

\* Every token before the newest was presented; a call presents once; a tab
\* does not present the token again that it presented before.
ReuseInv ==
    /\ \A x \in presented : x.who \in Slots /\ x.pair \in Pairs
    /\ \A s \in Sessions, n \in Nat :
         0 < n /\ n < store[s].token => \E x \in presented : x.pair = Pair(s, n)
    /\ \A x \in presented : x.who \in Calls =>
         pc[x.who] \in {"answered", "done"} /\ call[x.who].route \in {"me", "token"}
    /\ \A x \in presented : x.who \in Tabs /\ ~Harmless(x.pair.sess) =>
         /\ jar.refresh = x.pair => Coming(x.who) = Successor(x.pair)
         /\ pc[x.who] = "sent" => Carried(x.who) # x.pair
    /\ ReuseHasCause

\* A step that presents nothing.
LEMMA ReuseQuiet ==
    ASSUME ReuseInv, UNCHANGED <<store, presented>>, lost \subseteq lost',
           \A x \in presented : x.who \in Calls =>
             pc'[x.who] \in {"answered", "done"} /\ call'[x.who].route \in {"me", "token"},
           \A x \in presented : x.who \in Tabs /\ ~Harmless(x.pair.sess)' =>
             /\ jar'.refresh = x.pair => Coming(x.who)' = Successor(x.pair)
             /\ pc'[x.who] = "sent" => Carried(x.who)' # x.pair
    PROVE  ReuseInv'
<1>1. ReuseHasCause'
    BY DEF ReuseInv, ReuseHasCause
<1>2. \A x \in presented' : x.who \in Tabs /\ ~Harmless(x.pair.sess)' =>
         /\ jar'.refresh = x.pair => Coming(x.who)' = Successor(x.pair)
         /\ pc'[x.who] = "sent" => Carried(x.who)' # x.pair
    OBVIOUS
<1>3. \A x \in presented' : x.who \in Slots /\ x.pair \in Pairs
    BY DEF ReuseInv
<1>4. \A s \in Sessions, n \in Nat :
        0 < n /\ n < store'[s].token => \E x \in presented' : x.pair = Pair(s, n)
    BY DEF ReuseInv
<1> QED BY <1>1, <1>2, <1>3, <1>4 DEF ReuseInv, Harmless, Successor, Coming, Carried

LEMMA AfterReuse ==
    ASSUME SlotInv, PairsInv, ReuseInv, NEW c \in Slots, pc[c] \in {"sent", "answered"},
           NEW a \in Answers, After(c, a), UNCHANGED <<store, presented>>,
           \/ pc[c] = "answered" /\ lost' = lost /\ jar'.refresh = Written(jar.refresh, Coming(c))
           \/ jar' = jar /\ lost' = lost \cup ({Coming(c)} \ {None, Keep})
    PROVE  ReuseInv'
<1>1. \A d \in Slots : AfterSlot(c, d, a)
    BY AfterSlots DEF SlotInv
<1>2. ASSUME NEW x \in presented, x.who \in Calls
      PROVE  pc'[x.who] \in {"answered", "done"} /\ call'[x.who].route \in {"me", "token"}
    <2>1. PICK d \in Calls : d = x.who
        BY <1>2
    <2>2. /\ d \in Slots /\ d \notin Tabs /\ call[d] \in CallRecord
          /\ pc[d] \in {"answered", "done"} /\ call[d].route \in {"me", "token"}
        BY <2>1, SlotsAssumption DEF ReuseInv, SlotInv, SlotsTyped, Slots
    <2>3. Stays(d) \/ Finished(d, a) \/ Ended(d)
        BY <1>1, <2>2 DEF AfterSlot, Waits, LogsOut, Woken
    <2>4. pc'[d] \in {"answered", "done"} /\ call'[d].route = call[d].route
        BY <2>2, <2>3 DEF Stays, Finished, Ended, CallRecord
    <2> QED BY <2>1, <2>2, <2>4
<1>3. ASSUME NEW x \in presented, x.who \in Tabs, ~Harmless(x.pair.sess)'
      PROVE  /\ jar'.refresh = x.pair => Coming(x.who)' = Successor(x.pair)
             /\ pc'[x.who] = "sent" => Carried(x.who)' # x.pair
    <2>1. PICK t \in Tabs, p \in Pairs : t = x.who /\ p = x.pair
        BY <1>3 DEF ReuseInv
    <2>2. /\ t \in Slots /\ t \notin Calls /\ p \notin {None, Keep} /\ Successor(p) \in Pairs
          /\ Successor(p) \notin {None, Keep} /\ Successor(p).sess = p.sess
        BY SlotsAssumption, KeepAssumption, CookieTypes DEF Slots, Pairs, Successor, Pair
    <2>3. /\ jar.refresh = p => Coming(t) = Successor(p)
          /\ pc[t] = "sent" => Carried(t) # p
        BY <1>3, <2>1 DEF ReuseInv, Harmless
    <2>4. \A d \in Slots : Coming(d) # p
        BY <2>1, <2>2 DEF PairsInv, Delivered
    <2>5. jar'.refresh = p => jar.refresh = p
        BY <2>2, <2>4 DEF Written
    <2>6. CASE t # c
        <3>1. Stays(t) \/ Starts(t)
            BY <1>1, <2>2, <2>6 DEF AfterSlot
        <3>2. CASE Stays(t)
            <4>1. Coming(t)' = Coming(t) /\ Carried(t)' = Carried(t) /\ pc'[t] = pc[t]
                BY <3>2 DEF Stays, Coming, Carried
            <4> QED BY <2>1, <2>3, <2>5, <4>1 DEF Coming, Carried
        <3>3. CASE Starts(t)
            <4>1. pc'[t] = "ready" /\ Coming(t) = None
                BY <3>3 DEF Starts, Coming
            <4> QED BY <2>1, <2>2, <2>3, <2>5, <4>1
        <3> QED BY <3>1, <3>2, <3>3
    <2>7. CASE t = c
        <3>1. pc'[t] = "idle"
            BY <1>1, <2>2, <2>7 DEF AfterSlot, Settles
        <3>2. jar'.refresh # p
            <4>1. SUFFICES ASSUME jar'.refresh = p PROVE FALSE
                OBVIOUS
            <4>2. Coming(c) = Successor(p)
                BY <2>3, <2>5, <2>7, <4>1
            <4>3. CASE jar'.refresh = Written(jar.refresh, Coming(c))
                BY <2>2, <2>4, <4>1, <4>2, <4>3 DEF Written
            <4>4. CASE lost' = lost \cup ({Coming(c)} \ {None, Keep})
                BY <1>3, <2>1, <2>2, <4>2, <4>4 DEF Harmless
            <4> QED BY <4>3, <4>4
        <3> QED BY <2>1, <3>1, <3>2
    <2> QED BY <2>6, <2>7
<1>4. lost \subseteq lost'
    OBVIOUS
<1> QED BY <1>2, <1>3, <1>4, ReuseQuiet

\* A request that presents no token.
LEMMA ServeReuseQuiet ==
    ASSUME SlotInv, PairsInv, ReuseInv, NEW c \in Slots, pc[c] = "sent", UNCHANGED jar,
           pc'[c] = "answered",
           \A d \in Slots \ {c} : pc'[d] = pc[d] /\ call'[d] = call[d],
           presented' = presented, lost \subseteq lost',
           \A s \in Sessions :
             \/ store'[s] = store[s]
             \/ store[s] = Backend!Absent /\ store'[s] = Backend!Active(1)
             \/ store'[s] = Backend!Revoked(store[s].token, "logout")
    PROVE  ReuseInv'
<1>0. ASSUME NEW s \in Sessions
      PROVE  \/ store'[s] = store[s]
             \/ store[s] = Backend!Absent /\ store'[s].token = 1 /\ store'[s].reason = "none"
             \/ /\ store'[s].token = store[s].token /\ store'[s].status = "revoked"
                /\ store'[s].reason = "logout"
    <2>1. CASE store[s] = Backend!Absent /\ store'[s] = Backend!Active(1)
        BY <2>1 DEF Backend!Active
    <2>2. CASE store'[s] = Backend!Revoked(store[s].token, "logout")
        BY <2>2 DEF Backend!Revoked
    <2> QED BY <2>1, <2>2
<1>1. ASSUME NEW x \in presented, ~Harmless(x.pair.sess)' PROVE ~Harmless(x.pair.sess)
    <2>1. x.pair \in Pairs /\ x.pair.sess \in Sessions /\ store[x.pair.sess] # Backend!Absent
        BY KeepAssumption DEF ReuseInv, PairsInv, Delivered, Backend!Absent, Pairs
    <2>2. store'[x.pair.sess].status = "active" => store[x.pair.sess].status = "active"
        BY <1>0, <2>1
    <2> QED BY <1>1, <2>2 DEF Harmless
<1>2. \A x \in presented : x.who \in Calls =>
        pc'[x.who] \in {"answered", "done"} /\ call'[x.who].route \in {"me", "token"}
    BY DEF ReuseInv, Slots
<1>3. ASSUME NEW x \in presented, x.who \in Tabs, ~Harmless(x.pair.sess)'
      PROVE  /\ jar'.refresh = x.pair => Coming(x.who)' = Successor(x.pair)
             /\ pc'[x.who] = "sent" => Carried(x.who)' # x.pair
    <2>1. /\ jar.refresh = x.pair => Coming(x.who) = Successor(x.pair)
          /\ pc[x.who] = "sent" => Carried(x.who) # x.pair
        BY <1>1, <1>3 DEF ReuseInv
    <2>2. PICK p \in Pairs : p = x.pair
        BY DEF ReuseInv
    <2>3. CASE x.who = c
        \* The slot had sent its request, so the jar does not hold the token.
        <3>1. Coming(c) = None /\ Successor(p) # None
            BY KeepAssumption, CookieTypes DEF Coming, Pairs
        <3> QED BY <2>1, <2>2, <2>3, <3>1
    <2>4. CASE x.who # c
        <3>1. x.who \in Slots
            BY <1>3 DEF Slots
        <3>2. pc'[x.who] = pc[x.who] /\ call'[x.who] = call[x.who]
            BY <2>4, <3>1
        <3> QED BY <2>1, <3>2 DEF Coming, Carried
    <2> QED BY <2>3, <2>4
<1>4. ReuseHasCause'
    <2> SUFFICES ASSUME NEW s \in Sessions, store'[s].reason = "refresh_token_reuse"
                 PROVE  \/ \E p \in lost' : p.sess = s
                        \/ \E x, y \in presented' : /\ x.who # y.who
                                                    /\ x.pair = y.pair /\ x.pair.sess = s
        BY DEF ReuseHasCause
    <2>1. store'[s] = store[s]
        BY <1>0
    <2> QED BY <2>1 DEF ReuseInv, ReuseHasCause
<1>5. \A s \in Sessions, n \in Nat :
        0 < n /\ n < store'[s].token => \E x \in presented' : x.pair = Pair(s, n)
    BY <1>0 DEF ReuseInv
<1>6. \A x \in presented' : x.who \in Slots /\ x.pair \in Pairs
    BY DEF ReuseInv
<1> QED BY <1>2, <1>3, <1>4, <1>5, <1>6 DEF ReuseInv, Harmless, Successor, Coming, Carried

\* A token is presented: rotated, rejected as repeated, or too late.
LEMMA PresentsReuse ==
    ASSUME SlotInv, PairsInv, ReuseInv, NEW c \in Slots, pc[c] = "sent", UNCHANGED jar,
           NEW w \in SetCookie, NEW p \in Pairs, p = Carried(c),
           pc'[c] = "answered" /\ call'[c].cookies = w /\ call'[c].route = call[c].route,
           \A d \in Slots \ {c} : pc'[d] = pc[d] /\ call'[d] = call[d],
           Presents(c, p, w)
    PROVE  ReuseInv'
<1> DEFINE here == [who |-> c, pair |-> p]
<1>1. /\ presented' = presented \cup {here} /\ lost \subseteq lost'
      /\ call[c].route \in {"refresh", "me", "token"}
    BY DEF Presents, Signs
<1>2. /\ p \notin {None, Keep} /\ p.sess \in Sessions /\ p.num \in Nat
      /\ 0 < p.num /\ p.num <= store[p.sess].token /\ store[p.sess].token \in Nat
      /\ Successor(p) \in Pairs /\ Successor(p) # None /\ Successor(p).sess = p.sess
    BY KeepAssumption, CookieTypes DEF PairsInv, Delivered, Life, Pairs, Successor, Pair
<1>3. /\ \A s \in Sessions \ {p.sess} : store'[s] = store[s]
      /\ \/ Accepted(p) /\ store'[p.sess] = Backend!Active(p.num + 1)
         \/ /\ Live(p) /\ ~Accepted(p)
            /\ store'[p.sess] = Backend!Revoked(store[p.sess].token, "refresh_token_reuse")
         \/ ~Live(p) /\ store'[p.sess] = store[p.sess]
    BY <1>2 DEF Presents, PairsInv
<1>4. \A s \in Sessions : store'[s].status = "active" => store[s].status = "active"
    BY <1>2, <1>3 DEF Accepted, Live, Backend!Active, Backend!Revoked
<1>5. \A x \in presented' : x.who \in Slots /\ x.pair \in Pairs
    BY <1>1 DEF ReuseInv
<1>6. ASSUME NEW s \in Sessions, NEW n \in Nat, 0 < n, n < store'[s].token
      PROVE  \E x \in presented' : x.pair = Pair(s, n)
    <2>1. CASE n < store[s].token
        BY <1>1, <1>6, <2>1 DEF ReuseInv
    <2>2. CASE ~(n < store[s].token)
        <3>1. s = p.sess /\ Accepted(p) /\ n = p.num
            BY <1>2, <1>3, <1>6, <2>2 DEF Accepted, Live, Backend!Active, Backend!Revoked
        <3>2. Pair(s, n) = p
            BY <3>1 DEF Pair, Pairs
        <3>3. here.pair = p /\ here \in presented'
            BY <1>1
        <3> HIDE DEF here
        <3> QED BY <3>2, <3>3
    <2> QED BY <2>1, <2>2
<1>7. ASSUME NEW x \in presented', x.who \in Calls
      PROVE  pc'[x.who] \in {"answered", "done"} /\ call'[x.who].route \in {"me", "token"}
    <2>1. CASE x.who = c
        BY <1>1, <1>7, <2>1 DEF SlotInv, RoutesInv
    <2>2. CASE x.who # c
        BY <1>1, <1>7, <2>2 DEF ReuseInv, Slots
    <2> QED BY <2>1, <2>2
<1>8. ASSUME NEW x \in presented', x.who \in Tabs, ~Harmless(x.pair.sess)'
      PROVE  /\ jar'.refresh = x.pair => Coming(x.who)' = Successor(x.pair)
             /\ pc'[x.who] = "sent" => Carried(x.who)' # x.pair
    <2>1. CASE x = here
        <3>1. x.who = c /\ x.pair = p
            BY <2>1
        <3>2. store'[p.sess].status = "active" /\ \A q \in lost' : q.sess # p.sess
            BY <1>8, <3>1 DEF Harmless
        <3>3. Accepted(p)
            BY <1>2, <1>3, <3>2 DEF Live, Backend!Revoked
        <3>4. Signs(Successor(p), w)
            BY <3>3 DEF Presents, Accepted, Live, Backend!Active
        <3>5. w.refresh = Successor(p)
            BY <1>2, <3>2, <3>4 DEF Signs
        <3>6. Coming(c)' = Successor(p) /\ pc'[c] = "answered"
            BY <3>5 DEF Coming
        <3> QED BY <3>1, <3>6 DEF Successor, Coming
    <2>2. CASE x \in presented
        <3>1. x.pair \in Pairs /\ x.pair.sess \in Sessions
            BY <2>2 DEF ReuseInv, Pairs
        <3>2. ~Harmless(x.pair.sess)
            BY <1>1, <1>4, <1>8, <3>1 DEF Harmless
        <3>3. /\ jar.refresh = x.pair => Coming(x.who) = Successor(x.pair)
              /\ pc[x.who] = "sent" => Carried(x.who) # x.pair
            BY <1>8, <2>2, <3>2 DEF ReuseInv
        <3>4. CASE x.who = c
            <4>1. PICK q \in Pairs : q = x.pair
                BY <3>1
            <4>2. Coming(c) = None /\ Successor(q) # None
                BY KeepAssumption, CookieTypes DEF Coming, Pairs
            <4> QED BY <3>3, <3>4, <4>1, <4>2
        <3>5. CASE x.who # c
            <4>1. x.who \in Slots
                BY <1>8 DEF Slots
            <4>2. pc'[x.who] = pc[x.who] /\ call'[x.who] = call[x.who]
                BY <3>5, <4>1
            <4> QED BY <3>3, <4>2 DEF Coming, Carried
        <3> QED BY <3>4, <3>5
    <2> QED BY <1>1, <2>1, <2>2
<1>9. ReuseHasCause'
    <2> SUFFICES ASSUME NEW s \in Sessions, store'[s].reason = "refresh_token_reuse"
                 PROVE  \/ \E q \in lost' : q.sess = s
                        \/ \E x, y \in presented' : /\ x.who # y.who
                                                    /\ x.pair = y.pair /\ x.pair.sess = s
        BY DEF ReuseHasCause
    <2>1. CASE store'[s] = store[s]
        BY <1>1, <2>1 DEF ReuseInv, ReuseHasCause
    <2>2. CASE store'[s] # store[s]
        <3>1. s = p.sess /\ Live(p) /\ ~Accepted(p)
            BY <1>3, <2>2 DEF Backend!Active
        <3>2. p.num < store[s].token
            BY <1>2, <3>1 DEF PairsInv, Life, Live, Accepted
        <3>3. Pair(s, p.num) = p
            BY <3>1 DEF Pair, Pairs
        <3>4. PICK x \in presented : x.pair = p
            BY <1>2, <3>2, <3>3 DEF ReuseInv
        <3>5. CASE x.who # c
            <4>1. here.who = c /\ here.pair = p /\ here \in presented' /\ x \in presented'
                BY <1>1
            <4> HIDE DEF here
            <4> QED BY <3>1, <3>4, <3>5, <4>1
        <3>6. CASE x.who = c
            <4>1. c \in Tabs
                BY <3>4, <3>6 DEF ReuseInv, Slots
            <4>2. Harmless(p.sess)
                BY <3>4, <3>6, <4>1 DEF ReuseInv
            <4> QED BY <1>1, <3>1, <4>2 DEF Harmless, Live
        <3> QED BY <3>5, <3>6
    <2> QED BY <2>1, <2>2
<1> QED BY <1>5, <1>6, <1>7, <1>8, <1>9 DEF ReuseInv, Harmless, Successor, Coming, Carried

LEMMA ReuseInvNext ==
    SlotInv /\ SpentInv /\ PairsInv /\ ReuseInv /\ [Next]_vars => ReuseInv'
<1> SUFFICES ASSUME SlotInv, SpentInv, PairsInv, ReuseInv, [Next]_vars PROVE ReuseInv'
    OBVIOUS
<1>0. \A x \in presented : x.who \in Slots
    BY DEF ReuseInv
<1>1. ASSUME NEW c \in Calls, NEW t \in Tabs, Mount(c, t) \/ Call(c, t) \/ Login(c, t)
      PROVE  ReuseInv'
    <2>1. /\ UNCHANGED <<store, jar, lost, presented>>
          /\ pc[c] = "idle" /\ c \in Slots /\ c \notin Tabs
          /\ \A d \in Slots \ {c} : pc'[d] = pc[d] /\ call'[d] = call[d]
        BY <1>1, SlotsAssumption
           DEF Mount, Call, Login, Leaves, backend, history, SlotInv, SlotsTyped, Slots
    <2>2. \A x \in presented : /\ x.who # c /\ pc'[x.who] = pc[x.who]
                               /\ call'[x.who] = call[x.who]
        BY <1>0, <2>1 DEF ReuseInv
    <2> QED BY <2>1, <2>2, ReuseQuiet DEF ReuseInv, Harmless, Coming, Carried
<1>2. ASSUME NEW c \in Slots, Resume(c) PROVE ReuseInv'
    <2>1. /\ pc[c] = "ready" /\ pc'[c] = "sent" /\ UNCHANGED <<store, jar, lost, presented>>
          /\ \A d \in Slots \ {c} : pc'[d] = pc[d] /\ call'[d] = call[d]
          /\ call'[c] = [call[c] EXCEPT !.carried = jar] /\ call[c] \in CallRecord
        BY <1>2 DEF Resume, SlotInv, SlotsTyped, backend, history
    <2>2. Carried(c)' = jar.refresh /\ Coming(c) = None
        BY <2>1 DEF CallRecord, Carried, Coming
    <2>3. ASSUME NEW x \in presented, x.who \in Calls
          PROVE  pc'[x.who] \in {"answered", "done"} /\ call'[x.who].route \in {"me", "token"}
        BY <1>0, <2>1, <2>3 DEF ReuseInv
    <2>4. ASSUME NEW x \in presented, x.who \in Tabs, ~Harmless(x.pair.sess)'
          PROVE  /\ jar'.refresh = x.pair => Coming(x.who)' = Successor(x.pair)
                 /\ pc'[x.who] = "sent" => Carried(x.who)' # x.pair
        <3>1. /\ jar.refresh = x.pair => Coming(x.who) = Successor(x.pair)
              /\ pc[x.who] = "sent" => Carried(x.who) # x.pair
            BY <2>1, <2>4 DEF ReuseInv, Harmless
        <3>2. CASE x.who = c
            <4>1. PICK q \in Pairs : q = x.pair
                BY DEF ReuseInv
            <4>2. Successor(q) # None
                BY KeepAssumption, CookieTypes DEF Pairs
            <4>3. jar.refresh # x.pair
                BY <2>2, <3>1, <3>2, <4>1, <4>2
            <4> QED BY <2>1, <2>2, <3>2, <4>3
        <3>3. CASE x.who # c
            <4>1. pc'[x.who] = pc[x.who] /\ call'[x.who] = call[x.who]
                BY <1>0, <2>1, <3>3
            <4> QED BY <2>1, <3>1, <4>1 DEF Coming, Carried
        <3> QED BY <3>2, <3>3
    <2> QED BY <2>1, <2>3, <2>4, ReuseQuiet
<1>3. ASSUME NEW c \in Slots, Serve(c) PROVE ReuseInv'
    <2>1. pc[c] = "sent" /\ UNCHANGED jar
        BY <1>3 DEF Serve, ServeRefresh, ServeMe, ServeToken, ServeProxy, ServeLogin, ServeLogout,
                    Serves
    <2>2. PICK a \in Answers, w \in SetCookie : Answer(c, a, w) /\ ServeEffect(c, w)
        BY <1>3, ServeServes DEF Serving
    <2>3. /\ pc'[c] = "answered" /\ call'[c].cookies = w /\ call'[c].route = call[c].route
          /\ \A d \in Slots \ {c} : pc'[d] = pc[d] /\ call'[d] = call[d]
        BY <2>2, ServedSlots
    <2>4. CASE UNCHANGED <<store, lost, presented>>
        BY <2>1, <2>3, <2>4, ServeReuseQuiet
    <2>5. CASE SignsIn(w)
        <3>1. presented' = presented /\ lost \subseteq lost'
            BY <2>5 DEF SignsIn, Signs
        <3>2. PICK s \in Sessions : /\ store[s] = Backend!Absent
                                    /\ store' = [store EXCEPT ![s] = Backend!Active(1)]
            BY <2>5 DEF SignsIn
        <3>3. \A q \in Sessions :
                \/ store'[q] = store[q]
                \/ store[q] = Backend!Absent /\ store'[q] = Backend!Active(1)
            BY <3>2 DEF PairsInv
        <3> QED BY <2>1, <2>3, <3>1, <3>3, ServeReuseQuiet
    <2>6. CASE LogsOff(Carried(c), w)
        <3>1. presented' = presented /\ lost \subseteq lost'
            BY <2>6 DEF LogsOff
        <3>2. PICK p \in Pairs :
                store' = [store EXCEPT ![p.sess] = Backend!Revoked(store[p.sess].token, "logout")]
            BY <2>6 DEF LogsOff
        <3>3. \A q \in Sessions :
                store'[q] = store[q] \/ store'[q] = Backend!Revoked(store[q].token, "logout")
            BY <3>2 DEF PairsInv
        <3> QED BY <2>1, <2>3, <3>1, <3>3, ServeReuseQuiet
    <2>7. CASE Presents(c, Carried(c), w)
        <3>1. PICK p \in Pairs : p = Carried(c)
            BY <2>7 DEF Presents
        <3>2. Presents(c, p, w)
            BY <2>7, <3>1 DEF Presents, Signs, Accepted, Live, Successor
        <3> QED BY <2>1, <2>3, <3>1, <3>2, PresentsReuse
    <2> QED BY <2>2, <2>4, <2>5, <2>6, <2>7 DEF ServeEffect
<1>4. ASSUME NEW c \in Slots, Deliver(c) PROVE ReuseInv'
    <2>1. call[c].answer \in Answers
        BY DEF SlotInv, SlotsTyped, CallRecord
    <2>2. /\ pc[c] = "answered" /\ UNCHANGED <<store, lost, presented>>
          /\ \E a \in Answers : After(c, a)
          /\ jar'.refresh = Written(jar.refresh, Coming(c))
        BY <1>4, <2>1 DEF Deliver, backend, history, Coming
    <2> QED BY <2>2, AfterReuse
<1>5. ASSUME NEW c \in Slots, Lose(c) PROVE ReuseInv'
    <2>1. /\ pc[c] \in {"sent", "answered"} /\ UNCHANGED <<store, jar, presented>>
          /\ \E a \in Answers : After(c, a)
        BY <1>5 DEF Lose, backend, Answers
    <2>2. lost' = lost \cup ({Coming(c)} \ {None, Keep})
        BY <1>5, <2>1 DEF Lose, SpentInv, Coming
    <2> QED BY <2>1, <2>2, AfterReuse
<1>6. CASE UNCHANGED <<store, jar, lost, presented, pc, call>>
    BY <1>6, ReuseQuiet DEF ReuseInv, Harmless, Coming, Carried
<1>7. (UNCHANGED vars \/ \E p : Expire(p)) => UNCHANGED <<store, jar, lost, presented, pc, call>>
    BY DEF vars, Expire, backend, history
<1> QED BY <1>1, <1>2, <1>3, <1>4, <1>5, <1>6, <1>7 DEF Next

(* For any number of tabs, calls, sessions and lost messages: a session is *)
(* ended for reuse only if a token was lost on the way, or two different   *)
(* callers presented the same one (the shared refreshSessionPromise of     *)
(* api.ts does its work).                                                  *)
THEOREM ReuseIsExplained == Spec => []ReuseHasCause
<1>1. Init => ReuseInv
    <2> SUFFICES ASSUME Init PROVE ReuseInv
        OBVIOUS
    <2>1. presented = {}
        BY DEF Init
    <2>2. \A s \in Sessions : store[s].token \in {0, 1} /\ store[s].reason = "none"
        BY DEF Init, Backend!Active, Backend!Absent
    <2> QED BY <2>1, <2>2 DEF ReuseInv, ReuseHasCause
<1>2. ReuseInv => ReuseHasCause
    BY DEF ReuseInv
<1> QED BY <1>1, <1>2, SlotInvInit, SlotInvNext, PairsInvInit, PairsInvNext, ReuseInvNext, PTL
        DEF Spec
=============================================================================
