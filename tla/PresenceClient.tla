--------------------------- MODULE PresenceClient ---------------------------
(***************************************************************************)
(* The realtime side of one browser tab: the hook usePresence and the      *)
(* PresenceConnection objects it creates (frontend services/presence.ts).  *)
(*                                                                         *)
(* JavaScript runs one callback at a time; each action is one callback:    *)
(* an effect of the hook, the end of an awaited fetch, an event of a       *)
(* WebSocket, a timer.  What the object cannot take back is the fetch of   *)
(* its credential and the events of its sockets.                           *)
(*                                                                         *)
(* The hook makes one object per sign-in and drops it after disconnect();  *)
(* what it started goes on.  Sockets are numbered in the order they are    *)
(* created.  The delay of the backoff is reduced to "longer than the       *)
(* first", the messages on a socket are left out.                          *)
(***************************************************************************)
EXTENDS Integers, FiniteSets

CONSTANTS
    Objs,        \* PresenceConnection objects (sign-ins)
    MaxSockets,  \* bound: sockets ever created
    MaxDrops,    \* bound: credentials and sockets that fail
    None

VARIABLES
    auth,      \* the auth store: is the tab authenticated?
    shown,     \* the status the effect of the hook has seen last
    current,   \* connectionRef.current
    used,      \* objects created so far
    obj,       \* the fields of each object
    fetching,  \* objects that await their credential
    sock,      \* sock[k]: [owner, state] of the k-th socket
    status,    \* connectionStatus in the presence store
    faults,
    orphaned,  \* history: objects disconnected while they awaited a credential
    overlap    \* history: an object was made while an earlier one was not done

vars == <<auth, shown, current, used, obj, fetching, sock, status, faults,
          orphaned, overlap>>

Sockets == 1..MaxSockets

ASSUME SocketsAssumption == \* null is nothing else
    None \notin Objs \cup Sockets /\ MaxDrops \in Nat

\* Fields: shouldReconnect, isConnecting, socket, whether reconnectTimer and
\* pingTimer are set, and whether reconnectDelayMs is above its initial value.
Fresh == [should |-> TRUE, connecting |-> FALSE, socket |-> None,
          timer |-> FALSE, ping |-> FALSE, backoff |-> FALSE]

Unmade == [owner |-> None, state |-> "none"]

Over(k) == sock[k].state \in {"none", "closed"}

Init ==
    /\ auth = FALSE /\ shown = FALSE
    /\ current = None /\ used = {}
    /\ obj = [o \in Objs |-> Fresh]
    /\ fetching = {}
    /\ sock = [k \in Sockets |-> Unmade]
    /\ status = "idle"
    /\ faults = 0 /\ orphaned = {} /\ overlap = FALSE

Fault == faults < MaxDrops /\ faults' = faults + 1

-----------------------------------------------------------------------------
(* The tab signs in and out; the effect of the hook follows. *)

\* The user acts on what the page shows, hence after the effect of the last change.
SignIn ==
    /\ ~auth /\ ~shown /\ used # Objs
    /\ auth' = TRUE
    /\ UNCHANGED <<shown, current, used, obj, fetching, sock, status, faults, orphaned, overlap>>

SignOut ==
    /\ auth /\ shown
    /\ auth' = FALSE
    /\ UNCHANGED <<shown, current, used, obj, fetching, sock, status, faults, orphaned, overlap>>

\* Mutant: disconnect() leaves reconnectTimer running.
DisconnectedKeepsTimer(o) ==
    [obj[o] EXCEPT !.should = FALSE, !.ping = FALSE, !.socket = None, !.connecting = FALSE]

\* The object after disconnect().
Disconnected(o) ==
    [obj[o] EXCEPT !.should = FALSE, !.timer = FALSE, !.ping = FALSE,
                   !.socket = None, !.connecting = FALSE]

\* socket.close() in disconnect(); the close event comes later.
SocketsClosed(o) ==
    LET k == obj[o].socket
    IN  IF k # None /\ sock[k].state \in {"connecting", "open"}
        THEN [sock EXCEPT ![k].state = "closing"]
        ELSE sock

\* Mutant: the cleanup leaves connectionRef.current alone.
RefKept(o) == o

\* connectionRef.current after the cleanup.
RefCleared(o) == None

\* The cleanup of the effect, then its body for a tab that is signed out:
\* disconnect, drop the object, clearAll.
EffectSignedOut ==
    /\ shown /\ ~auth
    /\ shown' = FALSE
    /\ current' = RefCleared(current)
    /\ obj' = [obj EXCEPT ![current] = Disconnected(current)]
    /\ sock' = SocketsClosed(current)
    /\ orphaned' = IF current \in fetching THEN orphaned \cup {current} ELSE orphaned
    /\ status' = "idle"
    /\ UNCHANGED <<auth, used, fetching, faults, overlap>>

\* connect(): openSocket runs up to the await of the credential.
Connected(o) == [o EXCEPT !.should = TRUE, !.connecting = TRUE]

EffectSignedIn ==
    /\ ~shown /\ auth
    /\ shown' = TRUE
    /\ \E o \in Objs \ used :
         /\ current' = o
         /\ used' = used \cup {o}
         /\ obj' = [obj EXCEPT ![o] = Connected(Fresh)]
         /\ fetching' = fetching \cup {o}
    /\ status' = "connecting"
    /\ overlap' = (overlap \/ fetching # {} \/ \E k \in Sockets : ~Over(k))
    /\ UNCHANGED <<auth, sock, faults, orphaned>>

-----------------------------------------------------------------------------
(* openSocket after the await. *)

CredentialArrives(o) ==
    /\ o \in fetching
    /\ \E k \in Sockets :
         /\ sock[k] = Unmade /\ \A j \in 1..k-1 : sock[j] # Unmade
         /\ sock' = [sock EXCEPT ![k] = [owner |-> o, state |-> "connecting"]]
         /\ obj' = [obj EXCEPT ![o].socket = k]
    /\ fetching' = fetching \ {o}
    /\ UNCHANGED <<auth, shown, current, used, status, faults, orphaned, overlap>>

\* Mutant: a second timer is armed only when none was ever armed before.
ScheduledOnce(o) ==
    IF o.should /\ ~o.timer /\ ~o.backoff THEN [o EXCEPT !.timer = TRUE] ELSE o

\* scheduleReconnect()
Scheduled(o) == IF o.should /\ ~o.timer THEN [o EXCEPT !.timer = TRUE] ELSE o

CredentialFails(o) ==
    /\ o \in fetching
    /\ Fault
    /\ fetching' = fetching \ {o}
    /\ obj' = [obj EXCEPT ![o] = Scheduled([@ EXCEPT !.connecting = FALSE])]
    /\ status' = "error"
    /\ UNCHANGED <<auth, shown, current, used, sock, orphaned, overlap>>

\* 401: auth_error, then onAuthFailure: clearAll and clearSession.
CredentialRefused(o) ==
    /\ o \in fetching
    /\ Fault
    /\ fetching' = fetching \ {o}
    /\ obj' = [obj EXCEPT ![o].connecting = FALSE]
    /\ status' = "idle"
    /\ auth' = FALSE
    /\ UNCHANGED <<shown, current, used, sock, orphaned, overlap>>

-----------------------------------------------------------------------------
(* Events of socket k. *)

SocketOpens(k) ==
    /\ sock[k].state = "connecting"
    /\ sock' = [sock EXCEPT ![k].state = "open"]
    /\ obj' = [obj EXCEPT ![sock[k].owner] =
                 [@ EXCEPT !.connecting = FALSE, !.backoff = FALSE, !.ping = TRUE]]
    /\ status' = "connected"
    /\ UNCHANGED <<auth, shown, current, used, fetching, faults, orphaned, overlap>>

\* The network or the server ends the connection.
SocketBreaks(k) ==
    /\ sock[k].state \in {"connecting", "open"}
    /\ Fault
    /\ sock' = [sock EXCEPT ![k].state = "closing"]
    /\ UNCHANGED <<auth, shown, current, used, obj, fetching, status, orphaned, overlap>>

\* Mutant: a close event says nothing when nobody reconnects.
StatusKept(o) == IF obj[o].should THEN "error" ELSE status

StatusWhenClosed(o) == IF obj[o].should THEN "error" ELSE "idle"

\* The error event, if any, is followed by this one in the same task.
SocketCloses(k) ==
    LET o == sock[k].owner
    IN  /\ sock[k].state = "closing"
        /\ sock' = [sock EXCEPT ![k].state = "closed"]
        /\ obj' = [obj EXCEPT ![o] =
             Scheduled([@ EXCEPT !.ping = FALSE, !.socket = None, !.connecting = FALSE])]
        /\ status' = StatusWhenClosed(o)
        /\ UNCHANGED <<auth, shown, current, used, fetching, faults, orphaned, overlap>>

\* reconnectTimer: a longer delay next time, and connect().
TimerFires(o) ==
    /\ obj[o].timer
    /\ IF obj[o].connecting \/ obj[o].socket # None
       THEN /\ obj' = [obj EXCEPT ![o] = [@ EXCEPT !.timer = FALSE, !.backoff = TRUE]]
            /\ UNCHANGED <<fetching, status>>
       ELSE /\ obj' = [obj EXCEPT ![o] =
                         Connected([@ EXCEPT !.timer = FALSE, !.backoff = TRUE])]
            /\ fetching' = fetching \cup {o}
            /\ status' = "reconnecting"
    /\ UNCHANGED <<auth, shown, current, used, sock, faults, orphaned, overlap>>

-----------------------------------------------------------------------------
Effect == EffectSignedOut \/ EffectSignedIn

Next ==
    \/ SignIn \/ SignOut \/ Effect
    \/ \E o \in Objs : \/ CredentialArrives(o) \/ CredentialFails(o) \/ CredentialRefused(o)
                       \/ TimerFires(o)
    \/ \E k \in Sockets : SocketOpens(k) \/ SocketBreaks(k) \/ SocketCloses(k)

\* React runs effects, fetches end, sockets open or break, timers fire.
Fairness ==
    /\ WF_vars(Effect)
    /\ \A o \in Objs : WF_vars(CredentialArrives(o)) /\ WF_vars(TimerFires(o))
    /\ \A k \in Sockets : WF_vars(SocketOpens(k)) /\ WF_vars(SocketCloses(k))

Spec     == Init /\ [][Next]_vars
FairSpec == Spec /\ Fairness

-----------------------------------------------------------------------------
Fields == [should : BOOLEAN, connecting : BOOLEAN, socket : Sockets \cup {None},
           timer : BOOLEAN, ping : BOOLEAN, backoff : BOOLEAN]

\* Type correctness.
TypeOK ==
    /\ auth \in BOOLEAN /\ shown \in BOOLEAN
    /\ current \in Objs \cup {None}
    /\ used \subseteq Objs /\ fetching \subseteq used /\ orphaned \subseteq used
    /\ obj \in [Objs -> Fields]
    /\ sock \in [Sockets -> {Unmade} \cup
                 [owner : Objs, state : {"connecting", "open", "closing", "closed"}]]
    /\ status \in {"idle", "connecting", "connected", "reconnecting", "error"}
    /\ faults \in 0..MaxDrops /\ overlap \in BOOLEAN
    /\ current # None <=> shown

LiveSockets(o) == {k \in Sockets : sock[k].owner = o /\ sock[k].state \in {"connecting", "open"}}

\* However sign-ins, timers and events fall, an object never holds two sockets
\* nor opens a second one while it waits for the first, and a socket that lives
\* belongs to the connection of the hook.  The exception is an object that was
\* disconnected while it awaited its credential: its socket is still created,
\* and nobody closes it.
OneSocketAtATime ==
    \A o \in Objs :
        /\ Cardinality(LiveSockets(o)) + (IF o \in fetching THEN 1 ELSE 0) <= 1
        /\ LiveSockets(o) # {} \/ o \in fetching => o = current \/ o \in orphaned

\* What the interface shows as live: "connected" only while some socket is open
\* or its close event is under way.  Conversely the open socket of the hook's
\* connection is shown as "connected", unless that connection was made while a
\* socket or a fetch of an earlier sign-in was not done: the store is shared, and
\* the late close event of the old socket says "idle" while the new one is open.
StatusIsTruthful ==
    /\ status = "connected" =>
         \E k \in Sockets : sock[k].state \in {"open", "closing"}
    /\ ~overlap /\ current # None /\ obj[current].socket # None =>
         (sock[obj[current].socket].state = "open" => status = "connected")

\* A tab that stays signed in is connected in the end, whatever finite number
\* of credentials and sockets failed before.
StaysConnected ==
    <>[](\/ ~auth
         \/ /\ current # None /\ obj[current].socket # None
            /\ sock[obj[current].socket].state = "open")
=============================================================================
