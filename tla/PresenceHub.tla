---------------------------- MODULE PresenceHub ----------------------------
(***************************************************************************)
(* The presence service (backend/presence-service): the hub goroutine      *)
(* (hub.go) and the three goroutines of every WebSocket connection         *)
(* (main.go): the HTTP handler that registers it, readPump and writePump.  *)
(*                                                                         *)
(* They share Go channels.  register and unregister are FIFO buffers that  *)
(* only the hub drains; the hub chooses at random among the ready cases of *)
(* its select.  send[c] is the buffer of messages for one connection: the  *)
(* hub and readPump write to it, writePump drains it, the hub closes it.   *)
(* Writing to a closed channel and closing it twice are panics, and a      *)
(* panic in any goroutine ends the process.                                *)
(*                                                                         *)
(* A connection is used once; a browser that reconnects is another one.    *)
(* Contents of messages, malformed Redis messages and messages for a user  *)
(* without a connection change no state and are left out.                  *)
(***************************************************************************)
EXTENDS Integers, Sequences, FiniteSets

CONSTANTS
    Conns,     \* connections (*Client)
    Users,     \* user ids
    UserOf,    \* the user id in the token of each connection
    SendCap,   \* capacity of a send channel (256)
    QueueCap,  \* capacity of register and of unregister (256)
    None

ASSUME UserOfAssumption == UserOf \in [Conns -> Users]
ASSUME CapAssumption    == SendCap \in Nat \ {0} /\ QueueCap \in Nat \ {0}
ASSUME NoneAssumption   == None \notin Conns

VARIABLES
    clients,     \* the hub's map: user id -> connection
    register,    \* channel of connections to add
    unregister,  \* channel of connections to remove
    dropping,    \* the slow connection sendToUser is about to drop
    send,        \* send[c]: messages in the channel of c
    isClosed,    \* isClosed[c]: the channel of c has been closed
    reader,      \* progress of the handler and then readPump of c
    writer,      \* progress of writePump of c
    socket,      \* the TCP connection of c; "gone" when the peer has left
    panicked,    \* the connection whose channel made the process panic
    slow         \* history: connections dropped for being slow

hubVars  == <<clients, register, unregister, dropping>>
connVars == <<send, isClosed, reader, writer, socket>>
vars     == <<hubVars, connVars, panicked, slow>>

Running == panicked = None

-----------------------------------------------------------------------------
Init ==
    /\ clients = [u \in Users |-> None]
    /\ register = <<>> /\ unregister = <<>> /\ dropping = None
    /\ send = [c \in Conns |-> 0]
    /\ isClosed = [c \in Conns |-> FALSE]
    /\ reader = [c \in Conns |-> "idle"]
    /\ writer = [c \in Conns |-> "none"]
    /\ socket = [c \in Conns |-> "none"]
    /\ panicked = None
    /\ slow = {}

(* The HTTP handler: authenticate, upgrade, hand the client to the hub,    *)
(* and only then start its pumps.                                          *)

Upgrade(c) ==
    /\ Running /\ reader[c] = "idle"
    /\ reader' = [reader EXCEPT ![c] = "registering"]
    /\ socket' = [socket EXCEPT ![c] = "open"]
    /\ UNCHANGED <<hubVars, send, isClosed, writer, panicked, slow>>

Register(c) ==
    /\ Running /\ reader[c] = "registering"
    /\ Len(register) < QueueCap
    /\ register' = Append(register, c)
    /\ reader' = [reader EXCEPT ![c] = "reading"]
    /\ writer' = [writer EXCEPT ![c] = "selecting"]
    /\ UNCHANGED <<clients, unregister, dropping, send, isClosed, socket, panicked, slow>>

\* The peer closes, vanishes, or stays silent beyond pongWait.
PeerLeaves(c) ==
    /\ Running /\ socket[c] = "open"
    /\ socket' = [socket EXCEPT ![c] = "gone"]
    /\ UNCHANGED <<hubVars, send, isClosed, reader, writer, panicked, slow>>

-----------------------------------------------------------------------------
(* readPump *)

\* ReadMessage returns a PING.  (The peer's leaving counts from the moment its
\* buffered frames have been read.)
ReadPing(c) ==
    /\ Running /\ reader[c] = "reading" /\ socket[c] = "open"
    /\ reader' = [reader EXCEPT ![c] = "ponging"]
    /\ UNCHANGED <<hubVars, send, isClosed, writer, socket, panicked, slow>>

\* c.send <- pong: waits while the channel is full, panics once it is closed.
SendPong(c) ==
    /\ Running /\ reader[c] = "ponging"
    /\ \/ /\ isClosed[c]
          /\ panicked' = c
          /\ UNCHANGED <<send, reader>>
       \/ /\ ~isClosed[c] /\ send[c] < SendCap
          /\ send' = [send EXCEPT ![c] = @ + 1]
          /\ reader' = [reader EXCEPT ![c] = "reading"]
          /\ UNCHANGED panicked
    /\ UNCHANGED <<hubVars, isClosed, writer, socket, slow>>

ReadFails(c) ==
    /\ Running /\ reader[c] = "reading"
    /\ socket[c] # "open"
    /\ reader' = [reader EXCEPT ![c] = "leaving"]
    /\ UNCHANGED <<hubVars, send, isClosed, writer, socket, panicked, slow>>

Unregister(c) ==
    /\ Running /\ reader[c] = "leaving"
    /\ Len(unregister) < QueueCap
    /\ unregister' = Append(unregister, c)
    /\ reader' = [reader EXCEPT ![c] = "closing"]
    /\ UNCHANGED <<clients, register, dropping, send, isClosed, writer, socket, panicked, slow>>

CloseConn(c) ==
    /\ Running /\ reader[c] = "closing"
    /\ reader' = [reader EXCEPT ![c] = "done"]
    /\ socket' = [socket EXCEPT ![c] = "closed"]
    /\ UNCHANGED <<hubVars, send, isClosed, writer, panicked, slow>>

-----------------------------------------------------------------------------
(* writePump *)

TakeMessage(c) ==
    /\ Running /\ writer[c] = "selecting"
    /\ send[c] > 0
    /\ send' = [send EXCEPT ![c] = @ - 1]
    /\ writer' = [writer EXCEPT ![c] = "writing"]
    /\ UNCHANGED <<hubVars, isClosed, reader, socket, panicked, slow>>

\* Mutant: the !ok result of the receive is ignored.
TakeClosedIgnored(c) ==
    /\ Running /\ writer[c] = "selecting"
    /\ isClosed[c] /\ send[c] = 0
    /\ writer' = [writer EXCEPT ![c] = "writing"]
    /\ UNCHANGED <<hubVars, send, isClosed, reader, socket, panicked, slow>>

\* The channel is closed and drained: write a close frame and return.
TakeClosed(c) ==
    /\ Running /\ writer[c] = "selecting"
    /\ isClosed[c] /\ send[c] = 0
    /\ writer' = [writer EXCEPT ![c] = "done"]
    /\ socket' = [socket EXCEPT ![c] = "closed"]
    /\ UNCHANGED <<hubVars, send, isClosed, reader, panicked, slow>>

\* The ticker fires: a ping frame is written.
Tick(c) ==
    /\ Running /\ writer[c] = "selecting"
    /\ writer' = [writer EXCEPT ![c] = "writing"]
    /\ UNCHANGED <<hubVars, send, isClosed, reader, socket, panicked, slow>>

WriteOk(c) ==
    /\ Running /\ writer[c] = "writing"
    /\ socket[c] # "closed"
    /\ writer' = [writer EXCEPT ![c] = "selecting"]
    /\ UNCHANGED <<hubVars, send, isClosed, reader, socket, panicked, slow>>

\* The write fails, or takes longer than writeWait: return and close.
WriteFails(c) ==
    /\ Running /\ writer[c] = "writing"
    /\ writer' = [writer EXCEPT ![c] = "done"]
    /\ socket' = [socket EXCEPT ![c] = "closed"]
    /\ UNCHANGED <<hubVars, send, isClosed, reader, panicked, slow>>

-----------------------------------------------------------------------------
(* The hub.  It alone changes the map, so its mutex is left out: the other *)
(* readers (Count) only take its size.                                     *)

HubFree == Running /\ dropping = None

CloseChannel(c) ==
    IF isClosed[c] THEN panicked' = c /\ UNCHANGED isClosed
    ELSE isClosed' = [isClosed EXCEPT ![c] = TRUE] /\ UNCHANGED panicked

HubRegister ==
    /\ HubFree /\ register # <<>>
    /\ clients' = [clients EXCEPT ![UserOf[Head(register)]] = Head(register)]
    /\ register' = Tail(register)
    /\ UNCHANGED <<unregister, dropping, connVars, panicked, slow>>

\* Mutant: the channel is closed whether or not the map has an entry.
HubUnregisterAlwaysCloses ==
    /\ HubFree /\ unregister # <<>>
    /\ LET c == Head(unregister) IN
         /\ clients' = [clients EXCEPT ![UserOf[c]] = None]
         /\ CloseChannel(c)
    /\ unregister' = Tail(unregister)
    /\ UNCHANGED <<register, dropping, send, reader, writer, socket, slow>>

\* The entry is looked up, and deleted, by user id.
HubUnregister ==
    /\ HubFree /\ unregister # <<>>
    /\ LET c == Head(unregister) IN
         IF clients[UserOf[c]] # None
         THEN clients' = [clients EXCEPT ![UserOf[c]] = None] /\ CloseChannel(c)
         ELSE UNCHANGED <<clients, isClosed, panicked>>
    /\ unregister' = Tail(unregister)
    /\ UNCHANGED <<register, dropping, send, reader, writer, socket, slow>>

\* A Redis message for user u, who has a connection.
HubSend(u) ==
    LET c == clients[u] IN
    /\ HubFree /\ c # None
    /\ \/ /\ isClosed[c]
          /\ panicked' = c
          /\ UNCHANGED <<send, dropping>>
       \/ /\ ~isClosed[c] /\ send[c] < SendCap
          /\ send' = [send EXCEPT ![c] = @ + 1]
          /\ UNCHANGED <<panicked, dropping>>
       \/ /\ ~isClosed[c] /\ send[c] = SendCap
          /\ dropping' = c
          /\ UNCHANGED <<send, panicked>>
    /\ UNCHANGED <<clients, register, unregister, isClosed, reader, writer, socket, slow>>

\* Mutant: the slow client is forgotten but its channel stays open.
HubDropKeepsOpen ==
    /\ Running /\ dropping # None
    /\ clients' = [clients EXCEPT ![UserOf[dropping]] = None]
    /\ dropping' = None
    /\ UNCHANGED <<register, unregister, connVars, panicked, slow>>

\* writePump and readPump may have used the channel since it was found full.
HubDrop ==
    /\ Running /\ dropping # None
    /\ IF clients[UserOf[dropping]] = dropping
       THEN /\ CloseChannel(dropping)
            /\ clients' = [clients EXCEPT ![UserOf[dropping]] = None]
            /\ slow' = slow \cup {dropping}
       ELSE UNCHANGED <<isClosed, panicked, clients, slow>>
    /\ dropping' = None
    /\ UNCHANGED <<register, unregister, send, reader, writer, socket>>

-----------------------------------------------------------------------------
Handler(c) == Upgrade(c) \/ Register(c)
ReadPump(c) ==
    ReadPing(c) \/ SendPong(c) \/ ReadFails(c) \/ Unregister(c) \/ CloseConn(c)
WritePump(c) ==
    TakeMessage(c) \/ TakeClosed(c) \/ Tick(c) \/ WriteOk(c) \/ WriteFails(c)
Hub == HubRegister \/ HubUnregister \/ HubDrop \/ \E u \in Users : HubSend(u)

Next ==
    \/ \E c \in Conns : Handler(c) \/ PeerLeaves(c) \/ ReadPump(c) \/ WritePump(c)
    \/ Hub

(***************************************************************************)
(* Goroutines that can run do, and a write ends within writeWait.  Go      *)
(* chooses at random among the ready cases of a select (channel or ticker  *)
(* in writePump) and serves a waiting sender before a later one, hence the *)
(* strong fairness.  For the hub's cases weak fairness is enough.          *)
(***************************************************************************)
Fairness ==
    /\ WF_vars(HubRegister) /\ WF_vars(HubUnregister) /\ WF_vars(HubDrop)
    /\ \A c \in Conns :
         /\ WF_vars(Register(c))
         /\ WF_vars(ReadFails(c) \/ Unregister(c) \/ CloseConn(c))
         /\ SF_vars(SendPong(c))
         /\ SF_vars(TakeMessage(c) \/ TakeClosed(c))
         /\ WF_vars(WriteOk(c) \/ WriteFails(c))

Spec     == Init /\ [][Next]_vars
FairSpec == Spec /\ Fairness

-----------------------------------------------------------------------------
(* Properties *)

Queue == UNION {[1..n -> Conns] : n \in 0..QueueCap}

TypeOK ==
    /\ clients    \in [Users -> Conns \cup {None}]
    /\ register   \in Queue
    /\ unregister \in Queue
    /\ dropping   \in Conns \cup {None}
    /\ send       \in [Conns -> 0..SendCap]
    /\ isClosed   \in [Conns -> BOOLEAN]
    /\ reader     \in [Conns -> {"idle", "registering", "reading", "ponging",
                                 "leaving", "closing", "done"}]
    /\ writer     \in [Conns -> {"none", "selecting", "writing", "done"}]
    /\ socket     \in [Conns -> {"none", "open", "gone", "closed"}]
    /\ panicked   \in Conns \cup {None}
    /\ slow       \subseteq Conns

\* The user of c has had no other connection.
Alone(c) == \A d \in Conns \ {c} : UserOf[d] = UserOf[c] => reader[d] = "idle"

InQueue(c, q) == \E k \in 1..Len(q) : q[k] = c

(* Presence updates and notifications reach a user: the only connection of *)
(* a user, while both its pumps run, is in the hub's map or about to be,   *)
(* unless the hub cut it off for being slow.  (With overlapping            *)
(* connections it may not be: unregister removes whichever is in the map.) *)
OnlyConnectionIsReachable ==
    \A c \in Conns :
        /\ Running /\ Alone(c)
        /\ reader[c] \in {"reading", "ponging"}
        => \/ clients[UserOf[c]] = c
           \/ InQueue(c, register)
           \/ c \in slow

(* One user's connection cannot bring the service down for everybody: the  *)
(* process panics only on the channel of a connection that was dropped as  *)
(* slow, or whose user had another connection.                             *)
PanicHasCause == panicked # None => panicked \in slow \/ ~Alone(panicked)

(* A connection the hub cut off, or whose peer left, is closed in the end: *)
(* no socket stays open behind a goroutine that waits.  A cut off browser  *)
(* is told, so that it can reconnect.                                      *)
SocketReleased ==
    \A c \in Conns :
        socket[c] = "gone" \/ isClosed[c] ~> socket[c] = "closed" \/ ~Running
=============================================================================
