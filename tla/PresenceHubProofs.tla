------------------------- MODULE PresenceHubProofs -------------------------
(* Two results about PresenceHub, for any connections, users and channel   *)
(* capacities: a user's only connection is reachable while its pumps run,  *)
(* and the process panics only on a connection that was dropped as slow or *)
(* whose user had another one.                                             *)
(*                                                                         *)
(* Neither is inductive: both rest on where a connection may be.  A        *)
(* connection enters register once, is in the map or in register but never *)
(* in both, reaches unregister only when its readPump has ended, and its   *)
(* channel is closed only after that or for being slow.                    *)
EXTENDS PresenceHub, SequenceTheorems, TLAPS

Pumping(c) == reader[c] \notin {"idle", "registering"}
Reading(c) == reader[c] \in {"reading", "ponging"}
Leaving(c) == reader[c] \in {"closing", "done"}

\* What is in the hub's hands has come through register, or is on its way out.
PlacesInv ==
    /\ \A u \in Users : clients[u] # None => UserOf[clients[u]] = u /\ Pumping(clients[u])
    /\ \A k \in 1..Len(register) : Pumping(register[k])
    /\ \A k \in 1..Len(unregister) : Leaving(unregister[k])

\* A connection is registered once.
OnceInv ==
    /\ \A i, k \in 1..Len(register) : register[i] = register[k] => i = k
    /\ \A u \in Users : clients[u] # None => ~InQueue(clients[u], register)

\* A closed channel is out of the hub's reach, if its user has no other.
ClosedInv ==
    \A c \in Conns : isClosed[c] /\ c \notin slow =>
        /\ Leaving(c)
        /\ Alone(c) => clients[UserOf[c]] # c /\ ~InQueue(c, register)

ReachInv ==
    \A c \in Conns : Alone(c) /\ Reading(c) =>
        clients[UserOf[c]] = c \/ InQueue(c, register) \/ c \in slow

HubInv == TypeOK /\ PlacesInv /\ OnceInv /\ ClosedInv /\ ReachInv /\ PanicHasCause

-----------------------------------------------------------------------------
(* The channels register and unregister.                                   *)

LEMMA QueueIsSeq ==
    ASSUME NEW q \in Queue
    PROVE  q \in Seq(Conns) /\ Len(q) \in 0..QueueCap /\ q \in [1..Len(q) -> Conns]
<1>1. PICK n \in 0..QueueCap : q \in [1..n -> Conns]
    BY DEF Queue
<1>2. n \in Nat
    BY <1>1, CapAssumption
<1>3. q \in Seq(Conns)
    BY <1>1, <1>2, SeqDef
<1>4. Len(q) = n
    BY <1>1, <1>2, <1>3, LenProperties
<1> QED BY <1>1, <1>3, <1>4

LEMMA SeqIsQueue ==
    ASSUME NEW q \in Seq(Conns), Len(q) <= QueueCap PROVE q \in Queue
<1>1. Len(q) \in 0..QueueCap /\ q \in [1..Len(q) -> Conns]
    BY LenProperties, CapAssumption
<1> QED BY <1>1 DEF Queue

\* A send on a channel with room.
LEMMA AppendQueue ==
    ASSUME NEW q \in Queue, NEW c \in Conns, Len(q) < QueueCap
    PROVE  /\ Append(q, c) \in Queue
           /\ Len(Append(q, c)) = Len(q) + 1
           /\ \A k \in 1..Len(q) : Append(q, c)[k] = q[k]
           /\ Append(q, c)[Len(q) + 1] = c
<1>1. q \in Seq(Conns) /\ Len(q) \in Nat
    BY QueueIsSeq
<1>2. /\ Append(q, c) \in Seq(Conns)
      /\ Len(Append(q, c)) = Len(q) + 1
      /\ \A k \in 1..Len(q) : Append(q, c)[k] = q[k]
      /\ Append(q, c)[Len(q) + 1] = c
    BY <1>1
<1>3. Len(Append(q, c)) <= QueueCap
    BY <1>1, <1>2, CapAssumption
<1> QED BY <1>2, <1>3, SeqIsQueue

\* A receive from a channel that is not empty.
LEMMA TailQueue ==
    ASSUME NEW q \in Queue, q # <<>>
    PROVE  /\ Head(q) = q[1] /\ Head(q) \in Conns /\ 1 \in 1..Len(q)
           /\ Tail(q) \in Queue
           /\ Len(q) \in Nat /\ Len(Tail(q)) = Len(q) - 1
           /\ \A k \in 1..Len(Tail(q)) : k + 1 \in 1..Len(q) /\ Tail(q)[k] = q[k + 1]
<1>1. q \in Seq(Conns) /\ Len(q) \in 0..QueueCap
    BY QueueIsSeq
<1>2. Len(q) \in Nat \ {0}
    BY <1>1, EmptySeq
<1>3. /\ Head(q) \in Conns /\ Tail(q) \in Seq(Conns) /\ Len(Tail(q)) = Len(q) - 1
      /\ \A k \in 1..Len(Tail(q)) : Tail(q)[k] = q[k + 1]
    BY <1>1, HeadTailProperties
<1>4. Len(Tail(q)) <= QueueCap
    BY <1>1, <1>2, <1>3, CapAssumption
<1>5. Tail(q) \in Queue
    BY <1>3, <1>4, SeqIsQueue
<1>6. Head(q) = q[1]
    BY <1>1, <1>2
<1>7. \A k \in 1..Len(Tail(q)) : k + 1 \in 1..Len(q)
    BY <1>2, <1>3
<1> QED BY <1>2, <1>3, <1>5, <1>6, <1>7

-----------------------------------------------------------------------------
(* Types                                                                   *)

LEMMA ConnTyped ==
    ASSUME TypeOK, NEW c \in Conns, Handler(c) \/ PeerLeaves(c) \/ ReadPump(c) \/ WritePump(c)
    PROVE  TypeOK'
<1>1. CASE Upgrade(c) \/ PeerLeaves(c)
    BY <1>1 DEF Upgrade, PeerLeaves, TypeOK, hubVars
<1>2. CASE Register(c)
    BY <1>2, AppendQueue DEF Register, TypeOK
<1>3. CASE ReadPing(c) \/ ReadFails(c) \/ CloseConn(c)
    BY <1>3 DEF ReadPing, ReadFails, CloseConn, TypeOK, hubVars
<1>4. CASE SendPong(c)
    <2>1. send' \in [Conns -> 0..SendCap] /\ reader' \in [Conns -> {"idle", "registering", "reading", "ponging",
                                 "leaving", "closing", "done"}]
        BY <1>4, CapAssumption DEF SendPong, TypeOK
    <2>2. panicked' \in Conns \cup {None}
        BY <1>4 DEF SendPong, TypeOK
    <2> QED BY <1>4, <2>1, <2>2 DEF SendPong, TypeOK, hubVars
<1>5. CASE Unregister(c)
    BY <1>5, AppendQueue DEF Unregister, TypeOK
<1>6. CASE TakeMessage(c)
    <2>1. send' \in [Conns -> 0..SendCap]
        BY <1>6, CapAssumption DEF TakeMessage, TypeOK
    <2> QED BY <1>6, <2>1 DEF TakeMessage, TypeOK, hubVars
<1>7. CASE TakeClosed(c) \/ Tick(c) \/ WriteOk(c) \/ WriteFails(c)
    BY <1>7 DEF TakeClosed, Tick, WriteOk, WriteFails, TypeOK, hubVars
<1> QED BY <1>1, <1>2, <1>3, <1>4, <1>5, <1>6, <1>7 DEF Handler, ReadPump, WritePump

LEMMA CloseChannelTyped ==
    ASSUME TypeOK, NEW c \in Conns, CloseChannel(c)
    PROVE  isClosed' \in [Conns -> BOOLEAN] /\ panicked' \in Conns \cup {None}
BY DEF CloseChannel, TypeOK

LEMMA HubTyped ==
    ASSUME TypeOK, Hub PROVE TypeOK'
<1>1. CASE HubRegister
    <2>1. Head(register) \in Conns /\ Tail(register) \in Queue
        BY <1>1, TailQueue DEF HubRegister, TypeOK
    <2> QED BY <1>1, <2>1 DEF HubRegister, TypeOK, connVars
<1>2. CASE HubUnregister
    <2>1. Head(unregister) \in Conns /\ Tail(unregister) \in Queue
        BY <1>2, TailQueue DEF HubUnregister, TypeOK
    <2>2. isClosed' \in [Conns -> BOOLEAN] /\ panicked' \in Conns \cup {None}
        BY <1>2, <2>1, CloseChannelTyped DEF HubUnregister, TypeOK
    <2> QED BY <1>2, <2>1, <2>2 DEF HubUnregister, TypeOK
<1>3. CASE HubDrop
    <2>1. dropping \in Conns
        BY <1>3 DEF HubDrop, TypeOK
    <2>2. isClosed' \in [Conns -> BOOLEAN] /\ panicked' \in Conns \cup {None}
        BY <1>3, <2>1, CloseChannelTyped DEF HubDrop, TypeOK
    <2> QED BY <1>3, <2>1, <2>2 DEF HubDrop, TypeOK
<1>4. ASSUME NEW u \in Users, HubSend(u) PROVE TypeOK'
    <2>1. clients[u] \in Conns
        BY <1>4 DEF HubSend, TypeOK
    <2>2. send' \in [Conns -> 0..SendCap]
        BY <1>4, <2>1, CapAssumption DEF HubSend, TypeOK
    <2>3. panicked' \in Conns \cup {None} /\ dropping' \in Conns \cup {None}
        BY <1>4, <2>1 DEF HubSend, TypeOK
    <2> QED BY <1>4, <2>2, <2>3 DEF HubSend, TypeOK
<1> QED BY <1>1, <1>2, <1>3, <1>4 DEF Hub

-----------------------------------------------------------------------------
(* Steps outside the hub.                                                  *)

\* A connection that was used stays used, so that who is alone has always been.
LEMMA AloneBefore ==
    ASSUME NEW c \in Conns, Alone(c)', \A d \in Conns : reader'[d] = "idle" => reader[d] = "idle"
    PROVE  Alone(c)
BY DEF Alone

\* A step that moves pumps, and leaves the map, the channels of the hub, the
\* closed channels and the panics as they are.
LEMMA PumpStep ==
    ASSUME HubInv, TypeOK', UNCHANGED <<clients, register, unregister, isClosed, slow, panicked>>,
           \A d \in Conns : /\ reader'[d] = "idle" => reader[d] = "idle"
                            /\ Pumping(d) => Pumping(d)'
                            /\ Leaving(d) => Leaving(d)'
                            /\ Reading(d)' => Reading(d)
    PROVE  HubInv'
<1>1. \A c \in Conns : Alone(c)' => Alone(c)
    BY AloneBefore
<1>2. /\ clients \in [Users -> Conns \cup {None}] /\ UserOf \in [Conns -> Users]
      /\ panicked \in Conns \cup {None}
      /\ register \in [1..Len(register) -> Conns] /\ unregister \in [1..Len(unregister) -> Conns]
    BY QueueIsSeq, UserOfAssumption DEF HubInv, TypeOK
<1>3. PlacesInv'
    BY <1>2 DEF HubInv, PlacesInv
<1>4. OnceInv'
    BY DEF HubInv, OnceInv, InQueue
<1>5. ClosedInv'
    BY <1>1 DEF HubInv, ClosedInv, InQueue
<1>6. ReachInv'
    BY <1>1 DEF HubInv, ReachInv, InQueue
<1>7. PanicHasCause'
    BY <1>1, <1>2 DEF HubInv, PanicHasCause
<1> QED BY <1>3, <1>4, <1>5, <1>6, <1>7 DEF HubInv

\* A panic on a channel whose connection was slow or had company.
LEMMA PanicStep ==
    ASSUME HubInv, TypeOK', NEW c \in Conns, panicked' = c, c \in slow \/ ~Alone(c),
           UNCHANGED <<clients, register, unregister, isClosed, slow, reader>>
    PROVE  HubInv'
<1>1. \A d \in Conns : Alone(d)' <=> Alone(d)
    BY DEF Alone
<1>2. PlacesInv' /\ OnceInv' /\ ClosedInv' /\ ReachInv'
    BY <1>1 DEF HubInv, PlacesInv, OnceInv, ClosedInv, ReachInv, InQueue, Pumping, Leaving, Reading
<1>3. PanicHasCause'
    BY <1>1 DEF PanicHasCause
<1> QED BY <1>2, <1>3 DEF HubInv

LEMMA RegisterPreserves ==
    ASSUME HubInv, NEW c \in Conns, Register(c) PROVE HubInv'
<1> USE DEF HubInv
<1>1. TypeOK'
    BY ConnTyped DEF Handler
<1>2. /\ register' = Append(register, c) /\ reader[c] = "registering"
      /\ reader' = [reader EXCEPT ![c] = "reading"]
      /\ UNCHANGED <<clients, unregister, isClosed, panicked, slow>>
    BY DEF Register
<1>3. /\ Len(register') = Len(register) + 1 /\ Len(register) \in Nat
      /\ \A k \in 1..Len(register) : register'[k] = register[k] /\ register[k] \in Conns
      /\ register'[Len(register) + 1] = c
    BY <1>2, AppendQueue, QueueIsSeq DEF Register, TypeOK
<1>4. \A d \in Conns : InQueue(d, register)' <=> InQueue(d, register) \/ d = c
    BY <1>3 DEF InQueue
<1>5. /\ reader'[c] = "reading" /\ \A d \in Conns \ {c} : reader'[d] = reader[d]
    BY <1>2 DEF TypeOK
<1>6. ~InQueue(c, register) /\ \A u \in Users : clients[u] # c
    BY <1>2, NoneAssumption DEF PlacesInv, InQueue, Pumping
<1>7. \A d \in Conns : Alone(d)' => Alone(d)
    BY <1>2, <1>5, AloneBefore
<1>8. /\ clients \in [Users -> Conns \cup {None}] /\ UserOf \in [Conns -> Users]
      /\ panicked \in Conns \cup {None} /\ unregister \in [1..Len(unregister) -> Conns]
    BY QueueIsSeq, UserOfAssumption DEF TypeOK
<1>9. PlacesInv'
    <2>1. \A k \in 1..Len(register') : Pumping(register[k])'
        BY <1>3, <1>5 DEF PlacesInv, Pumping
    <2> QED BY <1>2, <1>5, <1>8, <2>1 DEF PlacesInv, Pumping, Leaving
<1>10. OnceInv'
    <2>1. \A i, k \in 1..Len(register') : register'[i] = register'[k] => i = k
        BY <1>3, <1>6 DEF OnceInv, InQueue
    <2>2. ASSUME NEW u \in Users, NEW d \in Conns, clients[u] = d PROVE ~InQueue(d, register)'
        BY <1>4, <1>6, <2>2, NoneAssumption DEF OnceInv
    <2> QED BY <1>2, <1>8, <2>1, <2>2 DEF OnceInv, InQueue
<1>11. ClosedInv'
    <2>1. ~isClosed[c] \/ c \in slow
        BY <1>2 DEF ClosedInv, Leaving
    <2> QED BY <1>2, <1>4, <1>5, <1>7, <2>1 DEF ClosedInv, Leaving, InQueue
<1>12. ReachInv'
    BY <1>2, <1>4, <1>5, <1>7 DEF ReachInv, Reading
<1>13. PanicHasCause'
    BY <1>2, <1>7, <1>8 DEF PanicHasCause
<1> QED BY <1>1, <1>9, <1>10, <1>11, <1>12, <1>13

LEMMA UnregisterPreserves ==
    ASSUME HubInv, NEW c \in Conns, Unregister(c) PROVE HubInv'
<1> USE DEF HubInv
<1>1. TypeOK'
    BY ConnTyped DEF ReadPump
<1>2. /\ unregister' = Append(unregister, c) /\ reader[c] = "leaving"
      /\ reader' = [reader EXCEPT ![c] = "closing"]
      /\ UNCHANGED <<clients, register, isClosed, panicked, slow>>
    BY DEF Unregister
<1>3. /\ Len(unregister') = Len(unregister) + 1 /\ Len(unregister) \in Nat
      /\ \A k \in 1..Len(unregister) : unregister'[k] = unregister[k] /\ unregister[k] \in Conns
      /\ unregister'[Len(unregister) + 1] = c
    BY <1>2, AppendQueue, QueueIsSeq DEF Unregister, TypeOK
<1>4. /\ reader'[c] = "closing" /\ \A d \in Conns \ {c} : reader'[d] = reader[d]
    BY <1>2 DEF TypeOK
<1>5. \A d \in Conns : Alone(d)' => Alone(d)
    BY <1>2, <1>4, AloneBefore
<1>6. /\ clients \in [Users -> Conns \cup {None}] /\ UserOf \in [Conns -> Users]
      /\ panicked \in Conns \cup {None} /\ register \in [1..Len(register) -> Conns]
    BY QueueIsSeq, UserOfAssumption DEF TypeOK
<1>7. PlacesInv'
    <2>1. \A k \in 1..Len(unregister') : Leaving(unregister[k])'
        BY <1>3, <1>4 DEF PlacesInv, Leaving
    <2> QED BY <1>2, <1>4, <1>6, <2>1 DEF PlacesInv, Pumping
<1>8. OnceInv'
    BY <1>2 DEF OnceInv, InQueue
<1>9. ClosedInv'
    BY <1>2, <1>4, <1>5 DEF ClosedInv, Leaving, InQueue
<1>10. ReachInv'
    BY <1>2, <1>4, <1>5 DEF ReachInv, Reading, InQueue
<1>11. PanicHasCause'
    BY <1>2, <1>5, <1>6 DEF PanicHasCause
<1> QED BY <1>1, <1>7, <1>8, <1>9, <1>10, <1>11

\* A pong meets a closed channel only if the connection was slow or had company.
LEMMA SendPongPreserves ==
    ASSUME HubInv, NEW c \in Conns, SendPong(c) PROVE HubInv'
<1>1. TypeOK'
    BY ConnTyped DEF HubInv, ReadPump
<1>2. CASE isClosed[c]
    <2>1. /\ panicked' = c /\ reader[c] = "ponging"
          /\ UNCHANGED <<clients, register, unregister, isClosed, slow, reader>>
        BY <1>2 DEF SendPong, hubVars
    <2>2. c \in slow
        BY <1>2, <2>1 DEF HubInv, ClosedInv, Leaving
    <2> QED BY <1>1, <2>1, <2>2, PanicStep
<1>3. CASE ~isClosed[c]
    <2>1. /\ reader[c] = "ponging" /\ reader' = [reader EXCEPT ![c] = "reading"]
          /\ UNCHANGED <<clients, register, unregister, isClosed, slow, panicked>>
        BY <1>3 DEF SendPong, hubVars
    <2> QED BY <1>1, <2>1, PumpStep DEF HubInv, TypeOK, Pumping, Leaving, Reading
<1> QED BY <1>2, <1>3

LEMMA ConnPreserves ==
    ASSUME HubInv, NEW c \in Conns, Handler(c) \/ PeerLeaves(c) \/ ReadPump(c) \/ WritePump(c)
    PROVE  HubInv'
<1>1. TypeOK /\ TypeOK'
    BY ConnTyped DEF HubInv
<1>2. CASE \/ Upgrade(c) \/ PeerLeaves(c) \/ ReadPing(c) \/ ReadFails(c) \/ CloseConn(c)
           \/ WritePump(c)
    <2>1. UNCHANGED <<clients, register, unregister, isClosed, slow, panicked>>
        BY <1>2 DEF Upgrade, PeerLeaves, ReadPing, ReadFails, CloseConn, WritePump, TakeMessage,
                    TakeClosed, Tick, WriteOk, WriteFails, hubVars
    <2>2. \A d \in Conns : /\ reader'[d] = "idle" => reader[d] = "idle"
                           /\ Pumping(d) => Pumping(d)'
                           /\ Leaving(d) => Leaving(d)'
                           /\ Reading(d)' => Reading(d)
        BY <1>1, <1>2 DEF Upgrade, PeerLeaves, ReadPing, ReadFails, CloseConn, WritePump, TakeMessage,
                    TakeClosed, Tick, WriteOk, WriteFails, TypeOK, Pumping, Leaving, Reading
    <2> QED BY <1>1, <2>1, <2>2, PumpStep
<1>3. CASE Register(c)
    BY <1>3, RegisterPreserves
<1>4. CASE Unregister(c)
    BY <1>4, UnregisterPreserves
<1>5. CASE SendPong(c)
    BY <1>5, SendPongPreserves
<1> QED BY <1>2, <1>3, <1>4, <1>5 DEF Handler, ReadPump

-----------------------------------------------------------------------------
(* Steps of the hub.                                                       *)

\* Two connections of a user are in each other's company.
LEMMA Company ==
    ASSUME NEW c \in Conns, NEW d \in Conns, c # d, UserOf[c] = UserOf[d], Pumping(c)
    PROVE  ~Alone(d)
BY DEF Alone, Pumping

\* The entry of a user is the connection, if it is the only one.
LEMMA EntryIsOwn ==
    ASSUME HubInv, NEW c \in Conns, Alone(c), clients[UserOf[c]] # None
    PROVE  clients[UserOf[c]] = c
<1>1. UserOf[c] \in Users /\ clients[UserOf[c]] \in Conns
    BY UserOfAssumption DEF HubInv, TypeOK
<1> QED BY <1>1, Company DEF HubInv, PlacesInv

LEMMA HubRegisterPreserves ==
    ASSUME HubInv, HubRegister PROVE HubInv'
<1> USE DEF HubInv
<1> DEFINE c == Head(register)
           u == UserOf[c]
<1>1. TypeOK'
    BY HubTyped DEF Hub
<1>2. /\ clients' = [clients EXCEPT ![u] = c] /\ register' = Tail(register)
      /\ UNCHANGED <<unregister, isClosed, reader, panicked, slow>>
    BY DEF HubRegister, connVars
<1>3. /\ c = register[1] /\ c \in Conns /\ 1 \in 1..Len(register)
      /\ Len(register) \in Nat /\ Len(register') = Len(register) - 1
      /\ \A k \in 1..Len(register') : k + 1 \in 1..Len(register) /\ register'[k] = register[k + 1]
    BY <1>2, TailQueue DEF HubRegister, TypeOK
<1>4. u \in Users /\ clients \in [Users -> Conns \cup {None}] /\ UserOf \in [Conns -> Users]
    BY <1>3, UserOfAssumption DEF TypeOK
<1>5. clients'[u] = c /\ \A v \in Users \ {u} : clients'[v] = clients[v]
    BY <1>2, <1>4
<1> HIDE DEF c, u
<1>6. Pumping(c) /\ InQueue(c, register)
    BY <1>3 DEF PlacesInv, InQueue
<1>7. ASSUME NEW d \in Conns, InQueue(d, register)' PROVE d # c /\ InQueue(d, register)
    <2>1. PICK k \in 1..Len(register') : register'[k] = d
        BY <1>7 DEF InQueue
    <2>2. k + 1 \in 1..Len(register) /\ register[k + 1] = d /\ k + 1 # 1
        BY <1>3, <2>1
    <2> QED BY <1>3, <2>2 DEF OnceInv, InQueue
<1>8. ASSUME NEW d \in Conns, d # c, InQueue(d, register) PROVE InQueue(d, register)'
    <2>1. PICK k \in 1..Len(register) : register[k] = d
        BY <1>8 DEF InQueue
    <2>2. k - 1 \in 1..Len(register') /\ register'[k - 1] = d
        BY <1>3, <1>8, <2>1
    <2> QED BY <2>2 DEF InQueue
<1>9. \A d \in Conns : Alone(d)' <=> Alone(d)
    BY <1>2 DEF Alone
<1>10. PlacesInv'
    <2>1. \A v \in Users : clients'[v] # None => UserOf[clients'[v]] = v /\ Pumping(clients[v])'
        BY <1>2, <1>4, <1>5, <1>6 DEF PlacesInv, Pumping, u
    <2>2. \A k \in 1..Len(register') : Pumping(register[k])'
        BY <1>2, <1>3 DEF PlacesInv, Pumping
    <2> QED BY <1>2, <2>1, <2>2 DEF PlacesInv, Pumping, Leaving
<1>11. OnceInv'
    <2>1. \A i, k \in 1..Len(register') : register'[i] = register'[k] => i = k
        BY <1>3 DEF OnceInv
    <2>2. ASSUME NEW v \in Users, NEW d \in Conns, clients'[v] = d PROVE ~InQueue(d, register)'
        BY <1>5, <1>7, <2>2, NoneAssumption DEF OnceInv
    <2>3. clients' \in [Users -> Conns \cup {None}]
        BY <1>1 DEF TypeOK
    <2> QED BY <2>1, <2>2, <2>3 DEF OnceInv, InQueue
<1>12. ClosedInv'
    <2> SUFFICES ASSUME NEW d \in Conns, isClosed[d], d \notin slow
                 PROVE  Leaving(d) /\ (Alone(d) => clients'[UserOf[d]] # d /\ ~InQueue(d, register)')
        BY <1>2, <1>9 DEF ClosedInv, Leaving, InQueue
    <2>1. Leaving(d) /\ (Alone(d) => clients[UserOf[d]] # d /\ ~InQueue(d, register))
        BY DEF ClosedInv
    <2> QED BY <1>4, <1>5, <1>6, <1>7, <2>1
<1>13. ReachInv'
    <2> SUFFICES ASSUME NEW d \in Conns, Alone(d), Reading(d)
                 PROVE  clients'[UserOf[d]] = d \/ InQueue(d, register)' \/ d \in slow
        BY <1>2, <1>9 DEF ReachInv, Reading, InQueue
    <2>1. clients[UserOf[d]] = d \/ InQueue(d, register) \/ d \in slow
        BY DEF ReachInv
    <2>2. d # c => UserOf[d] # u
        BY <1>3, <1>6, Company DEF u
    <2> QED BY <1>4, <1>5, <1>8, <2>1, <2>2 DEF u
<1>14. PanicHasCause'
    BY <1>2, <1>9 DEF PanicHasCause, TypeOK
<1> QED BY <1>1, <1>10, <1>11, <1>12, <1>13, <1>14

\* The hub takes the entry of a user out of its map.
LEMMA ForgetKeepsPlaces ==
    ASSUME HubInv, TypeOK', NEW u \in Users, clients' = [clients EXCEPT ![u] = None],
           UNCHANGED <<register, reader>>,
           \A k \in 1..Len(unregister') : \E n \in 1..Len(unregister) : unregister'[k] = unregister[n]
    PROVE  PlacesInv' /\ OnceInv'
<1>1. /\ clients \in [Users -> Conns \cup {None}] /\ clients' \in [Users -> Conns \cup {None}]
      /\ clients'[u] = None /\ \A v \in Users \ {u} : clients'[v] = clients[v]
    BY DEF HubInv, TypeOK
<1>2. PlacesInv'
    BY <1>1 DEF HubInv, PlacesInv, Pumping, Leaving
<1>3. OnceInv'
    BY <1>1 DEF HubInv, OnceInv, InQueue
<1> QED BY <1>2, <1>3

LEMMA HubUnregisterPreserves ==
    ASSUME HubInv, HubUnregister PROVE HubInv'
<1> USE DEF HubInv
<1> DEFINE c == Head(unregister)
           u == UserOf[c]
<1>1. TypeOK'
    BY HubTyped DEF Hub
<1>2. /\ unregister' = Tail(unregister)
      /\ UNCHANGED <<register, reader, slow>>
    BY DEF HubUnregister
<1>3. /\ c = unregister[1] /\ c \in Conns /\ 1 \in 1..Len(unregister)
      /\ \A k \in 1..Len(unregister') : k + 1 \in 1..Len(unregister) /\ unregister'[k] = unregister[k + 1]
    BY <1>2, TailQueue DEF HubUnregister, TypeOK
<1>4. u \in Users /\ clients \in [Users -> Conns \cup {None}] /\ UserOf \in [Conns -> Users]
    BY <1>3, UserOfAssumption DEF TypeOK
<1>5. Leaving(c) /\ Pumping(c)
    BY <1>3 DEF PlacesInv, Leaving, Pumping
<1>6. \A d \in Conns : Alone(d)' <=> Alone(d)
    BY <1>2 DEF Alone
<1>7. CASE clients[u] = None
    <2>1. UNCHANGED <<clients, isClosed, panicked>>
        BY <1>7 DEF HubUnregister
    <2>2. PlacesInv'
        BY <1>2, <1>3, <2>1 DEF PlacesInv, Pumping, Leaving
    <2>3. OnceInv' /\ ClosedInv' /\ ReachInv' /\ PanicHasCause'
        BY <1>2, <1>6, <2>1 DEF OnceInv, ClosedInv, ReachInv, PanicHasCause, InQueue, Leaving, Reading, TypeOK
    <2> QED BY <1>1, <2>2, <2>3
<1>8. CASE clients[u] # None
    <2>1. clients' = [clients EXCEPT ![u] = None] /\ CloseChannel(c)
        BY <1>8 DEF HubUnregister
    <2> HIDE DEF c, u
    <2>2. clients'[u] = None /\ \A v \in Users \ {u} : clients'[v] = clients[v]
        BY <1>4, <2>1
    <2>3. PlacesInv' /\ OnceInv'
        BY <1>1, <1>2, <1>3, <1>4, <2>1, ForgetKeepsPlaces
    <2>4. Alone(c) => clients[u] = c /\ ~InQueue(c, register)
        BY <1>3, <1>4, <1>8, EntryIsOwn DEF OnceInv, u
    <2>5. /\ \A d \in Conns \ {c} : isClosed'[d] = isClosed[d]
          /\ panicked' = panicked \/ (panicked' = c /\ isClosed[c])
        BY <1>3, <2>1 DEF CloseChannel, TypeOK
    <2>6. ClosedInv'
        <3> SUFFICES ASSUME NEW d \in Conns, isClosed'[d], d \notin slow
                     PROVE  Leaving(d) /\ (Alone(d) => clients'[UserOf[d]] # d /\ ~InQueue(d, register))
            BY <1>2, <1>6 DEF ClosedInv, Leaving, InQueue
        <3>1. CASE d = c
            BY <1>5, <2>2, <2>4, <3>1, NoneAssumption DEF u
        <3>2. CASE d # c
            <4>1. Leaving(d) /\ (Alone(d) => clients[UserOf[d]] # d /\ ~InQueue(d, register))
                BY <2>5, <3>2 DEF ClosedInv
            <4> QED BY <1>4, <2>2, <4>1, NoneAssumption
        <3> QED BY <3>1, <3>2
    <2>7. ReachInv'
        <3> SUFFICES ASSUME NEW d \in Conns, Alone(d), Reading(d)
                     PROVE  clients'[UserOf[d]] = d \/ InQueue(d, register) \/ d \in slow
            BY <1>2, <1>6 DEF ReachInv, Reading, InQueue
        <3>1. d # c
            BY <1>5 DEF Reading, Leaving
        <3>2. UserOf[d] # u
            BY <1>3, <1>5, <3>1, Company DEF u
        <3> QED BY <1>4, <2>2, <3>2 DEF ReachInv
    <2>8. PanicHasCause'
        <3>1. isClosed[c] => c \in slow \/ ~Alone(c)
            BY <1>3, <2>4 DEF ClosedInv, u
        <3> QED BY <1>2, <1>3, <1>6, <2>5, <3>1 DEF PanicHasCause, TypeOK
    <2> QED BY <1>1, <2>3, <2>6, <2>7, <2>8
<1> QED BY <1>7, <1>8

LEMMA HubDropPreserves ==
    ASSUME HubInv, HubDrop PROVE HubInv'
<1> USE DEF HubInv
<1> DEFINE c == dropping
           u == UserOf[c]
<1>1. TypeOK'
    BY HubTyped DEF Hub
<1>2. UNCHANGED <<register, unregister, reader>> /\ c \in Conns
    BY DEF HubDrop, TypeOK
<1>3. u \in Users /\ clients \in [Users -> Conns \cup {None}] /\ UserOf \in [Conns -> Users]
    BY <1>2, UserOfAssumption DEF TypeOK
<1>4. \A d \in Conns : Alone(d)' <=> Alone(d)
    BY <1>2 DEF Alone
<1>5. CASE clients[u] # c
    <2>1. UNCHANGED <<clients, isClosed, panicked, slow>>
        BY <1>5 DEF HubDrop
    <2> QED BY <1>1, <1>2, <1>4, <2>1
            DEF PlacesInv, OnceInv, ClosedInv, ReachInv, PanicHasCause, InQueue, Pumping, Leaving,
                Reading, TypeOK
<1>6. CASE clients[u] = c
    <2>1. clients' = [clients EXCEPT ![u] = None] /\ CloseChannel(c) /\ slow' = slow \cup {c}
        BY <1>6 DEF HubDrop
    <2>2. clients'[u] = None /\ \A v \in Users \ {u} : clients'[v] = clients[v]
        BY <1>3, <2>1
    <2>3. PlacesInv' /\ OnceInv'
        BY <1>1, <1>2, <1>3, <2>1, ForgetKeepsPlaces
    <2>4. Pumping(c)
        BY <1>2, <1>3, <1>6, NoneAssumption DEF PlacesInv
    <2>5. /\ \A d \in Conns \ {c} : isClosed'[d] = isClosed[d]
          /\ panicked' = panicked \/ panicked' = c
        BY <1>2, <2>1 DEF CloseChannel, TypeOK
    <2>6. ClosedInv'
        <3> SUFFICES ASSUME NEW d \in Conns, isClosed'[d], d \notin slow'
                     PROVE  Leaving(d) /\ (Alone(d) => clients'[UserOf[d]] # d /\ ~InQueue(d, register))
            BY <1>2, <1>4 DEF ClosedInv, Leaving, InQueue
        <3>1. Leaving(d) /\ (Alone(d) => clients[UserOf[d]] # d /\ ~InQueue(d, register))
            BY <2>1, <2>5 DEF ClosedInv
        <3> QED BY <1>3, <2>2, <3>1, NoneAssumption
    <2>7. ReachInv'
        <3> SUFFICES ASSUME NEW d \in Conns, Alone(d), Reading(d)
                     PROVE  clients'[UserOf[d]] = d \/ InQueue(d, register) \/ d \in slow'
            BY <1>2, <1>4 DEF ReachInv, Reading, InQueue
        <3>1. CASE d = c
            BY <2>1, <3>1
        <3>2. CASE d # c
            <4>1. UserOf[d] # u
                BY <1>2, <2>4, <3>2, Company
            <4> QED BY <1>3, <2>1, <2>2, <4>1 DEF ReachInv
        <3> QED BY <3>1, <3>2
    <2>8. PanicHasCause'
        BY <1>4, <2>1, <2>5 DEF PanicHasCause, TypeOK
    <2> QED BY <1>1, <2>3, <2>6, <2>7, <2>8
<1> QED BY <1>5, <1>6

LEMMA HubSendPreserves ==
    ASSUME HubInv, NEW u \in Users, HubSend(u) PROVE HubInv'
<1>1. TypeOK'
    BY HubTyped DEF HubInv, Hub
<1>2. clients[u] \in Conns /\ UserOf[clients[u]] = u
    BY DEF HubSend, HubInv, TypeOK, PlacesInv
<1>3. UNCHANGED <<clients, register, unregister, isClosed, slow, reader>>
    BY DEF HubSend
<1>4. CASE panicked' = clients[u] /\ isClosed[clients[u]]
    <2> DEFINE c == clients[u]
    <2>1. c \in slow \/ ~Alone(c)
        BY <1>2, <1>4 DEF HubInv, ClosedInv
    <2>2. c \in Conns /\ panicked' = c
        BY <1>2, <1>4
    <2> HIDE DEF c
    <2> QED BY <1>1, <1>3, <2>1, <2>2, PanicStep
<1>5. CASE UNCHANGED panicked
    BY <1>1, <1>3, <1>5, PumpStep DEF Pumping, Leaving, Reading
<1> QED BY <1>4, <1>5 DEF HubSend

-----------------------------------------------------------------------------
LEMMA InitHub == Init => HubInv
<1> SUFFICES ASSUME Init PROVE HubInv
    OBVIOUS
<1>1. <<>> \in Queue /\ Len(<<>>) = 0
    <2>1. <<>> \in Seq(Conns) /\ Len(<<>>) = 0
        BY EmptySeq
    <2>2. Len(<<>>) <= QueueCap
        BY <2>1, CapAssumption
    <2> QED BY <2>1, <2>2, SeqIsQueue
<1>2. TypeOK
    BY <1>1, CapAssumption DEF Init, TypeOK
<1>3. PlacesInv /\ OnceInv /\ ClosedInv /\ ReachInv /\ PanicHasCause
    BY <1>1 DEF Init, PlacesInv, OnceInv, ClosedInv, ReachInv, PanicHasCause, Reading, InQueue
<1> QED BY <1>2, <1>3 DEF HubInv

LEMMA NextHub == HubInv /\ [Next]_vars => HubInv'
<1> SUFFICES ASSUME HubInv, [Next]_vars PROVE HubInv'
    OBVIOUS
<1>1. ASSUME NEW c \in Conns, Handler(c) \/ PeerLeaves(c) \/ ReadPump(c) \/ WritePump(c)
      PROVE  HubInv'
    BY <1>1, ConnPreserves
<1>2. CASE Hub
    BY <1>2, HubRegisterPreserves, HubUnregisterPreserves, HubDropPreserves, HubSendPreserves DEF Hub
<1>3. CASE UNCHANGED vars
    BY <1>3 DEF vars, hubVars, connVars, HubInv, TypeOK, PlacesInv, OnceInv, ClosedInv, ReachInv,
                PanicHasCause, Alone, InQueue, Pumping, Leaving, Reading
<1> QED BY <1>1, <1>2, <1>3 DEF Next

\* The invariant above, whatever the number of connections and the capacities.
LEMMA HubInvariant == Spec => []HubInv
BY InitHub, NextHub, PTL DEF Spec

(* newPresenceHandler, Hub.Run and the pumps: presence updates reach the   *)
(* only connection of a user as long as its pumps run and it keeps up.     *)
THEOREM OnlyConnectionsAreReached == Spec => []OnlyConnectionIsReachable
<1>1. HubInv => OnlyConnectionIsReachable
    BY DEF HubInv, ReachInv, OnlyConnectionIsReachable, Reading
<1> QED BY <1>1, HubInvariant, PTL

(* close(client.send) and the sends on it: one user with one connection    *)
(* that keeps up never ends the process.                                   *)
THEOREM PanicsHaveCause == Spec => []PanicHasCause
<1>1. HubInv => PanicHasCause
    BY DEF HubInv
<1> QED BY <1>1, HubInvariant, PTL
=============================================================================
