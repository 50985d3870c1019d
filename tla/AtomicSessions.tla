--------------------------- MODULE AtomicSessions ---------------------------
(***************************************************************************)
(* What the refresh-session store promises its clients, whatever the       *)
(* interleaving of the HTTP requests that use it: every session goes       *)
(* through one life, and every change of it is one atomic step.            *)
(*                                                                         *)
(*   absent --Open--> active --Rotate--> active ... --Close--> revoked     *)
(*                                                                         *)
(* Lapse is the TTL of the Redis record.  A session that lapsed while a    *)
(* rotation was under way may come back, one that was closed never does.   *)
(***************************************************************************)
EXTENDS Integers

CONSTANT Sessions

VARIABLES
    store,   \* store[s]: the record of session s
    closed   \* sessions that were revoked at some time

vars == <<store, closed>>

Active(t)       == [status |-> "active",  token |-> t, reason |-> "none"]
Revoked(t, why) == [status |-> "revoked", token |-> t, reason |-> why]
Absent          == [status |-> "absent",  token |-> 0, reason |-> "none"]

Init ==
    /\ store = [s \in Sessions |-> Absent]
    /\ closed = {}

(***************************************************************************)
(* Open and Rotate install a token newer than the one the store held: an   *)
(* older token never becomes current again.                                *)
(***************************************************************************)
Install(s) ==
    /\ s \notin closed
    /\ store'[s].token > store[s].token
    /\ store' = [store EXCEPT ![s] = Active(store'[s].token)]
    /\ UNCHANGED closed

Open(s)   == store[s] = Absent /\ Install(s)
Rotate(s) == store[s].status = "active" /\ Install(s)

Close(s) ==
    /\ s \notin closed
    /\ closed' = closed \cup {s}
    /\ \E why \in {"logout", "refresh_token_reuse"} :
         store' = [store EXCEPT ![s] = Revoked(store'[s].token, why)]
    /\ store[s] = Absent \/ store'[s].token = store[s].token

Lapse(s) ==
    /\ store[s] # Absent
    /\ store' = [store EXCEPT ![s] = Absent]
    /\ UNCHANGED closed

Next == \E s \in Sessions : Open(s) \/ Rotate(s) \/ Close(s) \/ Lapse(s)

Spec == Init /\ [][Next]_vars
=============================================================================
