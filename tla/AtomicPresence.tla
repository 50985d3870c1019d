--------------------------- MODULE AtomicPresence ---------------------------
(***************************************************************************)
(* What the presence store promises, whatever the interleaving of updates  *)
(* that write Redis, then Postgres, then announce the new presence:        *)
(*                                                                         *)
(*   - what a reader is shown changes only to values in doubt: the value   *)
(*     of the last update that ran alone, and those of the updates that    *)
(*     began since.  Once an update that ran alone is stored nothing but   *)
(*     it is shown, however long nobody writes and whatever Redis forgets; *)
(*   - a user is told a presence only as a friend of that player, and only *)
(*     values in doubt.                                                    *)
(***************************************************************************)
CONSTANTS Users, Players, Presences, Nobody

VARIABLES
    shown,    \* shown[p]: what a reader of p sees now
    told,     \* told[u][p]: the last presence of p announced to u
    doubt,    \* doubt[p]: the presences that readers of p may see
    circle    \* circle[p]: who was a friend of p since the update in flight began

vars == <<shown, told, doubt, circle>>

Init ==
    /\ shown \in [Players -> Presences]
    /\ told = [u \in Users |-> [p \in Players |-> Nobody]]
    /\ doubt = [p \in Players |-> {shown[p]}]
    /\ circle \in [Players -> SUBSET Users]

\* An update begins: its value may show from now on, former friends may go.
Update(p) ==
    /\ \E v \in Presences : doubt' = [doubt EXCEPT ![p] = @ \cup {v}]
    /\ \E U \in SUBSET circle[p] : circle' = [circle EXCEPT ![p] = U]
    /\ UNCHANGED <<shown, told>>

\* A write lands, or Redis forgets its copy.
Move(p) ==
    /\ shown'[p] \in doubt[p]
    /\ shown' = [shown EXCEPT ![p] = shown'[p]]
    /\ UNCHANGED <<told, doubt, circle>>

\* An update that ran alone is stored.
Settle(p) ==
    /\ shown'[p] \in doubt[p]
    /\ shown' = [shown EXCEPT ![p] = shown'[p]]
    /\ doubt' = [doubt EXCEPT ![p] = {shown'[p]}]
    /\ UNCHANGED <<told, circle>>

Announce(p) ==
    \E U \in SUBSET circle[p], v \in doubt[p] :
        /\ told' = [u \in Users |-> IF u \in U THEN [told[u] EXCEPT ![p] = v] ELSE told[u]]
        /\ UNCHANGED <<shown, doubt, circle>>

Befriend(p, u) ==
    /\ circle' = [circle EXCEPT ![p] = @ \cup {u}]
    /\ UNCHANGED <<shown, told, doubt>>

Next == \E p \in Players :
    \/ Update(p) \/ Move(p) \/ Settle(p) \/ Announce(p)
    \/ \E u \in Users : Befriend(p, u)

Spec == Init /\ [][Next]_vars
=============================================================================
