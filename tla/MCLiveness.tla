----------------------------- MODULE MCLiveness -----------------------------
(* What must end in the end, in the two components that wait: the lock     *)
(* chain of the refresh-session service and the sockets of the presence    *)
(* hub.  They share no state; a behaviour is one of the first or one of    *)
(* the second, so that their state spaces add instead of multiplying.      *)
EXTENDS PresenceHub

CONSTANTS
    a1, a2, ua,
    s1, i1, Sessions, Reqs, Instances, Route

VARIABLES
    part,
    store, lock, pc, call, plan, result, signed, known, closed

SingleRoute == [s \in {s1} |-> {i1}]
OneUser     == [c \in {a1, a2} |-> ua]

Service == INSTANCE RefreshSession

serviceVars == <<store, lock, pc, call, plan, result, signed, known, closed>>

(* Whoever waits for the lock of a session is answered.                    *)
EveryCallEnds == Service!EveryCallEnds

LiveInit == part \in {"sessions", "hub"} /\ Init /\ Service!Init

LiveNext ==
    /\ \/ part = "hub" /\ Next /\ UNCHANGED serviceVars
       \/ part = "sessions" /\ Service!Next /\ UNCHANGED vars
    /\ UNCHANGED part

\* In the first state of either part no fair action of the other is enabled.
LiveSpec ==
    /\ LiveInit /\ [][LiveNext]_<<part, vars, serviceVars>>
    /\ Fairness /\ Service!Fairness
=============================================================================
