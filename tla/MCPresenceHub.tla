--------------------------- MODULE MCPresenceHub ---------------------------
(* Two users, one with two connections, one with one.                      *)
EXTENDS PresenceHub, TLC

CONSTANTS a1, a2, b1, ua, ub

TwoTabs == [c \in {a1, a2, b1} |-> IF c = b1 THEN ub ELSE ua]

TabSymmetry == Permutations({a1, a2})
=============================================================================
