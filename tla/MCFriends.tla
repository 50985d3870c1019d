----------------------------- MODULE MCFriends -----------------------------
(* Two users and enough handlers for a request, an accept, a removal and   *)
(* one handler that read before all of them and writes after.              *)
EXTENDS Friends, TLC

UserReqSymmetry == Permutations(Users) \cup Permutations(Reqs)
=============================================================================
