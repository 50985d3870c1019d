-------------------------- MODULE MCRefreshSession --------------------------
(* A behaviour is one of the sessions of RefreshSession or of the keys of  *)
(* SigningKeys: the first takes a signature for granted, the second what   *)
(* the session says.                                                       *)
(*                                                                         *)
(* Sessions: one on one backend, which is what docker-compose deploys.     *)
(* Four handlers are enough for every race of the service: one issues the  *)
(* session, one holds the lock, one waits for it and one arrives when the  *)
(* holder leaves.                                                          *)
(*                                                                         *)
(* Keys: two replicas, three secrets under two names, so that a name is    *)
(* used again while an older token lives.                                  *)
EXTENDS RefreshSession, SigningKeys, TLC

CONSTANTS s1, i1

VARIABLE area

SingleRoute == s1 :> {i1}

NoKeys == env = None /\ config = [r \in Replicas |-> None]
                     /\ token = [i \in Pairs |-> Unissued]

MCInit == /\ Init
          /\ \/ area = "sessions" /\ NoKeys
             \/ area = "keys" /\ KeysInit

MCNext ==
    /\ \/ area = "sessions" /\ Next /\ UNCHANGED keyVars
       \/ area = "keys" /\ KeysNext /\ UNCHANGED vars
    /\ UNCHANGED area

MCSpec == MCInit /\ [][MCNext]_<<area, vars, keyVars>>

ReqSymmetry == Permutations(Reqs)
=============================================================================
