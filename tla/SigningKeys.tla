---------------------------- MODULE SigningKeys ----------------------------
(* The keys that sign and verify tokens, while a team rotates them under   *)
(* running replicas of the backend.  A process reads its keys when it      *)
(* starts (JWT_KEYS_JSON, or JWT_SECRET alone) and keeps them; a token     *)
(* names its key (kid), but for the tokens of a release before kids.       *)
(*                                                                         *)
(* The rotation itself is the team's and external: a key is added, then    *)
(* made active once every running replica has it, then removed once no     *)
(* replica signs with it and no token of it lives.  A kid may be used      *)
(* again, with another secret.                                             *)
(*                                                                         *)
(* Issuer, audience and nbf do not change and are left out.  The pair of   *)
(* tokens of a session is one element of Pairs.                            *)
EXTENDS Naturals

CONSTANTS Replicas, Kids, Secrets, Pairs, None

ASSUME NoneAssumption == None \notin Kids /\ None \notin Secrets

VARIABLES
    env,        \* [keys, active]: what a process finds when it starts
    config,     \* config[r]: what it found, or None while it is down
    token       \* token[i]: [kid, secret, live], the kinds not yet expired

keyVars == <<env, config, token>>

Keyring == [Kids -> Secrets \cup {None}]
Tokens  == [kid : Kids \cup {None}, secret : Secrets \cup {None},
            live : SUBSET {"access", "refresh"}]

Unissued    == [kid |-> None, secret |-> None, live |-> {}]
Running     == {r \in Replicas : config[r] # None}
Named(keys) == {k \in Kids : keys[k] # None}

KeysInit ==
    \E k \in Kids, s \in Secrets :
        /\ \E active \in {None, k} :
             env = [keys |-> [j \in Kids |-> IF j = k THEN s ELSE None], active |-> active]
        /\ config = [r \in Replicas |-> None]
        /\ token \in [Pairs -> {Unissued,
                                [kid |-> None, secret |-> s, live |-> {"access", "refresh"}]}]

-----------------------------------------------------------------------------
(* A process starts, unless its configuration is refused.                  *)

ActiveKids(e) == IF e.active = None THEN Named(e.keys) ELSE {e.active} \cap Named(e.keys)

\* resolveJwtKeyRotationConfig: two keys need an active one, which must be a key.
Start(r) ==
    /\ config[r] = None
    /\ \E k \in Kids :
         /\ ActiveKids(env) = {k}
         /\ config' = [config EXCEPT ![r] = [keys |-> env.keys, active |-> k]]
    /\ UNCHANGED <<env, token>>

Stop(r) ==
    /\ config[r] # None
    /\ config' = [config EXCEPT ![r] = None]
    /\ UNCHANGED <<env, token>>

-----------------------------------------------------------------------------
(* Tokens.                                                                 *)

\* Mutant: a token without a kid is taken to be of the active key.
ActiveCandidate(c, t) == IF t.kid # None THEN {t.kid} \cap Named(c.keys) ELSE {c.active}

\* resolveVerificationCandidates
Candidates(c, t) == IF t.kid # None THEN {t.kid} \cap Named(c.keys) ELSE Named(c.keys)

Verifies(c, t) == \E k \in Candidates(c, t) : c.keys[k] = t.secret

\* An access token opens a request, a refresh token the rotation of the session.
Authenticate(r, i) == "access" \in token[i].live /\ Verifies(config[r], token[i])

VerifyRefreshToken(r, i) == "refresh" \in token[i].live /\ Verifies(config[r], token[i])

\* createJwtSigner, createRefreshTokenSigner
Signed(r) == [kid |-> config[r].active, secret |-> config[r].keys[config[r].active],
              live |-> {"access", "refresh"}]

SignIn(r, i) ==
    /\ config[r] # None /\ token[i].live = {}
    /\ token' = [token EXCEPT ![i] = Signed(r)]
    /\ UNCHANGED <<env, config>>

Rotate(r, i) ==
    /\ config[r] # None
    /\ VerifyRefreshToken(r, i)
    /\ token' = [token EXCEPT ![i] = Signed(r)]
    /\ UNCHANGED <<env, config>>

TokenExpires(i, kind) ==
    /\ kind \in token[i].live
    /\ token' = [token EXCEPT ![i].live = @ \ {kind}]
    /\ UNCHANGED <<env, config>>

-----------------------------------------------------------------------------
(* The rotation.                                                           *)

AddKey(k, s) ==
    /\ env.keys[k] = None /\ \A j \in Kids : env.keys[j] # s
    /\ \A r \in Running : config[r].keys[k] = None
    /\ env' = [env EXCEPT !.keys[k] = s]
    /\ UNCHANGED <<config, token>>

Activate(k) ==
    /\ env.keys[k] # None
    /\ \A r \in Running : config[r].keys[k] = env.keys[k]
    /\ env' = [env EXCEPT !.active = k]
    /\ UNCHANGED <<config, token>>

RemoveKey(k) ==
    /\ env.keys[k] # None /\ env.active # k
    /\ \A r \in Running : config[r].active # k
    /\ \A i \in Pairs : token[i].live # {} => token[i].secret # env.keys[k]
    /\ env' = [env EXCEPT !.keys[k] = None]
    /\ UNCHANGED <<config, token>>

KeysNext ==
    \/ \E r \in Replicas : Start(r) \/ Stop(r) \/ \E i \in Pairs : SignIn(r, i) \/ Rotate(r, i)
    \/ \E i \in Pairs, kind \in {"access", "refresh"} : TokenExpires(i, kind)
    \/ \E k \in Kids : Activate(k) \/ RemoveKey(k) \/ \E s \in Secrets : AddKey(k, s)

KeysSpec == KeysInit /\ [][KeysNext]_keyVars

-----------------------------------------------------------------------------
(* Properties *)

KeysTypeOK ==
    /\ env \in [keys : Keyring, active : Kids \cup {None}]
    /\ config \in [Replicas -> [keys : Keyring, active : Kids] \cup {None}]
    /\ token \in [Pairs -> Tokens]

(* A rotation signs nobody out: while replicas stop and start one by one,  *)
(* with the configuration of before or after a change, every running       *)
(* replica accepts every token that has not expired, whichever replica     *)
(* signed it and whether or not it names its key.                          *)
RotationSignsNobodyOut ==
    \A r \in Running, i \in Pairs :
        /\ "access" \in token[i].live => Authenticate(r, i)
        /\ "refresh" \in token[i].live => VerifyRefreshToken(r, i)
=============================================================================
