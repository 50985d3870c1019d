----------------------- MODULE MCAccountConnections -----------------------
(* A behaviour is one of the requests on the rows of AccountConnections    *)
(* ("rows") or one of the round trips of ConnectFlow ("trips"): a login    *)
(* state is the input of the first and the subject of the second.          *)
(*                                                                         *)
(* Rows: one account at Google, with a verified email, and two at Discord, *)
(* which has both kinds of connection.  Two requests at a time make every  *)
(* race between two; one OAuth state at a time is enough, since starting a *)
(* flow changes nothing else: two overlapping callbacks are started one    *)
(* after the other.                                                        *)
(*                                                                         *)
(* Trips: two, of one user or of two, through one provider, to the same    *)
(* account or to two, each callback sent twice.                            *)
EXTENDS AccountConnections, ConnectFlow, TLC

CONSTANTS u1, u2, r1, r2, google, discord, g1, d1, d2, mail

VARIABLES area

tripVars == <<handlerVars, connectVars>>

MCProviderOf    == g1 :> google @@ d1 :> discord @@ d2 :> discord
MCVerifiedEmail == g1 :> mail @@ d1 :> None @@ d2 :> None

AccountsInit == area \in {"rows", "trips"} /\ Init /\ HandlersInit /\ ConnectInit

AccountsNext ==
    /\ \/ area = "rows" /\ Next /\ UNCHANGED tripVars
       \/ area = "trips" /\ ConnectNext /\ UNCHANGED vars
    /\ UNCHANGED area

AccountsSpec == AccountsInit /\ [][AccountsNext]_<<area, vars, tripVars>>

\* Neither identity at Discord has a verified email.
Symmetry == Permutations(Users) \cup Permutations(Reqs) \cup Permutations({d1, d2})
=============================================================================
