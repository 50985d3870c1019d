----------------------------- MODULE MCFrontend -----------------------------
(* The parts of a browser tab beside its session: the presence connection  *)
(* (one tab that signs in twice) and the query cache, of which a behaviour *)
(* uses the screen of one kind.  They share no state.  MaxSockets is the   *)
(* number of sign-ins plus the number of faults, so no socket is missing.  *)
EXTENDS SocialCache, PresenceClient

CONSTANTS p1, p2, asker

VARIABLE screen

TwoReactions == [p \in Pages |-> IF p = p1 THEN 1 ELSE 0]

FrontendInit ==
    /\ screen \in {"presence", "feed", "friends", "inbox", "profile", "forms"}
    /\ CacheInit /\ Init
    /\ mine = {p1}
    /\ server["requests"].shows = {asker}

FrontendNext ==
    /\ \/ screen = "presence" /\ Next /\ UNCHANGED cacheVars
       \/ screen = "feed"    /\ (FeedNext \/ Answers({"feed"})) /\ UNCHANGED vars
       \/ screen = "friends" /\ (CircleNext \/ Answers({"friends", "profile"})) /\ UNCHANGED vars
       \/ screen = "inbox"   /\ (InboxNext \/ Answers({"inbox"})) /\ UNCHANGED vars
       \/ screen = "profile" /\ (SelfNext \/ Answers({"otaku", "profile"})) /\ UNCHANGED vars
       \/ screen = "forms"   /\ (FormsNext \/ Answers({"accounts", "communities"})) /\ UNCHANGED vars
    /\ UNCHANGED screen

\* Polling is fair on its screen only; the tab's effects need no such guard,
\* they are not enabled elsewhere.
FrontendSpec ==
    /\ FrontendInit /\ [][FrontendNext]_<<screen, cacheVars, vars>>
    /\ Fairness
    /\ screen = "inbox" => Polling

FrontendTypeOK == CacheTypeOK /\ TypeOK
=============================================================================
