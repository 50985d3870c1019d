------------------------------ MODULE Content ------------------------------
(* The REST components that only share the request handlers: a behaviour   *)
(* is one of presence, posts, communities, library, showcase or streaks    *)
(* (Areas), so that their state spaces add up.                             *)
EXTENDS PresenceStore, Posts, Communities, Library, OtakuLibrary, Continuity

CONSTANT Areas
ASSUME AreasAssumption ==
    Areas \subseteq {"presence", "posts", "communities", "library", "showcase", "streaks"}

VARIABLE area

contentVars == <<area, handlerVars, presenceVars, postsVars, communityVars, libraryVars,
                 otakuVars, continuityVars>>

ContentInit ==
    /\ area \in Areas
    /\ HandlersInit /\ PresenceInit /\ PostsInit /\ CommunitiesInit
    /\ LibraryInit /\ OtakuInit /\ ContinuityInit

PresenceArea ==
    /\ area = "presence" /\ PresenceNext
    /\ UNCHANGED <<postsVars, communityVars, libraryVars, otakuVars, continuityVars>>

PostsArea ==
    /\ area = "posts" /\ PostsNext
    /\ UNCHANGED <<presenceVars, communityVars, libraryVars, otakuVars, continuityVars>>

CommunitiesArea ==
    /\ area = "communities" /\ CommunitiesNext
    /\ UNCHANGED <<presenceVars, postsVars, libraryVars, otakuVars, continuityVars>>

LibraryArea ==
    /\ area = "library" /\ LibraryNext
    /\ UNCHANGED <<presenceVars, postsVars, communityVars, otakuVars, continuityVars>>

ShowcaseArea ==
    /\ area = "showcase" /\ OtakuNext
    /\ UNCHANGED <<presenceVars, postsVars, communityVars, libraryVars, continuityVars>>

StreaksArea ==
    /\ area = "streaks" /\ ContinuityNext
    /\ UNCHANGED <<presenceVars, postsVars, communityVars, libraryVars, otakuVars, handlerVars>>

ContentNext ==
    /\ PresenceArea \/ PostsArea \/ CommunitiesArea \/ LibraryArea \/ ShowcaseArea \/ StreaksArea
    /\ UNCHANGED area

ContentSpec == ContentInit /\ [][ContentNext]_contentVars

(* Every table, and every history variable, keeps its type.                *)
ContentTypeOK ==
    /\ PresenceTypeOK /\ PostsTypeOK /\ CommunitiesTypeOK
    /\ LibraryTypeOK /\ OtakuTypeOK /\ ContinuityTypeOK
=============================================================================
