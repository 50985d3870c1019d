----------------------------- MODULE MCContent -----------------------------
(* The REST components on one instance.                                    *)
EXTENDS Content, TLC

CONSTANTS a, b, p1, p2, p3, c1, c2, c3, g1, g2, g3, d1, s1, s2, i1, i2

\* What clients send: a game with details, and OFFLINE with a stale game.
SentPresences == {[status |-> "IN_GAME", game |-> g1, details |-> d1],
                  [status |-> "OFFLINE", game |-> g1, details |-> None]}

\* Two posts of a; c1 and its reply c2 are comments of the first.
TwoPosts == <<p1, p2>>
Thread   == [c \in CommentIds |-> CASE c = c1 -> [post |-> p1, parent |-> None]
                                    [] c = c2 -> [post |-> p1, parent |-> c1]
                                    [] OTHER  -> None]

\* One community of a, and one slug that is free.
OneFounded == [s \in Slugs |-> IF s = s1 THEN a ELSE None]

\* Two Steam accounts with one game in common.
Shelves == [i \in SteamIds |-> IF i = i1 THEN {g1} ELSE {g1, g2}]

\* Handlers are interchangeable; users are not: a is the author of the old posts.
HandlerSymmetry == Permutations(Handlers)
=============================================================================
