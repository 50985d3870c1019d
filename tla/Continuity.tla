----------------------------- MODULE Continuity -----------------------------
(***************************************************************************)
(* Streaks: social-continuity.service.ts.  A day (UTC) counts for a user   *)
(* who posted or commented on it; the streak is the run of days that ends  *)
(* today or yesterday, and a shared offensive is the streak of the days    *)
(* two friends have in common.                                             *)
(*                                                                         *)
(* Everything is computed when a profile is read, so that a post deleted   *)
(* later takes its day with it.  Days are numbered; a day stands for all   *)
(* the posts and comments a user made on it.                               *)
(***************************************************************************)
EXTENDS Ordering

CONSTANTS
    People,   \* the owner of the profile and the friends
    LastDay   \* bound: the days of a behaviour

ASSUME LastDayAssumption == LastDay \in Nat

VARIABLES
    today,    \* currentUtcDayKey
    active    \* active[p]: the days on which p posted or commented

continuityVars == <<today, active>>

ContinuityInit == today = 0 /\ active = [p \in People |-> {}]

\* buildQualifyingDayMap: the days of a user, latest first.
DayKeys(days) == Descending(days, [d \in days |-> d])

\* Mutant: activity of the day before does not keep the streak.
StreakEndsAtMidnight(keys, reference) ==
    IF keys = << >> \/ reference - Head(keys) > 0 THEN 0
    ELSE CHOOSE n \in 1..Len(keys) :
           /\ \A i \in 2..n : keys[i - 1] - keys[i] = 1
           /\ n = Len(keys) \/ keys[n] - keys[n + 1] # 1

\* calculateActiveStreakDays: stop at the first gap.
ActiveStreakDays(keys, reference) ==
    IF keys = << >> \/ reference - Head(keys) > 1 THEN 0
    ELSE CHOOSE n \in 1..Len(keys) :
           /\ \A i \in 2..n : keys[i - 1] - keys[i] = 1
           /\ n = Len(keys) \/ keys[n] - keys[n + 1] # 1

\* calculateSharedOffensive: the days of the user that the friend has too.
SharedOffensive(keys, friendKeys, reference) ==
    LET inBoth == {i \in DOMAIN keys : \E k \in DOMAIN friendKeys : friendKeys[k] = keys[i]}
    IN ActiveStreakDays(Filtered(keys, inBoth), reference)

Streak(p)    == ActiveStreakDays(DayKeys(active[p]), today)
Shared(p, q) == SharedOffensive(DayKeys(active[p]), DayKeys(active[q]), today)

Act(p) ==
    /\ active' = [active EXCEPT ![p] = @ \cup {today}]
    /\ UNCHANGED today

\* The only post or comment of a day is deleted.
Erase(p, d) ==
    /\ d \in active[p]
    /\ active' = [active EXCEPT ![p] = @ \ {d}]
    /\ UNCHANGED today

Midnight ==
    /\ today < LastDay
    /\ today' = today + 1
    /\ UNCHANGED active

ContinuityNext ==
    \/ Midnight
    \/ \E p \in People : Act(p) \/ \E d \in 0..today : Erase(p, d)

ContinuitySpec == ContinuityInit /\ [][ContinuityNext]_continuityVars

-----------------------------------------------------------------------------
(* Properties *)

ContinuityTypeOK ==
    /\ today \in 0..LastDay
    /\ active \in [People -> SUBSET (0..LastDay)]

\* What a streak means: n days in a row, the last of them today or yesterday.
RunEndingAt(days, last) ==
    {n \in 0..(last + 1) : \A d \in (last - n + 1)..last : d \in days}
Longest(S) == CHOOSE n \in S : \A m \in S : m <= n
StreakMeans(days) ==
    IF today \in days THEN Longest(RunEndingAt(days, today))
    ELSE Longest(RunEndingAt(days, today - 1))

(* The streak computed from sorted keys is the run of days it stands for,  *)
(* at midnight, with gaps and after deletions; a shared offensive is the   *)
(* same for both friends, and never longer than the streak of either.      *)
StreaksAreRuns ==
    \A p, q \in People :
        /\ Streak(p) = StreakMeans(active[p])
        /\ Shared(p, q) = StreakMeans(active[p] \cap active[q])
        /\ Shared(p, q) = Shared(q, p) /\ Shared(p, q) <= Streak(p)
=============================================================================
