----------------------------- MODULE RespectTable -----------------------------
(***************************************************************************)
(* Respect points and respect levels: user.service.ts                      *)
(* getUserRespectLevel, getUserRespectPointsByLevel, decrementUserLevel.   *)
(***************************************************************************)
EXTENDS Integers

Levels == 1..7

\* The highest number of points of each level below the last.
Ceiling == <<51, 150, 300, 475, 700, 950>>

\* The range of level l holds the points.  Both ends of the first two ranges
\* are FIFTY_ONE in the code, whose first range wins: 51 points are level one.
Ranks(l, points) ==
    /\ l < 7 => points <= Ceiling[l]
    /\ l > 1 => points > Ceiling[l - 1]

\* getUserRespectLevel
LevelOf(points) == CHOOSE l \in Levels : Ranks(l, points)

\* Mutant: the ceiling of the range of the level below.
PointsOfCeiling(level) == <<0, 51, 150, 300, 475, 700, 950>>[level]

\* getUserRespectPointsByLevel: what a demoted user is left with.
PointsOf(level) == <<0, 51, 151, 301, 476, 701, 951>>[level]

\* decrementUserLevel: the two highest levels lose two, no one falls below one.
DecrementUserLevel(level) ==
    IF level \in {6, 7} THEN level - 2 ELSE IF level > 1 THEN level - 1 ELSE 1

=============================================================================
