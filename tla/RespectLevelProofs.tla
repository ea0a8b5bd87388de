-------------------------- MODULE RespectLevelProofs --------------------------
(* Proofs about RespectLevel, for any gains and bounds. *)
EXTENDS RespectLevel, TLAPS

\* The ranges leave no gap and do not overlap: points that are never negative
\* have exactly one level (getUserRespectLevel).
LEMMA LevelExists ==
    ASSUME NEW total \in Nat
    PROVE  LevelOf(total) \in Levels /\ Ranks(LevelOf(total), total)
<1>1. \E l \in Levels : Ranks(l, total)
  <2>1. CASE total <= 51
    BY <2>1 DEF Ranks, Levels, Ceiling
  <2>2. CASE total > 51 /\ total <= 150
    BY <2>2 DEF Ranks, Levels, Ceiling
  <2>3. CASE total > 150 /\ total <= 300
    BY <2>3 DEF Ranks, Levels, Ceiling
  <2>4. CASE total > 300 /\ total <= 475
    BY <2>4 DEF Ranks, Levels, Ceiling
  <2>5. CASE total > 475 /\ total <= 700
    BY <2>5 DEF Ranks, Levels, Ceiling
  <2>6. CASE total > 700 /\ total <= 950
    BY <2>6 DEF Ranks, Levels, Ceiling
  <2>7. CASE total > 950
    BY <2>7 DEF Ranks, Levels, Ceiling
  <2> QED
    BY <2>1, <2>2, <2>3, <2>4, <2>5, <2>6, <2>7
<1> QED
  BY <1>1 DEF LevelOf

\* Two levels never share points (getUserRespectLevel).
LEMMA LevelUnique ==
    ASSUME NEW total \in Nat, NEW l \in Levels, Ranks(l, total)
    PROVE  LevelOf(total) = l
<1> DEFINE m == LevelOf(total)
<1>1. m \in Levels /\ Ranks(m, total)
  BY LevelExists
<1> HIDE DEF m
<1>2. m = l
  BY <1>1 DEF Ranks, Levels, Ceiling
<1> QED
  BY <1>2 DEF m

\* A demoted user keeps the points of the new level, but for 51 points at level
\* two (getUserRespectPointsByLevel).
LEMMA FloorRanks ==
    ASSUME NEW l \in Levels
    PROVE  /\ PointsOf(l) \in Nat
           /\ LevelOf(PointsOf(l)) = l \/ (l = 2 /\ PointsOf(l) = 51)
<1>1. PointsOf(l) \in Nat
  BY DEF PointsOf, Levels
<1>2. CASE l = 2
  BY <1>1, <1>2 DEF PointsOf
<1>3. CASE l # 2
  <2>1. Ranks(l, PointsOf(l))
    BY <1>3 DEF Ranks, Levels, Ceiling, PointsOf
  <2> QED
    BY <1>1, <2>1, LevelUnique
<1> QED
  BY <1>2, <1>3

RankInv == TypeOK /\ LevelNearPoints

LEMMA InitRankInv == Init => RankInv
<1> SUFFICES ASSUME Init PROVE RankInv
  OBVIOUS
<1>1. Ranks(1, 0) /\ 1 \in Levels
  BY DEF Ranks, Levels, Ceiling
<1>2. LevelOf(0) = 1
  BY <1>1, LevelUnique
<1> QED
  BY <1>1, <1>2 DEF Init, RankInv, TypeOK, LevelNearPoints, LevelFollowsPoints, WithdrawMonths

\* Every demotion leaves the level of its points, or level two with 51.
LEMMA DemotedNearPoints ==
    ASSUME NEW l \in Levels, level' = l, points' = PointsOf(level')
    PROVE  level' \in Levels /\ points' \in Nat /\ LevelNearPoints'
BY FloorRanks DEF LevelNearPoints, LevelFollowsPoints

LEMMA NextRankInv == RankInv /\ [Next]_vars => RankInv'
<1> SUFFICES ASSUME RankInv, [Next]_vars PROVE RankInv'
  OBVIOUS
<1> USE GainsAssumption DEF RankInv, TypeOK, WithdrawMonths
<1>1. ASSUME NEW p \in Gains, EarnPoints(p) PROVE RankInv'
  <2>1. points + p \in Nat
    OBVIOUS
  <2>2. LevelOf(points + p) \in Levels
    BY <2>1, LevelExists
  <2> QED
    BY <1>1, <2>1, <2>2 DEF EarnPoints, LevelNearPoints, LevelFollowsPoints
<1>2. CASE WithdrawMembership
  <2>1. level' \in Levels /\ points' = PointsOf(level')
    BY <1>2 DEF WithdrawMembership, Levels
  <2>2. points' \in Nat /\ LevelNearPoints'
    BY <2>1, DemotedNearPoints
  <2> QED
    BY <1>2, <2>1, <2>2 DEF WithdrawMembership
<1>3. CASE Login
  <2>1. CASE IdleDifference >= 1
    <3>1. level' \in Levels /\ points' = PointsOf(level')
      BY <1>3, <2>1 DEF Login, Levels, DecrementUserLevel
    <3>2. points' \in Nat /\ LevelNearPoints'
      BY <3>1, DemotedNearPoints
    <3> QED
      BY <1>3, <3>1, <3>2 DEF Login
  <2>2. CASE ~(IdleDifference >= 1)
    BY <1>3, <2>2 DEF Login, LevelNearPoints, LevelFollowsPoints
  <2> QED
    BY <2>1, <2>2
<1>4. CASE Month
  BY <1>4 DEF Month, LevelNearPoints, LevelFollowsPoints
<1>5. CASE UNCHANGED vars
  BY <1>5 DEF vars, LevelNearPoints, LevelFollowsPoints
<1> QED
  BY <1>1, <1>2, <1>3, <1>4, <1>5 DEF Next

\* Points, level and months are well typed in every reachable state.
THEOREM RespectTypeCorrect == Spec => []TypeOK
<1>1. Spec => []RankInv
  BY InitRankInv, NextRankInv, PTL DEF Spec
<1> QED
  BY <1>1, PTL DEF RankInv

\* The level of a user is always that of the points, or the user is at level
\* two with 51 points.
THEOREM RespectLevelNearPoints == Spec => []LevelNearPoints
<1>1. Spec => []RankInv
  BY InitRankInv, NextRankInv, PTL DEF Spec
<1> QED
  BY <1>1, PTL DEF RankInv

\* Higher points rank at least as high (getUserRespectLevel).
LEMMA LevelMonotone ==
    ASSUME NEW p \in Nat, NEW q \in Nat, p <= q
    PROVE  LevelOf(p) <= LevelOf(q)
<1> DEFINE l == LevelOf(p)
           m == LevelOf(q)
<1>1. l \in Levels /\ Ranks(l, p)
  BY LevelExists
<1>2. m \in Levels /\ Ranks(m, q)
  BY LevelExists
<1> HIDE DEF l, m
<1>3. l <= m
  BY <1>1, <1>2 DEF Ranks, Levels, Ceiling
<1> QED
  BY <1>3 DEF l, m

\* No step of earning or of time costs a level, except from level two with 51
\* points.
THEOREM RespectEarningKeepsLevel == Spec => EarningKeepsLevel
<1> DEFINE Keeps == idle' = idle /\ withdrawn' = withdrawn /\ level' < level
                        => level = 2 /\ points' = 51
<1>1. RankInv /\ [Next]_vars => [Keeps]_vars
  <2> SUFFICES ASSUME RankInv, Next PROVE Keeps
    BY DEF vars
  <2> USE GainsAssumption DEF RankInv, TypeOK, WithdrawMonths
  <2>1. ASSUME NEW p \in Gains, EarnPoints(p) PROVE Keeps
    <3>1. LevelOf(points) <= LevelOf(points + p)
      BY LevelMonotone
    <3>2. CASE LevelFollowsPoints
      <4>1. LevelOf(points) \in Levels /\ LevelOf(points + p) \in Levels
        BY LevelExists
      <4> QED
        BY <2>1, <3>1, <3>2, <4>1 DEF EarnPoints, LevelFollowsPoints, Levels
    <3>3. CASE level = 2 /\ points = 51
      <4>1. CASE p = 0
        BY <2>1, <3>3, <4>1 DEF EarnPoints
      <4>2. CASE p > 0
        <5>1. LevelOf(points + p) \in Levels /\ Ranks(LevelOf(points + p), points + p)
          BY LevelExists
        <5>2. LevelOf(points + p) # 1
          BY <3>3, <4>2, <5>1 DEF Ranks, Ceiling
        <5> QED
          BY <2>1, <3>3, <5>1, <5>2 DEF EarnPoints, Levels
      <4> QED
        BY <4>1, <4>2
    <3> QED
      BY <3>2, <3>3 DEF LevelNearPoints
  <2>2. CASE WithdrawMembership
    BY <2>2 DEF WithdrawMembership, Active
  <2>3. CASE Login
    BY <2>3 DEF Login, IdleDifference, Levels
  <2>4. CASE Month
    BY <2>4 DEF Month, Levels
  <2> QED
    BY <2>1, <2>2, <2>3, <2>4 DEF Next
<1> QED
  BY <1>1, InitRankInv, NextRankInv, PTL DEF Spec, EarningKeepsLevel
=============================================================================
