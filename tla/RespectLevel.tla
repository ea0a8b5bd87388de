----------------------------- MODULE RespectLevel -----------------------------
(***************************************************************************)
(* The respect points and level of one user, one call at a time:           *)
(* user.service.ts and the demotions in withdrawMembership and in the      *)
(* login's checkIfOneMonthIdle.  AttendanceStreak has the races.           *)
(***************************************************************************)
EXTENDS RespectTable

CONSTANTS
    Gains,       \* RespectLevelPolicyPoints, and 0 for a small purchase
    MaxPoints,   \* bound: points observed
    MaxIdle      \* bound: months observed without a login

ASSUME GainsAssumption == Gains \subseteq Nat /\ MaxPoints \in Nat /\ MaxIdle \in Nat

VARIABLES
    points,      \* respectLevelPoints
    level,       \* respectLevel
    idle,        \* months since sessionInfo.lastLogin
    withdrawn    \* months left of withdrawExpiry

vars == <<points, level, idle, withdrawn>>

WithdrawMonths == 6

Init == points = 0 /\ level = 1 /\ idle = 0 /\ withdrawn = 0

\* checkUserActiveStatus refuses a user until withdrawExpiry has passed.
Active == withdrawn = 0

\* updateRespectLevel and the other places that add points.
EarnPoints(p) ==
    /\ Active
    /\ points + p <= MaxPoints
    /\ points' = points + p
    /\ level' = LevelOf(points + p)
    /\ UNCHANGED <<idle, withdrawn>>

\* withdrawMembership
WithdrawMembership ==
    /\ Active
    /\ level' = IF level - 1 > 0 THEN level - 1 ELSE 1
    /\ points' = PointsOf(level')
    /\ withdrawn' = WithdrawMonths
    /\ UNCHANGED idle

\* checkIfOneMonthIdle: lastLogin.diff(now) counts from the last login, in the
\* past, and is negative or zero.
IdleDifference == 0 - idle

\* validateUser and userSocialLogin; updateLoginToken sets lastLogin.
Login ==
    /\ Active
    /\ IF IdleDifference >= 1
       THEN level' = DecrementUserLevel(level) /\ points' = PointsOf(level')
       ELSE UNCHANGED <<level, points>>
    /\ idle' = 0
    /\ UNCHANGED withdrawn

Month ==
    /\ idle < MaxIdle
    /\ idle' = idle + 1
    /\ withdrawn' = IF withdrawn > 0 THEN withdrawn - 1 ELSE 0
    /\ UNCHANGED <<points, level>>

Next == (\E p \in Gains : EarnPoints(p)) \/ WithdrawMembership \/ Login \/ Month

Spec == Init /\ [][Next]_vars
-----------------------------------------------------------------------------
(* Properties *)

\* Points, level and months are well typed.
TypeOK == points \in Nat /\ level \in Levels /\ idle \in Nat /\ withdrawn \in 0..WithdrawMonths

\* The level is that of the points (user.service.ts:1101: 'Get User Respect
\* Level on Base of Points').
LevelFollowsPoints == level = LevelOf(points)

\* It is, except for a user demoted to level two, who keeps 51 points: the
\* ranges of the first two levels overlap there.
LevelNearPoints == LevelFollowsPoints \/ (level = 2 /\ points = 51)

\* Earning points never costs a level, except that user's.
EarningKeepsLevel ==
    [][idle' = idle /\ withdrawn' = withdrawn /\ level' < level
          => level = 2 /\ points' = 51]_vars

\* A withdrawal lowers the points, or the user had almost none: it never pays.
WithdrawalNeverPays ==
    [][withdrawn = 0 /\ withdrawn' > 0 => points' <= points]_vars

\* A user who logs in after a month without a login loses a level
\* (auth.service.ts:139: 'check If user is not login for One Month').
IdleIsDemoted ==
    [][idle >= 1 /\ idle' = 0 => level' = DecrementUserLevel(level)]_vars
=============================================================================
