--------------------------- MODULE AttendanceStreak ---------------------------
(***************************************************************************)
(* Daily attendance and daily participation of one user: event.service.ts, *)
(* with the other calls that load and save the same `users` row.           *)
(*                                                                         *)
(* A call works on the user the JWT guard loaded.  TypeORM's `save` selects *)
(* the row again and updates every column in which the copy differs,       *)
(* whoever changed it.  Inserting the notification of a reward commits the *)
(* transaction in the middle (notification.subscriber.ts).                 *)
(***************************************************************************)
EXTENDS RespectTable, FiniteSetsExt

CONSTANTS
    Handlers,       \* concurrent calls of the user
    Nobody,         \* no handler
    EventTypes,     \* EventType: attendance, participation
    MaxDay,         \* bound: days observed
    Top,            \* StreakSize.HUNDRED: the streak starts again
    SomReward,      \* SoM by type and length of the streak
    StreakPoints,   \* respect points by type and length of the streak
    BonusPoints,    \* MORE_THAN_TEN_*: respect points by type
    More,           \* StreakSize.TEN in giveUnConsecutiveRespectPoints
    Window,         \* days before that bonus can be earned again
    OtherPoints,    \* points earned by comments, surveys, purchases, recharges
    Absence,        \* days a withdrawal lasts (six months)
    MaxPoints       \* bound: points those calls may reach

Tables      == {"user", "policy"}
UserColumns == EventTypes \cup {"points", "level", "withdrawn"}
Days        == 1..MaxDay

ASSUME ConstantsAssumption ==
    /\ Nobody \notin Handlers
    /\ IsFiniteSet(Handlers)
    /\ EventTypes \subseteq {"attendance", "participation"}
    /\ MaxDay \in Nat \ {0} /\ Top \in Nat \ {0} /\ More \in Nat /\ Window \in Nat
    /\ SomReward \in [EventTypes -> [1..Top -> Nat]]
    /\ StreakPoints \in [EventTypes -> [1..Top -> Nat]]
    /\ BonusPoints \in [EventTypes -> Nat]
    /\ OtherPoints \subseteq Nat /\ MaxPoints \in Nat /\ Absence \in Nat
    \* Every case of giveStreakRewardAndRespectPoints with a reward gives points.
    /\ \A t \in EventTypes, n \in 1..Top : SomReward[t][n] > 0 => StreakPoints[t][n] > 0

VARIABLES
    day,      \* today
    rows,     \* committed rows of users and users_respect_policy
    lock,     \* Postgres: who holds the row lock
    draft,    \* the rows as the lock holder has left them
    marks,    \* committed events_attendances, by type and day
    rewards,  \* committed rewards and their notifications
    call,     \* the calls in progress
    torn,     \* history: an UPDATE found points or a level its SELECT had not read
    behind,   \* history: calls that read the user before another one saved it
    crossed,  \* history: a call behind saved the user, be the values the same again
    skewed,   \* history: a call looked at yesterday after a midnight, and found marks
    unreset   \* history: a full streak was left behind, or read, before its reset

vars == <<day, rows, lock, draft, marks, rewards, call, torn, behind, crossed, skewed,
          unreset>>

RowSet == [user : [UserColumns -> Nat], policy : [EventTypes -> Nat]]

NewRows == [user   |-> [c \in UserColumns |-> IF c = "level" THEN 1 ELSE 0],
            policy |-> [t \in EventTypes |-> 0]]

Steps == {"idle", "leave", "check", "mark", "yesterday", "notify", "streak", "count", "commit"}

CallSet ==
    [kind : EventTypes \cup {"other"}, pc : Steps,
     mem : RowSet,            \* the entities in memory
     saving : SUBSET Tables,  \* saves still to do before the next step
     diff : SUBSET UserColumns, selected : BOOLEAN,
     seen : [UserColumns -> Nat],  \* the user as the SELECT of its save has read it
     marked : 0..MaxDay,      \* the day of the attendance it inserted
     pending : BOOLEAN,       \* that attendance is not committed yet
     since : 0..MaxDay]

IdleCall == [kind |-> "other", pc |-> "idle", mem |-> NewRows, saving |-> {},
             diff |-> {}, selected |-> FALSE, seen |-> NewRows.user, marked |-> 0,
             pending |-> FALSE, since |-> 0]

RewardSet == [type : EventTypes, on : 0..MaxDay, days : Nat, by : Handlers]

Init ==
    /\ day = 1
    /\ rows = NewRows
    /\ lock = [tb \in Tables |-> Nobody]
    /\ draft = NewRows
    /\ marks = [t \in EventTypes |-> [d \in Days |-> 0]]
    /\ rewards = {}
    /\ call = [h \in Handlers |-> IdleCall]
    /\ torn = FALSE /\ skewed = FALSE /\ behind = {} /\ crossed = FALSE
    /\ unreset = [t \in EventTypes |-> FALSE]
-----------------------------------------------------------------------------
(* What calls see and do *)

Marked(t, d) == d \in Days /\ marks[t][d] > 0

Idle(h) == call[h].pc = "idle"

\* The call is at a step and has nothing left to save.
At(h, pc) == call[h].pc = pc /\ call[h].saving = {}

SomAt(t, streak)    == IF streak \in 1..Top THEN SomReward[t][streak] ELSE 0
PointsAt(t, streak) == IF streak \in 1..Top THEN StreakPoints[t][streak] ELSE 0

\* Mutant: the level of the points before the gain.
WithPointsOnly(user, p) ==
    [user EXCEPT !["points"] = @ + p, !["level"] = LevelOf(user["points"])]

\* updateRespectLevel, in memory: points are added, the level follows.
WithPoints(user, p) ==
    [user EXCEPT !["points"] = @ + p, !["level"] = LevelOf(user["points"] + p)]

\* The entities in memory with another user, or with another streak.
WithUser(mem, user)     == [user |-> user, policy |-> mem.policy]
WithStreak(mem, t, n)   == WithUser(mem, [mem.user EXCEPT ![t] = n])

\* The user left behind or read with a full streak.
FullStreakSeen == [t \in EventTypes |-> unreset[t] \/ rows.user[t] = Top]

\* What commits when the transaction of h ends or its notification is inserted.
CommitRows(h)  == [user   |-> IF lock["user"] = h THEN draft.user ELSE rows.user,
                   policy |-> IF lock["policy"] = h THEN draft.policy ELSE rows.policy]
CommitMarks(h) == IF call[h].pending
                  THEN [marks EXCEPT ![call[h].kind][call[h].marked] = @ + 1]
                  ELSE marks
Unlocked(h)    == [tb \in Tables |-> IF lock[tb] = h THEN Nobody ELSE lock[tb]]

\* When h commits a user it has saved, the others have read an older one.
Outrun(h) == IF lock["user"] = h THEN {g \in Handlers \ {h} : ~Idle(g)} ELSE behind
-----------------------------------------------------------------------------
(* markAttendance, and the attendance of submitSurveyParticipation *)

\* checkUserActiveStatus refuses a user until the withdrawal has run out.
Active == rows.user["withdrawn"] <= day

\* The JWT guard loads the user with its respect policy.
LoadUser(h, t) ==
    /\ Idle(h) /\ Active
    /\ call' = [call EXCEPT ![h] = [IdleCall EXCEPT !.kind = t, !.pc = "check",
                                     !.mem = rows, !.since = day]]
    /\ unreset' = FullStreakSeen
    /\ behind' = behind \ {h}
    /\ UNCHANGED <<day, rows, lock, draft, marks, rewards, torn, skewed, crossed>>

\* checkAlreadyMarked finds an attendance of today: the call ends.
RefuseMark(h) ==
    /\ At(h, "check")
    /\ Marked(call[h].kind, day)
    /\ call' = [call EXCEPT ![h] = IdleCall]
    /\ UNCHANGED <<day, rows, lock, draft, marks, rewards, torn, skewed, unreset, behind, crossed>>

\* Mutant: the check is skipped.
AdmitUnchecked(h) ==
    /\ At(h, "check")
    /\ call' = [call EXCEPT ![h].pc = "mark"]
    /\ UNCHANGED <<day, rows, lock, draft, marks, rewards, torn, skewed, unreset, behind, crossed>>

AdmitMark(h) ==
    /\ At(h, "check")
    /\ ~Marked(call[h].kind, day)
    /\ call' = [call EXCEPT ![h].pc = "mark"]
    /\ UNCHANGED <<day, rows, lock, draft, marks, rewards, torn, skewed, unreset, behind, crossed>>

\* initAttendance opens a transaction and inserts the attendance.
SaveAttendance(h) ==
    /\ At(h, "mark")
    /\ call' = [call EXCEPT ![h] = [@ EXCEPT !.pc = "yesterday", !.marked = day,
                                             !.pending = TRUE]]
    /\ UNCHANGED <<day, rows, lock, draft, marks, rewards, torn, skewed, unreset, behind, crossed>>

\* Mutant: yesterday's attendance is not asked for.
ContinueAlways(h) ==
    LET t      == call[h].kind
        streak == call[h].mem.user[t] + 1
    IN  /\ At(h, "yesterday")
        /\ call' = [call EXCEPT ![h] = [@ EXCEPT
               !.mem = WithStreak(call[h].mem, t, streak),
               !.pc = IF SomAt(t, streak) > 0 THEN "notify" ELSE "streak"]]
        /\ UNCHANGED <<day, rows, lock, draft, marks, rewards, torn, skewed, unreset, behind, crossed>>

\* checkAttendanceByDate reads yesterday outside the transaction and finds an
\* attendance: the streak grows, and with it points and a reward.
ContinueStreak(h) ==
    LET t      == call[h].kind
        streak == call[h].mem.user[t] + 1
        mem    == WithStreak(call[h].mem, t, streak)
        points == PointsAt(t, streak)
    IN  /\ At(h, "yesterday")
        /\ Marked(t, day - 1)
        /\ call' = [call EXCEPT ![h] = [@ EXCEPT
               !.mem = IF points > 0 THEN WithUser(mem, WithPoints(mem.user, points)) ELSE mem,
               !.saving = IF points > 0 THEN Tables ELSE {},
               !.pc = IF SomAt(t, streak) > 0 THEN "notify" ELSE "streak"]]
        /\ skewed' = (skewed \/ call[h].marked # day)
        /\ UNCHANGED <<day, rows, lock, draft, marks, rewards, torn, unreset, behind, crossed>>

\* Mutant: the streak grows after a gap too.
RestartGrowing(h) ==
    /\ At(h, "yesterday")
    /\ ~Marked(call[h].kind, day - 1)
    /\ call' = [call EXCEPT ![h] = [@ EXCEPT
           !.mem = WithStreak(call[h].mem, call[h].kind, call[h].mem.user[call[h].kind] + 1),
           !.pc = "streak"]]
    /\ UNCHANGED <<day, rows, lock, draft, marks, rewards, torn, skewed, unreset, behind, crossed>>

RestartStreak(h) ==
    /\ At(h, "yesterday")
    /\ ~Marked(call[h].kind, day - 1)
    /\ call' = [call EXCEPT ![h] = [@ EXCEPT !.mem = WithStreak(call[h].mem, call[h].kind, 1),
                                             !.pc = "streak"]]
    /\ UNCHANGED <<day, rows, lock, draft, marks, rewards, torn, skewed, unreset, behind, crossed>>

\* Mutant: the notification is committed without the attendance.
NotifyOutside(h) ==
    LET c == call[h]
    IN  /\ At(h, "notify")
        /\ rewards' = rewards \cup {[type |-> c.kind, on |-> c.marked,
                                     days |-> c.mem.user[c.kind], by |-> h]}
        /\ call' = [call EXCEPT ![h].pc = "streak"]
        /\ UNCHANGED <<day, rows, lock, draft, marks, torn, skewed, unreset, behind, crossed>>

\* saveReward and saveRewardNotification: the subscriber commits what the
\* transaction has done so far and opens another one.
SaveRewardNotification(h) ==
    LET c == call[h]
    IN  /\ At(h, "notify")
        /\ rows' = CommitRows(h)
        /\ marks' = CommitMarks(h)
        /\ lock' = Unlocked(h)
        /\ rewards' = rewards \cup {[type |-> c.kind, on |-> c.marked,
                                     days |-> c.mem.user[c.kind], by |-> h]}
        /\ call' = [call EXCEPT ![h] = [@ EXCEPT !.pc = "streak", !.pending = FALSE]]
        /\ behind' = Outrun(h)
        /\ UNCHANGED <<day, draft, torn, skewed, unreset, crossed>>

\* Mutant: a full streak goes on.
UpdateWithoutReset(h) ==
    /\ At(h, "streak")
    /\ call' = [call EXCEPT ![h].saving = {"user"}, ![h].pc = "count"]
    /\ UNCHANGED <<day, rows, lock, draft, marks, rewards, torn, skewed, unreset, behind, crossed>>

\* updateUserStreak: a full streak starts again at zero.
UpdateUserStreak(h) ==
    LET t      == call[h].kind
        streak == call[h].mem.user[t]
    IN  /\ At(h, "streak")
        /\ call' = [call EXCEPT ![h] = [@ EXCEPT
               !.mem = WithStreak(call[h].mem, t, IF streak = Top THEN 0 ELSE streak),
               !.saving = {"user"},
               !.pc = "count"]]
        /\ UNCHANGED <<day, rows, lock, draft, marks, rewards, torn, skewed, unreset, behind, crossed>>

\* giveUnConsecutiveRespectPoints: attendances committed since the last bonus
\* expired, plus the one of this call.
MarksAfter(t, d) == MapThenSumSet(LAMBDA e : marks[t][e], {e \in Days : e > d})

EarnsBonus(h) ==
    LET t == call[h].kind
        expiry == call[h].mem.policy[t]
    IN  expiry < day /\ MarksAfter(t, expiry) + 1 > More

GiveBonus(h) ==
    LET t   == call[h].kind
        mem == call[h].mem
    IN
    /\ At(h, "count")
    /\ EarnsBonus(h)
    /\ call' = [call EXCEPT ![h] = [@ EXCEPT
           !.mem = [user   |-> WithPoints(mem.user, BonusPoints[t]),
                    policy |-> [mem.policy EXCEPT ![t] = day + Window]],
           !.saving = Tables,
           !.pc = "commit"]]
    /\ UNCHANGED <<day, rows, lock, draft, marks, rewards, torn, skewed, unreset, behind, crossed>>

SkipBonus(h) ==
    /\ At(h, "count")
    /\ ~EarnsBonus(h)
    /\ call' = [call EXCEPT ![h].pc = "commit"]
    /\ UNCHANGED <<day, rows, lock, draft, marks, rewards, torn, skewed, unreset, behind, crossed>>
-----------------------------------------------------------------------------
(* Other calls that save the user *)

\* A comment, a like, a survey request, a purchase or a recharge; or the sign-up of
\* another user who names this one, who may have withdrawn.
EarnPoints(h, p) ==
    /\ Idle(h)
    /\ rows.user["points"] + p <= MaxPoints
    /\ call' = [call EXCEPT ![h] = [IdleCall EXCEPT !.pc = "commit", !.saving = {"user"},
                    !.mem = WithUser(rows, WithPoints(rows.user, p)),
                    !.since = day]]
    /\ unreset' = FullStreakSeen
    /\ behind' = behind \ {h}
    /\ UNCHANGED <<day, rows, lock, draft, marks, rewards, torn, skewed, crossed>>

\* checkIfOneMonthIdle saves the user it loaded although nothing changed.
Login(h) ==
    /\ Idle(h) /\ Active
    /\ call' = [call EXCEPT ![h] = [IdleCall EXCEPT !.pc = "commit", !.saving = {"user"},
                    !.mem = rows, !.since = day]]
    /\ unreset' = FullStreakSeen
    /\ behind' = behind \ {h}
    /\ UNCHANGED <<day, rows, lock, draft, marks, rewards, torn, skewed, crossed>>

\* The guard lets a withdrawal pass, which then loads its user by the e-mail.
AskToLeave(h) ==
    /\ Idle(h) /\ Active
    /\ call' = [call EXCEPT ![h] = [IdleCall EXCEPT !.pc = "leave", !.since = day]]
    /\ UNCHANGED <<day, rows, lock, draft, marks, rewards, torn, skewed, unreset, behind, crossed>>

\* A level less, with the points that level begins with.
Demoted(user) ==
    LET level == IF user["level"] > 1 THEN user["level"] - 1 ELSE 1
    IN  [user EXCEPT !["level"] = level, !["points"] = PointsOf(level),
                     !["withdrawn"] = day + Absence]

\* Mutant: the level is lowered and the points are kept.
WithdrawKeepingPoints(h) ==
    /\ At(h, "leave")
    /\ call' = [call EXCEPT ![h] = [@ EXCEPT !.pc = "commit", !.saving = {"user"},
                    !.mem = WithUser(rows, [Demoted(rows.user) EXCEPT
                                               !["points"] = rows.user["points"]])]]
    /\ unreset' = FullStreakSeen
    /\ behind' = behind \ {h}
    /\ UNCHANGED <<day, rows, lock, draft, marks, rewards, torn, skewed, crossed>>

WithdrawMembership(h) ==
    /\ At(h, "leave")
    /\ call' = [call EXCEPT ![h] = [@ EXCEPT !.pc = "commit", !.saving = {"user"},
                    !.mem = WithUser(rows, Demoted(rows.user))]]
    /\ unreset' = FullStreakSeen
    /\ behind' = behind \ {h}
    /\ UNCHANGED <<day, rows, lock, draft, marks, rewards, torn, skewed, crossed>>
-----------------------------------------------------------------------------
(* TypeORM's save, and the end of a transaction *)

\* updateRespectLevel saves the user first.
Table(h) == IF "user" \in call[h].saving THEN "user" ELSE "policy"

Visible(h, tb) == IF lock[tb] = h THEN draft[tb] ELSE rows[tb]

Differing(a, b) == {c \in DOMAIN a : a[c] # b[c]}

\* A call behind saves the user.
Crossing(h) == Table(h) = "user" /\ h \in behind

Saved(c, tb) == [c EXCEPT !.saving = @ \ {tb}, !.selected = FALSE, !.diff = {},
                          !.seen = NewRows.user]

\* The SELECT of a save; without a differing column there is no UPDATE.
SelectRow(h) ==
    LET tb   == Table(h)
        diff == Differing(call[h].mem[tb], Visible(h, tb))
    IN  /\ call[h].saving # {} /\ ~call[h].selected
        /\ call' = [call EXCEPT ![h] =
               IF diff = {} THEN Saved(@, tb)
               ELSE [@ EXCEPT !.diff = diff, !.selected = TRUE, !.seen = Visible(h, "user")]]
        /\ crossed' = (crossed \/ Crossing(h))
        /\ UNCHANGED <<day, rows, lock, draft, marks, rewards, torn, skewed, unreset, behind>>

\* Another save came between the SELECT of the user and its UPDATE.
Tearing(h) ==
    Table(h) = "user" /\ \E c \in {"points", "level"} : draft.user[c] # call[h].seen[c]

\* The UPDATE: it waits for the row lock and changes the columns that differed.
UpdateRow(h) ==
    LET tb  == Table(h)
        new == [c \in DOMAIN draft[tb] |->
                   IF c \in call[h].diff THEN call[h].mem[tb][c] ELSE draft[tb][c]]
    IN  /\ call[h].selected
        /\ lock[tb] \in {Nobody, h}
        /\ lock' = [lock EXCEPT ![tb] = h]
        /\ draft' = [draft EXCEPT ![tb] = new]
        /\ call' = [call EXCEPT ![h] = Saved(@, tb)]
        /\ torn' = (torn \/ Tearing(h))
        /\ crossed' = (crossed \/ Crossing(h))
        /\ UNCHANGED <<day, rows, marks, rewards, skewed, unreset, behind>>

CommitTransaction(h) ==
    /\ At(h, "commit")
    /\ rows' = CommitRows(h)
    /\ marks' = CommitMarks(h)
    /\ lock' = Unlocked(h)
    /\ call' = [call EXCEPT ![h] = IdleCall]
    /\ behind' = Outrun(h)
    /\ UNCHANGED <<day, draft, rewards, torn, skewed, unreset, crossed>>

\* An error or a crash: what is not committed is rolled back.
Fail(h) ==
    /\ ~Idle(h)
    /\ lock' = Unlocked(h)
    /\ draft' = [user   |-> IF lock["user"] = h THEN rows.user ELSE draft.user,
                 policy |-> IF lock["policy"] = h THEN rows.policy ELSE draft.policy]
    /\ call' = [call EXCEPT ![h] = IdleCall]
    /\ unreset' = [t \in EventTypes |->
                      unreset[t] \/ (call[h].kind = t /\ rows.user[t] = Top)]
    /\ UNCHANGED <<day, rows, marks, rewards, torn, skewed, behind, crossed>>

\* Midnight.  No call lasts longer than a day.
NextDay ==
    /\ day < MaxDay
    /\ \A h \in Handlers : Idle(h) \/ call[h].since = day
    /\ day' = day + 1
    /\ UNCHANGED <<rows, lock, draft, marks, rewards, call, torn, skewed,
                   unreset, behind, crossed>>

Mark(h) == RefuseMark(h) \/ AdmitMark(h) \/ SaveAttendance(h) \/ ContinueStreak(h)
           \/ RestartStreak(h) \/ SaveRewardNotification(h) \/ UpdateUserStreak(h)
           \/ GiveBonus(h) \/ SkipBonus(h)

Next ==
    \/ \E h \in Handlers :
          \/ \E t \in EventTypes : LoadUser(h, t)
          \/ Mark(h)
          \/ \E p \in OtherPoints : EarnPoints(h, p)
          \/ Login(h)
          \/ AskToLeave(h)
          \/ WithdrawMembership(h)
          \/ SelectRow(h)
          \/ UpdateRow(h)
          \/ CommitTransaction(h)
          \/ Fail(h)
    \/ NextDay

Spec == Init /\ [][Next]_vars
-----------------------------------------------------------------------------
(* Properties *)

\* Rows, calls, attendances and rewards are well typed.
TypeOK ==
    /\ day \in Nat \ {0}
    /\ rows \in RowSet /\ draft \in RowSet
    /\ lock \in [Tables -> Handlers \cup {Nobody}]
    /\ marks \in [EventTypes -> [Days -> Nat]]
    /\ rewards \subseteq RewardSet
    /\ call \in [Handlers -> CallSet]
    /\ torn \in BOOLEAN /\ skewed \in BOOLEAN /\ crossed \in BOOLEAN
    /\ behind \subseteq Handlers
    /\ unreset \in [EventTypes -> BOOLEAN]

\* Calls that passed checkAlreadyMarked and may still add an attendance to a day.
MayMark(t, d) ==
    {h \in Handlers : /\ call[h].kind = t
                      /\ \/ call[h].pc = "mark" /\ d >= day
                         \/ call[h].pending /\ call[h].marked = d}

\* An attendance a day: every racing call may add one, and no more.  A later
\* call is refused, on whatever day the racing ones insert theirs.
MarksBounded ==
    \A t \in EventTypes : \A d \in Days : marks[t][d] <= Cardinality(Handlers)

\* Its inductive form: calls that may still add one count as if they had, and
\* days to come have none.
MarksInv ==
    \A t \in EventTypes : \A d \in Days :
        /\ marks[t][d] + Cardinality(MayMark(t, d)) <= Cardinality(Handlers)
        /\ d > day => marks[t][d] = 0

\* What 'Attendance already marked' promises (event.service.ts:520).
OneMarkADay == \A t \in EventTypes : \A d \in Days : marks[t][d] <= 1

RewardsOn(t, d) == {r \in rewards : r.type = t /\ r.on = d}

\* No reward without its attendance: the early commit makes both durable, and a
\* failure after it takes none of them back.
RewardsBacked ==
    \A t \in EventTypes : \A d \in Days :
        Cardinality(RewardsOn(t, d)) <= marks[t][d]

\* The user has marked each of the n days up to d.
MarkedFor(t, n, d) == \A i \in 1..n : Marked(t, d + 1 - i)

\* What the notification says of a reward: '... for ${days} days!'
\* (event.service.ts:226).
RewardedDaysMarked == \A r \in rewards : MarkedFor(r.type, r.days, r.on)

\* No call has saved the user after another one that it had not seen, nor has one
\* counted its own day as yesterday.
Orderly == ~crossed /\ ~skewed

\* In orderly runs it is true, whatever fails and whichever calls race.
RewardsDeserved == Orderly => RewardedDaysMarked

\* In orderly runs a streak never exceeds the days marked in a row up to the
\* last one marked, even if midnight falls between the check and the insert.
StreakJustified ==
    Orderly => \A t \in EventTypes :
        \E last \in 0..MaxDay :
            /\ \A d \in Days : d > last => ~Marked(t, d)
            /\ MarkedFor(t, rows.user[t], last)

\* A call between the early commit of a full streak and its reset.
Resetting(t) == \E h \in Handlers :
    /\ call[h].kind = t /\ call[h].marked > 0 /\ ~call[h].pending

\* A full streak starts again: it is seen only until the call that reached it
\* ends, and is exceeded only if that call died or another one read it.
StreakRestarts ==
    \A t \in EventTypes : ~unreset[t] =>
        /\ rows.user[t] <= Top
        /\ rows.user[t] = Top => Resetting(t)

\* What users see of their streaks: it justifies every reward, starts again when
\* it is full, and never exceeds the days marked in a row.
StreakSound == RewardsDeserved /\ StreakJustified /\ StreakRestarts

Ranked(user) == user["level"] = LevelOf(user["points"])

\* A user demoted to level two keeps 51 points: the ranges of the first two levels
\* overlap there, and 51 points gained are level one.
NearlyRanked(user) == Ranked(user) \/ (user["level"] = 2 /\ user["points"] = 51)

\* The level shown is the level of the points (user.service.ts:1101: 'Get User
\* Respect Level on Base of Points') but for those 51, whichever saves undo one
\* another, unless the points or the level changed between the SELECT and the UPDATE
\* of one save.
LevelAgrees == ~torn => NearlyRanked(rows.user)

\* A user whose level is one of the seven, and that of the points.
Leveled(user) == user["level"] \in Levels /\ (~torn => NearlyRanked(user))

\* Its inductive form: so are the row, the row under lock and every copy in memory,
\* and what a save is about to update is all in which its copy differs from what it
\* has read.
LevelInv ==
    /\ Leveled(rows.user) /\ Leveled(draft.user)
    /\ \A h \in Handlers :
          /\ Leveled(call[h].mem.user)
          /\ call[h].selected =>
                /\ call[h].saving # {}
                /\ Table(h) = "user" =>
                      call[h].diff = Differing(call[h].mem.user, call[h].seen)

\* MORE_THAN_TEN_ATTENDANCE and MORE_THAN_TEN_PARTICIPATION (user.enums.ts:40):
\* a bonus is given for more than ten attendances, the one of the call included.
BonusForMore ==
    [][\A h \in Handlers : GiveBonus(h) =>
          MarksAfter(call[h].kind, call[h].mem.policy[call[h].kind])
              + (IF call[h].pending THEN 1 ELSE 0) > More]_vars
=============================================================================
