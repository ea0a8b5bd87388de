------------------------ MODULE AttendanceStreakProofs ------------------------
(* Proofs about AttendanceStreak, for any handlers, days and thresholds. *)
EXTENDS AttendanceStreak, FiniteSetTheorems, TLAPS

\* The ranges leave no gap and do not overlap: points that are never negative
\* have exactly one level (getUserRespectLevel).
LEMMA LevelExists ==
    ASSUME NEW points \in Nat
    PROVE  LevelOf(points) \in Levels /\ Ranks(LevelOf(points), points)
<1>1. \E l \in Levels : Ranks(l, points)
  <2>1. CASE points <= 51
    BY <2>1 DEF Ranks, Levels, Ceiling
  <2>2. CASE points > 51 /\ points <= 150
    BY <2>2 DEF Ranks, Levels, Ceiling
  <2>3. CASE points > 150 /\ points <= 300
    BY <2>3 DEF Ranks, Levels, Ceiling
  <2>4. CASE points > 300 /\ points <= 475
    BY <2>4 DEF Ranks, Levels, Ceiling
  <2>5. CASE points > 475 /\ points <= 700
    BY <2>5 DEF Ranks, Levels, Ceiling
  <2>6. CASE points > 700 /\ points <= 950
    BY <2>6 DEF Ranks, Levels, Ceiling
  <2>7. CASE points > 950
    BY <2>7 DEF Ranks, Levels, Ceiling
  <2> QED
    BY <2>1, <2>2, <2>3, <2>4, <2>5, <2>6, <2>7
<1> QED
  BY <1>1 DEF LevelOf

\* Two levels never share points (getUserRespectLevel).
LEMMA LevelUnique ==
    ASSUME NEW points \in Nat, NEW l \in Levels, Ranks(l, points)
    PROVE  LevelOf(points) = l
<1> DEFINE m == LevelOf(points)
<1>1. m \in Levels /\ Ranks(m, points)
  BY LevelExists
<1> HIDE DEF m
<1>2. m = l
  BY <1>1 DEF Ranks, Levels, Ceiling
<1> QED
  BY <1>2 DEF m

\* What the progress of a call says about it: only calls that mark an
\* attendance take the steps of one, and what they have not committed is dated; a
\* withdrawal has done nothing yet.
ShapeOf(c) ==
    /\ c.pc \notin {"idle", "leave", "commit"} => c.kind \in EventTypes
    /\ c.pc = "leave" => /\ c.kind = "other" /\ c.marked = 0 /\ ~c.pending
                         /\ c.saving = {} /\ ~c.selected
    /\ c.pc \in {"yesterday", "notify"} => c.pending
    /\ c.pending => c.kind \in EventTypes /\ c.marked \in 1..day

Typed ==
    /\ TypeOK
    /\ day \in Days
    /\ \A h \in Handlers : ShapeOf(call[h])

\* The steps that read the user afresh.
Loads(h) == \/ \E t \in EventTypes : LoadUser(h, t)
            \/ \E p \in OtherPoints : EarnPoints(h, p)
            \/ Login(h) \/ WithdrawMembership(h)

LEMMA IdleTyped == NewRows \in RowSet /\ IdleCall \in CallSet /\ ~IdleCall.pending
                   /\ IdleCall.pc = "idle"
<1>1. NewRows \in RowSet
  BY DEF NewRows, RowSet
<1> QED
  BY <1>1, ConstantsAssumption DEF IdleCall, CallSet, RowSet, Steps, Tables

LEMMA InitTyped == Init => Typed
<1> SUFFICES ASSUME Init PROVE Typed
  OBVIOUS
<1> USE DEF Init
<1>1. day \in Days
  BY ConstantsAssumption DEF Days
<1>2. call \in [Handlers -> CallSet] /\ \A h \in Handlers : ShapeOf(call[h])
  BY IdleTyped DEF ShapeOf
<1>3. TypeOK
  <2>1. rows \in RowSet /\ draft \in RowSet
    BY IdleTyped
  <2>2. lock \in [Tables -> Handlers \cup {Nobody}]
    OBVIOUS
  <2>3. marks \in [EventTypes -> [Days -> Nat]]
    OBVIOUS
  <2>4. rewards \subseteq RewardSet /\ unreset \in [EventTypes -> BOOLEAN]
    OBVIOUS
  <2>5. /\ torn \in BOOLEAN /\ skewed \in BOOLEAN /\ crossed \in BOOLEAN
        /\ behind \subseteq Handlers
    OBVIOUS
  <2> QED
    BY <1>1, <1>2, <2>1, <2>2, <2>3, <2>4, <2>5, ConstantsAssumption DEF TypeOK, Days
<1> QED
  BY <1>1, <1>2, <1>3 DEF Typed

\* Adding points keeps the user well typed.
LEMMA WithPointsTyped ==
    ASSUME NEW user \in [UserColumns -> Nat], NEW p \in Nat
    PROVE  WithPoints(user, p) \in [UserColumns -> Nat]
<1>1. user["points"] + p \in Nat
  BY DEF UserColumns
<1>2. LevelOf(user["points"] + p) \in Nat
  BY <1>1, LevelExists DEF Levels
<1> QED
  BY <1>1, <1>2 DEF WithPoints, UserColumns

\* What a withdrawal leaves of a user with one of the seven levels.
LEMMA DemotedTyped ==
    ASSUME Typed, NEW user \in [UserColumns -> Nat], user["level"] \in Levels
    PROVE  /\ Demoted(user) \in [UserColumns -> Nat]
           /\ Demoted(user)["level"] \in Levels
           /\ Demoted(user)["points"] = PointsOf(Demoted(user)["level"])
           /\ \A t \in EventTypes : Demoted(user)[t] = user[t]
<1> DEFINE l == IF user["level"] > 1 THEN user["level"] - 1 ELSE 1
           w == day + Absence
<1>1. l \in Levels
  BY DEF Levels
<1>2. w \in Nat
  BY ConstantsAssumption DEF Typed, Days
<1>3. Demoted(user) = [user EXCEPT !["level"] = l, !["points"] = PointsOf(l), !["withdrawn"] = w]
  BY DEF Demoted
<1> HIDE DEF l, w
<1>4. l \in Nat /\ PointsOf(l) \in Nat
  BY <1>1 DEF Levels, PointsOf
<1>5. \A t \in EventTypes : t \notin {"level", "points", "withdrawn"}
  BY ConstantsAssumption
<1> HIDE DEF PointsOf
<1> QED
  BY <1>1, <1>2, <1>3, <1>4, <1>5 DEF UserColumns

LEMMA CommitMarksTyped ==
    ASSUME Typed, NEW h \in Handlers
    PROVE  CommitMarks(h) \in [EventTypes -> [Days -> Nat]]
<1> DEFINE k == call[h].kind
           d == call[h].marked
<1>1. CASE ~call[h].pending
  BY <1>1 DEF CommitMarks, Typed, TypeOK
<1>2. CASE call[h].pending
  <2>1. k \in EventTypes /\ d \in Days
    BY <1>2, ConstantsAssumption DEF Typed, ShapeOf, Days
  <2>2. marks[k] \in [Days -> Nat] /\ marks[k][d] \in Nat
    BY <2>1 DEF Typed, TypeOK
  <2> HIDE DEF k, d
  <2>3. [marks[k] EXCEPT ![d] = marks[k][d] + 1] \in [Days -> Nat]
    BY <2>1, <2>2
  <2>4. [marks EXCEPT ![k][d] = @ + 1] \in [EventTypes -> [Days -> Nat]]
    BY <2>1, <2>3 DEF Typed, TypeOK
  <2> QED
    BY <1>2, <2>4 DEF CommitMarks, k, d
<1> QED
  BY <1>1, <1>2

LEMMA CommitTyped ==
    ASSUME Typed, NEW h \in Handlers
    PROVE  /\ CommitRows(h) \in RowSet
           /\ Unlocked(h) \in [Tables -> Handlers \cup {Nobody}]
           /\ Outrun(h) \subseteq Handlers
BY DEF Typed, TypeOK, CommitRows, Unlocked, Outrun, RowSet

\* Writing the user, or one of its streaks, in memory.
LEMMA MemTyped ==
    ASSUME NEW mem \in RowSet, NEW u \in [UserColumns -> Nat]
    PROVE  WithUser(mem, u) \in RowSet
BY DEF RowSet, WithUser

LEMMA StreakTyped ==
    ASSUME NEW mem \in RowSet, NEW t \in EventTypes, NEW n \in Nat
    PROVE  WithStreak(mem, t, n) \in RowSet
<1>1. [mem.user EXCEPT ![t] = n] \in [UserColumns -> Nat]
  BY DEF RowSet
<1> QED
  BY <1>1, MemTyped DEF WithStreak

LEMMA MarkTyped ==
    ASSUME Typed, NEW h \in Handlers, Mark(h)
    PROVE  Typed'
<1> DEFINE t == call[h].kind
           u == call[h].mem.user
<1> USE DEF Typed
<1>0. /\ call \in [Handlers -> CallSet] /\ call[h] \in CallSet
      /\ u \in [UserColumns -> Nat]
  BY DEF TypeOK, CallSet, RowSet
<1>1. CASE RefuseMark(h)
  BY <1>1, <1>0, IdleTyped DEF RefuseMark, TypeOK, ShapeOf
<1>2. CASE AdmitMark(h)
  BY <1>2, <1>0 DEF AdmitMark, At, TypeOK, ShapeOf, CallSet, Steps
<1>3. CASE SaveAttendance(h)
  <2>1. call[h].kind \in EventTypes
    BY <1>3 DEF SaveAttendance, At, ShapeOf
  <2>2. day \in 0..MaxDay /\ day \in 1..day
    BY DEF Days
  <2>3. call' \in [Handlers -> CallSet]
    BY <1>3, <1>0, <2>2 DEF SaveAttendance, CallSet, Steps
  <2>4. \A g \in Handlers : ShapeOf(call[g])'
    BY <1>3, <1>0, <2>1, <2>2 DEF SaveAttendance, At, ShapeOf, CallSet
  <2> QED
    BY <1>3, <2>3, <2>4 DEF SaveAttendance, TypeOK
<1>4. CASE ContinueStreak(h)
  <2> DEFINE s  == u[t] + 1
             v  == [u EXCEPT ![t] = s]
             p  == PointsAt(t, s)
             m  == IF p > 0 THEN WithUser(WithStreak(call[h].mem, t, s), WithPoints(v, p))
                   ELSE WithStreak(call[h].mem, t, s)
             sv == IF p > 0 THEN Tables ELSE {}
             pc == IF SomAt(t, s) > 0 THEN "notify" ELSE "streak"
  <2>1. t \in EventTypes
    BY <1>4 DEF ContinueStreak, At, ShapeOf
  <2>2. s \in Nat
    BY <2>1, <1>0 DEF UserColumns
  <2>3. p \in Nat
    <3> HIDE DEF s
    <3> QED
      BY <2>1, <2>2, ConstantsAssumption DEF PointsAt
  <2>4. m \in RowSet
    <3>1. v \in [UserColumns -> Nat]
      BY <1>0, <2>1, <2>2
    <3>2. WithPoints(v, p) \in [UserColumns -> Nat]
      <4> HIDE DEF v, p
      <4> QED
        BY <2>3, <3>1, WithPointsTyped
    <3> QED
      <4>1. WithStreak(call[h].mem, t, s) \in RowSet
        BY <1>0, <2>1, <2>2, StreakTyped DEF CallSet
      <4>2. WithUser(WithStreak(call[h].mem, t, s), WithPoints(v, p)) \in RowSet
        BY <4>1, <3>2, MemTyped
      <4> QED
        BY <4>1, <4>2
  <2>5. call' = [call EXCEPT ![h] = [call[h] EXCEPT !.mem = m, !.saving = sv, !.pc = pc]]
    BY <1>4 DEF ContinueStreak, WithStreak, WithUser
  <2>6. sv \subseteq Tables /\ pc \in {"notify", "streak"}
    OBVIOUS
  <2> HIDE DEF m, sv, pc
  <2>7. call' \in [Handlers -> CallSet]
    BY <1>0, <2>4, <2>5, <2>6 DEF CallSet, Steps
  <2>8. \A g \in Handlers : ShapeOf(call[g])'
    BY <1>4, <1>0, <2>1, <2>5, <2>6 DEF ContinueStreak, At, ShapeOf, CallSet
  <2> QED
    BY <1>4, <2>7, <2>8 DEF ContinueStreak, TypeOK
<1>5. CASE RestartStreak(h)
  <2> DEFINE m == WithStreak(call[h].mem, t, 1)
  <2>9. t \in EventTypes
    BY <1>5 DEF RestartStreak, At, ShapeOf
  <2>1. m \in RowSet
    BY <1>0, <2>9, StreakTyped DEF CallSet
  <2>2. call' = [call EXCEPT ![h] = [call[h] EXCEPT !.mem = m, !.pc = "streak"]]
    BY <1>5 DEF RestartStreak
  <2> HIDE DEF m
  <2>3. call' \in [Handlers -> CallSet]
    BY <1>0, <2>1, <2>2 DEF CallSet, Steps
  <2>4. \A g \in Handlers : ShapeOf(call[g])'
    BY <1>5, <1>0, <2>2, <2>9 DEF RestartStreak, At, ShapeOf, CallSet
  <2> QED
    BY <1>5, <2>3, <2>4 DEF RestartStreak, TypeOK
<1>6. CASE SaveRewardNotification(h)
  <2>1. t \in EventTypes
    BY <1>6 DEF SaveRewardNotification, At, ShapeOf
  <2>2. rewards' \subseteq RewardSet
    <3>1. u[t] \in Nat /\ call[h].marked \in 0..MaxDay
      BY <1>0, <2>1 DEF UserColumns, CallSet
    <3> QED
      BY <1>6, <2>1, <3>1 DEF SaveRewardNotification, RewardSet, TypeOK
  <2>3. call' \in [Handlers -> CallSet]
    BY <1>6, <1>0 DEF SaveRewardNotification, CallSet, Steps
  <2>4. \A g \in Handlers : ShapeOf(call[g])'
    BY <1>6, <1>0, <2>1 DEF SaveRewardNotification, At, ShapeOf, CallSet
  <2> QED
    BY <1>6, <2>2, <2>3, <2>4, CommitTyped, CommitMarksTyped DEF SaveRewardNotification, TypeOK
<1>7. CASE UpdateUserStreak(h)
  <2> DEFINE n == IF u[t] = Top THEN 0 ELSE u[t]
             m == WithStreak(call[h].mem, t, n)
  <2>1. t \in EventTypes
    BY <1>7 DEF UpdateUserStreak, At, ShapeOf
  <2>2. m \in RowSet
    <3>1. n \in Nat
      BY <1>0, <2>1 DEF UserColumns
    <3> HIDE DEF n
    <3> QED
      BY <3>1, <1>0, <2>1, StreakTyped DEF CallSet
  <2>3. call' = [call EXCEPT ![h] = [call[h] EXCEPT !.mem = m, !.saving = {"user"}, !.pc = "count"]]
    BY <1>7 DEF UpdateUserStreak
  <2> HIDE DEF m
  <2>4. call' \in [Handlers -> CallSet]
    BY <1>0, <2>2, <2>3 DEF CallSet, Steps, Tables
  <2>5. \A g \in Handlers : ShapeOf(call[g])'
    BY <1>7, <1>0, <2>1, <2>3 DEF UpdateUserStreak, At, ShapeOf, CallSet
  <2> QED
    BY <1>7, <2>4, <2>5 DEF UpdateUserStreak, TypeOK
<1>8. CASE GiveBonus(h)
  <2> DEFINE m == [user   |-> WithPoints(u, BonusPoints[t]),
                   policy |-> [call[h].mem.policy EXCEPT ![t] = day + Window]]
  <2>1. t \in EventTypes
    BY <1>8 DEF GiveBonus, At, ShapeOf
  <2>2. WithPoints(u, BonusPoints[t]) \in [UserColumns -> Nat]
    BY <1>0, <2>1, WithPointsTyped, ConstantsAssumption
  <2>3. call[h].mem.policy \in [EventTypes -> Nat] /\ day + Window \in Nat
    BY <1>0, ConstantsAssumption DEF CallSet, RowSet, Days
  <2>4. m \in RowSet
    BY <2>2, <2>3 DEF RowSet
  <2>5. call' = [call EXCEPT ![h] = [call[h] EXCEPT !.mem = m, !.saving = Tables, !.pc = "commit"]]
    BY <1>8 DEF GiveBonus
  <2> HIDE DEF m
  <2>6. call' \in [Handlers -> CallSet]
    BY <1>0, <2>4, <2>5 DEF CallSet, Steps
  <2>7. \A g \in Handlers : ShapeOf(call[g])'
    BY <1>8, <1>0, <2>1, <2>5 DEF GiveBonus, At, ShapeOf, CallSet
  <2> QED
    BY <1>8, <2>6, <2>7 DEF GiveBonus, TypeOK
<1>9. CASE SkipBonus(h)
  BY <1>9, <1>0 DEF SkipBonus, At, TypeOK, ShapeOf, CallSet, Steps
<1> QED
  BY <1>1, <1>2, <1>3, <1>4, <1>5, <1>6, <1>7, <1>8, <1>9 DEF Mark

\* The calls that start with the user as it is, and the request to leave.
LEMMA LoadTyped ==
    ASSUME Typed, LevelInv, NEW h \in Handlers, Loads(h) \/ AskToLeave(h)
    PROVE  Typed'
<1> USE DEF Typed
<1>0. rows \in RowSet /\ rows.user \in [UserColumns -> Nat] /\ day \in 0..MaxDay
  BY ConstantsAssumption DEF TypeOK, RowSet, Days
<1>1. FullStreakSeen \in [EventTypes -> BOOLEAN]
  <2>1. \A t \in EventTypes : (unreset[t] \/ rows.user[t] = Top) \in BOOLEAN
    OBVIOUS
  <2> QED
    BY <2>1 DEF FullStreakSeen
<1>2. ASSUME NEW t \in EventTypes, LoadUser(h, t) PROVE Typed'
  <2>1. [IdleCall EXCEPT !.kind = t, !.pc = "check", !.mem = rows, !.since = day] \in CallSet
    BY <1>0, IdleTyped DEF CallSet, Steps
  <2>2. call' \in [Handlers -> CallSet]
    BY <1>2, <2>1 DEF LoadUser, TypeOK
  <2>3. \A g \in Handlers : ShapeOf(call[g])'
    BY <1>2, IdleTyped DEF LoadUser, ShapeOf, TypeOK, CallSet
  <2> QED
    BY <1>2, <1>1, <2>2, <2>3 DEF LoadUser, TypeOK
<1>3. ASSUME NEW p \in OtherPoints, EarnPoints(h, p) PROVE Typed'
  <2> DEFINE m == WithUser(rows, WithPoints(rows.user, p))
  <2>1. m \in RowSet
    <3>1. p \in Nat
      BY ConstantsAssumption
    <3> QED
      BY <1>0, <3>1, WithPointsTyped, MemTyped
  <2> HIDE DEF m
  <2>2. [IdleCall EXCEPT !.pc = "commit", !.saving = {"user"}, !.mem = m,
                         !.since = day] \in CallSet
    BY <1>0, <2>1, IdleTyped DEF CallSet, Steps, Tables
  <2>3. call' \in [Handlers -> CallSet]
    BY <1>3, <2>2 DEF EarnPoints, TypeOK, m
  <2>4. \A g \in Handlers : ShapeOf(call[g])'
    BY <1>3, IdleTyped DEF EarnPoints, ShapeOf, TypeOK, CallSet
  <2> QED
    BY <1>3, <1>1, <2>3, <2>4 DEF EarnPoints, TypeOK
<1>4. CASE Login(h)
  <2>1. [IdleCall EXCEPT !.pc = "commit", !.saving = {"user"}, !.mem = rows,
                         !.since = day] \in CallSet
    BY <1>0, IdleTyped DEF CallSet, Steps, Tables
  <2>2. call' \in [Handlers -> CallSet]
    BY <1>4, <2>1 DEF Login, TypeOK
  <2>3. \A g \in Handlers : ShapeOf(call[g])'
    BY <1>4, IdleTyped DEF Login, ShapeOf, TypeOK, CallSet
  <2> QED
    BY <1>4, <1>1, <2>2, <2>3 DEF Login, TypeOK
<1>5. CASE WithdrawMembership(h)
  <2> DEFINE m == WithUser(rows, Demoted(rows.user))
  <2>1. m \in RowSet
    <3>1. rows.user["level"] \in Levels
      BY DEF LevelInv, Leveled
    <3> QED
      BY <1>0, <3>1, DemotedTyped, MemTyped
  <2>2. call' = [call EXCEPT ![h] = [call[h] EXCEPT !.pc = "commit", !.saving = {"user"},
                                                    !.mem = m]]
    BY <1>5 DEF WithdrawMembership
  <2> HIDE DEF m
  <2>3. call' \in [Handlers -> CallSet]
    <3>1. call \in [Handlers -> CallSet] /\ call[h] \in CallSet
      BY DEF TypeOK
    <3>2. [call[h] EXCEPT !.pc = "commit", !.saving = {"user"}, !.mem = m] \in CallSet
      BY <2>1, <3>1 DEF CallSet, Steps, Tables
    <3> QED
      BY <2>2, <3>1, <3>2
  <2>4. call[h].pc = "leave" /\ day' = day
    BY <1>5 DEF WithdrawMembership, At
  <2>5. \A g \in Handlers : ShapeOf(call[g])'
    BY <2>2, <2>4 DEF ShapeOf, TypeOK, CallSet
  <2> QED
    BY <1>5, <1>1, <2>3, <2>5 DEF WithdrawMembership, TypeOK
<1>6. CASE AskToLeave(h)
  <2>1. [IdleCall EXCEPT !.pc = "leave", !.since = day] \in CallSet
    BY <1>0, IdleTyped DEF CallSet, Steps
  <2>2. call' \in [Handlers -> CallSet]
    BY <1>6, <2>1 DEF AskToLeave, TypeOK
  <2>3. \A g \in Handlers : ShapeOf(call[g])'
    BY <1>6, IdleTyped DEF AskToLeave, ShapeOf, TypeOK, CallSet, IdleCall
  <2> QED
    BY <1>6, <2>2, <2>3 DEF AskToLeave, TypeOK
<1> QED
  BY <1>2, <1>3, <1>4, <1>5, <1>6 DEF Loads

\* A save done keeps the call well typed and its progress as it was.
LEMMA SavedTyped ==
    ASSUME NEW c \in CallSet, NEW tb \in Tables
    PROVE  /\ Saved(c, tb) \in CallSet
           /\ Saved(c, tb).pc = c.pc /\ Saved(c, tb).kind = c.kind
           /\ Saved(c, tb).pending = c.pending /\ Saved(c, tb).marked = c.marked
           /\ Saved(c, tb).mem = c.mem /\ Saved(c, tb).selected = FALSE
           /\ Saved(c, tb).saving = c.saving \ {tb}
<1>1. NewRows.user \in [UserColumns -> Nat]
  BY IdleTyped DEF RowSet
<1> QED
  BY <1>1 DEF CallSet, Saved

LEMMA SaveTyped ==
    ASSUME Typed, NEW h \in Handlers, SelectRow(h) \/ UpdateRow(h)
    PROVE  Typed'
<1> DEFINE tb == Table(h)
<1> USE DEF Typed
<1>0. /\ call \in [Handlers -> CallSet] /\ call[h] \in CallSet /\ tb \in Tables
      /\ draft \in RowSet /\ rows \in RowSet
  BY DEF TypeOK, Table, Tables
<1>1. CASE SelectRow(h)
  <2> DEFINE diff == Differing(call[h].mem[tb], Visible(h, tb))
             c    == IF diff = {} THEN Saved(call[h], tb)
                     ELSE [call[h] EXCEPT !.diff = diff, !.selected = TRUE,
                                          !.seen = Visible(h, "user")]
  <2>1. diff \subseteq UserColumns
    <3>1. call[h].mem \in RowSet
      BY <1>0 DEF CallSet
    <3>2. DOMAIN call[h].mem.user = UserColumns /\ DOMAIN call[h].mem.policy = EventTypes
      BY <3>1 DEF RowSet
    <3>3. DOMAIN call[h].mem[tb] \subseteq UserColumns
      BY <1>0, <3>2 DEF Tables, UserColumns
    <3> QED
      BY <3>3 DEF Differing
  <2>2. call' = [call EXCEPT ![h] = c]
    BY <1>1 DEF SelectRow
  <2> HIDE DEF diff
  <2>0. call[h].pc # "leave"
    BY <1>0, <1>1 DEF SelectRow, ShapeOf
  <2>3. /\ c \in CallSet /\ c.pc = call[h].pc /\ c.kind = call[h].kind
        /\ c.pending = call[h].pending /\ c.marked = call[h].marked
    <3>1. CASE diff = {}
      BY <1>0, <3>1, SavedTyped
    <3>2. CASE diff # {}
      <4>1. Visible(h, "user") \in [UserColumns -> Nat]
        BY <1>0 DEF Visible, RowSet
      <4> QED
        BY <1>0, <2>1, <3>2, <4>1 DEF CallSet
    <3> QED
      BY <3>1, <3>2
  <2> HIDE DEF c
  <2>4. call' \in [Handlers -> CallSet]
    BY <1>0, <2>2, <2>3
  <2>5. \A g \in Handlers : ShapeOf(call[g])'
    BY <1>1, <1>0, <2>0, <2>2, <2>3 DEF SelectRow, ShapeOf
  <2>6. torn' \in BOOLEAN
    BY <1>1 DEF SelectRow, TypeOK
  <2> QED
    BY <1>1, <2>4, <2>5, <2>6 DEF SelectRow, TypeOK
<1>2. CASE UpdateRow(h)
  <2> DEFINE new == [x \in DOMAIN draft[tb] |->
                        IF x \in call[h].diff THEN call[h].mem[tb][x] ELSE draft[tb][x]]
             c   == Saved(call[h], tb)
  <2>1. call[h].mem \in RowSet /\ call[h].pc # "leave"
    BY <1>0, <1>2 DEF CallSet, UpdateRow, ShapeOf
  <2>2. [draft EXCEPT ![tb] = new] \in RowSet
    <3>1. CASE tb = "user"
      <4>1. new \in [UserColumns -> Nat]
        BY <1>0, <2>1, <3>1 DEF RowSet
      <4> HIDE DEF new
      <4> QED
        BY <1>0, <2>1, <3>1, <4>1 DEF RowSet
    <3>2. CASE tb = "policy"
      <4>1. new \in [EventTypes -> Nat]
        BY <1>0, <2>1, <3>2 DEF RowSet
      <4> HIDE DEF new
      <4> QED
        BY <1>0, <2>1, <3>2, <4>1 DEF RowSet
    <3> QED
      BY <1>0, <3>1, <3>2 DEF Tables
  <2>3. call' = [call EXCEPT ![h] = c] /\ draft' = [draft EXCEPT ![tb] = new]
    BY <1>2 DEF UpdateRow
  <2> HIDE DEF new
  <2>4. /\ c \in CallSet /\ c.pc = call[h].pc /\ c.kind = call[h].kind
        /\ c.pending = call[h].pending /\ c.marked = call[h].marked
    BY <1>0, SavedTyped
  <2> HIDE DEF c
  <2>5. call' \in [Handlers -> CallSet]
    BY <1>0, <2>3, <2>4
  <2>6. \A g \in Handlers : ShapeOf(call[g])'
    <3>1. day' = day
      BY <1>2 DEF UpdateRow
    <3> QED
      BY <3>1, <1>0, <2>1, <2>3, <2>4 DEF ShapeOf
  <2>7. torn' \in BOOLEAN
    BY <1>2 DEF UpdateRow
  <2>8. lock' \in [Tables -> Handlers \cup {Nobody}]
    BY <1>2 DEF UpdateRow, TypeOK
  <2> QED
    BY <1>2, <2>2, <2>3, <2>5, <2>6, <2>7, <2>8 DEF UpdateRow, TypeOK
<1> QED
  BY <1>1, <1>2

LEMMA EndTyped ==
    ASSUME Typed, NEW h \in Handlers, CommitTransaction(h) \/ Fail(h)
    PROVE  Typed'
<1> USE DEF Typed
<1>1. call' = [call EXCEPT ![h] = IdleCall] /\ UNCHANGED <<day, rewards, torn, skewed>>
  BY DEF CommitTransaction, Fail
<1>2. call' \in [Handlers -> CallSet]
  BY <1>1, IdleTyped DEF TypeOK
<1>3. \A g \in Handlers : ShapeOf(call[g])'
  BY <1>1, IdleTyped DEF ShapeOf, TypeOK
<1>4. CASE CommitTransaction(h)
  BY <1>1, <1>2, <1>3, <1>4, CommitTyped, CommitMarksTyped DEF CommitTransaction, TypeOK
<1>5. CASE Fail(h)
  <2>1. draft' \in RowSet
    BY <1>5 DEF Fail, TypeOK, RowSet
  <2>2. unreset' \in [EventTypes -> BOOLEAN]
    <3>1. \A t \in EventTypes :
             (unreset[t] \/ (call[h].kind = t /\ rows.user[t] = Top)) \in BOOLEAN
      OBVIOUS
    <3> QED
      BY <1>5, <3>1 DEF Fail
  <2> QED
    BY <1>1, <1>2, <1>3, <1>5, <2>1, <2>2, CommitTyped DEF Fail, TypeOK
<1> QED
  BY <1>4, <1>5

LEMMA NextTyped == Typed /\ LevelInv /\ [Next]_vars => Typed'
<1> SUFFICES ASSUME Typed, LevelInv, [Next]_vars PROVE Typed'
  OBVIOUS
<1>1. ASSUME NEW h \in Handlers, Loads(h) \/ AskToLeave(h) PROVE Typed'
  BY <1>1, LoadTyped
<1>2. ASSUME NEW h \in Handlers, Mark(h) PROVE Typed'
  BY <1>2, MarkTyped
<1>3. ASSUME NEW h \in Handlers, SelectRow(h) \/ UpdateRow(h) PROVE Typed'
  BY <1>3, SaveTyped
<1>4. ASSUME NEW h \in Handlers, CommitTransaction(h) \/ Fail(h) PROVE Typed'
  BY <1>4, EndTyped
<1>5. CASE NextDay
  BY <1>5, ConstantsAssumption DEF NextDay, Typed, TypeOK, ShapeOf, Days
<1>6. CASE UNCHANGED vars
  BY <1>6 DEF vars, Typed, TypeOK, ShapeOf
<1> QED
  BY <1>1, <1>2, <1>3, <1>4, <1>5, <1>6 DEF Next, Loads
-----------------------------------------------------------------------------
(* The level of the points *)

\* Adding points ranks the user again.
LEMMA WithPointsLeveled ==
    ASSUME NEW user \in [UserColumns -> Nat], NEW p \in Nat
    PROVE  Leveled(WithPoints(user, p))
<1>1. user["points"] + p \in Nat
  BY DEF UserColumns
<1>2. LevelOf(user["points"] + p) \in Levels
  BY <1>1, LevelExists
<1> QED
  BY <1>2 DEF Leveled, NearlyRanked, Ranked, WithPoints, UserColumns

\* Streaks are columns of their own.
LEMMA StreakLeveled ==
    ASSUME NEW mem \in RowSet, NEW t \in EventTypes, NEW n \in Nat, Leveled(mem.user)
    PROVE  Leveled(WithStreak(mem, t, n).user)
BY ConstantsAssumption
   DEF Leveled, NearlyRanked, Ranked, WithStreak, WithUser, UserColumns, RowSet

\* The points a level begins with rank as that level, but for the second's.
LEMMA PointsOfRanked ==
    ASSUME NEW l \in Levels
    PROVE  LevelOf(PointsOf(l)) = l \/ (l = 2 /\ PointsOf(l) = 51)
<1>1. CASE l = 2
  BY <1>1 DEF PointsOf
<1>2. CASE l # 2
  <2>1. PointsOf(l) \in Nat /\ Ranks(l, PointsOf(l))
    BY <1>2 DEF Levels, PointsOf, Ranks, Ceiling
  <2> QED
    BY <2>1, LevelUnique
<1> QED
  BY <1>1, <1>2

\* A withdrawal leaves a level with the points it begins with.
LEMMA DemotedLeveled ==
    ASSUME Typed, NEW user \in [UserColumns -> Nat], user["level"] \in Levels
    PROVE  Leveled(Demoted(user))
<1> DEFINE d == Demoted(user)
<1>1. d["level"] \in Levels /\ d["points"] = PointsOf(d["level"])
  BY DemotedTyped
<1> HIDE DEF d
<1>2. LevelOf(d["points"]) = d["level"] \/ (d["level"] = 2 /\ d["points"] = 51)
  BY <1>1, PointsOfRanked
<1>3. Leveled(d)
  BY <1>1, <1>2 DEF Leveled, NearlyRanked, Ranked
<1> QED
  BY <1>3 DEF d

LEMMA IdleLeveled == IdleCall.selected = FALSE /\ Leveled(IdleCall.mem.user)
<1>1. LevelOf(0) = 1 /\ 1 \in Levels
  <2>1. Ranks(1, 0) /\ 1 \in Levels
    BY DEF Ranks, Levels, Ceiling
  <2> QED
    BY <2>1, LevelUnique
<1> QED
  BY <1>1 DEF Leveled, NearlyRanked, Ranked, NewRows, UserColumns, IdleCall

LEMMA InitLevel == Init => LevelInv
<1> SUFFICES ASSUME Init PROVE LevelInv
  OBVIOUS
<1>1. IdleCall.mem = NewRows
  BY DEF IdleCall
<1> QED
  BY <1>1, IdleLeveled DEF Init, LevelInv

\* A call that moves on has nothing left to save, and is ranked when its copy is.
LEMMA StepLevel ==
    ASSUME Typed, LevelInv, NEW h \in Handlers,
           torn' = torn, rows' = rows, draft' = draft,
           call'[h].selected = FALSE, Leveled(call'[h].mem.user),
           \A g \in Handlers : g # h => call'[g] = call[g]
    PROVE  LevelInv'
BY DEF LevelInv, Leveled, Table

LEMMA MarkLevel ==
    ASSUME Typed, LevelInv, NEW h \in Handlers, Mark(h)
    PROVE  LevelInv'
<1> DEFINE t == call[h].kind
           u == call[h].mem.user
<1>0. /\ call \in [Handlers -> CallSet] /\ call[h] \in CallSet /\ call[h].mem \in RowSet
      /\ u \in [UserColumns -> Nat] /\ ShapeOf(call[h])
  BY DEF Typed, TypeOK, CallSet, RowSet
<1>10. Leveled(u)
  BY DEF LevelInv
<1>11. ASSUME call[h].saving = {} PROVE call[h].selected = FALSE
  BY <1>0, <1>11 DEF LevelInv, CallSet
<1>1. CASE RefuseMark(h)
  <2>1. /\ call'[h] = IdleCall /\ torn' = torn /\ rows' = rows /\ draft' = draft
        /\ \A g \in Handlers : g # h => call'[g] = call[g]
    BY <1>0, <1>1 DEF RefuseMark
  <2>2. call'[h].selected = FALSE /\ Leveled(call'[h].mem.user)
    BY <2>1, IdleLeveled
  <2> QED
    BY <2>1, <2>2, StepLevel
<1>2. CASE AdmitMark(h)
  <2>1. call[h].selected = FALSE
    BY <1>2, <1>11 DEF AdmitMark, At
  <2>2. call'[h].selected = call[h].selected /\ call'[h].mem = call[h].mem
    BY <1>0, <1>2 DEF AdmitMark, CallSet
  <2>3. /\ torn' = torn /\ rows' = rows /\ draft' = draft
        /\ \A g \in Handlers : g # h => call'[g] = call[g]
    BY <1>0, <1>2 DEF AdmitMark
  <2> QED
    BY <1>10, <2>1, <2>2, <2>3, StepLevel
<1>3. CASE SaveAttendance(h)
  <2>1. call[h].selected = FALSE
    BY <1>3, <1>11 DEF SaveAttendance, At
  <2>2. call'[h].selected = call[h].selected /\ call'[h].mem = call[h].mem
    BY <1>0, <1>3 DEF SaveAttendance, CallSet
  <2>3. /\ torn' = torn /\ rows' = rows /\ draft' = draft
        /\ \A g \in Handlers : g # h => call'[g] = call[g]
    BY <1>0, <1>3 DEF SaveAttendance
  <2> QED
    BY <1>10, <2>1, <2>2, <2>3, StepLevel
<1>4. CASE ContinueStreak(h)
  <2> DEFINE s  == u[t] + 1
             v  == [u EXCEPT ![t] = s]
             p  == PointsAt(t, s)
             n  == WithStreak(call[h].mem, t, s)
             m  == IF p > 0 THEN WithUser(n, WithPoints(v, p)) ELSE n
  <2>1. t \in EventTypes
    BY <1>0, <1>4 DEF ContinueStreak, At, ShapeOf
  <2>2. s \in Nat /\ v \in [UserColumns -> Nat]
    BY <2>1, <1>0 DEF UserColumns
  <2>3. p \in Nat
    <3>1. s \in Nat
      BY <2>2
    <3> HIDE DEF s
    <3> QED
      BY <2>1, <3>1, ConstantsAssumption DEF PointsAt
  <2>4. Leveled(m.user)
    <3>1. Leveled(WithUser(n, WithPoints(v, p)).user)
      <4> HIDE DEF v, p, n
      <4> QED
        BY <2>2, <2>3, WithPointsLeveled DEF WithUser
    <3>2. Leveled(n.user)
      <4> HIDE DEF s
      <4> QED
        BY <1>0, <1>10, <2>1, <2>2, StreakLeveled
    <3> QED
      BY <3>1, <3>2
  <2>5. /\ \E sv, pc : call' = [call EXCEPT ![h] = [call[h] EXCEPT !.mem = m, !.saving = sv,
                                                                  !.pc = pc]]
        /\ torn' = torn /\ rows' = rows /\ draft' = draft /\ call[h].saving = {}
    BY <1>4 DEF ContinueStreak, WithStreak, WithUser, At
  <2> HIDE DEF m
  <2>6. PICK sv, pc : call' = [call EXCEPT ![h] = [call[h] EXCEPT !.mem = m, !.saving = sv,
                                                                  !.pc = pc]]
    BY <2>5
  <2>7. /\ call'[h].selected = call[h].selected /\ call'[h].mem = m
        /\ \A g \in Handlers : g # h => call'[g] = call[g]
    BY <1>0, <2>6 DEF CallSet
  <2>8. call[h].selected = FALSE
    BY <2>5, <1>11
  <2> QED
    BY <2>4, <2>5, <2>7, <2>8, StepLevel
<1>5. CASE RestartStreak(h)
  <2>1. t \in EventTypes
    BY <1>0, <1>5 DEF RestartStreak, At, ShapeOf
  <2>2. Leveled(WithStreak(call[h].mem, t, 1).user)
    BY <1>0, <1>10, <2>1, StreakLeveled
  <2>3. /\ call'[h].selected = call[h].selected
        /\ call'[h].mem = WithStreak(call[h].mem, t, 1)
        /\ torn' = torn /\ rows' = rows /\ draft' = draft
        /\ \A g \in Handlers : g # h => call'[g] = call[g]
    BY <1>0, <1>5 DEF RestartStreak, CallSet
  <2>4. call[h].selected = FALSE
    BY <1>5, <1>11 DEF RestartStreak, At
  <2> QED
    BY <2>2, <2>3, <2>4, StepLevel
<1>6. CASE SaveRewardNotification(h)
  <2>0. call[h].selected = FALSE
    BY <1>6, <1>11 DEF SaveRewardNotification, At
  <2>1. /\ call'[h].selected = call[h].selected /\ call'[h].mem = call[h].mem
        /\ torn' = torn /\ draft' = draft
        /\ \A g \in Handlers : g # h => call'[g] = call[g]
    BY <1>0, <1>6 DEF SaveRewardNotification, CallSet
  <2>2. rows'.user \in {rows.user, draft.user}
    BY <1>6 DEF SaveRewardNotification, CommitRows
  <2> QED
    BY <1>10, <2>0, <2>1, <2>2 DEF LevelInv, Leveled, Table
<1>7. CASE UpdateUserStreak(h)
  <2> DEFINE n == IF u[t] = Top THEN 0 ELSE u[t]
  <2>1. t \in EventTypes
    BY <1>0, <1>7 DEF UpdateUserStreak, At, ShapeOf
  <2>2. n \in Nat
    BY <1>0, <2>1 DEF UserColumns
  <2>3. /\ call' = [call EXCEPT ![h] = [call[h] EXCEPT
                       !.mem = WithStreak(call[h].mem, t, n), !.saving = {"user"}, !.pc = "count"]]
        /\ torn' = torn /\ rows' = rows /\ draft' = draft /\ call[h].saving = {}
    BY <1>7 DEF UpdateUserStreak, At
  <2> HIDE DEF n
  <2>4. Leveled(WithStreak(call[h].mem, t, n).user)
    BY <1>0, <1>10, <2>1, <2>2, StreakLeveled
  <2>5. /\ call'[h].selected = call[h].selected
        /\ call'[h].mem = WithStreak(call[h].mem, t, n)
        /\ \A g \in Handlers : g # h => call'[g] = call[g]
    BY <1>0, <2>3 DEF CallSet
  <2>6. call[h].selected = FALSE
    BY <2>3, <1>11
  <2> QED
    BY <2>3, <2>4, <2>5, <2>6, StepLevel
<1>8. CASE GiveBonus(h)
  <2>1. t \in EventTypes
    BY <1>0, <1>8 DEF GiveBonus, At, ShapeOf
  <2>2. Leveled(WithPoints(u, BonusPoints[t]))
    BY <1>0, <2>1, WithPointsLeveled, ConstantsAssumption
  <2>3. /\ call'[h].selected = call[h].selected
        /\ call'[h].mem.user = WithPoints(u, BonusPoints[t])
        /\ \A g \in Handlers : g # h => call'[g] = call[g]
        /\ torn' = torn /\ rows' = rows /\ draft' = draft
    BY <1>0, <1>8 DEF GiveBonus, CallSet
  <2>4. call[h].selected = FALSE
    BY <1>8, <1>11 DEF GiveBonus, At
  <2> QED
    BY <2>2, <2>3, <2>4, StepLevel
<1>9. CASE SkipBonus(h)
  <2>1. call[h].selected = FALSE
    BY <1>9, <1>11 DEF SkipBonus, At
  <2>2. call'[h].selected = call[h].selected /\ call'[h].mem = call[h].mem
    BY <1>0, <1>9 DEF SkipBonus, CallSet
  <2>3. /\ torn' = torn /\ rows' = rows /\ draft' = draft
        /\ \A g \in Handlers : g # h => call'[g] = call[g]
    BY <1>0, <1>9 DEF SkipBonus
  <2> QED
    BY <1>10, <2>1, <2>2, <2>3, StepLevel
<1> QED
  BY <1>1, <1>2, <1>3, <1>4, <1>5, <1>6, <1>7, <1>8, <1>9 DEF Mark

LEMMA LoadLevel ==
    ASSUME Typed, LevelInv, NEW h \in Handlers, Loads(h) \/ AskToLeave(h)
    PROVE  LevelInv'
<1>0. /\ call \in [Handlers -> CallSet] /\ rows \in RowSet /\ rows.user \in [UserColumns -> Nat]
      /\ IdleCall \in CallSet /\ IdleCall.selected = FALSE
      /\ Leveled(rows.user) /\ Leveled(IdleCall.mem.user)
  BY IdleTyped, IdleLeveled DEF Typed, TypeOK, RowSet, LevelInv
<1>1. ASSUME NEW t \in EventTypes, LoadUser(h, t) PROVE LevelInv'
  BY <1>0, <1>1, StepLevel DEF LoadUser, CallSet
<1>2. ASSUME NEW p \in OtherPoints, EarnPoints(h, p) PROVE LevelInv'
  <2>1. Leveled(WithPoints(rows.user, p))
    BY <1>0, WithPointsLeveled, ConstantsAssumption
  <2> DEFINE m == WithUser(rows, WithPoints(rows.user, p))
  <2>2. m.user = WithPoints(rows.user, p)
    BY DEF WithUser
  <2>3. /\ call' = [call EXCEPT ![h] = [IdleCall EXCEPT !.pc = "commit", !.saving = {"user"},
                                           !.mem = m, !.since = day]]
        /\ torn' = torn /\ rows' = rows /\ draft' = draft
    BY <1>2 DEF EarnPoints
  <2> HIDE DEF m
  <2>4. call'[h].mem = m /\ call'[h].selected = FALSE /\ \A g \in Handlers : g # h => call'[g] = call[g]
    BY <1>0, <2>3 DEF CallSet
  <2> QED
    BY <2>1, <2>2, <2>3, <2>4, StepLevel
<1>3. CASE Login(h)
  BY <1>0, <1>3, StepLevel DEF Login, CallSet
<1>4. CASE WithdrawMembership(h)
  <2>1. Leveled(Demoted(rows.user))
    BY <1>0, DemotedLeveled DEF Leveled
  <2> DEFINE m == WithUser(rows, Demoted(rows.user))
  <2>2. m.user = Demoted(rows.user)
    BY DEF WithUser
  <2>3. /\ call' = [call EXCEPT ![h] = [call[h] EXCEPT !.pc = "commit", !.saving = {"user"},
                                                       !.mem = m]]
        /\ torn' = torn /\ rows' = rows /\ draft' = draft
    BY <1>4 DEF WithdrawMembership
  <2> HIDE DEF m
  <2>4. call[h].selected = FALSE
    BY <1>0, <1>4 DEF WithdrawMembership, At, Typed, ShapeOf, CallSet
  <2>5. call'[h].mem = m /\ call'[h].selected = FALSE /\ \A g \in Handlers : g # h => call'[g] = call[g]
    BY <1>0, <2>3, <2>4 DEF CallSet
  <2> QED
    BY <2>1, <2>2, <2>3, <2>5, StepLevel
<1>5. CASE AskToLeave(h)
  <2>1. call' = [call EXCEPT ![h] = [IdleCall EXCEPT !.pc = "leave", !.since = day]]
        /\ torn' = torn /\ rows' = rows /\ draft' = draft
    BY <1>5 DEF AskToLeave
  <2>2. call'[h].mem = IdleCall.mem /\ call'[h].selected = FALSE
        /\ \A g \in Handlers : g # h => call'[g] = call[g]
    BY <1>0, <2>1 DEF CallSet
  <2> QED
    BY <1>0, <2>1, <2>2, StepLevel
<1> QED
  BY <1>1, <1>2, <1>3, <1>4, <1>5 DEF Loads

LEMMA SelectLevel ==
    ASSUME Typed, LevelInv, NEW h \in Handlers, SelectRow(h)
    PROVE  LevelInv'
<1> DEFINE tb   == Table(h)
           diff == Differing(call[h].mem[tb], Visible(h, tb))
           sv   == Saved(call[h], tb)
           c    == IF diff = {} THEN sv
                   ELSE [call[h] EXCEPT !.diff = diff, !.selected = TRUE,
                                        !.seen = Visible(h, "user")]
<1>0. call \in [Handlers -> CallSet] /\ call[h] \in CallSet /\ tb \in Tables
  BY DEF Typed, TypeOK, Table, Tables
<1>1. /\ call' = [call EXCEPT ![h] = c] /\ rows' = rows /\ draft' = draft
      /\ call[h].saving # {} /\ torn' = torn
  BY DEF SelectRow
<1>2. sv.mem = call[h].mem /\ ~sv.selected
  BY <1>0, SavedTyped
<1> HIDE DEF sv
<1>3. CASE diff = {}
  <2>1. call'[h] = sv /\ \A g \in Handlers : g # h => call'[g] = call[g]
    BY <1>0, <1>1, <1>3
  <2> QED
    BY <1>1, <1>2, <2>1 DEF LevelInv, Leveled, Table
<1>4. CASE diff # {}
  <2>1. /\ call'[h].mem = call[h].mem /\ call'[h].seen = Visible(h, "user")
        /\ call'[h].saving = call[h].saving /\ call'[h].diff = diff
        /\ \A g \in Handlers : g # h => call'[g] = call[g]
    BY <1>0, <1>1, <1>4 DEF CallSet
  <2>2. Table(h)' = tb
    BY <2>1 DEF Table
  <2>3. tb = "user" => call'[h].diff = Differing(call'[h].mem.user, call'[h].seen)
    BY <2>1
  <2> HIDE DEF diff, tb
  <2>4. \A g \in Handlers : g # h => (Table(g)' = Table(g))
    BY <2>1 DEF Table
  <2> QED
    BY <1>1, <2>1, <2>2, <2>3, <2>4 DEF LevelInv, Leveled
<1> QED
  BY <1>3, <1>4

\* The UPDATE writes the points and the level of the copy, unless another save came
\* between it and its SELECT.
LEMMA UpdateLevel ==
    ASSUME Typed, LevelInv, NEW h \in Handlers, UpdateRow(h)
    PROVE  LevelInv'
<1> DEFINE tb  == Table(h)
           mem == call[h].mem.user
           new == [x \in DOMAIN draft[tb] |->
                      IF x \in call[h].diff THEN call[h].mem[tb][x] ELSE draft[tb][x]]
           sv  == Saved(call[h], tb)
<1>0. /\ call \in [Handlers -> CallSet] /\ call[h] \in CallSet /\ tb \in Tables
      /\ draft \in RowSet /\ call[h].mem \in RowSet
      /\ draft.user \in [UserColumns -> Nat] /\ mem \in [UserColumns -> Nat]
      /\ Leveled(draft.user) /\ Leveled(mem)
  BY DEF Typed, TypeOK, CallSet, RowSet, Table, Tables, LevelInv
<1>1. /\ call' = [call EXCEPT ![h] = sv] /\ rows' = rows
      /\ draft' = [draft EXCEPT ![tb] = new] /\ call[h].selected
      /\ torn' = (torn \/ Tearing(h))
  BY DEF UpdateRow
<1>2. sv.mem = call[h].mem /\ sv.selected = FALSE
  BY <1>0, SavedTyped
<1> HIDE DEF sv
<1>3. /\ call'[h].mem = call[h].mem /\ ~call'[h].selected
      /\ \A g \in Handlers : g # h => call'[g] = call[g]
  BY <1>0, <1>1, <1>2
<1>4. ASSUME tb = "user"
      PROVE  new["level"] \in Levels /\ (~torn' => NearlyRanked(new))
  <2> DEFINE user == draft.user
  <2>1. \A x \in {"points", "level"} :
           new[x] = IF x \in call[h].diff THEN mem[x] ELSE user[x]
    BY <1>0, <1>4 DEF UserColumns
  <2>2. call[h].diff = Differing(mem, call[h].seen)
    BY <1>1, <1>4 DEF LevelInv
  <2>3. \A x \in {"points", "level"} : x \notin call[h].diff => mem[x] = call[h].seen[x]
    BY <1>0, <2>2 DEF Differing, UserColumns
  <2>4. ASSUME ~torn' PROVE new["points"] = mem["points"] /\ new["level"] = mem["level"]
    <3>1. \A x \in {"points", "level"} : user[x] = call[h].seen[x]
      BY <1>1, <1>4, <2>4 DEF Tearing
    <3> HIDE DEF new, mem, user
    <3> QED
      BY <2>1, <2>3, <3>1
  <2>5. new["level"] \in Levels
    <3>1. new["level"] = mem["level"] \/ new["level"] = user["level"]
      <4> HIDE DEF new, mem, user
      <4> QED
        BY <2>1
    <3> HIDE DEF new
    <3> QED
      BY <1>0, <3>1 DEF Leveled
  <2>6. ~torn' => NearlyRanked(new)
    <3>1. ~torn' => NearlyRanked(mem)
      BY <1>0, <1>1 DEF Leveled
    <3> HIDE DEF new, mem
    <3> QED
      BY <2>4, <3>1 DEF NearlyRanked, Ranked
  <2> QED
    BY <2>5, <2>6
<1>5. Leveled(draft.user)'
  <2>1. CASE tb = "user"
    <3>1. draft'.user = new
      BY <1>0, <1>1, <2>1 DEF RowSet
    <3> HIDE DEF new
    <3> QED
      BY <1>4, <2>1, <3>1 DEF Leveled
  <2>2. CASE tb = "policy"
    <3>1. draft'.user = draft.user
      BY <1>0, <1>1, <2>2 DEF RowSet
    <3> QED
      BY <1>0, <1>1, <3>1 DEF Leveled
  <2> QED
    BY <1>0, <2>1, <2>2 DEF Tables
<1> HIDE DEF tb, new
<1>6. \A g \in Handlers : g # h => (Table(g)' = Table(g))
  BY <1>3 DEF Table
<1> QED
  BY <1>1, <1>3, <1>5, <1>6 DEF LevelInv, Leveled

LEMMA EndLevel ==
    ASSUME Typed, LevelInv, NEW h \in Handlers, CommitTransaction(h) \/ Fail(h)
    PROVE  LevelInv'
<1>1. /\ call' = [call EXCEPT ![h] = IdleCall] /\ torn' = torn
      /\ rows'.user \in {rows.user, draft.user} /\ draft'.user \in {rows.user, draft.user}
  BY DEF CommitTransaction, Fail, CommitRows
<1>2. /\ ~call'[h].selected /\ Leveled(call'[h].mem.user)
      /\ \A g \in Handlers : g # h => call'[g] = call[g]
  BY <1>1, IdleLeveled DEF Typed, TypeOK
<1> QED
  BY <1>1, <1>2 DEF LevelInv, Leveled, Table

LEMMA NextLevel == Typed /\ LevelInv /\ [Next]_vars => LevelInv'
<1> SUFFICES ASSUME Typed, LevelInv, [Next]_vars PROVE LevelInv'
  OBVIOUS
<1>1. ASSUME NEW h \in Handlers, Loads(h) \/ AskToLeave(h) PROVE LevelInv'
  BY <1>1, LoadLevel
<1>2. ASSUME NEW h \in Handlers, Mark(h) PROVE LevelInv'
  BY <1>2, MarkLevel
<1>3. ASSUME NEW h \in Handlers, SelectRow(h) PROVE LevelInv'
  BY <1>3, SelectLevel
<1>4. ASSUME NEW h \in Handlers, UpdateRow(h) PROVE LevelInv'
  BY <1>4, UpdateLevel
<1>5. ASSUME NEW h \in Handlers, CommitTransaction(h) \/ Fail(h) PROVE LevelInv'
  BY <1>5, EndLevel
<1>6. CASE NextDay
  BY <1>6 DEF NextDay, LevelInv, Leveled, Table
<1>7. CASE UNCHANGED vars
  BY <1>7 DEF vars, LevelInv, Leveled, Table
<1> QED
  BY <1>1, <1>2, <1>3, <1>4, <1>5, <1>6, <1>7 DEF Next, Loads

\* Every copy of the user, in memory, under lock or committed, has one of the seven
\* levels; unless an UPDATE found points or a level that its SELECT had not read, it is
\* the level of the points, but for the 51 points of a user demoted to level two.
THEOREM AttendanceLevelInvariant == Spec => []LevelInv
<1>1. Init => Typed /\ LevelInv
  BY InitTyped, InitLevel
<1>2. Typed /\ LevelInv /\ [Next]_vars => Typed' /\ LevelInv'
  BY NextTyped, NextLevel
<1> QED
  BY <1>1, <1>2, PTL DEF Spec

\* Unless an UPDATE found points or a level that its SELECT had not read, the level
\* of the committed user is that of the points, but for those 51: whatever the calls
\* undo of one another, and whatever fails.
THEOREM AttendanceLevelAgrees == Spec => []LevelAgrees
<1>1. LevelInv => LevelAgrees
  BY DEF LevelInv, Leveled, LevelAgrees
<1> QED
  BY <1>1, AttendanceLevelInvariant, PTL
-----------------------------------------------------------------------------
(* Types *)

\* Rows, locks, attendances, rewards and calls are well typed in every
\* reachable state, and no call holds an attendance it could not have inserted.
LEMMA AlwaysTyped == Spec => []Typed
BY InitTyped, NextTyped, AttendanceLevelInvariant, PTL DEF Spec

THEOREM AttendanceTypeCorrect == Spec => []TypeOK
<1>1. Typed => TypeOK
  BY DEF Typed
<1> QED
  BY <1>1, AlwaysTyped, PTL
-----------------------------------------------------------------------------
(* An attendance a day, and none without its reward *)

\* A step other than the check, the insert and a commit adds no attendance, no
\* reward and no call that may still add one.
Quiet ==
    /\ marks' = marks /\ rewards' = rewards /\ day' >= day
    /\ \A h \in Handlers :
          /\ call'[h].pc = "mark" => call[h].pc = "mark" /\ call'[h].kind = call[h].kind
          /\ call'[h].pending => /\ call[h].pending /\ call'[h].kind = call[h].kind
                                 /\ call'[h].marked = call[h].marked

Commits(h) == SaveRewardNotification(h) \/ CommitTransaction(h)

LEMMA MarkQuiet ==
    ASSUME Typed, NEW h \in Handlers, Mark(h),
           ~AdmitMark(h), ~SaveAttendance(h), ~SaveRewardNotification(h)
    PROVE  Quiet
<1> USE DEF Typed
<1>0. call \in [Handlers -> CallSet] /\ call[h] \in CallSet /\ day \in Nat
  BY DEF TypeOK
<1>1. CASE RefuseMark(h)
  BY <1>0, <1>1, IdleTyped DEF RefuseMark, Quiet
<1>2. CASE ContinueStreak(h)
  BY <1>0, <1>2 DEF ContinueStreak, Quiet, CallSet
<1>3. CASE RestartStreak(h)
  BY <1>0, <1>3 DEF RestartStreak, Quiet, CallSet
<1>4. CASE UpdateUserStreak(h)
  BY <1>0, <1>4 DEF UpdateUserStreak, Quiet, CallSet
<1>5. CASE GiveBonus(h)
  BY <1>0, <1>5 DEF GiveBonus, Quiet, CallSet
<1>6. CASE SkipBonus(h)
  BY <1>0, <1>6 DEF SkipBonus, Quiet, CallSet
<1> QED
  BY <1>1, <1>2, <1>3, <1>4, <1>5, <1>6 DEF Mark

LEMMA SaveQuiet ==
    ASSUME Typed, NEW h \in Handlers, SelectRow(h) \/ UpdateRow(h)
    PROVE  Quiet
<1> USE DEF Typed
<1>0. call \in [Handlers -> CallSet] /\ call[h] \in CallSet /\ day \in Nat /\ Table(h) \in Tables
  BY DEF TypeOK, Table, Tables
<1> DEFINE sv == Saved(call[h], Table(h))
<1>1. /\ sv \in CallSet /\ sv.pc = call[h].pc /\ sv.kind = call[h].kind
      /\ sv.pending = call[h].pending /\ sv.marked = call[h].marked
  BY <1>0, SavedTyped
<1> HIDE DEF sv
<1>2. \E c : /\ call' = [call EXCEPT ![h] = c]
             /\ c.pc = call[h].pc /\ c.kind = call[h].kind
             /\ c.pending = call[h].pending /\ c.marked = call[h].marked
  <2>1. CASE SelectRow(h)
    <3> DEFINE diff == Differing(call[h].mem[Table(h)], Visible(h, Table(h)))
    <3>1. call' = [call EXCEPT ![h] = IF diff = {} THEN sv
                      ELSE [call[h] EXCEPT !.diff = diff, !.selected = TRUE,
                                           !.seen = Visible(h, "user")]]
      BY <2>1 DEF SelectRow, sv
    <3> HIDE DEF diff
    <3>2. CASE diff = {}
      BY <1>1, <3>1, <3>2
    <3>3. CASE diff # {}
      <4> DEFINE c == [call[h] EXCEPT !.diff = diff, !.selected = TRUE,
                                      !.seen = Visible(h, "user")]
      <4>1. /\ c.pc = call[h].pc /\ c.kind = call[h].kind
            /\ c.pending = call[h].pending /\ c.marked = call[h].marked
        BY <1>0 DEF CallSet
      <4> QED
        BY <3>1, <3>3, <4>1
    <3> QED
      BY <3>2, <3>3
  <2>2. CASE UpdateRow(h)
    <3>1. call' = [call EXCEPT ![h] = sv]
      BY <2>2 DEF UpdateRow, sv
    <3> QED
      BY <1>1, <3>1
  <2> QED
    BY <2>1, <2>2
<1>3. marks' = marks /\ rewards' = rewards /\ day' = day
  BY DEF SelectRow, UpdateRow
<1> QED
  BY <1>0, <1>2, <1>3 DEF Quiet

LEMMA NextCases ==
    ASSUME Typed, [Next]_vars
    PROVE  \/ Quiet
           \/ \E h \in Handlers : AdmitMark(h) \/ SaveAttendance(h) \/ Commits(h)
<1> USE DEF Typed
<1>0. call \in [Handlers -> CallSet] /\ day \in Nat
  BY DEF TypeOK
<1>1. ASSUME NEW h \in Handlers, NEW t \in EventTypes, LoadUser(h, t) PROVE Quiet
  BY <1>0, <1>1, IdleTyped DEF LoadUser, Quiet, CallSet
<1>2. ASSUME NEW h \in Handlers, NEW p \in OtherPoints, EarnPoints(h, p) PROVE Quiet
  BY <1>0, <1>2, IdleTyped DEF EarnPoints, Quiet, CallSet
<1>3. ASSUME NEW h \in Handlers, Login(h) PROVE Quiet
  BY <1>0, <1>3, IdleTyped DEF Login, Quiet, CallSet
<1>4. ASSUME NEW h \in Handlers, Fail(h) PROVE Quiet
  BY <1>0, <1>4, IdleTyped DEF Fail, Quiet
<1>5. ASSUME NEW h \in Handlers, Mark(h),
             ~AdmitMark(h), ~SaveAttendance(h), ~SaveRewardNotification(h)
      PROVE  Quiet
  BY <1>5, MarkQuiet
<1>6. ASSUME NEW h \in Handlers, SelectRow(h) \/ UpdateRow(h) PROVE Quiet
  BY <1>6, SaveQuiet
<1>7. CASE NextDay
  BY <1>0, <1>7 DEF NextDay, Quiet
<1>8. CASE UNCHANGED vars
  BY <1>0, <1>8 DEF vars, Quiet
<1>9. ASSUME NEW h \in Handlers, AskToLeave(h) PROVE Quiet
  BY <1>0, <1>9, IdleTyped DEF AskToLeave, Quiet, CallSet
<1>10. ASSUME NEW h \in Handlers, WithdrawMembership(h) PROVE Quiet
  <2> DEFINE m == WithUser(rows, Demoted(rows.user))
  <2>1. call' = [call EXCEPT ![h] = [call[h] EXCEPT !.pc = "commit", !.saving = {"user"},
                                                    !.mem = m]]
    BY <1>10 DEF WithdrawMembership
  <2> HIDE DEF m
  <2>2. marks' = marks /\ rewards' = rewards /\ day' = day
    BY <1>10 DEF WithdrawMembership
  <2> QED
    BY <1>0, <2>1, <2>2 DEF Quiet, CallSet
<1> QED
  BY <1>1, <1>2, <1>3, <1>4, <1>5, <1>6, <1>7, <1>8, <1>9, <1>10 DEF Next, Commits

\* What a commit does to the attendances.
LEMMA CommitEffect ==
    ASSUME Typed, NEW h \in Handlers, Commits(h)
    PROVE  /\ marks' = CommitMarks(h) /\ day' = day
           /\ \A g \in Handlers : g # h => call'[g] = call[g]
           /\ ~call'[h].pending /\ call'[h].pc # "mark"
<1>1. CASE SaveRewardNotification(h)
  BY <1>1 DEF SaveRewardNotification, Typed, TypeOK, CallSet
<1>2. CASE CommitTransaction(h)
  BY <1>2, IdleTyped DEF CommitTransaction, Typed, TypeOK
<1> QED
  BY <1>1, <1>2 DEF Commits

LEMMA CommitMarksAt ==
    ASSUME Typed, NEW h \in Handlers, NEW t \in EventTypes, NEW d \in Days
    PROVE  CommitMarks(h)[t][d] =
             IF call[h].pending /\ call[h].kind = t /\ call[h].marked = d
             THEN marks[t][d] + 1 ELSE marks[t][d]
<1>1. marks \in [EventTypes -> [Days -> Nat]]
  BY DEF Typed, TypeOK
<1>2. CASE call[h].pending
  <2> DEFINE k == call[h].kind
             m == call[h].marked
  <2>1. k \in EventTypes /\ m \in Days
    BY <1>2, ConstantsAssumption DEF Typed, ShapeOf, Days
  <2>2. CommitMarks(h) = [marks EXCEPT ![k][m] = @ + 1]
    BY <1>2 DEF CommitMarks
  <2> HIDE DEF k, m
  <2>3. CommitMarks(h)[t][d] = IF k = t /\ m = d THEN marks[t][d] + 1 ELSE marks[t][d]
    BY <1>1, <2>1, <2>2
  <2> QED
    BY <1>2, <2>3 DEF k, m
<1>3. CASE ~call[h].pending
  BY <1>3 DEF CommitMarks
<1> QED
  BY <1>2, <1>3

LEMMA HandlersCard ==
    \A S \in SUBSET Handlers : /\ IsFiniteSet(S) /\ Cardinality(S) \in Nat
                               /\ Cardinality(S) <= Cardinality(Handlers)
                               /\ Cardinality(Handlers) \in Nat
BY ConstantsAssumption, FS_Subset, FS_CardinalityType

LEMMA FewerMayMark ==
    ASSUME NEW A \in SUBSET Handlers, NEW B \in SUBSET A
    PROVE  Cardinality(B) <= Cardinality(A)
BY HandlersCard, FS_Subset

LEMMA InitMarks == Init => MarksInv
<1> SUFFICES ASSUME Init, NEW t \in EventTypes, NEW d \in Days
             PROVE  /\ marks[t][d] + Cardinality(MayMark(t, d)) <= Cardinality(Handlers)
                    /\ d > day => marks[t][d] = 0
  BY DEF MarksInv
<1>1. MayMark(t, d) \subseteq Handlers /\ marks[t][d] = 0
  BY DEF MayMark, Init
<1> QED
  BY <1>1, HandlersCard

LEMMA NextMarks == Typed /\ Typed' /\ MarksInv /\ [Next]_vars => MarksInv'
<1> SUFFICES ASSUME Typed, Typed', MarksInv, [Next]_vars,
                    NEW t \in EventTypes, NEW d \in Days
             PROVE  /\ marks'[t][d] + Cardinality(MayMark(t, d)') <= Cardinality(Handlers)
                    /\ d > day' => marks'[t][d] = 0
  BY DEF MarksInv
<1>0. /\ call \in [Handlers -> CallSet] /\ day \in Nat /\ day' \in Nat /\ d \in Nat
      /\ marks[t][d] \in Nat /\ marks'[t][d] \in Nat
      /\ marks[t][d] + Cardinality(MayMark(t, d)) <= Cardinality(Handlers)
      /\ d > day => marks[t][d] = 0
      /\ MayMark(t, d) \subseteq Handlers /\ MayMark(t, d)' \subseteq Handlers
  <2>1. call \in [Handlers -> CallSet] /\ day \in Nat /\ marks[t][d] \in Nat
    BY DEF Typed, TypeOK
  <2>2. day' \in Nat /\ marks'[t][d] \in Nat
    BY DEF Typed, TypeOK
  <2>3. d \in Nat
    BY ConstantsAssumption DEF Days
  <2>4. MayMark(t, d) \subseteq Handlers /\ MayMark(t, d)' \subseteq Handlers
    BY DEF MayMark
  <2> QED
    BY <2>1, <2>2, <2>3, <2>4 DEF MarksInv
<1>1. CASE Quiet
  <2>1. MayMark(t, d)' \subseteq MayMark(t, d)
    BY <1>0, <1>1 DEF MayMark, Quiet
  <2>2. Cardinality(MayMark(t, d)') <= Cardinality(MayMark(t, d))
    BY <1>0, <2>1, FewerMayMark
  <2> QED
    BY <1>0, <1>1, <2>2, HandlersCard DEF Quiet
<1>2. ASSUME NEW h \in Handlers, AdmitMark(h)
      PROVE  /\ marks'[t][d] + Cardinality(MayMark(t, d)') <= Cardinality(Handlers)
             /\ d > day' => marks'[t][d] = 0
  <2>1. marks' = marks /\ day' = day
    BY <1>2 DEF AdmitMark
  <2>2. CASE d >= day /\ call[h].kind = t
    <3>1. marks[t][d] = 0
      BY <1>0, <1>2, <2>2 DEF AdmitMark, Marked, Typed
    <3> QED
      BY <1>0, <2>1, <3>1, HandlersCard
  <2>3. CASE ~(d >= day /\ call[h].kind = t)
    <3>1. MayMark(t, d)' \subseteq MayMark(t, d)
      BY <1>0, <1>2, <2>1, <2>3 DEF MayMark, AdmitMark, CallSet
    <3>2. Cardinality(MayMark(t, d)') <= Cardinality(MayMark(t, d))
      BY <1>0, <3>1, FewerMayMark
    <3> QED
      BY <1>0, <2>1, <3>2, HandlersCard
  <2> QED
    BY <2>2, <2>3
<1>3. ASSUME NEW h \in Handlers, SaveAttendance(h)
      PROVE  /\ marks'[t][d] + Cardinality(MayMark(t, d)') <= Cardinality(Handlers)
             /\ d > day' => marks'[t][d] = 0
  <2>1. marks' = marks /\ day' = day
    BY <1>3 DEF SaveAttendance
  <2>2. MayMark(t, d)' \subseteq MayMark(t, d)
    BY <1>0, <1>3, <2>1 DEF MayMark, SaveAttendance, At, CallSet
  <2>3. Cardinality(MayMark(t, d)') <= Cardinality(MayMark(t, d))
    BY <1>0, <2>2, FewerMayMark
  <2> QED
    BY <1>0, <2>1, <2>3, HandlersCard
<1>4. ASSUME NEW h \in Handlers, Commits(h)
      PROVE  /\ marks'[t][d] + Cardinality(MayMark(t, d)') <= Cardinality(Handlers)
             /\ d > day' => marks'[t][d] = 0
  <2>1. /\ marks' = CommitMarks(h) /\ day' = day
        /\ \A g \in Handlers : g # h => call'[g] = call[g]
        /\ ~call'[h].pending /\ call'[h].pc # "mark"
    BY <1>4, CommitEffect
  <2>2. MayMark(t, d)' \subseteq MayMark(t, d) \ {h}
    BY <2>1 DEF MayMark
  <2>3. CASE call[h].pending /\ call[h].kind = t /\ call[h].marked = d
    <3>1. h \in MayMark(t, d)
      BY <2>3 DEF MayMark
    <3>2. Cardinality(MayMark(t, d) \ {h}) = Cardinality(MayMark(t, d)) - 1
      BY <1>0, <3>1, HandlersCard, FS_RemoveElement
    <3>3. MayMark(t, d) \ {h} \in SUBSET Handlers
      BY <1>0
    <3>4. Cardinality(MayMark(t, d)') <= Cardinality(MayMark(t, d) \ {h})
      BY <2>2, <3>3, FewerMayMark
    <3>5. marks'[t][d] = marks[t][d] + 1
      BY <2>1, <2>3, CommitMarksAt
    <3>6. d <= day
      BY <2>3 DEF Typed, ShapeOf
    <3> QED
      BY <1>0, <2>1, <3>2, <3>4, <3>5, <3>6, HandlersCard
  <2>4. CASE ~(call[h].pending /\ call[h].kind = t /\ call[h].marked = d)
    <3>1. marks'[t][d] = marks[t][d]
      BY <2>1, <2>4, CommitMarksAt
    <3>2. Cardinality(MayMark(t, d)') <= Cardinality(MayMark(t, d))
      BY <1>0, <2>2, FewerMayMark
    <3> QED
      BY <1>0, <2>1, <3>1, <3>2, HandlersCard
  <2> QED
    BY <2>3, <2>4
<1> QED
  BY <1>1, <1>2, <1>3, <1>4, NextCases

\* Attendances of a day, with the calls that may still add one, never exceed
\* the number of concurrent calls.
THEOREM AttendanceMarksInvariant == Spec => []MarksInv
BY AlwaysTyped, InitMarks, NextMarks, PTL DEF Spec

\* An attendance a day, plus at most one for each call that raced it.
THEOREM AttendanceMarksBounded == Spec => []MarksBounded
<1>1. Typed /\ MarksInv => MarksBounded
  <2> SUFFICES ASSUME Typed, MarksInv, NEW t \in EventTypes, NEW d \in Days
               PROVE  marks[t][d] <= Cardinality(Handlers)
    BY DEF MarksBounded
  <2>1. /\ marks[t][d] \in Nat /\ MayMark(t, d) \subseteq Handlers
        /\ marks[t][d] + Cardinality(MayMark(t, d)) <= Cardinality(Handlers)
    BY DEF Typed, TypeOK, MarksInv, MayMark
  <2> QED
    BY <2>1, HandlersCard
<1> QED
  BY <1>1, AlwaysTyped, AttendanceMarksInvariant, PTL

RewardsInv == IsFiniteSet(rewards) /\ RewardsBacked

LEMMA InitRewards == Init => RewardsInv
<1> SUFFICES ASSUME Init PROVE RewardsInv
  OBVIOUS
<1>1. rewards = {} /\ IsFiniteSet({}) /\ Cardinality({}) = 0
  BY FS_EmptySet DEF Init
<1>2. \A t \in EventTypes : \A d \in Days : RewardsOn(t, d) = {} /\ marks[t][d] = 0
  BY <1>1 DEF RewardsOn, Init
<1> QED
  BY <1>1, <1>2 DEF RewardsInv, RewardsBacked

LEMMA NextRewards == Typed /\ Typed' /\ RewardsInv /\ [Next]_vars => RewardsInv'
<1> SUFFICES ASSUME Typed, Typed', RewardsInv, [Next]_vars PROVE RewardsInv'
  OBVIOUS
<1> USE DEF RewardsInv, RewardsBacked
<1>1. CASE Quiet
  BY <1>1 DEF Quiet, RewardsOn
<1>2. ASSUME NEW h \in Handlers, AdmitMark(h) \/ SaveAttendance(h) PROVE RewardsInv'
  BY <1>2 DEF AdmitMark, SaveAttendance, RewardsOn
<1>3. ASSUME NEW h \in Handlers, CommitTransaction(h) PROVE RewardsInv'
  <2>1. rewards' = rewards /\ marks' = CommitMarks(h)
    BY <1>3 DEF CommitTransaction
  <2> SUFFICES ASSUME NEW t \in EventTypes, NEW d \in Days
               PROVE  Cardinality(RewardsOn(t, d)') <= marks'[t][d]
    BY <2>1
  <2>2. RewardsOn(t, d)' = RewardsOn(t, d)
    BY <2>1 DEF RewardsOn
  <2>3. marks[t][d] \in Nat /\ Cardinality(RewardsOn(t, d)) \in Nat
    <3>1. IsFiniteSet(RewardsOn(t, d))
      BY FS_Subset DEF RewardsOn
    <3> QED
      BY <3>1, FS_CardinalityType DEF Typed, TypeOK
  <2>4. marks'[t][d] \in {marks[t][d], marks[t][d] + 1}
    BY <2>1, CommitMarksAt
  <2> QED
    BY <2>2, <2>3, <2>4
<1>4. ASSUME NEW h \in Handlers, SaveRewardNotification(h) PROVE RewardsInv'
  <2> DEFINE r == [type |-> call[h].kind, on |-> call[h].marked,
                   days |-> call[h].mem.user[call[h].kind], by |-> h]
  <2>1. rewards' = rewards \cup {r} /\ marks' = CommitMarks(h) /\ call[h].pending
    BY <1>4 DEF SaveRewardNotification, At, Typed, ShapeOf
  <2>2. IsFiniteSet(rewards')
    BY <2>1, FS_AddElement
  <2> SUFFICES ASSUME NEW t \in EventTypes, NEW d \in Days
               PROVE  Cardinality(RewardsOn(t, d)') <= marks'[t][d]
    BY <2>2
  <2>3. IsFiniteSet(RewardsOn(t, d)) /\ Cardinality(RewardsOn(t, d)) \in Nat
    BY FS_Subset, FS_CardinalityType DEF RewardsOn
  <2>4. marks[t][d] \in Nat
    BY DEF Typed, TypeOK
  <2>5. CASE call[h].kind = t /\ call[h].marked = d
    <3>1. RewardsOn(t, d)' = RewardsOn(t, d) \cup {r}
      BY <2>1, <2>5 DEF RewardsOn
    <3>2. Cardinality(RewardsOn(t, d) \cup {r}) <= Cardinality(RewardsOn(t, d)) + 1
      <4> HIDE DEF r
      <4>1. Cardinality(RewardsOn(t, d) \cup {r})
              = IF r \in RewardsOn(t, d) THEN Cardinality(RewardsOn(t, d))
                ELSE Cardinality(RewardsOn(t, d)) + 1
        BY <2>3, FS_AddElement
      <4> QED
        BY <2>3, <4>1
    <3>3. marks'[t][d] = marks[t][d] + 1
      BY <2>1, <2>5, CommitMarksAt
    <3>4. Cardinality(RewardsOn(t, d) \cup {r}) \in Nat
      BY <2>3, FS_AddElement, FS_CardinalityType
    <3> HIDE DEF r
    <3> QED
      BY <2>3, <2>4, <3>1, <3>2, <3>3, <3>4
  <2>6. CASE ~(call[h].kind = t /\ call[h].marked = d)
    <3>1. RewardsOn(t, d)' = RewardsOn(t, d)
      BY <2>1, <2>6 DEF RewardsOn
    <3>2. marks'[t][d] = marks[t][d]
      BY <2>1, <2>6, CommitMarksAt
    <3> QED
      BY <3>1, <3>2
  <2> QED
    BY <2>5, <2>6
<1> QED
  BY <1>1, <1>2, <1>3, <1>4, NextCases DEF Commits

\* No reward is durable without its attendance: the early commit of the
\* notification saves both.
THEOREM AttendanceRewardsBacked == Spec => []RewardsBacked
<1>1. Spec => []RewardsInv
  BY AlwaysTyped, InitRewards, NextRewards, PTL DEF Spec
<1>2. RewardsInv => RewardsBacked
  BY DEF RewardsInv
<1> QED
  BY <1>1, <1>2, PTL
-----------------------------------------------------------------------------
(* What each step does to its call *)

\* The other calls stay as they are.
Only(h) == \A g \in Handlers : g # h => call'[g] = call[g]

SameRows == rows' = rows /\ draft' = draft /\ lock' = lock

SameMarks == marks' = marks /\ rewards' = rewards /\ day' = day

\* What the call has read and inserted stays.
SameCall(h) ==
    /\ call'[h].kind = call[h].kind
    /\ call'[h].marked = call[h].marked /\ call'[h].since = call[h].since
    /\ (call'[h].pending <=> call[h].pending)

\* It has nothing in hand: it ended, or is about to leave.
Away(c) == c.pc \in {"idle", "leave"}

Ended(h) ==
    /\ Away(call'[h])
    /\ call'[h].pc = "leave" => call'[h].since = day /\ day' = day
    /\ call'[h].kind = "other" /\ call'[h].saving = {}
    /\ call'[h].marked = 0 /\ ~call'[h].pending /\ ~call'[h].selected
    /\ \A t \in EventTypes : call'[h].mem.user[t] = 0

\* The event types are no column, no table and no kind of another call.
LEMMA TypeNames ==
    \A t \in EventTypes : t \notin {"points", "level", "withdrawn", "other", "user", "policy"}
BY ConstantsAssumption

\* A call in progress is well typed.
LEMMA CallTyped ==
    ASSUME Typed, NEW h \in Handlers
    PROVE  /\ call \in [Handlers -> CallSet] /\ call[h] \in CallSet
           /\ call[h].mem \in RowSet /\ call[h].mem.user \in [UserColumns -> Nat]
           /\ \A t \in EventTypes : call[h].mem.user[t] \in Nat
<1>1. call \in [Handlers -> CallSet] /\ call[h] \in CallSet
  BY DEF Typed, TypeOK
<1>2. call[h].mem \in RowSet
  BY <1>1 DEF CallSet
<1>3. call[h].mem.user \in [UserColumns -> Nat]
  BY <1>2 DEF RowSet
<1> QED
  BY <1>1, <1>2, <1>3 DEF UserColumns

\* The rows, committed and under lock, are well typed.
LEMMA RowsTyped ==
    ASSUME Typed
    PROVE  /\ rows \in RowSet /\ draft \in RowSet
           /\ rows.user \in [UserColumns -> Nat] /\ draft.user \in [UserColumns -> Nat]
           /\ \A t \in EventTypes : rows.user[t] \in Nat /\ draft.user[t] \in Nat
           /\ day \in Days /\ day \in Nat /\ MaxDay \in Nat /\ Top \in Nat /\ Top > 0
BY ConstantsAssumption DEF Typed, TypeOK, RowSet, UserColumns, Days

\* What a call that is not in progress looks like.
LEMMA IdleIs ==
    /\ IdleCall.kind = "other" /\ IdleCall.pc = "idle" /\ IdleCall.saving = {}
    /\ IdleCall.marked = 0 /\ ~IdleCall.pending /\ ~IdleCall.selected
    /\ \A t \in EventTypes : IdleCall.mem.user[t] = 0
BY TypeNames DEF IdleCall, NewRows, UserColumns

\* Adding points leaves the streaks alone.
LEMMA WithPointsStreaks ==
    ASSUME NEW user \in [UserColumns -> Nat], NEW p
    PROVE  \A t \in EventTypes : WithPoints(user, p)[t] = user[t]
BY TypeNames DEF WithPoints, UserColumns

\* A call starts with a copy of the rows; a full streak that it reads is noted.
LEMMA LoadEffect ==
    ASSUME Typed, LevelInv, NEW h \in Handlers, Loads(h)
    PROVE  /\ Away(call[h]) /\ Only(h) /\ SameRows /\ SameMarks
           /\ crossed' = crossed /\ skewed' = skewed
           /\ behind' = behind \ {h} /\ unreset' = FullStreakSeen
           /\ call'[h].since = day \/ (~Idle(h) /\ call'[h].since = call[h].since)
           /\ call'[h].marked = 0
           /\ ~call'[h].pending /\ ~call'[h].selected
           /\ \A t \in EventTypes : call'[h].mem.user[t] = rows.user[t]
           /\ \/ /\ call'[h].kind \in EventTypes /\ call'[h].pc = "check"
                 /\ call'[h].saving = {} /\ call'[h].mem.user = rows.user
              \/ /\ call'[h].kind = "other" /\ call'[h].pc = "commit"
                 /\ call'[h].saving = {"user"}
<1>0. call \in [Handlers -> CallSet] /\ IdleCall \in CallSet
  BY CallTyped, IdleTyped
<1>1. ASSUME NEW t \in EventTypes, LoadUser(h, t)
      PROVE  /\ call' = [call EXCEPT ![h] = [IdleCall EXCEPT !.kind = t, !.pc = "check",
                                      !.mem = rows, !.since = day]]
             /\ call'[h].kind = t /\ call'[h].pc = "check" /\ call'[h].mem = rows
             /\ call'[h].since = day
             /\ call'[h].marked = 0 /\ ~call'[h].pending /\ ~call'[h].selected
             /\ call'[h].saving = {}
  BY <1>0, <1>1 DEF LoadUser, IdleCall
<1>2. CASE \E t \in EventTypes : LoadUser(h, t)
  BY <1>0, <1>1, <1>2 DEF LoadUser, Idle, Away, Only, SameRows, SameMarks
<1>3. ASSUME NEW m,
             call' = [call EXCEPT ![h] = [IdleCall EXCEPT !.pc = "commit", !.saving = {"user"},
                                      !.mem = m, !.since = day]]
      PROVE  /\ Only(h) /\ call'[h].kind = "other" /\ call'[h].pc = "commit" /\ call'[h].mem = m
             /\ call'[h].since = day
             /\ call'[h].marked = 0 /\ ~call'[h].pending /\ ~call'[h].selected
             /\ call'[h].saving = {"user"}
  BY <1>0, <1>3 DEF IdleCall, Only
<1>4. ASSUME NEW p \in OtherPoints, EarnPoints(h, p)
      PROVE  /\ Only(h) /\ call'[h].kind = "other" /\ call'[h].pc = "commit"
             /\ call'[h].since = day
             /\ call'[h].marked = 0 /\ ~call'[h].pending /\ ~call'[h].selected
             /\ call'[h].saving = {"user"}
             /\ \A t \in EventTypes : call'[h].mem.user[t] = rows.user[t]
  <2> DEFINE m == WithUser(rows, WithPoints(rows.user, p))
  <2>1. m.user = WithPoints(rows.user, p)
    BY DEF WithUser
  <2>2. \A t \in EventTypes : m.user[t] = rows.user[t]
    BY <2>1, WithPointsStreaks, RowsTyped
  <2>3. call' = [call EXCEPT ![h] = [IdleCall EXCEPT !.pc = "commit", !.saving = {"user"},
                                      !.mem = m, !.since = day]]
    BY <1>4 DEF EarnPoints
  <2> HIDE DEF m
  <2>4. /\ Only(h) /\ call'[h].kind = "other" /\ call'[h].pc = "commit" /\ call'[h].mem = m
        /\ call'[h].since = day
        /\ call'[h].marked = 0 /\ ~call'[h].pending /\ ~call'[h].selected
        /\ call'[h].saving = {"user"}
    BY <1>3, <2>3
  <2> QED
    BY <2>2, <2>4
<1>5. CASE \E p \in OtherPoints : EarnPoints(h, p)
  BY <1>4, <1>5 DEF EarnPoints, Idle, Away, SameRows, SameMarks
<1>6. CASE Login(h)
  BY <1>3, <1>6 DEF Login, Idle, Away, SameRows, SameMarks
<1>7. CASE WithdrawMembership(h)
  <2> DEFINE m == WithUser(rows, Demoted(rows.user))
  <2>1. m.user = Demoted(rows.user)
    BY DEF WithUser
  <2>2. \A t \in EventTypes : m.user[t] = rows.user[t]
    <3>1. rows.user["level"] \in Levels
      BY DEF LevelInv, Leveled
    <3> QED
      BY <2>1, <3>1, DemotedTyped, RowsTyped
  <2>3. call' = [call EXCEPT ![h] = [call[h] EXCEPT !.pc = "commit", !.saving = {"user"},
                                                    !.mem = m]]
    BY <1>7 DEF WithdrawMembership
  <2>4. /\ call[h].pc = "leave" /\ call[h].kind = "other" /\ call[h].marked = 0
        /\ ~call[h].pending /\ ~call[h].selected /\ call[h] \in CallSet
    BY <1>7, CallTyped DEF WithdrawMembership, At, Typed, ShapeOf
  <2> HIDE DEF m
  <2>5. /\ Only(h) /\ call'[h].kind = "other" /\ call'[h].pc = "commit" /\ call'[h].mem = m
        /\ call'[h].since = call[h].since /\ ~Idle(h)
        /\ call'[h].marked = 0 /\ ~call'[h].pending /\ ~call'[h].selected
        /\ call'[h].saving = {"user"}
    BY <1>0, <2>3, <2>4 DEF CallSet, Only, Idle
  <2> QED
    BY <1>7, <2>2, <2>4, <2>5 DEF WithdrawMembership, Away, SameRows, SameMarks
<1> QED
  BY <1>2, <1>5, <1>6, <1>7 DEF Loads

\* A request to leave takes nothing in hand.
LEMMA AskEffect ==
    ASSUME Typed, NEW h \in Handlers, AskToLeave(h)
    PROVE  /\ Ended(h) /\ Only(h) /\ SameRows /\ SameMarks
           /\ call[h].pc = "idle"
           /\ UNCHANGED <<behind, crossed, skewed, unreset>>
<1>1. call' = [call EXCEPT ![h] = [IdleCall EXCEPT !.pc = "leave", !.since = day]]
  BY DEF AskToLeave
<1>2. IdleCall \in CallSet
  BY IdleTyped
<1>3. /\ call'[h].pc = "leave" /\ call'[h].since = day /\ call'[h].kind = IdleCall.kind
      /\ call'[h].saving = IdleCall.saving /\ call'[h].marked = IdleCall.marked
      /\ call'[h].pending = IdleCall.pending /\ call'[h].selected = IdleCall.selected
      /\ call'[h].mem = IdleCall.mem /\ Only(h)
  BY <1>1, <1>2, CallTyped DEF CallSet, Only
<1>4. day' = day
  BY DEF AskToLeave
<1>5. Ended(h)
  BY <1>3, <1>4, IdleIs DEF Ended, Away
<1> QED
  BY <1>3, <1>5 DEF AskToLeave, Idle, SameRows, SameMarks

\* A call that ends leaves nothing behind.
LEMMA EndEffect ==
    ASSUME Typed, NEW h \in Handlers, call' = [call EXCEPT ![h] = IdleCall]
    PROVE  Ended(h) /\ Only(h)
<1>1. call'[h] = IdleCall /\ Only(h)
  BY CallTyped DEF Only
<1> QED
  BY <1>1, IdleIs DEF Ended, Away

\* A refused call ends.
LEMMA RefuseEffect ==
    ASSUME Typed, NEW h \in Handlers, RefuseMark(h)
    PROVE  /\ Ended(h) /\ Only(h) /\ SameRows /\ SameMarks
           /\ call[h].pc = "check"
           /\ UNCHANGED <<behind, crossed, skewed, unreset>>
BY EndEffect DEF RefuseMark, At, SameRows, SameMarks

\* An admitted call has found no attendance of today.
LEMMA AdmitEffect ==
    ASSUME Typed, NEW h \in Handlers, AdmitMark(h)
    PROVE  /\ Only(h) /\ SameRows /\ SameMarks /\ SameCall(h)
           /\ UNCHANGED <<behind, crossed, skewed, unreset>>
           /\ call[h].pc = "check" /\ call'[h].pc = "mark"
           /\ call[h].saving = {} /\ call'[h].saving = {}
           /\ (call'[h].selected <=> call[h].selected) /\ call'[h].mem = call[h].mem
           /\ ~Marked(call[h].kind, day)
BY CallTyped DEF AdmitMark, At, SameRows, SameMarks, SameCall, Only, CallSet

\* An inserted attendance is dated today and not committed.
LEMMA InsertEffect ==
    ASSUME Typed, NEW h \in Handlers, SaveAttendance(h)
    PROVE  /\ Only(h) /\ SameRows /\ SameMarks
           /\ UNCHANGED <<behind, crossed, skewed, unreset>>
           /\ call[h].pc = "mark" /\ call'[h].pc = "yesterday"
           /\ call[h].saving = {} /\ call'[h].saving = {}
           /\ (call'[h].selected <=> call[h].selected) /\ call'[h].mem = call[h].mem
           /\ call'[h].kind = call[h].kind
           /\ call'[h].since = call[h].since
           /\ call'[h].marked = day /\ call'[h].pending
BY CallTyped DEF SaveAttendance, At, SameRows, SameMarks, Only, CallSet

\* Another streak in memory.
LEMMA WithStreakIs ==
    ASSUME NEW mem \in RowSet, NEW t \in EventTypes, NEW n \in Nat
    PROVE  /\ WithStreak(mem, t, n) \in RowSet
           /\ WithStreak(mem, t, n).user[t] = n
           /\ \A s \in EventTypes : s # t => WithStreak(mem, t, n).user[s] = mem.user[s]
<1>1. mem.user \in [UserColumns -> Nat]
  BY DEF RowSet
<1> QED
  BY <1>1, StreakTyped DEF WithStreak, WithUser, UserColumns

\* What a step makes of the streaks in memory.
StreakIs(h, n) ==
    /\ call'[h].mem.user[call[h].kind] = n
    /\ \A s \in EventTypes : s # call[h].kind => call'[h].mem.user[s] = call[h].mem.user[s]

\* The streak grows by one after a day marked; a reward comes with points to save.
LEMMA ContinueEffect ==
    ASSUME Typed, NEW h \in Handlers, ContinueStreak(h)
    PROVE  /\ Only(h) /\ SameRows /\ SameMarks /\ SameCall(h)
           /\ UNCHANGED <<behind, crossed, unreset>>
           /\ skewed' = (skewed \/ call[h].marked # day)
           /\ call[h].pc = "yesterday" /\ call[h].saving = {} /\ call[h].kind \in EventTypes
           /\ (call'[h].selected <=> call[h].selected)
           /\ Marked(call[h].kind, day - 1)
           /\ call[h].pending
           /\ StreakIs(h, call[h].mem.user[call[h].kind] + 1)
           /\ call'[h].pc \in {"notify", "streak"}
           /\ call'[h].pc = "notify" => call'[h].saving = Tables
           /\ call'[h].saving \subseteq Tables
<1> DEFINE t == call[h].kind
           s == call[h].mem.user[t] + 1
           v == [call[h].mem.user EXCEPT ![t] = s]
           p == PointsAt(t, s)
           n == WithStreak(call[h].mem, t, s)
           m == IF p > 0 THEN WithUser(n, WithPoints(n.user, p)) ELSE n
           sv == IF p > 0 THEN Tables ELSE {}
           pc == IF SomAt(t, s) > 0 THEN "notify" ELSE "streak"
<1>0. /\ call \in [Handlers -> CallSet] /\ call[h] \in CallSet /\ call[h].mem \in RowSet
      /\ t \in EventTypes /\ call[h].pending
  BY CallTyped DEF ContinueStreak, At, Typed, ShapeOf
<1>1. s \in Nat
  BY <1>0, CallTyped
<1>2. call' = [call EXCEPT ![h] = [call[h] EXCEPT !.mem = m, !.saving = sv, !.pc = pc]]
  BY DEF ContinueStreak
<1>3. n \in RowSet /\ n.user[t] = s
      /\ \A x \in EventTypes : x # t => n.user[x] = call[h].mem.user[x]
  <2> HIDE DEF s, t
  <2> QED
    BY <1>0, <1>1, WithStreakIs
<1>4. n.user \in [UserColumns -> Nat]
  BY <1>3 DEF RowSet
<1>5. m.user[t] = s /\ \A x \in EventTypes : x # t => m.user[x] = call[h].mem.user[x]
  <2>1. \A x \in EventTypes : WithPoints(n.user, p)[x] = n.user[x]
    <3> HIDE DEF n, p
    <3> QED
      BY <1>4, WithPointsStreaks
  <2>2. WithUser(n, WithPoints(n.user, p)).user = WithPoints(n.user, p)
    BY DEF WithUser
  <2> HIDE DEF n, p
  <2> QED
    BY <1>0, <1>3, <2>1, <2>2
<1>6. pc = "notify" => p > 0
  <2> SUFFICES ASSUME SomAt(t, s) > 0 PROVE p > 0
    OBVIOUS
  <2> HIDE DEF s
  <2>1. s \in 1..Top /\ SomReward[t][s] > 0
    BY DEF SomAt
  <2> QED
    BY <1>0, <2>1, ConstantsAssumption DEF PointsAt
<1> HIDE DEF m, p
<1>7. /\ call'[h].mem = m /\ call'[h].saving = sv /\ call'[h].pc = pc
      /\ SameCall(h) /\ Only(h) /\ (call'[h].selected <=> call[h].selected)
  <2> HIDE DEF sv, pc
  <2> QED
    BY <1>0, <1>2 DEF CallSet, SameCall, Only
<1>8. StreakIs(h, s)
  BY <1>5, <1>7 DEF StreakIs
<1> QED
  BY <1>0, <1>6, <1>7, <1>8 DEF ContinueStreak, At, SameRows, SameMarks

\* After a gap the streak is one.
LEMMA RestartEffect ==
    ASSUME Typed, NEW h \in Handlers, RestartStreak(h)
    PROVE  /\ Only(h) /\ SameRows /\ SameMarks /\ SameCall(h)
           /\ UNCHANGED <<behind, crossed, skewed, unreset>>
           /\ call[h].pc = "yesterday" /\ call'[h].pc = "streak"
           /\ call[h].saving = {} /\ call'[h].saving = {} /\ call[h].kind \in EventTypes
           /\ (call'[h].selected <=> call[h].selected) /\ call[h].pending
           /\ StreakIs(h, 1)
<1> DEFINE m == WithStreak(call[h].mem, call[h].kind, 1)
<1>0. /\ call \in [Handlers -> CallSet] /\ call[h] \in CallSet /\ call[h].mem \in RowSet
      /\ call[h].kind \in EventTypes /\ call[h].pending
  BY CallTyped DEF RestartStreak, At, Typed, ShapeOf
<1>1. m.user[call[h].kind] = 1
      /\ \A s \in EventTypes : s # call[h].kind => m.user[s] = call[h].mem.user[s]
  BY <1>0, WithStreakIs
<1>2. call' = [call EXCEPT ![h] = [call[h] EXCEPT !.mem = m, !.pc = "streak"]]
  BY DEF RestartStreak
<1> HIDE DEF m
<1>3. /\ call'[h].mem = m /\ call'[h].saving = call[h].saving /\ call'[h].pc = "streak"
      /\ SameCall(h) /\ Only(h) /\ (call'[h].selected <=> call[h].selected)
  BY <1>0, <1>2 DEF CallSet, SameCall, Only
<1> QED
  BY <1>0, <1>1, <1>3 DEF RestartStreak, At, SameRows, SameMarks, StreakIs

\* The notification commits the call's work and leaves the call at its streak.
LEMMA NotifyEffect ==
    ASSUME Typed, NEW h \in Handlers, SaveRewardNotification(h)
    PROVE  /\ Only(h) /\ rows' = CommitRows(h) /\ draft' = draft /\ lock' = Unlocked(h)
           /\ marks' = CommitMarks(h) /\ day' = day
           /\ rewards' = rewards \cup {[type |-> call[h].kind, on |-> call[h].marked,
                                  days |-> call[h].mem.user[call[h].kind], by |-> h]}
           /\ behind' = Outrun(h) /\ UNCHANGED <<crossed, skewed, unreset>>
           /\ call[h].pc = "notify" /\ call'[h].pc = "streak"
           /\ call[h].saving = {} /\ call'[h].saving = {} /\ call[h].kind \in EventTypes
           /\ (call'[h].selected <=> call[h].selected) /\ call'[h].mem = call[h].mem
           /\ call'[h].kind = call[h].kind
           /\ call'[h].marked = call[h].marked /\ call'[h].since = call[h].since
           /\ call[h].pending /\ ~call'[h].pending
<1>1. call[h].kind \in EventTypes /\ call[h].pending /\ call[h].pc = "notify" /\ call[h].saving = {}
  BY DEF Typed, ShapeOf, SaveRewardNotification, At
<1>2. call' = [call EXCEPT ![h] = [call[h] EXCEPT !.pc = "streak", !.pending = FALSE]]
  BY DEF SaveRewardNotification
<1>3. /\ Only(h) /\ call'[h].pc = "streak" /\ call'[h].saving = call[h].saving
      /\ (call'[h].selected <=> call[h].selected) /\ call'[h].mem = call[h].mem
      /\ call'[h].kind = call[h].kind
      /\ call'[h].marked = call[h].marked /\ call'[h].since = call[h].since
      /\ ~call'[h].pending
  BY <1>2, CallTyped DEF CallSet, Only
<1> QED
  BY <1>1, <1>3 DEF SaveRewardNotification

\* A full streak becomes zero in memory, and the user is to be saved.
LEMMA ResetEffect ==
    ASSUME Typed, NEW h \in Handlers, UpdateUserStreak(h)
    PROVE  /\ Only(h) /\ SameRows /\ SameMarks /\ SameCall(h)
           /\ UNCHANGED <<behind, crossed, skewed, unreset>>
           /\ call[h].pc = "streak" /\ call'[h].pc = "count" /\ call[h].kind \in EventTypes
           /\ call[h].saving = {} /\ call'[h].saving = {"user"}
           /\ (call'[h].selected <=> call[h].selected)
           /\ StreakIs(h, IF call[h].mem.user[call[h].kind] = Top THEN 0
                          ELSE call[h].mem.user[call[h].kind])
<1> DEFINE n == IF call[h].mem.user[call[h].kind] = Top THEN 0 ELSE call[h].mem.user[call[h].kind]
           m == WithStreak(call[h].mem, call[h].kind, n)
<1>0. /\ call \in [Handlers -> CallSet] /\ call[h] \in CallSet /\ call[h].mem \in RowSet
      /\ call[h].kind \in EventTypes
  BY CallTyped DEF UpdateUserStreak, At, Typed, ShapeOf
<1>1. n \in Nat
  BY <1>0, CallTyped
<1>2. call' = [call EXCEPT ![h] = [call[h] EXCEPT !.mem = m, !.saving = {"user"}, !.pc = "count"]]
  BY DEF UpdateUserStreak
<1> HIDE DEF n
<1>3. m.user[call[h].kind] = n
      /\ \A s \in EventTypes : s # call[h].kind => m.user[s] = call[h].mem.user[s]
  BY <1>0, <1>1, WithStreakIs
<1> HIDE DEF m
<1>4. /\ call'[h].mem = m /\ call'[h].saving = {"user"} /\ call'[h].pc = "count"
      /\ SameCall(h) /\ Only(h) /\ (call'[h].selected <=> call[h].selected)
  BY <1>0, <1>2 DEF CallSet, SameCall, Only
<1>5. StreakIs(h, n)
  BY <1>3, <1>4 DEF StreakIs
<1> QED
  BY <1>0, <1>4, <1>5 DEF UpdateUserStreak, At, SameRows, SameMarks, n

\* The bonus leaves the streaks alone.
LEMMA BonusEffect ==
    ASSUME Typed, NEW h \in Handlers, GiveBonus(h) \/ SkipBonus(h)
    PROVE  /\ Only(h) /\ SameRows /\ SameMarks /\ SameCall(h)
           /\ UNCHANGED <<behind, crossed, skewed, unreset>>
           /\ call[h].pc = "count" /\ call'[h].pc = "commit" /\ call[h].kind \in EventTypes
           /\ call[h].saving = {}
           /\ \/ call'[h].saving = Tables
              \/ call'[h].saving = {} /\ call'[h].mem = call[h].mem
           /\ (call'[h].selected <=> call[h].selected)
           /\ \A s \in EventTypes : call'[h].mem.user[s] = call[h].mem.user[s]
<1>0. /\ call \in [Handlers -> CallSet] /\ call[h] \in CallSet /\ call[h].mem \in RowSet
      /\ call[h].kind \in EventTypes /\ call[h].pc = "count" /\ call[h].saving = {}
  BY CallTyped DEF GiveBonus, SkipBonus, At, Typed, ShapeOf
<1>1. CASE GiveBonus(h)
  <2> DEFINE t == call[h].kind
             m == [user   |-> WithPoints(call[h].mem.user, BonusPoints[t]),
                   policy |-> [call[h].mem.policy EXCEPT ![t] = day + Window]]
  <2>1. call' = [call EXCEPT ![h] = [call[h] EXCEPT !.mem = m, !.saving = Tables, !.pc = "commit"]]
    BY <1>1 DEF GiveBonus
  <2>2. \A s \in EventTypes : m.user[s] = call[h].mem.user[s]
    BY WithPointsStreaks, CallTyped
  <2> HIDE DEF m
  <2>3. /\ call'[h].mem = m /\ call'[h].saving = Tables /\ call'[h].pc = "commit"
        /\ SameCall(h) /\ Only(h) /\ (call'[h].selected <=> call[h].selected)
    BY <1>0, <2>1 DEF CallSet, SameCall, Only
  <2> QED
    BY <1>0, <1>1, <2>2, <2>3 DEF GiveBonus, SameRows, SameMarks
<1>2. CASE SkipBonus(h)
  <2>1. /\ call'[h].mem = call[h].mem /\ call'[h].saving = call[h].saving
        /\ call'[h].pc = "commit"
        /\ SameCall(h) /\ Only(h) /\ (call'[h].selected <=> call[h].selected)
    BY <1>0, <1>2 DEF SkipBonus, CallSet, SameCall, Only
  <2> QED
    BY <1>0, <1>2, <2>1 DEF SkipBonus, SameRows, SameMarks
<1> QED
  BY <1>1, <1>2

\* A save of the user goes on: what differs from the row it sees.
Differs(h) == Differing(call[h].mem.user, Visible(h, "user"))

\* The SELECT notes what differs, or ends the save.
LEMMA SelectEffect ==
    ASSUME Typed, NEW h \in Handlers, SelectRow(h)
    PROVE  /\ Only(h) /\ SameRows /\ SameMarks /\ SameCall(h)
           /\ UNCHANGED <<behind, skewed, unreset>>
           /\ crossed' = (crossed \/ Crossing(h))
           /\ call'[h].mem = call[h].mem /\ call'[h].pc = call[h].pc
           /\ call[h].saving # {} /\ ~call[h].selected
           /\ call'[h].selected => call'[h].saving # {}
           /\ call'[h].saving \subseteq call[h].saving
           /\ "user" \in call[h].saving =>
                 \/ /\ Differs(h) = {} /\ call'[h].saving = call[h].saving \ {"user"}
                    /\ ~call'[h].selected
                 \/ /\ Differs(h) # {} /\ call'[h].saving = call[h].saving
                    /\ call'[h].selected /\ call'[h].diff = Differs(h)
<1> DEFINE tb   == Table(h)
           diff == Differing(call[h].mem[tb], Visible(h, tb))
           sv   == Saved(call[h], tb)
<1>0. /\ call \in [Handlers -> CallSet] /\ call[h] \in CallSet /\ tb \in Tables
      /\ call[h].saving # {} /\ ~call[h].selected
      /\ tb \in call[h].saving
      /\ "user" \in call[h].saving => tb = "user"
  <2>1. call \in [Handlers -> CallSet] /\ call[h] \in CallSet
    BY CallTyped
  <2>2. call[h].saving \subseteq Tables
    BY <2>1 DEF CallSet
  <2> QED
    BY <2>1, <2>2 DEF SelectRow, Table, Tables
<1>1. call' = [call EXCEPT ![h] = IF diff = {} THEN sv
                      ELSE [call[h] EXCEPT !.diff = diff, !.selected = TRUE,
                                           !.seen = Visible(h, "user")]]
  BY DEF SelectRow
<1>2. tb = "user" => diff = Differs(h)
  BY DEF Differs
<1>3. CASE diff = {}
  <2>1. call'[h] = sv /\ Only(h)
    BY <1>0, <1>1, <1>3 DEF Only
  <2>2. /\ sv.kind = call[h].kind /\ sv.marked = call[h].marked
        /\ sv.since = call[h].since /\ sv.pending = call[h].pending /\ sv.mem = call[h].mem
        /\ sv.pc = call[h].pc /\ sv.saving = call[h].saving \ {tb} /\ ~sv.selected
    BY <1>0 DEF Saved, CallSet
  <2> HIDE DEF sv
  <2>3. SameCall(h)
    BY <2>1, <2>2 DEF SameCall
  <2> HIDE DEF tb, diff
  <2> QED
    BY <1>0, <1>2, <1>3, <2>1, <2>2, <2>3 DEF SelectRow, SameRows, SameMarks
<1>4. CASE diff # {}
  <2> DEFINE c == [call[h] EXCEPT !.diff = diff, !.selected = TRUE,
                                  !.seen = Visible(h, "user")]
  <2> HIDE DEF diff, sv
  <2>1. call'[h] = c /\ Only(h)
    BY <1>0, <1>1, <1>4 DEF Only
  <2>2. /\ c.kind = call[h].kind /\ c.marked = call[h].marked
        /\ c.since = call[h].since /\ c.pending = call[h].pending /\ c.mem = call[h].mem
        /\ c.pc = call[h].pc /\ c.saving = call[h].saving /\ c.selected /\ c.diff = diff
    BY <1>0 DEF CallSet
  <2> HIDE DEF c
  <2>3. SameCall(h)
    BY <2>1, <2>2 DEF SameCall
  <2> HIDE DEF tb
  <2> QED
    BY <1>0, <1>2, <1>4, <2>1, <2>2, <2>3 DEF SelectRow, SameRows, SameMarks
<1> QED
  BY <1>3, <1>4

\* What the UPDATE of the user leaves in the row.
Merged(h) == [x \in UserColumns |->
                IF x \in call[h].diff THEN call[h].mem.user[x] ELSE draft.user[x]]

\* The UPDATE takes the lock and writes the columns that differed.
LEMMA UpdateEffect ==
    ASSUME Typed, NEW h \in Handlers, UpdateRow(h), call[h].saving # {}
    PROVE  /\ Only(h) /\ rows' = rows /\ SameMarks
           /\ call'[h].kind = call[h].kind /\ call'[h].pc = call[h].pc
           /\ call'[h].marked = call[h].marked /\ call'[h].since = call[h].since
           /\ (call'[h].pending <=> call[h].pending) /\ call'[h].mem = call[h].mem
           /\ UNCHANGED <<behind, skewed, unreset>>
           /\ crossed' = (crossed \/ Crossing(h))
           /\ call[h].selected /\ ~call'[h].selected
           /\ call'[h].saving \subseteq call[h].saving
           /\ "user" \in call[h].saving =>
                 /\ lock["user"] \in {Nobody, h} /\ lock'["user"] = h
                 /\ draft'.user = Merged(h)
                 /\ call'[h].saving = call[h].saving \ {"user"}
           /\ "user" \notin call[h].saving =>
                 /\ lock'["user"] = lock["user"] /\ draft'.user = draft.user
<1> DEFINE tb  == Table(h)
           new == [x \in DOMAIN draft[tb] |->
                      IF x \in call[h].diff THEN call[h].mem[tb][x] ELSE draft[tb][x]]
           sv  == Saved(call[h], tb)
<1>0. /\ call \in [Handlers -> CallSet] /\ call[h] \in CallSet /\ tb \in Tables
      /\ call[h].selected /\ draft \in RowSet
      /\ tb \in call[h].saving /\ lock \in [Tables -> Handlers \cup {Nobody}]
      /\ "user" \in call[h].saving => tb = "user"
      /\ "user" \notin call[h].saving => tb = "policy"
  <2>1. call \in [Handlers -> CallSet] /\ call[h] \in CallSet
        /\ draft \in RowSet /\ lock \in [Tables -> Handlers \cup {Nobody}]
    BY CallTyped, RowsTyped DEF Typed, TypeOK
  <2>2. call[h].saving \subseteq Tables
    BY <2>1 DEF CallSet
  <2> QED
    BY <2>1, <2>2 DEF UpdateRow, Table, Tables
<1>1. call' = [call EXCEPT ![h] = sv] /\ draft' = [draft EXCEPT ![tb] = new]
      /\ lock' = [lock EXCEPT ![tb] = h] /\ lock[tb] \in {Nobody, h}
  BY DEF UpdateRow
<1>2. tb = "user" => new = Merged(h)
  BY <1>0 DEF Merged, RowSet
<1>3. /\ tb = "user" => draft'.user = new
      /\ tb = "policy" => draft'.user = draft.user
  <2> HIDE DEF tb, new
  <2> QED
    BY <1>0, <1>1 DEF RowSet
<1> HIDE DEF new
<1>4. /\ sv \in CallSet /\ sv.kind = call[h].kind /\ sv.marked = call[h].marked
      /\ sv.since = call[h].since /\ sv.pending = call[h].pending /\ sv.mem = call[h].mem
      /\ sv.pc = call[h].pc /\ sv.saving = call[h].saving \ {tb} /\ ~sv.selected
  BY <1>0, SavedTyped DEF Saved, CallSet
<1> HIDE DEF sv, tb
<1>6. call'[h] = sv /\ Only(h)
  BY <1>0, <1>1 DEF Only
<1>7. /\ tb = "user" => lock'["user"] = h
      /\ tb = "policy" => lock'["user"] = lock["user"]
  BY <1>0, <1>1 DEF Tables
<1>8. rows' = rows /\ SameMarks /\ UNCHANGED <<behind, skewed, unreset>>
      /\ crossed' = (crossed \/ Crossing(h))
  BY DEF UpdateRow, SameMarks
<1>9. /\ "user" \in call[h].saving =>
                 /\ lock["user"] \in {Nobody, h} /\ lock'["user"] = h
                 /\ draft'.user = Merged(h)
                 /\ call'[h].saving = call[h].saving \ {"user"}
      /\ "user" \notin call[h].saving =>
                 /\ lock'["user"] = lock["user"] /\ draft'.user = draft.user
  BY <1>0, <1>1, <1>2, <1>3, <1>4, <1>6, <1>7
<1> QED
  BY <1>0, <1>4, <1>6, <1>8, <1>9

\* A commit ends the call.
LEMMA CommitEnds ==
    ASSUME Typed, NEW h \in Handlers, CommitTransaction(h)
    PROVE  /\ Ended(h) /\ Only(h) /\ rows' = CommitRows(h) /\ draft' = draft
           /\ lock' = Unlocked(h) /\ marks' = CommitMarks(h) /\ day' = day /\ rewards' = rewards
           /\ behind' = Outrun(h) /\ UNCHANGED <<crossed, skewed, unreset>>
           /\ call[h].pc = "commit" /\ call[h].saving = {}
BY EndEffect DEF CommitTransaction, At

\* A failure ends the call and restores the rows it holds.
LEMMA FailEnds ==
    ASSUME Typed, NEW h \in Handlers, Fail(h)
    PROVE  /\ Ended(h) /\ Only(h) /\ rows' = rows /\ SameMarks
           /\ lock' = Unlocked(h)
           /\ draft'.user = IF lock["user"] = h THEN rows.user ELSE draft.user
           /\ \A t \in EventTypes :
                 unreset'[t] = (unreset[t] \/ (call[h].kind = t /\ rows.user[t] = Top))
           /\ UNCHANGED <<behind, crossed, skewed>> /\ ~Idle(h)
BY EndEffect DEF Fail, SameMarks

\* What a commit adds to the attendances, and what becomes of the user and its lock.
LEMMA CommitMarked ==
    ASSUME Typed, NEW h \in Handlers, marks' = CommitMarks(h)
    PROVE  \A t \in EventTypes : \A d :
              Marked(t, d)' <=> \/ Marked(t, d)
                                \/ call[h].pending /\ call[h].kind = t /\ call[h].marked = d
<1> SUFFICES ASSUME NEW t \in EventTypes, NEW d
             PROVE Marked(t, d)' <=> \/ Marked(t, d)
                                     \/ call[h].pending /\ call[h].kind = t /\ call[h].marked = d
  OBVIOUS
<1>1. call[h].pending => call[h].marked \in Days
  BY RowsTyped, CallTyped DEF Typed, ShapeOf, Days
<1>2. CASE d \in Days
  <2>1. marks[t][d] \in Nat
    BY <1>2 DEF Typed, TypeOK
  <2> QED
    BY <1>2, <2>1, CommitMarksAt DEF Marked
<1>3. CASE d \notin Days
  BY <1>1, <1>3 DEF Marked
<1> QED
  BY <1>2, <1>3

\* What a commit makes of the user and of its lock.
LEMMA CommitUser ==
    ASSUME Typed, NEW h \in Handlers, rows' = CommitRows(h), lock' = Unlocked(h)
    PROVE  /\ rows'.user = IF lock["user"] = h THEN draft.user ELSE rows.user
           /\ lock'["user"] = IF lock["user"] = h THEN Nobody ELSE lock["user"]
BY DEF CommitRows, Unlocked, Tables
-----------------------------------------------------------------------------
(* Days and locks *)

\* A call started today or yesterday and inserted its attendance since, and what
\* it has left to do follows from its step.
TimedOf(c) ==
    /\ c.pc # "idle" => c.since <= day /\ day <= c.since + 1
    /\ c.marked > 0 => c.kind \in EventTypes /\ c.since <= c.marked /\ c.marked <= day
    /\ c.pc \in {"idle", "leave", "check", "mark"} => c.marked = 0 /\ ~c.pending
    /\ c.pc \in {"idle", "leave", "check", "mark", "yesterday"} => c.saving = {}
    /\ c.pc \notin {"idle", "leave", "check", "mark"} /\ c.kind \in EventTypes => c.marked > 0
    /\ c.selected => c.saving # {}
    /\ c.marked > 0 /\ ~c.pending => Marked(c.kind, c.marked)

Timed == \A h \in Handlers : TimedOf(call[h])

\* The draft is the row unless a call that saves holds the user.
LockShape ==
    /\ lock["user"] = Nobody => draft.user = rows.user
    /\ \A h \in Handlers : lock["user"] = h => call[h].pc \in {"notify", "streak", "count", "commit"}

\* No attendance is taken back.
MarksStay == \A t \in EventTypes : \A d : Marked(t, d) => Marked(t, d)'

\* Days stay in order if the step keeps those of its own call.
LEMMA TimedStep ==
    ASSUME Timed, NEW h \in Handlers, Only(h), MarksStay, day' = day, TimedOf(call[h])'
    PROVE  Timed'
<1> SUFFICES ASSUME NEW g \in Handlers PROVE TimedOf(call[g])'
  BY DEF Timed
<1>1. CASE g = h
  BY <1>1
<1>2. CASE g # h
  BY <1>2 DEF Timed, TimedOf, Only, MarksStay
<1> QED
  BY <1>1, <1>2

\* The attendances a step does not touch.
LEMMA SameMarked == SameMarks => \A t, d : Marked(t, d)' <=> Marked(t, d)
BY DEF SameMarks, Marked

\* Nor does it take one back.
LEMMA SameMarksStay == SameMarks => MarksStay
BY SameMarked DEF MarksStay

\* A call that ended is in order.
LEMMA EndedTimed == ASSUME Typed, NEW h \in Handlers, Ended(h) PROVE TimedOf(call[h])'
<1>1. day \in Nat
  BY RowsTyped
<1>2. call'[h].pc # "idle" => call'[h].since = day /\ day' = day
  BY DEF Ended, Away
<1> QED
  BY <1>1, <1>2, TypeNames DEF Ended, Away, TimedOf

\* The days and the lock, initially.
LEMMA InitTimed == Init => Timed /\ LockShape
<1> SUFFICES ASSUME Init PROVE Timed /\ LockShape
  OBVIOUS
<1>1. \A h \in Handlers : call[h] = IdleCall
  BY DEF Init
<1>2. TimedOf(IdleCall)
  BY IdleIs, TypeNames DEF TimedOf
<1>3. LockShape
  BY ConstantsAssumption DEF Init, LockShape, Tables
<1> QED
  BY <1>1, <1>2, <1>3 DEF Timed

\* The days stay in order: no call lasts longer than a day.
LEMMA NextTimed == Typed /\ LevelInv /\ Timed /\ [Next]_vars => Timed'
<1> SUFFICES ASSUME Typed, LevelInv, Timed, [Next]_vars PROVE Timed'
  OBVIOUS
<1> USE DEF TimedOf
<1>0. day \in Nat /\ \A h \in Handlers : TimedOf(call[h]) /\ call[h].marked \in Nat /\ call[h].since \in Nat
  <2>1. day \in Nat
    BY RowsTyped
  <2>2. \A h \in Handlers : TimedOf(call[h])
    BY DEF Timed
  <2>3. \A h \in Handlers : call[h].marked \in Nat /\ call[h].since \in Nat
    BY CallTyped, RowsTyped DEF CallSet
  <2> QED
    BY <2>1, <2>2, <2>3
<1>1. ASSUME NEW h \in Handlers, Loads(h) PROVE Timed'
  <2>1. call'[h].since <= day /\ day <= call'[h].since + 1 /\ day' = day
    BY <1>0, <1>1, LoadEffect DEF SameMarks, Idle
  <2>2. TimedOf(call[h])'
    BY <1>1, <2>1, LoadEffect, TypeNames
  <2> QED
    BY <1>1, <2>2, LoadEffect, TimedStep, SameMarksStay DEF SameMarks
<1>2. ASSUME NEW h \in Handlers, RefuseMark(h) \/ AskToLeave(h) PROVE Timed'
  BY <1>2, RefuseEffect, AskEffect, EndedTimed, TimedStep, SameMarksStay DEF SameMarks
<1>3. ASSUME NEW h \in Handlers, AdmitMark(h) PROVE Timed'
  <2>1. TimedOf(call[h])'
    BY <1>0, <1>3, AdmitEffect DEF SameMarks, SameCall
  <2> QED
    BY <1>3, <2>1, AdmitEffect, TimedStep, SameMarksStay DEF SameMarks
<1>4. ASSUME NEW h \in Handlers, SaveAttendance(h) PROVE Timed'
  <2>1. TimedOf(call[h])'
    BY <1>0, <1>4, InsertEffect, RowsTyped DEF SameMarks, Typed, ShapeOf, Days
  <2> QED
    BY <1>4, <2>1, InsertEffect, TimedStep, SameMarksStay DEF SameMarks
<1>5. ASSUME NEW h \in Handlers, ContinueStreak(h) PROVE Timed'
  <2>1. TimedOf(call[h])'
    BY <1>0, <1>5, ContinueEffect, SameMarked DEF SameMarks, SameCall
  <2> QED
    BY <1>5, <2>1, ContinueEffect, TimedStep, SameMarksStay DEF SameMarks
<1>6. ASSUME NEW h \in Handlers, RestartStreak(h) PROVE Timed'
  <2>1. TimedOf(call[h])'
    BY <1>0, <1>6, RestartEffect, SameMarked DEF SameMarks, SameCall
  <2> QED
    BY <1>6, <2>1, RestartEffect, TimedStep, SameMarksStay DEF SameMarks
<1>7. ASSUME NEW h \in Handlers, SaveRewardNotification(h) PROVE Timed'
  <2>1. \A t \in EventTypes : \A d :
              Marked(t, d)' <=> \/ Marked(t, d)
                                \/ call[h].pending /\ call[h].kind = t /\ call[h].marked = d
    BY <1>7, NotifyEffect, CommitMarked
  <2>2. MarksStay
    BY <2>1 DEF MarksStay
  <2>3. Marked(call[h].kind, call[h].marked)'
    BY <1>7, <2>1, NotifyEffect
  <2>4. TimedOf(call[h])'
    BY <1>0, <1>7, <2>3, NotifyEffect
  <2> QED
    BY <1>7, <2>2, <2>4, NotifyEffect, TimedStep
<1>8. ASSUME NEW h \in Handlers, UpdateUserStreak(h) PROVE Timed'
  <2>1. TimedOf(call[h])'
    BY <1>0, <1>8, ResetEffect, SameMarked DEF SameMarks, SameCall
  <2> QED
    BY <1>8, <2>1, ResetEffect, TimedStep, SameMarksStay DEF SameMarks
<1>9. ASSUME NEW h \in Handlers, GiveBonus(h) \/ SkipBonus(h) PROVE Timed'
  <2>1. TimedOf(call[h])'
    BY <1>0, <1>9, BonusEffect, SameMarked DEF SameMarks, SameCall
  <2> QED
    BY <1>9, <2>1, BonusEffect, TimedStep, SameMarksStay DEF SameMarks
<1>10. ASSUME NEW h \in Handlers, SelectRow(h) PROVE Timed'
  <2>1. TimedOf(call[h])'
    BY <1>0, <1>10, SelectEffect, SameMarked DEF SameMarks, SameCall
  <2> QED
    BY <1>10, <2>1, SelectEffect, TimedStep, SameMarksStay DEF SameMarks
<1>11. ASSUME NEW h \in Handlers, UpdateRow(h) PROVE Timed'
  <2>0. call[h].saving # {}
    BY <1>0, <1>11 DEF UpdateRow
  <2>1. TimedOf(call[h])'
    BY <1>0, <1>11, <2>0, UpdateEffect, SameMarked DEF SameMarks
  <2> QED
    BY <1>11, <2>0, <2>1, UpdateEffect, TimedStep, SameMarksStay DEF SameMarks
<1>12. ASSUME NEW h \in Handlers, CommitTransaction(h) PROVE Timed'
  <2>1. MarksStay
    BY <1>12, CommitEnds, CommitMarked DEF MarksStay
  <2> QED
    BY <1>12, <2>1, CommitEnds, EndedTimed, TimedStep
<1>13. ASSUME NEW h \in Handlers, Fail(h) PROVE Timed'
  BY <1>13, FailEnds, EndedTimed, TimedStep, SameMarksStay DEF SameMarks
<1>14. CASE NextDay
  BY <1>0, <1>14 DEF NextDay, Timed, Idle, Marked
<1>15. CASE UNCHANGED vars
  BY <1>15 DEF vars, Timed, Marked
<1> QED
  BY <1>1, <1>2, <1>3, <1>4, <1>5, <1>6, <1>7, <1>8, <1>9, <1>10, <1>11, <1>12, <1>13,
     <1>14, <1>15 DEF Next, Mark, Loads

Working == {"notify", "streak", "count", "commit"}

\* A step that leaves rows and locks alone keeps the shape of the lock.
LEMMA LockStep ==
    ASSUME LockShape, NEW h \in Handlers, Only(h), SameRows,
           lock["user"] = h => call'[h].pc \in Working
    PROVE  LockShape'
BY DEF LockShape, Only, SameRows, Working

\* So does the end of a transaction.
LEMMA LockEnds ==
    ASSUME Typed, LockShape, NEW h \in Handlers, Only(h), lock' = Unlocked(h),
           IF lock["user"] = h THEN draft'.user = rows'.user
           ELSE draft'.user = draft.user /\ rows'.user = rows.user
    PROVE  LockShape'
<1>1. lock'["user"] = IF lock["user"] = h THEN Nobody ELSE lock["user"]
  BY DEF Unlocked, Tables
<1> QED
  BY <1>1, ConstantsAssumption DEF LockShape, Only

\* Only calls that have something to save, or saved it, are at work.
LEMMA SavesWork ==
    ASSUME Typed, Timed, NEW h \in Handlers, call[h].saving # {}
    PROVE  call[h].pc \in Working
<1>1. TimedOf(call[h]) /\ call[h].pc \in Steps
  BY CallTyped DEF Timed, CallSet
<1> QED
  BY <1>1 DEF TimedOf, Steps, Working

\* The lock keeps its shape.
LEMMA NextLock == Typed /\ LevelInv /\ Timed /\ LockShape /\ [Next]_vars => LockShape'
<1> SUFFICES ASSUME Typed, LevelInv, Timed, LockShape, [Next]_vars PROVE LockShape'
  OBVIOUS
<1>0. \A h \in Handlers : lock["user"] = h => call[h].pc \in Working
  BY DEF LockShape, Working
<1>1. ASSUME NEW h \in Handlers, Loads(h) PROVE LockShape'
  BY <1>0, <1>1, LoadEffect, LockStep DEF Away, Working
<1>2. ASSUME NEW h \in Handlers, RefuseMark(h) \/ AskToLeave(h) PROVE LockShape'
  BY <1>0, <1>2, RefuseEffect, AskEffect, LockStep DEF Working
<1>3. ASSUME NEW h \in Handlers, AdmitMark(h) PROVE LockShape'
  BY <1>0, <1>3, AdmitEffect, LockStep DEF Working
<1>4. ASSUME NEW h \in Handlers, SaveAttendance(h) PROVE LockShape'
  BY <1>0, <1>4, InsertEffect, LockStep DEF Working
<1>5. ASSUME NEW h \in Handlers, ContinueStreak(h) PROVE LockShape'
  BY <1>0, <1>5, ContinueEffect, LockStep DEF Working
<1>6. ASSUME NEW h \in Handlers, RestartStreak(h) PROVE LockShape'
  BY <1>0, <1>6, RestartEffect, LockStep DEF Working
<1>7. ASSUME NEW h \in Handlers, SaveRewardNotification(h) PROVE LockShape'
  BY <1>7, NotifyEffect, CommitUser, LockEnds
<1>8. ASSUME NEW h \in Handlers, UpdateUserStreak(h) PROVE LockShape'
  BY <1>0, <1>8, ResetEffect, LockStep DEF Working
<1>9. ASSUME NEW h \in Handlers, GiveBonus(h) \/ SkipBonus(h) PROVE LockShape'
  BY <1>0, <1>9, BonusEffect, LockStep DEF Working
<1>10. ASSUME NEW h \in Handlers, SelectRow(h) PROVE LockShape'
  BY <1>0, <1>10, SelectEffect, LockStep
<1>11. ASSUME NEW h \in Handlers, UpdateRow(h) PROVE LockShape'
  <2>1. call[h].saving # {}
    BY <1>11 DEF UpdateRow, Timed, TimedOf
  <2>2. call'[h].pc \in Working
    BY <1>11, <2>1, SavesWork, UpdateEffect
  <2>3. CASE "user" \in call[h].saving
    BY <1>11, <2>1, <2>2, <2>3, UpdateEffect, ConstantsAssumption DEF LockShape, Only, Working
  <2>4. CASE "user" \notin call[h].saving
    BY <1>11, <2>1, <2>2, <2>4, UpdateEffect DEF LockShape, Only, Working
  <2> QED
    BY <2>3, <2>4
<1>12. ASSUME NEW h \in Handlers, CommitTransaction(h) PROVE LockShape'
  BY <1>12, CommitEnds, CommitUser, LockEnds
<1>13. ASSUME NEW h \in Handlers, Fail(h) PROVE LockShape'
  BY <1>13, FailEnds, LockEnds
<1>14. CASE NextDay
  BY <1>14 DEF NextDay, LockShape
<1>15. CASE UNCHANGED vars
  BY <1>15 DEF vars, LockShape
<1> QED
  BY <1>1, <1>2, <1>3, <1>4, <1>5, <1>6, <1>7, <1>8, <1>9, <1>10, <1>11, <1>12, <1>13,
     <1>14, <1>15 DEF Next, Mark, Loads
-----------------------------------------------------------------------------
(* A full streak starts again *)

\* The save of a streak that is no longer full, selected as different or not yet.
Resets(c) ==
    /\ c.pc = "count" /\ "user" \in c.saving
    /\ c.mem.user[c.kind] # Top
    /\ c.selected => c.kind \in c.diff

\* The call that committed a full streak has yet to write or commit its reset.
Owes(h, t) ==
    /\ call[h].kind = t /\ call[h].marked > 0 /\ ~call[h].pending
    /\ \/ call[h].pc = "streak"
       \/ Resets(call[h])
       \/ lock["user"] = h /\ draft.user[t] # Top

\* A full streak is in memory only before its reset, and in the draft only if the
\* row had it, or if the call that holds it is about to reset it.
RestartAt(h, t) ==
    /\ call[h].mem.user[t] <= Top
    /\ call[h].mem.user[t] = Top => call[h].kind = t /\ call[h].pc \in {"notify", "streak"}
    /\ lock["user"] = h /\ draft.user[t] = Top
          => \/ rows.user[t] = Top
             \/ call[h].kind = t /\ (call[h].pc \in {"notify", "streak"} \/ Resets(call[h]))

RestartOf(t) ==
    /\ rows.user[t] <= Top /\ draft.user[t] <= Top
    /\ rows.user[t] = Top => \E h \in Handlers : Owes(h, t)
    /\ \A h \in Handlers : RestartAt(h, t)

\* The inductive form of StreakRestarts.
RestartInv == \A t \in EventTypes : ~unreset[t] => RestartOf(t)

\* The user that another call holds stays.
LocksStay(h) ==
    \A g \in Handlers : g # h =>
        /\ lock'["user"] = g <=> lock["user"] = g
        /\ lock["user"] = g => draft'.user = draft.user /\ rows'.user = rows.user

\* A step of one call keeps a streak's restart if its own part and its debt are kept.
LEMMA RestartStep ==
    ASSUME NEW h \in Handlers, NEW t \in EventTypes, RestartOf(t), Only(h), LocksStay(h),
           rows'.user[t] <= Top, draft'.user[t] <= Top,
           rows'.user[t] = Top => \/ Owes(h, t)'
                                  \/ rows.user[t] = Top /\ (Owes(h, t) => Owes(h, t)'),
           RestartAt(h, t)'
    PROVE  RestartOf(t)'
<1>1. ASSUME NEW g \in Handlers, g # h, Owes(g, t) PROVE Owes(g, t)'
  BY <1>1 DEF Owes, Only, LocksStay, Resets
<1>2. rows'.user[t] = Top => \E g \in Handlers : Owes(g, t)'
  BY <1>1 DEF RestartOf
<1>3. ASSUME NEW g \in Handlers, g # h PROVE RestartAt(g, t)'
  BY <1>3 DEF RestartOf, RestartAt, Only, LocksStay, Resets
<1> QED
  BY <1>2, <1>3 DEF RestartOf

\* A step that leaves the rows alone leaves the user another call holds.
LEMMA SameStay == ASSUME NEW h \in Handlers, SameRows PROVE LocksStay(h)
BY DEF SameRows, LocksStay

\* So does the end of a transaction, which frees only its own lock.
LEMMA EndsStay ==
    ASSUME Typed, NEW h \in Handlers, lock' = Unlocked(h),
           lock["user"] # h => draft'.user = draft.user /\ rows'.user = rows.user
    PROVE  LocksStay(h) /\ lock'["user"] # h
<1>1. lock'["user"] = IF lock["user"] = h THEN Nobody ELSE lock["user"]
  BY DEF Unlocked, Tables
<1> QED
  BY <1>1, ConstantsAssumption DEF LocksStay

\* No streak is full initially.
LEMMA InitRestart == Init => RestartInv
<1> SUFFICES ASSUME Init, NEW t \in EventTypes PROVE RestartOf(t)
  BY DEF RestartInv
<1>1. rows.user[t] = 0 /\ draft.user[t] = 0
  BY TypeNames DEF Init, NewRows, UserColumns
<1>2. \A h \in Handlers : call[h] = IdleCall /\ lock["user"] # h
  BY ConstantsAssumption DEF Init, Tables
<1>3. Top \in Nat /\ Top > 0
  BY ConstantsAssumption
<1> QED
  BY <1>1, <1>2, <1>3, IdleIs DEF RestartOf, RestartAt

\* A call that has not come to its reset owes none.
LEMMA NothingOwed ==
    ASSUME Typed, Timed, LockShape, NEW h \in Handlers, NEW t \in EventTypes
    PROVE  /\ call[h].pc \in {"idle", "leave", "check", "mark"} => ~Owes(h, t)
           /\ call[h].pending => ~Owes(h, t)
           /\ call[h].pc \notin Working => lock["user"] # h
<1>1. TimedOf(call[h])
  BY DEF Timed
<1> QED
  BY <1>1 DEF TimedOf, Owes, LockShape, Working

\* A call that ended holds no full streak.
LEMMA EndedRestart ==
    ASSUME Typed, NEW h \in Handlers, NEW t \in EventTypes, Ended(h), lock'["user"] # h
    PROVE  RestartAt(h, t)'
BY RowsTyped DEF Ended, RestartAt

\* A call that starts has read no full streak, unless it was noted.
LEMMA LoadRestart ==
    ASSUME Typed, LevelInv, Timed, LockShape, NEW t \in EventTypes, RestartOf(t),
           NEW h \in Handlers, Loads(h) \/ RefuseMark(h) \/ AskToLeave(h), ~unreset'[t]
    PROVE  RestartOf(t)'
<1>0. rows.user[t] <= Top /\ rows.user[t] \in Nat /\ draft.user[t] <= Top
  BY RowsTyped DEF RestartOf
<1>1. CASE Loads(h)
  <2>1. /\ Away(call[h]) /\ Only(h) /\ SameRows /\ unreset' = FullStreakSeen
        /\ call'[h].mem.user[t] = rows.user[t]
    BY <1>1, LoadEffect
  <2>2. rows.user[t] # Top
    BY <2>1 DEF FullStreakSeen
  <2>3. lock["user"] # h
    BY <2>1 DEF LockShape, Away
  <2>4. RestartAt(h, t)'
    BY <1>0, <2>1, <2>2, <2>3 DEF RestartAt, SameRows
  <2>5. rows'.user[t] = rows.user[t] /\ draft'.user[t] = draft.user[t]
    BY <2>1 DEF SameRows
  <2> QED
    BY <1>0, <2>1, <2>2, <2>4, <2>5, RestartStep, SameStay
<1>2. CASE RefuseMark(h) \/ AskToLeave(h)
  <2>1. /\ Ended(h) /\ Only(h) /\ SameRows /\ call[h].pc \in {"idle", "check"}
    BY <1>2, RefuseEffect, AskEffect
  <2>2. lock["user"] # h /\ ~Owes(h, t)
    BY <2>1, NothingOwed DEF Working
  <2>3. RestartAt(h, t)'
    BY <2>1, <2>2, EndedRestart DEF SameRows
  <2>4. rows'.user[t] = rows.user[t] /\ draft'.user[t] = draft.user[t]
    BY <2>1 DEF SameRows
  <2> QED
    BY <1>0, <2>1, <2>2, <2>3, <2>4, RestartStep, SameStay
<1> QED
  BY <1>1, <1>2

\* Up to its count, a call reaches a full streak only in memory.
LEMMA MarkRestart ==
    ASSUME Typed, Timed, LockShape, NEW t \in EventTypes, RestartOf(t), NEW h \in Handlers,
           AdmitMark(h) \/ SaveAttendance(h) \/ ContinueStreak(h) \/ RestartStreak(h)
    PROVE  RestartOf(t)'
<1>0. /\ rows.user[t] <= Top /\ draft.user[t] <= Top /\ RestartAt(h, t)
      /\ Top \in Nat /\ Top > 0 /\ call[h].mem.user[t] \in Nat
  BY RowsTyped, CallTyped DEF RestartOf
<1>1. /\ Only(h) /\ SameRows /\ call[h].pc \notin Working
      /\ call[h].pc \in {"check", "mark", "yesterday"}
  BY AdmitEffect, InsertEffect, ContinueEffect, RestartEffect DEF Working
<1>2. lock["user"] # h /\ lock'["user"] # h
  BY <1>1, NothingOwed DEF SameRows
<1>3. ~Owes(h, t)
  <2>1. call[h].pc = "yesterday" => call[h].pending
    BY DEF Typed, ShapeOf
  <2> QED
    BY <1>1, <2>1, NothingOwed
<1>4. call[h].mem.user[t] <= Top /\ call[h].mem.user[t] # Top
  BY <1>0, <1>1 DEF RestartAt
<1>5. RestartAt(h, t)'
  <2>1. CASE AdmitMark(h) \/ SaveAttendance(h)
    <3>1. call'[h].mem = call[h].mem
      BY <2>1, AdmitEffect, InsertEffect
    <3> QED
      BY <1>2, <1>4, <3>1 DEF RestartAt
  <2>2. CASE ContinueStreak(h)
    <3>1. StreakIs(h, call[h].mem.user[call[h].kind] + 1) /\ call'[h].pc \in {"notify", "streak"}
          /\ call'[h].kind = call[h].kind
      BY <2>2, ContinueEffect DEF SameCall
    <3>2. CASE t = call[h].kind
      <4>1. call'[h].mem.user[t] = call[h].mem.user[t] + 1
        BY <3>1, <3>2 DEF StreakIs
      <4>2. call[h].mem.user[t] + 1 <= Top
        BY <1>0, <1>4
      <4> QED
        BY <1>2, <3>1, <3>2, <4>1, <4>2 DEF RestartAt
    <3>3. CASE t # call[h].kind
      <4>1. call'[h].mem.user[t] = call[h].mem.user[t]
        BY <3>1, <3>3 DEF StreakIs
      <4> QED
        BY <1>2, <1>4, <4>1 DEF RestartAt
    <3> QED
      BY <3>2, <3>3
  <2>3. CASE RestartStreak(h)
    <3>1. StreakIs(h, 1) /\ call'[h].pc = "streak" /\ call'[h].kind = call[h].kind
      BY <2>3, RestartEffect DEF SameCall
    <3>2. CASE t = call[h].kind
      <4>1. call'[h].mem.user[t] = 1
        BY <3>1, <3>2 DEF StreakIs
      <4> QED
        BY <1>0, <1>2, <3>1, <3>2, <4>1 DEF RestartAt
    <3>3. CASE t # call[h].kind
      <4>1. call'[h].mem.user[t] = call[h].mem.user[t]
        BY <3>1, <3>3 DEF StreakIs
      <4> QED
        BY <1>2, <1>4, <4>1 DEF RestartAt
    <3> QED
      BY <3>2, <3>3
  <2> QED
    BY <2>1, <2>2, <2>3
<1>6. rows'.user[t] = rows.user[t] /\ draft'.user[t] = draft.user[t]
  BY <1>1 DEF SameRows
<1> QED
  BY <1>0, <1>1, <1>3, <1>5, <1>6, RestartStep, SameStay

\* The early commit of a full streak leaves its call owing the reset.
LEMMA NotifyRestart ==
    ASSUME Typed, Timed, LockShape, NEW t \in EventTypes, RestartOf(t), NEW h \in Handlers,
           SaveRewardNotification(h)
    PROVE  RestartOf(t)'
<1>0. /\ rows.user[t] <= Top /\ draft.user[t] <= Top /\ RestartAt(h, t)
      /\ call[h].mem.user[t] \in Nat
  BY CallTyped DEF RestartOf
<1>1. /\ Only(h) /\ lock' = Unlocked(h) /\ rows' = CommitRows(h) /\ draft' = draft
      /\ call[h].pc = "notify" /\ call'[h].pc = "streak" /\ call'[h].mem = call[h].mem
      /\ call'[h].kind = call[h].kind /\ call'[h].marked = call[h].marked
      /\ call[h].pending /\ ~call'[h].pending
  BY NotifyEffect
<1>2. rows'.user = IF lock["user"] = h THEN draft.user ELSE rows.user
  BY <1>1, CommitUser
<1>3. LocksStay(h) /\ lock'["user"] # h
  BY <1>1, <1>2, EndsStay
<1>4. ~Owes(h, t)
  BY <1>1, NothingOwed
<1>5. call[h].marked > 0
  BY <1>1, RowsTyped DEF Typed, ShapeOf
<1>6. RestartAt(h, t)'
  BY <1>0, <1>1, <1>3 DEF RestartAt
<1>7. rows'.user[t] = Top => Owes(h, t)' \/ (rows.user[t] = Top /\ (Owes(h, t) => Owes(h, t)'))
  <2>1. CASE lock["user"] = h /\ draft.user[t] = Top
    <3>1. rows.user[t] = Top \/ call[h].kind = t
      BY <1>0, <2>1 DEF RestartAt
    <3>2. call[h].kind = t => Owes(h, t)'
      BY <1>1, <1>5 DEF Owes
    <3> QED
      BY <1>4, <3>1, <3>2
  <2> QED
    BY <1>2, <1>4, <2>1
<1>8. rows'.user[t] <= Top /\ draft'.user[t] <= Top
  BY <1>0, <1>1, <1>2
<1> QED
  BY <1>1, <1>3, <1>6, <1>7, <1>8, RestartStep

\* The reset is owed until it is saved.
LEMMA ResetRestart ==
    ASSUME Typed, Timed, LockShape, NEW t \in EventTypes, RestartOf(t), NEW h \in Handlers,
           UpdateUserStreak(h) \/ GiveBonus(h) \/ SkipBonus(h)
    PROVE  RestartOf(t)'
<1>0. /\ rows.user[t] <= Top /\ draft.user[t] <= Top /\ RestartAt(h, t)
      /\ Top \in Nat /\ Top > 0 /\ call[h].mem.user[t] \in Nat
  BY RowsTyped, CallTyped DEF RestartOf
<1>1. /\ Only(h) /\ SameRows /\ SameCall(h) /\ call[h].pc \in {"streak", "count"}
      /\ call[h].saving = {} /\ (call'[h].selected <=> call[h].selected)
  BY ResetEffect, BonusEffect
<1>2. ~call'[h].selected
  BY <1>1 DEF Timed, TimedOf
<1>3. rows'.user[t] = rows.user[t] /\ draft'.user[t] = draft.user[t] /\ lock' = lock
  BY <1>1 DEF SameRows
<1>4. RestartAt(h, t)' /\ (Owes(h, t) => Owes(h, t)')
  <2>1. CASE UpdateUserStreak(h)
    <3> DEFINE n == IF call[h].mem.user[call[h].kind] = Top THEN 0
                    ELSE call[h].mem.user[call[h].kind]
    <3>1. /\ call[h].pc = "streak" /\ call'[h].pc = "count" /\ call'[h].saving = {"user"}
          /\ StreakIs(h, n)
      BY <2>1, ResetEffect
    <3>2. n # Top
      BY <1>0
    <3>3. call'[h].mem.user[call[h].kind] # Top
      BY <3>1, <3>2 DEF StreakIs
    <3>4. Resets(call[h])'
      BY <1>1, <1>2, <3>1, <3>3 DEF Resets, SameCall
    <3>5. call'[h].mem.user[t] <= Top /\ call'[h].mem.user[t] # Top
      <4>1. CASE t = call[h].kind
        BY <1>0, <3>1, <3>2, <4>1 DEF StreakIs, RestartAt
      <4>2. CASE t # call[h].kind
        BY <1>0, <3>1, <4>2 DEF StreakIs, RestartAt
      <4> QED
        BY <4>1, <4>2
    <3>6. RestartAt(h, t)'
      BY <1>0, <1>1, <1>3, <3>4, <3>5 DEF RestartAt, SameCall
    <3>7. Owes(h, t) => Owes(h, t)'
      BY <1>1, <3>4 DEF Owes, SameCall
    <3> QED
      BY <3>6, <3>7
  <2>2. CASE GiveBonus(h) \/ SkipBonus(h)
    <3>1. call[h].pc = "count" /\ call'[h].mem.user[t] = call[h].mem.user[t]
      BY <2>2, BonusEffect
    <3>2. ~Resets(call[h])
      BY <1>1 DEF Resets
    <3>3. RestartAt(h, t)'
      BY <1>0, <1>3, <3>1, <3>2 DEF RestartAt
    <3>4. Owes(h, t) => Owes(h, t)'
      BY <1>1, <1>3, <3>1, <3>2 DEF Owes, SameCall
    <3> QED
      BY <3>3, <3>4
  <2> QED
    BY <2>1, <2>2
<1> QED
  BY <1>0, <1>1, <1>3, <1>4, RestartStep, SameStay

\* The SELECT of a reset sees that the full streak differs.
LEMMA SelectRestart ==
    ASSUME Typed, Timed, LockShape, NEW t \in EventTypes, RestartOf(t), NEW h \in Handlers,
           SelectRow(h)
    PROVE  RestartOf(t)'
<1>0. rows.user[t] <= Top /\ draft.user[t] <= Top /\ RestartAt(h, t)
  BY DEF RestartOf
<1>1. /\ Only(h) /\ SameRows /\ SameCall(h) /\ call'[h].mem = call[h].mem
      /\ call'[h].pc = call[h].pc /\ ~call[h].selected
      /\ "user" \in call[h].saving =>
            \/ Differs(h) = {}
            \/ /\ call'[h].saving = call[h].saving
               /\ call'[h].selected /\ call'[h].diff = Differs(h)
  BY SelectEffect
<1>2. rows'.user[t] = rows.user[t] /\ draft'.user[t] = draft.user[t] /\ lock' = lock
  BY <1>1 DEF SameRows
<1>3. Resets(call[h]) /\ call[h].kind = t /\ Visible(h, "user")[t] = Top => Resets(call[h])'
  <2> SUFFICES ASSUME Resets(call[h]), call[h].kind = t, Visible(h, "user")[t] = Top
               PROVE Resets(call[h])'
    OBVIOUS
  <2>1. call[h].mem.user[t] # Top
    BY DEF Resets
  <2>2. t \in Differs(h)
    <3>1. t \in DOMAIN call[h].mem.user
      BY CallTyped DEF UserColumns
    <3> QED
      BY <2>1, <3>1 DEF Differs, Differing
  <2>3. "user" \in call[h].saving /\ call[h].pc = "count"
    BY DEF Resets
  <2>4. /\ call'[h].saving = call[h].saving
        /\ call'[h].selected /\ call'[h].diff = Differs(h)
    BY <1>1, <2>2, <2>3
  <2> QED
    BY <1>1, <2>1, <2>2, <2>3, <2>4 DEF Resets, SameCall
<1>4. RestartAt(h, t)'
  BY <1>0, <1>1, <1>2, <1>3 DEF RestartAt, SameCall, Visible
<1>5. rows.user[t] = Top /\ Owes(h, t) => Owes(h, t)'
  BY <1>1, <1>2, <1>3 DEF Owes, SameCall, Visible
<1> QED
  BY <1>0, <1>1, <1>2, <1>4, <1>5, RestartStep, SameStay

\* The UPDATE writes the reset under lock, and no other writes a full streak.
LEMMA UpdateRestart ==
    ASSUME Typed, Timed, LockShape, NEW t \in EventTypes, RestartOf(t), NEW h \in Handlers,
           UpdateRow(h)
    PROVE  RestartOf(t)'
<1>0. rows.user[t] <= Top /\ draft.user[t] <= Top /\ RestartAt(h, t)
  BY DEF RestartOf
<1>1. call[h].saving # {}
  BY DEF UpdateRow, Timed, TimedOf
<1>2. /\ Only(h) /\ rows' = rows /\ call'[h].kind = call[h].kind /\ call'[h].pc = call[h].pc
      /\ call'[h].marked = call[h].marked /\ (call'[h].pending <=> call[h].pending)
      /\ call'[h].mem = call[h].mem /\ call[h].selected
  BY <1>1, UpdateEffect
<1>3. CASE "user" \in call[h].saving
  <2>1. /\ lock["user"] \in {Nobody, h} /\ lock'["user"] = h /\ draft'.user = Merged(h)
    BY <1>1, <1>3, UpdateEffect
  <2>2. draft'.user[t] = IF t \in call[h].diff THEN call[h].mem.user[t] ELSE draft.user[t]
    BY <2>1 DEF Merged, UserColumns
  <2>3. draft'.user[t] <= Top
    BY <1>0, <2>2 DEF RestartAt
  <2>4. LocksStay(h)
    BY <2>1, ConstantsAssumption DEF LocksStay
  <2>5. RestartAt(h, t)'
    <3>1. CASE t \in call[h].diff
      BY <1>0, <1>2, <2>2, <3>1 DEF RestartAt
    <3>2. CASE t \notin call[h].diff
      <4>1. draft.user[t] = Top => rows.user[t] = Top \/ (call[h].kind = t /\ call[h].pc \in {"notify", "streak"})
        <5>1. lock["user"] = Nobody => draft.user[t] = rows.user[t]
          BY DEF LockShape
        <5>2. call[h].kind = t => ~Resets(call[h])
          BY <1>2, <3>2 DEF Resets
        <5> QED
          BY <1>0, <2>1, <5>1, <5>2 DEF RestartAt
      <4> QED
        BY <1>0, <1>2, <2>2, <3>2, <4>1 DEF RestartAt
    <3> QED
      BY <3>1, <3>2
  <2>6. Owes(h, t) => Owes(h, t)'
    <3> SUFFICES ASSUME Owes(h, t) PROVE Owes(h, t)'
      OBVIOUS
    <3>1. CASE call[h].pc = "streak"
      BY <1>2, <3>1 DEF Owes
    <3>2. CASE call[h].pc # "streak"
      <4>1. call[h].pc # "notify"
        BY DEF Owes, Typed, ShapeOf
      <4>2. call[h].mem.user[t] # Top
        BY <1>0, <3>2, <4>1 DEF RestartAt
      <4>3. draft'.user[t] # Top
        <5>1. CASE t \in call[h].diff
          BY <2>2, <4>2, <5>1
        <5>2. CASE t \notin call[h].diff
          BY <1>2, <2>2, <3>2, <5>2 DEF Owes, Resets
        <5> QED
          BY <5>1, <5>2
      <4> QED
        BY <1>2, <2>1, <4>3 DEF Owes
    <3> QED
      BY <3>1, <3>2
  <2> QED
    BY <1>0, <1>2, <2>3, <2>4, <2>5, <2>6, RestartStep
<1>4. CASE "user" \notin call[h].saving
  <2>1. lock'["user"] = lock["user"] /\ draft'.user = draft.user
    BY <1>1, <1>4, UpdateEffect
  <2>2. ~Resets(call[h])
    BY <1>4 DEF Resets
  <2>3. LocksStay(h)
    BY <1>2, <2>1 DEF LocksStay
  <2>4. RestartAt(h, t)'
    BY <1>0, <1>2, <2>1, <2>2 DEF RestartAt
  <2>5. Owes(h, t) => Owes(h, t)'
    BY <1>2, <2>1, <2>2 DEF Owes
  <2> QED
    BY <1>0, <1>2, <2>1, <2>3, <2>4, <2>5, RestartStep
<1> QED
  BY <1>3, <1>4

\* Whoever commits owes nothing; whoever fails over a full streak is noted.
LEMMA EndRestart ==
    ASSUME Typed, Timed, LockShape, NEW t \in EventTypes, RestartOf(t), NEW h \in Handlers,
           CommitTransaction(h) \/ Fail(h), ~unreset'[t]
    PROVE  RestartOf(t)'
<1>0. rows.user[t] <= Top /\ draft.user[t] <= Top /\ RestartAt(h, t)
  BY DEF RestartOf
<1>1. CASE CommitTransaction(h)
  <2>1. /\ Ended(h) /\ Only(h) /\ rows' = CommitRows(h) /\ draft' = draft /\ lock' = Unlocked(h)
        /\ call[h].pc = "commit"
    BY <1>1, CommitEnds
  <2>2. rows'.user = IF lock["user"] = h THEN draft.user ELSE rows.user
    BY <2>1, CommitUser
  <2>3. LocksStay(h) /\ lock'["user"] # h
    BY <2>1, <2>2, EndsStay
  <2>4. rows'.user[t] = Top => rows.user[t] = Top /\ ~Owes(h, t)
    BY <1>0, <2>1, <2>2 DEF RestartAt, Owes, Resets
  <2>5. rows'.user[t] <= Top /\ draft'.user[t] <= Top
    BY <1>0, <2>1, <2>2
  <2>6. RestartAt(h, t)'
    BY <2>1, <2>3, EndedRestart
  <2> QED
    BY <2>1, <2>3, <2>4, <2>5, <2>6, RestartStep
<1>2. CASE Fail(h)
  <2>1. /\ Ended(h) /\ Only(h) /\ rows' = rows /\ lock' = Unlocked(h)
        /\ draft'.user = IF lock["user"] = h THEN rows.user ELSE draft.user
        /\ unreset'[t] = (unreset[t] \/ (call[h].kind = t /\ rows.user[t] = Top))
    BY <1>2, FailEnds
  <2>2. LocksStay(h) /\ lock'["user"] # h
    BY <2>1, EndsStay
  <2>3. rows'.user[t] = Top => rows.user[t] = Top /\ ~Owes(h, t)
    BY <2>1 DEF Owes
  <2>4. rows'.user[t] <= Top /\ draft'.user[t] <= Top
    BY <1>0, <2>1
  <2>5. RestartAt(h, t)'
    BY <2>1, <2>2, EndedRestart
  <2> QED
    BY <2>1, <2>2, <2>3, <2>4, <2>5, RestartStep
<1> QED
  BY <1>1, <1>2

\* A streak that was left behind or read stays so.
LEMMA UnresetStays ==
    ASSUME Typed, LevelInv, [Next]_vars, NEW t \in EventTypes, unreset[t]
    PROVE  unreset'[t]
<1>1. ASSUME NEW h \in Handlers, Loads(h) PROVE unreset'[t]
  BY <1>1, LoadEffect DEF FullStreakSeen
<1>2. ASSUME NEW h \in Handlers, Mark(h) \/ AskToLeave(h) PROVE unreset'[t]
  BY <1>2 DEF Mark, AskToLeave, RefuseMark, AdmitMark, SaveAttendance, ContinueStreak, RestartStreak,
              SaveRewardNotification, UpdateUserStreak, GiveBonus, SkipBonus
<1>3. ASSUME NEW h \in Handlers, SelectRow(h) \/ UpdateRow(h) \/ CommitTransaction(h)
      PROVE unreset'[t]
  BY <1>3 DEF SelectRow, UpdateRow, CommitTransaction
<1>4. ASSUME NEW h \in Handlers, Fail(h) PROVE unreset'[t]
  BY <1>4 DEF Fail
<1>5. CASE NextDay \/ UNCHANGED vars
  BY <1>5 DEF NextDay, vars
<1> QED
  BY <1>1, <1>2, <1>3, <1>4, <1>5 DEF Next, Loads

\* A full streak starts again: the invariant is inductive.
LEMMA NextRestart ==
    Typed /\ LevelInv /\ Timed /\ LockShape /\ RestartInv /\ [Next]_vars => RestartInv'
<1> SUFFICES ASSUME Typed, LevelInv, Timed, LockShape, RestartInv, [Next]_vars,
                    NEW t \in EventTypes, ~unreset'[t]
             PROVE RestartOf(t)'
  BY DEF RestartInv
<1>0. RestartOf(t)
  BY UnresetStays DEF RestartInv
<1>1. ASSUME NEW h \in Handlers, Loads(h) \/ AskToLeave(h) \/ Mark(h) PROVE RestartOf(t)'
  BY <1>0, <1>1, LoadRestart, MarkRestart, NotifyRestart, ResetRestart DEF Mark
<1>2. ASSUME NEW h \in Handlers, SelectRow(h) \/ UpdateRow(h) PROVE RestartOf(t)'
  BY <1>0, <1>2, SelectRestart, UpdateRestart
<1>3. ASSUME NEW h \in Handlers, CommitTransaction(h) \/ Fail(h) PROVE RestartOf(t)'
  BY <1>0, <1>3, EndRestart
<1>4. CASE NextDay \/ UNCHANGED vars
  BY <1>0, <1>4 DEF NextDay, vars, RestartOf, RestartAt, Owes, Resets
<1> QED
  BY <1>1, <1>2, <1>3, <1>4 DEF Next, Loads

\* A full streak seen is the row that a call has yet to reset.
LEMMA RestartRestarts == Typed /\ RestartInv => StreakRestarts
BY DEF RestartInv, RestartOf, StreakRestarts, Owes, Resetting
-----------------------------------------------------------------------------
(* Runs of days *)

DaysOf(t) == {d \in Days : marks[t][d] > 0}

\* The n days up to d are in S.
Filled(S, n, d) == \A i \in 1..n : d + 1 - i \in S

\* So are n days in a row, the last of S before day x among them.
RunIn(S, n, x) ==
    \E last \in 0..MaxDay :
        /\ last < x /\ Filled(S, n, last)
        /\ \A d \in S : ~(last < d /\ d < x)

\* Attendances as sets of days.
LEMMA DaysOfMarked ==
    /\ \A t, d : Marked(t, d) <=> d \in DaysOf(t)
    /\ \A t, n, d : MarkedFor(t, n, d) <=> Filled(DaysOf(t), n, d)
BY DEF Marked, DaysOf, MarkedFor, Filled

\* Days filled stay filled when more are marked.
LEMMA FilledMore ==
    ASSUME NEW S, NEW T, S \subseteq T, NEW n, NEW d, Filled(S, n, d)
    PROVE  Filled(T, n, d)
BY DEF Filled

\* One day more at the end of a run.
LEMMA FilledNext ==
    ASSUME NEW S, NEW n \in Nat, n > 0, NEW d \in Int, d \in S, Filled(S, n - 1, d - 1)
    PROVE  Filled(S, n, d)
<1> SUFFICES ASSUME NEW i \in 1..n PROVE d + 1 - i \in S
  BY DEF Filled
<1>1. CASE i = 1
  BY <1>1
<1>2. CASE i # 1
  <2>1. i - 1 \in 1..(n - 1)
    BY <1>2
  <2>2. (d - 1) + 1 - (i - 1) \in S
    BY <2>1 DEF Filled
  <2>3. (d - 1) + 1 - (i - 1) = d + 1 - i
    OBVIOUS
  <2> QED
    BY <2>2, <2>3
<1> QED
  BY <1>1, <1>2

\* The last days of a run are a run.
LEMMA FilledFewer ==
    ASSUME NEW S, NEW n \in Nat, NEW m \in Nat, m <= n, NEW d \in Int, Filled(S, n, d)
    PROVE  Filled(S, m, d)
BY DEF Filled

\* A day next to the run, or inside it, or after the run of a single day.
LEMMA RunGrows ==
    ASSUME MaxDay \in Nat, NEW S \in SUBSET Days, NEW n \in Nat, NEW x \in Int, RunIn(S, n, x),
           NEW y \in Days, n <= 1 \/ y - 1 \in S \/ y \in S
    PROVE  RunIn(S \cup {y}, n, x)
<1>1. PICK last \in 0..MaxDay : /\ last < x /\ Filled(S, n, last)
                                /\ \A d \in S : ~(last < d /\ d < x)
  BY DEF RunIn
<1>2. y \in Nat /\ y \in 0..MaxDay /\ last \in Nat
  BY DEF Days
<1>3. CASE y <= last \/ x <= y
  <2>1. Filled(S \cup {y}, n, last)
    BY <1>1, FilledMore
  <2>2. \A d \in S \cup {y} : ~(last < d /\ d < x)
    BY <1>1, <1>2, <1>3
  <2> QED
    BY <1>1, <2>1, <2>2 DEF RunIn
<1>4. CASE last < y /\ y < x
  <2>1. y \notin S
    BY <1>1, <1>4
  <2>2. Filled(S \cup {y}, n, y)
    <3>1. CASE n = 0
      BY <3>1 DEF Filled
    <3>2. CASE n = 1
      <4>1. \A i \in 1..1 : y + 1 - i = y
        BY <1>2
      <4> QED
        BY <3>2, <4>1 DEF Filled
    <3>3. CASE n > 1
      <4>1. y - 1 \in S
        BY <2>1, <3>3
      <4>2. ~(last < y - 1)
        BY <1>1, <1>2, <1>4, <4>1
      <4>3. y - 1 = last
        BY <1>2, <1>4, <4>2
      <4>4. Filled(S, n - 1, y - 1)
        BY <1>1, <1>2, <3>3, <4>3, FilledFewer
      <4>5. Filled(S \cup {y}, n - 1, y - 1)
        BY <4>4, FilledMore
      <4> QED
        BY <1>2, <3>3, <4>5, FilledNext
    <3> QED
      BY <3>1, <3>2, <3>3
  <2>3. \A d \in S \cup {y} : ~(y < d /\ d < x)
    <3> SUFFICES ASSUME NEW d \in S, y < d, d < x PROVE FALSE
      BY <1>2
    <3>1. d \in Nat
      BY DEF Days
    <3>2. last < d
      BY <1>2, <1>4, <3>1
    <3> QED
      BY <1>1, <3>2
  <2> QED
    BY <1>2, <1>4, <2>2, <2>3 DEF RunIn
<1> QED
  BY <1>2, <1>3, <1>4

\* A run that ends today or yesterday is the last one.
LEMMA RunAtEnd ==
    ASSUME MaxDay \in Nat, NEW S \in SUBSET Days, NEW n \in Nat, NEW today \in Days,
           \A d \in S : d <= today,
           NEW m \in S, m = today \/ m = today - 1, Filled(S, n, m)
    PROVE  RunIn(S, n, MaxDay + 1)
<1>1. today \in Nat /\ today \in 0..MaxDay /\ m \in Nat /\ m \in 0..MaxDay /\ m <= today
  BY DEF Days
<1>2. CASE today \in S
  <2>1. Filled(S, n, today)
    <3>1. CASE m = today
      BY <3>1
    <3>2. CASE m = today - 1 /\ n > 0
      <4>1. Filled(S, n - 1, today - 1)
        BY <1>1, <3>2, FilledFewer
      <4> QED
        BY <1>1, <1>2, <3>2, <4>1, FilledNext
    <3>3. CASE n = 0
      BY <3>3 DEF Filled
    <3> QED
      BY <3>1, <3>2, <3>3
  <2>2. \A d \in S : ~(today < d)
    BY <1>1 DEF Days
  <2> QED
    BY <1>1, <2>1, <2>2 DEF RunIn
<1>3. CASE today \notin S
  <2>1. \A d \in S : ~(m < d)
    <3> SUFFICES ASSUME NEW d \in S, m < d PROVE FALSE
      OBVIOUS
    <3>1. d \in Nat /\ d <= today /\ d # today
      BY <1>3 DEF Days
    <3> QED
      BY <1>1, <3>1
  <2> QED
    BY <1>1, <2>1 DEF RunIn
<1> QED
  BY <1>2, <1>3

\* The last run ends before a day that is not in it and after which there is none.
LEMMA RunBefore ==
    ASSUME MaxDay \in Nat, NEW S \in SUBSET Days, NEW n \in Nat, n >= 2, NEW today \in Days,
           \A d \in S : d <= today, RunIn(S, n, MaxDay + 1)
    PROVE  /\ today \notin S => RunIn(S, n, today)
           /\ today \in S => RunIn(S, n, today + 1)
<1>1. PICK last \in 0..MaxDay : /\ Filled(S, n, last)
                                /\ \A d \in S : ~(last < d /\ d < MaxDay + 1)
  BY DEF RunIn
<1>2. last \in S
  <2>1. 1 \in 1..n /\ last + 1 - 1 = last
    OBVIOUS
  <2> QED
    BY <1>1, <2>1 DEF Filled
<1>3. last <= today /\ last \in Nat /\ today \in Nat
  BY <1>2 DEF Days
<1>4. CASE today \notin S
  <2>1. last < today
    BY <1>2, <1>3, <1>4
  <2>2. \A d \in S : ~(last < d /\ d < today)
    BY <1>1 DEF Days
  <2> QED
    BY <1>1, <1>4, <2>1, <2>2 DEF RunIn
<1>5. CASE today \in S
  <2>1. \A d \in S : ~(last < d /\ d < today + 1)
    BY <1>1 DEF Days
  <2> QED
    BY <1>1, <1>3, <1>5, <2>1 DEF RunIn
<1> QED
  BY <1>4, <1>5

\* Before a day that follows one of S, the run ends the day before.
LEMMA RunYesterday ==
    ASSUME MaxDay \in Nat, NEW S \in SUBSET Days, NEW n \in Nat, NEW x \in Days,
           RunIn(S, n, x), x - 1 \in S
    PROVE  Filled(S, n, x - 1)
<1>1. PICK last \in 0..MaxDay : /\ last < x /\ Filled(S, n, last)
                                /\ \A d \in S : ~(last < d /\ d < x)
  BY DEF RunIn
<1>2. ~(last < x - 1)
  BY <1>1 DEF Days
<1>3. last = x - 1
  BY <1>1, <1>2 DEF Days
<1> QED
  BY <1>1, <1>3
-----------------------------------------------------------------------------
(* Orderly runs *)

\* The call has read the user that it would see.
Fresh(h) == h \notin behind /\ ~Away(call[h])

\* What a call knows of the user, what it has changed, and what it updates.
Copies(h) == Fresh(h) =>
    /\ \A t \in EventTypes :
          t # call[h].kind => call[h].mem.user[t] = Visible(h, "user")[t]
    /\ call[h].kind \in EventTypes /\ call[h].pc \in {"check", "mark", "yesterday"}
          => call[h].mem.user = Visible(h, "user")
    /\ call[h].selected /\ "user" \in call[h].saving
          => call[h].diff = Differing(call[h].mem.user, Visible(h, "user"))

\* The user under lock is that of the call that holds it: one streak has changed.
Holding(h) ==
    lock["user"] = h =>
        /\ h \notin behind
        /\ "user" \notin call[h].saving => draft.user = call[h].mem.user
        /\ \A t \in EventTypes : t # call[h].kind => draft.user[t] = rows.user[t]

\* Until it has the lock, the streak is one day longer than the row, or new; no
\* reward is given before.
Counting(h) ==
    /\ Fresh(h) /\ lock["user"] # h /\ call[h].pending =>
          /\ call[h].pc = "notify"
                => call[h].mem.user[call[h].kind] = rows.user[call[h].kind] + 1
          /\ call[h].pc = "streak" \/ (call[h].pc = "count" /\ "user" \in call[h].saving)
                => \/ call[h].mem.user[call[h].kind] = rows.user[call[h].kind] + 1
                   \/ call[h].mem.user[call[h].kind] <= 1
    /\ call[h].pc = "notify" /\ "user" \notin call[h].saving => lock["user"] = h

\* A call that had nothing to save inserts a day next to the run, or in it.
Adding(h) ==
    /\ call[h].pending /\ lock["user"] # h
    /\ call[h].pc = "commit" \/ (call[h].pc = "count" /\ "user" \notin call[h].saving)
    => \/ rows.user[call[h].kind] <= 1
       \/ call[h].marked - 1 \in DaysOf(call[h].kind)
       \/ call[h].marked \in DaysOf(call[h].kind)

\* Before it asks for yesterday, the run of the row ends before its day.
Before(h) ==
    Fresh(h) /\ call[h].pc \in {"mark", "yesterday"} /\ rows.user[call[h].kind] >= 2
    => RunIn(DaysOf(call[h].kind), rows.user[call[h].kind],
             IF call[h].pc = "mark" THEN day ELSE call[h].marked)

\* Afterwards the days before its own make up its streak.
Deserving(h) ==
    /\ Fresh(h) /\ call[h].pc \in Working /\ call[h].kind \in EventTypes
    /\ call[h].mem.user[call[h].kind] >= 2
    => Filled(DaysOf(call[h].kind), call[h].mem.user[call[h].kind] - 1, call[h].marked - 1)

RunOf(h) == Copies(h) /\ Holding(h) /\ Counting(h) /\ Adding(h) /\ Before(h) /\ Deserving(h)

RowRuns == \A t \in EventTypes : RunIn(DaysOf(t), rows.user[t], MaxDay + 1)

RewardRuns == \A r \in rewards : Filled(DaysOf(r.type), r.days, r.on)

\* The inductive form of RewardsDeserved and StreakJustified.
RunInv == Orderly => RowRuns /\ RewardRuns /\ \A h \in Handlers : RunOf(h)

\* The days a step does not touch.
LEMMA DaysSame == SameMarks => \A t : DaysOf(t)' = DaysOf(t)
BY DEF SameMarks, DaysOf

\* Days marked are days, none of them to come.
LEMMA DaysTyped ==
    ASSUME Typed, MarksInv
    PROVE  \A t \in EventTypes : DaysOf(t) \in SUBSET Days /\ \A d \in DaysOf(t) : d <= day
<1>1. SUFFICES ASSUME NEW t \in EventTypes, NEW d \in DaysOf(t) PROVE d <= day
  BY DEF DaysOf
<1>2. d \in Days /\ marks[t][d] > 0
  BY DEF DaysOf
<1>3. d \in Nat /\ day \in Nat
  BY <1>2, RowsTyped DEF Days
<1> QED
  BY <1>2, <1>3 DEF MarksInv

\* A commit adds at most the day that its call inserted.
LEMMA DaysCommitted ==
    ASSUME Typed, NEW h \in Handlers, marks' = CommitMarks(h)
    PROVE  \A t \in EventTypes :
              DaysOf(t)' = IF call[h].pending /\ call[h].kind = t
                           THEN DaysOf(t) \cup {call[h].marked} ELSE DaysOf(t)
<1> SUFFICES ASSUME NEW t \in EventTypes
             PROVE DaysOf(t)' = IF call[h].pending /\ call[h].kind = t
                                THEN DaysOf(t) \cup {call[h].marked} ELSE DaysOf(t)
  OBVIOUS
<1>1. \A d : Marked(t, d)' <=> \/ Marked(t, d)
                               \/ call[h].pending /\ call[h].kind = t /\ call[h].marked = d
  BY CommitMarked
<1>2. \A d : d \in DaysOf(t)' <=> Marked(t, d)'
  BY DEF DaysOf, Marked
<1>3. \A d : d \in DaysOf(t) <=> Marked(t, d)
  BY DEF DaysOf, Marked
<1> QED
  BY <1>1, <1>2, <1>3

\* A call that leaves the others' user, days and reading as they are.
OthersStay(h) ==
    /\ LocksStay(h) /\ rows'.user = rows.user /\ SameMarks
    /\ \A g \in Handlers : g # h => (g \in behind' <=> g \in behind)

\* What the invariant says of the other calls survives a step of one.
LEMMA OthersRun ==
    ASSUME Typed, NEW h \in Handlers, Only(h), OthersStay(h), NEW g \in Handlers, g # h, RunOf(g)
    PROVE  RunOf(g)'
<1>1. /\ call'[g] = call[g] /\ (g \in behind' <=> g \in behind) /\ rows'.user = rows.user
      /\ (lock'["user"] = g <=> lock["user"] = g)
      /\ lock["user"] = g => draft'.user = draft.user
      /\ day' = day /\ \A t : DaysOf(t)' = DaysOf(t)
  BY DaysSame DEF Only, OthersStay, LocksStay, SameMarks
<1>2. Visible(g, "user")' = Visible(g, "user")
  BY <1>1 DEF Visible
<1>3. Fresh(g)' <=> Fresh(g)
  BY <1>1 DEF Fresh, Away
<1>4. Copies(g)'
  BY <1>1, <1>2, <1>3 DEF RunOf, Copies
<1>5. Holding(g)'
  BY <1>1 DEF RunOf, Holding
<1>6. Counting(g)'
  BY <1>1, <1>3 DEF RunOf, Counting
<1>7. Adding(g)'
  BY <1>1 DEF RunOf, Adding
<1>8. Before(g)'
  BY <1>1, <1>3 DEF RunOf, Before
<1>9. Deserving(g)'
  BY <1>1, <1>3 DEF RunOf, Deserving
<1> QED
  BY <1>4, <1>5, <1>6, <1>7, <1>8, <1>9 DEF RunOf

\* A step of one call keeps the invariant if its own part is kept.
LEMMA RunStep ==
    ASSUME Typed, RunInv, NEW h \in Handlers, Only(h), OthersStay(h), Orderly' => Orderly,
           Orderly' /\ RowRuns /\ RunOf(h) => RunOf(h)'
    PROVE  RunInv'
<1> SUFFICES ASSUME Orderly' PROVE RowRuns' /\ RewardRuns' /\ \A g \in Handlers : RunOf(g)'
  BY DEF RunInv
<1>1. RowRuns /\ RewardRuns /\ \A g \in Handlers : RunOf(g)
  BY DEF RunInv
<1>2. \A g \in Handlers : RunOf(g)'
  BY <1>1, OthersRun
<1>3. rows'.user = rows.user /\ rewards' = rewards /\ \A t : DaysOf(t)' = DaysOf(t)
  BY DaysSame DEF OthersStay, SameMarks
<1> QED
  BY <1>1, <1>2, <1>3 DEF RowRuns, RewardRuns

\* Calls that only read, count or select leave the others alone.
LEMMA SameOthers ==
    ASSUME NEW h \in Handlers, SameRows, SameMarks,
           behind' = behind \ {h} \/ behind' = behind
    PROVE  OthersStay(h)
BY SameStay DEF SameRows, OthersStay

\* Nothing is asked of a call that ended.
LEMMA EndedRun ==
    ASSUME NEW h \in Handlers, Ended(h), lock'["user"] # h
    PROVE  RunOf(h)'
BY TypeNames DEF Ended, RunOf, Copies, Holding, Counting, Adding, Before, Deserving, Fresh, Away,
                 Working

\* The runs, initially.
LEMMA InitRun == Init => RunInv
<1> SUFFICES ASSUME Init PROVE RowRuns /\ RewardRuns /\ \A h \in Handlers : RunOf(h)
  BY DEF RunInv
<1>1. \A t \in EventTypes : DaysOf(t) = {}
  BY DEF Init, DaysOf
<1>2. \A t \in EventTypes : rows.user[t] = 0
  BY TypeNames DEF Init, NewRows, UserColumns
<1>3. RowRuns
  <2>1. MaxDay \in Nat
    BY ConstantsAssumption
  <2>2. 0 \in 0..MaxDay /\ 0 < MaxDay + 1
    BY <2>1
  <2>3. Filled({}, 0, 0)
    BY DEF Filled
  <2> QED
    BY <1>1, <1>2, <2>2, <2>3 DEF RowRuns, RunIn
<1>4. \A h \in Handlers : call[h] = IdleCall /\ lock["user"] # h
  BY ConstantsAssumption DEF Init, Tables
<1>5. \A h \in Handlers : RunOf(h)
  BY <1>4, IdleIs, TypeNames
     DEF RunOf, Copies, Holding, Counting, Adding, Before, Deserving, Fresh, Away, Working
<1> QED
  BY <1>3, <1>5 DEF Init, RewardRuns

\* A call starts with a fresh copy.
LEMMA LoadRun ==
    ASSUME Typed, LevelInv, Timed, LockShape, RunInv, NEW h \in Handlers,
           Loads(h) \/ RefuseMark(h) \/ AskToLeave(h)
    PROVE  RunInv'
<1>1. CASE Loads(h)
  <2>1. /\ Away(call[h]) /\ Only(h) /\ SameRows /\ SameMarks
        /\ crossed' = crossed /\ skewed' = skewed /\ behind' = behind \ {h}
        /\ ~call'[h].pending /\ ~call'[h].selected
        /\ \A t \in EventTypes : call'[h].mem.user[t] = rows.user[t]
        /\ \/ /\ call'[h].kind \in EventTypes /\ call'[h].pc = "check"
              /\ call'[h].saving = {} /\ call'[h].mem.user = rows.user
           \/ /\ call'[h].kind = "other" /\ call'[h].pc = "commit"
              /\ call'[h].saving = {"user"}
    BY <1>1, LoadEffect
  <2>2. lock'["user"] # h /\ rows' = rows
    BY <2>1 DEF LockShape, Away, SameRows
  <2>3. Copies(h)'
    BY <2>1, <2>2, TypeNames DEF Copies, Visible
  <2>4. Holding(h)' /\ Counting(h)' /\ Adding(h)'
    BY <2>1, <2>2 DEF Holding, Counting, Adding
  <2>5. Before(h)' /\ Deserving(h)'
    BY <2>1, TypeNames DEF Before, Deserving, Working
  <2>6. RunOf(h)' /\ (Orderly' => Orderly)
    BY <2>1, <2>3, <2>4, <2>5 DEF RunOf, Orderly
  <2> QED
    BY <2>1, <2>6, SameOthers, RunStep
<1>2. CASE RefuseMark(h) \/ AskToLeave(h)
  <2>1. /\ Ended(h) /\ Only(h) /\ SameRows /\ SameMarks /\ call[h].pc \in {"idle", "check"}
        /\ UNCHANGED <<behind, crossed, skewed>>
    BY <1>2, RefuseEffect, AskEffect
  <2>2. lock'["user"] # h
    BY <2>1 DEF LockShape, SameRows
  <2>3. RunOf(h)' /\ (Orderly' => Orderly)
    BY <2>1, <2>2, EndedRun DEF Orderly
  <2> QED
    BY <2>1, <2>3, SameOthers, RunStep
<1> QED
  BY <1>1, <1>2

\* An admitted call's day is not in the run, which ends before it.
LEMMA InsertRun ==
    ASSUME Typed, MarksInv, Timed, LockShape, RunInv, NEW h \in Handlers,
           AdmitMark(h) \/ SaveAttendance(h)
    PROVE  RunInv'
<1>1. /\ Only(h) /\ SameRows /\ SameMarks /\ UNCHANGED <<behind, crossed, skewed>>
      /\ call[h].pc \in {"check", "mark"} /\ call'[h].pc \in {"mark", "yesterday"}
      /\ call'[h].saving = {} /\ call'[h].mem = call[h].mem
      /\ call'[h].kind = call[h].kind
  BY AdmitEffect, InsertEffect DEF SameCall
<1>2. lock["user"] # h /\ rows' = rows /\ lock' = lock /\ draft' = draft
      /\ day' = day /\ \A t : DaysOf(t)' = DaysOf(t)
  BY <1>1, DaysSame DEF LockShape, SameRows, SameMarks
<1>3. call[h].kind \in EventTypes
  BY <1>1 DEF Typed, ShapeOf
<1>4. Fresh(h)' <=> Fresh(h)
  BY <1>1 DEF Fresh, Away
<1>5. ASSUME RowRuns, RunOf(h) PROVE RunOf(h)'
  <2>1. Copies(h)'
    BY <1>1, <1>2, <1>4, <1>5 DEF RunOf, Copies, Visible
  <2>2. Holding(h)' /\ Counting(h)' /\ Adding(h)' /\ Deserving(h)'
    BY <1>1, <1>2 DEF Holding, Counting, Adding, Deserving, Working
  <2>3. Before(h)'
    <3> DEFINE t == call[h].kind
               S == DaysOf(t)
               n == rows.user[t]
    <3>1. CASE AdmitMark(h)
      <4>1. ~Marked(t, day) /\ call'[h].pc = "mark"
        BY <3>1, AdmitEffect
      <4>2. day \notin S
        BY <4>1, DaysOfMarked
      <4>3. n >= 2 => RunIn(S, n, day)
        <5>1. S \in SUBSET Days /\ \A d \in S : d <= day
          BY <1>3, DaysTyped
        <5>2. n \in Nat /\ day \in Days /\ MaxDay \in Nat
          BY <1>3, RowsTyped
        <5>3. RunIn(S, n, MaxDay + 1)
          BY <1>3, <1>5 DEF RowRuns
        <5> HIDE DEF S, n, t
        <5> QED
          BY <4>2, <5>1, <5>2, <5>3, RunBefore
      <4> QED
        BY <1>1, <1>2, <4>1, <4>3 DEF Before
    <3>2. CASE SaveAttendance(h)
      <4>1. call[h].pc = "mark" /\ call'[h].pc = "yesterday" /\ call'[h].marked = day
        BY <3>2, InsertEffect
      <4> QED
        BY <1>1, <1>2, <1>4, <1>5, <4>1 DEF RunOf, Before
    <3> QED
      BY <3>1, <3>2
  <2> QED
    BY <2>1, <2>2, <2>3 DEF RunOf
<1>6. Orderly' => Orderly
  BY <1>1 DEF Orderly
<1> QED
  BY <1>1, <1>5, <1>6, SameOthers, RunStep

\* A streak grows only over the run that ends yesterday.
LEMMA CountRun ==
    ASSUME Typed, MarksInv, Timed, LockShape, RunInv, NEW h \in Handlers,
           ContinueStreak(h) \/ RestartStreak(h)
    PROVE  RunInv'
<1> DEFINE t == call[h].kind
           k == call[h].mem.user[t]
<1>1. /\ Only(h) /\ SameRows /\ SameMarks /\ SameCall(h) /\ UNCHANGED <<behind, crossed>>
      /\ call[h].pc = "yesterday" /\ call'[h].pc \in {"notify", "streak"}
      /\ call[h].saving = {} /\ (call'[h].selected <=> call[h].selected)
      /\ call[h].kind \in EventTypes
      /\ Orderly' => Orderly
  BY ContinueEffect, RestartEffect DEF Orderly
<1>2. lock["user"] # h /\ rows' = rows /\ lock' = lock /\ draft' = draft
      /\ \A s : DaysOf(s)' = DaysOf(s)
  BY <1>1, DaysSame DEF LockShape, SameRows
<1>3. call'[h].kind = t /\ call'[h].marked = call[h].marked /\ ~call'[h].selected
  BY <1>1 DEF SameCall, Timed, TimedOf
<1>4. Fresh(h)' <=> Fresh(h)
  BY <1>1 DEF Fresh, Away
<1>5. ASSUME Orderly', RunOf(h) PROVE RunOf(h)'
  <2>1. Fresh(h) => call[h].mem.user = rows.user
    BY <1>1, <1>2, <1>5 DEF RunOf, Copies, Visible
  <2>2. \A s \in EventTypes : s # t => call'[h].mem.user[s] = call[h].mem.user[s]
    BY ContinueEffect, RestartEffect DEF StreakIs
  <2>3. Copies(h)'
    BY <1>1, <1>2, <1>3, <1>4, <1>5, <2>1, <2>2 DEF RunOf, Copies, Visible
  <2>4. Holding(h)' /\ Adding(h)' /\ Before(h)'
    BY <1>1, <1>2 DEF Holding, Adding, Before
  <2>5. CASE ContinueStreak(h)
    <3>1. /\ skewed' = (skewed \/ call[h].marked # day) /\ Marked(t, day - 1)
          /\ call'[h].mem.user[t] = k + 1
          /\ call'[h].pc = "notify" => call'[h].saving = Tables
      BY <2>5, ContinueEffect DEF StreakIs
    <3>2. call[h].marked = day
      BY <1>5, <3>1 DEF Orderly
    <3>3. Counting(h)'
      BY <1>1, <1>2, <1>3, <1>4, <2>1, <3>1 DEF Counting, Tables
    <3>4. day - 1 \in DaysOf(t)
      BY <3>1, DaysOfMarked
    <3>5. Fresh(h) /\ k + 1 >= 2 => Filled(DaysOf(t), k, day - 1)
      <4> SUFFICES ASSUME Fresh(h), k + 1 >= 2 PROVE Filled(DaysOf(t), k, day - 1)
        OBVIOUS
      <4>1. k = rows.user[t] /\ k \in Nat /\ day \in Days /\ day \in Nat /\ MaxDay \in Nat
        BY <1>1, <2>1, RowsTyped
      <4>2. CASE k >= 2
        <5>1. RunIn(DaysOf(t), k, day)
          BY <1>1, <1>5, <3>2, <4>1, <4>2 DEF RunOf, Before
        <5>2. DaysOf(t) \in SUBSET Days
          BY <1>1, DaysTyped
        <5> HIDE DEF t, k
        <5> QED
          BY <3>4, <4>1, <5>1, <5>2, RunYesterday
      <4>3. CASE k = 1
        <5>1. \A i \in 1..1 : (day - 1) + 1 - i = day - 1
          BY <4>1
        <5> QED
          BY <3>4, <4>3, <5>1 DEF Filled
      <4>4. k >= 2 \/ k = 1
        BY <4>1
      <4> QED
        BY <4>2, <4>3, <4>4
    <3>6. Deserving(h)'
      <4>1. k \in Nat
        BY <1>1, CallTyped
      <4>2. (k + 1) - 1 = k
        BY <4>1
      <4> HIDE DEF k
      <4> QED
        BY <1>2, <1>3, <1>4, <3>1, <3>2, <3>5, <4>2 DEF Deserving
    <3> QED
      BY <2>3, <2>4, <3>3, <3>6 DEF RunOf
  <2>6. CASE RestartStreak(h)
    <3>1. call'[h].mem.user[t] = 1 /\ call'[h].pc = "streak"
      BY <2>6, RestartEffect DEF StreakIs
    <3>2. Counting(h)' /\ Deserving(h)'
      BY <1>3, <3>1 DEF Counting, Deserving
    <3> QED
      BY <2>3, <2>4, <3>2 DEF RunOf
  <2> QED
    BY <2>5, <2>6
<1> QED
  BY <1>1, <1>5, SameOthers, RunStep

\* The reset and the bonus keep the runs.
LEMMA ResetRun ==
    ASSUME Typed, Timed, LockShape, RunInv, NEW h \in Handlers,
           UpdateUserStreak(h) \/ GiveBonus(h) \/ SkipBonus(h)
    PROVE  RunInv'
<1> DEFINE t == call[h].kind
<1>1. /\ Only(h) /\ SameRows /\ SameMarks /\ SameCall(h)
      /\ UNCHANGED <<behind, crossed, skewed>>
      /\ call[h].pc \in {"streak", "count"} /\ call'[h].pc \in {"count", "commit"}
      /\ call[h].saving = {} /\ (call'[h].selected <=> call[h].selected)
      /\ call[h].kind \in EventTypes
  BY ResetEffect, BonusEffect
<1>2. rows' = rows /\ lock' = lock /\ draft' = draft /\ \A s : DaysOf(s)' = DaysOf(s)
  BY <1>1, DaysSame DEF SameRows
<1>3. /\ call'[h].kind = t /\ call'[h].marked = call[h].marked
      /\ (call'[h].pending <=> call[h].pending) /\ ~call'[h].selected
  BY <1>1 DEF SameCall, Timed, TimedOf
<1>4. (Fresh(h)' <=> Fresh(h)) /\ (h \in behind' <=> h \in behind)
  BY <1>1 DEF Fresh, Away
<1>5. ASSUME RunOf(h) PROVE RunOf(h)'
  <2>0. \A s \in EventTypes : s # t => call'[h].mem.user[s] = call[h].mem.user[s]
    BY ResetEffect, BonusEffect DEF StreakIs
  <2>1. Copies(h)'
    BY <1>1, <1>2, <1>3, <1>4, <1>5, <2>0 DEF RunOf, Copies, Visible
  <2>2. Before(h)'
    BY <1>1 DEF Before
  <2>3. CASE UpdateUserStreak(h)
    <3> DEFINE m == call[h].mem.user[t]
    <3>1. /\ call[h].pc = "streak" /\ call'[h].pc = "count" /\ call'[h].saving = {"user"}
          /\ call'[h].mem.user[t] = IF m = Top THEN 0 ELSE m
      BY <2>3, ResetEffect DEF StreakIs
    <3> HIDE DEF m
    <3>2. call'[h].mem.user[t] = 0 \/ call'[h].mem.user[t] = m
      BY <3>1
    <3>3. Holding(h)'
      BY <1>2, <1>3, <1>4, <1>5, <3>1 DEF RunOf, Holding
    <3>4. Counting(h)'
      BY <1>2, <1>3, <1>4, <1>5, <3>1, <3>2 DEF RunOf, Counting, m
    <3>5. Adding(h)'
      BY <3>1 DEF Adding
    <3>6. Deserving(h)'
      <4>1. CASE call'[h].mem.user[t] = 0
        BY <1>3, <4>1 DEF Deserving
      <4>2. CASE call'[h].mem.user[t] = m
        BY <1>1, <1>2, <1>3, <1>4, <1>5, <3>1, <4>2 DEF RunOf, Deserving, m, Working
      <4> QED
        BY <3>2, <4>1, <4>2
    <3> QED
      BY <2>1, <2>2, <3>3, <3>4, <3>5, <3>6 DEF RunOf
  <2>4. CASE GiveBonus(h) \/ SkipBonus(h)
    <3>1. /\ call[h].pc = "count" /\ call'[h].pc = "commit"
          /\ \/ call'[h].saving = Tables
             \/ call'[h].saving = {} /\ call'[h].mem = call[h].mem
          /\ \A s \in EventTypes : call'[h].mem.user[s] = call[h].mem.user[s]
      BY <2>4, BonusEffect
    <3>2. Holding(h)'
      BY <1>1, <1>2, <1>3, <1>4, <1>5, <3>1 DEF RunOf, Holding, Tables
    <3>3. Counting(h)'
      BY <3>1 DEF Counting
    <3>4. Adding(h)'
      BY <1>1, <1>2, <1>3, <1>5, <3>1 DEF RunOf, Adding
    <3>5. Deserving(h)'
      BY <1>1, <1>2, <1>3, <1>4, <1>5, <3>1 DEF RunOf, Deserving, Working
    <3> QED
      BY <2>1, <2>2, <3>2, <3>3, <3>4, <3>5 DEF RunOf
  <2> QED
    BY <2>3, <2>4
<1>6. Orderly' => Orderly
  BY <1>1 DEF Orderly
<1> QED
  BY <1>1, <1>5, <1>6, SameOthers, RunStep

\* Nothing differs: the copy is the user that the call sees.
LEMMA NothingDiffers ==
    ASSUME Typed, NEW h \in Handlers, Differs(h) = {}
    PROVE  call[h].mem.user = Visible(h, "user")
<1>1. call[h].mem.user \in [UserColumns -> Nat] /\ Visible(h, "user") \in [UserColumns -> Nat]
  BY CallTyped, RowsTyped DEF Visible
<1>2. \A x \in UserColumns : call[h].mem.user[x] = Visible(h, "user")[x]
  BY <1>1 DEF Differs, Differing
<1> QED
  BY <1>1, <1>2

\* The UPDATE leaves the copy of a call that sees the user it has read.
LEMMA MergedIs ==
    ASSUME Typed, LockShape, NEW h \in Handlers, lock["user"] \in {Nobody, h},
           call[h].diff = Differing(call[h].mem.user, Visible(h, "user"))
    PROVE  /\ Merged(h) = call[h].mem.user
           /\ draft.user = Visible(h, "user")
<1>1. call[h].mem.user \in [UserColumns -> Nat] /\ draft.user \in [UserColumns -> Nat]
  BY CallTyped, RowsTyped
<1>2. draft.user = Visible(h, "user")
  BY DEF LockShape, Visible
<1>3. \A x \in UserColumns : Merged(h)[x] = call[h].mem.user[x]
  BY <1>1, <1>2 DEF Merged, Differing
<1>4. Merged(h) = [x \in UserColumns |-> Merged(h)[x]]
  BY DEF Merged
<1> QED
  BY <1>1, <1>2, <1>3, <1>4

\* A call whose copy equals the row has counted nothing, or a new streak.
LEMMA SelectRun ==
    ASSUME Typed, Timed, LockShape, RunInv, NEW h \in Handlers, SelectRow(h)
    PROVE  RunInv'
<1> DEFINE t == call[h].kind
<1>1. /\ Only(h) /\ SameRows /\ SameMarks /\ SameCall(h) /\ UNCHANGED <<behind, skewed>>
      /\ crossed' = (crossed \/ Crossing(h))
      /\ call'[h].mem = call[h].mem /\ call'[h].pc = call[h].pc
      /\ call[h].saving # {} /\ ~call[h].selected
      /\ call'[h].saving \subseteq call[h].saving
  BY SelectEffect
<1>2. rows' = rows /\ lock' = lock /\ draft' = draft /\ day' = day
      /\ \A s : DaysOf(s)' = DaysOf(s)
  BY <1>1, DaysSame DEF SameRows, SameMarks
<1>3. /\ call'[h].kind = t /\ call'[h].marked = call[h].marked
      /\ (call'[h].pending <=> call[h].pending)
  BY <1>1 DEF SameCall
<1>4. (Fresh(h)' <=> Fresh(h)) /\ (h \in behind' <=> h \in behind)
  BY <1>1 DEF Fresh, Away
<1>5. call[h].pc \in Working
  BY <1>1, SavesWork
<1>6. ASSUME Orderly', RunOf(h) PROVE RunOf(h)'
  <2>1. Before(h)' /\ Deserving(h)'
    BY <1>1, <1>2, <1>3, <1>4, <1>5, <1>6 DEF RunOf, Before, Deserving, Working
  <2>2. CASE "user" \in call[h].saving
    <3>1. h \notin behind /\ Fresh(h)
      BY <1>1, <1>5, <1>6, <2>2 DEF Orderly, Crossing, Table, Fresh, Away, Working
    <3>3. CASE Differs(h) = {}
      <4>1. call'[h].saving = call[h].saving \ {"user"} /\ ~call'[h].selected
        BY <2>2, <3>3, SelectEffect
      <4>2. call[h].mem.user = Visible(h, "user")
        BY <3>3, NothingDiffers
      <4>3. Copies(h)'
        BY <1>1, <1>2, <1>3, <1>4, <1>6, <4>1 DEF RunOf, Copies, Visible
      <4>4. Holding(h)'
        BY <1>1, <1>2, <1>3, <1>4, <1>6, <4>2 DEF RunOf, Holding, Visible
      <4>5. t \in EventTypes /\ lock["user"] # h => call[h].mem.user[t] # rows.user[t] + 1
        BY <4>2, RowsTyped DEF Visible
      <4>6. call[h].pc = "notify" => lock["user"] = h
        BY <1>6, <3>1, <4>5 DEF RunOf, Counting, Typed, ShapeOf
      <4>7. Counting(h)'
        BY <1>1, <1>2, <1>3, <1>4, <1>6, <4>1, <4>6 DEF RunOf, Counting
      <4>8. Adding(h)'
        <5> SUFFICES ASSUME call[h].pending, lock["user"] # h, call[h].pc = "count"
                     PROVE Adding(h)'
          BY <1>1, <1>2, <1>3, <1>6 DEF RunOf, Adding
        <5>1. t \in EventTypes
          BY DEF Typed, ShapeOf
        <5>2. call[h].mem.user[t] <= 1
          BY <1>6, <2>2, <3>1, <4>5, <5>1 DEF RunOf, Counting
        <5>3. rows.user[t] <= 1
          BY <4>2, <5>2 DEF Visible
        <5> QED
          BY <1>2, <1>3, <5>3 DEF Adding
      <4> QED
        BY <2>1, <4>3, <4>4, <4>7, <4>8 DEF RunOf
    <3>4. CASE Differs(h) # {}
      <4>1. call'[h].saving = call[h].saving /\ call'[h].diff = Differs(h)
        BY <2>2, <3>4, SelectEffect
      <4>2. call'[h].diff = Differing(call[h].mem.user, Visible(h, "user"))
        BY <4>1 DEF Differs
      <4>3. Copies(h)'
        BY <1>1, <1>2, <1>3, <1>4, <1>6, <4>2 DEF RunOf, Copies, Visible
      <4>4. Holding(h)' /\ Counting(h)' /\ Adding(h)'
        BY <1>1, <1>2, <1>3, <1>4, <1>6, <4>1 DEF RunOf, Holding, Counting, Adding
      <4> QED
        BY <2>1, <4>3, <4>4 DEF RunOf
    <3> QED
      BY <3>3, <3>4
  <2>3. CASE "user" \notin call[h].saving
    <3>1. "user" \notin call'[h].saving
      BY <1>1, <2>3
    <3>2. Copies(h)'
      BY <1>1, <1>2, <1>3, <1>4, <1>6, <3>1 DEF RunOf, Copies, Visible
    <3>3. Holding(h)' /\ Counting(h)' /\ Adding(h)'
      BY <1>1, <1>2, <1>3, <1>4, <1>6, <2>3, <3>1 DEF RunOf, Holding, Counting, Adding
    <3> QED
      BY <2>1, <3>2, <3>3 DEF RunOf
  <2> QED
    BY <2>2, <2>3
<1>7. Orderly' => Orderly
  BY <1>1 DEF Orderly
<1> QED
  BY <1>1, <1>6, <1>7, SameOthers, RunStep

\* The UPDATE of a fresh copy leaves that copy under lock.
LEMMA UpdateRun ==
    ASSUME Typed, Timed, LockShape, RunInv, NEW h \in Handlers, UpdateRow(h)
    PROVE  RunInv'
<1> DEFINE t == call[h].kind
<1>0. call[h].saving # {}
  BY DEF UpdateRow, Timed, TimedOf
<1>1. /\ Only(h) /\ rows' = rows /\ SameMarks /\ UNCHANGED <<behind, skewed>>
      /\ crossed' = (crossed \/ Crossing(h))
      /\ call'[h].kind = t /\ call'[h].mem = call[h].mem /\ call'[h].pc = call[h].pc
      /\ call'[h].marked = call[h].marked /\ (call'[h].pending <=> call[h].pending)
      /\ call[h].selected /\ ~call'[h].selected
      /\ call'[h].saving \subseteq call[h].saving
  BY <1>0, UpdateEffect
<1>2. day' = day /\ \A s : DaysOf(s)' = DaysOf(s)
  BY <1>1, DaysSame DEF SameMarks
<1>3. (Fresh(h)' <=> Fresh(h)) /\ (h \in behind' <=> h \in behind)
  BY <1>1 DEF Fresh, Away
<1>4. call[h].pc \in Working
  BY <1>0, SavesWork
<1>5. Orderly' => Orderly
  BY <1>1 DEF Orderly
<1>6. ASSUME RunOf(h) PROVE Before(h)' /\ Deserving(h)'
  BY <1>1, <1>2, <1>3, <1>4, <1>6 DEF RunOf, Before, Deserving, Working
<1>7. CASE "user" \in call[h].saving
  <2>1. /\ lock["user"] \in {Nobody, h} /\ lock'["user"] = h
        /\ draft'.user = Merged(h)
        /\ call'[h].saving = call[h].saving \ {"user"}
    BY <1>0, <1>7, UpdateEffect
  <2>2. OthersStay(h)
    BY <1>1, <2>1, ConstantsAssumption DEF OthersStay, LocksStay
  <2>3. ASSUME Orderly', RunOf(h) PROVE RunOf(h)'
    <3>1. h \notin behind /\ Fresh(h)
      BY <1>1, <1>4, <1>7, <2>3 DEF Orderly, Crossing, Table, Fresh, Away, Working
    <3>2. call[h].diff = Differing(call[h].mem.user, Visible(h, "user"))
      BY <1>1, <1>7, <2>3, <3>1 DEF RunOf, Copies
    <3>3. Merged(h) = call[h].mem.user /\ draft.user = Visible(h, "user")
      BY <2>1, <3>2, MergedIs
    <3>4. Copies(h)'
      BY <1>1, <2>1, <3>3 DEF Copies, Visible
    <3>5. \A s \in EventTypes : s # t => draft.user[s] = rows.user[s]
      <4>1. CASE lock["user"] = h
        BY <2>3, <4>1 DEF RunOf, Holding
      <4>2. CASE lock["user"] = Nobody
        BY <4>2 DEF LockShape
      <4> QED
        BY <2>1, <4>1, <4>2
    <3>6. \A s \in EventTypes : s # t => call[h].mem.user[s] = Visible(h, "user")[s]
      BY <2>3, <3>1 DEF RunOf, Copies
    <3>7. Holding(h)'
      BY <1>1, <1>3, <2>1, <3>1, <3>3, <3>5, <3>6 DEF Holding
    <3>8. Counting(h)' /\ Adding(h)'
      BY <2>1 DEF Counting, Adding
    <3> QED
      BY <1>6, <2>3, <3>4, <3>7, <3>8 DEF RunOf
  <2> QED
    BY <1>1, <1>5, <2>2, <2>3, RunStep
<1>8. CASE "user" \notin call[h].saving
  <2>1. /\ lock'["user"] = lock["user"] /\ draft'.user = draft.user
        /\ "user" \notin call'[h].saving
    BY <1>0, <1>1, <1>8, UpdateEffect
  <2>2. OthersStay(h)
    BY <1>1, <2>1 DEF OthersStay, LocksStay
  <2>3. ASSUME RunOf(h) PROVE RunOf(h)'
    <3>1. Copies(h)'
      BY <1>1, <1>3, <2>1, <2>3 DEF RunOf, Copies, Visible
    <3>2. Holding(h)' /\ Counting(h)' /\ Adding(h)'
      BY <1>1, <1>2, <1>3, <1>8, <2>1, <2>3 DEF RunOf, Holding, Counting, Adding
    <3> QED
      BY <1>6, <2>3, <3>1, <3>2 DEF RunOf
  <2> QED
    BY <1>1, <1>5, <2>2, <2>3, RunStep
<1> QED
  BY <1>7, <1>8

\* A failure takes no run back.
LEMMA FailRun ==
    ASSUME Typed, Timed, LockShape, RunInv, NEW h \in Handlers, Fail(h)
    PROVE  RunInv'
<1>1. /\ Ended(h) /\ Only(h) /\ rows' = rows /\ SameMarks /\ lock' = Unlocked(h)
      /\ draft'.user = IF lock["user"] = h THEN rows.user ELSE draft.user
      /\ UNCHANGED <<behind, crossed, skewed>>
  BY FailEnds
<1>2. LocksStay(h) /\ lock'["user"] # h
  BY <1>1, EndsStay
<1>3. OthersStay(h)
  BY <1>1, <1>2 DEF OthersStay
<1>4. RunOf(h)' /\ (Orderly' => Orderly)
  BY <1>1, <1>2, EndedRun DEF Orderly
<1> QED
  BY <1>1, <1>3, <1>4, RunStep

\* The user that a call commits under its lock has the streak of its days.
LEMMA HeldRun ==
    ASSUME Typed, MarksInv, Timed, LockShape, NEW h \in Handlers, RunOf(h),
           lock["user"] = h, call[h].saving = {}, marks' = CommitMarks(h),
           NEW t \in EventTypes, t = call[h].kind, NEW S, S = DaysOf(t)',
           NEW n, n = draft.user[t], NEW m, m = call[h].marked
    PROVE  /\ m \in S /\ (m = day \/ m = day - 1) /\ m \in Nat /\ day \in Nat
           /\ Filled(S, n, m) /\ n \in Nat /\ (n >= 2 => m - 1 \in S)
           /\ RunIn(S, n, MaxDay + 1)
<1>1. /\ call[h].pc \in Working /\ Fresh(h)
  BY DEF LockShape, RunOf, Holding, Fresh, Away, Working
<1>2. TimedOf(call[h]) /\ call[h].marked \in Nat /\ call[h].since \in Nat /\ day \in Nat
      /\ MaxDay \in Nat /\ day \in Days
  BY RowsTyped, CallTyped DEF Timed, CallSet
<1>3. /\ call[h].marked > 0 /\ call[h].marked <= day
      /\ call[h].marked = day \/ call[h].marked = day - 1
  <2>1. call[h].marked > 0
    BY <1>1, <1>2 DEF TimedOf, Working
  <2>2. /\ call[h].since <= call[h].marked /\ call[h].marked <= day /\ day <= call[h].since + 1
    BY <1>1, <1>2, <2>1 DEF TimedOf, Working
  <2> QED
    BY <1>2, <2>1, <2>2
<1>4. /\ S = IF call[h].pending THEN DaysOf(t) \cup {m} ELSE DaysOf(t)
      /\ DaysOf(t) \subseteq S
  BY DaysCommitted
<1>5. m \in S
  <2>1. ~call[h].pending => Marked(t, m)
    BY <1>2, <1>3 DEF TimedOf
  <2> QED
    BY <1>4, <2>1, DaysOfMarked
<1>6. S \in SUBSET Days /\ \A d \in S : d <= day
  <2>1. DaysOf(t) \in SUBSET Days /\ \A d \in DaysOf(t) : d <= day
    BY DaysTyped
  <2>2. m \in Days /\ m <= day
    BY <1>2, <1>3 DEF Days
  <2> QED
    BY <1>4, <2>1, <2>2
<1>7. draft.user = call[h].mem.user
  BY DEF RunOf, Holding
<1>8. n = call[h].mem.user[t] /\ n \in Nat
  BY <1>7, CallTyped
<1>9. n >= 2 => Filled(S, n - 1, m - 1)
  <2> SUFFICES ASSUME n >= 2 PROVE Filled(S, n - 1, m - 1)
    OBVIOUS
  <2>1. Filled(DaysOf(t), call[h].mem.user[t] - 1, call[h].marked - 1)
    BY <1>1, <1>8 DEF RunOf, Deserving
  <2>2. Filled(DaysOf(t), n - 1, m - 1)
    BY <1>8, <2>1
  <2> QED
    BY <1>4, <2>2, FilledMore
<1>10. Filled(S, n, m)
  <2>1. CASE n = 0
    BY <2>1 DEF Filled
  <2>2. CASE n = 1
    <3>1. \A i \in 1..1 : m + 1 - i = m
      BY <1>2
    <3> QED
      BY <1>5, <2>2, <3>1 DEF Filled
  <2>3. CASE n >= 2
    BY <1>2, <1>5, <1>8, <1>9, <2>3, FilledNext
  <2> QED
    BY <1>8, <2>1, <2>2, <2>3
<1>11. n >= 2 => m - 1 \in S
  <2> SUFFICES ASSUME n >= 2 PROVE m - 1 \in S
    OBVIOUS
  <2>1. 1 \in 1..(n - 1) /\ (m - 1) + 1 - 1 = m - 1
    BY <1>2, <1>8
  <2>2. (m - 1) + 1 - 1 \in S
    BY <1>9, <2>1 DEF Filled
  <2> QED
    BY <2>1, <2>2
<1>12. RunIn(S, n, MaxDay + 1)
  BY <1>2, <1>3, <1>5, <1>6, <1>8, <1>10, RunAtEnd
<1> QED
  BY <1>2, <1>3, <1>5, <1>8, <1>10, <1>11, <1>12

\* When a call commits the user under its lock, the others are behind; what they
\* have inserted is next to its run.
LEMMA OutrunRun ==
    ASSUME Typed, MarksInv, Timed, LockShape, NEW h \in Handlers, RunOf(h), Only(h),
           lock["user"] = h, call[h].saving = {}, lock' = Unlocked(h), rows' = CommitRows(h),
           marks' = CommitMarks(h), behind' = Outrun(h), NEW g \in Handlers, g # h, RunOf(g)
    PROVE  RunOf(g)'
<1>1. /\ call'[g] = call[g] /\ rows'.user = draft.user /\ lock["user"] # g /\ lock'["user"] # g
  BY CommitUser, ConstantsAssumption DEF Only
<1>2. ~Fresh(g)'
  BY <1>1 DEF Fresh, Idle, Away, Outrun
<1>3. Copies(g)'
  BY <1>1, <1>2 DEF RunOf, Copies
<1>4. Holding(g)' /\ Counting(g)' /\ Before(g)' /\ Deserving(g)'
  BY <1>1, <1>2 DEF RunOf, Holding, Counting, Before, Deserving
<1>5. Adding(g)'
  <2> DEFINE t == call[g].kind
             y == call[g].marked
  <2> SUFFICES ASSUME call[g].pending,
                      call[g].pc = "commit" \/ (call[g].pc = "count" /\ "user" \notin call[g].saving)
               PROVE  \E k \in EventTypes :
                         /\ k = call[g].kind
                         /\ rows'.user[k] <= 1 \/ y - 1 \in DaysOf(k)' \/ y \in DaysOf(k)'
    BY <1>1 DEF Adding, DaysOf
  <2>1. t \in EventTypes
    BY DEF Typed, ShapeOf
  <2>2. PICK k \in EventTypes : k = call[g].kind
    BY <2>1
  <2>3. CASE k # call[h].kind
    <3>1. rows'.user[k] = rows.user[k]
      BY <1>1, <2>3 DEF RunOf, Holding
    <3>2. DaysOf(k)' = DaysOf(k)
      BY <2>3, DaysCommitted
    <3>3. rows.user[k] <= 1 \/ y - 1 \in DaysOf(k) \/ y \in DaysOf(k)
      BY <1>1, <2>2 DEF RunOf, Adding
    <3> QED
      BY <2>2, <3>1, <3>2, <3>3
  <2>4. CASE k = call[h].kind
    <3> DEFINE m == call[h].marked
               n == draft.user[k]
               T == DaysOf(k)'
    <3>1. /\ m \in T /\ (m = day \/ m = day - 1) /\ m \in Nat /\ day \in Nat
          /\ n \in Nat /\ (n >= 2 => m - 1 \in T)
      <4> HIDE DEF m, n, T
      <4> QED
        BY <2>4, HeldRun DEF m, n, T
    <3>2. y = day \/ y = day - 1
      <4>1. TimedOf(call[g]) /\ y \in Nat /\ call[g].since \in Nat /\ y > 0
        BY RowsTyped, CallTyped DEF Timed, CallSet, Typed, ShapeOf
      <4>2. call[g].since <= y /\ y <= day /\ day <= call[g].since + 1
        BY <4>1 DEF TimedOf
      <4> QED
        BY <3>1, <4>1, <4>2
    <3>3. n <= 1 \/ y - 1 \in T \/ y \in T
      <4> HIDE DEF m, n, T, y
      <4>1. n <= 1 \/ m - 1 \in T
        BY <3>1
      <4>2. y = m \/ y = m - 1 \/ y - 1 = m
        BY <3>1, <3>2
      <4> QED
        BY <3>1, <4>1, <4>2
    <3> QED
      BY <1>1, <2>2, <3>3
  <2> QED
    BY <2>3, <2>4
<1> QED
  BY <1>3, <1>4, <1>5 DEF RunOf

\* A call that has not changed the user adds at most a day.
LEMMA AddingRun ==
    ASSUME Typed, MarksInv, NEW h \in Handlers, Adding(h), call[h].pc = "commit",
           lock["user"] # h, marks' = CommitMarks(h),
           NEW t \in EventTypes, NEW x \in Int, RunIn(DaysOf(t), rows.user[t], x)
    PROVE  \A S : S = DaysOf(t)' => RunIn(S, rows.user[t], x)
<1> SUFFICES ASSUME NEW S, S = DaysOf(t)' PROVE RunIn(S, rows.user[t], x)
  OBVIOUS
<1>1. CASE call[h].pending /\ call[h].kind = t
  <2>1. S = DaysOf(t) \cup {call[h].marked}
    BY <1>1, DaysCommitted
  <2>2. rows.user[t] <= 1 \/ call[h].marked - 1 \in DaysOf(t) \/ call[h].marked \in DaysOf(t)
    BY <1>1 DEF Adding
  <2>3. call[h].marked \in Days
    BY <1>1, RowsTyped DEF Typed, ShapeOf, Days
  <2>4. DaysOf(t) \in SUBSET Days /\ MaxDay \in Nat /\ rows.user[t] \in Nat
    BY DaysTyped, RowsTyped
  <2> QED
    BY <2>1, <2>2, <2>3, <2>4, RunGrows
<1>2. CASE ~(call[h].pending /\ call[h].kind = t)
  BY <1>2, DaysCommitted
<1> QED
  BY <1>1, <1>2

\* A commit of days alone leaves the other calls' runs in place.
LEMMA KeptRun ==
    ASSUME Typed, MarksInv, NEW h \in Handlers, Adding(h), call[h].pc = "commit", Only(h),
           lock["user"] # h, lock' = Unlocked(h), rows' = CommitRows(h), draft' = draft,
           marks' = CommitMarks(h), behind' = Outrun(h), day' = day,
           NEW g \in Handlers, g # h, RunOf(g)
    PROVE  RunOf(g)'
<1>1. /\ call'[g] = call[g] /\ rows'.user = rows.user /\ lock'["user"] = lock["user"]
      /\ (g \in behind' <=> g \in behind)
  BY CommitUser DEF Only, Outrun
<1>2. Visible(g, "user")' = Visible(g, "user")
  BY <1>1 DEF Visible
<1>3. Fresh(g)' <=> Fresh(g)
  BY <1>1 DEF Fresh, Away
<1>4. Copies(g)'
  BY <1>1, <1>2, <1>3 DEF RunOf, Copies
<1>5. Holding(g)' /\ Counting(g)'
  BY <1>1, <1>3 DEF RunOf, Holding, Counting
<1>6. \A t \in EventTypes : DaysOf(t) \subseteq DaysOf(t)'
  BY DaysCommitted
<1>7. Adding(g)'
  <2> SUFFICES ASSUME call[g].pending, lock["user"] # g,
                      call[g].pc = "commit" \/ (call[g].pc = "count" /\ "user" \notin call[g].saving)
               PROVE  \E k \in EventTypes :
                         /\ k = call[g].kind
                         /\ \/ rows.user[k] <= 1
                            \/ call[g].marked - 1 \in DaysOf(k)' \/ call[g].marked \in DaysOf(k)'
    BY <1>1 DEF Adding, DaysOf
  <2>1. PICK k \in EventTypes : k = call[g].kind
    BY DEF Typed, ShapeOf
  <2>2. \/ rows.user[k] <= 1
        \/ call[g].marked - 1 \in DaysOf(k) \/ call[g].marked \in DaysOf(k)
    BY <2>1 DEF RunOf, Adding
  <2> QED
    BY <1>6, <2>1, <2>2
<1>8. Before(g)'
  <2> DEFINE x == IF call[g].pc = "mark" THEN day ELSE call[g].marked
  <2> SUFFICES ASSUME Fresh(g), call[g].pc \in {"mark", "yesterday"},
                      rows.user[call[g].kind] >= 2
               PROVE  \E k \in EventTypes :
                         k = call[g].kind /\ \A S : S = DaysOf(k)' => RunIn(S, rows.user[k], x)
    BY <1>1, <1>3 DEF Before, DaysOf
  <2>1. PICK k \in EventTypes : k = call[g].kind
    BY DEF Typed, ShapeOf
  <2>2. RunIn(DaysOf(k), rows.user[k], x)
    BY <2>1 DEF RunOf, Before
  <2>3. x \in Int
    BY RowsTyped, CallTyped DEF CallSet
  <2> HIDE DEF x
  <2> QED
    BY <2>1, <2>2, <2>3, AddingRun
<1>9. Deserving(g)'
  <2> DEFINE n == call[g].mem.user[call[g].kind] - 1
             d == call[g].marked - 1
  <2> SUFFICES ASSUME Fresh(g), call[g].pc \in Working, call[g].kind \in EventTypes,
                      call[g].mem.user[call[g].kind] >= 2
               PROVE  \E k \in EventTypes :
                         k = call[g].kind /\ \A S : S = DaysOf(k)' => Filled(S, n, d)
    BY <1>1, <1>3 DEF Deserving, DaysOf
  <2>1. PICK k \in EventTypes : k = call[g].kind
    OBVIOUS
  <2>2. Filled(DaysOf(k), n, d)
    BY <2>1 DEF RunOf, Deserving
  <2> HIDE DEF n, d
  <2> QED
    BY <1>6, <2>1, <2>2, FilledMore
<1> QED
  BY <1>4, <1>5, <1>7, <1>8, <1>9 DEF RunOf

\* What has been rewarded stays marked.
LEMMA RewardsStay ==
    ASSUME Typed, RewardRuns, NEW h \in Handlers, marks' = CommitMarks(h)
    PROVE  \A r \in rewards : \A S : S = DaysOf(r.type)' => Filled(S, r.days, r.on)
<1> SUFFICES ASSUME NEW r \in rewards, NEW S, S = DaysOf(r.type)'
             PROVE Filled(S, r.days, r.on)
  OBVIOUS
<1>1. r.type \in EventTypes
  BY DEF Typed, TypeOK, RewardSet
<1>2. \E k \in EventTypes : k = r.type /\ DaysOf(k) \subseteq S
  <2>1. \A k \in EventTypes : DaysOf(k) \subseteq DaysOf(k)'
    BY DaysCommitted
  <2> QED
    BY <1>1, <2>1
<1>3. Filled(DaysOf(r.type), r.days, r.on)
  BY DEF RewardRuns
<1> QED
  BY <1>2, <1>3, FilledMore

\* The rows that a call commits under its lock have the runs of their days.
LEMMA HeldRows ==
    ASSUME Typed, MarksInv, Timed, LockShape, RowRuns, NEW h \in Handlers, RunOf(h),
           lock["user"] = h, call[h].saving = {}, lock' = Unlocked(h), rows' = CommitRows(h),
           marks' = CommitMarks(h)
    PROVE  RowRuns'
<1> SUFFICES ASSUME NEW t \in EventTypes
             PROVE \A S, n : S = DaysOf(t)' /\ n = draft.user[t] => RunIn(S, n, MaxDay + 1)
  BY CommitUser DEF RowRuns
<1> SUFFICES ASSUME NEW S, NEW n, S = DaysOf(t)', n = draft.user[t]
             PROVE RunIn(S, n, MaxDay + 1)
  OBVIOUS
<1>1. CASE t = call[h].kind
  BY <1>1, HeldRun
<1>2. CASE t # call[h].kind
  <2>1. n = rows.user[t] /\ S = DaysOf(t)
    BY <1>2, DaysCommitted DEF RunOf, Holding
  <2> QED
    BY <2>1 DEF RowRuns
<1> QED
  BY <1>1, <1>2

\* A commit keeps the runs.
LEMMA CommitRun ==
    ASSUME Typed, MarksInv, Timed, LockShape, RunInv, NEW h \in Handlers, CommitTransaction(h)
    PROVE  RunInv'
<1>1. /\ Ended(h) /\ Only(h) /\ rows' = CommitRows(h) /\ draft' = draft
      /\ lock' = Unlocked(h) /\ marks' = CommitMarks(h) /\ day' = day /\ rewards' = rewards
      /\ behind' = Outrun(h) /\ UNCHANGED <<crossed, skewed>>
      /\ call[h].pc = "commit" /\ call[h].saving = {}
  BY CommitEnds
<1> SUFFICES ASSUME Orderly' PROVE RowRuns' /\ RewardRuns' /\ \A g \in Handlers : RunOf(g)'
  BY DEF RunInv
<1>2. RowRuns /\ RewardRuns /\ \A g \in Handlers : RunOf(g)
  BY <1>1 DEF RunInv, Orderly
<1>3. RewardRuns'
  <2>1. \A r \in rewards : \A S : S = DaysOf(r.type)' => Filled(S, r.days, r.on)
    BY <1>1, <1>2, RewardsStay
  <2> QED
    BY <1>1, <2>1 DEF RewardRuns
<1>4. RunOf(h)'
  <2>1. lock'["user"] # h
    BY <1>1, CommitUser, ConstantsAssumption
  <2> QED
    BY <1>1, <2>1, EndedRun
<1>5. CASE lock["user"] = h
  <2>1. RowRuns'
    BY <1>1, <1>2, <1>5, HeldRows
  <2>2. \A g \in Handlers : g # h => RunOf(g)'
    BY <1>1, <1>2, <1>5, OutrunRun
  <2> QED
    BY <1>3, <1>4, <2>1, <2>2
<1>6. CASE lock["user"] # h
  <2>0. Adding(h)
    BY <1>2 DEF RunOf
  <2>1. RowRuns'
    <3>1. rows'.user = rows.user /\ MaxDay + 1 \in Int
      BY <1>1, <1>6, CommitUser, RowsTyped
    <3>2. \A t \in EventTypes : \A S : S = DaysOf(t)' => RunIn(S, rows.user[t], MaxDay + 1)
      BY <1>1, <1>2, <1>6, <2>0, <3>1, AddingRun DEF RowRuns
    <3> QED
      BY <3>1, <3>2 DEF RowRuns
  <2>2. \A g \in Handlers : g # h => RunOf(g)'
    BY <1>1, <1>2, <1>6, <2>0, KeptRun
  <2> QED
    BY <1>3, <1>4, <2>1, <2>2
<1> QED
  BY <1>5, <1>6

\* A reward is given under the lock, for days that are marked with it.
LEMMA NotifyRun ==
    ASSUME Typed, MarksInv, Timed, LockShape, RunInv, NEW h \in Handlers,
           SaveRewardNotification(h)
    PROVE  RunInv'
<1>1. /\ Only(h) /\ rows' = CommitRows(h) /\ draft' = draft /\ lock' = Unlocked(h)
      /\ marks' = CommitMarks(h)
      /\ rewards' = rewards \cup {[type |-> call[h].kind, on |-> call[h].marked,
                                   days |-> call[h].mem.user[call[h].kind], by |-> h]}
      /\ behind' = Outrun(h) /\ UNCHANGED <<crossed, skewed>>
      /\ call[h].pc = "notify" /\ call'[h].pc = "streak"
      /\ call[h].saving = {} /\ call'[h].saving = {} /\ call[h].kind \in EventTypes
      /\ call'[h].mem = call[h].mem
      /\ call'[h].kind = call[h].kind
      /\ call'[h].marked = call[h].marked /\ ~call'[h].pending
  BY NotifyEffect
<1> SUFFICES ASSUME Orderly' PROVE RowRuns' /\ RewardRuns' /\ \A g \in Handlers : RunOf(g)'
  BY DEF RunInv
<1>2. RowRuns /\ RewardRuns /\ \A g \in Handlers : RunOf(g)
  BY <1>1 DEF RunInv, Orderly
<1>3. lock["user"] = h /\ h \notin behind /\ draft.user = call[h].mem.user
  BY <1>1, <1>2 DEF RunOf, Counting, Holding
<1>4. RowRuns'
  BY <1>1, <1>2, <1>3, HeldRows
<1>5. \A g \in Handlers : g # h => RunOf(g)'
  BY <1>1, <1>2, <1>3, OutrunRun
<1>6. RewardRuns'
  <2>1. \A r \in rewards : \A S : S = DaysOf(r.type)' => Filled(S, r.days, r.on)
    BY <1>1, <1>2, RewardsStay
  <2>0. PICK r1 : r1 = [type |-> call[h].kind, on |-> call[h].marked,
                       days |-> call[h].mem.user[call[h].kind], by |-> h]
    OBVIOUS
  <2>2. PICK t \in EventTypes : t = call[h].kind
    BY <1>1
  <2>3. \A S : S = DaysOf(t)' => Filled(S, draft.user[t], call[h].marked)
    BY <1>1, <1>2, <1>3, <2>2, HeldRun
  <2>4. r1.type = t /\ r1.days = draft.user[t] /\ r1.on = call[h].marked
    BY <1>3, <2>0, <2>2
  <2>5. \A S : S = DaysOf(r1.type)' => Filled(S, r1.days, r1.on)
    BY <2>3, <2>4
  <2>6. rewards' = rewards \cup {r1}
    BY <1>1, <2>0
  <2>7. \A r \in rewards' : \A S : S = DaysOf(r.type)' => Filled(S, r.days, r.on)
    BY <2>1, <2>5, <2>6
  <2> QED
    BY <2>7 DEF RewardRuns
<1>7. RunOf(h)'
  <2>1. rows'.user = draft.user /\ lock'["user"] # h
    BY <1>1, <1>3, CommitUser, ConstantsAssumption
  <2>2. h \notin behind' /\ Fresh(h) /\ ~call'[h].selected
    <3>1. call'[h].selected <=> call[h].selected
      BY NotifyEffect
    <3> QED
      BY <1>1, <1>3, <3>1 DEF Outrun, Fresh, Idle, Away, Timed, TimedOf
  <2>3. Copies(h)'
    BY <1>1, <1>2, <1>3, <2>1, <2>2 DEF RunOf, Copies, Visible
  <2>4. Holding(h)' /\ Counting(h)' /\ Adding(h)' /\ Before(h)'
    BY <1>1, <2>1 DEF Holding, Counting, Adding, Before
  <2>5. Deserving(h)'
    <3> DEFINE n == call[h].mem.user[call[h].kind] - 1
               d == call[h].marked - 1
    <3> SUFFICES ASSUME call[h].mem.user[call[h].kind] >= 2
                 PROVE  \E k \in EventTypes :
                           k = call[h].kind /\ \A S : S = DaysOf(k)' => Filled(S, n, d)
      BY <1>1 DEF Deserving, DaysOf
    <3>1. PICK k \in EventTypes : k = call[h].kind
      BY <1>1
    <3>2. Filled(DaysOf(k), n, d)
      BY <1>1, <1>2, <2>2, <3>1 DEF RunOf, Deserving, Working
    <3>3. DaysOf(k) \subseteq DaysOf(k)'
      BY <1>1, DaysCommitted
    <3> HIDE DEF n, d
    <3> QED
      BY <3>1, <3>2, <3>3, FilledMore
  <2> QED
    BY <2>3, <2>4, <2>5 DEF RunOf
<1> QED
  BY <1>4, <1>5, <1>6, <1>7

\* A run that today's mark ended goes on to be the last one tomorrow.
LEMMA DayRun ==
    ASSUME Typed, MarksInv, RunInv, NextDay
    PROVE  RunInv'
<1>1. /\ day' = day + 1 /\ UNCHANGED <<rows, lock, draft, marks, rewards, call, skewed,
                                       behind, crossed>>
  BY DEF NextDay
<1> SUFFICES ASSUME Orderly' PROVE RowRuns' /\ RewardRuns' /\ \A g \in Handlers : RunOf(g)'
  BY DEF RunInv
<1>2. RowRuns /\ RewardRuns /\ \A g \in Handlers : RunOf(g)
  BY <1>1 DEF RunInv, Orderly
<1>3. RowRuns' /\ RewardRuns'
  BY <1>1, <1>2 DEF RowRuns, RewardRuns, DaysOf
<1>4. ASSUME NEW g \in Handlers PROVE RunOf(g)'
  <2>1. Copies(g)' /\ Holding(g)' /\ Counting(g)' /\ Adding(g)' /\ Deserving(g)'
    BY <1>1, <1>2
       DEF RunOf, Copies, Holding, Counting, Adding, Deserving, Fresh, Away, Visible, DaysOf
  <2>2. Before(g)'
    <3> DEFINE t == call[g].kind
               S == DaysOf(t)
               n == rows.user[t]
    <3> SUFFICES ASSUME Fresh(g), call[g].pc \in {"mark", "yesterday"}, n >= 2
                 PROVE  RunIn(S, n, IF call[g].pc = "mark" THEN day + 1 ELSE call[g].marked)
      BY <1>1 DEF Before, Fresh, Away, DaysOf
    <3>1. RunIn(S, n, IF call[g].pc = "mark" THEN day ELSE call[g].marked)
      BY <1>2 DEF RunOf, Before
    <3>2. CASE call[g].pc = "mark"
      <4>1. t \in EventTypes
        BY <3>2 DEF Typed, ShapeOf
      <4>2. /\ S \in SUBSET Days /\ (\A d \in S : d <= day) /\ n \in Nat /\ day \in Days
            /\ day \in Nat /\ MaxDay \in Nat /\ RunIn(S, n, MaxDay + 1) /\ RunIn(S, n, day)
        BY <1>2, <3>1, <3>2, <4>1, DaysTyped, RowsTyped DEF RowRuns
      <4> HIDE DEF S, n, t
      <4>3. CASE day \in S
        BY <3>2, <4>2, <4>3, RunBefore
      <4>4. CASE day \notin S
        <5>1. PICK last \in 0..MaxDay : /\ last < day /\ Filled(S, n, last)
                                        /\ \A d \in S : ~(last < d /\ d < day)
          BY <4>2 DEF RunIn
        <5>2. \A d \in S : ~(last < d /\ d < day + 1)
          <6> SUFFICES ASSUME NEW d \in S, last < d, d < day + 1 PROVE FALSE
            OBVIOUS
          <6>1. d \in Nat /\ d # day
            BY <4>2, <4>4 DEF Days
          <6> QED
            BY <4>2, <5>1, <6>1
        <5>3. last < day + 1
          BY <4>2, <5>1
        <5> QED
          BY <3>2, <5>1, <5>2, <5>3 DEF RunIn
      <4> QED
        BY <4>3, <4>4
    <3> QED
      BY <3>1, <3>2
  <2> QED
    BY <2>1, <2>2 DEF RunOf
<1> QED
  BY <1>3, <1>4

\* Runs justify rewards and streaks: the invariant is inductive.
LEMMA NextRun ==
    Typed /\ LevelInv /\ MarksInv /\ Timed /\ LockShape /\ RunInv /\ [Next]_vars => RunInv'
<1> SUFFICES ASSUME Typed, LevelInv, MarksInv, Timed, LockShape, RunInv, [Next]_vars PROVE RunInv'
  OBVIOUS
<1>1. ASSUME NEW h \in Handlers, Loads(h) \/ AskToLeave(h) \/ Mark(h) PROVE RunInv'
  BY <1>1, LoadRun, InsertRun, CountRun, NotifyRun, ResetRun DEF Mark
<1>2. ASSUME NEW h \in Handlers,
             SelectRow(h) \/ UpdateRow(h) \/ CommitTransaction(h) \/ Fail(h)
      PROVE RunInv'
  BY <1>2, SelectRun, UpdateRun, CommitRun, FailRun
<1>3. CASE NextDay
  BY <1>3, DayRun
<1>4. CASE UNCHANGED vars
  <2>1. /\ rows' = rows /\ lock' = lock /\ draft' = draft /\ call' = call /\ day' = day
        /\ rewards' = rewards /\ behind' = behind /\ \A t : DaysOf(t)' = DaysOf(t)
    BY <1>4 DEF vars, DaysOf
  <2>2. Orderly' => RowRuns /\ RewardRuns /\ \A h \in Handlers : RunOf(h)
    BY <1>4 DEF vars, RunInv, Orderly
  <2>3. RowRuns /\ RewardRuns => RowRuns' /\ RewardRuns'
    BY <2>1 DEF RowRuns, RewardRuns
  <2>4. ASSUME NEW h \in Handlers, RunOf(h) PROVE RunOf(h)'
    <3>1. Copies(h)' /\ Holding(h)' /\ Counting(h)'
      BY <2>1, <2>4 DEF RunOf, Copies, Holding, Counting, Fresh, Away, Visible
    <3>2. Adding(h)' /\ Before(h)' /\ Deserving(h)'
      BY <2>1, <2>4 DEF RunOf, Adding, Before, Deserving, Fresh, Away
    <3> QED
      BY <3>1, <3>2 DEF RunOf
  <2> QED
    BY <2>2, <2>3, <2>4 DEF RunInv
<1> QED
  BY <1>1, <1>2, <1>3, <1>4 DEF Next, Loads

\* The invariant says what the properties promise.
LEMMA RunsSound == Typed /\ RunInv => RewardsDeserved /\ StreakJustified
<1> SUFFICES ASSUME Typed, RunInv, Orderly PROVE RewardedDaysMarked /\ \A t \in EventTypes :
        \E last \in 0..MaxDay :
            /\ \A d \in Days : d > last => ~Marked(t, d)
            /\ MarkedFor(t, rows.user[t], last)
  BY DEF RewardsDeserved, StreakJustified
<1>1. RowRuns /\ RewardRuns
  BY DEF RunInv
<1>2. RewardedDaysMarked
  BY <1>1, DaysOfMarked DEF RewardRuns, RewardedDaysMarked
<1>3. ASSUME NEW t \in EventTypes
      PROVE  \E last \in 0..MaxDay :
                /\ \A d \in Days : d > last => ~Marked(t, d)
                /\ MarkedFor(t, rows.user[t], last)
  <2>1. PICK last \in 0..MaxDay :
                /\ Filled(DaysOf(t), rows.user[t], last)
                /\ \A d \in DaysOf(t) : ~(last < d /\ d < MaxDay + 1)
    BY <1>1 DEF RowRuns, RunIn
  <2>2. MarkedFor(t, rows.user[t], last)
    BY <2>1, DaysOfMarked
  <2>3. ASSUME NEW d \in Days, d > last PROVE ~Marked(t, d)
    <3>1. last < d /\ d < MaxDay + 1
      BY <2>3, RowsTyped DEF Days
    <3> QED
      BY <2>1, <3>1, DaysOfMarked
  <2> QED
    BY <2>2, <2>3
<1> QED
  BY <1>2, <1>3

\* Days and locks in every reachable state.
LEMMA AlwaysTimed == Spec => [](Timed /\ LockShape)
<1>1. Init => Timed /\ LockShape
  BY InitTimed
<1>2. Typed /\ LevelInv /\ Timed /\ LockShape /\ [Next]_vars => Timed' /\ LockShape'
  BY NextTimed, NextLock
<1> QED
  BY <1>1, <1>2, AlwaysTyped, AttendanceLevelInvariant, PTL DEF Spec

\* A full streak starts again: it is seen only until the call that reached it ends.
THEOREM AttendanceStreakRestarts == Spec => []StreakRestarts
<1>1. Typed /\ LevelInv /\ Timed /\ LockShape /\ RestartInv /\ [Next]_vars => RestartInv'
  BY NextRestart
<1> QED
  BY <1>1, InitRestart, RestartRestarts, AlwaysTyped, AlwaysTimed, AttendanceLevelInvariant,
     PTL DEF Spec

\* The days behind each reward and each streak are marked, and a full one starts again.
THEOREM AttendanceStreakSound == Spec => []StreakSound
<1>1. Typed /\ LevelInv /\ MarksInv /\ Timed /\ LockShape /\ RunInv /\ [Next]_vars => RunInv'
  BY NextRun
<1>2. RewardsDeserved /\ StreakJustified /\ StreakRestarts => StreakSound
  BY DEF StreakSound
<1> QED
  BY <1>1, <1>2, InitRun, RunsSound, AttendanceStreakRestarts, AttendanceMarksInvariant,
     AttendanceLevelInvariant, AlwaysTyped, AlwaysTimed, PTL DEF Spec
=============================================================================
