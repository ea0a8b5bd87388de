-------------------------- MODULE MCAttendanceStreak --------------------------
(* Small instances of AttendanceStreak for TLC. *)
EXTENDS AttendanceStreak, TLC

\* Thresholds scaled down: a first reward after two days, a full streak after
\* three; the points cross the ends of the first levels.
SmallSom    == [t \in EventTypes |-> <<0, 3, 50>>]
SmallPoints == [t \in EventTypes |-> IF t = "attendance" THEN <<0, 160, 100>> ELSE <<0, 30, 100>>]
SmallBonus  == [t \in EventTypes |-> IF t = "attendance" THEN 5 ELSE 10]

Symmetry == Permutations(Handlers)
=============================================================================
