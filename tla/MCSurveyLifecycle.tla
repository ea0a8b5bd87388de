-------------------------- MODULE MCSurveyLifecycle --------------------------
(* Small instances of SurveyLifecycle for TLC. *)
EXTENDS SurveyLifecycle, TLC

CONSTANTS u1, u2, u3, u4, u5, h1, h2, g1, g2

\* A customer's form: it opens at 1, ends at 2, and is limited.
LimitedForm == [start |-> 1, end |-> 2, limited |-> TRUE, participantsCount |-> 2,
                rewardeesCount |-> 2, byAdmin |-> FALSE]

\* An unlimited form.
OpenForm == [LimitedForm EXCEPT !.limited = FALSE, !.participantsCount = 0,
                                !.rewardeesCount = 1]

\* Forms only the admin endpoint accepts: the end lies before the start, or
\* the survey has no initiator.
BackwardForm == [OpenForm EXCEPT !.start = 2, !.end = 1, !.byAdmin = TRUE]
AdminForm    == [LimitedForm EXCEPT !.byAdmin = TRUE]

\* One participant only, and an unlimited form with two rewardees.
NarrowForm == [LimitedForm EXCEPT !.participantsCount = 1, !.rewardeesCount = 1]
WideForm   == [OpenForm EXCEPT !.rewardeesCount = 2]

LimitedForms == {LimitedForm}
OpenForms    == {OpenForm}
AllForms     == {LimitedForm, OpenForm, BackwardForm, AdminForm}
CrashForms   == {NarrowForm, WideForm, BackwardForm, AdminForm}

Symmetry == Permutations(Users) \cup Permutations(PayHandlers)
            \cup Permutations(SubHandlers) \cup Permutations(WorkerSlots)
=============================================================================
