------------------------------- MODULE MCFigures -------------------------------
(***************************************************************************)
(* The modules of figures that users and admins are shown, for TLC: the    *)
(* fees of a survey, its charts, the reports on the money, and the respect *)
(* level of a user.  They share no state, so one of them runs in each      *)
(* behaviour.                                                              *)
(***************************************************************************)
EXTENDS Figures, RespectLevel, TLC

CONSTANTS u1, u2

VARIABLE part       \* the module that runs

MCSots    == {"x", "y", "z"}
MCOwned   == {"z"}
MCLengths == <<31, 28, 31>>

MCInit ==
    /\ FeesInit /\ ChartsInit /\ ReportsInit /\ Init
    /\ part \in {"fees", "charts", "reports", "level"}

MCNext ==
    /\ UNCHANGED part
    /\ \/ part = "fees" /\ FeesNext /\ UNCHANGED <<votes, reportsVars, vars>>
       \/ part = "charts" /\ ChartsNext /\ UNCHANGED <<feesVars, reportsVars, vars>>
       \/ part = "reports" /\ ReportsNext /\ UNCHANGED <<feesVars, votes, vars>>
       \/ part = "level" /\ Next /\ UNCHANGED <<feesVars, votes, reportsVars>>

MCSpec == MCInit /\ [][MCNext]_<<feesVars, votes, reportsVars, vars, part>>

\* The two users are alike.
Symmetry == Permutations({u1, u2})
=============================================================================
