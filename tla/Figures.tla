-------------------------------- MODULE Figures --------------------------------
(***************************************************************************)
(* The figures that users and admins are shown, together: the fees of a    *)
(* survey, its charts, and the reports on the money.  They share no state. *)
(***************************************************************************)
EXTENDS SurveyFees, SurveyCharts, Reports

FiguresSpec == FeesSpec /\ ChartsSpec /\ ReportsSpec

\* What a survey costs adds up (setFee), its charts agree (getSurveyStatistics) and
\* so do the histories and graphs of the money, each up to its rounding.
FiguresSound == FeesSound /\ ChartsSound /\ ReportsSound
=============================================================================
