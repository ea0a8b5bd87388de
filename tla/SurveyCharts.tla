----------------------------- MODULE SurveyCharts -----------------------------
(***************************************************************************)
(* The four charts of a survey, computed from its participants: by gender, *)
(* by option, by age, and for one option by age and gender.  Each counts   *)
(* in SQL, adds the options nobody chose, and divides with four digits, so *)
(* that a share is a number of hundredths of a percent.                    *)
(***************************************************************************)
EXTENDS Rounding, FiniteSets, FiniteSetsExt

CONSTANTS
    Options,        \* the options of the survey
    Ages,           \* ages of participants, 0 for one who gave none
    MaxVotes        \* bound on the participants

ASSUME ChartsAssumption == IsFiniteSet(Options) /\ Ages \subseteq Nat /\ MaxVotes \in Nat

VARIABLE votes      \* surveys_participants: how many of each kind

-----------------------------------------------------------------------------
(* Types                                                                   *)

NoGender == "none"
Vote == [option : Options, gender : {"male", "female", NoGender}, age : Ages]

Count(S) == MapThenSumSet(LAMBDA v : votes[v], {v \in S : votes[v] > 0})

ChartsTypeOK == votes \in [Vote -> 0..MaxVotes] /\ Count(Vote) <= MaxVotes

ChartsInit == votes = [v \in Vote |-> 0]

Participate(v) ==
    /\ Count(Vote) < MaxVotes
    /\ votes' = [votes EXCEPT ![v] = @ + 1]

ChartsNext == \E v \in Vote : Participate(v)

ChartsSpec == ChartsInit /\ [][ChartsNext]_votes

-----------------------------------------------------------------------------
(* Counting                                                                *)

\* Mutant: shares in whole percents.
WholeShare(n, of) == IF of = 0 THEN 0 ELSE 100 * ((100 * n) \div of)

\* n of a total, in hundredths of a percent.
Share(n, of) == IF of = 0 THEN 0 ELSE Rounded(10000 * n, of)

For(o)       == {v \in Vote : v.option = o}
By(g)        == {v \in Vote : v.gender = g}
ChosenOptions == {o \in Options : Count(For(o)) > 0}

Groups == {10, 20, 30, 40, 50, 60}

\* Mutant: the ages between 59 and 60 and above are cut off by one.
InGroupLate(v, g) == IF g = 60 THEN v.age > 60 ELSE g <= v.age /\ v.age <= g + 9

\* The groups of the chart by age: ten to nineteen, ..., sixty and above.
InGroup(v, g) == IF g = 60 THEN v.age >= 60 ELSE g <= v.age /\ v.age <= g + 9

\* Those of the chart of one option: its first group starts at zero.
InBand(v, g) == InGroup(v, g) \/ (g = 10 /\ 0 < v.age /\ v.age < 10)

-----------------------------------------------------------------------------
(* Charts                                                                  *)

\* genderChartBySurveyId: shares of the participants of known gender.
GenderChart ==
    [o \in Options |->
        LET known == Count(For(o) \ By(NoGender))
        IN  IF o \notin ChosenOptions THEN [male |-> 0, female |-> 0]
            ELSE [male   |-> Share(Count(For(o) \cap By("male")), known),
                  female |-> Share(Count(For(o) \cap By("female")), known)]]

\* Mutant: options nobody chose are left out.
ParticipationOfChosen == [o \in ChosenOptions |-> Share(Count(For(o)), Count(Vote))]

\* totalParticipationChartBySurveyId.
ParticipationChart ==
    [o \in Options |-> IF o \in ChosenOptions THEN Share(Count(For(o)), Count(Vote)) ELSE 0]

\* ageChartBySurveyId: in each group the shares of the options.
AgeChart ==
    LET In(g) == {v \in Vote : InGroup(v, g)}
    IN  [g \in Groups |-> [o \in Options |-> Share(Count(For(o) \cap In(g)), Count(In(g)))]]

\* optionChartBySurveyId: in each group the shares of the genders.
OptionChart(o) ==
    LET In(g)     == {v \in For(o) \ By(NoGender) : InBand(v, g)}
        Of(x)     == [g \in Groups |-> Share(Count(In(g) \cap By(x)), Count(In(g)))]
    IN  [male |-> Of("male"), female |-> Of("female")]

-----------------------------------------------------------------------------
(* Properties                                                              *)

\* Shares of n parts that make up a whole, each at most a hundredth of a percent
\* off; or nothing at all.
Whole(sum, n, any) == IF any THEN 10000 - n <= sum /\ sum <= 10000 + n ELSE sum = 0

\* The shares of each chart make up a whole wherever there is somebody to share.
SharesAreWhole ==
    /\ DOMAIN ParticipationChart = Options
    /\ Whole(MapThenSumSet(LAMBDA o : ParticipationChart[o], Options),
             Cardinality(Options), Count(Vote) > 0)
    /\ \A o \in Options :
        /\ Whole(GenderChart[o].male + GenderChart[o].female, 2,
                 Count(For(o) \ By(NoGender)) > 0)
        /\ \A g \in Groups :
            Whole(OptionChart(o).male[g] + OptionChart(o).female[g], 2,
                  \E v \in For(o) \ By(NoGender) : votes[v] > 0 /\ InBand(v, g))
    /\ \A g \in Groups :
        Whole(MapThenSumSet(LAMBDA o : AgeChart[g][o], Options), Cardinality(Options),
              \E v \in Vote : votes[v] > 0 /\ InGroup(v, g))

\* Among so many participants one vote is a share that rounds to nothing.
Vanishing == 20000

\* Two charts that count the same participants agree: an option has a share in an
\* age group if and only if its own chart shows somebody there - except for those
\* without a gender, whom only the first counts, and the children under ten, whom
\* only the second does, and unless the share vanishes among many.  Everybody of
\* ten or more is in exactly one group.
ChartsAgree ==
    /\ \A v \in Vote : v.age >= 10 => Cardinality({g \in Groups : InGroup(v, g)}) = 1
    /\ \A o \in Options, g \in Groups :
        LET shown == OptionChart(o).male[g] + OptionChart(o).female[g] > 0
        IN  /\ AgeChart[g][o] > 0 =>
                shown \/ \E v \in For(o) \cap By(NoGender) : votes[v] > 0 /\ v.age >= 10
            /\ shown /\ Count(Vote) < Vanishing =>
                AgeChart[g][o] > 0 \/ \E v \in For(o) : votes[v] > 0 /\ v.age < 10

\* A share says who is ahead: more votes, no smaller share; and the charts by
\* option and by gender know the same options, unless a share vanishes.
SharesKeepOrder ==
    /\ \A o, p \in Options :
        Count(For(o)) <= Count(For(p)) => ParticipationChart[o] <= ParticipationChart[p]
    /\ \A o \in Options :
        GenderChart[o].male + GenderChart[o].female > 0 /\ Count(Vote) < Vanishing
            => ParticipationChart[o] > 0

ChartsSound == ChartsTypeOK /\ SharesAreWhole /\ ChartsAgree /\ SharesKeepOrder
=============================================================================
