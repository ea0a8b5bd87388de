------------------------------ MODULE SurveyFees ------------------------------
(***************************************************************************)
(* What a survey costs, the receipt its initiator sees before paying, and  *)
(* the profits the owners of its SOTs get from the fee.  bigDecimal keeps  *)
(* sums and products exact and rounds quotients, to four or five digits;   *)
(* amounts are counted in units of the fifth digit of a SoM.               *)
(***************************************************************************)
EXTENDS Rounding, FiniteSets, FiniteSetsExt

CONSTANTS
    Hours,          \* hours at which a survey may start or end
    Sots,           \* the SOTs a survey may run on
    Owned,          \* those that belong to the platform (OWNER_PUBLIC_KEY)
    Rewards,        \* rewardAmount, in SoM
    Rewardees       \* rewardeesCount

ASSUME FeesAssumption ==
    /\ Hours \subseteq Nat /\ IsFiniteSet(Sots)
    /\ Rewards \subseteq Nat \ {0} /\ Rewardees \subseteq Nat \ {0}

VARIABLES
    form,           \* the survey, once it is registered
    feePaid,        \* whether its initiator paid for it,
    paid,           \* and how much: less than nothing if the days are negative
    profits         \* pending_profits: amountInSom of each SOT

feesVars == <<form, feePaid, paid, profits>>

-----------------------------------------------------------------------------
(* Types                                                                   *)

SoM == 100000

\* An admin may register a survey of nobody.
Form == [start : Hours, end : Hours, sots : (SUBSET Sots) \ {{}}, multiple : BOOLEAN,
         reward : Rewards, rewardees : Rewardees, initiator : BOOLEAN]
NoSurvey == [start |-> 0]

FeesTypeOK ==
    /\ form \in Form \cup {NoSurvey}
    /\ feePaid \in BOOLEAN /\ paid \in Int
    /\ DOMAIN profits \subseteq Sots
    /\ \A s \in DOMAIN profits : profits[s] \in Int

FeesInit == form = NoSurvey /\ feePaid = FALSE /\ paid = 0 /\ profits = << >>

-----------------------------------------------------------------------------
(* Arithmetic                                                              *)

\* Mutant: rounded up.
QuotientUp(n, d) == IF d > 0 THEN (n + d - 1) \div d ELSE (-n - d - 1) \div (-d)

\* bigDecimal.divide.
Quotient(n, d) == IF d > 0 THEN Rounded(n, d) ELSE Rounded(-n, -d)

\* dayjs drops what is left of a day, of a negative difference too.
Truncated(n, d) == IF n >= 0 THEN n \div d ELSE -((-n) \div d)

\* Mutant: the difference of the two moments in days.
DaysElapsed(f) == (f.end - f.start) \div 24 + 1

FirstDay(f) == f.start \div 24
LastDay(f)  == f.end \div 24

\* From the start of the first day to the end of the last one, in whole days,
\* and one more.
Days(f) ==
    LET startOfDay == 24 * FirstDay(f)
        endOfDay   == 24 * LastDay(f) + 23
    IN  Truncated(endOfDay - startOfDay, 24) + 1

\* getSurveyPayments.  The ten percent are divided first and stay exact.
RequestFeePerDay(f) == 10 * SoM * (IF f.multiple THEN Cardinality(f.sots) ELSE 1)
RequestFee(f)       == RequestFeePerDay(f) * Days(f)
TotalReward(f)      == f.reward * f.rewardees * SoM
DistributionFee(f)  == Quotient(10 * SoM, 100) * f.reward * f.rewardees
TotalPayment(f)     == RequestFee(f) + TotalReward(f) + DistributionFee(f)

\* An amount per day, to four digits.
PerDay(amount, f) == 10 * Quotient(amount, 10 * Days(f))

\* getSurveyReceipt: what is paid, and what of it for a day.  bigDecimal refuses
\* to divide by nothing.
NoReceipt == [total |-> 0]
GetSurveyReceipt(f) ==
    IF Days(f) = 0 THEN NoReceipt
    ELSE [total |-> TotalPayment(f), days |-> Days(f),
          perDay |-> RequestFeePerDay(f) + PerDay(TotalReward(f), f)
                       + PerDay(DistributionFee(f), f)]

-----------------------------------------------------------------------------
(* Actions                                                                 *)

\* registerSurvey: several SOTs for a survey of several, and one for the others.
Register(f) ==
    /\ form = NoSurvey
    /\ f.multiple <=> Cardinality(f.sots) > 1
    /\ form' = f
    /\ UNCHANGED <<feePaid, paid, profits>>

\* The controller of the customers refuses an end before the start.
RegisterForm(f) == f.start < f.end /\ f.initiator /\ Register(f)

\* That of the admins does not compare the dates, nor needs a user.
RegisterFromAdmin(f) == Register(f)

\* Mutant: the whole share instead of half of it.
DistributeAll(total) ==
    [s \in form.sots \ Owned |-> Quotient(total, Cardinality(form.sots))]

\* distributeProfit: half the share of each SOT goes to its owner, except where
\* that is the platform.
DistributeProfit(total) ==
    LET share == Quotient(total, Cardinality(form.sots))
    IN  [s \in form.sots \ Owned |-> Quotient(share, 2)]

\* makeSurveyPayment of the initiator, its amounts.
PayFees ==
    /\ form # NoSurvey /\ form.initiator
    /\ ~feePaid /\ feePaid' = TRUE
    /\ paid' = TotalPayment(form)
    /\ profits' = DistributeProfit(TotalPayment(form))
    /\ UNCHANGED form

FeesNext == PayFees \/ \E f \in Form : RegisterForm(f) \/ RegisterFromAdmin(f)

FeesSpec == FeesInit /\ [][FeesNext]_feesVars

-----------------------------------------------------------------------------
(* Properties                                                              *)

\* A survey is charged for each calendar day on which it runs for an hour.  One
\* that ends before it starts is charged for a day at most: for none if it ends
\* two days before, and for less than none if it ends even earlier.
DaysAreCalendarDays ==
    form # NoSurvey =>
        /\ form.start <= form.end =>
            Days(form) = Cardinality({h \div 24 : h \in form.start .. form.end})
        /\ form.end < form.start => Days(form) <= 1
        /\ Days(form) <= 0 <=> LastDay(form) <= FirstDay(form) - 2

\* What the receipt says of a day adds up to what is paid, but for the rounding
\* of two quotients.  There is a receipt unless the survey ends two days before
\* it starts.
ReceiptAddsUp ==
    form # NoSurvey =>
        LET receipt == GetSurveyReceipt(form)
            error   == receipt.perDay * receipt.days - receipt.total
        IN  /\ receipt = NoReceipt <=> LastDay(form) = FirstDay(form) - 2
            /\ receipt # NoReceipt =>
                \/ -10 * receipt.days <= error /\ error <= 10 * receipt.days
                \/ 10 * receipt.days <= error /\ error <= -10 * receipt.days

\* The owners get half of the fee for their SOTs together, up to a unit each, and
\* never a SOT of the platform; and they owe half of a negative one.
ProfitsAreHalf ==
    feePaid =>
        LET owners == form.sots \ Owned
            error  == 2 * Cardinality(form.sots) * MapThenSumSet(LAMBDA s : profits[s], owners)
                        - paid * Cardinality(owners)
            units  == 2 * Cardinality(form.sots) * Cardinality(owners)
        IN  DOMAIN profits = owners /\ -units <= error /\ error <= units

FeesSound == FeesTypeOK /\ DaysAreCalendarDays /\ ReceiptAddsUp /\ ProfitsAreHalf
=============================================================================
