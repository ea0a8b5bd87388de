-------------------------------- MODULE Reports --------------------------------
(***************************************************************************)
(* What is shown of the money: the transactions of a user, the history of  *)
(* a user for the admins, and the statistics of SoM, payments, SOTs and    *)
(* members.  All are read from the rows of payments, rewards, recharges,   *)
(* SOTs and users, which are only ever added here; how they come about is  *)
(* in the other modules.  Amounts are fractional and counted in tenths;    *)
(* where a query casts a sum to an integer, it is rounded.                 *)
(***************************************************************************)
EXTENDS Rounding, FiniteSets, FiniteSetsExt, Sequences

Bag == INSTANCE BagsExt

CONSTANTS
    Accounts,       \* users, each with a wallet
    Lengths,        \* days of each month
    ShownDays,      \* days of a month on which there may be a row
    MaxBookings     \* bound on the rows

ASSUME ReportsAssumption ==
    /\ IsFiniteSet(Accounts)
    /\ Lengths \in Seq(28..31)
    /\ ShownDays \subseteq 1..31 /\ MaxBookings \in Nat

VARIABLES
    ledger,         \* the rows, a bag
    members         \* users: months of createdAt and of withdrawExpiry, 0 if none

reportsVars == <<ledger, members>>

-----------------------------------------------------------------------------
(* Types                                                                   *)

Months == DOMAIN Lengths
Date   == {d \in [month : Months, day : ShownDays] : d.day <= Lengths[d.month]}
At(d)  == 100 * d.month + d.day

\* A survey that an admin registered to end days before it starts may cost less
\* than nothing: such a payment is called backward here.  A recharge is a row of
\* wallet_recharges, in SoM, and one of payments, in dollars: the latter is called a
\* topup.
Surveys  == {"survey", "backward"}
Payments == Surveys \cup {"purchase", "topup"}
Books    == Payments \cup {"reward", "recharge", "sot"}

\* In tenths; only rewards are whole.
Unit     == 10
Amount   == [survey |-> 111, backward |-> -189, purchase |-> 55, topup |-> 10,
             reward |-> 20, recharge |-> 35, sot |-> 10]

\* A purchase is of items; the other rows are of none.
Booking == {b \in [book : Books, owner : Accounts, date : Date, items : 0..2] :
                b.items > 0 <=> b.book = "purchase"}

Stranger == [joined |-> 0, expiry |-> 0]
Joined   == {u \in Accounts : members[u] # Stranger}

ReportsTypeOK ==
    /\ DOMAIN ledger \subseteq Booking
    /\ \A b \in DOMAIN ledger : ledger[b] \in 1..MaxBookings
    /\ members \in [Accounts -> [joined : {0} \cup Months, expiry : Nat]]

ReportsInit ==
    /\ ledger = << >>
    /\ members = [u \in Accounts |-> Stranger]

-----------------------------------------------------------------------------
(* Actions                                                                 *)

\* The values of a function, added up.
SumOf(f) == MapThenSumSet(LAMBDA x : f[x], DOMAIN f)

Bookings == SumOf(ledger) + Cardinality(Joined)

Join(u, month) ==
    /\ Bookings < MaxBookings
    /\ members[u] = Stranger
    /\ members' = [members EXCEPT ![u].joined = month]
    /\ UNCHANGED ledger

\* withdrawMembership, here its expiry: six months from now.
Withdraw(u, month) ==
    /\ u \in Joined /\ members[u].expiry = 0
    /\ members[u].joined <= month
    /\ members' = [members EXCEPT ![u].expiry = month + 6]
    /\ UNCHANGED ledger

Book(b) ==
    /\ Bookings < MaxBookings
    /\ b.book \notin {"topup", "recharge"}
    /\ b.owner \in Joined
    /\ members[b.owner].joined <= b.date.month
    /\ ledger' = Bag!BagAdd(ledger, b)
    /\ UNCHANGED members

Receipt(book, u, date) == [book |-> book, owner |-> u, date |-> date, items |-> 0]

\* createPayment and createRecharge of initRechargePayment, at one time.
Recharge(u, date) ==
    /\ Bookings < MaxBookings
    /\ u \in Joined /\ members[u].joined <= date.month
    /\ ledger' = Bag!BagAdd(Bag!BagAdd(ledger, Receipt("topup", u, date)),
                       Receipt("recharge", u, date))
    /\ UNCHANGED members

ReportsNext ==
    \/ \E u \in Accounts, month \in Months : Join(u, month) \/ Withdraw(u, month)
    \/ \E b \in Booking : Book(b)
    \/ \E u \in Accounts, date \in Date : Recharge(u, date)

ReportsSpec == ReportsInit /\ [][ReportsNext]_reportsVars

-----------------------------------------------------------------------------
(* The rows                                                                *)

Of(S)      == {b \in DOMAIN ledger : b.book \in S}
Mine(u, S) == {b \in S : b.owner = u}
During(m, S) == {b \in S : b.date.month = m}
Before(at, S) == {b \in S : At(b.date) < at}
Lines(S)   == [b \in S |-> ledger[b]]
Total(S)   == SumOf([b \in S |-> ledger[b] * Amount[b.book]])
Number(S)  == SumOf(Lines(S))

\* Mutant: cut off instead of rounded.
CutOff(x) == x \div Unit

\* CAST(... AS INTEGER).
AsInteger(x) == Rounded(x, Unit)

\* getUserDetails, which refuses an unknown user, of the admins' SoM service.
GetUserDetails(u) == u \in Joined

-----------------------------------------------------------------------------
(* One user                                                                *)

\* Mutant: inner joins to the order and its items.
UserTransactionInner(u, type) ==
    LET in  == Of({"reward", "recharge"})
        out == {b \in Of(Payments) : b.items > 0}
    IN  Lines(Mine(u, CASE type = "all" -> in \cup out
                        [] type = "in"  -> in
                        [] type = "out" -> out))

\* getUserTransaction.  Payments are joined to their items and grouped again.
UserTransaction(u, type) ==
    LET in  == Of({"reward", "recharge"})
        out == Of(Payments)
    IN  Lines(Mine(u, CASE type = "all" -> in \cup out
                        [] type = "in"  -> in
                        [] type = "out" -> out))

\* payment_reward_view: no wallet_recharges.
PaymentRewardView == Of(Payments \cup {"reward"})

\* getUserHistory.  A recharge is looked for among the payments.
UserHistory(u, type, from, to) ==
    LET Fits(b) == CASE type = "any"      -> TRUE
                     [] type = "survey"   -> b.book \in Surveys
                     [] type = "recharge" -> b.book = "topup"
                     [] OTHER             -> b.book = type
    IN  Lines({b \in Mine(u, PaymentRewardView) :
                Fits(b) /\ At(from) <= At(b.date) /\ At(b.date) <= At(to)})

\* getPurchases joins the items and the purchases of a user with nothing between
\* them: each item is listed with the amount of every purchase.
Purchases(u) ==
    LET bought == Mine(u, Of({"purchase"}))
        items  == SumOf([b \in bought |-> ledger[b] * b.items])
    IN  Number(bought) * items

-----------------------------------------------------------------------------
(* All users                                                               *)

TotalRewardSom    == AsInteger(Total(Of({"reward"})))
TotalPurchasedSom == AsInteger(Total(Of({"recharge"})))

\* getSOMGraphData.
SomGraph(from, to) ==
    [m \in from..to |-> [rewarded  |-> AsInteger(Total(During(m, Of({"reward"})))),
                         purchased |-> AsInteger(Total(During(m, Of({"recharge"}))))]]

\* getPaymentGraph, with the running total.
PaymentGraph(from, to) ==
    [m \in from..to |->
        [payment |-> Total(During(m, Of(Payments))),
         total   |-> SumOf([k \in from..m |-> Total(During(k, Of(Payments)))])]]

\* getCumulativePayment: SoM and dollars together, like the graphs of payments.
CumulativePayment == Total(Of(Payments))

\* Mutant: the first day of each month.
EndOfMonthsFirst(m, to) == 100 * m + 1

\* setPaymentDateFilter ends on the last day of the last month; one month less is
\* a day no later than the last of any month on the way.
EndOfMonths(m, to) == 100 * m + Min({Lengths[k] : k \in m..to})

\* getCumulativePaymentGraph.
CumulativeGraph(from, to) ==
    [m \in from..to |-> AsInteger(Total(Before(EndOfMonths(m, to), Of(Payments))))]

\* getSotStatistics: the same, from and to a day.
SotGraph(from, to) ==
    LET Day(m) == 100 * m + Min({to.day} \cup {Lengths[k] : k \in m..to.month})
    IN  [m \in {k \in 1..to.month : At(from) <= Day(k)} |->
            Number(Before(Day(m), Of({"sot"})))]

\* getMemberShips of all and of those who withdrew, six months before the expiry.
MemberShips(from, to) ==
    [m \in from..to |-> Cardinality({u \in Joined : members[u].joined = m})]

\* Mutant: the month of the expiry.
WithdrawalsAtExpiry(from, to) ==
    [m \in from..to |-> Cardinality({u \in Joined : members[u].expiry = m})]

Withdrawals(from, to) ==
    [m \in from..to |->
        Cardinality({u \in Joined : members[u].expiry # 0 /\ members[u].expiry - 6 = m})]

-----------------------------------------------------------------------------
(* Properties                                                              *)

First == [month |-> 1, day |-> 1]
Last  == [month |-> Len(Lengths), day |-> 31]

\* Every row of a user is in the list of all transactions once, and either in or
\* out; a recharge is both, as so many SoM that came in and as a payment that went
\* out.  The admins see the payments and rewards, each under one type.
HistoriesAgree ==
    \A u \in Accounts :
        LET all == DOMAIN UserTransaction(u, "all")
            in  == DOMAIN UserTransaction(u, "in")
            out == DOMAIN UserTransaction(u, "out")
            Shown(type) == DOMAIN UserHistory(u, type, First, Last)
        IN  /\ all = Mine(u, DOMAIN ledger \ Of({"sot"}))
            /\ in \cup out = all /\ in \cap out = {}
            /\ Number(in \cap Of({"recharge"})) = Number(out \cap Of({"topup"}))
            /\ GetUserDetails(u) =>
                /\ Shown("any") = all \ Of({"recharge"})
                /\ Shown("any") \ Shown("reward") = out
                /\ out = UNION {Shown(type) : type \in {"survey", "purchase", "recharge"}}

\* The admins' list of purchases is longer than the list of bought items unless
\* there was only one purchase.
PurchasesListed ==
    \A u \in Accounts :
        LET bought == Mine(u, Of({"purchase"}))
            items  == SumOf([b \in bought |-> ledger[b] * b.items])
        IN  Purchases(u) = items <=> Number(bought) <= 1

\* Months of whole SoM and the total of some rows, but for the rounding of each
\* month and of the total.
Near(months, graph, total, outside) ==
    LET error == Unit * SumOf(graph) - Unit * total + Total(outside)
        units == Unit * (Cardinality(months) + 1)
    IN  -units <= 2 * error /\ 2 * error <= units

\* The graphs of SoM and of payments over some months are the rows of these, and
\* over all months the totals beside them.  Recharges are rounded in every month
\* and in the total, so that they only nearly add up; rewards are whole.
GraphsAddUp ==
    \A from, to \in Months :
        from <= to =>
            LET som == SomGraph(from, to)
                outside == {b \in DOMAIN ledger : b.date.month \notin from..to}
            IN  /\ Unit * SumOf([m \in from..to |-> som[m].rewarded])
                    = Unit * TotalRewardSom - Total(outside \cap Of({"reward"}))
                /\ Near(from..to, [m \in from..to |-> som[m].purchased],
                        TotalPurchasedSom, outside \cap Of({"recharge"}))
                /\ PaymentGraph(from, to)[to].total
                    = CumulativePayment - Total(outside \cap Of(Payments))

\* The cumulative graph lags behind what was paid by the end of a month, by what
\* was paid from the 28th on and by no more but for its rounding, and never falls -
\* unless somebody was paid for a survey.
CumulativeLags ==
    Of({"backward"}) = {} =>
        \A from, to \in Months : from <= to =>
            LET graph == CumulativeGraph(from, to)
            IN  \A m \in from..to :
                    /\ 2 * Unit * graph[m] <= 2 * Total(Before(100 * (m + 1), Of(Payments))) + Unit
                    /\ 2 * Unit * graph[m] >= 2 * Total(Before(100 * m + 28, Of(Payments))) - Unit
                    /\ m > from => graph[m - 1] <= graph[m]

\* The SOTs of the graph are those of the total but for the last day, whatever the
\* range; and the range never hides a month in between.
SotsAddUp ==
    \A from, to \in Date : At(from) <= At(to) =>
        LET graph == SotGraph(from, to)
        IN  /\ graph[to.month] = Number(Before(At(to), Of({"sot"})))
            /\ from.month + 1 .. to.month \subseteq DOMAIN graph
            /\ DOMAIN graph \subseteq from.month .. to.month

\* Every member is in the graph once, and out of it once after a withdrawal, never
\* before the month of joining.
MembersAddUp ==
    LET last == Len(Lengths)
    IN  /\ SumOf(MemberShips(1, last)) = Cardinality(Joined)
        /\ SumOf(Withdrawals(1, last)) = Cardinality({u \in Joined : members[u].expiry # 0})
        /\ \A m \in 1..last : SumOf(Withdrawals(1, m)) <= SumOf(MemberShips(1, m))

ReportsSound ==
    /\ ReportsTypeOK /\ HistoriesAgree /\ PurchasesListed
    /\ GraphsAddUp /\ CumulativeLags /\ SotsAddUp /\ MembersAddUp
=============================================================================
