----------------------------- MODULE WalletLedger -----------------------------
(***************************************************************************)
(* The wallets and everything that moves SoM: survey payments, checkouts,  *)
(* recharges through Toss, streak and profile bonuses, survey rewards and  *)
(* the cron that expires rewards.                                          *)
(*                                                                         *)
(* Every operation reads the wallet rows first, through the connection     *)
(* pool and without a lock, and later saves absolute values computed from  *)
(* what it read.  TypeORM's save selects the row again and updates only    *)
(* the columns that differ from it; Postgres holds the row lock from the   *)
(* UPDATE to the commit.  Every amount is one SoM.                         *)
(*                                                                         *)
(* A trigger refreshes a view after every insert of a payment or a reward, *)
(* and the refresh locks the view to the commit as well: payments and      *)
(* recharges, which insert first, run one after another, and who inserts a *)
(* reward last waits for them with wallets locked.                         *)
(***************************************************************************)
EXTENDS Integers, FiniteSets

CONSTANTS
    Accounts,       \* the users; each has one wallet
    Admin,          \* the user whose wallet receives the survey payments
    Handlers,       \* operations that may run at the same time
    Nobody,         \* holds no lock
    MaxOps          \* bound on the operations ever started

ASSUME AdminAssumption    == Admin \in Accounts
ASSUME NobodyAssumption   == Nobody \notin Handlers
ASSUME HandlersAssumption == IsFiniteSet(Handlers) /\ Handlers # {}

VARIABLES
    wallet,         \* committed rows of users_wallets
    writer,         \* who holds the row lock of each wallet
    op,             \* the running operations
    paid,           \* Payment rows of type SURVEY, per payer
    fees,           \* Payment rows of type SURVEY, of all payers
    purchased,      \* Payment rows of type PURCHASE, per payer
    recharged,      \* WalletRecharge rows
    rewarded,       \* Reward rows whose amount was credited to the wallet
    granted,        \* Reward rows an admin entered by hand
    lapsed,         \* expiries applied
    charged,        \* payments Toss has confirmed
    overtaken,      \* wallets with a committed write that replaced values it
                    \* had not read
    started         \* operations started

ledger == <<paid, fees, purchased, recharged, rewarded, granted, lapsed>>
vars == <<wallet, writer, op, ledger, charged, overtaken, started>>

-----------------------------------------------------------------------------
(* Types                                                                   *)

Row      == [balance : Int, received : Int, sent : Int, expired : Int]
EmptyRow == [balance |-> 0, received |-> 0, sent |-> 0, expired |-> 0]
Idle     == [pc |-> "idle"]

\* A transaction: what it read of each wallet, the wallet it is saving and on
\* which side, those it will save next, the row its save selected, the rows it
\* wrote, and those of them whose replaced values it had not read.
Txn == [pc : {"reading", "saving", "selected", "charging", "closing"},
        kind : {"survey", "checkout", "recharge", "bonus", "reward"},
        user : Accounts, amount : {0, 1}, group : SUBSET Accounts,
        side : {"debit", "credit"}, saving : Accounts, todo : SUBSET Accounts,
        seen : [Accounts -> Row], base : Row, mine : [Accounts -> Row],
        wrote : SUBSET Accounts, stale : SUBSET Accounts]

\* A run of the expiry cron: rewards still to expire, and the wallets it read.
Sweep == [pc : {"sweeping"}, due : [Accounts -> Nat], seen : [Accounts -> Row]]

TypeOK ==
    /\ wallet \in [Accounts -> Row]
    /\ writer \in [Accounts -> Handlers \cup {Nobody}]
    /\ op \in [Handlers -> Txn \cup Sweep \cup {Idle}]
    /\ paid \in [Accounts -> Nat]
    /\ fees \in Nat
    /\ purchased \in [Accounts -> Nat]
    /\ recharged \in [Accounts -> Nat]
    /\ rewarded \in [Accounts -> Nat]
    /\ granted \in [Accounts -> Nat]
    /\ lapsed \in [Accounts -> Nat]
    /\ charged \in [Accounts -> Nat]
    /\ overtaken \subseteq Accounts
    /\ started \in Nat

NoRows == [u \in Accounts |-> 0]

Init ==
    /\ wallet = [u \in Accounts |-> EmptyRow]
    /\ writer = [u \in Accounts |-> Nobody]
    /\ op = [h \in Handlers |-> Idle]
    /\ paid = NoRows
    /\ fees = 0
    /\ purchased = NoRows
    /\ recharged = NoRows
    /\ rewarded = NoRows
    /\ granted = NoRows
    /\ lapsed = NoRows
    /\ charged = NoRows
    /\ overtaken = {}
    /\ started = 0

-----------------------------------------------------------------------------
(* The view of payments and rewards                                        *)

InTxn(h) == op[h] # Idle /\ op[h].pc # "sweeping"

Paying(t) == t.kind \in {"survey", "checkout"}

\* The transaction is about to insert its payment, or its rewards.
InsertsPayment(t) ==
    IF Paying(t) THEN t.pc = "reading" /\ t.side = "debit"
    ELSE t.kind = "recharge" /\ t.pc = "saving"
InsertsReward(t) ==
    t.pc = "closing" /\ t.kind \in {"bonus", "reward"} /\ t.amount > 0

\* The refresh after the insert of a payment locks the view to the end.
HoldsView(h) ==
    InTxn(h) /\ op[h].kind \notin {"bonus", "reward"} /\ ~InsertsPayment(op[h])

ViewFree(h) == \A g \in Handlers \ {h} : ~HoldsView(g)

-----------------------------------------------------------------------------
(* Starting an operation                                                   *)

NewTxn(pc, k, u, a, side, first, rest) ==
    [pc |-> pc, kind |-> k, user |-> u, amount |-> a, group |-> {first} \cup rest,
     side |-> side, saving |-> first, todo |-> rest, seen |-> wallet,
     base |-> wallet[first], mine |-> wallet, wrote |-> {}, stale |-> {}]

Begin(h, t) ==
    /\ op[h] = Idle
    /\ started < MaxOps
    /\ started' = started + 1
    /\ op' = [op EXCEPT ![h] = t]
    /\ UNCHANGED <<wallet, writer, ledger, charged, overtaken>>

\* Mutant: the balance is not compared with the price.
StartPaymentUnchecked(h, u) ==
    \/ Begin(h, NewTxn("reading", "checkout", u, 1, "debit", u, {}))
    \/ Begin(h, NewTxn("reading", "survey", u, 1, "debit", u, {Admin}))

\* checkout and makeSurveyPayment compare the price with the wallet the request
\* was authenticated with; the transaction reads the wallet again.
StartPayment(h, u) ==
    /\ wallet[u].balance >= 1
    /\ \/ Begin(h, NewTxn("reading", "checkout", u, 1, "debit", u, {}))
       \/ Begin(h, NewTxn("reading", "survey", u, 1, "debit", u, {Admin}))

\* makeRecharge, the attendance and participation streak (which saves the wallet
\* although most days bring no reward) and the profile reward go on with the
\* user they were given.
StartRecharge(h, u) == Begin(h, NewTxn("saving", "recharge", u, 1, "credit", u, {}))
StartBonus(h, u, a) == Begin(h, NewTxn("saving", "bonus", u, a, "credit", u, {}))

\* rewardDistribution reads the wallets with the participants.
StartReward(h, u, W) == Begin(h, NewTxn("saving", "reward", u, 1, "credit", u, W \ {u}))

\* saveReward of the admins inserts a Reward row and leaves the wallet alone.
GrantReward(u) ==
    /\ started < MaxOps
    /\ \A h \in Handlers : ~HoldsView(h)
    /\ started' = started + 1
    /\ granted' = [granted EXCEPT ![u] = @ + 1]
    /\ UNCHANGED <<wallet, writer, op, paid, fees, purchased, recharged, rewarded,
                   lapsed, charged, overtaken>>

-----------------------------------------------------------------------------
(* Saving a wallet                                                         *)

\* The row as the transaction of h sees it: its own write, or the last commit.
Visible(h, u) == IF u \in op[h].wrote THEN op[h].mine[u] ELSE wallet[u]

\* deductPaymentFromUserWallet and surveyPaymentToAdminWallet read the user again,
\* outside their transaction: even its own writes are not visible there.  The
\* payment is inserted before.
ReadWallet(h) ==
    LET u == op[h].saving IN
    /\ op[h].pc = "reading"
    /\ InsertsPayment(op[h]) => ViewFree(h)
    /\ op' = [op EXCEPT ![h].seen[u] = wallet[u], ![h].pc = "saving"]
    /\ UNCHANGED <<wallet, writer, ledger, charged, overtaken, started>>

\* The SELECT of save; a recharge has inserted its payment before.
SelectRow(h) ==
    /\ op[h].pc = "saving"
    /\ InsertsPayment(op[h]) => ViewFree(h)
    /\ op' = [op EXCEPT ![h].base = Visible(h, op[h].saving), ![h].pc = "selected"]
    /\ UNCHANGED <<wallet, writer, ledger, charged, overtaken, started>>

\* Mutant: the debit leaves totalSent alone.
DraftWithoutSent(t) ==
    LET r == t.seen[t.saving] IN
    IF t.side = "debit" THEN [r EXCEPT !.balance = @ - t.amount]
    ELSE [r EXCEPT !.balance = @ + t.amount, !.received = @ + t.amount]

\* The entity being saved: what was read, plus or minus the amount.
Draft(t) ==
    LET r == t.seen[t.saving] IN
    IF t.side = "debit" THEN [r EXCEPT !.balance = @ - t.amount, !.sent = @ + t.amount]
    ELSE [r EXCEPT !.balance = @ + t.amount, !.received = @ + t.amount]

\* The UPDATE writes the columns in which the entity differs from the selected row.
Updated(t, current) ==
    [c \in DOMAIN current |-> IF Draft(t)[c] # t.base[c] THEN Draft(t)[c] ELSE current[c]]

\* Mutant: the recharge commits before Toss confirms it.
NextTurnUncharged(t, v) ==
    IF t.todo # {}
    THEN [t EXCEPT !.todo = @ \ {v}, !.saving = v, !.side = "credit",
                   !.pc = IF t.kind = "survey" THEN "reading" ELSE "saving"]
    ELSE [t EXCEPT !.pc = "closing"]

\* After a save: the next wallet, the call to Toss, or the commit.
NextTurn(t, v) ==
    IF t.todo # {}
    THEN [t EXCEPT !.todo = @ \ {v}, !.saving = v, !.side = "credit",
                   !.pc = IF t.kind = "survey" THEN "reading" ELSE "saving"]
    ELSE [t EXCEPT !.pc = IF t.kind = "recharge" THEN "charging" ELSE "closing"]

\* What the transaction replaces unread when it saves u: a row that was not the
\* one it had read, be it at the SELECT or at the UPDATE.
Overtaking(h, changes) ==
    LET t == op[h] IN
    {u \in {t.saving} : t.base # t.seen[u] \/ (changes /\ Visible(h, u) # t.seen[u])}

\* The UPDATE of save, which waits for the lock.  Nothing is sent when no column
\* differs: a credit of just what another one has added meanwhile vanishes here.
UpdateRow(h) ==
    LET t == op[h]
        u == t.saving
        changes == Draft(t) # t.base
        read == [t EXCEPT !.stale = @ \cup Overtaking(h, changes)]
        saved == IF changes
                 THEN [read EXCEPT !.mine[u] = Updated(t, Visible(h, u)), !.wrote = @ \cup {u}]
                 ELSE read
    IN
    /\ op[h].pc = "selected"
    /\ changes => writer[u] \in {h, Nobody}
    /\ writer' = IF changes THEN [writer EXCEPT ![u] = h] ELSE writer
    /\ \E v \in IF t.todo = {} THEN {u} ELSE t.todo :
          op' = [op EXCEPT ![h] = NextTurn(saved, v)]
    /\ UNCHANGED <<wallet, ledger, charged, overtaken, started>>

\* initRechargePayment confirms the payment with Toss inside the transaction.
ChargeToss(h) ==
    /\ op[h].pc = "charging"
    /\ charged' = [charged EXCEPT ![op[h].user] = @ + 1]
    /\ op' = [op EXCEPT ![h].pc = "closing"]
    /\ UNCHANGED <<wallet, writer, ledger, overtaken, started>>

-----------------------------------------------------------------------------
(* Ending a transaction                                                    *)

Count(rows, W, n) == [u \in Accounts |-> rows[u] + IF u \in W THEN n ELSE 0]
If(b) == IF b THEN 1 ELSE 0

Unlocked(h) == [u \in Accounts |-> IF writer[u] = h THEN Nobody ELSE writer[u]]

\* The wallets and the rows of the ledger become visible together.  Rewards are
\* inserted last, so whoever got the view for them commits.
Commit(h) ==
    LET t == op[h] IN
    /\ t.pc = "closing"
    /\ InsertsReward(t) => ViewFree(h)
    /\ wallet' = [u \in Accounts |-> IF u \in t.wrote THEN t.mine[u] ELSE wallet[u]]
    /\ paid' = Count(paid, {t.user}, If(t.kind = "survey"))
    /\ fees' = fees + If(t.kind = "survey")
    /\ purchased' = Count(purchased, {t.user}, If(t.kind = "checkout"))
    /\ recharged' = Count(recharged, {t.user}, If(t.kind = "recharge"))
    /\ rewarded' = Count(rewarded, t.group, If(t.kind \in {"bonus", "reward"}) * t.amount)
    /\ overtaken' = overtaken \cup t.stale
    /\ writer' = Unlocked(h)
    /\ op' = [op EXCEPT ![h] = Idle]
    /\ UNCHANGED <<granted, lapsed, charged, started>>

\* Mutant: the connection goes back to the pool without a rollback.
AbortKeepingLocks(h) ==
    /\ InTxn(h)
    /\ op' = [op EXCEPT ![h] = Idle]
    /\ UNCHANGED <<wallet, writer, ledger, charged, overtaken, started>>

\* Any step may fail, and a crash ends every operation this way.
Abort(h) ==
    /\ InTxn(h)
    /\ writer' = Unlocked(h)
    /\ op' = [op EXCEPT ![h] = Idle]
    /\ UNCHANGED <<wallet, ledger, charged, overtaken, started>>

\* Transactions that wait for each other's row locks or for the view; Postgres
\* aborts one of them.
WaitsFor(h, g) ==
    \/ /\ op[h].pc = "selected"
       /\ Draft(op[h]) # op[h].base
       /\ writer[op[h].saving] = g
    \/ /\ InTxn(h)
       /\ InsertsPayment(op[h]) \/ InsertsReward(op[h])
       /\ HoldsView(g)

Deadlocked(h) ==
    \E S \in SUBSET Handlers :
        h \in S /\ \A x \in S : \E g \in S \ {x} : WaitsFor(x, g)

-----------------------------------------------------------------------------
(* The expiry cron                                                         *)

\* rewardExpiryJob reads every reward past its date with its wallet.  Nothing
\* marks a reward as expired, so the next run finds it again.
StartSweep(h) ==
    LET due == [u \in Accounts |-> rewarded[u] + granted[u]] IN
    /\ \E u \in Accounts : due[u] > 0
    /\ Begin(h, [pc |-> "sweeping", due |-> due, seen |-> wallet])

\* One UPDATE per reward, each a transaction of its own, of two columns.
ExpireReward(h, u) ==
    LET r == op[h].seen[u] IN
    /\ op[h].pc = "sweeping"
    /\ op[h].due[u] > 0
    /\ writer[u] = Nobody
    /\ wallet' = [wallet EXCEPT ![u].balance = r.balance - 1, ![u].expired = r.expired + 1]
    /\ lapsed' = [lapsed EXCEPT ![u] = @ + 1]
    /\ overtaken' = IF r = wallet[u] THEN overtaken ELSE overtaken \cup {u}
    /\ op' = [op EXCEPT ![h].due[u] = @ - 1]
    /\ UNCHANGED <<writer, paid, fees, purchased, recharged, rewarded, granted, charged,
                   started>>

\* The run is over, or the process died in the middle of it.
EndSweep(h) ==
    /\ op[h].pc = "sweeping"
    /\ op' = [op EXCEPT ![h] = Idle]
    /\ UNCHANGED <<wallet, writer, ledger, charged, overtaken, started>>

-----------------------------------------------------------------------------
(* Specification                                                           *)

Start(h) ==
    \E u \in Accounts :
        \/ StartPayment(h, u)
        \/ StartRecharge(h, u)
        \/ \E a \in {0, 1} : StartBonus(h, u, a)
        \/ \E W \in SUBSET Accounts : StartReward(h, u, W)

Step(h) == ReadWallet(h) \/ SelectRow(h) \/ UpdateRow(h) \/ ChargeToss(h) \/ Commit(h)

Cron(h) == StartSweep(h) \/ EndSweep(h) \/ \E u \in Accounts : ExpireReward(h, u)

Next ==
    \/ \E h \in Handlers : Start(h) \/ Step(h) \/ Abort(h) \/ Cron(h)
    \/ \E u \in Accounts : GrantReward(u)

Spec == Init /\ [][Next]_vars

\* A transaction that can go on does, and Postgres breaks deadlocks.
Fairness ==
    /\ \A h \in Handlers : WF_vars(Step(h))
    /\ WF_vars(\E h \in Handlers : Deadlocked(h) /\ Abort(h))

FairSpec == Spec /\ Fairness

-----------------------------------------------------------------------------
(* Properties                                                              *)

\* What the ledger says a wallet must hold.
Income(u) == recharged[u] + rewarded[u] + IF u = Admin THEN fees ELSE 0
Spent(u)  == paid[u] + purchased[u]
Expected(u) == [balance |-> Income(u) - Spent(u) - lapsed[u], received |-> Income(u),
                sent |-> Spent(u), expired |-> lapsed[u]]

\* Without locks and with absolute writes, the only way for a wallet to disagree
\* with its Payment, Reward and WalletRecharge rows is a write that replaced
\* values it had not read: failures, deadlocks and interleavings alone never do.
LedgerExact == \A u \in Accounts \ overtaken : wallet[u] = Expected(u)

\* Paying with the authenticated balance can overdraw a wallet, but by no more
\* than the payments that ran at the same time.
OverdraftBounded ==
    \A u \in Accounts \ overtaken :
        lapsed[u] = 0 => wallet[u].balance > -Cardinality(Handlers)

\* No recharge is credited that Toss has not confirmed.
RechargesAreCharged == \A u \in Accounts : recharged[u] <= charged[u]

\* What a transaction wrote is protected by its lock until it ends.
WritesAreLocked ==
    \A h \in Handlers : InTxn(h) => \A u \in op[h].wrote : writer[u] = h

\* What the saves of a transaction have done to the wallet of u so far.
Debited(t, u) == If(Paying(t) /\ u = t.user /\ (t.side = "credit" \/ t.pc = "closing"))
Credited(t, u) ==
    IF t.kind = "survey" THEN If(u = Admin /\ t.pc = "closing")
    ELSE t.amount * If(/\ ~Paying(t)
                       /\ u \in t.group \ t.todo
                       /\ u = t.saving => t.pc \in {"charging", "closing"})

After(t, u) ==
    [balance  |-> wallet[u].balance + Credited(t, u) - Debited(t, u),
     received |-> wallet[u].received + Credited(t, u),
     sent     |-> wallet[u].sent + Debited(t, u),
     expired  |-> wallet[u].expired]

\* The shape of each kind of transaction: whom it saves in which order.
TxnShape ==
    \A h \in Handlers : InTxn(h) =>
        LET t == op[h] IN
        /\ t.kind # "bonus" => t.amount = 1
        /\ t.pc = "charging" => t.kind = "recharge"
        /\ t.pc \in {"charging", "closing"} => t.todo = {}
        /\ t.kind \in {"checkout", "recharge", "bonus"} =>
             t.todo = {} /\ t.saving = t.user /\ t.group = {t.user}
        /\ t.kind = "survey" =>
             /\ t.side = "debit" => t.saving = t.user /\ t.todo = {Admin} /\ t.pc # "closing"
             /\ t.side = "credit" => t.saving = Admin /\ t.todo = {}
        /\ t.kind = "reward" => t.todo \subseteq t.group /\ t.saving \in t.group \ t.todo
        /\ t.kind # "survey" => t.side = IF t.kind = "checkout" THEN "debit" ELSE "credit"

\* Inside a transaction too, a wallet it did not overtake is the committed row
\* plus what the transaction saved.
TxnExact ==
    \A h \in Handlers : InTxn(h) =>
        \A u \in Accounts \ op[h].stale : Visible(h, u) = After(op[h], u)

\* The inductive invariant behind LedgerExact.
LedgerInv == LedgerExact /\ TxnExact /\ TxnShape /\ WritesAreLocked

\* The payments in progress already count against the bound on the overdraft.
InFlight(u) == {h \in Handlers : InTxn(h) /\ Paying(op[h]) /\ op[h].user = u}

OverdraftInv ==
    \A u \in Accounts \ overtaken :
        lapsed[u] = 0 =>
            wallet[u].balance - Cardinality(InFlight(u)) > -Cardinality(Handlers)

\* Every lock is released: transactions that save several wallets in opposite
\* orders, or save a wallet and then want the view that a payment which wants the
\* wallet has locked, do not block each other for good.
LocksReleased == \A u \in Accounts : writer[u] # Nobody ~> writer[u] = Nobody

-----------------------------------------------------------------------------
(* Statements of the repository that the code does not keep                *)

\* utils/enum: BALANCE_LESS_THAN_REQUIRED =
\* 'Your current balance is less than required'
NoOverdraft == \A u \in Accounts : lapsed[u] = 0 => wallet[u].balance >= 0
=============================================================================
