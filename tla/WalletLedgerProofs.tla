-------------------------- MODULE WalletLedgerProofs --------------------------
(***************************************************************************)
(* Theorems about WalletLedger, for every set of accounts and handlers and *)
(* every number of operations.                                             *)
(***************************************************************************)
EXTENDS WalletLedger, FiniteSetTheorems, TLAPS

-----------------------------------------------------------------------------
(* Type correctness                                                        *)

\* Empty wallets and no operation have the declared types.
LEMMA InitTypeOK == Init => TypeOK
  BY DEF Init, TypeOK, Row, EmptyRow, NoRows, Idle

\* Only transactions have these program counters, and only a sweep has its own.
LEMMA TxnOf ==
  ASSUME TypeOK, NEW h \in Handlers
  PROVE  /\ InTxn(h) <=> op[h] \in Txn
         /\ op[h].pc \in {"reading", "saving", "selected", "charging", "closing"}
              => op[h] \in Txn
         /\ op[h].pc = "sweeping" => op[h] \in Sweep
  BY DEF TypeOK, InTxn, Txn, Sweep, Idle

\* A new transaction.
LEMMA NewTxnType ==
  ASSUME TypeOK, NEW pc \in {"reading", "saving"},
         NEW k \in {"survey", "checkout", "recharge", "bonus", "reward"},
         NEW u \in Accounts, NEW a \in {0, 1}, NEW side \in {"debit", "credit"},
         NEW first \in Accounts, NEW rest \in SUBSET Accounts
  PROVE  NewTxn(pc, k, u, a, side, first, rest) \in Txn
  BY DEF TypeOK, NewTxn, Txn

\* Starting an operation keeps the types.
LEMMA BeginTypeOK ==
  ASSUME TypeOK, NEW h \in Handlers, NEW t \in Txn \cup Sweep, Begin(h, t)
  PROVE  TypeOK'
  BY DEF TypeOK, Begin, ledger

\* Changing two columns of a row.
LEMMA RowUpdates ==
  ASSUME NEW r \in Row, NEW x \in Int, NEW y \in Int
  PROVE  /\ [r EXCEPT !.balance = x, !.sent = y] \in Row
         /\ [r EXCEPT !.balance = x, !.received = y] \in Row
         /\ [r EXCEPT !.balance = x, !.expired = y] \in Row
  BY DEF Row

\* The entity that is saved is a wallet row, and so is the updated row.
LEMMA DraftType ==
  ASSUME NEW t \in Txn, NEW r \in Row
  PROVE  Draft(t) \in Row /\ Updated(t, r) \in Row
<1>1. t.seen[t.saving] \in Row /\ t.amount \in Int /\ t.base \in Row
  BY DEF Txn
<1>2. Draft(t) \in Row
  <2> DEFINE r0 == t.seen[t.saving]
  <2>1. /\ r0.balance - t.amount \in Int /\ r0.sent + t.amount \in Int
        /\ r0.balance + t.amount \in Int /\ r0.received + t.amount \in Int
    BY <1>1 DEF Row
  <2> QED BY <1>1, <2>1, RowUpdates DEF Draft
<1>3. Updated(t, r) =
                       [balance |-> IF Draft(t).balance # t.base.balance
                                   THEN Draft(t).balance ELSE r.balance,
                       received |-> IF Draft(t).received # t.base.received
                                    THEN Draft(t).received ELSE r.received,
                       sent |-> IF Draft(t).sent # t.base.sent
                                THEN Draft(t).sent ELSE r.sent,
                       expired |-> IF Draft(t).expired # t.base.expired
                                   THEN Draft(t).expired ELSE r.expired]
  BY DEF Updated, Row
<1> QED BY <1>1, <1>2, <1>3 DEF Row

\* The visible row of a transaction.
LEMMA VisibleType ==
  ASSUME TypeOK, NEW h \in Handlers, op[h] \in Txn, NEW u \in Accounts
  PROVE  Visible(h, u) \in Row
<1>1. wallet[u] \in Row /\ op[h].mine[u] \in Row
  BY DEF TypeOK, Txn
<1> QED BY <1>1 DEF Visible

\* The steps of a transaction keep it one.
LEMMA TxnPc ==
  ASSUME NEW t \in Txn,
         NEW pc \in {"reading", "saving", "selected", "charging", "closing"}
  PROVE  [t EXCEPT !.pc = pc] \in Txn
  BY DEF Txn

LEMMA TxnStale ==
  ASSUME NEW t \in Txn, NEW S \in SUBSET Accounts
  PROVE  [t EXCEPT !.stale = S] \in Txn
  BY DEF Txn

LEMMA TxnNext ==
  ASSUME NEW t \in Txn, NEW u \in Accounts, NEW S \in SUBSET Accounts,
         NEW pc \in {"reading", "saving", "selected", "charging", "closing"}
  PROVE  [t EXCEPT !.todo = S, !.saving = u, !.side = "credit", !.pc = pc] \in Txn
  BY DEF Txn

LEMMA TxnRows ==
  ASSUME NEW t \in Txn, NEW u \in Accounts, NEW r \in Row
  PROVE  /\ [t EXCEPT !.seen[u] = r, !.pc = "saving"] \in Txn
         /\ [t EXCEPT !.base = r, !.pc = "selected"] \in Txn
         /\ \A S \in SUBSET Accounts : [t EXCEPT !.mine[u] = r, !.wrote = S] \in Txn
  BY DEF Txn

\* The transaction after a save.
LEMMA NextTurnType ==
  ASSUME NEW t \in Txn, NEW v \in Accounts
  PROVE  NextTurn(t, v) \in Txn
<1>1. t.todo \ {v} \in SUBSET Accounts
  BY DEF Txn
<1> DEFINE next == IF t.kind = "survey" THEN "reading" ELSE "saving"
           last == IF t.kind = "recharge" THEN "charging" ELSE "closing"
<1>2. [t EXCEPT !.todo = t.todo \ {v}, !.saving = v, !.side = "credit", !.pc = next] \in Txn
  <2>1. next \in {"reading", "saving", "selected", "charging", "closing"}
    OBVIOUS
  <2> HIDE DEF next
  <2> QED BY <1>1, <2>1, TxnNext
<1>3. [t EXCEPT !.pc = last] \in Txn
  <2>1. last \in {"reading", "saving", "selected", "charging", "closing"}
    OBVIOUS
  <2> HIDE DEF last
  <2> QED BY <2>1, TxnPc
<1> QED BY <1>2, <1>3 DEF NextTurn

\* What UpdateRow makes of a transaction.
Read(h, changes) == [op[h] EXCEPT !.stale = @ \cup Overtaking(h, changes)]
Saved(h, changes) ==
    IF changes
    THEN [Read(h, changes) EXCEPT
            !.mine[op[h].saving] = Updated(op[h], Visible(h, op[h].saving)),
            !.wrote = @ \cup {op[h].saving}]
    ELSE Read(h, changes)

LEMMA UpdateRowSays ==
  ASSUME NEW h \in Handlers, UpdateRow(h)
  PROVE  LET t == op[h]
             changes == Draft(t) # t.base
         IN /\ t.pc = "selected"
            /\ changes => writer[t.saving] \in {h, Nobody}
            /\ writer' = IF changes THEN [writer EXCEPT ![t.saving] = h] ELSE writer
            /\ \E v \in IF t.todo = {} THEN {t.saving} ELSE t.todo :
                  op' = [op EXCEPT ![h] = NextTurn(Saved(h, changes), v)]
            /\ UNCHANGED <<wallet, ledger, charged, overtaken, started>>
  BY DEF UpdateRow, Saved, Read

\* A saved transaction is a transaction.
LEMMA SavedType ==
  ASSUME TypeOK, NEW h \in Handlers, op[h] \in Txn, NEW changes \in BOOLEAN
  PROVE  Saved(h, changes) \in Txn /\ Read(h, changes) \in Txn
<1>1. op[h].saving \in Accounts /\ op[h].stale \in SUBSET Accounts /\ op[h].wrote \in SUBSET Accounts
  BY DEF Txn
<1>2. Overtaking(h, changes) \in SUBSET Accounts
  BY <1>1 DEF Overtaking
<1>3. Read(h, changes) \in Txn
  <2>1. op[h].stale \cup Overtaking(h, changes) \in SUBSET Accounts
    BY <1>1, <1>2
  <2> QED BY <2>1, TxnStale DEF Read
<1>4. Read(h, changes).wrote \cup {op[h].saving} \in SUBSET Accounts
  BY <1>1, <1>3 DEF Txn
<1>5. Updated(op[h], Visible(h, op[h].saving)) \in Row
  BY <1>1, VisibleType, DraftType
<1> QED BY <1>1, <1>3, <1>4, <1>5, TxnRows DEF Saved

-----------------------------------------------------------------------------
(* Steps keep the types                                                    *)

\* Replacing the operation of one handler and nothing else that is typed.
LEMMA OpTypeOK ==
  ASSUME TypeOK, NEW h \in Handlers, NEW t \in Txn \cup Sweep \cup {Idle},
         op' = [op EXCEPT ![h] = t],
         UNCHANGED <<wallet, ledger, charged, overtaken, started>>,
         writer' \in [Accounts -> Handlers \cup {Nobody}]
  PROVE  TypeOK'
  BY DEF TypeOK, ledger

\* The starts.
LEMMA StartTypeOK ==
  ASSUME TypeOK, NEW h \in Handlers, Start(h)
  PROVE  TypeOK'
<1>1. PICK u \in Accounts : \/ StartPayment(h, u)
                           \/ StartRecharge(h, u)
                           \/ \E a \in {0, 1} : StartBonus(h, u, a)
                           \/ \E W \in SUBSET Accounts : StartReward(h, u, W)
  BY DEF Start
<1>2. CASE StartPayment(h, u)
  <2>1. /\ NewTxn("reading", "checkout", u, 1, "debit", u, {}) \in Txn
        /\ NewTxn("reading", "survey", u, 1, "debit", u, {Admin}) \in Txn
    BY NewTxnType, AdminAssumption
  <2> QED BY <1>2, <2>1, BeginTypeOK DEF StartPayment
<1>3. CASE StartRecharge(h, u)
  <2>1. NewTxn("saving", "recharge", u, 1, "credit", u, {}) \in Txn
    BY NewTxnType
  <2> QED BY <1>3, <2>1, BeginTypeOK DEF StartRecharge
<1>4. ASSUME NEW a \in {0, 1}, StartBonus(h, u, a)
      PROVE  TypeOK'
  <2>1. NewTxn("saving", "bonus", u, a, "credit", u, {}) \in Txn
    BY NewTxnType
  <2> QED BY <1>4, <2>1, BeginTypeOK DEF StartBonus
<1>5. ASSUME NEW W \in SUBSET Accounts, StartReward(h, u, W)
      PROVE  TypeOK'
  <2>1. NewTxn("saving", "reward", u, 1, "credit", u, W \ {u}) \in Txn
    BY NewTxnType
  <2> QED BY <1>5, <2>1, BeginTypeOK DEF StartReward
<1> QED BY <1>1, <1>2, <1>3, <1>4, <1>5

\* The steps of a transaction before its commit.
LEMMA SaveTypeOK ==
  ASSUME TypeOK, NEW h \in Handlers,
         ReadWallet(h) \/ SelectRow(h) \/ UpdateRow(h)
  PROVE  TypeOK'
<1>1. op[h] \in Txn /\ op[h].saving \in Accounts
  <2>1. op[h] \in Txn
    BY TxnOf DEF ReadWallet, SelectRow, UpdateRow
  <2> QED BY <2>1 DEF Txn
<1>2. CASE ReadWallet(h)
  <2>1. [op[h] EXCEPT !.seen[op[h].saving] = wallet[op[h].saving], !.pc = "saving"] \in Txn
    BY <1>1, TxnRows DEF TypeOK
  <2>2. op' = [op EXCEPT ![h] = [op[h] EXCEPT !.seen[op[h].saving] = wallet[op[h].saving],
                                              !.pc = "saving"]]
    BY <1>2 DEF ReadWallet
  <2> QED BY <1>2, <2>1, <2>2, OpTypeOK DEF ReadWallet, TypeOK
<1>3. CASE SelectRow(h)
  <2>1. [op[h] EXCEPT !.base = Visible(h, op[h].saving), !.pc = "selected"] \in Txn
    BY <1>1, TxnRows, VisibleType
  <2>2. op' = [op EXCEPT ![h] = [op[h] EXCEPT !.base = Visible(h, op[h].saving),
                                              !.pc = "selected"]]
    BY <1>3 DEF SelectRow
  <2> QED BY <1>3, <2>1, <2>2, OpTypeOK DEF SelectRow, TypeOK
<1>4. CASE UpdateRow(h)
  <2> DEFINE changes == Draft(op[h]) # op[h].base
  <2>1. PICK v \in (IF op[h].todo = {} THEN {op[h].saving} ELSE op[h].todo) :
           op' = [op EXCEPT ![h] = NextTurn(Saved(h, changes), v)]
    BY <1>4, UpdateRowSays
  <2>2. v \in Accounts
    BY <1>1 DEF Txn
  <2>3. NextTurn(Saved(h, changes), v) \in Txn
    <3> HIDE DEF changes
    <3>1. Saved(h, changes) \in Txn
      <4>1. changes \in BOOLEAN
        BY DEF changes
      <4> QED BY <1>1, <4>1, SavedType
    <3> QED BY <2>2, <3>1, NextTurnType
  <2>4. writer' \in [Accounts -> Handlers \cup {Nobody}]
    BY <1>1, <1>4, UpdateRowSays DEF TypeOK
  <2>5. UNCHANGED <<wallet, ledger, charged, overtaken, started>>
    BY <1>4 DEF UpdateRow
  <2> QED BY <2>1, <2>3, <2>4, <2>5, OpTypeOK
<1> QED BY <1>2, <1>3, <1>4

\* Toss, commits and aborts.
LEMMA EndTypeOK ==
  ASSUME TypeOK, NEW h \in Handlers, ChargeToss(h) \/ Commit(h) \/ Abort(h)
  PROVE  TypeOK'
<1>1. op[h] \in Txn /\ op[h].user \in Accounts
  <2>1. op[h] \in Txn
    BY TxnOf DEF ChargeToss, Commit, Abort
  <2> QED BY <2>1 DEF Txn
<1>2. Unlocked(h) \in [Accounts -> Handlers \cup {Nobody}]
  BY DEF Unlocked, TypeOK
<1>3. CASE ChargeToss(h)
  <2>1. [op[h] EXCEPT !.pc = "closing"] \in Txn
    BY <1>1, TxnPc
  <2>2. op' = [op EXCEPT ![h] = [op[h] EXCEPT !.pc = "closing"]]
    BY <1>3 DEF ChargeToss
  <2> QED BY <1>1, <1>3, <2>1, <2>2 DEF ChargeToss, TypeOK, ledger
<1>4. CASE Commit(h)
  <2>1. op' \in [Handlers -> Txn \cup Sweep \cup {Idle}]
    BY <1>4 DEF Commit, TypeOK
  <2>2. wallet' \in [Accounts -> Row]
    <3>1. \A u \in Accounts : op[h].mine[u] \in Row
      BY <1>1 DEF Txn
    <3> QED BY <1>4, <3>1 DEF Commit, TypeOK
  <2>3. op[h].amount \in Nat /\ op[h].stale \subseteq Accounts
    BY <1>1 DEF Txn
  <2>6. /\ paid' \in [Accounts -> Nat]
        /\ purchased' \in [Accounts -> Nat]
        /\ recharged' \in [Accounts -> Nat]
        /\ rewarded' \in [Accounts -> Nat]
    <3>1. \A n \in Nat, W \in SUBSET Accounts, rows \in [Accounts -> Nat] :
             Count(rows, W, n) \in [Accounts -> Nat]
      BY DEF Count
    <3>2. op[h].group \in SUBSET Accounts /\ {op[h].user} \in SUBSET Accounts
      BY <1>1 DEF Txn
    <3>3. /\ If(op[h].kind = "survey") \in Nat
          /\ If(op[h].kind = "checkout") \in Nat
          /\ If(op[h].kind = "recharge") \in Nat
      BY DEF If
    <3>4. If(op[h].kind \in {"bonus", "reward"}) * op[h].amount \in Nat
      BY <2>3 DEF If
    <3>5. /\ paid' = Count(paid, {op[h].user}, If(op[h].kind = "survey"))
          /\ purchased' = Count(purchased, {op[h].user}, If(op[h].kind = "checkout"))
          /\ recharged' = Count(recharged, {op[h].user}, If(op[h].kind = "recharge"))
          /\ rewarded' = Count(rewarded, op[h].group,
                               If(op[h].kind \in {"bonus", "reward"}) * op[h].amount)
      BY <1>4 DEF Commit
    <3> QED BY <3>1, <3>2, <3>3, <3>4, <3>5 DEF TypeOK
  <2>7. fees' \in Nat
    <3>1. If(op[h].kind = "survey") \in Nat
      BY DEF If
    <3> QED BY <1>4, <3>1 DEF Commit, TypeOK
  <2>8. /\ granted' \in [Accounts -> Nat] /\ lapsed' \in [Accounts -> Nat]
        /\ charged' \in [Accounts -> Nat] /\ started' \in Nat
        /\ overtaken' \subseteq Accounts
        /\ writer' \in [Accounts -> Handlers \cup {Nobody}]
    BY <1>2, <1>4, <2>3 DEF Commit, TypeOK
  <2> QED BY <2>1, <2>2, <2>6, <2>7, <2>8 DEF TypeOK
<1>5. CASE Abort(h)
  BY <1>2, <1>5, OpTypeOK DEF Abort
<1> QED BY <1>3, <1>4, <1>5

\* The cron and the admin's grant.
LEMMA CronTypeOK ==
  ASSUME TypeOK, (\E h \in Handlers : Cron(h)) \/ (\E u \in Accounts : GrantReward(u))
  PROVE  TypeOK'
<1>1. ASSUME NEW u \in Accounts, GrantReward(u)
      PROVE  TypeOK'
  BY <1>1 DEF GrantReward, TypeOK
<1>2. ASSUME NEW h \in Handlers, StartSweep(h)
      PROVE  TypeOK'
  <2>1. [pc |-> "sweeping", due |-> [u \in Accounts |-> rewarded[u] + granted[u]],
         seen |-> wallet] \in Sweep
    BY DEF TypeOK, Sweep
  <2> QED BY <1>2, <2>1, BeginTypeOK DEF StartSweep
<1>3. ASSUME NEW h \in Handlers, NEW u \in Accounts, ExpireReward(h, u)
      PROVE  TypeOK'
  <2>1. op[h] \in Sweep
    BY <1>3, TxnOf DEF ExpireReward
  <2>2. op[h].seen[u] \in Row /\ op[h].due[u] \in Nat
    BY <2>1 DEF Sweep
  <2>3. [op[h] EXCEPT !.due[u] = @ - 1] \in Sweep
    BY <1>3, <2>1, <2>2 DEF ExpireReward, Sweep
  <2>4. wallet' \in [Accounts -> Row]
    <3>1. [wallet[u] EXCEPT !.balance = op[h].seen[u].balance - 1,
                            !.expired = op[h].seen[u].expired + 1] \in Row
      <4>1. op[h].seen[u].balance - 1 \in Int /\ op[h].seen[u].expired + 1 \in Int
        BY <2>2 DEF Row
      <4> QED BY <4>1, RowUpdates DEF TypeOK
    <3>2. wallet' = [wallet EXCEPT ![u] = [wallet[u] EXCEPT
                       !.balance = op[h].seen[u].balance - 1,
                       !.expired = op[h].seen[u].expired + 1]]
      BY <1>3 DEF ExpireReward
    <3> QED BY <3>1, <3>2 DEF TypeOK
  <2>5. op' = [op EXCEPT ![h] = [op[h] EXCEPT !.due[u] = @ - 1]]
    BY <1>3 DEF ExpireReward
  <2>6. op' \in [Handlers -> Txn \cup Sweep \cup {Idle}]
    BY <2>3, <2>5 DEF TypeOK
  <2> QED BY <1>3, <2>4, <2>6 DEF ExpireReward, TypeOK
<1>4. ASSUME NEW h \in Handlers, EndSweep(h)
      PROVE  TypeOK'
  BY <1>4, OpTypeOK DEF EndSweep, TypeOK
<1> QED BY <1>1, <1>2, <1>3, <1>4 DEF Cron

\* Every step keeps the types.
LEMMA NextTypeOK == TypeOK /\ [Next]_vars => TypeOK'
<1> SUFFICES ASSUME TypeOK, [Next]_vars PROVE TypeOK'
  OBVIOUS
<1>1. CASE Next
  BY <1>1, StartTypeOK, SaveTypeOK, EndTypeOK, CronTypeOK DEF Next, Step
<1>2. CASE UNCHANGED vars
  BY <1>2 DEF TypeOK, vars, ledger
<1> QED BY <1>1, <1>2

\* Wallets, locks, transactions and the ledger are always well typed.
THEOREM WalletTypeCorrect == Spec => []TypeOK
  BY InitTypeOK, NextTypeOK, PTL DEF Spec

-----------------------------------------------------------------------------
(* The ledger                                                              *)

\* Rows with the same columns are the same row.
LEMMA RowEqual ==
  ASSUME NEW r \in Row, NEW q \in Row,
         r.balance = q.balance, r.received = q.received, r.sent = q.sent,
         r.expired = q.expired
  PROVE  r = q
  BY DEF Row

\* A row with an effect added to its columns.
LEMMA AfterSays ==
  ASSUME TypeOK, NEW t \in Txn, NEW u \in Accounts
  PROVE  /\ After(t, u) \in Row
         /\ Credited(t, u) \in Int /\ Debited(t, u) \in Int
         /\ After(t, u).balance = wallet[u].balance + Credited(t, u) - Debited(t, u)
         /\ After(t, u).received = wallet[u].received + Credited(t, u)
         /\ After(t, u).sent = wallet[u].sent + Debited(t, u)
         /\ After(t, u).expired = wallet[u].expired
<1>1. Credited(t, u) \in Int /\ Debited(t, u) \in Int
  <2>1. t.amount \in Int
    BY DEF Txn
  <2> QED BY <2>1 DEF Credited, Debited, If
<1>2. /\ wallet[u].balance \in Int /\ wallet[u].received \in Int
      /\ wallet[u].sent \in Int /\ wallet[u].expired \in Int
  BY DEF TypeOK, Row
<1> QED BY <1>1, <1>2 DEF After, Row

\* The fields of the entity that is saved.
LEMMA DraftSays ==
  ASSUME NEW t \in Txn
  PROVE  LET r == t.seen[t.saving] IN
         /\ r \in Row
         /\ t.amount \in {0, 1}
         /\ Draft(t) \in Row
         /\ Draft(t).expired = r.expired
         /\ t.side = "debit" =>
              /\ Draft(t).balance = r.balance - t.amount
              /\ Draft(t).received = r.received
              /\ Draft(t).sent = r.sent + t.amount
         /\ t.side # "debit" =>
              /\ Draft(t).balance = r.balance + t.amount
              /\ Draft(t).received = r.received + t.amount
              /\ Draft(t).sent = r.sent
<1> DEFINE r == t.seen[t.saving]
<1>1. r \in Row /\ r.balance \in Int /\ r.received \in Int /\ r.sent \in Int
      /\ t.amount \in {0, 1}
  BY DEF Txn, Row
<1>2. \A x, y \in Int :
        LET q == [r EXCEPT !.balance = x, !.sent = y]
            p == [r EXCEPT !.balance = x, !.received = y]
        IN  /\ q.balance = x /\ q.sent = y /\ q.received = r.received /\ q.expired = r.expired
            /\ p.balance = x /\ p.received = y /\ p.sent = r.sent /\ p.expired = r.expired
  BY <1>1 DEF Row
<1>3. /\ r.balance - t.amount \in Int /\ r.sent + t.amount \in Int
      /\ r.balance + t.amount \in Int /\ r.received + t.amount \in Int
  BY <1>1
<1>4. Draft(t) = IF t.side = "debit"
                 THEN [r EXCEPT !.balance = r.balance - t.amount, !.sent = r.sent + t.amount]
                 ELSE [r EXCEPT !.balance = r.balance + t.amount,
                                !.received = r.received + t.amount]
  BY DEF Draft
<1>5. Draft(t) \in Row
  BY <1>1, DraftType
<1> HIDE DEF r
<1>6. QED
  BY <1>1, <1>2, <1>3, <1>4, <1>5 DEF r

\* The fields of a transaction after a save.
LEMMA UpdateFields ==
  ASSUME TypeOK, NEW h \in Handlers, UpdateRow(h)
  PROVE  LET t == op[h]
             n == op'[h]
             changes == Draft(t) # t.base
         IN /\ t \in Txn /\ n \in Txn
            /\ t.pc = "selected"
            /\ n.kind = t.kind /\ n.user = t.user /\ n.amount = t.amount /\ n.group = t.group
            /\ t.todo = {} =>
                 /\ n.todo = {} /\ n.saving = t.saving /\ n.side = t.side
                 /\ n.pc = IF t.kind = "recharge" THEN "charging" ELSE "closing"
            /\ t.todo # {} =>
                 /\ n.saving \in t.todo /\ n.todo = t.todo \ {n.saving} /\ n.side = "credit"
                 /\ n.pc = IF t.kind = "survey" THEN "reading" ELSE "saving"
            /\ n.stale = t.stale \cup Overtaking(h, changes)
            /\ changes => /\ n.wrote = t.wrote \cup {t.saving}
                          /\ n.mine = [t.mine EXCEPT ![t.saving] = Updated(t, Visible(h, t.saving))]
            /\ ~changes => n.wrote = t.wrote /\ n.mine = t.mine
            /\ \A x \in Handlers \ {h} : op'[x] = op[x]
<1> DEFINE t == op[h]
           changes == Draft(t) # t.base
           m == Saved(h, changes)
<1>1. t \in Txn /\ t.pc = "selected"
  BY TxnOf DEF UpdateRow
<1>2. PICK v \in (IF t.todo = {} THEN {t.saving} ELSE t.todo) :
         op' = [op EXCEPT ![h] = NextTurn(m, v)]
  BY UpdateRowSays
<1>3. v \in Accounts
  BY <1>1, <1>2 DEF Txn
<1>4. op'[h] = NextTurn(m, v) /\ \A x \in Handlers \ {h} : op'[x] = op[x]
  BY <1>2 DEF TypeOK
<1>5. m \in Txn
  <2> HIDE DEF changes
  <2>1. changes \in BOOLEAN
    BY DEF changes
  <2> QED BY <1>1, <2>1, SavedType
<1>6. /\ m.kind = t.kind /\ m.user = t.user /\ m.amount = t.amount /\ m.group = t.group
      /\ m.todo = t.todo /\ m.saving = t.saving /\ m.side = t.side
      /\ m.stale = t.stale \cup Overtaking(h, changes)
      /\ changes => /\ m.wrote = t.wrote \cup {t.saving}
                    /\ m.mine = [t.mine EXCEPT ![t.saving] = Updated(t, Visible(h, t.saving))]
      /\ ~changes => m.wrote = t.wrote /\ m.mine = t.mine
  BY <1>1 DEF Saved, Read, Txn
<1> HIDE DEF m
<1>7. LET n == NextTurn(m, v) IN
      /\ n \in Txn
      /\ n.kind = m.kind /\ n.user = m.user /\ n.amount = m.amount /\ n.group = m.group
      /\ n.stale = m.stale /\ n.wrote = m.wrote /\ n.mine = m.mine
      /\ m.todo = {} =>
           /\ n.todo = m.todo /\ n.saving = m.saving /\ n.side = m.side
           /\ n.pc = IF m.kind = "recharge" THEN "charging" ELSE "closing"
      /\ m.todo # {} =>
           /\ n.todo = m.todo \ {v} /\ n.saving = v /\ n.side = "credit"
           /\ n.pc = IF m.kind = "survey" THEN "reading" ELSE "saving"
  <2>1. NextTurn(m, v) \in Txn
    BY <1>3, <1>5, NextTurnType
  <2> QED BY <1>5, <2>1 DEF NextTurn, Txn
<1> HIDE DEF changes
<1>8. QED
  BY <1>1, <1>2, <1>4, <1>6, <1>7 DEF changes

\* Starting an operation touches one handler only.
LEMMA BeginFields ==
  ASSUME TypeOK, NEW h \in Handlers, NEW t, Begin(h, t)
  PROVE  /\ op[h] = Idle /\ op'[h] = t
         /\ \A x \in Handlers \ {h} : op'[x] = op[x]
         /\ UNCHANGED <<wallet, writer, ledger, charged, overtaken>>
  BY DEF TypeOK, Begin

\* Every start is the start of a transaction of the right shape, with nothing
\* written yet and nothing saved.
LEMMA StartFields ==
  ASSUME TypeOK, NEW h \in Handlers, Start(h)
  PROVE  LET n == op'[h] IN
         /\ op[h] = Idle
         /\ n \in Txn
         /\ n.wrote = {} /\ n.pc \in {"reading", "saving"}
         /\ n.saving = n.user
         /\ n.group = {n.user} \cup n.todo
         /\ n.kind # "bonus" => n.amount = 1
         /\ n.kind \in {"checkout", "recharge", "bonus"} => n.todo = {}
         /\ n.kind = "survey" => n.todo = {Admin} /\ n.side = "debit"
         /\ n.kind = "reward" => n.user \notin n.todo
         /\ n.kind # "survey" => n.side = IF n.kind = "checkout" THEN "debit" ELSE "credit"
         /\ \A x \in Handlers \ {h} : op'[x] = op[x]
         /\ UNCHANGED <<wallet, writer, ledger, charged, overtaken>>
<1>1. PICK u \in Accounts : \/ StartPayment(h, u)
                           \/ StartRecharge(h, u)
                           \/ \E a \in {0, 1} : StartBonus(h, u, a)
                           \/ \E W \in SUBSET Accounts : StartReward(h, u, W)
  BY DEF Start
<1>2. CASE StartPayment(h, u)
  <2>1. /\ NewTxn("reading", "checkout", u, 1, "debit", u, {}) \in Txn
        /\ NewTxn("reading", "survey", u, 1, "debit", u, {Admin}) \in Txn
    BY NewTxnType, AdminAssumption
  <2> QED BY <1>2, <2>1, BeginFields DEF StartPayment, NewTxn
<1>3. CASE StartRecharge(h, u)
  <2>1. NewTxn("saving", "recharge", u, 1, "credit", u, {}) \in Txn
    BY NewTxnType
  <2> QED BY <1>3, <2>1, BeginFields DEF StartRecharge, NewTxn
<1>4. CASE \E a \in {0, 1} : StartBonus(h, u, a)
  <2>1. PICK a \in {0, 1} : StartBonus(h, u, a)
    BY <1>4
  <2>2. NewTxn("saving", "bonus", u, a, "credit", u, {}) \in Txn
    BY NewTxnType
  <2> QED BY <2>1, <2>2, BeginFields DEF StartBonus, NewTxn
<1>5. CASE \E W \in SUBSET Accounts : StartReward(h, u, W)
  <2>1. PICK W \in SUBSET Accounts : StartReward(h, u, W)
    BY <1>5
  <2>2. NewTxn("saving", "reward", u, 1, "credit", u, W \ {u}) \in Txn
    BY NewTxnType
  <2> QED BY <2>1, <2>2, BeginFields DEF StartReward, NewTxn
<1> QED BY <1>1, <1>2, <1>3, <1>4, <1>5

\* Reading and selecting change one field and the program counter.
LEMMA ReadFields ==
  ASSUME TypeOK, NEW h \in Handlers, ReadWallet(h) \/ SelectRow(h) \/ ChargeToss(h)
  PROVE  LET t == op[h]
             n == op'[h]
         IN /\ t \in Txn
            /\ n.kind = t.kind /\ n.user = t.user /\ n.amount = t.amount /\ n.group = t.group
            /\ n.side = t.side /\ n.saving = t.saving /\ n.todo = t.todo
            /\ n.wrote = t.wrote /\ n.mine = t.mine /\ n.stale = t.stale
            /\ \/ t.pc = "reading" /\ n.pc = "saving"
               \/ t.pc = "saving" /\ n.pc = "selected"
               \/ t.pc = "charging" /\ n.pc = "closing"
            /\ \A x \in Handlers \ {h} : op'[x] = op[x]
            /\ UNCHANGED <<wallet, writer, ledger, overtaken>>
<1>1. op[h] \in Txn
  BY TxnOf DEF ReadWallet, SelectRow, ChargeToss
<1>2. CASE ReadWallet(h)
  BY <1>1, <1>2 DEF ReadWallet, TypeOK, Txn
<1>3. CASE SelectRow(h)
  BY <1>1, <1>3 DEF SelectRow, TypeOK, Txn
<1>4. CASE ChargeToss(h)
  BY <1>1, <1>4 DEF ChargeToss, TypeOK, Txn
<1> QED BY <1>2, <1>3, <1>4

\* A handler that is idle, or sweeps, runs no transaction.
LEMMA NoTxn ==
  ASSUME NEW h \in Handlers, op[h] = Idle \/ op[h].pc = "sweeping"
  PROVE  ~InTxn(h)
  BY DEF InTxn

\* Ends and sweeps: the handler runs no transaction afterwards.
LEMMA EndFields ==
  ASSUME TypeOK, NEW h \in Handlers, Commit(h) \/ Abort(h) \/ Cron(h)
  PROVE  /\ ~InTxn(h)'
         /\ \A x \in Handlers \ {h} : op'[x] = op[x]
<1>1. CASE Commit(h)
  BY <1>1 DEF Commit, TypeOK, InTxn
<1>2. CASE Abort(h)
  BY <1>2 DEF Abort, TypeOK, InTxn
<1>3. CASE StartSweep(h)
  BY <1>3 DEF StartSweep, Begin, TypeOK, InTxn
<1>4. CASE EndSweep(h)
  BY <1>4 DEF EndSweep, TypeOK, InTxn
<1>5. ASSUME NEW u \in Accounts, ExpireReward(h, u)
      PROVE  ~InTxn(h)' /\ \A x \in Handlers \ {h} : op'[x] = op[x]
  <2>1. op[h] \in Sweep
    BY <1>5, TxnOf DEF ExpireReward
  <2> QED BY <1>5, <2>1 DEF ExpireReward, TypeOK, InTxn, Sweep
<1> QED BY <1>1, <1>2, <1>3, <1>4, <1>5 DEF Cron

-----------------------------------------------------------------------------
(* Locks                                                                   *)

\* A lock is taken only when it is free and given back only by its holder.
LEMMA NextLocked == TypeOK /\ WritesAreLocked /\ [Next]_vars => WritesAreLocked'
<1> SUFFICES ASSUME TypeOK, WritesAreLocked, [Next]_vars PROVE WritesAreLocked'
  OBVIOUS
<1> SUFFICES ASSUME NEW x \in Handlers, InTxn(x)', NEW u \in Accounts, u \in op'[x].wrote
             PROVE  writer'[u] = x
  <2>1. TypeOK'
    BY NextTypeOK
  <2>2. \A x \in Handlers : InTxn(x)' => op'[x].wrote \subseteq Accounts
    BY <2>1 DEF TypeOK, InTxn, Txn, Sweep
  <2> QED BY <2>2 DEF WritesAreLocked
<1>1. InTxn(x) /\ u \in op[x].wrote => writer[u] = x /\ x # Nobody
  BY NobodyAssumption DEF WritesAreLocked
<1>2. CASE UNCHANGED vars
  BY <1>1, <1>2 DEF vars, InTxn
<1>3. ASSUME NEW w \in Accounts, GrantReward(w)
      PROVE  writer'[u] = x
  BY <1>1, <1>3 DEF GrantReward, InTxn
<1>4. ASSUME NEW h \in Handlers, Start(h)
      PROVE  writer'[u] = x
  <2>1. x # h
    BY <1>4, StartFields
  <2> QED BY <1>1, <1>4, <2>1, StartFields DEF InTxn
<1>5. ASSUME NEW h \in Handlers, ReadWallet(h) \/ SelectRow(h) \/ ChargeToss(h)
      PROVE  writer'[u] = x
  <2>1. CASE x = h
    BY <1>1, <1>5, <2>1, ReadFields, TxnOf
  <2>2. CASE x # h
    BY <1>1, <1>5, <2>2, ReadFields DEF InTxn
  <2> QED BY <2>1, <2>2
<1>6. ASSUME NEW h \in Handlers, UpdateRow(h)
      PROVE  writer'[u] = x
  <2> DEFINE changes == Draft(op[h]) # op[h].base
  <2>1. /\ changes => writer[op[h].saving] \in {h, Nobody}
        /\ writer' = IF changes THEN [writer EXCEPT ![op[h].saving] = h] ELSE writer
    BY <1>6 DEF UpdateRow
  <2>2. op[h] \in Txn /\ op[h].saving \in Accounts
    BY <1>6, UpdateFields DEF Txn
  <2>3. CASE x = h
    <3>1. u \in op[h].wrote \/ (changes /\ u = op[h].saving)
      <4>1. /\ changes => op'[h].wrote = op[h].wrote \cup {op[h].saving}
            /\ ~changes => op'[h].wrote = op[h].wrote
        BY <1>6, UpdateFields
      <4> HIDE DEF changes
      <4> QED BY <2>3, <4>1
    <3>2. u \in op[h].wrote => writer[u] = h
      BY <1>1, <2>2, <2>3, TxnOf
    <3> HIDE DEF changes
    <3> QED BY <2>1, <2>2, <2>3, <3>1, <3>2 DEF TypeOK
  <2>4. CASE x # h
    <3>1. writer[u] = x /\ x # Nobody
      BY <1>1, <1>6, <2>4, UpdateFields DEF InTxn
    <3> HIDE DEF changes
    <3> QED BY <2>1, <2>4, <3>1 DEF TypeOK
  <2> QED BY <2>3, <2>4
<1>7. ASSUME NEW h \in Handlers, Commit(h) \/ Abort(h)
      PROVE  writer'[u] = x
  <2>1. x # h
    BY <1>7, EndFields
  <2>2. writer[u] = x
    BY <1>1, <1>7, <2>1, EndFields DEF InTxn
  <2>3. writer' = Unlocked(h)
    BY <1>7 DEF Commit, Abort
  <2> QED BY <2>1, <2>2, <2>3 DEF Unlocked
<1>8. ASSUME NEW h \in Handlers, Cron(h)
      PROVE  writer'[u] = x
  <2>1. x # h
    BY <1>8, EndFields
  <2>2. writer[u] = x
    BY <1>1, <1>8, <2>1, EndFields DEF InTxn
  <2>3. writer' = writer
    BY <1>8 DEF Cron, StartSweep, Begin, EndSweep, ExpireReward
  <2> QED BY <2>2, <2>3
<1> QED BY <1>2, <1>3, <1>4, <1>5, <1>6, <1>7, <1>8 DEF Next, Step

\* Nothing is written at the start.
LEMMA InitLocked == Init => WritesAreLocked
  BY DEF Init, WritesAreLocked, InTxn

\* What a transaction wrote stays locked until it ends.
THEOREM WalletWritesAreLocked == Spec => []WritesAreLocked
  BY InitTypeOK, InitLocked, NextTypeOK, NextLocked, PTL DEF Spec

-----------------------------------------------------------------------------
(* The shape of transactions                                               *)

\* No operation runs at the start.
LEMMA InitShape == Init => TxnShape
  BY DEF Init, TxnShape, InTxn

\* Every transaction goes through its wallets in the order of its kind.
LEMMA NextShape == TypeOK /\ TxnShape /\ [Next]_vars => TxnShape'
<1> SUFFICES ASSUME TypeOK, TxnShape, [Next]_vars PROVE TxnShape'
  OBVIOUS
<1> DEFINE Shape(t) ==
        /\ t.kind # "bonus" => t.amount = 1
        /\ t.pc = "charging" => t.kind = "recharge"
        /\ t.pc \in {"charging", "closing"} => t.todo = {}
        /\ t.kind \in {"checkout", "recharge", "bonus"} =>
             t.todo = {} /\ t.saving = t.user /\ t.group = {t.user}
        /\ t.kind = "survey" =>
             /\ t.side = "debit" => t.saving = t.user /\ t.todo = {Admin} /\ t.pc # "closing"
             /\ t.side = "credit" => t.saving = Admin /\ t.todo = {}
        /\ t.kind = "reward" => t.todo \subseteq t.group /\ t.saving \in t.group \ t.todo
        /\ t.kind # "survey" => t.side = IF t.kind = "checkout" THEN "debit" ELSE "credit"
<1>1. \A x \in Handlers : InTxn(x) => Shape(op[x])
  BY DEF TxnShape
<1> SUFFICES ASSUME NEW x \in Handlers, InTxn(x)'
             PROVE  Shape(op'[x])
  BY DEF TxnShape
<1>2. op'[x] = op[x] => Shape(op'[x])
  <2>1. op'[x] = op[x] => InTxn(x)
    BY DEF InTxn
  <2> HIDE DEF Shape
  <2> QED BY <1>1, <2>1
<1>3. ASSUME NEW h \in Handlers, Start(h), x = h
      PROVE  Shape(op'[x])
  BY <1>3, StartFields
<1>4. ASSUME NEW h \in Handlers, ReadWallet(h) \/ SelectRow(h) \/ ChargeToss(h), x = h
      PROVE  Shape(op'[x])
  BY <1>1, <1>4, ReadFields, TxnOf
<1>5. ASSUME NEW h \in Handlers, UpdateRow(h), x = h
      PROVE  Shape(op'[x])
  <2>1. op[h] \in Txn /\ Shape(op[h])
    BY <1>1, <1>5, UpdateFields, TxnOf
  <2>2. op[h].side \in {"debit", "credit"} /\ op[h].todo \subseteq Accounts
        /\ op[h].kind \in {"survey", "checkout", "recharge", "bonus", "reward"}
    BY <2>1 DEF Txn
  <2>3. CASE op[h].todo = {}
    BY <1>5, <2>1, <2>2, <2>3, UpdateFields
  <2>4. CASE op[h].todo # {}
    <3>1. op[h].kind \in {"survey", "reward"}
      BY <2>1, <2>2, <2>4
    <3>2. CASE op[h].kind = "survey"
      BY <1>5, <2>1, <2>2, <2>4, <3>2, UpdateFields
    <3>3. CASE op[h].kind = "reward"
      BY <1>5, <2>1, <2>2, <2>4, <3>3, UpdateFields
    <3> QED BY <3>1, <3>2, <3>3
  <2> QED BY <2>3, <2>4
<1>6. \A h \in Handlers : Commit(h) \/ Abort(h) \/ Cron(h) => x # h /\ op'[x] = op[x]
  BY EndFields
<1>7. (\E u \in Accounts : GrantReward(u)) \/ UNCHANGED vars => op'[x] = op[x]
  BY DEF GrantReward, vars
<1>8. \A h \in Handlers : x # h /\ (Start(h) \/ Step(h)) => op'[x] = op[x]
  <2> SUFFICES ASSUME NEW h \in Handlers, x # h, Start(h) \/ Step(h)
               PROVE  op'[x] = op[x]
    OBVIOUS
  <2>1. CASE Start(h)
    BY <2>1, StartFields
  <2>2. CASE ReadWallet(h) \/ SelectRow(h) \/ ChargeToss(h)
    BY <2>2, ReadFields
  <2>3. CASE UpdateRow(h)
    BY <2>3, UpdateFields
  <2>4. CASE Commit(h)
    BY <2>4, EndFields
  <2> QED BY <2>1, <2>2, <2>3, <2>4 DEF Step
<1> HIDE DEF Shape
<1> QED BY <1>2, <1>3, <1>4, <1>5, <1>6, <1>7, <1>8 DEF Next, Step

-----------------------------------------------------------------------------
(* Exactness                                                               *)

\* A transaction whose row of u is visible to it and not overtaken sees the
\* commit plus its own effects.
ExactAt(h, u) == Visible(h, u) = After(op[h], u)

\* What one save adds to the effects: the amount, on the wallet that is saved.
LEMMA SaveEffects ==
  ASSUME TypeOK, TxnShape, NEW h \in Handlers, UpdateRow(h), NEW u \in Accounts
  PROVE  LET t == op[h]
             n == op'[h]
         IN /\ u # t.saving =>
                 /\ Credited(n, u) = Credited(t, u)
                 /\ Debited(n, u) = Debited(t, u)
            /\ u = t.saving =>
                 /\ Credited(n, u) = Credited(t, u) + IF t.side = "debit" THEN 0 ELSE t.amount
                 /\ Debited(n, u) = Debited(t, u) + IF t.side = "debit" THEN t.amount ELSE 0
<1> DEFINE t == op[h]
           n == op'[h]
<1>1. /\ t \in Txn /\ InTxn(h) /\ t.pc = "selected"
      /\ n.kind = t.kind /\ n.user = t.user /\ n.amount = t.amount /\ n.group = t.group
      /\ t.todo = {} =>
           /\ n.todo = {} /\ n.saving = t.saving /\ n.side = t.side
           /\ n.pc = IF t.kind = "recharge" THEN "charging" ELSE "closing"
      /\ t.todo # {} =>
           /\ n.saving \in t.todo /\ n.todo = t.todo \ {n.saving} /\ n.side = "credit"
           /\ n.pc = IF t.kind = "survey" THEN "reading" ELSE "saving"
  BY UpdateFields, TxnOf
<1>2. /\ t.kind # "bonus" => t.amount = 1
      /\ t.kind \in {"checkout", "recharge", "bonus"} =>
           t.todo = {} /\ t.saving = t.user /\ t.group = {t.user}
      /\ t.kind = "survey" =>
           /\ t.side = "debit" => t.saving = t.user /\ t.todo = {Admin} /\ t.pc # "closing"
           /\ t.side = "credit" => t.saving = Admin /\ t.todo = {}
      /\ t.kind = "reward" => t.todo \subseteq t.group /\ t.saving \in t.group \ t.todo
      /\ t.kind # "survey" => t.side = IF t.kind = "checkout" THEN "debit" ELSE "credit"
  BY <1>1 DEF TxnShape
<1>3. /\ t.kind \in {"survey", "checkout", "recharge", "bonus", "reward"}
      /\ t.side \in {"debit", "credit"}
      /\ t.amount \in Int
  BY <1>1 DEF Txn
<1> HIDE DEF t, n
<1>4. CASE t.kind = "survey"
  <2>1. CASE t.side = "debit"
    BY <1>1, <1>2, <1>3, <1>4, <2>1 DEF Credited, Debited, Paying, If, t, n
  <2>2. CASE t.side = "credit"
    BY <1>1, <1>2, <1>3, <1>4, <2>2 DEF Credited, Debited, Paying, If, t, n
  <2> QED BY <1>3, <2>1, <2>2
<1>5. CASE t.kind = "checkout"
  <2>1. t.side = "debit"
    BY <1>2, <1>5
  <2> QED BY <1>1, <1>2, <1>3, <1>5, <2>1 DEF Credited, Debited, Paying, If, t, n
<1>6. CASE t.kind \in {"recharge", "bonus"}
  <2>1. t.side = "credit"
    BY <1>2, <1>6
  <2> QED BY <1>1, <1>2, <1>3, <1>6, <2>1 DEF Credited, Debited, Paying, If, t, n
<1>7. CASE t.kind = "reward"
  <2>1. t.side = "credit"
    BY <1>2, <1>7
  <2> QED BY <1>1, <1>2, <1>3, <1>7, <2>1 DEF Credited, Debited, Paying, If, t, n
<1> QED BY <1>3, <1>4, <1>5, <1>6, <1>7

\* A save that overtakes nothing makes the visible row the draft.
LEMMA SaveIsDraft ==
  ASSUME TypeOK, NEW h \in Handlers, UpdateRow(h),
         NEW u \in Accounts, u = op[h].saving, u \notin op'[h].stale
  PROVE  LET t == op[h]
         IN /\ u \notin t.stale
            /\ Visible(h, u)' = IF Draft(t) # t.base THEN Draft(t) ELSE Visible(h, u)
            /\ Draft(t) # t.base => Visible(h, u) = t.seen[u]
            /\ Draft(t) = t.base => t.amount = 0
<1> DEFINE t == op[h]
           changes == Draft(t) # t.base
<1>1. /\ t \in Txn /\ t.mine \in [Accounts -> Row]
      /\ op'[h].stale = t.stale \cup Overtaking(h, changes)
      /\ changes => /\ op'[h].wrote = t.wrote \cup {u}
                    /\ op'[h].mine = [t.mine EXCEPT ![u] = Updated(t, Visible(h, u))]
      /\ ~changes => op'[h].wrote = t.wrote /\ op'[h].mine = t.mine
      /\ wallet' = wallet
  <2>1. wallet' = wallet
    BY DEF UpdateRow
  <2> QED BY <2>1, UpdateFields DEF Txn
<1>2. t.base = t.seen[u] /\ (changes => Visible(h, u) = t.seen[u])
  BY <1>1 DEF Overtaking
<1>3. CASE changes
  <2>1. Draft(t) \in Row /\ Visible(h, u) \in Row /\ t.base = Visible(h, u)
    BY <1>1, <1>2, <1>3, DraftSays, VisibleType
  <2>2. Updated(t, Visible(h, u)) = Draft(t)
    <3>1. Updated(t, Visible(h, u)) = [c \in DOMAIN Visible(h, u) |-> Draft(t)[c]]
      BY <2>1 DEF Updated
    <3>2. DOMAIN Visible(h, u) = DOMAIN Draft(t)
      BY <2>1 DEF Row
    <3> QED BY <2>1, <3>1, <3>2 DEF Row
  <2>3. Visible(h, u)' = Updated(t, Visible(h, u))
    <3> HIDE DEF t, changes
    <3>1. op'[h].mine[u] = Updated(t, Visible(h, u)) /\ u \in op'[h].wrote
      BY <1>1, <1>3
    <3> QED BY <3>1 DEF Visible, t
  <2> QED BY <1>1, <1>2, <1>3, <2>2, <2>3
<1>4. CASE ~changes
  <2>1. t.amount = 0
    <3>1. Draft(t) = t.seen[u]
      BY <1>2, <1>4
    <3>2. t.seen[u].balance \in Int /\ t.amount \in {0, 1}
      BY <1>1 DEF Txn, Row
    <3> QED BY <1>1, <3>1, <3>2, DraftSays
  <2>2. Visible(h, u)' = Visible(h, u)
    BY <1>1, <1>4 DEF Visible
  <2> QED BY <1>1, <1>4, <2>1, <2>2
<1> QED BY <1>3, <1>4

\* Nothing changes for a transaction that runs beside the one that acts.
LEMMA OthersExact ==
  ASSUME TypeOK, TypeOK', TxnExact, NEW x \in Handlers, op'[x] = op[x], InTxn(x)',
         \A v \in op[x].wrote : wallet'[v] = wallet[v],
         NEW u \in Accounts, u \notin op'[x].stale
  PROVE  ExactAt(x, u)'
<1> DEFINE t == op[x]
<1>1. t \in Txn /\ InTxn(x)
  BY TxnOf DEF InTxn
<1>2. Visible(x, u) = After(t, u)
  BY <1>1 DEF TxnExact
<1>3. CASE u \in t.wrote
  <2>1. wallet'[u] = wallet[u]
    BY <1>3
  <2>2. Visible(x, u)' = Visible(x, u)
    BY <1>3 DEF Visible
  <2>3. After(t, u)' = After(t, u)
    BY <2>1 DEF After, Credited, Debited
  <2> QED BY <1>2, <2>2, <2>3 DEF ExactAt
<1>4. CASE u \notin t.wrote
  <2>1. wallet[u] = After(t, u)
    BY <1>2, <1>4 DEF Visible
  <2>2. /\ wallet[u].balance \in Int /\ wallet[u].received \in Int
        /\ wallet[u].sent \in Int
    BY DEF TypeOK, Row
  <2>3. Credited(t, u) = 0 /\ Debited(t, u) = 0
    BY <1>1, <2>1, <2>2, AfterSays
  <2>4. Credited(t, u)' = 0 /\ Debited(t, u)' = 0
    BY <2>3 DEF Credited, Debited
  <2>5. wallet'[u] \in Row /\ wallet'[u].balance \in Int /\ wallet'[u].received \in Int
        /\ wallet'[u].sent \in Int
    BY DEF TypeOK, Row
  <2>6. After(t, u)' = wallet'[u]
    BY <2>4, <2>5 DEF After, Row
  <2>7. Visible(x, u)' = wallet'[u]
    BY <1>4 DEF Visible
  <2> QED BY <2>6, <2>7 DEF ExactAt
<1> QED BY <1>3, <1>4

\* At the start no transaction runs and every column is zero.
LEMMA InitLedger == Init => LedgerInv
<1> SUFFICES ASSUME Init PROVE LedgerInv
  OBVIOUS
<1>1. TxnExact
  BY DEF Init, TxnExact, InTxn
<1>2. LedgerExact
  BY DEF Init, LedgerExact, Expected, Income, Spent, NoRows, EmptyRow
<1> QED BY <1>1, <1>2, InitLocked, InitShape DEF LedgerInv

\* What other transactions wrote does not change under them.
LEMMA CommittedUnderLock ==
  ASSUME TypeOK, WritesAreLocked, [Next]_vars,
         NEW x \in Handlers, InTxn(x), op'[x] = op[x],
         NEW v \in op[x].wrote
  PROVE  wallet'[v] = wallet[v]
<1>1. op[x] \in Txn /\ v \in Accounts /\ writer[v] = x /\ x # Nobody
  <2>1. op[x] \in Txn
    BY TxnOf
  <2> QED BY <2>1, NobodyAssumption DEF Txn, WritesAreLocked
<1>2. CASE UNCHANGED vars
  BY <1>2 DEF vars
<1>3. ASSUME NEW h \in Handlers, Commit(h)
      PROVE  wallet'[v] = wallet[v]
  <2>1. x # h
    <3>1. InTxn(x)'
      BY DEF InTxn
    <3> QED BY <1>3, <3>1, EndFields
  <2>2. InTxn(h)
    BY <1>3 DEF Commit, InTxn, Idle
  <2>3. v \notin op[h].wrote
    BY <1>1, <2>1, <2>2 DEF WritesAreLocked
  <2> QED BY <1>1, <1>3, <2>3 DEF Commit
<1>4. ASSUME NEW h \in Handlers, NEW u \in Accounts, ExpireReward(h, u)
      PROVE  wallet'[v] = wallet[v]
  <2>1. u # v
    BY <1>1, <1>4 DEF ExpireReward
  <2> QED BY <1>1, <1>4, <2>1 DEF ExpireReward, TypeOK
<1>5. ASSUME NEW h \in Handlers, StartSweep(h) \/ EndSweep(h) \/ Abort(h)
      PROVE  wallet'[v] = wallet[v]
  BY <1>5 DEF StartSweep, Begin, EndSweep, Abort
<1>6. ASSUME NEW h \in Handlers, Start(h)
      PROVE  wallet'[v] = wallet[v]
  BY <1>6, StartFields
<1>7. ASSUME NEW h \in Handlers,
             ReadWallet(h) \/ SelectRow(h) \/ ChargeToss(h) \/ UpdateRow(h)
      PROVE  wallet'[v] = wallet[v]
  BY <1>7 DEF ReadWallet, SelectRow, ChargeToss, UpdateRow
<1>8. ASSUME NEW u \in Accounts, GrantReward(u)
      PROVE  wallet'[v] = wallet[v]
  BY <1>8 DEF GrantReward
<1> QED BY <1>2, <1>3, <1>4, <1>5, <1>6, <1>7, <1>8 DEF Next, Step, Cron

\* Every step either leaves the transaction of a handler alone or is its own.
LEMMA OneAtATime ==
  ASSUME TypeOK, [Next]_vars, NEW x \in Handlers
  PROVE  \/ op'[x] = op[x]
         \/ Start(x)
         \/ ReadWallet(x) \/ SelectRow(x) \/ ChargeToss(x)
         \/ UpdateRow(x)
         \/ ~InTxn(x)'
<1>1. CASE UNCHANGED vars
  BY <1>1 DEF vars
<1>2. ASSUME NEW u \in Accounts, GrantReward(u)
      PROVE  op'[x] = op[x]
  BY <1>2 DEF GrantReward
<1>3. \A h \in Handlers : h # x /\ Start(h) => op'[x] = op[x]
  BY StartFields
<1>4. \A h \in Handlers : h # x /\ (ReadWallet(h) \/ SelectRow(h) \/ ChargeToss(h))
                            => op'[x] = op[x]
  BY ReadFields
<1>5. \A h \in Handlers : h # x /\ UpdateRow(h) => op'[x] = op[x]
  BY UpdateFields
<1>6. \A h \in Handlers : Commit(h) \/ Abort(h) \/ Cron(h)
                            => ~InTxn(h)' /\ (h # x => op'[x] = op[x])
  BY EndFields
<1> QED BY <1>1, <1>2, <1>3, <1>4, <1>5, <1>6 DEF Next, Step

\* Transactions stay exact: a save that overtakes nothing adds its amount.
LEMMA NextTxnExact == TypeOK /\ LedgerInv /\ [Next]_vars => TxnExact'
<1> SUFFICES ASSUME TypeOK, LedgerInv, [Next]_vars PROVE TxnExact'
  OBVIOUS
<1>1. TypeOK'
  BY NextTypeOK
<1> SUFFICES ASSUME NEW x \in Handlers, InTxn(x)',
                    NEW u \in Accounts, u \notin op'[x].stale
             PROVE  ExactAt(x, u)'
  BY DEF TxnExact, ExactAt
<1> DEFINE t == op[x]
           n == op'[x]
<1>2. CASE op'[x] = op[x]
  <2>1. InTxn(x)
    BY <1>2 DEF InTxn
  <2>2. \A v \in op[x].wrote : wallet'[v] = wallet[v]
    BY <1>2, <2>1, CommittedUnderLock DEF LedgerInv
  <2> QED BY <1>1, <1>2, <2>2, OthersExact DEF LedgerInv
<1>3. CASE Start(x)
  <2>1. /\ n \in Txn /\ n.wrote = {} /\ n.pc \in {"reading", "saving"}
        /\ n.saving = n.user /\ n.group = {n.user} \cup n.todo
        /\ n.kind = "survey" => n.side = "debit"
        /\ n.kind # "survey" => n.side = IF n.kind = "checkout" THEN "debit" ELSE "credit"
        /\ wallet' = wallet
    BY <1>3, StartFields
  <2>2. Visible(x, u)' = wallet[u]
    BY <2>1 DEF Visible
  <2>3. Debited(n, u) = 0
    BY <2>1 DEF Debited, Paying, If
  <2>4. Credited(n, u) = 0
    <3>1. n.amount \in Int
      BY <2>1 DEF Txn
    <3>2. n.kind = "survey" => Credited(n, u) = 0
      BY <2>1 DEF Credited, If
    <3>3. n.kind # "survey" => Credited(n, u) = 0
      <4>1. u \in n.group \ n.todo => u = n.saving
        BY <2>1
      <4>2. n.kind # "survey" => Credited(n, u) = n.amount * 0
        BY <2>1, <4>1 DEF Credited, If
      <4> QED BY <3>1, <4>2
    <3> QED BY <3>2, <3>3
  <2>5. /\ wallet[u] \in Row /\ wallet[u].balance \in Int /\ wallet[u].received \in Int
        /\ wallet[u].sent \in Int
    BY DEF TypeOK, Row
  <2>6. After(n, u) = wallet[u]
    BY <2>3, <2>4, <2>5 DEF After, Row
  <2>7. After(op[x], u)' = After(n, u)
    BY <2>1 DEF After, Credited, Debited
  <2> QED BY <2>2, <2>6, <2>7 DEF ExactAt
<1>4. CASE ReadWallet(x) \/ SelectRow(x) \/ ChargeToss(x)
  <2>1. /\ t \in Txn /\ InTxn(x)
        /\ n.kind = t.kind /\ n.user = t.user /\ n.amount = t.amount /\ n.group = t.group
        /\ n.side = t.side /\ n.saving = t.saving /\ n.todo = t.todo
        /\ n.wrote = t.wrote /\ n.mine = t.mine /\ n.stale = t.stale
        /\ \/ t.pc = "reading" /\ n.pc = "saving"
           \/ t.pc = "saving" /\ n.pc = "selected"
           \/ t.pc = "charging" /\ n.pc = "closing"
        /\ wallet' = wallet
    BY <1>4, ReadFields, TxnOf
  <2>2. t.pc = "charging" => t.kind = "recharge"
    BY <2>1 DEF LedgerInv, TxnShape
  <2>3. Visible(x, u)' = Visible(x, u)
    BY <2>1 DEF Visible
  <2>4. Credited(n, u) = Credited(t, u) /\ Debited(n, u) = Debited(t, u)
    <3> HIDE DEF t, n
    <3> QED BY <2>1, <2>2 DEF Credited, Debited, Paying, If
  <2>5. After(op[x], u)' = After(t, u)
    <3>1. After(op[x], u)' = After(n, u)
      BY <2>1 DEF After, Credited, Debited
    <3> QED BY <2>1, <2>4, <3>1 DEF After
  <2>6. Visible(x, u) = After(t, u)
    BY <2>1 DEF LedgerInv, TxnExact
  <2> QED BY <2>3, <2>5, <2>6 DEF ExactAt
<1>5. CASE UpdateRow(x)
  <2>1. /\ t \in Txn /\ InTxn(x) /\ TxnShape /\ wallet' = wallet
        /\ n.stale = t.stale \cup Overtaking(x, Draft(t) # t.base)
    BY <1>5, UpdateFields, TxnOf DEF LedgerInv, UpdateRow
  <2>2. Visible(x, u) = After(t, u)
    BY <2>1 DEF LedgerInv, TxnExact
  <2>3. After(op[x], u)' = After(n, u)
    BY <2>1 DEF After, Credited, Debited
  <2>4. CASE u # t.saving
    <3>1. Credited(n, u) = Credited(t, u) /\ Debited(n, u) = Debited(t, u)
      BY <1>5, <2>1, <2>4, SaveEffects
    <3>2. Visible(x, u)' = Visible(x, u)
      <4>1. \/ n.wrote = t.wrote \cup {t.saving} /\ \E r : n.mine = [t.mine EXCEPT ![t.saving] = r]
            \/ n.wrote = t.wrote /\ n.mine = t.mine
        BY <1>5, UpdateFields
      <4>2. t.mine \in [Accounts -> Row]
        BY <2>1 DEF Txn
      <4> QED BY <2>1, <2>4, <4>1, <4>2 DEF Visible
    <3>3. After(n, u) = After(t, u)
      BY <3>1 DEF After
    <3> QED BY <2>2, <2>3, <3>2, <3>3 DEF ExactAt
  <2>5. CASE u = t.saving
    <3> DEFINE d == Draft(t)
               s == t.seen[u]
    <3>1. /\ Credited(n, u) = Credited(t, u) + IF t.side = "debit" THEN 0 ELSE t.amount
          /\ Debited(n, u) = Debited(t, u) + IF t.side = "debit" THEN t.amount ELSE 0
      BY <1>5, <2>1, <2>5, SaveEffects
    <3>2. /\ Visible(x, u)' = IF d # t.base THEN d ELSE Visible(x, u)
          /\ d # t.base => Visible(x, u) = s
          /\ d = t.base => t.amount = 0
      BY <1>5, <2>5, SaveIsDraft
    <3>3. /\ Credited(t, u) \in Int /\ Debited(t, u) \in Int /\ t.amount \in {0, 1}
          /\ After(t, u).balance = wallet[u].balance + Credited(t, u) - Debited(t, u)
          /\ After(t, u).received = wallet[u].received + Credited(t, u)
          /\ After(t, u).sent = wallet[u].sent + Debited(t, u)
          /\ After(t, u).expired = wallet[u].expired
          /\ wallet[u].balance \in Int /\ wallet[u].received \in Int /\ wallet[u].sent \in Int
      <4>1. wallet[u].balance \in Int /\ wallet[u].received \in Int /\ wallet[u].sent \in Int
        BY DEF TypeOK, Row
      <4>2. t.amount \in {0, 1}
        BY <2>1 DEF Txn
      <4> QED BY <2>1, <4>1, <4>2, AfterSays
    <3>4. CASE d = t.base
      <4>1. t.amount = 0 /\ Visible(x, u)' = Visible(x, u)
        BY <3>2, <3>4
      <4>2. Credited(n, u) = Credited(t, u) /\ Debited(n, u) = Debited(t, u)
        BY <3>1, <3>3, <4>1
      <4>3. After(n, u) = After(t, u)
        BY <4>2 DEF After
      <4> QED BY <2>2, <2>3, <4>1, <4>3 DEF ExactAt
    <3>5. CASE d # t.base
      <4>1. Visible(x, u)' = d /\ After(t, u) = s
        BY <2>2, <3>2, <3>5
      <4>2. d \in Row /\ After(n, u) \in Row
        <5>1. n \in Txn /\ t \in Txn
          BY <1>5, UpdateFields
        <5> QED BY <5>1, AfterSays, DraftSays
      <4>3. /\ After(n, u).balance = wallet[u].balance + Credited(n, u) - Debited(n, u)
            /\ After(n, u).received = wallet[u].received + Credited(n, u)
            /\ After(n, u).sent = wallet[u].sent + Debited(n, u)
            /\ After(n, u).expired = wallet[u].expired
        BY DEF After
      <4>4. /\ d.expired = s.expired
            /\ t.side = "debit" => /\ d.balance = s.balance - t.amount
                                   /\ d.received = s.received
                                   /\ d.sent = s.sent + t.amount
            /\ t.side # "debit" => /\ d.balance = s.balance + t.amount
                                   /\ d.received = s.received + t.amount
                                   /\ d.sent = s.sent
        BY <2>1, <2>5, DraftSays
      <4> HIDE DEF d, s, t, n
      <4>5. /\ After(n, u).balance = d.balance /\ After(n, u).received = d.received
            /\ After(n, u).sent = d.sent /\ After(n, u).expired = d.expired
        <5>1. CASE t.side = "debit"
          BY <3>1, <3>3, <4>1, <4>3, <4>4, <5>1
        <5>2. CASE t.side # "debit"
          BY <3>1, <3>3, <4>1, <4>3, <4>4, <5>2
        <5> QED BY <5>1, <5>2
      <4>6. After(n, u) = d
        BY <4>2, <4>5, RowEqual
      <4> QED BY <2>3, <4>1, <4>6 DEF ExactAt
    <3> QED BY <3>4, <3>5
  <2> QED BY <2>4, <2>5
<1> QED BY <1>2, <1>3, <1>4, <1>5, OneAtATime

\* The ledger and the wallets change together, at a commit or an expiry.
LEMMA NextLedgerExact == TypeOK /\ LedgerInv /\ [Next]_vars => LedgerExact'
<1> SUFFICES ASSUME TypeOK, LedgerInv, [Next]_vars,
                    NEW u \in Accounts, u \notin overtaken'
             PROVE  (wallet[u] = Expected(u))'
  BY DEF LedgerExact
<1>1. u \notin overtaken => wallet[u] = Expected(u)
  BY DEF LedgerInv, LedgerExact
<1>2. ASSUME UNCHANGED <<wallet, paid, fees, purchased, recharged, rewarded, lapsed, overtaken>>
      PROVE  (wallet[u] = Expected(u))'
  BY <1>1, <1>2 DEF Expected, Income, Spent
<1>3. ASSUME NEW h \in Handlers, Commit(h)
      PROVE  (wallet[u] = Expected(u))'
  <2> DEFINE t == op[h]
  <2>1. t \in Txn /\ InTxn(h) /\ t.pc = "closing"
    BY <1>3, TxnOf DEF Commit
  <2>2. u \notin t.stale /\ u \notin overtaken
    BY <1>3 DEF Commit
  <2>3. wallet'[u] = Visible(h, u) /\ Visible(h, u) = After(t, u)
    BY <1>3, <2>1, <2>2 DEF Commit, Visible, LedgerInv, TxnExact
  <2>4. wallet[u] = Expected(u)
    BY <1>1, <2>2
  <2>5. /\ t.todo = {}
        /\ t.kind # "bonus" => t.amount = 1
        /\ t.kind \in {"checkout", "recharge", "bonus"} => t.group = {t.user}
        /\ t.kind = "survey" => t.side = "credit"
        /\ t.kind # "survey" => t.side = IF t.kind = "checkout" THEN "debit" ELSE "credit"
    BY <2>1 DEF LedgerInv, TxnShape, Txn
  <2>6. /\ t.kind \in {"survey", "checkout", "recharge", "bonus", "reward"}
        /\ t.amount \in {0, 1}
    BY <2>1 DEF Txn
  <2>7. /\ paid[u] \in Int /\ fees \in Int /\ purchased[u] \in Int /\ recharged[u] \in Int
        /\ rewarded[u] \in Int /\ lapsed[u] \in Int
    BY DEF TypeOK
  <2>8. /\ paid'[u] = paid[u] + If(t.kind = "survey" /\ u = t.user)
        /\ fees' = fees + If(t.kind = "survey")
        /\ purchased'[u] = purchased[u] + If(t.kind = "checkout" /\ u = t.user)
        /\ recharged'[u] = recharged[u] + If(t.kind = "recharge" /\ u = t.user)
        /\ rewarded'[u] = rewarded[u]
             + (IF t.kind \in {"bonus", "reward"} /\ u \in t.group THEN t.amount ELSE 0)
        /\ lapsed'[u] = lapsed[u]
    BY <1>3, <2>6, <2>7 DEF Commit, Count, If
  <2>9. /\ Debited(t, u) = If((t.kind = "survey" \/ t.kind = "checkout") /\ u = t.user)
        /\ Credited(t, u) = If(t.kind = "survey" /\ u = Admin) + If(t.kind = "recharge" /\ u = t.user)
             + (IF t.kind \in {"bonus", "reward"} /\ u \in t.group THEN t.amount ELSE 0)
    <3>1. Debited(t, u) = If((t.kind = "survey" \/ t.kind = "checkout") /\ u = t.user)
      BY <2>1 DEF Debited, Paying
    <3>2. CASE t.kind \in {"survey", "checkout"}
      BY <2>1, <2>5, <2>6, <3>1, <3>2 DEF Credited, Paying, If
    <3>3. CASE t.kind \in {"recharge", "bonus", "reward"}
      BY <2>1, <2>5, <2>6, <3>1, <3>3 DEF Credited, Paying, If
    <3> QED BY <2>6, <3>2, <3>3
  <2>10. /\ wallet[u].balance = Income(u) - Spent(u) - lapsed[u]
         /\ wallet[u].received = Income(u)
         /\ wallet[u].sent = Spent(u)
         /\ wallet[u].expired = lapsed[u]
    BY <2>4 DEF Expected
  <2>11. /\ Income(u)' = Income(u) + Credited(t, u)
         /\ Spent(u)' = Spent(u) + Debited(t, u)
         /\ Income(u) \in Int /\ Spent(u) \in Int
         /\ Credited(t, u) \in Int /\ Debited(t, u) \in Int
    <3>1. \A b \in BOOLEAN : If(b) \in Int
      BY DEF If
    <3>2. Income(u)' = Income(u) + Credited(t, u)
      BY <2>6, <2>7, <2>8, <2>9 DEF Income, If
    <3>3. Spent(u)' = Spent(u) + Debited(t, u)
      BY <2>6, <2>7, <2>8, <2>9 DEF Spent, If
    <3> QED BY <2>1, <2>7, <3>2, <3>3, AfterSays DEF Income, Spent
  <2>12. After(t, u) = Expected(u)'
    <3> HIDE DEF t
    <3> QED BY <2>7, <2>8, <2>10, <2>11 DEF After, Expected
  <2> QED BY <2>3, <2>12
<1>4. ASSUME NEW h \in Handlers, NEW v \in Accounts, ExpireReward(h, v)
      PROVE  (wallet[u] = Expected(u))'
  <2>1. /\ paid' = paid /\ fees' = fees /\ purchased' = purchased
        /\ recharged' = recharged /\ rewarded' = rewarded
        /\ lapsed' = [lapsed EXCEPT ![v] = @ + 1]
    BY <1>4 DEF ExpireReward
  <2>2. CASE u # v
    <3>1. wallet'[u] = wallet[u] /\ lapsed'[u] = lapsed[u] /\ u \notin overtaken
      BY <1>4, <2>2 DEF ExpireReward, TypeOK
    <3> QED BY <1>1, <2>1, <3>1 DEF Expected, Income, Spent
  <2>3. CASE u = v
    <3>1. op[h].seen[u] = wallet[u] /\ u \notin overtaken
      BY <1>4, <2>3 DEF ExpireReward
    <3>2. /\ wallet[u] \in Row /\ lapsed[u] \in Int /\ lapsed'[u] = lapsed[u] + 1
          /\ wallet[u].balance \in Int /\ wallet[u].expired \in Int
      BY <2>1, <2>3 DEF TypeOK, Row
    <3>3. wallet'[u] = [wallet[u] EXCEPT !.balance = wallet[u].balance - 1,
                                         !.expired = wallet[u].expired + 1]
      BY <1>4, <2>3, <3>1 DEF ExpireReward, TypeOK
    <3>4. wallet'[u] = [balance |-> wallet[u].balance - 1, received |-> wallet[u].received,
                        sent |-> wallet[u].sent, expired |-> wallet[u].expired + 1]
      BY <3>2, <3>3 DEF Row
    <3>5. /\ wallet[u].balance = Income(u) - Spent(u) - lapsed[u]
          /\ wallet[u].received = Income(u)
          /\ wallet[u].sent = Spent(u)
          /\ wallet[u].expired = lapsed[u]
      BY <1>1, <3>1 DEF Expected
    <3>6. Income(u)' = Income(u) /\ Spent(u)' = Spent(u) /\ Income(u) \in Int /\ Spent(u) \in Int
      BY <2>1 DEF Income, Spent, TypeOK
    <3> QED BY <3>2, <3>4, <3>5, <3>6 DEF Expected
  <2> QED BY <2>2, <2>3
<1>5. ASSUME NEW h \in Handlers, Start(h)
      PROVE  (wallet[u] = Expected(u))'
  BY <1>2, <1>5, StartFields DEF ledger
<1>6. ASSUME NEW h \in Handlers,
             \/ ReadWallet(h) \/ SelectRow(h) \/ ChargeToss(h) \/ UpdateRow(h)
             \/ Abort(h) \/ StartSweep(h) \/ EndSweep(h)
      PROVE  (wallet[u] = Expected(u))'
  BY <1>2, <1>6 DEF ReadWallet, SelectRow, ChargeToss, UpdateRow, Abort, StartSweep, Begin,
                    EndSweep, ledger
<1>7. ASSUME NEW v \in Accounts, GrantReward(v)
      PROVE  (wallet[u] = Expected(u))'
  BY <1>2, <1>7 DEF GrantReward
<1>8. CASE UNCHANGED vars
  BY <1>2, <1>8 DEF vars, ledger
<1> QED BY <1>3, <1>4, <1>5, <1>6, <1>7, <1>8 DEF Next, Step, Cron

\* The inductive invariant.
THEOREM WalletLedgerInvariant == Spec => []LedgerInv
<1>1. TypeOK /\ LedgerInv /\ [Next]_vars => LedgerInv'
  BY NextLedgerExact, NextTxnExact, NextShape, NextLocked DEF LedgerInv
<1> QED BY <1>1, InitTypeOK, InitLedger, NextTypeOK, PTL DEF Spec

\* A wallet that no commit overtook agrees with its Payment, Reward and
\* WalletRecharge rows.
THEOREM WalletLedgerExact == Spec => []LedgerExact
<1>1. LedgerInv => LedgerExact
  BY DEF LedgerInv
<1> QED BY <1>1, WalletLedgerInvariant, PTL

-----------------------------------------------------------------------------
(* The bound on overdrafts                                                 *)

\* The payments of a wallet are some of the operations there are.
LEMMA InFlightFinite ==
  ASSUME NEW u \in Accounts
  PROVE  /\ IsFiniteSet(InFlight(u)) /\ Cardinality(InFlight(u)) \in Nat
         /\ Cardinality(Handlers) \in Nat
         /\ Cardinality(InFlight(u)) <= Cardinality(Handlers)
<1>1. InFlight(u) \subseteq Handlers
  BY DEF InFlight
<1> QED BY <1>1, HandlersAssumption, FS_Subset, FS_CardinalityType

LEMMA InFlightFinitePrime ==
  ASSUME NEW u \in Accounts
  PROVE  /\ IsFiniteSet(InFlight(u)') /\ Cardinality(InFlight(u)') \in Nat
         /\ Cardinality(InFlight(u)') <= Cardinality(Handlers)
<1>1. InFlight(u)' \subseteq Handlers
  BY DEF InFlight
<1> QED BY <1>1, HandlersAssumption, FS_Subset, FS_CardinalityType

\* At the start no wallet is overdrawn.
LEMMA InitOverdraft == Init => OverdraftInv
<1> SUFFICES ASSUME Init, NEW u \in Accounts
             PROVE  wallet[u].balance - Cardinality(InFlight(u)) > -Cardinality(Handlers)
  BY DEF OverdraftInv
<1>1. InFlight(u) = {}
  BY DEF Init, InFlight, InTxn
<1>2. Cardinality(InFlight(u)) = 0
  BY <1>1, FS_EmptySet
<1>3. Cardinality(Handlers) \in Nat /\ Cardinality(Handlers) # 0
  BY HandlersAssumption, FS_EmptySet, FS_CardinalityType
<1>4. wallet[u].balance = 0
  BY DEF Init, EmptyRow
<1> QED BY <1>2, <1>3, <1>4

\* A payment starts with money in the wallet; its debit was already counted.
LEMMA NextOverdraft == TypeOK /\ LedgerInv /\ OverdraftInv /\ [Next]_vars => OverdraftInv'
<1> SUFFICES ASSUME TypeOK, LedgerInv, OverdraftInv, [Next]_vars,
                    NEW u \in Accounts, u \notin overtaken', lapsed'[u] = 0
             PROVE  wallet'[u].balance - Cardinality(InFlight(u)') > -Cardinality(Handlers)
  BY DEF OverdraftInv
<1> DEFINE b == wallet[u].balance
           H == Cardinality(Handlers)
<1>1. b \in Int /\ H \in Nat
  BY HandlersAssumption, FS_CardinalityType DEF TypeOK, Row
<1>2. ASSUME u \notin overtaken, lapsed[u] = 0
      PROVE  b - Cardinality(InFlight(u)) > -H
  BY <1>2 DEF OverdraftInv
<1>3. ASSUME UNCHANGED <<wallet, lapsed, overtaken>>, InFlight(u)' \subseteq InFlight(u)
      PROVE  wallet'[u].balance - Cardinality(InFlight(u)') > -H
  <2>1. Cardinality(InFlight(u)') <= Cardinality(InFlight(u))
    BY <1>3, InFlightFinite, FS_Subset
  <2> HIDE DEF H
  <2> QED BY <1>1, <1>2, <1>3, <2>1, InFlightFinite, InFlightFinitePrime
<1>4. ASSUME NEW h \in Handlers, Start(h)
      PROVE  wallet'[u].balance - Cardinality(InFlight(u)') > -H
  <2>1. /\ op'[h] \in Txn
        /\ \A x \in Handlers \ {h} : op'[x] = op[x]
        /\ UNCHANGED <<wallet, ledger, overtaken>>
        /\ op[h] = Idle
    BY <1>4, StartFields
  <2>2. CASE h \notin InFlight(u)'
    <3>1. InFlight(u)' \subseteq InFlight(u)
      BY <2>1, <2>2 DEF InFlight, InTxn
    <3> QED BY <1>3, <2>1, <3>1 DEF ledger
  <2>3. CASE h \in InFlight(u)'
    <3>1. b >= 1
      <4>1. op'[h].kind \in {"survey", "checkout"} /\ op'[h].user = u
        BY <2>3 DEF InFlight, Paying
      <4>2. \A v \in Accounts, a \in {0, 1}, W \in SUBSET Accounts :
               ~StartRecharge(h, v) /\ ~StartBonus(h, v, a) /\ ~StartReward(h, v, W)
        BY <4>1 DEF StartRecharge, StartBonus, StartReward, Begin, NewTxn, TypeOK
      <4>3. PICK v \in Accounts : StartPayment(h, v)
        BY <1>4, <4>2 DEF Start
      <4>4. op'[h].user = v
        BY <4>3 DEF StartPayment, Begin, NewTxn, TypeOK
      <4> QED BY <4>1, <4>3, <4>4 DEF StartPayment
    <3>2. wallet'[u].balance = b
      BY <2>1
    <3> HIDE DEF b, H
    <3> QED BY <1>1, <3>1, <3>2, InFlightFinitePrime DEF H
  <2> QED BY <2>2, <2>3
<1>5. ASSUME NEW h \in Handlers, ReadWallet(h) \/ SelectRow(h) \/ ChargeToss(h)
      PROVE  wallet'[u].balance - Cardinality(InFlight(u)') > -H
  <2>1. InFlight(u)' \subseteq InFlight(u)
    BY <1>5, ReadFields, TxnOf DEF InFlight, InTxn, Paying
  <2> QED BY <1>3, <1>5, <2>1, ReadFields DEF ledger
<1>6. ASSUME NEW h \in Handlers, UpdateRow(h)
      PROVE  wallet'[u].balance - Cardinality(InFlight(u)') > -H
  <2>1. InFlight(u)' \subseteq InFlight(u)
    BY <1>6, UpdateFields, TxnOf DEF InFlight, InTxn, Paying
  <2> QED BY <1>3, <1>6, <2>1 DEF UpdateRow, ledger
<1>7. ASSUME NEW h \in Handlers, Commit(h)
      PROVE  wallet'[u].balance - Cardinality(InFlight(u)') > -H
  <2> DEFINE t == op[h]
  <2>1. t \in Txn /\ InTxn(h) /\ t.pc = "closing"
    BY <1>7, TxnOf DEF Commit
  <2>2. u \notin overtaken /\ u \notin t.stale /\ lapsed[u] = 0
    BY <1>7 DEF Commit
  <2>3. wallet'[u] = After(t, u)
    BY <1>7, <2>1, <2>2 DEF Commit, Visible, LedgerInv, TxnExact
  <2>4. /\ wallet'[u].balance = b + Credited(t, u) - Debited(t, u)
        /\ Credited(t, u) >= 0 /\ Credited(t, u) \in Int /\ Debited(t, u) \in Int
        /\ Debited(t, u) = IF h \in InFlight(u) THEN 1 ELSE 0
    <3>1. t.amount \in {0, 1}
      BY <2>1 DEF Txn
    <3>2. Credited(t, u) >= 0
      BY <3>1 DEF Credited, If
    <3>3. Debited(t, u) = IF h \in InFlight(u) THEN 1 ELSE 0
      BY <2>1 DEF Debited, If, InFlight
    <3> QED BY <2>1, <2>3, <3>2, <3>3, AfterSays
  <2>5. InFlight(u)' = InFlight(u) \ {h}
    BY <1>7, EndFields DEF InFlight, InTxn
  <2>6. Cardinality(InFlight(u)') = Cardinality(InFlight(u)) - Debited(t, u)
    <3>1. CASE h \in InFlight(u)
      BY <2>4, <2>5, <3>1, InFlightFinite, FS_RemoveElement
    <3>2. CASE h \notin InFlight(u)
      <4>1. InFlight(u)' = InFlight(u)
        BY <2>5, <3>2
      <4>2. Debited(t, u) = 0
        BY <2>4, <3>2
      <4> QED BY <4>1, <4>2, InFlightFinite
    <3> QED BY <3>1, <3>2
  <2> HIDE DEF H, b, t
  <2> QED BY <1>1, <1>2, <2>2, <2>4, <2>6, InFlightFinite
<1>8. ASSUME NEW h \in Handlers, Abort(h)
      PROVE  wallet'[u].balance - Cardinality(InFlight(u)') > -H
  <2>1. InFlight(u)' \subseteq InFlight(u)
    BY <1>8, EndFields DEF InFlight, InTxn
  <2> QED BY <1>3, <1>8, <2>1 DEF Abort, ledger
<1>9. ASSUME NEW h \in Handlers, StartSweep(h) \/ EndSweep(h)
      PROVE  wallet'[u].balance - Cardinality(InFlight(u)') > -H
  <2>1. InFlight(u)' \subseteq InFlight(u)
    BY <1>9, EndFields DEF InFlight, InTxn, Cron
  <2> QED BY <1>3, <1>9, <2>1 DEF StartSweep, Begin, EndSweep, ledger
<1>10. ASSUME NEW h \in Handlers, NEW v \in Accounts, ExpireReward(h, v)
       PROVE  wallet'[u].balance - Cardinality(InFlight(u)') > -H
  <2>1. InFlight(u)' \subseteq InFlight(u)
    BY <1>10, EndFields DEF InFlight, InTxn, Cron
  <2>2. u # v
    <3>1. lapsed[v] \in Nat /\ lapsed'[v] = lapsed[v] + 1
      BY <1>10 DEF ExpireReward, TypeOK
    <3> QED BY <3>1
  <2>3. wallet'[u] = wallet[u] /\ lapsed'[u] = lapsed[u] /\ u \notin overtaken
    BY <1>10, <2>2 DEF ExpireReward, TypeOK
  <2>4. Cardinality(InFlight(u)') <= Cardinality(InFlight(u))
    BY <2>1, InFlightFinite, FS_Subset
  <2> HIDE DEF H
  <2> QED BY <1>1, <1>2, <2>3, <2>4, InFlightFinite, InFlightFinitePrime
<1>11. ASSUME (\E v \in Accounts : GrantReward(v)) \/ UNCHANGED vars
       PROVE  wallet'[u].balance - Cardinality(InFlight(u)') > -H
  <2>1. UNCHANGED <<wallet, op, lapsed, overtaken>>
    BY <1>11 DEF GrantReward, vars, ledger
  <2>2. InFlight(u)' \subseteq InFlight(u)
    BY <2>1 DEF InFlight, InTxn
  <2> QED BY <1>3, <2>1, <2>2
<1> QED BY <1>4, <1>5, <1>6, <1>7, <1>8, <1>9, <1>10, <1>11 DEF Next, Step, Cron

\* No wallet is overdrawn by as many payments as can run at once.
THEOREM WalletOverdraftBounded == Spec => []OverdraftBounded
<1>1. TypeOK /\ OverdraftInv => OverdraftBounded
  <2> SUFFICES ASSUME TypeOK, OverdraftInv, NEW u \in Accounts \ overtaken, lapsed[u] = 0
               PROVE  wallet[u].balance > -Cardinality(Handlers)
    BY DEF OverdraftBounded
  <2> QED BY InFlightFinite DEF OverdraftInv, TypeOK, Row
<1> QED BY <1>1, InitTypeOK, InitLedger, InitOverdraft, NextTypeOK, NextLedgerExact,
           NextOverdraft, WalletTypeCorrect, WalletLedgerInvariant, PTL DEF Spec

-----------------------------------------------------------------------------
(* Recharges                                                               *)

\* Recharges that Toss has confirmed and that are not committed yet.
Confirmed(u) ==
    {h \in Handlers : op[h].pc = "closing" /\ op[h].kind = "recharge" /\ op[h].user = u}

\* Every confirmed charge pays for one recharge at most, committed or not.
ChargesInv ==
    \A u \in Accounts : recharged[u] + Cardinality(Confirmed(u)) <= charged[u]

\* The confirmed recharges are some of the operations there are.
LEMMA ConfirmedFinite ==
  ASSUME NEW S \in SUBSET Handlers
  PROVE  IsFiniteSet(S) /\ Cardinality(S) \in Nat
  BY HandlersAssumption, FS_Subset, FS_CardinalityType

\* At the start nothing is charged or recharged.
LEMMA InitCharges == Init => ChargesInv
<1> SUFFICES ASSUME Init, NEW u \in Accounts
             PROVE  recharged[u] + Cardinality(Confirmed(u)) <= charged[u]
  BY DEF ChargesInv
<1>1. Confirmed(u) = {}
  BY DEF Init, Confirmed, Idle
<1> QED BY <1>1, FS_EmptySet DEF Init, NoRows

\* A recharge is closed only by its charge.
LEMMA NextCharges == TypeOK /\ ChargesInv /\ [Next]_vars => ChargesInv'
<1> SUFFICES ASSUME TypeOK, ChargesInv, [Next]_vars, NEW u \in Accounts
             PROVE  recharged'[u] + Cardinality(Confirmed(u)') <= charged'[u]
  BY DEF ChargesInv
<1>1. /\ recharged[u] + Cardinality(Confirmed(u)) <= charged[u]
      /\ recharged[u] \in Nat /\ charged[u] \in Nat
      /\ Confirmed(u) \subseteq Handlers /\ Confirmed(u)' \subseteq Handlers
      /\ Cardinality(Confirmed(u)) \in Nat /\ Cardinality(Confirmed(u)') \in Nat
  <2>1. Confirmed(u) \subseteq Handlers /\ Confirmed(u)' \subseteq Handlers
    BY DEF Confirmed
  <2> QED BY <2>1, ConfirmedFinite DEF ChargesInv, TypeOK
<1>2. ASSUME Confirmed(u)' \subseteq Confirmed(u), UNCHANGED <<recharged, charged>>
      PROVE  recharged'[u] + Cardinality(Confirmed(u)') <= charged'[u]
  <2>1. Cardinality(Confirmed(u)') <= Cardinality(Confirmed(u))
    BY <1>1, <1>2, ConfirmedFinite, FS_Subset
  <2> QED BY <1>1, <1>2, <2>1
<1>3. ASSUME NEW h \in Handlers, Start(h)
      PROVE  recharged'[u] + Cardinality(Confirmed(u)') <= charged'[u]
  <2>1. Confirmed(u)' \subseteq Confirmed(u)
    BY <1>3, StartFields DEF Confirmed
  <2> QED BY <1>2, <1>3, <2>1, StartFields DEF ledger
<1>4. ASSUME NEW h \in Handlers, ReadWallet(h) \/ SelectRow(h)
      PROVE  recharged'[u] + Cardinality(Confirmed(u)') <= charged'[u]
  <2>1. op'[h].pc \in {"saving", "selected"}
    BY <1>4 DEF ReadWallet, SelectRow, TypeOK, Txn, Sweep, Idle
  <2>2. Confirmed(u)' \subseteq Confirmed(u)
    BY <1>4, <2>1, ReadFields DEF Confirmed
  <2> QED BY <1>2, <1>4, <2>2 DEF ReadWallet, SelectRow, ledger
<1>5. ASSUME NEW h \in Handlers, UpdateRow(h)
      PROVE  recharged'[u] + Cardinality(Confirmed(u)') <= charged'[u]
  <2>1. ~(op'[h].pc = "closing" /\ op'[h].kind = "recharge")
    BY <1>5, UpdateFields
  <2>2. Confirmed(u)' \subseteq Confirmed(u)
    BY <1>5, <2>1, UpdateFields DEF Confirmed
  <2> QED BY <1>2, <1>5, <2>2 DEF UpdateRow, ledger
<1>6. ASSUME NEW h \in Handlers, ChargeToss(h)
      PROVE  recharged'[u] + Cardinality(Confirmed(u)') <= charged'[u]
  <2>1. /\ op[h].pc = "charging" /\ op'[h].user = op[h].user
        /\ \A x \in Handlers \ {h} : op'[x] = op[x]
        /\ recharged' = recharged
        /\ charged' = [charged EXCEPT ![op[h].user] = @ + 1]
    BY <1>6, ReadFields DEF ChargeToss, ledger
  <2>2. CASE op[h].user = u
    <3>1. Confirmed(u)' \subseteq Confirmed(u) \cup {h} /\ h \notin Confirmed(u)
      BY <2>1 DEF Confirmed
    <3>2. Cardinality(Confirmed(u)') <= Cardinality(Confirmed(u)) + 1
      <4>1. /\ IsFiniteSet(Confirmed(u) \cup {h})
            /\ Cardinality(Confirmed(u) \cup {h}) = Cardinality(Confirmed(u)) + 1
        BY <1>1, <3>1, ConfirmedFinite, FS_AddElement
      <4> QED BY <3>1, <4>1, FS_Subset
    <3>3. charged'[u] = charged[u] + 1
      BY <2>1, <2>2 DEF TypeOK
    <3> QED BY <1>1, <2>1, <3>2, <3>3
  <2>3. CASE op[h].user # u
    <3>1. Confirmed(u)' \subseteq Confirmed(u)
      BY <2>1, <2>3 DEF Confirmed
    <3>2. charged'[u] = charged[u]
      BY <2>1, <2>3 DEF TypeOK
    <3>3. Cardinality(Confirmed(u)') <= Cardinality(Confirmed(u))
      BY <1>1, <3>1, ConfirmedFinite, FS_Subset
    <3> QED BY <1>1, <2>1, <3>2, <3>3
  <2> QED BY <2>2, <2>3
<1>7. ASSUME NEW h \in Handlers, Commit(h)
      PROVE  recharged'[u] + Cardinality(Confirmed(u)') <= charged'[u]
  <2>1. /\ op[h].pc = "closing" /\ op'[h] = Idle
        /\ \A x \in Handlers \ {h} : op'[x] = op[x]
        /\ charged' = charged
        /\ recharged' = Count(recharged, {op[h].user}, If(op[h].kind = "recharge"))
    BY <1>7 DEF Commit, TypeOK
  <2>2. CASE h \in Confirmed(u)
    <3>1. Confirmed(u)' \subseteq Confirmed(u) \ {h}
      BY <2>1 DEF Confirmed, Idle
    <3>2. Cardinality(Confirmed(u)') <= Cardinality(Confirmed(u)) - 1
      <4>1. Cardinality(Confirmed(u) \ {h}) = Cardinality(Confirmed(u)) - 1
        BY <1>1, <2>2, ConfirmedFinite, FS_RemoveElement
      <4>2. IsFiniteSet(Confirmed(u) \ {h})
        BY <1>1, ConfirmedFinite
      <4> QED BY <3>1, <4>1, <4>2, FS_Subset
    <3>3. recharged'[u] = recharged[u] + 1
      BY <2>1, <2>2 DEF Count, If, Confirmed
    <3> QED BY <1>1, <2>1, <3>2, <3>3
  <2>3. CASE h \notin Confirmed(u)
    <3>1. Confirmed(u)' \subseteq Confirmed(u)
      BY <2>1 DEF Confirmed, Idle
    <3>2. recharged'[u] = recharged[u]
      BY <1>1, <2>1, <2>3 DEF Count, If, Confirmed
    <3>3. Cardinality(Confirmed(u)') <= Cardinality(Confirmed(u))
      BY <1>1, <3>1, ConfirmedFinite, FS_Subset
    <3> QED BY <1>1, <2>1, <3>2, <3>3
  <2> QED BY <2>2, <2>3
<1>8. ASSUME NEW h \in Handlers, Abort(h) \/ Cron(h)
      PROVE  recharged'[u] + Cardinality(Confirmed(u)') <= charged'[u]
  <2>1. op'[h].pc # "closing"
    <3>1. TypeOK' /\ ~InTxn(h)'
      BY <1>8, NextTypeOK, EndFields
    <3> QED BY <3>1 DEF TypeOK, InTxn, Txn, Sweep, Idle
  <2>2. Confirmed(u)' \subseteq Confirmed(u)
    BY <1>8, <2>1, EndFields DEF Confirmed
  <2> QED BY <1>2, <1>8, <2>2
          DEF Abort, Cron, StartSweep, Begin, EndSweep, ExpireReward, ledger
<1>9. ASSUME (\E v \in Accounts : GrantReward(v)) \/ UNCHANGED vars
      PROVE  recharged'[u] + Cardinality(Confirmed(u)') <= charged'[u]
  <2>1. UNCHANGED <<op, recharged, charged>>
    BY <1>9 DEF GrantReward, vars, ledger
  <2>2. Confirmed(u)' \subseteq Confirmed(u)
    BY <2>1 DEF Confirmed
  <2> QED BY <1>2, <2>1, <2>2
<1> QED BY <1>3, <1>4, <1>5, <1>6, <1>7, <1>8, <1>9 DEF Next, Step

\* No wallet shows more recharges than Toss has charged, whatever fails between
\* the charge and the commit.
THEOREM WalletRechargesAreCharged == Spec => []RechargesAreCharged
<1>1. TypeOK /\ ChargesInv => RechargesAreCharged
  <2> SUFFICES ASSUME TypeOK, ChargesInv, NEW u \in Accounts
               PROVE  recharged[u] <= charged[u]
    BY DEF RechargesAreCharged
  <2>1. Confirmed(u) \subseteq Handlers
    BY DEF Confirmed
  <2>2. Cardinality(Confirmed(u)) \in Nat
    BY <2>1, ConfirmedFinite
  <2> QED BY <2>2 DEF ChargesInv, TypeOK
<1> QED BY <1>1, InitTypeOK, InitCharges, NextTypeOK, NextCharges, WalletTypeCorrect, PTL
        DEF Spec

=============================================================================
