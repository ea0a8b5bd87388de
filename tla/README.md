# A verification of the fingerate backend

Fingerate is a NestJS service (TypeScript, TypeORM on Postgres, Bull on Redis)
for paid surveys: customers hold wallets of SoM, pay for surveys, take part in
them, are rewarded from them, keep attendance streaks and buy avatar items.
This directory holds TLA+ modules that model it, the TLC configurations that
check them, and TLAPS proofs of their main invariants.

Paths below are relative to `src/src/modules/` unless they say otherwise.

## Parts of the system

| part | state | operations | module |
|---|---|---|---|
| Survey registration, payment, jobs (`survey/`, `payment/`, `worker/`, `admin/survey/`) | `surveys` (status, feePaid, dates, limits), participants, `payments`, Bull jobs | `registerSurvey`, `makeSurveyPayment`, `submitSurveyParticipation`, the START and END processors | `SurveyLifecycle` |
| Completion event (`worker/event.emitter.ts`) | rewards, notifications, result mails | `endSurvey`: `rewardDistribution`, `saveNotifications`, `sendSurveyResult` | `SurveyLifecycle`, `RewardPromise` |
| Fees, receipts, profits (`survey/`, `payment/`) | amounts of a survey, `pending_profits` | days, fees, receipt, profits of the owners of SOTs | `SurveyFees` |
| Charts (`survey/`) | none of its own | four charts over the participants | `SurveyCharts` |
| Comments and likes (`survey/`) | comments, likes, counters | add, delete, like, unlike | `SurveyTalk` |
| Wallets (`payment/`, `marketplace/`, `event/`, `user/`) | `users_wallets`, `payments`, `rewards`, `wallet_recharges`, the view `payment_reward` | survey payment, checkout, recharge through Toss, bonuses, survey rewards, expiry cron | `WalletLedger` |
| Attendance, respect level (`event/`, `user/`) | streak, last marks, points and level | `markAttendance`, participation streak, demotions | `AttendanceStreak`, `RespectTable`, `RespectLevel` |
| Throttling (`auth/`, `cache-manager/`) | cache counters, codes, blocks with expiry | wrong passwords, codes by mail and text message, confirmations | `Throttle` |
| Accounts (`auth/`, `user/`, `admin/user/`) | the row of a user, its parts, the session | sign-up, log-in and -out, passwords, withdrawal, status, referral | `AccountRow` |
| Profiles (`auth/`, `user/`) | nickname, picture, avatar, info reward | `updateUserInfo`, `changeNickName`, `updateUserAvatar` | `ProfileInfo` |
| Admins (`admin/auth/`, `admin/admin/`) | the row of an admin, tokens in the cache | invite, accept, log in, second factor, forgotten password | `AdminAccess` |
| Marketplace (`marketplace/`) | cart, orders, collection, pool of connections | add, remove, check out | `Marketplace` |
| Items, wish lists (`admin/avatar/`, `itemwishlist/`, `marketplace/`) | avatar items, wishes | create, change, wish, the lists | `Catalog` |
| Notifications (`observers/`, `user/`, `cache-manager/`) | notifications, the unread counter | insert and push, list, delete | `Inbox` |
| Inquiries (`customerservice/`, `admin/customerservice/`) | inquiry, history, attachments | register, edit, delete, answer, discard | `Desk` |
| Verified e-mails (`verified-email/`) | addresses with their codes | add, verify | `EmailCheck` |
| Media (`media/`, `utils/s3/`) | objects in S3, rows of unused uploads | upload, use, clean-up job | `MediaStore` |
| SOT synchronisation (`sot/`, `worker/`) | SOTs, the last block, Bull jobs | subscribe, queue, store, retry | `SotSync` |
| Prices (`currencyconverter/`, `payment/`) | the price of a currency in its row and in memory | start, half-hourly job | `Prices` |
| Reports (`admin/payment/`, `admin/som/`, `admin/sot/`, `admin/user/`, `user/`) | none of their own | transactions, histories, statistics | `Reports` |
| Content pages, silver bells, mail texts, infrastructure | independent rows, texts | | not modelled |

How they interact: an HTTP handler loads the user (with wallet) in the JWT
guard, reads rows through the connection pool, checks them, opens a
`queryRunner` transaction and saves entities it has changed in memory; many
handlers save without a transaction. TypeORM's `save` selects the row again and
updates the columns that differ. Nothing uses `SELECT ... FOR UPDATE`,
optimistic versions or an isolation level above READ COMMITTED. A paid survey
puts two delayed jobs in Bull; the END job emits an in-process event whose
handler distributes rewards in its own transaction. The
`NotificationSubscriber` of TypeORM commits and reopens the *caller's*
transaction after each inserted notification, then counts and pushes it. Every
insert of a payment or reward fires a trigger that refreshes a materialized
view, whose lock the transaction keeps. The cache (Redis) is read and written in
separate calls.

### What is hard about it

* **Stale checks.** `feePaid`, the participant limit, the balance, the cart,
  today's attendance, the number of attachments, a counter of wrong passwords,
  the uniqueness of a nickname, an e-mail or an item: each is read, other rows
  are awaited, and the write does not check again.
* **Absolute writes.** Wallets, users, admins, inquiries are saved as objects
  loaded earlier, so concurrent operations overwrite each other.
* **Commits in the middle.** The notification subscriber makes half a
  transaction durable; most handlers have no transaction at all.
* **Crashes and retries.** A payment commits before its jobs are queued; the END
  job emits an event and may be run again; Toss is charged before the commit; a
  user's wallet, cart and session are inserted after the user.
* **Order.** START and END run in two named processors on one queue and
  overwrite the status whatever it is; a token and the number of its block are
  saved apart by retried jobs.
* **Waiting.** Wallet rows are locked in different orders; the view is a lock of
  all that move money; a checkout asks the pool for a second connection while it
  holds one.
* **Boundaries.** Ranges of points that touch, ages in two tables of ranges,
  months of different lengths, quotients rounded to digits.

The hazards are listed with their lines, and with the properties that would
catch each going wrong, in `PROJECT.json`.

## Modules

### `SurveyLifecycle` (checked and proved about)

One survey row per id, and one process per concurrent call:

| in the module | in the code |
|---|---|
| `status`, `feePaid`, `form`, `initiator` | columns of `surveys` |
| `participants` | rows of `surveys_participants`, keyed by survey and user |
| `payments`, `rewards`, `notified` | `payments`, `rewards`, notification rows |
| `pay[h]` | a `makeSurveyPayment` call between two awaits |
| `sub[h]` | a `submitSurveyParticipation` call between two awaits |
| `queue`, `running`, `failedJobs` | Bull's waiting and delayed, active, failed jobs |
| `events` | handlers of the completion event that are still running |
| `RegisterSurvey` | `SurveyController.registerSurvey`, the admins' one, `registerSurvey` |
| `CheckPayment`, `CommitPayment`, `QueueStart`, `QueueEnd`, `FailPayment` | `makeSurveyPayment`, `initSurveyPayment`, `addSurveyJobs` |
| `AdmitSubmission`, `CountParticipants`, `SaveParticipation`, `RefuseSubmission` | `submitSurveyParticipation` |
| `PickJob`, `UpdateSurveyStatus`, `NotifyLive`, `EmitCompleted`, `CompleteJob`, `FailJob` | `worker.processor.ts` and Bull's attempts |
| `CreditRewards`, `NotifyRewardee`, `SendResult`, `CloseEvent`, `FailEvent` | `event.emitter.ts`, `rewardDistribution`, `saveNotifications` with the subscriber |
| `Crash` | death of the Node process: transactions roll back, Bull recovers stalled jobs |

Abstracted: options, SOT links, media and comments of a survey; amounts (see
`WalletLedger` and `SurveyFees`); the attendance that a participation also marks
(see `AttendanceStreak`); the lock of the view, which only delays: without it
the module has more behaviours. `lost` is a history variable: it records the
surveys whose payment handler died after the commit.

### `RewardPromise` (abstract)

What clients may rely on: announce, fund, join, distribute as one atomic step to
at most the announced number of participants. `SurveyLifecycle` implements it
(`PromiseKept`, the mapping is `Promise == INSTANCE RewardPromise WITH ...`):
because the subscriber commits after the first notification, all credits of a
distribution become durable together, whatever fails later.

### `WalletLedger` (checked and proved about)

Each operation that moves SoM is a transaction record: what it read, which
wallet it saves next, the row its `save` selected, what it wrote. `ReadWallet`
is the second read of `deductPaymentFromUserWallet` and
`surveyPaymentToAdminWallet` outside the transaction, `SelectRow` and
`UpdateRow` are the two statements of TypeORM's `save`, `ChargeToss` is the call
inside `initRechargePayment`, `Commit` and `Abort` end it. `StartSweep`,
`ExpireReward` and `EndSweep` are `rewardExpiryJob`. `GrantReward` is the
admins' `saveReward`, which touches no wallet. The view that the trigger
refreshes is one more lock, taken by the first insert and kept to the end.

Every amount is one SoM: the properties compare sums, and losing a write or
counting one twice shows with equal amounts. Equal amounts are also what makes
TypeORM find no differing column, the case in which a credit vanishes without
any `UPDATE`. `totalRecharged` follows `totalReceived` and is left out. The
saves of one distribution are issued together on one connection, which runs
them in turn; the model takes them in an arbitrary order, each with its SELECT
just before its UPDATE. `overtaken` is a history variable: the wallets with a
committed write that replaced values its writer had not read.

### `AttendanceStreak` (checked and proved about)

One user, and any number of its calls at once:

| in the module | in the code |
|---|---|
| `rows`, `draft`, `lock` | the committed `users` and `users_respect_policy` rows, their uncommitted versions, the row locks |
| `marks`, `rewards` | `events_attendances` by type and day, reward and notification rows |
| `call[h]` | the user (and policy) loaded by the JWT guard and changed in memory, and how far the call is |
| `LoadUser`, `RefuseMark`, `AdmitMark` | the guard; `checkAlreadyMarked` of `markAttendance` and of `submitSurveyParticipation` |
| `SaveAttendance`, `ContinueStreak`, `RestartStreak` | `initAttendance` up to `giveStreakRewardAndRespectPoints` |
| `SaveRewardNotification` | `saveReward`, `saveRewardNotification` and the subscriber's commit |
| `UpdateUserStreak`, `GiveBonus`, `SkipBonus` | `updateUserStreak`, `giveUnConsecutiveRespectPoints` |
| `SelectRow`, `UpdateRow` | the two statements of TypeORM's `save` |
| `EarnPoints`, `Login` | the other code that saves a user: comments, likes, survey requests, referrals, purchases, recharges; `checkIfOneMonthIdle` |
| `AskToLeave`, `WithdrawMembership`, `Active` | `withdrawMembership`, which takes a level off and leaves the points that level begins with; the guard that refuses the user until the withdrawal has run out |
| `CommitTransaction`, `Fail`, `NextDay` | the end of a call, an error or a crash, midnight |

History variables: `torn` (the `UPDATE` of a save found points or a level that
its `SELECT` had not read), `behind` (calls that read the user before another one saved it) and `crossed`
(such a call saved it), `skewed` (a call looked for yesterday's attendance after
a midnight and found one), `unreset` (a full streak was left by a failure or read
by another call before its reset). The properties say that the row is right
unless one of these happened. For the level only a torn save matters: one that
replaces what its call had not read writes points and level that belong together,
so `LevelAgrees` holds through all lost updates, gains that vanish and withdrawals
that are undone. What it excepts are the 51 points of a user demoted to level two,
which rank as level one and need no race at all. For the streak it is `crossed`
that matters: other calls may change it from two to one and, days later, back to
two, and a call that saves then has overwritten no value and yet counts days of
another run. That rewards are given only for lengths that also give points
(`ConstantsAssumption`) is read off the cases of `giveStreakRewardAndRespectPoints`:
the points are saved before the reward, so a reward is given under the row lock. The wallet part of a streak reward is `StartBonus` of `WalletLedger`;
the lock of the view is left out here (a superset of the behaviours). The
referral, the survey request and the likes save a user loaded by someone else's
call; for the row it is one more call that loads, adds and saves.

### `RespectTable`, `RespectLevel` (checked and proved about)

`RespectTable` holds the ranges of points, the points a demoted user is left
with and the demotion, with lemmas that every number of points has exactly one
level. `AttendanceStreak` and `RespectLevel` use it. `RespectLevel` follows one
user through gains, `withdrawMembership` and logins, without races: its question
is the table itself.

### `Throttle` (checked and proved about)

The cache counters of one user: the e-mail it logs in with and a phone number.
`call[h]` is a request of `login`, of the endpoints that send a code, or of
those that confirm one, between two calls of the cache; an action is one `get`,
`set` or `del` of `cache.manager.service.ts` or one statement on the user.

| in the module | in the code |
|---|---|
| `block`, `attempts`, `retries`, `tally`, `code` | `BLOCK:`, `ATTEMPTS:`, `RETRIES:`, the count of blocks, the code, each with expiry (`Expire`) |
| `LoginWrong`, `ReadBlock`, `ReadAttempts`, `RaiseAttempts`, `BlockLogin`, `ClearAttempts` | the failing login |
| `AskCode`, `DropCode`, `SetCode`, `CheckRetry` to `ClearRetries`, `Disable` | sending a code, its retries and the third block |
| `Confirm`, `AcceptCode`, `LiftBlock`, `ClearTally`, `VoidCode` | confirming it |
| `Reinstate`, `Crash` | the admin's status change, death of the process |

History variables count what the properties speak of: wrong passwords since the
counter was last deleted, blocks of an address, uses of a code. `ThrottleSound`: a counter at
its limit belongs to a request about to block; nobody is disabled before an
address was blocked `MaxBlocks` times; a code is used by at most the requests
that run at once (and again after a crash); overlapping requests lose counts but
at most `Tolerance` wrong passwords pass, 17 with the limit of five.

### `AccountRow` (checked and proved about)

One e-mail: the rows inserted for it, the columns of the first one, the parts
that sign-up inserts after it, and the token of its session. `req[r]` is a
request with the object it holds. The operations are named after their handlers
(`SignUp`, `VerifyEmailCode`, `Login`, `ChangePassword`, `WithdrawMembership`,
`UpdateUserStatus`, `CheckReferralCode`, `ConfirmForgotPassword`, `Logout`,
`UpdateFcmToken`, ...); `SelectRow` and `WriteRow` are the two statements of a
save, `Insert` and `AddPart` the inserts of a sign-up, one by one, and `Stop` a
crash between any two of them. `wanted` is the row that the operations meant,
`mixed` records an overlap. `AccountSound`: no more rows than requests at once;
nobody is signed in to an account without a session row, wherever sign-up broke
off; requests that do not overlap lose nothing of each other.

### `AdminAccess` (checked and proved about)

One admin: the row, the three tokens of the cache, the second factor. Actions:
`Invite`, `AdminLogin`, `AdminForgot`, `Toggle` (the second factor), `Present`
(a token), then the loads, saves and calls of the cache of each. `AdminSound`: a
login token needs an accepted invitation; a second-factor token gives at most
as many logins as requests run at once; key and second factor, active and
confirmed agree as long as requests do not overlap.

### `SurveyTalk` (checked and proved about)

The comment of one participant and the likes of the others: `AddSurveyComment`,
`DeleteSurveyComment`, `ToggleLike` and the statements each executes.
`comment[c].likes` is the counter column, `.rows` are the like rows, `history`
the column that counts all likes a comment ever had. `TalkSound`: the comment
shown exists; counter and rows agree, and each ten likes earn points once,
without overlaps; a user likes at most as often as requests run at once.

### `Inbox` (checked and proved about)

Notifications of one user: `InsertNotification` is the subscriber's commit,
`ReadCount` and `RaiseCount` the cache, `PushNotification` and `UpdateIsSettled`
the rest of it; `GetUserNotification` and `DeleteHistory` read and clear.
`InboxSound`: the counter never exceeds the committed notifications, is exact
without overlaps, and every notification that is still there was pushed.

### `Desk` (checked and proved about)

One inquiry: `EditInquiry`, `DeleteInquiry`, `DeleteAttachment` by the customer,
`DoReply` and taking it up or discarding it by admins, and the statements of
each; `Outage` stops the process between them. `DeskSound`: an answer stays and
has its reply; an inquiry no longer waits only if an admin is on record, unless
a save inserted it again after its deletion; attachments exceed their number
only by edits that checked it together.

### `EmailCheck` (checked and proved about)

An address for survey results: `AddVerifiedEmail`, `VerifyEmail`, the mail and
the save. `EmailKept`: no more rows than requests at once, and a verified
address stays verified without overlaps.

### `Rounding`, `SurveyFees`, `SurveyCharts`, `Reports` (checked and proved about)

Pure computations, with their roundings, over small inputs that the actions
build up. `SurveyFees`: the days, the fees, the receipt and the profits of a
survey. `SurveyCharts`: the four charts, one operator each. `Reports`: each list
and graph is an operator over the bag of rows. Their properties relate
computations that the code writes separately: days and calendar days, receipt
and payment, profits and fee; shares and whole, the two tables of ages; lists of
all, incoming and outgoing money, graphs and totals. `Rounded` is how both bigDecimal and Postgres round: to the nearest, a
tie to the even neighbour. The differences that exist are stated with them:

* nobody compares the dates of an admin's survey (`RegisterFromAdmin`): one that
  ends the day before it starts is charged for a day, one that ends two days
  before for none, and then `getSurveyReceipt` divides by zero and there is no
  receipt; one that ends earlier still has a negative number of days, a fee that
  may be less than nothing ("backward" in `Reports`), and profits that the owners
  of its SOTs would owe;
* the totals and graphs of SoM and the cumulative graph of payments cast sums
  of fractional amounts to integers: months need not add up to the total beside
  them, and the cumulative graph may show more than was paid, each by half a unit
  per cast. Rewards are whole and add up exactly;
* children under ten are in a group of the option's chart only, participants
  without a gender in the age chart only;
* a recharge is entered both as a payment in dollars, listed as outgoing, and as
  a recharge in SoM; sums of payments add dollars and SoM;
* the admins' purchases list has one line per purchase and item of *any*
  purchase of the user;
* the cumulative graph leaves out what is paid from the 28th (or the last day)
  of a month on until the next point;
* the profits are half of the whole fee, rewards included;
* among 20000 participants or more (`Vanishing`) one vote is a share that rounds
  to nothing, so that a chart no longer shows an option somebody chose. No small
  instance has as many; the attempt to prove the charts' agreement showed it.

### `Catalog` (checked and proved about)

`CreateAvatar`, `UpdateAvatarItem` (check, select, save), `FindWish`,
`InsertWish`, `DeleteWishes`, and the lists as operators. `CatalogSound`: the
name of an item fits its gender and category and copies are bounded, unless an
update wrote over a change it had not seen; the market, the wish lists and the
items to try agree. The market shows the favourites of all users, one line for
each.

### `ProfileInfo` (checked and proved about)

`UpdateUserInfo` checks, saves the nickname and then gives the info reward
without a transaction around both; `UpdateUserAvatar` and the picture follow.
`MoveWallet` is any other credit or debit of the wallet in between. `InfoSound`:
the reward is given once unless requests meet; the wallet, loaded before the
nickname is saved and written with the reward, undoes what moved it meanwhile: a
credit is lost and a debit given back, so it is off either way, by no more than the movements that
some request with the wallet in hand did not see (`unseen`); nicknames are unique unless they meet; who told about
oneself was rewarded unless something failed. A reward that failed can only be
had under another nickname, because the one just saved counts as taken.

### `Marketplace` (checked and proved about)

The cart of one user. `buyer[b]` is a request: `AddCartItem`, `FindCartItem`,
`InsertCartItem` and `DeleteFromCart` work without a transaction; a checkout is
`Checkout`, `ReadCart`, `Connect`, `CreateOrder`, `CreatePayment`,
`ReadBalance` (through a second connection), `DeductPayment`,
`DeleteCartItems`, `SaveItemCollection`, `Commit` or `Rollback`. Locks: the
deleted cart rows, the inserted collection rows, and the view refreshed by the
insert of the payment. This last lock is what keeps `ChargedExactly`: although
each checkout writes back a balance read elsewhere, no second checkout is
between payment and commit. `PurchasesSound` has it and the rest: an item is owned
exactly when an order of it is committed, requests that do not overlap buy it
once and never overdraw, connections are returned. `SettledForGood` is an action
property, `CheckoutsEnd` liveness; it needs more connections than requests:
with as many, each can hold one and wait for another.

### `MediaStore`, `SotSync`, `Prices` (checked and proved about)

`MediaStore`: upload and row, the use that removes the row, and the job that
deletes the object and then the row. `MediaSound`: what a new inquiry, page or
survey uses stays, unless it was handled by two at once; rows have objects;
nothing leaks but what lost its user. An *edited* inquiry does not remove the
row of its image, so the job deletes an image in use. `RowsGo` is liveness.

`SotSync`: the chain, the subscription, the Bull queue, the two saves of a job. A
job whose process died or lost its lock is run again, but Bull fails one that
stalls more than `MaxStalls` times (its default is one).
`SotSound`: an event that is passed without being heard shares its block with
one that was stored, rows per token are bounded, the block to start from is
stored. `EventsStored` is liveness: an event that was heard is stored unless the
queue refused it or its job used up its attempts or its stalls (`spent`).

`Prices`: the row, the copy in memory, starts and half-hourly jobs.
`PricesSound`: memory and row are equal when no job runs, unless two ran at once or
a start failed; `PricesServed`, liveness: an undefined price does not stay so.

### Proof and MC modules

`SurveyLifecycleProofs`, `WalletLedgerProofs`, `RespectLevelProofs` and
`AttendanceStreakProofs` are about one module each; `AccountProofs` is about
`Throttle`, `AccountRow`, `AdminAccess` and `EmailCheck`, `RequestsProofs` about
`SurveyTalk`, `Inbox`, `Desk` and `Catalog`, `StoreProofs` about `ProfileInfo`,
`Marketplace`, `MediaStore`, `SotSync` and `Prices`, `FiguresProofs` about
`SurveyFees`, `SurveyCharts` and `Reports`, which `Figures` puts together. `MCSurveyLifecycle`, `MCWalletLedger` and
`MCAttendanceStreak` give small values and symmetry. `MCRequests`, `MCFigures`
and `MCProgress` compose modules that share no state: a variable `part` chooses the
one that runs in a behaviour, so the states of the run are the sum, not the
product, of those of its modules. In several modules an operation occurs twice,
once as the code has it and once with a plausible bug, marked `Mutant`; only the
first is part of the specification.

## Runs

| run | instance | properties |
|---|---|---|
| `survey_races` | 3 users, 2 payment calls, 1 submission, 2 worker slots, 2 attempts | `TypeOK`, `PaymentsBounded`, `RewardsAreEarned`, `SettledForGood`, `PromiseKept` |
| `survey_crash` | 4 users, customers' and admins' forms, 1 payment call, 2 submissions, 2 crashes | `RunningIsPaid`, `DistributionsBounded`, `PaidIsScheduled`, `OverrunBounded`, `HeardAfterCredited` |
| `survey_progress` | 2 users, 1 crash, fairness | `PaidSurveysComplete` |
| `wallet_ledger` | admin and a user, 3 handlers, 3 operations, fairness | `OverdraftBounded`, `LedgerExact`, `RechargesAreCharged`, `LocksReleased` |
| `streak_races` | 2 calls, 3 days, full streak after 3, a withdrawal of 2 days | `MarksBounded`, `RewardsBacked`, `StreakSound`, `LevelAgrees` |
| `requests` | 2 requests of each of its nine modules | `ThrottleSound`, `AccountSound`, `AdminSound`, `TalkSound`, `InboxSound`, `DeskSound`, `CatalogSound`, `InfoSound`, `EmailKept` |
| `figures` | all surveys, 3 votes, 3 rows or members of 2 users, respect points up to 1000 with all kinds of gains, in four modules | `FiguresSound`, `LevelNearPoints`, `EarningKeepsLevel` |
| `progress` | 2 requests of each of its four modules, faults, fairness | `PurchasesSound`, `SettledForGood`, `CheckoutsEnd`, `MediaSound`, `RowsGo`, `SotSound`, `EventsStored`, `PricesSound`, `PricesServed` |

Four more runs look for the violation of something the repository says:

| run | the repository says | the code does |
|---|---|---|
| `survey_paid_twice` | 'Survey payment already make' | two calls that read `feePaid = false` both pay |
| `survey_reopened` | after the END job a survey is ENDED (e2e test) | a late or retried START job reopens it |
| `respect_idle` | 'check If user is not login for One Month' | the difference is taken backwards and is never positive |
| `streak_bonus_early` | `MORE_THAN_TEN_ATTENDANCE` | an attendance committed by the notification of its reward is counted twice: the bonus comes with the tenth |

The positive counterparts are in the passing runs: how far each race can go
(`PaymentsBounded`, `OverrunBounded`, `OverdraftBounded`, `MarksBounded`, the
bounds by the number of requests in `requests`), when a survey can no longer be
reopened (`SettledForGood`), which points and level may disagree
(`LevelNearPoints`), and that rows are right in every behaviour without the
cause shown (`StreakSound`, `LevelAgrees`, `NothingLostAlone`, ...).

### Bounds

*Surveys.* One survey is enough: no handler reads two, and rows of different
surveys are independent. Two racing calls exhibit every stale check. Two
attempts and one stall distinguish a first failure from the last; two crashes
let a job stall and then fail for good. The clock needs three values: before the
start, between start and end, after both. Three candidates for one place let two
overrun it, with one more left that must not.

*Wallets.* Three operations on three handlers let two race on the balance that a
third produced or on the view; two wallets, one of them the admin's, give the
opposite lock orders.

*Streaks.* A full streak takes three days instead of 100 and a first reward two
instead of ten, so that a reward, a full streak and the reset of it fit in three
days; two racing calls give every pair of stale reads and saves. The rewards give 160
and 100 points, so that a rewarded user is of level three and a withdrawal from
level three leaves the 51 points of level two; it lasts two days, so that the
user can come back. The bonus comes after `More` 6 attendances, all that two calls can
mark in three days, and one that is counted twice. `MaxPoints` 60 keeps other calls
to users of at most 60 points, the demoted ones among them. No call lasts
longer than a day (`NextDay`). `RespectLevel` has the table's own numbers: 1000
points pass every range, a gain of one reaches every value next to a boundary;
`MaxIdle` 7 lets a withdrawal of six months run out.

*Requests.* Two at a time in every module, since each race is one of a check
against one write. `Throttle`: `Limit` 3 and `MaxBlocks` 2 (5 and 3 in the code),
and one of five budgets: fourteen logins, two logins and a crash, one login with
two codes, four codes, three codes and a crash. Fourteen wrong passwords reach
the most that two requests can lose, four codes give two blocks and a disabled
user. `MaxRequests` 4, `MaxCalls` 6
(invite, accept, log in, confirm, twice one of them), `MaxTalks` 5, `Ten` 2 likes
for points, `MaxNotes` 5, `MaxVisits` 3 with `MaxAttachments` 1 (3 in the code),
`MaxMails` 5, `MaxEdits` 4 with three items, `MaxTells` 3: each is more than the
two that race, so that something follows the race. One crash where crashes are
modelled.

*Figures.* Hours on both sides of one, two and four midnights, in either order
for admins, so that there are -2 to 5 days, zero included, three SOTs of
which one is the platform's; three votes for two options over ages at, inside and outside the
bands; months of 31, 28 and 31 days and rows on the 1st, 28th and 31st, three
rows of two users, with amounts of 11.1, 5.5, 3.5 and -18.9 among them: sums on
both sides of a half, ties, and less than nothing.

*Progress.* Two buyers, two items for three SoM, three connections, five
requests, one refused statement. One image, two requests and the job, two
faults. Blocks 1, 2, 2: two events
share one; two attempts, one stall and three troubles, so that a job can stall once and recover,
stall twice and be failed, or use up its attempts. Two price jobs, three prices,
three starts, two failures.

`CHECK_DEADLOCK FALSE` everywhere: clients may stop, clocks and counters are
bounded.

### Fairness

`SurveyLifecycle!Fairness`: the clock advances; a payment handler that committed
goes on to queue its jobs (Node runs ready callbacks; a crash or a Redis error is
still allowed at every point); Bull runs due jobs and their steps. Clients,
failures and crashes have none, and neither has the completion event: nothing in
the code retries it. `WalletLedger!Fairness`: a transaction that can go on does,
and Postgres aborts a member of a deadlock. Starting operations, aborting
otherwise and the cron have none. `MarketFairness`: the statements of a checkout
are answered, locks and connections are granted. `MediaFairness`: steps of
requests and job, the cron, time. `SotFairness`: the listener connects again and
delivers, Bull works the queue off. `PricesFairness`: the schedule and the steps
of a job. New requests, faults and crashes never have any.

## Proofs

TLAPS proves the following for every value of the constants, under the named
assumptions of each module (`...Assumption`), which TLC evaluates on every run:
sets of handlers and users are finite where something is counted, null values are
no users, forms are forms, the admin has an account, limits are numbers.

**`SurveyLifecycleProofs`** — `SurveyTypeCorrect`, `SurveyEconomy`,
`SurveyRunningIsPaid`, `SurveyRewardsAreEarned`, `SurveySettledForGood`,
`SurveyHeardAfterCredited`, `SurveyPaidIsScheduled`.

`RunningIsPaid` and `RewardsAreEarned` are not inductive: the writes use rows
read long before. `EconomyInv` adds what each handler, job and event may still
take for granted (`PayReads`, `SubReads`, `JobReads`, `EventReads`), which stays
true because feePaid never becomes false, participants only grow and the
initiator never changes. `SettledForGood` is an action property of single steps
under the type invariant. `HeardAfterCredited` needs that an event past its
first notification has its credits committed, because the subscriber committed
them with it. `PaidIsScheduled` needs that an END job leaves Bull only after it
has emitted its event: whichever step removes it, retries and stalls included.

The bounds, `SurveyPaymentsBounded`, `SurveyOverrunBounded` and
`SurveyDistributionsBounded`, and `SurveyPromiseKept`: the inductive forms count the calls past the check together with the rows they
have produced; cardinalities come from `FiniteSetTheorems`. `SurveyPromiseKept`
is the refinement of `RewardPromise`: each action of the survey machine is one
action of the promise or a stutter. What the guards of the code do not say is in
`PromiseInv`: the quota is announced with the row, a paid survey has a payment,
an event has chosen no more than the quota. `DistributionsBounded` gives every live END job and every emitted
event a token `<<payment, restart>>`: a payment has at most one live END job, a
restart changes its second part, and no two events have the same token, so there
are at most `payments * (1 + MaxStalls)`. The bound by crashes needs besides that
no job has been restarted more often than there were crashes.

**`WalletLedgerProofs`** — `WalletTypeCorrect`, `WalletWritesAreLocked`,
`WalletLedgerInvariant`, `WalletLedgerExact`, `WalletOverdraftBounded`,
`WalletRechargesAreCharged`.

`LedgerExact` speaks of committed rows only. Its inductive form `LedgerInv` says
what every running transaction sees: unless it has overtaken a wallet, the row
visible to it is the committed one plus its own saves (`TxnExact`); that needs
the order in which each kind saves its wallets (`TxnShape`) and that what was
written is under lock (`WritesAreLocked`), so that no other commit or expiry
slips in between. `OverdraftInv` counts payments in progress as debits.
`RechargesAreCharged` counts, with the recharges of a wallet, the transactions
whose charge is confirmed and not yet committed (`ChargesInv`).

**`AttendanceStreakProofs`** — `AttendanceTypeCorrect`,
`AttendanceMarksInvariant`, `AttendanceMarksBounded`, `AttendanceRewardsBacked`,
`AttendanceLevelInvariant`, `AttendanceLevelAgrees`, `AttendanceStreakSound`.

`MarksInv` counts the calls past the check with the attendances they may still
insert, and needs that days to come have none. `RewardsBacked` needs that a call
which has not committed its attendance has not been rewarded. `LevelInv` says of
every copy in memory and of the row under lock what `LevelAgrees` says of the
committed row, and that the columns a save is about to update are all in which
its copy differs from the row its `SELECT` has read: unless that row was torn,
merging them gives points and level of the copy. Earning points ranks them anew and
a withdrawal leaves the points its level begins with, whatever the copy held.

`StreakSound` rests on two invariants. `RestartInv` names the call that owes the
reset of a full streak (`Owes`): the one that committed it and has not yet saved
the zero, or holds the row lock with it; every other copy, and the row under
lock, holds a streak that is not full. `RunInv` speaks of runs without a crossing
save: a call that is not behind knows the row it would see (`Copies`), the lock
holder has changed one streak (`Holding`), and the streak it has counted consists
of the days before its own (`Before` until it has asked for yesterday,
`Deserving` after). What may still be inserted beside it is next to the run of
the row or in it (`Adding`), because a call that had nothing to save has counted
at most one. The lemmas on `Filled` and `RunIn` say when a day more keeps a run
the last one. `Timed` and `LockShape` order the days and the lock: no call lasts
longer than a day, so two calls in progress have marked today or yesterday.

**`RespectLevelProofs`** — `RespectTypeCorrect`,
`RespectLevelNearPoints`, `RespectEarningKeepsLevel`, for any gains: each number
of points lies in exactly one range, and more points never rank lower. The two
lemmas on the ranges are in `AttendanceStreakProofs`, too, whose component reads
the same table.

**`AccountProofs`** — `ThrottleTypeCorrect`, `ThrottleFullCounterBlocks`,
`ThrottleDisabledAfterBlocks`, `ThrottleCodeUsesBounded`, `ThrottleGuessesBounded`,
and from them `ThrottleKept`; `AccountKept`, `AdminKept`, `EmailsKept`.

*Throttle.* A disabled user stems from a count of blocks that reached the limit;
the count, and what any request has read of it, never exceeds the number of
blocks there were (`TallyInv`). As long as a code is there, every use of it is of
a request that has yet to delete it, or that died before it could (`UsesInv`).

`GuessesBounded` needs a measure (`GuessInv`): wrong passwords so far, and the
`Room` for those that may still come before the counter is deleted, stay within
`Tolerance`. A request is, as far as the counter goes, in one of five `Modes`,
and the room depends on the counter, the two modes and the counts the two hold.
With the counter `d` below the limit it is a triangle number of side `d`: a
request may hold a count while the other brings the counter up, and writing that
count throws the counter back to it, where the same begins with a smaller side
(`TriMore`, `RoomRaise`). The other steps only use room up (`RoomWrong`,
`RoomRead`, `RoomBlock`), and `RoomClear` says that a deletion makes room for the
`Tolerance` again, whatever the other request holds. Small instances reach the
bound, so it is not a generous one. It holds for any limit, and for two requests,
as the property says.

*Accounts.* The rows inserted and those that requests are about to insert are no
more than the requests (`RowRoom`). The parts of a user are added by the one
request that inserted the first row, and nobody signs in between (`PartsAdded`).
The request that runs alone holds an object that differs from the row only in
what it means to change (`AloneHolds`): that is why writing the whole object
back loses nothing of another request, and why it does as soon as two overlap.

*Admins.* Every request has a number no token and no other request has
(`OwnIsNew`), so a token is made once. The logins that a second-factor token gave
and those that requests holding it will give are bounded together, and so are
the requests that have yet to delete it (`SecondsRoom`).

*E-mails.* Rows and those to come are no more than the requests, and only
requests that found no row insert one (`EmailRoom`); one request at a time finds
at most one row and changes no verified one (`OneRow`).

**`RequestsProofs`** — `TalkKept`, `InboxKept`, `DeskKept`, `CatalogKept`.

*Comments and likes.* The likes of a user and those on their way are no more
than the requests (`LikeRoom`). While requests do not overlap, each holds what it
loaded or wrote (`Loaded`), the rows not being changed have equal counters
(`EvenRows`), and points were given for each ten likes but for those a crash cut
off (`PaidRows`).

*Notifications.* Requests about to raise the counter are told apart from the
notifications they count (`CountRoom`), what waits for its push has somebody who
pushes it (`PushesOwed`), and the difference of counter and unread rows is fixed
for every step of a request that runs alone (`CalmInbox`).

*Inquiries.* Attachments there and those that running edits may add are within
what edits at once allow (`EditRoom`); an admin writes the history before the
inquiry, so whoever finds it not waiting finds the history (`OnRecord`,
`HistoryRoom`).

*Items.* Copies and the requests that may still make one are no more than the
requests (`CopyRoom`), and what a request is about to save was checked against
the rows it fits (`Checked`).

**`StoreProofs`** — `InfoKept`, `MarketInvariant`, `MarketChargedExactly`,
`MarketPurchasesSound`, `MarketSettledForGood`, `MediaKept`, `SotKept`,
`PricesKept`.

*Profiles.* Rewards given and those that requests still hold as due
(`RewardRoom`); balances that requests with the wallet in hand have loaded are off
by what they have not seen, like the wallet itself (`WalletRoom`); without an
overlap the request holds the rows as they are (`CalmInfo`).

*Marketplace.* Whoever holds the view is the only request between payment and
commit (`OnePays`), so the balance it read is still the committed one when it is
written back (`Current`); what is owned is ordered, and without an overlap the
requests at work, the cart and the collection fit together (`AloneInv`); the
connections in use and those that are free add up to the pool.

*Media.* A row without its object has a request or the job that is deleting the
row; an object without a row has a user or somebody at work on it
(`ImagesFit`). The argument is about one image, for every number of them.

*SOTs.* Every event the listener has passed is heard, refused by the queue, or
shares its block with a stored one, now and at the moment any later event was heard
(`NothingSkipped`): that carries over restarts of the listener behind a stored
number. Rows of an event and the attempts its jobs have left are no more than
its deliveries allow (`RowsRoom`).

*Prices.* Until two jobs have run at once there is one at most (`OneRuns`); before
its save it has changed nothing, and what it is about to set is what it saved
(`Served`).

**`FiguresProofs`** — `FeesTypeCorrect`, `FeesDaysAreCalendarDays`,
`FeesReceiptAddsUp`, `FeesProfitsAreHalf`, and from them `FeesKept`;
`ChartsTypeCorrect`, `ChartsSharesAreWhole`, `ChartsAgreeAlways`,
`ChartsKeepOrder`, and from them `ChartsKept`; `ReportsTypeCorrect`,
`ReportsHistoriesAgree`, `ReportsPurchasesListed`, `ReportsGraphsAddUp`,
`ReportsCumulativeLags`, `ReportsSotsAddUp`, `ReportsMembersAddUp`, and from them
`ReportsKept`. `FiguresKept` puts the three together: `Figures` has them side by side,
since they share no state.

*Sums.* The models add with `MapThenSumSet` of the community modules, a fold by a
recursive function on finite sets. What it gives is proved by induction on
the size of the set. The library's induction takes an operator and cannot be
used, but its least number principle (`WFMin` with `NatLessThanWellFounded`) takes
a set: from it `AllNumbers` and `AllSubsets`, by which a family of subsets with the
empty one, and closed under one element more, has all. `SumExists` and
`SumUnique` say that the recursion has one solution, `SumOut` and `SumIn` that the
order does not matter, `SumParts` and `SumByParts` that parts add up, `SumNear`
that errors do, `SumGrows` and `SumLess` that sums are monotone.

*Fees.* `FeesInv` adds to the types what was paid and promised when: a rounded
quotient is half a digit off (`QuotientIsNear`), so fees per day and profits per
SOT are off by half a digit for each; for negative days the lemma is applied to the
opposite of both.

*Charts.* There may be infinitely many votes, of which finitely many were
cast (`ChartsInv`); counts are sums over those. A share is near its exact value
and monotone (`ShareIsNear`, `QuotientGrows`), which gives both the whole and the
order.

*Reports.* The inductive invariant is that a user's recharges and topups are
booked equally often, and nobody withdraws before joining (`ReportsInv`). The
graphs are sums by month of sums (`MonthsAddUp`), members sums of ones
(`GroupsAddUp`); the cumulative ones follow from the order of days and months of
28 to 31 days. A cast is off by half a unit (`RoundedIsNear`) and monotone, and
the errors of the months are added.

### Only model-checked

* Liveness, out of the prover's reach: `PaidSurveysComplete`, `LocksReleased`,
  `CheckoutsEnd`, `RowsGo`, `EventsStored`, `PricesServed`.

## Not modelled

* Content pages (notices, FAQ, banners), silver bells, notification settings:
  independent rows, each written by one statement without a condition.
* Texts of mails and messages, pagination, search filters, details of one row,
  maps of SOTs, the DTO layer and start-up: they keep no state whose order
  matters. The log of admins' logins is appended and listed only.
* Sums of `double precision` columns are taken as exact: what floating point adds in
  the last digits is left out, rounding by casts and by bigDecimal is not.
* Amounts of money are told apart in `SurveyFees`, `Reports` and `Marketplace`
  only; `WalletLedger` moves one SoM at a time.
* The view's lock is in `WalletLedger` and `Marketplace`. `AttendanceStreak` and
  `SurveyLifecycle` leave it out, so they have more interleavings than the code.
* A pool with as many checkouts as connections: there every one can hold a
  connection and wait for a second, for ever. `CheckoutsEnd` is stated for larger
  pools.
* The two statements of a save are told apart in every module but `ProfileInfo`
  and `Marketplace`, where one save is one step, or follows from the lock of the
  view; what it may overwrite there is covered by the time between the load and
  the write.
* Some promises of the price job are never settled when the market answers with
  an error: nobody waits for them, and the model lets the job end there.
* The services outside (Toss, S3, Firebase, the chain, the market of prices, the
  identity providers) are actions of the environment that succeed or fail.

## Plan

Done, in this order: the survey machine, its event and the promise; wallets;
attendance, streaks and levels; throttling, accounts and admins; marketplace,
catalogue and wishes; comments and likes; notifications, inquiries, verified
e-mails, profiles; media, SOTs and prices; fees, charts and reports. Proofs:
the survey machine with its refinement, wallets, marks and levels, the throttle,
accounts, admins and e-mails, comments, notifications, inquiries and items,
profiles, the marketplace, media, SOTs and prices, fees, charts and reports.

Left:

1. A bound on wrong passwords for more than two requests at a time.
2. The remaining lists with filter and page, and the log of admins' logins.
3. A composition of `SurveyLifecycle` with `WalletLedger`, in which a
   distribution moves the wallets it credits: the first knows that wallets can
   fail the transaction, the second that distributions occur, not which.
