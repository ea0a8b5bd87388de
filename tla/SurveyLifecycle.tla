--------------------------- MODULE SurveyLifecycle ---------------------------
(***************************************************************************)
(* The life of a survey: registration, payment of the fee, the two Bull    *)
(* jobs that open and close it, participation, and the completion event    *)
(* that rewards the participants.                                          *)
(*                                                                         *)
(* Every HTTP handler is a process that reads rows, awaits, and later      *)
(* writes from what it read: PayHandlers run makeSurveyPayment, Sub-       *)
(* Handlers run submitSurveyParticipation, WorkerSlots run the Bull        *)
(* processors, and each emitted completion event runs EventEmitter's       *)
(* endSurvey.  None of them takes a lock on the survey.  A crash of the    *)
(* Node process kills all of them at once; Postgres keeps what was         *)
(* committed and Redis keeps the jobs.                                     *)
(*                                                                         *)
(* The wallets and the amounts are the subject of WalletLedger; here a     *)
(* payment is its Payment row and a reward its Reward row.                 *)
(***************************************************************************)
EXTENDS Integers, FiniteSets

CONSTANTS
    Users,          \* customers
    Nobody,         \* the null initiator of a survey an admin registered
    Surveys,        \* survey ids
    Forms,          \* the registration forms clients may submit
    PayHandlers,    \* concurrent makeSurveyPayment calls
    SubHandlers,    \* concurrent submitSurveyParticipation calls
    WorkerSlots,    \* Bull runs one job of each named processor at a time
    MaxAttempts,    \* JobAttempts.THREE
    MaxStalls,      \* Bull's maxStalledCount
    MaxTime,        \* bound on the clock
    MaxCrashes      \* bound on process crashes

FormType == [start : Nat, end : Nat, limited : BOOLEAN,
             participantsCount : Nat, rewardeesCount : Nat, byAdmin : BOOLEAN]

ASSUME NobodyAssumption == Nobody \notin Users
ASSUME FormsAssumption  == Forms \subseteq FormType
ASSUME HandlersAssumption == IsFiniteSet(PayHandlers) /\ IsFiniteSet(SubHandlers)
ASSUME BoundsAssumption == {MaxAttempts, MaxStalls, MaxTime, MaxCrashes} \subseteq Nat

VARIABLES
    now,            \* wall clock, in abstract units
    status,         \* surveys.status ("absent" before the row exists)
    feePaid,        \* surveys.feePaid
    form,           \* the columns of the survey row that never change
    initiator,      \* surveys.initiatorId
    participants,   \* rows of surveys_participants
    payments,       \* number of Payment rows of the survey
    pay,            \* the makeSurveyPayment handlers
    sub,            \* the submitSurveyParticipation handlers
    queue,          \* Bull jobs that are delayed or waiting
    running,        \* Bull jobs being processed, per worker slot
    failedJobs,     \* Bull jobs that used up their attempts
    events,         \* running handlers of the completion event
    emitted,        \* completion events emitted so far
    rewards,        \* Reward rows of the survey, per user
    notified,       \* users with a committed REWARD notification
    resultMails,    \* result mails sent
    liveNotices,    \* surveys whose initiator has a SURVEY_GOES_LIVE notice
    lost,           \* surveys whose payment committed but whose handler died
                    \* before both jobs were queued
    crashes

rowVars   == <<status, feePaid, form, initiator, participants, payments>>
jobVars   == <<queue, running, failedJobs>>
eventVars == <<events, emitted, rewards, notified, resultMails>>
vars == <<now, rowVars, pay, sub, jobVars, eventVars, liveNotices, lost, crashes>>

-----------------------------------------------------------------------------
(* Types                                                                   *)

Status  == {"absent", "disabled", "enabled", "ongoing", "ended"}
JobKind == {"start", "end"}

\* A job is named by the payment that queued it; tries counts failed attempts
\* and stalls the times a dead worker left it behind.
Job == [kind : JobKind, survey : Surveys, payment : Nat, tries : Nat, stalls : Nat]

Idle    == [pc |-> "idle"]
PayCall == [pc : {"checked", "queueStart", "queueEnd"}, survey : Surveys, payment : Nat]
SubCall == [pc : {"admitted", "counted"}, survey : Surveys, user : Users]
Run     == [pc : {"picked", "updated", "acted"}, job : Job]
Event   == [pc : {"emitted", "credited", "notifying", "mailed"}, survey : Surveys,
            payment : Nat, chosen : SUBSET Users, todo : SUBSET Users]

TypeOK ==
    /\ now \in Nat
    /\ status \in [Surveys -> Status]
    /\ feePaid \in [Surveys -> BOOLEAN]
    /\ form \in [Surveys -> FormType]
    /\ initiator \in [Surveys -> Users \cup {Nobody}]
    /\ participants \in [Surveys -> SUBSET Users]
    /\ payments \in [Surveys -> Nat]
    /\ pay \in [PayHandlers -> PayCall \cup {Idle}]
    /\ sub \in [SubHandlers -> SubCall \cup {Idle}]
    /\ queue \subseteq Job
    /\ running \in [WorkerSlots -> Run \cup {Idle}]
    /\ failedJobs \subseteq Job
    /\ events \subseteq Event
    /\ emitted \in [Surveys -> Nat]
    /\ rewards \in [Surveys -> [Users -> Nat]]
    /\ notified \in [Surveys -> SUBSET Users]
    /\ resultMails \in [Surveys -> Nat]
    /\ liveNotices \subseteq Surveys
    /\ lost \subseteq Surveys
    /\ crashes \in Nat

NoForm == [start |-> 0, end |-> 0, limited |-> FALSE, participantsCount |-> 0,
           rewardeesCount |-> 0, byAdmin |-> FALSE]

Init ==
    /\ now = 0
    /\ status = [s \in Surveys |-> "absent"]
    /\ feePaid = [s \in Surveys |-> FALSE]
    /\ form = [s \in Surveys |-> NoForm]
    /\ initiator = [s \in Surveys |-> Nobody]
    /\ participants = [s \in Surveys |-> {}]
    /\ payments = [s \in Surveys |-> 0]
    /\ pay = [h \in PayHandlers |-> Idle]
    /\ sub = [h \in SubHandlers |-> Idle]
    /\ queue = {}
    /\ running = [w \in WorkerSlots |-> Idle]
    /\ failedJobs = {}
    /\ events = {}
    /\ emitted = [s \in Surveys |-> 0]
    /\ rewards = [s \in Surveys |-> [u \in Users |-> 0]]
    /\ notified = [s \in Surveys |-> {}]
    /\ resultMails = [s \in Surveys |-> 0]
    /\ liveNotices = {}
    /\ lost = {}
    /\ crashes = 0

Tick ==
    /\ now < MaxTime
    /\ now' = now + 1
    /\ UNCHANGED <<rowVars, pay, sub, jobVars, eventVars, liveNotices, lost, crashes>>

-----------------------------------------------------------------------------
(* Registration                                                            *)

\* Both endpoints require dates in the future; only the customers' controller
\* also compares them with each other.
AcceptableDates(f) ==
    /\ now < f.start
    /\ now < f.end
    /\ ~f.byAdmin => f.start < f.end

\* registerSurvey and its transaction: the survey row, options and sots appear
\* together.  An admin may register for a user or for nobody.
RegisterSurvey(s, f, u) ==
    /\ status[s] = "absent"
    /\ AcceptableDates(f)
    /\ u = Nobody => f.byAdmin
    /\ f.limited => f.participantsCount > 0
    /\ f.rewardeesCount > 0
    /\ status' = [status EXCEPT ![s] = "disabled"]
    /\ form' = [form EXCEPT ![s] = f]
    /\ initiator' = [initiator EXCEPT ![s] = u]
    /\ UNCHANGED <<now, feePaid, participants, payments, pay, sub, jobVars,
                   eventVars, liveNotices, lost, crashes>>

-----------------------------------------------------------------------------
(* Payment                                                                 *)

\* Mutant: the feePaid check is missing.
CheckPaymentAgain(h, s) ==
    /\ pay[h] = Idle
    /\ status[s] # "absent" /\ initiator[s] # Nobody /\ now < form[s].end
    /\ pay' = [pay EXCEPT ![h] = [pc |-> "checked", survey |-> s, payment |-> 0]]
    /\ UNCHANGED <<now, rowVars, sub, jobVars, eventVars, liveNotices, lost, crashes>>

\* The guards of makeSurveyPayment, evaluated on one read of the survey row.
\* The balance check is WalletLedger's.
CheckPayment(h, s) ==
    /\ pay[h] = Idle
    /\ status[s] # "absent"
    /\ initiator[s] # Nobody
    /\ now < form[s].end
    /\ ~feePaid[s]
    /\ pay' = [pay EXCEPT ![h] = [pc |-> "checked", survey |-> s, payment |-> 0]]
    /\ UNCHANGED <<now, rowVars, sub, jobVars, eventVars, liveNotices, lost, crashes>>

\* Mutant: surveyUpdateAfterPayment forgets feePaid.
CommitPaymentStatusOnly(h) ==
    LET s == pay[h].survey IN
    /\ pay[h].pc = "checked"
    /\ payments' = [payments EXCEPT ![s] = @ + 1]
    /\ status' = [status EXCEPT ![s] = "enabled"]
    /\ pay' = [pay EXCEPT ![h] = [pc |-> "queueStart", survey |-> s,
                                  payment |-> payments[s] + 1]]
    /\ UNCHANGED <<now, feePaid, form, initiator, participants, sub, jobVars,
                   eventVars, liveNotices, lost, crashes>>

\* initSurveyPayment's transaction commits.  The survey entity read by the
\* check is saved as a whole: feePaid and status take these values whatever
\* the row holds by now.
CommitPayment(h) ==
    LET s == pay[h].survey IN
    /\ pay[h].pc = "checked"
    /\ payments' = [payments EXCEPT ![s] = @ + 1]
    /\ feePaid' = [feePaid EXCEPT ![s] = TRUE]
    /\ status' = [status EXCEPT ![s] = "enabled"]
    /\ pay' = [pay EXCEPT ![h] = [pc |-> "queueStart", survey |-> s,
                                  payment |-> payments[s] + 1]]
    /\ UNCHANGED <<now, form, initiator, participants, sub, jobVars, eventVars,
                   liveNotices, lost, crashes>>

NewJob(k, h) == [kind |-> k, survey |-> pay[h].survey, payment |-> pay[h].payment,
                 tries |-> 0, stalls |-> 0]

\* Mutant: only the START job is queued.
QueueStartOnly(h) ==
    /\ pay[h].pc = "queueStart"
    /\ queue' = queue \cup {NewJob("start", h)}
    /\ pay' = [pay EXCEPT ![h] = Idle]
    /\ UNCHANGED <<now, rowVars, sub, running, failedJobs, eventVars, liveNotices,
                   lost, crashes>>

\* addSurveyJobs, after the commit: the START job, then the END job.
QueueStart(h) ==
    /\ pay[h].pc = "queueStart"
    /\ queue' = queue \cup {NewJob("start", h)}
    /\ pay' = [pay EXCEPT ![h].pc = "queueEnd"]
    /\ UNCHANGED <<now, rowVars, sub, running, failedJobs, eventVars, liveNotices,
                   lost, crashes>>

QueueEnd(h) ==
    /\ pay[h].pc = "queueEnd"
    /\ queue' = queue \cup {NewJob("end", h)}
    /\ pay' = [pay EXCEPT ![h] = Idle]
    /\ UNCHANGED <<now, rowVars, sub, running, failedJobs, eventVars, liveNotices,
                   lost, crashes>>

\* The transaction rolls back (nothing happened), or Redis refuses a job after
\* the commit (the survey stays paid).
FailPayment(h) ==
    /\ pay[h] # Idle
    /\ lost' = IF pay[h].pc = "checked" THEN lost ELSE lost \cup {pay[h].survey}
    /\ pay' = [pay EXCEPT ![h] = Idle]
    /\ UNCHANGED <<now, rowVars, sub, jobVars, eventVars, liveNotices, crashes>>

-----------------------------------------------------------------------------
(* Participation                                                           *)

\* Mutants: the initiator, or the status of the survey, is not checked.
AdmitInitiator(h, s, u) ==
    /\ sub[h] = Idle /\ initiator[s] # Nobody /\ status[s] = "ongoing"
    /\ sub' = [sub EXCEPT ![h] = [pc |-> "admitted", survey |-> s, user |-> u]]
    /\ UNCHANGED <<now, rowVars, pay, jobVars, eventVars, liveNotices, lost, crashes>>

AdmitAnytime(h, s, u) ==
    /\ sub[h] = Idle /\ initiator[s] \notin {u, Nobody}
    /\ sub' = [sub EXCEPT ![h] = [pc |-> "admitted", survey |-> s, user |-> u]]
    /\ UNCHANGED <<now, rowVars, pay, jobVars, eventVars, liveNotices, lost, crashes>>

\* submitSurveyParticipation reads the survey: the initiator is refused (a
\* null initiator is a TypeError for everybody) and it must be ongoing.
AdmitSubmission(h, s, u) ==
    /\ sub[h] = Idle
    /\ initiator[s] \notin {u, Nobody}
    /\ status[s] = "ongoing"
    /\ sub' = [sub EXCEPT ![h] = [pc |-> "admitted", survey |-> s, user |-> u]]
    /\ UNCHANGED <<now, rowVars, pay, jobVars, eventVars, liveNotices, lost, crashes>>

Full(s) ==
    /\ form[s].limited
    /\ Cardinality(participants[s]) >= form[s].participantsCount

\* Mutant: the limit is not checked.
CountWithoutLimit(h) ==
    /\ sub[h].pc = "admitted"
    /\ sub[h].user \notin participants[sub[h].survey]
    /\ sub' = [sub EXCEPT ![h].pc = "counted"]
    /\ UNCHANGED <<now, rowVars, pay, jobVars, eventVars, liveNotices, lost, crashes>>

\* Then it reads the participants and applies the limit and the duplicate check.
CountParticipants(h) ==
    LET s == sub[h].survey IN
    /\ sub[h].pc = "admitted"
    /\ ~Full(s)
    /\ sub[h].user \notin participants[s]
    /\ sub' = [sub EXCEPT ![h].pc = "counted"]
    /\ UNCHANGED <<now, rowVars, pay, jobVars, eventVars, liveNotices, lost, crashes>>

\* The row is keyed by (survey, user): saving it twice leaves one row.
SaveParticipation(h) ==
    LET s == sub[h].survey IN
    /\ sub[h].pc = "counted"
    /\ participants' = [participants EXCEPT ![s] = @ \cup {sub[h].user}]
    /\ sub' = [sub EXCEPT ![h] = Idle]
    /\ UNCHANGED <<now, status, feePaid, form, initiator, payments, pay, jobVars,
                   eventVars, liveNotices, lost, crashes>>

\* A guard refuses the call, or the database does.
RefuseSubmission(h) ==
    /\ sub[h] # Idle
    /\ sub' = [sub EXCEPT ![h] = Idle]
    /\ UNCHANGED <<now, rowVars, pay, jobVars, eventVars, liveNotices, lost, crashes>>

-----------------------------------------------------------------------------
(* The Bull worker                                                         *)

DueTime(j) == IF j.kind = "start" THEN form[j.survey].start ELSE form[j.survey].end

\* Two named processors share the queue, so two jobs may run at once and a
\* retried START may be picked after the END of the same survey.
PickJob(w, j) ==
    /\ running[w] = Idle
    /\ j \in queue
    /\ DueTime(j) <= now
    /\ queue' = queue \ {j}
    /\ running' = [running EXCEPT ![w] = [pc |-> "picked", job |-> j]]
    /\ UNCHANGED <<now, rowVars, pay, sub, failedJobs, eventVars, liveNotices, lost,
                   crashes>>

\* Mutant: the name of the job is taken for the status.
TargetStatusFromJob(k) == IF k = "start" THEN "ongoing" ELSE "end_survey"

TargetStatus(k) == IF k = "start" THEN "ongoing" ELSE "ended"

\* updateSurveyStatus: UPDATE ... WHERE uuid AND feePaid, whatever the status.
UpdateSurveyStatus(w) ==
    LET j == running[w].job IN
    /\ running[w].pc = "picked"
    /\ status' = [status EXCEPT ![j.survey] =
                    IF feePaid[j.survey] THEN TargetStatus(j.kind) ELSE @]
    /\ running' = [running EXCEPT ![w].pc = "updated"]
    /\ UNCHANGED <<now, feePaid, form, initiator, participants, payments, pay, sub,
                   queue, failedJobs, eventVars, liveNotices, lost, crashes>>

\* startSurvey then saves and pushes the initiator's notice, if there is one.
NotifyLive(w) ==
    LET j == running[w].job IN
    /\ running[w].pc = "updated"
    /\ j.kind = "start"
    /\ liveNotices' = IF initiator[j.survey] = Nobody THEN liveNotices
                      ELSE liveNotices \cup {j.survey}
    /\ running' = [running EXCEPT ![w].pc = "acted"]
    /\ UNCHANGED <<now, rowVars, pay, sub, queue, failedJobs, eventVars, lost, crashes>>

NewEvent(j) == [pc |-> "emitted", survey |-> j.survey, payment |-> j.payment,
                chosen |-> {}, todo |-> {}]

\* endSurvey emits the completion event and does not wait for its handler.
EmitCompleted(w) ==
    LET j == running[w].job IN
    /\ running[w].pc = "updated"
    /\ j.kind = "end"
    /\ events' = events \cup {NewEvent(j)}
    /\ emitted' = [emitted EXCEPT ![j.survey] = @ + 1]
    /\ running' = [running EXCEPT ![w].pc = "acted"]
    /\ UNCHANGED <<now, rowVars, pay, sub, queue, failedJobs, rewards, notified,
                   resultMails, liveNotices, lost, crashes>>

\* removeOnComplete
CompleteJob(w) ==
    /\ running[w].pc = "acted"
    /\ running' = [running EXCEPT ![w] = Idle]
    /\ UNCHANGED <<now, rowVars, pay, sub, queue, failedJobs, eventVars, liveNotices,
                   lost, crashes>>

\* Mutant: endSurvey may still reject after it emitted the event.
FailJobLate(w) ==
    LET j == [running[w].job EXCEPT !.tries = @ + 1] IN
    /\ running[w] # Idle
    /\ running' = [running EXCEPT ![w] = Idle]
    /\ queue' = IF j.tries < MaxAttempts THEN queue \cup {j} ELSE queue
    /\ failedJobs' = IF j.tries < MaxAttempts THEN failedJobs ELSE failedJobs \cup {j}
    /\ UNCHANGED <<now, rowVars, pay, sub, eventVars, liveNotices, lost, crashes>>

\* The processor rejects: Bull retries at once until the attempts are used up.
\* endSurvey cannot reject any more once it has updated the status.
FailJob(w) ==
    LET j == [running[w].job EXCEPT !.tries = @ + 1] IN
    /\ running[w] # Idle
    /\ running[w].pc = "picked" \/ running[w].job.kind = "start"
    /\ running' = [running EXCEPT ![w] = Idle]
    /\ queue' = IF j.tries < MaxAttempts THEN queue \cup {j} ELSE queue
    /\ failedJobs' = IF j.tries < MaxAttempts THEN failedJobs ELSE failedJobs \cup {j}
    /\ UNCHANGED <<now, rowVars, pay, sub, eventVars, liveNotices, lost, crashes>>

-----------------------------------------------------------------------------
(* The completion event: EventEmitter.endSurvey                            *)

Advance(e, f) == events' = (events \ {e}) \cup {f}

\* Mutant: every participant is rewarded.
SelectionOfAll(s) == {participants[s]}

\* rewardDistribution picks rewardeesCount participants at random, or takes all
\* of them when there are fewer.
Selection(s) ==
    IF Cardinality(participants[s]) >= form[s].rewardeesCount
    THEN {W \in SUBSET participants[s] : Cardinality(W) = form[s].rewardeesCount}
    ELSE {participants[s]}

\* The wallets and the Reward rows are written in the open transaction.
CreditRewards(e, W) ==
    /\ e \in events
    /\ e.pc = "emitted"
    /\ W \in Selection(e.survey)
    /\ Advance(e, [e EXCEPT !.pc = "credited", !.chosen = W, !.todo = W])
    /\ UNCHANGED <<now, rowVars, pay, sub, jobVars, emitted, rewards, notified,
                   resultMails, liveNotices, lost, crashes>>

\* Mutant: the subscriber does not commit, so the rewards become durable with
\* the last notification only.
NotifyBeforeCommit(e, u) ==
    LET s == e.survey IN
    /\ e \in events /\ e.pc \in {"credited", "notifying"} /\ u \in e.todo
    /\ Advance(e, [e EXCEPT !.pc = "notifying", !.todo = @ \ {u}])
    /\ rewards' = IF e.todo # {u} THEN rewards
                  ELSE [rewards EXCEPT ![s] =
                          [v \in Users |-> @[v] + IF v \in e.chosen THEN 1 ELSE 0]]
    /\ notified' = [notified EXCEPT ![s] = @ \cup {u}]
    /\ UNCHANGED <<now, rowVars, pay, sub, jobVars, emitted, resultMails, liveNotices,
                   lost, crashes>>

\* saveNotifications inserts the notifications one by one, and after each the
\* NotificationSubscriber COMMITS the caller's transaction and opens another:
\* the first one makes all the rewards durable.
NotifyRewardee(e, u) ==
    LET s == e.survey IN
    /\ e \in events
    /\ e.pc \in {"credited", "notifying"}
    /\ u \in e.todo
    /\ Advance(e, [e EXCEPT !.pc = "notifying", !.todo = @ \ {u}])
    /\ rewards' = IF e.pc = "notifying" THEN rewards
                  ELSE [rewards EXCEPT ![s] =
                          [v \in Users |-> @[v] + IF v \in e.chosen THEN 1 ELSE 0]]
    /\ notified' = [notified EXCEPT ![s] = @ \cup {u}]
    /\ UNCHANGED <<now, rowVars, pay, sub, jobVars, emitted, resultMails, liveNotices,
                   lost, crashes>>

\* sendSurveyResult
SendResult(e) ==
    /\ e \in events
    /\ e.pc \in {"credited", "notifying"}
    /\ e.todo = {}
    /\ Advance(e, [e EXCEPT !.pc = "mailed"])
    /\ resultMails' = [resultMails EXCEPT ![e.survey] = @ + 1]
    /\ UNCHANGED <<now, rowVars, pay, sub, jobVars, emitted, rewards, notified,
                   liveNotices, lost, crashes>>

\* The initiator's notification and the last commit.
CloseEvent(e) ==
    /\ e \in events
    /\ e.pc = "mailed"
    /\ events' = events \ {e}
    /\ notified' = [notified EXCEPT ![e.survey] = @ \cup ({initiator[e.survey]} \ {Nobody})]
    /\ UNCHANGED <<now, rowVars, pay, sub, jobVars, emitted, rewards, resultMails,
                   liveNotices, lost, crashes>>

\* Any step may throw.  What the subscriber has committed stays, the rest is
\* rolled back, the error is logged and nothing retries.
FailEvent(e) ==
    /\ e \in events
    /\ events' = events \ {e}
    /\ UNCHANGED <<now, rowVars, pay, sub, jobVars, emitted, rewards, notified,
                   resultMails, liveNotices, lost, crashes>>

-----------------------------------------------------------------------------
(* Crash                                                                   *)

Active == {running[w].job : w \in {x \in WorkerSlots : running[x] # Idle}}

Stalled(j) == [j EXCEPT !.stalls = @ + 1]

\* Mutant: nothing recovers the jobs of a dead worker.
CrashForgetsJobs ==
    /\ crashes < MaxCrashes
    /\ crashes' = crashes + 1
    /\ lost' = lost \cup {pay[h].survey :
                  h \in {x \in PayHandlers : pay[x].pc \in {"queueStart", "queueEnd"}}}
    /\ pay' = [h \in PayHandlers |-> Idle]
    /\ sub' = [h \in SubHandlers |-> Idle]
    /\ running' = [w \in WorkerSlots |-> Idle]
    /\ events' = {}
    /\ UNCHANGED <<now, rowVars, queue, failedJobs, emitted, rewards, notified,
                   resultMails, liveNotices>>

\* The process dies.  Open transactions roll back; Bull finds the jobs whose
\* lock expired and makes them wait again, or fails them on the second stall.
Crash ==
    /\ crashes < MaxCrashes
    /\ crashes' = crashes + 1
    /\ lost' = lost \cup {pay[h].survey :
                  h \in {x \in PayHandlers : pay[x].pc \in {"queueStart", "queueEnd"}}}
    /\ pay' = [h \in PayHandlers |-> Idle]
    /\ sub' = [h \in SubHandlers |-> Idle]
    /\ running' = [w \in WorkerSlots |-> Idle]
    /\ queue' = queue \cup {Stalled(j) : j \in {k \in Active : k.stalls < MaxStalls}}
    /\ failedJobs' = failedJobs \cup {Stalled(j) : j \in {k \in Active : k.stalls >= MaxStalls}}
    /\ events' = {}
    /\ UNCHANGED <<now, rowVars, emitted, rewards, notified, resultMails, liveNotices>>

-----------------------------------------------------------------------------
(* Specification                                                           *)

Registration == \E s \in Surveys, f \in Forms, u \in Users \cup {Nobody} :
                   RegisterSurvey(s, f, u)

Payment ==
    \E h \in PayHandlers :
        \/ \E s \in Surveys : CheckPayment(h, s)
        \/ CommitPayment(h)
        \/ QueueStart(h)
        \/ QueueEnd(h)
        \/ FailPayment(h)

Participation ==
    \E h \in SubHandlers :
        \/ \E s \in Surveys, u \in Users : AdmitSubmission(h, s, u)
        \/ CountParticipants(h)
        \/ SaveParticipation(h)
        \/ RefuseSubmission(h)

WorkerStep(w) ==
    \/ \E j \in queue : PickJob(w, j)
    \/ UpdateSurveyStatus(w)
    \/ NotifyLive(w)
    \/ EmitCompleted(w)
    \/ CompleteJob(w)

Worker == \E w \in WorkerSlots : WorkerStep(w) \/ FailJob(w)

EventStep(e) ==
    \/ \E W \in SUBSET Users : CreditRewards(e, W)
    \/ \E u \in Users : NotifyRewardee(e, u)
    \/ SendResult(e)
    \/ CloseEvent(e)

Completion == \E e \in events : EventStep(e) \/ FailEvent(e)

Next == Tick \/ Registration \/ Payment \/ Participation \/ Worker \/ Completion \/ Crash

Spec == Init /\ [][Next]_vars

\* A started handler is scheduled until it returns, the clock advances, and
\* Bull runs every due job.  Clients promise nothing.
Fairness ==
    /\ WF_vars(Tick)
    /\ \A h \in PayHandlers : WF_vars(QueueStart(h) \/ QueueEnd(h))
    /\ \A w \in WorkerSlots : WF_vars(WorkerStep(w))

FairSpec == Spec /\ Fairness

-----------------------------------------------------------------------------
(* Properties                                                              *)

JobsOf(s) == {j \in queue \cup Active \cup failedJobs : j.survey = s}
Rewarded(s) == {u \in Users : rewards[s][u] > 0}

\* A survey leaves "disabled" exactly when its fee is paid and never returns to
\* it: two racing payments, late jobs and stalled workers included.
RunningIsPaid ==
    \A s \in Surveys : feePaid[s] <=> status[s] \in {"enabled", "ongoing", "ended"}

\* Whoever is rewarded for a survey took part in it, is not its initiator, and
\* the survey was paid for, however stale the reads of the handlers were.
RewardsAreEarned ==
    \A s \in Surveys : Rewarded(s) # {} =>
        /\ feePaid[s]
        /\ Rewarded(s) \subseteq participants[s] \ {initiator[s]}

\* What a handler that lives on a stale read may still take for granted,
\* because the facts it read never turn false again: the survey it holds exists,
\* was paid for, has that initiator, and keeps its participants.
PayReads ==
    \A h \in PayHandlers : pay[h] # Idle =>
        /\ status[pay[h].survey] # "absent"
        /\ pay[h].pc # "checked" => feePaid[pay[h].survey]
SubReads ==
    \A h \in SubHandlers : sub[h] # Idle =>
        /\ feePaid[sub[h].survey]
        /\ sub[h].user # initiator[sub[h].survey]
JobReads ==
    /\ \A j \in queue : feePaid[j.survey]
    /\ \A w \in WorkerSlots : running[w] # Idle => feePaid[running[w].job.survey]
EventReads ==
    \A e \in events :
        /\ feePaid[e.survey]
        /\ e.chosen \subseteq participants[e.survey]
        /\ e.todo \subseteq e.chosen

\* Nobody takes part in a survey that was not paid for, and the initiator never.
ParticipationIsFair ==
    \A s \in Surveys :
        /\ initiator[s] \notin participants[s]
        /\ participants[s] # {} => feePaid[s]

\* The inductive invariant behind RewardsAreEarned and RunningIsPaid.
EconomyInv ==
    /\ RunningIsPaid /\ ParticipationIsFair /\ RewardsAreEarned
    /\ PayReads /\ SubReads /\ JobReads /\ EventReads

\* The rewards are durable before anybody hears of them: no reward notification
\* and no result mail refers to credits that a rollback can still undo.
HeardAfterCredited ==
    /\ \A s \in Surveys : notified[s] \ {initiator[s]} \subseteq Rewarded(s)
    /\ \A e \in events : e.pc = "mailed" => e.chosen \subseteq Rewarded(e.survey)

\* The payment calls past the feePaid check, and the submissions past the count.
Paying(s)  == {h \in PayHandlers : pay[h].pc = "checked" /\ pay[h].survey = s}
Joining(s) == {h \in SubHandlers : sub[h].pc = "counted" /\ sub[h].survey = s}

\* Concurrent payment calls can pay a survey more than once, but only calls that
\* were already past the feePaid check when the first one committed.
PaymentsBounded ==
    \A s \in Surveys : payments[s] <= Cardinality(PayHandlers)

\* The inductive form: payments made and payments still to be made share the
\* bound, and there is none of the first kind before feePaid is set.
PaymentsInv ==
    \A s \in Surveys :
        /\ ~feePaid[s] => payments[s] = 0
        /\ payments[s] + Cardinality(Paying(s)) <= Cardinality(PayHandlers)

\* A survey is distributed once per payment, and again only for an END job that
\* a dead worker left behind; a retry after an error never repeats it.
DistributionsBounded ==
    \A s \in Surveys :
        /\ emitted[s] <= payments[s] * (1 + MaxStalls)
        /\ emitted[s] <= payments[s] * (1 + crashes)
        /\ \A u \in Users : rewards[s][u] <= emitted[s]

\* The limit on participants is checked on a count that may be stale; the calls
\* running at the same time are all that can get past it.
OverrunBounded ==
    \A s \in Surveys : form[s].limited =>
        Cardinality(participants[s]) < form[s].participantsCount + Cardinality(SubHandlers)

\* The inductive form: whoever has counted below the limit may still join.
OverrunInv ==
    \A s \in Surveys :
        /\ IsFiniteSet(participants[s])
        /\ Joining(s) # {} => status[s] # "absent"
        /\ status[s] = "absent" => participants[s] = {} /\ ~form[s].limited
        /\ status[s] # "absent" /\ form[s].limited =>
             Cardinality(participants[s]) + Cardinality(Joining(s))
               < form[s].participantsCount + Cardinality(SubHandlers)

\* A paid survey is on its way to its end: its END job is somewhere in Bull, or
\* has emitted the completion event, or is about to be queued.  The commit that
\* precedes addSurveyJobs leaves exactly one gap, recorded in lost.
PaidIsScheduled ==
    \A s \in Surveys : feePaid[s] =>
        \/ \E j \in JobsOf(s) : j.kind = "end"
        \/ emitted[s] > 0
        \/ \E h \in PayHandlers : pay[h].pc \in {"queueStart", "queueEnd"} /\ pay[h].survey = s
        \/ s \in lost

\* Nothing that could reopen the survey is left: no START job that may still
\* run and no payment call that may still commit.
Settled(s) ==
    /\ status[s] = "ended"
    /\ \A j \in queue \cup Active : j.survey = s => j.kind = "end"
    /\ \A h \in PayHandlers :
          pay[h] # Idle /\ pay[h].survey = s => pay[h].pc = "queueEnd"
    /\ \A h \in SubHandlers : sub[h] # Idle => sub[h].survey # s

\* A settled survey is over: it is never reopened, paid again or joined.
SettledForGood ==
    [][\A s \in Surveys : Settled(s) =>
         /\ Settled(s)'
         /\ participants'[s] = participants[s]
         /\ payments'[s] = payments[s]]_vars

\* With a fair worker every paid survey is completed, unless its END job fails
\* MaxAttempts times or was never queued.
PaidSurveysComplete ==
    \A s \in Surveys :
        feePaid[s] ~> \/ emitted[s] > 0
                      \/ \E j \in failedJobs : j.survey = s /\ j.kind = "end"
                      \/ s \in lost

\* What a client may rely on, with each distribution a single atomic step.
Promise == INSTANCE RewardPromise
    WITH funded   <- payments,
         joined   <- participants,
         credited <- rewards,
         quota    <- [s \in Surveys |-> form[s].rewardeesCount]

PromiseKept == Promise!Spec

-----------------------------------------------------------------------------
(* Statements of the repository that the code does not keep                *)

\* utils/enum: PAYMENT_ALREADY_MAKE = 'Survey payment already make'
PaidOnce == \A s \in Surveys : payments[s] <= 1

\* utils/enum: PARTICIPATED_COUNT_COMPLETED = 'Participate limit completed'
LimitRespected ==
    \A s \in Surveys : form[s].limited =>
        Cardinality(participants[s]) <= form[s].participantsCount

\* utils/enum: END_DATE_GREATER_THAN_START =
\* 'Ending date must be greater than starting date'
EndsAfterStart == \A s \in Surveys : status[s] # "absent" => form[s].start < form[s].end

\* test/payment: after the END job, 'Test Survey Status Ended' expects ENDED
EndedStaysEnded == [][\A s \in Surveys : status[s] = "ended" => status'[s] = "ended"]_vars
=============================================================================
