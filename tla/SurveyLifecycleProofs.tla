------------------------ MODULE SurveyLifecycleProofs ------------------------
(***************************************************************************)
(* Theorems about SurveyLifecycle, for every set of users, surveys, forms  *)
(* and handlers, every number of attempts, stalls and crashes: what always *)
(* holds, how far the races can go (no more payments than payment calls,   *)
(* no more participants past the limit than submissions running at once,   *)
(* no more distributions than payments and crashes allow), and what is     *)
(* left when the races are looked away from: the promise is kept.          *)
(***************************************************************************)
EXTENDS SurveyLifecycle, FiniteSetTheorems, TLAPS

-----------------------------------------------------------------------------
(* Type correctness                                                        *)

\* The survey machine starts with values of the declared types.
LEMMA InitTypeOK == Init => TypeOK
  BY FormsAssumption DEF Init, TypeOK, Status, FormType, NoForm, Idle

\* Bull counts failed attempts and stalls on the job itself.
LEMMA JobUpdates ==
  ASSUME NEW j \in Job
  PROVE  /\ [j EXCEPT !.tries = @ + 1] \in Job
         /\ Stalled(j) \in Job
  BY DEF Job, Stalled

\* A running slot holds a job.
LEMMA RunningJob ==
  ASSUME TypeOK, NEW w \in WorkerSlots, running[w] # Idle
  PROVE  running[w] \in Run /\ running[w].job \in Job
  BY DEF TypeOK, Run

\* The steps of the event handler keep it an event.
LEMMA EventUpdates ==
  ASSUME NEW e \in Event, NEW pc \in {"emitted", "credited", "notifying", "mailed"},
         NEW W \in SUBSET Users
  PROVE  /\ [e EXCEPT !.pc = pc] \in Event
         /\ [e EXCEPT !.pc = pc, !.chosen = W, !.todo = W] \in Event
         /\ \A u \in Users : [e EXCEPT !.pc = pc, !.todo = @ \ {u}] \in Event
  BY DEF Event

\* Every step of every handler, job, event, crash and the clock keeps the types.
LEMMA NextTypeOK == TypeOK /\ [Next]_vars => TypeOK'
<1> SUFFICES ASSUME TypeOK, [Next]_vars PROVE TypeOK'
  OBVIOUS
<1> USE DEF TypeOK, rowVars, jobVars, eventVars
<1>1. CASE Tick
  BY <1>1 DEF Tick
<1>2. ASSUME NEW s \in Surveys, NEW f \in Forms, NEW u \in Users \cup {Nobody},
             RegisterSurvey(s, f, u)
      PROVE  TypeOK'
  BY <1>2, FormsAssumption DEF RegisterSurvey, Status
<1>3. ASSUME NEW h \in PayHandlers, NEW s \in Surveys, CheckPayment(h, s)
      PROVE  TypeOK'
  BY <1>3 DEF CheckPayment, PayCall
<1>4. ASSUME NEW h \in PayHandlers, CommitPayment(h)
      PROVE  TypeOK'
  BY <1>4 DEF CommitPayment, PayCall, Idle, Status
<1>5. ASSUME NEW h \in PayHandlers, QueueStart(h)
      PROVE  TypeOK'
  BY <1>5 DEF QueueStart, NewJob, PayCall, Idle, Job, JobKind
<1>6. ASSUME NEW h \in PayHandlers, QueueEnd(h)
      PROVE  TypeOK'
  BY <1>6 DEF QueueEnd, NewJob, PayCall, Idle, Job, JobKind
<1>7. ASSUME NEW h \in PayHandlers, FailPayment(h)
      PROVE  TypeOK'
  BY <1>7 DEF FailPayment, PayCall, Idle
<1>8. ASSUME NEW h \in SubHandlers, NEW s \in Surveys, NEW u \in Users,
             AdmitSubmission(h, s, u)
      PROVE  TypeOK'
  BY <1>8 DEF AdmitSubmission, SubCall
<1>9. ASSUME NEW h \in SubHandlers, CountParticipants(h)
      PROVE  TypeOK'
  BY <1>9 DEF CountParticipants, SubCall, Idle
<1>10. ASSUME NEW h \in SubHandlers, SaveParticipation(h)
       PROVE  TypeOK'
  BY <1>10 DEF SaveParticipation, SubCall, Idle
<1>11. ASSUME NEW h \in SubHandlers, RefuseSubmission(h)
       PROVE  TypeOK'
  BY <1>11 DEF RefuseSubmission
<1>12. ASSUME NEW w \in WorkerSlots, NEW j \in queue, PickJob(w, j)
       PROVE  TypeOK'
  BY <1>12 DEF PickJob, Run
<1>13. ASSUME NEW w \in WorkerSlots, UpdateSurveyStatus(w)
       PROVE  TypeOK'
  BY <1>13 DEF UpdateSurveyStatus, TargetStatus, Run, Idle, Job, Status
<1>14. ASSUME NEW w \in WorkerSlots, NotifyLive(w)
       PROVE  TypeOK'
  BY <1>14 DEF NotifyLive, Run, Idle, Job
<1>15. ASSUME NEW w \in WorkerSlots, EmitCompleted(w)
       PROVE  TypeOK'
  BY <1>15 DEF EmitCompleted, NewEvent, Event, Run, Idle, Job
<1>16. ASSUME NEW w \in WorkerSlots, CompleteJob(w)
       PROVE  TypeOK'
  BY <1>16 DEF CompleteJob
<1>17. ASSUME NEW w \in WorkerSlots, FailJob(w)
       PROVE  TypeOK'
  <2>1. running[w].job \in Job
    BY <1>17, RunningJob DEF FailJob
  <2>2. [running[w].job EXCEPT !.tries = @ + 1] \in Job
    BY <2>1, JobUpdates
  <2> QED BY <1>17, <2>2 DEF FailJob
<1>18. ASSUME NEW e \in events, NEW W \in SUBSET Users, CreditRewards(e, W)
       PROVE  TypeOK'
  <2>1. [e EXCEPT !.pc = "credited", !.chosen = W, !.todo = W] \in Event
    BY EventUpdates
  <2> QED BY <1>18, <2>1 DEF CreditRewards, Advance
<1>19. ASSUME NEW e \in events, NEW u \in Users, NotifyRewardee(e, u)
       PROVE  TypeOK'
  <2>1. e \in Event
    OBVIOUS
  <2>2. events' \subseteq Event
    BY <1>19, <2>1, EventUpdates DEF NotifyRewardee, Advance
  <2>3. rewards' \in [Surveys -> [Users -> Nat]]
    <3>1. [v \in Users |-> rewards[e.survey][v] + IF v \in e.chosen THEN 1 ELSE 0]
             \in [Users -> Nat]
      BY <2>1 DEF Event
    <3> QED BY <1>19, <3>1 DEF NotifyRewardee
  <2>4. notified' \in [Surveys -> SUBSET Users]
    BY <1>19 DEF NotifyRewardee
  <2> QED BY <1>19, <2>2, <2>3, <2>4 DEF NotifyRewardee
<1>20. ASSUME NEW e \in events, SendResult(e)
       PROVE  TypeOK'
  <2>1. [e EXCEPT !.pc = "mailed"] \in Event
    BY EventUpdates
  <2>2. resultMails' \in [Surveys -> Nat]
    <3>1. e.survey \in Surveys /\ resultMails[e.survey] + 1 \in Nat
      BY DEF Event
    <3> QED BY <1>20, <3>1 DEF SendResult
  <2>3. events' \subseteq Event
    BY <1>20, <2>1 DEF SendResult, Advance
  <2> QED BY <1>20, <2>2, <2>3 DEF SendResult
<1>21. ASSUME NEW e \in events, CloseEvent(e)
       PROVE  TypeOK'
  BY <1>21 DEF CloseEvent, Event
<1>22. ASSUME NEW e \in events, FailEvent(e)
       PROVE  TypeOK'
  BY <1>22 DEF FailEvent
<1>23. CASE Crash
  <2>1. Active \subseteq Job
    BY DEF Active, Run, Idle
  <2>2. queue' \subseteq Job /\ failedJobs' \subseteq Job
    BY <1>23, <2>1, JobUpdates DEF Crash
  <2>3. lost' \subseteq Surveys
    BY <1>23 DEF Crash, PayCall, Idle
  <2> QED BY <1>23, <2>2, <2>3 DEF Crash
<1>24. CASE UNCHANGED vars
  BY <1>24 DEF vars
<1> QED
  BY <1>1, <1>2, <1>3, <1>4, <1>5, <1>6, <1>7, <1>8, <1>9, <1>10, <1>11, <1>12,
     <1>13, <1>14, <1>15, <1>16, <1>17, <1>18, <1>19, <1>20, <1>21, <1>22, <1>23, <1>24
     DEF Next, Registration, Payment, Participation, Worker, WorkerStep, Completion,
         EventStep

\* Type correctness of the survey machine.
THEOREM SurveyTypeCorrect == Spec => []TypeOK
  BY InitTypeOK, NextTypeOK, PTL DEF Spec

-----------------------------------------------------------------------------
(* The economy: paid surveys, fair participation, earned rewards           *)

\* Nothing is paid, joined or rewarded at the start.
LEMMA InitEconomyInv == Init => EconomyInv
  BY DEF Init, EconomyInv, RunningIsPaid, ParticipationIsFair, RewardsAreEarned,
         PayReads, SubReads, JobReads, EventReads, Rewarded

\* Every step keeps the economy invariant: the rows only grow, so what a handler
\* read before it was suspended still holds when it writes.
LEMMA NextEconomyInv == TypeOK /\ EconomyInv /\ [Next]_vars => EconomyInv'
<1> SUFFICES ASSUME TypeOK, EconomyInv, [Next]_vars PROVE EconomyInv'
  OBVIOUS
<1> USE DEF EconomyInv, rowVars, jobVars, eventVars
<1>1. CASE Tick
  BY <1>1 DEF Tick, RunningIsPaid, ParticipationIsFair, RewardsAreEarned, Rewarded,
     PayReads, SubReads, JobReads, EventReads
<1>2. ASSUME NEW s \in Surveys, NEW f \in Forms, NEW u \in Users \cup {Nobody},
       RegisterSurvey(s, f, u)
      PROVE  EconomyInv'
  <2>1. RunningIsPaid'
    BY <1>2 DEF RegisterSurvey, TypeOK, RunningIsPaid, Status
  <2>2. ParticipationIsFair'
    BY <1>2 DEF RegisterSurvey, TypeOK, ParticipationIsFair, RunningIsPaid
  <2>3. RewardsAreEarned'
    BY <1>2 DEF RegisterSurvey, TypeOK, RewardsAreEarned, Rewarded, Event,
           RunningIsPaid, ParticipationIsFair
  <2>4. PayReads'
    BY <1>2 DEF RegisterSurvey, TypeOK, PayReads, PayCall, Idle
  <2>5. SubReads'
    BY <1>2 DEF RegisterSurvey, TypeOK, SubReads, SubCall, Idle, RunningIsPaid
  <2>6. JobReads' /\ EventReads'
    BY <1>2 DEF RegisterSurvey, JobReads, EventReads
  <2> QED BY <2>1, <2>2, <2>3, <2>4, <2>5, <2>6
<1>3. ASSUME NEW h \in PayHandlers, NEW s \in Surveys, CheckPayment(h, s)
      PROVE  EconomyInv'
  <2>1. PayReads'
    BY <1>3 DEF CheckPayment, TypeOK, PayReads, PayCall, Idle
  <2>2. RunningIsPaid' /\ ParticipationIsFair' /\ RewardsAreEarned' /\ SubReads' /\
         JobReads' /\ EventReads'
    BY <1>3 DEF CheckPayment, RunningIsPaid, ParticipationIsFair, RewardsAreEarned,
           SubReads, JobReads, EventReads, Rewarded
  <2> QED BY <2>1, <2>2
<1>4. ASSUME NEW h \in PayHandlers, CommitPayment(h)
      PROVE  EconomyInv'
  <2>1. RunningIsPaid'
    BY <1>4 DEF CommitPayment, TypeOK, RunningIsPaid, Status, PayCall, Idle
  <2>2. PayReads'
    BY <1>4 DEF CommitPayment, TypeOK, PayReads, PayCall, Idle
  <2>3. ParticipationIsFair' /\ RewardsAreEarned' /\ SubReads' /\ JobReads' /\
         EventReads'
    BY <1>4 DEF CommitPayment, ParticipationIsFair, RewardsAreEarned, SubReads,
           JobReads, EventReads, TypeOK, Rewarded
  <2> QED BY <2>1, <2>2, <2>3
<1>5. ASSUME NEW h \in PayHandlers, QueueStart(h)
      PROVE  EconomyInv'
  <2>1. PayReads'
    BY <1>5 DEF QueueStart, NewJob, TypeOK, PayReads, PayCall, Idle
  <2>2. JobReads'
    BY <1>5 DEF QueueStart, NewJob, TypeOK, JobReads, Run, Job, Idle, PayReads,
           PayCall
  <2>3. RunningIsPaid' /\ ParticipationIsFair' /\ RewardsAreEarned' /\ SubReads' /\
         EventReads'
    BY <1>5 DEF QueueStart, RunningIsPaid, ParticipationIsFair, RewardsAreEarned,
           SubReads, EventReads, Rewarded
  <2> QED BY <2>1, <2>2, <2>3
<1>6. ASSUME NEW h \in PayHandlers, QueueEnd(h)
      PROVE  EconomyInv'
  <2>1. PayReads'
    BY <1>6 DEF QueueEnd, NewJob, TypeOK, PayReads, PayCall, Idle
  <2>2. JobReads'
    BY <1>6 DEF QueueEnd, NewJob, TypeOK, JobReads, Run, Job, Idle, PayReads,
           PayCall
  <2>3. RunningIsPaid' /\ ParticipationIsFair' /\ RewardsAreEarned' /\ SubReads' /\
         EventReads'
    BY <1>6 DEF QueueEnd, RunningIsPaid, ParticipationIsFair, RewardsAreEarned,
           SubReads, EventReads, Rewarded
  <2> QED BY <2>1, <2>2, <2>3
<1>7. ASSUME NEW h \in PayHandlers, FailPayment(h)
      PROVE  EconomyInv'
  <2>1. PayReads'
    BY <1>7 DEF FailPayment, TypeOK, PayReads, PayCall, Idle
  <2>2. RunningIsPaid' /\ ParticipationIsFair' /\ RewardsAreEarned' /\ SubReads' /\
         JobReads' /\ EventReads'
    BY <1>7 DEF FailPayment, RunningIsPaid, ParticipationIsFair, RewardsAreEarned,
           SubReads, JobReads, EventReads, Rewarded
  <2> QED BY <2>1, <2>2
<1>8. ASSUME NEW h \in SubHandlers, NEW s \in Surveys, NEW u \in Users,
       AdmitSubmission(h, s, u)
      PROVE  EconomyInv'
  <2>1. SubReads'
    BY <1>8 DEF AdmitSubmission, TypeOK, SubReads, SubCall, Idle, RunningIsPaid,
           Status
  <2>2. RunningIsPaid' /\ ParticipationIsFair' /\ RewardsAreEarned' /\ PayReads' /\
         JobReads' /\ EventReads'
    BY <1>8 DEF AdmitSubmission, RunningIsPaid, ParticipationIsFair,
           RewardsAreEarned, PayReads, JobReads, EventReads, Rewarded
  <2> QED BY <2>1, <2>2
<1>9. ASSUME NEW h \in SubHandlers, CountParticipants(h)
      PROVE  EconomyInv'
  <2>1. SubReads'
    BY <1>9 DEF CountParticipants, TypeOK, SubReads, SubCall, Idle
  <2>2. RunningIsPaid' /\ ParticipationIsFair' /\ RewardsAreEarned' /\ PayReads' /\
         JobReads' /\ EventReads'
    BY <1>9 DEF CountParticipants, RunningIsPaid, ParticipationIsFair,
           RewardsAreEarned, PayReads, JobReads, EventReads, Rewarded
  <2> QED BY <2>1, <2>2
<1>10. ASSUME NEW h \in SubHandlers, SaveParticipation(h)
      PROVE  EconomyInv'
  <2>1. ParticipationIsFair'
    BY <1>10 DEF SaveParticipation, TypeOK, ParticipationIsFair, SubReads, SubCall,
           Idle
  <2>2. RewardsAreEarned'
    BY <1>10 DEF SaveParticipation, TypeOK, RewardsAreEarned, Rewarded, Event,
           ParticipationIsFair, SubReads, SubCall, Idle
  <2>3. SubReads'
    BY <1>10 DEF SaveParticipation, TypeOK, SubReads, SubCall, Idle
  <2>4. EventReads'
    BY <1>10 DEF SaveParticipation, TypeOK, EventReads, Event
  <2>5. RunningIsPaid' /\ PayReads' /\ JobReads'
    BY <1>10 DEF SaveParticipation, RunningIsPaid, PayReads, JobReads
  <2> QED BY <2>1, <2>2, <2>3, <2>4, <2>5
<1>11. ASSUME NEW h \in SubHandlers, RefuseSubmission(h)
      PROVE  EconomyInv'
  <2>1. SubReads'
    BY <1>11 DEF RefuseSubmission, TypeOK, SubReads, SubCall, Idle
  <2>2. RunningIsPaid' /\ ParticipationIsFair' /\ RewardsAreEarned' /\ PayReads' /\
         JobReads' /\ EventReads'
    BY <1>11 DEF RefuseSubmission, RunningIsPaid, ParticipationIsFair,
           RewardsAreEarned, PayReads, JobReads, EventReads, Rewarded
  <2> QED BY <2>1, <2>2
<1>12. ASSUME NEW w \in WorkerSlots, NEW j \in queue, PickJob(w, j)
      PROVE  EconomyInv'
  <2>1. JobReads'
    BY <1>12 DEF PickJob, TypeOK, JobReads, Run, Job, Idle
  <2>2. RunningIsPaid' /\ ParticipationIsFair' /\ RewardsAreEarned' /\ PayReads' /\
         SubReads' /\ EventReads'
    BY <1>12 DEF PickJob, RunningIsPaid, ParticipationIsFair, RewardsAreEarned,
           PayReads, SubReads, EventReads, Rewarded
  <2> QED BY <2>1, <2>2
<1>13. ASSUME NEW w \in WorkerSlots, UpdateSurveyStatus(w)
      PROVE  EconomyInv'
  <2>1. RunningIsPaid'
    BY <1>13 DEF UpdateSurveyStatus, TargetStatus, TypeOK, RunningIsPaid, Status,
           PayReads, Run, Job, Idle
  <2>2. PayReads'
    BY <1>13 DEF UpdateSurveyStatus, TargetStatus, TypeOK, PayReads, PayCall, Idle,
           RunningIsPaid, Run, Job
  <2>3. JobReads'
    BY <1>13 DEF UpdateSurveyStatus, TargetStatus, TypeOK, JobReads, Run, Job, Idle,
           RunningIsPaid
  <2>4. ParticipationIsFair' /\ RewardsAreEarned' /\ SubReads' /\ EventReads'
    BY <1>13 DEF UpdateSurveyStatus, ParticipationIsFair, RewardsAreEarned,
           SubReads, EventReads, Rewarded
  <2> QED BY <2>1, <2>2, <2>3, <2>4
<1>14. ASSUME NEW w \in WorkerSlots, NotifyLive(w)
      PROVE  EconomyInv'
  <2>1. JobReads'
    BY <1>14 DEF NotifyLive, TypeOK, JobReads, Run, Job, Idle
  <2>2. RunningIsPaid' /\ ParticipationIsFair' /\ RewardsAreEarned' /\ PayReads' /\
         SubReads' /\ EventReads'
    BY <1>14 DEF NotifyLive, RunningIsPaid, ParticipationIsFair, RewardsAreEarned,
           PayReads, SubReads, EventReads, Rewarded
  <2> QED BY <2>1, <2>2
<1>15. ASSUME NEW w \in WorkerSlots, EmitCompleted(w)
      PROVE  EconomyInv'
  <2>1. JobReads'
    BY <1>15 DEF EmitCompleted, NewEvent, TypeOK, JobReads, Run, Job, Idle
  <2>2. EventReads'
    <3>1. NewEvent(running[w].job).survey \in Surveys /\ feePaid[running[w].job.survey]
      BY <1>15, RunningJob DEF EmitCompleted, NewEvent, JobReads, Job, Idle
    <3>2. events' = events \cup {NewEvent(running[w].job)} /\ UNCHANGED <<feePaid, participants>>
      BY <1>15 DEF EmitCompleted
    <3> QED BY <3>1, <3>2 DEF EventReads, NewEvent
  <2>3. RunningIsPaid' /\ ParticipationIsFair' /\ RewardsAreEarned' /\ PayReads' /\
         SubReads'
    BY <1>15 DEF EmitCompleted, RunningIsPaid, ParticipationIsFair,
           RewardsAreEarned, PayReads, SubReads, Rewarded
  <2> QED BY <2>1, <2>2, <2>3
<1>16. ASSUME NEW w \in WorkerSlots, CompleteJob(w)
      PROVE  EconomyInv'
  <2>1. JobReads'
    BY <1>16 DEF CompleteJob, TypeOK, JobReads, Run, Job, Idle
  <2>2. RunningIsPaid' /\ ParticipationIsFair' /\ RewardsAreEarned' /\ PayReads' /\
         SubReads' /\ EventReads'
    BY <1>16 DEF CompleteJob, RunningIsPaid, ParticipationIsFair, RewardsAreEarned,
           PayReads, SubReads, EventReads, Rewarded
  <2> QED BY <2>1, <2>2
<1>17. ASSUME NEW w \in WorkerSlots, FailJob(w)
      PROVE  EconomyInv'
  <2>1. JobReads'
    <3>1. feePaid[running[w].job.survey] /\ running[w].job \in Job
      BY <1>17, RunningJob DEF FailJob, JobReads
    <3>2. [running[w].job EXCEPT !.tries = @ + 1].survey = running[w].job.survey
      BY <3>1 DEF Job
    <3>3. \A j \in queue' : feePaid[j.survey]
      BY <1>17, <3>1, <3>2 DEF FailJob, JobReads
    <3>4. \A x \in WorkerSlots : running'[x] # Idle => feePaid[running'[x].job.survey]
      BY <1>17 DEF FailJob, JobReads, TypeOK
    <3> QED BY <1>17, <3>3, <3>4 DEF FailJob, JobReads
  <2>2. RunningIsPaid' /\ ParticipationIsFair' /\ RewardsAreEarned' /\ PayReads' /\
         SubReads' /\ EventReads'
    BY <1>17 DEF FailJob, RunningIsPaid, ParticipationIsFair, RewardsAreEarned,
           PayReads, SubReads, EventReads, Rewarded
  <2> QED BY <2>1, <2>2
<1>18. ASSUME NEW e \in events, NEW W \in SUBSET Users, CreditRewards(e, W)
      PROVE  EconomyInv'
  <2>1. EventReads'
    <3>1. e \in Event /\ W \subseteq participants[e.survey]
      BY <1>18 DEF CreditRewards, Selection, TypeOK, Event
    <3>2. DEFINE f == [e EXCEPT !.pc = "credited", !.chosen = W, !.todo = W]
    <3>3. f.survey = e.survey /\ f.chosen = W /\ f.todo = W
      BY <3>1 DEF Event
    <3>4. events' = (events \ {e}) \cup {f} /\ UNCHANGED <<feePaid, participants>>
      BY <1>18 DEF CreditRewards, Advance
    <3> HIDE DEF f
    <3> QED BY <3>1, <3>3, <3>4 DEF EventReads
  <2>2. RunningIsPaid' /\ ParticipationIsFair' /\ RewardsAreEarned' /\ PayReads' /\
         SubReads' /\ JobReads'
    BY <1>18 DEF CreditRewards, RunningIsPaid, ParticipationIsFair,
           RewardsAreEarned, PayReads, SubReads, JobReads, Rewarded
  <2> QED BY <2>1, <2>2
<1>19. ASSUME NEW e \in events, NEW u \in Users, NotifyRewardee(e, u)
      PROVE  EconomyInv'
  <2>1. RewardsAreEarned'
    BY <1>19 DEF NotifyRewardee, Advance, TypeOK, RewardsAreEarned, Rewarded, Event,
           EventReads, ParticipationIsFair
  <2>2. EventReads'
    <3>1. e \in Event
      BY DEF TypeOK
    <3>2. DEFINE f == [e EXCEPT !.pc = "notifying", !.todo = @ \ {u}]
    <3>3. f.survey = e.survey /\ f.chosen = e.chosen /\ f.todo \subseteq e.todo
      BY <3>1 DEF Event
    <3>4. events' = (events \ {e}) \cup {f} /\ UNCHANGED <<feePaid, participants>>
      BY <1>19 DEF NotifyRewardee, Advance
    <3> HIDE DEF f
    <3> QED BY <3>1, <3>3, <3>4 DEF EventReads
  <2>3. RunningIsPaid' /\ ParticipationIsFair' /\ PayReads' /\ SubReads' /\
         JobReads'
    BY <1>19 DEF NotifyRewardee, RunningIsPaid, ParticipationIsFair, PayReads,
           SubReads, JobReads
  <2> QED BY <2>1, <2>2, <2>3
<1>20. ASSUME NEW e \in events, SendResult(e)
      PROVE  EconomyInv'
  <2>1. EventReads'
    BY <1>20 DEF SendResult, Advance, TypeOK, EventReads, Event
  <2>2. RunningIsPaid' /\ ParticipationIsFair' /\ RewardsAreEarned' /\ PayReads' /\
         SubReads' /\ JobReads'
    BY <1>20 DEF SendResult, RunningIsPaid, ParticipationIsFair, RewardsAreEarned,
           PayReads, SubReads, JobReads, Rewarded
  <2> QED BY <2>1, <2>2
<1>21. ASSUME NEW e \in events, CloseEvent(e)
      PROVE  EconomyInv'
  <2>1. EventReads'
    BY <1>21 DEF CloseEvent, TypeOK, EventReads, Event
  <2>2. RunningIsPaid' /\ ParticipationIsFair' /\ RewardsAreEarned' /\ PayReads' /\
         SubReads' /\ JobReads'
    BY <1>21 DEF CloseEvent, RunningIsPaid, ParticipationIsFair, RewardsAreEarned,
           PayReads, SubReads, JobReads, Rewarded
  <2> QED BY <2>1, <2>2
<1>22. ASSUME NEW e \in events, FailEvent(e)
      PROVE  EconomyInv'
  <2>1. EventReads'
    BY <1>22 DEF FailEvent, TypeOK, EventReads, Event
  <2>2. RunningIsPaid' /\ ParticipationIsFair' /\ RewardsAreEarned' /\ PayReads' /\
         SubReads' /\ JobReads'
    BY <1>22 DEF FailEvent, RunningIsPaid, ParticipationIsFair, RewardsAreEarned,
           PayReads, SubReads, JobReads, Rewarded
  <2> QED BY <2>1, <2>2
<1>23. CASE Crash
  <2>1. PayReads'
    BY <1>23 DEF Crash, TypeOK, PayReads, PayCall, Idle
  <2>2. SubReads'
    BY <1>23 DEF Crash, TypeOK, SubReads, SubCall, Idle
  <2>3. JobReads'
    <3>1. \A j \in Active : j \in Job /\ feePaid[j.survey]
      BY RunningJob DEF Active, JobReads
    <3>2. \A j \in Job : Stalled(j).survey = j.survey
      BY DEF Stalled, Job
    <3>3. \A j \in queue' : j \in queue \/ \E k \in Active : j = Stalled(k)
      BY <1>23 DEF Crash
    <3>4. \A j \in queue' : feePaid[j.survey]
      BY <3>1, <3>2, <3>3 DEF JobReads
    <3> QED BY <1>23, <3>4 DEF Crash, JobReads, Idle
  <2>4. EventReads'
    BY <1>23 DEF Crash, TypeOK, EventReads, Event
  <2>5. RunningIsPaid' /\ ParticipationIsFair' /\ RewardsAreEarned'
    BY <1>23 DEF Crash, RunningIsPaid, ParticipationIsFair, RewardsAreEarned,
           Rewarded
  <2> QED BY <2>1, <2>2, <2>3, <2>4, <2>5
<1>24. CASE UNCHANGED vars
  BY <1>24 DEF vars, RunningIsPaid, ParticipationIsFair, RewardsAreEarned, Rewarded,
     PayReads, SubReads, JobReads, EventReads
<1> QED
  BY <1>1, <1>2, <1>3, <1>4, <1>5, <1>6, <1>7, <1>8, <1>9, <1>10, <1>11, <1>12,
     <1>13, <1>14, <1>15, <1>16, <1>17, <1>18, <1>19, <1>20, <1>21, <1>22, <1>23, <1>24
     DEF Next, Registration, Payment, Participation, Worker, WorkerStep, Completion,
         EventStep

\* The economy invariant holds in every reachable state.
THEOREM SurveyEconomy == Spec => []EconomyInv
  BY InitTypeOK, NextTypeOK, InitEconomyInv, NextEconomyInv, PTL DEF Spec

\* A survey has left "disabled" exactly when it was paid for.
THEOREM SurveyRunningIsPaid == Spec => []RunningIsPaid
<1>1. EconomyInv => RunningIsPaid
  BY DEF EconomyInv
<1> QED BY <1>1, SurveyEconomy, PTL

\* Rewards go to participants of paid surveys, never to the initiator.
THEOREM SurveyRewardsAreEarned == Spec => []RewardsAreEarned
<1>1. EconomyInv => RewardsAreEarned
  BY DEF EconomyInv
<1> QED BY <1>1, SurveyEconomy, PTL

-----------------------------------------------------------------------------
(* What is settled stays settled                                           *)

\* No step of any actor reopens, charges or joins a settled survey: payments are
\* refused by feePaid, submissions by the status, and the jobs left are END jobs.
LEMMA SettledStep ==
  ASSUME TypeOK, RunningIsPaid, [Next]_vars, NEW s \in Surveys, Settled(s)
  PROVE  Settled(s)' /\ participants'[s] = participants[s] /\ payments'[s] = payments[s]
<1> DEFINE Kept == Settled(s)' /\ participants'[s] = participants[s]
                               /\ payments'[s] = payments[s]
<1> USE DEF Settled, rowVars, jobVars, eventVars
<1>1. CASE Tick
  BY <1>1 DEF Tick, Active
<1>2. ASSUME NEW t \in Surveys, NEW f \in Forms, NEW u \in Users \cup {Nobody},
             RegisterSurvey(t, f, u)
      PROVE  Kept
  BY <1>2 DEF RegisterSurvey, Active, TypeOK
<1>3. ASSUME NEW h \in PayHandlers, NEW t \in Surveys, CheckPayment(h, t)
      PROVE  Kept
  BY <1>3 DEF CheckPayment, Active, TypeOK, RunningIsPaid
<1>4. ASSUME NEW h \in PayHandlers, CommitPayment(h)
      PROVE  Kept
  BY <1>4 DEF CommitPayment, Active, TypeOK, Idle
<1>5. ASSUME NEW h \in PayHandlers, QueueStart(h)
      PROVE  Kept
  BY <1>5 DEF QueueStart, NewJob, Active, TypeOK, Idle
<1>6. ASSUME NEW h \in PayHandlers, QueueEnd(h)
      PROVE  Kept
  BY <1>6 DEF QueueEnd, NewJob, Active, TypeOK, Idle
<1>7. ASSUME NEW h \in PayHandlers, FailPayment(h)
      PROVE  Kept
  BY <1>7 DEF FailPayment, Active, TypeOK, Idle
<1>8. ASSUME NEW h \in SubHandlers, NEW t \in Surveys, NEW u \in Users,
             AdmitSubmission(h, t, u)
      PROVE  Kept
  BY <1>8 DEF AdmitSubmission, Active, TypeOK, Idle
<1>9. ASSUME NEW h \in SubHandlers, CountParticipants(h)
      PROVE  Kept
  BY <1>9 DEF CountParticipants, Active, TypeOK, Idle
<1>10. ASSUME NEW h \in SubHandlers, SaveParticipation(h)
      PROVE  Kept
  BY <1>10 DEF SaveParticipation, Active, TypeOK, Idle
<1>11. ASSUME NEW h \in SubHandlers, RefuseSubmission(h)
      PROVE  Kept
  BY <1>11 DEF RefuseSubmission, Active, TypeOK, Idle
<1>12. ASSUME NEW w \in WorkerSlots, NEW j \in queue, PickJob(w, j)
      PROVE  Kept
  BY <1>12 DEF PickJob, Active, TypeOK, Run, Idle
<1>13. ASSUME NEW w \in WorkerSlots, UpdateSurveyStatus(w)
      PROVE  Kept
  <2>1. running[w].job \in Active
    BY <1>13 DEF UpdateSurveyStatus, Active, Idle
  <2>2. running[w].job.survey = s => running[w].job.kind = "end"
    BY <2>1
  <2>3. status'[s] = "ended"
    BY <1>13, <2>2 DEF UpdateSurveyStatus, TargetStatus, TypeOK
  <2>4. Active' = Active
    BY <1>13 DEF UpdateSurveyStatus, Active, TypeOK, Run, Idle
  <2> QED BY <1>13, <2>3, <2>4 DEF UpdateSurveyStatus
<1>14. ASSUME NEW w \in WorkerSlots, NotifyLive(w)
      PROVE  Kept
  BY <1>14 DEF NotifyLive, Active, TypeOK, Run, Idle
<1>15. ASSUME NEW w \in WorkerSlots, EmitCompleted(w)
      PROVE  Kept
  BY <1>15 DEF EmitCompleted, NewEvent, Active, TypeOK, Run, Idle
<1>16. ASSUME NEW w \in WorkerSlots, CompleteJob(w)
      PROVE  Kept
  BY <1>16 DEF CompleteJob, Active, TypeOK, Run, Idle
<1>17. ASSUME NEW w \in WorkerSlots, FailJob(w)
      PROVE  Kept
  <2> DEFINE j == [running[w].job EXCEPT !.tries = @ + 1]
  <2>1. running[w].job \in Active \cap Job
    BY <1>17, RunningJob DEF FailJob, Active
  <2>2. j.survey = running[w].job.survey /\ j.kind = running[w].job.kind
    BY <2>1 DEF Job
  <2>3. j.survey = s => j.kind = "end"
    BY <2>1, <2>2
  <2>4. queue' \subseteq queue \cup {j} /\ Active' \subseteq Active
    BY <1>17 DEF FailJob, Active, TypeOK
  <2> HIDE DEF j
  <2> QED BY <1>17, <2>3, <2>4 DEF FailJob
<1>18. ASSUME NEW e \in events, NEW W \in SUBSET Users, CreditRewards(e, W)
      PROVE  Kept
  BY <1>18 DEF CreditRewards, Advance, Selection, Active
<1>19. ASSUME NEW e \in events, NEW u \in Users, NotifyRewardee(e, u)
      PROVE  Kept
  BY <1>19 DEF NotifyRewardee, Advance, Active
<1>20. ASSUME NEW e \in events, SendResult(e)
      PROVE  Kept
  BY <1>20 DEF SendResult, Advance, Active
<1>21. ASSUME NEW e \in events, CloseEvent(e)
      PROVE  Kept
  BY <1>21 DEF CloseEvent, Active
<1>22. ASSUME NEW e \in events, FailEvent(e)
      PROVE  Kept
  BY <1>22 DEF FailEvent, Active
<1>23. CASE Crash
  <2>1. Active \subseteq Job /\ \A j \in Job : Stalled(j).survey = j.survey
                                          /\ Stalled(j).kind = j.kind
    BY RunningJob DEF Active, Stalled, Job
  <2>2. \A j \in queue' : j \in queue \/ \E k \in Active : j = Stalled(k)
    BY <1>23 DEF Crash
  <2>3. \A j \in queue' : j.survey = s => j.kind = "end"
    BY <2>1, <2>2
  <2>4. Active' = {}
    BY <1>23 DEF Crash, Active
  <2> QED BY <1>23, <2>3, <2>4 DEF Crash
<1>24. CASE UNCHANGED vars
  BY <1>24 DEF vars, Active
<1> QED
  BY <1>1, <1>2, <1>3, <1>4, <1>5, <1>6, <1>7, <1>8, <1>9, <1>10, <1>11, <1>12,
     <1>13, <1>14, <1>15, <1>16, <1>17, <1>18, <1>19, <1>20, <1>21, <1>22, <1>23, <1>24
     DEF Next, Registration, Payment, Participation, Worker, WorkerStep, Completion,
         EventStep

\* A settled survey is over for good.
THEOREM SurveySettledForGood == Spec => SettledForGood
<1>1. TypeOK /\ EconomyInv /\ [Next]_vars =>
        [\A s \in Surveys : Settled(s) =>
           /\ Settled(s)'
           /\ participants'[s] = participants[s]
           /\ payments'[s] = payments[s]]_vars
  BY SettledStep DEF EconomyInv
<1> QED BY <1>1, SurveyTypeCorrect, SurveyEconomy, PTL DEF Spec, SettledForGood
-----------------------------------------------------------------------------
(* Nobody hears of a reward that can still be rolled back                  *)

\* The rewards of an event are committed with its first notification: before it
\* everybody chosen is still to be notified, after it everybody is rewarded.
HeardInv ==
    /\ HeardAfterCredited
    /\ \A s \in Surveys : notified[s] # {} => feePaid[s]
    /\ \A e \in events :
        /\ e.pc = "credited" => e.todo = e.chosen
        /\ e.pc = "notifying" => e.chosen \subseteq Rewarded(e.survey)

\* Nobody has heard of anything at the start.
LEMMA InitHeardInv == Init => HeardInv
  BY DEF Init, HeardInv, HeardAfterCredited

\* A step that leaves events, rewards and notifications alone and takes back no
\* payment keeps the invariant.
LEMMA HeardUntouched ==
  ASSUME HeardInv, UNCHANGED <<events, rewards, notified, initiator>>,
         \A s \in Surveys : feePaid[s] => feePaid'[s]
  PROVE  HeardInv'
  BY DEF HeardInv, HeardAfterCredited, Rewarded

\* Each step keeps it: rewards never shrink, and only events notify.
LEMMA NextHeardInv == TypeOK /\ EconomyInv /\ HeardInv /\ [Next]_vars => HeardInv'
<1> SUFFICES ASSUME TypeOK, EconomyInv, HeardInv, [Next]_vars PROVE HeardInv'
  OBVIOUS
<1> USE DEF rowVars, jobVars, eventVars
<1>1. CASE Tick \/ Participation \/ UNCHANGED vars
  <2>1. UNCHANGED <<events, rewards, notified, initiator, feePaid>>
    BY <1>1 DEF Tick, Participation, AdmitSubmission, CountParticipants,
           SaveParticipation, RefuseSubmission, vars
  <2> QED BY <2>1, HeardUntouched
<1>2. ASSUME NEW s \in Surveys, NEW f \in Forms, NEW u \in Users \cup {Nobody},
             RegisterSurvey(s, f, u)
      PROVE  HeardInv'
  <2>1. ~feePaid[s]
    BY <1>2 DEF RegisterSurvey, EconomyInv, RunningIsPaid
  <2>2. notified[s] = {}
    BY <2>1 DEF HeardInv
  <2>3. \A t \in Surveys : t # s => initiator'[t] = initiator[t]
    BY <1>2 DEF RegisterSurvey, TypeOK
  <2>4. \A t \in Surveys : notified[t] \ {initiator'[t]} \subseteq Rewarded(t)
    BY <2>2, <2>3 DEF HeardInv, HeardAfterCredited
  <2>5. UNCHANGED <<events, rewards, notified, feePaid>>
    BY <1>2 DEF RegisterSurvey
  <2> QED BY <2>4, <2>5 DEF HeardInv, HeardAfterCredited, Rewarded
<1>3. CASE Payment
  <2>1. UNCHANGED <<events, rewards, notified, initiator>>
    BY <1>3 DEF Payment, CheckPayment, CommitPayment, QueueStart, QueueEnd, FailPayment
  <2>2. \A s \in Surveys : feePaid[s] => feePaid'[s]
    BY <1>3 DEF Payment, CheckPayment, CommitPayment, QueueStart, QueueEnd, FailPayment,
           TypeOK
  <2> QED BY <2>1, <2>2, HeardUntouched
<1>4. CASE Worker
  <2>1. CASE UNCHANGED <<events, rewards, notified, initiator, feePaid>>
    BY <2>1, HeardUntouched
  <2>2. ASSUME NEW w \in WorkerSlots, EmitCompleted(w)
        PROVE  HeardInv'
    BY <2>2 DEF EmitCompleted, NewEvent, HeardInv, HeardAfterCredited, Rewarded
  <2> QED
    BY <1>4, <2>1, <2>2 DEF Worker, WorkerStep, PickJob, UpdateSurveyStatus, NotifyLive,
       CompleteJob, FailJob
<1>5. ASSUME NEW e \in events, NEW W \in SUBSET Users, CreditRewards(e, W)
      PROVE  HeardInv'
  <2> DEFINE f == [e EXCEPT !.pc = "credited", !.chosen = W, !.todo = W]
  <2>1. f.pc = "credited" /\ f.todo = f.chosen
    BY DEF TypeOK, Event
  <2>2. events' = (events \ {e}) \cup {f} /\ UNCHANGED <<rewards, notified, rowVars>>
    BY <1>5 DEF CreditRewards, Advance
  <2> HIDE DEF f
  <2> QED BY <2>1, <2>2 DEF HeardInv, HeardAfterCredited, Rewarded
<1>6. ASSUME NEW e \in events, NEW u \in Users, NotifyRewardee(e, u)
      PROVE  HeardInv'
  <2> DEFINE f == [e EXCEPT !.pc = "notifying", !.todo = @ \ {u}]
  <2>1. e \in Event /\ e.survey \in Surveys
    BY DEF TypeOK, Event
  <2>2. f.pc = "notifying" /\ f.chosen = e.chosen /\ f.survey = e.survey
    BY <2>1 DEF Event
  <2>3. /\ events' = (events \ {e}) \cup {f}
        /\ notified' = [notified EXCEPT ![e.survey] = @ \cup {u}]
        /\ UNCHANGED <<initiator, feePaid>>
    BY <1>6 DEF NotifyRewardee, Advance
  <2>4. \A s \in Surveys : Rewarded(s) \subseteq Rewarded(s)'
    BY <1>6, <2>1 DEF NotifyRewardee, Rewarded, TypeOK
  <2>5. e.chosen \subseteq Rewarded(e.survey)'
    <3>1. CASE e.pc = "notifying"
      BY <2>1, <2>4, <3>1 DEF HeardInv
    <3>2. CASE e.pc # "notifying"
      BY <1>6, <2>1, <3>2 DEF NotifyRewardee, Rewarded, TypeOK, Event
    <3> QED BY <3>1, <3>2
  <2>6. u \in e.chosen /\ feePaid[e.survey]
    BY <1>6 DEF NotifyRewardee, EconomyInv, EventReads
  <2>7. \A s \in Surveys : notified'[s] \ {initiator'[s]} \subseteq Rewarded(s)'
    BY <2>1, <2>3, <2>4, <2>5, <2>6 DEF HeardInv, HeardAfterCredited, TypeOK
  <2>8. \A s \in Surveys : notified'[s] # {} => feePaid'[s]
    BY <2>1, <2>3, <2>6 DEF HeardInv, TypeOK
  <2>9. \A x \in events : x.survey \in Surveys
    BY DEF TypeOK, Event
  <2> HIDE DEF f
  <2>10. \A x \in events' : /\ x.pc \in {"mailed", "notifying"} =>
                                 x.chosen \subseteq Rewarded(x.survey)'
                            /\ x.pc = "credited" => x.todo = x.chosen
    BY <2>2, <2>3, <2>4, <2>5, <2>9 DEF HeardInv, HeardAfterCredited
  <2> QED BY <2>7, <2>8, <2>10 DEF HeardInv, HeardAfterCredited, Rewarded
<1>7. ASSUME NEW e \in events, SendResult(e)
      PROVE  HeardInv'
  <2> DEFINE f == [e EXCEPT !.pc = "mailed"]
  <2>1. f.pc = "mailed" /\ f.chosen = e.chosen /\ f.survey = e.survey
    BY DEF TypeOK, Event
  <2>2. events' = (events \ {e}) \cup {f} /\ UNCHANGED <<rewards, notified, rowVars>>
    BY <1>7 DEF SendResult, Advance
  <2>3. e.chosen \subseteq Rewarded(e.survey)
    BY <1>7 DEF SendResult, HeardInv
  <2> HIDE DEF f
  <2> QED BY <2>1, <2>2, <2>3 DEF HeardInv, HeardAfterCredited, Rewarded
<1>8. ASSUME NEW e \in events, CloseEvent(e)
      PROVE  HeardInv'
  <2>1. e.survey \in Surveys
    BY DEF TypeOK, Event
  <2>2. \A s \in Surveys : notified'[s] \ {initiator[s]} = notified[s] \ {initiator[s]}
    BY <1>8, <2>1 DEF CloseEvent, TypeOK
  <2>3. \A s \in Surveys : notified'[s] # {} => feePaid[s]
    BY <1>8, <2>1 DEF CloseEvent, TypeOK, HeardInv, EconomyInv, EventReads
  <2>4. events' \subseteq events /\ UNCHANGED <<rewards, initiator, feePaid>>
    BY <1>8 DEF CloseEvent
  <2> QED BY <2>2, <2>3, <2>4 DEF HeardInv, HeardAfterCredited, Rewarded
<1>9. ASSUME NEW e \in events, FailEvent(e)
      PROVE  HeardInv'
  BY <1>9 DEF FailEvent, HeardInv, HeardAfterCredited, Rewarded
<1>10. CASE Crash
  BY <1>10 DEF Crash, HeardInv, HeardAfterCredited, Rewarded
<1> QED
  BY <1>1, <1>2, <1>3, <1>4, <1>5, <1>6, <1>7, <1>8, <1>9, <1>10
     DEF Next, Registration, Completion, EventStep

\* Who is notified of a reward has it for good, whatever fails afterwards.
THEOREM SurveyHeardAfterCredited == Spec => []HeardAfterCredited
<1>1. HeardInv => HeardAfterCredited
  BY DEF HeardInv
<1> QED
  BY <1>1, SurveyTypeCorrect, SurveyEconomy, InitHeardInv, NextHeardInv, PTL DEF Spec
-----------------------------------------------------------------------------
(* A paid survey is on its way to its end                                  *)

\* An END job leaves Bull only after it has emitted the completion event.
PaidInv ==
    /\ PaidIsScheduled
    /\ \A w \in WorkerSlots :
        running[w] # Idle /\ running[w].pc = "acted" /\ running[w].job.kind = "end"
            => emitted[running[w].job.survey] > 0

\* Nothing is paid at the start.
LEMMA InitPaidInv == Init => PaidInv
  BY DEF Init, PaidInv, PaidIsScheduled

\* What keeps a survey scheduled, as far as it is not a payment call: an END job
\* anywhere in Bull, an event, or the record of its loss.
Scheduled(s) == (\E j \in JobsOf(s) : j.kind = "end") \/ emitted[s] > 0 \/ s \in lost

\* Bull keeps a job in one of its sets until it is completed.
LEMMA JobsKept ==
  ASSUME queue \cup Active \cup failedJobs \subseteq queue' \cup Active' \cup failedJobs',
         UNCHANGED emitted, lost \subseteq lost', NEW s \in Surveys, Scheduled(s)
  PROVE  Scheduled(s)'
  BY DEF Scheduled, JobsOf

\* Each step keeps it: commits are followed by two calls of Bull, or by a loss
\* that is recorded, and a failing or dying worker puts its job back or aside.
LEMMA NextPaidInv == TypeOK /\ PaidInv /\ [Next]_vars => PaidInv'
<1> SUFFICES ASSUME TypeOK, PaidInv, [Next]_vars PROVE PaidInv'
  OBVIOUS
<1> USE DEF rowVars, jobVars, eventVars
<1> DEFINE Acted ==
      \A w \in WorkerSlots :
        running[w] # Idle /\ running[w].pc = "acted" /\ running[w].job.kind = "end"
            => emitted[running[w].job.survey] > 0
           Calls(s) == \E h \in PayHandlers :
                pay[h].pc \in {"queueStart", "queueEnd"} /\ pay[h].survey = s
<1>0. /\ \A s \in Surveys : feePaid[s] => Scheduled(s) \/ Calls(s)
      /\ Acted
  BY DEF PaidInv, PaidIsScheduled, Scheduled
<1>a. SUFFICES /\ \A s \in Surveys : feePaid'[s] => Scheduled(s)' \/ Calls(s)'
               /\ Acted'
  BY DEF PaidInv, PaidIsScheduled, Scheduled
<1>1. CASE UNCHANGED <<feePaid, pay, queue, running, failedJobs, emitted, lost>>
  BY <1>0, <1>1 DEF Scheduled, JobsOf, Active
<1>2. CASE Tick \/ Registration \/ Participation \/ Completion \/ UNCHANGED vars
  <2>1. UNCHANGED <<feePaid, pay, queue, running, failedJobs, emitted, lost>>
    BY <1>2 DEF Tick, Registration, RegisterSurvey, Participation, AdmitSubmission,
       CountParticipants, SaveParticipation, RefuseSubmission, Completion, EventStep,
       CreditRewards, NotifyRewardee, SendResult, CloseEvent, FailEvent, vars
  <2> QED BY <1>1, <2>1
<1>3. ASSUME NEW h \in PayHandlers, NEW s \in Surveys, CheckPayment(h, s)
      PROVE  (\A t \in Surveys : feePaid'[t] => Scheduled(t)' \/ Calls(t)') /\ Acted'
  <2>1. \A x \in PayHandlers : x # h => pay'[x] = pay[x]
    BY <1>3 DEF CheckPayment, TypeOK
  <2>2. pay[h].pc \notin {"queueStart", "queueEnd"}
    BY <1>3 DEF CheckPayment, Idle
  <2>3. UNCHANGED <<feePaid, queue, running, failedJobs, emitted, lost>>
    BY <1>3 DEF CheckPayment
  <2> QED BY <1>0, <2>1, <2>2, <2>3 DEF Scheduled, JobsOf, Active
<1>4. ASSUME NEW h \in PayHandlers, CommitPayment(h)
      PROVE  (\A t \in Surveys : feePaid'[t] => Scheduled(t)' \/ Calls(t)') /\ Acted'
  <2>1. pay[h] # Idle /\ pay[h].survey \in Surveys
    BY <1>4 DEF CommitPayment, TypeOK, PayCall, Idle
  <2>2. /\ pay'[h].pc = "queueStart" /\ pay'[h].survey = pay[h].survey
        /\ \A x \in PayHandlers : x # h => pay'[x] = pay[x]
        /\ pay[h].pc = "checked"
    BY <1>4 DEF CommitPayment, TypeOK
  <2>3. \A t \in Surveys : t # pay[h].survey => feePaid'[t] = feePaid[t]
    BY <1>4 DEF CommitPayment, TypeOK
  <2>4. UNCHANGED <<queue, running, failedJobs, emitted, lost>>
    BY <1>4 DEF CommitPayment
  <2> QED BY <1>0, <2>2, <2>3, <2>4 DEF Scheduled, JobsOf, Active
<1>5. ASSUME NEW h \in PayHandlers, QueueStart(h)
      PROVE  (\A t \in Surveys : feePaid'[t] => Scheduled(t)' \/ Calls(t)') /\ Acted'
  <2>1. /\ pay'[h].pc = "queueEnd" /\ pay'[h].survey = pay[h].survey
        /\ \A x \in PayHandlers : x # h => pay'[x] = pay[x]
    BY <1>5 DEF QueueStart, TypeOK, PayCall, Idle
  <2>2. queue \subseteq queue' /\ UNCHANGED <<feePaid, running, failedJobs, emitted, lost>>
    BY <1>5 DEF QueueStart
  <2> QED BY <1>0, <2>1, <2>2 DEF Scheduled, JobsOf, Active
<1>6. ASSUME NEW h \in PayHandlers, QueueEnd(h)
      PROVE  (\A t \in Surveys : feePaid'[t] => Scheduled(t)' \/ Calls(t)') /\ Acted'
  <2>1. \A x \in PayHandlers : x # h => pay'[x] = pay[x]
    BY <1>6 DEF QueueEnd, TypeOK
  <2>2. /\ NewJob("end", h) \in queue'
        /\ NewJob("end", h).kind = "end" /\ NewJob("end", h).survey = pay[h].survey
    BY <1>6 DEF QueueEnd, NewJob
  <2>3. queue \subseteq queue' /\ UNCHANGED <<feePaid, running, failedJobs, emitted, lost>>
    BY <1>6 DEF QueueEnd
  <2>4. \A t \in Surveys : t = pay[h].survey => Scheduled(t)'
    BY <2>2 DEF Scheduled, JobsOf
  <2>5. \A t \in Surveys : Scheduled(t) => Scheduled(t)'
    BY <2>3 DEF Scheduled, JobsOf, Active
  <2>6. \A t \in Surveys : Calls(t) => Calls(t)' \/ t = pay[h].survey
    BY <2>1
  <2>7. Acted'
    BY <1>0, <2>3
  <2> QED BY <1>0, <2>3, <2>4, <2>5, <2>6, <2>7
<1>7. ASSUME NEW h \in PayHandlers, FailPayment(h)
      PROVE  (\A t \in Surveys : feePaid'[t] => Scheduled(t)' \/ Calls(t)') /\ Acted'
  <2>1. \A x \in PayHandlers : x # h => pay'[x] = pay[x]
    BY <1>7 DEF FailPayment, TypeOK
  <2>2. pay[h].pc \in {"queueStart", "queueEnd"} => pay[h].survey \in lost'
    BY <1>7 DEF FailPayment
  <2>3. lost \subseteq lost' /\ UNCHANGED <<feePaid, queue, running, failedJobs, emitted>>
    BY <1>7 DEF FailPayment
  <2> QED BY <1>0, <2>1, <2>2, <2>3 DEF Scheduled, JobsOf, Active
<1>8. ASSUME NEW w \in WorkerSlots, NEW j \in queue, PickJob(w, j)
      PROVE  (\A t \in Surveys : feePaid'[t] => Scheduled(t)' \/ Calls(t)') /\ Acted'
  <2>1. /\ running'[w] = [pc |-> "picked", job |-> j]
        /\ \A x \in WorkerSlots : x # w => running'[x] = running[x]
        /\ running[w] = Idle
    BY <1>8 DEF PickJob, TypeOK
  <2>2. running'[w] # Idle /\ running'[w].job = j /\ running'[w].pc # "acted"
    BY <2>1 DEF Idle
  <2>3. j \in Active' /\ Active \subseteq Active'
    BY <2>1, <2>2 DEF Active
  <2>4. UNCHANGED <<feePaid, pay, failedJobs, emitted, lost>> /\ queue' = queue \ {j}
    BY <1>8 DEF PickJob
  <2>5. \A s \in Surveys : Scheduled(s) => Scheduled(s)'
    BY <2>3, <2>4, JobsKept
  <2>6. Acted'
    BY <1>0, <2>1, <2>2, <2>4
  <2> QED BY <1>0, <2>4, <2>5, <2>6
<1>9. ASSUME NEW w \in WorkerSlots, UpdateSurveyStatus(w) \/ NotifyLive(w)
      PROVE  (\A t \in Surveys : feePaid'[t] => Scheduled(t)' \/ Calls(t)') /\ Acted'
  <2>1. running[w] # Idle
    BY <1>9 DEF UpdateSurveyStatus, NotifyLive, Idle
  <2>2. running[w] \in Run
    BY <2>1, RunningJob
  <2>3. /\ running'[w].job = running[w].job /\ running'[w] # Idle
        /\ \A x \in WorkerSlots : x # w => running'[x] = running[x]
        /\ running'[w].pc = "acted" => running[w].job.kind = "start"
    BY <1>9, <2>2 DEF UpdateSurveyStatus, NotifyLive, TypeOK, Run, Idle
  <2>4. Active' = Active
    BY <2>1, <2>3 DEF Active
  <2>5. UNCHANGED <<feePaid, pay, queue, failedJobs, emitted, lost>>
    BY <1>9 DEF UpdateSurveyStatus, NotifyLive
  <2>6. Acted'
    BY <1>0, <2>3, <2>5
  <2> QED BY <1>0, <2>4, <2>5, <2>6 DEF Scheduled, JobsOf
<1>10. ASSUME NEW w \in WorkerSlots, EmitCompleted(w)
       PROVE  (\A t \in Surveys : feePaid'[t] => Scheduled(t)' \/ Calls(t)') /\ Acted'
  <2>1. running[w] # Idle
    BY <1>10 DEF EmitCompleted, Idle
  <2>2. running[w] \in Run /\ running[w].job.survey \in Surveys
    BY <2>1, RunningJob DEF Job
  <2>3. /\ running'[w].job = running[w].job /\ running'[w] # Idle
        /\ \A x \in WorkerSlots : x # w => running'[x] = running[x]
    BY <1>10, <2>2 DEF EmitCompleted, TypeOK, Run, Idle
  <2>4. Active' = Active
    BY <2>1, <2>3 DEF Active
  <2>5. /\ emitted'[running[w].job.survey] > 0
        /\ \A s \in Surveys : emitted[s] > 0 => emitted'[s] > 0
    BY <1>10, <2>2 DEF EmitCompleted, TypeOK
  <2>6. UNCHANGED <<feePaid, pay, queue, failedJobs, lost>>
    BY <1>10 DEF EmitCompleted
  <2>7. \A x \in WorkerSlots : running[x] # Idle => running[x].job.survey \in Surveys
    BY RunningJob DEF Job
  <2>8. Acted'
    BY <1>0, <2>3, <2>5, <2>7
  <2> QED BY <1>0, <2>4, <2>5, <2>6, <2>8 DEF Scheduled, JobsOf
<1>11. ASSUME NEW w \in WorkerSlots, CompleteJob(w)
       PROVE  (\A t \in Surveys : feePaid'[t] => Scheduled(t)' \/ Calls(t)') /\ Acted'
  <2>1. running[w] # Idle /\ running[w].pc = "acted"
    BY <1>11 DEF CompleteJob, Idle
  <2>2. running'[w] = Idle /\ \A x \in WorkerSlots : x # w => running'[x] = running[x]
    BY <1>11 DEF CompleteJob, TypeOK
  <2>3. UNCHANGED <<feePaid, pay, queue, failedJobs, emitted, lost>>
    BY <1>11 DEF CompleteJob
  <2>4. \A j \in Active : j \in Active' \/ j = running[w].job
    BY <2>2 DEF Active
  <2>5. running[w].job.kind = "end" => emitted[running[w].job.survey] > 0
    BY <1>0, <2>1
  <2>6. \A s \in Surveys : Scheduled(s) => Scheduled(s)'
    BY <2>3, <2>4, <2>5 DEF Scheduled, JobsOf
  <2> QED BY <1>0, <2>2, <2>3, <2>6
<1>12. ASSUME NEW w \in WorkerSlots, FailJob(w)
       PROVE  (\A t \in Surveys : feePaid'[t] => Scheduled(t)' \/ Calls(t)') /\ Acted'
  <2> DEFINE j == [running[w].job EXCEPT !.tries = @ + 1]
  <2>1. running[w] # Idle /\ running[w].job \in Job
    BY <1>12, RunningJob DEF FailJob
  <2>2. j.survey = running[w].job.survey /\ j.kind = running[w].job.kind
    BY <2>1 DEF Job
  <2>3. /\ j \in queue' \cup failedJobs'
        /\ queue \subseteq queue' /\ failedJobs \subseteq failedJobs'
        /\ UNCHANGED <<feePaid, pay, emitted, lost>>
    BY <1>12 DEF FailJob
  <2>4. running'[w] = Idle /\ \A x \in WorkerSlots : x # w => running'[x] = running[x]
    BY <1>12 DEF FailJob, TypeOK
  <2>5. \A k \in Active : k \in Active' \/ k = running[w].job
    BY <2>4 DEF Active
  <2> HIDE DEF j
  <2>6. \A s \in Surveys : Scheduled(s) => Scheduled(s)'
    BY <2>2, <2>3, <2>5 DEF Scheduled, JobsOf
  <2> QED BY <1>0, <2>3, <2>4, <2>6
<1>13. CASE Crash
  <2>1. \A j \in Active : j \in Job
    BY RunningJob DEF Active
  <2>2. \A j \in Job : Stalled(j).survey = j.survey /\ Stalled(j).kind = j.kind
    BY DEF Stalled, Job
  <2>3. \A j \in Active : Stalled(j) \in queue' \cup failedJobs'
    <3> SUFFICES ASSUME NEW j \in Active PROVE Stalled(j) \in queue' \cup failedJobs'
      OBVIOUS
    <3>1. j.stalls \in Nat /\ MaxStalls \in Nat
      BY <2>1, BoundsAssumption DEF Job
    <3>2. CASE j.stalls < MaxStalls
      BY <1>13, <3>2 DEF Crash
    <3>3. CASE ~(j.stalls < MaxStalls)
      BY <1>13, <3>1, <3>3 DEF Crash
    <3> QED BY <3>2, <3>3
  <2>4. /\ queue \subseteq queue' /\ failedJobs \subseteq failedJobs' /\ lost \subseteq lost'
        /\ UNCHANGED <<feePaid, emitted>>
    BY <1>13 DEF Crash
  <2>5. \A s \in Surveys : Scheduled(s) => Scheduled(s)'
    BY <2>1, <2>2, <2>3, <2>4 DEF Scheduled, JobsOf
  <2>6. \A s \in Surveys : Calls(s) => s \in lost'
    BY <1>13 DEF Crash
  <2>7. Acted'
    BY <1>13 DEF Crash
  <2> QED BY <1>0, <2>4, <2>5, <2>6, <2>7 DEF Scheduled
<1> QED
  BY <1>2, <1>3, <1>4, <1>5, <1>6, <1>7, <1>8, <1>9, <1>10, <1>11, <1>12, <1>13
     DEF Next, Payment, Worker, WorkerStep

\* No paid survey is forgotten, but for the one gap that lost records.
THEOREM SurveyPaidIsScheduled == Spec => []PaidIsScheduled
<1>1. PaidInv => PaidIsScheduled
  BY DEF PaidInv
<1> QED BY <1>1, SurveyTypeCorrect, InitPaidInv, NextPaidInv, PTL DEF Spec

-----------------------------------------------------------------------------
(* Payments                                                                *)

\* The calls past a check are some of the calls there are.
LEMMA PayingBound ==
  ASSUME NEW P \in SUBSET PayHandlers
  PROVE  /\ IsFiniteSet(P)
         /\ Cardinality(P) \in Nat
         /\ Cardinality(PayHandlers) \in Nat
         /\ Cardinality(P) <= Cardinality(PayHandlers)
  BY HandlersAssumption, FS_Subset, FS_CardinalityType

\* No payment has been made or is being made at the start.
LEMMA InitPaymentsInv == Init => PaymentsInv
<1> SUFFICES ASSUME Init PROVE PaymentsInv
  OBVIOUS
<1>1. \A s \in Surveys : payments[s] = 0
  BY DEF Init
<1>2. \A s \in Surveys : Paying(s) \in SUBSET PayHandlers
  BY DEF Paying
<1> QED BY <1>1, <1>2, PayingBound DEF PaymentsInv

\* A commit turns one call in flight into one payment; new calls need ~feePaid,
\* and then nothing has been paid yet.
LEMMA NextPaymentsInv == TypeOK /\ PaymentsInv /\ [Next]_vars => PaymentsInv'
<1> SUFFICES ASSUME TypeOK, PaymentsInv, [Next]_vars, NEW s \in Surveys
             PROVE  /\ ~feePaid'[s] => payments'[s] = 0
                    /\ payments'[s] + Cardinality(Paying(s)') <= Cardinality(PayHandlers)
  BY DEF PaymentsInv
<1> USE DEF rowVars, jobVars, eventVars
<1>1. Paying(s) \in SUBSET PayHandlers /\ Paying(s)' \in SUBSET PayHandlers
  BY DEF Paying
<1>2. /\ ~feePaid[s] => payments[s] = 0
      /\ payments[s] + Cardinality(Paying(s)) <= Cardinality(PayHandlers)
      /\ payments[s] \in Nat
  BY DEF PaymentsInv, TypeOK
<1>3. ASSUME Paying(s)' \subseteq Paying(s), UNCHANGED <<payments, feePaid>>
      PROVE  /\ ~feePaid'[s] => payments'[s] = 0
             /\ payments'[s] + Cardinality(Paying(s)') <= Cardinality(PayHandlers)
  <2>1. Cardinality(Paying(s)') <= Cardinality(Paying(s))
    BY <1>1, <1>3, PayingBound, FS_Subset
  <2> QED BY <1>1, <1>2, <1>3, <2>1, PayingBound
<1>4. ASSUME NEW h \in PayHandlers, NEW t \in Surveys, CheckPayment(h, t)
      PROVE  /\ ~feePaid'[s] => payments'[s] = 0
             /\ payments'[s] + Cardinality(Paying(s)') <= Cardinality(PayHandlers)
  <2>1. CASE t = s
    <3>1. payments'[s] = 0
      BY <1>2, <1>4, <2>1 DEF CheckPayment
    <3> QED BY <1>1, <3>1, PayingBound
  <2>2. CASE t # s
    <3>1. Paying(s)' \subseteq Paying(s)
      BY <1>4, <2>2 DEF CheckPayment, Paying, TypeOK
    <3> QED BY <1>3, <1>4, <3>1 DEF CheckPayment
  <2> QED BY <2>1, <2>2
<1>5. ASSUME NEW h \in PayHandlers, CommitPayment(h)
      PROVE  /\ ~feePaid'[s] => payments'[s] = 0
             /\ payments'[s] + Cardinality(Paying(s)') <= Cardinality(PayHandlers)
  <2>1. CASE pay[h].survey = s
    <3>1. h \in Paying(s) /\ Paying(s)' = Paying(s) \ {h}
      BY <1>5, <2>1 DEF CommitPayment, Paying, TypeOK
    <3>2. Cardinality(Paying(s)') = Cardinality(Paying(s)) - 1
      BY <1>1, <3>1, PayingBound, FS_RemoveElement
    <3>3. payments'[s] = payments[s] + 1 /\ feePaid'[s]
      BY <1>5, <2>1 DEF CommitPayment, TypeOK
    <3> QED BY <1>1, <1>2, <3>2, <3>3, PayingBound
  <2>2. CASE pay[h].survey # s
    <3>1. Paying(s)' = Paying(s)
      BY <1>5, <2>2 DEF CommitPayment, Paying, TypeOK
    <3>2. payments'[s] = payments[s] /\ feePaid'[s] = feePaid[s]
      BY <1>5, <2>2 DEF CommitPayment, TypeOK
    <3> QED BY <1>2, <3>1, <3>2
  <2> QED BY <2>1, <2>2
<1>6. ASSUME NEW h \in PayHandlers, QueueStart(h) \/ QueueEnd(h) \/ FailPayment(h)
      PROVE  /\ ~feePaid'[s] => payments'[s] = 0
             /\ payments'[s] + Cardinality(Paying(s)') <= Cardinality(PayHandlers)
  <2>1. /\ pay'[h].pc # "checked"
        /\ \A x \in PayHandlers \ {h} : pay'[x] = pay[x]
    BY <1>6 DEF QueueStart, QueueEnd, FailPayment, TypeOK, PayCall, Idle
  <2>2. Paying(s)' \subseteq Paying(s)
    BY <2>1 DEF Paying
  <2> QED BY <1>3, <1>6, <2>2 DEF QueueStart, QueueEnd, FailPayment
<1>7. CASE Crash
  <2>1. Paying(s)' = {}
    BY <1>7 DEF Crash, Paying, Idle
  <2> QED BY <1>3, <1>7, <2>1 DEF Crash
<1>8. CASE UNCHANGED <<pay, payments, feePaid>>
  BY <1>2, <1>8 DEF Paying
<1>9. CASE Tick \/ Registration \/ Participation \/ UNCHANGED vars
  BY <1>8, <1>9 DEF Tick, Registration, RegisterSurvey, Participation, AdmitSubmission,
     CountParticipants, SaveParticipation, RefuseSubmission, vars
<1>10. CASE Worker
  BY <1>8, <1>10 DEF Worker, WorkerStep, PickJob, UpdateSurveyStatus, NotifyLive,
     EmitCompleted, CompleteJob, FailJob
<1>11. CASE Completion
  BY <1>8, <1>11 DEF Completion, EventStep, CreditRewards, NotifyRewardee, SendResult,
     CloseEvent, FailEvent
<1> QED
  BY <1>4, <1>5, <1>6, <1>7, <1>9, <1>10, <1>11 DEF Next, Payment

\* A survey is paid at most once per payment call running at the same time.
THEOREM SurveyPaymentsBounded == Spec => []PaymentsBounded
<1>1. TypeOK /\ PaymentsInv => PaymentsBounded
  <2> SUFFICES ASSUME TypeOK, PaymentsInv, NEW s \in Surveys
               PROVE  payments[s] <= Cardinality(PayHandlers)
    BY DEF PaymentsBounded
  <2>1. Paying(s) \in SUBSET PayHandlers
    BY DEF Paying
  <2> QED BY <2>1, PayingBound DEF PaymentsInv, TypeOK
<1> QED
  BY <1>1, SurveyTypeCorrect, InitPaymentsInv, NextPaymentsInv, PTL DEF Spec

-----------------------------------------------------------------------------
(* Participants                                                            *)

\* The submissions past the count are some of the submissions there are.
LEMMA JoiningBound ==
  ASSUME NEW J \in SUBSET SubHandlers
  PROVE  /\ IsFiniteSet(J)
         /\ Cardinality(J) \in Nat
         /\ Cardinality(SubHandlers) \in Nat
         /\ Cardinality(J) <= Cardinality(SubHandlers)
  BY HandlersAssumption, FS_Subset, FS_CardinalityType

\* Nobody has joined and nobody is joining at the start.
LEMMA InitOverrunInv == Init => OverrunInv
  BY FS_EmptySet DEF Init, OverrunInv, Joining, Idle, NoForm

\* The part of OverrunInv about one survey.
SurveyOverrun(s) ==
    /\ IsFiniteSet(participants[s])
    /\ Joining(s) # {} => status[s] # "absent"
    /\ status[s] = "absent" => participants[s] = {} /\ ~form[s].limited
    /\ status[s] # "absent" /\ form[s].limited =>
         Cardinality(participants[s]) + Cardinality(Joining(s))
           < form[s].participantsCount + Cardinality(SubHandlers)

\* A count starts below the limit; a save moves one submission from those that
\* may still join to the participants.
LEMMA NextOverrunInv == TypeOK /\ EconomyInv /\ OverrunInv /\ [Next]_vars => OverrunInv'
<1> SUFFICES ASSUME TypeOK, EconomyInv, OverrunInv, [Next]_vars, NEW s \in Surveys
             PROVE  SurveyOverrun(s)'
  BY DEF OverrunInv, SurveyOverrun
<1> USE DEF rowVars, jobVars, eventVars
<1>1. Joining(s) \in SUBSET SubHandlers /\ Joining(s)' \in SUBSET SubHandlers
  BY DEF Joining
<1>2. SurveyOverrun(s)
  BY DEF OverrunInv, SurveyOverrun
<1>3. /\ form[s].participantsCount \in Nat
      /\ Cardinality(participants[s]) \in Nat
  BY <1>2, FS_CardinalityType DEF TypeOK, FormType, SurveyOverrun
<1>4. ASSUME Joining(s)' \subseteq Joining(s), participants'[s] = participants[s],
             form'[s] = form[s], status'[s] = "absent" <=> status[s] = "absent"
      PROVE  SurveyOverrun(s)'
  <2>1. Cardinality(Joining(s)') <= Cardinality(Joining(s))
    BY <1>1, <1>4, JoiningBound, FS_Subset
  <2>2. Cardinality(Joining(s)') \in Nat /\ Cardinality(Joining(s)) \in Nat
    BY <1>1, JoiningBound
  <2> QED BY <1>2, <1>3, <1>4, <2>1, <2>2, JoiningBound DEF SurveyOverrun
<1>5. ASSUME NEW t \in Surveys, NEW f \in Forms, NEW u \in Users \cup {Nobody},
             RegisterSurvey(t, f, u)
      PROVE  SurveyOverrun(s)'
  <2>1. Joining(s)' = Joining(s)
    BY <1>5 DEF RegisterSurvey, Joining
  <2>2. CASE t = s
    <3>1. Joining(s)' = {} /\ participants'[s] = {} /\ status'[s] # "absent"
      BY <1>2, <1>5, <2>1, <2>2 DEF RegisterSurvey, SurveyOverrun, TypeOK
    <3>2. form'[s] \in FormType /\ (form'[s].limited => form'[s].participantsCount > 0)
      BY <1>5, <2>2, FormsAssumption DEF RegisterSurvey, TypeOK
    <3> QED BY <3>1, <3>2, FS_EmptySet, JoiningBound DEF SurveyOverrun, FormType
  <2>3. CASE t # s
    <3>1. participants'[s] = participants[s] /\ form'[s] = form[s] /\ status'[s] = status[s]
      BY <1>5, <2>3 DEF RegisterSurvey, TypeOK
    <3> QED BY <1>4, <2>1, <3>1
  <2> QED BY <2>2, <2>3
<1>6. ASSUME NEW h \in SubHandlers, CountParticipants(h)
      PROVE  SurveyOverrun(s)'
  <2>1. UNCHANGED <<participants, form, status>>
    BY <1>6 DEF CountParticipants
  <2>2. CASE sub[h].survey = s
    <3>1. form[s].limited => Cardinality(participants[s]) < form[s].participantsCount
      BY <1>3, <1>6, <2>2 DEF CountParticipants, Full, TypeOK, FormType
    <3>2. status[s] # "absent"
      BY <1>6, <2>2 DEF CountParticipants, EconomyInv, SubReads, RunningIsPaid, Idle
    <3>3. Cardinality(Joining(s)') \in Nat /\ Cardinality(SubHandlers) \in Nat
          /\ Cardinality(Joining(s)') <= Cardinality(SubHandlers)
      BY <1>1, JoiningBound
    <3> QED BY <1>2, <1>3, <2>1, <3>1, <3>2, <3>3 DEF SurveyOverrun
  <2>3. CASE sub[h].survey # s
    <3>1. Joining(s)' \subseteq Joining(s)
      BY <1>6, <2>3 DEF CountParticipants, Joining, TypeOK, SubCall, Idle
    <3> QED BY <1>4, <2>1, <3>1
  <2> QED BY <2>2, <2>3
<1>7. ASSUME NEW h \in SubHandlers, SaveParticipation(h)
      PROVE  SurveyOverrun(s)'
  <2>1. UNCHANGED <<form, status>>
    BY <1>7 DEF SaveParticipation
  <2>2. CASE sub[h].survey = s
    <3>1. h \in Joining(s) /\ Joining(s)' = Joining(s) \ {h}
      BY <1>7, <2>2 DEF SaveParticipation, Joining, TypeOK, Idle
    <3>2. Cardinality(Joining(s)') = Cardinality(Joining(s)) - 1
          /\ Cardinality(Joining(s)) \in Nat
      BY <1>1, <3>1, JoiningBound, FS_RemoveElement
    <3>3. participants'[s] = participants[s] \cup {sub[h].user}
      BY <1>7, <2>2 DEF SaveParticipation, TypeOK
    <3>4. IsFiniteSet(participants'[s])
          /\ Cardinality(participants'[s]) \in Nat
          /\ Cardinality(participants'[s]) <= Cardinality(participants[s]) + 1
      <4>1. IsFiniteSet(participants[s])
        BY <1>2 DEF SurveyOverrun
      <4>2. Cardinality(participants'[s]) = Cardinality(participants[s])
            \/ Cardinality(participants'[s]) = Cardinality(participants[s]) + 1
        BY <3>3, <4>1, FS_AddElement
      <4> QED BY <1>3, <3>3, <4>1, <4>2, FS_AddElement
    <3>5. status[s] # "absent"
      BY <1>2, <3>1 DEF SurveyOverrun
    <3> QED BY <1>2, <1>3, <2>1, <3>2, <3>4, <3>5, JoiningBound DEF SurveyOverrun
  <2>3. CASE sub[h].survey # s
    <3>1. Joining(s)' \subseteq Joining(s) /\ participants'[s] = participants[s]
      BY <1>7, <2>3 DEF SaveParticipation, Joining, TypeOK, Idle
    <3> QED BY <1>4, <2>1, <3>1
  <2> QED BY <2>2, <2>3
<1>8. ASSUME NEW h \in SubHandlers,
             RefuseSubmission(h) \/ \E t \in Surveys, u \in Users : AdmitSubmission(h, t, u)
      PROVE  SurveyOverrun(s)'
  <2>1. sub'[h].pc # "counted" /\ \A x \in SubHandlers \ {h} : sub'[x] = sub[x]
    BY <1>8 DEF RefuseSubmission, AdmitSubmission, TypeOK, Idle
  <2>2. Joining(s)' \subseteq Joining(s)
    BY <2>1 DEF Joining
  <2> QED BY <1>4, <1>8, <2>2 DEF RefuseSubmission, AdmitSubmission
<1>9. CASE Payment
  <2>1. UNCHANGED <<sub, participants, form>> /\ (status' = status
          \/ \E t \in Surveys : status[t] # "absent" /\ status' = [status EXCEPT ![t] = "enabled"])
    BY <1>9 DEF Payment, CheckPayment, CommitPayment, QueueStart, QueueEnd, FailPayment,
       EconomyInv, PayReads, TypeOK, PayCall, Idle
  <2>2. Joining(s)' = Joining(s) /\ (status'[s] = "absent" <=> status[s] = "absent")
    BY <2>1 DEF Joining, TypeOK
  <2> QED BY <1>4, <2>1, <2>2
<1>10. CASE Worker
  <2>1. UNCHANGED <<sub, participants, form>> /\ (status' = status
          \/ \E w \in WorkerSlots : UpdateSurveyStatus(w))
    BY <1>10 DEF Worker, WorkerStep, PickJob, NotifyLive, UpdateSurveyStatus, EmitCompleted,
       CompleteJob, FailJob
  <2>2. Joining(s)' = Joining(s) /\ (status'[s] = "absent" <=> status[s] = "absent")
    BY <2>1 DEF Joining, TypeOK, UpdateSurveyStatus, TargetStatus, EconomyInv, RunningIsPaid
  <2> QED BY <1>4, <2>1, <2>2
<1>11. CASE Completion \/ Tick \/ UNCHANGED vars
  <2>1. UNCHANGED <<sub, participants, form, status>>
    BY <1>11 DEF Completion, EventStep, CreditRewards, NotifyRewardee, SendResult,
       CloseEvent, FailEvent, Tick, vars
  <2> QED BY <1>4, <2>1 DEF Joining
<1>12. CASE Crash
  <2>1. Joining(s)' = {} /\ UNCHANGED <<participants, form, status>>
    BY <1>12 DEF Crash, Joining, Idle
  <2> QED BY <1>4, <2>1
<1> QED
  BY <1>5, <1>6, <1>7, <1>8, <1>9, <1>10, <1>11, <1>12
     DEF Next, Registration, Participation

\* A limited survey is overrun by fewer participants than there are submissions
\* running at the same time.
THEOREM SurveyOverrunBounded == Spec => []OverrunBounded
<1>1. TypeOK /\ OverrunInv => OverrunBounded
  <2> SUFFICES ASSUME TypeOK, OverrunInv, NEW s \in Surveys, form[s].limited
               PROVE  Cardinality(participants[s])
                        < form[s].participantsCount + Cardinality(SubHandlers)
    BY DEF OverrunBounded
  <2>1. status[s] # "absent" /\ Cardinality(participants[s]) \in Nat
    BY FS_CardinalityType DEF OverrunInv
  <2>2. Joining(s) \in SUBSET SubHandlers
    BY DEF Joining
  <2>3. Cardinality(Joining(s)) \in Nat /\ Cardinality(SubHandlers) \in Nat
    BY <2>2, JoiningBound
  <2>4. Cardinality(participants[s]) + Cardinality(Joining(s))
          < form[s].participantsCount + Cardinality(SubHandlers)
    BY <2>1 DEF OverrunInv
  <2>5. form[s].participantsCount \in Nat
    BY DEF TypeOK, FormType
  <2> QED BY <2>1, <2>3, <2>4, <2>5
<1> QED
  BY <1>1, SurveyTypeCorrect, SurveyEconomy, InitOverrunInv, NextOverrunInv, PTL DEF Spec
-----------------------------------------------------------------------------
(* The promise: every distribution is one atomic step                      *)

\* What the abstract steps ask for and the code's guards do not say: the quota
\* is announced with the row, a fee was paid by a payment, and a distribution
\* in progress chose no more participants than the quota allows.
PromiseInv ==
    /\ \A s \in Surveys : status[s] = "absent" <=> form[s].rewardeesCount = 0
    /\ \A s \in Surveys : feePaid[s] => payments[s] > 0
    /\ \A e \in events : e.pc = "credited" =>
          Cardinality(e.chosen) <= form[e.survey].rewardeesCount

\* No survey is announced at the start.
LEMMA InitPromiseInv == Init => PromiseInv
  BY DEF Init, PromiseInv, NoForm

\* A selection is no larger than the quota, whichever branch picks it.
LEMMA SelectionFits ==
  ASSUME TypeOK, OverrunInv, NEW s \in Surveys, NEW W \in Selection(s)
  PROVE  Cardinality(W) <= form[s].rewardeesCount
<1>1. Cardinality(participants[s]) \in Nat
  BY FS_CardinalityType DEF OverrunInv
<1>2. form[s].rewardeesCount \in Nat
  BY DEF TypeOK, FormType
<1> QED BY <1>1, <1>2 DEF Selection

\* Events keep what they chose, and the row of an event's survey is there.
LEMMA NextPromiseInv ==
  TypeOK /\ EconomyInv /\ OverrunInv /\ PromiseInv /\ [Next]_vars => PromiseInv'
<1> SUFFICES ASSUME TypeOK, EconomyInv, OverrunInv, PromiseInv, [Next]_vars
             PROVE  PromiseInv'
  OBVIOUS
<1> USE DEF rowVars, jobVars, eventVars
<1>1. ASSUME NEW s \in Surveys, NEW f \in Forms, NEW u \in Users \cup {Nobody},
             RegisterSurvey(s, f, u)
      PROVE  PromiseInv'
  <2>1. \A e \in events : e.survey # s
    BY <1>1 DEF RegisterSurvey, EconomyInv, EventReads, RunningIsPaid
  <2>2. f \in FormType /\ f.rewardeesCount > 0
    BY <1>1, FormsAssumption DEF RegisterSurvey
  <2>3. \A t \in Surveys : status'[t] = "absent" <=> form'[t].rewardeesCount = 0
    BY <1>1, <2>2 DEF RegisterSurvey, PromiseInv, TypeOK, FormType
  <2>4. \A e \in events : form'[e.survey] = form[e.survey]
    BY <1>1, <2>1 DEF RegisterSurvey, TypeOK
  <2>5. UNCHANGED <<feePaid, payments, events>>
    BY <1>1 DEF RegisterSurvey
  <2> QED BY <2>3, <2>4, <2>5 DEF PromiseInv
<1>2. ASSUME NEW h \in PayHandlers, CommitPayment(h)
      PROVE  PromiseInv'
  <2>1. pay[h] # Idle /\ pay[h].survey \in Surveys
    BY <1>2 DEF CommitPayment, TypeOK, PayCall, Idle
  <2>2. status[pay[h].survey] # "absent"
    BY <2>1 DEF EconomyInv, PayReads
  <2>3. \A t \in Surveys : status'[t] = "absent" <=> status[t] = "absent"
    BY <1>2, <2>1, <2>2 DEF CommitPayment, TypeOK
  <2>4. \A t \in Surveys : feePaid'[t] => payments'[t] > 0
    BY <1>2, <2>1 DEF CommitPayment, TypeOK, PromiseInv
  <2>5. UNCHANGED <<form, events>>
    BY <1>2 DEF CommitPayment
  <2> QED BY <2>3, <2>4, <2>5 DEF PromiseInv
<1>3. ASSUME UNCHANGED <<form, feePaid, payments, events>>,
             \A t \in Surveys : status'[t] = "absent" <=> status[t] = "absent"
      PROVE  PromiseInv'
  BY <1>3 DEF PromiseInv
<1>4. CASE Payment
  <2>1. ASSUME NEW h \in PayHandlers,
               \/ \E s \in Surveys : CheckPayment(h, s)
               \/ QueueStart(h) \/ QueueEnd(h) \/ FailPayment(h)
        PROVE  PromiseInv'
    BY <1>3, <2>1 DEF CheckPayment, QueueStart, QueueEnd, FailPayment
  <2> QED BY <1>2, <1>4, <2>1 DEF Payment
<1>5. CASE Tick \/ Participation \/ UNCHANGED vars
  BY <1>3, <1>5 DEF Tick, Participation, AdmitSubmission, CountParticipants,
     SaveParticipation, RefuseSubmission, vars
<1>6. CASE Worker
  <2>1. ASSUME NEW w \in WorkerSlots,
               \/ \E j \in queue : PickJob(w, j)
               \/ NotifyLive(w) \/ CompleteJob(w) \/ FailJob(w)
        PROVE  PromiseInv'
    BY <1>3, <2>1 DEF PickJob, NotifyLive, CompleteJob, FailJob
  <2>2. ASSUME NEW w \in WorkerSlots, UpdateSurveyStatus(w)
        PROVE  PromiseInv'
    <3>1. \A t \in Surveys : status'[t] = "absent" <=> status[t] = "absent"
      BY <2>2 DEF UpdateSurveyStatus, TargetStatus, EconomyInv, RunningIsPaid, TypeOK
    <3> QED BY <1>3, <2>2, <3>1 DEF UpdateSurveyStatus
  <2>3. ASSUME NEW w \in WorkerSlots, EmitCompleted(w)
        PROVE  PromiseInv'
    <3>1. UNCHANGED <<status, form, feePaid, payments>>
      BY <2>3 DEF EmitCompleted
    <3>2. \A e \in events' : e \in events \/ e.pc = "emitted"
      BY <2>3 DEF EmitCompleted, NewEvent
    <3> QED BY <3>1, <3>2 DEF PromiseInv
  <2> QED BY <1>6, <2>1, <2>2, <2>3 DEF Worker, WorkerStep
<1>7. CASE Completion
  <2>1. UNCHANGED <<status, form, feePaid, payments>>
    BY <1>7 DEF Completion, EventStep, CreditRewards, NotifyRewardee, SendResult,
       CloseEvent, FailEvent
  <2>2. ASSUME NEW e \in events, NEW W \in SUBSET Users, CreditRewards(e, W)
        PROVE  PromiseInv'
    <3> DEFINE f == [e EXCEPT !.pc = "credited", !.chosen = W, !.todo = W]
    <3>1. e \in Event
      BY DEF TypeOK
    <3>2. f.chosen = W /\ f.survey = e.survey /\ e.survey \in Surveys
      BY <3>1 DEF Event
    <3>3. Cardinality(W) <= form[e.survey].rewardeesCount
      BY <2>2, <3>2, SelectionFits DEF CreditRewards
    <3>4. events' = (events \ {e}) \cup {f}
      BY <2>2 DEF CreditRewards, Advance
    <3> HIDE DEF f
    <3> QED BY <2>1, <3>2, <3>3, <3>4 DEF PromiseInv
  <2>3. ASSUME NEW e \in events,
               \/ \E u \in Users : NotifyRewardee(e, u)
               \/ SendResult(e) \/ CloseEvent(e) \/ FailEvent(e)
        PROVE  PromiseInv'
    <3>1. ASSUME NEW g, events' = (events \ {e}) \cup {g}, g.pc # "credited"
          PROVE  PromiseInv'
      BY <2>1, <3>1 DEF PromiseInv
    <3>2. CASE \E u \in Users : NotifyRewardee(e, u)
      <4> PICK u \in Users : NotifyRewardee(e, u)
        BY <3>2
      <4> DEFINE g == [e EXCEPT !.pc = "notifying", !.todo = @ \ {u}]
      <4>1. events' = (events \ {e}) \cup {g}
        BY DEF NotifyRewardee, Advance
      <4>2. g.pc = "notifying"
        BY DEF TypeOK, Event
      <4> QED BY <3>1, <4>1, <4>2
    <3>3. CASE SendResult(e)
      <4> DEFINE g == [e EXCEPT !.pc = "mailed"]
      <4>1. events' = (events \ {e}) \cup {g}
        BY <3>3 DEF SendResult, Advance
      <4>2. g.pc = "mailed"
        BY DEF TypeOK, Event
      <4> QED BY <3>1, <4>1, <4>2
    <3>4. CASE CloseEvent(e) \/ FailEvent(e)
      BY <2>1, <3>4 DEF CloseEvent, FailEvent, PromiseInv
    <3> QED BY <2>3, <3>2, <3>3, <3>4
  <2> QED BY <1>7, <2>2, <2>3 DEF Completion, EventStep
<1>8. CASE Crash
  BY <1>8 DEF Crash, PromiseInv
<1> QED BY <1>1, <1>4, <1>5, <1>6, <1>7, <1>8 DEF Next, Registration

\* The promise counts as the code does.
LEMMA SameCardinality == \A W : Promise!Cardinality(W) = Cardinality(W)
  BY DEF Promise!Cardinality, Cardinality, Promise!IsFiniteSet, IsFiniteSet

\* The refinement mapping sends every step of the code to a step of the promise
\* or to nothing.
LEMMA PromiseStep ==
  TypeOK /\ EconomyInv /\ PromiseInv /\ [Next]_vars => [Promise!Next]_(Promise!promiseVars)
<1> SUFFICES ASSUME TypeOK, EconomyInv, PromiseInv, [Next]_vars
             PROVE  Promise!Next \/ UNCHANGED Promise!promiseVars
  OBVIOUS
<1> USE DEF rowVars, jobVars, eventVars
<1>0. \A s \in Surveys : form[s].rewardeesCount \in Nat /\ payments[s] \in Nat
  BY DEF TypeOK, FormType
<1>1. ASSUME NEW s \in Surveys, NEW f \in Forms, NEW u \in Users \cup {Nobody},
             RegisterSurvey(s, f, u)
      PROVE  Promise!Announce(s)
  <2>1. form[s].rewardeesCount = 0
    BY <1>1 DEF RegisterSurvey, PromiseInv
  <2>2. form' = [form EXCEPT ![s] = f] /\ f.rewardeesCount \in Nat \ {0}
    BY <1>1, FormsAssumption DEF RegisterSurvey, FormType
  <2>3. form'[s].rewardeesCount = f.rewardeesCount
    BY <2>2 DEF TypeOK
  <2>4. [t \in Surveys |-> form'[t].rewardeesCount]
          = [[t \in Surveys |-> form[t].rewardeesCount] EXCEPT ![s] = f.rewardeesCount]
    BY <2>2 DEF TypeOK
  <2>5. UNCHANGED <<payments, participants, rewards>>
    BY <1>1 DEF RegisterSurvey
  <2> QED BY <2>1, <2>2, <2>3, <2>4, <2>5 DEF Promise!Announce
<1>2. ASSUME NEW h \in PayHandlers, CommitPayment(h)
      PROVE  \E s \in Surveys : Promise!Fund(s)
  <2>1. pay[h] # Idle /\ pay[h].survey \in Surveys
    BY <1>2 DEF CommitPayment, TypeOK, PayCall, Idle
  <2>2. form[pay[h].survey].rewardeesCount > 0
    BY <1>0, <2>1 DEF EconomyInv, PayReads, PromiseInv
  <2>3. /\ payments' = [payments EXCEPT ![pay[h].survey] = @ + 1]
        /\ UNCHANGED <<form, participants, rewards>>
    BY <1>2 DEF CommitPayment
  <2> QED BY <2>1, <2>2, <2>3 DEF Promise!Fund
<1>3. ASSUME NEW h \in SubHandlers, SaveParticipation(h)
      PROVE  \E s \in Surveys, u \in Users : Promise!Join(s, u)
  <2>1. sub[h] # Idle /\ sub[h].survey \in Surveys /\ sub[h].user \in Users
    BY <1>3 DEF SaveParticipation, TypeOK, SubCall, Idle
  <2>2. payments[sub[h].survey] > 0
    BY <2>1 DEF EconomyInv, SubReads, PromiseInv
  <2>3. /\ participants' = [participants EXCEPT ![sub[h].survey] = @ \cup {sub[h].user}]
        /\ UNCHANGED <<form, payments, rewards>>
    BY <1>3 DEF SaveParticipation
  <2> QED BY <2>1, <2>2, <2>3 DEF Promise!Join
<1>4. ASSUME NEW e \in events, NEW u \in Users, NotifyRewardee(e, u), e.pc = "credited"
      PROVE  \E s \in Surveys, W \in SUBSET Users : Promise!Distribute(s, W)
  <2>1. e.survey \in Surveys /\ e.chosen \in SUBSET Users
    BY DEF TypeOK, Event
  <2>2. payments[e.survey] > 0 /\ e.chosen \subseteq participants[e.survey]
    BY <2>1 DEF EconomyInv, EventReads, PromiseInv
  <2>3. Cardinality(e.chosen) <= form[e.survey].rewardeesCount
    BY <1>4 DEF PromiseInv
  <2>4. /\ rewards' = [rewards EXCEPT ![e.survey] =
                         [v \in Users |-> @[v] + IF v \in e.chosen THEN 1 ELSE 0]]
        /\ UNCHANGED <<form, payments, participants>>
    BY <1>4 DEF NotifyRewardee
  <2>5. Promise!Distribute(e.survey, e.chosen)
    BY <2>1, <2>2, <2>3, <2>4, SameCardinality DEF Promise!Distribute
  <2> QED BY <2>1, <2>5
<1>5. ASSUME UNCHANGED <<form, payments, participants, rewards>>
      PROVE  UNCHANGED Promise!promiseVars
  BY <1>5 DEF Promise!promiseVars
<1>6. CASE Payment
  <2>1. ASSUME NEW h \in PayHandlers,
               \/ \E s \in Surveys : CheckPayment(h, s)
               \/ QueueStart(h) \/ QueueEnd(h) \/ FailPayment(h)
        PROVE  UNCHANGED <<form, payments, participants, rewards>>
    BY <2>1 DEF CheckPayment, QueueStart, QueueEnd, FailPayment
  <2> QED BY <1>2, <1>5, <1>6, <2>1 DEF Payment, Promise!Next
<1>7. CASE Participation
  <2>1. ASSUME NEW h \in SubHandlers,
               \/ \E s \in Surveys, u \in Users : AdmitSubmission(h, s, u)
               \/ CountParticipants(h) \/ RefuseSubmission(h)
        PROVE  UNCHANGED <<form, payments, participants, rewards>>
    BY <2>1 DEF AdmitSubmission, CountParticipants, RefuseSubmission
  <2> QED BY <1>3, <1>5, <1>7, <2>1 DEF Participation, Promise!Next
<1>8. CASE Worker
  <2>1. UNCHANGED <<form, payments, participants, rewards>>
    BY <1>8 DEF Worker, WorkerStep, PickJob, UpdateSurveyStatus, NotifyLive,
       EmitCompleted, CompleteJob, FailJob
  <2> QED BY <1>5, <2>1
<1>9. CASE Completion
  <2>1. ASSUME NEW e \in events,
               \/ \E W \in SUBSET Users : CreditRewards(e, W)
               \/ \E u \in Users : NotifyRewardee(e, u) /\ e.pc # "credited"
               \/ SendResult(e) \/ CloseEvent(e) \/ FailEvent(e)
        PROVE  UNCHANGED <<form, payments, participants, rewards>>
    BY <2>1 DEF CreditRewards, NotifyRewardee, SendResult, CloseEvent, FailEvent
  <2> QED BY <1>4, <1>5, <1>9, <2>1 DEF Completion, EventStep, Promise!Next
<1>10. CASE Tick \/ Crash \/ UNCHANGED vars
  <2>1. UNCHANGED <<form, payments, participants, rewards>>
    BY <1>10 DEF Tick, Crash, vars
  <2> QED BY <1>5, <2>1
<1> QED
  BY <1>1, <1>6, <1>7, <1>8, <1>9, <1>10 DEF Next, Registration, Promise!Next

\* The code keeps the promise: seen through its committed rows, a distribution is
\* one atomic step that rewards participants of a funded survey within the quota.
THEOREM SurveyPromiseKept == Spec => PromiseKept
<1>1. Init => Promise!Init
  BY DEF Init, Promise!Init, NoForm
<1> QED
  BY <1>1, SurveyTypeCorrect, SurveyEconomy, InitOverrunInv, NextOverrunInv,
     InitPromiseInv, NextPromiseInv, PromiseStep, PTL DEF Spec, PromiseKept, Promise!Spec
-----------------------------------------------------------------------------
(* Distributions                                                           *)

\* Who may still lead to a distribution of s: a call about to queue its jobs, an
\* END job that waits, a worker that runs one.
EndOf(j, s)    == j.kind = "end" /\ j.survey = s
Queueing(h, s) == pay[h].pc \in {"queueStart", "queueEnd"} /\ pay[h].survey = s
Ending(w, s)   == running[w] # Idle /\ EndOf(running[w].job, s)

Numbered(j, s) == j.payment \in 1 .. payments[s] /\ j.stalls <= MaxStalls /\ j.stalls <= crashes

\* Each payment has at most one of them.
OneEndJob(s) ==
    /\ \A h \in PayHandlers : Queueing(h, s) =>
          /\ pay[h].payment \in 1 .. payments[s]
          /\ \A g \in PayHandlers \ {h} : Queueing(g, s) => pay[g].payment # pay[h].payment
          /\ \A j \in queue : EndOf(j, s) => j.payment # pay[h].payment
          /\ \A w \in WorkerSlots : Ending(w, s) => running[w].job.payment # pay[h].payment
    /\ \A j \in queue : EndOf(j, s) =>
          /\ Numbered(j, s)
          /\ \A k \in queue : EndOf(k, s) /\ k.payment = j.payment => k = j
          /\ \A w \in WorkerSlots : Ending(w, s) => running[w].job.payment # j.payment
    /\ \A w \in WorkerSlots : Ending(w, s) =>
          /\ Numbered(running[w].job, s)
          /\ \A x \in WorkerSlots \ {w} :
                Ending(x, s) => running[x].job.payment # running[w].job.payment

EndJobsInv == \A s \in Surveys : OneEndJob(s)

\* There is none of them at the start.
LEMMA InitEndJobsInv == Init => EndJobsInv
  BY DEF Init, EndJobsInv, OneEndJob, Queueing, Ending, Idle

\* Steps that start nothing new for s and at most drop what there is.
NothingNew(s) ==
    /\ \A h \in PayHandlers : Queueing(h, s)' => Queueing(h, s) /\ pay'[h].payment = pay[h].payment
    /\ \A j \in queue' : EndOf(j, s) => j \in queue
    /\ \A w \in WorkerSlots : Ending(w, s)' => Ending(w, s) /\ running'[w].job = running[w].job
    /\ payments'[s] = payments[s]
    /\ crashes' = crashes

LEMMA NothingNewKeepsOne ==
  ASSUME NEW s \in Surveys, OneEndJob(s), NothingNew(s)
  PROVE  OneEndJob(s)'
  BY DEF OneEndJob, NothingNew, Numbered

\* Most steps are of that kind, for every survey.
LEMMA QuietSteps ==
  ASSUME TypeOK, NEW s \in Surveys,
         \/ Tick \/ Registration \/ Participation \/ Completion \/ UNCHANGED vars
         \/ \E h \in PayHandlers :
               \/ \E t \in Surveys : CheckPayment(h, t)
               \/ QueueStart(h) \/ FailPayment(h)
               \/ CommitPayment(h) /\ pay[h].survey # s
         \/ \E w \in WorkerSlots :
               UpdateSurveyStatus(w) \/ NotifyLive(w) \/ EmitCompleted(w) \/ CompleteJob(w)
  PROVE  NothingNew(s)
<1> USE DEF rowVars, jobVars, eventVars
<1>1. CASE Tick \/ Registration \/ Participation \/ Completion \/ UNCHANGED vars
  <2>1. UNCHANGED <<pay, queue, running, payments, crashes>>
    BY <1>1 DEF Tick, Registration, RegisterSurvey, Participation, AdmitSubmission,
       CountParticipants, SaveParticipation, RefuseSubmission, Completion, EventStep,
       CreditRewards, NotifyRewardee, SendResult, CloseEvent, FailEvent, vars
  <2> QED BY <2>1 DEF NothingNew, Queueing, Ending
<1>2. ASSUME NEW h \in PayHandlers,
             \/ \E t \in Surveys : CheckPayment(h, t)
             \/ QueueStart(h) \/ FailPayment(h)
             \/ CommitPayment(h) /\ pay[h].survey # s
      PROVE  NothingNew(s)
  <2>1. /\ \A x \in PayHandlers : x # h => pay'[x] = pay[x]
        /\ Queueing(h, s)' => Queueing(h, s) /\ pay'[h].payment = pay[h].payment
    BY <1>2 DEF CheckPayment, QueueStart, FailPayment, CommitPayment, Queueing, TypeOK,
       PayCall, Idle
  <2>2. \A j \in queue' : EndOf(j, s) => j \in queue
    BY <1>2 DEF CheckPayment, QueueStart, FailPayment, CommitPayment, EndOf, NewJob
  <2>3. payments'[s] = payments[s] /\ UNCHANGED <<running, crashes>>
    BY <1>2 DEF CheckPayment, QueueStart, FailPayment, CommitPayment, TypeOK
  <2> QED BY <2>1, <2>2, <2>3 DEF NothingNew, Queueing, Ending
<1>3. ASSUME NEW w \in WorkerSlots,
             UpdateSurveyStatus(w) \/ NotifyLive(w) \/ EmitCompleted(w) \/ CompleteJob(w)
      PROVE  NothingNew(s)
  <2>1. running[w] # Idle
    BY <1>3 DEF UpdateSurveyStatus, NotifyLive, EmitCompleted, CompleteJob, Idle
  <2>2. running[w] \in Run
    BY <2>1, RunningJob
  <2>3. /\ \A x \in WorkerSlots : x # w => running'[x] = running[x]
        /\ running'[w] = Idle \/ running'[w].job = running[w].job
    BY <1>3, <2>2 DEF UpdateSurveyStatus, NotifyLive, EmitCompleted, CompleteJob, TypeOK, Run
  <2>4. UNCHANGED <<pay, queue, payments, crashes>>
    BY <1>3 DEF UpdateSurveyStatus, NotifyLive, EmitCompleted, CompleteJob
  <2> QED BY <2>1, <2>3, <2>4 DEF NothingNew, Queueing, Ending
<1> QED BY <1>1, <1>2, <1>3

\* A new payment has a number of its own, and the one thing it leads to changes
\* hands: call, queue, worker, and back to the queue after an error or a crash.
LEMMA NextEndJobsInv == TypeOK /\ EndJobsInv /\ [Next]_vars => EndJobsInv'
<1> SUFFICES ASSUME TypeOK, [Next]_vars, NEW s \in Surveys, OneEndJob(s)
             PROVE  OneEndJob(s)'
  BY DEF EndJobsInv
<1> USE DEF rowVars, jobVars, eventVars
<1>1. ASSUME NothingNew(s) PROVE OneEndJob(s)'
  BY <1>1, NothingNewKeepsOne
<1>2. ASSUME NEW h \in PayHandlers, CommitPayment(h), pay[h].survey = s
      PROVE  OneEndJob(s)'
  <2>1. /\ pay'[h].payment = payments[s] + 1
        /\ \A x \in PayHandlers : x # h => pay'[x] = pay[x]
    BY <1>2 DEF CommitPayment, TypeOK
  <2>2. payments[s] \in Nat /\ payments'[s] = payments[s] + 1
    BY <1>2 DEF CommitPayment, TypeOK
  <2>3. \A x \in PayHandlers : x # h => (Queueing(x, s)' <=> Queueing(x, s))
    BY <2>1 DEF Queueing
  <2>4. UNCHANGED <<queue, running, crashes>>
    BY <1>2 DEF CommitPayment
  <2>5. \A w \in WorkerSlots : Ending(w, s)' <=> Ending(w, s)
    BY <2>4 DEF Ending
  <2> QED BY <2>1, <2>2, <2>3, <2>4, <2>5 DEF OneEndJob, Numbered
<1>3. ASSUME NEW h \in PayHandlers, QueueEnd(h)
      PROVE  OneEndJob(s)'
  <2> DEFINE n == NewJob("end", h)
  <2>1. /\ queue' = queue \cup {n}
        /\ n.payment = pay[h].payment /\ n.survey = pay[h].survey /\ n.stalls = 0
    BY <1>3 DEF QueueEnd, NewJob
  <2>2. /\ ~Queueing(h, s)'
        /\ \A x \in PayHandlers : x # h => pay'[x] = pay[x]
    BY <1>3 DEF QueueEnd, Queueing, TypeOK, Idle
  <2>3. \A x \in PayHandlers : x # h => (Queueing(x, s)' <=> Queueing(x, s))
    BY <2>2 DEF Queueing
  <2>4. UNCHANGED <<running, payments, crashes>>
    BY <1>3 DEF QueueEnd
  <2>5. \A w \in WorkerSlots : Ending(w, s)' <=> Ending(w, s)
    BY <2>4 DEF Ending
  <2>6. EndOf(n, s) => Queueing(h, s)
    BY <1>3, <2>1 DEF QueueEnd, EndOf, Queueing
  <2>7. crashes \in Nat /\ MaxStalls \in Nat
    BY BoundsAssumption DEF TypeOK
  <2> HIDE DEF n
  <2> QED BY <2>1, <2>2, <2>3, <2>4, <2>5, <2>6, <2>7 DEF OneEndJob, Numbered
<1>4. ASSUME NEW w \in WorkerSlots, NEW j \in queue, PickJob(w, j)
      PROVE  OneEndJob(s)'
  <2>1. /\ running[w] = Idle /\ running'[w].job = j
        /\ \A x \in WorkerSlots : x # w => running'[x] = running[x]
    BY <1>4 DEF PickJob, TypeOK
  <2>2. \A x \in WorkerSlots : Ending(x, s)' =>
           \/ x # w /\ Ending(x, s) /\ running'[x].job = running[x].job
           \/ x = w /\ EndOf(j, s) /\ running'[x].job = j
    BY <2>1 DEF Ending
  <2>3. queue' = queue \ {j} /\ UNCHANGED <<pay, payments, crashes>>
    BY <1>4 DEF PickJob
  <2>4. \A x \in PayHandlers : Queueing(x, s)' <=> Queueing(x, s)
    BY <2>3 DEF Queueing
  <2> QED BY <2>2, <2>3, <2>4 DEF OneEndJob, Numbered
<1>5. ASSUME NEW w \in WorkerSlots, FailJob(w)
      PROVE  OneEndJob(s)'
  <2> DEFINE j == [running[w].job EXCEPT !.tries = @ + 1]
  <2>1. running[w] # Idle /\ running[w].job \in Job
    BY <1>5, RunningJob DEF FailJob
  <2>2. /\ j.survey = running[w].job.survey /\ j.kind = running[w].job.kind
        /\ j.payment = running[w].job.payment /\ j.stalls = running[w].job.stalls
    BY <2>1 DEF Job
  <2>3. queue' \subseteq queue \cup {j} /\ UNCHANGED <<pay, payments, crashes>>
    BY <1>5 DEF FailJob
  <2>4. running'[w] = Idle /\ \A x \in WorkerSlots : x # w => running'[x] = running[x]
    BY <1>5 DEF FailJob, TypeOK
  <2> HIDE DEF j
  <2>5. \A x \in WorkerSlots : Ending(x, s)' =>
           x # w /\ Ending(x, s) /\ running'[x].job = running[x].job
    BY <2>4 DEF Ending
  <2>6. EndOf(j, s) => Ending(w, s)
    BY <2>1, <2>2 DEF EndOf, Ending
  <2>7. \A x \in PayHandlers : Queueing(x, s)' <=> Queueing(x, s)
    BY <2>3 DEF Queueing
  <2> QED BY <2>2, <2>3, <2>5, <2>6, <2>7 DEF OneEndJob, Numbered
<1>6. CASE Crash
  <2>1. /\ \A x \in PayHandlers : ~Queueing(x, s)'
        /\ \A x \in WorkerSlots : ~Ending(x, s)'
    BY <1>6 DEF Crash, Queueing, Ending, Idle
  <2>2. crashes \in Nat /\ MaxStalls \in Nat /\ crashes' = crashes + 1 /\ UNCHANGED payments
    BY <1>6, BoundsAssumption DEF Crash, TypeOK
  <2>3. \A j \in queue' : j \in queue \/ \E w \in WorkerSlots :
           running[w] # Idle /\ running[w].job.stalls < MaxStalls /\ j = Stalled(running[w].job)
    BY <1>6 DEF Crash, Active
  <2>4. \A w \in WorkerSlots : running[w] # Idle =>
           LET j == running[w].job IN
             /\ j \in Job
             /\ Stalled(j).survey = j.survey /\ Stalled(j).kind = j.kind
             /\ Stalled(j).payment = j.payment /\ Stalled(j).stalls = j.stalls + 1
    BY RunningJob DEF Stalled, Job
  <2>5. ASSUME NEW j \in queue', EndOf(j, s)
        PROVE  Numbered(j, s)'
    <3>1. CASE j \in queue
      <4>1. Numbered(j, s) /\ j.stalls \in Nat
        BY <2>5, <3>1 DEF OneEndJob, TypeOK, Job
      <4> QED BY <2>2, <4>1 DEF Numbered
    <3>2. CASE j \notin queue
      <4>1. PICK w \in WorkerSlots : running[w] # Idle /\ running[w].job.stalls < MaxStalls
                                     /\ j = Stalled(running[w].job)
        BY <2>3, <3>2
      <4>2. /\ running[w].job \in Job
            /\ j.payment = running[w].job.payment /\ j.stalls = running[w].job.stalls + 1
            /\ j.survey = running[w].job.survey /\ j.kind = running[w].job.kind
        BY <2>4, <4>1
      <4>3. Numbered(running[w].job, s) /\ running[w].job.stalls \in Nat
        BY <2>5, <4>1, <4>2 DEF OneEndJob, Ending, EndOf, Job
      <4> QED BY <2>2, <4>1, <4>2, <4>3 DEF Numbered
    <3> QED BY <3>1, <3>2
  <2>6. ASSUME NEW j \in queue', EndOf(j, s), NEW k \in queue', EndOf(k, s),
               k.payment = j.payment
        PROVE  k = j
    <3>1. \A i \in queue' : EndOf(i, s) /\ i \notin queue => \E w \in WorkerSlots :
             Ending(w, s) /\ running[w].job.payment = i.payment /\ i = Stalled(running[w].job)
      BY <2>3, <2>4 DEF Ending, EndOf
    <3> QED BY <2>6, <3>1 DEF OneEndJob
  <2> QED BY <2>1, <2>5, <2>6 DEF OneEndJob
<1>7. CASE Payment
  <2>1. PICK h \in PayHandlers :
           \/ \E t \in Surveys : CheckPayment(h, t)
           \/ CommitPayment(h) \/ QueueStart(h) \/ QueueEnd(h) \/ FailPayment(h)
    BY <1>7 DEF Payment
  <2>2. CASE CommitPayment(h) /\ pay[h].survey = s
    BY <1>2, <2>2
  <2>3. CASE QueueEnd(h)
    BY <1>3, <2>3
  <2> QED BY <1>1, <2>1, <2>2, <2>3, QuietSteps
<1>8. CASE Worker
  <2>1. PICK w \in WorkerSlots : WorkerStep(w) \/ FailJob(w)
    BY <1>8 DEF Worker
  <2> QED BY <1>1, <1>4, <1>5, <2>1, QuietSteps DEF WorkerStep
<1>9. CASE Tick \/ Registration \/ Participation \/ Completion \/ UNCHANGED vars
  BY <1>1, <1>9, QuietSteps
<1> QED BY <1>6, <1>7, <1>8, <1>9 DEF Next

\* A completion event uses up a token: the payment its job was queued for, and
\* how often the job had been left behind by then.  Whatever may still lead to
\* an event holds a token that is not used.
Accounts(s, U) ==
    /\ IsFiniteSet(U)
    /\ Cardinality(U) = emitted[s]
    /\ \A t \in U :
          /\ t[1] \in 1 .. payments[s] /\ t[2] <= MaxStalls /\ t[2] <= crashes
          /\ \A h \in PayHandlers : Queueing(h, s) => t[1] # pay[h].payment
          /\ \A j \in queue : EndOf(j, s) /\ j.payment = t[1] => t[2] < j.stalls
          /\ \A w \in WorkerSlots : Ending(w, s) /\ running[w].job.payment = t[1] =>
                \/ t[2] < running[w].job.stalls
                \/ t[2] = running[w].job.stalls /\ running[w].pc = "acted"

TokensInv == \A s \in Surveys : \E U \in SUBSET (Nat \X Nat) : Accounts(s, U)

\* No token is used at the start.
LEMMA InitTokensInv == Init => TokensInv
<1> SUFFICES ASSUME Init, NEW s \in Surveys PROVE Accounts(s, {})
  BY DEF TokensInv
<1> QED BY FS_EmptySet DEF Init, Accounts

\* Steps that start nothing new and emit nothing keep the account.
LEMMA NothingNewKeepsTokens ==
  ASSUME NEW s \in Surveys, NEW U \in SUBSET (Nat \X Nat), Accounts(s, U), NothingNew(s),
         emitted'[s] = emitted[s],
         \A w \in WorkerSlots : Ending(w, s)' /\ running[w].pc = "acted" => running'[w].pc = "acted"
  PROVE  Accounts(s, U)'
  BY DEF Accounts, NothingNew

\* Emitting uses the token of the job; a job that comes back after a crash has
\* the next one.
LEMMA NextTokensInv == TypeOK /\ EndJobsInv /\ TokensInv /\ [Next]_vars => TokensInv'
<1> SUFFICES ASSUME TypeOK, [Next]_vars, NEW s \in Surveys, OneEndJob(s),
                    NEW U \in SUBSET (Nat \X Nat), Accounts(s, U)
             PROVE  \E V \in SUBSET (Nat \X Nat) : Accounts(s, V)'
  BY DEF EndJobsInv, TokensInv
<1> USE DEF rowVars, jobVars, eventVars
<1>0. /\ payments[s] \in Nat /\ crashes \in Nat /\ MaxStalls \in Nat
      /\ \A t \in U : t[1] \in Nat /\ t[2] \in Nat
  BY BoundsAssumption DEF TypeOK
<1>1. ASSUME NothingNew(s), emitted'[s] = emitted[s],
             \A w \in WorkerSlots :
                Ending(w, s)' /\ running[w].pc = "acted" => running'[w].pc = "acted"
      PROVE  Accounts(s, U)'
  BY <1>1, NothingNewKeepsTokens
<1>2. ASSUME NEW h \in PayHandlers, CommitPayment(h), pay[h].survey = s
      PROVE  Accounts(s, U)'
  <2>1. /\ pay'[h].payment = payments[s] + 1
        /\ \A x \in PayHandlers : x # h => pay'[x] = pay[x]
    BY <1>2 DEF CommitPayment, TypeOK
  <2>2. payments'[s] = payments[s] + 1
    BY <1>2 DEF CommitPayment, TypeOK
  <2>3. \A x \in PayHandlers : x # h => (Queueing(x, s)' <=> Queueing(x, s))
    BY <2>1 DEF Queueing
  <2>4. UNCHANGED <<queue, running, crashes, emitted>>
    BY <1>2 DEF CommitPayment
  <2>5. \A w \in WorkerSlots : Ending(w, s)' <=> Ending(w, s)
    BY <2>4 DEF Ending
  <2> QED BY <1>0, <2>1, <2>2, <2>3, <2>4, <2>5 DEF Accounts
<1>3. ASSUME NEW h \in PayHandlers, QueueEnd(h)
      PROVE  Accounts(s, U)'
  <2> DEFINE n == NewJob("end", h)
  <2>1. /\ queue' = queue \cup {n}
        /\ n.payment = pay[h].payment /\ n.survey = pay[h].survey
    BY <1>3 DEF QueueEnd, NewJob
  <2>2. \A x \in PayHandlers : Queueing(x, s)' => Queueing(x, s) /\ pay'[x] = pay[x]
    BY <1>3 DEF QueueEnd, Queueing, TypeOK, Idle
  <2>3. UNCHANGED <<running, payments, crashes, emitted>>
    BY <1>3 DEF QueueEnd
  <2>4. \A w \in WorkerSlots : Ending(w, s)' <=> Ending(w, s)
    BY <2>3 DEF Ending
  <2>5. EndOf(n, s) => Queueing(h, s)
    BY <1>3, <2>1 DEF QueueEnd, EndOf, Queueing
  <2> HIDE DEF n
  <2> QED BY <2>1, <2>2, <2>3, <2>4, <2>5 DEF Accounts
<1>4. ASSUME NEW w \in WorkerSlots, NEW j \in queue, PickJob(w, j)
      PROVE  Accounts(s, U)'
  <2>1. /\ running[w] = Idle /\ running'[w].job = j
        /\ \A x \in WorkerSlots : x # w => running'[x] = running[x]
    BY <1>4 DEF PickJob, TypeOK
  <2>2. \A x \in WorkerSlots : Ending(x, s)' =>
           \/ x # w /\ Ending(x, s) /\ running'[x] = running[x]
           \/ x = w /\ EndOf(j, s) /\ running'[x].job = j
    BY <2>1 DEF Ending
  <2>3. queue' = queue \ {j} /\ UNCHANGED <<pay, payments, crashes, emitted>>
    BY <1>4 DEF PickJob
  <2>4. \A x \in PayHandlers : Queueing(x, s)' <=> Queueing(x, s)
    BY <2>3 DEF Queueing
  <2> QED BY <2>2, <2>3, <2>4 DEF Accounts
<1>5. ASSUME NEW w \in WorkerSlots, FailJob(w)
      PROVE  Accounts(s, U)'
  <2> DEFINE j == [running[w].job EXCEPT !.tries = @ + 1]
  <2>1. running[w] # Idle /\ running[w].job \in Job
    BY <1>5, RunningJob DEF FailJob
  <2>2. /\ j.survey = running[w].job.survey /\ j.kind = running[w].job.kind
        /\ j.payment = running[w].job.payment /\ j.stalls = running[w].job.stalls
    BY <2>1 DEF Job
  <2>3. queue' \subseteq queue \cup {j} /\ UNCHANGED <<pay, payments, crashes, emitted>>
    BY <1>5 DEF FailJob
  <2>4. running'[w] = Idle /\ \A x \in WorkerSlots : x # w => running'[x] = running[x]
    BY <1>5 DEF FailJob, TypeOK
  <2> HIDE DEF j
  <2>5. \A x \in WorkerSlots : Ending(x, s)' => Ending(x, s) /\ running'[x] = running[x]
    BY <2>4 DEF Ending
  <2>6. EndOf(j, s) => Ending(w, s) /\ running[w].pc # "acted"
    BY <1>5, <2>1, <2>2 DEF FailJob, EndOf, Ending
  <2>7. \A x \in PayHandlers : Queueing(x, s)' <=> Queueing(x, s)
    BY <2>3 DEF Queueing
  <2> QED BY <2>2, <2>3, <2>5, <2>6, <2>7 DEF Accounts
<1>6. ASSUME NEW w \in WorkerSlots, EmitCompleted(w), Ending(w, s)
      PROVE  \E V \in SUBSET (Nat \X Nat) : Accounts(s, V)'
  <2>0. PICK j : j = running[w].job
    OBVIOUS
  <2> DEFINE V == U \cup {<<j.payment, j.stalls>>}
  <2>1. j \in Job /\ running[w] \in Run /\ running[w].pc = "updated" /\ j.survey = s
    BY <2>0, <1>6, RunningJob DEF EmitCompleted, Ending, EndOf
  <2>2. <<j.payment, j.stalls>> \in Nat \X Nat /\ Numbered(j, s)
    BY <2>0, <1>6, <2>1 DEF Job, OneEndJob
  <2>3. <<j.payment, j.stalls>> \notin U
    BY <2>0, <1>6, <2>1, <2>2 DEF Accounts
  <2>4. IsFiniteSet(V) /\ Cardinality(V) = emitted[s] + 1
    BY <2>3, FS_AddElement DEF Accounts
  <2>5. emitted'[s] = emitted[s] + 1 /\ UNCHANGED <<pay, queue, payments, crashes>>
    BY <2>0, <1>6, <2>1 DEF EmitCompleted, TypeOK
  <2>6. /\ running'[w].job = j /\ running'[w].pc = "acted"
        /\ \A x \in WorkerSlots : x # w => running'[x] = running[x]
    BY <2>0, <1>6, <2>1 DEF EmitCompleted, TypeOK, Run
  <2>7. \A x \in WorkerSlots : Ending(x, s)' => Ending(x, s) /\ running'[x].job = running[x].job
    BY <1>6, <2>0, <2>6 DEF Ending
  <2>8. \A x \in PayHandlers : Queueing(x, s)' <=> Queueing(x, s)
    BY <2>5 DEF Queueing
  <2>9. ASSUME NEW t \in V
        PROVE  /\ t[1] \in 1 .. payments'[s] /\ t[2] <= MaxStalls /\ t[2] <= crashes'
               /\ \A h \in PayHandlers : Queueing(h, s)' => t[1] # pay'[h].payment
               /\ \A k \in queue' : EndOf(k, s) /\ k.payment = t[1] => t[2] < k.stalls
               /\ \A x \in WorkerSlots : Ending(x, s)' /\ running'[x].job.payment = t[1] =>
                     \/ t[2] < running'[x].job.stalls
                     \/ t[2] = running'[x].job.stalls /\ running'[x].pc = "acted"
    <3>1. CASE t \in U
      BY <2>0, <1>6, <2>1, <2>5, <2>6, <2>7, <2>8, <3>1 DEF Accounts
    <3>2. CASE t = <<j.payment, j.stalls>>
      <4>1. t[1] = j.payment /\ t[2] = j.stalls
        BY <3>2
      <4>2. \A h \in PayHandlers : Queueing(h, s) => j.payment # pay[h].payment
        BY <2>0, <1>6 DEF OneEndJob
      <4>3. \A k \in queue : EndOf(k, s) => k.payment # j.payment
        BY <2>0, <1>6 DEF OneEndJob
      <4>4. \A x \in WorkerSlots : Ending(x, s) /\ x # w => running[x].job.payment # j.payment
        BY <2>0, <1>6 DEF OneEndJob
      <4> QED BY <2>0, <2>2, <2>5, <2>6, <2>7, <2>8, <4>1, <4>2, <4>3, <4>4 DEF Numbered
    <3> QED BY <3>1, <3>2
  <2>10. V \in SUBSET (Nat \X Nat)
    BY <2>2
  <2>11. Accounts(s, V)'
    <3> HIDE DEF V
    <3> QED BY <2>4, <2>5, <2>9 DEF Accounts
  <2> QED BY <2>10, <2>11
<1>7. CASE Crash
  <2>1. /\ \A x \in PayHandlers : ~Queueing(x, s)'
        /\ \A x \in WorkerSlots : ~Ending(x, s)'
    BY <1>7 DEF Crash, Queueing, Ending, Idle
  <2>2. crashes' = crashes + 1 /\ UNCHANGED <<payments, emitted>>
    BY <1>7 DEF Crash
  <2>3. \A j \in queue' : j \in queue \/ \E w \in WorkerSlots :
           running[w] # Idle /\ j = Stalled(running[w].job)
    BY <1>7 DEF Crash, Active
  <2>4. \A w \in WorkerSlots : running[w] # Idle =>
           LET j == running[w].job IN
             /\ j.stalls \in Nat
             /\ Stalled(j).survey = j.survey /\ Stalled(j).kind = j.kind
             /\ Stalled(j).payment = j.payment /\ Stalled(j).stalls = j.stalls + 1
    BY RunningJob DEF Stalled, Job
  <2>5. ASSUME NEW j \in queue', EndOf(j, s), NEW t \in U, j.payment = t[1]
        PROVE  t[2] < j.stalls
    <3>1. CASE j \in queue
      BY <2>5, <3>1 DEF Accounts
    <3>2. CASE j \notin queue
      <4>1. PICK w \in WorkerSlots : running[w] # Idle /\ j = Stalled(running[w].job)
        BY <2>3, <3>2
      <4>2. /\ j.payment = running[w].job.payment /\ j.stalls = running[w].job.stalls + 1
            /\ Ending(w, s) /\ running[w].job.stalls \in Nat
        BY <2>4, <2>5, <4>1 DEF Ending, EndOf
      <4>3. t[2] < running[w].job.stalls \/ t[2] = running[w].job.stalls
        BY <2>5, <4>2 DEF Accounts
      <4> QED BY <1>0, <4>2, <4>3
    <3> QED BY <3>1, <3>2
  <2>6. \A t \in U : t[1] \in 1 .. payments'[s] /\ t[2] <= MaxStalls /\ t[2] <= crashes'
    BY <1>0, <2>2 DEF Accounts
  <2> QED BY <2>1, <2>2, <2>5, <2>6 DEF Accounts
<1>8. CASE Payment
  <2>1. PICK h \in PayHandlers :
           \/ \E t \in Surveys : CheckPayment(h, t)
           \/ CommitPayment(h) \/ QueueStart(h) \/ QueueEnd(h) \/ FailPayment(h)
    BY <1>8 DEF Payment
  <2>2. CASE CommitPayment(h) /\ pay[h].survey = s
    BY <1>2, <2>2
  <2>3. CASE QueueEnd(h)
    BY <1>3, <2>3
  <2>4. CASE \/ \E t \in Surveys : CheckPayment(h, t)
             \/ QueueStart(h) \/ FailPayment(h)
             \/ CommitPayment(h) /\ pay[h].survey # s
    <3>1. NothingNew(s)
      BY <2>4, QuietSteps
    <3>2. UNCHANGED <<emitted, running>>
      BY <2>4 DEF CheckPayment, QueueStart, FailPayment, CommitPayment
    <3> QED BY <1>1, <3>1, <3>2
  <2> QED BY <2>1, <2>2, <2>3, <2>4
<1>9. CASE Worker
  <2>1. PICK w \in WorkerSlots : WorkerStep(w) \/ FailJob(w)
    BY <1>9 DEF Worker
  <2>2. CASE UpdateSurveyStatus(w) \/ NotifyLive(w) \/ CompleteJob(w)
    <3>1. NothingNew(s)
      BY <2>2, QuietSteps
    <3>2. (running[w] # Idle /\ running[w].pc # "acted") \/ running'[w] = Idle
      BY <2>2 DEF UpdateSurveyStatus, NotifyLive, CompleteJob, TypeOK, Idle
    <3>3. (\A x \in WorkerSlots : x # w => running'[x] = running[x]) /\ UNCHANGED emitted
      BY <2>2 DEF UpdateSurveyStatus, NotifyLive, CompleteJob, TypeOK
    <3> QED BY <1>1, <3>1, <3>2, <3>3 DEF Ending
  <2>3. CASE EmitCompleted(w) /\ ~Ending(w, s)
    <3>1. NothingNew(s)
      BY <2>3, QuietSteps
    <3>2. running[w] # Idle /\ running[w].pc # "acted"
      BY <2>3 DEF EmitCompleted, Idle
    <3>3. running[w].job.survey # s
      BY <2>3, <3>2 DEF EmitCompleted, Ending, EndOf
    <3>4. (\A x \in WorkerSlots : x # w => running'[x] = running[x]) /\ emitted'[s] = emitted[s]
      BY <2>3, <3>3 DEF EmitCompleted, TypeOK
    <3> QED BY <1>1, <3>1, <3>2, <3>4
  <2> QED BY <1>4, <1>5, <1>6, <2>1, <2>2, <2>3 DEF WorkerStep
<1>10. CASE Tick \/ Registration \/ Participation \/ Completion \/ UNCHANGED vars
  <2>1. NothingNew(s)
    BY <1>10, QuietSteps
  <2>2. UNCHANGED <<emitted, running>>
    BY <1>10 DEF Tick, Registration, RegisterSurvey, Participation, AdmitSubmission,
       CountParticipants, SaveParticipation, RefuseSubmission, Completion, EventStep,
       CreditRewards, NotifyRewardee, SendResult, CloseEvent, FailEvent, vars
  <2> QED BY <1>1, <2>1, <2>2
<1> QED BY <1>7, <1>8, <1>9, <1>10 DEF Next

\* There are only so many tokens.
LEMMA TokensBound ==
  ASSUME TypeOK, TokensInv, NEW s \in Surveys
  PROVE  /\ emitted[s] <= payments[s] * (1 + MaxStalls)
         /\ emitted[s] <= payments[s] * (1 + crashes)
<1>1. PICK U \in SUBSET (Nat \X Nat) : Accounts(s, U)
  BY DEF TokensInv
<1>2. payments[s] \in Nat /\ crashes \in Nat /\ MaxStalls \in Nat
  BY BoundsAssumption DEF TypeOK
<1>3. ASSUME NEW m \in Nat, \A t \in U : t[2] <= m
      PROVE  Cardinality(U) <= payments[s] * (1 + m)
  <2> DEFINE P == 1 .. payments[s]
             M == 0 .. m
  <2>1. IsFiniteSet(P) /\ Cardinality(P) = payments[s]
    <3>1. \A n \in Nat : IsFiniteSet(1 .. n) /\ Cardinality(1 .. n) = n
      BY FS_Interval
    <3> QED BY <1>2, <3>1
  <2>2. IsFiniteSet(M) /\ Cardinality(M) = 1 + m
    BY FS_Interval
  <2>3. U \subseteq P \X M
    <3> SUFFICES ASSUME NEW t \in U PROVE t \in P \X M
      OBVIOUS
    <3>1. t \in Nat \X Nat
      OBVIOUS
    <3>2. t[1] \in P
      BY <1>1 DEF Accounts
    <3>3. t[2] \in M
      BY <1>3, <3>1
    <3> QED BY <3>1, <3>2, <3>3
  <2> HIDE DEF P, M
  <2>4. IsFiniteSet(P \X M) /\ Cardinality(P \X M) = payments[s] * (1 + m)
    BY <2>1, <2>2, FS_Product
  <2> QED BY <2>3, <2>4, FS_Subset
<1> QED BY <1>1, <1>2, <1>3 DEF Accounts

\* The events whose rewards are still to become durable.
Crediting(s) == {e \in events : e.survey = s /\ e.pc \in {"emitted", "credited"}}

\* A user has at most one reward for each event that has credited, so rewards
\* and events still to credit share the number of events.
RewardsInv ==
    /\ IsFiniteSet(events)
    /\ \A s \in Surveys, u \in Users :
          rewards[s][u] + Cardinality(Crediting(s)) <= emitted[s]

\* Nobody is rewarded at the start.
LEMMA InitRewardsInv == Init => RewardsInv
<1> SUFFICES ASSUME Init PROVE RewardsInv
  OBVIOUS
<1>1. IsFiniteSet(events) /\ \A s \in Surveys : Cardinality(Crediting(s)) = 0
  <2>1. events = {} /\ \A s \in Surveys : Crediting(s) = {}
    BY DEF Init, Crediting
  <2> QED BY <2>1, FS_EmptySet
<1> QED BY <1>1 DEF Init, RewardsInv

\* Events come with an emission; the one that leaves by crediting takes its place
\* in the rewards with it.
LEMMA NextRewardsInv == TypeOK /\ RewardsInv /\ [Next]_vars => RewardsInv'
<1> SUFFICES ASSUME TypeOK, RewardsInv, [Next]_vars PROVE RewardsInv'
  OBVIOUS
<1> USE DEF rowVars, jobVars, eventVars
<1>1. \A s \in Surveys : IsFiniteSet(Crediting(s)) /\ Cardinality(Crediting(s)) \in Nat
  <2>1. \A s \in Surveys : Crediting(s) \subseteq events
    BY DEF Crediting
  <2> QED BY <2>1, FS_Subset, FS_CardinalityType DEF RewardsInv
<1>2. \A s \in Surveys, u \in Users : rewards[s][u] \in Nat /\ emitted[s] \in Nat
  BY DEF TypeOK
<1>3. ASSUME IsFiniteSet(events'),
             \A s \in Surveys : Cardinality(Crediting(s)') <= Cardinality(Crediting(s)),
             \A s \in Surveys : Cardinality(Crediting(s)') \in Nat,
             UNCHANGED <<rewards, emitted>>
      PROVE  RewardsInv'
  BY <1>1, <1>2, <1>3 DEF RewardsInv
<1>4. ASSUME UNCHANGED eventVars PROVE RewardsInv'
  BY <1>4 DEF RewardsInv, Crediting
<1>5. ASSUME NEW w \in WorkerSlots, EmitCompleted(w)
      PROVE  RewardsInv'
  <2>0. PICK e : e = NewEvent(running[w].job)
    OBVIOUS
  <2>1. running[w] # Idle
    BY <1>5 DEF EmitCompleted, Idle
  <2>2. running[w].job.survey \in Surveys /\ e.survey = running[w].job.survey
    BY <2>0, <2>1, RunningJob DEF Job, NewEvent
  <2>3. /\ events' = events \cup {e} /\ UNCHANGED rewards
        /\ emitted' = [emitted EXCEPT ![e.survey] = @ + 1]
    BY <1>5, <2>0, <2>2 DEF EmitCompleted
  <2>4. IsFiniteSet(events')
    BY <2>3, FS_AddElement DEF RewardsInv
  <2>5. ASSUME NEW s \in Surveys, NEW u \in Users
        PROVE  rewards'[s][u] + Cardinality(Crediting(s)') <= emitted'[s]
    <3>1. rewards[s][u] + Cardinality(Crediting(s)) <= emitted[s]
      BY DEF RewardsInv
    <3>2. CASE e.survey = s
      <4>1. Crediting(s)' \subseteq Crediting(s) \cup {e}
        BY <2>3 DEF Crediting
      <4>2. Cardinality(Crediting(s)') <= Cardinality(Crediting(s)) + 1
            /\ Cardinality(Crediting(s)') \in Nat
        <5> DEFINE C == Crediting(s)
        <5>0. IsFiniteSet(C) /\ Cardinality(C) \in Nat
          BY <1>1
        <5> HIDE DEF C
        <5>1. /\ IsFiniteSet(C \cup {e})
              /\ \/ Cardinality(C \cup {e}) = Cardinality(C)
                 \/ Cardinality(C \cup {e}) = Cardinality(C) + 1
          BY <5>0, FS_AddElement
        <5>2. Crediting(s)' \subseteq C \cup {e}
          BY <4>1 DEF C
        <5>3. /\ Cardinality(Crediting(s)') <= Cardinality(C \cup {e})
              /\ Cardinality(Crediting(s)') \in Nat
          BY <5>1, <5>2, FS_Subset, FS_CardinalityType
        <5> QED BY <5>0, <5>1, <5>3 DEF C
      <4>3. emitted'[s] = emitted[s] + 1
        BY <2>3, <3>2 DEF TypeOK
      <4> QED BY <1>1, <1>2, <2>3, <3>1, <4>2, <4>3
    <3>3. CASE e.survey # s
      <4>1. Crediting(s)' = Crediting(s)
        BY <2>3, <3>3 DEF Crediting
      <4>2. emitted'[s] = emitted[s]
        BY <2>2, <2>3, <3>3 DEF TypeOK
      <4> QED BY <2>3, <3>1, <4>1, <4>2
    <3> QED BY <3>2, <3>3
  <2> QED BY <2>4, <2>5 DEF RewardsInv
<1>6. ASSUME NEW e \in events, NEW f, events' = (events \ {e}) \cup {f},
             f.survey = e.survey,
             f.pc \in {"emitted", "credited"} => e.pc \in {"emitted", "credited"},
             UNCHANGED <<rewards, emitted>>
      PROVE  RewardsInv'
  <2>1. IsFiniteSet(events')
    BY <1>6, FS_RemoveElement, FS_AddElement DEF RewardsInv
  <2>2. ASSUME NEW s \in Surveys
        PROVE  /\ Cardinality(Crediting(s)') <= Cardinality(Crediting(s))
               /\ Cardinality(Crediting(s)') \in Nat
    <3> DEFINE C == Crediting(s)
    <3>0. IsFiniteSet(C) /\ Cardinality(C) \in Nat
      BY <1>1
    <3>1. CASE e \in C
      <4>1. Crediting(s)' \subseteq (C \ {e}) \cup {f}
        BY <1>6 DEF Crediting
      <4>2. /\ IsFiniteSet(C \ {e}) /\ Cardinality(C \ {e}) = Cardinality(C) - 1
        BY <3>0, <3>1, FS_RemoveElement
      <4>3. /\ IsFiniteSet((C \ {e}) \cup {f})
            /\ Cardinality((C \ {e}) \cup {f}) <= Cardinality(C)
        <5> DEFINE D == C \ {e}
        <5>1. IsFiniteSet(D) /\ Cardinality(D) = Cardinality(C) - 1
          BY <4>2
        <5> HIDE DEF D
        <5>2. /\ IsFiniteSet(D \cup {f})
              /\ \/ Cardinality(D \cup {f}) = Cardinality(D)
                 \/ Cardinality(D \cup {f}) = Cardinality(D) + 1
          BY <5>1, FS_AddElement
        <5> QED BY <3>0, <5>1, <5>2 DEF D
      <4>4. Cardinality((C \ {e}) \cup {f}) \in Nat
        BY <4>3, FS_CardinalityType
      <4> QED BY <3>0, <4>1, <4>3, <4>4, FS_Subset, FS_CardinalityType
    <3>2. CASE e \notin C
      <4>1. Crediting(s)' \subseteq C
        BY <1>6, <3>2 DEF Crediting
      <4> QED BY <3>0, <4>1, FS_Subset, FS_CardinalityType
    <3> QED BY <3>1, <3>2
  <2> QED BY <1>3, <1>6, <2>1, <2>2
<1>7. ASSUME NEW e \in events, NEW u \in Users, NotifyRewardee(e, u)
      PROVE  RewardsInv'
  <2>0. PICK f : f = [e EXCEPT !.pc = "notifying", !.todo = @ \ {u}]
    OBVIOUS
  <2>1. /\ events' = (events \ {e}) \cup {f} /\ UNCHANGED emitted
        /\ f.pc = "notifying" /\ f.survey = e.survey /\ e.survey \in Surveys
    BY <1>7, <2>0 DEF NotifyRewardee, Advance, TypeOK, Event
  <2>2. CASE e.pc = "notifying"
    BY <1>6, <1>7, <2>1, <2>2 DEF NotifyRewardee
  <2>3. CASE e.pc # "notifying"
    <3>1. e.pc = "credited" /\ e \in Crediting(e.survey)
      BY <1>7, <2>3 DEF NotifyRewardee, Crediting
    <3>2. Crediting(e.survey)' = Crediting(e.survey) \ {e}
      BY <2>1 DEF Crediting
    <3>3. Cardinality(Crediting(e.survey)') = Cardinality(Crediting(e.survey)) - 1
      BY <1>1, <2>1, <3>1, <3>2, FS_RemoveElement
    <3>4. \A s \in Surveys : s # e.survey => Crediting(s)' = Crediting(s)
      BY <2>1 DEF Crediting
    <3>5. rewards' = [rewards EXCEPT ![e.survey] =
                        [v \in Users |-> @[v] + IF v \in e.chosen THEN 1 ELSE 0]]
      BY <1>7, <3>1 DEF NotifyRewardee
    <3>6. ASSUME NEW s \in Surveys, NEW v \in Users
          PROVE  rewards'[s][v] + Cardinality(Crediting(s)') <= emitted'[s]
      <4>1. rewards[s][v] + Cardinality(Crediting(s)) <= emitted[s]
        BY DEF RewardsInv
      <4>2. CASE s = e.survey
        <5>1. rewards'[s][v] \in Nat /\ rewards'[s][v] <= rewards[s][v] + 1
          BY <1>2, <3>5, <4>2 DEF TypeOK
        <5> QED BY <1>1, <1>2, <2>1, <3>3, <4>1, <4>2, <5>1
      <4>3. CASE s # e.survey
        <5>1. rewards'[s] = rewards[s]
          BY <3>5, <4>3 DEF TypeOK
        <5> QED BY <2>1, <3>4, <4>1, <4>3, <5>1
      <4> QED BY <4>2, <4>3
    <3>7. IsFiniteSet(events')
      BY <2>1, FS_RemoveElement, FS_AddElement DEF RewardsInv
    <3> QED BY <3>6, <3>7 DEF RewardsInv
  <2> QED BY <2>2, <2>3
<1>8. ASSUME events' \subseteq events, UNCHANGED <<rewards, emitted>>
      PROVE  RewardsInv'
  <2>1. IsFiniteSet(events')
    BY <1>8, FS_Subset DEF RewardsInv
  <2>2. ASSUME NEW s \in Surveys
        PROVE  /\ Cardinality(Crediting(s)') <= Cardinality(Crediting(s))
               /\ Cardinality(Crediting(s)') \in Nat
    <3>1. Crediting(s)' \subseteq Crediting(s)
      BY <1>8 DEF Crediting
    <3> QED BY <1>1, <3>1, FS_Subset, FS_CardinalityType
  <2> QED BY <1>3, <1>8, <2>1, <2>2
<1>9. CASE Completion
  <2>1. PICK e \in events : EventStep(e) \/ FailEvent(e)
    BY <1>9 DEF Completion
  <2>2. e \in Event
    BY DEF TypeOK
  <2>3. ASSUME NEW W \in SUBSET Users, CreditRewards(e, W)
        PROVE  RewardsInv'
    <3>0. PICK f : f = [e EXCEPT !.pc = "credited", !.chosen = W, !.todo = W]
      OBVIOUS
    <3>1. f.survey = e.survey /\ e.pc = "emitted"
      BY <2>2, <2>3, <3>0 DEF CreditRewards, Event
    <3> QED BY <1>6, <2>3, <3>0, <3>1 DEF CreditRewards, Advance
  <2>4. CASE SendResult(e)
    <3>0. PICK f : f = [e EXCEPT !.pc = "mailed"]
      OBVIOUS
    <3>1. f.survey = e.survey /\ f.pc = "mailed"
      BY <2>2, <3>0 DEF Event
    <3> QED BY <1>6, <2>4, <3>0, <3>1 DEF SendResult, Advance
  <2>5. CASE CloseEvent(e) \/ FailEvent(e)
    BY <1>8, <2>5 DEF CloseEvent, FailEvent
  <2> QED BY <1>7, <2>1, <2>3, <2>4, <2>5 DEF EventStep
<1>10. CASE Crash
  BY <1>8, <1>10 DEF Crash
<1>11. CASE Worker
  <2>1. ASSUME NEW w \in WorkerSlots,
               \/ \E j \in queue : PickJob(w, j)
               \/ UpdateSurveyStatus(w) \/ NotifyLive(w) \/ CompleteJob(w) \/ FailJob(w)
        PROVE  UNCHANGED eventVars
    BY <2>1 DEF PickJob, UpdateSurveyStatus, NotifyLive, CompleteJob, FailJob
  <2> QED BY <1>4, <1>5, <1>11, <2>1 DEF Worker, WorkerStep
<1>12. CASE Tick \/ Registration \/ Payment \/ Participation \/ UNCHANGED vars
  <2>1. UNCHANGED eventVars
    BY <1>12 DEF Tick, Registration, RegisterSurvey, Payment, CheckPayment, CommitPayment,
       QueueStart, QueueEnd, FailPayment, Participation, AdmitSubmission, CountParticipants,
       SaveParticipation, RefuseSubmission, vars
  <2> QED BY <1>4, <2>1
<1> QED BY <1>9, <1>10, <1>11, <1>12 DEF Next

\* A survey is distributed once per payment and once more per crash that caught
\* its END job, and nobody is rewarded more often than it is distributed.
THEOREM SurveyDistributionsBounded == Spec => []DistributionsBounded
<1>1. TypeOK /\ TokensInv /\ RewardsInv => DistributionsBounded
  <2> SUFFICES ASSUME TypeOK, TokensInv, RewardsInv, NEW s \in Surveys, NEW u \in Users
               PROVE  rewards[s][u] <= emitted[s]
    BY TokensBound DEF DistributionsBounded
  <2>1. Crediting(s) \subseteq events
    BY DEF Crediting
  <2>2. Cardinality(Crediting(s)) \in Nat
    BY <2>1, FS_Subset, FS_CardinalityType DEF RewardsInv
  <2> QED BY <2>2 DEF RewardsInv, TypeOK
<1> QED
  BY <1>1, SurveyTypeCorrect, InitEndJobsInv, NextEndJobsInv, InitTokensInv,
     NextTokensInv, InitRewardsInv, NextRewardsInv, PTL DEF Spec
=============================================================================
