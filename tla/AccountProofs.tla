---------------------------- MODULE AccountProofs -----------------------------
(***************************************************************************)
(* Theorems about what lets users and admins in: Throttle, AccountRow,     *)
(* AdminAccess and EmailCheck, for every number of requests that run at once,*)
(* every limit and any number of crashes.                                  *)
(***************************************************************************)
EXTENDS Throttle, AccountRow, AdminAccess, EmailCheck, Integers, FiniteSetTheorems, TLAPS

-----------------------------------------------------------------------------
(* Counting                                                                *)

\* An image has no more elements than what it is of.
LEMMA ImageBound ==
    ASSUME NEW S, IsFiniteSet(S), NEW f
    PROVE  /\ IsFiniteSet({f[x] : x \in S})
           /\ Cardinality({f[x] : x \in S}) <= Cardinality(S)
  <1> DEFINE g == [x \in S |-> f[x]]
  <1>1. g \in Surjection(S, {f[x] : x \in S})
    BY DEF Surjection
  <1> QED
    BY <1>1, FS_Surjection

\* One element more.
LEMMA OneMore ==
    ASSUME NEW S, IsFiniteSet(S), NEW x
    PROVE  /\ IsFiniteSet(S \cup {x})
           /\ Cardinality(S \cup {x}) \in Nat
           /\ Cardinality(S \cup {x}) <= Cardinality(S) + 1
           /\ x \notin S => Cardinality(S \cup {x}) = Cardinality(S) + 1
  <1>1. Cardinality(S) \in Nat
    BY FS_CardinalityType
  <1>2. /\ IsFiniteSet(S \cup {x})
        /\ Cardinality(S \cup {x}) = IF x \in S THEN Cardinality(S) ELSE Cardinality(S) + 1
    BY FS_AddElement
  <1> QED
    BY <1>1, <1>2

\* One element less.
LEMMA OneLess ==
    ASSUME NEW S, IsFiniteSet(S), NEW x \in S
    PROVE  /\ IsFiniteSet(S \ {x})
           /\ Cardinality(S \ {x}) \in Nat
           /\ Cardinality(S \ {x}) = Cardinality(S) - 1
           /\ Cardinality(S) \in Nat /\ Cardinality(S) >= 1
  <1>1. /\ IsFiniteSet(S \ {x})
        /\ Cardinality(S \ {x}) = IF x \in S THEN Cardinality(S) - 1 ELSE Cardinality(S)
    BY FS_RemoveElement
  <1>2. Cardinality(S) \in Nat /\ Cardinality(S \ {x}) \in Nat
    BY <1>1, FS_CardinalityType
  <1> QED
    BY <1>1, <1>2

-----------------------------------------------------------------------------
(* The cache counters                                                      *)

\* A request that has started is a call.
LEMMA RunningCall ==
  ASSUME ThrottleTypeOK, NEW h \in Handlers, call[h].pc # "resting"
  PROVE  call[h] \in Calls
  BY DEF ThrottleTypeOK, Resting

\* The fields of a call that a step sets keep it a call.
LEMMA CallUpdates ==
  ASSUME NEW c \in Calls, NEW n \in Nat, NEW b \in BOOLEAN, NEW p,
         p \in {"failing", "counting", "raising", "blocking", "clearing",
                "resetting", "dropping", "sending", "retrying", "reading",
                "tallied", "retried", "closing", "tallying", "forgetting",
                "disabling", "confirming", "lifting", "untallying", "voiding"}
  PROVE  /\ [c EXCEPT !.pc = p] \in Calls
         /\ [c EXCEPT !.pc = p, !.seen = n] \in Calls
         /\ [c EXCEPT !.pc = p, !.blocks = n] \in Calls
         /\ [c EXCEPT !.pc = p, !.again = b] \in Calls
  BY DEF Calls

\* The calls requests start with.
LEMMA FirstCall ==
  ASSUME ThrottleTypeOK, NEW k \in Keys, NEW d \in {"login", "forgot", "signup", "phone", "confirm"},
         NEW p \in {"failing", "resetting", "dropping", "sending", "retrying", "confirming"}
  PROVE  Request(p, d, k) \in Calls
  BY DEF Request, Calls, ThrottleTypeOK

-----------------------------------------------------------------------------
(* Types                                                                   *)

\* The cache starts empty and nothing runs.
LEMMA InitThrottleTypeOK == ThrottleInit => ThrottleTypeOK
  BY ThrottleAssumption DEF ThrottleInit, ThrottleTypeOK, Resting

\* Steps that only start, end or advance requests leave the calls calls.
LEMMA NextThrottleTypeOK == ThrottleTypeOK /\ [ThrottleNext]_throttleVars => ThrottleTypeOK'
<1> SUFFICES ASSUME ThrottleTypeOK, [ThrottleNext]_throttleVars
             PROVE  ThrottleTypeOK'
  OBVIOUS
<1>1. ASSUME NEW h \in Handlers, NEW c \in Calls, Begin(h, c)
      PROVE  /\ UNCHANGED <<block, attempts, retries, tally, code, enabled, lockouts, crashes>>
             /\ call' \in [Handlers -> Calls \cup {Resting}]
             /\ left' \in [logins : Nat, codes : Nat, crashes : Nat]
  BY <1>1 DEF Begin, ThrottleTypeOK
<1>2. ASSUME NEW h \in Handlers, StartStep(h)
      PROVE  ThrottleTypeOK'
  <2>1. CASE LoginRight(h) \/ LoginSocial(h) \/ LoginBlocked(h) \/ LoginWrong(h)
    <3>1. Email \in Keys
      BY DEF Keys
    <3>2. guesses' \in [Keys -> Nat] /\ UNCHANGED uses
      BY <2>1 DEF LoginRight, LoginSocial, LoginBlocked, LoginWrong, ThrottleTypeOK
    <3>3. \E c \in Calls : Begin(h, c)
      BY <2>1, <3>1, FirstCall DEF LoginRight, LoginSocial, LoginBlocked, LoginWrong
    <3> QED BY <1>1, <3>2, <3>3 DEF ThrottleTypeOK
  <2>2. ASSUME NEW k \in Keys,
               \/ Confirm(h, k)
               \/ \E d \in {"forgot", "signup", "phone"} : AskCode(h, d, k)
               \/ \E d \in {"forgot", "phone"} : AskCodeBlocked(h, d, k)
        PROVE  ThrottleTypeOK'
    <3>1. \E c \in Calls : Begin(h, c)
      BY <2>2, FirstCall DEF Confirm, AskCode, AskCodeBlocked
    <3>2. UNCHANGED <<guesses, uses>>
      BY <2>2 DEF Confirm, AskCode, AskCodeBlocked
    <3> QED BY <1>1, <3>1, <3>2 DEF ThrottleTypeOK
  <2> QED BY <1>2, <2>1, <2>2 DEF StartStep
<1>3. ASSUME NEW h \in Handlers, LoginStep(h) \/ CodeStep(h)
      PROVE  ThrottleTypeOK'
  <2>1. call[h].pc # "resting"
    BY <1>3 DEF LoginStep, CodeStep, ReadBlock, ReadAttempts, RaiseAttempts, BlockLogin,
       ClearAttempts, DropCode, SetCode, CheckRetry, ReadRetries, ReadTally, RaiseRetries,
       BlockCodes, SetTally, ClearRetries, AcceptCode, Disable, LiftBlock, ClearTally,
       VoidCode
  <2>2. call[h] \in Calls
    BY <2>1, RunningCall
  <2>3. On(h) \in Keys /\ call[h].seen \in Nat /\ call[h].blocks \in Nat
    BY <2>2 DEF On, Calls
  <2>4. call' \in [Handlers -> Calls \cup {Resting}]
    <3>0. /\ attempts[On(h)] + 1 \in Nat /\ retries[On(h)] + 1 \in Nat
          /\ tally[On(h)] \in Nat /\ call[h].blocks + 1 \in Nat
      BY <2>3 DEF ThrottleTypeOK
    <3>1. ASSUME NEW c \in Calls \cup {Resting}, call' = [call EXCEPT ![h] = c]
          PROVE  call' \in [Handlers -> Calls \cup {Resting}]
      BY <3>1 DEF ThrottleTypeOK
    <3>2. CASE LoginStep(h)
      <4>1. CASE ReadBlock(h)
        BY <2>2, <3>0, <3>1, <4>1, CallUpdates DEF ReadBlock, Go, Finish, ThrottleTypeOK
      <4>2. CASE ReadAttempts(h)
        BY <2>2, <3>0, <3>1, <4>2, CallUpdates DEF ReadAttempts, ThrottleTypeOK
      <4>3. CASE RaiseAttempts(h)
        BY <2>2, <3>0, <3>1, <4>3, CallUpdates DEF RaiseAttempts, Go, Finish, ThrottleTypeOK
      <4>4. CASE BlockLogin(h)
        BY <2>2, <3>0, <3>1, <4>4, CallUpdates DEF BlockLogin, Go, ThrottleTypeOK
      <4>5. CASE ClearAttempts(h)
        BY <2>2, <3>0, <3>1, <4>5, CallUpdates DEF ClearAttempts, Finish, ThrottleTypeOK
      <4> QED BY <3>2, <4>1, <4>2, <4>3, <4>4, <4>5 DEF LoginStep
    <3>3. CASE DropCode(h)
      BY <2>2, <3>0, <3>1, <3>3, CallUpdates DEF DropCode, Finish, ThrottleTypeOK
    <3>4. CASE SetCode(h)
      BY <2>2, <3>0, <3>1, <3>4, CallUpdates DEF SetCode, ThrottleTypeOK
    <3>5. CASE CheckRetry(h)
      BY <2>2, <3>0, <3>1, <3>5, CallUpdates DEF CheckRetry, CountedOnce, Go, Finish,
         ThrottleTypeOK
    <3>6. CASE ReadRetries(h)
      BY <2>2, <3>0, <3>1, <3>6, CallUpdates DEF ReadRetries, ThrottleTypeOK
    <3>7. CASE ReadTally(h)
      BY <2>2, <3>0, <3>1, <3>7, CallUpdates DEF ReadTally, ThrottleTypeOK
    <3>8. CASE RaiseRetries(h)
      BY <2>2, <3>0, <3>1, <3>8, CallUpdates DEF RaiseRetries, CheckTally, CountedOnce,
         Go, Finish, ThrottleTypeOK
    <3>9. CASE BlockCodes(h)
      BY <2>2, <3>0, <3>1, <3>9, CallUpdates DEF BlockCodes, ThrottleTypeOK
    <3>10. CASE SetTally(h)
      BY <2>2, <3>0, <3>1, <3>10, CallUpdates DEF SetTally, Go, ThrottleTypeOK
    <3>11. CASE ClearRetries(h)
      BY <2>2, <3>0, <3>1, <3>11, CallUpdates DEF ClearRetries, CheckTally, CountedOnce,
         Go, Finish, ThrottleTypeOK
    <3>12. CASE AcceptCode(h)
      BY <2>2, <3>0, <3>1, <3>12, CallUpdates DEF AcceptCode, Go, Finish, ThrottleTypeOK
    <3>13. CASE Disable(h)
      BY <2>2, <3>0, <3>1, <3>13, CallUpdates DEF Disable, Go, ThrottleTypeOK
    <3>14. CASE LiftBlock(h)
      BY <2>2, <3>0, <3>1, <3>14, CallUpdates DEF LiftBlock, Go, ThrottleTypeOK
    <3>15. CASE ClearTally(h)
      BY <2>2, <3>0, <3>1, <3>15, CallUpdates DEF ClearTally, Go, ThrottleTypeOK
    <3>16. CASE VoidCode(h)
      BY <2>2, <3>0, <3>1, <3>16, CallUpdates DEF VoidCode, Go, Finish, ThrottleTypeOK
    <3> QED BY <1>3, <3>2, <3>3, <3>4, <3>5, <3>6, <3>7, <3>8, <3>9, <3>10, <3>11,
              <3>12, <3>13, <3>14, <3>15, <3>16 DEF CodeStep
  <2>5. CASE LoginStep(h)
    BY <2>3, <2>4, <2>5 DEF LoginStep, ReadBlock, ReadAttempts, RaiseAttempts, BlockLogin,
       ClearAttempts, ThrottleTypeOK
  <2>6. CASE DropCode(h)
    BY <2>3, <2>4, <2>6 DEF DropCode, ThrottleTypeOK
  <2>7. CASE SetCode(h)
    BY <2>3, <2>4, <2>7 DEF SetCode, ThrottleTypeOK
  <2>8. CASE CheckRetry(h)
    BY <2>3, <2>4, <2>8 DEF CheckRetry, ThrottleTypeOK
  <2>9. CASE ReadRetries(h)
    BY <2>3, <2>4, <2>9 DEF ReadRetries, ThrottleTypeOK
  <2>10. CASE ReadTally(h)
    BY <2>3, <2>4, <2>10 DEF ReadTally, ThrottleTypeOK
  <2>11. CASE RaiseRetries(h)
    BY <2>3, <2>4, <2>11 DEF RaiseRetries, ThrottleTypeOK
  <2>12. CASE BlockCodes(h)
    BY <2>3, <2>4, <2>12 DEF BlockCodes, ThrottleTypeOK
  <2>13. CASE SetTally(h)
    BY <2>3, <2>4, <2>13 DEF SetTally, ThrottleTypeOK
  <2>14. CASE ClearRetries(h)
    BY <2>3, <2>4, <2>14 DEF ClearRetries, ThrottleTypeOK
  <2>15. CASE AcceptCode(h)
    BY <2>3, <2>4, <2>15 DEF AcceptCode, ThrottleTypeOK
  <2>16. CASE Disable(h)
    BY <2>3, <2>4, <2>16 DEF Disable, ThrottleTypeOK
  <2>17. CASE LiftBlock(h)
    BY <2>3, <2>4, <2>17 DEF LiftBlock, ThrottleTypeOK
  <2>18. CASE ClearTally(h)
    BY <2>3, <2>4, <2>18 DEF ClearTally, ThrottleTypeOK
  <2>19. CASE VoidCode(h)
    BY <2>3, <2>4, <2>19 DEF VoidCode, ThrottleTypeOK
  <2> QED BY <1>3, <2>5, <2>6, <2>7, <2>8, <2>9, <2>10, <2>11, <2>12, <2>13, <2>14,
            <2>15, <2>16, <2>17, <2>18, <2>19 DEF CodeStep
<1>4. ASSUME NEW k \in Keys, Expire(k)
      PROVE  ThrottleTypeOK'
  BY <1>4 DEF Expire, ThrottleTypeOK
<1>5. CASE Reinstate \/ UNCHANGED throttleVars
  BY <1>5 DEF Reinstate, throttleVars, ThrottleTypeOK
<1>6. CASE Crash
  <2>1. left' \in [logins : Nat, codes : Nat, crashes : Nat]
    BY <1>6 DEF Crash, ThrottleTypeOK
  <2>2. call' \in [Handlers -> Calls \cup {Resting}]
    BY <1>6 DEF Crash
  <2> QED BY <1>6, <2>1, <2>2 DEF Crash, ThrottleTypeOK
<1> QED BY <1>2, <1>3, <1>4, <1>5, <1>6 DEF ThrottleNext

\* The cache holds counters, flags and codes, whatever the requests do.
THEOREM ThrottleTypeCorrect == ThrottleSpec => []ThrottleTypeOK
  BY InitThrottleTypeOK, NextThrottleTypeOK, PTL DEF ThrottleSpec

-----------------------------------------------------------------------------
(* Steps                                                                   *)

\* A step of a request leaves the other requests alone and keeps its own key
\* and kind until it rests.
StepShape(h) ==
    /\ call[h].pc # "resting"
    /\ \A x \in Handlers \ {h} : call'[x] = call[x]
    /\ \/ call'[h] = Resting
       \/ call'[h].key = call[h].key /\ call'[h].kind = call[h].kind /\ call'[h].pc # "resting"
    /\ crashes' = crashes

LEMMA StepHasShape ==
  ASSUME ThrottleTypeOK, NEW h \in Handlers, LoginStep(h) \/ CodeStep(h)
  PROVE  StepShape(h)
<1>1. ASSUME call[h].pc # "resting" PROVE call[h] \in Calls
  BY <1>1, RunningCall
<1>2. call \in [Handlers -> Calls \cup {Resting}]
  BY DEF ThrottleTypeOK
<1>3. CASE ReadBlock(h)
  BY <1>1, <1>2, <1>3 DEF ReadBlock, Go, Finish, StepShape, Calls
<1>4. CASE ReadAttempts(h)
  BY <1>1, <1>2, <1>4 DEF ReadAttempts, StepShape, Calls
<1>5. CASE RaiseAttempts(h)
  BY <1>1, <1>2, <1>5 DEF RaiseAttempts, Go, Finish, StepShape, Calls
<1>6. CASE BlockLogin(h)
  BY <1>1, <1>2, <1>6 DEF BlockLogin, Go, StepShape, Calls
<1>7. CASE ClearAttempts(h)
  BY <1>1, <1>2, <1>7 DEF ClearAttempts, Finish, StepShape, Calls
<1>8. CASE DropCode(h)
  BY <1>1, <1>2, <1>8 DEF DropCode, Finish, StepShape, Calls
<1>9. CASE SetCode(h)
  BY <1>1, <1>2, <1>9 DEF SetCode, StepShape, Calls
<1>10. CASE CheckRetry(h)
  BY <1>1, <1>2, <1>10 DEF CheckRetry, CountedOnce, Go, Finish, StepShape, Calls
<1>11. CASE ReadRetries(h)
  BY <1>1, <1>2, <1>11 DEF ReadRetries, StepShape, Calls
<1>12. CASE ReadTally(h)
  BY <1>1, <1>2, <1>12 DEF ReadTally, StepShape, Calls
<1>13. CASE RaiseRetries(h)
  BY <1>1, <1>2, <1>13 DEF RaiseRetries, CheckTally, CountedOnce, Go, Finish, StepShape,
     Calls
<1>14. CASE BlockCodes(h)
  BY <1>1, <1>2, <1>14 DEF BlockCodes, StepShape, Calls
<1>15. CASE SetTally(h)
  BY <1>1, <1>2, <1>15 DEF SetTally, Go, StepShape, Calls
<1>16. CASE ClearRetries(h)
  BY <1>1, <1>2, <1>16 DEF ClearRetries, CheckTally, CountedOnce, Go, Finish, StepShape,
     Calls
<1>17. CASE AcceptCode(h)
  BY <1>1, <1>2, <1>17 DEF AcceptCode, Go, Finish, StepShape, Calls
<1>18. CASE Disable(h)
  BY <1>1, <1>2, <1>18 DEF Disable, Go, StepShape, Calls
<1>19. CASE LiftBlock(h)
  BY <1>1, <1>2, <1>19 DEF LiftBlock, Go, StepShape, Calls
<1>20. CASE ClearTally(h)
  BY <1>1, <1>2, <1>20 DEF ClearTally, Go, StepShape, Calls
<1>21. CASE VoidCode(h)
  BY <1>1, <1>2, <1>21 DEF VoidCode, Go, Finish, StepShape, Calls
<1> QED BY <1>3, <1>4, <1>5, <1>6, <1>7, <1>8, <1>9, <1>10, <1>11, <1>12,
         <1>13, <1>14, <1>15, <1>16, <1>17, <1>18, <1>19, <1>20, <1>21 DEF LoginStep,
         CodeStep

\* A request starts where none was running, and touches no counter.
LEMMA StartHasShape ==
  ASSUME ThrottleTypeOK, NEW h \in Handlers, StartStep(h)
  PROVE  \E c \in Calls :
            /\ call[h] = Resting /\ call' = [call EXCEPT ![h] = c]
            /\ c.blocks = 0
            /\ c.pc \in {"failing", "resetting", "dropping", "sending", "retrying", "confirming"}
            /\ c.pc = "confirming" => c.kind = "confirm"
            /\ UNCHANGED <<attempts, retries, tally, code, enabled, lockouts, uses, crashes>>
<1>1. Email \in Keys
  BY DEF Keys
<1>2. ASSUME NEW k \in Keys, NEW d \in {"login", "forgot", "signup", "phone", "confirm"},
             NEW p \in {"failing", "resetting", "dropping", "sending", "retrying", "confirming"}
      PROVE  /\ Request(p, d, k) \in Calls
             /\ Request(p, d, k).pc = p /\ Request(p, d, k).kind = d
             /\ Request(p, d, k).blocks = 0
  BY FirstCall DEF Request
<1>3. CASE LoginRight(h) \/ LoginSocial(h) \/ LoginWrong(h) \/ LoginBlocked(h)
  BY <1>1, <1>2, <1>3 DEF LoginRight, LoginSocial, LoginWrong, LoginBlocked, Begin
<1>4. ASSUME NEW k \in Keys, Confirm(h, k)
      PROVE  \E c \in Calls :
                /\ call[h] = Resting /\ call' = [call EXCEPT ![h] = c]
                /\ c.blocks = 0 /\ c.pc = "confirming" /\ c.kind = "confirm"
                /\ UNCHANGED <<attempts, retries, tally, code, enabled, lockouts, uses, crashes>>
  BY <1>2, <1>4 DEF Confirm, Begin
<1>5. ASSUME NEW k \in Keys,
             \/ \E d \in {"forgot", "signup", "phone"} : AskCode(h, d, k)
             \/ \E d \in {"forgot", "phone"} : AskCodeBlocked(h, d, k)
      PROVE  \E c \in Calls :
                /\ call[h] = Resting /\ call' = [call EXCEPT ![h] = c]
                /\ c.blocks = 0 /\ c.pc \in {"dropping", "sending", "retrying"}
                /\ UNCHANGED <<attempts, retries, tally, code, enabled, lockouts, uses, crashes>>
  BY <1>2, <1>5 DEF AskCode, AskCodeBlocked, Begin
<1> QED BY <1>3, <1>4, <1>5 DEF StartStep

-----------------------------------------------------------------------------
(* A full counter blocks                                                   *)

BlockingLogin(x, k) == call[x].pc \in {"blocking", "clearing"} /\ On(x) = k
BlockingCodes(x, k) == call[x].pc \in {"closing", "tallying", "forgetting"} /\ On(x) = k

\* No counter has counted at the start.
LEMMA InitFullCounterBlocks == ThrottleInit => FullCounterBlocks
  BY ThrottleAssumption DEF ThrottleInit, FullCounterBlocks

\* The counter is full only between the write that filled it and the deletion
\* by the same request.
LEMMA NextFullCounterBlocks ==
  ThrottleTypeOK /\ FullCounterBlocks /\ [ThrottleNext]_throttleVars => FullCounterBlocks'
<1> SUFFICES ASSUME ThrottleTypeOK, FullCounterBlocks, [ThrottleNext]_throttleVars,
                    crashes' = 0, NEW k \in Keys
             PROVE  /\ attempts'[k] >= Limit => \E x \in Handlers : BlockingLogin(x, k)'
                    /\ retries'[k] >= Limit => \E x \in Handlers : BlockingCodes(x, k)'
  BY DEF FullCounterBlocks, BlockingLogin, BlockingCodes
<1>1. Limit \in Nat \ {0} /\ crashes \in Nat
  BY ThrottleAssumption DEF ThrottleTypeOK
<1>2. ASSUME crashes = 0
      PROVE  /\ attempts[k] >= Limit => \E x \in Handlers : BlockingLogin(x, k)
             /\ retries[k] >= Limit => \E x \in Handlers : BlockingCodes(x, k)
  BY <1>2 DEF FullCounterBlocks, BlockingLogin, BlockingCodes
<1>3. ASSUME NEW h \in Handlers, StepShape(h)
      PROVE  /\ crashes = 0
             /\ \A x \in Handlers \ {h} :
                   /\ BlockingLogin(x, k) => BlockingLogin(x, k)'
                   /\ BlockingCodes(x, k) => BlockingCodes(x, k)'
  BY <1>3 DEF StepShape, BlockingLogin, BlockingCodes, On
<1>4. ASSUME NEW h \in Handlers, StepShape(h),
             attempts'[k] = attempts[k], retries'[k] = retries[k],
             BlockingLogin(h, k) => BlockingLogin(h, k)',
             BlockingCodes(h, k) => BlockingCodes(h, k)'
      PROVE  /\ attempts'[k] >= Limit => \E x \in Handlers : BlockingLogin(x, k)'
             /\ retries'[k] >= Limit => \E x \in Handlers : BlockingCodes(x, k)'
  BY <1>2, <1>3, <1>4
<1>5. ASSUME NEW h \in Handlers, LoginStep(h) \/ CodeStep(h)
      PROVE  /\ attempts'[k] >= Limit => \E x \in Handlers : BlockingLogin(x, k)'
             /\ retries'[k] >= Limit => \E x \in Handlers : BlockingCodes(x, k)'
  <2>1. StepShape(h)
    BY <1>5, StepHasShape
  <2>2. call[h] \in Calls /\ call \in [Handlers -> Calls \cup {Resting}]
    BY <2>1, RunningCall DEF StepShape, ThrottleTypeOK
  <2>3. attempts \in [Keys -> Nat] /\ retries \in [Keys -> Nat]
    BY DEF ThrottleTypeOK
  <2>4. CASE ReadBlock(h)
    BY <1>4, <2>1, <2>2, <2>4 DEF ReadBlock, Go, Finish, StepShape, BlockingLogin,
       BlockingCodes, On
  <2>5. CASE ReadAttempts(h)
    BY <1>4, <2>1, <2>2, <2>5 DEF ReadAttempts, StepShape, BlockingLogin, BlockingCodes, On
  <2>6. CASE BlockLogin(h)
    BY <1>4, <2>1, <2>2, <2>6 DEF BlockLogin, Go, StepShape, BlockingLogin, BlockingCodes, On
  <2>7. CASE DropCode(h)
    BY <1>4, <2>1, <2>2, <2>7 DEF DropCode, Finish, StepShape, BlockingLogin,
       BlockingCodes, On
  <2>8. CASE SetCode(h)
    BY <1>4, <2>1, <2>2, <2>8 DEF SetCode, StepShape, BlockingLogin, BlockingCodes, On
  <2>9. CASE CheckRetry(h)
    BY <1>4, <2>1, <2>2, <2>9 DEF CheckRetry, CountedOnce, Go, Finish, StepShape,
       BlockingLogin, BlockingCodes, On
  <2>10. CASE ReadRetries(h)
    BY <1>4, <2>1, <2>2, <2>10 DEF ReadRetries, StepShape, BlockingLogin, BlockingCodes, On
  <2>11. CASE ReadTally(h)
    BY <1>4, <2>1, <2>2, <2>11 DEF ReadTally, StepShape, BlockingLogin, BlockingCodes, On
  <2>12. CASE BlockCodes(h)
    BY <1>4, <2>1, <2>2, <2>12 DEF BlockCodes, StepShape, BlockingLogin, BlockingCodes, On
  <2>13. CASE SetTally(h)
    BY <1>4, <2>1, <2>2, <2>13 DEF SetTally, Go, StepShape, BlockingLogin, BlockingCodes, On
  <2>14. CASE AcceptCode(h)
    BY <1>4, <2>1, <2>2, <2>14 DEF AcceptCode, Go, Finish, StepShape, BlockingLogin,
       BlockingCodes, On
  <2>15. CASE Disable(h)
    BY <1>4, <2>1, <2>2, <2>15 DEF Disable, Go, StepShape, BlockingLogin, BlockingCodes, On
  <2>16. CASE LiftBlock(h)
    BY <1>4, <2>1, <2>2, <2>16 DEF LiftBlock, Go, StepShape, BlockingLogin, BlockingCodes, On
  <2>17. CASE ClearTally(h)
    BY <1>4, <2>1, <2>2, <2>17 DEF ClearTally, Go, StepShape, BlockingLogin,
       BlockingCodes, On
  <2>18. CASE VoidCode(h)
    BY <1>4, <2>1, <2>2, <2>18 DEF VoidCode, Go, Finish, StepShape, BlockingLogin,
       BlockingCodes, On
  <2>19. CASE RaiseAttempts(h)
    <3>1. retries' = retries /\ (BlockingCodes(h, k) => BlockingCodes(h, k)') /\ ~BlockingLogin(h, k)
      BY <2>2, <2>19 DEF RaiseAttempts, BlockingLogin, BlockingCodes
    <3>2. On(h) # k => attempts'[k] = attempts[k]
      BY <2>3, <2>19 DEF RaiseAttempts
    <3>3. On(h) = k => attempts'[k] = call[h].seen
      BY <2>3, <2>19 DEF RaiseAttempts
    <3>4. call[h].seen >= Limit => call'[h].pc = "blocking"
      BY <1>1, <2>2, <2>19 DEF RaiseAttempts, Go, Calls
    <3>5. On(h) = k /\ call[h].seen >= Limit => BlockingLogin(h, k)'
      BY <2>1, <3>4 DEF StepShape, BlockingLogin, On, Resting
    <3> QED BY <1>2, <1>3, <2>1, <3>1, <3>2, <3>3, <3>5
  <2>20. CASE RaiseRetries(h)
    <3>1. attempts' = attempts /\ (BlockingLogin(h, k) => BlockingLogin(h, k)') /\ ~BlockingCodes(h, k)
      BY <2>2, <2>20 DEF RaiseRetries, BlockingLogin, BlockingCodes
    <3>2. On(h) # k => retries'[k] = retries[k]
      BY <2>3, <2>20 DEF RaiseRetries
    <3>3. On(h) = k => retries'[k] = call[h].seen
      BY <2>3, <2>20 DEF RaiseRetries
    <3>4. call[h].seen >= Limit => call'[h].pc = "closing"
      BY <1>1, <2>2, <2>20 DEF RaiseRetries, Go, Calls
    <3>5. On(h) = k /\ call[h].seen >= Limit => BlockingCodes(h, k)'
      BY <2>1, <3>4 DEF StepShape, BlockingCodes, On, Resting
    <3> QED BY <1>2, <1>3, <2>1, <3>1, <3>2, <3>3, <3>5
  <2>21. CASE ClearAttempts(h)
    <3>1. retries' = retries /\ ~BlockingCodes(h, k) /\ (BlockingLogin(h, k) => On(h) = k)
      BY <2>2, <2>21 DEF ClearAttempts, BlockingLogin, BlockingCodes
    <3>2. On(h) # k => attempts'[k] = attempts[k]
      BY <2>3, <2>21 DEF ClearAttempts
    <3>3. On(h) = k => attempts'[k] = 0
      BY <2>3, <2>21 DEF ClearAttempts
    <3> QED BY <1>1, <1>2, <1>3, <2>1, <3>1, <3>2, <3>3
  <2>22. CASE ClearRetries(h)
    <3>1. attempts' = attempts /\ ~BlockingLogin(h, k) /\ (BlockingCodes(h, k) => On(h) = k)
      BY <2>2, <2>22 DEF ClearRetries, BlockingLogin, BlockingCodes
    <3>2. On(h) # k => retries'[k] = retries[k]
      BY <2>3, <2>22 DEF ClearRetries
    <3>3. On(h) = k => retries'[k] = 0
      BY <2>3, <2>22 DEF ClearRetries
    <3> QED BY <1>1, <1>2, <1>3, <2>1, <3>1, <3>2, <3>3
  <2> QED BY <1>5, <2>4, <2>5, <2>6, <2>7, <2>8, <2>9, <2>10, <2>11, <2>12,
            <2>13, <2>14, <2>15, <2>16, <2>17, <2>18, <2>19, <2>20, <2>21, <2>22
            DEF LoginStep, CodeStep
<1>6. ASSUME NEW h \in Handlers, StartStep(h)
      PROVE  /\ attempts'[k] >= Limit => \E x \in Handlers : BlockingLogin(x, k)'
             /\ retries'[k] >= Limit => \E x \in Handlers : BlockingCodes(x, k)'
  <2>1. /\ call[h] = Resting /\ \A x \in Handlers \ {h} : call'[x] = call[x]
        /\ UNCHANGED <<attempts, retries, crashes>>
    BY <1>6, StartHasShape DEF ThrottleTypeOK
  <2>2. \A x \in Handlers : /\ BlockingLogin(x, k) => BlockingLogin(x, k)'
                            /\ BlockingCodes(x, k) => BlockingCodes(x, k)'
    BY <2>1 DEF BlockingLogin, BlockingCodes, On, Resting
  <2> QED BY <1>2, <2>1, <2>2
<1>7. CASE (\E y \in Keys : Expire(y)) \/ Reinstate \/ UNCHANGED throttleVars
  <2>1. UNCHANGED <<attempts, retries, call, crashes>>
    BY <1>7 DEF Expire, Reinstate, throttleVars
  <2> QED BY <1>2, <2>1 DEF BlockingLogin, BlockingCodes, On
<1>8. CASE Crash
  BY <1>1, <1>8 DEF Crash
<1> QED BY <1>5, <1>6, <1>7, <1>8 DEF ThrottleNext

\* However the counts of overlapping requests replace each other, a counter at
\* its limit always belongs to a request that is about to block the address.
THEOREM ThrottleFullCounterBlocks == ThrottleSpec => []FullCounterBlocks
  BY ThrottleTypeCorrect, InitFullCounterBlocks, NextFullCounterBlocks, PTL DEF ThrottleSpec

-----------------------------------------------------------------------------
(* Only blocked addresses cost the account                                 *)

\* What a request read of the blocks of its key has happened, and a request that
\* disables the user has read enough of them.
CallTally(x) ==
    call[x].pc # "resting" =>
        /\ call[x].blocks <= lockouts[On(x)]
        /\ call[x].pc = "disabling" => call[x].blocks >= MaxBlocks

\* The inductive form of DisabledAfterBlocks.
TallyInv ==
    /\ \A k \in Keys : tally[k] <= lockouts[k]
    /\ \A x \in Handlers : CallTally(x)
    /\ DisabledAfterBlocks

\* Nobody is disabled at the start.
LEMMA InitTallyInv == ThrottleInit => TallyInv
  BY DEF ThrottleInit, TallyInv, CallTally, DisabledAfterBlocks, Resting

\* The tally can lose blocks to overlapping requests but never gains one.
LEMMA NextTallyInv ==
  ThrottleTypeOK /\ TallyInv /\ [ThrottleNext]_throttleVars => TallyInv'
<1> SUFFICES ASSUME ThrottleTypeOK, TallyInv, [ThrottleNext]_throttleVars
             PROVE  TallyInv'
  OBVIOUS
<1>1. /\ MaxBlocks \in Nat \ {0}
      /\ \A k \in Keys : lockouts[k] \in Nat /\ tally[k] \in Nat /\ tally[k] <= lockouts[k]
  BY ThrottleAssumption DEF ThrottleTypeOK, TallyInv
<1>2. ASSUME NEW h \in Handlers, StepShape(h), CallTally(h)',
             \A k \in Keys : lockouts'[k] \in Nat /\ lockouts[k] <= lockouts'[k],
             \A k \in Keys : tally'[k] <= lockouts'[k],
             enabled' = enabled \/ DisabledAfterBlocks'
      PROVE  TallyInv'
  <2>1. DisabledAfterBlocks'
    BY <1>1, <1>2 DEF TallyInv, DisabledAfterBlocks
  <2>2. ASSUME NEW x \in Handlers \ {h} PROVE CallTally(x)'
    <3>1. CallTally(x) /\ call'[x] = call[x]
      BY <1>2 DEF TallyInv, StepShape
    <3> SUFFICES ASSUME call[x].pc # "resting" PROVE call[x].blocks <= lockouts'[On(x)]
      BY <3>1 DEF CallTally, On
    <3>2. On(x) \in Keys /\ call[x].blocks \in Nat
      BY RunningCall DEF On, Calls
    <3> QED BY <1>1, <1>2, <3>1, <3>2 DEF CallTally
  <2> QED BY <1>2, <2>1, <2>2 DEF TallyInv
<1>3. ASSUME NEW h \in Handlers, StepShape(h), UNCHANGED <<lockouts, enabled>>,
             \A k \in Keys : tally'[k] <= lockouts[k],
             call'[h] = Resting \/ call'[h].blocks = call[h].blocks,
             call'[h].pc = "disabling" => call'[h].blocks >= MaxBlocks
      PROVE  TallyInv'
  <2>1. CallTally(h)'
    BY <1>3 DEF TallyInv, CallTally, StepShape, On, Resting
  <2> QED BY <1>1, <1>2, <1>3, <2>1
<1>4. ASSUME NEW h \in Handlers, LoginStep(h) \/ CodeStep(h)
      PROVE  TallyInv'
  <2>1. StepShape(h)
    BY <1>4, StepHasShape
  <2>2. /\ call[h] \in Calls /\ call \in [Handlers -> Calls \cup {Resting}]
        /\ On(h) \in Keys /\ call[h].blocks \in Nat
    BY <2>1, RunningCall DEF StepShape, ThrottleTypeOK, On, Calls
  <2>3. tally \in [Keys -> Nat] /\ lockouts \in [Keys -> Nat]
    BY DEF ThrottleTypeOK
  <2>4. CASE ReadBlock(h)
    BY <1>1, <1>3, <2>1, <2>2, <2>3, <2>4 DEF ReadBlock, Go, Finish, Resting, Calls
  <2>5. CASE ReadAttempts(h)
    BY <1>1, <1>3, <2>1, <2>2, <2>3, <2>5 DEF ReadAttempts, Resting, Calls
  <2>6. CASE RaiseAttempts(h)
    BY <1>1, <1>3, <2>1, <2>2, <2>3, <2>6 DEF RaiseAttempts, Go, Finish, Resting, Calls
  <2>7. CASE BlockLogin(h)
    BY <1>1, <1>3, <2>1, <2>2, <2>3, <2>7 DEF BlockLogin, Go, Resting, Calls
  <2>8. CASE ClearAttempts(h)
    BY <1>1, <1>3, <2>1, <2>2, <2>3, <2>8 DEF ClearAttempts, Finish, Resting, Calls
  <2>9. CASE DropCode(h)
    BY <1>1, <1>3, <2>1, <2>2, <2>3, <2>9 DEF DropCode, Finish, Resting, Calls
  <2>10. CASE SetCode(h)
    BY <1>1, <1>3, <2>1, <2>2, <2>3, <2>10 DEF SetCode, Resting, Calls
  <2>11. CASE CheckRetry(h)
    BY <1>1, <1>3, <2>1, <2>2, <2>3, <2>11 DEF CheckRetry, CountedOnce, Go, Finish,
       Resting, Calls
  <2>12. CASE ReadRetries(h)
    BY <1>1, <1>3, <2>1, <2>2, <2>3, <2>12 DEF ReadRetries, Resting, Calls
  <2>13. CASE RaiseRetries(h)
    BY <1>1, <1>3, <2>1, <2>2, <2>3, <2>13 DEF RaiseRetries, CheckTally, CountedOnce, Go,
       Finish, Resting, Calls
  <2>14. CASE ClearRetries(h)
    BY <1>1, <1>3, <2>1, <2>2, <2>3, <2>14 DEF ClearRetries, CheckTally, CountedOnce, Go,
       Finish, Resting, Calls
  <2>15. CASE AcceptCode(h)
    BY <1>1, <1>3, <2>1, <2>2, <2>3, <2>15 DEF AcceptCode, Go, Finish, Resting, Calls
  <2>16. CASE LiftBlock(h)
    BY <1>1, <1>3, <2>1, <2>2, <2>3, <2>16 DEF LiftBlock, Go, Resting, Calls
  <2>17. CASE ClearTally(h)
    BY <1>1, <1>3, <2>1, <2>2, <2>3, <2>17 DEF ClearTally, Go, Resting, Calls
  <2>18. CASE VoidCode(h)
    BY <1>1, <1>3, <2>1, <2>2, <2>3, <2>18 DEF VoidCode, Go, Finish, Resting, Calls
  <2>19. CASE ReadTally(h)
    <3>1. call'[h].pc = "retried" /\ call'[h].blocks = tally[On(h)] /\ On(h)' = On(h)
      BY <2>2, <2>19 DEF ReadTally, On
    <3>2. CallTally(h)'
      BY <1>1, <2>2, <2>19, <3>1 DEF ReadTally, CallTally
    <3> QED BY <1>1, <1>2, <2>1, <2>19, <3>2 DEF ReadTally
  <2>20. CASE BlockCodes(h)
    <3>1. /\ call'[h].pc = "tallying" /\ call'[h].blocks = call[h].blocks + 1
          /\ On(h)' = On(h)
      BY <2>2, <2>20 DEF BlockCodes, On
    <3>2. /\ lockouts'[On(h)] = lockouts[On(h)] + 1 /\ UNCHANGED <<tally, enabled>>
          /\ \A k \in Keys : k # On(h) => lockouts'[k] = lockouts[k]
      BY <2>2, <2>3, <2>20 DEF BlockCodes
    <3>3. call[h].blocks <= lockouts[On(h)]
      BY <2>1 DEF TallyInv, CallTally, StepShape
    <3>4. CallTally(h)'
      BY <1>1, <2>2, <3>1, <3>2, <3>3 DEF CallTally
    <3>5. \A k \in Keys : /\ lockouts'[k] \in Nat /\ lockouts[k] <= lockouts'[k]
                          /\ tally'[k] <= lockouts'[k]
      BY <1>1, <2>2, <3>2
    <3> QED BY <1>2, <2>1, <3>2, <3>4, <3>5
  <2>21. CASE SetTally(h)
    <3>1. call'[h].pc = "forgetting" /\ call'[h].blocks = call[h].blocks
      BY <2>2, <2>21 DEF SetTally, Go
    <3>2. /\ tally'[On(h)] = call[h].blocks /\ UNCHANGED <<lockouts, enabled>>
          /\ \A k \in Keys : k # On(h) => tally'[k] = tally[k]
      BY <2>2, <2>3, <2>21 DEF SetTally
    <3>3. call[h].blocks <= lockouts[On(h)]
      BY <2>1 DEF TallyInv, CallTally, StepShape
    <3> QED BY <1>1, <1>3, <2>1, <3>1, <3>2, <3>3
  <2>22. CASE Disable(h)
    <3>1. call[h].blocks <= lockouts[On(h)] /\ call[h].blocks >= MaxBlocks
      BY <2>1, <2>22 DEF TallyInv, CallTally, StepShape, Disable
    <3>2. UNCHANGED <<lockouts, tally>> /\ lockouts[On(h)] >= MaxBlocks
      BY <1>1, <2>2, <2>22, <3>1 DEF Disable
    <3>3. call'[h].pc = "lifting" /\ call'[h].blocks = call[h].blocks /\ On(h)' = On(h)
      BY <2>2, <2>22 DEF Disable, Go, On
    <3>4. CallTally(h)' /\ DisabledAfterBlocks'
      BY <2>2, <3>1, <3>2, <3>3 DEF CallTally, DisabledAfterBlocks
    <3> QED BY <1>1, <1>2, <2>1, <3>2, <3>4
  <2> QED BY <1>4, <2>4, <2>5, <2>6, <2>7, <2>8, <2>9, <2>10, <2>11, <2>12,
            <2>13, <2>14, <2>15, <2>16, <2>17, <2>18, <2>19, <2>20, <2>21, <2>22
            DEF LoginStep, CodeStep
<1>5. ASSUME NEW h \in Handlers, StartStep(h)
      PROVE  TallyInv'
  <2>1. PICK c \in Calls :
           /\ call[h] = Resting /\ call' = [call EXCEPT ![h] = c]
           /\ c.blocks = 0 /\ c.pc # "disabling"
           /\ UNCHANGED <<tally, enabled, lockouts>>
    BY <1>5, StartHasShape
  <2>2. call'[h] = c /\ \A x \in Handlers \ {h} : call'[x] = call[x]
    BY <2>1 DEF ThrottleTypeOK
  <2>3. c.key \in Keys
    BY DEF Calls
  <2>4. \A x \in Handlers : CallTally(x)'
    BY <1>1, <2>1, <2>2, <2>3 DEF TallyInv, CallTally, On
  <2> QED BY <2>1, <2>4 DEF TallyInv, DisabledAfterBlocks
<1>6. CASE (\E y \in Keys : Expire(y)) \/ Reinstate \/ UNCHANGED throttleVars
  <2>1. UNCHANGED <<tally, lockouts, call>> /\ (enabled' = enabled \/ enabled' = TRUE)
    BY <1>6 DEF Expire, Reinstate, throttleVars
  <2> QED BY <2>1 DEF TallyInv, CallTally, DisabledAfterBlocks, On
<1>7. CASE Crash
  BY <1>7 DEF Crash, TallyInv, CallTally, DisabledAfterBlocks, Resting
<1> QED BY <1>4, <1>5, <1>6, <1>7 DEF ThrottleNext

\* The account is only lost to an address that was blocked MaxBlocks times.
THEOREM ThrottleDisabledAfterBlocks == ThrottleSpec => []DisabledAfterBlocks
<1>1. TallyInv => DisabledAfterBlocks
  BY DEF TallyInv
<1> QED BY <1>1, ThrottleTypeCorrect, InitTallyInv, NextTallyInv, PTL DEF ThrottleSpec

-----------------------------------------------------------------------------
(* A code opens few doors                                                  *)

\* The requests that have accepted the code of k and are still to delete it.
Voiding(x, k) ==
    call[x].pc \in {"lifting", "untallying", "voiding"} /\ call[x].kind = "confirm" /\ On(x) = k
Using(k) == {x \in Handlers : Voiding(x, k)}

\* The inductive form of CodeUsesBounded: as long as the code is there, every
\* use of it is of a request that has yet to delete it, or died before.
UsesInv ==
    /\ \A x \in Handlers : call[x].pc = "confirming" => call[x].kind = "confirm"
    /\ CodeUsesBounded
    /\ \A k \in Keys : code[k] =>
          uses[k] <= Cardinality(Using(k)) + Cardinality(Handlers) * crashes

\* The requests that use a code are some of the requests there are.
LEMMA UsingBound ==
  ASSUME NEW H \in SUBSET Handlers
  PROVE  /\ IsFiniteSet(H) /\ Cardinality(H) \in Nat /\ Cardinality(Handlers) \in Nat
         /\ Cardinality(H) <= Cardinality(Handlers)
  BY ThrottleAssumption, FS_Subset, FS_CardinalityType

\* A crash makes room for as many uses as there are requests.
LEMMA OneMoreCrash ==
  ASSUME NEW n \in Nat, NEW c \in Nat
  PROVE  /\ n * c \in Nat /\ n * (c + 1) \in Nat /\ n * (c + 1 + 1) \in Nat
         /\ n * (c + 1) = n * c + n /\ n * (c + 1 + 1) = n * (c + 1) + n
  OBVIOUS

\* No code has been used at the start.
LEMMA InitUsesInv == ThrottleInit => UsesInv
<1> SUFFICES ASSUME ThrottleInit PROVE UsesInv
  OBVIOUS
<1>1. Cardinality(Handlers) \in Nat
  BY UsingBound
<1>2. Cardinality(Handlers) * (0 + 1) \in Nat
  BY <1>1, OneMoreCrash
<1> QED BY <1>2 DEF ThrottleInit, UsesInv, CodeUsesBounded, Resting

\* Accepting a code makes the request one that uses it, and whoever stops using
\* it has deleted it.
LEMMA NextUsesInv ==
  ThrottleTypeOK /\ UsesInv /\ [ThrottleNext]_throttleVars => UsesInv'
<1> SUFFICES ASSUME ThrottleTypeOK, UsesInv, [ThrottleNext]_throttleVars
             PROVE  UsesInv'
  OBVIOUS
<1> DEFINE N == Cardinality(Handlers)
           Confirms(x) == call[x].pc = "confirming" => call[x].kind = "confirm"
<1>1. /\ N \in Nat /\ crashes \in Nat
      /\ N * crashes \in Nat /\ N * (crashes + 1) = N * crashes + N
      /\ \A k \in Keys : uses[k] \in Nat
  BY UsingBound, OneMoreCrash DEF ThrottleTypeOK
<1>2. \A k \in Keys : /\ Cardinality(Using(k)) \in Nat /\ Cardinality(Using(k)) <= N
                      /\ Cardinality(Using(k)') \in Nat /\ Cardinality(Using(k)') <= N
  <2>1. \A k \in Keys : Using(k) \in SUBSET Handlers /\ Using(k)' \in SUBSET Handlers
    BY DEF Using
  <2> QED BY <2>1, UsingBound
<1>3. \A k \in Keys : /\ uses[k] <= N * (crashes + 1)
                      /\ code[k] => uses[k] <= Cardinality(Using(k)) + N * crashes
  BY DEF UsesInv, CodeUsesBounded
<1>4. \A x \in Handlers : Confirms(x)
  BY DEF UsesInv
<1> HIDE DEF N
<1>5. ASSUME crashes' = crashes, \A x \in Handlers : Confirms(x)',
             \A k \in Keys : \/ uses'[k] = 0
                             \/ ~code'[k] /\ uses'[k] = uses[k]
                             \/ /\ uses'[k] = uses[k] /\ (code'[k] => code[k])
                                /\ Cardinality(Using(k)) <= Cardinality(Using(k)')
      PROVE  UsesInv'
  <2>1. \A k \in Keys : uses'[k] <= N * (crashes + 1)
    BY <1>1, <1>3, <1>5
  <2>2. \A k \in Keys : code'[k] => uses'[k] <= Cardinality(Using(k)') + N * crashes
    BY <1>1, <1>2, <1>3, <1>5
  <2> QED BY <1>5, <2>1, <2>2 DEF UsesInv, CodeUsesBounded, N
<1>6. ASSUME NEW h \in Handlers, StepShape(h), Confirms(h)',
             \A k \in Keys : Voiding(h, k) => Voiding(h, k)' \/ ~code'[k],
             UNCHANGED uses, \A k \in Keys : code'[k] => code[k]
      PROVE  UsesInv'
  <2>1. \A x \in Handlers : Confirms(x)'
    BY <1>4, <1>6 DEF StepShape
  <2>2. ASSUME NEW k \in Keys, code'[k]
        PROVE  Cardinality(Using(k)) <= Cardinality(Using(k)')
    <3>1. Using(k) \subseteq Using(k)'
      BY <1>6, <2>2 DEF StepShape, Using, Voiding, On
    <3>2. IsFiniteSet(Using(k)')
      BY UsingBound DEF Using
    <3> QED BY <3>1, <3>2, FS_Subset
  <2> QED BY <1>5, <1>6, <2>1, <2>2 DEF StepShape
<1>7. ASSUME NEW h \in Handlers, LoginStep(h) \/ CodeStep(h)
      PROVE  UsesInv'
  <2>1. StepShape(h)
    BY <1>7, StepHasShape
  <2>2. /\ call[h] \in Calls /\ call \in [Handlers -> Calls \cup {Resting}]
        /\ On(h) \in Keys
    BY <2>1, RunningCall DEF StepShape, ThrottleTypeOK, On, Calls
  <2>3. code \in [Keys -> BOOLEAN] /\ uses \in [Keys -> Nat]
    BY DEF ThrottleTypeOK
  <2>4. CASE ReadBlock(h)
    BY <1>6, <2>1, <2>2, <2>3, <2>4 DEF ReadBlock, Go, Finish, StepShape, Voiding, On,
       Resting, Calls
  <2>5. CASE ReadAttempts(h)
    BY <1>6, <2>1, <2>2, <2>3, <2>5 DEF ReadAttempts, StepShape, Voiding, On, Resting, Calls
  <2>6. CASE RaiseAttempts(h)
    BY <1>6, <2>1, <2>2, <2>3, <2>6 DEF RaiseAttempts, Go, Finish, StepShape, Voiding,
       On, Resting, Calls
  <2>7. CASE BlockLogin(h)
    BY <1>6, <2>1, <2>2, <2>3, <2>7 DEF BlockLogin, Go, StepShape, Voiding, On, Resting,
       Calls
  <2>8. CASE ClearAttempts(h)
    BY <1>6, <2>1, <2>2, <2>3, <2>8 DEF ClearAttempts, Finish, StepShape, Voiding, On,
       Resting, Calls
  <2>9. CASE DropCode(h)
    BY <1>6, <2>1, <2>2, <2>3, <2>9 DEF DropCode, Finish, StepShape, Voiding, On,
       Resting, Calls
  <2>10. CASE CheckRetry(h)
    BY <1>6, <2>1, <2>2, <2>3, <2>10 DEF CheckRetry, CountedOnce, Go, Finish, StepShape,
       Voiding, On, Resting, Calls
  <2>11. CASE ReadRetries(h)
    BY <1>6, <2>1, <2>2, <2>3, <2>11 DEF ReadRetries, StepShape, Voiding, On, Resting, Calls
  <2>12. CASE ReadTally(h)
    BY <1>6, <2>1, <2>2, <2>3, <2>12 DEF ReadTally, StepShape, Voiding, On, Resting, Calls
  <2>13. CASE RaiseRetries(h)
    BY <1>6, <2>1, <2>2, <2>3, <2>13 DEF RaiseRetries, CheckTally, CountedOnce, Go,
       Finish, StepShape, Voiding, On, Resting, Calls
  <2>14. CASE BlockCodes(h)
    BY <1>6, <2>1, <2>2, <2>3, <2>14 DEF BlockCodes, StepShape, Voiding, On, Resting, Calls
  <2>15. CASE SetTally(h)
    BY <1>6, <2>1, <2>2, <2>3, <2>15 DEF SetTally, Go, StepShape, Voiding, On, Resting, Calls
  <2>16. CASE ClearRetries(h)
    BY <1>6, <2>1, <2>2, <2>3, <2>16 DEF ClearRetries, CheckTally, CountedOnce, Go,
       Finish, StepShape, Voiding, On, Resting, Calls
  <2>17. CASE Disable(h)
    BY <1>6, <2>1, <2>2, <2>3, <2>17 DEF Disable, Go, StepShape, Voiding, On, Resting, Calls
  <2>18. CASE LiftBlock(h)
    BY <1>6, <2>1, <2>2, <2>3, <2>18 DEF LiftBlock, Go, StepShape, Voiding, On, Resting,
       Calls
  <2>19. CASE ClearTally(h)
    BY <1>6, <2>1, <2>2, <2>3, <2>19 DEF ClearTally, Go, StepShape, Voiding, On, Resting,
       Calls
  <2>20. CASE VoidCode(h)
    BY <1>6, <2>1, <2>2, <2>3, <2>20 DEF VoidCode, Go, Finish, StepShape, Voiding, On,
       Resting, Calls
  <2>21. CASE SetCode(h)
    <3>1. /\ uses'[On(h)] = 0 /\ crashes' = crashes
          /\ \A k \in Keys : k # On(h) => uses'[k] = uses[k] /\ code'[k] = code[k]
      BY <2>2, <2>3, <2>21 DEF SetCode
    <3>2. call[h].pc = "sending" /\ call'[h].pc = "retrying"
      BY <2>2, <2>21 DEF SetCode
    <3>3. \A x \in Handlers : Confirms(x)'
      BY <1>4, <2>1, <3>2 DEF StepShape
    <3>4. \A k \in Keys : Using(k)' = Using(k)
      BY <2>1, <3>2 DEF StepShape, Using, Voiding, On
    <3> QED BY <1>2, <1>5, <3>1, <3>3, <3>4
  <2>22. CASE AcceptCode(h)
    <3>1. CASE UNCHANGED uses
      <4>1. call[h].pc = "confirming" /\ UNCHANGED code
        BY <2>22 DEF AcceptCode
      <4>2. call'[h] = Resting \/ call'[h].pc = "lifting"
        BY <2>2, <2>22 DEF AcceptCode, Go, Finish, Calls
      <4>3. Confirms(h)' /\ \A k \in Keys : ~Voiding(h, k)
        BY <4>1, <4>2 DEF Voiding, Resting
      <4> QED BY <1>6, <2>1, <3>1, <4>1, <4>3
    <3>2. CASE code[On(h)] /\ uses' = [uses EXCEPT ![On(h)] = @ + 1] /\ Go(h, "lifting")
      <4>1. /\ call[h].pc = "confirming" /\ call[h].kind = "confirm"
            /\ call'[h].pc = "lifting" /\ UNCHANGED <<code, crashes>>
        BY <1>4, <2>2, <2>22, <3>2 DEF AcceptCode, Go
      <4>2. call'[h].kind = "confirm" /\ call'[h].key = call[h].key
        BY <2>1, <4>1 DEF StepShape, Resting
      <4>3. \A x \in Handlers : Confirms(x)'
        BY <1>4, <2>1, <4>1 DEF StepShape
      <4>4. ASSUME NEW k \in Keys, k # On(h)
            PROVE  uses'[k] = uses[k] /\ Using(k)' = Using(k)
        BY <2>1, <2>2, <2>3, <3>2, <4>1, <4>2, <4>4 DEF StepShape, Using, Voiding, On
      <4>5. PICK k \in Keys : k = On(h)
        BY <2>2
      <4>6. Using(k)' = Using(k) \cup {h} /\ h \notin Using(k)
        BY <2>1, <4>1, <4>2, <4>5 DEF StepShape, Using, Voiding, On
      <4>7. Cardinality(Using(k)') = Cardinality(Using(k)) + 1
        <5>1. IsFiniteSet(Using(k))
          BY UsingBound DEF Using
        <5> QED BY <4>6, <5>1, FS_AddElement
      <4>8. uses'[k] = uses[k] + 1 /\ code[k]
        BY <2>3, <3>2, <4>5
      <4>9. /\ uses'[k] <= Cardinality(Using(k)') + N * crashes
             /\ uses'[k] <= N * (crashes + 1)
        BY <1>1, <1>2, <1>3, <4>7, <4>8
      <4>10. \A j \in Keys : /\ uses'[j] <= N * (crashes + 1)
                             /\ code'[j] => uses'[j] <= Cardinality(Using(j)') + N * crashes
        BY <1>3, <4>1, <4>4, <4>5, <4>9
      <4> QED BY <4>1, <4>3, <4>10 DEF UsesInv, CodeUsesBounded, N
    <3> QED BY <2>22, <3>1, <3>2 DEF AcceptCode
  <2> QED BY <1>7, <2>4, <2>5, <2>6, <2>7, <2>8, <2>9, <2>10, <2>11, <2>12,
            <2>13, <2>14, <2>15, <2>16, <2>17, <2>18, <2>19, <2>20, <2>21, <2>22
            DEF LoginStep, CodeStep
<1>8. ASSUME NEW h \in Handlers, StartStep(h)
      PROVE  UsesInv'
  <2>1. PICK c \in Calls :
           /\ call[h] = Resting /\ call' = [call EXCEPT ![h] = c]
           /\ c.pc \in {"failing", "resetting", "dropping", "sending", "retrying", "confirming"}
           /\ c.pc = "confirming" => c.kind = "confirm"
           /\ UNCHANGED <<code, uses, crashes>>
    BY <1>8, StartHasShape
  <2>2. call'[h] = c /\ \A x \in Handlers \ {h} : call'[x] = call[x]
    BY <2>1 DEF ThrottleTypeOK
  <2>3. \A k \in Keys : Using(k)' = Using(k)
    BY <2>1, <2>2 DEF Using, Voiding, On, Resting
  <2>4. \A x \in Handlers : Confirms(x)'
    BY <1>4, <2>1, <2>2
  <2> QED BY <1>2, <1>5, <2>1, <2>3, <2>4
<1>9. CASE (\E y \in Keys : Expire(y)) \/ Reinstate \/ UNCHANGED throttleVars
  <2>1. UNCHANGED <<call, uses, crashes>> /\ \A k \in Keys : code'[k] => code[k]
    BY <1>9 DEF Expire, Reinstate, throttleVars, ThrottleTypeOK
  <2>2. \A k \in Keys : Using(k)' = Using(k)
    BY <2>1 DEF Using, Voiding, On
  <2> QED BY <1>2, <1>4, <1>5, <2>1, <2>2
<1>10. CASE Crash
  <2>1. crashes' = crashes + 1 /\ UNCHANGED <<code, uses>>
    BY <1>10 DEF Crash
  <2>2. \A x \in Handlers : Confirms(x)'
    BY <1>10 DEF Crash, Resting
  <2>3. N * (crashes' + 1) = N * (crashes + 1) + N /\ N * crashes' = N * (crashes + 1)
    BY <1>1, <2>1, OneMoreCrash
  <2>4. \A k \in Keys : /\ uses'[k] <= N * (crashes' + 1)
                        /\ uses'[k] <= Cardinality(Using(k)') + N * crashes'
    BY <1>1, <1>2, <1>3, <2>1, <2>3
  <2> QED BY <2>2, <2>4 DEF UsesInv, CodeUsesBounded, N
<1> QED BY <1>7, <1>8, <1>9, <1>10 DEF ThrottleNext

\* One code is accepted by no more requests than run at once, and as many again
\* after every crash.
THEOREM ThrottleCodeUsesBounded == ThrottleSpec => []CodeUsesBounded
<1>1. UsesInv => CodeUsesBounded
  BY DEF UsesInv
<1> QED BY <1>1, ThrottleTypeCorrect, InitUsesInv, NextUsesInv, PTL DEF ThrottleSpec

-----------------------------------------------------------------------------
(* Wrong passwords pass, but not many                                      *)

\* What a request does with the counter of the logins: it has nothing to do with
\* it, has yet to read it, holds a count of it, or blocks and deletes.
Modes == {"open", "counted", "raising", "blocking", "clearing"}
Mode(x) ==
    IF call[x].pc = "counting" \/ (call[x].pc = "failing" /\ block[Email] = "none")
    THEN "counted"
    ELSE IF call[x].pc \in {"raising", "blocking", "clearing"} THEN call[x].pc ELSE "open"
HeldCount(x) == IF call[x].pc = "raising" THEN call[x].seen ELSE 0

\* The count a request holds is one the counter has passed.
Stale(a, m, s) == m = "raising" /\ s <= a
Ends(m) == m \in {"blocking", "clearing"}
Free(m) == IF m = "open" THEN 1 ELSE 0
Tri(n) == (n * (n + 1)) \div 2

\* How many wrong passwords may still come of a request in mode m that holds s,
\* with the counter at a, while the other request ends the count.
OneRoom(a, m, s) ==
    IF m = "open" THEN (IF a < Limit THEN Limit - a ELSE 1)
    ELSE IF m = "counted" THEN (IF a < Limit THEN Limit - a - 1 ELSE 0)
    ELSE (IF s < Limit THEN Limit - s ELSE 0)

\* How many may still come of both.
Room(a, m, s, n, t) ==
    IF Ends(m) /\ Ends(n) THEN 0
    ELSE IF Ends(m) THEN (IF m = "blocking" THEN 1 ELSE 0) + OneRoom(a, n, t)
    ELSE IF Ends(n) THEN (IF n = "blocking" THEN 1 ELSE 0) + OneRoom(a, m, s)
    ELSE IF Stale(a, m, s) THEN (Limit - a) + Free(n) + Tri(Limit - s)
    ELSE IF Stale(a, n, t) THEN (Limit - a) + Free(m) + Tri(Limit - t)
    ELSE Tri(Limit - a) + Free(m) + Free(n)

\* Not both hold a stale count, no count is zero, and the counter is below the
\* limit unless one of them ends the count.
RoomFits(a, m, s, n, t) ==
    /\ ~(Stale(a, m, s) /\ Stale(a, n, t))
    /\ m = "raising" => s > 0
    /\ n = "raising" => t > 0
    /\ Ends(m) \/ Ends(n) \/ a < Limit

\* A triangle number is the next smaller one and its own side.
LEMMA TriStep ==
  ASSUME NEW n \in Nat
  PROVE  Tri(n) \in Nat /\ Tri(n + 1) = Tri(n) + n + 1 /\ Tri(0) = 0
<1>1. PICK x \in Nat : x = n * (n + 1)
  OBVIOUS
<1>2. (n + 1) * (n + 1 + 1) = x + 2 * (n + 1)
  BY <1>1
<1>3. (x + 2 * (n + 1)) \div 2 = (x \div 2) + n + 1 /\ x \div 2 \in Nat
  BY <1>1
<1> QED BY <1>1, <1>2, <1>3 DEF Tri

\* A longer side makes no smaller a triangle.
LEMMA TriGrows ==
  ASSUME NEW d \in Nat, NEW e \in Nat, e <= d
  PROVE  Tri(e) <= Tri(d) /\ Tri(e) \in Nat /\ Tri(d) \in Nat
<1>1. PICK x \in Nat : x = e * (e + 1)
  OBVIOUS
<1>2. PICK y \in Nat : y = d * (d + 1)
  OBVIOUS
<1>3. x <= y
  <2>1. e * (e + 1) <= e * (d + 1) /\ e * (d + 1) <= d * (d + 1)
    OBVIOUS
  <2> QED BY <1>1, <1>2, <2>1
<1>4. x \div 2 <= y \div 2 /\ x \div 2 \in Nat /\ y \div 2 \in Nat
  BY <1>3
<1> QED BY <1>1, <1>2, <1>4 DEF Tri

\* A side more than another adds at least itself.
LEMMA TriMore ==
  ASSUME NEW d \in Nat, NEW e \in Nat, e < d
  PROVE  Tri(e) + d <= Tri(d) /\ Tri(d) \in Nat /\ Tri(e) \in Nat
<1>1. PICK b \in Nat : d = b + 1
  BY SMT
<1>2. Tri(e) <= Tri(b) /\ Tri(e) \in Nat /\ Tri(b) \in Nat
  BY <1>1, TriGrows
<1>3. Tri(b + 1) = Tri(b) + b + 1
  BY TriStep
<1> QED BY <1>1, <1>2, <1>3

\* A triangle has at least its side.
LEMMA TriSide ==
  ASSUME NEW d \in Nat
  PROVE  d <= Tri(d) /\ Tri(d) \in Nat
<1>1. CASE d = 0
  BY <1>1, TriStep
<1>2. CASE d > 0
  BY <1>2, TriMore, TriStep
<1> QED BY <1>1, <1>2

-----------------------------------------------------------------------------
(* What a step makes of the room                                           *)

\* It does not matter which of the two comes first.
LEMMA RoomTurns ==
  ASSUME NEW a \in Nat, NEW m, NEW s, NEW n, NEW t, RoomFits(a, m, s, n, t)
  PROVE  Room(a, m, s, n, t) = Room(a, n, t, m, s) /\ RoomFits(a, n, t, m, s)
<1>1. CASE Ends(m) \/ Ends(n)
  BY <1>1 DEF RoomFits, Room, Stale, Ends
<1>2. CASE ~Ends(m) /\ ~Ends(n)
  <2>1. Limit - a \in Nat
    BY <1>2, ThrottleAssumption DEF RoomFits
  <2>2. Tri(Limit - a) \in Nat
    BY <2>1, TriSide
  <2> QED BY <1>2, <2>2 DEF RoomFits, Room, Stale, Free
<1> QED BY <1>1, <1>2

\* A wrong password is one of those that may come.
LEMMA RoomWrong ==
  ASSUME NEW a \in Nat, NEW n \in Modes, NEW s \in Nat, NEW t \in Nat,
         RoomFits(a, "open", s, n, t)
  PROVE  /\ Room(a, "counted", 0, n, t) + 1 <= Room(a, "open", s, n, t)
         /\ Room(a, "counted", 0, n, t) \in Nat /\ Room(a, "open", s, n, t) \in Nat
         /\ RoomFits(a, "counted", 0, n, t)
<1>1. Limit \in Nat /\ Limit > 0
  BY ThrottleAssumption
<1>2. CASE Ends(n)
  BY <1>1, <1>2 DEF RoomFits, Room, OneRoom, Stale, Ends, Modes
<1>3. CASE ~Ends(n)
  <2>1. a < Limit /\ Limit - a \in Nat
    BY <1>1, <1>3 DEF RoomFits, Ends
  <2>2. Tri(Limit - a) \in Nat
    BY <2>1, TriSide
  <2>3. n = "raising" /\ t <= a => Limit - t \in Nat
    BY <1>1, <2>1
  <2>4. n = "raising" /\ t <= a => Tri(Limit - t) \in Nat
    BY <2>3, TriSide
  <2> QED BY <1>1, <1>3, <2>1, <2>2, <2>4
            DEF RoomFits, Room, OneRoom, Stale, Ends, Free, Modes
<1> QED BY <1>2, <1>3

\* Reading the counter makes room for no more.
LEMMA RoomRead ==
  ASSUME NEW a \in Nat, NEW n \in Modes, NEW s \in Nat, NEW t \in Nat,
         RoomFits(a, "counted", s, n, t)
  PROVE  /\ Room(a, "raising", a + 1, n, t) <= Room(a, "counted", s, n, t)
         /\ Room(a, "raising", a + 1, n, t) \in Nat /\ Room(a, "counted", s, n, t) \in Nat
         /\ RoomFits(a, "raising", a + 1, n, t)
<1>1. Limit \in Nat /\ Limit > 0
  BY ThrottleAssumption
<1>2. CASE Ends(n)
  BY <1>1, <1>2 DEF RoomFits, Room, OneRoom, Stale, Ends, Modes
<1>3. CASE ~Ends(n)
  <2>1. a < Limit /\ Limit - a \in Nat
    BY <1>1, <1>3 DEF RoomFits, Ends
  <2>2. Tri(Limit - a) \in Nat
    BY <2>1, TriSide
  <2>3. n = "raising" /\ t <= a => Limit - t \in Nat
    BY <1>1, <2>1
  <2>4. n = "raising" /\ t <= a => Tri(Limit - t) \in Nat
    BY <2>3, TriSide
  <2> QED BY <1>1, <1>3, <2>1, <2>2, <2>4
            DEF RoomFits, Room, OneRoom, Stale, Ends, Free, Modes
<1> QED BY <1>2, <1>3

\* Nor does writing a count, which may throw the counter back or make the count
\* of the other stale.
Raised(s) == IF s >= Limit THEN "blocking" ELSE "open"

LEMMA RoomRaise ==
  ASSUME NEW a \in Nat, NEW n \in Modes, NEW s \in Nat, NEW t \in Nat,
         RoomFits(a, "raising", s, n, t)
  PROVE  /\ Room(s, Raised(s), 0, n, t) <= Room(a, "raising", s, n, t)
         /\ Room(s, Raised(s), 0, n, t) \in Nat /\ Room(a, "raising", s, n, t) \in Nat
         /\ RoomFits(s, Raised(s), 0, n, t)
<1>1. Limit \in Nat /\ Limit > 0 /\ s > 0
  BY ThrottleAssumption DEF RoomFits
<1>2. RoomFits(s, Raised(s), 0, n, t)
  BY <1>1 DEF RoomFits, Raised, Stale, Ends
<1>3. CASE Ends(n)
  BY <1>1, <1>2, <1>3 DEF Room, Raised, OneRoom, Ends, Modes
<1>4. CASE ~Ends(n)
  <2>1. a < Limit /\ Limit - a \in Nat /\ n \in {"open", "counted", "raising"}
    BY <1>1, <1>4 DEF RoomFits, Ends, Modes
  <2>2. Limit - a <= Tri(Limit - a) /\ Tri(Limit - a) \in Nat
    BY <2>1, TriSide
  <2>3. ASSUME NEW u \in Nat, u < Limit
        PROVE  Limit - u <= Tri(Limit - u) /\ Tri(Limit - u) \in Nat
    <3>1. Limit - u \in Nat
      BY <1>1, <2>3
    <3> QED BY <3>1, TriSide
  <2>4. ASSUME NEW u \in Nat, u < Limit, u > a
        PROVE  Tri(Limit - u) + (Limit - a) <= Tri(Limit - a)
    <3>1. Limit - u \in Nat /\ Limit - u < Limit - a
      BY <1>1, <2>1, <2>4
    <3> QED BY <2>1, <3>1, TriMore
  <2>5. CASE s <= a
    <3>1. s < Limit /\ ~Stale(a, n, t) /\ ~Stale(s, n, t)
      BY <1>1, <2>1, <2>5 DEF RoomFits, Stale
    <3>2. Tri(Limit - s) \in Nat
      BY <2>3, <3>1
    <3> QED BY <1>1, <1>2, <1>4, <2>1, <2>5, <3>1, <3>2
              DEF Room, Raised, Free, Ends, Stale
  <2>6. CASE s > a /\ Stale(a, n, t)
    <3>1. t < Limit /\ n = "raising" /\ t <= a /\ Stale(s, n, t)
      BY <1>1, <2>1, <2>6 DEF Stale
    <3>2. Limit - t <= Tri(Limit - t) /\ Tri(Limit - t) \in Nat
      BY <2>3, <3>1
    <3> QED BY <1>1, <1>2, <1>4, <2>1, <2>6, <3>1, <3>2
              DEF Room, Raised, Free, Ends, Stale, OneRoom
  <2>7. CASE s > a /\ ~Stale(a, n, t) /\ s >= Limit
    <3>1. n = "raising" => t > a
      BY <2>7 DEF Stale
    <3> QED BY <1>1, <1>2, <1>4, <2>1, <2>2, <2>7, <3>1
              DEF Room, Raised, Free, Ends, Stale, OneRoom
  <2>8. CASE s > a /\ ~Stale(a, n, t) /\ s < Limit
    <3>1. Tri(Limit - s) + (Limit - a) <= Tri(Limit - a) /\ Tri(Limit - s) \in Nat
      BY <2>3, <2>4, <2>8
    <3>2. CASE Stale(s, n, t)
      <4>1. n = "raising" /\ t > a /\ t < Limit /\ t <= s
        BY <1>1, <2>8, <3>2 DEF Stale
      <4>2. Tri(Limit - t) + (Limit - a) <= Tri(Limit - a) /\ Tri(Limit - t) \in Nat
        BY <2>3, <2>4, <4>1
      <4> QED BY <1>1, <1>2, <1>4, <2>1, <2>2, <2>8, <4>1, <4>2
              DEF Room, Raised, Free, Ends, Stale
    <3>3. CASE ~Stale(s, n, t)
      BY <1>1, <1>2, <1>4, <2>1, <2>2, <2>8, <3>1, <3>3
         DEF Room, Raised, Free, Ends, Stale
    <3> QED BY <3>2, <3>3
  <2> QED BY <1>1, <2>5, <2>6, <2>7, <2>8
<1> QED BY <1>3, <1>4

\* A block hides the wrong password of a request that looks for it only then.
LEMMA RoomBlock ==
  ASSUME NEW a \in Nat, NEW n \in Modes, NEW s \in Nat, NEW t \in Nat, NEW n2,
         n2 = n \/ (n = "counted" /\ n2 = "open"), RoomFits(a, "blocking", s, n, t)
  PROVE  /\ Room(a, "clearing", 0, n2, t) <= Room(a, "blocking", s, n, t)
         /\ Room(a, "clearing", 0, n2, t) \in Nat /\ Room(a, "blocking", s, n, t) \in Nat
         /\ RoomFits(a, "clearing", 0, n2, t)
<1>1. Limit \in Nat /\ Limit > 0
  BY ThrottleAssumption
<1> QED BY <1>1 DEF RoomFits, Room, OneRoom, Stale, Ends, Modes

\* Deleting the counter makes room for all there may be.
LEMMA RoomClear ==
  ASSUME NEW n \in Modes, NEW t \in Nat, n = "raising" => t > 0
  PROVE  /\ Room(0, "open", 0, n, t) <= Tolerance /\ Room(0, "open", 0, n, t) \in Nat
         /\ RoomFits(0, "open", 0, n, t)
<1>1. Limit \in Nat /\ Limit > 0 /\ Limit - 0 = Limit
  BY ThrottleAssumption
<1>2. Limit <= Tri(Limit) /\ Tri(Limit) \in Nat /\ Tolerance = Tri(Limit) + 2
  BY <1>1, TriSide DEF Tolerance, Tri
<1> QED BY <1>1, <1>2 DEF RoomFits, Room, OneRoom, Stale, Ends, Free, Modes

\* There is never room for less than none.
LEMMA RoomType ==
  ASSUME NEW a \in Nat, NEW m \in Modes, NEW s \in Nat, NEW n \in Modes, NEW t \in Nat,
         RoomFits(a, m, s, n, t)
  PROVE  Room(a, m, s, n, t) \in Nat
<1>1. CASE m = "open"
  BY <1>1, RoomWrong
<1>2. CASE m = "counted"
  BY <1>2, RoomRead
<1>3. CASE m = "raising"
  BY <1>3, RoomRaise
<1>4. CASE m = "blocking"
  BY <1>4, RoomBlock
<1>5. CASE m = "clearing"
  <2>1. Limit \in Nat
    BY ThrottleAssumption
  <2> QED BY <1>5, <2>1 DEF Room, OneRoom, Ends, Modes
<1> QED BY <1>1, <1>2, <1>3, <1>4, <1>5 DEF Modes

-----------------------------------------------------------------------------
(* The bound on wrong passwords                                            *)

\* The wrong passwords there were and those that may still come.
Tight(g, a, m, s, n, t) == g + Room(a, m, s, n, t) <= Tolerance /\ RoomFits(a, m, s, n, t)
Pair(x, y) == Tight(guesses[Email], attempts[Email], Mode(x), HeldCount(x), Mode(y), HeldCount(y))

\* Only logins count passwords, and a count is never zero.
LoginCalls == \A x \in Handlers :
    /\ call[x].pc \in {"failing", "counting", "raising", "blocking", "clearing", "resetting"}
       => On(x) = Email
    /\ call[x].pc = "raising" => call[x].seen > 0

\* The inductive form of GuessesBounded.
GuessInv ==
    /\ LoginCalls
    /\ crashes = 0 /\ lockouts[Email] = 0 =>
          \A x, y \in Handlers : x # y /\ Handlers = {x, y} => Pair(x, y)

\* The bound is a number.
LEMMA ToleranceType == Tolerance \in Nat
<1>1. Limit \in Nat
  BY ThrottleAssumption
<1>2. Tri(Limit) \in Nat /\ Tolerance = Tri(Limit) + 2
  BY <1>1, TriSide DEF Tolerance, Tri
<1> QED BY <1>2

\* Nor does the order of the two matter to the bound.
LEMMA TightTurns ==
  ASSUME NEW g, NEW a \in Nat, NEW m, NEW s, NEW n, NEW t, Tight(g, a, m, s, n, t)
  PROVE  Tight(g, a, n, t, m, s)
  BY RoomTurns DEF Tight

\* A block that ends may let a request count that it would have stopped.
LEMMA TightLift ==
  ASSUME NEW g \in Nat, NEW a \in Nat, NEW m \in Modes, NEW s \in Nat, NEW n \in Modes,
         NEW t \in Nat, Tight(g, a, m, s, n, t), NEW m2, NEW n2,
         m2 = m \/ (m = "open" /\ m2 = "counted" /\ s = 0),
         n2 = n \/ (n = "open" /\ n2 = "counted" /\ t = 0)
  PROVE  Tight(g, a, m2, s, n2, t)
<1>1. Tight(g, a, m2, s, n, t) /\ m2 \in Modes
  <2>1. CASE m2 = m
    BY <2>1
  <2>2. CASE m = "open" /\ m2 = "counted" /\ s = 0
    BY <2>2, RoomWrong, ToleranceType DEF Tight, Modes
  <2> QED BY <2>1, <2>2
<1>2. Tight(g, a, n, t, m2, s)
  BY <1>1, TightTurns
<1>3. Tight(g, a, n2, t, m2, s)
  <2>1. CASE n2 = n
    BY <1>2, <2>1
  <2>2. CASE n = "open" /\ n2 = "counted" /\ t = 0
    BY <1>1, <1>2, <2>2, RoomWrong, ToleranceType DEF Tight, Modes
  <2> QED BY <2>1, <2>2
<1> QED BY <1>3, TightTurns

\* The modes and counts of the requests are such.
LEMMA ModeType ==
  ASSUME ThrottleTypeOK, NEW x \in Handlers
  PROVE  /\ Mode(x) \in Modes /\ HeldCount(x) \in Nat
         /\ Email \in Keys /\ attempts[Email] \in Nat /\ guesses[Email] \in Nat
<1>1. Email \in Keys
  BY DEF Keys
<1>2. call[x].pc = "raising" => call[x].seen \in Nat
  BY RunningCall DEF Calls
<1> QED BY <1>1, <1>2 DEF Mode, Modes, HeldCount, ThrottleTypeOK

\* Nothing has been guessed at the start.
LEMMA InitGuessInv == ThrottleInit => GuessInv
<1> SUFFICES ASSUME ThrottleInit PROVE GuessInv
  OBVIOUS
<1>1. Email \in Keys
  BY DEF Keys
<1>2. \A x \in Handlers : call[x].pc = "resting" /\ Mode(x) = "open" /\ HeldCount(x) = 0
  BY DEF ThrottleInit, Resting, Mode, HeldCount
<1>3. guesses[Email] = 0 /\ attempts[Email] = 0
  BY <1>1 DEF ThrottleInit
<1>4. Tight(0, 0, "open", 0, "open", 0)
  BY RoomClear DEF Tight, Modes
<1> QED BY <1>2, <1>3, <1>4 DEF GuessInv, LoginCalls, Pair

\* Two requests that do not touch the counter leave the bound where it was.
LEMMA PairLift ==
  ASSUME ThrottleTypeOK, NEW x \in Handlers, NEW y \in Handlers, Pair(x, y),
         NEW m2, NEW n2,
         m2 = Mode(x) \/ (Mode(x) = "open" /\ m2 = "counted"),
         n2 = Mode(y) \/ (Mode(y) = "open" /\ n2 = "counted")
  PROVE  Tight(guesses[Email], attempts[Email], m2, HeldCount(x), n2, HeldCount(y))
<1>1. /\ Mode(x) \in Modes /\ HeldCount(x) \in Nat /\ Mode(y) \in Modes /\ HeldCount(y) \in Nat
      /\ attempts[Email] \in Nat /\ guesses[Email] \in Nat
  BY ModeType
<1>2. (Mode(x) = "open" => HeldCount(x) = 0) /\ (Mode(y) = "open" => HeldCount(y) = 0)
  BY DEF Mode, HeldCount
<1> QED BY <1>1, <1>2, TightLift DEF Pair

\* A request about codes goes on with codes.
LEMMA CodeStepGoes ==
  ASSUME ThrottleTypeOK, NEW h \in Handlers, CodeStep(h)
  PROVE  call'[h].pc \in {"resting", "retrying", "reading", "tallied",
                          "retried", "closing", "tallying", "forgetting", "disabling",
                          "lifting", "untallying", "voiding"}
<1>1. ASSUME call[h].pc # "resting" PROVE call[h] \in Calls
  BY <1>1, RunningCall
<1>2. call \in [Handlers -> Calls \cup {Resting}]
  BY DEF ThrottleTypeOK
<1>3. CASE DropCode(h)
  BY <1>1, <1>2, <1>3 DEF DropCode, Finish, Resting, Calls
<1>4. CASE SetCode(h)
  BY <1>1, <1>2, <1>4 DEF SetCode, Resting, Calls
<1>5. CASE CheckRetry(h)
  BY <1>1, <1>2, <1>5 DEF CheckRetry, CountedOnce, Go, Finish, Resting, Calls
<1>6. CASE ReadRetries(h)
  BY <1>1, <1>2, <1>6 DEF ReadRetries, Resting, Calls
<1>7. CASE ReadTally(h)
  BY <1>1, <1>2, <1>7 DEF ReadTally, Resting, Calls
<1>8. CASE RaiseRetries(h)
  BY <1>1, <1>2, <1>8
     DEF RaiseRetries, CheckTally, CountedOnce, Go, Finish, Resting, Calls
<1>9. CASE BlockCodes(h)
  BY <1>1, <1>2, <1>9 DEF BlockCodes, Resting, Calls
<1>10. CASE SetTally(h)
  BY <1>1, <1>2, <1>10 DEF SetTally, Go, Resting, Calls
<1>11. CASE ClearRetries(h)
  BY <1>1, <1>2, <1>11
     DEF ClearRetries, CheckTally, CountedOnce, Go, Finish, Resting, Calls
<1>12. CASE AcceptCode(h)
  BY <1>1, <1>2, <1>12 DEF AcceptCode, Go, Finish, Resting, Calls
<1>13. CASE Disable(h)
  BY <1>1, <1>2, <1>13 DEF Disable, Go, Resting, Calls
<1>14. CASE LiftBlock(h)
  BY <1>1, <1>2, <1>14 DEF LiftBlock, Go, Resting, Calls
<1>15. CASE ClearTally(h)
  BY <1>1, <1>2, <1>15 DEF ClearTally, Go, Resting, Calls
<1>16. CASE VoidCode(h)
  BY <1>1, <1>2, <1>16 DEF VoidCode, Go, Finish, Resting, Calls
<1> QED BY <1>3, <1>4, <1>5, <1>6, <1>7, <1>8, <1>9,
          <1>10, <1>11, <1>12, <1>13, <1>14, <1>15, <1>16 DEF CodeStep

\* Whatever one request does, the other keeps its share of the bound.
LEMMA PairStep ==
  ASSUME ThrottleTypeOK, LoginCalls, NEW h \in Handlers, NEW g \in Handlers, h # g,
         Pair(h, g), LoginStep(h) \/ CodeStep(h) \/ StartStep(h), lockouts'[Email] = 0,
         lockouts[Email] = 0
  PROVE  Pair(h, g)'
<1>1. /\ Mode(h) \in Modes /\ HeldCount(h) \in Nat /\ Mode(g) \in Modes /\ HeldCount(g) \in Nat
      /\ Email \in Keys /\ attempts[Email] \in Nat /\ guesses[Email] \in Nat
      /\ Mode(g) = "raising" => HeldCount(g) > 0
  BY ModeType DEF LoginCalls, Mode, HeldCount
<1>2. call'[g] = call[g]
  <2>1. CASE LoginStep(h) \/ CodeStep(h)
    BY <2>1, StepHasShape DEF StepShape
  <2>2. CASE StartStep(h)
    BY <2>2, StartHasShape DEF ThrottleTypeOK
  <2> QED BY <2>1, <2>2
<1>3. HeldCount(g)' = HeldCount(g) /\ (block'[Email] = block[Email] => Mode(g)' = Mode(g))
  BY <1>2 DEF HeldCount, Mode
<1>4. /\ block'[Email] = "none" =>
            Mode(g)' = Mode(g) \/ (Mode(g) = "open" /\ Mode(g)' = "counted")
      /\ block'[Email] # "none" =>
            Mode(g)' = Mode(g) \/ (Mode(g) = "counted" /\ Mode(g)' = "open")
  BY <1>2 DEF Mode
<1>5. /\ call \in [Handlers -> Calls \cup {Resting}] /\ attempts \in [Keys -> Nat]
      /\ guesses \in [Keys -> Nat] /\ block \in [Keys -> {"none", "login", "codes"}]
      /\ lockouts \in [Keys -> Nat]
  BY DEF ThrottleTypeOK
<1>6. call[h].pc # "resting" => call[h] \in Calls
  BY RunningCall
<1>7. ASSUME UNCHANGED <<attempts, guesses>>, HeldCount(h)' = HeldCount(h), Mode(h)' = Mode(h),
             block'[Email] \in {"none", block[Email]}
      PROVE  Pair(h, g)'
  <2>1. Mode(g)' = Mode(g) \/ (Mode(g) = "open" /\ Mode(g)' = "counted")
    BY <1>3, <1>4, <1>7
  <2>2. Tight(guesses[Email], attempts[Email], Mode(h)', HeldCount(h), Mode(g)', HeldCount(g))
    BY <1>7, <2>1, PairLift
  <2> QED BY <1>3, <1>7, <2>2 DEF Pair
<1>8. CASE ReadBlock(h)
  <2>1. call[h].pc = "failing" /\ On(h) = Email /\ call[h] \in Calls
    BY <1>6, <1>8 DEF ReadBlock, LoginCalls
  <2>2. /\ UNCHANGED <<attempts, guesses, block>>
        /\ IF block[Email] = "none" THEN call'[h].pc = "counting" ELSE call'[h] = Resting
    BY <1>5, <1>8, <2>1 DEF ReadBlock, Go, Finish, Calls
  <2>3. HeldCount(h)' = HeldCount(h) /\ Mode(h)' = Mode(h)
    BY <2>1, <2>2 DEF HeldCount, Mode, Resting
  <2> QED BY <1>7, <2>2, <2>3
<1>9. CASE ReadAttempts(h)
  <2>1. call[h].pc = "counting" /\ On(h) = Email /\ call[h] \in Calls
    BY <1>6, <1>9 DEF ReadAttempts, LoginCalls
  <2>2. /\ UNCHANGED <<attempts, guesses, block>>
        /\ call'[h].pc = "raising" /\ call'[h].seen = attempts[Email] + 1
    BY <1>5, <1>9, <2>1 DEF ReadAttempts, Calls
  <2>3. /\ Mode(h) = "counted" /\ Mode(h)' = "raising"
        /\ HeldCount(h)' = attempts[Email] + 1
    BY <2>1, <2>2 DEF HeldCount, Mode
  <2>4. Tight(guesses[Email], attempts[Email], "raising", attempts[Email] + 1, Mode(g), HeldCount(g))
    BY <1>1, <2>3, RoomRead, ToleranceType DEF Pair, Tight
  <2> QED BY <1>3, <2>2, <2>3, <2>4 DEF Pair
<1>10. CASE RaiseAttempts(h)
  <2>1. call[h].pc = "raising" /\ On(h) = Email /\ call[h] \in Calls
    BY <1>6, <1>10 DEF RaiseAttempts, LoginCalls
  <2>2. Mode(h) = "raising" /\ HeldCount(h) = call[h].seen
    BY <2>1 DEF HeldCount, Mode
  <2>3. /\ UNCHANGED <<guesses, block>> /\ attempts'[Email] = HeldCount(h)
        /\ IF HeldCount(h) >= Limit THEN call'[h].pc = "blocking" ELSE call'[h] = Resting
    BY <1>1, <1>5, <1>10, <2>1, <2>2 DEF RaiseAttempts, Go, Finish, Calls
  <2>4. Mode(h)' = Raised(HeldCount(h)) /\ HeldCount(h)' = 0
    BY <2>3 DEF HeldCount, Mode, Resting, Raised
  <2>5. Tight(guesses[Email], HeldCount(h), Raised(HeldCount(h)), 0, Mode(g), HeldCount(g))
    BY <1>1, <2>2, RoomRaise, ToleranceType DEF Pair, Tight
  <2> QED BY <1>3, <2>3, <2>4, <2>5 DEF Pair
<1>11. CASE BlockLogin(h)
  <2>1. call[h].pc = "blocking" /\ On(h) = Email /\ call[h] \in Calls
    BY <1>6, <1>11 DEF BlockLogin, LoginCalls
  <2>2. /\ UNCHANGED <<attempts, guesses>> /\ block'[Email] = "login"
        /\ call'[h].pc = "clearing"
    BY <1>1, <1>5, <1>11, <2>1 DEF BlockLogin, Go, Calls
  <2>3. Mode(h) = "blocking" /\ Mode(h)' = "clearing" /\ HeldCount(h)' = 0
    BY <2>1, <2>2 DEF HeldCount, Mode
  <2>4. PICK n2 : n2 = Mode(g)'
    OBVIOUS
  <2>5. n2 = Mode(g) \/ (Mode(g) = "counted" /\ n2 = "open")
    BY <1>4, <2>2, <2>4
  <2>6. Tight(guesses[Email], attempts[Email], "clearing", 0, n2, HeldCount(g))
    BY <1>1, <2>3, <2>5, RoomBlock, ToleranceType DEF Pair, Tight
  <2> QED BY <1>3, <2>2, <2>3, <2>4, <2>6 DEF Pair
<1>12. CASE ClearAttempts(h)
  <2>1. On(h) = Email
    BY <1>12 DEF ClearAttempts, LoginCalls
  <2>2. /\ attempts'[Email] = 0 /\ guesses'[Email] = 0 /\ UNCHANGED block
        /\ call'[h] = Resting
    BY <1>1, <1>5, <1>12, <2>1 DEF ClearAttempts, Finish
  <2>3. Mode(h)' = "open" /\ HeldCount(h)' = 0
    BY <2>2 DEF HeldCount, Mode, Resting
  <2>4. Tight(0, 0, "open", 0, Mode(g), HeldCount(g))
    BY <1>1, RoomClear, ToleranceType DEF Tight
  <2> QED BY <1>3, <2>2, <2>3, <2>4 DEF Pair
<1>13. CASE CodeStep(h)
  <2>1. /\ call[h].pc \in {"dropping", "sending", "retrying", "reading", "tallied",
                            "retried", "closing", "tallying", "forgetting", "disabling",
                            "confirming", "lifting", "untallying", "voiding"}
        /\ UNCHANGED <<attempts, guesses>>
    BY <1>13 DEF CodeStep, DropCode, SetCode, CheckRetry, ReadRetries, ReadTally,
       RaiseRetries, BlockCodes, SetTally, ClearRetries, AcceptCode, Disable, LiftBlock,
       ClearTally, VoidCode
  <2>2. call[h] \in Calls /\ On(h) \in Keys
    BY <1>6, <2>1 DEF On, Calls
  <2>3. call'[h].pc \in {"resting", "retrying", "reading", "tallied",
                         "retried", "closing", "tallying", "forgetting", "disabling",
                         "lifting", "untallying", "voiding"}
    BY <1>13, CodeStepGoes
  <2>4. block'[Email] \in {"none", block[Email]}
    <3>1. CASE BlockCodes(h)
      <4>1. On(h) # Email
        BY <1>1, <1>5, <3>1 DEF BlockCodes
      <4> QED BY <1>1, <1>5, <3>1, <4>1 DEF BlockCodes
    <3>2. CASE LiftBlock(h)
      BY <1>1, <1>5, <3>2 DEF LiftBlock
    <3>3. CASE UNCHANGED block
      BY <3>3
    <3> QED BY <1>13, <3>1, <3>2, <3>3 DEF CodeStep, DropCode, SetCode, CheckRetry,
               ReadRetries, ReadTally, RaiseRetries, SetTally, ClearRetries, AcceptCode,
               Disable, ClearTally, VoidCode
  <2>5. HeldCount(h)' = HeldCount(h) /\ Mode(h)' = Mode(h)
    BY <2>1, <2>3 DEF HeldCount, Mode
  <2> QED BY <1>7, <2>1, <2>4, <2>5
<1>14. CASE LoginWrong(h)
  <2>1. /\ call[h] = Resting /\ block[Email] = "none" /\ call'[h].pc = "failing"
        /\ UNCHANGED <<attempts, block>> /\ guesses'[Email] = guesses[Email] + 1
    BY <1>1, <1>5, <1>14 DEF LoginWrong, Begin, Request
  <2>2. Mode(h) = "open" /\ HeldCount(h) = 0 /\ Mode(h)' = "counted" /\ HeldCount(h)' = 0
    BY <2>1 DEF HeldCount, Mode, Resting
  <2>3. Tight(guesses[Email] + 1, attempts[Email], "counted", 0, Mode(g), HeldCount(g))
    BY <1>1, <2>2, RoomWrong, ToleranceType DEF Pair, Tight
  <2> QED BY <1>3, <2>1, <2>2, <2>3 DEF Pair
<1>15. CASE StartStep(h) /\ ~LoginWrong(h)
  <2>1. /\ call[h] = Resting /\ UNCHANGED <<attempts, guesses, block>>
        /\ \/ call'[h].pc \in {"resetting", "dropping", "sending", "retrying", "confirming"}
           \/ call'[h].pc = "failing" /\ block[Email] # "none"
    BY <1>5, <1>15 DEF StartStep, LoginRight, LoginSocial, LoginBlocked, Confirm, AskCode,
       AskCodeBlocked, Begin, Request
  <2>2. HeldCount(h)' = HeldCount(h) /\ Mode(h)' = Mode(h)
    BY <2>1 DEF HeldCount, Mode, Resting
  <2> QED BY <1>7, <2>1, <2>2
<1> QED BY <1>8, <1>9, <1>10, <1>11, <1>12, <1>13, <1>14, <1>15 DEF LoginStep

\* Requests that count passwords stay logins, and count from one.
LEMMA NextLoginCalls ==
  ThrottleTypeOK /\ LoginCalls /\ [ThrottleNext]_throttleVars => LoginCalls'
<1> SUFFICES ASSUME ThrottleTypeOK, LoginCalls, [ThrottleNext]_throttleVars
             PROVE  LoginCalls'
  OBVIOUS
<1> DEFINE Counts(x) ==
      /\ call[x].pc \in {"failing", "counting", "raising", "blocking", "clearing", "resetting"}
         => On(x) = Email
      /\ call[x].pc = "raising" => call[x].seen > 0
<1>1. \A x \in Handlers : Counts(x)
  BY DEF LoginCalls
<1>2. call \in [Handlers -> Calls \cup {Resting}] /\ attempts \in [Keys -> Nat]
  BY DEF ThrottleTypeOK
<1>3. ASSUME NEW h \in Handlers, \A x \in Handlers \ {h} : call'[x] = call[x], Counts(h)'
      PROVE  LoginCalls'
  BY <1>1, <1>3 DEF LoginCalls, On
<1>4. ASSUME NEW h \in Handlers, LoginStep(h)
      PROVE  LoginCalls'
  <2>1. StepShape(h)
    BY <1>4, StepHasShape
  <2>2. call[h] \in Calls /\ On(h) = Email
    <3>1. call[h].pc \in {"failing", "counting", "raising", "blocking", "clearing", "resetting"}
      BY <1>4
         DEF LoginStep, ReadBlock, ReadAttempts, RaiseAttempts, BlockLogin, ClearAttempts
    <3> QED BY <1>1, <3>1, RunningCall
  <2>3. CASE ReadAttempts(h)
    <3>1. Email \in Keys
      BY DEF Keys
    <3>2. PICK a \in Nat : a = attempts[Email]
      BY <1>2, <3>1
    <3>3. call'[h].seen = a + 1 /\ call'[h].key = Email
      BY <1>2, <2>2, <2>3, <3>2 DEF ReadAttempts, On, Calls
    <3>4. Counts(h)'
      BY <3>3 DEF On
    <3> QED BY <1>3, <2>1, <3>4 DEF StepShape
  <2>4. CASE ReadBlock(h) \/ RaiseAttempts(h) \/ BlockLogin(h) \/ ClearAttempts(h)
    <3>1. call'[h] = Resting \/ (call'[h].key = Email /\ call'[h].pc # "raising")
      BY <1>2, <2>2, <2>4 DEF ReadBlock, RaiseAttempts, BlockLogin, ClearAttempts, Go,
         Finish, On, Calls
    <3>2. Counts(h)'
      BY <3>1 DEF On, Resting
    <3> QED BY <1>3, <2>1, <3>2 DEF StepShape
  <2> QED BY <1>4, <2>3, <2>4 DEF LoginStep
<1>5. ASSUME NEW h \in Handlers, CodeStep(h)
      PROVE  LoginCalls'
  <2>1. StepShape(h)
    BY <1>5, StepHasShape
  <2>2. Counts(h)'
    BY <1>5, CodeStepGoes
  <2> QED BY <1>3, <2>1, <2>2 DEF StepShape
<1>6. ASSUME NEW h \in Handlers, StartStep(h)
      PROVE  LoginCalls'
  <2>1. \A x \in Handlers \ {h} : call'[x] = call[x]
    BY <1>2, <1>6, StartHasShape
  <2>2. call'[h].pc # "raising" /\
        (call'[h].pc \in {"failing", "resetting"} => call'[h].key = Email)
    BY <1>2, <1>6
       DEF StartStep, LoginRight, LoginSocial, LoginWrong, LoginBlocked, Confirm,
       AskCode, AskCodeBlocked, Begin, Request
  <2>3. call'[h].pc \notin {"counting", "blocking", "clearing"}
    BY <1>2, <1>6, StartHasShape
  <2>4. Counts(h)'
    BY <2>2, <2>3 DEF On
  <2> QED BY <1>3, <2>1, <2>4
<1>7. CASE (\E k \in Keys : Expire(k)) \/ Reinstate \/ UNCHANGED throttleVars
  <2>1. UNCHANGED call
    BY <1>7 DEF Expire, Reinstate, throttleVars
  <2> QED BY <1>1, <2>1 DEF LoginCalls, On
<1>8. CASE Crash
  BY <1>8 DEF Crash, LoginCalls, Resting
<1> QED BY <1>4, <1>5, <1>6, <1>7, <1>8 DEF ThrottleNext

\* Every step keeps what has been guessed and what may be within the bound.
LEMMA NextGuessInv ==
  ThrottleTypeOK /\ GuessInv /\ [ThrottleNext]_throttleVars => GuessInv'
<1> SUFFICES ASSUME ThrottleTypeOK, GuessInv, [ThrottleNext]_throttleVars,
                    crashes' = 0, lockouts'[Email] = 0,
                    NEW x \in Handlers, NEW y \in Handlers, x # y, Handlers = {x, y}
             PROVE  Pair(x, y)'
  BY NextLoginCalls DEF GuessInv
<1>1. ThrottleTypeOK'
  BY NextThrottleTypeOK
<1>2. Email \in Keys /\ crashes \in Nat /\ lockouts \in [Keys -> Nat]
  BY DEF Keys, ThrottleTypeOK
<1>3. crashes = 0 /\ lockouts[Email] = 0
  <2>1. CASE \E h \in Handlers : LoginStep(h) \/ CodeStep(h)
    <3>1. PICK h \in Handlers : LoginStep(h) \/ CodeStep(h)
      BY <2>1
    <3>2. crashes' = crashes
      BY <3>1, StepHasShape DEF StepShape
    <3>3. CASE BlockCodes(h)
      <4>1. On(h) # Email
        BY <1>2, <3>3 DEF BlockCodes
      <4> QED BY <1>2, <3>2, <3>3, <4>1 DEF BlockCodes
    <3>4. CASE UNCHANGED lockouts
      BY <3>2, <3>4
    <3> QED BY <3>1, <3>3, <3>4 DEF LoginStep, CodeStep, ReadBlock, ReadAttempts,
               RaiseAttempts, BlockLogin, ClearAttempts, DropCode, SetCode, CheckRetry,
               ReadRetries, ReadTally, RaiseRetries, SetTally, ClearRetries, AcceptCode,
               Disable, LiftBlock, ClearTally, VoidCode
  <2>2. CASE \E h \in Handlers : StartStep(h)
    BY <2>2, StartHasShape
  <2>3. CASE (\E k \in Keys : Expire(k)) \/ Reinstate \/ UNCHANGED throttleVars
    BY <2>3 DEF Expire, Reinstate, throttleVars
  <2>4. CASE Crash
    BY <1>2, <2>4 DEF Crash
  <2> QED BY <2>1, <2>2, <2>3, <2>4 DEF ThrottleNext
<1>4. LoginCalls /\ Pair(x, y) /\ Pair(y, x)
  BY <1>3 DEF GuessInv
<1>5. CASE \E h \in Handlers : LoginStep(h) \/ CodeStep(h) \/ StartStep(h)
  <2>1. CASE LoginStep(x) \/ CodeStep(x) \/ StartStep(x)
    BY <1>3, <1>4, <2>1, PairStep
  <2>2. CASE LoginStep(y) \/ CodeStep(y) \/ StartStep(y)
    <3>1. Pair(y, x)'
      BY <1>3, <1>4, <2>2, PairStep
    <3>2. PICK a \in Nat : a = attempts'[Email]
      BY <1>1, <1>2 DEF ThrottleTypeOK
    <3> QED BY <3>1, <3>2, TightTurns DEF Pair
  <2> QED BY <1>5, <2>1, <2>2
<1>6. CASE (\E k \in Keys : Expire(k)) \/ Reinstate \/ UNCHANGED throttleVars
  <2>1. /\ UNCHANGED <<call, attempts, guesses>>
        /\ block'[Email] \in {"none", block[Email]}
    BY <1>2, <1>6 DEF Expire, Reinstate, throttleVars, ThrottleTypeOK
  <2>2. /\ Mode(x)' = Mode(x) \/ (Mode(x) = "open" /\ Mode(x)' = "counted")
        /\ Mode(y)' = Mode(y) \/ (Mode(y) = "open" /\ Mode(y)' = "counted")
        /\ HeldCount(x)' = HeldCount(x) /\ HeldCount(y)' = HeldCount(y)
    BY <2>1 DEF Mode, HeldCount
  <2>3. Tight(guesses[Email], attempts[Email], Mode(x)', HeldCount(x), Mode(y)', HeldCount(y))
    BY <1>4, <2>2, PairLift
  <2> QED BY <2>1, <2>2, <2>3 DEF Pair
<1>7. CASE Crash
  BY <1>3, <1>7 DEF Crash
<1> QED BY <1>5, <1>6, <1>7 DEF ThrottleNext

\* Two requests are a pair.
LEMMA TwoHandlers ==
  ASSUME Cardinality(Handlers) = 2
  PROVE  \E x, y \in Handlers : x # y /\ Handlers = {x, y}
<1>1. IsFiniteSet(Handlers)
  BY ThrottleAssumption
<1>2. Handlers # {}
  BY FS_EmptySet
<1>3. PICK x \in Handlers : TRUE
  BY <1>2
<1>4. IsFiniteSet(Handlers \ {x}) /\ Cardinality(Handlers \ {x}) = 1
  BY <1>1, OneLess
<1>5. Handlers \ {x} # {}
  BY <1>4, FS_EmptySet
<1>6. PICK y \in Handlers \ {x} : TRUE
  BY <1>5
<1>7. IsFiniteSet((Handlers \ {x}) \ {y}) /\ Cardinality((Handlers \ {x}) \ {y}) = 0
  BY <1>4, <1>6, OneLess
<1>8. (Handlers \ {x}) \ {y} = {}
  BY <1>7, FS_EmptySet
<1> QED BY <1>6, <1>8

\* What has been guessed is part of what the bound covers.
LEMMA GuessInvBounds == ThrottleTypeOK /\ GuessInv => GuessesBounded
<1> SUFFICES ASSUME ThrottleTypeOK, GuessInv, crashes = 0, lockouts[Email] = 0,
                    Cardinality(Handlers) = 2
             PROVE  guesses[Email] <= Tolerance
  BY DEF GuessesBounded
<1>1. PICK x \in Handlers, y \in Handlers : x # y /\ Handlers = {x, y}
  BY TwoHandlers
<1>2. PICK r : r = Room(attempts[Email], Mode(x), HeldCount(x), Mode(y), HeldCount(y))
  OBVIOUS
<1>3. guesses[Email] + r <= Tolerance
  BY <1>1, <1>2 DEF GuessInv, Pair, Tight
<1>4. r \in Nat
  BY <1>1, <1>2, RoomType, ModeType DEF GuessInv, Pair, Tight
<1> QED BY <1>3, <1>4, ModeType, ToleranceType

\* While no block for codes hides a wrong password from the counter, two requests
\* at a time pass a bounded number of them, however their counts overlap.
THEOREM ThrottleGuessesBounded == ThrottleSpec => []GuessesBounded
BY GuessInvBounds, ThrottleTypeCorrect, InitGuessInv, NextGuessInv, PTL DEF ThrottleSpec

\* Whatever the number of requests, the limit of failures and the crashes, what
\* throttles passwords and codes stays in force.
THEOREM ThrottleKept == ThrottleSpec => []ThrottleSound
BY ThrottleTypeCorrect, ThrottleFullCounterBlocks, ThrottleDisabledAfterBlocks,
   ThrottleCodeUsesBounded, ThrottleGuessesBounded, PTL DEF ThrottleSound

-----------------------------------------------------------------------------
(* The row of a user                                                       *)

Inserting == {r \in Requests : req[r].pc = "inserting"}

\* Rows that are there and rows that come.
RowRoom == accounts + Cardinality(Inserting) <= Cardinality(Requests)

\* The first row gets its parts from one request, and nobody is to be signed in
\* before it has its session.
OneAdds ==
    /\ ~Exists => parts = 0 /\ \A r \in Requests : req[r].pc # "adding"
    /\ \A r \in Requests : req[r].pc = "adding" => parts < Parts
    /\ \A q, r \in Requests : req[q].pc = "adding" /\ req[r].pc = "adding" => q = r

MaySign(o) ==
    /\ o.pc \in {"loaded", "selected", "updating", "signing"} /\ o.signs /\ o.next # 0
       => parts >= SessionPart
    /\ o.pc = "signing" => o.signs

PartsAdded ==
    OneAdds /\ SignedInHasSession /\ \A r \in Requests : MaySign(req[r])

\* What the one that runs alone holds differs from the row in what it means to change.
Holds(o) == \A c \in Columns : c \in o.means \/ o.mine[c] = row[c]
AloneHolds ==
    ~mixed =>
        /\ \A q, r \in Requests : req[q] # Unused /\ req[r] # Unused => q = r
        /\ row = wanted
        /\ \A r \in Requests :
            /\ req[r].pc \in {"inserting", "adding"} => req[r].means = {}
            /\ req[r].pc \in {"adding", "loaded", "selected", "updating"} => Holds(req[r])
            /\ req[r].pc = "selected" => req[r].base = row
            /\ req[r] # Unused => req[r].means \subseteq req[r].carries

AccountInv == AccountTypeOK /\ RowRoom /\ PartsAdded /\ AloneHolds

OnlyRequest(r) ==
    /\ req' \in [Requests -> Running \cup {Unused}]
    /\ \A q \in Requests \ {r} : req'[q] = req[q]
MovesOn(r, p) ==
    /\ OnlyRequest(r) /\ req[r] # Unused /\ req'[r] # Unused /\ req'[r].pc = p
    /\ req'[r].means = req[r].means /\ req'[r].mine = req[r].mine
    /\ req'[r].signs = req[r].signs /\ req'[r].next = req[r].next
    /\ req'[r].carries = req[r].carries
Leaves(r) == OnlyRequest(r) /\ req[r] # Unused /\ req'[r] = Unused

\* A request on the account has the fields of one.
LEMMA RequestTyped ==
    ASSUME AccountTypeOK, NEW r \in Requests
    PROVE  /\ req[r] = Unused <=> req[r].pc = "unused"
           /\ req[r] # Unused =>
                /\ req[r] \in Running /\ req[r].mine \in Row /\ req[r].base \in Row
                /\ req[r].carries \subseteq Columns /\ req[r].means \subseteq Columns
                /\ req[r].next \in Nat /\ req[r].signs \in BOOLEAN
  BY DEF AccountTypeOK, Running, Unused

\* A request that comes.
Fit(o) ==
    /\ o \in Running /\ o.means \subseteq o.carries
    /\ \/ o.pc = "inserting" /\ ~Exists /\ o.means = {}
       \/ /\ o.pc \in {"loaded", "updating", "signing"} /\ Holds(o)
          /\ o.signs /\ o.next # 0 => parts >= SessionPart \/ token # 0
          /\ o.pc = "signing" => o.signs

\* An object that a request has changed still has the columns of a row.
LEMMA ObjectFit ==
    ASSUME AccountTypeOK, NEW p \in {"loaded", "updating", "signing"}, NEW cols \in SUBSET Columns,
           NEW change \in Row, NEW signs \in BOOLEAN, NEW next \in Nat,
           signs /\ next # 0 => parts >= SessionPart \/ token # 0, p = "signing" => signs,
           \A c \in Columns \ cols : change[c] = row[c]
    PROVE  Fit(Object(p, cols, change, signs, next))
  <1> DEFINE o == Object(p, cols, change, signs, next)
             m == {c \in Columns : change[c] # row[c]}
  <1>1. /\ o = [pc |-> p, carries |-> cols, means |-> m, mine |-> change, base |-> row,
                next |-> next, signs |-> signs]
        /\ m \in SUBSET Columns /\ row \in Row
    BY DEF Object, AccountTypeOK
  <1>2. Holds([means |-> m, mine |-> change])
    BY DEF Holds
  <1>3. o \in Running
    <2> HIDE DEF m
    <2> QED
      BY <1>1 DEF Running
  <1>4. o.pc = p /\ o.means = m /\ o.mine = change /\ o.signs = signs /\ o.next = next
        /\ o.carries = cols
    BY <1>1
  <1>6. m \subseteq cols
    OBVIOUS
  <1>5. Holds(o)
    BY <1>2, <1>4 DEF Holds
  <1> HIDE DEF o
  <1> QED
    BY <1>3, <1>4, <1>5, <1>6 DEF Fit, o

\* A request holds a row when it has come.
LEMMA BeginsFit ==
    ASSUME AccountTypeOK, NEW r \in Requests, Begins(r)
    PROVE  /\ \E o : Fit(o) /\ Enter(r, o)
           /\ referrals' \in Nat /\ UNCHANGED <<accounts, row, parts, token, wanted, stops>>
  <1>0. /\ row \in Row /\ Own \in Nat /\ referrals \in Nat /\ token \in Nat
        /\ ByEmail \in SUBSET Columns /\ ByRequest \in SUBSET Columns /\ {} \in SUBSET Columns
        /\ {"password"} \in SUBSET Columns
    BY DEF AccountTypeOK, Own, ByEmail, ByRequest, Columns
  <1>1. /\ [row EXCEPT !.isActive = TRUE] \in Row /\ [row EXCEPT !.withdrawn = TRUE] \in Row
        /\ [row EXCEPT !.password = Own] \in Row
    BY <1>0 DEF Row
  <1>p. [row EXCEPT !.points = @ + 1] \in Row
    <2>1. row.points + 1 \in Nat
      BY <1>0 DEF Row
    <2>2. \A n \in Nat : [row EXCEPT !.points = n] \in Row
      BY <1>0 DEF Row
    <2>3. [row EXCEPT !.points = row.points + 1] \in Row
      BY <2>1, <2>2
    <2> QED
      BY <2>3, Zenon
  <1>s. ASSUME NEW s \in Status PROVE [row EXCEPT !.status = s] \in Row
    BY <1>0 DEF Row
  <1>d. [row EXCEPT !.status = "DISABLED"] \in Row
    BY <1>s DEF Status
  <1>2. ASSUME NEW social \in BOOLEAN, SignUp(r, social)
        PROVE  \E o : Fit(o) /\ Start(r, o)
    <2> DEFINE x == Object("inserting", ByEmail, FreshRow(social), social, Own)
               o == [x EXCEPT !.means = {}]
    <2>1. FreshRow(social) \in Row
      BY DEF FreshRow, Row, Status
    <2>2. o = [pc |-> "inserting", carries |-> ByEmail, means |-> {}, mine |-> FreshRow(social),
               base |-> row, next |-> Own, signs |-> social]
      <3> DEFINE m == {c \in Columns : FreshRow(social)[c] # row[c]}
      <3>1. x = [pc |-> "inserting", carries |-> ByEmail, means |-> m, mine |-> FreshRow(social),
                 base |-> row, next |-> Own, signs |-> social]
        BY DEF Object
      <3> HIDE DEF x, m
      <3>2. [x EXCEPT !.means = {}] = [pc |-> "inserting", carries |-> ByEmail, means |-> {},
               mine |-> FreshRow(social), base |-> row, next |-> Own, signs |-> social]
        BY <3>1
      <3> QED
        BY <3>2
    <2>3. o \in Running /\ o.pc = "inserting" /\ o.means = {}
      BY <1>0, <2>1, <2>2 DEF Running
    <2>4. Start(r, o) /\ ~Exists
      BY <1>2 DEF SignUp
    <2> HIDE DEF o
    <2> QED
      BY <2>3, <2>4 DEF Fit
  <1>3. ASSUME NEW cols \in SUBSET Columns, NEW change \in Row, Load(r, cols, change),
               \A c \in Columns \ cols : change[c] = row[c]
        PROVE  \E o : Fit(o) /\ Start(r, o)
    BY <1>3, ObjectFit DEF Load
  <1>4. ASSUME NEW social \in BOOLEAN, Login(r, social) PROVE \E o : Fit(o) /\ Start(r, o)
    BY <1>0, <1>4, ObjectFit DEF Login, LoadAndSign, ByEmail
  <1>5. ASSUME \/ VerifyEmailCode(r) \/ DisableUser(r) \/ ChangePassword(r)
               \/ WithdrawMembership(r) \/ (\E s \in Status : UpdateUserStatus(r, s))
               \/ SaveProfile(r)
        PROVE  \E o : Fit(o) /\ Start(r, o)
    <2>1. CASE VerifyEmailCode(r)
      BY <1>0, <1>1, <1>3, <2>1 DEF VerifyEmailCode, ByEmail
    <2>2. CASE DisableUser(r)
      <3>1. PICK cols \in {ByEmail, ByRequest} : Load(r, cols, [row EXCEPT !.status = "DISABLED"])
        BY <2>2 DEF DisableUser
      <3>2. \A c \in Columns \ cols : [row EXCEPT !.status = "DISABLED"][c] = row[c]
        BY <1>0, <3>1 DEF ByEmail, ByRequest, Columns, Row
      <3> QED
        BY <1>0, <1>d, <1>3, <3>1, <3>2
    <2>3. CASE ChangePassword(r)
      BY <1>0, <1>1, <1>3, <2>3 DEF ChangePassword, ByEmail
    <2>4. CASE WithdrawMembership(r)
      BY <1>0, <1>1, <1>3, <2>4 DEF WithdrawMembership, ByEmail
    <2>5. ASSUME NEW s \in Status, UpdateUserStatus(r, s) PROVE \E o : Fit(o) /\ Start(r, o)
      BY <1>0, <1>s, <1>3, <2>5 DEF UpdateUserStatus, ByEmail
    <2>6. CASE SaveProfile(r)
      BY <1>0, <1>1, <1>3, <2>6 DEF SaveProfile
    <2> QED
      BY <1>5, <2>1, <2>2, <2>3, <2>4, <2>5, <2>6
  <1>6. ASSUME CreatePassword(r) \/ ConfirmForgotPassword(r)
        PROVE  \E o : Fit(o) /\ Start(r, o)
    <2> DEFINE o(signs, next) == Object("updating", {"password"}, [row EXCEPT !.password = Own],
                                        signs, next)
    <2>1. (parts >= SessionPart) \in BOOLEAN
      OBVIOUS
    <2>2. \/ Start(r, o(parts >= SessionPart, Own))
          \/ Start(r, o(FALSE, 0))
      BY <1>6 DEF CreatePassword, ConfirmForgotPassword
    <2>a. \A c \in Columns \ {"password"} : [row EXCEPT !.password = Own][c] = row[c]
      BY <1>0 DEF Columns, Row
    <2>3. Fit(o(parts >= SessionPart, Own))
      BY <1>0, <1>1, <2>1, <2>a, ObjectFit
    <2>4. Fit(o(FALSE, 0))
      BY <1>0, <1>1, <2>a, ObjectFit
    <2> QED
      BY <2>2, <2>3, <2>4
  <1>7. ASSUME Logout(r) \/ UpdateFcmToken(r)
        PROVE  \E o : Fit(o) /\ Start(r, o)
    <2>1. PICK next \in Nat : /\ Start(r, Object("signing", {}, row, TRUE, next))
                              /\ next # 0 => token # 0
      BY <1>0, <1>7 DEF Logout, UpdateFcmToken
    <2> QED
      BY <1>0, <2>1, ObjectFit
  <1>8. ASSUME NEW again \in BOOLEAN, CheckReferralCode(r, again)
        PROVE  (\E o : Fit(o) /\ Enter(r, o)) /\ referrals' \in Nat
    <2>1. Fit(Object("loaded", ByEmail, [row EXCEPT !.points = @ + 1], FALSE, 0))
      BY <1>0, <1>p, ObjectFit DEF ByEmail
    <2>2. Enter(r, Object("loaded", ByEmail, [row EXCEPT !.points = @ + 1], FALSE, 0))
      BY <1>8, Zenon DEF CheckReferralCode
    <2>3. referrals' = referrals + (IF again THEN 0 ELSE 1)
      BY <1>8, Zenon DEF CheckReferralCode
    <2>4. referrals' \in Nat
      BY <1>0, <2>3
    <2> QED
      BY <2>1, <2>2, <2>4, Zenon
  <1>9. (\E o : Fit(o) /\ Start(r, o)) => (\E o : Fit(o) /\ Enter(r, o)) /\ referrals' \in Nat
    BY <1>0 DEF Start
  <1>10. UNCHANGED <<accounts, row, parts, token, wanted, stops>>
    BY DEF Begins
  <1> QED
    BY <1>2, <1>4, <1>5, <1>6, <1>7, <1>8, <1>9, <1>10 DEF Begins

\* What a request is when it has come.
LEMMA BeginsShape ==
    ASSUME AccountTypeOK, NEW r \in Requests, Begins(r)
    PROVE  /\ OnlyRequest(r) /\ req[r] = Unused /\ req'[r] # Unused /\ Fit(req'[r])
           /\ requests' \in Nat /\ referrals' \in Nat /\ mixed' \in BOOLEAN
           /\ ~mixed' => ~mixed /\ \A q \in Requests : req[q] = Unused
           /\ UNCHANGED <<accounts, row, parts, token, wanted, stops>>
  <1>1. PICK o : Fit(o) /\ Enter(r, o)
    BY BeginsFit
  <1>2. o \in Running /\ o # Unused
    BY <1>1 DEF Fit, Unused
  <1>3. req' = [req EXCEPT ![r] = o] /\ req[r] = Unused
    BY <1>1 DEF Enter, Idle
  <1>4. OnlyRequest(r) /\ req'[r] = o
    BY <1>2, <1>3 DEF OnlyRequest, AccountTypeOK
  <1>5. /\ requests' \in Nat /\ mixed' \in BOOLEAN
        /\ ~mixed' => ~mixed /\ \A q \in Requests : req[q] = Unused
    <2>1. requests' = requests + 1 /\ mixed' = (mixed \/ ~Alone(r)) /\ req[r] = Unused
      BY <1>1 DEF Enter, Idle
    <2>2. Alone(r) => \A q \in Requests : req[q] = Unused
      BY <2>1 DEF Alone, Idle
    <2>3. requests' \in Nat
      BY <2>1 DEF AccountTypeOK
    <2>4. mixed' \in BOOLEAN
      BY <2>1, Zenon DEF AccountTypeOK
    <2> QED
      BY <2>1, <2>2, <2>3, <2>4, Zenon
  <1> QED
    BY <1>1, <1>2, <1>3, <1>4, <1>5, BeginsFit

\* What each step makes of the request.
LEMMA RequestShape ==
    ASSUME AccountTypeOK, NEW r \in Requests
    PROVE  /\ Insert(r) => /\ req[r].pc = "inserting"
                           /\ IF Exists THEN Leaves(r) ELSE MovesOn(r, "adding")
           /\ AddPart(r) => /\ req[r].pc = "adding"
                            /\ \/ parts' < Parts /\ req' = req
                               \/ /\ parts' >= Parts
                                  /\ Leaves(r) \/ MovesOn(r, "loaded")
           /\ SelectRow(r) => /\ req[r].pc = "loaded" /\ MovesOn(r, "selected")
                              /\ req'[r].base = row
           /\ SaveRow(r) => /\ req[r].pc = "selected"
                            /\ Leaves(r) \/ (MovesOn(r, "signing") /\ req[r].signs)
           /\ UpdateColumn(r) => /\ req[r].pc = "updating"
                                 /\ Leaves(r) \/ (MovesOn(r, "signing") /\ req[r].signs)
           /\ SaveSession(r) => req[r].pc = "signing" /\ Leaves(r)
  <1>1. req[r].pc # "unused" => req[r] # Unused /\ req[r] \in Running
    BY RequestTyped
  <1>2. ASSUME req[r] # Unused, Leave(r) PROVE Leaves(r)
    BY <1>2 DEF Leave, Leaves, OnlyRequest, AccountTypeOK
  <1>3. ASSUME req[r] # Unused, NEW p \in {"adding", "loaded", "signing"}, Advance(r, p)
        PROVE  MovesOn(r, p)
    <2> DEFINE x == [req[r] EXCEPT !.pc = p]
    <2>1. req[r] \in Running
      BY <1>3, RequestTyped
    <2>2. /\ x \in Running /\ x.pc = p /\ x.means = req[r].means /\ x.mine = req[r].mine
          /\ x.signs = req[r].signs /\ x.next = req[r].next /\ x.carries = req[r].carries
      BY <2>1 DEF Running
    <2>3. req' = [req EXCEPT ![r] = x]
      BY <1>3 DEF Advance
    <2> HIDE DEF x
    <2>4. req'[r] = x /\ OnlyRequest(r)
      BY <2>2, <2>3 DEF OnlyRequest, AccountTypeOK
    <2>5. x # Unused
      BY <2>2 DEF Unused
    <2> QED
      BY <1>3, <2>2, <2>4, <2>5 DEF MovesOn
  <1>4. ASSUME SelectRow(r)
        PROVE  req[r].pc = "loaded" /\ MovesOn(r, "selected") /\ req'[r].base = row
    <2> DEFINE x == [req[r] EXCEPT !.pc = "selected", !.base = row]
    <2>1. req[r] \in Running /\ req[r] # Unused /\ row \in Row /\ req[r].pc = "loaded"
      BY <1>1, <1>4 DEF SelectRow, AccountTypeOK
    <2>2. /\ x \in Running /\ x.pc = "selected" /\ x.means = req[r].means /\ x.mine = req[r].mine
          /\ x.signs = req[r].signs /\ x.next = req[r].next /\ x.carries = req[r].carries
          /\ x.base = row
      BY <2>1 DEF Running
    <2>3. req' = [req EXCEPT ![r] = x]
      BY <1>4 DEF SelectRow
    <2> HIDE DEF x
    <2>4. req'[r] = x /\ OnlyRequest(r)
      BY <2>2, <2>3 DEF OnlyRequest, AccountTypeOK
    <2>5. x # Unused
      BY <2>2 DEF Unused
    <2> QED
      BY <2>1, <2>2, <2>4, <2>5 DEF MovesOn
  <1>5. Insert(r) => /\ req[r].pc = "inserting"
                     /\ IF Exists THEN Leaves(r) ELSE MovesOn(r, "adding")
    BY <1>1, <1>2, <1>3 DEF Insert
  <1>6. AddPart(r) => /\ req[r].pc = "adding"
                      /\ \/ parts' < Parts /\ req' = req
                         \/ /\ parts' >= Parts
                            /\ Leaves(r) \/ MovesOn(r, "loaded")
    BY <1>1, <1>2, <1>3 DEF AddPart, AccountTypeOK, Parts
  <1>7. SaveRow(r) => req[r].pc = "selected" /\ (Leaves(r) \/ (MovesOn(r, "signing") /\ req[r].signs))
    <2> SUFFICES ASSUME SaveRow(r)
                 PROVE  req[r].pc = "selected" /\ (Leaves(r) \/ (MovesOn(r, "signing") /\ req[r].signs))
      OBVIOUS
    <2>1. req[r].pc = "selected" /\ req[r] # Unused
      BY <1>1 DEF SaveRow
    <2>2. CASE req[r].signs
      <3>1. Advance(r, "signing")
        BY <2>2, Zenon DEF SaveRow, WriteRow
      <3> QED
        BY <1>3, <2>1, <2>2, <3>1
    <2>3. CASE ~req[r].signs
      <3>1. Leave(r)
        BY <2>3, Zenon DEF SaveRow, WriteRow
      <3> QED
        BY <1>2, <2>1, <3>1
    <2> QED
      BY <2>2, <2>3
  <1>8. UpdateColumn(r) => req[r].pc = "updating" /\ (Leaves(r) \/ (MovesOn(r, "signing") /\ req[r].signs))
    <2> SUFFICES ASSUME UpdateColumn(r)
                 PROVE  req[r].pc = "updating" /\ (Leaves(r) \/ (MovesOn(r, "signing") /\ req[r].signs))
      OBVIOUS
    <2>1. req[r].pc = "updating" /\ req[r] # Unused
      BY <1>1 DEF UpdateColumn
    <2>2. CASE req[r].signs
      <3>1. Advance(r, "signing")
        BY <2>2, Zenon DEF UpdateColumn, WriteRow
      <3> QED
        BY <1>3, <2>1, <2>2, <3>1
    <2>3. CASE ~req[r].signs
      <3>1. Leave(r)
        BY <2>3, Zenon DEF UpdateColumn, WriteRow
      <3> QED
        BY <1>2, <2>1, <3>1
    <2> QED
      BY <2>2, <2>3
  <1>9. SaveSession(r) => req[r].pc = "signing" /\ Leaves(r)
    BY <1>1, <1>2 DEF SaveSession
  <1> QED
    BY <1>4, <1>5, <1>6, <1>7, <1>8, <1>9

\* A row with some columns of another is a row.
LEMMA OverlayRow ==
    ASSUME NEW m \in Row, NEW old \in Row, NEW cols,
           NEW w, w = [c \in Columns |-> IF c \in cols THEN m[c] ELSE old[c]]
    PROVE  w \in Row
  <1>1. w = [status |-> w.status, isActive |-> w.isActive, withdrawn |-> w.withdrawn,
             password |-> w.password, points |-> w.points]
    BY DEF Columns
  <1>2. /\ w.status \in {m.status, old.status} /\ w.isActive \in {m.isActive, old.isActive}
        /\ w.withdrawn \in {m.withdrawn, old.withdrawn}
        /\ w.password \in {m.password, old.password} /\ w.points \in {m.points, old.points}
    BY DEF Columns
  <1> QED
    BY <1>1, <1>2 DEF Row

\* Every statement keeps the types.
LEMMA AccountStepTyped ==
    ASSUME AccountTypeOK, PartsAdded, [AccountNext]_accountVars
    PROVE  AccountTypeOK'
  <1>1. ASSUME NEW r \in Requests, Begins(r) PROVE AccountTypeOK'
    BY <1>1, BeginsShape DEF OnlyRequest, AccountTypeOK
  <1>2. ASSUME NEW r \in Requests, Insert(r) PROVE AccountTypeOK'
    <2>1. req' \in [Requests -> Running \cup {Unused}] /\ req[r].mine \in Row
      BY <1>2, RequestShape, RequestTyped DEF Leaves, MovesOn, OnlyRequest
    <2> QED
      BY <1>2, <2>1 DEF Insert, AccountTypeOK
  <1>3. ASSUME NEW r \in Requests, AddPart(r) PROVE AccountTypeOK'
    <2>1. req[r].pc = "adding" /\ req[r].mine \in Row
      BY <1>3, RequestShape, RequestTyped
    <2>2. req' \in [Requests -> Running \cup {Unused}]
      BY <1>3, RequestShape DEF Leaves, MovesOn, OnlyRequest, AccountTypeOK
    <2>3. parts' \in 0..Parts
      BY <1>3, <2>1 DEF PartsAdded, OneAdds, AddPart, AccountTypeOK, Parts
    <2> QED
      BY <1>3, <2>1, <2>2, <2>3 DEF AddPart, AccountTypeOK
  <1>4. ASSUME NEW r \in Requests, SelectRow(r) PROVE AccountTypeOK'
    BY <1>4, RequestShape DEF SelectRow, MovesOn, OnlyRequest, AccountTypeOK
  <1>5. ASSUME NEW r \in Requests, NEW cols, WriteRow(r, cols), Leaves(r) \/ MovesOn(r, "signing")
        PROVE  AccountTypeOK'
    <2>1. req' \in [Requests -> Running \cup {Unused}] /\ req[r].mine \in Row
      BY <1>5, RequestTyped DEF Leaves, MovesOn, OnlyRequest
    <2>2. row' \in Row /\ wanted' \in Row
      <3>1. /\ row' = [c \in Columns |-> IF c \in cols THEN req[r].mine[c] ELSE row[c]]
            /\ wanted' = [c \in Columns |-> IF c \in req[r].means THEN req[r].mine[c] ELSE wanted[c]]
        BY <1>5 DEF WriteRow, Overlay
      <3>2. row \in Row /\ wanted \in Row
        BY DEF AccountTypeOK
      <3> QED
        BY <2>1, <3>1, <3>2, OverlayRow
    <2> QED
      BY <1>5, <2>1, <2>2 DEF WriteRow, AccountTypeOK
  <1>6. ASSUME NEW r \in Requests, SaveRow(r) \/ UpdateColumn(r) PROVE AccountTypeOK'
    BY <1>5, <1>6, RequestShape DEF SaveRow, UpdateColumn
  <1>7. ASSUME NEW r \in Requests, SaveSession(r) PROVE AccountTypeOK'
    <2>1. req' \in [Requests -> Running \cup {Unused}] /\ req[r].next \in Nat
      BY <1>7, RequestShape, RequestTyped DEF Leaves, OnlyRequest
    <2> QED
      BY <1>7, <2>1 DEF SaveSession, AccountTypeOK
  <1>8. ASSUME Stop PROVE AccountTypeOK'
    BY <1>8 DEF Stop, AccountTypeOK
  <1>9. ASSUME UNCHANGED accountVars PROVE AccountTypeOK'
    BY <1>9 DEF accountVars, AccountTypeOK
  <1> QED
    BY <1>1, <1>2, <1>3, <1>4, <1>6, <1>7, <1>8, <1>9 DEF AccountNext, Steps

\* The sign-ups about to insert are finitely many.
LEMMA InsertingFinite ==
    /\ IsFiniteSet(Inserting) /\ Cardinality(Inserting) \in Nat
    /\ Cardinality(Inserting) <= Cardinality(Requests) /\ Cardinality(Requests) \in Nat
  BY AccountAssumption, FS_Subset, FS_CardinalityType DEF Inserting

\* Every statement keeps the rows, there and to come, within the requests.
LEMMA RowRoomStep ==
    ASSUME AccountTypeOK, RowRoom, [AccountNext]_accountVars
    PROVE  RowRoom'
  <1>a. ASSUME accounts' = accounts, Inserting' \subseteq Inserting PROVE RowRoom'
    <2>1. Cardinality(Inserting') <= Cardinality(Inserting) /\ Cardinality(Inserting') \in Nat
      BY <1>a, InsertingFinite, FS_Subset, FS_CardinalityType
    <2> QED
      BY <1>a, <2>1, InsertingFinite DEF RowRoom, AccountTypeOK
  <1>1. ASSUME NEW r \in Requests, Begins(r) PROVE RowRoom'
    <2>1. /\ OnlyRequest(r) /\ Fit(req'[r]) /\ accounts' = accounts
      BY <1>1, BeginsShape
    <2>2. CASE accounts = 0
      <3>1. Inserting' \subseteq Requests
        BY DEF Inserting
      <3>2. Cardinality(Inserting') <= Cardinality(Requests) /\ Cardinality(Inserting') \in Nat
        BY <3>1, AccountAssumption, FS_Subset, FS_CardinalityType
      <3> QED
        BY <2>1, <2>2, <3>2, InsertingFinite DEF RowRoom
    <2>3. CASE accounts # 0
      <3>1. req'[r].pc # "inserting"
        BY <2>1, <2>3 DEF Fit, Exists, AccountTypeOK
      <3>2. Inserting' \subseteq Inserting
        BY <2>1, <3>1 DEF Inserting, OnlyRequest
      <3> QED
        BY <1>a, <2>1, <3>2
    <2> QED
      BY <2>2, <2>3
  <1>2. ASSUME NEW r \in Requests, Insert(r) PROVE RowRoom'
    <2>1. /\ OnlyRequest(r) /\ req[r].pc = "inserting" /\ req'[r].pc # "inserting"
          /\ accounts' = accounts + 1
      BY <1>2, RequestShape DEF Insert, Leaves, MovesOn, Unused
    <2>2. Inserting' = Inserting \ {r} /\ r \in Inserting
      BY <2>1 DEF Inserting, OnlyRequest
    <2>3. Cardinality(Inserting \ {r}) = Cardinality(Inserting) - 1
      BY <2>2, InsertingFinite, OneLess
    <2>4. Cardinality(Inserting') = Cardinality(Inserting) - 1
      BY <2>2, <2>3
    <2> QED
      BY <2>1, <2>4, InsertingFinite DEF RowRoom, AccountTypeOK
  <1>3. ASSUME NEW r \in Requests,
               AddPart(r) \/ SelectRow(r) \/ SaveRow(r) \/ UpdateColumn(r) \/ SaveSession(r)
        PROVE  RowRoom'
    <2>1. /\ accounts' = accounts
          /\ \/ req' = req
             \/ OnlyRequest(r) /\ req'[r].pc # "inserting"
      <3>1. accounts' = accounts
        BY <1>3 DEF AddPart, SelectRow, SaveRow, UpdateColumn, WriteRow, SaveSession
      <3>2. req' = req \/ Leaves(r) \/ MovesOn(r, "loaded") \/ MovesOn(r, "selected")
            \/ MovesOn(r, "signing")
        BY <1>3, RequestShape
      <3> QED
        BY <3>1, <3>2 DEF Leaves, MovesOn, Unused
    <2>2. Inserting' \subseteq Inserting
      BY <2>1 DEF Inserting, OnlyRequest
    <2> QED
      BY <1>a, <2>1, <2>2
  <1>4. ASSUME Stop PROVE RowRoom'
    BY <1>4, <1>a DEF Stop, Inserting, Unused
  <1>5. ASSUME UNCHANGED accountVars PROVE RowRoom'
    BY <1>5 DEF accountVars, RowRoom, Inserting
  <1> QED
    BY <1>1, <1>2, <1>3, <1>4, <1>5 DEF AccountNext, Steps

\* Every statement keeps the parts of the account added by one sign-up, and no one
\* signed in before the session is there.
LEMMA PartsAddedStep ==
    ASSUME AccountTypeOK, PartsAdded, [AccountNext]_accountVars
    PROVE  PartsAdded'
  <1>a. ASSUME NEW r \in Requests, OnlyRequest(r), UNCHANGED <<accounts, parts, token>>,
               req'[r].pc # "adding", MaySign(req'[r])
        PROVE  PartsAdded'
    <2>1. OneAdds'
      BY <1>a DEF PartsAdded, OneAdds, OnlyRequest, Exists
    <2>2. SignedInHasSession'
      BY <1>a DEF PartsAdded, SignedInHasSession
    <2>3. ASSUME NEW q \in Requests PROVE MaySign(req[q])'
      BY <1>a DEF PartsAdded, MaySign, OnlyRequest
    <2> QED
      BY <2>1, <2>2, <2>3 DEF PartsAdded
  <1>1. ASSUME NEW r \in Requests, Begins(r) PROVE PartsAdded'
    <2>1. OnlyRequest(r) /\ Fit(req'[r]) /\ UNCHANGED <<accounts, parts, token>>
      BY <1>1, BeginsShape
    <2>2. MaySign(req'[r]) /\ req'[r].pc # "adding"
      BY <2>1 DEF Fit, MaySign, PartsAdded, SignedInHasSession
    <2> QED
      BY <1>a, <2>1, <2>2
  <1>2. ASSUME NEW r \in Requests, Insert(r) PROVE PartsAdded'
    <2>1. /\ OnlyRequest(r) /\ accounts' > 0 /\ UNCHANGED <<parts, token>>
          /\ Exists => req'[r].pc # "adding"
          /\ req'[r].pc \notin {"loaded", "selected", "updating", "signing"}
      BY <1>2, RequestShape DEF Insert, Leaves, MovesOn, Unused, AccountTypeOK
    <2>2. OneAdds'
      <3>1. CASE Exists
        BY <2>1, <3>1 DEF PartsAdded, OneAdds, OnlyRequest, Exists
      <3>2. CASE ~Exists
        <4>1. parts = 0 /\ \A q \in Requests : req[q].pc # "adding"
          BY <3>2 DEF PartsAdded, OneAdds
        <4> QED
          BY <2>1, <4>1 DEF OneAdds, OnlyRequest, Exists, Parts
      <3> QED
        BY <3>1, <3>2
    <2>3. SignedInHasSession'
      BY <2>1 DEF PartsAdded, SignedInHasSession
    <2>4. ASSUME NEW q \in Requests PROVE MaySign(req[q])'
      BY <2>1 DEF PartsAdded, MaySign, OnlyRequest
    <2> QED
      BY <2>2, <2>3, <2>4 DEF PartsAdded
  <1>3. ASSUME NEW r \in Requests, AddPart(r) PROVE PartsAdded'
    <2>1. /\ req[r].pc = "adding" /\ parts' = parts + 1 /\ UNCHANGED <<accounts, token>>
          /\ \/ parts' < Parts /\ req' = req
             \/ parts' >= Parts /\ OnlyRequest(r) /\ req'[r].pc \in {"unused", "loaded"}
      BY <1>3, RequestShape DEF AddPart, Leaves, MovesOn, Unused
    <2>2. parts \in Nat /\ parts' \in Nat
      BY <2>1 DEF AccountTypeOK
    <2>3. OneAdds'
      <3>1. Exists /\ \A q \in Requests : req[q].pc = "adding" => q = r
        BY <2>1 DEF PartsAdded, OneAdds
      <3>2. CASE parts' < Parts /\ req' = req
        BY <2>1, <3>1, <3>2 DEF OneAdds, Exists
      <3>3. CASE parts' >= Parts /\ OnlyRequest(r) /\ req'[r].pc \in {"unused", "loaded"}
        <4>1. \A q \in Requests : req'[q].pc # "adding"
          BY <3>1, <3>3 DEF OnlyRequest
        <4> QED
          BY <2>1, <3>1, <4>1 DEF OneAdds, Exists
      <3> QED
        BY <2>1, <3>2, <3>3
    <2>4. SignedInHasSession'
      BY <2>1, <2>2 DEF PartsAdded, SignedInHasSession, SessionPart
    <2>5. ASSUME NEW q \in Requests PROVE MaySign(req[q])'
      <3>1. MaySign(req[q])
        BY DEF PartsAdded
      <3>2. req'[q] = req[q] \/ (parts' >= Parts /\ req'[q].pc \in {"unused", "loaded"})
        BY <2>1 DEF OnlyRequest
      <3> QED
        BY <2>1, <2>2, <3>1, <3>2 DEF MaySign, SessionPart, Parts
    <2> QED
      BY <2>3, <2>4, <2>5 DEF PartsAdded
  <1>4. ASSUME NEW r \in Requests, SelectRow(r) \/ SaveRow(r) \/ UpdateColumn(r)
        PROVE  PartsAdded'
    <2>1. UNCHANGED <<accounts, parts, token>>
      BY <1>4 DEF SelectRow, SaveRow, UpdateColumn, WriteRow
    <2>2. /\ req[r].pc \in {"loaded", "selected", "updating"}
          /\ \/ Leaves(r)
             \/ MovesOn(r, "selected")
             \/ (MovesOn(r, "signing") /\ req[r].signs)
      BY <1>4, RequestShape
    <2>3. MaySign(req[r])
      BY DEF PartsAdded
    <2>4. OnlyRequest(r) /\ req'[r].pc # "adding" /\ MaySign(req'[r])
      BY <2>2, <2>3 DEF Leaves, MovesOn, MaySign, Unused
    <2> QED
      BY <1>a, <2>1, <2>4
  <1>5. ASSUME NEW r \in Requests, SaveSession(r) PROVE PartsAdded'
    <2>1. /\ OnlyRequest(r) /\ req[r].pc = "signing" /\ req'[r] = Unused
          /\ UNCHANGED <<accounts, parts>> /\ token' = req[r].next
      BY <1>5, RequestShape DEF SaveSession, Leaves
    <2>2. OneAdds'
      BY <2>1 DEF PartsAdded, OneAdds, OnlyRequest, Exists, Unused
    <2>3. SignedInHasSession'
      BY <2>1 DEF PartsAdded, MaySign, SignedInHasSession
    <2>4. ASSUME NEW q \in Requests PROVE MaySign(req[q])'
      BY <2>1 DEF PartsAdded, MaySign, OnlyRequest, Unused
    <2> QED
      BY <2>2, <2>3, <2>4 DEF PartsAdded
  <1>6. ASSUME Stop PROVE PartsAdded'
    BY <1>6 DEF Stop, PartsAdded, OneAdds, MaySign, SignedInHasSession, Exists, Unused
  <1>7. ASSUME UNCHANGED accountVars PROVE PartsAdded'
    BY <1>7 DEF accountVars, PartsAdded, OneAdds, MaySign, SignedInHasSession, Exists
  <1> QED
    BY <1>1, <1>2, <1>3, <1>4, <1>5, <1>6, <1>7 DEF AccountNext, Steps

\* Two rows are the same if their columns are.
LEMMA RowExtent ==
    ASSUME NEW x \in Row, NEW y \in Row, \A c \in Columns : x[c] = y[c]
    PROVE  x = y
  BY DEF Row, Columns

\* What one column of such a row is.
LEMMA OverlayAt ==
    ASSUME NEW r, NEW cols, NEW old, NEW c \in Columns
    PROVE  Overlay(r, cols, old)[c] = IF c \in cols THEN req[r].mine[c] ELSE old[c]
  BY DEF Overlay

\* A request that runs alone holds the row as it is, and writes what it means.
LEMMA AloneHoldsStep ==
    ASSUME AccountTypeOK, AccountTypeOK', AloneHolds, [AccountNext]_accountVars
    PROVE  AloneHolds'
  <1> DEFINE Fits(o) ==
               /\ o.pc \in {"inserting", "adding"} => o.means = {}
               /\ o.pc \in {"adding", "loaded", "selected", "updating"} => Holds(o)
               /\ o.pc = "selected" => o.base = row
               /\ o # Unused => o.means \subseteq o.carries
  <1>a. ASSUME NEW r \in Requests, OnlyRequest(r), ~mixed',
               \A q \in Requests \ {r} : req[q] = Unused,
               row' = wanted', Fits(req[r])'
        PROVE  AloneHolds'
    <2>1. \A q \in Requests \ {r} : req'[q] = Unused
      BY <1>a DEF OnlyRequest
    <2>2. ASSUME NEW q \in Requests PROVE Fits(req[q])'
      BY <1>a, <2>1 DEF Unused
    <2> HIDE DEF Fits
    <2>3. \A p, q \in Requests : req'[p] # Unused /\ req'[q] # Unused => p = q
      BY <2>1
    <2>4. \A q \in Requests : Fits(req[q])'
      BY <2>2
    <2> USE DEF Fits
    <2> QED
      BY <1>a, <2>3, <2>4 DEF AloneHolds
  <1>b. ASSUME ~mixed, NEW r \in Requests, req[r] # Unused
        PROVE  /\ row = wanted /\ Fits(req[r])
               /\ \A q \in Requests \ {r} : req[q] = Unused
    BY <1>b DEF AloneHolds
  <1>1. ASSUME NEW r \in Requests, Begins(r) PROVE AloneHolds'
    <2> SUFFICES ASSUME ~mixed' PROVE AloneHolds'
      BY DEF AloneHolds
    <2>1. /\ OnlyRequest(r) /\ Fit(req'[r]) /\ UNCHANGED <<row, wanted>>
          /\ ~mixed /\ \A q \in Requests : req[q] = Unused
      BY <1>1, BeginsShape
    <2>2. row' = wanted'
      BY <2>1 DEF AloneHolds
    <2>3. Fits(req[r])'
      BY <2>1 DEF Fit, Holds
    <2> HIDE DEF Fits
    <2> QED
      BY <1>a, <2>1, <2>2, <2>3
  <1>2. ASSUME NEW r \in Requests, Insert(r) PROVE AloneHolds'
    <2> SUFFICES ASSUME ~mixed' PROVE AloneHolds'
      BY DEF AloneHolds
    <2>1. /\ ~mixed /\ req[r].pc = "inserting" /\ req[r] # Unused
          /\ IF Exists THEN Leaves(r) /\ UNCHANGED <<row, wanted>>
             ELSE MovesOn(r, "adding") /\ row' = req[r].mine /\ wanted' = req[r].mine
      BY <1>2, RequestShape, RequestTyped DEF Insert
    <2>2. /\ row = wanted /\ req[r].means = {}
          /\ \A q \in Requests \ {r} : req[q] = Unused
      BY <1>b, <2>1
    <2>3. OnlyRequest(r) /\ row' = wanted'
      BY <2>1, <2>2 DEF Leaves, MovesOn
    <2>4. Fits(req[r])'
      <3>1. CASE Exists
        BY <2>1, <3>1 DEF Leaves, Unused
      <3>2. CASE ~Exists
        <4>1. req'[r].pc = "adding" /\ req'[r].means = {} /\ req'[r].mine = row'
          BY <2>1, <2>2, <3>2 DEF MovesOn
        <4> QED
          BY <4>1 DEF Holds
      <3> QED
        BY <3>1, <3>2
    <2> HIDE DEF Fits
    <2> QED
      BY <1>a, <2>2, <2>3, <2>4
  <1>3. ASSUME NEW r \in Requests, AddPart(r) PROVE AloneHolds'
    <2> SUFFICES ASSUME ~mixed' PROVE AloneHolds'
      BY DEF AloneHolds
    <2>1. /\ ~mixed /\ req[r].pc = "adding" /\ req[r] # Unused
          /\ row' = req[r].mine /\ wanted' = wanted
          /\ req' = req \/ Leaves(r) \/ MovesOn(r, "loaded")
      <3>1. ~mixed /\ row' = req[r].mine /\ wanted' = wanted
        BY <1>3 DEF AddPart
      <3> QED
        BY <1>3, <3>1, RequestShape, RequestTyped
    <2>2. /\ row = wanted /\ req[r].means = {} /\ Holds(req[r])
          /\ \A q \in Requests \ {r} : req[q] = Unused
      BY <1>b, <2>1
    <2>3. row' = row
      <3>1. \A c \in Columns : req[r].mine[c] = row[c]
        BY <2>2 DEF Holds
      <3>2. row \in Row /\ req[r].mine \in Row
        BY <2>1, RequestTyped DEF AccountTypeOK
      <3> QED
        BY <2>1, <3>1, <3>2, RowExtent
    <2>4. OnlyRequest(r) /\ row' = wanted'
      BY <2>1, <2>2, <2>3 DEF Leaves, MovesOn, OnlyRequest, AccountTypeOK
    <2>5. Fits(req[r])'
      <3>1. CASE req' = req
        BY <2>1, <2>2, <2>3, <3>1 DEF Holds
      <3>2. CASE Leaves(r)
        BY <3>2 DEF Leaves, Unused
      <3>3. CASE MovesOn(r, "loaded")
        BY <2>2, <2>3, <3>3 DEF MovesOn, Holds
      <3> QED
        BY <2>1, <3>1, <3>2, <3>3
    <2> HIDE DEF Fits
    <2> QED
      BY <1>a, <2>2, <2>4, <2>5
  <1>4. ASSUME NEW r \in Requests, SelectRow(r) PROVE AloneHolds'
    <2> SUFFICES ASSUME ~mixed' PROVE AloneHolds'
      BY DEF AloneHolds
    <2>1. /\ ~mixed /\ req[r].pc = "loaded" /\ UNCHANGED <<row, wanted>>
          /\ MovesOn(r, "selected") /\ req'[r].base = row
      BY <1>4, RequestShape DEF SelectRow
    <2>2. /\ row = wanted /\ Holds(req[r]) /\ OnlyRequest(r)
          /\ req[r].means \subseteq req[r].carries
          /\ \A q \in Requests \ {r} : req[q] = Unused
      BY <1>b, <2>1 DEF MovesOn
    <2>3. Fits(req[r])'
      BY <2>1, <2>2 DEF MovesOn, Holds
    <2> HIDE DEF Fits
    <2> QED
      BY <1>a, <2>1, <2>2, <2>3
  <1>5. ASSUME NEW r \in Requests, NEW cols, WriteRow(r, cols), ~mixed', req[r] # Unused,
               Leaves(r) \/ MovesOn(r, "signing"), Holds(req[r]),
               \A c \in req[r].means : c \in cols \/ req[r].mine[c] = row[c]
        PROVE  AloneHolds'
    <2>1. /\ ~mixed /\ row' = Overlay(r, cols, row)
          /\ wanted' = Overlay(r, req[r].means, wanted)
      BY <1>5 DEF WriteRow
    <2>2. row = wanted /\ \A q \in Requests \ {r} : req[q] = Unused
      BY <1>5, <1>b, <2>1
    <2>3. row' = wanted'
      <3>1. row' \in Row /\ wanted' \in Row
        BY DEF AccountTypeOK
      <3>2. ASSUME NEW c \in Columns PROVE row'[c] = wanted'[c]
        <4>1. /\ row'[c] = IF c \in cols THEN req[r].mine[c] ELSE row[c]
              /\ wanted'[c] = IF c \in req[r].means THEN req[r].mine[c] ELSE wanted[c]
          BY <2>1, OverlayAt
        <4>2. c \in req[r].means \/ req[r].mine[c] = row[c]
          BY <1>5 DEF Holds
        <4> QED
          BY <1>5, <2>2, <4>1, <4>2
      <3> QED
        BY <3>1, <3>2, RowExtent
    <2>4. OnlyRequest(r) /\ Fits(req[r])'
      <3>1. req[r].means \subseteq req[r].carries
        BY <1>5, <1>b, <2>1
      <3> QED
        BY <1>5, <3>1 DEF Leaves, MovesOn, Unused
    <2> HIDE DEF Fits
    <2> QED
      BY <1>a, <1>5, <2>2, <2>3, <2>4
  <1>6. ASSUME NEW r \in Requests, SaveRow(r) PROVE AloneHolds'
    <2> SUFFICES ASSUME ~mixed' PROVE AloneHolds'
      BY DEF AloneHolds
    <2>1. /\ ~mixed /\ req[r].pc = "selected" /\ req[r] # Unused
          /\ WriteRow(r, Differs(r)) /\ (Leaves(r) \/ MovesOn(r, "signing"))
      <3>1. ~mixed /\ WriteRow(r, Differs(r))
        BY <1>6 DEF SaveRow, WriteRow
      <3> QED
        BY <1>6, <3>1, RequestShape, RequestTyped
    <2>2. Holds(req[r]) /\ req[r].base = row /\ req[r].means \subseteq req[r].carries
      BY <1>b, <2>1
    <2>3. \A c \in req[r].means : c \in Differs(r) \/ req[r].mine[c] = row[c]
      BY <2>2 DEF Differs
    <2> HIDE DEF Fits
    <2> QED
      BY <1>5, <2>1, <2>2, <2>3
  <1>7. ASSUME NEW r \in Requests, UpdateColumn(r) PROVE AloneHolds'
    <2> SUFFICES ASSUME ~mixed' PROVE AloneHolds'
      BY DEF AloneHolds
    <2>1. /\ ~mixed /\ req[r].pc = "updating" /\ req[r] # Unused
          /\ WriteRow(r, req[r].carries) /\ (Leaves(r) \/ MovesOn(r, "signing"))
      <3>1. ~mixed /\ WriteRow(r, req[r].carries)
        BY <1>7 DEF UpdateColumn, WriteRow
      <3> QED
        BY <1>7, <3>1, RequestShape, RequestTyped
    <2>2. Holds(req[r]) /\ req[r].means \subseteq req[r].carries
      BY <1>b, <2>1
    <2>3. \A c \in req[r].means : c \in req[r].carries \/ req[r].mine[c] = row[c]
      BY <2>2
    <2> HIDE DEF Fits
    <2> QED
      BY <1>5, <2>1, <2>2, <2>3
  <1>8. ASSUME NEW r \in Requests, SaveSession(r) PROVE AloneHolds'
    <2> SUFFICES ASSUME ~mixed' PROVE AloneHolds'
      BY DEF AloneHolds
    <2>1. /\ ~mixed /\ req[r].pc = "signing" /\ req[r] # Unused /\ Leaves(r)
          /\ UNCHANGED <<row, wanted>>
      BY <1>8, RequestShape, RequestTyped DEF SaveSession
    <2>2. row = wanted /\ \A q \in Requests \ {r} : req[q] = Unused
      BY <1>b, <2>1
    <2>3. OnlyRequest(r) /\ Fits(req[r])'
      BY <2>1 DEF Leaves, Unused
    <2> HIDE DEF Fits
    <2> QED
      BY <1>a, <2>1, <2>2, <2>3
  <1>9. ASSUME Stop PROVE AloneHolds'
    BY <1>9 DEF Stop, AloneHolds, Unused
  <1>10. ASSUME UNCHANGED accountVars PROVE AloneHolds'
    BY <1>10 DEF accountVars, AloneHolds, Holds
  <1> HIDE DEF Fits
  <1> QED
    BY <1>1, <1>2, <1>3, <1>4, <1>6, <1>7, <1>8, <1>9, <1>10 DEF AccountNext, Steps

\* At the start there is no account.
LEMMA AccountStart ==
    ASSUME AccountInit
    PROVE  AccountInv
  <1>0. /\ IsFiniteSet(Requests) /\ Cardinality(Requests) \in Nat
        /\ Cardinality(Requests) # 0
    <2>1. IsFiniteSet(Requests) /\ Requests # {}
      BY AccountAssumption
    <2>2. Cardinality(Requests) = 0 <=> Requests = {}
      BY <2>1, FS_EmptySet
    <2> QED
      BY <2>1, <2>2, FS_CardinalityType
  <1>1. /\ accounts \in {0, 1} /\ parts \in {0, Parts} /\ (accounts = 0 => parts = 0)
    <2>1. CASE Newcomer
      BY <2>1 DEF Newcomer
    <2>2. CASE Member
      <3>1. accounts = 1 /\ parts = Parts
        BY <2>2, Zenon DEF Member
      <3> QED
        BY <3>1
    <2> QED
      BY <2>1, <2>2 DEF AccountInit
  <1>2. row \in Row
    <2>1. FreshRow(FALSE) \in Row /\ FreshRow(TRUE) \in Row
      BY DEF FreshRow, Row, Status
    <2>2. MaxRequests + 1 \in Nat
      BY AccountAssumption
    <2>3. [FreshRow(TRUE) EXCEPT !.password = MaxRequests + 1] \in Row
      <3> DEFINE x == FreshRow(TRUE)
      <3>1. x \in Row
        BY <2>1
      <3> HIDE DEF x
      <3>2. [x EXCEPT !.password = MaxRequests + 1] \in Row
        BY <2>2, <3>1 DEF Row
      <3> USE DEF x
      <3> QED
        BY <3>2, Zenon
    <2> QED
      <3>1. CASE Newcomer
        BY <2>1, <3>1 DEF Newcomer
      <3>2. CASE Member
        BY <2>3, <3>2, Zenon DEF Member
      <3> QED
        BY <3>1, <3>2 DEF AccountInit
  <1>3. AccountTypeOK
    <2>1. parts \in 0..Parts /\ accounts \in Nat
      BY <1>1 DEF Parts
    <2>2. /\ token \in Nat /\ wanted \in Row /\ referrals \in Nat /\ requests \in Nat
          /\ stops \in Nat /\ req \in [Requests -> Running \cup {Unused}]
      BY <1>2 DEF AccountInit
    <2>3. mixed \in BOOLEAN
      BY DEF AccountInit
    <2> QED
      BY <1>2, <2>1, <2>2, <2>3 DEF AccountTypeOK
  <1>4. \A r \in Requests : req[r] = Unused /\ req[r].pc = "unused"
    BY DEF AccountInit, Unused
  <1>5. RowRoom
    <2>1. Inserting = {}
      BY <1>4 DEF Inserting
    <2>2. Cardinality(Inserting) = 0
      BY <2>1, FS_EmptySet
    <2> QED
      BY <1>0, <1>1, <2>2 DEF RowRoom
  <1>6. PartsAdded
    <2>1. token = 0
      BY DEF AccountInit
    <2> QED
      BY <1>1, <1>4, <2>1 DEF PartsAdded, OneAdds, MaySign, SignedInHasSession, Exists
  <1>7. AloneHolds
    <2>1. row = wanted
      BY DEF AccountInit
    <2> QED
      BY <1>4, <2>1 DEF AloneHolds
  <1> QED
    BY <1>3, <1>5, <1>6, <1>7 DEF AccountInv

\* However sign-ups, logins, changes and withdrawals of one account interleave, and
\* wherever one stops, there are no more rows than requests, nobody is signed in to an
\* account that has no session yet, and requests that do not overlap lose nothing of
\* each other (auth.service.ts, user.service.ts, the two statements of save).
THEOREM AccountKept == AccountSpec => []AccountSound
  <1>1. AccountInv /\ [AccountNext]_accountVars => AccountInv'
    BY AccountStepTyped, RowRoomStep, PartsAddedStep, AloneHoldsStep DEF AccountInv
  <1>2. AccountInv => AccountSound
    <2> SUFFICES ASSUME AccountInv PROVE AccountSound
      OBVIOUS
    <2>1. AccountsBounded
      BY InsertingFinite DEF AccountInv, RowRoom, AccountTypeOK, AccountsBounded
    <2>2. SignedInHasSession
      BY DEF AccountInv, PartsAdded
    <2>3. NothingLostAlone
      BY DEF AccountInv, AloneHolds, NothingLostAlone
    <2> QED
      BY <2>1, <2>2, <2>3 DEF AccountInv, AccountSound
  <1> QED
    BY <1>1, <1>2, AccountStart, PTL DEF AccountSpec

-----------------------------------------------------------------------------
(* Admins                                                                  *)

\* What a request is about at each of its steps.
JobFits(j) ==
    /\ j.pc = "creating" => j.kind = "invite"
    /\ j.pc = "loading" => j.kind \in {"set", "totp", "verify", "confirm"}
    /\ j.pc \in {"loaded", "selected"} =>
            j.kind \in {"set", "totp", "verify", "confirm", "toggle"}
    /\ j.pc = "issuing" => j.kind = "verify"
    /\ j.pc = "dropping" => j.kind \in {"set", "verify", "confirm"}
    /\ j.pc = "signing" => j.kind \in {"set", "invite", "login", "forgot"}
    /\ j.own \in 1..calls /\ j.token \in 0..calls
JobsFit ==
    /\ \A c \in Sessions : job[c] # Off => JobFits(job[c])
    /\ \A t \in TokenTypes : tokens[t] <= calls

\* Nobody is further than an invitation and its password before they are accepted.
Early(j) ==
    /\ ~j.mine.active
    /\ j.kind \notin {"login", "totp", "verify", "toggle"}
    /\ j.kind = "set" => j.pc \notin {"dropping", "signing"}
LoginWaits ==
    ~accepted =>
        /\ logins = 0 /\ ~admin.active /\ tokens["second"] = 0
        /\ \A c \in Sessions : job[c] # Off => Early(job[c])

\* The number of a request is that of no token and of no other request, until the
\* request makes it one and ends.
OwnIsNew ==
    /\ \A c \in Sessions : job[c] # Off =>
        /\ uses2[job[c].own] = 0
        /\ \A t \in TokenTypes : tokens[t] # job[c].own
        /\ \A d \in Sessions : job[d] # Off =>
            /\ job[d].token # job[c].own
            /\ d # c => job[d].own # job[c].own
    /\ \A n \in 0..MaxCalls : n > calls => uses2[n] = 0

\* The requests that present a second-factor token: the ones that have yet to make
\* a login token of it, and the ones that have yet to delete it.
ToIssue(n) == {c \in Sessions : job[c] # Off /\ job[c].kind = "verify" /\ job[c].token = n
                                /\ job[c].pc # "dropping"}
ToDrop(n)  == {c \in Sessions : job[c] # Off /\ job[c].kind = "verify" /\ job[c].token = n
                                /\ job[c].pc = "dropping"}
SecondRoom(n) ==
    /\ uses2[n] + Cardinality(ToIssue(n)) <= Cardinality(Sessions)
    /\ tokens["second"] = n => uses2[n] <= Cardinality(ToDrop(n))
SecondsRoom == \A n \in 1..MaxCalls : SecondRoom(n)

\* A request that runs alone holds the row as it is.
Agreed(a) ==
    /\ a.twoFa => a.key # 0
    /\ a.active <=> a.confirmed
    /\ a.confirmed => a.password # 0
AloneAgrees ==
    ~overlap =>
        /\ \A c, d \in Sessions : job[c] # Off /\ job[d] # Off => c = d
        /\ Agreed(admin)
        /\ \A c \in Sessions :
            /\ job[c].pc \in {"loaded", "selected"} =>
                  /\ job[c].mine = admin
                  /\ job[c].kind \in {"verify", "toggle"} => admin.key # 0
            /\ job[c].pc = "selected" => job[c].base = admin

AdminInv == AdminTypeOK /\ JobsFit /\ LoginWaits /\ OwnIsNew /\ SecondsRoom /\ AloneAgrees

JobOnly(c) ==
    /\ job' \in [Sessions -> Jobs \cup {Off}]
    /\ \A d \in Sessions \ {c} : job'[d] = job[d]
JobGoes(c, p) ==
    /\ JobOnly(c) /\ job[c] # Off /\ job'[c] # Off /\ job'[c].pc = p
    /\ job'[c].kind = job[c].kind /\ job'[c].own = job[c].own
    /\ job'[c].token = job[c].token
JobEnds(c) == JobOnly(c) /\ job[c] # Off /\ job'[c] = Off

\* A request of an admin has the fields of one.
LEMMA JobTyped ==
    ASSUME AdminTypeOK, NEW c \in Sessions
    PROVE  /\ job[c] = Off <=> job[c].pc = "off"
           /\ job[c] # Off =>
                /\ job[c] \in Jobs /\ job[c].mine \in AdminRow /\ job[c].base \in AdminRow
                /\ job[c].own \in Nat /\ job[c].token \in Nat
  BY DEF AdminTypeOK, Jobs, Off

\* What a request is when it goes to its next step.
LEMMA JobMoves ==
    ASSUME AdminTypeOK, NEW c \in Sessions, job[c] # Off
    PROVE  /\ \A p \in {"signing", "issuing", "dropping"} :
                GoOn(c, p) => JobGoes(c, p) /\ job'[c].mine = job[c].mine
           /\ End(c) => JobEnds(c)
  <1>1. ASSUME NEW p \in {"signing", "issuing", "dropping"}, GoOn(c, p)
        PROVE  JobGoes(c, p) /\ job'[c].mine = job[c].mine
    <2> DEFINE x == [job[c] EXCEPT !.pc = p]
    <2>1. job[c] \in Jobs
      BY JobTyped
    <2>2. /\ x \in Jobs /\ x.pc = p /\ x.kind = job[c].kind /\ x.own = job[c].own
          /\ x.token = job[c].token /\ x.mine = job[c].mine
      BY <2>1 DEF Jobs
    <2>3. job' = [job EXCEPT ![c] = x]
      BY <1>1 DEF GoOn
    <2> HIDE DEF x
    <2>4. job'[c] = x /\ JobOnly(c)
      BY <2>2, <2>3 DEF JobOnly, AdminTypeOK
    <2>5. x # Off
      BY <2>2 DEF Off
    <2> QED
      BY <2>2, <2>4, <2>5 DEF JobGoes
  <1>2. ASSUME End(c) PROVE JobEnds(c)
    BY <1>2 DEF End, JobEnds, JobOnly, AdminTypeOK
  <1> QED
    BY <1>1, <1>2

\* What comes: the step it starts with, what it is about and the token it presents.
Comes(p, k, t) ==
    \/ p \in {"creating", "signing"} /\ k = "invite" /\ t = 0
    \/ p = "signing" /\ k = "login" /\ t = 0 /\ admin.active
    \/ p = "signing" /\ k = "forgot" /\ t = 0
    \/ p = "loaded" /\ k = "toggle" /\ t = 0 /\ logins > 0 /\ admin.key # 0
    \/ /\ p = "loading" /\ k \in {"set", "confirm", "totp", "verify"}
       /\ t = tokens[Presented(k)] /\ t # 0

\* What a request is when it has come.
LEMMA StartsShape ==
    ASSUME AdminTypeOK, NEW c \in Sessions, Starts(c)
    PROVE  /\ JobOnly(c) /\ job[c] = Off /\ job'[c] # Off
           /\ Comes(job'[c].pc, job'[c].kind, job'[c].token)
           /\ job'[c].own = calls + 1 /\ job'[c].mine = admin
           /\ calls' = calls + 1 /\ calls' \in 0..MaxCalls /\ overlap' \in BOOLEAN
           /\ ~overlap' => ~overlap /\ \A d \in Sessions : job[d] = Off
           /\ UNCHANGED <<exists, admin, tokens, logins, uses2, accepted>>
  <1>0. UNCHANGED <<exists, admin, tokens, logins, uses2, accepted>>
    BY DEF Starts
  <1>1. PICK p, k, t : TakeWith(c, p, k, t) /\ Comes(p, k, t)
    <2>1. ASSUME Invite(c) PROVE \E p, k, t : TakeWith(c, p, k, t) /\ Comes(p, k, t)
      BY <2>1 DEF Invite, Take, Comes
    <2>2. ASSUME AdminLogin(c) PROVE \E p, k, t : TakeWith(c, p, k, t) /\ Comes(p, k, t)
      BY <2>2 DEF AdminLogin, Take, Comes
    <2>3. ASSUME AdminForgot(c) PROVE \E p, k, t : TakeWith(c, p, k, t) /\ Comes(p, k, t)
      BY <2>3 DEF AdminForgot, Take, Comes
    <2>4. ASSUME Toggle(c) PROVE \E p, k, t : TakeWith(c, p, k, t) /\ Comes(p, k, t)
      BY <2>4 DEF Toggle, Take, Comes
    <2>5. ASSUME NEW k \in {"set", "totp", "verify", "confirm"}, Present(c, k)
          PROVE  \E p, q, t : TakeWith(c, p, q, t) /\ Comes(p, q, t)
      <3>1. TakeWith(c, "loading", k, tokens[Presented(k)])
        BY <2>5 DEF Present
      <3>2. Comes("loading", k, tokens[Presented(k)])
        BY <2>5 DEF Present, Comes
      <3> QED
        BY <3>1, <3>2
    <2> QED
      BY <2>1, <2>2, <2>3, <2>4, <2>5 DEF Starts
  <1>2. /\ p \in {"creating", "signing", "loaded", "loading"}
        /\ k \in {"invite", "login", "forgot", "toggle", "set", "confirm", "totp", "verify"}
        /\ t \in Nat
    <2>1. ASSUME k \in {"set", "confirm", "totp", "verify"} PROVE tokens[Presented(k)] \in Nat
      BY <2>1, AdminAssumption DEF Presented, AdminTypeOK, TokenTypes
    <2> QED
      BY <1>1, <2>1 DEF Comes
  <1> DEFINE x == [pc |-> p, kind |-> k, own |-> calls + 1, token |-> t,
                   mine |-> admin, base |-> admin]
  <1>3. /\ x \in Jobs /\ x # Off /\ x.pc = p /\ x.kind = k /\ x.token = t
        /\ x.own = calls + 1 /\ x.mine = admin
    <2>1. calls + 1 \in Nat /\ admin \in AdminRow
      BY AdminAssumption DEF AdminTypeOK
    <2>2. x \in Jobs
      BY <1>2, <2>1 DEF Jobs
    <2>3. x # Off
      BY <1>2 DEF Off
    <2> QED
      BY <2>2, <2>3
  <1>4. job' = [job EXCEPT ![c] = x] /\ job[c] = Off
    BY <1>1 DEF TakeWith
  <1>5. calls' = calls + 1 /\ calls' \in 0..MaxCalls
    BY <1>1, AdminAssumption DEF TakeWith, AdminTypeOK
  <1>6. overlap' = (overlap \/ \E d \in Sessions \ {c} : job[d] # Off)
    BY <1>1 DEF TakeWith
  <1>7. overlap' \in BOOLEAN
    BY <1>6, Zenon DEF AdminTypeOK
  <1>8. ~overlap' => ~overlap /\ \A d \in Sessions : job[d] = Off
    BY <1>4, <1>6
  <1> HIDE DEF x
  <1>9. JobOnly(c) /\ job'[c] = x
    BY <1>3, <1>4 DEF JobOnly, AdminTypeOK
  <1> QED
    BY <1>0, <1>1, <1>3, <1>4, <1>5, <1>7, <1>8, <1>9

\* What loading the admin makes of a request.
LEMMA LoadAdminShape ==
    ASSUME AdminTypeOK, NEW c \in Sessions, LoadAdmin(c)
    PROVE  /\ job[c].pc = "loading"
           /\ \/ JobEnds(c)
              \/ /\ JobGoes(c, "loaded") \/ (JobGoes(c, "issuing") /\ job[c].kind = "verify")
                 /\ job'[c].mine = admin
                 /\ Proceeds(job[c].kind)
  <1>1. job[c].pc = "loading" /\ job[c] # Off /\ job[c] \in Jobs
    BY JobTyped DEF LoadAdmin
  <1>2. CASE ~Proceeds(job[c].kind)
    BY <1>1, <1>2, JobMoves DEF LoadAdmin
  <1>3. CASE Proceeds(job[c].kind)
    <2> DEFINE p == IF job[c].kind = "verify" /\ admin.twoFa THEN "issuing" ELSE "loaded"
               x == [job[c] EXCEPT !.pc = p, !.mine = admin]
    <2>1. p = "loaded" \/ (p = "issuing" /\ job[c].kind = "verify")
      OBVIOUS
    <2>2. job' = [job EXCEPT ![c] = x]
      BY <1>3 DEF LoadAdmin
    <2> HIDE DEF p
    <2>3. /\ x \in Jobs /\ x.pc = p /\ x.kind = job[c].kind /\ x.own = job[c].own
          /\ x.token = job[c].token /\ x.mine = admin
      BY <1>1, <2>1 DEF Jobs, AdminTypeOK
    <2> HIDE DEF x
    <2>4. job'[c] = x /\ JobOnly(c)
      BY <2>2, <2>3 DEF JobOnly, AdminTypeOK
    <2>5. x # Off
      BY <2>1, <2>3 DEF Off
    <2>6. JobGoes(c, p)
      BY <1>1, <2>3, <2>4, <2>5 DEF JobGoes
    <2> QED
      BY <1>1, <1>3, <2>1, <2>3, <2>4, <2>6
  <1> QED
    BY <1>2, <1>3

\* What the SELECT of the save makes of a request.
LEMMA SelectAdminShape ==
    ASSUME AdminTypeOK, NEW c \in Sessions, SelectAdmin(c)
    PROVE  /\ job[c].pc = "loaded" /\ JobGoes(c, "selected")
           /\ job'[c].mine = job[c].mine /\ job'[c].base = admin
  <1>1. job[c].pc = "loaded" /\ job[c] # Off /\ job[c] \in Jobs
    BY JobTyped DEF SelectAdmin
  <1> DEFINE x == [job[c] EXCEPT !.pc = "selected", !.base = admin]
  <1>2. job' = [job EXCEPT ![c] = x]
    BY DEF SelectAdmin
  <1>3. /\ x \in Jobs /\ x.pc = "selected" /\ x.kind = job[c].kind /\ x.own = job[c].own
        /\ x.token = job[c].token /\ x.mine = job[c].mine /\ x.base = admin
    BY <1>1 DEF Jobs, AdminTypeOK
  <1> HIDE DEF x
  <1>4. job'[c] = x /\ JobOnly(c)
    BY <1>2, <1>3 DEF JobOnly, AdminTypeOK
  <1>5. x # Off
    BY <1>3 DEF Off
  <1> QED
    BY <1>1, <1>3, <1>4, <1>5 DEF JobGoes

\* Which step of a request follows which.
LEMMA JobShape ==
    ASSUME AdminTypeOK, NEW c \in Sessions
    PROVE  /\ CreateAdmin(c) =>
                /\ job[c].pc = "creating"
                /\ JobEnds(c) \/ (JobGoes(c, "signing") /\ job'[c].mine = job[c].mine)
           /\ SaveAdmin(c) =>
                /\ job[c].pc = "selected"
                /\ \/ JobEnds(c) /\ job[c].kind \in {"totp", "toggle"}
                   \/ /\ JobGoes(c, "issuing") /\ job'[c].mine = job[c].mine
                      /\ job[c].kind = "verify"
                   \/ /\ JobGoes(c, "dropping") /\ job'[c].mine = job[c].mine
                      /\ job[c].kind \notin {"totp", "toggle", "verify"}
           /\ Issue(c) => /\ job[c].pc = "issuing" /\ JobGoes(c, "dropping")
                          /\ job'[c].mine = job[c].mine
           /\ DropToken(c) =>
                /\ job[c].pc = "dropping"
                /\ \/ JobEnds(c) /\ job[c].kind # "set"
                   \/ JobGoes(c, "signing") /\ job'[c].mine = job[c].mine /\ job[c].kind = "set"
           /\ SetToken(c) => job[c].pc = "signing" /\ JobEnds(c)
  <1>0. job[c].pc # "off" => job[c] # Off
    BY JobTyped
  <1>1. ASSUME CreateAdmin(c)
        PROVE  /\ job[c].pc = "creating"
               /\ JobEnds(c) \/ (JobGoes(c, "signing") /\ job'[c].mine = job[c].mine)
    <2>1. job[c].pc = "creating" /\ (End(c) \/ GoOn(c, "signing"))
      BY <1>1 DEF CreateAdmin
    <2> QED
      BY <1>0, <2>1, JobMoves
  <1>2. ASSUME SaveAdmin(c)
        PROVE  /\ job[c].pc = "selected"
               /\ \/ JobEnds(c) /\ job[c].kind \in {"totp", "toggle"}
                  \/ /\ JobGoes(c, "issuing") /\ job'[c].mine = job[c].mine
                     /\ job[c].kind = "verify"
                  \/ /\ JobGoes(c, "dropping") /\ job'[c].mine = job[c].mine
                     /\ job[c].kind \notin {"totp", "toggle", "verify"}
    <2>1. /\ job[c].pc = "selected"
          /\ \/ End(c) /\ job[c].kind \in {"totp", "toggle"}
             \/ GoOn(c, "issuing") /\ job[c].kind = "verify"
             \/ GoOn(c, "dropping") /\ job[c].kind \notin {"totp", "toggle", "verify"}
      BY <1>2 DEF SaveAdmin
    <2> QED
      BY <1>0, <2>1, JobMoves
  <1>3. ASSUME Issue(c)
        PROVE  /\ job[c].pc = "issuing" /\ JobGoes(c, "dropping")
               /\ job'[c].mine = job[c].mine
    <2>1. job[c].pc = "issuing" /\ GoOn(c, "dropping")
      BY <1>3 DEF Issue
    <2> QED
      BY <1>0, <2>1, JobMoves
  <1>4. ASSUME DropToken(c)
        PROVE  /\ job[c].pc = "dropping"
               /\ \/ JobEnds(c) /\ job[c].kind # "set"
                  \/ JobGoes(c, "signing") /\ job'[c].mine = job[c].mine /\ job[c].kind = "set"
    <2>1. /\ job[c].pc = "dropping"
          /\ \/ End(c) /\ job[c].kind # "set"
             \/ GoOn(c, "signing") /\ job[c].kind = "set"
      BY <1>4 DEF DropToken
    <2> QED
      BY <1>0, <2>1, JobMoves
  <1>5. ASSUME SetToken(c) PROVE job[c].pc = "signing" /\ JobEnds(c)
    <2>1. job[c].pc = "signing" /\ End(c)
      BY <1>5 DEF SetToken
    <2> QED
      BY <1>0, <2>1, JobMoves
  <1> QED
    BY <1>1, <1>2, <1>3, <1>4, <1>5

\* The row that a request saves is a row.
LEMMA AdminRowOf ==
    ASSUME NEW m \in AdminRow, NEW old \in AdminRow, NEW base,
           NEW w, w = [a \in AdminColumns |-> IF m[a] # base[a] THEN m[a] ELSE old[a]]
    PROVE  w \in AdminRow
  <1>1. w = [active |-> w.active, confirmed |-> w.confirmed, twoFa |-> w.twoFa,
             key |-> w.key, password |-> w.password]
    BY DEF AdminColumns
  <1>2. /\ w.active \in {m.active, old.active} /\ w.confirmed \in {m.confirmed, old.confirmed}
        /\ w.twoFa \in {m.twoFa, old.twoFa} /\ w.key \in {m.key, old.key}
        /\ w.password \in {m.password, old.password}
    BY DEF AdminColumns
  <1> QED
    BY <1>1, <1>2 DEF AdminRow

\* What is saved, column by column.
LEMMA ChangedRow ==
    ASSUME AdminTypeOK, NEW c \in Sessions, job[c] # Off,
           job[c].kind \in {"set", "totp", "verify", "confirm", "toggle"}
    PROVE  LET j == job[c]
               new == Changed(j)
           IN  /\ new \in AdminRow
               /\ new.active = (j.kind = "set" \/ j.mine.active)
               /\ new.confirmed = (j.kind = "set" \/ j.mine.confirmed)
               /\ new.twoFa = IF j.kind = "totp" THEN FALSE
                              ELSE IF j.kind \in {"verify", "toggle"} THEN ~j.mine.twoFa
                              ELSE j.mine.twoFa
               /\ new.key = IF j.kind = "totp" THEN j.own ELSE j.mine.key
               /\ new.password = IF j.kind \in {"set", "confirm"} THEN j.own ELSE j.mine.password
  <1> DEFINE j == job[c]
             m == job[c].mine
  <1>1. j \in Jobs /\ m \in AdminRow /\ j.own \in Nat
    BY JobTyped
  <1>2. CASE j.kind = "set"
    <2>1. Changed(j) = [m EXCEPT !.password = j.own, !.active = TRUE, !.confirmed = TRUE]
      BY <1>2 DEF Changed
    <2> HIDE DEF m
    <2> QED
      BY <1>1, <1>2, <2>1 DEF AdminRow, m
  <1>3. CASE j.kind = "totp"
    <2>1. Changed(j) = [m EXCEPT !.key = j.own, !.twoFa = FALSE]
      BY <1>3 DEF Changed
    <2> QED
      BY <1>1, <1>3, <2>1 DEF AdminRow
  <1>4. CASE j.kind = "confirm"
    <2>1. Changed(j) = [m EXCEPT !.password = j.own]
      BY <1>4 DEF Changed
    <2> QED
      BY <1>1, <1>4, <2>1 DEF AdminRow
  <1>5. CASE j.kind \in {"verify", "toggle"}
    <2>1. Changed(j) = [m EXCEPT !.twoFa = ~@]
      BY <1>5 DEF Changed
    <2> QED
      BY <1>1, <1>5, <2>1 DEF AdminRow
  <1> QED
    BY <1>2, <1>3, <1>4, <1>5

\* Every call of the database and of the cache keeps the types.
LEMMA AdminStepTyped ==
    ASSUME AdminTypeOK, JobsFit, [AdminNext]_adminVars
    PROVE  AdminTypeOK'
  <1>0. ASSUME NEW c \in Sessions, job[c] # Off
        PROVE  job[c].own \in 0..MaxCalls /\ job[c].token \in 0..MaxCalls
    BY <1>0, AdminAssumption DEF JobsFit, JobFits, AdminTypeOK
  <1>1. ASSUME NEW c \in Sessions, Starts(c) PROVE AdminTypeOK'
    BY <1>1, StartsShape DEF JobOnly, AdminTypeOK
  <1>2. ASSUME NEW c \in Sessions, CreateAdmin(c) PROVE AdminTypeOK'
    <2>1. job' \in [Sessions -> Jobs \cup {Off}]
      BY <1>2, JobShape DEF JobEnds, JobGoes, JobOnly
    <2> QED
      BY <1>2, <2>1 DEF CreateAdmin, Quiet, AdminTypeOK
  <1>3. ASSUME NEW c \in Sessions, LoadAdmin(c) \/ SelectAdmin(c) PROVE AdminTypeOK'
    <2>1. job' \in [Sessions -> Jobs \cup {Off}]
      BY <1>3, LoadAdminShape, SelectAdminShape DEF JobEnds, JobGoes, JobOnly
    <2>2. UNCHANGED <<exists, admin, tokens, logins, uses2, accepted, overlap, calls>>
      BY <1>3 DEF LoadAdmin, SelectAdmin, Quiet
    <2> QED
      BY <2>1, <2>2 DEF AdminTypeOK
  <1>4. ASSUME NEW c \in Sessions, SaveAdmin(c) PROVE AdminTypeOK'
    <2>1. /\ job' \in [Sessions -> Jobs \cup {Off}] /\ job[c] # Off
          /\ job[c].kind \in {"set", "totp", "verify", "confirm", "toggle"}
      BY <1>4, JobShape DEF JobEnds, JobGoes, JobOnly, JobsFit, JobFits
    <2>2. admin' = [a \in AdminColumns |->
                     IF Changed(job[c])[a] # job[c].base[a] THEN Changed(job[c])[a] ELSE admin[a]]
      BY <1>4 DEF SaveAdmin
    <2>3. admin' \in AdminRow
      <3> DEFINE new == Changed(job[c])
      <3>1. new \in AdminRow /\ admin \in AdminRow
        BY <2>1, ChangedRow DEF AdminTypeOK
      <3>2. admin' = [a \in AdminColumns |->
                        IF new[a] # job[c].base[a] THEN new[a] ELSE admin[a]]
        BY <2>2
      <3> HIDE DEF new
      <3> QED
        BY <3>1, <3>2, AdminRowOf
    <2>4. accepted' \in BOOLEAN
      BY <1>4, Zenon DEF SaveAdmin, AdminTypeOK
    <2>5. UNCHANGED <<exists, tokens, logins, uses2, overlap, calls>>
      BY <1>4 DEF SaveAdmin, Quiet
    <2> QED
      BY <2>1, <2>3, <2>4, <2>5 DEF AdminTypeOK
  <1>5. ASSUME NEW c \in Sessions, Issue(c) PROVE AdminTypeOK'
    <2>1. job' \in [Sessions -> Jobs \cup {Off}] /\ job[c].token \in 0..MaxCalls
      BY <1>0, <1>5, JobShape DEF JobGoes, JobOnly
    <2>2. uses2' \in [0..MaxCalls -> Nat]
      BY <1>5, <2>1 DEF Issue, AdminTypeOK
    <2> QED
      BY <1>5, <2>1, <2>2 DEF Issue, Quiet, AdminTypeOK
  <1>6. ASSUME NEW c \in Sessions, DropToken(c) PROVE AdminTypeOK'
    <2>1. job' \in [Sessions -> Jobs \cup {Off}]
      BY <1>6, JobShape DEF JobEnds, JobGoes, JobOnly
    <2>2. tokens' \in [TokenTypes -> 0..MaxCalls]
      <3>1. 0 \in 0..MaxCalls /\ tokens \in [TokenTypes -> 0..MaxCalls]
        BY AdminAssumption DEF AdminTypeOK
      <3>2. tokens' = [tokens EXCEPT ![Presented(job[c].kind)] = 0]
        BY <1>6 DEF DropToken
      <3> QED
        BY <3>1, <3>2
    <2> QED
      BY <1>6, <2>1, <2>2 DEF DropToken, Quiet, AdminTypeOK
  <1>7. ASSUME NEW c \in Sessions, SetToken(c) PROVE AdminTypeOK'
    <2>1. job' \in [Sessions -> Jobs \cup {Off}] /\ job[c].own \in 0..MaxCalls
      BY <1>0, <1>7, JobShape DEF JobEnds, JobOnly
    <2>2. tokens' \in [TokenTypes -> 0..MaxCalls]
      BY <1>7, <2>1 DEF SetToken, AdminTypeOK
    <2> QED
      BY <1>7, <2>1, <2>2 DEF SetToken, Quiet, AdminTypeOK
  <1>8. ASSUME NEW t \in TokenTypes, ExpireToken(t) PROVE AdminTypeOK'
    <2>1. tokens' \in [TokenTypes -> 0..MaxCalls]
      BY <1>8, AdminAssumption DEF ExpireToken, AdminTypeOK
    <2> QED
      BY <1>8, <2>1 DEF ExpireToken, Quiet, AdminTypeOK
  <1>9. ASSUME UNCHANGED adminVars PROVE AdminTypeOK'
    BY <1>9 DEF adminVars, AdminTypeOK
  <1> QED
    BY <1>1, <1>2, <1>3, <1>4, <1>5, <1>6, <1>7, <1>8, <1>9 DEF AdminNext

\* Every call keeps requests at steps of their own kind.
LEMMA JobsFitStep ==
    ASSUME AdminTypeOK, AdminTypeOK', JobsFit, [AdminNext]_adminVars
    PROVE  JobsFit'
  <1>0. calls \in Nat /\ MaxCalls \in Nat
    BY AdminAssumption DEF AdminTypeOK
  <1>a. ASSUME NEW c \in Sessions, JobOnly(c), calls' = calls, job'[c] = Off \/ JobFits(job'[c]),
               \A t \in TokenTypes : tokens'[t] <= calls
        PROVE  JobsFit'
    BY <1>a DEF JobsFit, JobFits, JobOnly
  <1>1. ASSUME NEW c \in Sessions, Starts(c) PROVE JobsFit'
    <2>1. /\ JobOnly(c) /\ Comes(job'[c].pc, job'[c].kind, job'[c].token)
          /\ job'[c].own = calls + 1 /\ calls' = calls + 1 /\ tokens' = tokens
      BY <1>1, StartsShape
    <2>2. job'[c].token \in 0..calls
      <3>1. \A k \in {"set", "confirm", "totp", "verify"} : tokens[Presented(k)] \in 0..calls
        BY DEF JobsFit, Presented, TokenTypes, AdminTypeOK
      <3> QED
        BY <1>0, <2>1, <3>1 DEF Comes
    <2>3. JobFits(job[c])'
      BY <1>0, <2>1, <2>2 DEF JobFits, Comes
    <2>4. ASSUME NEW d \in Sessions, job'[d] # Off PROVE JobFits(job[d])'
      <3>1. CASE d = c
        BY <2>3, <3>1
      <3>2. CASE d # c
        <4>1. job'[d] = job[d]
          BY <2>1, <3>2 DEF JobOnly
        <4>2. JobFits(job[d])
          BY <2>4, <4>1 DEF JobsFit
        <4> QED
          BY <1>0, <2>1, <4>1, <4>2 DEF JobFits
      <3> QED
        BY <3>1, <3>2
    <2>5. ASSUME NEW t \in TokenTypes PROVE tokens'[t] <= calls'
      <3>1. tokens[t] \in 0..MaxCalls /\ tokens[t] <= calls
        BY DEF JobsFit, AdminTypeOK
      <3> QED
        BY <1>0, <2>1, <3>1
    <2> QED
      BY <2>4, <2>5 DEF JobsFit
  <1>2. ASSUME NEW c \in Sessions, CreateAdmin(c) \/ LoadAdmin(c) \/ SelectAdmin(c) \/ SaveAdmin(c)
                                   \/ Issue(c)
        PROVE  JobsFit'
    <2>1. UNCHANGED <<tokens, calls>>
      BY <1>2 DEF CreateAdmin, LoadAdmin, SelectAdmin, SaveAdmin, Issue, Quiet
    <2>2. JobOnly(c) /\ (job'[c] = Off \/ JobFits(job'[c]))
      <3>1. CASE CreateAdmin(c)
        BY <3>1, JobShape DEF JobsFit, JobFits, JobEnds, JobGoes
      <3>2. CASE LoadAdmin(c)
        BY <3>2, LoadAdminShape DEF JobsFit, JobFits, JobEnds, JobGoes
      <3>3. CASE SelectAdmin(c)
        BY <3>3, SelectAdminShape DEF JobsFit, JobFits, JobEnds, JobGoes
      <3>4. CASE SaveAdmin(c)
        BY <3>4, JobShape DEF JobsFit, JobFits, JobEnds, JobGoes
      <3>5. CASE Issue(c)
        BY <3>5, JobShape DEF JobsFit, JobFits, JobEnds, JobGoes
      <3> QED
        BY <1>2, <3>1, <3>2, <3>3, <3>4, <3>5
    <2> QED
      BY <1>a, <2>1, <2>2 DEF JobsFit
  <1>3. ASSUME NEW c \in Sessions, DropToken(c) PROVE JobsFit'
    <2>1. /\ calls' = calls
          /\ tokens' = [tokens EXCEPT ![Presented(job[c].kind)] = 0]
      BY <1>3 DEF DropToken, Quiet
    <2>2. JobOnly(c) /\ (job'[c] = Off \/ JobFits(job'[c]))
      BY <1>3, JobShape DEF JobsFit, JobFits, JobEnds, JobGoes
    <2>3. \A t \in TokenTypes : tokens'[t] <= calls
      BY <1>0, <2>1 DEF JobsFit, AdminTypeOK
    <2> QED
      BY <1>a, <2>1, <2>2, <2>3
  <1>4. ASSUME NEW c \in Sessions, SetToken(c) PROVE JobsFit'
    <2>1. /\ calls' = calls
          /\ tokens' = [tokens EXCEPT ![Signed(job[c].kind)] = job[c].own]
      BY <1>4 DEF SetToken, Quiet
    <2>2. JobOnly(c) /\ job'[c] = Off /\ job[c] # Off
      BY <1>4, JobShape DEF JobEnds
    <2>3. \A t \in TokenTypes : tokens'[t] <= calls
      BY <1>0, <2>1, <2>2 DEF JobsFit, JobFits, AdminTypeOK
    <2> QED
      BY <1>a, <2>1, <2>2, <2>3
  <1>5. ASSUME NEW t \in TokenTypes, ExpireToken(t) PROVE JobsFit'
    <2>1. UNCHANGED <<job, calls>> /\ tokens' = [tokens EXCEPT ![t] = 0]
      BY <1>5 DEF ExpireToken, Quiet
    <2>2. \A s \in TokenTypes : tokens'[s] <= calls
      BY <1>0, <2>1 DEF JobsFit, AdminTypeOK
    <2> QED
      BY <2>1, <2>2 DEF JobsFit, JobFits
  <1>6. ASSUME UNCHANGED adminVars PROVE JobsFit'
    BY <1>6 DEF adminVars, JobsFit, JobFits
  <1> QED
    BY <1>1, <1>2, <1>3, <1>4, <1>5, <1>6 DEF AdminNext

\* Every call keeps those out who have not accepted the invitation.
LEMMA LoginWaitsStep ==
    ASSUME AdminTypeOK, JobsFit, LoginWaits, [AdminNext]_adminVars
    PROVE  LoginWaits'
  <1> SUFFICES ASSUME ~accepted' PROVE LoginWaits'
    BY DEF LoginWaits
  <1>0. /\ ~accepted /\ logins = 0 /\ ~admin.active /\ tokens["second"] = 0
        /\ \A c \in Sessions : job[c] # Off => Early(job[c])
    <2>1. accepted => accepted'
      <3>1. ASSUME NEW c \in Sessions, SaveAdmin(c), accepted PROVE accepted'
        BY <3>1 DEF SaveAdmin
      <3>2. ASSUME NEW c \in Sessions, Starts(c) PROVE accepted' = accepted
        BY <3>2 DEF Starts
      <3> QED
        BY <3>1, <3>2 DEF AdminNext, CreateAdmin, LoadAdmin, SelectAdmin, Issue, DropToken,
           SetToken, ExpireToken, adminVars
    <2> QED
      BY <2>1 DEF LoginWaits
  <1>a. ASSUME NEW c \in Sessions, JobOnly(c), job'[c] = Off \/ Early(job'[c]), logins' = 0,
               ~admin'.active, tokens'["second"] = 0
        PROVE  LoginWaits'
    BY <1>0, <1>a DEF LoginWaits, JobOnly, Early
  <1>1. ASSUME NEW c \in Sessions, Starts(c) PROVE LoginWaits'
    <2>1. /\ JobOnly(c) /\ Comes(job'[c].pc, job'[c].kind, job'[c].token)
          /\ job'[c].mine = admin /\ UNCHANGED <<logins, admin, tokens>>
      BY <1>1, StartsShape
    <2>2. Early(job'[c])
      BY <1>0, <2>1 DEF Early, Comes, Presented
    <2> QED
      BY <1>0, <1>a, <2>1, <2>2
  <1>2. ASSUME NEW c \in Sessions, CreateAdmin(c) PROVE LoginWaits'
    <2>1. JobOnly(c) /\ (job'[c] = Off \/ Early(job'[c]))
      BY <1>0, <1>2, JobShape DEF JobsFit, JobFits, JobEnds, JobGoes, Early
    <2> QED
      BY <1>0, <1>2, <1>a, <2>1 DEF CreateAdmin
  <1>3. ASSUME NEW c \in Sessions, LoadAdmin(c) PROVE LoginWaits'
    <2>1. JobOnly(c) /\ (job'[c] = Off \/ Early(job'[c]))
      BY <1>0, <1>3, LoadAdminShape DEF JobEnds, JobGoes, Early
    <2> QED
      BY <1>0, <1>3, <1>a, <2>1 DEF LoadAdmin
  <1>4. ASSUME NEW c \in Sessions, SelectAdmin(c) PROVE LoginWaits'
    <2>1. JobOnly(c) /\ (job'[c] = Off \/ Early(job'[c]))
      BY <1>0, <1>4, SelectAdminShape DEF JobGoes, Early
    <2> QED
      BY <1>0, <1>4, <1>a, <2>1 DEF SelectAdmin
  <1>5. ASSUME NEW c \in Sessions, SaveAdmin(c) PROVE LoginWaits'
    <2>1. job[c].kind # "set"
      BY <1>5 DEF SaveAdmin
    <2>2. job[c] # Off /\ JobOnly(c) /\ (job'[c] = Off \/ Early(job'[c]))
      BY <1>0, <1>5, <2>1, JobShape DEF JobEnds, JobGoes, Early
    <2>3. UNCHANGED <<logins, tokens>>
      BY <1>5 DEF SaveAdmin
    <2>4. ~admin'.active
      <3>1. admin'.active = IF Changed(job[c]).active # job[c].base.active THEN Changed(job[c]).active
                            ELSE admin.active
        BY <1>5 DEF SaveAdmin, AdminColumns
      <3>2. Changed(job[c]).active = (job[c].kind = "set" \/ job[c].mine.active)
        BY <1>5, <2>2, JobShape, ChangedRow DEF JobsFit, JobFits
      <3> QED
        BY <1>0, <2>1, <2>2, <3>1, <3>2 DEF Early
    <2> QED
      BY <1>0, <1>a, <2>2, <2>3, <2>4
  <1>6. ASSUME NEW c \in Sessions, Issue(c) PROVE FALSE
    <2>1. job[c].pc = "issuing" /\ job[c] # Off
      BY <1>6, JobShape DEF JobGoes
    <2> QED
      BY <1>0, <2>1 DEF JobsFit, JobFits, Early
  <1>7. ASSUME NEW c \in Sessions, DropToken(c) PROVE LoginWaits'
    <2>1. job[c].pc = "dropping" /\ job[c] # Off
      BY <1>7, JobShape DEF JobGoes, JobEnds
    <2>2. job[c].kind = "confirm"
      BY <1>0, <2>1 DEF JobsFit, JobFits, Early
    <2>3. JobEnds(c)
      BY <1>7, <2>2, JobShape
    <2>4. tokens'["second"] = 0 /\ UNCHANGED <<logins, admin>>
      BY <1>0, <1>7, <2>2 DEF DropToken, Presented, AdminTypeOK, TokenTypes
    <2> QED
      BY <1>0, <1>a, <2>3, <2>4 DEF JobEnds
  <1>8. ASSUME NEW c \in Sessions, SetToken(c) PROVE LoginWaits'
    <2>1. job[c].pc = "signing" /\ JobEnds(c)
      BY <1>8, JobShape
    <2>2. job[c].kind \in {"invite", "forgot"}
      BY <1>0, <2>1 DEF JobsFit, JobFits, Early, JobEnds
    <2>3. tokens'["second"] = 0 /\ UNCHANGED <<logins, admin>>
      BY <1>0, <1>8, <2>2 DEF SetToken, Signed, AdminTypeOK, TokenTypes
    <2> QED
      BY <1>0, <1>a, <2>1, <2>3 DEF JobEnds
  <1>9. ASSUME NEW t \in TokenTypes, ExpireToken(t) PROVE LoginWaits'
    <2>1. tokens'["second"] = 0 /\ UNCHANGED <<job, logins, admin>>
      BY <1>0, <1>9 DEF ExpireToken, AdminTypeOK, TokenTypes
    <2> QED
      BY <1>0, <2>1 DEF LoginWaits, Early
  <1>10. ASSUME UNCHANGED adminVars PROVE LoginWaits'
    BY <1>0, <1>10 DEF adminVars, LoginWaits, Early
  <1> QED
    BY <1>1, <1>2, <1>3, <1>4, <1>5, <1>6, <1>7, <1>8, <1>9, <1>10 DEF AdminNext

\* Every call keeps a token that is being issued a new one.
LEMMA OwnIsNewStep ==
    ASSUME AdminTypeOK, AdminTypeOK', JobsFit, OwnIsNew, [AdminNext]_adminVars
    PROVE  OwnIsNew'
  <1>0. /\ calls \in Nat /\ MaxCalls \in Nat /\ calls <= MaxCalls
        /\ \A t \in TokenTypes : tokens[t] \in Nat /\ tokens[t] <= calls
        /\ \A c \in Sessions : job[c] # Off => job[c].own \in 1..calls /\ job[c].token \in 0..calls
    BY AdminAssumption DEF AdminTypeOK, JobsFit, JobFits
  <1>a. ASSUME NEW c \in Sessions, JobOnly(c), UNCHANGED <<calls, uses2>>,
               \/ job'[c] = Off
               \/ job[c] # Off /\ job'[c].own = job[c].own /\ job'[c].token = job[c].token,
               \A t \in TokenTypes : tokens'[t] \in {tokens[t], 0}
        PROVE  OwnIsNew'
    <2>1. ASSUME NEW d \in Sessions, job'[d] # Off
          PROVE  job[d] # Off /\ job'[d].own = job[d].own /\ job'[d].token = job[d].token
      BY <1>a, <2>1 DEF JobOnly
    <2>2. ASSUME NEW d \in Sessions, job'[d] # Off
          PROVE  /\ uses2'[job'[d].own] = 0
                 /\ \A t \in TokenTypes : tokens'[t] # job'[d].own
                 /\ \A e \in Sessions : job'[e] # Off =>
                        /\ job'[e].token # job'[d].own
                        /\ e # d => job'[e].own # job'[d].own
      BY <1>0, <1>a, <2>1, <2>2 DEF OwnIsNew
    <2> QED
      BY <1>a, <2>2 DEF OwnIsNew
  <1>1. ASSUME NEW c \in Sessions, Starts(c) PROVE OwnIsNew'
    <2>1. /\ JobOnly(c) /\ job[c] = Off /\ Comes(job'[c].pc, job'[c].kind, job'[c].token)
          /\ job'[c].own = calls + 1 /\ calls' = calls + 1 /\ calls' \in 0..MaxCalls
          /\ UNCHANGED <<tokens, uses2>>
      BY <1>1, StartsShape
    <2>2. /\ job'[c].token = 0 \/ \E t \in TokenTypes : job'[c].token = tokens[t]
          /\ job'[c].token \in 0..calls
      <3>1. \A k \in {"set", "confirm", "totp", "verify"} : Presented(k) \in TokenTypes
        BY DEF Presented, TokenTypes
      <3> QED
        BY <1>0, <2>1, <3>1 DEF Comes
    <2>3. ASSUME NEW d \in Sessions \ {c}, job'[d] # Off
          PROVE  job'[d] = job[d] /\ job[d].own \in 1..calls /\ job[d].token \in 0..calls
      BY <1>0, <2>1, <2>3 DEF JobOnly
    <2>4. /\ uses2'[job'[c].own] = 0
          /\ \A t \in TokenTypes : tokens'[t] # job'[c].own
          /\ \A e \in Sessions : job'[e] # Off =>
                /\ job'[e].token # job'[c].own
                /\ e # c => job'[e].own # job'[c].own
      <3>1. uses2[calls + 1] = 0
        BY <1>0, <2>1 DEF OwnIsNew
      <3>2. \A t \in TokenTypes : tokens[t] # calls + 1
        BY <1>0
      <3>3. ASSUME NEW e \in Sessions, job'[e] # Off
            PROVE  job'[e].token # calls + 1 /\ (e # c => job'[e].own # calls + 1)
        BY <1>0, <2>2, <2>3, <3>3
      <3> QED
        BY <2>1, <3>1, <3>2, <3>3
    <2>5. ASSUME NEW d \in Sessions \ {c}, job'[d] # Off
          PROVE  /\ uses2'[job'[d].own] = 0
                 /\ \A t \in TokenTypes : tokens'[t] # job'[d].own
                 /\ \A e \in Sessions : job'[e] # Off =>
                        /\ job'[e].token # job'[d].own
                        /\ e # d => job'[e].own # job'[d].own
      <3>1. /\ uses2[job[d].own] = 0 /\ \A t \in TokenTypes : tokens[t] # job[d].own
            /\ \A e \in Sessions : job[e] # Off =>
                /\ job[e].token # job[d].own
                /\ e # d => job[e].own # job[d].own
        BY <2>3, <2>5 DEF OwnIsNew
      <3>2. job'[c].token # job[d].own /\ job'[c].own # job[d].own
        BY <1>0, <2>1, <2>2, <2>3, <2>5, <3>1
      <3>3. ASSUME NEW e \in Sessions, job'[e] # Off
            PROVE  job'[e].token # job'[d].own /\ (e # d => job'[e].own # job'[d].own)
        BY <2>3, <2>5, <3>1, <3>2, <3>3
      <3> QED
        BY <2>1, <2>3, <2>5, <3>1, <3>3
    <2>6. \A n \in 0..MaxCalls : n > calls' => uses2'[n] = 0
      BY <1>0, <2>1 DEF OwnIsNew
    <2> QED
      BY <2>4, <2>5, <2>6 DEF OwnIsNew
  <1>2. ASSUME NEW c \in Sessions, CreateAdmin(c) \/ LoadAdmin(c) \/ SelectAdmin(c) \/ SaveAdmin(c)
        PROVE  OwnIsNew'
    <2>1. UNCHANGED <<tokens, calls, uses2>>
      BY <1>2 DEF CreateAdmin, LoadAdmin, SelectAdmin, SaveAdmin, Quiet
    <2>2. JobEnds(c) \/ \E p : JobGoes(c, p)
      BY <1>2, JobShape, LoadAdminShape, SelectAdminShape
    <2>3. /\ JobOnly(c)
          /\ \/ job'[c] = Off
             \/ job[c] # Off /\ job'[c].own = job[c].own /\ job'[c].token = job[c].token
      BY <2>2 DEF JobEnds, JobGoes
    <2> QED
      BY <1>a, <2>1, <2>3
  <1>3. ASSUME NEW c \in Sessions, Issue(c) PROVE OwnIsNew'
    <2>1. /\ JobGoes(c, "dropping") /\ UNCHANGED <<tokens, calls>>
          /\ uses2' = [uses2 EXCEPT ![job[c].token] = @ + 1]
      BY <1>3, JobShape DEF Issue, Quiet
    <2>2. /\ job[c] # Off /\ job[c].token \in 0..calls
          /\ \A d \in Sessions : job[d] # Off => job[d].own # job[c].token
      BY <1>0, <2>1 DEF JobGoes, OwnIsNew
    <2>3. \A n \in 0..MaxCalls : n # job[c].token => uses2'[n] = uses2[n]
      BY <2>1 DEF AdminTypeOK
    <2>4. ASSUME NEW d \in Sessions, job'[d] # Off
          PROVE  job[d] # Off /\ job'[d].own = job[d].own /\ job'[d].token = job[d].token
      BY <2>1, <2>4 DEF JobGoes, JobOnly
    <2>5. ASSUME NEW d \in Sessions, job'[d] # Off
          PROVE  /\ uses2'[job'[d].own] = 0
                 /\ \A t \in TokenTypes : tokens'[t] # job'[d].own
                 /\ \A e \in Sessions : job'[e] # Off =>
                        /\ job'[e].token # job'[d].own
                        /\ e # d => job'[e].own # job'[d].own
      <3>1. job[d].own \in 0..MaxCalls
        BY <1>0, <2>4, <2>5
      <3>2. uses2'[job'[d].own] = 0
        BY <2>2, <2>3, <2>4, <2>5, <3>1 DEF OwnIsNew
      <3> QED
        BY <2>1, <2>4, <2>5, <3>2 DEF OwnIsNew
    <2>6. \A n \in 0..MaxCalls : n > calls' => uses2'[n] = 0
      BY <1>0, <2>1, <2>2, <2>3 DEF OwnIsNew
    <2> QED
      BY <2>5, <2>6 DEF OwnIsNew
  <1>4. ASSUME NEW c \in Sessions, DropToken(c) PROVE OwnIsNew'
    <2>1. /\ UNCHANGED <<calls, uses2>>
          /\ tokens' = [tokens EXCEPT ![Presented(job[c].kind)] = 0]
      BY <1>4 DEF DropToken, Quiet
    <2>2. \A t \in TokenTypes : tokens'[t] \in {tokens[t], 0}
      BY <2>1 DEF AdminTypeOK
    <2>3. /\ JobOnly(c)
          /\ \/ job'[c] = Off
             \/ job[c] # Off /\ job'[c].own = job[c].own /\ job'[c].token = job[c].token
      BY <1>4, JobShape DEF JobEnds, JobGoes
    <2> QED
      BY <1>a, <2>1, <2>2, <2>3
  <1>5. ASSUME NEW c \in Sessions, SetToken(c) PROVE OwnIsNew'
    <2>1. /\ UNCHANGED <<calls, uses2>>
          /\ tokens' = [tokens EXCEPT ![Signed(job[c].kind)] = job[c].own]
      BY <1>5 DEF SetToken, Quiet
    <2>2. JobOnly(c) /\ job'[c] = Off /\ job[c] # Off
      BY <1>5, JobShape DEF JobEnds
    <2>3. \A t \in TokenTypes : tokens'[t] \in {tokens[t], job[c].own}
      BY <2>1 DEF AdminTypeOK
    <2>4. ASSUME NEW d \in Sessions, job'[d] # Off
          PROVE  d # c /\ job'[d] = job[d]
      BY <2>2, <2>4 DEF JobOnly
    <2>5. ASSUME NEW d \in Sessions, job'[d] # Off
          PROVE  /\ uses2'[job'[d].own] = 0
                 /\ \A t \in TokenTypes : tokens'[t] # job'[d].own
                 /\ \A e \in Sessions : job'[e] # Off =>
                        /\ job'[e].token # job'[d].own
                        /\ e # d => job'[e].own # job'[d].own
      BY <2>1, <2>2, <2>3, <2>4, <2>5 DEF OwnIsNew
    <2> QED
      BY <2>1, <2>5 DEF OwnIsNew
  <1>6. ASSUME NEW t \in TokenTypes, ExpireToken(t) PROVE OwnIsNew'
    <2>1. /\ UNCHANGED <<job, calls, uses2>>
          /\ \A s \in TokenTypes : tokens'[s] \in {tokens[s], 0}
      BY <1>6 DEF ExpireToken, Quiet, AdminTypeOK
    <2> QED
      BY <1>0, <2>1 DEF OwnIsNew
  <1>7. ASSUME UNCHANGED adminVars PROVE OwnIsNew'
    BY <1>7 DEF adminVars, OwnIsNew
  <1> QED
    BY <1>1, <1>2, <1>3, <1>4, <1>5, <1>6, <1>7 DEF AdminNext

\* Requests at a step are finitely many.
LEMMA SessionsFinite ==
    ASSUME NEW S, S \subseteq Sessions
    PROVE  /\ IsFiniteSet(S) /\ Cardinality(S) \in Nat
           /\ Cardinality(Sessions) \in Nat /\ Cardinality(S) <= Cardinality(Sessions)
  BY AdminAssumption, FS_Subset, FS_CardinalityType

\* Every call keeps the logins of a second-factor token, there and to come, within
\* the requests.
LEMMA SecondsRoomStep ==
    ASSUME AdminTypeOK, AdminTypeOK', JobsFit, OwnIsNew, SecondsRoom, [AdminNext]_adminVars
    PROVE  SecondsRoom'
  <1> SUFFICES ASSUME NEW n \in 1..MaxCalls PROVE SecondRoom(n)'
    BY DEF SecondsRoom
  <1>0. /\ n \in Nat /\ n # 0 /\ n \in 0..MaxCalls /\ uses2[n] \in Nat /\ SecondRoom(n)
        /\ tokens \in [TokenTypes -> 0..MaxCalls]
    BY AdminAssumption DEF SecondsRoom, AdminTypeOK
  <1>s. /\ ToIssue(n) \subseteq Sessions /\ ToDrop(n) \subseteq Sessions
        /\ ToIssue(n)' \subseteq Sessions /\ ToDrop(n)' \subseteq Sessions
    BY DEF ToIssue, ToDrop
  <1>f. /\ IsFiniteSet(ToIssue(n)) /\ Cardinality(ToIssue(n)) \in Nat
        /\ IsFiniteSet(ToDrop(n)) /\ Cardinality(ToDrop(n)) \in Nat
        /\ Cardinality(ToIssue(n)') \in Nat /\ Cardinality(ToDrop(n)') \in Nat
        /\ Cardinality(Sessions) \in Nat
    BY <1>s, SessionsFinite
  <1>a. ASSUME uses2'[n] = uses2[n], ToIssue(n)' \subseteq ToIssue(n), ToDrop(n)' = ToDrop(n),
               tokens'["second"] = n => tokens["second"] = n
        PROVE  SecondRoom(n)'
    <2>1. Cardinality(ToIssue(n)') <= Cardinality(ToIssue(n))
      BY <1>a, <1>f, FS_Subset
    <2>2. uses2[n] + Cardinality(ToIssue(n)') <= Cardinality(Sessions)
      BY <1>0, <1>f, <2>1 DEF SecondRoom
    <2>3. tokens'["second"] = n => uses2[n] <= Cardinality(ToDrop(n)')
      BY <1>0, <1>a DEF SecondRoom
    <2> QED
      BY <1>a, <2>2, <2>3 DEF SecondRoom
  <1>b. ASSUME NEW c \in Sessions, JobOnly(c),
               job[c] = Off \/ job[c].kind # "verify" \/ job[c].token # n,
               job'[c] = Off \/ job'[c].kind # "verify" \/ job'[c].token # n
        PROVE  ToIssue(n)' = ToIssue(n) /\ ToDrop(n)' = ToDrop(n)
    BY <1>b DEF ToIssue, ToDrop, JobOnly
  <1>1. ASSUME NEW c \in Sessions, Starts(c) PROVE SecondRoom(n)'
    <2>1. /\ JobOnly(c) /\ job[c] = Off /\ job'[c] # Off
          /\ Comes(job'[c].pc, job'[c].kind, job'[c].token)
          /\ UNCHANGED <<tokens, uses2>>
      BY <1>1, StartsShape
    <2>2. CASE job'[c].kind # "verify" \/ job'[c].token # n
      BY <1>a, <1>b, <2>1, <2>2
    <2>3. CASE job'[c].kind = "verify" /\ job'[c].token = n
      <3>1. job'[c].pc = "loading" /\ tokens["second"] = n
        BY <2>1, <2>3 DEF Comes, Presented
      <3>2. ToIssue(n)' = ToIssue(n) \cup {c} /\ ToDrop(n)' = ToDrop(n)
        BY <2>1, <2>3, <3>1 DEF ToIssue, ToDrop, JobOnly
      <3>3. uses2[n] <= Cardinality(ToDrop(n))
        BY <1>0, <3>1 DEF SecondRoom
      <3>4. Cardinality(ToIssue(n)') + Cardinality(ToDrop(n)) <= Cardinality(Sessions)
        <4> DEFINE A == ToIssue(n)'
                   B == ToDrop(n)
        <4>1. A \cap B = {} /\ A \cup B \subseteq Sessions
          BY <2>1, <3>2 DEF ToIssue, ToDrop
        <4>2. IsFiniteSet(A) /\ IsFiniteSet(B)
          BY <1>s, SessionsFinite
        <4> HIDE DEF A, B
        <4>3. Cardinality(A \cup B) = Cardinality(A) + Cardinality(B) - Cardinality(A \cap B)
          BY <4>2, FS_Union
        <4>4. Cardinality(A \cap B) = 0
          BY <4>1, FS_EmptySet
        <4>5. Cardinality(A \cup B) <= Cardinality(Sessions)
          BY <4>1, SessionsFinite
        <4>6. Cardinality(A) \in Nat /\ Cardinality(B) \in Nat
          BY <4>2, FS_CardinalityType
        <4>7. Cardinality(A) + Cardinality(B) <= Cardinality(Sessions)
          BY <4>3, <4>4, <4>5, <4>6
        <4> QED
          BY <4>7 DEF A, B
      <3> QED
        BY <1>0, <1>f, <2>1, <3>2, <3>3, <3>4 DEF SecondRoom
    <2> QED
      BY <2>2, <2>3
  <1>2. ASSUME NEW c \in Sessions, CreateAdmin(c) \/ LoadAdmin(c) \/ SelectAdmin(c) \/ SaveAdmin(c)
        PROVE  SecondRoom(n)'
    <2>1. UNCHANGED <<tokens, uses2>>
      BY <1>2 DEF CreateAdmin, LoadAdmin, SelectAdmin, SaveAdmin
    <2>2. /\ JobOnly(c) /\ job[c] # Off /\ job[c].pc # "dropping"
          /\ \/ job'[c] = Off
             \/ /\ job'[c].kind = job[c].kind /\ job'[c].token = job[c].token
                /\ job'[c].pc = "dropping" => job[c].kind # "verify"
      <3>1. CASE CreateAdmin(c)
        BY <3>1, JobShape DEF JobEnds, JobGoes
      <3>2. CASE LoadAdmin(c)
        BY <3>2, LoadAdminShape DEF JobEnds, JobGoes
      <3>3. CASE SelectAdmin(c)
        BY <3>3, SelectAdminShape DEF JobGoes
      <3>4. CASE SaveAdmin(c)
        BY <3>4, JobShape DEF JobEnds, JobGoes
      <3> QED
        BY <1>2, <3>1, <3>2, <3>3, <3>4
    <2>3. ToIssue(n)' \subseteq ToIssue(n) /\ ToDrop(n)' = ToDrop(n)
      BY <2>2 DEF ToIssue, ToDrop, JobOnly
    <2> QED
      BY <1>a, <2>1, <2>3
  <1>3. ASSUME NEW c \in Sessions, Issue(c) PROVE SecondRoom(n)'
    <2>1. /\ job[c].pc = "issuing" /\ JobGoes(c, "dropping") /\ tokens' = tokens
          /\ uses2' = [uses2 EXCEPT ![job[c].token] = @ + 1]
      BY <1>3, JobShape DEF Issue
    <2>2. job[c].kind = "verify" /\ job[c] # Off
      BY <2>1 DEF JobGoes, JobsFit, JobFits
    <2>3. CASE job[c].token # n
      <3>1. uses2'[n] = uses2[n]
        BY <1>0, <2>1, <2>3 DEF AdminTypeOK
      <3>2. ToIssue(n)' = ToIssue(n) /\ ToDrop(n)' = ToDrop(n)
        BY <1>b, <2>1, <2>3 DEF JobGoes
      <3> QED
        BY <1>a, <2>1, <3>1, <3>2
    <2>4. CASE job[c].token = n
      <3>1. uses2'[n] = uses2[n] + 1
        BY <1>0, <2>1, <2>4 DEF AdminTypeOK
      <3>2. /\ ToIssue(n)' = ToIssue(n) \ {c} /\ c \in ToIssue(n)
            /\ ToDrop(n)' = ToDrop(n) \cup {c} /\ c \notin ToDrop(n)
        BY <2>1, <2>2, <2>4 DEF ToIssue, ToDrop, JobGoes, JobOnly
      <3>3. Cardinality(ToIssue(n) \ {c}) = Cardinality(ToIssue(n)) - 1
        BY <1>f, <3>2, OneLess
      <3>4. Cardinality(ToDrop(n) \cup {c}) = Cardinality(ToDrop(n)) + 1
        BY <1>f, <3>2, FS_AddElement
      <3>5. /\ Cardinality(ToIssue(n)') = Cardinality(ToIssue(n)) - 1
            /\ Cardinality(ToDrop(n)') = Cardinality(ToDrop(n)) + 1
        BY <3>2, <3>3, <3>4
      <3> QED
        BY <1>0, <1>f, <2>1, <3>1, <3>5 DEF SecondRoom
    <2> QED
      BY <2>3, <2>4
  <1>4. ASSUME NEW c \in Sessions, DropToken(c) PROVE SecondRoom(n)'
    <2>1. /\ job[c].pc = "dropping" /\ job[c] # Off /\ JobOnly(c) /\ uses2' = uses2
          /\ tokens' = [tokens EXCEPT ![Presented(job[c].kind)] = 0]
          /\ \/ job'[c] = Off
             \/ job[c].kind = "set" /\ job'[c].kind = "set"
      BY <1>4, JobShape DEF DropToken, JobEnds, JobGoes
    <2>2. CASE job[c].kind = "verify"
      <3>1. tokens'["second"] = 0
        BY <1>0, <2>1, <2>2 DEF Presented, TokenTypes
      <3>2. ToIssue(n)' = ToIssue(n)
        BY <2>1, <2>2 DEF ToIssue, JobOnly
      <3> QED
        BY <1>0, <2>1, <3>1, <3>2 DEF SecondRoom
    <2>3. CASE job[c].kind # "verify"
      <3>1. tokens'["second"] = tokens["second"]
        BY <1>0, <2>1, <2>3 DEF Presented, TokenTypes, JobsFit, JobFits
      <3>2. ToIssue(n)' = ToIssue(n) /\ ToDrop(n)' = ToDrop(n)
        BY <1>b, <2>1, <2>3
      <3> QED
        BY <1>a, <2>1, <3>1, <3>2
    <2> QED
      BY <2>2, <2>3
  <1>5. ASSUME NEW c \in Sessions, SetToken(c) PROVE SecondRoom(n)'
    <2>1. /\ job[c].pc = "signing" /\ job[c] # Off /\ JobOnly(c) /\ uses2' = uses2
          /\ tokens' = [tokens EXCEPT ![Signed(job[c].kind)] = job[c].own]
          /\ job'[c] = Off
      BY <1>5, JobShape DEF SetToken, JobEnds
    <2>2. job[c].kind \in {"set", "invite", "login", "forgot"}
      BY <2>1 DEF JobsFit, JobFits
    <2>3. ToIssue(n)' = ToIssue(n) /\ ToDrop(n)' = ToDrop(n)
      BY <1>b, <2>1, <2>2
    <2>4. CASE job[c].own = n
      <3>1. uses2[n] = 0
        BY <2>1, <2>4 DEF OwnIsNew
      <3> QED
        BY <1>0, <1>f, <2>1, <2>3, <3>1 DEF SecondRoom
    <2>5. CASE job[c].own # n
      <3>1. tokens'["second"] = n => tokens["second"] = n
        BY <1>0, <2>1, <2>5 DEF TokenTypes
      <3> QED
        BY <1>a, <2>1, <2>3, <3>1
    <2> QED
      BY <2>4, <2>5
  <1>6. ASSUME NEW t \in TokenTypes, ExpireToken(t) PROVE SecondRoom(n)'
    <2>1. UNCHANGED <<job, uses2>> /\ tokens' = [tokens EXCEPT ![t] = 0]
      BY <1>6 DEF ExpireToken
    <2>2. tokens'["second"] = n => tokens["second"] = n
      BY <1>0, <2>1 DEF TokenTypes
    <2>3. ToIssue(n)' = ToIssue(n) /\ ToDrop(n)' = ToDrop(n)
      BY <2>1 DEF ToIssue, ToDrop
    <2> QED
      BY <1>a, <2>1, <2>2, <2>3
  <1>7. ASSUME UNCHANGED adminVars PROVE SecondRoom(n)'
    <2>1. UNCHANGED <<job, uses2, tokens>>
      BY <1>7 DEF adminVars
    <2>2. ToIssue(n)' = ToIssue(n) /\ ToDrop(n)' = ToDrop(n)
      BY <2>1 DEF ToIssue, ToDrop
    <2> QED
      BY <1>a, <2>1, <2>2
  <1> QED
    BY <1>1, <1>2, <1>3, <1>4, <1>5, <1>6, <1>7 DEF AdminNext

\* Two rows are the same if their columns are.
LEMMA AdminExtent ==
    ASSUME NEW x \in AdminRow, NEW y \in AdminRow, \A a \in AdminColumns : x[a] = y[a]
    PROVE  x = y
  BY DEF AdminRow, AdminColumns

\* While requests do not overlap, key and second factor, active and confirmed stay
\* in agreement.
LEMMA AloneAgreesStep ==
    ASSUME AdminTypeOK, AdminTypeOK', JobsFit, AloneAgrees, [AdminNext]_adminVars
    PROVE  AloneAgrees'
  <1> SUFFICES ASSUME ~overlap' PROVE AloneAgrees'
    BY DEF AloneAgrees
  <1> DEFINE Held(j) ==
               /\ j.pc \in {"loaded", "selected"} =>
                     j.mine = admin /\ (j.kind \in {"verify", "toggle"} => admin.key # 0)
               /\ j.pc = "selected" => j.base = admin
  <1>a. ASSUME NEW c \in Sessions, JobOnly(c), \A d \in Sessions \ {c} : job[d] = Off,
               Agreed(admin)', Held(job[c])'
        PROVE  AloneAgrees'
    <2>1. \A d \in Sessions \ {c} : job'[d] = Off
      BY <1>a DEF JobOnly
    <2>2. \A d, e \in Sessions : job'[d] # Off /\ job'[e] # Off => d = e
      BY <2>1
    <2>3. ASSUME NEW d \in Sessions PROVE Held(job[d])'
      BY <1>a, <2>1 DEF Off
    <2> QED
      BY <1>a, <2>2, <2>3 DEF AloneAgrees
  <1>b. ASSUME ~overlap, NEW c \in Sessions, job[c] # Off
        PROVE  /\ Agreed(admin) /\ Held(job[c])
               /\ \A d \in Sessions \ {c} : job[d] = Off
    BY <1>b DEF AloneAgrees
  <1>1. ASSUME NEW c \in Sessions, Starts(c) PROVE AloneAgrees'
    <2>1. /\ JobOnly(c) /\ Comes(job'[c].pc, job'[c].kind, job'[c].token)
          /\ job'[c].mine = admin /\ admin' = admin
          /\ ~overlap /\ \A d \in Sessions : job[d] = Off
      BY <1>1, StartsShape
    <2>2. Agreed(admin)'
      BY <2>1 DEF AloneAgrees, Agreed
    <2>3. Held(job[c])'
      BY <2>1 DEF Comes
    <2> HIDE DEF Held
    <2> QED
      BY <1>a, <2>1, <2>2, <2>3
  <1>2. ASSUME NEW c \in Sessions, admin' = admin, overlap' = overlap, JobOnly(c), job[c] # Off,
               job'[c] = Off \/ job'[c].pc \notin {"loaded", "selected"}
        PROVE  AloneAgrees'
    <2>1. Agreed(admin)' /\ \A d \in Sessions \ {c} : job[d] = Off
      BY <1>2, <1>b DEF Agreed
    <2>2. Held(job[c])'
      BY <1>2 DEF Off
    <2> HIDE DEF Held
    <2> QED
      BY <1>2, <1>a, <2>1, <2>2
  <1>3. ASSUME NEW c \in Sessions, CreateAdmin(c) \/ Issue(c) \/ DropToken(c) \/ SetToken(c)
        PROVE  AloneAgrees'
    <2>1. UNCHANGED <<admin, overlap>>
      BY <1>3 DEF CreateAdmin, Issue, DropToken, SetToken, Quiet
    <2>2. JobEnds(c) \/ JobGoes(c, "signing") \/ JobGoes(c, "dropping")
      BY <1>3, JobShape
    <2>3. JobOnly(c) /\ job[c] # Off /\ (job'[c] = Off \/ job'[c].pc \notin {"loaded", "selected"})
      BY <2>2 DEF JobEnds, JobGoes
    <2> QED
      BY <1>2, <2>1, <2>3
  <1>4. ASSUME NEW c \in Sessions, LoadAdmin(c) PROVE AloneAgrees'
    <2>1. UNCHANGED <<admin, overlap>>
      BY <1>4 DEF LoadAdmin, Quiet
    <2>2. CASE JobEnds(c) \/ JobGoes(c, "issuing")
      BY <1>2, <2>1, <2>2 DEF JobEnds, JobGoes
    <2>3. CASE JobGoes(c, "loaded") /\ job'[c].mine = admin /\ Proceeds(job[c].kind)
      <3>1. job[c].pc = "loading" /\ job[c] # Off
        BY <1>4, LoadAdminShape DEF JobEnds, JobGoes
      <3>2. job[c].kind \in {"set", "totp", "verify", "confirm"}
        BY <3>1 DEF JobsFit, JobFits
      <3>3. job[c].kind = "verify" => admin.key # 0
        BY <2>3 DEF Proceeds
      <3>4. Held(job[c])'
        BY <2>1, <2>3, <3>2, <3>3 DEF JobGoes
      <3>5. Agreed(admin)' /\ \A d \in Sessions \ {c} : job[d] = Off
        BY <2>1, <3>1, <1>b DEF Agreed
      <3> HIDE DEF Held
      <3> QED
        BY <1>a, <2>3, <3>4, <3>5 DEF JobGoes
    <2> QED
      BY <1>4, <2>2, <2>3, LoadAdminShape
  <1>5. ASSUME NEW c \in Sessions, SelectAdmin(c) PROVE AloneAgrees'
    <2>1. UNCHANGED <<admin, overlap>>
      BY <1>5 DEF SelectAdmin, Quiet
    <2>2. /\ job[c].pc = "loaded" /\ job[c] # Off /\ JobGoes(c, "selected")
          /\ job'[c].mine = job[c].mine /\ job'[c].base = admin
      BY <1>5, SelectAdminShape DEF JobGoes
    <2>3. Agreed(admin)' /\ Held(job[c]) /\ \A d \in Sessions \ {c} : job[d] = Off
      BY <2>1, <2>2, <1>b DEF Agreed
    <2>4. Held(job[c])'
      BY <2>1, <2>2, <2>3 DEF JobGoes
    <2> HIDE DEF Held
    <2> QED
      BY <1>a, <2>2, <2>3, <2>4 DEF JobGoes
  <1>6. ASSUME NEW c \in Sessions, SaveAdmin(c) PROVE AloneAgrees'
    <2>1. ~overlap
      BY <1>6 DEF SaveAdmin, Quiet
    <2>2. /\ job[c].pc = "selected" /\ job[c] # Off /\ JobOnly(c)
          /\ job'[c] = Off \/ job'[c].pc \notin {"loaded", "selected"}
      BY <1>6, JobShape DEF JobEnds, JobGoes
    <2>3. /\ job[c].kind \in {"set", "totp", "verify", "confirm", "toggle"}
          /\ job[c].own # 0
      BY <2>2 DEF JobsFit, JobFits, AdminTypeOK
    <2>4. /\ Agreed(admin) /\ job[c].mine = admin /\ job[c].base = admin
          /\ job[c].kind \in {"verify", "toggle"} => admin.key # 0
          /\ \A d \in Sessions \ {c} : job[d] = Off
      BY <2>1, <2>2, <1>b
    <2> DEFINE new == Changed(job[c])
    <2>5. admin' = new
      <3>1. new \in AdminRow /\ admin' \in AdminRow
        BY <2>2, <2>3, ChangedRow DEF AdminTypeOK
      <3>2. admin' = [a \in AdminColumns |->
                        IF new[a] # job[c].base[a] THEN new[a] ELSE admin[a]]
        BY <1>6 DEF SaveAdmin
      <3> HIDE DEF new
      <3>3. \A a \in AdminColumns : admin'[a] = new[a]
        BY <2>4, <3>2
      <3> QED
        BY <3>1, <3>3, AdminExtent
    <2>6. /\ new.active = (job[c].kind = "set" \/ admin.active)
          /\ new.confirmed = (job[c].kind = "set" \/ admin.confirmed)
          /\ new.twoFa = IF job[c].kind = "totp" THEN FALSE
                         ELSE IF job[c].kind \in {"verify", "toggle"} THEN ~admin.twoFa
                         ELSE admin.twoFa
          /\ new.key = IF job[c].kind = "totp" THEN job[c].own ELSE admin.key
          /\ new.password = IF job[c].kind \in {"set", "confirm"} THEN job[c].own
                            ELSE admin.password
      BY <2>2, <2>3, <2>4, ChangedRow
    <2> HIDE DEF new
    <2>7. Agreed(new)
      <3>1. new.twoFa => new.key # 0
        BY <2>3, <2>4, <2>6 DEF Agreed
      <3>2. new.active <=> new.confirmed
        BY <2>4, <2>6 DEF Agreed
      <3>3. new.confirmed => new.password # 0
        BY <2>3, <2>4, <2>6 DEF Agreed
      <3> QED
        BY <3>1, <3>2, <3>3 DEF Agreed
    <2>8. Agreed(admin)'
      BY <2>5, <2>7 DEF Agreed
    <2>9. Held(job[c])'
      BY <2>2 DEF Off
    <2> HIDE DEF Held
    <2> QED
      BY <1>a, <2>2, <2>4, <2>8, <2>9
  <1>7. ASSUME NEW t \in TokenTypes, ExpireToken(t) PROVE AloneAgrees'
    BY <1>7 DEF ExpireToken, Quiet, AloneAgrees, Agreed
  <1>8. ASSUME UNCHANGED adminVars PROVE AloneAgrees'
    BY <1>8 DEF adminVars, AloneAgrees, Agreed
  <1> HIDE DEF Held
  <1> QED
    BY <1>1, <1>3, <1>4, <1>5, <1>6, <1>7, <1>8 DEF AdminNext

\* At the start the admin is not invited.
LEMMA AdminStart ==
    ASSUME AdminInit
    PROVE  AdminInv
  <1>1. /\ MaxCalls \in Nat /\ 0 \in 0..MaxCalls
        /\ \A c \in Sessions : job[c] = Off /\ job[c].pc = "off"
    BY AdminAssumption DEF AdminInit, Off
  <1>2. /\ admin \in AdminRow /\ ~admin.active /\ ~admin.confirmed /\ ~admin.twoFa
        /\ \A t \in TokenTypes : tokens[t] = 0
        /\ \A n \in 0..MaxCalls : uses2[n] = 0
    BY DEF AdminInit, AdminRow
  <1>3. AdminTypeOK
    BY <1>1, <1>2 DEF AdminInit, AdminTypeOK
  <1>4. JobsFit
    BY <1>1, <1>2 DEF AdminInit, JobsFit
  <1>5. LoginWaits
    BY <1>1, <1>2 DEF AdminInit, LoginWaits, TokenTypes
  <1>6. OwnIsNew
    BY <1>1, <1>2 DEF OwnIsNew
  <1>7. SecondsRoom
    <2> SUFFICES ASSUME NEW n \in 1..MaxCalls PROVE SecondRoom(n)
      BY DEF SecondsRoom
    <2>1. ToIssue(n) = {} /\ ToDrop(n) = {}
      BY <1>1 DEF ToIssue, ToDrop
    <2>2. Cardinality(ToIssue(n)) = 0 /\ Cardinality(ToDrop(n)) = 0
      BY <2>1, FS_EmptySet
    <2>3. uses2[n] = 0 /\ Cardinality(Sessions) \in Nat
      BY <1>1, <1>2, SessionsFinite
    <2> QED
      BY <2>2, <2>3 DEF SecondRoom
  <1>8. AloneAgrees
    <2>1. Agreed(admin)
      BY <1>2 DEF Agreed
    <2> QED
      BY <1>1, <2>1 DEF AloneAgrees
  <1> QED
    BY <1>3, <1>4, <1>5, <1>6, <1>7, <1>8 DEF AdminInv

\* However the requests of an admin interleave, no one logs in who has not accepted
\* the invitation, a token of the second factor gives no more logins than requests
\* run at once, and without overlaps key and second factor, active and confirmed
\* agree (admin/auth/adminauth.service.ts and its tokens in the cache).
THEOREM AdminKept == AdminSpec => []AdminSound
  <1>1. AdminInv /\ [AdminNext]_adminVars => AdminInv'
    BY AdminStepTyped, JobsFitStep, LoginWaitsStep, OwnIsNewStep, SecondsRoomStep, AloneAgreesStep
       DEF AdminInv
  <1>2. AdminInv => AdminSound
    <2> SUFFICES ASSUME AdminInv PROVE AdminSound
      OBVIOUS
    <2>1. LoginEarned
      BY DEF AdminInv, LoginWaits, LoginEarned
    <2>2. ASSUME NEW n \in 1..MaxCalls PROVE uses2[n] <= Cardinality(Sessions)
      <3>1. ToIssue(n) \subseteq Sessions
        BY DEF ToIssue
      <3>2. Cardinality(ToIssue(n)) \in Nat /\ Cardinality(Sessions) \in Nat
        BY <3>1, SessionsFinite
      <3>3. uses2[n] \in Nat /\ SecondRoom(n)
        BY AdminAssumption DEF AdminInv, AdminTypeOK, SecondsRoom
      <3> QED
        BY <3>2, <3>3 DEF SecondRoom
    <2>3. ColumnsAgree
      BY DEF AdminInv, AdminTypeOK, AdminRow, AloneAgrees, Agreed, ColumnsAgree
    <2> QED
      BY <2>1, <2>2, <2>3 DEF AdminInv, AdminSound, SecondFactorBounded
  <1> QED
    BY <1>1, <1>2, AdminStart, PTL DEF AdminSpec

-----------------------------------------------------------------------------
(* Verified e-mails                                                        *)

\* The requests that will insert a row.
Inserters == {m \in Mailers : mailer[m].pc \in {"mailing", "inserting"} /\ mailer[m].new}

\* A request inserts only if there was no row when it came.
EmailRoom ==
    /\ IsFiniteSet(emails)
    /\ \A m \in Mailers : mailer[m].pc = "inserting" => mailer[m].new
    /\ Cardinality(emails) + Cardinality(Inserters) <= Cardinality(Mailers)

\* One request at a time finds one row at most, and changes none that is verified.
OneRow ==
    ~blended =>
        /\ \A m, n \in Mailers : mailer[m] # Unposted /\ mailer[n] # Unposted => m = n
        /\ \A r, q \in emails : r = q
        /\ \A r \in emails : r.verified => r.otp = 0
        /\ \A m \in Mailers : mailer[m] # Unposted =>
              /\ mailer[m].row.verified => mailer[m].row.otp = 0
              /\ mailer[m].pc = "mailing" => ~mailer[m].row.verified
              /\ mailer[m].new => mailer[m].pc \in {"mailing", "inserting"} /\ emails = {}
              /\ ~mailer[m].new => \A r \in emails : ~r.verified
              /\ mailer[m].pc = "updating" =>
                    mailer[m].base \in emails /\ mailer[m].base.id = mailer[m].row.id

EmailInv == EmailTypeOK /\ EmailRoom /\ OneRow

\* Only m goes on.
OnlyMailer(m) ==
    /\ mailer' \in [Mailers -> Mailing \cup {Unposted}]
    /\ \A n \in Mailers \ {m} : mailer'[n] = mailer[n]

\* A request on an address has the fields of one.
LEMMA MailerTyped ==
    ASSUME EmailTypeOK, NEW m \in Mailers
    PROVE  /\ mailer[m] = Unposted <=> mailer[m].pc = "none"
           /\ mailer[m] # Unposted =>
                /\ mailer[m] \in Mailing /\ mailer[m].own \in 1..MaxMails
                /\ mailer[m].new \in BOOLEAN
                /\ mailer[m].row \in EmailRow /\ mailer[m].base \in EmailRow
  BY DEF EmailTypeOK, Mailing, Unposted

\* What a request is when it has come.
LEMMA OpenShape ==
    ASSUME EmailTypeOK, NEW m \in Mailers, NEW p \in {"mailing", "inserting", "selecting"},
           NEW found \in EmailRow, NEW new \in BOOLEAN, Open(m, p, found, new)
    PROVE  /\ OnlyMailer(m) /\ mailer[m] = Unposted /\ mailer'[m] # Unposted
           /\ mailer'[m].pc = p /\ mailer'[m].row = found /\ mailer'[m].new = new
           /\ mails' \in 0..MaxMails /\ blended' \in BOOLEAN
           /\ ~blended' => ~blended /\ \A n \in Mailers : mailer[n] = Unposted
           /\ emails' = emails /\ letters' = letters
  <1> DEFINE x == [pc |-> p, own |-> mails + 1, new |-> new, row |-> found, base |-> found]
  <1>1. mails + 1 \in 1..MaxMails /\ mails + 1 \in 0..MaxMails
    BY EmailAssumption DEF EmailTypeOK, Open
  <1>2. x \in Mailing /\ x # Unposted
    BY <1>1 DEF Mailing, Unposted
  <1>3. mailer' = [mailer EXCEPT ![m] = x]
    BY DEF Open
  <1>4. OnlyMailer(m) /\ mailer'[m] = x
    BY <1>2, <1>3 DEF OnlyMailer, EmailTypeOK
  <1>5. ~blended' => ~blended /\ \A n \in Mailers : mailer[n] = Unposted
    BY DEF Open
  <1> QED
    BY <1>1, <1>2, <1>4, <1>5 DEF Open

\* The requests that may come.
LEMMA MailComes ==
    ASSUME EmailTypeOK, NEW m \in Mailers, AddVerifiedEmail(m) \/ VerifyEmail(m)
    PROVE  /\ OnlyMailer(m) /\ mailer[m] = Unposted /\ mailer'[m] # Unposted
           /\ mails' \in 0..MaxMails /\ blended' \in BOOLEAN
           /\ ~blended' => ~blended /\ \A n \in Mailers : mailer[n] = Unposted
           /\ emails' = emails /\ letters' = letters
           /\ \/ /\ \E found \in emails : ~found.verified
                 /\ mailer'[m].pc = "mailing" /\ ~mailer'[m].new /\ ~mailer'[m].row.verified
              \/ /\ emails = {} /\ mailer'[m].new /\ mailer'[m].pc \in {"mailing", "inserting"}
                 /\ mailer'[m].pc = "mailing" => ~mailer'[m].row.verified
                 /\ mailer'[m].row.verified => mailer'[m].row.otp = 0
              \/ /\ \E found \in emails : found.otp \in letters
                 /\ mailer'[m].pc = "selecting" /\ ~mailer'[m].new
                 /\ mailer'[m].row.otp = 0
  <1>1. ASSUME mails < MaxMails
        PROVE  NewRow(mails + 1, FALSE) \in EmailRow /\ NewRow(0, TRUE) \in EmailRow
    BY <1>1, EmailAssumption DEF EmailTypeOK, NewRow, EmailRow
  <1>2. \A found \in emails : found \in EmailRow /\ [found EXCEPT !.otp = 0, !.verified = TRUE] \in EmailRow
                              /\ [found EXCEPT !.otp = 0, !.verified = TRUE].otp = 0
    <2>1. 0 \in 0..MaxMails /\ \A found \in emails : found \in EmailRow
      BY EmailAssumption DEF EmailTypeOK
    <2> QED
      BY <2>1 DEF EmailRow
  <1>3. CASE \E found \in emails : ~found.verified /\ Open(m, "mailing", found, FALSE)
    BY <1>2, <1>3, OpenShape
  <1>4. CASE emails = {} /\ Open(m, "mailing", NewRow(mails + 1, FALSE), TRUE)
    <2>1. NewRow(mails + 1, FALSE) \in EmailRow /\ ~NewRow(mails + 1, FALSE).verified
      BY <1>1, <1>4 DEF Open, NewRow
    <2> QED
      BY <1>4, <2>1, OpenShape
  <1>5. CASE emails = {} /\ Open(m, "inserting", NewRow(0, TRUE), TRUE)
    <2>1. NewRow(0, TRUE) \in EmailRow /\ NewRow(0, TRUE).otp = 0
      BY <1>1, <1>5 DEF Open, NewRow
    <2> QED
      BY <1>5, <2>1, OpenShape
  <1>6. CASE VerifyEmail(m)
    <2>1. PICK found \in emails :
             /\ found.otp \in letters
             /\ Open(m, "selecting", [found EXCEPT !.otp = 0, !.verified = TRUE], FALSE)
      BY <1>6 DEF VerifyEmail
    <2> DEFINE new == [found EXCEPT !.otp = 0, !.verified = TRUE]
    <2>2. new \in EmailRow /\ new.otp = 0 /\ Open(m, "selecting", new, FALSE)
      BY <1>2, <2>1
    <2> HIDE DEF new
    <2> QED
      BY <2>1, <2>2, OpenShape
  <1> QED
    BY <1>3, <1>4, <1>5, <1>6 DEF AddVerifiedEmail

\* What each step of a request makes of the request.
LEMMA MailerShape ==
    ASSUME EmailTypeOK, NEW m \in Mailers
    PROVE  /\ MailCode(m) =>
                /\ OnlyMailer(m) /\ mailer[m] # Unposted /\ mailer'[m] # Unposted
                /\ mailer'[m].new = mailer[m].new
                /\ mailer'[m].row.verified = mailer[m].row.verified
                /\ mailer'[m].pc = IF mailer[m].new THEN "inserting" ELSE "selecting"
           /\ InsertEmail(m) \/ UpdateEmail(m) =>
                OnlyMailer(m) /\ mailer[m] # Unposted /\ mailer'[m] = Unposted
           /\ SelectEmail(m) =>
                /\ OnlyMailer(m) /\ mailer[m] # Unposted /\ mailer'[m] # Unposted
                /\ mailer'[m].pc = "updating" /\ mailer'[m].new = mailer[m].new
                /\ mailer'[m].row = mailer[m].row /\ mailer'[m].base \in emails
                /\ mailer'[m].base.id = mailer[m].row.id
  <1>1. ASSUME MailCode(m)
        PROVE  /\ OnlyMailer(m) /\ mailer[m] # Unposted /\ mailer'[m] # Unposted
               /\ mailer'[m].new = mailer[m].new
               /\ mailer'[m].row.verified = mailer[m].row.verified
               /\ mailer'[m].pc = IF mailer[m].new THEN "inserting" ELSE "selecting"
    <2> DEFINE r == [mailer[m].row EXCEPT !.otp = mailer[m].own]
               x == IF mailer[m].new THEN [mailer[m] EXCEPT !.pc = "inserting"]
                    ELSE [mailer[m] EXCEPT !.pc = "selecting", !.row = r]
    <2>1. mailer[m] \in Mailing /\ mailer[m] # Unposted /\ mailer[m].own \in 0..MaxMails
          /\ mailer[m].row \in EmailRow
      BY <1>1, MailerTyped, EmailAssumption DEF MailCode, Unposted
    <2>2. r \in EmailRow /\ r.verified = mailer[m].row.verified
      BY <2>1 DEF EmailRow
    <2>3. mailer' = [mailer EXCEPT ![m] = x]
      BY <1>1, <2>1 DEF MailCode, EmailTypeOK, Mailing
    <2> HIDE DEF r
    <2>4. /\ x \in Mailing /\ x.new = mailer[m].new /\ x.row.verified = mailer[m].row.verified
          /\ x.pc = IF mailer[m].new THEN "inserting" ELSE "selecting"
      BY <2>1, <2>2 DEF Mailing
    <2> HIDE DEF x
    <2> QED
      BY <2>1, <2>3, <2>4 DEF OnlyMailer, EmailTypeOK, Unposted
  <1>2. InsertEmail(m) \/ UpdateEmail(m) =>
                OnlyMailer(m) /\ mailer[m] # Unposted /\ mailer'[m] = Unposted
    <2>1. InsertEmail(m) \/ UpdateEmail(m) =>
             /\ mailer' = [mailer EXCEPT ![m] = Unposted]
             /\ mailer[m].pc \in {"inserting", "updating"}
      BY DEF InsertEmail, UpdateEmail
    <2>2. mailer[m].pc \in {"inserting", "updating"} => mailer[m] # Unposted
      BY DEF Unposted
    <2> QED
      BY <2>1, <2>2 DEF OnlyMailer, EmailTypeOK
  <1>3. ASSUME SelectEmail(m)
        PROVE  /\ OnlyMailer(m) /\ mailer[m] # Unposted /\ mailer'[m] # Unposted
               /\ mailer'[m].pc = "updating" /\ mailer'[m].new = mailer[m].new
               /\ mailer'[m].row = mailer[m].row /\ mailer'[m].base \in emails
               /\ mailer'[m].base.id = mailer[m].row.id
    <2>1. mailer[m] \in Mailing /\ mailer[m] # Unposted
      BY <1>3, MailerTyped DEF SelectEmail, Unposted
    <2>2. PICK found \in emails :
             /\ found.id = mailer[m].row.id
             /\ mailer' = [mailer EXCEPT ![m].pc = "updating", ![m].base = found]
      BY <1>3 DEF SelectEmail
    <2> DEFINE x == [mailer[m] EXCEPT !.pc = "updating", !.base = found]
    <2>3. /\ x \in Mailing /\ x.pc = "updating" /\ x.new = mailer[m].new
          /\ x.row = mailer[m].row /\ x.base = found
      BY <2>1 DEF Mailing, EmailTypeOK
    <2>4. mailer' = [mailer EXCEPT ![m] = x]
      BY <2>2
    <2> HIDE DEF x
    <2>5. mailer'[m] = x /\ x # Unposted /\ OnlyMailer(m)
      BY <2>3, <2>4 DEF OnlyMailer, EmailTypeOK, Unposted
    <2> QED
      BY <2>1, <2>2, <2>3, <2>5
  <1> QED
    BY <1>1, <1>2, <1>3

\* The row a request saves, or the columns it changes in the row there is.
RowSaved(m, found) ==
    IF found.id = mailer[m].row.id
    THEN [found EXCEPT !.otp      = IF mailer[m].row.otp # mailer[m].base.otp
                                  THEN mailer[m].row.otp ELSE @,
                     !.verified = IF mailer[m].row.verified # mailer[m].base.verified
                                  THEN mailer[m].row.verified ELSE @]
    ELSE found

\* The update of a row leaves as many rows as there were.
LEMMA UpdateChanges ==
    ASSUME NEW m \in Mailers, UpdateEmail(m)
    PROVE  emails' = {RowSaved(m, found) : found \in emails}
  BY DEF UpdateEmail, RowSaved

\* Every statement keeps the types.
LEMMA EmailStepTyped ==
    ASSUME EmailTypeOK, [EmailNext]_emailVars
    PROVE  EmailTypeOK'
  <1>1. ASSUME NEW m \in Mailers, AddVerifiedEmail(m) \/ VerifyEmail(m)
        PROVE  EmailTypeOK'
    BY <1>1, MailComes DEF OnlyMailer, EmailTypeOK
  <1>2. ASSUME NEW m \in Mailers, MailCode(m) PROVE EmailTypeOK'
    <2>1. mailer[m].own \in 1..MaxMails
      BY <1>2, MailerShape, MailerTyped
    <2> QED
      BY <1>2, <2>1, MailerShape DEF MailCode, OnlyMailer, EmailTypeOK
  <1>3. ASSUME NEW m \in Mailers, InsertEmail(m) PROVE EmailTypeOK'
    <2>1. mailer[m].row \in EmailRow
      BY <1>3, MailerShape, MailerTyped
    <2> QED
      BY <1>3, <2>1, MailerShape DEF InsertEmail, OnlyMailer, EmailTypeOK
  <1>4. ASSUME NEW m \in Mailers, SelectEmail(m) PROVE EmailTypeOK'
    BY <1>4, MailerShape DEF SelectEmail, OnlyMailer, EmailTypeOK
  <1>5. ASSUME NEW m \in Mailers, UpdateEmail(m) PROVE EmailTypeOK'
    <2>1. mailer[m].row \in EmailRow
      BY <1>5, MailerShape, MailerTyped
    <2>2. \A found \in emails : RowSaved(m, found) \in EmailRow
      BY <2>1 DEF EmailTypeOK, RowSaved, EmailRow
    <2>3. emails' \subseteq EmailRow
      BY <1>5, <2>2, UpdateChanges
    <2> QED
      BY <1>5, <2>3, MailerShape DEF UpdateEmail, OnlyMailer, EmailTypeOK
  <1>6. ASSUME UNCHANGED emailVars PROVE EmailTypeOK'
    BY <1>6 DEF emailVars, EmailTypeOK
  <1> QED
    BY <1>1, <1>2, <1>3, <1>4, <1>5, <1>6 DEF EmailNext

\* Every statement keeps the rows, there and to come, within the requests.
LEMMA EmailRoomStep ==
    ASSUME EmailTypeOK, EmailRoom, [EmailNext]_emailVars
    PROVE  EmailRoom'
  <1>0. /\ IsFiniteSet(emails) /\ IsFiniteSet(Inserters) /\ Inserters' \subseteq Mailers
        /\ Cardinality(emails) \in Nat /\ Cardinality(Inserters) \in Nat
        /\ Cardinality(Mailers) \in Nat
        /\ Cardinality(emails) + Cardinality(Inserters) <= Cardinality(Mailers)
    <2>1. IsFiniteSet(Inserters)
      BY EmailAssumption, FS_Subset DEF Inserters
    <2> QED
      BY <2>1, FS_CardinalityType, EmailAssumption DEF EmailRoom, Inserters
  <1>a. ASSUME NEW m \in Mailers, OnlyMailer(m), mailer'[m].pc = "inserting" => mailer'[m].new
        PROVE  \A n \in Mailers : mailer'[n].pc = "inserting" => mailer'[n].new
    BY <1>a DEF EmailRoom, OnlyMailer
  <1>1. ASSUME NEW m \in Mailers, AddVerifiedEmail(m) \/ VerifyEmail(m)
        PROVE  EmailRoom'
    <2>1. /\ OnlyMailer(m) /\ mailer[m] = Unposted /\ emails' = emails
          /\ mailer'[m].new => emails = {}
          /\ mailer'[m].pc \in {"mailing", "inserting", "selecting"}
          /\ mailer'[m].pc = "inserting" => mailer'[m].new
      BY <1>1, MailComes
    <2>a. \A n \in Mailers : mailer'[n].pc = "inserting" => mailer'[n].new
      BY <1>a, <2>1
    <2>2. CASE emails = {}
      <3>1. Cardinality(Inserters') <= Cardinality(Mailers) /\ Cardinality(Inserters') \in Nat
        BY <1>0, EmailAssumption, FS_Subset, FS_CardinalityType
      <3>2. Cardinality(emails') = 0 /\ IsFiniteSet(emails')
        BY <2>1, <2>2, FS_EmptySet
      <3> QED
        BY <1>0, <2>a, <3>1, <3>2 DEF EmailRoom
    <2>3. CASE emails # {}
      <3>1. Inserters' = Inserters
        <4>1. m \notin Inserters /\ m \notin Inserters'
          BY <2>1, <2>3 DEF Inserters, Unposted
        <4> QED
          BY <2>1, <4>1 DEF Inserters, OnlyMailer
      <3> QED
        BY <2>1, <2>a, <3>1 DEF EmailRoom
    <2> QED
      BY <2>2, <2>3
  <1>2. ASSUME NEW m \in Mailers, MailCode(m) \/ SelectEmail(m) PROVE EmailRoom'
    <2>1. OnlyMailer(m) /\ emails' = emails
      BY <1>2, MailerShape DEF MailCode, SelectEmail
    <2>2. m \in Inserters' => m \in Inserters
      BY <1>2, MailerShape DEF MailCode, SelectEmail, Inserters
    <2>3. Inserters' \subseteq Inserters
      BY <2>1, <2>2 DEF OnlyMailer, Inserters
    <2>4. Cardinality(Inserters') <= Cardinality(Inserters) /\ Cardinality(Inserters') \in Nat
      BY <1>0, <2>3, FS_Subset, FS_CardinalityType
    <2>5. mailer'[m].pc = "inserting" => mailer'[m].new
      BY <1>2, MailerShape
    <2> QED
      BY <1>0, <1>a, <2>1, <2>4, <2>5 DEF EmailRoom
  <1>3. ASSUME NEW m \in Mailers, InsertEmail(m), mailer[m].new PROVE EmailRoom'
    <2>1. /\ OnlyMailer(m) /\ mailer'[m] = Unposted /\ m \in Inserters
          /\ emails' = emails \cup {mailer[m].row}
      BY <1>3, MailerShape DEF InsertEmail, Inserters
    <2>2. Inserters' = Inserters \ {m}
      BY <2>1 DEF OnlyMailer, Inserters, Unposted
    <2>3. /\ Cardinality(Inserters \ {m}) = Cardinality(Inserters) - 1
      BY <1>0, <2>1, OneLess
    <2>4. /\ IsFiniteSet(emails') /\ Cardinality(emails') \in Nat
          /\ Cardinality(emails') <= Cardinality(emails) + 1
      BY <1>0, <2>1, OneMore
    <2>5. Cardinality(Inserters') = Cardinality(Inserters) - 1
      BY <2>2, <2>3
    <2>6. \A n \in Mailers : mailer'[n].pc = "inserting" => mailer'[n].new
      BY <1>a, <2>1 DEF Unposted
    <2> QED
      BY <1>0, <2>4, <2>5, <2>6 DEF EmailRoom
  <1>4. ASSUME NEW m \in Mailers, UpdateEmail(m) PROVE EmailRoom'
    <2>1. OnlyMailer(m) /\ mailer'[m] = Unposted
      BY <1>4, MailerShape
    <2>2. Inserters' \subseteq Inserters
      BY <2>1 DEF OnlyMailer, Inserters, Unposted
    <2>3. Cardinality(Inserters') <= Cardinality(Inserters) /\ Cardinality(Inserters') \in Nat
      BY <1>0, <2>2, FS_Subset, FS_CardinalityType
    <2>4. IsFiniteSet(emails') /\ Cardinality(emails') <= Cardinality(emails)
      <3> DEFINE f == [found \in emails |-> RowSaved(m, found)]
      <3>1. emails' = {f[found] : found \in emails}
        BY <1>4, UpdateChanges
      <3> HIDE DEF f
      <3> QED
        BY <1>0, <3>1, ImageBound
    <2>5. Cardinality(emails') \in Nat
      BY <2>4, FS_CardinalityType
    <2>6. \A n \in Mailers : mailer'[n].pc = "inserting" => mailer'[n].new
      BY <1>a, <2>1 DEF Unposted
    <2> QED
      BY <1>0, <2>3, <2>4, <2>5, <2>6 DEF EmailRoom
  <1>5. ASSUME UNCHANGED emailVars PROVE EmailRoom'
    BY <1>5 DEF emailVars, EmailRoom, Inserters
  <1>6. ASSUME NEW m \in Mailers, InsertEmail(m) PROVE mailer[m].new
    BY <1>6 DEF InsertEmail, EmailRoom
  <1> QED
    BY <1>1, <1>2, <1>3, <1>4, <1>5, <1>6 DEF EmailNext

\* While requests do not overlap, there is one row, and it stays verified.
LEMMA OneRowStep ==
    ASSUME EmailTypeOK, EmailRoom, OneRow, [EmailNext]_emailVars
    PROVE  OneRow' /\ (~blended' => \A found \in emails : found.verified => found \in emails')
  <1> DEFINE Fits(m) == mailer[m] # Unposted =>
                           /\ mailer[m].row.verified => mailer[m].row.otp = 0
                           /\ mailer[m].pc = "mailing" => ~mailer[m].row.verified
                           /\ mailer[m].new => mailer[m].pc \in {"mailing", "inserting"}
                                               /\ emails = {}
                           /\ ~mailer[m].new => \A r \in emails : ~r.verified
                           /\ mailer[m].pc = "updating" =>
                                 /\ mailer[m].base \in emails
                                 /\ mailer[m].base.id = mailer[m].row.id
             Single == /\ \A r, q \in emails : r = q
                       /\ \A r \in emails : r.verified => r.otp = 0
             Apart == \A m, n \in Mailers : mailer[m] # Unposted /\ mailer[n] # Unposted => m = n
             Goal == /\ Apart' /\ Single' /\ \A m \in Mailers : Fits(m)'
                     /\ \A found \in emails : found.verified => found \in emails'
  <1> SUFFICES ASSUME ~blended' PROVE Goal
    BY DEF OneRow
  <1>a. ~blended => Apart /\ Single /\ \A m \in Mailers : Fits(m)
    BY DEF OneRow
  <1>b. ASSUME NEW m \in Mailers, OnlyMailer(m), ~blended, mailer[m] # Unposted,
               Fits(m)', Single', \A found \in emails : found.verified => found \in emails'
        PROVE  Goal
    <2>1. \A n \in Mailers \ {m} : mailer'[n] = Unposted
      BY <1>a, <1>b DEF OnlyMailer
    <2> QED
      BY <1>b, <2>1
  <1>1. ASSUME NEW m \in Mailers, AddVerifiedEmail(m) \/ VerifyEmail(m)
        PROVE  Goal
    <2>1. /\ OnlyMailer(m) /\ emails' = emails
          /\ ~blended /\ \A n \in Mailers : mailer[n] = Unposted
          /\ \/ /\ \E found \in emails : ~found.verified
                /\ mailer'[m].pc = "mailing" /\ ~mailer'[m].new /\ ~mailer'[m].row.verified
             \/ /\ emails = {} /\ mailer'[m].new /\ mailer'[m].pc \in {"mailing", "inserting"}
                /\ mailer'[m].pc = "mailing" => ~mailer'[m].row.verified
                /\ mailer'[m].row.verified => mailer'[m].row.otp = 0
             \/ /\ \E found \in emails : found.otp \in letters
                /\ mailer'[m].pc = "selecting" /\ ~mailer'[m].new
                /\ mailer'[m].row.otp = 0
      BY <1>1, MailComes
    <2>2. Single /\ 0 \notin letters
      BY <1>a, <2>1 DEF EmailTypeOK
    <2>3. \A n \in Mailers \ {m} : mailer'[n] = Unposted
      BY <2>1 DEF OnlyMailer
    <2>4. Fits(m)'
      <3>1. CASE emails = {} /\ mailer'[m].new
        BY <2>1, <3>1
      <3>2. CASE /\ \E found \in emails : found.otp \in letters
                 /\ mailer'[m].pc = "selecting" /\ ~mailer'[m].new /\ mailer'[m].row.otp = 0
        <4>1. \A r \in emails : ~r.verified
          BY <2>2, <3>2
        <4> QED
          BY <2>1, <3>2, <4>1
      <3>3. CASE /\ \E found \in emails : ~found.verified
                 /\ mailer'[m].pc = "mailing" /\ ~mailer'[m].new /\ ~mailer'[m].row.verified
        <4>1. \A r \in emails : ~r.verified
          BY <2>2, <3>3
        <4> QED
          BY <2>1, <3>3, <4>1
      <3> QED
        BY <2>1, <3>1, <3>2, <3>3
    <2> QED
      BY <2>1, <2>2, <2>3, <2>4
  <1>2. ASSUME NEW m \in Mailers, MailCode(m) PROVE Goal
    <2>1. /\ OnlyMailer(m) /\ emails' = emails /\ mailer[m] # Unposted
          /\ mailer[m].pc = "mailing" /\ ~blended
          /\ mailer'[m].new = mailer[m].new
          /\ mailer'[m].row.verified = mailer[m].row.verified
          /\ mailer'[m].pc = IF mailer[m].new THEN "inserting" ELSE "selecting"
      BY <1>2, MailerShape DEF MailCode
    <2>2. Fits(m) /\ Single
      BY <1>a, <2>1
    <2>3. Fits(m)' /\ Single'
      BY <2>1, <2>2
    <2> QED
      BY <1>b, <2>1, <2>3
  <1>3. ASSUME NEW m \in Mailers, InsertEmail(m) PROVE Goal
    <2>1. /\ OnlyMailer(m) /\ mailer[m] # Unposted /\ mailer'[m] = Unposted /\ mailer[m].new
          /\ emails' = emails \cup {mailer[m].row} /\ ~blended
      BY <1>3, MailerShape DEF InsertEmail, EmailRoom
    <2>2. Fits(m)
      BY <1>a, <2>1
    <2>3. emails' = {mailer[m].row} /\ emails = {}
      BY <2>1, <2>2
    <2>4. Single' /\ Fits(m)'
      BY <2>1, <2>2, <2>3
    <2> QED
      BY <1>b, <2>1, <2>3, <2>4
  <1>4. ASSUME NEW m \in Mailers, SelectEmail(m) PROVE Goal
    <2>1. /\ OnlyMailer(m) /\ mailer[m] # Unposted /\ emails' = emails /\ ~blended
          /\ mailer[m].pc = "selecting"
          /\ mailer'[m].pc = "updating" /\ mailer'[m].new = mailer[m].new
          /\ mailer'[m].row = mailer[m].row /\ mailer'[m].base \in emails
          /\ mailer'[m].base.id = mailer[m].row.id
      BY <1>4, MailerShape DEF SelectEmail
    <2>2. Fits(m) /\ Single
      BY <1>a, <2>1
    <2>3. Fits(m)' /\ Single'
      BY <2>1, <2>2
    <2> QED
      BY <1>b, <2>1, <2>3
  <1>5. ASSUME NEW m \in Mailers, UpdateEmail(m) PROVE Goal
    <2>1. /\ OnlyMailer(m) /\ mailer[m] # Unposted /\ mailer'[m] = Unposted
          /\ mailer[m].pc = "updating" /\ ~blended
          /\ emails' = {RowSaved(m, found) : found \in emails}
      BY <1>5, MailerShape, UpdateChanges DEF UpdateEmail
    <2>2. Fits(m) /\ Single
      BY <1>a, <2>1
    <2>3. \A r \in emails : ~r.verified
      BY <1>a, <2>1, <2>2
    <2>4. \A r \in emails : r = mailer[m].base /\ r.id = mailer[m].row.id /\ r \in EmailRow
      BY <2>1, <2>2 DEF EmailTypeOK
    <2>5. mailer[m].row \in EmailRow
      BY <2>1, MailerTyped
    <2>6. \A r \in emails : RowSaved(m, r).verified => RowSaved(m, r).otp = 0
      <3> SUFFICES ASSUME NEW r \in emails
                   PROVE  RowSaved(m, r).verified => RowSaved(m, r).otp = 0
        OBVIOUS
      <3>1. RowSaved(m, r).verified = mailer[m].row.verified /\ RowSaved(m, r).otp = mailer[m].row.otp
        BY <2>4, <2>5 DEF RowSaved, EmailRow
      <3> QED
        BY <2>1, <2>2, <3>1
    <2>7. Single'
      BY <2>1, <2>2, <2>6
    <2> QED
      BY <1>b, <2>1, <2>3, <2>7
  <1>6. ASSUME UNCHANGED emailVars PROVE Goal
    BY <1>a, <1>6 DEF emailVars
  <1> QED
    BY <1>1, <1>2, <1>3, <1>4, <1>5, <1>6 DEF EmailNext

\* At the start there is no row.
LEMMA EmailStart == EmailInit => EmailInv
  <1> SUFFICES ASSUME EmailInit PROVE EmailInv
    OBVIOUS
  <1>1. /\ mailer \in [Mailers -> Mailing \cup {Unposted}]
        /\ \A m \in Mailers : mailer[m] = Unposted
        /\ emails = {} /\ letters = {} /\ blended = FALSE /\ mails = 0
    BY DEF EmailInit
  <1>2. EmailTypeOK
    <2>1. 0 \in 0..MaxMails
      BY EmailAssumption
    <2> QED
      BY <1>1, <2>1 DEF EmailTypeOK
  <1>3. EmailRoom
    <2>1. Inserters = {}
      BY <1>1 DEF Inserters, Unposted
    <2>2. Cardinality(Mailers) \in Nat
      BY EmailAssumption, FS_CardinalityType
    <2>3. \A m \in Mailers : mailer[m].pc # "inserting"
      BY <1>1 DEF Unposted
    <2> QED
      BY <1>1, <2>1, <2>2, <2>3, FS_EmptySet DEF EmailRoom
  <1>4. OneRow
    BY <1>1 DEF OneRow
  <1> QED
    BY <1>2, <1>3, <1>4 DEF EmailInv

\* An address has no more rows than requests that ran at once, and without overlaps
\* no step takes back that it is verified.
THEOREM EmailsKept == EmailSpec => EmailKept
<1>1. EmailInv /\ [EmailNext]_emailVars => EmailInv'
  BY EmailStepTyped, EmailRoomStep, OneRowStep DEF EmailInv
<1>2. EmailInv => EmailSound
  <2> SUFFICES ASSUME EmailInv PROVE EmailSound
    OBVIOUS
  <2>1. IsFiniteSet(Inserters) /\ IsFiniteSet(emails)
    BY EmailAssumption, FS_Subset DEF Inserters, EmailInv, EmailRoom
  <2>2. /\ Cardinality(emails) \in Nat /\ Cardinality(Inserters) \in Nat
        /\ Cardinality(Mailers) \in Nat
    BY <2>1, FS_CardinalityType, EmailAssumption
  <2>3. Cardinality(emails) + Cardinality(Inserters) <= Cardinality(Mailers)
    BY DEF EmailInv, EmailRoom
  <2>4. EmailRowsBounded
    BY <2>2, <2>3 DEF EmailRowsBounded
  <2> QED
    BY <2>4 DEF EmailInv, EmailSound
<1>3. EmailInv /\ [EmailNext]_emailVars
         => [VerifiedKept]_emailVars
  BY OneRowStep DEF EmailInv, VerifiedKept
<1> QED
  BY <1>1, <1>2, <1>3, EmailStart, PTL DEF EmailSpec, EmailKept, VerifiedStays
=============================================================================
