------------------------------- MODULE Throttle -------------------------------
(***************************************************************************)
(* The counters in the cache that throttle wrong passwords and one-time    *)
(* codes: the cache manager and the handlers of the auth service that use  *)
(* it.  Redis executes one get, set or del at a time and nothing holds two *)
(* of them together, so every await on the cache is a step of its own.     *)
(*                                                                         *)
(* A key is an address the cache keeps counters for: the e-mail of an      *)
(* account or a phone number.  All keys belong to one user.                *)
(***************************************************************************)
EXTENDS Integers, FiniteSets

CONSTANTS
    Handlers,       \* requests that may run at the same time
    Email,          \* the address the account logs in with
    Phones,         \* phone numbers the user verifies
    Limit,          \* failures that block an address (5 in the code)
    MaxBlocks,      \* blocks that disable the user (3 in the code)
    Budgets         \* bounds on the logins, code requests and crashes of a run

Keys == {Email} \cup Phones

ASSUME ThrottleAssumption ==
    /\ IsFiniteSet(Handlers)
    /\ Email \notin Phones
    /\ Limit \in Nat \ {0}
    /\ MaxBlocks \in Nat \ {0}
    /\ Budgets \subseteq [logins : Nat, codes : Nat, crashes : Nat]

VARIABLES
    block,          \* BLOCK:<key>: who set it, with the time to live of each
    attempts,       \* LOGIN:<key>
    retries,        \* OTP_ATTEMPT:<key>
    tally,          \* BLOCK_COUNT:<key>
    code,           \* OTP:<key> is present
    enabled,        \* the committed status of the user is ACTIVE
    call,           \* the running requests
    guesses,        \* wrong passwords since the counter was last deleted
    lockouts,       \* times a request blocked the key for its codes
    uses,           \* requests that accepted the current code
    left,           \* what is left of the budget
    crashes         \* crashes so far

throttleVars == <<block, attempts, retries, tally, code, enabled, call, guesses,
                  lockouts, uses, left, crashes>>

-----------------------------------------------------------------------------
(* Types                                                                   *)

Resting == [pc |-> "resting"]

\* A request: what it does next, the counter it read, the number of blocks it
\* read, whether the row it loaded is ACTIVE, and whether it counts once more
\* when its mail fails.
Calls == [pc : {"failing", "counting", "raising", "blocking", "clearing",
                "resetting", "dropping", "sending", "retrying", "reading",
                "tallied", "retried", "closing", "tallying", "forgetting",
                "disabling", "confirming", "lifting", "untallying", "voiding"},
          kind : {"login", "forgot", "signup", "phone", "confirm"},
          key : Keys, seen : Nat, blocks : Nat, active : BOOLEAN, again : BOOLEAN]

ThrottleTypeOK ==
    /\ block \in [Keys -> {"none", "login", "codes"}]
    /\ attempts \in [Keys -> Nat]
    /\ retries \in [Keys -> Nat]
    /\ tally \in [Keys -> Nat]
    /\ code \in [Keys -> BOOLEAN]
    /\ enabled \in BOOLEAN
    /\ call \in [Handlers -> Calls \cup {Resting}]
    /\ guesses \in [Keys -> Nat]
    /\ lockouts \in [Keys -> Nat]
    /\ uses \in [Keys -> Nat]
    /\ left \in [logins : Nat, codes : Nat, crashes : Nat]
    /\ crashes \in Nat

ThrottleInit ==
    /\ block = [k \in Keys |-> "none"]
    /\ attempts = [k \in Keys |-> 0]
    /\ retries = [k \in Keys |-> 0]
    /\ tally = [k \in Keys |-> 0]
    /\ code = [k \in Keys |-> FALSE]
    /\ enabled = TRUE
    /\ call = [h \in Handlers |-> Resting]
    /\ guesses = [k \in Keys |-> 0]
    /\ lockouts = [k \in Keys |-> 0]
    /\ uses = [k \in Keys |-> 0]
    /\ left \in Budgets
    /\ crashes = 0

-----------------------------------------------------------------------------
(* Starting a request                                                      *)

Request(p, d, k) ==
    [pc |-> p, kind |-> d, key |-> k, seen |-> 0, blocks |-> 0,
     active |-> enabled, again |-> FALSE]

Begin(h, c) ==
    /\ call[h] = Resting
    /\ IF c.kind = "login"
       THEN left.logins > 0 /\ left' = [left EXCEPT !.logins = @ - 1]
       ELSE left.codes > 0 /\ left' = [left EXCEPT !.codes = @ - 1]
    /\ call' = [call EXCEPT ![h] = c]
    /\ UNCHANGED <<block, attempts, retries, tally, code, enabled, lockouts, crashes>>

\* validateUser with the right password of an account that may log in.
LoginRight(h) ==
    /\ block[Email] = "none"
    /\ enabled
    /\ Begin(h, Request("resetting", "login", Email))
    /\ UNCHANGED <<guesses, uses>>

\* userSocialLogin looks at no block.
LoginSocial(h) ==
    /\ enabled
    /\ Begin(h, Request("resetting", "login", Email))
    /\ UNCHANGED <<guesses, uses>>

\* validateUser with a wrong password, or of an account it refuses.
LoginWrong(h) ==
    /\ block[Email] = "none"
    /\ Begin(h, Request("failing", "login", Email))
    /\ guesses' = [guesses EXCEPT ![Email] = @ + 1]
    /\ UNCHANGED uses

\* validateUser of a blocked address: its own error is counted like the others.
LoginBlocked(h) ==
    /\ block[Email] # "none"
    /\ Begin(h, Request("failing", "login", Email))
    /\ UNCHANGED <<guesses, uses>>

\* The requests for a code by mail, for a password or a sign-up, and for a code
\* by text message.  checkUserActiveStatus may refuse the user although the
\* status is ACTIVE, and the error is counted as well.
AskCode(h, d, k) ==
    /\ (d = "phone") <=> (k \in Phones)
    /\ block[k] = "none"
    /\ \/ /\ enabled
          /\ Begin(h, Request("sending", d, k))
       \/ Begin(h, Request("retrying", d, k))
    /\ UNCHANGED <<guesses, uses>>

\* forgotPassword and sendPhoneNumberOtp of a blocked address delete its code.
\* emailVerificationCode stops at the undefined user in its catch instead.
AskCodeBlocked(h, d, k) ==
    /\ (d = "phone") <=> (k \in Phones)
    /\ block[k] # "none"
    /\ Begin(h, Request("dropping", d, k))
    /\ UNCHANGED <<guesses, uses>>

\* verifyEmailCode, confirmForgotPassword and verifyPhoneOtp load the user first.
Confirm(h, k) ==
    /\ enabled
    /\ Begin(h, Request("confirming", "confirm", k))
    /\ UNCHANGED <<guesses, uses>>

-----------------------------------------------------------------------------
(* Wrong passwords: updateFailedLoginAttempts                              *)

Go(h, p)  == call' = [call EXCEPT ![h].pc = p]
Finish(h) == call' = [call EXCEPT ![h] = Resting]
On(h)     == call[h].key

\* checkIfUserBlocked, then the counter.
ReadBlock(h) ==
    /\ call[h].pc = "failing"
    /\ IF block[On(h)] = "none" THEN Go(h, "counting") ELSE Finish(h)
    /\ UNCHANGED <<block, attempts, retries, tally, code, enabled, guesses, lockouts,
                   uses, left, crashes>>

ReadAttempts(h) ==
    /\ call[h].pc = "counting"
    /\ call' = [call EXCEPT ![h].pc = "raising", ![h].seen = attempts[On(h)] + 1]
    /\ UNCHANGED <<block, attempts, retries, tally, code, enabled, guesses, lockouts,
                   uses, left, crashes>>

\* Mutant: the limit is compared with the counter that was read.
RaiseAttemptsLate(h) ==
    /\ call[h].pc = "raising"
    /\ attempts' = [attempts EXCEPT ![On(h)] = call[h].seen]
    /\ IF call[h].seen > Limit THEN Go(h, "blocking") ELSE Finish(h)
    /\ UNCHANGED <<block, retries, tally, code, enabled, guesses, lockouts, uses,
                   left, crashes>>

RaiseAttempts(h) ==
    /\ call[h].pc = "raising"
    /\ attempts' = [attempts EXCEPT ![On(h)] = call[h].seen]
    /\ IF call[h].seen >= Limit THEN Go(h, "blocking") ELSE Finish(h)
    /\ UNCHANGED <<block, retries, tally, code, enabled, guesses, lockouts, uses,
                   left, crashes>>

BlockLogin(h) ==
    /\ call[h].pc = "blocking"
    /\ block' = [block EXCEPT ![On(h)] = "login"]
    /\ Go(h, "clearing")
    /\ UNCHANGED <<attempts, retries, tally, code, enabled, guesses, lockouts, uses,
                   left, crashes>>

\* deleteFailedLoginAttempts, after a block or after the right password.
ClearAttempts(h) ==
    /\ call[h].pc \in {"clearing", "resetting"}
    /\ attempts' = [attempts EXCEPT ![On(h)] = 0]
    /\ guesses' = [guesses EXCEPT ![On(h)] = 0]
    /\ Finish(h)
    /\ UNCHANGED <<block, retries, tally, code, enabled, lockouts, uses, left, crashes>>

-----------------------------------------------------------------------------
(* Codes: updateUserOTPRetries and updateEmailOTPAttempts                  *)

\* deleteOTP of a blocked address.
DropCode(h) ==
    /\ call[h].pc = "dropping"
    /\ code' = [code EXCEPT ![On(h)] = FALSE]
    /\ Finish(h)
    /\ UNCHANGED <<block, attempts, retries, tally, enabled, guesses, lockouts, uses,
                   left, crashes>>

\* setOTP.  Only forgotPassword counts before it mails, and counts again in its
\* catch when the mail fails.
SetCode(h) ==
    /\ call[h].pc = "sending"
    /\ code' = [code EXCEPT ![On(h)] = TRUE]
    /\ uses' = [uses EXCEPT ![On(h)] = 0]
    /\ call' = [call EXCEPT ![h].pc = "retrying", ![h].again = call[h].kind = "forgot"]
    /\ UNCHANGED <<block, attempts, retries, tally, enabled, guesses, lockouts, left,
                   crashes>>

\* The count of a request is over; the mail of forgotPassword is sent or fails.
CountedOnce(h) ==
    \/ Finish(h)
    \/ /\ call[h].again
       /\ call' = [call EXCEPT ![h].pc = "retrying", ![h].again = FALSE]

\* Only a user who was ACTIVE when loaded, at an address that is not blocked.
CheckRetry(h) ==
    /\ call[h].pc = "retrying"
    /\ IF call[h].active /\ block[On(h)] = "none" THEN Go(h, "reading") ELSE CountedOnce(h)
    /\ UNCHANGED <<block, attempts, retries, tally, code, enabled, guesses, lockouts,
                   uses, left, crashes>>

\* Mutant: the counter counts down.
ReadRetriesDown(h) ==
    /\ call[h].pc = "reading"
    /\ call' = [call EXCEPT ![h].pc = "tallied", ![h].seen = retries[On(h)] - 1]
    /\ UNCHANGED <<block, attempts, retries, tally, code, enabled, guesses, lockouts,
                   uses, left, crashes>>

ReadRetries(h) ==
    /\ call[h].pc = "reading"
    /\ call' = [call EXCEPT ![h].pc = "tallied", ![h].seen = retries[On(h)] + 1]
    /\ UNCHANGED <<block, attempts, retries, tally, code, enabled, guesses, lockouts,
                   uses, left, crashes>>

ReadTally(h) ==
    /\ call[h].pc = "tallied"
    /\ call' = [call EXCEPT ![h].pc = "retried", ![h].blocks = tally[On(h)]]
    /\ UNCHANGED <<block, attempts, retries, tally, code, enabled, guesses, lockouts,
                   uses, left, crashes>>

\* Mutant: the block that may come is counted already.
CheckTallyEarly(h) ==
    IF call[h].blocks + 1 >= MaxBlocks THEN Go(h, "disabling") ELSE CountedOnce(h)

\* The number of blocks is compared although this request did not add to it.
CheckTally(h) == IF call[h].blocks >= MaxBlocks THEN Go(h, "disabling") ELSE CountedOnce(h)

RaiseRetries(h) ==
    /\ call[h].pc = "retried"
    /\ retries' = [retries EXCEPT ![On(h)] = call[h].seen]
    /\ IF call[h].seen >= Limit THEN Go(h, "closing") ELSE CheckTally(h)
    /\ UNCHANGED <<block, attempts, tally, code, enabled, guesses, lockouts, uses,
                   left, crashes>>

BlockCodes(h) ==
    /\ call[h].pc = "closing"
    /\ block' = [block EXCEPT ![On(h)] = "codes"]
    /\ lockouts' = [lockouts EXCEPT ![On(h)] = @ + 1]
    /\ call' = [call EXCEPT ![h].pc = "tallying", ![h].blocks = @ + 1]
    /\ UNCHANGED <<attempts, retries, tally, code, enabled, guesses, uses, left, crashes>>

SetTally(h) ==
    /\ call[h].pc = "tallying"
    /\ tally' = [tally EXCEPT ![On(h)] = call[h].blocks]
    /\ Go(h, "forgetting")
    /\ UNCHANGED <<block, attempts, retries, code, enabled, guesses, lockouts, uses,
                   left, crashes>>

\* deleteFailedEmailOTPAttempts, of a block or of a confirmed code.
ClearRetries(h) ==
    /\ call[h].pc = "forgetting"
    /\ retries' = [retries EXCEPT ![On(h)] = 0]
    /\ IF call[h].kind = "confirm" THEN Finish(h) ELSE CheckTally(h)
    /\ UNCHANGED <<block, attempts, tally, code, enabled, guesses, lockouts, uses,
                   left, crashes>>

\* getOTP of a confirmation, and the comparison with the code it was given.
AcceptCode(h) ==
    /\ call[h].pc = "confirming"
    /\ \/ /\ code[On(h)]
          /\ uses' = [uses EXCEPT ![On(h)] = @ + 1]
          /\ Go(h, "lifting")
       \/ /\ Finish(h)
          /\ UNCHANGED uses
    /\ UNCHANGED <<block, attempts, retries, tally, code, enabled, guesses, lockouts,
                   left, crashes>>

\* The user is saved DISABLED and the block is lifted.
Disable(h) ==
    /\ call[h].pc = "disabling"
    /\ enabled' = FALSE
    /\ Go(h, "lifting")
    /\ UNCHANGED <<block, attempts, retries, tally, code, guesses, lockouts, uses,
                   left, crashes>>

\* deleteFailedBlockCount: three deletions, of which a confirmation makes a
\* fourth.
LiftBlock(h) ==
    /\ call[h].pc = "lifting"
    /\ block' = [block EXCEPT ![On(h)] = "none"]
    /\ Go(h, "untallying")
    /\ UNCHANGED <<attempts, retries, tally, code, enabled, guesses, lockouts, uses,
                   left, crashes>>

ClearTally(h) ==
    /\ call[h].pc = "untallying"
    /\ tally' = [tally EXCEPT ![On(h)] = 0]
    /\ Go(h, "voiding")
    /\ UNCHANGED <<block, attempts, retries, code, enabled, guesses, lockouts, uses,
                   left, crashes>>

\* Mutant: a confirmed code is kept.
VoidCodeKept(h) ==
    /\ call[h].pc = "voiding"
    /\ IF call[h].kind = "confirm"
       THEN Go(h, "forgetting") /\ UNCHANGED code
       ELSE Finish(h) /\ code' = [code EXCEPT ![On(h)] = FALSE]
    /\ UNCHANGED <<block, attempts, retries, tally, enabled, guesses, lockouts, uses,
                   left, crashes>>

VoidCode(h) ==
    /\ call[h].pc = "voiding"
    /\ code' = [code EXCEPT ![On(h)] = FALSE]
    /\ IF call[h].kind = "confirm" THEN Go(h, "forgetting") ELSE Finish(h)
    /\ UNCHANGED <<block, attempts, retries, tally, enabled, guesses, lockouts, uses,
                   left, crashes>>

-----------------------------------------------------------------------------
(* Time, the admins, and the end of the process                            *)

\* A block lives 30 minutes or 24 hours, a code 3 minutes or 24 hours.
Expire(k) ==
    /\ \/ /\ block[k] # "none"
          /\ block' = [block EXCEPT ![k] = "none"]
          /\ UNCHANGED code
       \/ /\ code[k]
          /\ code' = [code EXCEPT ![k] = FALSE]
          /\ UNCHANGED block
    /\ UNCHANGED <<attempts, retries, tally, enabled, call, guesses, lockouts, uses,
                   left, crashes>>

\* updateUserStatus of the admins.
Reinstate ==
    /\ ~enabled
    /\ enabled' = TRUE
    /\ UNCHANGED <<block, attempts, retries, tally, code, call, guesses, lockouts, uses,
                   left, crashes>>

Crash ==
    /\ left.crashes > 0
    /\ left' = [left EXCEPT !.crashes = @ - 1]
    /\ crashes' = crashes + 1
    /\ call' = [h \in Handlers |-> Resting]
    /\ UNCHANGED <<block, attempts, retries, tally, code, enabled, guesses, lockouts,
                   uses>>

-----------------------------------------------------------------------------

LoginStep(h) ==
    \/ ReadBlock(h) \/ ReadAttempts(h) \/ RaiseAttempts(h) \/ BlockLogin(h)
    \/ ClearAttempts(h)

CodeStep(h) ==
    \/ DropCode(h) \/ SetCode(h) \/ CheckRetry(h) \/ ReadRetries(h) \/ ReadTally(h)
    \/ RaiseRetries(h) \/ BlockCodes(h) \/ SetTally(h) \/ ClearRetries(h)
    \/ AcceptCode(h) \/ Disable(h)
    \/ LiftBlock(h) \/ ClearTally(h) \/ VoidCode(h)

StartStep(h) ==
    \/ LoginRight(h) \/ LoginSocial(h) \/ LoginWrong(h) \/ LoginBlocked(h)
    \/ \E k \in Keys :
        \/ Confirm(h, k)
        \/ \E d \in {"forgot", "signup", "phone"} : AskCode(h, d, k)
        \/ \E d \in {"forgot", "phone"} : AskCodeBlocked(h, d, k)

ThrottleNext ==
    \/ \E h \in Handlers : LoginStep(h) \/ CodeStep(h) \/ StartStep(h)
    \/ \E k \in Keys : Expire(k)
    \/ Reinstate
    \/ Crash

ThrottleSpec == ThrottleInit /\ [][ThrottleNext]_throttleVars

-----------------------------------------------------------------------------
(* Properties                                                              *)

\* A counter that has reached the limit belongs to a request that is about to
\* block the address and delete the counter; only a crash leaves it behind.
FullCounterBlocks ==
    crashes = 0 => \A k \in Keys :
        /\ attempts[k] >= Limit =>
              \E h \in Handlers : call[h].pc \in {"blocking", "clearing"} /\ On(h) = k
        /\ retries[k] >= Limit =>
              \E h \in Handlers : call[h].pc \in {"closing", "tallying", "forgetting"}
                                   /\ On(h) = k

\* However the counts of overlapping requests replace each other, no user is
\* disabled before one of the addresses was blocked MaxBlocks times.
DisabledAfterBlocks == ~enabled => \E k \in Keys : lockouts[k] >= MaxBlocks

\* A code is accepted by at most as many requests as run at once, and by as many
\* again after every crash before its deletion.
CodeUsesBounded == \A k \in Keys : uses[k] <= Cardinality(Handlers) * (crashes + 1)

\* Two overlapping requests lose counts of each other, but not forever: while no
\* block for codes hides a wrong password from the counter, at most this many
\* pass before it is deleted by a block or a right password, 17 with the limit of
\* the code.
Tolerance == (Limit * (Limit + 1)) \div 2 + 2
GuessesBounded ==
    crashes = 0 /\ lockouts[Email] = 0 /\ Cardinality(Handlers) = 2
        => guesses[Email] <= Tolerance

\* However requests overlap, what throttles them stays in force: a full counter
\* blocks its address, wrong passwords and uses of a code stay bounded, and only
\* blocked addresses cost the account.
ThrottleSound ==
    /\ ThrottleTypeOK /\ FullCounterBlocks /\ DisabledAfterBlocks
    /\ CodeUsesBounded /\ GuessesBounded
=============================================================================
