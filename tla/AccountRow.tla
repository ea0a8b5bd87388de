------------------------------ MODULE AccountRow ------------------------------
(***************************************************************************)
(* The row of one user and its session: who creates it, who changes it and *)
(* who is let in by it.                                                    *)
(*                                                                         *)
(* Most operations load the whole row, change a column and save the object *)
(* they hold.  TypeORM's save selects the row again and updates every      *)
(* column that differs from the object, the ones changed by somebody else  *)
(* in between included.  A request is authenticated with a row without     *)
(* password; the handlers that look a user up by e-mail hold all of it.    *)
(***************************************************************************)
EXTENDS Integers, FiniteSets

CONSTANTS
    Requests,       \* requests that may run at the same time
    MaxRequests,    \* bound on the requests ever started
    MaxStops        \* bound on the crashes of the process

ASSUME AccountAssumption ==
    /\ IsFiniteSet(Requests) /\ Requests # {}
    /\ MaxRequests \in Nat
    /\ MaxStops \in Nat

VARIABLES
    accounts,       \* rows inserted for the e-mail
    row,            \* the committed columns of the first of them
    parts,          \* wallet, cart, avatar, setting, session and respect policy
                    \* of the first row, in the order they are added
    token,          \* loginToken of the session, 0 for the empty one
    req,            \* the running requests
    wanted,         \* what the operations that mean to change a column made it
    mixed,          \* two requests have run at the same time
    referrals,      \* people who entered the user's referral code
    requests,       \* requests started
    stops           \* crashes so far

accountVars == <<accounts, row, parts, token, req, wanted, mixed, referrals,
                 requests, stops>>

-----------------------------------------------------------------------------
(* Types                                                                   *)

Columns == {"status", "isActive", "withdrawn", "password", "points"}
Parts       == 6
SessionPart == 5

Status == {"ACTIVE", "DISABLED", "TERMINATED"}

\* Passwords and tokens are numbered by the request that made them.
Row == [status : Status, isActive : BOOLEAN, withdrawn : BOOLEAN, password : Nat,
        points : Nat]

FreshRow(active) ==
    [status |-> "ACTIVE", isActive |-> active, withdrawn |-> FALSE, password |-> 0,
     points |-> 0]

Unused == [pc |-> "unused"]

\* A request: what it does next, the columns its object carries and those it
\* means to change, the object, the row its save selected, the token it makes
\* the session's in the end, and whether it does.
Running == [pc : {"inserting", "adding", "loaded", "selected", "updating", "signing"},
            carries : SUBSET Columns, means : SUBSET Columns, mine : Row, base : Row,
            next : Nat, signs : BOOLEAN]

AccountTypeOK ==
    /\ accounts \in Nat
    /\ row \in Row
    /\ parts \in 0..Parts
    /\ token \in Nat
    /\ req \in [Requests -> Running \cup {Unused}]
    /\ wanted \in Row
    /\ mixed \in BOOLEAN
    /\ referrals \in Nat
    /\ requests \in Nat
    /\ stops \in Nat

\* The account is new, or was set up before the requests of this behaviour.
Newcomer == accounts = 0 /\ parts = 0 /\ row = FreshRow(FALSE)
Member == accounts = 1 /\ parts = Parts
          /\ row = [FreshRow(TRUE) EXCEPT !.password = MaxRequests + 1]

AccountInit ==
    /\ Newcomer \/ Member
    /\ token = 0
    /\ req = [r \in Requests |-> Unused]
    /\ wanted = row
    /\ mixed = FALSE
    /\ referrals = 0
    /\ requests = 0
    /\ stops = 0

-----------------------------------------------------------------------------
(* Starting a request                                                      *)

Exists   == accounts > 0
Idle(r)  == req[r] = Unused
Alone(r) == \A q \in Requests \ {r} : Idle(q)

\* checkUserActiveStatus, as validateUser and the JWT strategy call it.
Admitted == Exists /\ row.isActive /\ row.status = "ACTIVE" /\ ~row.withdrawn

\* The JWT strategy compares the token with the session's and checks the status.
Authenticated == token # 0 /\ Admitted

Object(p, cols, change, signs, next) ==
    [pc |-> p, carries |-> cols,
     means |-> {c \in Columns : change[c] # row[c]}, mine |-> change, base |-> row,
     next |-> next, signs |-> signs]

Enter(r, o) ==
    /\ Idle(r)
    /\ requests < MaxRequests
    /\ requests' = requests + 1
    /\ req' = [req EXCEPT ![r] = o]
    /\ mixed' = (mixed \/ ~Alone(r))

Start(r, o) == Enter(r, o) /\ UNCHANGED referrals

\* The number of this request, a password or token nobody else makes.
Own == requests + 1

ByEmail   == Columns
ByRequest == Columns \ {"password"}

Load(r, cols, change)        == Start(r, Object("loaded", cols, change, FALSE, 0))
LoadAndSign(r, change, next) == Start(r, Object("loaded", ByEmail, change, TRUE, next))

\* Mutant: nobody looks whether the e-mail has an account.
SignUpAnyway(r, social) ==
    Start(r, [Object("inserting", ByEmail, FreshRow(social), social, Own)
                EXCEPT !.means = {}])

\* emailVerificationCode and userSocialLogin find nobody with this e-mail.
SignUp(r, social) ==
    /\ ~Exists
    /\ Start(r, [Object("inserting", ByEmail, FreshRow(social), social, Own)
                    EXCEPT !.means = {}])

\* verifyEmailCode checks the status but not whether the e-mail is confirmed.
VerifyEmailCode(r) ==
    /\ Exists
    /\ row.status = "ACTIVE" /\ ~row.withdrawn
    /\ Load(r, ByEmail, [row EXCEPT !.isActive = TRUE])

\* validateUser and userSocialLogin: checkIfOneMonthIdle saves the user, and the
\* controller the new token.
Login(r, social) ==
    /\ Admitted
    /\ parts >= SessionPart
    /\ ~social => row.password # 0
    /\ LoadAndSign(r, row, Own)

\* updateUserOTPRetries, with the user a code was requested for.
DisableUser(r) ==
    /\ Exists
    /\ row.status = "ACTIVE"
    /\ \E cols \in {ByEmail, ByRequest} : Load(r, cols, [row EXCEPT !.status = "DISABLED"])

\* changePassword looks the user up again; withdrawMembership does, too.
ChangePassword(r) ==
    /\ Authenticated
    /\ row.password # 0
    /\ Load(r, ByEmail, [row EXCEPT !.password = Own])

WithdrawMembership(r) ==
    /\ Authenticated
    /\ Load(r, ByEmail, [row EXCEPT !.withdrawn = TRUE])

\* updateUserStatus of the admins.
UpdateUserStatus(r, s) ==
    /\ Exists
    /\ row.status # s
    /\ Load(r, ByEmail, [row EXCEPT !.status = s])

\* checkReferralCode: the user whose code another one enters earns points.  The
\* other's referredBy is not looked at, so the same person may enter it again.
CheckReferralCode(r, again) ==
    /\ Exists
    /\ row.isActive
    /\ again => referrals > 0
    /\ referrals' = referrals + (IF again THEN 0 ELSE 1)
    /\ Enter(r, Object("loaded", ByEmail, [row EXCEPT !.points = @ + 1], FALSE, 0))

\* changeNickName, updateUserProfileImage and the other saves of the user a
\* request was authenticated with.
SaveProfile(r) ==
    /\ Authenticated
    /\ Load(r, ByRequest, row)

\* Mutant: the user of the mail is written as it was loaded, a fresh object.
ConfirmForgotPasswordFresh(r) ==
    /\ Admitted
    /\ Start(r, [Object("updating", Columns, [FreshRow(TRUE) EXCEPT !.password = Own],
                        FALSE, 0) EXCEPT !.means = {"password"}])

\* Mutant: the session is taken to be there.
CreatePasswordAnyway(r) ==
    /\ Exists
    /\ row.isActive
    /\ row.password = 0
    /\ Start(r, Object("updating", {"password"}, [row EXCEPT !.password = Own], TRUE, Own))

\* confirmForgotPassword and createPassword update one column; the session that
\* createPassword then saves may not be there yet.
ConfirmForgotPassword(r) ==
    /\ Admitted
    /\ Start(r, Object("updating", {"password"}, [row EXCEPT !.password = Own], FALSE, 0))

CreatePassword(r) ==
    /\ Exists
    /\ row.isActive
    /\ row.password = 0
    /\ Start(r, Object("updating", {"password"}, [row EXCEPT !.password = Own],
                       parts >= SessionPart, Own))

\* logout and updateFcmToken save the session they were authenticated with.
Logout(r) ==
    /\ Authenticated
    /\ Start(r, Object("signing", {}, row, TRUE, 0))

UpdateFcmToken(r) ==
    /\ Authenticated
    /\ Start(r, Object("signing", {}, row, TRUE, token))

Begins(r) ==
    /\ \/ SignUp(r, TRUE) \/ SignUp(r, FALSE) \/ VerifyEmailCode(r) \/ Login(r, TRUE)
       \/ Login(r, FALSE) \/ DisableUser(r) \/ ChangePassword(r)
       \/ WithdrawMembership(r) \/ (\E s \in Status : UpdateUserStatus(r, s))
       \/ (\E again \in BOOLEAN : CheckReferralCode(r, again)) \/ SaveProfile(r) \/ CreatePassword(r)
       \/ ConfirmForgotPassword(r) \/ Logout(r) \/ UpdateFcmToken(r)
    /\ UNCHANGED <<accounts, row, parts, token, wanted, stops>>

-----------------------------------------------------------------------------
(* Creating the row                                                        *)

Advance(r, p) == req' = [req EXCEPT ![r].pc = p]
Leave(r)      == req' = [req EXCEPT ![r] = Unused]

\* The insert commits before the subscriber adds the parts; the e-mail is not
\* unique.  The model follows the row of the first one who inserts.
Insert(r) ==
    /\ req[r].pc = "inserting"
    /\ accounts' = accounts + 1
    /\ IF Exists
       THEN /\ Leave(r)
            /\ UNCHANGED <<row, wanted>>
       ELSE /\ Advance(r, "adding")
            /\ row' = req[r].mine
            /\ wanted' = req[r].mine
    /\ UNCHANGED <<parts, token, mixed, referrals, requests, stops>>

\* afterInsert adds one part after the other, each time saving the row it holds;
\* userSocialLogin goes on as the login of the new user.
AddPart(r) ==
    /\ req[r].pc = "adding"
    /\ parts' = parts + 1
    /\ row' = req[r].mine
    /\ IF parts' < Parts
       THEN UNCHANGED req
       ELSE IF req[r].signs THEN Advance(r, "loaded") ELSE Leave(r)
    /\ UNCHANGED <<accounts, token, wanted, mixed, referrals, requests, stops>>

-----------------------------------------------------------------------------
(* Saving                                                                  *)

\* save selects the row ...
SelectRow(r) ==
    /\ req[r].pc = "loaded"
    /\ req' = [req EXCEPT ![r].pc = "selected", ![r].base = row]
    /\ UNCHANGED <<accounts, row, parts, token, wanted, mixed, referrals, requests, stops>>

Overlay(r, cols, old) == [c \in Columns |-> IF c \in cols THEN req[r].mine[c] ELSE old[c]]

\* The columns of the object that the selected row does not have.
Differs(r) == {c \in req[r].carries : req[r].mine[c] # req[r].base[c]}

\* ... and updates the columns that differ; update writes the ones it is given.
WriteRow(r, cols) ==
    /\ row' = Overlay(r, cols, row)
    /\ wanted' = Overlay(r, req[r].means, wanted)
    /\ IF req[r].signs THEN Advance(r, "signing") ELSE Leave(r)
    /\ UNCHANGED <<accounts, parts, token, mixed, referrals, requests, stops>>

SaveRow(r) ==
    /\ req[r].pc = "selected"
    /\ WriteRow(r, Differs(r))

UpdateColumn(r) ==
    /\ req[r].pc = "updating"
    /\ WriteRow(r, req[r].carries)

\* updateLoginToken, or the session of the request saved with a new device.
SaveSession(r) ==
    /\ req[r].pc = "signing"
    /\ token' = req[r].next
    /\ Leave(r)
    /\ UNCHANGED <<accounts, row, parts, wanted, mixed, referrals, requests, stops>>

\* The process stops: what was not written is lost.
Stop ==
    /\ stops < MaxStops
    /\ stops' = stops + 1
    /\ req' = [r \in Requests |-> Unused]
    /\ UNCHANGED <<accounts, row, parts, token, wanted, mixed, referrals, requests>>

-----------------------------------------------------------------------------

Steps(r) ==
    Insert(r) \/ AddPart(r) \/ SelectRow(r) \/ SaveRow(r) \/ UpdateColumn(r) \/ SaveSession(r)

AccountNext == (\E r \in Requests : Begins(r) \/ Steps(r)) \/ Stop

AccountSpec == AccountInit /\ [][AccountNext]_accountVars

-----------------------------------------------------------------------------
(* Properties                                                              *)

\* Two sign-ups that both find nobody both insert a row, because the e-mail is
\* not unique; but once a row is there nobody inserts another one, so there are
\* never more rows than requests that ran at the same time.
AccountsBounded == accounts <= Cardinality(Requests)

\* Nobody is signed in to an account whose sign-up did not get as far as the
\* session, wherever the process stopped in between.
SignedInHasSession == token # 0 => parts >= SessionPart

\* Requests that run one after the other lose nothing of each other: the row is
\* what the operations that mean to change a column made it.
NothingLostAlone == ~mixed => row = wanted

\* The row of the user and its session fit together, whatever overlaps and
\* wherever the process stops.
AccountSound ==
    AccountTypeOK /\ AccountsBounded /\ SignedInHasSession /\ NothingLostAlone
=============================================================================
