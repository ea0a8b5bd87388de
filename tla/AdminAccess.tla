------------------------------ MODULE AdminAccess ------------------------------
(***************************************************************************)
(* How one admin gets in: the invitation, the password, the second factor  *)
(* and the forgotten password.  The row is loaded, changed and saved as a  *)
(* whole, like that of a user; the tokens lie in the cache under the       *)
(* e-mail, one of each type, and a request presents the last one issued,   *)
(* because the handlers refuse any other.                                  *)
(***************************************************************************)
EXTENDS Integers, FiniteSets

CONSTANTS
    Sessions,         \* requests that may run at the same time
    MaxCalls        \* bound on the requests ever started

ASSUME AdminAssumption ==
    /\ IsFiniteSet(Sessions)
    /\ MaxCalls \in Nat

VARIABLES
    exists,         \* the row is inserted; the e-mail is unique
    admin,          \* its committed columns
    tokens,         \* invitation, second factor, forgotten password; 0 if none
    job,            \* the running requests
    logins,         \* login tokens issued
    uses2,          \* login tokens issued for each second-factor token
    accepted,       \* an invitation was accepted with a password
    overlap,        \* two requests have run at the same time
    calls           \* requests started

adminVars == <<exists, admin, tokens, job, logins, uses2, accepted, overlap, calls>>

-----------------------------------------------------------------------------
(* Types                                                                   *)

TokenTypes == {"invite", "second", "forgot"}
AdminColumns == {"active", "confirmed", "twoFa", "key", "password"}
AdminRow == [active : BOOLEAN, confirmed : BOOLEAN, twoFa : BOOLEAN, key : Nat,
             password : Nat]

Off == [pc |-> "off"]

\* A request: what it does next and for what, its number, the token it was
\* accepted with, the row it holds and the row its save selected.
Jobs == [pc : {"creating", "loading", "loaded", "selected", "dropping", "signing",
               "issuing"},
         kind : {"invite", "set", "login", "totp", "verify", "toggle", "forgot",
                 "confirm"},
         own : Nat, token : Nat, mine : AdminRow, base : AdminRow]

AdminTypeOK ==
    /\ exists \in BOOLEAN
    /\ admin \in AdminRow
    /\ tokens \in [TokenTypes -> 0..MaxCalls]
    /\ job \in [Sessions -> Jobs \cup {Off}]
    /\ logins \in Nat
    /\ uses2 \in [0..MaxCalls -> Nat]
    /\ accepted \in BOOLEAN
    /\ overlap \in BOOLEAN
    /\ calls \in 0..MaxCalls

AdminInit ==
    /\ exists = FALSE
    /\ admin = [active |-> FALSE, confirmed |-> FALSE, twoFa |-> FALSE, key |-> 0,
                password |-> 0]
    /\ tokens = [t \in TokenTypes |-> 0]
    /\ job = [c \in Sessions |-> Off]
    /\ logins = 0
    /\ uses2 = [n \in 0..MaxCalls |-> 0]
    /\ accepted = FALSE
    /\ overlap = FALSE
    /\ calls = 0

-----------------------------------------------------------------------------
(* Starting a request                                                      *)

TakeWith(c, p, k, t) ==
    /\ job[c] = Off
    /\ calls < MaxCalls
    /\ calls' = calls + 1
    /\ overlap' = (overlap \/ \E d \in Sessions \ {c} : job[d] # Off)
    /\ job' = [job EXCEPT ![c] =
                  [pc |-> p, kind |-> k, own |-> calls + 1, token |-> t,
                   mine |-> admin, base |-> admin]]

Take(c, p, k) == TakeWith(c, p, k, 0)

\* sendEmail, of adminCreation and of another admin.
Invite(c) == ~admin.confirmed /\ Take(c, IF exists THEN "signing" ELSE "creating", "invite")

\* Mutant: the status and the password are not looked at.
AdminLoginAnyway(c) == exists /\ Take(c, "signing", "login")

\* validateUser: the status, then the password.
AdminLogin(c) == admin.active /\ admin.password # 0 /\ Take(c, "signing", "login")

AdminForgot(c) == exists /\ Take(c, "signing", "forgot")

\* toggle_2fa, with a login token and a code of the key of the row it loaded.
Toggle(c) == logins > 0 /\ admin.key # 0 /\ Take(c, "loaded", "toggle")

\* validateConfirmationToken: the token of the cache ...
Presented(k) == IF k = "set" THEN "invite" ELSE IF k = "confirm" THEN "forgot" ELSE "second"
Present(c, k) ==
    /\ tokens[Presented(k)] # 0
    /\ TakeWith(c, "loading", k, tokens[Presented(k)])

Starts(c) ==
    /\ \/ Invite(c) \/ AdminLogin(c) \/ AdminForgot(c) \/ Toggle(c)
       \/ \E k \in {"set", "totp", "verify", "confirm"} : Present(c, k)
    /\ UNCHANGED <<exists, admin, tokens, logins, uses2, accepted>>

-----------------------------------------------------------------------------
(* The steps of a request                                                  *)

GoOn(c, p) == job' = [job EXCEPT ![c].pc = p]
End(c)     == job' = [job EXCEPT ![c] = Off]
Quiet      == UNCHANGED <<overlap, calls>>

\* createAdmin: nobody else may have inserted the e-mail.
CreateAdmin(c) ==
    /\ job[c].pc = "creating"
    /\ exists' = TRUE
    /\ IF exists THEN End(c) ELSE GoOn(c, "signing")
    /\ UNCHANGED <<admin, tokens, logins, uses2, accepted>> /\ Quiet

\* ... and then the row.  An invitation is for an admin who is not confirmed, a
\* key is made for one who has none and no second factor yet, and a code is one
\* of the key of this row.
Proceeds(k) ==
    CASE k = "set"    -> ~admin.confirmed
      [] k = "totp"   -> ~admin.twoFa /\ admin.key = 0
      [] k = "verify" -> admin.key # 0
      [] OTHER        -> TRUE

LoadAdmin(c) ==
    /\ job[c].pc = "loading"
    /\ IF Proceeds(job[c].kind)
       THEN job' = [job EXCEPT ![c].pc = IF job[c].kind = "verify" /\ admin.twoFa
                                         THEN "issuing" ELSE "loaded",
                               ![c].mine = admin]
       ELSE End(c)
    /\ UNCHANGED <<exists, admin, tokens, logins, uses2, accepted>> /\ Quiet

\* Mutant: a forgotten password activates the account.
ChangedActivates(j) ==
    CASE j.kind = "set"     -> [j.mine EXCEPT !.password = j.own, !.active = TRUE,
                                              !.confirmed = TRUE]
      [] j.kind = "totp"    -> [j.mine EXCEPT !.key = j.own, !.twoFa = FALSE]
      [] j.kind = "confirm" -> [j.mine EXCEPT !.password = j.own, !.active = TRUE]
      [] OTHER              -> [j.mine EXCEPT !.twoFa = ~@]

\* The object that is saved: setPassword, setToTpURI, toggle2FA and
\* confirmForgotPassword of the admin service.
Changed(j) ==
    CASE j.kind = "set"     -> [j.mine EXCEPT !.password = j.own, !.active = TRUE,
                                              !.confirmed = TRUE]
      [] j.kind = "totp"    -> [j.mine EXCEPT !.key = j.own, !.twoFa = FALSE]
      [] j.kind = "confirm" -> [j.mine EXCEPT !.password = j.own]
      [] OTHER              -> [j.mine EXCEPT !.twoFa = ~@]

\* save selects the row ...
SelectAdmin(c) ==
    /\ job[c].pc = "loaded"
    /\ job' = [job EXCEPT ![c].pc = "selected", ![c].base = admin]
    /\ UNCHANGED <<exists, admin, tokens, logins, uses2, accepted>> /\ Quiet

\* ... and updates the columns in which the object differs from it.
SaveAdmin(c) ==
    /\ job[c].pc = "selected"
    /\ LET new == Changed(job[c])
       IN  admin' = [a \in AdminColumns |->
                        IF new[a] # job[c].base[a] THEN new[a] ELSE admin[a]]
    /\ accepted' = (accepted \/ job[c].kind = "set")
    /\ CASE job[c].kind \in {"totp", "toggle"} -> End(c)
         [] job[c].kind = "verify"             -> GoOn(c, "issuing")
         [] OTHER                              -> GoOn(c, "dropping")
    /\ UNCHANGED <<exists, tokens, logins, uses2>> /\ Quiet

\* verify2FA makes the login token before it deletes the one it was given.
Issue(c) ==
    /\ job[c].pc = "issuing"
    /\ logins' = logins + 1
    /\ uses2' = [uses2 EXCEPT ![job[c].token] = @ + 1]
    /\ GoOn(c, "dropping")
    /\ UNCHANGED <<exists, admin, tokens, accepted>> /\ Quiet

\* Mutant: the token is only deleted when it invites.
DropInvitation(c) ==
    /\ job[c].pc = "dropping"
    /\ IF job[c].kind = "set"
       THEN tokens' = [tokens EXCEPT !["invite"] = 0] /\ GoOn(c, "signing")
       ELSE UNCHANGED tokens /\ End(c)
    /\ UNCHANGED <<exists, admin, logins, uses2, accepted>> /\ Quiet

\* delToken: the token of the type, be it the one presented or a newer one.
DropToken(c) ==
    /\ job[c].pc = "dropping"
    /\ tokens' = [tokens EXCEPT ![Presented(job[c].kind)] = 0]
    /\ IF job[c].kind = "set" THEN GoOn(c, "signing") ELSE End(c)
    /\ UNCHANGED <<exists, admin, logins, uses2, accepted>> /\ Quiet

\* setToken: an accepted invitation and a password open the second step.
Signed(k) == CASE k = "invite" -> "invite" [] k = "forgot" -> "forgot" [] OTHER -> "second"
SetToken(c) ==
    /\ job[c].pc = "signing"
    /\ tokens' = [tokens EXCEPT ![Signed(job[c].kind)] = job[c].own]
    /\ End(c)
    /\ UNCHANGED <<exists, admin, logins, uses2, accepted>> /\ Quiet

\* Tokens live 30 minutes or a day.
ExpireToken(t) ==
    /\ tokens[t] # 0
    /\ tokens' = [tokens EXCEPT ![t] = 0]
    /\ UNCHANGED <<exists, admin, job, logins, uses2, accepted>> /\ Quiet

AdminNext ==
    \/ \E c \in Sessions :
        \/ Starts(c) \/ CreateAdmin(c) \/ LoadAdmin(c) \/ SelectAdmin(c) \/ SaveAdmin(c)
        \/ Issue(c) \/ DropToken(c) \/ SetToken(c)
    \/ \E t \in TokenTypes : ExpireToken(t)

AdminSpec == AdminInit /\ [][AdminNext]_adminVars

-----------------------------------------------------------------------------
(* Properties                                                              *)

\* A login token is issued only after the invitation was accepted with a
\* password, whichever of the tokens are requested, replaced or presented twice.
LoginEarned == logins > 0 => accepted

\* One second-factor token is turned into at most as many login tokens as
\* requests run at once, although it is deleted last.
SecondFactorBounded == \A n \in 1..MaxCalls : uses2[n] <= Cardinality(Sessions)

\* As long as requests do not overlap, the columns agree: the second factor is
\* on only with a key, and the admin is active exactly when confirmed.  (Saves
\* that overlap can turn it on without a key: then neither verify_2fa nor
\* get_totp_uri lets the admin in again.)
ColumnsAgree ==
    ~overlap => /\ admin.twoFa => admin.key # 0
                /\ admin.active = admin.confirmed
                /\ admin.confirmed => admin.password # 0

\* An admin gets in by the invitation, the password and the second factor, in
\* this order, whichever requests overlap or are made twice.
AdminSound == AdminTypeOK /\ LoginEarned /\ SecondFactorBounded /\ ColumnsAgree
=============================================================================
