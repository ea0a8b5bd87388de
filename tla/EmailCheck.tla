------------------------------- MODULE EmailCheck -------------------------------
(***************************************************************************)
(* The verification of one e-mail address to which the results of a survey *)
(* can be sent.  Nothing makes the address unique in verified_emails, and  *)
(* a code is mailed before the row is saved.                               *)
(***************************************************************************)
EXTENDS Naturals, FiniteSets

CONSTANTS
    Mailers,        \* requests that may run at the same time
    MaxMails        \* bound on those ever started

ASSUME EmailAssumption == IsFiniteSet(Mailers) /\ MaxMails \in Nat

VARIABLES
    emails,         \* rows of verified_emails of the address
    letters,        \* codes that were mailed, numbered by their request
    mailer,         \* the running requests
    blended,        \* two requests have run at the same time
    mails           \* requests started

emailVars == <<emails, letters, mailer, blended, mails>>

-----------------------------------------------------------------------------
(* Types                                                                   *)

\* A row: its number, the code it waits for (0 for null), whether it is verified.
EmailRow == [id : 1..MaxMails, otp : 0..MaxMails, verified : BOOLEAN]
Unposted == [pc |-> "none"]

\* A request: its number, the row it found, and the row its save selected.
Mailing == [pc : {"mailing", "inserting", "selecting", "updating"}, own : 1..MaxMails,
            new : BOOLEAN, row : EmailRow, base : EmailRow]

EmailTypeOK ==
    /\ emails \subseteq EmailRow
    /\ letters \subseteq 1..MaxMails
    /\ mailer \in [Mailers -> Mailing \cup {Unposted}]
    /\ blended \in BOOLEAN
    /\ mails \in 0..MaxMails

EmailInit ==
    /\ emails = {} /\ letters = {}
    /\ mailer = [m \in Mailers |-> Unposted]
    /\ blended = FALSE
    /\ mails = 0

-----------------------------------------------------------------------------
(* Starting                                                                *)

Open(m, p, row, new) ==
    /\ mailer[m] = Unposted
    /\ mails < MaxMails
    /\ mails' = mails + 1
    /\ blended' = (blended \/ \E n \in Mailers \ {m} : mailer[n] # Unposted)
    /\ mailer' = [mailer EXCEPT ![m] = [pc |-> p, own |-> mails + 1, new |-> new,
                                        row |-> row, base |-> row]]
    /\ UNCHANGED <<emails, letters>>

NewRow(otp, verified) == [id |-> mails + 1, otp |-> otp, verified |-> verified]

\* Mutant: a row that is verified gets a code as well.
AddAgain(m) ==
    \/ \E row \in emails : Open(m, "mailing", row, FALSE)
    \/ emails = {} /\ Open(m, "mailing", NewRow(mails + 1, FALSE), TRUE)
    \/ emails = {} /\ Open(m, "inserting", NewRow(0, TRUE), TRUE)

\* addVerifiedEmail: one of the rows, if it is not verified, gets a new code; an
\* address without a row gets one, verified at once if it is the user's own.
AddVerifiedEmail(m) ==
    \/ \E row \in emails : ~row.verified /\ Open(m, "mailing", row, FALSE)
    \/ emails = {} /\ Open(m, "mailing", NewRow(mails + 1, FALSE), TRUE)
    \/ emails = {} /\ Open(m, "inserting", NewRow(0, TRUE), TRUE)

\* verifyEmail: one of the rows, and its code, which was mailed.
VerifyEmail(m) ==
    \E row \in emails :
        /\ row.otp \in letters
        /\ Open(m, "selecting", [row EXCEPT !.otp = 0, !.verified = TRUE], FALSE)

-----------------------------------------------------------------------------
(* Steps                                                                   *)

\* The code is mailed before it is saved.
MailCode(m) ==
    /\ mailer[m].pc = "mailing"
    /\ letters' = letters \cup {mailer[m].own}
    /\ mailer' = IF mailer[m].new
                 THEN [mailer EXCEPT ![m].pc = "inserting"]
                 ELSE [mailer EXCEPT ![m].pc = "selecting", ![m].row.otp = mailer[m].own]
    /\ UNCHANGED <<emails, blended, mails>>

\* Mutant: the row of the next request.
InsertNextEmail(m) ==
    /\ mailer[m].pc = "inserting"
    /\ emails' = emails \cup {[mailer[m].row EXCEPT !.id = @ + MaxMails]}
    /\ mailer' = [mailer EXCEPT ![m] = Unposted]
    /\ UNCHANGED <<letters, blended, mails>>

InsertEmail(m) ==
    /\ mailer[m].pc = "inserting"
    /\ emails' = emails \cup {mailer[m].row}
    /\ mailer' = [mailer EXCEPT ![m] = Unposted]
    /\ UNCHANGED <<letters, blended, mails>>

\* save selects the row ...
SelectEmail(m) ==
    /\ mailer[m].pc = "selecting"
    /\ \E row \in emails :
        /\ row.id = mailer[m].row.id
        /\ mailer' = [mailer EXCEPT ![m].pc = "updating", ![m].base = row]
    /\ UNCHANGED <<emails, letters, blended, mails>>

\* Mutant: save inserts the object instead of updating its row.
UpdateByInsert(m) ==
    /\ mailer[m].pc = "updating"
    /\ emails' = emails \cup {[mailer[m].row EXCEPT !.id = mailer[m].own]}
    /\ mailer' = [mailer EXCEPT ![m] = Unposted]
    /\ UNCHANGED <<letters, blended, mails>>

\* ... and updates the columns that differ.
UpdateEmail(m) ==
    LET new == mailer[m].row  base == mailer[m].base
        Written(row) ==
            [row EXCEPT !.otp      = IF new.otp # base.otp THEN new.otp ELSE @,
                        !.verified = IF new.verified # base.verified THEN new.verified ELSE @]
    IN  /\ mailer[m].pc = "updating"
        /\ emails' = {IF row.id = new.id THEN Written(row) ELSE row : row \in emails}
        /\ mailer' = [mailer EXCEPT ![m] = Unposted]
        /\ UNCHANGED <<letters, blended, mails>>

EmailNext == \E m \in Mailers :
    \/ AddVerifiedEmail(m) \/ VerifyEmail(m)
    \/ MailCode(m) \/ InsertEmail(m) \/ SelectEmail(m) \/ UpdateEmail(m)

EmailSpec == EmailInit /\ [][EmailNext]_emailVars

-----------------------------------------------------------------------------
(* Properties                                                              *)

\* Requests that find no row at the same time each insert one: no more rows than
\* requests that ran at once.
EmailRowsBounded == Cardinality(emails) <= Cardinality(Mailers)

\* Types and the number of rows.
EmailSound == EmailTypeOK /\ EmailRowsBounded

\* Without overlaps a verified address stays verified.  (A new code that is being
\* mailed while the old one is verified takes the verification back.)
VerifiedKept  == ~blended' => \A row \in emails : row.verified => row \in emails'
VerifiedStays == [][VerifiedKept]_emailVars

\* What the addresses of customers keep, in each state and in each step.
EmailKept == []EmailSound /\ VerifiedStays
=============================================================================
