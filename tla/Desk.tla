---------------------------------- MODULE Desk ----------------------------------
(***************************************************************************)
(* One inquiry of a user at the customer service.  The user edits or       *)
(* deletes it and its attachments while it waits for an answer; admins     *)
(* take it up, answer or discard it.  Each request loads the inquiry,      *)
(* checks its status, and writes several rows, without a transaction.      *)
(***************************************************************************)
EXTENDS Naturals, FiniteSets

CONSTANTS
    Visits,         \* requests that may run at the same time
    MaxAttachments, \* attachments of a user (3 in the code)
    MaxVisits,      \* bound on the requests ever started
    MaxOutages      \* bound on the crashes of the process

ASSUME DeskAssumption ==
    /\ IsFiniteSet(Visits) /\ Visits # {}
    /\ MaxAttachments \in Nat /\ MaxVisits \in Nat /\ MaxOutages \in Nat

VARIABLES
    inquiry,        \* the row of inquiries
    files,          \* rows of inquiries_attachments that belong to it
    history,        \* rows of inquiry_status_history that belong to it
    visit,          \* the running requests
    closed,         \* it was completed or discarded
    again,          \* it was inserted again after it had been deleted
    met,            \* two requests have run at the same time
    visits,         \* requests started
    outages         \* crashes so far

deskVars == <<inquiry, files, history, visit, closed, again, met, visits, outages>>

-----------------------------------------------------------------------------
(* Types                                                                   *)

Statuses == {"waiting", "in progress", "completed", "discarded"}
Final    == {"completed", "discarded"}

Inquiry == [present : BOOLEAN, status : Statuses, reply : 0..MaxVisits]
Missing == [present |-> FALSE, status |-> "waiting", reply |-> 0]

\* An attachment: the request that adds it, its place there, and its type.
File == [visit : 0..MaxVisits, place : 1..MaxAttachments, admin : BOOLEAN]
Outside == [pc |-> "none"]

\* A request: who it is, its attachments, the inquiry it will save with the
\* attachments it has loaded, and what its save has selected.
Visit == [pc    : {"attaching", "logging", "selecting", "updating", "deleting", "detaching"},
          admin : BOOLEAN, own : 1..MaxVisits, files : SUBSET File,
          row   : Inquiry, loaded : SUBSET File, base : Inquiry, found : SUBSET File]

DeskTypeOK ==
    /\ inquiry \in Inquiry
    /\ files \subseteq File
    /\ history \in 0..MaxVisits
    /\ visit \in [Visits -> Visit \cup {Outside}]
    /\ closed \in BOOLEAN
    /\ again \in BOOLEAN
    /\ met \in BOOLEAN
    /\ visits \in 0..MaxVisits
    /\ outages \in 0..MaxOutages

\* registerInquiry has saved the inquiry and its attachments.
DeskInit ==
    /\ inquiry = [Missing EXCEPT !.present = TRUE]
    /\ \E n \in 0..MaxAttachments :
          files = {[visit |-> 0, place |-> i, admin |-> FALSE] : i \in 1..n}
    /\ history = 0
    /\ visit = [v \in Visits |-> Outside]
    /\ closed = FALSE /\ again = FALSE /\ met = FALSE
    /\ visits = 0 /\ outages = 0

-----------------------------------------------------------------------------
(* Starting                                                                *)

NewFiles(n, admin) ==
    {[visit |-> visits + 1, place |-> i, admin |-> admin] : i \in 1..n}

Come(v, p, admin, new, row) ==
    /\ inquiry.present
    /\ visit[v] = Outside
    /\ visits < MaxVisits
    /\ visits' = visits + 1
    /\ met' = (met \/ \E w \in Visits \ {v} : visit[w] # Outside)
    /\ visit' = [visit EXCEPT ![v] =
                    [pc |-> p, admin |-> admin, own |-> visits + 1, files |-> new, row |-> row,
                     loaded |-> files, base |-> inquiry, found |-> files]]
    /\ UNCHANGED <<inquiry, files, history, closed, again, outages>>

\* Mutant: the limit is on the attachments of one request.
EditFreely(v) == \E n \in 0..MaxAttachments :
    /\ inquiry.status = "waiting"
    /\ Come(v, "selecting", FALSE, NewFiles(n, FALSE), inquiry)

\* editInquiry: at most three attachments, and the inquiry waits for an answer.
EditInquiry(v) == \E n \in 0..MaxAttachments :
    /\ Cardinality(files) + n <= MaxAttachments
    /\ inquiry.status = "waiting"
    /\ Come(v, "selecting", FALSE, NewFiles(n, FALSE), inquiry)

\* deleteInquiry and deleteInquiryAttachment.
DeleteInquiry(v) ==
    inquiry.status = "waiting" /\ Come(v, "deleting", FALSE, {}, inquiry)

DeleteAttachment(v) == \E f \in files :
    inquiry.status = "waiting" /\ Come(v, "detaching", FALSE, {f}, inquiry)

\* Mutant: an inquiry may be taken up again.
MayReplyAgain(status) ==
    /\ status # "waiting"
    /\ status = "in progress" => inquiry.status # "in progress"

MayReply(status) ==
    /\ inquiry.status \notin Final
    /\ status # "waiting"
    /\ status = "in progress" => inquiry.status \notin Final \cup {"in progress"}

\* doReply: any number of attachments, and a reply if the inquiry is completed.
DoReply(v) == \E status \in Statuses, n \in 0..MaxAttachments :
    /\ MayReply(status)
    /\ Come(v, IF n = 0 THEN "logging" ELSE "attaching", TRUE, NewFiles(n, TRUE),
            [inquiry EXCEPT !.status = status,
                            !.reply = IF status = "completed" THEN visits + 1 ELSE @])

-----------------------------------------------------------------------------
(* Steps                                                                   *)

Doing(v, p)  == visit[v] # Outside /\ visit[v].pc = p
Proceed(v, p) == visit' = [visit EXCEPT ![v].pc = p]
LeaveDesk(v) == visit' = [visit EXCEPT ![v] = Outside]
SameDesk     == UNCHANGED <<met, visits, outages>>

\* The attachments refer to the inquiry, which must be there.
SaveAttachments(v) ==
    /\ Doing(v, "attaching")
    /\ IF inquiry.present
       THEN /\ files' = files \cup visit[v].files
            /\ IF visit[v].admin THEN Proceed(v, "logging") ELSE LeaveDesk(v)
       ELSE UNCHANGED files /\ LeaveDesk(v)
    /\ UNCHANGED <<inquiry, history, closed, again>> /\ SameDesk

\* Mutant: the history is written behind the inquiry, and not at all.
SkipHistory(v) ==
    /\ Doing(v, "logging")
    /\ Proceed(v, "selecting")
    /\ UNCHANGED <<inquiry, files, history, closed, again>> /\ SameDesk

\* So does the history.
SaveHistory(v) ==
    /\ Doing(v, "logging")
    /\ IF inquiry.present
       THEN history' = history + 1 /\ Proceed(v, "selecting")
       ELSE UNCHANGED history /\ LeaveDesk(v)
    /\ UNCHANGED <<inquiry, files, closed, again>> /\ SameDesk

\* save selects the inquiry, and an edit its attachments ...
SelectInquiry(v) ==
    /\ Doing(v, "selecting")
    /\ visit' = [visit EXCEPT ![v].pc = "updating", ![v].base = inquiry, ![v].found = files]
    /\ UNCHANGED <<inquiry, files, history, closed, again>> /\ SameDesk

Written(v) ==
    LET new == visit[v].row  base == visit[v].base
    IN  [inquiry EXCEPT !.status = IF new.status # base.status THEN new.status ELSE @,
                        !.reply  = IF new.reply # base.reply THEN new.reply ELSE @]

Closes(row) == row.status \in Final

\* ... updates the columns that differ and detaches what the edit has not loaded,
\* or inserts an inquiry that is gone again.  An edit then adds its attachments.
SaveInquiry(v) ==
    /\ Doing(v, "updating")
    /\ \/ /\ inquiry.present /\ visit[v].base.present
          /\ inquiry' = Written(v)
          /\ files' = IF visit[v].admin THEN files
                      ELSE files \ (visit[v].found \ visit[v].loaded)
          /\ UNCHANGED again
       \/ /\ ~inquiry.present /\ ~visit[v].base.present
          /\ inquiry' = [visit[v].row EXCEPT !.present = TRUE]
          /\ again' = TRUE
          /\ UNCHANGED files
       \/ /\ inquiry.present # visit[v].base.present
          /\ UNCHANGED <<inquiry, files, again>>
    /\ closed' = (closed \/ Closes(inquiry'))
    /\ IF visit[v].admin \/ visit[v].files = {} \/ (inquiry.present /\ ~visit[v].base.present)
       THEN LeaveDesk(v)
       ELSE Proceed(v, "attaching")
    /\ UNCHANGED history /\ SameDesk

\* The attachments and the history go with the inquiry.
RemoveInquiry(v) ==
    /\ Doing(v, "deleting")
    /\ inquiry' = Missing
    /\ files' = {} /\ history' = 0
    /\ LeaveDesk(v)
    /\ UNCHANGED <<closed, again>> /\ SameDesk

RemoveAttachment(v) ==
    /\ Doing(v, "detaching")
    /\ files' = files \ visit[v].files
    /\ LeaveDesk(v)
    /\ UNCHANGED <<inquiry, history, closed, again>> /\ SameDesk

\* The process stops.
Outage ==
    /\ outages < MaxOutages
    /\ outages' = outages + 1
    /\ visit' = [v \in Visits |-> Outside]
    /\ UNCHANGED <<inquiry, files, history, closed, again, met, visits>>

-----------------------------------------------------------------------------

DeskNext ==
    \/ \E v \in Visits :
        \/ EditInquiry(v) \/ DeleteInquiry(v) \/ DeleteAttachment(v) \/ DoReply(v)
        \/ SaveAttachments(v) \/ SaveHistory(v) \/ SelectInquiry(v) \/ SaveInquiry(v)
        \/ RemoveInquiry(v) \/ RemoveAttachment(v)
    \/ Outage

DeskSpec == DeskInit /\ [][DeskNext]_deskVars

-----------------------------------------------------------------------------
(* Properties                                                              *)

\* Without overlaps an inquiry that was completed or discarded stays so, with its
\* reply if and only if it was completed.
AnswerStays ==
    ~met /\ closed => /\ inquiry.present /\ inquiry.status \in Final
                      /\ (inquiry.reply # 0) = (inquiry.status = "completed")

\* Whatever overlaps and wherever the process stops, an inquiry no longer waits
\* only if an admin is on record, unless it was written again after its deletion.
AnsweredOnRecord ==
    inquiry.present /\ inquiry.status # "waiting" /\ ~again => history > 0

\* Edits that check the number at the same time exceed it by no more than each
\* other; admins' attachments count, but are not limited themselves.
FilesBounded ==
    Cardinality({f \in files : ~f.admin}) <= MaxAttachments * Cardinality(Visits)

\* The inquiry, its history and its attachments fit together.
DeskSound == DeskTypeOK /\ AnswerStays /\ AnsweredOnRecord /\ FilesBounded
=============================================================================
