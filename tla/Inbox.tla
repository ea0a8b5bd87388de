--------------------------------- MODULE Inbox ---------------------------------
(***************************************************************************)
(* The notifications of one user and the number of unread ones in the      *)
(* cache.  The subscriber commits the transaction that inserts a           *)
(* notification before it counts it, and the cache is read and written in  *)
(* separate calls.                                                         *)
(***************************************************************************)
EXTENDS Integers, FiniteSets

CONSTANTS
    Senders,        \* requests and jobs that may run at the same time
    MaxNotes        \* bound on those ever started

ASSUME InboxAssumption == IsFiniteSet(Senders) /\ MaxNotes \in Nat

VARIABLES
    waiting,        \* committed notifications to be pushed, isSettled still false
    gone,           \* notifications that were deleted
    count,          \* NOTIFICATION_COUNT of the user, 0 if absent
    post,           \* what runs
    unread,         \* notifications since the user last listed or deleted them
    inserted,       \* notifications ever committed
    jumbled,        \* two have run at the same time
    sent            \* started so far

inboxVars == <<waiting, gone, count, post, unread, inserted, jumbled, sent>>

-----------------------------------------------------------------------------
(* Types                                                                   *)

Asleep  == [pc |-> "asleep"]
Posting == [pc    : {"inserting", "counting", "raising", "pushing", "settling",
                     "looking", "zeroing", "clearing"},
            own   : 1..MaxNotes,    \* its notification
            live  : BOOLEAN,        \* SURVEY_GOES_LIVE: not pushed from here
            quiet : BOOLEAN,        \* the user does not want to be told
            wipes : BOOLEAN,        \* deletes the notifications
            seen  : Nat]            \* the number it read

InboxTypeOK ==
    /\ waiting \subseteq 1..MaxNotes
    /\ gone \subseteq 1..MaxNotes
    /\ count \in Nat
    /\ post \in [Senders -> Posting \cup {Asleep}]
    /\ unread \in Nat
    /\ inserted \in 0..MaxNotes
    /\ jumbled \in BOOLEAN
    /\ sent \in 0..MaxNotes

InboxInit ==
    /\ waiting = {} /\ gone = {}
    /\ count = 0
    /\ post = [s \in Senders |-> Asleep]
    /\ unread = 0 /\ inserted = 0
    /\ jumbled = FALSE
    /\ sent = 0

-----------------------------------------------------------------------------
(* Starting                                                                *)

Launch(s, p, live, quiet, wipes) ==
    /\ post[s] = Asleep
    /\ sent < MaxNotes
    /\ sent' = sent + 1
    /\ jumbled' = (jumbled \/ \E r \in Senders \ {s} : post[r] # Asleep)
    /\ post' = [post EXCEPT ![s] = [pc |-> p, own |-> sent + 1, live |-> live,
                                    quiet |-> quiet, wipes |-> wipes, seen |-> 0]]
    /\ UNCHANGED <<waiting, gone, count, inserted>>

\* saveUserNotifications and saveNotifications.
Notify(s, live, quiet) == Launch(s, "inserting", live, quiet, FALSE) /\ UNCHANGED unread

\* getUserNotification lists the notifications before it deletes the number.
GetUserNotification(s) == Launch(s, "looking", FALSE, FALSE, FALSE) /\ unread' = 0

\* deleteUserNotificationHistory deletes the number before the notifications.
DeleteHistory(s) == Launch(s, "looking", FALSE, FALSE, TRUE) /\ UNCHANGED unread

-----------------------------------------------------------------------------
(* Steps                                                                   *)

Onward(s, p) == post' = [post EXCEPT ![s].pc = p]
Done(s)      == post' = [post EXCEPT ![s] = Asleep]
SameInbox    == UNCHANGED <<jumbled, sent>>

\* The subscriber commits the insert.
InsertNotification(s) ==
    /\ post[s].pc = "inserting"
    /\ waiting' = waiting \cup
                  (IF post[s].quiet \/ post[s].live THEN {} ELSE {post[s].own})
    /\ inserted' = inserted + 1
    /\ unread' = unread + 1
    /\ Onward(s, "counting")
    /\ UNCHANGED <<gone, count>> /\ SameInbox

\* setUserUnreadNotificationCount reads the number ...
ReadCount(s) ==
    /\ post[s].pc = "counting"
    /\ post' = [post EXCEPT ![s].pc = "raising", ![s].seen = count + 1]
    /\ UNCHANGED <<waiting, gone, count, unread, inserted>> /\ SameInbox

\* Mutant: the number that was read is added to the one there is.
RaiseCountAgain(s) ==
    /\ post[s].pc = "raising"
    /\ count' = count + post[s].seen
    /\ IF post[s].live THEN Done(s) ELSE Onward(s, "pushing")
    /\ UNCHANGED <<waiting, gone, unread, inserted>> /\ SameInbox

\* Mutant: the number is one less than that of the notifications.
RaiseCountLess(s) ==
    /\ post[s].pc = "raising"
    /\ count' = post[s].seen - 2
    /\ IF post[s].live THEN Done(s) ELSE Onward(s, "pushing")
    /\ UNCHANGED <<waiting, gone, unread, inserted>> /\ SameInbox

\* ... and writes the next one.
RaiseCount(s) ==
    /\ post[s].pc = "raising"
    /\ count' = post[s].seen
    /\ IF post[s].live THEN Done(s) ELSE Onward(s, "pushing")
    /\ UNCHANGED <<waiting, gone, unread, inserted>> /\ SameInbox

\* Mutant: a notification that a newer one has overtaken is not pushed.
PushNewest(s) ==
    /\ post[s].pc = "pushing"
    /\ IF \/ post[s].quiet \/ post[s].own \in gone
          \/ \E n \in waiting : n > post[s].own
       THEN Done(s)
       ELSE Onward(s, "settling")
    /\ UNCHANGED <<waiting, gone, count, unread, inserted>> /\ SameInbox

\* sendPushNotification loads the notification with its user; it has nothing to
\* do for a quiet one and fails if the notification is gone.
PushNotification(s) ==
    /\ post[s].pc = "pushing"
    /\ IF post[s].quiet \/ post[s].own \in gone THEN Done(s) ELSE Onward(s, "settling")
    /\ UNCHANGED <<waiting, gone, count, unread, inserted>> /\ SameInbox

UpdateIsSettled(s) ==
    /\ post[s].pc = "settling"
    /\ waiting' = waiting \ {post[s].own}
    /\ Done(s)
    /\ UNCHANGED <<gone, count, unread, inserted>> /\ SameInbox

Zeroed(s) == IF post[s].wipes THEN Onward(s, "clearing") ELSE Done(s)

\* deleteUserUnreadNotificationCount has nothing to delete ...
FindNoCount(s) ==
    /\ post[s].pc = "looking"
    /\ count = 0
    /\ Zeroed(s)
    /\ UNCHANGED <<waiting, gone, count, unread, inserted>> /\ SameInbox

FindCount(s) ==
    /\ post[s].pc = "looking"
    /\ count # 0
    /\ Onward(s, "zeroing")
    /\ UNCHANGED <<waiting, gone, count, unread, inserted>> /\ SameInbox

\* Mutant: the number is only deleted with the history.
KeepCount(s) ==
    /\ post[s].pc = "zeroing"
    /\ count' = IF post[s].wipes THEN 0 ELSE count
    /\ Zeroed(s)
    /\ UNCHANGED <<waiting, gone, unread, inserted>> /\ SameInbox

\* ... or deletes what it found, whatever the number is by now.
ZeroCount(s) ==
    /\ post[s].pc = "zeroing"
    /\ count' = 0
    /\ Zeroed(s)
    /\ UNCHANGED <<waiting, gone, unread, inserted>> /\ SameInbox

\* Every notification there is goes; those still to be inserted do not.
ClearNotifications(s) ==
    /\ post[s].pc = "clearing"
    /\ gone' = 1..sent \ {post[r].own : r \in {r \in Senders : post[r].pc = "inserting"}}
    /\ waiting' = {}
    /\ unread' = 0
    /\ Done(s)
    /\ UNCHANGED <<count, inserted>> /\ SameInbox

InboxNext == \E s \in Senders :
    \/ \E live, quiet \in BOOLEAN : Notify(s, live, quiet)
    \/ GetUserNotification(s) \/ DeleteHistory(s)
    \/ InsertNotification(s) \/ ReadCount(s) \/ RaiseCount(s) \/ PushNotification(s)
    \/ UpdateIsSettled(s) \/ FindNoCount(s) \/ FindCount(s) \/ ZeroCount(s)
    \/ ClearNotifications(s)

InboxSpec == InboxInit /\ [][InboxNext]_inboxVars

-----------------------------------------------------------------------------
(* Properties                                                              *)

AllAsleep == \A s \in Senders : post[s] = Asleep

\* Overlapping writers lose counts of each other and bring back a number that
\* was deleted, but never count a notification that was not committed.
CountBounded == count <= inserted

\* Without overlaps the number is the number of unread notifications.
CountAgrees == ~jumbled /\ AllAsleep => count = unread

\* However notifications and deletions overlap, none that is still there is left
\* without its push.
EveryNotePushed == AllAsleep => waiting = {}

\* The number in the cache and the notifications in the database fit together,
\* as far as the separate calls let them.
InboxSound == InboxTypeOK /\ CountBounded /\ CountAgrees /\ EveryNotePushed
=============================================================================
