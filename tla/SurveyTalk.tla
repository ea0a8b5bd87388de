------------------------------ MODULE SurveyTalk ------------------------------
(***************************************************************************)
(* The comment of one participant of an ongoing survey, and the likes it   *)
(* gets.  A participant has at most one comment at a time; each request    *)
(* loads what it needs first and writes it back in several statements, no  *)
(* two of which are in one transaction.                                    *)
(***************************************************************************)
EXTENDS Integers, FiniteSets

CONSTANTS
    Talkers,        \* requests that may run at the same time
    Author,         \* the participant who writes the comments
    Readers,        \* the other users
    Ten,            \* likes that earn respect points (10 in the code)
    MaxTalks,       \* bound on the requests ever started
    MaxBreaks       \* bound on the crashes of the process

ASSUME TalkAssumption ==
    /\ IsFiniteSet(Talkers)
    /\ Author \notin Readers
    /\ Ten \in Nat \ {0}
    /\ MaxTalks \in Nat /\ MaxBreaks \in Nat

Users    == Readers \cup {Author}
Comments == 1..MaxTalks     \* comments and likes are numbered by their request

VARIABLES
    comment,        \* rows of survey_comments, with their likes
    shown,          \* the comment of the participant, 0 if none
    talk,           \* the running requests
    credits,        \* times the likes of a comment earned points
    comments,       \* times a comment earned points
    posted,         \* the comment the author has, as the answers of the requests
                    \* say; 0 if none
    crossed,        \* two requests have run at the same time
    talks,          \* requests started
    breaks          \* crashes so far

talkVars == <<comment, shown, talk, credits, comments, posted, crossed, talks, breaks>>

-----------------------------------------------------------------------------
(* Types                                                                   *)

Like == [id : 1..MaxTalks, by : Users]
Gone == [present |-> FALSE, likes |-> 0, history |-> 0, rows |-> {}]
CommentRow == [present : BOOLEAN, likes : Int, history : Nat, rows : SUBSET Like]

Silent == [pc |-> "silent"]

\* A request: what it does next, its number and user, the comment it is about
\* and what it read of it, and what its save selected.
Talking == [pc : {"writing", "linking", "thanking", "unliking", "removing",
                  "crediting", "saving", "updating", "liking", "hiding", "deleting"},
            own : 1..MaxTalks, by : Users, about : Comments, mine : CommentRow,
            base : CommentRow]

TalkTypeOK ==
    /\ comment \in [Comments -> CommentRow]
    /\ shown \in 0..MaxTalks
    /\ talk \in [Talkers -> Talking \cup {Silent}]
    /\ credits \in [Comments -> Nat]
    /\ comments \in Nat
    /\ posted \in 0..MaxTalks
    /\ crossed \in BOOLEAN
    /\ talks \in 0..MaxTalks
    /\ breaks \in Nat

TalkInit ==
    /\ comment = [c \in Comments |-> Gone]
    /\ shown = 0
    /\ talk = [t \in Talkers |-> Silent]
    /\ credits = [c \in Comments |-> 0]
    /\ comments = 0
    /\ posted = 0
    /\ crossed = FALSE
    /\ talks = 0
    /\ breaks = 0

-----------------------------------------------------------------------------
(* Starting a request                                                      *)

Say(t, p, u, c) ==
    /\ talk[t] = Silent
    /\ talks < MaxTalks
    /\ talks' = talks + 1
    /\ crossed' = (crossed \/ \E s \in Talkers \ {t} : talk[s] # Silent)
    /\ talk' = [talk EXCEPT ![t] =
                   [pc |-> p, own |-> talks + 1, by |-> u, about |-> c,
                    mine |-> comment[c], base |-> comment[c]]]
    /\ UNCHANGED <<comment, shown, credits, comments, posted, breaks>>

\* addSurveyComment: the participant has none.
AddSurveyComment(t) == shown = 0 /\ Say(t, "writing", Author, talks + 1)

\* deleteSurveyComment: the comment is the participant's.
DeleteSurveyComment(t) == shown # 0 /\ Say(t, "hiding", Author, shown)

LikesOf(row, u) == {l \in row.rows : l.by = u}

\* Mutant: nobody looks for the like of the user.
LikeAgain(t, u, c) ==
    /\ comment[c].present
    /\ Say(t, "crediting", u, c)

\* toggleLikeSurveyComment loads the comment with its likes.
ToggleLike(t, u, c) ==
    /\ comment[c].present
    /\ Say(t, IF LikesOf(comment[c], u) = {} THEN "crediting" ELSE "unliking", u, c)

-----------------------------------------------------------------------------
(* Comments                                                                *)

Speak(t, p) == talk' = [talk EXCEPT ![t].pc = p]
Hush(t)     == talk' = [talk EXCEPT ![t] = Silent]
About(t)    == talk[t].about
SameTalk    == UNCHANGED <<crossed, talks, breaks>>

WriteComment(t) ==
    /\ talk[t].pc = "writing"
    /\ comment' = [comment EXCEPT ![About(t)].present = TRUE]
    /\ Speak(t, "linking")
    /\ UNCHANGED <<shown, credits, comments, posted>> /\ SameTalk

\* Mutant: the number of the comment is one too high.
LinkNextComment(t) ==
    /\ talk[t].pc = "linking"
    /\ shown' = About(t) + 1
    /\ posted' = About(t)
    /\ Speak(t, "thanking")
    /\ UNCHANGED <<comment, credits, comments>> /\ SameTalk

\* The participant is saved with the new comment, whatever it has by now ...
LinkComment(t) ==
    /\ talk[t].pc = "linking"
    /\ shown' = About(t)
    /\ posted' = About(t)
    /\ Speak(t, "thanking")
    /\ UNCHANGED <<comment, credits, comments>> /\ SameTalk

\* ... and the user with points for it.
ThankAuthor(t) ==
    /\ talk[t].pc = "thanking"
    /\ comments' = comments + 1
    /\ Hush(t)
    /\ UNCHANGED <<comment, shown, credits, posted>> /\ SameTalk

\* Mutant: the comment is undefined instead of null, so the column is not saved.
HideNothing(t) ==
    /\ talk[t].pc = "hiding"
    /\ posted' = IF posted = About(t) THEN 0 ELSE posted
    /\ Speak(t, "deleting")
    /\ UNCHANGED <<comment, shown, credits, comments>> /\ SameTalk

\* The participant is saved without a comment, whatever it has by now ...
HideComment(t) ==
    /\ talk[t].pc = "hiding"
    /\ shown' = 0
    /\ posted' = IF posted = About(t) THEN 0 ELSE posted
    /\ Speak(t, "deleting")
    /\ UNCHANGED <<comment, credits, comments>> /\ SameTalk

\* ... and the row deleted with its likes.  Nobody refers to it any more.
DeleteComment(t) ==
    /\ talk[t].pc = "deleting"
    /\ comment' = [comment EXCEPT ![About(t)] = Gone]
    /\ Hush(t)
    /\ UNCHANGED <<shown, credits, comments, posted>> /\ SameTalk

-----------------------------------------------------------------------------
(* Likes                                                                   *)

\* Mutant: the history is decreased instead of the number.
UnlikeHistory(t) ==
    /\ talk[t].pc = "unliking"
    /\ comment' = IF comment[About(t)].present
                  THEN [comment EXCEPT ![About(t)].history = talk[t].mine.history - 1]
                  ELSE comment
    /\ Speak(t, "removing")
    /\ UNCHANGED <<shown, credits, comments, posted>> /\ SameTalk

\* Taking a like back writes the number the request read, less one ...
Unlike(t) ==
    /\ talk[t].pc = "unliking"
    /\ comment' = IF comment[About(t)].present
                  THEN [comment EXCEPT ![About(t)].likes = talk[t].mine.likes - 1]
                  ELSE comment
    /\ Speak(t, "removing")
    /\ UNCHANGED <<shown, credits, comments, posted>> /\ SameTalk

\* ... and deletes the first like of the user it found.
RemoveLike(t) ==
    /\ talk[t].pc = "removing"
    /\ \E l \in LikesOf(talk[t].mine, talk[t].by) :
          comment' = [comment EXCEPT ![About(t)].rows = @ \ {l}]
    /\ Hush(t)
    /\ UNCHANGED <<shown, credits, comments, posted>> /\ SameTalk

\* Mutant: the likes there are count, not the ones there have been.
EarnsNow(t) == (talk[t].mine.likes + 1) % Ten = 0

Earns(t) == (talk[t].mine.history + 1) % Ten = 0

\* A participant gets the points.  (Which one is not decided by the comment:
\* `comment` stands beside `relations` in the options of the lookup.)
CreditLikes(t) ==
    /\ talk[t].pc = "crediting"
    /\ credits' = [credits EXCEPT ![About(t)] = @ + IF Earns(t) THEN 1 ELSE 0]
    /\ Speak(t, "saving")
    /\ UNCHANGED <<comment, shown, comments, posted>> /\ SameTalk

\* save selects the comment and its likes ...
SelectComment(t) ==
    /\ talk[t].pc = "saving"
    /\ talk' = [talk EXCEPT ![t].pc = "updating", ![t].base = comment[About(t)]]
    /\ UNCHANGED <<comment, shown, credits, comments, posted>> /\ SameTalk

Detached(t)  == [talk[t].mine EXCEPT !.likes = @ + 1, !.history = @ + 1, !.rows = {}]
Increased(t) == [talk[t].mine EXCEPT !.likes = @ + 1, !.history = @ + 1]

\* ... inserts the comment again if it is gone, and otherwise updates the
\* columns that differ and detaches the likes the object does not have.
Merge(t, row) ==
    [row EXCEPT !.likes   = IF talk[t].base.likes # Increased(t).likes
                            THEN Increased(t).likes ELSE @,
                !.history = IF talk[t].base.history # Increased(t).history
                            THEN Increased(t).history ELSE @,
                !.rows    = @ \ (talk[t].base.rows \ talk[t].mine.rows)]

SaveComment(t) ==
    /\ talk[t].pc = "updating"
    /\ comment' = [comment EXCEPT ![About(t)] =
                      CASE @.present /\ talk[t].base.present   -> Merge(t, @)
                        [] ~@.present /\ ~talk[t].base.present -> Detached(t)
                        [] OTHER                               -> @]
    /\ IF comment[About(t)].present /\ ~talk[t].base.present
       THEN Hush(t)
       ELSE Speak(t, "liking")
    /\ UNCHANGED <<shown, credits, comments, posted>> /\ SameTalk

\* createSurveyCommentLike refers to the comment, which must be there.
CreateLike(t) ==
    /\ talk[t].pc = "liking"
    /\ comment' = IF comment[About(t)].present
                  THEN [comment EXCEPT ![About(t)].rows =
                           @ \cup {[id |-> talk[t].own, by |-> talk[t].by]}]
                  ELSE comment
    /\ Hush(t)
    /\ UNCHANGED <<shown, credits, comments, posted>> /\ SameTalk

\* The process stops.
Break ==
    /\ breaks < MaxBreaks
    /\ breaks' = breaks + 1
    /\ talk' = [t \in Talkers |-> Silent]
    /\ UNCHANGED <<comment, shown, credits, comments, posted, crossed, talks>>

-----------------------------------------------------------------------------

TalkStep(t) ==
    \/ WriteComment(t) \/ LinkComment(t) \/ ThankAuthor(t) \/ HideComment(t)
    \/ DeleteComment(t) \/ Unlike(t) \/ RemoveLike(t) \/ CreditLikes(t)
    \/ SelectComment(t) \/ SaveComment(t) \/ CreateLike(t)

TalkNext ==
    \/ \E t \in Talkers :
        \/ TalkStep(t) \/ AddSurveyComment(t) \/ DeleteSurveyComment(t)
        \/ \E u \in Users, c \in Comments : ToggleLike(t, u, c)
    \/ Break

TalkSpec == TalkInit /\ [][TalkNext]_talkVars

-----------------------------------------------------------------------------
(* Properties                                                              *)

AtRest == \A t \in Talkers : talk[t] = Silent

\* The comment that is shown exists, although a like that was on its way when
\* a comment was deleted writes the row again.
ShownExists == shown # 0 => comment[shown].present

\* Without overlaps and crashes the number of likes is the number of users who
\* like the comment.
LikesAgree ==
    ~crossed /\ AtRest /\ breaks = 0 => \A c \in Comments :
        /\ comment[c].likes = Cardinality(comment[c].rows)
        /\ \A u \in Users : Cardinality(LikesOf(comment[c], u)) <= 1

\* A user likes a comment at most as often as requests run at once.
LikesBounded ==
    \A c \in Comments, u \in Users :
        Cardinality(LikesOf(comment[c], u)) <= Cardinality(Talkers)

\* Without overlaps every Ten likes a comment has had earn points once; a crash
\* between the points and the like lets the next like earn them again.
CreditsEarned ==
    ~crossed /\ AtRest => \A c \in Comments :
        comment[c].present => LET earned == comment[c].history \div Ten
                              IN  credits[c] \in earned..(earned + breaks)

\* Without overlaps the participant shows the comment the last answer was about.
PostedIsShown == ~crossed => shown = posted

\* Comments and likes as the two tables keep them, and the points they earn.
TalkSound ==
    /\ TalkTypeOK /\ ShownExists /\ PostedIsShown
    /\ LikesAgree /\ LikesBounded /\ CreditsEarned
=============================================================================
