---------------------------- MODULE RequestsProofs ----------------------------
(***************************************************************************)
(* Theorems about the tables that users and admins change side by side:    *)
(* SurveyTalk, Inbox, Desk and Catalog, for every number of requests that run*)
(* at once, every set of comments, notifications, inquiries and items.     *)
(***************************************************************************)
EXTENDS SurveyTalk, Inbox, Desk, Catalog, Integers, FiniteSetTheorems, TLAPS

-----------------------------------------------------------------------------
(* Counting                                                                *)

\* An image has no more elements than what it is of.
LEMMA ImageBound ==
    ASSUME NEW S, IsFiniteSet(S), NEW f
    PROVE  /\ IsFiniteSet({f[x] : x \in S})
           /\ Cardinality({f[x] : x \in S}) <= Cardinality(S)
  <1> DEFINE g == [x \in S |-> f[x]]
  <1>1. g \in Surjection(S, {f[x] : x \in S})
    BY DEF Surjection
  <1> QED
    BY <1>1, FS_Surjection

\* A union has no more elements than its parts together.
LEMMA UnionBound ==
    ASSUME NEW S, IsFiniteSet(S), NEW T, IsFiniteSet(T)
    PROVE  /\ IsFiniteSet(S \cup T)
           /\ Cardinality(S \cup T) \in Nat
           /\ Cardinality(S \cup T) <= Cardinality(S) + Cardinality(T)
  <1>1. IsFiniteSet(S \cup T) /\ IsFiniteSet(S \cap T)
    BY FS_Union, FS_Subset
  <1>2. /\ Cardinality(S \cup T) \in Nat /\ Cardinality(S \cap T) \in Nat
        /\ Cardinality(S) \in Nat /\ Cardinality(T) \in Nat
    BY <1>1, FS_CardinalityType
  <1>3. Cardinality(S \cup T) = Cardinality(S) + Cardinality(T) - Cardinality(S \cap T)
    BY FS_Union
  <1> QED
    BY <1>1, <1>2, <1>3

\* One element more.
LEMMA OneMore ==
    ASSUME NEW S, IsFiniteSet(S), NEW x
    PROVE  /\ IsFiniteSet(S \cup {x})
           /\ Cardinality(S \cup {x}) \in Nat
           /\ Cardinality(S \cup {x}) <= Cardinality(S) + 1
           /\ x \notin S => Cardinality(S \cup {x}) = Cardinality(S) + 1
  <1>1. Cardinality(S) \in Nat
    BY FS_CardinalityType
  <1>2. /\ IsFiniteSet(S \cup {x})
        /\ Cardinality(S \cup {x}) = IF x \in S THEN Cardinality(S) ELSE Cardinality(S) + 1
    BY FS_AddElement
  <1> QED
    BY <1>1, <1>2

\* One element less.
LEMMA OneLess ==
    ASSUME NEW S, IsFiniteSet(S), NEW x \in S
    PROVE  /\ IsFiniteSet(S \ {x})
           /\ Cardinality(S \ {x}) \in Nat
           /\ Cardinality(S \ {x}) = Cardinality(S) - 1
           /\ Cardinality(S) \in Nat /\ Cardinality(S) >= 1
  <1>1. /\ IsFiniteSet(S \ {x})
        /\ Cardinality(S \ {x}) = IF x \in S THEN Cardinality(S) - 1 ELSE Cardinality(S)
    BY FS_RemoveElement
  <1>2. Cardinality(S) \in Nat /\ Cardinality(S \ {x}) \in Nat
    BY <1>1, FS_CardinalityType
  <1> QED
    BY <1>1, <1>2

-----------------------------------------------------------------------------
(* Comments and likes                                                      *)

Liking == {"unliking", "removing", "crediting", "saving", "updating", "liking"}
Coming == {"crediting", "saving", "updating", "liking"}

\* Every list of likes that is held anywhere is finite.
RowsFinite ==
    /\ \A c \in Comments : IsFiniteSet(comment[c].rows)
    /\ \A t \in Talkers : talk[t] # Silent => IsFiniteSet(talk[t].mine.rows)

\* A number not given out yet is nowhere, and what is liked was there.
Numbered ==
    /\ shown <= talks
    /\ \A c \in Comments : c > talks => comment[c] = Gone /\ credits[c] = 0
    /\ \A t \in Talkers :
        /\ talk[t] # Silent => talk[t].about <= talks
        /\ talk[t].pc \in Liking => talk[t].mine.present

\* A comment is linked once, by the request that wrote it, and deleted after.
Linked ==
    /\ ShownExists
    /\ \A s, t \in Talkers :
        /\ talk[s].pc \in {"writing", "linking"} /\ talk[t].pc \in {"writing", "linking"}
              /\ talk[s].about = talk[t].about => s = t
        /\ talk[s].pc \in {"writing", "linking"} /\ talk[t].pc \in {"hiding", "deleting"}
              => talk[s].about # talk[t].about
    /\ \A t \in Talkers :
        /\ talk[t].pc \in {"writing", "linking"} => shown # talk[t].about
        /\ talk[t].pc = "linking" => comment[talk[t].about].present
        /\ talk[t].pc = "deleting" => shown # talk[t].about

\* The likes of u there are and that may come.
LikesComing(c, u) == {t \in Talkers : talk[t].pc \in Coming /\ talk[t].about = c
                                      /\ talk[t].by = u}
LikeRoom ==
    \A c \in Comments, u \in Users :
        Cardinality(LikesOf(comment[c], u)) + Cardinality(LikesComing(c, u))
            <= Cardinality(Talkers)

\* What LikesAgree and CreditsEarned say of a row.
Even(row) == /\ row.likes = Cardinality(row.rows)
             /\ \A u \in Users : Cardinality(LikesOf(row, u)) <= 1
Paid(n, h) == n >= h \div Ten /\ n <= (h \div Ten) + breaks

\* What the one that runs alone has loaded is still so, or is what it wrote.
LoadedAt(r) ==
    /\ r.pc = "writing" => comment[r.about] = Gone /\ credits[r.about] = 0
    /\ r.pc = "hiding" => shown = r.about
    /\ r.pc \in {"unliking", "crediting", "saving", "updating"} => r.mine = comment[r.about]
    /\ r.pc \in Coming => LikesOf(r.mine, r.by) = {}
    /\ r.pc = "updating" => r.base = r.mine
    /\ r.pc \in {"saving", "updating"} => Paid(credits[r.about], r.mine.history + 1)
    /\ r.pc = "removing" =>
          /\ comment[r.about].rows = r.mine.rows /\ comment[r.about].likes = r.mine.likes - 1
          /\ breaks = 0 => Even(r.mine)
    /\ r.pc = "liking" =>
          /\ comment[r.about].rows = r.mine.rows /\ comment[r.about].likes = r.mine.likes + 1
          /\ comment[r.about].present
          /\ breaks = 0 => Even(r.mine)

OneTalks == \A s, t \in Talkers : talk[s] # Silent /\ talk[t] # Silent => s = t
EvenRows == breaks = 0 => \A c \in Comments :
                Even(comment[c]) \/ \E t \in Talkers : /\ talk[t].pc \in {"removing", "liking"}
                                                       /\ talk[t].about = c
PaidRows == \A c \in Comments : comment[c].present =>
                \/ Paid(credits[c], comment[c].history)
                \/ \E t \in Talkers : /\ talk[t].pc \in {"saving", "updating"}
                                      /\ talk[t].about = c
Loaded   == \A t \in Talkers : talk[t] # Silent => LoadedAt(talk[t])

CalmTalk == ~crossed => OneTalks /\ PostedIsShown /\ EvenRows /\ PaidRows /\ Loaded

TalkInv == TalkTypeOK /\ RowsFinite /\ Numbered /\ Linked /\ LikeRoom /\ CalmTalk

OnlyTalker(t) ==
    /\ talk' \in [Talkers -> Talking \cup {Silent}]
    /\ \A s \in Talkers \ {t} : talk'[s] = talk[s]
Goes(t, p) ==
    /\ OnlyTalker(t) /\ talk[t] # Silent /\ talk'[t] # Silent
    /\ talk'[t].pc = p /\ talk'[t].own = talk[t].own /\ talk'[t].by = talk[t].by
    /\ talk'[t].about = talk[t].about /\ talk'[t].mine = talk[t].mine
Stops(t) == OnlyTalker(t) /\ talk[t] # Silent /\ talk'[t] = Silent

\* A request that talks has the fields of one.
LEMMA TalkTyped ==
    ASSUME TalkTypeOK, NEW t \in Talkers
    PROVE  /\ talk[t] = Silent <=> talk[t].pc = "silent"
           /\ talk[t] # Silent =>
                /\ talk[t] \in Talking /\ talk[t].own \in 1..MaxTalks /\ talk[t].by \in Users
                /\ talk[t].about \in Comments /\ talk[t].mine \in CommentRow
                /\ talk[t].base \in CommentRow
                /\ talk[t].pc \in {"writing", "linking", "thanking", "hiding", "deleting"}
                                  \cup Liking
  BY DEF TalkTypeOK, Talking, Silent, Liking

\* What a request is when it goes to its next step.
LEMMA SayShape ==
    ASSUME TalkTypeOK, NEW t \in Talkers, NEW u \in Users, NEW c \in Comments,
           NEW p \in {"writing", "hiding", "crediting", "unliking"}, Say(t, p, u, c)
    PROVE  /\ OnlyTalker(t) /\ talk[t] = Silent /\ talk'[t] # Silent
           /\ talk'[t].pc = p /\ talk'[t].by = u /\ talk'[t].about = c
           /\ talk'[t].mine = comment[c]
           /\ talks' = talks + 1 /\ talks' \in 0..MaxTalks /\ crossed' \in BOOLEAN
           /\ ~crossed' => ~crossed /\ \A s \in Talkers : talk[s] = Silent
           /\ UNCHANGED <<comment, shown, credits, comments, posted, breaks>>
  <1> DEFINE x == [pc |-> p, own |-> talks + 1, by |-> u, about |-> c,
                   mine |-> comment[c], base |-> comment[c]]
  <1>1. talks + 1 \in 0..MaxTalks /\ talks + 1 \in 1..MaxTalks
    BY TalkAssumption DEF TalkTypeOK, Say
  <1>2. comment[c] \in CommentRow
    BY DEF TalkTypeOK
  <1>3. x \in Talking
    BY <1>1, <1>2 DEF Talking
  <1>4. talk' = [talk EXCEPT ![t] = x]
    BY DEF Say
  <1>5. x.pc = p /\ x.by = u /\ x.about = c /\ x.mine = comment[c]
    OBVIOUS
  <1> HIDE DEF x
  <1>6. OnlyTalker(t) /\ talk'[t] = x
    BY <1>3, <1>4 DEF OnlyTalker, TalkTypeOK
  <1>7. x # Silent
    BY <1>5 DEF Silent
  <1>8. /\ talk[t] = Silent /\ talks' = talks + 1 /\ crossed' \in BOOLEAN
        /\ ~crossed' => ~crossed /\ \A s \in Talkers : talk[s] = Silent
        /\ UNCHANGED <<comment, shown, credits, comments, posted, breaks>>
    BY DEF Say, TalkTypeOK
  <1> QED
    BY <1>1, <1>5, <1>6, <1>7, <1>8

\* A request comes.
Says(t) == \/ AddSurveyComment(t) \/ DeleteSurveyComment(t)
           \/ \E u \in Users, c \in Comments : ToggleLike(t, u, c)

\* What a request is when it has come: it holds the comment it loaded.
LEMMA SaysShape ==
    ASSUME TalkTypeOK, NEW t \in Talkers, Says(t)
    PROVE  /\ OnlyTalker(t) /\ talk[t] = Silent /\ talk'[t] # Silent
           /\ talk'[t].about \in Comments /\ talk'[t].by \in Users
           /\ talk'[t].mine = comment[talk'[t].about]
           /\ \/ talk'[t].pc = "writing" /\ shown = 0 /\ talk'[t].about = talks + 1
              \/ talk'[t].pc = "hiding" /\ talk'[t].about = shown
              \/ talk'[t].pc = "unliking" /\ comment[talk'[t].about].present
              \/ /\ talk'[t].pc = "crediting" /\ comment[talk'[t].about].present
                 /\ LikesOf(comment[talk'[t].about], talk'[t].by) = {}
           /\ talks' = talks + 1 /\ talks' \in 0..MaxTalks /\ crossed' \in BOOLEAN
           /\ ~crossed' => ~crossed /\ \A s \in Talkers : talk[s] = Silent
           /\ UNCHANGED <<comment, shown, credits, comments, posted, breaks>>
  <1>0. Author \in Users
    BY DEF Users
  <1>1. PICK p \in {"writing", "hiding", "crediting", "unliking"}, u \in Users, c \in Comments :
           /\ Say(t, p, u, c)
           /\ \/ p = "writing" /\ shown = 0 /\ c = talks + 1
              \/ p = "hiding" /\ c = shown
              \/ p = "unliking" /\ comment[c].present
              \/ p = "crediting" /\ comment[c].present /\ LikesOf(comment[c], u) = {}
    <2>1. CASE AddSurveyComment(t)
      <3>1. talks + 1 \in Comments
        BY <2>1, TalkAssumption DEF AddSurveyComment, Say, TalkTypeOK, Comments
      <3> QED
        BY <1>0, <2>1, <3>1 DEF AddSurveyComment
    <2>2. CASE DeleteSurveyComment(t)
      <3>1. shown \in Comments
        BY <2>2, TalkAssumption DEF DeleteSurveyComment, TalkTypeOK, Comments
      <3> QED
        BY <1>0, <2>2, <3>1 DEF DeleteSurveyComment
    <2>3. ASSUME NEW u \in Users, NEW c \in Comments, ToggleLike(t, u, c)
          PROVE  \/ Say(t, "unliking", u, c) /\ comment[c].present
                 \/ /\ Say(t, "crediting", u, c) /\ comment[c].present
                    /\ LikesOf(comment[c], u) = {}
      BY <2>3 DEF ToggleLike
    <2> QED
      BY <2>1, <2>2, <2>3 DEF Says
  <1>2. /\ OnlyTalker(t) /\ talk[t] = Silent /\ talk'[t] # Silent
        /\ talk'[t].pc = p /\ talk'[t].by = u /\ talk'[t].about = c
        /\ talk'[t].mine = comment[c]
        /\ talks' = talks + 1 /\ talks' \in 0..MaxTalks /\ crossed' \in BOOLEAN
        /\ ~crossed' => ~crossed /\ \A s \in Talkers : talk[s] = Silent
        /\ UNCHANGED <<comment, shown, credits, comments, posted, breaks>>
    BY <1>1, SayShape
  <1> QED
    BY <1>1, <1>2

\* What each step makes of the request ...
LEMMA TalkerShape ==
    ASSUME TalkTypeOK, NEW t \in Talkers
    PROVE  /\ WriteComment(t) => talk[t].pc = "writing" /\ Goes(t, "linking")
           /\ LinkComment(t) => talk[t].pc = "linking" /\ Goes(t, "thanking")
           /\ ThankAuthor(t) => talk[t].pc = "thanking" /\ Stops(t)
           /\ HideComment(t) => talk[t].pc = "hiding" /\ Goes(t, "deleting")
           /\ DeleteComment(t) => talk[t].pc = "deleting" /\ Stops(t)
           /\ Unlike(t) => talk[t].pc = "unliking" /\ Goes(t, "removing")
           /\ RemoveLike(t) => talk[t].pc = "removing" /\ Stops(t)
           /\ CreditLikes(t) => talk[t].pc = "crediting" /\ Goes(t, "saving")
           /\ SelectComment(t) => /\ talk[t].pc = "saving" /\ Goes(t, "updating")
                                  /\ talk'[t].base = comment[talk[t].about]
           /\ SaveComment(t) => /\ talk[t].pc = "updating"
                                /\ IF comment[talk[t].about].present /\ ~talk[t].base.present
                                   THEN Stops(t) ELSE Goes(t, "liking")
           /\ CreateLike(t) => talk[t].pc = "liking" /\ Stops(t)
  <1>1. talk[t].pc # "silent" => talk[t] # Silent /\ talk[t] \in Talking
    BY TalkTyped
  <1>2. ASSUME talk[t] # Silent, Hush(t) PROVE Stops(t)
    BY <1>2 DEF Hush, Stops, OnlyTalker, TalkTypeOK
  <1>3. ASSUME talk[t] # Silent, NEW p \in {"linking", "thanking", "deleting"} \cup Liking,
               Speak(t, p)
        PROVE  Goes(t, p)
    <2> DEFINE x == [talk[t] EXCEPT !.pc = p]
    <2>1. talk[t] \in Talking
      BY <1>3, TalkTyped
    <2>2. /\ x \in Talking /\ x.pc = p /\ x.own = talk[t].own /\ x.by = talk[t].by
          /\ x.about = talk[t].about /\ x.mine = talk[t].mine
      BY <2>1 DEF Talking, Liking
    <2>3. talk' = [talk EXCEPT ![t] = x]
      BY <1>3 DEF Speak
    <2> HIDE DEF x
    <2>4. talk'[t] = x /\ OnlyTalker(t)
      BY <2>2, <2>3 DEF OnlyTalker, TalkTypeOK
    <2>5. x # Silent
      BY <2>2 DEF Silent, Liking
    <2> QED
      BY <1>3, <2>2, <2>4, <2>5 DEF Goes
  <1>a. /\ "removing" \in Liking /\ "saving" \in Liking /\ "liking" \in Liking
        /\ "linking" # "silent" /\ "thanking" # "silent" /\ "writing" # "silent"
        /\ "hiding" # "silent" /\ "deleting" # "silent" /\ "unliking" # "silent"
        /\ "removing" # "silent" /\ "crediting" # "silent" /\ "saving" # "silent"
        /\ "updating" # "silent" /\ "liking" # "silent"
    BY DEF Liking
  <1>4. /\ WriteComment(t) => talk[t].pc = "writing" /\ Goes(t, "linking")
        /\ LinkComment(t) => talk[t].pc = "linking" /\ Goes(t, "thanking")
        /\ HideComment(t) => talk[t].pc = "hiding" /\ Goes(t, "deleting")
    BY <1>1, <1>3, <1>a DEF WriteComment, LinkComment, HideComment
  <1>5. /\ ThankAuthor(t) => talk[t].pc = "thanking" /\ Stops(t)
        /\ DeleteComment(t) => talk[t].pc = "deleting" /\ Stops(t)
        /\ RemoveLike(t) => talk[t].pc = "removing" /\ Stops(t)
        /\ CreateLike(t) => talk[t].pc = "liking" /\ Stops(t)
    BY <1>1, <1>2, <1>a DEF ThankAuthor, DeleteComment, RemoveLike, CreateLike
  <1>6. /\ Unlike(t) => talk[t].pc = "unliking" /\ Goes(t, "removing")
        /\ CreditLikes(t) => talk[t].pc = "crediting" /\ Goes(t, "saving")
    BY <1>1, <1>3, <1>a DEF Unlike, CreditLikes
  <1>7. SaveComment(t) => /\ talk[t].pc = "updating"
                          /\ IF comment[talk[t].about].present /\ ~talk[t].base.present
                             THEN Stops(t) ELSE Goes(t, "liking")
    BY <1>1, <1>2, <1>3, <1>a DEF SaveComment, About
  <1>8. ASSUME SelectComment(t)
        PROVE  /\ talk[t].pc = "saving" /\ Goes(t, "updating")
               /\ talk'[t].base = comment[talk[t].about]
    <2> DEFINE x == [talk[t] EXCEPT !.pc = "updating", !.base = comment[talk[t].about]]
    <2>1. /\ talk[t].pc = "saving" /\ talk[t] # Silent /\ talk[t] \in Talking
          /\ talk[t].about \in Comments
      BY <1>8, <1>1, TalkTyped DEF SelectComment
    <2>2. comment[talk[t].about] \in CommentRow
      BY <2>1 DEF TalkTypeOK
    <2>3. /\ x \in Talking /\ x.pc = "updating" /\ x.own = talk[t].own /\ x.by = talk[t].by
          /\ x.about = talk[t].about /\ x.mine = talk[t].mine
          /\ x.base = comment[talk[t].about]
      BY <2>1, <2>2 DEF Talking
    <2>4. talk' = [talk EXCEPT ![t] = x]
      BY <1>8 DEF SelectComment, About
    <2> HIDE DEF x
    <2>5. talk'[t] = x /\ OnlyTalker(t)
      BY <2>3, <2>4 DEF OnlyTalker, TalkTypeOK
    <2>6. x # Silent
      BY <2>3 DEF Silent
    <2> QED
      BY <2>1, <2>3, <2>5, <2>6 DEF Goes
  <1> QED
    BY <1>4, <1>5, <1>6, <1>7, <1>8

\* Another like earns points once more if it is a tenth, and otherwise as often.
LEMMA DivStep ==
    ASSUME NEW h \in Nat
    PROVE  /\ h \div Ten \in Nat
           /\ (h + 1) \div Ten = (h \div Ten) + IF (h + 1) % Ten = 0 THEN 1 ELSE 0
  <1>0. Ten \in Nat /\ Ten > 0
    BY TalkAssumption
  <1> DEFINE q == h \div Ten  r == h % Ten  q1 == (h + 1) \div Ten  r1 == (h + 1) % Ten
  <1>1. q \in Nat /\ r \in 0..(Ten - 1) /\ h = Ten * q + r
    BY <1>0
  <1>2. q1 \in Nat /\ r1 \in 0..(Ten - 1) /\ h + 1 = Ten * q1 + r1
    BY <1>0
  <1> HIDE DEF q, r, q1, r1
  <1>3. Ten * (q1 - q) = r + 1 - r1
    BY <1>0, <1>1, <1>2
  <1>4. PICK d \in Int : d = q1 - q
    BY <1>1, <1>2
  <1>5. Ten * d = r + 1 - r1
    BY <1>3, <1>4
  <1>6. d >= 0
    <2>1. d <= -1 => Ten * d <= Ten * (-1)
      BY <1>0
    <2> QED
      BY <1>0, <1>1, <1>2, <1>4, <1>5, <2>1
  <1>7. d <= 1
    <2>1. d >= 2 => Ten * d >= Ten * 2
      BY <1>0
    <2> QED
      BY <1>0, <1>1, <1>2, <1>4, <1>5, <2>1
  <1>8. d = 1 <=> r1 = 0
    <2>1. d = 0 => r1 = r + 1
      BY <1>0, <1>1, <1>2, <1>5
    <2>2. d = 1 => r1 = r + 1 - Ten
      BY <1>0, <1>1, <1>2, <1>5
    <2> QED
      BY <1>0, <1>1, <1>2, <1>4, <1>6, <1>7, <2>1, <2>2
  <1> QED
    BY <1>1, <1>2, <1>4, <1>6, <1>7, <1>8 DEF q, r, q1, r1

\* ... and what it makes of the rows.
OnlyRow(c) == /\ comment' \in [Comments -> CommentRow]
              /\ \A d \in Comments \ {c} : comment'[d] = comment[d]

\* What adding and removing a like makes of a comment.
LEMMA RowShape ==
    ASSUME TalkTypeOK, NEW t \in Talkers, NEW c \in Comments, c = talk[t].about
    PROVE  /\ WriteComment(t) =>
                /\ OnlyRow(c) /\ comment'[c].present /\ comment'[c].likes = comment[c].likes
                /\ comment'[c].history = comment[c].history
                /\ comment'[c].rows = comment[c].rows
           /\ DeleteComment(t) => OnlyRow(c) /\ comment'[c] = Gone
           /\ Unlike(t) =>
                /\ OnlyRow(c) /\ comment'[c].present = comment[c].present
                /\ comment'[c].history = comment[c].history
                /\ comment'[c].rows = comment[c].rows
                /\ comment[c].present => comment'[c].likes = talk[t].mine.likes - 1
           /\ RemoveLike(t) =>
                /\ OnlyRow(c) /\ comment'[c].present = comment[c].present
                /\ comment'[c].history = comment[c].history
                /\ comment'[c].likes = comment[c].likes
                /\ \E l \in talk[t].mine.rows : comment'[c].rows = comment[c].rows \ {l}
           /\ SaveComment(t) =>
                /\ OnlyRow(c)
                /\ \/ /\ comment[c].present /\ talk[t].base.present /\ comment'[c].present
                      /\ comment'[c].rows = comment[c].rows \ (talk[t].base.rows \ talk[t].mine.rows)
                      /\ comment'[c].likes = IF talk[t].base.likes # talk[t].mine.likes + 1
                                             THEN talk[t].mine.likes + 1 ELSE comment[c].likes
                      /\ comment'[c].history = IF talk[t].base.history # talk[t].mine.history + 1
                                             THEN talk[t].mine.history + 1 ELSE comment[c].history
                   \/ ~comment[c].present /\ ~talk[t].base.present /\ comment'[c].rows = {}
                   \/ comment'[c] = comment[c] /\ (comment[c].present => ~talk[t].base.present)
           /\ CreateLike(t) =>
                /\ OnlyRow(c) /\ comment'[c].present = comment[c].present
                /\ comment'[c].history = comment[c].history
                /\ comment'[c].likes = comment[c].likes
                /\ comment'[c].rows = IF comment[c].present
                      THEN comment[c].rows \cup {[id |-> talk[t].own, by |-> talk[t].by]}
                      ELSE comment[c].rows
                /\ [id |-> talk[t].own, by |-> talk[t].by] \in Like
  <1>0. /\ comment[c] \in CommentRow /\ comment \in [Comments -> CommentRow]
    BY DEF TalkTypeOK
  <1>a. ASSUME NEW w \in CommentRow, comment' = [comment EXCEPT ![c] = w]
        PROVE  OnlyRow(c) /\ comment'[c] = w
    BY <1>0, <1>a DEF OnlyRow
  <1>b. ASSUME comment' = comment PROVE OnlyRow(c)
    BY <1>0, <1>b DEF OnlyRow
  <1>1. ASSUME WriteComment(t)
        PROVE  /\ OnlyRow(c) /\ comment'[c].present /\ comment'[c].likes = comment[c].likes
               /\ comment'[c].history = comment[c].history
               /\ comment'[c].rows = comment[c].rows
    <2> DEFINE w == [comment[c] EXCEPT !.present = TRUE]
    <2>1. /\ w \in CommentRow /\ w.present /\ w.likes = comment[c].likes
          /\ w.history = comment[c].history /\ w.rows = comment[c].rows
      BY <1>0 DEF CommentRow
    <2>2. comment' = [comment EXCEPT ![c] = w]
      BY <1>1 DEF WriteComment, About
    <2> HIDE DEF w
    <2> QED
      BY <1>a, <2>1, <2>2
  <1>2. ASSUME DeleteComment(t) PROVE OnlyRow(c) /\ comment'[c] = Gone
    <2>1. Gone \in CommentRow
      BY DEF Gone, CommentRow
    <2> QED
      BY <1>2, <1>a, <2>1 DEF DeleteComment, About
  <1>3. ASSUME Unlike(t)
        PROVE  /\ OnlyRow(c) /\ comment'[c].present = comment[c].present
               /\ comment'[c].history = comment[c].history
               /\ comment'[c].rows = comment[c].rows
               /\ comment[c].present => comment'[c].likes = talk[t].mine.likes - 1
    <2> DEFINE n == talk[t].mine.likes - 1  w == [comment[c] EXCEPT !.likes = n]
    <2>1. n \in Int
      BY <1>3, TalkTyped, TalkerShape DEF Goes, CommentRow
    <2>2. /\ w \in CommentRow /\ w.likes = n /\ w.present = comment[c].present
          /\ w.history = comment[c].history /\ w.rows = comment[c].rows
      BY <1>0, <2>1 DEF CommentRow
    <2>3. comment' = IF comment[c].present THEN [comment EXCEPT ![c] = w] ELSE comment
      BY <1>3 DEF Unlike, About
    <2> HIDE DEF w
    <2> QED
      BY <1>a, <1>b, <2>2, <2>3
  <1>4. ASSUME RemoveLike(t)
        PROVE  /\ OnlyRow(c) /\ comment'[c].present = comment[c].present
               /\ comment'[c].history = comment[c].history
               /\ comment'[c].likes = comment[c].likes
               /\ \E l \in talk[t].mine.rows : comment'[c].rows = comment[c].rows \ {l}
    <2>1. PICK l \in talk[t].mine.rows :
              comment' = [comment EXCEPT ![c] = [comment[c] EXCEPT !.rows = comment[c].rows \ {l}]]
      BY <1>4 DEF RemoveLike, About, LikesOf
    <2> DEFINE w == [comment[c] EXCEPT !.rows = comment[c].rows \ {l}]
    <2>2. /\ w \in CommentRow /\ w.likes = comment[c].likes /\ w.present = comment[c].present
          /\ w.history = comment[c].history /\ w.rows = comment[c].rows \ {l}
      BY <1>0 DEF CommentRow
    <2>3. comment' = [comment EXCEPT ![c] = w]
      BY <2>1
    <2> HIDE DEF w
    <2> QED
      BY <1>a, <2>2, <2>3
  <1>5. ASSUME CreateLike(t)
        PROVE  /\ OnlyRow(c) /\ comment'[c].present = comment[c].present
               /\ comment'[c].history = comment[c].history
               /\ comment'[c].likes = comment[c].likes
               /\ comment'[c].rows = IF comment[c].present
                      THEN comment[c].rows \cup {[id |-> talk[t].own, by |-> talk[t].by]}
                      ELSE comment[c].rows
               /\ [id |-> talk[t].own, by |-> talk[t].by] \in Like
    <2> DEFINE l == [id |-> talk[t].own, by |-> talk[t].by]
               w == [comment[c] EXCEPT !.rows = comment[c].rows \cup {l}]
    <2>1. l \in Like
      BY <1>5, TalkTyped, TalkerShape DEF Stops, Like
    <2>2. comment' = IF comment[c].present THEN [comment EXCEPT ![c] = w] ELSE comment
      BY <1>5 DEF CreateLike, About
    <2> HIDE DEF l
    <2>3. /\ w \in CommentRow /\ w.likes = comment[c].likes /\ w.present = comment[c].present
          /\ w.history = comment[c].history /\ w.rows = comment[c].rows \cup {l}
      BY <1>0, <2>1 DEF CommentRow
    <2> HIDE DEF w
    <2>4. /\ OnlyRow(c) /\ comment'[c].present = comment[c].present
          /\ comment'[c].history = comment[c].history
          /\ comment'[c].likes = comment[c].likes
          /\ comment'[c].rows = IF comment[c].present THEN comment[c].rows \cup {l}
                                ELSE comment[c].rows
      BY <1>a, <1>b, <2>2, <2>3
    <2> QED
      BY <2>1, <2>4 DEF l
  <1>6. ASSUME SaveComment(t)
        PROVE  /\ OnlyRow(c)
               /\ \/ /\ comment[c].present /\ talk[t].base.present /\ comment'[c].present
                     /\ comment'[c].rows = comment[c].rows \ (talk[t].base.rows \ talk[t].mine.rows)
                     /\ comment'[c].likes = IF talk[t].base.likes # talk[t].mine.likes + 1
                                            THEN talk[t].mine.likes + 1 ELSE comment[c].likes
                     /\ comment'[c].history = IF talk[t].base.history # talk[t].mine.history + 1
                                            THEN talk[t].mine.history + 1 ELSE comment[c].history
                  \/ ~comment[c].present /\ ~talk[t].base.present /\ comment'[c].rows = {}
                  \/ comment'[c] = comment[c] /\ (comment[c].present => ~talk[t].base.present)
    <2>1. talk[t].mine \in CommentRow /\ talk[t].base \in CommentRow
      BY <1>6, TalkTyped, TalkerShape DEF Goes, Stops
    <2>2. PICK m \in CommentRow, b \in CommentRow : m = talk[t].mine /\ b = talk[t].base
      BY <2>1
    <2>3. Increased(t).likes = m.likes + 1 /\ Increased(t).history = m.history + 1
      BY <2>2 DEF Increased, CommentRow
    <2> DEFINE w == [comment[c] EXCEPT
                       !.likes = IF b.likes # m.likes + 1 THEN m.likes + 1 ELSE comment[c].likes,
                       !.history = IF b.history # m.history + 1 THEN m.history + 1
                                   ELSE comment[c].history,
                       !.rows = comment[c].rows \ (b.rows \ m.rows)]
    <2>4. Merge(t, comment[c]) = w
      BY <2>2, <2>3 DEF Merge
    <2>5. /\ w \in CommentRow /\ w.present = comment[c].present
          /\ w.likes = IF b.likes # m.likes + 1 THEN m.likes + 1 ELSE comment[c].likes
          /\ w.history = IF b.history # m.history + 1 THEN m.history + 1 ELSE comment[c].history
          /\ w.rows = comment[c].rows \ (b.rows \ m.rows)
      <3>1. /\ comment[c].likes \in Int /\ comment[c].history \in Nat
            /\ m.likes \in Int /\ m.history \in Nat /\ comment[c].rows \in SUBSET Like
        BY <1>0 DEF CommentRow
      <3>2. PICK n \in Int : n = IF b.likes # m.likes + 1 THEN m.likes + 1 ELSE comment[c].likes
        BY <3>1
      <3>3. PICK h \in Nat : h = IF b.history # m.history + 1 THEN m.history + 1
                                 ELSE comment[c].history
        BY <3>1
      <3>4. PICK R \in SUBSET Like : R = comment[c].rows \ (b.rows \ m.rows)
        BY <3>1
      <3>5. w = [comment[c] EXCEPT !.likes = n, !.history = h, !.rows = R]
        BY <3>2, <3>3, <3>4
      <3> HIDE DEF w
      <3>6. /\ w \in CommentRow /\ w.present = comment[c].present /\ w.likes = n
            /\ w.history = h /\ w.rows = R
        BY <1>0, <3>5 DEF CommentRow
      <3> QED
        BY <3>2, <3>3, <3>4, <3>6
    <2>6. Detached(t) \in CommentRow /\ Detached(t).rows = {}
      <3>1. m.likes + 1 \in Int /\ m.history + 1 \in Nat /\ {} \in SUBSET Like
        BY DEF CommentRow
      <3>2. Detached(t) = [m EXCEPT !.likes = m.likes + 1, !.history = m.history + 1, !.rows = {}]
        BY <2>2 DEF Detached
      <3> QED
        BY <3>1, <3>2 DEF CommentRow
    <2>7. comment' = [comment EXCEPT ![c] =
                        CASE comment[c].present /\ b.present   -> Merge(t, comment[c])
                          [] ~comment[c].present /\ ~b.present -> Detached(t)
                          [] OTHER                             -> comment[c]]
      BY <1>6, <2>2 DEF SaveComment, About
    <2> HIDE DEF w
    <2>a. comment[c].present \in BOOLEAN /\ b.present \in BOOLEAN
      BY <1>0 DEF CommentRow
    <2>8. CASE comment[c].present /\ b.present
      <3>1. comment' = [comment EXCEPT ![c] = w]
        BY <2>4, <2>7, <2>8
      <3> QED
        BY <1>a, <2>2, <2>5, <2>8, <3>1
    <2>9. CASE ~comment[c].present /\ ~b.present
      <3>1. comment' = [comment EXCEPT ![c] = Detached(t)]
        BY <2>7, <2>9
      <3> QED
        BY <1>a, <2>2, <2>6, <2>9, <3>1
    <2>10. CASE comment[c].present <=> ~b.present
      <3>1. comment' = [comment EXCEPT ![c] = comment[c]]
        BY <2>7, <2>10
      <3> QED
        BY <1>0, <1>a, <2>2, <2>10, <3>1
    <2> QED
      BY <2>8, <2>9, <2>10, <2>a
  <1> QED
    BY <1>1, <1>2, <1>3, <1>4, <1>5, <1>6

\* Which step of addSurveyComment, deleteSurveyComment and the likes follows which.
LEMMA TalkSteps ==
    TalkNext <=> (\E t \in Talkers : TalkStep(t) \/ Says(t)) \/ Break
  BY DEF TalkNext, Says

\* What every step of a request leaves alone, and the request itself.
LEMMA TalkStepShape ==
    ASSUME TalkTypeOK, NEW t \in Talkers, TalkStep(t)
    PROVE  /\ OnlyTalker(t) /\ talk[t] # Silent /\ talk[t].about \in Comments
           /\ talk'[t] # Silent => /\ talk'[t].own = talk[t].own /\ talk'[t].by = talk[t].by
                                   /\ talk'[t].about = talk[t].about
                                   /\ talk'[t].mine = talk[t].mine
           /\ OnlyRow(talk[t].about) /\ UNCHANGED <<crossed, talks, breaks>>
  <1>1. /\ talk[t] # Silent /\ OnlyTalker(t)
        /\ talk'[t] # Silent => /\ talk'[t].own = talk[t].own /\ talk'[t].by = talk[t].by
                                /\ talk'[t].about = talk[t].about
                                /\ talk'[t].mine = talk[t].mine
    <2>1. Stops(t) \/ \E p : Goes(t, p)
      BY TalkerShape DEF TalkStep
    <2> QED
      BY <2>1 DEF Stops, Goes
  <1>2. PICK c \in Comments : c = talk[t].about
    BY <1>1, TalkTyped
  <1>3. OnlyRow(c)
    <2>1. CASE UNCHANGED comment
      BY <2>1 DEF OnlyRow, TalkTypeOK
    <2>2. CASE \/ WriteComment(t) \/ DeleteComment(t) \/ Unlike(t) \/ RemoveLike(t)
               \/ SaveComment(t) \/ CreateLike(t)
      BY <1>2, <2>2, RowShape
    <2>3. LinkComment(t) \/ ThankAuthor(t) \/ HideComment(t) \/ CreditLikes(t) \/ SelectComment(t)
             => UNCHANGED comment
      BY DEF LinkComment, ThankAuthor, HideComment, CreditLikes, SelectComment
    <2> QED
      BY <2>1, <2>2, <2>3 DEF TalkStep
  <1>4. UNCHANGED <<crossed, talks, breaks>>
    BY DEF TalkStep, WriteComment, LinkComment, ThankAuthor, HideComment, DeleteComment,
         Unlike, RemoveLike, CreditLikes, SelectComment, SaveComment, CreateLike, SameTalk
  <1> QED
    BY <1>1, <1>2, <1>3, <1>4

\* Nothing but a new like comes to the likes of a comment.
LEMMA RowsAfter ==
    ASSUME TalkTypeOK, NEW t \in Talkers, NEW c \in Comments, c = talk[t].about, TalkStep(t)
    PROVE  \/ comment'[c].rows \subseteq comment[c].rows
           \/ /\ CreateLike(t)
              /\ comment'[c].rows = comment[c].rows \cup {[id |-> talk[t].own, by |-> talk[t].by]}
  <1>1. ASSUME WriteComment(t) \/ Unlike(t) PROVE comment'[c].rows = comment[c].rows
    <2>1. CASE WriteComment(t)
      BY <2>1, RowShape
    <2>2. CASE Unlike(t)
      BY <2>2, RowShape
    <2> QED
      BY <1>1, <2>1, <2>2
  <1>2. ASSUME RemoveLike(t) PROVE comment'[c].rows \subseteq comment[c].rows
    <2>1. \E l \in talk[t].mine.rows : comment'[c].rows = comment[c].rows \ {l}
      BY <1>2, RowShape
    <2> QED
      BY <2>1
  <1>3. ASSUME SaveComment(t) PROVE comment'[c].rows \subseteq comment[c].rows
    <2>1. \/ comment'[c].rows = comment[c].rows \ (talk[t].base.rows \ talk[t].mine.rows)
          \/ comment'[c].rows = {}
          \/ comment'[c] = comment[c]
      BY <1>3, RowShape
    <2> QED
      BY <2>1
  <1>4. ASSUME DeleteComment(t) PROVE comment'[c].rows \subseteq comment[c].rows
    <2>1. comment'[c] = Gone
      BY <1>4, RowShape
    <2> QED
      BY <2>1 DEF Gone
  <1>5. ASSUME CreateLike(t)
        PROVE  \/ comment'[c].rows = comment[c].rows
               \/ comment'[c].rows = comment[c].rows \cup {[id |-> talk[t].own, by |-> talk[t].by]}
    <2>1. comment'[c].rows = IF comment[c].present
                      THEN comment[c].rows \cup {[id |-> talk[t].own, by |-> talk[t].by]}
                      ELSE comment[c].rows
      BY <1>5, RowShape
    <2> QED
      BY <2>1
  <1>6. LinkComment(t) \/ ThankAuthor(t) \/ HideComment(t) \/ CreditLikes(t) \/ SelectComment(t)
          => comment' = comment
    BY DEF LinkComment, ThankAuthor, HideComment, CreditLikes, SelectComment
  <1> QED
    BY <1>1, <1>2, <1>3, <1>4, <1>5, <1>6 DEF TalkStep

\* Every statement keeps the types.
LEMMA TalkStepTyped ==
    ASSUME TalkTypeOK, [TalkNext]_talkVars
    PROVE  TalkTypeOK'
  <1>1. ASSUME NEW t \in Talkers, TalkStep(t) PROVE TalkTypeOK'
    <2>1. /\ talk' \in [Talkers -> Talking \cup {Silent}]
          /\ comment' \in [Comments -> CommentRow]
          /\ UNCHANGED <<crossed, talks, breaks>> /\ talk[t].about \in Comments
      BY <1>1, TalkStepShape DEF OnlyTalker, OnlyRow
    <2>2. shown' \in 0..MaxTalks /\ posted' \in 0..MaxTalks
      <3>0. talk[t].about \in 0..MaxTalks /\ 0 \in 0..MaxTalks
        BY <2>1, TalkAssumption DEF Comments
      <3>1. shown' \in {shown, 0, talk[t].about} /\ posted' \in {posted, 0, talk[t].about}
        BY <1>1 DEF TalkStep, WriteComment, LinkComment, ThankAuthor, HideComment,
             DeleteComment, Unlike, RemoveLike, CreditLikes, SelectComment, SaveComment,
             CreateLike, About
      <3> QED
        BY <3>0, <3>1 DEF TalkTypeOK
    <2>3. comments' \in Nat
      <3>1. comments' \in {comments, comments + 1}
        BY <1>1 DEF TalkStep, WriteComment, LinkComment, ThankAuthor, HideComment,
             DeleteComment, Unlike, RemoveLike, CreditLikes, SelectComment, SaveComment,
             CreateLike
      <3> QED
        BY <3>1 DEF TalkTypeOK
    <2>4. credits' \in [Comments -> Nat]
      <3>1. CASE CreditLikes(t)
        <4>1. PICK n \in Nat : n = IF Earns(t) THEN 1 ELSE 0
          OBVIOUS
        <4>2. credits' = [credits EXCEPT ![talk[t].about] = @ + n]
          BY <3>1, <4>1 DEF CreditLikes, About
        <4> QED
          BY <2>1, <4>2 DEF TalkTypeOK
      <3>2. CASE ~CreditLikes(t)
        <4>1. credits' = credits
          BY <1>1, <3>2 DEF TalkStep, WriteComment, LinkComment, ThankAuthor, HideComment,
               DeleteComment, Unlike, RemoveLike, SelectComment, SaveComment, CreateLike
        <4> QED
          BY <4>1 DEF TalkTypeOK
      <3> QED
        BY <3>1, <3>2
    <2> QED
      BY <2>1, <2>2, <2>3, <2>4 DEF TalkTypeOK
  <1>2. ASSUME NEW t \in Talkers, Says(t) PROVE TalkTypeOK'
    <2>1. /\ talk' \in [Talkers -> Talking \cup {Silent}]
          /\ talks' \in 0..MaxTalks /\ crossed' \in BOOLEAN
          /\ UNCHANGED <<comment, shown, credits, comments, posted, breaks>>
      BY <1>2, SaysShape DEF OnlyTalker
    <2> QED
      BY <2>1 DEF TalkTypeOK
  <1>3. ASSUME Break PROVE TalkTypeOK'
    <2>1. talk' \in [Talkers -> Talking \cup {Silent}] /\ breaks' \in Nat
      BY <1>3 DEF Break, TalkTypeOK
    <2> QED
      BY <1>3, <2>1 DEF Break, TalkTypeOK
  <1>4. ASSUME UNCHANGED talkVars PROVE TalkTypeOK'
    BY <1>4 DEF talkVars, TalkTypeOK
  <1> QED
    BY <1>1, <1>2, <1>3, <1>4, TalkSteps

\* Every statement keeps the lists of likes finite.
LEMMA RowsFiniteStep ==
    ASSUME TalkTypeOK, RowsFinite, [TalkNext]_talkVars
    PROVE  RowsFinite'
  <1>1. ASSUME NEW t \in Talkers, TalkStep(t) PROVE RowsFinite'
    <2>1. PICK c \in Comments : c = talk[t].about
      BY <1>1, TalkStepShape
    <2>2. IsFiniteSet(comment'[c].rows)
      <3>1. IsFiniteSet(comment[c].rows)
        BY DEF RowsFinite
      <3>2. \A x : IsFiniteSet(comment[c].rows \cup {x})
        BY <3>1, OneMore
      <3>3. CASE comment'[c].rows \subseteq comment[c].rows
        BY <3>1, <3>3, FS_Subset
      <3>4. \/ comment'[c].rows \subseteq comment[c].rows
            \/ \E x : comment'[c].rows = comment[c].rows \cup {x}
        BY <1>1, <2>1, RowsAfter
      <3> QED
        BY <3>2, <3>3, <3>4
    <2>3. \A d \in Comments : IsFiniteSet(comment'[d].rows)
      BY <1>1, <2>1, <2>2, TalkStepShape DEF OnlyRow, RowsFinite
    <2>4. \A s \in Talkers : talk'[s] # Silent => IsFiniteSet(talk'[s].mine.rows)
      BY <1>1, TalkStepShape DEF OnlyTalker, RowsFinite
    <2> QED
      BY <2>3, <2>4 DEF RowsFinite
  <1>2. ASSUME NEW t \in Talkers, Says(t) PROVE RowsFinite'
    <2>1. /\ OnlyTalker(t) /\ talk'[t].about \in Comments
          /\ talk'[t].mine = comment[talk'[t].about] /\ comment' = comment
      BY <1>2, SaysShape
    <2> QED
      BY <2>1 DEF OnlyTalker, RowsFinite
  <1>3. ASSUME Break PROVE RowsFinite'
    BY <1>3 DEF Break, RowsFinite
  <1>4. ASSUME UNCHANGED talkVars PROVE RowsFinite'
    BY <1>4 DEF talkVars, RowsFinite
  <1> QED
    BY <1>1, <1>2, <1>3, <1>4, TalkSteps

\* Every statement keeps what is not written yet away from the tables.
LEMMA NumberedStep ==
    ASSUME TalkTypeOK, Numbered, [TalkNext]_talkVars
    PROVE  Numbered'
  <1>1. ASSUME NEW t \in Talkers, TalkStep(t) PROVE Numbered'
    <2>1. PICK c \in Comments : c = talk[t].about
      BY <1>1, TalkStepShape
    <2>2. c <= talks /\ talks' = talks /\ talk[t] # Silent
      BY <1>1, <2>1, TalkStepShape DEF Numbered
    <2>3. shown' <= talks'
      <3>1. shown' \in {shown, 0, c}
        BY <1>1, <2>1 DEF TalkStep, WriteComment, LinkComment, ThankAuthor, HideComment,
             DeleteComment, Unlike, RemoveLike, CreditLikes, SelectComment, SaveComment,
             CreateLike, About
      <3> QED
        BY <2>2, <3>1 DEF Numbered, TalkTypeOK
    <2>4. ASSUME NEW d \in Comments, d > talks PROVE comment'[d] = Gone /\ credits'[d] = 0
      <3>1. d # c /\ comment'[d] = comment[d]
        BY <1>1, <2>1, <2>2, <2>4, TalkStepShape DEF OnlyRow, Comments, TalkTypeOK
      <3>2. credits'[d] = credits[d]
        BY <1>1, <2>1, <3>1 DEF TalkStep, WriteComment, LinkComment, ThankAuthor, HideComment,
             DeleteComment, Unlike, RemoveLike, CreditLikes, SelectComment, SaveComment,
             CreateLike, About, TalkTypeOK
      <3> QED
        BY <2>4, <3>1, <3>2 DEF Numbered
    <2>5. ASSUME NEW s \in Talkers
          PROVE  /\ talk'[s] # Silent => talk'[s].about <= talks'
                 /\ talk'[s].pc \in Liking => talk'[s].mine.present
      <3>1. CASE s # t
        BY <1>1, <2>2, <3>1, TalkStepShape DEF OnlyTalker, Numbered
      <3>2. CASE s = t
        <4>1. talk'[t].pc \in Liking => talk[t].pc \in Liking /\ talk'[t] # Silent
          <5>1. \/ talk'[t] = Silent
                \/ talk'[t].pc \in {"linking", "thanking", "deleting"}
                \/ talk[t].pc \in Liking
            BY <1>1, TalkerShape DEF TalkStep, Stops, Goes, Liking
          <5> QED
            BY <5>1 DEF Liking, Silent
        <4> QED
          BY <1>1, <2>1, <2>2, <3>2, <4>1, TalkStepShape DEF Numbered
      <3> QED
        BY <3>1, <3>2
    <2> QED
      BY <2>2, <2>3, <2>4, <2>5 DEF Numbered
  <1>2. ASSUME NEW t \in Talkers, Says(t) PROVE Numbered'
    <2>1. /\ OnlyTalker(t) /\ talk'[t].about \in Comments
          /\ talk'[t].mine = comment[talk'[t].about]
          /\ \/ talk'[t].pc = "writing" /\ shown = 0 /\ talk'[t].about = talks + 1
             \/ talk'[t].pc = "hiding" /\ talk'[t].about = shown
             \/ comment[talk'[t].about].present
          /\ talks' = talks + 1 /\ talks \in Nat
          /\ UNCHANGED <<comment, shown, credits>>
      BY <1>2, SaysShape DEF TalkTypeOK
    <2>2. talk'[t].about <= talks'
      <3>1. comment[talk'[t].about].present => talk'[t].about <= talks
        BY <2>1 DEF Numbered, Gone, Comments
      <3> QED
        BY <2>1, <3>1 DEF Numbered, Comments, TalkTypeOK
    <2>3. talk'[t].pc \in Liking => talk'[t].mine.present
      BY <2>1 DEF Liking
    <2>4. ASSUME NEW s \in Talkers, s # t
          PROVE  /\ talk'[s] # Silent => talk'[s].about <= talks'
                 /\ talk'[s].pc \in Liking => talk'[s].mine.present
      <3>1. /\ talk[s] # Silent => talk[s].about <= talks /\ talk[s].about \in Nat
            /\ talk[s].pc \in Liking => talk[s].mine.present
        BY TalkTyped DEF Numbered, Comments
      <3> QED
        BY <2>1, <2>4, <3>1 DEF OnlyTalker
    <2>5. shown' <= talks' /\ \A c \in Comments : c > talks' => comment'[c] = Gone /\ credits'[c] = 0
      BY <2>1 DEF Numbered, Comments, TalkTypeOK
    <2> QED
      BY <2>2, <2>3, <2>4, <2>5 DEF Numbered
  <1>3. ASSUME Break PROVE Numbered'
    BY <1>3 DEF Break, Numbered, Silent, Liking
  <1>4. ASSUME UNCHANGED talkVars PROVE Numbered'
    BY <1>4 DEF talkVars, Numbered
  <1> QED
    BY <1>1, <1>2, <1>3, <1>4, TalkSteps

\* Every statement keeps a comment linked by one request, and shown if it exists.
LEMMA LinkedStep ==
    ASSUME TalkTypeOK, Numbered, Linked, [TalkNext]_talkVars
    PROVE  Linked'
  <1> DEFINE W == {"writing", "linking"}  D == {"hiding", "deleting"}
  <1>0. \A t \in Talkers : talk[t].pc \in W \cup D => talk[t] # Silent /\ talk[t].about \in Comments
    BY TalkTyped
  <1>1. ASSUME NEW t \in Talkers, Says(t) PROVE Linked'
    <2>1. /\ OnlyTalker(t) /\ talk'[t].about \in Comments
          /\ \/ talk'[t].pc = "writing" /\ shown = 0 /\ talk'[t].about = talks + 1
             \/ talk'[t].pc = "hiding" /\ talk'[t].about = shown
             \/ talk'[t].pc \in {"unliking", "crediting"}
          /\ UNCHANGED <<comment, shown>>
      BY <1>1, SaysShape
    <2>2. \A s \in Talkers : talk[s].pc \in W \cup D => talk[s].about # talks + 1
      BY <1>0 DEF Numbered, Comments, TalkTypeOK
    <2>a. \A s \in Talkers : talk[s].pc \in W => talk[s].about # shown
      BY DEF Linked
    <2>3. ASSUME NEW r \in Talkers, NEW s \in Talkers
          PROVE  /\ talk'[r].pc \in W /\ talk'[s].pc \in W /\ talk'[r].about = talk'[s].about
                       => r = s
                 /\ talk'[r].pc \in W /\ talk'[s].pc \in D => talk'[r].about # talk'[s].about
      <3>1. CASE r # t /\ s # t
        BY <2>1, <3>1 DEF OnlyTalker, Linked
      <3>2. CASE r = t /\ s # t
        <4>1. talk'[s] = talk[s]
          BY <2>1, <3>2 DEF OnlyTalker
        <4> QED
          BY <2>1, <2>2, <3>2, <4>1
      <3>3. CASE r # t /\ s = t
        <4>1. talk'[r] = talk[r]
          BY <2>1, <3>3 DEF OnlyTalker
        <4> QED
          BY <2>1, <2>2, <2>a, <3>3, <4>1
      <3>4. CASE r = t /\ s = t
        BY <2>1, <3>4
      <3> QED
        BY <3>1, <3>2, <3>3, <3>4
    <2>4. ASSUME NEW s \in Talkers
          PROVE  /\ talk'[s].pc \in W => shown' # talk'[s].about
                 /\ talk'[s].pc = "linking" => comment'[talk'[s].about].present
                 /\ talk'[s].pc = "deleting" => shown' # talk'[s].about
      <3>1. CASE s # t
        BY <2>1, <3>1 DEF OnlyTalker, Linked
      <3>2. CASE s = t
        BY <2>1, <3>2 DEF Comments
      <3> QED
        BY <3>1, <3>2
    <2> QED
      BY <2>1, <2>3, <2>4 DEF Linked, ShownExists
  \* What a step keeps of the bonds between the requests.
  <1>2. ASSUME NEW t \in Talkers, TalkStep(t) PROVE Linked'
    <2>1. PICK c \in Comments : c = talk[t].about
      BY <1>2, TalkStepShape
    <2>2. OnlyTalker(t) /\ OnlyRow(c) /\ (talk'[t] # Silent => talk'[t].about = c)
      BY <1>2, <2>1, TalkStepShape
    <2>3. /\ talk'[t].pc \in W => talk[t].pc = "writing" /\ talk'[t].pc = "linking" /\ WriteComment(t)
          /\ talk'[t].pc \in D => talk[t].pc = "hiding" /\ talk'[t].pc = "deleting" /\ HideComment(t)
      <3>1. \/ talk'[t] = Silent
            \/ talk'[t].pc \in {"thanking"} \cup Liking
            \/ WriteComment(t) \/ HideComment(t)
        BY <1>2, TalkerShape DEF TalkStep, Stops, Goes, Liking
      <3> QED
        BY <3>1, TalkerShape DEF Silent, Liking, Goes
    <2>4. ASSUME NEW r \in Talkers, NEW s \in Talkers
          PROVE  /\ talk'[r].pc \in W /\ talk'[s].pc \in W /\ talk'[r].about = talk'[s].about
                       => r = s
                 /\ talk'[r].pc \in W /\ talk'[s].pc \in D => talk'[r].about # talk'[s].about
      <3>1. /\ talk'[r].pc \in W => talk[r].pc \in W /\ talk'[r].about = talk[r].about
            /\ talk'[s].pc \in W => talk[s].pc \in W /\ talk'[s].about = talk[s].about
            /\ talk'[s].pc \in D => talk[s].pc \in D /\ talk'[s].about = talk[s].about
        <4>1. ASSUME NEW q \in Talkers
              PROVE  /\ talk'[q].pc \in W => talk[q].pc \in W /\ talk'[q].about = talk[q].about
                     /\ talk'[q].pc \in D => talk[q].pc \in D /\ talk'[q].about = talk[q].about
          <5>1. CASE q # t
            BY <2>2, <5>1 DEF OnlyTalker
          <5>2. CASE q = t
            <6>1. talk'[t].pc \in W \cup D => talk'[t] # Silent
              BY DEF Silent
            <6> QED
              BY <2>1, <2>2, <2>3, <5>2, <6>1
          <5> QED
            BY <5>1, <5>2
        <4> QED
          BY <4>1
      <3> QED
        BY <3>1 DEF Linked
    <2>5. shown' = shown \/ (LinkComment(t) /\ shown' = c) \/ (HideComment(t) /\ shown' = 0)
      BY <1>2, <2>1 DEF TalkStep, WriteComment, LinkComment, ThankAuthor, HideComment,
           DeleteComment, Unlike, RemoveLike, CreditLikes, SelectComment, SaveComment,
           CreateLike, About
    <2>6. DeleteComment(t) \/ (comment[c].present => comment'[c].present)
      <3>1. CASE WriteComment(t) \/ Unlike(t) \/ RemoveLike(t) \/ CreateLike(t)
        BY <2>1, <3>1, RowShape
      <3>2. CASE SaveComment(t)
        BY <2>1, <3>2, RowShape
      <3>3. CASE LinkComment(t) \/ ThankAuthor(t) \/ HideComment(t) \/ CreditLikes(t)
                 \/ SelectComment(t)
        BY <3>3 DEF LinkComment, ThankAuthor, HideComment, CreditLikes, SelectComment
      <3> QED
        BY <1>2, <3>1, <3>2, <3>3 DEF TalkStep
    <2>7. \A d \in Comments : comment[d].present =>
             comment'[d].present \/ (d = c /\ talk[t].pc = "deleting")
      <3>1. DeleteComment(t) => talk[t].pc = "deleting"
        BY TalkerShape
      <3> QED
        BY <2>2, <2>6, <3>1 DEF OnlyRow
    <2>8. LinkComment(t) => talk[t].pc = "linking"
      BY TalkerShape
    <2>9. ShownExists'
      <3>1. CASE shown' = shown
        <4>1. shown # 0 => shown \in Comments /\ comment[shown].present
          BY DEF Linked, ShownExists, TalkTypeOK, Comments
        <4>2. talk[t].pc = "deleting" => shown # c
          BY <2>1 DEF Linked
        <4> QED
          BY <2>7, <3>1, <4>1, <4>2 DEF ShownExists
      <3>2. CASE LinkComment(t) /\ shown' = c
        <4>1. comment[c].present /\ talk[t].pc # "deleting"
          BY <2>1, <2>8, <3>2 DEF Linked
        <4> QED
          BY <2>7, <3>2, <4>1 DEF ShownExists
      <3>3. CASE shown' = 0
        BY <3>3 DEF ShownExists
      <3> QED
        BY <2>5, <3>1, <3>2, <3>3
    <2>10. ASSUME NEW s \in Talkers
           PROVE  /\ talk'[s].pc \in W => shown' # talk'[s].about
                  /\ talk'[s].pc = "linking" => comment'[talk'[s].about].present
                  /\ talk'[s].pc = "deleting" => shown' # talk'[s].about
      <3>1. CASE s # t
        <4>1. talk'[s] = talk[s] /\ (talk[s].pc \in W \cup D => talk[s].about \in Comments)
          BY <1>0, <2>2, <3>1 DEF OnlyTalker
        <4>2. talk[s].pc \in W => shown' # talk[s].about
          <5>1. talk[s].pc \in W /\ LinkComment(t) => talk[s].about # c
            BY <2>1, <2>8, <3>1 DEF Linked
          <5> QED
            BY <2>5, <4>1, <5>1 DEF Linked, Comments
        <4>3. talk[s].pc = "linking" => comment'[talk[s].about].present
          <5>1. talk[s].pc = "linking" /\ talk[t].pc = "deleting" => talk[s].about # c
            BY <2>1 DEF Linked
          <5> QED
            BY <2>7, <4>1, <5>1 DEF Linked
        <4>4. talk[s].pc = "deleting" => shown' # talk[s].about
          <5>1. talk[s].pc = "deleting" /\ LinkComment(t) => talk[s].about # c
            BY <2>1, <2>8 DEF Linked
          <5> QED
            BY <2>5, <4>1, <5>1 DEF Linked, Comments
        <4> QED
          BY <4>1, <4>2, <4>3, <4>4
      <3>2. CASE s = t
        <4>1. talk'[t].pc \in W =>
                 /\ shown' # talk'[t].about /\ comment'[talk'[t].about].present
          <5>1. ASSUME talk'[t].pc \in W
                PROVE  shown' = shown /\ talk'[t].about = c /\ comment'[c].present
                       /\ talk[t].pc = "writing"
            <6>1. /\ talk[t].pc = "writing" /\ WriteComment(t) /\ talk'[t] # Silent
              BY <2>3, <5>1 DEF Silent
            <6>2. comment'[c].present
              BY <2>1, <6>1, RowShape
            <6> QED
              BY <2>2, <6>1, <6>2 DEF WriteComment
          <5> QED
            BY <2>1, <5>1 DEF Linked
        <4>2. talk'[t].pc = "deleting" => shown' # talk'[t].about
          <5>1. ASSUME talk'[t].pc = "deleting"
                PROVE  shown' = 0 /\ talk'[t].about = c
            <6>1. HideComment(t) /\ talk'[t] # Silent
              BY <2>3, <5>1 DEF Silent
            <6> QED
              BY <2>2, <6>1 DEF HideComment
          <5> QED
            BY <5>1 DEF Comments
        <4> QED
          BY <3>2, <4>1, <4>2
      <3> QED
        BY <3>1, <3>2
    <2> QED
      BY <2>4, <2>9, <2>10 DEF Linked
  <1>3. ASSUME Break PROVE Linked'
    BY <1>3 DEF Break, Linked, ShownExists, Silent
  <1>4. ASSUME UNCHANGED talkVars PROVE Linked'
    BY <1>4 DEF talkVars, Linked, ShownExists
  <1> QED
    BY <1>1, <1>2, <1>3, <1>4, TalkSteps

\* The requests that like a comment are finitely many.
LEMMA LikesFinite ==
    ASSUME TalkTypeOK, RowsFinite, NEW c \in Comments, NEW u
    PROVE  /\ IsFiniteSet(LikesOf(comment[c], u)) /\ Cardinality(LikesOf(comment[c], u)) \in Nat
           /\ IsFiniteSet(LikesComing(c, u)) /\ Cardinality(LikesComing(c, u)) \in Nat
           /\ Cardinality(LikesComing(c, u)) <= Cardinality(Talkers)
           /\ IsFiniteSet(Talkers) /\ Cardinality(Talkers) \in Nat
  <1>1. LikesOf(comment[c], u) \subseteq comment[c].rows /\ IsFiniteSet(comment[c].rows)
    BY DEF LikesOf, RowsFinite
  <1>2. LikesComing(c, u) \subseteq Talkers /\ IsFiniteSet(Talkers)
    BY TalkAssumption DEF LikesComing
  <1> QED
    BY <1>1, <1>2, FS_Subset, FS_CardinalityType

\* Every statement keeps the likes of a user, there and to come, within the
\* requests.
LEMMA LikeRoomStep ==
    ASSUME TalkTypeOK, RowsFinite, RowsFinite', LikeRoom, [TalkNext]_talkVars
    PROVE  LikeRoom'
  <1> DEFINE Room(c, u) == Cardinality(LikesOf(comment[c], u)) + Cardinality(LikesComing(c, u))
                               <= Cardinality(Talkers)
  <1>0. \A c \in Comments, u \in Users : Room(c, u)
    BY DEF LikeRoom
  <1>a. (\A c \in Comments, u \in Users : Room(c, u)') => LikeRoom'
    BY DEF LikeRoom
  \* A step after which there is nothing that was not there.
  <1>b. ASSUME NEW c \in Comments, NEW u \in Users,
               LikesOf(comment[c], u)' \subseteq LikesOf(comment[c], u),
               LikesComing(c, u)' \subseteq LikesComing(c, u)
        PROVE  Room(c, u)'
    <2> DEFINE L == LikesOf(comment[c], u)  K == LikesComing(c, u)
               L1 == LikesOf(comment[c], u)'  K1 == LikesComing(c, u)'
    <2>1. /\ IsFiniteSet(L) /\ Cardinality(L) \in Nat /\ IsFiniteSet(K) /\ Cardinality(K) \in Nat
          /\ Cardinality(Talkers) \in Nat
      BY LikesFinite
    <2>2. /\ Cardinality(L1) <= Cardinality(L) /\ Cardinality(L1) \in Nat
          /\ Cardinality(K1) <= Cardinality(K) /\ Cardinality(K1) \in Nat
      BY <1>b, <2>1, FS_Subset, FS_CardinalityType
    <2>3. Cardinality(L) + Cardinality(K) <= Cardinality(Talkers)
      BY <1>0
    <2> HIDE DEF L, K, L1, K1
    <2>4. Cardinality(L1) + Cardinality(K1) <= Cardinality(Talkers)
      BY <2>1, <2>2, <2>3
    <2> QED
      BY <2>4 DEF L1, K1
  <1>1. ASSUME NEW t \in Talkers, TalkStep(t) PROVE LikeRoom'
    <2>1. PICK c \in Comments, v \in Users : c = talk[t].about /\ v = talk[t].by
      BY <1>1, TalkStepShape, TalkTyped
    <2>2. /\ OnlyTalker(t) /\ OnlyRow(c) /\ talk[t] # Silent
          /\ talk'[t] # Silent => talk'[t].about = c /\ talk'[t].by = v
      BY <1>1, <2>1, TalkStepShape
    <2>3. talk'[t].pc \in Coming => talk'[t] # Silent /\ talk[t].pc \in Coming
      <3>1. \/ talk'[t] = Silent
            \/ talk'[t].pc \in {"linking", "thanking", "deleting", "removing"}
            \/ talk[t].pc \in Coming
        BY <1>1, TalkerShape DEF TalkStep, Stops, Goes, Coming
      <3> QED
        BY <3>1 DEF Coming, Silent
    <2>4. \A d \in Comments, u \in Users : LikesComing(d, u)' \subseteq LikesComing(d, u)
      BY <2>1, <2>2, <2>3 DEF LikesComing, OnlyTalker
    <2> DEFINE l == [id |-> talk[t].own, by |-> talk[t].by]
    <2>5. l.by = v
      BY <2>1
    <2>6. \/ comment'[c].rows \subseteq comment[c].rows
          \/ CreateLike(t) /\ comment'[c].rows = comment[c].rows \cup {l}
      BY <1>1, <2>1, RowsAfter
    <2> HIDE DEF l
    <2>7. ASSUME NEW d \in Comments, NEW u \in Users PROVE Room(d, u)'
      <3>1. CASE LikesOf(comment[d], u)' \subseteq LikesOf(comment[d], u)
        BY <1>b, <2>4, <3>1
      <3>2. CASE ~(LikesOf(comment[d], u)' \subseteq LikesOf(comment[d], u))
        <4>1. d = c
          BY <2>2, <3>2 DEF LikesOf, OnlyRow
        <4>2. CreateLike(t) /\ comment'[c].rows = comment[c].rows \cup {l}
          BY <2>6, <3>2, <4>1 DEF LikesOf
        <4>3. u = v /\ LikesOf(comment[c], u)' \subseteq LikesOf(comment[c], u) \cup {l}
          BY <2>5, <3>2, <4>1, <4>2 DEF LikesOf
        <4>4. t \in LikesComing(c, u) /\ t \notin LikesComing(c, u)'
          <5>1. talk[t].pc = "liking" /\ talk'[t] = Silent
            BY <4>2, TalkerShape DEF Stops
          <5> QED
            BY <2>1, <4>3, <5>1 DEF LikesComing, Coming, Silent
        <4>5. LikesComing(c, u)' \subseteq LikesComing(c, u) \ {t}
          BY <2>4, <4>4
        <4> DEFINE L == LikesOf(comment[c], u)  K == LikesComing(c, u)
                   L1 == LikesOf(comment[c], u)'  K1 == LikesComing(c, u)'
        <4>6. /\ IsFiniteSet(L) /\ Cardinality(L) \in Nat /\ IsFiniteSet(K)
              /\ Cardinality(K) \in Nat /\ Cardinality(Talkers) \in Nat
          BY LikesFinite
        <4>7. Cardinality(L) + Cardinality(K) <= Cardinality(Talkers)
          BY <1>0
        <4>8. L1 \subseteq L \cup {l} /\ K1 \subseteq K \ {t} /\ t \in K
          BY <4>3, <4>4, <4>5
        <4> HIDE DEF L, K, L1, K1
        <4>9. /\ IsFiniteSet(L \cup {l}) /\ Cardinality(L \cup {l}) \in Nat
              /\ Cardinality(L \cup {l}) <= Cardinality(L) + 1
          BY <4>6, OneMore
        <4>10. /\ IsFiniteSet(K \ {t}) /\ Cardinality(K \ {t}) \in Nat
               /\ Cardinality(K \ {t}) = Cardinality(K) - 1
          BY <4>6, <4>8, OneLess
        <4>11. /\ Cardinality(L1) <= Cardinality(L \cup {l}) /\ Cardinality(L1) \in Nat
               /\ Cardinality(K1) <= Cardinality(K \ {t}) /\ Cardinality(K1) \in Nat
          BY <4>8, <4>9, <4>10, FS_Subset, FS_CardinalityType
        <4>12. Cardinality(L1) + Cardinality(K1) <= Cardinality(Talkers)
          BY <4>6, <4>7, <4>9, <4>10, <4>11
        <4> QED
          BY <4>1, <4>12 DEF L1, K1
      <3> QED
        BY <3>1, <3>2
    <2> QED
      BY <1>a, <2>7
  <1>2. ASSUME NEW t \in Talkers, Says(t) PROVE LikeRoom'
    <2>1. /\ OnlyTalker(t) /\ talk[t] = Silent /\ talk'[t].about \in Comments /\ talk'[t].by \in Users
          /\ \/ talk'[t].pc \in {"writing", "hiding", "unliking"}
             \/ LikesOf(comment[talk'[t].about], talk'[t].by) = {}
          /\ comment' = comment
      BY <1>2, SaysShape
    <2>2. ASSUME NEW d \in Comments, NEW u \in Users PROVE Room(d, u)'
      <3>1. CASE LikesOf(comment[d], u) = {}
        <4>1. Cardinality(LikesOf(comment[d], u)') = 0
          BY <2>1, <3>1, FS_EmptySet
        <4>2. /\ Cardinality(LikesComing(d, u)') <= Cardinality(Talkers)
              /\ Cardinality(LikesComing(d, u)') \in Nat /\ Cardinality(Talkers) \in Nat
          <5>1. LikesComing(d, u)' \subseteq Talkers
            BY DEF LikesComing
          <5> QED
            BY <5>1, TalkAssumption, FS_Subset, FS_CardinalityType
        <4> QED
          BY <4>1, <4>2
      <3>2. CASE LikesOf(comment[d], u) # {}
        <4>1. t \notin LikesComing(d, u)'
          BY <2>1, <3>2 DEF LikesComing, Coming
        <4>2. LikesComing(d, u)' \subseteq LikesComing(d, u)
          BY <2>1, <4>1 DEF LikesComing, OnlyTalker
        <4> QED
          BY <1>b, <2>1, <4>2
      <3> QED
        BY <3>1, <3>2
    <2> QED
      BY <1>a, <2>2
  <1>3. ASSUME Break PROVE LikeRoom'
    <2>1. \A d \in Comments, u \in Users : LikesComing(d, u)' \subseteq LikesComing(d, u)
      BY <1>3 DEF Break, LikesComing, Coming, Silent
    <2>2. comment' = comment
      BY <1>3 DEF Break
    <2> QED
      BY <1>a, <1>b, <2>1, <2>2
  <1>4. ASSUME UNCHANGED talkVars PROVE LikeRoom'
    BY <1>4 DEF talkVars, LikeRoom, LikesComing
  <1> QED
    BY <1>1, <1>2, <1>3, <1>4, TalkSteps

\* No likes are no tens of likes.
LEMMA DivZero == 0 \div Ten = 0
  <1>0. Ten \in Nat /\ Ten > 0
    BY TalkAssumption
  <1> DEFINE q == 0 \div Ten  r == 0 % Ten
  <1>1. q \in Int /\ r \in 0..(Ten - 1) /\ 0 = Ten * q + r
    BY <1>0
  <1> HIDE DEF q, r
  <1>2. q <= 0
    <2>1. q >= 1 => Ten * q >= Ten
      BY <1>0, <1>1
    <2> QED
      BY <1>0, <1>1, <2>1
  <1>3. q >= 0
    <2>1. q <= -1 => Ten * q <= -Ten
      BY <1>0, <1>1
    <2> QED
      BY <1>0, <1>1, <2>1
  <1> QED
    BY <1>1, <1>2, <1>3 DEF q

\* A comment with the same counter and likes is as even as before.
LEMMA EvenSame ==
    ASSUME NEW x, NEW y, x.likes = y.likes, x.rows = y.rows
    PROVE  Even(x) <=> Even(y)
  BY DEF Even, LikesOf

\* A comment that is not there is even.
LEMMA EvenGone == Even(Gone)
  <1>1. Gone.rows = {} /\ Gone.likes = 0
    BY DEF Gone
  <1>2. \A u : LikesOf(Gone, u) = {}
    BY <1>1 DEF LikesOf
  <1> QED
    BY <1>1, <1>2, FS_EmptySet DEF Even

\* What the request that runs alone finds, and what is left to show of its step.
LEMMA AloneStep ==
    ASSUME TalkTypeOK, RowsFinite, Numbered, CalmTalk, ~crossed,
           NEW t \in Talkers, NEW c \in Comments, c = talk[t].about, TalkStep(t)
    PROVE  /\ LoadedAt(talk[t]) /\ shown = posted
           /\ breaks = 0 /\ talk[t].pc \notin {"removing", "liking"} => Even(comment[c])
           /\ comment[c].present /\ talk[t].pc \notin {"saving", "updating"}
                 => Paid(credits[c], comment[c].history)
           /\ /\ shown' = posted'
              /\ breaks = 0 => Even(comment'[c]) \/ talk'[t].pc \in {"removing", "liking"}
              /\ comment'[c].present => \/ Paid(credits'[c], comment'[c].history)
                                        \/ talk'[t].pc \in {"saving", "updating"}
              /\ talk'[t] # Silent => LoadedAt(talk[t])'
              => CalmTalk'
  <1>1. /\ OnlyTalker(t) /\ talk[t] # Silent /\ OnlyRow(c)
        /\ talk'[t] # Silent => talk'[t].about = c
        /\ UNCHANGED <<crossed, talks, breaks>>
    BY TalkStepShape
  <1>2. OneTalks /\ PostedIsShown /\ EvenRows /\ PaidRows /\ Loaded
    BY DEF CalmTalk
  <1>3. \A s \in Talkers : talk[s] # Silent => s = t
    BY <1>1, <1>2 DEF OneTalks
  <1>4. \A s \in Talkers : talk[s].pc \in {"removing", "liking", "saving", "updating"} => s = t
    BY <1>3 DEF Silent
  <1>5. LoadedAt(talk[t]) /\ shown = posted
    BY <1>1, <1>2 DEF Loaded, PostedIsShown
  <1>6. /\ breaks = 0 => \A d \in Comments : Even(comment[d]) \/ (d = c /\ talk[t].pc \in {"removing", "liking"})
        /\ \A d \in Comments : comment[d].present =>
               Paid(credits[d], comment[d].history) \/ (d = c /\ talk[t].pc \in {"saving", "updating"})
    BY <1>2, <1>4 DEF EvenRows, PaidRows
  <1>7. ASSUME shown' = posted',
               breaks = 0 => Even(comment'[c]) \/ talk'[t].pc \in {"removing", "liking"},
               comment'[c].present => \/ Paid(credits'[c], comment'[c].history)
                                      \/ talk'[t].pc \in {"saving", "updating"},
               talk'[t] # Silent => LoadedAt(talk[t])'
        PROVE  CalmTalk'
    <2>1. \A s \in Talkers : talk'[s] # Silent => s = t
      BY <1>1, <1>3 DEF OnlyTalker
    <2>2. OneTalks' /\ PostedIsShown' /\ Loaded'
      BY <1>7, <2>1 DEF OneTalks, PostedIsShown, Loaded
    <2>3. \A d \in Comments \ {c} : comment'[d] = comment[d] /\ credits'[d] = credits[d]
      <3>1. \A d \in Comments \ {c} : credits'[d] = credits[d]
        BY DEF TalkStep, WriteComment, LinkComment, ThankAuthor, HideComment,
             DeleteComment, Unlike, RemoveLike, CreditLikes, SelectComment, SaveComment,
             CreateLike, About, TalkTypeOK
      <3> QED
        BY <1>1, <3>1 DEF OnlyRow
    <2>a. talk'[t].pc \in {"removing", "liking", "saving", "updating"} => talk'[t].about = c
      BY <1>1 DEF Silent
    <2>4. EvenRows'
      <3>1. ASSUME breaks = 0, NEW d \in Comments
            PROVE  Even(comment'[d]) \/ \E s \in Talkers : /\ talk'[s].pc \in {"removing", "liking"}
                                                          /\ talk'[s].about = d
        BY <1>6, <1>7, <2>3, <2>a, <3>1
      <3> QED
        BY <1>1, <3>1 DEF EvenRows
    <2>5. PaidRows'
      <3>1. ASSUME NEW d \in Comments, comment'[d].present
            PROVE  \/ Paid(credits'[d], comment'[d].history)
                   \/ \E s \in Talkers : talk'[s].pc \in {"saving", "updating"} /\ talk'[s].about = d
        BY <1>6, <1>7, <2>3, <2>a, <3>1
      <3>2. \A n, h : Paid(n, h) <=> Paid(n, h)'
        BY <1>1 DEF Paid
      <3> QED
        BY <3>1, <3>2 DEF PaidRows
    <2> QED
      BY <2>2, <2>4, <2>5 DEF CalmTalk
  <1> QED
    BY <1>5, <1>6, <1>7

\* While requests do not meet, counter, likes and points stay in step.
LEMMA CalmTalkStep ==
    ASSUME TalkTypeOK, RowsFinite, Numbered, CalmTalk, [TalkNext]_talkVars
    PROVE  CalmTalk'
  <1>1. ASSUME NEW t \in Talkers, TalkStep(t), ~crossed PROVE CalmTalk'
    <2>1. PICK c \in Comments : c = talk[t].about
      BY <1>1, TalkStepShape
    <2>2. /\ LoadedAt(talk[t]) /\ shown = posted
          /\ breaks = 0 /\ talk[t].pc \notin {"removing", "liking"} => Even(comment[c])
          /\ comment[c].present /\ talk[t].pc \notin {"saving", "updating"}
                => Paid(credits[c], comment[c].history)
      BY <1>1, <2>1, AloneStep
    <2>3. ASSUME shown' = posted',
                 breaks = 0 => Even(comment'[c]) \/ talk'[t].pc \in {"removing", "liking"},
                 comment'[c].present => \/ Paid(credits'[c], comment'[c].history)
                                        \/ talk'[t].pc \in {"saving", "updating"},
                 talk'[t] # Silent => LoadedAt(talk[t])'
          PROVE  CalmTalk'
      BY <1>1, <2>1, <2>3, AloneStep
    <2>4. /\ talk[t] # Silent /\ UNCHANGED <<crossed, talks, breaks>>
          /\ talk'[t] # Silent => /\ talk'[t].by = talk[t].by /\ talk'[t].about = c
                                  /\ talk'[t].mine = talk[t].mine
      BY <1>1, <2>1, TalkStepShape
    <2>5. /\ talk[t].mine \in CommentRow /\ talk[t].by \in Users /\ IsFiniteSet(talk[t].mine.rows)
          /\ talk[t].mine.likes \in Int /\ talk[t].mine.history \in Nat
          /\ talk[t].pc \in Liking => talk[t].mine.present
      BY <2>4, TalkTyped DEF RowsFinite, Numbered, CommentRow
    <2>6. \A n, h : Paid(n, h)' <=> Paid(n, h)
      BY <2>4 DEF Paid
    <2>a. ASSUME comment'[c].present = comment[c].present, comment'[c].history = comment[c].history,
                 credits' = credits, talk[t].pc \notin {"saving", "updating"}
          PROVE  comment'[c].present => Paid(credits'[c], comment'[c].history)
      BY <2>2, <2>a
    <2>7. CASE WriteComment(t)
      <3>1. /\ talk[t].pc = "writing" /\ talk'[t].pc = "linking"
        BY <2>7, TalkerShape DEF Goes
      <3>2. /\ comment'[c].likes = comment[c].likes /\ comment'[c].rows = comment[c].rows
            /\ comment'[c].history = comment[c].history
            /\ UNCHANGED <<shown, posted, credits>>
        BY <2>1, <2>7, RowShape DEF WriteComment
      <3>3. breaks = 0 => Even(comment'[c])
        BY <2>2, <3>1, <3>2, EvenSame
      <3>4. Paid(credits'[c], comment'[c].history)
        <4>1. credits'[c] = 0 /\ comment'[c].history = 0
          BY <2>1, <2>2, <3>1, <3>2 DEF LoadedAt, Gone
        <4> QED
          BY <4>1, DivZero DEF Paid, TalkTypeOK
      <3>5. LoadedAt(talk[t])'
        BY <3>1 DEF LoadedAt, Coming
      <3> QED
        BY <2>2, <2>3, <3>2, <3>3, <3>4, <3>5
    <2>8. CASE LinkComment(t) \/ HideComment(t) \/ ThankAuthor(t)
      <3>1. /\ talk[t].pc \in {"linking", "hiding", "thanking"}
            /\ talk'[t] = Silent \/ talk'[t].pc \in {"thanking", "deleting"}
        BY <2>8, TalkerShape DEF Goes, Stops
      <3>2. UNCHANGED <<comment, credits>> /\ shown' = posted'
        <4>1. CASE HideComment(t)
          <5>1. shown = c
            BY <2>1, <2>2, <4>1, TalkerShape DEF LoadedAt
          <5> QED
            BY <2>1, <2>2, <4>1, <5>1 DEF HideComment, About
        <4>2. CASE LinkComment(t) \/ ThankAuthor(t)
          BY <2>2, <4>2 DEF LinkComment, ThankAuthor
        <4> QED
          BY <2>8, <4>1, <4>2
      <3>3. (breaks = 0 => Even(comment'[c]))
            /\ (comment'[c].present => Paid(credits'[c], comment'[c].history))
        BY <2>2, <3>1, <3>2
      <3>4. talk'[t] # Silent => LoadedAt(talk[t])'
        BY <3>1 DEF LoadedAt, Coming
      <3> QED
        BY <2>3, <3>2, <3>3, <3>4
    <2>9. CASE DeleteComment(t)
      <3>1. talk'[t] = Silent /\ comment'[c] = Gone /\ shown' = posted'
        BY <2>1, <2>2, <2>9, TalkerShape, RowShape DEF DeleteComment, Stops
      <3>2. Even(comment'[c]) /\ ~comment'[c].present
        BY <3>1, EvenGone DEF Gone
      <3> QED
        BY <2>3, <3>1, <3>2
    <2>10. CASE Unlike(t)
      <3>1. /\ talk[t].pc = "unliking" /\ talk'[t].pc = "removing" /\ talk'[t] # Silent
        BY <2>10, TalkerShape DEF Goes
      <3>2. talk[t].mine = comment[c] /\ comment[c].present
        BY <2>1, <2>2, <2>5, <3>1 DEF LoadedAt, Liking
      <3>3. /\ comment'[c].present = comment[c].present /\ comment'[c].history = comment[c].history
            /\ comment'[c].rows = comment[c].rows /\ comment'[c].likes = talk[t].mine.likes - 1
        BY <2>1, <2>10, <3>2, RowShape
      <3>4. UNCHANGED <<shown, posted, credits>>
        BY <2>10 DEF Unlike
      <3>5. breaks = 0 => Even(talk[t].mine)
        BY <2>2, <3>1, <3>2
      <3>6. LoadedAt(talk[t])'
        BY <2>4, <3>1, <3>2, <3>3, <3>5 DEF LoadedAt, Coming
      <3> QED
        BY <2>2, <2>3, <2>a, <3>1, <3>3, <3>4, <3>6
    <2>11. CASE RemoveLike(t)
      <3>1. talk[t].pc = "removing" /\ talk'[t] = Silent
        BY <2>11, TalkerShape DEF Stops
      <3>2. /\ comment'[c].present = comment[c].present /\ comment'[c].history = comment[c].history
            /\ comment'[c].likes = comment[c].likes
            /\ \E l \in talk[t].mine.rows : comment'[c].rows = comment[c].rows \ {l}
        BY <2>1, <2>11, RowShape
      <3>3. UNCHANGED <<shown, posted, credits>>
        BY <2>11 DEF RemoveLike
      <3>4. ASSUME breaks = 0 PROVE Even(comment'[c])
        <4>1. PICK l \in talk[t].mine.rows : comment'[c].rows = talk[t].mine.rows \ {l}
          BY <2>1, <2>2, <3>1, <3>2 DEF LoadedAt
        <4>2. comment'[c].likes = talk[t].mine.likes - 1 /\ Even(talk[t].mine)
          BY <2>1, <2>2, <3>1, <3>2, <3>4 DEF LoadedAt
        <4>3. /\ Cardinality(talk[t].mine.rows \ {l}) = Cardinality(talk[t].mine.rows) - 1
          BY <2>5, OneLess
        <4>4. comment'[c].likes = Cardinality(comment'[c].rows)
          BY <4>1, <4>2, <4>3 DEF Even
        <4>5. ASSUME NEW u \in Users PROVE Cardinality(LikesOf(comment'[c], u)) <= 1
          <5>1. LikesOf(comment'[c], u) \subseteq LikesOf(talk[t].mine, u)
            BY <4>1 DEF LikesOf
          <5>2. IsFiniteSet(LikesOf(talk[t].mine, u))
            <6>1. LikesOf(talk[t].mine, u) \subseteq talk[t].mine.rows
              BY DEF LikesOf
            <6> QED
              BY <2>5, <6>1, FS_Subset
          <5>3. /\ Cardinality(LikesOf(comment'[c], u)) <= Cardinality(LikesOf(talk[t].mine, u))
                /\ Cardinality(LikesOf(comment'[c], u)) \in Nat
                /\ Cardinality(LikesOf(talk[t].mine, u)) \in Nat
            BY <5>1, <5>2, FS_Subset, FS_CardinalityType
          <5>4. Cardinality(LikesOf(talk[t].mine, u)) <= 1
            BY <4>2 DEF Even
          <5> QED
            BY <5>3, <5>4
        <4> QED
          BY <4>4, <4>5 DEF Even
      <3> QED
        BY <2>2, <2>3, <2>a, <3>1, <3>2, <3>3, <3>4
    <2>12. CASE CreditLikes(t)
      <3>1. /\ talk[t].pc = "crediting" /\ talk'[t].pc = "saving" /\ talk'[t] # Silent
        BY <2>12, TalkerShape DEF Goes
      <3>2. /\ talk[t].mine = comment[c] /\ comment[c].present
            /\ LikesOf(talk[t].mine, talk[t].by) = {}
        BY <2>1, <2>2, <2>5, <3>1 DEF LoadedAt, Liking, Coming
      <3>3. UNCHANGED <<comment, shown, posted>>
        BY <2>12 DEF CreditLikes
      <3>4. PICK h \in Nat : h = talk[t].mine.history
        BY <2>5
      <3>5. credits'[c] = credits[c] + IF (h + 1) % Ten = 0 THEN 1 ELSE 0
        BY <2>1, <2>12, <3>4 DEF CreditLikes, Earns, About, TalkTypeOK
      <3>6. Paid(credits[c], h)
        BY <2>2, <3>1, <3>2, <3>4
      <3>7. Paid(credits'[c], h + 1)
        <4>1. credits[c] \in Nat /\ breaks \in Nat
          BY DEF TalkTypeOK
        <4> DEFINE q == h \div Ten  q1 == (h + 1) \div Ten
                   e == IF (h + 1) % Ten = 0 THEN 1 ELSE 0
        <4>2. q \in Nat /\ q1 = q + e /\ e \in {0, 1}
          BY DivStep
        <4>3. credits[c] >= q /\ credits[c] <= q + breaks /\ credits'[c] = credits[c] + e
          BY <3>5, <3>6 DEF Paid
        <4> HIDE DEF q, q1, e
        <4>4. credits'[c] >= q1 /\ credits'[c] <= q1 + breaks
          BY <4>1, <4>2, <4>3
        <4> QED
          BY <4>4 DEF Paid, q1
      <3>8. LoadedAt(talk[t])'
        BY <2>4, <2>6, <3>1, <3>2, <3>3, <3>4, <3>7 DEF LoadedAt, Coming
      <3>9. breaks = 0 => Even(comment'[c])
        BY <2>2, <3>1, <3>3
      <3> QED
        BY <2>2, <2>3, <3>1, <3>3, <3>8, <3>9
    <2>13. CASE SelectComment(t)
      <3>1. /\ talk[t].pc = "saving" /\ talk'[t].pc = "updating" /\ talk'[t] # Silent
            /\ talk'[t].base = comment[c]
        BY <2>1, <2>13, TalkerShape DEF Goes
      <3>2. /\ talk[t].mine = comment[c]
            /\ LikesOf(talk[t].mine, talk[t].by) = {}
            /\ Paid(credits[c], talk[t].mine.history + 1)
        BY <2>1, <2>2, <3>1 DEF LoadedAt, Coming
      <3>3. UNCHANGED <<comment, shown, posted, credits>>
        BY <2>13 DEF SelectComment
      <3>4. LoadedAt(talk[t])'
        BY <2>4, <2>6, <3>1, <3>2, <3>3 DEF LoadedAt, Coming
      <3>5. breaks = 0 => Even(comment'[c])
        BY <2>2, <3>1, <3>3
      <3> QED
        BY <2>2, <2>3, <3>1, <3>3, <3>4, <3>5
    <2>14. CASE SaveComment(t)
      <3>1. talk[t].pc = "updating"
        BY <2>14, TalkerShape
      <3>2. /\ talk[t].mine = comment[c] /\ comment[c].present /\ talk[t].base = comment[c]
            /\ LikesOf(talk[t].mine, talk[t].by) = {}
            /\ Paid(credits[c], talk[t].mine.history + 1)
        BY <2>1, <2>2, <2>5, <3>1 DEF LoadedAt, Coming, Liking
      <3>3. talk'[t].pc = "liking" /\ talk'[t] # Silent
        BY <2>1, <2>14, <3>2, TalkerShape DEF Goes
      <3>4. /\ comment'[c].present
            /\ comment'[c].rows = comment[c].rows \ (talk[t].base.rows \ talk[t].mine.rows)
            /\ comment'[c].likes = IF talk[t].base.likes # talk[t].mine.likes + 1
                                   THEN talk[t].mine.likes + 1 ELSE comment[c].likes
            /\ comment'[c].history = IF talk[t].base.history # talk[t].mine.history + 1
                                   THEN talk[t].mine.history + 1 ELSE comment[c].history
        BY <2>1, <2>14, <3>2, RowShape
      <3>5. /\ comment'[c].rows = talk[t].mine.rows
            /\ comment'[c].likes = talk[t].mine.likes + 1
            /\ comment'[c].history = talk[t].mine.history + 1
        BY <2>5, <3>2, <3>4
      <3>6. UNCHANGED <<shown, posted, credits>>
        BY <2>14 DEF SaveComment
      <3>7. breaks = 0 => Even(talk[t].mine)
        BY <2>2, <3>1, <3>2
      <3>8. LoadedAt(talk[t])'
        BY <2>4, <3>2, <3>3, <3>4, <3>5, <3>7 DEF LoadedAt, Coming
      <3> QED
        BY <2>2, <2>3, <3>2, <3>3, <3>5, <3>6, <3>8
    <2>15. CASE CreateLike(t)
      <3>1. talk[t].pc = "liking" /\ talk'[t] = Silent
        BY <2>15, TalkerShape DEF Stops
      <3>2. /\ comment[c].present /\ comment[c].rows = talk[t].mine.rows
            /\ comment[c].likes = talk[t].mine.likes + 1
            /\ LikesOf(talk[t].mine, talk[t].by) = {}
            /\ breaks = 0 => Even(talk[t].mine)
        BY <2>1, <2>2, <3>1 DEF LoadedAt, Coming
      <3> DEFINE l == [id |-> talk[t].own, by |-> talk[t].by]
      <3>3. /\ comment'[c].present = comment[c].present /\ comment'[c].history = comment[c].history
            /\ comment'[c].likes = talk[t].mine.likes + 1
            /\ comment'[c].rows = talk[t].mine.rows \cup {l}
        <4>1. /\ comment'[c].present = comment[c].present /\ comment'[c].history = comment[c].history
              /\ comment'[c].likes = comment[c].likes
              /\ comment'[c].rows = IF comment[c].present THEN comment[c].rows \cup {l}
                                    ELSE comment[c].rows
          BY <2>1, <2>15, RowShape
        <4> HIDE DEF l
        <4> QED
          BY <3>2, <4>1
      <3>4. l.by = talk[t].by
        OBVIOUS
      <3>5. UNCHANGED <<shown, posted, credits>>
        BY <2>15 DEF CreateLike
      <3> HIDE DEF l
      <3>6. ASSUME breaks = 0 PROVE Even(comment'[c])
        <4>1. l \notin talk[t].mine.rows
          BY <3>2, <3>4 DEF LikesOf
        <4>2. Cardinality(talk[t].mine.rows \cup {l}) = Cardinality(talk[t].mine.rows) + 1
          BY <2>5, <4>1, OneMore
        <4>3. comment'[c].likes = Cardinality(comment'[c].rows)
          BY <3>2, <3>3, <3>6, <4>2 DEF Even
        <4>4. ASSUME NEW u \in Users PROVE Cardinality(LikesOf(comment'[c], u)) <= 1
          <5>1. CASE u = talk[t].by
            <6>1. LikesOf(comment'[c], u) = {l}
              BY <3>2, <3>3, <3>4, <5>1 DEF LikesOf
            <6>2. Cardinality({l}) = 1
              BY FS_Singleton
            <6> QED
              BY <6>1, <6>2
          <5>2. CASE u # talk[t].by
            <6>1. LikesOf(comment'[c], u) = LikesOf(talk[t].mine, u)
              BY <3>3, <3>4, <5>2 DEF LikesOf
            <6> QED
              BY <3>2, <3>6, <6>1 DEF Even
          <5> QED
            BY <5>1, <5>2
        <4> QED
          BY <4>3, <4>4 DEF Even
      <3> QED
        BY <2>2, <2>3, <2>a, <3>1, <3>3, <3>5, <3>6
    <2> QED
      BY <1>1, <2>7, <2>8, <2>9, <2>10, <2>11, <2>12, <2>13, <2>14, <2>15 DEF TalkStep
  <1>2. ASSUME NEW t \in Talkers, Says(t), ~crossed' PROVE CalmTalk'
    <2>1. /\ OnlyTalker(t) /\ talk[t] = Silent /\ talk'[t] # Silent
          /\ talk'[t].about \in Comments /\ talk'[t].by \in Users
          /\ talk'[t].mine = comment[talk'[t].about]
          /\ \/ talk'[t].pc = "writing" /\ shown = 0 /\ talk'[t].about = talks + 1
             \/ talk'[t].pc = "hiding" /\ talk'[t].about = shown
             \/ talk'[t].pc = "unliking" /\ comment[talk'[t].about].present
             \/ /\ talk'[t].pc = "crediting" /\ comment[talk'[t].about].present
                /\ LikesOf(comment[talk'[t].about], talk'[t].by) = {}
          /\ ~crossed /\ \A s \in Talkers : talk[s] = Silent
          /\ UNCHANGED <<comment, shown, credits, comments, posted, breaks>>
      BY <1>2, SaysShape
    <2>2. PICK c \in Comments : c = talk'[t].about
      BY <2>1
    <2>3. OneTalks' /\ PostedIsShown'
      BY <2>1 DEF OnlyTalker, OneTalks, CalmTalk, PostedIsShown
    <2>4. EvenRows' /\ PaidRows'
      BY <2>1 DEF CalmTalk, EvenRows, PaidRows, Silent, Paid
    <2>5. talk'[t].pc = "writing" => comment'[c] = Gone /\ credits'[c] = 0
      BY <2>1, <2>2 DEF Numbered, TalkTypeOK
    <2>6. LoadedAt(talk[t])'
      BY <2>1, <2>2, <2>5 DEF LoadedAt, Coming
    <2>7. Loaded'
      BY <2>1, <2>6 DEF Loaded, OnlyTalker
    <2> QED
      BY <2>3, <2>4, <2>7 DEF CalmTalk
  <1>3. ASSUME Break, ~crossed PROVE CalmTalk'
    <2>1. /\ breaks' = breaks + 1 /\ breaks \in Nat /\ \A t \in Talkers : talk'[t] = Silent
          /\ UNCHANGED <<comment, shown, credits, posted, crossed>>
      BY <1>3 DEF Break, TalkTypeOK
    <2>2. OneTalks' /\ PostedIsShown' /\ EvenRows' /\ Loaded'
      BY <1>3, <2>1 DEF CalmTalk, OneTalks, PostedIsShown, EvenRows, Loaded
    <2>3. ASSUME NEW c \in Comments, comment[c].present
          PROVE  credits[c] >= comment[c].history \div Ten
                 /\ credits[c] <= (comment[c].history \div Ten) + (breaks + 1)
      <3>0. credits[c] \in Nat /\ comment[c].history \in Nat
        BY DEF TalkTypeOK, CommentRow
      <3> DEFINE q == comment[c].history \div Ten  q1 == (comment[c].history + 1) \div Ten
      <3>1. q \in Nat /\ (q1 = q \/ q1 = q + 1)
        BY <3>0, DivStep
      <3>2. CASE Paid(credits[c], comment[c].history)
        <4>1. credits[c] >= q /\ credits[c] <= q + breaks
          BY <3>2 DEF Paid
        <4> HIDE DEF q
        <4>2. credits[c] >= q /\ credits[c] <= q + (breaks + 1)
          BY <2>1, <3>0, <3>1, <4>1
        <4> QED
          BY <4>2 DEF q
      <3>3. CASE ~Paid(credits[c], comment[c].history)
        <4>1. PICK t \in Talkers : talk[t].pc \in {"saving", "updating"} /\ talk[t].about = c
          BY <1>3, <2>3, <3>3 DEF CalmTalk, PaidRows
        <4>2. talk[t] # Silent
          BY <4>1 DEF Silent
        <4>3. talk[t].mine = comment[c] /\ Paid(credits[c], talk[t].mine.history + 1)
          BY <1>3, <4>1, <4>2 DEF CalmTalk, Loaded, LoadedAt
        <4>4. credits[c] >= q1 /\ credits[c] <= q1 + breaks
          BY <4>3 DEF Paid
        <4> HIDE DEF q, q1
        <4>5. credits[c] >= q /\ credits[c] <= q + (breaks + 1)
          BY <2>1, <3>0, <3>1, <4>4
        <4> QED
          BY <4>5 DEF q
      <3> QED
        BY <3>2, <3>3
    <2>4. PaidRows'
      BY <2>1, <2>3 DEF PaidRows, Paid
    <2> QED
      BY <2>2, <2>4 DEF CalmTalk
  <1>4. ASSUME UNCHANGED talkVars PROVE CalmTalk'
    BY <1>4 DEF talkVars, CalmTalk, OneTalks, PostedIsShown, EvenRows, PaidRows, Loaded, LoadedAt, Paid
  <1>5. crossed => crossed'
    <2>1. ASSUME NEW t \in Talkers, TalkStep(t), crossed PROVE crossed'
      BY <2>1, TalkStepShape
    <2>2. ASSUME NEW t \in Talkers, Says(t), crossed PROVE crossed'
      BY <2>2, SaysShape DEF TalkTypeOK
    <2> QED
      BY <2>1, <2>2, TalkSteps DEF talkVars, Break
  <1> QED
    BY <1>1, <1>2, <1>3, <1>4, <1>5, TalkSteps DEF CalmTalk

\* At the start nothing is written.
LEMMA TalkStart ==
    ASSUME TalkInit
    PROVE  TalkInv
  <1>1. TalkTypeOK
    <2>1. 0 \in 0..MaxTalks /\ Gone \in CommentRow
      BY TalkAssumption DEF Gone, CommentRow
    <2> QED
      BY <2>1 DEF TalkInit, TalkTypeOK
  <1>2. /\ \A c \in Comments : comment[c] = Gone /\ credits[c] = 0
        /\ \A t \in Talkers : talk[t] = Silent
        /\ shown = 0 /\ posted = 0 /\ talks = 0 /\ breaks = 0
    BY DEF TalkInit
  <1>3. RowsFinite
    BY <1>2, FS_EmptySet DEF RowsFinite, Gone
  <1>4. Numbered /\ Linked
    BY <1>2 DEF Numbered, Linked, ShownExists, Silent, Liking
  <1>5. LikeRoom
    <2>1. ASSUME NEW c \in Comments, NEW u \in Users
          PROVE  Cardinality(LikesOf(comment[c], u)) + Cardinality(LikesComing(c, u))
                     <= Cardinality(Talkers)
      <3>1. LikesOf(comment[c], u) = {} /\ LikesComing(c, u) = {}
        BY <1>2 DEF LikesOf, LikesComing, Silent, Gone, Coming
      <3>2. Cardinality({}) = 0 /\ Cardinality(Talkers) \in Nat
        BY TalkAssumption, FS_EmptySet, FS_CardinalityType
      <3>3. Cardinality(LikesOf(comment[c], u)) = 0 /\ Cardinality(LikesComing(c, u)) = 0
        BY <3>1, <3>2, Zenon
      <3> QED
        BY <3>2, <3>3
    <2> QED
      BY <2>1 DEF LikeRoom
  <1>6. CalmTalk
    BY <1>2, EvenGone DEF CalmTalk, OneTalks, PostedIsShown, EvenRows, PaidRows, Loaded, Gone
  <1> QED
    BY <1>1, <1>3, <1>4, <1>5, <1>6 DEF TalkInv

\* The comment that is shown is there, however a deletion and the likes on their way
\* meet, and a user's likes of it are never more than the requests; if none meet, it
\* is the one the last answer told of, its number of likes is that of the users who
\* like it, and it earned points once for each Ten of them, but for crashes.
THEOREM TalkKept == TalkSpec => []TalkSound
  <1>1. TalkInv /\ [TalkNext]_talkVars => TalkInv'
    BY TalkStepTyped, RowsFiniteStep, NumberedStep, LinkedStep, LikeRoomStep, CalmTalkStep
       DEF TalkInv
  <1>2. TalkInv => TalkSound
    <2>1. ASSUME TalkInv PROVE TalkSound
      <3>0. TalkTypeOK /\ RowsFinite /\ Numbered /\ Linked /\ LikeRoom /\ CalmTalk
        BY <2>1 DEF TalkInv
      <3>1. ASSUME ~crossed, AtRest, NEW c \in Comments
            PROVE  /\ breaks = 0 => Even(comment[c])
                   /\ comment[c].present => Paid(credits[c], comment[c].history)
        BY <3>0, <3>1 DEF CalmTalk, EvenRows, PaidRows, AtRest, Silent
      <3>2. LikesAgree
        BY <3>1 DEF LikesAgree, Even
      <3>3. CreditsEarned
        <4>1. ASSUME ~crossed, AtRest, NEW c \in Comments, comment[c].present
              PROVE  credits[c] \in (comment[c].history \div Ten)
                                        ..((comment[c].history \div Ten) + breaks)
          <5>1. credits[c] \in Nat /\ comment[c].history \in Nat /\ breaks \in Nat
            BY <3>0 DEF TalkTypeOK, CommentRow
          <5>2. comment[c].history \div Ten \in Nat
            BY <5>1, DivStep
          <5>3. /\ credits[c] >= comment[c].history \div Ten
                /\ credits[c] <= (comment[c].history \div Ten) + breaks
            BY <3>1, <4>1 DEF Paid
          <5> QED
            BY <5>1, <5>2, <5>3
        <4> QED
          BY <4>1 DEF CreditsEarned
      <3>4. LikesBounded
        <4>1. ASSUME NEW c \in Comments, NEW u \in Users
              PROVE  Cardinality(LikesOf(comment[c], u)) <= Cardinality(Talkers)
          <5>1. Cardinality(LikesOf(comment[c], u)) + Cardinality(LikesComing(c, u))
                    <= Cardinality(Talkers)
            BY <3>0 DEF LikeRoom
          <5> QED
            BY <3>0, <5>1, LikesFinite
        <4> QED
          BY <4>1 DEF LikesBounded
      <3> QED
        BY <3>0, <3>2, <3>3, <3>4 DEF TalkSound, Linked, CalmTalk, PostedIsShown
    <2> QED
      BY <2>1
  <1> QED
    BY <1>1, <1>2, TalkStart, PTL DEF TalkSpec

-----------------------------------------------------------------------------
(* Notifications                                                           *)

\* Those whose next step is p.
SendersAt(p) == {s \in Senders : post[s].pc = p}

\* Each of those that are about to insert has a number of its own among those
\* started, and each of those that are about to count has a notification that is
\* not counted yet.
CountRoom ==
    /\ inserted + Cardinality(SendersAt("inserting")) <= sent
    /\ count + Cardinality(SendersAt("counting")) <= inserted
    /\ \A s \in SendersAt("raising") :
          post[s].seen + Cardinality(SendersAt("counting")) <= inserted

\* What waits for its push still has the one that pushes it.
PushesOwed ==
    /\ waiting \cup gone \subseteq 1..sent /\ waiting \cap gone = {}
    /\ \A s \in Senders : post[s] # Asleep => post[s].own \in 1..sent
    /\ \A s, r \in Senders :
          post[s] # Asleep /\ post[r] # Asleep /\ post[s].own = post[r].own => s = r
    /\ \A s \in SendersAt("inserting") : post[s].own \notin gone
    /\ \A n \in waiting : \E s \in Senders :
          /\ post[s].pc \in {"counting", "raising", "pushing", "settling"}
          /\ post[s].own = n /\ ~post[s].live /\ ~post[s].quiet

\* How the number and the unread notifications differ while one runs alone.
CalmAt(p) ==
    /\ p.pc \in {"asleep", "inserting", "pushing", "settling"} => count = unread
    /\ p.pc = "counting" => unread = count + 1
    /\ p.pc = "raising" => unread = p.seen
    /\ p.pc \in {"looking", "zeroing"} /\ ~p.wipes => unread = 0
    /\ p.pc = "clearing" => count = 0

OneAwake == \A s, r \in Senders : post[s] # Asleep /\ post[r] # Asleep => s = r

CalmInbox ==
    ~jumbled => /\ OneAwake
                /\ \A s \in Senders : post[s] # Asleep => CalmAt(post[s])
                /\ AllAsleep => count = unread

InboxInv == InboxTypeOK /\ CountRoom /\ PushesOwed /\ CalmInbox

\* The senders at a step are finitely many.
LEMMA SendersAtFinite ==
    ASSUME NEW p
    PROVE  /\ IsFiniteSet(SendersAt(p)) /\ Cardinality(SendersAt(p)) \in Nat
           /\ \A s \in Senders :
                 /\ IsFiniteSet(SendersAt(p) \ {s})
                 /\ Cardinality(SendersAt(p) \cup {s})
                       = IF s \in SendersAt(p) THEN Cardinality(SendersAt(p))
                                               ELSE Cardinality(SendersAt(p)) + 1
                 /\ Cardinality(SendersAt(p) \ {s})
                       = IF s \in SendersAt(p) THEN Cardinality(SendersAt(p)) - 1
                                               ELSE Cardinality(SendersAt(p))
  <1>1. IsFiniteSet(SendersAt(p))
    BY InboxAssumption, FS_Subset DEF SendersAt
  <1> QED
    BY <1>1, FS_CardinalityType, FS_AddElement, FS_RemoveElement


\* Only s goes on, and keeps what it was started with.
OnlySender(s) ==
    /\ post' \in [Senders -> Posting \cup {Asleep}]
    /\ \A r \in Senders \ {s} : post'[r] = post[r]
SenderSteps(s, next) ==
    /\ OnlySender(s) /\ post'[s].pc \in next
    /\ post'[s] # Asleep =>
          /\ post'[s].own = post[s].own /\ post'[s].live = post[s].live
          /\ post'[s].quiet = post[s].quiet /\ post'[s].wipes = post[s].wipes

\* A sender that goes on leaves one set of senders and joins another.
LEMMA SenderMoves ==
    ASSUME NEW s \in Senders, OnlySender(s), NEW p
    PROVE  SendersAt(p)' = IF post'[s].pc = p THEN SendersAt(p) \cup {s}
                                              ELSE SendersAt(p) \ {s}
  BY DEF SendersAt, OnlySender

\* A sender that is not asleep has the fields of one.
LEMMA SenderAwake ==
    ASSUME InboxTypeOK, NEW s \in Senders
    PROVE  /\ post[s] = Asleep <=> post[s].pc = "asleep"
           /\ post[s] # Asleep => post[s] \in Posting
  BY DEF InboxTypeOK, Posting, Asleep

\* At the start there is nothing to count.
LEMMA InboxStart == InboxInit => InboxInv
  <1> SUFFICES ASSUME InboxInit PROVE InboxInv
    OBVIOUS
  <1>1. post \in [Senders -> Posting \cup {Asleep}] /\ \A s \in Senders : post[s] = Asleep
    BY DEF InboxInit
  <1>2. InboxTypeOK
    <2>1. 0 \in 0..MaxNotes
      BY InboxAssumption
    <2>2. /\ waiting = {} /\ gone = {} /\ count = 0 /\ unread = 0 /\ inserted = 0
          /\ jumbled = FALSE /\ sent = 0
      BY DEF InboxInit
    <2> QED
      BY <1>1, <2>1, <2>2 DEF InboxTypeOK
  <1>3. SendersAt("inserting") = {} /\ SendersAt("counting") = {} /\ SendersAt("raising") = {}
    BY <1>1 DEF SendersAt, Asleep
  <1>4. CountRoom
    BY <1>3, FS_EmptySet DEF CountRoom, InboxInit
  <1>5. PushesOwed
    BY <1>1, <1>3 DEF PushesOwed, InboxInit
  <1>6. CalmInbox
    <2>1. count = unread
      BY DEF InboxInit
    <2> QED
      BY <2>1, <1>1 DEF CalmInbox, OneAwake
  <1> QED
    BY <1>2, <1>4, <1>5, <1>6 DEF InboxInv

\* What is started is new.
LEMMA LaunchShape ==
    ASSUME InboxTypeOK, NEW s \in Senders, NEW p \in {"inserting", "looking"},
           NEW live \in BOOLEAN, NEW quiet \in BOOLEAN, NEW wipes \in BOOLEAN,
           Launch(s, p, live, quiet, wipes)
    PROVE  /\ OnlySender(s) /\ post[s] = Asleep /\ post'[s] # Asleep
           /\ post'[s].pc = p /\ post'[s].own = sent + 1 /\ post'[s].wipes = wipes
           /\ sent' = sent + 1 /\ sent' \in 0..MaxNotes
           /\ jumbled' \in BOOLEAN
           /\ ~jumbled' => ~jumbled /\ \A r \in Senders : post[r] = Asleep
           /\ UNCHANGED <<waiting, gone, count, inserted>>
  <1> DEFINE x == [pc |-> p, own |-> sent + 1, live |-> live, quiet |-> quiet,
                   wipes |-> wipes, seen |-> 0]
  <1>1. sent + 1 \in 1..MaxNotes /\ sent + 1 \in 0..MaxNotes
    BY InboxAssumption DEF InboxTypeOK, Launch
  <1>2. x \in Posting /\ x # Asleep
    BY <1>1 DEF Posting, Asleep
  <1>3. post' = [post EXCEPT ![s] = x]
    BY DEF Launch
  <1>4. OnlySender(s) /\ post'[s] = x
    BY <1>2, <1>3 DEF OnlySender, InboxTypeOK
  <1>5. ~jumbled' => ~jumbled /\ \A r \in Senders : post[r] = Asleep
    BY DEF Launch
  <1> QED
    BY <1>1, <1>2, <1>4, <1>5 DEF Launch

\* What each step of a request makes of the request.
LEMMA SenderShape ==
    ASSUME InboxTypeOK, NEW s \in Senders
    PROVE  /\ InsertNotification(s) \/ ReadCount(s) \/ RaiseCount(s)
                 \/ PushNotification(s) \/ UpdateIsSettled(s) \/ FindNoCount(s)
                 \/ FindCount(s) \/ ZeroCount(s) \/ ClearNotifications(s)
              => post[s] \in Posting /\ UNCHANGED <<jumbled, sent>>
           /\ InsertNotification(s) => SenderSteps(s, {"counting"})
           /\ ReadCount(s) => SenderSteps(s, {"raising"}) /\ post'[s].seen = count + 1
           /\ RaiseCount(s) => /\ SenderSteps(s, {"asleep", "pushing"})
                               /\ post'[s].pc = "asleep" <=> post[s].live
           /\ PushNotification(s) =>
                /\ SenderSteps(s, {"asleep", "settling"})
                /\ post'[s].pc = "asleep" <=> post[s].quiet \/ post[s].own \in gone
           /\ FindNoCount(s) \/ ZeroCount(s) =>
                /\ SenderSteps(s, {"asleep", "clearing"})
                /\ post'[s].pc = "asleep" <=> ~post[s].wipes
           /\ FindCount(s) => SenderSteps(s, {"zeroing"})
           /\ UpdateIsSettled(s) \/ ClearNotifications(s) => SenderSteps(s, {"asleep"})
  <1>1. post[s].pc # "asleep" => post[s] \in Posting
    BY SenderAwake
  <1>2. InsertNotification(s) \/ ReadCount(s) \/ RaiseCount(s)
           \/ PushNotification(s) \/ UpdateIsSettled(s) \/ FindNoCount(s)
           \/ FindCount(s) \/ ZeroCount(s) \/ ClearNotifications(s)
        => post[s] \in Posting /\ UNCHANGED <<jumbled, sent>>
    BY <1>1 DEF InsertNotification, ReadCount, RaiseCount, PushNotification,
          UpdateIsSettled, FindNoCount, FindCount, ZeroCount, ClearNotifications, SameInbox
  <1>3. ASSUME post[s] \in Posting,
               NEW p \in {"counting", "pushing", "settling", "zeroing", "clearing"},
               Onward(s, p)
        PROVE  SenderSteps(s, {p}) /\ post'[s].pc # "asleep"
    <2> DEFINE x == [post[s] EXCEPT !.pc = p]
    <2>1. /\ x \in Posting /\ x.pc = p /\ x.own = post[s].own /\ x.live = post[s].live
          /\ x.quiet = post[s].quiet /\ x.wipes = post[s].wipes
      BY <1>3 DEF Posting
    <2>2. post' = [post EXCEPT ![s] = x]
      BY <1>3 DEF Onward
    <2> QED
      BY <2>1, <2>2 DEF SenderSteps, OnlySender, InboxTypeOK
  <1>4. Done(s) => SenderSteps(s, {"asleep"}) /\ post'[s].pc = "asleep"
    BY DEF Done, SenderSteps, OnlySender, InboxTypeOK, Asleep
  <1>5. ReadCount(s) => SenderSteps(s, {"raising"}) /\ post'[s].seen = count + 1
    <2> SUFFICES ASSUME ReadCount(s)
                 PROVE  SenderSteps(s, {"raising"}) /\ post'[s].seen = count + 1
      OBVIOUS
    <2> DEFINE x == [post[s] EXCEPT !.pc = "raising", !.seen = count + 1]
    <2>1. count + 1 \in Nat
      BY DEF InboxTypeOK
    <2>2. /\ x \in Posting /\ x.pc = "raising" /\ x.own = post[s].own
          /\ x.live = post[s].live /\ x.quiet = post[s].quiet
          /\ x.wipes = post[s].wipes /\ x.seen = count + 1
      BY <1>2, <2>1 DEF Posting
    <2>3. post' = [post EXCEPT ![s] = x]
      BY <2>1 DEF ReadCount
    <2> QED
      BY <2>2, <2>3 DEF SenderSteps, OnlySender, InboxTypeOK
  <1>6. InsertNotification(s) => SenderSteps(s, {"counting"})
    BY <1>2, <1>3 DEF InsertNotification
  <1>7. RaiseCount(s) => /\ SenderSteps(s, {"asleep", "pushing"})
                         /\ post'[s].pc = "asleep" <=> post[s].live
    BY <1>2, <1>3, <1>4 DEF RaiseCount, SenderSteps
  <1>8. PushNotification(s) =>
           /\ SenderSteps(s, {"asleep", "settling"})
           /\ post'[s].pc = "asleep" <=> post[s].quiet \/ post[s].own \in gone
    BY <1>2, <1>3, <1>4 DEF PushNotification, SenderSteps
  <1>9. FindNoCount(s) \/ ZeroCount(s) =>
           /\ SenderSteps(s, {"asleep", "clearing"})
           /\ post'[s].pc = "asleep" <=> ~post[s].wipes
    BY <1>2, <1>3, <1>4 DEF FindNoCount, ZeroCount, Zeroed, SenderSteps
  <1>10. FindCount(s) => SenderSteps(s, {"zeroing"})
    BY <1>2, <1>3 DEF FindCount
  <1>11. UpdateIsSettled(s) \/ ClearNotifications(s) => SenderSteps(s, {"asleep"})
    BY <1>4 DEF UpdateIsSettled, ClearNotifications
  <1> QED
    BY <1>2, <1>5, <1>6, <1>7, <1>8, <1>9, <1>10, <1>11

\* Every step keeps the types.
LEMMA InboxStepTyped ==
    ASSUME InboxTypeOK, CountRoom, [InboxNext]_inboxVars
    PROVE  InboxTypeOK'
  <1> USE InboxAssumption DEF InboxTypeOK
  <1>1. ASSUME NEW s \in Senders,
               \/ \E live, quiet \in BOOLEAN : Notify(s, live, quiet)
               \/ GetUserNotification(s) \/ DeleteHistory(s)
        PROVE  InboxTypeOK'
    <2>1. unread' \in Nat
      <3>1. unread' = unread \/ unread' = 0
        BY <1>1, Zenon DEF Notify, GetUserNotification, DeleteHistory
      <3> QED
        BY <3>1
    <2>2. PICK p \in {"inserting", "looking"}, live, quiet, wipes \in BOOLEAN :
             Launch(s, p, live, quiet, wipes)
      BY <1>1 DEF Notify, GetUserNotification, DeleteHistory
    <2> QED
      BY <2>1, <2>2, LaunchShape DEF OnlySender
  <1>2. ASSUME NEW s \in Senders, InsertNotification(s) PROVE InboxTypeOK'
    <2>1. s \in SendersAt("inserting")
      BY <1>2 DEF InsertNotification, SendersAt
    <2>2. Cardinality(SendersAt("inserting")) >= 1
      <3>1. Cardinality(SendersAt("inserting") \ {s}) \in Nat
        BY SendersAtFinite, FS_CardinalityType
      <3> QED
        BY <2>1, <3>1, SendersAtFinite
    <2>3. inserted' \in 0..MaxNotes /\ unread' \in Nat
      BY <1>2, <2>2, SendersAtFinite DEF InsertNotification, CountRoom
    <2>4. waiting' \subseteq 1..MaxNotes
      BY <1>2, SenderShape DEF InsertNotification, Posting
    <2> QED
      BY <1>2, <2>3, <2>4, SenderShape DEF InsertNotification, SenderSteps, OnlySender
  <1>3. ASSUME NEW s \in Senders, ReadCount(s) PROVE InboxTypeOK'
    BY <1>3, SenderShape DEF ReadCount, SenderSteps, OnlySender
  <1>4. ASSUME NEW s \in Senders, RaiseCount(s) PROVE InboxTypeOK'
    <2>1. count' \in Nat
      BY <1>4, SenderShape DEF RaiseCount, Posting
    <2> QED
      BY <1>4, <2>1, SenderShape DEF RaiseCount, SenderSteps, OnlySender
  <1>5. ASSUME NEW s \in Senders, PushNotification(s) \/ FindNoCount(s) \/ FindCount(s)
        PROVE  InboxTypeOK'
    BY <1>5, SenderShape DEF PushNotification, FindNoCount, FindCount, SenderSteps, OnlySender
  <1>6. ASSUME NEW s \in Senders, UpdateIsSettled(s) PROVE InboxTypeOK'
    BY <1>6, SenderShape DEF UpdateIsSettled, SenderSteps, OnlySender
  <1>7. ASSUME NEW s \in Senders, ZeroCount(s) PROVE InboxTypeOK'
    BY <1>7, SenderShape DEF ZeroCount, SenderSteps, OnlySender
  <1>8. ASSUME NEW s \in Senders, ClearNotifications(s) PROVE InboxTypeOK'
    <2>1. gone' \subseteq 1..MaxNotes
      BY <1>8 DEF ClearNotifications
    <2> QED
      BY <1>8, <2>1, SenderShape DEF ClearNotifications, SenderSteps, OnlySender
  <1>9. ASSUME UNCHANGED inboxVars PROVE InboxTypeOK'
    BY <1>9 DEF inboxVars
  <1> QED
    BY <1>1, <1>2, <1>3, <1>4, <1>5, <1>6, <1>7, <1>8, <1>9 DEF InboxNext

\* The room that is left for the number, for the steps that leave it.
LEMMA CountRoomStep ==
    ASSUME InboxTypeOK, CountRoom, [InboxNext]_inboxVars, InboxTypeOK'
    PROVE  CountRoom'
  <1> DEFINE I == Cardinality(SendersAt("inserting"))
             C == Cardinality(SendersAt("counting"))
  <1>0. /\ I \in Nat /\ C \in Nat /\ count \in Nat /\ inserted \in Nat /\ sent \in Nat
        /\ \A s \in Senders : post[s].pc = "raising" => post[s].seen \in Nat
    BY SendersAtFinite, InboxAssumption, SenderAwake DEF InboxTypeOK, Posting, Asleep
  \* One request steps from one kind to another.
  <1>a. ASSUME NEW s \in Senders, OnlySender(s)
        PROVE  /\ I' = I + (IF post'[s].pc = "inserting" /\ post[s].pc # "inserting" THEN 1 ELSE 0)
                         - (IF post'[s].pc # "inserting" /\ post[s].pc = "inserting" THEN 1 ELSE 0)
               /\ C' = C + (IF post'[s].pc = "counting" /\ post[s].pc # "counting" THEN 1 ELSE 0)
                         - (IF post'[s].pc # "counting" /\ post[s].pc = "counting" THEN 1 ELSE 0)
    <2>1. ASSUME NEW p
          PROVE  Cardinality(SendersAt(p)') = Cardinality(SendersAt(p))
                     + (IF post'[s].pc = p /\ post[s].pc # p THEN 1 ELSE 0)
                     - (IF post'[s].pc # p /\ post[s].pc = p THEN 1 ELSE 0)
      <3>1. s \in SendersAt(p) <=> post[s].pc = p
        BY DEF SendersAt
      <3>2. Cardinality(SendersAt(p)) \in Nat
        BY SendersAtFinite
      <3>3. CASE post'[s].pc = p
        <4>1. SendersAt(p)' = SendersAt(p) \cup {s}
          BY <1>a, <3>3, SenderMoves
        <4>2. Cardinality(SendersAt(p) \cup {s})
                 = IF s \in SendersAt(p) THEN Cardinality(SendersAt(p))
                                         ELSE Cardinality(SendersAt(p)) + 1
          BY SendersAtFinite
        <4> QED
          BY <3>1, <3>2, <3>3, <4>1, <4>2
      <3>4. CASE post'[s].pc # p
        <4>1. SendersAt(p)' = SendersAt(p) \ {s}
          BY <1>a, <3>4, SenderMoves
        <4>2. Cardinality(SendersAt(p) \ {s})
                 = IF s \in SendersAt(p) THEN Cardinality(SendersAt(p)) - 1
                                         ELSE Cardinality(SendersAt(p))
          BY SendersAtFinite
        <4> QED
          BY <3>1, <3>2, <3>4, <4>1, <4>2
      <3> QED
        BY <3>3, <3>4
    <2> QED
      BY <2>1
  <1> HIDE DEF I, C
  <1>b. CountRoom <=> /\ inserted + I <= sent /\ count + C <= inserted
                      /\ \A s \in Senders : post[s].pc = "raising" => post[s].seen + C <= inserted
    BY DEF CountRoom, SendersAt, I, C
  <1>c. CountRoom' <=> /\ inserted' + I' <= sent' /\ count' + C' <= inserted'
                       /\ \A s \in Senders : post'[s].pc = "raising" => post'[s].seen + C' <= inserted'
    BY DEF CountRoom, SendersAt, I, C
  <1>1. ASSUME NEW s \in Senders,
               \/ \E live, quiet \in BOOLEAN : Notify(s, live, quiet)
               \/ GetUserNotification(s) \/ DeleteHistory(s)
        PROVE  CountRoom'
    <2>1. PICK p \in {"inserting", "looking"}, live, quiet, wipes \in BOOLEAN :
             Launch(s, p, live, quiet, wipes)
      BY <1>1 DEF Notify, GetUserNotification, DeleteHistory
    <2>2. /\ OnlySender(s) /\ post[s] = Asleep /\ post'[s].pc = p /\ sent' = sent + 1
          /\ UNCHANGED <<count, inserted>>
      BY <2>1, LaunchShape
    <2>3. post[s].pc = "asleep"
      BY <2>2, SenderAwake
    <2>4. inserted + I' <= sent + 1 /\ C' = C
      <3>1. (I' = I \/ I' = I + 1) /\ C' = C
        <4>1. CASE p = "inserting"
          BY <1>0, <1>a, <2>2, <2>3, <4>1
        <4>2. CASE p = "looking"
          BY <1>0, <1>a, <2>2, <2>3, <4>2
        <4> QED
          BY <4>1, <4>2
      <3>2. inserted + I <= sent
        BY <1>b
      <3> QED
        BY <1>0, <3>1, <3>2
    <2> QED
      BY <1>0, <1>b, <1>c, <2>2, <2>4 DEF OnlySender
  <1>2. ASSUME NEW s \in Senders, InsertNotification(s) PROVE CountRoom'
    <2>1. /\ OnlySender(s) /\ post'[s].pc = "counting" /\ post[s].pc = "inserting"
          /\ inserted' = inserted + 1 /\ UNCHANGED <<count, sent>>
      BY <1>2, SenderShape DEF InsertNotification, SenderSteps
    <2>2. I' = I - 1 /\ C' = C + 1
      BY <1>0, <1>a, <2>1
    <2> QED
      BY <1>0, <1>b, <1>c, <2>1, <2>2 DEF OnlySender
  <1>3. ASSUME NEW s \in Senders, ReadCount(s) PROVE CountRoom'
    <2>1. /\ OnlySender(s) /\ post'[s].pc = "raising" /\ post[s].pc = "counting"
          /\ post'[s].seen = count + 1 /\ UNCHANGED <<count, inserted, sent>>
      BY <1>3, SenderShape DEF ReadCount, SenderSteps
    <2>2. I' = I /\ C' = C - 1
      BY <1>0, <1>a, <2>1
    <2> QED
      BY <1>0, <1>b, <1>c, <2>1, <2>2 DEF OnlySender
  <1>4. ASSUME NEW s \in Senders,
               \/ RaiseCount(s) \/ PushNotification(s) \/ UpdateIsSettled(s)
               \/ FindNoCount(s) \/ FindCount(s) \/ ZeroCount(s) \/ ClearNotifications(s)
        PROVE  CountRoom'
    <2>1. /\ OnlySender(s)
          /\ post'[s].pc \in {"asleep", "pushing", "settling", "zeroing", "clearing"}
          /\ post[s].pc \notin {"inserting", "counting"}
          /\ UNCHANGED <<inserted, sent>>
      BY <1>4, SenderShape DEF RaiseCount, PushNotification, UpdateIsSettled, FindNoCount,
            FindCount, ZeroCount, ClearNotifications, SenderSteps
    <2>2. I' = I /\ C' = C
      BY <1>0, <1>a, <2>1
    <2>3. count' = count \/ count' = 0 \/ (post[s].pc = "raising" /\ count' = post[s].seen)
      BY <1>4 DEF RaiseCount, PushNotification, UpdateIsSettled, FindNoCount,
            FindCount, ZeroCount, ClearNotifications
    <2> QED
      BY <1>0, <1>b, <1>c, <2>1, <2>2, <2>3 DEF OnlySender
  <1>5. ASSUME UNCHANGED inboxVars PROVE CountRoom'
    BY <1>5 DEF inboxVars, CountRoom, SendersAt
  <1> QED
    BY <1>1, <1>2, <1>3, <1>4, <1>5 DEF InboxNext

\* Every note that waits keeps the one that pushes it.
LEMMA PushesOwedStep ==
    ASSUME InboxTypeOK, PushesOwed, [InboxNext]_inboxVars, InboxTypeOK'
    PROVE  PushesOwed'
  <1> DEFINE Owes(n, s) == /\ post[s].pc \in {"counting", "raising", "pushing", "settling"}
                           /\ post[s].own = n /\ ~post[s].live /\ ~post[s].quiet
  <1>0. /\ \A s \in Senders : post[s] = Asleep <=> post[s].pc = "asleep"
        /\ \A s \in Senders : post'[s] = Asleep <=> post'[s].pc = "asleep"
        /\ sent \in Nat
    BY InboxAssumption DEF InboxTypeOK, Posting, Asleep
  <1>1. ASSUME NEW s \in Senders,
               \/ \E live, quiet \in BOOLEAN : Notify(s, live, quiet)
               \/ GetUserNotification(s) \/ DeleteHistory(s)
        PROVE  PushesOwed'
    <2>1. PICK p \in {"inserting", "looking"}, live, quiet, wipes \in BOOLEAN :
             Launch(s, p, live, quiet, wipes)
      BY <1>1 DEF Notify, GetUserNotification, DeleteHistory
    <2>2. /\ OnlySender(s) /\ post[s] = Asleep /\ post'[s].pc = p /\ post'[s].own = sent + 1
          /\ sent' = sent + 1 /\ UNCHANGED <<waiting, gone>>
      BY <2>1, LaunchShape
    <2>3. /\ waiting' \cup gone' \subseteq 1..sent' /\ waiting' \cap gone' = {}
          /\ sent + 1 \notin gone
      BY <1>0, <2>2 DEF PushesOwed
    <2>4. \A r \in Senders : post'[r] # Asleep => post'[r].own \in 1..sent'
      BY <1>0, <2>2 DEF PushesOwed, OnlySender
    <2>5. \A q, r \in Senders :
             post'[q] # Asleep /\ post'[r] # Asleep /\ post'[q].own = post'[r].own => q = r
      BY <1>0, <2>2 DEF PushesOwed, OnlySender
    <2>6. \A r \in SendersAt("inserting")' : post'[r].own \notin gone'
      BY <1>0, <2>2, <2>3 DEF PushesOwed, OnlySender, SendersAt
    <2>7. \A n \in waiting' : \E r \in Senders : Owes(n, r)'
      BY <1>0, <2>2 DEF PushesOwed, OnlySender
    <2> QED
      BY <2>3, <2>4, <2>5, <2>6, <2>7 DEF PushesOwed
  \* A step of a request that has a number keeps the numbers apart.
  <1>2. ASSUME NEW s \in Senders, OnlySender(s), UNCHANGED sent, post[s] # Asleep,
               post'[s] # Asleep => post'[s].own = post[s].own
        PROVE  /\ \A r \in Senders : post'[r] # Asleep => post'[r].own \in 1..sent'
               /\ \A q, r \in Senders :
                     post'[q] # Asleep /\ post'[r] # Asleep /\ post'[q].own = post'[r].own
                        => q = r
    BY <1>2 DEF PushesOwed, OnlySender
  <1>3. ASSUME NEW s \in Senders, InsertNotification(s) PROVE PushesOwed'
    <2>1. /\ SenderSteps(s, {"counting"}) /\ post[s].pc = "inserting" /\ UNCHANGED <<gone, sent>>
          /\ waiting' = waiting \cup
                  (IF post[s].quiet \/ post[s].live THEN {} ELSE {post[s].own})
      BY <1>3, SenderShape DEF InsertNotification
    <2>2. /\ OnlySender(s) /\ post[s] # Asleep /\ post'[s].own = post[s].own
          /\ post'[s].live = post[s].live /\ post'[s].quiet = post[s].quiet
          /\ post'[s].pc = "counting"
      BY <1>0, <2>1 DEF SenderSteps
    <2>3. post[s].own \in 1..sent /\ post[s].own \notin gone
      BY <1>0, <2>1, <2>2 DEF PushesOwed, SendersAt
    <2>4. /\ waiting' \cup gone' \subseteq 1..sent' /\ waiting' \cap gone' = {}
      BY <2>1, <2>3 DEF PushesOwed
    <2>5. \A r \in SendersAt("inserting")' : post'[r].own \notin gone'
      BY <2>1, <2>2 DEF PushesOwed, OnlySender, SendersAt
    <2>6. \A n \in waiting : \E r \in Senders : r # s /\ Owes(n, r)
      BY <2>1 DEF PushesOwed
    <2>7. \A n \in waiting' : \E r \in Senders : Owes(n, r)'
      BY <2>1, <2>2, <2>6 DEF OnlySender
    <2> QED
      BY <1>2, <2>1, <2>2, <2>4, <2>5, <2>7 DEF PushesOwed
  <1>4. ASSUME NEW s \in Senders,
               ReadCount(s) \/ RaiseCount(s) \/ PushNotification(s)
        PROVE  PushesOwed'
    <2>1. /\ UNCHANGED <<waiting, gone, sent>> /\ post[s].pc \in {"counting", "raising", "pushing"}
          /\ SenderSteps(s, {"asleep", "raising", "pushing", "settling"})
          /\ post'[s].pc = "asleep" => post[s].live \/ post[s].quiet \/ post[s].own \in gone
      BY <1>4, SenderShape DEF ReadCount, RaiseCount, PushNotification, SenderSteps
    <2>2. /\ OnlySender(s) /\ post[s] # Asleep
          /\ post'[s] # Asleep => /\ post'[s].own = post[s].own /\ post'[s].live = post[s].live
                                  /\ post'[s].quiet = post[s].quiet
      BY <1>0, <2>1 DEF SenderSteps
    <2>3. \A r \in SendersAt("inserting")' : post'[r].own \notin gone'
      BY <2>1, <2>2 DEF PushesOwed, OnlySender, SendersAt, SenderSteps
    <2>4. \A n \in waiting' : \E r \in Senders : Owes(n, r)'
      <3> SUFFICES ASSUME NEW n \in waiting PROVE \E r \in Senders : Owes(n, r)'
        BY <2>1
      <3>1. PICK r \in Senders : Owes(n, r)
        BY DEF PushesOwed
      <3>2. CASE r # s
        BY <2>2, <3>1, <3>2 DEF OnlySender
      <3>3. CASE r = s
        <4>1. n \notin gone
          BY DEF PushesOwed
        <4>2. post'[s].pc # "asleep"
          BY <2>1, <3>1, <3>3, <4>1
        <4> QED
          BY <1>0, <2>1, <2>2, <3>1, <3>3, <4>2 DEF SenderSteps
      <3> QED
        BY <3>2, <3>3
    <2> QED
      BY <1>2, <2>1, <2>2, <2>3, <2>4 DEF PushesOwed
  <1>5. ASSUME NEW s \in Senders, UpdateIsSettled(s) PROVE PushesOwed'
    <2>1. /\ SenderSteps(s, {"asleep"}) /\ post[s].pc = "settling" /\ UNCHANGED <<gone, sent>>
          /\ waiting' = waiting \ {post[s].own}
      BY <1>5, SenderShape DEF UpdateIsSettled
    <2>2. OnlySender(s) /\ post[s] # Asleep /\ post'[s] = Asleep
      BY <1>0, <2>1 DEF SenderSteps
    <2>3. waiting' \cup gone' \subseteq 1..sent' /\ waiting' \cap gone' = {}
      BY <2>1 DEF PushesOwed
    <2>4. \A r \in SendersAt("inserting")' : post'[r].own \notin gone'
      BY <1>0, <2>1, <2>2 DEF PushesOwed, OnlySender, SendersAt
    <2>5. \A n \in waiting' : \E r \in Senders : Owes(n, r)'
      BY <2>1, <2>2 DEF PushesOwed, OnlySender
    <2> QED
      BY <1>2, <2>1, <2>2, <2>3, <2>4, <2>5 DEF PushesOwed
  <1>6. ASSUME NEW s \in Senders, FindNoCount(s) \/ FindCount(s) \/ ZeroCount(s)
        PROVE  PushesOwed'
    <2>1. /\ SenderSteps(s, {"asleep", "zeroing", "clearing"})
          /\ post[s].pc \in {"looking", "zeroing"} /\ UNCHANGED <<waiting, gone, sent>>
      BY <1>6, SenderShape DEF FindNoCount, FindCount, ZeroCount, SenderSteps
    <2>2. OnlySender(s) /\ post[s] # Asleep /\ (post'[s] # Asleep => post'[s].own = post[s].own)
      BY <1>0, <2>1 DEF SenderSteps
    <2>3. \A r \in SendersAt("inserting")' : post'[r].own \notin gone'
      BY <2>1, <2>2 DEF PushesOwed, OnlySender, SendersAt, SenderSteps
    <2>4. \A n \in waiting' : \E r \in Senders : Owes(n, r)'
      BY <2>1, <2>2 DEF PushesOwed, OnlySender
    <2> QED
      BY <1>2, <2>1, <2>2, <2>3, <2>4 DEF PushesOwed
  <1>7. ASSUME NEW s \in Senders, ClearNotifications(s) PROVE PushesOwed'
    <2>1. /\ SenderSteps(s, {"asleep"}) /\ post[s].pc = "clearing" /\ UNCHANGED sent
          /\ waiting' = {}
          /\ gone' = 1..sent \ {post[r].own : r \in {r \in Senders : post[r].pc = "inserting"}}
      BY <1>7, SenderShape DEF ClearNotifications
    <2>2. OnlySender(s) /\ post[s] # Asleep /\ post'[s] = Asleep
      BY <1>0, <2>1 DEF SenderSteps
    <2>3. \A r \in SendersAt("inserting")' : post'[r].own \notin gone'
      BY <1>0, <2>1, <2>2 DEF OnlySender, SendersAt
    <2>4. /\ waiting' \cup gone' \subseteq 1..sent' /\ waiting' \cap gone' = {}
      BY <2>1
    <2>5. \A n \in waiting' : FALSE
      BY <2>1
    <2> QED
      BY <1>2, <2>1, <2>2, <2>3, <2>4, <2>5 DEF PushesOwed
  <1>8. ASSUME UNCHANGED inboxVars PROVE PushesOwed'
    BY <1>8 DEF inboxVars, PushesOwed, SendersAt
  <1> QED
    BY <1>1, <1>3, <1>4, <1>5, <1>6, <1>7, <1>8 DEF InboxNext

\* Without overlaps the one that runs knows how the number stands.
LEMMA CalmInboxStep ==
    ASSUME InboxTypeOK, CalmInbox, [InboxNext]_inboxVars, InboxTypeOK'
    PROVE  CalmInbox'
  <1> SUFFICES ASSUME ~jumbled' 
               PROVE  /\ OneAwake'
                      /\ \A s \in Senders : post'[s] # Asleep => CalmAt(post[s])'
                      /\ AllAsleep' => count' = unread'
    BY DEF CalmInbox
  <1>0. /\ \A s \in Senders : post[s] = Asleep <=> post[s].pc = "asleep"
        /\ \A s \in Senders : post'[s] = Asleep <=> post'[s].pc = "asleep"
        /\ count \in Nat /\ unread \in Nat
    BY DEF InboxTypeOK, Posting, Asleep
  <1>1. ASSUME NEW s \in Senders,
               \/ \E live, quiet \in BOOLEAN : Notify(s, live, quiet)
               \/ GetUserNotification(s) \/ DeleteHistory(s)
        PROVE  /\ OneAwake'
               /\ \A r \in Senders : post'[r] # Asleep => CalmAt(post[r])'
               /\ AllAsleep' => count' = unread'
    <2>1. PICK p \in {"inserting", "looking"}, live, quiet, wipes \in BOOLEAN :
             /\ Launch(s, p, live, quiet, wipes)
             /\ p = "inserting" => unread' = unread
             /\ p = "looking" /\ ~wipes => unread' = 0
      BY <1>1 DEF Notify, GetUserNotification, DeleteHistory
    <2>2. /\ OnlySender(s) /\ post'[s] # Asleep /\ post'[s].pc = p /\ post'[s].wipes = wipes
          /\ ~jumbled /\ \A r \in Senders : post[r] = Asleep
          /\ UNCHANGED count
      BY <2>1, LaunchShape
    <2>3. count = unread
      BY <2>2 DEF CalmInbox, AllAsleep
    <2>4. OneAwake' /\ ~AllAsleep'
      BY <2>2 DEF OneAwake, AllAsleep, OnlySender
    <2>5. CalmAt(post[s])'
      BY <2>1, <2>2, <2>3 DEF CalmAt
    <2> QED
      BY <2>2, <2>4, <2>5 DEF OnlySender
  \* A step of the one that runs.
  <1>2. ASSUME NEW s \in Senders, OnlySender(s), ~jumbled, post[s] # Asleep,
               post'[s] # Asleep => CalmAt(post[s])',
               post'[s] = Asleep => count' = unread'
        PROVE  /\ OneAwake'
               /\ \A r \in Senders : post'[r] # Asleep => CalmAt(post[r])'
               /\ AllAsleep' => count' = unread'
    <2>1. \A r \in Senders \ {s} : post[r] = Asleep /\ post'[r] = Asleep
      BY <1>2 DEF CalmInbox, OneAwake, OnlySender
    <2>2. \A r \in Senders : post'[r] # Asleep => r = s
      BY <2>1
    <2> QED
      BY <1>2, <2>2 DEF OneAwake, AllAsleep
  <1>3. ASSUME NEW s \in Senders,
               \/ InsertNotification(s) \/ ReadCount(s) \/ RaiseCount(s)
               \/ PushNotification(s) \/ UpdateIsSettled(s) \/ FindNoCount(s)
               \/ FindCount(s) \/ ZeroCount(s) \/ ClearNotifications(s)
        PROVE  /\ OneAwake'
               /\ \A r \in Senders : post'[r] # Asleep => CalmAt(post[r])'
               /\ AllAsleep' => count' = unread'
    <2>1. post[s] # Asleep /\ ~jumbled /\ post[s] \in Posting
      BY <1>0, <1>3, SenderShape DEF Posting, Asleep
    <2>2. CalmAt(post[s])
      BY <2>1 DEF CalmInbox
    <2>3. CASE InsertNotification(s)
      <3>1. /\ SenderSteps(s, {"counting"}) /\ post[s].pc = "inserting"
            /\ count' = count /\ unread' = unread + 1
        BY <2>3, SenderShape DEF InsertNotification
      <3> QED
        BY <1>0, <1>2, <2>1, <2>2, <3>1 DEF SenderSteps, CalmAt
    <2>4. CASE ReadCount(s)
      <3>1. /\ SenderSteps(s, {"raising"}) /\ post[s].pc = "counting"
            /\ post'[s].seen = count + 1 /\ count' = count /\ unread' = unread
        BY <2>4, SenderShape DEF ReadCount
      <3> QED
        BY <1>0, <1>2, <2>1, <2>2, <3>1 DEF SenderSteps, CalmAt
    <2>5. CASE RaiseCount(s)
      <3>1. /\ SenderSteps(s, {"asleep", "pushing"}) /\ post[s].pc = "raising"
            /\ count' = post[s].seen /\ unread' = unread
        BY <2>5, SenderShape DEF RaiseCount
      <3> QED
        BY <1>0, <1>2, <2>1, <2>2, <3>1 DEF SenderSteps, CalmAt
    <2>6. CASE PushNotification(s) \/ UpdateIsSettled(s)
      <3>1. /\ SenderSteps(s, {"asleep", "settling"}) /\ post[s].pc \in {"pushing", "settling"}
            /\ count' = count /\ unread' = unread
        BY <2>6, SenderShape DEF PushNotification, UpdateIsSettled, SenderSteps
      <3> QED
        BY <1>0, <1>2, <2>1, <2>2, <3>1 DEF SenderSteps, CalmAt
    <2>7. CASE FindNoCount(s) \/ ZeroCount(s)
      <3>1. /\ SenderSteps(s, {"asleep", "clearing"}) /\ post[s].pc \in {"looking", "zeroing"}
            /\ count' = 0 /\ unread' = unread
            /\ post'[s].pc = "asleep" <=> ~post[s].wipes
        BY <2>7, SenderShape DEF FindNoCount, ZeroCount
      <3> QED
        BY <1>0, <1>2, <2>1, <2>2, <3>1 DEF SenderSteps, CalmAt
    <2>8. CASE FindCount(s)
      <3>1. /\ SenderSteps(s, {"zeroing"}) /\ post[s].pc = "looking"
            /\ count' = count /\ unread' = unread
        BY <2>8, SenderShape DEF FindCount
      <3> QED
        BY <1>0, <1>2, <2>1, <2>2, <3>1 DEF SenderSteps, CalmAt
    <2>9. CASE ClearNotifications(s)
      <3>1. /\ SenderSteps(s, {"asleep"}) /\ post[s].pc = "clearing"
            /\ count' = count /\ unread' = 0
        BY <2>9, SenderShape DEF ClearNotifications
      <3> QED
        BY <1>0, <1>2, <2>1, <2>2, <3>1 DEF SenderSteps, CalmAt
    <2> QED
      BY <1>3, <2>3, <2>4, <2>5, <2>6, <2>7, <2>8, <2>9
  <1>4. ASSUME UNCHANGED inboxVars
        PROVE  /\ OneAwake'
               /\ \A r \in Senders : post'[r] # Asleep => CalmAt(post[r])'
               /\ AllAsleep' => count' = unread'
    BY <1>4 DEF inboxVars, CalmInbox, OneAwake, CalmAt, AllAsleep
  <1> QED
    BY <1>1, <1>3, <1>4 DEF InboxNext

\* Whatever senders, readers and deletions run at the same time, the number of
\* unread notifications never counts one that was not committed, is exact while
\* they run one after the other, and no notification is left without its push.
THEOREM InboxKept == InboxSpec => []InboxSound
<1>1. InboxInv /\ [InboxNext]_inboxVars => InboxInv'
  BY InboxStepTyped, CountRoomStep, PushesOwedStep, CalmInboxStep DEF InboxInv
<1>2. InboxInv => InboxSound
  <2> SUFFICES ASSUME InboxInv PROVE InboxSound
    OBVIOUS
  <2>1. CountBounded
    <3>1. Cardinality(SendersAt("counting")) \in Nat /\ count \in Nat /\ inserted \in Nat
      BY SendersAtFinite, InboxAssumption DEF InboxInv, InboxTypeOK
    <3> QED
      BY <3>1 DEF InboxInv, CountRoom, CountBounded
  <2>2. CountAgrees
    BY DEF InboxInv, CalmInbox, CountAgrees
  <2>3. EveryNotePushed
    BY DEF InboxInv, PushesOwed, EveryNotePushed, AllAsleep, Asleep
  <2> QED
    BY <2>1, <2>2, <2>3 DEF InboxInv, InboxSound
<1> QED
  BY <1>1, <1>2, InboxStart, PTL DEF InboxSpec

-----------------------------------------------------------------------------
(* Inquiries                                                               *)

\* The attachments a request of the user may bring.
Places(o) == {[visit |-> o, place |-> i, admin |-> FALSE] : i \in 1..MaxAttachments}

\* The user's requests that may still add their attachments, and the admins'
\* requests that may still add to the history.
Editing(v) == /\ visit[v] # Outside /\ ~visit[v].admin
              /\ visit[v].pc \in {"selecting", "updating", "attaching"}
Logging(v) == /\ visit[v] # Outside /\ visit[v].admin
              /\ visit[v].pc \in {"attaching", "logging"}

CustomerFiles == {f \in files : ~f.admin}
EditFiles     == UNION {visit[v].files : v \in {w \in Visits : Editing(w)}}

FilesKnown ==
    /\ IsFiniteSet(files)
    /\ \A v \in Visits : visit[v] # Outside /\ visit[v].admin =>
          \A f \in visit[v].files : f.admin
    /\ \A v \in Visits : visit[v] # Outside => IsFiniteSet(visit[v].files)
    /\ \A v \in Visits : Editing(v) => visit[v].files \subseteq Places(visit[v].own)

\* The attachments of the user and those the running edits may add.
EditRoom ==
    Cardinality(CustomerFiles \cup EditFiles) <= MaxAttachments * Cardinality(Visits)

HistoryRoom == history + Cardinality({v \in Visits : Logging(v)}) <= visits

\* An admin writes the history before the inquiry, and a user leaves it waiting.
OnRecord ==
    /\ \A v \in Visits : visit[v] # Outside =>
          /\ ~visit[v].admin => visit[v].row.status = "waiting"
          /\ visit[v].pc = "logging" => visit[v].admin
    /\ ~again /\ inquiry.present =>
          /\ inquiry.status # "waiting" => history > 0
          /\ \A v \in Visits :
                visit[v] # Outside /\ visit[v].admin /\ visit[v].pc \in {"selecting", "updating"}
                   => history > 0

\* One request at a time finds the inquiry as it was when it came.
ReplyFits(row) == row.reply # 0 <=> row.status = "completed"
CalmDesk ==
    ~met => /\ \A v, w \in Visits : visit[v] # Outside /\ visit[w] # Outside => v = w
            /\ ReplyFits(inquiry)
            /\ (closed <=> inquiry.status \in Final)
            /\ closed => inquiry.present
            /\ \A v \in Visits : visit[v] # Outside =>
                  /\ ~closed /\ inquiry.present
                  /\ ReplyFits(visit[v].row)
                  /\ visit[v].row.present
                  /\ visit[v].pc = "updating" => visit[v].base = inquiry

DeskInv == DeskTypeOK /\ FilesKnown /\ EditRoom /\ HistoryRoom /\ OnRecord /\ CalmDesk

-----------------------------------------------------------------------------

\* Only v goes on, and keeps what it came with.
OnlyVisit(v) ==
    /\ visit' \in [Visits -> Visit \cup {Outside}]
    /\ \A w \in Visits \ {v} : visit'[w] = visit[w]
VisitSteps(v, next) ==
    /\ OnlyVisit(v) /\ visit[v] # Outside
    /\ visit'[v].pc \in next
    /\ visit'[v] # Outside =>
          /\ visit'[v].admin = visit[v].admin /\ visit'[v].own = visit[v].own
          /\ visit'[v].files = visit[v].files /\ visit'[v].row = visit[v].row

\* A request at the desk has the fields of one.
LEMMA VisitTyped ==
    ASSUME DeskTypeOK, NEW v \in Visits
    PROVE  /\ visit[v] = Outside <=> visit[v].pc = "none"
           /\ visit[v] # Outside =>
                /\ visit[v] \in Visit
                /\ visit[v].admin \in BOOLEAN /\ visit[v].own \in 1..MaxVisits
                /\ visit[v].files \subseteq File /\ visit[v].row \in Inquiry
                /\ visit[v].loaded \subseteq File /\ visit[v].base \in Inquiry
                /\ visit[v].found \subseteq File
  <1>1. visit[v] \in Visit \cup {Outside} /\ Outside.pc = "none"
    BY DEF DeskTypeOK, Outside
  <1>2. ASSUME visit[v] \in Visit
        PROVE  /\ visit[v].pc # "none"
               /\ visit[v].admin \in BOOLEAN /\ visit[v].own \in 1..MaxVisits
               /\ visit[v].files \subseteq File /\ visit[v].row \in Inquiry
               /\ visit[v].loaded \subseteq File /\ visit[v].base \in Inquiry
               /\ visit[v].found \subseteq File
    BY <1>2 DEF Visit
  <1> QED
    BY <1>1, <1>2

\* A request adds one attachment at most.
LEMMA NewFilesBound ==
    ASSUME DeskTypeOK, visits < MaxVisits, NEW n \in 0..MaxAttachments, NEW admin \in BOOLEAN
    PROVE  /\ NewFiles(n, admin) \subseteq File
           /\ IsFiniteSet(NewFiles(n, admin))
           /\ Cardinality(NewFiles(n, admin)) <= n
           /\ ~admin => NewFiles(n, admin) \subseteq Places(visits + 1)
           /\ \A f \in NewFiles(n, admin) : f.admin = admin
  <1>1. visits + 1 \in 0..MaxVisits /\ n \in Nat /\ 1..n \subseteq 1..MaxAttachments
    BY DeskAssumption DEF DeskTypeOK
  <1> DEFINE f == [i \in 1..n |-> [visit |-> visits + 1, place |-> i, admin |-> admin]]
  <1>2. NewFiles(n, admin) = {f[i] : i \in 1..n}
    BY DEF NewFiles
  <1>3. IsFiniteSet(1..n) /\ Cardinality(1..n) = n
    BY <1>1, FS_Interval
  <1>4. NewFiles(n, admin) \subseteq File
    BY <1>1 DEF NewFiles, File
  <1>5. IsFiniteSet(NewFiles(n, admin)) /\ Cardinality(NewFiles(n, admin)) <= n
    <2> HIDE DEF f
    <2> QED
      BY <1>2, <1>3, ImageBound
  <1> QED
    BY <1>1, <1>4, <1>5 DEF NewFiles, Places

\* What a request is when it has come: it holds the inquiry it loaded.
LEMMA ComeShape ==
    ASSUME DeskTypeOK, NEW v \in Visits,
           NEW p \in {"attaching", "logging", "selecting", "deleting", "detaching"},
           NEW admin \in BOOLEAN, NEW new \in SUBSET File, NEW row \in Inquiry,
           Come(v, p, admin, new, row)
    PROVE  /\ OnlyVisit(v) /\ visit[v] = Outside /\ visit'[v] # Outside
           /\ visit'[v].pc = p /\ visit'[v].admin = admin /\ visit'[v].own = visits + 1
           /\ visit'[v].files = new /\ visit'[v].row = row
           /\ visits' = visits + 1 /\ visits' \in 0..MaxVisits
           /\ inquiry.present /\ met' \in BOOLEAN
           /\ ~met' => ~met /\ \A w \in Visits : visit[w] = Outside
           /\ UNCHANGED <<inquiry, files, history, closed, again, outages>>
  <1> DEFINE x == [pc |-> p, admin |-> admin, own |-> visits + 1, files |-> new, row |-> row,
                   loaded |-> files, base |-> inquiry, found |-> files]
  <1>1. visits + 1 \in 1..MaxVisits /\ visits + 1 \in 0..MaxVisits
    BY DeskAssumption DEF DeskTypeOK, Come
  <1>2. x \in Visit /\ x # Outside
    BY <1>1 DEF Visit, Outside, DeskTypeOK
  <1>3. visit' = [visit EXCEPT ![v] = x]
    BY DEF Come
  <1>4. OnlyVisit(v) /\ visit'[v] = x
    BY <1>2, <1>3 DEF OnlyVisit, DeskTypeOK
  <1>5. ~met' => ~met /\ \A w \in Visits : visit[w] = Outside
    BY DEF Come
  <1> QED
    BY <1>1, <1>2, <1>4, <1>5 DEF Come, DeskTypeOK

\* The four requests that may come.
LEMMA MayCome ==
    ASSUME DeskTypeOK, IsFiniteSet(files), NEW v \in Visits,
           EditInquiry(v) \/ DeleteInquiry(v) \/ DeleteAttachment(v) \/ DoReply(v)
    PROVE  \E p \in {"attaching", "logging", "selecting", "deleting", "detaching"},
              admin \in BOOLEAN, new \in SUBSET File, row \in Inquiry :
              /\ Come(v, p, admin, new, row) /\ IsFiniteSet(new)
              /\ admin => /\ p \in {"attaching", "logging"} /\ \A f \in new : f.admin
                          /\ inquiry.status \notin Final
                          /\ row.reply = (IF row.status = "completed" THEN visits + 1
                                                                      ELSE inquiry.reply)
                          /\ row.present = inquiry.present
              /\ ~admin => /\ p \in {"selecting", "deleting", "detaching"}
                           /\ inquiry.status = "waiting" /\ row = inquiry
              /\ p = "selecting" => /\ new \subseteq Places(visits + 1)
                                    /\ Cardinality(new) + Cardinality(files) <= MaxAttachments
  <1>1. inquiry \in Inquiry /\ visits \in Nat /\ Cardinality(files) \in Nat /\ files \subseteq File
    BY FS_CardinalityType DEF DeskTypeOK
  <1>2. CASE EditInquiry(v)
    <2>1. PICK n \in 0..MaxAttachments :
             /\ Cardinality(files) + n <= MaxAttachments /\ inquiry.status = "waiting"
             /\ Come(v, "selecting", FALSE, NewFiles(n, FALSE), inquiry)
      BY <1>2 DEF EditInquiry
    <2> DEFINE new == NewFiles(n, FALSE)
    <2>2. /\ new \subseteq File /\ IsFiniteSet(new) /\ Cardinality(new) <= n
          /\ new \subseteq Places(visits + 1)
      BY <2>1, NewFilesBound DEF Come
    <2>3. Cardinality(new) + Cardinality(files) <= MaxAttachments
      <3>1. n \in Nat /\ MaxAttachments \in Nat
        BY DeskAssumption
      <3> HIDE DEF new
      <3>2. Cardinality(new) \in Nat
        BY <2>2, FS_CardinalityType
      <3>3. Cardinality(files) + n <= MaxAttachments /\ Cardinality(new) <= n
        BY <2>1, <2>2
      <3> QED
        BY <1>1, <3>1, <3>2, <3>3
    <2> HIDE DEF new
    <2>4. Come(v, "selecting", FALSE, new, inquiry)
      BY <2>1 DEF new
    <2> QED
      BY <1>1, <2>1, <2>2, <2>3, <2>4
  <1>3. CASE DeleteInquiry(v)
    BY <1>1, <1>3, FS_EmptySet DEF DeleteInquiry
  <1>4. CASE DeleteAttachment(v)
    <2>1. PICK f \in files :
             inquiry.status = "waiting" /\ Come(v, "detaching", FALSE, {f}, inquiry)
      BY <1>4 DEF DeleteAttachment
    <2>2. {f} \in SUBSET File /\ IsFiniteSet({f})
      BY <1>1, FS_Singleton
    <2> QED
      BY <1>1, <2>1, <2>2
  <1>5. CASE DoReply(v)
    <2>1. PICK status \in Statuses, n \in 0..MaxAttachments :
             /\ MayReply(status)
             /\ Come(v, IF n = 0 THEN "logging" ELSE "attaching", TRUE, NewFiles(n, TRUE),
                    [inquiry EXCEPT !.status = status,
                        !.reply = IF status = "completed" THEN visits + 1 ELSE @])
      BY <1>5 DEF DoReply
    <2> DEFINE new == NewFiles(n, TRUE)
               p   == IF n = 0 THEN "logging" ELSE "attaching"
               row == [inquiry EXCEPT !.status = status,
                          !.reply = IF status = "completed" THEN visits + 1 ELSE @]
    <2>2. visits + 1 \in 0..MaxVisits
      BY <1>1, <2>1, DeskAssumption DEF Come
    <2>3. /\ row \in Inquiry /\ row.status = status /\ row.present = inquiry.present
          /\ row.reply = (IF status = "completed" THEN visits + 1 ELSE inquiry.reply)
      BY <1>1, <2>2 DEF Inquiry
    <2>4. new \subseteq File /\ IsFiniteSet(new) /\ \A f \in new : f.admin
      BY <2>1, NewFilesBound DEF Come
    <2>5. p \in {"attaching", "logging"} /\ inquiry.status \notin Final
      BY <2>1 DEF MayReply
    <2>6. Come(v, p, TRUE, new, row)
      BY <2>1
    <2> HIDE DEF new, p, row
    <2> QED
      BY <2>3, <2>4, <2>5, <2>6
  <1> QED
    BY <1>2, <1>3, <1>4, <1>5

\* What comes, and what it leaves alone.
LEMMA Arrival ==
    ASSUME DeskTypeOK, IsFiniteSet(files), NEW v \in Visits,
           EditInquiry(v) \/ DeleteInquiry(v) \/ DeleteAttachment(v) \/ DoReply(v)
    PROVE  /\ OnlyVisit(v) /\ visit[v] = Outside /\ visit'[v] # Outside
           /\ visit'[v].own = visits + 1 /\ IsFiniteSet(visit'[v].files)
           /\ visits' = visits + 1 /\ visits' \in 0..MaxVisits
           /\ inquiry.present /\ met' \in BOOLEAN
           /\ ~met' => ~met /\ \A w \in Visits : visit[w] = Outside
           /\ UNCHANGED <<inquiry, files, history, closed, again, outages>>
           /\ visit'[v].admin =>
                /\ visit'[v].pc \in {"attaching", "logging"}
                /\ \A f \in visit'[v].files : f.admin
                /\ inquiry.status \notin Final
                /\ visit'[v].row.reply = (IF visit'[v].row.status = "completed" THEN visits + 1
                                                                    ELSE inquiry.reply)
                /\ visit'[v].row.present = inquiry.present
           /\ ~visit'[v].admin =>
                /\ visit'[v].pc \in {"selecting", "deleting", "detaching"}
                /\ inquiry.status = "waiting" /\ visit'[v].row = inquiry
           /\ visit'[v].pc = "selecting" =>
                /\ visit'[v].files \subseteq Places(visits + 1)
                /\ Cardinality(visit'[v].files) + Cardinality(files) <= MaxAttachments
  <1>1. PICK p \in {"attaching", "logging", "selecting", "deleting", "detaching"},
              admin \in BOOLEAN, new \in SUBSET File, row \in Inquiry :
              /\ Come(v, p, admin, new, row) /\ IsFiniteSet(new)
              /\ admin => /\ p \in {"attaching", "logging"} /\ \A f \in new : f.admin
                          /\ inquiry.status \notin Final
                          /\ row.reply = (IF row.status = "completed" THEN visits + 1
                                                                      ELSE inquiry.reply)
                          /\ row.present = inquiry.present
              /\ ~admin => /\ p \in {"selecting", "deleting", "detaching"}
                           /\ inquiry.status = "waiting" /\ row = inquiry
              /\ p = "selecting" => /\ new \subseteq Places(visits + 1)
                                    /\ Cardinality(new) + Cardinality(files) <= MaxAttachments
    BY MayCome, Zenon
  <1>2. /\ OnlyVisit(v) /\ visit[v] = Outside /\ visit'[v] # Outside
        /\ visit'[v].pc = p /\ visit'[v].admin = admin /\ visit'[v].own = visits + 1
        /\ visit'[v].files = new /\ visit'[v].row = row
        /\ visits' = visits + 1 /\ visits' \in 0..MaxVisits
        /\ inquiry.present /\ met' \in BOOLEAN
        /\ ~met' => ~met /\ \A w \in Visits : visit[w] = Outside
        /\ UNCHANGED <<inquiry, files, history, closed, again, outages>>
    BY <1>1, ComeShape, ZenonT(40)
  <1> QED
    BY <1>1, <1>2, Zenon

\* What each step of a request makes of the request.
LEMMA VisitShape ==
    ASSUME DeskTypeOK, NEW v \in Visits
    PROVE  /\ SaveAttachments(v) =>
                /\ VisitSteps(v, {"logging", "none"}) /\ visit[v].pc = "attaching"
                /\ visit'[v].pc = "logging" <=> inquiry.present /\ visit[v].admin
           /\ SaveHistory(v) =>
                /\ VisitSteps(v, {"selecting", "none"}) /\ visit[v].pc = "logging"
                /\ visit'[v].pc = "selecting" <=> inquiry.present
           /\ SelectInquiry(v) =>
                /\ VisitSteps(v, {"updating"}) /\ visit[v].pc = "selecting"
                /\ visit'[v].base = inquiry
           /\ SaveInquiry(v) =>
                /\ VisitSteps(v, {"attaching", "none"}) /\ visit[v].pc = "updating"
                /\ visit[v].admin => visit'[v].pc = "none"
           /\ RemoveInquiry(v) =>
                VisitSteps(v, {"none"}) /\ visit[v].pc = "deleting"
           /\ RemoveAttachment(v) =>
                VisitSteps(v, {"none"}) /\ visit[v].pc = "detaching"
  <1>1. ASSUME visit[v] # Outside, NEW p \in {"logging", "selecting", "attaching"}, Proceed(v, p)
        PROVE  VisitSteps(v, {p}) /\ visit'[v].pc = p
    <2> DEFINE x == [visit[v] EXCEPT !.pc = p]
    <2>1. visit[v] \in Visit
      BY <1>1, VisitTyped
    <2>2. /\ x \in Visit /\ x.pc = p /\ x.admin = visit[v].admin /\ x.own = visit[v].own
          /\ x.files = visit[v].files /\ x.row = visit[v].row
      BY <2>1 DEF Visit
    <2>3. visit' = [visit EXCEPT ![v] = x]
      BY <1>1 DEF Proceed
    <2> HIDE DEF x
    <2> QED
      BY <1>1, <2>2, <2>3 DEF VisitSteps, OnlyVisit, DeskTypeOK
  <1>2. ASSUME visit[v] # Outside, LeaveDesk(v)
        PROVE  VisitSteps(v, {"none"}) /\ visit'[v].pc = "none"
    BY <1>2 DEF LeaveDesk, VisitSteps, OnlyVisit, DeskTypeOK, Outside
  <1>3. SaveAttachments(v) =>
           /\ VisitSteps(v, {"logging", "none"}) /\ visit[v].pc = "attaching"
           /\ visit'[v].pc = "logging" <=> inquiry.present /\ visit[v].admin
    BY <1>1, <1>2 DEF SaveAttachments, Doing, VisitSteps
  <1>4. SaveHistory(v) =>
           /\ VisitSteps(v, {"selecting", "none"}) /\ visit[v].pc = "logging"
           /\ visit'[v].pc = "selecting" <=> inquiry.present
    BY <1>1, <1>2 DEF SaveHistory, Doing, VisitSteps
  <1>5. SelectInquiry(v) =>
           /\ VisitSteps(v, {"updating"}) /\ visit[v].pc = "selecting"
           /\ visit'[v].base = inquiry
    <2> SUFFICES ASSUME SelectInquiry(v)
                 PROVE  /\ VisitSteps(v, {"updating"}) /\ visit[v].pc = "selecting"
                        /\ visit'[v].base = inquiry
      OBVIOUS
    <2> DEFINE x == [visit[v] EXCEPT !.pc = "updating", !.base = inquiry, !.found = files]
    <2>1. visit[v] \in Visit /\ inquiry \in Inquiry /\ files \subseteq File
      BY VisitTyped DEF SelectInquiry, Doing, DeskTypeOK
    <2>2. /\ x \in Visit /\ x.pc = "updating" /\ x.admin = visit[v].admin /\ x.own = visit[v].own
          /\ x.files = visit[v].files /\ x.row = visit[v].row /\ x.base = inquiry
      BY <2>1 DEF Visit
    <2>3. visit' = [visit EXCEPT ![v] = x]
      BY DEF SelectInquiry
    <2> HIDE DEF x
    <2> QED
      BY <2>2, <2>3 DEF SelectInquiry, Doing, VisitSteps, OnlyVisit, DeskTypeOK
  <1>6. SaveInquiry(v) =>
           /\ VisitSteps(v, {"attaching", "none"}) /\ visit[v].pc = "updating"
           /\ visit[v].admin => visit'[v].pc = "none"
    BY <1>1, <1>2 DEF SaveInquiry, Doing, VisitSteps
  <1>7. RemoveInquiry(v) => VisitSteps(v, {"none"}) /\ visit[v].pc = "deleting"
    BY <1>2 DEF RemoveInquiry, Doing
  <1>8. RemoveAttachment(v) => VisitSteps(v, {"none"}) /\ visit[v].pc = "detaching"
    BY <1>2 DEF RemoveAttachment, Doing
  <1> QED
    BY <1>3, <1>4, <1>5, <1>6, <1>7, <1>8

\* What the number of those that still write the history loses with one of them.
LEMMA LoggersCounted ==
    /\ Cardinality({w \in Visits : Logging(w)}) \in Nat
    /\ \A v \in Visits : Logging(v) =>
          Cardinality({w \in Visits : Logging(w)} \ {v})
             = Cardinality({w \in Visits : Logging(w)}) - 1
    /\ HistoryRoom /\ DeskTypeOK => \A v \in Visits : Logging(v) => history + 1 <= visits
  <1> DEFINE L == {w \in Visits : Logging(w)}
  <1>1. IsFiniteSet(L)
    BY FS_Subset, DeskAssumption
  <1>2. \A v \in Visits : Logging(v) => v \in L
    OBVIOUS
  <1> HIDE DEF L
  <1>3. Cardinality(L) \in Nat /\ \A v \in L : Cardinality(L \ {v}) = Cardinality(L) - 1
                              /\ Cardinality(L \ {v}) \in Nat
    BY <1>1, FS_CardinalityType, FS_RemoveElement
  <1>4. HistoryRoom /\ DeskTypeOK => \A v \in Visits : Logging(v) => history + 1 <= visits
    <2> SUFFICES ASSUME HistoryRoom, DeskTypeOK, NEW v \in Visits, Logging(v)
                 PROVE  history + 1 <= visits
      OBVIOUS
    <2>1. history + Cardinality(L) <= visits
      BY DEF HistoryRoom, L
    <2>2. history \in Nat /\ visits \in Nat
      BY DEF DeskTypeOK
    <2>3. Cardinality(L \ {v}) = Cardinality(L) - 1 /\ Cardinality(L \ {v}) \in Nat
      BY <1>2, <1>3
    <2> QED
      BY <1>3, <2>1, <2>2, <2>3
  <1> QED
    BY <1>2, <1>3, <1>4 DEF L

\* Every statement keeps the types.
LEMMA DeskStepTyped ==
    ASSUME DeskTypeOK, FilesKnown, HistoryRoom, OnRecord, [DeskNext]_deskVars
    PROVE  DeskTypeOK'
  <1> USE DEF DeskTypeOK
  <1>0. IsFiniteSet(files)
    BY DEF FilesKnown
  <1>1. ASSUME NEW v \in Visits,
               EditInquiry(v) \/ DeleteInquiry(v) \/ DeleteAttachment(v) \/ DoReply(v)
        PROVE  DeskTypeOK'
    BY <1>0, <1>1, Arrival DEF OnlyVisit
  <1>2. ASSUME NEW v \in Visits, SaveAttachments(v) PROVE DeskTypeOK'
    <2>1. files' \subseteq File
      BY <1>2, VisitShape, VisitTyped DEF SaveAttachments, VisitSteps
    <2> QED
      BY <1>2, <2>1, VisitShape DEF SaveAttachments, SameDesk, VisitSteps, OnlyVisit
  <1>3. ASSUME NEW v \in Visits, SaveHistory(v) PROVE DeskTypeOK'
    <2>1. history' \in 0..MaxVisits
      <3>1. Logging(v) \/ ~visit[v].admin
        BY <1>3 DEF SaveHistory, Doing, Logging
      <3>2. CASE history' = history
        BY <3>2
      <3>3. CASE history' = history + 1
        <4>1. Logging(v)
          BY <1>3, <3>1 DEF OnRecord, SaveHistory, Doing
        <4>2. history + 1 <= visits
          BY <4>1, LoggersCounted DEF HistoryRoom
        <4> QED
          BY <3>3, <4>2, DeskAssumption
      <3> QED
        BY <1>3, <3>2, <3>3 DEF SaveHistory
    <2> QED
      BY <1>3, <2>1, VisitShape DEF SaveHistory, SameDesk, VisitSteps, OnlyVisit
  <1>4. ASSUME NEW v \in Visits, SelectInquiry(v) PROVE DeskTypeOK'
    BY <1>4, VisitShape DEF SelectInquiry, SameDesk, VisitSteps, OnlyVisit
  <1>5. ASSUME NEW v \in Visits, SaveInquiry(v) PROVE DeskTypeOK'
    <2>1. visit[v].row \in Inquiry /\ visit[v].base \in Inquiry /\ inquiry \in Inquiry
      BY <1>5, VisitTyped DEF SaveInquiry, Doing
    <2>2. Written(v) \in Inquiry /\ [visit[v].row EXCEPT !.present = TRUE] \in Inquiry
      BY <2>1 DEF Written, Inquiry
    <2>3. inquiry' \in Inquiry /\ files' \subseteq File /\ again' \in BOOLEAN
          /\ closed' \in BOOLEAN
      BY <1>5, <2>1, <2>2 DEF SaveInquiry
    <2> QED
      BY <1>5, <2>3, VisitShape DEF SaveInquiry, SameDesk, VisitSteps, OnlyVisit
  <1>6. ASSUME NEW v \in Visits, RemoveInquiry(v) PROVE DeskTypeOK'
    <2>1. Missing \in Inquiry /\ 0 \in 0..MaxVisits
      <3>1. 0 \in 0..MaxVisits
        BY DeskAssumption
      <3>2. "waiting" \in Statuses
        BY Zenon DEF Statuses
      <3> QED
        BY <3>1, <3>2 DEF Missing, Inquiry
    <2> QED
      BY <1>6, <2>1, VisitShape DEF RemoveInquiry, SameDesk, VisitSteps, OnlyVisit
  <1>7. ASSUME NEW v \in Visits, RemoveAttachment(v) PROVE DeskTypeOK'
    BY <1>7, VisitShape DEF RemoveAttachment, SameDesk, VisitSteps, OnlyVisit
  <1>8. ASSUME Outage PROVE DeskTypeOK'
    <2>1. outages' \in 0..MaxOutages
      BY <1>8, DeskAssumption DEF Outage
    <2> QED
      BY <1>8, <2>1 DEF Outage
  <1>9. ASSUME UNCHANGED deskVars PROVE DeskTypeOK'
    BY <1>9 DEF deskVars
  <1> QED
    BY <1>1, <1>2, <1>3, <1>4, <1>5, <1>6, <1>7, <1>8, <1>9 DEF DeskNext

\* Each admin's request that may still write the history has come since the
\* history was last written.
LEMMA HistoryRoomStep ==
    ASSUME DeskTypeOK, FilesKnown, HistoryRoom, OnRecord, [DeskNext]_deskVars
    PROVE  HistoryRoom'
  <1> DEFINE L == {w \in Visits : Logging(w)}
  <1>0. /\ Cardinality(L) \in Nat /\ history \in Nat /\ visits \in Nat
        /\ history + Cardinality(L) <= visits /\ IsFiniteSet(L)
    BY LoggersCounted, FS_Subset, DeskAssumption DEF HistoryRoom, DeskTypeOK
  <1>a. HistoryRoom' <=> history' + Cardinality(L') <= visits'
    BY DEF HistoryRoom, Logging
  \* Those that write the history are the same but for one.
  <1>b. ASSUME NEW v \in Visits, OnlyVisit(v)
        PROVE  /\ L' \subseteq L \cup {v}
               /\ ~Logging(v)' => L' = L \ {v}
    BY <1>b DEF OnlyVisit, Logging
  <1>c. ASSUME L' \subseteq L, history' <= history, history' \in Nat, visits' = visits
        PROVE  HistoryRoom'
    <2>1. Cardinality(L') <= Cardinality(L) /\ Cardinality(L') \in Nat
      BY <1>0, <1>c, FS_Subset, FS_CardinalityType
    <2> QED
      BY <1>0, <1>a, <1>c, <2>1
  <1>1. ASSUME NEW v \in Visits,
               EditInquiry(v) \/ DeleteInquiry(v) \/ DeleteAttachment(v) \/ DoReply(v)
        PROVE  HistoryRoom'
    <2>2. OnlyVisit(v) /\ visits' = visits + 1 /\ history' = history
      BY <1>1, Arrival DEF FilesKnown
    <2>3. L' \subseteq L \cup {v}
      BY <1>b, <2>2
    <2>4. /\ Cardinality(L') <= Cardinality(L \cup {v})
          /\ Cardinality(L \cup {v}) <= Cardinality(L) + 1
          /\ Cardinality(L') \in Nat /\ Cardinality(L \cup {v}) \in Nat
      <3> HIDE DEF L
      <3>1. IsFiniteSet(L \cup {v}) /\ Cardinality(L \cup {v}) <= Cardinality(L) + 1
        BY <1>0, OneMore
      <3>2. IsFiniteSet(L') /\ Cardinality(L') <= Cardinality(L \cup {v})
        BY <2>3, <3>1, FS_Subset
      <3> QED
        BY <3>1, <3>2, FS_CardinalityType
    <2> HIDE DEF L
    <2> QED
      BY <1>0, <1>a, <2>2, <2>4
  <1>2. ASSUME NEW v \in Visits, SaveHistory(v) PROVE HistoryRoom'
    <2>1. /\ VisitSteps(v, {"selecting", "none"}) /\ Logging(v) /\ ~Logging(v)'
          /\ history' <= history + 1 /\ history' \in Nat /\ visits' = visits
      BY <1>2, <1>0, VisitShape
         DEF SaveHistory, SameDesk, Logging, OnRecord, VisitSteps
    <2>2. Cardinality(L') = Cardinality(L) - 1
      BY <1>b, <2>1, LoggersCounted DEF VisitSteps
    <2> HIDE DEF L
    <2> QED
      BY <1>0, <1>a, <2>1, <2>2
  <1>3. ASSUME NEW v \in Visits,
               \/ SaveAttachments(v) \/ SelectInquiry(v) \/ SaveInquiry(v)
               \/ RemoveInquiry(v) \/ RemoveAttachment(v)
        PROVE  HistoryRoom'
    <2>1. OnlyVisit(v) /\ (Logging(v)' => Logging(v))
      BY <1>3, VisitShape DEF VisitSteps, Logging
    <2>2. L' \subseteq L
      BY <1>b, <2>1
    <2>3. history' <= history /\ history' \in Nat /\ visits' = visits
      BY <1>3, <1>0 DEF SaveAttachments, SelectInquiry, SaveInquiry, RemoveInquiry,
            RemoveAttachment, SameDesk
    <2> QED
      BY <1>c, <2>2, <2>3
  <1>4. ASSUME Outage PROVE HistoryRoom'
    <2>1. L' \subseteq L /\ history' = history /\ visits' = visits
      BY <1>4 DEF Outage, Logging
    <2> QED
      BY <1>0, <1>c, <2>1
  <1>5. ASSUME UNCHANGED deskVars PROVE HistoryRoom'
    <2>1. L' \subseteq L /\ history' = history /\ visits' = visits
      BY <1>5 DEF deskVars, Logging
    <2> QED
      BY <1>0, <1>c, <2>1
  <1> QED
    BY <1>1, <1>2, <1>3, <1>4, <1>5 DEF DeskNext

\* Every statement keeps the attachments those of the inquiry or of a request.
LEMMA FilesKnownStep ==
    ASSUME DeskTypeOK, FilesKnown, OnRecord, [DeskNext]_deskVars
    PROVE  FilesKnown'
  <1>0. IsFiniteSet(files)
    BY DEF FilesKnown
  \* What a request of those there are goes on with.
  <1>1. ASSUME NEW v \in Visits, NEW next, VisitSteps(v, next), IsFiniteSet(files'),
               Editing(v)' => Editing(v)
        PROVE  FilesKnown'
    BY <1>1 DEF FilesKnown, VisitSteps, OnlyVisit, Editing, Places
  <1>2. ASSUME NEW v \in Visits,
               EditInquiry(v) \/ DeleteInquiry(v) \/ DeleteAttachment(v) \/ DoReply(v)
        PROVE  FilesKnown'
    <2>1. /\ OnlyVisit(v) /\ IsFiniteSet(visit'[v].files) /\ files' = files
          /\ visit'[v].own = visits + 1
          /\ visit'[v].admin => \A f \in visit'[v].files : f.admin
          /\ ~visit'[v].admin => visit'[v].pc # "updating" /\ visit'[v].pc # "attaching"
          /\ visit'[v].pc = "selecting" => visit'[v].files \subseteq Places(visits + 1)
      BY <1>0, <1>2, Arrival
    <2> QED
      BY <2>1 DEF FilesKnown, OnlyVisit, Editing, Places
  <1>3. ASSUME NEW v \in Visits, SaveAttachments(v) PROVE FilesKnown'
    <2>1. IsFiniteSet(files')
      <3>1. IsFiniteSet(visit[v].files)
        BY <1>3 DEF SaveAttachments, Doing, FilesKnown
      <3>2. IsFiniteSet(files \cup visit[v].files)
        BY <1>0, <3>1, UnionBound
      <3> QED
        BY <1>0, <1>3, <3>2 DEF SaveAttachments
    <2>2. VisitSteps(v, {"logging", "none"}) /\ (Editing(v)' => Editing(v))
      BY <1>3, VisitShape DEF VisitSteps, Editing
    <2> QED
      BY <1>1, <2>1, <2>2
  <1>4. ASSUME NEW v \in Visits, SaveHistory(v) PROVE FilesKnown'
    <2>1. VisitSteps(v, {"selecting", "none"}) /\ IsFiniteSet(files')
      BY <1>0, <1>4, VisitShape DEF SaveHistory
    <2>2. Editing(v)' => Editing(v)
      BY <1>4, VisitShape DEF VisitSteps, Editing, OnRecord
    <2> QED
      BY <1>1, <2>1, <2>2
  <1>5. ASSUME NEW v \in Visits, SelectInquiry(v) PROVE FilesKnown'
    <2>1. /\ VisitSteps(v, {"updating"}) /\ IsFiniteSet(files')
          /\ Editing(v)' => Editing(v)
      BY <1>0, <1>5, VisitShape DEF SelectInquiry, VisitSteps, Editing
    <2> QED
      BY <1>1, <2>1
  <1>6. ASSUME NEW v \in Visits, SaveInquiry(v) PROVE FilesKnown'
    <2>1. /\ VisitSteps(v, {"attaching", "none"})
          /\ Editing(v)' => Editing(v)
      BY <1>6, VisitShape DEF VisitSteps, Editing
    <2>2. files' \subseteq files
      BY <1>6 DEF SaveInquiry
    <2>3. IsFiniteSet(files')
      BY <1>0, <2>2, FS_Subset
    <2> QED
      BY <1>1, <2>1, <2>3
  <1>7. ASSUME NEW v \in Visits, RemoveInquiry(v) \/ RemoveAttachment(v) PROVE FilesKnown'
    <2>1. VisitSteps(v, {"none"}) /\ (Editing(v)' => Editing(v))
      BY <1>7, VisitShape DEF VisitSteps, Editing
    <2>2. files' \subseteq files
      BY <1>7 DEF RemoveInquiry, RemoveAttachment
    <2>3. IsFiniteSet(files')
      BY <1>0, <2>2, FS_Subset
    <2> QED
      BY <1>1, <2>1, <2>3
  <1>8. ASSUME Outage PROVE FilesKnown'
    BY <1>8 DEF Outage, FilesKnown, Editing
  <1>9. ASSUME UNCHANGED deskVars PROVE FilesKnown'
    BY <1>9 DEF deskVars, FilesKnown, Editing, Places
  <1> QED
    BY <1>2, <1>3, <1>4, <1>5, <1>6, <1>7, <1>8, <1>9 DEF DeskNext

\* Requests bring no more attachments than each may.
LEMMA EditFilesBound ==
    ASSUME DeskTypeOK, FilesKnown, NEW V \in SUBSET Visits
    PROVE  /\ IsFiniteSet(UNION {visit[v].files : v \in {w \in V : Editing(w)}})
           /\ Cardinality(UNION {visit[v].files : v \in {w \in V : Editing(w)}})
                 <= MaxAttachments * Cardinality(V)
  <1> DEFINE f == [x \in V \X (1..MaxAttachments) |->
                      [visit |-> visit[x[1]].own, place |-> x[2], admin |-> FALSE]]
             E == UNION {visit[v].files : v \in {w \in V : Editing(w)}}
             S == V \X (1..MaxAttachments)
             Z == {f[x] : x \in S}
  <1>1. E \subseteq Z
    <2> SUFFICES ASSUME NEW v \in V, Editing(v), NEW g \in visit[v].files PROVE g \in Z
      OBVIOUS
    <2>1. g \in Places(visit[v].own)
      BY DEF FilesKnown
    <2>2. PICK i \in 1..MaxAttachments : g = [visit |-> visit[v].own, place |-> i, admin |-> FALSE]
      BY <2>1 DEF Places
    <2>3. <<v, i>> \in S /\ f[<<v, i>>] = g
      BY <2>2
    <2> QED
      BY <2>3
  <1>2. IsFiniteSet(V) /\ Cardinality(V) \in Nat
    BY DeskAssumption, FS_Subset, FS_CardinalityType
  <1>3. IsFiniteSet(1..MaxAttachments) /\ Cardinality(1..MaxAttachments) = MaxAttachments
    BY DeskAssumption, FS_Interval
  <1>4. IsFiniteSet(S) /\ Cardinality(S) = Cardinality(V) * Cardinality(1..MaxAttachments)
    BY <1>2, <1>3, FS_Product
  <1> HIDE DEF f
  <1>5. IsFiniteSet(Z) /\ Cardinality(Z) <= Cardinality(S)
    <2> HIDE DEF S
    <2> QED
      BY <1>4, ImageBound
  <1> HIDE DEF Z
  <1>6. IsFiniteSet(E) /\ Cardinality(E) <= Cardinality(Z)
    BY <1>1, <1>5, FS_Subset
  <1>7. /\ Cardinality(Z) \in Nat /\ Cardinality(E) \in Nat /\ MaxAttachments \in Nat
        /\ Cardinality(S) \in Nat
    BY <1>4, <1>5, <1>6, FS_CardinalityType, DeskAssumption
  <1> HIDE DEF S, E
  <1>8. Cardinality(E) <= MaxAttachments * Cardinality(V)
    BY <1>2, <1>3, <1>4, <1>5, <1>6, <1>7
  <1> QED
    BY <1>6, <1>8 DEF E

\* Every statement keeps the attachments, there and to come, within the limit and
\* the other edits.
LEMMA EditRoomStep ==
    ASSUME DeskTypeOK, FilesKnown, EditRoom, OnRecord, [DeskNext]_deskVars
    PROVE  EditRoom'
  <1> DEFINE U == CustomerFiles \cup EditFiles
  <1>0. /\ IsFiniteSet(files) /\ IsFiniteSet(CustomerFiles) /\ IsFiniteSet(EditFiles)
        /\ IsFiniteSet(U)
    <2>1. IsFiniteSet(files) /\ CustomerFiles \subseteq files
      BY DEF FilesKnown, CustomerFiles
    <2>2. IsFiniteSet(CustomerFiles)
      BY <2>1, FS_Subset
    <2>3. IsFiniteSet(EditFiles)
      BY EditFilesBound DEF EditFiles
    <2> QED
      BY <2>1, <2>2, <2>3, UnionBound
  <1>a. ASSUME U' \subseteq U PROVE EditRoom'
    <2>1. IsFiniteSet(U') /\ Cardinality(U') <= Cardinality(U)
      BY <1>0, <1>a, FS_Subset
    <2>2. Cardinality(U) <= MaxAttachments * Cardinality(Visits)
      BY DEF EditRoom
    <2>3. Cardinality(U') \in Nat /\ Cardinality(U) \in Nat /\ Cardinality(Visits) \in Nat
      BY <1>0, <2>1, FS_CardinalityType, DeskAssumption
    <2>4. EditRoom' <=> Cardinality(U') <= MaxAttachments * Cardinality(Visits)
      BY DEF EditRoom
    <2> HIDE DEF U
    <2>5. MaxAttachments * Cardinality(Visits) \in Nat
      BY <2>3, DeskAssumption
    <2> QED
      BY <2>1, <2>2, <2>3, <2>4, <2>5
  \* A request goes on, and the attachments it adds are those it had.
  <1>b. ASSUME NEW v \in Visits, NEW next, VisitSteps(v, next), Editing(v)' => Editing(v),
               CustomerFiles' \subseteq
                  CustomerFiles \cup (IF Editing(v) THEN visit[v].files ELSE {})
        PROVE  EditRoom'
    <2>1. EditFiles' \subseteq EditFiles
      BY <1>b DEF EditFiles, Editing, VisitSteps, OnlyVisit
    <2>2. Editing(v) => visit[v].files \subseteq EditFiles
      BY DEF EditFiles
    <2> QED
      BY <1>a, <1>b, <2>1, <2>2
  <1>1. ASSUME NEW v \in Visits,
               EditInquiry(v) \/ DeleteInquiry(v) \/ DeleteAttachment(v) \/ DoReply(v)
        PROVE  EditRoom'
    <2>1. /\ OnlyVisit(v) /\ visit[v] = Outside /\ UNCHANGED files
          /\ IsFiniteSet(visit'[v].files)
          /\ ~visit'[v].admin => visit'[v].pc \in {"selecting", "deleting", "detaching"}
          /\ visit'[v].pc = "selecting" =>
                Cardinality(visit'[v].files) + Cardinality(files) <= MaxAttachments
      BY <1>0, <1>1, Arrival
    <2>2. CustomerFiles' = CustomerFiles
      BY <2>1 DEF CustomerFiles
    <2>3. CASE ~Editing(v)'
      <3>1. EditFiles' \subseteq EditFiles
        BY <2>1, <2>3 DEF EditFiles, OnlyVisit, Editing
      <3> QED
        BY <1>a, <2>2, <3>1
    <2>4. CASE Editing(v)'
      <3> DEFINE V == Visits \ {v}
                 E == UNION {visit[w].files : w \in {w \in V : Editing(w)}}
                 N == visit'[v].files
                 K == CustomerFiles \cup N
      <3>1. EditFiles' \subseteq E \cup N
        BY <2>1 DEF EditFiles, OnlyVisit, Editing
      <3>2. IsFiniteSet(E) /\ Cardinality(E) <= MaxAttachments * Cardinality(V)
        BY EditFilesBound
      <3>3. IsFiniteSet(K) /\ Cardinality(K) <= MaxAttachments
        <4>1. Cardinality(N) + Cardinality(files) <= MaxAttachments
          BY <2>1, <2>4 DEF Editing
        <4>2. Cardinality(CustomerFiles) <= Cardinality(files)
          BY <1>0, FS_Subset DEF CustomerFiles
        <4> HIDE DEF N
        <4>3. IsFiniteSet(N)
          BY <2>1 DEF N
        <4>4. IsFiniteSet(K) /\ Cardinality(K) <= Cardinality(CustomerFiles) + Cardinality(N)
          BY <1>0, <4>3, UnionBound
        <4>5. /\ Cardinality(K) \in Nat /\ Cardinality(N) \in Nat
              /\ Cardinality(CustomerFiles) \in Nat /\ Cardinality(files) \in Nat
          BY <1>0, <4>3, <4>4, FS_CardinalityType
        <4> HIDE DEF K
        <4> QED
          BY <4>1, <4>2, <4>4, <4>5, DeskAssumption
      <3>4. U' \subseteq K \cup E
        BY <2>2, <3>1
      <3>5. Cardinality(V) = Cardinality(Visits) - 1 /\ Cardinality(V) \in Nat
            /\ Cardinality(Visits) \in Nat
        BY DeskAssumption, OneLess
      <3> HIDE DEF K, E, V, U
      <3>6. IsFiniteSet(K \cup E) /\ Cardinality(K \cup E) <= Cardinality(K) + Cardinality(E)
        BY <3>2, <3>3, UnionBound
      <3>7. IsFiniteSet(U') /\ Cardinality(U') <= Cardinality(K \cup E)
        BY <3>4, <3>6, FS_Subset
      <3>8. /\ Cardinality(U') \in Nat /\ Cardinality(K \cup E) \in Nat
            /\ Cardinality(K) \in Nat /\ Cardinality(E) \in Nat
        BY <3>2, <3>3, <3>6, <3>7, FS_CardinalityType
      <3>9. MaxAttachments + MaxAttachments * (Cardinality(Visits) - 1)
               = MaxAttachments * Cardinality(Visits)
        BY <3>5, DeskAssumption
      <3>10. Cardinality(U') <= MaxAttachments * Cardinality(Visits)
        <4>1. MaxAttachments * Cardinality(V) \in Nat /\ MaxAttachments \in Nat
          BY <3>5, DeskAssumption
        <4>2. Cardinality(U') <= MaxAttachments + MaxAttachments * Cardinality(V)
          BY <3>2, <3>3, <3>6, <3>7, <3>8, <4>1
        <4> QED
          BY <3>5, <3>9, <4>2
      <3> QED
        BY <3>10 DEF EditRoom, U
    <2> QED
      BY <2>3, <2>4
  <1>2. ASSUME NEW v \in Visits, SaveAttachments(v) PROVE EditRoom'
    <2>1. /\ VisitSteps(v, {"logging", "none"}) /\ visit[v].pc = "attaching"
          /\ files' = files \/ files' = files \cup visit[v].files
      BY <1>2, VisitShape DEF SaveAttachments
    <2>2. ~Editing(v)'
      BY <2>1 DEF VisitSteps, Editing
    <2>3. visit[v].admin => \A f \in visit[v].files : f.admin
      BY <2>1 DEF FilesKnown, VisitSteps
    <2>4. ~visit[v].admin => Editing(v)
      BY <2>1 DEF Editing, VisitSteps
    <2>5. CustomerFiles' \subseteq
             CustomerFiles \cup (IF Editing(v) THEN visit[v].files ELSE {})
      BY <2>1, <2>3, <2>4 DEF CustomerFiles, Editing
    <2> QED
      BY <1>b, <2>1, <2>2, <2>5
  <1>3. ASSUME NEW v \in Visits,
               \/ SaveHistory(v) \/ SelectInquiry(v) \/ SaveInquiry(v)
               \/ RemoveInquiry(v) \/ RemoveAttachment(v)
        PROVE  EditRoom'
    <2>1. VisitSteps(v, {"selecting", "none", "updating", "attaching"})
          /\ (Editing(v)' => Editing(v))
      BY <1>3, VisitShape DEF VisitSteps, Editing, OnRecord
    <2>2. files' \subseteq files
      BY <1>3 DEF SaveHistory, SelectInquiry, SaveInquiry, RemoveInquiry, RemoveAttachment
    <2> QED
      BY <1>b, <2>1, <2>2 DEF CustomerFiles
  <1>4. ASSUME Outage PROVE EditRoom'
    BY <1>a, <1>4 DEF Outage, CustomerFiles, EditFiles, Editing
  <1>5. ASSUME UNCHANGED deskVars PROVE EditRoom'
    BY <1>a, <1>5 DEF deskVars, CustomerFiles, EditFiles, Editing
  <1> QED
    BY <1>1, <1>2, <1>3, <1>4, <1>5 DEF DeskNext

\* A request that ends is no longer there.
LEMMA VisitOut ==
    ASSUME NEW v \in Visits, OnlyVisit(v), visit'[v].pc = "none"
    PROVE  visit'[v] = Outside
  <1>1. visit'[v] \in Visit \cup {Outside}
    BY DEF OnlyVisit
  <1>2. \A x \in Visit : x.pc # "none"
    BY DEF Visit
  <1> QED
    BY <1>1, <1>2

\* What a save makes of the status and of the reply.
LEMMA SaveWrites ==
    ASSUME DeskTypeOK, NEW v \in Visits, SaveInquiry(v)
    PROVE  \/ /\ inquiry.present /\ visit[v].base.present /\ inquiry'.present
              /\ inquiry'.status = (IF visit[v].row.status # visit[v].base.status
                                    THEN visit[v].row.status ELSE inquiry.status)
              /\ inquiry'.reply = (IF visit[v].row.reply # visit[v].base.reply
                                   THEN visit[v].row.reply ELSE inquiry.reply)
              /\ again' = again
           \/ ~inquiry.present /\ ~visit[v].base.present /\ again'
           \/ inquiry.present # visit[v].base.present /\ inquiry' = inquiry /\ again' = again
  <1>1. inquiry \in Inquiry
    BY DEF DeskTypeOK
  <1>2. /\ Written(v).present = inquiry.present
        /\ Written(v).status = (IF visit[v].row.status # visit[v].base.status
                                THEN visit[v].row.status ELSE inquiry.status)
        /\ Written(v).reply = (IF visit[v].row.reply # visit[v].base.reply
                               THEN visit[v].row.reply ELSE inquiry.reply)
    BY <1>1 DEF Written, Inquiry
  <1> HIDE DEF Written
  <1> QED
    BY <1>2 DEF SaveInquiry

\* Every statement keeps an answered inquiry with its admin in the history.
LEMMA OnRecordStep ==
    ASSUME DeskTypeOK, FilesKnown, OnRecord, [DeskNext]_deskVars
    PROVE  OnRecord'
  <1> DEFINE Known(v) == visit[v] # Outside =>
                            /\ ~visit[v].admin => visit[v].row.status = "waiting"
                            /\ visit[v].pc = "logging" => visit[v].admin
             Owed(v)  == /\ visit[v] # Outside /\ visit[v].admin
                         /\ visit[v].pc \in {"selecting", "updating"}
  <1>a. history \in Nat
    BY DEF DeskTypeOK
  <1>b. OnRecord' <=>
          /\ \A v \in Visits : Known(v)'
          /\ ~again' /\ inquiry'.present =>
                /\ inquiry'.status # "waiting" => history' > 0
                /\ \A v \in Visits : Owed(v)' => history' > 0
    BY DEF OnRecord
  <1>c. /\ \A v \in Visits : Known(v)
        /\ ~again /\ inquiry.present =>
                /\ inquiry.status # "waiting" => history > 0
                /\ \A v \in Visits : Owed(v) => history > 0
    BY DEF OnRecord
  <1>d. ASSUME NEW v \in Visits, NEW next, VisitSteps(v, next), ~("logging" \in next /\ ~visit[v].admin)
        PROVE  /\ \A w \in Visits : Known(w)'
               /\ \A w \in Visits \ {v} : Owed(w)' => Owed(w)
    BY <1>c, <1>d DEF VisitSteps, OnlyVisit
  <1>1. ASSUME NEW v \in Visits,
               EditInquiry(v) \/ DeleteInquiry(v) \/ DeleteAttachment(v) \/ DoReply(v)
        PROVE  OnRecord'
    <2>1. /\ OnlyVisit(v) /\ visit[v] = Outside /\ UNCHANGED <<inquiry, history, again>>
          /\ visit'[v].admin => visit'[v].pc \in {"attaching", "logging"}
          /\ ~visit'[v].admin => /\ visit'[v].pc \in {"selecting", "deleting", "detaching"}
                                 /\ inquiry.status = "waiting" /\ visit'[v].row = inquiry
      BY <1>1, Arrival DEF FilesKnown
    <2>2. Known(v)' /\ ~Owed(v)'
      BY <2>1
    <2>3. \A w \in Visits \ {v} : Known(w)' /\ (Owed(w)' => Owed(w))
      BY <1>c, <2>1 DEF OnlyVisit
    <2> QED
      BY <1>b, <1>c, <2>1, <2>2, <2>3
  <1>2. ASSUME NEW v \in Visits, SaveAttachments(v) PROVE OnRecord'
    <2>1. /\ VisitSteps(v, {"logging", "none"}) /\ UNCHANGED <<inquiry, history, again>>
          /\ visit'[v].pc = "logging" => visit[v].admin
      BY <1>2, VisitShape DEF SaveAttachments
    <2>2. \A w \in Visits : Known(w)' /\ (Owed(w)' => Owed(w))
      BY <1>c, <2>1 DEF VisitSteps, OnlyVisit
    <2> QED
      BY <1>b, <1>c, <2>1, <2>2
  <1>3. ASSUME NEW v \in Visits, SaveHistory(v) PROVE OnRecord'
    <2>1. /\ VisitSteps(v, {"selecting", "none"}) /\ UNCHANGED <<inquiry, again>>
          /\ inquiry.present => history' = history + 1
      BY <1>3, VisitShape DEF SaveHistory
    <2>2. \A w \in Visits : Known(w)'
      BY <1>d, <2>1
    <2>3. inquiry.present => history' > 0
      BY <1>a, <2>1
    <2> QED
      BY <1>b, <2>1, <2>2, <2>3
  <1>4. ASSUME NEW v \in Visits, SelectInquiry(v) PROVE OnRecord'
    <2>1. /\ VisitSteps(v, {"updating"}) /\ visit[v].pc = "selecting"
          /\ UNCHANGED <<inquiry, history, again>>
      BY <1>4, VisitShape DEF SelectInquiry
    <2>2. \A w \in Visits : Known(w)' /\ (Owed(w)' => Owed(w))
      BY <1>c, <2>1 DEF VisitSteps, OnlyVisit
    <2> QED
      BY <1>b, <1>c, <2>1, <2>2
  <1>5. ASSUME NEW v \in Visits, SaveInquiry(v) PROVE OnRecord'
    <2>1. /\ VisitSteps(v, {"attaching", "none"}) /\ visit[v].pc = "updating"
          /\ history' = history
      BY <1>5, VisitShape DEF SaveInquiry
    <2>2. \A w \in Visits : Known(w)' /\ (Owed(w)' => Owed(w))
      BY <1>c, <2>1 DEF VisitSteps, OnlyVisit
    <2>3. ASSUME ~again', inquiry'.present
          PROVE  ~again /\ inquiry.present
      BY <1>5, <2>3, SaveWrites
    <2>4. ASSUME ~again', inquiry'.present, inquiry'.status # "waiting"
          PROVE  history > 0
      <3>1. ~again /\ inquiry.present
        BY <2>3, <2>4
      <3>2. CASE inquiry.status # "waiting"
        BY <1>c, <3>1, <3>2
      <3>3. CASE inquiry.status = "waiting"
        <4>1. visit[v].row.status # "waiting"
          BY <1>5, <2>4, <3>1, <3>3, SaveWrites
        <4>2. visit[v].admin
          BY <1>c, <2>1, <4>1 DEF VisitSteps
        <4>3. Owed(v)
          BY <2>1, <4>2 DEF VisitSteps
        <4> QED
          BY <1>c, <3>1, <4>3
      <3> QED
        BY <3>2, <3>3
    <2> QED
      BY <1>b, <1>c, <2>1, <2>2, <2>3, <2>4
  <1>6. ASSUME NEW v \in Visits, RemoveInquiry(v) PROVE OnRecord'
    <2>1. VisitSteps(v, {"none"}) /\ ~inquiry'.present
      BY <1>6, VisitShape DEF RemoveInquiry, Missing
    <2> QED
      BY <1>b, <1>d, <2>1
  <1>7. ASSUME NEW v \in Visits, RemoveAttachment(v) PROVE OnRecord'
    <2>1. VisitSteps(v, {"none"}) /\ UNCHANGED <<inquiry, history, again>>
      BY <1>7, VisitShape DEF RemoveAttachment
    <2>2. \A w \in Visits : Known(w)' /\ (Owed(w)' => Owed(w))
      BY <1>c, <2>1 DEF VisitSteps, OnlyVisit
    <2> QED
      BY <1>b, <1>c, <2>1, <2>2
  <1>8. ASSUME Outage PROVE OnRecord'
    BY <1>8, <1>c DEF Outage, OnRecord
  <1>9. ASSUME UNCHANGED deskVars PROVE OnRecord'
    BY <1>9 DEF deskVars, OnRecord
  <1> QED
    BY <1>1, <1>2, <1>3, <1>4, <1>5, <1>6, <1>7, <1>8, <1>9 DEF DeskNext

\* One request after the other, the inquiry is closed once and for all.
LEMMA CalmDeskStep ==
    ASSUME DeskTypeOK, FilesKnown, OnRecord, CalmDesk, [DeskNext]_deskVars
    PROVE  CalmDesk'
  <1> DEFINE Alone(v) == visit[v] # Outside =>
                            /\ ~closed /\ inquiry.present
                            /\ ReplyFits(visit[v].row) /\ visit[v].row.present
                            /\ visit[v].pc = "updating" => visit[v].base = inquiry
             Good == /\ ReplyFits(inquiry) /\ (closed <=> inquiry.status \in Final)
                     /\ closed => inquiry.present
             One == \A v, w \in Visits : visit[v] # Outside /\ visit[w] # Outside => v = w
  <1> SUFFICES ASSUME ~met' PROVE One' /\ Good' /\ \A v \in Visits : Alone(v)'
    BY DEF CalmDesk, ReplyFits
  <1>0. /\ inquiry \in Inquiry /\ visits \in Nat /\ closed \in BOOLEAN
        /\ \A v \in Visits : visit[v].pc # "none" <=> visit[v] # Outside
    BY VisitTyped DEF DeskTypeOK
  <1>a. ~met => One /\ Good /\ \A v \in Visits : Alone(v)
    BY DEF CalmDesk
  \* The one that runs goes on.
  <1>b. ASSUME NEW v \in Visits, NEW next, VisitSteps(v, next), met' = met, Alone(v)', Good'
        PROVE  One' /\ Good' /\ \A w \in Visits : Alone(w)'
    <2>1. \A w \in Visits \ {v} : visit'[w] = Outside
      BY <1>a, <1>b DEF VisitSteps, OnlyVisit
    <2> QED
      BY <1>b, <2>1
  <1>1. ASSUME NEW v \in Visits,
               EditInquiry(v) \/ DeleteInquiry(v) \/ DeleteAttachment(v) \/ DoReply(v)
        PROVE  One' /\ Good' /\ \A w \in Visits : Alone(w)'
    <2>1. /\ OnlyVisit(v) /\ UNCHANGED <<inquiry, closed>> /\ inquiry.present
          /\ ~met /\ \A w \in Visits : visit[w] = Outside
          /\ visit'[v].admin =>
                /\ inquiry.status \notin Final /\ visit'[v].row.present = inquiry.present
                /\ visit'[v].pc \in {"attaching", "logging"}
                /\ visit'[v].row.reply = (IF visit'[v].row.status = "completed" THEN visits + 1
                                                                    ELSE inquiry.reply)
          /\ ~visit'[v].admin =>
                /\ visit'[v].pc \in {"selecting", "deleting", "detaching"}
                /\ inquiry.status = "waiting" /\ visit'[v].row = inquiry
      BY <1>1, Arrival DEF FilesKnown
    <2>2. Good /\ Good'
      BY <1>a, <2>1 DEF ReplyFits
    <2>3. \A w \in Visits \ {v} : visit'[w] = Outside
      BY <2>1 DEF OnlyVisit
    <2>4. "waiting" \notin Final /\ (inquiry.status \notin Final => inquiry.status # "completed")
      BY DEF Final
    <2>5. ReplyFits(visit'[v].row) /\ visit'[v].row.present
      <3>1. CASE ~visit'[v].admin
        BY <2>1, <2>2, <3>1
      <3>2. CASE visit'[v].admin
        <4>1. inquiry.reply = 0
          BY <1>0, <2>1, <2>2, <2>4, <3>2 DEF ReplyFits, Inquiry
        <4>2. visits + 1 # 0
          BY <1>0
        <4>3. visit'[v].row.present /\ visit'[v].row.reply =
                 (IF visit'[v].row.status = "completed" THEN visits + 1 ELSE inquiry.reply)
          BY <2>1, <3>2, Zenon
        <4> QED
          BY <4>1, <4>2, <4>3 DEF ReplyFits
      <3> QED
        BY <3>1, <3>2
    <2>6. Alone(v)'
      BY <2>1, <2>2, <2>4, <2>5
    <2> QED
      BY <2>2, <2>3, <2>6
  <1>2. ASSUME NEW v \in Visits, SaveAttachments(v) \/ SaveHistory(v) \/ RemoveAttachment(v)
        PROVE  One' /\ Good' /\ \A w \in Visits : Alone(w)'
    <2>1. /\ VisitSteps(v, {"logging", "selecting", "none"}) /\ UNCHANGED <<inquiry, closed, met>>
      BY <1>2, VisitShape DEF SaveAttachments, SaveHistory, RemoveAttachment, SameDesk, VisitSteps
    <2>2. Good' /\ Alone(v)'
      BY <1>a, <2>1 DEF ReplyFits, VisitSteps
    <2> QED
      BY <1>b, <2>1, <2>2
  <1>3. ASSUME NEW v \in Visits, SelectInquiry(v)
        PROVE  One' /\ Good' /\ \A w \in Visits : Alone(w)'
    <2>1. /\ VisitSteps(v, {"updating"}) /\ UNCHANGED <<inquiry, closed, met>>
          /\ visit'[v].base = inquiry
      BY <1>3, VisitShape DEF SelectInquiry, SameDesk
    <2>2. Good' /\ Alone(v)'
      BY <1>a, <2>1 DEF ReplyFits, VisitSteps
    <2> QED
      BY <1>b, <2>1, <2>2
  <1>4. ASSUME NEW v \in Visits, SaveInquiry(v)
        PROVE  One' /\ Good' /\ \A w \in Visits : Alone(w)'
    <2>1. /\ VisitSteps(v, {"attaching", "none"}) /\ visit[v].pc = "updating"
          /\ visit[v].admin => visit'[v].pc = "none"
          /\ closed' = (closed \/ inquiry'.status \in Final) /\ met' = met
      BY <1>4, VisitShape DEF SaveInquiry, SameDesk, Closes
    <2>2. /\ Good /\ ~closed /\ inquiry.present
          /\ ReplyFits(visit[v].row) /\ visit[v].row.present /\ visit[v].base = inquiry
      BY <1>a, <2>1 DEF VisitSteps
    <2>3. /\ inquiry'.present /\ inquiry'.status = visit[v].row.status
          /\ inquiry'.reply = visit[v].row.reply
      BY <1>4, <2>2, SaveWrites
    <2>4. Good'
      BY <2>1, <2>2, <2>3 DEF ReplyFits
    <2>5. ASSUME visit'[v] # Outside PROVE ~closed'
      <3>1. ~visit[v].admin
        BY <2>1, <2>5, VisitOut DEF VisitSteps
      <3>2. visit[v].row.status = "waiting"
        BY <2>1, <3>1 DEF OnRecord, VisitSteps
      <3>3. "waiting" \notin Final
        BY DEF Final
      <3> QED
        BY <2>1, <2>2, <2>3, <3>2, <3>3
    <2>6. Alone(v)'
      BY <2>1, <2>2, <2>3, <2>5 DEF VisitSteps
    <2> QED
      BY <1>b, <2>1, <2>4, <2>6
  <1>5. ASSUME NEW v \in Visits, RemoveInquiry(v)
        PROVE  One' /\ Good' /\ \A w \in Visits : Alone(w)'
    <2>1. /\ VisitSteps(v, {"none"}) /\ inquiry' = Missing /\ closed' = closed /\ met' = met
      BY <1>5, VisitShape DEF RemoveInquiry, SameDesk
    <2>2. ~closed
      BY <1>a, <2>1 DEF VisitSteps
    <2>3. visit'[v] = Outside
      BY <2>1, VisitOut DEF VisitSteps
    <2>4. Good'
      <3>1. inquiry'.reply = 0 /\ inquiry'.status = "waiting"
        BY <2>1 DEF Missing
      <3>2. "waiting" \notin Final /\ "waiting" # "completed"
        BY DEF Final
      <3> QED
        BY <2>1, <2>2, <3>1, <3>2 DEF ReplyFits
    <2> QED
      BY <1>b, <2>1, <2>3, <2>4
  <1>6. ASSUME Outage PROVE One' /\ Good' /\ \A w \in Visits : Alone(w)'
    BY <1>a, <1>6 DEF Outage, ReplyFits
  <1>7. ASSUME UNCHANGED deskVars PROVE One' /\ Good' /\ \A w \in Visits : Alone(w)'
    BY <1>a, <1>7 DEF deskVars, ReplyFits
  <1> QED
    BY <1>1, <1>2, <1>3, <1>4, <1>5, <1>6, <1>7 DEF DeskNext

\* At the start there is no inquiry.
LEMMA DeskStart == DeskInit => DeskInv
  <1> SUFFICES ASSUME DeskInit PROVE DeskInv
    OBVIOUS
  <1>1. /\ visit \in [Visits -> Visit \cup {Outside}] /\ \A v \in Visits : visit[v] = Outside
        /\ inquiry.present /\ inquiry.status = "waiting" /\ inquiry.reply = 0
        /\ history = 0 /\ visits = 0 /\ closed = FALSE
    BY DEF DeskInit, Missing
  <1>2. inquiry \in Inquiry
    <2>1. 0 \in 0..MaxVisits
      BY DeskAssumption
    <2>2. "waiting" \in Statuses
      BY Zenon DEF Statuses
    <2> QED
      BY <2>1, <2>2 DEF DeskInit, Missing, Inquiry
  <1>3. PICK n \in 0..MaxAttachments :
           files = {[visit |-> 0, place |-> i, admin |-> FALSE] : i \in 1..n}
    BY DEF DeskInit
  <1>4. n \in Nat /\ 1..n \subseteq 1..MaxAttachments
    BY DeskAssumption
  <1>5. files \subseteq File
    <2>1. 0 \in 0..MaxVisits
      BY DeskAssumption
    <2>2. \A i \in 1..n : [visit |-> 0, place |-> i, admin |-> FALSE] \in File
      BY <1>4, <2>1 DEF File
    <2> QED
      BY <1>3, <2>2
  <1>6. IsFiniteSet(files) /\ Cardinality(files) <= n
    <2> DEFINE f == [i \in 1..n |-> [visit |-> 0, place |-> i, admin |-> FALSE]]
    <2>1. files = {f[i] : i \in 1..n}
      BY <1>3
    <2>2. IsFiniteSet(1..n) /\ Cardinality(1..n) = n
      BY <1>4, FS_Interval
    <2> HIDE DEF f
    <2> QED
      BY <2>1, <2>2, ImageBound
  <1>7. DeskTypeOK
    <2>1. 0 \in 0..MaxVisits /\ 0 \in 0..MaxOutages
      BY DeskAssumption
    <2> QED
      BY <1>1, <1>2, <1>5, <2>1 DEF DeskInit, DeskTypeOK
  <1>8. FilesKnown
    BY <1>1, <1>6 DEF FilesKnown, Editing
  <1>9. EditRoom
    <2>1. EditFiles = {} /\ CustomerFiles \subseteq files
      BY <1>1 DEF EditFiles, Editing, CustomerFiles
    <2>2. CustomerFiles \cup EditFiles \subseteq files
      BY <2>1
    <2>3. Cardinality(CustomerFiles \cup EditFiles) <= Cardinality(files)
      BY <1>6, <2>2, FS_Subset
    <2>4. IsFiniteSet(CustomerFiles \cup EditFiles)
      BY <1>6, <2>2, FS_Subset
    <2>5. Cardinality(CustomerFiles \cup EditFiles) \in Nat /\ Cardinality(files) \in Nat
          /\ Cardinality(Visits) \in Nat
      BY <1>6, <2>4, FS_CardinalityType, DeskAssumption
    <2>6. Cardinality(Visits) >= 1
      <3>1. PICK v : v \in Visits
        BY DeskAssumption
      <3> QED
        BY <3>1, DeskAssumption, OneLess
    <2>7. MaxAttachments <= MaxAttachments * Cardinality(Visits)
      BY <2>5, <2>6, DeskAssumption
    <2>8. MaxAttachments \in Nat /\ MaxAttachments * Cardinality(Visits) \in Nat
      BY <2>5, DeskAssumption
    <2> QED
      BY <1>4, <1>6, <2>3, <2>5, <2>7, <2>8 DEF EditRoom
  <1>10. HistoryRoom
    <2>1. {v \in Visits : Logging(v)} = {}
      BY <1>1 DEF Logging
    <2> QED
      BY <1>1, <2>1, FS_EmptySet DEF HistoryRoom
  <1>11. OnRecord
    BY <1>1 DEF OnRecord
  <1>12. CalmDesk
    <2>1. "waiting" \notin Final /\ "waiting" # "completed"
      BY DEF Final
    <2> QED
      BY <1>1, <2>1 DEF CalmDesk, ReplyFits
  <1> QED
    BY <1>7, <1>8, <1>9, <1>10, <1>11, <1>12 DEF DeskInv

\* However the user's edits, the admins' replies and crashes interleave, an inquiry
\* that no longer waits has an admin on record, edits together exceed the limit on
\* attachments by no more than each other, and one at a time a closed inquiry stays.
THEOREM DeskKept == DeskSpec => []DeskSound
<1>1. DeskInv /\ [DeskNext]_deskVars => DeskInv'
  BY DeskStepTyped, FilesKnownStep, EditRoomStep, HistoryRoomStep, OnRecordStep, CalmDeskStep
     DEF DeskInv
<1>2. DeskInv => DeskSound
  <2> SUFFICES ASSUME DeskInv PROVE DeskSound
    OBVIOUS
  <2>1. AnswerStays
    BY DEF DeskInv, CalmDesk, AnswerStays, ReplyFits
  <2>2. AnsweredOnRecord
    BY DEF DeskInv, OnRecord, AnsweredOnRecord
  <2>3. FilesBounded
    <3> DEFINE U == CustomerFiles \cup EditFiles
    <3>1. IsFiniteSet(CustomerFiles)
      BY FS_Subset DEF CustomerFiles, DeskInv, FilesKnown
    <3>2. IsFiniteSet(EditFiles)
      BY EditFilesBound DEF EditFiles, DeskInv
    <3>3. IsFiniteSet(U)
      BY <3>1, <3>2, UnionBound
    <3>4. Cardinality(CustomerFiles) <= Cardinality(U)
      BY <3>3, FS_Subset
    <3>5. Cardinality(U) <= MaxAttachments * Cardinality(Visits)
      BY DEF DeskInv, EditRoom
    <3>6. /\ Cardinality(CustomerFiles) \in Nat /\ Cardinality(U) \in Nat
          /\ Cardinality(Visits) \in Nat
      BY <3>1, <3>3, FS_CardinalityType, DeskAssumption
    <3>7. MaxAttachments * Cardinality(Visits) \in Nat
      BY <3>6, DeskAssumption
    <3> HIDE DEF U
    <3>8. Cardinality(CustomerFiles) <= MaxAttachments * Cardinality(Visits)
      BY <3>4, <3>5, <3>6, <3>7
    <3> QED
      BY <3>8 DEF FilesBounded, CustomerFiles
  <2> QED
    BY <2>1, <2>2, <2>3 DEF DeskInv, DeskSound
<1> QED
  BY <1>1, <1>2, DeskStart, PTL DEF DeskSpec

-----------------------------------------------------------------------------
(* Items and wish lists                                                    *)

\* A request that waits has checked its input, and its item is there.
Checked ==
    \A c \in Curators : curator[c] # Nobody =>
        /\ Fits(curator[c].payload)
        /\ curator[c].item # 0 => curator[c].item \in Ids
        /\ curator[c].pc = "selected" => curator[c].item # 0

\* Of one name and color: the items, the requests, the items these change, and
\* the requests for new ones.
Like1(p)    == {k \in Ids \ raced : Alike(p, avatars[k])}
Asked(p)    == {c \in Curators : curator[c] # Nobody /\ Alike(p, curator[c].payload)}
Targets(p)  == {curator[c].item : c \in {d \in Asked(p) : curator[d].item # 0}}
NewOnes(p)  == {c \in Asked(p) : curator[c].item = 0}

\* Those there are and those that may come are not more than the requests.
CopyRoom ==
    \A p \in Payload :
        Cardinality(Like1(p) \cup Targets(p)) + Cardinality(NewOnes(p)) <= Cardinality(Curators)

CatalogInv == CatalogTypeOK /\ Checked /\ RowsFit /\ CopyRoom

OnlyCurator(c) ==
    /\ curator' \in [Curators -> Curating \cup {Nobody}]
    /\ \A d \in Curators \ {c} : curator'[d] = curator[d]

\* A request on an item has the fields of one.
LEMMA CuratorTyped ==
    ASSUME CatalogTypeOK, NEW c \in Curators
    PROVE  /\ curator[c] = Nobody <=> curator[c].pc = "nobody"
           /\ curator[c] # Nobody =>
                /\ curator[c] \in Curating /\ curator[c].item \in 0..MaxAvatars
                /\ curator[c].payload \in Payload /\ curator[c].base \in Payload
                /\ curator[c].pc \in {"checked", "selected"}
  BY DEF CatalogTypeOK, Curating, Nobody

\* The items are finitely many.
LEMMA IdsFinite ==
    ASSUME CatalogTypeOK
    PROVE  \E n \in 0..MaxAvatars :
              Ids = 1..n /\ IsFiniteSet(Ids) /\ Cardinality(Ids) = n /\ n \in Nat
  <1>1. PICK n \in 0..MaxAvatars : Ids = 1..n
    BY DEF CatalogTypeOK
  <1>2. n \in Nat
    BY CatalogAssumption
  <1>3. IsFiniteSet(1..n) /\ Cardinality(1..n) = n
    BY <1>2, FS_Interval
  <1> QED
    BY <1>1, <1>2, <1>3

\* What a request is when checkAvatarItem has let it pass.
LEMMA CheckShape ==
    ASSUME CatalogTypeOK, NEW c \in Curators, NEW i \in 0..MaxAvatars, NEW p \in Payload,
           CheckAvatarInput(c, i, p)
    PROVE  /\ OnlyCurator(c) /\ curator[c] = Nobody /\ curator'[c] # Nobody
           /\ curator'[c].pc = "checked" /\ curator'[c].item = i /\ curator'[c].payload = p
           /\ i \in Ids \cup {0} /\ Fits(p) /\ ~Taken(i, p)
           /\ edits' \in 0..MaxEdits /\ UNCHANGED <<avatars, raced, wishes, wishing>>
  <1> DEFINE x == [pc |-> "checked", item |-> i, payload |-> p, base |-> p]
  <1>1. edits + 1 \in 0..MaxEdits
    BY CatalogAssumption DEF CatalogTypeOK, CheckAvatarInput
  <1>2. x \in Curating /\ x.pc = "checked" /\ x.item = i /\ x.payload = p
    BY DEF Curating
  <1>3. curator' = [curator EXCEPT ![c] = x]
    BY DEF CheckAvatarInput
  <1> HIDE DEF x
  <1>4. OnlyCurator(c) /\ curator'[c] = x
    BY <1>2, <1>3 DEF OnlyCurator, CatalogTypeOK
  <1>5. x # Nobody
    BY <1>2 DEF Nobody
  <1>6. /\ curator[c] = Nobody /\ edits' = edits + 1 /\ i \in Ids \cup {0} /\ Fits(p)
        /\ ~Taken(i, p) /\ UNCHANGED <<avatars, raced, wishes, wishing>>
    BY DEF CheckAvatarInput
  <1> QED
    BY <1>1, <1>2, <1>4, <1>5, <1>6

\* What the SELECT of the save makes of a request.
LEMMA SelectShape ==
    ASSUME CatalogTypeOK, Checked, NEW c \in Curators, SelectAvatar(c)
    PROVE  /\ OnlyCurator(c) /\ curator[c] # Nobody /\ curator'[c] # Nobody
           /\ curator'[c].pc = "selected" /\ curator'[c].item = curator[c].item
           /\ curator'[c].payload = curator[c].payload /\ curator[c].item # 0
           /\ UNCHANGED <<avatars, raced, wishes, wishing, edits>>
  <1> DEFINE x == [curator[c] EXCEPT !.pc = "selected", !.base = avatars[curator[c].item]]
  <1>1. /\ curator[c] # Nobody /\ curator[c] \in Curating /\ curator[c].item # 0
        /\ curator[c].item \in Ids
    BY CuratorTyped DEF SelectAvatar, Nobody, Checked
  <1>2. avatars[curator[c].item] \in Payload
    BY <1>1 DEF CatalogTypeOK
  <1>3. /\ x \in Curating /\ x.pc = "selected" /\ x.item = curator[c].item
        /\ x.payload = curator[c].payload
    BY <1>1, <1>2 DEF Curating
  <1>4. curator' = [curator EXCEPT ![c] = x]
    BY DEF SelectAvatar
  <1> HIDE DEF x
  <1>5. OnlyCurator(c) /\ curator'[c] = x
    BY <1>3, <1>4 DEF OnlyCurator, CatalogTypeOK
  <1>6. x # Nobody
    BY <1>3 DEF Nobody
  <1> QED
    BY <1>1, <1>3, <1>5, <1>6 DEF SelectAvatar

\* What the insert of an item leaves as it was.
LEMMA CreateShape ==
    ASSUME CatalogTypeOK, NEW c \in Curators, CreateAvatar(c)
    PROVE  /\ OnlyCurator(c) /\ curator[c] # Nobody /\ curator'[c] = Nobody
           /\ curator[c].item = 0 /\ UNCHANGED <<raced, wishes, wishing, edits>>
           /\ \E n \in Nat :
                /\ n < MaxAvatars /\ Ids = 1..n /\ Ids' = 1..(n + 1) /\ n + 1 \notin Ids
                /\ Ids' = Ids \cup {n + 1}
                /\ \A k \in Ids : avatars'[k] = avatars[k]
                /\ avatars'[n + 1] = curator[c].payload
  <1>1. PICK n \in 0..MaxAvatars : Ids = 1..n /\ Cardinality(Ids) = n /\ n \in Nat
    BY IdsFinite
  <1>2. /\ n < MaxAvatars
        /\ avatars' = [i \in Ids \cup {n + 1} |-> IF i \in Ids THEN avatars[i]
                                                  ELSE curator[c].payload]
        /\ curator' = [curator EXCEPT ![c] = Nobody]
        /\ curator[c].pc = "checked" /\ curator[c].item = 0
        /\ UNCHANGED <<raced, wishes, wishing, edits>>
    BY <1>1 DEF CreateAvatar
  <1>3. n + 1 \notin Ids /\ Ids \cup {n + 1} = 1..(n + 1)
    BY <1>1
  <1>4. Ids' = Ids \cup {n + 1}
    BY <1>2 DEF Ids
  <1>5. /\ \A k \in Ids : avatars'[k] = avatars[k]
        /\ avatars'[n + 1] = curator[c].payload
    BY <1>2, <1>3
  <1>6. OnlyCurator(c) /\ curator'[c] = Nobody /\ curator[c] # Nobody
    BY <1>2 DEF OnlyCurator, CatalogTypeOK, Nobody
  <1> QED
    BY <1>1, <1>2, <1>3, <1>4, <1>5, <1>6

\* An update over the row it had read writes the row it was asked for.
LEMMA UpdateShape ==
    ASSUME CatalogTypeOK, Checked, NEW c \in Curators, UpdateAvatarItem(c)
    PROVE  /\ OnlyCurator(c) /\ curator[c] # Nobody /\ curator'[c] = Nobody
           /\ curator[c].item \in Ids /\ curator[c].item # 0
           /\ Ids' = Ids
           /\ \A k \in Ids \ {curator[c].item} : avatars'[k] = avatars[k]
           /\ avatars'[curator[c].item] \in Payload
           /\ curator[c].item \in raced' \/ avatars'[curator[c].item] = curator[c].payload
           /\ raced \subseteq raced' /\ raced' \subseteq raced \cup {curator[c].item}
           /\ UNCHANGED <<wishes, wishing, edits>>
  <1>1. PICK i \in Ids : i = curator[c].item
    BY CuratorTyped DEF UpdateAvatarItem, Checked, Nobody
  <1>2. /\ curator[c] # Nobody /\ i # 0
        /\ curator[c].payload \in Payload /\ curator[c].base \in Payload
        /\ avatars[i] \in Payload
    BY <1>1, CuratorTyped DEF UpdateAvatarItem, Checked, Nobody, CatalogTypeOK
  <1>3. PICK w : w = Save(curator[c], avatars[i])
    OBVIOUS
  <1>4. /\ avatars' = [avatars EXCEPT ![i] = w]
        /\ raced' = IF avatars[i] # curator[c].base THEN raced \cup {i} ELSE raced
        /\ curator' = [curator EXCEPT ![c] = Nobody]
        /\ UNCHANGED <<wishes, wishing, edits>>
    BY <1>1, <1>3 DEF UpdateAvatarItem
  <1>5. w \in Payload /\ (avatars[i] = curator[c].base => w = curator[c].payload)
    <2>1. PICK new \in Payload, base \in Payload, now \in Payload :
              new = curator[c].payload /\ base = curator[c].base /\ now = avatars[i]
      BY <1>2
    <2>2. w = [column \in DOMAIN now |->
                 IF new[column] = base[column] THEN now[column] ELSE new[column]]
      BY <1>3, <2>1 DEF Save
    <2>3. DOMAIN now = {"gender", "category", "name", "color", "active"}
      BY DEF Payload
    <2>4. w = [gender |-> w.gender, category |-> w.category, name |-> w.name,
               color |-> w.color, active |-> w.active]
      BY <2>2, <2>3
    <2>5. /\ w.gender \in {now.gender, new.gender}
          /\ w.category \in {now.category, new.category}
          /\ w.name \in {now.name, new.name} /\ w.color \in {now.color, new.color}
          /\ w.active \in {now.active, new.active}
      BY <2>2, <2>3
    <2>6. w \in Payload
      BY <2>4, <2>5 DEF Payload
    <2>7. ASSUME now = base PROVE w = new
      <3>1. /\ w.gender = new.gender /\ w.category = new.category /\ w.name = new.name
            /\ w.color = new.color /\ w.active = new.active
        BY <2>2, <2>3, <2>7
      <3> QED
        BY <2>6, <3>1 DEF Payload
    <2> QED
      BY <2>1, <2>6, <2>7
  <1>6. /\ Ids' = Ids /\ avatars'[i] = w
        /\ \A k \in Ids \ {i} : avatars'[k] = avatars[k]
    BY <1>4 DEF Ids
  <1>7. OnlyCurator(c) /\ curator'[c] = Nobody
    BY <1>4 DEF OnlyCurator, CatalogTypeOK
  <1> QED
    BY <1>1, <1>2, <1>4, <1>5, <1>6, <1>7

\* The users' steps.
Wishing ==
    \/ \E u \in Wishers, i \in Active : FindWish(u, i)
    \/ \E w \in wishing : InsertWish(w)
    \/ \E w \in wishes : DeleteWishes({w})
    \/ \E u \in Wishers : DeleteWishes(WishesOf(u))

\* Every step is one of those.
LEMMA CatalogSteps ==
    CatalogNext <=> \/ \E c \in Curators :
                         \/ \E i \in 0..MaxAvatars, p \in Payload : CheckAvatarInput(c, i, p)
                         \/ CreateAvatar(c) \/ SelectAvatar(c) \/ UpdateAvatarItem(c)
                    \/ Wishing
  BY DEF CatalogNext, Wishing

\* What adding to and removing from a wish list changes.
LEMMA WishShape ==
    ASSUME CatalogTypeOK, Wishing
    PROVE  /\ UNCHANGED <<avatars, raced, curator>> /\ edits' \in 0..MaxEdits
           /\ wishes' \subseteq Wishers \X Ids /\ wishing' \subseteq Wishers \X Ids
  <1>0. Active \subseteq Ids /\ wishes \subseteq Wishers \X Ids /\ wishing \subseteq Wishers \X Ids
    BY DEF Active, CatalogTypeOK
  <1>a. ASSUME edits < MaxEdits, edits' = edits + 1 PROVE edits' \in 0..MaxEdits
    BY <1>a, CatalogAssumption DEF CatalogTypeOK
  <1>1. ASSUME NEW u \in Wishers, NEW i \in Active, FindWish(u, i)
        PROVE  /\ UNCHANGED <<avatars, raced, curator>> /\ edits' \in 0..MaxEdits
               /\ wishes' \subseteq Wishers \X Ids /\ wishing' \subseteq Wishers \X Ids
    BY <1>0, <1>1, <1>a DEF FindWish, Wish
  <1>2. ASSUME NEW w \in wishing, InsertWish(w)
        PROVE  /\ UNCHANGED <<avatars, raced, curator>> /\ edits' \in 0..MaxEdits
               /\ wishes' \subseteq Wishers \X Ids /\ wishing' \subseteq Wishers \X Ids
    BY <1>0, <1>2 DEF InsertWish, CatalogTypeOK
  <1>3. ASSUME NEW w, DeleteWishes(w)
        PROVE  /\ UNCHANGED <<avatars, raced, curator>> /\ edits' \in 0..MaxEdits
               /\ wishes' \subseteq Wishers \X Ids /\ wishing' \subseteq Wishers \X Ids
    BY <1>0, <1>3, <1>a DEF DeleteWishes, Wish
  <1> QED
    BY <1>1, <1>2, <1>3 DEF Wishing

\* Every statement keeps the types.
LEMMA CatalogStepTyped ==
    ASSUME CatalogTypeOK, Checked, [CatalogNext]_catalogVars
    PROVE  CatalogTypeOK' /\ Checked'
  <1>1. ASSUME NEW c \in Curators, NEW i \in 0..MaxAvatars, NEW p \in Payload,
               CheckAvatarInput(c, i, p)
        PROVE  CatalogTypeOK' /\ Checked'
    <2>1. /\ OnlyCurator(c) /\ curator'[c].pc = "checked" /\ curator'[c].item = i
          /\ curator'[c].payload = p /\ i \in Ids \cup {0} /\ Fits(p)
          /\ edits' \in 0..MaxEdits /\ UNCHANGED <<avatars, raced, wishes, wishing>>
      BY <1>1, CheckShape
    <2>2. CatalogTypeOK'
      BY <2>1 DEF CatalogTypeOK, OnlyCurator, Ids
    <2>3. Checked'
      BY <2>1 DEF Checked, OnlyCurator, Ids
    <2> QED
      BY <2>2, <2>3
  <1>2. ASSUME NEW c \in Curators, CreateAvatar(c) PROVE CatalogTypeOK' /\ Checked'
    <2>1. /\ OnlyCurator(c) /\ curator[c] # Nobody /\ curator'[c] = Nobody
          /\ UNCHANGED <<raced, wishes, wishing, edits>>
      BY <1>2, CreateShape
    <2>2. PICK n \in Nat :
                /\ n < MaxAvatars /\ Ids' = 1..(n + 1) /\ Ids' = Ids \cup {n + 1}
                /\ \A k \in Ids : avatars'[k] = avatars[k]
                /\ avatars'[n + 1] = curator[c].payload
      BY <1>2, CreateShape
    <2>3. n + 1 \in 0..MaxAvatars
      BY <2>2, CatalogAssumption
    <2>4. \A k \in Ids' : avatars'[k] \in Payload
      BY <2>1, <2>2, CuratorTyped DEF CatalogTypeOK
    <2>5. CatalogTypeOK'
      <3>1. /\ raced' \subseteq Ids' /\ wishes' \subseteq Wishers \X Ids'
            /\ wishing' \subseteq Wishers \X Ids'
        BY <2>1, <2>2 DEF CatalogTypeOK
      <3> QED
        BY <2>1, <2>2, <2>3, <2>4, <3>1 DEF CatalogTypeOK, OnlyCurator
    <2>6. Checked'
      BY <2>1, <2>2 DEF Checked, OnlyCurator
    <2> QED
      BY <2>5, <2>6
  <1>3. ASSUME NEW c \in Curators, SelectAvatar(c) PROVE CatalogTypeOK' /\ Checked'
    <2>1. /\ OnlyCurator(c) /\ curator[c] # Nobody /\ curator'[c] # Nobody
          /\ curator'[c].item = curator[c].item /\ curator'[c].payload = curator[c].payload
          /\ curator[c].item # 0 /\ UNCHANGED <<avatars, raced, wishes, wishing, edits>>
      BY <1>3, SelectShape
    <2>2. CatalogTypeOK'
      BY <2>1 DEF CatalogTypeOK, OnlyCurator, Ids
    <2>3. Checked'
      BY <2>1 DEF Checked, OnlyCurator, Ids
    <2> QED
      BY <2>2, <2>3
  <1>4. ASSUME NEW c \in Curators, UpdateAvatarItem(c) PROVE CatalogTypeOK' /\ Checked'
    <2>1. /\ OnlyCurator(c) /\ curator'[c] = Nobody
          /\ curator[c].item \in Ids /\ Ids' = Ids
          /\ \A k \in Ids \ {curator[c].item} : avatars'[k] = avatars[k]
          /\ avatars'[curator[c].item] \in Payload
          /\ raced' \subseteq raced \cup {curator[c].item}
          /\ UNCHANGED <<wishes, wishing, edits>>
      BY <1>4, UpdateShape
    <2>2. (\A k \in Ids : avatars'[k] \in Payload) /\ raced' \subseteq Ids
      BY <2>1 DEF CatalogTypeOK
    <2>3. CatalogTypeOK'
      BY <2>1, <2>2 DEF CatalogTypeOK, OnlyCurator
    <2>4. Checked'
      BY <2>1 DEF Checked, OnlyCurator
    <2> QED
      BY <2>3, <2>4
  <1>5. ASSUME Wishing PROVE CatalogTypeOK' /\ Checked'
    BY <1>5, WishShape DEF CatalogTypeOK, Checked, Ids
  <1>6. ASSUME UNCHANGED catalogVars PROVE CatalogTypeOK' /\ Checked'
    BY <1>6 DEF catalogVars, CatalogTypeOK, Checked, Ids
  <1> QED
    BY <1>1, <1>2, <1>3, <1>4, <1>5, <1>6, CatalogSteps

\* Every statement keeps names that fit gender and category.
LEMMA RowsFitStep ==
    ASSUME CatalogTypeOK, Checked, RowsFit, [CatalogNext]_catalogVars
    PROVE  RowsFit'
  <1>1. ASSUME UNCHANGED <<avatars, raced>> PROVE RowsFit'
    BY <1>1 DEF RowsFit, Ids, Fits
  <1>2. ASSUME NEW c \in Curators, CreateAvatar(c) PROVE RowsFit'
    <2>1. curator[c] # Nobody /\ raced' = raced
      BY <1>2, CreateShape
    <2>2. PICK n \in Nat :
                /\ Ids' = Ids \cup {n + 1}
                /\ \A k \in Ids : avatars'[k] = avatars[k]
                /\ avatars'[n + 1] = curator[c].payload
      BY <1>2, CreateShape
    <2>3. \A k \in Ids' \ raced' : Fits(avatars'[k])
      BY <2>1, <2>2 DEF Checked, RowsFit
    <2> QED
      BY <2>3 DEF RowsFit
  <1>3. ASSUME NEW c \in Curators, UpdateAvatarItem(c) PROVE RowsFit'
    <2>1. /\ curator[c] # Nobody /\ Ids' = Ids
          /\ \A k \in Ids \ {curator[c].item} : avatars'[k] = avatars[k]
          /\ curator[c].item \in raced' \/ avatars'[curator[c].item] = curator[c].payload
          /\ raced \subseteq raced'
      BY <1>3, UpdateShape
    <2>2. \A k \in Ids' \ raced' : Fits(avatars'[k])
      BY <2>1 DEF Checked, RowsFit
    <2> QED
      BY <2>2 DEF RowsFit
  <1>4. ASSUME NEW c \in Curators,
               SelectAvatar(c) \/ \E i \in 0..MaxAvatars, p \in Payload : CheckAvatarInput(c, i, p)
        PROVE  RowsFit'
    BY <1>1, <1>4 DEF SelectAvatar, CheckAvatarInput
  <1>5. ASSUME Wishing PROVE RowsFit'
    BY <1>1, <1>5, WishShape
  <1>6. ASSUME UNCHANGED catalogVars PROVE RowsFit'
    BY <1>1, <1>6 DEF catalogVars
  <1> QED
    BY <1>2, <1>3, <1>4, <1>5, <1>6, CatalogSteps

\* Items and requests of one name and color are finitely many.
LEMMA CopiesFinite ==
    ASSUME CatalogTypeOK, Checked, NEW p
    PROVE  /\ IsFiniteSet(Like1(p) \cup Targets(p)) /\ Cardinality(Like1(p) \cup Targets(p)) \in Nat
           /\ IsFiniteSet(NewOnes(p)) /\ Cardinality(NewOnes(p)) \in Nat
           /\ Cardinality(Curators) \in Nat
  <1>1. IsFiniteSet(Ids)
    BY IdsFinite
  <1>2. Like1(p) \cup Targets(p) \subseteq Ids
    BY DEF Like1, Targets, Asked, Checked
  <1>3. NewOnes(p) \subseteq Curators
    BY DEF NewOnes, Asked
  <1> QED
    BY <1>1, <1>2, <1>3, CatalogAssumption, FS_Subset, FS_CardinalityType

\* What is targeted and what is new is no more than what is asked for.
LEMMA AskedBound ==
    ASSUME CatalogTypeOK, Checked, NEW p
    PROVE  /\ IsFiniteSet(Asked(p)) /\ Cardinality(Asked(p)) \in Nat
           /\ IsFiniteSet(Targets(p)) /\ Cardinality(Targets(p)) \in Nat
           /\ Cardinality(Targets(p)) + Cardinality(NewOnes(p)) <= Cardinality(Asked(p))
  <1> DEFINE old == {d \in Asked(p) : curator[d].item # 0}
             item == [d \in old |-> curator[d].item]
             T == {item[x] : x \in old}
  <1>1. Asked(p) \subseteq Curators /\ old \subseteq Asked(p) /\ NewOnes(p) \subseteq Asked(p)
        /\ old \cap NewOnes(p) = {} /\ old \cup NewOnes(p) = Asked(p)
    BY DEF Asked, NewOnes
  <1>2. Targets(p) = T
    BY DEF Targets
  <1> HIDE DEF old, item
  <1>3. /\ IsFiniteSet(Asked(p)) /\ IsFiniteSet(old) /\ IsFiniteSet(NewOnes(p))
    BY <1>1, CatalogAssumption, FS_Subset
  <1>4. /\ Cardinality(Asked(p)) \in Nat /\ Cardinality(old) \in Nat
        /\ Cardinality(NewOnes(p)) \in Nat
    BY <1>3, FS_CardinalityType
  <1>5. Cardinality(old \cup NewOnes(p)) = Cardinality(old) + Cardinality(NewOnes(p))
    <2>1. Cardinality(old \cup NewOnes(p)) =
              Cardinality(old) + Cardinality(NewOnes(p)) - Cardinality(old \cap NewOnes(p))
      BY <1>3, FS_Union
    <2>2. Cardinality(old \cap NewOnes(p)) = 0
      BY <1>1, FS_EmptySet
    <2> QED
      BY <1>4, <2>1, <2>2
  <1>6. IsFiniteSet(T) /\ Cardinality(T) <= Cardinality(old)
    BY <1>3, ImageBound
  <1>7. Cardinality(T) \in Nat
    BY <1>6, FS_CardinalityType
  <1> HIDE DEF T
  <1> QED
    BY <1>1, <1>2, <1>3, <1>4, <1>5, <1>6, <1>7

\* Every statement keeps the items of one name and color, there and to come, within
\* the requests.
LEMMA CopyRoomStep ==
    ASSUME CatalogTypeOK, Checked, CopyRoom, CatalogTypeOK', Checked', [CatalogNext]_catalogVars
    PROVE  CopyRoom'
  <1> DEFINE All(p) == Like1(p) \cup Targets(p)
             Room(p) == Cardinality(All(p)) + Cardinality(NewOnes(p)) <= Cardinality(Curators)
  <1>0. \A p \in Payload : Room(p)
    BY DEF CopyRoom
  <1>a. (\A p \in Payload : Room(p)') => CopyRoom'
    BY DEF CopyRoom
  \* A step after which there is nothing that was not there.
  <1>b. ASSUME NEW p \in Payload, All(p)' \subseteq All(p), NewOnes(p)' \subseteq NewOnes(p)
        PROVE  Room(p)'
    <2>1. /\ IsFiniteSet(All(p)) /\ Cardinality(All(p)) \in Nat
          /\ IsFiniteSet(NewOnes(p)) /\ Cardinality(NewOnes(p)) \in Nat
          /\ Cardinality(Curators) \in Nat
      BY CopiesFinite
    <2>2. /\ Cardinality(All(p)') <= Cardinality(All(p)) /\ Cardinality(All(p)') \in Nat
          /\ Cardinality(NewOnes(p)') <= Cardinality(NewOnes(p)) /\ Cardinality(NewOnes(p)') \in Nat
      BY <1>b, <2>1, FS_Subset, FS_CardinalityType
    <2>3. Room(p)
      BY <1>0
    <2> HIDE DEF All
    <2> QED
      BY <2>1, <2>2, <2>3
  <1>1. ASSUME NEW c \in Curators, NEW i \in 0..MaxAvatars, NEW q \in Payload,
               CheckAvatarInput(c, i, q)
        PROVE  CopyRoom'
    <2>1. /\ OnlyCurator(c) /\ curator[c] = Nobody /\ curator'[c] # Nobody
          /\ curator'[c].item = i /\ curator'[c].payload = q
          /\ ~Taken(i, q) /\ UNCHANGED <<avatars, raced>>
      BY <1>1, CheckShape
    <2>2. ASSUME NEW p \in Payload PROVE Room(p)'
      <3>1. CASE ~Alike(p, q)
        <4>1. c \notin Asked(p) /\ Asked(p)' = Asked(p)
          BY <2>1, <3>1 DEF Asked, OnlyCurator
        <4>2. Targets(p)' = Targets(p)
          BY <2>1, <4>1 DEF Targets, OnlyCurator, Asked
        <4>3. NewOnes(p)' = NewOnes(p)
          BY <2>1, <4>1 DEF NewOnes, OnlyCurator, Asked
        <4>4. Like1(p)' = Like1(p)
          BY <2>1 DEF Like1, Ids
        <4> QED
          BY <1>b, <4>2, <4>3, <4>4
      <3>2. CASE Alike(p, q)
        <4>1. Like1(p) \subseteq {i}
          BY <2>1, <3>2 DEF Like1, Taken, Alike
        <4>2. Like1(p)' = Like1(p)
          BY <2>1 DEF Like1, Ids
        <4>3. /\ IsFiniteSet(Asked(p)) /\ Cardinality(Asked(p)) \in Nat
              /\ IsFiniteSet(Targets(p)) /\ Cardinality(Targets(p)) \in Nat
              /\ Cardinality(Targets(p)) + Cardinality(NewOnes(p)) <= Cardinality(Asked(p))
              /\ IsFiniteSet(NewOnes(p)) /\ Cardinality(NewOnes(p)) \in Nat
          BY AskedBound, CopiesFinite
        <4>4. Cardinality(Asked(p)) + 1 <= Cardinality(Curators)
          <5>1. Asked(p) \subseteq Curators \ {c}
            BY <2>1 DEF Asked
          <5>2. /\ IsFiniteSet(Curators \ {c}) /\ Cardinality(Curators \ {c}) = Cardinality(Curators) - 1
                /\ Cardinality(Curators) \in Nat
            BY CatalogAssumption, OneLess
          <5>3. Cardinality(Asked(p)) <= Cardinality(Curators \ {c})
            BY <5>1, <5>2, FS_Subset
          <5> QED
            BY <4>3, <5>2, <5>3
        <4>5. Asked(p)' = Asked(p) \cup {c} /\ c \notin Asked(p)
          BY <2>1, <3>2 DEF Asked, OnlyCurator
        <4>6. CASE i = 0
          <5>1. Like1(p) = {}
            <6>1. 0 \notin Ids
              BY DEF CatalogTypeOK
            <6> QED
              BY <4>1, <4>6, <6>1 DEF Like1
          <5>2. NewOnes(p)' = NewOnes(p) \cup {c}
            BY <2>1, <4>5, <4>6 DEF NewOnes, OnlyCurator, Asked
          <5>3. Targets(p)' = Targets(p)
            BY <2>1, <4>5, <4>6 DEF Targets, OnlyCurator, Asked
          <5>4. Cardinality(NewOnes(p)') <= Cardinality(NewOnes(p)) + 1
                /\ Cardinality(NewOnes(p)') \in Nat
            BY <4>3, <5>2, OneMore
          <5>5. All(p)' = Targets(p)
            BY <4>2, <5>1, <5>3
          <5>6. Cardinality(Curators) \in Nat
            BY CopiesFinite
          <5> HIDE DEF All
          <5> QED
            BY <4>3, <4>4, <5>4, <5>5, <5>6
        <4>7. CASE i # 0
          <5>1. All(p)' \subseteq Targets(p) \cup {i}
            <6>1. Targets(p)' \subseteq Targets(p) \cup {i}
              BY <2>1, <4>5, <4>7 DEF Targets, OnlyCurator, Asked
            <6> QED
              BY <4>1, <4>2, <6>1
          <5>2. NewOnes(p)' = NewOnes(p)
            BY <2>1, <4>5, <4>7 DEF NewOnes, OnlyCurator, Asked
          <5>3. /\ IsFiniteSet(Targets(p) \cup {i}) /\ Cardinality(Targets(p) \cup {i}) \in Nat
                /\ Cardinality(Targets(p) \cup {i}) <= Cardinality(Targets(p)) + 1
            BY <4>3, OneMore
          <5>4. Cardinality(All(p)') <= Cardinality(Targets(p) \cup {i})
                /\ Cardinality(All(p)') \in Nat
            BY <5>1, <5>3, FS_Subset, FS_CardinalityType
          <5>5. Cardinality(Curators) \in Nat
            BY CopiesFinite
          <5> HIDE DEF All
          <5> QED
            BY <4>3, <4>4, <5>2, <5>3, <5>4, <5>5
        <4> QED
          BY <4>6, <4>7
      <3> QED
        BY <3>1, <3>2
    <2> QED
      BY <1>a, <2>2
  <1>2. ASSUME NEW c \in Curators, CreateAvatar(c) PROVE CopyRoom'
    <2>1. /\ OnlyCurator(c) /\ curator[c] # Nobody /\ curator'[c] = Nobody
          /\ curator[c].item = 0 /\ raced' = raced
      BY <1>2, CreateShape
    <2>2. PICK n \in Nat :
                /\ Ids' = Ids \cup {n + 1} /\ n + 1 \notin Ids
                /\ \A k \in Ids : avatars'[k] = avatars[k]
                /\ avatars'[n + 1] = curator[c].payload
      BY <1>2, CreateShape
    <2>3. \A p \in Payload : Targets(p)' = Targets(p) /\ NewOnes(p)' = NewOnes(p) \ {c}
      BY <2>1 DEF Targets, NewOnes, Asked, OnlyCurator
    <2>4. ASSUME NEW p \in Payload PROVE Room(p)'
      <3>1. CASE ~Alike(p, curator[c].payload)
        <4>1. Like1(p)' \subseteq Like1(p)
          BY <2>1, <2>2, <3>1 DEF Like1
        <4> QED
          BY <1>b, <2>3, <4>1
      <3>2. CASE Alike(p, curator[c].payload)
        <4>1. c \in NewOnes(p)
          BY <2>1, <3>2 DEF NewOnes, Asked
        <4>2. All(p)' \subseteq All(p) \cup {n + 1}
          BY <2>1, <2>2, <2>3 DEF Like1
        <4>3. /\ IsFiniteSet(All(p)) /\ Cardinality(All(p)) \in Nat
              /\ IsFiniteSet(NewOnes(p)) /\ Cardinality(NewOnes(p)) \in Nat
              /\ Cardinality(Curators) \in Nat
          BY CopiesFinite
        <4>4. /\ IsFiniteSet(All(p) \cup {n + 1}) /\ Cardinality(All(p) \cup {n + 1}) \in Nat
              /\ Cardinality(All(p) \cup {n + 1}) <= Cardinality(All(p)) + 1
          BY <4>3, OneMore
        <4>5. Cardinality(All(p)') <= Cardinality(All(p) \cup {n + 1})
              /\ Cardinality(All(p)') \in Nat
          BY <4>2, <4>4, FS_Subset, FS_CardinalityType
        <4>6. Cardinality(NewOnes(p) \ {c}) = Cardinality(NewOnes(p)) - 1
          BY <4>1, <4>3, OneLess
        <4>7. NewOnes(p)' = NewOnes(p) \ {c} /\ Room(p)
          BY <1>0, <2>3
        <4> HIDE DEF All
        <4> QED
          BY <4>3, <4>4, <4>5, <4>6, <4>7
      <3> QED
        BY <3>1, <3>2
    <2> QED
      BY <1>a, <2>4
  <1>3. ASSUME NEW c \in Curators, SelectAvatar(c) PROVE CopyRoom'
    <2>1. /\ OnlyCurator(c) /\ curator[c] # Nobody /\ curator'[c] # Nobody
          /\ curator'[c].item = curator[c].item /\ curator'[c].payload = curator[c].payload
          /\ UNCHANGED <<avatars, raced>>
      BY <1>3, SelectShape
    <2>2. ASSUME NEW p \in Payload PROVE Room(p)'
      <3>1. Asked(p)' = Asked(p) /\ Like1(p)' = Like1(p)
        BY <2>1 DEF Asked, Like1, Ids, OnlyCurator
      <3>2. \A d \in Asked(p) : curator'[d].item = curator[d].item
        BY <2>1 DEF Asked, OnlyCurator
      <3>3. Targets(p)' = Targets(p) /\ NewOnes(p)' = NewOnes(p)
        BY <3>1, <3>2 DEF Targets, NewOnes
      <3> QED
        BY <1>b, <3>1, <3>3
    <2> QED
      BY <1>a, <2>2
  <1>4. ASSUME NEW c \in Curators, UpdateAvatarItem(c) PROVE CopyRoom'
    <2>1. /\ OnlyCurator(c) /\ curator[c] # Nobody /\ curator'[c] = Nobody
          /\ curator[c].item \in Ids /\ curator[c].item # 0 /\ Ids' = Ids
          /\ \A k \in Ids \ {curator[c].item} : avatars'[k] = avatars[k]
          /\ curator[c].item \in raced' \/ avatars'[curator[c].item] = curator[c].payload
          /\ raced \subseteq raced' /\ raced' \subseteq raced \cup {curator[c].item}
      BY <1>4, UpdateShape
    <2>2. ASSUME NEW p \in Payload PROVE Room(p)'
      <3>1. Targets(p)' \subseteq Targets(p) /\ NewOnes(p)' \subseteq NewOnes(p)
        BY <2>1 DEF Targets, NewOnes, Asked, OnlyCurator
      <3>2. ASSUME NEW k \in Like1(p)' PROVE k \in All(p)
        <4>1. CASE k = curator[c].item
          BY <2>1, <3>2, <4>1 DEF Like1, Targets, Asked
        <4>2. CASE k # curator[c].item
          BY <2>1, <3>2, <4>2 DEF Like1
        <4> QED
          BY <4>1, <4>2
      <3> QED
        BY <1>b, <3>1, <3>2
    <2> QED
      BY <1>a, <2>2
  <1>5. ASSUME UNCHANGED <<avatars, raced, curator>> PROVE CopyRoom'
    <2>1. ASSUME NEW p \in Payload PROVE Room(p)'
      <3>1. Like1(p)' = Like1(p) /\ Targets(p)' = Targets(p) /\ NewOnes(p)' = NewOnes(p)
        BY <1>5 DEF Like1, Targets, NewOnes, Asked, Ids
      <3> QED
        BY <1>b, <3>1
    <2> QED
      BY <1>a, <2>1
  <1> QED
    BY <1>1, <1>2, <1>3, <1>4, <1>5, WishShape, CatalogSteps DEF catalogVars

\* At the start there are no items.
LEMMA CatalogStart ==
    ASSUME CatalogInit
    PROVE  CatalogInv
  <1>1. Ids = {} /\ 0 \in 0..MaxAvatars /\ 0 \in 0..MaxEdits /\ 1..0 = {}
    BY CatalogAssumption DEF CatalogInit, Ids
  <1>2. CatalogTypeOK
    <2>1. Ids \in {1..n : n \in 0..MaxAvatars}
      BY <1>1
    <2> QED
      BY <1>1, <2>1 DEF CatalogInit, CatalogTypeOK
  <1>3. Checked /\ RowsFit
    BY <1>1 DEF CatalogInit, Checked, RowsFit
  <1>4. CopyRoom
    <2>1. \A p \in Payload : Like1(p) \cup Targets(p) = {} /\ NewOnes(p) = {}
      BY <1>1 DEF Like1, Targets, NewOnes, Asked, CatalogInit
    <2>2. Cardinality({}) = 0 /\ Cardinality(Curators) \in Nat
      BY CatalogAssumption, FS_EmptySet, FS_CardinalityType
    <2>3. 0 + 0 <= Cardinality(Curators)
      BY <2>2
    <2>4. ASSUME NEW p \in Payload
          PROVE  Cardinality(Like1(p) \cup Targets(p)) + Cardinality(NewOnes(p))
                     <= Cardinality(Curators)
      <3>1. Like1(p) \cup Targets(p) = {} /\ NewOnes(p) = {}
        BY <2>1
      <3> QED
        BY <2>2, <2>3, <3>1, Zenon
    <2> QED
      BY <2>4 DEF CopyRoom
  <1> QED
    BY <1>2, <1>3, <1>4 DEF CatalogInv

\* What the lists say of each other holds in every state of the tables.
LEMMA ListsHold ==
    ASSUME CatalogTypeOK
    PROVE  ListsAgree
  <1>1. {m[1] : m \in MarketItems} = Active
    <2>1. ASSUME NEW m \in MarketItems PROVE m[1] \in Active
      BY DEF MarketItems
    <2>2. ASSUME NEW i \in Active PROVE \E m \in MarketItems : m[1] = i
      <3>1. CASE WishersOf(i) = {}
        <4>1. <<i, "nobody">> \in MarketItems
          BY <3>1 DEF MarketItems
        <4> QED
          BY <4>1
      <3>2. CASE WishersOf(i) # {}
        <4>1. PICK u \in Wishers : <<u, i>> \in wishes
          BY <3>2 DEF WishersOf
        <4>2. <<i, u>> \in MarketItems
          BY <4>1 DEF MarketItems
        <4> QED
          BY <4>2
      <3> QED
        BY <3>1, <3>2
    <2> QED
      BY <2>1, <2>2
  <1>2. ASSUME NEW u \in Wishers, NEW i \in UserWishlist(u) PROVE <<i, u>> \in MarketItems
    <2>1. i \in Active /\ \E w \in wishes : w[1] = u /\ w[2] = i
      BY DEF UserWishlist, WishesOf
    <2>2. PICK w \in wishes : w[1] = u /\ w[2] = i
      BY <2>1
    <2> QED
      BY <2>1, <2>2 DEF MarketItems
  <1>3. ASSUME NEW i \in Active
        PROVE  /\ avatars[i].color \in ColorsByItemName(avatars[i].name)
               /\ VirtualTryItems(avatars[i].name, avatars[i].color) > 0
    <2> DEFINE S == {k \in Active : avatars[k].name = avatars[i].name
                                    /\ avatars[k].color = avatars[i].color}
    <2>1. avatars[i].color \in ColorsByItemName(avatars[i].name)
      BY DEF ColorsByItemName
    <2>2. IsFiniteSet(Ids) /\ S \subseteq Ids /\ i \in S
      BY IdsFinite DEF Active
    <2>3. IsFiniteSet(S) /\ Cardinality(S) \in Nat /\ Cardinality(S) # 0
      <3>1. IsFiniteSet(S)
        BY <2>2, FS_Subset
      <3>2. S # {}
        BY <2>2
      <3> HIDE DEF S
      <3> QED
        BY <3>1, <3>2, FS_EmptySet, FS_CardinalityType
    <2>4. VirtualTryItems(avatars[i].name, avatars[i].color) = Cardinality(S)
      BY DEF VirtualTryItems
    <2> HIDE DEF S
    <2> QED
      BY <2>1, <2>3, <2>4
  <1> QED
    BY <1>1, <1>2, <1>3 DEF ListsAgree

\* An item's name fits its gender and category and of one name and color there are
\* no more items than requests run at a time, apart from those where an update wrote
\* over a change it had not seen; and the lists agree.
THEOREM CatalogKept == CatalogSpec => []CatalogSound
  <1>1. CatalogInv /\ [CatalogNext]_catalogVars => CatalogInv'
    BY CatalogStepTyped, RowsFitStep, CopyRoomStep DEF CatalogInv
  <1>2. CatalogInv => CatalogSound
    <2>1. ASSUME CatalogInv PROVE CatalogSound
      <3>0. CatalogTypeOK /\ Checked /\ RowsFit /\ CopyRoom
        BY <2>1 DEF CatalogInv
      <3>1. ASSUME NEW i \in Ids \ raced
            PROVE  Cardinality({k \in Ids \ raced : Alike(avatars[i], avatars[k])})
                       <= Cardinality(Curators)
        <4>1. PICK p \in Payload : p = avatars[i]
          BY <3>0 DEF CatalogTypeOK
        <4>2. Like1(p) = {k \in Ids \ raced : Alike(avatars[i], avatars[k])}
          BY <4>1 DEF Like1
        <4>3. /\ IsFiniteSet(Like1(p) \cup Targets(p)) /\ Cardinality(Like1(p) \cup Targets(p)) \in Nat
              /\ Cardinality(NewOnes(p)) \in Nat /\ Cardinality(Curators) \in Nat
          BY <3>0, CopiesFinite
        <4>4. Cardinality(Like1(p)) <= Cardinality(Like1(p) \cup Targets(p))
              /\ Cardinality(Like1(p)) \in Nat
          BY <4>3, FS_Subset, FS_CardinalityType
        <4>5. Cardinality(Like1(p) \cup Targets(p)) + Cardinality(NewOnes(p)) <= Cardinality(Curators)
          BY <3>0 DEF CopyRoom
        <4>6. Cardinality(Like1(p)) <= Cardinality(Curators)
          BY <4>3, <4>4, <4>5
        <4> QED
          BY <4>2, <4>6
      <3>2. CopiesBounded
        BY <3>1 DEF CopiesBounded
      <3> QED
        BY <3>0, <3>2, ListsHold DEF CatalogSound
    <2> QED
      BY <2>1
  <1> QED
    BY <1>1, <1>2, CatalogStart, PTL DEF CatalogSpec
=============================================================================
