------------------------------ MODULE MediaStore ------------------------------
(***************************************************************************)
(* Uploaded images: the objects in S3, the rows of medias that stand for   *)
(* uploads nobody uses yet, and the job that deletes what is left there    *)
(* too long.  Whoever uses an image removes its row; no two of the steps   *)
(* are in one transaction.                                                 *)
(***************************************************************************)
EXTENDS Naturals, FiniteSets

CONSTANTS
    Keys,           \* the images
    Clerks,         \* requests that may run at the same time
    Cron,           \* the job of every 12 hours
    MaxSlips        \* bound on crashes and on failing saves

ASSUME MediaAssumption == IsFiniteSet(Keys) /\ Cron \notin Clerks /\ MaxSlips \in Nat

VARIABLES
    uploaded,       \* keys that were ever uploaded
    bucket,         \* objects in S3
    medias,         \* rows of medias
    old,            \* rows of five minutes ago
    refs,           \* how an image is used: by a new inquiry, by an edited or
                    \* answered one, by a page or an option of a survey
    dropped,        \* images whose inquiry, attachment or use was deleted
    chore,          \* what each request and the job does
    raced,          \* images two of them handled at the same time
    slips           \* crashes and failing saves so far

mediaVars == <<uploaded, bucket, medias, old, refs, dropped, chore, raced, slips>>

-----------------------------------------------------------------------------
(* Types                                                                   *)

Kinds   == {"register", "edit", "page"}
NoChore == [pc |-> "none"]
Chore   == [pc : {"recording", "saving", "removing", "finding", "erasing", "forgetting"},
            key : Keys, kind : Kinds \cup {"upload", "delete"}]

MediaTypeOK ==
    /\ uploaded \subseteq Keys
    /\ bucket \subseteq uploaded
    /\ medias \subseteq uploaded
    /\ old \subseteq uploaded
    /\ refs \in [Keys -> SUBSET Kinds]
    /\ dropped \subseteq uploaded
    /\ chore \in [Clerks \cup {Cron} -> Chore \cup {NoChore}]
    /\ raced \subseteq Keys
    /\ slips \in 0..MaxSlips

MediaInit ==
    /\ uploaded = {} /\ bucket = {} /\ medias = {} /\ old = {}
    /\ refs = [k \in Keys |-> {}]
    /\ dropped = {}
    /\ chore = [h \in Clerks \cup {Cron} |-> NoChore]
    /\ raced = {}
    /\ slips = 0

-----------------------------------------------------------------------------
(* Starting                                                                *)

Handled(k) == {h \in Clerks \cup {Cron} : chore[h] # NoChore /\ chore[h].key = k}

Begin(h, p, k, kind) ==
    /\ chore[h] = NoChore
    /\ chore' = [chore EXCEPT ![h] = [pc |-> p, key |-> k, kind |-> kind]]
    /\ raced' = IF Handled(k) = {} THEN raced ELSE raced \cup {k}
    /\ UNCHANGED <<medias, old, refs, dropped, slips>>

\* uploadImage: the object first, then its row.
UploadImage(h, k) ==
    /\ k \notin uploaded
    /\ uploaded' = uploaded \cup {k}
    /\ bucket' = bucket \cup {k}
    /\ Begin(h, "recording", k, "upload")

\* deleteImage, by a request ...
DeleteImage(h, k) ==
    k \in uploaded /\ Begin(h, "finding", k, "delete") /\ UNCHANGED <<uploaded, bucket>>

\* ... and deleteImagesJob, for each row it has listed that is old enough.
DeleteImagesJob(k) ==
    /\ k \in medias \cap old
    /\ Begin(Cron, "finding", k, "delete")
    /\ UNCHANGED <<uploaded, bucket>>

\* getMediaByKeys finds the row.  registerInquiry saves and then removes it,
\* editInquiry and doReply only save, the pages and the surveys remove first.
UseImage(h, k, kind) ==
    /\ k \in medias
    /\ Begin(h, IF kind = "page" THEN "removing" ELSE "saving", k, kind)
    /\ UNCHANGED <<uploaded, bucket>>

-----------------------------------------------------------------------------
(* Steps                                                                   *)

At(h, p)    == chore[h] # NoChore /\ chore[h].pc = p
Turn(h, p)  == chore' = [chore EXCEPT ![h].pc = p]
Finish(h)   == chore' = [chore EXCEPT ![h] = NoChore]
SameMedia   == UNCHANGED <<uploaded, old, dropped, raced, slips>>

CreateMedia(h) ==
    /\ At(h, "recording")
    /\ medias' = medias \cup {chore[h].key}
    /\ Finish(h)
    /\ UNCHANGED <<bucket, refs>> /\ SameMedia

\* The attachment, the page or the survey is saved.
SaveReference(h) ==
    /\ At(h, "saving")
    /\ refs' = [refs EXCEPT ![chore[h].key] = @ \cup {chore[h].kind}]
    /\ IF chore[h].kind = "register" THEN Turn(h, "removing") ELSE Finish(h)
    /\ UNCHANGED <<bucket, medias>> /\ SameMedia

RemoveMedia(h) ==
    /\ At(h, "removing")
    /\ medias' = medias \ {chore[h].key}
    /\ IF chore[h].kind = "page" THEN Turn(h, "saving") ELSE Finish(h)
    /\ UNCHANGED <<bucket, refs>> /\ SameMedia

\* Mutant: the row need not be there.
FindAnyMedia(h) ==
    /\ At(h, "finding")
    /\ Turn(h, "erasing")
    /\ UNCHANGED <<bucket, medias, refs>> /\ SameMedia

\* deleteImage wants the row ...
FindMedia(h) ==
    /\ At(h, "finding")
    /\ IF chore[h].key \in medias THEN Turn(h, "erasing") ELSE Finish(h)
    /\ UNCHANGED <<bucket, medias, refs>> /\ SameMedia

\* Mutant: the object is left where it is.
KeepObject(h) ==
    /\ At(h, "erasing")
    /\ Turn(h, "forgetting")
    /\ UNCHANGED <<bucket, medias, refs>> /\ SameMedia

\* ... deletes the object ...
DeleteObject(h) ==
    /\ At(h, "erasing")
    /\ bucket' = bucket \ {chore[h].key}
    /\ Turn(h, "forgetting")
    /\ UNCHANGED <<medias, refs>> /\ SameMedia

\* Mutant: the row is left where it is.
KeepRow(h) ==
    /\ At(h, "forgetting")
    /\ Finish(h)
    /\ UNCHANGED <<bucket, medias, refs>> /\ SameMedia

\* ... and then the row.
DeleteRow(h) ==
    /\ At(h, "forgetting")
    /\ medias' = medias \ {chore[h].key}
    /\ Finish(h)
    /\ UNCHANGED <<bucket, refs>> /\ SameMedia

\* deleteInquiry and deleteInquiryAttachment leave the object in S3, and so does
\* the update of a page that gets another image.
DropReference(k, kinds) ==
    /\ refs[k] \cap kinds # {}
    /\ refs' = [refs EXCEPT ![k] = @ \ kinds]
    /\ dropped' = dropped \cup {k}
    /\ UNCHANGED <<uploaded, bucket, medias, old, chore, raced, slips>>

FiveMinutes(k) ==
    /\ k \in medias \ old
    /\ old' = old \cup {k}
    /\ UNCHANGED <<uploaded, bucket, medias, refs, dropped, chore, raced, slips>>

\* A save fails: a survey rolls back, the row of its image stays removed.
FailSave(h) ==
    /\ slips < MaxSlips
    /\ At(h, "saving")
    /\ slips' = slips + 1
    /\ Finish(h)
    /\ UNCHANGED <<uploaded, bucket, medias, old, refs, dropped, raced>>

\* The process stops.
Stop ==
    /\ slips < MaxSlips
    /\ slips' = slips + 1
    /\ chore' = [h \in Clerks \cup {Cron} |-> NoChore]
    /\ UNCHANGED <<uploaded, bucket, medias, old, refs, dropped, raced>>

-----------------------------------------------------------------------------

MediaStep(h) ==
    \/ CreateMedia(h) \/ SaveReference(h) \/ RemoveMedia(h)
    \/ FindMedia(h) \/ DeleteObject(h) \/ DeleteRow(h)

MediaNext ==
    \/ \E h \in Clerks \cup {Cron} : MediaStep(h) \/ FailSave(h)
    \/ \E h \in Clerks, k \in Keys :
        \/ UploadImage(h, k) \/ DeleteImage(h, k)
        \/ \E kind \in Kinds : UseImage(h, k, kind)
    \/ \E k \in Keys :
        \/ DeleteImagesJob(k) \/ FiveMinutes(k)
        \/ \E kinds \in {{"register", "edit"}, {"page"}} : DropReference(k, kinds)
    \/ Stop

SweepDue == \E k \in Keys : DeleteImagesJob(k)
TimePasses == \E k \in Keys : FiveMinutes(k)

MediaSpec == MediaInit /\ [][MediaNext]_mediaVars

\* Requests and the job run on, time passes, and the job comes every 12 hours.
MediaFairness ==
    /\ \A h \in Clerks \cup {Cron} : WF_mediaVars(MediaStep(h))
    /\ WF_mediaVars(SweepDue)
    /\ WF_mediaVars(TimePasses)

-----------------------------------------------------------------------------
(* Properties                                                              *)

\* An image that a new inquiry, a page or a survey uses stays in S3, unless it
\* was used while it was being deleted, or the process stopped in between.  An
\* edited or answered inquiry does not remove the row: the job takes its image.
UsedIsKept ==
    slips = 0 => \A k \in Keys \ raced : refs[k] \cap {"register", "page"} # {} => k \in bucket

\* However deletions and uses overlap, a row without an object is about to go; a
\* crash between the two leaves it to the next job.
RowsHaveObjects ==
    slips = 0 => \A k \in medias \ bucket : \E h \in Handled(k) : At(h, "forgetting")

\* Whatever overlaps, an object nobody accounts for had its user deleted.
NothingLeaks ==
    slips = 0 /\ (\A h \in Clerks \cup {Cron} : chore[h] = NoChore) =>
        \A k \in bucket : k \in medias \/ refs[k] # {} \/ k \in dropped

\* Every row goes, crashes and failures or not: its image is used or deleted.
RowsGo == \A k \in Keys : k \in medias ~> k \notin medias

\* Objects, rows and uses of images fit together.
MediaSound == MediaTypeOK /\ UsedIsKept /\ RowsHaveObjects /\ NothingLeaks
=============================================================================
