-------------------------------- MODULE SotSync --------------------------------
(***************************************************************************)
(* How the SOTs of the blockchain come into the database.  A listener puts *)
(* each Transfer event into a queue; a job stores its token and then the   *)
(* number of its block, from which the listener starts again after a       *)
(* disconnect or a restart.                                                *)
(***************************************************************************)
EXTENDS Naturals, Sequences, FiniteSets

CONSTANTS
    Blocks,         \* the block of each event, in the order of the chain
    Attempts,       \* attempts of a job (3 in the code)
    MaxStalls,      \* Bull's maxStalledCount: stalled more often, a job fails for good
    MaxTroubles     \* bound on disconnects, restarts and failing calls together

ASSUME SotAssumption ==
    /\ Blocks \in Seq(Nat \ {0})
    /\ \A i, j \in 1..Len(Blocks) : i < j => Blocks[i] <= Blocks[j]
    /\ Attempts \in Nat \ {0}
    /\ MaxStalls \in Nat /\ MaxTroubles \in Nat

VARIABLES
    mined,          \* events of the chain so far
    from,           \* fromBlock of the subscription, 0 while there is none
    cursor,         \* the next event the subscription delivers
    heard,          \* events that were put into the queue
    missed,         \* events that could not be put there
    queue,          \* waiting jobs
    job,            \* the running job
    last,           \* blockNumber of sot_block, 0 if there is none
    rows,           \* rows of sots of the token of each event
    spent,          \* events whose job failed for good: attempts used up, or stalled too often
    cuts,           \* disconnects and restarts so far
    misses          \* failing calls so far

sotVars == <<mined, from, cursor, heard, missed, queue, job, last, rows, spent, cuts, misses>>

-----------------------------------------------------------------------------
(* Types                                                                   *)

Events  == 1..Len(Blocks)
SotJob  == [event : Events, attempt : 1..Attempts, stalls : 0..MaxStalls]
NoJob   == [pc |-> "none"]
Running == [pc : {"fetching", "saving", "updating"}, event : Events,
            attempt : 1..Attempts, stalls : 0..MaxStalls]

SotTypeOK ==
    /\ mined \in 0..Len(Blocks)
    /\ from \in Nat
    /\ cursor \in 1..(Len(Blocks) + 1)
    /\ heard \subseteq 1..mined
    /\ missed \subseteq 1..mined
    /\ queue \in Seq(SotJob)
    /\ job \in Running \cup {NoJob}
    /\ last \in Nat
    /\ rows \in [Events -> Nat]
    /\ spent \subseteq Events
    /\ cuts \in 0..MaxTroubles
    /\ misses \in 0..MaxTroubles

SotInit ==
    /\ mined = 0
    /\ from = 0 /\ cursor = 1
    /\ heard = {} /\ missed = {}
    /\ queue = <<>> /\ job = NoJob
    /\ last = 0
    /\ rows = [e \in Events |-> 0]
    /\ spent = {}
    /\ cuts = 0 /\ misses = 0

-----------------------------------------------------------------------------
(* The listener                                                            *)

Mine ==
    /\ mined < Len(Blocks)
    /\ mined' = mined + 1
    /\ UNCHANGED <<from, cursor, heard, missed, queue, job, last, rows, spent, cuts, misses>>

\* Mutant: two blocks after the last one.
SyncSkipping ==
    /\ from = 0
    /\ from' = last + 2
    /\ cursor' = 1 + Cardinality({e \in Events : Blocks[e] < last + 2})
    /\ UNCHANGED <<mined, heard, missed, queue, job, last, rows, spent, cuts, misses>>

\* getLastNftBlock and syncSotdata: from the block after the last one.
SyncSotdata ==
    /\ from = 0
    /\ from' = last + 1
    /\ cursor' = 1 + Cardinality({e \in Events : Blocks[e] <= last})
    /\ UNCHANGED <<mined, heard, missed, queue, job, last, rows, spent, cuts, misses>>

\* addBlock puts the event into the queue, which survives the process.
AddBlock ==
    /\ from # 0
    /\ cursor <= mined
    /\ cursor' = cursor + 1
    /\ heard' = heard \cup {cursor}
    /\ queue' = Append(queue, [event |-> cursor, attempt |-> 1, stalls |-> 0])
    /\ UNCHANGED <<mined, from, missed, job, last, rows, spent, cuts, misses>>

\* The queue does not take it: the error is logged and the event forgotten.
MissBlock ==
    /\ from # 0 /\ cuts + misses < MaxTroubles
    /\ cursor <= mined
    /\ cursor' = cursor + 1
    /\ missed' = missed \cup {cursor}
    /\ misses' = misses + 1
    /\ UNCHANGED <<mined, from, heard, queue, job, last, rows, spent, cuts>>

Disconnect ==
    /\ from # 0 /\ cuts + misses < MaxTroubles
    /\ cuts' = cuts + 1
    /\ from' = 0
    /\ UNCHANGED <<mined, cursor, heard, missed, queue, job, last, rows, spent, misses>>

\* Mutant: a job that stalled is not run again.
RestartWithoutJob ==
    /\ cuts + misses < MaxTroubles
    /\ cuts' = cuts + 1
    /\ from' = 0
    /\ job' = NoJob
    /\ UNCHANGED <<mined, cursor, heard, missed, queue, last, rows, spent, misses>>

\* The process stops.  Bull gives the stalled job to the next one, once; if it
\* stalls again it has failed for good, whatever attempts it has left.
Restart ==
    /\ cuts + misses < MaxTroubles
    /\ cuts' = cuts + 1
    /\ from' = 0
    /\ \/ job = NoJob /\ UNCHANGED <<queue, spent>>
       \/ /\ job # NoJob /\ job.stalls < MaxStalls
          /\ queue' = <<[event |-> job.event, attempt |-> job.attempt,
                        stalls |-> job.stalls + 1]>> \o queue
          /\ UNCHANGED spent
       \/ /\ job # NoJob /\ job.stalls = MaxStalls
          /\ spent' = spent \cup {job.event}
          /\ UNCHANGED queue
    /\ job' = NoJob
    /\ UNCHANGED <<mined, cursor, heard, missed, last, rows, misses>>

-----------------------------------------------------------------------------
(* The job                                                                 *)

HandleBlock ==
    /\ job = NoJob /\ queue # <<>>
    /\ LET next == Head(queue)
       IN  job' = [pc |-> "fetching", event |-> next.event, attempt |-> next.attempt,
                   stalls |-> next.stalls]
    /\ queue' = Tail(queue)
    /\ UNCHANGED <<mined, from, cursor, heard, missed, last, rows, spent, cuts, misses>>

\* Mutant: the block is stored before its token.
FetchSotLater ==
    /\ job.pc = "fetching"
    /\ last' = Blocks[job.event]
    /\ job' = [job EXCEPT !.pc = "saving"]
    /\ UNCHANGED <<mined, from, cursor, heard, missed, queue, rows, spent, cuts, misses>>

\* The link of the metadata, the owner and the time, and the metadata itself.
FetchSot ==
    /\ job.pc = "fetching"
    /\ job' = [job EXCEPT !.pc = "saving"]
    /\ UNCHANGED <<mined, from, cursor, heard, missed, queue, last, rows, spent, cuts, misses>>

\* addSotData inserts the token, whether it is there or not.
AddSotData ==
    /\ job.pc = "saving"
    /\ rows' = [rows EXCEPT ![job.event] = @ + 1]
    /\ job' = [job EXCEPT !.pc = "updating"]
    /\ UNCHANGED <<mined, from, cursor, heard, missed, queue, last, spent, cuts, misses>>

\* updateLastNftBlock, whichever block was the last one.
UpdateLastNftBlock ==
    /\ job.pc = "updating"
    /\ last' = Blocks[job.event]
    /\ job' = NoJob
    /\ UNCHANGED <<mined, from, cursor, heard, missed, queue, rows, spent, cuts, misses>>

Retry(attempt) ==
    queue' = Append(queue, [event |-> job.event, attempt |-> attempt, stalls |-> job.stalls])

\* Mutant: a failed attempt is not counted.
FailJobUncounted ==
    /\ job # NoJob /\ cuts + misses < MaxTroubles
    /\ misses' = misses + 1
    /\ Retry(job.attempt)
    /\ job' = NoJob
    /\ UNCHANGED <<mined, from, cursor, heard, missed, last, rows, spent, cuts>>

\* Mutant: one attempt too many.
FailJobLate ==
    /\ job # NoJob /\ cuts + misses < MaxTroubles
    /\ misses' = misses + 1
    /\ Retry(job.attempt + 1)
    /\ job' = NoJob
    /\ UNCHANGED <<mined, from, cursor, heard, missed, last, rows, spent, cuts>>

\* Mutant: the job is removed when it fails as well.
FailJobForGood ==
    /\ job # NoJob /\ cuts + misses < MaxTroubles
    /\ misses' = misses + 1
    /\ spent' = IF job.attempt = Attempts THEN spent \cup {job.event} ELSE spent
    /\ job' = NoJob
    /\ UNCHANGED <<mined, from, cursor, heard, missed, queue, last, rows, cuts>>

\* Any of the calls fails: Bull puts the job behind the others until it has used
\* its attempts.
FailJob ==
    /\ job # NoJob /\ cuts + misses < MaxTroubles
    /\ misses' = misses + 1
    /\ IF job.attempt < Attempts
       THEN Retry(job.attempt + 1) /\ UNCHANGED spent
       ELSE spent' = spent \cup {job.event} /\ UNCHANGED queue
    /\ job' = NoJob
    /\ UNCHANGED <<mined, from, cursor, heard, missed, last, rows, cuts>>

-----------------------------------------------------------------------------

JobStep == HandleBlock \/ FetchSot \/ AddSotData \/ UpdateLastNftBlock

SotNext ==
    \/ Mine \/ SyncSotdata \/ AddBlock \/ MissBlock \/ Disconnect \/ Restart
    \/ JobStep \/ FailJob

SotSpec == SotInit /\ [][SotNext]_sotVars

\* The listener connects again and delivers, and the queue is worked off.
SotFairness == WF_sotVars(SyncSotdata) /\ WF_sotVars(AddBlock) /\ WF_sotVars(JobStep)

-----------------------------------------------------------------------------
(* Properties                                                              *)

\* An event the listener has passed without hearing it shares its block with one
\* that was stored: blocks are the unit it starts again from, and a disconnect in
\* the middle of one loses the rest of it.  No other event is ever passed.
Passed(e) == e < cursor /\ e \notin heard \cup missed

PassedShareBlock ==
    \A e \in Events : from # 0 /\ Passed(e) =>
        \E f \in heard : Blocks[f] = Blocks[e] /\ rows[f] > 0

\* A token has a row for each attempt at most, of each time it was delivered, and
\* one more for each time the process stopped.
RowsBounded == \A e \in Events : rows[e] <= Attempts * (1 + cuts) + cuts

\* The block to start again from has been stored.
LastIsStored == last # 0 => \E e \in heard : Blocks[e] = last /\ rows[e] > 0

\* Every event is stored in the end, or its job failed for good, with all attempts
\* used or stalled once too often, or the queue did not take it, or the listener has
\* passed it.
EventsStored ==
    \A e \in Events :
        e <= mined ~> rows[e] > 0 \/ e \in spent \cup missed \/ (from # 0 /\ Passed(e))

\* The chain, the queue and the tables fit together, through disconnects,
\* restarts and retries.
SotSound == SotTypeOK /\ PassedShareBlock /\ RowsBounded /\ LastIsStored
=============================================================================
