------------------------------- MODULE JobQueue -------------------------------
(***************************************************************************)
(* The durable job queue (platform/jobs.py): the jobs table, the workers   *)
(* that poll it and the API clients that cancel jobs.  The handler is      *)
(* abstract: it may write, commit, return or raise.  Module ScanPipeline   *)
(* gives it the body of the scan handler.                                  *)
(*                                                                         *)
(* Time is abstracted to the two comparisons the code makes: a row is in   *)
(* "ready" once scheduled_at <= now, in the order of (scheduled_at, id),   *)
(* and "stale" once started_at < now - stale_after_seconds.                *)
(***************************************************************************)
EXTENDS Transactions, Naturals, Sequences, SequencesExt

CONSTANTS
    Workers,        \* the sessions of worker processes; the others are API clients
    Jobs,           \* job ids
    MaxAttempts,    \* Job.max_attempts
    MaxFaults,      \* bound: worker crashes and lost connections in a behaviour
    MaxClaims       \* bound: a row claimed this often no longer becomes stale

ASSUME WorkersAssumption == Workers \subseteq Sessions
ASSUME MaxAttemptsAssumption == MaxAttempts \in Nat \ {0}
ASSUME BoundsAssumption == MaxFaults \in Nat /\ MaxClaims \in Nat
ASSUME NoJobAssumption == None \notin Jobs

Clients == Sessions \ Workers

VARIABLES
    job,        \* the committed rows of the jobs table
    ready,      \* the rows with scheduled_at <= now, in claim order
    pc,         \* where each worker is in Worker.run / run_pending
    held,       \* the job a worker selected, claimed or is executing
    row,        \* the worker's in-memory copy of the row it holds
    done,       \* the job whose success a worker has not yet flushed
    target,     \* the job a client is about to cancel
    returned,   \* history: the jobs whose handler has returned normally
    faults      \* the crashes and lost connections so far

queueVars == <<job, ready, pc, held, row, done, target, returned, faults>>
vars == <<queueVars, txnVars>>

Status == {"queued", "running", "succeeded", "failed", "cancelled"}
Row == [status : Status \cup {"absent"}, attempts : Nat, stale : BOOLEAN]
NoRow == [status |-> "absent", attempts |-> 0, stale |-> FALSE]

Location == {"idle", "selected", "claimed", "running", "next", "raised", "reloaded"}

TypeOK ==
    /\ TxnTypeOK
    /\ job \in [Jobs -> Row]
    /\ ready \in Seq(Jobs)
    /\ pc \in [Workers -> Location]
    /\ held \in [Workers -> Jobs \cup {None}]
    /\ row \in [Workers -> Row]
    /\ done \in [Workers -> Jobs \cup {None}]
    /\ target \in [Clients -> Jobs \cup {None}]
    /\ returned \subseteq Jobs
    /\ faults \in Nat

Init ==
    /\ TxnInit
    /\ job = [j \in Jobs |-> NoRow]
    /\ ready = <<>>
    /\ pc = [w \in Workers |-> "idle"]
    /\ held = [w \in Workers |-> None]
    /\ row = [w \in Workers |-> NoRow]
    /\ done = [w \in Workers |-> None]
    /\ target = [c \in Clients |-> None]
    /\ returned = {}
    /\ faults = 0

-----------------------------------------------------------------------------
Exists(j) == job[j].status # "absent"
Settled(j) == job[j].status \in {"succeeded", "failed", "cancelled"}

\* Fault: rows abandoned by a dead worker are never reclaimed.
ClaimableQueuedOnly(j) == job[j].status = "queued"

\* The WHERE clause of claim's SELECT, but for scheduled_at.
Claimable(j) ==
    \/ job[j].status = "queued"
    \/ job[j].status = "running" /\ job[j].stale

Due(j) == \E i \in DOMAIN ready : ready[i] = j

\* scheduled_at of j is set to a time in the future.
Postponed(j) ==
    IF Due(j) THEN RemoveAt(ready, CHOOSE i \in DOMAIN ready : ready[i] = j) ELSE ready

\* claim's SELECT ... ORDER BY scheduled_at, id LIMIT 1, as session w sees it:
\* a success it has just flushed is no longer claimable.
Eligible(w, j) == Claimable(j) /\ j # done[w]

\* Fault: the query forgets scheduled_at <= now.
IsNextIgnoringBackoff(w, j) == Eligible(w, j)

IsNext(w, j) ==
    \E i \in DOMAIN ready :
        /\ ready[i] = j
        /\ Eligible(w, j)
        /\ \A k \in 1 .. (i - 1) : ~ Eligible(w, ready[k])

\* Faults: one attempt too many, or one too few.
ExhaustedTooLate(w) == row[w].attempts > MaxAttempts
ExhaustedTooSoon(w) == row[w].attempts + 1 >= MaxAttempts

\* finish: the attempts of the row the worker has just read are used up.
Exhausted(w) == row[w].attempts >= MaxAttempts

\* The ORM writes a column only if its value differs from the loaded one, by
\* UPDATE ... WHERE id = ?: the row's present status is not tested.
Overwrite(j, loaded, new) ==
    [job EXCEPT ![j].status = IF loaded.status = new THEN @ ELSE new]

\* The jobs table once w's unflushed success, if any, is written.
Acknowledged(w) ==
    IF done[w] = None THEN job ELSE Overwrite(done[w], row[w], "succeeded")

-----------------------------------------------------------------------------
(***************************************************************************)
(* API requests, each a transaction of a client session.                   *)
(***************************************************************************)
\* A request reads ...
RequestRead(c) ==
    /\ Read(c)
    /\ UNCHANGED queueVars

\* ... or writes something else than the jobs table ...
RequestFlush(c) ==
    /\ Flush(c)
    /\ UNCHANGED queueVars

\* ... and commits it.
RequestCommit(c) ==
    /\ target[c] = None
    /\ SQLite => writer = c
    /\ Commit(c)
    /\ UNCHANGED queueVars

\* A request ends without a commit: it only read, failed or was refused the
\* write lock.
RequestAbort(c) ==
    /\ Rollback(c)
    /\ target' = [target EXCEPT ![c] = None]
    /\ UNCHANGED <<job, ready, pc, held, row, done, returned, faults>>

\* Fault: the row is created with a status the queue does not know.
EnqueueUnknownStatus(c, j) ==
    /\ ~ Exists(j)
    /\ target[c] = None
    /\ Commit(c)
    /\ job' = [job EXCEPT ![j] = [NoRow EXCEPT !.status = "pending"]]
    /\ ready' = Append(ready, j)
    /\ UNCHANGED <<pc, held, row, done, target, returned, faults>>

\* JobQueue.enqueue and its caller's commit.
Enqueue(c, j) ==
    /\ ~ Exists(j)
    /\ target[c] = None
    /\ Commit(c)
    /\ job' = [job EXCEPT ![j] = [NoRow EXCEPT !.status = "queued"]]
    /\ ready' = Append(ready, j)
    /\ UNCHANGED <<pc, held, row, done, target, returned, faults>>

\* The caller of JobQueue.cancel selects the jobs to cancel by status ...
SelectToCancel(c, j) ==
    /\ target[c] = None
    /\ job[j].status \in {"queued", "running"}
    /\ Read(c)
    /\ target' = [target EXCEPT ![c] = j]
    /\ UNCHANGED <<job, ready, pc, held, row, done, returned, faults>>

\* ... and commits the new status, whatever the row has become meanwhile.
Cancel(c) ==
    /\ target[c] # None
    /\ Commit(c)
    /\ job' = [job EXCEPT ![target[c]].status = "cancelled"]
    /\ target' = [target EXCEPT ![c] = None]
    /\ UNCHANGED <<ready, pc, held, row, done, returned, faults>>

-----------------------------------------------------------------------------
(***************************************************************************)
(* The worker: Worker.run calls run_pending, which loops over claim, the   *)
(* handler and finish.                                                     *)
(***************************************************************************)
\* claim's SELECT.  A success left unflushed by the previous iteration is
\* flushed (not committed) before the query runs.
Select(w, j) ==
    /\ pc[w] \in {"idle", "next"}
    /\ IsNext(w, j)
    /\ IF done[w] = None THEN Read(w) ELSE Flush(w)
    /\ pc' = [pc EXCEPT ![w] = "selected"]
    /\ held' = [held EXCEPT ![w] = j]
    /\ UNCHANGED <<job, ready, row, done, target, returned, faults>>

\* claim's UPDATE ... WHERE id = ? AND status IN (queued, running), and its
\* commit.  The number of updated rows is not looked at.
Claim(w) ==
    /\ pc[w] = "selected"
    /\ Commit(w)
    /\ job' = IF Acknowledged(w)[held[w]].status \in {"queued", "running"}
              THEN [Acknowledged(w) EXCEPT ![held[w]] =
                        [status |-> "running", attempts |-> @.attempts + 1, stale |-> FALSE]]
              ELSE Acknowledged(w)
    /\ done' = [done EXCEPT ![w] = None]
    /\ row' = [row EXCEPT ![w] = NoRow]
    /\ pc' = [pc EXCEPT ![w] = "claimed"]
    /\ UNCHANGED <<ready, held, target, returned, faults>>

\* claim's session.get: the row is read again, in a new transaction.
Load(w) ==
    /\ pc[w] = "claimed"
    /\ Read(w)
    /\ row' = [row EXCEPT ![w] = job[held[w]]]
    /\ pc' = [pc EXCEPT ![w] = "running"]
    /\ UNCHANGED <<job, ready, held, done, target, returned, faults>>

\* The handler writes (on PostgreSQL that is not visible to anybody) ...
HandlerFlush(w) ==
    /\ pc[w] = "running"
    /\ Flush(w)
    /\ UNCHANGED queueVars

\* ... and commits.
HandlerCommit(w) ==
    /\ pc[w] = "running"
    /\ SQLite => writer = w
    /\ Commit(w)
    /\ UNCHANGED queueVars

\* The handler returns; finish sets the status in memory only.
HandlerReturns(w) ==
    /\ pc[w] = "running"
    /\ done' = [done EXCEPT ![w] = held[w]]
    /\ returned' = returned \cup {held[w]}
    /\ pc' = [pc EXCEPT ![w] = "next"]
    /\ held' = [held EXCEPT ![w] = None]
    /\ UNCHANGED <<job, ready, row, target, faults, txnVars>>

\* The handler raises (or no handler is registered): rollback.
HandlerRaises(w) ==
    /\ pc[w] = "running"
    /\ Rollback(w)
    /\ pc' = [pc EXCEPT ![w] = "raised"]
    /\ UNCHANGED <<job, ready, held, row, done, target, returned, faults>>

\* The expired row is read again ...
Reload(w) ==
    /\ pc[w] = "raised"
    /\ Read(w)
    /\ row' = [row EXCEPT ![w] = job[held[w]]]
    /\ pc' = [pc EXCEPT ![w] = "reloaded"]
    /\ UNCHANGED <<job, ready, held, done, target, returned, faults>>

\* ... and finish(error=...) decides from it between FAILED and a retry whose
\* scheduled_at lies in the future.  Committed at once.
FinishError(w) ==
    /\ pc[w] = "reloaded"
    /\ Commit(w)
    /\ job' = Overwrite(held[w], row[w], IF Exhausted(w) THEN "failed" ELSE "queued")
    /\ ready' = IF Exhausted(w) THEN ready ELSE Postponed(held[w])
    /\ pc' = [pc EXCEPT ![w] = "next"]
    /\ held' = [held EXCEPT ![w] = None]
    /\ row' = [row EXCEPT ![w] = NoRow]
    /\ UNCHANGED <<done, target, returned, faults>>

\* Fault: Worker.run does not commit after run_pending.
EndBatchWithoutCommit(w) ==
    /\ pc[w] = "next"
    /\ Rollback(w)
    /\ done' = [done EXCEPT ![w] = None]
    /\ row' = [row EXCEPT ![w] = NoRow]
    /\ pc' = [pc EXCEPT ![w] = "idle"]
    /\ UNCHANGED <<job, ready, held, target, returned, faults>>

\* run_pending stops (nothing to claim, or the batch is full) and Worker.run
\* commits.
EndBatch(w) ==
    /\ pc[w] = "next"
    /\ IF done[w] = None THEN Rollback(w) ELSE Commit(w)
    /\ job' = Acknowledged(w)
    /\ done' = [done EXCEPT ![w] = None]
    /\ row' = [row EXCEPT ![w] = NoRow]
    /\ pc' = [pc EXCEPT ![w] = "idle"]
    /\ UNCHANGED <<ready, held, target, returned, faults>>

\* Worker.run found nothing to do and sleeps.
Poll(w) ==
    /\ pc[w] = "idle"
    /\ \A j \in Jobs : ~ IsNext(w, j)
    /\ UNCHANGED vars

\* The session is rolled back and its unflushed success is lost.
Drop(w) ==
    /\ Rollback(w)
    /\ pc' = [pc EXCEPT ![w] = "idle"]
    /\ held' = [held EXCEPT ![w] = None]
    /\ row' = [row EXCEPT ![w] = NoRow]
    /\ done' = [done EXCEPT ![w] = None]
    /\ UNCHANGED <<job, ready, target, returned>>

\* "database is locked" in claim, in finish's commit or in Worker.run's commit:
\* Worker.run catches it and starts over.
Locked(w) ==
    /\ \/ pc[w] \in {"selected", "reloaded"}
       \/ pc[w] = "next" /\ done[w] # None
    /\ ~ MayWrite(w)
    /\ Drop(w)
    /\ UNCHANGED faults

\* The worker process dies and is restarted, or its connection is lost
\* outside the handler.
Crash(w) ==
    /\ pc[w] # "idle"
    /\ faults < MaxFaults
    /\ faults' = faults + 1
    /\ Drop(w)

-----------------------------------------------------------------------------
(***************************************************************************)
(* The passing of time.                                                    *)
(***************************************************************************)
\* scheduled_at of a row that waits for its backoff is reached.
BecomesDue(j) ==
    /\ Exists(j)
    /\ ~ Due(j)
    /\ ready' = Append(ready, j)
    /\ UNCHANGED <<job, pc, held, row, done, target, returned, faults, txnVars>>

\* A row has been running for stale_after_seconds.  Its worker may be alive:
\* nothing renews started_at while a handler works.
BecomesStale(j) ==
    /\ job[j].status = "running"
    /\ ~ job[j].stale
    /\ job[j].attempts < MaxClaims
    /\ job' = [job EXCEPT ![j].stale = TRUE]
    /\ UNCHANGED <<ready, pc, held, row, done, target, returned, faults, txnVars>>

-----------------------------------------------------------------------------
ClientStep(c) ==
    \/ \E j \in Jobs : Enqueue(c, j) \/ SelectToCancel(c, j)
    \/ Cancel(c)
    \/ RequestRead(c) \/ RequestFlush(c) \/ RequestCommit(c) \/ RequestAbort(c)

\* The steps of a worker that has something to do.
WorkerStep(w) ==
    \/ \E j \in Jobs : Select(w, j)
    \/ Claim(w) \/ Load(w)
    \/ HandlerReturns(w) \/ HandlerRaises(w)
    \/ Reload(w) \/ FinishError(w) \/ EndBatch(w)
    \/ Locked(w)

Next ==
    \/ \E c \in Clients : ClientStep(c)
    \/ \E w \in Workers :
        \/ WorkerStep(w)
        \/ HandlerFlush(w) \/ HandlerCommit(w)
        \/ Poll(w)
        \/ Crash(w)
    \/ \E j \in Jobs : BecomesDue(j) \/ BecomesStale(j)

Spec == Init /\ [][Next]_vars

\* A worker process that is up keeps executing, a request that was begun is
\* ended, and time passes.
Fairness ==
    /\ \A c \in Clients : WF_vars(RequestAbort(c))
    /\ \A w \in Workers : WF_vars(WorkerStep(w))
    /\ \A j \in Jobs : WF_vars(BecomesDue(j)) /\ WF_vars(BecomesStale(j))

FairSpec == Spec /\ Fairness

-----------------------------------------------------------------------------
(***************************************************************************)
(* Properties.                                                             *)
(***************************************************************************)
\* claim() takes only a row that is runnable at the moment its UPDATE commits:
\* queued, or abandoned for stale_after_seconds, and past its backoff.  The
\* UPDATE's own WHERE clause does not say so; the SELECT before it did.
ClaimTakesRunnable ==
    [][\A j \in Jobs : job'[j].attempts # job[j].attempts => Claimable(j) /\ Due(j)]_vars

\* A job waiting in the queue has an attempt left: finish() never re-queues
\* a job whose attempts were used up, however many workers report on it.
QueuedHasAttemptLeft ==
    \A j \in Jobs : job[j].status = "queued" => job[j].attempts < MaxAttempts

\* While no worker crashes, a row marked running is being looked after: some
\* worker executes the job or is about to record its outcome, so nothing is
\* left for the stale timeout to recover.
LookedAfter(j) ==
    \E w \in Workers :
        \/ held[w] = j /\ pc[w] \in {"claimed", "running", "raised", "reloaded"}
        \/ done[w] = j

RunningIsLookedAfter ==
    faults = 0 => \A j \in Jobs : job[j].status = "running" => LookedAfter(j)

\* Every job that is enqueued is in the end settled, and stays so: retries,
\* abandoned executions and late reports come to an end.  This needs the
\* clients to fall silent: a cancellation can be undone by a late failure, and
\* on SQLite every write of a request can cost a worker its own.
ClientsFallSilent == <>[][~ \E c \in Clients : ClientStep(c)]_vars
EveryJobSettles == ClientsFallSilent => \A j \in Jobs : Exists(j) ~> []Settled(j)

\* The queue keeps the promises of DurableQueue.
Promise == INSTANCE DurableQueue WITH
    state <- [j \in Jobs |-> job[j].status],
    attempts <- [j \in Jobs |-> job[j].attempts]

ImplementsDurableQueue == Promise!Spec

(***************************************************************************)
(* What the documentation says and the code does not do.                   *)
(***************************************************************************)
\* "retried up to max_attempts" (platform/jobs.py, Guarantees).
AttemptsBounded == \A j \in Jobs : job[j].attempts <= MaxAttempts

\* "two workers cannot claim the same row" (JobQueue.claim): a row is claimed
\* only when nobody holds it, or when whoever held it is overdue.
OneWorkerPerClaim ==
    [][\A j \in Jobs :
        job[j].status = "running" /\ ~ job[j].stale => job'[j].attempts = job[j].attempts]_vars

\* "cancelled job is never executed" (tests/test_resilience.py): it is never put
\* back in the queue.
CancelledNeverRequeued ==
    [][\A j \in Jobs : job[j].status = "cancelled" => job'[j].status # "queued"]_vars
=============================================================================
