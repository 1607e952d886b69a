----------------------------- MODULE ScanPipeline -----------------------------
(***************************************************************************)
(* The life of a scan: POST /scan and POST /scan/{id}/cancel               *)
(* (api/routes.py), the scan.run job (platform/worker_jobs.py) and         *)
(* perform_scan (platform/scanning.py), on top of the job queue, whose     *)
(* steps they extend.  Every scan has one job, with the same id here.      *)
(*                                                                         *)
(* perform_scan works in one transaction: it flushes status = "running",   *)
(* runs the engine, writes findings, SBOM and final status, and its caller *)
(* commits.  From the flush on the session holds the scan's row lock       *)
(* (PostgreSQL) or the database's write lock (SQLite).                     *)
(***************************************************************************)
EXTENDS JobQueue

CONSTANTS
    Fingerprints,   \* what a run of the engine may report
    WaitModes       \* the values of "wait" clients use: a subset of BOOLEAN

ASSUME WaitAssumption == WaitModes \subseteq BOOLEAN

VARIABLES
    scan,       \* the committed status of each scan
    findings,   \* the committed findings of each scan
    sboms,      \* the number of SBOM rows of each scan
    subject,    \* the scan a session is working on
    seen,       \* the status in the session's copy of that scan
    phase,      \* how far the session is with it
    rowLock     \* PostgreSQL: the session that holds the lock of the scan's row

scanVars == <<scan, findings, sboms, subject, seen, phase, rowLock>>
allVars == <<vars, scanVars>>

Terminal == {"succeeded", "failed", "cancelled"}
Phase == {"none", "waiting", "loaded", "scanning", "saved",
          "cancelling", "flushed", "selected"}

ScanTypeOK ==
    /\ TypeOK
    /\ scan \in [Jobs -> Status \cup {"absent"}]
    /\ findings \in [Jobs -> SUBSET Fingerprints]
    /\ sboms \in [Jobs -> Nat]
    /\ subject \in [Sessions -> Jobs \cup {None}]
    /\ seen \in [Sessions -> Status \cup {"absent"}]
    /\ phase \in [Sessions -> Phase]
    /\ rowLock \in [Jobs -> Sessions \cup {None}]

ScanInit ==
    /\ Init
    /\ scan = [j \in Jobs |-> "absent"]
    /\ findings = [j \in Jobs |-> {}]
    /\ sboms = [j \in Jobs |-> 0]
    /\ subject = [e \in Sessions |-> None]
    /\ seen = [e \in Sessions |-> "absent"]
    /\ phase = [e \in Sessions |-> "none"]
    /\ rowLock = [j \in Jobs |-> None]

-----------------------------------------------------------------------------
\* Session e turns to scan j, of which it has a copy with the given status.
Begin(e, j, status, p) ==
    /\ subject' = [subject EXCEPT ![e] = j]
    /\ seen' = [seen EXCEPT ![e] = status]
    /\ phase' = [phase EXCEPT ![e] = p]

\* Session e goes on to phase p with its scan.
Advance(e, p) ==
    /\ phase' = [phase EXCEPT ![e] = p]
    /\ UNCHANGED <<subject, seen>>

End(e) == Begin(e, None, "absent", "none")

LockRow(e) ==
    /\ rowLock[subject[e]] = None
    /\ rowLock' = IF SQLite THEN rowLock ELSE [rowLock EXCEPT ![subject[e]] = e]

UnlockRows(e) ==
    rowLock' = [j \in Jobs |-> IF rowLock[j] = e THEN None ELSE rowLock[j]]

ScanRowsUnchanged == UNCHANGED <<scan, findings, sboms>>

-----------------------------------------------------------------------------
(***************************************************************************)
(* request_scan: scan and job are created in one commit.  With wait the    *)
(* same request then runs the scan itself, although the job is queued.     *)
(***************************************************************************)
RequestScan(c, j, wait) ==
    /\ phase[c] = "none"
    /\ Enqueue(c, j)
    /\ scan' = [scan EXCEPT ![j] = "queued"]
    /\ IF wait THEN Begin(c, j, "queued", "waiting") ELSE UNCHANGED <<subject, seen, phase>>
    /\ UNCHANGED <<findings, sboms, rowLock>>

\* _run_scan_inline selects the scan, but its session still has the object it
\* created: the status it tests is the one it wrote, "queued".
InlineLoad(c) ==
    /\ phase[c] = "waiting"
    /\ RequestRead(c)
    /\ Advance(c, "loaded")
    /\ ScanRowsUnchanged /\ UNCHANGED rowLock

-----------------------------------------------------------------------------
(***************************************************************************)
(* handle_scan_run and perform_scan, by a worker or inline.                *)
(***************************************************************************)
\* _load_scan follows claim's read of the job with no write in between (and on
\* SQLite in the same snapshot): one step.
LoadScan(w) ==
    /\ Load(w)
    /\ Begin(w, held[w], scan[held[w]], "loaded")
    /\ ScanRowsUnchanged /\ UNCHANGED rowLock

\* Faults: a succeeded scan is run again, or a cancelled one.
AlreadyCancelled(e) == seen[e] = "cancelled"
AlreadySucceeded(e) == seen[e] = "succeeded"

\* The scan needs no work any more.
AlreadyTerminal(e) == seen[e] \in {"succeeded", "cancelled"}

SkipScan(w) ==
    /\ phase[w] = "loaded"
    /\ AlreadyTerminal(w)
    /\ HandlerReturns(w)
    /\ End(w)
    /\ ScanRowsUnchanged /\ UNCHANGED rowLock

\* perform_scan's status = "running", flushed.  On PostgreSQL it waits for
\* another session's lock of the row, and then goes on.
StartScan(e) ==
    /\ phase[e] = "loaded"
    /\ ~ AlreadyTerminal(e)
    /\ IF e \in Workers THEN HandlerFlush(e) ELSE RequestFlush(e)
    /\ LockRow(e)
    /\ Advance(e, "scanning")
    /\ ScanRowsUnchanged

CommitScan(e) ==
    /\ phase[e] = "scanning"
    /\ IF e \in Workers THEN HandlerCommit(e) /\ Advance(e, "saved")
                        ELSE RequestCommit(e) /\ End(e)
    /\ UnlockRows(e)

\* The engine reports F.  A fingerprint the scan already has breaks the unique
\* constraint (scan_id, fingerprint): then only ScanRaises is possible.
CompleteScan(e, F) ==
    LET j == subject[e]
    IN  /\ CommitScan(e)
        /\ F \cap findings[j] = {}
        /\ findings' = [findings EXCEPT ![j] = @ \cup F]
        /\ sboms' = [sboms EXCEPT ![j] = @ + 1]
        /\ scan' = [scan EXCEPT ![j] = "succeeded"]

\* Faults: the scan is left as it was flushed, or with a status nobody knows.
TargetGoneStillRunning(e) ==
    /\ CommitScan(e)
    /\ scan' = [scan EXCEPT ![subject[e]] = "running"]
    /\ UNCHANGED <<findings, sboms>>
TargetGoneUnknownStatus(e) ==
    /\ CommitScan(e)
    /\ scan' = [scan EXCEPT ![subject[e]] = "error"]
    /\ UNCHANGED <<findings, sboms>>

\* TargetError: the target is gone.  The handler returns normally.
TargetGone(e) ==
    /\ CommitScan(e)
    /\ scan' = [scan EXCEPT ![subject[e]] = "failed"]
    /\ UNCHANGED <<findings, sboms>>

ReturnFromScan(w) ==
    /\ phase[w] = "saved"
    /\ HandlerReturns(w)
    /\ End(w)
    /\ ScanRowsUnchanged /\ UNCHANGED rowLock

\* The policy does not resolve, the engine raises, or the database refuses a
\* write.  perform_scan sets status = "failed" before it re-raises an engine's
\* exception; the worker's rollback undoes that with everything else.
ScanRaises(w) ==
    /\ phase[w] \in {"loaded", "scanning"}
    /\ HandlerRaises(w)
    /\ End(w)
    /\ UnlockRows(w)
    /\ ScanRowsUnchanged

-----------------------------------------------------------------------------
(***************************************************************************)
(* cancel_scan.                                                            *)
(***************************************************************************)
CancelRead(c, j) ==
    /\ phase[c] = "none"
    /\ Exists(j) /\ scan[j] \notin Terminal
    /\ RequestRead(c)
    /\ Begin(c, j, scan[j], "cancelling")
    /\ ScanRowsUnchanged /\ UNCHANGED rowLock

\* The SELECT of the jobs flushes UPDATE scans SET status = 'cancelled' first.
CancelFlush(c) ==
    /\ phase[c] = "cancelling"
    /\ RequestFlush(c)
    /\ LockRow(c)
    /\ Advance(c, "flushed")
    /\ ScanRowsUnchanged

\* Fault: the jobs of the scan are not selected by their status.
CancelSelectAnyJob(c) ==
    /\ phase[c] = "flushed"
    /\ Read(c)
    /\ target' = [target EXCEPT ![c] = subject[c]]
    /\ Advance(c, "selected")
    /\ UNCHANGED <<job, ready, pc, held, row, done, returned, faults>>
    /\ ScanRowsUnchanged /\ UNCHANGED rowLock

CancelSelectJob(c) ==
    /\ phase[c] = "flushed"
    /\ SelectToCancel(c, subject[c])
    /\ Advance(c, "selected")
    /\ ScanRowsUnchanged /\ UNCHANGED rowLock

CancelCommit(c) ==
    /\ \/ phase[c] = "selected" /\ Cancel(c)
       \/ phase[c] = "flushed" /\ job[subject[c]].status \in Terminal /\ RequestCommit(c)
    /\ scan' = [scan EXCEPT ![subject[c]] = "cancelled"]
    /\ End(c)
    /\ UnlockRows(c)
    /\ UNCHANGED <<findings, sboms>>

\* A request fails: refused by SQLite, an exception of an inline scan (HTTP
\* 500), a lost connection.  Nothing of its transaction remains.
RequestFails(c) ==
    /\ phase[c] # "none"
    /\ RequestAbort(c)
    /\ End(c)
    /\ UnlockRows(c)
    /\ ScanRowsUnchanged

-----------------------------------------------------------------------------
\* The queue's own steps, in which a session leaves its scan ...
LeaveScan(w) ==
    /\ Locked(w) \/ Crash(w)
    /\ End(w)
    /\ UnlockRows(w)
    /\ ScanRowsUnchanged

\* ... and those that touch no scan.
QueueStep(w) ==
    /\ \/ \E j \in Jobs : Select(w, j)
       \/ Claim(w) \/ Reload(w) \/ FinishError(w) \/ EndBatch(w) \/ Poll(w)
    /\ UNCHANGED scanVars

TimePasses(j) ==
    /\ BecomesDue(j) \/ BecomesStale(j)
    /\ UNCHANGED scanVars

ExecutorStep(w) ==
    \/ LoadScan(w) \/ SkipScan(w) \/ StartScan(w)
    \/ \E F \in SUBSET Fingerprints : CompleteScan(w, F)
    \/ TargetGone(w) \/ ReturnFromScan(w) \/ ScanRaises(w)

RequestStep(c) ==
    \/ \E j \in Jobs : CancelRead(c, j) \/ \E wait \in WaitModes : RequestScan(c, j, wait)
    \/ InlineLoad(c) \/ StartScan(c)
    \/ \E F \in SUBSET Fingerprints : CompleteScan(c, F)
    \/ TargetGone(c)
    \/ CancelFlush(c) \/ CancelSelectJob(c) \/ CancelCommit(c)
    \/ RequestFails(c)

ScanNext ==
    \/ \E w \in Workers : QueueStep(w) \/ ExecutorStep(w) \/ LeaveScan(w)
    \/ \E c \in Clients : RequestStep(c)
    \/ \E j \in Jobs : TimePasses(j)

ScanSpec == ScanInit /\ [][ScanNext]_allVars

\* A worker that is up keeps executing, a request ends, and time passes.
FairScanSpec ==
    /\ ScanSpec
    /\ \A w \in Workers : WF_allVars(QueueStep(w) \/ ExecutorStep(w) \/ (Locked(w) /\ LeaveScan(w)))
    /\ \A c \in Clients : WF_allVars(RequestFails(c))
    /\ \A j \in Jobs :
        /\ WF_allVars(BecomesDue(j) /\ TimePasses(j))
        /\ WF_allVars(BecomesStale(j) /\ TimePasses(j))

-----------------------------------------------------------------------------
(***************************************************************************)
(* Properties.                                                             *)
(***************************************************************************)
\* The pipeline uses the queue as module JobQueue describes it.
UsesJobQueue == Spec

\* The answer the queue gives about a job agrees with the scan: when the job
\* has succeeded, the scan is over, whichever executor, retry or cancellation
\* ended it.
DoneJobMeansSettledScan ==
    \A j \in Jobs : job[j].status = "succeeded" => scan[j] \in Terminal

\* Findings, SBOM and "succeeded" are published together and once: a scan has
\* results exactly if it succeeded, whatever was retried, replayed or
\* cancelled in between.
ResultsExactlyWhenSucceeded ==
    \A j \in Jobs :
        /\ sboms[j] = IF scan[j] = "succeeded" THEN 1 ELSE 0
        /\ findings[j] # {} => scan[j] = "succeeded"

\* A scan that succeeded or was cancelled stays so: a worker that was late, or
\* started before the cancellation, cannot bring it back.
SettledScanStays ==
    [][\A j \in Jobs : scan[j] \in {"succeeded", "cancelled"} => scan'[j] = scan[j]]_allVars

\* A scan that was requested comes to an end, or its job is given up, once
\* clients stop sending requests that interfere with it.
RequestsStop == <>[][~ \E c \in Clients : RequestStep(c)]_allVars
EveryScanAnswered ==
    RequestsStop => \A j \in Jobs : Exists(j) ~> (scan[j] \in Terminal \/ job[j].status = "failed")

(***************************************************************************)
(* What the documentation says and the code does not do.                   *)
(***************************************************************************)
\* "Always leaves the scan row in a terminal state" (perform_scan): when the
\* queue has given the job up, the scan is over.
FailedJobMeansSettledScan ==
    \A j \in Jobs : job[j].status = "failed" => scan[j] \in Terminal

\* "re-running it against a scan that already succeeded is a no-op"
\* (handle_scan_run).
RerunIsNoOp ==
    [][\A j \in Jobs : scan[j] = "succeeded" => sboms'[j] = sboms[j]]_allVars

\* "409 Conflict (... cancelling a finished scan)" (docs/API.md).
FinishedScanNotCancelled ==
    [][\A j \in Jobs : scan[j] = "succeeded" => scan'[j] # "cancelled"]_allVars
=============================================================================
