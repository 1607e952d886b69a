-------------------------- MODULE ScanPipeline_proofs --------------------------
(***************************************************************************)
(* Theorems about module ScanPipeline, on both dialects, for any number of *)
(* sessions and scans, with inline scans or without:                       *)
(*   - the pipeline uses the queue as module JobQueue describes it, so     *)
(*     that every theorem about the queue holds of the pipeline;           *)
(*   - type correctness;                                                   *)
(*   - a job that has succeeded has a scan that is over.                   *)
(***************************************************************************)
EXTENDS ScanPipeline, JobQueue_proofs

-----------------------------------------------------------------------------
(***************************************************************************)
(* Types.  A session that is at work on a scan has one.                    *)
(***************************************************************************)
CopyTypes ==
    /\ subject \in [Sessions -> Jobs \cup {None}]
    /\ seen \in [Sessions -> Status \cup {"absent"}]
    /\ phase \in [Sessions -> Phase]

RowTypes ==
    /\ scan \in [Jobs -> Status \cup {"absent"}]
    /\ findings \in [Jobs -> SUBSET Fingerprints]
    /\ sboms \in [Jobs -> Nat]
    /\ rowLock \in [Jobs -> Sessions \cup {None}]

Working == \A e \in Sessions : phase[e] # "none" => subject[e] \in Jobs

PipelineTypes == TypeInv /\ CopyTypes /\ RowTypes /\ Working

\* What each way of handling the copy of a scan keeps.
LEMMA CopyKept ==
    ASSUME CopyTypes, Working, NEW e \in Sessions,
           \/ \E j \in Jobs, s \in Status \cup {"absent"}, p \in Phase : Begin(e, j, s, p)
           \/ phase[e] # "none" /\ \E p \in Phase : Advance(e, p)
           \/ End(e)
           \/ UNCHANGED <<subject, seen, phase>>
    PROVE  CopyTypes' /\ Working'
<1> USE DEF CopyTypes, Working
<1>1. CASE \E j \in Jobs, s \in Status \cup {"absent"}, p \in Phase : Begin(e, j, s, p)
    BY <1>1 DEF Begin
<1>2. CASE phase[e] # "none" /\ \E p \in Phase : Advance(e, p)
    BY <1>2 DEF Advance
<1>3. CASE End(e)
    BY <1>3 DEF End, Begin, Phase
<1>4. CASE UNCHANGED <<subject, seen, phase>>
    BY <1>4
<1> QED  BY <1>1, <1>2, <1>3, <1>4

\* Locks go to sessions.
LEMMA LockKept ==
    ASSUME RowTypes, CopyTypes, NEW e \in Sessions,
           LockRow(e) \/ UnlockRows(e) \/ UNCHANGED rowLock
    PROVE  rowLock' \in [Jobs -> Sessions \cup {None}]
<1>1. CASE LockRow(e)  BY <1>1 DEF RowTypes, LockRow
<1>2. CASE UnlockRows(e)  BY <1>2 DEF RowTypes, UnlockRows
<1>3. CASE UNCHANGED rowLock  BY <1>3 DEF RowTypes
<1> QED  BY <1>1, <1>2, <1>3

LEMMA ExecutorTypes ==
    ASSUME PipelineTypes, NEW e \in Sessions,
           \/ e \in Workers /\ ExecutorStep(e)
           \/ StartScan(e) \/ TargetGone(e) \/ \E F \in SUBSET Fingerprints : CompleteScan(e, F)
    PROVE  CopyTypes' /\ RowTypes' /\ Working'
<1> USE DEF PipelineTypes
<1>1. CASE e \in Workers /\ LoadScan(e)
    <2>1. held[e] \in Jobs  BY <1>1 DEF LoadScan, Load, TypeInv, Holding
    <2>2. scan[held[e]] \in Status \cup {"absent"}  BY <2>1 DEF RowTypes
    <2>3. "loaded" \in Phase  BY DEF Phase
    <2>4. CopyTypes' /\ Working'  BY <1>1, <2>1, <2>2, <2>3, CopyKept DEF LoadScan
    <2> QED  BY <1>1, <2>4 DEF LoadScan, ScanRowsUnchanged, RowTypes
<1>2. CASE e \in Workers /\ (SkipScan(e) \/ ReturnFromScan(e))
    <2>1. CopyTypes' /\ Working'  BY <1>2, CopyKept DEF SkipScan, ReturnFromScan
    <2> QED  BY <1>2, <2>1 DEF SkipScan, ReturnFromScan, ScanRowsUnchanged, RowTypes
<1>3. CASE StartScan(e)
    <2>1. "scanning" \in Phase  BY DEF Phase
    <2>2. CopyTypes' /\ Working'  BY <1>3, <2>1, CopyKept DEF StartScan
    <2>3. rowLock' \in [Jobs -> Sessions \cup {None}]  BY <1>3, LockKept DEF StartScan
    <2> QED  BY <1>3, <2>2, <2>3 DEF StartScan, ScanRowsUnchanged, RowTypes
<1>4. ASSUME CommitScan(e)
      PROVE  /\ CopyTypes' /\ Working' /\ rowLock' \in [Jobs -> Sessions \cup {None}]
             /\ subject[e] \in Jobs
    <2>1. "saved" \in Phase  BY DEF Phase
    <2>2. CopyTypes' /\ Working'  BY <1>4, <2>1, CopyKept DEF CommitScan
    <2>3. rowLock' \in [Jobs -> Sessions \cup {None}]  BY <1>4, LockKept DEF CommitScan
    <2> QED  BY <1>4, <2>2, <2>3 DEF CommitScan, Working
<1>5. ASSUME NEW F \in SUBSET Fingerprints, CompleteScan(e, F)
      PROVE  CopyTypes' /\ RowTypes' /\ Working'
    <2>1. CommitScan(e)  BY <1>5 DEF CompleteScan
    <2>2. subject[e] \in Jobs  BY <1>4, <2>1
    <2>3. /\ scan' \in [Jobs -> Status \cup {"absent"}]
          /\ findings' \in [Jobs -> SUBSET Fingerprints]
          /\ sboms' \in [Jobs -> Nat]
        BY <1>5, <2>2 DEF CompleteScan, RowTypes, Status
    <2> QED  BY <1>4, <2>1, <2>3 DEF RowTypes
<1>6. CASE TargetGone(e)
    <2>1. CommitScan(e)  BY <1>6 DEF TargetGone
    <2>2. /\ scan' \in [Jobs -> Status \cup {"absent"}]
          /\ UNCHANGED <<findings, sboms>>
        BY <1>6 DEF TargetGone, RowTypes, Status
    <2> QED  BY <1>4, <2>1, <2>2 DEF RowTypes
<1>7. CASE e \in Workers /\ ScanRaises(e)
    <2>1. CopyTypes' /\ Working'  BY <1>7, CopyKept DEF ScanRaises
    <2>2. rowLock' \in [Jobs -> Sessions \cup {None}]  BY <1>7, LockKept DEF ScanRaises
    <2> QED  BY <1>7, <2>1, <2>2 DEF ScanRaises, ScanRowsUnchanged, RowTypes
<1> QED  BY <1>1, <1>2, <1>3, <1>5, <1>6, <1>7 DEF ExecutorStep

LEMMA RequestTypes ==
    ASSUME PipelineTypes, NEW c \in Clients, RequestStep(c)
    PROVE  CopyTypes' /\ RowTypes' /\ Working'
<1> USE DEF PipelineTypes
<1>a. c \in Sessions  BY DEF Clients
<1>b. {"waiting", "loaded", "cancelling", "flushed", "selected"} \subseteq Phase  BY DEF Phase
<1>c. "queued" \in Status /\ "cancelled" \in Status  BY DEF Status
<1>1. ASSUME NEW j \in Jobs, NEW wait \in WaitModes, RequestScan(c, j, wait)
      PROVE  CopyTypes' /\ RowTypes' /\ Working'
    <2>1. CopyTypes' /\ Working'  BY <1>a, <1>b, <1>c, <1>1, CopyKept DEF RequestScan
    <2>2. scan' \in [Jobs -> Status \cup {"absent"}]  BY <1>c, <1>1 DEF RequestScan, RowTypes
    <2> QED  BY <1>1, <2>1, <2>2 DEF RequestScan, RowTypes
<1>2. ASSUME NEW j \in Jobs, CancelRead(c, j)
      PROVE  CopyTypes' /\ RowTypes' /\ Working'
    <2>1. scan[j] \in Status \cup {"absent"}  BY DEF RowTypes
    <2>2. CopyTypes' /\ Working'  BY <1>a, <1>b, <1>2, <2>1, CopyKept DEF CancelRead
    <2> QED  BY <1>2, <2>2 DEF CancelRead, ScanRowsUnchanged, RowTypes
<1>3. CASE InlineLoad(c) \/ CancelSelectJob(c)
    <2>1. CopyTypes' /\ Working'
        BY <1>a, <1>b, <1>3, CopyKept DEF InlineLoad, CancelSelectJob
    <2> QED  BY <1>3, <2>1 DEF InlineLoad, CancelSelectJob, ScanRowsUnchanged, RowTypes
<1>4. CASE CancelFlush(c)
    <2>1. CopyTypes' /\ Working'  BY <1>a, <1>b, <1>4, CopyKept DEF CancelFlush
    <2>2. rowLock' \in [Jobs -> Sessions \cup {None}]  BY <1>a, <1>4, LockKept DEF CancelFlush
    <2> QED  BY <1>4, <2>1, <2>2 DEF CancelFlush, ScanRowsUnchanged, RowTypes
<1>5. CASE CancelCommit(c)
    <2>1. CopyTypes' /\ Working'  BY <1>a, <1>5, CopyKept DEF CancelCommit
    <2>2. rowLock' \in [Jobs -> Sessions \cup {None}]  BY <1>a, <1>5, LockKept DEF CancelCommit
    <2>3. scan' \in [Jobs -> Status \cup {"absent"}]  BY <1>c, <1>5 DEF CancelCommit, RowTypes
    <2> QED  BY <1>5, <2>1, <2>2, <2>3 DEF CancelCommit, RowTypes
<1>6. CASE RequestFails(c)
    <2>1. CopyTypes' /\ Working'  BY <1>a, <1>6, CopyKept DEF RequestFails
    <2>2. rowLock' \in [Jobs -> Sessions \cup {None}]  BY <1>a, <1>6, LockKept DEF RequestFails
    <2> QED  BY <1>6, <2>1, <2>2 DEF RequestFails, ScanRowsUnchanged, RowTypes
<1>7. CASE StartScan(c) \/ TargetGone(c) \/ \E F \in SUBSET Fingerprints : CompleteScan(c, F)
    BY <1>a, <1>7, ExecutorTypes
<1> QED  BY <1>1, <1>2, <1>3, <1>4, <1>5, <1>6, <1>7 DEF RequestStep

-----------------------------------------------------------------------------
(***************************************************************************)
(* Every step of the pipeline is a step of the queue.                      *)
(***************************************************************************)
LEMMA ExecutorUsesQueue ==
    ASSUME NEW w \in Workers, ExecutorStep(w)
    PROVE  WorkerStep(w) \/ HandlerFlush(w) \/ HandlerCommit(w)
BY DEF ExecutorStep, LoadScan, SkipScan, StartScan, CompleteScan, CommitScan, TargetGone,
       ReturnFromScan, ScanRaises, WorkerStep

LEMMA RequestUsesQueue ==
    ASSUME Working, NEW c \in Clients, RequestStep(c)
    PROVE  ClientStep(c)
<1>1. c \notin Workers /\ c \in Sessions
    BY DEF Clients
<1>2. CASE \E j \in Jobs : \E wait \in WaitModes : RequestScan(c, j, wait)
    BY <1>2 DEF RequestScan, ClientStep
<1>3. CASE \E j \in Jobs : CancelRead(c, j)
    BY <1>3 DEF CancelRead, ClientStep
<1>4. CASE InlineLoad(c) \/ StartScan(c) \/ TargetGone(c) \/ RequestFails(c)
    BY <1>1, <1>4
    DEF InlineLoad, StartScan, TargetGone, CommitScan, RequestFails, ClientStep
<1>5. CASE \E F \in SUBSET Fingerprints : CompleteScan(c, F)
    BY <1>1, <1>5 DEF CompleteScan, CommitScan, ClientStep
<1>6. CASE CancelFlush(c) \/ CancelCommit(c)
    BY <1>6 DEF CancelFlush, CancelCommit, ClientStep
<1>7. CASE CancelSelectJob(c)
    BY <1>1, <1>7 DEF CancelSelectJob, ClientStep, Working
<1> QED  BY <1>2, <1>3, <1>4, <1>5, <1>6, <1>7 DEF RequestStep

LEMMA StepUsesQueue ==
    ASSUME Working, [ScanNext]_allVars
    PROVE  [Next]_vars
<1>1. CASE UNCHANGED allVars
    BY <1>1 DEF allVars
<1>2. ASSUME NEW w \in Workers, QueueStep(w) \/ LeaveScan(w)  PROVE [Next]_vars
    BY <1>2 DEF QueueStep, LeaveScan, Next, WorkerStep
<1>3. ASSUME NEW w \in Workers, ExecutorStep(w)  PROVE [Next]_vars
    BY <1>3, ExecutorUsesQueue DEF Next
<1>4. ASSUME NEW c \in Clients, RequestStep(c)  PROVE [Next]_vars
    BY <1>4, RequestUsesQueue DEF Next
<1>5. ASSUME NEW j \in Jobs, TimePasses(j)  PROVE [Next]_vars
    BY <1>5 DEF TimePasses, Next
<1> QED  BY <1>1, <1>2, <1>3, <1>4, <1>5 DEF ScanNext

LEMMA InitTypes == ScanInit => PipelineTypes
<1> SUFFICES ASSUME ScanInit  PROVE PipelineTypes
    OBVIOUS
<1>1. TypeInv  BY InitType DEF ScanInit
<1>2. CopyTypes /\ RowTypes /\ Working
    BY DEF ScanInit, CopyTypes, RowTypes, Working, Phase
<1> QED  BY <1>1, <1>2 DEF PipelineTypes

LEMMA TypesKept ==
    ASSUME PipelineTypes, [ScanNext]_allVars
    PROVE  PipelineTypes'
<1>1. TypeInv'
    BY StepUsesQueue, NextType DEF PipelineTypes
<1>2. CopyTypes' /\ RowTypes' /\ Working'
    <2>1. CASE UNCHANGED scanVars
        BY <2>1 DEF scanVars, PipelineTypes, CopyTypes, RowTypes, Working
    <2>2. ASSUME NEW w \in Workers, LeaveScan(w)  PROVE CopyTypes' /\ RowTypes' /\ Working'
        <3>1. w \in Sessions  BY WorkersAssumption
        <3>2. CopyTypes' /\ Working'  BY <2>2, <3>1, CopyKept DEF LeaveScan, PipelineTypes
        <3>3. rowLock' \in [Jobs -> Sessions \cup {None}]
            BY <2>2, <3>1, LockKept DEF LeaveScan, PipelineTypes
        <3> QED  BY <2>2, <3>2, <3>3 DEF LeaveScan, ScanRowsUnchanged, PipelineTypes, RowTypes
    <2>3. ASSUME NEW w \in Workers, ExecutorStep(w)  PROVE CopyTypes' /\ RowTypes' /\ Working'
        BY <2>3, ExecutorTypes, WorkersAssumption
    <2>4. ASSUME NEW c \in Clients, RequestStep(c)  PROVE CopyTypes' /\ RowTypes' /\ Working'
        BY <2>4, RequestTypes
    <2>5. UNCHANGED allVars => UNCHANGED scanVars
        BY DEF allVars
    <2> QED
        BY <2>1, <2>2, <2>3, <2>4, <2>5 DEF ScanNext, QueueStep, TimePasses
<1> QED  BY <1>1, <1>2 DEF PipelineTypes

\* The pipeline's variables have their types, whatever requests, workers and
\* crashes do to one another.
THEOREM ScanTypeCorrect == ScanSpec => []ScanTypeOK
<1>1. ScanInit => PipelineTypes  BY InitTypes
<1>2. PipelineTypes /\ [ScanNext]_allVars => PipelineTypes'  BY TypesKept
<1>3. PipelineTypes => ScanTypeOK
    BY DEF PipelineTypes, TypeInv, CopyTypes, RowTypes, ScanTypeOK
<1> QED  BY <1>1, <1>2, <1>3, PTL DEF ScanSpec

\* The scan handler, the inline scans and the cancellation use the queue only
\* as module JobQueue says.
THEOREM PipelineUsesJobQueue == ScanSpec => UsesJobQueue
<1>1. ScanInit => PipelineTypes  BY InitTypes
<1>2. PipelineTypes /\ [ScanNext]_allVars => PipelineTypes'  BY TypesKept
<1>3. ScanInit => Init  BY DEF ScanInit
<1>4. PipelineTypes /\ [ScanNext]_allVars => [Next]_vars
    BY StepUsesQueue DEF PipelineTypes
<1> QED  BY <1>1, <1>2, <1>3, <1>4, PTL DEF ScanSpec, UsesJobQueue, Spec

-----------------------------------------------------------------------------
(***************************************************************************)
(* A job is acknowledged only when its scan is over.  The handler returns  *)
(* only for a scan that it found, or left, in a terminal status, and no    *)
(* executor and no request takes a scan out of one.                        *)
(***************************************************************************)
Executing(w) ==
    phase[w] # "none" =>
        /\ pc[w] = "running" /\ subject[w] = held[w]
        /\ phase[w] = "saved" \/ (phase[w] = "loaded" /\ AlreadyTerminal(w))
            => scan[subject[w]] \in Terminal

Answered ==
    /\ \A j \in Jobs : job[j].status = "succeeded" => j \in returned
    /\ \A j \in returned : Exists(j) /\ scan[j] \in Terminal
    /\ \A w \in Workers : Executing(w)

AnsweredInv == PipelineTypes /\ Known /\ Answered

LEMMA TerminalStays ==
    ASSUME PipelineTypes, [ScanNext]_allVars, NEW j \in Jobs, Exists(j), scan[j] \in Terminal
    PROVE  scan'[j] \in Terminal
<1> USE DEF Terminal
<1>1. scan \in [Jobs -> Status \cup {"absent"}]
    BY DEF PipelineTypes, RowTypes
<1>2. CASE UNCHANGED scan
    BY <1>2
<1>3. ASSUME NEW e \in Sessions,
             TargetGone(e) \/ \E F \in SUBSET Fingerprints : CompleteScan(e, F)
      PROVE  scan'[j] \in Terminal
    BY <1>1, <1>3 DEF TargetGone, CompleteScan
<1>4. ASSUME NEW w \in Workers, ExecutorStep(w)  PROVE scan'[j] \in Terminal
    BY <1>2, <1>3, <1>4, WorkersAssumption
    DEF ExecutorStep, LoadScan, SkipScan, StartScan, ReturnFromScan, ScanRaises,
        ScanRowsUnchanged
<1>5. ASSUME NEW c \in Clients, NEW k \in Jobs, NEW wait \in WaitModes, RequestScan(c, k, wait)
      PROVE  scan'[j] \in Terminal
    BY <1>1, <1>5 DEF RequestScan, Enqueue
<1>6. ASSUME NEW c \in Clients, CancelCommit(c)  PROVE scan'[j] \in Terminal
    BY <1>1, <1>6 DEF CancelCommit
<1>7. ASSUME NEW c \in Clients, RequestStep(c)  PROVE scan'[j] \in Terminal
    <2>1. c \in Sessions  BY DEF Clients
    <2> QED
        BY <1>2, <1>3, <1>5, <1>6, <1>7, <2>1
        DEF RequestStep, CancelRead, InlineLoad, StartScan, CancelFlush, CancelSelectJob,
            RequestFails, ScanRowsUnchanged
<1>8. ASSUME NEW w \in Workers, QueueStep(w) \/ LeaveScan(w)  PROVE scan'[j] \in Terminal
    BY <1>2, <1>8 DEF QueueStep, LeaveScan, ScanRowsUnchanged, scanVars
<1>9. ASSUME NEW k \in Jobs, TimePasses(k)  PROVE scan'[j] \in Terminal
    BY <1>2, <1>9 DEF TimePasses, scanVars
<1> QED  BY <1>2, <1>4, <1>7, <1>8, <1>9 DEF ScanNext, allVars, scanVars

LEMMA RowsStay ==
    ASSUME TypeInv, Known, [Next]_vars, NEW j \in Jobs, Exists(j)
    PROVE  Exists(j)'
<1>1. CASE UNCHANGED vars  BY <1>1 DEF vars, queueVars, Exists
<1>2. CASE Next
    <2>1. \A k \in Jobs : AbstractMove(k)  BY <1>2, NextMoves
    <2>2. TypeOK  BY DEF TypeInv
    <2> QED  BY <2>1, <2>2, MoveGrows DEF Grows
<1> QED  BY <1>1, <1>2

\* The queue records a success only of a handler that returned.
LEMMA SuccessReturned ==
    ASSUME TypeInv, Known, [Next]_vars,
           \A j \in Jobs : job[j].status = "succeeded" => j \in returned
    PROVE  \A j \in Jobs : job'[j].status = "succeeded" => j \in returned'
<1>1. CASE UNCHANGED vars  BY <1>1 DEF vars, queueVars
<1>2. CASE Next
    <2>1. \A j \in Jobs : AbstractMove(j)  BY <1>2, NextMoves
    <2>2. returned \subseteq returned'  BY <1>2, NextMoves
    <2> QED  BY <2>1, <2>2 DEF AbstractMove
<1> QED  BY <1>1, <1>2

\* Only SkipScan and ReturnFromScan report that a handler has returned.
LEMMA WhoReturns ==
    ASSUME [ScanNext]_allVars
    PROVE  \/ returned' = returned
           \/ \E w \in Workers : /\ SkipScan(w) \/ ReturnFromScan(w)
                                 /\ returned' = returned \cup {held[w]}
<1>1. CASE UNCHANGED allVars
    BY <1>1 DEF allVars, vars, queueVars
<1>2. ASSUME NEW w \in Workers, QueueStep(w) \/ LeaveScan(w)  PROVE returned' = returned
    BY <1>2 DEF QueueStep, LeaveScan, Select, Claim, Reload, FinishError, EndBatch, Poll,
        Locked, Crash, Drop, vars, queueVars
<1>3. ASSUME NEW w \in Workers, ExecutorStep(w), ~ SkipScan(w), ~ ReturnFromScan(w)
      PROVE  returned' = returned
    BY <1>3, WorkersAssumption
    DEF ExecutorStep, LoadScan, Load, StartScan, HandlerFlush, CompleteScan, CommitScan,
        HandlerCommit, TargetGone, ScanRaises, HandlerRaises, queueVars
<1>4. ASSUME NEW w \in Workers, SkipScan(w) \/ ReturnFromScan(w)
      PROVE  returned' = returned \cup {held[w]}
    BY <1>4 DEF SkipScan, ReturnFromScan, HandlerReturns
<1>5. ASSUME NEW c \in Clients, RequestStep(c)  PROVE returned' = returned
    <2>1. c \notin Workers  BY DEF Clients
    <2> QED
        BY <1>5, <2>1
        DEF RequestStep, RequestScan, Enqueue, CancelRead, InlineLoad, RequestRead, StartScan,
            RequestFlush, CompleteScan, CommitScan, RequestCommit, TargetGone, CancelFlush,
            CancelSelectJob, SelectToCancel, CancelCommit, Cancel, RequestFails, RequestAbort,
            queueVars
<1>6. ASSUME NEW j \in Jobs, TimePasses(j)  PROVE returned' = returned
    BY <1>6 DEF TimePasses, BecomesDue, BecomesStale
<1> QED  BY <1>1, <1>2, <1>3, <1>4, <1>5, <1>6 DEF ScanNext

\* What a worker is doing with its scan changes only by its own steps.
LEMMA OthersLeaveAlone ==
    ASSUME PipelineTypes, NEW w \in Workers, NEW e \in Sessions, e # w,
           \/ e \in Workers /\ (QueueStep(e) \/ ExecutorStep(e) \/ LeaveScan(e))
           \/ e \in Clients /\ RequestStep(e)
           \/ \E j \in Jobs : TimePasses(j)
    PROVE  UNCHANGED <<pc[w], held[w], subject[w], seen[w], phase[w]>>
<1> USE DEF PipelineTypes, TypeInv, TypeOK, CopyTypes
<1>a. w \in Sessions  BY WorkersAssumption
<1>1. ASSUME e \in Workers, QueueStep(e)
      PROVE  UNCHANGED <<pc[w], held[w], subject[w], seen[w], phase[w]>>
    BY <1>1 DEF QueueStep, Select, Claim, Reload, FinishError, EndBatch, Poll, scanVars, vars,
        queueVars
<1>2. ASSUME e \in Workers, LeaveScan(e)
      PROVE  UNCHANGED <<pc[w], held[w], subject[w], seen[w], phase[w]>>
    BY <1>a, <1>2 DEF LeaveScan, Locked, Crash, Drop, End, Begin
<1>3. ASSUME CommitScan(e)
      PROVE  UNCHANGED <<pc[w], held[w], subject[w], seen[w], phase[w]>>
    BY <1>a, <1>3
    DEF CommitScan, HandlerCommit, RequestCommit, Advance, End, Begin, queueVars
<1>4. ASSUME StartScan(e)
      PROVE  UNCHANGED <<pc[w], held[w], subject[w], seen[w], phase[w]>>
    BY <1>a, <1>4 DEF StartScan, HandlerFlush, RequestFlush, Advance, queueVars
<1>5. ASSUME e \in Workers, ExecutorStep(e)
      PROVE  UNCHANGED <<pc[w], held[w], subject[w], seen[w], phase[w]>>
    <2>1. CASE LoadScan(e)
        BY <1>a, <2>1 DEF LoadScan, Load, Begin
    <2>2. CASE SkipScan(e) \/ ReturnFromScan(e)
        BY <1>a, <1>5, <2>2 DEF SkipScan, ReturnFromScan, HandlerReturns, End, Begin
    <2>3. CASE ScanRaises(e)
        BY <1>a, <1>5, <2>3 DEF ScanRaises, HandlerRaises, End, Begin
    <2> QED
        BY <1>3, <1>4, <1>5, <2>1, <2>2, <2>3 DEF ExecutorStep, CompleteScan, TargetGone
<1>6. ASSUME e \in Clients, RequestStep(e)
      PROVE  UNCHANGED <<pc[w], held[w], subject[w], seen[w], phase[w]>>
    <2>1. CASE \E j \in Jobs : \E wait \in WaitModes : RequestScan(e, j, wait)
        BY <1>a, <2>1 DEF RequestScan, Enqueue, Begin
    <2>2. CASE (\E j \in Jobs : CancelRead(e, j)) \/ InlineLoad(e) \/ CancelFlush(e)
        BY <1>a, <2>2
        DEF CancelRead, InlineLoad, CancelFlush, RequestRead, RequestFlush, Begin, Advance,
            queueVars
    <2>3. CASE CancelSelectJob(e)
        BY <1>a, <2>3 DEF CancelSelectJob, SelectToCancel, Advance
    <2>4. CASE CancelCommit(e)
        BY <1>a, <2>4 DEF CancelCommit, Cancel, RequestCommit, End, Begin, queueVars
    <2>5. CASE RequestFails(e)
        BY <1>a, <2>5 DEF RequestFails, RequestAbort, End, Begin
    <2> QED
        BY <1>3, <1>4, <1>6, <2>1, <2>2, <2>3, <2>4, <2>5
        DEF RequestStep, CompleteScan, TargetGone
<1>7. ASSUME NEW j \in Jobs, TimePasses(j)
      PROVE  UNCHANGED <<pc[w], held[w], subject[w], seen[w], phase[w]>>
    BY <1>7 DEF TimePasses, BecomesDue, BecomesStale, scanVars
<1> QED  BY <1>1, <1>2, <1>5, <1>6, <1>7

\* A worker's scan stays over while the others work.
LEMMA ExecutingUndisturbed ==
    ASSUME AnsweredInv, [ScanNext]_allVars, NEW w \in Workers,
           UNCHANGED <<pc[w], held[w], subject[w], seen[w], phase[w]>>
    PROVE  Executing(w)'
<1>1. Executing(w)  BY DEF AnsweredInv, Answered
<1>2. CASE phase[w] = "none"  BY <1>2 DEF Executing
<1>3. CASE phase[w] # "none"
    <2>1. pc[w] = "running" /\ subject[w] = held[w]
        BY <1>1, <1>3 DEF Executing
    <2>2. held[w] \in Jobs
        BY <2>1 DEF AnsweredInv, PipelineTypes, TypeInv, Holding
    <2>3. Exists(subject[w])
        BY <2>1, <2>2, NoJobAssumption DEF AnsweredInv, Known
    <2>4. scan[subject[w]] \in Terminal => scan'[subject[w]] \in Terminal
        BY <2>1, <2>2, <2>3, TerminalStays DEF AnsweredInv
    <2> QED  BY <1>1, <1>3, <2>1, <2>4 DEF Executing, AlreadyTerminal
<1> QED  BY <1>2, <1>3

LEMMA OwnStepExecuting ==
    ASSUME AnsweredInv, NEW w \in Workers,
           QueueStep(w) \/ ExecutorStep(w) \/ LeaveScan(w)
    PROVE  Executing(w)'
<1> USE DEF Executing
<1>a. w \in Sessions  BY WorkersAssumption
<1>b. CopyTypes /\ RowTypes /\ Executing(w) /\ TypeOK /\ Holding /\ Working
    BY DEF AnsweredInv, Answered, PipelineTypes, TypeInv
<1>1. CASE QueueStep(w)
    <2>1. pc[w] # "running" /\ UNCHANGED phase
        BY <1>1 DEF QueueStep, Select, Claim, Reload, FinishError, EndBatch, Poll, scanVars
    <2> QED  BY <1>b, <2>1
<1>2. CASE LeaveScan(w) \/ SkipScan(w) \/ ReturnFromScan(w) \/ ScanRaises(w)
    <2>1. phase'[w] = "none"
        BY <1>a, <1>b, <1>2
        DEF LeaveScan, SkipScan, ReturnFromScan, ScanRaises, End, Begin, CopyTypes
    <2> QED  BY <2>1
<1>3. CASE LoadScan(w)
    <2>1. held[w] \in Jobs
        BY <1>b, <1>3 DEF LoadScan, Load, Holding
    <2>2. /\ pc'[w] = "running" /\ phase'[w] = "loaded"
          /\ UNCHANGED <<held, scan>>
          /\ subject'[w] = held[w] /\ seen'[w] = scan[held[w]]
        BY <1>a, <1>b, <1>3 DEF LoadScan, Load, Begin, ScanRowsUnchanged, CopyTypes, TypeOK
    <2> QED  BY <2>1, <2>2 DEF AlreadyTerminal, Terminal
<1>4. CASE StartScan(w)
    <2>1. phase[w] # "none" /\ phase'[w] = "scanning" /\ UNCHANGED <<pc, held, subject>>
        BY <1>a, <1>b, <1>4 DEF StartScan, HandlerFlush, Advance, CopyTypes, queueVars
    <2> QED  BY <1>b, <2>1
<1>5. CASE TargetGone(w) \/ \E F \in SUBSET Fingerprints : CompleteScan(w, F)
    <2>1. CommitScan(w)
        BY <1>5 DEF TargetGone, CompleteScan
    <2>2. phase[w] # "none" /\ phase'[w] = "saved" /\ UNCHANGED <<pc, held, subject>>
        BY <1>a, <1>b, <2>1 DEF CommitScan, HandlerCommit, Advance, CopyTypes, queueVars
    <2>3. subject[w] \in Jobs
        BY <1>a, <1>b, <2>2 DEF Working
    <2>4. scan'[subject[w]] \in Terminal
        BY <1>b, <1>5, <2>3 DEF TargetGone, CompleteScan, RowTypes, Terminal
    <2> QED  BY <1>b, <2>2, <2>4
<1> QED  BY <1>1, <1>2, <1>3, <1>4, <1>5 DEF ExecutorStep

LEMMA ExecutingKept ==
    ASSUME AnsweredInv, [ScanNext]_allVars, NEW w \in Workers
    PROVE  Executing(w)'
<1>a. w \in Sessions /\ PipelineTypes
    BY WorkersAssumption DEF AnsweredInv
<1>1. CASE UNCHANGED allVars
    BY <1>1, ExecutingUndisturbed DEF allVars, scanVars, vars, queueVars
<1>2. ASSUME NEW e \in Workers, QueueStep(e) \/ ExecutorStep(e) \/ LeaveScan(e)
      PROVE  Executing(w)'
    <2>1. CASE e = w
        BY <1>2, <2>1, OwnStepExecuting
    <2>2. CASE e # w
        <3>1. e \in Sessions  BY WorkersAssumption
        <3>2. UNCHANGED <<pc[w], held[w], subject[w], seen[w], phase[w]>>
            BY <1>a, <1>2, <2>2, <3>1, OthersLeaveAlone
        <3> QED  BY <3>2, ExecutingUndisturbed
    <2> QED  BY <2>1, <2>2
<1>3. ASSUME NEW c \in Clients, RequestStep(c)  PROVE Executing(w)'
    <2>1. c \in Sessions /\ c # w  BY DEF Clients
    <2>2. UNCHANGED <<pc[w], held[w], subject[w], seen[w], phase[w]>>
        BY <1>a, <1>3, <2>1, OthersLeaveAlone
    <2> QED  BY <2>2, ExecutingUndisturbed
<1>4. ASSUME NEW j \in Jobs, TimePasses(j)  PROVE Executing(w)'
    <2>1. UNCHANGED <<pc[w], held[w], subject[w], seen[w], phase[w]>>
        BY <1>4 DEF TimePasses, BecomesDue, BecomesStale, scanVars
    <2> QED  BY <2>1, ExecutingUndisturbed
<1> QED  BY <1>1, <1>2, <1>3, <1>4 DEF ScanNext

\* Every handler that has returned had a scan that was over, and it still is.
LEMMA ReturnedKept ==
    ASSUME AnsweredInv, [ScanNext]_allVars, NEW j \in returned'
    PROVE  Exists(j)' /\ scan'[j] \in Terminal
<1>a. PipelineTypes /\ TypeInv /\ TypeOK /\ Known /\ [Next]_vars
    BY StepUsesQueue DEF AnsweredInv, PipelineTypes, TypeInv
<1>b. returned \subseteq Jobs  BY <1>a DEF TypeOK
<1>1. ASSUME j \in Jobs, Exists(j), scan[j] \in Terminal
      PROVE  Exists(j)' /\ scan'[j] \in Terminal
    BY <1>a, <1>1, RowsStay, TerminalStays
<1>2. CASE j \in returned
    BY <1>1, <1>b, <1>2 DEF AnsweredInv, Answered
<1>3. CASE j \notin returned
    <2>1. PICK w \in Workers : (SkipScan(w) \/ ReturnFromScan(w)) /\ j = held[w]
        BY <1>3, WhoReturns
    <2>2. phase[w] = "saved" \/ (phase[w] = "loaded" /\ AlreadyTerminal(w))
        BY <2>1 DEF SkipScan, ReturnFromScan
    <2>3. /\ pc[w] = "running"
          /\ subject[w] = j /\ scan[j] \in Terminal
        BY <2>1, <2>2 DEF AnsweredInv, Answered, Executing
    <2>4. j \in Jobs  BY <1>a, <2>1, <2>3 DEF TypeInv, Holding
    <2>5. Exists(j)
        BY <1>a, <2>1, <2>4, NoJobAssumption DEF Known
    <2> QED  BY <1>1, <2>3, <2>4, <2>5
<1> QED  BY <1>2, <1>3

LEMMA AnsweredKept == AnsweredInv /\ [ScanNext]_allVars => AnsweredInv'
<1> SUFFICES ASSUME AnsweredInv, [ScanNext]_allVars  PROVE AnsweredInv'
    OBVIOUS
<1>1. PipelineTypes /\ TypeInv /\ Known /\ [Next]_vars
    BY StepUsesQueue DEF AnsweredInv, PipelineTypes
<1>2. PipelineTypes'  BY <1>1, TypesKept
<1>3. Known'  BY <1>1, KnownKept
<1>4. \A j \in Jobs : job'[j].status = "succeeded" => j \in returned'
    BY <1>1, SuccessReturned DEF AnsweredInv, Answered
<1>5. \A j \in returned' : Exists(j)' /\ scan'[j] \in Terminal
    BY ReturnedKept
<1>6. \A w \in Workers : Executing(w)'
    BY ExecutingKept
<1> QED  BY <1>2, <1>3, <1>4, <1>5, <1>6 DEF AnsweredInv, Answered

LEMMA AnsweredInitially == ScanInit => AnsweredInv
<1> SUFFICES ASSUME ScanInit  PROVE AnsweredInv
    OBVIOUS
<1>1. PipelineTypes  BY InitTypes
<1>2. Known  BY NoJobAssumption DEF ScanInit, Init, Known, Exists, NoRow
<1>3. Answered
    BY WorkersAssumption DEF ScanInit, Init, NoRow, Answered, Executing
<1> QED  BY <1>1, <1>2, <1>3 DEF AnsweredInv

\* A client that is told its job has succeeded finds the scan over, on either
\* dialect, with any number of workers, inline scans, crashes, takeovers,
\* replays, retries and cancellations.
THEOREM DoneJobsHaveSettledScans == ScanSpec => []DoneJobMeansSettledScan
<1>1. ScanInit => AnsweredInv  BY AnsweredInitially
<1>2. AnsweredInv /\ [ScanNext]_allVars => AnsweredInv'  BY AnsweredKept
<1>3. AnsweredInv => DoneJobMeansSettledScan
    BY DEF AnsweredInv, Answered, DoneJobMeansSettledScan
<1> QED  BY <1>1, <1>2, <1>3, PTL DEF ScanSpec

\* What the queue promises it keeps with the real handler, too: no job of a
\* scan is lost, and none is given up before its attempts are used up.
THEOREM ScansKeepQueuePromise == ScanSpec => ImplementsDurableQueue
BY PipelineUsesJobQueue, RefinesDurableQueue DEF UsesJobQueue

-----------------------------------------------------------------------------
(***************************************************************************)
(* The results of a scan.  Only four actions write a scan's rows, and only *)
(* one of them writes "succeeded", with the SBOM in the same commit.       *)
(***************************************************************************)
Ends(e) == TargetGone(e) \/ \E F \in SUBSET Fingerprints : CompleteScan(e, F)

LEMMA WhoWritesScans ==
    ASSUME [ScanNext]_allVars
    PROVE  \/ ScanRowsUnchanged
           \/ \E e \in Sessions : Ends(e)
           \/ \E c \in Clients : CancelCommit(c)
           \/ \E c \in Clients, j \in Jobs, wait \in WaitModes : RequestScan(c, j, wait)
<1>1. CASE UNCHANGED allVars
    BY <1>1 DEF allVars, scanVars, ScanRowsUnchanged
<1>2. ASSUME NEW w \in Workers, QueueStep(w) \/ LeaveScan(w) \/ ExecutorStep(w), ~ Ends(w)
      PROVE  ScanRowsUnchanged
    BY <1>2
    DEF Ends, QueueStep, LeaveScan, ExecutorStep, LoadScan, SkipScan, StartScan, ReturnFromScan,
        ScanRaises, ScanRowsUnchanged, scanVars
<1>3. ASSUME NEW c \in Clients, RequestStep(c), ~ Ends(c), ~ CancelCommit(c),
             ~ \E j \in Jobs, wait \in WaitModes : RequestScan(c, j, wait)
      PROVE  ScanRowsUnchanged
    BY <1>3
    DEF Ends, RequestStep, CancelRead, InlineLoad, StartScan, CancelFlush, CancelSelectJob,
        RequestFails, ScanRowsUnchanged
<1>4. ASSUME NEW j \in Jobs, TimePasses(j)  PROVE ScanRowsUnchanged
    BY <1>4 DEF TimePasses, scanVars, ScanRowsUnchanged
<1>5. Workers \subseteq Sessions /\ Clients \subseteq Sessions
    BY WorkersAssumption DEF Clients
<1> QED  BY <1>1, <1>2, <1>3, <1>4, <1>5 DEF ScanNext

-----------------------------------------------------------------------------
(***************************************************************************)
(* On SQLite, without inline scans, a scan is executed and settled once.   *)
(* A session that decides from its copy of a scan (to run it, to skip it,  *)
(* to cancel it) has read that copy in the transaction in which it writes; *)
(* as long as its snapshot is current, the copy is what is stored.  An     *)
(* inline scan breaks that chain: its copy is older than its transaction.  *)
(***************************************************************************)
NoInlineScans == WaitModes \subseteq {FALSE}

Deciding == {"loaded", "scanning", "cancelling", "flushed", "selected"}

TrueCopy(e) ==
    /\ phase[e] # "waiting"
    /\ phase[e] \in Deciding =>
            snap[e] # "none" /\ (snap[e] = "current" => seen[e] = scan[subject[e]])
    /\ phase[e] = "scanning" => ~ AlreadyTerminal(e)
    /\ phase[e] \in {"cancelling", "flushed", "selected"} => seen[e] \notin Terminal

Requested(e) == phase[e] # "none" => Exists(subject[e])

Unrequested == \A j \in Jobs : ~ Exists(j) => scan[j] = "absent"

OnceInv ==
    /\ AnsweredInv
    /\ \A e \in Sessions : TrueCopy(e) /\ Requested(e)
    /\ Unrequested
    /\ ResultsExactlyWhenSucceeded

\* Working on its own scan a session does not touch the copies of the others.
LEMMA OthersKeepCopies ==
    ASSUME CopyTypes, NEW e \in Sessions, NEW f \in Sessions, e # f,
           \/ e \in Workers /\ (QueueStep(e) \/ ExecutorStep(e) \/ LeaveScan(e))
           \/ e \in Clients /\ RequestStep(e)
    PROVE  UNCHANGED <<subject[f], seen[f], phase[f]>>
<1> USE DEF CopyTypes
<1>1. ASSUME \/ \E j \in Jobs, s \in Status \cup {"absent", None}, p \in Phase : Begin(e, j, s, p)
             \/ \E p \in Phase : Advance(e, p)
             \/ End(e)
      PROVE  UNCHANGED <<subject[f], seen[f], phase[f]>>
    BY <1>1 DEF Begin, Advance, End
<1>2. CASE UNCHANGED <<subject, seen, phase>>
    BY <1>2
<1>3. CASE StartScan(e) \/ Ends(e)
    <2>1. Advance(e, "scanning") \/ Advance(e, "saved") \/ End(e)
        BY <1>3 DEF StartScan, Ends, TargetGone, CompleteScan, CommitScan
    <2> QED  BY <2>1 DEF Advance, End, Begin
<1>4. CASE e \in Workers /\ (QueueStep(e) \/ LeaveScan(e))
    BY <1>1, <1>2, <1>4 DEF QueueStep, LeaveScan, scanVars
<1>5. CASE e \in Workers /\ ExecutorStep(e)
    <2>1. CASE LoadScan(e)
        BY <2>1 DEF LoadScan, Begin
    <2>2. CASE SkipScan(e) \/ ReturnFromScan(e) \/ ScanRaises(e)
        BY <1>1, <2>2 DEF SkipScan, ReturnFromScan, ScanRaises
    <2> QED  BY <1>3, <1>5, <2>1, <2>2 DEF ExecutorStep, Ends
<1>6. CASE e \in Clients /\ RequestStep(e)
    <2>1. CASE \E j \in Jobs, wait \in WaitModes : RequestScan(e, j, wait)
        BY <2>1 DEF RequestScan, Begin
    <2>2. CASE \E j \in Jobs : CancelRead(e, j)
        BY <2>2 DEF CancelRead, Begin
    <2>3. CASE InlineLoad(e) \/ CancelFlush(e) \/ CancelSelectJob(e)
        BY <2>3 DEF InlineLoad, CancelFlush, CancelSelectJob, Advance
    <2>4. CASE CancelCommit(e) \/ RequestFails(e)
        BY <1>1, <2>4 DEF CancelCommit, RequestFails
    <2> QED  BY <1>3, <1>6, <2>1, <2>2, <2>3, <2>4 DEF RequestStep, Ends
<1> QED  BY <1>4, <1>5, <1>6

\* Either a step commits, or it changes no scan and no snapshot of others.
LEMMA CommitsOrLeavesAlone ==
    ASSUME TxnTypeOK, NEW e \in Sessions, NEW f \in Sessions, e # f,
           \/ e \in Workers /\ (QueueStep(e) \/ ExecutorStep(e) \/ LeaveScan(e))
           \/ e \in Clients /\ RequestStep(e)
    PROVE  Commit(e) \/ UNCHANGED <<scan, snap[f]>>
<1>1. ASSUME Read(e) \/ Flush(e) \/ Rollback(e) \/ UNCHANGED txnVars, UNCHANGED scan
      PROVE  UNCHANGED <<scan, snap[f]>>
    BY <1>1, SnapshotOfOthers DEF txnVars
<1>2. CASE StartScan(e)
    BY <1>1, <1>2 DEF StartScan, HandlerFlush, RequestFlush, ScanRowsUnchanged
<1>3. CASE Ends(e)
    BY <1>3 DEF Ends, TargetGone, CompleteScan, CommitScan, HandlerCommit, RequestCommit
<1>4. CASE e \in Workers /\ QueueStep(e)
    BY <1>1, <1>4
    DEF QueueStep, Select, Claim, Reload, FinishError, EndBatch, Poll, scanVars, vars
<1>5. CASE e \in Workers /\ LeaveScan(e)
    BY <1>1, <1>5 DEF LeaveScan, Locked, Crash, Drop, ScanRowsUnchanged
<1>6. CASE e \in Workers /\ ExecutorStep(e)
    BY <1>1, <1>2, <1>3, <1>6
    DEF Ends, ExecutorStep, LoadScan, Load, SkipScan, ReturnFromScan, HandlerReturns,
        ScanRaises, HandlerRaises, ScanRowsUnchanged
<1>7. CASE e \in Clients /\ RequestStep(e)
    <2>1. CASE \E j \in Jobs, wait \in WaitModes : RequestScan(e, j, wait)
        BY <2>1 DEF RequestScan, Enqueue
    <2>2. CASE CancelCommit(e)
        BY <2>2 DEF CancelCommit, Cancel, RequestCommit
    <2>3. CASE \/ \E j \in Jobs : CancelRead(e, j)
               \/ InlineLoad(e) \/ CancelFlush(e) \/ CancelSelectJob(e) \/ RequestFails(e)
        BY <1>1, <2>3
        DEF CancelRead, InlineLoad, RequestRead, CancelFlush, RequestFlush, CancelSelectJob,
            SelectToCancel, RequestFails, RequestAbort, ScanRowsUnchanged
    <2> QED  BY <1>2, <1>3, <1>7, <2>1, <2>2, <2>3 DEF RequestStep, Ends
<1> QED  BY <1>4, <1>5, <1>6, <1>7

\* A copy stays true, or its session's snapshot is known to be out of date.
LEMMA TrueCopyUndisturbed ==
    ASSUME NEW f \in Sessions, TrueCopy(f), UNCHANGED <<subject[f], seen[f], phase[f]>>,
           (\E e \in Sessions \ {f} : Commit(e)) \/ UNCHANGED <<scan, snap[f]>>
    PROVE  TrueCopy(f)'
<1>1. ASSUME NEW e \in Sessions \ {f}, Commit(e)  PROVE TrueCopy(f)'
    <2>1. snap'[f] # "current" /\ (snap[f] # "none" => snap'[f] # "none")
        BY <1>1, NobodyCurrent
    <2> QED  BY <2>1 DEF TrueCopy, AlreadyTerminal
<1>2. CASE UNCHANGED <<scan, snap[f]>>
    BY <1>2 DEF TrueCopy, AlreadyTerminal
<1> QED  BY <1>1, <1>2

\* A copy that a session reads is true, and what it goes on to do with the scan
\* it does because of what it read.
LEMMA OwnCopyTrue ==
    ASSUME SQLite, NoInlineScans, OnceInv, NEW e \in Sessions,
           \/ e \in Workers /\ (QueueStep(e) \/ ExecutorStep(e) \/ LeaveScan(e))
           \/ e \in Clients /\ RequestStep(e)
    PROVE  TrueCopy(e)'
<1> USE DEF TrueCopy, Deciding, AlreadyTerminal
<1>a. CopyTypes /\ TxnTypeOK /\ TrueCopy(e) /\ TypeOK /\ Holding
    BY DEF OnceInv, AnsweredInv, PipelineTypes, TypeInv, TypeOK
<1>1. ASSUME End(e)  PROVE TrueCopy(e)'
    <2>1. phase'[e] = "none"  BY <1>a, <1>1 DEF End, Begin, CopyTypes
    <2> QED  BY <2>1
<1>2. CASE Ends(e)
    <2>1. CASE End(e)  BY <1>1, <2>1
    <2>2. CASE Advance(e, "saved")
        <3>1. phase'[e] = "saved"  BY <1>a, <2>2 DEF Advance, CopyTypes
        <3> QED  BY <3>1
    <2> QED  BY <1>2, <2>1, <2>2 DEF Ends, TargetGone, CompleteScan, CommitScan
<1>3. CASE StartScan(e)
    <2>1. /\ phase[e] = "loaded" /\ ~ AlreadyTerminal(e) /\ Flush(e)
          /\ UNCHANGED <<subject, seen, scan>>
        BY <1>3 DEF StartScan, HandlerFlush, RequestFlush, Advance, ScanRowsUnchanged
    <2>2. phase'[e] = "scanning"
        BY <1>a, <1>3 DEF StartScan, Advance, CopyTypes
    <2>3. snap'[e] # "none" /\ (snap[e] # "none" => snap'[e] = snap[e])
        BY <1>a, <2>1, SnapshotTaken
    <2> QED  BY <1>a, <2>1, <2>2, <2>3
<1>4. CASE e \in Workers /\ QueueStep(e)
    <2>1. pc[e] # "running" /\ UNCHANGED phase
        BY <1>4 DEF QueueStep, Select, Claim, Reload, FinishError, EndBatch, Poll, scanVars
    <2>2. phase'[e] = "none"
        BY <1>4, <2>1 DEF OnceInv, AnsweredInv, Answered, Executing
    <2> QED  BY <2>2
<1>5. CASE e \in Workers /\ LoadScan(e)
    <2>1. Read(e) /\ held[e] \in Jobs /\ UNCHANGED scan
        BY <1>a, <1>5 DEF LoadScan, Load, ScanRowsUnchanged, Holding
    <2>2. phase'[e] = "loaded" /\ subject'[e] = held[e] /\ seen'[e] = scan[held[e]]
        BY <1>a, <1>5 DEF LoadScan, Begin, CopyTypes
    <2>3. snap'[e] # "none"  BY <1>a, <2>1, SnapshotTaken
    <2> QED  BY <2>1, <2>2, <2>3
<1>6. CASE e \in Clients /\ \E j \in Jobs, wait \in WaitModes : RequestScan(e, j, wait)
    <2>1. phase'[e] = "none"
        BY <1>6 DEF RequestScan, NoInlineScans
    <2> QED  BY <2>1
<1>7. ASSUME NEW j \in Jobs, CancelRead(e, j)  PROVE TrueCopy(e)'
    <2>1. Read(e) /\ scan[j] \notin Terminal /\ UNCHANGED scan
        BY <1>7 DEF CancelRead, RequestRead, ScanRowsUnchanged
    <2>2. phase'[e] = "cancelling" /\ subject'[e] = j /\ seen'[e] = scan[j]
        BY <1>a, <1>7 DEF CancelRead, Begin, CopyTypes
    <2>3. snap'[e] # "none"  BY <1>a, <2>1, SnapshotTaken
    <2> QED  BY <2>1, <2>2, <2>3
<1>8. CASE CancelFlush(e) \/ CancelSelectJob(e)
    <2>1. /\ phase[e] \in {"cancelling", "flushed"} /\ phase'[e] \in {"flushed", "selected"}
          /\ Read(e) \/ Flush(e)
          /\ UNCHANGED <<subject, seen, scan>>
        BY <1>a, <1>8
        DEF CancelFlush, RequestFlush, CancelSelectJob, SelectToCancel, Advance,
            ScanRowsUnchanged, CopyTypes
    <2>2. snap'[e] # "none" /\ (snap[e] # "none" => snap'[e] = snap[e])
        BY <1>a, <2>1, SnapshotTaken
    <2> QED  BY <1>a, <2>1, <2>2
<1>9. CASE LeaveScan(e) \/ SkipScan(e) \/ ReturnFromScan(e) \/ ScanRaises(e)
           \/ CancelCommit(e) \/ RequestFails(e)
    BY <1>1, <1>9
    DEF LeaveScan, SkipScan, ReturnFromScan, ScanRaises, CancelCommit, RequestFails
<1>10. ~ InlineLoad(e)
    BY <1>a DEF InlineLoad
<1> QED
    BY <1>2, <1>3, <1>4, <1>5, <1>6, <1>7, <1>8, <1>9, <1>10
    DEF ExecutorStep, RequestStep, Ends

LEMMA CopiesStayTrue ==
    ASSUME SQLite, NoInlineScans, OnceInv, [ScanNext]_allVars, NEW f \in Sessions
    PROVE  TrueCopy(f)'
<1>a. CopyTypes /\ TxnTypeOK /\ TrueCopy(f)
    BY DEF OnceInv, AnsweredInv, PipelineTypes, TypeInv, TypeOK
<1>1. CASE UNCHANGED allVars
    BY <1>a, <1>1, TrueCopyUndisturbed DEF allVars, vars, scanVars, txnVars
<1>2. ASSUME NEW e \in Sessions,
             \/ e \in Workers /\ (QueueStep(e) \/ ExecutorStep(e) \/ LeaveScan(e))
             \/ e \in Clients /\ RequestStep(e)
      PROVE  TrueCopy(f)'
    <2>1. CASE e = f
        BY <1>2, <2>1, OwnCopyTrue
    <2>2. CASE e # f
        <3>1. UNCHANGED <<subject[f], seen[f], phase[f]>>
            BY <1>a, <1>2, <2>2, OthersKeepCopies
        <3>2. Commit(e) \/ UNCHANGED <<scan, snap[f]>>
            BY <1>a, <1>2, <2>2, CommitsOrLeavesAlone
        <3> QED  BY <1>a, <2>2, <3>1, <3>2, TrueCopyUndisturbed
    <2> QED  BY <2>1, <2>2
<1>3. ASSUME NEW j \in Jobs, TimePasses(j)  PROVE TrueCopy(f)'
    BY <1>a, <1>3, TrueCopyUndisturbed
    DEF TimePasses, BecomesDue, BecomesStale, scanVars, txnVars
<1>4. Workers \subseteq Sessions /\ Clients \subseteq Sessions
    BY WorkersAssumption DEF Clients
<1> QED  BY <1>1, <1>2, <1>3, <1>4 DEF ScanNext

\* The four actions that write a scan's rows, and what they find there.
LEMMA WritersFind ==
    ASSUME SQLite, OnceInv, NEW e \in Sessions
    PROVE  /\ Ends(e) => /\ subject[e] \in Jobs
                         /\ scan[subject[e]] \notin {"succeeded", "cancelled"}
           /\ CancelCommit(e) => /\ subject[e] \in Jobs
                                 /\ scan[subject[e]] \notin Terminal
           /\ \A j \in Jobs, wait \in WaitModes : RequestScan(e, j, wait) => scan[j] = "absent"
<1>a. TrueCopy(e) /\ TxnTypeOK /\ Working /\ Unrequested
    BY DEF OnceInv, AnsweredInv, PipelineTypes, TypeInv, TypeOK
<1>1. ASSUME Commit(e), phase[e] \in Deciding
      PROVE  subject[e] \in Jobs /\ scan[subject[e]] = seen[e]
    <2>1. snap[e] = "current"
        BY <1>a, <1>1, CommitsOnCurrent DEF TrueCopy
    <2> QED  BY <1>a, <1>1, <2>1 DEF TrueCopy, Working, Deciding
<1>2. ASSUME Ends(e)
      PROVE  subject[e] \in Jobs /\ scan[subject[e]] \notin {"succeeded", "cancelled"}
    <2>1. Commit(e) /\ phase[e] = "scanning"
        BY <1>2 DEF Ends, TargetGone, CompleteScan, CommitScan, HandlerCommit, RequestCommit
    <2> QED  BY <1>a, <1>1, <2>1 DEF TrueCopy, Deciding, AlreadyTerminal
<1>3. ASSUME CancelCommit(e)  PROVE subject[e] \in Jobs /\ scan[subject[e]] \notin Terminal
    <2>1. Commit(e) /\ phase[e] \in {"flushed", "selected"}
        BY <1>3 DEF CancelCommit, Cancel, RequestCommit
    <2> QED  BY <1>a, <1>1, <2>1 DEF TrueCopy, Deciding
<1>4. ASSUME NEW j \in Jobs, NEW wait \in WaitModes, RequestScan(e, j, wait)
      PROVE  scan[j] = "absent"
    BY <1>a, <1>4 DEF RequestScan, Enqueue, Unrequested
<1> QED  BY <1>2, <1>3, <1>4

\* A session turns only to scans that have been requested.
LEMMA OwnScanRequested ==
    ASSUME NoInlineScans, OnceInv, NEW e \in Sessions,
           \/ e \in Workers /\ (QueueStep(e) \/ ExecutorStep(e) \/ LeaveScan(e))
           \/ e \in Clients /\ RequestStep(e)
    PROVE  \/ phase'[e] = "none"
           \/ phase[e] # "none" /\ subject'[e] = subject[e]
           \/ subject'[e] \in Jobs /\ Exists(subject'[e])
<1>a. CopyTypes /\ Holding /\ Known /\ TrueCopy(e)
    BY DEF OnceInv, AnsweredInv, PipelineTypes, TypeInv
<1>1. End(e) => phase'[e] = "none"
    BY <1>a DEF End, Begin, CopyTypes
<1>2. CASE phase[e] # "none" /\ \E p \in Phase : Advance(e, p)
    BY <1>2 DEF Advance
<1>3. CASE StartScan(e) \/ Ends(e)
    <2>1. phase[e] # "none" /\ (subject' = subject \/ End(e))
        BY <1>3 DEF StartScan, Ends, TargetGone, CompleteScan, CommitScan, Advance
    <2> QED  BY <1>1, <2>1
<1>4. CASE e \in Workers /\ QueueStep(e)
    BY <1>4 DEF QueueStep, scanVars
<1>5. CASE e \in Workers /\ LoadScan(e)
    <2>1. held[e] \in Jobs /\ subject'[e] = held[e]
        BY <1>a, <1>5 DEF LoadScan, Load, Begin, CopyTypes, Holding
    <2> QED  BY <1>a, <1>5, <2>1, NoJobAssumption DEF Known
<1>6. CASE e \in Clients /\ \E j \in Jobs, wait \in WaitModes : RequestScan(e, j, wait)
    BY <1>6 DEF RequestScan, NoInlineScans
<1>7. ASSUME NEW j \in Jobs, CancelRead(e, j)
      PROVE  subject'[e] \in Jobs /\ Exists(subject'[e])
    BY <1>a, <1>7 DEF CancelRead, Begin, CopyTypes
<1>8. CASE CancelFlush(e) \/ CancelSelectJob(e)
    BY <1>8 DEF CancelFlush, CancelSelectJob, Advance
<1>9. CASE LeaveScan(e) \/ SkipScan(e) \/ ReturnFromScan(e) \/ ScanRaises(e)
           \/ CancelCommit(e) \/ RequestFails(e)
    BY <1>1, <1>9
    DEF LeaveScan, SkipScan, ReturnFromScan, ScanRaises, CancelCommit, RequestFails
<1>10. ~ InlineLoad(e)
    BY <1>a DEF InlineLoad, TrueCopy
<1> QED
    BY <1>3, <1>4, <1>5, <1>6, <1>7, <1>8, <1>9, <1>10 DEF ExecutorStep, RequestStep, Ends

LEMMA RequestedKept ==
    ASSUME NoInlineScans, OnceInv, [ScanNext]_allVars, NEW f \in Sessions
    PROVE  Requested(f)'
<1>a. /\ CopyTypes /\ TypeInv /\ Known /\ Requested(f) /\ Working
      /\ [Next]_vars
    BY StepUsesQueue DEF OnceInv, AnsweredInv, PipelineTypes
<1>1. ASSUME \/ phase'[f] = "none"
             \/ phase[f] # "none" /\ subject'[f] = subject[f]
             \/ subject'[f] \in Jobs /\ Exists(subject'[f])
      PROVE  Requested(f)'
    <2>1. CASE phase'[f] # "none"
        <3>1. PICK j \in Jobs : Exists(j) /\ subject'[f] = j
            BY <1>a, <1>1, <2>1 DEF Requested, Working
        <3>2. Exists(j)'
            BY <1>a, <3>1, RowsStay
        <3> QED  BY <3>1, <3>2 DEF Requested, Exists
    <2> QED  BY <2>1 DEF Requested
<1>2. CASE UNCHANGED <<phase[f], subject[f]>>
    BY <1>1, <1>2
<1>3. ASSUME NEW e \in Sessions,
             \/ e \in Workers /\ (QueueStep(e) \/ ExecutorStep(e) \/ LeaveScan(e))
             \/ e \in Clients /\ RequestStep(e)
      PROVE  Requested(f)'
    <2>1. CASE e = f
        BY <1>1, <1>3, <2>1, OwnScanRequested
    <2>2. CASE e # f
        BY <1>a, <1>2, <1>3, <2>2, OthersKeepCopies
    <2> QED  BY <2>1, <2>2
<1>4. CASE UNCHANGED scanVars
    BY <1>2, <1>4 DEF scanVars
<1>5. Workers \subseteq Sessions /\ Clients \subseteq Sessions
    BY WorkersAssumption DEF Clients
<1> QED  BY <1>3, <1>4, <1>5 DEF ScanNext, allVars, TimePasses

LEMMA UnrequestedKept ==
    ASSUME SQLite, OnceInv, [ScanNext]_allVars
    PROVE  Unrequested'
<1>a. /\ TypeInv /\ TypeOK /\ Known /\ Unrequested /\ Working /\ RowTypes /\ [Next]_vars
      /\ \A e \in Sessions : Requested(e)
    BY StepUsesQueue DEF OnceInv, AnsweredInv, PipelineTypes, TypeInv
<1> SUFFICES ASSUME NEW j \in Jobs, ~ Exists(j)'  PROVE scan'[j] = "absent"
    BY DEF Unrequested
<1>1. ~ Exists(j) /\ scan[j] = "absent"
    BY <1>a, RowsStay DEF Unrequested
<1>2. CASE ScanRowsUnchanged
    BY <1>1, <1>2 DEF ScanRowsUnchanged
<1>3. ASSUME NEW e \in Sessions, Ends(e) \/ CancelCommit(e)  PROVE scan'[j] = "absent"
    <2>1. phase[e] # "none"
        BY <1>3 DEF Ends, TargetGone, CompleteScan, CommitScan, CancelCommit
    <2>2. subject[e] # j
        BY <1>a, <1>1, <2>1 DEF Requested
    <2> QED  BY <1>a, <1>1, <1>3, <2>2 DEF Ends, TargetGone, CompleteScan, CancelCommit, RowTypes
<1>4. ASSUME NEW c \in Clients, NEW k \in Jobs, NEW wait \in WaitModes, RequestScan(c, k, wait)
      PROVE  scan'[j] = "absent"
    <2>1. k # j
        BY <1>a, <1>4 DEF RequestScan, Enqueue, TypeOK, Exists, NoRow
    <2> QED  BY <1>a, <1>1, <1>4, <2>1 DEF RequestScan, RowTypes
<1>5. Clients \subseteq Sessions  BY DEF Clients
<1> QED  BY <1>2, <1>3, <1>4, <1>5, WhoWritesScans

LEMMA ResultsKept ==
    ASSUME SQLite, OnceInv, [ScanNext]_allVars
    PROVE  ResultsExactlyWhenSucceeded'
<1> USE DEF ResultsExactlyWhenSucceeded
<1>a. RowTypes /\ ResultsExactlyWhenSucceeded
    BY DEF OnceInv, AnsweredInv, PipelineTypes
<1>1. CASE ScanRowsUnchanged
    BY <1>a, <1>1 DEF ScanRowsUnchanged
<1>2. ASSUME NEW e \in Sessions, NEW F \in SUBSET Fingerprints, CompleteScan(e, F)
      PROVE  ResultsExactlyWhenSucceeded'
    <2>1. subject[e] \in Jobs /\ scan[subject[e]] \notin {"succeeded", "cancelled"}
        BY <1>2, WritersFind DEF Ends
    <2> QED  BY <1>a, <1>2, <2>1 DEF CompleteScan, RowTypes
<1>3. ASSUME NEW e \in Sessions, TargetGone(e)  PROVE ResultsExactlyWhenSucceeded'
    <2>1. subject[e] \in Jobs /\ scan[subject[e]] \notin {"succeeded", "cancelled"}
        BY <1>3, WritersFind DEF Ends
    <2> QED  BY <1>a, <1>3, <2>1 DEF TargetGone, RowTypes
<1>4. ASSUME NEW e \in Sessions, CancelCommit(e)  PROVE ResultsExactlyWhenSucceeded'
    <2>1. subject[e] \in Jobs /\ scan[subject[e]] \notin Terminal
        BY <1>4, WritersFind
    <2> QED  BY <1>a, <1>4, <2>1 DEF CancelCommit, RowTypes, Terminal
<1>5. ASSUME NEW e \in Sessions, NEW j \in Jobs, NEW wait \in WaitModes,
             RequestScan(e, j, wait)
      PROVE  ResultsExactlyWhenSucceeded'
    <2>1. scan[j] = "absent"
        BY <1>5, WritersFind
    <2> QED  BY <1>a, <1>5, <2>1 DEF RequestScan, RowTypes
<1>6. Clients \subseteq Sessions  BY DEF Clients
<1> QED  BY <1>1, <1>2, <1>3, <1>4, <1>5, <1>6, WhoWritesScans DEF Ends

LEMMA OnceInvariant == SQLite /\ NoInlineScans => (ScanSpec => []OnceInv)
<1> SUFFICES ASSUME SQLite, NoInlineScans  PROVE ScanSpec => []OnceInv
    OBVIOUS
<1>1. ScanInit => OnceInv
    <2> SUFFICES ASSUME ScanInit  PROVE OnceInv
        OBVIOUS
    <2>1. \A e \in Sessions : TrueCopy(e) /\ Requested(e)
        BY DEF ScanInit, TrueCopy, Deciding, Requested
    <2>2. Unrequested /\ ResultsExactlyWhenSucceeded
        BY DEF ScanInit, Unrequested, ResultsExactlyWhenSucceeded
    <2> QED  BY <2>1, <2>2, AnsweredInitially DEF OnceInv
<1>2. OnceInv /\ [ScanNext]_allVars => OnceInv'
    BY AnsweredKept, CopiesStayTrue, RequestedKept, UnrequestedKept, ResultsKept DEF OnceInv
<1> QED  BY <1>1, <1>2, PTL DEF ScanSpec

\* On SQLite, without inline scans, findings, SBOM and "succeeded" are
\* published together and once, with any number of workers, crashes, replays
\* and cancellations.
THEOREM ResultsArePublishedOnce ==
    SQLite /\ NoInlineScans => (ScanSpec => []ResultsExactlyWhenSucceeded)
<1> SUFFICES ASSUME SQLite, NoInlineScans  PROVE ScanSpec => []ResultsExactlyWhenSucceeded
    OBVIOUS
<1>1. OnceInv => ResultsExactlyWhenSucceeded  BY DEF OnceInv
<1> QED  BY <1>1, OnceInvariant, PTL

\* Under the same conditions no late worker brings back a scan that has
\* succeeded or was cancelled, and no cancellation undoes a success.
THEOREM SettledScansStay == SQLite /\ NoInlineScans => (ScanSpec => SettledScanStays)
<1> SUFFICES ASSUME SQLite, NoInlineScans  PROVE ScanSpec => SettledScanStays
    OBVIOUS
<1> DEFINE A == \A j \in Jobs : scan[j] \in {"succeeded", "cancelled"} => scan'[j] = scan[j]
<1>1. OnceInv /\ [ScanNext]_allVars => [A]_allVars
    <2> SUFFICES ASSUME OnceInv, [ScanNext]_allVars  PROVE A
        OBVIOUS
    <2>a. RowTypes  BY DEF OnceInv, AnsweredInv, PipelineTypes
    <2>1. CASE ScanRowsUnchanged
        BY <2>1 DEF ScanRowsUnchanged
    <2>2. ASSUME NEW e \in Sessions, Ends(e)  PROVE A
        <3>1. \A j \in Jobs \ {subject[e]} : scan'[j] = scan[j]
            BY <2>a, <2>2 DEF Ends, TargetGone, CompleteScan, RowTypes
        <3> QED  BY <2>2, <3>1, WritersFind
    <2>3. ASSUME NEW e \in Sessions, CancelCommit(e)  PROVE A
        <3>1. \A j \in Jobs \ {subject[e]} : scan'[j] = scan[j]
            BY <2>a, <2>3 DEF CancelCommit, RowTypes
        <3> QED  BY <2>3, <3>1, WritersFind DEF Terminal
    <2>4. ASSUME NEW e \in Sessions, NEW j \in Jobs, NEW wait \in WaitModes,
                 RequestScan(e, j, wait)
          PROVE  A
        <3>1. \A k \in Jobs \ {j} : scan'[k] = scan[k]
            BY <2>a, <2>4 DEF RequestScan, RowTypes
        <3> QED  BY <2>4, <3>1, WritersFind
    <2>5. Clients \subseteq Sessions  BY DEF Clients
    <2> QED  BY <2>1, <2>2, <2>3, <2>4, <2>5, WhoWritesScans
<1> QED  BY <1>1, OnceInvariant, PTL DEF ScanSpec, SettledScanStays
=============================================================================
