---------------------------- MODULE JobQueue_proofs ----------------------------
(***************************************************************************)
(* Theorems about module JobQueue, for any number of sessions, workers and *)
(* jobs and any bounds:                                                    *)
(*   - type correctness;                                                   *)
(*   - the refinement of DurableQueue, on both dialects;                   *)
(*   - on SQLite, that claim() takes only runnable rows and that a queued  *)
(*     row always has an attempt left.                                     *)
(***************************************************************************)
EXTENDS JobQueue, Transactions_proofs, SequenceTheorems

-----------------------------------------------------------------------------
(***************************************************************************)
(* What the helpers return.                                                *)
(***************************************************************************)
\* Postponing a job leaves a sequence of jobs.
LEMMA PostponedType ==
    ASSUME ready \in Seq(Jobs), NEW j \in Jobs
    PROVE  Postponed(j) \in Seq(Jobs)
<1>1. CASE Due(j)
    <2> DEFINE i == CHOOSE n \in DOMAIN ready : ready[n] = j
    <2>1. i \in 1 .. Len(ready)
        BY <1>1 DEF Due
    <2>a. Len(ready) \in Nat /\ \A n \in 1 .. Len(ready) : ready[n] \in Jobs
        OBVIOUS
    <2> HIDE DEF i
    <2>2. SubSeq(ready, 1, i - 1) \in Seq(Jobs)
        BY <2>1, <2>a, SubSeqProperties
    <2>b. SubSeq(ready, i + 1, Len(ready)) \in Seq(Jobs)
        BY <2>1, <2>a, SubSeqProperties
    <2>3. RemoveAt(ready, i) \in Seq(Jobs)
        BY <2>2, <2>b, ConcatProperties DEF RemoveAt
    <2> QED  BY <1>1, <2>3 DEF Postponed, i
<1>2. CASE ~ Due(j)
    BY <1>2 DEF Postponed
<1> QED  BY <1>1, <1>2

\* A row in the future that becomes due joins the due ones.
LEMMA AppendDue ==
    ASSUME ready \in Seq(Jobs), NEW j \in Jobs, NEW k \in Jobs, Due(j),
           ready' = Append(ready, k)
    PROVE  Due(j)'
<1>1. PICK i \in DOMAIN ready : ready[i] = j
    BY DEF Due
<1>2. i \in DOMAIN ready' /\ ready'[i] = j
    BY <1>1
<1> QED  BY <1>2 DEF Due

LEMMA OverwriteType ==
    ASSUME job \in [Jobs -> Row], NEW j \in Jobs, NEW loaded \in Row, NEW new \in Status
    PROVE  Overwrite(j, loaded, new) \in [Jobs -> Row]
BY DEF Overwrite, Row

LEMMA AcknowledgedType ==
    ASSUME TypeOK, NEW w \in Workers
    PROVE  Acknowledged(w) \in [Jobs -> Row]
<1>1. CASE done[w] = None
    BY <1>1 DEF Acknowledged, TypeOK
<1>2. CASE done[w] # None
    <2>1. done[w] \in Jobs /\ row[w] \in Row /\ "succeeded" \in Status
        BY <1>2 DEF TypeOK, Status
    <2> QED  BY <1>2, <2>1, OverwriteType DEF Acknowledged, TypeOK
<1> QED  BY <1>1, <1>2

-----------------------------------------------------------------------------
(***************************************************************************)
(* Types.  They are preserved because a worker between claim and finish    *)
(* holds a job.                                                            *)
(***************************************************************************)
Holding == \A w \in Workers : pc[w] \notin {"idle", "next"} => held[w] \in Jobs

TypeInv == TypeOK /\ Holding

LEMMA InitType == Init => TypeInv
BY DEF TypeInv, Holding, Init, TxnInit, TypeOK, TxnTypeOK, Row, NoRow, Location, Clients, Status

LEMMA ClientStepType ==
    ASSUME TypeOK, NEW c \in Clients, ClientStep(c)
    PROVE  TypeOK'
<1> USE DEF TypeOK
<1>1. c \in Sessions
    BY DEF Clients
<1>2. ASSUME NEW j \in Jobs, Enqueue(c, j)  PROVE TypeOK'
    <2>1. TxnTypeOK'  BY <1>1, <1>2, TxnType DEF Enqueue
    <2>2. job' \in [Jobs -> Row]  BY <1>2 DEF Enqueue, Row, NoRow, Status
    <2>3. ready' \in Seq(Jobs)  BY <1>2, AppendProperties DEF Enqueue
    <2> QED  BY <1>2, <2>1, <2>2, <2>3 DEF Enqueue
<1>3. ASSUME NEW j \in Jobs, SelectToCancel(c, j)  PROVE TypeOK'
    <2>1. TxnTypeOK'  BY <1>1, <1>3, TxnType DEF SelectToCancel
    <2> QED  BY <1>3, <2>1 DEF SelectToCancel
<1>4. CASE Cancel(c)
    <2>1. TxnTypeOK'  BY <1>1, <1>4, TxnType DEF Cancel
    <2>2. job' \in [Jobs -> Row]  BY <1>4 DEF Cancel, Row, Status
    <2> QED  BY <1>4, <2>1, <2>2 DEF Cancel
<1>5. CASE RequestRead(c) \/ RequestFlush(c) \/ RequestCommit(c)
    <2>1. TxnTypeOK'
        BY <1>1, <1>5, TxnType DEF RequestRead, RequestFlush, RequestCommit
    <2>2. UNCHANGED queueVars
        BY <1>5 DEF RequestRead, RequestFlush, RequestCommit
    <2> QED  BY <2>1, <2>2 DEF queueVars
<1>6. CASE RequestAbort(c)
    <2>1. TxnTypeOK'  BY <1>1, <1>6, TxnType DEF RequestAbort
    <2> QED  BY <1>6, <2>1 DEF RequestAbort
<1> QED  BY <1>2, <1>3, <1>4, <1>5, <1>6 DEF ClientStep

LEMMA WorkerStepType ==
    ASSUME TypeInv, NEW w \in Workers,
           WorkerStep(w) \/ HandlerFlush(w) \/ HandlerCommit(w) \/ Crash(w)
    PROVE  TypeOK'
<1> USE DEF TypeOK, Location, TypeInv, Holding
<1>1. w \in Sessions
    BY WorkersAssumption
<1>2. ASSUME NEW j \in Jobs, Select(w, j)  PROVE TypeOK'
    <2>1. TxnTypeOK'  BY <1>1, <1>2, TxnType DEF Select
    <2> QED  BY <1>2, <2>1 DEF Select
<1>3. CASE Claim(w)
    <2>1. TxnTypeOK'  BY <1>1, <1>3, TxnType DEF Claim
    <2>2. Acknowledged(w) \in [Jobs -> Row]
        BY AcknowledgedType
    <2>a. held[w] \in Jobs  BY <1>3 DEF Claim
    <2>b. Acknowledged(w)[held[w]].attempts + 1 \in Nat
        BY <2>2, <2>a DEF Row
    <2>c. [status |-> "running", attempts |-> Acknowledged(w)[held[w]].attempts + 1,
           stale |-> FALSE] \in Row
        BY <2>b DEF Row, Status
    <2>3. job' \in [Jobs -> Row]
        BY <1>3, <2>2, <2>a, <2>c DEF Claim
    <2>4. row' \in [Workers -> Row]  BY <1>3 DEF Claim, NoRow, Row
    <2> QED  BY <1>3, <2>1, <2>3, <2>4 DEF Claim
<1>4. CASE Load(w) \/ Reload(w)
    <2>1. TxnTypeOK'  BY <1>1, <1>4, TxnType DEF Load, Reload
    <2>2. row' \in [Workers -> Row]
        BY <1>4 DEF Load, Reload
    <2> QED  BY <1>4, <2>1, <2>2 DEF Load, Reload
<1>5. CASE HandlerFlush(w) \/ HandlerCommit(w)
    <2>1. TxnTypeOK'  BY <1>1, <1>5, TxnType DEF HandlerFlush, HandlerCommit
    <2> QED  BY <1>5, <2>1 DEF HandlerFlush, HandlerCommit, queueVars
<1>6. CASE HandlerReturns(w)
    BY <1>6 DEF HandlerReturns, txnVars, TxnTypeOK
<1>7. CASE HandlerRaises(w)
    <2>1. TxnTypeOK'  BY <1>1, <1>7, TxnType DEF HandlerRaises
    <2> QED  BY <1>7, <2>1 DEF HandlerRaises
<1>8. CASE FinishError(w)
    <2>1. TxnTypeOK'  BY <1>1, <1>8, TxnType DEF FinishError
    <2>a. held[w] \in Jobs /\ row[w] \in Row  BY <1>8 DEF FinishError
    <2>b. {"queued", "failed"} \subseteq Status  BY DEF Status
    <2>2. job' \in [Jobs -> Row]
        BY <1>8, <2>a, <2>b, OverwriteType DEF FinishError
    <2>3. ready' \in Seq(Jobs)  BY <1>8, <2>a, PostponedType DEF FinishError
    <2>4. row' \in [Workers -> Row]  BY <1>8 DEF FinishError, NoRow, Row
    <2> QED  BY <1>8, <2>1, <2>2, <2>3, <2>4 DEF FinishError
<1>9. CASE EndBatch(w)
    <2>1. TxnTypeOK'  BY <1>1, <1>9, TxnType DEF EndBatch
    <2>2. job' \in [Jobs -> Row]  BY <1>9, AcknowledgedType DEF EndBatch
    <2>3. row' \in [Workers -> Row]  BY <1>9 DEF EndBatch, NoRow, Row
    <2> QED  BY <1>9, <2>1, <2>2, <2>3 DEF EndBatch
<1>10. CASE Locked(w) \/ Crash(w)
    <2>1. TxnTypeOK'  BY <1>1, <1>10, TxnType DEF Locked, Crash, Drop
    <2>a. Drop(w)  BY <1>10 DEF Locked, Crash
    <2>b. NoRow \in Row  BY DEF NoRow, Row
    <2>2. row' \in [Workers -> Row]  BY <2>a, <2>b DEF Drop
    <2> QED  BY <1>10, <2>1, <2>2 DEF Locked, Crash, Drop
<1> QED  BY <1>2, <1>3, <1>4, <1>5, <1>6, <1>7, <1>8, <1>9, <1>10 DEF WorkerStep

LEMMA TimeType ==
    ASSUME TypeOK, NEW j \in Jobs, BecomesDue(j) \/ BecomesStale(j)
    PROVE  TypeOK'
<1> USE DEF TypeOK
<1>1. CASE BecomesDue(j)
    BY <1>1, AppendProperties DEF BecomesDue, txnVars, TxnTypeOK
<1>2. CASE BecomesStale(j)
    <2>1. job' \in [Jobs -> Row]  BY <1>2 DEF BecomesStale, Row
    <2> QED  BY <1>2, <2>1 DEF BecomesStale, txnVars, TxnTypeOK
<1> QED  BY <1>1, <1>2

\* A worker enters the states in which it needs a job only with one.
LEMMA HoldingKept ==
    ASSUME TypeInv, [Next]_vars
    PROVE  Holding'
<1> USE DEF TypeInv, TypeOK, Holding
<1>1. ASSUME NEW w \in Workers,
             WorkerStep(w) \/ HandlerFlush(w) \/ HandlerCommit(w) \/ Crash(w)
      PROVE  Holding'
    BY <1>1 DEF WorkerStep, Select, Claim, Load, HandlerReturns, HandlerRaises, Reload,
        FinishError, EndBatch, Locked, Crash, Drop, HandlerFlush, HandlerCommit, queueVars
<1>2. CASE UNCHANGED <<pc, held>>
    BY <1>2
<1>3. ASSUME NEW c \in Clients, ClientStep(c)  PROVE UNCHANGED <<pc, held>>
    BY <1>3 DEF ClientStep, Enqueue, SelectToCancel, Cancel, RequestRead, RequestFlush,
        RequestCommit, RequestAbort, queueVars
<1> QED
    BY <1>1, <1>2, <1>3 DEF Next, Poll, BecomesDue, BecomesStale, vars, queueVars

\* Every step keeps the types.
LEMMA NextType == TypeInv /\ [Next]_vars => TypeInv'
<1> SUFFICES ASSUME TypeInv, [Next]_vars  PROVE TypeOK'
    BY HoldingKept DEF TypeInv
<1>a. TypeOK  BY DEF TypeInv
<1>1. CASE UNCHANGED vars
    BY <1>1, <1>a DEF vars, queueVars, txnVars, TypeOK, TxnTypeOK
<1>2. ASSUME NEW c \in Clients, ClientStep(c)  PROVE TypeOK'
    BY <1>2, <1>a, ClientStepType
<1>3. ASSUME NEW w \in Workers,
             WorkerStep(w) \/ HandlerFlush(w) \/ HandlerCommit(w) \/ Crash(w)
      PROVE  TypeOK'
    BY <1>3, WorkerStepType
<1>4. ASSUME NEW j \in Jobs, BecomesDue(j) \/ BecomesStale(j)  PROVE TypeOK'
    BY <1>4, <1>a, TimeType
<1> QED  BY <1>a, <1>1, <1>2, <1>3, <1>4 DEF Next, Poll

\* The state of the queue and of its sessions is always well-formed.
THEOREM TypeCorrect == Spec => []TypeOK
<1>1. Init => TypeInv  BY InitType
<1>2. TypeInv /\ [Next]_vars => TypeInv'  BY NextType
<1>3. TypeInv => TypeOK  BY DEF TypeInv
<1> QED  BY <1>1, <1>2, <1>3, PTL DEF Spec

-----------------------------------------------------------------------------
(***************************************************************************)
(* Refinement of DurableQueue.  The invariant says what the sessions know  *)
(* about the table although they do not look again before they write: the  *)
(* jobs they hold still exist, a success waiting to be written is of a     *)
(* handler that did return, and the attempts a worker read before deciding *)
(* to give up are at most those the row has now.                           *)
(***************************************************************************)
Known ==
    /\ \A w \in Workers :
        /\ held[w] # None => Exists(held[w])
        /\ done[w] # None => Exists(done[w]) /\ done[w] \in returned
        /\ pc[w] = "reloaded" => row[w].attempts <= job[held[w]].attempts
    /\ \A c \in Clients : target[c] # None => Exists(target[c])
    /\ \A j \in Jobs : ~ Exists(j) => job[j].attempts = 0

\* No job disappears and no claim is forgotten.
Grows ==
    \A j \in Jobs :
        /\ Exists(j) => Exists(j)'
        /\ job[j].attempts <= job'[j].attempts

LEMMA OverwriteFacts ==
    ASSUME TypeOK, NEW j \in Jobs, NEW loaded \in Row, NEW new \in Status
    PROVE  \A k \in Jobs :
            /\ Overwrite(j, loaded, new)[k].attempts = job[k].attempts
            /\ Overwrite(j, loaded, new)[k].stale = job[k].stale
            /\ Overwrite(j, loaded, new)[k].status \in {job[k].status, new}
            /\ k # j => Overwrite(j, loaded, new)[k] = job[k]
<1>1. job \in [Jobs -> Row]  BY DEF TypeOK
<1> QED  BY <1>1 DEF Overwrite, Row

\* Writing a worker's success touches the status of that job only.
LEMMA AcknowledgedFacts ==
    ASSUME TypeOK, NEW w \in Workers, NEW k \in Jobs
    PROVE  /\ Acknowledged(w)[k].attempts = job[k].attempts
           /\ \/ Acknowledged(w)[k].status = job[k].status
              \/ k = done[w] /\ Acknowledged(w)[k].status = "succeeded"
<1>1. CASE done[w] = None  BY <1>1 DEF Acknowledged
<1>2. CASE done[w] # None
    <2>1. done[w] \in Jobs /\ row[w] \in Row /\ "succeeded" \in Status
        BY <1>2 DEF TypeOK, Status
    <2>2. Acknowledged(w) = Overwrite(done[w], row[w], "succeeded")
        BY <1>2 DEF Acknowledged
    <2>3. k # done[w] => Acknowledged(w)[k] = job[k]
        BY <2>1, <2>2, OverwriteFacts
    <2>4. /\ Acknowledged(w)[k].attempts = job[k].attempts
          /\ Acknowledged(w)[k].status \in {job[k].status, "succeeded"}
        BY <2>1, <2>2, OverwriteFacts
    <2> QED  BY <2>3, <2>4
<1> QED  BY <1>1, <1>2

\* The abstract step of the whole table is one of each job.
AbstractMove(j) ==
    LET before == job[j].status
        after == job'[j].status
    IN  \/ /\ before = "absent" /\ after = "queued"
           /\ job'[j].attempts = job[j].attempts
        \/ /\ before \in {"queued", "running"} /\ after = "running"
           /\ job'[j].attempts = job[j].attempts + 1
        \/ /\ before # "absent"
           /\ \/ j \in returned /\ after = "succeeded"
              \/ job[j].attempts >= MaxAttempts /\ after = "failed"
              \/ after \in {"queued", "cancelled"}
           /\ job'[j].attempts = job[j].attempts
        \/ after = before /\ job'[j].attempts = job[j].attempts

LEMMA MoveImplemented ==
    ASSUME \A j \in Jobs : AbstractMove(j), returned' = returned
    PROVE  Promise!Move
BY DEF AbstractMove, Promise!Move, Promise!Enqueued, Promise!Started, Promise!Acknowledged,
       Promise!GivenUp, Promise!RetriedOrCancelled, Promise!Unmoved

LEMMA MoveGrows ==
    ASSUME TypeOK, \A j \in Jobs : AbstractMove(j)
    PROVE  Grows
<1>1. ASSUME NEW j \in Jobs
      PROVE  (Exists(j) => Exists(j)') /\ job[j].attempts <= job'[j].attempts
    <2>1. job[j].attempts \in Nat  BY DEF TypeOK, Row
    <2>2. AbstractMove(j)  OBVIOUS
    <2>3. \/ job'[j].attempts = job[j].attempts
          \/ job'[j].attempts = job[j].attempts + 1
        BY <2>2 DEF AbstractMove
    <2>4. job[j].attempts <= job'[j].attempts
        BY <2>1, <2>3
    <2>5. Exists(j) => Exists(j)'
        BY <2>2 DEF AbstractMove, Exists
    <2> QED  BY <2>4, <2>5
<1> QED  BY <1>1 DEF Grows

LEMMA UnmovedIsMove ==
    ASSUME \A j \in Jobs : job'[j].status = job[j].status /\ job'[j].attempts = job[j].attempts
    PROVE  \A j \in Jobs : AbstractMove(j)
BY DEF AbstractMove

\* Recording a success is an abstract acknowledgement.
LEMMA AcknowledgedMoves ==
    ASSUME TypeInv, Known, NEW w \in Workers, job' = Acknowledged(w)
    PROVE  \A j \in Jobs : AbstractMove(j)
<1> TAKE j \in Jobs
<1>1. TypeOK  BY DEF TypeInv
<1>2. /\ job'[j].attempts = job[j].attempts
      /\ \/ job'[j].status = job[j].status
         \/ j = done[w] /\ job'[j].status = "succeeded"
    BY <1>1, AcknowledgedFacts
<1>3. j = done[w] => Exists(j) /\ j \in returned
    BY NoJobAssumption DEF Known
<1> QED  BY <1>2, <1>3 DEF AbstractMove, Exists

\* A claim starts one job and records the success of another.
LEMMA ClaimMoves ==
    ASSUME TypeInv, Known, NEW w \in Workers, Claim(w)
    PROVE  \A j \in Jobs : AbstractMove(j)
<1> TAKE j \in Jobs
<1> DEFINE A == Acknowledged(w)
<1>1. TypeOK /\ held[w] \in Jobs  BY DEF TypeInv, Holding, Claim
<1>2. A \in [Jobs -> Row]  BY <1>1, AcknowledgedType
<1>3. /\ A[j].attempts = job[j].attempts
      /\ \/ A[j].status = job[j].status
         \/ j = done[w] /\ A[j].status = "succeeded"
    BY <1>1, AcknowledgedFacts
<1>4. j = done[w] => Exists(j) /\ j \in returned
    BY NoJobAssumption DEF Known
<1>5. CASE j = held[w] /\ A[j].status \in {"queued", "running"}
    <2>1. A[j].status = job[j].status  BY <1>3, <1>5
    <2>2. job'[j] = [status |-> "running", attempts |-> A[j].attempts + 1, stale |-> FALSE]
        BY <1>1, <1>2, <1>5 DEF Claim
    <2> QED  BY <1>3, <1>5, <2>1, <2>2 DEF AbstractMove
<1>6. CASE ~ (j = held[w] /\ A[j].status \in {"queued", "running"})
    <2>1. job'[j] = A[j]  BY <1>1, <1>2, <1>6 DEF Claim
    <2> QED  BY <1>3, <1>4, <2>1 DEF AbstractMove, Exists
<1> QED  BY <1>5, <1>6

\* A failure re-queues the job, or gives it up when its attempts are used up.
LEMMA FinishErrorMoves ==
    ASSUME TypeInv, Known, NEW w \in Workers, FinishError(w)
    PROVE  \A j \in Jobs : AbstractMove(j)
<1> TAKE j \in Jobs
<1> DEFINE new == IF Exhausted(w) THEN "failed" ELSE "queued"
<1>1. TypeOK /\ held[w] \in Jobs /\ row[w] \in Row
    BY DEF TypeInv, Holding, FinishError, TypeOK
<1>2. held[w] # None /\ Exists(held[w]) /\ row[w].attempts <= job[held[w]].attempts
    BY <1>1, NoJobAssumption DEF FinishError, Known
<1>3. new \in Status  BY DEF Status
<1>4. job' = Overwrite(held[w], row[w], new)
    BY DEF FinishError
<1>5. /\ job'[j].attempts = job[j].attempts
      /\ job'[j].status \in {job[j].status, new}
      /\ j # held[w] => job'[j] = job[j]
    BY <1>1, <1>3, <1>4, OverwriteFacts
<1>6. new = "failed" => job[held[w]].attempts >= MaxAttempts
    BY <1>1, <1>2, MaxAttemptsAssumption DEF Row, TypeOK, Exhausted
<1> QED  BY <1>2, <1>5, <1>6 DEF AbstractMove, Exists

LEMMA ClientMoves ==
    ASSUME TypeInv, Known, NEW c \in Clients, ClientStep(c)
    PROVE  \A j \in Jobs : AbstractMove(j)
<1> USE DEF TypeInv, TypeOK
<1>1. ASSUME NEW k \in Jobs, Enqueue(c, k)  PROVE \A j \in Jobs : AbstractMove(j)
    <2> TAKE j \in Jobs
    <2>1. CASE j = k
        <3>1. job[j].status = "absent"  BY <1>1, <2>1 DEF Enqueue, Exists
        <3>2. job[j].attempts = 0
            BY <3>1 DEF Known, Exists
        <3>3. job'[j].status = "queued" /\ job'[j].attempts = 0
            BY <1>1, <2>1 DEF Enqueue, NoRow
        <3> QED  BY <3>1, <3>2, <3>3 DEF AbstractMove
    <2>2. CASE j # k
        BY <1>1, <2>2 DEF Enqueue, AbstractMove
    <2> QED  BY <2>1, <2>2
<1>2. CASE Cancel(c)
    BY <1>2 DEF Cancel, Known, Exists, AbstractMove, Row
<1>3. CASE UNCHANGED job
    BY <1>3, UnmovedIsMove
<1> QED
    BY <1>1, <1>2, <1>3 DEF ClientStep, SelectToCancel, RequestRead, RequestFlush,
        RequestCommit, RequestAbort, queueVars

\* Every step of the queue is a step of DurableQueue or leaves it as it is.
LEMMA NextMoves ==
    ASSUME TypeInv, Known, Next
    PROVE  /\ \A j \in Jobs : AbstractMove(j)
           /\ \/ returned' = returned
              \/ /\ UNCHANGED job
                 /\ \E w \in Workers : held[w] \in Jobs /\ returned' = returned \cup {held[w]}
<1>1. ASSUME NEW c \in Clients, ClientStep(c)
      PROVE  (\A j \in Jobs : AbstractMove(j)) /\ returned' = returned
    <2>1. returned' = returned
        BY <1>1 DEF ClientStep, Enqueue, SelectToCancel, Cancel, RequestRead, RequestFlush,
            RequestCommit, RequestAbort, queueVars
    <2> QED  BY <1>1, <2>1, ClientMoves
<1>2. ASSUME NEW w \in Workers, Claim(w)
      PROVE  (\A j \in Jobs : AbstractMove(j)) /\ returned' = returned
    BY <1>2, ClaimMoves DEF Claim
<1>3. ASSUME NEW w \in Workers, FinishError(w)
      PROVE  (\A j \in Jobs : AbstractMove(j)) /\ returned' = returned
    BY <1>3, FinishErrorMoves DEF FinishError
<1>4. ASSUME NEW w \in Workers, EndBatch(w)
      PROVE  (\A j \in Jobs : AbstractMove(j)) /\ returned' = returned
    BY <1>4, AcknowledgedMoves DEF EndBatch
<1>5. ASSUME NEW w \in Workers, HandlerReturns(w)
      PROVE  /\ \A j \in Jobs : AbstractMove(j)
             /\ UNCHANGED job
             /\ held[w] \in Jobs /\ returned' = returned \cup {held[w]}
    <2>1. UNCHANGED job /\ held[w] \in Jobs /\ returned' = returned \cup {held[w]}
        BY <1>5 DEF HandlerReturns, TypeInv, Holding
    <2> QED  BY <2>1, UnmovedIsMove
<1>6. CASE UNCHANGED <<job, returned>>
    BY <1>6, UnmovedIsMove
<1>7. ASSUME NEW j \in Jobs, BecomesStale(j)
      PROVE  (\A k \in Jobs : AbstractMove(k)) /\ returned' = returned
    <2>1. \A k \in Jobs : job'[k].status = job[k].status /\ job'[k].attempts = job[k].attempts
        BY <1>7 DEF BecomesStale, TypeInv, TypeOK, Row
    <2> QED  BY <1>7, <2>1, UnmovedIsMove DEF BecomesStale
<1>8. ASSUME NEW w \in Workers,
             \/ \E j \in Jobs : Select(w, j)
             \/ Load(w) \/ HandlerRaises(w) \/ Reload(w) \/ Locked(w)
             \/ HandlerFlush(w) \/ HandlerCommit(w) \/ Poll(w) \/ Crash(w)
      PROVE  UNCHANGED <<job, returned>>
    BY <1>8 DEF Select, Load, HandlerRaises, Reload, Locked, HandlerFlush, HandlerCommit,
        Poll, Crash, Drop, queueVars, vars
<1>9. ASSUME NEW j \in Jobs, BecomesDue(j)
      PROVE  UNCHANGED <<job, returned>>
    BY <1>9 DEF BecomesDue
<1> QED
    BY <1>1, <1>2, <1>3, <1>4, <1>5, <1>6, <1>7, <1>8, <1>9 DEF Next, WorkerStep

\* What a session knows stays true until it writes, because the table grows.
LEMMA KnownKept ==
    ASSUME TypeInv, Known, [Next]_vars
    PROVE  Known'
<1> USE DEF TypeInv, TypeOK
<1>1. CASE UNCHANGED vars
    BY <1>1 DEF Known, vars, queueVars, Exists
<1>2. CASE Next
    <2>1. Grows /\ \A j \in Jobs : AbstractMove(j)
        BY <1>2, NextMoves, MoveGrows
    <2>2. returned \subseteq returned'
        BY <1>2, NextMoves
    <2>3. ASSUME NEW j \in Jobs, ~ Exists(j)'  PROVE job'[j].attempts = 0
        BY <2>1, <2>3 DEF AbstractMove, Known, Exists
    <2>4. ASSUME NEW c \in Clients, target'[c] # None  PROVE Exists(target[c])'
        <3>1. CASE target'[c] = target[c]
            <4>1. target[c] \in Jobs /\ Exists(target[c])
                BY <2>4, <3>1 DEF Known
            <4> QED  BY <2>1, <3>1, <4>1 DEF Grows, Exists
        <3>2. CASE target'[c] # target[c]
            <4>1. PICK d \in Clients, j \in Jobs : SelectToCancel(d, j) /\ target'[c] = j
                BY <1>2, <2>4, <3>2 DEF Next, ClientStep, WorkerStep, Enqueue, SelectToCancel,
                    Cancel, RequestRead, RequestFlush, RequestCommit, RequestAbort, Select,
                    Claim, Load, HandlerFlush, HandlerCommit, HandlerReturns, HandlerRaises,
                    Reload, FinishError, EndBatch, Poll, Locked, Crash, Drop, BecomesDue,
                    BecomesStale, vars, queueVars
            <4> QED  BY <4>1 DEF SelectToCancel, Exists
        <3> QED  BY <3>1, <3>2
    <2>5. ASSUME NEW w \in Workers
          PROVE  /\ (held[w] # None => Exists(held[w]))'
                 /\ (done[w] # None => Exists(done[w]) /\ done[w] \in returned)'
                 /\ (pc[w] = "reloaded" => row[w].attempts <= job[held[w]].attempts)'
        <3>1. CASE UNCHANGED <<held[w], done[w], pc[w], row[w]>>
            <4>1. held[w] # None => job'[held[w]].status # "absent"
                BY <2>1 DEF Known, Grows, Exists
            <4>2. done[w] # None => job'[done[w]].status # "absent" /\ done[w] \in returned'
                BY <2>1, <2>2 DEF Known, Grows, Exists
            <4>3. pc[w] = "reloaded" => row[w].attempts <= job'[held[w]].attempts
                <5> SUFFICES ASSUME pc[w] = "reloaded"
                             PROVE  row[w].attempts <= job'[held[w]].attempts
                    OBVIOUS
                <5>1. held[w] \in Jobs  BY DEF Holding
                <5>2. row[w].attempts <= job[held[w]].attempts  BY DEF Known
                <5>3. job[held[w]].attempts <= job'[held[w]].attempts
                    BY <2>1, <5>1 DEF Grows
                <5>4. row[w].attempts \in Nat /\ job[held[w]].attempts \in Nat
                    BY <5>1 DEF Row
                <5>5. job'[held[w]].attempts \in Nat
                    BY <1>2, <5>1, NextType DEF Row
                <5> QED  BY <5>2, <5>3, <5>4, <5>5
            <4> QED  BY <3>1, <4>1, <4>2, <4>3 DEF Exists
        <3>2. ASSUME NEW j \in Jobs, Select(w, j)
              PROVE  UNCHANGED <<done[w], row[w], job>> /\ held'[w] = j /\ Exists(j) /\ pc'[w] = "selected"
            BY <3>2 DEF Select, IsNext, Eligible, Claimable, Exists
        <3>3. CASE HandlerReturns(w)
            <4>1. /\ held[w] \in Jobs /\ Exists(held[w])
                  /\ done'[w] = held[w] /\ held'[w] = None /\ pc'[w] = "next"
                  /\ held[w] \in returned'
                BY <3>3, NoJobAssumption DEF HandlerReturns, Holding, Known
            <4> QED  BY <2>1, <4>1 DEF Grows, Exists
        <3>4. CASE Reload(w)
            <4>1. /\ held[w] \in Jobs /\ UNCHANGED <<job, held, done, returned>>
                  /\ row'[w] = job[held[w]]
                BY <3>4 DEF Reload, Holding
            <4>2. row'[w].attempts <= job'[held'[w]].attempts
                BY <4>1 DEF Row
            <4> QED  BY <4>1, <4>2 DEF Known, Exists
        <3>5. CASE Load(w) \/ HandlerRaises(w)
            <4>1. UNCHANGED <<job, held, done, returned>> /\ pc'[w] # "reloaded"
                BY <3>5 DEF Load, HandlerRaises
            <4> QED  BY <4>1 DEF Known, Exists
        <3>6. CASE Claim(w)
            <4>1. UNCHANGED held /\ done'[w] = None /\ pc'[w] # "reloaded"
                BY <3>6 DEF Claim
            <4> QED  BY <2>1, <4>1 DEF Known, Grows, Exists
        <3>7. CASE FinishError(w)
            <4>1. UNCHANGED <<done, returned>> /\ held'[w] = None /\ pc'[w] = "next"
                BY <3>7 DEF FinishError
            <4> QED  BY <2>1, <4>1 DEF Known, Grows, Exists
        <3>8. CASE EndBatch(w)
            <4>1. UNCHANGED held /\ done'[w] = None /\ pc'[w] = "idle"
                BY <3>8 DEF EndBatch
            <4> QED  BY <2>1, <4>1 DEF Known, Grows, Exists
        <3>9. CASE Locked(w) \/ Crash(w)
            <4>1. held'[w] = None /\ done'[w] = None /\ pc'[w] = "idle"
                BY <3>9 DEF Locked, Crash, Drop
            <4> QED  BY <4>1
        <3>10. CASE HandlerFlush(w) \/ HandlerCommit(w) \/ Poll(w)
            BY <3>1, <3>10 DEF HandlerFlush, HandlerCommit, Poll, queueVars, vars
        <3>11. ASSUME NEW v \in Workers, v # w,
                      WorkerStep(v) \/ HandlerFlush(v) \/ HandlerCommit(v) \/ Poll(v) \/ Crash(v)
               PROVE  UNCHANGED <<held[w], done[w], pc[w], row[w]>>
            BY <3>11 DEF WorkerStep, Select, Claim, Load, HandlerFlush, HandlerCommit,
                HandlerReturns, HandlerRaises, Reload, FinishError, EndBatch, Poll, Locked,
                Crash, Drop, vars, queueVars
        <3>12. ASSUME NEW c \in Clients, ClientStep(c)
               PROVE  UNCHANGED <<held[w], done[w], pc[w], row[w]>>
            BY <3>12 DEF ClientStep, Enqueue, SelectToCancel, Cancel, RequestRead,
                RequestFlush, RequestCommit, RequestAbort, queueVars
        <3>13. ASSUME NEW j \in Jobs, BecomesDue(j) \/ BecomesStale(j)
               PROVE  UNCHANGED <<held[w], done[w], pc[w], row[w]>>
            BY <3>13 DEF BecomesDue, BecomesStale
        <3>14. ASSUME NEW j \in Jobs, Select(w, j)
               PROVE  /\ (held[w] # None => Exists(held[w]))'
                      /\ (done[w] # None => Exists(done[w]) /\ done[w] \in returned)'
                      /\ (pc[w] = "reloaded" => row[w].attempts <= job[held[w]].attempts)'
            BY <2>2, <3>2, <3>14 DEF Known, Exists
        <3> QED
            BY <1>2, <3>1, <3>3, <3>4, <3>5, <3>6, <3>7, <3>8, <3>9, <3>10, <3>11, <3>12,
                <3>13, <3>14 DEF Next, WorkerStep
    <2> QED  BY <2>3, <2>4, <2>5 DEF Known
<1> QED  BY <1>1, <1>2

\* Whatever the dialect, the faults and the races, the queue keeps the promises
\* of DurableQueue: no job is lost, success is reported only for a handler that
\* returned, a job is given up only when its attempts are used up, and every
\* claim is counted.
THEOREM RefinesDurableQueue == Spec => ImplementsDurableQueue
<1> DEFINE avars == <<[j \in Jobs |-> job[j].status], [j \in Jobs |-> job[j].attempts], returned>>
<1>1. Init => TypeInv /\ Known
    <2>1. Init => Known
        BY NoJobAssumption DEF Init, Known, Exists, NoRow
    <2> QED  BY <2>1, InitType
<1>2. TypeInv /\ Known /\ [Next]_vars => (TypeInv /\ Known)'
    BY NextType, KnownKept
<1>3. Init => Promise!Init
    BY DEF Init, Promise!Init, NoRow
<1>4. TypeInv /\ Known /\ [Next]_vars => [Promise!Next]_avars
    <2> SUFFICES ASSUME TypeInv, Known, [Next]_vars  PROVE [Promise!Next]_avars
        OBVIOUS
    <2>1. CASE UNCHANGED vars
        BY <2>1 DEF vars, queueVars
    <2>2. CASE Next /\ returned' = returned
        <3>1. Promise!Move
            BY <2>2, NextMoves, MoveImplemented
        <3> QED  BY <3>1 DEF Promise!Next
    <2>3. CASE Next /\ returned' # returned
        <3>1. PICK w \in Workers : /\ UNCHANGED job /\ held[w] \in Jobs
                                   /\ returned' = returned \cup {held[w]}
            BY <2>3, NextMoves
        <3>2. job[held[w]].status # "absent"
            BY <3>1, NoJobAssumption DEF Known, Exists
        <3>3. Promise!Return
            BY <3>1, <3>2 DEF Promise!Return
        <3> QED  BY <3>3 DEF Promise!Next
    <2> QED  BY <2>1, <2>2, <2>3
<1> QED
    BY <1>1, <1>2, <1>3, <1>4, PTL DEF Spec, ImplementsDurableQueue, Promise!Spec

-----------------------------------------------------------------------------
(***************************************************************************)
(* SQLite: a worker whose snapshot is still current may trust what it read *)
(* before it asked for the write lock.                                     *)
(***************************************************************************)
Fresh ==
    \A w \in Workers :
        /\ pc[w] \in {"selected", "reloaded"} => snap[w] # "none"
        /\ pc[w] = "selected" /\ snap[w] = "current" => Claimable(held[w]) /\ Due(held[w])
        /\ pc[w] = "reloaded" /\ snap[w] = "current" => row[w].attempts = job[held[w]].attempts

SqliteInv == TypeInv /\ Known /\ Fresh /\ QueuedHasAttemptLeft

\* A step that commits changes nothing it does not invalidate.
LEMMA CommitKeepsFresh ==
    ASSUME TypeInv, Fresh, NEW p \in Sessions, Commit(p),
           NEW w \in Workers, w # p, UNCHANGED pc[w]
    PROVE  /\ (pc[w] \in {"selected", "reloaded"} => snap[w] # "none")'
           /\ ~ (pc[w] \in {"selected", "reloaded"} /\ snap[w] = "current")'
<1>1. w \in Sessions  BY WorkersAssumption
<1> QED  BY <1>1 DEF Fresh, Commit

\* A step that leaves the jobs and the worker alone keeps what it knows.
LEMMA OthersKeepFresh ==
    ASSUME TypeInv, Fresh, NEW w \in Workers, UNCHANGED <<pc[w], held[w], row[w], snap[w]>>,
           \A j \in Jobs : /\ Claimable(j) => Claimable(j)'
                           /\ Due(j) => Due(j)'
                           /\ job'[j].attempts = job[j].attempts
    PROVE  /\ (pc[w] \in {"selected", "reloaded"} => snap[w] # "none")'
           /\ (pc[w] = "selected" /\ snap[w] = "current" => Claimable(held[w]) /\ Due(held[w]))'
           /\ (pc[w] = "reloaded" /\ snap[w] = "current"
                => row[w].attempts = job[held[w]].attempts)'
<1>1. pc[w] \in {"selected", "reloaded"} => held[w] \in Jobs
    BY DEF TypeInv, Holding
<1> QED  BY <1>1 DEF Fresh, Claimable, Due

LEMMA FreshKept ==
    ASSUME SQLite, TypeInv, Fresh, [Next]_vars
    PROVE  Fresh'
<1> DEFINE F(w) == /\ pc[w] \in {"selected", "reloaded"} => snap[w] # "none"
                   /\ pc[w] = "selected" /\ snap[w] = "current"
                        => Claimable(held[w]) /\ Due(held[w])
                   /\ pc[w] = "reloaded" /\ snap[w] = "current"
                        => row[w].attempts = job[held[w]].attempts
<1> DEFINE Same == UNCHANGED <<job, ready>>
<1>w. Workers \subseteq Sessions /\ \A c \in Clients : c \notin Workers
    BY WorkersAssumption DEF Clients
<1>t. TypeOK /\ TxnTypeOK  BY DEF TypeInv, TypeOK
<1>1. ASSUME NEW w \in Workers, UNCHANGED <<pc[w], held[w], row[w], snap[w], job, ready>>
      PROVE  F(w)'
    BY <1>1 DEF Fresh, Claimable, Due
<1>2. ASSUME NEW c \in Clients, ClientStep(c), NEW w \in Workers
      PROVE  F(w)'
    <2>1. UNCHANGED <<pc, held, row>>
        BY <1>2 DEF ClientStep, Enqueue, SelectToCancel, Cancel, RequestRead,
            RequestFlush, RequestCommit, RequestAbort, queueVars
    <2>2. CASE Commit(c)
        BY <1>w, <2>1, <2>2, CommitKeepsFresh DEF Clients
    <2>3. CASE (Read(c) \/ Flush(c) \/ Rollback(c)) /\ Same
        <3>1. UNCHANGED snap[w]
            BY <1>w, <1>t, <2>3 DEF Read, Flush, Rollback, Opened, TxnTypeOK
        <3> QED  BY <1>1, <2>1, <2>3, <3>1
    <2> QED
        BY <1>2, <2>2, <2>3 DEF ClientStep, Enqueue, SelectToCancel, Cancel, RequestRead,
            RequestFlush, RequestCommit, RequestAbort, queueVars
<1>3. ASSUME NEW v \in Workers,
             WorkerStep(v) \/ HandlerFlush(v) \/ HandlerCommit(v) \/ Crash(v),
             NEW w \in Workers, w # v
      PROVE  F(w)'
    <2>1. UNCHANGED <<pc[w], held[w], row[w]>>
        BY <1>3, <1>t DEF TypeOK, WorkerStep, Select, Claim, Load, HandlerFlush, HandlerCommit,
            HandlerReturns, HandlerRaises, Reload, FinishError, EndBatch, Locked,
            Crash, Drop, queueVars
    <2>2. CASE Commit(v)
        BY <1>w, <1>3, <2>1, <2>2, CommitKeepsFresh
    <2>3. CASE (Read(v) \/ Flush(v) \/ Rollback(v) \/ UNCHANGED txnVars) /\ Same
        <3>1. UNCHANGED snap[w]
            BY <1>w, <1>t, <1>3, <2>3 DEF Read, Flush, Rollback, Opened, TxnTypeOK, txnVars
        <3> QED  BY <1>1, <2>1, <2>3, <3>1
    <2> QED
        BY <1>3, <2>2, <2>3 DEF WorkerStep, Select, Claim, Load, HandlerFlush, HandlerCommit,
            HandlerReturns, HandlerRaises, Reload, FinishError, EndBatch, Acknowledged, Locked,
            Crash, Drop, queueVars
<1>4. ASSUME NEW w \in Workers,
             WorkerStep(w) \/ HandlerFlush(w) \/ HandlerCommit(w) \/ Crash(w)
      PROVE  F(w)'
    <2>1. ASSUME NEW j \in Jobs, Select(w, j)  PROVE F(w)'
        <3>1. /\ UNCHANGED <<job, ready>> /\ pc'[w] = "selected" /\ held'[w] = j
              /\ Claimable(j) /\ Due(j)
            BY <1>t, <2>1 DEF Select, IsNext, Eligible, Due, TypeOK
        <3>2. snap'[w] # "none"
            BY <1>w, <1>t, <2>1 DEF Select, Read, Flush, Opened, TxnTypeOK
        <3> QED  BY <3>1, <3>2 DEF Claimable, Due
    <2>2. CASE Reload(w)
        <3>1. /\ UNCHANGED <<job, held>> /\ pc'[w] = "reloaded" /\ row'[w] = job[held[w]]
            BY <1>t, <2>2 DEF Reload, TypeOK
        <3>2. snap'[w] # "none"
            BY <1>w, <1>t, <2>2 DEF Reload, Read, Opened, TxnTypeOK
        <3> QED  BY <3>1, <3>2
    <2>3. CASE pc'[w] \notin {"selected", "reloaded"}
        BY <2>3
    <2> QED
        BY <1>4, <1>t, <2>1, <2>2, <2>3 DEF WorkerStep, Claim, Load, HandlerFlush,
            HandlerCommit, HandlerReturns, HandlerRaises, FinishError, EndBatch, Locked,
            Crash, Drop, queueVars, TypeOK
<1>5. ASSUME NEW j \in Jobs, BecomesDue(j) \/ BecomesStale(j), NEW w \in Workers
      PROVE  F(w)'
    <2>1. UNCHANGED <<pc, held, row, snap>>
        BY <1>5 DEF BecomesDue, BecomesStale, txnVars
    <2>2. ASSUME NEW k \in Jobs
          PROVE  /\ Claimable(k) => Claimable(k)'
                 /\ Due(k) => Due(k)'
                 /\ job'[k].attempts = job[k].attempts
        <3>1. CASE BecomesDue(j)
            BY <1>t, <3>1, AppendDue DEF BecomesDue, Claimable, TypeOK
        <3>2. CASE BecomesStale(j)
            BY <1>t, <3>2 DEF BecomesStale, Claimable, Due, TypeOK, Row
        <3> QED  BY <1>5, <3>1, <3>2
    <2> QED  BY <2>1, <2>2, OthersKeepFresh
<1>6. CASE UNCHANGED vars
    BY <1>1, <1>6 DEF vars, queueVars, txnVars, Fresh
<1> QED
    <2>1. \A w \in Workers : F(w)'
        BY <1>1, <1>2, <1>3, <1>4, <1>5, <1>6 DEF Next, Poll, vars, queueVars, txnVars
    <2> QED  BY <2>1 DEF Fresh

\* A row becomes "queued" with the attempts its worker read a moment ago, and
\* they still are the row's.
LEMMA QueuedKept ==
    ASSUME SQLite, TypeInv, Fresh, QueuedHasAttemptLeft, [Next]_vars
    PROVE  QueuedHasAttemptLeft'
<1>t. TypeOK /\ job \in [Jobs -> Row]  BY DEF TypeInv, TypeOK
<1>0. ASSUME NEW j \in Jobs,
             /\ job'[j].status = "queued" => job[j].status = "queued"
             /\ job'[j].attempts = job[j].attempts
      PROVE  job'[j].status = "queued" => job'[j].attempts < MaxAttempts
    BY <1>0 DEF QueuedHasAttemptLeft
<1>1. ASSUME NEW c \in Clients, ClientStep(c), NEW j \in Jobs
      PROVE  job'[j].status = "queued" => job'[j].attempts < MaxAttempts
    <2>1. ASSUME NEW k \in Jobs, Enqueue(c, k)
          PROVE  job'[j].status = "queued" => job'[j].attempts < MaxAttempts
        <3>1. CASE j = k
            BY <1>t, <2>1, <3>1, MaxAttemptsAssumption DEF Enqueue, NoRow
        <3>2. CASE j # k
            BY <1>0, <1>t, <2>1, <3>2 DEF Enqueue
        <3> QED  BY <3>1, <3>2
    <2>2. CASE Cancel(c)
        BY <1>0, <1>t, <2>2 DEF Cancel, Row
    <2>3. CASE UNCHANGED job
        BY <1>0, <2>3
    <2> QED
        BY <1>1, <2>1, <2>2, <2>3 DEF ClientStep, SelectToCancel, RequestRead, RequestFlush,
            RequestCommit, RequestAbort, queueVars
<1>2. ASSUME NEW w \in Workers, NEW j \in Jobs,
             WorkerStep(w) \/ HandlerFlush(w) \/ HandlerCommit(w) \/ Crash(w)
      PROVE  job'[j].status = "queued" => job'[j].attempts < MaxAttempts
    <2> DEFINE A == Acknowledged(w)
    <2>1. /\ A \in [Jobs -> Row]
          /\ A[j].attempts = job[j].attempts
          /\ A[j].status = "queued" => job[j].status = "queued"
        BY <1>t, AcknowledgedType, AcknowledgedFacts
    <2>2. CASE Claim(w)
        <3>1. held[w] \in Jobs  BY <2>2 DEF Claim, TypeInv, Holding
        <3>2. job'[j] = A[j] \/ job'[j].status = "running"
            BY <2>1, <2>2, <3>1 DEF Claim
        <3> QED  BY <2>1, <3>2, <1>0
    <2>3. CASE EndBatch(w)
        BY <1>0, <2>1, <2>3 DEF EndBatch
    <2>4. CASE FinishError(w)
        <3> DEFINE new == IF Exhausted(w) THEN "failed" ELSE "queued"
        <3>1. /\ w \in Sessions /\ held[w] \in Jobs /\ row[w] \in Row /\ new \in Status
              /\ job' = Overwrite(held[w], row[w], new)
            BY <2>4, <1>t, WorkersAssumption DEF FinishError, TypeInv, Holding, TypeOK, Status
        <3>2. /\ job'[j].attempts = job[j].attempts
              /\ job'[j].status \in {job[j].status, new}
              /\ j # held[w] => job'[j] = job[j]
            BY <1>t, <3>1, OverwriteFacts
        <3>3. snap[w] = "current"
            BY <2>4, <1>t, <3>1 DEF FinishError, Commit, MayWrite, Fresh, TypeOK, TxnTypeOK
        <3>4. row[w].attempts = job[held[w]].attempts
            BY <2>4, <3>3 DEF FinishError, Fresh
        <3>5. new = "queued" => row[w].attempts < MaxAttempts
            BY <3>1, MaxAttemptsAssumption DEF Row, Exhausted
        <3> HIDE DEF new
        <3> QED  BY <3>2, <3>4, <3>5 DEF QueuedHasAttemptLeft
    <2>5. CASE UNCHANGED job
        BY <1>0, <2>5
    <2> QED
        BY <1>2, <2>2, <2>3, <2>4, <2>5 DEF WorkerStep, Select, Load, HandlerFlush,
            HandlerCommit, HandlerReturns, HandlerRaises, Reload, Locked, Crash, Drop, queueVars
<1>3. ASSUME NEW k \in Jobs, BecomesDue(k) \/ BecomesStale(k), NEW j \in Jobs
      PROVE  job'[j].status = "queued" => job'[j].attempts < MaxAttempts
    BY <1>0, <1>t, <1>3 DEF BecomesDue, BecomesStale, Row
<1>4. CASE UNCHANGED vars
    BY <1>0, <1>4 DEF vars, queueVars, QueuedHasAttemptLeft
<1> QED
    BY <1>1, <1>2, <1>3, <1>4 DEF Next, Poll, QueuedHasAttemptLeft

LEMMA SqliteInvariant == SQLite => (Spec => []SqliteInv)
<1> SUFFICES ASSUME SQLite  PROVE Spec => []SqliteInv
    OBVIOUS
<1>1. Init => SqliteInv
    BY InitType, NoJobAssumption
       DEF Init, TxnInit, SqliteInv, Known, Exists, Fresh, QueuedHasAttemptLeft, NoRow
<1>2. SqliteInv /\ [Next]_vars => SqliteInv'
    BY NextType, KnownKept, FreshKept, QueuedKept DEF SqliteInv
<1> QED  BY <1>1, <1>2, PTL DEF Spec

\* On SQLite a job waiting in the queue always has an attempt left, however
\* many workers report on it and however late.
THEOREM QueuedJobsHaveAttemptsLeft == SQLite => (Spec => []QueuedHasAttemptLeft)
<1> SUFFICES ASSUME SQLite  PROVE Spec => []QueuedHasAttemptLeft
    OBVIOUS
<1>1. SqliteInv => QueuedHasAttemptLeft  BY DEF SqliteInv
<1> QED  BY <1>1, SqliteInvariant, PTL

\* On SQLite claim() takes only a row that is runnable and due at the moment
\* its UPDATE commits, although that UPDATE does not test it.
THEOREM ClaimsAreRunnable == SQLite => (Spec => ClaimTakesRunnable)
<1> SUFFICES ASSUME SQLite  PROVE Spec => ClaimTakesRunnable
    OBVIOUS
<1> DEFINE A == \A j \in Jobs :
                    job'[j].attempts # job[j].attempts => Claimable(j) /\ Due(j)
<1>1. SqliteInv /\ [Next]_vars => [A]_vars
    <2> SUFFICES ASSUME SqliteInv, Next, NEW j \in Jobs, job'[j].attempts # job[j].attempts
                 PROVE  Claimable(j) /\ Due(j)
        BY DEF vars
    <2>t. TypeInv /\ TypeOK /\ Fresh /\ job \in [Jobs -> Row]
        BY DEF SqliteInv, TypeInv, TypeOK
    <2>1. ASSUME NEW w \in Workers, Claim(w)  PROVE Claimable(j) /\ Due(j)
        <3>1. held[w] \in Jobs /\ w \in Sessions
            BY <2>1, <2>t, WorkersAssumption DEF Claim, TypeInv, Holding
        <3>2. Acknowledged(w) \in [Jobs -> Row] /\ Acknowledged(w)[j].attempts = job[j].attempts
            BY <2>t, AcknowledgedType, AcknowledgedFacts
        <3>3. j = held[w]
            BY <2>1, <3>1, <3>2 DEF Claim
        <3>4. snap[w] = "current"
            BY <2>1, <2>t, <3>1 DEF Claim, Commit, MayWrite, Fresh, TypeOK, TxnTypeOK
        <3> QED  BY <2>1, <2>t, <3>3, <3>4 DEF Claim, Fresh
    <2>2. ASSUME NEW w \in Workers, EndBatch(w)  PROVE FALSE
        BY <2>t, <2>2, AcknowledgedFacts DEF EndBatch
    <2>3. ASSUME NEW w \in Workers, FinishError(w)  PROVE FALSE
        <3>1. /\ held[w] \in Jobs /\ row[w] \in Row /\ {"failed", "queued"} \subseteq Status
            BY <2>3, <2>t DEF FinishError, TypeInv, Holding, TypeOK, Status
        <3> QED  BY <2>t, <2>3, <3>1, OverwriteFacts DEF FinishError
    <2>4. ASSUME NEW c \in Clients, NEW k \in Jobs, Enqueue(c, k)  PROVE FALSE
        <3>1. j = k  BY <2>t, <2>4 DEF Enqueue
        <3>2. job[j].attempts = 0  BY <2>4, <3>1 DEF Enqueue, SqliteInv, Known
        <3> QED  BY <2>t, <2>4, <3>1, <3>2 DEF Enqueue, NoRow
    <2>5. ASSUME NEW c \in Clients, Cancel(c)  PROVE FALSE
        BY <2>t, <2>5 DEF Cancel
    <2>6. ASSUME NEW k \in Jobs, BecomesStale(k)  PROVE FALSE
        BY <2>t, <2>6 DEF BecomesStale
    <2>7. CASE UNCHANGED job
        BY <2>7
    <2> QED
        BY <2>1, <2>2, <2>3, <2>4, <2>5, <2>6, <2>7 DEF Next, ClientStep, WorkerStep,
            SelectToCancel, RequestRead, RequestFlush, RequestCommit, RequestAbort, Select,
            Load, HandlerFlush, HandlerCommit, HandlerReturns, HandlerRaises, Reload, Poll,
            Locked, Crash, Drop, BecomesDue, vars, queueVars
<1> QED  BY <1>1, SqliteInvariant, PTL DEF Spec, ClaimTakesRunnable

-----------------------------------------------------------------------------
(***************************************************************************)
(* PostgreSQL: no worker is ever refused a write, so that a worker that    *)
(* does not crash carries what it claimed to its end.  Several workers may *)
(* hold the same job; what has to be followed is one whose report will     *)
(* take: it will write a status that differs from the one it has loaded.   *)
(***************************************************************************)
Tending(w, j) ==
    \/ /\ held[w] = j
       /\ \/ pc[w] \in {"claimed", "raised"}
          \/ pc[w] = "running" /\ row[w].status # "succeeded"
          \/ pc[w] = "reloaded" /\ row[w].status \notin {"queued", "failed"}
    \/ done[w] = j /\ row[w].status # "succeeded"

Tended == \A j \in Jobs : job[j].status = "running" => \E w \in Workers : Tending(w, j)

\* A success waits only where its worker has turned to the next job.
DoneAside == \A w \in Workers : done[w] # None => pc[w] \in {"next", "selected"}

PostgresInv == TypeInv /\ (faults = 0 => Tended /\ DoneAside)

\* A worker's steps concern its own position only.
LEMMA OtherWorkers ==
    ASSUME TypeOK, NEW w \in Workers, NEW u \in Workers \ {w},
           WorkerStep(w) \/ HandlerFlush(w) \/ HandlerCommit(w) \/ Poll(w) \/ Crash(w)
    PROVE  UNCHANGED <<pc[u], held[u], row[u], done[u]>>
<1>a. /\ pc \in [Workers -> Location] /\ held \in [Workers -> Jobs \cup {None}]
      /\ row \in [Workers -> Row] /\ done \in [Workers -> Jobs \cup {None}]
    BY DEF TypeOK
<1>1. ASSUME NEW x, NEW y, NEW z, NEW v,
             /\ pc' \in {pc, [pc EXCEPT ![w] = x]}
             /\ held' \in {held, [held EXCEPT ![w] = y]}
             /\ row' \in {row, [row EXCEPT ![w] = z]}
             /\ done' \in {done, [done EXCEPT ![w] = v]}
      PROVE  UNCHANGED <<pc[u], held[u], row[u], done[u]>>
    BY <1>a, <1>1
<1>2. CASE WorkerStep(w)
    BY <1>1, <1>2
    DEF WorkerStep, Select, Claim, Load, HandlerReturns, HandlerRaises, Reload, FinishError,
        EndBatch, Locked, Drop
<1>3. CASE HandlerFlush(w) \/ HandlerCommit(w) \/ Poll(w)
    BY <1>3 DEF HandlerFlush, HandlerCommit, Poll, vars, queueVars
<1>4. CASE Crash(w)
    BY <1>1, <1>4 DEF Crash, Drop
<1> QED  BY <1>2, <1>3, <1>4

LEMMA AsideKept ==
    ASSUME TypeOK, DoneAside, NEW w \in Workers,
           WorkerStep(w) \/ HandlerFlush(w) \/ HandlerCommit(w) \/ Poll(w) \/ Crash(w)
    PROVE  DoneAside'
<1> SUFFICES ASSUME NEW u \in Workers, done'[u] # None  PROVE pc'[u] \in {"next", "selected"}
    BY DEF DoneAside
<1>1. CASE u # w
    BY <1>1, OtherWorkers DEF DoneAside
<1>2. CASE u = w
    <2>a. done[w] # None => pc[w] \in {"next", "selected"}
        BY DEF DoneAside
    <2>b. pc \in [Workers -> Location] /\ done \in [Workers -> Jobs \cup {None}]
        BY DEF TypeOK
    <2>1. CASE \E j \in Jobs : Select(w, j)
        BY <1>2, <2>b, <2>1 DEF Select
    <2>2. CASE Claim(w) \/ EndBatch(w) \/ Locked(w) \/ Crash(w)
        BY <1>2, <2>b, <2>2 DEF Claim, EndBatch, Locked, Crash, Drop
    <2>3. CASE Load(w) \/ HandlerRaises(w) \/ Reload(w)
        BY <1>2, <2>a, <2>b, <2>3 DEF Load, HandlerRaises, Reload
    <2>4. CASE HandlerReturns(w) \/ FinishError(w)
        BY <1>2, <2>b, <2>4 DEF HandlerReturns, FinishError
    <2>5. CASE HandlerFlush(w) \/ HandlerCommit(w) \/ Poll(w)
        BY <1>2, <2>a, <2>5 DEF HandlerFlush, HandlerCommit, Poll, vars, queueVars
    <2> QED  BY <2>1, <2>2, <2>3, <2>4, <2>5 DEF WorkerStep
<1> QED  BY <1>1, <1>2

\* Only a claim makes a job run, and the worker that claims it follows it.
LEMMA StartsTended ==
    ASSUME TypeInv, NEW j \in Jobs, job[j].status # "running", job'[j].status = "running",
           NEW w \in Workers,
           WorkerStep(w) \/ HandlerFlush(w) \/ HandlerCommit(w) \/ Poll(w) \/ Crash(w)
    PROVE  Tending(w, j)'
<1>a. TypeOK /\ Holding /\ job \in [Jobs -> Row]
    BY DEF TypeInv, TypeOK
<1>1. CASE Claim(w)
    <2>1. held[w] \in Jobs
        BY <1>a, <1>1 DEF Claim, Holding
    <2>2. Acknowledged(w) \in [Jobs -> Row] /\ Acknowledged(w)[j].status # "running"
        BY <1>a, AcknowledgedType, AcknowledgedFacts
    <2>3. j = held[w]
        BY <1>1, <2>1, <2>2 DEF Claim
    <2>4. pc'[w] = "claimed" /\ held'[w] = j
        BY <1>a, <1>1, <2>3 DEF Claim, TypeOK
    <2> QED  BY <2>4 DEF Tending
<1>2. CASE EndBatch(w)
    BY <1>a, <1>2, AcknowledgedFacts DEF EndBatch
<1>3. CASE FinishError(w)
    <2>1. held[w] \in Jobs /\ row[w] \in Row /\ {"failed", "queued"} \subseteq Status
        BY <1>3, <1>a DEF FinishError, Holding, TypeOK, Status
    <2> QED  BY <1>a, <1>3, <2>1, OverwriteFacts DEF FinishError
<1>4. CASE UNCHANGED job
    BY <1>4
<1> QED
    BY <1>1, <1>2, <1>3, <1>4
    DEF WorkerStep, Select, Load, HandlerFlush, HandlerCommit, HandlerReturns, HandlerRaises,
        Reload, Poll, Locked, Crash, Drop, vars, queueVars

\* A worker that follows a job follows it until its report is written, and then
\* the job does not run any more.
LEMMA TendsToTheEnd ==
    ASSUME ~ SQLite, TypeInv, DoneAside, NEW j \in Jobs, job[j].status = "running",
           job'[j].status = "running", NEW w \in Workers, Tending(w, j),
           WorkerStep(w) \/ HandlerFlush(w) \/ HandlerCommit(w) \/ Poll(w)
    PROVE  Tending(w, j)'
<1>a. TypeOK /\ Holding /\ job \in [Jobs -> Row]
    BY DEF TypeInv, TypeOK
<1>b. /\ pc \in [Workers -> Location] /\ held \in [Workers -> Jobs \cup {None}]
      /\ row \in [Workers -> Row] /\ done \in [Workers -> Jobs \cup {None}]
    BY <1>a DEF TypeOK
<1>c. j # None
    BY NoJobAssumption
<1>d. done[w] = j => pc[w] \in {"next", "selected"}
    BY <1>c DEF DoneAside
<1>e. pc[w] \in {"next", "selected", "idle"} => done[w] = j /\ row[w].status # "succeeded"
    BY DEF Tending
<1>f. ASSUME done[w] = j, row[w].status # "succeeded"
      PROVE  Acknowledged(w)[j].status = "succeeded"
    BY <1>a, <1>c, <1>f DEF Acknowledged, Overwrite
<1>1. CASE \E k \in Jobs : Select(w, k)
    <2>1. done[w] = j /\ row[w].status # "succeeded" /\ UNCHANGED <<row, done>>
        BY <1>1, <1>e DEF Select
    <2> QED  BY <2>1 DEF Tending
<1>2. CASE Claim(w)
    <2>1. Acknowledged(w)[j].status = "succeeded"
        BY <1>2, <1>e, <1>f DEF Claim
    <2>2. held[w] \in Jobs /\ Acknowledged(w) \in [Jobs -> Row]
        BY <1>a, <1>2, AcknowledgedType DEF Claim, Holding
    <2>3. FALSE
        BY <1>2, <2>1, <2>2 DEF Claim
    <2> QED  BY <2>3
<1>3. CASE Load(w) \/ Reload(w)
    <2>1. held[w] = j /\ done[w] # j
        BY <1>3, <1>d DEF Load, Reload, Tending
    <2>2. /\ held'[w] = j /\ row'[w] = job[j]
          /\ pc'[w] \in {"running", "reloaded"}
        BY <1>b, <1>3, <2>1 DEF Load, Reload
    <2> QED  BY <2>2 DEF Tending
<1>4. CASE HandlerReturns(w)
    <2>1. held[w] = j /\ row[w].status # "succeeded"
        BY <1>4, <1>d DEF HandlerReturns, Tending
    <2>2. done'[w] = j /\ row'[w] = row[w]
        BY <1>b, <1>4, <2>1 DEF HandlerReturns
    <2> QED  BY <2>1, <2>2 DEF Tending
<1>5. CASE HandlerRaises(w)
    <2>1. held[w] = j
        BY <1>5, <1>d DEF HandlerRaises, Tending
    <2>2. held'[w] = j /\ pc'[w] = "raised"
        BY <1>b, <1>5, <2>1 DEF HandlerRaises
    <2> QED  BY <2>2 DEF Tending
<1>6. CASE FinishError(w)
    <2>1. held[w] = j /\ row[w].status \notin {"queued", "failed"}
        BY <1>6, <1>d DEF FinishError, Tending
    <2>2. job'[j].status \in {"queued", "failed"}
        BY <1>a, <1>6, <2>1 DEF FinishError, Overwrite
    <2> QED  BY <2>2
<1>7. CASE EndBatch(w)
    BY <1>7, <1>e, <1>f DEF EndBatch
<1>8. ~ Locked(w)
    BY DEF Locked, MayWrite
<1>9. CASE HandlerFlush(w) \/ HandlerCommit(w) \/ Poll(w)
    BY <1>9 DEF HandlerFlush, HandlerCommit, Poll, vars, queueVars, Tending
<1> QED
    BY <1>1, <1>2, <1>3, <1>4, <1>5, <1>6, <1>7, <1>8, <1>9 DEF WorkerStep

LEMMA TendedKept ==
    ASSUME ~ SQLite, TypeInv, Tended, DoneAside, [Next]_vars, faults' = 0, faults = 0
    PROVE  Tended' /\ DoneAside'
<1>a. TypeOK /\ job \in [Jobs -> Row]
    BY DEF TypeInv, TypeOK
<1>1. ASSUME NEW w \in Workers,
             WorkerStep(w) \/ HandlerFlush(w) \/ HandlerCommit(w) \/ Poll(w)
      PROVE  Tended' /\ DoneAside'
    <2>1. DoneAside'
        BY <1>a, <1>1, AsideKept
    <2>2. ASSUME NEW j \in Jobs, job'[j].status = "running"
          PROVE  \E u \in Workers : Tending(u, j)'
        <3>1. CASE job[j].status # "running"
            BY <1>1, <2>2, <3>1, StartsTended
        <3>2. CASE job[j].status = "running"
            <4>1. PICK u \in Workers : Tending(u, j)
                BY <3>2 DEF Tended
            <4>2. CASE u = w
                BY <1>1, <2>2, <3>2, <4>1, <4>2, TendsToTheEnd
            <4>3. CASE u # w
                <5>1. UNCHANGED <<pc[u], held[u], row[u], done[u]>>
                    BY <1>a, <1>1, <4>3, OtherWorkers
                <5> QED  BY <4>1, <5>1 DEF Tending
            <4> QED  BY <4>2, <4>3
        <3> QED  BY <3>1, <3>2
    <2> QED  BY <2>1, <2>2 DEF Tended
<1>2. ASSUME UNCHANGED <<pc, held, row, done>>,
             \A j \in Jobs : job'[j].status = "running" => job[j].status = "running"
      PROVE  Tended' /\ DoneAside'
    BY <1>2 DEF Tended, DoneAside, Tending
<1>3. ASSUME NEW w \in Workers, Crash(w)  PROVE FALSE
    BY <1>3 DEF Crash
<1>4. ASSUME NEW c \in Clients, ClientStep(c)  PROVE Tended' /\ DoneAside'
    <2>1. CASE \E j \in Jobs : Enqueue(c, j)
        BY <1>2, <1>a, <2>1 DEF Enqueue, NoRow
    <2>2. CASE Cancel(c)
        BY <1>2, <1>a, <2>2 DEF Cancel
    <2>3. CASE UNCHANGED <<job, pc, held, row, done>>
        BY <1>2, <2>3
    <2> QED
        BY <1>4, <2>1, <2>2, <2>3
        DEF ClientStep, SelectToCancel, RequestRead, RequestFlush, RequestCommit, RequestAbort,
            queueVars
<1>5. ASSUME NEW j \in Jobs, BecomesDue(j) \/ BecomesStale(j)  PROVE Tended' /\ DoneAside'
    BY <1>2, <1>a, <1>5 DEF BecomesDue, BecomesStale
<1>6. CASE UNCHANGED vars
    BY <1>2, <1>6 DEF vars, queueVars
<1> QED  BY <1>1, <1>3, <1>4, <1>5, <1>6 DEF Next

\* Crashes are counted and never forgotten.
LEMMA FaultsGrow ==
    ASSUME TypeOK, [Next]_vars, faults' = 0
    PROVE  faults = 0
<1>1. faults \in Nat  BY DEF TypeOK
<1>2. ASSUME NEW w \in Workers, Crash(w)  PROVE FALSE
    BY <1>1, <1>2 DEF Crash
<1>3. CASE UNCHANGED faults
    BY <1>3
<1> QED
    BY <1>2, <1>3
    DEF Next, ClientStep, Enqueue, SelectToCancel, Cancel, RequestRead, RequestFlush,
        RequestCommit, RequestAbort, WorkerStep, Select, Claim, Load, HandlerReturns,
        HandlerRaises, Reload, FinishError, EndBatch, Locked, HandlerFlush, HandlerCommit, Poll,
        BecomesDue, BecomesStale, vars, queueVars

\* On PostgreSQL, unless a worker crashes, a job that is marked running is being
\* worked on or its outcome is about to be recorded: there is nothing for the
\* stale timeout to recover.  (On SQLite a worker that is refused the write lock
\* drops its report, and the job stays behind.)
THEOREM RunningJobsAreLookedAfter == ~ SQLite => (Spec => []RunningIsLookedAfter)
<1> SUFFICES ASSUME ~ SQLite  PROVE Spec => []RunningIsLookedAfter
    OBVIOUS
<1>1. Init => PostgresInv
    BY InitType DEF Init, PostgresInv, Tended, DoneAside, NoRow
<1>2. PostgresInv /\ [Next]_vars => PostgresInv'
    BY NextType, FaultsGrow, TendedKept DEF PostgresInv, TypeInv
<1>3. PostgresInv => RunningIsLookedAfter
    BY DEF PostgresInv, Tended, Tending, RunningIsLookedAfter, LookedAfter
<1> QED  BY <1>1, <1>2, <1>3, PTL DEF Spec
=============================================================================
