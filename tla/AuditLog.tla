------------------------------- MODULE AuditLog -------------------------------
(***************************************************************************)
(* The audit trail of one organization (platform/audit.py and the audit    *)
(* routes): every route appends to it, an export pages through it in       *)
(* chunks, and a purge removes what is older than a retention window after *)
(* recording that it does so.  A record gets its time before it gets its   *)
(* id, and a purge computes its cutoff twice.                              *)
(***************************************************************************)
EXTENDS Transactions, Naturals, Sequences, FiniteSets

CONSTANTS
    Chunk,          \* rows per page of an export
    Retentions,     \* retention windows asked for
    MaxRecords,     \* bound: records ever appended
    MaxClock        \* bound: the clock's readings

ASSUME ChunkAssumption == Chunk \in Nat \ {0}
ASSUME RecordsAssumption == MaxRecords \in Nat /\ MaxClock \in Nat
ASSUME RetentionsAssumption == Retentions \subseteq Nat

VARIABLES
    log,            \* the committed records
    nextId,         \* the database's sequence of ids
    clock,
    auditor         \* what each session is doing

auditVars == <<log, nextId, clock, auditor>>

\* removed is what an audit.purged record says of its purge.
Record == [id : 1..MaxRecords, at : 0..MaxClock, removed : 0..MaxRecords]
Idle == [kind |-> "idle"]
Auditor ==
    {Idle}
    \cup [kind : {"recording"}, at : 0..MaxClock]
    \cup [kind : {"recorded"}, row : Record]
    \cup [kind : {"summarized"}, retention : Retentions, expiring : 0..MaxRecords]
    \cup [kind : {"purging"}, retention : Retentions, row : Record]
    \cup [kind : {"exporting"}, view : SUBSET Record, out : Seq(SUBSET Record),
          last : 0..MaxRecords, more : BOOLEAN]

AuditTypeOK ==
    /\ log \subseteq Record
    /\ nextId \in 1..(MaxRecords + 1)
    /\ clock \in 0..MaxClock
    /\ auditor \in [Sessions -> Auditor]

AuditInit ==
    /\ log = {}
    /\ nextId = 1
    /\ clock = 0
    /\ auditor = [e \in Sessions |-> Idle]

Audits(e, a) == auditor' = [auditor EXCEPT ![e] = a]

\* Days, say: a purge does not last for two of them.
ClockTicks ==
    /\ clock < MaxClock
    /\ \A e \in Sessions : auditor[e].kind = "purging" => auditor[e].row.at = clock
    /\ clock' = clock + 1
    /\ UNCHANGED <<log, nextId, auditor, txnVars>>

-----------------------------------------------------------------------------
\* A route has read its rows and calls record, which takes the time ...
RecordNow(e) ==
    /\ auditor[e] = Idle
    /\ Read(e)
    /\ Audits(e, [kind |-> "recording", at |-> clock])
    /\ UNCHANGED <<log, nextId, clock>>

\* ... the flush gives the id ...
FlushRecord(e) ==
    /\ auditor[e].kind = "recording"
    /\ nextId <= MaxRecords
    /\ Flush(e)
    /\ Audits(e, [kind |-> "recorded",
                  row |-> [id |-> nextId, at |-> auditor[e].at, removed |-> 0]])
    /\ nextId' = nextId + 1
    /\ UNCHANGED <<log, clock>>

\* ... and the route commits.
CommitRecord(e) ==
    /\ auditor[e].kind = "recorded"
    /\ Commit(e)
    /\ log' = log \cup {auditor[e].row}
    /\ Audits(e, Idle)
    /\ UNCHANGED <<nextId, clock>>

-----------------------------------------------------------------------------
\* Fault: a page starts at the last id of the one before.
PageFromLast(view, last) ==
    {r \in view : r.id >= last /\ Cardinality({q \in view : last <= q.id /\ q.id <= r.id}) <= Chunk}

\* The first Chunk rows with id > last; a page is yielded in the order of ids.
PageAfter(view, last) ==
    {r \in view : r.id > last /\ Cardinality({q \in view : last < q.id /\ q.id <= r.id}) <= Chunk}

LastOf(page) == (CHOOSE r \in page : \A q \in page : q.id <= r.id).id

StartExport(e) ==
    /\ auditor[e] = Idle
    /\ Read(e)
    /\ Audits(e, [kind |-> "exporting", view |-> log, out |-> <<>>, last |-> 0, more |-> TRUE])
    /\ UNCHANGED <<log, nextId, clock>>

\* SQLite reads from the snapshot of the transaction.  A page that is not full is
\* the last.
ExportChunk(e) ==
    /\ auditor[e].kind = "exporting" /\ auditor[e].more
    /\ LET a == auditor[e]
           page == PageAfter(IF SQLite THEN a.view ELSE log, a.last)
       IN  Audits(e, [a EXCEPT !.out = Append(@, page),
                               !.last = IF page = {} THEN @ ELSE LastOf(page),
                               !.more = Cardinality(page) = Chunk])
    /\ Read(e)
    /\ UNCHANGED <<log, nextId, clock>>

\* The export is itself recorded; the answer is sent after that commit.
DeliverExport(e) ==
    /\ auditor[e].kind = "exporting" /\ ~ auditor[e].more
    /\ nextId <= MaxRecords
    /\ Commit(e)
    /\ log' = log \cup {[id |-> nextId, at |-> clock, removed |-> 0]}
    /\ nextId' = nextId + 1
    /\ Audits(e, Idle)
    /\ UNCHANGED clock

-----------------------------------------------------------------------------
\* Fault: the comparison with the cutoff the other way round.
NotYetExpired(retention) == {r \in log : r.at + retention > clock}

\* created_at < now - retention_days
Expired(retention) == {r \in log : r.at + retention < clock}

\* retention_summary: the first cutoff ...
SummarizePurge(e, retention) ==
    /\ auditor[e] = Idle
    /\ Read(e)
    /\ Audits(e, [kind |-> "summarized", retention |-> retention,
                  expiring |-> Cardinality(Expired(retention))])
    /\ UNCHANGED <<log, nextId, clock>>

\* ... record "audit.purged", flushed by the delete that follows ...
RecordPurge(e) ==
    /\ auditor[e].kind = "summarized"
    /\ nextId <= MaxRecords
    /\ Flush(e)
    /\ Audits(e, [kind |-> "purging", retention |-> auditor[e].retention,
                  row |-> [id |-> nextId, at |-> clock, removed |-> auditor[e].expiring]])
    /\ nextId' = nextId + 1
    /\ UNCHANGED <<log, clock>>

\* ... whose cutoff is computed anew and spares no record for its kind.
Purge(e) ==
    /\ auditor[e].kind = "purging"
    /\ Commit(e)
    /\ LET own == {r \in {auditor[e].row} : r.at + auditor[e].retention >= clock}
       IN  log' = (log \ Expired(auditor[e].retention)) \cup own
    /\ Audits(e, Idle)
    /\ UNCHANGED <<nextId, clock>>

\* A refused write, an error, or the death of the process.
Forget(e) ==
    /\ auditor[e] # Idle
    /\ Rollback(e)
    /\ Audits(e, Idle)
    /\ UNCHANGED <<log, nextId, clock>>

AuditNext ==
    \/ ClockTicks
    \/ \E e \in Sessions :
           \/ RecordNow(e) \/ FlushRecord(e) \/ CommitRecord(e)
           \/ StartExport(e) \/ ExportChunk(e) \/ DeliverExport(e)
           \/ \E retention \in Retentions : SummarizePurge(e, retention)
           \/ RecordPurge(e) \/ Purge(e)
           \/ Forget(e)

AuditSpec == TxnInit /\ AuditInit /\ [][AuditNext]_<<auditVars, txnVars>>

-----------------------------------------------------------------------------
(***************************************************************************)
(* Properties.                                                             *)
(***************************************************************************)
\* The pages hold the whole trail, every record once, "in chronological order"
\* (iter_export): the order is that of ids, and the times of records agree with it.
IsTheTrail(pages) ==
    /\ UNION {pages[i] : i \in DOMAIN pages} = log
    /\ \A i, k \in DOMAIN pages : i < k =>
           \A r \in pages[i], q \in pages[k] : r.id < q.id
    /\ \A r, q \in log : r.id < q.id => r.at <= q.at

\* An export that is answered is the trail at that moment, though records have
\* been appended and purged while its pages were read.
DeliveredExportIsTheTrail ==
    [][\A e \in Sessions :
          auditor[e].kind = "exporting" /\ auditor'[e] = Idle /\ log' # log =>
              IsTheTrail(auditor[e].out)]_auditVars

Purges(e) == auditor[e].kind = "purging" /\ auditor'[e] = Idle /\ nextId' = nextId /\ log' # log

\* A purge takes the oldest part of the trail and leaves no gap: nothing it keeps,
\* its own record included, came before something it removes.
PurgeLeavesNoGap ==
    [][\A e \in Sessions : Purges(e) =>
          \A r \in log \ log', q \in log' : r.id < q.id]_auditVars

\* "the fact that audit history was removed is permanently recorded"
\* (purge_expired, platform/audit.py:250): the record of a purge survives it.  With a
\* retention of no days, which PurgeRequest accepts, it is older than the second
\* cutoff.
PurgeRecordSurvives ==
    [][\A e \in Sessions : Purges(e) => auditor[e].row \in log']_auditVars

\* "the removal -- how much and against what cutoff -- is itself permanent"
\* (docs/CHANGELOG.md:189): the record counts what the purge removed.
PurgeRecordCounts ==
    [][\A e \in Sessions : Purges(e) =>
          auditor[e].row.removed = Cardinality(log \ log')]_auditVars
=============================================================================
