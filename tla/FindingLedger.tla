----------------------------- MODULE FindingLedger -----------------------------
(***************************************************************************)
(* The life of the findings of one project: every scan that ends records   *)
(* what it reported and resolves what other scans had left open            *)
(* (platform/scanning.py), while users suppress, resolve and reopen        *)
(* findings on the API and the dashboard (platform/triage.py).  Both read  *)
(* findings, decide from the copies and write later.                       *)
(*                                                                         *)
(* Here a scan that fails is one that leaves no trace, and may be run      *)
(* again; so may one that has succeeded, when an inline request still      *)
(* holds the scan as queued that a worker has completed meanwhile.  How a  *)
(* scan comes to its end is the subject of module ScanPipeline.            *)
(***************************************************************************)
EXTENDS Transactions, Naturals

CONSTANTS
    ScanIds,        \* the scans of the project, in the order they were requested
    Fingerprints    \* what the engine may report

ASSUME ScanIdsAssumption == ScanIds \subseteq Nat \ {0}

VARIABLES
    finding,        \* the committed row of each finding of each scan
    lastEvent,      \* the latest row of finding_events of each finding
    work,           \* what each session is doing
    latest,         \* history: the scan that ended last, and what it reported
    reopened        \* history: the findings users reopened since then

rowVars == <<finding, lastEvent>>
historyVars == <<latest, reopened>>
ledgerVars == <<rowVars, work, historyVars, txnVars>>

VALID_STATUSES == {"open", "resolved", "suppressed"}
FindingRow == ScanIds \X Fingerprints
Absent == [status |-> "absent", triaged |-> FALSE]

\* triaged: the columns suppressed_by and suppressed_reason are filled.
Finding == [status : VALID_STATUSES, triaged : BOOLEAN]

NoWork == [kind |-> "none"]
Work ==
    {NoWork}
    \cup [kind : {"scanning"}, scan : ScanIds]
    \cup [kind : {"resolving"}, scan : ScanIds, report : SUBSET Fingerprints,
          gone : SUBSET FindingRow]
    \cup [kind : {"triaging"}, row : FindingRow, copy : Finding]

LedgerTypeOK ==
    /\ TxnTypeOK
    /\ finding \in [FindingRow -> Finding \cup {Absent}]
    /\ lastEvent \in [FindingRow -> VALID_STATUSES \cup {"absent"}]
    /\ work \in [Sessions -> Work]
    /\ latest \in [scan : ScanIds \cup {0}, report : SUBSET Fingerprints]
    /\ reopened \subseteq FindingRow

LedgerInit ==
    /\ TxnInit
    /\ finding = [r \in FindingRow |-> Absent]
    /\ lastEvent = [r \in FindingRow |-> "absent"]
    /\ work = [e \in Sessions |-> NoWork]
    /\ latest = [scan |-> 0, report |-> {}]
    /\ reopened = {}

Do(e, w) == work' = [work EXCEPT ![e] = w]

-----------------------------------------------------------------------------
\* perform_scan flushes status = "running" before it runs the engine, and so
\* holds from here to its commit the lock of the scan's row, on SQLite that of the
\* database: whoever starts the scan once more waits for it.
StartScan(e, s) ==
    /\ work[e] = NoWork
    /\ \A f \in Sessions : work[f].kind \in {"scanning", "resolving"} => work[f].scan # s
    /\ Flush(e)
    /\ Do(e, [kind |-> "scanning", scan |-> s])
    /\ UNCHANGED <<rowVars, historyVars>>

\* Faults: findings that users have settled are resolved too; only those of the
\* most recent of the other scans are; fingerprints taken for rows.
GoneWhateverStatus(s, report) ==
    {r \in FindingRow : /\ r[1] # s /\ r[2] \notin report
                        /\ finding[r].status \in {"open", "suppressed"}}
GoneOfPreviousScan(s, report) ==
    {r \in FindingRow : /\ r[1] # s /\ r[2] \notin report /\ finding[r].status = "open"
                        /\ \A q \in FindingRow : q[1] # s /\ finding[q].status = "open" => q[1] <= r[1]}
GoneFingerprints(s, report) == {r[2] : r \in GoneOfPreviousScan(s, report)}

\* The open findings of other scans that this one does not report.
Gone(s, report) ==
    {r \in FindingRow : r[1] # s /\ r[2] \notin report /\ finding[r].status = "open"}

\* The engine reports; _resolve_previous_findings selects what is gone.
SelectOpen(e, report) ==
    /\ work[e].kind = "scanning"
    /\ Read(e)
    /\ Do(e, [kind |-> "resolving", scan |-> work[e].scan, report |-> report,
              gone |-> Gone(work[e].scan, report)])
    /\ UNCHANGED <<rowVars, historyVars>>

\* The updates of those findings, the new ones and the status of the scan are
\* committed together.  The ORM updates by id and writes the columns that
\* differ from the copy: suppressed_by, empty there, is left alone.  A scan has one
\* row for a fingerprint: if an earlier run of it has saved one, the insert fails.
SaveScan(e) ==
    /\ work[e].kind = "resolving"
    /\ \A r \in {work[e].scan} \X work[e].report : finding[r] = Absent
    /\ Commit(e)
    /\ LET s == work[e].scan
           new == {s} \X work[e].report
           status == [r \in FindingRow |-> IF r \in new THEN "open"
                                           ELSE IF r \in work[e].gone THEN "resolved"
                                           ELSE finding[r].status]
       IN  /\ finding' = [r \in FindingRow |-> [finding[r] EXCEPT !.status = status[r]]]
           /\ lastEvent' = [r \in FindingRow |-> IF r \in new \cup work[e].gone
                                                 THEN status[r] ELSE lastEvent[r]]
           /\ latest' = [scan |-> s, report |-> work[e].report]
    /\ reopened' = {}
    /\ Do(e, NoWork)

-----------------------------------------------------------------------------
\* PATCH /findings/{id}, and the form of the dashboard: get_for_org ...
LoadFinding(e, r) ==
    /\ work[e] = NoWork
    /\ finding[r] # Absent
    /\ Read(e)
    /\ Do(e, [kind |-> "triaging", row |-> r, copy |-> finding[r]])
    /\ UNCHANGED <<rowVars, historyVars>>

\* A column is written only if the new value differs from the one loaded.
Written(stored, loaded, new) == IF new = loaded THEN stored ELSE new

\* ... and apply_triage, when validate_transition has found no fault.
ApplyTriage(e, new) ==
    /\ work[e].kind = "triaging"
    /\ Commit(e)
    /\ LET r == work[e].row
           loaded == work[e].copy
       IN  /\ finding' = [finding EXCEPT
                  ![r].status = Written(@, loaded.status, new),
                  ![r].triaged = Written(@, loaded.triaged, new # "open")]
           /\ lastEvent' = [lastEvent EXCEPT ![r] = new]
           /\ reopened' = IF new = "open" THEN reopened \cup {r} ELSE reopened \ {r}
    /\ UNCHANGED latest
    /\ Do(e, NoWork)

\* The engine raises, the reason for a suppression is blank (422), the database
\* refuses a write, or the process dies.
Abandon(e) ==
    /\ work[e] # NoWork
    /\ Rollback(e)
    /\ Do(e, NoWork)
    /\ UNCHANGED <<rowVars, historyVars>>

LedgerStep(e) ==
    \/ \E s \in ScanIds : StartScan(e, s)
    \/ \E report \in SUBSET Fingerprints : SelectOpen(e, report)
    \/ SaveScan(e)
    \/ \E r \in FindingRow : LoadFinding(e, r)
    \/ \E new \in VALID_STATUSES : ApplyTriage(e, new)
    \/ Abandon(e)

LedgerNext == \E e \in Sessions : LedgerStep(e)

LedgerSpec == LedgerInit /\ [][LedgerNext]_ledgerVars

-----------------------------------------------------------------------------
(***************************************************************************)
(* Properties.                                                             *)
(***************************************************************************)
\* GET /findings/{id} and GET /findings/{id}/events agree: the latest event of
\* a finding tells its status, and a finding names who settled it only if a
\* user did.
HistoryExplainsStatus ==
    \A r \in FindingRow :
        /\ finding[r].status = lastEvent[r]
        /\ finding[r].status = "suppressed" => finding[r].triaged
        /\ finding[r].status = "open" => ~ finding[r].triaged

\* A scan never overrules a user: what was suppressed stays so until a user
\* decides otherwise, however long before the scan read the findings.
TriageOutlivesScans ==
    [][\A r \in FindingRow :
          finding[r].status = "suppressed" /\ finding'[r].status # "suppressed" =>
              \A e \in Sessions : work[e].kind = "resolving" => UNCHANGED work[e]]_ledgerVars

\* No finding is left over: what is open was reported by the scan that ended last,
\* or is one of that scan's own from an earlier run of it, or a user has reopened
\* it since.  The scan that ended last need not be the one requested last.
OpenIsReported ==
    \A r \in FindingRow : finding[r].status = "open" =>
        r[2] \in latest.report \/ r[1] = latest.scan \/ r \in reopened

\* "Mark findings from earlier scans that no longer appear as resolved"
\* (platform/scanning.py:288): a scan does not resolve what a later one found.
OnlyEarlierScansResolved ==
    [][\A e \in Sessions : work[e].kind = "resolving" /\ work'[e] = NoWork =>
          \A r \in FindingRow :
              finding[r].status = "open" /\ finding'[r].status = "resolved"
                  => r[1] < work[e].scan]_ledgerVars
=============================================================================
