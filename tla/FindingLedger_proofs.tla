-------------------------- MODULE FindingLedger_proofs --------------------------
(***************************************************************************)
(* Theorems about module FindingLedger, for any number of sessions, scans  *)
(* and fingerprints:                                                       *)
(*   - type correctness, on both dialects;                                 *)
(*   - on SQLite, that the history of a finding explains its status, that  *)
(*     what is open was reported or reopened, and that no scan overrules a *)
(*     user.                                                               *)
(***************************************************************************)
EXTENDS FindingLedger, Transactions_proofs

-----------------------------------------------------------------------------
(***************************************************************************)
(* Types.  A finding that a session has selected stays.                    *)
(***************************************************************************)
OnScan(e) == work[e].kind \in {"scanning", "resolving"}

Present ==
    \A e \in Sessions :
        /\ work[e].kind = "triaging" => finding[work[e].row] # Absent
        /\ work[e].kind = "resolving" => \A r \in work[e].gone : finding[r] # Absent

LedgerInv == LedgerTypeOK /\ Present

\* What a session at work has in hand.
LEMMA WorkShape ==
    ASSUME LedgerTypeOK, NEW e \in Sessions
    PROVE  /\ work[e].kind = "none" <=> work[e] = NoWork
           /\ OnScan(e) => work[e].scan \in ScanIds
           /\ work[e].kind = "resolving"
                => work[e].report \subseteq Fingerprints /\ work[e].gone \subseteq FindingRow
           /\ work[e].kind = "triaging" => work[e].row \in FindingRow /\ work[e].copy \in Finding
<1>1. work[e] \in Work  BY DEF LedgerTypeOK
<1> QED  BY <1>1 DEF Work, NoWork, OnScan

LEMMA RowShape ==
    ASSUME NEW r \in FindingRow
    PROVE  r[1] \in ScanIds /\ r[2] \in Fingerprints /\ r = <<r[1], r[2]>>
BY DEF FindingRow

\* A session goes on to its next piece of work.
LEMMA DoType ==
    ASSUME work \in [Sessions -> Work], NEW e \in Sessions, NEW w \in Work, Do(e, w)
    PROVE  work' \in [Sessions -> Work]
BY DEF Do

\* What SaveScan does to one finding.
LEMMA SavedRow ==
    ASSUME LedgerTypeOK, NEW e \in Sessions, SaveScan(e), NEW r \in FindingRow
    PROVE  LET new == {work[e].scan} \X work[e].report
           IN  /\ finding'[r].triaged = finding[r].triaged
               /\ r \in new =>
                    /\ r[1] = work[e].scan /\ r[2] \in work[e].report
                    /\ finding'[r] = [status |-> "open", triaged |-> finding[r].triaged]
                    /\ lastEvent'[r] = "open"
               /\ r \notin new /\ r \in work[e].gone =>
                    /\ finding'[r] = [status |-> "resolved", triaged |-> finding[r].triaged]
                    /\ lastEvent'[r] = "resolved"
               /\ r \notin new /\ r \notin work[e].gone =>
                    finding'[r] = finding[r] /\ lastEvent'[r] = lastEvent[r]
               /\ r[1] = work[e].scan /\ r[2] \in work[e].report => r \in new
<1> DEFINE new == {work[e].scan} \X work[e].report
<1> DEFINE status == IF r \in new THEN "open" ELSE IF r \in work[e].gone THEN "resolved"
                     ELSE finding[r].status
<1>1. finding[r] \in Finding \cup {Absent}
    BY DEF LedgerTypeOK
<1>2. /\ finding'[r] = [finding[r] EXCEPT !.status = status]
      /\ lastEvent'[r] = IF r \in new \cup work[e].gone THEN status ELSE lastEvent[r]
    BY DEF SaveScan
<1>3. \A s : [finding[r] EXCEPT !.status = s] = [status |-> s, triaged |-> finding[r].triaged]
    BY <1>1 DEF Finding, Absent
<1>4. [finding[r] EXCEPT !.status = finding[r].status] = finding[r]
    BY <1>1 DEF Finding, Absent
<1>5. r = <<r[1], r[2]>>
    BY RowShape
<1>6. (r \in new) <=> (r[1] = work[e].scan /\ r[2] \in work[e].report)
    BY <1>5
<1> HIDE DEF new
<1>7. \A s : [status |-> s, triaged |-> finding[r].triaged].triaged = finding[r].triaged
    OBVIOUS
<1>8. /\ r \in new => finding'[r] = [status |-> "open", triaged |-> finding[r].triaged]
                      /\ lastEvent'[r] = "open"
      /\ r \notin new /\ r \in work[e].gone =>
            finding'[r] = [status |-> "resolved", triaged |-> finding[r].triaged]
            /\ lastEvent'[r] = "resolved"
      /\ r \notin new /\ r \notin work[e].gone =>
            finding'[r] = finding[r] /\ lastEvent'[r] = lastEvent[r]
    BY <1>2, <1>3, <1>4
<1>9. finding'[r].triaged = finding[r].triaged
    BY <1>7, <1>8
<1> QED  BY <1>6, <1>8, <1>9 DEF new

LEMMA SavedTypes ==
    ASSUME LedgerTypeOK, NEW e \in Sessions, SaveScan(e)
    PROVE  LedgerTypeOK'
<1>a. /\ work[e].scan \in ScanIds /\ work[e].report \subseteq Fingerprints
    BY WorkShape DEF SaveScan, OnScan
<1>1. TxnTypeOK'  BY TxnType DEF SaveScan, LedgerTypeOK
<1>2. ASSUME NEW r \in FindingRow
      PROVE  /\ finding'[r] \in Finding \cup {Absent}
             /\ lastEvent'[r] \in VALID_STATUSES \cup {"absent"}
    <2>1. finding[r] \in Finding \cup {Absent} /\ lastEvent[r] \in VALID_STATUSES \cup {"absent"}
        BY DEF LedgerTypeOK
    <2>2. finding[r].triaged \in BOOLEAN
        <3>1. CASE finding[r] \in Finding  BY <3>1 DEF Finding
        <3>2. CASE finding[r] = Absent  BY <3>2 DEF Absent
        <3> QED  BY <2>1, <3>1, <3>2
    <2>3. \A s \in VALID_STATUSES : [status |-> s, triaged |-> finding[r].triaged] \in Finding
        BY <2>2 DEF Finding
    <2>4. "open" \in VALID_STATUSES /\ "resolved" \in VALID_STATUSES
        BY DEF VALID_STATUSES
    <2> QED  BY <2>1, <2>3, <2>4, SavedRow
<1>3. /\ finding' \in [FindingRow -> Finding \cup {Absent}]
      /\ lastEvent' \in [FindingRow -> VALID_STATUSES \cup {"absent"}]
    <2>1. DOMAIN finding' = FindingRow /\ DOMAIN lastEvent' = FindingRow
          /\ finding' = [r \in FindingRow |-> finding'[r]]
          /\ lastEvent' = [r \in FindingRow |-> lastEvent'[r]]
        BY DEF SaveScan
    <2> QED  BY <1>2, <2>1
<1>4. /\ latest' \in [scan : ScanIds \cup {0}, report : SUBSET Fingerprints]
      /\ reopened' = {}
    BY <1>a DEF SaveScan, LedgerTypeOK
<1>5. work' \in [Sessions -> Work]
    <2>1. NoWork \in Work  BY DEF Work
    <2> QED  BY <2>1, DoType DEF SaveScan, LedgerTypeOK
<1> QED  BY <1>1, <1>3, <1>4, <1>5 DEF LedgerTypeOK

\* What ApplyTriage does to the finding it is about, and to the others.
LEMMA TriagedRow ==
    ASSUME LedgerTypeOK, NEW e \in Sessions, NEW new \in VALID_STATUSES, ApplyTriage(e, new),
           NEW r \in FindingRow
    PROVE  /\ r # work[e].row => finding'[r] = finding[r] /\ lastEvent'[r] = lastEvent[r]
           /\ r = work[e].row =>
                /\ finding'[r].status = Written(finding[r].status, work[e].copy.status, new)
                /\ finding'[r].triaged
                        = Written(finding[r].triaged, work[e].copy.triaged, new # "open")
                /\ lastEvent'[r] = new
<1>1. /\ finding[r] \in Finding \cup {Absent}
      /\ DOMAIN finding = FindingRow /\ DOMAIN lastEvent = FindingRow
    BY DEF LedgerTypeOK
<1>2. DOMAIN finding[r] = {"status", "triaged"}
    BY <1>1 DEF Finding, Absent
<1> QED  BY <1>1, <1>2 DEF ApplyTriage

LEMMA TriagedTypes ==
    ASSUME LedgerTypeOK, Present, NEW e \in Sessions, NEW new \in VALID_STATUSES,
           ApplyTriage(e, new)
    PROVE  LedgerTypeOK' /\ finding'[work[e].row] \in Finding
<1> DEFINE k == work[e].row
<1>a. k \in FindingRow /\ work[e].copy \in Finding
    BY WorkShape DEF ApplyTriage
<1>b. finding[k] \in Finding /\ finding \in [FindingRow -> Finding \cup {Absent}]
    BY <1>a DEF ApplyTriage, LedgerTypeOK, Present
<1>1. TxnTypeOK'  BY TxnType DEF ApplyTriage, LedgerTypeOK
<1>2. finding'[k] \in Finding
    <2>1. (new # "open") \in BOOLEAN
        OBVIOUS
    <2>2. /\ Written(finding[k].status, work[e].copy.status, new) \in VALID_STATUSES
          /\ Written(finding[k].triaged, work[e].copy.triaged, new # "open") \in BOOLEAN
        BY <1>b, <2>1 DEF Written, Finding
    <2>3. finding'[k] = [finding[k] EXCEPT
                !.status = Written(finding[k].status, work[e].copy.status, new),
                !.triaged = Written(finding[k].triaged, work[e].copy.triaged, new # "open")]
        BY <1>a, <1>b DEF ApplyTriage
    <2> QED  BY <1>b, <2>2, <2>3 DEF Finding
<1>3. finding' \in [FindingRow -> Finding \cup {Absent}]
    BY <1>a, <1>b, <1>2 DEF ApplyTriage
<1>4. /\ lastEvent' \in [FindingRow -> VALID_STATUSES \cup {"absent"}]
      /\ reopened' \subseteq FindingRow
      /\ UNCHANGED latest
    BY <1>a DEF ApplyTriage, LedgerTypeOK
<1>5. work' \in [Sessions -> Work]
    <2>1. NoWork \in Work  BY DEF Work
    <2> QED  BY <2>1, DoType DEF ApplyTriage, LedgerTypeOK
<1> QED  BY <1>1, <1>2, <1>3, <1>4, <1>5 DEF LedgerTypeOK

\* The steps that write nothing but the session's own work.
LEMMA PreparingTypes ==
    ASSUME LedgerTypeOK, NEW e \in Sessions,
           \/ \E s \in ScanIds : StartScan(e, s)
           \/ \E report \in SUBSET Fingerprints : SelectOpen(e, report)
           \/ \E r \in FindingRow : LoadFinding(e, r)
           \/ Abandon(e)
    PROVE  LedgerTypeOK' /\ UNCHANGED <<rowVars, historyVars>>
<1>1. UNCHANGED <<rowVars, historyVars>>
    BY DEF StartScan, SelectOpen, LoadFinding, Abandon
<1>2. TxnTypeOK'
    BY TxnType DEF StartScan, SelectOpen, LoadFinding, Abandon, LedgerTypeOK
<1>3. \E w \in Work : Do(e, w)
    <2>1. ASSUME NEW s \in ScanIds, StartScan(e, s)  PROVE \E w \in Work : Do(e, w)
        <3>1. [kind |-> "scanning", scan |-> s] \in Work  BY DEF Work
        <3> QED  BY <2>1, <3>1 DEF StartScan
    <2>2. ASSUME NEW report \in SUBSET Fingerprints, SelectOpen(e, report)
          PROVE  \E w \in Work : Do(e, w)
        <3>1. work[e].scan \in ScanIds  BY <2>2, WorkShape DEF SelectOpen, OnScan
        <3>2. [kind |-> "resolving", scan |-> work[e].scan, report |-> report,
               gone |-> Gone(work[e].scan, report)] \in Work
            BY <3>1 DEF Work, Gone
        <3> QED  BY <2>2, <3>2 DEF SelectOpen
    <2>3. ASSUME NEW r \in FindingRow, LoadFinding(e, r)  PROVE \E w \in Work : Do(e, w)
        <3>1. finding[r] \in Finding  BY <2>3 DEF LoadFinding, LedgerTypeOK
        <3>2. [kind |-> "triaging", row |-> r, copy |-> finding[r]] \in Work
            BY <3>1 DEF Work
        <3> QED  BY <2>3, <3>2 DEF LoadFinding
    <2>4. CASE Abandon(e)
        BY <2>4 DEF Abandon, Work
    <2> QED  BY <2>1, <2>2, <2>3, <2>4
<1>4. work' \in [Sessions -> Work]
    BY <1>3, DoType DEF LedgerTypeOK
<1> QED  BY <1>1, <1>2, <1>4 DEF rowVars, historyVars, LedgerTypeOK

LEMMA StepTypes ==
    ASSUME LedgerInv, [LedgerNext]_ledgerVars
    PROVE  LedgerTypeOK'
<1>1. CASE UNCHANGED ledgerVars
    BY <1>1 DEF LedgerInv, LedgerTypeOK, TxnTypeOK, ledgerVars, rowVars, historyVars, txnVars
<1>2. ASSUME NEW e \in Sessions, LedgerStep(e)  PROVE LedgerTypeOK'
    BY <1>2, PreparingTypes, SavedTypes, TriagedTypes DEF LedgerInv, LedgerStep
<1> QED  BY <1>1, <1>2 DEF LedgerNext

\* A session's step changes its own work only.
LEMMA OwnWork ==
    ASSUME LedgerTypeOK, NEW e \in Sessions, LedgerStep(e)
    PROVE  /\ \E w : Do(e, w)
           /\ \A f \in Sessions : f # e => work'[f] = work[f]
BY DEF LedgerTypeOK, LedgerStep, StartScan, SelectOpen, SaveScan, LoadFinding, ApplyTriage,
       Abandon, Do

\* The rows: only scans that end and users who triage write them.
LEMMA WhoWrites ==
    ASSUME NEW e \in Sessions, LedgerStep(e)
    PROVE  \/ SaveScan(e)
           \/ \E new \in VALID_STATUSES : ApplyTriage(e, new)
           \/ UNCHANGED <<finding, lastEvent, latest, reopened>>
BY DEF LedgerStep, StartScan, SelectOpen, LoadFinding, Abandon, rowVars, historyVars

\* What exists stays.
LEMMA RowsStay ==
    ASSUME LedgerInv, NEW e \in Sessions, LedgerStep(e), NEW r \in FindingRow
    PROVE  finding[r] # Absent => finding'[r] # Absent
<1>a. LedgerTypeOK /\ Present  BY DEF LedgerInv
<1>1. CASE SaveScan(e)
    <2>1. /\ "open" # "absent" /\ "resolved" # "absent"
          /\ \A b : [status |-> "open", triaged |-> b] # Absent
                    /\ [status |-> "resolved", triaged |-> b] # Absent
        BY DEF Absent
    <2> DEFINE new == {work[e].scan} \X work[e].report
    <2>2. r \in new => finding'[r] = [status |-> "open", triaged |-> finding[r].triaged]
        BY <1>a, <1>1, SavedRow
    <2>3. r \notin new /\ r \in work[e].gone
            => finding'[r] = [status |-> "resolved", triaged |-> finding[r].triaged]
        BY <1>a, <1>1, SavedRow
    <2>4. r \notin new /\ r \notin work[e].gone => finding'[r] = finding[r]
        BY <1>a, <1>1, SavedRow
    <2> HIDE DEF new
    <2> QED  BY <2>1, <2>2, <2>3, <2>4
<1>2. ASSUME NEW new \in VALID_STATUSES, ApplyTriage(e, new)
      PROVE  finding[r] # Absent => finding'[r] # Absent
    <2>1. finding'[work[e].row] \in Finding /\ Absent \notin Finding
        BY <1>a, <1>2, TriagedTypes DEF Finding, Absent, VALID_STATUSES
    <2>2. r # work[e].row => finding'[r] = finding[r]
        BY <1>a, <1>2 DEF ApplyTriage, LedgerTypeOK
    <2> QED  BY <2>1, <2>2
<1>3. CASE UNCHANGED finding
    BY <1>3
<1> QED  BY <1>1, <1>2, <1>3, WhoWrites

\* How a session comes to be triaging, or resolving.
LEMMA HowItCameTo ==
    ASSUME LedgerTypeOK, NEW e \in Sessions, LedgerStep(e)
    PROVE  /\ work'[e].kind = "triaging" => \E r \in FindingRow : LoadFinding(e, r)
           /\ work'[e].kind = "resolving" => \E report \in SUBSET Fingerprints : SelectOpen(e, report)
<1>1. ASSUME NEW w, Do(e, w)  PROVE work'[e] = w
    BY <1>1 DEF Do, LedgerTypeOK
<1>2. ASSUME NEW s \in ScanIds, StartScan(e, s)  PROVE work'[e].kind = "scanning"
    BY <1>1, <1>2 DEF StartScan
<1>3. ASSUME NEW report \in SUBSET Fingerprints, SelectOpen(e, report)
      PROVE  work'[e].kind = "resolving"
    BY <1>1, <1>3 DEF SelectOpen
<1>4. ASSUME NEW r \in FindingRow, LoadFinding(e, r)  PROVE work'[e].kind = "triaging"
    BY <1>1, <1>4 DEF LoadFinding
<1>5. CASE SaveScan(e) \/ Abandon(e) \/ \E new \in VALID_STATUSES : ApplyTriage(e, new)
    <2>1. Do(e, NoWork)  BY <1>5 DEF SaveScan, Abandon, ApplyTriage
    <2>2. work'[e].kind = "none"  BY <1>1, <2>1 DEF NoWork
    <2> QED  BY <2>2
<1> QED  BY <1>2, <1>3, <1>4, <1>5 DEF LedgerStep

LEMMA PresentKept ==
    ASSUME LedgerInv, NEW e \in Sessions, LedgerStep(e)
    PROVE  Present'
<1> SUFFICES ASSUME NEW f \in Sessions
             PROVE  /\ work'[f].kind = "triaging" => finding'[work'[f].row] # Absent
                    /\ work'[f].kind = "resolving" =>
                          \A r \in work'[f].gone : finding'[r] # Absent
    BY DEF Present
<1>a. LedgerTypeOK /\ Present  BY DEF LedgerInv
<1>1. CASE work'[f] = work[f]
    <2>1. /\ work[f].kind = "triaging" => work[f].row \in FindingRow
          /\ work[f].kind = "resolving" => work[f].gone \subseteq FindingRow
        BY <1>a, WorkShape
    <2>2. \A r \in FindingRow : finding[r] # Absent => finding'[r] # Absent
        BY RowsStay
    <2> QED  BY <1>a, <1>1, <2>1, <2>2 DEF Present
<1>2. CASE f = e
    <2>1. ASSUME NEW r \in FindingRow, LoadFinding(e, r)
          PROVE  work'[e].kind = "triaging" /\ finding'[work'[e].row] # Absent
        <3>1. work'[e] = [kind |-> "triaging", row |-> r, copy |-> finding[r]]
            BY <1>a, <2>1 DEF LoadFinding, Do, LedgerTypeOK
        <3> QED  BY <2>1, <3>1 DEF LoadFinding, rowVars
    <2>2. ASSUME NEW report \in SUBSET Fingerprints, SelectOpen(e, report)
          PROVE  /\ work'[e].kind = "resolving"
                 /\ \A r \in work'[e].gone : finding'[r] # Absent
        <3>1. work'[e] = [kind |-> "resolving", scan |-> work[e].scan, report |-> report,
                          gone |-> Gone(work[e].scan, report)]
            BY <1>a, <2>2 DEF SelectOpen, Do, LedgerTypeOK
        <3>2. \A r \in Gone(work[e].scan, report) : finding[r] # Absent
            BY DEF Gone, Absent
        <3> QED  BY <2>2, <3>1, <3>2 DEF SelectOpen, rowVars
    <2> QED  BY <1>2, <1>a, <2>1, <2>2, HowItCameTo
<1> QED  BY <1>1, <1>2, <1>a, OwnWork

LEMMA InitHolds == LedgerInit => LedgerInv
<1> SUFFICES ASSUME LedgerInit  PROVE LedgerInv
    OBVIOUS
<1>1. LedgerTypeOK
    BY DEF LedgerInit, LedgerTypeOK, TxnInit, TxnTypeOK, Work
<1>2. Present
    BY DEF LedgerInit, Present, NoWork
<1> QED  BY <1>1, <1>2 DEF LedgerInv

LEMMA InvKept == LedgerInv /\ [LedgerNext]_ledgerVars => LedgerInv'
<1> SUFFICES ASSUME LedgerInv, [LedgerNext]_ledgerVars  PROVE Present'
    BY StepTypes DEF LedgerInv
<1>1. CASE UNCHANGED ledgerVars
    BY <1>1 DEF LedgerInv, Present, ledgerVars, rowVars
<1>2. CASE LedgerNext
    BY <1>2, PresentKept DEF LedgerNext
<1> QED  BY <1>1, <1>2

\* Findings, their events and the work of every session are always well-formed.
THEOREM LedgerTypeCorrect == LedgerSpec => []LedgerTypeOK
<1>1. LedgerInv => LedgerTypeOK  BY DEF LedgerInv
<1> QED  BY <1>1, InitHolds, InvKept, PTL DEF LedgerSpec

-----------------------------------------------------------------------------
(***************************************************************************)
(* SQLite.  The invariant says what a session knows although it does not   *)
(* look again: while its snapshot is current, the findings it is about to  *)
(* resolve are those that are gone, and its copy of a finding is the row.  *)
(***************************************************************************)
Knows(e) ==
    /\ work[e].kind = "resolving" => work[e].gone = Gone(work[e].scan, work[e].report)
    /\ work[e].kind = "triaging" => work[e].copy = finding[work[e].row]

Fresh(e) ==
    work[e] # NoWork => snap[e] # "none" /\ (snap[e] = "current" => Knows(e))

AllFresh == \A e \in Sessions : Fresh(e)

SqliteInv == LedgerInv /\ AllFresh /\ HistoryExplainsStatus /\ OpenIsReported

\* What a session knows is lost to a commit of another, or it stays true.
LEMMA FreshUndisturbed ==
    ASSUME NEW f \in Sessions, Fresh(f), work'[f] = work[f],
           (\E p \in Sessions \ {f} : Commit(p)) \/ UNCHANGED <<finding, snap[f]>>
    PROVE  Fresh(f)'
<1>1. ASSUME NEW p \in Sessions \ {f}, Commit(p)  PROVE Fresh(f)'
    <2>1. snap'[f] # "current" /\ (snap[f] # "none" => snap'[f] # "none")
        BY <1>1, NobodyCurrent
    <2> QED  BY <2>1 DEF Fresh
<1>2. CASE UNCHANGED <<finding, snap[f]>>
    <2>1. \A s, report : Gone(s, report)' = Gone(s, report)
        BY <1>2 DEF Gone
    <2>2. Knows(f) => Knows(f)'
        BY <1>2, <2>1 DEF Knows
    <2> QED  BY <1>2, <2>2 DEF Fresh
<1> QED  BY <1>1, <1>2

LEMMA FreshKept ==
    ASSUME SQLite, LedgerInv, AllFresh, [LedgerNext]_ledgerVars
    PROVE  AllFresh'
<1> SUFFICES ASSUME NEW f \in Sessions  PROVE Fresh(f)'
    BY DEF AllFresh
<1>a. Fresh(f) /\ LedgerTypeOK /\ TxnTypeOK /\ work \in [Sessions -> Work]
    BY DEF AllFresh, LedgerInv, LedgerTypeOK
<1>1. CASE UNCHANGED ledgerVars
    BY <1>1, <1>a, FreshUndisturbed DEF ledgerVars, rowVars, txnVars
<1>2. ASSUME NEW e \in Sessions, LedgerStep(e), e # f  PROVE Fresh(f)'
    <2>1. work'[f] = work[f]
        BY <1>2, <1>a, OwnWork
    <2>2. \/ Commit(e)
          \/ (Read(e) \/ Flush(e) \/ Rollback(e)) /\ UNCHANGED finding
        BY <1>2
        DEF LedgerStep, StartScan, SelectOpen, SaveScan, LoadFinding, ApplyTriage, Abandon,
            rowVars
    <2>3. Commit(e) \/ UNCHANGED <<finding, snap[f]>>
        BY <1>2, <1>a, <2>2, SnapshotOfOthers
    <2> QED  BY <1>2, <1>a, <2>1, <2>3, FreshUndisturbed
<1>3. CASE LedgerStep(f)
    <2>1. ASSUME NEW s \in ScanIds, StartScan(f, s)  PROVE Fresh(f)'
        <3>1. snap'[f] # "none"  BY <1>a, <2>1, SnapshotTaken DEF StartScan
        <3>2. work'[f].kind = "scanning"  BY <1>a, <2>1 DEF StartScan, Do
        <3> QED  BY <3>1, <3>2 DEF Fresh, Knows
    <2>2. ASSUME NEW report \in SUBSET Fingerprints, SelectOpen(f, report)  PROVE Fresh(f)'
        <3>1. snap'[f] # "none"  BY <1>a, <2>2, SnapshotTaken DEF SelectOpen
        <3>2. work'[f] = [kind |-> "resolving", scan |-> work[f].scan, report |-> report,
                          gone |-> Gone(work[f].scan, report)]
            BY <1>a, <2>2 DEF SelectOpen, Do
        <3>3. \A s, rep : Gone(s, rep)' = Gone(s, rep)
            BY <2>2 DEF SelectOpen, rowVars, Gone
        <3>4. Knows(f)'  BY <3>2, <3>3 DEF Knows
        <3> QED  BY <3>1, <3>4 DEF Fresh
    <2>3. ASSUME NEW r \in FindingRow, LoadFinding(f, r)  PROVE Fresh(f)'
        <3>1. snap'[f] # "none"  BY <1>a, <2>3, SnapshotTaken DEF LoadFinding
        <3>2. /\ work'[f] = [kind |-> "triaging", row |-> r, copy |-> finding[r]]
              /\ finding' = finding
            BY <1>a, <2>3 DEF LoadFinding, Do, rowVars
        <3>3. Knows(f)'  BY <3>2 DEF Knows
        <3> QED  BY <3>1, <3>3 DEF Fresh
    <2>4. CASE SaveScan(f) \/ Abandon(f) \/ \E new \in VALID_STATUSES : ApplyTriage(f, new)
        <3>1. Do(f, NoWork)  BY <2>4 DEF SaveScan, Abandon, ApplyTriage
        <3>2. work'[f] = NoWork  BY <1>a, <3>1 DEF Do
        <3> QED  BY <3>2 DEF Fresh
    <2> QED  BY <1>3, <2>1, <2>2, <2>3, <2>4 DEF LedgerStep
<1> QED  BY <1>1, <1>2, <1>3 DEF LedgerNext

\* A session that commits what it has decided still knows what it decided from.
LEMMA CommitterKnows ==
    ASSUME SQLite, LedgerInv, AllFresh, NEW e \in Sessions, Commit(e), work[e] # NoWork
    PROVE  Knows(e)
<1>1. snap[e] = "current"
    BY CommitsOnCurrent DEF LedgerInv, LedgerTypeOK, AllFresh, Fresh
<1> QED  BY <1>1 DEF AllFresh, Fresh

\* A scan that ends adds its findings and settles the open ones it did not
\* find; it leaves everything else alone.
LEMMA SavedOnCurrent ==
    ASSUME SQLite, LedgerInv, AllFresh, NEW e \in Sessions, SaveScan(e), NEW r \in FindingRow
    PROVE  \/ /\ finding[r] = Absent /\ r[2] \in work[e].report
              /\ finding'[r] = [status |-> "open", triaged |-> FALSE]
              /\ lastEvent'[r] = "open"
           \/ /\ finding[r].status = "open" /\ r[2] \notin work[e].report
              /\ finding'[r] = [status |-> "resolved", triaged |-> finding[r].triaged]
              /\ lastEvent'[r] = "resolved"
           \/ /\ finding[r].status = "open" => r[2] \in work[e].report \/ r[1] = work[e].scan
              /\ finding'[r] = finding[r] /\ lastEvent'[r] = lastEvent[r]
<1> DEFINE new == {work[e].scan} \X work[e].report
<1>a. LedgerTypeOK  BY DEF LedgerInv
<1>b. work[e].kind = "resolving" /\ OnScan(e) /\ work[e] # NoWork
    BY DEF SaveScan, OnScan, NoWork
<1>c. work[e].gone = Gone(work[e].scan, work[e].report)
    BY <1>b, CommitterKnows DEF SaveScan, Knows
<1>1. CASE r \in new
    <2>1. finding[r] = Absent /\ finding[r].triaged = FALSE
        BY <1>1 DEF SaveScan, Absent
    <2> QED  BY <1>a, <1>1, <2>1, SavedRow
<1>2. CASE r \notin new /\ r \in work[e].gone
    <2>1. finding[r].status = "open" /\ r[2] \notin work[e].report
        BY <1>c, <1>2 DEF Gone
    <2> QED  BY <1>a, <1>2, <2>1, SavedRow
<1>3. CASE r \notin new /\ r \notin work[e].gone
    <2>1. finding'[r] = finding[r] /\ lastEvent'[r] = lastEvent[r]
        BY <1>a, <1>3, SavedRow
    <2>2. finding[r].status = "open" => r[2] \in work[e].report \/ r[1] = work[e].scan
        BY <1>c, <1>3 DEF Gone
    <2> QED  BY <2>1, <2>2
<1> QED  BY <1>1, <1>2, <1>3

\* A user's decision is what the finding's row and history say afterwards.
LEMMA TriagedOnCurrent ==
    ASSUME SQLite, LedgerInv, AllFresh, NEW e \in Sessions, NEW new \in VALID_STATUSES,
           ApplyTriage(e, new)
    PROVE  LET k == work[e].row
           IN  /\ k \in FindingRow
               /\ finding'[k].status = new /\ finding'[k].triaged = (new # "open")
               /\ lastEvent'[k] = new
               /\ \A r \in FindingRow \ {k} : finding'[r] = finding[r] /\ lastEvent'[r] = lastEvent[r]
<1> DEFINE k == work[e].row
<1>a. LedgerTypeOK  BY DEF LedgerInv
<1>1. k \in FindingRow  BY <1>a, WorkShape DEF ApplyTriage
<1>2. work[e].copy = finding[k]
    BY CommitterKnows DEF ApplyTriage, Knows, NoWork
<1>3. /\ finding'[k].status = Written(finding[k].status, work[e].copy.status, new)
      /\ finding'[k].triaged = Written(finding[k].triaged, work[e].copy.triaged, new # "open")
      /\ lastEvent'[k] = new
    BY <1>a, <1>1, TriagedRow
<1>4. \A stored, value : Written(stored, stored, value) = value
    BY DEF Written
<1>5. finding'[k].status = new
    BY <1>2, <1>3, <1>4
<1>6. finding'[k].triaged = (new # "open")
    BY <1>2, <1>3, <1>4
<1>7. \A r \in FindingRow \ {k} : finding'[r] = finding[r] /\ lastEvent'[r] = lastEvent[r]
    BY <1>a DEF ApplyTriage, LedgerTypeOK
<1> QED  BY <1>1, <1>3, <1>5, <1>6, <1>7

LEMMA HistoryKept ==
    ASSUME SQLite, SqliteInv, [LedgerNext]_ledgerVars
    PROVE  HistoryExplainsStatus'
<1> USE DEF HistoryExplainsStatus
<1>a. LedgerInv /\ AllFresh /\ HistoryExplainsStatus  BY DEF SqliteInv
<1>1. CASE UNCHANGED <<finding, lastEvent>>
    BY <1>a, <1>1
<1>2. ASSUME NEW e \in Sessions, SaveScan(e)  PROVE HistoryExplainsStatus'
    <2> SUFFICES ASSUME NEW r \in FindingRow
                 PROVE  /\ finding'[r].status = lastEvent'[r]
                        /\ finding'[r].status = "suppressed" => finding'[r].triaged
                        /\ finding'[r].status = "open" => ~ finding'[r].triaged
        OBVIOUS
    <2>1. CASE finding'[r] = [status |-> "open", triaged |-> FALSE] /\ lastEvent'[r] = "open"
        BY <2>1
    <2>2. CASE /\ finding'[r] = [status |-> "resolved", triaged |-> finding[r].triaged]
               /\ lastEvent'[r] = "resolved"
        BY <2>2
    <2>3. CASE finding'[r] = finding[r] /\ lastEvent'[r] = lastEvent[r]
        BY <1>a, <2>3
    <2> QED  BY <1>a, <1>2, <2>1, <2>2, <2>3, SavedOnCurrent
<1>3. ASSUME NEW e \in Sessions, NEW new \in VALID_STATUSES, ApplyTriage(e, new)
      PROVE  HistoryExplainsStatus'
    <2> DEFINE k == work[e].row
    <2>1. /\ finding'[k].status = new /\ finding'[k].triaged = (new # "open")
          /\ lastEvent'[k] = new
        BY <1>a, <1>3, TriagedOnCurrent
    <2>2. \A r \in FindingRow \ {k} : finding'[r] = finding[r] /\ lastEvent'[r] = lastEvent[r]
        BY <1>a, <1>3, TriagedOnCurrent
    <2>3. /\ finding'[k].status = lastEvent'[k]
          /\ finding'[k].status = "suppressed" => finding'[k].triaged
          /\ finding'[k].status = "open" => ~ finding'[k].triaged
        BY <2>1
    <2> HIDE DEF k
    <2> QED  BY <1>a, <2>2, <2>3
<1> QED
    BY <1>1, <1>2, <1>3, WhoWrites DEF LedgerNext, ledgerVars, rowVars

LEMMA OpenKept ==
    ASSUME SQLite, SqliteInv, [LedgerNext]_ledgerVars
    PROVE  OpenIsReported'
<1> USE DEF OpenIsReported
<1>a. LedgerInv /\ AllFresh /\ OpenIsReported  BY DEF SqliteInv
<1>1. CASE UNCHANGED <<finding, latest, reopened>>
    BY <1>a, <1>1
<1>2. ASSUME NEW e \in Sessions, SaveScan(e)  PROVE OpenIsReported'
    <2>1. latest' = [scan |-> work[e].scan, report |-> work[e].report]
        BY <1>2 DEF SaveScan
    <2>2. ASSUME NEW r \in FindingRow, finding'[r].status = "open"
          PROVE  r[2] \in work[e].report \/ r[1] = work[e].scan
        <3>1. finding'[r] # [status |-> "resolved", triaged |-> finding[r].triaged]
            BY <2>2
        <3> QED  BY <1>a, <1>2, <2>2, <3>1, SavedOnCurrent
    <2> QED  BY <2>1, <2>2
<1>3. ASSUME NEW e \in Sessions, NEW new \in VALID_STATUSES, ApplyTriage(e, new)
      PROVE  OpenIsReported'
    <2>1. /\ latest' = latest
          /\ reopened' = IF new = "open" THEN reopened \cup {work[e].row}
                         ELSE reopened \ {work[e].row}
        BY <1>3 DEF ApplyTriage
    <2>2. finding'[work[e].row].status = new
        BY <1>a, <1>3, TriagedOnCurrent
    <2>3. \A r \in FindingRow \ {work[e].row} : finding'[r] = finding[r]
        BY <1>a, <1>3, TriagedOnCurrent
    <2> QED  BY <1>a, <2>1, <2>2, <2>3
<1> QED
    BY <1>1, <1>2, <1>3, WhoWrites DEF LedgerNext, ledgerVars, rowVars, historyVars

LEMMA SqliteInvariant == SQLite => (LedgerSpec => []SqliteInv)
<1> SUFFICES ASSUME SQLite  PROVE LedgerSpec => []SqliteInv
    OBVIOUS
<1>1. LedgerInit => SqliteInv
    BY InitHolds
    DEF LedgerInit, SqliteInv, AllFresh, Fresh, HistoryExplainsStatus, OpenIsReported, Absent
<1>2. SqliteInv /\ [LedgerNext]_ledgerVars => SqliteInv'
    BY InvKept, FreshKept, HistoryKept, OpenKept DEF SqliteInv
<1> QED  BY <1>1, <1>2, PTL DEF LedgerSpec

\* On SQLite the row of a finding and its history never disagree, and whoever
\* settled it is on record: scans and users that decide from old copies are
\* refused.
THEOREM HistoryIsTrue == SQLite => (LedgerSpec => []HistoryExplainsStatus)
<1> SUFFICES ASSUME SQLite  PROVE LedgerSpec => []HistoryExplainsStatus
    OBVIOUS
<1>1. SqliteInv => HistoryExplainsStatus  BY DEF SqliteInv
<1> QED  BY <1>1, SqliteInvariant, PTL

\* On SQLite what is open was reported by the scan that ended last, or is a
\* finding of that very scan from an earlier run of it, or a user has reopened it
\* since.  Scans may be requested, end and be run again in any order: the one that
\* ended last need not be the one requested last.
THEOREM OpenFindingsAreReal == SQLite => (LedgerSpec => []OpenIsReported)
<1> SUFFICES ASSUME SQLite  PROVE LedgerSpec => []OpenIsReported
    OBVIOUS
<1>1. SqliteInv => OpenIsReported  BY DEF SqliteInv
<1> QED  BY <1>1, SqliteInvariant, PTL

\* On SQLite the end of a scan never changes a finding that a user has suppressed,
\* not even while the scan was selecting what to resolve.  (What a user has
\* reopened is open, and a scan may resolve it.)
THEOREM ScansRespectTriage == SQLite => (LedgerSpec => TriageOutlivesScans)
<1> SUFFICES ASSUME SQLite  PROVE LedgerSpec => TriageOutlivesScans
    OBVIOUS
<1> DEFINE A == \A r \in FindingRow :
                    finding[r].status = "suppressed" /\ finding'[r].status # "suppressed" =>
                        \A e \in Sessions : work[e].kind = "resolving" => UNCHANGED work[e]
<1>1. SqliteInv /\ [LedgerNext]_ledgerVars => [A]_ledgerVars
    <2> SUFFICES ASSUME SqliteInv, LedgerNext, NEW r \in FindingRow,
                        finding[r].status = "suppressed", finding'[r].status # "suppressed",
                        NEW f \in Sessions, work[f].kind = "resolving"
                 PROVE  UNCHANGED work[f]
        OBVIOUS
    <2>a. LedgerInv /\ AllFresh  BY DEF SqliteInv
    <2>1. ASSUME NEW e \in Sessions, SaveScan(e)  PROVE FALSE
        <3>1. finding[r] # Absent  BY DEF Absent
        <3> QED  BY <2>a, <2>1, <3>1, SavedOnCurrent
    <2>2. ASSUME NEW e \in Sessions, NEW new \in VALID_STATUSES, ApplyTriage(e, new)
          PROVE  UNCHANGED work[f]
        <3>1. f # e
            BY <2>2 DEF ApplyTriage
        <3> QED  BY <2>2, <3>1 DEF ApplyTriage, Do
    <2> QED  BY <2>1, <2>2, WhoWrites DEF LedgerNext
<1> QED  BY <1>1, SqliteInvariant, PTL DEF LedgerSpec, TriageOutlivesScans
=============================================================================
