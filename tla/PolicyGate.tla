------------------------------ MODULE PolicyGate ------------------------------
(***************************************************************************)
(* The policies of one organization and the scans they gate (the policy    *)
(* routes, POST /scan and GET /scan/{id}/result of api/routes.py;          *)
(* resolve_policy of platform/scanning.py).  A policy may be replaced or   *)
(* deleted between the request of a scan, its execution and the moment     *)
(* somebody asks for its decision.                                         *)
(*                                                                         *)
(* A document is a model value; what a document decides is the subject of  *)
(* module PolicyDecision.                                                  *)
(***************************************************************************)
EXTENDS Transactions, Naturals

CONSTANTS
    PolicyIds,      \* ids the database gives to policies
    PolicyNames,    \* unique per organization
    Documents,      \* valid policy documents
    GatedScans,     \* ids the database gives to scans
    MaxVersion      \* bound: upserts of one policy

ASSUME IdsAssumption == None \notin PolicyIds \cup Documents
ASSUME VersionAssumption == MaxVersion \in Nat

VARIABLES
    policy,         \* the policies, by id
    deleted,        \* ids of deleted policies, not given again
    gated,          \* the scans
    editing,        \* what each session is doing
    used            \* history: the document that gated each scan, None if none did

policyVars == <<policy, deleted, gated, editing, used>>

NoPolicy == [name |-> None, version |-> 0, default |-> FALSE, document |-> None]
Policy == [name : PolicyNames, version : 1..MaxVersion, default : BOOLEAN,
           document : Documents]
PolicyIdOrNone == PolicyIds \cup {None}

\* policyId is a column of the scan, wanted what the job's payload says.
NoScan == [status |-> "absent", policyId |-> None, wanted |-> None, document |-> None]
GatedScan == [status : {"queued", "succeeded"}, policyId : PolicyIdOrNone,
              wanted : PolicyIdOrNone \cup Documents, document : Documents \cup {None}]

NotEditing == [kind |-> "none"]
Editing ==
    {NotEditing}
    \cup [kind : {"upsert", "written"}, id : PolicyIds, copy : Policy \cup {NoPolicy},
          new : [name : PolicyNames, default : BOOLEAN, document : Documents],
          others : SUBSET PolicyIds]
    \cup [kind : {"delete"}, id : PolicyIds]
    \cup [kind : {"request"}, wanted : PolicyIdOrNone \cup Documents]
    \cup [kind : {"scan"}, scan : GatedScans, document : Documents \cup {None}]

PolicyTypeOK ==
    /\ policy \in [PolicyIds -> Policy \cup {NoPolicy}]
    /\ deleted \subseteq PolicyIds
    /\ gated \in [GatedScans -> GatedScan \cup {NoScan}]
    /\ editing \in [Sessions -> Editing]
    /\ used \in [GatedScans -> Documents \cup {None}]

PolicyInit ==
    /\ policy = [i \in PolicyIds |-> NoPolicy]
    /\ deleted = {}
    /\ gated = [s \in GatedScans |-> NoScan]
    /\ editing = [e \in Sessions |-> NotEditing]
    /\ used = [s \in GatedScans |-> None]

Stored == {i \in PolicyIds : policy[i] # NoPolicy}
Edit(e, w) == editing' = [editing EXCEPT ![e] = w]

-----------------------------------------------------------------------------
\* POST /policies: select the row of that name, or take a new id ...
UpsertSelect(e, new) ==
    /\ editing[e] = NotEditing
    /\ \E i \in PolicyIds \ deleted :
           /\ \/ i \in Stored /\ policy[i].name = new.name
              \/ i \notin Stored /\ \A k \in Stored : policy[k].name # new.name
           /\ policy[i].version < MaxVersion
           /\ Edit(e, [kind |-> "upsert", id |-> i, copy |-> policy[i], new |-> new,
                       others |-> {}])
    /\ Read(e)
    /\ UNCHANGED <<policy, deleted, gated, used>>

\* ... flush the row and, for a new default, the update of the flag of all the
\* others that are there.  On PostgreSQL a statement waits for the rows that
\* other transactions have written, and does not see those they have inserted.
Others(e) == IF editing[e].new.default THEN Stored \ {editing[e].id} ELSE {}

LockedBy(f) ==
    IF editing[f].kind = "written" THEN {editing[f].id} \cup editing[f].others ELSE {}

UpsertFlush(e) ==
    /\ editing[e].kind = "upsert"
    /\ IF editing[e].copy # NoPolicy THEN editing[e].id \in Stored
       ELSE \A k \in Stored : k # editing[e].id /\ policy[k].name # editing[e].new.name
    /\ \A f \in Sessions \ {e} :
           /\ LockedBy(f) \cap ({editing[e].id} \cup Others(e)) = {}
           /\ editing[f].kind = "written" => editing[f].new.name # editing[e].new.name
    /\ Flush(e)
    /\ Edit(e, [editing[e] EXCEPT !.kind = "written", !.others = Others(e)])
    /\ UNCHANGED <<policy, deleted, gated, used>>

\* Fault: the flag of the other policies is left alone.
OthersUntouched(rows, e) == rows

ClearOthers(rows, e) ==
    [i \in PolicyIds |-> IF i \in editing[e].others THEN [rows[i] EXCEPT !.default = FALSE]
                         ELSE rows[i]]

NextVersion(copy) == copy.version + 1

\* ... and commit.  is_default is written only if it differs from the copy.
UpsertCommit(e) ==
    /\ editing[e].kind = "written"
    /\ Commit(e)
    /\ LET i == editing[e].id
           copy == editing[e].copy
           new == editing[e].new
           row == [name |-> new.name, version |-> NextVersion(copy), document |-> new.document,
                   default |-> IF copy # NoPolicy /\ new.default = copy.default
                               THEN policy[i].default ELSE new.default]
       IN  policy' = ClearOthers([policy EXCEPT ![i] = row], e)
    /\ Edit(e, NotEditing)
    /\ UNCHANGED <<deleted, gated, used>>

\* DELETE /policies/{id}: the foreign key of the scans is set to null.
DeleteSelect(e, i) ==
    /\ editing[e] = NotEditing
    /\ i \in Stored
    /\ Read(e)
    /\ Edit(e, [kind |-> "delete", id |-> i])
    /\ UNCHANGED <<policy, deleted, gated, used>>

DeleteCommit(e) ==
    /\ editing[e].kind = "delete"
    /\ editing[e].id \in Stored
    /\ \A f \in Sessions : editing[e].id \notin LockedBy(f)
    /\ Commit(e)
    /\ LET i == editing[e].id
       IN  /\ policy' = [policy EXCEPT ![i] = NoPolicy]
           /\ deleted' = deleted \cup {i}
           /\ gated' = [s \in GatedScans |->
                          IF gated[s].policyId = i THEN [gated[s] EXCEPT !.policyId = None]
                          ELSE gated[s]]
    /\ Edit(e, NotEditing)
    /\ UNCHANGED used

-----------------------------------------------------------------------------
\* POST /scan with a policy id (404 unless it exists), a document, or neither.
ScanSelect(e, wanted) ==
    /\ editing[e] = NotEditing
    /\ wanted \in Stored \cup Documents \cup {None}
    /\ Read(e)
    /\ Edit(e, [kind |-> "request", wanted |-> wanted])
    /\ UNCHANGED <<policy, deleted, gated, used>>

ScanRequested(e, s) ==
    /\ editing[e].kind = "request"
    /\ gated[s] = NoScan
    /\ Commit(e)
    /\ LET w == editing[e].wanted
           id == IF w \in PolicyIds THEN w ELSE None
       IN  /\ id # None => id \in Stored      \* the foreign key
           /\ gated' = [gated EXCEPT ![s] = [status |-> "queued", policyId |-> id,
                                             wanted |-> w, document |-> None]]
    /\ Edit(e, NotEditing)
    /\ UNCHANGED <<policy, deleted, used>>

Defaults == {i \in Stored : policy[i].default}

\* _policy_for_scan: the document, the row of that id, or the default; a row
\* that is gone leaves the scan ungated.
Resolved(wanted) ==
    ({wanted} \cap Documents)
    \cup {policy[i].document : i \in {wanted} \cap Stored}
    \cup {policy[i].document : i \in IF wanted = None THEN Defaults ELSE {}}

\* scalar_one_or_none raises on two defaults, and the scan fails.
ResolvePolicy(e, s) ==
    /\ editing[e] = NotEditing
    /\ gated[s].status = "queued"
    /\ gated[s].wanted = None => \A i, k \in Defaults : i = k
    /\ Read(e)
    /\ \E d \in IF Resolved(gated[s].wanted) = {} THEN {None} ELSE Resolved(gated[s].wanted) :
           Edit(e, [kind |-> "scan", scan |-> s, document |-> d])
    /\ UNCHANGED <<policy, deleted, gated, used>>

\* Fault: only a document that came with the request is kept.
KeepInline(s, d) == IF gated[s].wanted \in Documents THEN d ELSE None

\* scan_row.policy_document
Kept(s, d) == d

\* perform_scan succeeds and the worker commits.
ScanSucceeds(e) ==
    /\ editing[e].kind = "scan"
    /\ LET s == editing[e].scan
           d == editing[e].document
       IN  /\ gated[s].status = "queued"
           /\ gated' = [gated EXCEPT ![s].status = "succeeded", ![s].document = Kept(s, d)]
           /\ used' = [used EXCEPT ![s] = d]
    /\ Commit(e)
    /\ Edit(e, NotEditing)
    /\ UNCHANGED <<policy, deleted>>

\* A 404, a 422, an integrity error, a refused write or the death of the process.
GiveUp(e) ==
    /\ editing[e] # NotEditing
    /\ Rollback(e)
    /\ Edit(e, NotEditing)
    /\ UNCHANGED <<policy, deleted, gated, used>>

PolicyNext == \E e \in Sessions :
    \/ \E n \in PolicyNames, d \in Documents, default \in BOOLEAN :
           UpsertSelect(e, [name |-> n, default |-> default, document |-> d])
    \/ UpsertFlush(e)
    \/ UpsertCommit(e)
    \/ \E i \in PolicyIds : DeleteSelect(e, i)
    \/ DeleteCommit(e)
    \/ \E w \in PolicyIds \cup Documents \cup {None} : ScanSelect(e, w)
    \/ \E s \in GatedScans : ScanRequested(e, s) \/ ResolvePolicy(e, s)
    \/ ScanSucceeds(e)
    \/ GiveUp(e)

PolicySpec == TxnInit /\ PolicyInit /\ [][PolicyNext]_<<policyVars, txnVars>>

-----------------------------------------------------------------------------
(***************************************************************************)
(* Properties.                                                             *)
(***************************************************************************)
\* The default passes from one policy to another without a moment of two, or of
\* none: it disappears only when the policy that has it is itself replaced by
\* one that is not, or deleted.  (upsert_policy updates two sets of rows;
\* _policy_for_scan raises on two defaults and gates nothing on none.)
DefaultHandedOver ==
    [][/\ \A i, k \in Defaults' : i = k
       /\ \A i \in Defaults : Defaults' = {}
              => policy'[i] = NoPolicy \/ policy'[i].version # policy[i].version]_policyVars

\* GET /scan/{id}/result recomputes from the document kept with the scan, or
\* from the policy the scan names.
Shown(s) ==
    IF gated[s].document # None THEN gated[s].document
    ELSE IF gated[s].policyId \in Stored THEN policy[gated[s].policyId].document ELSE None

\* "Scan plus its policy decision, recomputed deterministically": by the
\* document the scan was gated on, whatever became of the policy since.
RecomputedFromSameDocument ==
    \A s \in GatedScans : gated[s].status = "succeeded" => Shown(s) = used[s]
=============================================================================
