-------------------------- MODULE Organization_proofs --------------------------
(***************************************************************************)
(* Theorems about what an organization keeps beside its findings, for any  *)
(* number of sessions, ids, documents, users, roles, hosts and allowlists: *)
(*   - PolicyGate: type correctness, and that a scan's decision is         *)
(*     recomputed from the document that gated it, on both dialects; on    *)
(*     SQLite, that the default passes from one policy to the next;        *)
(*   - Tenancy: type correctness on both dialects; on SQLite, that every   *)
(*     change is on the trail of the one organization it is about;         *)
(*   - AuditLog: type correctness on both dialects; on SQLite, that an     *)
(*     export is the whole trail, in order, and that a purge, with any     *)
(*     retention, takes the oldest of it;                                  *)
(*   - RateLimiter: type correctness, and that Retry-After tells the truth,*)
(*     with each store; in memory and on SQLite, that no window lets in    *)
(*     more than the limit;                                                *)
(*   - Delivery, whatever the DNS and the endpoint answer, on both         *)
(*     dialects: type correctness, that a connection is only opened where  *)
(*     the operator's egress policy permits it, and that every step of a   *)
(*     test brings it nearer to its end;                                   *)
(*   - MCPlatform: that the types hold where these components and the      *)
(*     findings share the transactions of one deployment.                  *)
(***************************************************************************)
EXTENDS MCPlatform, Delivery, FindingLedger_proofs

-----------------------------------------------------------------------------
(***************************************************************************)
(* Policies: types.  The version a session is about to write is within the *)
(* bound.                                                                  *)
(***************************************************************************)
Upserting(e) == editing[e].kind \in {"upsert", "written"}

PolicyInv ==
    /\ PolicyTypeOK
    /\ TxnTypeOK
    /\ \A e \in Sessions : Upserting(e) => editing[e].copy.version < MaxVersion

(***************************************************************************)
(* Policies: the decision.  The column policy_id of a scan is what the     *)
(* request asked for as long as that policy is there, and null afterwards; *)
(* a session that has resolved no document works on a scan without one.    *)
(***************************************************************************)
GateInv ==
    /\ \A s \in GatedScans :
           /\ gated[s].policyId # None
                => gated[s].policyId \in Stored /\ gated[s].policyId = gated[s].wanted
           /\ gated[s].status = "succeeded" =>
                /\ gated[s].document = used[s]
                /\ gated[s].document = None => gated[s].policyId = None
    /\ \A e \in Sessions : editing[e].kind = "scan" =>
           /\ gated[editing[e].scan] # NoScan
           /\ editing[e].document = None => gated[editing[e].scan].policyId = None

(***************************************************************************)
(* Policies: the default, on SQLite.  While nobody else has committed, the *)
(* row that a session is about to replace is the one it has read, and the  *)
(* others that it has cleared are all the others.                          *)
(***************************************************************************)
DefaultInv ==
    /\ \A i, k \in Defaults : i = k
    /\ \A e \in Sessions : Upserting(e) =>
           /\ snap[e] # "none"
           /\ snap[e] = "current" =>
                /\ policy[editing[e].id] = editing[e].copy
                /\ editing[e].kind = "written" => editing[e].others = Others(e)


-----------------------------------------------------------------------------
(***************************************************************************)
(* Lemmas about the sessions that edit policies and the rows they leave.   *)
(***************************************************************************)
\* What a session at work has in hand.
LEMMA EditShape ==
    ASSUME PolicyTypeOK, NEW e \in Sessions
    PROVE  /\ editing[e].kind = "none" <=> editing[e] = NotEditing
           /\ Upserting(e) =>
                /\ editing[e].id \in PolicyIds
                /\ editing[e].copy \in Policy \cup {NoPolicy}
                /\ editing[e].new.name \in PolicyNames
                /\ editing[e].new.default \in BOOLEAN
                /\ editing[e].new.document \in Documents
                /\ editing[e].others \subseteq PolicyIds
           /\ editing[e].kind = "delete" => editing[e].id \in PolicyIds
           /\ editing[e].kind = "request" => editing[e].wanted \in PolicyIdOrNone \cup Documents
           /\ editing[e].kind = "scan" =>
                editing[e].scan \in GatedScans /\ editing[e].document \in Documents \cup {None}
<1>1. editing[e] \in Editing  BY DEF PolicyTypeOK
<1>2. CASE editing[e] = NotEditing  BY <1>2 DEF NotEditing, Upserting
<1>3. CASE editing[e] \in [kind : {"upsert", "written"}, id : PolicyIds,
                           copy : Policy \cup {NoPolicy},
                           new : [name : PolicyNames, default : BOOLEAN, document : Documents],
                           others : SUBSET PolicyIds]
    <2>1. /\ editing[e].kind \in {"upsert", "written"} /\ editing[e].id \in PolicyIds
          /\ editing[e].copy \in Policy \cup {NoPolicy} /\ editing[e].others \subseteq PolicyIds
          /\ editing[e].new \in [name : PolicyNames, default : BOOLEAN, document : Documents]
        BY <1>3
    <2>2. /\ editing[e].new.name \in PolicyNames /\ editing[e].new.default \in BOOLEAN
          /\ editing[e].new.document \in Documents
        BY <2>1
    <2> QED  BY <2>1, <2>2 DEF NotEditing
<1>4. CASE editing[e] \in [kind : {"delete"}, id : PolicyIds]
    BY <1>4 DEF NotEditing, Upserting
<1>5. CASE editing[e] \in [kind : {"request"}, wanted : PolicyIdOrNone \cup Documents]
    BY <1>5 DEF NotEditing, Upserting
<1>6. CASE editing[e] \in [kind : {"scan"}, scan : GatedScans, document : Documents \cup {None}]
    BY <1>6 DEF NotEditing, Upserting
<1> QED  BY <1>1, <1>2, <1>3, <1>4, <1>5, <1>6 DEF Editing

\* Version 0 and no document: that is no policy.
LEMMA PolicyIsThere ==
    /\ NoPolicy \notin Policy
    /\ \A row \in Policy : row.version \in 1..MaxVersion /\ row.document \in Documents
    /\ NoPolicy.version = 0 /\ NoPolicy.default = FALSE
BY VersionAssumption DEF Policy, NoPolicy

\* A row keeps all but its flag when the flag is cleared.
LEMMA FlagCleared ==
    ASSUME NEW row \in Policy \cup {NoPolicy}
    PROVE  LET cleared == [row EXCEPT !.default = FALSE]
           IN  /\ cleared \in Policy \cup {NoPolicy}
               /\ cleared = NoPolicy <=> row = NoPolicy
               /\ cleared.default = FALSE /\ cleared.version = row.version
               /\ cleared.document = row.document
<1>1. CASE row \in Policy
    <2>1. [row EXCEPT !.default = FALSE] \in Policy  BY <1>1 DEF Policy
    <2> QED  BY <1>1, <2>1, PolicyIsThere DEF Policy
<1>2. CASE row = NoPolicy
    <2>1. NoPolicy.default = FALSE  BY PolicyIsThere
    <2>2. [NoPolicy EXCEPT !.default = NoPolicy.default] = NoPolicy  BY DEF NoPolicy
    <2>3. [NoPolicy EXCEPT !.default = FALSE] = NoPolicy  BY <2>1, <2>2
    <2> QED  BY <1>2, <2>3, PolicyIsThere
<1> QED  BY <1>1, <1>2

\* What UpsertCommit makes of each policy.
LEMMA UpsertedRow ==
    ASSUME PolicyInv, NEW e \in Sessions, UpsertCommit(e), NEW i \in PolicyIds
    PROVE  /\ policy'[i] \in Policy \cup {NoPolicy}
           /\ policy' = [k \in PolicyIds |-> policy'[k]]
           /\ i = editing[e].id =>
                /\ policy'[i] \in Policy
                /\ policy'[i].version = editing[e].copy.version + 1
                /\ policy'[i].default =
                     IF i \in editing[e].others THEN FALSE
                     ELSE IF /\ editing[e].copy # NoPolicy
                             /\ editing[e].new.default = editing[e].copy.default
                          THEN policy[i].default ELSE editing[e].new.default
           /\ i # editing[e].id =>
                /\ policy'[i] = NoPolicy <=> policy[i] = NoPolicy
                /\ policy'[i].version = policy[i].version
                /\ policy'[i].document = policy[i].document
                /\ policy'[i].default = IF i \in editing[e].others THEN FALSE
                                        ELSE policy[i].default
<1> DEFINE copy == editing[e].copy
<1> DEFINE new == editing[e].new
<1> DEFINE id == editing[e].id
<1> DEFINE flag == IF copy # NoPolicy /\ new.default = copy.default
                   THEN policy[id].default ELSE new.default
<1> DEFINE row == [name |-> new.name, version |-> NextVersion(copy),
                   document |-> new.document, default |-> flag]
<1> DEFINE base == [policy EXCEPT ![id] = row]
<1>0. Upserting(e)  BY DEF UpsertCommit, Upserting
<1>1. /\ id \in PolicyIds /\ copy \in Policy \cup {NoPolicy} /\ new.name \in PolicyNames
      /\ new.default \in BOOLEAN /\ new.document \in Documents
    BY <1>0, EditShape DEF PolicyInv
<1>2. /\ policy \in [PolicyIds -> Policy \cup {NoPolicy}]
      /\ copy.version < MaxVersion
    BY <1>0 DEF PolicyInv, PolicyTypeOK
<1>3. copy.version \in 0..MaxVersion
    BY <1>1, PolicyIsThere, VersionAssumption
<1>4. NextVersion(copy) \in 1..MaxVersion /\ NextVersion(copy) = copy.version + 1
    BY <1>2, <1>3, VersionAssumption DEF NextVersion
<1>5. policy[id].default \in BOOLEAN
    <2>1. policy[id] \in Policy \cup {NoPolicy}  BY <1>1, <1>2
    <2>2. CASE policy[id] \in Policy  BY <2>2 DEF Policy
    <2>3. CASE policy[id] = NoPolicy  BY <2>3, PolicyIsThere
    <2> QED  BY <2>1, <2>2, <2>3
<1>6. flag \in BOOLEAN  BY <1>1, <1>5
<1>7. policy' = ClearOthers(base, e)  BY DEF UpsertCommit
<1>8. /\ row \in Policy
      /\ row.version = copy.version + 1 /\ row.default = flag
    <2> HIDE DEF flag, copy, new
    <2> QED  BY <1>1, <1>4, <1>6 DEF Policy
<1>9. /\ base[i] \in Policy \cup {NoPolicy}
      /\ i = id => base[i] = row
      /\ i # id => base[i] = policy[i]
    <2> HIDE DEF row, id
    <2> QED  BY <1>1, <1>2, <1>8
<1>10. /\ policy'[i] = IF i \in editing[e].others THEN [base[i] EXCEPT !.default = FALSE]
                       ELSE base[i]
       /\ policy' = [k \in PolicyIds |-> policy'[k]]
    <2> HIDE DEF base
    <2> QED  BY <1>7 DEF ClearOthers
<1>11. LET cleared == [base[i] EXCEPT !.default = FALSE]
       IN  /\ cleared \in Policy \cup {NoPolicy}
           /\ cleared = NoPolicy <=> base[i] = NoPolicy
           /\ cleared.default = FALSE /\ cleared.version = base[i].version
           /\ cleared.document = base[i].document
    <2> HIDE DEF base
    <2> QED  BY <1>9, FlagCleared
<1> HIDE DEF row, base
<1>12. /\ policy'[i] \in Policy \cup {NoPolicy}
       /\ policy'[i] = NoPolicy <=> base[i] = NoPolicy
       /\ policy'[i].version = base[i].version
       /\ policy'[i].document = base[i].document
       /\ policy'[i].default = IF i \in editing[e].others THEN FALSE ELSE base[i].default
    BY <1>9, <1>10, <1>11
<1>13. i = id => policy'[i] \in Policy
    BY <1>8, <1>9, <1>12, PolicyIsThere
<1>14. i = id => /\ policy'[i].version = copy.version + 1
                 /\ policy'[i].default = IF i \in editing[e].others THEN FALSE ELSE flag
    BY <1>8, <1>9, <1>12
<1> HIDE DEF flag
<1>15. i # id => /\ policy'[i] = NoPolicy <=> policy[i] = NoPolicy
                 /\ policy'[i].version = policy[i].version
                 /\ policy'[i].document = policy[i].document
                 /\ policy'[i].default = IF i \in editing[e].others THEN FALSE
                                         ELSE policy[i].default
    BY <1>9, <1>12
<1> QED  BY <1>10, <1>12, <1>13, <1>14, <1>15 DEF flag

\* A document that a scan is gated on is one.
LEMMA ResolvedType ==
    ASSUME PolicyTypeOK, NEW w
    PROVE  Resolved(w) \subseteq Documents
<1>1. \A i \in Stored : policy[i].document \in Documents
    BY PolicyIsThere DEF PolicyTypeOK, Stored
<1> QED  BY <1>1 DEF Resolved, Defaults

-----------------------------------------------------------------------------
(***************************************************************************)
(* Policies: the steps keep the types.                                     *)
(***************************************************************************)
\* A session goes on to its next piece of work, the others stay at theirs.
LEMMA EditType ==
    ASSUME PolicyInv, NEW e \in Sessions, NEW w \in Editing, Edit(e, w),
           w.kind \in {"upsert", "written"} => w.copy.version < MaxVersion
    PROVE  /\ editing' \in [Sessions -> Editing]
           /\ \A f \in Sessions : Upserting(f)' => editing'[f].copy.version < MaxVersion
<1>1. editing \in [Sessions -> Editing]  BY DEF PolicyInv, PolicyTypeOK
<1>2. editing' = [editing EXCEPT ![e] = w]  BY DEF Edit
<1>3. \A f \in Sessions : editing'[f] = IF f = e THEN w ELSE editing[f]
    BY <1>1, <1>2
<1> QED  BY <1>1, <1>2, <1>3 DEF PolicyInv, Upserting

LEMMA IdleSession == NotEditing \in Editing /\ NotEditing.kind = "none"
BY DEF NotEditing, Editing

\* Sessions that only read, or that give up, change nothing but their own work.
LEMMA PolicyReads ==
    ASSUME PolicyInv, NEW e \in Sessions,
           NEW n \in PolicyNames, NEW d \in Documents, NEW default \in BOOLEAN,
           UpsertSelect(e, [name |-> n, default |-> default, document |-> d])
    PROVE  PolicyInv'
<1> DEFINE new == [name |-> n, default |-> default, document |-> d]
<1>1. PICK i \in PolicyIds \ deleted :
           /\ policy[i].version < MaxVersion
           /\ Edit(e, [kind |-> "upsert", id |-> i, copy |-> policy[i], new |-> new,
                       others |-> {}])
    BY DEF UpsertSelect
<1> DEFINE w == [kind |-> "upsert", id |-> i, copy |-> policy[i], new |-> new, others |-> {}]
<1>2. policy[i] \in Policy \cup {NoPolicy}  BY DEF PolicyInv, PolicyTypeOK
<1>3. new \in [name : PolicyNames, default : BOOLEAN, document : Documents]  OBVIOUS
<1>4. w \in Editing /\ w.copy.version < MaxVersion
    <2> HIDE DEF new
    <2> QED  BY <1>1, <1>2, <1>3 DEF Editing
<1>5. /\ editing' \in [Sessions -> Editing]
      /\ \A f \in Sessions : Upserting(f)' => editing'[f].copy.version < MaxVersion
    <2> HIDE DEF w
    <2>1. Edit(e, w)  BY <1>1 DEF w
    <2> QED  BY <1>4, <2>1, EditType
<1>6. TxnTypeOK'  BY TxnType DEF UpsertSelect, PolicyInv
<1>7. UNCHANGED <<policy, deleted, gated, used>>  BY DEF UpsertSelect
<1> QED  BY <1>5, <1>6, <1>7 DEF PolicyInv, PolicyTypeOK

LEMMA FlushTypes ==
    ASSUME PolicyInv, NEW e \in Sessions, UpsertFlush(e)
    PROVE  PolicyInv'
<1>1. editing[e].kind = "upsert" /\ Upserting(e)  BY DEF UpsertFlush, Upserting
<1>2. editing[e] \in [kind : {"upsert", "written"}, id : PolicyIds,
                      copy : Policy \cup {NoPolicy},
                      new : [name : PolicyNames, default : BOOLEAN, document : Documents],
                      others : SUBSET PolicyIds]
    <2>1. editing[e] \in Editing  BY DEF PolicyInv, PolicyTypeOK
    <2> QED  BY <1>1, <2>1 DEF Editing, NotEditing
<1>3. Others(e) \subseteq PolicyIds  BY DEF Others, Stored
<1> DEFINE w == [editing[e] EXCEPT !.kind = "written", !.others = Others(e)]
<1>4. w \in Editing /\ w.copy = editing[e].copy
    BY <1>2, <1>3 DEF Editing
<1>5. /\ editing' \in [Sessions -> Editing]
      /\ \A f \in Sessions : Upserting(f)' => editing'[f].copy.version < MaxVersion
    <2>1. Edit(e, w)  BY DEF UpsertFlush
    <2>2. w.copy.version < MaxVersion  BY <1>1, <1>4 DEF PolicyInv
    <2> HIDE DEF w
    <2> QED  BY <1>4, <2>1, <2>2, EditType
<1>6. TxnTypeOK'  BY TxnType DEF UpsertFlush, PolicyInv
<1>7. UNCHANGED <<policy, deleted, gated, used>>  BY DEF UpsertFlush
<1> QED  BY <1>5, <1>6, <1>7 DEF PolicyInv, PolicyTypeOK

\* What DeleteCommit makes of each scan.
LEMMA UnlinkedScan ==
    ASSUME PolicyTypeOK, NEW e \in Sessions, DeleteCommit(e), NEW s \in GatedScans
    PROVE  /\ gated'[s] \in GatedScan \cup {NoScan}
           /\ gated' = [t \in GatedScans |-> gated'[t]]
           /\ gated'[s] = NoScan <=> gated[s] = NoScan
           /\ gated'[s].status = gated[s].status /\ gated'[s].wanted = gated[s].wanted
           /\ gated'[s].document = gated[s].document
           /\ gated'[s].policyId = IF gated[s].policyId = editing[e].id THEN None
                                   ELSE gated[s].policyId
<1>1. /\ gated'[s] = IF gated[s].policyId = editing[e].id
                     THEN [gated[s] EXCEPT !.policyId = None] ELSE gated[s]
      /\ gated' = [t \in GatedScans |-> gated'[t]]
    BY DEF DeleteCommit
<1>2. editing[e].id # None
    BY EditShape, IdsAssumption DEF DeleteCommit
<1>3. gated[s] \in GatedScan \cup {NoScan}  BY DEF PolicyTypeOK
<1>4. gated[s].policyId = editing[e].id => gated[s] \in GatedScan
    BY <1>2, <1>3 DEF NoScan
<1>5. GatedScan \cap {NoScan} = {}
    BY DEF GatedScan, NoScan
<1>6. CASE gated[s].policyId = editing[e].id
    <2>1. gated'[s] = [gated[s] EXCEPT !.policyId = None] /\ gated[s] \in GatedScan
        BY <1>1, <1>4, <1>6
    <2>2. gated'[s] \in GatedScan  BY <2>1 DEF GatedScan, PolicyIdOrNone
    <2>3. /\ gated'[s].status = gated[s].status /\ gated'[s].wanted = gated[s].wanted
          /\ gated'[s].document = gated[s].document /\ gated'[s].policyId = None
        BY <2>1 DEF GatedScan
    <2> QED  BY <1>1, <1>5, <1>6, <2>1, <2>2, <2>3
<1>7. CASE gated[s].policyId # editing[e].id
    BY <1>1, <1>3, <1>7
<1> QED  BY <1>6, <1>7

LEMMA PolicyTypes ==
    ASSUME PolicyInv, [PolicyNext]_<<policyVars, txnVars>>
    PROVE  PolicyInv'
<1> USE DEF PolicyInv
<1>1. CASE UNCHANGED <<policyVars, txnVars>>
    BY <1>1 DEF policyVars, txnVars, PolicyTypeOK, TxnTypeOK, Upserting
<1>2. CASE PolicyNext
    <2>1. PICK e \in Sessions :
            \/ \E n \in PolicyNames, d \in Documents, default \in BOOLEAN :
                   UpsertSelect(e, [name |-> n, default |-> default, document |-> d])
            \/ UpsertFlush(e)
            \/ UpsertCommit(e)
            \/ \E i \in PolicyIds : DeleteSelect(e, i)
            \/ DeleteCommit(e)
            \/ \E w \in PolicyIds \cup Documents \cup {None} : ScanSelect(e, w)
            \/ \E s \in GatedScans : ScanRequested(e, s) \/ ResolvePolicy(e, s)
            \/ ScanSucceeds(e)
            \/ GiveUp(e)
        BY <1>2 DEF PolicyNext
    <2>2. CASE \E n \in PolicyNames, d \in Documents, default \in BOOLEAN :
                   UpsertSelect(e, [name |-> n, default |-> default, document |-> d])
        BY <2>2, PolicyReads
    <2>3. CASE UpsertFlush(e)
        BY <2>3, FlushTypes
    <2>4. CASE UpsertCommit(e)
        <3>1. policy' \in [PolicyIds -> Policy \cup {NoPolicy}]
            <4>1. \A i \in PolicyIds : policy'[i] \in Policy \cup {NoPolicy}
                BY <2>4, UpsertedRow
            <4>2. policy' = [k \in PolicyIds |-> policy'[k]]
                BY <2>4 DEF UpsertCommit, ClearOthers
            <4> QED  BY <4>1, <4>2
        <3>2. /\ editing' \in [Sessions -> Editing]
              /\ \A f \in Sessions : Upserting(f)' => editing'[f].copy.version < MaxVersion
            BY <2>4, EditType, IdleSession DEF UpsertCommit
        <3>3. TxnTypeOK'  BY <2>4, TxnType DEF UpsertCommit
        <3>4. UNCHANGED <<deleted, gated, used>>  BY <2>4 DEF UpsertCommit
        <3> QED  BY <3>1, <3>2, <3>3, <3>4 DEF PolicyTypeOK
    <2>5. CASE \E i \in PolicyIds : DeleteSelect(e, i)
        <3>1. PICK i \in PolicyIds : DeleteSelect(e, i)  BY <2>5
        <3> DEFINE w == [kind |-> "delete", id |-> i]
        <3>2. w \in Editing /\ w.kind = "delete"  BY DEF Editing
        <3>3. /\ editing' \in [Sessions -> Editing]
              /\ \A f \in Sessions : Upserting(f)' => editing'[f].copy.version < MaxVersion
            <4>1. Edit(e, w)  BY <3>1 DEF DeleteSelect
            <4> HIDE DEF w
            <4> QED  BY <3>2, <4>1, EditType
        <3>4. TxnTypeOK'  BY <3>1, TxnType DEF DeleteSelect
        <3>5. UNCHANGED <<policy, deleted, gated, used>>  BY <3>1 DEF DeleteSelect
        <3> QED  BY <3>3, <3>4, <3>5 DEF PolicyTypeOK
    <2>6. CASE DeleteCommit(e)
        <3>1. policy' \in [PolicyIds -> Policy \cup {NoPolicy}] /\ deleted' \subseteq PolicyIds
            BY <2>6, EditShape DEF DeleteCommit, PolicyTypeOK
        <3>2. gated' \in [GatedScans -> GatedScan \cup {NoScan}]
            <4>1. \A s \in GatedScans : gated'[s] \in GatedScan \cup {NoScan}
                BY <2>6, UnlinkedScan
            <4>2. gated' = [t \in GatedScans |-> gated'[t]]
                BY <2>6 DEF DeleteCommit
            <4> QED  BY <4>1, <4>2
        <3>3. /\ editing' \in [Sessions -> Editing]
              /\ \A f \in Sessions : Upserting(f)' => editing'[f].copy.version < MaxVersion
            BY <2>6, EditType, IdleSession DEF DeleteCommit
        <3>4. TxnTypeOK'  BY <2>6, TxnType DEF DeleteCommit
        <3>5. UNCHANGED used  BY <2>6 DEF DeleteCommit
        <3> QED  BY <3>1, <3>2, <3>3, <3>4, <3>5 DEF PolicyTypeOK
    <2>7. CASE \E w \in PolicyIds \cup Documents \cup {None} : ScanSelect(e, w)
        <3>1. PICK x \in PolicyIds \cup Documents \cup {None} : ScanSelect(e, x)  BY <2>7
        <3> DEFINE w == [kind |-> "request", wanted |-> x]
        <3>2. w \in Editing /\ w.kind = "request"  BY DEF Editing, PolicyIdOrNone
        <3>3. /\ editing' \in [Sessions -> Editing]
              /\ \A f \in Sessions : Upserting(f)' => editing'[f].copy.version < MaxVersion
            <4>1. Edit(e, w)  BY <3>1 DEF ScanSelect
            <4> HIDE DEF w
            <4> QED  BY <3>2, <4>1, EditType
        <3>4. TxnTypeOK'  BY <3>1, TxnType DEF ScanSelect
        <3>5. UNCHANGED <<policy, deleted, gated, used>>  BY <3>1 DEF ScanSelect
        <3> QED  BY <3>3, <3>4, <3>5 DEF PolicyTypeOK
    <2>8. CASE \E s \in GatedScans : ScanRequested(e, s)
        <3>1. PICK s \in GatedScans : ScanRequested(e, s)  BY <2>8
        <3> DEFINE x == editing[e].wanted
        <3> DEFINE id == IF x \in PolicyIds THEN x ELSE None
        <3> DEFINE row == [status |-> "queued", policyId |-> id, wanted |-> x,
                           document |-> None]
        <3>2. x \in PolicyIdOrNone \cup Documents  BY <3>1, EditShape DEF ScanRequested
        <3>3. id \in PolicyIdOrNone  BY DEF PolicyIdOrNone
        <3>4. row \in GatedScan  BY <3>2, <3>3 DEF GatedScan
        <3>5. gated' = [gated EXCEPT ![s] = row]  BY <3>1 DEF ScanRequested
        <3> HIDE DEF row
        <3>6. gated' \in [GatedScans -> GatedScan \cup {NoScan}]
            BY <3>4, <3>5 DEF PolicyTypeOK
        <3>7. /\ editing' \in [Sessions -> Editing]
              /\ \A f \in Sessions : Upserting(f)' => editing'[f].copy.version < MaxVersion
            BY <3>1, EditType, IdleSession DEF ScanRequested
        <3>8. TxnTypeOK'  BY <3>1, TxnType DEF ScanRequested
        <3>9. UNCHANGED <<policy, deleted, used>>  BY <3>1 DEF ScanRequested
        <3> QED  BY <3>6, <3>7, <3>8, <3>9 DEF PolicyTypeOK
    <2>9. CASE \E s \in GatedScans : ResolvePolicy(e, s)
        <3>1. PICK s \in GatedScans : ResolvePolicy(e, s)  BY <2>9
        <3>2. PICK d \in IF Resolved(gated[s].wanted) = {} THEN {None}
                         ELSE Resolved(gated[s].wanted) :
                  Edit(e, [kind |-> "scan", scan |-> s, document |-> d])
            BY <3>1 DEF ResolvePolicy
        <3>3. d \in Documents \cup {None}  BY <3>2, ResolvedType
        <3> DEFINE w == [kind |-> "scan", scan |-> s, document |-> d]
        <3>4. w \in Editing /\ w.kind = "scan"  BY <3>3 DEF Editing
        <3>5. /\ editing' \in [Sessions -> Editing]
              /\ \A f \in Sessions : Upserting(f)' => editing'[f].copy.version < MaxVersion
            <4>1. Edit(e, w)  BY <3>2
            <4> HIDE DEF w
            <4> QED  BY <3>4, <4>1, EditType
        <3>6. TxnTypeOK'  BY <3>1, TxnType DEF ResolvePolicy
        <3>7. UNCHANGED <<policy, deleted, gated, used>>  BY <3>1 DEF ResolvePolicy
        <3> QED  BY <3>5, <3>6, <3>7 DEF PolicyTypeOK
    <2>10. CASE ScanSucceeds(e)
        <3> DEFINE s == editing[e].scan
        <3> DEFINE d == editing[e].document
        <3>1. s \in GatedScans /\ d \in Documents \cup {None}
            BY <2>10, EditShape DEF ScanSucceeds
        <3>2. gated[s] \in GatedScan
            BY <2>10, <3>1 DEF ScanSucceeds, PolicyTypeOK, NoScan
        <3>3. gated' = [gated EXCEPT ![s] =
                          [gated[s] EXCEPT !.status = "succeeded", !.document = d]]
            BY <2>10, <3>1 DEF ScanSucceeds, Kept, PolicyTypeOK
        <3>4. [gated[s] EXCEPT !.status = "succeeded", !.document = d] \in GatedScan
            BY <3>1, <3>2 DEF GatedScan
        <3>5. gated' \in [GatedScans -> GatedScan \cup {NoScan}]
            BY <3>1, <3>3, <3>4 DEF PolicyTypeOK
        <3>6. used' \in [GatedScans -> Documents \cup {None}]
            BY <2>10, <3>1 DEF ScanSucceeds, PolicyTypeOK
        <3>7. /\ editing' \in [Sessions -> Editing]
              /\ \A f \in Sessions : Upserting(f)' => editing'[f].copy.version < MaxVersion
            BY <2>10, EditType, IdleSession DEF ScanSucceeds
        <3>8. TxnTypeOK'  BY <2>10, TxnType DEF ScanSucceeds
        <3>9. UNCHANGED <<policy, deleted>>  BY <2>10 DEF ScanSucceeds
        <3> QED  BY <3>5, <3>6, <3>7, <3>8, <3>9 DEF PolicyTypeOK
    <2>11. CASE GiveUp(e)
        <3>1. /\ editing' \in [Sessions -> Editing]
              /\ \A f \in Sessions : Upserting(f)' => editing'[f].copy.version < MaxVersion
            BY <2>11, EditType, IdleSession DEF GiveUp
        <3>2. TxnTypeOK'  BY <2>11, TxnType DEF GiveUp
        <3>3. UNCHANGED <<policy, deleted, gated, used>>  BY <2>11 DEF GiveUp
        <3> QED  BY <3>1, <3>2, <3>3 DEF PolicyTypeOK
    <2> QED  BY <2>1, <2>2, <2>3, <2>4, <2>5, <2>6, <2>7, <2>8, <2>9, <2>10, <2>11
<1> QED  BY <1>1, <1>2

LEMMA PolicyStarts ==
    ASSUME TxnInit, PolicyInit
    PROVE  PolicyInv /\ GateInv /\ DefaultInv
<1>1. TxnTypeOK  BY DEF TxnInit, TxnTypeOK
<1>2. PolicyTypeOK
    <2>1. NotEditing \in Editing  BY IdleSession
    <2> QED  BY <2>1 DEF PolicyInit, PolicyTypeOK
<1>3. \A e \in Sessions : editing[e].kind = "none"
    BY IdleSession DEF PolicyInit
<1>4. Stored = {}  BY DEF PolicyInit, Stored
<1>5. \A s \in GatedScans : gated[s].policyId = None /\ gated[s].status = "absent"
    BY DEF PolicyInit, NoScan
<1> QED
    BY <1>1, <1>2, <1>3, <1>4, <1>5 DEF PolicyInv, GateInv, DefaultInv, Upserting, Defaults

\* The policies, the scans they gate and the requests about them have the types
\* that PolicyTypeOK gives them.
THEOREM PolicyTypeCorrect == PolicySpec => []PolicyTypeOK
<1>1. TxnInit /\ PolicyInit => PolicyInv  BY PolicyStarts
<1>2. PolicyInv /\ [PolicyNext]_<<policyVars, txnVars>> => PolicyInv'  BY PolicyTypes
<1>3. PolicyInv => PolicyTypeOK  BY DEF PolicyInv
<1> QED  BY <1>1, <1>2, <1>3, PTL DEF PolicySpec

-----------------------------------------------------------------------------
(***************************************************************************)
(* Policies: the decision of a scan.  A policy that a scan names is only   *)
(* ever replaced or, with the name, removed.                               *)
(***************************************************************************)
\* What a session does to the work of the others: nothing.
LEMMA EditOfOthers ==
    ASSUME PolicyInv, NEW e \in Sessions, NEW w, Edit(e, w)
    PROVE  \A f \in Sessions : editing'[f] = IF f = e THEN w ELSE editing[f]
BY DEF Edit, PolicyInv, PolicyTypeOK

\* A scan that is there stays as it is until its own session or a delete
\* changes it.
LEMMA GateKept ==
    ASSUME PolicyInv, GateInv, UNCHANGED <<gated, used>>,
           \A i \in Stored : i \in Stored',
           NEW e \in Sessions, NEW w, Edit(e, w), w.kind # "scan"
    PROVE  GateInv'
<1>1. \A f \in Sessions : editing'[f].kind = "scan" => editing'[f] = editing[f]
    BY EditOfOthers
<1> QED  BY <1>1 DEF GateInv

LEMMA GateStep ==
    ASSUME PolicyInv, GateInv, [PolicyNext]_<<policyVars, txnVars>>
    PROVE  GateInv'
<1>1. CASE UNCHANGED <<policyVars, txnVars>>
    BY <1>1 DEF policyVars, GateInv, Stored
<1>2. CASE PolicyNext
    <2>1. PICK e \in Sessions :
            \/ \E n \in PolicyNames, d \in Documents, default \in BOOLEAN :
                   UpsertSelect(e, [name |-> n, default |-> default, document |-> d])
            \/ UpsertFlush(e)
            \/ UpsertCommit(e)
            \/ \E i \in PolicyIds : DeleteSelect(e, i)
            \/ DeleteCommit(e)
            \/ \E w \in PolicyIds \cup Documents \cup {None} : ScanSelect(e, w)
            \/ \E s \in GatedScans : ScanRequested(e, s) \/ ResolvePolicy(e, s)
            \/ ScanSucceeds(e)
            \/ GiveUp(e)
        BY <1>2 DEF PolicyNext
    <2>2. ASSUME NEW new, UpsertSelect(e, new)  PROVE GateInv'
        <3>1. PICK i \in PolicyIds : Edit(e, [kind |-> "upsert", id |-> i, copy |-> policy[i],
                                              new |-> new, others |-> {}])
            BY <2>2 DEF UpsertSelect
        <3>2. UNCHANGED <<gated, used>> /\ Stored' = Stored
            BY <2>2 DEF UpsertSelect, Stored
        <3> DEFINE w == [kind |-> "upsert", id |-> i, copy |-> policy[i],
                         new |-> new, others |-> {}]
        <3>3. w.kind # "scan" /\ Edit(e, w)  BY <3>1
        <3> HIDE DEF w
        <3> QED  BY <3>2, <3>3, GateKept
    <2>3. CASE UpsertFlush(e)
        <3> DEFINE w == [editing[e] EXCEPT !.kind = "written", !.others = Others(e)]
        <3>1. Edit(e, w)  BY <2>3 DEF UpsertFlush
        <3>2. w.kind # "scan"
            <4>1. editing[e] \in Editing /\ editing[e].kind = "upsert"
                BY <2>3 DEF UpsertFlush, PolicyInv, PolicyTypeOK
            <4> QED  BY <4>1 DEF Editing, NotEditing
        <3>3. UNCHANGED <<gated, used>> /\ Stored' = Stored
            BY <2>3 DEF UpsertFlush, Stored
        <3> HIDE DEF w
        <3> QED  BY <3>1, <3>2, <3>3, GateKept
    <2>4. CASE UpsertCommit(e)
        <3>1. Edit(e, NotEditing) /\ UNCHANGED <<gated, used>>  BY <2>4 DEF UpsertCommit
        <3>2. ASSUME NEW i \in Stored  PROVE i \in Stored'
            <4>1. i \in PolicyIds /\ policy[i] # NoPolicy  BY DEF Stored
            <4>2. policy'[i] # NoPolicy
                BY <2>4, <4>1, UpsertedRow, PolicyIsThere
            <4> QED  BY <4>1, <4>2 DEF Stored
        <3>3. NotEditing.kind # "scan"  BY IdleSession
        <3> QED  BY <3>1, <3>2, <3>3, GateKept
    <2>5. ASSUME NEW i \in PolicyIds, DeleteSelect(e, i)  PROVE GateInv'
        <3> DEFINE w == [kind |-> "delete", id |-> i]
        <3>1. Edit(e, w) /\ w.kind # "scan"  BY <2>5 DEF DeleteSelect
        <3>2. UNCHANGED <<gated, used>> /\ Stored' = Stored  BY <2>5 DEF DeleteSelect, Stored
        <3> HIDE DEF w
        <3> QED  BY <3>1, <3>2, GateKept
    <2>6. CASE DeleteCommit(e)
        <3>1. \A f \in Sessions : editing'[f].kind = "scan" => editing'[f] = editing[f]
            BY <2>6, EditOfOthers, IdleSession DEF DeleteCommit
        <3>2. UNCHANGED used  BY <2>6 DEF DeleteCommit
        <3>3. ASSUME NEW s \in GatedScans, gated'[s].policyId # None
              PROVE  gated'[s].policyId \in Stored' /\ gated'[s].policyId = gated'[s].wanted
            <4>1. /\ gated[s].policyId # editing[e].id /\ gated'[s].policyId = gated[s].policyId
                  /\ gated'[s].wanted = gated[s].wanted
                BY <2>6, <3>3, UnlinkedScan DEF PolicyInv
            <4>2. gated[s].policyId \in Stored /\ gated[s].policyId = gated[s].wanted
                BY <3>3, <4>1 DEF GateInv
            <4>3. policy'[gated[s].policyId] = policy[gated[s].policyId]
                BY <2>6, <4>1, <4>2 DEF DeleteCommit, Stored, PolicyInv, PolicyTypeOK
            <4> QED  BY <4>1, <4>2, <4>3 DEF Stored
        <3>4. ASSUME NEW s \in GatedScans, gated'[s].status = "succeeded"
              PROVE  /\ gated'[s].document = used'[s]
                     /\ gated'[s].document = None => gated'[s].policyId = None
            BY <2>6, <3>2, <3>4, UnlinkedScan DEF PolicyInv, GateInv
        <3>5. ASSUME NEW f \in Sessions, editing'[f].kind = "scan"
              PROVE  /\ gated'[editing'[f].scan] # NoScan
                     /\ editing'[f].document = None => gated'[editing'[f].scan].policyId = None
            <4>1. editing'[f] = editing[f] /\ editing[f].kind = "scan"  BY <3>1, <3>5
            <4>2. editing[f].scan \in GatedScans  BY <4>1, EditShape DEF PolicyInv
            <4> QED  BY <2>6, <4>1, <4>2, UnlinkedScan DEF PolicyInv, GateInv
        <3> QED  BY <3>3, <3>4, <3>5 DEF GateInv
    <2>7. ASSUME NEW x, ScanSelect(e, x)  PROVE GateInv'
        <3> DEFINE w == [kind |-> "request", wanted |-> x]
        <3>1. Edit(e, w) /\ w.kind # "scan"  BY <2>7 DEF ScanSelect
        <3>2. UNCHANGED <<gated, used>> /\ Stored' = Stored  BY <2>7 DEF ScanSelect, Stored
        <3> HIDE DEF w
        <3> QED  BY <3>1, <3>2, GateKept
    <2>8. ASSUME NEW s \in GatedScans, ScanRequested(e, s)  PROVE GateInv'
        <3> DEFINE x == editing[e].wanted
        <3> DEFINE id == IF x \in PolicyIds THEN x ELSE None
        <3>1. /\ gated[s] = NoScan /\ (id # None => id \in Stored)
              /\ gated' = [gated EXCEPT ![s] = [status |-> "queued", policyId |-> id,
                                                wanted |-> x, document |-> None]]
            BY <2>8 DEF ScanRequested
        <3>2. \A t \in GatedScans : t # s => gated'[t] = gated[t]
            BY <3>1 DEF PolicyInv, PolicyTypeOK
        <3>3. /\ gated'[s].status = "queued" /\ gated'[s].policyId = id
              /\ gated'[s].wanted = x
            <4> HIDE DEF id, x
            <4> QED  BY <3>1 DEF PolicyInv, PolicyTypeOK
        <3>4. \A f \in Sessions : editing'[f].kind = "scan" => editing'[f] = editing[f]
            BY <2>8, EditOfOthers, IdleSession DEF ScanRequested
        <3>5. UNCHANGED <<policy, used>> /\ Stored' = Stored  BY <2>8 DEF ScanRequested, Stored
        <3>6. id # None => id = x /\ id \in Stored'  BY <3>1, <3>5
        <3> HIDE DEF id, x
        <3>7. \A t \in GatedScans :
                  /\ gated'[t].policyId # None
                       => gated'[t].policyId \in Stored' /\ gated'[t].policyId = gated'[t].wanted
                  /\ gated'[t].status = "succeeded" =>
                       /\ gated'[t].document = used'[t]
                       /\ gated'[t].document = None => gated'[t].policyId = None
            BY <3>2, <3>3, <3>5, <3>6 DEF GateInv
        <3>8. \A f \in Sessions : editing'[f].kind = "scan" =>
                  /\ gated'[editing'[f].scan] # NoScan
                  /\ editing'[f].document = None => gated'[editing'[f].scan].policyId = None
            BY <3>1, <3>2, <3>4, EditShape DEF GateInv, PolicyInv
        <3> QED  BY <3>7, <3>8 DEF GateInv
    <2>9. ASSUME NEW s \in GatedScans, ResolvePolicy(e, s)  PROVE GateInv'
        <3>1. PICK d \in IF Resolved(gated[s].wanted) = {} THEN {None}
                         ELSE Resolved(gated[s].wanted) :
                  Edit(e, [kind |-> "scan", scan |-> s, document |-> d])
            BY <2>9 DEF ResolvePolicy
        <3> DEFINE w == [kind |-> "scan", scan |-> s, document |-> d]
        <3>2. w.scan = s /\ w.document = d /\ Edit(e, w)  BY <3>1
        <3>3. UNCHANGED <<policy, gated, used>> /\ Stored' = Stored
            BY <2>9 DEF ResolvePolicy, Stored
        <3>4. gated[s] # NoScan  BY <2>9 DEF ResolvePolicy, NoScan
        <3>5. ASSUME d = None  PROVE gated[s].policyId = None
            <4>1. Resolved(gated[s].wanted) = {}
                BY <3>1, <3>5, ResolvedType, IdsAssumption DEF PolicyInv
            <4>2. gated[s].wanted \notin Stored  BY <4>1 DEF Resolved
            <4> QED  BY <4>2 DEF GateInv
        <3> HIDE DEF w
        <3>6. \A f \in Sessions : editing'[f] = IF f = e THEN w ELSE editing[f]
            BY <3>2, EditOfOthers
        <3> QED  BY <3>2, <3>3, <3>4, <3>5, <3>6 DEF GateInv
    <2>10. CASE ScanSucceeds(e)
        <3> DEFINE s == editing[e].scan
        <3> DEFINE d == editing[e].document
        <3>1. /\ s \in GatedScans /\ gated[s].status = "queued"
              /\ d = None => gated[s].policyId = None
            BY <2>10, EditShape DEF ScanSucceeds, PolicyInv, GateInv
        <3>2. gated[s] \in GatedScan
            BY <3>1 DEF PolicyInv, PolicyTypeOK, NoScan
        <3>3. \A t \in GatedScans :
                gated'[t] = IF t = s THEN [gated[s] EXCEPT !.status = "succeeded", !.document = d]
                            ELSE gated[t]
            BY <2>10, <3>1 DEF ScanSucceeds, Kept, PolicyInv, PolicyTypeOK
        <3>4. /\ gated'[s].document = d /\ gated'[s].policyId = gated[s].policyId
              /\ gated'[s].wanted = gated[s].wanted /\ gated'[s].status = "succeeded"
            <4> HIDE DEF s, d
            <4> QED  BY <3>1, <3>2, <3>3 DEF GatedScan
        <3>5. \A t \in GatedScans : used'[t] = IF t = s THEN d ELSE used[t]
            BY <2>10 DEF ScanSucceeds, PolicyInv, PolicyTypeOK
        <3>6. \A f \in Sessions : editing'[f].kind = "scan" => editing'[f] = editing[f]
            BY <2>10, EditOfOthers, IdleSession DEF ScanSucceeds
        <3>7. Stored' = Stored  BY <2>10 DEF ScanSucceeds, Stored
        <3>8. gated'[s] # NoScan  BY <3>4 DEF NoScan
        <3> HIDE DEF s, d
        <3>9. \A t \in GatedScans :
                  /\ gated'[t].policyId # None
                       => gated'[t].policyId \in Stored' /\ gated'[t].policyId = gated'[t].wanted
                  /\ gated'[t].status = "succeeded" =>
                       /\ gated'[t].document = used'[t]
                       /\ gated'[t].document = None => gated'[t].policyId = None
            BY <3>1, <3>3, <3>4, <3>5, <3>7 DEF GateInv
        <3>10. \A f \in Sessions : editing'[f].kind = "scan" =>
                  /\ gated'[editing'[f].scan] # NoScan
                  /\ editing'[f].document = None => gated'[editing'[f].scan].policyId = None
            BY <3>3, <3>4, <3>6, <3>8, EditShape DEF GateInv, PolicyInv
        <3> QED  BY <3>9, <3>10 DEF GateInv
    <2>11. CASE GiveUp(e)
        <3>1. Edit(e, NotEditing) /\ UNCHANGED <<gated, used>> /\ Stored' = Stored
            BY <2>11 DEF GiveUp, Stored
        <3>2. NotEditing.kind # "scan"  BY IdleSession
        <3> QED  BY <3>1, <3>2, GateKept
    <2> QED  BY <2>1, <2>2, <2>3, <2>4, <2>5, <2>6, <2>7, <2>8, <2>9, <2>10, <2>11
<1> QED  BY <1>1, <1>2

\* On both dialects, whatever becomes of a policy after it has gated a scan: the
\* result of the scan is recomputed from the document that gated it.
THEOREM DecisionsAreReproducible == PolicySpec => []RecomputedFromSameDocument
<1>1. TxnInit /\ PolicyInit => PolicyInv /\ GateInv  BY PolicyStarts
<1>2. PolicyInv /\ GateInv /\ [PolicyNext]_<<policyVars, txnVars>> => PolicyInv' /\ GateInv'
    BY PolicyTypes, GateStep
<1>3. GateInv => RecomputedFromSameDocument
    <2>1. ASSUME GateInv, NEW s \in GatedScans, gated[s].status = "succeeded"
          PROVE  Shown(s) = used[s]
        <3>1. /\ gated[s].document = used[s]
              /\ gated[s].document = None => gated[s].policyId = None
            BY <2>1 DEF GateInv
        <3>2. None \notin Stored  BY IdsAssumption DEF Stored
        <3> QED  BY <3>1, <3>2 DEF Shown
    <2> QED  BY <2>1 DEF RecomputedFromSameDocument
<1> QED  BY <1>1, <1>2, <1>3, PTL DEF PolicySpec

-----------------------------------------------------------------------------
(***************************************************************************)
(* Policies: the default, on SQLite.                                       *)
(***************************************************************************)
\* While nobody commits, a session keeps what it has read and cleared.
LEMMA DefaultKept ==
    ASSUME SQLite, PolicyInv, DefaultInv, NEW e \in Sessions, UNCHANGED policy,
           Read(e) \/ Flush(e) \/ Rollback(e),
           NEW w, Edit(e, w),
           w.kind \in {"upsert", "written"} =>
               /\ snap'[e] # "none"
               /\ snap'[e] = "current" =>
                    /\ policy[w.id] = w.copy
                    /\ w.kind = "written" => w.others = Others(e)'
    PROVE  DefaultInv'
<1>1. \A f \in Sessions : editing'[f] = IF f = e THEN w ELSE editing[f]  BY EditOfOthers
<1>2. \A f \in Sessions : f # e => snap'[f] = snap[f]
    BY SnapshotOfOthers DEF PolicyInv
<1>3. Stored' = Stored /\ Defaults' = Defaults  BY DEF Stored, Defaults
<1>4. \A i, k \in Defaults' : i = k  BY <1>3 DEF DefaultInv
<1>5. ASSUME NEW f \in Sessions, Upserting(f)'
      PROVE  /\ snap'[f] # "none"
             /\ snap'[f] = "current" =>
                  /\ policy'[editing'[f].id] = editing'[f].copy
                  /\ editing'[f].kind = "written" => editing'[f].others = Others(f)'
    <2>1. CASE f = e
        <3>1. editing'[f] = w  BY <1>1, <2>1
        <3> QED  BY <1>5, <2>1, <3>1 DEF Upserting
    <2>2. CASE f # e
        <3>1. editing'[f] = editing[f] /\ snap'[f] = snap[f]  BY <1>1, <1>2, <2>2
        <3>2. Others(f)' = Others(f)  BY <1>3, <3>1 DEF Others
        <3>3. Upserting(f)  BY <1>5, <3>1 DEF Upserting
        <3> QED  BY <3>1, <3>2, <3>3 DEF DefaultInv
    <2> QED  BY <2>1, <2>2
<1> QED  BY <1>4, <1>5 DEF DefaultInv

\* A commit leaves nobody with a current snapshot: nothing is claimed of what
\* the others have read.
LEMMA DefaultCommitted ==
    ASSUME SQLite, PolicyInv, DefaultInv, NEW e \in Sessions, Commit(e), Edit(e, NotEditing),
           \A i, k \in Defaults' : i = k
    PROVE  DefaultInv'
<1>1. \A f \in Sessions : editing'[f] = IF f = e THEN NotEditing ELSE editing[f]
    BY EditOfOthers
<1>2. ASSUME NEW f \in Sessions, Upserting(f)'
      PROVE  snap'[f] # "none" /\ snap'[f] # "current"
    <2>1. f # e /\ editing'[f] = editing[f]
        BY <1>1, <1>2, IdleSession DEF Upserting
    <2>2. snap[f] # "none"  BY <1>2, <2>1 DEF DefaultInv, Upserting
    <2> QED  BY <2>1, <2>2, NobodyCurrent
<1> QED  BY <1>2 DEF DefaultInv

\* What a commit of an upsert makes of the defaults: the new row's flag is as
\* requested, and a new default is alone.
LEMMA UpsertedDefaults ==
    ASSUME SQLite, PolicyInv, DefaultInv, NEW e \in Sessions, UpsertCommit(e)
    PROVE  LET id == editing[e].id
           IN  /\ id \in PolicyIds /\ policy[id] = editing[e].copy
               /\ policy'[id].version = policy[id].version + 1
               /\ editing[e].new.default => Defaults' = {id}
               /\ ~ editing[e].new.default => Defaults' = Defaults \ {id}
<1> DEFINE id == editing[e].id
<1> DEFINE new == editing[e].new
<1> DEFINE copy == editing[e].copy
<1>1. /\ Upserting(e) /\ editing[e].kind = "written"
    BY DEF UpsertCommit, Upserting
<1>2. snap[e] = "current"
    BY <1>1, CommitsOnCurrent DEF DefaultInv, PolicyInv, UpsertCommit
<1>3. policy[id] = copy /\ editing[e].others = Others(e)
    BY <1>1, <1>2 DEF DefaultInv
<1>4. id \in PolicyIds /\ new.default \in BOOLEAN
    BY <1>1, EditShape DEF PolicyInv
<1>5. /\ policy'[id] \in Policy /\ policy'[id].version = copy.version + 1
      /\ policy'[id].default = IF id \in editing[e].others THEN FALSE
                               ELSE IF copy # NoPolicy /\ new.default = copy.default
                                    THEN policy[id].default ELSE new.default
    BY <1>4, UpsertedRow
<1>6. id \notin editing[e].others
    BY <1>3 DEF Others
<1>7. policy'[id].default = new.default
    <2> HIDE DEF new
    <2>1. CASE copy # NoPolicy /\ new.default = copy.default
        BY <1>3, <1>5, <1>6, <2>1
    <2>2. CASE ~ (copy # NoPolicy /\ new.default = copy.default)
        BY <1>5, <1>6, <2>2
    <2> QED  BY <2>1, <2>2
<1>8. \A i \in PolicyIds : i # id =>
          /\ policy'[i] = NoPolicy <=> policy[i] = NoPolicy
          /\ policy'[i].default = IF i \in editing[e].others THEN FALSE ELSE policy[i].default
    BY UpsertedRow
<1>9. policy'[id] # NoPolicy  BY <1>5, PolicyIsThere
<1>10. ASSUME new.default  PROVE Defaults' = {id}
    <2>1. editing[e].others = Stored \ {id}  BY <1>3, <1>10 DEF Others
    <2>2. ASSUME NEW i \in PolicyIds, i # id  PROVE i \notin Defaults'
        <3>1. CASE policy[i] = NoPolicy  BY <1>8, <2>2, <3>1 DEF Defaults, Stored
        <3>2. CASE policy[i] # NoPolicy
            <4>1. i \in editing[e].others  BY <2>1, <2>2, <3>2 DEF Stored
            <4> QED  BY <1>8, <2>2, <4>1 DEF Defaults
        <3> QED  BY <3>1, <3>2
    <2>3. id \in Defaults'  BY <1>4, <1>7, <1>9, <1>10 DEF Defaults, Stored
    <2>4. Defaults' \subseteq PolicyIds  BY DEF Defaults, Stored
    <2> HIDE DEF id
    <2> QED  BY <2>2, <2>3, <2>4
<1>11. ASSUME ~ new.default  PROVE Defaults' = Defaults \ {id}
    <2>1. editing[e].others = {}  BY <1>3, <1>11 DEF Others
    <2>2. ASSUME NEW i \in PolicyIds, i # id  PROVE i \in Defaults' <=> i \in Defaults
        BY <1>8, <2>1, <2>2 DEF Defaults, Stored
    <2>3. id \notin Defaults'  BY <1>7, <1>11 DEF Defaults
    <2>4. Defaults' \subseteq PolicyIds /\ Defaults \subseteq PolicyIds  BY DEF Defaults, Stored
    <2> HIDE DEF id
    <2> QED  BY <2>2, <2>3, <2>4
<1> QED  BY <1>3, <1>4, <1>5, <1>10, <1>11

LEMMA DeletedDefaults ==
    ASSUME PolicyInv, NEW e \in Sessions, DeleteCommit(e)
    PROVE  /\ editing[e].id \in PolicyIds
           /\ policy'[editing[e].id] = NoPolicy
           /\ Defaults' = Defaults \ {editing[e].id}
<1>1. editing[e].id \in PolicyIds  BY EditShape DEF DeleteCommit, PolicyInv
<1>2. \A i \in PolicyIds : policy'[i] = IF i = editing[e].id THEN NoPolicy ELSE policy[i]
    BY DEF DeleteCommit, PolicyInv, PolicyTypeOK
<1> QED  BY <1>1, <1>2 DEF Defaults, Stored

LEMMA DefaultStep ==
    ASSUME SQLite, PolicyInv, DefaultInv, [PolicyNext]_<<policyVars, txnVars>>
    PROVE  /\ DefaultInv'
           /\ \A i \in Defaults : Defaults' = {}
                => policy'[i] = NoPolicy \/ policy'[i].version # policy[i].version
<1>1. CASE UNCHANGED <<policyVars, txnVars>>
    <2>1. Defaults' = Defaults /\ Stored' = Stored
        BY <1>1 DEF policyVars, Defaults, Stored
    <2>2. \A e \in Sessions : Others(e)' = Others(e) /\ Upserting(e)' = Upserting(e)
        BY <1>1, <2>1 DEF policyVars, Others, Upserting
    <2> QED  BY <1>1, <2>1, <2>2 DEF policyVars, txnVars, DefaultInv
<1>2. CASE PolicyNext
    <2>1. PICK e \in Sessions :
            \/ \E n \in PolicyNames, d \in Documents, default \in BOOLEAN :
                   UpsertSelect(e, [name |-> n, default |-> default, document |-> d])
            \/ UpsertFlush(e)
            \/ UpsertCommit(e)
            \/ \E i \in PolicyIds : DeleteSelect(e, i)
            \/ DeleteCommit(e)
            \/ \E w \in PolicyIds \cup Documents \cup {None} : ScanSelect(e, w)
            \/ \E s \in GatedScans : ScanRequested(e, s) \/ ResolvePolicy(e, s)
            \/ ScanSucceeds(e)
            \/ GiveUp(e)
        BY <1>2 DEF PolicyNext
    <2>0. ASSUME UNCHANGED policy
          PROVE  /\ Defaults' = Defaults
                 /\ \A i \in Defaults : Defaults' # {}
        BY <2>0 DEF Defaults, Stored
    <2>2. ASSUME NEW new, UpsertSelect(e, new)  PROVE DefaultInv' /\ UNCHANGED policy
        <3>1. PICK i \in PolicyIds : Edit(e, [kind |-> "upsert", id |-> i, copy |-> policy[i],
                                              new |-> new, others |-> {}])
            BY <2>2 DEF UpsertSelect
        <3> DEFINE w == [kind |-> "upsert", id |-> i, copy |-> policy[i],
                         new |-> new, others |-> {}]
        <3>2. /\ Edit(e, w) /\ w.kind = "upsert" /\ policy[w.id] = w.copy
            BY <3>1
        <3>3. snap'[e] # "none"  BY <2>2, SnapshotTaken DEF UpsertSelect, PolicyInv
        <3>4. Read(e) /\ UNCHANGED policy  BY <2>2 DEF UpsertSelect
        <3> HIDE DEF w
        <3> QED  BY <3>2, <3>3, <3>4, DefaultKept
    <2>3. CASE UpsertFlush(e)
        <3> DEFINE w == [editing[e] EXCEPT !.kind = "written", !.others = Others(e)]
        <3>0. editing[e] \in [kind : {"upsert", "written"}, id : PolicyIds,
                              copy : Policy \cup {NoPolicy},
                              new : [name : PolicyNames, default : BOOLEAN, document : Documents],
                              others : SUBSET PolicyIds]
            <4>1. editing[e] \in Editing /\ editing[e].kind = "upsert"
                BY <2>3 DEF UpsertFlush, PolicyInv, PolicyTypeOK
            <4> QED  BY <4>1 DEF Editing, NotEditing
        <3>1. /\ Edit(e, w) /\ w.kind = "written" /\ w.id = editing[e].id
              /\ w.copy = editing[e].copy /\ w.new = editing[e].new /\ w.others = Others(e)
            BY <2>3, <3>0 DEF UpsertFlush
        <3>2. snap'[e] = "current" /\ Upserting(e) /\ Flush(e)
            BY <2>3, SnapshotTaken DEF UpsertFlush, PolicyInv, Upserting
        <3>3. snap[e] = "current"
            BY <3>2, SnapshotTaken DEF DefaultInv, PolicyInv
        <3>4. policy[w.id] = w.copy  BY <3>1, <3>2, <3>3 DEF DefaultInv
        <3>5. UNCHANGED policy  BY <2>3 DEF UpsertFlush
        <3>6. Others(e)' = Others(e)
            <4> HIDE DEF w
            <4>1. editing'[e] = w  BY <3>1, EditOfOthers
            <4>2. Stored' = Stored  BY <3>5 DEF Stored
            <4> QED  BY <3>1, <4>1, <4>2 DEF Others
        <3> HIDE DEF w
        <3>7. DefaultInv'  BY <3>1, <3>2, <3>4, <3>5, <3>6, DefaultKept
        <3> QED  BY <2>0, <3>5, <3>7
    <2>4. CASE UpsertCommit(e)
        <3> DEFINE id == editing[e].id
        <3>1. /\ id \in PolicyIds /\ policy'[id].version = policy[id].version + 1
              /\ Defaults' = {id} \/ Defaults' = Defaults \ {id}
              /\ policy[id].version \in Nat
            <4>1. policy[id] = editing[e].copy /\ id \in PolicyIds
                BY <2>4, UpsertedDefaults
            <4>2. policy[id] \in Policy \cup {NoPolicy}  BY <4>1 DEF PolicyInv, PolicyTypeOK
            <4>3. policy[id].version \in Nat  BY <4>2, PolicyIsThere, VersionAssumption
            <4> QED  BY <2>4, <4>3, UpsertedDefaults
        <3> HIDE DEF id
        <3>2. \A i, k \in Defaults' : i = k  BY <3>1 DEF DefaultInv
        <3>3. \A i \in Defaults : Defaults' = {} => i = id  BY <3>1
        <3>4. policy'[id].version # policy[id].version  BY <3>1
        <3>5. DefaultInv'  BY <2>4, <3>2, DefaultCommitted DEF UpsertCommit
        <3> QED  BY <3>3, <3>4, <3>5
    <2>5. ASSUME NEW i \in PolicyIds, DeleteSelect(e, i)  PROVE DefaultInv' /\ UNCHANGED policy
        <3> DEFINE w == [kind |-> "delete", id |-> i]
        <3>1. Edit(e, w) /\ w.kind = "delete" /\ UNCHANGED policy /\ Read(e)
            BY <2>5 DEF DeleteSelect
        <3> HIDE DEF w
        <3> QED  BY <3>1, DefaultKept
    <2>6. CASE DeleteCommit(e)
        <3>1. \A i, k \in Defaults' : i = k  BY <2>6, DeletedDefaults DEF DefaultInv
        <3>2. DefaultInv'  BY <2>6, <3>1, DefaultCommitted DEF DeleteCommit
        <3> QED  BY <2>6, <3>2, DeletedDefaults
    <2>7. ASSUME NEW x, ScanSelect(e, x)  PROVE DefaultInv' /\ UNCHANGED policy
        <3> DEFINE w == [kind |-> "request", wanted |-> x]
        <3>1. Edit(e, w) /\ w.kind = "request" /\ UNCHANGED policy /\ Read(e)
            BY <2>7 DEF ScanSelect
        <3> HIDE DEF w
        <3> QED  BY <3>1, DefaultKept
    <2>8. ASSUME NEW s \in GatedScans, ScanRequested(e, s)  PROVE DefaultInv' /\ UNCHANGED policy
        <3>1. UNCHANGED policy /\ Commit(e) /\ Edit(e, NotEditing)  BY <2>8 DEF ScanRequested
        <3>2. \A i, k \in Defaults' : i = k  BY <2>0, <3>1 DEF DefaultInv
        <3> QED  BY <3>1, <3>2, DefaultCommitted
    <2>9. ASSUME NEW s \in GatedScans, ResolvePolicy(e, s)  PROVE DefaultInv' /\ UNCHANGED policy
        <3>1. PICK d : Edit(e, [kind |-> "scan", scan |-> s, document |-> d])
            BY <2>9 DEF ResolvePolicy
        <3> DEFINE w == [kind |-> "scan", scan |-> s, document |-> d]
        <3>2. Edit(e, w) /\ w.kind = "scan" /\ UNCHANGED policy /\ Read(e)
            BY <2>9, <3>1 DEF ResolvePolicy
        <3> HIDE DEF w
        <3> QED  BY <3>2, DefaultKept
    <2>10. CASE ScanSucceeds(e)
        <3>1. UNCHANGED policy /\ Commit(e) /\ Edit(e, NotEditing)  BY <2>10 DEF ScanSucceeds
        <3>2. \A i, k \in Defaults' : i = k  BY <2>0, <3>1 DEF DefaultInv
        <3>3. DefaultInv'  BY <3>1, <3>2, DefaultCommitted
        <3> QED  BY <2>0, <3>1, <3>3
    <2>11. CASE GiveUp(e)
        <3>1. UNCHANGED policy /\ Rollback(e) /\ Edit(e, NotEditing)  BY <2>11 DEF GiveUp
        <3>2. DefaultInv'  BY <3>1, IdleSession, DefaultKept
        <3> QED  BY <2>0, <3>1, <3>2
    <2> QED
        BY <2>0, <2>1, <2>2, <2>3, <2>4, <2>5, <2>6, <2>7, <2>8, <2>9, <2>10, <2>11
<1> QED  BY <1>1, <1>2

\* On SQLite, whatever the requests that replace and delete policies and however
\* they interleave: the default goes from one policy to another in one commit.
THEOREM DefaultPassesOn == SQLite => (PolicySpec => DefaultHandedOver)
<1> SUFFICES ASSUME SQLite  PROVE PolicySpec => DefaultHandedOver
    OBVIOUS
<1> DEFINE HandsOver ==
        /\ \A i, k \in Defaults' : i = k
        /\ \A i \in Defaults : Defaults' = {}
              => policy'[i] = NoPolicy \/ policy'[i].version # policy[i].version
<1>1. TxnInit /\ PolicyInit => PolicyInv /\ DefaultInv  BY PolicyStarts
<1>2. PolicyInv /\ DefaultInv /\ [PolicyNext]_<<policyVars, txnVars>>
        => PolicyInv' /\ DefaultInv'
    BY PolicyTypes, DefaultStep
<1>3. PolicyInv /\ DefaultInv /\ [PolicyNext]_<<policyVars, txnVars>> => [HandsOver]_policyVars
    <2>1. ASSUME PolicyInv, DefaultInv, [PolicyNext]_<<policyVars, txnVars>>
          PROVE  HandsOver
        <3>1. /\ DefaultInv'
              /\ \A i \in Defaults : Defaults' = {}
                   => policy'[i] = NoPolicy \/ policy'[i].version # policy[i].version
            BY <2>1, DefaultStep
        <3>2. \A i, k \in Defaults' : i = k  BY <3>1 DEF DefaultInv
        <3> QED  BY <3>1, <3>2
    <2> QED  BY <2>1
<1>4. DefaultHandedOver <=> [][HandsOver]_policyVars  BY DEF DefaultHandedOver
<1> HIDE DEF HandsOver
<1> QED  BY <1>1, <1>2, <1>3, <1>4, PTL DEF PolicySpec

-----------------------------------------------------------------------------
(***************************************************************************)
(* Tenancy: types.  Whoever acts, or has acted, has an account, in the     *)
(* organization that the principal says.                                   *)
(***************************************************************************)
Member(u, o) == u \in Users /\ role[u] \in ROLES /\ OrgOf[u] = o

TenancyInv ==
    /\ TenancyTypeOK
    /\ TxnTypeOK
    /\ trail = [o \in Orgs |-> trail[o]]
    /\ \A i \in Objects : object[i] # NoObject => Member(object[i].user, object[i].org)
    /\ \A e \in Sessions : request[e] # NoRequest =>
           /\ Member(request[e].principal.user, request[e].principal.org)
           /\ request[e].step = "user" => OrgOf[request[e].user] = request[e].principal.org

(***************************************************************************)
(* Tenancy: the row of a request, on SQLite.  While nobody else has        *)
(* committed, a row that a request is about to change is the one it found, *)
(* in its own organization.                                                *)
(***************************************************************************)
LoadedInv ==
    \A e \in Sessions : request[e].step = "route" =>
        /\ snap[e] # "none"
        /\ snap[e] = "current" /\ request[e].route.from # "absent" =>
             /\ object[request[e].id] # NoObject
             /\ object[request[e].id].org = request[e].principal.org

LEMMA RouteShape ==
    ASSUME NEW route \in Routes
    PROVE  /\ route.kind \in {"project", "integration", "token"}
           /\ route.to \in {"live", "archived", "revoked", "absent"}
BY DEF Routes, ProjectRoutes, IntegrationRoutes, TokenRoutes, Route

\* What a session has in hand.
LEMMA RequestShape ==
    ASSUME TenancyTypeOK, NEW e \in Sessions
    PROVE  /\ request[e].step = "none" <=> request[e] = NoRequest
           /\ request[e] # NoRequest => request[e].principal \in Principal
           /\ request[e].step = "route" =>
                request[e].route \in Routes /\ request[e].id \in Objects
           /\ request[e].step = "user" =>
                request[e].user \in Users /\ request[e].role \in ROLES
<1>1. request[e] \in Request  BY DEF TenancyTypeOK
<1>2. CASE request[e] = NoRequest  BY <1>2 DEF NoRequest
<1>3. CASE request[e] \in [step : {"authenticated"}, principal : Principal]
    BY <1>3 DEF NoRequest
<1>4. CASE request[e] \in [step : {"route"}, principal : Principal, route : Routes, id : Objects]
    BY <1>4 DEF NoRequest
<1>5. CASE request[e] \in [step : {"user"}, principal : Principal,
                           name : {"user.created", "user.role_changed"}, user : Users,
                           role : ROLES]
    BY <1>5 DEF NoRequest
<1> QED  BY <1>1, <1>2, <1>3, <1>4, <1>5 DEF Request

LEMMA NobodyAsks == NoRequest \in Request /\ NoRequest.step = "none"
BY DEF NoRequest, Request

LEMMA PrincipalShape ==
    ASSUME TenancyTypeOK, NEW e \in Sessions, request[e] # NoRequest
    PROVE  /\ request[e].principal.user \in Users /\ request[e].principal.org \in Orgs
           /\ request[e].principal.role \in ROLES
BY RequestShape DEF Principal

\* A session goes on with its request, the others stay at theirs.
LEMMA Served ==
    ASSUME TenancyTypeOK, NEW e \in Sessions, NEW r \in Request, Serve(e, r)
    PROVE  /\ request' \in [Sessions -> Request]
           /\ \A f \in Sessions : request'[f] = IF f = e THEN r ELSE request[f]
BY DEF Serve, TenancyTypeOK

\* An account stays one, and no row is there without its members.
LEMMA TenancyKept ==
    ASSUME TenancyInv, NEW e \in Sessions, NEW r \in Request, Serve(e, r), TxnTypeOK',
           UNCHANGED <<role, object, trail>>,
           r # NoRequest =>
               /\ Member(r.principal.user, r.principal.org)
               /\ r.step = "user" => OrgOf[r.user] = r.principal.org
    PROVE  TenancyInv'
<1>1. /\ request' \in [Sessions -> Request]
      /\ \A f \in Sessions : request'[f] = IF f = e THEN r ELSE request[f]
    BY Served DEF TenancyInv
<1>2. TenancyTypeOK'  BY <1>1 DEF TenancyInv, TenancyTypeOK
<1>3. \A f \in Sessions : request'[f] # NoRequest =>
           /\ Member(request'[f].principal.user, request'[f].principal.org)
           /\ request'[f].step = "user" => OrgOf[request'[f].user] = request'[f].principal.org
    BY <1>1 DEF TenancyInv
<1> QED  BY <1>2, <1>3 DEF TenancyInv, Member

LEMMA RowIsThere ==
    /\ NoObject \notin Row
    /\ \A row \in Row : row.user \in Users /\ row.org \in Orgs /\ row.scopes \in ScopeChoices
                        /\ row.state # "absent"
    /\ NoObject.state = "absent"
BY DEF Row, NoObject

\* The principal that a credential of a member stands for.
LEMMA PrincipalType ==
    ASSUME TenancyInv, NEW u \in Users, role[u] # None, NEW scopes \in ScopeChoices \cup {{}}
    PROVE  /\ PrincipalOf(u, scopes) \in Principal
           /\ Member(PrincipalOf(u, scopes).user, PrincipalOf(u, scopes).org)
<1>1. role[u] \in ROLES /\ OrgOf[u] \in Orgs
    BY OrgOfAssumption DEF TenancyInv, TenancyTypeOK
<1>2. PrincipalOf(u, scopes) \in Principal
    BY <1>1 DEF PrincipalOf, Principal
<1>3. PrincipalOf(u, scopes).user = u /\ PrincipalOf(u, scopes).org = OrgOf[u]
    BY DEF PrincipalOf
<1> QED  BY <1>1, <1>2, <1>3 DEF Member

LEMMA AuthenticatedRequest ==
    ASSUME NEW p \in Principal
    PROVE  LET r == [step |-> "authenticated", principal |-> p]
           IN  r \in Request /\ r.step = "authenticated" /\ r.principal = p
BY DEF Request

\* What ChangeObject makes of the row it is about.
LEMMA ChangedRow ==
    ASSUME TenancyInv, NEW e \in Sessions, NEW scopes \in ScopeChoices, ChangeObject(e, scopes)
    PROVE  LET i == request[e].id
               p == request[e].principal
           IN  /\ i \in Objects
               /\ \A k \in Objects : k # i => object'[k] = object[k]
               /\ object'[i] \in Row \cup {NoObject}
               /\ request[e].route.from = "absent" /\ object'[i] # NoObject =>
                    object'[i].org = p.org /\ object'[i].user = p.user
               /\ request[e].route.from # "absent" /\ object'[i] # NoObject =>
                    /\ object[i] # NoObject
                    /\ object'[i].org = object[i].org /\ object'[i].user = object[i].user
               /\ request[e].route.from = "absent" => object[i] = NoObject
<1> DEFINE p == request[e].principal
<1> DEFINE route == request[e].route
<1> DEFINE i == request[e].id
<1> DEFINE new == [state |-> "live", kind |-> route.kind, org |-> p.org, user |-> p.user,
                   scopes |-> scopes]
<1>1. /\ request[e] # NoRequest /\ request[e].step = "route"
    BY NobodyAsks DEF ChangeObject
<1>2. i \in Objects /\ route \in Routes /\ p.user \in Users /\ p.org \in Orgs
    BY <1>1, RequestShape, PrincipalShape DEF TenancyInv
<1>3. /\ route.kind \in {"project", "integration", "token"}
      /\ route.to \in {"live", "archived", "revoked", "absent"}
    BY <1>2, RouteShape
<1>4. object \in [Objects -> Row \cup {NoObject}]
    BY DEF TenancyInv, TenancyTypeOK
<1>5. /\ (object[i] = NoObject) = (route.from = "absent")
      /\ object' = [object EXCEPT ![i] =
                IF route.to = "absent" THEN NoObject
                ELSE IF route.from # "absent" THEN [object[i] EXCEPT !.state = route.to]
                ELSE new]
    <2>1. /\ (object[i] = NoObject) = (route.from = "absent")
          /\ object' = [object EXCEPT ![i] =
                IF route.to = "absent" THEN NoObject
                ELSE IF route.from # "absent" THEN [@ EXCEPT !.state = route.to]
                ELSE new]
        BY DEF ChangeObject
    <2> HIDE DEF new
    <2> QED  BY <1>2, <1>4, <2>1
<1>6. new \in Row /\ new.org = p.org /\ new.user = p.user
    <2> HIDE DEF p, route
    <2> QED  BY <1>2, <1>3 DEF Row
<1>7. object'[i] = IF route.to = "absent" THEN NoObject
                   ELSE IF route.from # "absent" THEN [object[i] EXCEPT !.state = route.to]
                   ELSE new
    <2> HIDE DEF new, route, i
    <2> QED  BY <1>2, <1>4, <1>5
<1>8. \A k \in Objects : k # i => object'[k] = object[k]
    <2> HIDE DEF new, route, i
    <2> QED  BY <1>2, <1>4, <1>5
<1>9. ASSUME route.from # "absent", route.to # "absent"
      PROVE  /\ object[i] \in Row /\ object'[i] \in Row
             /\ object'[i].org = object[i].org /\ object'[i].user = object[i].user
    <2>1. object[i] \in Row  BY <1>2, <1>4, <1>5, <1>9
    <2>2. object'[i] = [object[i] EXCEPT !.state = route.to]  BY <1>7, <1>9
    <2>3. route.to \in {"live", "archived", "revoked"}  BY <1>3, <1>9
    <2> HIDE DEF i, route
    <2> QED  BY <2>1, <2>2, <2>3 DEF Row
<1> HIDE DEF new, route, i, p
<1>10. CASE route.to = "absent"
    BY <1>2, <1>5, <1>7, <1>8, <1>10 DEF route, i, p
<1>11. CASE route.to # "absent" /\ route.from # "absent"
    BY <1>2, <1>5, <1>8, <1>9, <1>11, RowIsThere DEF route, i, p
<1>12. CASE route.to # "absent" /\ route.from = "absent"
    BY <1>2, <1>5, <1>6, <1>7, <1>8, <1>12 DEF route, i, p
<1> QED  BY <1>10, <1>11, <1>12

LEMMA TenancyStarts ==
    ASSUME TxnInit, TenancyInit
    PROVE  TenancyInv /\ LoadedInv
<1>1. TxnTypeOK  BY DEF TxnInit, TxnTypeOK
<1>2. role \in [Users -> ROLES \cup {None}]  BY RolesAssumption DEF TenancyInit
<1>3. TenancyTypeOK  BY <1>2, NobodyAsks DEF TenancyInit, TenancyTypeOK
<1>4. \A e \in Sessions : request[e] = NoRequest  BY DEF TenancyInit
<1>5. \A i \in Objects : object[i] = NoObject  BY DEF TenancyInit
<1>6. trail = [o \in Orgs |-> trail[o]]  BY DEF TenancyInit
<1> QED  BY <1>1, <1>3, <1>4, <1>5, <1>6, NobodyAsks DEF TenancyInv, LoadedInv

LEMMA LoadedRequest ==
    ASSUME TenancyInv, NEW e \in Sessions, NEW route \in Routes, NEW i \in Objects,
           LoadObject(e, route, i)
    PROVE  LET r == [step |-> "route", principal |-> request[e].principal,
                     route |-> route, id |-> i]
           IN  /\ r \in Request /\ Serve(e, r) /\ r.step = "route" /\ r.id = i
               /\ r.principal = request[e].principal /\ r.route = route
               /\ Member(r.principal.user, r.principal.org)
               /\ route.from # "absent" =>
                    object[i] # NoObject /\ object[i].org = request[e].principal.org
<1>1. request[e] # NoRequest /\ request[e].step = "authenticated"
    BY NobodyAsks DEF LoadObject
<1>2. request[e].principal \in Principal /\ Member(request[e].principal.user, request[e].principal.org)
    BY <1>1, RequestShape DEF TenancyInv
<1> DEFINE r == [step |-> "route", principal |-> request[e].principal, route |-> route, id |-> i]
<1>3. r \in Request  BY <1>2 DEF Request
<1>4. Serve(e, r)  BY DEF LoadObject
<1>5. route.from # "absent" =>
          object[i] # NoObject /\ object[i].org = request[e].principal.org
    BY DEF LoadObject, GetForOrg
<1> QED  BY <1>2, <1>3, <1>4, <1>5

\* A request about a user of the principal's organization.
LEMMA UserRequest ==
    ASSUME TenancyInv, NEW e \in Sessions, request[e].step = "authenticated",
           NEW u \in Users, NEW r \in ROLES, OrgOf[u] = request[e].principal.org,
           NEW name \in {"user.created", "user.role_changed"}
    PROVE  LET q == [step |-> "user", principal |-> request[e].principal, name |-> name,
                     user |-> u, role |-> r]
           IN  /\ q \in Request /\ q.step = "user"
               /\ Member(q.principal.user, q.principal.org) /\ OrgOf[q.user] = q.principal.org
<1>1. request[e] # NoRequest  BY NobodyAsks
<1>2. request[e].principal \in Principal /\ Member(request[e].principal.user, request[e].principal.org)
    BY <1>1, RequestShape DEF TenancyInv
<1> QED  BY <1>2 DEF Request

LEMMA ChangedTypes ==
    ASSUME TenancyInv, NEW e \in Sessions, NEW scopes \in ScopeChoices, ChangeObject(e, scopes)
    PROVE  TenancyInv'
<1> DEFINE p == request[e].principal
<1> DEFINE id == request[e].id
<1>1. request[e] # NoRequest  BY NobodyAsks DEF ChangeObject
<1>2. Member(p.user, p.org) /\ p.user \in Users /\ p.org \in Orgs
    BY <1>1, PrincipalShape DEF TenancyInv
<1>3. TxnTypeOK'  BY TxnType DEF ChangeObject, TenancyInv
<1>4. /\ request' \in [Sessions -> Request]
      /\ \A f \in Sessions : request'[f] = IF f = e THEN NoRequest ELSE request[f]
    BY Served, NobodyAsks DEF TenancyInv, ChangeObject
<1>5. UNCHANGED role  BY DEF ChangeObject
<1>6. /\ trail' = [trail EXCEPT ![p.org] = p.user]
    BY DEF ChangeObject, Audit
<1>7. /\ \A o \in Orgs : trail'[o] \in Users \cup {None}
      /\ trail' = [o \in Orgs |-> trail'[o]]
    <2>1. trail \in [Orgs -> Users \cup {None}]  BY DEF TenancyInv, TenancyTypeOK
    <2>2. trail' \in [Orgs -> Users \cup {None}]
        <3> HIDE DEF p
        <3> QED  BY <1>2, <1>6, <2>1
    <2> QED  BY <2>2
<1>8. \A i \in Objects : object'[i] \in Row \cup {NoObject}
    BY ChangedRow DEF TenancyInv, TenancyTypeOK
<1>9. object' \in [Objects -> Row \cup {NoObject}]
    <2>1. \E x : object' = [object EXCEPT ![id] = x]  BY DEF ChangeObject
    <2> HIDE DEF id
    <2> QED  BY <1>8, <2>1 DEF TenancyInv, TenancyTypeOK
<1>10. \A i \in Objects : object'[i] # NoObject => Member(object'[i].user, object'[i].org)
    <2>1. ASSUME NEW i \in Objects, i # id, object'[i] # NoObject
          PROVE  Member(object'[i].user, object'[i].org)
        BY <2>1, ChangedRow DEF TenancyInv
    <2>2. ASSUME object'[id] # NoObject  PROVE Member(object'[id].user, object'[id].org)
        <3>1. CASE request[e].route.from = "absent"
            BY <1>2, <2>2, <3>1, ChangedRow
        <3>2. CASE request[e].route.from # "absent"
            BY <2>2, <3>2, ChangedRow DEF TenancyInv
        <3> QED  BY <3>1, <3>2
    <2> HIDE DEF id
    <2> QED  BY <2>1, <2>2
<1>11. \A i \in Objects : object'[i] # NoObject => Member(object[i].user, object[i].org)'
    BY <1>5, <1>10 DEF Member
<1>12. \A f \in Sessions : request'[f] # NoRequest =>
           /\ Member(request[f].principal.user, request[f].principal.org)'
           /\ request'[f].step = "user" => OrgOf[request'[f].user] = request'[f].principal.org
    BY <1>4, <1>5 DEF TenancyInv, Member
<1>13. TenancyTypeOK'  BY <1>4, <1>5, <1>7, <1>9 DEF TenancyInv, TenancyTypeOK
<1> QED  BY <1>3, <1>7, <1>11, <1>12, <1>13 DEF TenancyInv

LEMMA ChangedUserTypes ==
    ASSUME TenancyInv, NEW e \in Sessions, ChangeUser(e)
    PROVE  TenancyInv'
<1> DEFINE p == request[e].principal
<1> DEFINE u == request[e].user
<1> DEFINE r == request[e].role
<1>1. request[e] # NoRequest  BY NobodyAsks DEF ChangeUser
<1>2. p.user \in Users /\ p.org \in Orgs /\ u \in Users /\ r \in ROLES
    BY <1>1, PrincipalShape, RequestShape DEF TenancyInv, ChangeUser
<1>3. TxnTypeOK'  BY TxnType DEF ChangeUser, TenancyInv
<1>4. /\ request' \in [Sessions -> Request]
      /\ \A f \in Sessions : request'[f] = IF f = e THEN NoRequest ELSE request[f]
    BY Served, NobodyAsks DEF TenancyInv, ChangeUser
<1>5. /\ role' = [role EXCEPT ![u] = r] /\ UNCHANGED object
      /\ trail' = [trail EXCEPT ![p.org] = p.user]
    BY DEF ChangeUser, Audit
<1> HIDE DEF p, u, r
<1>6. role' \in [Users -> ROLES \cup {None}]
    BY <1>2, <1>5 DEF TenancyInv, TenancyTypeOK
<1>7. /\ \A o \in Orgs : trail'[o] \in Users \cup {None}
      /\ trail' = [o \in Orgs |-> trail'[o]]
    <2>1. trail \in [Orgs -> Users \cup {None}]  BY DEF TenancyInv, TenancyTypeOK
    <2>2. trail' \in [Orgs -> Users \cup {None}]  BY <1>2, <1>5, <2>1
    <2> QED  BY <2>2
<1>8. ASSUME NEW v, NEW o, Member(v, o)  PROVE Member(v, o)'
    BY <1>2, <1>5, <1>8 DEF Member, TenancyInv, TenancyTypeOK
<1>9. \A i \in Objects : object'[i] # NoObject => Member(object[i].user, object[i].org)'
    BY <1>5, <1>8 DEF TenancyInv
<1>10. \A f \in Sessions : request'[f] # NoRequest =>
           /\ Member(request[f].principal.user, request[f].principal.org)'
           /\ request'[f].step = "user" => OrgOf[request'[f].user] = request'[f].principal.org
    BY <1>4, <1>8 DEF TenancyInv
<1>11. TenancyTypeOK'  BY <1>4, <1>5, <1>6, <1>7 DEF TenancyInv, TenancyTypeOK
<1> QED  BY <1>3, <1>7, <1>9, <1>10, <1>11 DEF TenancyInv

LEMMA TenancyTypes ==
    ASSUME TenancyInv, [TenancyNext]_<<tenancyVars, txnVars>>
    PROVE  TenancyInv'
<1>1. CASE UNCHANGED <<tenancyVars, txnVars>>
    BY <1>1 DEF tenancyVars, txnVars, TenancyInv, TenancyTypeOK, TxnTypeOK, Member
<1>2. ASSUME NEW e \in Sessions, NEW u \in Users, AuthenticateSession(e, u)  PROVE TenancyInv'
    <2> DEFINE p == PrincipalOf(u, {})
    <2>1. p \in Principal /\ Member(p.user, p.org)
        BY <1>2, PrincipalType DEF AuthenticateSession
    <2>2. /\ Serve(e, [step |-> "authenticated", principal |-> p])
          /\ UNCHANGED <<role, object, trail, txnVars>>
        BY <1>2 DEF AuthenticateSession
    <2>3. TxnTypeOK'  BY <2>2 DEF TenancyInv, TxnTypeOK, txnVars
    <2> DEFINE r == [step |-> "authenticated", principal |-> p]
    <2> HIDE DEF p
    <2>4. r \in Request /\ r.step = "authenticated" /\ r.principal = p
        BY <2>1, AuthenticatedRequest
    <2>5. Serve(e, r)  BY <2>2
    <2> HIDE DEF r
    <2> QED  BY <2>1, <2>2, <2>3, <2>4, <2>5, TenancyKept
<1>3. ASSUME NEW e \in Sessions, NEW i \in Objects, AuthenticateToken(e, i)  PROVE TenancyInv'
    <2> DEFINE p == PrincipalOf(object[i].user, object[i].scopes)
    <2>1. object[i] \in Row /\ object[i] # NoObject
        BY <1>3, RowIsThere DEF AuthenticateToken, TenancyInv, TenancyTypeOK, NoObject
    <2>2. /\ object[i].user \in Users /\ object[i].scopes \in ScopeChoices
          /\ role[object[i].user] \in ROLES
        BY <2>1, RowIsThere DEF TenancyInv, Member
    <2>3. p \in Principal /\ Member(p.user, p.org)
        <3>1. p \in Principal
            BY <2>2, OrgOfAssumption DEF PrincipalOf, Principal
        <3>2. p.user = object[i].user /\ p.org = OrgOf[object[i].user]
            BY DEF PrincipalOf
        <3> QED  BY <2>2, <3>1, <3>2 DEF Member
    <2>4. /\ Serve(e, [step |-> "authenticated", principal |-> p])
          /\ UNCHANGED <<role, object, trail>> /\ Commit(e)
        BY <1>3 DEF AuthenticateToken
    <2>5. TxnTypeOK'  BY <2>4, TxnType DEF TenancyInv
    <2> DEFINE r == [step |-> "authenticated", principal |-> p]
    <2> HIDE DEF p
    <2>6. r \in Request /\ r.step = "authenticated" /\ r.principal = p
        BY <2>3, AuthenticatedRequest
    <2>7. Serve(e, r)  BY <2>4
    <2> HIDE DEF r
    <2> QED  BY <2>3, <2>4, <2>5, <2>6, <2>7, TenancyKept
<1>4. ASSUME NEW e \in Sessions, NEW route \in Routes, NEW i \in Objects, LoadObject(e, route, i)
      PROVE  TenancyInv'
    <2> DEFINE r == [step |-> "route", principal |-> request[e].principal,
                     route |-> route, id |-> i]
    <2>1. r \in Request /\ Serve(e, r) /\ r.step = "route" /\ Member(r.principal.user, r.principal.org)
        BY <1>4, LoadedRequest
    <2>2. UNCHANGED <<role, object, trail>> /\ Read(e)  BY <1>4 DEF LoadObject
    <2>3. TxnTypeOK'  BY <2>2, TxnType DEF TenancyInv
    <2> HIDE DEF r
    <2> QED  BY <2>1, <2>2, <2>3, TenancyKept
<1>5. ASSUME NEW e \in Sessions, NEW u \in Users, NEW x \in Grantable,
             LoadNewUser(e, u, x) \/ LoadUser(e, u, x)
      PROVE  TenancyInv'
    <2>1. PICK name \in {"user.created", "user.role_changed"} :
              Serve(e, [step |-> "user", principal |-> request[e].principal, name |-> name,
                        user |-> u, role |-> x])
        BY <1>5 DEF LoadNewUser, LoadUser
    <2>2. /\ request[e].step = "authenticated" /\ OrgOf[u] = request[e].principal.org
          /\ UNCHANGED <<role, object, trail>> /\ Read(e)
        BY <1>5 DEF LoadNewUser, LoadUser
    <2>3. x \in ROLES  BY RolesAssumption
    <2> DEFINE r == [step |-> "user", principal |-> request[e].principal, name |-> name,
                     user |-> u, role |-> x]
    <2>4. /\ r \in Request /\ Member(r.principal.user, r.principal.org)
          /\ OrgOf[r.user] = r.principal.org
        BY <2>2, <2>3, UserRequest
    <2>5. TxnTypeOK' /\ Serve(e, r)  BY <2>1, <2>2, TxnType DEF TenancyInv
    <2> HIDE DEF r
    <2> QED  BY <2>2, <2>4, <2>5, TenancyKept
<1>6. ASSUME NEW e \in Sessions, Refuse(e)  PROVE TenancyInv'
    <2>1. UNCHANGED <<role, object, trail>> /\ Rollback(e) /\ Serve(e, NoRequest)
        BY <1>6 DEF Refuse
    <2>2. TxnTypeOK'  BY <2>1, TxnType DEF TenancyInv
    <2> QED  BY <2>1, <2>2, NobodyAsks, TenancyKept
<1> QED  BY <1>1, <1>2, <1>3, <1>4, <1>5, <1>6, ChangedTypes, ChangedUserTypes DEF TenancyNext

\* The accounts, rows and requests have the types that TenancyTypeOK gives them.
THEOREM TenancyTypeCorrect == TenancySpec => []TenancyTypeOK
<1>1. TxnInit /\ TenancyInit => TenancyInv  BY TenancyStarts
<1>2. TenancyInv /\ [TenancyNext]_<<tenancyVars, txnVars>> => TenancyInv'  BY TenancyTypes
<1>3. TenancyInv => TenancyTypeOK  BY DEF TenancyInv
<1> QED  BY <1>1, <1>2, <1>3, PTL DEF TenancySpec

-----------------------------------------------------------------------------
(***************************************************************************)
(* Tenancy: changes and the trail, on SQLite.                              *)
(***************************************************************************)
LEMMA LoadedStep ==
    ASSUME SQLite, TenancyInv, LoadedInv, [TenancyNext]_<<tenancyVars, txnVars>>
    PROVE  LoadedInv'
<1>1. CASE UNCHANGED <<tenancyVars, txnVars>>
    BY <1>1 DEF tenancyVars, txnVars, LoadedInv
<1>2. ASSUME NEW e \in Sessions, NEW r \in Request, Serve(e, r), UNCHANGED object,
             r.step # "route",
             Read(e) \/ Rollback(e) \/ UNCHANGED txnVars
      PROVE  LoadedInv'
    <2>1. \A f \in Sessions : request'[f] = IF f = e THEN r ELSE request[f]
        BY <1>2, Served DEF TenancyInv
    <2>2. \A f \in Sessions : f # e => snap'[f] = snap[f]
        BY <1>2, SnapshotOfOthers DEF TenancyInv, txnVars
    <2> QED  BY <1>2, <2>1, <2>2 DEF LoadedInv
<1>3. ASSUME NEW e \in Sessions, NEW r \in Request, Serve(e, r), r.step # "route", Commit(e)
      PROVE  LoadedInv'
    <2>1. \A f \in Sessions : request'[f] = IF f = e THEN r ELSE request[f]
        BY <1>3, Served DEF TenancyInv
    <2> QED  BY <1>3, <2>1, NobodyCurrent DEF LoadedInv
<1>4. ASSUME NEW e \in Sessions, NEW u \in Users, AuthenticateSession(e, u)  PROVE LoadedInv'
    <2>1. PrincipalOf(u, {}) \in Principal
        BY <1>4, PrincipalType DEF AuthenticateSession
    <2> DEFINE r == [step |-> "authenticated", principal |-> PrincipalOf(u, {})]
    <2>2. r \in Request /\ r.step = "authenticated"  BY <2>1, AuthenticatedRequest
    <2>3. Serve(e, r) /\ UNCHANGED object /\ UNCHANGED txnVars  BY <1>4 DEF AuthenticateSession
    <2> HIDE DEF r
    <2> QED  BY <1>2, <2>2, <2>3
<1>5. ASSUME NEW e \in Sessions, NEW i \in Objects, AuthenticateToken(e, i)  PROVE LoadedInv'
    <2> DEFINE p == PrincipalOf(object[i].user, object[i].scopes)
    <2>1. object[i] \in Row /\ object[i] # NoObject
        BY <1>5, RowIsThere DEF AuthenticateToken, TenancyInv, TenancyTypeOK, NoObject
    <2>2. /\ object[i].user \in Users /\ object[i].scopes \in ScopeChoices
          /\ role[object[i].user] \in ROLES
        BY <2>1, RowIsThere DEF TenancyInv, Member
    <2>3. p \in Principal
        BY <2>2, OrgOfAssumption DEF PrincipalOf, Principal
    <2> DEFINE r == [step |-> "authenticated", principal |-> p]
    <2>4. Serve(e, r) /\ Commit(e)  BY <1>5 DEF AuthenticateToken
    <2> HIDE DEF p
    <2>5. r \in Request /\ r.step = "authenticated"  BY <2>3, AuthenticatedRequest
    <2> HIDE DEF r
    <2> QED  BY <1>3, <2>4, <2>5
<1>6. ASSUME NEW e \in Sessions, NEW route \in Routes, NEW i \in Objects, LoadObject(e, route, i)
      PROVE  LoadedInv'
    <2> DEFINE r == [step |-> "route", principal |-> request[e].principal,
                     route |-> route, id |-> i]
    <2>1. /\ r \in Request /\ Serve(e, r) /\ r.step = "route" /\ r.id = i
          /\ r.principal = request[e].principal /\ r.route = route
          /\ route.from # "absent" =>
               object[i] # NoObject /\ object[i].org = request[e].principal.org
        BY <1>6, LoadedRequest
    <2>2. UNCHANGED object /\ Read(e)  BY <1>6 DEF LoadObject
    <2> HIDE DEF r
    <2>3. \A f \in Sessions : request'[f] = IF f = e THEN r ELSE request[f]
        BY <2>1, Served DEF TenancyInv
    <2>4. \A f \in Sessions : f # e => snap'[f] = snap[f]
        BY <2>2, SnapshotOfOthers DEF TenancyInv
    <2>5. snap'[e] # "none"  BY <2>2, SnapshotTaken DEF TenancyInv
    <2> QED  BY <2>1, <2>2, <2>3, <2>4, <2>5 DEF LoadedInv
<1>7. ASSUME NEW e \in Sessions, NEW u \in Users, NEW x \in Grantable,
             LoadNewUser(e, u, x) \/ LoadUser(e, u, x)
      PROVE  LoadedInv'
    <2>1. PICK name \in {"user.created", "user.role_changed"} :
              Serve(e, [step |-> "user", principal |-> request[e].principal, name |-> name,
                        user |-> u, role |-> x])
        BY <1>7 DEF LoadNewUser, LoadUser
    <2>2. /\ request[e].step = "authenticated" /\ OrgOf[u] = request[e].principal.org
          /\ UNCHANGED object /\ Read(e)
        BY <1>7 DEF LoadNewUser, LoadUser
    <2>3. x \in ROLES  BY RolesAssumption
    <2> DEFINE r == [step |-> "user", principal |-> request[e].principal, name |-> name,
                     user |-> u, role |-> x]
    <2>4. r \in Request /\ r.step = "user"  BY <2>2, <2>3, UserRequest
    <2>5. Serve(e, r)  BY <2>1
    <2> HIDE DEF r
    <2> QED  BY <1>2, <2>2, <2>4, <2>5
<1>8. ASSUME NEW e \in Sessions, NEW scopes \in ScopeChoices, ChangeObject(e, scopes)
      PROVE  LoadedInv'
    BY <1>3, <1>8, NobodyAsks DEF ChangeObject
<1>9. ASSUME NEW e \in Sessions, ChangeUser(e)  PROVE LoadedInv'
    BY <1>3, <1>9, NobodyAsks DEF ChangeUser
<1>10. ASSUME NEW e \in Sessions, Refuse(e)  PROVE LoadedInv'
    BY <1>2, <1>10, NobodyAsks DEF Refuse
<1> QED  BY <1>1, <1>4, <1>5, <1>6, <1>7, <1>8, <1>9, <1>10 DEF TenancyNext

\* A step that changes rows of one organization, in the name of a member of it.
AccountedFor ==
    \A o \in OrgsTouched :
        /\ OrgsTouched = {o}
        /\ trail'[o] # None /\ OrgOf[trail'[o]] = o
        /\ \E e \in Sessions : request[e] # request'[e] /\ request[e].principal.org = o
        /\ \A other \in Orgs \ {o} : trail'[other] = trail[other]

LEMMA Accounted ==
    ASSUME TenancyInv, NEW e \in Sessions, request[e] # NoRequest, Serve(e, NoRequest),
           Audit(request[e].principal), OrgsTouched \subseteq {request[e].principal.org}
    PROVE  AccountedFor
<1> DEFINE p == request[e].principal
<1>1. p.user \in Users /\ p.org \in Orgs /\ OrgOf[p.user] = p.org
    BY PrincipalShape DEF TenancyInv, Member
<1>2. request'[e] = NoRequest  BY Served, NobodyAsks DEF TenancyInv
<1>3. \A o \in Orgs : trail'[o] = IF o = p.org THEN p.user ELSE trail[o]
    <2>1. trail' = [trail EXCEPT ![p.org] = p.user] /\ trail = [o \in Orgs |-> trail[o]]
        BY DEF Audit, TenancyInv
    <2> HIDE DEF p
    <2> QED  BY <1>1, <2>1
<1>4. ASSUME NEW o \in OrgsTouched  PROVE o = p.org /\ OrgsTouched = {o}
    OBVIOUS
<1>5. trail'[p.org] # None /\ OrgOf[trail'[p.org]] = p.org
    BY <1>1, <1>3, UsersAssumption
<1> QED  BY <1>1, <1>2, <1>3, <1>4, <1>5 DEF AccountedFor

LEMMA TouchedStep ==
    ASSUME SQLite, TenancyInv, LoadedInv, [TenancyNext]_<<tenancyVars, txnVars>>
    PROVE  AccountedFor
<1>1. ASSUME UNCHANGED <<role, object>>  PROVE AccountedFor
    BY <1>1 DEF AccountedFor, OrgsTouched
<1>2. ASSUME NEW e \in Sessions, NEW scopes \in ScopeChoices, ChangeObject(e, scopes)
      PROVE  AccountedFor
    <2> DEFINE p == request[e].principal
    <2> DEFINE i == request[e].id
    <2>1. request[e].step = "route" /\ request[e] # NoRequest /\ UNCHANGED role
        BY <1>2, NobodyAsks DEF ChangeObject
    <2>2. snap[e] = "current"
        BY <1>2, <2>1, CommitsOnCurrent DEF LoadedInv, TenancyInv, ChangeObject
    <2>3. request[e].route.from # "absent" => object[i] # NoObject /\ object[i].org = p.org
        BY <2>1, <2>2 DEF LoadedInv
    <2>4. /\ \A k \in Objects : k # i => object'[k] = object[k]
          /\ object'[i] # NoObject => object'[i].org = p.org
          /\ object[i] # NoObject => object[i].org = p.org
        BY <1>2, <2>3, ChangedRow
    <2> HIDE DEF p, i
    <2>5. OrgsTouched \subseteq {p.org}
        BY <2>1, <2>4 DEF OrgsTouched
    <2> QED  BY <1>2, <2>1, <2>5, Accounted DEF ChangeObject, p
<1>3. ASSUME NEW e \in Sessions, ChangeUser(e)  PROVE AccountedFor
    <2> DEFINE p == request[e].principal
    <2> DEFINE u == request[e].user
    <2>1. request[e].step = "user" /\ request[e] # NoRequest /\ UNCHANGED object
        BY <1>3, NobodyAsks DEF ChangeUser
    <2>2. OrgOf[u] = p.org  BY <2>1 DEF TenancyInv
    <2>3. \A v \in Users : v # u => role'[v] = role[v]
        <3> HIDE DEF u
        <3>1. role' = [role EXCEPT ![u] = request[e].role]  BY <1>3 DEF ChangeUser, u
        <3> QED  BY <3>1 DEF TenancyInv, TenancyTypeOK
    <2> HIDE DEF p, u
    <2>4. OrgsTouched \subseteq {p.org}
        BY <2>1, <2>2, <2>3 DEF OrgsTouched
    <2> QED  BY <1>3, <2>1, <2>4, Accounted DEF ChangeUser, p
<1> QED
    BY <1>1, <1>2, <1>3 DEF TenancyNext, tenancyVars, AuthenticateSession, AuthenticateToken,
       LoadObject, LoadNewUser, LoadUser, Refuse

\* On SQLite, whoever calls which route about which row: no step changes rows of
\* two organizations, and what it changes is on the trail of that one, under the
\* name of one of its members.
THEOREM TrailIsComplete == SQLite => (TenancySpec => ChangesAreAccountedFor)
<1> SUFFICES ASSUME SQLite  PROVE TenancySpec => ChangesAreAccountedFor
    OBVIOUS
<1>1. TxnInit /\ TenancyInit => TenancyInv /\ LoadedInv  BY TenancyStarts
<1>2. TenancyInv /\ LoadedInv /\ [TenancyNext]_<<tenancyVars, txnVars>>
        => TenancyInv' /\ LoadedInv'
    BY TenancyTypes, LoadedStep
<1>3. TenancyInv /\ LoadedInv /\ [TenancyNext]_<<tenancyVars, txnVars>>
        => [AccountedFor]_tenancyVars
    BY TouchedStep
<1>4. ChangesAreAccountedFor <=> [][AccountedFor]_tenancyVars
    BY DEF ChangesAreAccountedFor, AccountedFor
<1> QED  BY <1>1, <1>2, <1>3, <1>4, PTL DEF TenancySpec

-----------------------------------------------------------------------------
(***************************************************************************)
(* The audit trail: types.  Whoever has flushed a record has an id of its  *)
(* own for it; between the record of a purge and the purge itself the      *)
(* clock is read at most once more than it was.                            *)
(***************************************************************************)
Holding(e) == auditor[e].kind \in {"recorded", "purging"}

DistinctIds(rows) == \A r, q \in rows : r.id = q.id => r = q

AuditInv ==
    /\ AuditTypeOK /\ TxnTypeOK
    /\ DistinctIds(log) /\ \A r \in log : r.id < nextId /\ r.at <= clock
    /\ \A e \in Sessions :
           /\ auditor[e].kind = "recording" => auditor[e].at <= clock
           /\ Holding(e) =>
                /\ auditor[e].row.id < nextId /\ auditor[e].row.at <= clock
                /\ \A r \in log : r.id # auditor[e].row.id
           /\ auditor[e].kind = "purging" => clock <= auditor[e].row.at + 1
           /\ auditor[e].kind = "exporting" => DistinctIds(auditor[e].view)
    /\ \A e, f \in Sessions :
           Holding(e) /\ Holding(f) /\ auditor[e].row.id = auditor[f].row.id => e = f

LEMMA RecordShape ==
    ASSUME NEW r \in Record
    PROVE  r.id \in 1..MaxRecords /\ r.id \in Nat /\ r.at \in 0..MaxClock /\ r.at \in Nat
    BY RecordsAssumption DEF Record

LEMMA AuditorShape ==
    ASSUME NEW a \in Auditor
    PROVE  /\ a = Idle <=> a.kind = "idle"
           /\ a.kind = "recording" => a.at \in 0..MaxClock
           /\ a.kind = "recorded" => a.row \in Record
           /\ a.kind = "summarized" =>
                  a.retention \in Retentions /\ a.expiring \in 0..MaxRecords
           /\ a.kind = "purging" => a.retention \in Retentions /\ a.row \in Record
           /\ a.kind = "exporting" =>
                /\ a \in [kind : {"exporting"}, view : SUBSET Record,
                          out : Seq(SUBSET Record), last : 0..MaxRecords, more : BOOLEAN]
                /\ a.view \subseteq Record /\ a.out \in Seq(SUBSET Record)
                /\ a.last \in 0..MaxRecords /\ a.more \in BOOLEAN
<1>1. CASE a = Idle  BY <1>1 DEF Idle
<1>2. CASE a \in [kind : {"recording"}, at : 0..MaxClock]  BY <1>2 DEF Idle
<1>3. CASE a \in [kind : {"recorded"}, row : Record]  BY <1>3 DEF Idle
<1>4. CASE a \in [kind : {"summarized"}, retention : Retentions, expiring : 0..MaxRecords]
    BY <1>4 DEF Idle
<1>5. CASE a \in [kind : {"purging"}, retention : Retentions, row : Record]  BY <1>5 DEF Idle
<1>6. CASE a \in [kind : {"exporting"}, view : SUBSET Record, out : Seq(SUBSET Record),
                  last : 0..MaxRecords, more : BOOLEAN]
    BY <1>6 DEF Idle
<1> QED  BY <1>1, <1>2, <1>3, <1>4, <1>5, <1>6 DEF Auditor

LEMMA RowsAreFinite ==
    ASSUME NEW rows \in SUBSET Record, DistinctIds(rows)
    PROVE  IsFiniteSet(rows) /\ Cardinality(rows) \in 0..MaxRecords
<1> DEFINE f == [r \in rows |-> r.id]
<1>1. f \in Injection(rows, 1..MaxRecords)
    BY RecordShape DEF Injection, IsInjective, DistinctIds
<1>2. IsFiniteSet(1..MaxRecords) /\ Cardinality(1..MaxRecords) = MaxRecords
    <2>1. 1 \in Int /\ MaxRecords \in Int  BY RecordsAssumption
    <2>2. /\ IsFiniteSet(1..MaxRecords)
          /\ Cardinality(1..MaxRecords) = IF 1 > MaxRecords THEN 0 ELSE MaxRecords - 1 + 1
        BY <2>1, FS_Interval
    <2> QED  BY <2>2, RecordsAssumption
<1> HIDE DEF f
<1>3. IsFiniteSet(rows) /\ Cardinality(rows) <= MaxRecords
    BY <1>1, <1>2, FS_Injection
<1> QED  BY <1>3, FS_CardinalityType, RecordsAssumption

\* A page has the rows after the last one, up to the last of its own; and if it
\* is not full there are no others.
LEMMA NextPage ==
    ASSUME NEW view \in SUBSET Record, DistinctIds(view), NEW last \in 0..MaxRecords
    PROVE  LET page == PageAfter(view, last)
               end == LastOf(page)
           IN  /\ page \in SUBSET view /\ \A r \in page : last < r.id
               /\ page # {} =>
                    /\ end \in 0..MaxRecords /\ last < end
                    /\ \A r \in page : r.id <= end
                    /\ \A r \in view : last < r.id /\ r.id <= end => r \in page
               /\ Cardinality(page) # Chunk => \A r \in view : last < r.id => r \in page
<1> DEFINE upto(r) == {q \in view : last < q.id /\ q.id <= r.id}
           page == PageAfter(view, last)
           end == LastOf(page)
<1>1. IsFiniteSet(view)  BY RowsAreFinite
<1>2. \A r \in view : r.id \in Nat /\ r.id \in 0..MaxRecords  BY RecordShape, RecordsAssumption
<1>3. last \in Nat  BY RecordsAssumption
<1>4. page = {r \in view : last < r.id /\ Cardinality(upto(r)) <= Chunk}
    <2>1. \A r \in view : r.id > last <=> last < r.id  BY <1>2, <1>3
    <2> QED  BY <2>1 DEF PageAfter
<1>5. \A r : upto(r) \in SUBSET view  OBVIOUS
<1>6. ASSUME NEW r  PROVE IsFiniteSet(upto(r)) /\ Cardinality(upto(r)) \in Nat
    <2>1. upto(r) \in SUBSET view  OBVIOUS
    <2> HIDE DEF upto
    <2> QED  BY <1>1, <2>1, FS_Subset, FS_CardinalityType
<1>7. page \in SUBSET view  BY <1>4
<1> HIDE DEF page
<1>8. IsFiniteSet(page) /\ Cardinality(page) \in Nat
    BY <1>1, <1>7, FS_Subset, FS_CardinalityType
<1>9. ASSUME page # {}
      PROVE  \E m \in page : end = m.id /\ \A q \in page : q.id <= m.id
    <2> DEFINE ids == {q.id : q \in page}
               f == [q \in page |-> q.id]
    <2>1. f \in Surjection(page, ids)  BY DEF Surjection
    <2>2. IsFiniteSet(ids)
        <3> HIDE DEF f, ids
        <3> QED  BY <1>8, <2>1, FS_Surjection
    <2>3. ids \in SUBSET Nat /\ ids # {}  BY <1>2, <1>7, <1>9
    <2>4. PICK n \in ids : \A k \in ids : k <= n
        <3> HIDE DEF ids
        <3> QED  BY <2>2, <2>3, GreatestOf
    <2>5. \E m \in page : \A q \in page : q.id <= m.id  BY <2>4
    <2> QED  BY <2>5 DEF LastOf
<1>10. ASSUME NEW m \in page, NEW r \in view, last < r.id, r.id <= m.id  PROVE r \in page
    <2>1. upto(r) \in SUBSET upto(m)  BY <1>2, <1>7, <1>10
    <2>2. Cardinality(upto(r)) <= Cardinality(upto(m))
        <3> HIDE DEF upto
        <3> QED  BY <1>6, <2>1, FS_Subset
    <2>3. Cardinality(upto(m)) <= Chunk  BY <1>4
    <2>4. Cardinality(upto(r)) \in Nat /\ Cardinality(upto(m)) \in Nat  BY <1>6
    <2> HIDE DEF upto
    <2> QED  BY <1>4, <1>10, <2>2, <2>3, <2>4, ChunkAssumption
<1>11. ASSUME NEW x \in view, last < x.id, x \notin page  PROVE Cardinality(page) = Chunk
    <2> DEFINE rest == {r \in view : last < r.id /\ r \notin page}
               ids == {r.id : r \in rest}
    <2>1. ids \in SUBSET Nat /\ ids # {}  BY <1>2, <1>11
    <2>2. PICK n \in ids : \A k \in ids : n <= k
        <3> HIDE DEF ids
        <3> QED  BY <2>1, LeastOf
    <2>3. PICK y \in rest : \A r \in rest : y.id <= r.id  BY <2>2
    <2>4. upto(y) \in SUBSET (page \cup {y})
        <3> SUFFICES ASSUME NEW q \in upto(y), q # y  PROVE q \in page
            OBVIOUS
        <3>1. q.id # y.id  BY DEF DistinctIds
        <3>2. ~ (y.id <= q.id)  BY <1>2, <3>1
        <3> QED  BY <2>3, <3>2
    <2>5. IsFiniteSet(page \cup {y}) /\ Cardinality(page \cup {y}) = Cardinality(page) + 1
        BY <1>8, FS_AddElement
    <2>6. Cardinality(upto(y)) <= Cardinality(page \cup {y})
        <3> HIDE DEF upto
        <3> QED  BY <2>4, <2>5, FS_Subset
    <2>7. ~ (Cardinality(upto(y)) <= Chunk)  BY <1>4
    <2>8. Cardinality(upto(y)) \in Nat  BY <1>6
    <2> HIDE DEF upto
    <2>9. Cardinality(page) >= Chunk  BY <1>8, <2>5, <2>6, <2>7, <2>8, ChunkAssumption
    <2>10. page # {}  BY <2>9, FS_EmptySet, ChunkAssumption
    <2>11. PICK m \in page : \A q \in page : q.id <= m.id  BY <1>9, <2>10
    <2>12. page \in SUBSET upto(m) /\ Cardinality(upto(m)) <= Chunk
        BY <1>4, <2>11 DEF upto
    <2>13. Cardinality(page) <= Cardinality(upto(m))  BY <1>6, <2>12, FS_Subset
    <2>14. Cardinality(upto(m)) \in Nat  BY <1>6
    <2> QED  BY <1>8, <2>9, <2>12, <2>13, <2>14, ChunkAssumption
<1>12. \A r \in page : last < r.id  BY <1>4
<1>13. ASSUME page # {}
       PROVE  /\ end \in 0..MaxRecords /\ last < end
              /\ \A r \in page : r.id <= end
              /\ \A r \in view : last < r.id /\ r.id <= end => r \in page
    BY <1>2, <1>7, <1>9, <1>10, <1>12, <1>13
<1>14. Cardinality(page) # Chunk => \A r \in view : last < r.id => r \in page
    BY <1>11
<1> QED  BY <1>7, <1>12, <1>13, <1>14 DEF page

\* What a session does to the work of the others: nothing.
LEMMA AuditOfOthers ==
    ASSUME AuditInv, NEW e \in Sessions, NEW a, Audits(e, a)
    PROVE  \A f \in Sessions : auditor'[f] = IF f = e THEN a ELSE auditor[f]
BY DEF Audits, AuditInv, AuditTypeOK

LEMMA AuditShape ==
    ASSUME AuditInv, NEW e \in Sessions
    PROVE  /\ auditor[e] \in Auditor
           /\ nextId \in Nat /\ nextId \in 1..(MaxRecords + 1) /\ clock \in Nat /\ clock \in 0..MaxClock
           /\ log \in SUBSET Record
           /\ Holding(e) => auditor[e].row \in Record
BY AuditorShape, RecordsAssumption DEF AuditInv, AuditTypeOK, Holding

\* A step of one session: it keeps the invariant if what it takes up is of the
\* right kind, and what it adds to the log is new or its own.
LEMMA AuditMove ==
    ASSUME AuditInv, NEW e \in Sessions, NEW a \in Auditor, Audits(e, a),
           UNCHANGED clock, TxnTypeOK', NEW more \in {0, 1}, nextId' = nextId + more,
           nextId' \in 1..(MaxRecords + 1),
           log' \in SUBSET Record, DistinctIds(log'),
           \A r \in log' : r \in log \/ (r.id = nextId /\ more = 1 /\ r.at = clock)
                                     \/ (Holding(e) /\ r = auditor[e].row),
           a.kind = "recording" => a.at = clock,
           a.kind \in {"recorded", "purging"} =>
               a.row.id = nextId /\ more = 1 /\ a.row.at <= clock /\ log' = log,
           a.kind = "purging" => a.row.at = clock,
           a.kind = "exporting" => DistinctIds(a.view)
    PROVE  AuditInv'
<1>1. \A f \in Sessions : auditor'[f] = IF f = e THEN a ELSE auditor[f]
    BY AuditOfOthers
<1>2. /\ nextId \in Nat /\ clock \in Nat /\ clock \in 0..MaxClock /\ log \in SUBSET Record
      /\ \A f \in Sessions : auditor[f] \in Auditor /\ (Holding(f) => auditor[f].row \in Record)
    BY AuditShape
<1>3. AuditTypeOK'
    <2>1. auditor' \in [Sessions -> Auditor]  BY DEF Audits, AuditInv, AuditTypeOK
    <2> QED  BY <1>2, <2>1 DEF AuditTypeOK
<1>4. \A r \in log : r.id < nextId /\ r.at <= clock /\ r.id \in Nat /\ r.at \in Nat
    BY <1>2, RecordShape DEF AuditInv
<1>5. ASSUME NEW f \in Sessions, Holding(f)
      PROVE  /\ auditor[f].row.id < nextId /\ auditor[f].row.at <= clock
             /\ auditor[f].row.id \in Nat /\ auditor[f].row.at \in Nat
             /\ \A r \in log : r.id # auditor[f].row.id
    BY <1>2, <1>5, RecordShape DEF AuditInv
<1>6. \A r \in log' : r.id < nextId' /\ r.at <= clock'
    BY <1>2, <1>4, <1>5
<1>7. ASSUME NEW f \in Sessions, Holding(f)'
      PROVE  /\ auditor'[f].row.id < nextId' /\ auditor'[f].row.at <= clock'
             /\ \A r \in log' : r.id # auditor'[f].row.id
    <2>1. CASE f = e
        <3>1. a.kind \in {"recorded", "purging"} /\ auditor'[f] = a
            BY <1>1, <1>7, <2>1 DEF Holding
        <3> QED  BY <1>2, <1>4, <3>1
    <2>2. CASE f # e
        <3>1. Holding(f) /\ auditor'[f] = auditor[f]
            BY <1>1, <1>7, <2>2 DEF Holding
        <3>2. Holding(e) => auditor[e].row.id # auditor[f].row.id
            BY <2>2, <3>1 DEF AuditInv
        <3>3. \A r \in log' : r.id # auditor[f].row.id
            BY <1>2, <1>5, <3>1, <3>2
        <3> QED  BY <1>2, <1>5, <3>1, <3>3
    <2> QED  BY <2>1, <2>2
<1>8. ASSUME NEW f \in Sessions
      PROVE  /\ auditor'[f].kind = "recording" => auditor'[f].at <= clock'
             /\ auditor'[f].kind = "purging" => clock' <= auditor'[f].row.at + 1
             /\ auditor'[f].kind = "exporting" => DistinctIds(auditor'[f].view)
    <2>1. CASE f = e  BY <1>1, <1>2, <2>1
    <2>2. CASE f # e  BY <1>1, <2>2 DEF AuditInv
    <2> QED  BY <2>1, <2>2
<1>9. ASSUME NEW f \in Sessions, NEW g \in Sessions, Holding(f)', Holding(g)',
             auditor'[f].row.id = auditor'[g].row.id, f # g
      PROVE  FALSE
    <2>1. CASE f # e /\ g # e
        <3>1. Holding(f) /\ Holding(g) /\ auditor[f].row.id = auditor[g].row.id
            BY <1>1, <1>9, <2>1 DEF Holding
        <3> QED  BY <1>9, <3>1 DEF AuditInv
    <2>2. ASSUME NEW h \in Sessions, NEW k \in Sessions, h = e, k # e, Holding(h)', Holding(k)',
                 auditor'[h].row.id = auditor'[k].row.id
          PROVE  FALSE
        <3>1. auditor'[h] = a /\ auditor'[k] = auditor[k]  BY <1>1, <2>2
        <3>2. Holding(k) /\ a.kind \in {"recorded", "purging"}  BY <2>2, <3>1 DEF Holding
        <3>3. a.row.id = nextId /\ auditor[k].row.id < nextId  BY <1>5, <3>2
        <3> QED  BY <1>2, <2>2, <3>1, <3>3
    <2> QED  BY <1>9, <2>1, <2>2
<1> QED
    BY <1>3, <1>6, <1>7, <1>8, <1>9 DEF AuditInv

LEMMA AuditStep ==
    ASSUME AuditInv, [AuditNext]_<<auditVars, txnVars>>
    PROVE  AuditInv'
<1>t. ASSUME NEW e \in Sessions, Read(e) \/ Flush(e) \/ Commit(e) \/ Rollback(e)
      PROVE  TxnTypeOK'
    BY <1>t, TxnType DEF AuditInv
<1>i. Idle \in Auditor /\ Idle.kind = "idle"  BY DEF Auditor, Idle
<1>s. nextId \in Nat /\ nextId \in 1..(MaxRecords + 1) /\ clock \in Nat /\ clock \in 0..MaxClock
      /\ log \in SUBSET Record /\ DistinctIds(log)
    BY RecordsAssumption DEF AuditInv, AuditTypeOK
<1>0. nextId + 0 = nextId  BY <1>s
<1>1. CASE UNCHANGED <<auditVars, txnVars>>
    BY <1>1 DEF auditVars, txnVars, AuditInv, AuditTypeOK, TxnTypeOK, Holding
<1>2. CASE ClockTicks
    <2>1. /\ clock' = clock + 1 /\ clock' \in 0..MaxClock
          /\ UNCHANGED <<log, nextId, auditor, snap, writer>>
          /\ \A e \in Sessions : auditor[e].kind = "purging" => auditor[e].row.at = clock
        BY <1>s, <1>2, RecordsAssumption DEF ClockTicks, txnVars
    <2>2. AuditTypeOK' /\ TxnTypeOK'  BY <2>1 DEF AuditInv, AuditTypeOK, TxnTypeOK
    <2>3. \A r \in log : r.at \in Nat  BY <1>s, RecordShape
    <2>4. \A r \in log : r.at <= clock  BY DEF AuditInv
    <2>5. \A r \in log : r.at <= clock'  BY <1>s, <2>1, <2>3, <2>4
    <2>6. ASSUME NEW e \in Sessions
          PROVE  /\ auditor[e].kind = "recording" => auditor[e].at <= clock'
                 /\ Holding(e) => auditor[e].row.at <= clock'
                 /\ auditor[e].kind = "purging" => clock' <= auditor[e].row.at + 1
        <3>1. Holding(e) => auditor[e].row.at \in Nat  BY AuditShape, RecordShape
        <3>2. auditor[e].kind = "recording" => auditor[e].at \in Nat
            BY AuditShape, AuditorShape, RecordsAssumption
        <3>3. /\ auditor[e].kind = "recording" => auditor[e].at <= clock
              /\ Holding(e) => auditor[e].row.at <= clock
            BY DEF AuditInv
        <3> QED  BY <1>s, <2>1, <3>1, <3>2, <3>3
    <2> QED  BY <2>1, <2>2, <2>5, <2>6 DEF AuditInv, Holding
<1>3. ASSUME NEW e \in Sessions, RecordNow(e)  PROVE AuditInv'
    <2> DEFINE a == [kind |-> "recording", at |-> clock]
    <2>1. a \in Auditor  BY <1>s DEF Auditor
    <2>2. a.kind = "recording" /\ a.at = clock  OBVIOUS
    <2>3. Audits(e, a) /\ Read(e) /\ UNCHANGED <<log, nextId, clock>>  BY <1>3 DEF RecordNow
    <2> HIDE DEF a
    <2> QED  BY <1>t, <1>s, <1>0, <2>1, <2>2, <2>3, AuditMove
<1>4. ASSUME NEW e \in Sessions, FlushRecord(e)  PROVE AuditInv'
    <2> DEFINE a == [kind |-> "recorded",
                     row |-> [id |-> nextId, at |-> auditor[e].at, removed |-> 0]]
    <2>1. auditor[e].kind = "recording" /\ nextId <= MaxRecords  BY <1>4 DEF FlushRecord
    <2>2. auditor[e].at \in 0..MaxClock /\ auditor[e].at <= clock
        BY <2>1, AuditShape, AuditorShape DEF AuditInv
    <2>3. a \in Auditor  BY <1>s, <2>1, <2>2, RecordsAssumption DEF Auditor, Record
    <2>4. a.kind = "recorded" /\ a.row.id = nextId /\ a.row.at <= clock  BY <2>2
    <2>5. /\ Audits(e, a) /\ Flush(e) /\ UNCHANGED <<log, clock>>
          /\ nextId' = nextId + 1 /\ nextId' \in 1..(MaxRecords + 1)
        BY <1>s, <1>4, <2>1, RecordsAssumption DEF FlushRecord
    <2> HIDE DEF a
    <2> QED  BY <1>t, <1>s, <2>3, <2>4, <2>5, AuditMove
<1>5. ASSUME NEW e \in Sessions, CommitRecord(e)  PROVE AuditInv'
    <2>1. Holding(e)  BY <1>5 DEF CommitRecord, Holding
    <2>2. auditor[e].row \in Record /\ \A r \in log : r.id # auditor[e].row.id
        BY <2>1, AuditShape DEF AuditInv
    <2>3. log' = log \cup {auditor[e].row} /\ UNCHANGED <<nextId, clock>> /\ Commit(e) /\ Audits(e, Idle)
        BY <1>5 DEF CommitRecord
    <2>4. log' \in SUBSET Record /\ DistinctIds(log')  BY <1>s, <2>2, <2>3 DEF DistinctIds
    <2> QED  BY <1>t, <1>i, <1>s, <1>0, <2>1, <2>3, <2>4, AuditMove
<1>6. ASSUME NEW e \in Sessions, StartExport(e)  PROVE AuditInv'
    <2> DEFINE a == [kind |-> "exporting", view |-> log, out |-> <<>>, last |-> 0, more |-> TRUE]
    <2>1. a \in Auditor
        <3>1. <<>> \in Seq(SUBSET Record) /\ 0 \in 0..MaxRecords  BY RecordsAssumption
        <3> QED  BY <1>s, <3>1 DEF Auditor
    <2>2. a.kind = "exporting" /\ a.view = log  OBVIOUS
    <2>3. Audits(e, a) /\ Read(e) /\ UNCHANGED <<log, nextId, clock>>  BY <1>6 DEF StartExport
    <2> HIDE DEF a
    <2> QED  BY <1>t, <1>s, <1>0, <2>1, <2>2, <2>3, AuditMove
<1>7. ASSUME NEW e \in Sessions, ExportChunk(e)  PROVE AuditInv'
    <2> DEFINE source == IF SQLite THEN auditor[e].view ELSE log
               page == PageAfter(source, auditor[e].last)
               last == IF page = {} THEN auditor[e].last ELSE LastOf(page)
               a == [auditor[e] EXCEPT !.out = Append(@, page), !.last = last,
                                       !.more = Cardinality(page) = Chunk]
    <2>1. auditor[e].kind = "exporting"  BY <1>7 DEF ExportChunk
    <2>2. /\ auditor[e] \in [kind : {"exporting"}, view : SUBSET Record,
                             out : Seq(SUBSET Record), last : 0..MaxRecords, more : BOOLEAN]
          /\ DistinctIds(auditor[e].view)
        BY <2>1, AuditShape, AuditorShape DEF AuditInv
    <2>3. source \in SUBSET Record /\ DistinctIds(source) /\ auditor[e].last \in 0..MaxRecords
        BY <1>s, <2>2
    <2> HIDE DEF source
    <2>4. page \in SUBSET Record /\ last \in 0..MaxRecords
        BY <2>3, NextPage
    <2>5. Audits(e, a) /\ Read(e) /\ UNCHANGED <<log, nextId, clock>>
        BY <1>7 DEF ExportChunk, source
    <2> HIDE DEF page, last
    <2>6. Append(auditor[e].out, page) \in Seq(SUBSET Record)  BY <2>2, <2>4
    <2>7. a \in [kind : {"exporting"}, view : SUBSET Record,
                 out : Seq(SUBSET Record), last : 0..MaxRecords, more : BOOLEAN]
          /\ a.kind = "exporting" /\ a.view = auditor[e].view
        BY <2>2, <2>4, <2>6
    <2> HIDE DEF a
    <2>8. a \in Auditor  BY <2>7 DEF Auditor
    <2> QED  BY <1>t, <1>s, <1>0, <2>2, <2>5, <2>7, <2>8, AuditMove
<1>8. ASSUME NEW e \in Sessions, DeliverExport(e)  PROVE AuditInv'
    <2> DEFINE r == [id |-> nextId, at |-> clock, removed |-> 0]
    <2>1. /\ log' = log \cup {r} /\ nextId' = nextId + 1 /\ nextId <= MaxRecords
          /\ Commit(e) /\ Audits(e, Idle) /\ UNCHANGED clock
        BY <1>8 DEF DeliverExport
    <2>2. r \in Record  BY <1>s, <2>1, RecordsAssumption DEF Record
    <2>3. r.id = nextId /\ r.at = clock  OBVIOUS
    <2>4. \A q \in log : q.id # r.id
        <3>1. \A q \in log : q.id < nextId /\ q.id \in Nat  BY <1>s, RecordShape DEF AuditInv
        <3> QED  BY <1>s, <3>1
    <2> HIDE DEF r
    <2>5. log' \in SUBSET Record /\ DistinctIds(log')  BY <1>s, <2>1, <2>2, <2>4 DEF DistinctIds
    <2>6. nextId' \in 1..(MaxRecords + 1)  BY <1>s, <2>1, RecordsAssumption
    <2> QED  BY <1>t, <1>i, <1>s, <2>1, <2>3, <2>5, <2>6, AuditMove
<1>9. ASSUME NEW e \in Sessions, NEW retention \in Retentions, SummarizePurge(e, retention)
      PROVE  AuditInv'
    <2> DEFINE a == [kind |-> "summarized", retention |-> retention,
                     expiring |-> Cardinality(Expired(retention))]
    <2>1. Cardinality(Expired(retention)) \in 0..MaxRecords
        <3>1. Expired(retention) \in SUBSET Record /\ DistinctIds(Expired(retention))
            BY <1>s DEF Expired, DistinctIds
        <3> QED  BY <3>1, RowsAreFinite
    <2>2. a \in Auditor  BY <2>1 DEF Auditor
    <2>3. a.kind = "summarized"  OBVIOUS
    <2>4. Audits(e, a) /\ Read(e) /\ UNCHANGED <<log, nextId, clock>>  BY <1>9 DEF SummarizePurge
    <2> HIDE DEF a
    <2> QED  BY <1>t, <1>s, <1>0, <2>2, <2>3, <2>4, AuditMove
<1>10. ASSUME NEW e \in Sessions, RecordPurge(e)  PROVE AuditInv'
    <2> DEFINE a == [kind |-> "purging", retention |-> auditor[e].retention,
                     row |-> [id |-> nextId, at |-> clock, removed |-> auditor[e].expiring]]
    <2>1. auditor[e].kind = "summarized" /\ nextId <= MaxRecords  BY <1>10 DEF RecordPurge
    <2>2. auditor[e].retention \in Retentions /\ auditor[e].expiring \in 0..MaxRecords
        BY <2>1, AuditShape, AuditorShape
    <2>3. a \in Auditor  BY <1>s, <2>1, <2>2, RecordsAssumption DEF Auditor, Record
    <2>4. a.kind = "purging" /\ a.row.id = nextId /\ a.row.at = clock /\ clock <= clock  BY <1>s
    <2>5. /\ Audits(e, a) /\ Flush(e) /\ UNCHANGED <<log, clock>>
          /\ nextId' = nextId + 1 /\ nextId' \in 1..(MaxRecords + 1)
        BY <1>s, <1>10, <2>1, RecordsAssumption DEF RecordPurge
    <2> HIDE DEF a
    <2> QED  BY <1>t, <1>s, <2>3, <2>4, <2>5, AuditMove
<1>11. ASSUME NEW e \in Sessions, Purge(e)  PROVE AuditInv'
    <2>1. Holding(e)  BY <1>11 DEF Purge, Holding
    <2>2. auditor[e].row \in Record /\ \A r \in log : r.id # auditor[e].row.id
        BY <2>1, AuditShape DEF AuditInv
    <2>3. /\ log' \in SUBSET (log \cup {auditor[e].row})
          /\ UNCHANGED <<nextId, clock>> /\ Commit(e) /\ Audits(e, Idle)
        BY <1>11 DEF Purge
    <2>4. log' \in SUBSET Record /\ DistinctIds(log')  BY <1>s, <2>2, <2>3 DEF DistinctIds
    <2> QED  BY <1>t, <1>i, <1>s, <1>0, <2>1, <2>3, <2>4, AuditMove
<1>12. ASSUME NEW e \in Sessions, Forget(e)  PROVE AuditInv'
    <2>1. Audits(e, Idle) /\ Rollback(e) /\ UNCHANGED <<log, nextId, clock>>  BY <1>12 DEF Forget
    <2> QED  BY <1>t, <1>i, <1>s, <1>0, <2>1, AuditMove
<1> QED
    BY <1>1, <1>2, <1>3, <1>4, <1>5, <1>6, <1>7, <1>8, <1>9, <1>10, <1>11, <1>12 DEF AuditNext

LEMMA AuditStarts == TxnInit /\ AuditInit => AuditInv
<1> SUFFICES ASSUME TxnInit, AuditInit  PROVE AuditInv
    OBVIOUS
<1>1. Idle \in Auditor /\ Idle.kind = "idle"  BY DEF Auditor, Idle
<1>2. TxnTypeOK  BY DEF TxnInit, TxnTypeOK
<1>3. AuditTypeOK  BY <1>1, RecordsAssumption DEF AuditInit, AuditTypeOK
<1> QED  BY <1>1, <1>2, <1>3 DEF AuditInit, AuditInv, DistinctIds, Holding

\* The types of the records, of the clock and of what each session is doing.
THEOREM AuditTypeCorrect == AuditSpec => []AuditTypeOK
<1>1. AuditInv => AuditTypeOK  BY DEF AuditInv
<1>2. AuditInv /\ [AuditNext]_<<auditVars, txnVars>> => AuditInv'  BY AuditStep
<1> QED  BY <1>1, <1>2, AuditStarts, PTL DEF AuditSpec

-----------------------------------------------------------------------------
(***************************************************************************)
(* The audit trail on SQLite.  While nobody else has committed, a session  *)
(* that has taken a time is the latest to have done so, one that has       *)
(* flushed its record has the last id, and one that exports reads what is  *)
(* stored; the pages it has read are all that there is up to the last row  *)
(* of them.                                                                *)
(***************************************************************************)
Paged(a) ==
    /\ UNION {a.out[i] : i \in DOMAIN a.out} = {r \in a.view : r.id <= a.last}
    /\ \A i, k \in DOMAIN a.out : i < k => \A r \in a.out[i], q \in a.out[k] : r.id < q.id
    /\ ~ a.more => \A r \in a.view : r.id <= a.last

UpToDate(e) ==
    /\ auditor[e].kind = "recording" => \A r \in log : r.at <= auditor[e].at
    /\ Holding(e) => \A r \in log : r.id < auditor[e].row.id /\ r.at <= auditor[e].row.at
    /\ auditor[e].kind = "exporting" => auditor[e].view = log

Chronological == \A r, q \in log : r.id < q.id => r.at <= q.at

AtWork(e) ==
    auditor[e] # Idle =>
        /\ snap[e] # "none"
        /\ snap[e] = "current" => UpToDate(e)
        /\ auditor[e].kind = "exporting" => Paged(auditor[e])

TrailInv == Chronological /\ \A e \in Sessions : AtWork(e)

LEMMA PagesFollow ==
    ASSUME NEW a, a \in [kind : {"exporting"}, view : SUBSET Record,
                         out : Seq(SUBSET Record), last : 0..MaxRecords, more : BOOLEAN],
           DistinctIds(a.view), Paged(a), NEW page, page = PageAfter(a.view, a.last)
    PROVE  Paged([a EXCEPT !.out = Append(@, page),
                           !.last = IF page = {} THEN @ ELSE LastOf(page),
                           !.more = Cardinality(page) = Chunk])
<1> DEFINE last == IF page = {} THEN a.last ELSE LastOf(page)
           b == [a EXCEPT !.out = Append(@, page),
                          !.last = IF page = {} THEN @ ELSE LastOf(page),
                          !.more = Cardinality(page) = Chunk]
<1>1. /\ b.view = a.view /\ b.out = Append(a.out, page) /\ b.last = last
      /\ b.more = (Cardinality(page) = Chunk)
    OBVIOUS
<1>2. /\ page \in SUBSET a.view /\ \A r \in page : a.last < r.id
      /\ page # {} =>
           /\ LastOf(page) \in 0..MaxRecords /\ a.last < LastOf(page)
           /\ \A r \in page : r.id <= LastOf(page)
           /\ \A r \in a.view : a.last < r.id /\ r.id <= LastOf(page) => r \in page
      /\ Cardinality(page) # Chunk => \A r \in a.view : a.last < r.id => r \in page
    BY NextPage
<1>3. \A r \in a.view : r.id \in Nat  BY RecordShape
<1>4. a.last \in Nat /\ last \in Nat /\ a.last <= last  BY <1>2, RecordsAssumption
<1>5. \A r \in a.view : r.id <= last <=> r.id <= a.last \/ r \in page
    BY <1>2, <1>3, <1>4
<1> HIDE DEF b, last
<1>6. /\ DOMAIN b.out = 1..(Len(a.out) + 1) /\ DOMAIN a.out = 1..Len(a.out) /\ Len(a.out) \in Nat
      /\ \A i \in DOMAIN a.out : b.out[i] = a.out[i]
      /\ b.out[Len(a.out) + 1] = page
    BY <1>1
<1>7. UNION {b.out[i] : i \in DOMAIN b.out} = (UNION {a.out[i] : i \in DOMAIN a.out}) \cup page
    <2>1. ASSUME NEW i \in DOMAIN b.out, NEW x \in b.out[i]
          PROVE  x \in (UNION {a.out[k] : k \in DOMAIN a.out}) \cup page
        <3>1. CASE i \in DOMAIN a.out  BY <1>6, <2>1, <3>1
        <3>2. CASE i = Len(a.out) + 1  BY <1>6, <2>1, <3>2
        <3> QED  BY <1>6, <3>1, <3>2
    <2>2. ASSUME NEW i \in DOMAIN a.out, NEW x \in a.out[i]
          PROVE  x \in UNION {b.out[k] : k \in DOMAIN b.out}
        <3>1. i \in DOMAIN b.out /\ b.out[i] = a.out[i]  BY <1>6
        <3> QED  BY <2>2, <3>1
    <2>3. ASSUME NEW x \in page  PROVE x \in UNION {b.out[k] : k \in DOMAIN b.out}
        <3>1. Len(a.out) + 1 \in DOMAIN b.out  BY <1>6
        <3> QED  BY <1>6, <2>3, <3>1
    <2> QED  BY <2>1, <2>2, <2>3
<1>8. UNION {b.out[i] : i \in DOMAIN b.out} = {r \in b.view : r.id <= b.last}
    BY <1>1, <1>2, <1>5, <1>7 DEF Paged
<1>9. ASSUME NEW i \in DOMAIN b.out, NEW k \in DOMAIN b.out, i < k,
             NEW r \in b.out[i], NEW q \in b.out[k]
      PROVE  r.id < q.id
    <2>1. i \in DOMAIN a.out  BY <1>6, <1>9
    <2>2. CASE k \in DOMAIN a.out  BY <1>6, <1>9, <2>1, <2>2 DEF Paged
    <2>3. CASE k = Len(a.out) + 1
        <3>1. r \in a.view /\ r.id <= a.last  BY <1>6, <2>1 DEF Paged
        <3>2. q \in a.view /\ a.last < q.id  BY <1>2, <1>6, <2>3
        <3> QED  BY <1>3, <1>4, <3>1, <3>2
    <2> QED  BY <1>6, <2>2, <2>3
<1>10. ~ b.more => \A r \in b.view : r.id <= b.last
    <2> SUFFICES ASSUME ~ b.more, NEW r \in b.view  PROVE r.id <= b.last
        OBVIOUS
    <2>1. r.id <= a.last \/ a.last < r.id  BY <1>1, <1>3, <1>4
    <2> QED  BY <1>1, <1>2, <1>5, <2>1
<1>11. Paged(b)  BY <1>8, <1>9, <1>10 DEF Paged
<1> QED  BY <1>11 DEF b
\* A step short of a commit: the others know what they knew.
LEMMA TrailQuiet ==
    ASSUME AuditInv, TrailInv, NEW e \in Sessions, NEW a, Audits(e, a), UNCHANGED log,
           Read(e) \/ Flush(e) \/ Rollback(e),
           a # Idle =>
               /\ snap'[e] # "none"
               /\ snap'[e] = "current" =>
                    /\ a.kind = "recording" => \A r \in log : r.at <= a.at
                    /\ a.kind \in {"recorded", "purging"} =>
                           \A r \in log : r.id < a.row.id /\ r.at <= a.row.at
                    /\ a.kind = "exporting" => a.view = log
               /\ a.kind = "exporting" => Paged(a)
    PROVE  TrailInv'
<1>1. \A f \in Sessions : auditor'[f] = IF f = e THEN a ELSE auditor[f]
    BY AuditOfOthers
<1>2. Chronological'  BY DEF TrailInv, Chronological
<1>3. ASSUME NEW f \in Sessions  PROVE AtWork(f)'
    <2>1. CASE f = e
        <3>1. auditor'[f] = a /\ snap'[f] = snap'[e]  BY <1>1, <2>1
        <3> QED  BY <3>1 DEF AtWork, UpToDate, Holding
    <2>2. CASE f # e
        <3>1. auditor'[f] = auditor[f]  BY <1>1, <2>2
        <3>2. snap'[f] = snap[f]  BY <2>2, SnapshotOfOthers DEF AuditInv
        <3>3. AtWork(f)  BY DEF TrailInv
        <3> QED  BY <3>1, <3>2, <3>3 DEF AtWork, UpToDate, Holding
    <2> QED  BY <2>1, <2>2
<1> QED  BY <1>2, <1>3 DEF TrailInv

\* A commit that adds to the log what is last in every respect: what the others
\* know is out of date.
LEMMA TrailCommit ==
    ASSUME AuditInv, TrailInv, NEW e \in Sessions, Audits(e, Idle), Commit(e),
           NEW row, row.id \in Nat, row.at \in Nat, log' \in SUBSET (log \cup {row}),
           \A r \in log : r.id < row.id /\ r.at <= row.at
    PROVE  TrailInv'
<1>1. \A f \in Sessions : auditor'[f] = IF f = e THEN Idle ELSE auditor[f]
    BY AuditOfOthers
<1>2. Chronological'
    <2> SUFFICES ASSUME NEW r \in log', NEW q \in log', r.id < q.id  PROVE r.at <= q.at
        BY DEF Chronological
    <2>1. \A x \in log : x.id \in Nat /\ x.at \in Nat  BY AuditShape, RecordShape
    <2>2. CASE q \in log
        <3>1. r # row  BY <2>1, <2>2
        <3> QED  BY <2>2, <3>1 DEF TrailInv, Chronological
    <2>3. CASE q = row
        <3>1. r \in log  BY <2>3
        <3> QED  BY <2>3, <3>1
    <2> QED  BY <2>2, <2>3
<1>3. ASSUME NEW f \in Sessions  PROVE AtWork(f)'
    <2>1. CASE f = e  BY <1>1, <2>1 DEF AtWork
    <2>2. CASE f # e
        <3>1. auditor'[f] = auditor[f] /\ AtWork(f)  BY <1>1, <2>2 DEF TrailInv
        <3>2. snap'[f] # "current" /\ (snap[f] # "none" => snap'[f] # "none")
            BY <2>2, NobodyCurrent
        <3> QED  BY <3>1, <3>2 DEF AtWork
    <2> QED  BY <2>1, <2>2
<1> QED  BY <1>2, <1>3 DEF TrailInv

LEMMA TrailStep ==
    ASSUME SQLite, AuditInv, TrailInv, [AuditNext]_<<auditVars, txnVars>>
    PROVE  TrailInv'
<1>s. /\ nextId \in Nat /\ clock \in Nat /\ log \in SUBSET Record /\ TxnTypeOK
      /\ \A r \in log : r.id < nextId /\ r.at <= clock /\ r.id \in Nat /\ r.at \in Nat
    <2>1. /\ nextId \in Nat /\ clock \in Nat /\ log \in SUBSET Record /\ TxnTypeOK
          /\ \A r \in log : r.id < nextId /\ r.at <= clock
        BY RecordsAssumption DEF AuditInv, AuditTypeOK
    <2> QED  BY <2>1, RecordShape
<1>a. \A e \in Sessions : AtWork(e)  BY DEF TrailInv
<1>1. CASE UNCHANGED <<auditVars, txnVars>>
    BY <1>1 DEF auditVars, txnVars, TrailInv, Chronological, AtWork, UpToDate, Holding
<1>2. CASE ClockTicks
    BY <1>2 DEF ClockTicks, txnVars, TrailInv, Chronological, AtWork, UpToDate, Holding
<1>3. ASSUME NEW e \in Sessions, RecordNow(e)  PROVE TrailInv'
    <2> DEFINE a == [kind |-> "recording", at |-> clock]
    <2>1. Audits(e, a) /\ Read(e) /\ UNCHANGED log  BY <1>3 DEF RecordNow
    <2>2. a.kind = "recording" /\ \A r \in log : r.at <= a.at  BY <1>s
    <2>3. snap'[e] # "none"  BY <1>s, <2>1, SnapshotTaken
    <2> HIDE DEF a
    <2> QED  BY <2>1, <2>2, <2>3, TrailQuiet
<1>4. ASSUME NEW e \in Sessions, FlushRecord(e)  PROVE TrailInv'
    <2> DEFINE a == [kind |-> "recorded",
                     row |-> [id |-> nextId, at |-> auditor[e].at, removed |-> 0]]
    <2>1. Audits(e, a) /\ Flush(e) /\ UNCHANGED log /\ auditor[e].kind = "recording"
        BY <1>4 DEF FlushRecord
    <2>2. auditor[e] # Idle  BY <2>1 DEF Idle
    <2>3. snap[e] = "current" /\ snap'[e] = "current"
        BY <1>s, <1>a, <2>1, <2>2, SnapshotTaken DEF AtWork
    <2>4. \A r \in log : r.id < nextId /\ r.at <= auditor[e].at
        BY <1>s, <1>a, <2>1, <2>2, <2>3 DEF AtWork, UpToDate
    <2>5. a.kind = "recorded" /\ \A r \in log : r.id < a.row.id /\ r.at <= a.row.at  BY <2>4
    <2> HIDE DEF a
    <2> QED  BY <2>1, <2>3, <2>5, TrailQuiet
<1>5. ASSUME NEW e \in Sessions, CommitRecord(e)  PROVE TrailInv'
    <2>1. Holding(e) /\ auditor[e] # Idle  BY <1>5 DEF CommitRecord, Holding, Idle
    <2>2. /\ log' = log \cup {auditor[e].row} /\ Commit(e) /\ Audits(e, Idle)
        BY <1>5 DEF CommitRecord
    <2>3. snap[e] = "current"  BY <1>s, <1>a, <2>1, <2>2, CommitsOnCurrent DEF AtWork
    <2>4. \A r \in log : r.id < auditor[e].row.id /\ r.at <= auditor[e].row.at
        BY <1>a, <2>1, <2>3 DEF AtWork, UpToDate
    <2>5. auditor[e].row.id \in Nat /\ auditor[e].row.at \in Nat
        BY <2>1, AuditShape, RecordShape
    <2> QED  BY <2>2, <2>4, <2>5, TrailCommit
<1>6. ASSUME NEW e \in Sessions, StartExport(e)  PROVE TrailInv'
    <2> DEFINE a == [kind |-> "exporting", view |-> log, out |-> <<>>, last |-> 0, more |-> TRUE]
    <2>1. Audits(e, a) /\ Read(e) /\ UNCHANGED log  BY <1>6 DEF StartExport
    <2>2. a.kind = "exporting" /\ a.view = log  OBVIOUS
    <2>3. snap'[e] # "none"  BY <1>s, <2>1, SnapshotTaken
    <2>4. \A r \in log : ~ (r.id <= 0)  BY <1>s, RecordShape
    <2>5. a.out = <<>> /\ a.last = 0 /\ a.more = TRUE /\ DOMAIN a.out = {}  OBVIOUS
    <2> HIDE DEF a
    <2>6. Paged(a)  BY <2>2, <2>4, <2>5 DEF Paged
    <2> QED  BY <2>1, <2>2, <2>3, <2>6, TrailQuiet
<1>7. ASSUME NEW e \in Sessions, ExportChunk(e)  PROVE TrailInv'
    <2> DEFINE page == PageAfter(auditor[e].view, auditor[e].last)
               a == [auditor[e] EXCEPT !.out = Append(@, page),
                                       !.last = IF page = {} THEN @ ELSE LastOf(page),
                                       !.more = Cardinality(page) = Chunk]
    <2>1. Audits(e, a) /\ Read(e) /\ UNCHANGED log /\ auditor[e].kind = "exporting"
        BY <1>7 DEF ExportChunk
    <2>2. /\ auditor[e] \in [kind : {"exporting"}, view : SUBSET Record,
                             out : Seq(SUBSET Record), last : 0..MaxRecords, more : BOOLEAN]
          /\ DistinctIds(auditor[e].view) /\ auditor[e] # Idle
        BY <2>1, AuditShape, AuditorShape DEF AuditInv
    <2>3. Paged(a)
        <3>1. Paged(auditor[e])  BY <1>a, <2>1, <2>2 DEF AtWork
        <3> QED  BY <2>2, <3>1, PagesFollow
    <2>4. a.kind = "exporting" /\ a.view = auditor[e].view  BY <2>2
    <2>5. snap'[e] # "none" /\ snap'[e] = snap[e]
        BY <1>s, <1>a, <2>1, <2>2, SnapshotTaken DEF AtWork
    <2>6. snap[e] = "current" => auditor[e].view = log
        BY <1>a, <2>1, <2>2 DEF AtWork, UpToDate
    <2> HIDE DEF a
    <2> QED  BY <2>1, <2>3, <2>4, <2>5, <2>6, TrailQuiet
<1>8. ASSUME NEW e \in Sessions, DeliverExport(e)  PROVE TrailInv'
    <2> DEFINE r == [id |-> nextId, at |-> clock, removed |-> 0]
    <2>1. log' = log \cup {r} /\ Commit(e) /\ Audits(e, Idle)  BY <1>8 DEF DeliverExport
    <2>2. r.id = nextId /\ r.at = clock  OBVIOUS
    <2> HIDE DEF r
    <2> QED  BY <1>s, <2>1, <2>2, TrailCommit
<1>9. ASSUME NEW e \in Sessions, NEW retention \in Retentions, SummarizePurge(e, retention)
      PROVE  TrailInv'
    <2> DEFINE a == [kind |-> "summarized", retention |-> retention,
                     expiring |-> Cardinality(Expired(retention))]
    <2>1. Audits(e, a) /\ Read(e) /\ UNCHANGED log  BY <1>9 DEF SummarizePurge
    <2>2. a.kind = "summarized"  OBVIOUS
    <2>3. snap'[e] # "none"  BY <1>s, <2>1, SnapshotTaken
    <2> HIDE DEF a
    <2> QED  BY <2>1, <2>2, <2>3, TrailQuiet
<1>10. ASSUME NEW e \in Sessions, RecordPurge(e)  PROVE TrailInv'
    <2> DEFINE a == [kind |-> "purging", retention |-> auditor[e].retention,
                     row |-> [id |-> nextId, at |-> clock, removed |-> auditor[e].expiring]]
    <2>1. Audits(e, a) /\ Flush(e) /\ UNCHANGED log  BY <1>10 DEF RecordPurge
    <2>2. a.kind = "purging" /\ \A r \in log : r.id < a.row.id /\ r.at <= a.row.at  BY <1>s
    <2>3. snap'[e] # "none"  BY <1>s, <2>1, SnapshotTaken
    <2> HIDE DEF a
    <2> QED  BY <2>1, <2>2, <2>3, TrailQuiet
<1>11. ASSUME NEW e \in Sessions, Purge(e)  PROVE TrailInv'
    <2>1. Holding(e) /\ auditor[e] # Idle  BY <1>11 DEF Purge, Holding, Idle
    <2>2. log' \in SUBSET (log \cup {auditor[e].row}) /\ Commit(e) /\ Audits(e, Idle)
        BY <1>11 DEF Purge
    <2>3. snap[e] = "current"  BY <1>s, <1>a, <2>1, <2>2, CommitsOnCurrent DEF AtWork
    <2>4. \A r \in log : r.id < auditor[e].row.id /\ r.at <= auditor[e].row.at
        BY <1>a, <2>1, <2>3 DEF AtWork, UpToDate
    <2>5. auditor[e].row.id \in Nat /\ auditor[e].row.at \in Nat
        BY <2>1, AuditShape, RecordShape
    <2> QED  BY <2>2, <2>4, <2>5, TrailCommit
<1>12. ASSUME NEW e \in Sessions, Forget(e)  PROVE TrailInv'
    <2>1. Audits(e, Idle) /\ Rollback(e) /\ UNCHANGED log  BY <1>12 DEF Forget
    <2> QED  BY <2>1, TrailQuiet
<1> QED
    BY <1>1, <1>2, <1>3, <1>4, <1>5, <1>6, <1>7, <1>8, <1>9, <1>10, <1>11, <1>12 DEF AuditNext

\* Which steps end the work of a session and change the log.
LEMMA WhoEnds ==
    ASSUME AuditInv, [AuditNext]_<<auditVars, txnVars>>, NEW e \in Sessions,
           auditor[e] # Idle, auditor'[e] = Idle, log' # log
    PROVE  CommitRecord(e) \/ DeliverExport(e) \/ Purge(e)
<1>1. ASSUME NEW f \in Sessions, NEW a, Audits(f, a)  PROVE f = e
    BY <1>1, AuditOfOthers
<1>2. PICK f \in Sessions : CommitRecord(f) \/ DeliverExport(f) \/ Purge(f)
    BY DEF AuditNext, auditVars, ClockTicks, RecordNow, FlushRecord, StartExport, ExportChunk,
       SummarizePurge, RecordPurge, Forget
<1>3. f = e  BY <1>1, <1>2 DEF CommitRecord, DeliverExport, Purge
<1> QED  BY <1>2, <1>3

\* A step that delivers an export delivers the trail.
Truthful ==
    \A e \in Sessions :
        auditor[e].kind = "exporting" /\ auditor'[e] = Idle /\ log' # log =>
            IsTheTrail(auditor[e].out)

LEMMA TruthfulStep ==
    ASSUME SQLite, AuditInv, TrailInv, [AuditNext]_<<auditVars, txnVars>>
    PROVE  Truthful
<1> SUFFICES ASSUME NEW e \in Sessions, auditor[e].kind = "exporting",
                    auditor'[e] = Idle, log' # log
             PROVE  IsTheTrail(auditor[e].out)
    BY DEF Truthful
<1>1. auditor[e] # Idle  BY DEF Idle
<1>2. DeliverExport(e)  BY <1>1, WhoEnds DEF CommitRecord, Purge
<1>3. ~ auditor[e].more /\ Commit(e)  BY <1>2 DEF DeliverExport
<1>4. AtWork(e) /\ Chronological  BY DEF TrailInv
<1>5. snap[e] = "current"  BY <1>1, <1>3, <1>4, CommitsOnCurrent DEF AuditInv, AtWork
<1>6. auditor[e].view = log /\ Paged(auditor[e])  BY <1>1, <1>4, <1>5 DEF AtWork, UpToDate
<1>7. {r \in auditor[e].view : r.id <= auditor[e].last} = log  BY <1>3, <1>6 DEF Paged
<1> QED  BY <1>4, <1>6, <1>7 DEF IsTheTrail, Paged, Chronological

LEMMA TrailStarts == TxnInit /\ AuditInit => AuditInv /\ TrailInv
<1> SUFFICES ASSUME TxnInit, AuditInit  PROVE TrailInv
    BY AuditStarts
<1> QED  BY DEF AuditInit, TrailInv, Chronological, AtWork

\* On SQLite, for pages of any size: an export that is answered is the whole
\* trail at that moment, every record once and in the order of time, whatever was
\* appended and purged while its pages were read.
THEOREM ExportsAreTheTrail == SQLite => (AuditSpec => DeliveredExportIsTheTrail)
<1> SUFFICES ASSUME SQLite  PROVE AuditSpec => DeliveredExportIsTheTrail
    OBVIOUS
<1>1. AuditInv /\ TrailInv /\ [AuditNext]_<<auditVars, txnVars>> => (AuditInv /\ TrailInv)'
    BY AuditStep, TrailStep
<1>2. AuditInv /\ TrailInv /\ [AuditNext]_<<auditVars, txnVars>> => [Truthful]_auditVars
    BY TruthfulStep
<1>3. DeliveredExportIsTheTrail <=> [][Truthful]_auditVars
    BY DEF DeliveredExportIsTheTrail, Truthful
<1> QED  BY TrailStarts, <1>1, <1>2, <1>3, PTL DEF AuditSpec

\* A step that purges takes what came first.
OldestFirst ==
    \A e \in Sessions : Purges(e) => \A r \in log \ log', q \in log' : r.id < q.id

LEMMA OldestFirstStep ==
    ASSUME SQLite, AuditInv, TrailInv, [AuditNext]_<<auditVars, txnVars>>
    PROVE  OldestFirst
<1> SUFFICES ASSUME NEW e \in Sessions, Purges(e), NEW r \in log \ log', NEW q \in log'
             PROVE  r.id < q.id
    BY DEF OldestFirst
<1>1. auditor[e].kind = "purging" /\ auditor'[e] = Idle /\ log' # log
    BY DEF Purges
<1>2. auditor[e] # Idle /\ Holding(e)  BY <1>1 DEF Idle, Holding
<1>3. Purge(e)  BY <1>1, <1>2, WhoEnds DEF CommitRecord, DeliverExport
<1>4. /\ log' = (log \ Expired(auditor[e].retention))
                \cup {x \in {auditor[e].row} : x.at + auditor[e].retention >= clock}
      /\ Commit(e)
    BY <1>3 DEF Purge
<1>5. r \in Expired(auditor[e].retention) /\ r \in log  BY <1>4
<1>6. log \subseteq Record /\ clock \in Nat /\ auditor[e].retention \in Nat
    BY <1>1, AuditShape, AuditorShape, RetentionsAssumption
<1>7. CASE q \in log
    <2>1. q \notin Expired(auditor[e].retention)
        <3>1. q # auditor[e].row  BY <1>2, <1>7 DEF AuditInv
        <3> QED  BY <1>4, <3>1
    <2>2. r.at < q.at
        <3>1. r.at \in Nat /\ q.at \in Nat  BY <1>5, <1>6, <1>7, RecordShape
        <3>2. r.at + auditor[e].retention < clock /\ ~ (q.at + auditor[e].retention < clock)
            BY <1>5, <1>7, <2>1 DEF Expired
        <3> QED  BY <1>6, <3>1, <3>2
    <2>3. ~ (q.id < r.id) /\ q.id # r.id
        <3>1. q.id < r.id => q.at <= r.at  BY <1>5, <1>7 DEF TrailInv, Chronological
        <3>2. q.id = r.id => q = r  BY <1>5, <1>7 DEF AuditInv, DistinctIds
        <3>3. r.at \in Nat /\ q.at \in Nat  BY <1>5, <1>6, <1>7, RecordShape
        <3> QED  BY <2>2, <3>1, <3>2, <3>3
    <2>4. r.id \in Nat /\ q.id \in Nat  BY <1>5, <1>6, <1>7, RecordShape
    <2> QED  BY <2>3, <2>4
<1>8. CASE q = auditor[e].row
    <2>1. snap[e] = "current"
        BY <1>2, <1>4, CommitsOnCurrent DEF AuditInv, TrailInv, AtWork
    <2> QED  BY <1>2, <1>5, <1>8, <2>1 DEF TrailInv, AtWork, UpToDate
<1> QED  BY <1>4, <1>7, <1>8

\* On SQLite, with a retention of any number of days, whoever appends, exports and
\* purges at the same time: a purge takes the oldest part of the trail.
THEOREM PurgesTakeTheOldest == SQLite => (AuditSpec => PurgeLeavesNoGap)
<1> SUFFICES ASSUME SQLite  PROVE AuditSpec => PurgeLeavesNoGap
    OBVIOUS
<1>1. AuditInv /\ TrailInv /\ [AuditNext]_<<auditVars, txnVars>> => (AuditInv /\ TrailInv)'
    BY AuditStep, TrailStep
<1>2. AuditInv /\ TrailInv /\ [AuditNext]_<<auditVars, txnVars>> => [OldestFirst]_auditVars
    BY OldestFirstStep
<1>3. PurgeLeavesNoGap <=> [][OldestFirst]_auditVars
    BY DEF PurgeLeavesNoGap, OldestFirst
<1> QED  BY TrailStarts, <1>1, <1>2, <1>3, PTL DEF AuditSpec

-----------------------------------------------------------------------------
(***************************************************************************)
(* Deliveries: types.                                                      *)
(***************************************************************************)
Deliveries ==
    {Ready} \cup [step : {"settling"}, entries : Lists \cup {{}}]
    \cup [step : {"deleting"}]
    \cup Sending("resolving") \cup Sending("connecting")
    \cup [step : {"sent"}, ok : BOOLEAN]

\* A session whose payload is on its way.
OnItsWay(d) == d.step \in {"resolving", "connecting"}

LEMMA ReadyShape == Ready \in Deliveries /\ Ready.step = "none"
BY DEF Ready, Deliveries

LEMMA SentShape ==
    ASSUME NEW ok \in BOOLEAN
    PROVE  Sent(ok) \in Deliveries /\ Sent(ok).step = "sent"
BY DEF Sent, Deliveries

\* What a session has in hand.
LEMMA DeliveryShape ==
    ASSUME NEW d \in Deliveries
    PROVE  /\ d.step = "none" <=> d = Ready
           /\ d.step = "settling" => d.entries \in Lists \cup {{}}
           /\ OnItsWay(d) =>
                /\ d.first \in Url /\ d.url \in Url
                /\ d.attempt \in 1..MAX_ATTEMPTS /\ d.hop \in 0..MAX_REDIRECTS
           /\ d.step = "resolving" => d \in Sending("resolving")
           /\ d.step = "connecting" => d \in Sending("connecting")
<1>1. CASE d = Ready  BY <1>1 DEF Ready, OnItsWay
<1>2. CASE d \in [step : {"settling"}, entries : Lists \cup {{}}]
    BY <1>2 DEF Ready, OnItsWay
<1>3. CASE d \in [step : {"deleting"}]  BY <1>3 DEF Ready, OnItsWay
<1>4. CASE d \in Sending("resolving")  BY <1>4 DEF Ready, OnItsWay, Sending
<1>5. CASE d \in Sending("connecting")  BY <1>5 DEF Ready, OnItsWay, Sending
<1>6. CASE d \in [step : {"sent"}, ok : BOOLEAN]  BY <1>6 DEF Ready, OnItsWay
<1> QED  BY <1>1, <1>2, <1>3, <1>4, <1>5, <1>6 DEF Deliveries

LEMMA ResolvingShape ==
    ASSUME NEW first \in Url, NEW url \in Url, NEW attempt \in 1..MAX_ATTEMPTS,
           NEW hop \in 0..MAX_REDIRECTS
    PROVE  LET d == Resolving(first, url, attempt, hop)
           IN  /\ d \in Deliveries /\ d.step = "resolving"
               /\ d.attempt = attempt /\ d.hop = hop
BY DEF Resolving, Deliveries, Sending

\* An attempt is repeated from the first URL, until the attempts are used up.
LEMMA TryAgainShape ==
    ASSUME NEW d \in Deliveries, OnItsWay(d)
    PROVE  /\ TryAgain(d) \in Deliveries
           /\ TryAgain(d).step = "sent"
              \/ (TryAgain(d).step = "resolving" /\ TryAgain(d).attempt = d.attempt + 1)
<1>1. d.first \in Url /\ d.attempt \in 1..MAX_ATTEMPTS  BY DeliveryShape
<1>2. CASE d.attempt < MAX_ATTEMPTS
    <2>1. d.attempt + 1 \in 1..MAX_ATTEMPTS /\ 0 \in 0..MAX_REDIRECTS
        BY <1>1, <1>2, BoundsAssumption
    <2>2. TryAgain(d) = Resolving(d.first, d.first, d.attempt + 1, 0)  BY <1>2 DEF TryAgain
    <2> QED  BY <1>1, <2>1, <2>2, ResolvingShape
<1>3. CASE ~ (d.attempt < MAX_ATTEMPTS)
    <2>1. TryAgain(d) = Sent(FALSE)  BY <1>3 DEF TryAgain
    <2> QED  BY <2>1, SentShape
<1> QED  BY <1>2, <1>3

\* What a session becomes whose destination resolves.
LEMMA ConnectingShape ==
    ASSUME NEW d \in Deliveries, d.step = "resolving", NEW answer \in AnswersFor(d.url)
    PROVE  LET c == [d EXCEPT !.step = "connecting", !.answer = answer]
           IN  /\ c \in Deliveries /\ c.step = "connecting" /\ c.answer = answer
               /\ c.url = d.url /\ c.attempt = d.attempt /\ c.hop = d.hop
<1>1. d \in Sending("resolving")  BY DeliveryShape
<1>2. answer \in Answers \cup {<<>>} \cup {<<x>> : x \in Addresses}
    BY DEF AnswersFor
<1> QED  BY <1>1, <1>2 DEF Sending, Deliveries

\* A session goes on to what it does next, the others stay at theirs.
LEMMA Delivered ==
    ASSUME DeliveryTypeOK, NEW e \in Sessions, NEW d \in Deliveries, Delivers(e, d)
    PROVE  /\ delivery' \in [Sessions -> Deliveries]
           /\ \A f \in Sessions : delivery'[f] = IF f = e THEN d ELSE delivery[f]
BY DEF Delivers, DeliveryTypeOK, Deliveries

LEMMA DeliveryKept ==
    ASSUME DeliveryTypeOK, NEW e \in Sessions, NEW d \in Deliveries, Delivers(e, d),
           UNCHANGED <<egress, settings, integration>>
    PROVE  DeliveryTypeOK'
BY Delivered DEF DeliveryTypeOK, Deliveries

LEMMA IntegrationShape ==
    ASSUME DeliveryTypeOK, Configured
    PROVE  /\ integration \in [kind : {"webhook", "forge"}, url : Url,
                               last_status : {"", "ok", "failed"}]
           /\ integration.url \in Url
BY DEF DeliveryTypeOK, Configured

LEMMA InHand ==
    ASSUME DeliveryTypeOK, NEW e \in Sessions
    PROVE  delivery[e] \in Deliveries
BY DEF DeliveryTypeOK, Deliveries

\* What becomes of a session that sends: one of four things, by which step it
\* is at.
LEMMA SendsOnto ==
    ASSUME DeliveryTypeOK, NEW e \in Sessions, SendsOn(e)
    PROVE  \E d \in Deliveries :
               /\ Delivers(e, d)
               /\ egress' = egress /\ settings' = settings
               /\ \/ d.step = "sent" /\ OnItsWay(delivery[e])
                  \/ d.step = "none" /\ delivery[e].step = "sent"
                  \/ /\ delivery[e].step = "resolving" /\ d.step = "connecting"
                     /\ d.attempt = delivery[e].attempt /\ d.hop = delivery[e].hop
                     /\ d.url = delivery[e].url /\ Resolvable(delivery[e], d.answer)
                  \/ /\ delivery[e].step = "connecting" /\ d.step = "resolving"
                     /\ \/ d.attempt = delivery[e].attempt + 1
                        \/ d.attempt = delivery[e].attempt /\ d.hop = delivery[e].hop + 1
               /\ delivery[e].step # "sent" => integration' = integration
<1>1. delivery[e] \in Deliveries  BY InHand
<1>2. ASSUME delivery[e].step = "resolving", NEW answer \in AnswersFor(delivery[e].url),
             Resolve(e, answer), Resolvable(delivery[e], answer)
      PROVE  \E d \in Deliveries :
               /\ Delivers(e, d) /\ UNCHANGED <<egress, settings, integration>>
               /\ d.step = "connecting"
               /\ d.attempt = delivery[e].attempt /\ d.hop = delivery[e].hop
               /\ d.url = delivery[e].url /\ Resolvable(delivery[e], d.answer)
    <2> DEFINE c == [delivery[e] EXCEPT !.step = "connecting", !.answer = answer]
    <2>1. Delivers(e, c) /\ UNCHANGED <<egress, settings, integration>>  BY <1>2 DEF Resolve
    <2>2. /\ c \in Deliveries /\ c.step = "connecting" /\ c.answer = answer
          /\ c.url = delivery[e].url /\ c.attempt = delivery[e].attempt
          /\ c.hop = delivery[e].hop
        BY <1>1, <1>2, ConnectingShape
    <2>3. Resolvable(delivery[e], c.answer)  BY <1>2, <2>2
    <2> HIDE DEF c
    <2> QED  BY <2>1, <2>2, <2>3
<1>3. ASSUME delivery[e].step = "resolving", NEW answer,
             Resolve(e, answer), ~ Resolvable(delivery[e], answer)
      PROVE  Delivers(e, Sent(FALSE)) /\ UNCHANGED <<egress, settings, integration>>
    BY <1>3 DEF Resolve
<1>4. CASE delivery[e].step = "resolving"
    <2>1. \E answer \in AnswersFor(delivery[e].url) : Resolve(e, answer)
        BY <1>4 DEF SendsOn, Fails, Redirects, Answered, RecordOutcome
    <2> QED  BY <1>2, <1>3, <1>4, <2>1, SentShape DEF OnItsWay
<1>5. CASE Fails(e)
    <2>1. /\ delivery[e].step = "connecting" /\ OnItsWay(delivery[e])
          /\ Delivers(e, TryAgain(delivery[e])) /\ UNCHANGED <<egress, settings, integration>>
        BY <1>5 DEF Fails, OnItsWay
    <2> QED  BY <1>1, <2>1, TryAgainShape
<1>6. ASSUME NEW url \in Url, Redirects(e, url)
      PROVE  \E d \in Deliveries :
               /\ Delivers(e, d) /\ UNCHANGED <<egress, settings, integration>>
               /\ delivery[e].step = "connecting"
               /\ \/ d.step = "sent"
                  \/ /\ d.step = "resolving"
                     /\ \/ d.attempt = delivery[e].attempt + 1
                        \/ d.attempt = delivery[e].attempt /\ d.hop = delivery[e].hop + 1
    <2>1. /\ delivery[e].step = "connecting" /\ OnItsWay(delivery[e])
          /\ UNCHANGED <<egress, settings, integration>>
        BY <1>6 DEF Redirects, OnItsWay
    <2>2. /\ delivery[e].first \in Url /\ delivery[e].attempt \in 1..MAX_ATTEMPTS
          /\ delivery[e].hop \in 0..MAX_REDIRECTS
        BY <1>1, <2>1, DeliveryShape
    <2>3. CASE delivery[e].hop < MAX_REDIRECTS
        <3>1. delivery[e].hop + 1 \in 0..MAX_REDIRECTS  BY <2>2, <2>3, BoundsAssumption
        <3>2. Delivers(e, Resolving(delivery[e].first, url, delivery[e].attempt,
                                    delivery[e].hop + 1))
            BY <1>6, <2>3 DEF Redirects, NextHop
        <3> QED  BY <2>1, <2>2, <3>1, <3>2, ResolvingShape
    <2>4. CASE ~ (delivery[e].hop < MAX_REDIRECTS)
        <3>1. Delivers(e, TryAgain(delivery[e]))  BY <1>6, <2>4 DEF Redirects
        <3> QED  BY <1>1, <2>1, <3>1, TryAgainShape
    <2> QED  BY <2>3, <2>4
<1>7. ASSUME NEW ok \in BOOLEAN, Answered(e, ok)
      PROVE  /\ delivery[e].step = "connecting" /\ Delivers(e, Sent(ok))
             /\ UNCHANGED <<egress, settings, integration>>
    BY <1>7 DEF Answered
<1>8. CASE RecordOutcome(e)
    <2>1. /\ delivery[e].step = "sent" /\ Delivers(e, Ready)
          /\ egress' = egress /\ settings' = settings
        BY <1>8 DEF RecordOutcome
    <2> QED  BY <2>1, ReadyShape
<1>9. CASE \E url \in Url : Redirects(e, url)
    BY <1>6, <1>9 DEF OnItsWay
<1>10. CASE \E ok \in BOOLEAN : Answered(e, ok)
    BY <1>7, <1>10, SentShape DEF OnItsWay
<1> QED  BY <1>4, <1>5, <1>8, <1>9, <1>10 DEF SendsOn

LEMMA DeliveryTypes ==
    ASSUME DeliveryTypeOK, [DeliveryNext]_<<deliveryVars, txnVars>>
    PROVE  DeliveryTypeOK'
<1>1. CASE UNCHANGED <<deliveryVars, txnVars>>
    BY <1>1 DEF deliveryVars, DeliveryTypeOK
<1>2. ASSUME NEW e \in Sessions, NEW entries \in Lists \cup {{}}, LoadSettings(e, entries)
      PROVE  DeliveryTypeOK'
    <2> DEFINE d == [step |-> "settling", entries |-> entries]
    <2>1. d \in Deliveries  BY DEF Deliveries
    <2>2. Delivers(e, d) /\ UNCHANGED <<egress, settings, integration>>
        BY <1>2 DEF LoadSettings
    <2> HIDE DEF d
    <2> QED  BY <2>1, <2>2, DeliveryKept
<1>3. ASSUME NEW e \in Sessions, PutSettings(e)  PROVE DeliveryTypeOK'
    <2>1. settings' \in Lists \cup {{}} /\ UNCHANGED <<egress, integration>>
        BY <1>3, InHand, DeliveryShape DEF PutSettings
    <2>2. delivery' \in [Sessions -> Deliveries]
        BY <1>3, ReadyShape, Delivered DEF PutSettings
    <2> QED  BY <2>1, <2>2 DEF DeliveryTypeOK, Deliveries
<1>4. ASSUME NEW e \in Sessions, NEW kind \in {"webhook", "forge"}, NEW url \in Url,
             CreateIntegration(e, kind, url)
      PROVE  DeliveryTypeOK'
    BY <1>4 DEF CreateIntegration, DeliveryTypeOK
<1>5. ASSUME NEW e \in Sessions, LoadToDelete(e)  PROVE DeliveryTypeOK'
    <2> DEFINE d == [step |-> "deleting"]
    <2>1. d \in Deliveries  BY DEF Deliveries
    <2>2. Delivers(e, d) /\ UNCHANGED <<egress, settings, integration>>
        BY <1>5 DEF LoadToDelete
    <2> HIDE DEF d
    <2> QED  BY <2>1, <2>2, DeliveryKept
<1>6. ASSUME NEW e \in Sessions, DeleteIntegration(e)  PROVE DeliveryTypeOK'
    <2>1. integration' = Deleted /\ UNCHANGED <<egress, settings>>
        BY <1>6 DEF DeleteIntegration
    <2>2. delivery' \in [Sessions -> Deliveries]
        BY <1>6, ReadyShape, Delivered DEF DeleteIntegration
    <2> QED  BY <2>1, <2>2 DEF DeliveryTypeOK, Deliveries
<1>7. ASSUME NEW e \in Sessions, Test(e)  PROVE DeliveryTypeOK'
    <2>1. PICK d : Delivers(e, d) /\ d \in {Sent(FALSE), Resolving(integration.url, integration.url, 1, 0)}
        BY <1>7 DEF Test
    <2>2. integration.url \in Url  BY <1>7, IntegrationShape DEF Test
    <2>3. 1 \in 1..MAX_ATTEMPTS /\ 0 \in 0..MAX_REDIRECTS  BY BoundsAssumption
    <2>4. d \in Deliveries
        <3>1. Resolving(integration.url, integration.url, 1, 0) \in Deliveries
            BY <2>2, <2>3, ResolvingShape
        <3>2. Sent(FALSE) \in Deliveries  BY SentShape
        <3> QED  BY <2>1, <3>1, <3>2
    <2>5. UNCHANGED <<egress, settings, integration>>  BY <1>7 DEF Test
    <2> QED  BY <2>1, <2>4, <2>5, DeliveryKept
<1>8. ASSUME NEW e \in Sessions, SendsOn(e)  PROVE DeliveryTypeOK'
    <2>1. CASE delivery[e].step # "sent"
        BY <1>8, <2>1, SendsOnto, DeliveryKept
    <2>2. CASE delivery[e].step = "sent"
        <3>1. RecordOutcome(e)
            BY <1>8, <2>2 DEF SendsOn, Fails, Redirects, Answered
        <3>2. /\ Configured /\ UNCHANGED <<egress, settings>>
              /\ integration' = [integration EXCEPT
                    !.last_status = IF delivery[e].ok THEN "ok" ELSE "failed"]
            BY <3>1 DEF RecordOutcome
        <3>3. integration' \in [kind : {"webhook", "forge"}, url : Url,
                                last_status : {"", "ok", "failed"}]
            BY <3>2, IntegrationShape
        <3>4. delivery' \in [Sessions -> Deliveries]
            BY <3>1, ReadyShape, Delivered DEF RecordOutcome
        <3> QED  BY <3>2, <3>3, <3>4 DEF DeliveryTypeOK, Deliveries
    <2> QED  BY <2>1, <2>2
<1>9. ASSUME NEW e \in Sessions, Fail(e)  PROVE DeliveryTypeOK'
    BY <1>9, ReadyShape, DeliveryKept DEF Fail
<1> QED  BY <1>1, <1>2, <1>3, <1>4, <1>5, <1>6, <1>7, <1>8, <1>9 DEF DeliveryNext

\* The settings, the integration and the payloads on their way have the types
\* that DeliveryTypeOK gives them.
THEOREM DeliveryTypeCorrect == DeliverySpec => []DeliveryTypeOK
<1>1. DeliveryInit => DeliveryTypeOK
    BY DEF DeliveryInit, DeliveryTypeOK
<1>2. DeliveryTypeOK /\ [DeliveryNext]_<<deliveryVars, txnVars>> => DeliveryTypeOK'
    BY DeliveryTypes
<1> QED  BY <1>1, <1>2, PTL DEF DeliverySpec

-----------------------------------------------------------------------------
(***************************************************************************)
(* Deliveries: where a payload may go.  Nobody changes the operator's      *)
(* policy while the process runs, and a session that connects has just     *)
(* been through resolve_target for the host it connects to: redirects lead *)
(* back to it.                                                             *)
(***************************************************************************)
LEMMA Permitted ==
    ASSUME NEW d, NEW answer, Resolvable(d, answer)
    PROVE  /\ d.url # None
           /\ host_allowed_by_allowlist(d.url, egress.list)
           /\ egress.private \/ (ToSet(answer) \subseteq Public /\ ~ Local(d.url))
<1>1. d.url # None /\ host_allowed_by_allowlist(d.url, Combine(egress.list, OrgAllowlist))
    BY DEF Resolvable, Allowed
<1>2. Combine(egress.list, OrgAllowlist) = egress.list
    BY DEF Combine, OrgAllowlist
<1>3. AllPublic(answer) => ToSet(answer) \subseteq Public
    BY DEF AllPublic, ToSet
<1>4. egress.private \/ (AllPublic(answer) /\ ~ Local(d.url))
    BY DEF Resolvable
<1> QED  BY <1>1, <1>2, <1>3, <1>4

\* The environment is read once and stays.
LEMMA EgressStays ==
    ASSUME [DeliveryNext]_<<deliveryVars, txnVars>>
    PROVE  UNCHANGED egress
BY DEF DeliveryNext, deliveryVars, LoadSettings, PutSettings, CreateIntegration, LoadToDelete,
   DeleteIntegration, Test, SendsOn, Resolve, Fails, Redirects, Answered, RecordOutcome, Fail

\* How a session changes that does not send: it ends up nowhere near a socket.
LEMMA OtherMoves ==
    ASSUME DeliveryTypeOK, [DeliveryNext]_<<deliveryVars, txnVars>>, NEW e \in Sessions,
           delivery'[e] # delivery[e]
    PROVE  \/ SendsOn(e)
           \/ delivery'[e].step = "none"
           \/ delivery[e].step = "none" /\ delivery'[e].step \in {"settling", "deleting", "sent", "resolving"}
<1>1. PICK f \in Sessions :
          \/ \E entries \in Lists \cup {{}} : LoadSettings(f, entries)
          \/ PutSettings(f)
          \/ \E kind \in {"webhook", "forge"}, url \in Url : CreateIntegration(f, kind, url)
          \/ LoadToDelete(f) \/ DeleteIntegration(f)
          \/ Test(f)
          \/ SendsOn(f)
          \/ Fail(f)
    BY DEF DeliveryNext, deliveryVars
<1>2. ASSUME NEW d, Delivers(f, d)  PROVE f = e /\ delivery'[e] = d
    BY <1>2 DEF Delivers, DeliveryTypeOK
<1>3. CASE \E entries \in Lists \cup {{}} : LoadSettings(f, entries)
    <2>1. PICK entries \in Lists \cup {{}} : LoadSettings(f, entries)  BY <1>3
    <2> DEFINE d == [step |-> "settling", entries |-> entries]
    <2>2. Delivers(f, d) /\ delivery[f] = Ready /\ d.step = "settling"
        BY <2>1 DEF LoadSettings
    <2> HIDE DEF d
    <2> QED  BY <1>2, <2>2, ReadyShape
<1>4. CASE PutSettings(f) \/ DeleteIntegration(f) \/ Fail(f)
    <2>1. Delivers(f, Ready)  BY <1>4 DEF PutSettings, DeleteIntegration, Fail
    <2> QED  BY <1>2, <2>1, ReadyShape
<1>5. ~ (\E kind \in {"webhook", "forge"}, url \in Url : CreateIntegration(f, kind, url))
    BY DEF CreateIntegration
<1>6. CASE LoadToDelete(f)
    <2> DEFINE d == [step |-> "deleting"]
    <2>1. Delivers(f, d) /\ delivery[f] = Ready /\ d.step = "deleting"
        BY <1>6 DEF LoadToDelete
    <2> HIDE DEF d
    <2> QED  BY <1>2, <2>1, ReadyShape
<1>7. CASE Test(f)
    <2>1. PICK d : Delivers(f, d) /\ d \in {Sent(FALSE), Resolving(integration.url, integration.url, 1, 0)}
        BY <1>7 DEF Test
    <2>2. Sent(FALSE).step = "sent"  BY SentShape
    <2>3. Resolving(integration.url, integration.url, 1, 0).step = "resolving"
        BY DEF Resolving
    <2>4. delivery[f] = Ready  BY <1>7 DEF Test
    <2> QED  BY <1>2, <2>1, <2>2, <2>3, <2>4, ReadyShape
<1>8. CASE SendsOn(f)
    <2>1. \E d : Delivers(f, d)  BY <1>8, SendsOnto
    <2> QED  BY <1>2, <1>8, <2>1
<1> QED  BY <1>1, <1>3, <1>4, <1>5, <1>6, <1>7, <1>8

LEMMA PermittedStep ==
    ASSUME DeliveryTypeOK, ConnectionsArePermitted, [DeliveryNext]_<<deliveryVars, txnVars>>
    PROVE  ConnectionsArePermitted'
<1> SUFFICES ASSUME NEW e \in Sessions, delivery'[e].step = "connecting"
             PROVE  /\ delivery'[e].url # None
                    /\ host_allowed_by_allowlist(delivery'[e].url, egress'.list)
                    /\ egress'.private \/ (ToSet(delivery'[e].answer) \subseteq Public
                                          /\ ~ Local(delivery'[e].url))
    BY DEF ConnectionsArePermitted
<1>1. egress' = egress  BY EgressStays
<1>2. CASE delivery'[e] = delivery[e]
    BY <1>1, <1>2 DEF ConnectionsArePermitted
<1>3. CASE delivery'[e] # delivery[e]
    <2>1. SendsOn(e)  BY <1>3, OtherMoves
    <2>2. PICK d \in Deliveries :
               /\ Delivers(e, d)
               /\ d.step = "connecting" => d.url = delivery[e].url /\ Resolvable(delivery[e], d.answer)
        BY <2>1, SendsOnto
    <2>3. delivery'[e] = d  BY <2>2, Delivered
    <2> QED  BY <1>1, <2>2, <2>3, Permitted
<1> QED  BY <1>2, <1>3

\* Whatever the endpoint and the DNS answer, in whatever order: every socket is
\* opened to an address, and for a host, that the operator permits.
THEOREM ConnectionsStayWithinPolicy == DeliverySpec => []ConnectionsArePermitted
<1>1. DeliveryInit => DeliveryTypeOK /\ ConnectionsArePermitted
    BY ReadyShape DEF DeliveryInit, DeliveryTypeOK, ConnectionsArePermitted
<1>2. DeliveryTypeOK /\ ConnectionsArePermitted /\ [DeliveryNext]_<<deliveryVars, txnVars>>
        => DeliveryTypeOK' /\ ConnectionsArePermitted'
    BY DeliveryTypes, PermittedStep
<1> QED  BY <1>1, <1>2, PTL DEF DeliverySpec

-----------------------------------------------------------------------------
(***************************************************************************)
(* Deliveries: tests end.  A test resolves and connects in turn; what it   *)
(* does next has one more hop behind it in the same attempt, or is another *)
(* attempt.                                                                *)
(***************************************************************************)
\* From d to c is a step towards the end of a test.
Nearer(d, c) ==
    \/ c.step \in {"sent", "none"}
    \/ d.step = "resolving" /\ c.step = "connecting" /\ c.attempt = d.attempt /\ c.hop = d.hop
    \/ d.step = "connecting" /\ c.step = "resolving" /\ c.attempt = d.attempt + 1
    \/ d.step = "connecting" /\ c.step = "resolving" /\ c.attempt = d.attempt /\ c.hop = d.hop + 1

\* The attempts and hops of a test on its way are within MAX_ATTEMPTS and
\* MAX_REDIRECTS, and every step it takes is towards its end: whatever the
\* endpoint answers, it connects at most MAX_ATTEMPTS * (MAX_REDIRECTS + 1) times.
TestsComeNearer ==
    [][\A e \in Sessions : OnItsWay(delivery[e]) =>
          /\ delivery[e].attempt \in 1..MAX_ATTEMPTS /\ delivery[e].hop \in 0..MAX_REDIRECTS
          /\ delivery'[e] # delivery[e] => Nearer(delivery[e], delivery'[e])]_deliveryVars

LEMMA NearerStep ==
    ASSUME DeliveryTypeOK, [DeliveryNext]_<<deliveryVars, txnVars>>,
           NEW e \in Sessions, OnItsWay(delivery[e])
    PROVE  /\ delivery[e].attempt \in 1..MAX_ATTEMPTS /\ delivery[e].hop \in 0..MAX_REDIRECTS
           /\ delivery'[e] # delivery[e] => Nearer(delivery[e], delivery'[e])
<1>1. delivery[e].attempt \in 1..MAX_ATTEMPTS /\ delivery[e].hop \in 0..MAX_REDIRECTS
    BY InHand, DeliveryShape
<1>2. ASSUME delivery'[e] # delivery[e], delivery'[e].step # "none"
      PROVE  Nearer(delivery[e], delivery'[e])
    <2>1. SendsOn(e)  BY <1>2, OtherMoves DEF OnItsWay
    <2>2. PICK d \in Deliveries :
               /\ Delivers(e, d)
               /\ \/ d.step = "sent" /\ OnItsWay(delivery[e])
                  \/ d.step = "none" /\ delivery[e].step = "sent"
                  \/ /\ delivery[e].step = "resolving" /\ d.step = "connecting"
                     /\ d.attempt = delivery[e].attempt /\ d.hop = delivery[e].hop
                  \/ /\ delivery[e].step = "connecting" /\ d.step = "resolving"
                     /\ \/ d.attempt = delivery[e].attempt + 1
                        \/ d.attempt = delivery[e].attempt /\ d.hop = delivery[e].hop + 1
        BY <2>1, SendsOnto
    <2>3. delivery'[e] = d  BY <2>2, Delivered
    <2> QED  BY <2>2, <2>3 DEF Nearer
<1>3. delivery'[e].step = "none" => Nearer(delivery[e], delivery'[e])
    BY DEF Nearer
<1> QED  BY <1>1, <1>2, <1>3

\* The part of TestsEnd that does not depend on fairness: a test that takes
\* steps cannot take them for ever.
THEOREM TestsAreBounded == DeliverySpec => TestsComeNearer
<1>1. DeliveryInit => DeliveryTypeOK
    BY DEF DeliveryInit, DeliveryTypeOK
<1>2. DeliveryTypeOK /\ [DeliveryNext]_<<deliveryVars, txnVars>> => DeliveryTypeOK'
    BY DeliveryTypes
<1> DEFINE Step == \A e \in Sessions : OnItsWay(delivery[e]) =>
          /\ delivery[e].attempt \in 1..MAX_ATTEMPTS /\ delivery[e].hop \in 0..MAX_REDIRECTS
          /\ delivery'[e] # delivery[e] => Nearer(delivery[e], delivery'[e])
<1>3. DeliveryTypeOK /\ [DeliveryNext]_<<deliveryVars, txnVars>> => [Step]_deliveryVars
    BY NearerStep
<1>4. TestsComeNearer <=> [][Step]_deliveryVars  BY DEF TestsComeNearer
<1> HIDE DEF Step
<1> QED  BY <1>1, <1>2, <1>3, <1>4, PTL DEF DeliverySpec

-----------------------------------------------------------------------------
(***************************************************************************)
(* The rate limiter.  Whoever has been let in recently has his hit among   *)
(* those recorded, under a number of its own.                              *)
(***************************************************************************)
Underway(d) == d.step \in {"checking", "recorded"}

LimiterInv ==
    /\ LimiterTypeOK
    /\ IsFiniteSet(hits) /\ IsFiniteSet(admitted)
    /\ \A h, k \in hits : h.n = k.n => h = k
    /\ \A c \in Callers :
           /\ caller[c] # Away => caller[c].now <= time
           /\ Underway(caller[c]) => time <= caller[c].now + Delay
           /\ caller[c].step = "recorded" => store = "postgres"
    /\ \A a \in admitted :
           /\ a.time <= time /\ a.time <= a.hit.at + Delay
           /\ time < a.time + Window - Delay => a.hit \in hits
           /\ \A b \in admitted \ {a} :
                  a.hit = b.hit /\ a.time <= b.time => a.time + Window - Delay <= b.time

AllWindowsFit ==
    store # "postgres" => \A t \in Int : Cardinality(AdmittedFrom(t)) <= Limit

LEMMA WhatPruningKeeps ==
    ASSUME LimiterInv, NEW now \in Int
    PROVE  /\ Pruned(now) \in SUBSET hits
           /\ IsFiniteSet(Pruned(now)) /\ Cardinality(Pruned(now)) \in Nat
           /\ Cardinality(Pruned(now)) <= Cardinality(hits)
           /\ \A h \in hits : h.at > now - Window => h \in Pruned(now)
<1>1. Pruned(now) \in SUBSET hits  BY DEF Pruned
<1>2. IsFiniteSet(hits)  BY DEF LimiterInv
<1>3. \A h \in hits : h.n \in Nat  BY DEF LimiterInv, LimiterTypeOK, Hit
<1>4. \A h \in hits : h.at > now - Window => h \in Pruned(now)
    BY <1>3 DEF Pruned, Counts
<1> QED  BY <1>1, <1>2, <1>4, FS_Subset, FS_CardinalityType

LEMMA ArrivesLast ==
    ASSUME LimiterInv, NEW kept \in SUBSET hits, NEW now \in 0..MaxTime
    PROVE  /\ Arrival(kept, now) \in Hit /\ Arrival(kept, now).at = now
           /\ \A h \in kept : h.n < Arrival(kept, now).n
<1> DEFINE numbers == {h.n : h \in kept}
           Top(n) == \A h \in kept : h.n <= n
<1>1. IsFiniteSet(kept)  BY FS_Subset DEF LimiterInv
<1>2. \A h \in kept : h.n \in Nat  BY DEF LimiterInv, LimiterTypeOK, Hit
<1>3. IsFiniteSet(numbers)
    <2> DEFINE f == [h \in kept |-> h.n]
    <2>1. f \in Surjection(kept, numbers)  BY DEF Surjection
    <2> HIDE DEF f, numbers
    <2> QED  BY <1>1, <2>1, FS_Surjection
<1>4. IsFiniteSet({0} \cup numbers)
    <2>1. IsFiniteSet({0})  BY FS_Singleton
    <2> HIDE DEF numbers
    <2> QED  BY <1>3, <2>1, FS_Union
<1>5. {0} \cup numbers \in SUBSET Nat  BY <1>2
<1>6. PICK m \in {0} \cup numbers : \A n \in {0} \cup numbers : n <= m
    <2> HIDE DEF numbers
    <2>1. {0} \cup numbers # {}  OBVIOUS
    <2> QED  BY <1>4, <1>5, <2>1, GreatestOf
<1>7. \E n \in {0} \cup numbers : Top(n)  BY <1>6
<1> DEFINE last == CHOOSE n \in {0} \cup numbers : Top(n)
<1>8. last \in {0} \cup numbers /\ Top(last)
    <2> HIDE DEF numbers, Top
    <2> QED  BY <1>7
<1>9. Arrival(kept, now) = [n |-> 1 + last, at |-> now]  BY DEF Arrival
<1>10. last \in Nat
    <2> HIDE DEF numbers, last
    <2> QED  BY <1>5, <1>8
<1>11. \A h \in kept : h.n <= last  BY <1>8
<1> HIDE DEF last, numbers
<1> QED  BY <1>2, <1>9, <1>10, <1>11 DEF Hit

LEMMA CallerShape ==
    ASSUME LimiterInv, NEW c \in Callers
    PROVE  /\ caller[c] # Away => /\ caller[c].step \in {"checking", "recorded", "refused"}
                                  /\ caller[c].now \in 0..MaxTime /\ caller[c].now <= time
           /\ caller[c].step = "recorded" => caller[c].fits \in BOOLEAN
           /\ Away.step = "away"
           /\ time \in 0..MaxTime
<1>1. caller[c] \in Caller /\ time \in 0..MaxTime  BY DEF LimiterInv, LimiterTypeOK
<1>2. CASE caller[c] \in [step : {"checking", "refused"}, now : 0..MaxTime]
    BY <1>1, <1>2 DEF LimiterInv, Away
<1>3. CASE caller[c] \in [step : {"recorded"}, now : 0..MaxTime, fits : BOOLEAN]
    BY <1>1, <1>3 DEF LimiterInv, Away
<1>4. CASE caller[c] = Away
    BY <1>1, <1>4 DEF Away
<1> QED  BY <1>1, <1>2, <1>3, <1>4 DEF Caller

LEMMA AdmissionShape ==
    ASSUME LimiterInv, NEW a \in admitted
    PROVE  a.time \in Nat /\ a.hit \in Hit /\ a.hit.at \in Nat /\ a = [hit |-> a.hit, time |-> a.time]
<1>1. a \in Admission  BY DEF LimiterInv, LimiterTypeOK
<1>2. a.time \in 0..MaxTime /\ a.hit \in Hit /\ a = [hit |-> a.hit, time |-> a.time]
    BY <1>1 DEF Admission
<1> QED  BY <1>2 DEF Hit

\* Steps that neither record a hit nor let anybody in.
LEMMA QuietStep ==
    ASSUME LimiterInv, RoomAssumption, UNCHANGED <<store, time, admitted>>,
           hits' \in SUBSET hits,
           \A a \in admitted : time < a.time + Window - Delay /\ a.hit \in hits => a.hit \in hits',
           NEW c \in Callers, NEW d \in Caller, caller' = [caller EXCEPT ![c] = d],
           d # Away => d.now = time \/ (caller[c] # Away /\ d.now = caller[c].now),
           Underway(d) => d.now = time \/ (Underway(caller[c]) /\ d.now = caller[c].now),
           d.step = "recorded" => store = "postgres",
           promise' \in Int
    PROVE  LimiterInv'
<1>1. IsFiniteSet(hits') /\ Cardinality(hits') <= MaxHits
    <2>1. IsFiniteSet(hits) /\ Cardinality(hits) <= MaxHits  BY DEF LimiterInv, LimiterTypeOK
    <2>2. IsFiniteSet(hits') /\ Cardinality(hits') <= Cardinality(hits)  BY <2>1, FS_Subset
    <2> QED  BY <2>1, <2>2, FS_CardinalityType, RoomAssumption
<1>2. LimiterTypeOK'
    BY <1>1 DEF LimiterInv, LimiterTypeOK
<1>3. time \in Nat  BY CallerShape DEF LimiterInv, LimiterTypeOK
<1>4. ASSUME NEW b \in Callers
      PROVE  /\ caller'[b] # Away => caller'[b].now <= time'
             /\ Underway(caller'[b]) => time' <= caller'[b].now + Delay
             /\ caller'[b].step = "recorded" => store' = "postgres"
    <2>1. caller'[b] = IF b = c THEN d ELSE caller[b]
        BY DEF LimiterInv, LimiterTypeOK
    <2>2. d # Away => d.now <= time
        <3>1. caller[c] # Away => caller[c].now <= time  BY CallerShape
        <3> QED  BY <1>3, <3>1
    <2>3. Underway(d) => time <= d.now + Delay
        <3>1. Underway(caller[c]) => time <= caller[c].now + Delay  BY DEF LimiterInv
        <3> QED  BY <1>3, <3>1, LimitAssumption
    <2> QED  BY <2>1, <2>2, <2>3 DEF LimiterInv
<1>5. ASSUME NEW a \in admitted'
      PROVE  /\ a.time <= time' /\ a.time <= a.hit.at + Delay
             /\ time' < a.time + Window - Delay => a.hit \in hits'
             /\ \A b \in admitted' \ {a} :
                    a.hit = b.hit /\ a.time <= b.time => a.time + Window - Delay <= b.time
    BY <1>5 DEF LimiterInv
<1> QED  BY <1>1, <1>2, <1>4, <1>5 DEF LimiterInv

\* A hit that arrives: the new number is larger than that of every hit kept, and
\* whoever was let in under the same hit was so too long ago to be in a window
\* with the caller.
LEMMA ArrivalStep ==
    ASSUME LimiterInv, NEW c \in Callers, Underway(caller[c]), NEW fits, Arrives(c, fits)
    PROVE  LimiterInv'
<1> DEFINE now == caller[c].now
           kept == Pruned(now)
           hit == Arrival(kept, now)
           new == [hit |-> hit, time |-> time]
<1>1. now \in 0..MaxTime /\ now <= time /\ time <= now + Delay /\ time \in 0..MaxTime
    BY CallerShape DEF LimiterInv, Underway
<1>2. /\ hits' = kept \cup {hit}
      /\ admitted' = admitted \/ admitted' = admitted \cup {new}
      /\ caller' = [caller EXCEPT ![c] = Away] \/ caller' = [caller EXCEPT ![c] = [step |-> "refused", now |-> now]]
      /\ UNCHANGED <<store, time>> /\ promise' = NoPromise
      /\ Cardinality(hits) < MaxHits
    BY DEF Arrives
<1>3. /\ kept \in SUBSET hits /\ IsFiniteSet(kept)
      /\ Cardinality(kept) \in Nat /\ Cardinality(kept) <= Cardinality(hits)
      /\ \A h \in hits : h.at > now - Window => h \in kept
    BY <1>1, WhatPruningKeeps
<1>4. hit \in Hit /\ hit.at = now /\ \A h \in kept : h.n < hit.n
    <2> HIDE DEF kept, now
    <2> QED  BY <1>1, <1>3, ArrivesLast
<1> HIDE DEF now, kept, hit
<1>5. IsFiniteSet(hits') /\ Cardinality(hits') <= MaxHits
    <2>1. Cardinality(hits') <= Cardinality(kept) + 1 /\ IsFiniteSet(hits')
        <3>1. IsFiniteSet(kept \cup {hit})
              /\ Cardinality(kept \cup {hit})
                     = IF hit \in kept THEN Cardinality(kept) ELSE Cardinality(kept) + 1
            BY <1>3, FS_AddElement
        <3> QED  BY <1>2, <1>3, <3>1
    <2>2. Cardinality(hits') \in Nat  BY <2>1, FS_CardinalityType
    <2>3. Cardinality(hits) \in Nat  BY FS_CardinalityType DEF LimiterInv
    <2> QED  BY <1>2, <1>3, <2>1, <2>2, <2>3, RoomAssumption
<1>6. IsFiniteSet(admitted')
    BY <1>2, FS_AddElement DEF LimiterInv
<1>7. LimiterTypeOK'
    <2>1. hits' \subseteq Hit  BY <1>2, <1>3, <1>4 DEF LimiterInv, LimiterTypeOK
    <2>2. new \in Admission  BY <1>1, <1>4 DEF Admission
    <2>3. Away \in Caller /\ [step |-> "refused", now |-> now] \in Caller  BY <1>1 DEF Caller
    <2> HIDE DEF new
    <2>4. admitted' \subseteq Admission  BY <1>2, <2>2 DEF LimiterInv, LimiterTypeOK
    <2>5. caller' \in [Callers -> Caller]  BY <1>2, <2>3 DEF LimiterInv, LimiterTypeOK
    <2> QED  BY <1>2, <1>5, <2>1, <2>4, <2>5 DEF LimiterInv, LimiterTypeOK, NoPromise
<1>8. ASSUME NEW h \in hits', NEW k \in hits', h.n = k.n  PROVE h = k
    <2>1. \A x \in kept : x.n \in Nat  BY <1>3 DEF LimiterInv, LimiterTypeOK, Hit
    <2>2. hit.n \in Nat  BY <1>4 DEF Hit
    <2> QED  BY <1>2, <1>3, <1>4, <1>8, <2>1, <2>2 DEF LimiterInv
<1>9. ASSUME NEW b \in Callers
      PROVE  /\ caller'[b] # Away => caller'[b].now <= time'
             /\ Underway(caller'[b]) => time' <= caller'[b].now + Delay
             /\ caller'[b].step = "recorded" => store' = "postgres"
    <2>1. CASE b = c
        <3>1. caller'[b] = Away \/ caller'[b] = [step |-> "refused", now |-> now]
            BY <1>2, <2>1 DEF LimiterInv, LimiterTypeOK
        <3> QED  BY <1>1, <1>2, <3>1 DEF Away, Underway
    <2>2. CASE b # c
        <3>1. caller'[b] = caller[b]  BY <1>2, <2>2 DEF LimiterInv, LimiterTypeOK
        <3> QED  BY <1>2, <3>1 DEF LimiterInv
    <2> QED  BY <2>1, <2>2
<1>10. ASSUME NEW a \in admitted, time < a.time + Window - Delay
       PROVE  a.hit \in kept /\ a.hit # hit
    <2>1. a.hit \in hits /\ a.time <= a.hit.at + Delay  BY <1>10 DEF LimiterInv
    <2>2. a.hit.at > now - Window
        BY <1>1, <1>10, <2>1, AdmissionShape, LimitAssumption
    <2>3. a.hit \in kept  BY <1>3, <2>1, <2>2
    <2>4. a.hit.n < hit.n /\ hit.n \in Nat /\ a.hit.n \in Nat
        BY <1>4, <2>3, AdmissionShape DEF Hit
    <2> QED  BY <2>3, <2>4
<1>11. \A a \in admitted : a.time <= time /\ a.time <= a.hit.at + Delay /\ a.time \in Nat
    BY AdmissionShape DEF LimiterInv
<1>12. ASSUME NEW a \in admitted'
       PROVE  /\ a.time <= time' /\ a.time <= a.hit.at + Delay
              /\ time' < a.time + Window - Delay => a.hit \in hits'
    <2>1. CASE a \in admitted
        BY <1>2, <1>10, <1>11, <2>1
    <2>2. CASE a = new
        BY <1>1, <1>2, <1>4, <2>2
    <2> QED  BY <1>2, <2>1, <2>2
<1>13. ASSUME NEW a \in admitted', NEW b \in admitted' \ {a}, a.hit = b.hit, a.time <= b.time
       PROVE  a.time + Window - Delay <= b.time
    <2>1. CASE a \in admitted /\ b \in admitted
        BY <1>13, <2>1 DEF LimiterInv
    <2>2. CASE a \in admitted /\ b = new
        BY <1>1, <1>10, <1>11, <1>13, <2>2, LimitAssumption
    <2>3. CASE a = new /\ b \in admitted
        <3>1. b.time = time  BY <1>1, <1>11, <1>13, <2>3
        <3>2. b = [hit |-> hit, time |-> time]  BY <1>13, <2>3, <3>1, AdmissionShape
        <3> QED  BY <1>13, <2>3, <3>2
    <2>4. a # b  OBVIOUS
    <2> HIDE DEF new
    <2> QED  BY <1>2, <2>1, <2>2, <2>3, <2>4
<1> QED  BY <1>5, <1>6, <1>7, <1>8, <1>9, <1>12, <1>13 DEF LimiterInv

LEMMA PlacesAreNumbers ==
    ASSUME LimiterInv, NEW h \in hits
    PROVE  Place(h) \in Nat /\ h.at \in Nat /\ h.n \in Nat
    BY DEF LimiterInv, LimiterTypeOK, Hit, Place

\* There is a hit that decides: behind the last one there is none.
LEMMA SomeHitDecides ==
    ASSUME LimiterInv, NEW kept \in SUBSET hits, kept # {}
    PROVE  Deciding(kept) \in Latest(kept)
<1> DEFINE places == {Place(h) : h \in kept}
           early == {Place(h) : h \in Latest(kept)}
<1>1. IsFiniteSet(kept)  BY FS_Subset DEF LimiterInv
<1>2. IsFiniteSet(places)
    <2> DEFINE f == [h \in kept |-> Place(h)]
    <2>1. f \in Surjection(kept, places)  BY DEF Surjection
    <2> HIDE DEF f, places
    <2> QED  BY <1>1, <2>1, FS_Surjection
<1>3. places \in SUBSET Nat /\ places # {}  BY PlacesAreNumbers
<1>4. PICK last \in kept : \A k \in kept : Place(k) <= Place(last)
    <2>1. PICK m \in places : \A n \in places : n <= m
        <3> HIDE DEF places
        <3> QED  BY <1>2, <1>3, GreatestOf
    <2> QED  BY <2>1
<1>5. last \in Latest(kept)
    <2>1. Behind(last, kept) = {}  BY <1>4, PlacesAreNumbers DEF Behind
    <2> QED  BY <2>1, FS_EmptySet, LimitAssumption DEF Latest
<1>6. early \in SUBSET Nat /\ early # {}
    <2>1. Latest(kept) \in SUBSET hits  BY DEF Latest
    <2> QED  BY <1>5, <2>1, PlacesAreNumbers
<1>7. \E h \in Latest(kept) : \A k \in Latest(kept) : Place(h) <= Place(k)
    <2>1. PICK m \in early : \A n \in early : m <= n
        <3> HIDE DEF early
        <3> QED  BY <1>6, LeastOf
    <2> QED  BY <2>1
<1> QED  BY <1>7 DEF Deciding

\* After the time that a caller is told, fewer than Limit of the hits count: those
\* behind the one that decides.
LEMMA RetryTold ==
    ASSUME LimiterInv, NEW now \in 0..MaxTime
    PROVE  RetryAfter(now) \in Nat /\ RetryAfter(now) >= 1
<1>1. Pruned(now) # {} => Deciding(Pruned(now)).at \in Nat
    <2> SUFFICES ASSUME Pruned(now) # {}  PROVE Deciding(Pruned(now)).at \in Nat
        OBVIOUS
    <2>1. Pruned(now) \in SUBSET hits  BY WhatPruningKeeps
    <2>2. Deciding(Pruned(now)) \in hits  BY <2>1, SomeHitDecides DEF Latest
    <2> QED  BY <2>2, PlacesAreNumbers
<1> QED  BY <1>1, LimitAssumption DEF RetryAfter

LEMMA LimiterKept == LimiterInv /\ [LimiterNext]_limiterVars => LimiterInv'
<1> SUFFICES ASSUME LimiterInv, [LimiterNext]_limiterVars  PROVE LimiterInv'
    OBVIOUS
<1>t. time \in 0..MaxTime /\ promise \in Int  BY DEF LimiterInv, LimiterTypeOK
<1>1. CASE Tick
    <2>1. /\ time' = time + 1 /\ time' \in 0..MaxTime
          /\ UNCHANGED <<store, hits, caller, admitted, promise>>
        BY <1>1, <1>t, RoomAssumption DEF Tick
    <2>2. ASSUME NEW c \in Callers
          PROVE  /\ caller'[c] # Away => caller'[c].now <= time'
                 /\ Underway(caller'[c]) => time' <= caller'[c].now + Delay
                 /\ caller'[c].step = "recorded" => store' = "postgres"
        <3>1. caller[c] # Away => caller[c].now \in 0..MaxTime /\ caller[c].now <= time  BY CallerShape
        <3>2. Underway(caller[c]) => time < caller[c].now + Delay  BY <1>1 DEF Tick, Underway
        <3>3. Underway(caller[c]) => caller[c] # Away  BY CallerShape DEF Underway
        <3>4. caller[c].step = "recorded" => store = "postgres"  BY DEF LimiterInv
        <3> QED  BY <1>t, <2>1, <3>1, <3>2, <3>3, <3>4, LimitAssumption
    <2>3. ASSUME NEW a \in admitted
          PROVE  a.time <= time' /\ (time' < a.time + Window - Delay => a.hit \in hits')
        <3>1. a.time \in Nat /\ a.time <= time  BY AdmissionShape DEF LimiterInv
        <3>2. time < a.time + Window - Delay => a.hit \in hits  BY DEF LimiterInv
        <3> QED  BY <1>t, <2>1, <3>1, <3>2, LimitAssumption
    <2>4. LimiterTypeOK'  BY <2>1 DEF LimiterInv, LimiterTypeOK
    <2> QED  BY <2>1, <2>2, <2>3, <2>4 DEF LimiterInv
<1>2. ASSUME NEW c \in Callers, ReadClock(c)  PROVE LimiterInv'
    <2> DEFINE d == [step |-> "checking", now |-> time]
    <2>1. d \in Caller  BY <1>t DEF Caller
    <2>2. d.now = time /\ d.step # "recorded"  OBVIOUS
    <2>3. caller' = [caller EXCEPT ![c] = d] /\ UNCHANGED <<store, time, hits, admitted, promise>>
        BY <1>2 DEF ReadClock
    <2> HIDE DEF d
    <2> QED  BY <1>t, <2>1, <2>2, <2>3, QuietStep, RoomAssumption
<1>3. ASSUME NEW c \in Callers, Check(c) \/ CommitHit(c)  PROVE LimiterInv'
    BY <1>3, ArrivalStep DEF Check, CommitHit, Underway
<1>4. ASSUME NEW c \in Callers, StoreFails(c)  PROVE LimiterInv'
    <2>1. Away \in Caller /\ ~ Underway(Away) /\ Away.step = "away"  BY DEF Caller, Away, Underway
    <2> QED  BY <1>t, <1>4, <2>1, QuietStep, RoomAssumption DEF StoreFails
<1>5. ASSUME NEW c \in Callers, Refuse429(c)  PROVE LimiterInv'
    <2> DEFINE now == caller[c].now
    <2>1. Away \in Caller /\ Away.step = "away" /\ ~ Underway(Away)  BY DEF Caller, Away, Underway
    <2>2. caller[c] # Away  BY <1>5, <2>1 DEF Refuse429
    <2>3. now \in 0..MaxTime /\ now <= time  BY <2>2, CallerShape
    <2>4. promise' \in Int
        <3>1. promise' = now + RetryAfter(now)  BY <1>5 DEF Refuse429
        <3> HIDE DEF now
        <3> QED  BY <2>3, <3>1, RetryTold
    <2>5. hits' = Pruned(now) \/ hits' = hits  BY <1>5 DEF Refuse429
    <2>6. ASSUME NEW a \in admitted, time < a.time + Window - Delay, a.hit \in hits
          PROVE  a.hit \in hits'
        <3>1. a.time <= a.hit.at + Delay  BY DEF LimiterInv
        <3>2. a.hit.at > now - Window
            BY <1>t, <2>3, <2>6, <3>1, AdmissionShape, LimitAssumption
        <3> HIDE DEF now
        <3> QED  BY <2>3, <2>5, <2>6, <3>2, WhatPruningKeeps
    <2>7. hits' \in SUBSET hits
        <3> HIDE DEF now
        <3> QED  BY <2>3, <2>5, WhatPruningKeeps
    <2>8. caller' = [caller EXCEPT ![c] = Away] /\ UNCHANGED <<store, time, admitted>>
        BY <1>5 DEF Refuse429
    <2> QED  BY <2>1, <2>4, <2>6, <2>7, <2>8, QuietStep, RoomAssumption
<1>6. CASE Reset
    <2>1. IsFiniteSet({}) /\ Cardinality({}) = 0  BY FS_EmptySet
    <2> QED
        BY <1>6, <2>1, RoomAssumption DEF Reset, LimiterInv, LimiterTypeOK, NoPromise
<1>7. CASE UNCHANGED limiterVars
    BY <1>7 DEF limiterVars, LimiterInv, LimiterTypeOK
<1>8. ASSUME NEW c \in Callers, RecordHit(c)  PROVE LimiterInv'
    <2> DEFINE now == caller[c].now
               d == [step |-> "recorded", now |-> now, fits |-> Fits(now)]
    <2>1. Underway(caller[c]) /\ caller[c] # Away  BY <1>8 DEF RecordHit, Underway, Away
    <2>2. d.now = now /\ d \in Caller
        <3>1. now \in 0..MaxTime  BY <2>1, CallerShape
        <3>2. Fits(now) \in BOOLEAN  BY DEF Fits
        <3> HIDE DEF now
        <3> QED  BY <3>1, <3>2 DEF Caller
    <2>3. caller' = [caller EXCEPT ![c] = d] /\ UNCHANGED <<store, time, hits, admitted, promise>>
          /\ store = "postgres"
        BY <1>8 DEF RecordHit
    <2> HIDE DEF d
    <2> QED  BY <1>t, <2>1, <2>2, <2>3, QuietStep, RoomAssumption
<1> QED  BY <1>1, <1>2, <1>3, <1>4, <1>5, <1>6, <1>7, <1>8 DEF LimiterNext

LEMMA LimiterStarts == LimiterInit => LimiterInv /\ AllWindowsFit
<1> SUFFICES ASSUME LimiterInit  PROVE LimiterInv /\ AllWindowsFit
    OBVIOUS
<1>1. IsFiniteSet({}) /\ Cardinality({}) = 0  BY FS_EmptySet
<1>2. Away \in Caller /\ ~ Underway(Away) /\ Away.step = "away"  BY DEF Caller, Away, Underway
<1>3. \A t : AdmittedFrom(t) = {}  BY DEF AdmittedFrom, LimiterInit
<1>4. LimiterInv
    BY <1>1, <1>2, RoomAssumption DEF LimiterInit, LimiterInv, LimiterTypeOK, NoPromise
<1> QED  BY <1>1, <1>3, <1>4, LimitAssumption DEF AllWindowsFit

\* The types of the clock, the hits, the callers and the history.
THEOREM LimiterTypeCorrect == LimiterSpec => []LimiterTypeOK
<1>1. LimiterInv => LimiterTypeOK  BY DEF LimiterInv
<1> QED  BY <1>1, LimiterStarts, LimiterKept, PTL DEF LimiterSpec

\* When a caller is let in, everybody in one of its windows has a hit that is
\* counted, each one another.
LEMMA WindowsKept ==
    ASSUME LimiterInv, AllWindowsFit, NEW c \in Callers, Check(c)
    PROVE  AllWindowsFit'
<1> DEFINE now == caller[c].now
           kept == Pruned(now)
           new == [hit |-> Arrival(kept, now), time |-> time]
<1>1. /\ now \in 0..MaxTime /\ now <= time /\ time \in 0..MaxTime
    BY CallerShape DEF Check, Away
<1>2. /\ admitted' = admitted \/ (admitted' = admitted \cup {new} /\ Cardinality(kept) + 1 <= Limit)
      /\ store # "postgres"
    BY DEF Check, Arrives, Fits, Count
<1>3. new.time = time  OBVIOUS
<1>4. /\ kept \in SUBSET hits /\ IsFiniteSet(kept) /\ Cardinality(kept) \in Nat
      /\ \A h \in hits : h.at > now - Window => h \in kept
    <2> HIDE DEF now
    <2> QED  BY <1>1, WhatPruningKeeps
<1> HIDE DEF now, kept, new
<1> SUFFICES ASSUME NEW t \in Int  PROVE Cardinality(AdmittedFrom(t)') <= Limit
    BY DEF AllWindowsFit
<1> DEFINE S == AdmittedFrom(t)
           Inside(x) == t <= x /\ x < t + Window - Delay
<1>5. S \in SUBSET admitted /\ IsFiniteSet(S) /\ Cardinality(S) \in Nat /\ Cardinality(S) <= Limit
    <2>1. S \in SUBSET admitted  BY DEF AdmittedFrom
    <2>2. Cardinality(S) <= Limit  BY <1>2 DEF AllWindowsFit
    <2> HIDE DEF S
    <2> QED  BY <2>1, <2>2, FS_Subset, FS_CardinalityType DEF LimiterInv
<1>6. CASE admitted' = admitted
    <2>1. AdmittedFrom(t)' = S  BY <1>6 DEF AdmittedFrom
    <2> QED  BY <1>5, <2>1
<1>7. CASE admitted' = admitted \cup {new} /\ ~ Inside(time)
    <2>1. AdmittedFrom(t)' = S  BY <1>3, <1>7 DEF AdmittedFrom
    <2> QED  BY <1>5, <2>1
<1>8. CASE admitted' = admitted \cup {new} /\ Inside(time) /\ Cardinality(kept) + 1 <= Limit
    <2>1. ASSUME NEW a \in S
          PROVE  /\ a \in admitted /\ a.time \in Nat /\ a.time <= time
                 /\ time < a.time + Window - Delay
                 /\ a.hit \in kept
        <3>1. a \in admitted /\ t <= a.time  BY DEF AdmittedFrom
        <3>2. a.time \in Nat /\ a.hit.at \in Nat  BY <3>1, AdmissionShape
        <3>3. time < a.time + Window - Delay  BY <1>1, <1>8, <3>1, <3>2, LimitAssumption
        <3>4. a.hit \in hits /\ a.time <= a.hit.at + Delay /\ a.time <= time
            BY <3>1, <3>3 DEF LimiterInv
        <3>5. a.hit.at > now - Window  BY <1>1, <3>2, <3>3, <3>4, LimitAssumption
        <3> QED  BY <1>4, <3>1, <3>2, <3>3, <3>4, <3>5
    <2>2. ASSUME NEW a \in S, NEW b \in S, a # b, a.time <= b.time  PROVE a.hit # b.hit
        <3>1. a.hit = b.hit => a.time + Window - Delay <= b.time  BY <2>1, <2>2 DEF LimiterInv
        <3> QED  BY <1>1, <2>1, <3>1, LimitAssumption
    <2>3. ASSUME NEW a \in S, NEW b \in S, a # b  PROVE a.hit # b.hit
        <3>1. a.time <= b.time \/ b.time <= a.time  BY <2>1
        <3> QED  BY <2>2, <2>3, <3>1
    <2> DEFINE f == [a \in S |-> a.hit]
    <2>4. f \in Injection(S, kept)  BY <2>1, <2>3 DEF Injection, IsInjective
    <2>5. Cardinality(S) <= Cardinality(kept)
        <3> HIDE DEF f, S
        <3> QED  BY <1>4, <2>4, FS_Injection
    <2>6. AdmittedFrom(t)' \in SUBSET (S \cup {new})  BY <1>8 DEF AdmittedFrom
    <2> HIDE DEF S
    <2>7. /\ IsFiniteSet(S \cup {new})
          /\ Cardinality(S \cup {new}) <= Cardinality(S) + 1 /\ Cardinality(S \cup {new}) \in Nat
        <3>1. /\ IsFiniteSet(S \cup {new})
              /\ Cardinality(S \cup {new})
                     = IF new \in S THEN Cardinality(S) ELSE Cardinality(S) + 1
            BY <1>5, FS_AddElement
        <3> QED  BY <1>5, <3>1
    <2>8. IsFiniteSet(AdmittedFrom(t)') /\ Cardinality(AdmittedFrom(t)') <= Cardinality(S \cup {new})
        BY <2>6, <2>7, FS_Subset
    <2>9. Cardinality(AdmittedFrom(t)') \in Nat  BY <2>8, FS_CardinalityType
    <2> QED  BY <1>4, <1>5, <1>8, <2>5, <2>7, <2>8, <2>9, LimitAssumption
<1> QED  BY <1>2, <1>6, <1>7, <1>8

\* AdmitsAtMostLimit: in memory and on SQLite the window slides truly, for any
\* number of callers, although hits arrive late and out of order, callers refused
\* are counted, the memory store prunes from the front only and both forget.
THEOREM WindowIsNeverOverfull == LimiterSpec => []AdmitsAtMostLimit
<1>1. ASSUME LimiterInv, AllWindowsFit, [LimiterNext]_limiterVars  PROVE AllWindowsFit'
    <2>s. UNCHANGED store
        BY <1>1
        DEF LimiterNext, Tick, ReadClock, Check, RecordHit, CommitHit, Arrives, StoreFails,
            Refuse429, Reset, limiterVars
    <2>1. CASE UNCHANGED admitted
        <3>1. \A t : AdmittedFrom(t)' = AdmittedFrom(t)  BY <2>1 DEF AdmittedFrom
        <3> QED  BY <1>1, <2>s, <3>1 DEF AllWindowsFit
    <2>2. CASE admitted' = {}
        <3>1. \A t : AdmittedFrom(t)' = {}  BY <2>2 DEF AdmittedFrom
        <3>2. Cardinality({}) = 0  BY FS_EmptySet
        <3> QED  BY <3>1, <3>2, LimitAssumption DEF AllWindowsFit
    <2>3. ASSUME NEW c \in Callers, Check(c)  PROVE AllWindowsFit'
        BY <1>1, <2>3, WindowsKept
    <2>4. ASSUME NEW c \in Callers, CommitHit(c)  PROVE store = "postgres"
        BY <1>1, <2>4 DEF CommitHit, LimiterInv
    <2> QED
        BY <1>1, <2>s, <2>1, <2>2, <2>3, <2>4
        DEF LimiterNext, Tick, ReadClock, RecordHit, StoreFails, Refuse429, Reset, limiterVars,
            AllWindowsFit
<1>2. LimiterInv /\ AllWindowsFit => AdmitsAtMostLimit
    BY DEF AllWindowsFit, AdmitsAtMostLimit, LimiterInv, LimiterTypeOK
<1>3. LimiterInv /\ AllWindowsFit /\ [LimiterNext]_limiterVars => LimiterInv' /\ AllWindowsFit'
    BY <1>1, LimiterKept
<1> QED  BY <1>2, <1>3, LimiterStarts, PTL DEF LimiterSpec

LEMMA ToldTruly ==
    ASSUME LimiterInv, NEW c \in Callers, Refuse429(c)
    PROVE  RetryAfterSuffices'
<1> DEFINE now == caller[c].now
           p == now + RetryAfter(now)
           kept == Pruned(now)
           left == Pruned(promise)'
<1>1. now \in 0..MaxTime
    <2>1. Away.step = "away" /\ caller[c].step = "refused"  BY DEF Refuse429, Away
    <2> QED  BY <2>1, CallerShape
<1>2. promise' = p /\ store' = store /\ hits' = (IF store = "memory" THEN kept ELSE hits)
    BY DEF Refuse429
<1>l. left = {h \in hits' : \E k \in hits' : k.at > p - Window
                                    /\ IF store = "memory" THEN k.n <= h.n ELSE k = h}
    BY <1>2 DEF Pruned, Counts
<1> HIDE DEF now, left
<1>4. p \in Nat /\ p > now  BY <1>1, RetryTold
<1>5. kept \in SUBSET hits /\ \A h \in hits : h.at > now - Window => h \in kept
    BY <1>1, WhatPruningKeeps
<1>6. ASSUME kept # {}  PROVE p - Window > Deciding(kept).at /\ Deciding(kept) \in Latest(kept)
    <2>1. Deciding(kept) \in Latest(kept) /\ Deciding(kept) \in hits
        BY <1>5, <1>6, SomeHitDecides DEF Latest
    <2>2. Deciding(kept).at \in Nat  BY <2>1, PlacesAreNumbers
    <2> HIDE DEF kept
    <2>3. RetryAfter(now) >= Deciding(kept).at + Window - now + 1 /\ RetryAfter(now) \in Nat
        BY <1>1, <1>6, <2>2, LimitAssumption, RetryTold DEF RetryAfter, kept
    <2> QED  BY <1>1, <2>1, <2>2, <2>3, LimitAssumption DEF p
<1>7. left \in SUBSET kept
    <2> SUFFICES ASSUME NEW h \in left  PROVE h \in kept
        OBVIOUS
    <2>1. CASE store = "memory"
        BY <1>2, <1>l, <2>1
    <2>2. CASE store # "memory"
        <3>1. h \in hits /\ h.at > p - Window  BY <1>2, <1>l, <2>2
        <3>2. h.at \in Nat  BY <3>1, PlacesAreNumbers
        <3> HIDE DEF p, kept
        <3> QED  BY <1>1, <1>4, <1>5, <3>1, <3>2, LimitAssumption
    <2> QED  BY <2>1, <2>2
<1>8. ASSUME kept # {}, store # "memory" \/ InOrderOfTime', NEW h \in left
      PROVE  h \in Behind(Deciding(kept), kept)
    <2> DEFINE d == Deciding(kept)
    <2>1. d \in kept /\ d \in hits /\ h \in hits /\ h \in kept /\ p - Window > d.at
        BY <1>5, <1>6, <1>7, <1>8 DEF Latest
    <2>2. h.at \in Nat /\ d.at \in Nat /\ h.n \in Nat /\ d.n \in Nat
        BY <2>1, PlacesAreNumbers
    <2>3. CASE store # "memory"
        <3>1. h.at > p - Window  BY <1>l, <1>8, <2>3
        <3> HIDE DEF p, d
        <3>2. h.at > d.at  BY <1>4, <2>1, <2>2, <3>1, LimitAssumption
        <3> QED  BY <2>1, <2>3, <3>2 DEF Behind, Place, d
    <2>4. CASE store = "memory"
        <3>1. PICK k \in kept : k.at > p - Window /\ k.n <= h.n
            BY <1>2, <1>l, <1>8, <2>4
        <3>2. k \in hits /\ k.at \in Nat /\ k.n \in Nat  BY <1>5, PlacesAreNumbers
        <3>3. InOrderOfTime' /\ hits' = kept  BY <1>2, <1>8, <2>4
        <3>4. k.n < d.n => k.at <= d.at  BY <2>1, <3>3 DEF InOrderOfTime
        <3>5. k.n = d.n => k = d  BY <2>1, <3>2 DEF LimiterInv
        <3> HIDE DEF p, d
        <3>6. k.at > d.at  BY <1>4, <2>1, <2>2, <3>1, <3>2, LimitAssumption
        <3>7. k.n > d.n  BY <2>2, <3>2, <3>4, <3>5, <3>6
        <3>8. h.n > d.n  BY <2>2, <3>1, <3>2, <3>7
        <3> QED  BY <2>1, <2>4, <3>8 DEF Behind, Place, d
    <2> QED  BY <2>3, <2>4
<1>9. ASSUME store # "memory" \/ InOrderOfTime'  PROVE Cardinality(left) + 1 <= Limit
    <2>1. CASE kept = {}
        <3>1. left = {}  BY <1>7, <2>1
        <3> QED  BY <3>1, FS_EmptySet, LimitAssumption
    <2>2. CASE kept # {}
        <3> DEFINE behind == Behind(Deciding(kept), kept)
        <3>1. left \in SUBSET behind  BY <1>8, <1>9, <2>2
        <3>2. Cardinality(behind) < Limit  BY <1>6, <2>2 DEF Latest
        <3>3. IsFiniteSet(behind)
            <4>1. behind \in SUBSET hits  BY <1>5 DEF Behind
            <4> HIDE DEF behind
            <4> QED  BY <4>1, FS_Subset DEF LimiterInv
        <3> HIDE DEF behind
        <3>4. Cardinality(left) <= Cardinality(behind) /\ IsFiniteSet(left)  BY <3>1, <3>3, FS_Subset
        <3>5. Cardinality(left) \in Nat /\ Cardinality(behind) \in Nat
            BY <3>3, <3>4, FS_CardinalityType
        <3> QED  BY <3>2, <3>4, <3>5, LimitAssumption
    <2> QED  BY <2>1, <2>2
<1>10. Fits(promise)' <=> Cardinality(left) + 1 <= Limit
    BY DEF Fits, Count, left
<1> QED  BY <1>2, <1>9, <1>10 DEF RetryAfterSuffices

\* RetryAfterSuffices: the answer to a caller refused holds for any limit and any
\* window, on the memory store if the hits have come in order.
THEOREM RetryAfterIsTrue == LimiterSpec => []RetryAfterSuffices
<1>1. LimiterInit => RetryAfterSuffices  BY DEF LimiterInit, RetryAfterSuffices
<1>2. ASSUME LimiterInv, RetryAfterSuffices, [LimiterNext]_limiterVars  PROVE RetryAfterSuffices'
    <2>1. CASE UNCHANGED <<store, hits, promise>>
        BY <1>2, <2>1 DEF RetryAfterSuffices, InOrderOfTime, Fits, Count, Pruned, Counts
    <2>2. CASE promise' = NoPromise
        BY <2>2 DEF RetryAfterSuffices
    <2>3. ASSUME NEW c \in Callers, Refuse429(c)  PROVE RetryAfterSuffices'
        BY <1>2, <2>3, ToldTruly
    <2> QED
        BY <1>2, <2>1, <2>2, <2>3
        DEF LimiterNext, Tick, ReadClock, Check, RecordHit, CommitHit, Arrives, StoreFails,
            Reset, limiterVars
<1>3. LimiterInv /\ RetryAfterSuffices /\ [LimiterNext]_limiterVars => RetryAfterSuffices'
    BY <1>2
<1> QED  BY <1>1, <1>3, LimiterStarts, LimiterKept, PTL DEF LimiterSpec

-----------------------------------------------------------------------------
(***************************************************************************)
(* The components of one deployment, each of which may be at work: they    *)
(* meet in the transactions only, and what a component knows of those is   *)
(* their type.                                                             *)
(***************************************************************************)
ComponentsInv == LedgerInv /\ PolicyInv /\ TenancyInv /\ AuditInv /\ LimiterInv

\* A component at rest keeps its invariant, whoever else uses the transactions.
LEMMA AtRest ==
    ASSUME TxnTypeOK'
    PROVE  /\ LedgerInv /\ UNCHANGED <<rowVars, work, historyVars>> => LedgerInv'
           /\ PolicyInv /\ UNCHANGED policyVars => PolicyInv'
           /\ TenancyInv /\ UNCHANGED tenancyVars => TenancyInv'
           /\ AuditInv /\ UNCHANGED auditVars => AuditInv'
           /\ LimiterInv /\ UNCHANGED limiterVars => LimiterInv'
<1>1. LedgerInv /\ UNCHANGED <<rowVars, work, historyVars>> => LedgerInv'
    BY DEF LedgerInv, LedgerTypeOK, Present, rowVars, historyVars
<1>2. PolicyInv /\ UNCHANGED policyVars => PolicyInv'
    BY DEF PolicyInv, PolicyTypeOK, Upserting, policyVars
<1>3. TenancyInv /\ UNCHANGED tenancyVars => TenancyInv'
    BY DEF TenancyInv, TenancyTypeOK, tenancyVars, Member
<1>4. AuditInv /\ UNCHANGED auditVars => AuditInv'
    BY DEF AuditInv, AuditTypeOK, auditVars, Holding
<1>5. LimiterInv /\ UNCHANGED limiterVars => LimiterInv'
    BY DEF LimiterInv, LimiterTypeOK, limiterVars
<1> QED  BY <1>1, <1>2, <1>3, <1>4, <1>5

LEMMA ComponentsKept ==
    ASSUME ComponentsInv,
           [PlatformNext]_<<ledgerVars, policyVars, tenancyVars, auditVars, limiterVars, part>>
    PROVE  ComponentsInv'
<1> USE DEF ComponentsInv
<1>t. /\ LedgerInv => TxnTypeOK
      /\ LedgerInv' => TxnTypeOK'
      /\ PolicyInv' => TxnTypeOK'
      /\ TenancyInv' => TxnTypeOK'
      /\ AuditInv' => TxnTypeOK'
    BY DEF LedgerInv, LedgerTypeOK, PolicyInv, TenancyInv, AuditInv
<1>1. CASE UNCHANGED <<ledgerVars, policyVars, tenancyVars, auditVars, limiterVars, part>>
    <2>1. TxnTypeOK'  BY <1>t, <1>1 DEF ledgerVars, txnVars, TxnTypeOK
    <2> QED  BY <1>1, <2>1, AtRest DEF ledgerVars
<1>2. CASE /\ LedgerNext
           /\ UNCHANGED <<policyVars, tenancyVars, auditVars, limiterVars>>
    BY <1>t, <1>2, InvKept, AtRest
<1>3. CASE /\ PolicyNext
           /\ UNCHANGED <<rowVars, work, historyVars, tenancyVars, auditVars, limiterVars>>
    BY <1>t, <1>3, PolicyTypes, AtRest
<1>4. CASE /\ TenancyNext
           /\ UNCHANGED <<rowVars, work, historyVars, policyVars, auditVars, limiterVars>>
    BY <1>t, <1>4, TenancyTypes, AtRest
<1>5. CASE /\ AuditNext
           /\ UNCHANGED <<rowVars, work, historyVars, policyVars, tenancyVars, limiterVars>>
    BY <1>t, <1>5, AuditStep, AtRest
<1>6. CASE /\ LimiterNext
           /\ UNCHANGED <<ledgerVars, policyVars, tenancyVars, auditVars>>
    <2>1. TxnTypeOK'  BY <1>t, <1>6 DEF ledgerVars, txnVars, TxnTypeOK
    <2> QED  BY <1>6, <2>1, LimiterKept, AtRest DEF ledgerVars
<1> QED  BY <1>1, <1>2, <1>3, <1>4, <1>5, <1>6 DEF PlatformNext

\* Whichever of the five components is at work, the rows, the requests and the
\* hits of all of them are well-formed.
THEOREM PlatformTypeCorrect == PlatformSpec => []PlatformTypeOK
<1>1. PlatformInit => ComponentsInv
    <2> SUFFICES ASSUME PlatformInit  PROVE ComponentsInv
        OBVIOUS
    <2>1. TxnInit  BY DEF PlatformInit, LedgerInit
    <2> QED
        BY <2>1, InitHolds, PolicyStarts, TenancyStarts, AuditStarts, LimiterStarts
        DEF PlatformInit, ComponentsInv
<1>2. ComponentsInv => PlatformTypeOK
    BY DEF ComponentsInv, LedgerInv, PolicyInv, TenancyInv, AuditInv, LimiterInv, PlatformTypeOK
<1> QED  BY <1>1, <1>2, ComponentsKept, PTL DEF PlatformSpec
=============================================================================
