-------------------------------- MODULE Baseline --------------------------------
(***************************************************************************)
(* Baseline files (core/baseline.py): the findings that a team has         *)
(* accepted, each until a day or for ever.  A finding is a record with a   *)
(* field "fingerprint" and a field "severity"; a file is missing, cannot   *)
(* be read, or holds the entries of either schema.                         *)
(***************************************************************************)
EXTENDS Integers

CONSTANT Never      \* the expiry of an entry that does not lapse

ASSUME NeverAssumption == Never \notin Int

Missing == [schema |-> 0, entries |-> {}]
Malformed == [schema |-> 99, entries |-> {}]

\* Schema 1 is a flat list of fingerprints, schema 2 keeps an expiry with each.
Readable(file) == file.schema # 99
FlatList(fingerprints) == [schema |-> 1, entries |-> fingerprints]

\* Baseline.load of a file that can be read: what is not there accepts nothing.
LoadBaseline(file) ==
    CASE file.schema = 0 -> {}
      [] file.schema = 1 -> {[fingerprint |-> p, expires_at |-> Never] : p \in file.entries}
      [] OTHER -> file.entries

is_expired(entry, now) == entry.expires_at # Never /\ entry.expires_at <= now

active_fingerprints(entries, now) ==
    {entry.fingerprint : entry \in {x \in entries : ~ is_expired(x, now)}}
expired_entries(entries, now) == {entry \in entries : is_expired(entry, now)}

-----------------------------------------------------------------------------
\* create_baseline raises BaselineError: critical findings need a reason, or
\* force; a scan with --update-baseline always uses force.
Refused(findings, justified) ==
    ~ justified /\ \E f \in findings : f.severity = "critical"

\* days is the number of days, or Never; zero is taken for no expiry at all.
create_baseline(findings, days, now) ==
    [schema |-> 2,
     entries |-> {[fingerprint |-> f.fingerprint,
                   expires_at |-> IF days \in {0, Never} THEN Never ELSE now + days] :
                  f \in findings}]

\* diff_baseline: a finding with an active entry is suppressed, even if another
\* entry for it has expired; one whose entries have all expired is new again.
diff_baseline(findings, entries, now) ==
    LET active == active_fingerprints(entries, now)
        lapsed == {entry.fingerprint : entry \in expired_entries(entries, now)}
        new == {f \in findings : f.fingerprint \notin active}
    IN  [suppressed |-> findings \ new,
         new |-> new,
         expired |-> {f \in new : f.fingerprint \in lapsed},
         fixed |-> {entry \in entries : \A f \in findings : f.fingerprint # entry.fingerprint}]

\* Fault: the entries that no longer hold are taken for those of gone findings.
PruneExpired(entries, findings) ==
    [schema |-> 2, entries |-> {entry \in entries : entry.expires_at = Never}]

\* prune_baseline and Baseline.save.
prune_baseline(entries, findings) ==
    [schema |-> 2, entries |-> entries \ diff_baseline(findings, entries, 0).fixed]
=============================================================================
