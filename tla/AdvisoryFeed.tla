------------------------------ MODULE AdvisoryFeed ------------------------------
(***************************************************************************)
(* Advisories: how OSV records become entries of the database              *)
(* (scanners/osv.py, "ironclad advisories import-osv" in cli.py), and what *)
(* the sources answer (scanners/advisories.py).                            *)
(*                                                                         *)
(* A record has an id, a CVE or "", and the packages it affects, each with *)
(* ranges of events and with single versions.  A database is a set of      *)
(* entries; an entry says where it was read, at <<n, k>>: item k of record *)
(* n, which is the order of the lists that the code keeps.                 *)
(***************************************************************************)
EXTENDS AdvisoryMatch, FiniteSets

\* ironclad_ecosystem: the ecosystems that have a parser.
SCANNED_ECOSYSTEMS == {"python", "javascript", "go", "rust", "java", "php", "ruby", "nuget"}

UpperOperator(event) == IF event.kind = "last_affected" THEN "<=" ELSE "<"

\* The lower bound that event i leaves to what follows it: "introduced" 0 is none.
LowerBound(events, i) ==
    IF i # 0 /\ events[i].kind = "introduced" /\ events[i].v # Release(<<0>>)
    THEN {[op |-> ">=", v |-> events[i].v]} ELSE {}

\* Each upper bound with the lower bound before it, and a lower bound at the end.
RangeAlternatives(events) ==
    {{[op |-> UpperOperator(events[i]), v |-> events[i].v]} \cup LowerBound(events, i - 1) :
        i \in {j \in DOMAIN events : events[j].kind # "introduced"}}
    \cup ({LowerBound(events, Len(events))} \ {{}})

\* affected_range_from_osv.  A range that is open at both ends adds nothing, which
\* is made good for only if nothing else is there.
affected_range_from_osv(ranges, versions) ==
    LET released == {i \in DOMAIN ranges : ~ ranges[i].git}
        alternatives == (UNION {RangeAlternatives(ranges[i].events) : i \in released})
                        \cup {{[op |-> "=", v |-> v]} : v \in versions}
    IN  IF alternatives = {} THEN FromZero ELSE alternatives

Earlier(p, q) == p[1] < q[1] \/ (p[1] = q[1] /\ p[2] < q[2])

\* The first "fixed" of the ranges, git or not.
_first_fixed(ranges) ==
    LET fixed == UNION {{<<i, j>> : j \in {x \in DOMAIN ranges[i].events : ranges[i].events[x].kind = "fixed"}} :
                           i \in DOMAIN ranges}
        first == CHOOSE p \in fixed : \A q \in fixed : ~ Earlier(q, p)
    IN  IF fixed = {} THEN NoVersion ELSE ranges[first[1]].events[first[2]].v

\* record_to_entries: without any version information there is no entry.
record_to_entries(record, n) ==
    {LET item == record.affected[k]
     IN  [at |-> <<n, k>>, ecosystem |-> item.ecosystem, name |-> item.name,
          id |-> record.id, cve |-> record.cve,
          affected |-> affected_range_from_osv(item.ranges, item.versions),
          fixed_in |-> _first_fixed(item.ranges)] :
        k \in {i \in DOMAIN record.affected :
                  /\ record.affected[i].ecosystem \in SCANNED_ECOSYSTEMS
                  /\ record.affected[i].ranges # <<>> \/ record.affected[i].versions # {}}}

EntriesOf(records) == UNION {record_to_entries(records[n], n) : n \in DOMAIN records}

-----------------------------------------------------------------------------
SamePackage(x, y) == x.ecosystem = y.ecosystem /\ x.name = y.name

\* The first entry on a vulnerability of a package is kept, whatever else the
\* same record says of the package.
KeepFirst(entries, key) ==
    {x \in entries : \A y \in entries :
        SamePackage(y, x) /\ key[y] = key[x] => ~ Earlier(y.at, x.at)}

ById(entry) == entry.id

\* build_database, for the overlay and a remote answer: one entry for each id.
build_database(records) ==
    KeepFirst(EntriesOf(records), [x \in EntriesOf(records) |-> ById(x)])

DedupeKey(entry) == IF entry.cve # "" THEN entry.cve ELSE entry.id

\* import-osv: the feed that is named first wins; limit caps each package, 0 does not.
import_osv(records, limit) ==
    LET kept == KeepFirst(EntriesOf(records), [x \in EntriesOf(records) |-> DedupeKey(x)])
        before(x) == {y \in kept : SamePackage(y, x) /\ Earlier(y.at, x.at)}
    IN  {x \in kept : limit = 0 \/ Cardinality(before(x)) < limit}

-----------------------------------------------------------------------------
Lookup(database, ecosystem, name) ==
    {entry \in database : entry.ecosystem = ecosystem /\ entry.name = name}

\* _load_overlay: what a later file says of a package replaces what an earlier
\* one said of it.
Overlay(mirrored) ==
    UNION {{x \in build_database(mirrored[f]) :
               \A later \in {g \in DOMAIN mirrored : f < g} :
                   \A y \in build_database(mirrored[later]) : ~ SamePackage(x, y)} :
              f \in DOMAIN mirrored}

\* The entries of ours, and those of theirs whose id we do not have.
Merged(ours, theirs) == ours \cup {x \in theirs : \A y \in ours : y.id # x.id}

\* DirectoryAdvisorySource.lookup: an entry of the overlay replaces the bundled
\* one of the same id.
DirectoryLookup(database, mirrored, ecosystem, name) ==
    Merged(Lookup(Overlay(mirrored), ecosystem, name), Lookup(database, ecosystem, name))

\* RemoteAdvisorySource.lookup: what the feed adds.  If it cannot be asked, the
\* fallback answers alone.
RemoteLookup(database, records, answers, ecosystem, name) ==
    LET known == Lookup(database, ecosystem, name)
    IN  IF answers THEN Merged(known, Lookup(EntriesOf(records), ecosystem, name)) ELSE known
=============================================================================
