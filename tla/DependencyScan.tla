----------------------------- MODULE DependencyScan -----------------------------
(***************************************************************************)
(* The dependency engine at work: manifests are edited, advisories are     *)
(* published upstream, imported into the database or mirrored into an      *)
(* overlay directory, and a scan matches the one against the other         *)
(* (scan_dependencies).                                                    *)
(***************************************************************************)
EXTENDS Manifests, AdvisoryFeed

CONSTANTS
    Trees,          \* the sets of files that a project may consist of
    Feeds,          \* the sequences of OSV records that upstream may have published
    Limits,         \* the caps per package that import-osv may be given
    Versions        \* the versions that properties speak of

VersionType ==
    {v \in [core : Seq(Nat), pre : 0..99, hyphen : BOOLEAN] :
        Len(v.core) <= 4 /\ (v.pre = 0 => ~ v.hyphen)}
NameType == [word : STRING, mark : {"", "-", ".", "_"}]
OsvEvent == [kind : {"introduced", "fixed", "last_affected", "limit"}, v : VersionType]
OsvRange == [git : BOOLEAN, events : Seq(OsvEvent)]
OsvItem ==
    [ecosystem : STRING, name : NameType, ranges : Seq(OsvRange), versions : SUBSET VersionType]
OsvRecord == [id : STRING \ {""}, cve : STRING, affected : Seq(OsvItem)]

\* The files that record what is installed.
Recording ==
    LOCK_SUFFIX \cup {"package-lock.json", "pnpm-lock.yaml", "go.mod", "go.sum", "packages.config",
                      "App.csproj"}

\* What a manifest may say in a section: an operator with a version, or without one.
Versionless == {"none", "*", "url", "property"}
Comparators == {">=", "<=", ">", "<"}
Pep508 == Comparators \cup {"none", "==", "===", "!=", "~=", ","}
Syntax(file, section) ==
    CASE file.name \in Recording -> {""}
      [] file.name = "pyproject.toml" ->
             IF section = "main" THEN Pep508
             ELSE Comparators \cup {"", "==", "!=", "*", "^", "~", "x", ",", "||"}
      [] file.name = "Pipfile" -> (Pep508 \cup {"*"}) \ {"none"}
      [] file.name = "package.json" ->
             Comparators \cup Spaced \cup {"", "=", "*", "url", "^", "~", "x", ",", "||"}
      [] file.name = "Cargo.toml" ->
             Comparators \cup Spaced \cup {"", "=", "*", "^", "~", "x", ","}
      [] file.name = "pom.xml" -> {"", "none", "property", "[,)"}
      [] file.name \in {"build.gradle", "build.gradle.kts"} -> {"", "none"}
      [] file.name = "composer.json" ->
             Comparators \cup {"", "!=", "*", "^", "~", "x", ",", "||"}
      [] file.name = "Gemfile" -> Comparators \cup Spaced \cup {"", "none", "=", "~>", ","}
      [] OTHER -> Pep508

ASSUME TreesAssumption ==
    \A files \in Trees : \A file \in files : \A e \in file.lists :
        /\ e.name \in NameType
        /\ e.spec.op \in Syntax(file, e.section) /\ e.spec.v \in VersionType
        /\ e.spec.op \notin Versionless => e.spec.v.core # <<>>
        /\ e.spec.op \in {",", "[,)", "||"} => e.spec.to \in VersionType /\ e.spec.to.pre = 0

\* Versions that the code compares as the ecosystems do: see the README.
ReadRight(v) == v.pre # 0 => v.hyphen /\ v.pre < 10

\* What a record calls fixed is not affected.
ASSUME FeedsAssumption ==
    \A records \in Feeds :
        /\ records \in Seq(OsvRecord)
        /\ \A entry \in EntriesOf(records) : \A c \in UNION entry.affected : ReadRight(c.v)
        /\ \A entry \in EntriesOf(records) :
              entry.fixed_in # NoVersion => ~ Satisfies(entry.fixed_in, entry.affected)

\* Properties speak of all the releases that are named; 0 comes before them.
ASSUME VersionsAssumption ==
    /\ \A v \in Versions : /\ v \in VersionType /\ v # NoVersion /\ ReadRight(v)
                          /\ ~ VersionLess(v, Release(<<0>>))
    /\ \A files \in Trees : \A file \in files : \A e \in file.lists :
          e.spec.v.core # <<>> => Release(e.spec.v.core) \in Versions
    /\ \A records \in Feeds : \A entry \in EntriesOf(records) :
          entry.fixed_in \in Versions \cup {NoVersion}

VARIABLES
    tree,           \* the files of the project
    feed,           \* what upstream has published
    database,       \* the entries that are shipped, or were imported last
    mirrored,       \* the files of the overlay directory: sequences of records
    report          \* the findings of the last scan, and the source it asked

dependencyVars == <<tree, feed, database, mirrored, report>>

NoReport == [source |-> "none", findings |-> {}]

DependencyInit ==
    /\ tree \in Trees
    /\ feed \in Feeds
    /\ database = {}
    /\ mirrored = <<>>
    /\ report = NoReport

\* ironclad advisories import-osv, once (a bound).
ImportOsv(limit) ==
    /\ database = {} /\ mirrored = <<>>
    /\ database' = import_osv(feed, limit)
    /\ report' = NoReport
    /\ UNCHANGED <<tree, feed, mirrored>>

\* The operator mirrors a published record, in a file of its own.
MirrorRecord ==
    /\ Len(mirrored) < Len(feed)
    /\ mirrored' = Append(mirrored, <<feed[Len(mirrored) + 1]>>)
    /\ report' = NoReport
    /\ UNCHANGED <<tree, feed, database>>

-----------------------------------------------------------------------------
\* lookup of the source that build_source made.
LookupIn(source, ecosystem, name) ==
    CASE source = "bundled" -> Lookup(database, ecosystem, name)
      [] source = "directory" -> DirectoryLookup(database, mirrored, ecosystem, name)
      [] source = "remote" -> RemoteLookup(database, feed, TRUE, ecosystem, name)
      [] source = "remote down" -> RemoteLookup(database, feed, FALSE, ecosystem, name)

ManifestProblems(file) ==
    {[kind |-> "manifest", file |-> file, problem |-> e] : e \in parse_manifest(file).errors}

Vulnerability(file, dep, advisory) ==
    [kind |-> "vulnerability", file |-> file, dep |-> dep, advisory |-> advisory]

Vulnerabilities(file, source) ==
    UNION {{Vulnerability(file, dep, advisory) :
               advisory \in {x \in LookupIn(source, dep.ecosystem, dep.name) : Applies(dep, x)}} :
           dep \in parse_manifest(file).dependencies}

\* scan_dependencies, over the manifests that the walker has found.
ScanDependencies(source) ==
    /\ report' = [source |-> source,
                  findings |-> UNION {ManifestProblems(file) \cup Vulnerabilities(file, source) :
                                         file \in DiscoveredManifests(tree)}]
    /\ UNCHANGED <<tree, feed, database, mirrored>>

DependencyNext ==
    \/ \E limit \in Limits : ImportOsv(limit)
    \/ MirrorRecord
    \/ \E source \in {"bundled", "directory", "remote", "remote down"} : ScanDependencies(source)

DependencySpec == DependencyInit /\ [][DependencyNext]_dependencyVars

-----------------------------------------------------------------------------
(***************************************************************************)
(* What the package managers and the OSV schema mean.                      *)
(***************************************************************************)
\* A prerelease comes before its release, and after one that has a lower number.
Precedes(v, w) ==
    LET number(x, i) == IF i <= Len(x.core) THEN x.core[i] ELSE 0
        differ == {i \in 1..4 : number(v, i) # number(w, i)}
    IN  \/ \E i \in differ : /\ \A j \in differ : i <= j
                           /\ number(v, i) < number(w, i)
        \/ differ = {} /\ v.pre # 0 /\ (w.pre = 0 \/ v.pre < w.pre)

AtMost(v, w) == ~ VersionLess(w, v)

\* The releases that a declaration allows to be installed.
Installable(spec, v) ==
    LET from == spec.v
        below(core) == AtMost(from, v) /\ VersionLess(v, Release(core))
    IN  CASE spec.op = "*" -> TRUE
          [] spec.op \in {"", "=", "==", "===", "name=="} -> VersionEqual(v, from)
          [] spec.op = ">=" -> AtMost(from, v)
          [] spec.op = "<=" -> AtMost(v, from)
          [] spec.op = ">" -> VersionLess(from, v)
          [] spec.op = "<" -> VersionLess(v, from)
          [] spec.op = "!=" -> ~ VersionEqual(v, from)
          [] spec.op \in {"~>", "~="} -> below(Bump(from.core, Len(from.core) - 1))
          [] spec.op = "^" -> below(Bump(from.core, CHOOSE i \in 1..Len(from.core) :
                                             /\ from.core[i] # 0 \/ i = Len(from.core)
                                             /\ \A j \in 1..(i - 1) : from.core[j] = 0))
          [] spec.op = "~" -> below(Bump(from.core, IF Len(from.core) = 1 THEN 1 ELSE 2))
          [] spec.op = "x" -> below(Bump(from.core, Len(from.core)))
          [] spec.op \in {",", "[,)"} -> below(spec.to.core)
          [] spec.op = "||" -> AtMost(from, v) \/ VersionLess(v, spec.to)

\* The last event that is not above v decides; a version that is the last one
\* affected still is.
AffectedByRange(events, v) ==
    LET past == {i \in DOMAIN events : \/ AtMost(events[i].v, v) /\ events[i].kind # "last_affected"
                                       \/ VersionLess(events[i].v, v)}
    IN  \E i \in past : events[i].kind = "introduced" /\ \A j \in past : j <= i

AffectedBy(affected, v) ==
    \/ \E w \in affected.versions : VersionEqual(v, w)
    \/ \E i \in DOMAIN affected.ranges :
          ~ affected.ranges[i].git /\ AffectedByRange(affected.ranges[i].events, v)

-----------------------------------------------------------------------------
(***************************************************************************)
(* Properties.                                                             *)
(***************************************************************************)
Exact(file, e) == file.name \in Recording \/ spec_is_pinned(e.spec)

MayBeInstalled(file, e) ==
    IF Exact(file, e) THEN {e.spec.v} ELSE {v \in Versions : Installable(e.spec, v)}

\* The sections that the parser of a format reads.
SectionsRead(file) ==
    CASE file.name = "setup.py" -> {"main"}
      [] file.name = "pyproject.toml" -> {"poetry", "dev"}
      [] file.name \in {"Pipfile", "Pipfile.lock", "composer.json", "composer.lock"} -> {"main", "dev"}
      [] OTHER -> {"main", "dev", "poetry"}

\* The ecosystem of a manifest, and the formats that are TOML.
EcosystemOf(file) ==
    CASE file.name \in {"package.json", "package-lock.json", "pnpm-lock.yaml", "yarn.lock"} -> "javascript"
      [] file.name \in {"go.mod", "go.sum"} -> "go"
      [] file.name \in {"Cargo.toml", "Cargo.lock"} -> "rust"
      [] file.name \in {"pom.xml", "build.gradle", "build.gradle.kts"} -> "java"
      [] file.name \in {"composer.json", "composer.lock"} -> "php"
      [] file.name \in {"Gemfile", "Gemfile.lock"} -> "ruby"
      [] file.name \in {"packages.config", "App.csproj"} -> "nuget"
      [] OTHER -> "python"

TomlFormats == {"pyproject.toml", "poetry.lock", "Pipfile", "Cargo.toml", "Cargo.lock"}

\* What the parsers are known not to understand: see the README.
Understood(file, e) ==
    /\ e.spec.op \notin {"none", "*", "url", "property", "!=", "~="} \cup Spaced
    /\ e.section \in SectionsRead(file)
    /\ file.name \in TomlFormats => Tomllib
    /\ file.name = "Cargo.toml" => e.spec.op # ""
    /\ file.name = "composer.json" => e.spec.op # "~"
    /\ file.name \in {"setup.py", "Gemfile"} => e.spec.op # ","
    /\ normalize_name(EcosystemOf(file), e.name) = e.name
    /\ ReadRight(e.spec.v)
    /\ e.spec.v.pre # 0 => file.name \in Recording \ {"go.mod", "go.sum"}
    /\ e.spec.op = "^" => \E i \in DOMAIN e.spec.v.core : i <= 2 /\ e.spec.v.core[i] # 0
    /\ e.spec.op = "~>" => Len(e.spec.v.core) >= 2
    /\ Exact(file, e) \/ Installable(e.spec, MinimumCandidate(e.spec))

ReportedIn(findings, file, e, advisory) ==
    \E f \in findings : /\ f.kind = "vulnerability" /\ f.file = file
                        /\ f.dep.entry = e /\ f.advisory = advisory

\* "If the range admits the patched release, the manifest is not itself evidence
\* of a vulnerable install": with the database, what a manifest declares is
\* reported if all that it lets be installed is affected, not reported if nothing
\* of it is or, for a range, if the fixed version is in it.
ReportsWhatMustBeVulnerable ==
    report.source = "bundled" =>
        \A file \in DiscoveredManifests(tree), advisory \in database :
            file.text = "good" =>
            \A e \in {x \in file.lists : Understood(file, x)} :
                LET installable == MayBeInstalled(file, e)
                    affected == {v \in installable : Satisfies(v, advisory.affected)}
                    reported == ReportedIn(report.findings, file, e, advisory)
                IN  /\ reported => affected # {}
                    /\ reported /\ ~ Exact(file, e) => advisory.fixed_in \notin installable
                    /\ installable # {} /\ affected = installable
                       /\ advisory.name = e.name /\ advisory.ecosystem = EcosystemOf(file)
                       => reported

\* The names under which a vulnerability is known.
KnownAs(record) == {record.id, record.cve} \ {""}

FirstOnIt(records, n) ==
    \A m \in 1..(n - 1) : KnownAs(records[m]) \cap KnownAs(records[n]) = {}

\* The versions that an entry on the package a names, under the record's key.
Covered(entries, record, a) ==
    {v \in Versions : \E x \in entries :
        /\ SamePackage(x, a)
        /\ x.cve = record.cve
        /\ record.cve = "" => x.id = record.id
        /\ Satisfies(v, x.affected)}

Usable(a) ==
    /\ a.ecosystem \in SCANNED_ECOSYSTEMS
    /\ a.versions # {} \/ \E i \in DOMAIN a.ranges : ~ a.ranges[i].git

\* Events come in order, and "introduced" takes turns with the other kinds.  A
\* version that is introduced is above all that came before it; 0 comes first.
InTurns(events) ==
    /\ events # <<>> /\ events[1].kind = "introduced"
    /\ \A i \in 2..Len(events) :
          /\ events[i].kind = "introduced" <=> events[i - 1].kind # "introduced"
          /\ events[i].v # Release(<<0>>)
    /\ \A i, j \in DOMAIN events : i < j =>
          IF events[j].kind = "introduced" THEN VersionLess(events[i].v, events[j].v)
                                           ELSE AtMost(events[i].v, events[j].v)

\* An item that is the only one on its package and has no range that is open at
\* both ends.
Simple(record, a) ==
    /\ \A m, n \in DOMAIN record.affected :
          SamePackage(record.affected[m], a) /\ SamePackage(record.affected[n], a) => m = n
    /\ \A i \in DOMAIN a.ranges : ~ a.ranges[i].git =>
          /\ InTurns(a.ranges[i].events)
          /\ a.ranges[i].events # <<[kind |-> "introduced", v |-> Release(<<0>>)]>>

\* "merging two feeds does not report the same vulnerability twice", and loses
\* none: an import has one entry for each vulnerability of a package, on exactly
\* the versions that the first record on it says are affected.
ImportIsFaithful ==
    [][ImportOsv(0) =>
        /\ \A x, y \in database' :
              x # y /\ SamePackage(x, y) => x.cve = "" \/ x.cve # y.cve
        /\ \A n \in DOMAIN feed : FirstOnIt(feed, n) =>
              \A k \in DOMAIN feed[n].affected :
                  LET a == feed[n].affected[k]
                  IN  Usable(a) /\ Simple(feed[n], a)
                      => Covered(database', feed[n], a) = {v \in Versions : AffectedBy(a, v)}
      ]_dependencyVars

\* "so an operator's overlay is never silently narrower than the feed it came
\* from" (scanners/osv.py:180).
FeedNeverNarrower ==
    [][ImportOsv(0) =>
        \A n \in DOMAIN feed : FirstOnIt(feed, n) =>
            \A k \in DOMAIN feed[n].affected :
                LET a == feed[n].affected[k]
                IN  Usable(a) => {v \in Versions : AffectedBy(a, v)} \subseteq Covered(database', feed[n], a)
      ]_dependencyVars

\* "Lockfiles are preferred when present because they pin the resolved versions"
\* (scanners/dependency.py:9): what a lockfile of the project records is reported
\* if it is affected.
LockedVersionsAreMatched ==
    report.source = "bundled" =>
        \A file \in tree, advisory \in database :
            file.name \in Recording /\ file.text = "good" /\ file.dir = "" =>
                \A e \in file.lists :
                    /\ advisory.name = e.name /\ advisory.ecosystem = EcosystemOf(file)
                    /\ Satisfies(e.spec.v, advisory.affected)
                    => ReportedIn(report.findings, file, e, advisory)
=============================================================================
