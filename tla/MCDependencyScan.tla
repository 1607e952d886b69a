---------------------------- MODULE MCDependencyScan ----------------------------
(* DependencyScan on a small instance: one package, declared in many ways, and *)
(* one whose name has a dot.                                                   *)
EXTENDS DependencyScan

V(a, b, c) == Release(<<a, b, c>>)
Candidate == [core |-> <<1, 2, 0>>, pre |-> 1, hyphen |-> TRUE]
Rc == [Candidate EXCEPT !.hyphen = FALSE]
Tenth == [Candidate EXCEPT !.pre = 10]
MCVersions ==
    {V(a, b, c) : a \in 0..2, b \in 0..2, c \in 0..1} \cup {Candidate, Release(<<1>>), Release(<<1, 1>>)}

Op(op, v) == [op |-> op, v |-> v]
Span(op, v, w) == [op |-> op, v |-> v, to |-> w]
Plain == {Op(op, v) : op \in {"", ">=", "<=", "<", ">"}, v \in {V(1, 1, 0), V(1, 2, 0)}}
Npm == {Op("^", V(1, 1, 0)), Op("^", V(0, 1, 0)), Op("^", V(0, 0, 1)), Op("~", V(1, 1, 0)),
        Op("x", Release(<<1>>)), Op("x", Release(<<1, 1>>)), Op("*", NoVersion), Op("url", NoVersion),
        Span(",", V(1, 0, 0), V(1, 2, 0)), Span(",", V(1, 0, 0), V(2, 0, 0)),
        Span("||", V(2, 0, 0), V(1, 0, 0)), Op("", Candidate), Op(">=", Rc), Op("<= ", V(1, 1, 0))}
Gems == {Op("~>", V(1, 1, 0)), Op("<=", V(1, 1, 0)), Op("<= ", V(1, 1, 0)), Op("none", NoVersion),
         Span(",", V(1, 0, 0), V(1, 2, 0))}
Pip == {Op("==", V(1, 1, 0)), Op("===", V(1, 1, 0)), Op("~=", V(1, 1, 0)), Op("!=", V(1, 1, 0)),
        Op("none", NoVersion), Span(",", V(1, 0, 0), V(1, 2, 0)), Op("==", Rc)}

Left == [word |-> "left", mark |-> ""]
LeftPad == [word |-> "left pad", mark |-> "."]

File(name, spec) ==
    [dir |-> "", name |-> name, text |-> "good",
     lists |-> {[name |-> Left, spec |-> spec, section |-> "main"]}]
\* The file that says which version it is, in the syntax of its format.
Saying(name, v) ==
    LET op == IF "" \in Syntax(File(name, Op("", v)), "main") THEN "" ELSE "=="
    IN  File(name, Op(op, v))
Bad(name, text) == [Saying(name, V(1, 1, 0)) EXCEPT !.text = text]
Poetry == [Saying("pyproject.toml", V(1, 1, 0)) EXCEPT !.lists = {
    [name |-> Left, spec |-> s, section |-> "poetry"] : s \in {Op("", V(1, 1, 0)), Op("^", V(0, 1, 0))}}]
Marked(name) ==
    [File(name, Op("", V(1, 1, 0))) EXCEPT !.lists = {
        [name |-> n, spec |-> IF name = "package.json" THEN Op("", V(1, 1, 0)) ELSE Op("==", V(1, 1, 0)),
         section |-> "main"] : n \in {Left, LeftPad, [LeftPad EXCEPT !.mark = "-"]}}]
ManifestNames == DEPENDENCY_MANIFESTS \cup {"requirements-dev.txt", "App.csproj", "README.md"}

MCTrees ==
    {{File("package.json", s)} : s \in Plain \cup Npm}
    \cup {{File(n, s)} : n \in {"requirements.txt", "setup.py"}, s \in Pip}
    \cup {{File("Pipfile", s)} : s \in {Op("*", NoVersion), Op("==", V(1, 1, 0))}}
    \cup {{File("Gemfile", s)} : s \in Gems}
    \cup {{Poetry}, {Marked("requirements.txt")}, {Marked("package.json")}, {Bad("setup.py", "computed")},
          {File("package-lock.json", Op("", Tenth))}, {File("pom.xml", Span("[,)", V(1, 0, 0), V(1, 2, 0)))},
          {File("pom.xml", Op("property", NoVersion))}, {File("Cargo.toml", Op("=", V(1, 1, 0)))}}
    \cup {{Saying(n, v)} : n \in ManifestNames \ {"package.json"}, v \in {V(1, 1, 0), Candidate}}
    \cup {{Bad(n, t)} : n \in ManifestNames \ {"README.md"}, t \in {"broken", "empty"}}
    \cup {{[File("tests.txt", Op("==", V(1, 1, 0))) EXCEPT !.dir = "requirements"],
           [Saying("pom.xml", V(1, 1, 0)) EXCEPT !.dir = "vendor"]}}

-----------------------------------------------------------------------------
Event(kind, v) == [kind |-> kind, v |-> v]
Begin == Event("introduced", Release(<<0>>))
Semver(events) == [git |-> FALSE, events |-> events]
Item(ecosystem, ranges, versions) ==
    [ecosystem |-> ecosystem, name |-> Left, ranges |-> ranges, versions |-> versions]
Everywhere(ranges, versions) ==
    [i \in 1..8 |-> Item(<<"python", "javascript", "go", "rust", "java", "php", "ruby", "nuget">>[i],
                         ranges, versions)]
Record(id, cve, affected) == [id |-> id, cve |-> cve, affected |-> affected]

Below == Record("G1", "C1", Everywhere(<<Semver(<<Begin, Event("fixed", V(1, 2, 0))>>)>>, {}))
Twice == Record("P1", "C1", Everywhere(<<Semver(<<Begin, Event("limit", V(2, 0, 0))>>)>>, {}))
Windows ==
    Record("G2", "", Everywhere(<<Semver(<<Event("introduced", V(1, 0, 0)), Event("last_affected", V(1, 1, 0)),
                                          Event("introduced", V(2, 0, 0))>>)>>, {V(0, 1, 0)}))
Commits == Record("G3", "", Everywhere(<<[git |-> TRUE, events |-> <<Begin>>]>>, {})
                            \o <<Item("haskell", <<Semver(<<Begin>>)>>, {}), Item("go", <<>>, {})>>)
Padding ==
    Record("G5", "", [i \in 1..4 |-> [Item(IF i <= 2 THEN "python" ELSE "javascript",
                                           <<Semver(<<Begin, Event("fixed", V(1, 2, 0))>>)>>, {})
                                      EXCEPT !.name = [LeftPad EXCEPT !.mark = IF i % 2 = 0 THEN "-" ELSE "."]]])
MCFeeds == {<<>>, <<Below>>, <<Windows>>, <<Commits>>, <<Padding>>, <<Below, Twice>>, <<Twice, Windows>>}

\* A record with an item for each series of releases, as reviewed advisories have.
Series ==
    Record("G4", "C4", <<Item("python", <<Semver(<<Begin, Event("fixed", V(1, 0, 0))>>)>>, {}),
                         Item("python", <<Semver(<<Event("introduced", V(1, 1, 0)),
                                                  Event("fixed", V(1, 2, 0))>>)>>, {})>>)
MCSeriesFeeds == {<<>>, <<Below>>, <<Series>>}
=============================================================================
