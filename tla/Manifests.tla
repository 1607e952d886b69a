------------------------------- MODULE Manifests -------------------------------
(***************************************************************************)
(* The dependency manifests of a project: which files the walker lets      *)
(* through (core/walker.py, core/config.py), and what the parser of each   *)
(* format makes of them (scanners/dependency.py).                          *)
(*                                                                         *)
(* A file is its directory, its name, whether its text is "good", "broken" *)
(* or "empty" (in setup.py also "computed"), and what it lists: names with *)
(* a declaration, each in a section.  Text that is broken is not of the    *)
(* format at all.  A name is its words and the mark between them, "" if    *)
(* there is one word.                                                      *)
(***************************************************************************)
EXTENDS AdvisoryMatch, FiniteSets

CONSTANT Tomllib    \* whether Python has a TOML parser, as it has since 3.11

ASSUME TomllibAssumption == Tomllib \in BOOLEAN

LOCK_SUFFIX ==      \* the names that end in ".lock"
    {"Pipfile.lock", "poetry.lock", "yarn.lock", "Cargo.lock", "composer.lock", "Gemfile.lock"}

DEPENDENCY_MANIFESTS ==
    {"requirements.txt", "constraints.txt", "Pipfile", "poetry.lock", "Pipfile.lock", "setup.py",
     "pyproject.toml", "package.json", "package-lock.json", "yarn.lock", "pnpm-lock.yaml",
     "go.mod", "go.sum", "Cargo.toml", "Cargo.lock", "pom.xml", "build.gradle", "build.gradle.kts",
     "composer.json", "composer.lock", "Gemfile", "Gemfile.lock", "packages.config"}

\* DEFAULT_EXCLUDE_FILE_GLOBS has "*.lock", and what is configured only adds to it.
ExcludedByGlob(file) == file.name \in LOCK_SUFFIX

\* DEFAULT_EXCLUDE_DIRS.
DEFAULT_EXCLUDE_DIRS == {"node_modules", "vendor", "venv", "dist", "build", "target"}

InRequirementsDirectory(file) == file.dir = "requirements" /\ file.name = "tests.txt"

is_dependency_manifest(file) ==
    \/ file.name \in DEPENDENCY_MANIFESTS \cup {"requirements-dev.txt", "App.csproj"}
    \/ InRequirementsDirectory(file)

\* The manifests among the files that discover returns.
DiscoveredManifests(tree) ==
    {file \in tree : /\ file.dir \notin DEFAULT_EXCLUDE_DIRS
                     /\ ~ ExcludedByGlob(file)
                     /\ is_dependency_manifest(file)}

-----------------------------------------------------------------------------
Outcome(dependencies, errors) == [dependencies |-> dependencies, errors |-> errors]

\* normalize_name (PEP 503); letters are small ones.
normalize_name(ecosystem, name) ==
    IF ecosystem = "python" /\ name.mark # "" THEN [name EXCEPT !.mark = "-"] ELSE name

\* _dep, of an entry whose declaration is spec; the entry stands for its line.
Dependency(entry, ecosystem, version, spec) ==
    [entry |-> entry, ecosystem |-> ecosystem, name |-> normalize_name(ecosystem, entry.name),
     version |-> version, spec |-> spec, pinned |-> spec_is_pinned(spec)]

\* The lowest version that a declaration names stands for it ...
Declared(entries, ecosystem) ==
    {Dependency(e, ecosystem, MinimumCandidate(e.spec), e.spec) : e \in entries}
\* ... and a version that a file records is exact.
Resolved(e, ecosystem, version) == Dependency(e, ecosystem, version, [op |-> "==", v |-> version])
Recorded(entries, ecosystem) == {Resolved(e, ecosystem, e.spec.v) : e \in entries}

In(file, sections) == {e \in file.lists : e.section \in sections}
Versioned(entries) == {e \in entries : MinimumCandidate(e.spec) # NoVersion}

\* The first of several bounds, written with operator op.
FirstBound(spec, op) == IF spec.op = "," THEN [op |-> op, v |-> spec.v] ELSE spec
DeclaredFirst(entries, ecosystem, op) ==
    {Dependency(e, ecosystem, MinimumCandidate(e.spec), FirstBound(e.spec, op)) : e \in entries}

\* An empty file is a good one in TOML, but neither in JSON nor in YAML.  Without
\* a parser some formats are an error, and the others are passed over.
Toml(file, unparsed, dependencies) ==
    CASE ~ Tomllib -> Outcome({}, unparsed)
      [] Tomllib /\ file.text = "good" -> Outcome(dependencies, {})
      [] Tomllib /\ file.text = "empty" -> Outcome({}, {})
      [] OTHER -> Outcome({}, {"MALFORMED"})
Json(file, dependencies) ==
    IF file.text = "good" THEN Outcome(dependencies, {}) ELSE Outcome({}, {"MALFORMED"})

\* Formats that are searched for lines: what is not found is not missed.
Lines(file, dependencies) == Outcome(IF file.text = "good" THEN dependencies ELSE {}, {})
LinesUnlessEmpty(file, dependencies) ==
    IF file.text = "empty" THEN Outcome({}, {"EMPTY"}) ELSE Lines(file, dependencies)

-----------------------------------------------------------------------------
\* _parse_requirements_txt: a line without a version is an error.
ParseRequirementsTxt(file) ==
    CASE file.text = "empty" -> Outcome({}, {"EMPTY"})
      [] file.text = "broken" -> Outcome({}, {"UNPARSEABLE-LINE"})
      [] OTHER -> Outcome(Declared(Versioned(file.lists), "python"),
                          IF \E e \in file.lists : e.spec.op = "none"
                          THEN {"UNPARSEABLE-LINE"} ELSE {})

\* _parse_json_lock, which only Pipfile.lock uses.
ParsePipfileLock(file) == Json(file, Recorded(In(file, {"main", "dev"}), "python"))

ParsePoetryLock(file) == Toml(file, {"NO-TOML-PARSER"}, Recorded(file.lists, "python"))

\* _parse_pyproject.  The whole requirement, name and all, is taken for the
\* declaration of an entry of [project]; poetry's tables hold declarations.
ParsePyproject(file) ==
    LET whole(e) == [op |-> "name==", v |-> e.spec.v]
        project == {Dependency(e, "python", MinimumCandidate(e.spec), whole(e)) :
                       e \in Versioned(In(file, {"main"}))}
    IN  Toml(file, {}, project \cup Declared(In(file, {"poetry", "dev"}), "python"))

ParsePipfile(file) ==
    Toml(file, {"UNPARSED"}, Declared(Versioned(In(file, {"main", "dev"})), "python"))

\* _parse_setup_py: a requirement ends at its first comma.  A file of setuptools
\* whose list is computed is an error, another one without a list is not.
ParseSetupPy(file) ==
    CASE file.text = "good" -> Outcome(DeclaredFirst(In(file, {"main"}), "python", ">="), {})
      [] file.text = "computed" -> Outcome({}, {"UNPARSED"})
      [] OTHER -> Outcome({}, {})

\* _parse_package_json, whose sections are all alike; a URL has no version.
ParsePackageJson(file) == Json(file, Declared(file.lists, "javascript"))

\* _parse_package_lock, of either version of the format.
ParsePackageLock(file) == Json(file, Recorded(file.lists, "javascript"))

ParseYarnLock(file) == LinesUnlessEmpty(file, Recorded(file.lists, "javascript"))
ParsePnpmLock(file) == Json(file, Recorded(file.lists, "javascript"))

\* _parse_go_mod reads the numbers and leaves what follows them ...
ParseGoMod(file) ==
    Lines(file, {Resolved(e, "go", Release(e.spec.v.core)) : e \in file.lists})
\* ... _parse_go_sum passes over a line with more than numbers.
ParseGoSum(file) ==
    Lines(file, Recorded({e \in file.lists : e.spec.v.pre = 0}, "go"))

\* _parse_cargo_toml: only "=" pins, a bare version is a caret range to Cargo.
ParseCargoToml(file) ==
    Toml(file, {}, {[dep EXCEPT !.pinned = dep.spec.op = "="] : dep \in Declared(file.lists, "rust")})

ParseCargoLock(file) == Toml(file, {}, Recorded(file.lists, "rust"))

\* _parse_pom_xml: a property in place of a version is an error, and so is a file
\* that declares no dependency.
ParsePomXml(file) ==
    IF file.text = "empty" THEN Outcome({}, {"EMPTY"})
    ELSE IF file.text = "broken" \/ file.lists = {} THEN Outcome({}, {"NO-DEPENDENCIES"})
    ELSE Outcome(Declared(file.lists, "java"),
                 IF \E e \in file.lists : e.spec.op = "property" THEN {"UNRESOLVED-VERSION"} ELSE {})

ParseGradle(file) == Lines(file, Declared(Versioned(file.lists), "java"))
ParseComposerJson(file) == Json(file, Declared(In(file, {"main", "dev"}), "php"))
ParseComposerLock(file) == Json(file, Recorded(In(file, {"main", "dev"}), "php"))

\* _parse_gemfile: of the constraints on a gem the first is read.
ParseGemfile(file) == Lines(file, DeclaredFirst(file.lists, "ruby", ">= "))

ParseGemfileLock(file) ==
    IF file.text = "good" THEN Outcome(Recorded(file.lists, "ruby"), {})
    ELSE Outcome({}, {"UNRECOGNIZED"})

ParsePackagesConfig(file) == Lines(file, Recorded(file.lists, "nuget"))
ParseCsproj(file) == Lines(file, Recorded(file.lists, "nuget"))

-----------------------------------------------------------------------------
\* MANIFEST_PARSERS, parser_for and parse_manifest.
parse_manifest(file) ==
    CASE file.name \in {"requirements.txt", "constraints.txt", "requirements-dev.txt"}
             \/ InRequirementsDirectory(file) -> ParseRequirementsTxt(file)
      [] file.name = "Pipfile" -> ParsePipfile(file)
      [] file.name = "setup.py" -> ParseSetupPy(file)
      [] file.name = "Pipfile.lock" -> ParsePipfileLock(file)
      [] file.name = "poetry.lock" -> ParsePoetryLock(file)
      [] file.name = "pyproject.toml" -> ParsePyproject(file)
      [] file.name = "package.json" -> ParsePackageJson(file)
      [] file.name = "package-lock.json" -> ParsePackageLock(file)
      [] file.name = "yarn.lock" -> ParseYarnLock(file)
      [] file.name = "pnpm-lock.yaml" -> ParsePnpmLock(file)
      [] file.name = "go.mod" -> ParseGoMod(file)
      [] file.name = "go.sum" -> ParseGoSum(file)
      [] file.name = "Cargo.toml" -> ParseCargoToml(file)
      [] file.name = "Cargo.lock" -> ParseCargoLock(file)
      [] file.name = "pom.xml" -> ParsePomXml(file)
      [] file.name \in {"build.gradle", "build.gradle.kts"} -> ParseGradle(file)
      [] file.name = "composer.json" -> ParseComposerJson(file)
      [] file.name = "composer.lock" -> ParseComposerLock(file)
      [] file.name = "Gemfile" -> ParseGemfile(file)
      [] file.name = "Gemfile.lock" -> ParseGemfileLock(file)
      [] file.name = "packages.config" -> ParsePackagesConfig(file)
      [] file.name = "App.csproj" -> ParseCsproj(file)
=============================================================================
