------------------------------- MODULE ScanEngine -------------------------------
(***************************************************************************)
(* One scan: how its configuration comes about (core/config.py), what the  *)
(* walker and the engines give it, and what run_scan (core/engine.py)      *)
(* makes of that.  The code of a project is the set of findings that the   *)
(* engines would report if each of them read every file.                   *)
(***************************************************************************)
EXTENDS Baseline, PolicyDecision

\* The fields of IronCladConfig that decide what is found and what gates.
DefaultConfig ==
    [enabled_engines |-> KNOWN_ENGINES, min_severity |-> "info", baseline_file |-> Nothing,
     ignore_rule_ids |-> {}, ignore_paths |-> {}, exclude_dirs |-> {},
     entropy_threshold |-> 43, advisory_source |-> "bundled"]

\* What the upper of two layers sets, and what only the lower one sets.
Over(upper, lower) ==
    [field \in DOMAIN upper \cup DOMAIN lower |->
        IF field \in DOMAIN upper THEN upper[field] ELSE lower[field]]

\* Fault: the file of the project, found last, has the last word.
ProjectFirst(layers) ==
    Over(layers.project,
         Over(layers.overrides, Over(layers.environment, layers.organization)))

\* Highest precedence first.
Layered(layers) ==
    Over(layers.overrides,
         Over(layers.environment, Over(layers.project, layers.organization)))

\* IronCladConfig.load: each layer is a record of the fields it sets, and what
\* the layers exclude adds up.
LoadConfig(layers) ==
    LET excluded == UNION {layers[l].exclude_dirs :
                              l \in {k \in DOMAIN layers : "exclude_dirs" \in DOMAIN layers[k]}}
    IN  Over([exclude_dirs |-> excluded], Over(Layered(layers), DefaultConfig))

-----------------------------------------------------------------------------
\* discover: the files below an excluded directory or on an ignored path are
\* not read.  A path is a pair of a directory and a name.
Discovered(code, config) ==
    {f \in code : f.path[1] \notin config.exclude_dirs /\ f.path \notin config.ignore_paths}

\* The engines that are enabled, each over the files that are its business.
Reported(code, config) ==
    {f \in Discovered(code, config) :
        /\ f.engine \in config.enabled_engines
        /\ f.category = "entropy" => f.about >= config.entropy_threshold}

\* SEVERITY_RANK counts from the most severe.
Kept(findings, config) ==
    {f \in findings : /\ f.rule \notin config.ignore_rule_ids
                      /\ SEVERITY_RANK[f.severity] <= SEVERITY_RANK[config.min_severity]}

\* One finding of each fingerprint is kept.
Deduplicated(findings) ==
    {f \in findings : f = CHOOSE g \in findings : g.fingerprint = f.fingerprint}

BaselineFile(files, config) ==
    IF config.baseline_file = Nothing THEN Missing ELSE files[config.baseline_file]

ConfigUnder(config, policy) ==
    IF policy = Nothing THEN config ELSE apply_to_config(policy, config)

\* The findings of run_scan, before the baseline is consulted.
FindingsOf(code, config, policy) ==
    LET kept == Kept(Reported(code, ConfigUnder(config, policy)), ConfigUnder(config, policy))
    IN  Deduplicated(IF policy = Nothing THEN kept ELSE filter_findings_for_policy(kept, policy))

\* A baseline that cannot be read and a misconfigured source of advisories are
\* errors of the scan.
ScanFails(config, policy, files) ==
    LET used == ConfigUnder(config, policy)
    IN  \/ ~ Readable(BaselineFile(files, used))
        \/ "dependency" \in used.enabled_engines /\ used.advisory_source = Wrong

\* run_scan: what a scan that does not fail returns.
run_scan(code, config, policy, files, now) ==
    LET used == ConfigUnder(config, policy)
        findings == FindingsOf(code, config, policy)
        diff == diff_baseline(findings, LoadBaseline(BaselineFile(files, used)), now)
    IN  [findings |-> findings,
         new_findings |-> diff.new,
         suppressed |-> diff.suppressed,
         baseline_applied |-> used.baseline_file # Nothing]

\* ScanResult.gating_findings.
gating_findings(result) ==
    IF result.baseline_applied THEN result.new_findings ELSE result.findings
=============================================================================
