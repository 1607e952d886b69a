----------------------------- MODULE PolicyDecision -----------------------------
(***************************************************************************)
(* Policies as code (core/policy.py): which documents are accepted, how a  *)
(* policy is folded into the configuration of a scan, and how it decides.  *)
(*                                                                         *)
(* A document is a record with some of the keys below; the sections that   *)
(* the file nests them in are left out.  A finding is a record with the    *)
(* fields fingerprint, rule, path, severity, confidence, engine, category  *)
(* and about: the licence or the package it is about.                      *)
(***************************************************************************)
EXTENDS Integers, FiniteSets, FiniteSetsExt

CONSTANTS
    Nothing,        \* Python's None
    Wrong           \* a value that is not of the form the schema asks for

\* None is not one of the words that fail_on may be.
ASSUME NothingAssumption == Nothing \notin {"any", "none", "critical", "high", "medium", "low", "info"}

SEVERITY_RANK == [critical |-> 0, high |-> 1, medium |-> 2, low |-> 3, info |-> 4]
SEVERITY_WEIGHT == [critical |-> 40, high |-> 20, medium |-> 8, low |-> 3, info |-> 0]
CONFIDENCE_ORDER == [low |-> 0, medium |-> 1, high |-> 2]
KNOWN_ENGINES ==
    {"ast-python", "rule-engine", "secrets", "dependency", "iac", "license-compliance"}

\* The entropy threshold is in tenths.
DefaultPolicy ==
    [fail_on |-> "high", max_risk_score |-> Nothing, severity_gates |-> <<>>,
     engines_enabled |-> Nothing, ignore_rules |-> {}, min_confidence |-> "low",
     severity_overrides |-> <<>>, allowed |-> {}, warning |-> {}, blocked |-> {},
     unknown |-> "warn", entropy_threshold |-> 43, blocked_dependencies |-> {},
     path_excludes |-> {}, exclude_dirs |-> {}, baseline_path |-> Nothing]

-----------------------------------------------------------------------------
PolicyDefault(key) == DefaultPolicy[key]

\* Policy.from_dict, of a document without problems.
from_dict(document) ==
    [key \in DOMAIN DefaultPolicy |->
        IF key \in DOMAIN document THEN document[key] ELSE PolicyDefault(key)]

\* All problems are collected before PolicyError is raised.
problems(document) ==
    {key \in DOMAIN document : key \notin DOMAIN DefaultPolicy \/ document[key] = Wrong}
    \cup IF {"allowed", "blocked"} \subseteq DOMAIN document
            /\ Wrong \notin {document["allowed"], document["blocked"]}
            /\ document["allowed"] \cap document["blocked"] # {}
         THEN {"blocked"} ELSE {}

\* Fault: the caps per severity are not written.
WithoutGates(policy) ==
    [key \in DOMAIN policy \ {"severity_gates"} |-> policy[key]]

\* Policy.to_dict: an empty list of engines is written as if there were none.
to_dict(policy) ==
    [key \in {k \in DOMAIN policy : k = "engines_enabled"
                                       => policy[k] \notin {Nothing, {}}} |-> policy[key]]

-----------------------------------------------------------------------------
EnginesOfBoth(policy, config) ==
    IF policy.engines_enabled = Nothing THEN config.enabled_engines
    ELSE config.enabled_engines \cap policy.engines_enabled

\* Policy.apply_to_config.  It builds a new configuration and does not name the
\* choice of advisories, which goes back to the default.
apply_to_config(policy, config) ==
    [config EXCEPT
        !.enabled_engines = EnginesOfBoth(policy, config),
        !.ignore_rule_ids = @ \cup policy.ignore_rules,
        !.ignore_paths = @ \cup policy.path_excludes,
        !.exclude_dirs = @ \cup policy.exclude_dirs,
        !.entropy_threshold = IF policy.entropy_threshold < @ THEN policy.entropy_threshold ELSE @,
        !.baseline_file = IF @ = Nothing THEN policy.baseline_path ELSE @,
        !.advisory_source = "bundled"]

\* _override_finding_severity: the fingerprint does not depend on the severity.
Overridden(finding, policy) ==
    IF finding.rule \in DOMAIN policy.severity_overrides
    THEN [finding EXCEPT !.severity = policy.severity_overrides[finding.rule]]
    ELSE finding

filter_findings_for_policy(findings, policy) ==
    {Overridden(f, policy) :
        f \in {g \in findings :
                  /\ g.rule \notin policy.ignore_rules
                  /\ CONFIDENCE_ORDER[g.confidence] >= CONFIDENCE_ORDER[policy.min_confidence]}}

-----------------------------------------------------------------------------
\* LicensePolicy.classify: what no list names is unknown, never allowed.
classify(license, policy) ==
    IF license = Nothing THEN "unknown"
    ELSE IF license \in policy.blocked THEN "blocked"
    ELSE IF license \in policy.warning THEN "warning"
    ELSE IF license \in policy.allowed THEN "allowed" ELSE "unknown"

Violation(kind, finding) == [kind |-> kind, finding |-> finding]

\* The findings that fail_on, "any", "none" or a severity, does not let pass.
offending(findings, fail_on) ==
    CASE fail_on = "any" -> {f \in findings : f.severity # "info"}
      [] fail_on = "none" -> {}
      [] OTHER -> {f \in findings : SEVERITY_RANK[f.severity] <= SEVERITY_RANK[fail_on]}

risk_score(findings) == MapThenSumSet(LAMBDA f : SEVERITY_WEIGHT[f.severity], findings)

OverGate(findings, policy) ==
    {severity \in DOMAIN policy.severity_gates :
        Cardinality({f \in findings : f.severity = severity}) > policy.severity_gates[severity]}

LicenseViolations(findings, policy) ==
    {Violation(classify(f.about, policy), f) :
        f \in {g \in findings :
                  /\ g.category = "license-compliance"
                  /\ \/ classify(g.about, policy) = "blocked"
                     \/ classify(g.about, policy) = "unknown" /\ policy.unknown = "block"}}

\* One violation for each package.  The index holds every block under "*" as
\* well: it is the name that decides.
BlockedPackages(findings, policy) ==
    {Violation("blocked_dependency", f.about) :
        f \in {g \in findings : /\ g.category = "vulnerable-dependency"
                                /\ \E block \in policy.blocked_dependencies :
                                      block.name = g.about.name}}

\* evaluate_policy, over the findings that may fail a build.
evaluate_policy(gated, policy) ==
    LET findings == filter_findings_for_policy(gated, policy)
        tooRisky == policy.max_risk_score # Nothing
                    /\ risk_score(findings) > policy.max_risk_score
        violations ==
            {Violation("severity_gate", severity) : severity \in OverGate(findings, policy)}
            \cup {Violation("severity", f) : f \in offending(findings, policy.fail_on)}
            \cup (IF tooRisky THEN {Violation("risk_score", Nothing)} ELSE {})
            \cup LicenseViolations(findings, policy)
            \cup BlockedPackages(findings, policy)
    IN  [passed |-> violations = {}, violations |-> violations]
=============================================================================
