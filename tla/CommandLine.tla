------------------------------- MODULE CommandLine -------------------------------
(***************************************************************************)
(* The commands of cli.py that scan, accept and gate, run one after        *)
(* another on a project whose code, licence and baseline files change, and *)
(* a scan of the same project on the platform (perform_scan), whose        *)
(* decision is made again from what it stored (GET /scan/{id}/result).     *)
(***************************************************************************)
EXTENDS ScanEngine

CONSTANTS
    Reportable,     \* what the engines may find in the project
    Settings,       \* what the environment and the files may set; <<>> is no file
    Paths,          \* where baseline files are; "reports" is the default
    FirstFiles,     \* the baseline files there are at first
    PolicyFiles,    \* the documents that --policy or the server may be given
    Options,        \* the options that a scan may be given
    Terms,          \* after how many days an acceptance may lapse; Never
    Licences,       \* the last days of licences
    MaxDay,         \* bound: the last day
    MaxCommands     \* bound: commands that are run

ASSUME BoundsAssumption == MaxDay \in Nat /\ MaxCommands \in Nat

ASSUME PathsAssumption == "reports" \in Paths /\ Nothing \notin Paths

ASSUME FindingsAssumption ==
    \A f \in Reportable : {"fingerprint", "rule", "severity", "engine"} \subseteq DOMAIN f

\* A path to a baseline, given or set, is one of those where there may be a file.
ASSUME SettingsAssumption ==
    \A s \in Settings :
        /\ DOMAIN s = {"environment", "project", "organization"}
        /\ \A l \in DOMAIN s : "baseline_file" \in DOMAIN s[l] => s[l].baseline_file \in Paths

ASSUME OptionsAssumption ==
    \A o \in Options : /\ o.baseline_file \in Paths \cup {Nothing}
                       /\ o.days \in Int \cup {Never}

ASSUME TermsAssumption == Terms \subseteq Int \cup {Never}

\* A file holds one of the two schemas, or is Missing or Malformed.
ASSUME FilesAssumption ==
    /\ DOMAIN FirstFiles = Paths
    /\ \A p \in Paths :
          \/ FirstFiles[p].schema \in {0, 1, 99}
          \/ /\ FirstFiles[p].schema = 2
             /\ \A e \in FirstFiles[p].entries : e.expires_at \in Int \cup {Never}

VARIABLES
    code,           \* what is to be found in the project now
    layers,         \* the settings of the environment, the project's file and the user's
    files,          \* the baseline files
    licensed_until, \* the day the licence ends; Nothing if there is none, or a forged one
    today,
    commands,       \* how many commands have been run
    outcome,        \* the command that ran last, its exit code and what it found
    stored,         \* what the platform keeps of its scan of the project
    accepted        \* history: what was accepted in which file, from when, for how long

commandVars ==
    <<code, layers, files, licensed_until, today, commands, outcome, stored, accepted>>

\* core/exit_codes.py
SUCCESS == 0
GATE_FAILED == 1
CONFIG_ERROR == 3
INTERNAL_ERROR == 5

TRIAL_GRACE_ENGINES == {"ast-python", "rule-engine", "secrets"}

NoOptions ==
    [fail_on |-> Nothing, max_risk_score |-> Nothing, min_severity |-> Nothing,
     policy |-> Nothing, baseline_file |-> Nothing, ignore_rules |-> {},
     update_baseline |-> FALSE, days |-> Never]

CommandTypeOK ==
    /\ code \subseteq Reportable
    /\ DOMAIN layers = {"environment", "project", "organization"}
    /\ DOMAIN files = Paths
    /\ licensed_until \in Licences
    /\ today \in 0..MaxDay
    /\ commands \in 0..MaxCommands
    /\ outcome.command # "none" => outcome.exit \in {0, 1, 3, 5}

Acceptance(p, fingerprints, days) ==
    [file : {p}, fingerprint : fingerprints, from : {today}, for : {days}]

CommandInit ==
    /\ code \in {{}, Reportable}
    /\ layers \in Settings
    /\ files = FirstFiles
    /\ licensed_until \in Licences
    /\ today = 0
    /\ commands = 0
    /\ outcome = [command |-> "none"]
    /\ stored = Nothing
    /\ accepted = UNION {{[file |-> p, fingerprint |-> e.fingerprint, from |-> 0,
                            for |-> e.expires_at] : e \in LoadBaseline(FirstFiles[p])} : p \in Paths}

-----------------------------------------------------------------------------
\* verify_license: a genuine licence is good through the day it ends.
Licensed == licensed_until # Nothing /\ today <= licensed_until

\* What every command that scans sets if it runs without a licence.
TrialOverride == IF Licensed THEN <<>> ELSE [enabled_engines |-> TRIAL_GRACE_ENGINES]

ConfigWith(overrides) == LoadConfig(Over([overrides |-> overrides], layers))

\* The option is set only if it is given.
Given(field, value) == IF value = Nothing THEN <<>> ELSE [f \in {field} |-> value]

\* The overrides of scan: it always sets the ignored rules, be it to none.
ScanConfig(o) ==
    ConfigWith(Over([ignore_rule_ids |-> o.ignore_rules],
                    Over(Given("min_severity", o.min_severity),
                         Over(Given("baseline_file", o.baseline_file), TrialOverride))))

Ends(command, exit) ==
    /\ commands < MaxCommands
    /\ commands' = commands + 1
    /\ outcome' = [command |-> command, exit |-> exit]
    /\ UNCHANGED <<code, licensed_until, today>>

Prints(command, exit) ==
    Ends(command, exit) /\ UNCHANGED <<layers, files, stored, accepted>>

\* _compute_exit_code.  The risk score counts what the baseline suppresses.
exit_code(result, o) ==
    IF \/ o.max_risk_score # Nothing /\ risk_score(result.findings) > o.max_risk_score
       \/ o.fail_on # Nothing /\ offending(gating_findings(result), o.fail_on) # {}
    THEN GATE_FAILED ELSE SUCCESS

\* Baseline.save of the findings, at p.
WriteBaseline(p, findings, days) ==
    /\ files' = [files EXCEPT ![p] = create_baseline(findings, days, today)]
    /\ accepted' = {a \in accepted : a.file # p}
                   \cup Acceptance(p, {f.fingerprint : f \in findings}, days)

\* Where scan --update-baseline writes: the settings are not consulted.
UpdatedPath(o, policy) ==
    IF o.baseline_file # Nothing THEN o.baseline_file
    ELSE IF policy # Nothing /\ policy.baseline_path # Nothing THEN policy.baseline_path
    ELSE "reports"

\* ironclad scan, with a policy that has no problems and a readable baseline.
Scan(o) ==
    /\ o.policy # Nothing => problems(o.policy) = {}
    /\ LET policy == IF o.policy = Nothing THEN Nothing ELSE from_dict(o.policy)
           config == ScanConfig(o)
           result == run_scan(code, config, policy, files, today)
           passed == evaluate_policy(gating_findings(result), policy).passed
       IN  /\ ~ ScanFails(config, policy, files)
           /\ commands < MaxCommands
           /\ commands' = commands + 1
           /\ outcome' = [command |-> "scan", options |-> o, findings |-> result.findings,
                          baseline |-> ConfigUnder(config, policy).baseline_file,
                          exit |-> IF policy = Nothing THEN exit_code(result, o)
                                   ELSE IF passed THEN SUCCESS ELSE GATE_FAILED]
           /\ IF o.update_baseline
              THEN WriteBaseline(UpdatedPath(o, policy), result.findings, o.days)
              ELSE UNCHANGED <<files, accepted>>
    /\ UNCHANGED <<code, layers, licensed_until, today, stored>>

\* _load_policy_or_die, or an exception of run_scan that reaches _safe_main.
ScanRefused(o) ==
    \/ /\ o.policy # Nothing /\ problems(o.policy) # {}
       /\ Prints("scan", CONFIG_ERROR)
    \/ /\ o.policy # Nothing => problems(o.policy) = {}
       /\ LET policy == IF o.policy = Nothing THEN Nothing ELSE from_dict(o.policy)
          IN  ScanFails(ScanConfig(o), policy, files)
       /\ Prints("scan", INTERNAL_ERROR)

-----------------------------------------------------------------------------
\* The scan that the commands on baselines make: their settings are those of
\* the project, without a policy.
OwnConfig == ConfigWith(TrialOverride)
OwnFindings == FindingsOf(code, OwnConfig, Nothing)
OwnScanFails == ScanFails(OwnConfig, Nothing, files)

\* ironclad baseline create, with or without a reason or --force.
BaselineCreate(p, days, justified) ==
    /\ ~ OwnScanFails
    /\ ~ Refused(OwnFindings, justified)
    /\ Ends("baseline create", SUCCESS)
    /\ WriteBaseline(p, OwnFindings, days)
    /\ UNCHANGED <<layers, stored>>

BaselineCreateRefused(justified) ==
    \/ OwnScanFails /\ Prints("baseline create", INTERNAL_ERROR)
    \/ /\ ~ OwnScanFails /\ Refused(OwnFindings, justified)
       /\ Prints("baseline create", CONFIG_ERROR)

\* ironclad baseline list and diff, and prune without --write: they only tell.
BaselineInspect(p) ==
    \/ ~ Readable(files[p]) /\ Prints("baseline", CONFIG_ERROR)
    \/ Readable(files[p]) /\ Prints("baseline list", SUCCESS)
    \/ Readable(files[p]) /\ OwnScanFails /\ Prints("baseline", INTERNAL_ERROR)
    \/ /\ Readable(files[p]) /\ ~ OwnScanFails
       /\ LET diff == diff_baseline(OwnFindings, LoadBaseline(files[p]), today)
          IN  Prints("baseline diff", IF diff.new = {} THEN SUCCESS ELSE GATE_FAILED)

\* ironclad baseline prune --write.
BaselinePrune(p) ==
    /\ Readable(files[p]) /\ ~ OwnScanFails
    /\ Ends("baseline prune", SUCCESS)
    /\ files' = [files EXCEPT ![p] = prune_baseline(LoadBaseline(@), OwnFindings)]
    /\ accepted' = {a \in accepted : \/ a.file # p
                                     \/ \E f \in OwnFindings : f.fingerprint = a.fingerprint}
    /\ UNCHANGED <<layers, stored>>

\* ironclad policy validate, and policy show.
PolicyValidate(document) ==
    Prints("policy validate", IF problems(document) = {} THEN SUCCESS ELSE CONFIG_ERROR)

\* ironclad license verify.
LicenseVerify == Prints("license verify", IF Licensed THEN SUCCESS ELSE GATE_FAILED)

\* ironclad config init, which does not touch a file that is there; init neither.
ConfigInit ==
    /\ Ends("config init", IF layers.project # <<>> THEN CONFIG_ERROR ELSE SUCCESS)
    /\ layers' = IF layers.project # <<>> THEN layers
                 ELSE [layers EXCEPT !.project = [min_severity |-> "info"]]
    /\ UNCHANGED <<files, stored, accepted>>

-----------------------------------------------------------------------------
\* perform_scan: the platform knows no licence, and stores the policy that it
\* gated on, and for each finding whether the baseline had it.
PlatformScan(document) ==
    /\ document # Nothing => problems(document) = {}
    /\ LET policy == IF document = Nothing THEN Nothing ELSE from_dict(document)
           config == ConfigWith(<<>>)
           result == run_scan(code, config, policy, files, today)
       IN  /\ ~ ScanFails(config, policy, files)
           /\ Ends("platform scan", SUCCESS)
           /\ stored' = [policy_document |-> IF policy = Nothing THEN Nothing ELSE to_dict(policy),
                         findings |-> result.findings \ result.suppressed,
                         baselined |-> result.suppressed,
                         policy_passed |->
                             IF policy = Nothing THEN Nothing
                             ELSE evaluate_policy(gating_findings(result), policy).passed]
    /\ UNCHANGED <<layers, files, accepted>>

UnbaselinedRows(scan) == scan.findings

\* GET /scan/{id}/result: the decision is not stored but made again.
scan_result(scan) ==
    evaluate_policy(UnbaselinedRows(scan), from_dict(scan.policy_document)).passed

\* Somebody introduces or repairs something, or time passes.
EditCode ==
    /\ \E f \in Reportable :
          code' = IF f \in code THEN code \ {f} ELSE code \cup {f}
    /\ outcome.command # "none"
    /\ outcome' = [command |-> "none"]
    /\ UNCHANGED <<layers, files, licensed_until, today, commands, stored, accepted>>

NextDay ==
    /\ today < MaxDay
    /\ today' = today + 1
    /\ outcome' = [command |-> "none"]
    /\ UNCHANGED <<code, layers, files, licensed_until, commands, stored, accepted>>

CommandNext ==
    \/ \E o \in Options : Scan(o) \/ ScanRefused(o)
    \/ \E p \in Paths, days \in Terms, justified \in BOOLEAN : BaselineCreate(p, days, justified)
    \/ \E justified \in BOOLEAN : BaselineCreateRefused(justified)
    \/ \E p \in Paths : BaselineInspect(p) \/ BaselinePrune(p)
    \/ \E document \in PolicyFiles : PolicyValidate(document)
    \/ LicenseVerify
    \/ ConfigInit
    \/ \E document \in PolicyFiles \cup {Nothing} : PlatformScan(document)
    \/ EditCode
    \/ NextDay

CommandSpec == CommandInit /\ [][CommandNext]_commandVars

-----------------------------------------------------------------------------
(***************************************************************************)
(* Properties.                                                             *)
(***************************************************************************)
\* The acceptances in the file that the last scan gated with, at that time.
AcceptedNow(finding, p) ==
    \E a \in accepted : /\ a.file = p /\ a.fingerprint = finding.fingerprint
                        /\ a.for = Never \/ today < a.from + a.for

ScanEnded == commands' # commands /\ outcome'.command = "scan" /\ outcome'.exit \in {0, 1}

\* "Accepted findings stop gating; expired ones start gating again" (README.md):
\* without a policy or a cap, --fail-on any lets a build pass exactly if what it
\* reports, other than for information, is accepted in the baseline in effect,
\* however often files were written, pruned and updated in between.
GateMatchesAcceptance ==
    [][ScanEnded /\ "options" \in DOMAIN outcome'
          /\ outcome'.options.fail_on = "any"
          /\ outcome'.options.policy = Nothing /\ outcome'.options.max_risk_score = Nothing
       => (outcome'.exit = SUCCESS <=>
             \A f \in outcome'.findings :
                 f.severity = "info" \/ AcceptedNow(f, outcome'.baseline))]_commandVars

\* Whatever the policy, the project's file and the environment say, a scan does
\* not report what the command line has ruled out, nor, without a licence, what
\* only a licensed engine finds.
PolicyWidensNothing ==
    "options" \in DOMAIN outcome =>
        \A f \in outcome.findings :
            /\ ~ Licensed => f.engine \in TRIAL_GRACE_ENGINES
            /\ f.rule \notin outcome.options.ignore_rules
            /\ outcome.options.min_severity # Nothing =>
                  \E g \in code : /\ g.fingerprint = f.fingerprint
                                  /\ SEVERITY_RANK[g.severity]
                                       <= SEVERITY_RANK[outcome.options.min_severity]

\* "the same scan plus the same policy always produces the same decision": the
\* result that the platform shows for a scan is the one the scan was gated with,
\* although baselines, code and policies have changed since.
DecisionSurvivesStorage ==
    stored # Nothing /\ stored.policy_document # Nothing
        => scan_result(stored) = stored.policy_passed

\* "Accepted findings stop gating" (README.md): a scan fails only for a finding
\* that is not accepted.
AcceptedDoesNotGate ==
    [][ScanEnded /\ outcome'.exit = GATE_FAILED
       => \E f \in outcome'.findings : ~ AcceptedNow(f, outcome'.baseline)]_commandVars
=============================================================================
