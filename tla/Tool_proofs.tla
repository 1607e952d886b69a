------------------------------- MODULE Tool_proofs -------------------------------
(***************************************************************************)
(* What holds of the commands for every project, every configuration,      *)
(* every policy and every history of baseline files; of the licence engine *)
(* for every list of licences; of the dependency engine for all manifests  *)
(* and every feed; and of the analyses of data flow for any code.          *)
(***************************************************************************)
EXTENDS CommandLine, LicenseExpression, DependencyScan, PythonFlows, FiniteSetTheorems, TLAPS

-----------------------------------------------------------------------------
(***************************************************************************)
(* How a configuration comes about.                                        *)
(***************************************************************************)
LEMMA UpperField ==
    ASSUME NEW upper, NEW lower, NEW x \in DOMAIN upper
    PROVE  x \in DOMAIN Over(upper, lower) /\ Over(upper, lower)[x] = upper[x]
BY DEF Over

LEMMA LowerField ==
    ASSUME NEW upper, NEW lower, NEW x \in DOMAIN lower, x \notin DOMAIN upper
    PROVE  x \in DOMAIN Over(upper, lower) /\ Over(upper, lower)[x] = lower[x]
BY DEF Over

LEMMA GivenFields ==
    ASSUME NEW field, NEW value
    PROVE  /\ \A x : x \in DOMAIN Given(field, value) => x = field
           /\ value # Nothing => /\ field \in DOMAIN Given(field, value)
                                 /\ Given(field, value)[field] = value
BY DEF Given

\* What the command line sets is what the scan uses.
LEMMA OverridesCount ==
    ASSUME NEW overrides, NEW field \in DOMAIN overrides, field # "exclude_dirs"
    PROVE  /\ field \in DOMAIN ConfigWith(overrides)
           /\ ConfigWith(overrides)[field] = overrides[field]
<1> DEFINE all == Over([overrides |-> overrides], layers)
           lower == Over(all.environment, Over(all.project, all.organization))
           excluded == UNION {all[l].exclude_dirs :
                                 l \in {k \in DOMAIN all : "exclude_dirs" \in DOMAIN all[k]}}
<1>1. all.overrides = overrides
    BY DEF Over
<1>2. Layered(all) = Over(overrides, lower)
    BY <1>1 DEF Layered
<1>3. /\ field \in DOMAIN Layered(all)
      /\ Layered(all)[field] = overrides[field]
    <2> HIDE DEF lower, all
    <2> QED  BY <1>2, UpperField
<1>4. /\ field \in DOMAIN Over(Layered(all), DefaultConfig)
      /\ Over(Layered(all), DefaultConfig)[field] = overrides[field]
    <2> HIDE DEF lower, all
    <2> QED  BY <1>3, UpperField
<1>5. ConfigWith(overrides)
        = Over([exclude_dirs |-> excluded], Over(Layered(all), DefaultConfig))
    BY DEF ConfigWith, LoadConfig
<1> DEFINE exclusion == [exclude_dirs |-> excluded]
<1>6. ConfigWith(overrides) = Over(exclusion, Over(Layered(all), DefaultConfig))
    BY <1>5
<1>7. field \notin DOMAIN exclusion
    OBVIOUS
<1> HIDE DEF all, exclusion
<1> QED  BY <1>4, <1>6, <1>7, LowerField

\* What the options of a scan, and the lack of a licence, set.
LEMMA ScanOverrides ==
    ASSUME NEW o
    PROVE  /\ "ignore_rule_ids" \in DOMAIN ScanConfig(o)
           /\ ScanConfig(o).ignore_rule_ids = o.ignore_rules
           /\ o.min_severity # Nothing => /\ "min_severity" \in DOMAIN ScanConfig(o)
                                          /\ ScanConfig(o).min_severity = o.min_severity
           /\ o.baseline_file # Nothing => ScanConfig(o).baseline_file = o.baseline_file
           /\ ~ Licensed => /\ "enabled_engines" \in DOMAIN ScanConfig(o)
                            /\ ScanConfig(o).enabled_engines = TRIAL_GRACE_ENGINES
<1> DEFINE rules == [ignore_rule_ids |-> o.ignore_rules]
           severity == Given("min_severity", o.min_severity)
           file == Given("baseline_file", o.baseline_file)
           third == Over(file, TrialOverride)
           second == Over(severity, third)
           first == Over(rules, second)
<1>1. ScanConfig(o) = ConfigWith(first)
    BY DEF ScanConfig
<1>2. /\ "ignore_rule_ids" \in DOMAIN rules /\ rules.ignore_rule_ids = o.ignore_rules
      /\ \A x : x # "ignore_rule_ids" => x \notin DOMAIN rules
    OBVIOUS
<1>3. /\ \A x : x # "min_severity" => x \notin DOMAIN severity
      /\ o.min_severity # Nothing
            => "min_severity" \in DOMAIN severity /\ severity["min_severity"] = o.min_severity
    BY GivenFields
<1>4. /\ \A x : x # "baseline_file" => x \notin DOMAIN file
      /\ o.baseline_file # Nothing
            => "baseline_file" \in DOMAIN file /\ file["baseline_file"] = o.baseline_file
    BY GivenFields
<1>5. ~ Licensed => /\ "enabled_engines" \in DOMAIN TrialOverride
                    /\ TrialOverride["enabled_engines"] = TRIAL_GRACE_ENGINES
    BY DEF TrialOverride
<1> HIDE DEF rules, severity, file
<1>6. /\ "ignore_rule_ids" \in DOMAIN first
      /\ first["ignore_rule_ids"] = o.ignore_rules
    BY <1>2, UpperField
<1>7. o.min_severity # Nothing
        => "min_severity" \in DOMAIN first /\ first["min_severity"] = o.min_severity
    BY <1>2, <1>3, UpperField, LowerField
<1>8. o.baseline_file # Nothing
        => "baseline_file" \in DOMAIN first /\ first["baseline_file"] = o.baseline_file
    BY <1>2, <1>3, <1>4, UpperField, LowerField
<1>9. ~ Licensed => /\ "enabled_engines" \in DOMAIN first
                    /\ first["enabled_engines"] = TRIAL_GRACE_ENGINES
    BY <1>2, <1>3, <1>4, <1>5, UpperField, LowerField
<1> HIDE DEF first
<1> QED  BY <1>1, <1>6, <1>7, <1>8, <1>9, OverridesCount
-----------------------------------------------------------------------------
(***************************************************************************)
(* What the steps are.                                                     *)
(***************************************************************************)
\* A command that prints changes nothing, and reports nothing.
LEMMA Printed ==
    ASSUME NEW command, NEW exit, Prints(command, exit)
    PROVE  /\ UNCHANGED <<code, layers, files, licensed_until, today, stored, accepted>>
           /\ outcome' = [command |-> command, exit |-> exit]
           /\ commands < MaxCommands /\ commands' = commands + 1
BY DEF Prints, Ends

\* Only a scan has options in its outcome.
LEMMA OptionsAreOfScans ==
    ASSUME CommandNext
    PROVE  \/ \E o \in Options : Scan(o)
           \/ "options" \notin DOMAIN outcome'
<1>1. ASSUME NEW command, NEW exit, outcome' = [command |-> command, exit |-> exit]
      PROVE  "options" \notin DOMAIN outcome'
    BY <1>1
<1>2. ASSUME NEW command, NEW exit, Ends(command, exit)  PROVE  "options" \notin DOMAIN outcome'
    BY <1>1, <1>2 DEF Ends
<1>3. ASSUME NEW command, NEW exit, Prints(command, exit)
      PROVE  "options" \notin DOMAIN outcome'
    BY <1>1, <1>3, Printed
<1>4. ASSUME NEW o \in Options, ScanRefused(o)  PROVE  "options" \notin DOMAIN outcome'
    BY <1>3, <1>4 DEF ScanRefused
<1>5. ASSUME NEW p \in Paths, NEW days \in Terms, NEW justified \in BOOLEAN,
             BaselineCreate(p, days, justified)
      PROVE  "options" \notin DOMAIN outcome'
    BY <1>2, <1>5 DEF BaselineCreate
<1>6. ASSUME NEW justified \in BOOLEAN, BaselineCreateRefused(justified)
      PROVE  "options" \notin DOMAIN outcome'
    BY <1>3, <1>6 DEF BaselineCreateRefused
<1>7. ASSUME NEW p \in Paths, BaselineInspect(p)  PROVE  "options" \notin DOMAIN outcome'
    BY <1>3, <1>7 DEF BaselineInspect
<1>8. ASSUME NEW p \in Paths, BaselinePrune(p)  PROVE  "options" \notin DOMAIN outcome'
    BY <1>2, <1>8 DEF BaselinePrune
<1>9. ASSUME NEW document, PolicyValidate(document)  PROVE  "options" \notin DOMAIN outcome'
    BY <1>3, <1>9 DEF PolicyValidate
<1>10. CASE LicenseVerify
    BY <1>3, <1>10 DEF LicenseVerify
<1>11. CASE ConfigInit
    BY <1>2, <1>11 DEF ConfigInit
<1>12. ASSUME NEW document, PlatformScan(document)  PROVE  "options" \notin DOMAIN outcome'
    BY <1>2, <1>12 DEF PlatformScan
<1>13. CASE EditCode \/ NextDay
    BY <1>13 DEF EditCode, NextDay
<1> QED  BY <1>4, <1>5, <1>6, <1>7, <1>8, <1>9, <1>10, <1>11, <1>12, <1>13 DEF CommandNext

\* Only a scan of the platform is stored.
LEMMA OthersStoreNothing ==
    ASSUME CommandNext
    PROVE  \/ \E document \in PolicyFiles \cup {Nothing} : PlatformScan(document)
           \/ stored' = stored
<1>1. ASSUME NEW o \in Options, Scan(o) \/ ScanRefused(o)  PROVE  stored' = stored
    BY <1>1, Printed DEF Scan, ScanRefused
<1>2. ASSUME NEW p \in Paths, BaselineInspect(p) \/ BaselinePrune(p)  PROVE  stored' = stored
    BY <1>2, Printed DEF BaselineInspect, BaselinePrune
<1>3. ASSUME NEW p \in Paths, NEW days \in Terms, NEW justified \in BOOLEAN,
             BaselineCreate(p, days, justified)
      PROVE  stored' = stored
    BY <1>3 DEF BaselineCreate
<1>4. ASSUME NEW justified \in BOOLEAN, BaselineCreateRefused(justified)  PROVE  stored' = stored
    BY <1>4, Printed DEF BaselineCreateRefused
<1>5. ASSUME NEW document, PolicyValidate(document)  PROVE  stored' = stored
    BY <1>5, Printed DEF PolicyValidate
<1>6. CASE LicenseVerify
    BY <1>6, Printed DEF LicenseVerify
<1>7. CASE ConfigInit \/ EditCode \/ NextDay
    BY <1>7 DEF ConfigInit, EditCode, NextDay
<1> QED  BY <1>1, <1>2, <1>3, <1>4, <1>5, <1>6, <1>7 DEF CommandNext

-----------------------------------------------------------------------------
(***************************************************************************)
(* The commands: types.                                                    *)
(***************************************************************************)
\* The types of what commands run on, and of what they end with: a command
\* ends with one of the exit codes of core/exit_codes.py.
THEOREM CommandTypeCorrect == CommandSpec => []CommandTypeOK
<1>1. CommandInit => CommandTypeOK
    <2> SUFFICES ASSUME CommandInit  PROVE  CommandTypeOK
        OBVIOUS
    <2>1. code \subseteq Reportable /\ licensed_until \in Licences
        BY DEF CommandInit
    <2>2. DOMAIN layers = {"environment", "project", "organization"} /\ DOMAIN files = Paths
        BY SettingsAssumption, FilesAssumption DEF CommandInit
    <2>3. today \in 0..MaxDay /\ commands \in 0..MaxCommands /\ outcome.command = "none"
        BY BoundsAssumption DEF CommandInit
    <2> QED  BY <2>1, <2>2, <2>3 DEF CommandTypeOK
<1>2. CommandTypeOK /\ [CommandNext]_commandVars => CommandTypeOK'
    <2> SUFFICES ASSUME CommandTypeOK, [CommandNext]_commandVars  PROVE  CommandTypeOK'
        OBVIOUS
    <2> USE DEF SUCCESS, GATE_FAILED, CONFIG_ERROR, INTERNAL_ERROR
    <2> DEFINE Kept3 == UNCHANGED <<code, licensed_until, today>>
               Counted == commands < MaxCommands /\ commands' = commands + 1
    <2>1. ASSUME NEW command, NEW exit \in {0, 1, 3, 5}, Kept3, Counted,
                 outcome' = [command |-> command, exit |-> exit],
                 DOMAIN layers' = DOMAIN layers, DOMAIN files' = DOMAIN files
          PROVE  CommandTypeOK'
        BY <2>1, BoundsAssumption DEF CommandTypeOK
    <2>2. ASSUME NEW command, NEW exit \in {0, 1, 3, 5}, Prints(command, exit)
          PROVE  CommandTypeOK'
        BY <2>1, <2>2, Printed
    <2>3. ASSUME NEW p, NEW findings, NEW days, WriteBaseline(p, findings, days)
          PROVE  DOMAIN files' = DOMAIN files
        BY <2>3 DEF WriteBaseline
    <2>4. ASSUME NEW o \in Options, Scan(o)  PROVE  CommandTypeOK'
        <3>1. Kept3 /\ Counted /\ layers' = layers
            BY <2>4 DEF Scan
        <3>2. DOMAIN files' = DOMAIN files
            BY <2>3, <2>4 DEF Scan
        <3>3. outcome'.exit \in {0, 1, 3, 5}
            BY <2>4 DEF Scan, exit_code
        <3> QED  BY <3>1, <3>2, <3>3, BoundsAssumption DEF CommandTypeOK
    <2>5. ASSUME NEW o \in Options, ScanRefused(o)  PROVE  CommandTypeOK'
        BY <2>2, <2>5 DEF ScanRefused
    <2>6. ASSUME NEW p \in Paths, NEW days \in Terms, NEW justified \in BOOLEAN,
                 BaselineCreate(p, days, justified)
          PROVE  CommandTypeOK'
        <3>1. DOMAIN files' = DOMAIN files /\ layers' = layers
            BY <2>3, <2>6 DEF BaselineCreate
        <3> QED  BY <2>1, <2>6, <3>1 DEF BaselineCreate, Ends
    <2>7. ASSUME NEW justified \in BOOLEAN, BaselineCreateRefused(justified)
          PROVE  CommandTypeOK'
        BY <2>2, <2>7 DEF BaselineCreateRefused
    <2>8. ASSUME NEW p \in Paths, BaselineInspect(p)  PROVE  CommandTypeOK'
        BY <2>2, <2>8 DEF BaselineInspect
    <2>9. ASSUME NEW p \in Paths, BaselinePrune(p)  PROVE  CommandTypeOK'
        BY <2>1, <2>9 DEF BaselinePrune, Ends
    <2>10. ASSUME NEW document, PolicyValidate(document)  PROVE  CommandTypeOK'
        BY <2>2, <2>10 DEF PolicyValidate
    <2>11. CASE LicenseVerify
        BY <2>2, <2>11 DEF LicenseVerify
    <2>12. CASE ConfigInit
        BY <2>1, <2>12 DEF ConfigInit, Ends
    <2>13. ASSUME NEW document, PlatformScan(document)  PROVE  CommandTypeOK'
        BY <2>1, <2>13 DEF PlatformScan, Ends
    <2>14. CASE EditCode \/ NextDay
        BY <2>14, BoundsAssumption DEF EditCode, NextDay, CommandTypeOK
    <2>15. CASE UNCHANGED commandVars
        BY <2>15 DEF commandVars, CommandTypeOK
    <2> QED  BY <2>4, <2>5, <2>6, <2>7, <2>8, <2>9, <2>10, <2>11, <2>12, <2>13, <2>14, <2>15
             DEF CommandNext
<1> QED  BY <1>1, <1>2, PTL DEF CommandSpec
-----------------------------------------------------------------------------
(***************************************************************************)
(* A scan reports no more than its options let it.                         *)
(***************************************************************************)
\* Findings have the fields that the filters look at.
Shaped(found) ==
    \A f \in found : {"fingerprint", "rule", "severity", "engine"} \subseteq DOMAIN f

LEMMA OverriddenKeeps ==
    ASSUME NEW finding, NEW policy,
           {"fingerprint", "rule", "severity", "engine"} \subseteq DOMAIN finding
    PROVE  LET o == Overridden(finding, policy)
           IN  /\ o.fingerprint = finding.fingerprint
               /\ o.rule = finding.rule
               /\ o.engine = finding.engine
BY DEF Overridden

\* What is reported is something of the code that passed the filters, except that
\* a policy may have given it another severity.
LEMMA FoundInCode ==
    ASSUME NEW found, NEW config, NEW policy, Shaped(found),
           NEW f \in FindingsOf(found, config, policy)
    PROVE  LET used == ConfigUnder(config, policy)
           IN  \E g \in Kept(Reported(found, used), used) :
                  /\ g \in found
                  /\ f.fingerprint = g.fingerprint /\ f.rule = g.rule /\ f.engine = g.engine
                  /\ policy = Nothing => f = g
<1> DEFINE used == ConfigUnder(config, policy)
           kept == Kept(Reported(found, used), used)
           filtered == IF policy = Nothing THEN kept ELSE filter_findings_for_policy(kept, policy)
<1>1. FindingsOf(found, config, policy) = Deduplicated(filtered)
    BY DEF FindingsOf
<1>2. f \in filtered
    <2> HIDE DEF filtered
    <2> QED  BY <1>1 DEF Deduplicated
<1>3. \A g \in kept : g \in found
    BY DEF Kept, Reported, Discovered
<1>4. \A g \in kept : {"fingerprint", "rule", "severity", "engine"} \subseteq DOMAIN g
    BY <1>3 DEF Shaped
<1> HIDE DEF kept
<1>5. CASE policy = Nothing
    BY <1>2, <1>3, <1>5 DEF kept
<1>6. CASE policy # Nothing
    <2>1. PICK g \in kept : f = Overridden(g, policy)
        BY <1>2, <1>6 DEF filter_findings_for_policy
    <2>2. f.fingerprint = g.fingerprint /\ f.rule = g.rule /\ f.engine = g.engine
        BY <1>4, <2>1, OverriddenKeeps
    <2>3. g \in Kept(Reported(found, used), used)
        BY DEF kept
    <2> QED  BY <1>3, <1>6, <2>2, <2>3
<1> QED  BY <1>5, <1>6

\* A policy takes engines away and adds to what is ignored.
LEMMA PolicyNarrows ==
    ASSUME NEW config, NEW policy
    PROVE  LET used == ConfigUnder(config, policy)
           IN  /\ "enabled_engines" \in DOMAIN config
                      => used.enabled_engines \subseteq config.enabled_engines
               /\ "ignore_rule_ids" \in DOMAIN config
                      => config.ignore_rule_ids \subseteq used.ignore_rule_ids
               /\ "min_severity" \in DOMAIN config => used.min_severity = config.min_severity
<1>1. CASE policy = Nothing
    BY <1>1 DEF ConfigUnder
<1>2. CASE policy # Nothing
    <2>1. ConfigUnder(config, policy) = apply_to_config(policy, config)
        BY <1>2 DEF ConfigUnder
    <2>2. EnginesOfBoth(policy, config) \subseteq config.enabled_engines
        BY DEF EnginesOfBoth
    <2> QED  BY <2>1, <2>2 DEF apply_to_config
<1> QED  BY <1>1, <1>2
\* What a scan reports, whatever the policy, the files and the environment say:
\* the options of the command line and the lack of a licence have the last word.
LEMMA ScanReports ==
    ASSUME code \subseteq Reportable, NEW o, Scan(o)
    PROVE  /\ outcome'.options = o
           /\ \A f \in outcome'.findings :
                 /\ ~ Licensed => f.engine \in TRIAL_GRACE_ENGINES
                 /\ f.rule \notin o.ignore_rules
                 /\ o.min_severity # Nothing =>
                       \E g \in code : /\ g.fingerprint = f.fingerprint
                                       /\ SEVERITY_RANK[g.severity]
                                            <= SEVERITY_RANK[o.min_severity]
<1> DEFINE policy == IF o.policy = Nothing THEN Nothing ELSE from_dict(o.policy)
           config == ScanConfig(o)
           used == ConfigUnder(config, policy)
<1>1. outcome'.options = o /\ outcome'.findings = FindingsOf(code, config, policy)
    <2>1. outcome'.options = o
          /\ outcome'.findings = run_scan(code, config, policy, files, today).findings
        BY DEF Scan
    <2> QED  BY <2>1 DEF run_scan
<1>2. Shaped(code)
    BY FindingsAssumption DEF Shaped
<1>3. /\ ~ Licensed => used.enabled_engines \subseteq TRIAL_GRACE_ENGINES
      /\ o.ignore_rules \subseteq used.ignore_rule_ids
      /\ o.min_severity # Nothing => used.min_severity = o.min_severity
    <2> HIDE DEF policy
    <2> QED  BY ScanOverrides, PolicyNarrows
<1> HIDE DEF policy, config
<1>4. ASSUME NEW f \in FindingsOf(code, config, policy)
      PROVE  /\ ~ Licensed => f.engine \in TRIAL_GRACE_ENGINES
             /\ f.rule \notin o.ignore_rules
             /\ o.min_severity # Nothing =>
                   \E g \in code : /\ g.fingerprint = f.fingerprint
                                   /\ SEVERITY_RANK[g.severity]
                                        <= SEVERITY_RANK[o.min_severity]
    <2>1. PICK g \in Kept(Reported(code, used), used) :
             /\ g \in code
             /\ f.fingerprint = g.fingerprint /\ f.rule = g.rule /\ f.engine = g.engine
        BY <1>2, FoundInCode
    <2>2. /\ g.engine \in used.enabled_engines
          /\ g.rule \notin used.ignore_rule_ids
          /\ SEVERITY_RANK[g.severity] <= SEVERITY_RANK[used.min_severity]
        BY <2>1 DEF Kept, Reported
    <2> HIDE DEF used
    <2> QED  BY <1>3, <2>1, <2>2
<1> QED  BY <1>1, <1>4

\* PolicyWidensNothing.  Whatever a policy, the project's file and the
\* environment say, a scan reports nothing that its options rule out, and
\* without a licence nothing of an engine that is not free: the code may only
\* change, and days pass, when no scan is the last thing that was done.
THEOREM PolicyCannotWiden == CommandSpec => []PolicyWidensNothing
<1>1. CommandInit => PolicyWidensNothing
    <2> SUFFICES ASSUME CommandInit  PROVE  PolicyWidensNothing
        OBVIOUS
    <2>1. "options" \notin DOMAIN outcome
        BY DEF CommandInit
    <2> QED  BY <2>1 DEF PolicyWidensNothing
<1>2. CommandTypeOK /\ PolicyWidensNothing /\ [CommandNext]_commandVars => PolicyWidensNothing'
    <2> SUFFICES ASSUME CommandTypeOK, PolicyWidensNothing, [CommandNext]_commandVars
                 PROVE  PolicyWidensNothing'
        OBVIOUS
    <2>1. ASSUME NEW o \in Options, Scan(o)  PROVE  PolicyWidensNothing'
        <3>1. code \subseteq Reportable
            BY DEF CommandTypeOK
        <3>2. code' = code /\ licensed_until' = licensed_until /\ today' = today
            BY <2>1 DEF Scan
        <3>3. Licensed' <=> Licensed
            BY <3>2 DEF Licensed
        <3> QED  BY <2>1, <3>1, <3>2, <3>3, ScanReports DEF PolicyWidensNothing
    <2>2. CASE "options" \notin DOMAIN outcome'
        BY <2>2 DEF PolicyWidensNothing
    <2>3. CASE UNCHANGED commandVars
        BY <2>3 DEF commandVars, PolicyWidensNothing, Licensed
    <2> QED  BY <2>1, <2>2, <2>3, OptionsAreOfScans
<1> QED  BY <1>1, <1>2, CommandTypeCorrect, PTL DEF CommandSpec
-----------------------------------------------------------------------------
(***************************************************************************)
(* A decision made again is the decision that was made.                    *)
(***************************************************************************)
\* The keys of a policy that evaluate_policy looks at.
DecidingKeys == DOMAIN DefaultPolicy \ {"engines_enabled"}

\* A policy decides by its deciding keys alone.
LEMMA SameKeysSameDecision ==
    ASSUME NEW p, NEW q, \A key \in DecidingKeys : p[key] = q[key], NEW gated
    PROVE  evaluate_policy(gated, p) = evaluate_policy(gated, q)
<1>1. /\ p.fail_on = q.fail_on /\ p.max_risk_score = q.max_risk_score
      /\ p.severity_gates = q.severity_gates /\ p.ignore_rules = q.ignore_rules
      /\ p.min_confidence = q.min_confidence /\ p.severity_overrides = q.severity_overrides
      /\ p.allowed = q.allowed /\ p.warning = q.warning /\ p.blocked = q.blocked
      /\ p.unknown = q.unknown /\ p.blocked_dependencies = q.blocked_dependencies
    BY DEF DecidingKeys, DefaultPolicy
<1>2. \A f : Overridden(f, p) = Overridden(f, q)
    BY <1>1 DEF Overridden
<1>3. \A fs : filter_findings_for_policy(fs, p) = filter_findings_for_policy(fs, q)
    BY <1>1, <1>2 DEF filter_findings_for_policy
<1>4. \A license : classify(license, p) = classify(license, q)
    BY <1>1 DEF classify
<1>5. \A fs : LicenseViolations(fs, p) = LicenseViolations(fs, q)
    BY <1>1, <1>4 DEF LicenseViolations
<1>6. \A fs : BlockedPackages(fs, p) = BlockedPackages(fs, q)
    BY <1>1 DEF BlockedPackages
<1>7. \A fs : OverGate(fs, p) = OverGate(fs, q)
    BY <1>1 DEF OverGate
<1> QED  BY <1>1, <1>3, <1>5, <1>6, <1>7 DEF evaluate_policy

\* A policy that is written and read again decides as it did: an empty list of
\* engines comes back as none, which is of no account for the decision.
LEMMA StoredPolicyDecides ==
    ASSUME NEW document, NEW gated
    PROVE  evaluate_policy(gated, from_dict(to_dict(from_dict(document))))
             = evaluate_policy(gated, from_dict(document))
<1> DEFINE policy == from_dict(document)
           written == to_dict(policy)
<1>1. DOMAIN policy = DOMAIN DefaultPolicy
    BY DEF from_dict
<1>2. \A key \in DecidingKeys : key \in DOMAIN written /\ written[key] = policy[key]
    BY <1>1 DEF to_dict, DecidingKeys
<1>3. \A key \in DecidingKeys : from_dict(written)[key] = policy[key]
    <2> HIDE DEF written, policy
    <2> QED  BY <1>2 DEF from_dict, DecidingKeys
<1> HIDE DEF written
<1>4. evaluate_policy(gated, from_dict(written)) = evaluate_policy(gated, policy)
    <2> HIDE DEF policy
    <2> QED  BY <1>3, SameKeysSameDecision
<1> QED  BY <1>4 DEF written

\* What gates is what no entry in force is for: nothing is suppressed where
\* there is no baseline, and nothing else is left out where there is one.
LEMMA GatingAreUnaccepted ==
    ASSUME NEW found, NEW config, NEW policy, NEW now
    PROVE  LET result == run_scan(found, config, policy, files, now)
               entries == LoadBaseline(BaselineFile(files, ConfigUnder(config, policy)))
           IN  /\ result.findings = FindingsOf(found, config, policy)
               /\ gating_findings(result)
                    = {f \in result.findings :
                          f.fingerprint \notin active_fingerprints(entries, now)}
               /\ result.findings \ result.suppressed = gating_findings(result)
<1> DEFINE used == ConfigUnder(config, policy)
           findings == FindingsOf(found, config, policy)
           entries == LoadBaseline(BaselineFile(files, used))
           active == active_fingerprints(entries, now)
           new == {f \in findings : f.fingerprint \notin active}
           result == run_scan(found, config, policy, files, now)
<1>1. /\ result.findings = findings /\ result.suppressed = findings \ new
      /\ result.new_findings = new
      /\ result.baseline_applied = (used.baseline_file # Nothing)
    BY DEF run_scan, diff_baseline
<1>2. used.baseline_file = Nothing => active = {}
    BY DEF BaselineFile, Missing, LoadBaseline, active_fingerprints
<1>3. used.baseline_file = Nothing => new = findings
    <2> HIDE DEF active, findings
    <2> QED  BY <1>2
<1>4. new \subseteq findings
    OBVIOUS
<1> HIDE DEF new, findings, result, used
<1>5. gating_findings(result) = new
    BY <1>1, <1>3 DEF gating_findings
<1>6. result.findings \ result.suppressed = new
    BY <1>1, <1>4
<1> QED  BY <1>1, <1>5, <1>6 DEF result, new, used, findings

\* DecisionSurvivesStorage.  "The same scan plus the same policy always produces
\* the same decision": what the platform computes from the stored findings and
\* the stored policy is what the scan was gated with.
THEOREM StoredDecisionsHold == CommandSpec => []DecisionSurvivesStorage
<1>1. CommandInit => DecisionSurvivesStorage
    BY DEF CommandInit, DecisionSurvivesStorage
<1>2. DecisionSurvivesStorage /\ [CommandNext]_commandVars => DecisionSurvivesStorage'
    <2> SUFFICES ASSUME DecisionSurvivesStorage, [CommandNext]_commandVars
                 PROVE  DecisionSurvivesStorage'
        OBVIOUS
    <2>1. ASSUME NEW document \in PolicyFiles \cup {Nothing}, PlatformScan(document)
          PROVE  DecisionSurvivesStorage'
        <3> DEFINE policy == IF document = Nothing THEN Nothing ELSE from_dict(document)
                   config == ConfigWith(<<>>)
                   result == run_scan(code, config, policy, files, today)
                   gated == gating_findings(result)
        <3>1. /\ stored'.policy_document = IF policy = Nothing THEN Nothing ELSE to_dict(policy)
              /\ stored'.findings = result.findings \ result.suppressed
              /\ stored'.policy_passed = IF policy = Nothing THEN Nothing
                                         ELSE evaluate_policy(gated, policy).passed
            BY <2>1 DEF PlatformScan
        <3>2. stored'.findings = gated
            <4>1. result.findings \ result.suppressed = gated
                <5> HIDE DEF config, policy
                <5> QED  BY GatingAreUnaccepted
            <4> HIDE DEF result, gated
            <4> QED  BY <3>1, <4>1
        <3>3. CASE policy = Nothing
            BY <3>1, <3>3 DEF DecisionSurvivesStorage
        <3>4. CASE policy # Nothing
            <4>1. policy = from_dict(document)
                BY <3>4
            <4> HIDE DEF policy, result, gated
            <4>2. evaluate_policy(gated, from_dict(to_dict(policy)))
                    = evaluate_policy(gated, policy)
                BY <4>1, StoredPolicyDecides
            <4>3. /\ stored'.policy_document = to_dict(policy)
                  /\ stored'.policy_passed = evaluate_policy(gated, policy).passed
                BY <3>1, <3>4
            <4>4. scan_result(stored') = stored'.policy_passed
                BY <3>2, <4>2, <4>3 DEF scan_result, UnbaselinedRows
            <4> QED  BY <4>4 DEF DecisionSurvivesStorage, scan_result, UnbaselinedRows
        <3> QED  BY <3>3, <3>4
    <2>2. CASE stored' = stored
        BY <2>2 DEF DecisionSurvivesStorage, scan_result, UnbaselinedRows
    <2>3. CASE UNCHANGED commandVars
        BY <2>2, <2>3 DEF commandVars
    <2> QED  BY <2>1, <2>2, <2>3, OthersStoreNothing
<1> QED  BY <1>1, <1>2, PTL DEF CommandSpec
-----------------------------------------------------------------------------
(***************************************************************************)
(* What is accepted is what the files say.                                 *)
(***************************************************************************)
\* An acceptance is for some time: --expires-in-days 0 is read as no expiry.
LapsesAreReal == 0 \notin Terms /\ \A o \in Options : o.days # 0

HoldsAt(a, now) == a.for = Never \/ now < a.from + a.for

AcceptedIn(p, now) ==
    {a.fingerprint : a \in {x \in accepted : x.file = p /\ HoldsAt(x, now)}}

\* A setting that names a baseline names one of the paths.
NamesAPath(settings) ==
    "baseline_file" \in DOMAIN settings => settings.baseline_file \in Paths \cup {Nothing}

\* The history of what was accepted and the files agree, now and on every later
\* day: a file that can be read has an entry in force for what is accepted in it.
AcceptanceInv ==
    /\ \A l \in DOMAIN layers : NamesAPath(layers[l])
    /\ \A a \in accepted : a.file # Nothing
    /\ \A p \in Paths : Readable(files[p]) =>
          \A now \in Nat : active_fingerprints(LoadBaseline(files[p]), now) = AcceptedIn(p, now)
\* A configuration names a path if what it is made of does.
LEMMA OverNames ==
    ASSUME NEW upper, NEW lower, NamesAPath(upper), NamesAPath(lower)
    PROVE  NamesAPath(Over(upper, lower))
BY DEF NamesAPath, Over

LEMMA ConfigNames ==
    ASSUME NEW overrides, NamesAPath(overrides),
           \A l \in DOMAIN layers : NamesAPath(layers[l]),
           DOMAIN layers = {"environment", "project", "organization"}
    PROVE  ConfigWith(overrides).baseline_file \in Paths \cup {Nothing}
<1> DEFINE all == Over([overrides |-> overrides], layers)
           excluded == UNION {all[l].exclude_dirs :
                                 l \in {k \in DOMAIN all : "exclude_dirs" \in DOMAIN all[k]}}
           exclusion == [exclude_dirs |-> excluded]
<1>1. /\ all.overrides = overrides /\ all.environment = layers.environment
      /\ all.project = layers.project /\ all.organization = layers.organization
    BY DEF Over
<1>2. NamesAPath(exclusion) /\ "baseline_file" \notin DOMAIN exclusion
    BY DEF NamesAPath
<1>3. NamesAPath(DefaultConfig) /\ "baseline_file" \in DOMAIN DefaultConfig
    BY DEF NamesAPath, DefaultConfig
<1>4. ConfigWith(overrides) = Over(exclusion, Over(Layered(all), DefaultConfig))
    BY DEF ConfigWith, LoadConfig
<1> HIDE DEF all, exclusion
<1>5. NamesAPath(Layered(all))
    <2>1. /\ NamesAPath(layers.environment) /\ NamesAPath(layers.project)
          /\ NamesAPath(layers.organization)
        OBVIOUS
    <2>2. NamesAPath(Over(all.project, all.organization))
        BY <1>1, <2>1, OverNames
    <2>3. NamesAPath(Over(all.environment, Over(all.project, all.organization)))
        BY <1>1, <2>1, <2>2, OverNames
    <2> QED  BY <1>1, <2>3, OverNames DEF Layered
<1>6. NamesAPath(Over(Layered(all), DefaultConfig))
    BY <1>3, <1>5, OverNames
<1>7. "baseline_file" \in DOMAIN Over(Layered(all), DefaultConfig)
    BY <1>3 DEF Over
<1>8. NamesAPath(Over(exclusion, Over(Layered(all), DefaultConfig)))
    BY <1>2, <1>6, OverNames
<1>9. "baseline_file" \in DOMAIN Over(exclusion, Over(Layered(all), DefaultConfig))
    BY <1>7 DEF Over
<1> QED  BY <1>4, <1>8, <1>9 DEF NamesAPath

\* The baseline of a scan without a policy is on one of the paths, or there is none.
LEMMA ScanNames ==
    ASSUME NEW o \in Options, \A l \in DOMAIN layers : NamesAPath(layers[l]),
           DOMAIN layers = {"environment", "project", "organization"}
    PROVE  ScanConfig(o).baseline_file \in Paths \cup {Nothing}
<1> DEFINE rules == [ignore_rule_ids |-> o.ignore_rules]
           severity == Given("min_severity", o.min_severity)
           file == Given("baseline_file", o.baseline_file)
           overrides == Over(rules, Over(severity, Over(file, TrialOverride)))
<1>1. NamesAPath(rules)
    BY DEF NamesAPath
<1>2. NamesAPath(severity)
    BY GivenFields DEF NamesAPath
<1>3. NamesAPath(file)
    <2>1. CASE o.baseline_file = Nothing
        BY <2>1 DEF NamesAPath, Given
    <2>2. CASE o.baseline_file # Nothing
        BY <2>2, OptionsAssumption, GivenFields DEF NamesAPath
    <2> QED  BY <2>1, <2>2
<1>4. NamesAPath(TrialOverride)
    BY DEF NamesAPath, TrialOverride
<1>5. ScanConfig(o) = ConfigWith(overrides)
    BY DEF ScanConfig
<1> HIDE DEF rules, severity, file
<1>6. NamesAPath(overrides)
    <2>1. NamesAPath(Over(file, TrialOverride))
        BY <1>3, <1>4, OverNames
    <2>2. NamesAPath(Over(severity, Over(file, TrialOverride)))
        BY <1>2, <2>1, OverNames
    <2> QED  BY <1>1, <2>2, OverNames
<1> HIDE DEF overrides
<1> QED  BY <1>5, <1>6, ConfigNames
\* The step that a run of the commands takes on the files and the history is one
\* of three: none, a file written with what was found, a file pruned.
LEMMA WritingKeepsAcceptance ==
    ASSUME AcceptanceInv, DOMAIN files = Paths, today \in Nat,
           NEW p, p # Nothing, NEW findings, NEW days \in Int \cup {Never}, days # 0,
           WriteBaseline(p, findings, days), layers' = layers
    PROVE  AcceptanceInv'
<1>1. /\ files' = [files EXCEPT ![p] = create_baseline(findings, days, today)]
      /\ accepted' = {a \in accepted : a.file # p}
                     \cup Acceptance(p, {f.fingerprint : f \in findings}, days)
    BY DEF WriteBaseline
<1>2. \A a \in Acceptance(p, {f.fingerprint : f \in findings}, days) : a.file = p
    BY DEF Acceptance
<1>3. \A a \in accepted' : a.file # Nothing
    BY <1>1, <1>2 DEF AcceptanceInv
<1>4. ASSUME NEW q \in Paths, Readable(files'[q]), NEW now \in Nat
      PROVE  active_fingerprints(LoadBaseline(files'[q]), now) = AcceptedIn(q, now)'
    <2>1. CASE q # p
        <3>1. files'[q] = files[q]
            BY <1>1, <2>1
        <3>2. \A a : a \in accepted' /\ a.file = q <=> a \in accepted /\ a.file = q
            BY <1>1, <1>2, <2>1
        <3>3. AcceptedIn(q, now)' = AcceptedIn(q, now)
            BY <3>2 DEF AcceptedIn
        <3> QED  BY <1>4, <3>1, <3>3 DEF AcceptanceInv
    <2>2. CASE q = p
        <3> DEFINE lapse == IF days \in {0, Never} THEN Never ELSE today + days
                   entry(f) == [fingerprint |-> f.fingerprint, expires_at |-> lapse]
                   written == {entry(f) : f \in findings}
        <3>1. files'[q] = [schema |-> 2, entries |-> written]
            BY <1>1, <2>2 DEF create_baseline
        <3>2. LoadBaseline(files'[q]) = written
            <4> HIDE DEF written
            <4> QED  BY <3>1 DEF LoadBaseline
        <3>3. is_expired([fingerprint |-> 1, expires_at |-> lapse], now)
                 <=> ~ (days = Never \/ now < today + days)
            BY NeverAssumption DEF is_expired
        <3>4. \A f \in findings : is_expired(entry(f), now)
                                    <=> ~ (days = Never \/ now < today + days)
            BY <3>3 DEF is_expired
        <3>5. \A a : a \in accepted' /\ a.file = p
                       <=> a \in Acceptance(p, {f.fingerprint : f \in findings}, days)
            BY <1>1, <1>2
        <3>6. AcceptedIn(p, now)'
                = {a.fingerprint : a \in {x \in Acceptance(p, {f.fingerprint : f \in findings}, days) :
                                             HoldsAt(x, now)}}
            BY <3>5 DEF AcceptedIn
        <3>7. \A a \in Acceptance(p, {f.fingerprint : f \in findings}, days) :
                 /\ a.fingerprint \in {f.fingerprint : f \in findings}
                 /\ HoldsAt(a, now) <=> days = Never \/ now < today + days
            BY DEF Acceptance, HoldsAt
        <3>8. \A f \in findings :
                 \E a \in Acceptance(p, {g.fingerprint : g \in findings}, days) :
                    a.fingerprint = f.fingerprint
            <4> SUFFICES ASSUME NEW f \in findings
                         PROVE  \E a \in Acceptance(p, {g.fingerprint : g \in findings}, days) :
                                   a.fingerprint = f.fingerprint
                OBVIOUS
            <4> DEFINE a == [file |-> p, fingerprint |-> f.fingerprint, from |-> today, for |-> days]
            <4>1. a \in Acceptance(p, {g.fingerprint : g \in findings}, days)
                BY DEF Acceptance
            <4> QED  BY <4>1
        <3>9. AcceptedIn(p, now)'
                = IF days = Never \/ now < today + days
                  THEN {f.fingerprint : f \in findings} ELSE {}
            BY <3>6, <3>7, <3>8
        <3>10. active_fingerprints(written, now)
                 = IF days = Never \/ now < today + days
                   THEN {f.fingerprint : f \in findings} ELSE {}
            <4>1. CASE days = Never \/ now < today + days
                <5>1. {x \in written : ~ is_expired(x, now)} = written
                    BY <3>4, <4>1
                <5>2. {x.fingerprint : x \in written} = {f.fingerprint : f \in findings}
                    <6>1. \A f \in findings : entry(f).fingerprint = f.fingerprint
                        OBVIOUS
                    <6> HIDE DEF entry
                    <6> QED  BY <6>1
                <5> HIDE DEF written
                <5> QED  BY <4>1, <5>1, <5>2 DEF active_fingerprints
            <4>2. CASE ~ (days = Never \/ now < today + days)
                BY <3>4, <4>2 DEF active_fingerprints
            <4> QED  BY <4>1, <4>2
        <3> QED  BY <2>2, <3>2, <3>9, <3>10
    <2> QED  BY <2>1, <2>2
<1> QED  BY <1>3, <1>4 DEF AcceptanceInv, NamesAPath
LEMMA PruningKeepsAcceptance ==
    ASSUME AcceptanceInv, DOMAIN files = Paths, NEW p \in Paths, BaselinePrune(p)
    PROVE  AcceptanceInv'
<1> DEFINE entries == LoadBaseline(files[p])
           found == {f.fingerprint : f \in OwnFindings}
           left == {entry \in entries : entry.fingerprint \in found}
<1>1. /\ Readable(files[p]) /\ layers' = layers
      /\ files' = [files EXCEPT ![p] = prune_baseline(entries, OwnFindings)]
      /\ accepted' = {a \in accepted : a.file # p \/ a.fingerprint \in found}
    BY DEF BaselinePrune
<1>2. \A a \in accepted' : a.file # Nothing
    BY <1>1 DEF AcceptanceInv
<1>3. files'[p] = [schema |-> 2, entries |-> left]
    <2>1. entries \ diff_baseline(OwnFindings, entries, 0).fixed = left
        BY DEF diff_baseline
    <2> HIDE DEF left, entries
    <2> QED  BY <1>1, <2>1 DEF prune_baseline
<1>4. LoadBaseline(files'[p]) = left
    <2> HIDE DEF left
    <2> QED  BY <1>3 DEF LoadBaseline
<1>5. ASSUME NEW q \in Paths, Readable(files'[q]), NEW now \in Nat
      PROVE  active_fingerprints(LoadBaseline(files'[q]), now) = AcceptedIn(q, now)'
    <2>1. CASE q # p
        <3>1. files'[q] = files[q]
            BY <1>1, <2>1
        <3>2. \A a : a \in accepted' /\ a.file = q <=> a \in accepted /\ a.file = q
            BY <1>1, <2>1
        <3>3. AcceptedIn(q, now)' = AcceptedIn(q, now)
            BY <3>2 DEF AcceptedIn
        <3> QED  BY <1>5, <3>1, <3>3 DEF AcceptanceInv
    <2>2. CASE q = p
        <3>1. active_fingerprints(entries, now) = AcceptedIn(p, now)
            BY <1>1 DEF AcceptanceInv
        <3>2. active_fingerprints(left, now) = active_fingerprints(entries, now) \cap found
            BY DEF active_fingerprints
        <3>3. \A a : a \in accepted' /\ a.file = p
                       <=> a \in accepted /\ a.file = p /\ a.fingerprint \in found
            BY <1>1
        <3>4. AcceptedIn(p, now)' = AcceptedIn(p, now) \cap found
            <4> HIDE DEF found
            <4> QED  BY <3>3 DEF AcceptedIn
        <3> QED  BY <1>4, <2>2, <3>1, <3>2, <3>4
    <2> QED  BY <2>1, <2>2
<1> QED  BY <1>1, <1>2, <1>5 DEF AcceptanceInv, NamesAPath

\* At first, what the files say is taken to have been accepted on the first day.
LEMMA FirstAcceptance == CommandInit => AcceptanceInv
<1> SUFFICES ASSUME CommandInit  PROVE  AcceptanceInv
    OBVIOUS
<1> DEFINE Of(p, e) == [file |-> p, fingerprint |-> e.fingerprint, from |-> 0, for |-> e.expires_at]
<1>1. \A l \in DOMAIN layers : NamesAPath(layers[l])
    BY SettingsAssumption DEF CommandInit, NamesAPath
<1>2. \A a : a \in accepted <=> \E p \in Paths : \E e \in LoadBaseline(FirstFiles[p]) : a = Of(p, e)
    BY DEF CommandInit
<1>3. \A a \in accepted : a.file # Nothing
    BY <1>2, PathsAssumption
<1>4. ASSUME NEW p \in Paths, Readable(files[p]), NEW now \in Nat
      PROVE  active_fingerprints(LoadBaseline(files[p]), now) = AcceptedIn(p, now)
    <2> DEFINE entries == LoadBaseline(FirstFiles[p])
    <2>1. files[p] = FirstFiles[p]
        BY DEF CommandInit
    <2>2. \A e \in entries : e.expires_at \in Int \cup {Never}
        <3>1. CASE FirstFiles[p].schema = 2
            BY <3>1, FilesAssumption DEF LoadBaseline
        <3>2. CASE FirstFiles[p].schema \in {0, 1}
            BY <3>2 DEF LoadBaseline
        <3>3. FirstFiles[p].schema # 99
            BY <1>4, <2>1 DEF Readable
        <3> QED  BY <3>1, <3>2, <3>3, FilesAssumption
    <2>3. \A e \in entries : ~ is_expired(e, now) <=> HoldsAt(Of(p, e), now)
        BY <2>2, NeverAssumption DEF is_expired, HoldsAt
    <2>4. \A a : a \in accepted /\ a.file = p <=> \E e \in entries : a = Of(p, e)
        BY <1>2
    <2> HIDE DEF entries
    <2>5. \A e \in entries : Of(p, e) \in accepted /\ Of(p, e).file = p
                             /\ Of(p, e).fingerprint = e.fingerprint
        BY <2>4
    <2>6. \A x : x \in active_fingerprints(entries, now)
                    <=> \E e \in entries : x = e.fingerprint /\ HoldsAt(Of(p, e), now)
        BY <2>3 DEF active_fingerprints
    <2>7. \A x : x \in AcceptedIn(p, now)
                    <=> \E a \in accepted : a.file = p /\ x = a.fingerprint /\ HoldsAt(a, now)
        BY DEF AcceptedIn
    <2>8. active_fingerprints(entries, now) = AcceptedIn(p, now)
        <3> HIDE DEF Of
        <3>1. \A x : x \in active_fingerprints(entries, now) => x \in AcceptedIn(p, now)
            BY <2>5, <2>6, <2>7
        <3>2. \A x : x \in AcceptedIn(p, now) => x \in active_fingerprints(entries, now)
            BY <2>4, <2>5, <2>6, <2>7
        <3> QED  BY <3>1, <3>2
    <2> QED  BY <2>1, <2>8 DEF entries
<1> QED  BY <1>1, <1>3, <1>4 DEF AcceptanceInv
LEMMA AcceptanceHolds ==
    ASSUME LapsesAreReal
    PROVE  CommandSpec => []AcceptanceInv
<1>1. CommandTypeOK /\ AcceptanceInv /\ [CommandNext]_commandVars => AcceptanceInv'
    <2> SUFFICES ASSUME CommandTypeOK, AcceptanceInv, [CommandNext]_commandVars
                 PROVE  AcceptanceInv'
        OBVIOUS
    <2>1. DOMAIN files = Paths /\ today \in Nat
        BY BoundsAssumption DEF CommandTypeOK
    <2>2. ASSUME UNCHANGED <<layers, files, accepted>>  PROVE  AcceptanceInv'
        BY <2>2 DEF AcceptanceInv, AcceptedIn, NamesAPath
    <2>3. ASSUME NEW command, NEW exit, Prints(command, exit)  PROVE  AcceptanceInv'
        BY <2>2, <2>3, Printed
    <2>4. ASSUME NEW o \in Options, Scan(o)  PROVE  AcceptanceInv'
        <3> DEFINE policy == IF o.policy = Nothing THEN Nothing ELSE from_dict(o.policy)
                   findings == run_scan(code, ScanConfig(o), policy, files, today).findings
                   p == UpdatedPath(o, policy)
        <3>1. CASE o.update_baseline
            <4>1. WriteBaseline(p, findings, o.days) /\ layers' = layers
                BY <2>4, <3>1 DEF Scan
            <4>2. p # Nothing
                BY PathsAssumption DEF UpdatedPath
            <4>3. o.days \in Int \cup {Never} /\ o.days # 0
                BY OptionsAssumption DEF LapsesAreReal
            <4> HIDE DEF p, findings
            <4> QED  BY <2>1, <4>1, <4>2, <4>3, WritingKeepsAcceptance
        <3>2. CASE ~ o.update_baseline
            BY <2>2, <2>4, <3>2 DEF Scan
        <3> QED  BY <3>1, <3>2
    <2>5. ASSUME NEW o \in Options, ScanRefused(o)  PROVE  AcceptanceInv'
        BY <2>3, <2>5 DEF ScanRefused
    <2>6. ASSUME NEW p \in Paths, NEW days \in Terms, NEW justified \in BOOLEAN,
                 BaselineCreate(p, days, justified)
          PROVE  AcceptanceInv'
        <3>1. WriteBaseline(p, OwnFindings, days) /\ layers' = layers
            BY <2>6 DEF BaselineCreate
        <3>2. p # Nothing /\ days \in Int \cup {Never} /\ days # 0
            BY PathsAssumption, TermsAssumption DEF LapsesAreReal
        <3> QED  BY <2>1, <3>1, <3>2, WritingKeepsAcceptance
    <2>7. ASSUME NEW justified \in BOOLEAN, BaselineCreateRefused(justified)
          PROVE  AcceptanceInv'
        BY <2>3, <2>7 DEF BaselineCreateRefused
    <2>8. ASSUME NEW p \in Paths, BaselineInspect(p)  PROVE  AcceptanceInv'
        BY <2>3, <2>8 DEF BaselineInspect
    <2>9. ASSUME NEW p \in Paths, BaselinePrune(p)  PROVE  AcceptanceInv'
        BY <2>1, <2>9, PruningKeepsAcceptance
    <2>10. ASSUME NEW document, PolicyValidate(document)  PROVE  AcceptanceInv'
        BY <2>3, <2>10 DEF PolicyValidate
    <2>11. CASE LicenseVerify
        BY <2>3, <2>11 DEF LicenseVerify
    <2>12. CASE ConfigInit
        <3>1. files' = files /\ accepted' = accepted
            BY <2>12 DEF ConfigInit
        <3>2. DOMAIN layers' = DOMAIN layers
            BY <2>12 DEF ConfigInit
        <3>3. \A l \in DOMAIN layers : layers'[l] = layers[l]
                                      \/ layers'[l] = [min_severity |-> "info"]
            BY <2>12 DEF ConfigInit
        <3>4. NamesAPath([min_severity |-> "info"])
            BY DEF NamesAPath
        <3>5. \A l \in DOMAIN layers : NamesAPath(layers'[l])
            BY <3>3, <3>4 DEF AcceptanceInv
        <3>6. (\A l \in DOMAIN layers : NamesAPath(layers[l]))'
            BY <3>2, <3>5 DEF NamesAPath
        <3> QED  BY <3>1, <3>6 DEF AcceptanceInv, AcceptedIn
    <2>13. ASSUME NEW document, PlatformScan(document)  PROVE  AcceptanceInv'
        BY <2>2, <2>13 DEF PlatformScan
    <2>14. CASE EditCode \/ NextDay
        BY <2>2, <2>14 DEF EditCode, NextDay
    <2>15. CASE UNCHANGED commandVars
        BY <2>2, <2>15 DEF commandVars
    <2> QED  BY <2>4, <2>5, <2>6, <2>7, <2>8, <2>9, <2>10, <2>11, <2>12, <2>13, <2>14, <2>15
             DEF CommandNext
<1> QED  BY <1>1, FirstAcceptance, CommandTypeCorrect, PTL DEF CommandSpec

\* GateMatchesAcceptance, if no acceptance is for 0 days, which the code reads as
\* for ever.  "Accepted findings stop gating; expired ones start gating again":
\* without a policy or a cap --fail-on any lets a build pass exactly if all it
\* reports, other than for information, is accepted in the baseline in effect.
THEOREM GatesOnWhatIsNotAccepted ==
    ASSUME LapsesAreReal
    PROVE  CommandSpec => GateMatchesAcceptance
<1> DEFINE Gated == ScanEnded /\ "options" \in DOMAIN outcome'
                    /\ outcome'.options.fail_on = "any"
                    /\ outcome'.options.policy = Nothing
                    /\ outcome'.options.max_risk_score = Nothing
           Passes == \A f \in outcome'.findings :
                        f.severity = "info" \/ AcceptedNow(f, outcome'.baseline)
<1>1. ASSUME CommandTypeOK, AcceptanceInv, CommandNext, Gated
      PROVE  outcome'.exit = SUCCESS <=> Passes
    <2>1. PICK o \in Options : Scan(o)
        BY <1>1, OptionsAreOfScans
    <2> DEFINE policy == IF o.policy = Nothing THEN Nothing ELSE from_dict(o.policy)
               config == ScanConfig(o)
               result == run_scan(code, config, policy, files, today)
               entries == LoadBaseline(BaselineFile(files, config))
               active == active_fingerprints(entries, today)
    <2>2. /\ outcome'.options = o
          /\ outcome'.findings = result.findings
          /\ outcome'.baseline = ConfigUnder(config, policy).baseline_file
          /\ policy = Nothing => outcome'.exit = exit_code(result, o)
          /\ ~ ScanFails(config, policy, files)
        BY <2>1 DEF Scan
    <2>3. o.fail_on = "any" /\ o.policy = Nothing /\ o.max_risk_score = Nothing
        BY <1>1, <2>2
    <2>4. policy = Nothing /\ ConfigUnder(config, policy) = config
        BY <2>3 DEF ConfigUnder
    <2>5. gating_findings(result) = {f \in result.findings : f.fingerprint \notin active}
        <3> HIDE DEF policy, config
        <3> QED  BY <2>4, GatingAreUnaccepted
    <2>6. Readable(BaselineFile(files, config))
        BY <2>2, <2>4 DEF ScanFails
    <2>7. config.baseline_file \in Paths \cup {Nothing}
        BY <1>1, ScanNames DEF AcceptanceInv, CommandTypeOK
    <2>8. active = AcceptedIn(config.baseline_file, today)
        <3> HIDE DEF config
        <3>1. CASE config.baseline_file = Nothing
            <4>1. active = {}
                BY <3>1 DEF BaselineFile, Missing, LoadBaseline, active_fingerprints
            <4>2. AcceptedIn(Nothing, today) = {}
                BY <1>1 DEF AcceptanceInv, AcceptedIn
            <4> QED  BY <3>1, <4>1, <4>2
        <3>2. CASE config.baseline_file # Nothing
            <4>1. BaselineFile(files, config) = files[config.baseline_file]
                BY <3>2 DEF BaselineFile
            <4>2. today \in Nat
                BY <1>1, BoundsAssumption DEF CommandTypeOK
            <4> QED  BY <1>1, <2>6, <2>7, <3>2, <4>1, <4>2 DEF AcceptanceInv
        <3> QED  BY <3>1, <3>2
    <2>9. \A f : AcceptedNow(f, config.baseline_file)
                    <=> f.fingerprint \in AcceptedIn(config.baseline_file, today)
        BY DEF AcceptedNow, AcceptedIn, HoldsAt
    <2> HIDE DEF active, result, config, policy
    <2>10. outcome'.exit = SUCCESS
              <=> {f \in gating_findings(result) : f.severity # "info"} = {}
        <3>1. outcome'.exit = exit_code(result, o)
            BY <2>2, <2>4
        <3>2. offending(gating_findings(result), "any")
                = {f \in gating_findings(result) : f.severity # "info"}
            BY DEF offending
        <3>3. o.fail_on # Nothing
            BY <2>3, NothingAssumption
        <3> QED  BY <2>3, <3>1, <3>2, <3>3 DEF exit_code, SUCCESS, GATE_FAILED
    <2>11. Passes <=> \A f \in result.findings : f.severity = "info" \/ f.fingerprint \in active
        BY <2>2, <2>4, <2>8, <2>9
    <2> QED  BY <2>5, <2>10, <2>11
<1>2. CommandTypeOK /\ AcceptanceInv /\ [CommandNext]_commandVars
         => [Gated => (outcome'.exit = SUCCESS <=> Passes)]_commandVars
    BY <1>1
<1> QED  BY <1>2, CommandTypeCorrect, AcceptanceHolds, PTL DEF CommandSpec, GateMatchesAcceptance
-----------------------------------------------------------------------------
(***************************************************************************)
(* Licences.                                                               *)
(***************************************************************************)
\* What a text names, wherever it says WITH.
Named(text) == {text[i] : i \in LicencePlaces(text)}
NoChoice(text) == \A i \in DOMAIN text : text[i] # "OR"

\* What any verdict, on SPDX or on anything else, rests on.  A text is passed over
\* in silence only if it names a licence that is allowed, and none but such if it
\* has no OR, or if it is not understood and unknown_action allows that; it is
\* reported as blocked only if it names one that is blocked, and none but such if
\* it has an OR, or if it is not understood and unknown_action blocks that.
VerdictFollowsLists ==
    IsChecked =>
        LET text == verdict.expression.text
            lists == verdict.lists
            unread == parse_expression(text).is_unknown
        IN  /\ verdict.findings = {} =>
                  \/ unread /\ lists.unknown_action = "allow"
                  \/ /\ Named(text) \cap lists.allowed # {}
                     /\ NoChoice(text) => Named(text) \subseteq lists.allowed
            /\ (\E f \in verdict.findings : f.severity = "high") =>
                  \/ unread /\ lists.unknown_action = "block"
                  \/ /\ Named(text) \cap lists.blocked # {}
                     /\ ~ NoChoice(text) => Named(text) \subseteq lists.blocked

ListsTypeOK(lists) == lists.unknown_action \in {"warn", "block", "allow"}

LicenceClasses == {"allowed", "warning", "unknown", "blocked"}

LEMMA Positions ==
    /\ PositionOf("allowed") = 1 /\ PositionOf("warning") = 2
    /\ PositionOf("unknown") = 3 /\ PositionOf("blocked") = 4
BY DEF PositionOf, CLASSIFICATION_ORDER

LEMMA MostPermissiveIs ==
    ASSUME NEW classes, classes \subseteq LicenceClasses, classes # {}
    PROVE  /\ MostPermissive(classes) \in classes
           /\ \A d \in classes : PositionOf(MostPermissive(classes)) <= PositionOf(d)
<1>1. \E c \in classes : \A d \in classes : PositionOf(c) <= PositionOf(d)
    <2>1. CASE "allowed" \in classes
        BY <2>1, Positions DEF LicenceClasses
    <2>2. CASE "warning" \in classes /\ classes \cap {"allowed"} = {}
        BY <2>2, Positions DEF LicenceClasses
    <2>3. CASE "unknown" \in classes /\ classes \cap {"allowed", "warning"} = {}
        BY <2>3, Positions DEF LicenceClasses
    <2>4. CASE "blocked" \in classes /\ classes \cap {"allowed", "warning", "unknown"} = {}
        BY <2>4, Positions DEF LicenceClasses
    <2> QED  BY <2>1, <2>2, <2>3, <2>4 DEF LicenceClasses
<1> QED  BY <1>1 DEF MostPermissive

LEMMA StrictestIs ==
    ASSUME NEW classes, classes \subseteq LicenceClasses, classes # {}
    PROVE  /\ Strictest(classes) \in classes
           /\ \A d \in classes : PositionOf(d) <= PositionOf(Strictest(classes))
<1>1. \E c \in classes : \A d \in classes : PositionOf(d) <= PositionOf(c)
    <2>1. CASE "blocked" \in classes
        BY <2>1, Positions DEF LicenceClasses
    <2>2. CASE "unknown" \in classes /\ classes \cap {"blocked"} = {}
        BY <2>2, Positions DEF LicenceClasses
    <2>3. CASE "warning" \in classes /\ classes \cap {"blocked", "unknown"} = {}
        BY <2>3, Positions DEF LicenceClasses
    <2>4. CASE "allowed" \in classes /\ classes \cap {"blocked", "unknown", "warning"} = {}
        BY <2>4, Positions DEF LicenceClasses
    <2> QED  BY <2>1, <2>2, <2>3, <2>4 DEF LicenceClasses
<1> QED  BY <1>1 DEF Strictest

LEMMA SingleClasses ==
    ASSUME NEW id, NEW lists
    PROVE  /\ classify_single(id, lists) \in LicenceClasses
           /\ classify_single(id, lists) = "allowed" => id \in lists.allowed
           /\ classify_single(id, lists) = "blocked" => id \in lists.blocked
BY DEF classify_single, LicenceClasses

\* A text that is understood is classified as allowed, or as blocked, by the
\* licences that it names.
LEMMA ClassifiedByLists ==
    ASSUME NEW text, NEW lists, ~ parse_expression(text).is_unknown
    PROVE  LET class == classify_expression(text, lists)
           IN  /\ class \in LicenceClasses
               /\ class = "allowed" => /\ Named(text) \cap lists.allowed # {}
                                       /\ NoChoice(text) => Named(text) \subseteq lists.allowed
               /\ class = "blocked" => /\ Named(text) \cap lists.blocked # {}
                                       /\ ~ NoChoice(text) => Named(text) \subseteq lists.blocked
<1> DEFINE read == parse_expression(text)
           ids == Named(text)
           classes == {classify_single(id, lists) : id \in ids}
           class == classify_expression(text, lists)
<1>1. read.ids = ids /\ ids # {}
    BY DEF parse_expression, Named
<1>2. read.operator = "OR" <=> ~ NoChoice(text)
    <2>1. ~ (\E i, j \in DOMAIN text : text[i] = "OR" /\ text[j] = "AND")
        BY DEF parse_expression
    <2> DEFINE operators == {text[i] : i \in DOMAIN text} \cap {"OR", "AND"}
    <2>2. read.operator = CASE "AND" \in operators -> "AND"
                            [] operators = {"OR"} -> "OR"
                            [] OTHER -> "NONE"
        BY DEF parse_expression
    <2>3. CASE "AND" \in operators
        BY <2>1, <2>2, <2>3 DEF NoChoice
    <2>4. CASE "AND" \notin operators /\ "OR" \in operators
        <3>1. operators = {"OR"}
            BY <2>4
        <3> QED  BY <2>2, <2>4, <3>1 DEF NoChoice
    <2>5. CASE "AND" \notin operators /\ "OR" \notin operators
        <3>1. operators # {"OR"}
            BY <2>5
        <3>2. read.operator = "NONE"
            BY <2>2, <2>5, <3>1
        <3> QED  BY <2>5, <3>2 DEF NoChoice
    <2> QED  BY <2>3, <2>4, <2>5
<1>3. class = IF read.operator = "OR" THEN MostPermissive(classes) ELSE Strictest(classes)
    BY <1>1 DEF classify_expression, LeavesChoice
<1> HIDE DEF read, ids
<1>4. classes \subseteq LicenceClasses /\ classes # {}
    BY <1>1, SingleClasses
<1> HIDE DEF class
<1>5. CASE ~ NoChoice(text)
    <2>1. class \in classes /\ \A d \in classes : PositionOf(class) <= PositionOf(d)
        <3> HIDE DEF classes
        <3> QED  BY <1>2, <1>3, <1>4, <1>5, MostPermissiveIs
    <2>2. PICK id \in ids : class = classify_single(id, lists)
        BY <2>1
    <2>3. ASSUME class = "blocked", NEW k \in ids  PROVE  k \in lists.blocked
        <3>1. classify_single(k, lists) \in LicenceClasses
              /\ 4 <= PositionOf(classify_single(k, lists))
            BY <2>1, <2>3, Positions, SingleClasses
        <3> QED  BY <3>1, Positions, SingleClasses DEF LicenceClasses
    <2> QED  BY <1>5, <2>2, <2>3, SingleClasses DEF class, ids
<1>6. CASE NoChoice(text)
    <2>1. class \in classes /\ \A d \in classes : PositionOf(d) <= PositionOf(class)
        <3> HIDE DEF classes
        <3> QED  BY <1>2, <1>3, <1>4, <1>6, StrictestIs
    <2>2. PICK id \in ids : class = classify_single(id, lists)
        BY <2>1
    <2>3. ASSUME class = "allowed", NEW k \in ids  PROVE  k \in lists.allowed
        <3>1. classify_single(k, lists) \in LicenceClasses
              /\ PositionOf(classify_single(k, lists)) <= 1
            BY <2>1, <2>3, Positions, SingleClasses
        <3> QED  BY <3>1, Positions, SingleClasses DEF LicenceClasses
    <2> QED  BY <1>6, <2>2, <2>3, SingleClasses DEF class, ids
<1> QED  BY <1>5, <1>6

\* Of any text, well formed or not: "GPL-3.0 OR MIT MPL-2.0" too is passed over in
\* silence only because MIT, which it names, is allowed.
THEOREM VerdictsFollowLists ==
    ASSUME \A lists \in LicenseLists : ListsTypeOK(lists)
    PROVE  LicenseSpec => []VerdictFollowsLists
<1>1. LicenseInit => VerdictFollowsLists
    BY DEF LicenseInit, VerdictFollowsLists, IsChecked
<1>2. VerdictFollowsLists /\ [LicenseNext]_verdict => VerdictFollowsLists'
    <2> SUFFICES ASSUME VerdictFollowsLists, [LicenseNext]_verdict
                 PROVE  VerdictFollowsLists'
        OBVIOUS
    <2>1. ASSUME NEW expression \in Expressions, NEW lists \in LicenseLists,
                 CheckLicense(expression, lists)
          PROVE  VerdictFollowsLists'
        <3> DEFINE text == expression.text
                   unread == parse_expression(text).is_unknown
                   class == classify_expression(text, lists)
        <3>1. /\ verdict'.expression = expression /\ verdict'.lists = lists
              /\ verdict'.findings = license_finding(text, lists)
            BY <2>1 DEF CheckLicense
        <3>2. /\ class \in LicenceClasses
              /\ unread => /\ class = "allowed" => lists.unknown_action = "allow"
                           /\ class = "blocked" => lists.unknown_action = "block"
              /\ ~ unread
                    => /\ class = "allowed"
                             => /\ Named(text) \cap lists.allowed # {}
                                /\ NoChoice(text) => Named(text) \subseteq lists.allowed
                       /\ class = "blocked"
                             => /\ Named(text) \cap lists.blocked # {}
                                /\ ~ NoChoice(text) => Named(text) \subseteq lists.blocked
            <4>1. CASE unread
                <5>1. class = [warn |-> "unknown", block |-> "blocked",
                               allow |-> "allowed"][lists.unknown_action]
                    BY <4>1 DEF classify_expression
                <5>2. lists.unknown_action \in {"warn", "block", "allow"}
                    BY DEF ListsTypeOK
                <5> HIDE DEF class, unread
                <5> QED  BY <4>1, <5>1, <5>2 DEF LicenceClasses
            <4>2. CASE ~ unread
                <5> HIDE DEF text
                <5> QED  BY <4>2, ClassifiedByLists
            <4> QED  BY <4>1, <4>2
        <3>3. license_finding(text, lists) = {} => class \notin {"unknown", "blocked", "warning"}
            BY DEF license_finding
        <3>4. (\E f \in license_finding(text, lists) : f.severity = "high") => class = "blocked"
            BY DEF license_finding
        <3> HIDE DEF class, unread
        <3>5. /\ license_finding(text, lists) = {} => class = "allowed"
              /\ verdict'.expression.text = text
            BY <3>1, <3>2, <3>3 DEF LicenceClasses
        <3> HIDE DEF text
        <3> QED  BY <3>1, <3>2, <3>4, <3>5 DEF VerdictFollowsLists, IsChecked, unread
    <2>2. CASE UNCHANGED verdict
        BY <2>2 DEF VerdictFollowsLists, IsChecked
    <2> QED  BY <2>1, <2>2 DEF LicenseNext
<1> QED  BY <1>1, <1>2, PTL DEF LicenseSpec

-----------------------------------------------------------------------------
(***************************************************************************)
(* The order of versions.                                                  *)
(***************************************************************************)
LEMMA PlaceAmongStrings ==
    ASSUME NEW n \in 0..99
    PROVE  AmongStrings(n) \in Nat /\ (AmongStrings(n) = 0 <=> n = 0)
<1>1. n = 10 * (n \div 10) + (n % 10) /\ n \div 10 \in Nat /\ n % 10 \in 0..9
    OBVIOUS
<1> QED  BY <1>1 DEF AmongStrings

LEMMA OneNumberMore ==
    ASSUME NEW numbers \in Seq(Nat), NEW n \in 0..99
    PROVE  Append(numbers, n) \in Seq(Nat)
OBVIOUS

LEMMA PaddedNumbers ==
    ASSUME NEW v \in VersionType
    PROVE  /\ Padded(v) = [i \in 1..4 |-> Padded(v)[i]]
           /\ Padded(v)[1] \in Nat /\ Padded(v)[2] \in Nat
           /\ Padded(v)[3] \in Nat /\ Padded(v)[4] \in Nat
           /\ Prerelease(v) \in Nat
<1>1. /\ v.core \in Seq(Nat) /\ v.pre \in 0..99 /\ v.hyphen \in BOOLEAN
    BY DEF VersionType
<1>2. Numbers(v) \in Seq(Nat)
    <2>1. CASE v.pre = 0 \/ v.hyphen
        BY <1>1, <2>1 DEF Numbers
    <2>2. CASE ~ (v.pre = 0 \/ v.hyphen)
        <3>1. Append(v.core, v.pre) \in Seq(Nat)
            BY <1>1, OneNumberMore, Zenon
        <3>2. Numbers(v) = Append(v.core, v.pre)
            BY <2>2 DEF Numbers
        <3> QED  BY <3>1, <3>2
    <2> QED  BY <2>1, <2>2
<1>3. \A i \in 1..4 : i <= Len(Numbers(v)) => Numbers(v)[i] \in Nat
    BY <1>2
<1>4. \A i \in 1..4 : Padded(v)[i] \in Nat
    BY <1>3 DEF Padded
<1>5. Padded(v) = [i \in 1..4 |-> Padded(v)[i]]
    BY DEF Padded
<1>6. Prerelease(v) \in Nat
    BY <1>1, PlaceAmongStrings DEF Prerelease
<1> QED  BY <1>4, <1>5, <1>6

\* Two versions whose numbers are the same, written out or not.
LEMMA SameNumbers ==
    ASSUME NEW v \in VersionType, NEW w \in VersionType
    PROVE  Padded(v) = Padded(w) <=> /\ Padded(v)[1] = Padded(w)[1] /\ Padded(v)[2] = Padded(w)[2]
                                     /\ Padded(v)[3] = Padded(w)[3] /\ Padded(v)[4] = Padded(w)[4]
<1> SUFFICES ASSUME Padded(v)[1] = Padded(w)[1], Padded(v)[2] = Padded(w)[2],
                    Padded(v)[3] = Padded(w)[3], Padded(v)[4] = Padded(w)[4]
             PROVE  Padded(v) = Padded(w)
    OBVIOUS
<1>1. \A i \in 1..4 : i = 1 \/ i = 2 \/ i = 3 \/ i = 4
    OBVIOUS
<1>2. \A i \in 1..4 : Padded(v)[i] = Padded(w)[i]
    BY <1>1
<1> QED  BY <1>2, PaddedNumbers

LEMMA OneOfFour == \A i \in 1..4 : i = 1 \/ i = 2 \/ i = 3 \/ i = 4
OBVIOUS

\* The order, number by number.
LEMMA NumberByNumber ==
    ASSUME NEW v \in VersionType, NEW w \in VersionType
    PROVE  VersionLess(v, w) <=>
              \/ Padded(v)[1] < Padded(w)[1]
              \/ /\ Padded(v)[1] = Padded(w)[1]
                 /\ Padded(v)[2] < Padded(w)[2]
              \/ /\ Padded(v)[1] = Padded(w)[1] /\ Padded(v)[2] = Padded(w)[2]
                 /\ Padded(v)[3] < Padded(w)[3]
              \/ /\ Padded(v)[1] = Padded(w)[1] /\ Padded(v)[2] = Padded(w)[2]
                 /\ Padded(v)[3] = Padded(w)[3]
                 /\ Padded(v)[4] < Padded(w)[4]
              \/ /\ Padded(v)[1] = Padded(w)[1] /\ Padded(v)[2] = Padded(w)[2]
                 /\ Padded(v)[3] = Padded(w)[3] /\ Padded(v)[4] = Padded(w)[4]
                 /\ Prerelease(v) # 0 /\ (Prerelease(w) = 0 \/ Prerelease(v) < Prerelease(w))
<1> DEFINE Before(i) == \A j \in 1..(i - 1) : Padded(v)[j] = Padded(w)[j]
           First(i) == Padded(v)[i] < Padded(w)[i] /\ Before(i)
<1>1. /\ Before(1)
      /\ Before(2) <=> Padded(v)[1] = Padded(w)[1]
    OBVIOUS
<1>2. Before(3) <=> Padded(v)[1] = Padded(w)[1] /\ Padded(v)[2] = Padded(w)[2]
    OBVIOUS
<1>3. Before(4) <=> Padded(v)[1] = Padded(w)[1] /\ Padded(v)[2] = Padded(w)[2]
                    /\ Padded(v)[3] = Padded(w)[3]
    <2>1. \A j \in 1..(4 - 1) : j = 1 \/ j = 2 \/ j = 3
        OBVIOUS
    <2> QED  BY <2>1
<1>4. (\E i \in 1..4 : First(i)) <=> First(1) \/ First(2) \/ First(3) \/ First(4)
    <2>1. \A i \in 1..4 : i = 1 \/ i = 2 \/ i = 3 \/ i = 4
        OBVIOUS
    <2> HIDE DEF First
    <2> QED  BY <2>1
<1>5. VersionLess(v, w) <=>
         \/ \E i \in 1..4 : First(i)
         \/ /\ Padded(v) = Padded(w)
            /\ Prerelease(v) # 0 /\ (Prerelease(w) = 0 \/ Prerelease(v) < Prerelease(w))
    BY DEF VersionLess
<1> HIDE DEF Before
<1> QED  BY <1>1, <1>2, <1>3, <1>4, <1>5, SameNumbers

\* Versions that are read right are put in the order of the ecosystems.
LEMMA OrderAsMeant ==
    ASSUME NEW v \in VersionType, ReadRight(v), NEW w \in VersionType, ReadRight(w)
    PROVE  VersionLess(v, w) <=> Precedes(v, w)
<1> DEFINE number(x, i) == IF i <= Len(x.core) THEN x.core[i] ELSE 0
           differ == {i \in 1..4 : number(v, i) # number(w, i)}
<1>1. /\ \A i \in 1..4 : Padded(v)[i] = number(v, i)
      /\ \A i \in 1..4 : Padded(w)[i] = number(w, i)
    BY DEF Padded, Numbers, ReadRight
<1>2. \A i \in 1..4 : number(v, i) \in Nat /\ number(w, i) \in Nat
    BY <1>1, PaddedNumbers, OneOfFour
<1>3. /\ v.pre \in 0..99 /\ (v.pre # 0 => v.hyphen /\ v.pre < 10) /\ (v.pre = 0 => ~ v.hyphen)
      /\ w.pre \in 0..99 /\ (w.pre # 0 => w.hyphen /\ w.pre < 10) /\ (w.pre = 0 => ~ w.hyphen)
    BY DEF VersionType, ReadRight
<1>4. Prerelease(v) = 11 * v.pre /\ Prerelease(w) = 11 * w.pre
    BY <1>3 DEF Prerelease, AmongStrings
<1>5. Prerelease(v) # 0 /\ (Prerelease(w) = 0 \/ Prerelease(v) < Prerelease(w))
        <=> v.pre # 0 /\ (w.pre = 0 \/ v.pre < w.pre)
    BY <1>3, <1>4
<1>6. Padded(v) = Padded(w) <=> differ = {}
    <2>1. Padded(v) = Padded(w) <=> \A i \in 1..4 : Padded(v)[i] = Padded(w)[i]
        BY PaddedNumbers
    <2> HIDE DEF number
    <2> QED  BY <1>1, <2>1
<1>7. (\E i \in 1..4 : /\ Padded(v)[i] < Padded(w)[i]
                       /\ \A j \in 1..(i - 1) : Padded(v)[j] = Padded(w)[j])
        <=> \E i \in differ : /\ \A j \in differ : i <= j
                             /\ number(v, i) < number(w, i)
    <2> HIDE DEF number
    <2>1. ASSUME NEW i \in 1..4, Padded(v)[i] < Padded(w)[i],
                 \A j \in 1..(i - 1) : Padded(v)[j] = Padded(w)[j]
          PROVE  i \in differ /\ (\A j \in differ : i <= j) /\ number(v, i) < number(w, i)
        <3>1. number(v, i) < number(w, i) /\ i \in differ
            BY <1>1, <1>2, <2>1
        <3>2. ASSUME NEW j \in differ  PROVE i <= j
            BY <1>1, <2>1, <3>2
        <3> QED  BY <3>1, <3>2
    <2>2. ASSUME NEW i \in differ, \A j \in differ : i <= j, number(v, i) < number(w, i)
          PROVE  i \in 1..4 /\ Padded(v)[i] < Padded(w)[i]
                 /\ \A j \in 1..(i - 1) : Padded(v)[j] = Padded(w)[j]
        <3>1. ASSUME NEW j \in 1..(i - 1)  PROVE Padded(v)[j] = Padded(w)[j]
            <4>1. j \in 1..4 /\ j < i  BY <3>1
            <4>2. j \notin differ  BY <2>2, <4>1
            <4> QED  BY <1>1, <4>1, <4>2
        <3> QED  BY <1>1, <2>2, <3>1
    <2> QED  BY <2>1, <2>2
<1> HIDE DEF differ, number
<1>8. VersionLess(v, w) <=>
         \/ \E i \in differ : /\ \A j \in differ : i <= j
                            /\ number(v, i) < number(w, i)
         \/ differ = {} /\ v.pre # 0 /\ (w.pre = 0 \/ v.pre < w.pre)
    BY <1>5, <1>6, <1>7 DEF VersionLess
<1> QED  BY <1>8 DEF Precedes, differ, number

LEMMA Irreflexive ==
    ASSUME NEW v \in VersionType  PROVE ~ VersionLess(v, v)
BY NumberByNumber, PaddedNumbers

LEMMA Transitive ==
    ASSUME NEW u \in VersionType, NEW v \in VersionType, NEW w \in VersionType
    PROVE  /\ VersionLess(u, v) /\ VersionLess(v, w) => VersionLess(u, w)
           /\ VersionLess(u, v) => VersionLess(u, w) \/ VersionLess(w, v)
<1> QED  BY NumberByNumber, PaddedNumbers

\* What compares equal is the same to every comparator.
LEMMA EqualNumbers ==
    ASSUME NEW v \in VersionType, NEW w \in VersionType
    PROVE  VersionEqual(v, w) <=> Padded(v) = Padded(w) /\ Prerelease(v) = Prerelease(w)
BY NumberByNumber, PaddedNumbers, SameNumbers DEF VersionEqual

LEMMA EqualSatisfy ==
    ASSUME NEW v \in VersionType, NEW w \in VersionType, VersionEqual(v, w), NEW range
    PROVE  Satisfies(v, range) <=> Satisfies(w, range)
<1>1. Padded(v) = Padded(w) /\ Prerelease(v) = Prerelease(w)
    BY EqualNumbers
<1>2. \A u : (VersionLess(v, u) <=> VersionLess(w, u)) /\ (VersionLess(u, v) <=> VersionLess(u, w))
    BY <1>1 DEF VersionLess
<1>3. \A c : Holds(v, c) <=> Holds(w, c)
    BY <1>2 DEF Holds, VersionEqual
<1> QED  BY <1>3 DEF Satisfies

-----------------------------------------------------------------------------
(***************************************************************************)
(* What normalize_spec makes of a declaration.                             *)
(***************************************************************************)
LEMMA OneComparator ==
    ASSUME NEW v, NEW c  PROVE Satisfies(v, {{c}}) <=> Holds(v, c)
<1>1. {{c}} \ {{}} = {{c}}
    OBVIOUS
<1>2. Satisfies(v, {{c}}) <=> \E a \in {{c}} : \A x \in a : Holds(v, x)
    BY <1>1, Zenon DEF Satisfies
<1> QED  BY <1>2, Zenon

LEMMA BetweenVersions ==
    ASSUME NEW v, NEW from, NEW upper
    PROVE  Satisfies(v, From(from, upper)) <=> AtMost(from, v) /\ VersionLess(v, Release(upper))
<1> DEFINE lower == [op |-> ">=", v |-> from]
           higher == [op |-> "<", v |-> Release(upper)]
<1>1. From(from, upper) = {{lower, higher}}
    BY DEF From, Comparator
<1>2. /\ Holds(v, lower) <=> ~ VersionLess(v, from)
      /\ Holds(v, higher) <=> VersionLess(v, Release(upper))
    BY DEF Holds
<1>3. Satisfies(v, {{lower, higher}}) <=> Holds(v, lower) /\ Holds(v, higher)
    <2> HIDE DEF lower, higher
    <2>1. {{lower, higher}} \ {{}} = {{lower, higher}}
        OBVIOUS
    <2>2. Satisfies(v, {{lower, higher}}) <=> \E a \in {{lower, higher}} : \A x \in a : Holds(v, x)
        BY <2>1, Zenon DEF Satisfies
    <2> QED  BY <2>2, Zenon
<1> QED  BY <1>1, <1>2, <1>3 DEF AtMost

LEMMA EitherVersions ==
    ASSUME NEW v, NEW from, NEW upper
    PROVE  Satisfies(v, {{[op |-> ">=", v |-> from]}, {[op |-> "<", v |-> upper]}})
               <=> AtMost(from, v) \/ VersionLess(v, upper)
<1> DEFINE lower == [op |-> ">=", v |-> from]
           higher == [op |-> "<", v |-> upper]
<1>1. /\ Holds(v, lower) <=> ~ VersionLess(v, from)
      /\ Holds(v, higher) <=> VersionLess(v, upper)
    BY DEF Holds
<1>2. Satisfies(v, {{lower}, {higher}}) <=> Holds(v, lower) \/ Holds(v, higher)
    <2> HIDE DEF lower, higher
    <2>1. {{lower}, {higher}} \ {{}} = {{lower}, {higher}}
        OBVIOUS
    <2>2. Satisfies(v, {{lower}, {higher}}) <=> \E a \in {{lower}, {higher}} : \A x \in a : Holds(v, x)
        BY <2>1, Zenon DEF Satisfies
    <2> QED  BY <2>2, Zenon
<1> QED  BY <1>1, <1>2 DEF AtMost

\* Equality is what is left when an operator is not one of the four.
LEMMA EqualityComparator ==
    ASSUME NEW v, NEW op, op \notin {"<", "<=", ">", ">="}, NEW w
    PROVE  Holds(v, [op |-> op, v |-> w]) <=> VersionEqual(v, w)
BY DEF Holds

\* What the parsers understand is translated.
Translated ==
    {"", "=", "==", ">=", "<=", ">", "<", "^", "~", "~>", "x", ",", "[,)", "||"}

LEMMA NothingLost ==
    ASSUME NEW spec, spec.op \in Translated, spec.v \in VersionType, spec.v.core # << >>, spec.v.pre = 0,
           spec.op = "~>" => Len(spec.v.core) >= 2
    PROVE  normalize_spec(spec) # {}
<1> USE DEF normalize_spec, Comparable, From
<1>1. CASE spec.op \in {"", "=", "==", ">=", "<=", ">", "<"}
    BY <1>1
<1>2. CASE spec.op = "~>"
    <2>1. Len(spec.v.core) \in Nat
        BY DEF VersionType
    <2>2. Pessimistic(spec.v) = From(spec.v, Bump(spec.v.core, Len(spec.v.core) - 1))
        BY <1>2, <2>1 DEF Pessimistic
    <2> QED  BY <1>2, <2>2
<1>3. CASE spec.op = "^"
    <2>1. Caret(spec.v) # {}
        BY DEF Caret
    <2> QED  BY <1>3, <2>1
<1>4. CASE spec.op \in {"~", "x", ",", "[,)", "||"}
    BY <1>4 DEF Tilde
<1> QED  BY <1>1, <1>2, <1>3, <1>4 DEF Translated

\* A caret goes to the first number that is not zero, which has to be one of two.
LEMMA CaretAsMeant ==
    ASSUME NEW from \in VersionType, NEW i \in DOMAIN from.core, i <= 2, from.core[i] # 0, NEW v
    PROVE  LET first == CHOOSE k \in 1..Len(from.core) :
                           /\ from.core[k] # 0 \/ k = Len(from.core)
                           /\ \A j \in 1..(k - 1) : from.core[j] = 0
           IN  Satisfies(v, Caret(from)) <=> AtMost(from, v) /\ VersionLess(v, Release(Bump(from.core, first)))
<1> DEFINE Is(k) == /\ from.core[k] # 0 \/ k = Len(from.core)
                    /\ \A j \in 1..(k - 1) : from.core[j] = 0
           first == CHOOSE k \in 1..Len(from.core) : Is(k)
<1>0. from.core \in Seq(Nat) /\ DOMAIN from.core = 1..Len(from.core) /\ Len(from.core) \in Nat
    BY DEF VersionType
<1>1. CASE from.core[1] # 0
    <2>1. Caret(from) = From(from, Bump(from.core, 1))
        BY <1>1 DEF Caret
    <2>2. 1 \in 1..Len(from.core) /\ Is(1)
        BY <1>0, <1>1
    <2>3. \A k \in 1..Len(from.core) : Is(k) => k = 1
        BY <1>0, <1>1
    <2>4. first = 1
        <3> HIDE DEF Is
        <3> QED  BY <2>2, <2>3
    <2> QED  BY <2>1, <2>4, BetweenVersions
<1>2. CASE from.core[1] = 0
    <2>1. i = 2 /\ Len(from.core) > 1 /\ from.core[2] # 0
        BY <1>0, <1>2
    <2>2. Caret(from) = From(from, Bump(from.core, 2))
        BY <1>2, <2>1 DEF Caret
    <2>3. 2 \in 1..Len(from.core) /\ Is(2)
        BY <1>0, <1>2, <2>1
    <2>4. \A k \in 1..Len(from.core) : Is(k) => k = 2
        BY <1>0, <1>2, <2>1
    <2>5. first = 2
        <3> HIDE DEF Is
        <3> QED  BY <2>3, <2>4
    <2> QED  BY <2>2, <2>5, BetweenVersions
<1> QED  BY <1>1, <1>2

LEMMA OneOrTwo ==
    ASSUME NEW k \in Nat, k >= 1
    PROVE  (IF k >= 2 THEN 2 ELSE 1) = (IF k = 1 THEN 1 ELSE 2)
OBVIOUS

\* normalize_spec: the translation of a declaration without a prerelease admits the
\* versions that the package manager lets be installed, and no others; "!=", "~="
\* and comparators with a space are not among the Translated.
THEOREM TranslationIsExact ==
    ASSUME NEW spec, spec.op \in Translated, spec.v \in VersionType, spec.v.core # << >>, spec.v.pre = 0,
           spec.op = "~>" => Len(spec.v.core) >= 2,
           spec.op = "^" => \E i \in DOMAIN spec.v.core : i <= 2 /\ spec.v.core[i] # 0,
           NEW v
    PROVE  Satisfies(v, normalize_spec(spec)) <=> Installable(spec, v)
<1>0. Len(spec.v.core) \in Nat /\ Len(spec.v.core) >= 1
    BY DEF VersionType
<1>1. CASE spec.op \in {"", "=", "=="}
    <2>1. normalize_spec(spec) = {{[op |-> spec.op, v |-> spec.v]}}
        BY <1>1 DEF normalize_spec, Comparable
    <2>2. Installable(spec, v) <=> VersionEqual(v, spec.v)
        BY <1>1 DEF Installable
    <2>3. Holds(v, [op |-> spec.op, v |-> spec.v]) <=> VersionEqual(v, spec.v)
        BY <1>1, EqualityComparator
    <2>4. Satisfies(v, {{[op |-> spec.op, v |-> spec.v]}}) <=> Holds(v, [op |-> spec.op, v |-> spec.v])
        BY OneComparator
    <2> QED  BY <2>1, <2>2, <2>3, <2>4
<1>2. CASE spec.op \in {">=", "<=", ">", "<"}
    <2>1. normalize_spec(spec) = {{[op |-> spec.op, v |-> spec.v]}}
        BY <1>2 DEF normalize_spec, Comparable
    <2>2. Holds(v, [op |-> spec.op, v |-> spec.v]) <=> Installable(spec, v)
        BY <1>2 DEF Installable, Holds, AtMost
    <2>3. Satisfies(v, {{[op |-> spec.op, v |-> spec.v]}}) <=> Holds(v, [op |-> spec.op, v |-> spec.v])
        BY OneComparator
    <2> QED  BY <2>1, <2>2, <2>3
<1>3. CASE spec.op = "~>"
    <2>1. normalize_spec(spec) = From(spec.v, Bump(spec.v.core, Len(spec.v.core) - 1))
        BY <1>0, <1>3 DEF normalize_spec, Comparable, Pessimistic
    <2>2. Installable(spec, v)
            <=> AtMost(spec.v, v) /\ VersionLess(v, Release(Bump(spec.v.core, Len(spec.v.core) - 1)))
        BY <1>3 DEF Installable
    <2> QED  BY <2>1, <2>2, BetweenVersions
<1>4. CASE spec.op = "^"
    <2>1. normalize_spec(spec) = Caret(spec.v)
        BY <1>4 DEF normalize_spec, Comparable
    <2>2. Installable(spec, v)
            <=> LET first == CHOOSE k \in 1..Len(spec.v.core) :
                           /\ spec.v.core[k] # 0 \/ k = Len(spec.v.core)
                           /\ \A j \in 1..(k - 1) : spec.v.core[j] = 0
                IN  AtMost(spec.v, v) /\ VersionLess(v, Release(Bump(spec.v.core, first)))
        BY <1>4 DEF Installable
    <2>3. PICK i \in DOMAIN spec.v.core : i <= 2 /\ spec.v.core[i] # 0
        BY <1>4
    <2> QED  BY <2>1, <2>2, <2>3, CaretAsMeant
<1>5. CASE spec.op = "~"
    <2> DEFINE n == IF Len(spec.v.core) >= 2 THEN 2 ELSE 1
    <2>1. normalize_spec(spec) = From(spec.v, Bump(spec.v.core, n))
        BY <1>5 DEF normalize_spec, Comparable, Tilde
    <2>2. n = IF Len(spec.v.core) = 1 THEN 1 ELSE 2
        BY <1>0, OneOrTwo
    <2>3. Installable(spec, v)
            <=> AtMost(spec.v, v)
                /\ VersionLess(v, Release(Bump(spec.v.core, IF Len(spec.v.core) = 1 THEN 1 ELSE 2)))
        BY <1>5 DEF Installable
    <2> HIDE DEF n
    <2> QED  BY <2>1, <2>2, <2>3, BetweenVersions
<1>6. CASE spec.op = "x"
    <2>1. normalize_spec(spec) = From(spec.v, Bump(spec.v.core, Len(spec.v.core)))
        BY <1>6 DEF normalize_spec, Comparable
    <2>2. Installable(spec, v)
            <=> AtMost(spec.v, v) /\ VersionLess(v, Release(Bump(spec.v.core, Len(spec.v.core))))
        BY <1>6 DEF Installable
    <2> QED  BY <2>1, <2>2, BetweenVersions
<1>7. CASE spec.op \in {",", "[,)"}
    <2>1. normalize_spec(spec) = From(spec.v, spec.to.core)
        BY <1>7 DEF normalize_spec, Comparable
    <2>2. Installable(spec, v) <=> AtMost(spec.v, v) /\ VersionLess(v, Release(spec.to.core))
        BY <1>7 DEF Installable
    <2> QED  BY <2>1, <2>2, BetweenVersions
<1>8. CASE spec.op = "||"
    <2>1. normalize_spec(spec) = {{[op |-> ">=", v |-> spec.v]}, {[op |-> "<", v |-> spec.to]}}
        BY <1>8 DEF normalize_spec, Comparable
    <2>2. Installable(spec, v) <=> AtMost(spec.v, v) \/ VersionLess(v, spec.to)
        BY <1>8 DEF Installable
    <2>3. Satisfies(v, {{[op |-> ">=", v |-> spec.v]}, {[op |-> "<", v |-> spec.to]}})
            <=> AtMost(spec.v, v) \/ VersionLess(v, spec.to)
        BY EitherVersions
    <2> QED  BY <2>1, <2>2, <2>3
<1> QED  BY <1>1, <1>2, <1>3, <1>4, <1>5, <1>6, <1>7, <1>8 DEF Translated

-----------------------------------------------------------------------------
(***************************************************************************)
(* What the parsers make of an entry.                                      *)
(***************************************************************************)
DependencyOf(file, e, ecosystem) ==
    LET declared == Dependency(e, ecosystem, MinimumCandidate(e.spec), e.spec)
    IN  CASE file.name \in Recording -> Resolved(e, ecosystem, e.spec.v)
          [] file.name = "Cargo.toml" -> [declared EXCEPT !.pinned = e.spec.op = "="]
          [] OTHER -> declared

\* The dependencies are of one ecosystem, and one of them is the entry's.
OnlyOf(dependencies, e, ecosystem, dep) ==
    /\ \A d \in dependencies : d.ecosystem = ecosystem
    /\ \A d \in dependencies : d.entry = e => d = dep
    /\ dep \in dependencies

LEMMA DependencyFields ==
    ASSUME NEW e, NEW ecosystem, NEW version, NEW spec
    PROVE  /\ Dependency(e, ecosystem, version, spec).entry = e
           /\ Dependency(e, ecosystem, version, spec).ecosystem = ecosystem
           /\ Resolved(e, ecosystem, version).entry = e
           /\ Resolved(e, ecosystem, version).ecosystem = ecosystem
BY DEF Dependency, Resolved

LEMMA DeclaredOnce ==
    ASSUME NEW entries, NEW e \in entries, NEW ecosystem
    PROVE  OnlyOf(Declared(entries, ecosystem), e, ecosystem,
                  Dependency(e, ecosystem, MinimumCandidate(e.spec), e.spec))
BY DEF OnlyOf, Declared, Dependency

LEMMA DeclaredFirstOnce ==
    ASSUME NEW entries, NEW e \in entries, NEW ecosystem, NEW op, FirstBound(e.spec, op) = e.spec
    PROVE  OnlyOf(DeclaredFirst(entries, ecosystem, op), e, ecosystem,
                  Dependency(e, ecosystem, MinimumCandidate(e.spec), e.spec))
BY DEF OnlyOf, DeclaredFirst, Dependency

LEMMA RecordedOnce ==
    ASSUME NEW entries, NEW e \in entries, NEW ecosystem
    PROVE  OnlyOf(Recorded(entries, ecosystem), e, ecosystem, Resolved(e, ecosystem, e.spec.v))
BY DependencyFields DEF OnlyOf, Recorded

Formats ==
    {"requirements.txt", "constraints.txt", "requirements-dev.txt", "tests.txt", "Pipfile", "setup.py",
     "pyproject.toml", "package.json", "package-lock.json", "pnpm-lock.yaml", "go.mod", "go.sum",
     "Cargo.toml", "pom.xml", "build.gradle", "build.gradle.kts", "composer.json", "Gemfile",
     "packages.config", "App.csproj"}

LEMMA FormatsOfManifests ==
    ASSUME NEW file, is_dependency_manifest(file), file.name \notin LOCK_SUFFIX
    PROVE  /\ file.name \in Formats
           /\ file.name = "tests.txt" => InRequirementsDirectory(file)
           /\ file.name # "tests.txt" => ~ InRequirementsDirectory(file)
BY DEF is_dependency_manifest, DEPENDENCY_MANIFESTS, LOCK_SUFFIX, Formats, InRequirementsDirectory

LEMMA TomlIsRead ==
    ASSUME NEW file, NEW e, Understood(file, e), file.name \in TomlFormats, file.text = "good",
           NEW unparsed, NEW dependencies
    PROVE  Toml(file, unparsed, dependencies).dependencies = dependencies
<1>1. Tomllib
    BY DEF Understood
<1>2. Toml(file, unparsed, dependencies) = Outcome(dependencies, {})
    BY <1>1 DEF Toml
<1> QED  BY <1>2 DEF Outcome

\* An entry that is understood becomes one dependency, in the ecosystem of its file.
LEMMA ParsedAs ==
    ASSUME NEW checkout \in Trees, NEW file \in checkout, is_dependency_manifest(file), file.name \notin LOCK_SUFFIX, file.text = "good",
           NEW e \in file.lists, Understood(file, e), e.spec.v \in VersionType,
           MinimumCandidate(e.spec) # NoVersion
    PROVE  OnlyOf(parse_manifest(file).dependencies, e, EcosystemOf(file),
                  DependencyOf(file, e, EcosystemOf(file)))
<1> DEFINE declared(ecosystem) == Dependency(e, ecosystem, MinimumCandidate(e.spec), e.spec)
           resolved(ecosystem) == Resolved(e, ecosystem, e.spec.v)
           Parsed(parse, ecosystem, dep) == OnlyOf(parse.dependencies, e, ecosystem, dep)
<1>0. /\ file.name \in Formats
      /\ file.name = "tests.txt" => InRequirementsDirectory(file)
      /\ file.name # "tests.txt" => ~ InRequirementsDirectory(file)
    BY FormatsOfManifests
<1>1. /\ e \in Versioned(file.lists)
      /\ e.section \in {"main", "dev"} => e \in In(file, {"main", "dev"})
      /\ e.section \in {"main", "dev"} => e \in Versioned(In(file, {"main", "dev"}))
      /\ e.section \in {"main"} => e \in In(file, {"main"})
      /\ e.section \in {"poetry", "dev"} => e \in In(file, {"poetry", "dev"})
      /\ e.section \in SectionsRead(file)
    BY DEF Versioned, In, Understood
<1>2. CASE file.name \in {"requirements.txt", "constraints.txt", "requirements-dev.txt", "tests.txt"}
    <2>1. parse_manifest(file) = ParseRequirementsTxt(file)
        BY <1>0, <1>2 DEF parse_manifest
    <2>2. ParseRequirementsTxt(file).dependencies = Declared(Versioned(file.lists), "python")
        BY DEF ParseRequirementsTxt, Outcome
    <2>3. DependencyOf(file, e, "python") = declared("python")
        BY <1>2 DEF DependencyOf, Recording, LOCK_SUFFIX
    <2>e. EcosystemOf(file) = "python"
        BY <1>2 DEF EcosystemOf
    <2> QED  BY <1>1, <2>1, <2>2, <2>3, <2>e, DeclaredOnce
<1>3. CASE file.name = "Pipfile"
    <2>1. parse_manifest(file) = ParsePipfile(file)
        BY <1>0, <1>3 DEF parse_manifest
    <2>2. ParsePipfile(file).dependencies = Declared(Versioned(In(file, {"main", "dev"})), "python")
        BY <1>3, TomlIsRead DEF ParsePipfile, TomlFormats
    <2>3. DependencyOf(file, e, "python") = declared("python")
        BY <1>3 DEF DependencyOf, Recording, LOCK_SUFFIX
    <2>4. e \in Versioned(In(file, {"main", "dev"}))
        BY <1>1, <1>3 DEF SectionsRead
    <2>e. EcosystemOf(file) = "python"
        BY <1>3 DEF EcosystemOf
    <2> QED  BY <2>1, <2>2, <2>3, <2>4, <2>e, DeclaredOnce
<1>4. CASE file.name = "setup.py"
    <2>1. parse_manifest(file) = ParseSetupPy(file)
        BY <1>0, <1>4 DEF parse_manifest
    <2>2. ParseSetupPy(file).dependencies = DeclaredFirst(In(file, {"main"}), "python", ">=")
        BY DEF ParseSetupPy, Outcome
    <2>3. DependencyOf(file, e, "python") = declared("python")
        BY <1>4 DEF DependencyOf, Recording, LOCK_SUFFIX
    <2>4. e \in In(file, {"main"})
        BY <1>1, <1>4 DEF SectionsRead
    <2>e. EcosystemOf(file) = "python"
        BY <1>4 DEF EcosystemOf
    <2>5. FirstBound(e.spec, ">=") = e.spec
        BY <1>4 DEF FirstBound, Understood
    <2> QED  BY <2>1, <2>2, <2>3, <2>4, <2>5, <2>e, DeclaredFirstOnce
<1>5. CASE file.name = "package.json"
    <2>1. parse_manifest(file) = ParsePackageJson(file)
        BY <1>0, <1>5 DEF parse_manifest
    <2>2. ParsePackageJson(file).dependencies = Declared(file.lists, "javascript")
        BY DEF ParsePackageJson, Json, Outcome
    <2>3. DependencyOf(file, e, "javascript") = declared("javascript")
        BY <1>5 DEF DependencyOf, Recording, LOCK_SUFFIX
    <2>e. EcosystemOf(file) = "javascript"
        BY <1>5 DEF EcosystemOf
    <2> QED  BY <2>1, <2>2, <2>3, <2>e, DeclaredOnce
<1>6. CASE file.name = "package-lock.json"
    <2>1. parse_manifest(file) = ParsePackageLock(file)
        BY <1>0, <1>6 DEF parse_manifest
    <2>2. ParsePackageLock(file).dependencies = Recorded(file.lists, "javascript")
        BY DEF ParsePackageLock, Json, Outcome
    <2>3. DependencyOf(file, e, "javascript") = resolved("javascript")
        BY <1>6 DEF DependencyOf, Recording, LOCK_SUFFIX
    <2>e. EcosystemOf(file) = "javascript"
        BY <1>6 DEF EcosystemOf
    <2> QED  BY <2>1, <2>2, <2>3, <2>e, RecordedOnce
<1>7. CASE file.name = "pnpm-lock.yaml"
    <2>1. parse_manifest(file) = ParsePnpmLock(file)
        BY <1>0, <1>7 DEF parse_manifest
    <2>2. ParsePnpmLock(file).dependencies = Recorded(file.lists, "javascript")
        BY DEF ParsePnpmLock, Json, Outcome
    <2>3. DependencyOf(file, e, "javascript") = resolved("javascript")
        BY <1>7 DEF DependencyOf, Recording, LOCK_SUFFIX
    <2>e. EcosystemOf(file) = "javascript"
        BY <1>7 DEF EcosystemOf
    <2> QED  BY <2>1, <2>2, <2>3, <2>e, RecordedOnce
<1>8. CASE file.name = "pom.xml"
    <2>1. parse_manifest(file) = ParsePomXml(file)
        BY <1>0, <1>8 DEF parse_manifest
    <2>2. ParsePomXml(file).dependencies = Declared(file.lists, "java")
        BY DEF ParsePomXml, Outcome
    <2>3. DependencyOf(file, e, "java") = declared("java")
        BY <1>8 DEF DependencyOf, Recording, LOCK_SUFFIX
    <2>e. EcosystemOf(file) = "java"
        BY <1>8 DEF EcosystemOf
    <2> QED  BY <2>1, <2>2, <2>3, <2>e, DeclaredOnce
<1>9. CASE file.name \in {"build.gradle", "build.gradle.kts"}
    <2>1. parse_manifest(file) = ParseGradle(file)
        BY <1>0, <1>9 DEF parse_manifest
    <2>2. ParseGradle(file).dependencies = Declared(Versioned(file.lists), "java")
        BY DEF ParseGradle, Lines, Outcome
    <2>3. DependencyOf(file, e, "java") = declared("java")
        BY <1>9 DEF DependencyOf, Recording, LOCK_SUFFIX
    <2>e. EcosystemOf(file) = "java"
        BY <1>9 DEF EcosystemOf
    <2> QED  BY <2>1, <2>2, <2>3, <1>1, <2>e, DeclaredOnce
<1>10. CASE file.name = "composer.json"
    <2>1. parse_manifest(file) = ParseComposerJson(file)
        BY <1>0, <1>10 DEF parse_manifest
    <2>2. ParseComposerJson(file).dependencies = Declared(In(file, {"main", "dev"}), "php")
        BY DEF ParseComposerJson, Json, Outcome
    <2>3. DependencyOf(file, e, "php") = declared("php")
        BY <1>10 DEF DependencyOf, Recording, LOCK_SUFFIX
    <2>4. e \in In(file, {"main", "dev"})
        BY <1>1, <1>10 DEF SectionsRead
    <2>e. EcosystemOf(file) = "php"
        BY <1>10 DEF EcosystemOf
    <2> QED  BY <2>1, <2>2, <2>3, <2>4, <2>e, DeclaredOnce
<1>11. CASE file.name = "Gemfile"
    <2>1. parse_manifest(file) = ParseGemfile(file)
        BY <1>0, <1>11 DEF parse_manifest
    <2>2. ParseGemfile(file).dependencies = DeclaredFirst(file.lists, "ruby", ">= ")
        BY DEF ParseGemfile, Lines, Outcome
    <2>3. DependencyOf(file, e, "ruby") = declared("ruby")
        BY <1>11 DEF DependencyOf, Recording, LOCK_SUFFIX
    <2>e. EcosystemOf(file) = "ruby"
        BY <1>11 DEF EcosystemOf
    <2>4. FirstBound(e.spec, ">= ") = e.spec
        BY <1>11 DEF FirstBound, Understood
    <2> QED  BY <2>1, <2>2, <2>3, <2>4, <2>e, DeclaredFirstOnce
<1>12. CASE file.name = "packages.config"
    <2>1. parse_manifest(file) = ParsePackagesConfig(file)
        BY <1>0, <1>12 DEF parse_manifest
    <2>2. ParsePackagesConfig(file).dependencies = Recorded(file.lists, "nuget")
        BY DEF ParsePackagesConfig, Lines, Outcome
    <2>3. DependencyOf(file, e, "nuget") = resolved("nuget")
        BY <1>12 DEF DependencyOf, Recording, LOCK_SUFFIX
    <2>e. EcosystemOf(file) = "nuget"
        BY <1>12 DEF EcosystemOf
    <2> QED  BY <2>1, <2>2, <2>3, <2>e, RecordedOnce
<1>13. CASE file.name = "App.csproj"
    <2>1. parse_manifest(file) = ParseCsproj(file)
        BY <1>0, <1>13 DEF parse_manifest
    <2>2. ParseCsproj(file).dependencies = Recorded(file.lists, "nuget")
        BY DEF ParseCsproj, Lines, Outcome
    <2>3. DependencyOf(file, e, "nuget") = resolved("nuget")
        BY <1>13 DEF DependencyOf, Recording, LOCK_SUFFIX
    <2>e. EcosystemOf(file) = "nuget"
        BY <1>13 DEF EcosystemOf
    <2> QED  BY <2>1, <2>2, <2>3, <2>e, RecordedOnce
<1>14. CASE file.name = "pyproject.toml"
    <2> DEFINE whole(x) == [op |-> "name==", v |-> x.spec.v]
               project == {Dependency(x, "python", MinimumCandidate(x.spec), whole(x)) :
                               x \in Versioned(In(file, {"main"}))}
               tables == Declared(In(file, {"poetry", "dev"}), "python")
    <2>1. parse_manifest(file) = ParsePyproject(file)
        BY <1>0, <1>14 DEF parse_manifest
    <2>2. ParsePyproject(file).dependencies = project \cup tables
        <3>1. Toml(file, {}, project \cup tables).dependencies = project \cup tables
            <4> HIDE DEF project, tables
            <4> QED  BY <1>14, TomlIsRead DEF TomlFormats
        <3> QED  BY <3>1 DEF ParsePyproject
    <2>3. DependencyOf(file, e, "python") = declared("python")
        BY <1>14 DEF DependencyOf, Recording, LOCK_SUFFIX
    <2>4. e \in In(file, {"poetry", "dev"})
        BY <1>1, <1>14 DEF SectionsRead
    <2>5. e.section # "main"
        BY <1>1, <1>14 DEF SectionsRead
    <2>6. \A d \in project : d.ecosystem = "python" /\ d.entry # e
        <3>1. \A x \in Versioned(In(file, {"main"})) : x # e
            BY <2>5 DEF Versioned, In
        <3>2. \A x : LET d == Dependency(x, "python", MinimumCandidate(x.spec), whole(x))
                     IN  d.ecosystem = "python" /\ d.entry = x
            <4> HIDE DEF whole
            <4> QED  BY DependencyFields
        <3> HIDE DEF whole
        <3> QED  BY <3>1, <3>2
    <2>7. OnlyOf(tables, e, "python", declared("python"))
        BY <2>4, DeclaredOnce
    <2>8. OnlyOf(project \cup tables, e, "python", declared("python"))
        <3> HIDE DEF project, tables, declared
        <3> QED  BY <2>6, <2>7 DEF OnlyOf
    <2>e. EcosystemOf(file) = "python"
        BY <1>14 DEF EcosystemOf
    <2> QED  BY <2>1, <2>2, <2>3, <2>8, <2>e
<1>15. CASE file.name = "go.mod"
    <2> DEFINE read == {Resolved(x, "go", Release(x.spec.v.core)) : x \in file.lists}
    <2>1. parse_manifest(file) = ParseGoMod(file)
        BY <1>0, <1>15 DEF parse_manifest
    <2>2. ParseGoMod(file).dependencies = read
        BY DEF ParseGoMod, Lines, Outcome
    <2>3. DependencyOf(file, e, "go") = resolved("go")
        BY <1>15 DEF DependencyOf, Recording, LOCK_SUFFIX
    <2>4. e.spec.v.pre = 0
        BY <1>15 DEF Understood
    <2>5. Release(e.spec.v.core) = e.spec.v
        BY <2>4 DEF Release, VersionType
    <2>6. OnlyOf(read, e, "go", resolved("go"))
        BY <2>5, DependencyFields DEF OnlyOf
    <2>e. EcosystemOf(file) = "go"
        BY <1>15 DEF EcosystemOf
    <2> QED  BY <2>1, <2>2, <2>3, <2>6, <2>e
<1>16. CASE file.name = "go.sum"
    <2> DEFINE read == {x \in file.lists : x.spec.v.pre = 0}
    <2>1. parse_manifest(file) = ParseGoSum(file)
        BY <1>0, <1>16 DEF parse_manifest
    <2>2. ParseGoSum(file).dependencies = Recorded(read, "go")
        BY DEF ParseGoSum, Lines, Outcome
    <2>3. DependencyOf(file, e, "go") = resolved("go")
        BY <1>16 DEF DependencyOf, Recording, LOCK_SUFFIX
    <2>4. e \in read
        BY <1>16 DEF Understood
    <2>e. EcosystemOf(file) = "go"
        BY <1>16 DEF EcosystemOf
    <2> QED  BY <2>1, <2>2, <2>3, <2>4, <2>e, RecordedOnce
<1>17. CASE file.name = "Cargo.toml"
    <2> DEFINE pins(d) == [d EXCEPT !.pinned = d.spec.op = "="]
               read == {pins(d) : d \in Declared(file.lists, "rust")}
    <2>1. parse_manifest(file) = ParseCargoToml(file)
        BY <1>0, <1>17 DEF parse_manifest
    <2>2. ParseCargoToml(file).dependencies = read
        BY <1>17, TomlIsRead DEF ParseCargoToml, TomlFormats
    <2>3. DependencyOf(file, e, "rust") = pins(declared("rust"))
        BY <1>17 DEF DependencyOf, Recording, LOCK_SUFFIX, Dependency
    <2>4. OnlyOf(Declared(file.lists, "rust"), e, "rust", declared("rust"))
        BY DeclaredOnce
    <2>5. \A d \in Declared(file.lists, "rust") : pins(d).ecosystem = d.ecosystem /\ pins(d).entry = d.entry
        BY DEF Declared, Dependency
    <2>6. OnlyOf(read, e, "rust", pins(declared("rust")))
        <3> DEFINE all == Declared(file.lists, "rust")
                   mine == declared("rust")
        <3>1. /\ \A d \in all : d.ecosystem = "rust"
              /\ \A d \in all : d.entry = e => d = mine
              /\ mine \in all
            BY <2>4, Zenon DEF OnlyOf
        <3>2. mine.entry = e
            BY DependencyFields
        <3> HIDE DEF pins, all, mine
        <3>3. /\ \A d \in read : d.ecosystem = "rust"
              /\ \A d \in read : d.entry = e => d = pins(mine)
              /\ pins(mine) \in read
            BY <2>5, <3>1 DEF all
        <3>4. OnlyOf(read, e, "rust", pins(mine))
            <4> HIDE DEF read
            <4> QED  BY <3>3, Zenon DEF OnlyOf
        <3> QED  BY <3>4 DEF mine
    <2>7. OnlyOf(parse_manifest(file).dependencies, e, "rust", DependencyOf(file, e, "rust"))
        <3> HIDE DEF read, pins, declared
        <3> QED  BY <2>1, <2>2, <2>3, <2>6
    <2>e. EcosystemOf(file) = "rust"
        BY <1>17 DEF EcosystemOf
    <2> QED  BY <2>7, <2>e
<1> QED  BY <1>0, <1>2, <1>3, <1>4, <1>5, <1>6, <1>7, <1>8, <1>9, <1>10, <1>11, <1>12, <1>13, <1>14, <1>15, <1>16, <1>17 DEF Formats

-----------------------------------------------------------------------------
(***************************************************************************)
(* What scan_dependencies reports of an entry.                             *)
(***************************************************************************)
\* What is known of the entries of the database.
SoundAdvisory(x) ==
    /\ x.fixed_in \in Versions \cup {NoVersion}
    /\ x.fixed_in # NoVersion => ~ Satisfies(x.fixed_in, x.affected)

LEMMA NamedVersions ==
    ASSUME NEW checkout \in Trees, NEW file \in checkout, NEW e \in file.lists, Understood(file, e)
    PROVE  /\ e.spec.v \in VersionType /\ e.spec.v.core # << >> /\ e.spec.v # NoVersion
           /\ MinimumCandidate(e.spec) = Release(e.spec.v.core)
           /\ MinimumCandidate(e.spec) \in Versions /\ MinimumCandidate(e.spec) # NoVersion
           /\ e.spec.op \in Translated \cup {"==="}
           /\ file.name = "Cargo.toml" => e.spec.op \notin {"", "==="}
           /\ e.spec.v.pre # 0 => e.spec.v.hyphen /\ e.spec.v.pre < 10
           /\ e.spec.op = "~>" => Len(e.spec.v.core) >= 2
           /\ e.spec.op = "^" => \E i \in DOMAIN e.spec.v.core : i <= 2 /\ e.spec.v.core[i] # 0
<1>1. /\ e.spec.op \in Syntax(file, e.section) /\ e.spec.v \in VersionType
      /\ e.spec.op \notin Versionless => e.spec.v.core # << >>
    BY TreesAssumption
<1>2. e.spec.op \notin {"none", "*", "url", "property", "!=", "~="} \cup Spaced
    BY DEF Understood
<1>3. /\ e.spec.op \in Translated \cup {"==="} /\ e.spec.v.core # << >>
      /\ file.name = "Cargo.toml" => e.spec.op \notin {"", "==="}
    <2>1. Syntax(file, e.section)
            \subseteq {"none", "*", "url", "property", "!=", "~=", "==="} \cup Spaced \cup Translated
        BY DEF Syntax, Pep508, Comparators, Translated
    <2>2. file.name = "Cargo.toml" => "===" \notin Syntax(file, e.section)
        BY DEF Syntax, Comparators, Spaced, Recording, LOCK_SUFFIX
    <2>3. file.name = "Cargo.toml" => e.spec.op # ""
        BY DEF Understood
    <2> QED  BY <1>1, <1>2, <2>1, <2>2, <2>3 DEF Versionless, Translated
<1>4. MinimumCandidate(e.spec) = Release(e.spec.v.core)
    BY <1>3 DEF MinimumCandidate, Translated
<1>5. Release(e.spec.v.core) \in Versions
    BY <1>3, VersionsAssumption
<1>6. Release(e.spec.v.core) # NoVersion
    BY <1>5, VersionsAssumption
<1>7. e.spec.v # NoVersion
    <2>1. NoVersion.core = << >>
        BY DEF NoVersion, Release
    <2> QED  BY <1>3, <2>1, Zenon
<1>8. /\ e.spec.v.pre # 0 => e.spec.v.hyphen /\ e.spec.v.pre < 10
      /\ e.spec.op = "~>" => Len(e.spec.v.core) >= 2
      /\ e.spec.op = "^" => \E i \in DOMAIN e.spec.v.core : i <= 2 /\ e.spec.v.core[i] # 0
    <2>1. ReadRight(e.spec.v)
        BY Zenon DEF Understood
    <2>2. e.spec.op = "~>" => Len(e.spec.v.core) >= 2
        BY Zenon DEF Understood
    <2>3. e.spec.op = "^" => \E i \in DOMAIN e.spec.v.core : i <= 2 /\ e.spec.v.core[i] # 0
        BY Zenon DEF Understood
    <2>4. e.spec.v.pre # 0 => e.spec.v.hyphen /\ e.spec.v.pre < 10
        BY <2>1, Zenon DEF ReadRight
    <2> QED  BY <2>2, <2>3, <2>4, Zenon
<1>9. MinimumCandidate(e.spec) \in Versions /\ MinimumCandidate(e.spec) # NoVersion
    BY <1>4, <1>5, <1>6
<1> QED  BY <1>1, <1>3, <1>4, <1>7, <1>8, <1>9, Zenon

\* A declaration of one version is matched as that version, whatever is said of it.
LEMMA ExactIsMatched ==
    ASSUME NEW checkout \in Trees, NEW file \in checkout, NEW e \in file.lists, Understood(file, e),
           Exact(file, e), NEW ecosystem, NEW x, SoundAdvisory(x)
    PROVE  Applies(DependencyOf(file, e, ecosystem), x) <=> Satisfies(e.spec.v, x.affected)
<1> DEFINE dep == DependencyOf(file, e, ecosystem)
<1>0. /\ e.spec.v \in VersionType /\ e.spec.v # NoVersion
      /\ MinimumCandidate(e.spec) = Release(e.spec.v.core)
      /\ e.spec.op \in Translated \cup {"==="}
      /\ file.name = "Cargo.toml" => e.spec.op \notin {"", "==="}
      /\ Comparable(e.spec.v)
    BY NamedVersions DEF Comparable
<1>1. /\ dep.version = e.spec.v
      /\ dep.pinned \/ (dep.spec.op = "==" /\ dep.spec.v = e.spec.v)
    <2>1. CASE file.name \in Recording
        <3>1. file.name # "Cargo.toml"
            BY <2>1 DEF Recording, LOCK_SUFFIX
        <3>2. dep = Resolved(e, ecosystem, e.spec.v)
            BY <2>1, <3>1 DEF DependencyOf
        <3> QED  BY <3>2 DEF Resolved, Dependency
    <2>2. CASE file.name \notin Recording
        <3>1. spec_is_pinned(e.spec)
            BY <2>2 DEF Exact
        <3>2. e.spec.op \in {"", "=", "==", "==="} /\ e.spec.v.pre = 0
            BY <3>1 DEF spec_is_pinned
        <3>3. Release(e.spec.v.core) = e.spec.v
            BY <1>0, <3>2 DEF Release, VersionType
        <3>4. CASE file.name = "Cargo.toml"
            <4>1. dep = [Dependency(e, ecosystem, MinimumCandidate(e.spec), e.spec)
                            EXCEPT !.pinned = e.spec.op = "="]
                BY <2>2, <3>4 DEF DependencyOf
            <4>2. e.spec.op \in {"=", "=="}
                BY <1>0, <3>2, <3>4
            <4> QED  BY <1>0, <3>3, <4>1, <4>2 DEF Dependency
        <3>5. CASE file.name # "Cargo.toml"
            <4>1. dep = Dependency(e, ecosystem, MinimumCandidate(e.spec), e.spec)
                BY <2>2, <3>5 DEF DependencyOf
            <4>2. dep.version = MinimumCandidate(e.spec) /\ dep.pinned = spec_is_pinned(e.spec)
                BY <4>1 DEF Dependency
            <4> HIDE DEF dep
            <4> QED  BY <1>0, <3>1, <3>3, <4>2
        <3> QED  BY <3>4, <3>5
    <2> QED  BY <2>1, <2>2
<1> HIDE DEF dep
<1>2. Applies(dep, x) => Satisfies(e.spec.v, x.affected)
    BY <1>1 DEF Applies
<1>3. ASSUME Satisfies(e.spec.v, x.affected)
      PROVE  Applies(dep, x)
    <2>1. CASE dep.pinned \/ x.fixed_in = NoVersion
        BY <1>0, <1>1, <1>3, <2>1 DEF Applies
    <2>2. CASE ~ dep.pinned /\ x.fixed_in # NoVersion
        <3>1. x.fixed_in \in VersionType /\ ~ Satisfies(x.fixed_in, x.affected)
            BY <2>2, VersionsAssumption DEF SoundAdvisory
        <3>2. ~ VersionEqual(x.fixed_in, e.spec.v)
            BY <1>0, <1>3, <3>1, EqualSatisfy
        <3>3. dep.spec.op = "==" /\ dep.spec.v = e.spec.v
            BY <1>1, <2>2
        <3>4. normalize_spec(dep.spec) = {{[op |-> "==", v |-> e.spec.v]}}
            BY <1>0, <3>3 DEF normalize_spec
        <3>5. ~ Satisfies(x.fixed_in, {{[op |-> "==", v |-> e.spec.v]}})
            BY <3>2, OneComparator, EqualityComparator
        <3>6. RangePermits(dep.spec, x.fixed_in) = "no"
            BY <2>2, <3>3, <3>4, <3>5 DEF RangePermits
        <3> QED  BY <1>0, <1>1, <1>3, <3>6 DEF Applies
    <2> QED  BY <2>1, <2>2
<1> QED  BY <1>2, <1>3 DEF dep

\* A range is matched as its lowest version, unless it lets the fixed one in.
LEMMA RangeIsMatched ==
    ASSUME NEW checkout \in Trees, NEW file \in checkout, NEW e \in file.lists, Understood(file, e),
           ~ Exact(file, e), NEW ecosystem, NEW x, SoundAdvisory(x)
    PROVE  Applies(DependencyOf(file, e, ecosystem), x)
               <=> /\ Satisfies(MinimumCandidate(e.spec), x.affected)
                   /\ x.fixed_in = NoVersion \/ ~ Installable(e.spec, x.fixed_in)
<1> DEFINE dep == DependencyOf(file, e, ecosystem)
<1>0. /\ e.spec.v \in VersionType /\ e.spec.v.core # <<>>
      /\ MinimumCandidate(e.spec) # NoVersion
      /\ e.spec.op \in Translated \cup {"==="}
      /\ e.spec.op = "~>" => Len(e.spec.v.core) >= 2
      /\ e.spec.op = "^" => \E i \in DOMAIN e.spec.v.core : i <= 2 /\ e.spec.v.core[i] # 0
    BY NamedVersions
<1>1. file.name \notin Recording /\ ~ spec_is_pinned(e.spec)
    BY DEF Exact
<1>2. e.spec.v.pre = 0
    BY <1>1 DEF Understood
<1>3. e.spec.op \in Translated \ {"", "=", "=="}
    BY <1>0, <1>1, <1>2 DEF spec_is_pinned
<1>4. dep.version = MinimumCandidate(e.spec) /\ dep.spec = e.spec /\ dep.pinned = FALSE
    <2>1. Dependency(e, ecosystem, MinimumCandidate(e.spec), e.spec).pinned = FALSE
        BY <1>1 DEF Dependency, spec_is_pinned
    <2>2. CASE file.name = "Cargo.toml"
        <3>1. dep = [Dependency(e, ecosystem, MinimumCandidate(e.spec), e.spec)
                        EXCEPT !.pinned = e.spec.op = "="]
            BY <1>1, <2>2 DEF DependencyOf
        <3> QED  BY <1>3, <3>1 DEF Dependency
    <2>3. CASE file.name # "Cargo.toml"
        <3>1. dep = Dependency(e, ecosystem, MinimumCandidate(e.spec), e.spec)
            BY <1>1, <2>3 DEF DependencyOf
        <3> QED  BY <2>1, <3>1 DEF Dependency
    <2> QED  BY <2>2, <2>3
<1> HIDE DEF dep
<1>5. e.spec.op # "none" /\ normalize_spec(e.spec) # {}
    <2>1. e.spec.op \in Translated /\ e.spec.op # "none"
        BY <1>3 DEF Translated
    <2>2. Comparable(e.spec.v)
        BY <1>2 DEF Comparable
    <2> QED  BY <1>0, <1>2, <2>1, <2>2, NothingLost
<1>6. RangePermits(e.spec, x.fixed_in) = "no"
        <=> x.fixed_in # NoVersion /\ ~ Satisfies(x.fixed_in, normalize_spec(e.spec))
    BY <1>5 DEF RangePermits
<1>7. Satisfies(x.fixed_in, normalize_spec(e.spec)) <=> Installable(e.spec, x.fixed_in)
    BY <1>0, <1>2, <1>3, TranslationIsExact DEF Comparable
<1> QED  BY <1>0, <1>4, <1>6, <1>7 DEF Applies, dep

\* What a scan of these files against these entries reports.
BundledVulnerabilities(file, entries) ==
    UNION {{Vulnerability(file, dep, advisory) :
               advisory \in {x \in Lookup(entries, dep.ecosystem, dep.name) : Applies(dep, x)}} :
           dep \in parse_manifest(file).dependencies}

BundledFindings(checkout, entries) ==
    UNION {ManifestProblems(file) \cup BundledVulnerabilities(file, entries) :
              file \in DiscoveredManifests(checkout)}

LEMMA VulnerabilityFields ==
    ASSUME NEW file, NEW dep, NEW x
    PROVE  LET f == Vulnerability(file, dep, x)
           IN  f.kind = "vulnerability" /\ f.file = file /\ f.dep = dep /\ f.advisory = x
BY DEF Vulnerability

LEMMA ReportedIfItApplies ==
    ASSUME NEW checkout, NEW entries, NEW file \in DiscoveredManifests(checkout), NEW e, NEW ecosystem, NEW dep,
           OnlyOf(parse_manifest(file).dependencies, e, ecosystem, dep),
           dep.entry = e, dep.ecosystem = ecosystem, dep.name = e.name, NEW x \in entries
    PROVE  ReportedIn(BundledFindings(checkout, entries), file, e, x)
               <=> x.ecosystem = ecosystem /\ x.name = e.name /\ Applies(dep, x)
<1> DEFINE Vulnerable(g) == BundledVulnerabilities(g, entries)
           Matching(d) == {y \in Lookup(entries, d.ecosystem, d.name) : Applies(d, y)}
<1>1. dep \in parse_manifest(file).dependencies
      /\ \A d \in parse_manifest(file).dependencies : d.entry = e => d = dep
    BY DEF OnlyOf
<1>2. ASSUME x.ecosystem = ecosystem, x.name = e.name, Applies(dep, x)
      PROVE  ReportedIn(BundledFindings(checkout, entries), file, e, x)
    <2>1. x \in Matching(dep)
        BY <1>2 DEF Lookup
    <2>2. Vulnerability(file, dep, x) \in Vulnerable(file)
        BY <1>1, <2>1 DEF BundledVulnerabilities
    <2>3. Vulnerability(file, dep, x) \in BundledFindings(checkout, entries)
        <3> HIDE DEF Vulnerable
        <3> QED  BY <2>2 DEF BundledFindings, Vulnerable
    <2> QED  BY <2>3, VulnerabilityFields DEF ReportedIn
<1>3. ASSUME ReportedIn(BundledFindings(checkout, entries), file, e, x)
      PROVE  x.ecosystem = ecosystem /\ x.name = e.name /\ Applies(dep, x)
    <2>1. PICK f \in BundledFindings(checkout, entries) :
              f.kind = "vulnerability" /\ f.file = file /\ f.dep.entry = e /\ f.advisory = x
        BY <1>3 DEF ReportedIn
    <2>2. PICK g \in DiscoveredManifests(checkout) : f \in ManifestProblems(g) \cup Vulnerable(g)
        BY <2>1 DEF BundledFindings
    <2>3. f \notin ManifestProblems(g)
        BY <2>1 DEF ManifestProblems
    <2>4. PICK d \in parse_manifest(g).dependencies : \E y \in Matching(d) : f = Vulnerability(g, d, y)
        BY <2>2, <2>3 DEF BundledVulnerabilities
    <2>5. PICK y \in Matching(d) : f = Vulnerability(g, d, y)
        BY <2>4
    <2>6. g = file /\ f.dep = d /\ y = x
        BY <2>1, <2>5, VulnerabilityFields
    <2>7. d = dep
        BY <1>1, <2>1, <2>4, <2>6
    <2> QED  BY <2>5, <2>6, <2>7 DEF Lookup
<1> QED  BY <1>2, <1>3

LEMMA DependencyOfEntry ==
    ASSUME NEW file, NEW e, NEW ecosystem
    PROVE  LET dep == DependencyOf(file, e, ecosystem)
           IN  dep.entry = e /\ dep.ecosystem = ecosystem /\ dep.name = normalize_name(ecosystem, e.name)
<1> DEFINE declared == Dependency(e, ecosystem, MinimumCandidate(e.spec), e.spec)
<1>1. /\ declared.entry = e /\ declared.ecosystem = ecosystem /\ declared.name = normalize_name(ecosystem, e.name)
      /\ declared = [declared EXCEPT !.pinned = declared.pinned]
    BY DEF Dependency
<1>2. LET dep == [declared EXCEPT !.pinned = e.spec.op = "="]
      IN  dep.entry = e /\ dep.ecosystem = ecosystem
          /\ dep.name = normalize_name(ecosystem, e.name)
    BY DEF Dependency
<1>3. LET dep == Resolved(e, ecosystem, e.spec.v)
      IN  dep.entry = e /\ dep.ecosystem = ecosystem
          /\ dep.name = normalize_name(ecosystem, e.name)
    BY DEF Resolved, Dependency
<1> HIDE DEF declared
<1>4. CASE file.name \in Recording
    <2>1. file.name # "Cargo.toml"
        BY <1>4 DEF Recording, LOCK_SUFFIX
    <2>2. DependencyOf(file, e, ecosystem) = Resolved(e, ecosystem, e.spec.v)
        BY <1>4, <2>1 DEF DependencyOf
    <2> QED  BY <1>3, <2>2
<1>5. CASE file.name \notin Recording /\ file.name = "Cargo.toml"
    <2>1. DependencyOf(file, e, ecosystem) = [declared EXCEPT !.pinned = e.spec.op = "="]
        BY <1>5 DEF DependencyOf, declared
    <2> QED  BY <1>2, <2>1
<1>6. CASE file.name \notin Recording /\ file.name # "Cargo.toml"
    <2>1. DependencyOf(file, e, ecosystem) = declared
        BY <1>6 DEF DependencyOf, declared
    <2> QED  BY <1>1, <2>1
<1> QED  BY <1>4, <1>5, <1>6

-----------------------------------------------------------------------------
\* What an import keeps is of the feed, and a report from the database is of the
\* files and of the entries that are there.
DatabaseInv ==
    /\ tree \in Trees /\ feed \in Feeds
    /\ database \subseteq EntriesOf(feed)
    /\ report.source = "bundled" => report.findings = BundledFindings(tree, database)

LEMMA DatabaseIsOfFeed == DependencySpec => []DatabaseInv
<1>1. DependencyInit => DatabaseInv
    BY DEF DependencyInit, DatabaseInv, NoReport
<1>2. DatabaseInv /\ [DependencyNext]_dependencyVars => DatabaseInv'
    <2> SUFFICES ASSUME DatabaseInv, [DependencyNext]_dependencyVars
                 PROVE  DatabaseInv'
        OBVIOUS
    <2>1. ASSUME NEW limit \in Limits, ImportOsv(limit)
          PROVE  DatabaseInv'
        <3>1. import_osv(feed, limit) \subseteq EntriesOf(feed)
            BY DEF import_osv, KeepFirst
        <3>2. report'.source # "bundled"
            BY <2>1 DEF ImportOsv, NoReport
        <3> QED  BY <2>1, <3>1, <3>2 DEF ImportOsv, DatabaseInv
    <2>2. CASE MirrorRecord
        <3>1. report'.source # "bundled"
            BY <2>2 DEF MirrorRecord, NoReport
        <3> QED  BY <2>2, <3>1 DEF MirrorRecord, DatabaseInv
    <2>3. ASSUME NEW source, ScanDependencies(source)
          PROVE  DatabaseInv'
        <3>1. CASE source = "bundled"
            <4>1. \A ecosystem, name : LookupIn(source, ecosystem, name) = Lookup(database, ecosystem, name)
                BY <3>1 DEF LookupIn
            <4>2. \A file : Vulnerabilities(file, source) = BundledVulnerabilities(file, database)
                BY <4>1 DEF Vulnerabilities, BundledVulnerabilities
            <4>3. report'.findings = BundledFindings(tree, database)
                BY <2>3, <4>2 DEF ScanDependencies, BundledFindings
            <4> QED  BY <2>3, <4>3 DEF ScanDependencies, DatabaseInv
        <3>2. CASE source # "bundled"
            <4>1. report'.source = source
                BY <2>3 DEF ScanDependencies
            <4> QED  BY <2>3, <3>2, <4>1 DEF ScanDependencies, DatabaseInv
        <3> QED  BY <3>1, <3>2
    <2>4. CASE UNCHANGED dependencyVars
        BY <2>4 DEF dependencyVars, DatabaseInv
    <2> QED  BY <2>1, <2>2, <2>3, <2>4 DEF DependencyNext
<1> QED  BY <1>1, <1>2, PTL DEF DependencySpec

\* ReportsWhatMustBeVulnerable.  What scan_dependencies reports from the database:
\* a declaration if all that it lets be installed is affected, and none if nothing
\* of it is or, for a range, if the fixed version is in it.  For every project whose
\* entries are in the syntax of their format (TreesAssumption), of those that the
\* parsers read to the end (Understood); for every feed and every import.
THEOREM DependencyReportsAreSound == DependencySpec => []ReportsWhatMustBeVulnerable
<1>1. DatabaseInv => ReportsWhatMustBeVulnerable
    <2> SUFFICES ASSUME DatabaseInv, report.source = "bundled",
                        NEW file \in DiscoveredManifests(tree), NEW x \in database, file.text = "good",
                        NEW e \in file.lists, Understood(file, e)
                 PROVE  LET installable == MayBeInstalled(file, e)
                            affected == {v \in installable : Satisfies(v, x.affected)}
                            reported == ReportedIn(report.findings, file, e, x)
                        IN  /\ reported => affected # {}
                            /\ reported /\ ~ Exact(file, e) => x.fixed_in \notin installable
                            /\ installable # {} /\ affected = installable
                               /\ x.name = e.name /\ x.ecosystem = EcosystemOf(file)
                               => reported
        BY DEF ReportsWhatMustBeVulnerable
    <2> DEFINE installable == MayBeInstalled(file, e)
               affected == {v \in installable : Satisfies(v, x.affected)}
               reported == ReportedIn(report.findings, file, e, x)
    <2>1. /\ tree \in Trees /\ file \in tree
          /\ is_dependency_manifest(file) /\ file.name \notin LOCK_SUFFIX
        BY DEF DatabaseInv, DiscoveredManifests, ExcludedByGlob
    <2>2. /\ e.spec.v \in VersionType /\ MinimumCandidate(e.spec) # NoVersion
          /\ MinimumCandidate(e.spec) \in Versions
        BY <2>1, NamedVersions
    <2>3. SoundAdvisory(x)
        <3>1. feed \in Feeds /\ x \in EntriesOf(feed)
            BY DEF DatabaseInv
        <3> QED  BY <3>1, FeedsAssumption, VersionsAssumption DEF SoundAdvisory
    <2> DEFINE ecosystem == EcosystemOf(file)
    <2>4. OnlyOf(parse_manifest(file).dependencies, e, ecosystem, DependencyOf(file, e, ecosystem))
        BY <2>1, <2>2, ParsedAs
    <2> DEFINE dep == DependencyOf(file, e, ecosystem)
    <2>5. reported <=> x.ecosystem = ecosystem /\ x.name = e.name /\ Applies(dep, x)
        <3>0. normalize_name(EcosystemOf(file), e.name) = e.name
            BY DEF Understood
        <3>1. dep.entry = e /\ dep.ecosystem = ecosystem /\ dep.name = e.name
            BY <3>0, DependencyOfEntry
        <3> HIDE DEF dep, ecosystem
        <3>2. OnlyOf(parse_manifest(file).dependencies, e, ecosystem, dep)
            BY <2>4 DEF dep
        <3>3. report.findings = BundledFindings(tree, database)
            BY DEF DatabaseInv
        <3> QED  BY <3>1, <3>2, <3>3, ReportedIfItApplies
    <2>7. CASE Exact(file, e)
        <3>1. installable = {e.spec.v}
            BY <2>7 DEF MayBeInstalled
        <3>2. Applies(dep, x) <=> Satisfies(e.spec.v, x.affected)
            BY <2>1, <2>3, <2>7, ExactIsMatched
        <3> HIDE DEF installable, dep, reported
        <3> QED  BY <2>5, <2>7, <3>1, <3>2 DEF reported, installable
    <2>8. CASE ~ Exact(file, e)
        <3> DEFINE lowest == MinimumCandidate(e.spec)
        <3>1. installable = {v \in Versions : Installable(e.spec, v)}
            BY <2>8 DEF MayBeInstalled
        <3>2. lowest \in installable
            BY <2>2, <2>8, <3>1 DEF Understood
        <3>3. Applies(dep, x) <=> /\ Satisfies(lowest, x.affected)
                                  /\ x.fixed_in = NoVersion \/ ~ Installable(e.spec, x.fixed_in)
            BY <2>1, <2>3, <2>8, RangeIsMatched
        <3>4. NoVersion \notin Versions
            BY VersionsAssumption
        <3>5. x.fixed_in # NoVersion =>
                  /\ x.fixed_in \in installable <=> Installable(e.spec, x.fixed_in)
                  /\ ~ Satisfies(x.fixed_in, x.affected)
            BY <2>3, <3>1 DEF SoundAdvisory
        <3> HIDE DEF installable, dep, reported, lowest
        <3>6. reported => affected # {}
            BY <2>5, <3>2, <3>3
        <3>7. reported => x.fixed_in \notin installable
            BY <2>5, <3>1, <3>3, <3>4, <3>5
        <3>8. affected = installable /\ x.name = e.name /\ x.ecosystem = ecosystem => reported
            <4> SUFFICES ASSUME affected = installable, x.name = e.name, x.ecosystem = ecosystem
                         PROVE  reported
                OBVIOUS
            <4>1. \A v \in installable : Satisfies(v, x.affected)
                OBVIOUS
            <4> QED  BY <2>5, <3>2, <3>3, <3>5, <4>1
        <3> QED  BY <3>6, <3>7, <3>8 DEF reported, installable
    <2> QED  BY <2>7, <2>8
<1> QED  BY <1>1, DatabaseIsOfFeed, PTL

-----------------------------------------------------------------------------
(***************************************************************************)
(* What an import makes of the events of a range.                          *)
(***************************************************************************)
LEMMA EventType ==
    ASSUME NEW events \in Seq(OsvEvent), NEW i \in DOMAIN events
    PROVE  /\ events[i].v \in VersionType
           /\ events[i].kind \in {"introduced", "fixed", "last_affected", "limit"}
           /\ events[i] = [kind |-> events[i].kind, v |-> events[i].v]
<1>1. events[i] \in OsvEvent
    OBVIOUS
<1> QED  BY <1>1 DEF OsvEvent

\* Event i is past at version v.
IsPast(events, i, v) ==
    \/ AtMost(events[i].v, v) /\ events[i].kind # "last_affected"
    \/ VersionLess(events[i].v, v)

Allows(alternative, v) == \A c \in alternative : Holds(v, c)

\* A lower bound is met when its event is past, an upper bound until its event is.
LEMMA BoundsArePast ==
    ASSUME NEW events \in Seq(OsvEvent), NEW i \in DOMAIN events,
           NEW v \in VersionType, ~ VersionLess(v, Release(<< 0 >>))
    PROVE  /\ events[i].kind = "introduced" => (Allows(LowerBound(events, i), v) <=> IsPast(events, i, v))
           /\ events[i].kind # "introduced" =>
                  (Holds(v, [op |-> UpperOperator(events[i]), v |-> events[i].v]) <=> ~ IsPast(events, i, v))
<1>1. /\ events[i].v \in VersionType
      /\ events[i].kind \in {"introduced", "fixed", "last_affected", "limit"}
      /\ i # 0
    BY EventType
<1>2. VersionLess(events[i].v, v) => ~ VersionLess(v, events[i].v)
    BY <1>1, Irreflexive, Transitive
<1>3. ASSUME events[i].kind = "introduced"
      PROVE  Allows(LowerBound(events, i), v) <=> IsPast(events, i, v)
    <2>1. IsPast(events, i, v) <=> ~ VersionLess(v, events[i].v)
        BY <1>2, <1>3 DEF IsPast, AtMost
    <2>2. CASE events[i].v = Release(<< 0 >>)
        <3>1. LowerBound(events, i) = {}
            BY <2>2 DEF LowerBound
        <3> QED  BY <2>1, <2>2, <3>1 DEF Allows
    <2>3. CASE events[i].v # Release(<< 0 >>)
        <3>1. LowerBound(events, i) = {[op |-> ">=", v |-> events[i].v]}
            BY <1>1, <1>3, <2>3 DEF LowerBound
        <3>2. Holds(v, [op |-> ">=", v |-> events[i].v]) <=> ~ VersionLess(v, events[i].v)
            BY DEF Holds
        <3> QED  BY <2>1, <3>1, <3>2 DEF Allows
    <2> QED  BY <2>2, <2>3
<1>4. ASSUME events[i].kind # "introduced"
      PROVE  Holds(v, [op |-> UpperOperator(events[i]), v |-> events[i].v]) <=> ~ IsPast(events, i, v)
    <2>1. CASE events[i].kind = "last_affected"
        <3>1. Holds(v, [op |-> "<=", v |-> events[i].v]) <=> ~ VersionLess(events[i].v, v)
            BY DEF Holds
        <3> QED  BY <2>1, <3>1 DEF UpperOperator, IsPast
    <2>2. CASE events[i].kind # "last_affected"
        <3>1. Holds(v, [op |-> "<", v |-> events[i].v]) <=> VersionLess(v, events[i].v)
            BY DEF Holds
        <3> QED  BY <1>2, <2>2, <3>1 DEF UpperOperator, IsPast, AtMost
    <2> QED  BY <2>1, <2>2
<1> QED  BY <1>3, <1>4

\* What is past stays past.
LEMMA PastIsClosed ==
    ASSUME NEW events \in Seq(OsvEvent), InTurns(events), NEW v \in VersionType,
           NEW i \in DOMAIN events, NEW j \in DOMAIN events, i < j, IsPast(events, j, v)
    PROVE  IsPast(events, i, v)
<1>0. /\ events[i].v \in VersionType /\ events[j].v \in VersionType
      /\ i \in 1..Len(events) /\ j \in 1..Len(events) /\ Len(events) \in Nat
    BY EventType
<1>1. IF events[j].kind = "introduced" THEN VersionLess(events[i].v, events[j].v)
                                       ELSE ~ VersionLess(events[j].v, events[i].v)
    BY DEF InTurns, AtMost
<1>2. VersionLess(events[i].v, v) => IsPast(events, i, v)
    BY DEF IsPast
<1>3. ~ VersionLess(v, events[j].v)
    BY <1>0, Irreflexive, Transitive DEF IsPast, AtMost
<1>4. CASE events[j].kind = "introduced"
    BY <1>0, <1>1, <1>2, <1>3, <1>4, Transitive
<1>5. CASE events[j].kind = "last_affected"
    <2>1. VersionLess(events[j].v, v)
        BY <1>5 DEF IsPast
    <2> QED  BY <1>0, <1>1, <1>2, <1>5, <2>1, Transitive
<1>6. CASE events[j].kind \notin {"introduced", "last_affected"}
    <2>1. CASE events[i].kind # "last_affected"
        <3>1. ~ VersionLess(v, events[i].v)
            BY <1>0, <1>1, <1>3, <1>6, Transitive
        <3> QED  BY <2>1, <3>1 DEF IsPast, AtMost
    <2>2. CASE events[i].kind = "last_affected"
        <3>1. i + 1 \in 2..Len(events) /\ i + 1 \in DOMAIN events /\ (i + 1) - 1 = i
            BY <1>0
        <3>2. events[i + 1].kind = "introduced"
            BY <2>2, <3>1 DEF InTurns
        <3>3. i + 1 < j
            BY <1>0, <1>6, <3>1, <3>2
        <3>4. events[i + 1].v \in VersionType
            BY <3>1, EventType
        <3>5. VersionLess(events[i].v, events[i + 1].v)
            BY <1>0, <3>1, <3>2 DEF InTurns
        <3>6. ~ VersionLess(events[j].v, events[i + 1].v)
            BY <1>6, <3>1, <3>3 DEF InTurns, AtMost
        <3>7. ~ VersionLess(v, events[i + 1].v)
            BY <1>0, <1>3, <3>4, <3>6, Transitive
        <3>8. VersionLess(events[i].v, v)
            BY <1>0, <3>4, <3>5, <3>7, Transitive
        <3> QED  BY <1>2, <3>8
    <2> QED  BY <2>1, <2>2
<1> QED  BY <1>4, <1>5, <1>6

\* A range whose events take turns is translated to what its events mean.
LEMMA RangeAsMeant ==
    ASSUME NEW events \in Seq(OsvEvent), InTurns(events),
           events # <<[kind |-> "introduced", v |-> Release(<< 0 >>)]>>,
           NEW v \in VersionType, ~ VersionLess(v, Release(<< 0 >>))
    PROVE  /\ RangeAlternatives(events) # {} /\ {} \notin RangeAlternatives(events)
           /\ (\E alternative \in RangeAlternatives(events) : Allows(alternative, v))
                 <=> AffectedByRange(events, v)
<1> DEFINE n == Len(events)
           Intro(i) == events[i].kind = "introduced"
           upper(i) == [op |-> UpperOperator(events[i]), v |-> events[i].v]
           until(i) == {upper(i)} \cup LowerBound(events, i - 1)
           Past(i) == IsPast(events, i, v)
           Open == IF LowerBound(events, n) = {} THEN {} ELSE {LowerBound(events, n)}
<1>0. /\ n \in Nat /\ n >= 1 /\ DOMAIN events = 1..n /\ Intro(1)
      /\ \A i \in 2..n : (Intro(i) <=> ~ Intro(i - 1)) /\ events[i].v # Release(<< 0 >>)
    BY DEF InTurns
<1>1. RangeAlternatives(events) = {until(i) : i \in {j \in 1..n : ~ Intro(j)}} \cup Open
    <2>1. {LowerBound(events, n)} \ {{}} = Open
        OBVIOUS
    <2> QED  BY <1>0, <2>1 DEF RangeAlternatives
<1>2. \A i \in 1..n : ~ Intro(i) =>
          /\ i - 1 \in 1..n /\ Intro(i - 1)
          /\ Allows(until(i), v) <=> Past(i - 1) /\ ~ Past(i)
    <2> SUFFICES ASSUME NEW i \in 1..n, ~ Intro(i)
                 PROVE  /\ i - 1 \in 1..n /\ Intro(i - 1)
                        /\ Allows(until(i), v) <=> Past(i - 1) /\ ~ Past(i)
        OBVIOUS
    <2>1. i \in 2..n /\ i - 1 \in 1..n /\ Intro(i - 1)
        BY <1>0
    <2>2. Allows(until(i), v) <=> Holds(v, upper(i)) /\ Allows(LowerBound(events, i - 1), v)
        <3> HIDE DEF upper
        <3> QED  BY DEF Allows
    <2>3. /\ Holds(v, upper(i)) <=> ~ Past(i)
          /\ Allows(LowerBound(events, i - 1), v) <=> Past(i - 1)
        BY <1>0, <2>1, BoundsArePast
    <2> QED  BY <2>1, <2>2, <2>3
<1>3. /\ Intro(n) => LowerBound(events, n) # {}
      /\ ~ Intro(n) => LowerBound(events, n) = {}
    <2>1. ASSUME Intro(n)
          PROVE  events[n].v # Release(<< 0 >>)
        <3>1. CASE n = 1
            <4>1. events = <<events[1]>>
                BY <1>0, <3>1
            <4>2. events[1] = [kind |-> "introduced", v |-> events[1].v]
                BY <1>0, EventType
            <4> QED  BY <3>1, <4>1, <4>2
        <3>2. CASE n # 1
            BY <1>0, <3>2
        <3> QED  BY <3>1, <3>2
    <2>2. ASSUME Intro(n)
          PROVE  LowerBound(events, n) = {[op |-> ">=", v |-> events[n].v]}
        <3>1. n # 0 /\ events[n].v # Release(<< 0 >>)
            BY <1>0, <2>1, <2>2
        <3> QED  BY <2>2, <3>1, Zenon DEF LowerBound
    <2>3. ASSUME ~ Intro(n)
          PROVE  LowerBound(events, n) = {}
        BY <2>3, Zenon DEF LowerBound
    <2> HIDE DEF Intro, n
    <2> QED  BY <2>2, <2>3
<1>4. (\E alternative \in Open : Allows(alternative, v)) <=> Intro(n) /\ Past(n)
    <2>1. Intro(n) => (Allows(LowerBound(events, n), v) <=> Past(n))
        <3>1. n \in DOMAIN events
            BY <1>0
        <3> HIDE DEF n
        <3> QED  BY <3>1, BoundsArePast
    <2>2. Intro(n) => Open = {LowerBound(events, n)}
        BY <1>3, Zenon
    <2>3. ~ Intro(n) => Open = {}
        BY <1>3, Zenon
    <2> HIDE DEF Open, Intro, n, Past
    <2> QED  BY <2>1, <2>2, <2>3
<1>5. AffectedByRange(events, v) <=> \E i \in 1..n : Intro(i) /\ Past(i) /\ (i = n \/ ~ Past(i + 1))
    <2> DEFINE past == {i \in 1..n : Past(i)}
    <2>1. AffectedByRange(events, v) <=> \E i \in past : Intro(i) /\ \A j \in past : j <= i
        BY <1>0 DEF AffectedByRange, IsPast
    <2>2. \A i, j \in 1..n : i < j /\ Past(j) => Past(i)
        BY <1>0, PastIsClosed
    <2> HIDE DEF Past, Intro, n
    <2>3. ASSUME NEW i \in past  PROVE (\A j \in past : j <= i) <=> i = n \/ ~ Past(i + 1)
        <3>1. CASE i = n
            BY <1>0, <3>1
        <3>2. CASE i # n
            <4>1. i \in 1..n /\ i + 1 \in 1..n
                BY <1>0, <3>2
            <4>2. ASSUME ~ Past(i + 1), NEW j \in past  PROVE j <= i
                <5>1. j \in 1..n /\ Past(j) /\ j # i + 1
                    BY <4>2
                <5>2. ~ (i + 1 < j)
                    BY <2>2, <4>1, <4>2, <5>1
                <5> QED  BY <1>0, <4>1, <5>1, <5>2
            <4>3. ASSUME \A j \in past : j <= i  PROVE ~ Past(i + 1)
                BY <1>0, <4>1, <4>3
            <4> QED  BY <3>2, <4>2, <4>3
        <3> QED  BY <3>1, <3>2
    <2> QED  BY <2>1, <2>3
<1>6. (\E i \in 1..n : ~ Intro(i) /\ Past(i - 1) /\ ~ Past(i)) \/ (Intro(n) /\ Past(n))
         <=> \E i \in 1..n : Intro(i) /\ Past(i) /\ (i = n \/ ~ Past(i + 1))
    <2>1. ASSUME NEW i \in 1..n, ~ Intro(i), Past(i - 1), ~ Past(i)
          PROVE  \E k \in 1..n : Intro(k) /\ Past(k) /\ (k = n \/ ~ Past(k + 1))
        <3>1. i - 1 \in 1..n /\ Intro(i - 1) /\ (i - 1) + 1 = i
            BY <1>0, <1>2, <2>1
        <3> HIDE DEF Past, Intro, n
        <3> QED  BY <2>1, <3>1
    <2>2. ASSUME NEW i \in 1..n, Intro(i), Past(i), i # n, ~ Past(i + 1)
          PROVE  \E k \in 1..n : ~ Intro(k) /\ Past(k - 1) /\ ~ Past(k)
        <3>1. i + 1 \in 2..n /\ i + 1 \in 1..n /\ (i + 1) - 1 = i
            <4>1. n \in Nat /\ i \in 1..n /\ i # n
                BY <1>0, <2>2
            <4> HIDE DEF n
            <4> QED  BY <4>1
        <3>2. ~ Intro(i + 1)
            BY <1>0, <2>2, <3>1
        <3> HIDE DEF Past, Intro, n
        <3> QED  BY <2>2, <3>1, <3>2
    <2>3. n \in 1..n
        BY <1>0
    <2> HIDE DEF Past, Intro, n
    <2> QED  BY <2>1, <2>2, <2>3
<1> HIDE DEF Past, Intro, n, until, Open
<1>7. (\E alternative \in RangeAlternatives(events) : Allows(alternative, v))
         <=> (\E i \in 1..n : ~ Intro(i) /\ Past(i - 1) /\ ~ Past(i)) \/ (Intro(n) /\ Past(n))
    <2>1. (\E alternative \in {until(i) : i \in {j \in 1..n : ~ Intro(j)}} : Allows(alternative, v))
             <=> \E i \in 1..n : ~ Intro(i) /\ Allows(until(i), v)
        OBVIOUS
    <2>2. (\E i \in 1..n : ~ Intro(i) /\ Allows(until(i), v))
             <=> \E i \in 1..n : ~ Intro(i) /\ Past(i - 1) /\ ~ Past(i)
        BY <1>2, Zenon
    <2>3. (\E alternative \in RangeAlternatives(events) : Allows(alternative, v))
             <=> \/ \E alternative \in {until(i) : i \in {j \in 1..n : ~ Intro(j)}} : Allows(alternative, v)
                 \/ \E alternative \in Open : Allows(alternative, v)
        BY <1>1
    <2> QED  BY <1>4, <2>1, <2>2, <2>3
<1>8. {} \notin RangeAlternatives(events)
    <2>1. \A i : until(i) # {}
        BY DEF until
    <2>2. {} \notin Open
        BY DEF Open
    <2> QED  BY <1>1, <2>1, <2>2
<1>9. RangeAlternatives(events) # {}
    <2>1. CASE Intro(n)
        <3>1. LowerBound(events, n) \in Open
            BY <1>3, <2>1 DEF Open
        <3> QED  BY <1>1, <3>1
    <2>2. CASE ~ Intro(n)
        <3>1. n \in {j \in 1..n : ~ Intro(j)}
            BY <1>0, <2>2
        <3> QED  BY <1>1, <3>1
    <2> QED  BY <2>1, <2>2
<1> QED  BY <1>5, <1>6, <1>7, <1>8, <1>9

\* The alternatives of an item admit what its ranges and its versions mean.
LEMMA ItemAsMeant ==
    ASSUME NEW ranges \in Seq(OsvRange), NEW versions \in SUBSET VersionType,
           versions # {} \/ \E i \in DOMAIN ranges : ~ ranges[i].git,
           \A i \in DOMAIN ranges : ~ ranges[i].git =>
               /\ InTurns(ranges[i].events)
               /\ ranges[i].events # <<[kind |-> "introduced", v |-> Release(<< 0 >>)]>>,
           NEW v \in VersionType, ~ VersionLess(v, Release(<< 0 >>))
    PROVE  Satisfies(v, affected_range_from_osv(ranges, versions))
               <=> \/ \E w \in versions : VersionEqual(v, w)
                   \/ \E i \in DOMAIN ranges : ~ ranges[i].git /\ AffectedByRange(ranges[i].events, v)
<1> DEFINE released == {j \in DOMAIN ranges : ~ ranges[j].git}
           ofRange(i) == RangeAlternatives(ranges[i].events)
           ofRanges == UNION {ofRange(i) : i \in released}
           single(w) == {[op |-> "=", v |-> w]}
           singles == {single(w) : w \in versions}
           alternatives == ofRanges \cup singles
<1>1. \A i \in released :
          /\ ofRange(i) # {} /\ {} \notin ofRange(i)
          /\ (\E a \in ofRange(i) : Allows(a, v)) <=> AffectedByRange(ranges[i].events, v)
    <2> SUFFICES ASSUME NEW i \in released
                 PROVE  /\ ofRange(i) # {} /\ {} \notin ofRange(i)
                        /\ (\E a \in ofRange(i) : Allows(a, v)) <=> AffectedByRange(ranges[i].events, v)
        OBVIOUS
    <2>1. ranges[i].events \in Seq(OsvEvent)
        <3>1. ranges[i] \in OsvRange
            OBVIOUS
        <3> QED  BY <3>1 DEF OsvRange
    <2>2. ~ ranges[i].git
        OBVIOUS
    <2>3. /\ InTurns(ranges[i].events)
          /\ ranges[i].events # <<[kind |-> "introduced", v |-> Release(<< 0 >>)]>>
        BY <2>2
    <2> QED  BY <2>1, <2>3, RangeAsMeant
<1>2. \A w : single(w) # {} /\ (Allows(single(w), v) <=> VersionEqual(v, w))
    <2>1. \A w : Holds(v, [op |-> "=", v |-> w]) <=> VersionEqual(v, w)
        BY EqualityComparator
    <2> QED  BY <2>1 DEF Allows
<1> HIDE DEF ofRange, single
<1>3. alternatives # {} /\ {} \notin alternatives
    <2> HIDE DEF released
    <2>1. {} \notin ofRanges
        BY <1>1
    <2>2. {} \notin singles
        BY <1>2
    <2>3. CASE versions # {}
        <3>1. singles # {}
            BY <2>3
        <3> HIDE DEF singles, ofRanges
        <3> QED  BY <2>1, <2>2, <3>1
    <2>4. CASE versions = {}
        <3>1. PICK i \in released : TRUE
            BY <2>4 DEF released
        <3>2. ofRanges # {}
            BY <1>1, <3>1
        <3> HIDE DEF singles, ofRanges
        <3> QED  BY <2>1, <2>2, <3>2
    <2> QED  BY <2>3, <2>4
<1>4. affected_range_from_osv(ranges, versions) = alternatives
    <2>1. affected_range_from_osv(ranges, versions)
            = IF alternatives = {} THEN FromZero ELSE alternatives
        BY DEF affected_range_from_osv, ofRange, single
    <2> HIDE DEF alternatives
    <2> QED  BY <1>3, <2>1
<1>5. Satisfies(v, alternatives) <=> \E a \in alternatives : Allows(a, v)
    <2> HIDE DEF alternatives
    <2> QED  BY <1>3, Zenon DEF Satisfies, Allows
<1>6. (\E a \in alternatives : Allows(a, v))
         <=> (\E i \in released : \E a \in ofRange(i) : Allows(a, v)) \/ \E w \in versions : Allows(single(w), v)
    OBVIOUS
<1>7. (\E i \in released : \E a \in ofRange(i) : Allows(a, v))
         <=> \E i \in DOMAIN ranges : ~ ranges[i].git /\ AffectedByRange(ranges[i].events, v)
    <2> HIDE DEF released
    <2>1. (\E i \in released : \E a \in ofRange(i) : Allows(a, v))
             <=> \E i \in released : AffectedByRange(ranges[i].events, v)
        BY <1>1, Zenon
    <2> QED  BY <2>1, Zenon DEF released
<1>8. (\E w \in versions : Allows(single(w), v)) <=> \E w \in versions : VersionEqual(v, w)
    BY <1>2
<1> HIDE DEF alternatives, released
<1> QED  BY <1>4, <1>5, <1>6, <1>7, <1>8

-----------------------------------------------------------------------------
(***************************************************************************)
(* What an import keeps.                                                   *)
(***************************************************************************)
Usables(record) ==
    {i \in DOMAIN record.affected :
        /\ record.affected[i].ecosystem \in SCANNED_ECOSYSTEMS
        /\ record.affected[i].ranges # <<>> \/ record.affected[i].versions # {}}

EntryOf(record, n, k) ==
    [at |-> <<n, k>>, ecosystem |-> record.affected[k].ecosystem, name |-> record.affected[k].name,
     id |-> record.id, cve |-> record.cve,
     affected |-> affected_range_from_osv(record.affected[k].ranges, record.affected[k].versions),
     fixed_in |-> _first_fixed(record.affected[k].ranges)]

LEMMA EntryFields ==
    ASSUME NEW record, NEW n, NEW k
    PROVE  LET x == EntryOf(record, n, k)
           IN  /\ x.at = <<n, k>> /\ x.at[1] = n /\ x.at[2] = k
               /\ x.ecosystem = record.affected[k].ecosystem /\ x.name = record.affected[k].name
               /\ x.id = record.id /\ x.cve = record.cve
               /\ x.affected = affected_range_from_osv(record.affected[k].ranges, record.affected[k].versions)
BY DEF EntryOf

LEMMA EntriesAreRead ==
    ASSUME NEW records, NEW x
    PROVE  x \in EntriesOf(records)
               <=> \E n \in DOMAIN records : \E k \in Usables(records[n]) : x = EntryOf(records[n], n, k)
<1>1. \A n : record_to_entries(records[n], n) = {EntryOf(records[n], n, k) : k \in Usables(records[n])}
    BY DEF record_to_entries, EntryOf, Usables
<1>2. \A n : x \in record_to_entries(records[n], n)
                <=> \E k \in Usables(records[n]) : x = EntryOf(records[n], n, k)
    <2> SUFFICES ASSUME NEW n
                 PROVE  x \in record_to_entries(records[n], n)
                           <=> \E k \in Usables(records[n]) : x = EntryOf(records[n], n, k)
        OBVIOUS
    <2>1. record_to_entries(records[n], n) = {EntryOf(records[n], n, k) : k \in Usables(records[n])}
        BY <1>1
    <2> QED  BY <2>1
<1> QED  BY <1>2 DEF EntriesOf

LEMMA EntriesHavePlaces ==
    ASSUME NEW records, NEW x \in EntriesOf(records)
    PROVE  \E n, k : n \in DOMAIN records /\ k \in Usables(records[n]) /\ x = EntryOf(records[n], n, k)
<1>1. \E n \in DOMAIN records : \E k \in Usables(records[n]) : x = EntryOf(records[n], n, k)
    BY EntriesAreRead
<1> QED  BY <1>1

LEMMA RecordType ==
    ASSUME NEW records \in Seq(OsvRecord), NEW n \in DOMAIN records
    PROVE  /\ n \in Nat /\ records[n].id # ""
           /\ DOMAIN records[n].affected \subseteq Nat
           /\ \A k \in DOMAIN records[n].affected :
                 /\ records[n].affected[k].ranges \in Seq(OsvRange)
                 /\ records[n].affected[k].versions \in SUBSET VersionType
<1>1. records[n] \in OsvRecord /\ n \in Nat
    OBVIOUS
<1>2. /\ records[n].id # ""
      /\ records[n].affected \in Seq(OsvItem)
    BY <1>1 DEF OsvRecord
<1>3. \A k \in DOMAIN records[n].affected : records[n].affected[k] \in OsvItem /\ k \in Nat
    <2>1. \A items \in Seq(OsvItem) : \A k \in DOMAIN items : items[k] \in OsvItem /\ k \in Nat
        OBVIOUS
    <2> QED  BY <1>2, <2>1
<1>4. \A item \in OsvItem : item.ranges \in Seq(OsvRange) /\ item.versions \in SUBSET VersionType
    BY DEF OsvItem
<1> QED  BY <1>1, <1>2, <1>3, <1>4

\* Of two entries one was read before the other.
LEMMA PlacesAreOrdered ==
    ASSUME NEW records \in Seq(OsvRecord), NEW x \in EntriesOf(records), NEW y \in EntriesOf(records), x # y
    PROVE  Earlier(x.at, y.at) \/ Earlier(y.at, x.at)
<1>1. PICK m, k : m \in DOMAIN records /\ k \in Usables(records[m]) /\ x = EntryOf(records[m], m, k)
    BY EntriesHavePlaces
<1>2. PICK n, l : n \in DOMAIN records /\ l \in Usables(records[n]) /\ y = EntryOf(records[n], n, l)
    BY EntriesHavePlaces
<1>3. m \in Nat /\ k \in Nat /\ n \in Nat /\ l \in Nat
    BY <1>1, <1>2, RecordType DEF Usables
<1>4. m # n \/ k # l
    BY <1>1, <1>2
<1>5. /\ x.at[1] = m /\ x.at[2] = k
      /\ y.at[1] = n /\ y.at[2] = l
    BY <1>1, <1>2, EntryFields
<1> QED  BY <1>3, <1>4, <1>5 DEF Earlier

\* Of the entries on one vulnerability of a package one is kept.
LEMMA OneIsKept ==
    ASSUME NEW records \in Seq(OsvRecord), NEW x \in import_osv(records, 0), NEW y \in import_osv(records, 0),
           SamePackage(x, y), DedupeKey(x) = DedupeKey(y)
    PROVE  x = y
<1>1. import_osv(records, 0) \subseteq KeepFirst(EntriesOf(records), [z \in EntriesOf(records) |-> DedupeKey(z)])
    BY DEF import_osv
<1>2. /\ x \in EntriesOf(records) /\ y \in EntriesOf(records)
      /\ \A z \in EntriesOf(records) : SamePackage(z, x) /\ DedupeKey(z) = DedupeKey(x) => ~ Earlier(z.at, x.at)
      /\ \A z \in EntriesOf(records) : SamePackage(z, y) /\ DedupeKey(z) = DedupeKey(y) => ~ Earlier(z.at, y.at)
    BY <1>1 DEF KeepFirst
<1>3. SamePackage(y, x)
    BY DEF SamePackage
<1> QED  BY <1>2, <1>3, PlacesAreOrdered

\* The first record on a vulnerability has its entry kept.
LEMMA FirstIsKept ==
    ASSUME NEW records \in Seq(OsvRecord), NEW n \in DOMAIN records, FirstOnIt(records, n),
           NEW k \in Usables(records[n]), Simple(records[n], records[n].affected[k])
    PROVE  EntryOf(records[n], n, k) \in import_osv(records, 0)
<1> DEFINE x == EntryOf(records[n], n, k)
<1>1. x \in EntriesOf(records)
    BY EntriesAreRead
<1>2. ASSUME NEW y \in EntriesOf(records), SamePackage(y, x), DedupeKey(y) = DedupeKey(x), Earlier(y.at, x.at)
      PROVE  FALSE
    <2>1. PICK m, l : m \in DOMAIN records /\ l \in Usables(records[m]) /\ y = EntryOf(records[m], m, l)
        BY <1>2, EntriesHavePlaces
    <2>2. /\ x.at[1] = n /\ x.at[2] = k /\ y.at[1] = m /\ y.at[2] = l
          /\ x.id = records[n].id /\ x.cve = records[n].cve
          /\ y.id = records[m].id /\ y.cve = records[m].cve
          /\ x.ecosystem = records[n].affected[k].ecosystem /\ x.name = records[n].affected[k].name
          /\ y.ecosystem = records[m].affected[l].ecosystem /\ y.name = records[m].affected[l].name
        BY <2>1, EntryFields
    <2>3. /\ m \in Nat /\ n \in Nat /\ k \in Nat /\ l \in Nat
          /\ records[m].id # "" /\ records[n].id # ""
        BY <2>1, RecordType DEF Usables
    <2>6. m \in Nat /\ n \in Nat /\ k \in Nat /\ l \in Nat
        BY <2>3
    <2> HIDE DEF x
    <2>4. CASE m < n
        <3>1. KnownAs(records[m]) \cap KnownAs(records[n]) = {}
            <4>1. m \in 1..(n - 1)
                <5>1. m \in 1..Len(records)
                    BY <2>1
                <5> QED  BY <2>4, <2>6, <5>1
            <4> QED  BY <4>1 DEF FirstOnIt
        <3>2. DedupeKey(y) \in KnownAs(records[m]) /\ DedupeKey(x) \in KnownAs(records[n])
            BY <2>2, <2>3 DEF DedupeKey, KnownAs
        <3> QED  BY <1>2, <3>1, <3>2
    <2>5. CASE ~ (m < n)
        <3>1. m = n /\ l < k
            BY <1>2, <2>2, <2>3, <2>5 DEF Earlier
        <3>2. /\ SamePackage(records[n].affected[l], records[n].affected[k])
              /\ SamePackage(records[n].affected[k], records[n].affected[k])
            BY <1>2, <2>2, <3>1 DEF SamePackage
        <3>3. l \in DOMAIN records[n].affected /\ k \in DOMAIN records[n].affected
            BY <2>1, <3>1 DEF Usables
        <3>4. l = k
            BY <3>2, <3>3 DEF Simple
        <3>5. ~ (k < k)
            BY <2>6
        <3> QED  BY <3>1, <3>4, <3>5
    <2> QED  BY <2>4, <2>5
<1> HIDE DEF x
<1>3. x \in KeepFirst(EntriesOf(records), [z \in EntriesOf(records) |-> DedupeKey(z)])
    BY <1>1, <1>2 DEF KeepFirst
<1>4. x \in import_osv(records, 0)
    BY <1>3 DEF import_osv
<1> QED  BY <1>4 DEF x

\* ImportIsFaithful.  Merging feeds (import-osv) leaves one entry for each
\* vulnerability of a package, on exactly the versions that the first record on it
\* calls affected, whatever feeds they are.
THEOREM ImportLosesNothing == DependencySpec => ImportIsFaithful
<1>1. ASSUME DatabaseInv, ImportOsv(0)
      PROVE  /\ \A x, y \in database' :
                   x # y /\ SamePackage(x, y) => x.cve = "" \/ x.cve # y.cve
             /\ \A n \in DOMAIN feed : FirstOnIt(feed, n) =>
                   \A k \in DOMAIN feed[n].affected :
                       LET a == feed[n].affected[k]
                       IN  Usable(a) /\ Simple(feed[n], a)
                           => Covered(database', feed[n], a) = {v \in Versions : AffectedBy(a, v)}
    <2>1. feed \in Seq(OsvRecord) /\ database' = import_osv(feed, 0)
        BY <1>1, FeedsAssumption DEF DatabaseInv, ImportOsv
    <2>2. ASSUME NEW x \in database', NEW y \in database', x # y, SamePackage(x, y)
          PROVE  x.cve = "" \/ x.cve # y.cve
        <3>1. DedupeKey(x) # DedupeKey(y)
            BY <2>1, <2>2, OneIsKept
        <3> QED  BY <3>1 DEF DedupeKey
    <2>3. ASSUME NEW n \in DOMAIN feed, FirstOnIt(feed, n), NEW k \in DOMAIN feed[n].affected,
                 Usable(feed[n].affected[k]), Simple(feed[n], feed[n].affected[k])
          PROVE  Covered(database', feed[n], feed[n].affected[k])
                    = {v \in Versions : AffectedBy(feed[n].affected[k], v)}
        <3> DEFINE a == feed[n].affected[k]
                   x == EntryOf(feed[n], n, k)
        <3>1. a.ranges \in Seq(OsvRange) /\ a.versions \in SUBSET VersionType
            BY <2>1, <2>3, RecordType
        <3>2. k \in Usables(feed[n])
            BY <2>3 DEF Usable, Usables
        <3>3. x \in database'
            BY <2>1, <2>3, <3>2, FirstIsKept
        <3>4. /\ x.ecosystem = a.ecosystem /\ x.name = a.name
              /\ x.id = feed[n].id /\ x.cve = feed[n].cve
              /\ x.affected = affected_range_from_osv(a.ranges, a.versions)
            BY EntryFields
        <3>5. \A v \in Versions : Satisfies(v, x.affected) <=> AffectedBy(a, v)
            <4> SUFFICES ASSUME NEW v \in Versions
                         PROVE  Satisfies(v, x.affected) <=> AffectedBy(a, v)
                OBVIOUS
            <4>1. v \in VersionType /\ ~ VersionLess(v, Release(<< 0 >>))
                BY VersionsAssumption
            <4>2. /\ a.versions # {} \/ \E i \in DOMAIN a.ranges : ~ a.ranges[i].git
                  /\ \A i \in DOMAIN a.ranges : ~ a.ranges[i].git =>
                        /\ InTurns(a.ranges[i].events)
                        /\ a.ranges[i].events # <<[kind |-> "introduced", v |-> Release(<< 0 >>)]>>
                BY <2>3 DEF Usable, Simple
            <4> HIDE DEF a, x
            <4> QED  BY <3>1, <3>4, <4>1, <4>2, ItemAsMeant DEF AffectedBy
        <3> HIDE DEF x, a
        <3>6. ASSUME NEW y \in database', SamePackage(y, a), y.cve = feed[n].cve,
                     feed[n].cve = "" => y.id = feed[n].id
              PROVE  y = x
            <4>1. SamePackage(y, x)
                BY <3>4, <3>6 DEF SamePackage
            <4>2. DedupeKey(y) = DedupeKey(x)
                BY <3>4, <3>6 DEF DedupeKey
            <4> QED  BY <2>1, <3>3, <3>6, <4>1, <4>2, OneIsKept
        <3>7. SamePackage(x, a) /\ x.cve = feed[n].cve /\ x.id = feed[n].id
            BY <3>4 DEF SamePackage
        <3>8. Covered(database', feed[n], a) = {v \in Versions : Satisfies(v, x.affected)}
            BY <3>3, <3>6, <3>7 DEF Covered
        <3> QED  BY <3>5, <3>8 DEF a
    <2> QED  BY <2>2, <2>3
<1>2. DatabaseInv /\ [DependencyNext]_dependencyVars =>
         [ImportOsv(0) =>
             /\ \A x, y \in database' :
                   x # y /\ SamePackage(x, y) => x.cve = "" \/ x.cve # y.cve
             /\ \A n \in DOMAIN feed : FirstOnIt(feed, n) =>
                   \A k \in DOMAIN feed[n].affected :
                       LET a == feed[n].affected[k]
                       IN  Usable(a) /\ Simple(feed[n], a)
                           => Covered(database', feed[n], a) = {v \in Versions : AffectedBy(a, v)}
           ]_dependencyVars
    BY <1>1
<1> QED  BY <1>2, DatabaseIsOfFeed, PTL DEF ImportIsFaithful, DependencySpec

-----------------------------------------------------------------------------
(***************************************************************************)
(* The analyses of data flow.                                              *)
(***************************************************************************)
LEMMA StatementFields ==
    ASSUME scope \in Scopes
    PROVE  /\ Len(scope.body) \in Nat /\ DOMAIN scope.body = 1..Len(scope.body)
           /\ scope.params \subseteq PythonNames
           /\ \A i \in DOMAIN scope.body :
                 /\ Step(i).depth \in Nat \ {0}
                 /\ Step(i).do \in {"assign", "bind", "eval", "open", "if", "while"}
                 /\ Binds(i) => Step(i).name \in PythonNames
<1>1. scope.body \in Seq(Statement) /\ scope.params \subseteq PythonNames
    BY ScopesAssumption
<1>2. Len(scope.body) \in Nat /\ DOMAIN scope.body = 1..Len(scope.body)
    BY <1>1
<1>3. \A i \in DOMAIN scope.body : Step(i) \in Statement
    BY <1>1, <1>2 DEF Step
<1>4. ASSUME NEW i \in DOMAIN scope.body
      PROVE  /\ Step(i).depth \in Nat \ {0}
             /\ Step(i).do \in {"assign", "bind", "eval", "open", "if", "while"}
             /\ Binds(i) => Step(i).name \in PythonNames
    <2>1. Step(i) \in Statement
        BY <1>3
    <2> QED  BY <2>1 DEF Statement, Binds
<1> QED  BY <1>1, <1>2, <1>4

\* The types.
FlowsTypeOK ==
    /\ scope \in Scopes
    /\ tracker \in [{"eval", "open"} -> [visited : SUBSET DOMAIN scope.body, tainted : SUBSET PythonNames,
                                         found : SUBSET DOMAIN scope.body]]
    /\ at \in 1..End /\ again \in BOOLEAN
    /\ passed \subseteq {h \in DOMAIN scope.body : Step(h).do = "while"}
    /\ DOMAIN holds \subseteq PythonNames
    /\ \A r \in reached : r.at \in DOMAIN scope.body

LEMMA VisitedFields ==
    ASSUME FlowsTypeOK, NEW sink \in {"eval", "open"}, NEW i, NEW tainted, NEW found, Visited(sink, i, tainted, found)
    PROVE  /\ tracker'[sink].visited = tracker[sink].visited \cup {i}
           /\ tracker'[sink].tainted = tainted
           /\ tracker'[sink].found = tracker[sink].found \cup found
           /\ \A other \in {"eval", "open"} \ {sink} : tracker'[other] = tracker[other]
           /\ scope' = scope /\ at' = at /\ again' = again /\ passed' = passed
           /\ holds' = holds /\ reached' = reached
BY DEF FlowsTypeOK, Visited, executionVars

LEMMA VisitType ==
    ASSUME FlowsTypeOK, NEW sink \in {"eval", "open"}, NEW i \in DOMAIN scope.body,
           NEW tainted \in SUBSET PythonNames, NEW found \in SUBSET DOMAIN scope.body,
           Visited(sink, i, tainted, found)
    PROVE  FlowsTypeOK'
<1>1. tracker' \in [{"eval", "open"} -> [visited : SUBSET DOMAIN scope.body, tainted : SUBSET PythonNames,
                                         found : SUBSET DOMAIN scope.body]]
    BY DEF FlowsTypeOK, Visited
<1> QED  BY <1>1, VisitedFields DEF FlowsTypeOK, End, Step

LEMMA GoneOn ==
    ASSUME scope \in Scopes, NEW i \in DOMAIN scope.body, NEW left, GoOn(i, left)
    PROVE  /\ \/ at' = i + 1
              \/ /\ at' \in passed' /\ Step(at').do = "while" /\ at' \in 1..i
                 /\ EndsAt(i, at')
           /\ at' \in 1..End
           /\ passed' \subseteq passed \cup {h \in DOMAIN scope.body : Step(h).do = "while"}
<1>1. Len(scope.body) \in Nat /\ DOMAIN scope.body = 1..Len(scope.body)
    BY StatementFields
<1>2. 1..i \subseteq DOMAIN scope.body
    BY <1>1
<1>3. i + 1 \in 1..End
    BY <1>1 DEF End
<1>4. DOMAIN scope.body \subseteq 1..End
    BY <1>1 DEF End
<1> DEFINE loops == {h \in 1..i : Step(h).do = "while" /\ EndsAt(i, h)} \ left
<1>5. passed' = passed \cup loops /\ (at' = i + 1 \/ at' \in loops)
    BY DEF GoOn
<1> HIDE DEF loops
<1>6. loops \subseteq {h \in 1..i : Step(h).do = "while" /\ EndsAt(i, h)}
    BY DEF loops
<1> QED  BY <1>2, <1>3, <1>4, <1>5, <1>6

LEMMA FlowsType == FlowsTypeOK /\ [FlowsNext]_flowVars => FlowsTypeOK'
<1> SUFFICES ASSUME FlowsTypeOK, [FlowsNext]_flowVars
             PROVE  FlowsTypeOK'
    OBVIOUS
<1>0. /\ Len(scope.body) \in Nat /\ DOMAIN scope.body = 1..Len(scope.body)
      /\ scope.params \subseteq PythonNames
      /\ \A i \in DOMAIN scope.body : Binds(i) => Step(i).name \in PythonNames
    BY StatementFields DEF FlowsTypeOK
<1>t. /\ tracker.eval.tainted \subseteq PythonNames /\ tracker.open.tainted \subseteq PythonNames
      /\ \A sink \in {"eval", "open"} : Unvisited(sink) \subseteq DOMAIN scope.body
    BY DEF FlowsTypeOK, Unvisited
<1>1. CASE VisitText
    <2> DEFINE before == tracker.eval.tainted
               after(i) == IF Step(i).do = "assign" THEN visit_Assign(before, Step(i)) ELSE before
               critical(i) == {k \in {i} : Step(k).do = "eval" /\ source_of(Step(k).value, "eval", before)}
    <2>1. PICK i \in Unvisited("eval") : Visited("eval", i, after(i), critical(i))
        BY <1>1 DEF VisitText
    <2>2. i \in DOMAIN scope.body
        BY <1>t
    <2>3. after(i) \subseteq PythonNames
        BY <1>0, <1>t, <2>2 DEF visit_Assign, Binds
    <2>4. critical(i) \subseteq DOMAIN scope.body
        BY <2>2
    <2> QED  BY <2>1, <2>2, <2>3, <2>4, VisitType
<1>2. CASE VisitWalk
    <2> DEFINE before == tracker.open.tainted
               after(i) == IF Step(i).do = "assign" THEN visit_assign(before, Step(i)) ELSE before
               reports(i) == {k \in {i} : /\ Step(k).do = "open" /\ ~ ContainsSanitizer(Step(k).value)
                                          /\ source_of(Step(k).value, "open", before)}
    <2>1. PICK i \in Unvisited("open") : Visited("open", i, after(i), reports(i))
        BY <1>2 DEF VisitWalk
    <2>2. i \in DOMAIN scope.body
        BY <1>t
    <2>3. after(i) \subseteq PythonNames
        BY <1>0, <1>t, <2>2 DEF visit_assign, Binds
    <2>4. reports(i) \subseteq DOMAIN scope.body
        BY <2>2
    <2> QED  BY <2>1, <2>2, <2>3, <2>4, VisitType
<1>3. CASE Assign
    <2>1. at \in DOMAIN scope.body
        BY <1>3, <1>0 DEF Assign, Bound, FlowsTypeOK, End
    <2>2. DOMAIN holds' \subseteq PythonNames
        BY <1>3, <1>0, <2>1 DEF Assign, FlowsTypeOK
    <2>3. at' \in 1..End /\ passed' \subseteq {h \in DOMAIN scope.body : Step(h).do = "while"}
        BY <1>3, <2>1, GoneOn DEF Assign, FlowsTypeOK
    <2> QED  BY <1>3, <2>2, <2>3 DEF Assign, FlowsTypeOK, End, Step
<1>4. CASE CallSink
    <2>1. at \in DOMAIN scope.body
        BY <1>4, <1>0 DEF CallSink, Bound, FlowsTypeOK, End
    <2>2. at' \in 1..End /\ passed' \subseteq {h \in DOMAIN scope.body : Step(h).do = "while"}
        BY <1>4, <2>1, GoneOn DEF CallSink, FlowsTypeOK
    <2> QED  BY <1>4, <2>1, <2>2 DEF CallSink, FlowsTypeOK, End, Step
<1>5. CASE Enter
    <2>1. at + 1 \in 1..End
        BY <1>5, <1>0 DEF Enter, Bound, FlowsTypeOK, End
    <2> QED  BY <1>5, <2>1 DEF Enter, FlowsTypeOK, End, Step
<1>6. CASE Leave
    <2>1. PICK i \in DOMAIN scope.body : EndsAt(i, at) /\ GoOn(i, {at})
        BY <1>6 DEF Leave
    <2>2. at' \in 1..End /\ passed' \subseteq {h \in DOMAIN scope.body : Step(h).do = "while"}
        BY <2>1, GoneOn DEF FlowsTypeOK
    <2> QED  BY <1>6, <2>2 DEF Leave, FlowsTypeOK, End, Step
<1>7. CASE Raise
    <2>1. End \in 1..End
        BY <1>0 DEF End
    <2> QED  BY <1>7, <2>1 DEF Raise, FlowsTypeOK, End, Step
<1>8. CASE UNCHANGED flowVars
    BY <1>8 DEF FlowsTypeOK, flowVars, executionVars, End, Step
<1> QED  BY <1>1, <1>2, <1>3, <1>4, <1>5, <1>6, <1>7, <1>8 DEF FlowsNext

-----------------------------------------------------------------------------
\* A value that an analysis can follow is untrusted only through a branch that it
\* follows, and an analysis finds no other.
LEMMA FollowedValue ==
    ASSUME NEW sink \in {"eval", "open"}, NEW e, NEW tainted, tainted \subseteq PythonNames,
           Operators(e) \subseteq Propagates[sink] \cup {"escape", "call"}
    PROVE  /\ (\A n \in Names(e) : Untrusted(holds[n], sink) => n \in tainted)
              => (Untrusted(Built(e), sink) => source_of(e, sink, tainted))
           /\ (\A n \in Names(e) : n \in tainted => Untrusted(holds[n], sink))
              => (source_of(e, sink, tainted) => Untrusted(Built(e), sink))
<1> DEFINE bad == {Input.leaf} \cup Hinted[sink]
           open == {b \in e : b.ops \cap {"escape", "call"} = {}}
<1>0. /\ Input.leaf # Literal.leaf /\ Literal.leaf \notin tainted /\ Input.leaf \notin tainted
      /\ Propagates[sink] \cap {"escape", "call"} = {}
    BY DEF Input, Literal, PythonNames, Propagates
<1>1. \A b \in open : b.ops \subseteq Propagates[sink]
    BY DEF Operators
<1>2. \A b \in e : b.ops \subseteq Propagates[sink] => b \in open
    BY <1>0
<1>3. \A b \in e : b.leaf \in {Input.leaf, Literal.leaf} \/ b.leaf \in Names(e)
    BY DEF Names
<1>4. Untrusted(Built(e), sink) <=> \E b \in open : Origins(b.leaf) \cap bad # {}
    BY DEF Untrusted, Built
<1> HIDE DEF open
<1>5. \A b \in e : b \in open <=> b.ops \subseteq Propagates[sink]
    BY <1>1, <1>2 DEF open
<1>6. open \subseteq e
    BY DEF open
<1>7. ASSUME \A n \in Names(e) : Untrusted(holds[n], sink) => n \in tainted,
             NEW b \in open, Origins(b.leaf) \cap bad # {}
      PROVE  b.leaf \in {Input.leaf} \cup tainted
    BY <1>3, <1>6, <1>7 DEF Untrusted, Origins
<1>8. ASSUME \A n \in Names(e) : n \in tainted => Untrusted(holds[n], sink),
             NEW b \in open, b.leaf \in {Input.leaf} \cup tainted
      PROVE  Origins(b.leaf) \cap bad # {}
    <2>1. CASE b.leaf = Input.leaf
        BY <2>1 DEF Origins
    <2>2. CASE b.leaf # Input.leaf
        BY <1>0, <1>3, <1>6, <1>8, <2>2 DEF Untrusted, Origins
    <2> QED  BY <2>1, <2>2
<1>9. source_of(e, sink, tainted) <=> \E b \in open : b.leaf \in {Input.leaf} \cup tainted
    BY <1>5, <1>6 DEF source_of
<1> QED  BY <1>4, <1>7, <1>8, <1>9

\* The body of a loop has one end.
LEMMA OneEnd ==
    ASSUME scope \in Scopes, NEW h \in DOMAIN scope.body, NEW i \in DOMAIN scope.body, NEW j \in DOMAIN scope.body,
           EndsAt(i, h), EndsAt(j, h)
    PROVE  i = j
<1>0. /\ Len(scope.body) \in Nat /\ DOMAIN scope.body = 1..Len(scope.body)
      /\ \A k \in DOMAIN scope.body : Step(k).depth \in Nat
    BY StatementFields
<1>1. ASSUME NEW k \in DOMAIN scope.body, NEW l \in DOMAIN scope.body, EndsAt(k, h), EndsAt(l, h)
      PROVE  ~ k < l
    <2> SUFFICES ASSUME k < l
                 PROVE  FALSE
        OBVIOUS
    <2>1. k + 1 \in (h + 1)..l /\ k + 1 \in DOMAIN scope.body /\ k + 1 # End
        BY <1>0, <1>1 DEF EndsAt, Within, End
    <2>2. Step(k + 1).depth > Step(h).depth
        BY <1>1, <2>1 DEF EndsAt, Within
    <2>3. Step(k + 1).depth <= Step(h).depth
        BY <1>1, <2>1 DEF EndsAt, DepthAfter
    <2> QED  BY <1>0, <2>1, <2>2, <2>3
<1> QED  BY <1>0, <1>1

\* What a name is tainted with when the first analysis comes to a statement.
Marks(taint) ==
    /\ \A i \in 1..End : taint[i] \subseteq PythonNames
    /\ \A i, j \in 1..End : i <= j => taint[i] \subseteq taint[j]
    /\ TaintedParams("eval") \subseteq taint[1]
    /\ \A i \in tracker.eval.visited :
          /\ Step(i).do = "assign" /\ source_of(Step(i).value, "eval", taint[i]) => Step(i).name \in taint[i + 1]
          /\ Step(i).do = "eval" /\ source_of(Step(i).value, "eval", taint[i]) => i \in tracker.eval.found
    /\ \A i \in Unvisited("eval") : taint[i] = tracker.eval.tainted
    /\ taint[End] = tracker.eval.tainted

\* How far in the text an execution has been that is at a statement: at the header
\* of a loop that it went through, to the end of the body.
Been(k) == k = at \/ (at \in passed /\ \E i \in DOMAIN scope.body : EndsAt(i, at) /\ k = i + 1)

MarkedIfUntrusted(taint) ==
    ~ again => \E k \in 1..End : Been(k) /\ \A n \in DOMAIN holds : Untrusted(holds[n], "eval") => n \in taint[k]

\* The first analysis went through the text, and what it found covers the execution.
EvalInv ==
    /\ \A i \in tracker.eval.visited, j \in Unvisited("eval") : i < j
    /\ Followed("eval") =>
          /\ \E taint : Marks(taint) /\ MarkedIfUntrusted(taint)
          /\ \A r \in reached : Step(r.at).do = "eval" /\ ~ r.again /\ Untrusted(r.from, "eval")
                                => r.at \in tracker.eval.found

LEMMA FlowsInitially == FlowsInit => FlowsTypeOK /\ EvalInv
<1> SUFFICES ASSUME FlowsInit
             PROVE  FlowsTypeOK /\ EvalInv
    OBVIOUS
<1>0. /\ Len(scope.body) \in Nat /\ DOMAIN scope.body = 1..Len(scope.body)
      /\ scope.params \subseteq PythonNames /\ scope \in Scopes
    BY StatementFields DEF FlowsInit
<1>1. /\ tracker = [sink \in {"eval", "open"} |->
                       [visited |-> {}, tainted |-> TaintedParams(sink), found |-> {}]]
      /\ at = 1 /\ again = FALSE /\ passed = {} /\ reached = {} /\ holds = [p \in scope.params |-> {p}]
    BY DEF FlowsInit
<1>2. 1 \in 1..End /\ End \in 1..End
    BY <1>0 DEF End
<1>3. \A sink \in {"eval", "open"} : TaintedParams(sink) \subseteq PythonNames
    BY <1>0 DEF TaintedParams, MarkedParams
<1>4. FlowsTypeOK
    BY <1>0, <1>1, <1>2, <1>3 DEF FlowsTypeOK
<1> DEFINE taint == [i \in 1..End |-> TaintedParams("eval")]
<1>5. Unvisited("eval") \subseteq 1..End
    BY <1>0 DEF Unvisited, End
<1>6. \A i \in 1..End : taint[i] = TaintedParams("eval")
    OBVIOUS
<1>7. tracker.eval.visited = {} /\ tracker.eval.tainted = TaintedParams("eval")
    BY <1>1
<1> HIDE DEF taint
<1>8. Marks(taint)
    BY <1>2, <1>3, <1>5, <1>6, <1>7 DEF Marks
<1>9. ASSUME Followed("eval")
      PROVE  \A n \in DOMAIN holds : Untrusted(holds[n], "eval") => n \in TaintedParams("eval")
    <2> SUFFICES ASSUME NEW n \in DOMAIN holds, Untrusted(holds[n], "eval")
                 PROVE  n \in TaintedParams("eval")
        OBVIOUS
    <2>1. n \in scope.params /\ holds[n] = {n} /\ n # Input.leaf
        BY <1>0, <1>1 DEF PythonNames
    <2> QED  BY <1>9, <2>1 DEF Untrusted, TaintedParams, Followed
<1>10. Followed("eval") => MarkedIfUntrusted(taint)
    BY <1>1, <1>2, <1>6, <1>9 DEF MarkedIfUntrusted, Been
<1> QED  BY <1>1, <1>4, <1>7, <1>8, <1>10 DEF EvalInv

LEMMA EvalVisit == FlowsTypeOK /\ EvalInv /\ VisitText => EvalInv'
<1> SUFFICES ASSUME FlowsTypeOK, EvalInv, VisitText
             PROVE  EvalInv'
    OBVIOUS
<1>0. /\ Len(scope.body) \in Nat /\ DOMAIN scope.body = 1..Len(scope.body) /\ scope \in Scopes
      /\ \A i \in DOMAIN scope.body : Binds(i) => Step(i).name \in PythonNames
    BY StatementFields DEF FlowsTypeOK
<1> DEFINE before == tracker.eval.tainted
           after(i) == IF Step(i).do = "assign" THEN visit_Assign(before, Step(i)) ELSE before
           critical(i) == {k \in {i} : Step(k).do = "eval" /\ source_of(Step(k).value, "eval", before)}
<1>1. PICK i \in Unvisited("eval") : /\ \A j \in Unvisited("eval") : i <= j
                                    /\ Visited("eval", i, after(i), critical(i))
    BY DEF VisitText
<1>2. /\ tracker'.eval.visited = tracker.eval.visited \cup {i}
      /\ tracker'.eval.tainted = after(i)
      /\ tracker'.eval.found = tracker.eval.found \cup critical(i)
      /\ scope' = scope /\ at' = at /\ again' = again /\ passed' = passed
      /\ holds' = holds /\ reached' = reached
    BY <1>1, VisitedFields
<1>3. /\ i \in DOMAIN scope.body /\ i \notin tracker.eval.visited /\ i \in 1..End /\ i + 1 \in 1..End
      /\ End' = End /\ End \in Nat /\ i < End
      /\ Unvisited("eval")' = Unvisited("eval") \ {i} /\ Unvisited("eval") \subseteq 1..(End - 1)
      /\ tracker.eval.visited \subseteq 1..(End - 1) /\ before \subseteq PythonNames
    BY <1>0, <1>1, <1>2 DEF Unvisited, End, FlowsTypeOK
<1>4. \A k : Step(k)' = Step(k)
    BY <1>2 DEF Step
<1>5. before \subseteq after(i) /\ after(i) \subseteq PythonNames
    BY <1>0, <1>3 DEF visit_Assign, Binds
<1>6. (\A k \in tracker.eval.visited, j \in Unvisited("eval") : k < j)'
    <2> SUFFICES ASSUME NEW k \in tracker.eval.visited \cup {i}, NEW j \in Unvisited("eval") \ {i}
                 PROVE  k < j
        BY <1>2, <1>3
    <2>1. CASE k = i
        <3>1. i <= j /\ i # j
            BY <1>1
        <3> QED  BY <1>3, <2>1, <3>1
    <2>2. CASE k \in tracker.eval.visited
        BY <2>2 DEF EvalInv
    <2> QED  BY <2>1, <2>2
<1>7. ASSUME Followed("eval")
      PROVE  \E taint : Marks(taint)' /\ MarkedIfUntrusted(taint)'
    <2>1. PICK taint : Marks(taint) /\ MarkedIfUntrusted(taint)
        BY <1>7 DEF EvalInv
    <2>2. PICK next : \A k \in 1..End : next[k] = IF k <= i THEN taint[k] ELSE after(i)
        <3> DEFINE extended == [k \in 1..End |-> IF k <= i THEN taint[k] ELSE after(i)]
        <3>1. \A k \in 1..End : extended[k] = IF k <= i THEN taint[k] ELSE after(i)
            OBVIOUS
        <3> QED  BY <3>1
    <2> HIDE DEF before, after
    <2>3. taint[i] = before /\ taint[End] = before
        BY <1>1, <2>1 DEF Marks, before
    <2>4. \A k \in 1..End : taint[k] \subseteq before
        BY <1>3, <2>1, <2>3 DEF Marks
    <2>5. \A k \in 1..End : next[k] \subseteq PythonNames /\ taint[k] \subseteq next[k]
        BY <1>5, <2>1, <2>2, <2>4 DEF Marks
    <2>6. \A k, l \in 1..End : k <= l => next[k] \subseteq next[l]
        <3> SUFFICES ASSUME NEW k \in 1..End, NEW l \in 1..End, k <= l
                     PROVE  next[k] \subseteq next[l]
            OBVIOUS
        <3>1. taint[k] \subseteq taint[l] /\ taint[k] \subseteq after(i)
            BY <1>5, <2>1, <2>4 DEF Marks
        <3>2. l <= i => k <= i
            BY <1>3
        <3> QED  BY <2>2, <3>1, <3>2
    <2>7. TaintedParams("eval") \subseteq next[1]
        BY <1>3, <2>1, <2>5 DEF Marks
    <2>8. ASSUME NEW k \in tracker.eval.visited
          PROVE  /\ Step(k).do = "assign" /\ source_of(Step(k).value, "eval", next[k])
                       => Step(k).name \in next[k + 1]
                 /\ Step(k).do = "eval" /\ source_of(Step(k).value, "eval", next[k])
                       => k \in tracker.eval.found
        <3>1. k < i /\ k \in 1..End /\ k + 1 \in 1..End
            BY <1>1, <1>3 DEF EvalInv
        <3>2. next[k] = taint[k] /\ next[k + 1] = taint[k + 1]
            BY <1>3, <2>2, <3>1
        <3> QED  BY <2>1, <2>8, <3>2 DEF Marks
    <2>9. /\ Step(i).do = "assign" /\ source_of(Step(i).value, "eval", next[i]) => Step(i).name \in next[i + 1]
          /\ Step(i).do = "eval" /\ source_of(Step(i).value, "eval", next[i]) => i \in critical(i)
        <3>1. next[i] = before /\ next[i + 1] = after(i)
            BY <1>3, <2>2, <2>3
        <3> QED  BY <3>1 DEF after, visit_Assign
    <2>10. \A k \in Unvisited("eval") \ {i} : next[k] = after(i)
        <3> SUFFICES ASSUME NEW k \in Unvisited("eval") \ {i}
                     PROVE  next[k] = after(i)
            OBVIOUS
        <3>1. i <= k /\ k # i /\ k \in 1..End
            BY <1>1, <1>3
        <3> QED  BY <1>3, <2>2, <3>1
    <2>11. next[End] = after(i)
        BY <1>3, <2>2
    <2>12. TaintedParams("eval")' = TaintedParams("eval")
        BY <1>2 DEF TaintedParams, MarkedParams
    <2>13. Marks(next)'
        BY <1>2, <1>3, <1>4, <2>5, <2>6, <2>7, <2>8, <2>9, <2>10, <2>11, <2>12 DEF Marks, source_of
    <2>14. \A k : Been(k)' <=> Been(k)
        BY <1>2, <1>3, <1>4 DEF Been, EndsAt, Within, DepthAfter
    <2>15. MarkedIfUntrusted(next)'
        BY <1>2, <1>3, <2>1, <2>5, <2>14 DEF MarkedIfUntrusted, Untrusted
    <2> QED  BY <2>13, <2>15
<1>8. Followed("eval")' <=> Followed("eval")
    BY <1>2, <1>4 DEF Followed, MarkedParams
<1> QED  BY <1>2, <1>4, <1>6, <1>7, <1>8 DEF EvalInv, Untrusted

\* What a step preserves that visits nothing in the first analysis.
LEMMA EvalVisitsNothing ==
    ASSUME FlowsTypeOK, EvalInv, scope' = scope, tracker'.eval = tracker.eval,
           Followed("eval") => \A taint : Marks(taint) /\ MarkedIfUntrusted(taint) => MarkedIfUntrusted(taint)',
           Followed("eval") => \A r \in reached' \ reached :
               Step(r.at).do = "eval" /\ ~ r.again /\ Untrusted(r.from, "eval") => r.at \in tracker.eval.found
    PROVE  EvalInv'
<1>1. \A k : Step(k)' = Step(k)
    BY DEF Step
<1>2. Unvisited("eval")' = Unvisited("eval") /\ End' = End /\ TaintedParams("eval")' = TaintedParams("eval")
    BY DEF Unvisited, End, TaintedParams, MarkedParams
<1>3. \A taint : Marks(taint) => Marks(taint)'
    BY <1>1, <1>2 DEF Marks, source_of
<1>4. Followed("eval")' <=> Followed("eval")
    BY <1>1 DEF Followed, MarkedParams
<1> QED  BY <1>1, <1>2, <1>3, <1>4 DEF EvalInv, Untrusted

\* At a statement that is no loop, what is marked before it is all that counts.
LEMMA MarkedHere ==
    ASSUME FlowsTypeOK, NEW taint, MarkedIfUntrusted(taint), ~ again, at \notin passed,
           NEW n \in DOMAIN holds, Untrusted(holds[n], "eval")
    PROVE  n \in taint[at]
BY DEF MarkedIfUntrusted, Been

LEMMA EvalWorks ==
    ASSUME FlowsTypeOK, NEW taint, Marks(taint), MarkedIfUntrusted(taint), Followed("eval"), ~ again,
           Bound, Step(at).do \in {"assign", "eval"}, Untrusted(Built(Step(at).value), "eval")
    PROVE  source_of(Step(at).value, "eval", taint[at])
<1>1. at \in DOMAIN scope.body /\ at \in 1..End
    BY StatementFields DEF FlowsTypeOK, Bound, End
<1>2. at \notin passed
    BY DEF FlowsTypeOK
<1>3. Operators(Step(at).value) \subseteq Propagates["eval"] \cup {"escape", "call"}
    BY <1>1 DEF Followed
<1>4. \A n \in Names(Step(at).value) : n \in DOMAIN holds
    BY DEF Bound, Needed
<1>5. \A n \in Names(Step(at).value) : Untrusted(holds[n], "eval") => n \in taint[at]
    BY <1>2, <1>4, MarkedHere
<1>6. taint[at] \subseteq PythonNames
    BY <1>1 DEF Marks
<1> QED  BY <1>3, <1>5, <1>6, FollowedValue

\* A statement that is not looked at adds nothing to what a name holds.
LEMMA BoundToItself ==
    ASSUME FlowsTypeOK, NEW sink \in {"eval", "open"}, Followed(sink), Bound, Step(at).do = "bind",
           Untrusted(Built(Step(at).value), sink)
    PROVE  Step(at).name \in DOMAIN holds /\ Untrusted(holds[Step(at).name], sink)
<1>1. at \in DOMAIN scope.body
    BY StatementFields DEF FlowsTypeOK, Bound, End
<1>2. PICK b \in Step(at).value : Origins(b.leaf) \cap ({Input.leaf} \cup Hinted[sink]) # {}
    BY DEF Untrusted, Built
<1>3. Step(at).name \in PythonNames
    BY <1>1, StatementFields DEF FlowsTypeOK, Binds
<1>4. b.leaf \in {Literal.leaf, Step(at).name}
    BY <1>1, <1>2 DEF Followed
<1>5. b.leaf = Step(at).name
    <2>1. Literal.leaf # Input.leaf
        BY DEF Literal, Input
    <2> QED  BY <1>2, <1>4, <2>1 DEF Origins
<1>6. Step(at).name \in Names(Step(at).value)
    BY <1>2, <1>3, <1>5 DEF Names, PythonNames
<1>7. Step(at).name \in DOMAIN holds
    BY <1>6 DEF Bound, Needed
<1>8. Origins(b.leaf) = holds[Step(at).name]
    BY <1>3, <1>5 DEF Origins, PythonNames
<1> QED  BY <1>2, <1>7, <1>8 DEF Untrusted

\* Wherever an execution goes from the end of a statement, it has been there.
LEMMA BeenThere ==
    ASSUME FlowsTypeOK, NEW i \in DOMAIN scope.body, NEW left, GoOn(i, left), scope' = scope
    PROVE  i + 1 \in 1..End /\ Been(i + 1)'
<1>1. \/ at' = i + 1
      \/ at' \in passed' /\ EndsAt(i, at')
    BY GoneOn DEF FlowsTypeOK
<1>2. at' \in passed' /\ EndsAt(i, at') => Been(i + 1)'
    BY DEF Been, EndsAt, Within, DepthAfter, Step, End
<1> QED  BY <1>1, <1>2, StatementFields DEF Been, End, FlowsTypeOK

LEMMA EvalExecution == FlowsTypeOK /\ EvalInv /\ (VisitWalk \/ Assign \/ CallSink \/ Enter \/ Leave \/ Raise) => EvalInv'
<1> SUFFICES ASSUME FlowsTypeOK, EvalInv, VisitWalk \/ Assign \/ CallSink \/ Enter \/ Leave \/ Raise
             PROVE  EvalInv'
    OBVIOUS
<1>0. /\ Len(scope.body) \in Nat /\ DOMAIN scope.body = 1..Len(scope.body) /\ scope \in Scopes
      /\ at \in 1..End /\ End = Len(scope.body) + 1
    BY StatementFields DEF FlowsTypeOK, End
<1>1. CASE VisitWalk
    <2>1. PICK i, tainted, found : Visited("open", i, tainted, found)
        BY <1>1 DEF VisitWalk
    <2>2. /\ scope' = scope /\ at' = at /\ again' = again /\ passed' = passed
          /\ holds' = holds /\ reached' = reached /\ tracker'.eval = tracker.eval
        BY <2>1, VisitedFields
    <2>3. \A taint : MarkedIfUntrusted(taint) => MarkedIfUntrusted(taint)'
        BY <2>2 DEF MarkedIfUntrusted, Been, EndsAt, Within, DepthAfter, Step, End, Untrusted
    <2> QED  BY <2>2, <2>3, EvalVisitsNothing
<1>2. CASE Assign
    <2>0. scope' = scope /\ tracker' = tracker /\ again' = again /\ reached' = reached /\ at \in DOMAIN scope.body
        BY <1>0, <1>2 DEF Assign, Bound
    <2>1. ASSUME NEW taint, Marks(taint), MarkedIfUntrusted(taint), Followed("eval"), ~ again'
          PROVE  \E k \in (1..End)' : Been(k)' /\ \A n \in DOMAIN holds' : Untrusted(holds'[n], "eval") => n \in taint[k]
        <3>0. PICK next : next = at + 1
            OBVIOUS
        <3>1. next \in 1..End /\ Been(next)'
            BY <1>2, <2>0, <3>0, BeenThere DEF Assign
        <3>2. taint[at] \subseteq taint[next] /\ at \notin passed
            BY <1>0, <1>2, <2>0, <2>1, <3>0, <3>1 DEF Marks, Assign, FlowsTypeOK, Binds
        <3>3. ASSUME NEW n \in DOMAIN holds', Untrusted(holds'[n], "eval")
              PROVE  n \in taint[next]
            <4>1. CASE n = Step(at).name
                <5>1. holds'[n] = Built(Step(at).value)
                    BY <1>2, <4>1 DEF Assign
                <5>2. CASE Step(at).do = "assign"
                    <6>1. source_of(Step(at).value, "eval", taint[at])
                        BY <1>2, <2>0, <2>1, <3>3, <5>1, <5>2, EvalWorks DEF Assign
                    <6>2. at \in tracker.eval.visited
                        BY <1>2, <2>0 DEF Assign, Analysed, Unvisited
                    <6> QED  BY <2>1, <3>0, <4>1, <5>2, <6>1, <6>2 DEF Marks
                <5>3. CASE Step(at).do = "bind"
                    <6>1. n \in DOMAIN holds /\ Untrusted(holds[n], "eval")
                        BY <1>2, <2>1, <3>3, <4>1, <5>1, <5>3, BoundToItself DEF Assign
                    <6> QED  BY <2>0, <2>1, <3>2, <6>1, MarkedHere
                <5> QED  BY <1>2, <5>2, <5>3 DEF Assign, Binds
            <4>2. CASE n # Step(at).name
                <5>1. n \in DOMAIN holds /\ holds'[n] = holds[n]
                    BY <1>2, <3>3, <4>2 DEF Assign
                <5>2. n \in taint[at]
                    BY <2>0, <2>1, <3>2, <3>3, <5>1, MarkedHere
                <5> QED  BY <3>2, <5>2
            <4> QED  BY <4>1, <4>2
        <3>4. next \in (1..End)'
            BY <2>0, <3>1 DEF End
        <3> QED  BY <3>1, <3>3, <3>4
    <2>2. Followed("eval") => \A taint : Marks(taint) /\ MarkedIfUntrusted(taint) => MarkedIfUntrusted(taint)'
        BY <2>1 DEF MarkedIfUntrusted, Untrusted
    <2> QED  BY <2>0, <2>2, EvalVisitsNothing
<1>3. CASE CallSink
    <2>0. /\ scope' = scope /\ tracker' = tracker /\ again' = again /\ holds' = holds /\ at \in DOMAIN scope.body
          /\ at \notin passed /\ at \in tracker.eval.visited
        BY <1>0, <1>3 DEF CallSink, Bound, Analysed, Unvisited, FlowsTypeOK
    <2>1. ASSUME NEW taint, Marks(taint), MarkedIfUntrusted(taint), Followed("eval"), ~ again'
          PROVE  \E k \in (1..End)' : Been(k)' /\ \A n \in DOMAIN holds' : Untrusted(holds'[n], "eval") => n \in taint[k]
        <3>0. PICK next : next = at + 1
            OBVIOUS
        <3>1. next \in 1..End /\ Been(next)'
            BY <1>3, <2>0, <3>0, BeenThere DEF CallSink
        <3>2. taint[at] \subseteq taint[next]
            BY <1>0, <2>1, <3>0, <3>1 DEF Marks
        <3>3. \A n \in DOMAIN holds : Untrusted(holds[n], "eval") => n \in taint[at]
            BY <2>0, <2>1, MarkedHere
        <3>4. next \in (1..End)'
            BY <2>0, <3>1 DEF End
        <3> QED  BY <2>0, <3>1, <3>2, <3>3, <3>4
    <2>2. Followed("eval") => \A taint : Marks(taint) /\ MarkedIfUntrusted(taint) => MarkedIfUntrusted(taint)'
        BY <2>1 DEF MarkedIfUntrusted, Untrusted
    <2>3. ASSUME Followed("eval"), NEW r \in reached' \ reached, Step(r.at).do = "eval", ~ r.again,
                 Untrusted(r.from, "eval")
          PROVE  r.at \in tracker.eval.found
        <3>1. r.at = at /\ r.from = Built(Step(at).value) /\ r.again = again
            BY <1>3, <2>3 DEF CallSink
        <3>2. PICK taint : Marks(taint) /\ MarkedIfUntrusted(taint)
            BY <2>3 DEF EvalInv
        <3>3. source_of(Step(at).value, "eval", taint[at])
            BY <1>3, <2>3, <3>1, <3>2, EvalWorks DEF CallSink
        <3> QED  BY <2>0, <2>3, <3>1, <3>2, <3>3 DEF Marks
    <2> QED  BY <2>0, <2>2, <2>3, EvalVisitsNothing
<1>4. CASE Enter
    <2>0. /\ scope' = scope /\ tracker' = tracker /\ passed' = passed /\ holds' = holds /\ reached' = reached
          /\ at' = at + 1 /\ at + 1 \in 1..End /\ again' = (again \/ at \in passed)
        BY <1>0, <1>4 DEF Enter, Bound
    <2>1. ASSUME NEW taint, Marks(taint), MarkedIfUntrusted(taint), ~ again'
          PROVE  \E k \in (1..End)' : Been(k)' /\ \A n \in DOMAIN holds' : Untrusted(holds'[n], "eval") => n \in taint[k]
        <3>0. PICK next : next = at + 1
            OBVIOUS
        <3>1. next \in (1..End)' /\ Been(next)'
            BY <2>0, <3>0 DEF End, Been
        <3>2. taint[at] \subseteq taint[next]
            BY <1>0, <2>0, <2>1, <3>0 DEF Marks
        <3>3. \A n \in DOMAIN holds : Untrusted(holds[n], "eval") => n \in taint[at]
            BY <2>0, <2>1, MarkedHere
        <3> QED  BY <2>0, <3>1, <3>2, <3>3
    <2>2. \A taint : Marks(taint) /\ MarkedIfUntrusted(taint) => MarkedIfUntrusted(taint)'
        BY <2>1 DEF MarkedIfUntrusted, Untrusted
    <2> QED  BY <2>0, <2>2, EvalVisitsNothing
<1>5. CASE Leave
    <2>0. scope' = scope /\ tracker' = tracker /\ again' = again /\ holds' = holds /\ reached' = reached
        BY <1>5 DEF Leave
    <2>1. PICK i \in DOMAIN scope.body : EndsAt(i, at) /\ GoOn(i, {at})
        BY <1>5 DEF Leave
    <2>2. ASSUME NEW taint, Marks(taint), MarkedIfUntrusted(taint), ~ again'
          PROVE  \E k \in (1..End)' : Been(k)' /\ \A n \in DOMAIN holds' : Untrusted(holds'[n], "eval") => n \in taint[k]
        <3>1. i + 1 \in 1..End /\ Been(i + 1)'
            BY <2>0, <2>1, BeenThere
        <3>2. PICK k \in 1..End : Been(k) /\ \A n \in DOMAIN holds : Untrusted(holds[n], "eval") => n \in taint[k]
            BY <2>0, <2>2 DEF MarkedIfUntrusted
        <3>3. k <= i + 1
            <4>1. at \in DOMAIN scope.body
                BY <1>0, <1>5 DEF Leave, Bound
            <4>2. at < i
                BY <1>0, <2>1 DEF EndsAt, Within
            <4>3. CASE k = at
                BY <1>0, <4>2, <4>3
            <4>4. CASE \E j \in DOMAIN scope.body : EndsAt(j, at) /\ k = j + 1
                BY <1>0, <2>1, <4>1, <4>4, OneEnd
            <4> QED  BY <3>2, <4>3, <4>4 DEF Been
        <3>4. taint[k] \subseteq taint[i + 1]
            BY <2>2, <3>1, <3>3 DEF Marks
        <3>5. i + 1 \in (1..End)'
            BY <2>0, <3>1 DEF End
        <3> QED  BY <2>0, <3>1, <3>2, <3>4, <3>5
    <2>3. \A taint : Marks(taint) /\ MarkedIfUntrusted(taint) => MarkedIfUntrusted(taint)'
        BY <2>2 DEF MarkedIfUntrusted, Untrusted
    <2> QED  BY <2>0, <2>3, EvalVisitsNothing
<1>6. CASE Raise
    <2>0. /\ scope' = scope /\ tracker' = tracker /\ again' = again /\ holds' = holds /\ reached' = reached
          /\ at' = End
        BY <1>6 DEF Raise
    <2>1. ASSUME NEW taint, Marks(taint), MarkedIfUntrusted(taint), ~ again'
          PROVE  \E k \in (1..End)' : Been(k)' /\ \A n \in DOMAIN holds' : Untrusted(holds'[n], "eval") => n \in taint[k]
        <3>1. PICK k \in 1..End : Been(k) /\ \A n \in DOMAIN holds : Untrusted(holds[n], "eval") => n \in taint[k]
            BY <2>0, <2>1 DEF MarkedIfUntrusted
        <3>2. PICK last \in 1..End : last = End /\ k <= last
            BY <1>0
        <3>3. taint[k] \subseteq taint[last]
            BY <2>1, <3>1, <3>2 DEF Marks
        <3>4. last \in (1..End)' /\ Been(last)'
            BY <2>0, <3>2 DEF End, Been
        <3> QED  BY <2>0, <3>1, <3>3, <3>4
    <2>2. \A taint : Marks(taint) /\ MarkedIfUntrusted(taint) => MarkedIfUntrusted(taint)'
        BY <2>1 DEF MarkedIfUntrusted, Untrusted
    <2> QED  BY <2>0, <2>2, EvalVisitsNothing
<1> QED  BY <1>1, <1>2, <1>3, <1>4, <1>5, <1>6

-----------------------------------------------------------------------------
\* The walk of the second analysis is in an order ...
LEMMA TopsAndLevels ==
    ASSUME scope \in Scopes, NEW i \in DOMAIN scope.body
    PROVE  /\ Top(i) \in Nat /\ Level(i) \in Nat /\ Level(i) >= 1 /\ i \in Nat
           /\ Binds(i) /\ Step(i).depth = 1 => Level(i) = 1
           /\ \A j \in DOMAIN scope.body : j < i => Top(j) <= Top(i)
<1> DEFINE tops(j) == {k \in 1..j : Step(k).depth = 1}
<1>1. DOMAIN scope.body \subseteq Nat \ {0} /\ Step(i).depth \in Nat \ {0}
    BY StatementFields
<1>2. IsFiniteSet(1..i)
    BY <1>1, FS_Interval
<1>3. IsFiniteSet(tops(i)) /\ Cardinality(tops(i)) \in Nat
    BY <1>2, FS_Subset, FS_CardinalityType
<1>4. ASSUME NEW j \in DOMAIN scope.body, j < i
      PROVE  Cardinality(tops(j)) <= Cardinality(tops(i))
    <2>1. tops(j) \in SUBSET tops(i)
        BY <1>1, <1>4
    <2> QED  BY <1>3, <2>1, FS_Subset
<1> QED  BY <1>1, <1>3, <1>4 DEF Top, Level

LEMMA WalkedOneWay ==
    ASSUME scope \in Scopes, NEW i \in DOMAIN scope.body, NEW j \in DOMAIN scope.body, WalkedBefore(i, j)
    PROVE  ~ WalkedBefore(j, i)
BY TopsAndLevels DEF WalkedBefore

\* ... in which an assignment outside of any block comes before all that follows it.
LEMMA TopAssignmentsFirst ==
    ASSUME scope \in Scopes, NEW i \in DOMAIN scope.body, NEW j \in DOMAIN scope.body, i < j,
           Binds(i), Step(i).depth = 1
    PROVE  WalkedBefore(i, j)
BY TopsAndLevels DEF WalkedBefore

\* A name that is bound before a statement, if every name is assigned once.
GivenBefore(n, i) ==
    \/ n \in scope.params
    \/ \E j \in DOMAIN scope.body : j < i /\ Binds(j) /\ Step(j).name = n

Settled(i) == \A n \in Names(Step(i).value) : GivenBefore(n, i)

\* What the second analysis made of a statement still follows from its names.
Judged(i) ==
    LET untrusted == source_of(Step(i).value, "open", tracker.open.tainted)
    IN  /\ Step(i).do = "assign" => (Step(i).name \in tracker.open.tainted <=> untrusted)
        /\ Step(i).do = "open" /\ ~ ContainsSanitizer(Step(i).value) => (i \in tracker.open.found <=> untrusted)

\* The second analysis follows the walk; where every name is assigned once, its
\* verdicts are final and agree with the execution.
OpenInv ==
    /\ \A i \in tracker.open.visited, j \in Unvisited("open") : ~ WalkedBefore(j, i)
    /\ tracker.open.found \subseteq tracker.open.visited
    /\ Unvisited("open") # {} => reached = {} /\ holds = [p \in scope.params |-> {p}]
    /\ AssignedOnce =>
          /\ tracker.open.tainted \cap scope.params = TaintedParams("open")
          /\ \A n \in tracker.open.tainted \ scope.params :
                \E i \in tracker.open.visited : Step(i).do = "assign" /\ Step(i).name = n
          /\ \A i \in tracker.open.visited : Settled(i) => Judged(i)
          /\ \A n \in DOMAIN holds : GivenBefore(n, at)
    /\ AssignedOnce /\ Followed("open") =>
          /\ \A n \in DOMAIN holds : Untrusted(holds[n], "open") <=> n \in tracker.open.tainted
          /\ \A r \in reached : Step(r.at).do = "open" /\ ~ ContainsSanitizer(Step(r.at).value)
                                => (r.at \in tracker.open.found <=> Untrusted(r.from, "open"))

LEMMA ParamsAreHeld ==
    ASSUME scope \in Scopes, NEW tainted, tainted \cap scope.params = TaintedParams("open"),
           Followed("open"), holds = [p \in scope.params |-> {p}]
    PROVE  \A n \in DOMAIN holds : Untrusted(holds[n], "open") <=> n \in tainted
<1> SUFFICES ASSUME NEW n \in scope.params
             PROVE  Untrusted(holds[n], "open") <=> n \in tainted
    OBVIOUS
<1>1. holds[n] = {n} /\ n # Input.leaf
    BY StatementFields DEF PythonNames
<1> QED  BY <1>1 DEF Untrusted, TaintedParams, MarkedParams, Followed

LEMMA OpenInitially == FlowsInit => OpenInv
<1> SUFFICES ASSUME FlowsInit
             PROVE  OpenInv
    OBVIOUS
<1>1. /\ scope \in Scopes /\ reached = {} /\ holds = [p \in scope.params |-> {p}]
      /\ tracker.open.visited = {} /\ tracker.open.tainted = TaintedParams("open")
      /\ tracker.open.found = {}
    BY DEF FlowsInit
<1>2. tracker.open.tainted \subseteq scope.params
    BY <1>1 DEF TaintedParams, MarkedParams
<1>3. \A n \in DOMAIN holds : GivenBefore(n, at)
    BY <1>1 DEF GivenBefore
<1>4. Followed("open") =>
         \A n \in DOMAIN holds : Untrusted(holds[n], "open") <=> n \in tracker.open.tainted
    BY <1>1, <1>2, ParamsAreHeld
<1> QED  BY <1>1, <1>2, <1>3, <1>4 DEF OpenInv

\* What an analysis says of an expression depends on the names in it only.
LEMMA SameNames ==
    ASSUME NEW e, NEW before, NEW after, before \subseteq PythonNames, after \subseteq PythonNames,
           \A n \in Names(e) : n \in before <=> n \in after
    PROVE  source_of(e, "open", before) <=> source_of(e, "open", after)
<1>1. \A b \in e : b.leaf \in {Input.leaf, Literal.leaf} \/ b.leaf \in Names(e)
    BY DEF Names
<1>2. Literal.leaf \notin before /\ Literal.leaf \notin after
    BY DEF PythonNames
<1>3. \A b \in e : b.leaf \in {Input.leaf} \cup before <=> b.leaf \in {Input.leaf} \cup after
    BY <1>1, <1>2
<1> QED  BY <1>3 DEF source_of

LEMMA AssignedOnceMeans ==
    ASSUME AssignedOnce, NEW i \in DOMAIN scope.body, Binds(i)
    PROVE  /\ Step(i).depth = 1 /\ Step(i).name \notin scope.params
           /\ \A j \in DOMAIN scope.body : Binds(j) /\ Step(j).name = Step(i).name => j = i
BY DEF AssignedOnce

\* A visited statement that is settled reads no name that is visited later.
LEMMA OthersAreVisited ==
    ASSUME FlowsTypeOK, OpenInv, AssignedOnce, NEW k \in tracker.open.visited, Settled(k),
           NEW i \in Unvisited("open"), Binds(i)
    PROVE  Step(i).name \notin Names(Step(k).value)
<1> SUFFICES ASSUME Step(i).name \in Names(Step(k).value)
             PROVE  FALSE
    OBVIOUS
<1>1. i \in DOMAIN scope.body /\ k \in DOMAIN scope.body
    BY DEF FlowsTypeOK, Unvisited
<1>2. i < k
    BY <1>1, AssignedOnceMeans DEF Settled, GivenBefore
<1>3. WalkedBefore(i, k)
    BY <1>1, <1>2, AssignedOnceMeans, TopAssignmentsFirst DEF FlowsTypeOK
<1> QED  BY <1>3 DEF OpenInv

LEMMA OpenVisit == FlowsTypeOK /\ OpenInv /\ VisitWalk => OpenInv'
<1> SUFFICES ASSUME FlowsTypeOK, OpenInv, VisitWalk
             PROVE  OpenInv'
    OBVIOUS
<1>0. /\ scope \in Scopes /\ scope.params \subseteq PythonNames
      /\ \A i \in DOMAIN scope.body : Binds(i) => Step(i).name \in PythonNames
    BY StatementFields DEF FlowsTypeOK
<1> DEFINE before == tracker.open.tainted
           after(i) == IF Step(i).do = "assign" THEN visit_assign(before, Step(i)) ELSE before
           reports(i) == {k \in {i} : /\ Step(k).do = "open" /\ ~ ContainsSanitizer(Step(k).value)
                                      /\ source_of(Step(k).value, "open", before)}
<1>1. PICK i \in Unvisited("open") : /\ \A j \in Unvisited("open") \ {i} : WalkedBefore(i, j)
                                    /\ Visited("open", i, after(i), reports(i))
    BY DEF VisitWalk
<1>2. /\ tracker'.open.visited = tracker.open.visited \cup {i}
      /\ tracker'.open.tainted = after(i)
      /\ tracker'.open.found = tracker.open.found \cup reports(i)
      /\ scope' = scope /\ at' = at /\ holds' = holds /\ reached' = reached
    BY <1>1, VisitedFields
<1>3. /\ i \in DOMAIN scope.body /\ i \notin tracker.open.visited /\ tracker.open.visited \subseteq DOMAIN scope.body
      /\ before \subseteq PythonNames /\ tracker.open.found \subseteq DOMAIN scope.body
      /\ Unvisited("open")' = Unvisited("open") \ {i}
    BY <1>1, <1>2 DEF Unvisited, FlowsTypeOK
<1>4. /\ \A k : Step(k)' = Step(k)
      /\ \A k, l : WalkedBefore(k, l)' <=> WalkedBefore(k, l)
    BY <1>2 DEF Step, WalkedBefore, Top, Level, Binds
<1>5. /\ AssignedOnce' <=> AssignedOnce
      /\ Followed("open")' <=> Followed("open")
      /\ TaintedParams("open")' = TaintedParams("open")
      /\ \A n, k : GivenBefore(n, k)' <=> GivenBefore(n, k)
      /\ \A k : Settled(k)' <=> Settled(k)
    BY <1>2, <1>4 DEF AssignedOnce, Followed, TaintedParams, MarkedParams, GivenBefore, Settled, Binds
<1>6. after(i) \subseteq PythonNames
    BY <1>0, <1>3 DEF visit_assign, Binds
<1>7. \A n : (Step(i).do = "assign" => n # Step(i).name) => (n \in before <=> n \in after(i))
    BY DEF visit_assign
<1>8. (\A k \in tracker.open.visited, j \in Unvisited("open") : ~ WalkedBefore(j, k))'
    <2> SUFFICES ASSUME NEW k \in tracker.open.visited \cup {i}, NEW j \in Unvisited("open") \ {i}
                 PROVE  ~ WalkedBefore(j, k)
        BY <1>2, <1>3, <1>4
    <2>1. CASE k = i
        BY <1>0, <1>1, <1>3, <2>1, WalkedOneWay DEF Unvisited
    <2>2. CASE k \in tracker.open.visited
        BY <2>2 DEF OpenInv
    <2> QED  BY <2>1, <2>2
<1>9. reached = {} /\ holds = [p \in scope.params |-> {p}]
    BY <1>1 DEF OpenInv
<1> HIDE DEF before, after
<1>10. ASSUME AssignedOnce
       PROVE  /\ after(i) \cap scope.params = TaintedParams("open")
              /\ \A n \in after(i) \ scope.params :
                    \E k \in tracker.open.visited \cup {i} : Step(k).do = "assign" /\ Step(k).name = n
              /\ \A k \in tracker.open.visited \cup {i} : Settled(k) => Judged(k)'
    <2>0. Step(i).do = "assign" => Step(i).name \notin scope.params
        BY <1>3, <1>10, AssignedOnceMeans DEF Binds
    <2>1. before \cap scope.params = TaintedParams("open")
        BY <1>10 DEF OpenInv, before
    <2>2. after(i) \cap scope.params = TaintedParams("open")
        BY <1>7, <2>0, <2>1
    <2>3. \A n \in before \ scope.params :
              \E k \in tracker.open.visited : Step(k).do = "assign" /\ Step(k).name = n
        BY <1>10 DEF OpenInv, before
    <2>4. \A n \in after(i) \ scope.params :
              \E k \in tracker.open.visited \cup {i} : Step(k).do = "assign" /\ Step(k).name = n
        BY <1>7, <2>3
    <2>5. ASSUME NEW k \in tracker.open.visited \cup {i}, Settled(k), Step(k).do \in {"assign", "open"},
                 Step(i).do = "assign" => Step(i).name \notin Names(Step(k).value)
          PROVE  source_of(Step(k).value, "open", before) <=> source_of(Step(k).value, "open", after(i))
        <3>1. \A n \in Names(Step(k).value) : n \in before <=> n \in after(i)
            BY <1>7, <2>5
        <3> QED  BY <1>3, <1>6, <3>1, SameNames DEF before
    <2>6. ASSUME NEW k \in tracker.open.visited, Settled(k)
          PROVE  Judged(k)'
        <3>1. Step(i).do = "assign" => Step(i).name \notin Names(Step(k).value)
            BY <1>1, <1>10, <2>6, OthersAreVisited DEF Binds
        <3>2. Judged(k)
            BY <1>10, <2>6 DEF OpenInv
        <3>3. k # i /\ k \in DOMAIN scope.body
            BY <1>3
        <3>4. Step(k).do = "assign" => (Step(k).name \in before <=> Step(k).name \in after(i))
            BY <1>3, <1>7, <1>10, <3>3, AssignedOnceMeans DEF Binds
        <3>5. Step(k).do \in {"assign", "open"}
                 => (source_of(Step(k).value, "open", before) <=> source_of(Step(k).value, "open", after(i)))
            BY <2>5, <2>6, <3>1
        <3>6. k \in tracker'.open.found <=> k \in tracker.open.found
            BY <1>2, <3>3
        <3>7. source_of(Step(k).value, "open", tracker.open.tainted)'
                 <=> source_of(Step(k).value, "open", after(i))
            BY <1>2, <1>4 DEF source_of
        <3> QED  BY <1>2, <1>4, <3>2, <3>4, <3>5, <3>6, <3>7 DEF Judged, before
    <2>7. ASSUME Settled(i)
          PROVE  Judged(i)'
        <3>1. Step(i).do = "assign" => Step(i).name \notin Names(Step(i).value)
            BY <1>3, <1>10, <2>0, <2>7, AssignedOnceMeans, StatementFields DEF Settled, GivenBefore, FlowsTypeOK, Binds
        <3>2. Step(i).do \in {"assign", "open"}
                 => (source_of(Step(i).value, "open", before) <=> source_of(Step(i).value, "open", after(i)))
            BY <2>5, <2>7, <3>1
        <3>3. source_of(Step(i).value, "open", tracker.open.tainted)'
                 <=> source_of(Step(i).value, "open", after(i))
            BY <1>2, <1>4 DEF source_of
        <3>4. Step(i).do = "assign" => Step(i).name \notin before
            BY <1>3, <1>10, <2>0, <2>3, AssignedOnceMeans DEF Binds
        <3>5. Step(i).do = "assign" => (Step(i).name \in after(i) <=> source_of(Step(i).value, "open", before))
            BY <3>4 DEF after, visit_assign
        <3>6. Step(i).do = "open" /\ ~ ContainsSanitizer(Step(i).value)
                 => (i \in tracker'.open.found <=> source_of(Step(i).value, "open", before))
            <4>1. i \notin tracker.open.found
                BY <1>3 DEF OpenInv
            <4> QED  BY <1>2, <4>1
        <3> QED  BY <1>2, <1>4, <3>2, <3>3, <3>5, <3>6 DEF Judged, ContainsSanitizer
    <2> QED  BY <2>2, <2>4, <2>6, <2>7
<1>11. ASSUME AssignedOnce, Followed("open")
       PROVE  \A n \in DOMAIN holds : Untrusted(holds[n], "open") <=> n \in after(i)
    BY <1>0, <1>9, <1>10, <1>11, ParamsAreHeld
<1>12. (tracker.open.found \subseteq tracker.open.visited)'
    BY <1>2 DEF OpenInv
<1>13. AssignedOnce' =>
          /\ (tracker.open.tainted \cap scope.params = TaintedParams("open"))'
          /\ (\A n \in tracker.open.tainted \ scope.params :
                 \E k \in tracker.open.visited : Step(k).do = "assign" /\ Step(k).name = n)'
          /\ (\A k \in tracker.open.visited : Settled(k) => Judged(k))'
    BY <1>2, <1>4, <1>5, <1>10
<1>14. AssignedOnce' => (\A n \in DOMAIN holds : GivenBefore(n, at))'
    BY <1>2, <1>5 DEF OpenInv
<1>15. AssignedOnce' /\ Followed("open")' => (\A n \in DOMAIN holds : Untrusted(holds[n], "open") <=> n \in tracker.open.tainted)'
    BY <1>2, <1>5, <1>11 DEF Untrusted
<1> QED  BY <1>2, <1>8, <1>9, <1>12, <1>13, <1>14, <1>15 DEF OpenInv

\* What is bound stays so, wherever the execution goes from the end of a statement.
LEMMA BoundStays ==
    ASSUME FlowsTypeOK, AssignedOnce, NEW i \in DOMAIN scope.body, NEW left, GoOn(i, left), scope' = scope,
           NEW n, GivenBefore(n, i + 1)
    PROVE  GivenBefore(n, at)'
<1>0. /\ Len(scope.body) \in Nat /\ DOMAIN scope.body = 1..Len(scope.body)
      /\ \A k \in DOMAIN scope.body : Step(k).depth \in Nat \ {0} /\ Step(k)' = Step(k)
    BY StatementFields DEF FlowsTypeOK, Step
<1>1. CASE n \in scope.params
    BY <1>1 DEF GivenBefore
<1>2. CASE n \notin scope.params
    <2>1. PICK j \in DOMAIN scope.body : j < i + 1 /\ Binds(j) /\ Step(j).name = n
        BY <1>2 DEF GivenBefore
    <2>2. \/ at' = i + 1
          \/ Step(at').do = "while" /\ at' \in 1..i /\ EndsAt(i, at')
        BY GoneOn DEF FlowsTypeOK
    <2>3. ASSUME NEW h \in 1..i, Step(h).do = "while", EndsAt(i, h)
          PROVE  j < h
        <3>1. h \in DOMAIN scope.body /\ h # j
            BY <1>0, <2>1, <2>3 DEF Binds
        <3>2. Step(j).depth = 1 /\ Step(h).depth >= 1
            BY <1>0, <2>1, <3>1, AssignedOnceMeans
        <3>3. j \notin (h + 1)..i
            BY <2>3, <3>2, <1>0, <3>1 DEF EndsAt, Within
        <3> QED  BY <1>0, <2>1, <3>1, <3>3
    <2>4. j < at'
        BY <2>1, <2>2, <2>3
    <2> QED  BY <1>0, <2>1, <2>4 DEF GivenBefore, Binds
<1> QED  BY <1>1, <1>2

\* What a step preserves that visits nothing in the second analysis.
LEMMA OpenVisitsNothing ==
    ASSUME FlowsTypeOK, OpenInv, scope' = scope, tracker'.open = tracker.open,
           Unvisited("open") # {} => reached' = reached /\ holds' = holds,
           AssignedOnce => \A n \in DOMAIN holds' : GivenBefore(n, at)',
           AssignedOnce /\ Followed("open") =>
               /\ \A n \in DOMAIN holds' : Untrusted(holds'[n], "open") <=> n \in tracker.open.tainted
               /\ \A r \in reached' \ reached :
                      Step(r.at).do = "open" /\ ~ ContainsSanitizer(Step(r.at).value)
                      => (r.at \in tracker.open.found <=> Untrusted(r.from, "open"))
    PROVE  OpenInv'
<1>1. /\ \A k : Step(k)' = Step(k)
      /\ Unvisited("open")' = Unvisited("open") /\ TaintedParams("open")' = TaintedParams("open")
    BY DEF Step, Unvisited, TaintedParams, MarkedParams
<1>2. /\ \A k, l : WalkedBefore(k, l)' <=> WalkedBefore(k, l)
      /\ AssignedOnce' <=> AssignedOnce
      /\ Followed("open")' <=> Followed("open")
    <2>1. \A k, l : WalkedBefore(k, l)' <=> WalkedBefore(k, l)
        BY DEF WalkedBefore, Top, Level, Step, Binds
    <2>2. (AssignedOnce' <=> AssignedOnce) /\ (Followed("open")' <=> Followed("open"))
        BY <1>1 DEF AssignedOnce, Followed, MarkedParams, Binds
    <2> QED  BY <2>1, <2>2
<1>3. /\ \A k : Settled(k)' <=> Settled(k)
      /\ \A k : Judged(k)' <=> Judged(k)
    BY <1>1 DEF Settled, GivenBefore, Judged, source_of, ContainsSanitizer, Binds
<1>4. /\ (\A i \in tracker.open.visited, j \in Unvisited("open") : ~ WalkedBefore(j, i))'
      /\ (tracker.open.found \subseteq tracker.open.visited)'
      /\ (Unvisited("open") # {} => reached = {} /\ holds = [p \in scope.params |-> {p}])'
    BY <1>1, <1>2 DEF OpenInv
<1>5. AssignedOnce' =>
         /\ (tracker.open.tainted \cap scope.params = TaintedParams("open"))'
         /\ (\A n \in tracker.open.tainted \ scope.params :
                \E i \in tracker.open.visited : Step(i).do = "assign" /\ Step(i).name = n)'
         /\ (\A i \in tracker.open.visited : Settled(i) => Judged(i))'
         /\ (\A n \in DOMAIN holds : GivenBefore(n, at))'
    BY <1>1, <1>2, <1>3 DEF OpenInv
<1>6. AssignedOnce' /\ Followed("open")' =>
         /\ (\A n \in DOMAIN holds : Untrusted(holds[n], "open") <=> n \in tracker.open.tainted)'
         /\ (\A r \in reached : Step(r.at).do = "open" /\ ~ ContainsSanitizer(Step(r.at).value)
                                => (r.at \in tracker.open.found <=> Untrusted(r.from, "open")))'
    BY <1>1, <1>2 DEF OpenInv, Untrusted, ContainsSanitizer
<1> QED  BY <1>4, <1>5, <1>6 DEF OpenInv

LEMMA OpenWorks ==
    ASSUME FlowsTypeOK, OpenInv, AssignedOnce, Followed("open"), Analysed, Bound, Step(at).do \in {"assign", "open"}
    PROVE  /\ Judged(at)
           /\ Untrusted(Built(Step(at).value), "open") <=> source_of(Step(at).value, "open", tracker.open.tainted)
<1>1. at \in DOMAIN scope.body
    BY StatementFields DEF FlowsTypeOK, Bound, End
<1>2. at \in tracker.open.visited
    BY <1>1 DEF Analysed, Unvisited
<1>3. \A n \in Names(Step(at).value) : n \in DOMAIN holds
    BY DEF Bound, Needed
<1>4. Settled(at)
    BY <1>3 DEF Settled, OpenInv
<1>5. \A n \in Names(Step(at).value) : Untrusted(holds[n], "open") <=> n \in tracker.open.tainted
    BY <1>3 DEF OpenInv
<1>6. Operators(Step(at).value) \subseteq Propagates["open"] \cup {"escape", "call"}
    BY <1>1 DEF Followed
<1>7. tracker.open.tainted \subseteq PythonNames
    BY DEF FlowsTypeOK
<1>8. Untrusted(Built(Step(at).value), "open") <=> source_of(Step(at).value, "open", tracker.open.tainted)
    BY <1>5, <1>6, <1>7, FollowedValue
<1> QED  BY <1>2, <1>4, <1>8 DEF OpenInv

LEMMA OpenExecution == FlowsTypeOK /\ OpenInv /\ (VisitText \/ Assign \/ CallSink \/ Enter \/ Leave \/ Raise) => OpenInv'
<1> SUFFICES ASSUME FlowsTypeOK, OpenInv, VisitText \/ Assign \/ CallSink \/ Enter \/ Leave \/ Raise
             PROVE  OpenInv'
    OBVIOUS
<1>0. /\ Len(scope.body) \in Nat /\ DOMAIN scope.body = 1..Len(scope.body) /\ scope \in Scopes
      /\ at \in 1..End /\ End = Len(scope.body) + 1
    BY StatementFields DEF FlowsTypeOK, End
<1>1. CASE VisitText
    <2>1. PICK i, tainted, found : Visited("eval", i, tainted, found)
        BY <1>1 DEF VisitText
    <2>2. /\ scope' = scope /\ at' = at /\ holds' = holds /\ reached' = reached /\ tracker'.open = tracker.open
        BY <2>1, VisitedFields
    <2>3. \A n : GivenBefore(n, at)' <=> GivenBefore(n, at)
        BY <2>2 DEF GivenBefore, Step, Binds
    <2> QED  BY <2>2, <2>3, OpenVisitsNothing DEF OpenInv
<1>2. CASE Assign
    <2>0. /\ scope' = scope /\ tracker' = tracker /\ reached' = reached /\ Unvisited("open") = {}
          /\ Binds(at) /\ at \in DOMAIN scope.body
        BY <1>0, <1>2 DEF Assign, Bound, Analysed
    <2>1. DOMAIN holds' = DOMAIN holds \cup {Step(at).name}
        BY <1>2 DEF Assign
    <2>2. ASSUME AssignedOnce, NEW n \in DOMAIN holds'
          PROVE  GivenBefore(n, at)'
        <3>1. PICK here : here = at
            OBVIOUS
        <3>2. GivenBefore(n, here + 1)
            BY <1>0, <2>0, <2>1, <2>2, <3>1 DEF OpenInv, GivenBefore
        <3> QED  BY <1>2, <2>0, <2>2, <3>1, <3>2, BoundStays DEF Assign
    <2>3. ASSUME AssignedOnce, Followed("open"), NEW n \in DOMAIN holds'
          PROVE  Untrusted(holds'[n], "open") <=> n \in tracker.open.tainted
        <3>1. CASE n = Step(at).name /\ Step(at).do = "assign"
            BY <1>2, <2>0, <2>3, <3>1, OpenWorks DEF Assign, Judged
        <3>3. CASE n = Step(at).name /\ Step(at).do = "bind"
            <4>1. n \notin scope.params /\ n \notin tracker.open.tainted
                BY <2>0, <2>3, <3>3, AssignedOnceMeans DEF OpenInv, FlowsTypeOK, Binds
            <4>2. n \notin DOMAIN holds
                BY <1>0, <2>0, <2>3, <3>3, <4>1, AssignedOnceMeans DEF OpenInv, GivenBefore
            <4>3. ~ Untrusted(Built(Step(at).value), "open")
                BY <1>2, <2>3, <3>3, <4>2, BoundToItself DEF Assign
            <4> QED  BY <1>2, <3>3, <4>1, <4>3 DEF Assign
        <3>2. CASE n # Step(at).name
            <4>1. n \in DOMAIN holds /\ holds'[n] = holds[n]
                BY <1>2, <2>3, <3>2 DEF Assign
            <4> QED  BY <2>3, <4>1 DEF OpenInv
        <3> QED  BY <2>0, <3>1, <3>2, <3>3 DEF Binds
    <2> QED  BY <2>0, <2>2, <2>3, OpenVisitsNothing
<1>3. CASE CallSink
    <2>0. /\ scope' = scope /\ tracker' = tracker /\ holds' = holds /\ Unvisited("open") = {} /\ at \in DOMAIN scope.body
        BY <1>0, <1>3 DEF CallSink, Bound, Analysed
    <2>1. ASSUME AssignedOnce, NEW n \in DOMAIN holds'
          PROVE  GivenBefore(n, at)'
        <3>1. PICK here : here = at
            OBVIOUS
        <3>2. GivenBefore(n, here + 1)
            BY <1>0, <2>0, <2>1, <3>1 DEF OpenInv, GivenBefore
        <3> QED  BY <1>3, <2>0, <2>1, <3>1, <3>2, BoundStays DEF CallSink
    <2>2. ASSUME AssignedOnce, Followed("open"), NEW r \in reached' \ reached,
                 Step(r.at).do = "open", ~ ContainsSanitizer(Step(r.at).value)
          PROVE  r.at \in tracker.open.found <=> Untrusted(r.from, "open")
        <3>1. r.at = at /\ r.from = Built(Step(at).value)
            BY <1>3, <2>2 DEF CallSink
        <3> QED  BY <1>3, <2>2, <3>1, OpenWorks DEF CallSink, Judged
    <2> QED  BY <2>0, <2>1, <2>2, OpenVisitsNothing DEF OpenInv
<1>4. CASE Enter
    <2>0. /\ scope' = scope /\ tracker' = tracker /\ holds' = holds /\ reached' = reached /\ at' = at + 1
        BY <1>4 DEF Enter
    <2>1. ASSUME AssignedOnce, NEW n \in DOMAIN holds'
          PROVE  GivenBefore(n, at)'
        BY <1>0, <2>0, <2>1 DEF OpenInv, GivenBefore, Step, Binds
    <2> QED  BY <2>0, <2>1, OpenVisitsNothing DEF OpenInv
<1>5. CASE Leave
    <2>0. /\ scope' = scope /\ tracker' = tracker /\ holds' = holds /\ reached' = reached
        BY <1>5 DEF Leave
    <2>1. PICK i \in DOMAIN scope.body : EndsAt(i, at) /\ GoOn(i, {at})
        BY <1>5 DEF Leave
    <2>2. at < i + 1
        BY <1>0, <2>1 DEF EndsAt, Within
    <2>3. ASSUME AssignedOnce, NEW n \in DOMAIN holds'
          PROVE  GivenBefore(n, at)'
        <3>1. GivenBefore(n, at)
            BY <2>0, <2>3 DEF OpenInv
        <3>2. GivenBefore(n, i + 1)
            BY <1>0, <2>2, <3>1 DEF GivenBefore
        <3> QED  BY <2>0, <2>1, <2>3, <3>2, BoundStays
    <2> QED  BY <2>0, <2>3, OpenVisitsNothing DEF OpenInv
<1>6. CASE Raise
    <2>0. /\ scope' = scope /\ tracker' = tracker /\ holds' = holds /\ reached' = reached /\ at' = End /\ at < End
        BY <1>6 DEF Raise
    <2>1. ASSUME AssignedOnce, NEW n \in DOMAIN holds'
          PROVE  GivenBefore(n, at)'
        BY <1>0, <2>0, <2>1 DEF OpenInv, GivenBefore, Step, Binds
    <2> QED  BY <2>0, <2>1, OpenVisitsNothing DEF OpenInv
<1> QED  BY <1>1, <1>2, <1>3, <1>4, <1>5, <1>6

-----------------------------------------------------------------------------
\* UntrustedSinksAreReported.  The two analyses of data flow, for any code: an eval
\* of untrusted data is reported as critical, whatever branches the execution takes
\* to it, unless it goes through a loop once more; where every name is assigned
\* once, outside of any block, an open is reported exactly if it is one of
\* untrusted data.
THEOREM UntrustedDataIsReported == FlowsSpec => []UntrustedSinksAreReported
<1>1. FlowsInit => FlowsTypeOK /\ EvalInv /\ OpenInv
    BY FlowsInitially, OpenInitially
<1>2. FlowsTypeOK /\ EvalInv /\ OpenInv /\ [FlowsNext]_flowVars => (FlowsTypeOK /\ EvalInv /\ OpenInv)'
    <2> SUFFICES ASSUME FlowsTypeOK, EvalInv, OpenInv, [FlowsNext]_flowVars
                 PROVE  EvalInv' /\ OpenInv'
        BY FlowsType
    <2>1. CASE VisitText
        BY <2>1, EvalVisit, OpenExecution
    <2>2. CASE VisitWalk
        BY <2>2, EvalExecution, OpenVisit
    <2>3. CASE Assign \/ CallSink \/ Enter \/ Leave \/ Raise
        BY <2>3, EvalExecution, OpenExecution
    <2>4. CASE UNCHANGED flowVars
        <3>1. /\ scope' = scope /\ tracker' = tracker /\ at' = at /\ again' = again /\ passed' = passed
              /\ holds' = holds /\ reached' = reached
            BY <2>4 DEF flowVars, executionVars
        <3>2. \A taint : MarkedIfUntrusted(taint) => MarkedIfUntrusted(taint)'
            BY <3>1 DEF MarkedIfUntrusted, Been, EndsAt, Within, DepthAfter, Step, End, Untrusted
        <3>3. \A n : GivenBefore(n, at)' <=> GivenBefore(n, at)
            BY <3>1 DEF GivenBefore, Step, Binds
        <3>4. EvalInv'
            BY <3>1, <3>2, EvalVisitsNothing
        <3>5. OpenInv'
            BY <3>1, <3>3, OpenVisitsNothing DEF OpenInv
        <3> QED  BY <3>4, <3>5
    <2> QED  BY <2>1, <2>2, <2>3, <2>4 DEF FlowsNext
<1>3. EvalInv /\ OpenInv => UntrustedSinksAreReported
    BY DEF EvalInv, OpenInv, UntrustedSinksAreReported
<1> QED  BY <1>1, <1>2, <1>3, PTL DEF FlowsSpec
=============================================================================
