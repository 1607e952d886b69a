------------------------------ MODULE MCCommandLine ------------------------------
(* CommandLine on a small instance: a secret, a bad licence and a vulnerable   *)
(* dependency.                                                                 *)
EXTENDS CommandLine

Reports(rule, severity, engine, category, about) ==
    [fingerprint |-> rule, rule |-> rule, path |-> <<"lib", rule>>, severity |-> severity,
     confidence |-> "medium", engine |-> engine, category |-> category, about |-> about]

Hole == Reports("hole", "critical", "ast-python", "injection", Nothing)
Token == Reports("token", "info", "secrets", "entropy", 40)
Package ==
    Reports("package", "low", "dependency", "vulnerable-dependency",
            [ecosystem |-> "python", name |-> "left"])
MCReportable == {Hole, Token, Package}

MCSettings ==
    {[project |-> <<>>, environment |-> <<>>, organization |-> <<>>],
     [project |-> [baseline_file |-> "shared", enabled_engines |-> KNOWN_ENGINES],
      environment |-> [min_severity |-> "low"], organization |-> <<>>],
     [project |-> <<>>, environment |-> <<>>, organization |-> [advisory_source |-> Wrong]]}

MCFirstFiles == [shared |-> FlatList({"hole"}), reports |-> Malformed]

Strict == [severity_gates |-> [low |-> 0], fail_on |-> "none", engines_enabled |-> {"dependency"},
           entropy_threshold |-> 39]
Lenient == [ignore_rules |-> {"hole"}, severity_overrides |-> [token |-> "high"],
            baseline_path |-> "reports"]
MCPolicyFiles == {Strict, Lenient, [fail_on |-> Wrong]}

MCOptions ==
    LET any == [NoOptions EXCEPT !.fail_on = "any"]
    IN  {any, [any EXCEPT !.baseline_file = "shared"],
         [any EXCEPT !.baseline_file = "shared", !.update_baseline = TRUE],
         [NoOptions EXCEPT !.max_risk_score = 0, !.baseline_file = "shared"],
         [NoOptions EXCEPT !.policy = Strict, !.min_severity = "low"],
         [NoOptions EXCEPT !.policy = Lenient, !.ignore_rules = {"package"}],
         [NoOptions EXCEPT !.policy = [fail_on |-> Wrong]]}
=============================================================================
