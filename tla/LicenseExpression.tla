---------------------------- MODULE LicenseExpression ----------------------------
(***************************************************************************)
(* Licence expressions (core/spdx_expr.py) and what the licence engine     *)
(* reports of them (scanners/sbom.py).  A text is the sequence of its      *)
(* tokens: identifiers, parentheses and operators; "/" and "," have been   *)
(* read as OR.  <<>> stands for a licence that nobody stated.              *)
(***************************************************************************)
EXTENDS Naturals, FiniteSets, Sequences

CONSTANTS
    Expressions,    \* what a dependency may state: its text, and what it leaves to choose
    LicenseLists    \* the lists that may be in force, with unknown_action

VARIABLE verdict    \* what was checked last, against which lists, and its findings

LicenseOperators == {"OR", "AND", "WITH"}
LicenseParentheses == {"(", ")"}

\* What follows WITH, parentheses aside, is an exception.
AfterWith(text, i) ==
    \E j \in 1..(i - 1) :
        text[j] = "WITH" /\ \A k \in (j + 1)..(i - 1) : text[k] \in LicenseParentheses

\* Where a text names a licence.
LicencePlaces(text) ==
    {i \in DOMAIN text : text[i] \notin LicenseOperators \cup LicenseParentheses
                            /\ ~ AfterWith(text, i)}

\* parse_expression.  Parentheses are dropped, and identifiers may follow each
\* other without an operator; an expression with both AND and OR is an error
\* whether it has parentheses or not.
parse_expression(text) ==
    LET ids == {text[i] : i \in LicencePlaces(text)}
        operators == {text[i] : i \in DOMAIN text} \cap {"OR", "AND"}
    IN  [ids |-> ids,
         operator |-> CASE "AND" \in operators -> "AND"
                        [] operators = {"OR"} -> "OR"
                        [] OTHER -> "NONE",
         is_unknown |-> \/ ids = {}
                        \/ operators = {"OR", "AND"}
                        \/ \E i \in DOMAIN text : text[i] \in LicenseOperators /\ AfterWith(text, i)]

-----------------------------------------------------------------------------
\* The first that applies; what no list names is unknown.
classify_single(id, lists) ==
    IF id \in lists.blocked THEN "blocked"
    ELSE IF id \in lists.warning THEN "warning"
    ELSE IF id \in lists.allowed THEN "allowed" ELSE "unknown"

CLASSIFICATION_ORDER == <<"allowed", "warning", "unknown", "blocked">>

PositionOf(c) == CHOOSE i \in DOMAIN CLASSIFICATION_ORDER : CLASSIFICATION_ORDER[i] = c

MostPermissive(classes) ==
    CHOOSE c \in classes : \A d \in classes : PositionOf(c) <= PositionOf(d)
Strictest(classes) ==
    CHOOSE c \in classes : \A d \in classes : PositionOf(d) <= PositionOf(c)

\* Fault: a list of licences without an operator leaves the choice.
OnlyAndBinds(operator) == operator # "AND"

\* OR leaves the choice; AND, and identifiers in a row, do not.
LeavesChoice(operator) == operator = "OR"

\* LicensePolicySets.classify: unknown_action decides on what cannot be read, not
\* on an identifier that is on no list.
classify_expression(text, lists) ==
    LET expression == parse_expression(text)
        classes == {classify_single(id, lists) : id \in expression.ids}
    IN  IF expression.is_unknown
        THEN [warn |-> "unknown", block |-> "blocked", allow |-> "allowed"][lists.unknown_action]
        ELSE IF LeavesChoice(expression.operator) THEN MostPermissive(classes)
        ELSE Strictest(classes)

\* scan_license_compliance: the rule that reports a licence, and how severely.
license_finding(text, lists) ==
    CASE classify_expression(text, lists) = "unknown" ->
             {[rule |-> "LICENSE-UNKNOWN",
               severity |-> IF lists.unknown_action = "block" THEN "medium" ELSE "low"]}
      [] classify_expression(text, lists) = "blocked" ->
             {[rule |-> "LICENSE-COPYLEFT-DEPENDENCY", severity |-> "high"]}
      [] classify_expression(text, lists) = "warning" ->
             {[rule |-> "LICENSE-REVIEW-REQUIRED", severity |-> "low"]}
      [] OTHER -> {}
-----------------------------------------------------------------------------
LicenseInit == verdict = [findings |-> {}]

CheckLicense(expression, lists) ==
    /\ verdict = [findings |-> {}]
    /\ verdict' = [expression |-> expression, lists |-> lists,
                findings |-> license_finding(expression.text, lists)]

LicenseNext == \E expression \in Expressions, lists \in LicenseLists : CheckLicense(expression, lists)

LicenseSpec == LicenseInit /\ [][LicenseNext]_verdict

-----------------------------------------------------------------------------
\* What an expression means: the sets of licences of which its user has to
\* comply with one, whatever the way in which it is written down.  Licences in a
\* row are not SPDX; they are all meant.
Licence(id) == [text |-> <<id>>, choices |-> {{id}}, spdx |-> TRUE]
With(l, exception) == [l EXCEPT !.text = @ \o <<"WITH", exception>>]
InParentheses(l) == [l EXCEPT !.text = <<"(">> \o @ \o <<")">>]
Or(l, m) == [text |-> l.text \o <<"OR">> \o m.text, choices |-> l.choices \cup m.choices,
             spdx |-> l.spdx /\ m.spdx]
Both(l, m) == {x \cup y : x \in l.choices, y \in m.choices}
And(l, m) == [text |-> l.text \o <<"AND">> \o m.text, choices |-> Both(l, m),
              spdx |-> l.spdx /\ m.spdx]
Row(l, m) == [text |-> l.text \o m.text, choices |-> Both(l, m), spdx |-> FALSE]
NoExpression(text) == [text |-> text, choices |-> {}, spdx |-> FALSE]

IsChecked == "lists" \in DOMAIN verdict

\* One can choose licences that are all allowed.
Lawful(expression, lists) == \E choice \in expression.choices : choice \subseteq lists.allowed

\* "Treating an unparseable value as permissive is how copyleft ends up in a
\* shipped product": an SPDX expression, or a text that offers no choice, is passed
\* over in silence only if one can choose licences of it that are all allowed, or
\* if the text is not understood and unknown_action allows that; and what can be
\* used so is called blocked only if unknown_action blocks.
SilenceMeansAllowed ==
    IsChecked =>
        LET expression == verdict.expression
            lists == verdict.lists
            lawful == Lawful(expression, lists)
            ignored == /\ lists.unknown_action = "allow"
                       /\ parse_expression(expression.text).is_unknown
        IN  expression.spdx \/ (\A i \in DOMAIN expression.text : expression.text[i] # "OR") =>
                /\ verdict.findings = {} => lawful \/ ignored
                /\ lawful /\ lists.unknown_action # "block" =>
                      \A f \in verdict.findings : f.severity # "high"

\* "Anything unparseable or missing is unknown and is never mapped to permissive"
\* (core/spdx_expr.py:16): a text that is not SPDX is reported, unless all that it
\* leaves to choose is allowed or unknown_action is allow.  It is not so: licences
\* in a row are read as all meant, and next to an OR as a choice among all.
UnparseableIsReported ==
    IsChecked /\ ~ verdict.expression.spdx /\ verdict.lists.unknown_action # "allow"
              /\ ~ Lawful(verdict.expression, verdict.lists)
        => verdict.findings # {}

\* "Even then the finding is still reported" (core/spdx_expr.py:135, of a text that
\* is not understood where unknown_action is allow).  It is not.
IgnoredIsReported ==
    IsChecked /\ parse_expression(verdict.expression.text).is_unknown => verdict.findings # {}
=============================================================================
