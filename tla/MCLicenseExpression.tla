-------------------------- MODULE MCLicenseExpression --------------------------
(* LicenseExpression on a small instance: expressions of up to three licences. *)
EXTENDS LicenseExpression

LicenceIds == {"MIT", "MPL-2.0", "GPL-3.0", "Ruby"}
Leaves == {Licence(id) : id \in LicenceIds} \cup {With(Licence("GPL-3.0"), "Classpath")}
Pairs == {Or(l, m) : l, m \in Leaves} \cup {And(l, m) : l, m \in Leaves}
Rows == {Row(l, m) : l, m \in Leaves}
Firsts == {Licence(id) : id \in {"MIT", "MPL-2.0", "GPL-3.0"}}
MCExpressions ==
    Leaves \cup Pairs \cup Rows
    \cup {And(l, InParentheses(p)) : l \in Firsts, p \in Pairs \cup Rows}
    \cup {Or(l, InParentheses(p)) : l \in Firsts, p \in Pairs}
    \cup {Or(l, r) : l \in Firsts, r \in Rows} \cup {And(l, r) : l \in Firsts, r \in Rows}
    \cup {NoExpression(<<>>), NoExpression(<<"WITH", "OR", "MIT">>), NoExpression(<<"(", ")">>)}

\* default_policy, and an organization that has come to terms with the GPL.
MCLicenseLists ==
    {[allowed |-> IF terms THEN {"MIT", "GPL-3.0"} ELSE {"MIT"}, warning |-> {"MPL-2.0"},
      blocked |-> IF terms THEN {} ELSE {"GPL-3.0"}, unknown_action |-> action] :
        terms \in BOOLEAN, action \in {"warn", "block", "allow"}}
=============================================================================
