---------------------------- MODULE MCPythonFlows ----------------------------
(* PythonFlows on a small instance: scopes of up to four statements.          *)
EXTENDS PythonFlows, TLC

N(name) == {[ops |-> {}, leaf |-> name]}
E(op, e) == {[b EXCEPT !.ops = @ \cup {op}] : b \in e}

Sets(name, value) == [do |-> "assign", name |-> name, value |-> value]
Rebinds(name, value) == [do |-> "bind", name |-> name, value |-> value]
Sink(do, value) == [do |-> do, value |-> value]
At(depth, s) == s @@ [depth |-> depth]

Statements ==
    {Sets("x", e) : e \in {{Input}, {Literal}, N("data"), E("escape", N("x")),
                              E("if-else", {Literal} \cup N("untrusted"))}}
    \cup {Sets("y", e) : e \in {N("x"), E("call", N("x")), E("str", N("x"))}}
    \cup {Rebinds("x", E("+", {Literal} \cup N("x")))}
    \cup {Sink(do, N(n)) : do \in {"eval", "open"}, n \in {"x", "y"}}
    \cup {Sink("open", E("+", E("escape", N("x")) \cup N("y")))}
Headers == {[do |-> "if"], [do |-> "while"]}

Straight == {<<At(1, s), At(1, t), At(1, u)>> : s, t, u \in Statements}
Blocks ==
    {<<At(1, s), At(1, h), At(2, t), At(d, u)>> : s, t, u \in Statements, h \in Headers, d \in {1, 2}}
    \cup {<<At(1, g), At(2, h), At(3, s), At(d, t)>> :
              g, h \in Headers, s, t \in Statements, d \in {1, 2, 3}}

\* What the analyses do not follow: an untrusted element of a list, a statement that
\* is no plain assignment, and an untrusted parameter of another kind.
Unfollowed ==
    {<<At(1, Sets("x", E(op, N("data")))), At(1, Sets("x", E("display", N("x")))), At(1, Sink(do, N("x")))>> :
        op \in {"[]", "element"}, do \in {"eval", "open"}}
    \cup {<<At(1, Rebinds("y", N("data"))), At(1, Sink(do, N("y")))>> : do \in {"eval", "open"}}
    \cup {<<At(1, Sink(do, N("data")))>> : do \in {"eval", "open"}}

\* A module, and def f(self, /, data, *, untrusted); def f(data) in all kinds.
InModule == [kind |-> "module", params |-> {}, positional |-> {}, keyword |-> {}]
InFunction == [kind |-> "function", params |-> {"self", "data", "untrusted"},
               positional |-> {"self"}, keyword |-> {"untrusted"}]
MCScopes ==
    {s @@ [body |-> b] : s \in {InModule, InFunction}, b \in Straight \cup Blocks}
    \cup {[kind |-> "function", params |-> {"data"}, positional |-> kinds[1], keyword |-> kinds[2], body |-> b] :
              kinds \in {<<{}, {}>>, <<{"data"}, {}>>, <<{}, {"data"}>>}, b \in Unfollowed}
=============================================================================
