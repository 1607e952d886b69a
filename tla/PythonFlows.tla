------------------------------- MODULE PythonFlows -------------------------------
(***************************************************************************)
(* The two analyses of data flow in Python code, FunctionTaintVisitor      *)
(* (scanners/ast_python.py) and FlowTracker (scanners/python_flows.py),    *)
(* next to an execution of the code that they analyse.                     *)
(*                                                                         *)
(* A scope is the body of a function or of a module: its statements in the *)
(* order of the text.  A statement has a depth, 1 at the top; the deeper   *)
(* ones after an "if" or a "while" are its body.  eval stands for the      *)
(* sinks of the first analysis, open for those of the second.  "assign" is *)
(* name = value, "bind" any other statement that binds a name: annotated,  *)
(* augmented or of several targets.  Functions in functions, else branches *)
(* and attributes are left out.                                            *)
(***************************************************************************)
EXTENDS Integers, Sequences, FiniteSets

CONSTANTS Scopes    \* [kind, params, positional, keyword, body]: the scopes that may be
                    \* analysed; of all params, those that are positional-only (or * and
                    \* **), and keyword-only

VARIABLES
    scope,      \* the scope that is analysed and executed
    tracker,    \* for each sink its analysis: the statements visited, the names
                \* tainted, and the sinks found
    at,         \* the statement that is executed next
    again,      \* whether the body of a loop is executed once more
    passed,     \* the loops whose body has been executed
    holds,      \* for each name bound: the sources its value was built from
    reached     \* the sinks executed: [at, from, again]

executionVars == <<at, again, passed, holds, reached>>
flowVars == <<scope, tracker, executionVars>>

Hinted == [eval |-> {"request", "req", "user_input", "raw_input", "payload", "data"},
           open |-> {"user_input", "raw_input", "user_data", "user_path", "user_url", "untrusted",
                     "attacker", "request_body", "request_data", "client_input",
                     "filename_from_user", "user_filename"}]

-----------------------------------------------------------------------------
(***************************************************************************)
(* The expressions.  One is the set of its branches: a name, a source or a *)
(* literal, and the operators above it.  "input()" is any modelled source, *)
(* "literal" a constant, or a list, tuple or dict of such; "display" is a   *)
(* list, tuple or dict that is the whole value, "element" one within it;    *)
(* "escape" is any modelled sanitizer, "call" a call of any other function. *)
(***************************************************************************)
Input == [ops |-> {}, leaf |-> "input()"]
Literal == [ops |-> {}, leaf |-> "literal"]
Operators(e) == UNION {b.ops : b \in e}
Names(e) == {b.leaf : b \in e} \ {Input.leaf, Literal.leaf}

PythonNames == STRING \ {Input.leaf, Literal.leaf}
Expression == SUBSET [ops : SUBSET STRING, leaf : STRING]
Statement ==
    [do : {"assign", "bind"}, name : PythonNames, value : Expression, depth : Nat \ {0}]
    \cup [do : {"eval", "open"}, value : Expression, depth : Nat \ {0}]
    \cup [do : {"if", "while"}, depth : Nat \ {0}]

ASSUME ScopesAssumption ==
    \A s \in Scopes :
        /\ s.body \in Seq(Statement)
        /\ s.params \subseteq PythonNames
        /\ s.positional \subseteq s.params /\ s.keyword \subseteq s.params \ s.positional

-----------------------------------------------------------------------------
(***************************************************************************)
(* The analyses.                                                           *)
(***************************************************************************)
Propagates == [eval |-> {"[]", "+", "f-string", "format"},
               open |-> {"[]", "+", "f-string", "str", "if-else", "get", "*"}]

\* _is_tainted_expr and source_of: whether an expression has an untrusted origin.
source_of(e, sink, tainted) ==
    \E b \in e : b.ops \subseteq Propagates[sink] /\ b.leaf \in {Input.leaf} \cup tainted

ContainsSanitizer(e) == "escape" \in Operators(e)

\* _mark_param_tainted, mark_tainted_params: by its exact name, the first only
\* ordinary parameters, the second keyword-only ones too.  Only functions have
\* parameters.
MarkedParams(sink) ==
    scope.params \ (scope.positional \cup IF sink = "eval" THEN scope.keyword ELSE {})
TaintedParams(sink) == MarkedParams(sink) \cap Hinted[sink]

Step(i) == scope.body[i]

\* Fault: an assignment of anything trusted clears the name.
Forgetting(tainted, s) ==
    IF source_of(s.value, "eval", tainted) THEN tainted \cup {s.name} ELSE tainted \ {s.name}

\* FunctionTaintVisitor.visit_Assign: nothing clears a name ...
visit_Assign(tainted, s) ==
    IF source_of(s.value, "eval", tainted) THEN tainted \cup {s.name} ELSE tainted

\* ... FlowTracker.visit_assign: a literal does, whatever its elements.
IsLiteral(e) == e = {Literal} \/ \A b \in e : "display" \in b.ops
visit_assign(tainted, s) ==
    IF source_of(s.value, "open", tainted) THEN tainted \cup {s.name}
    ELSE IF IsLiteral(s.value) THEN tainted \ {s.name}
    ELSE tainted

Unvisited(sink) == DOMAIN scope.body \ tracker[sink].visited

Visited(sink, i, tainted, found) ==
    /\ tracker' = [tracker EXCEPT ![sink] = [visited |-> @.visited \cup {i}, tainted |-> tainted,
                                            found |-> @.found \cup found]]
    /\ UNCHANGED <<scope, executionVars>>

\* scan_python_file visits the statements in the order of the text.  It reports
\* every eval, as critical where it finds its argument tainted.
VisitText ==
    LET tainted == tracker.eval.tainted
    IN  \E i \in Unvisited("eval") :
            /\ \A j \in Unvisited("eval") : i <= j
            /\ Visited("eval", i,
                       IF Step(i).do = "assign" THEN visit_Assign(tainted, Step(i)) ELSE tainted,
                       {k \in {i} : Step(k).do = "eval" /\ source_of(Step(k).value, "eval", tainted)})

\* ast.walk goes level by level, and the call that a statement makes is a level
\* below the statement.  scan_python_flows walks a function as a whole, and a
\* module by statements of its top level.
Binds(i) == Step(i).do \in {"assign", "bind"}
Level(i) == IF Binds(i) THEN Step(i).depth ELSE Step(i).depth + 1
Top(i) == IF scope.kind = "function" THEN 0 ELSE Cardinality({j \in 1..i : Step(j).depth = 1})
WalkedBefore(i, j) ==
    \/ Top(i) < Top(j)
    \/ Top(i) = Top(j) /\ Level(i) < Level(j)
    \/ Top(i) = Top(j) /\ Level(i) = Level(j) /\ i < j

\* What scan_python_flows does next, after scan_python_file: a sink whose argument
\* has a sanitizer anywhere is passed over.
VisitWalk ==
    LET tainted == tracker.open.tainted
    IN  /\ Unvisited("eval") = {}
        /\ \E i \in Unvisited("open") :
            /\ \A j \in Unvisited("open") \ {i} : WalkedBefore(i, j)
            /\ Visited("open", i,
                       IF Step(i).do = "assign" THEN visit_assign(tainted, Step(i)) ELSE tainted,
                       {k \in {i} : /\ Step(k).do = "open" /\ ~ ContainsSanitizer(Step(k).value)
                                    /\ source_of(Step(k).value, "open", tainted)})

-----------------------------------------------------------------------------
(***************************************************************************)
(* The execution, which the analyses precede.                              *)
(***************************************************************************)
FlowsInit ==
    /\ scope \in Scopes
    /\ tracker = [sink \in {"eval", "open"} |->
                     [visited |-> {}, tainted |-> TaintedParams(sink), found |-> {}]]
    /\ at = 1 /\ again = FALSE /\ passed = {} /\ reached = {}
    /\ holds = [p \in scope.params |-> {p}]

\* The sources a value may be built from.
Origins(leaf) ==
    IF leaf = Input.leaf THEN {leaf} ELSE IF leaf = Literal.leaf THEN {} ELSE holds[leaf]
Built(e) == UNION {Origins(b.leaf) : b \in {x \in e : x.ops \cap {"escape", "call"} = {}}}

End == Len(scope.body) + 1

Within(i, header) == i > header /\ \A j \in (header + 1)..i : Step(j).depth > Step(header).depth
DepthAfter(i) == IF i + 1 = End THEN 0 ELSE Step(i + 1).depth
EndsAt(i, header) == Within(i, header) /\ DepthAfter(i) <= Step(header).depth

\* On from statement i: back to the innermost of the loops that end there, or on
\* with the text.
GoOn(i, left) ==
    LET loops == {h \in 1..i : Step(h).do = "while" /\ EndsAt(i, h)} \ left
    IN  /\ passed' = passed \cup loops
        /\ \/ loops = {} /\ at' = i + 1
           \/ at' \in loops /\ \A h \in loops : h <= at'

Needed(i) == IF Step(i).do \in {"if", "while"} THEN {} ELSE Names(Step(i).value)
Analysed == Unvisited("eval") = {} /\ Unvisited("open") = {}
Bound == at < End /\ Needed(at) \subseteq DOMAIN holds

Assign ==
    /\ Analysed /\ Bound /\ Binds(at)
    /\ holds' = [n \in DOMAIN holds \cup {Step(at).name} |->
                    IF n = Step(at).name THEN Built(Step(at).value) ELSE holds[n]]
    /\ GoOn(at, {})
    /\ UNCHANGED <<scope, tracker, again, reached>>

CallSink ==
    /\ Analysed /\ Bound /\ Step(at).do \in {"open", "eval"}
    /\ reached' = reached \cup {[at |-> at, from |-> Built(Step(at).value), again |-> again]}
    /\ GoOn(at, {})
    /\ UNCHANGED <<scope, tracker, again, holds>>

\* At the header of a block its body is executed, or left out.
Enter ==
    /\ Analysed /\ Bound /\ Step(at).do \in {"if", "while"}
    /\ at' = at + 1
    /\ again' = (again \/ at \in passed)
    /\ UNCHANGED <<scope, tracker, passed, holds, reached>>
Leave ==
    /\ Analysed /\ Bound /\ Step(at).do \in {"if", "while"}
    /\ \E i \in DOMAIN scope.body : EndsAt(i, at) /\ GoOn(i, {at})
    /\ UNCHANGED <<scope, tracker, again, holds, reached>>

\* A name that is not bound raises, which ends the execution.
Raise ==
    /\ Analysed /\ at < End /\ ~ Bound
    /\ at' = End
    /\ UNCHANGED <<scope, tracker, again, passed, holds, reached>>

FlowsNext == VisitText \/ VisitWalk \/ Assign \/ CallSink \/ Enter \/ Leave \/ Raise

FlowsSpec == FlowsInit /\ [][FlowsNext]_flowVars

-----------------------------------------------------------------------------
(***************************************************************************)
(* Properties.                                                             *)
(***************************************************************************)
\* Whether the data of the scope flows as an analysis can follow: the parameters
\* that are untrusted by their names are of the kinds that it marks, a statement
\* that it does not look at adds nothing to what a name holds, and all other values
\* are built with the operators that it knows.
Followed(sink) ==
    /\ scope.params \cap Hinted[sink] \subseteq MarkedParams(sink)
    /\ \A i \in DOMAIN scope.body :
          /\ Step(i).do = "bind" => \A b \in Step(i).value : b.leaf \in {Literal.leaf, Step(i).name}
          /\ Step(i).do \in {"assign", sink}
                => Operators(Step(i).value) \subseteq Propagates[sink] \cup {"escape", "call"}

Untrusted(origins, sink) == origins \cap ({Input.leaf} \cup Hinted[sink]) # {}

\* Every name is assigned once, and outside of any block.
AssignedOnce ==
    LET assigned == {i \in DOMAIN scope.body : Binds(i)}
    IN  \A i \in assigned :
            /\ Step(i).depth = 1 /\ Step(i).name \notin scope.params
            /\ \A j \in assigned \ {i} : Step(j).name # Step(i).name

\* What the two analyses are for: an eval of untrusted data is reported as
\* critical, whatever branches the execution takes to it, unless it goes through a
\* loop once more; where every name is assigned once, outside of any block, an
\* open is reported exactly if it is one of untrusted data.
UntrustedSinksAreReported ==
    \A r \in reached :
        /\ Step(r.at).do = "eval" /\ Followed("eval") /\ ~ r.again /\ Untrusted(r.from, "eval")
           => r.at \in tracker.eval.found
        /\ /\ Step(r.at).do = "open" /\ Followed("open") /\ AssignedOnce
           /\ ~ ContainsSanitizer(Step(r.at).value)
           => (r.at \in tracker.open.found <=> Untrusted(r.from, "open"))

\* "constant-only flows never produce a finding" (scanners/python_flows.py:11).
ConstantFlowsAreSilent ==
    \A r \in reached : Step(r.at).do = "open" /\ r.at \in tracker.open.found => r.from # {}
=============================================================================
