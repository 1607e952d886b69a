--------------------------------- MODULE MCTool ---------------------------------
(* The command line, and three of its engines with their own data, on small    *)
(* instances: one run checks each of them by itself, the first state says      *)
(* which.                                                                      *)
EXTENDS MCCommandLine, MCDependencyScan, MCLicenseExpression, MCPythonFlows

VARIABLE part

\* The parts that are not at work are in one state.
Rests(p, f) == part # p => f

NoFlows ==
    /\ scope = [kind |-> "module", params |-> {}, body |-> <<>>]
    /\ tracker = [sink \in {"eval", "open"} |-> [visited |-> {}, tainted |-> {}, found |-> {}]]
    /\ at = 1 /\ again = FALSE /\ passed = {} /\ holds = <<>> /\ reached = {}

ToolInit ==
    /\ part \in {"commands", "dependencies", "licences", "flows"}
    /\ CommandInit /\ (part = "commands" <=> code = Reportable)
                   /\ Rests("commands", layers = CHOOSE s \in Settings : TRUE)
                   /\ Rests("commands", licensed_until = Nothing)
    /\ DependencyInit /\ Rests("dependencies", tree = CHOOSE t \in Trees : TRUE)
                      /\ Rests("dependencies", feed = <<>>)
    /\ LicenseInit
    /\ IF part = "flows" THEN FlowsInit ELSE NoFlows

ToolNext ==
    \/ /\ part = "commands" /\ CommandNext
       /\ UNCHANGED <<dependencyVars, verdict, flowVars, part>>
    \/ /\ part = "dependencies" /\ DependencyNext
       /\ UNCHANGED <<commandVars, verdict, flowVars, part>>
    \/ /\ part = "licences" /\ LicenseNext
       /\ UNCHANGED <<commandVars, dependencyVars, flowVars, part>>
    \/ /\ part = "flows" /\ FlowsNext
       /\ UNCHANGED <<commandVars, dependencyVars, verdict, part>>

ToolSpec ==
    ToolInit /\ [][ToolNext]_<<commandVars, dependencyVars, verdict, flowVars, part>>
=============================================================================
