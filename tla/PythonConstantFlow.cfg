SPECIFICATION FlowsSpec
CONSTANT Scopes <- MCScopes
INVARIANT ConstantFlowsAreSilent
CHECK_DEADLOCK FALSE
