SPECIFICATION ToolSpec
CONSTANTS
    \* commands
    Never = Never
    Nothing = Nothing
    Wrong = Wrong
    Reportable <- MCReportable
    Settings <- MCSettings
    Paths = {"shared", "reports"}
    FirstFiles <- MCFirstFiles
    PolicyFiles <- MCPolicyFiles
    Options <- MCOptions
    Terms = {1}
    Licences = {Nothing, 0}
    MaxDay = 1
    MaxCommands = 3
    \* dependencies
    Tomllib = TRUE
    Trees <- MCTrees
    Feeds <- MCFeeds
    Limits = {0, 1}
    Versions <- MCVersions
    \* licences
    Expressions <- MCExpressions
    LicenseLists <- MCLicenseLists
    \* flows
    Scopes <- MCScopes
INVARIANTS PolicyWidensNothing DecisionSurvivesStorage 
           SilenceMeansAllowed UntrustedSinksAreReported
PROPERTIES GateMatchesAcceptance ImportIsFaithful
\* The system may stop: no command is run any more, and nothing is published.
CHECK_DEADLOCK FALSE
