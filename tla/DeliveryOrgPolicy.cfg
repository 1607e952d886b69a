SPECIFICATION DeliverySpec
CONSTANTS
    None = None
    e1 = e1
    e2 = e2
    a = a
    b = b
    Sessions = {e1, e2}
    Dialect = "sqlite"
    Names <- MCNames
    LocalNames <- MCLocalNames
    Public = {a}
    Private = {b}
    Answers <- MCAnswers
    Lists <- MCLists
    MAX_REDIRECTS = 1
    MAX_ATTEMPTS = 2
    MaxTests = 1
PROPERTY OrgPolicyRestricts
CHECK_DEADLOCK FALSE
