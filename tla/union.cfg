SPECIFICATION LosSpec
CONSTANTS
    Buildings = {b1, b2}
    MaxCoverages = 3
    l1 = l1
    l2 = l2
    Links = {l1, l2}
    NoLink = NoLink
    Finest <- FinestOfLinks
    MaxLinkAsks = 2
    Customers = {c1, c2}
    Tower = Tower
    Weathers <- CalmAndOther
    MaxEdits = 2
    Cells = 4
    NumSamples = 6
    Surveys <- FewSurveys
INVARIANT UnionFollowsRules
INVARIANT RefinementIsAChain
INVARIANT PatientSeesTheLink
INVARIANT MapShowsTheServer
INVARIANT ProfileFollowsTheLink
PROPERTY LoadingEnds
PROPERTY RequestsEnd
CHECK_DEADLOCK FALSE
