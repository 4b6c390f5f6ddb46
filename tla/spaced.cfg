SPECIFICATION PageSpec
CONSTANTS
    Circles = {near, far}
    Wedges = {north, south}
    None = None
    MaxTasks = 3
    Env <- Spaced
    ta = ta
    tb = tb
    tc = tc
    Titles = {ta, tb, tc}
    FirstTitle = ta
    Networks <- OneNetwork
    Files <- TwoFiles
    MaxSessions = 3
    MaxChanges = 1
    Panels <- SmallLibrary
    Batteries <- OneBattery
    Controllers <- EachController
    Sites <- SomeSites
    Fluxes <- ShortYears
    BoxWidth = 9
    BoxHeight = 5
    EdgeLength = 2
    MaxGroup = 4
    MinSplit = 2
    Pictures <- CornerBuildings
    Lines <- SomeLines
    Forms = {1, 2}
    MaxAsks = 3
    Mishaps <- EachMishap
    Sectors = {s1, s2}
    Skies <- EachSky
    APs = {t1, t2}
    APSectors = {x1}
    NewSectors = {n1}
    CPEs = {c1}
    Nobody = Nobody
    Tempers <- EachTemper
    NetSectors = {y1, y2}
    Customers = {d1, d2}
    Nowhere = Nowhere
    Circle = 4
    Settings <- EachSetting
SYMMETRY ServerSymmetry
INVARIANT FinishedResultsAreCurrent
INVARIANT VerdictsAreOfTheTower
INVARIANT LinksStayInside
INVARIANT UntouchedCopyIsWhole
INVARIANT AvailabilityIsCautious
INVARIANT ChosenIsBest
INVARIANT GridFollowsTheLines
INVARIANT OutlineIsBuilding
INVARIANT SelectedCoverageIsCurrent
INVARIANT SpinnersEnd
INVARIANT OverlayIsOfTheSelected
INVARIANT PopupShowsItsFeature
INVARIANT FormsActOnTheirFeature
INVARIANT OfferIsTheBest
INVARIANT LinksReachTheServer
CHECK_DEADLOCK FALSE
