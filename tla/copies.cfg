SPECIFICATION ServerSpec
CONSTANTS
    Circles = {near, far}
    Wedges = {north, south}
    None = None
    MaxTasks = 3
    Env <- Spaced
    ta = ta
    tb = tb
    tc = tc
    Titles = {ta, tb, tc}
    FirstTitle = ta
    Networks <- OneNetwork
    Files <- TwoFiles
    MaxSessions = 3
    MaxChanges = 1
    Panels <- SmallLibrary
    Batteries <- OneBattery
    Controllers <- EachController
    Sites <- SomeSites
    Fluxes <- ShortYears
    BoxWidth = 9
    BoxHeight = 5
    EdgeLength = 2
    MaxGroup = 4
    MinSplit = 2
    Pictures <- CornerBuildings
    Lines <- SomeLines
    Forms = {1, 2}
    MaxAsks = 3
    Mishaps <- EachMishap
INVARIANT CopyStandsAlone
CHECK_DEADLOCK FALSE
