SPECIFICATION MarketSpec
CONSTANTS
    MaxRequests = 2
    MaxPages = 2
    Kinds <- OnlyBuildings
    Env <- Waiting
    Shapes <- SomeShapes
    Masts = {m1}
    Nothing = Nothing
    Manners <- EachManner
    Towers = {t1, t2}
    Areas = {r1}
    OldSectors = {s1, s2}
    MoreSectors = {n1}
    Whims <- EachWhim
    Plots <- SomePlots
    Spots <- SomeSpots
    Shares = {15, 20}
    Engines = {"later", "earlier"}
    Usages <- EachUsage
    Grounds <- SomeGrounds
    PageSize = 2
    Habits <- EachHabit
INVARIANT FinalListIsExact
INVARIANT MapHoldsTheList
INVARIANT SwitchesAndPopupTellTheMap
INVARIANT NothingIsAddedTwice
INVARIANT LastClickIsStored
INVARIANT RowsTellTheMap
INVARIANT TowerGoesWithItsSectors
INVARIANT FigureTellsTheFilter
INVARIANT StatisticsAreOfTheArea
PROPERTY RequestIsAnswered
PROPERTY ImplementsAreaCount
CHECK_DEADLOCK FALSE
