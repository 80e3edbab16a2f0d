SPECIFICATION Spec
CONSTANTS
    Calls = {"c1", "c2"}
    Collectors = {"p1", "p2", "g"}
    Scope <- Layers
    Hooks <- Sessions
    Linking = {"p2", "g"}
    MaxOpen = 1
    MaxShort = 1
    MaxChanges = 1
    MaxReports = 1
    Rate <- Prices
    AliasOf <- NoAliases
    Unit = 1
INVARIANTS TypeOK CallsCountedOnce LossShows TotalsOnlyGrow ReadersAgree OneLayerElected HighNeedsExact
CHECK_DEADLOCK FALSE
