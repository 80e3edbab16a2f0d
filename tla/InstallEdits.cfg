SPECIFICATION Spec
CONSTANTS
    Tx = {1, 2}
    Versions = {"v1"}
    Job <- Jobs2
    Dirs = {"runtime"}
    Snapshots = {}
    Keys = {}
    AssetRank <- Rank
    TextKey = TRUE
    Serial = TRUE
    EditPhases = {"none", "prepared", "committing", "recovered"}
    MaxEdits = 1
    MaxTampers = 0
    MaxFaults = 1
    MaxCrashes = 0
    Rivals = {3}
    RivalOf <- OfFirst
INVARIANTS EditsSurvive
PROPERTIES TerminalIsFinal
