SPECIFICATION Spec
CONSTANTS
    Tx = {1, 2}
    Versions = {"v1"}
    Job <- Jobs2
    Dirs = {"runtime"}
    Snapshots = {"contract"}
    Keys = {"key"}
    AssetRank <- Rank
    TextKey = FALSE
    Serial = TRUE
    EditPhases = {"none", "prepared"}
    MaxEdits = 0
    MaxTampers = 0
    MaxFaults = 1
    MaxCrashes = 1
    Rivals = {}
    RivalOf <- OfFirst
PROPERTIES RollbackRestores
