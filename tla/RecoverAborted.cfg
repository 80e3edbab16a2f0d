SPECIFICATION Spec
CONSTANTS
    Tx = {1, 2}
    Versions = {"v1"}
    Job <- Jobs2
    Dirs = {"runtime"}
    Snapshots = {"contract"}
    Keys = {"key"}
    AssetRank <- Rank
    TextKey = TRUE
    Serial = TRUE
    EditPhases = {"none", "prepared"}
    MaxEdits = 1
    MaxTampers = 0
    MaxFaults = 1
    MaxCrashes = 1
    Rivals = {}
    RivalOf <- OfFirst
INVARIANTS EditsSurviveRecovery
