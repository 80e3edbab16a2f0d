SPECIFICATION Spec
CONSTANTS
    Tx = {1, 2}
    Versions = {"v1"}
    Job <- Jobs2
    Dirs = {"runtime"}
    Snapshots = {"contract"}
    Keys = {"key"}
    AssetRank <- Rank
    TextKey = TRUE
    Serial = TRUE
    EditPhases = {"none", "prepared"}
    MaxEdits = 0
    MaxTampers = 0
    MaxFaults = 2
    MaxCrashes = 0
    Rivals = {}
    RivalOf <- OfFirst
INVARIANTS ReportProvesCommit
