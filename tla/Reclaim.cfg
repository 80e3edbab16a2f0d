SPECIFICATION RSpec
CONSTANTS
    Tx = {1, 2, 3}
    Versions = {"v1", "v2"}
    Job <- Jobs3
    Dirs = {"runtime"}
    Snapshots = {"contract1", "contract2", "defaults"}
    Keys = {"key"}
    AssetRank <- Rank
    TextKey = TRUE
    Serial = TRUE
    EditPhases = {}
    MaxEdits = 0
    MaxTampers = 0
    MaxFaults = 1
    MaxCrashes = 1
    Rivals = {}
    RivalOf <- OfFirst
    SnapshotKind <- KindOf
    Alone = TRUE
INVARIANTS RTypeOK StoreServesReport HooksHaveRuntime NothingLeft
PROPERTIES KeyOutlives
