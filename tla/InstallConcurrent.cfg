SPECIFICATION FairSpec
CONSTANTS
    Tx = {1, 2}
    Versions = {"v1"}
    Job <- Jobs2
    Dirs = {"runtime"}
    Snapshots = {"contract"}
    Keys = {}
    AssetRank <- Rank
    TextKey = TRUE
    Serial = FALSE
    EditPhases = {"none", "prepared"}
    MaxEdits = 0
    MaxTampers = 0
    MaxFaults = 1
    MaxCrashes = 1
    Rivals = {}
    RivalOf <- OfFirst
INVARIANTS WriteAhead
PROPERTIES CommittingSettles RunsEnd
