SPECIFICATION Spec
CONSTANTS
    Tx = {1, 2}
    Versions = {"v1"}
    Job <- Jobs2
    Dirs = {"runtime"}
    Snapshots = {"contract"}
    Keys = {"key"}
    AssetRank <- Rank
    TextKey = TRUE
    Serial = TRUE
    EditPhases = {}
    MaxEdits = 1
    MaxTampers = 1
    MaxFaults = 2
    MaxCrashes = 1
    Rivals = {}
    RivalOf <- OfFirst
INVARIANTS TypeOK ReportLandsLast VerifiedContent
PROPERTIES RollbackRestores AllOrNothing
