SPECIFICATION Spec
CONSTANTS
    Rate <- Prices
    AliasOf <- Aliases
    Unit = 2
    Models = {1, 2, 3}
    Files = {1, 2, 3}
    Child <- Threads
    Routed = {1}
    Asked <- Baselines
    Steps = {1, 3}
    MaxRecords = 3
    MaxSpawns = 8
INVARIANTS TypeOK ChildrenCountOnce SameWhateverListing SharesKeepQuota AmountNeedsEvidence
