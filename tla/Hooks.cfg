SPECIFICATION Spec
CONSTANTS
    Runs = {1, 2, 3, 4}
    Op <- Ops
    MaxActs = 2
INVARIANTS TypeOK UserHooksKept HooksTracked
PROPERTIES NeverLockedOut DeleteAuthority UninstallClean
