SPECIFICATION Spec
CONSTANTS
    Last = 2
    Contracts = {"c1", "c2"}
    Defaults = {"d"}
    Roles = {"executor", "explore"}
    Lanes = {"terra", "sol", "luna"}
    LaneOf <- RoleLanes
    Bound <- Bindings
    Official <- Released
    Models = {"opus", "custom"}
    Injectable = {"opus"}
    Calls <- SomeCalls
    MaxWrites = 2
INVARIANTS TypeOK NearestReportDecides DecidedWasInForce InstallsNeverDeny ChoiceStands InjectionTakesEffect GuardFollowsReport
