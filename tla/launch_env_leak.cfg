CONSTANTS
    CapSetpcap = CapSetpcap
    CapSysAdmin = CapSysAdmin
    CapSetid = CapSetid
    Caps = {CapSetpcap, CapSysAdmin, CapSetid}
    Policies <- SimplePolicies
    FilterRules <- LaunchFilterRules
    MayFail = FALSE
    HostMayFail = TRUE
    Modes = {"dynamic"}
    StdioChoices <- StdioSets
    ModePolicies <- SamePolicies
INIT LaunchInit
NEXT LaunchNext
INVARIANT CallerRestored
