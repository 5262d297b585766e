CONSTANTS
    CapSetpcap = CapSetpcap
    CapSysAdmin = CapSysAdmin
    CapSetid = CapSetid
    Caps = {CapSetpcap, CapSysAdmin, CapSetid}
    Policies <- TmpfsPolicies
    FilterRules <- LaunchFilterRules
    MayFail = FALSE
    HostMayFail = FALSE
    Modes = {"dynamic"}
    StdioChoices <- StdioSets
    ModePolicies <- SamePolicies
INIT LaunchInit
NEXT LaunchNext
INVARIANT TargetConfined
