CONSTANTS
    CapSetpcap = CapSetpcap
    CapSysAdmin = CapSysAdmin
    CapSetid = CapSetid
    Caps = {CapSetpcap, CapSysAdmin, CapSetid}
    Policies <- StaticChrootPolicies
    FilterRules <- LaunchFilterRules
    MayFail = FALSE
    HostMayFail = FALSE
    Modes = {"static"}
    StdioChoices <- StdioSets
    ModePolicies <- SamePolicies
INIT LaunchInit
NEXT LaunchNext
INVARIANT LaunchCompletes
