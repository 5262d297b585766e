CONSTANTS
    CapSetpcap = CapSetpcap
    CapSysAdmin = CapSysAdmin
    CapSetid = CapSetid
    Caps = {CapSetpcap, CapSysAdmin, CapSetid}
    Policies <- StaticPolicies
    FilterRules <- LaunchFilterRules
    MayFail = FALSE
    HostMayFail = FALSE
    Modes = {"dynamic"}
    StdioChoices <- StdioSets
    ModePolicies <- CapsChrootPolicies
INIT LaunchInit
NEXT LaunchNext
INVARIANT LaunchCompletes
