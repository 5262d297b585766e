CONSTANTS
    CapSetpcap = CapSetpcap
    CapSysAdmin = CapSysAdmin
    CapSetid = CapSetid
    Caps = {CapSetpcap, CapSysAdmin, CapSetid}
    Policies <- StaticPolicies
    FilterRules <- LaunchFilterRules
    MayFail = FALSE
    HostMayFail = FALSE
    Modes = {"dynamic", "static"}
    StdioChoices <- StdioSets
    ModePolicies <- LaunchPolicies
INIT LaunchInit
NEXT LaunchNext
INVARIANT TargetConfined
INVARIANT LaunchCompletes
