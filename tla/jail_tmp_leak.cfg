CONSTANTS
    CapSetpcap = CapSetpcap
    CapSysAdmin = CapSysAdmin
    CapSetid = CapSetid
    Caps = {CapSetpcap, CapSysAdmin, CapSetid}
    Policies <- TmpPolicies
    FilterRules <- MCFilterRules
    MayFail = FALSE
INIT Init
NEXT Next
INVARIANT NoHostMountLeak
CHECK_DEADLOCK FALSE
