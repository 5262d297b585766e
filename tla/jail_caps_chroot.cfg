CONSTANTS
    CapSetpcap = CapSetpcap
    CapSysAdmin = CapSysAdmin
    CapSetid = CapSetid
    Caps = {CapSetpcap, CapSysAdmin, CapSetid}
    Policies <- CapsChrootPolicies
    FilterRules <- MCFilterRules
    MayFail = FALSE
INIT Init
NEXT Next
INVARIANT NoSelfInflictedDeath
CHECK_DEADLOCK FALSE
