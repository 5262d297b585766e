CONSTANTS
    CapSetpcap = CapSetpcap
    CapSysAdmin = CapSysAdmin
    CapSetid = CapSetid
    Caps = {CapSetpcap, CapSysAdmin, CapSetid}
    Policies <- EntryPolicies
    FilterRules <- MCFilterRules
    MayFail = TRUE
INIT Init
NEXT Next
INVARIANT TypeOK
INVARIANT PolicyInForce
INVARIANT NoSelfInflictedDeath
CHECK_DEADLOCK FALSE
