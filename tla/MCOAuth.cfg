CONSTANTS
    Tenants = {t1}
    Calls = {c1, c2}
    Flows = {f1}
    Grants = {g1}
    Companies = {k1, k2}
    NoCall = NoCall
    NoGrant = NoGrant
    NoCompany = NoCompany
    NoTenant = NoTenant
    NoFlow = NoFlow
    MaxRotations = 1
SPECIFICATION FairSpec
INVARIANTS TypeOK StateUsedOnce StoredTokenIsNewest WaitsEnd
PROPERTIES RenewalKeepsGrant ImplementsIntegration EveryCallEnds
