CONSTANTS
    Tenants = {t1, t2}
    Calls = {c1}
    Flows = {f1, f2}
    Grants = {g1, g2}
    Companies = {k1}
    NoCall = NoCall
    NoGrant = NoGrant
    NoCompany = NoCompany
    NoTenant = NoTenant
    NoFlow = NoFlow
    MaxRotations = 1
SPECIFICATION SpecWithoutLostErrors
INVARIANT CompanyConnectedOnce
