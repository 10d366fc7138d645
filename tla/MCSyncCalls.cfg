CONSTANTS
    Runs = {r1, r2}
    Workers = {w1}
    Calls = {c1, c2}
    Accounts = {a1}
    NoRun = NoRun
    NoWorker = NoWorker
    NoAccount = NoAccount
    Timeout = 2
    Interval = 1
SPECIFICATION Spec
SYMMETRY Symmetry
CONSTRAINT InitiallyConnected
ACTION_CONSTRAINTS StaysConnected TenantStaysEnabled WorkersStayUp LocksAreRenewed
INVARIANTS OneActiveRun SyncInvariant
PROPERTIES ReleaseOnlyDead ImplementsLifecycle
