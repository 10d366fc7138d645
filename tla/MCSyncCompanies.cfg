CONSTANTS
    Runs = {r1, r2, r3}
    Workers = {w1}
    Calls = {c1}
    Accounts = {a1, a2}
    NoRun = NoRun
    NoWorker = NoWorker
    NoAccount = NoAccount
    Timeout = 1
    Interval = 1
SPECIFICATION Spec
SYMMETRY Symmetry
ACTION_CONSTRAINTS TenantStaysEnabled WorkersStayUp LocksAreRenewed
INVARIANT IncrementalNeedsBaseline
PROPERTY CursorKeepsAccount
