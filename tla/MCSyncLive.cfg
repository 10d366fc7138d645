CONSTANTS
    Runs = {r1}
    Workers = {w1}
    Calls = {c1}
    Accounts = {a1}
    NoRun = NoRun
    NoWorker = NoWorker
    NoAccount = NoAccount
    Timeout = 1
    Interval = 1
SPECIFICATION FairSpec
INVARIANT TypeOK
PROPERTIES TerminalIsFinal EveryRunEnds QueueDrains
