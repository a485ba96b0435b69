SPECIFICATION SessionSpec
SYMMETRY Symmetry
CONSTANTS
    Accounts = {o1}
    Apis = {a1}
    Threads = {t1}
    Limit = 2
    MaxBackups = 3
    MaxStarts = 1
    OpenAI = openai
    Missing = Missing
    Pids = {p1, p2, p3}
    MaxTime = 4
    NoProcess = NoProcess
INVARIANTS
    KillsAreAllowed
    ClosedIsClosed
    SuccessIsExact
    FailureLosesNothing
