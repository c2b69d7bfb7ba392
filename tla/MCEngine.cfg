SPECIFICATION Spec
CONSTANTS
    p1 = p1
    p2 = p2
    a = a
    all = all
    Profile = {p1, p2}
    Single = {p1}
    Lock = Lock
    Start <- MCStart
    Worker <- MCWorker
    None = None
    Hour <- MCHour
    Retention = 2
    Task <- MCTask
    Name = {a, all}
    Cacheable = {a, all}
    BatchOf <- MCBatchOf
    MaxEntries = 1
    MaxConcurrent = 2
    Client = {c1, c2}
    Server <- MCStart
    Nothing = Nothing
    Budgets <- MCBudgets
INVARIANTS OneWorkerPerProfile BillIsRight EditsTakeEffect
CHECK_DEADLOCK FALSE

PROPERTY FatalFailureStopsEngine
