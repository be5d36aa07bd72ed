\* One action while two PIDs are used and reused, by PID 1 and by the process of one of
\* them: a unit's main process with a child, a thread, an orphan.
SPECIFICATION FairSpec
CONSTANTS
    Pids = {1, 2, 3, 4}
    InitPid = 1
    SelfPid = 2
    Uids = {1000, 1001}
    OwnUids = {1000}
    Acts = {a1}
    Movers = {3}
    Forkers = {1, 3}
    Changers = {3}
    HasPidfd = TRUE
    Ticks = 2
INVARIANTS TypeOK HitsTheRowsProcess SparesProtected ReportsAreTrue
PROPERTIES EveryActionReported
CHECK_DEADLOCK FALSE
