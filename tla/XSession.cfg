\* One session with a process at a time, four fids, under fairness.
CONSTANTS
    Sessions = {s1}
    Fids = {f1, f2, f3, f4}
    Pids = {p1}
    NFiles = 11
    NOSESSION = NOSESSION
    NOFID = NOFID
    NOPID = NOPID
    Uses = {"flushctl"}
SPECIFICATION FairSpec
INVARIANTS    NormalDisappears 
PROPERTIES WipedGoes WaitReturns
