\* A client makes its session persistent and comes back to it.
CONSTANTS
    Sessions = {s1}
    Fids = {f1, f2, f3}
    Pids = {p1}
    NFiles = 11
    NOSESSION = NOSESSION
    NOFID = NOFID
    NOPID = NOPID
    Uses = {"persistent"}
SPECIFICATION Spec
INVARIANTS PersistentRemains
