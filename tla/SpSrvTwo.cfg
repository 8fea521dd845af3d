\* Two connections with the same tags and fids, and a service that answers
\* every request it keeps when it is flushed (xcpufs, xget).
CONSTANTS
    Conns = {c1, c2}
    Tags = {t1, t2}
    Fids = {f1}
    NOFID = NOFID
    NOTAG = NOTAG
    FlushAnswers = {TRUE}
SPECIFICATION Spec
SYMMETRY Symmetry
INVARIANTS ResetTerminates
 
CHECK_DEADLOCK FALSE
