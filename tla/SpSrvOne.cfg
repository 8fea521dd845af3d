\* One connection: three requests at a time on two fids, kept requests that
\* srv->flush answers and kept requests it does not.
CONSTANTS
    Conns = {c1}
    Tags = {t1, t2, t3}
    Fids = {f1, f2}
    NOFID = NOFID
    NOTAG = NOTAG
    FlushAnswers = {TRUE, FALSE}
SPECIFICATION FairSpec
INVARIANTS FidRefcount KeptFid FlushIsFinal NoRequestLost
PROPERTIES ImplementsRequests EveryTagReturns
\* The process may crash or loop: nothing happens after that.
CHECK_DEADLOCK FALSE
