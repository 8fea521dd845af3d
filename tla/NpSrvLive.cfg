\* The threads under fairness, with two request structures.
CONSTANTS
    Workers = {w1, w2}
    Service = svc
    Reader = rd
    Tags = {t1, t2}
    Objs = {1, 2}
    NIL = NIL
    Prompt = TRUE
    Careful = TRUE
SPECIFICATION FairSpec
PROPERTIES RequestEnds HangupEnds
CHECK_DEADLOCK FALSE
