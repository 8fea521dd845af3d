\* A structure may be reused before np_respond has read its link.
CONSTANTS
    Workers = {w1, w2}
    Service = svc
    Reader = rd
    Tags = {t1, t2}
    Objs = {1, 2, 3}
    NIL = NIL
    Prompt = FALSE
    Careful = TRUE
SPECIFICATION Spec
INVARIANTS AssertRefcount
CHECK_DEADLOCK FALSE
