\* Two workers, the service and the reader, two tags, three request structures.
CONSTANTS
    Workers = {w1, w2}
    Service = svc
    Reader = rd
    Tags = {t1, t2}
    Objs = {1, 2, 3}
    NIL = NIL
    Prompt = TRUE
    Careful = TRUE
SPECIFICATION Spec
SYMMETRY Symmetry
INVARIANTS RequestRefs ConnRefs
PROPERTIES AnsweredOnce
\* A reader that is gone and an idle pool of workers is the end.
CHECK_DEADLOCK FALSE
