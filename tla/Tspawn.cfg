\* A list of seven nodes, and every number of copies that divides it in another way.
SPECIFICATION FairSpec
CONSTANTS
    N = 7
    Maxes = {0, 1, 2, 3, 4}
INVARIANTS NodesFit MadeOnce AnsweredLast
PROPERTIES CloneAnswered
\* The answer to the command is the end.
CHECK_DEADLOCK FALSE
