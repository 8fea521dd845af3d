\* Two readers of stdout, two writers of stdin that take turns, a buffer and a pipe that fill up.
CONSTANTS
    Readers = {1, 2}
    Writers = {1, 2}
    Careful = TRUE
    Count = 2
    BufSize = 2
    Cap = 3
    MaxReqs = 4
    MaxBytes = 5
SPECIFICATION FairSpec
INVARIANTS EofOnlyAtEnd  WritePassed RequestsKept
PROPERTIES  RequestReturns
\* The bounds on requests and bytes end every behaviour.
CHECK_DEADLOCK FALSE
