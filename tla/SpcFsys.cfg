\* Two files and four requests, of which two may be Tflushes.
CONSTANTS
    Fids = {f1, f2}
    NTags = 4
    MaxReqs = 4
    NIL = NIL
SPECIFICATION FairSpec
INVARIANTS CompletedOnce OwnReply
PROPERTIES EveryCallback
\* The bound on requests ends every behaviour.
CHECK_DEADLOCK FALSE
