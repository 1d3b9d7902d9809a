SPECIFICATION Spec
CONSTANTS
    c1 = c1
    c2 = c2
    NULL = NULL
    Callers = {c1, c2}
    Replies <- MCReplies
    Size <- MCSize
    BufSize = 4
    MaxCmd = 3
    MaxLines = 2
PROPERTIES
    AutoReturn
CHECK_DEADLOCK FALSE
