SPECIFICATION FairSpec
CONSTANTS
    c1 = c1
    c2 = c2
    NULL = NULL
    Callers = {c1, c2}
    Replies <- MCReplies
    Size <- MCSize
    BufSize = 4
    MaxCmd = 3
    MaxLines = 2
INVARIANTS
    RespOwned
    AnswersMatch
PROPERTIES
    ExecReturns
CHECK_DEADLOCK FALSE
