SPECIFICATION IpcSpec
CONSTANTS
    t1 = t1
    t2 = t2
    t3 = t3
    NULL = NULL
    NoByte = "."
    Senders = {t1, t2}
    Receivers = {t2, t3}
    Messages <- MCMessages
    Prio <- MCPrio
    Flag = "FIFO"
    MaxMsgs = 2
    MsgSize = 1
    Mails = {"a", "b"}
    NoMail = "."
    Flags = {0, 1}
INVARIANTS
    IpcTypeOK
    SlotsConserved
    WaitersWoken
    NobodyForgotten
    NobodySatisfied
PROPERTIES
    FifoSpec
    NoIdleReceiver
    MailboxSpec
    FlagsGivenOnce
CHECK_DEADLOCK FALSE
