SPECIFICATION MCSpec
CONSTANTS
    l1 = l1
    l2 = l2
    m1 = m1
    Logger <- TwoLoggers
    syslog_thread = syslog_thread
    Free = Free
    Message <- OneMessage
    NoMessage = NoMessage
    MAX_SYSLOG_MESSAGES = 3
    Spurious = FALSE
    MaxCalls = 3
INVARIANTS ListLockReturned
CHECK_DEADLOCK FALSE
