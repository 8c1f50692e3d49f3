SPECIFICATION MCDaemonSpec
CONSTANTS
    l1 = l1
    l2 = l2
    m1 = m1
    Logger <- OneLogger
    syslog_thread = syslog_thread
    Free = Free
    Message <- OneMessage
    NoMessage = NoMessage
    MAX_SYSLOG_MESSAGES = 2
    Spurious = FALSE
    MaxCalls = 3
PROPERTIES MessagesDrained
CHECK_DEADLOCK FALSE
