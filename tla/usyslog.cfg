SPECIFICATION MCFairSpec
CONSTANTS
    l1 = l1
    l2 = l2
    m1 = m1
    Logger <- TwoLoggers
    syslog_thread = syslog_thread
    Free = Free
    Message <- OneMessage
    NoMessage = NoMessage
    MAX_SYSLOG_MESSAGES = 2
    Spurious = TRUE
    MaxCalls = 4
CHECK_DEADLOCK FALSE
INVARIANTS TypeOK CrashNeedsStolenLock ReadsWholeMessages
PROPERTIES NoOverwrite CallsReturn
