SPECIFICATION FairSpec
CONSTANTS
    Size <- Sizes
    Bound <- Narrow
    Chosen = {"session", "download", "esim", "upgrade", "lock", "sched",
        "modem", "staged", "dial", "send", "smsset", "diag", "service",
        "logs", "term", "shell", "sim", "notify", "status"}
PROPERTIES
    PagesSettle
CHECK_DEADLOCK FALSE
