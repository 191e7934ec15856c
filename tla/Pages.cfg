SPECIFICATION Spec
CONSTANTS
    Size <- Sizes
    Bound <- Wide
    Chosen = {"session", "download", "esim", "wizard", "upgrade", "lock",
        "sched", "modem", "syscfg", "staged", "dial", "sms", "send",
        "text", "smsset", "status", "meter", "diag", "service", "logs",
        "term", "shell", "sim", "calls", "long", "notify", "store"}
INVARIANTS
    PagesTypeOK
    RestoresWhatItChanged
    SuccessIsReal
    ShowsTheTruth
    NothingLost
    NothingUnasked
PROPERTIES
    VerdictsAsRead
    StepsKeep
CHECK_DEADLOCK FALSE
