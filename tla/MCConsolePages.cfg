SPECIFICATION ConsoleSpec
CONSTANTS
    NONE = NONE
    ConsoleViews = {"customers", "payments", "refunds", "webhooks"}
    ConsoleEnvironments = {"test", "live"}
    LastPart = 2
    MaxConsoleActs = 3
INVARIANTS NeverMixed
CHECK_DEADLOCK FALSE
