SPECIFICATION SesSpec
CONSTANTS
    NONE = NONE KEEP = KEEP tab1 = tab1 tab2 = tab2 fetch1 = fetch1
    Tabs = {tab1, tab2}
    Fetches = {fetch1}
    MaxSessions = 4
    MaxLogins = 1
    MaxSessionFaults = 0
    MaxSessionTime = 2
    SessionTtl = 3
    AccessTtl = 1
INVARIANTS TheftResponseEndsEverySession
CHECK_DEADLOCK FALSE
