SPECIFICATION OrgSpec
CONSTANTS
    NONE = NONE ann = ann bob = bob call1 = call1 call2 = call2
    Accounts = {ann, bob}
    Founder = ann
    Granted = {"owner", "admin"}
    OrgCalls = {call1, call2}
    Invitations = {1}
    MaxOrgCalls = 4
INVARIANTS OwnerRemains
CHECK_DEADLOCK FALSE
