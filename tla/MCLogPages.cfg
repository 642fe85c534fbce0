SPECIFICATION LogSpec
CONSTANTS
    NONE = NONE
    Routes = {a1, a2}
    OrganizationOf <- OneOrganization
    LogEnvironments = {NONE}
    RequestIds = {NONE}
    LastPage = 2
    MaxLogActs = 4
INVARIANTS NoForeignRows
CHECK_DEADLOCK FALSE
