SPECIFICATION Spec
CONSTANTS
    Users = {"root", "amina"}
    Stations = {"st1", "st2"}
    Roles = {"super_admin", "attendant"}
    Permissions <- MCPermissions
    PermissionSets <- MCPermissionSets
    Statuses = {"active", "suspended"}
    Passwords = {"p1", "p2"}
    Workers = {w1, w2}
    MaxAttempts = 2
    MaxEvents = 3
    None = None
    Root = "root"
    RootPassword = "p1"
    Extras <- MCExtras
INVARIANTS
    TypeOK
    ForkNeedsDoubleRotation
    RestrictedAccountsHaveNoSession
    SessionsKnowThePassword
    LockHasItsCount
    AuthorityQueriesAgree
    
PROPERTIES
    LastSuperAdminIsLostToARace
    ImplementsSessionLedger
SYMMETRY MCSymmetry
CHECK_DEADLOCK FALSE
