SPECIFICATION Spec
CONSTANTS
    Methods = {"tools/call", "Tools/Call", "tools/list", "x/unknown"}
    Tools = {"get", "admin_reset", "Admin_reset", "unreadable"}
    MaxBatch = 3
INVARIANTS
    TypeOK
    NoEscalation
    EveryIdOnce
    DenialStands
    AdminToolsHidden
CHECK_DEADLOCK FALSE
