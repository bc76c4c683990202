SPECIFICATION Spec
CONSTANTS
    Capacity = 2
    Threshold = 2
    AdminOps = {"roll_over", "wipe_session", "wipe_all"}
    HttpDuringBoot = FALSE
    Bounds <- const_Bounds
INVARIANTS  SummariesTellTheirRange OneOpenSession
PROPERTIES OperationsEnd
CHECK_DEADLOCK FALSE
