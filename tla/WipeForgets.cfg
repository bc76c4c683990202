SPECIFICATION Spec
CONSTANTS
    Capacity = 2
    Threshold = 2
    AdminOps = {"roll_over", "wipe_session", "wipe_all"}
    HttpDuringBoot = FALSE
    Bounds <- const_Bounds
INVARIANT WipeForgets
CHECK_DEADLOCK FALSE
