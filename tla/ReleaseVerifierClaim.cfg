SPECIFICATION Spec
CONSTANTS
    Env = {e1, e2}
    WarmReuse = FALSE
    Burst = 4
    TokenTicks = 5
    MaxMissing = 1
CHECK_DEADLOCK FALSE
INVARIANT PassedMeansEnforced
