SPECIFICATION Spec
CONSTANTS
    Env = {e1, e2}
    WarmReuse = TRUE
    Burst = 4
    TokenTicks = 5
    MaxMissing = 2
CHECK_DEADLOCK FALSE
INVARIANT TypeOK
INVARIANT PassedMeansEnforced
INVARIANT PassedMeansRefused
INVARIANT CompleteStackIsNotBlamed
INVARIANT BlamedProbeReachedLambda
