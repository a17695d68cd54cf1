SPECIFICATION Spec
CONSTANTS
    Setting = {"apiKeyRequired", "requestSchema", "authorization"}
    MaxDeployments = 4
    MaxEdits = 1
CHECK_DEADLOCK FALSE
INVARIANT TypeOK
INVARIANT RefusedNeverServed
PROPERTY ReleasedIsServed
PROPERTY ServedIsNeverDestroyed
