SPECIFICATION Spec
CONSTANTS
    Setting = {"requestSchema", "validateBody", "authorization"}
    MaxDeployments = 3
    MaxEdits = 0
CHECK_DEADLOCK FALSE
PROPERTY InPlaceChangeIsServed
