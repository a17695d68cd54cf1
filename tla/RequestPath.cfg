SPECIFICATION FairSpec
CONSTANTS
    Request = {q1, q2}
    Env = {e1, e2}
    Id = {i1, i2}
    NoRequest = NoRequest
    NoId = NoId
    Inputs <- AllInputs
    MaxPuts = 2
CHECK_DEADLOCK FALSE
INVARIANT TypeOK
INVARIANT AcknowledgedItemIsStored
INVARIANT OneItemPerRequest
INVARIANT OnlyValidBodiesStored
PROPERTY ItemsAreNeverReplaced
PROPERTY KeepsLedger
PROPERTY HandlerEnds
