SPECIFICATION FairSpec
CONSTANTS
    Sha = {1, 2}
    Run = {1, 2}
    NoSha = NoSha
    NoRun = NoRun
    MaxManual = 0
    OrphanContinues = FALSE
PROPERTY KeepsPromise
PROPERTY DeployJobEnds
PROPERTY QueuedRunLeavesQueue
ACTION_CONSTRAINT InOrder
CONSTRAINT OldestFirst
