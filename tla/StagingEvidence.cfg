SPECIFICATION FairSpec
CONSTANTS
    Sha = {1, 2}
    Run = {1, 2}
    NoSha = NoSha
    NoRun = NoRun
    MaxReruns = 1
CHECK_DEADLOCK FALSE
INVARIANT TypeOK
PROPERTY EvidenceGainedLive
PROPERTY StagingChangesOnlyFromMain
PROPERTY DeployJobEnds
ACTION_CONSTRAINT InOrder
CONSTRAINT OldestFirst
