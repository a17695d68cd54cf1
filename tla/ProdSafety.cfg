SPECIFICATION Spec
CONSTANTS
    Sha = {a, b}
    Run = {r1, r2, r3}
    NoSha = NoSha
    NoRun = NoRun
    MaxManual = 1
    OrphanContinues = TRUE
SYMMETRY Symmetric
CONSTRAINT OneDeploys
INVARIANT TypeOK
INVARIANT EveryPublishedShaWasProven
INVARIANT StateLockExcludes
INVARIANT GroupExcludes
INVARIANT UnverifiedReleaseIsReported
INVARIANT RestoredReleaseWasVerified
PROPERTY RollbackCompleteRestores
PROPERTY ProdChangesOnlyUnderAuthority
PROPERTY SuccessIsLive
