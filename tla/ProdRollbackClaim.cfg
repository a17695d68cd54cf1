SPECIFICATION Spec
CONSTANTS
    Sha = {a, b}
    Run = {r1, r2}
    NoSha = NoSha
    NoRun = NoRun
    MaxManual = 0
    OrphanContinues = FALSE
SYMMETRY Symmetric
PROPERTY FailedApplyIsRestored
