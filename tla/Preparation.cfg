SPECIFICATION Spec
CONSTANTS
    Env = {"staging", "prod"}
    Order <- Orders
    Config <- Configs
CONSTRAINT FewDeviations
INVARIANT PassedMeansReadable
INVARIANT NothingIsLost
INVARIANT ControlsHold
PROPERTY SoundReleaseIsNotBlocked
PROPERTY MisdirectionIsFound
