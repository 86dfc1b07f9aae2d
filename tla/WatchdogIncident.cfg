SPECIFICATION FairSpec
CONSTANTS
    Threshold = 3
    SampleGap = 1
    Cooldown = 2
    FunnelCooldown = 3
    MaxAttempts = 2
    TopPhase = 1
    AgeCap = 3
    MaxDeaths = 1
INVARIANTS ActsAreBounded
PROPERTIES RecoveryIsEarned PersistentFailureRecovered
CHECK_DEADLOCK FALSE
