SPECIFICATION FairSpec
CONSTANTS
    PlayerNmb = 2
    PauseTime = 1
    MoveTime = 1
    StaticTime = 1
    InvincibleTime = 2
    HitTime = 1
    CollidedTime = 1
    DashedTime = 1
    MaxFalls = 1
    PrepTime = 4
    DownTime = 3
    StopTime = 3
    SlowTime = 4
    BounceTime = 3
    RecoverTime = 5
    StunTime = 3
    BumpTime = 2
    MaxFoot = 2
    JumpTime = 8
    CancelTime = 7
    PreTime = 5
    CoolTime = 2
    FirstCool = 5
    Tank = 25
    Refill = 6
    Spent = 2
    SpentFirst = 4
    FirstShots = 3
    WaterTime = 3
    QuickTime = 1
    FirstWater = 4
    ReloadTime = 4
    MaxBulletNmb = 2
    LifeTime = 3
    SplashTime = 2
    Reload = 3
    Settle = 4
INVARIANTS
    MatchTypeOK
    FallsSound
    StompSound
    ShootsSoon
    PoolSound
    ViewSound
PROPERTIES
    LifeCycle
    ComesBack
    DashIsFinished
    RatesKept
    NoSteal
    FlightsLand
