SPECIFICATION Spec
CONSTANTS
    PingInterval = 20
    TimeoutWindow = 30
    MonitorTick = 1
    ReconnectWindow = 30
    Late = 1
    Slack = 8
    Handling = 2
INVARIANTS
    TypeOK
    ResponsiveKept
    SilentNoticed
    TimeoutBound
