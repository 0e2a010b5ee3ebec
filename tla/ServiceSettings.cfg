SPECIFICATION Spec
CONSTANTS
    Handlers = {h1, h2}
    Watcher = watcher
    Main = main
    Requests <- MCRequests
    Settable <- MCSettable
    Policies <- MCPolicies
    MaxInputs = 3
INVARIANTS
    TypeOK
    TimerOnlyWhenPaused
    NoForgottenChange
    UndisturbedApplyIsRight
PROPERTY
    TimedPauseEnds
CHECK_DEADLOCK FALSE
