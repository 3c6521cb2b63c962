SPECIFICATION SurfacesFairSpec
CONSTANTS
    Listeners = {panel, site}
    Workers = {w1}
    ReadTimeout = 1
    SilentRate = 0
    Backlog = 1
PROPERTY StoppedListenerIsReported
CHECK_DEADLOCK FALSE
