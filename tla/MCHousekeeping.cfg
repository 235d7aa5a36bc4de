SPECIFICATION Spec
CONSTANTS
    Delays = {0}
    Intervals = {3}
    MaxTimers = 3
    DefaultTimeout = 2
    MaxInterrupts = 1
    MaxBusy = 1
    Backends = {b1}
    ConnectTimeout = 1
    MaxRemovals = 1
    HealthInterval = 3
INVARIANTS LatenessBounded HealthTracksTests
PROPERTIES NoFireAfterCancel TimersFire
