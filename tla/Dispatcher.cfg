\* Two workers, two connections at a time, one signal; the work queue has
\* room for every connection.
CONSTANTS
    w1 = w1  w2 = w2
    Workers = {w1, w2}
    NoFd = NoFd
    PipeRead = 1
    PipeWrite = 2
    Fds = {3, 4}
    RingSize = 2
    SignalSets <- Hangup
    Resets = TRUE
SPECIFICATION Spec
SYMMETRY Symmetry
\* The server may end.
CHECK_DEADLOCK FALSE
INVARIANTS TypeOK OnePlace MonitoredInRange CountMatches WorkIsTaken NoneSleepsThroughStop
