\* One worker, one connection at a time, no signal or one.
CONSTANTS
    w1 = w1  w2 = w2
    Workers = {w1}
    NoFd = NoFd
    PipeRead = 1
    PipeWrite = 2
    Fds = {3}
    RingSize = 2
    SignalSets <- OneSignal
    Resets = FALSE
SPECIFICATION Spec
\* The server may end.
CHECK_DEADLOCK FALSE
PROPERTY SignalStopsServer
