\* Two workers, one connection at a time, signals in any order.
CONSTANTS
    w1 = w1  w2 = w2
    Workers = {w1, w2}
    NoFd = NoFd
    PipeRead = 1
    PipeWrite = 2
    Fds = {3}
    RingSize = 2
    SignalSets <- AnySignals
    Resets = FALSE
SPECIFICATION Spec
\* The server may end.
CHECK_DEADLOCK FALSE
PROPERTIES EveryoneServed ConnectedAreServed ShutdownCompletes
