\* Two workers at the default log level; room in the queue for every notification.
CONSTANTS
    w1 = w1  w2 = w2
    Workers = {w1, w2}
    LockThread = LockThread
    Nobody = Nobody
    LogLevel = 4
    QueueRoom = 256
SPECIFICATION Spec
SYMMETRY Symmetry
INVARIANT NoCircularWait
