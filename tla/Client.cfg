CONSTANTS
    CommandLines <- MCCommandLines
    MAX_OPTIONS_COUNT = 3
    Msec = 2
    Timeout = 3
    SIZE_MAX = 63
    Sizes = {2, 3}

SPECIFICATION Spec
INVARIANTS TypeOK OpenedIsClosed HonestReports CountsOfLine EveryFileRequested
PROPERTY Terminates
CHECK_DEADLOCK FALSE
