\* Conversations of one to three messages, a socket buffer that holds
\* less than the larger messages, two short or interrupted calls.
CONSTANTS
    Message <- MCMessage
    Scripts <- MCScripts
    Room = 70
    Shorts = {1, 7}
    MaxFaults = 2
SPECIFICATION Spec
\* Both ends may be idle or gone.
CHECK_DEADLOCK FALSE
INVARIANTS TypeOK Aligned EndAfterLastMessage BuffersFit
PROPERTIES FifoDelivery EveryMessageArrives NobodyWaitsAlone
