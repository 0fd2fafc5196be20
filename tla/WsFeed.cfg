SPECIFICATION Spec
CONSTANTS
    c1 = c1
    c2 = c2
    b1 = b1
    Clients = {c1, c2}
    Bridges = {b1}
    BufLen = 1
INVARIANT NoSendOnClosedQueue
PROPERTY PublishReturns
PROPERTY GoneClientsAreForgotten
CHECK_DEADLOCK FALSE
