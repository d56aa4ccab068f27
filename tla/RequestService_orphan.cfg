\* Does a handler that returns always leave its connection in somebody's hands?
CONSTANTS
    Conn = {c1, c2}
    Worker = {w1}
    Caller = {m1}
    MaxRequests = 1
    NoConn = NoConn
    Free = Free
SPECIFICATION Spec
INVARIANT HandledConnectionsFinish
