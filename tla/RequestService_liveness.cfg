\* Liveness needs every state, so no symmetry: two connection objects, one served
\* while the other accepts, one request on it; and two threads with one caller, or one
\* thread with two callers whose start() and stop() overlap.
CONSTANTS
    Conn = {c1, c2}
    Worker = {w1, w2}
    Caller = {m1, m2}
    Others = {w2, m2}
    MaxRequests = 1
    NoConn = NoConn
    Free = Free
SPECIFICATION PresentSpec
PROPERTIES ClosingEnds KeepsAccepting
