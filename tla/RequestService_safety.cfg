\* Two threads, three connection objects (two served while a third accepts), and two
\* callers whose start() and stop() overlap.
CONSTANTS
    Conn = {c1, c2, c3}
    Worker = {w1, w2}
    Caller = {m1, m2}
    MaxRequests = 1
    NoConn = NoConn
    Free = Free
SPECIFICATION Spec
SYMMETRY Symmetry
INVARIANTS OneOwner QuietWhenDown AcceptLoopAlive
PROPERTY BusyStaysOpen
