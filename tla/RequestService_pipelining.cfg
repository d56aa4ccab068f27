\* One connection served at a time, with three requests on it, so that a read can
\* deliver one request, leave another in the buffer and cut a third.
CONSTANTS
    Conn = {c1, c2}
    Worker = {w1, w2}
    Caller = {m1}
    MaxRequests = 3
    NoConn = NoConn
    Free = Free
SPECIFICATION SomeSpec
SYMMETRY Symmetry
INVARIANTS TypeOK AnswersInOrder NoSelfDeadlock AcceptLoopIntact MessagesParsed ReceiverGetsContent EncodingsAgree
